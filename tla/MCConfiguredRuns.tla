---------------------------- MODULE MCConfiguredRuns ---------------------------
(***************************************************************************)
(* Bounded instance of what a configuration leads to.  The parts below have*)
(* no state in common, so a behaviour follows one of them:                 *)
(*   "plan"         the plan of a Strategy, its deltas and its activation  *)
(*   "admission"    the reservations of a run                              *)
(*   "row"          a delegation row between settings and registered tool  *)
(*   "call"         one Specialist call of that tool                       *)
(*   "resources"    the prompt files of a Specialist                       *)
(*   "tables"       the pure functions, over bounded inputs                *)
(***************************************************************************)
EXTENDS PlanActivation, Admission, Publication, Delegation, PromptResources, ConfigDocuments,
        StrategyCompiler, TLC

VARIABLE part

mcvars == <<part, planVars, admissionVars, rowVars, delegationVars, resourceVars>>

-----------------------------------------------------------------------------
(* The plan: a Strategy of four stages, one of them a fanout and one whose *)
(* artifact nobody needs, and proposals that add, wire, supersede and      *)
(* narrow, right and wrong.                                                *)

Output(artifact, fanout, availability, stage) ==
  [artifact |-> artifact, contract |-> "text", collection |-> fanout,
   availability |-> availability, producer |-> stage]

Delegate(stage, inputs, artifact, after) ==
  [kind |-> "dsh-delegate", mode |-> "foreground", stage |-> stage, member |-> "worker",
   specialist |-> "default", inputs |-> inputs,
   output |-> Output(artifact, FALSE, "required", stage), after |-> after,
   count |-> 1, minSuccess |-> 1, allowDegraded |-> FALSE]

Fanout(stage, artifact) ==
  [Delegate(stage, {"objective"}, artifact, {}) EXCEPT
     !.kind = "dsh-subagent-fanout", !.count = 2, !.allowDegraded = TRUE,
     !.output = Output(artifact, TRUE, "degraded", stage)]

a == <<0, 1>>   fan == <<0, 2>>   last == <<0, 3>>   side == <<0, 4>>

MCPrimitives == {Delegate(a, {"objective"}, "x", {}), Fanout(fan, "y"),
                 Delegate(last, {"x", "y"}, "z", {a}), Delegate(side, {"objective"}, "w", {})}

MCLimits == [maxAgents |-> 7, maxConcurrent |-> 3, maxOutputBytes |-> 5]

MCStrategy ==
  [primitives |-> MCPrimitives,
   artifacts |-> [n \in {"objective", "x", "y", "z", "w"} |->
     IF n = "objective"
     THEN [contract |-> "objective-v1", collection |-> FALSE,
           availability |-> "required", producer |-> None]
     ELSE (CHOOSE p \in MCPrimitives : p.output.artifact = n).output],
   completion |-> [artifact |-> "z", contract |-> "text"],
   limits |-> MCLimits, memberFailure |-> "fail"]

(* The second one does not compile: its stages wait for one another.       *)
MCStrategies == {MCStrategy,
  [MCStrategy EXCEPT !.primitives = {p \in MCPrimitives : p.stage # a}
                       \cup {Delegate(a, {"objective"}, "x", {last})}]}

Task(artifact, input, effect) ==
  LET p == Delegate(<<0, 9>>, {input}, artifact, {})
  IN [primitive |-> p, member |-> p.member, profile |-> p.specialist, agentCount |-> 1,
      inputs |-> {IF input = "objective" THEN Objective
                  ELSE [artifact |-> input, contract |-> "text", collection |-> FALSE,
                        required |-> TRUE]},
      output |-> [artifact |-> artifact, contract |-> "text", collection |-> FALSE],
      effectClass |-> effect, memberFailure |-> "fail"]

Add(n, node) == [kind |-> "add-node", localId |-> n, node |-> node]
After(from, to) == [kind |-> "add-edge", from |-> from, to |-> to, reason |-> "after",
                    artifact |-> None]
Wire(from, to, artifact) == [After(from, to) EXCEPT !.reason = "artifact", !.artifact = artifact]
Supersede(t, replacement) == [kind |-> "supersede-pending", taskId |-> t,
                              replacement |-> replacement]
Narrow(bytes) == [kind |-> "narrow-limits",
                  limits |-> [MCLimits EXCEPT !.maxOutputBytes = bytes]]

MCOperations ==
  {{Add(5, Task("u", "objective", "read")), After(<<0, 5>>, last)},
   {Add(6, Task("v", "w", "idempotent-write")), Wire(side, <<0, 6>>, "w")},
   {After(last, a)}, {After(side, a)},
   {Supersede(side, None), Narrow(3)},
   {Supersede(a, None)}}

MCProposals == {[deltaId |-> d, basePlanVersion |-> d, operations |-> ops] :
                  d \in {1, 2}, ops \in MCOperations}

Authority(effects) ==
  [maxDepth |-> 1, allowGoalRevision |-> FALSE,
   profiles |-> [p \in {"default"} |-> [members |-> {"worker"}, effectClasses |-> effects,
                                        others |-> {}]]]

MCAuthorities == {Authority({"read"}), Authority({"read", "idempotent-write"})}
MCDeployment == Authority({"read"})
MCDeltaBounds == [maxNodes |-> 6, maxPlanVersions |-> 3]
MCBounds == {[maxStarts |-> 2, maxConcurrent |-> 3], [maxStarts |-> 3, maxConcurrent |-> 2]}
MCLimitMaximums == [maxAgents |-> 32, maxConcurrent |-> 16, maxOutputBytes |-> 100]

-----------------------------------------------------------------------------
(* The row: five configurations, of which one renames the tool and needs an*)
(* adapter, one moves to another provider, one cannot be materialized by   *)
(* this row, and the files of one cannot be loaded.                        *)

CONSTANTS entry0, renamed, moved, bad, missing

MCToolOf == entry0 :> "a" @@ renamed :> "b" @@ moved :> "a" @@ bad :> "a" @@ missing :> "a"
MCProviderOf == entry0 :> "p" @@ renamed :> "q" @@ moved :> "q" @@ bad :> "p" @@ missing :> "p"

(* Bound: at the start at most one thing is not as one would have it.      *)
Favourable ==
  Cardinality(taken) + Cardinality({p \in Providers : providers[p] # "present"})
    + (IF adapters THEN 0 ELSE 1) <= 1

RowIdle ==
  /\ ~service /\ document = None /\ settingsRow = "absent"
  /\ providers = [p \in Providers |-> "present"] /\ adapters /\ taken = {}

-----------------------------------------------------------------------------
(* The call: a Specialist that runs in the background if it may, one with a*)
(* structured result, and one with two routes.                             *)

Candidate(id, provider, maxTokens, context, output, instructions) ==
  [id |-> id, provider |-> provider, maxTokens |-> maxTokens, minContext |-> context,
   minOutput |-> output, instructions |-> instructions]

Specialist(routes, persona, background, result) ==
  [provider |-> "spawn", options |-> FALSE, routes |-> routes, persona |-> persona,
   filter |-> FALSE, depth |-> FALSE, background |-> background, result |-> result]

MCRoutes == <<Candidate("x", "l1", None, 2, 2, FALSE), Candidate("y", "l2", 2, 1, 1, TRUE)>>

MCConfig ==
  [enableRunInBackground |-> TRUE, default |-> "plain",
   specialists |-> "plain" :> Specialist(None, TRUE, TRUE, "text")
                   @@ "strict" :> Specialist(None, FALSE, FALSE, "structured")
                   @@ "routed" :> Specialist(MCRoutes, FALSE, FALSE, "text")]

Provider(capabilities, continuable) ==
  [capabilities |-> capabilities, continuable |-> continuable]

Spawning(llm) == [providers |-> "spawn" :> Provider(Capabilities, TRUE), llm |-> llm]

MCSnapshots == {[providers |-> <<>>, llm |-> None], Spawning({}), Spawning(None)}
MCInvocations == [specialist : {None, "plain", "strict", "routed"}, background : {None, TRUE, FALSE}]
MCAnswers == [kind : {"unknown-model", "error", "invalid"}, context : {None}, tokens : {None}]
               \cup [kind : {"info"}, context : {1, 2}, tokens : {None, 2}]

CallIdle == snapshot = Spawning(None) /\ registered = {} /\ ~signalled

-----------------------------------------------------------------------------
(* The resources: two prompt files, each in a file of its own at first.    *)

MCPaths == <<"p", "q">>

ResourcesIdle ==
  entry = "p" :> 1 @@ "q" :> 2 /\ \A i \in Inodes : files[i].blocks = Version(1)

-----------------------------------------------------------------------------
(* The tables.                                                             *)

FunctionsIn(names, values) == UNION {[D -> values] : D \in SUBSET names}

CatalogLayersOf(id, names) ==
  {[id |-> id, define |-> f, disable |-> d] : f \in FunctionsIn(names, {id}), d \in SUBSET names}

(* Three layers of two names, four of one.                                 *)
LayersTable ==
  /\ \A x \in CatalogLayersOf("a", {"m", "n"}), y \in CatalogLayersOf("b", {"m", "n"}),
        z \in CatalogLayersOf("c", {"m", "n"}) : LastLayerWins(<<x, y, z>>)
  /\ \A w \in CatalogLayersOf("a", {"m"}), x \in CatalogLayersOf("b", {"m"}),
        y \in CatalogLayersOf("c", {"m"}), z \in CatalogLayersOf("d", {"m"}) : LastLayerWins(<<w, x, y, z>>)

PlainEntry == [routes |-> None, options |-> FALSE, filter |-> None, promptFiles |-> <<>>]
FullEntry ==
  [PlainEntry EXCEPT !.routes = <<[id |-> "r", maxTokens |-> 2, minOutput |-> 1]>>,
                     !.promptFiles = <<[root |-> "docs", path |-> "p"]>>]

EmptyDocument ==
  [version |-> 3, specialists |-> None, profiles |-> None, defaultSpecialist |-> None,
   defaultProfile |-> None, cohorts |-> None, teams |-> None, strategies |-> None, layers |-> <<>>,
   enableStrategies |-> None, enableDurableRuns |-> None, starts |-> None, tasks |-> None,
   roots |-> {"docs"}]

EmptyLayer(id) ==
  [id |-> id, specialists |-> None, profiles |-> None, cohorts |-> None, teams |-> None,
   strategies |-> None, disable |-> NoneDisabled]

Member(new, old) == "m" :> [specialist |-> new, profile |-> old]

DocumentLayers ==
  {<<>>,
   <<[EmptyLayer(<<"deployment", 1>>) EXCEPT !.profiles = "s" :> FullEntry, !.teams = "c" :> Member(None, "t")]>>,
   <<[EmptyLayer(<<"base", 1>>) EXCEPT !.specialists = "t" :> FullEntry, !.disable.profiles = {"s"},
                                      !.strategies = "h" :> [cohort |-> None, team |-> "c"]],
     [EmptyLayer(<<"more", 1>>) EXCEPT !.disable.specialists = {"t"}, !.disable.strategies = {"h"}]>>}

(* Documents in all words and layers, ...                                  *)
WordedDocuments ==
  {[EmptyDocument EXCEPT !.version = v, !.specialists = new, !.profiles = old, !.defaultSpecialist = d,
      !.defaultProfile = e, !.cohorts = c, !.teams = t, !.strategies = g, !.layers = l] :
     v \in {None, 2, 3}, new \in {None, "s" :> PlainEntry, "t" :> FullEntry}, old \in {None, "s" :> PlainEntry},
     d \in {None, "s"}, e \in {None, "s"}, c \in {None, "c" :> Member("s", None)},
     t \in {None} \cup {"c" :> Member(x, y) : x, y \in {None, "s"}},
     g \in {None} \cup {"g" :> [cohort |-> "c", team |-> x] : x \in {None, "c"}},
     l \in DocumentLayers}

(* ... and with all policies and flaws of a Specialist.                    *)
PolicyDocuments ==
  {[EmptyDocument EXCEPT !.version = v, !.profiles = "s" :> s, !.enableStrategies = e,
      !.enableDurableRuns = f, !.starts = n, !.tasks = m] :
     v \in {None, 1, 2, 3}, e \in {None, TRUE, FALSE}, f \in {None, TRUE}, n \in {None, 2, 3, 16},
     m \in {None, 3, 4},
     s \in {PlainEntry, FullEntry, [FullEntry EXCEPT !.options = TRUE],
            [PlainEntry EXCEPT !.filter = "empty"], [FullEntry EXCEPT !.promptFiles = @ \o @]}}

DocumentsTable == \A d \in WordedDocuments \cup PolicyDocuments : ExportsReadBack(d)

Routings == [id : {"x"}, provider : {"p"}, maxTokens : {None, 1, 2}, minContext : {None, 2},
             minOutput : {None, 2}, instructions : {FALSE}]
FactsOf == {Fact(k, [id |-> "x"]) : k \in {"adapter-missing", "rejected", "metadata-unknown"}}
             \cup [kind : {"resolved"}, id : {"x"}, context : {None, 1}, tokens : {None, 1, 2}]

RoutesTable ==
  \A n \in 1..2 : \A routes \in [1..n -> Routings], fs \in [1..n -> FactsOf] : RouteIsFirstAdmissible(routes, fs)

SomeSpecialists ==
  {[Specialist(r, p, b, result) EXCEPT !.options = o] :
     o \in BOOLEAN, p \in BOOLEAN, b \in BOOLEAN, result \in {"text", "structured"},
     r \in {None, <<Candidate("x", "l1", None, None, None, TRUE)>>}}
SomeConfigs ==
  {[enableRunInBackground |-> e, default |-> d, specialists |-> "s" :> s] :
     e \in BOOLEAN, d \in {None, "s"}, s \in SomeSpecialists}
SomeSnapshots ==
  {[providers |-> ps, llm |-> l] : l \in {None, {}, {"l1"}},
     ps \in {<<>>} \cup {"spawn" :> Provider(cs, c) :
              cs \in SUBSET {"agentOptions", "persona", "outputSchema"}, c \in BOOLEAN}}

CatalogTable ==
  \A c \in SomeConfigs, s \in SomeSnapshots,
     i \in [specialist : {None, "s", "t"}, background : {None, TRUE, FALSE}] : PlansRunAsCompiled(c, s, i)

Input(name, contract, collection, optional) ==
  [artifact |-> name, contract |-> contract, collection |-> collection, optional |-> optional]
Stage(kind, id, member, inputs, artifact, after) ==
  [kind |-> kind, id |-> id, member |-> member, mode |-> "foreground", inputs |-> inputs,
   artifact |-> artifact, contract |-> "text", count |-> 1, minSuccess |-> 1,
   allowDegraded |-> FALSE, after |-> after]
TheObjective == Input("objective", "objective-v1", FALSE, FALSE)

FirstStages ==
  {[Stage(kind, "one", "worker", <<TheObjective>>, "x", after) EXCEPT
      !.count = n, !.minSuccess = least, !.allowDegraded = degraded] :
     kind \in {"delegate", "fanout"}, after \in {<<>>, <<"two">>}, n \in {1, 2}, least \in {1, 2},
     degraded \in BOOLEAN}
SecondStages ==
  {Stage("synthesize", id, "writer", <<input>>, artifact, after) :
     id \in {"one", "two"}, input \in {TheObjective} \cup {Input("x", "text", c, o) : c, o \in BOOLEAN},
     artifact \in {"x", "y"}, after \in {<<>>, <<"one">>, <<"one", "one">>}}
WideLimits == [maxAgents |-> 9, maxConcurrent |-> 9, maxOutputBytes |-> 9]
StrategyOf(first, second, limits, failure) ==
  [cohort |-> "team", stages |-> <<first, second>>, advancement |-> None,
   completion |-> [artifact |-> "y", contract |-> "text"], limits |-> limits, memberFailure |-> failure]
TeamOf(least, most, members, concurrent) ==
  [members |-> [m \in {"worker", "writer"} |->
                  [specialist |-> m, min |-> IF m = "worker" THEN least ELSE None,
                   max |-> IF m = "worker" THEN most ELSE None]],
   maxMembers |-> members, maxConcurrentMembers |-> concurrent]
ProfilesOf(on) == [p \in {"worker", "writer"} |-> [result |-> "text", active |-> on]]
Narrowing(limits) == [strategy |-> "s", limits |-> limits]

(* All pairs of stages under some limits, and one pair under all Cohorts.  *)
StrategiesTable ==
  /\ \A first \in FirstStages, second \in SecondStages, n \in {2, 3}, failure \in {"fail", "allow-partial"} :
       StrategiesBecomeGraphs(
         "team" :> TeamOf(None, 2, None, None),
         "s" :> StrategyOf(first, second, [WideLimits EXCEPT !.maxAgents = n, !.maxConcurrent = 2], failure),
         ProfilesOf(TRUE), Narrowing(<<>>))
  /\ LET first == [Stage("fanout", "one", "worker", <<TheObjective>>, "x", <<>>) EXCEPT
                     !.count = 2, !.allowDegraded = TRUE]
         second == Stage("synthesize", "two", "writer", <<Input("x", "text", TRUE, TRUE)>>, "y", <<>>)
     IN  \A least \in {None, 0, 2}, most \in {None, 2, 3}, members \in {None, 2, 3, 4},
            concurrent \in {None, 2, 4}, on \in BOOLEAN,
            limits \in {<<>>, "maxAgents" :> 3} \cup [{"maxAgents", "maxConcurrent"} -> {2, 3, 9}] :
           StrategiesBecomeGraphs(
             "team" :> TeamOf(least, most, members, concurrent),
             "s" :> StrategyOf(first, second, WideLimits, "allow-partial"),
             ProfilesOf(on), Narrowing(limits))

(* Every graph of four tasks, and every number of outputs up to seven: the *)
(* critical path is the longest chain, and the tree that reduces the       *)
(* outputs loses none.                                                     *)
ReportsTable ==
  /\ \A edges \in SUBSET {<<s, t>> \in (1..4) \X (1..4) : s < t} :
       critical(1..4, edges) = LongestChain(1..4, edges)
  /\ \A n \in 1..7, maxInputs \in {2, 3} : ReducesAll([i \in 1..n |-> i], maxInputs)

TablesAgree ==
  /\ LayersTable /\ DocumentsTable /\ RoutesTable /\ CatalogTable /\ StrategiesTable /\ ReportsTable

-----------------------------------------------------------------------------

MCInit ==
  /\ part \in {"plan", "admission", "row", "call", "resources", "tables"}
  /\ PlanInit /\ AdmissionInit
  /\ PublicationInit /\ IF part = "row" THEN Favourable ELSE RowIdle
  /\ DelegationInit /\ (part # "call" => CallIdle)
  /\ ResourcesInit /\ ResourcesIdle

MCNext ==
  /\ UNCHANGED part
  /\ \/ /\ part = "plan" /\ PlanNext
        /\ UNCHANGED <<admissionVars, rowVars, delegationVars, resourceVars>>
     \/ /\ part = "admission" /\ AdmissionNext
        /\ UNCHANGED <<planVars, rowVars, delegationVars, resourceVars>>
     \/ /\ part = "row" /\ PublicationStep
        /\ UNCHANGED <<planVars, admissionVars, delegationVars, resourceVars>>
     \/ /\ part = "call" /\ DelegationStep
        /\ UNCHANGED <<planVars, admissionVars, rowVars, resourceVars>>
     \/ /\ part = "resources" /\ ResourcesStep
        /\ UNCHANGED <<planVars, admissionVars, rowVars, delegationVars>>

MCSpec == MCInit /\ [][MCNext]_mcvars

(* The tables hold of everything in them: the catalog layers, the          *)
(* documents, the routes, the catalogs of Specialists, the Strategies and  *)
(* the reports of a run.                                                   *)
TablesHold == part = "tables" => TablesAgree
==============================================================================
