---------------------------- MODULE StrategyCompiler ---------------------------
(***************************************************************************)
(* How authored Cohorts and Strategies become the plan of a run            *)
(* (src/src/orchestration.ts).  The compiler collects all errors and then  *)
(* refuses, so what it accepts is stated here: a Strategy compiles when    *)
(* every condition holds of every stage, seen from the stages before it.   *)
(*                                                                         *)
(* A Cohort is [members, maxMembers, maxConcurrentMembers] with members    *)
(* [specialist, min, max]; a Strategy is [cohort, stages, advancement,     *)
(* completion, limits, memberFailure]; a limit that is not given is None.  *)
(* A profile is the [result, active] of a compiled Specialist.  Objectives,*)
(* prompts and digests are left out.                                       *)
(***************************************************************************)
EXTENDS PlanGraph, Sequences

CohortCeiling == 16

Or(value, default) == IF value = None THEN default ELSE value

Injective(list) == \A i, j \in DOMAIN list : list[i] = list[j] => i = j

(* compiledCohort: None when it is refused.                                *)
compiledCohort(spec, profiles) ==
  LET slots == DOMAIN spec.members
      least == [m \in slots |-> Or(spec.members[m].min, 1)]
      most == [m \in slots |-> Or(spec.members[m].max, 1)]
      maxMembers == Or(spec.maxMembers, Total(most))
      maxConcurrentMembers == Or(spec.maxConcurrentMembers, maxMembers)
  IN  IF /\ slots # {}
         /\ \A m \in slots : spec.members[m].specialist \in DOMAIN profiles /\ least[m] <= most[m]
         /\ Total(most) <= CohortCeiling
         /\ maxMembers \in Total(least)..CohortCeiling
         /\ maxConcurrentMembers <= maxMembers
      THEN [members |-> [m \in slots |->
              [specialist |-> spec.members[m].specialist, min |-> least[m], max |-> most[m],
               active |-> profiles[spec.members[m].specialist].active]],
            maxMembers |-> maxMembers, maxConcurrentMembers |-> maxConcurrentMembers]
      ELSE None

-----------------------------------------------------------------------------
(* Stages: [kind, id, member, mode, inputs, artifact, contract, count,     *)
(* minSuccess, allowDegraded, after], inputs and after being lists.        *)

Fans(stage) == stage.kind = "fanout"

Degraded(stage) == Fans(stage) /\ stage.allowDegraded /\ stage.minSuccess < stage.count

expectedAgentCount(stage) == IF Fans(stage) THEN stage.count ELSE 1

ObjectiveArtifact ==
  [artifact |-> "objective", contract |-> "objective-v1", collection |-> FALSE,
   availability |-> "required", producer |-> None]

stageOutput(stage) ==
  [artifact |-> stage.artifact, contract |-> stage.contract, collection |-> Fans(stage),
   availability |-> IF Degraded(stage) THEN "degraded" ELSE "required", producer |-> stage.id]

(* What the stages up to i have produced.                                  *)
ArtifactsUpTo(stages, i) == {ObjectiveArtifact} \cup {stageOutput(stages[j]) : j \in 1..i}

Named(artifacts, name) == {a \in artifacts : a.artifact = name}

(* hasStrategyDependencyCycle: over after and over who makes what.         *)
hasStrategyDependencyCycle(stages) ==
  LET ids == {stages[i].id : i \in DOMAIN stages}
      edges ==
        {e \in {Edge(from, to, "any", None) : from, to \in ids} :
           \E s \in {stages[i] : i \in DOMAIN stages} :
             /\ s.id = e.to
             /\ \/ \E k \in DOMAIN s.after : s.after[k] = e.from
                \/ \E k \in DOMAIN s.inputs, p \in {stages[i] : i \in DOMAIN stages} :
                     p.id = e.from /\ p.artifact = s.inputs[k].artifact}
  IN  ~validateAcyclic(ids, edges)

(* An input fits an artifact of its name: contract and cardinality agree,  *)
(* and a degraded one is taken as optional, a required one is not.         *)
Fits(input, artifacts) ==
  \E a \in Named(artifacts, input.artifact) :
    /\ a.contract = input.contract /\ a.collection = input.collection
    /\ (a.availability = "degraded") = input.optional

(* Each stage, seen from the ones before it.                               *)
StageAccepted(stages, i, team, profiles) ==
  LET stage == stages[i]
      member == team.members[stage.member]
      before == ArtifactsUpTo(stages, i - 1)
  IN  /\ Injective(stage.after)
      /\ \A k \in DOMAIN stage.after :
           stage.after[k] \in {stages[j].id : j \in DOMAIN stages} \ {stage.id}
      /\ stage.member \in DOMAIN team.members
      /\ \A k \in DOMAIN stage.inputs : Fits(stage.inputs[k], before)
      /\ Named(before, stage.artifact) = {}
      /\ profiles[member.specialist].result = stage.contract
      /\ ~(stage.kind = "delegate" /\ stage.mode = "continuable")
      /\ IF Fans(stage)
         THEN /\ stage.count \in member.min..member.max
              /\ stage.minSuccess <= stage.count
              /\ stage.allowDegraded \/ stage.minSuccess = stage.count
         ELSE member.min <= 1

(* The limits of a template: no more at a time than the Cohort allows.     *)
effectiveLimits(limits, team) ==
  LET bounds == {limits.maxConcurrent, limits.maxAgents, team.maxConcurrentMembers}
  IN  [limits EXCEPT !.maxConcurrent = CHOOSE n \in bounds : \A m \in bounds : n <= m]

(* How many participants of a member slot a Strategy needs at once.        *)
memberDemand(stages, m) ==
  Largest({expectedAgentCount(stages[i]) : i \in {j \in DOMAIN stages : stages[j].member = m}})

AgentsOf(stages) == Total([i \in DOMAIN stages |-> expectedAgentCount(stages[i])])
LargestParallel(stages) == Largest({1} \cup {expectedAgentCount(stages[i]) : i \in DOMAIN stages})

AdvancementAccepted(advancement, team) ==
  advancement # None =>
    /\ {advancement.plannerMember, advancement.verifierMember} \subseteq DOMAIN team.members
    /\ advancement.maxNoProgressMilestones <= advancement.maxMilestones
    /\ Injective(advancement.pauseOn)

(* The conditions of compileStrategyTemplate.                              *)
TemplateAccepted(spec, team, profiles) ==
  LET stages == spec.stages
      demand == [m \in DOMAIN team.members |-> memberDemand(stages, m)]
  IN  /\ AdvancementAccepted(spec.advancement, team)
      /\ ~hasStrategyDependencyCycle(stages)
      /\ Injective([i \in DOMAIN stages |-> stages[i].id])
      /\ \A i \in DOMAIN stages : StageAccepted(stages, i, team, profiles)
      /\ \A m \in DOMAIN team.members : demand[m] >= team.members[m].min
      /\ Total(demand) <= team.maxMembers
      /\ AgentsOf(stages) <= spec.limits.maxAgents
      /\ LargestParallel(stages) <= effectiveLimits(spec.limits, team).maxConcurrent
      /\ \E a \in Named(ArtifactsUpTo(stages, Len(stages)), spec.completion.artifact) :
           a.contract = spec.completion.contract /\ ~a.collection
      /\ spec.memberFailure = "fail" => \A i \in DOMAIN stages : ~Degraded(stages[i])

PrimitiveOf(stage, team) ==
  [kind |-> IF Fans(stage) THEN "dsh-subagent-fanout" ELSE "dsh-delegate",
   mode |-> "foreground", stage |-> stage.id, member |-> stage.member,
   specialist |-> team.members[stage.member].specialist,
   inputs |-> {stage.inputs[k].artifact : k \in DOMAIN stage.inputs},
   output |-> stageOutput(stage),
   after |-> {stage.after[k] : k \in DOMAIN stage.after},
   count |-> expectedAgentCount(stage),
   minSuccess |-> IF Fans(stage) THEN stage.minSuccess ELSE 1,
   allowDegraded |-> Fans(stage) /\ stage.allowDegraded]

(* compileStrategyTemplate: None when it is refused.                       *)
compileStrategyTemplate(spec, team, profiles) ==
  IF team = None THEN None
  ELSE IF ~TemplateAccepted(spec, team, profiles) THEN None
  ELSE LET artifacts == ArtifactsUpTo(spec.stages, Len(spec.stages))
       IN  [primitives |-> {PrimitiveOf(spec.stages[i], team) : i \in DOMAIN spec.stages},
            artifacts |-> [name \in {a.artifact : a \in artifacts} |->
                             CHOOSE a \in Named(artifacts, name) : TRUE],
            completion |-> spec.completion,
            limits |-> effectiveLimits(spec.limits, team),
            memberFailure |-> spec.memberFailure,
            active |-> \A i \in DOMAIN spec.stages : team.members[spec.stages[i].member].active]

(* compileOrchestrationCatalog: what is refused is missing from the catalog*)
(* and makes it unusable (assertOrchestrationCatalogUsable).               *)
compileOrchestrationCatalog(cohorts, strategies, profiles) ==
  LET teams == [n \in DOMAIN cohorts |-> compiledCohort(cohorts[n], profiles)]
      Team(spec) == IF spec.cohort \in DOMAIN teams THEN teams[spec.cohort] ELSE None
      templates == [n \in DOMAIN strategies |->
                      compileStrategyTemplate(strategies[n], Team(strategies[n]), profiles)]
      Kept(f) == [n \in {x \in DOMAIN f : f[x] # None} |-> f[n]]
  IN  [cohorts |-> Kept(teams), strategies |-> Kept(templates),
       usable |-> \A n \in DOMAIN teams : teams[n] # None
                  /\ \A x \in DOMAIN templates : templates[x] # None]

(* narrowedLimits: each limit of the request must not exceed the compiled  *)
(* one; they are not compared with one another.                            *)
narrowedLimits(limits, requested) ==
  IF \A f \in DOMAIN requested : f \in DOMAIN limits /\ requested[f] \in 1..limits[f]
  THEN [f \in DOMAIN limits |-> IF f \in DOMAIN requested THEN requested[f] ELSE limits[f]]
  ELSE None

(* compileStrategy: the plan of one request [strategy, limits], or None.   *)
compileStrategy(catalog, request) ==
  IF request.strategy \notin DOMAIN catalog.strategies THEN None
  ELSE LET template == catalog.strategies[request.strategy]
           limits == narrowedLimits(template.limits, request.limits)
           needed == Total([p \in template.primitives |-> p.count])
           parallel == Largest({1} \cup {p.count : p \in template.primitives})
       IN  IF /\ template.active /\ limits # None
              /\ limits.maxAgents >= needed /\ limits.maxConcurrent >= parallel
           THEN [template EXCEPT !.limits = limits]
           ELSE None

-----------------------------------------------------------------------------

(* Whatever plan the compiler hands out lowers to a graph of a durable run *)
(* and its agents fit the limits and the member slots; and the graph can   *)
(* be read back from the journal, except when the request narrowed         *)
(* maxAgents below maxConcurrent: the compiler narrows each limit by       *)
(* itself, while the reader refuses that pair (materializeStrategyLimits). *)
StrategiesBecomeGraphs(cohorts, strategies, profiles, request) ==
  LET catalog == compileOrchestrationCatalog(cohorts, strategies, profiles)
      plan == compileStrategy(catalog, request)
  IN  plan # None =>
        LET graph == compileStaticPlanGraph(plan)
            team == catalog.cohorts[strategies[request.strategy].cohort]
        IN  /\ Compiles(plan)
            /\ materializePlanGraph(graph) = (plan.limits.maxConcurrent <= plan.limits.maxAgents)
            /\ request.limits = <<>> => materializePlanGraph(graph)
            /\ \A p \in plan.primitives : p.count <= team.members[p.member].max
            /\ deriveReadyFrontier(graph, [t \in DOMAIN graph.nodes |-> [status |-> "pending", attempts |-> 0]],
                 [n \in DOMAIN plan.artifacts |-> Missing]) # {}
==============================================================================
