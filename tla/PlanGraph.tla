------------------------------- MODULE PlanGraph -------------------------------
(***************************************************************************)
(* The task graph of a durable run (src/src/durable-run/graph.ts): what a  *)
(* primitive, a task and a graph must satisfy, how a compiled Strategy     *)
(* becomes version 1 of a graph, and which of its tasks are ready.  A task *)
(* is named <<0, n>> in the Strategy and <<delta, n>> when a delta made    *)
(* it; contracts, members and Specialists are model values, and a digest   *)
(* is the value it is computed from.                                       *)
(***************************************************************************)
EXTENDS Absence, Totals, FiniteSets

CONSTANTS FanoutMax, LimitMaximums

Objective == [artifact |-> "objective", contract |-> "objective-v1",
              collection |-> FALSE, required |-> TRUE]

(* materializeDshPrimitive: a fanout yields a collection, and a degraded   *)
(* one may yield it incomplete.                                            *)
ValidPrimitive(p) ==
  LET fanout == p.kind = "dsh-subagent-fanout"
  IN /\ p.kind \in {"dsh-delegate", "dsh-subagent-fanout"}
     /\ ~fanout => p.mode \in {"foreground", "continuable"} /\ p.count = 1
     /\ p.count \in 1..FanoutMax /\ p.minSuccess \in 1..p.count
     /\ p.allowDegraded \/ p.minSuccess = p.count
     /\ p.output.collection = fanout
     /\ p.output.availability = IF fanout /\ p.allowDegraded /\ p.minSuccess < p.count
                                THEN "degraded" ELSE "required"
     /\ p.output.producer \in {None, p.stage}

(* materializeInvokeTaskSpecBody: the public part says what the primitive  *)
(* says, and a durable task is foreground.                                 *)
ValidTaskBody(t) ==
  LET p == t.primitive
  IN /\ ValidPrimitive(p)
     /\ p.kind = "dsh-delegate" => p.mode = "foreground"
     /\ \A i \in t.inputs : i.artifact = "objective" => i = Objective
     /\ t.output.artifact # "objective" /\ t.output.contract # "objective-v1"
     /\ t.effectClass \in {"read", "idempotent-write", "non-idempotent-write"}
     /\ t.memberFailure \in {"fail", "allow-partial"}
     /\ t.member = p.member /\ t.profile = p.specialist
     /\ t.output = [artifact |-> p.output.artifact, contract |-> p.output.contract,
                    collection |-> p.output.collection]
     /\ {i.artifact : i \in t.inputs} = p.inputs
     /\ Cardinality(t.inputs) = Cardinality(p.inputs)
     /\ t.agentCount = p.count

materializeStrategyLimits(limits) ==
  /\ \A f \in DOMAIN LimitMaximums : limits[f] \in 1..LimitMaximums[f]
  /\ limits.maxConcurrent <= limits.maxAgents

Edge(from, to, reason, artifact) ==
  [from |-> from, to |-> to, reason |-> reason, artifact |-> artifact]

(* Mutant of validateAcyclic: it is enough that some task can start.       *)
SomeRoot(taskIds, edges) ==
  taskIds = {} \/ \E t \in taskIds : \A e \in edges : e.to # t

(* Kahn's algorithm: take away the tasks without predecessors until none   *)
(* can be taken; a cycle is what is left.                                  *)
validateAcyclic(taskIds, edges) ==
  LET ready(S) == {t \in S : \A e \in edges : e.to = t => e.from \in taskIds \ S}
      left[S \in SUBSET taskIds] == IF ready(S) = {} THEN S ELSE left[S \ ready(S)]
  IN left[taskIds] = {}

Producers(nodes, artifact) == {t \in DOMAIN nodes : nodes[t].output.artifact = artifact}

CompatibleProducer(producer, input) ==
  /\ producer.output.contract = input.contract
  /\ producer.output.collection = input.collection
  /\ input.required = (producer.primitive.output.availability = "required")

(* The artifact edges that the inputs of the tasks call for.               *)
ArtifactEdges(nodes) ==
  UNION {{Edge(from, to, "artifact", i.artifact) :
            i \in {j \in nodes[to].inputs : from \in Producers(nodes, j.artifact)}} :
         from, to \in DOMAIN nodes}

AfterEdges(nodes) ==
  UNION {{Edge(from, to, "after", None) : from \in nodes[to].primitive.after} :
         to \in DOMAIN nodes}

(* One producer per artifact, each input from a compatible one, the edges  *)
(* that the tasks call for and no artifact edge besides, within the limits.*)
validatePlanGraphSemantics(nodes, edges, completion, limits) ==
  /\ \A t \in DOMAIN nodes : nodes[t].agentCount <= limits.maxConcurrent
  /\ Total([t \in DOMAIN nodes |-> nodes[t].agentCount]) <= limits.maxAgents
  /\ \A s, t \in DOMAIN nodes : nodes[s].output.artifact = nodes[t].output.artifact => s = t
  /\ \A t \in DOMAIN nodes :
       /\ nodes[t].primitive.after \subseteq DOMAIN nodes \ {t}
       /\ \A i \in nodes[t].inputs \ {Objective} :
            \E s \in Producers(nodes, i.artifact) : CompatibleProducer(nodes[s], i)
  /\ ArtifactEdges(nodes) \cup AfterEdges(nodes) \subseteq edges
  /\ {e \in edges : e.reason = "artifact"} \subseteq ArtifactEdges(nodes)
  /\ \/ completion.artifact = "objective" /\ completion.contract = "objective-v1"
     \/ \E t \in Producers(nodes, completion.artifact) :
          /\ completion.artifact # "objective"
          /\ nodes[t].output.contract = completion.contract
          /\ ~nodes[t].output.collection

(* A stage of a compiled Strategy as a task of the graph.                  *)
TaskOfStage(plan, p) ==
  [primitive |-> p, member |-> p.member, profile |-> p.specialist,
   agentCount |-> p.count,
   inputs |-> {LET a == plan.artifacts[name]
               IN [artifact |-> name, contract |-> a.contract, collection |-> a.collection,
                   required |-> a.availability = "required"] : name \in p.inputs},
   output |-> [artifact |-> p.output.artifact, contract |-> p.output.contract,
               collection |-> p.output.collection],
   effectClass |-> "read", memberFailure |-> plan.memberFailure]

StaticNodes(plan) ==
  [t \in {p.stage : p \in plan.primitives} |->
     TaskOfStage(plan, CHOOSE p \in plan.primitives : p.stage = t)]

StaticEdges(plan) ==
  UNION {{Edge(from, p.stage, "after", None) : from \in p.after}
           \cup {Edge(plan.artifacts[name].producer, p.stage, "artifact", name) :
                   name \in {n \in p.inputs : plan.artifacts[n].producer # None}} :
         p \in plan.primitives}

(* A Strategy that does not compile has no graph.                          *)
Compiles(plan) ==
  LET nodes == StaticNodes(plan) edges == StaticEdges(plan)
  IN /\ \A p \in plan.primitives :
          /\ p.inputs \subseteq DOMAIN plan.artifacts
          /\ ValidPrimitive(p)
          /\ p.after \subseteq DOMAIN nodes \ {p.stage}
     /\ validateAcyclic(DOMAIN nodes, edges)
     /\ validatePlanGraphSemantics(nodes, edges, plan.completion, plan.limits)

compileStaticPlanGraph(plan) ==
  [planVersion |-> 1, nodes |-> StaticNodes(plan), edges |-> StaticEdges(plan),
   completion |-> plan.completion, limits |-> plan.limits]

(* The checks of evolvePlanGraph on the next version of a graph.           *)
Evolves(base, nodes, edges, limits) ==
  /\ \A t \in DOMAIN nodes :
       /\ ValidTaskBody(nodes[t])
       /\ nodes[t].primitive.stage = t /\ nodes[t].primitive.output.producer = t
  /\ \A e \in edges : {e.from, e.to} \subseteq DOMAIN nodes
  /\ validateAcyclic(DOMAIN nodes, edges)
  /\ validatePlanGraphSemantics(nodes, edges, base.completion, limits)

evolvePlanGraph(base, planVersion, nodes, edges, limits) ==
  [planVersion |-> planVersion, nodes |-> nodes, edges |-> edges,
   completion |-> base.completion, limits |-> limits]

(* What a reader of the journal demands of a graph it finds there.         *)
materializePlanGraph(graph) ==
  /\ materializeStrategyLimits(graph.limits)
  /\ Evolves(graph, graph.nodes, graph.edges, graph.limits)

(* The value of a missing artifact.                                        *)
Missing == [contract |-> None]

Incoming(graph, task) == {e \in graph.edges : e.to = task}

Blocked(graph, task, tasks, artifacts) ==
  \/ tasks[task].status # "pending" \/ tasks[task].attempts >= 1
  \/ \E e \in Incoming(graph, task) :
       tasks[e.from].status \in {"failed", "cancelled", "blocked"}
  \/ \E i \in graph.nodes[task].inputs \ {Objective} :
       /\ artifacts[i.artifact] # Missing
       /\ artifacts[i.artifact] # [contract |-> i.contract, collection |-> i.collection]

Waiting(graph, task, tasks, artifacts) ==
  \/ \E e \in Incoming(graph, task) : tasks[e.from].status # "succeeded"
  \/ \E i \in graph.nodes[task].inputs \ {Objective} :
       i.required /\ artifacts[i.artifact] = Missing

(* A task whose dependency was superseded waits: it is not blocked.        *)
deriveTaskReadiness(graph, task, tasks, artifacts) ==
  IF Blocked(graph, task, tasks, artifacts) THEN "blocked"
  ELSE IF Waiting(graph, task, tasks, artifacts) THEN "waiting" ELSE "ready"

(* The order of the frontier is left to its user.                          *)
deriveReadyFrontier(graph, tasks, artifacts) ==
  {t \in DOMAIN graph.nodes : deriveTaskReadiness(graph, t, tasks, artifacts) = "ready"}

==============================================================================
