----------------------------- MODULE PlanActivation ----------------------------
(***************************************************************************)
(* A durable run that advances by bounded activations of its task graph    *)
(* (runStaticDagActivation of src/src/durable-run/controller.ts) while     *)
(* deltas make new versions of the graph (plan-delta.ts).                  *)
(*                                                                         *)
(* External, from how the controller and its tests use it: the port, which *)
(* appends and flushes a batch of prepared or settled tasks and executes   *)
(* one; the owner of the run, who starts one activation after the other    *)
(* from what the journal says and appends an accepted version at once,     *)
(* also while tasks execute; the children, which end in any order.         *)
(***************************************************************************)
EXTENDS PlanDelta, TLC

CONSTANTS
  Strategies,    \* the compiled Strategies a run may begin with
  Proposals,     \* the proposals that may be made
  Authorities,   \* the authorities they may be made under
  Deployment,    \* the authority of the deployment
  DeltaBounds,   \* [maxNodes, maxPlanVersions]
  Bounds,        \* the bounds an activation may have: [maxStarts, maxConcurrent]
  OutputBytes    \* the sizes an artifact may have

(* The tasks of a Strategy are named <<0, n>>, and those of a delta after  *)
(* it; no artifact lacks a name; an authority says which members and which *)
(* effects each of its Specialists may have.                               *)
ASSUME NamesAssumption ==
  /\ \A s \in Strategies : /\ IsFiniteSet(s.primitives)
                           /\ \A p \in s.primitives : p.stage \in {0} \X Nat /\ None \notin p.inputs
  /\ \A proposal \in Proposals :
       /\ proposal.deltaId \in Nat \ {0} /\ IsFiniteSet(proposal.operations)
       /\ \A op \in Operations(proposal, "add-node") :
            /\ op.localId \in Nat /\ None \notin op.node.primitive.inputs
            /\ {"primitive", "profile", "member", "agentCount", "inputs", "effectClass"}
                 \subseteq DOMAIN op.node
  /\ \A authority \in Authorities : \A profile \in DOMAIN authority.profiles :
       {"members", "effectClasses"} \subseteq DOMAIN authority.profiles[profile]

ASSUME NumbersAssumption ==
  /\ FanoutMax \in Nat \ {0} /\ OutputBytes \subseteq Nat
  /\ LimitMaximums \in [{"maxAgents", "maxConcurrent", "maxOutputBytes"} -> Nat]
  /\ \A bounds \in Bounds : bounds.maxStarts \in Nat /\ bounds.maxConcurrent \in Nat

VARIABLES
  plan,          \* the current version of the graph
  tasks,         \* the tasks of the journal
  artifacts,     \* the accepted artifacts, by name
  usage,         \* [agents, bytes] used so far
  dag,           \* the activation
  children,      \* the tasks that execute
  aborted,
  begun          \* history: each task that began, as its version had it

planVars == <<plan, tasks, artifacts, usage, dag, children, aborted, begun>>

NewTask == [status |-> "pending", attempts |-> 0]

NoActivation == [step |-> "idle", graph |-> None, admitted |-> {}, bounds |-> None,
                 bytes |-> 0, budget |-> 0, outcomes |-> <<>>]

(* Version 1 goes into the journal, which takes no graph that its readers  *)
(* refuse (src/src/durable-run/validate.ts:162).                           *)
PlanInit ==
  /\ \E s \in Strategies :
       /\ Compiles(s) /\ plan = compileStaticPlanGraph(s)
       /\ materializePlanGraph(plan)
  /\ tasks = [t \in DOMAIN plan.nodes |-> NewTask]
  /\ artifacts = [t \in {plan.nodes[t].output.artifact : t \in DOMAIN plan.nodes} |-> Missing]
  /\ usage = [agents |-> 0, bytes |-> 0]
  /\ dag = NoActivation /\ children = {} /\ aborted = FALSE /\ begun = {}

(* Generated names come before those of a Strategy.                        *)
Precedes(s, t) ==
  IF (s[1] = 0) = (t[1] = 0) THEN s[1] < t[1] \/ (s[1] = t[1] /\ s[2] < t[2])
  ELSE t[1] = 0

Agents(graph, S) == Total([t \in S |-> graph.nodes[t].agentCount])

(* The tasks of the frontier in their order, leaving out those for which   *)
(* too few agents are left.                                                *)
Admits(graph, frontier, remainingAgents, bounds, admitted) ==
  LET width == IF bounds.maxConcurrent < graph.limits.maxConcurrent
               THEN bounds.maxConcurrent ELSE graph.limits.maxConcurrent
      before(t) == {s \in admitted : Precedes(s, t)}
  IN admitted = {t \in frontier :
       /\ Cardinality(before(t)) < bounds.maxStarts
       /\ Agents(graph, before(t) \cup {t}) <= remainingAgents
       /\ Agents(graph, before(t) \cup {t}) <= width}

Remaining(limit, used) == IF used < limit THEN limit - used ELSE 0

(* The owner starts an activation, which appends the tasks it prepares.    *)
Prepare(bounds, admitted) ==
  /\ dag.step = "idle" /\ ~aborted
  /\ Admits(plan, deriveReadyFrontier(plan, tasks, artifacts),
            Remaining(plan.limits.maxAgents, usage.agents), bounds, admitted)
  /\ admitted # {} /\ usage.bytes < plan.limits.maxOutputBytes
  /\ dag' = [step |-> "prepared", graph |-> plan, admitted |-> admitted, bounds |-> bounds,
             bytes |-> usage.bytes, budget |-> 0, outcomes |-> <<>>]
  /\ tasks' = [t \in DOMAIN tasks |->
                 IF t \in admitted THEN [status |-> "running", attempts |-> 1] ELSE tasks[t]]
  /\ usage' = [usage EXCEPT !.agents = @ + Agents(plan, admitted)]
  /\ UNCHANGED <<plan, artifacts, children, aborted, begun>>

(* Mutant of OutputByteBudget: each task may fill what is left.            *)
WholeBudget(a) == Remaining(a.graph.limits.maxOutputBytes, a.bytes)

OutputByteBudget(a) ==
  Remaining(a.graph.limits.maxOutputBytes, a.bytes) \div Cardinality(a.admitted)

(* The prepared batch is flushed: the children start, unless the run was   *)
(* aborted meanwhile.                                                      *)
PreparedFlushed ==
  /\ dag.step = "prepared"
  /\ IF aborted THEN dag' = NoActivation /\ UNCHANGED <<children, begun>>
     ELSE /\ dag' = [dag EXCEPT !.step = "execute", !.budget = OutputByteBudget(dag)]
          /\ children' = children \cup dag.admitted
          /\ begun' = begun \cup
               {[task |-> t, node |-> dag.graph.nodes[t], edges |-> Incoming(dag.graph, t)] :
                t \in dag.admitted}
  /\ UNCHANGED <<plan, tasks, artifacts, usage, aborted>>

(* The flush fails, and the activation with it.                            *)
PreparedLost ==
  /\ dag.step = "prepared" /\ dag' = NoActivation
  /\ UNCHANGED <<plan, tasks, artifacts, usage, children, aborted, begun>>

(* What a child may come back with: right or wrong is whether the artifact *)
(* is the one its task is to produce.                                      *)
Outcomes == [kind : {"succeeded"}, bytes : OutputBytes, right : BOOLEAN]
              \cup {[kind |-> k, bytes |-> 0, right |-> TRUE] : k \in {"failed", "cancelled"}}

(* The answer of a child whose activation has failed is for nobody.        *)
ChildEnds(t, outcome) ==
  /\ t \in children /\ children' = children \ {t}
  /\ dag' = IF dag.step = "execute" /\ t \in dag.admitted
            THEN [dag EXCEPT !.outcomes = [c \in DOMAIN dag.outcomes \cup {t} |->
                    IF c = t THEN outcome ELSE dag.outcomes[c]]]
            ELSE dag
  /\ UNCHANGED <<plan, tasks, artifacts, usage, aborted, begun>>

(* One rejected execution rejects them all; the others go on.              *)
ChildRejects(t) ==
  /\ t \in children /\ children' = children \ {t}
  /\ dag' = IF dag.step = "execute" /\ t \in dag.admitted THEN NoActivation ELSE dag
  /\ UNCHANGED <<plan, tasks, artifacts, usage, aborted, begun>>

AllOutcomes == dag.step = "execute" /\ DOMAIN dag.outcomes = dag.admitted

validateOutcome(o, budget) == o.kind = "succeeded" => o.right /\ o.bytes <= budget

Succeeded(a) == {t \in DOMAIN a.outcomes : a.outcomes[t].kind = "succeeded"}

AcceptedBytes(a) == Total([t \in Succeeded(a) |-> a.outcomes[t].bytes])

Settleable ==
  /\ \A t \in DOMAIN dag.outcomes : validateOutcome(dag.outcomes[t], dag.budget)
  /\ dag.bytes + AcceptedBytes(dag) <= dag.graph.limits.maxOutputBytes

(* The outcomes are settled in one batch.                                  *)
Settle ==
  /\ AllOutcomes /\ Settleable
  /\ tasks' = [t \in DOMAIN tasks |->
                 IF t \in dag.admitted THEN [tasks[t] EXCEPT !.status = dag.outcomes[t].kind]
                 ELSE tasks[t]]
  /\ artifacts' = [name \in DOMAIN artifacts |->
       LET done == {t \in Succeeded(dag) : dag.graph.nodes[t].output.artifact = name}
       IN IF done = {} THEN artifacts[name]
          ELSE LET output == dag.graph.nodes[CHOOSE t \in done : TRUE].output
               IN [contract |-> output.contract, collection |-> output.collection]]
  /\ usage' = [usage EXCEPT !.bytes = @ + AcceptedBytes(dag)]
  /\ dag' = NoActivation
  /\ UNCHANGED <<plan, children, aborted, begun>>

(* An outcome is not accepted, or the settled batch is lost.               *)
SettleFails ==
  /\ AllOutcomes /\ dag' = NoActivation
  /\ UNCHANGED <<plan, tasks, artifacts, usage, children, aborted, begun>>

Abort ==
  /\ ~aborted /\ aborted' = TRUE
  /\ UNCHANGED <<plan, tasks, artifacts, usage, dag, children, begun>>

(* An accepted delta becomes the current plan, its tasks pending.          *)
Evolve(proposal, authority) ==
  LET decision == applyPlanDelta(plan, proposal)
      next == decision.graph
  IN /\ Accepts(plan, proposal, tasks, authority, Deployment, DeltaBounds)
     /\ plan' = next
     /\ tasks' = [t \in DOMAIN next.nodes |->
                    IF t \in decision.superseded THEN [tasks[t] EXCEPT !.status = "superseded"]
                    ELSE IF t \in DOMAIN tasks THEN tasks[t] ELSE NewTask]
     /\ artifacts' = [name \in {next.nodes[t].output.artifact : t \in DOMAIN next.nodes} |->
                        IF name \in DOMAIN artifacts THEN artifacts[name] ELSE Missing]
     /\ UNCHANGED <<usage, dag, children, aborted, begun>>

PlanNext ==
  \/ \E bounds \in Bounds, admitted \in SUBSET DOMAIN plan.nodes : Prepare(bounds, admitted)
  \/ PreparedFlushed \/ PreparedLost
  \/ \E t \in children :
       ChildRejects(t) \/ \E outcome \in Outcomes : ChildEnds(t, outcome)
  \/ Settle \/ SettleFails \/ Abort
  \/ \E proposal \in Proposals, authority \in Authorities : Evolve(proposal, authority)

PlanSpec == PlanInit /\ [][PlanNext]_planVars

-----------------------------------------------------------------------------
(* Properties.                                                             *)

(* "Every committed plan is immutable, acyclic, bounded, typed, and        *)
(* digest-addressed" (docs/adr/0016-evolving-dag-and-validated-plan-       *)
(* deltas.md:20): after any chain of deltas no set of tasks waits for one  *)
(* another, each input has one producer and an edge from it, and the plan  *)
(* passes what a reader of the journal demands.                            *)
PlanStaysExecutable ==
  /\ \A S \in (SUBSET DOMAIN plan.nodes) \ {{}} :
       \E t \in S : \A e \in Incoming(plan, t) : e.from \notin S
  /\ \A t \in DOMAIN plan.nodes : \A i \in plan.nodes[t].inputs \ {Objective} :
       Cardinality({e \in Incoming(plan, t) : e.artifact = i.artifact}) = 1
  /\ materializePlanGraph(plan)

(* Generated tasks have what the deployment allows, whatever authority a   *)
(* delta was made under.                                                   *)
DeltasStayWithinDeployment ==
  \A t \in DOMAIN plan.nodes : t[1] # 0 =>
    /\ plan.nodes[t].profile \in DOMAIN Deployment.profiles
    /\ plan.nodes[t].member \in Deployment.profiles[plan.nodes[t].profile].members
    /\ plan.nodes[t].effectClass \in Deployment.profiles[plan.nodes[t].profile].effectClasses

(* "A started or completed task is never changed in place"                 *)
(* (docs/evolving-dag.md:11): every version has each begun task and its    *)
(* dependencies as they were when it began, and all of them succeeded      *)
(* first, so that no delta puts a dependency before a task that began.     *)
HistoryStands ==
  \A b \in begun :
    /\ plan.nodes[b.task] = b.node
    /\ Incoming(plan, b.task) = b.edges
    /\ tasks[b.task].status \notin {"pending", "superseded"}
    /\ \A e \in b.edges : tasks[e.from].status = "succeeded"

(* The children of an activation are within its width, and all that ever   *)
(* started is within the plan's agents.  What an activation may settle     *)
(* keeps the bytes of the run within the output limit of the graph it was  *)
(* admitted under, though it counts from those it read before its children *)
(* ran.  The budgets given to the children are enough for that: when each  *)
(* keeps to its own, the activation does not fail on the sum.              *)
BudgetsHold ==
  /\ usage.agents <= plan.limits.maxAgents
  /\ dag.step # "idle" =>
       LET agents == Agents(dag.graph, dag.admitted)
       IN agents <= dag.bounds.maxConcurrent /\ agents <= dag.graph.limits.maxConcurrent
  /\ AllOutcomes /\ Settleable
       => usage.bytes + AcceptedBytes(dag) <= dag.graph.limits.maxOutputBytes
  /\ AllOutcomes /\ (\A t \in DOMAIN dag.outcomes : validateOutcome(dag.outcomes[t], dag.budget))
       => Settleable

==============================================================================
