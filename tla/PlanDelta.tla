------------------------------- MODULE PlanDelta -------------------------------
(***************************************************************************)
(* How a proposal becomes the next version of a plan                       *)
(* (src/src/durable-run/plan-delta.ts).  A proposal is                     *)
(* [deltaId, basePlanVersion, operations]; its tasks refer to tasks by     *)
(* <<0, n>>, a local name or one of the Strategy, or by a full name.  An   *)
(* authority gives each Specialist the members, the effects and the other  *)
(* things (tools, providers, models, routes) its tasks may have.           *)
(***************************************************************************)
EXTENDS PlanGraph

Operations(proposal, kind) == {op \in proposal.operations : op.kind = kind}

(* The generated name of a local one.                                      *)
Generated(proposal, n) == <<proposal.deltaId, n>>

Locals(proposal) == {op.localId : op \in Operations(proposal, "add-node")}

resolve(proposal, nodes, reference) ==
  IF reference[1] = 0 /\ reference[2] \in Locals(proposal)
  THEN {Generated(proposal, reference[2])}
  ELSE {reference} \cap DOMAIN nodes

isAuthoritySubset(candidate, ceiling) ==
  /\ candidate.maxDepth <= ceiling.maxDepth
  /\ candidate.allowGoalRevision => ceiling.allowGoalRevision
  /\ DOMAIN candidate.profiles \subseteq DOMAIN ceiling.profiles
  /\ \A profile \in DOMAIN candidate.profiles :
       \A field \in DOMAIN candidate.profiles[profile] :
         candidate.profiles[profile][field] \subseteq ceiling.profiles[profile][field]

limitsNarrower(next, base) == \A f \in DOMAIN base : next[f] <= base[f]

(* materializePlanDeltaProposal: a model may not author a fanout, and a    *)
(* local name is used once.                                                *)
WellFormed(proposal) ==
  /\ \A op \in Operations(proposal, "add-node") :
       ValidTaskBody(op.node) /\ op.node.primitive.kind # "dsh-subagent-fanout"
  /\ \A op \in Operations(proposal, "add-edge") : (op.reason = "artifact") = (op.artifact # None)
  /\ \A op \in Operations(proposal, "narrow-limits") : materializeStrategyLimits(op.limits)
  /\ Cardinality(Operations(proposal, "narrow-limits")) <= 1
  /\ Cardinality(Locals(proposal)) = Cardinality(Operations(proposal, "add-node"))

(* Mutant of WithinAuthority: the ceiling of the deployment is not asked.  *)
WithinOwnAuthority(proposal, authority, deployment) ==
  \A op \in Operations(proposal, "add-node") : op.node.profile \in DOMAIN authority.profiles

WithinAuthority(proposal, authority, deployment) ==
  /\ isAuthoritySubset(authority, deployment)
  /\ \A op \in Operations(proposal, "add-node") :
       /\ op.node.profile \in DOMAIN authority.profiles
       /\ op.node.member \in authority.profiles[op.node.profile].members
       /\ op.node.effectClass \in authority.profiles[op.node.profile].effectClasses

(* The task under its generated name.                                      *)
bindDynamicTask(node, id) ==
  [node EXCEPT !.primitive.stage = id, !.primitive.output.producer = id]

NextNodes(base, proposal) ==
  LET added == {Generated(proposal, n) : n \in Locals(proposal)}
      of(id) == CHOOSE op \in Operations(proposal, "add-node") : op.localId = id[2]
  IN [id \in DOMAIN base.nodes \cup added |->
        IF id \in added THEN bindDynamicTask(of(id).node, id) ELSE base.nodes[id]]

Superseded(proposal, nodes) ==
  UNION {resolve(proposal, nodes, op.taskId) : op \in Operations(proposal, "supersede-pending")}

(* Mutant of KeepsHistory: an edge may go into a task that has begun.      *)
KeepsSuperseded(base, proposal, nodes, tasks) ==
  \A t \in Superseded(proposal, nodes) :
    /\ t \in DOMAIN tasks /\ tasks[t].status \in {"pending", "ready"}
    /\ base.completion.artifact # nodes[t].output.artifact

(* Only a task that has not begun is superseded, when nothing left needs   *)
(* its artifact, and a new edge goes into a new task or one that has not   *)
(* begun.                                                                  *)
KeepsHistory(base, proposal, nodes, tasks) ==
  /\ \A t \in Superseded(proposal, nodes) :
       /\ t \in DOMAIN tasks /\ tasks[t].status \in {"pending", "ready"}
       /\ base.completion.artifact # nodes[t].output.artifact
       /\ \A s \in DOMAIN nodes \ Superseded(proposal, nodes) :
            \A i \in nodes[s].inputs : i.artifact # nodes[t].output.artifact
  /\ \A op \in Operations(proposal, "add-edge") :
       \A t \in resolve(proposal, nodes, op.to) \cap DOMAIN base.nodes :
         tasks[t].status \in {"pending", "ready"}

NextEdges(base, proposal, nodes) ==
  base.edges \cup UNION {{Edge(from, to, op.reason, op.artifact) :
                            from \in resolve(proposal, nodes, op.from),
                            to \in resolve(proposal, nodes, op.to)} :
                         op \in Operations(proposal, "add-edge")}

NextLimits(base, proposal) ==
  IF Operations(proposal, "narrow-limits") = {} THEN base.limits
  ELSE (CHOOSE op \in Operations(proposal, "narrow-limits") : TRUE).limits

(* Whether every task a proposal refers to is there.                       *)
Resolves(proposal, nodes) ==
  /\ \A op \in Operations(proposal, "supersede-pending") :
       /\ resolve(proposal, nodes, op.taskId) # {}
       /\ op.replacement \in Locals(proposal) \cup {None}
  /\ \A op \in Operations(proposal, "add-edge") :
       resolve(proposal, nodes, op.from) # {} /\ resolve(proposal, nodes, op.to) # {}

validateWiring(nodes, edges) ==
  \A t \in DOMAIN nodes : \A i \in nodes[t].inputs \ {Objective} :
    \E s \in Producers(nodes, i.artifact) :
      /\ nodes[s].output.contract = i.contract /\ nodes[s].output.collection = i.collection
      /\ Edge(s, t, "artifact", i.artifact) \in edges

(* A proposal is accepted as a whole, or rejected for the first of these   *)
(* that fails; bounds is [maxNodes, maxPlanVersions].                      *)
Accepts(base, proposal, tasks, authority, deployment, bounds) ==
  LET nodes == NextNodes(base, proposal)
  IN /\ WellFormed(proposal)
     /\ proposal.basePlanVersion = base.planVersion
     /\ base.planVersion < bounds.maxPlanVersions
     /\ WithinAuthority(proposal, authority, deployment)
     /\ {Generated(proposal, n) : n \in Locals(proposal)} \cap DOMAIN base.nodes = {}
     /\ Cardinality(DOMAIN nodes) <= bounds.maxNodes
     /\ Resolves(proposal, nodes)
     /\ KeepsHistory(base, proposal, nodes, tasks)
     /\ limitsNarrower(NextLimits(base, proposal), base.limits)
     /\ validateWiring(nodes, NextEdges(base, proposal, nodes))
     /\ Evolves(base, nodes, NextEdges(base, proposal, nodes), NextLimits(base, proposal))

(* The graph of an accepted proposal, and the tasks it supersedes.         *)
applyPlanDelta(base, proposal) ==
  LET nodes == NextNodes(base, proposal)
  IN [graph |-> evolvePlanGraph(base, base.planVersion + 1, nodes,
                  NextEdges(base, proposal, nodes), NextLimits(base, proposal)),
      superseded |-> Superseded(proposal, nodes)]

==============================================================================
