-------------------------- MODULE PlanActivationProofs -------------------------
(***************************************************************************)
(* Proofs about PlanActivation, for every Strategy, chain of deltas,       *)
(* authority and order in which the children end, about Admission, for     *)
(* every limit, weight and order of calls, and about StrategyCompiler, for *)
(* everything an author may write.                                         *)
(***************************************************************************)
EXTENDS PlanActivation, Admission, StrategyCompiler, TotalsProofs

-----------------------------------------------------------------------------
(* The checks of a graph.                                                   *)

(* What a function makes of a finite set is finite.                         *)
LEMMA FiniteImage ==
  ASSUME NEW S, IsFiniteSet(S), NEW f
  PROVE  IsFiniteSet({f[x] : x \in S})
<1> DEFINE T == {f[x] : x \in S}
           g == [x \in S |-> f[x]]
<1>1. g \in [S -> T] /\ \A t \in T : \E s \in S : g[s] = t
  OBVIOUS
<1>2. g \in Surjection(S, T)
  <2> HIDE DEF g, T
  <2> QED
    BY <1>1 DEF Surjection
<1> HIDE DEF g, T
<1>3. IsFiniteSet(T)
  BY <1>2, FS_Surjection
<1> QED
  BY <1>3 DEF T

(* Kahn's algorithm: the tasks of a set that wait for no task of it, and    *)
(* what is left of a set once they are taken.                               *)
Untied(T, taskIds, edges) == {t \in T : \A e \in edges : e.to = t => e.from \in taskIds \ T}
Takes(left, taskIds, edges) ==
  \A T \in SUBSET taskIds :
    left[T] = IF Untied(T, taskIds, edges) = {} THEN T ELSE left[T \ Untied(T, taskIds, edges)]

(* The algorithm is defined for every set of edges.                         *)
LEMMA KahnIsDefined ==
  ASSUME NEW taskIds, IsFiniteSet(taskIds), NEW edges
  PROVE  \E left : /\ validateAcyclic(taskIds, edges) <=> left[taskIds] = {}
                   /\ Takes(left, taskIds, edges)
<1> DEFINE ready(T) == {t \in T : \A e \in edges : e.to = t => e.from \in taskIds \ T}
           Body(f) == [T \in SUBSET taskIds |->
                         IF ready(T) = {} THEN T ELSE f[T \ ready(T)]]
           left == CHOOSE f : f = Body(f)
           stops == {T \in SUBSET taskIds : ready(T) = {}}
           base == [T \in SUBSET taskIds |-> T]
           next == [T \in SUBSET taskIds |-> T \ ready(T)]
           step == [T \in SUBSET taskIds |-> [v \in SUBSET taskIds |-> v]]
<1>1. validateAcyclic(taskIds, edges) <=> left[taskIds] = {}
  BY DEF validateAcyclic
<1>2. Recursion(taskIds, SUBSET taskIds, stops, base, next, step)
  <2>1. \A T \in SUBSET taskIds : T \notin stops => next[T] \subseteq T /\ next[T] # T
    <3> SUFFICES ASSUME NEW T \in SUBSET taskIds, T \notin stops
                 PROVE  next[T] \subseteq T /\ next[T] # T
      OBVIOUS
    <3>1. next[T] = T \ ready(T) /\ ready(T) # {} /\ ready(T) \subseteq T
      OBVIOUS
    <3> HIDE DEF next, ready
    <3> QED
      BY <3>1
  <2>2. /\ stops \subseteq SUBSET taskIds
        /\ base \in [SUBSET taskIds -> SUBSET taskIds]
        /\ next \in [SUBSET taskIds -> SUBSET taskIds]
        /\ step \in [SUBSET taskIds -> [SUBSET taskIds -> SUBSET taskIds]]
    OBVIOUS
  <2> HIDE DEF stops, base, next, step
  <2> QED
    BY <2>1, <2>2 DEF Recursion
<1>3. PICK f : Solves(f, taskIds, SUBSET taskIds, stops, base, next, step)
  <2> HIDE DEF stops, base, next, step
  <2> QED
    BY <1>2, RecursionIsDefined
<1>4. f = Body(f)
  <2>1. f \in [SUBSET taskIds -> SUBSET taskIds]
    BY <1>3 DEF Solves
  <2>2. ASSUME NEW T \in SUBSET taskIds
        PROVE  f[T] = IF ready(T) = {} THEN T ELSE f[T \ ready(T)]
    <3>1. f[T] = IF T \in stops THEN base[T] ELSE step[T][f[next[T]]]
      BY <1>3 DEF Solves
    <3>2. next[T] = T \ ready(T) /\ next[T] \in SUBSET taskIds /\ base[T] = T
      OBVIOUS
    <3>3. f[T \ ready(T)] \in SUBSET taskIds
      BY <2>1, <3>2
    <3>4. step[T][f[T \ ready(T)]] = f[T \ ready(T)]
      BY <3>3
    <3>5. T \in stops <=> ready(T) = {}
      OBVIOUS
    <3> HIDE DEF ready, stops, base, next, step
    <3> QED
      BY <3>1, <3>2, <3>4, <3>5
  <2> HIDE DEF ready
  <2> QED
    BY <2>1, <2>2
<1>5. left = Body(left)
  <2> HIDE DEF Body
  <2> QED
    BY <1>4, Zenon
<1> HIDE DEF left
<1>6. \A T \in SUBSET taskIds : left[T] = IF ready(T) = {} THEN T ELSE left[T \ ready(T)]
  <2> HIDE DEF ready
  <2> QED
    BY <1>5
<1>7. \A T : ready(T) = Untied(T, taskIds, edges)
  BY DEF Untied
<1>8. Takes(left, taskIds, edges)
  <2> HIDE DEF ready
  <2> QED
    BY <1>6, <1>7 DEF Takes
<1> QED
  BY <1>1, <1>8

(* When Kahn's algorithm leaves nothing, no tasks wait for one another.     *)
LEMMA NoTasksWaitForOneAnother ==
  ASSUME NEW taskIds, IsFiniteSet(taskIds), NEW edges, validateAcyclic(taskIds, edges),
         NEW S \in SUBSET taskIds, S # {}
  PROVE  \E t \in S : \A e \in edges : e.to = t => e.from \notin S
<1> DEFINE ready(T) == Untied(T, taskIds, edges)
<1>1. PICK left : left[taskIds] = {} /\ Takes(left, taskIds, edges)
  BY KahnIsDefined
<1>2. \A T \in SUBSET taskIds : left[T] = IF ready(T) = {} THEN T ELSE left[T \ ready(T)]
  BY <1>1 DEF Takes
<1>3. SUFFICES ASSUME \A t \in S : \E e \in edges : e.to = t /\ e.from \in S
               PROVE  FALSE
  OBVIOUS
<1> DEFINE P == {T \in SUBSET taskIds : S \subseteq T /\ ~(S \subseteq left[T])}
<1>4. taskIds \in P
  BY <1>1
<1>5. PICK T \in P : \A U \in P : U \subseteq T => U = T
  <2>1. P \in SUBSET SUBSET taskIds
    OBVIOUS
  <2> HIDE DEF P
  <2> QED
    BY <1>4, <2>1, Smallest
<1>6. T \in SUBSET taskIds /\ S \subseteq T /\ ~(S \subseteq left[T])
  OBVIOUS
<1>7. S \subseteq T \ ready(T)
  BY <1>3, <1>6 DEF Untied
<1>8. ready(T) # {} /\ ready(T) \subseteq T
  BY <1>2, <1>6 DEF Untied
<1>9. T \ ready(T) \in P
  BY <1>2, <1>6, <1>7, <1>8
<1>10. T \ ready(T) # T
  <2> HIDE DEF ready
  <2> QED
    BY <1>8
<1> QED
  BY <1>5, <1>9, <1>10

(* And it leaves nothing when in every part of the tasks there is one that  *)
(* waits for none of them.                                                  *)
LEMMA NothingIsLeft ==
  ASSUME NEW taskIds, IsFiniteSet(taskIds), NEW edges,
         \A e \in edges : e.from \in taskIds,
         \A S \in SUBSET taskIds : S # {} =>
           \E t \in S : \A e \in edges : e.to = t => e.from \notin S
  PROVE  validateAcyclic(taskIds, edges)
<1> DEFINE ready(T) == Untied(T, taskIds, edges)
<1>1. PICK left : /\ validateAcyclic(taskIds, edges) <=> left[taskIds] = {}
                  /\ Takes(left, taskIds, edges)
  BY KahnIsDefined
<1>2. \A T \in SUBSET taskIds : left[T] = IF ready(T) = {} THEN T ELSE left[T \ ready(T)]
  BY <1>1 DEF Takes
<1> DEFINE P == {T \in SUBSET taskIds : left[T] # {}}
<1>3. SUFFICES ASSUME P # {} PROVE FALSE
  BY <1>1
<1>4. PICK T \in P : \A U \in P : U \subseteq T => U = T
  <2>1. P \in SUBSET SUBSET taskIds
    OBVIOUS
  <2> HIDE DEF P
  <2> QED
    BY <1>3, <2>1, Smallest
<1>5. T \in SUBSET taskIds /\ left[T] # {}
  OBVIOUS
<1>6. left[T] = IF ready(T) = {} THEN T ELSE left[T \ ready(T)]
  BY <1>2, <1>5
<1>7. ready(T) # {}
  <2>1. CASE T = {}
    <3> HIDE DEF ready
    <3> QED
      BY <1>5, <1>6, <2>1
  <2>2. CASE T # {}
    BY <1>5, <2>2 DEF Untied
  <2> QED
    BY <2>1, <2>2
<1>8. T \ ready(T) \in SUBSET taskIds /\ T \ ready(T) \subseteq T /\ T \ ready(T) # T
  BY <1>5, <1>7 DEF Untied
<1>9. left[T \ ready(T)] # {}
  <2> HIDE DEF ready
  <2> QED
    BY <1>5, <1>6, <1>7
<1>10. T \ ready(T) \in P
  BY <1>8, <1>9
<1> QED
  BY <1>4, <1>8, <1>10

(* Edges as the compilers and deltas make them; no artifact lacks a name.   *)
EdgesAreSound(edges) ==
  \A e \in edges : /\ e = Edge(e.from, e.to, e.reason, e.artifact)
                   /\ e.reason # "artifact" => e.artifact = None
InputsAreNamed(nodes) ==
  \A t \in DOMAIN nodes : \A i \in nodes[t].inputs : i.artifact # None

(* Each input comes over one edge.                                          *)
LEMMA OneEdgePerInput ==
  ASSUME NEW graph, materializePlanGraph(graph), EdgesAreSound(graph.edges),
         InputsAreNamed(graph.nodes),
         NEW t \in DOMAIN graph.nodes, NEW i \in graph.nodes[t].inputs \ {Objective}
  PROVE  Cardinality({e \in Incoming(graph, t) : e.artifact = i.artifact}) = 1
<1> DEFINE nodes == graph.nodes
           edges == graph.edges
<1>1. validatePlanGraphSemantics(nodes, edges, graph.completion, graph.limits)
  BY DEF materializePlanGraph, Evolves
<1>2. PICK s \in Producers(nodes, i.artifact) : TRUE
  BY <1>1 DEF validatePlanGraphSemantics
<1>3. s \in DOMAIN nodes /\ nodes[s].output.artifact = i.artifact
  BY DEF Producers
<1>4. \A r \in DOMAIN nodes : nodes[r].output.artifact = i.artifact => r = s
  BY <1>1, <1>3 DEF validatePlanGraphSemantics
<1> DEFINE edge == Edge(s, t, "artifact", i.artifact)
<1>5. edge \in edges
  <2>1. edge \in ArtifactEdges(nodes)
    <3> DEFINE between(from, to) == {Edge(from, to, "artifact", j.artifact) :
                 j \in {k \in nodes[to].inputs : from \in Producers(nodes, k.artifact)}}
    <3>1. edge \in between(s, t)
      OBVIOUS
    <3>2. ArtifactEdges(nodes) = UNION {between(from, to) : from, to \in DOMAIN nodes}
      BY DEF ArtifactEdges
    <3> HIDE DEF between, edge
    <3> QED
      BY <1>3, <3>1, <3>2
  <2> QED
    BY <1>1, <2>1 DEF validatePlanGraphSemantics
<1>6. edge.to = t /\ edge.artifact = i.artifact
  BY DEF Edge
<1>7. ASSUME NEW e \in edges, e.to = t, e.artifact = i.artifact
      PROVE  e = edge
  <2>1. e.reason = "artifact"
    BY <1>7 DEF EdgesAreSound, InputsAreNamed
  <2>2. e \in ArtifactEdges(nodes)
    BY <1>1, <1>7, <2>1 DEF validatePlanGraphSemantics
  <2>3. PICK from \in DOMAIN nodes, to \in DOMAIN nodes :
          \E j \in nodes[to].inputs :
            from \in Producers(nodes, j.artifact) /\ e = Edge(from, to, "artifact", j.artifact)
    BY <2>2 DEF ArtifactEdges
  <2>4. PICK j \in nodes[to].inputs :
          from \in Producers(nodes, j.artifact) /\ e = Edge(from, to, "artifact", j.artifact)
    BY <2>3
  <2>5. from = s /\ to = t /\ j.artifact = i.artifact
    BY <1>4, <1>7, <2>4 DEF Edge, Producers
  <2> QED
    BY <2>4, <2>5
<1>8. {e \in Incoming(graph, t) : e.artifact = i.artifact} = {edge}
  BY <1>5, <1>6, <1>7 DEF Incoming
<1> QED
  BY <1>8, FS_Singleton

-----------------------------------------------------------------------------
(* What every version of the graph is, whatever deltas made it.             *)

GraphIsSound(graph) ==
  /\ materializePlanGraph(graph)
  /\ IsFiniteSet(DOMAIN graph.nodes) /\ DOMAIN graph.nodes \subseteq Nat \X Nat
  /\ EdgesAreSound(graph.edges) /\ InputsAreNamed(graph.nodes)

WithinDeployment(graph) ==
  \A t \in DOMAIN graph.nodes : t[1] # 0 =>
    /\ graph.nodes[t].profile \in DOMAIN Deployment.profiles
    /\ graph.nodes[t].member \in Deployment.profiles[graph.nodes[t].profile].members
    /\ graph.nodes[t].effectClass \in Deployment.profiles[graph.nodes[t].profile].effectClasses

(* A graph that materializes can be executed: of any set of its tasks,      *)
(* one waits for no other of the set.                                       *)
LEMMA SoundIsExecutable ==
  ASSUME GraphIsSound(plan)
  PROVE  PlanStaysExecutable
<1>1. validateAcyclic(DOMAIN plan.nodes, plan.edges)
  BY DEF GraphIsSound, materializePlanGraph, Evolves
<1>2. \A S \in (SUBSET DOMAIN plan.nodes) \ {{}} :
        \E t \in S : \A e \in Incoming(plan, t) : e.from \notin S
  <2> SUFFICES ASSUME NEW S \in SUBSET DOMAIN plan.nodes, S # {}
               PROVE  \E t \in S : \A e \in Incoming(plan, t) : e.from \notin S
    OBVIOUS
  <2>1. PICK t \in S : \A e \in plan.edges : e.to = t => e.from \notin S
    BY SMTT(30), <1>1, NoTasksWaitForOneAnother DEF GraphIsSound
  <2> QED
    BY <2>1 DEF Incoming
<1>3. \A t \in DOMAIN plan.nodes : \A i \in plan.nodes[t].inputs \ {Objective} :
        Cardinality({e \in Incoming(plan, t) : e.artifact = i.artifact}) = 1
  BY OneEdgePerInput DEF GraphIsSound
<1> QED
  BY <1>2, <1>3 DEF GraphIsSound, PlanStaysExecutable

(* The tasks of a Strategy are outside the authorities, and its edges are   *)
(* those of its stages.                                                    *)
LEMMA StaticIsSound ==
  ASSUME NEW s \in Strategies, materializePlanGraph(compileStaticPlanGraph(s))
  PROVE  /\ GraphIsSound(compileStaticPlanGraph(s))
         /\ WithinDeployment(compileStaticPlanGraph(s))
<1> DEFINE graph == compileStaticPlanGraph(s)
           stages == {p.stage : p \in s.primitives}
<1>1. /\ IsFiniteSet(s.primitives)
      /\ \A p \in s.primitives : p.stage \in {0} \X Nat /\ None \notin p.inputs
  BY NamesAssumption DEF NamesAssumption
<1>2. graph.nodes = StaticNodes(s) /\ graph.edges = StaticEdges(s)
  BY DEF compileStaticPlanGraph
<1>3. DOMAIN graph.nodes = stages
  BY <1>2 DEF StaticNodes
<1>4. IsFiniteSet(stages)
  <2> DEFINE f == [p \in s.primitives |-> p.stage]
  <2>1. IsFiniteSet({f[p] : p \in s.primitives})
    <3> HIDE DEF f
    <3> QED
      BY <1>1, FiniteImage
  <2>2. {f[p] : p \in s.primitives} = stages
    OBVIOUS
  <2> QED
    BY <2>1, <2>2
<1>5. stages \subseteq Nat \X Nat /\ \A t \in stages : t[1] = 0
  BY <1>1
<1>6. EdgesAreSound(graph.edges)
  <2>1. SUFFICES ASSUME NEW e \in StaticEdges(s)
                 PROVE  /\ e = Edge(e.from, e.to, e.reason, e.artifact)
                        /\ e.reason # "artifact" => e.artifact = None
    BY <1>2 DEF EdgesAreSound
  <2>2. PICK p \in s.primitives :
          \/ e \in {Edge(from, p.stage, "after", None) : from \in p.after}
          \/ e \in {Edge(s.artifacts[name].producer, p.stage, "artifact", name) :
                      name \in {n \in p.inputs : s.artifacts[n].producer # None}}
    BY DEF StaticEdges
  <2>3. CASE e \in {Edge(from, p.stage, "after", None) : from \in p.after}
    BY <2>3 DEF Edge
  <2>4. CASE e \in {Edge(s.artifacts[name].producer, p.stage, "artifact", name) :
                      name \in {n \in p.inputs : s.artifacts[n].producer # None}}
    BY <2>4 DEF Edge
  <2> QED
    BY <2>2, <2>3, <2>4
<1>7. InputsAreNamed(graph.nodes)
  <2> SUFFICES ASSUME NEW t \in stages, NEW i \in StaticNodes(s)[t].inputs
               PROVE  i.artifact # None
    BY <1>2, <1>3 DEF InputsAreNamed
  <2>1. PICK p \in s.primitives : StaticNodes(s)[t] = TaskOfStage(s, p)
    <3>1. \E p \in s.primitives : p.stage = t
      OBVIOUS
    <3> DEFINE p == CHOOSE p \in s.primitives : p.stage = t
    <3>2. p \in s.primitives
      BY <3>1
    <3>3. StaticNodes(s)[t] = TaskOfStage(s, p)
      BY DEF StaticNodes
    <3> QED
      BY <3>2, <3>3
  <2>2. i.artifact \in p.inputs
    BY <2>1 DEF TaskOfStage
  <2> QED
    BY <1>1, <2>2
<1>8. WithinDeployment(graph)
  BY <1>3, <1>5 DEF WithinDeployment
<1> QED
  BY <1>3, <1>4, <1>5, <1>6, <1>7, <1>8 DEF GraphIsSound

(* What a delta adds and what it leaves.                                    *)
LEMMA DeltaNodes ==
  ASSUME NEW base, NEW proposal \in Proposals, NEW ts, NEW authority,
         Accepts(base, proposal, ts, authority, Deployment, DeltaBounds)
  PROVE  LET nodes == NextNodes(base, proposal)
             added == {Generated(proposal, n) : n \in Locals(proposal)}
         IN /\ DOMAIN nodes = DOMAIN base.nodes \cup added
            /\ \A t \in DOMAIN base.nodes : nodes[t] = base.nodes[t]
            /\ \A t \in added : \E op \in Operations(proposal, "add-node") :
                 nodes[t] = bindDynamicTask(op.node, t)
            /\ added \subseteq (Nat \ {0}) \X Nat
            /\ IsFiniteSet(added)
<1> DEFINE nodes == NextNodes(base, proposal)
           added == {Generated(proposal, n) : n \in Locals(proposal)}
           adds == Operations(proposal, "add-node")
<1>1. added \cap DOMAIN base.nodes = {}
  BY DEF Accepts
<1>2. DOMAIN nodes = DOMAIN base.nodes \cup added
  BY DEF NextNodes
<1>3. \A t \in DOMAIN base.nodes : nodes[t] = base.nodes[t]
  BY <1>1 DEF NextNodes
<1>4. /\ proposal.deltaId \in Nat \ {0} /\ IsFiniteSet(proposal.operations)
      /\ \A op \in adds : op.localId \in Nat
  BY NamesAssumption DEF NamesAssumption
<1>5. ASSUME NEW t \in added
      PROVE  \E op \in adds : nodes[t] = bindDynamicTask(op.node, t)
  <2>1. PICK op \in adds : t = <<proposal.deltaId, op.localId>>
    BY DEF Locals, Generated
  <2> DEFINE chosen == CHOOSE o \in adds : o.localId = t[2]
  <2>2. chosen \in adds
    <3>1. t[2] = op.localId
      BY <2>1
    <3> QED
      BY <3>1
  <2>3. nodes[t] = bindDynamicTask(chosen.node, t)
    BY <1>2 DEF NextNodes
  <2> QED
    BY <2>2, <2>3
<1>6. added \subseteq (Nat \ {0}) \X Nat
  BY <1>4 DEF Locals, Generated
<1>7. IsFiniteSet(added)
  <2> DEFINE f == [op \in adds |-> <<proposal.deltaId, op.localId>>]
  <2>1. IsFiniteSet(adds)
    BY <1>4, FS_Subset DEF Operations
  <2>2. IsFiniteSet({f[op] : op \in adds})
    <3> HIDE DEF f, adds
    <3> QED
      BY <2>1, FiniteImage
  <2>3. {f[op] : op \in adds} = added
    BY DEF Locals, Generated
  <2> QED
    BY <2>2, <2>3
<1> QED
  BY <1>2, <1>3, <1>5, <1>6, <1>7

(* bindDynamicTask keeps what a proposal says of a task and names its       *)
(* primitive.                                                               *)
LEMMA BoundTask ==
  ASSUME NEW node, NEW id,
         {"primitive", "profile", "member", "agentCount", "inputs", "effectClass"}
           \subseteq DOMAIN node
  PROVE  LET bound == bindDynamicTask(node, id)
         IN /\ bound.profile = node.profile /\ bound.member = node.member
            /\ bound.effectClass = node.effectClass /\ bound.inputs = node.inputs
  BY DEF bindDynamicTask

(* A delta that is accepted keeps the graph sound and what is generated     *)
(* within the deployment: whoever proposed it had no more than that.       *)
LEMMA AcceptedIsSound ==
  ASSUME NEW base, GraphIsSound(base), WithinDeployment(base),
         NEW proposal \in Proposals, NEW authority \in Authorities, NEW ts,
         Accepts(base, proposal, ts, authority, Deployment, DeltaBounds)
  PROVE  /\ GraphIsSound(applyPlanDelta(base, proposal).graph)
         /\ WithinDeployment(applyPlanDelta(base, proposal).graph)
<1> DEFINE nodes == NextNodes(base, proposal)
           edges == NextEdges(base, proposal, nodes)
           limits == NextLimits(base, proposal)
           added == {Generated(proposal, n) : n \in Locals(proposal)}
           adds == Operations(proposal, "add-node")
           next == applyPlanDelta(base, proposal).graph
<1>1. /\ next.nodes = nodes /\ next.edges = edges /\ next.limits = limits
      /\ next.completion = base.completion
  BY DEF applyPlanDelta, evolvePlanGraph
<1>2. /\ WellFormed(proposal) /\ WithinAuthority(proposal, authority, Deployment)
      /\ Evolves(base, nodes, edges, limits)
  BY DEF Accepts
<1>3. /\ DOMAIN nodes = DOMAIN base.nodes \cup added
      /\ \A t \in DOMAIN base.nodes : nodes[t] = base.nodes[t]
      /\ \A t \in added : \E op \in adds : nodes[t] = bindDynamicTask(op.node, t)
      /\ added \subseteq (Nat \ {0}) \X Nat
      /\ IsFiniteSet(added)
  BY DeltaNodes
<1> HIDE DEF nodes, added
<1>4. \A op \in adds : /\ None \notin op.node.primitive.inputs
                       /\ {"primitive", "profile", "member", "agentCount", "inputs", "effectClass"}
                            \subseteq DOMAIN op.node
  BY NamesAssumption DEF NamesAssumption
<1>5. materializeStrategyLimits(limits)
  <2>1. CASE Operations(proposal, "narrow-limits") = {}
    BY <2>1 DEF NextLimits, GraphIsSound, materializePlanGraph
  <2>2. CASE Operations(proposal, "narrow-limits") # {}
    <3> DEFINE chosen == CHOOSE op \in Operations(proposal, "narrow-limits") : TRUE
    <3>1. chosen \in Operations(proposal, "narrow-limits")
      BY <2>2
    <3>2. limits = chosen.limits
      BY <2>2 DEF NextLimits
    <3> HIDE DEF chosen, limits
    <3> QED
      BY <1>2, <3>1, <3>2 DEF WellFormed
  <2> QED
    BY <2>1, <2>2
<1>6. Evolves(next, nodes, edges, limits)
  <2> HIDE DEF next, edges, limits
  <2> QED
    BY <1>1, <1>2 DEF Evolves
<1>7. materializePlanGraph(next)
  <2> HIDE DEF next, edges, limits
  <2> QED
    BY <1>1, <1>5, <1>6 DEF materializePlanGraph
<1>8. IsFiniteSet(DOMAIN nodes) /\ DOMAIN nodes \subseteq Nat \X Nat
  <2>1. IsFiniteSet(DOMAIN base.nodes) /\ DOMAIN base.nodes \subseteq Nat \X Nat
    BY DEF GraphIsSound
  <2>2. IsFiniteSet(DOMAIN nodes)
    <3>1. IsFiniteSet(DOMAIN base.nodes \cup added)
      BY ONLY <1>3, <2>1, FS_Union
    <3> QED
      BY ONLY <1>3, <3>1
  <2> QED
    BY <1>3, <2>1, <2>2
<1>9. EdgesAreSound(edges)
  <2>1. SUFFICES ASSUME NEW e \in edges, e \notin base.edges
                 PROVE  /\ e = Edge(e.from, e.to, e.reason, e.artifact)
                        /\ e.reason # "artifact" => e.artifact = None
    BY DEF GraphIsSound, EdgesAreSound
  <2>2. PICK op \in Operations(proposal, "add-edge") :
          e \in {Edge(from, to, op.reason, op.artifact) :
                   from \in resolve(proposal, nodes, op.from),
                   to \in resolve(proposal, nodes, op.to)}
    BY <2>1 DEF NextEdges
  <2>3. (op.reason = "artifact") = (op.artifact # None)
    BY <1>2 DEF WellFormed
  <2> QED
    BY <2>2, <2>3 DEF Edge
<1>10. InputsAreNamed(nodes)
  <2> SUFFICES ASSUME NEW t \in DOMAIN nodes, NEW i \in nodes[t].inputs
               PROVE  i.artifact # None
    BY DEF InputsAreNamed
  <2>1. CASE t \in DOMAIN base.nodes
    BY <1>3, <2>1 DEF GraphIsSound, InputsAreNamed
  <2>2. CASE t \in added
    <3>1. PICK op \in adds : nodes[t] = bindDynamicTask(op.node, t)
      BY <1>3, <2>2
    <3>2. i \in op.node.inputs
      BY <1>4, <3>1, BoundTask
    <3>3. {j.artifact : j \in op.node.inputs} = op.node.primitive.inputs
      BY <1>2 DEF WellFormed, ValidTaskBody
    <3> QED
      BY <1>4, <3>2, <3>3
  <2> QED
    BY <1>3, <2>1, <2>2
<1>11. WithinDeployment(next)
  <2> SUFFICES ASSUME NEW t \in DOMAIN nodes, t[1] # 0
               PROVE  /\ nodes[t].profile \in DOMAIN Deployment.profiles
                      /\ nodes[t].member \in Deployment.profiles[nodes[t].profile].members
                      /\ nodes[t].effectClass
                           \in Deployment.profiles[nodes[t].profile].effectClasses
    BY <1>1 DEF WithinDeployment
  <2>1. CASE t \in DOMAIN base.nodes
    BY <1>3, <2>1 DEF WithinDeployment
  <2>2. CASE t \in added
    <3>1. PICK op \in adds : nodes[t] = bindDynamicTask(op.node, t)
      BY <1>3, <2>2
    <3> DEFINE profile == op.node.profile
    <3>2. /\ nodes[t].profile = profile /\ nodes[t].member = op.node.member
          /\ nodes[t].effectClass = op.node.effectClass
      BY <1>4, <3>1, BoundTask
    <3>3. /\ profile \in DOMAIN authority.profiles
          /\ op.node.member \in authority.profiles[profile].members
          /\ op.node.effectClass \in authority.profiles[profile].effectClasses
      BY <1>2 DEF WithinAuthority
    <3>4. {"members", "effectClasses"} \subseteq DOMAIN authority.profiles[profile]
      BY <3>3, NamesAssumption DEF NamesAssumption
    <3>5. /\ profile \in DOMAIN Deployment.profiles
          /\ authority.profiles[profile].members \subseteq Deployment.profiles[profile].members
          /\ authority.profiles[profile].effectClasses
               \subseteq Deployment.profiles[profile].effectClasses
      BY <1>2, <3>3, <3>4 DEF WithinAuthority, isAuthoritySubset
    <3> QED
      BY <3>2, <3>3, <3>5
  <2> QED
    BY <1>3, <2>1, <2>2
<1> QED
  BY <1>1, <1>7, <1>8, <1>9, <1>10, <1>11 DEF GraphIsSound

(* A task that is no longer pending is not superseded and gets no edge.     *)
LEMMA AcceptedKeepsHistory ==
  ASSUME NEW base, NEW proposal \in Proposals, NEW authority, NEW ts,
         Accepts(base, proposal, ts, authority, Deployment, DeltaBounds),
         NEW t \in DOMAIN base.nodes, ts[t].status \notin {"pending", "ready"}
  PROVE  /\ t \notin applyPlanDelta(base, proposal).superseded
         /\ t \in DOMAIN applyPlanDelta(base, proposal).graph.nodes
         /\ applyPlanDelta(base, proposal).graph.nodes[t] = base.nodes[t]
         /\ Incoming(applyPlanDelta(base, proposal).graph, t) = Incoming(base, t)
<1> DEFINE nodes == NextNodes(base, proposal)
           edges == NextEdges(base, proposal, nodes)
           next == applyPlanDelta(base, proposal).graph
<1>1. /\ next.nodes = nodes /\ next.edges = edges
      /\ applyPlanDelta(base, proposal).superseded = Superseded(proposal, nodes)
  BY DEF applyPlanDelta, evolvePlanGraph
<1>2. KeepsHistory(base, proposal, nodes, ts)
  BY DEF Accepts
<1>3. t \in DOMAIN nodes /\ nodes[t] = base.nodes[t]
  <2> DEFINE added == {Generated(proposal, n) : n \in Locals(proposal)}
  <2>1. /\ DOMAIN nodes = DOMAIN base.nodes \cup added
        /\ \A s \in DOMAIN base.nodes : nodes[s] = base.nodes[s]
    BY DeltaNodes
  <2> HIDE DEF nodes, added
  <2> QED
    BY <2>1
<1> HIDE DEF nodes
<1>4. t \notin Superseded(proposal, nodes)
  BY <1>2 DEF KeepsHistory
<1>5. \A op \in Operations(proposal, "add-edge") : t \notin resolve(proposal, nodes, op.to)
  BY <1>2 DEF KeepsHistory
<1>6. \A e \in edges : e.to = t => e \in base.edges
  <2> SUFFICES ASSUME NEW e \in edges, e \notin base.edges
               PROVE  e.to # t
    OBVIOUS
  <2>1. PICK op \in Operations(proposal, "add-edge") :
          e \in {Edge(from, to, op.reason, op.artifact) :
                   from \in resolve(proposal, nodes, op.from),
                   to \in resolve(proposal, nodes, op.to)}
    BY DEF NextEdges
  <2>2. e.to \in resolve(proposal, nodes, op.to)
    BY <2>1 DEF Edge
  <2> QED
    BY <1>5, <2>2
<1>7. base.edges \subseteq edges
  BY DEF NextEdges
<1>8. Incoming(next, t) = Incoming(base, t)
  <2> HIDE DEF next, edges
  <2> QED
    BY <1>1, <1>6, <1>7 DEF Incoming
<1> QED
  BY <1>1, <1>3, <1>4, <1>8

-----------------------------------------------------------------------------
(* The versions of the graph.                                               *)

GraphInv == GraphIsSound(plan) /\ WithinDeployment(plan)

(* In every reachable state the graph of the run is sound and within the    *)
(* deployment.                                                              *)
LEMMA GraphInvariant == PlanSpec => []GraphInv
<1>1. PlanInit => GraphInv
  BY StaticIsSound DEF PlanInit, GraphInv
<1>2. GraphInv /\ [PlanNext]_planVars => GraphInv'
  <2> SUFFICES ASSUME GraphInv, [PlanNext]_planVars PROVE GraphInv'
    OBVIOUS
  <2>1. ASSUME NEW proposal \in Proposals, NEW authority \in Authorities,
               Evolve(proposal, authority)
        PROVE  GraphInv'
    <3>1. /\ plan' = applyPlanDelta(plan, proposal).graph
          /\ Accepts(plan, proposal, tasks, authority, Deployment, DeltaBounds)
      BY <2>1 DEF Evolve
    <3> QED
      BY <3>1, AcceptedIsSound DEF GraphInv
  <2>2. CASE plan' = plan
    BY <2>2 DEF GraphInv
  <2> QED
    BY <2>1, <2>2 DEF PlanNext, planVars, Prepare, PreparedFlushed, PreparedLost, ChildEnds,
       ChildRejects, Settle, SettleFails, Abort
<1> QED
  BY <1>1, <1>2, PTL DEF PlanSpec

(* Whatever chain of deltas made it, the plan has no cycle, each input has  *)
(* one edge from its producer, and a reader of the journal accepts it       *)
(* (applyPlanDelta, evolvePlanGraph).                                      *)
THEOREM PlansStayExecutable == PlanSpec => []PlanStaysExecutable
<1>1. GraphInv => PlanStaysExecutable
  BY SoundIsExecutable DEF GraphInv
<1> QED
  BY <1>1, GraphInvariant, PTL

(* No chain of authorities gives a generated task what the deployment does  *)
(* not allow (isAuthoritySubset, the admission of a delta).                *)
THEOREM DeltasAreWithinDeployment == PlanSpec => []DeltasStayWithinDeployment
<1>1. GraphInv => DeltasStayWithinDeployment
  BY DEF GraphInv, WithinDeployment, DeltasStayWithinDeployment
<1> QED
  BY <1>1, GraphInvariant, PTL

-----------------------------------------------------------------------------
(* What has begun.                                                          *)

Waits == {"pending", "superseded"}

TasksAreSound ==
  /\ DOMAIN tasks = DOMAIN plan.nodes
  /\ \A t \in DOMAIN tasks :
       /\ DOMAIN tasks[t] = {"status", "attempts"}
       /\ tasks[t].status \in {"pending", "superseded", "running",
                               "succeeded", "failed", "cancelled"}
       /\ tasks[t].attempts = IF tasks[t].status \in Waits THEN 0 ELSE 1

(* The task is in the graph as it was, and what it depends on succeeded.    *)
Stands(graph, ts, t, node, edges) ==
  /\ t \in DOMAIN graph.nodes /\ graph.nodes[t] = node /\ Incoming(graph, t) = edges
  /\ ts[t].status \notin Waits
  /\ \A e \in edges : e.from \in DOMAIN graph.nodes /\ ts[e.from].status = "succeeded"

DagFields ==
  /\ DOMAIN dag = {"step", "graph", "admitted", "bounds", "bytes", "budget", "outcomes"}
  /\ dag.step \in {"idle", "prepared", "execute"}

BegunStands == \A b \in begun : Stands(plan, tasks, b.task, b.node, b.edges)

AdmittedStands ==
  dag.step # "idle" => \A t \in dag.admitted :
    /\ Stands(plan, tasks, t, dag.graph.nodes[t], Incoming(dag.graph, t))
    /\ tasks[t].status = "running"

HistoryInv == TasksAreSound /\ DagFields /\ BegunStands /\ AdmittedStands

(* What a step keeps of the tasks that have begun.                          *)
Kept(graph, ts, next, nextTasks) ==
  \A t \in DOMAIN graph.nodes : ts[t].status \notin Waits =>
    /\ t \in DOMAIN next.nodes /\ next.nodes[t] = graph.nodes[t]
    /\ Incoming(next, t) = Incoming(graph, t)
    /\ nextTasks[t].status \notin Waits
    /\ ts[t].status = "succeeded" => nextTasks[t].status = "succeeded"

(* What stands of a begun task stands in any later version that keeps it.   *)
LEMMA StandsStays ==
  ASSUME NEW graph, NEW ts, NEW next, NEW nextTasks, Kept(graph, ts, next, nextTasks),
         NEW t, NEW node, NEW edges, Stands(graph, ts, t, node, edges)
  PROVE  Stands(next, nextTasks, t, node, edges)
  BY DEF Kept, Stands, Waits

(* A task is ready when it waits for nothing.                               *)
LEMMA ReadyTask ==
  ASSUME NEW graph, GraphIsSound(graph), NEW ts, NEW arts,
         NEW t \in deriveReadyFrontier(graph, ts, arts)
  PROVE  /\ t \in DOMAIN graph.nodes /\ ts[t].status = "pending"
         /\ \A e \in Incoming(graph, t) :
              e.from \in DOMAIN graph.nodes /\ ts[e.from].status = "succeeded"
<1>1. t \in DOMAIN graph.nodes /\ deriveTaskReadiness(graph, t, ts, arts) = "ready"
  BY DEF deriveReadyFrontier
<1>2. ~Blocked(graph, t, ts, arts) /\ ~Waiting(graph, t, ts, arts)
  BY <1>1 DEF deriveTaskReadiness
<1>3. ts[t].status = "pending"
  BY <1>2 DEF Blocked
<1>4. \A e \in Incoming(graph, t) : ts[e.from].status = "succeeded"
  BY <1>2 DEF Waiting
<1>5. \A e \in graph.edges : {e.from, e.to} \subseteq DOMAIN graph.nodes
  BY DEF GraphIsSound, materializePlanGraph, Evolves
<1> QED
  BY <1>1, <1>3, <1>4, <1>5 DEF Incoming

(* Preparing a batch marks tasks of the frontier as running and keeps       *)
(* what began.                                                              *)
LEMMA PrepareKeepsHistory ==
  ASSUME GraphInv, HistoryInv, NEW bounds, NEW admitted, Prepare(bounds, admitted)
  PROVE  HistoryInv'
<1>1. /\ plan' = plan /\ begun' = begun
      /\ tasks' = [t \in DOMAIN tasks |->
                     IF t \in admitted THEN [status |-> "running", attempts |-> 1] ELSE tasks[t]]
      /\ dag' = [step |-> "prepared", graph |-> plan, admitted |-> admitted,
                 bounds |-> bounds, bytes |-> usage.bytes, budget |-> 0, outcomes |-> <<>>]
  BY DEF Prepare
<1>2. admitted \subseteq deriveReadyFrontier(plan, tasks, artifacts)
  BY DEF Prepare, Admits
<1>3. \A t \in admitted :
        /\ t \in DOMAIN plan.nodes /\ tasks[t].status = "pending"
        /\ \A e \in Incoming(plan, t) :
             e.from \in DOMAIN plan.nodes /\ tasks[e.from].status = "succeeded"
  BY <1>2, ReadyTask DEF GraphInv
<1>4. DOMAIN tasks = DOMAIN plan.nodes
  BY DEF HistoryInv, TasksAreSound
<1>5. /\ \A t \in admitted : tasks'[t] = [status |-> "running", attempts |-> 1]
      /\ \A t \in DOMAIN tasks \ admitted : tasks'[t] = tasks[t]
      /\ DOMAIN tasks' = DOMAIN tasks
  BY <1>1, <1>3, <1>4
<1>6. Kept(plan, tasks, plan', tasks')
  BY <1>1, <1>3, <1>4, <1>5 DEF Kept, Waits
<1>7. TasksAreSound'
  BY <1>1, <1>3, <1>4, <1>5 DEF HistoryInv, TasksAreSound, Waits
<1>8. DagFields'
  BY <1>1 DEF DagFields
<1>9. BegunStands'
  BY <1>1, <1>6, StandsStays DEF HistoryInv, BegunStands
<1>10. AdmittedStands'
  <2> SUFFICES ASSUME NEW t \in admitted
               PROVE  /\ Stands(plan, tasks', t, plan.nodes[t], Incoming(plan, t))
                      /\ tasks'[t].status = "running"
    BY <1>1 DEF AdmittedStands
  <2>1. \A e \in Incoming(plan, t) :
          e.from \in DOMAIN plan.nodes /\ tasks'[e.from].status = "succeeded"
    BY <1>3, <1>4, <1>5
  <2> QED
    BY <1>3, <1>5, <2>1 DEF Stands, Waits
<1> QED
  BY <1>7, <1>8, <1>9, <1>10 DEF HistoryInv

(* A step that changes no task, and starts or ends only the activation.     *)
LEMMA SameTasks ==
  ASSUME HistoryInv, UNCHANGED <<plan, tasks>>, DagFields',
         \/ dag'.step = "idle"
         \/ dag.step # "idle" /\ dag'.admitted = dag.admitted /\ dag'.graph = dag.graph,
         \A b \in begun' : b \in begun \/ Stands(plan, tasks, b.task, b.node, b.edges)
  PROVE  HistoryInv'
<1>1. TasksAreSound'
  BY DEF HistoryInv, TasksAreSound
<1>2. BegunStands'
  BY DEF HistoryInv, BegunStands
<1>3. AdmittedStands'
  BY DEF HistoryInv, AdmittedStands
<1> QED
  BY <1>1, <1>2, <1>3 DEF HistoryInv

(* The fields of an activation that does nothing.                           *)
LEMMA IdleFields ==
  /\ DOMAIN NoActivation = {"step", "graph", "admitted", "bounds", "bytes", "budget", "outcomes"}
  /\ NoActivation.step = "idle"
  BY DEF NoActivation

(* What the flush makes of the activation.                                  *)
LEMMA FlushedDag ==
  ASSUME DagFields, PreparedFlushed, ~aborted
  PROVE  /\ DagFields' /\ dag'.step = "execute" /\ dag'.budget = OutputByteBudget(dag)
         /\ dag'.graph = dag.graph /\ dag'.admitted = dag.admitted
         /\ dag'.bounds = dag.bounds /\ dag'.bytes = dag.bytes
         /\ dag'.outcomes = dag.outcomes
  BY DEF DagFields, PreparedFlushed

(* The children of a flushed batch begin as the version of their            *)
(* activation has them, which is how they still stand.                      *)
LEMMA FlushedKeepsHistory ==
  ASSUME HistoryInv, PreparedFlushed
  PROVE  HistoryInv'
<1>1. UNCHANGED <<plan, tasks>> /\ dag.step = "prepared"
  BY DEF PreparedFlushed
<1>2. CASE aborted
  <2>1. dag' = NoActivation /\ begun' = begun
    BY <1>2 DEF PreparedFlushed
  <2>2. DagFields' /\ dag'.step = "idle"
    BY <2>1, IdleFields DEF DagFields
  <2> QED
    BY <1>1, <2>1, <2>2, SameTasks
<1>3. CASE ~aborted
  <2>1. /\ DagFields' /\ dag.step # "idle"
        /\ dag'.graph = dag.graph /\ dag'.admitted = dag.admitted
    BY <1>1, <1>3, FlushedDag DEF HistoryInv
  <2>2. begun' = begun \cup
          {[task |-> t, node |-> dag.graph.nodes[t], edges |-> Incoming(dag.graph, t)] :
           t \in dag.admitted}
    BY <1>3 DEF PreparedFlushed
  <2>3. \A b \in begun' : b \in begun \/ Stands(plan, tasks, b.task, b.node, b.edges)
    BY <1>1, <2>2 DEF HistoryInv, AdmittedStands
  <2> QED
    BY <1>1, <2>1, <2>3, SameTasks
<1> QED
  BY <1>2, <1>3

(* What an answer makes of the activation.                                  *)
LEMMA AnsweredDag ==
  ASSUME DagFields, NEW t, NEW outcome, ChildEnds(t, outcome)
  PROVE  /\ DagFields' /\ dag'.step = dag.step /\ dag'.budget = dag.budget
         /\ dag'.graph = dag.graph /\ dag'.admitted = dag.admitted
         /\ dag'.bounds = dag.bounds /\ dag'.bytes = dag.bytes
         /\ \/ dag'.outcomes = dag.outcomes
            \/ /\ t \in dag.admitted
               /\ dag'.outcomes = [c \in DOMAIN dag.outcomes \cup {t} |->
                                     IF c = t THEN outcome ELSE dag.outcomes[c]]
  BY DEF DagFields, ChildEnds

(* The end of a child is recorded with its activation and changes no        *)
(* task.                                                                    *)
LEMMA EndsKeepsHistory ==
  ASSUME HistoryInv, NEW t, NEW outcome, ChildEnds(t, outcome)
  PROVE  HistoryInv'
<1>1. UNCHANGED <<plan, tasks, begun>>
  BY DEF ChildEnds
<1>2. /\ DagFields' /\ dag'.step = dag.step
      /\ dag'.graph = dag.graph /\ dag'.admitted = dag.admitted
  BY AnsweredDag DEF HistoryInv
<1> QED
  BY <1>1, <1>2, SameTasks

(* A step that ends the activation or leaves it.                            *)
LEMMA EndedKeepsHistory ==
  ASSUME HistoryInv, UNCHANGED <<plan, tasks, begun>>, dag' \in {dag, NoActivation}
  PROVE  HistoryInv'
<1>1. CASE dag' = dag
  BY <1>1 DEF HistoryInv, TasksAreSound, DagFields, BegunStands, AdmittedStands
<1>2. CASE dag' = NoActivation
  <2>1. DagFields' /\ dag'.step = "idle"
    BY <1>2, IdleFields DEF DagFields
  <2> QED
    BY <2>1, SameTasks
<1> QED
  BY <1>1, <1>2


(* The answers of an activation are of its tasks.                           *)
OutcomesInv ==
  dag.step # "idle" => /\ DOMAIN dag.outcomes \subseteq dag.admitted
                       /\ \A t \in DOMAIN dag.outcomes : dag.outcomes[t] \in Outcomes

(* An activation holds outcomes of the tasks it admitted only.              *)
LEMMA OutcomesStep ==
  ASSUME HistoryInv, OutcomesInv, [PlanNext]_planVars
  PROVE  OutcomesInv'
<1>1. ASSUME NEW bounds, NEW admitted, Prepare(bounds, admitted)
      PROVE  OutcomesInv'
  BY <1>1 DEF Prepare, OutcomesInv
<1>2. CASE PreparedFlushed
  <2>1. CASE aborted
    BY <1>2, <2>1, IdleFields DEF PreparedFlushed, OutcomesInv
  <2>2. CASE ~aborted
    <3>1. dag'.outcomes = dag.outcomes /\ dag'.admitted = dag.admitted
      BY <1>2, <2>2, FlushedDag DEF HistoryInv
    <3>2. dag.step # "idle"
      BY <1>2 DEF PreparedFlushed
    <3> QED
      BY <3>1, <3>2 DEF OutcomesInv
  <2> QED
    BY <2>1, <2>2
<1>3. ASSUME NEW t, NEW outcome \in Outcomes, ChildEnds(t, outcome)
      PROVE  OutcomesInv'
  <2>1. /\ dag'.step = dag.step /\ dag'.admitted = dag.admitted
        /\ \/ dag'.outcomes = dag.outcomes
           \/ /\ t \in dag.admitted
              /\ dag'.outcomes = [c \in DOMAIN dag.outcomes \cup {t} |->
                                    IF c = t THEN outcome ELSE dag.outcomes[c]]
    BY <1>3, AnsweredDag DEF HistoryInv
  <2> QED
    BY <2>1 DEF OutcomesInv
<1>4. CASE dag' = dag
  BY <1>4 DEF OutcomesInv
<1>5. CASE dag' = NoActivation
  BY <1>5, IdleFields DEF OutcomesInv
<1>6. CASE PreparedLost \/ Settle \/ SettleFails
  BY <1>5, <1>6 DEF PreparedLost, Settle, SettleFails
<1>7. ASSUME NEW t, ChildRejects(t)
      PROVE  OutcomesInv'
  BY <1>4, <1>5, <1>7 DEF ChildRejects
<1>8. CASE Abort
  BY <1>4, <1>8 DEF Abort
<1>9. ASSUME NEW proposal, NEW authority, Evolve(proposal, authority)
      PROVE  OutcomesInv'
  BY <1>4, <1>9 DEF Evolve
<1>10. CASE UNCHANGED planVars
  BY <1>4, <1>10 DEF planVars
<1> QED
  BY <1>1, <1>2, <1>3, <1>6, <1>7, <1>8, <1>9, <1>10 DEF PlanNext

(* A settled batch ends its tasks and leaves their versions alone.          *)
LEMMA SettleKeepsHistory ==
  ASSUME HistoryInv, OutcomesInv, Settle
  PROVE  HistoryInv'
<1>1. /\ plan' = plan /\ begun' = begun /\ dag' = NoActivation
      /\ dag.step = "execute" /\ DOMAIN dag.outcomes = dag.admitted
      /\ tasks' = [t \in DOMAIN tasks |->
                     IF t \in dag.admitted THEN [tasks[t] EXCEPT !.status = dag.outcomes[t].kind]
                     ELSE tasks[t]]
  BY DEF Settle, AllOutcomes
<1>2. \A t \in dag.admitted : /\ t \in DOMAIN tasks /\ tasks[t].status = "running"
                              /\ dag.outcomes[t].kind \in {"succeeded", "failed", "cancelled"}
  BY <1>1 DEF HistoryInv, AdmittedStands, Stands, TasksAreSound, OutcomesInv, Outcomes
<1>3. \A t \in DOMAIN tasks :
        /\ DOMAIN tasks[t] = {"status", "attempts"}
        /\ tasks[t].attempts = IF tasks[t].status \in Waits THEN 0 ELSE 1
  BY DEF HistoryInv, TasksAreSound
<1>4. /\ DOMAIN tasks' = DOMAIN tasks
      /\ \A t \in DOMAIN tasks \ dag.admitted : tasks'[t] = tasks[t]
  BY <1>1
<1>5. \A t \in dag.admitted : /\ DOMAIN tasks'[t] = {"status", "attempts"}
                              /\ tasks'[t].status = dag.outcomes[t].kind
                              /\ tasks'[t].attempts = 1
  <2> SUFFICES ASSUME NEW t \in dag.admitted
               PROVE  /\ DOMAIN tasks'[t] = {"status", "attempts"}
                      /\ tasks'[t].status = dag.outcomes[t].kind
                      /\ tasks'[t].attempts = 1
    OBVIOUS
  <2>1. tasks'[t] = [tasks[t] EXCEPT !.status = dag.outcomes[t].kind]
    BY <1>1, <1>2
  <2>2. tasks[t].attempts = 1
    BY <1>2, <1>3 DEF Waits
  <2> QED
    BY <1>2, <1>3, <2>1, <2>2
<1>6. Kept(plan, tasks, plan', tasks')
  BY <1>1, <1>2, <1>4, <1>5 DEF Kept, Waits, HistoryInv, TasksAreSound
<1>7. TasksAreSound'
  BY <1>1, <1>2, <1>4, <1>5 DEF HistoryInv, TasksAreSound, Waits
<1>8. DagFields' /\ AdmittedStands'
  BY <1>1, IdleFields DEF DagFields, AdmittedStands
<1>9. BegunStands'
  BY <1>1, <1>6, StandsStays DEF HistoryInv, BegunStands
<1> QED
  BY <1>7, <1>8, <1>9 DEF HistoryInv

(* A delta changes no task that has begun, and begins none.                 *)
LEMMA EvolvedTasks ==
  ASSUME HistoryInv, NEW proposal \in Proposals, NEW authority \in Authorities,
         Evolve(proposal, authority)
  PROVE  /\ \A t \in DOMAIN plan.nodes : tasks[t].status \notin Waits =>
              /\ t \in DOMAIN plan'.nodes /\ plan'.nodes[t] = plan.nodes[t]
              /\ Incoming(plan', t) = Incoming(plan, t)
              /\ tasks'[t] = tasks[t]
         /\ \A t \in DOMAIN plan'.nodes : tasks'[t].status \notin Waits =>
              t \in DOMAIN plan.nodes /\ tasks'[t] = tasks[t]
<1> DEFINE next == applyPlanDelta(plan, proposal).graph
           superseded == applyPlanDelta(plan, proposal).superseded
<1>1. /\ Accepts(plan, proposal, tasks, authority, Deployment, DeltaBounds)
      /\ plan' = next
      /\ tasks' = [t \in DOMAIN next.nodes |->
                     IF t \in superseded THEN [tasks[t] EXCEPT !.status = "superseded"]
                     ELSE IF t \in DOMAIN tasks THEN tasks[t] ELSE NewTask]
  BY DEF Evolve
<1>2. DOMAIN tasks = DOMAIN plan.nodes
  BY DEF HistoryInv, TasksAreSound
<1>3. ASSUME NEW t \in DOMAIN plan.nodes, tasks[t].status \notin Waits
      PROVE  /\ t \in DOMAIN next.nodes /\ next.nodes[t] = plan.nodes[t]
             /\ Incoming(next, t) = Incoming(plan, t)
             /\ tasks'[t] = tasks[t]
  <2>1. tasks[t].status \notin {"pending", "ready"}
    BY <1>2, <1>3 DEF HistoryInv, TasksAreSound, Waits
  <2>2. /\ t \notin superseded /\ t \in DOMAIN next.nodes
        /\ next.nodes[t] = plan.nodes[t] /\ Incoming(next, t) = Incoming(plan, t)
    BY <1>1, <2>1, AcceptedKeepsHistory
  <2> HIDE DEF next, superseded
  <2> QED
    BY <1>1, <1>2, <2>2
<1>4. ASSUME NEW t \in DOMAIN next.nodes, tasks'[t].status \notin Waits
      PROVE  t \in DOMAIN plan.nodes /\ tasks'[t] = tasks[t]
  <2>1. \A r \in superseded : r \in DOMAIN tasks /\ DOMAIN tasks[r] = {"status", "attempts"}
    <3>1. \A r \in superseded : r \in DOMAIN tasks
      BY <1>1 DEF Accepts, KeepsHistory, applyPlanDelta
    <3> QED
      BY <3>1 DEF HistoryInv, TasksAreSound
  <2> HIDE DEF next, superseded
  <2>2. t \notin superseded
    <3> SUFFICES ASSUME t \in superseded PROVE FALSE
      OBVIOUS
    <3>1. tasks'[t] = [tasks[t] EXCEPT !.status = "superseded"]
      BY <1>1
    <3> QED
      BY <1>4, <2>1, <3>1 DEF Waits
  <2>3. t \in DOMAIN tasks
    <3> SUFFICES ASSUME t \notin DOMAIN tasks PROVE FALSE
      OBVIOUS
    <3>1. tasks'[t] = NewTask
      BY <1>1, <2>2
    <3> QED
      BY <1>4, <3>1 DEF NewTask, Waits
  <2> QED
    BY <1>1, <1>2, <2>2, <2>3
<1> HIDE DEF next, superseded
<1> QED
  BY <1>1, <1>3, <1>4

(* An accepted delta (applyPlanDelta) leaves every task alone that is not   *)
(* pending.                                                                 *)
LEMMA EvolveKeepsHistory ==
  ASSUME HistoryInv, NEW proposal \in Proposals, NEW authority \in Authorities,
         Evolve(proposal, authority)
  PROVE  HistoryInv'
<1> DEFINE next == applyPlanDelta(plan, proposal).graph
           superseded == applyPlanDelta(plan, proposal).superseded
<1>1. /\ Accepts(plan, proposal, tasks, authority, Deployment, DeltaBounds)
      /\ plan' = next /\ begun' = begun /\ dag' = dag
      /\ tasks' = [t \in DOMAIN next.nodes |->
                     IF t \in superseded THEN [tasks[t] EXCEPT !.status = "superseded"]
                     ELSE IF t \in DOMAIN tasks THEN tasks[t] ELSE NewTask]
  BY DEF Evolve
<1>2. DOMAIN tasks = DOMAIN plan.nodes
  BY DEF HistoryInv, TasksAreSound
<1>3. \A t \in superseded : t \in DOMAIN tasks /\ tasks[t].status \in {"pending", "ready"}
  BY <1>1 DEF Accepts, KeepsHistory, applyPlanDelta
<1>4. \A t \in DOMAIN plan.nodes : tasks[t].status \notin Waits =>
        /\ t \in DOMAIN next.nodes /\ next.nodes[t] = plan.nodes[t]
        /\ Incoming(next, t) = Incoming(plan, t)
        /\ tasks'[t] = tasks[t]
  BY <1>1, EvolvedTasks
<1> HIDE DEF next, superseded
<1>5. Kept(plan, tasks, plan', tasks')
  BY <1>1, <1>4 DEF Kept
<1>6. TasksAreSound'
  <2>1. DOMAIN tasks' = DOMAIN plan'.nodes
    BY <1>1
  <2>2. ASSUME NEW t \in DOMAIN next.nodes
        PROVE  /\ DOMAIN tasks'[t] = {"status", "attempts"}
               /\ tasks'[t].status \in {"pending", "superseded", "running",
                                        "succeeded", "failed", "cancelled"}
               /\ tasks'[t].attempts = IF tasks'[t].status \in Waits THEN 0 ELSE 1
    <3>1. CASE t \in superseded
      <4>1. tasks'[t] = [tasks[t] EXCEPT !.status = "superseded"]
        BY <1>1, <3>1
      <4>2. /\ DOMAIN tasks[t] = {"status", "attempts"} /\ tasks[t].attempts = 0
        BY <1>3, <3>1 DEF HistoryInv, TasksAreSound, Waits
      <4> QED
        BY <4>1, <4>2 DEF Waits
    <3>2. CASE t \notin superseded /\ t \in DOMAIN tasks
      <4>1. tasks'[t] = tasks[t]
        BY <1>1, <3>2
      <4> QED
        BY <3>2, <4>1 DEF HistoryInv, TasksAreSound
    <3>3. CASE t \notin superseded /\ t \notin DOMAIN tasks
      <4>1. tasks'[t] = NewTask
        BY <1>1, <3>3
      <4> QED
        BY <4>1 DEF NewTask, Waits
    <3> QED
      BY <3>1, <3>2, <3>3
  <2> QED
    BY <1>1, <2>1, <2>2 DEF TasksAreSound
<1>7. DagFields'
  BY <1>1 DEF HistoryInv, DagFields
<1>8. BegunStands'
  BY <1>1, <1>5, StandsStays DEF HistoryInv, BegunStands
<1>9. AdmittedStands'
  <2> SUFFICES ASSUME dag.step # "idle", NEW t \in dag.admitted
               PROVE  /\ Stands(plan', tasks', t, dag.graph.nodes[t], Incoming(dag.graph, t))
                      /\ tasks'[t].status = "running"
    BY <1>1 DEF AdmittedStands
  <2>1. /\ Stands(plan, tasks, t, dag.graph.nodes[t], Incoming(dag.graph, t))
        /\ tasks[t].status = "running"
    BY DEF HistoryInv, AdmittedStands
  <2>2. tasks'[t] = tasks[t]
    BY <1>4, <2>1 DEF Stands
  <2> QED
    BY <1>5, <2>1, <2>2, StandsStays
<1> QED
  BY <1>6, <1>7, <1>8, <1>9 DEF HistoryInv

(* Each task that began is in every later version as it was, on             *)
(* dependencies that succeeded; each task of the activation runs.          *)
LEMMA HistoryInvariant == PlanSpec => [](HistoryInv /\ OutcomesInv)
<1>1. PlanInit => HistoryInv /\ OutcomesInv
  <2> SUFFICES ASSUME PlanInit PROVE HistoryInv /\ OutcomesInv
    OBVIOUS
  <2>1. dag = NoActivation /\ begun = {} /\ tasks = [t \in DOMAIN plan.nodes |-> NewTask]
    BY DEF PlanInit
  <2>2. TasksAreSound
    BY <2>1 DEF TasksAreSound, NewTask, Waits
  <2> QED
    BY <2>1, <2>2, IdleFields
       DEF HistoryInv, OutcomesInv, DagFields, BegunStands, AdmittedStands
<1>2. GraphInv /\ HistoryInv /\ OutcomesInv /\ [PlanNext]_planVars => (HistoryInv /\ OutcomesInv)'
  <2> SUFFICES ASSUME GraphInv, HistoryInv, OutcomesInv, [PlanNext]_planVars
               PROVE  HistoryInv'
    BY OutcomesStep
  <2>1. ASSUME NEW t, ChildRejects(t)
        PROVE  HistoryInv'
    BY <2>1, EndedKeepsHistory DEF ChildRejects
  <2>2. CASE PreparedLost \/ SettleFails \/ Abort \/ UNCHANGED planVars
    BY <2>2, EndedKeepsHistory DEF PreparedLost, SettleFails, Abort, planVars
  <2> QED
    BY <2>1, <2>2, PrepareKeepsHistory, FlushedKeepsHistory, EndsKeepsHistory,
       SettleKeepsHistory, EvolveKeepsHistory DEF PlanNext
<1> QED
  BY <1>1, <1>2, GraphInvariant, PTL DEF PlanSpec

(* No delta changes a task that began, puts a dependency before it or       *)
(* takes away what it depends on, whether its activation is still under way *)
(* or long settled (the checks of validatePlanDelta against the journal).  *)
THEOREM BegunTasksNeverChange == PlanSpec => []HistoryStands
<1>1. HistoryInv => HistoryStands
  BY DEF HistoryInv, BegunStands, Stands, HistoryStands, Waits
<1> QED
  BY <1>1, HistoryInvariant, PTL


-----------------------------------------------------------------------------
(* Agents and bytes.                                                        *)

(* The limits of a graph that materializes are natural numbers.             *)
LEMMA LimitsAreNumbers ==
  ASSUME NEW graph, GraphIsSound(graph)
  PROVE  /\ graph.limits.maxAgents \in Nat /\ graph.limits.maxConcurrent \in Nat
         /\ graph.limits.maxOutputBytes \in Nat
<1>1. \A f \in DOMAIN LimitMaximums : graph.limits[f] \in 1..LimitMaximums[f]
  BY DEF GraphIsSound, materializePlanGraph, materializeStrategyLimits
<1>2. /\ DOMAIN LimitMaximums = {"maxAgents", "maxConcurrent", "maxOutputBytes"}
      /\ \A f \in DOMAIN LimitMaximums : LimitMaximums[f] \in Nat
  BY NumbersAssumption DEF NumbersAssumption
<1>3. \A f \in DOMAIN LimitMaximums : graph.limits[f] \in Nat
  BY <1>1, <1>2
<1> QED
  BY <1>2, <1>3

(* The agents of some of its tasks are within what a graph may have.        *)
LEMMA AgentsWithin ==
  ASSUME NEW graph, GraphIsSound(graph), NEW S \in SUBSET DOMAIN graph.nodes
  PROVE  /\ IsFiniteSet(S) /\ [t \in S |-> graph.nodes[t].agentCount] \in [S -> Nat]
         /\ Agents(graph, S) \in Nat /\ Agents(graph, S) <= graph.limits.maxAgents
<1> DEFINE nodes == graph.nodes
           w == [t \in DOMAIN nodes |-> nodes[t].agentCount]
           part == [t \in S |-> nodes[t].agentCount]
<1>1. IsFiniteSet(DOMAIN nodes) /\ IsFiniteSet(S)
  BY FS_Subset DEF GraphIsSound
<1>2. \A t \in DOMAIN nodes : nodes[t].agentCount \in Nat
  <2> SUFFICES ASSUME NEW t \in DOMAIN nodes PROVE nodes[t].agentCount \in Nat
    OBVIOUS
  <2>1. ValidTaskBody(nodes[t])
    BY DEF GraphIsSound, materializePlanGraph, Evolves
  <2>2. /\ nodes[t].agentCount = nodes[t].primitive.count
        /\ nodes[t].primitive.count \in 1..FanoutMax
    BY <2>1 DEF ValidTaskBody, ValidPrimitive
  <2> QED
    BY <2>2, NumbersAssumption DEF NumbersAssumption
<1>3. w \in [DOMAIN nodes -> Nat] /\ part \in [S -> Nat] /\ part = [t \in S |-> w[t]]
  BY <1>2
<1>4. Total(w) <= graph.limits.maxAgents
  BY DEF GraphIsSound, materializePlanGraph, Evolves, validatePlanGraphSemantics
<1>5. Agents(graph, S) = Total(part)
  BY DEF Agents
<1> HIDE DEF w, part, nodes
<1>6. Total(part) <= Total(w) /\ Total(part) \in Nat /\ Total(w) \in Nat
  <2>1. Total([t \in S |-> w[t]]) <= Total(w)
    BY <1>1, <1>3, TotalOfPart DEF nodes
  <2> QED
    BY <1>1, <1>3, <2>1, TotalType
<1>7. graph.limits.maxAgents \in Nat
  BY LimitsAreNumbers
<1>8. Agents(graph, S) <= graph.limits.maxAgents /\ Agents(graph, S) \in Nat
  BY <1>4, <1>5, <1>6, <1>7
<1> QED
  BY <1>1, <1>3, <1>8 DEF part, nodes

(* The agents of more tasks are those of the old ones and the new ones.     *)
LEMMA AgentsAdded ==
  ASSUME NEW graph, GraphIsSound(graph), NEW A \in SUBSET DOMAIN graph.nodes,
         NEW B \in SUBSET DOMAIN graph.nodes, A \cap B = {}
  PROVE  Agents(graph, A \cup B) = Agents(graph, A) + Agents(graph, B)
<1> DEFINE w == [t \in A \cup B |-> graph.nodes[t].agentCount]
<1>1. A \cup B \in SUBSET DOMAIN graph.nodes
  OBVIOUS
<1>2. IsFiniteSet(A \cup B) /\ w \in [A \cup B -> Nat]
  BY <1>1, AgentsWithin
<1>3. /\ [t \in A |-> w[t]] = [t \in A |-> graph.nodes[t].agentCount]
      /\ [t \in (A \cup B) \ A |-> w[t]] = [t \in B |-> graph.nodes[t].agentCount]
  <2>1. (A \cup B) \ A = B
    OBVIOUS
  <2> QED
    BY <2>1
<1>4. Agents(graph, A \cup B) = Total(w)
  BY DEF Agents
<1> HIDE DEF w
<1>5. Total(w) = Total([t \in A |-> w[t]]) + Total([t \in (A \cup B) \ A |-> w[t]])
  BY <1>2, TotalSplit
<1> QED
  BY <1>3, <1>4, <1>5 DEF Agents

(* Of some tasks one comes last.                                            *)
LEMMA LastTask ==
  ASSUME NEW S \in SUBSET (Nat \X Nat), IsFiniteSet(S), S # {}
  PROVE  \E t \in S : \A s \in S : s = t \/ Precedes(s, t)
<1> DEFINE after(t) == {s \in S : Precedes(t, s)}
           P == {after(t) : t \in S}
<1>1. \A r, s, t \in Nat \X Nat :
        /\ ~Precedes(t, t)
        /\ r = s \/ Precedes(r, s) \/ Precedes(s, r)
        /\ Precedes(r, s) /\ Precedes(s, t) => Precedes(r, t)
  BY DEF Precedes
<1>2. PICK U \in P : \A V \in P : V \subseteq U => V = U
  <2>1. P \in SUBSET SUBSET S /\ P # {}
    OBVIOUS
  <2> HIDE DEF P
  <2> QED
    BY <2>1, Smallest
<1>3. PICK t \in S : U = after(t)
  OBVIOUS
<1>4. after(t) = {}
  <2> SUFFICES ASSUME NEW s \in after(t) PROVE FALSE
    OBVIOUS
  <2>1. after(s) \subseteq after(t) /\ s \notin after(s)
    BY <1>1
  <2>2. after(s) \in P
    OBVIOUS
  <2> HIDE DEF P, after
  <2> QED
    BY <1>2, <1>3, <2>1, <2>2
<1>5. \A s \in S : ~Precedes(t, s)
  BY <1>4
<1> QED
  BY <1>1, <1>5

(* What is admitted is within the width of the activation.                  *)
LEMMA AdmittedWithinWidth ==
  ASSUME NEW graph, GraphIsSound(graph), NEW frontier \in SUBSET DOMAIN graph.nodes,
         NEW remaining, NEW bounds \in Bounds, NEW admitted, admitted # {},
         Admits(graph, frontier, remaining, bounds, admitted)
  PROVE  /\ Agents(graph, admitted) <= bounds.maxConcurrent
         /\ Agents(graph, admitted) <= graph.limits.maxConcurrent
<1> DEFINE width == IF bounds.maxConcurrent < graph.limits.maxConcurrent
                    THEN bounds.maxConcurrent ELSE graph.limits.maxConcurrent
           before(t) == {s \in admitted : Precedes(s, t)}
<1>1. admitted \subseteq frontier /\ \A t \in admitted : Agents(graph, before(t) \cup {t}) <= width
  BY DEF Admits
<1>2. admitted \in SUBSET DOMAIN graph.nodes
  BY <1>1
<1>3. IsFiniteSet(admitted) /\ admitted \in SUBSET (Nat \X Nat)
  BY <1>2, AgentsWithin DEF GraphIsSound
<1>4. PICK t \in admitted : \A s \in admitted : s = t \/ Precedes(s, t)
  BY <1>3, LastTask
<1>5. before(t) \cup {t} = admitted
  BY <1>4
<1>6. Agents(graph, admitted) <= width
  BY <1>1, <1>5
<1>7. /\ Agents(graph, admitted) \in Nat /\ graph.limits.maxConcurrent \in Nat
      /\ bounds.maxConcurrent \in Nat
  BY <1>2, AgentsWithin, LimitsAreNumbers, NumbersAssumption DEF NumbersAssumption
<1> QED
  BY <1>6, <1>7

(* Equal shares are not more than the whole.                                *)
LEMMA Share ==
  ASSUME NEW a \in Nat, NEW n \in Nat \ {0}, NEW m \in Nat, m <= n
  PROVE  a \div n \in Nat /\ (a \div n) * m <= a
<1>1. a \div n \in Nat /\ (a \div n) * n <= a
  OBVIOUS
<1>2. \A b \in Nat : b * m <= b * n /\ b * m \in Nat /\ b * n \in Nat
  OBVIOUS
<1> QED
  BY <1>1, <1>2


Started == {t \in DOMAIN tasks : tasks[t].status \notin Waits}

UsageInv ==
  /\ DOMAIN usage = {"agents", "bytes"} /\ usage.bytes \in Nat
  /\ usage.agents = Agents(plan, Started)

(* What the activation was admitted with, and what its children are given.  *)
ActivationInv ==
  dag.step # "idle" =>
    /\ GraphIsSound(dag.graph)
    /\ dag.admitted # {} /\ IsFiniteSet(dag.admitted)
    /\ Agents(dag.graph, dag.admitted) <= dag.bounds.maxConcurrent
    /\ Agents(dag.graph, dag.admitted) <= dag.graph.limits.maxConcurrent
    /\ dag.bytes \in Nat /\ dag.bytes < dag.graph.limits.maxOutputBytes
    /\ dag.step = "execute" => dag.budget = OutputByteBudget(dag)

(* A step that moves no task out of waiting leaves the agents used as       *)
(* they are counted.                                                        *)
LEMMA UsageStaysEqual ==
  ASSUME HistoryInv, UsageInv, UNCHANGED <<plan, usage>>,
         DOMAIN tasks' = DOMAIN tasks,
         \A t \in DOMAIN tasks : (tasks'[t].status \in Waits) = (tasks[t].status \in Waits)
  PROVE  UsageInv'
<1>1. Started' = Started
  BY DEF Started
<1>2. Agents(plan, Started)' = Agents(plan, Started)
  BY <1>1 DEF Agents
<1> QED
  BY <1>2 DEF UsageInv

(* Every step keeps the agents and bytes used equal to what the tasks and   *)
(* artifacts say, and within the limits.                                    *)
LEMMA UsageStep ==
  ASSUME GraphInv, HistoryInv, OutcomesInv, UsageInv, ActivationInv, [PlanNext]_planVars
  PROVE  UsageInv'
<1>1. ASSUME NEW bounds, NEW admitted, Prepare(bounds, admitted)
      PROVE  UsageInv'
  <2>1. /\ plan' = plan
        /\ tasks' = [t \in DOMAIN tasks |->
             IF t \in admitted THEN [status |-> "running", attempts |-> 1] ELSE tasks[t]]
        /\ usage' = [usage EXCEPT !.agents = @ + Agents(plan, admitted)]
        /\ admitted \subseteq deriveReadyFrontier(plan, tasks, artifacts)
    BY <1>1 DEF Prepare, Admits
  <2>2. DOMAIN tasks = DOMAIN plan.nodes
    BY DEF HistoryInv, TasksAreSound
  <2>3. \A t \in admitted : t \in DOMAIN tasks /\ tasks[t].status = "pending"
    BY <2>1, <2>2, ReadyTask DEF GraphInv
  <2>4. /\ Started \in SUBSET DOMAIN plan.nodes /\ admitted \in SUBSET DOMAIN plan.nodes
        /\ Started \cap admitted = {}
    BY <2>2, <2>3 DEF Started, Waits
  <2>5. Started' = Started \cup admitted
    <3>1. \A t \in DOMAIN tasks \ admitted : tasks'[t] = tasks[t]
      BY <2>1
    <3>2. \A t \in admitted : tasks'[t].status = "running"
      BY <2>1, <2>3
    <3>3. DOMAIN tasks' = DOMAIN tasks
      BY <2>1
    <3> QED
      BY <2>3, <3>1, <3>2, <3>3 DEF Started, Waits
  <2>6. Agents(plan, Started \cup admitted) = Agents(plan, Started) + Agents(plan, admitted)
    BY <2>4, AgentsAdded DEF GraphInv
  <2>7. Agents(plan, Started)' = Agents(plan, Started \cup admitted)
    BY <2>1, <2>5 DEF Agents
  <2>8. /\ DOMAIN usage' = {"agents", "bytes"} /\ usage'.bytes = usage.bytes
        /\ usage'.agents = usage.agents + Agents(plan, admitted)
    BY <2>1 DEF UsageInv
  <2> QED
    BY <2>6, <2>7, <2>8 DEF UsageInv
<1>2. CASE Settle
  <2>1. /\ plan' = plan /\ DOMAIN dag.outcomes = dag.admitted /\ dag.step = "execute"
        /\ tasks' = [t \in DOMAIN tasks |->
             IF t \in dag.admitted THEN [tasks[t] EXCEPT !.status = dag.outcomes[t].kind]
             ELSE tasks[t]]
        /\ usage' = [usage EXCEPT !.bytes = @ + AcceptedBytes(dag)]
    BY <1>2 DEF Settle, AllOutcomes
  <2>2. \A t \in dag.admitted : /\ tasks[t].status = "running" /\ t \in DOMAIN tasks
                                /\ DOMAIN tasks[t] = {"status", "attempts"}
                                /\ dag.outcomes[t].kind \in {"succeeded", "failed", "cancelled"}
    BY <2>1 DEF HistoryInv, AdmittedStands, Stands, TasksAreSound, OutcomesInv, Outcomes
  <2>3. Started' = Started
    <3>1. DOMAIN tasks' = DOMAIN tasks
      BY <2>1
    <3>2. \A t \in DOMAIN tasks \ dag.admitted : tasks'[t] = tasks[t]
      BY <2>1
    <3>3. \A t \in dag.admitted : tasks'[t].status = dag.outcomes[t].kind
      BY <2>1, <2>2
    <3> QED
      BY <2>2, <3>1, <3>2, <3>3 DEF Started, Waits
  <2>4. Agents(plan, Started)' = Agents(plan, Started)
    BY <2>1, <2>3 DEF Agents
  <2>5. AcceptedBytes(dag) \in Nat
    <3> DEFINE w == [t \in Succeeded(dag) |-> dag.outcomes[t].bytes]
    <3>1. IsFiniteSet(Succeeded(dag))
      BY <2>1, FS_Subset DEF ActivationInv, Succeeded
    <3>2. w \in [Succeeded(dag) -> Nat]
      BY <2>1, NumbersAssumption DEF NumbersAssumption, OutcomesInv, Succeeded, Outcomes
    <3> HIDE DEF w
    <3>3. Total(w) \in Nat
      BY <3>1, <3>2, TotalType
    <3> QED
      BY <3>3 DEF AcceptedBytes, w
  <2>6. /\ DOMAIN usage' = {"agents", "bytes"} /\ usage'.agents = usage.agents
        /\ usage'.bytes = usage.bytes + AcceptedBytes(dag)
    BY <2>1 DEF UsageInv
  <2> QED
    BY <2>4, <2>5, <2>6 DEF UsageInv
<1>3. ASSUME NEW proposal \in Proposals, NEW authority \in Authorities,
             Evolve(proposal, authority)
      PROVE  UsageInv'
  <2>1. usage' = usage
    BY <1>3 DEF Evolve
  <2>2. HistoryInv'
    BY <1>3, EvolveKeepsHistory
  <2>3. DOMAIN tasks = DOMAIN plan.nodes /\ DOMAIN tasks' = DOMAIN plan'.nodes
    BY <2>2 DEF HistoryInv, TasksAreSound
  <2>4. /\ \A t \in Started : /\ t \in DOMAIN tasks' /\ tasks'[t] = tasks[t]
                              /\ plan'.nodes[t] = plan.nodes[t]
        /\ \A t \in Started' : t \in DOMAIN tasks /\ tasks'[t] = tasks[t]
    BY <1>3, <2>3, EvolvedTasks DEF Started
  <2>5. Started' = Started
    BY <2>4 DEF Started
  <2>6. [t \in Started |-> plan'.nodes[t].agentCount] = [t \in Started |-> plan.nodes[t].agentCount]
    BY <2>4
  <2>7. Agents(plan, Started)' = Agents(plan, Started)
    BY <2>5, <2>6 DEF Agents
  <2> QED
    BY <2>1, <2>7 DEF UsageInv
<1>4. ASSUME UNCHANGED <<plan, tasks, usage>>
      PROVE  UsageInv'
  BY <1>4, UsageStaysEqual
<1>5. ASSUME NEW t, ChildRejects(t) \/ \E outcome \in Outcomes : ChildEnds(t, outcome)
      PROVE  UsageInv'
  BY <1>4, <1>5 DEF ChildRejects, ChildEnds
<1>6. CASE PreparedFlushed \/ PreparedLost \/ SettleFails \/ Abort \/ UNCHANGED planVars
  BY <1>4, <1>6 DEF PreparedFlushed, PreparedLost, SettleFails, Abort, planVars
<1> QED
  BY <1>1, <1>2, <1>3, <1>5, <1>6 DEF PlanNext

(* An activation is as it was admitted until it ends.                       *)
LEMMA SameActivation ==
  ASSUME ActivationInv, dag'.step # "idle" => dag.step # "idle",
         dag'.graph = dag.graph, dag'.admitted = dag.admitted, dag'.bounds = dag.bounds,
         dag'.bytes = dag.bytes,
         dag'.step = "execute" => dag'.budget = OutputByteBudget(dag)
  PROVE  ActivationInv'
<1>1. OutputByteBudget(dag)' = OutputByteBudget(dag)
  BY DEF OutputByteBudget
<1>2. (dag.graph)' = dag.graph /\ (dag.admitted)' = dag.admitted
  OBVIOUS
<1>3. /\ GraphIsSound(dag.graph)' = GraphIsSound(dag.graph)
      /\ Agents(dag.graph, dag.admitted)' = Agents(dag.graph, dag.admitted)
  BY <1>2 DEF GraphIsSound, Agents
<1> QED
  BY <1>1, <1>2, <1>3 DEF ActivationInv

(* Every step keeps the budget that an activation was given within what     *)
(* was left when it was prepared.                                           *)
LEMMA ActivationStep ==
  ASSUME GraphInv, HistoryInv, UsageInv, ActivationInv, [PlanNext]_planVars
  PROVE  ActivationInv'
<1>1. ASSUME NEW bounds \in Bounds, NEW admitted, Prepare(bounds, admitted)
      PROVE  ActivationInv'
  <2> DEFINE frontier == deriveReadyFrontier(plan, tasks, artifacts)
             remaining == Remaining(plan.limits.maxAgents, usage.agents)
  <2>1. /\ dag' = [step |-> "prepared", graph |-> plan, admitted |-> admitted,
                   bounds |-> bounds, bytes |-> usage.bytes, budget |-> 0, outcomes |-> <<>>]
        /\ Admits(plan, frontier, remaining, bounds, admitted)
        /\ admitted # {} /\ usage.bytes < plan.limits.maxOutputBytes
    BY <1>1 DEF Prepare
  <2>2. /\ dag'.step = "prepared" /\ dag'.graph = plan /\ dag'.admitted = admitted
        /\ dag'.bounds = bounds /\ dag'.bytes = usage.bytes
    BY <2>1
  <2>3. frontier \in SUBSET DOMAIN plan.nodes
    BY DEF deriveReadyFrontier
  <2>4. admitted \in SUBSET DOMAIN plan.nodes
    BY <2>1, <2>3 DEF Admits
  <2> HIDE DEF frontier, remaining
  <2>5. /\ Agents(plan, admitted) <= bounds.maxConcurrent
        /\ Agents(plan, admitted) <= plan.limits.maxConcurrent
    BY <2>1, <2>3, AdmittedWithinWidth DEF GraphInv
  <2>6. IsFiniteSet(admitted)
    BY <2>4, AgentsWithin DEF GraphInv
  <2>7. /\ GraphIsSound(dag.graph)' = GraphIsSound(plan)
        /\ Agents(dag.graph, dag.admitted)' = Agents(plan, admitted)
    BY <2>2 DEF GraphIsSound, Agents
  <2> QED
    BY <2>1, <2>2, <2>5, <2>6, <2>7 DEF ActivationInv, GraphInv, UsageInv
<1>2. CASE dag' = NoActivation
  BY <1>2, IdleFields DEF ActivationInv
<1>3. CASE dag' = dag
  <2>1. dag'.step = "execute" => dag'.budget = OutputByteBudget(dag)
    BY <1>3 DEF ActivationInv
  <2> QED
    BY <1>3, <2>1, SameActivation
<1>4. CASE PreparedFlushed
  <2>1. CASE aborted
    BY <1>2, <1>4, <2>1 DEF PreparedFlushed
  <2>2. CASE ~aborted
    <3>1. /\ dag'.budget = OutputByteBudget(dag)
          /\ dag'.graph = dag.graph /\ dag'.admitted = dag.admitted
          /\ dag'.bounds = dag.bounds /\ dag'.bytes = dag.bytes
      BY <1>4, <2>2, FlushedDag DEF HistoryInv
    <3>2. dag.step # "idle"
      BY <1>4 DEF PreparedFlushed
    <3> QED
      BY <3>1, <3>2, SameActivation
  <2> QED
    BY <2>1, <2>2
<1>5. ASSUME NEW t, NEW outcome, ChildEnds(t, outcome)
      PROVE  ActivationInv'
  <2>1. /\ dag'.step = dag.step /\ dag'.budget = dag.budget
        /\ dag'.graph = dag.graph /\ dag'.admitted = dag.admitted
        /\ dag'.bounds = dag.bounds /\ dag'.bytes = dag.bytes
    BY <1>5, AnsweredDag DEF HistoryInv
  <2>2. dag'.step = "execute" => dag'.budget = OutputByteBudget(dag)
    BY <2>1 DEF ActivationInv
  <2> QED
    BY <2>1, <2>2, SameActivation
<1>6. ASSUME NEW t, ChildRejects(t)
      PROVE  ActivationInv'
  BY <1>2, <1>3, <1>6 DEF ChildRejects
<1>7. CASE PreparedLost \/ Settle \/ SettleFails
  BY <1>2, <1>7 DEF PreparedLost, Settle, SettleFails
<1>8. ASSUME NEW proposal, NEW authority, Evolve(proposal, authority)
      PROVE  ActivationInv'
  BY <1>3, <1>8 DEF Evolve
<1>9. CASE Abort \/ UNCHANGED planVars
  BY <1>3, <1>9 DEF Abort, planVars
<1> QED
  BY <1>1, <1>4, <1>5, <1>6, <1>7, <1>8, <1>9 DEF PlanNext

(* What the activation counts from is what the run has used.                *)
BytesInv == dag.step # "idle" => dag.bytes = usage.bytes

(* No bytes are settled while an activation goes on but its own.            *)
LEMMA BytesStep ==
  ASSUME HistoryInv, UsageInv, BytesInv, [PlanNext]_planVars
  PROVE  BytesInv'
<1>1. ASSUME NEW bounds, NEW admitted, Prepare(bounds, admitted)
      PROVE  BytesInv'
  <2>1. dag'.bytes = usage.bytes
    BY <1>1 DEF Prepare
  <2>2. usage' = [usage EXCEPT !.agents = @ + Agents(plan, admitted)]
    BY <1>1 DEF Prepare
  <2>3. usage'.bytes = usage.bytes
    BY <2>2 DEF UsageInv
  <2> QED
    BY <2>1, <2>3 DEF BytesInv
<1>2. CASE dag' = NoActivation
  BY <1>2, IdleFields DEF BytesInv
<1>3. CASE dag' = dag /\ usage' = usage
  BY <1>3 DEF BytesInv
<1>4. CASE PreparedFlushed
  <2>1. CASE aborted
    BY <1>2, <1>4, <2>1 DEF PreparedFlushed
  <2>2. CASE ~aborted
    <3>1. dag'.bytes = dag.bytes
      BY <1>4, <2>2, FlushedDag DEF HistoryInv
    <3>2. dag.step # "idle" /\ usage' = usage
      BY <1>4 DEF PreparedFlushed
    <3> QED
      BY <3>1, <3>2 DEF BytesInv
  <2> QED
    BY <2>1, <2>2
<1>5. ASSUME NEW t, NEW outcome, ChildEnds(t, outcome)
      PROVE  BytesInv'
  <2>1. dag'.step = dag.step /\ dag'.bytes = dag.bytes
    BY <1>5, AnsweredDag DEF HistoryInv
  <2>2. usage' = usage
    BY <1>5 DEF ChildEnds
  <2> QED
    BY <2>1, <2>2 DEF BytesInv
<1>6. ASSUME NEW t, ChildRejects(t)
      PROVE  BytesInv'
  BY <1>2, <1>3, <1>6 DEF ChildRejects
<1>7. CASE PreparedLost \/ Settle \/ SettleFails
  BY <1>2, <1>7 DEF PreparedLost, Settle, SettleFails
<1>8. ASSUME NEW proposal, NEW authority, Evolve(proposal, authority)
      PROVE  BytesInv'
  BY <1>3, <1>8 DEF Evolve
<1>9. CASE Abort \/ UNCHANGED planVars
  BY <1>3, <1>9 DEF Abort, planVars
<1> QED
  BY <1>1, <1>4, <1>5, <1>6, <1>7, <1>8, <1>9 DEF PlanNext

BudgetInv == UsageInv /\ ActivationInv /\ BytesInv

(* In every reachable state usage and activation are within the limits.     *)
LEMMA BudgetInvariant == PlanSpec => []BudgetInv
<1>1. PlanInit => BudgetInv
  <2> SUFFICES ASSUME PlanInit PROVE BudgetInv
    OBVIOUS
  <2>1. /\ dag = NoActivation /\ usage = [agents |-> 0, bytes |-> 0]
        /\ tasks = [t \in DOMAIN plan.nodes |-> NewTask]
    BY DEF PlanInit
  <2>2. Started = {}
    BY <2>1 DEF Started, NewTask, Waits
  <2>3. Agents(plan, Started) = 0
    <3> DEFINE w == [t \in {} |-> plan.nodes[t].agentCount]
    <3>1. Agents(plan, Started) = Total(w)
      BY <2>2 DEF Agents
    <3>2. DOMAIN w = {} /\ w \in [{} -> Nat]
      OBVIOUS
    <3> HIDE DEF w
    <3> QED
      BY <3>1, <3>2, TotalEmpty
  <2> QED
    BY <2>1, <2>3, IdleFields DEF BudgetInv, UsageInv, ActivationInv, BytesInv
<1>2. /\ GraphInv /\ HistoryInv /\ OutcomesInv /\ BudgetInv /\ [PlanNext]_planVars
      => BudgetInv'
  BY UsageStep, ActivationStep, BytesStep DEF BudgetInv
<1> QED
  BY <1>1, <1>2, GraphInvariant, HistoryInvariant, PTL DEF PlanSpec

(* Children that keep to their budgets do not exceed what is left.          *)
LEMMA BudgetsAreEnough ==
  ASSUME OutcomesInv, ActivationInv, AllOutcomes,
         \A t \in DOMAIN dag.outcomes : validateOutcome(dag.outcomes[t], dag.budget)
  PROVE  Settleable
<1> DEFINE done == Succeeded(dag)
           w == [t \in done |-> dag.outcomes[t].bytes]
           limit == dag.graph.limits.maxOutputBytes
           left == Remaining(limit, dag.bytes)
           n == Cardinality(dag.admitted)
           m == Cardinality(done)
<1>1. dag.step = "execute" /\ DOMAIN dag.outcomes = dag.admitted
  BY DEF AllOutcomes
<1>2. /\ dag.admitted # {} /\ IsFiniteSet(dag.admitted)
      /\ dag.bytes \in Nat /\ dag.bytes < limit /\ limit \in Nat
      /\ dag.budget = left \div n
  BY <1>1, LimitsAreNumbers DEF ActivationInv, OutputByteBudget
<1>3. IsFiniteSet(done) /\ m <= n /\ m \in Nat /\ n \in Nat \ {0}
  <2>1. done \in SUBSET dag.admitted
    BY <1>1 DEF Succeeded
  <2>2. IsFiniteSet(done) /\ m <= n
    BY <1>2, <2>1, FS_Subset
  <2>3. m \in Nat /\ n \in Nat /\ n # 0
    BY <1>2, <2>2, FS_CardinalityType, FS_EmptySet
  <2> QED
    BY <2>2, <2>3
<1>4. left \in Nat /\ left = limit - dag.bytes
  BY <1>2 DEF Remaining
<1>5. dag.budget \in Nat /\ dag.budget * m <= left
  BY <1>2, <1>3, <1>4, Share
<1>6. w \in [done -> Nat] /\ \A t \in done : w[t] <= dag.budget
  <2>1. \A t \in done : /\ t \in DOMAIN dag.outcomes /\ dag.outcomes[t].kind = "succeeded"
                        /\ dag.outcomes[t] \in Outcomes
    BY <1>1 DEF OutcomesInv, Succeeded
  <2>2. OutputBytes \subseteq Nat
    BY NumbersAssumption DEF NumbersAssumption
  <2>3. \A t \in done : dag.outcomes[t].bytes \in Nat
    <3>1. ASSUME NEW o \in Outcomes
          PROVE  o.bytes \in Nat
      <4>1. CASE o \in [kind : {"succeeded"}, bytes : OutputBytes, right : BOOLEAN]
        <5>1. o.bytes \in OutputBytes
          BY ONLY <4>1
        <5> QED
          BY ONLY <2>2, <5>1
      <4>2. CASE o \in {[kind |-> k, bytes |-> 0, right |-> TRUE] : k \in {"failed", "cancelled"}}
        BY ONLY <4>2
      <4> QED
        BY <4>1, <4>2 DEF Outcomes
    <3> HIDE DEF done
    <3> QED
      BY <2>1, <3>1
  <2>4. \A t \in done : dag.outcomes[t].bytes <= dag.budget
    BY <2>1 DEF validateOutcome
  <2> HIDE DEF done
  <2> QED
    BY <2>3, <2>4
<1> HIDE DEF w, done, limit, left, n
<1>7. Total(w) <= dag.budget * m /\ Total(w) \in Nat
  BY <1>3, <1>5, <1>6, TotalBound, TotalType
<1>8. AcceptedBytes(dag) = Total(w)
  BY DEF AcceptedBytes, w, done
<1>9. dag.budget * m \in Nat
  BY <1>3, <1>5
<1>10. dag.bytes + AcceptedBytes(dag) <= limit
  BY <1>2, <1>4, <1>5, <1>7, <1>8, <1>9
<1> QED
  BY <1>10 DEF Settleable, limit

(* What runs at once is within the width, what ever started is within the   *)
(* agents of the plan, whatever deltas narrow it, what is settled is within *)
(* the output limit it was admitted under, and children that keep to the    *)
(* shares of the output they were given never make the activation fail     *)
(* (runStaticDagActivation, outputByteBudget).                             *)
THEOREM BudgetsAreKept == PlanSpec => []BudgetsHold
<1>1. GraphInv /\ HistoryInv /\ OutcomesInv /\ BudgetInv => BudgetsHold
  <2> SUFFICES ASSUME GraphInv, HistoryInv, OutcomesInv, BudgetInv PROVE BudgetsHold
    OBVIOUS
  <2>1. Started \in SUBSET DOMAIN plan.nodes
    BY DEF HistoryInv, TasksAreSound, Started
  <2>2. usage.agents <= plan.limits.maxAgents
    BY <2>1, AgentsWithin DEF GraphInv, BudgetInv, UsageInv
  <2>3. AllOutcomes /\ Settleable
          => usage.bytes + AcceptedBytes(dag) <= dag.graph.limits.maxOutputBytes
    BY DEF AllOutcomes, Settleable, BudgetInv, BytesInv
  <2> QED
    BY <2>2, <2>3, BudgetsAreEnough DEF BudgetInv, ActivationInv, BudgetsHold
<1> QED
  BY <1>1, GraphInvariant, HistoryInvariant, BudgetInvariant, PTL

--------------------------------------------------------------------------------
(* Admission: the inductive invariant, for every limit, weight and order of *)
(* calls.                                                                  *)


Admissions(ended, now) ==
  /\ ended \in Seq([admittedAt : Nat, releasedAt : Nat])
  /\ \A i \in 1..Len(ended) :
       /\ ended[i].admittedAt \in Nat /\ ended[i].releasedAt \in Nat
       /\ ended[i].admittedAt <= ended[i].releasedAt /\ ended[i].releasedAt <= now

(* The reservations that are held are numbered, weighed and dated, and an   *)
(* admission the metrics hear of was not released before it was granted.   *)
Records ==
  /\ active \in Nat /\ sequence \in Nat /\ clock \in Nat
  /\ DOMAIN held \subseteq 1..sequence
  /\ held \in [DOMAIN held -> Nat \ {0}]
  /\ admittedAt \in Seq(Nat) /\ Len(admittedAt) = sequence
  /\ \A r \in 1..sequence : admittedAt[r] <= clock
  /\ Admissions(admissions, clock)

(* The admissions that stood when the clock left t: those released later,   *)
(* and those still held.                                                   *)
Standing(ended, t) ==
  {i \in 1..Len(ended) : ended[i].admittedAt <= t /\ t < ended[i].releasedAt}
Released(t) == Standing(admissions, t)
Held(t) == {r \in DOMAIN held : admittedAt[r] <= t}

CountedRight == active = Total(held) /\ active <= MaxConcurrent

NeverTooMany ==
  \A t \in Nat : Cardinality(Released(t)) + Cardinality(Held(t)) <= MaxConcurrent

IInv == Records /\ CountedRight /\ NeverTooMany

USE AdmissionAssumption DEF AdmissionAssumption

-----------------------------------------------------------------------------
(* What peak makes of admissions of which never more than limit stood.      *)

(* The points of released admissions are as many as they are.               *)
LEMMA ShiftCounts ==
  ASSUME NEW n \in Nat, NEW R \in SUBSET (1..n), NEW M, IsFiniteSet(M),
         \A k \in R : n + k \in M
  PROVE  Cardinality(R) <= Cardinality(M)
<1> DEFINE shift == [k \in R |-> n + k]
<1>1. shift \in Injection(R, M)
  <2>1. shift \in [R -> M]
    OBVIOUS
  <2>2. \A a, b \in R : shift[a] = shift[b] => a = b
    OBVIOUS
  <2> HIDE DEF shift
  <2> QED
    BY <2>1, <2>2 DEF Injection, IsInjective
<1> HIDE DEF shift
<1> QED
  BY <1>1, FS_Injection

(* The ones that stand are those granted without those released.            *)
LEMMA StandingCounts ==
  ASSUME NEW n \in Nat, NEW A \in SUBSET (1..n), NEW B \in SUBSET A, NEW limit \in Nat,
         Cardinality(A \ B) <= limit,
         NEW plus \in SUBSET A, NEW minus, IsFiniteSet(minus), \A k \in B : n + k \in minus
  PROVE  Cardinality(plus) - Cardinality(minus) <= limit
<1>1. IsFiniteSet(1..n)
  BY FS_Interval
<1>2. IsFiniteSet(A)
  BY <1>1, FS_Subset
<1>3. IsFiniteSet(B) /\ IsFiniteSet(plus) /\ Cardinality(plus) <= Cardinality(A)
  BY <1>2, FS_Subset
<1>4. Cardinality(B) <= Cardinality(minus)
  BY ShiftCounts
<1>5. A \cap B = B
  OBVIOUS
<1>6. IsFiniteSet(A \ B) /\ Cardinality(A \ B) = Cardinality(A) - Cardinality(B)
  BY <1>2, <1>5, FS_Difference
<1>7. /\ Cardinality(A) \in Nat /\ Cardinality(B) \in Nat /\ Cardinality(plus) \in Nat
      /\ Cardinality(minus) \in Nat
  BY <1>2, <1>3, FS_CardinalityType
<1> QED
  BY <1>3, <1>4, <1>6, <1>7

(* As the points are sorted, the count after each of them is of admissions  *)
(* that stood at one time: the time of the point, or that before it when    *)
(* the point is a release.                                                  *)
LEMMA PeakIsWithinLimit ==
  ASSUME NEW ended, NEW now, Admissions(ended, now), NEW limit \in Nat,
         \A t \in Nat : Cardinality(Standing(ended, t)) <= limit
  PROVE  peak(ended) <= limit
<1> DEFINE n == Len(ended)
           points == [i \in 1..2 * Len(ended) |->
             IF i <= Len(ended) THEN [at |-> ended[i].admittedAt, delta |-> 1]
             ELSE [at |-> ended[i - Len(ended)].releasedAt, delta |-> -1]]
           upTo(i) == {j \in DOMAIN points :
                         Before(points[j], points[i]) \/ (points[j] = points[i] /\ j <= i)}
           plus(i) == {j \in upTo(i) : points[j].delta = 1}
           minus(i) == {j \in upTo(i) : points[j].delta = -1}
           counts == {Cardinality(plus(i)) - Cardinality(minus(i)) : i \in DOMAIN points}
<1>1. peak(ended) = Largest(counts)
  BY DEF peak
<1>2. n \in Nat
  BY DEF Admissions
<1>3. DOMAIN points = 1..2 * n
  OBVIOUS
<1>4. \A j \in 1..n : /\ j \in DOMAIN points
                      /\ points[j] = [at |-> ended[j].admittedAt, delta |-> 1]
                      /\ points[j].at = ended[j].admittedAt /\ points[j].delta = 1
  BY <1>2
<1>5. \A k \in 1..n : /\ n + k \in DOMAIN points
                      /\ points[n + k].at = ended[k].releasedAt /\ points[n + k].delta = -1
  <2> SUFFICES ASSUME NEW k \in 1..n
               PROVE  /\ n + k \in DOMAIN points
                      /\ points[n + k].at = ended[k].releasedAt /\ points[n + k].delta = -1
    OBVIOUS
  <2>1. n + k \in 1..2 * n /\ ~(n + k <= n) /\ (n + k) - n = k
    BY <1>2
  <2> QED
    BY <2>1
<1>6. \A j \in DOMAIN points : j \in 1..n \/ \E k \in 1..n : j = n + k
  <2> SUFFICES ASSUME NEW j \in 1..2 * n, j \notin 1..n
               PROVE  \E k \in 1..n : j = n + k
    OBVIOUS
  <2>1. j - n \in 1..n /\ j = n + (j - n)
    BY <1>2
  <2> QED
    BY <2>1
<1>7. \A k \in 1..n : /\ ended[k].admittedAt \in Nat /\ ended[k].releasedAt \in Nat
                      /\ ended[k].admittedAt <= ended[k].releasedAt
  BY DEF Admissions
<1>8. \A j \in DOMAIN points : points[j].at \in Nat
  BY <1>4, <1>5, <1>6, <1>7
<1> HIDE DEF points, n
<1>9. IsFiniteSet(DOMAIN points)
  BY <1>2, <1>3, FS_Interval
<1>10. ASSUME NEW i \in DOMAIN points
       PROVE  /\ IsFiniteSet(plus(i)) /\ IsFiniteSet(minus(i))
              /\ Cardinality(plus(i)) \in Nat /\ Cardinality(minus(i)) \in Nat
  BY <1>9, FS_Subset, FS_CardinalityType
<1>11. ASSUME NEW i \in DOMAIN points, NEW j \in plus(i)
       PROVE  j \in 1..n /\ j \in upTo(i) /\ points[j].at = ended[j].admittedAt
  <2>1. j \in upTo(i) /\ points[j].delta = 1 /\ j \in DOMAIN points
    OBVIOUS
  <2>2. j \in 1..n
    <3>1. \A k \in 1..n : points[n + k].delta # 1
      BY <1>5
    <3> QED
      BY <1>6, <2>1, <3>1
  <2> QED
    BY <1>4, <2>1, <2>2
<1>12. ASSUME NEW t \in Nat,
              NEW i \in DOMAIN points,
              \A j \in plus(i) : ended[j].admittedAt <= t,
              \A k \in 1..n : ended[k].releasedAt <= t => n + k \in minus(i)
       PROVE  Cardinality(plus(i)) - Cardinality(minus(i)) <= limit
  <2> DEFINE A == {j \in 1..n : ended[j].admittedAt <= t}
             B == {j \in 1..n : ended[j].releasedAt <= t}
  <2>1. A \ B = Standing(ended, t)
    BY <1>7 DEF Standing, n
  <2>2. A \in SUBSET (1..n) /\ B \in SUBSET A
    BY <1>7
  <2>3. plus(i) \in SUBSET A
    BY <1>11, <1>12
  <2>4. \A k \in B : n + k \in minus(i)
    BY <1>12
  <2>5. Cardinality(A \ B) <= limit
    BY <2>1
  <2> HIDE DEF A, B, plus, minus
  <2> QED
    BY <1>2, <1>10, <2>2, <2>3, <2>4, <2>5, StandingCounts
<1>13. ASSUME NEW i \in DOMAIN points
       PROVE  Cardinality(plus(i)) - Cardinality(minus(i)) <= limit
  <2>1. CASE i \in 1..n
    <3> DEFINE t == ended[i].admittedAt
    <3>1. t \in Nat /\ points[i].at = t /\ points[i].delta = 1
      BY <1>4, <1>7, <2>1
    <3>2. \A j \in plus(i) : ended[j].admittedAt <= t
      BY <1>8, <1>11, <3>1 DEF Before
    <3>3. ASSUME NEW k \in 1..n, ended[k].releasedAt <= t
          PROVE  n + k \in minus(i)
      <4>1. Before(points[n + k], points[i])
        BY <1>5, <1>7, <3>1, <3>3 DEF Before
      <4> QED
        BY <1>5, <4>1
    <3> HIDE DEF t, plus, minus
    <3> QED
      BY <1>12, <3>1, <3>2, <3>3
  <2>2. CASE i \notin 1..n
    <3>1. PICK r \in 1..n : i = n + r
      BY <1>6, <2>2
    <3> DEFINE t == ended[r].releasedAt
    <3>2. t \in Nat /\ points[i].at = t /\ points[i].delta = -1
      BY <1>5, <1>7, <3>1
    <3>3. \A j \in plus(i) : ended[j].admittedAt < t
      <4> SUFFICES ASSUME NEW j \in plus(i) PROVE ended[j].admittedAt < t
        OBVIOUS
      <4>1. points[j].delta = 1 /\ points[j].at = ended[j].admittedAt
        BY <1>11
      <4>2. points[j] # points[i]
        BY <3>2, <4>1
      <4>3. Before(points[j], points[i])
        BY <4>2
      <4> QED
        BY <3>2, <4>1, <4>3 DEF Before
    <3>4. CASE t = 0
      <4>1. plus(i) = {}
        <5> SUFFICES ASSUME NEW j \in plus(i) PROVE FALSE
          OBVIOUS
        <5>1. ended[j].admittedAt < 0 /\ ended[j].admittedAt \in Nat
          BY <1>7, <1>11, <3>3, <3>4
        <5> QED
          BY <5>1
      <4>2. Cardinality(plus(i)) = 0
        BY <4>1, FS_EmptySet
      <4> HIDE DEF plus, minus
      <4> QED
        BY <1>10, <4>2
    <3>5. CASE t # 0
      <4>1. t - 1 \in Nat
        BY <3>2, <3>5
      <4>2. \A j \in plus(i) : ended[j].admittedAt <= t - 1
        <5> SUFFICES ASSUME NEW j \in plus(i) PROVE ended[j].admittedAt <= t - 1
          OBVIOUS
        <5>1. ended[j].admittedAt < t /\ ended[j].admittedAt \in Nat
          BY <1>7, <1>11, <3>3
        <5> QED
          BY <3>2, <5>1
      <4>3. ASSUME NEW k \in 1..n, ended[k].releasedAt <= t - 1
            PROVE  n + k \in minus(i)
        <5>1. Before(points[n + k], points[i])
          BY <1>5, <1>7, <3>2, <4>3 DEF Before
        <5> QED
          BY <1>5, <5>1
      <4> HIDE DEF t, plus, minus
      <4> QED
        BY <1>12, <4>1, <4>2, <4>3
    <3> QED
      BY <3>4, <3>5
  <2> QED
    BY <2>1, <2>2
<1>14. counts \in SUBSET Int /\ \A x \in counts : x <= limit
  <2> HIDE DEF plus, minus
  <2> QED
    BY <1>10, <1>13
<1> HIDE DEF counts
<1> QED
  BY <1>1, <1>14, LargestBound

-----------------------------------------------------------------------------
(* The reservations that are held and those that were made are finitely     *)
(* many.                                                                    *)
LEMMA HeldIsFinite ==
  ASSUME Records
  PROVE  /\ IsFiniteSet(DOMAIN held)
         /\ \A S \in SUBSET DOMAIN held : IsFiniteSet(S) /\ Cardinality(S) \in Nat
         /\ \A S \in SUBSET (1..Len(admissions)) : IsFiniteSet(S) /\ Cardinality(S) \in Nat
<1>1. IsFiniteSet(1..sequence) /\ IsFiniteSet(1..Len(admissions))
  <2>1. sequence \in Int /\ Len(admissions) \in Int /\ 1 \in Int
    BY DEF Records, Admissions
  <2> QED
    BY <2>1, FS_Interval
<1> QED
  BY <1>1, FS_Subset, FS_CardinalityType DEF Records

(* A weight is at least one, so that a total bounds how many weights it has.*)
LEMMA TotalCounts ==
  ASSUME NEW S, IsFiniteSet(S), NEW w \in [S -> Nat \ {0}]
  PROVE  Cardinality(S) <= Total(w)
<1> DEFINE Part(B) == [x \in B |-> w[x]]
           Q == {B \in SUBSET S : ~(Cardinality(B) <= Total(Part(B)))}
<1>1. w = Part(S)
  OBVIOUS
<1>2. SUFFICES ASSUME Q # {} PROVE FALSE
  BY <1>1, S \in SUBSET S
<1>3. PICK B \in Q : \A D \in Q : D \subseteq B => D = B
  <2>1. Q \in SUBSET SUBSET S
    OBVIOUS
  <2> HIDE DEF Q
  <2> QED
    BY <1>2, <2>1, Smallest
<1>4. B \in SUBSET S /\ ~(Cardinality(B) <= Total(Part(B)))
  OBVIOUS
<1>5. \A D \in SUBSET B : D # B => Cardinality(D) <= Total(Part(D))
  BY <1>3, <1>4
<1> HIDE DEF Q
<1>6. IsFiniteSet(B) /\ Part(B) \in [B -> Nat] /\ Total(Part(B)) \in Nat
  BY <1>4, FS_Subset, TotalType
<1>7. CASE B = {}
  BY <1>4, <1>6, <1>7, FS_EmptySet
<1>8. CASE B # {}
  <2>1. PICK x \in B : TRUE
    BY <1>8
  <2>2. /\ IsFiniteSet(B \ {x}) /\ Cardinality(B \ {x}) = Cardinality(B) - 1
        /\ Cardinality(B \ {x}) \in Nat /\ Cardinality(B) \in Nat
    BY <1>6, <2>1, FS_RemoveElement, FS_CardinalityType
  <2>3. Part(B \ {x}) \in [B \ {x} -> Nat]
    BY <1>4
  <2>4. Total(Part(B)) = w[x] + Total(Part(B \ {x}))
    <3>1. Total(Part(B)) = Part(B)[x] + Total(Part(B \ {x}))
      BY <1>6, <2>1, <2>3, TotalTake
    <3> QED
      BY <2>1, <3>1
  <2>5. Cardinality(B \ {x}) <= Total(Part(B \ {x}))
    BY <1>5, <2>1
  <2>6. Total(Part(B \ {x})) \in Nat /\ w[x] \in Nat \ {0}
    BY <1>4, <2>1, <2>2, <2>3, TotalType
  <2> HIDE DEF Part
  <2> QED
    BY <1>4, <2>2, <2>4, <2>5, <2>6
<1> QED
  BY <1>7, <1>8

(* What is held now is within the limit, counted by reservation.            *)
LEMMA HeldWithinLimit ==
  ASSUME Records, CountedRight
  PROVE  \A t \in Nat : Cardinality(Held(t)) <= MaxConcurrent
<1>1. Cardinality(DOMAIN held) <= Total(held)
  BY HeldIsFinite, TotalCounts DEF Records
<1> SUFFICES ASSUME NEW t \in Nat
             PROVE  Cardinality(Held(t)) <= MaxConcurrent
  OBVIOUS
<1>2. Held(t) \in SUBSET DOMAIN held
  BY DEF Held
<1>3. Cardinality(Held(t)) <= Cardinality(DOMAIN held)
  BY <1>2, HeldIsFinite, FS_Subset
<1>4. Cardinality(Held(t)) \in Nat /\ Cardinality(DOMAIN held) \in Nat
  BY <1>2, HeldIsFinite
<1> QED
  BY <1>1, <1>3, <1>4 DEF CountedRight, Records

NeverWasTooMany ==
  \A t \in Nat : t < clock => Cardinality(Released(t)) + Cardinality(Held(t)) <= MaxConcurrent

(* From now on nothing that is released stands.                             *)
LEMMA NothingReleasedLater ==
  Records /\ CountedRight /\ NeverWasTooMany => NeverTooMany
<1> SUFFICES ASSUME Records, CountedRight, NeverWasTooMany, NEW t \in Nat, ~(t < clock)
             PROVE  Cardinality(Released(t)) + Cardinality(Held(t)) <= MaxConcurrent
  BY DEF NeverTooMany, NeverWasTooMany
<1>1. Released(t) = {}
  <2>1. SUFFICES ASSUME NEW i \in 1..Len(admissions), t < admissions[i].releasedAt
                 PROVE  FALSE
    BY DEF Released, Standing
  <2>2. admissions[i].releasedAt \in Nat /\ admissions[i].releasedAt <= clock /\ clock \in Nat
    BY DEF Records, Admissions
  <2> QED
    BY <2>1, <2>2
<1>2. Cardinality(Held(t)) \in Nat /\ Cardinality(Released(t)) = 0
  BY <1>1, FS_EmptySet, HeldIsFinite DEF Held
<1>3. Cardinality(Held(t)) <= MaxConcurrent
  BY HeldWithinLimit
<1> QED
  BY <1>2, <1>3

-----------------------------------------------------------------------------
(* A reservation (admission.ts reserve) is granted below the limit and is   *)
(* held from now on.                                                        *)
LEMMA ReserveKeeps ==
  ASSUME IInv, NEW weight \in Weights, Reserve(weight)
  PROVE  IInv'
<1> DEFINE id == sequence + 1
<1>1. /\ active + weight <= MaxConcurrent /\ weight \in Nat \ {0}
      /\ sequence' = id
      /\ held' = [r \in DOMAIN held \cup {id} |-> IF r = id THEN weight ELSE held[r]]
      /\ active' = active + weight
      /\ admittedAt' = Append(admittedAt, clock)
      /\ UNCHANGED <<clock, admissions>>
  BY DEF Reserve
<1>2. id \notin DOMAIN held /\ id \in Nat \ {0}
  BY DEF IInv, Records
<1>3. /\ DOMAIN held' = DOMAIN held \cup {id}
      /\ held'[id] = weight
      /\ \A r \in DOMAIN held : held'[r] = held[r]
      /\ held' \in [DOMAIN held \cup {id} -> Nat \ {0}]
  BY <1>1, <1>2 DEF IInv, Records
<1>4. /\ admittedAt' \in Seq(Nat) /\ Len(admittedAt') = id
      /\ \A r \in 1..sequence : admittedAt'[r] = admittedAt[r]
      /\ admittedAt'[id] = clock
  BY <1>1 DEF IInv, Records
<1>5. Records'
  <2>1. \A r \in 1..id : r \in 1..sequence \/ r = id
    BY DEF IInv, Records
  <2>2. \A r \in 1..id : admittedAt'[r] <= clock
    <3>1. \A r \in 1..sequence : admittedAt'[r] <= clock
      BY <1>4 DEF IInv, Records
    <3>2. admittedAt'[id] <= clock
      BY <1>4 DEF IInv, Records
    <3> HIDE DEF id
    <3> QED
      BY <2>1, <3>1, <3>2
  <2>3. DOMAIN held \cup {id} \subseteq 1..id
    BY DEF IInv, Records
  <2> QED
    BY SMTT(30), <1>1, <1>2, <1>3, <1>4, <2>2, <2>3 DEF IInv, Records
<1>6. CountedRight'
  <2>1. IsFiniteSet(DOMAIN held \cup {id})
    BY HeldIsFinite, FS_AddElement DEF IInv
  <2>2. (DOMAIN held \cup {id}) \ {id} = DOMAIN held
    BY <1>2
  <2>3. held \in [DOMAIN held -> Nat]
    BY DEF IInv, Records
  <2>4. Total(held') = weight + Total(held)
    <3>1. held' \in [DOMAIN held \cup {id} -> Nat]
      BY <1>3
    <3>2. Total(held') = held'[id] + Total(held)
      BY <1>3, <2>1, <2>2, <2>3, <3>1, TotalTake
    <3> QED
      BY <1>3, <3>2
  <2> QED
    BY <1>1, <2>4 DEF IInv, Records, CountedRight
<1>7. ASSUME NEW t \in Nat, t < clock
      PROVE  Cardinality(Released(t)') + Cardinality(Held(t)') <= MaxConcurrent
  <2>1. Released(t)' = Released(t)
    BY <1>1 DEF Released, Standing
  <2>2. Held(t)' = Held(t)
    BY SMTT(30), <1>3, <1>4, <1>7 DEF Held, IInv, Records
  <2> QED
    BY <2>1, <2>2 DEF IInv, NeverTooMany
<1>8. NeverWasTooMany'
  BY <1>1, <1>7 DEF NeverWasTooMany
<1>9. NeverTooMany'
  BY <1>5, <1>6, <1>8, NothingReleasedLater, PTL
<1> QED
  BY <1>5, <1>6, <1>9 DEF IInv

(* A release gives up what is held and ends its admission now; what stood   *)
(* at any earlier time stands.                                              *)
LEMMA ReleaseKeeps ==
  ASSUME IInv, NEW id, Release(id)
  PROVE  IInv'
<1> DEFINE n == Len(admissions)
           ended == [admittedAt |-> admittedAt[id], releasedAt |-> clock]
<1>1. /\ id \in DOMAIN held
      /\ active' = active - held[id]
      /\ held' = [r \in DOMAIN held \ {id} |-> held[r]]
      /\ admissions' = Append(admissions, ended)
      /\ UNCHANGED <<sequence, clock, admittedAt>>
  BY DEF Release
<1>2. /\ held[id] \in Nat /\ n \in Nat
      /\ admittedAt[id] \in Nat /\ admittedAt[id] <= clock
      /\ ended \in [admittedAt : Nat, releasedAt : Nat]
  <2>1. id \in 1..sequence /\ clock \in Nat
    BY <1>1 DEF IInv, Records
  <2>2. held[id] \in Nat /\ n \in Nat
    BY <1>1 DEF IInv, Records, Admissions
  <2>3. admittedAt[id] \in Nat /\ admittedAt[id] <= clock
    BY <2>1 DEF IInv, Records
  <2> QED
    BY <2>1, <2>2, <2>3
<1>3. /\ Len(admissions') = n + 1
      /\ \A i \in 1..n : admissions'[i] = admissions[i]
      /\ admissions'[n + 1] = ended
      /\ admissions' \in Seq([admittedAt : Nat, releasedAt : Nat])
  BY <1>1, <1>2 DEF IInv, Records, Admissions
<1>4. Total(held) = held[id] + Total(held') /\ Total(held') \in Nat
  <2>1. held \in [DOMAIN held -> Nat] /\ held' \in [DOMAIN held \ {id} -> Nat]
    BY <1>1 DEF IInv, Records
  <2>2. IsFiniteSet(DOMAIN held) /\ IsFiniteSet(DOMAIN held \ {id})
    BY HeldIsFinite, FS_RemoveElement DEF IInv
  <2>3. \A y \in DOMAIN held \ {id} : held'[y] = held[y]
    BY <1>1
  <2>4. Total(held) = held[id] + Total(held')
    <3>1. id \in DOMAIN held
      BY <1>1
    <3> QED
      BY ONLY <2>1, <2>2, <2>3, <3>1, TotalTake
  <2>5. Total(held') \in Nat
    BY <2>1, <2>2, TotalType
  <2> QED
    BY <2>4, <2>5
<1>5. active' = Total(held') /\ active' \in Nat /\ active' <= MaxConcurrent
  BY SMTT(30), <1>1, <1>2, <1>4 DEF IInv, CountedRight, Records
<1>6. Records'
  <2>1. \A i \in 1..(n + 1) : i \in 1..n \/ i = n + 1
    BY <1>2
  <2>2. Admissions(admissions, clock)'
    <3>1. ASSUME NEW i \in 1..(n + 1)
          PROVE  /\ admissions'[i].admittedAt \in Nat /\ admissions'[i].releasedAt \in Nat
                 /\ admissions'[i].admittedAt <= admissions'[i].releasedAt
                 /\ admissions'[i].releasedAt <= clock
      <4>1. CASE i \in 1..n
        BY <1>3, <4>1 DEF IInv, Records, Admissions
      <4>2. CASE i = n + 1
        BY SMTT(30), <1>2, <1>3, <4>2 DEF IInv, Records
      <4> QED
        BY <2>1, <4>1, <4>2
    <3> QED
      BY <1>1, <1>3, <3>1 DEF Admissions
  <2>3. DOMAIN held' \subseteq 1..sequence /\ held' \in [DOMAIN held' -> Nat \ {0}]
    BY <1>1 DEF IInv, Records
  <2> QED
    BY <1>1, <1>3, <1>5, <2>2, <2>3 DEF IInv, Records
<1>7. CountedRight'
  BY <1>5 DEF CountedRight
<1>8. ASSUME NEW t \in Nat, t < clock
      PROVE  Cardinality(Released(t)') + Cardinality(Held(t)') <= MaxConcurrent
  <2>1. \A i \in 1..(n + 1) : i \in 1..n \/ i = n + 1
    BY <1>2
  <2>2. CASE admittedAt[id] <= t
    <3>1. Released(t)' = Released(t) \cup {n + 1}
      <4>1. \A i \in 1..n : i \in Released(t)' <=> i \in Released(t)
        BY SMTT(30), <1>2, <1>3 DEF Released, Standing
      <4>2. n + 1 \in Released(t)'
        BY <1>2, <1>3, <1>8, <2>2 DEF Released, Standing
      <4>3. Released(t)' \subseteq 1..(n + 1) /\ Released(t) \subseteq 1..n
        BY <1>3 DEF Released, Standing
      <4> QED
        BY <2>1, <4>1, <4>2, <4>3
    <3>2. n + 1 \notin Released(t)
      BY <1>2 DEF Released, Standing
    <3>3. Held(t)' = Held(t) \ {id} /\ id \in Held(t)
      BY <1>1, <2>2 DEF Held
    <3>4. /\ IsFiniteSet(Released(t)) /\ Cardinality(Released(t)) \in Nat
          /\ IsFiniteSet(Held(t)) /\ Cardinality(Held(t)) \in Nat
      BY HeldIsFinite DEF IInv, Released, Standing, Held
    <3>5. Cardinality(Released(t)') = Cardinality(Released(t)) + 1
      BY <3>1, <3>2, <3>4, FS_AddElement
    <3>6. Cardinality(Held(t)') = Cardinality(Held(t)) - 1
      BY ZenonT(40), <3>3, <3>4, FS_RemoveElement
    <3> QED
      BY <3>4, <3>5, <3>6 DEF IInv, NeverTooMany
  <2>3. CASE ~(admittedAt[id] <= t)
    <3>1. Released(t)' = Released(t)
      <4>1. \A i \in 1..n : i \in Released(t)' <=> i \in Released(t)
        BY SMTT(30), <1>2, <1>3 DEF Released, Standing
      <4>2. n + 1 \notin Released(t)'
        BY <1>2, <1>3, <2>3 DEF Released, Standing
      <4>3. Released(t)' \subseteq 1..(n + 1) /\ Released(t) \subseteq 1..n
        BY <1>3 DEF Released, Standing
      <4> QED
        BY <2>1, <4>1, <4>2, <4>3
    <3>2. Held(t)' = Held(t)
      BY <1>1, <2>3 DEF Held
    <3> QED
      BY <3>1, <3>2 DEF IInv, NeverTooMany
  <2> QED
    BY <2>2, <2>3
<1>9. NeverWasTooMany'
  BY <1>1, <1>8 DEF NeverWasTooMany
<1>10. NeverTooMany'
  BY <1>6, <1>7, <1>9, NothingReleasedLater, PTL
<1> QED
  BY <1>6, <1>7, <1>10 DEF IInv

(* Time passes: what is held stands at the next instant as well.            *)
LEMMA TickKeeps ==
  ASSUME IInv, AdmissionTick
  PROVE  IInv'
<1>1. /\ clock' = clock + 1
      /\ UNCHANGED <<active, held, sequence, admittedAt, admissions>>
  BY DEF AdmissionTick
<1>2. CountedRight'
  BY <1>1 DEF IInv, CountedRight
<1>3. \A t \in Nat : Released(t)' = Released(t) /\ Held(t)' = Held(t)
  BY <1>1 DEF Released, Standing, Held
<1>4. NeverTooMany'
  BY <1>3 DEF IInv, NeverTooMany
<1>5. Records'
  <2>1. \A r \in 1..sequence : admittedAt[r] \in Nat
    BY DEF IInv, Records
  <2>2. \A r \in 1..sequence : admittedAt[r] <= clock + 1
    BY <2>1 DEF IInv, Records
  <2>3. Admissions(admissions, clock + 1)
    BY SMTT(30) DEF IInv, Records, Admissions
  <2> QED
    BY <1>1, <2>2, <2>3 DEF IInv, Records
<1> QED
  BY <1>2, <1>4, <1>5 DEF IInv

(* What is held is what is counted, and the clock was never left with more  *)
(* admissions standing than the limit.                                     *)
LEMMA Invariant == AdmissionSpec => []IInv
<1>1. AdmissionInit => IInv
  <2> SUFFICES ASSUME AdmissionInit PROVE IInv
    OBVIOUS
  <2> USE DEF AdmissionInit
  <2>1. Records
    BY DEF Records, Admissions
  <2>2. CountedRight
    <3>1. held \in [{} -> Nat] /\ DOMAIN held = {}
      OBVIOUS
    <3>2. Total(held) = 0
      BY <3>1, TotalEmpty
    <3> QED
      BY <3>2 DEF CountedRight
  <2>3. NeverTooMany
    <3>1. \A t \in Nat : Released(t) = {} /\ Held(t) = {}
      BY DEF Released, Standing, Held
    <3> QED
      BY ONLY <3>1, FS_EmptySet, AdmissionAssumption DEF AdmissionAssumption, NeverTooMany
  <2> QED
    BY <2>1, <2>2, <2>3 DEF IInv
<1>2. IInv /\ [AdmissionNext]_admissionVars => IInv'
  <2> SUFFICES ASSUME IInv, [AdmissionNext]_admissionVars PROVE IInv'
    OBVIOUS
  <2>1. CASE UNCHANGED admissionVars
    <3>1. \A t \in Nat : Released(t)' = Released(t) /\ Held(t)' = Held(t)
      BY <2>1 DEF admissionVars, Released, Standing, Held
    <3> QED
      BY <2>1, <3>1 DEF admissionVars, IInv, Records, CountedRight, NeverTooMany
  <2> QED
    BY <2>1, ReserveKeeps, ReleaseKeeps, TickKeeps DEF AdmissionNext
<1> QED
  BY <1>1, <1>2, PTL DEF AdmissionSpec

(* Whatever is reserved and released in whatever order, the count is what   *)
(* is held, within the limit, and the parallelism the metrics report never  *)
(* exceeds the limit (createChildAdmission, observedParallelism).           *)
THEOREM AdmissionIsWithinLimit == AdmissionSpec => []AdmissionHolds
<1>1. IInv => AdmissionHolds
  <2> SUFFICES ASSUME IInv PROVE AdmissionHolds
    OBVIOUS
  <2>1. \A t \in Nat : Cardinality(Standing(admissions, t)) <= MaxConcurrent
    <3> SUFFICES ASSUME NEW t \in Nat
                 PROVE  Cardinality(Standing(admissions, t)) <= MaxConcurrent
      OBVIOUS
    <3>1. Cardinality(Released(t)) \in Nat /\ Cardinality(Held(t)) \in Nat
      BY HeldIsFinite DEF IInv, Released, Standing, Held
    <3>2. Cardinality(Released(t)) + Cardinality(Held(t)) <= MaxConcurrent
      BY DEF IInv, NeverTooMany
    <3> QED
      BY <3>1, <3>2 DEF Released
  <2>2. peak(admissions) <= MaxConcurrent
    BY <2>1, PeakIsWithinLimit DEF IInv, Records
  <2> QED
    BY <2>2 DEF IInv, CountedRight, AdmissionHolds
<1> QED
  BY <1>1, Invariant, PTL

-----------------------------------------------------------------------------
(* The graph of a compiled Strategy.                                        *)

(* What the compiler makes of a Strategy, apart from how much it runs at    *)
(* once: stages and artifacts are uniquely named, every input is produced   *)
(* by one stage or is the objective, and no stages wait for one another.    *)
StageIsSound(pl, p) ==
  /\ ValidPrimitive(p)
  /\ p.kind = "dsh-delegate" => p.mode = "foreground"
  /\ p.stage # None /\ p.output.producer = p.stage
  /\ p.output.artifact # "objective" /\ p.output.contract # "objective-v1"
  /\ p.output.artifact \in DOMAIN pl.artifacts /\ pl.artifacts[p.output.artifact] = p.output
  /\ IsFiniteSet(p.inputs) /\ p.inputs \subseteq DOMAIN pl.artifacts
  /\ p.after \subseteq {q.stage : q \in pl.primitives} \ {p.stage}

ArtifactIsSound(pl, name) ==
  \/ name = "objective" /\ pl.artifacts[name] = ObjectiveArtifact
  \/ \E q \in pl.primitives : q.output = pl.artifacts[name] /\ q.output.artifact = name

CompiledStages(pl) ==
  /\ IsFiniteSet(pl.primitives) /\ pl.primitives # {}
  /\ \A p, q \in pl.primitives : p.stage = q.stage \/ p.output.artifact = q.output.artifact => p = q
  /\ \A p \in pl.primitives : StageIsSound(pl, p)
  /\ \A name \in DOMAIN pl.artifacts : ArtifactIsSound(pl, name)
  /\ \E name \in DOMAIN pl.artifacts :
       /\ name = pl.completion.artifact
       /\ pl.artifacts[name].contract = pl.completion.contract /\ ~pl.artifacts[name].collection
  /\ pl.memberFailure \in {"fail", "allow-partial"}

LimitsAreWithin(limits) ==
  /\ limits \in [DOMAIN LimitMaximums -> Nat]
  /\ \A f \in DOMAIN LimitMaximums : limits[f] \in 1..LimitMaximums[f]

(* Each task of the graph is one stage.                                     *)
LEMMA NodesOfStages ==
  ASSUME NEW pl, CompiledStages(pl)
  PROVE  /\ DOMAIN StaticNodes(pl) = {p.stage : p \in pl.primitives}
         /\ IsFiniteSet(DOMAIN StaticNodes(pl))
         /\ \A p \in pl.primitives : StaticNodes(pl)[p.stage] = TaskOfStage(pl, p)
<1>1. DOMAIN StaticNodes(pl) = {p.stage : p \in pl.primitives}
  BY DEF StaticNodes
<1>2. IsFiniteSet({p.stage : p \in pl.primitives})
  <2> DEFINE f == [p \in pl.primitives |-> p.stage]
  <2>1. IsFiniteSet({f[p] : p \in pl.primitives})
    <3> HIDE DEF f
    <3> QED
      BY FiniteImage DEF CompiledStages
  <2>2. {f[p] : p \in pl.primitives} = {p.stage : p \in pl.primitives}
    OBVIOUS
  <2> QED
    BY <2>1, <2>2
<1>3. ASSUME NEW p \in pl.primitives
      PROVE  StaticNodes(pl)[p.stage] = TaskOfStage(pl, p)
  <2> DEFINE q == CHOOSE q \in pl.primitives : q.stage = p.stage
  <2>1. q \in pl.primitives /\ q.stage = p.stage
    OBVIOUS
  <2>2. q = p
    <3> HIDE DEF q
    <3> QED
      BY <2>1 DEF CompiledStages
  <2>3. StaticNodes(pl)[p.stage] = TaskOfStage(pl, q)
    <3>1. p.stage \in {r.stage : r \in pl.primitives}
      OBVIOUS
    <3> HIDE DEF TaskOfStage
    <3> QED
      BY <3>1 DEF StaticNodes
  <2> QED
    BY <2>2, <2>3
<1> QED
  BY <1>1, <1>2, <1>3

(* The inputs of a task are the artifacts it names.                         *)
InputOf(pl, name) ==
  [artifact |-> name, contract |-> pl.artifacts[name].contract,
   collection |-> pl.artifacts[name].collection,
   required |-> pl.artifacts[name].availability = "required"]

(* They are all its inputs,                                                 *)
LEMMA InputsOfTask ==
  ASSUME NEW pl, NEW p
  PROVE  TaskOfStage(pl, p).inputs = {InputOf(pl, name) : name \in p.inputs}
  BY DEF TaskOfStage, InputOf

(* and as many as the names.                                                *)
LEMMA SameNumberOfInputs ==
  ASSUME NEW pl, NEW S, IsFiniteSet(S)
  PROVE  Cardinality({InputOf(pl, name) : name \in S}) = Cardinality(S)
<1> DEFINE f == [name \in S |-> InputOf(pl, name)]
           T == {InputOf(pl, name) : name \in S}
<1>1. f \in [S -> T] /\ \A t \in T : \E s \in S : f[s] = t
  OBVIOUS
<1>2. \A x, y \in S : f[x] = f[y] => x = y
  BY DEF InputOf
<1> HIDE DEF f, T
<1>3. f \in Injection(S, T) /\ f \in Surjection(S, T)
  BY <1>1, <1>2 DEF Injection, Surjection, IsInjective
<1>4. Cardinality(S) = Cardinality(T)
  BY <1>3, FS_Surjection
<1> QED
  BY <1>4 DEF T

(* What makes a task valid.                                                 *)
LEMMA TaskBodyIsValid ==
  ASSUME NEW t,
         ValidPrimitive(t.primitive),
         t.primitive.kind = "dsh-delegate" => t.primitive.mode = "foreground",
         \A i \in t.inputs : i.artifact = "objective" => i = Objective,
         t.output.artifact # "objective", t.output.contract # "objective-v1",
         t.effectClass \in {"read", "idempotent-write", "non-idempotent-write"},
         t.memberFailure \in {"fail", "allow-partial"},
         t.member = t.primitive.member, t.profile = t.primitive.specialist,
         t.output = [artifact |-> t.primitive.output.artifact,
                     contract |-> t.primitive.output.contract,
                     collection |-> t.primitive.output.collection],
         {i.artifact : i \in t.inputs} = t.primitive.inputs,
         Cardinality(t.inputs) = Cardinality(t.primitive.inputs),
         t.agentCount = t.primitive.count
  PROVE  ValidTaskBody(t)
  BY Zenon DEF ValidTaskBody

(* The task of a sound stage is valid.                                      *)
LEMMA BodiesAreValid ==
  ASSUME NEW pl, CompiledStages(pl), NEW p \in pl.primitives
  PROVE  ValidTaskBody(TaskOfStage(pl, p))
<1> DEFINE t == TaskOfStage(pl, p)
<1>1. StageIsSound(pl, p)
  BY DEF CompiledStages
<1>2. /\ t.primitive = p /\ t.member = p.member /\ t.profile = p.specialist /\ t.agentCount = p.count
      /\ t.output = [artifact |-> p.output.artifact, contract |-> p.output.contract,
                     collection |-> p.output.collection]
      /\ t.effectClass = "read" /\ t.memberFailure = pl.memberFailure
  BY DEF TaskOfStage
<1>3. t.inputs = {InputOf(pl, name) : name \in p.inputs}
  BY InputsOfTask
<1> HIDE DEF t
<1>4. ASSUME NEW i \in t.inputs, i.artifact = "objective" PROVE i = Objective
  <2>1. PICK name \in p.inputs : i = InputOf(pl, name)
    BY <1>3
  <2>2. name = "objective" /\ name \in DOMAIN pl.artifacts
    BY <1>1, <1>4, <2>1 DEF InputOf, StageIsSound
  <2>3. pl.artifacts[name] = ObjectiveArtifact
    <3>1. \A q \in pl.primitives : q.output.artifact # "objective"
      BY DEF CompiledStages, StageIsSound
    <3>2. ArtifactIsSound(pl, name)
      BY <2>2 DEF CompiledStages
    <3> QED
      BY <2>2, <3>1, <3>2 DEF ArtifactIsSound
  <2>4. /\ pl.artifacts[name].contract = "objective-v1" /\ pl.artifacts[name].collection = FALSE
        /\ pl.artifacts[name].availability = "required"
    BY <2>3 DEF ObjectiveArtifact
  <2>5. (pl.artifacts[name].availability = "required") = TRUE
    BY <2>4
  <2> QED
    BY Zenon, <2>1, <2>2, <2>4, <2>5 DEF InputOf, Objective
<1>5. {i.artifact : i \in t.inputs} = p.inputs
  <2>1. \A name \in p.inputs : InputOf(pl, name).artifact = name
    BY DEF InputOf
  <2> QED
    BY <1>3, <2>1
<1>6. Cardinality(t.inputs) = Cardinality(p.inputs)
  BY <1>1, <1>3, SameNumberOfInputs DEF StageIsSound
<1>7. pl.memberFailure \in {"fail", "allow-partial"}
  BY DEF CompiledStages
<1>8. t.output.artifact # "objective" /\ t.output.contract # "objective-v1"
  BY <1>1, <1>2 DEF StageIsSound
<1>9. ValidPrimitive(p) /\ (p.kind = "dsh-delegate" => p.mode = "foreground")
  BY <1>1 DEF StageIsSound
<1>10. /\ ValidPrimitive(t.primitive)
       /\ t.primitive.kind = "dsh-delegate" => t.primitive.mode = "foreground"
       /\ t.member = t.primitive.member /\ t.profile = t.primitive.specialist
       /\ t.output = [artifact |-> t.primitive.output.artifact,
                      contract |-> t.primitive.output.contract,
                      collection |-> t.primitive.output.collection]
       /\ {i.artifact : i \in t.inputs} = t.primitive.inputs
       /\ Cardinality(t.inputs) = Cardinality(t.primitive.inputs)
       /\ t.agentCount = t.primitive.count
  BY Zenon, <1>2, <1>5, <1>6, <1>9
<1>11. /\ t.effectClass \in {"read", "idempotent-write", "non-idempotent-write"}
       /\ t.memberFailure \in {"fail", "allow-partial"}
  BY <1>2, <1>7
<1>12. \A i \in t.inputs : i.artifact = "objective" => i = Objective
  BY <1>4
<1>13. ValidTaskBody(t)
  BY <1>8, <1>10, <1>11, <1>12, TaskBodyIsValid
<1> QED
  BY <1>13 DEF t

(* An edge of the plan leads from the stage that makes an input, or from    *)
(* one that is to come first.                                               *)
LEMMA EdgesOfStages ==
  ASSUME NEW pl, CompiledStages(pl), NEW e \in StaticEdges(pl)
  PROVE  \E p \in pl.primitives :
           /\ e.to = p.stage /\ e.from \in {q.stage : q \in pl.primitives}
           /\ \/ e.from \in p.after /\ e = Edge(e.from, p.stage, "after", None)
              \/ \E name \in p.inputs : \E q \in pl.primitives :
                   /\ q.output = pl.artifacts[name] /\ q.output.artifact = name
                   /\ e.from = q.stage /\ e = Edge(q.stage, p.stage, "artifact", name)
<1>1. PICK p \in pl.primitives :
        \/ e \in {Edge(from, p.stage, "after", None) : from \in p.after}
        \/ e \in {Edge(pl.artifacts[name].producer, p.stage, "artifact", name) :
                    name \in {n \in p.inputs : pl.artifacts[n].producer # None}}
  BY DEF StaticEdges
<1>2. StageIsSound(pl, p)
  BY DEF CompiledStages
<1>3. CASE e \in {Edge(from, p.stage, "after", None) : from \in p.after}
  <2>1. PICK from \in p.after : e = Edge(from, p.stage, "after", None)
    BY <1>3
  <2>2. e.from = from /\ e.to = p.stage
    BY <2>1 DEF Edge
  <2>3. from \in {q.stage : q \in pl.primitives}
    BY <1>2 DEF StageIsSound
  <2> QED
    BY <2>1, <2>2, <2>3
<1>4. CASE e \in {Edge(pl.artifacts[name].producer, p.stage, "artifact", name) :
                    name \in {n \in p.inputs : pl.artifacts[n].producer # None}}
  <2>1. PICK name \in p.inputs : /\ pl.artifacts[name].producer # None
                                 /\ e = Edge(pl.artifacts[name].producer, p.stage, "artifact", name)
    BY <1>4
  <2>2. ArtifactIsSound(pl, name)
    BY <1>2 DEF CompiledStages, StageIsSound
  <2>3. PICK q \in pl.primitives : q.output = pl.artifacts[name] /\ q.output.artifact = name
    BY <2>1, <2>2 DEF ArtifactIsSound, ObjectiveArtifact
  <2>4. q.output.producer = q.stage
    BY DEF CompiledStages, StageIsSound
  <2>5. e = Edge(q.stage, p.stage, "artifact", name)
    BY <2>1, <2>3, <2>4
  <2>6. e.from = q.stage /\ e.to = p.stage
    BY <2>5 DEF Edge
  <2> QED
    BY <2>3, <2>5, <2>6
<1> QED
  BY <1>1, <1>3, <1>4

(* And every input of a stage, but the objective, comes over one.           *)
LEMMA InputsHaveEdges ==
  ASSUME NEW pl, CompiledStages(pl), NEW p \in pl.primitives, NEW name \in p.inputs,
         NEW q \in pl.primitives, q.output.artifact = name
  PROVE  Edge(q.stage, p.stage, "artifact", name) \in StaticEdges(pl)
<1>1. q.output.producer = q.stage /\ q.stage # None /\ pl.artifacts[name] = q.output
  BY DEF CompiledStages, StageIsSound
<1>2. name \in {n \in p.inputs : pl.artifacts[n].producer # None}
  BY <1>1
<1>3. Edge(q.stage, p.stage, "artifact", name) \in
        {Edge(pl.artifacts[n].producer, p.stage, "artifact", n) :
           n \in {n \in p.inputs : pl.artifacts[n].producer # None}}
  BY <1>1, <1>2
<1> QED
  BY <1>3 DEF StaticEdges

(* An input of a task is the objective or one that a stage makes.           *)
LEMMA InputsAreMade ==
  ASSUME NEW pl, CompiledStages(pl), NEW p \in pl.primitives,
         NEW i \in TaskOfStage(pl, p).inputs
  PROVE  /\ i.artifact \in p.inputs /\ i = InputOf(pl, i.artifact)
         /\ i # Objective =>
              \E q \in pl.primitives : /\ q.output = pl.artifacts[i.artifact]
                                       /\ q.output.artifact = i.artifact
<1>1. PICK name \in p.inputs : i = InputOf(pl, name)
  BY InputsOfTask
<1>2. i.artifact = name
  BY <1>1 DEF InputOf
<1>3. ArtifactIsSound(pl, name)
  BY DEF CompiledStages, StageIsSound
<1>4. ASSUME i # Objective, name = "objective", pl.artifacts[name] = ObjectiveArtifact
      PROVE  FALSE
  <2>1. /\ pl.artifacts[name].contract = "objective-v1" /\ pl.artifacts[name].collection = FALSE
        /\ pl.artifacts[name].availability = "required"
    BY <1>4 DEF ObjectiveArtifact
  <2>2. (pl.artifacts[name].availability = "required") = TRUE
    BY <2>1
  <2> QED
    BY Zenon, <1>1, <1>4, <2>1, <2>2 DEF InputOf, Objective
<1> QED
  BY <1>1, <1>2, <1>3, <1>4 DEF ArtifactIsSound

(* No stages wait for one another and some can start.                       *)
LEMMA SomeStageCanStart ==
  ASSUME NEW pl, CompiledStages(pl),
         validateAcyclic({p.stage : p \in pl.primitives}, StaticEdges(pl))
  PROVE  LET graph == compileStaticPlanGraph(pl)
         IN  deriveReadyFrontier(graph,
               [t \in DOMAIN graph.nodes |-> [status |-> "pending", attempts |-> 0]],
               [n \in DOMAIN pl.artifacts |-> Missing]) # {}
<1> DEFINE graph == compileStaticPlanGraph(pl)
           new == [t \in DOMAIN graph.nodes |-> [status |-> "pending", attempts |-> 0]]
           none == [n \in DOMAIN pl.artifacts |-> Missing]
           stages == {p.stage : p \in pl.primitives}
<1>1. graph.nodes = StaticNodes(pl) /\ graph.edges = StaticEdges(pl)
  BY DEF compileStaticPlanGraph
<1>2. DOMAIN graph.nodes = stages /\ IsFiniteSet(stages) /\ stages # {}
  <2>1. DOMAIN graph.nodes = stages /\ IsFiniteSet(stages)
    BY <1>1, NodesOfStages
  <2>2. stages # {}
    BY DEF CompiledStages
  <2> QED
    BY <2>1, <2>2
<1>3. PICK t \in stages : \A e \in StaticEdges(pl) : e.to = t => e.from \notin stages
  <2>1. validateAcyclic(stages, StaticEdges(pl))
    OBVIOUS
  <2> HIDE DEF stages
  <2> QED
    BY <1>2, <2>1, NoTasksWaitForOneAnother
<1>4. Incoming(graph, t) = {}
  <2>1. \A e \in StaticEdges(pl) : e.from \in stages
    BY EdgesOfStages
  <2> HIDE DEF stages, graph
  <2> QED
    BY <1>1, <1>3, <2>1 DEF Incoming
<1>5. PICK p \in pl.primitives : p.stage = t
  OBVIOUS
<1>6. graph.nodes[t].inputs = TaskOfStage(pl, p).inputs
  BY <1>1, <1>5, NodesOfStages
<1>7. \A i \in graph.nodes[t].inputs \ {Objective} : FALSE
  <2> SUFFICES ASSUME NEW i \in TaskOfStage(pl, p).inputs, i # Objective PROVE FALSE
    BY <1>6
  <2>1. PICK q \in pl.primitives : q.output.artifact = i.artifact
    BY InputsAreMade
  <2>2. Edge(q.stage, p.stage, "artifact", i.artifact) \in StaticEdges(pl)
    BY <2>1, InputsAreMade, InputsHaveEdges
  <2>3. Edge(q.stage, p.stage, "artifact", i.artifact).to = t
    BY <1>5 DEF Edge
  <2> HIDE DEF graph
  <2> QED
    BY <1>1, <1>4, <2>2, <2>3 DEF Incoming
<1>8. new[t].status = "pending" /\ ~(new[t].attempts >= 1)
  BY <1>2
<1>9. deriveTaskReadiness(graph, t, new, none) = "ready"
  <2> HIDE DEF graph, new, none
  <2>1. ~Blocked(graph, t, new, none)
    BY <1>4, <1>7, <1>8 DEF Blocked
  <2>2. ~Waiting(graph, t, new, none)
    BY <1>4, <1>7 DEF Waiting
  <2> QED
    BY <2>1, <2>2 DEF deriveTaskReadiness
<1>10. t \in deriveReadyFrontier(graph, new, none)
  <2>1. t \in DOMAIN graph.nodes
    BY <1>2
  <2> HIDE DEF graph, new, none
  <2> QED
    BY <1>9, <2>1 DEF deriveReadyFrontier
<1> QED
  BY <1>10

(* A task of the graph has a stage.                                         *)
LEMMA NodeOf ==
  ASSUME NEW pl, CompiledStages(pl), NEW t \in DOMAIN StaticNodes(pl)
  PROVE  \E p \in pl.primitives : t = p.stage /\ StaticNodes(pl)[t] = TaskOfStage(pl, p)
<1>1. t \in {p.stage : p \in pl.primitives}
  BY NodesOfStages
<1>2. PICK p \in pl.primitives : t = p.stage
  BY <1>1
<1>3. StaticNodes(pl)[p.stage] = TaskOfStage(pl, p)
  BY NodesOfStages
<1> QED
  BY <1>2, <1>3

(* What a task says is what its stage says,                                 *)
LEMMA NodeFields ==
  ASSUME NEW pl, CompiledStages(pl), NEW p \in pl.primitives
  PROVE  /\ TaskOfStage(pl, p).primitive = p /\ TaskOfStage(pl, p).agentCount = p.count
         /\ TaskOfStage(pl, p).output.artifact = p.output.artifact
         /\ TaskOfStage(pl, p).output.contract = p.output.contract
         /\ TaskOfStage(pl, p).output.collection = p.output.collection
  BY DEF TaskOfStage

(* and an input says what its artifact says.                                *)
LEMMA InputFields ==
  ASSUME NEW pl, NEW name
  PROVE  /\ InputOf(pl, name).artifact = name
         /\ InputOf(pl, name).contract = pl.artifacts[name].contract
         /\ InputOf(pl, name).collection = pl.artifacts[name].collection
         /\ InputOf(pl, name).required = (pl.artifacts[name].availability = "required")
  BY Zenon DEF InputOf

(* An artifact is produced by its stage alone.                              *)
LEMMA ProducersOf ==
  ASSUME NEW pl, CompiledStages(pl), NEW q \in pl.primitives
  PROVE  Producers(StaticNodes(pl), q.output.artifact) = {q.stage}
<1>1. q.stage \in DOMAIN StaticNodes(pl)
      /\ StaticNodes(pl)[q.stage].output.artifact = q.output.artifact
  <2>1. q.stage \in {p.stage : p \in pl.primitives}
    OBVIOUS
  <2>2. DOMAIN StaticNodes(pl) = {p.stage : p \in pl.primitives}
        /\ StaticNodes(pl)[q.stage] = TaskOfStage(pl, q)
    BY NodesOfStages
  <2> QED
    BY <2>1, <2>2, NodeFields
<1>2. ASSUME NEW t \in DOMAIN StaticNodes(pl), StaticNodes(pl)[t].output.artifact = q.output.artifact
      PROVE  t = q.stage
  <2>1. PICK p \in pl.primitives : t = p.stage /\ StaticNodes(pl)[t] = TaskOfStage(pl, p)
    BY NodeOf
  <2>2. p.output.artifact = q.output.artifact
    BY <1>2, <2>1, NodeFields
  <2> QED
    BY <2>1, <2>2 DEF CompiledStages
<1> QED
  BY <1>1, <1>2 DEF Producers

(* The agents of the tasks are those of the stages.                         *)
LEMMA AgentsOfTasks ==
  ASSUME NEW pl, CompiledStages(pl)
  PROVE  LET nodes == StaticNodes(pl)
         IN  Total([t \in DOMAIN nodes |-> nodes[t].agentCount])
               = Total([p \in pl.primitives |-> p.count])
<1> DEFINE S == pl.primitives
           nodes == StaticNodes(pl)
           T == DOMAIN nodes
           name == [p \in S |-> p.stage]
           v == [t \in T |-> nodes[t].agentCount]
           w == [p \in S |-> p.count]
<1>1. IsFiniteSet(S) /\ IsFiniteSet(T)
  BY NodesOfStages DEF CompiledStages
<1>2. \A p \in S : p.count \in Nat
  <2>1. FanoutMax \in Nat
    BY NumbersAssumption DEF NumbersAssumption
  <2>2. \A p \in S : p.count \in 1..FanoutMax
    BY DEF CompiledStages, StageIsSound, ValidPrimitive
  <2> QED
    BY <2>1, <2>2
<1>3. ASSUME NEW p \in S PROVE name[p] \in T /\ v[name[p]] = w[p]
  <2>1. p.stage \in T /\ nodes[p.stage] = TaskOfStage(pl, p)
    BY NodesOfStages, p.stage \in {q.stage : q \in S}
  <2>2. nodes[p.stage].agentCount = p.count
    BY <2>1, NodeFields
  <2> HIDE DEF nodes
  <2> QED
    BY <2>1, <2>2
<1>4. \A t \in T : \E p \in S : name[p] = t
  BY NodeOf
<1>5. \A x, y \in S : name[x] = name[y] => x = y
  BY DEF CompiledStages
<1>6. v \in [T -> Nat] /\ w \in [S -> Nat] /\ name \in [S -> T]
  <2>1. w \in [S -> Nat] /\ name \in [S -> T]
    BY <1>2, <1>3
  <2>2. \A t \in T : v[t] \in Nat
    <3> SUFFICES ASSUME NEW t \in T PROVE v[t] \in Nat
      OBVIOUS
    <3>1. PICK p \in S : name[p] = t
      BY <1>4
    <3>2. v[t] = w[p]
      BY <1>3, <3>1
    <3>3. w[p] \in Nat
      BY <1>2
    <3> HIDE DEF v, w, T
    <3> QED
      BY <3>2, <3>3
  <2>3. v \in [T -> Nat]
    <3>1. v = [t \in T |-> v[t]]
      OBVIOUS
    <3> HIDE DEF v, T
    <3> QED
      BY <2>2, <3>1
  <2> QED
    BY <2>1, <2>3
<1> HIDE DEF v, w, name, T, S
<1>7. Total(w) = Total(v)
  BY <1>1, <1>3, <1>4, <1>5, <1>6, TotalRenamed
<1> QED
  BY <1>7 DEF v, w, T, S

(* The plan is a graph within its limits.                                   *)
LEMMA PlanIsSemantic ==
  ASSUME NEW pl, CompiledStages(pl),
         \A p \in pl.primitives : p.count <= pl.limits.maxConcurrent,
         Total([p \in pl.primitives |-> p.count]) <= pl.limits.maxAgents
  PROVE  validatePlanGraphSemantics(StaticNodes(pl), StaticEdges(pl), pl.completion, pl.limits)
<1> DEFINE nodes == StaticNodes(pl)
           edges == StaticEdges(pl)
<1>1. \A t \in DOMAIN nodes : nodes[t].agentCount <= pl.limits.maxConcurrent
  BY NodeOf, NodeFields
<1>2. Total([t \in DOMAIN nodes |-> nodes[t].agentCount]) <= pl.limits.maxAgents
  BY AgentsOfTasks
<1>3. \A s, t \in DOMAIN nodes : nodes[s].output.artifact = nodes[t].output.artifact => s = t
  <2> SUFFICES ASSUME NEW s \in DOMAIN nodes, NEW t \in DOMAIN nodes,
                      nodes[s].output.artifact = nodes[t].output.artifact
               PROVE  s = t
    OBVIOUS
  <2>1. PICK p \in pl.primitives : s = p.stage /\ nodes[s] = TaskOfStage(pl, p)
    BY NodeOf
  <2>2. PICK q \in pl.primitives : t = q.stage /\ nodes[t] = TaskOfStage(pl, q)
    BY NodeOf
  <2>3. p.output.artifact = q.output.artifact
    BY <2>1, <2>2, NodeFields
  <2> QED
    BY <2>1, <2>2, <2>3 DEF CompiledStages
<1>4. ASSUME NEW t \in DOMAIN nodes
      PROVE  nodes[t].primitive.after \subseteq DOMAIN nodes \ {t}
  <2>1. PICK p \in pl.primitives : t = p.stage /\ nodes[t] = TaskOfStage(pl, p)
    BY NodeOf
  <2>2. nodes[t].primitive = p
    BY <2>1, NodeFields
  <2>3. p.after \subseteq {q.stage : q \in pl.primitives} \ {p.stage}
    BY DEF CompiledStages, StageIsSound
  <2> HIDE DEF nodes
  <2> QED
    BY <2>1, <2>2, <2>3, NodesOfStages DEF nodes
<1>5. ASSUME NEW t \in DOMAIN nodes, NEW i \in nodes[t].inputs \ {Objective}
      PROVE  \E s \in Producers(nodes, i.artifact) : CompatibleProducer(nodes[s], i)
  <2>1. PICK p \in pl.primitives : t = p.stage /\ nodes[t] = TaskOfStage(pl, p)
    BY NodeOf
  <2>2. PICK q \in pl.primitives : q.output = pl.artifacts[i.artifact]
                                   /\ q.output.artifact = i.artifact
    BY <2>1, InputsAreMade
  <2>3. i = InputOf(pl, i.artifact)
    BY <2>1, InputsAreMade
  <2>4. q.stage \in Producers(nodes, i.artifact)
    BY <2>2, ProducersOf
  <2>5. nodes[q.stage] = TaskOfStage(pl, q)
    BY NodesOfStages
  <2>6. CompatibleProducer(TaskOfStage(pl, q), i)
    <3> DEFINE a == pl.artifacts[i.artifact]
               input == InputOf(pl, i.artifact)
    <3>1. /\ input.contract = a.contract /\ input.collection = a.collection
          /\ input.required = (a.availability = "required")
      BY InputFields
    <3>4. q.output = a /\ i = input
      BY <2>2, <2>3
    <3> HIDE DEF a, input
    <3>2. /\ i.contract = q.output.contract /\ i.collection = q.output.collection
          /\ i.required = (q.output.availability = "required")
      BY Zenon, <3>4, <3>1
    <3> QED
      BY <3>2, NodeFields DEF CompatibleProducer
  <2> QED
    BY <2>4, <2>5, <2>6
<1>6. AfterEdges(nodes) \subseteq edges
  <2> SUFFICES ASSUME NEW t \in DOMAIN nodes, NEW from \in nodes[t].primitive.after
               PROVE  Edge(from, t, "after", None) \in edges
    BY DEF AfterEdges
  <2>1. PICK p \in pl.primitives : t = p.stage /\ nodes[t] = TaskOfStage(pl, p)
    BY NodeOf
  <2>2. from \in p.after
    BY <2>1, NodeFields
  <2>3. Edge(from, t, "after", None) \in {Edge(f, p.stage, "after", None) : f \in p.after}
    BY <2>1, <2>2
  <2> QED
    BY <2>3 DEF StaticEdges
<1>7. ArtifactEdges(nodes) \subseteq edges
  <2> SUFFICES ASSUME NEW s \in DOMAIN nodes, NEW t \in DOMAIN nodes, NEW i \in nodes[t].inputs,
                      s \in Producers(nodes, i.artifact)
               PROVE  Edge(s, t, "artifact", i.artifact) \in edges
    BY DEF ArtifactEdges
  <2>1. PICK p \in pl.primitives : t = p.stage /\ nodes[t] = TaskOfStage(pl, p)
    BY NodeOf
  <2>2. PICK q \in pl.primitives : s = q.stage /\ nodes[s] = TaskOfStage(pl, q)
    BY NodeOf
  <2>3. q.output.artifact = i.artifact
    BY <2>2, NodeFields DEF Producers
  <2>4. i.artifact \in p.inputs
    BY <2>1, InputsAreMade
  <2> QED
    BY <2>1, <2>2, <2>3, <2>4, InputsHaveEdges
<1>8. {e \in edges : e.reason = "artifact"} \subseteq ArtifactEdges(nodes)
  <2> SUFFICES ASSUME NEW e \in edges, e.reason = "artifact"
               PROVE  e \in ArtifactEdges(nodes)
    OBVIOUS
  <2>1. PICK p \in pl.primitives :
           \/ e = Edge(e.from, p.stage, "after", None)
           \/ \E name \in p.inputs : \E q \in pl.primitives :
                /\ q.output = pl.artifacts[name] /\ q.output.artifact = name
                /\ e = Edge(q.stage, p.stage, "artifact", name)
    BY EdgesOfStages
  <2>2. e # Edge(e.from, p.stage, "after", None)
    <3>1. Edge(e.from, p.stage, "after", None).reason = "after"
      BY DEF Edge
    <3> QED
      BY <3>1
  <2>3. PICK name \in p.inputs, q \in pl.primitives :
          q.output.artifact = name /\ e = Edge(q.stage, p.stage, "artifact", name)
    BY <2>1, <2>2
  <2> DEFINE i == InputOf(pl, name)
             between(from, to) == {Edge(from, to, "artifact", j.artifact) :
               j \in {k \in nodes[to].inputs : from \in Producers(nodes, k.artifact)}}
  <2>4. i.artifact = name
    BY InputFields
  <2>5. i \in nodes[p.stage].inputs
    <3>1. nodes[p.stage] = TaskOfStage(pl, p)
      BY NodesOfStages
    <3>2. i \in TaskOfStage(pl, p).inputs
      BY <2>3, InputsOfTask
    <3> HIDE DEF i, nodes
    <3> QED
      BY <3>1, <3>2
  <2>6. q.stage \in Producers(nodes, i.artifact)
    BY <2>3, <2>4, ProducersOf
  <2>7. e \in between(q.stage, p.stage)
    <3> HIDE DEF i, nodes
    <3> QED
      BY <2>3, <2>4, <2>5, <2>6
  <2>8. q.stage \in DOMAIN nodes /\ p.stage \in DOMAIN nodes
    BY NodesOfStages
  <2>9. ArtifactEdges(nodes) = UNION {between(from, to) : from, to \in DOMAIN nodes}
    BY DEF ArtifactEdges
  <2> HIDE DEF between, nodes
  <2> QED
    BY <2>7, <2>8, <2>9
<1>9. \/ pl.completion.artifact = "objective" /\ pl.completion.contract = "objective-v1"
      \/ \E t \in Producers(nodes, pl.completion.artifact) :
           /\ pl.completion.artifact # "objective"
           /\ nodes[t].output.contract = pl.completion.contract
           /\ ~nodes[t].output.collection
  <2>1. PICK name \in DOMAIN pl.artifacts :
          /\ name = pl.completion.artifact
          /\ pl.artifacts[name].contract = pl.completion.contract /\ ~pl.artifacts[name].collection
    BY DEF CompiledStages
  <2>2. ArtifactIsSound(pl, name)
    BY DEF CompiledStages
  <2>3. CASE name = "objective" /\ pl.artifacts[name] = ObjectiveArtifact
    BY <2>1, <2>3 DEF ObjectiveArtifact
  <2>4. CASE \E q \in pl.primitives : q.output = pl.artifacts[name] /\ q.output.artifact = name
    <3>1. PICK q \in pl.primitives : q.output = pl.artifacts[name] /\ q.output.artifact = name
      BY <2>4
    <3>2. q.stage \in Producers(nodes, name) /\ nodes[q.stage] = TaskOfStage(pl, q)
      <4>1. q.stage \in Producers(nodes, name)
        BY <3>1, ProducersOf
      <4>2. nodes[q.stage] = TaskOfStage(pl, q)
        BY NodesOfStages
      <4> QED
        BY <4>1, <4>2
    <3>3. name # "objective"
      BY <3>1 DEF CompiledStages, StageIsSound
    <3>4. nodes[q.stage].output.contract = pl.completion.contract
      BY <2>1, <3>1, <3>2, NodeFields
    <3>5. ~nodes[q.stage].output.collection
      <4>1. nodes[q.stage].output.collection = q.output.collection
        BY <3>2, NodeFields
      <4>2. ~q.output.collection
        BY Zenon, <2>1, <3>1
      <4> QED
        BY Zenon, <4>1, <4>2
    <3> HIDE DEF nodes
    <3> QED
      BY <2>1, <3>2, <3>3, <3>4, <3>5
  <2> QED
    BY <2>2, <2>3, <2>4 DEF ArtifactIsSound
<1> HIDE DEF nodes, edges
<1>10. validatePlanGraphSemantics(nodes, edges, pl.completion, pl.limits)
  BY <1>1, <1>2, <1>3, <1>4, <1>5, <1>6, <1>7, <1>8, <1>9 DEF validatePlanGraphSemantics
<1> QED
  BY <1>10 DEF nodes, edges

(* The agents of a stage are a number.                                      *)
LEMMA StagesCount ==
  ASSUME NEW pl, CompiledStages(pl), NEW p \in pl.primitives
  PROVE  p.count \in 1..FanoutMax /\ p.count \in Nat
<1>1. FanoutMax \in Nat
  BY NumbersAssumption DEF NumbersAssumption
<1>2. p.count \in 1..FanoutMax
  BY DEF CompiledStages, StageIsSound, ValidPrimitive
<1> QED
  BY <1>1, <1>2

(* A sound plan within its limits is a graph that can be read back.         *)
LEMMA CompiledIsGraph ==
  ASSUME NEW pl, CompiledStages(pl), LimitsAreWithin(pl.limits),
         validateAcyclic({p.stage : p \in pl.primitives}, StaticEdges(pl)),
         \A p \in pl.primitives : p.count <= pl.limits.maxConcurrent,
         Total([p \in pl.primitives |-> p.count]) <= pl.limits.maxAgents
  PROVE  /\ Compiles(pl)
         /\ materializePlanGraph(compileStaticPlanGraph(pl))
              = (pl.limits.maxConcurrent <= pl.limits.maxAgents)
<1> DEFINE nodes == StaticNodes(pl)
           edges == StaticEdges(pl)
           graph == compileStaticPlanGraph(pl)
           stages == {p.stage : p \in pl.primitives}
<1>1. validatePlanGraphSemantics(nodes, edges, pl.completion, pl.limits)
  BY PlanIsSemantic
<1>2. DOMAIN nodes = stages
  BY NodesOfStages
<1>3. validateAcyclic(DOMAIN nodes, edges)
  BY <1>2 DEF CompiledStages
<1>4. \A p \in pl.primitives : p.inputs \subseteq DOMAIN pl.artifacts /\ ValidPrimitive(p)
  BY DEF CompiledStages, StageIsSound
<1>5. \A p \in pl.primitives : p.after \subseteq DOMAIN nodes \ {p.stage}
  <2> HIDE DEF nodes
  <2> QED
    BY <1>2 DEF CompiledStages, StageIsSound
<1>6. Compiles(pl)
  <2> HIDE DEF nodes, edges
  <2>1. \A p \in pl.primitives : /\ p.inputs \subseteq DOMAIN pl.artifacts
                                 /\ ValidPrimitive(p)
                                 /\ p.after \subseteq DOMAIN nodes \ {p.stage}
    BY <1>4, <1>5
  <2> QED
    BY Zenon, <1>1, <1>3, <2>1 DEF Compiles, nodes, edges
<1>7. /\ graph.nodes = nodes /\ graph.edges = edges
      /\ graph.completion = pl.completion /\ graph.limits = pl.limits
  BY DEF compileStaticPlanGraph
<1>8. ASSUME NEW t \in DOMAIN nodes
      PROVE  /\ ValidTaskBody(nodes[t])
             /\ nodes[t].primitive.stage = t /\ nodes[t].primitive.output.producer = t
  <2>1. PICK p \in pl.primitives : t = p.stage /\ nodes[t] = TaskOfStage(pl, p)
    BY NodeOf
  <2>2. p.output.producer = p.stage
    BY DEF CompiledStages, StageIsSound
  <2> HIDE DEF nodes
  <2> QED
    BY <2>1, <2>2, NodeFields, BodiesAreValid
<1>9. \A e \in edges : {e.from, e.to} \subseteq DOMAIN nodes
  <2> SUFFICES ASSUME NEW e \in edges PROVE e.from \in stages /\ e.to \in stages
    BY <1>2
  <2>1. PICK p \in pl.primitives : e.to = p.stage /\ e.from \in {q.stage : q \in pl.primitives}
    BY EdgesOfStages
  <2> QED
    BY <2>1
<1>10. materializeStrategyLimits(pl.limits) = (pl.limits.maxConcurrent <= pl.limits.maxAgents)
  <2>1. \A f \in DOMAIN LimitMaximums : pl.limits[f] \in 1..LimitMaximums[f]
    BY DEF LimitsAreWithin
  <2>2. materializeStrategyLimits(pl.limits) <=> pl.limits.maxConcurrent <= pl.limits.maxAgents
    BY <2>1 DEF materializeStrategyLimits
  <2>3. materializeStrategyLimits(pl.limits) \in BOOLEAN
    BY DEF materializeStrategyLimits
  <2> QED
    BY <2>2, <2>3
<1>11. Evolves(graph, nodes, edges, pl.limits)
  <2> HIDE DEF nodes, edges, graph
  <2> QED
    BY <1>1, <1>3, <1>7, <1>8, <1>9 DEF Evolves
<1>12. materializePlanGraph(graph) = (pl.limits.maxConcurrent <= pl.limits.maxAgents)
  <2> HIDE DEF nodes, edges, graph
  <2>1. materializePlanGraph(graph) = materializeStrategyLimits(pl.limits)
    BY <1>7, <1>11 DEF materializePlanGraph, materializeStrategyLimits, Evolves
  <2> QED
    BY <1>10, <2>1
<1> QED
  BY <1>6, <1>12

(* What the schema of the configuration lets an author write.               *)
IsList(list) == Len(list) \in Nat /\ DOMAIN list = 1..Len(list)

AuthoredCohort(spec) ==
  /\ IsFiniteSet(DOMAIN spec.members)
  /\ \A m \in DOMAIN spec.members :
       spec.members[m].min \in Nat \cup {None} /\ spec.members[m].max \in (Nat \ {0}) \cup {None}
  /\ spec.maxMembers \in Nat \cup {None} /\ spec.maxConcurrentMembers \in Nat \cup {None}

AuthoredStage(stage) ==
  /\ stage.id # None /\ stage.contract # "objective-v1"
  /\ IsList(stage.inputs) /\ IsList(stage.after)
  /\ Fans(stage) => /\ stage.count \in 1..FanoutMax /\ stage.minSuccess \in 1..FanoutMax
                    /\ stage.allowDegraded \in BOOLEAN

AuthoredStrategy(spec) ==
  /\ IsList(spec.stages) /\ Len(spec.stages) # 0
  /\ \A i \in DOMAIN spec.stages : AuthoredStage(spec.stages[i])
  /\ LimitsAreWithin(spec.limits)
  /\ spec.memberFailure \in {"fail", "allow-partial"}

(* What becomes of a Cohort.                                                *)
CohortIsSound(team) ==
  /\ team.maxConcurrentMembers \in Nat
  /\ \A m \in DOMAIN team.members : team.members[m].min \in Nat /\ team.members[m].max \in Nat \ {0}

LEMMA CohortsAreSound ==
  ASSUME NEW spec, AuthoredCohort(spec), NEW profiles, compiledCohort(spec, profiles) # None
  PROVE  CohortIsSound(compiledCohort(spec, profiles))
<1> DEFINE slots == DOMAIN spec.members
           least == [m \in slots |-> Or(spec.members[m].min, 1)]
           most == [m \in slots |-> Or(spec.members[m].max, 1)]
           maxMembers == Or(spec.maxMembers, Total(most))
           maxConcurrentMembers == Or(spec.maxConcurrentMembers, maxMembers)
           team == [members |-> [m \in slots |->
                      [specialist |-> spec.members[m].specialist, min |-> least[m], max |-> most[m],
                       active |-> profiles[spec.members[m].specialist].active]],
                    maxMembers |-> maxMembers, maxConcurrentMembers |-> maxConcurrentMembers]
<1>1. \A m \in slots : least[m] \in Nat /\ most[m] \in Nat \ {0}
  BY DEF AuthoredCohort, Or
<1>2. Total(most) \in Nat
  <2>1. most \in [slots -> Nat] /\ IsFiniteSet(slots)
    BY <1>1 DEF AuthoredCohort
  <2> HIDE DEF most, slots
  <2> QED
    BY <2>1, TotalType
<1>3. maxConcurrentMembers \in Nat
  <2> HIDE DEF most
  <2> QED
    BY <1>2 DEF AuthoredCohort, Or
<1>4. compiledCohort(spec, profiles) = team
  BY DEF compiledCohort
<1>5. team.maxConcurrentMembers = maxConcurrentMembers /\ DOMAIN team.members = slots
      /\ \A m \in slots : team.members[m].min = least[m] /\ team.members[m].max = most[m]
  <2> HIDE DEF least, most, maxMembers, maxConcurrentMembers, slots
  <2> QED
    OBVIOUS
<1> HIDE DEF least, most, maxMembers, maxConcurrentMembers, slots, team
<1> QED
  BY <1>1, <1>3, <1>4, <1>5 DEF CohortIsSound

(* The least of three numbers.                                              *)
LEMMA LeastOfThree ==
  ASSUME NEW a \in Nat, NEW b \in Nat, NEW c \in Nat
  PROVE  LET bounds == {a, b, c}
             least == CHOOSE n \in bounds : \A m \in bounds : n <= m
         IN  least \in bounds /\ least <= a /\ least <= b
<1> DEFINE bounds == {a, b, c}
<1>1. PICK n \in bounds : \A m \in bounds : n <= m
  <2>1. bounds \in SUBSET Nat /\ bounds # {}
    OBVIOUS
  <2> HIDE DEF bounds
  <2> QED
    BY <2>1, LeastNumber
<1> QED
  BY <1>1

(* The limits of a template are within the maxima of a run.                 *)
LEMMA LimitsOfTemplate ==
  ASSUME NEW limits, LimitsAreWithin(limits), NEW team, CohortIsSound(team),
         1 <= effectiveLimits(limits, team).maxConcurrent
  PROVE  /\ LimitsAreWithin(effectiveLimits(limits, team))
         /\ effectiveLimits(limits, team).maxConcurrent <= effectiveLimits(limits, team).maxAgents
<1> DEFINE bounds == {limits.maxConcurrent, limits.maxAgents, team.maxConcurrentMembers}
           least == CHOOSE n \in bounds : \A m \in bounds : n <= m
           new == [limits EXCEPT !.maxConcurrent = least]
<1>1. LimitMaximums \in [{"maxAgents", "maxConcurrent", "maxOutputBytes"} -> Nat]
  BY NumbersAssumption DEF NumbersAssumption
<1>2. /\ DOMAIN limits = {"maxAgents", "maxConcurrent", "maxOutputBytes"}
      /\ \A f \in DOMAIN limits : limits[f] \in 1..LimitMaximums[f] /\ LimitMaximums[f] \in Nat
  BY <1>1 DEF LimitsAreWithin
<1>3. limits.maxConcurrent \in Nat /\ limits.maxAgents \in Nat /\ team.maxConcurrentMembers \in Nat
  BY <1>2 DEF CohortIsSound
<1>4. least \in bounds /\ least <= limits.maxConcurrent /\ least <= limits.maxAgents
  BY <1>3, LeastOfThree
<1>5. effectiveLimits(limits, team) = new
  BY DEF effectiveLimits
<1>6. DOMAIN new = DOMAIN limits /\ \A f \in DOMAIN limits \ {"maxConcurrent"} : new[f] = limits[f]
  OBVIOUS
<1>7. new.maxConcurrent = least
  BY <1>2
<1>8. least \in Nat
  BY <1>3, <1>4
<1>9. new \in [DOMAIN LimitMaximums -> Nat]
  <2>1. limits \in [DOMAIN LimitMaximums -> Nat]
    BY DEF LimitsAreWithin
  <2> HIDE DEF least
  <2> QED
    BY <1>8, <2>1
<1> HIDE DEF least, new
<1>10. new.maxConcurrent \in 1..LimitMaximums["maxConcurrent"]
  <2>1. 1 <= least /\ least <= limits.maxConcurrent
        /\ limits.maxConcurrent <= LimitMaximums["maxConcurrent"] /\ LimitMaximums["maxConcurrent"] \in Nat
    BY <1>2, <1>4, <1>5, <1>7
  <2> QED
    BY <1>3, <1>7, <1>8, <2>1
<1>11. new.maxAgents = limits.maxAgents
  BY <1>2, <1>6
<1> QED
  BY <1>1, <1>2, <1>4, <1>5, <1>6, <1>7, <1>9, <1>10, <1>11 DEF LimitsAreWithin

(* Every artifact of an accepted Strategy is made once.                     *)
LEMMA ArtifactsAreUnique ==
  ASSUME NEW stages, IsList(stages),
         \A i \in DOMAIN stages : Named(ArtifactsUpTo(stages, i - 1), stages[i].artifact) = {}
  PROVE  /\ \A i \in DOMAIN stages : stages[i].artifact # "objective"
         /\ \A i, j \in DOMAIN stages : stages[i].artifact = stages[j].artifact => i = j
<1>1. \A i \in DOMAIN stages : stages[i].artifact # "objective"
  <2> SUFFICES ASSUME NEW i \in DOMAIN stages PROVE stages[i].artifact # "objective"
    OBVIOUS
  <2>1. ObjectiveArtifact \in ArtifactsUpTo(stages, i - 1) /\ ObjectiveArtifact.artifact = "objective"
    BY DEF ArtifactsUpTo, ObjectiveArtifact
  <2> QED
    BY <2>1 DEF Named
<1>2. ASSUME NEW i \in DOMAIN stages, NEW j \in DOMAIN stages, i < j
      PROVE  stages[i].artifact # stages[j].artifact
  <2>1. i \in 1..(j - 1)
    BY <1>2 DEF IsList
  <2>2. stageOutput(stages[i]) \in ArtifactsUpTo(stages, j - 1)
    BY <2>1 DEF ArtifactsUpTo
  <2>3. stageOutput(stages[i]).artifact = stages[i].artifact
    BY DEF stageOutput
  <2> QED
    BY <2>2, <2>3 DEF Named
<1>3. ASSUME NEW i \in DOMAIN stages, NEW j \in DOMAIN stages, stages[i].artifact = stages[j].artifact
      PROVE  i = j
  <2>1. i \in Nat /\ j \in Nat
    BY DEF IsList
  <2>2. ~(i < j) /\ ~(j < i)
    BY <1>2, <1>3
  <2> QED
    BY <2>1, <2>2
<1> QED
  BY <1>1, <1>3

(* An artifact is the objective or comes from a stage.                      *)
LEMMA ArtifactsOf ==
  ASSUME NEW stages, NEW a \in ArtifactsUpTo(stages, Len(stages)), IsList(stages)
  PROVE  a = ObjectiveArtifact \/ \E i \in DOMAIN stages : a = stageOutput(stages[i])
  BY DEF ArtifactsUpTo, IsList

(* What the output of a stage is.                                           *)
LEMMA OutputFields ==
  ASSUME NEW stage
  PROVE  /\ stageOutput(stage).artifact = stage.artifact
         /\ stageOutput(stage).contract = stage.contract
         /\ stageOutput(stage).collection = Fans(stage)
         /\ stageOutput(stage).availability = IF Degraded(stage) THEN "degraded" ELSE "required"
         /\ stageOutput(stage).producer = stage.id
  BY Zenon DEF stageOutput

(* What the artifacts of a template are.                                    *)
TemplateArtifacts(stages) ==
  LET made == ArtifactsUpTo(stages, Len(stages))
  IN  [name \in {a.artifact : a \in made} |-> CHOOSE a \in Named(made, name) : TRUE]

LEMMA ArtifactsOfTemplate ==
  ASSUME NEW stages, IsList(stages),
         \A i \in DOMAIN stages : Named(ArtifactsUpTo(stages, i - 1), stages[i].artifact) = {},
         NEW a \in ArtifactsUpTo(stages, Len(stages))
  PROVE  /\ a.artifact \in DOMAIN TemplateArtifacts(stages)
         /\ TemplateArtifacts(stages)[a.artifact] = a
<1> DEFINE made == ArtifactsUpTo(stages, Len(stages))
           b == CHOOSE b \in Named(made, a.artifact) : TRUE
<1>1. a \in Named(made, a.artifact)
  BY DEF Named
<1>2. b \in Named(made, a.artifact)
  BY <1>1
<1>3. b \in made /\ b.artifact = a.artifact
  <2> HIDE DEF b, made
  <2> QED
    BY <1>2 DEF Named
<1>4. TemplateArtifacts(stages)[a.artifact] = b /\ a.artifact \in DOMAIN TemplateArtifacts(stages)
  BY DEF TemplateArtifacts
<1>5. b = a
  <2> HIDE DEF b
  <2>1. \A i \in DOMAIN stages : stageOutput(stages[i]).artifact = stages[i].artifact
    BY OutputFields
  <2>2. \A i \in DOMAIN stages : stages[i].artifact # "objective"
    BY ArtifactsAreUnique
  <2>3. \A i, j \in DOMAIN stages : stages[i].artifact = stages[j].artifact => i = j
    BY ArtifactsAreUnique
  <2>4. ObjectiveArtifact.artifact = "objective"
    BY DEF ObjectiveArtifact
  <2>5. a = ObjectiveArtifact \/ \E i \in DOMAIN stages : a = stageOutput(stages[i])
    BY ArtifactsOf
  <2>6. b = ObjectiveArtifact \/ \E i \in DOMAIN stages : b = stageOutput(stages[i])
    BY <1>3, ArtifactsOf
  <2> QED
    BY <1>3, <2>1, <2>2, <2>3, <2>4, <2>5, <2>6
<1> QED
  BY <1>4, <1>5

(* A stage whose conditions hold is a valid primitive.                      *)
LEMMA PrimitiveFields ==
  ASSUME NEW stage, NEW team
  PROVE  /\ PrimitiveOf(stage, team).kind = IF Fans(stage) THEN "dsh-subagent-fanout" ELSE "dsh-delegate"
         /\ PrimitiveOf(stage, team).mode = "foreground"
         /\ PrimitiveOf(stage, team).stage = stage.id /\ PrimitiveOf(stage, team).member = stage.member
         /\ PrimitiveOf(stage, team).inputs = {stage.inputs[k].artifact : k \in DOMAIN stage.inputs}
         /\ PrimitiveOf(stage, team).output = stageOutput(stage)
         /\ PrimitiveOf(stage, team).after = {stage.after[k] : k \in DOMAIN stage.after}
         /\ PrimitiveOf(stage, team).count = expectedAgentCount(stage)
         /\ PrimitiveOf(stage, team).minSuccess = IF Fans(stage) THEN stage.minSuccess ELSE 1
         /\ PrimitiveOf(stage, team).allowDegraded = (Fans(stage) /\ stage.allowDegraded)
  BY Zenon DEF PrimitiveOf

(* A stage asks for some agents.                                            *)
LEMMA CountOf ==
  ASSUME NEW stage, AuthoredStage(stage)
  PROVE  expectedAgentCount(stage) \in 1..FanoutMax
<1>1. FanoutMax \in Nat \ {0}
  BY NumbersAssumption DEF NumbersAssumption
<1> QED
  BY <1>1 DEF AuthoredStage, expectedAgentCount

(* And so it is when the stage was accepted.                                *)
LEMMA StagesAreValid ==
  ASSUME NEW stages, NEW i \in DOMAIN stages, NEW team, NEW profiles,
         AuthoredStage(stages[i]), StageAccepted(stages, i, team, profiles)
  PROVE  ValidPrimitive(PrimitiveOf(stages[i], team))
<1> DEFINE stage == stages[i]
           p == PrimitiveOf(stage, team)
<1>1. Fans(stage) \in BOOLEAN
  BY DEF Fans
<1>2. p.count \in 1..FanoutMax
  BY CountOf, PrimitiveFields
<1>3. p.output = stageOutput(stage) /\ p.mode = "foreground" /\ p.stage = stage.id
  BY PrimitiveFields
<1>4. p.output.producer = p.stage
  BY <1>3, OutputFields
<1>5. CASE Fans(stage)
  <2>1. /\ stage.minSuccess <= stage.count
        /\ stage.allowDegraded \/ stage.minSuccess = stage.count
        /\ stage.count \in 1..FanoutMax /\ stage.minSuccess \in 1..FanoutMax
    BY <1>5 DEF StageAccepted, AuthoredStage
  <2>2. p.kind = "dsh-subagent-fanout" /\ p.count = stage.count /\ p.minSuccess = stage.minSuccess
    BY <1>5, PrimitiveFields DEF expectedAgentCount
  <2>3. p.allowDegraded = stage.allowDegraded
    <3>1. stage.allowDegraded \in BOOLEAN
      BY <1>5 DEF AuthoredStage
    <3>2. p.allowDegraded = (Fans(stage) /\ stage.allowDegraded)
      BY PrimitiveFields
    <3> HIDE DEF stage, p
    <3> QED
      BY <1>5, <3>1, <3>2
  <2>4. p.output.collection = TRUE
    <3>1. p.output.collection = Fans(stage)
      BY <1>3, OutputFields
    <3> HIDE DEF stage, p
    <3> QED
      BY <1>1, <1>5, <3>1
  <2>5. p.output.availability = IF p.allowDegraded /\ p.minSuccess < p.count THEN "degraded" ELSE "required"
    <3>1. Degraded(stage) <=> p.allowDegraded /\ p.minSuccess < p.count
      <4> HIDE DEF stage, p
      <4> QED
        BY <1>5, <2>2, <2>3 DEF Degraded
    <3>2. p.output.availability = IF Degraded(stage) THEN "degraded" ELSE "required"
      BY <1>3, OutputFields
    <3> HIDE DEF stage, p
    <3> QED
      BY <3>1, <3>2
  <2>6. p.minSuccess \in 1..p.count
    <3>1. FanoutMax \in Nat
      BY NumbersAssumption DEF NumbersAssumption
    <3> HIDE DEF stage, p
    <3> QED
      BY <2>1, <2>2, <3>1
  <2>7. p.allowDegraded \/ p.minSuccess = p.count
    <3> HIDE DEF stage, p
    <3> QED
      BY <2>1, <2>2, <2>3
  <2> HIDE DEF stage, p
  <2>8. ValidPrimitive(p)
    BY <1>2, <1>4, <2>2, <2>4, <2>5, <2>6, <2>7 DEF ValidPrimitive
  <2> QED
    BY <2>8 DEF p, stage
<1>6. CASE ~Fans(stage)
  <2>1. p.kind = "dsh-delegate" /\ p.count = 1 /\ p.minSuccess = 1
    BY <1>6, PrimitiveFields DEF expectedAgentCount
  <2>2. p.output.collection = FALSE
    <3>1. p.output.collection = Fans(stage)
      BY <1>3, OutputFields
    <3> HIDE DEF stage, p
    <3> QED
      BY <1>1, <1>6, <3>1
  <2>3. p.output.availability = "required"
    <3>1. ~Degraded(stage)
      BY <1>6 DEF Degraded
    <3>2. p.output.availability = IF Degraded(stage) THEN "degraded" ELSE "required"
      BY <1>3, OutputFields
    <3> HIDE DEF stage, p
    <3> QED
      BY <3>1, <3>2
  <2> HIDE DEF stage, p
  <2>4. ValidPrimitive(p)
    <3>1. (p.kind = "dsh-subagent-fanout") = FALSE
      BY <2>1
    <3>2. p.minSuccess \in 1..p.count /\ p.minSuccess = p.count
      BY <2>1
    <3> QED
      BY <1>2, <1>3, <1>4, <2>1, <2>2, <2>3, <3>1, <3>2 DEF ValidPrimitive
  <2> QED
    BY <2>4 DEF p, stage
<1> QED
  BY <1>5, <1>6

(* The plan has the stages, artifacts and completion of the Strategy.       *)
PlanOf(pl, spec, team) ==
  /\ pl.primitives = {PrimitiveOf(spec.stages[i], team) : i \in DOMAIN spec.stages}
  /\ pl.artifacts = TemplateArtifacts(spec.stages)
  /\ pl.completion = spec.completion /\ pl.memberFailure = spec.memberFailure

(* What a template consists of.                                             *)
LEMMA CompiledTemplate ==
  ASSUME NEW spec, NEW team, NEW profiles, compileStrategyTemplate(spec, team, profiles) # None
  PROVE  LET template == compileStrategyTemplate(spec, team, profiles)
         IN  /\ team # None /\ TemplateAccepted(spec, team, profiles)
             /\ PlanOf(template, spec, team)
             /\ template.limits = effectiveLimits(spec.limits, team)
             /\ {"primitives", "artifacts", "completion", "memberFailure", "limits"}
                  \subseteq DOMAIN template
<1> DEFINE made == [primitives |-> {PrimitiveOf(spec.stages[i], team) : i \in DOMAIN spec.stages},
                    artifacts |-> TemplateArtifacts(spec.stages),
                    completion |-> spec.completion,
                    limits |-> effectiveLimits(spec.limits, team),
                    memberFailure |-> spec.memberFailure,
                    active |-> \A i \in DOMAIN spec.stages : team.members[spec.stages[i].member].active]
<1>1. team # None /\ TemplateAccepted(spec, team, profiles)
  BY DEF compileStrategyTemplate
<1>2. compileStrategyTemplate(spec, team, profiles) = made
  BY <1>1 DEF compileStrategyTemplate, TemplateArtifacts
<1>3. PlanOf(made, spec, team) /\ made.limits = effectiveLimits(spec.limits, team)
  BY DEF PlanOf
<1>4. {"primitives", "artifacts", "completion", "memberFailure", "limits"} \subseteq DOMAIN made
  OBVIOUS
<1> HIDE DEF made
<1> QED
  BY <1>1, <1>2, <1>3, <1>4

(* What the stages of an accepted Strategy are, seen from where they begin. *)
Sources(stages) ==
  /\ IsList(stages) /\ Injective([i \in DOMAIN stages |-> stages[i].id])
  /\ \A i \in DOMAIN stages :
       AuthoredStage(stages[i]) /\ Named(ArtifactsUpTo(stages, i - 1), stages[i].artifact) = {}

(* An accepted Strategy has such stages.                                    *)
LEMMA SourcesOf ==
  ASSUME NEW spec, NEW team, NEW profiles, AuthoredStrategy(spec),
         TemplateAccepted(spec, team, profiles)
  PROVE  /\ Sources(spec.stages)
         /\ \A i \in DOMAIN spec.stages : StageAccepted(spec.stages, i, team, profiles)
<1>1. /\ Injective([i \in DOMAIN spec.stages |-> spec.stages[i].id])
      /\ \A i \in DOMAIN spec.stages : StageAccepted(spec.stages, i, team, profiles)
  BY DEF TemplateAccepted
<1>2. \A i \in DOMAIN spec.stages :
        Named(ArtifactsUpTo(spec.stages, i - 1), spec.stages[i].artifact) = {}
  BY <1>1 DEF StageAccepted
<1> QED
  BY <1>1, <1>2 DEF Sources, AuthoredStrategy

(* The stages of the plan are those of the Strategy.                        *)
LEMMA PlanStages ==
  ASSUME NEW pl, NEW spec, NEW team, PlanOf(pl, spec, team)
  PROVE  /\ {p.stage : p \in pl.primitives} = {spec.stages[i].id : i \in DOMAIN spec.stages}
         /\ \A p \in pl.primitives : \E i \in DOMAIN spec.stages : p = PrimitiveOf(spec.stages[i], team)
<1>1. pl.primitives = {PrimitiveOf(spec.stages[i], team) : i \in DOMAIN spec.stages}
  BY DEF PlanOf
<1>2. \A i \in DOMAIN spec.stages : PrimitiveOf(spec.stages[i], team).stage = spec.stages[i].id
  BY PrimitiveFields
<1> QED
  BY <1>1, <1>2

(* A name of an artifact that a stage may take is that of one made.         *)
LEMMA MadeBefore ==
  ASSUME NEW stages, IsList(stages), NEW i \in DOMAIN stages,
         NEW a \in ArtifactsUpTo(stages, i - 1)
  PROVE  a \in ArtifactsUpTo(stages, Len(stages))
<1>1. 1..(i - 1) \subseteq 1..Len(stages)
  BY DEF IsList
<1> QED
  BY <1>1 DEF ArtifactsUpTo

(* Each accepted stage is sound in the plan.                                *)
LEMMA StagesAreSound ==
  ASSUME NEW pl, NEW spec, NEW team, NEW profiles, PlanOf(pl, spec, team), Sources(spec.stages),
         NEW i \in DOMAIN spec.stages, StageAccepted(spec.stages, i, team, profiles)
  PROVE  StageIsSound(pl, PrimitiveOf(spec.stages[i], team))
<1> DEFINE stages == spec.stages
           stage == stages[i]
           p == PrimitiveOf(stage, team)
           made == ArtifactsUpTo(stages, Len(stages))
<1>1. IsList(stages) /\ AuthoredStage(stage)
      /\ \A j \in DOMAIN stages : Named(ArtifactsUpTo(stages, j - 1), stages[j].artifact) = {}
  BY DEF Sources
<1>2. pl.artifacts = TemplateArtifacts(stages)
  BY DEF PlanOf
<1>3. /\ p.stage = stage.id /\ p.output = stageOutput(stage) /\ p.mode = "foreground"
      /\ p.inputs = {stage.inputs[k].artifact : k \in DOMAIN stage.inputs}
      /\ p.after = {stage.after[k] : k \in DOMAIN stage.after}
  BY PrimitiveFields
<1>4. /\ p.output.artifact = stage.artifact /\ p.output.contract = stage.contract
      /\ p.output.producer = stage.id
  BY <1>3, OutputFields
<1>5. ValidPrimitive(p)
  BY <1>1, StagesAreValid
<1>6. p.stage # None /\ p.output.producer = p.stage /\ p.output.contract # "objective-v1"
  BY <1>1, <1>3, <1>4 DEF AuthoredStage
<1>7. p.output.artifact # "objective"
  BY <1>1, <1>4, ArtifactsAreUnique
<1>8. p.output \in made
  <2>1. i \in 1..Len(stages)
    BY <1>1 DEF IsList
  <2> QED
    BY <1>3, <2>1 DEF ArtifactsUpTo
<1>9. p.output.artifact \in DOMAIN pl.artifacts /\ pl.artifacts[p.output.artifact] = p.output
  <2> HIDE DEF p, stage, stages
  <2> QED
    BY <1>1, <1>2, <1>8, ArtifactsOfTemplate
<1>10. IsFiniteSet(p.inputs)
  <2> DEFINE f == [k \in DOMAIN stage.inputs |-> stage.inputs[k].artifact]
  <2>1. IsFiniteSet(DOMAIN stage.inputs)
    <3>1. DOMAIN stage.inputs = 1..Len(stage.inputs) /\ Len(stage.inputs) \in Nat
      BY <1>1 DEF AuthoredStage, IsList
    <3> HIDE DEF stage
    <3> QED
      BY <3>1, FS_Interval
  <2>2. IsFiniteSet({f[k] : k \in DOMAIN stage.inputs})
    <3> HIDE DEF f, stage
    <3> QED
      BY <2>1, FiniteImage
  <2>3. p.inputs = {f[k] : k \in DOMAIN stage.inputs}
    BY <1>3
  <2> QED
    BY <2>2, <2>3
<1>11. p.inputs \subseteq DOMAIN pl.artifacts
  <2> SUFFICES ASSUME NEW k \in DOMAIN stage.inputs
               PROVE  stage.inputs[k].artifact \in DOMAIN pl.artifacts
    BY <1>3
  <2>1. Fits(stage.inputs[k], ArtifactsUpTo(stages, i - 1))
    BY DEF StageAccepted
  <2>2. PICK a \in ArtifactsUpTo(stages, i - 1) : a.artifact = stage.inputs[k].artifact
    <3> HIDE DEF stage, stages
    <3> QED
      BY <2>1 DEF Fits, Named
  <2>3. a \in made
    BY <1>1, MadeBefore
  <2>4. a.artifact \in DOMAIN TemplateArtifacts(stages)
    BY <1>1, <2>3, ArtifactsOfTemplate
  <2> QED
    BY <1>2, <2>2, <2>4
<1>12. p.after \subseteq {q.stage : q \in pl.primitives} \ {p.stage}
  <2>1. \A k \in DOMAIN stage.after :
          stage.after[k] \in {stages[j].id : j \in DOMAIN stages} \ {stage.id}
    BY DEF StageAccepted
  <2>2. {q.stage : q \in pl.primitives} = {stages[j].id : j \in DOMAIN stages}
    BY PlanStages
  <2> HIDE DEF p, stage, stages
  <2> QED
    BY <1>3, <2>1, <2>2
<1> HIDE DEF p, stage, stages, made
<1>13. StageIsSound(pl, p)
  BY <1>3, <1>5, <1>6, <1>7, <1>9, <1>10, <1>11, <1>12 DEF StageIsSound
<1> QED
  BY <1>13 DEF p, stage, stages

(* The stages of an accepted Strategy are those of a sound plan.            *)
LEMMA StagesAreCompiled ==
  ASSUME NEW pl, NEW spec, NEW team, NEW profiles, AuthoredStrategy(spec),
         TemplateAccepted(spec, team, profiles), PlanOf(pl, spec, team)
  PROVE  CompiledStages(pl)
<1> DEFINE stages == spec.stages
           made == ArtifactsUpTo(stages, Len(stages))
<1>1. /\ Sources(stages)
      /\ \A i \in DOMAIN stages : StageAccepted(stages, i, team, profiles)
  BY SourcesOf
<1>2. pl.primitives = {PrimitiveOf(stages[i], team) : i \in DOMAIN stages}
  BY DEF PlanOf
<1>3. /\ IsList(stages) /\ Len(stages) # 0
      /\ \A j \in DOMAIN stages : Named(ArtifactsUpTo(stages, j - 1), stages[j].artifact) = {}
  BY <1>1 DEF Sources, AuthoredStrategy
<1>4. IsFiniteSet(pl.primitives) /\ pl.primitives # {}
  <2> DEFINE f == [i \in DOMAIN stages |-> PrimitiveOf(stages[i], team)]
  <2>1. IsFiniteSet(DOMAIN stages) /\ DOMAIN stages # {}
    <3>1. DOMAIN stages = 1..Len(stages) /\ Len(stages) \in Nat /\ Len(stages) # 0
      BY <1>3 DEF IsList
    <3>2. 1 \in 1..Len(stages)
      BY <3>1
    <3>3. IsFiniteSet(1..Len(stages))
      BY <3>1, FS_Interval
    <3> HIDE DEF stages
    <3> QED
      BY <3>1, <3>2, <3>3
  <2>2. IsFiniteSet({f[i] : i \in DOMAIN stages})
    <3> HIDE DEF f, stages
    <3> QED
      BY <2>1, FiniteImage
  <2>3. pl.primitives = {f[i] : i \in DOMAIN stages}
    BY <1>2
  <2> QED
    BY <2>1, <2>2, <2>3
<1>5. ASSUME NEW p \in pl.primitives, NEW q \in pl.primitives,
             p.stage = q.stage \/ p.output.artifact = q.output.artifact
      PROVE  p = q
  <2>1. PICK i \in DOMAIN stages : p = PrimitiveOf(stages[i], team)
    BY <1>2
  <2>2. PICK j \in DOMAIN stages : q = PrimitiveOf(stages[j], team)
    BY <1>2
  <2>3. /\ p.stage = stages[i].id /\ p.output.artifact = stages[i].artifact
        /\ q.stage = stages[j].id /\ q.output.artifact = stages[j].artifact
    BY <2>1, <2>2, PrimitiveFields, OutputFields
  <2>4. stages[i].id = stages[j].id => i = j
    BY <1>1 DEF Sources, Injective
  <2>5. stages[i].artifact = stages[j].artifact => i = j
    BY <1>3, ArtifactsAreUnique
  <2> QED
    BY <1>5, <2>1, <2>2, <2>3, <2>4, <2>5
<1>6. \A p \in pl.primitives : StageIsSound(pl, p)
  <2> SUFFICES ASSUME NEW i \in DOMAIN stages PROVE StageIsSound(pl, PrimitiveOf(stages[i], team))
    BY <1>2
  <2> QED
    BY <1>1, StagesAreSound
<1>7. pl.artifacts = TemplateArtifacts(stages)
  BY DEF PlanOf
<1>8. ASSUME NEW a \in made
      PROVE  ArtifactIsSound(pl, a.artifact) /\ pl.artifacts[a.artifact] = a
  <2>1. pl.artifacts[a.artifact] = a
    BY <1>3, <1>7, ArtifactsOfTemplate
  <2>2. CASE a = ObjectiveArtifact
    BY <2>1, <2>2 DEF ArtifactIsSound, ObjectiveArtifact
  <2>3. CASE \E i \in DOMAIN stages : a = stageOutput(stages[i])
    <3>1. PICK i \in DOMAIN stages : a = stageOutput(stages[i])
      BY <2>3
    <3>2. PrimitiveOf(stages[i], team) \in pl.primitives
      BY <1>2
    <3>3. PrimitiveOf(stages[i], team).output = a
      BY <3>1, PrimitiveFields
    <3> QED
      BY <2>1, <3>2, <3>3 DEF ArtifactIsSound
  <2> QED
    BY <1>3, <2>1, <2>2, <2>3, ArtifactsOf
<1>9. \A name \in DOMAIN pl.artifacts : ArtifactIsSound(pl, name)
  <2> SUFFICES ASSUME NEW name \in DOMAIN pl.artifacts PROVE ArtifactIsSound(pl, name)
    OBVIOUS
  <2>1. PICK a \in made : a.artifact = name
    BY <1>7 DEF TemplateArtifacts
  <2> QED
    BY <1>8, <2>1
<1>10. \E a \in Named(ArtifactsUpTo(spec.stages, Len(spec.stages)), spec.completion.artifact) :
         a.contract = spec.completion.contract /\ ~a.collection
  BY DEF TemplateAccepted
<1>11. \E name \in DOMAIN pl.artifacts :
         /\ name = pl.completion.artifact
         /\ pl.artifacts[name].contract = pl.completion.contract /\ ~pl.artifacts[name].collection
  <2>1. PICK a \in Named(ArtifactsUpTo(spec.stages, Len(spec.stages)), spec.completion.artifact) :
          a.contract = spec.completion.contract /\ ~a.collection
    BY Zenon, <1>10
  <2>2. a \in made /\ a.artifact = spec.completion.artifact
    BY <2>1 DEF Named
  <2>3. pl.artifacts[a.artifact] = a /\ a.artifact \in DOMAIN pl.artifacts
    <3>1. a.artifact \in DOMAIN TemplateArtifacts(stages)
      BY <1>3, <2>2, ArtifactsOfTemplate
    <3> HIDE DEF stages, made
    <3> QED
      BY <1>7, <1>8, <2>2, <3>1
  <2>4. pl.completion = spec.completion
    BY DEF PlanOf
  <2> HIDE DEF made
  <2> QED
    BY <2>1, <2>2, <2>3, <2>4
<1>12. pl.memberFailure \in {"fail", "allow-partial"}
  BY DEF PlanOf, AuthoredStrategy
<1> HIDE DEF stages, made
<1> QED
  BY <1>4, <1>5, <1>6, <1>9, <1>11, <1>12 DEF CompiledStages

(* Its stages do not wait for one another.                                  *)
LEMMA StagesAreAcyclic ==
  ASSUME NEW pl, NEW spec, NEW team, NEW profiles, AuthoredStrategy(spec),
         TemplateAccepted(spec, team, profiles), PlanOf(pl, spec, team)
  PROVE  validateAcyclic({p.stage : p \in pl.primitives}, StaticEdges(pl))
<1> DEFINE stages == spec.stages
           ids == {stages[i].id : i \in DOMAIN stages}
           Depends(e) ==
             \E s \in {stages[i] : i \in DOMAIN stages} :
               /\ s.id = e.to
               /\ \/ \E k \in DOMAIN s.after : s.after[k] = e.from
                  \/ \E k \in DOMAIN s.inputs, p \in {stages[i] : i \in DOMAIN stages} :
                       p.id = e.from /\ p.artifact = s.inputs[k].artifact
           between == {Edge(from, to, "any", None) : from, to \in ids}
           edges == {e \in between : Depends(e)}
<1>1. validateAcyclic(ids, edges)
  BY DEF TemplateAccepted, hasStrategyDependencyCycle
<1>2. {p.stage : p \in pl.primitives} = ids
  BY PlanStages
<1>3. CompiledStages(pl)
  BY StagesAreCompiled
<1>4. IsFiniteSet(ids)
  BY <1>2, <1>3, NodesOfStages
<1>5. ASSUME NEW e \in StaticEdges(pl)
      PROVE  e.from \in ids /\ \E d \in edges : d.from = e.from /\ d.to = e.to
  <2>1. PICK p \in pl.primitives :
          /\ e.to = p.stage /\ e.from \in {q.stage : q \in pl.primitives}
          /\ \/ e.from \in p.after
             \/ \E name \in p.inputs : \E q \in pl.primitives :
                  q.output.artifact = name /\ e.from = q.stage
    <3> HIDE DEF edges, ids
    <3> QED
      BY <1>3, EdgesOfStages
  <2>2. e.from \in ids /\ e.to \in ids
    BY <1>2, <2>1
  <2>3. PICK i \in DOMAIN stages : p = PrimitiveOf(stages[i], team)
    BY PlanStages
  <2> DEFINE s == stages[i]
             d == Edge(e.from, e.to, "any", None)
  <2>4. /\ p.stage = s.id /\ p.after = {s.after[k] : k \in DOMAIN s.after}
        /\ p.inputs = {s.inputs[k].artifact : k \in DOMAIN s.inputs}
    BY <2>3, PrimitiveFields
  <2>5. d.from = e.from /\ d.to = e.to
    BY DEF Edge
  <2>6. Depends(d)
    <3>1. CASE e.from \in p.after
      <4>1. PICK k \in DOMAIN s.after : s.after[k] = e.from
        BY <2>4, <3>1
      <4> QED
        BY <2>1, <2>4, <2>5, <4>1
    <3>2. CASE \E name \in p.inputs : \E q \in pl.primitives :
                 q.output.artifact = name /\ e.from = q.stage
      <4>1. PICK name \in p.inputs, q \in pl.primitives :
                 q.output.artifact = name /\ e.from = q.stage
        BY <3>2
      <4>2. PICK k \in DOMAIN s.inputs : s.inputs[k].artifact = name
        BY <2>4
      <4>3. PICK j \in DOMAIN stages : q = PrimitiveOf(stages[j], team)
        BY PlanStages
      <4>4. stages[j].id = e.from /\ stages[j].artifact = name
        BY <4>1, <4>3, PrimitiveFields, OutputFields
      <4> HIDE DEF d
      <4> QED
        BY <2>1, <2>4, <2>5, <4>2, <4>4
    <3> QED
      BY <2>1, <3>1, <3>2
  <2>7. d \in between
    <3> HIDE DEF ids
    <3> QED
      BY <2>2
  <2> HIDE DEF d, Depends, between, ids
  <2> QED
    BY <2>2, <2>5, <2>6, <2>7
<1> HIDE DEF edges, ids
<1>6. ASSUME NEW S \in SUBSET ids, S # {}
      PROVE  \E t \in S : \A e \in StaticEdges(pl) : e.to = t => e.from \notin S
  <2>1. PICK t \in S : \A d \in edges : d.to = t => d.from \notin S
    BY <1>1, <1>4, <1>6, NoTasksWaitForOneAnother
  <2>2. \A e \in StaticEdges(pl) : e.to = t => e.from \notin S
    BY <1>5, <2>1
  <2> QED
    BY <2>2
<1>7. validateAcyclic(ids, StaticEdges(pl))
  BY <1>4, <1>5, <1>6, NothingIsLeft
<1> QED
  BY <1>2, <1>7

(* Narrowed limits are within those they narrow.                            *)
LEMMA NarrowedAreWithin ==
  ASSUME NEW limits, LimitsAreWithin(limits), NEW requested, narrowedLimits(limits, requested) # None
  PROVE  /\ LimitsAreWithin(narrowedLimits(limits, requested))
         /\ requested = <<>> => narrowedLimits(limits, requested) = limits
<1> DEFINE new == [f \in DOMAIN limits |-> IF f \in DOMAIN requested THEN requested[f] ELSE limits[f]]
<1>1. /\ \A f \in DOMAIN requested : f \in DOMAIN limits /\ requested[f] \in 1..limits[f]
      /\ narrowedLimits(limits, requested) = new
  BY DEF narrowedLimits
<1>2. LimitMaximums \in [{"maxAgents", "maxConcurrent", "maxOutputBytes"} -> Nat]
  BY NumbersAssumption DEF NumbersAssumption
<1>3. DOMAIN limits = DOMAIN LimitMaximums
      /\ \A f \in DOMAIN LimitMaximums : limits[f] \in 1..LimitMaximums[f] /\ LimitMaximums[f] \in Nat
  BY <1>2 DEF LimitsAreWithin
<1>4. \A f \in DOMAIN LimitMaximums : new[f] \in 1..LimitMaximums[f]
  <2> SUFFICES ASSUME NEW f \in DOMAIN LimitMaximums PROVE new[f] \in 1..LimitMaximums[f]
    OBVIOUS
  <2>1. limits[f] \in 1..LimitMaximums[f] /\ LimitMaximums[f] \in Nat
    BY <1>3
  <2>2. CASE f \in DOMAIN requested
    <3>1. new[f] = requested[f] /\ requested[f] \in 1..limits[f]
      BY <1>1, <1>3, <2>2
    <3> HIDE DEF new
    <3> QED
      BY <2>1, <3>1
  <2>3. CASE f \notin DOMAIN requested
    BY <1>3, <2>1, <2>3
  <2> QED
    BY <2>2, <2>3
<1>5. new \in [DOMAIN LimitMaximums -> Nat]
  <2>1. \A f \in DOMAIN LimitMaximums : new[f] \in Nat
    <3> HIDE DEF new
    <3> QED
      BY <1>3, <1>4
  <2>2. DOMAIN new = DOMAIN LimitMaximums /\ new = [f \in DOMAIN new |-> new[f]]
    BY <1>3
  <2> HIDE DEF new
  <2> QED
    BY <2>1, <2>2
<1>6. ASSUME requested = <<>> PROVE new = limits
  <2>1. DOMAIN requested = {}
    BY <1>6
  <2>2. new = [f \in DOMAIN limits |-> limits[f]]
    BY <2>1
  <2>3. limits = [f \in DOMAIN limits |-> limits[f]]
    BY DEF LimitsAreWithin
  <2> QED
    BY <2>2, <2>3
<1> HIDE DEF new
<1> QED
  BY <1>1, <1>4, <1>5, <1>6 DEF LimitsAreWithin

(* The largest of 1 and some counts of agents.                              *)
LEMMA LargestCount ==
  ASSUME NEW S, \A n \in S : n \in 1..FanoutMax
  PROVE  1 <= Largest({1} \cup S) /\ \A n \in S : n <= Largest({1} \cup S)
<1>1. FanoutMax \in Nat \ {0}
  BY NumbersAssumption DEF NumbersAssumption
<1> DEFINE all == {1} \cup S
<1>2. all \in SUBSET Int /\ all # {} /\ \A n \in all : n <= FanoutMax
  BY <1>1
<1>3. \A n \in all : n <= Largest(all)
  <2> HIDE DEF all
  <2> QED
    BY <1>1, <1>2, LargestBound
<1> QED
  BY <1>3

(* A template is a sound plan, and runs no more at once than it has agents. *)
LEMMA TemplatesAreSound ==
  ASSUME NEW spec, AuthoredStrategy(spec), NEW team, CohortIsSound(team), NEW profiles,
         compileStrategyTemplate(spec, team, profiles) # None
  PROVE  LET template == compileStrategyTemplate(spec, team, profiles)
         IN  /\ LimitsAreWithin(template.limits)
             /\ template.limits.maxConcurrent <= template.limits.maxAgents
<1> DEFINE template == compileStrategyTemplate(spec, team, profiles)
           counts == {expectedAgentCount(spec.stages[i]) : i \in DOMAIN spec.stages}
<1>1. TemplateAccepted(spec, team, profiles) /\ template.limits = effectiveLimits(spec.limits, team)
  BY CompiledTemplate
<1>2. Largest({1} \cup counts) <= effectiveLimits(spec.limits, team).maxConcurrent
  BY <1>1 DEF TemplateAccepted, LargestParallel
<1>3. \A n \in counts : n \in 1..FanoutMax
  BY CountOf DEF AuthoredStrategy
<1>4. 1 <= Largest({1} \cup counts) /\ Largest({1} \cup counts) \in Nat
  <2>1. FanoutMax \in Nat \ {0}
    BY NumbersAssumption DEF NumbersAssumption
  <2> DEFINE all == {1} \cup counts
  <2>2. all \in SUBSET Int /\ all # {} /\ \A n \in all : n <= FanoutMax /\ n \in Nat
    BY <1>3, <2>1
  <2>3. Largest(all) \in all
    <3> HIDE DEF all
    <3> QED
      BY <2>1, <2>2, LargestBound
  <2>4. 1 <= Largest(all)
    <3> HIDE DEF counts
    <3> QED
      BY <1>3, LargestCount
  <2> QED
    BY <2>2, <2>3, <2>4
<1>5. LimitsAreWithin(spec.limits)
  BY DEF AuthoredStrategy
<1>6. effectiveLimits(spec.limits, team).maxConcurrent \in Nat
  <2> DEFINE bounds == {spec.limits.maxConcurrent, spec.limits.maxAgents, team.maxConcurrentMembers}
             least == CHOOSE n \in bounds : \A m \in bounds : n <= m
  <2>1. LimitMaximums \in [{"maxAgents", "maxConcurrent", "maxOutputBytes"} -> Nat]
    BY NumbersAssumption DEF NumbersAssumption
  <2>2. spec.limits.maxConcurrent \in Nat /\ spec.limits.maxAgents \in Nat
        /\ team.maxConcurrentMembers \in Nat /\ "maxConcurrent" \in DOMAIN spec.limits
    BY <1>5, <2>1 DEF LimitsAreWithin, CohortIsSound
  <2>3. least \in bounds
    BY <2>2, LeastOfThree
  <2>4. effectiveLimits(spec.limits, team) = [spec.limits EXCEPT !.maxConcurrent = least]
    BY DEF effectiveLimits
  <2> HIDE DEF least
  <2> QED
    BY <2>2, <2>3, <2>4
<1>7. 1 <= effectiveLimits(spec.limits, team).maxConcurrent
  <2> HIDE DEF counts
  <2> QED
    BY <1>2, <1>4, <1>6
<1> HIDE DEF template
<1>8. LimitsAreWithin(template.limits) /\ template.limits.maxConcurrent <= template.limits.maxAgents
  BY <1>1, <1>5, <1>7, LimitsOfTemplate
<1> QED
  BY <1>8 DEF template

(* A stage asks for no more agents than its member slot has.                *)
LEMMA StagesFitTheirMembers ==
  ASSUME NEW spec, AuthoredStrategy(spec), NEW team, CohortIsSound(team), NEW profiles,
         TemplateAccepted(spec, team, profiles), NEW i \in DOMAIN spec.stages
  PROVE  LET p == PrimitiveOf(spec.stages[i], team) IN p.count <= team.members[p.member].max
<1> DEFINE stage == spec.stages[i]
           p == PrimitiveOf(stage, team)
           member == team.members[stage.member]
<1>1. StageAccepted(spec.stages, i, team, profiles)
  BY SourcesOf
<1>2. stage.member \in DOMAIN team.members
  BY <1>1 DEF StageAccepted
<1>3. member.min \in Nat /\ member.max \in Nat \ {0}
  BY <1>2 DEF CohortIsSound
<1>4. p.count = expectedAgentCount(stage) /\ p.member = stage.member
  BY PrimitiveFields
<1>5. CASE Fans(stage)
  <2>1. stage.count \in member.min..member.max
    BY <1>1, <1>5 DEF StageAccepted
  <2>2. p.count = stage.count
    BY <1>4, <1>5 DEF expectedAgentCount
  <2> HIDE DEF p, stage
  <2>3. p.count <= member.max
    BY <1>3, <2>1, <2>2
  <2> QED
    BY <1>4, <2>3 DEF p, stage
<1>6. CASE ~Fans(stage)
  <2>1. p.count = 1
    BY <1>4, <1>6 DEF expectedAgentCount
  <2> HIDE DEF p, stage
  <2>2. p.count <= member.max
    BY <1>3, <2>1
  <2> QED
    BY <1>4, <2>2 DEF p, stage
<1> QED
  BY <1>5, <1>6

(* What compileStrategy accepts of a catalog.                               *)
LEMMA AcceptedPlan ==
  ASSUME NEW catalog, NEW request, compileStrategy(catalog, request) # None
  PROVE  LET template == catalog.strategies[request.strategy]
             limits == narrowedLimits(template.limits, request.limits)
         IN  /\ request.strategy \in DOMAIN catalog.strategies /\ limits # None
             /\ Total([p \in template.primitives |-> p.count]) <= limits.maxAgents
             /\ Largest({1} \cup {p.count : p \in template.primitives}) <= limits.maxConcurrent
             /\ compileStrategy(catalog, request) = [template EXCEPT !.limits = limits]
  BY DEF compileStrategy

(* A Strategy of the catalog was compiled with a Cohort of the catalog.     *)
LEMMA CompiledCatalog ==
  ASSUME NEW cohorts, NEW strategies, NEW profiles, NEW n,
         n \in DOMAIN compileOrchestrationCatalog(cohorts, strategies, profiles).strategies
  PROVE  LET catalog == compileOrchestrationCatalog(cohorts, strategies, profiles)
             spec == strategies[n]
             team == compiledCohort(cohorts[spec.cohort], profiles)
         IN  /\ n \in DOMAIN strategies /\ spec.cohort \in DOMAIN cohorts /\ team # None
             /\ catalog.strategies[n] = compileStrategyTemplate(spec, team, profiles)
             /\ catalog.strategies[n] # None
             /\ catalog.cohorts[spec.cohort] = team
<1> DEFINE catalog == compileOrchestrationCatalog(cohorts, strategies, profiles)
           spec == strategies[n]
           teams == [c \in DOMAIN cohorts |-> compiledCohort(cohorts[c], profiles)]
           Team(s) == IF s.cohort \in DOMAIN teams THEN teams[s.cohort] ELSE None
           templates == [x \in DOMAIN strategies |->
                           compileStrategyTemplate(strategies[x], Team(strategies[x]), profiles)]
           NotRefused(f) == [x \in {y \in DOMAIN f : f[y] # None} |-> f[x]]
<1>1. catalog.cohorts = NotRefused(teams) /\ catalog.strategies = NotRefused(templates)
  BY DEF compileOrchestrationCatalog
<1>2. n \in DOMAIN strategies /\ templates[n] # None /\ catalog.strategies[n] = templates[n]
  <2>1. DOMAIN templates = DOMAIN strategies
    OBVIOUS
  <2>2. n \in DOMAIN NotRefused(templates)
    BY <1>1
  <2> HIDE DEF templates, catalog
  <2> QED
    BY <1>1, <2>1, <2>2
<1>3. templates[n] = compileStrategyTemplate(spec, Team(spec), profiles)
  BY <1>2
<1>4. Team(spec) # None
  <2> HIDE DEF Team, templates
  <2> QED
    BY <1>2, <1>3 DEF compileStrategyTemplate
<1>5. spec.cohort \in DOMAIN cohorts /\ Team(spec) = compiledCohort(cohorts[spec.cohort], profiles)
      /\ teams[spec.cohort] = Team(spec)
  BY <1>4
<1>6. catalog.cohorts[spec.cohort] = teams[spec.cohort]
  <2>1. spec.cohort \in DOMAIN teams /\ teams[spec.cohort] # None
    BY <1>4, <1>5
  <2> HIDE DEF teams, catalog
  <2> QED
    BY <1>1, <2>1
<1> HIDE DEF catalog, templates, Team, teams, NotRefused, spec
<1> QED
  BY <1>2, <1>3, <1>4, <1>5, <1>6 DEF catalog, spec

(* Whatever Cohorts and Strategies the schema of the configuration lets an  *)
(* author write, a plan that compileOrchestrationCatalog and compileStrategy*)
(* (orchestration.ts) hand out lowers to a graph of a durable run: its      *)
(* stages do not wait for one another, every input has one compatible       *)
(* producer, its agents fit the limits and the member slots, some stage can *)
(* start, and the graph can be read back from the journal unless the request*)
(* narrowed maxAgents below maxConcurrent.                                  *)
THEOREM StrategiesCompileToGraphs ==
  ASSUME NEW cohorts, \A n \in DOMAIN cohorts : AuthoredCohort(cohorts[n]),
         NEW strategies, \A n \in DOMAIN strategies : AuthoredStrategy(strategies[n]),
         NEW profiles, NEW request
  PROVE  StrategiesBecomeGraphs(cohorts, strategies, profiles, request)
<1> DEFINE catalog == compileOrchestrationCatalog(cohorts, strategies, profiles)
           pl == compileStrategy(catalog, request)
           spec == strategies[request.strategy]
           team == compiledCohort(cohorts[spec.cohort], profiles)
           template == catalog.strategies[request.strategy]
           limits == narrowedLimits(template.limits, request.limits)
           graph == compileStaticPlanGraph(pl)
<1> HIDE DEF catalog, pl, spec, team, template, limits, graph
<1>1. SUFFICES ASSUME pl # None
      PROVE  /\ Compiles(pl)
             /\ materializePlanGraph(graph) = (pl.limits.maxConcurrent <= pl.limits.maxAgents)
             /\ request.limits = <<>> => materializePlanGraph(graph)
             /\ \A p \in pl.primitives : p.count <= catalog.cohorts[spec.cohort].members[p.member].max
             /\ deriveReadyFrontier(graph,
                  [t \in DOMAIN graph.nodes |-> [status |-> "pending", attempts |-> 0]],
                  [n \in DOMAIN pl.artifacts |-> Missing]) # {}
  BY DEF StrategiesBecomeGraphs, catalog, pl, spec, graph
<1>2. /\ request.strategy \in DOMAIN catalog.strategies /\ limits # None
      /\ Total([p \in template.primitives |-> p.count]) <= limits.maxAgents
      /\ Largest({1} \cup {p.count : p \in template.primitives}) <= limits.maxConcurrent
      /\ pl = [template EXCEPT !.limits = limits]
  BY <1>1, AcceptedPlan DEF pl, template, limits
<1>3. /\ request.strategy \in DOMAIN strategies /\ spec.cohort \in DOMAIN cohorts /\ team # None
      /\ template = compileStrategyTemplate(spec, team, profiles) /\ template # None
      /\ catalog.cohorts[spec.cohort] = team
  BY <1>2, CompiledCatalog DEF catalog, spec, team, template
<1>4. AuthoredStrategy(spec) /\ CohortIsSound(team)
  <2>1. AuthoredStrategy(spec) /\ AuthoredCohort(cohorts[spec.cohort])
    BY <1>3 DEF spec
  <2> QED
    BY <1>3, <2>1, CohortsAreSound DEF team
<1>5. /\ TemplateAccepted(spec, team, profiles) /\ PlanOf(template, spec, team)
      /\ {"primitives", "artifacts", "completion", "memberFailure", "limits"} \subseteq DOMAIN template
  BY <1>3, CompiledTemplate
<1>6. LimitsAreWithin(template.limits) /\ template.limits.maxConcurrent <= template.limits.maxAgents
  BY <1>3, <1>4, TemplatesAreSound
<1>7. LimitsAreWithin(limits) /\ (request.limits = <<>> => limits = template.limits)
  BY <1>2, <1>6, NarrowedAreWithin DEF limits
<1>8. /\ pl.limits = limits /\ pl.primitives = template.primitives
      /\ pl.artifacts = template.artifacts /\ pl.completion = template.completion
      /\ pl.memberFailure = template.memberFailure
  BY <1>2, <1>5
<1>9. PlanOf(pl, spec, team)
  BY <1>5, <1>8 DEF PlanOf
<1>10. CompiledStages(pl)
  BY <1>4, <1>5, <1>9, StagesAreCompiled
<1>11. validateAcyclic({p.stage : p \in pl.primitives}, StaticEdges(pl))
  BY <1>4, <1>5, <1>9, StagesAreAcyclic
<1>12. \A p \in pl.primitives : p.count <= pl.limits.maxConcurrent
  <2> DEFINE counts == {p.count : p \in pl.primitives}
             largest == Largest({1} \cup counts)
  <2>1. \A n \in counts : n \in 1..FanoutMax
    BY <1>10, StagesCount
  <2>2. 1 <= largest /\ \A n \in counts : n <= largest
    <3> HIDE DEF counts
    <3> QED
      BY <2>1, LargestCount
  <2>3. largest <= limits.maxConcurrent
    BY <1>2, <1>8
  <2>4. limits.maxConcurrent \in Nat
    <3>1. LimitMaximums \in [{"maxAgents", "maxConcurrent", "maxOutputBytes"} -> Nat]
      BY NumbersAssumption DEF NumbersAssumption
    <3> QED
      BY <1>7, <3>1 DEF LimitsAreWithin
  <2>5. largest \in Int
    <3>1. FanoutMax \in Nat \ {0}
      BY NumbersAssumption DEF NumbersAssumption
    <3> DEFINE all == {1} \cup counts
    <3>2. all \in SUBSET Int /\ all # {} /\ \A n \in all : n <= FanoutMax
      BY <2>1, <3>1
    <3>3. Largest(all) \in all
      <4> HIDE DEF all
      <4> QED
        BY <3>1, <3>2, LargestBound
    <3> QED
      BY <3>2, <3>3
  <2> SUFFICES ASSUME NEW p \in pl.primitives PROVE p.count <= limits.maxConcurrent
    BY <1>8
  <2>6. p.count \in Nat /\ p.count <= largest
    BY <1>10, <2>2, StagesCount
  <2> HIDE DEF largest
  <2> QED
    BY <2>3, <2>4, <2>5, <2>6
<1>13. Total([p \in pl.primitives |-> p.count]) <= pl.limits.maxAgents
  BY <1>2, <1>8
<1>14. Compiles(pl) /\ materializePlanGraph(graph) = (pl.limits.maxConcurrent <= pl.limits.maxAgents)
  BY <1>7, <1>8, <1>10, <1>11, <1>12, <1>13, CompiledIsGraph DEF graph
<1>15. request.limits = <<>> => materializePlanGraph(graph)
  BY <1>6, <1>7, <1>8, <1>14
<1>16. \A p \in pl.primitives : p.count <= team.members[p.member].max
  <2> SUFFICES ASSUME NEW p \in pl.primitives PROVE p.count <= team.members[p.member].max
    OBVIOUS
  <2>1. PICK i \in DOMAIN spec.stages : p = PrimitiveOf(spec.stages[i], team)
    BY <1>9, PlanStages
  <2> QED
    BY <1>4, <1>5, <2>1, StagesFitTheirMembers
<1>17. deriveReadyFrontier(graph,
         [t \in DOMAIN graph.nodes |-> [status |-> "pending", attempts |-> 0]],
         [n \in DOMAIN pl.artifacts |-> Missing]) # {}
  BY <1>10, <1>11, SomeStageCanStart DEF graph
<1> QED
  BY <1>3, <1>14, <1>15, <1>16, <1>17

================================================================================
