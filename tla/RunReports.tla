------------------------------- MODULE RunReports ------------------------------
(***************************************************************************)
(* The pure reports of a durable run: its critical path and observed       *)
(* parallelism (src/src/durable-run/metrics.ts) and the tree that reduces  *)
(* the outputs of its tasks (reducer.ts).                                  *)
(***************************************************************************)
EXTENDS Totals, Integers, Sequences, FiniteSets

(* The number of tasks on the longest chain; edges are <<from, to>>.       *)
critical(nodes, edges) ==
  LET distance[t \in nodes] ==
        1 + Largest({distance[s] : s \in {s \in nodes : <<s, t>> \in edges}})
  IN Largest({distance[t] : t \in nodes})

(* The points of the admissions in time; a release comes before an         *)
(* admission at the same time.                                             *)
Before(p, q) == p.at < q.at \/ (p.at = q.at /\ p.delta < q.delta)

(* The most admissions that were held at once; an admission is             *)
(* [admittedAt, releasedAt], and one that is released when it is admitted  *)
(* is not seen.                                                            *)
peak(admissions) ==
  LET points == [i \in 1..2 * Len(admissions) |->
        IF i <= Len(admissions) THEN [at |-> admissions[i].admittedAt, delta |-> 1]
        ELSE [at |-> admissions[i - Len(admissions)].releasedAt, delta |-> -1]]
      upTo(i) == {j \in DOMAIN points :
                    Before(points[j], points[i]) \/ (points[j] = points[i] /\ j <= i)}
      active(i) == Cardinality({j \in upTo(i) : points[j].delta = 1})
                     - Cardinality({j \in upTo(i) : points[j].delta = -1})
  IN Largest({active(i) : i \in DOMAIN points})

(* The children of the nth reducer of a level.                             *)
Chunk(current, n, maxInputs) ==
  SubSeq(current, (n - 1) * maxInputs + 1,
         IF n * maxInputs <= Len(current) THEN n * maxInputs ELSE Len(current))

(* The levels above the sources, the last with one node: each is reduced   *)
(* by maxInputs at a time until one is left.  sources is in canonical      *)
(* order.                                                                  *)
buildReductionTree(sources, maxInputs) ==
  LET leaves == [i \in DOMAIN sources |->
                   [level |-> 0, sourceTaskIds |-> {sources[i]}, children |-> <<>>]]
      above(current, level) ==
        [n \in 1..(Len(current) + maxInputs - 1) \div maxInputs |->
           LET chunk == Chunk(current, n, maxInputs)
           IN [level |-> level, children |-> chunk,
               sourceTaskIds |-> UNION {chunk[i].sourceTaskIds : i \in DOMAIN chunk}]]
      current[level \in Nat] ==
        IF level = 0 THEN leaves
        ELSE IF Len(current[level - 1]) <= 1 THEN <<>>
        ELSE above(current[level - 1], level)
      height == CHOOSE h \in 0..Len(sources) : Len(current[h]) = 1
  IN [levels |-> [h \in 1..height |-> current[h]], root |-> current[height][1]]

-----------------------------------------------------------------------------
(* What the definitions above compute, said without their algorithms.      *)

(* The nodes at the end of a chain of n.                                   *)
LongestChain(nodes, edges) ==
  LET ends[n \in Nat] == IF n = 1 THEN nodes
        ELSE {t \in nodes : \E s \in ends[n - 1] : <<s, t>> \in edges}
  IN Largest({n \in 1..Cardinality(nodes) : ends[n] # {}})

(* The root stands for every source, each node for what its children stand *)
(* for and nothing twice, with no more children than it may have.          *)
ReducesAll(sources, maxInputs) ==
  LET tree == buildReductionTree(sources, maxInputs)
      Node(h, n) == tree.levels[h][n]
  IN /\ tree.root.sourceTaskIds = {sources[i] : i \in DOMAIN sources}
     /\ \A h \in DOMAIN tree.levels : \A n \in DOMAIN tree.levels[h] :
          /\ Len(Node(h, n).children) \in 1..maxInputs
          /\ \A i, j \in DOMAIN Node(h, n).children :
               i # j => Node(h, n).children[i].sourceTaskIds
                          \cap Node(h, n).children[j].sourceTaskIds = {}

==============================================================================
