----------------------------- MODULE TotalsProofs -----------------------------
(***************************************************************************)
(* What a sum over a finite set computes.  Total is a recursive function   *)
(* over the parts of a set that takes out one member at a time; it is      *)
(* shown that it is defined, that it does not matter in which order the    *)
(* members are taken, and that it adds up over disjoint parts.             *)
(*                                                                         *)
(* The induction is over data, which a theorem that takes a predicate as a *)
(* parameter cannot give here: each lemma instead forms the SET of the     *)
(* parts for which it is false, takes a smallest one, and shows there is   *)
(* none.                                                                   *)
(***************************************************************************)
EXTENDS Totals, FiniteSetTheorems, WellFoundedInduction, TLAPS

(* A set of numbers has a least one: induction over numbers without an      *)
(* operator to instantiate.                                                *)
LEMMA LeastNumber ==
  ASSUME NEW P \in SUBSET Nat, P # {}
  PROVE  \E m \in P : \A k \in P : m <= k
<1>1. IsWellFoundedOn(OpToRel(<, Nat), Nat)
  BY NatLessThanWellFounded
<1>2. PICK m \in P : \A k \in P : ~(<<k, m>> \in OpToRel(<, Nat))
  BY <1>1, WFMin
<1>3. \A k \in P : ~(k < m)
  BY <1>2 DEF OpToRel
<1> QED
  BY <1>3

(* Among sets of members of a finite set there is one that holds no other:  *)
(* induction over the parts of a finite set.                               *)
LEMMA Smallest ==
  ASSUME NEW S, IsFiniteSet(S), NEW P \in SUBSET SUBSET S, P # {}
  PROVE  \E T \in P : \A U \in P : U \subseteq T => U = T
<1>1. IsWellFoundedOn(StrictSubsetOrdering(S), FiniteSubsetsOf(S))
  BY FS_StrictSubsetOrderingWellFounded
<1>2. P \subseteq FiniteSubsetsOf(S)
  BY FS_Subset DEF FiniteSubsetsOf
<1>3. PICK T \in P : \A U \in P : ~(<<U, T>> \in StrictSubsetOrdering(S))
  BY <1>1, <1>2, WFMin
<1> QED
  BY <1>3 DEF StrictSubsetOrdering

(* A recursion over the parts of a finite set: where it does not stop, it   *)
(* goes on with a smaller part.                                            *)
Recursion(S, V, stops, base, next, step) ==
  /\ IsFiniteSet(S)
  /\ stops \subseteq SUBSET S
  /\ base \in [SUBSET S -> V]
  /\ next \in [SUBSET S -> SUBSET S]
  /\ \A T \in SUBSET S : T \notin stops => next[T] \subseteq T /\ next[T] # T
  /\ step \in [SUBSET S -> [V -> V]]

Solves(f, A, V, stops, base, next, step) ==
  /\ f \in [SUBSET A -> V]
  /\ \A T \in SUBSET A :
       f[T] = IF T \in stops THEN base[T] ELSE step[T][f[next[T]]]

(* Two solutions agree where both are defined.                              *)
LEMMA SolutionsAgree ==
  ASSUME NEW S, NEW V, NEW stops, NEW base, NEW next, NEW step,
         Recursion(S, V, stops, base, next, step),
         NEW A \in SUBSET S, NEW f, Solves(f, A, V, stops, base, next, step),
         NEW B \in SUBSET S, NEW g, Solves(g, B, V, stops, base, next, step),
         NEW T \in SUBSET A, T \subseteq B
  PROVE  f[T] = g[T]
<1> DEFINE P == {U \in SUBSET T : f[U] # g[U]}
<1>1. SUFFICES ASSUME P # {} PROVE FALSE
  BY T \in SUBSET T
<1>2. IsFiniteSet(S) /\ P \subseteq SUBSET S
  BY DEF Recursion
<1>3. PICK U \in P : \A W \in P : W \subseteq U => W = U
  <2> HIDE DEF P
  <2> QED
    BY <1>1, <1>2, Smallest
<1>4. U \subseteq A /\ U \subseteq B /\ U \subseteq S /\ f[U] # g[U]
  OBVIOUS
<1>5. CASE U \in stops
  BY <1>4, <1>5 DEF Solves
<1>6. CASE U \notin stops
  <2>1. next[U] \subseteq U /\ next[U] # U
    BY <1>4, <1>6 DEF Recursion
  <2>2. f[next[U]] = g[next[U]]
    BY <1>3, <1>4, <2>1
  <2> QED
    BY <1>4, <1>6, <2>2 DEF Solves
<1> QED
  BY <1>5, <1>6

(* A recursion has a solution.                                              *)
LEMMA RecursionIsDefined ==
  ASSUME NEW S, NEW V, NEW stops, NEW base, NEW next, NEW step,
         Recursion(S, V, stops, base, next, step)
  PROVE  \E f : Solves(f, S, V, stops, base, next, step)
<1> DEFINE Sol(f, A) == Solves(f, A, V, stops, base, next, step)
           P == {A \in SUBSET S : ~\E f : Sol(f, A)}
<1>1. SUFFICES ASSUME P # {} PROVE FALSE
  BY S \in SUBSET S
<1>2. IsFiniteSet(S) /\ P \in SUBSET SUBSET S
  BY DEF Recursion
<1>3. PICK A \in P : \A B \in P : B \subseteq A => B = A
  <2> HIDE DEF P
  <2> QED
    BY <1>1, <1>2, Smallest
<1>4. A \subseteq S /\ ~\E f : Sol(f, A)
  OBVIOUS
<1>5. \A B \in SUBSET A : B # A => \E f : Sol(f, B)
  BY <1>3, <1>4
<1> HIDE DEF Sol, P
<1>6. ASSUME NEW B \in SUBSET S, NEW C \in SUBSET B, NEW f, NEW g, Sol(f, B), Sol(g, C)
      PROVE  g[C] = f[C]
  <2>1. Solves(f, B, V, stops, base, next, step) /\ Solves(g, C, V, stops, base, next, step)
    BY <1>6 DEF Sol
  <2>2. C \in SUBSET S /\ C \in SUBSET C /\ C \subseteq B
    OBVIOUS
  <2> QED
    BY <2>1, <2>2, SolutionsAgree
<1> DEFINE G == [B \in SUBSET A |-> CHOOSE f : Sol(f, B)]
           last == IF A \in stops THEN base[A] ELSE step[A][G[next[A]][next[A]]]
           h == [B \in SUBSET A |-> IF B = A THEN last ELSE G[B][B]]
<1>7. ASSUME NEW B \in SUBSET A, B # A
      PROVE  Sol(G[B], B)
  <2>1. \E f : Sol(f, B)
    BY <1>5, <1>7
  <2>2. G[B] = CHOOSE f : Sol(f, B)
    OBVIOUS
  <2> QED
    BY <2>1, <2>2, Zenon
<1> HIDE DEF G
<1>8. ASSUME NEW B \in SUBSET A, B # A
      PROVE  G[B][B] \in V
  <2>1. G[B] \in [SUBSET B -> V]
    BY <1>7, <1>8 DEF Sol, Solves
  <2> QED
    BY <2>1
<1>9. A \notin stops => next[A] \in SUBSET A /\ next[A] # A
  BY <1>4 DEF Recursion
<1>10. last \in V
  BY <1>4, <1>8, <1>9 DEF Recursion
<1>11. h \in [SUBSET A -> V]
  BY <1>8, <1>10
<1>12. ASSUME NEW B \in SUBSET A
       PROVE  h[B] = IF B \in stops THEN base[B] ELSE step[B][h[next[B]]]
  <2>1. CASE B = A
    BY <1>9, <2>1
  <2>2. CASE B # A
    <3>1. Sol(G[B], B) /\ h[B] = G[B][B]
      BY <1>7, <2>2
    <3>2. CASE B \in stops
      BY <3>1, <3>2 DEF Sol, Solves
    <3>3. CASE B \notin stops
      <4>1. next[B] \subseteq B /\ next[B] # B
        BY <1>4, <3>3 DEF Recursion
      <4>2. next[B] # A /\ next[B] \in SUBSET A
        BY <4>1
      <4>3. Sol(G[next[B]], next[B])
        BY <1>7, <4>2
      <4>4. G[next[B]][next[B]] = G[B][next[B]]
        <5>1. PICK f, g, C : f = G[B] /\ g = G[C] /\ C = next[B]
          OBVIOUS
        <5>2. B \in SUBSET S /\ C \in SUBSET B /\ Sol(f, B) /\ Sol(g, C)
          BY <1>4, <3>1, <4>1, <4>3, <5>1
        <5>3. g[C] = f[C]
          BY <1>6, <5>2
        <5> QED
          BY <5>1, <5>3
      <4>5. h[next[B]] = G[next[B]][next[B]]
        BY <4>2
      <4>6. G[B][B] = step[B][G[B][next[B]]]
        BY <3>1, <3>3 DEF Sol, Solves
      <4> QED
        BY <3>1, <3>3, <4>4, <4>5, <4>6
    <3> QED
      BY <3>2, <3>3
  <2> QED
    BY <2>1, <2>2
<1>13. Sol(h, A)
  BY <1>11, <1>12 DEF Sol, Solves
<1> QED
  BY <1>4, <1>13

-----------------------------------------------------------------------------
First(T) == CHOOSE x \in T : TRUE

(* What Total makes of the parts of a set.                                  *)
Sums(f, w, S) ==
  /\ f \in [SUBSET S -> Nat]
  /\ f[{}] = 0
  /\ \A T \in SUBSET S : T # {} => f[T] = w[First(T)] + f[T \ {First(T)}]

(* The member that Total takes out of a set is one of it.                   *)
LEMMA FirstIsIn == \A T : T # {} => First(T) \in T
  BY DEF First

(* Numbers on a finite set have sums over all its parts: the recursion is   *)
(* over the parts, and each step leads to a smaller one.                    *)
LEMMA SumsExist ==
  ASSUME NEW S, IsFiniteSet(S), NEW w \in [S -> Nat]
  PROVE  \E f : Sums(f, w, S)
<1> DEFINE base == [T \in SUBSET S |-> 0]
           next == [T \in SUBSET S |-> T \ {First(T)}]
           step == [T \in SUBSET S |->
                      [v \in Nat |-> IF T = {} THEN v ELSE w[First(T)] + v]]
<1>1. Recursion(S, Nat, {{}}, base, next, step)
  <2>1. \A T \in SUBSET S : T # {} => next[T] \subseteq T /\ next[T] # T
    BY FirstIsIn
  <2>2. \A T \in SUBSET S : T # {} => w[First(T)] \in Nat
    BY FirstIsIn
  <2>3. step \in [SUBSET S -> [Nat -> Nat]]
    BY <2>2
  <2>4. base \in [SUBSET S -> Nat] /\ next \in [SUBSET S -> SUBSET S]
    OBVIOUS
  <2> HIDE DEF base, next, step
  <2> QED
    BY <2>1, <2>3, <2>4 DEF Recursion
<1>2. PICK f : Solves(f, S, Nat, {{}}, base, next, step)
  <2> HIDE DEF base, next, step
  <2> QED
    BY <1>1, RecursionIsDefined
<1>3. f \in [SUBSET S -> Nat] /\ f[{}] = 0
  BY <1>2 DEF Solves
<1>4. ASSUME NEW T \in SUBSET S, T # {}
      PROVE  f[T] = w[First(T)] + f[T \ {First(T)}]
  <2>1. f[T] = step[T][f[next[T]]]
    BY <1>2, <1>4 DEF Solves
  <2>2. next[T] = T \ {First(T)} /\ f[T \ {First(T)}] \in Nat
    BY <1>3
  <2> QED
    BY <1>4, <2>1, <2>2
<1> QED
  BY <1>3, <1>4 DEF Sums

(* Total is the sum over the whole domain: the function it defines is one   *)
(* that solves the recursion.                                              *)
LEMMA TotalIsSum ==
  ASSUME NEW S, IsFiniteSet(S), NEW w \in [S -> Nat]
  PROVE  \E f : Sums(f, w, S) /\ Total(w) = f[S]
<1> DEFINE Body(f) == [T \in SUBSET DOMAIN w |->
                         IF T = {} THEN 0
                         ELSE w[CHOOSE x \in T : TRUE] + f[T \ {CHOOSE x \in T : TRUE}]]
           sum == CHOOSE f : f = Body(f)
<1>1. Total(w) = sum[DOMAIN w]
  BY DEF Total
<1>2. PICK f : Sums(f, w, S)
  BY SumsExist
<1>3. f = Body(f)
  BY <1>2 DEF Sums, First
<1>4. sum = Body(sum)
  <2> HIDE DEF Body
  <2> QED
    BY <1>3, Zenon
<1> HIDE DEF sum
<1>5. /\ sum[{}] = 0
      /\ \A T \in SUBSET S : T # {} => sum[T] = w[First(T)] + sum[T \ {First(T)}]
  BY <1>4 DEF First
<1>6. sum \in [SUBSET S -> Nat]
  <2>1. ASSUME NEW T \in SUBSET S
        PROVE  sum[T] = f[T]
    <3> DEFINE P == {U \in SUBSET T : sum[U] # f[U]}
    <3>1. SUFFICES ASSUME P # {} PROVE FALSE
      BY T \in SUBSET T
    <3>2. P \in SUBSET SUBSET S
      OBVIOUS
    <3>3. PICK U \in P : \A W \in P : W \subseteq U => W = U
      <4> HIDE DEF P
      <4> QED
        BY <3>1, <3>2, Smallest
    <3>4. U \in SUBSET T /\ U \in SUBSET S /\ sum[U] # f[U]
      OBVIOUS
    <3>5. U # {}
      BY <1>2, <1>5, <3>4 DEF Sums
    <3>6. First(U) \in U /\ U \ {First(U)} \in SUBSET T
      BY <3>4, <3>5, FirstIsIn
    <3>7. sum[U \ {First(U)}] = f[U \ {First(U)}]
      BY <3>3, <3>6
    <3> QED
      BY <1>2, <1>5, <3>4, <3>5, <3>7 DEF Sums
  <2> QED
    BY <1>2, <1>4, <2>1 DEF Sums
<1>7. Sums(sum, w, S)
  BY <1>5, <1>6 DEF Sums
<1> QED
  BY <1>1, <1>7

(* The laws of addition that exchanging two weights needs.                  *)
LEMMA Rearranged ==
  \A i, j, k \in Nat : i + (j + k) = j + (i + k) /\ (i + j) + k = i + (j + k)
  OBVIOUS

(* Two sums agree on a part on which their weights agree.                   *)
LEMMA SumsAgree ==
  ASSUME NEW S, IsFiniteSet(S), NEW w, NEW f, Sums(f, w, S),
         NEW T, NEW v, NEW g, Sums(g, v, T),
         NEW A \in SUBSET S, A \subseteq T, \A x \in A : v[x] = w[x]
  PROVE  f[A] = g[A]
<1> DEFINE P == {U \in SUBSET A : f[U] # g[U]}
<1>1. SUFFICES ASSUME P # {} PROVE FALSE
  BY A \in SUBSET A
<1>2. P \in SUBSET SUBSET S
  OBVIOUS
<1>3. PICK U \in P : \A W \in P : W \subseteq U => W = U
  <2> HIDE DEF P
  <2> QED
    BY <1>1, <1>2, Smallest
<1>4. U \in SUBSET A /\ U \in SUBSET S /\ U \in SUBSET T /\ f[U] # g[U]
  OBVIOUS
<1>5. U # {}
  BY <1>4 DEF Sums
<1>6. First(U) \in U /\ U \ {First(U)} \in SUBSET A /\ U \ {First(U)} # U
  BY <1>4, <1>5, FirstIsIn
<1>7. f[U \ {First(U)}] = g[U \ {First(U)}]
  BY <1>3, <1>6
<1>8. w[First(U)] = v[First(U)]
  BY <1>4, <1>6
<1> QED
  BY <1>4, <1>5, <1>7, <1>8 DEF Sums

(* A sum may begin with any of the weights.                                 *)
LEMMA SumsTake ==
  ASSUME NEW S, IsFiniteSet(S), NEW w \in [S -> Nat], NEW f, Sums(f, w, S),
         NEW A \in SUBSET S, NEW x \in A
  PROVE  f[A] = w[x] + f[A \ {x}]
<1> DEFINE P == {U \in SUBSET A : \E y \in U : f[U] # w[y] + f[U \ {y}]}
<1>1. SUFFICES ASSUME P # {} PROVE FALSE
  BY A \in SUBSET A
<1>2. P \in SUBSET SUBSET S
  OBVIOUS
<1>3. PICK U \in P : \A W \in P : W \subseteq U => W = U
  <2> HIDE DEF P
  <2> QED
    BY <1>1, <1>2, Smallest
<1>4. U \in SUBSET A /\ U \in SUBSET S
  OBVIOUS
<1>5. PICK y \in U : f[U] # w[y] + f[U \ {y}]
  OBVIOUS
<1>6. \A W \in SUBSET U : W # U => \A z \in W : f[W] = w[z] + f[W \ {z}]
  BY <1>3, <1>4
<1> HIDE DEF P
<1>7. PICK c \in U : f[U] = w[c] + f[U \ {c}]
  BY <1>4, FirstIsIn DEF Sums
<1>8. c # y
  BY <1>5, <1>7
<1>9. f[U \ {c}] = w[y] + f[(U \ {c}) \ {y}]
  BY <1>6, <1>8
<1>10. f[U \ {y}] = w[c] + f[(U \ {y}) \ {c}]
  BY <1>6, <1>8
<1>11. (U \ {y}) \ {c} = (U \ {c}) \ {y}
  OBVIOUS
<1>12. /\ f[(U \ {c}) \ {y}] \in Nat /\ w[c] \in Nat /\ w[y] \in Nat
  BY <1>4 DEF Sums
<1> QED
  <2>1. PICK r \in Nat : r = f[(U \ {c}) \ {y}]
    BY <1>12
  <2>2. f[U] = w[c] + (w[y] + r) /\ w[y] + f[U \ {y}] = w[y] + (w[c] + r)
    BY <1>7, <1>9, <1>10, <1>11, <2>1
  <2>3. w[c] + (w[y] + r) = w[y] + (w[c] + r)
    BY <1>12, Rearranged
  <2> QED
    BY <1>5, <2>2, <2>3

-----------------------------------------------------------------------------
(* What Total yields.                                                       *)

(* The total of natural numbers is one.                                     *)
LEMMA TotalType ==
  ASSUME NEW S, IsFiniteSet(S), NEW w \in [S -> Nat]
  PROVE  Total(w) \in Nat
<1>1. PICK f : Sums(f, w, S) /\ Total(w) = f[S]
  BY TotalIsSum
<1> QED
  BY <1>1, S \in SUBSET S DEF Sums

(* Nothing adds up to zero.                                                 *)
LEMMA TotalEmpty ==
  ASSUME NEW w, DOMAIN w = {}, w \in [{} -> Nat]
  PROVE  Total(w) = 0
  BY TotalIsSum, FS_EmptySet DEF Sums

(* The total is that of the others and the weight left out.                 *)
LEMMA TotalTake ==
  ASSUME NEW S, IsFiniteSet(S), NEW w \in [S -> Nat], NEW x \in S,
         NEW v \in [S \ {x} -> Nat], \A y \in S \ {x} : v[y] = w[y]
  PROVE  Total(w) = w[x] + Total(v)
<1>1. PICK f : Sums(f, w, S) /\ Total(w) = f[S]
  BY TotalIsSum
<1>2. IsFiniteSet(S \ {x})
  BY FS_RemoveElement
<1>3. PICK g : Sums(g, v, S \ {x}) /\ Total(v) = g[S \ {x}]
  BY <1>2, TotalIsSum
<1>4. f[S] = w[x] + f[S \ {x}]
  BY <1>1, SumsTake, S \in SUBSET S
<1>5. f[S \ {x}] = g[S \ {x}]
  BY <1>1, <1>3, SumsAgree, S \ {x} \in SUBSET S, S \ {x} \subseteq S \ {x}
<1> QED
  BY <1>1, <1>3, <1>4, <1>5

(* The total of two parts of a set is the sum of theirs.                    *)
LEMMA TotalSplit ==
  ASSUME NEW S, IsFiniteSet(S), NEW w \in [S -> Nat], NEW A \in SUBSET S
  PROVE  Total(w) = Total([x \in A |-> w[x]]) + Total([x \in S \ A |-> w[x]])
<1> DEFINE Part(B) == [x \in B |-> w[x]]
           Q == {B \in SUBSET S : ~\A C \in SUBSET B :
                   Total(Part(B)) = Total(Part(C)) + Total(Part(B \ C))}
<1>1. w = Part(S)
  OBVIOUS
<1>2. SUFFICES Q = {}
  BY <1>1, S \in SUBSET S
<1>3. SUFFICES ASSUME Q # {} PROVE FALSE
  OBVIOUS
<1>4. PICK B \in Q : \A D \in Q : D \subseteq B => D = B
  <2>1. Q \in SUBSET SUBSET S
    OBVIOUS
  <2> HIDE DEF Q
  <2> QED
    BY <1>3, <2>1, Smallest
<1>5. B \in SUBSET S
  OBVIOUS
<1>6. PICK C \in SUBSET B : Total(Part(B)) # Total(Part(C)) + Total(Part(B \ C))
  OBVIOUS
<1>7. \A D \in SUBSET B : D # B =>
        \A E \in SUBSET D : Total(Part(D)) = Total(Part(E)) + Total(Part(D \ E))
  BY <1>4, <1>5
<1> HIDE DEF Q
<1>8. \A D \in SUBSET S : IsFiniteSet(D) /\ Part(D) \in [D -> Nat] /\ Total(Part(D)) \in Nat
  BY FS_Subset, TotalType
<1>9. ASSUME NEW D \in SUBSET S, NEW x \in D
      PROVE  Total(Part(D)) = w[x] + Total(Part(D \ {x}))
  <2>1. IsFiniteSet(D) /\ Part(D) \in [D -> Nat] /\ Part(D \ {x}) \in [D \ {x} -> Nat]
    BY FS_Subset
  <2>2. Total(Part(D)) = Part(D)[x] + Total(Part(D \ {x}))
    BY <2>1, TotalTake
  <2> QED
    BY <2>2
<1> HIDE DEF Part
<1>10. CASE C = {}
  <2>1. Total(Part(C)) = 0
    BY <1>10, TotalEmpty DEF Part
  <2>2. B \ C = B
    BY <1>10
  <2> QED
    BY <1>5, <1>6, <1>8, <2>1, <2>2
<1>11. CASE C # {}
  <2>1. PICK x \in C : TRUE
    BY <1>11
  <2>2. Total(Part(C)) = w[x] + Total(Part(C \ {x}))
    BY <1>5, <1>9, <2>1
  <2>3. Total(Part(B)) = w[x] + Total(Part(B \ {x}))
    BY <1>5, <1>9, <2>1
  <2>4. Total(Part(B \ {x})) = Total(Part(C \ {x})) + Total(Part((B \ {x}) \ (C \ {x})))
    BY <1>7, <2>1, B \ {x} \in SUBSET B, B \ {x} # B, C \ {x} \in SUBSET (B \ {x})
  <2>5. (B \ {x}) \ (C \ {x}) = B \ C
    BY <2>1
  <2>6. /\ Total(Part(C \ {x})) \in Nat /\ Total(Part(B \ C)) \in Nat /\ w[x] \in Nat
    BY <1>5, <1>8, <2>1
  <2> QED
    <3>1. PICK i \in Nat, j \in Nat : /\ i = Total(Part(C \ {x}))
                                     /\ j = Total(Part(B \ C))
      BY <2>6
    <3>2. /\ Total(Part(B)) = w[x] + (i + j)
          /\ Total(Part(C)) + Total(Part(B \ C)) = (w[x] + i) + j
      BY <2>2, <2>3, <2>4, <2>5, <3>1
    <3>3. w[x] + (i + j) = (w[x] + i) + j
      BY <2>6, Rearranged
    <3> QED
      BY <1>6, <3>2, <3>3
<1> QED
  BY <1>10, <1>11

(* A part weighs no more than the whole.                                    *)
LEMMA TotalOfPart ==
  ASSUME NEW S, IsFiniteSet(S), NEW w \in [S -> Nat], NEW A \in SUBSET S
  PROVE  Total([x \in A |-> w[x]]) <= Total(w)
<1>1. IsFiniteSet(A) /\ IsFiniteSet(S \ A)
  BY FS_Subset
<1>2. Total([x \in A |-> w[x]]) \in Nat /\ Total([x \in S \ A |-> w[x]]) \in Nat
  BY <1>1, TotalType
<1> QED
  BY <1>2, TotalSplit

(* Weights that are bounded have a bounded total.                           *)
LEMMA TotalBound ==
  ASSUME NEW S, IsFiniteSet(S), NEW w \in [S -> Nat], NEW b \in Nat, \A x \in S : w[x] <= b
  PROVE  Total(w) <= b * Cardinality(S)
<1> DEFINE Part(B) == [x \in B |-> w[x]]
           Q == {B \in SUBSET S : ~(Total(Part(B)) <= b * Cardinality(B))}
<1>1. w = Part(S)
  OBVIOUS
<1>2. SUFFICES ASSUME Q # {} PROVE FALSE
  BY <1>1, S \in SUBSET S
<1>3. PICK B \in Q : \A D \in Q : D \subseteq B => D = B
  <2>1. Q \in SUBSET SUBSET S
    OBVIOUS
  <2> HIDE DEF Q
  <2> QED
    BY <1>2, <2>1, Smallest
<1>4. B \in SUBSET S /\ ~(Total(Part(B)) <= b * Cardinality(B))
  OBVIOUS
<1>5. \A D \in SUBSET B : D # B => Total(Part(D)) <= b * Cardinality(D)
  BY <1>3, <1>4
<1> HIDE DEF Q
<1>6. IsFiniteSet(B) /\ Part(B) \in [B -> Nat]
  BY <1>4, FS_Subset
<1>7. CASE B = {}
  <2>1. Total(Part(B)) = 0
    BY <1>7, TotalEmpty
  <2>2. b * Cardinality(B) = 0
    BY <1>7, FS_EmptySet
  <2> QED
    BY <1>4, <2>1, <2>2
<1>8. CASE B # {}
  <2>1. PICK x \in B : TRUE
    BY <1>8
  <2> DEFINE n == Cardinality(B \ {x})
  <2>2. IsFiniteSet(B \ {x}) /\ Cardinality(B) = n + 1 /\ n \in Nat
    <3>1. /\ IsFiniteSet(B \ {x})
          /\ Cardinality(B \ {x}) = Cardinality(B) - 1
      BY <1>6, <2>1, FS_RemoveElement
    <3>2. Cardinality(B) \in Nat /\ Cardinality(B \ {x}) \in Nat
      BY <1>6, <3>1, FS_CardinalityType
    <3> QED
      BY <3>1, <3>2
  <2>3. Part(B \ {x}) \in [B \ {x} -> Nat]
    BY <1>4
  <2>4. Total(Part(B)) = w[x] + Total(Part(B \ {x}))
    <3>1. Total(Part(B)) = Part(B)[x] + Total(Part(B \ {x}))
      BY <1>6, <2>1, <2>3, TotalTake
    <3> QED
      BY <2>1, <3>1
  <2>5. Total(Part(B \ {x})) <= b * n
    BY <1>5, <2>1
  <2>6. Total(Part(B \ {x})) \in Nat /\ w[x] \in Nat /\ w[x] <= b
    BY <1>4, <2>1, <2>2, <2>3, TotalType
  <2>7. b * (n + 1) = b * n + b /\ b * n \in Nat
    BY <2>2
  <2> HIDE DEF n, Part
  <2> QED
    BY <1>4, <2>2, <2>4, <2>5, <2>6, <2>7
<1> QED
  BY <1>7, <1>8

(* The total of two weights is the sum of their totals.                    *)
LEMMA TotalAdds ==
  ASSUME NEW S, IsFiniteSet(S), NEW w \in [S -> Nat], NEW v \in [S -> Nat]
  PROVE  Total([x \in S |-> w[x] + v[x]]) = Total(w) + Total(v)
<1> DEFINE u == [x \in S |-> w[x] + v[x]]
<1>1. u \in [S -> Nat]
  OBVIOUS
<1>2. PICK f : Sums(f, w, S) /\ Total(w) = f[S]
  BY TotalIsSum
<1>3. PICK g : Sums(g, v, S) /\ Total(v) = g[S]
  BY TotalIsSum
<1>4. PICK k : Sums(k, u, S) /\ Total(u) = k[S]
  <2> HIDE DEF u
  <2> QED
    BY <1>1, TotalIsSum
<1> DEFINE h == [T \in SUBSET S |-> f[T] + g[T]]
<1>5. Sums(h, u, S)
  <2>1. h \in [SUBSET S -> Nat] /\ h[{}] = 0
    BY <1>2, <1>3 DEF Sums
  <2>2. ASSUME NEW T \in SUBSET S, T # {}
        PROVE  h[T] = u[First(T)] + h[T \ {First(T)}]
    <3>1. First(T) \in T /\ First(T) \in S /\ T \ {First(T)} \in SUBSET S
      BY <2>2, FirstIsIn
    <3> DEFINE x == First(T)
               R == T \ {First(T)}
    <3>2. f[T] = w[x] + f[R] /\ g[T] = v[x] + g[R]
      BY <1>2, <1>3, <2>2 DEF Sums
    <3>3. f[R] \in Nat /\ g[R] \in Nat /\ w[x] \in Nat /\ v[x] \in Nat
      BY <1>2, <1>3, <3>1 DEF Sums
    <3>4. h[T] = f[T] + g[T] /\ h[R] = f[R] + g[R] /\ u[x] = w[x] + v[x]
      BY <3>1
    <3> HIDE DEF h, u, x, R
    <3>5. h[T] = u[x] + h[R]
      BY <3>2, <3>3, <3>4
    <3> QED
      BY <3>5 DEF x, R
  <2> HIDE DEF h, u
  <2> QED
    BY <2>1, <2>2 DEF Sums
<1>6. k[S] = h[S]
  <2> HIDE DEF h, u
  <2> QED
    BY <1>4, <1>5, SumsAgree
<1> QED
  BY <1>2, <1>3, <1>4, <1>6

(* What weighs nothing may be left out.                                    *)
LEMMA TotalOfWeighted ==
  ASSUME NEW S, IsFiniteSet(S), NEW w \in [S -> Nat], NEW A \in SUBSET S,
         \A x \in S \ A : w[x] = 0
  PROVE  Total([x \in A |-> w[x]]) = Total(w)
<1> DEFINE v == [x \in S \ A |-> w[x]]
           p == [x \in A |-> w[x]]
<1>1. Total(w) = Total(p) + Total(v)
  BY TotalSplit
<1>2. v \in [S \ A -> Nat] /\ p \in [A -> Nat] /\ \A x \in S \ A : v[x] <= 0
  OBVIOUS
<1>3. IsFiniteSet(S \ A) /\ IsFiniteSet(A)
  BY FS_Subset
<1> HIDE DEF v, p
<1>4. Total(v) <= 0 * Cardinality(S \ A)
  BY <1>2, <1>3, TotalBound
<1>5. Total(v) \in Nat /\ Total(p) \in Nat /\ Cardinality(S \ A) \in Nat
  BY <1>2, <1>3, TotalType, FS_CardinalityType
<1>6. Total(v) = 0
  BY <1>4, <1>5
<1>7. Total(w) = Total(p)
  BY <1>1, <1>5, <1>6
<1> QED
  BY <1>7 DEF p

(* The largest of some numbers is one of them, and within their limit.      *)
LEMMA LargestBound ==
  ASSUME NEW S \in SUBSET Int, NEW limit \in Nat, \A x \in S : x <= limit
  PROVE  /\ Largest(S) <= limit
         /\ S # {} => Largest(S) \in S /\ \A x \in S : x <= Largest(S)
<1>1. CASE S = {}
  BY <1>1 DEF Largest
<1>2. CASE S # {}
  <2> DEFINE below == {limit - x : x \in S}
  <2>1. below \in SUBSET Nat /\ below # {}
    <3>1. \A x \in S : limit - x \in Nat
      <4> SUFFICES ASSUME NEW x \in S PROVE limit - x \in Nat
        OBVIOUS
      <4>1. x \in Int /\ x <= limit
        OBVIOUS
      <4> QED
        BY <4>1
    <3>2. PICK x \in S : TRUE
      BY <1>2
    <3>3. limit - x \in below
      BY <3>2
    <3> QED
      BY <3>1, <3>3
  <2>2. PICK m \in below : \A k \in below : m <= k
    <3> HIDE DEF below
    <3> QED
      BY <2>1, LeastNumber
  <2>3. PICK y \in S : m = limit - y
    OBVIOUS
  <2>4. \A x \in S : x <= y
    <3> SUFFICES ASSUME NEW x \in S PROVE x <= y
      OBVIOUS
    <3>1. limit - y <= limit - x
      BY <2>2, <2>3
    <3> QED
      BY <3>1
  <2>5. Largest(S) \in S /\ \A x \in S : x <= Largest(S)
    BY <1>2, <2>4 DEF Largest
  <2> QED
    BY <2>5
<1> QED
  BY <1>1, <1>2

(* A sum does not depend on the names of what is summed up.                *)
LEMMA TotalRenamed ==
  ASSUME NEW S, IsFiniteSet(S), NEW T, IsFiniteSet(T), NEW name \in [S -> T],
         \A x, y \in S : name[x] = name[y] => x = y,
         \A t \in T : \E x \in S : name[x] = t,
         NEW v \in [T -> Nat], NEW w \in [S -> Nat], \A x \in S : w[x] = v[name[x]]
  PROVE  Total(w) = Total(v)
<1> DEFINE To(A) == {name[x] : x \in A}
           part(A) == [x \in A |-> w[x]]
           image(A) == [t \in To(A) |-> v[t]]
           P == {A \in SUBSET S : Total(part(A)) # Total(image(A))}
<1>1. SUFFICES ASSUME P # {} PROVE FALSE
  <2>1. S \notin P
    BY <1>1
  <2>2. To(S) = T
    OBVIOUS
  <2>3. part(S) = w /\ image(S) = v
    BY <2>2
  <2> HIDE DEF part, image, To
  <2> QED
    BY <2>1, <2>3
<1>2. PICK A \in P : \A U \in P : U \subseteq A => U = A
  <2>1. P \in SUBSET SUBSET S
    OBVIOUS
  <2> HIDE DEF P
  <2> QED
    BY <1>1, <2>1, Smallest
<1>3. A \in SUBSET S /\ Total(part(A)) # Total(image(A))
  OBVIOUS
<1>4. ASSUME NEW B \in SUBSET S
      PROVE  /\ IsFiniteSet(B) /\ IsFiniteSet(To(B)) /\ To(B) \in SUBSET T
             /\ part(B) \in [B -> Nat] /\ image(B) \in [To(B) -> Nat]
  <2>1. To(B) \in SUBSET T
    OBVIOUS
  <2>2. IsFiniteSet(B) /\ IsFiniteSet(To(B))
    <3> HIDE DEF To
    <3> QED
      BY <2>1, FS_Subset
  <2> QED
    BY <2>1, <2>2
<1>5. CASE A = {}
  <2>1. To({}) = {}
    OBVIOUS
  <2>2. DOMAIN part(A) = {} /\ DOMAIN image(A) = {}
    BY <1>5, <2>1
  <2>3. part(A) \in [{} -> Nat] /\ image(A) \in [{} -> Nat]
    BY <1>4, <1>5, <2>1
  <2>4. Total(part(A)) = 0 /\ Total(image(A)) = 0
    <3> HIDE DEF part, image
    <3> QED
      BY <2>2, <2>3, TotalEmpty
  <2> QED
    BY <1>3, <2>4
<1>6. CASE A # {}
  <2>1. PICK x \in A : TRUE
    BY <1>6
  <2> DEFINE B == A \ {x}
             t == name[x]
  <2>2. B \in SUBSET S /\ B \subseteq A /\ B # A /\ x \in S /\ t \in To(A)
    BY <1>3
  <2>3. Total(part(B)) = Total(image(B))
    <3> HIDE DEF part, image, To, B
    <3> QED
      BY <1>2, <2>2
  <2>4. To(B) = To(A) \ {t}
    BY <1>3, <2>2
  <2>5. Total(part(A)) = w[x] + Total(part(B))
    <3>1. part(A) \in [A -> Nat]
      BY <1>3, <1>4
    <3>2. part(B) \in [A \ {x} -> Nat]
      BY <1>3, <1>4
    <3>3. \A y \in A \ {x} : part(B)[y] = part(A)[y]
      BY <1>3
    <3>4. part(A)[x] = w[x]
      BY <1>3
    <3>5. IsFiniteSet(A)
      BY <1>3, <1>4
    <3> HIDE DEF part, B, image, To, P, t
    <3>6. Total(part(A)) = part(A)[x] + Total(part(B))
      BY <3>1, <3>2, <3>3, <3>5, SMTT(40), TotalTake
    <3> QED
      BY <3>4, <3>6
  <2>6. Total(image(A)) = v[t] + Total(image(B))
    <3>1. image(A) \in [To(A) -> Nat]
      BY <1>3, <1>4
    <3>2. image(B) \in [To(A) \ {t} -> Nat]
      <4>1. image(B) \in [To(B) -> Nat]
        BY <1>4, <2>2
      <4> HIDE DEF image, To, B, t
      <4> QED
        BY <4>1, <2>4
    <3>3. \A y \in To(A) \ {t} : image(B)[y] = image(A)[y]
      <4>1. \A y \in To(B) : image(B)[y] = v[y]
        OBVIOUS
      <4>2. \A y \in To(A) : image(A)[y] = v[y]
        OBVIOUS
      <4> HIDE DEF image, To, B, t
      <4> QED
        BY <2>4, <4>1, <4>2
    <3>4. image(A)[t] = v[t]
      BY <2>2
    <3>5. IsFiniteSet(To(A))
      BY <1>3, <1>4
    <3> HIDE DEF part, B, image, To, P, t
    <3>6. Total(image(A)) = image(A)[t] + Total(image(B))
      BY <2>2, <3>1, <3>2, <3>3, <3>5, SMTT(40), TotalTake
    <3> QED
      BY <3>4, <3>6
  <2>7. w[x] = v[t]
    BY <2>2
  <2> HIDE DEF part, image, B, t
  <2> QED
    BY <1>3, <2>3, <2>5, <2>6, <2>7
<1> QED
  BY <1>5, <1>6

==============================================================================
