---------------------------- MODULE ReceiptProofs ----------------------------
(***************************************************************************)
(* Proofs about the receipt of one run: that it reaches the feed of its    *)
(* Session, whatever the tree of children, the order of their events and   *)
(* the Sessions that were read; and that a client of the feed shows the    *)
(* Session that is selected and only what the Host's feed had, for any     *)
(* number of Sessions, runs, selections, lost carriers and restarts of the *)
(* companion; and that the token samples and accounts of receipts are such *)
(* as the feed asks for, for logs of any length and any number of rows.    *)
(***************************************************************************)
EXTENDS ReceiptParticipation, ReceiptClient, ReceiptTokens, TotalsProofs, SequenceTheorems

----------------------------------------------------------------------------
(* Recursion along a tree                                                  *)

(* A recursion in which the value at a member of D depends on the values   *)
(* at those above it, and V holds the values it may have.                  *)
Ascending(D, Above) ==
  /\ Above \in [D -> SUBSET D]
  /\ \A S \in SUBSET D : S # {} => \E x \in S : Above[x] \cap S = {}

(* The values of f on A.                                                   *)
Of(f, A) == [y \in A |-> f[y]]

(* One step of the recursion stays within V.                               *)
Steps(G, D, Above, V) ==
  \A x \in D : \A h : h = Of(h, Above[x]) /\ (\A y \in Above[x] : h[y] \in V[y]) => G[<<x, h>>] \in V[x]

(* A function that the recursion gives on a part of D that reaches up to   *)
(* the top.                                                                *)
Partial(f, A, G, D, Above, V) ==
  /\ A \in SUBSET D /\ \A x \in A : Above[x] \subseteq A
  /\ f = Of(f, A)
  /\ \A x \in A : f[x] = G[<<x, Of(f, Above[x])>>] /\ f[x] \in V[x]

(* Two such functions agree where both are given.                          *)
LEMMA PartialsAgree ==
  ASSUME NEW D, NEW Above, NEW V, NEW G, Ascending(D, Above),
         NEW A, NEW f, Partial(f, A, G, D, Above, V),
         NEW B, NEW g, Partial(g, B, G, D, Above, V),
         NEW x \in A, x \in B
  PROVE  f[x] = g[x]
<1> DEFINE S == {y \in A : y \in B /\ f[y] # g[y]}
<1>1. SUFFICES ASSUME S # {} PROVE FALSE
  OBVIOUS
<1>2. S \in SUBSET D
  BY DEF Partial
<1>3. PICK y \in S : Above[y] \cap S = {}
  BY <1>1, <1>2 DEF Ascending
<1>4. Above[y] \subseteq A /\ Above[y] \subseteq B
  BY DEF Partial
<1>5. \A z \in Above[y] : f[z] = g[z]
  BY <1>3, <1>4
<1>6. Of(f, Above[y]) = Of(g, Above[y])
  BY <1>5 DEF Of
<1> QED
  BY <1>6 DEF Partial

(* The recursion defines a function on the whole of D, with its values in  *)
(* V.                                                                      *)
LEMMA TreeRecursion ==
  ASSUME NEW D, NEW Above, NEW V, NEW G, Ascending(D, Above), Steps(G, D, Above, V)
  PROVE  \E f : /\ f = [x \in D |-> G[<<x, Of(f, Above[x])>>]]
                /\ \A x \in D : f[x] \in V[x]
<1> DEFINE P(f, A) == Partial(f, A, G, D, Above, V)
           U == {x \in D : \E A \in SUBSET D : \E f : P(f, A) /\ x \in A}
           value(x) == CHOOSE v : \E A \in SUBSET D : \E f : P(f, A) /\ x \in A /\ v = f[x]
           u == [x \in U |-> value(x)]
<1>1. ASSUME NEW A \in SUBSET D, NEW f, P(f, A), NEW x \in A
      PROVE  x \in U /\ u[x] = f[x]
  <2>1. x \in U
    BY <1>1
  <2>2. \E v : \E B \in SUBSET D : \E g : P(g, B) /\ x \in B /\ v = g[x]
    BY <1>1
  <2>3. PICK B, g : B \in SUBSET D /\ P(g, B) /\ x \in B /\ value(x) = g[x]
    BY <2>2
  <2>4. f[x] = g[x]
    BY <1>1, <2>3, PartialsAgree
  <2> QED
    BY <2>1, <2>3, <2>4
<1>2. P(u, U)
  <2>1. U \in SUBSET D
    OBVIOUS
  <2>2. ASSUME NEW x \in U
        PROVE  Above[x] \subseteq U /\ u[x] = G[<<x, Of(u, Above[x])>>] /\ u[x] \in V[x]
    <3>1. PICK A, f : A \in SUBSET D /\ P(f, A) /\ x \in A
      OBVIOUS
    <3>2. Above[x] \subseteq A /\ f[x] = G[<<x, Of(f, Above[x])>>] /\ f[x] \in V[x]
      BY <3>1 DEF Partial
    <3> HIDE DEF U, u, P
    <3>3. \A y \in A : y \in U /\ u[y] = f[y]
      BY <1>1, <3>1
    <3>4. Of(u, Above[x]) = Of(f, Above[x])
      BY <3>2, <3>3 DEF Of
    <3> QED
      BY <3>1, <3>2, <3>3, <3>4
  <2>3. u = Of(u, U)
    BY DEF Of
  <2> HIDE DEF U, u
  <2> QED
    BY <2>1, <2>2, <2>3 DEF Partial
<1>3. U = D
  <2>1. SUFFICES ASSUME D \ U # {} PROVE FALSE
    OBVIOUS
  <2>2. PICK x \in D \ U : Above[x] \cap (D \ U) = {}
    <3>1. (D \ U) \in SUBSET D
      OBVIOUS
    <3> HIDE DEF U
    <3> QED
      BY <2>1, <3>1 DEF Ascending
  <2>3. x \in D /\ x \notin U /\ Above[x] \subseteq U /\ U \subseteq D
    BY <2>2 DEF Ascending
  <2> DEFINE W == U \cup {x}
             w == [y \in W |-> IF y = x THEN G[<<x, Of(u, Above[x])>>] ELSE u[y]]
  <2> HIDE DEF U, u
  <2>4. /\ \A y \in U : Above[y] \subseteq U
        /\ \A y \in U : u[y] = G[<<y, Of(u, Above[y])>>] /\ u[y] \in V[y]
    BY <1>2 DEF Partial
  <2>5. G[<<x, Of(u, Above[x])>>] \in V[x]
    <3> DEFINE h == Of(u, Above[x])
    <3>1. h = Of(h, Above[x]) /\ \A y \in Above[x] : h[y] \in V[y]
      BY <2>3, <2>4 DEF Of
    <3> HIDE DEF h
    <3>2. G[<<x, h>>] \in V[x]
      BY <3>1, <2>3 DEF Steps
    <3> QED
      BY <3>2 DEF h
  <2>6. W \in SUBSET D /\ \A y \in W : Above[y] \subseteq W
    BY <2>3, <2>4
  <2>7. \A y \in W : Of(w, Above[y]) = Of(u, Above[y])
    BY <2>3, <2>4 DEF Of
  <2>8. \A y \in W : w[y] = G[<<y, Of(w, Above[y])>>] /\ w[y] \in V[y]
    <3> TAKE y \in W
    <3>1. CASE y = x
      BY <3>1, <2>5, <2>7
    <3>2. CASE y # x
      BY <3>2, <2>4, <2>7
    <3> QED
      BY <3>1, <3>2
  <2>9. w = Of(w, W)
    BY DEF Of
  <2> HIDE DEF W, w
  <2>10. P(w, W)
    BY <2>6, <2>8, <2>9 DEF Partial
  <2>11. x \in W
    BY DEF W
  <2> QED
    BY <2>10, <2>11, <2>6, <2>3 DEF U
<1> HIDE DEF U, u
<1>4. u = [x \in D |-> u[x]] /\ \A x \in D : u[x] = G[<<x, Of(u, Above[x])>>] /\ u[x] \in V[x]
  BY <1>2, <1>3 DEF Partial, Of
<1> QED
  BY <1>4

----------------------------------------------------------------------------
(* The tree of children                                                    *)

(* What a function on those above a member may be given to.                *)
Args(D, Above, V) == D \X UNION {[Above[x] -> UNION {V[y] : y \in D}] : x \in D}

(* What those above a member are given to is such an argument.             *)
LEMMA IsArgument ==
  ASSUME NEW D, NEW Above, NEW V, NEW x \in D, NEW h, Above[x] \subseteq D,
         h = Of(h, Above[x]), \A y \in Above[x] : h[y] \in V[y]
  PROVE  <<x, h>> \in Args(D, Above, V)
<1>1. h \in [Above[x] -> UNION {V[y] : y \in D}]
  BY DEF Of
<1>2. h \in UNION {[Above[z] -> UNION {V[y] : y \in D}] : z \in D}
  BY <1>1
<1> QED
  BY <1>2 DEF Args

(* The Session of the run and every child below it.                        *)
Tree == Children \cup {Parent}

(* What stands right above a member of the tree.                           *)
AboveOf == [c \in Tree |-> IF c = Parent THEN {} ELSE {ParentOf[c]}]

(* From any set of children one comes out at its upper end.                *)
LEMMA TreeAscends == Ascending(Tree, AboveOf)
<1>1. AboveOf \in [Tree -> SUBSET Tree]
  BY TreeAssumption DEF AboveOf, Tree
<1>2. ASSUME NEW S \in SUBSET Tree, S # {} PROVE \E x \in S : AboveOf[x] \cap S = {}
  <2>1. CASE Parent \in S
    BY <2>1 DEF AboveOf, Tree
  <2>2. CASE Parent \notin S
    <3>1. S \in SUBSET Children
      BY <2>2 DEF Tree
    <3>2. PICK c \in S : ParentOf[c] \notin S
      BY <3>1, <1>2, TreeAssumption
    <3>3. AboveOf[c] = {ParentOf[c]}
      BY <3>1, <3>2, TreeAssumption DEF AboveOf, Tree
    <3> QED
      BY <3>2, <3>3
  <2> QED
    BY <2>1, <2>2
<1> QED
  BY <1>1, <1>2 DEF Ascending

(* A set of children one of which is not below another.                    *)
LEMMA Uppermost ==
  ASSUME NEW S \in SUBSET Tree, S # {}
  PROVE  \E c \in S : c = Parent \/ (c \in Children /\ ParentOf[c] \in Tree \ S)
<1>1. PICK c \in S : AboveOf[c] \cap S = {}
  BY TreeAscends DEF Ascending
<1> QED
  BY <1>1, TreeAssumption DEF AboveOf, Tree

(* The direct child that a child is below.                                 *)
Top[c \in Tree] ==
  IF c = Parent THEN Parent ELSE IF ParentOf[c] = Parent THEN c ELSE Top[ParentOf[c]]

(* Every child is below a direct child, or is one (rootRecord climbs to    *)
(* it).                                                                    *)
LEMMA TopIs ==
  \A c \in Tree : /\ Top[c] = IF c = Parent THEN Parent
                              ELSE IF ParentOf[c] = Parent THEN c ELSE Top[ParentOf[c]]
                  /\ Top[c] \in Tree
<1> DEFINE Body(f) == [c \in Tree |-> IF c = Parent THEN Parent
                                      ELSE IF ParentOf[c] = Parent THEN c ELSE f[ParentOf[c]]]
           V == [c \in Tree |-> Tree]
           G == [p \in Args(Tree, AboveOf, V) |->
                   IF p[1] = Parent THEN Parent
                   ELSE IF ParentOf[p[1]] = Parent THEN p[1] ELSE p[2][ParentOf[p[1]]]]
<1>1. \A x \in Tree : AboveOf[x] \subseteq Tree
  BY TreeAscends DEF Ascending
<1>2. ASSUME NEW x \in Tree, NEW h, h = Of(h, AboveOf[x]), \A y \in AboveOf[x] : h[y] \in Tree
      PROVE  /\ G[<<x, h>>] = IF x = Parent THEN Parent
                              ELSE IF ParentOf[x] = Parent THEN x ELSE h[ParentOf[x]]
             /\ G[<<x, h>>] \in Tree
  <2>1. \A y \in AboveOf[x] : h[y] \in V[y]
    BY <1>1, <1>2
  <2>2. <<x, h>> \in Args(Tree, AboveOf, V)
    <3> HIDE DEF V
    <3> QED
      BY <1>1, <1>2, <2>1, IsArgument
  <2>3. G[<<x, h>>] = IF x = Parent THEN Parent
                      ELSE IF ParentOf[x] = Parent THEN x ELSE h[ParentOf[x]]
    BY <2>2
  <2>4. x # Parent => ParentOf[x] \in AboveOf[x]
    BY DEF AboveOf
  <2> HIDE DEF G
  <2> QED
    BY <2>3, <2>4, <1>2 DEF Tree
<1> HIDE DEF G
<1>3. PICK f : /\ f = [x \in Tree |-> G[<<x, Of(f, AboveOf[x])>>]]
               /\ \A x \in Tree : f[x] \in V[x]
  <2>1. Steps(G, Tree, AboveOf, V)
    BY <1>1, <1>2 DEF Steps
  <2> HIDE DEF V
  <2> QED
    BY <2>1, TreeAscends, TreeRecursion
<1>4. f = Body(f)
  <2>1. ASSUME NEW x \in Tree PROVE f[x] = Body(f)[x]
    <3> DEFINE h == Of(f, AboveOf[x])
    <3>1. h = Of(h, AboveOf[x]) /\ \A y \in AboveOf[x] : h[y] = f[y] /\ h[y] \in Tree
      BY <1>1, <1>3 DEF Of
    <3>2. f[x] = G[<<x, h>>]
      BY <1>3
    <3>3. x # Parent => ParentOf[x] \in AboveOf[x]
      BY DEF AboveOf
    <3> HIDE DEF h
    <3> QED
      BY <1>2, <3>1, <3>2, <3>3
  <2> QED
    BY <2>1, <1>3
<1>5. Top = Body(Top)
  <2>1. Top = CHOOSE g : g = Body(g)
    BY DEF Top
  <2> HIDE DEF Body
  <2> QED
    BY <1>4, <2>1, Zenon
<1>6. \A c \in Tree : Top[c] = IF c = Parent THEN Parent
                               ELSE IF ParentOf[c] = Parent THEN c ELSE Top[ParentOf[c]]
  BY <1>5, Zenon
<1>7. ASSUME {c \in Tree : Top[c] \notin Tree} # {} PROVE FALSE
  <2>1. PICK c \in {d \in Tree : Top[d] \notin Tree} :
             c = Parent \/ (c \in Children /\ ParentOf[c] \in Tree \ {d \in Tree : Top[d] \notin Tree})
    BY <1>7, Uppermost
  <2> QED
    BY <2>1, <1>6 DEF Tree
<1> QED
  BY <1>6, <1>7

(* The depth of a child is a number.                                       *)
LEMMA DepthType ==
  \A c \in Tree : /\ Depth(c) \in Nat
                  /\ Depth(c) = IF c = Parent THEN 0 ELSE Depth(ParentOf[c]) + 1
<1> DEFINE Body(f) == [c \in Tree |-> IF c = Parent THEN 0 ELSE f[ParentOf[c]] + 1]
           V == [c \in Tree |-> Nat]
           G == [p \in Args(Tree, AboveOf, V) |->
                   IF p[1] = Parent THEN 0 ELSE p[2][ParentOf[p[1]]] + 1]
           depth == CHOOSE g : g = Body(g)
<1>1. \A x \in Tree : AboveOf[x] \subseteq Tree
  BY TreeAscends DEF Ascending
<1>2. ASSUME NEW x \in Tree, NEW h, h = Of(h, AboveOf[x]), \A y \in AboveOf[x] : h[y] \in Nat
      PROVE  /\ G[<<x, h>>] = IF x = Parent THEN 0 ELSE h[ParentOf[x]] + 1
             /\ G[<<x, h>>] \in Nat
  <2>1. \A y \in AboveOf[x] : h[y] \in V[y]
    BY <1>1, <1>2
  <2>2. <<x, h>> \in Args(Tree, AboveOf, V)
    <3> HIDE DEF V
    <3> QED
      BY <1>1, <1>2, <2>1, IsArgument
  <2>3. G[<<x, h>>] = IF x = Parent THEN 0 ELSE h[ParentOf[x]] + 1
    BY <2>2
  <2>4. x # Parent => ParentOf[x] \in AboveOf[x]
    BY DEF AboveOf
  <2> HIDE DEF G
  <2> QED
    BY <2>3, <2>4, <1>2
<1> HIDE DEF G
<1>3. PICK f : /\ f = [x \in Tree |-> G[<<x, Of(f, AboveOf[x])>>]]
               /\ \A x \in Tree : f[x] \in V[x]
  <2>1. Steps(G, Tree, AboveOf, V)
    BY <1>1, <1>2 DEF Steps
  <2> HIDE DEF V
  <2> QED
    BY <2>1, TreeAscends, TreeRecursion
<1>4. f = Body(f)
  <2>1. ASSUME NEW x \in Tree PROVE f[x] = Body(f)[x]
    <3> DEFINE h == Of(f, AboveOf[x])
    <3>1. h = Of(h, AboveOf[x]) /\ \A y \in AboveOf[x] : h[y] = f[y] /\ h[y] \in Nat
      BY <1>1, <1>3 DEF Of
    <3>2. f[x] = G[<<x, h>>]
      BY <1>3
    <3>3. x # Parent => ParentOf[x] \in AboveOf[x]
      BY DEF AboveOf
    <3> HIDE DEF h
    <3> QED
      BY <1>2, <3>1, <3>2, <3>3
  <2> QED
    BY <2>1, <1>3
<1>5. depth = Body(depth)
  <2> HIDE DEF Body
  <2> QED
    BY <1>4, Zenon
<1>6. \A c : Depth(c) = depth[c]
  BY DEF Depth, Tree
<1> HIDE DEF depth
<1>7. \A c \in Tree : depth[c] = IF c = Parent THEN 0 ELSE depth[ParentOf[c]] + 1
  BY <1>5, Zenon
<1>8. ASSUME {c \in Tree : depth[c] \notin Nat} # {} PROVE FALSE
  <2>1. PICK c \in {d \in Tree : depth[d] \notin Nat} :
             c = Parent \/ (c \in Children /\ ParentOf[c] \in Tree \ {d \in Tree : depth[d] \notin Nat})
    BY <1>8, Uppermost
  <2> QED
    BY <2>1, <1>7
<1> QED
  BY <1>6, <1>7, <1>8

----------------------------------------------------------------------------
(* What is recorded of their runs                                          *)

(* The records a registry may hold.                                        *)
Records == [Calls -> LifecycleRecord \cup {None}]

(* What is recorded is a run of a child.                                   *)
LEMMA RecordedType ==
  ASSUME NEW rs \in Records, NEW c \in Recorded(rs)
  PROVE  c \in Calls /\ rs[c] \in LifecycleRecord /\ Child(c) \in Children /\ c # None
  BY TreeAssumption, CapsAssumption DEF Records, Recorded, Child

(* directRecord finds a bound record of the direct child.                  *)
LEMMA DirectRecordIs ==
  ASSUME NEW rs \in Records, NEW child
  PROVE  DirectRecord(rs, child) # None =>
           /\ DirectRecord(rs, child) \in Recorded(rs)
           /\ Child(DirectRecord(rs, child)) = child /\ Direct(child)
           /\ rs[DirectRecord(rs, child)].binding # None
  BY DEF DirectRecord

(* directRecord finds one when there is one.                               *)
LEMMA DirectRecordExists ==
  ASSUME NEW rs \in Records, NEW c \in Recorded(rs), Direct(Child(c)), rs[c].binding # None
  PROVE  DirectRecord(rs, Child(c)) # None
<1> DEFINE found == {e \in Recorded(rs) : Child(e) = Child(c) /\ Direct(Child(c)) /\ rs[e].binding # None}
<1>1. c \in found
  OBVIOUS
<1>2. DirectRecord(rs, Child(c)) = CHOOSE e \in found : TRUE
  BY <1>1 DEF DirectRecord
<1>3. DirectRecord(rs, Child(c)) \in found
  BY <1>1, <1>2
<1> QED
  BY <1>3, RecordedType

(* unboundRootRecord finds a record of the direct child that is not bound. *)
LEMMA UnboundRootRecordIs ==
  ASSUME NEW rs \in Records, NEW child, UnboundRootRecord(rs, child) # None
  PROVE  /\ UnboundRootRecord(rs, child) \in Recorded(rs)
         /\ Child(UnboundRootRecord(rs, child)) = child /\ Direct(child)
         /\ rs[UnboundRootRecord(rs, child)].binding = None
<1> DEFINE found == {c \in Recorded(rs) : Child(c) = child /\ Direct(child) /\ rs[c].binding = None}
<1>1. Cardinality(found) = 1 /\ UnboundRootRecord(rs, child) = CHOOSE c \in found : TRUE
  BY DEF UnboundRootRecord
<1>2. found # {}
  BY <1>1, FS_EmptySet
<1> QED
  BY <1>1, <1>2

(* Top of what is below another child.                                     *)
LEMMA TopOf ==
  ASSUME NEW c \in Children
  PROVE  /\ Direct(c) => Top[c] = c
         /\ ~Direct(c) => ParentOf[c] \in Children /\ Top[c] = Top[ParentOf[c]]
  BY TopIs, TreeAssumption DEF Direct, Tree

(* No record, or a bound one of the direct child above a child.            *)
TopRecords(rs, c) == {None} \cup {r \in Recorded(rs) : /\ Direct(Child(r)) /\ Child(r) = Top[c]
                                                       /\ rs[r].binding # None}

(* rootRecord finds one of these.                                          *)
LEMMA RootRecordIs ==
  ASSUME NEW rs \in Records, NEW child \in Children
  PROVE  RootRecord(rs, child) \in TopRecords(rs, child)
<1> DEFINE d(c) == DirectRecord(rs, c)
           Body(f) == [c \in Tree |-> IF c = Parent THEN None ELSE IF d(c) # None THEN d(c)
                                      ELSE IF c \in known THEN f[ParentOf[c]] ELSE None]
           V == [c \in Tree |-> TopRecords(rs, c)]
           G == [p \in Args(Tree, AboveOf, V) |->
                   IF p[1] = Parent THEN None ELSE IF d(p[1]) # None THEN d(p[1])
                   ELSE IF p[1] \in known THEN p[2][ParentOf[p[1]]] ELSE None]
           up == CHOOSE g : g = Body(g)
<1>1. \A x \in Tree : AboveOf[x] \subseteq Tree
  BY TreeAscends DEF Ascending
<1>2. ASSUME NEW c \in Children
      PROVE  /\ None \in TopRecords(rs, c) /\ d(c) \in TopRecords(rs, c)
             /\ TopRecords(rs, ParentOf[c]) \subseteq TopRecords(rs, c)
  <2>1. None \in TopRecords(rs, c) /\ d(c) \in TopRecords(rs, c)
    BY DirectRecordIs, TopOf DEF TopRecords
  <2>2. CASE Direct(c)
    <3>1. ParentOf[c] = Parent /\ Top[Parent] = Parent
      BY <2>2, TopIs DEF Direct, Tree
    <3>2. \A r \in Recorded(rs) : Child(r) # Parent
      BY RecordedType, TreeAssumption
    <3>3. TopRecords(rs, Parent) = {None}
      BY <3>1, <3>2 DEF TopRecords
    <3> QED
      BY <2>1, <3>1, <3>3
  <2>3. CASE ~Direct(c)
    BY <2>1, <2>3, TopOf DEF TopRecords
  <2> QED
    BY <2>1, <2>2, <2>3
<1>3. None \in TopRecords(rs, Parent)
  BY DEF TopRecords
<1> HIDE DEF d
<1>4. ASSUME NEW x \in Tree, NEW h, h = Of(h, AboveOf[x]),
             \A y \in AboveOf[x] : h[y] \in TopRecords(rs, y)
      PROVE  /\ G[<<x, h>>] = IF x = Parent THEN None ELSE IF d(x) # None THEN d(x)
                              ELSE IF x \in known THEN h[ParentOf[x]] ELSE None
             /\ G[<<x, h>>] \in TopRecords(rs, x)
  <2>1. \A y \in AboveOf[x] : h[y] \in V[y]
    BY <1>1, <1>4
  <2>2. <<x, h>> \in Args(Tree, AboveOf, V)
    <3> HIDE DEF V
    <3> QED
      BY <1>1, <1>4, <2>1, IsArgument
  <2>3. G[<<x, h>>] = IF x = Parent THEN None ELSE IF d(x) # None THEN d(x)
                      ELSE IF x \in known THEN h[ParentOf[x]] ELSE None
    BY <2>2
  <2>4. x # Parent => ParentOf[x] \in AboveOf[x] /\ x \in Children
    BY DEF AboveOf, Tree
  <2> HIDE DEF G
  <2> QED
    BY <2>3, <2>4, <1>2, <1>3, <1>4
<1> HIDE DEF G
<1>5. PICK f : /\ f = [x \in Tree |-> G[<<x, Of(f, AboveOf[x])>>]]
               /\ \A x \in Tree : f[x] \in V[x]
  <2>1. Steps(G, Tree, AboveOf, V)
    BY <1>1, <1>4 DEF Steps
  <2> HIDE DEF V
  <2> QED
    BY <2>1, TreeAscends, TreeRecursion
<1>6. f = Body(f)
  <2>1. ASSUME NEW x \in Tree PROVE f[x] = Body(f)[x]
    <3> DEFINE h == Of(f, AboveOf[x])
    <3>1. h = Of(h, AboveOf[x]) /\ \A y \in AboveOf[x] : h[y] = f[y] /\ h[y] \in TopRecords(rs, y)
      BY <1>1, <1>5 DEF Of
    <3>2. f[x] = G[<<x, h>>]
      BY <1>5
    <3>3. x # Parent => ParentOf[x] \in AboveOf[x]
      BY DEF AboveOf
    <3> HIDE DEF h
    <3> QED
      BY <1>4, <3>1, <3>2, <3>3
  <2> QED
    BY <2>1, <1>5
<1>7. up = Body(up)
  <2> HIDE DEF Body
  <2> QED
    BY <1>6, Zenon
<1>8. RootRecord(rs, child) = IF d(child) # None THEN d(child) ELSE up[ParentOf[child]]
  BY DEF RootRecord, Tree, d
<1> HIDE DEF up
<1>9. \A c \in Tree : up[c] = IF c = Parent THEN None ELSE IF d(c) # None THEN d(c)
                              ELSE IF c \in known THEN up[ParentOf[c]] ELSE None
  BY <1>7, Zenon
<1>10. ASSUME {c \in Tree : up[c] \notin TopRecords(rs, c)} # {} PROVE FALSE
  <2> DEFINE S == {x \in Tree : up[x] \notin TopRecords(rs, x)}
  <2>1. PICK c \in S : c = Parent \/ (c \in Children /\ ParentOf[c] \in Tree \ S)
    <3> HIDE DEF S
    <3>1. S # {} /\ S \in SUBSET Tree
      BY <1>10 DEF S
    <3> QED
      BY <3>1, Uppermost
  <2> QED
    BY <2>1, <1>2, <1>3, <1>9
<1>11. ParentOf[child] \in Tree
  BY TreeAssumption DEF Tree
<1> QED
  BY <1>2, <1>8, <1>10, <1>11

----------------------------------------------------------------------------
(* attachPendingNested                                                     *)

(* The runs of the child above that of a run.                              *)
CarriersOf == [c \in Calls |-> {d \in Calls : Child(d) = ParentOf[Child(c)]}]

(* From any set of runs one comes out at its upper end.                    *)
LEMMA CallsAscend == Ascending(Calls, CarriersOf)
<1>1. CarriersOf \in [Calls -> SUBSET Calls]
  BY DEF CarriersOf
<1>2. ASSUME NEW S \in SUBSET Calls, S # {} PROVE \E x \in S : CarriersOf[x] \cap S = {}
  <2> DEFINE T == {Child(c) : c \in S}
  <2>1. T \in SUBSET Children /\ T # {}
    BY <1>2, TreeAssumption DEF Child
  <2>2. PICK t \in T : ParentOf[t] \notin T
    <3> HIDE DEF T
    <3> QED
      BY <2>1, TreeAssumption
  <2>3. PICK x \in S : Child(x) = t
    BY <2>2
  <2>4. \A d \in S : Child(d) # ParentOf[t]
    BY <2>2
  <2> QED
    BY <2>3, <2>4 DEF CarriersOf
<1> QED
  BY <1>1, <1>2 DEF Ascending

(* A set of runs has one whose child is not right below that of another.   *)
LEMMA UppermostCall ==
  ASSUME NEW S \in SUBSET Calls, S # {}
  PROVE  \E c \in S : \A d \in S : Child(d) # ParentOf[Child(c)]
<1>1. PICK c \in S : CarriersOf[c] \cap S = {}
  BY CallsAscend DEF Ascending
<1> QED
  BY <1>1 DEF CarriersOf

(* A record takes its binding, and its depth, from a bound one above it.   *)
LEMMA BoundUnderType ==
  ASSUME NEW record \in LifecycleRecord, NEW above,
         above.binding \in DOMAIN Bindings \cup {None}, above.depth \in Nat
  PROVE  /\ BoundUnder(record, above) \in LifecycleRecord
         /\ BoundUnder(record, above).root = record.root
         /\ BoundUnder(record, above).ended = record.ended
         /\ BoundUnder(record, above).binding =
              IF above.binding = None THEN record.binding ELSE above.binding
         /\ BoundUnder(record, above).depth =
              IF above.binding = None THEN record.depth ELSE above.depth + 1
<1>1. CASE above.binding = None
  BY <1>1 DEF BoundUnder
<1>2. CASE above.binding # None
  <2>1. BoundUnder(record, above) =
          [record EXCEPT !.binding = above.binding, !.depth = above.depth + 1]
    BY <1>2 DEF BoundUnder
  <2>2. record = [root |-> record.root, depth |-> record.depth,
                  binding |-> record.binding, ended |-> record.ended]
    BY DEF LifecycleRecord
  <2>3. BoundUnder(record, above) =
          [root |-> record.root, depth |-> above.depth + 1,
           binding |-> above.binding, ended |-> record.ended]
    BY <2>1, <2>2
  <2>4. record.root \in Calls \cup {None} /\ record.ended \in BOOLEAN /\ above.depth + 1 \in Nat
    BY DEF LifecycleRecord
  <2> QED
    BY <1>2, <2>3, <2>4 DEF LifecycleRecord
<1> QED
  BY <1>1, <1>2

(* A record without a root, which does not stand for a direct child.       *)
Pending(rs, c) == c \in Recorded(rs) /\ rs[c].root = None /\ ~Direct(Child(c))

(* A record that was given its root.                                       *)
RootedAt(record, above, e) == [BoundUnder(record, above) EXCEPT !.root = e]

(* Its root, binding and depth.                                            *)
LEMMA RootedAtIs ==
  \A record \in LifecycleRecord, above \in LifecycleRecord, e \in Calls :
    /\ RootedAt(record, above, e).root = e
    /\ RootedAt(record, above, e).ended = record.ended
    /\ RootedAt(record, above, e).binding =
         IF above.binding = None THEN record.binding ELSE above.binding
    /\ RootedAt(record, above, e).depth =
         IF above.binding = None THEN record.depth ELSE above.depth + 1
<1> TAKE record \in LifecycleRecord, above \in LifecycleRecord, e \in Calls
<1>1. above.binding \in DOMAIN Bindings \cup {None} /\ above.depth \in Nat
  BY DEF LifecycleRecord
<1> DEFINE b == BoundUnder(record, above)
<1>2. /\ b \in LifecycleRecord /\ b.ended = record.ended
      /\ b.binding = IF above.binding = None THEN record.binding ELSE above.binding
      /\ b.depth = IF above.binding = None THEN record.depth ELSE above.depth + 1
  BY <1>1, BoundUnderType
<1> HIDE DEF b
<1>3. RootedAt(record, above, e) = [b EXCEPT !.root = e]
  BY DEF RootedAt, b
<1> QED
  BY <1>2, <1>3 DEF LifecycleRecord

(* It is a record.                                                         *)
LEMMA RootedAtType ==
  \A record \in LifecycleRecord, above \in LifecycleRecord, e \in Calls :
    RootedAt(record, above, e) \in LifecycleRecord
<1> TAKE record \in LifecycleRecord, above \in LifecycleRecord, e \in Calls
<1>1. above.binding \in DOMAIN Bindings \cup {None} /\ above.depth \in Nat
  BY DEF LifecycleRecord
<1> DEFINE b == BoundUnder(record, above)
<1>2. b \in LifecycleRecord
  BY <1>1, BoundUnderType
<1> HIDE DEF b
<1>3. RootedAt(record, above, e) = [b EXCEPT !.root = e]
  BY DEF RootedAt, b
<1> QED
  BY <1>2, <1>3 DEF LifecycleRecord

(* attachPendingNested gives a record without a root one right above it.   *)
LEMMA AttachedIs ==
  ASSUME NEW rs \in Records, NEW root \in Recorded(rs)
  PROVE  LET a == AttachPendingNested(rs, root)
         IN /\ a \in Records /\ Recorded(a) = Recorded(rs)
            /\ \A c \in Calls : ~Pending(rs, c) => a[c] = rs[c]
            /\ \A c \in Calls : Pending(rs, c) /\ a[c] # rs[c] =>
                 \/ ParentOf[Child(c)] = Child(root) /\ a[c] = RootedAt(rs[c], rs[root], root)
                 \/ \E d \in Recorded(rs) :
                      /\ Child(d) = ParentOf[Child(c)] /\ Child(d) \notin Remote
                      /\ rs[d].root = None /\ a[d].root # None
                      /\ a[c] = RootedAt(rs[c], a[d], d)
<1> DEFINE Abv(h, c) == {d \in Recorded(rs) : /\ Child(d) = ParentOf[Child(c)]
                                              /\ Child(d) \notin Remote
                                              /\ rs[d].root = None /\ h[d].root # None}
           D(h, c) == CHOOSE d \in Abv(h, c) : TRUE
           Step(h, c) == IF rs[c] = None THEN None
                         ELSE IF rs[c].root # None \/ Direct(Child(c)) THEN rs[c]
                         ELSE IF ParentOf[Child(c)] = Child(root) THEN RootedAt(rs[c], rs[root], root)
                         ELSE IF Abv(h, c) = {} THEN rs[c]
                         ELSE RootedAt(rs[c], h[D(h, c)], D(h, c))
           Body(f) == [c \in Calls |-> Step(f, c)]
           V == [c \in Calls |-> IF c \in Recorded(rs) THEN LifecycleRecord ELSE {None}]
           G == [p \in Args(Calls, CarriersOf, V) |-> Step(p[2], p[1])]
           a == CHOOSE g : g = Body(g)
<1>0. \A h, c : Abv(h, c) # {} => D(h, c) \in Abv(h, c)
  OBVIOUS
<1>a. AttachPendingNested(rs, root) = a
  BY DEF AttachPendingNested, RootedAt
<1>1. \A x \in Calls : CarriersOf[x] \subseteq Calls
  BY CallsAscend DEF Ascending
<1>2. \A x \in Calls : \A h, f : (\A y \in CarriersOf[x] : h[y] = f[y]) => Step(h, x) = Step(f, x)
  <2> TAKE x \in Calls
  <2> TAKE h, f
  <2> HAVE \A y \in CarriersOf[x] : h[y] = f[y]
  <2>1. \A d \in Recorded(rs) : Child(d) = ParentOf[Child(x)] => d \in CarriersOf[x]
    BY DEF CarriersOf, Recorded
  <2>2. Abv(h, x) = Abv(f, x)
    BY <2>1
  <2>3. D(h, x) = D(f, x)
    BY <2>2
  <2>4. Abv(h, x) # {} => h[D(h, x)] = f[D(h, x)]
    BY <1>0, <2>1
  <2> HIDE DEF Abv, D
  <2> QED
    BY <2>2, <2>3, <2>4
<1>3. ASSUME NEW x \in Calls, NEW h, \A y \in CarriersOf[x] : h[y] \in V[y]
      PROVE  Step(h, x) \in V[x]
  <2>1. CASE rs[x] = None
    BY <2>1 DEF Recorded
  <2>2. CASE rs[x] # None
    <3>1. x \in Recorded(rs) /\ rs[x] \in LifecycleRecord /\ rs[root] \in LifecycleRecord /\ root \in Calls
      BY <2>2, RecordedType DEF Recorded
    <3>2. Abv(h, x) # {} => h[D(h, x)] \in LifecycleRecord /\ D(h, x) \in Calls
      <4>1. \A d \in Recorded(rs) : Child(d) = ParentOf[Child(x)] => d \in CarriersOf[x] /\ d \in Calls
        BY DEF CarriersOf, Recorded
      <4>2. Abv(h, x) # {} => D(h, x) \in CarriersOf[x] /\ D(h, x) \in Recorded(rs) /\ D(h, x) \in Calls
        BY <4>1, <1>0
      <4> HIDE DEF Abv, D
      <4> QED
        BY <4>2, <1>3
    <3> HIDE DEF Abv, D
    <3>3. Step(h, x) \in LifecycleRecord
      BY <2>2, <3>1, <3>2, RootedAtType
    <3> QED
      BY <3>1, <3>3
  <2> QED
    BY <2>1, <2>2
<1> HIDE DEF Step
<1>4. ASSUME NEW x \in Calls, NEW h, h = Of(h, CarriersOf[x]),
             \A y \in CarriersOf[x] : h[y] \in V[y]
      PROVE  G[<<x, h>>] = Step(h, x) /\ G[<<x, h>>] \in V[x]
  <2>2. <<x, h>> \in Args(Calls, CarriersOf, V)
    <3> HIDE DEF V
    <3> QED
      BY <1>1, <1>4, IsArgument
  <2>3. G[<<x, h>>] = Step(h, x)
    BY <2>2
  <2> HIDE DEF G, V
  <2> QED
    BY <2>3, <1>3, <1>4
<1> HIDE DEF G, V
<1>5. PICK f : /\ f = [x \in Calls |-> G[<<x, Of(f, CarriersOf[x])>>]]
               /\ \A x \in Calls : f[x] \in V[x]
  <2>1. Steps(G, Calls, CarriersOf, V)
    BY <1>1, <1>4 DEF Steps
  <2> QED
    BY <2>1, CallsAscend, TreeRecursion
<1>6. f = Body(f)
  <2>1. ASSUME NEW x \in Calls PROVE f[x] = Body(f)[x]
    <3> DEFINE h == Of(f, CarriersOf[x])
    <3>1. h = Of(h, CarriersOf[x]) /\ \A y \in CarriersOf[x] : h[y] = f[y] /\ h[y] \in V[y]
      BY <1>1, <1>5 DEF Of
    <3>2. f[x] = G[<<x, h>>]
      BY <1>5
    <3> HIDE DEF h
    <3>3. Step(h, x) = Step(f, x)
      BY <1>2, <3>1
    <3> QED
      BY <1>4, <3>1, <3>2, <3>3
  <2> QED
    BY <2>1, <1>5
<1>7. a = Body(a)
  <2> HIDE DEF Body
  <2> QED
    BY <1>6, Zenon
<1> HIDE DEF a
<1>8. \A c \in Calls : a[c] = Step(a, c)
  BY <1>7, Zenon
<1>9. \A c \in Calls : a[c] \in V[c]
  <2>1. SUFFICES ASSUME {c \in Calls : a[c] \notin V[c]} # {} PROVE FALSE
    OBVIOUS
  <2> DEFINE S == {c \in Calls : a[c] \notin V[c]}
  <2>2. PICK c \in S : CarriersOf[c] \cap S = {}
    <3>1. S \in SUBSET Calls /\ S # {}
      BY <2>1
    <3> HIDE DEF S
    <3> QED
      BY <3>1, CallsAscend DEF Ascending
  <2>3. \A y \in CarriersOf[c] : a[y] \in V[y]
    BY <2>2, <1>1
  <2> QED
    BY <2>2, <2>3, <1>3, <1>8
<1>10. a \in Records
  <2>1. DOMAIN a = Calls /\ a = [c \in Calls |-> a[c]]
    BY <1>7
  <2>2. \A c \in Calls : V[c] \subseteq LifecycleRecord \cup {None}
    BY DEF V
  <2> QED
    BY <1>9, <2>1, <2>2 DEF Records
<1>11. \A c \in Calls : ~Pending(rs, c) => a[c] = rs[c]
  BY <1>8 DEF Step, Pending, Recorded
<1>12. ASSUME NEW c \in Calls, Pending(rs, c), a[c] # rs[c]
       PROVE \/ ParentOf[Child(c)] = Child(root) /\ a[c] = RootedAt(rs[c], rs[root], root)
             \/ \E d \in Recorded(rs) :
                  /\ Child(d) = ParentOf[Child(c)] /\ Child(d) \notin Remote
                  /\ rs[d].root = None /\ a[d].root # None
                  /\ a[c] = RootedAt(rs[c], a[d], d)
  <2>1. rs[c] # None /\ rs[c].root = None /\ ~Direct(Child(c))
    BY <1>12 DEF Pending, Recorded
  <2>2. CASE ParentOf[Child(c)] = Child(root)
    BY <1>8, <2>1, <2>2 DEF Step
  <2>3. CASE ParentOf[Child(c)] # Child(root)
    <3>1. Abv(a, c) # {} /\ a[c] = RootedAt(rs[c], a[D(a, c)], D(a, c))
      BY <1>8, <1>12, <2>1, <2>3 DEF Step
    <3> QED
      BY <3>1, <1>0
  <2> QED
    BY <2>2, <2>3
<1>13. Recorded(a) = Recorded(rs)
  BY <1>9, CapsAssumption DEF V, Recorded
<1> QED
  BY <1>a, <1>10, <1>11, <1>12, <1>13

(* What attachPendingNested makes of a record that waited for its root.    *)
AttachedTo(rs, a, root, c) ==
  LET e == a[c].root
  IN /\ e \in Recorded(rs) /\ ParentOf[Child(c)] = Child(e) /\ Child(e) \notin Remote \cup {Parent}
     /\ Top[Child(c)] = Child(root) /\ Top[Child(e)] = Child(root)
     /\ e = root \/ (Pending(rs, e) /\ a[e] # rs[e])
     /\ a[c].ended = rs[c].ended
     /\ rs[root].binding = None => a[c].binding = None /\ a[c].depth = rs[c].depth
     /\ rs[root].binding # None => /\ a[c].binding = rs[root].binding
                                   /\ a[c].depth = a[e].depth + 1

(* attachPendingNested changes no other record.                            *)
LEMMA AttachFacts ==
  ASSUME NEW rs \in Records, NEW root \in Recorded(rs), Direct(Child(root)),
         \A c \in Calls : Pending(rs, c) => rs[c].binding = None /\ ParentOf[Child(c)] \notin Remote
  PROVE  LET a == AttachPendingNested(rs, root)
         IN /\ a \in Records /\ Recorded(a) = Recorded(rs)
            /\ \A c \in Calls : ~Pending(rs, c) => a[c] = rs[c]
            /\ \A c \in Calls : Pending(rs, c) /\ a[c] # rs[c] => AttachedTo(rs, a, root, c)
<1> DEFINE a == AttachPendingNested(rs, root)
<1> HIDE DEF a
<1>1. /\ a \in Records /\ Recorded(a) = Recorded(rs)
      /\ \A c \in Calls : ~Pending(rs, c) => a[c] = rs[c]
      /\ \A c \in Calls : Pending(rs, c) /\ a[c] # rs[c] =>
           \/ ParentOf[Child(c)] = Child(root) /\ a[c] = RootedAt(rs[c], rs[root], root)
           \/ \E d \in Recorded(rs) :
                /\ Child(d) = ParentOf[Child(c)] /\ Child(d) \notin Remote
                /\ rs[d].root = None /\ a[d].root # None
                /\ a[c] = RootedAt(rs[c], a[d], d)
  BY AttachedIs DEF a
<1>2. a[root] = rs[root] /\ ~Pending(rs, root) /\ root \in Calls /\ rs[root] \in LifecycleRecord
  BY <1>1, RecordedType DEF Pending
<1>3. \A c \in Calls : Pending(rs, c) => Child(c) \in Children /\ rs[c] \in LifecycleRecord /\ ~Direct(Child(c))
                                         /\ rs[c].binding = None
  BY RecordedType DEF Pending
<1>4. Top[Child(root)] = Child(root) /\ Child(root) \in Children
  BY TopOf, RecordedType
<1>5. ASSUME NEW c \in Calls, Pending(rs, c), a[c] # rs[c],
             \A d \in Calls : Child(d) = ParentOf[Child(c)] /\ Pending(rs, d) /\ a[d] # rs[d]
                                => AttachedTo(rs, a, root, d)
      PROVE  AttachedTo(rs, a, root, c)
  <2>1. Top[Child(c)] = Top[ParentOf[Child(c)]] /\ rs[c] \in LifecycleRecord /\ rs[c].binding = None
        /\ ParentOf[Child(c)] \notin Remote /\ ParentOf[Child(c)] # Parent
    BY <1>3, <1>5, TopOf DEF Direct
  <2>2. CASE ParentOf[Child(c)] = Child(root) /\ a[c] = RootedAt(rs[c], rs[root], root)
    <3>1. /\ a[c].root = root /\ a[c].ended = rs[c].ended
          /\ a[c].binding = IF rs[root].binding = None THEN rs[c].binding ELSE rs[root].binding
          /\ a[c].depth = IF rs[root].binding = None THEN rs[c].depth ELSE rs[root].depth + 1
      BY <1>2, <2>1, <2>2, RootedAtIs
    <3>2. /\ rs[root].binding = None => a[c].binding = None /\ a[c].depth = rs[c].depth
          /\ rs[root].binding # None => a[c].binding = rs[root].binding /\ a[c].depth = a[root].depth + 1
      BY <1>2, <2>1, <3>1
    <3>3. /\ root \in Recorded(rs) /\ Child(root) \notin Remote \cup {Parent}
          /\ Top[Child(c)] = Child(root)
      BY <1>4, <2>1, <2>2
    <3> QED
      BY <1>4, <2>2, <3>1, <3>2, <3>3 DEF AttachedTo
  <2>3. ASSUME NEW d \in Recorded(rs),
               Child(d) = ParentOf[Child(c)], Child(d) \notin Remote,
               rs[d].root = None, a[d].root # None, a[c] = RootedAt(rs[c], a[d], d)
        PROVE  AttachedTo(rs, a, root, c)
    <3>0. d \in Calls
      BY DEF Recorded
    <3>1. Pending(rs, d) /\ a[d] # rs[d]
      BY <1>1, <2>3, <3>0 DEF Pending
    <3>2. AttachedTo(rs, a, root, d) /\ rs[d].binding = None
      BY <1>3, <1>5, <2>3, <3>0, <3>1
    <3>3. a[d] \in LifecycleRecord
      BY <1>1, RecordedType
    <3>4. /\ a[c].root = d /\ a[c].ended = rs[c].ended
          /\ a[c].binding = IF a[d].binding = None THEN rs[c].binding ELSE a[d].binding
          /\ a[c].depth = IF a[d].binding = None THEN rs[c].depth ELSE a[d].depth + 1
      BY <2>1, <2>3, <3>0, <3>3, RootedAtIs
    <3>5. /\ Top[Child(d)] = Child(root)
          /\ rs[root].binding = None => a[d].binding = None
          /\ rs[root].binding # None => a[d].binding = rs[root].binding
      BY <3>2 DEF AttachedTo
    <3> QED
      BY <2>1, <2>3, <3>1, <3>4, <3>5 DEF AttachedTo
  <2> QED
    BY <1>1, <1>5, <2>2, <2>3
<1>6. \A c \in Calls : Pending(rs, c) /\ a[c] # rs[c] => AttachedTo(rs, a, root, c)
  <2> DEFINE S == {c \in Calls : Pending(rs, c) /\ a[c] # rs[c] /\ ~AttachedTo(rs, a, root, c)}
  <2>1. SUFFICES ASSUME S # {} PROVE FALSE
    OBVIOUS
  <2>2. PICK c \in S : \A d \in S : Child(d) # ParentOf[Child(c)]
    <3> HIDE DEF S
    <3>1. S \in SUBSET Calls
      BY DEF S
    <3> QED
      BY <2>1, <3>1, UppermostCall
  <2> QED
    BY <2>2, <1>5
<1> QED
  BY <1>1, <1>6 DEF a

----------------------------------------------------------------------------
(* Records that are sound                                                  *)

(* A direct child has no root; below others a run starts under a recorded  *)
(* local one.                                                              *)
Placed(rs, c) ==
  /\ Direct(Child(c)) => rs[c].root = None
  /\ ~Direct(Child(c)) =>
       /\ ParentOf[Child(c)] \notin Remote
       /\ \E e \in Recorded(rs) : Child(e) = ParentOf[Child(c)]

(* The root of a record is recorded, under the same direct child, and bound*)
(* if it is.                                                               *)
Rooted(rs, c) ==
  rs[c].root # None =>
    /\ rs[c].root \in Recorded(rs)
    /\ Top[Child(rs[c].root)] = Top[Child(c)]
    /\ rs[c].binding # None => rs[rs[c].root].binding # None
    /\ rs[rs[c].root].binding = None /\ Direct(Child(rs[c].root)) =>
         ParentOf[Child(c)] = Child(rs[c].root)

(* A bound record belongs to a direct child that the plan was told of, and *)
(* has a bound root.                                                       *)
Bound(rs, ret, c) ==
  rs[c].binding # None =>
    /\ rs[c].binding \in ret /\ rs[c].binding = Top[Child(c)]
    /\ ~Direct(Child(c)) => rs[c].root # None
    /\ \E e \in Recorded(rs) : /\ Direct(Child(e)) /\ Child(e) = rs[c].binding
                               /\ rs[e].binding # None

(* What the registry of one run keeps.                                     *)
Sound(rs, ret) == \A c \in Recorded(rs) : Placed(rs, c) /\ Rooted(rs, c) /\ Bound(rs, ret, c)

(* A record is never lost, does not run again and is bound once.           *)
Forward(old, new) ==
  \A c \in Recorded(old) :
    /\ c \in Recorded(new) /\ (old[c].ended => new[c].ended)
    /\ old[c].binding # None =>
         new[c].binding = old[c].binding /\ new[c].depth = old[c].depth

(* What a step bound.                                                      *)
Newly(old, new) ==
  {c \in Recorded(new) : new[c].binding # None /\ (c \in Recorded(old) => old[c].binding = None)}

(* A step binds a record together with those above it, and under a binding *)
(* that is new.                                                            *)
Fresh(old, new, ret) ==
  \A c \in Newly(old, new) :
    /\ c \in Recorded(old) => new[c].binding \notin ret
    /\ \A e \in Newly(old, new) : Child(e) = ParentOf[Child(c)] => new[e].depth < new[c].depth

(* No child is above itself.                                               *)
LEMMA NotItself ==
  \A c \in Children : ParentOf[c] # c
<1> TAKE c \in Children
<1>1. \E d \in {c} : ParentOf[d] \notin {c}
  BY TreeAssumption
<1> QED
  BY <1>1

(* Records that are the same go forward.                                   *)
LEMMA SameRecords ==
  ASSUME NEW rs \in Records, NEW ret
  PROVE  Forward(rs, rs) /\ Fresh(rs, rs, ret)
  BY DEF Forward, Fresh, Newly

(* Records stay sound when the plan is told of more children.              *)
LEMMA MoreReturned ==
  ASSUME NEW rs \in Records, NEW ret, Sound(rs, ret), NEW more
  PROVE  Sound(rs, ret \cup more)
  BY DEF Sound, Bound

(* The end of a run keeps the records sound.                               *)
LEMMA RecordEnds ==
  ASSUME NEW rs \in Records, NEW ret, Sound(rs, ret), NEW call \in Recorded(rs),
         NEW new, new = [rs EXCEPT ![call].ended = TRUE]
  PROVE  /\ new \in Records /\ Recorded(new) = Recorded(rs) /\ Sound(new, ret)
         /\ Forward(rs, new) /\ Fresh(rs, new, ret)
         /\ \A c \in Recorded(rs) : new[c].binding = rs[c].binding
<1>1. call \in Calls /\ rs[call] \in LifecycleRecord
  BY RecordedType
<1> DEFINE r == [rs[call] EXCEPT !.ended = TRUE]
<1>2. /\ r \in LifecycleRecord /\ r.root = rs[call].root /\ r.depth = rs[call].depth
      /\ r.binding = rs[call].binding /\ r.ended
  BY <1>1 DEF LifecycleRecord
<1>3. new = [rs EXCEPT ![call] = r]
  OBVIOUS
<1> HIDE DEF r
<1>4. new \in Records /\ DOMAIN rs = Calls /\ DOMAIN new = Calls
  BY <1>1, <1>2, <1>3 DEF Records
<1>5. \A c \in Calls : new[c] = IF c = call THEN r ELSE rs[c]
  BY <1>1, <1>3, <1>4
<1>6. Recorded(new) = Recorded(rs)
  BY <1>2, <1>5, CapsAssumption DEF Recorded
<1>7. \A c \in Recorded(rs) : /\ new[c].root = rs[c].root /\ new[c].depth = rs[c].depth
                              /\ new[c].binding = rs[c].binding /\ (rs[c].ended => new[c].ended)
  BY <1>2, <1>5 DEF Recorded
<1>8. ASSUME NEW c \in Recorded(rs) PROVE Placed(new, c) /\ Rooted(new, c) /\ Bound(new, ret, c)
  <2>1. Placed(rs, c) /\ Rooted(rs, c) /\ Bound(rs, ret, c)
    BY DEF Sound
  <2>2. Placed(new, c)
    BY <2>1, <1>6, <1>7 DEF Placed
  <2>3. Rooted(new, c)
    BY <2>1, <1>6, <1>7 DEF Rooted
  <2>4. Bound(new, ret, c)
    BY <2>1, <1>6, <1>7 DEF Bound
  <2> QED
    BY <2>2, <2>3, <2>4
<1>9. Forward(rs, new) /\ Fresh(rs, new, ret)
  BY <1>6, <1>7 DEF Forward, Fresh, Newly
<1> QED
  BY <1>4, <1>6, <1>7, <1>8, <1>9 DEF Sound

(* A record that waits for its root is not bound, and not below a remote   *)
(* child.                                                                  *)
LEMMA PendingOfSound ==
  ASSUME NEW rs \in Records, NEW ret, Sound(rs, ret)
  PROVE  \A c \in Calls : Pending(rs, c) => rs[c].binding = None /\ ParentOf[Child(c)] \notin Remote
  BY DEF Sound, Pending, Bound, Placed

(* The record of a run below others, under a record of those.              *)
RecordAbove(rs, root) == IF root = None THEN [binding |-> None, depth |-> 1] ELSE rs[root]

(* Its record, bound as the one above it is.                               *)
StartedUnder(rs, call, root) ==
  [rs EXCEPT ![call] = BoundUnder(Record(root, RecordAbove(rs, root).depth + 1), RecordAbove(rs, root))]

(* What the start of a run below others starts from.                       *)
Beneath(rs, ret, call, root) ==
  /\ rs \in Records /\ Sound(rs, ret) /\ call \in Calls /\ rs[call] = None
  /\ ~Direct(Child(call)) /\ ParentOf[Child(call)] \notin Remote
  /\ \E e \in Recorded(rs) : Child(e) = ParentOf[Child(call)]
  /\ root \in Recorded(rs) \cup {None}
  /\ root # None =>
       /\ Top[Child(root)] = Top[ParentOf[Child(call)]] /\ Direct(Child(root))
       /\ rs[root].binding = None => Child(root) = ParentOf[Child(call)]

(* What the start of a run makes of the records.                           *)
Started(rs, ret, call, new) ==
  /\ new \in Records /\ Recorded(new) = Recorded(rs) \cup {call} /\ Sound(new, ret)
  /\ Forward(rs, new) /\ Fresh(rs, new, ret)

(* The start of a run below others keeps the records sound.                *)
LEMMA NestedStarts ==
  ASSUME NEW rs, NEW ret, NEW call, NEW root, Beneath(rs, ret, call, root)
  PROVE  Started(rs, ret, call, StartedUnder(rs, call, root))
<1> DEFINE above == RecordAbove(rs, root)
           new == StartedUnder(rs, call, root)
<1>0. /\ rs \in Records /\ Sound(rs, ret) /\ call \in Calls /\ rs[call] = None
      /\ ~Direct(Child(call)) /\ ParentOf[Child(call)] \notin Remote
      /\ \E e \in Recorded(rs) : Child(e) = ParentOf[Child(call)]
      /\ root \in Recorded(rs) \cup {None}
      /\ root # None =>
           /\ Top[Child(root)] = Top[ParentOf[Child(call)]] /\ Direct(Child(root))
           /\ rs[root].binding = None => Child(root) = ParentOf[Child(call)]
  BY DEF Beneath
<1>a. above = IF root = None THEN [binding |-> None, depth |-> 1] ELSE rs[root]
  BY DEF RecordAbove
<1>b. new = [rs EXCEPT ![call] = BoundUnder(Record(root, above.depth + 1), above)]
  BY DEF StartedUnder
<1> HIDE DEF above, new
<1>1. Child(call) \in Children /\ Top[Child(call)] = Top[ParentOf[Child(call)]]
  BY <1>0, TopOf, TreeAssumption DEF Child
<1>2. above.binding \in DOMAIN Bindings \cup {None} /\ above.depth \in Nat
  <2>1. CASE root = None
    BY <1>a, <2>1
  <2>2. CASE root # None
    BY <1>0, <1>a, <2>2, RecordedType DEF LifecycleRecord
  <2> QED
    BY <1>0, <2>1, <2>2
<1>3. Record(root, above.depth + 1) \in LifecycleRecord
  BY <1>0, <1>2, RecordedType DEF Record, LifecycleRecord
<1> DEFINE r == BoundUnder(Record(root, above.depth + 1), above)
<1>4. /\ r \in LifecycleRecord /\ r.root = root
      /\ r.binding = above.binding
  BY <1>0, <1>2, <1>3, BoundUnderType DEF Record
<1> HIDE DEF r
<1>5. new \in Records /\ \A c \in Calls : new[c] = IF c = call THEN r ELSE rs[c]
  BY <1>0, <1>b, <1>4 DEF Records, r
<1>6. r # None
  BY <1>0, <1>4, CapsAssumption
<1>7. Recorded(new) = Recorded(rs) \cup {call} /\ call \notin Recorded(rs)
  BY <1>0, <1>5, <1>6 DEF Recorded
<1>8. \A c \in Recorded(rs) : new[c] = rs[c]
  BY <1>0, <1>5 DEF Recorded
<1>9. ASSUME NEW c \in Recorded(rs) PROVE Placed(new, c) /\ Rooted(new, c) /\ Bound(new, ret, c)
  <2>1. Placed(rs, c) /\ Rooted(rs, c) /\ Bound(rs, ret, c)
    BY <1>0 DEF Sound
  <2>2. Placed(new, c)
    BY <1>0, <2>1, <1>7, <1>8 DEF Placed
  <2>3. Rooted(new, c)
    BY <1>0, <2>1, <1>7, <1>8 DEF Rooted
  <2>4. ASSUME new[c].binding # None PROVE Bound(new, ret, c)
    <3>1. new[c] = rs[c]
      BY <1>0, <1>8
    <3>2. PICK e \in Recorded(rs) : Direct(Child(e)) /\ Child(e) = rs[c].binding /\ rs[e].binding # None
      BY <1>0, <2>1, <2>4, <3>1 DEF Bound
    <3>3. e \in Recorded(new) /\ new[e] = rs[e]
      BY <1>0, <1>7, <1>8
    <3> QED
      BY <1>0, <2>1, <2>4, <3>1, <3>2, <3>3 DEF Bound
  <2> QED
    BY <1>0, <2>2, <2>3, <2>4 DEF Bound
<1>10. Placed(new, call)
  BY <1>0, <1>7 DEF Placed
<1>11. Rooted(new, call)
  <2>1. CASE root = None
    BY <1>0, <2>1, <1>4, <1>5 DEF Rooted
  <2>2. CASE root # None
    <3>1. /\ root \in Recorded(rs) /\ root # call /\ new[call].root = root
          /\ Top[Child(root)] = Top[ParentOf[Child(call)]] /\ Direct(Child(root))
          /\ rs[root].binding = None => Child(root) = ParentOf[Child(call)]
      BY <1>0, <1>4, <1>5, <1>7, <2>2
    <3>2. new[root] = rs[root] /\ root \in Recorded(new) /\ new[call].binding = rs[root].binding
      BY <1>0, <1>a, <1>4, <1>5, <1>7, <1>8, <2>2, <3>1
    <3> QED
      BY <1>1, <3>1, <3>2 DEF Rooted
  <2> QED
    BY <1>0, <2>1, <2>2
<1>12. Bound(new, ret, call)
  <2>1. SUFFICES ASSUME new[call].binding # None PROVE Bound(new, ret, call)
    BY <1>0 DEF Bound
  <2>2. new[call].binding = rs[root].binding /\ root # None /\ root \in Recorded(rs)
    BY <1>0, <1>a, <2>1, <1>4, <1>5
  <2>3. Bound(rs, ret, root) /\ Bound(new, ret, root) /\ Child(root) \in Children
    BY <1>0, <1>9, <2>2, RecordedType DEF Sound
  <2>4. rs[root].binding \in ret /\ rs[root].binding = Top[Child(root)] /\ Top[Child(root)] = Child(root)
    BY <1>0, <2>1, <2>2, <2>3, TopOf DEF Bound
  <2>5. new[call].root = root
    BY <1>0, <1>4, <1>5
  <2>6. root \in Recorded(new) /\ new[root].binding # None /\ Direct(Child(root))
    BY <1>0, <1>7, <1>8, <2>1, <2>2
  <2>7. new[call].binding = Top[Child(call)] /\ Child(root) = new[call].binding
    BY <1>0, <1>1, <2>2, <2>4
  <2> QED
    BY <1>0, <2>2, <2>4, <2>5, <2>6, <2>7 DEF Bound
<1>13. Newly(rs, new) \subseteq {call}
  BY <1>0, <1>7, <1>8 DEF Newly
<1>14. Fresh(rs, new, ret)
  BY <1>0, <1>1, <1>7, <1>13, NotItself DEF Fresh
<1>15. Forward(rs, new)
  BY <1>0, <1>7, <1>8 DEF Forward
<1>16. Sound(new, ret)
  BY <1>7, <1>9, <1>10, <1>11, <1>12 DEF Sound
<1>17. Started(rs, ret, call, new)
  BY <1>5, <1>7, <1>14, <1>15, <1>16 DEF Started
<1> QED
  BY <1>17 DEF new

(* attachPendingNested keeps the records sound.                            *)
LEMMA AttachSound ==
  ASSUME NEW rs \in Records, NEW ret, Sound(rs, ret), NEW root \in Recorded(rs), Direct(Child(root)),
         NEW a, a = AttachPendingNested(rs, root)
  PROVE  /\ a \in Records /\ Recorded(a) = Recorded(rs) /\ Sound(a, ret)
         /\ \A c \in Calls : ~Pending(rs, c) => a[c] = rs[c]
         /\ \A c \in Calls : Pending(rs, c) /\ a[c] # rs[c] => AttachedTo(rs, a, root, c)
<1>1. \A c \in Calls : Pending(rs, c) => rs[c].binding = None /\ ParentOf[Child(c)] \notin Remote
  BY PendingOfSound
<1>2. /\ a \in Records /\ Recorded(a) = Recorded(rs)
      /\ \A c \in Calls : ~Pending(rs, c) => a[c] = rs[c]
      /\ \A c \in Calls : Pending(rs, c) /\ a[c] # rs[c] => AttachedTo(rs, a, root, c)
  BY <1>1, AttachFacts
<1>3. /\ Child(root) \in Children /\ Top[Child(root)] = Child(root) /\ a[root] = rs[root]
      /\ root \in Calls /\ ~Pending(rs, root)
  BY <1>2, RecordedType, TopOf DEF Pending
<1>4. \A c \in Recorded(rs) : Placed(rs, c) /\ Rooted(rs, c) /\ Bound(rs, ret, c) /\ c \in Calls /\ c # None
  BY RecordedType DEF Sound
<1>5. \A c \in Recorded(rs) : Direct(Child(c)) \/ rs[c].binding # None \/ rs[c].root # None => a[c] = rs[c]
  BY <1>1, <1>2, <1>4 DEF Pending
<1>6. ASSUME NEW c \in Recorded(rs) PROVE Placed(a, c) /\ Rooted(a, c) /\ Bound(a, ret, c)
  <2>1. CASE a[c] = rs[c]
    <3>1. Placed(a, c)
      BY <2>1, <1>2, <1>4 DEF Placed
    <3>2. ASSUME rs[c].root # None PROVE Rooted(a, c)
      <4> DEFINE r == rs[c].root
      <4>1. r \in Recorded(rs) /\ Top[Child(r)] = Top[Child(c)]
        BY <1>4, <3>2 DEF Rooted
      <4>2. /\ rs[c].binding # None => rs[r].binding # None
            /\ rs[r].binding = None /\ Direct(Child(r)) => ParentOf[Child(c)] = Child(r)
        BY <1>4, <3>2 DEF Rooted
      <4>3. /\ rs[c].binding # None => a[r].binding # None
            /\ a[r].binding = None /\ Direct(Child(r)) => ParentOf[Child(c)] = Child(r)
        BY <1>5, <4>1, <4>2
      <4>4. a[c].root = r
        BY <2>1
      <4> HIDE DEF r
      <4> QED
        BY <1>2, <2>1, <4>1, <4>3, <4>4 DEF Rooted
    <3>3. ASSUME rs[c].binding # None PROVE Bound(a, ret, c)
      <4>1. PICK e \in Recorded(rs) : Direct(Child(e)) /\ Child(e) = rs[c].binding /\ rs[e].binding # None
        BY <1>4, <3>3 DEF Bound
      <4>2. e \in Recorded(a) /\ a[e] = rs[e]
        BY <1>2, <1>5, <4>1
      <4> QED
        BY <1>4, <2>1, <3>3, <4>1, <4>2 DEF Bound
    <3> QED
      BY <2>1, <3>1, <3>2, <3>3 DEF Rooted, Bound
  <2>2. CASE a[c] # rs[c]
    <3>1. Pending(rs, c) /\ AttachedTo(rs, a, root, c)
      BY <1>2, <1>4, <2>2
    <3>2. ~Direct(Child(c)) /\ rs[c].binding = None
      BY <1>1, <1>4, <3>1 DEF Pending
    <3> DEFINE e == a[c].root
    <3>3. /\ e \in Recorded(rs) /\ ParentOf[Child(c)] = Child(e)
          /\ Top[Child(c)] = Child(root) /\ Top[Child(e)] = Child(root)
          /\ e = root \/ (Pending(rs, e) /\ a[e] # rs[e])
          /\ rs[root].binding = None => a[c].binding = None
          /\ rs[root].binding # None => a[c].binding = rs[root].binding
      BY <3>1 DEF AttachedTo
    <3>4. rs[root].binding # None => a[e].binding = rs[root].binding
      <4>1. CASE e = root
        BY <4>1, <1>3
      <4>2. CASE Pending(rs, e) /\ a[e] # rs[e]
        BY <4>2, <1>2, <1>4, <3>3 DEF AttachedTo
      <4> QED
        BY <4>1, <4>2, <3>3
    <3>5. e # None /\ e \in Recorded(a)
      BY <1>2, <1>4, <3>3
    <3>6. a[c].root = e
      OBVIOUS
    <3> HIDE DEF e
    <3>7. Rooted(a, c)
      BY <3>3, <3>4, <3>5, <3>6 DEF Rooted
    <3>8. Placed(a, c)
      BY <1>2, <1>4, <3>2 DEF Placed
    <3>9. ASSUME a[c].binding # None PROVE Bound(a, ret, c)
      <4>1. rs[root].binding # None /\ a[c].binding = rs[root].binding
        BY <3>3, <3>9
      <4>2. rs[root].binding \in ret /\ rs[root].binding = Top[Child(root)]
        BY <1>4, <4>1 DEF Bound
      <4>3. root \in Recorded(a) /\ a[root].binding # None /\ Child(root) = a[c].binding
        BY <1>2, <1>3, <4>1, <4>2
      <4> QED
        BY <1>3, <3>3, <3>5, <3>6, <4>1, <4>2, <4>3 DEF Bound
    <3> QED
      BY <3>7, <3>8, <3>9 DEF Bound
  <2> QED
    BY <2>1, <2>2
<1> QED
  BY <1>2, <1>6 DEF Sound

(* The run of a direct child is not bound when it starts.                  *)
StartedAlone(rs, call) == AttachPendingNested([rs EXCEPT ![call] = Record(None, 1)], call)

(* The start of a run of a direct child keeps the records sound and binds  *)
(* nothing.                                                                *)
LEMMA DirectStarts ==
  ASSUME NEW rs, NEW ret, NEW call, rs \in Records, Sound(rs, ret), call \in Calls, rs[call] = None,
         Direct(Child(call))
  PROVE  /\ Started(rs, ret, call, StartedAlone(rs, call))
         /\ \A c \in Recorded(rs) : StartedAlone(rs, call)[c].binding = rs[c].binding
         /\ StartedAlone(rs, call)[call].binding = None
<1> DEFINE new == StartedAlone(rs, call)
<1>a. new = AttachPendingNested([rs EXCEPT ![call] = Record(None, 1)], call)
  BY DEF StartedAlone
<1> HIDE DEF new
<1> DEFINE r == Record(None, 1)
           rs0 == [rs EXCEPT ![call] = r]
<1>1. r \in LifecycleRecord /\ r.root = None /\ r.binding = None
  BY DEF Record, LifecycleRecord
<1> HIDE DEF r
<1>2. rs0 \in Records /\ \A c \in Calls : rs0[c] = IF c = call THEN r ELSE rs[c]
  BY <1>1 DEF Records
<1>3. Recorded(rs0) = Recorded(rs) \cup {call} /\ call \notin Recorded(rs)
  BY <1>1, <1>2, CapsAssumption DEF Recorded
<1>4. (\A c \in Recorded(rs) : rs0[c] = rs[c]) /\ rs0[call] = r
  BY <1>2 DEF Recorded
<1>5. new = AttachPendingNested(rs0, call)
  BY <1>a DEF r
<1> HIDE DEF rs0
<1>6. ASSUME NEW c \in Recorded(rs) PROVE Placed(rs0, c) /\ Rooted(rs0, c) /\ Bound(rs0, ret, c)
  <2>1. Placed(rs, c) /\ Rooted(rs, c) /\ Bound(rs, ret, c)
    BY DEF Sound
  <2>2. Placed(rs0, c)
    BY <2>1, <1>3, <1>4 DEF Placed
  <2>3. Rooted(rs0, c)
    BY <2>1, <1>3, <1>4 DEF Rooted
  <2>4. ASSUME rs0[c].binding # None PROVE Bound(rs0, ret, c)
    <3>1. rs0[c] = rs[c]
      BY <1>4
    <3>2. PICK e \in Recorded(rs) : Direct(Child(e)) /\ Child(e) = rs[c].binding /\ rs[e].binding # None
      BY <2>1, <2>4, <3>1 DEF Bound
    <3>3. e \in Recorded(rs0) /\ rs0[e] = rs[e]
      BY <1>3, <1>4
    <3> QED
      BY <2>1, <2>4, <3>1, <3>2, <3>3 DEF Bound
  <2> QED
    BY <2>2, <2>3, <2>4 DEF Bound
<1>7. Placed(rs0, call) /\ Rooted(rs0, call) /\ Bound(rs0, ret, call)
  BY <1>1, <1>4 DEF Placed, Rooted, Bound
<1>8. Sound(rs0, ret)
  BY <1>3, <1>6, <1>7 DEF Sound
<1>9. call \in Recorded(rs0)
  BY <1>3
<1>10. /\ new \in Records /\ Recorded(new) = Recorded(rs0) /\ Sound(new, ret)
       /\ \A c \in Calls : ~Pending(rs0, c) => new[c] = rs0[c]
       /\ \A c \in Calls : Pending(rs0, c) /\ new[c] # rs0[c] => AttachedTo(rs0, new, call, c)
  BY <1>2, <1>5, <1>8, <1>9, AttachSound
<1>11. new[call] = r
  BY <1>4, <1>10 DEF Pending
<1>12. \A c \in Recorded(rs) : c \in Calls /\ c \in Recorded(rs0)
  BY <1>3 DEF Recorded
<1>13. \A c \in Calls : Pending(rs0, c) => rs0[c].binding = None
  BY <1>2, <1>8, PendingOfSound
<1>14. \A c \in Recorded(rs) : new[c].binding = rs[c].binding /\ new[c].ended = rs[c].ended
  <2> TAKE c \in Recorded(rs)
  <2>1. c \in Calls /\ rs0[c] = rs[c]
    BY <1>4, <1>12
  <2>2. CASE new[c] # rs0[c]
    <3>1. Pending(rs0, c) /\ AttachedTo(rs0, new, call, c) /\ rs0[c].binding = None
      BY <1>10, <1>13, <2>1, <2>2
    <3>2. rs0[call].binding = None
      BY <1>1, <1>4
    <3> QED
      BY <2>1, <3>1, <3>2 DEF AttachedTo
  <2> QED
    BY <2>1, <2>2
<1>15. \A c \in Recorded(rs) : rs[c].binding # None => new[c] = rs[c]
  BY <1>4, <1>10, <1>12, <1>13
<1>16. Forward(rs, new) /\ Newly(rs, new) = {}
  <2>1. Forward(rs, new)
    BY <1>3, <1>10, <1>14, <1>15 DEF Forward
  <2>2. new[call].binding = None
    BY <1>1, <1>11
  <2>3. Newly(rs, new) = {}
    BY <1>3, <1>10, <1>14, <2>2 DEF Newly
  <2> QED
    BY <2>1, <2>3
<1>17. /\ Started(rs, ret, call, new) /\ \A c \in Recorded(rs) : new[c].binding = rs[c].binding
       /\ new[call].binding = None
  BY <1>1, <1>3, <1>10, <1>11, <1>14, <1>16 DEF Fresh, Started
<1> QED
  BY <1>17 DEF new

----------------------------------------------------------------------------
(* bindPendingNested and trackChild                                        *)

(* A direct child is at depth one.                                         *)
LEMMA DirectDepth == \A c \in Children : Direct(c) => Depth(c) = 1
<1> TAKE c \in Children
<1> HAVE Direct(c)
<1>1. Depth(Parent) = 0 /\ c # Parent /\ c \in Tree /\ ParentOf[c] = Parent
  BY DepthType, TreeAssumption DEF Tree, Direct
<1>2. Depth(c) = Depth(ParentOf[c]) + 1
  BY <1>1, DepthType
<1> QED
  BY <1>1, <1>2

(* What bindPendingNested starts from.                                     *)
Bindable(rs, ret, root) ==
  /\ rs \in Records /\ Sound(rs, ret) /\ root \in Recorded(rs) /\ Direct(Child(root))
  /\ rs[root].binding # None /\ rs[root].depth = 1
  /\ \A c \in Recorded(rs) : rs[c].root = root =>
       rs[c].binding = None /\ ParentOf[Child(c)] = Child(root)

(* What it makes of the records: those below the bound one follow it.      *)
AfterBinding(rs, ret, root, new) ==
  /\ new \in Records /\ Recorded(new) = Recorded(rs) /\ Sound(new, ret)
  /\ \A c \in Recorded(rs) : new[c].ended = rs[c].ended
  /\ \A c \in Recorded(rs) : rs[c].binding # None => new[c] = rs[c]
  /\ \A c \in Recorded(rs) : rs[c].binding = None /\ new[c].binding # None =>
       new[c].binding = rs[root].binding /\ new[c].depth = Depth(Child(c))

(* bindPendingNested keeps the records sound and gives the depth in the    *)
(* tree.                                                                   *)
LEMMA BindSound ==
  ASSUME NEW rs, NEW ret, NEW root, Bindable(rs, ret, root)
  PROVE  AfterBinding(rs, ret, root, BindPendingNested(rs, root))
<1> DEFINE new == BindPendingNested(rs, root)
<1>0. /\ rs \in Records /\ Sound(rs, ret) /\ root \in Recorded(rs) /\ Direct(Child(root))
      /\ rs[root].binding # None /\ rs[root].depth = 1
      /\ \A c \in Recorded(rs) : rs[c].root = root =>
           rs[c].binding = None /\ ParentOf[Child(c)] = Child(root)
  BY DEF Bindable
<1> DEFINE a == AttachPendingNested(rs, root)
<1>1. /\ a \in Records /\ Recorded(a) = Recorded(rs) /\ Sound(a, ret)
      /\ \A c \in Calls : ~Pending(rs, c) => a[c] = rs[c]
      /\ \A c \in Calls : Pending(rs, c) /\ a[c] # rs[c] => AttachedTo(rs, a, root, c)
  BY <1>0, AttachSound
<1>2. new = [c \in Calls |-> IF a[c] # None /\ a[c].root = root
                             THEN BoundUnder(a[c], a[root]) ELSE a[c]]
  BY DEF BindPendingNested, new
<1> HIDE DEF a, new
<1>3. /\ a[root] = rs[root] /\ root \in Calls /\ Child(root) \in Children /\ Top[Child(root)] = Child(root)
      /\ rs[root] \in LifecycleRecord /\ rs[root].root = None /\ root # None
  BY <1>0, <1>1, RecordedType, TopOf DEF Pending, Sound, Placed
<1>4. \A c \in Recorded(rs) : /\ c \in Calls /\ c # None /\ a[c] # None
                              /\ a[c] \in LifecycleRecord /\ rs[c] \in LifecycleRecord
                              /\ Child(c) \in Children
  BY <1>0, <1>1, RecordedType, CapsAssumption
<1>5. rs[root].binding \in DOMAIN Bindings /\ rs[root].depth \in Nat
  BY <1>0, <1>3 DEF LifecycleRecord
<1>6. ASSUME NEW c \in Recorded(rs)
      PROVE  /\ a[c].root # root => new[c] = a[c]
             /\ a[c].root = root => /\ new[c] \in LifecycleRecord /\ new[c].root = root
                                    /\ new[c].ended = a[c].ended
                                    /\ new[c].binding = rs[root].binding /\ new[c].depth = 2
  <2>1. CASE a[c].root # root
    BY <1>0, <2>1, <1>2, <1>4
  <2>2. CASE a[c].root = root
    <3>1. new[c] = BoundUnder(a[c], rs[root]) /\ a[c] \in LifecycleRecord
      BY <1>0, <2>2, <1>2, <1>3, <1>4
    <3>2. rs[root].depth + 1 = 2 /\ rs[root].binding \in DOMAIN Bindings \cup {None}
      BY <1>0, <1>5
    <3> QED
      BY <1>0, <2>2, <3>1, <3>2, <1>5, BoundUnderType
  <2> QED
    BY <1>0, <2>1, <2>2
<1>7. \A c \in Calls \ Recorded(rs) : new[c] = None
  BY <1>0, <1>1, <1>2 DEF Recorded
<1>8. \A c \in Recorded(rs) : new[c] \in LifecycleRecord
  BY <1>0, <1>4, <1>6
<1>9. new \in Records /\ Recorded(new) = Recorded(rs)
  <2>1. \A c \in Calls : new[c] \in LifecycleRecord \cup {None}
    BY <1>0, <1>7, <1>8
  <2>2. new = [c \in Calls |-> new[c]]
    BY <1>0, <1>2
  <2>3. new \in Records
    BY <1>0, <2>1, <2>2 DEF Records
  <2> QED
    BY <1>0, <1>7, <1>8, <2>3, CapsAssumption DEF Recorded
<1>10. \A c \in Recorded(rs) : rs[c].binding # None => a[c] = rs[c] /\ new[c] = rs[c]
  <2> TAKE c \in Recorded(rs)
  <2> HAVE rs[c].binding # None
  <2>1. ~Pending(rs, c)
    BY <1>0, <1>4, PendingOfSound
  <2>2. a[c] = rs[c] /\ rs[c].root # root
    BY <1>0, <1>1, <1>4, <2>1
  <2> QED
    BY <1>0, <1>6, <2>2
<1>11. \A c \in Recorded(rs) : Pending(rs, c) /\ a[c] # rs[c] => a[c].depth = Depth(Child(c))
  <2> DEFINE S == {c \in Recorded(rs) : Pending(rs, c) /\ a[c] # rs[c] /\ a[c].depth # Depth(Child(c))}
  <2>1. SUFFICES ASSUME S # {} PROVE FALSE
    OBVIOUS
  <2>2. PICK c \in S : \A d \in S : Child(d) # ParentOf[Child(c)]
    <3> HIDE DEF S
    <3>1. S \in SUBSET Calls
      BY DEF S, Recorded
    <3> QED
      BY <1>0, <2>1, <3>1, UppermostCall
  <2> DEFINE e == a[c].root
  <2>3. /\ e \in Recorded(rs) /\ ParentOf[Child(c)] = Child(e)
        /\ e = root \/ (Pending(rs, e) /\ a[e] # rs[e])
        /\ a[c].depth = a[e].depth + 1
    BY <1>0, <1>1, <1>4, <2>2 DEF AttachedTo
  <2>4. Depth(Child(c)) = Depth(Child(e)) + 1
    BY <1>0, <1>4, <2>2, <2>3, DepthType, TreeAssumption DEF Tree
  <2>5. CASE e = root
    <3>1. Depth(Child(root)) = 1
      BY <1>0, <1>3, DirectDepth
    <3> QED
      BY <1>0, <1>3, <2>2, <2>3, <2>4, <2>5, <3>1
  <2>6. CASE Pending(rs, e) /\ a[e] # rs[e]
    <3>1. e \notin S
      BY <1>0, <2>2, <2>3
    <3>2. a[e].depth = Depth(Child(e))
      BY <1>0, <2>3, <2>6, <3>1
    <3> QED
      BY <1>0, <2>2, <2>3, <2>4, <3>2
  <2> QED
    BY <1>0, <2>3, <2>5, <2>6
<1>12. \A c \in Recorded(rs) : a[c].root = root => ParentOf[Child(c)] = Child(root)
  <2> TAKE c \in Recorded(rs)
  <2> HAVE a[c].root = root
  <2>1. CASE a[c] = rs[c]
    BY <1>0, <2>1
  <2>2. CASE a[c] # rs[c]
    BY <1>0, <2>2, <1>1, <1>4 DEF AttachedTo
  <2> QED
    BY <1>0, <2>1, <2>2
<1>13. \A c \in Recorded(rs) : a[c].root = root => Depth(Child(c)) = 2 /\ Top[Child(c)] = Child(root)
  <2> TAKE c \in Recorded(rs)
  <2> HAVE a[c].root = root
  <2>1. ParentOf[Child(c)] = Child(root) /\ Child(c) \in Children
    BY <1>0, <1>4, <1>12
  <2>2. Depth(Child(root)) = 1
    BY <1>0, <1>3, DirectDepth
  <2>3. Depth(Child(c)) = Depth(Child(root)) + 1
    BY <1>0, <2>1, DepthType, TreeAssumption DEF Tree
  <2>4. ~Direct(Child(c))
    BY <1>0, <2>1, <1>3, TreeAssumption DEF Direct
  <2> QED
    BY <1>0, <1>3, <2>1, <2>2, <2>3, <2>4, TopOf
<1>14. ASSUME NEW c \in Recorded(rs), rs[c].binding = None, new[c].binding # None
       PROVE  new[c].binding = rs[root].binding /\ new[c].depth = Depth(Child(c))
  <2>1. CASE a[c].root = root
    BY <1>0, <2>1, <1>6, <1>13
  <2>2. CASE a[c].root # root
    <3>1. new[c] = a[c] /\ a[c] # rs[c]
      BY <1>0, <1>6, <1>14, <2>2
    <3>2. Pending(rs, c) /\ AttachedTo(rs, a, root, c)
      BY <1>0, <1>1, <1>4, <3>1
    <3> QED
      BY <1>0, <1>11, <3>1, <3>2 DEF AttachedTo
  <2> QED
    BY <1>0, <2>1, <2>2
<1>15. \A c \in Recorded(rs) : new[c].ended = rs[c].ended
  <2> TAKE c \in Recorded(rs)
  <2>1. a[c].ended = rs[c].ended
    <3>1. CASE a[c] = rs[c]
      BY <1>0, <3>1
    <3>2. CASE a[c] # rs[c]
      BY <1>0, <3>2, <1>1, <1>4 DEF AttachedTo
    <3> QED
      BY <1>0, <3>1, <3>2
  <2> QED
    BY <1>0, <1>6, <2>1
<1>16. ASSUME NEW c \in Recorded(rs) PROVE Placed(new, c) /\ Rooted(new, c) /\ Bound(new, ret, c)
  <2>1. Placed(a, c) /\ Rooted(a, c) /\ Bound(a, ret, c)
    BY <1>0, <1>1 DEF Sound
  <2>2. new[c].root = a[c].root
    BY <1>0, <1>6
  <2>3. Placed(new, c)
    BY <1>0, <1>1, <1>9, <2>1, <2>2 DEF Placed
  <2>4. ASSUME NEW d \in Recorded(rs) PROVE a[d].binding # None => new[d].binding = a[d].binding
    <3>1. CASE a[d].root # root
      BY <1>0, <3>1, <1>6
    <3>2. CASE rs[d].binding # None
      BY <1>0, <3>2, <1>10
    <3>3. ASSUME a[d].root = root, rs[d].binding = None, a[d].binding # None
          PROVE  new[d].binding = a[d].binding
      <4>1. AttachedTo(rs, a, root, d)
        BY <1>0, <1>1, <1>4, <3>3
      <4>2. a[d].binding = rs[root].binding
        BY <4>1 DEF AttachedTo
      <4> QED
        BY <1>0, <1>6, <3>3, <4>2
    <3> QED
      BY <1>0, <3>1, <3>2, <3>3
  <2>5. ASSUME new[c].root # None PROVE Rooted(new, c)
    <3> DEFINE r == a[c].root
    <3>1. r \in Recorded(rs) /\ Top[Child(r)] = Top[Child(c)]
      BY <1>0, <1>1, <2>1, <2>2, <2>5 DEF Rooted
    <3>2. new[c].binding # None => new[r].binding # None
      <4>1. CASE r = root
        BY <4>1, <1>0, <1>3, <1>10
      <4>2. CASE r # root
        <5>1. new[c] = a[c]
          BY <1>0, <1>6, <4>2
        <5>2. new[c].binding # None => a[r].binding # None
          BY <5>1, <2>1, <2>2, <2>5 DEF Rooted
        <5> QED
          BY <1>0, <2>4, <3>1, <5>2
      <4> QED
        BY <4>1, <4>2
    <3>3. new[r].binding = None /\ Direct(Child(r)) => ParentOf[Child(c)] = Child(r)
      <4>1. new[r].binding = None => a[r].binding = None
        BY <1>0, <2>4, <3>1
      <4> QED
        BY <4>1, <2>1, <2>2, <2>5 DEF Rooted
    <3>4. new[c].root = r
      BY <1>0, <2>2
    <3> HIDE DEF r
    <3> QED
      BY <1>0, <1>9, <3>1, <3>2, <3>3, <3>4 DEF Rooted
  <2>6. ASSUME new[c].binding # None PROVE Bound(new, ret, c)
    <3>1. CASE a[c].root = root
      <4>1. new[c].binding = rs[root].binding /\ new[c].root = root
        BY <1>0, <1>6, <3>1
      <4>2. Bound(rs, ret, root)
        BY <1>0 DEF Sound
      <4>3. rs[root].binding \in ret /\ rs[root].binding = Child(root)
        BY <1>0, <1>3, <4>2 DEF Bound
      <4>4. root \in Recorded(new) /\ new[root].binding # None
        BY <1>0, <1>9, <1>10
      <4> QED
        BY <1>0, <1>3, <1>13, <3>1, <4>1, <4>3, <4>4 DEF Bound
    <3>2. CASE a[c].root # root
      <4>1. new[c] = a[c]
        BY <1>0, <1>6, <3>2
      <4>2. PICK e \in Recorded(rs) : Direct(Child(e)) /\ Child(e) = a[c].binding /\ a[e].binding # None
        BY <1>0, <1>1, <2>1, <2>6, <4>1 DEF Bound
      <4>3. e \in Recorded(new) /\ new[e].binding # None
        BY <1>0, <1>9, <2>4, <4>2
      <4> QED
        BY <1>0, <2>1, <2>6, <4>1, <4>2, <4>3 DEF Bound
    <3> QED
      BY <1>0, <3>1, <3>2
  <2> QED
    BY <1>0, <2>3, <2>5, <2>6 DEF Rooted, Bound
<1> QED
  BY <1>9, <1>10, <1>14, <1>15, <1>16 DEF Sound, AfterBinding, new

(* The records when start() of a child of the plan returned.               *)
WhenTracked(rs, child, candidate) ==
  BindPendingNested([rs EXCEPT ![candidate].binding = child, ![candidate].depth = 1], candidate)

(* What trackChild makes of the records.                                   *)
Tracked(rs, ret, child, candidate, new) ==
  /\ new \in Records /\ Recorded(new) = Recorded(rs) /\ Sound(new, ret \cup {child})
  /\ Forward(rs, new) /\ Fresh(rs, new, ret)
  /\ candidate \in Recorded(rs) /\ Child(candidate) = child /\ Direct(child)
  /\ new[candidate].binding = child

(* trackChild keeps the records sound and binds under a new binding only.  *)
LEMMA ChildTracked ==
  ASSUME NEW rs, NEW ret, NEW child, NEW candidate, rs \in Records, Sound(rs, ret),
         child \in DOMAIN Bindings \ ret, candidate = UnboundRootRecord(rs, child), candidate # None
  PROVE  Tracked(rs, ret, child, candidate, WhenTracked(rs, child, candidate))
<1> DEFINE new == WhenTracked(rs, child, candidate)
<1>0. new = BindPendingNested([rs EXCEPT ![candidate].binding = child,
                                         ![candidate].depth = 1], candidate)
  BY DEF WhenTracked
<1> HIDE DEF new
<1>1. /\ candidate \in Recorded(rs) /\ Child(candidate) = child /\ Direct(child)
      /\ rs[candidate].binding = None /\ candidate \in Calls /\ rs[candidate] \in LifecycleRecord
      /\ child \in Children /\ child # None
  BY UnboundRootRecordIs, RecordedType, TreeAssumption, CapsAssumption
<1> DEFINE r == [rs[candidate] EXCEPT !.binding = child, !.depth = 1]
           rs0 == [rs EXCEPT ![candidate] = r]
           more == ret \cup {child}
<1>2. /\ r \in LifecycleRecord /\ r.root = rs[candidate].root /\ r.depth = 1
      /\ r.binding = child /\ r.ended = rs[candidate].ended
  BY <1>1 DEF LifecycleRecord
<1>3. [rs EXCEPT ![candidate].binding = child, ![candidate].depth = 1] = rs0
  <2>1. DOMAIN rs = Calls
    BY DEF Records
  <2> QED
    BY <1>1, <2>1
<1> HIDE DEF r
<1>4. rs0 \in Records /\ \A c \in Calls : rs0[c] = IF c = candidate THEN r ELSE rs[c]
  BY <1>1, <1>2 DEF Records
<1> HIDE DEF rs0
<1>5. Recorded(rs0) = Recorded(rs)
  BY <1>1, <1>2, <1>4, CapsAssumption DEF Recorded
<1>6. \A c \in Recorded(rs) : /\ rs0[c].root = rs[c].root /\ rs0[c].ended = rs[c].ended
                              /\ c # candidate => rs0[c] = rs[c]
  BY <1>2, <1>4 DEF Recorded
<1>7. rs0[candidate] = r
  BY <1>1, <1>4
<1>8. \A c \in Recorded(rs) : Placed(rs, c) /\ Rooted(rs, c) /\ Bound(rs, ret, c)
  BY DEF Sound
<1>9. ASSUME NEW c \in Recorded(rs) PROVE Placed(rs0, c) /\ Rooted(rs0, c) /\ Bound(rs0, more, c)
  <2>1. Placed(rs0, c)
    BY <1>5, <1>6, <1>8 DEF Placed
  <2>2. ASSUME rs[c].root # None PROVE Rooted(rs0, c)
    <3> DEFINE e == rs[c].root
    <3>1. /\ e \in Recorded(rs) /\ Top[Child(e)] = Top[Child(c)]
          /\ rs[c].binding # None => rs[e].binding # None
          /\ rs[e].binding = None /\ Direct(Child(e)) => ParentOf[Child(c)] = Child(e)
      BY <1>8, <2>2 DEF Rooted
    <3>2. rs0[c].binding # None => rs0[e].binding # None
      <4>1. c # candidate
        BY <1>1, <1>8, <2>2 DEF Placed
      <4> QED
        BY <1>1, <1>2, <1>6, <1>7, <3>1, <4>1
    <3>3. rs0[e].binding = None /\ Direct(Child(e)) => ParentOf[Child(c)] = Child(e)
      BY <1>1, <1>2, <1>6, <1>7, <3>1
    <3>4. rs0[c].root = e
      BY <1>6
    <3> HIDE DEF e
    <3> QED
      BY <1>5, <3>1, <3>2, <3>3, <3>4 DEF Rooted
  <2>3. ASSUME rs0[c].binding # None PROVE Bound(rs0, more, c)
    <3>1. CASE c = candidate
      <4>1. Top[Child(c)] = child
        BY <1>1, <3>1, TopOf
      <4> QED
        BY <1>1, <1>2, <1>5, <1>7, <3>1, <4>1 DEF Bound
    <3>2. CASE c # candidate
      <4>1. rs0[c] = rs[c]
        BY <1>6, <3>2
      <4>2. PICK e \in Recorded(rs) : Direct(Child(e)) /\ Child(e) = rs[c].binding /\ rs[e].binding # None
        BY <1>8, <2>3, <4>1 DEF Bound
      <4>3. e \in Recorded(rs0) /\ rs0[e].binding # None
        BY <1>1, <1>5, <1>6, <4>2
      <4> QED
        BY <1>8, <2>3, <4>1, <4>2, <4>3 DEF Bound
    <3> QED
      BY <3>1, <3>2
  <2> QED
    BY <1>6, <2>1, <2>2, <2>3 DEF Rooted, Bound
<1>10. Sound(rs0, more)
  BY <1>5, <1>9 DEF Sound
<1>11. \A c \in Recorded(rs0) : rs0[c].root = candidate =>
         rs0[c].binding = None /\ ParentOf[Child(c)] = Child(candidate)
  <2> TAKE c \in Recorded(rs0)
  <2> HAVE rs0[c].root = candidate
  <2>1. c \in Recorded(rs) /\ rs[c].root = candidate
    BY <1>5, <1>6
  <2>2. rs[c].binding = None /\ ParentOf[Child(c)] = Child(candidate)
    BY <1>1, <1>8, <2>1 DEF Rooted
  <2>3. c # candidate
    BY <1>1, <1>8, <2>1, RecordedType DEF Placed
  <2> QED
    BY <1>6, <2>1, <2>2, <2>3
<1>12. /\ candidate \in Recorded(rs0) /\ Direct(Child(candidate)) /\ rs0[candidate].binding = child
       /\ rs0[candidate].binding # None /\ rs0[candidate].depth = 1
       /\ new = BindPendingNested(rs0, candidate)
  <2>1. candidate \in Recorded(rs0) /\ Direct(Child(candidate))
    BY <1>1, <1>5
  <2>2. rs0[candidate].binding = child /\ rs0[candidate].binding # None /\ rs0[candidate].depth = 1
    BY <1>1, <1>2, <1>7
  <2>3. new = BindPendingNested(rs0, candidate)
    BY <1>0, <1>3
  <2> QED
    BY <2>1, <2>2, <2>3
<1> HIDE DEF more
<1>a. Bindable(rs0, more, candidate)
  BY <1>4, <1>10, <1>11, <1>12 DEF Bindable
<1>13. /\ new \in Records /\ Recorded(new) = Recorded(rs0) /\ Sound(new, more)
       /\ \A c \in Recorded(rs0) : new[c].ended = rs0[c].ended
       /\ \A c \in Recorded(rs0) : rs0[c].binding # None => new[c] = rs0[c]
       /\ \A c \in Recorded(rs0) : rs0[c].binding = None /\ new[c].binding # None =>
            new[c].binding = rs0[candidate].binding /\ new[c].depth = Depth(Child(c))
  <2>1. AfterBinding(rs0, more, candidate, new)
    BY <1>12, <1>a, BindSound
  <2> QED
    BY <2>1 DEF AfterBinding
<1>14. Forward(rs, new)
  <2> SUFFICES ASSUME NEW c \in Recorded(rs)
               PROVE  /\ c \in Recorded(new) /\ (rs[c].ended => new[c].ended)
                      /\ rs[c].binding # None =>
                           new[c].binding = rs[c].binding /\ new[c].depth = rs[c].depth
    BY DEF Forward
  <2>1. c \in Recorded(new) /\ new[c].ended = rs[c].ended
    BY <1>5, <1>6, <1>13
  <2>2. rs[c].binding # None => new[c] = rs[c]
    BY <1>1, <1>5, <1>6, <1>13
  <2> QED
    BY <2>1, <2>2
<1>15. ASSUME NEW c \in Newly(rs, new)
       PROVE  c \in Recorded(rs) /\ new[c].binding = child /\ new[c].depth = Depth(Child(c))
  <2>1. c \in Recorded(rs) /\ new[c].binding # None /\ rs[c].binding = None
    BY <1>5, <1>13 DEF Newly
  <2>2. CASE c = candidate
    <3>1. Depth(Child(candidate)) = 1
      BY <1>1, DirectDepth
    <3> QED
      BY <1>12, <1>13, <2>1, <2>2, <3>1
  <2>3. CASE c # candidate
    <3>1. rs0[c].binding = None /\ c \in Recorded(rs0)
      BY <1>5, <1>6, <2>1, <2>3
    <3> QED
      BY <1>5, <1>12, <1>13, <2>1, <3>1
  <2> QED
    BY <2>2, <2>3
<1>16. ASSUME NEW c \in Newly(rs, new), NEW e \in Newly(rs, new), Child(e) = ParentOf[Child(c)]
       PROVE  new[e].depth < new[c].depth
  <2>1. Child(c) \in Tree /\ Child(e) \in Tree /\ Child(c) # Parent
    BY <1>15, RecordedType, TreeAssumption DEF Tree
  <2>2. Depth(Child(c)) = Depth(Child(e)) + 1 /\ Depth(Child(e)) \in Nat
    BY <1>16, <2>1, DepthType
  <2>3. new[e].depth = Depth(Child(e)) /\ new[c].depth = Depth(Child(c))
    BY <1>15
  <2>4. \A n \in Nat : n < n + 1
    OBVIOUS
  <2> QED
    BY <2>2, <2>3, <2>4
<1>17. Fresh(rs, new, ret)
  BY <1>15, <1>16 DEF Fresh
<1>18. Tracked(rs, ret, child, candidate, new)
  BY <1>1, <1>5, <1>12, <1>13, <1>14, <1>17 DEF more, Tracked
<1> QED
  BY <1>18 DEF new

----------------------------------------------------------------------------
(* The order of the rows                                                   *)

(* The runs of one child in turn.                                          *)
Number(row) == IF row.run = None THEN 0 ELSE row.run[2]

(* The order of the rows, spelled out.                                     *)
LEMMA PrecedesIs ==
  ASSUME NEW q, NEW r
  PROVE  LET k == Key(q) m == Key(r)
         IN Precedes(q, r) <=>
              \/ k[1] < m[1]
              \/ k[1] = m[1] /\ k[2] < m[2]
              \/ k[1] = m[1] /\ k[2] = m[2] /\ k[3] < m[3]
              \/ k[1] = m[1] /\ k[2] = m[2] /\ k[3] = m[3] /\ k[4] < m[4]
              \/ k[1] = m[1] /\ k[2] = m[2] /\ k[3] = m[3] /\ k[4] = m[4] /\ k[5] < m[5]
<1> DEFINE k == Key(q)
           m == Key(r)
<1>1. Precedes(q, r) <=> \E i \in 1..5 : k[i] < m[i] /\ \A j \in 1..(i - 1) : k[j] = m[j]
  BY DEF Precedes
<1> HIDE DEF k, m
<1>2. \A i : i \in 1..5 <=> i = 1 \/ i = 2 \/ i = 3 \/ i = 4 \/ i = 5
  OBVIOUS
<1>3. /\ \A j : j \in 1..(1 - 1) <=> FALSE
      /\ \A j : j \in 1..(2 - 1) <=> j = 1
      /\ \A j : j \in 1..(3 - 1) <=> j = 1 \/ j = 2
      /\ \A j : j \in 1..(4 - 1) <=> j = 1 \/ j = 2 \/ j = 3
      /\ \A j : j \in 1..(5 - 1) <=> j = 1 \/ j = 2 \/ j = 3 \/ j = 4
  OBVIOUS
<1>4. (\E i \in 1..5 : k[i] < m[i] /\ \A j \in 1..(i - 1) : k[j] = m[j]) <=>
         \/ k[1] < m[1] /\ \A j \in 1..(1 - 1) : k[j] = m[j]
         \/ k[2] < m[2] /\ \A j \in 1..(2 - 1) : k[j] = m[j]
         \/ k[3] < m[3] /\ \A j \in 1..(3 - 1) : k[j] = m[j]
         \/ k[4] < m[4] /\ \A j \in 1..(4 - 1) : k[j] = m[j]
         \/ k[5] < m[5] /\ \A j \in 1..(5 - 1) : k[j] = m[j]
  BY <1>2, Zenon
<1>5. /\ \A j \in 1..(1 - 1) : k[j] = m[j]
      /\ (\A j \in 1..(2 - 1) : k[j] = m[j]) <=> k[1] = m[1]
      /\ (\A j \in 1..(3 - 1) : k[j] = m[j]) <=> k[1] = m[1] /\ k[2] = m[2]
      /\ (\A j \in 1..(4 - 1) : k[j] = m[j]) <=> k[1] = m[1] /\ k[2] = m[2] /\ k[3] = m[3]
      /\ (\A j \in 1..(5 - 1) : k[j] = m[j]) <=> k[1] = m[1] /\ k[2] = m[2] /\ k[3] = m[3] /\ k[4] = m[4]
  BY <1>3, Zenon
<1>6. Precedes(q, r) <=>
              \/ k[1] < m[1]
              \/ k[1] = m[1] /\ k[2] < m[2]
              \/ k[1] = m[1] /\ k[2] = m[2] /\ k[3] < m[3]
              \/ k[1] = m[1] /\ k[2] = m[2] /\ k[3] = m[3] /\ k[4] < m[4]
              \/ k[1] = m[1] /\ k[2] = m[2] /\ k[3] = m[3] /\ k[4] = m[4] /\ k[5] < m[5]
  BY <1>1, <1>4, <1>5, Zenon
<1> QED
  BY <1>6 DEF k, m

(* The places of a row are numbers.                                        *)
Keyed(row) == Key(row) \in [1..5 -> Nat]

(* Rows that are told apart by their children and runs.                    *)
Distinct(rows) ==
  /\ IsFiniteSet(rows) /\ \A r \in rows : Keyed(r)
  /\ \A q, r \in rows : q # r => Key(q)[4] # Key(r)[4] \/ Key(q)[5] # Key(r)[5]

(* Such rows are in a total order.                                         *)
LEMMA PrecedesOrders ==
  ASSUME NEW rows, Distinct(rows)
  PROVE  /\ \A r \in rows : ~Precedes(r, r)
         /\ \A p, q, r \in rows : Precedes(p, q) /\ Precedes(q, r) => Precedes(p, r)
         /\ \A q, r \in rows : q = r \/ Precedes(q, r) \/ Precedes(r, q)
<1>1. \A r \in rows : Key(r)[1] \in Nat /\ Key(r)[2] \in Nat /\ Key(r)[3] \in Nat
                        /\ Key(r)[4] \in Nat /\ Key(r)[5] \in Nat
  BY DEF Distinct, Keyed
<1>2. \A r \in rows : ~Precedes(r, r)
  BY <1>1, PrecedesIs
<1>3. ASSUME NEW p \in rows, NEW q \in rows, NEW r \in rows, Precedes(p, q), Precedes(q, r)
      PROVE  Precedes(p, r)
  BY <1>1, <1>3, PrecedesIs
<1>4. ASSUME NEW q \in rows, NEW r \in rows, q # r
      PROVE  Precedes(q, r) \/ Precedes(r, q)
  <2>1. Key(q)[4] # Key(r)[4] \/ Key(q)[5] # Key(r)[5]
    BY <1>4 DEF Distinct
  <2> QED
    BY <1>1, <2>1, PrecedesIs
<1> QED
  BY <1>2, <1>3, <1>4

(* The rows before a row.                                                  *)
RowsBefore(rows, r) == {q \in rows : Precedes(q, r)}

(* A later row has more rows before it.                                    *)
LEMMA BeforeGrows ==
  ASSUME NEW rows, Distinct(rows), NEW q \in rows, NEW r \in rows, Precedes(q, r)
  PROVE  /\ Cardinality(RowsBefore(rows, q)) \in Nat /\ Cardinality(RowsBefore(rows, r)) \in Nat
         /\ Cardinality(RowsBefore(rows, q)) < Cardinality(RowsBefore(rows, r))
<1>1. IsFiniteSet(RowsBefore(rows, r)) /\ RowsBefore(rows, q) \subseteq RowsBefore(rows, r)
      /\ q \in RowsBefore(rows, r) /\ q \notin RowsBefore(rows, q)
  <2>1. IsFiniteSet(rows) /\ RowsBefore(rows, r) \subseteq rows
    BY DEF Distinct, RowsBefore
  <2> QED
    BY <2>1, PrecedesOrders, FS_Subset DEF RowsBefore
<1>2. RowsBefore(rows, q) # RowsBefore(rows, r)
  BY <1>1
<1> QED
  BY <1>1, <1>2, FS_Subset, FS_CardinalityType

(* The leading rows have few before them.                                  *)
LEMMA LeadingIs ==
  \A rows, n : Leading(rows, n) = {r \in rows : Cardinality(RowsBefore(rows, r)) < n}
  BY DEF Leading, RowsBefore

(* The leading rows are as many as they may be.                            *)
LEMMA LeadingBounds ==
  ASSUME NEW rows, Distinct(rows), NEW n \in Nat
  PROVE  /\ Leading(rows, n) \subseteq rows /\ IsFiniteSet(Leading(rows, n))
         /\ Cardinality(Leading(rows, n)) \in Nat /\ Cardinality(Leading(rows, n)) <= n
         /\ \A q \in rows, r \in Leading(rows, n) : Precedes(q, r) => q \in Leading(rows, n)
         /\ Leading(rows, n) # rows => Cardinality(Leading(rows, n)) >= n
<1> DEFINE L == Leading(rows, n)
           C(r) == Cardinality(RowsBefore(rows, r))
<1>1. L = {r \in rows : C(r) < n}
  BY LeadingIs
<1>2. IsFiniteSet(rows) /\ Cardinality(rows) \in Nat
  BY FS_CardinalityType DEF Distinct
<1>3. \A r \in rows : /\ RowsBefore(rows, r) \subseteq rows /\ IsFiniteSet(RowsBefore(rows, r))
                      /\ C(r) \in Nat /\ C(r) <= Cardinality(rows)
  <2>1. \A r \in rows : RowsBefore(rows, r) \subseteq rows
    BY DEF RowsBefore
  <2> QED
    BY <1>2, <2>1, FS_Subset, FS_CardinalityType
<1>4. L \subseteq rows /\ IsFiniteSet(L) /\ Cardinality(L) \in Nat
  <2>1. L \subseteq rows
    BY <1>1
  <2> HIDE DEF L
  <2> QED
    BY <1>2, <2>1, FS_Subset, FS_CardinalityType
<1>5. ASSUME NEW q \in rows, NEW r \in L, Precedes(q, r) PROVE q \in L
  <2>1. C(q) < C(r) /\ C(r) < n /\ C(q) \in Nat /\ C(r) \in Nat
    BY <1>1, <1>5, BeforeGrows
  <2> HIDE DEF C, L
  <2> QED
    BY <1>1, <2>1
<1> HIDE DEF L, C
<1>6. Cardinality(L) <= n
  <2>1. SUFFICES ASSUME L # {} PROVE Cardinality(L) <= n
    BY FS_EmptySet
  <2> DEFINE P == {k \in Nat : \E r \in L : k + C(r) = Cardinality(rows)}
  <2>2. \A r \in L : Cardinality(rows) - C(r) \in P
    BY <1>2, <1>3, <1>4
  <2>3. PICK m \in P : \A k \in P : m <= k
    <3>1. P # {} /\ P \in SUBSET Nat
      BY <2>1, <2>2
    <3> HIDE DEF P
    <3> QED
      BY <3>1, LeastNumber
  <2>4. PICK r \in L : m + C(r) = Cardinality(rows)
    BY <2>3
  <2>5. \A q \in L : C(q) <= C(r)
    BY <1>2, <1>3, <1>4, <2>2, <2>3, <2>4
  <2>6. \A q \in L : q = r \/ Precedes(q, r)
    <3> TAKE q \in L
    <3>1. Precedes(r, q) => C(r) < C(q) /\ C(r) \in Nat /\ C(q) \in Nat
      BY <1>4, BeforeGrows DEF C
    <3>2. C(q) <= C(r)
      BY <2>5
    <3>3. q = r \/ Precedes(q, r) \/ Precedes(r, q)
      BY <1>4, PrecedesOrders
    <3> QED
      BY <3>1, <3>2, <3>3
  <2>7. L \ {r} \subseteq RowsBefore(rows, r)
    BY <1>4, <2>6 DEF RowsBefore
  <2>8. Cardinality(L \ {r}) <= C(r) /\ Cardinality(L \ {r}) = Cardinality(L) - 1
    <3>1. IsFiniteSet(RowsBefore(rows, r))
      BY <1>3, <1>4
    <3> QED
      BY <1>4, <2>7, <3>1, FS_Subset, FS_RemoveElement DEF C
  <2>9. C(r) < n /\ C(r) \in Nat
    BY <1>1, <1>3
  <2> QED
    BY <1>4, <2>8, <2>9
<1>7. ASSUME L # rows PROVE Cardinality(L) >= n
  <2> DEFINE P == {k \in Nat : \E r \in rows \ L : k = C(r)}
  <2>1. PICK m \in P : \A k \in P : m <= k
    <3>1. P # {} /\ P \in SUBSET Nat
      BY <1>3, <1>4, <1>7
    <3> HIDE DEF P
    <3> QED
      BY <3>1, LeastNumber
  <2>2. PICK r \in rows \ L : m = C(r)
    BY <2>1
  <2>3. C(r) \in Nat /\ C(r) >= n
    BY <1>1, <1>3, <2>2
  <2>4. \A q \in RowsBefore(rows, r) : q \in L
    <3> TAKE q \in RowsBefore(rows, r)
    <3>1. q \in rows /\ C(q) < C(r) /\ C(q) \in Nat
      BY BeforeGrows DEF RowsBefore, C
    <3>2. q \notin L => C(q) \in P
      BY <3>1
    <3> QED
      BY <2>1, <2>2, <2>3, <3>1, <3>2
  <2>5. Cardinality(RowsBefore(rows, r)) <= Cardinality(L)
    BY <1>4, <2>4, FS_Subset
  <2> QED
    BY <1>4, <2>3, <2>5 DEF C
<1> QED
  BY <1>4, <1>5, <1>6, <1>7 DEF L

----------------------------------------------------------------------------
(* Participants                                                            *)

(* The places of a participant are numbers.                                *)
LEMMA ParticipantKeyed == \A r \in Participant : Keyed(r)
<1> TAKE r \in Participant
<1>1. /\ StagesOf[r.stage].order \in Nat /\ r.index \in Nat /\ r.depth \in Nat /\ r.child \in Nat
  BY TreeAssumption DEF Participant
<1>2. (IF r.run = None THEN 0 ELSE r.run[2]) \in Nat
  <2>1. r.run \in Calls \cup {None}
    BY DEF Participant
  <2> QED
    BY <2>1, TreeAssumption
<1> QED
  BY <1>1, <1>2 DEF Keyed, Key

(* sameParticipant, spelled out.                                           *)
LEMMA SameIs ==
  \A p, q \in Participant : SameParticipant(p, q) <=>
    /\ p.child = q.child /\ p.parent = q.parent /\ p.depth = q.depth /\ p.stage = q.stage
    /\ p.index = q.index /\ p.run = q.run /\ p.source = q.source
    /\ p.state = "ended" => q.state = "ended"
    /\ p.stop # None => q.stop = p.stop
<1> TAKE p, q \in Participant
<1>1. /\ p = [child |-> p.child, parent |-> p.parent, depth |-> p.depth, stage |-> p.stage,
              index |-> p.index, run |-> p.run, source |-> p.source, state |-> p.state, stop |-> p.stop]
      /\ q = [child |-> q.child, parent |-> q.parent, depth |-> q.depth, stage |-> q.stage,
              index |-> q.index, run |-> q.run, source |-> q.source, state |-> q.state, stop |-> q.stop]
  BY DEF Participant
<1>2. [q EXCEPT !.state = p.state, !.stop = p.stop] =
             [child |-> q.child, parent |-> q.parent, depth |-> q.depth, stage |-> q.stage,
              index |-> q.index, run |-> q.run, source |-> q.source, state |-> p.state, stop |-> p.stop]
  <2> DEFINE e == [q EXCEPT !.state = p.state, !.stop = p.stop]
  <2>1. e \in Participant
    BY DEF Participant
  <2>2. /\ e.child = q.child /\ e.parent = q.parent /\ e.depth = q.depth /\ e.stage = q.stage
        /\ e.index = q.index /\ e.run = q.run /\ e.source = q.source
        /\ e.state = p.state /\ e.stop = p.stop
    BY DEF Participant
  <2>3. e = [child |-> e.child, parent |-> e.parent, depth |-> e.depth, stage |-> e.stage,
             index |-> e.index, run |-> e.run, source |-> e.source, state |-> e.state, stop |-> e.stop]
    <3> HIDE DEF e
    <3> QED
      BY <2>1 DEF Participant
  <2> HIDE DEF e
  <2>4. e = [child |-> q.child, parent |-> q.parent, depth |-> q.depth, stage |-> q.stage,
             index |-> q.index, run |-> q.run, source |-> q.source, state |-> p.state, stop |-> p.stop]
    BY <2>2, <2>3
  <2> QED
    BY <2>4 DEF e
<1>3. [q EXCEPT !.state = p.state, !.stop = p.stop] = p <=>
         /\ p.child = q.child /\ p.parent = q.parent /\ p.depth = q.depth /\ p.stage = q.stage
         /\ p.index = q.index /\ p.run = q.run /\ p.source = q.source
  BY <1>1, <1>2
<1> QED
  BY <1>3 DEF SameParticipant

(* A participant may stay as it is.                                        *)
LEMMA SameReflexive == \A p \in Participant : SameParticipant(p, p)
  BY SameIs

(* A participant goes on in steps.                                         *)
LEMMA SameTransitive ==
  \A p, q, r \in Participant : SameParticipant(p, q) /\ SameParticipant(q, r) => SameParticipant(p, r)
  BY SameIs

(* What is listed is bound to a place of the plan.                         *)
LEMMA ListedIs ==
  \A rs \in Records : \A c \in Listed(rs) :
    /\ c \in Recorded(rs) /\ c \in Calls /\ rs[c].binding \in DOMAIN Bindings
    /\ rs[c] \in LifecycleRecord /\ rs[c].depth \in Nat /\ rs[c].ended \in BOOLEAN
    /\ Child(c) \in Children /\ rs[c].binding # None
  BY RecordedType DEF Listed, LifecycleRecord

(* The row of a listed record is a participant.                            *)
LEMMA LiveRowType ==
  \A rs \in Records : \A c \in Listed(rs) : LiveRow(rs, c) \in Participant
<1> TAKE rs \in Records
<1> TAKE c \in Listed(rs)
<1>1. /\ c \in Calls /\ rs[c].binding \in DOMAIN Bindings /\ rs[c].depth \in Nat /\ Child(c) \in Children
  BY ListedIs
<1>2. /\ Bindings[rs[c].binding].stage \in Stages /\ Bindings[rs[c].binding].index \in Nat
      /\ ParentOf[Child(c)] \in Children \cup {Parent}
  BY <1>1, TreeAssumption
<1> QED
  BY <1>1, <1>2 DEF LiveRow, Participant

(* The row of a record, part by part.                                      *)
LEMMA LiveRowIs ==
  \A rs, c : /\ LiveRow(rs, c).child = Child(c) /\ LiveRow(rs, c).run = c
             /\ LiveRow(rs, c).parent = ParentOf[Child(c)] /\ LiveRow(rs, c).depth = rs[c].depth
             /\ LiveRow(rs, c).stage = Bindings[rs[c].binding].stage
             /\ LiveRow(rs, c).index = Bindings[rs[c].binding].index
             /\ LiveRow(rs, c).source = IF Child(c) \in Remote THEN "remote" ELSE "session"
             /\ LiveRow(rs, c).state = IF rs[c].ended THEN "ended" ELSE "running"
             /\ LiveRow(rs, c).stop = IF rs[c].ended THEN "stopped" ELSE None
  BY DEF LiveRow

(* What is listed stays so.                                                *)
LEMMA ForwardListed ==
  ASSUME NEW old \in Records, NEW new \in Records, Forward(old, new)
  PROVE  Listed(old) \subseteq Listed(new)
  BY RecordedType DEF Forward, Listed

(* Its row goes on.                                                        *)
LEMMA RowGoesOn ==
  ASSUME NEW old \in Records, NEW new \in Records, Forward(old, new), NEW c \in Listed(old)
  PROVE  SameParticipant(LiveRow(old, c), LiveRow(new, c))
<1>1. c \in Listed(new) /\ LiveRow(old, c) \in Participant /\ LiveRow(new, c) \in Participant
  BY ForwardListed, LiveRowType
<1>2. /\ new[c].binding = old[c].binding /\ new[c].depth = old[c].depth
      /\ old[c].ended \in BOOLEAN /\ new[c].ended \in BOOLEAN
      /\ (old[c].ended => new[c].ended)
  BY <1>1, ListedIs DEF Forward
<1> DEFINE p == LiveRow(old, c)
           q == LiveRow(new, c)
<1>3. /\ p.child = q.child /\ p.parent = q.parent /\ p.depth = q.depth /\ p.stage = q.stage
      /\ p.index = q.index /\ p.run = q.run /\ p.source = q.source
      /\ p.state = "ended" => q.state = "ended"
      /\ p.stop # None => q.stop = p.stop
  BY <1>2 DEF LiveRow
<1> QED
  BY <1>1, <1>3, SameIs

----------------------------------------------------------------------------
(* The seats                                                               *)

(* The image of a finite set has no more members.                          *)
LEMMA FunctionImage ==
  ASSUME NEW S, IsFiniteSet(S), NEW f
  PROVE  IsFiniteSet({f[x] : x \in S}) /\ Cardinality({f[x] : x \in S}) <= Cardinality(S)
         /\ Cardinality({f[x] : x \in S}) \in Nat
<1> DEFINE T == {f[x] : x \in S}
           g == [x \in S |-> f[x]]
<1>1. g \in Surjection(S, T)
  BY DEF Surjection
<1> HIDE DEF T, g
<1>2. IsFiniteSet(T) /\ Cardinality(T) <= Cardinality(S) /\ Cardinality(T) \in Nat
  BY <1>1, FS_Surjection, FS_CardinalityType
<1> QED
  BY <1>2 DEF T

(* The rows of some runs.                                                  *)
RowsOf(rs, seen) == {LiveRow(rs, c) : c \in seen}

(* Finitely many runs are listed.                                          *)
LEMMA ListedFinite == \A rs : IsFiniteSet(Listed(rs))
  BY TreeAssumption, FS_Subset DEF Listed, Recorded

(* They have finitely many rows.                                           *)
LEMMA RowsOfFinite ==
  ASSUME NEW rs, NEW seen \in SUBSET Listed(rs)
  PROVE  IsFiniteSet(RowsOf(rs, seen)) /\ Cardinality(RowsOf(rs, seen)) \in Nat
<1> DEFINE f == [c \in seen |-> LiveRow(rs, c)]
<1>1. RowsOf(rs, seen) = {f[c] : c \in seen}
  BY DEF RowsOf
<1>2. IsFiniteSet(seen)
  BY ListedFinite, FS_Subset
<1> HIDE DEF f
<1> QED
  BY <1>1, <1>2, FunctionImage

(* A part of rows that are told apart is so too.                           *)
LEMMA DistinctPart ==
  \A rows, part : Distinct(rows) /\ part \subseteq rows => Distinct(part)
  BY FS_Subset DEF Distinct

(* The last places of a row.                                               *)
LEMMA KeysOf ==
  \A r : Key(r)[4] = r.child /\ Key(r)[5] = IF r.run = None THEN 0 ELSE r.run[2]
  BY DEF Key

(* The rows of the runs are told apart.                                    *)
LEMMA RowsOfDistinct ==
  ASSUME NEW rs \in Records, NEW seen \in SUBSET Listed(rs)
  PROVE  Distinct(RowsOf(rs, seen))
<1>1. \A r \in RowsOf(rs, seen) : r \in Participant
  BY LiveRowType DEF RowsOf
<1>2. ASSUME NEW c \in seen, NEW d \in seen, c # d
      PROVE  \/ Key(LiveRow(rs, c))[4] # Key(LiveRow(rs, d))[4]
             \/ Key(LiveRow(rs, c))[5] # Key(LiveRow(rs, d))[5]
  <2>1. c \in Children \X Nat /\ d \in Children \X Nat /\ c # None /\ d # None
    BY ListedIs, TreeAssumption, CapsAssumption
  <2>2. c[1] # d[1] \/ c[2] # d[2]
    BY <1>2, <2>1
  <2>3. /\ Key(LiveRow(rs, c))[4] = c[1] /\ Key(LiveRow(rs, d))[4] = d[1]
        /\ Key(LiveRow(rs, c))[5] = c[2] /\ Key(LiveRow(rs, d))[5] = d[2]
    <3>1. ASSUME NEW e, e # None PROVE Key(LiveRow(rs, e))[4] = e[1] /\ Key(LiveRow(rs, e))[5] = e[2]
      <4>1. LiveRow(rs, e).child = e[1] /\ LiveRow(rs, e).run = e
        BY LiveRowIs DEF Child
      <4> QED
        BY <3>1, <4>1, KeysOf
    <3> QED
      BY <2>1, <3>1
  <2> QED
    BY <2>2, <2>3
<1>3. \A q, r \in RowsOf(rs, seen) : q # r => Key(q)[4] # Key(r)[4] \/ Key(q)[5] # Key(r)[5]
  <2> TAKE q, r \in RowsOf(rs, seen)
  <2> HAVE q # r
  <2>1. PICK c \in seen, d \in seen : q = LiveRow(rs, c) /\ r = LiveRow(rs, d)
    BY DEF RowsOf
  <2> QED
    BY <1>2, <2>1
<1> QED
  BY <1>1, <1>3, RowsOfFinite, ParticipantKeyed DEF Distinct

(* The rows that were read are told apart by their children.               *)
LEMMA ColdDistinct ==
  ASSUME NEW rows \in SUBSET Participant, IsFiniteSet(rows), UniqueChildren(rows)
  PROVE  Distinct(rows)
  BY KeysOf, ParticipantKeyed DEF Distinct, UniqueChildren

(* The child of a run below others that was not bound.                     *)
UnattachedIn(rs, child) ==
  ~Direct(child) /\ \E c \in Recorded(rs) : Child(c) = child /\ rs[c].binding = None

(* A seat under a run that has one, or under a descendant that was not     *)
(* bound.                                                                  *)
Carries(rs, seats, c) ==
  LET p == ParentOf[Child(c)]
  IN ~Direct(Child(c)) => UnattachedIn(rs, p) \/ \E e \in seats : Child(e) = p

(* The seats are full or hold every run, and each is carried.              *)
SeatedWell(rs, seats) ==
  /\ seats \subseteq Listed(rs) /\ Cardinality(seats) <= Seats
  /\ \A c \in Listed(rs) : c \in seats \/ Cardinality(seats) >= Seats
  /\ \A c \in seats : Carries(rs, seats, c)

(* Seats are given to the first rows, and are never taken back.            *)
LEMMA SeatsGiven ==
  ASSUME NEW rs \in Records, NEW seen \in SUBSET Listed(rs), admitted \subseteq Listed(rs), Cardinality(admitted) <= Seats
  PROVE  LET seated == Admitted(RowsOf(rs, seen))
         IN /\ admitted \subseteq seated /\ seated \subseteq Listed(rs) /\ IsFiniteSet(seated)
            /\ Cardinality(seated) \in Nat /\ Cardinality(seated) <= Seats
            /\ \A c \in seen : c \in seated \/ Cardinality(seated) >= Seats
            /\ \A c \in seated \ admitted : \A e \in seen :
                 e \in seated \/ ~Precedes(LiveRow(rs, e), LiveRow(rs, c))
            /\ seated # admitted => Cardinality(admitted) < Seats
<1> DEFINE rows == {r \in RowsOf(rs, seen) : r.run \notin admitted}
           n == IF Cardinality(admitted) < Seats THEN Seats - Cardinality(admitted) ELSE 0
           L == Leading(rows, n)
           given == {r.run : r \in L}
           seated == admitted \cup given
<1>1. IsFiniteSet(admitted) /\ Cardinality(admitted) \in Nat
  BY ListedFinite, FS_Subset, FS_CardinalityType
<1>2. n \in Nat /\ Seats \in Nat /\ Cardinality(admitted) + n = Seats
  BY <1>1, CapsAssumption
<1>3. Distinct(rows)
  BY RowsOfDistinct, DistinctPart
<1>4. \A r \in rows : r.run \in seen /\ r.run \notin admitted /\ r = LiveRow(rs, r.run)
  BY LiveRowIs DEF RowsOf
<1>5. \A c \in seen \ admitted : LiveRow(rs, c) \in rows
  BY LiveRowIs DEF RowsOf
<1> HIDE DEF rows, n
<1>6. /\ L \subseteq rows /\ IsFiniteSet(L) /\ Cardinality(L) \in Nat /\ Cardinality(L) <= n
      /\ \A q \in rows, r \in L : Precedes(q, r) => q \in L
      /\ L # rows => Cardinality(L) >= n
  BY <1>2, <1>3, LeadingBounds
<1> HIDE DEF L
<1>7. IsFiniteSet(given) /\ Cardinality(given) <= Cardinality(L) /\ Cardinality(given) \in Nat
  <2> DEFINE f == [r \in L |-> r.run]
  <2>1. given = {f[r] : r \in L}
    OBVIOUS
  <2> HIDE DEF f, given
  <2> QED
    BY <1>6, <2>1, FunctionImage
<1>8. Cardinality(L) <= Cardinality(given)
  <2> DEFINE f == [c \in given |-> LiveRow(rs, c)]
             T == {f[c] : c \in given}
  <2>1. L \subseteq T
    BY <1>4, <1>6
  <2> HIDE DEF f, given
  <2>2. IsFiniteSet(T) /\ Cardinality(T) <= Cardinality(given) /\ Cardinality(T) \in Nat
    BY <1>7, FunctionImage
  <2> HIDE DEF T
  <2>3. Cardinality(L) <= Cardinality(T)
    BY <2>1, <2>2, FS_Subset
  <2> QED
    BY <1>6, <1>7, <2>2, <2>3
<1>9. given \subseteq seen /\ given \cap admitted = {}
  BY <1>4, <1>6
<1> HIDE DEF given
<1>10. IsFiniteSet(seated) /\ Cardinality(seated) = Cardinality(admitted) + Cardinality(L)
  <2>1. Cardinality(given \cap admitted) = 0
    BY <1>9, FS_EmptySet
  <2>2. given \cap admitted = admitted \cap given
    OBVIOUS
  <2>3. /\ IsFiniteSet(admitted \cup given)
        /\ Cardinality(admitted \cup given) =
             Cardinality(admitted) + Cardinality(given) - Cardinality(admitted \cap given)
    BY <1>1, <1>7, FS_Union
  <2>4. Cardinality(given) = Cardinality(L)
    BY <1>6, <1>7, <1>8
  <2>5. Cardinality(admitted \cap given) = 0
    BY <2>1, <2>2
  <2> QED
    BY <1>1, <1>6, <2>3, <2>4, <2>5
<1>11. Admitted(RowsOf(rs, seen)) = seated
  BY DEF Admitted, rows, n, L, given
<1>12. ASSUME NEW c \in seen, c \notin seated PROVE Cardinality(seated) >= Seats
  <2>1. LiveRow(rs, c) \in rows /\ LiveRow(rs, c).run = c
    BY <1>5, <1>12, LiveRowIs
  <2>2. LiveRow(rs, c) \notin L
    BY <1>12, <2>1 DEF given
  <2> QED
    BY <1>1, <1>2, <1>6, <1>10, <2>1, <2>2
<1>13. ASSUME NEW c \in seated \ admitted, NEW e \in seen, e \notin seated,
              Precedes(LiveRow(rs, e), LiveRow(rs, c))
       PROVE  FALSE
  <2>1. PICK r \in L : r.run = c
    BY <1>13 DEF given
  <2>2. r = LiveRow(rs, c)
    BY <1>4, <1>6, <2>1
  <2>3. LiveRow(rs, e) \in rows /\ LiveRow(rs, e).run = e
    BY <1>5, <1>13, LiveRowIs
  <2>4. LiveRow(rs, e) \in L
    BY <1>6, <1>13, <2>2, <2>3
  <2> QED
    BY <1>13, <2>3, <2>4 DEF given
<1>14. ASSUME seated # admitted PROVE Cardinality(admitted) < Seats
  <2>1. given # {}
    BY <1>14
  <2>2. Cardinality(given) # 0
    BY <1>7, <2>1, FS_EmptySet
  <2> QED
    BY <1>1, <1>2, <1>6, <1>7, <2>2 DEF n
<1>15. Cardinality(seated) \in Nat /\ Cardinality(seated) <= Seats
  BY <1>1, <1>2, <1>6, <1>10
<1> QED
  BY <1>9, <1>10, <1>11, <1>12, <1>13, <1>14, <1>15

(* Under one binding the row above comes first.                            *)
LEMMA CarrierPrecedes ==
  ASSUME NEW rs, NEW e, NEW c, rs[e].binding = rs[c].binding, rs[e].depth < rs[c].depth
  PROVE  Precedes(LiveRow(rs, e), LiveRow(rs, c))
<1> DEFINE q == LiveRow(rs, e)
           r == LiveRow(rs, c)
<1>1. q.stage = r.stage /\ q.index = r.index /\ q.depth = rs[e].depth /\ r.depth = rs[c].depth
  BY LiveRowIs
<1> HIDE DEF q, r
<1>2. \A x : Key(x)[1] = StagesOf[x.stage].order /\ Key(x)[2] = x.index /\ Key(x)[3] = x.depth
  BY DEF Key
<1>3. Key(q)[1] = Key(r)[1] /\ Key(q)[2] = Key(r)[2] /\ Key(q)[3] < Key(r)[3]
  BY <1>1, <1>2
<1>4. Precedes(q, r)
  BY <1>3, PrecedesIs
<1> QED
  BY <1>4 DEF q, r

(* A seat that was given stays under the seat above it, or above it there  *)
(* is a run that is not bound later.                                       *)
LEMMA CarriesOn ==
  ASSUME NEW old \in Records, NEW new \in Records, NEW ret, NEW more,
         Sound(old, ret), Sound(new, more), Forward(old, new), Fresh(old, new, ret),
         NEW c \in Listed(old), NEW child, ~Direct(Child(c)), child = ParentOf[Child(c)],
         UnattachedIn(old, child)
  PROVE  UnattachedIn(new, child)
<1>1. PICK e \in Recorded(old) : Child(e) = child /\ old[e].binding = None
  BY DEF UnattachedIn
<1>2. e \in Recorded(new) /\ ~Direct(child)
  BY <1>1 DEF Forward, UnattachedIn
<1>3. SUFFICES ASSUME new[e].binding # None PROVE FALSE
  BY <1>1, <1>2 DEF UnattachedIn
<1>4. e \in Newly(old, new)
  BY <1>1, <1>2, <1>3 DEF Newly
<1>5. new[e].binding \notin ret
  BY <1>1, <1>4 DEF Fresh
<1>6. new[e].binding = Top[child]
  BY <1>1, <1>2, <1>3 DEF Sound, Bound
<1>7. old[c].binding \in ret /\ old[c].binding = Top[Child(c)] /\ Child(c) \in Children
  BY ListedIs DEF Sound, Bound
<1>8. Top[Child(c)] = Top[child]
  BY <1>7, TopOf
<1> QED
  BY <1>5, <1>6, <1>7, <1>8

(* Above a listed descendant is a run that is not bound, or one that is    *)
(* listed.                                                                 *)
LEMMA CarrierListed ==
  ASSUME NEW rs \in Records, NEW ret, Sound(rs, ret), NEW c \in Listed(rs), ~Direct(Child(c)),
         NEW child, child = ParentOf[Child(c)], ~UnattachedIn(rs, child)
  PROVE  \E e \in Listed(rs) : Child(e) = child /\ rs[e].binding = rs[c].binding
<1>1. /\ c \in Recorded(rs) /\ rs[c].binding # None /\ rs[c].binding = Top[Child(c)] /\ Child(c) \in Children
  BY ListedIs DEF Sound, Bound
<1>2. child \in Children /\ Top[Child(c)] = Top[child] /\ child \notin Remote
  BY <1>1, TopOf DEF Sound, Placed
<1>3. CASE Direct(child)
  <2>1. Top[child] = child
    BY <1>2, <1>3, TopOf
  <2>2. PICK e \in Recorded(rs) : Direct(Child(e)) /\ Child(e) = rs[c].binding /\ rs[e].binding # None
    BY <1>1 DEF Sound, Bound
  <2>3. rs[e].binding = Top[Child(e)]
    BY <2>2 DEF Sound, Bound
  <2>4. e \in Listed(rs)
    BY <2>2 DEF Listed
  <2> QED
    BY <1>1, <1>2, <2>1, <2>2, <2>3, <2>4
<1>4. CASE ~Direct(child)
  <2>1. PICK e \in Recorded(rs) : Child(e) = child
    BY <1>1 DEF Sound, Placed
  <2>2. rs[e].binding # None
    BY <1>4, <2>1 DEF UnattachedIn
  <2>3. rs[e].binding = Top[Child(e)]
    BY <2>1, <2>2 DEF Sound, Bound
  <2>4. e \in Listed(rs)
    BY <1>2, <2>1, <2>2 DEF Listed
  <2> QED
    BY <1>1, <1>2, <2>1, <2>3, <2>4
<1> QED
  BY <1>3, <1>4

(* The seats stay so as the records go forward (a run is seated after the  *)
(* one above it).                                                          *)
LEMMA SeatsStay ==
  ASSUME NEW old \in Records, NEW new \in Records, NEW ret, NEW more,
         Sound(old, ret), Sound(new, more), Forward(old, new), Fresh(old, new, ret),
         SeatedWell(old, admitted)
  PROVE  SeatedWell(new, Admitted(RowsOf(new, Listed(new))))
<1> DEFINE seated == Admitted(RowsOf(new, Listed(new)))
<1>1. admitted \subseteq Listed(old) /\ Listed(old) \subseteq Listed(new) /\ Cardinality(admitted) <= Seats
      /\ IsFiniteSet(admitted) /\ Cardinality(admitted) \in Nat
  BY ForwardListed, ListedFinite, FS_Subset, FS_CardinalityType DEF SeatedWell
<1>2. /\ admitted \subseteq seated /\ seated \subseteq Listed(new) /\ IsFiniteSet(seated)
      /\ Cardinality(seated) \in Nat /\ Cardinality(seated) <= Seats
      /\ \A c \in Listed(new) : c \in seated \/ Cardinality(seated) >= Seats
      /\ \A c \in seated \ admitted : \A e \in Listed(new) :
           e \in seated \/ ~Precedes(LiveRow(new, e), LiveRow(new, c))
      /\ seated # admitted => Cardinality(admitted) < Seats
  BY <1>1, SeatsGiven
<1> HIDE DEF seated
<1>3. ASSUME NEW c \in seated, ~Direct(Child(c)), NEW child, child = ParentOf[Child(c)],
             ~UnattachedIn(new, child)
      PROVE  \E e \in seated : Child(e) = child
  <2>1. CASE c \in admitted
    <3>1. c \in Listed(old) /\ Carries(old, admitted, c)
      BY <1>1, <2>1 DEF SeatedWell
    <3>2. ~UnattachedIn(old, child)
      BY <1>3, <3>1, CarriesOn
    <3> QED
      BY <1>2, <1>3, <3>1, <3>2 DEF Carries
  <2>2. CASE c \notin admitted
    <3>0. c \in Listed(new)
      BY <1>2
    <3>1. PICK e \in Listed(new) : Child(e) = child /\ new[e].binding = new[c].binding
      BY <1>3, <3>0, CarrierListed
    <3>2. SUFFICES ASSUME e \notin seated PROVE FALSE
      BY <3>1
    <3>3. Cardinality(admitted) < Seats
      BY <1>2, <2>2
    <3>4. \A d \in Listed(new) : d \notin admitted => d \in Newly(old, new)
      <4> TAKE d \in Listed(new)
      <4> HAVE d \notin admitted
      <4>1. d \notin Listed(old)
        BY <1>1, <3>3, CapsAssumption DEF SeatedWell
      <4>2. d \in Recorded(new) /\ new[d].binding # None
        BY ListedIs
      <4>3. d \in Recorded(old) => old[d].binding = None
        BY <4>1, <4>2 DEF Listed
      <4> QED
        BY <4>2, <4>3 DEF Newly
    <3>5. c \in Newly(old, new) /\ e \in Newly(old, new)
      BY <1>2, <2>2, <3>0, <3>2, <3>4
    <3>6. new[e].depth < new[c].depth
      BY <1>3, <3>1, <3>5 DEF Fresh
    <3>7. Precedes(LiveRow(new, e), LiveRow(new, c))
      BY <3>1, <3>6, CarrierPrecedes
    <3> QED
      BY <1>2, <2>2, <3>2, <3>7
  <2> QED
    BY <2>1, <2>2
<1>4. \A c \in seated : Carries(new, seated, c)
  BY <1>3 DEF Carries
<1> QED
  BY <1>2, <1>4 DEF SeatedWell, seated

----------------------------------------------------------------------------
(* Observations                                                            *)

(* What an observation is made of.                                         *)
Participation == [rows : SUBSET Participant, unavailable : Nat, truncated : Nat]

(* The rows that were read from Sessions.                                  *)
ColdRows(rows) ==
  rows \in SUBSET Participant /\ IsFiniteSet(rows) /\ UniqueChildren(rows)

(* What an observation is made from.                                       *)
ObservationOf(rs, seen, coldRows, seated, unobserved, mk) ==
  /\ rs \in Records /\ seen \subseteq Listed(rs) /\ ColdRows(coldRows)
  /\ seated \subseteq Listed(rs) /\ IsFiniteSet(seated) /\ Cardinality(seated) <= Seats
  /\ unobserved \in Nat /\ IsFiniteSet(mk)

(* What it is: the rows of the seats, then as many of the others as fit.   *)
ObservationFacts(rs, seen, coldRows, seated, o) ==
  /\ o \in Participation /\ IsFiniteSet(o.rows) /\ Cardinality(o.rows) <= Seats
  /\ \A r \in o.rows : (r.run \in seated /\ r.run \in seen /\ r = LiveRow(rs, r.run)) \/ r \in coldRows
  /\ \A c \in seen : c \in seated => LiveRow(rs, c) \in o.rows
  /\ o.truncated = 0 => RowsOf(rs, seen) \cup coldRows \subseteq o.rows

(* An observation is such.                                                 *)
LEMMA ObservationIs ==
  ASSUME NEW rs, NEW seen, NEW coldRows, NEW seated, NEW unobserved, NEW mk,
         ObservationOf(rs, seen, coldRows, seated, unobserved, mk)
  PROVE  ObservationFacts(rs, seen, coldRows, seated,
                          Observation(RowsOf(rs, seen), unobserved, coldRows, seated, mk))
<1> DEFINE o == Observation(RowsOf(rs, seen), unobserved, coldRows, seated, mk)
<1>0. /\ rs \in Records /\ seen \in SUBSET Listed(rs) /\ ColdRows(coldRows)
      /\ seated \in SUBSET Listed(rs) /\ IsFiniteSet(seated) /\ Cardinality(seated) <= Seats
      /\ unobserved \in Nat /\ IsFiniteSet(mk)
  BY DEF ObservationOf
<1> DEFINE live == RowsOf(rs, seen)
           free == IF Cardinality(seated) < Seats THEN Seats - Cardinality(seated) ELSE 0
           A == {r \in live : r.run \in seated}
           B == Leading(coldRows, free)
           kept == A \cup B
<1>1. Cardinality(seated) \in Nat /\ free \in Nat /\ Cardinality(seated) + free = Seats
  BY <1>0, FS_CardinalityType, CapsAssumption
<1>2. IsFiniteSet(live) /\ Cardinality(live) \in Nat /\ live \in SUBSET Participant
  BY <1>0, RowsOfFinite, LiveRowType DEF RowsOf
<1>3. \A r \in live : r.run \in seen /\ r = LiveRow(rs, r.run)
  BY <1>0, LiveRowIs DEF RowsOf
<1>4. \A c \in seen : c \in seated => LiveRow(rs, c) \in A
  BY <1>0, LiveRowIs DEF RowsOf
<1>5. o = [rows |-> kept, unavailable |-> Cardinality(mk) + unobserved,
           truncated |-> Cardinality(live) + Cardinality(coldRows) - Cardinality(kept)]
  BY DEF Observation
<1>6. Distinct(coldRows) /\ IsFiniteSet(coldRows) /\ Cardinality(coldRows) \in Nat
      /\ coldRows \in SUBSET Participant
  BY <1>0, ColdDistinct, FS_CardinalityType DEF ColdRows
<1> HIDE DEF live, free, o
<1>7. B \subseteq coldRows /\ IsFiniteSet(B) /\ Cardinality(B) \in Nat /\ Cardinality(B) <= free
  BY <1>0, <1>1, <1>6, LeadingBounds
<1>8. A \subseteq live /\ IsFiniteSet(A) /\ Cardinality(A) \in Nat
  <2>1. A \subseteq live
    OBVIOUS
  <2> HIDE DEF A
  <2> QED
    BY <1>0, <1>2, <2>1, FS_Subset, FS_CardinalityType
<1>9. Cardinality(A) <= Cardinality(seated)
  <2> DEFINE f == [c \in seated |-> LiveRow(rs, c)]
             T == {f[c] : c \in seated}
  <2>1. A \subseteq T
    BY <1>0, <1>3
  <2> HIDE DEF f, A
  <2>2. IsFiniteSet(T) /\ Cardinality(T) <= Cardinality(seated) /\ Cardinality(T) \in Nat
    BY <1>0, FunctionImage
  <2> HIDE DEF T
  <2>3. Cardinality(A) <= Cardinality(T)
    BY <2>1, <2>2, FS_Subset
  <2> QED
    BY <1>0, <1>1, <1>8, <2>2, <2>3
<1>10. \A r \in A : r.run \in seated /\ r.run \in seen /\ r = LiveRow(rs, r.run)
  BY <1>0, <1>3
<1> HIDE DEF A, B
<1>11. /\ IsFiniteSet(kept) /\ Cardinality(kept) \in Nat
       /\ Cardinality(kept) <= Cardinality(A) + Cardinality(B)
  <2>1. /\ IsFiniteSet(A \cup B)
        /\ Cardinality(A \cup B) = Cardinality(A) + Cardinality(B) - Cardinality(A \cap B)
    BY <1>0, <1>7, <1>8, FS_Union
  <2>2. Cardinality(A \cap B) \in Nat
    BY <1>0, <1>8, FS_Intersection, FS_CardinalityType
  <2>3. Cardinality(A \cup B) \in Nat
    BY <2>1, FS_CardinalityType
  <2> QED
    BY <1>0, <1>7, <1>8, <2>1, <2>2, <2>3
<1>12. Cardinality(A) <= Cardinality(live) /\ Cardinality(B) <= Cardinality(coldRows)
  BY <1>0, <1>2, <1>6, <1>7, <1>8, FS_Subset
<1>13. Cardinality(kept) <= Seats
  BY <1>0, <1>1, <1>7, <1>8, <1>9, <1>11, CapsAssumption
<1>14. Cardinality(live) + Cardinality(coldRows) - Cardinality(kept) \in Nat
  BY <1>0, <1>2, <1>6, <1>7, <1>8, <1>11, <1>12
<1>15. o.truncated = 0 => live \subseteq kept /\ coldRows \subseteq kept
  <2> HAVE o.truncated = 0
  <2>1. Cardinality(live) + Cardinality(coldRows) - Cardinality(kept) = 0
    BY <1>0, <1>5
  <2>2. Cardinality(A) = Cardinality(live) /\ Cardinality(B) = Cardinality(coldRows)
    BY <1>0, <1>2, <1>6, <1>7, <1>8, <1>11, <1>12, <2>1
  <2>3. A = live /\ B = coldRows
    BY <1>0, <1>2, <1>6, <1>7, <1>8, <2>2, FS_Subset
  <2> QED
    BY <2>3
<1>16. kept \in SUBSET Participant
  BY <1>0, <1>2, <1>6, <1>7, <1>8
<1>17. Cardinality(mk) + unobserved \in Nat
  BY <1>0, FS_CardinalityType
<1>18. o \in Participation
  BY <1>0, <1>5, <1>14, <1>16, <1>17 DEF Participation
<1>19. /\ \A r \in kept : (r.run \in seated /\ r.run \in seen /\ r = LiveRow(rs, r.run)) \/ r \in coldRows
       /\ \A c \in seen : c \in seated => LiveRow(rs, c) \in kept
  BY <1>0, <1>4, <1>7, <1>10 DEF A
<1>20. o.rows = kept
  BY <1>0, <1>5
<1> HIDE DEF kept
<1>21. ObservationFacts(rs, seen, coldRows, seated, o)
  BY <1>0, <1>11, <1>13, <1>15, <1>18, <1>19, <1>20 DEF live, ObservationFacts
<1> QED
  BY <1>21 DEF o

----------------------------------------------------------------------------
(* The feed of the run                                                     *)

(* The feed of a Session.                                                  *)
RunFeed ==
  [active : [Runs -> LiveRunReceipt \cup {None}], terminal : LiveRunReceipt \cup {None}, revision : Nat]

(* A receipt of the run.                                                   *)
OwnReceipt(receipt) == receipt \in LiveRunReceipt /\ receipt.run = Run

(* The feed takes b after a.                                               *)
GoesTo(a, b) == a = b \/ validateReplacement(a, b)

(* The feed has one receipt, of the run.                                   *)
Held(feed, receipt) ==
  /\ OwnReceipt(receipt)
  /\ \A q \in Runs \ {Run} : feed.active[q] = None
  /\ receipt.outcome = "running" => feed.active[Run] = receipt /\ feed.terminal = None
  /\ receipt.outcome # "running" => feed.active[Run] = None /\ feed.terminal = receipt

(* The feed takes it as far as it alone is concerned.                      *)
Acceptable(receipt) ==
  /\ IsFiniteSet(receipt.participation.rows) /\ Rows(receipt) <= Seats
  /\ validateReferences(receipt) /\ validateStaticTransitions(receipt)

(* A receipt is something.                                                 *)
LEMMA ReceiptIsSome == \A receipt : OwnReceipt(receipt) => receipt # None
  BY CapsAssumption DEF OwnReceipt

(* The receipt that the feed holds is the previous one.                    *)
LEMMA HeldIsPrevious ==
  \A feed, receipt : Held(feed, receipt) => Previous(feed, Run) = receipt
  BY ReceiptIsSome DEF Held, Previous, OwnReceipt

(* The feed holds the receipt that replaced it.                            *)
LEMMA ReplacedIsHeld ==
  ASSUME NEW feed \in RunFeed, NEW previous, Held(feed, previous), NEW receipt, OwnReceipt(receipt),
         previous.outcome # "running" => receipt.outcome # "running"
  PROVE  Replaced(feed, receipt) \in RunFeed /\ Held(Replaced(feed, receipt), receipt)
<1> DEFINE next == Replaced(feed, receipt)
<1>1. /\ receipt \in LiveRunReceipt /\ receipt.run = Run /\ Run \in Runs
      /\ feed.active \in [Runs -> LiveRunReceipt \cup {None}] /\ feed.revision \in Nat
      /\ feed.terminal \in LiveRunReceipt \cup {None}
  BY CapsAssumption DEF OwnReceipt, RunFeed
<1>2. feed = [active |-> feed.active, terminal |-> feed.terminal, revision |-> feed.revision]
  BY DEF RunFeed
<1>3. CASE receipt.outcome = "running"
  <2> DEFINE active == [feed.active EXCEPT ![Run] = receipt]
  <2>1. /\ active \in [Runs -> LiveRunReceipt \cup {None}] /\ active[Run] = receipt
        /\ \A q \in Runs \ {Run} : active[q] = feed.active[q]
    BY <1>1
  <2>2. next = [feed EXCEPT !.active = active, !.revision = @ + 1]
    BY <1>1, <1>3 DEF Replaced
  <2> HIDE DEF active, next
  <2>3. next = [active |-> active, terminal |-> feed.terminal, revision |-> feed.revision + 1]
    BY <1>2, <2>2
  <2>4. previous.outcome = "running" /\ feed.terminal = None
    BY <1>3 DEF Held
  <2>5. next \in RunFeed
    BY <1>1, <2>1, <2>3 DEF RunFeed
  <2>6. Held(next, receipt)
    BY <1>3, <2>1, <2>3, <2>4 DEF Held
  <2> QED
    BY <2>5, <2>6 DEF next
<1>4. CASE receipt.outcome # "running"
  <2> DEFINE active == [feed.active EXCEPT ![Run] = None]
  <2>1. /\ active \in [Runs -> LiveRunReceipt \cup {None}] /\ active[Run] = None
        /\ \A q \in Runs \ {Run} : active[q] = feed.active[q]
    BY <1>1
  <2>2. next = [feed EXCEPT !.active = active, !.terminal = receipt, !.revision = @ + 1]
    BY <1>1, <1>4 DEF Replaced
  <2> HIDE DEF active, next
  <2>3. next = [active |-> active, terminal |-> receipt, revision |-> feed.revision + 1]
    BY <1>2, <2>2
  <2>5. next \in RunFeed
    BY <1>1, <2>1, <2>3 DEF RunFeed
  <2>6. Held(next, receipt)
    BY <1>4, <2>1, <2>3 DEF Held
  <2> QED
    BY <2>5, <2>6 DEF next
<1> QED
  BY <1>3, <1>4

(* The feed holds no other receipt.                                        *)
LEMMA HeldIsAlone ==
  ASSUME NEW feed, NEW receipt, Held(feed, receipt)
  PROVE  Actives(feed) \subseteq {receipt} /\ Receipts(feed) = {receipt}
<1>1. receipt # None /\ Run \in Runs
  BY ReceiptIsSome, CapsAssumption DEF Held
<1>2. \A q \in Runs : feed.active[q] # None => q = Run /\ feed.active[q] = receipt
  BY DEF Held
<1>3. Actives(feed) \subseteq {receipt}
  BY <1>2 DEF Actives
<1>4. CASE receipt.outcome = "running"
  <2>1. receipt \in Actives(feed) /\ feed.terminal = None
    BY <1>1, <1>4 DEF Held, Actives
  <2> QED
    BY <1>3, <2>1 DEF Receipts
<1>5. CASE receipt.outcome # "running"
  BY <1>1, <1>3, <1>5 DEF Receipts, Held
<1> QED
  BY <1>3, <1>4, <1>5

(* One receipt is within the caps of its Session.                          *)
LEMMA HeldWeight ==
  ASSUME NEW feed, NEW receipt, Held(feed, receipt), Acceptable(receipt)
  PROVE  ~(Weight(feed) > ModelWeight) /\ ~(Cardinality(Actives(feed)) > ActiveCap)
<1> DEFINE w == [r \in {receipt} |-> 1 + Rows(r)]
<1>1. Rows(receipt) \in Nat /\ Rows(receipt) <= Seats
  BY FS_CardinalityType DEF Acceptable, Rows
<1>2. w \in [{receipt} -> Nat] /\ w[receipt] = 1 + Rows(receipt)
  BY <1>1
<1>3. \A r \in {receipt} : w[r] <= 1 + Rows(receipt)
  BY <1>1
<1>4. Weight(feed) = Total(w)
  BY HeldIsAlone DEF Weight
<1> HIDE DEF w
<1>5. 1 + Rows(receipt) \in Nat
  BY <1>1
<1>6. IsFiniteSet({receipt}) /\ Cardinality({receipt}) = 1
  BY FS_Singleton
<1>7. Total(w) <= (1 + Rows(receipt)) * Cardinality({receipt}) /\ Total(w) \in Nat
  BY <1>2, <1>3, <1>5, <1>6, TotalBound, TotalType
<1>8. Weight(feed) <= ModelWeight
  <2>1. (1 + Rows(receipt)) * Cardinality({receipt}) = 1 + Rows(receipt)
    BY <1>1, <1>6
  <2> QED
    BY <1>1, <1>4, <1>7, <2>1, CapsAssumption
<1>9. IsFiniteSet(Actives(feed)) /\ Cardinality(Actives(feed)) <= 1 /\ Cardinality(Actives(feed)) \in Nat
  BY <1>6, HeldIsAlone, FS_Subset, FS_CardinalityType
<1>10. Weight(feed) \in Nat
  BY <1>4, <1>7
<1> QED
  BY <1>8, <1>9, <1>10, CapsAssumption

(* The feed holds the receipt that was published, if it takes it, or the   *)
(* previous one.                                                           *)
LEMMA PublishedIs ==
  ASSUME NEW feed \in RunFeed, NEW previous, Held(feed, previous), NEW receipt, OwnReceipt(receipt)
  PROVE  /\ Published(feed, receipt) \in RunFeed
         /\ Held(Published(feed, receipt), receipt) \/ Held(Published(feed, receipt), previous)
         /\ Acceptable(receipt) /\ GoesTo(previous, receipt) => Held(Published(feed, receipt), receipt)
<1>1. receipt.run = Run /\ Previous(feed, Run) = previous /\ previous # None
  BY HeldIsPrevious, ReceiptIsSome DEF OwnReceipt, Held
<1>2. CASE previous = receipt
  <2>1. Published(feed, receipt) = feed
    BY <1>1, <1>2 DEF Published
  <2> QED
    BY <1>2, <2>1
<1>3. CASE previous # receipt
  <2>1. Refusal(feed, receipt) # None => Published(feed, receipt) = feed
    BY DEF Published
  <2>2. Refusal(feed, receipt) = None => Published(feed, receipt) = Replaced(feed, receipt)
    BY <1>1, <1>3 DEF Published
  <2>3. Refusal(feed, receipt) = None => validateReplacement(previous, receipt)
    BY <1>1, <1>3, CapsAssumption DEF Refusal
  <2>4. ASSUME validateReplacement(previous, receipt)
        PROVE  Replaced(feed, receipt) \in RunFeed /\ Held(Replaced(feed, receipt), receipt)
    <3>1. previous.outcome # "running" => receipt.outcome # "running"
      BY <2>4 DEF validateReplacement
    <3> QED
      BY <3>1, ReplacedIsHeld
  <2>5. ASSUME Acceptable(receipt), GoesTo(previous, receipt) PROVE Refusal(feed, receipt) = None
    <3>1. validateReplacement(previous, receipt)
      BY <1>3, <2>5 DEF GoesTo
    <3>2. /\ ~(Weight(Replaced(feed, receipt)) > ModelWeight)
          /\ ~(Cardinality(Actives(Replaced(feed, receipt))) > ActiveCap)
      BY <2>4, <2>5, <3>1, HeldWeight
    <3>3. ~(Rows(receipt) > Seats)
      BY <2>5, CapsAssumption, FS_CardinalityType DEF Acceptable, Rows
    <3> QED
      BY <1>1, <1>3, <2>5, <3>1, <3>2, <3>3 DEF Refusal, Acceptable
  <2> QED
    BY <2>1, <2>2, <2>3, <2>4, <2>5
<1> QED
  BY <1>2, <1>3

(* A receipt goes on in steps.                                             *)
LEMMA GoesOn ==
  ASSUME NEW a, NEW b, NEW c, OwnReceipt(a), OwnReceipt(b), OwnReceipt(c), GoesTo(a, b), GoesTo(b, c)
  PROVE  GoesTo(a, c)
<1>1. SUFFICES ASSUME validateReplacement(a, b), validateReplacement(b, c) PROVE validateReplacement(a, c)
  BY DEF GoesTo
<1>2. a.run = c.run /\ (a.outcome # "running" => c.outcome = a.outcome)
  BY <1>1 DEF validateReplacement
<1>3. \A s \in Stages : a.stages[s] # "pending" => c.stages[s] = a.stages[s]
  BY <1>1 DEF validateReplacement
<1>4. /\ a.participation.rows \subseteq Participant /\ b.participation.rows \subseteq Participant
      /\ c.participation.rows \subseteq Participant
  BY DEF OwnReceipt, LiveRunReceipt
<1>5. \A r \in a.participation.rows : \E n \in c.participation.rows : n.child = r.child /\ SameParticipant(r, n)
  <2> TAKE r \in a.participation.rows
  <2>1. PICK m \in b.participation.rows : m.child = r.child /\ SameParticipant(r, m)
    BY <1>1 DEF validateReplacement
  <2>2. PICK n \in c.participation.rows : n.child = m.child /\ SameParticipant(m, n)
    BY <1>1 DEF validateReplacement
  <2>3. SameParticipant(r, n)
    BY <1>4, <2>1, <2>2, SameTransitive
  <2> QED
    BY <2>1, <2>2, <2>3
<1> QED
  BY <1>2, <1>3, <1>5 DEF validateReplacement

(* The revision is the only thing that is counted apart.                   *)
LEMMA RevisionReset ==
  \A f \in RunFeed : /\ [f EXCEPT !.revision = 0] \in RunFeed
                     /\ [f EXCEPT !.revision = 0].active = f.active
                     /\ [f EXCEPT !.revision = 0].terminal = f.terminal
  BY DEF RunFeed

(* The observation and the receipt of one event are both taken.            *)
LEMMA PublishedTwice ==
  ASSUME NEW feed \in RunFeed, NEW previous, Held(feed, previous),
         NEW observed, OwnReceipt(observed), NEW receipt, OwnReceipt(receipt),
         NEW next, next = [Published(Published(feed, observed), receipt) EXCEPT !.revision = 0]
  PROVE  /\ next \in RunFeed
         /\ \E p \in {previous, observed, receipt} : Held(next, p)
         /\ /\ Acceptable(observed) /\ Acceptable(receipt)
            /\ GoesTo(previous, observed) /\ GoesTo(observed, receipt)
            => Held(next, receipt)
<1> DEFINE first == Published(feed, observed)
           second == Published(first, receipt)
<1>1. /\ first \in RunFeed
      /\ Held(first, observed) \/ Held(first, previous)
      /\ Acceptable(observed) /\ GoesTo(previous, observed) => Held(first, observed)
  BY PublishedIs
<1>2. next = [second EXCEPT !.revision = 0]
  OBVIOUS
<1> HIDE DEF first
<1>3. ASSUME NEW p, Held(first, p)
      PROVE  /\ second \in RunFeed
             /\ Held(second, receipt) \/ Held(second, p)
             /\ Acceptable(receipt) /\ GoesTo(p, receipt) => Held(second, receipt)
  BY <1>1, <1>3, PublishedIs
<1> HIDE DEF second
<1>4. second \in RunFeed
  BY <1>1, <1>3
<1>5. next \in RunFeed /\ next.active = second.active /\ next.terminal = second.terminal
  BY <1>2, <1>4, RevisionReset
<1>6. \A p : Held(second, p) => Held(next, p)
  BY <1>5 DEF Held
<1> QED
  BY <1>1, <1>3, <1>5, <1>6

----------------------------------------------------------------------------
(* Emissions                                                               *)

(* What an emission is: the rows of the seats and those read from Sessions.*)
EmissionFacts(rs, coldRows, mk, e) ==
  LET rows == e.receipt.participation.rows
      truncated == e.receipt.participation.truncated
  IN /\ admitted \subseteq e.seated /\ e.seated \subseteq Listed(rs) /\ Cardinality(e.seated) <= Seats
     /\ OwnReceipt(e.receipt) /\ e.receipt.outcome = Own.outcome /\ e.receipt.stages = Own.stages
     /\ IsFiniteSet(rows) /\ Rows(e.receipt) <= Seats /\ rows \subseteq Participant
     /\ truncated \in Nat
     /\ \A r \in rows : (r.run \in e.seated /\ r = LiveRow(rs, r.run)) \/ r \in coldRows
     /\ e.lost = {} =>
          /\ e.seated = Admitted(RowsOf(rs, Listed(rs)))
          /\ \A c \in e.seated : LiveRow(rs, c) \in rows
          /\ truncated = 0 => RowsOf(rs, Listed(rs)) \cup coldRows \subseteq rows
          /\ Own.participation.rows \cap coldRows \subseteq rows

(* setRunReceiptObservation replaces the participation alone.              *)
LEMMA ObservedReceiptIs ==
  ASSUME NEW receipt, OwnReceipt(receipt), NEW o \in Participation,
         NEW next, next = setRunReceiptObservation(receipt, o)
  PROVE  /\ OwnReceipt(next) /\ next.outcome = receipt.outcome /\ next.stages = receipt.stages
         /\ next.participation = o
  BY DEF OwnReceipt, LiveRunReceipt, Participation, setRunReceiptObservation

(* An emission is such.                                                    *)
LEMMA EmissionIs ==
  ASSUME NEW rs \in Records, NEW coldRows, ColdRows(coldRows), NEW mk, IsFiniteSet(mk), NEW kn,
         admitted \subseteq Listed(rs), Cardinality(admitted) <= Seats, OwnReceipt(Own)
  PROVE  EmissionFacts(rs, coldRows, mk, Emission(rs, Listed(rs), kn, coldRows, mk))
<1> DEFINE bd == Listed(rs)
           seen == {c \in bd : Observable(rs, kn, c)}
           live == {LiveRow(rs, c) : c \in seen}
           seated == Admitted(live)
           unobserved == Cardinality(bd \ seen)
           o == Observation(live, unobserved, coldRows, seated, mk)
           unseated == (Own.participation.rows \cap coldRows) \ o.rows
           lost == (bd \ seen) \cup {<<r.child, 0>> : r \in unseated}
           receipt == setRunReceiptObservation(Own, o)
           e == Emission(rs, bd, kn, coldRows, mk)
<1>1. e = [receipt |-> receipt, seated |-> seated, lost |-> lost]
  BY DEF Emission, Own
<1>2. seen \in SUBSET Listed(rs) /\ bd \ seen \subseteq Listed(rs)
  OBVIOUS
<1>3. live = RowsOf(rs, seen)
  BY DEF RowsOf
<1>a. lost = {} => seen = bd /\ unseated = {}
  <2> HIDE DEF unseated, seen
  <2> QED
    BY <1>2
<1> HIDE DEF seen, live, e
<1>4. /\ admitted \subseteq seated /\ seated \subseteq Listed(rs) /\ IsFiniteSet(seated)
      /\ Cardinality(seated) <= Seats
  BY <1>2, <1>3, SeatsGiven
<1> HIDE DEF seated
<1>5. unobserved \in Nat
  <2>1. IsFiniteSet(bd \ seen)
    BY <1>2, ListedFinite, FS_Subset
  <2> QED
    BY <2>1, FS_CardinalityType
<1> HIDE DEF bd, unobserved
<1>6. o = Observation(RowsOf(rs, seen), unobserved, coldRows, seated, mk)
  BY <1>3
<1> HIDE DEF o
<1>7. /\ o \in Participation /\ IsFiniteSet(o.rows) /\ Cardinality(o.rows) <= Seats
      /\ \A r \in o.rows : (r.run \in seated /\ r.run \in seen /\ r = LiveRow(rs, r.run)) \/ r \in coldRows
      /\ \A c \in seen : c \in seated => LiveRow(rs, c) \in o.rows
      /\ o.truncated = 0 => RowsOf(rs, seen) \cup coldRows \subseteq o.rows
  <2>1. ObservationOf(rs, seen, coldRows, seated, unobserved, mk)
    BY <1>2, <1>4, <1>5 DEF ObservationOf
  <2>2. ObservationFacts(rs, seen, coldRows, seated,
                         Observation(RowsOf(rs, seen), unobserved, coldRows, seated, mk))
    BY <2>1, ObservationIs
  <2>3. ObservationFacts(rs, seen, coldRows, seated, o)
    BY <1>6, <2>2
  <2> QED
    BY <2>3 DEF ObservationFacts
<1>8. /\ OwnReceipt(receipt) /\ receipt.outcome = Own.outcome /\ receipt.stages = Own.stages
      /\ receipt.participation = o
  BY <1>7, ObservedReceiptIs
<1>9. e.receipt = receipt /\ e.seated = seated /\ e.lost = lost
  BY <1>1
<1> HIDE DEF receipt
<1>10. o.rows \subseteq Participant /\ o.truncated \in Nat
  BY <1>7 DEF Participation
<1>11. lost = {} =>
          /\ seated = Admitted(RowsOf(rs, Listed(rs)))
          /\ \A c \in seated : LiveRow(rs, c) \in o.rows
          /\ o.truncated = 0 => RowsOf(rs, Listed(rs)) \cup coldRows \subseteq o.rows
          /\ Own.participation.rows \cap coldRows \subseteq o.rows
  <2> HAVE lost = {}
  <2>1. seen = Listed(rs) /\ unseated = {}
    BY <1>a DEF bd
  <2>2. seated = Admitted(RowsOf(rs, Listed(rs)))
    BY <1>3, <2>1 DEF seated
  <2> QED
    BY <1>4, <1>7, <2>1, <2>2
<1> HIDE DEF lost
<1>12. Rows(receipt) <= Seats
  BY <1>7, <1>8 DEF Rows
<1>13. EmissionFacts(rs, coldRows, mk, e)
  BY <1>4, <1>7, <1>8, <1>9, <1>10, <1>11, <1>12 DEF EmissionFacts
<1> QED
  BY <1>13 DEF e, bd

(* A child that has a row or a mark.                                       *)
SupportedIn(rs, coldRows, mk, p) ==
  \/ \E q \in coldRows : q.child = p
  \/ \E c \in Listed(rs) : Child(c) = p
  \/ \E m \in mk : m.child = p

(* A row that was read stands below a child that has a row or a mark.      *)
ColdFacts(rs, coldRows, mk) ==
  \A r \in coldRows : /\ r.run = None /\ r.parent \in Children
                      /\ r.index < StagesOf[r.stage].expectedChildren
                      /\ SupportedIn(rs, coldRows, mk, r.parent)

(* What makes the feed refuse a receipt of these rows.                     *)
Refusable(rs, mk, receipt) ==
  \/ ~UniqueChildren(receipt.participation.rows)
  \/ \E r \in receipt.participation.rows :
       r.run # None /\ r.parent # Parent /\ UnattachedIn(rs, r.parent)
  \/ \E r \in receipt.participation.rows :
       /\ r.run = None /\ r.parent # Parent
       /\ \/ \E m \in mk : m.child = r.parent
          \/ receipt.participation.truncated > 0

(* The feed takes an emission that leaves no row out, unless it is one of  *)
(* these.                                                                  *)
LEMMA EmissionAcceptable ==
  ASSUME NEW rs \in Records, NEW coldRows, NEW mk, NEW e,
         EmissionFacts(rs, coldRows, mk, e), e.lost = {}, SeatedWell(rs, e.seated),
         ColdFacts(rs, coldRows, mk), validateStaticTransitions(e.receipt),
         ~Refusable(rs, mk, e.receipt)
  PROVE  Acceptable(e.receipt)
<1> DEFINE rows == e.receipt.participation.rows
           truncated == e.receipt.participation.truncated
<1>1. /\ e.seated \subseteq Listed(rs)
      /\ IsFiniteSet(rows) /\ Rows(e.receipt) <= Seats /\ rows \subseteq Participant
      /\ truncated \in Nat
      /\ \A r \in rows : (r.run \in e.seated /\ r = LiveRow(rs, r.run)) \/ r \in coldRows
      /\ \A c \in e.seated : LiveRow(rs, c) \in rows
      /\ truncated = 0 => RowsOf(rs, Listed(rs)) \cup coldRows \subseteq rows
  BY DEF EmissionFacts
<1>2. UniqueChildren(rows)
  BY DEF Refusable
<1>3. ASSUME NEW r \in rows PROVE Referenced(r, rows)
  <2>0. r.stage \in Stages /\ r \in Participant
    BY <1>1 DEF Participant
  <2>1. CASE r.run \in e.seated /\ r = LiveRow(rs, r.run)
    <3> DEFINE c == r.run
    <3>1. /\ c \in Listed(rs) /\ c \in e.seated /\ c # None /\ Child(c) \in Children /\ c \in Calls
          /\ rs[c].binding \in DOMAIN Bindings
      BY <1>1, <2>1, ListedIs, CapsAssumption
    <3>2. /\ r.parent = ParentOf[Child(c)] /\ r.stage = Bindings[rs[c].binding].stage
          /\ r.index = Bindings[rs[c].binding].index
      BY <2>1, LiveRowIs
    <3>3. r.index < StagesOf[r.stage].expectedChildren
      BY <3>1, <3>2, TreeAssumption
    <3>4. r.parent \in {Parent} \cup {q.child : q \in rows}
      <4>1. CASE Direct(Child(c))
        BY <3>2, <4>1 DEF Direct
      <4>2. CASE ~Direct(Child(c))
        <5>1. ~UnattachedIn(rs, r.parent)
          BY <3>1, <3>2, <4>2 DEF Refusable, Direct
        <5>2. PICK d \in e.seated : Child(d) = r.parent
          BY <3>1, <3>2, <4>2, <5>1 DEF SeatedWell, Carries
        <5>3. LiveRow(rs, d) \in rows /\ LiveRow(rs, d).child = r.parent
          BY <1>1, <5>2, LiveRowIs
        <5> QED
          BY <5>3
      <4> QED
        BY <4>1, <4>2
    <3> QED
      BY <2>0, <3>3, <3>4 DEF Referenced
  <2>2. CASE r \in coldRows
    <3>1. /\ r.run = None /\ r.parent \in Children /\ r.parent # Parent
          /\ r.index < StagesOf[r.stage].expectedChildren
          /\ SupportedIn(rs, coldRows, mk, r.parent)
      BY <2>2, TreeAssumption DEF ColdFacts
    <3>2. ~(\E m \in mk : m.child = r.parent) /\ ~(truncated > 0)
      BY <3>1 DEF Refusable
    <3>3. truncated = 0
      BY <1>1, <3>2
    <3>4. RowsOf(rs, Listed(rs)) \subseteq rows /\ coldRows \subseteq rows
      BY <1>1, <3>3
    <3>5. r.parent \in {q.child : q \in rows}
      <4>1. CASE \E q \in coldRows : q.child = r.parent
        BY <3>4, <4>1
      <4>2. CASE \E c \in Listed(rs) : Child(c) = r.parent
        <5>1. PICK c \in Listed(rs) : Child(c) = r.parent
          BY <4>2
        <5>2. LiveRow(rs, c) \in rows /\ LiveRow(rs, c).child = r.parent
          BY <3>4, <5>1, LiveRowIs DEF RowsOf
        <5> QED
          BY <5>2
      <4> QED
        BY <3>1, <3>2, <4>1, <4>2 DEF SupportedIn
    <3> QED
      BY <2>0, <3>1, <3>5 DEF Referenced
  <2> QED
    BY <1>1, <2>1, <2>2
<1> QED
  BY <1>1, <1>2, <1>3 DEF Acceptable, validateReferences

----------------------------------------------------------------------------
(* The inductive invariant                                                 *)

(* The shape of the state.                                                 *)
ShapeInv ==
  /\ calls \in [Calls -> {"absent", "running", "ended", "never"}]
  /\ agents \subseteq Children \ Remote
  /\ bound = Listed(records) /\ admitted \subseteq bound /\ Cardinality(admitted) <= Seats
  /\ ColdRows(cold) /\ IsFiniteSet(marks)
  /\ entries \in Seq([child : Children, diagnostic : BOOLEAN])
  /\ roots \in [Children -> Calls \cup {None}]
  /\ runs \in [Sessions -> [Runs -> LiveRunReceipt \cup {None}]]
  /\ feeds \in [Sessions -> RunFeed]

(* What is recorded, and of which runs while the observer listens.         *)
RecordsInv ==
  /\ records \in Records /\ Sound(records, returned)
  /\ \A c \in Calls : calls[c] \in {"absent", "never"} => records[c] = None
  /\ phase = "watching" =>
       /\ \A c \in Calls : calls[c] \in {"running", "ended"} => records[c] # None
       /\ \A a \in agents : \E c \in Recorded(records) : Child(c) = a

(* What was read from Sessions stands below what is a row or is marked.    *)
ColdInv ==
  /\ ColdFacts(records, cold, marks)
  /\ \A p \in Children : roots[p] # None =>
       /\ roots[p] \in Recorded(records) /\ records[roots[p]].binding # None
       /\ Child(roots[p]) \in Remote \/ SupportedIn(records, cold, marks, p)

(* A descendant is read once.                                              *)
EntriesInv ==
  /\ \A i, j \in DOMAIN entries : entries[i].child = entries[j].child => i = j
  /\ \A m \in marks : m.kind = "cold" =>
       phase \in {"reading", "finished"} /\ \A i \in DOMAIN entries : entries[i].child # m.child

(* The receipt of the run, by the phase of its observer.                   *)
ReceiptInv ==
  /\ phase \in {"watching", "listing", "reading", "finished"}
  /\ Own = None => phase = "watching"
  /\ Own # None => /\ Own.run = Run /\ validateStaticTransitions(Own)
                   /\ phase # "finished" => Own.outcome = "running"
  /\ phase \in {"listing", "reading"} =>
       /\ ending \in {"completed", "failed"}
       /\ ending = "completed" => \A s \in Stages : Own.stages[s] # "pending"

(* The feed holds one receipt of the run, and may take the next one while  *)
(* no row was left out.                                                    *)
FeedInv ==
  IF Own = None THEN feeds[Session] = EmptyFeed
  ELSE LET previous == Previous(feeds[Session], Run)
       IN Held(feeds[Session], previous) /\ (gone = {} => GoesTo(previous, Own))

(* The rows of the receipt are those of the seats and those that were read.*)
RowsInv ==
  Own # None => \A r \in Own.participation.rows :
    \/ r.run \in admitted /\ SameParticipant(r, LiveRow(records, r.run))
    \/ r \in cold

(* The inductive invariant.                                                *)
ObserverInv ==
  /\ ShapeInv /\ RecordsInv /\ ColdInv /\ EntriesInv /\ ReceiptInv /\ FeedInv
  /\ gone = {} => RowsInv /\ SeatedWell(records, admitted)
  /\ ReceiptReachesFeed

----------------------------------------------------------------------------
(* What an emission does                                                   *)

(* What the steps of the observer start from.                              *)
Observing ==
  /\ records \in Records /\ Sound(records, returned)
  /\ ColdRows(cold) /\ admitted \subseteq Listed(records) /\ Cardinality(admitted) <= Seats
  /\ runs \in [Sessions -> [Runs -> LiveRunReceipt \cup {None}]]
  /\ feeds \in [Sessions -> RunFeed]
  /\ Own # None /\ OwnReceipt(Own) /\ validateStaticTransitions(Own) /\ FeedInv
  /\ gone = {} => RowsInv /\ SeatedWell(records, admitted)

(* The records and marks that an emission is made of.                      *)
Sampled(rs, more, mk) ==
  /\ rs \in Records /\ Sound(rs, more) /\ Forward(records, rs) /\ Fresh(records, rs, returned)
  /\ IsFiniteSet(mk) /\ ColdFacts(rs, cold, mk)

(* The receipt that an event makes of an observation.                      *)
Made(observed, receipt) ==
  /\ OwnReceipt(receipt) /\ validateStaticTransitions(receipt) /\ GoesTo(observed, receipt)
  /\ receipt.participation = observed.participation

(* The rows of the receipt go on in the next observation.                  *)
LEMMA RowsGoOn ==
  ASSUME Observing, gone = {}, NEW rs, NEW more, NEW mk, Sampled(rs, more, mk),
         NEW e, EmissionFacts(rs, cold, mk, e), e.lost = {}
  PROVE  GoesTo(Own, e.receipt)
<1> DEFINE rows == e.receipt.participation.rows
<1>1. /\ admitted \subseteq e.seated /\ \A c \in e.seated : LiveRow(rs, c) \in rows
      /\ Own.participation.rows \cap cold \subseteq rows
      /\ OwnReceipt(e.receipt) /\ e.receipt.outcome = Own.outcome /\ e.receipt.stages = Own.stages
  BY DEF EmissionFacts
<1>2. /\ records \in Records /\ rs \in Records /\ Forward(records, rs)
      /\ admitted \subseteq Listed(records) /\ OwnReceipt(Own) /\ RowsInv
      /\ cold \in SUBSET Participant
  BY DEF Observing, Sampled, ColdRows
<1>3. ASSUME NEW r \in Own.participation.rows
      PROVE  \E n \in rows : n.child = r.child /\ SameParticipant(r, n)
  <2>1. r \in Participant
    BY <1>2 DEF OwnReceipt, LiveRunReceipt
  <2>2. CASE r.run \in admitted /\ SameParticipant(r, LiveRow(records, r.run))
    <3>1. LiveRow(rs, r.run) \in rows
      BY <1>1, <2>2
    <3>2. r.run \in Listed(records) /\ r.run \in Listed(rs)
      BY <1>2, <2>2, ForwardListed
    <3>3. /\ LiveRow(records, r.run) \in Participant /\ LiveRow(rs, r.run) \in Participant
      BY <1>2, <3>2, LiveRowType
    <3>4. SameParticipant(LiveRow(records, r.run), LiveRow(rs, r.run))
      BY <1>2, <3>2, RowGoesOn
    <3>5. SameParticipant(r, LiveRow(rs, r.run))
      BY <2>1, <2>2, <3>3, <3>4, SameTransitive
    <3>6. LiveRow(rs, r.run).child = r.child
      BY <2>1, <3>3, <3>5, SameIs
    <3> QED
      BY <3>1, <3>5, <3>6
  <2>3. CASE r \in cold
    BY <1>1, <2>1, <2>3, SameReflexive
  <2> QED
    BY <1>2, <2>2, <2>3 DEF RowsInv, Observing
<1>4. validateReplacement(Own, e.receipt)
  BY <1>1, <1>2, <1>3 DEF validateReplacement, OwnReceipt
<1> QED
  BY <1>4 DEF GoesTo

(* What an emission makes of the state.                                    *)
LEMMA EmissionStep ==
  ASSUME Observing, NEW rs, NEW more, NEW mk, Sampled(rs, more, mk), NEW kn,
         NEW receipt, Made(Emission(rs, Listed(rs), kn, cold, mk).receipt, receipt),
         Emit(Emission(rs, Listed(rs), kn, cold, mk), receipt),
         records' = rs, marks' = mk, cold' = cold
  PROVE  /\ admitted' \subseteq Listed(rs) /\ Cardinality(admitted') <= Seats
         /\ runs' \in [Sessions -> [Runs -> LiveRunReceipt \cup {None}]]
         /\ feeds' \in [Sessions -> RunFeed]
         /\ Own' = receipt
         /\ FeedInv'
         /\ gone' = {} => RowsInv' /\ SeatedWell(rs, admitted')
         /\ ReceiptReachesFeed'
<1> DEFINE e == Emission(rs, Listed(rs), kn, cold, mk)
           feed == feeds[Session]
           previous == Previous(feed, Run)
           next == [Published(Published(feed, e.receipt), receipt) EXCEPT !.revision = 0]
<1>1. /\ records \in Records /\ Sound(records, returned) /\ ColdRows(cold)
      /\ admitted \subseteq Listed(records) /\ Cardinality(admitted) <= Seats
      /\ runs \in [Sessions -> [Runs -> LiveRunReceipt \cup {None}]]
      /\ feeds \in [Sessions -> RunFeed]
      /\ Own # None /\ OwnReceipt(Own) /\ validateStaticTransitions(Own) /\ FeedInv
      /\ gone = {} => RowsInv /\ SeatedWell(records, admitted)
  BY DEF Observing
<1>2. /\ rs \in Records /\ Sound(rs, more) /\ Forward(records, rs) /\ Fresh(records, rs, returned)
      /\ IsFiniteSet(mk) /\ ColdFacts(rs, cold, mk)
  BY DEF Sampled
<1>3. /\ admitted' = e.seated /\ gone' = gone \cup e.lost
      /\ runs' = [runs EXCEPT ![Session][Run] = receipt]
      /\ feeds' = [feeds EXCEPT ![Session] = next]
  BY DEF Emit
<1>4. admitted \subseteq Listed(rs)
  BY <1>1, <1>2, ForwardListed
<1>5. EmissionFacts(rs, cold, mk, e)
  BY <1>1, <1>2, <1>4, EmissionIs
<1>6. /\ OwnReceipt(receipt) /\ validateStaticTransitions(receipt) /\ GoesTo(e.receipt, receipt)
      /\ receipt.participation = e.receipt.participation
  BY DEF Made
<1> HIDE DEF e
<1>7. OwnReceipt(e.receipt) /\ validateStaticTransitions(e.receipt)
  BY <1>1, <1>5 DEF EmissionFacts, validateStaticTransitions
<1>8. feed \in RunFeed /\ Held(feed, previous) /\ (gone = {} => GoesTo(previous, Own))
  BY <1>1, CapsAssumption DEF FeedInv
<1> HIDE DEF feed, previous
<1>9. /\ next \in RunFeed /\ \E p \in {previous, e.receipt, receipt} : Held(next, p)
      /\ /\ Acceptable(e.receipt) /\ Acceptable(receipt)
         /\ GoesTo(previous, e.receipt) /\ GoesTo(e.receipt, receipt)
         => Held(next, receipt)
  BY <1>6, <1>7, <1>8, PublishedTwice
<1> HIDE DEF next
<1>10. /\ runs' \in [Sessions -> [Runs -> LiveRunReceipt \cup {None}]] /\ Own' = receipt
       /\ feeds' \in [Sessions -> RunFeed] /\ feeds'[Session] = next
  BY <1>1, <1>3, <1>6, <1>9, CapsAssumption DEF OwnReceipt, Own
<1>11. admitted' \subseteq Listed(rs) /\ Cardinality(admitted') <= Seats
  BY <1>3, <1>5 DEF EmissionFacts
<1>12. ASSUME gone' = {} PROVE gone = {} /\ e.lost = {}
  BY <1>3, <1>12
<1>13. ASSUME gone' = {} PROVE GoesTo(previous, e.receipt)
  <2>1. GoesTo(Own, e.receipt)
    BY <1>2, <1>5, <1>12, <1>13, RowsGoOn
  <2>2. OwnReceipt(previous)
    BY <1>8 DEF Held
  <2> QED
    BY <1>1, <1>7, <1>8, <1>12, <1>13, <2>1, <2>2, GoesOn
<1>14. ASSUME gone' = {} PROVE SeatedWell(rs, admitted')
  <2>1. e.seated = Admitted(RowsOf(rs, Listed(rs)))
    BY <1>5, <1>12, <1>14 DEF EmissionFacts
  <2>2. SeatedWell(records, admitted)
    BY <1>1, <1>12, <1>14
  <2>3. SeatedWell(rs, Admitted(RowsOf(rs, Listed(rs))))
    BY <1>1, <1>2, <2>2, SeatsStay
  <2> QED
    BY <1>3, <2>1, <2>3
<1>15. ASSUME gone' = {} PROVE RowsInv'
  <2>1. ASSUME NEW r \in receipt.participation.rows
        PROVE  \/ r.run \in admitted' /\ SameParticipant(r, LiveRow(rs, r.run))
               \/ r \in cold
    <3>1. r \in Participant /\ ((r.run \in e.seated /\ r = LiveRow(rs, r.run)) \/ r \in cold)
      BY <1>5, <1>6, <2>1 DEF EmissionFacts
    <3>2. r = LiveRow(rs, r.run) => SameParticipant(r, LiveRow(rs, r.run))
      BY <3>1, SameReflexive
    <3> QED
      BY <1>3, <3>1, <3>2
  <2> QED
    BY <1>10, <2>1 DEF RowsInv
<1>16. receipt # None
  BY <1>6, ReceiptIsSome
<1>17. FeedInv'
  <2>1. PICK p \in {previous, e.receipt, receipt} : Held(next, p)
    BY <1>9
  <2>2. Previous(next, Run) = p
    BY <2>1, HeldIsPrevious
  <2>3. ASSUME gone' = {} PROVE GoesTo(p, receipt)
    <3>1. OwnReceipt(previous) /\ GoesTo(previous, e.receipt)
      BY <1>8, <1>13, <2>3 DEF Held
    <3>2. GoesTo(previous, receipt)
      BY <1>6, <1>7, <3>1, GoesOn
    <3>3. GoesTo(receipt, receipt)
      BY DEF GoesTo
    <3> QED
      BY <1>6, <3>2, <3>3
  <2> QED
    BY <1>10, <1>16, <2>1, <2>2, <2>3 DEF FeedInv
<1>18. ReceiptReachesFeed'
  <2> SUFFICES ASSUME ~Unpublishable' PROVE Previous(feeds'[Session], Run) = Own'
    BY DEF ReceiptReachesFeed
  <2>1. gone' = {} /\ ~Refusable(rs, mk, receipt)
    BY <1>10 DEF Unpublishable, Refusable, Unattached, UnattachedIn, Direct
  <2>2. ~Refusable(rs, mk, e.receipt)
    BY <1>6, <2>1 DEF Refusable
  <2>3. e.lost = {} /\ SeatedWell(rs, e.seated)
    BY <1>3, <1>12, <1>14, <2>1
  <2>4. Acceptable(e.receipt)
    BY <1>2, <1>5, <1>7, <2>2, <2>3, EmissionAcceptable
  <2>5. Acceptable(receipt)
    BY <1>6, <2>4 DEF Acceptable, Rows, validateReferences
  <2>6. Held(next, receipt)
    BY <1>6, <1>9, <1>13, <2>1, <2>4, <2>5
  <2> QED
    BY <1>10, <2>6, HeldIsPrevious
<1> QED
  BY <1>10, <1>11, <1>14, <1>15, <1>17, <1>18

----------------------------------------------------------------------------
(* Events                                                                  *)

(* The invariant gives this.                                               *)
LEMMA ObservingIs ==
  ASSUME ObserverInv, Own # None
  PROVE  Observing
<1>1. Own \in LiveRunReceipt
  BY CapsAssumption DEF ObserverInv, ShapeInv, Own
<1> QED
  BY <1>1 DEF ObserverInv, ShapeInv, RecordsInv, ReceiptInv, Observing, OwnReceipt

(* What stands below a row or a mark stays so.                             *)
LEMMA SupportGrows ==
  ASSUME NEW rs \in Records, NEW new \in Records, Forward(rs, new),
         NEW coldRows, NEW more, coldRows \subseteq more, NEW mk, NEW marked, mk \subseteq marked
  PROVE  \A p : SupportedIn(rs, coldRows, mk, p) => SupportedIn(new, more, marked, p)
<1>1. Listed(rs) \subseteq Listed(new)
  BY ForwardListed
<1> QED
  BY <1>1 DEF SupportedIn

(* The marks of remote children are no marks of Sessions to read.          *)
LEMMA RemoteMarksAre ==
  \A rs : IsFiniteSet(RemoteMarks(rs)) /\ \A m \in RemoteMarks(rs) : m.kind # "cold"
<1> TAKE rs
<1> DEFINE S == {c \in Recorded(rs) : rs[c].binding # None} \ Listed(rs)
           f == [c \in S |-> Mark("nested-remote", Child(c), c[2])]
<1>1. S \subseteq Calls
  BY DEF Recorded
<1>2. IsFiniteSet(S)
  <2> HIDE DEF S
  <2> QED
    BY <1>1, TreeAssumption, FS_Subset
<1>3. RemoteMarks(rs) = {f[c] : c \in S}
  BY DEF RemoteMarks
<1>4. \A m \in RemoteMarks(rs) : m.kind # "cold"
  BY DEF RemoteMarks, Mark
<1> HIDE DEF S, f
<1>5. IsFiniteSet({f[c] : c \in S})
  BY <1>2, FunctionImage
<1> QED
  BY <1>3, <1>4, <1>5

(* A step that publishes nothing and only adds records, rows and marks.    *)
Quiet(rs) ==
  /\ UNCHANGED <<feedVars, admitted, gone>>
  /\ records' = rs /\ rs \in Records /\ Forward(records, rs) /\ Listed(rs) = Listed(records)
  /\ \A p : UnattachedIn(records, p) => UnattachedIn(rs, p)
  /\ cold \subseteq cold' /\ marks \subseteq marks'

(* After it the feed has what it had.                                      *)
LEMMA QuietStep ==
  ASSUME ObserverInv, Own # None, NEW rs, Quiet(rs)
  PROVE  /\ FeedInv' /\ ReceiptReachesFeed'
         /\ gone' = {} => RowsInv' /\ SeatedWell(records', admitted')
<1>1. Own' = Own /\ feeds' = feeds /\ admitted' = admitted /\ gone' = gone /\ records' = rs
  BY DEF Quiet, feedVars, Own
<1>2. FeedInv'
  BY <1>1 DEF ObserverInv, FeedInv
<1>3. ReceiptReachesFeed'
  <2>1. Unpublishable => Unpublishable'
    BY <1>1 DEF Unpublishable, Quiet, Unattached, UnattachedIn, Direct
  <2> QED
    BY <1>1, <2>1 DEF ObserverInv, ReceiptReachesFeed
<1>4. ASSUME gone' = {} PROVE RowsInv' /\ SeatedWell(records', admitted')
  <2>1. Observing /\ RowsInv /\ SeatedWell(records, admitted)
    BY <1>1, <1>4, ObservingIs DEF ObserverInv
  <2>2. RowsInv'
    <3>1. ASSUME NEW r \in Own.participation.rows, r.run \in admitted,
                 SameParticipant(r, LiveRow(records, r.run))
          PROVE  SameParticipant(r, LiveRow(rs, r.run))
      <4>1. r.run \in Listed(records) /\ r.run \in Listed(rs) /\ records \in Records /\ rs \in Records
        BY <2>1, <3>1 DEF Quiet, Observing
      <4>2. LiveRow(records, r.run) \in Participant /\ LiveRow(rs, r.run) \in Participant
        BY <4>1, LiveRowType
      <4>3. SameParticipant(LiveRow(records, r.run), LiveRow(rs, r.run))
        BY <4>1, RowGoesOn DEF Quiet
      <4>4. r \in Participant
        BY <2>1 DEF Observing, OwnReceipt, LiveRunReceipt
      <4> QED
        BY <3>1, <4>2, <4>3, <4>4, SameTransitive
    <3> QED
      BY <1>1, <2>1, <3>1 DEF RowsInv, Quiet
  <2>3. SeatedWell(rs, admitted)
    BY <2>1 DEF Quiet, SeatedWell, Carries
  <2> QED
    BY <1>1, <2>2, <2>3
<1> QED
  BY <1>2, <1>3, <1>4

(* What the Host and the registry are after a step.                        *)
HostAfter(rs) ==
  /\ calls' \in [Calls -> {"absent", "running", "ended", "never"}]
  /\ agents' \subseteq Children \ Remote
  /\ \A c \in Calls : calls'[c] \in {"absent", "never"} => rs[c] = None
  /\ phase' = "watching" =>
       /\ \A c \in Calls : calls'[c] \in {"running", "ended"} => rs[c] # None
       /\ \A a \in agents' : \E c \in Recorded(rs) : Child(c) = a

(* The rows that were read stay below a row or a mark.                     *)
LEMMA ColdKept ==
  ASSUME ColdInv, NEW rs, Forward(records, rs), records' = rs, cold' = cold, roots' = roots,
         \A p : SupportedIn(records, cold, marks, p) => SupportedIn(rs, cold, marks', p)
  PROVE  ColdInv'
<1>1. \A p \in Children : roots[p] # None =>
        roots[p] \in Recorded(rs) /\ rs[roots[p]].binding # None
  BY DEF ColdInv, Forward
<1> QED
  BY <1>1 DEF ColdInv, ColdFacts

(* An event that records nothing new is only noted.                        *)
LEMMA NoteStep ==
  ASSUME ObserverInv, Own # None, NEW rs, NEW kn, Note(rs, kn), Quiet(rs),
         Sound(rs, returned'), HostAfter(rs)
  PROVE  ObserverInv'
<1>1. FeedInv' /\ ReceiptReachesFeed' /\ (gone' = {} => RowsInv' /\ SeatedWell(records', admitted'))
  BY QuietStep
<1>2. /\ records' = rs /\ bound' = bound /\ cold' = cold /\ marks' = marks /\ admitted' = admitted
      /\ phase' = phase /\ ending' = ending /\ entries' = entries /\ roots' = roots
      /\ runs' = runs /\ feeds' = feeds /\ Own' = Own
  BY DEF Note, feedVars, Own
<1>3. ShapeInv'
  BY <1>2 DEF ObserverInv, ShapeInv, Quiet, HostAfter
<1>4. RecordsInv'
  BY <1>2 DEF HostAfter, RecordsInv, Quiet
<1>5. ColdInv'
  <2>1. \A p : SupportedIn(records, cold, marks, p) => SupportedIn(rs, cold, marks, p)
    BY SupportGrows DEF ObserverInv, RecordsInv, Quiet
  <2> QED
    BY <1>2, <2>1, ColdKept DEF ObserverInv, Quiet
<1>6. EntriesInv'
  BY <1>2 DEF ObserverInv, EntriesInv
<1>7. ReceiptInv'
  BY <1>2 DEF ObserverInv, ReceiptInv
<1> QED
  BY <1>1, <1>3, <1>4, <1>5, <1>6, <1>7 DEF ObserverInv

(* An emission is a receipt that goes on from itself.                      *)
LEMMA EmissionMade ==
  ASSUME Observing, NEW rs, NEW more, NEW mk, Sampled(rs, more, mk), NEW kn
  PROVE  LET e == Emission(rs, Listed(rs), kn, cold, mk)
         IN /\ Made(e.receipt, e.receipt) /\ e.receipt.outcome = Own.outcome
            /\ e.receipt.stages = Own.stages
<1> DEFINE e == Emission(rs, Listed(rs), kn, cold, mk)
<1>1. /\ rs \in Records /\ ColdRows(cold) /\ IsFiniteSet(mk) /\ admitted \subseteq Listed(rs)
      /\ Cardinality(admitted) <= Seats /\ OwnReceipt(Own) /\ validateStaticTransitions(Own)
  BY ForwardListed DEF Observing, Sampled
<1>2. EmissionFacts(rs, cold, mk, e)
  BY <1>1, EmissionIs
<1> HIDE DEF e
<1>3. OwnReceipt(e.receipt) /\ e.receipt.outcome = Own.outcome /\ e.receipt.stages = Own.stages
  BY <1>2 DEF EmissionFacts
<1>4. validateStaticTransitions(e.receipt)
  BY <1>1, <1>3 DEF validateStaticTransitions
<1>5. Made(e.receipt, e.receipt) /\ e.receipt.outcome = Own.outcome /\ e.receipt.stages = Own.stages
  BY <1>3, <1>4 DEF Made, GoesTo
<1> QED
  BY <1>5 DEF e

(* An event after which the observer emits what it knows.                  *)
LEMMA ObserveStep ==
  ASSUME ObserverInv, Own # None, NEW rs, NEW kn, NEW mk, Observe(rs, kn, mk),
         rs \in Records, Sound(rs, returned'), Forward(records, rs), Fresh(records, rs, returned),
         IsFiniteSet(mk), \A m \in mk : m \in marks \/ m.kind # "cold",
         \A p : SupportedIn(records, cold, marks, p) => SupportedIn(rs, cold, mk, p),
         HostAfter(rs)
  PROVE  ObserverInv'
<1> DEFINE marked == mk \cup RemoteMarks(rs)
           e == Emission(rs, Listed(rs), kn, cold, marked)
<1>1. Observing
  BY ObservingIs
<1>2. bound' = Listed(rs)
  BY <1>1, ForwardListed DEF Observe, ObserverInv, ShapeInv, Observing
<1>3. /\ records' = rs /\ cold' = cold /\ marks' = marked
      /\ phase' = phase /\ ending' = ending /\ entries' = entries /\ roots' = roots
  BY DEF Observe
<1>4. Emit(e, e.receipt)
  BY <1>2, <1>3 DEF Observe
<1>5. IsFiniteSet(marked) /\ \A m \in marked : m \in marks \/ m.kind # "cold"
  <2>1. IsFiniteSet(RemoteMarks(rs)) /\ \A m \in RemoteMarks(rs) : m.kind # "cold"
    BY RemoteMarksAre
  <2>2. IsFiniteSet(mk \cup RemoteMarks(rs))
    BY <2>1, FS_Union
  <2> QED
    BY <2>1, <2>2
<1>6. \A p : SupportedIn(records, cold, marks, p) => SupportedIn(rs, cold, marked, p)
  BY DEF SupportedIn
<1> HIDE DEF marked
<1>7. ColdInv'
  BY <1>3, <1>6, ColdKept DEF ObserverInv
<1>8. Sampled(rs, returned', marked)
  BY <1>3, <1>5, <1>7 DEF Sampled, ColdInv
<1>9. Made(e.receipt, e.receipt) /\ e.receipt.outcome = Own.outcome /\ e.receipt.stages = Own.stages
  BY <1>1, <1>8, EmissionMade
<1>10. /\ admitted' \subseteq Listed(rs) /\ Cardinality(admitted') <= Seats
       /\ runs' \in [Sessions -> [Runs -> LiveRunReceipt \cup {None}]]
       /\ feeds' \in [Sessions -> RunFeed] /\ Own' = e.receipt /\ FeedInv'
       /\ gone' = {} => RowsInv' /\ SeatedWell(rs, admitted')
       /\ ReceiptReachesFeed'
  BY <1>1, <1>3, <1>4, <1>8, <1>9, EmissionStep
<1> HIDE DEF e
<1>11. ShapeInv'
  BY <1>2, <1>3, <1>5, <1>10 DEF ObserverInv, ShapeInv, HostAfter
<1>12. RecordsInv'
  BY <1>3 DEF RecordsInv, HostAfter
<1>13. EntriesInv'
  BY <1>3, <1>5 DEF ObserverInv, EntriesInv
<1>14. ReceiptInv'
  <2>1. OwnReceipt(e.receipt) /\ validateStaticTransitions(e.receipt)
    BY <1>9 DEF Made
  <2>2. ReceiptInv /\ phase' = phase /\ ending' = ending /\ Own' = e.receipt
    BY <1>3, <1>10 DEF ObserverInv
  <2>3. \A s \in Stages : e.receipt.stages[s] = Own.stages[s]
    BY <1>9
  <2>4. e.receipt.run = Run /\ e.receipt # None
    BY <2>1, ReceiptIsSome DEF OwnReceipt
  <2> QED
    BY <1>9, <2>1, <2>2, <2>3, <2>4 DEF ReceiptInv
<1> QED
  BY <1>3, <1>7, <1>10, <1>11, <1>12, <1>13, <1>14 DEF ObserverInv

(* The start of a direct child lists nothing.                              *)
LEMMA DirectStartIsQuiet ==
  ASSUME NEW rs \in Records, NEW new \in Records, NEW call,
         Recorded(new) = Recorded(rs) \cup {call},
         \A c \in Recorded(rs) : new[c].binding = rs[c].binding, new[call].binding = None,
         rs[call] = None
  PROVE  /\ Listed(new) = Listed(rs)
         /\ \A p : UnattachedIn(rs, p) => UnattachedIn(new, p)
<1>1. call \notin Recorded(rs)
  BY DEF Recorded
<1> QED
  BY <1>1 DEF Listed, UnattachedIn

(* subagent_start of a run.                                                *)
LEMMA SubagentStartStep ==
  ASSUME ObserverInv, Own # None, NEW call \in Calls, SubagentStart(call)
  PROVE  ObserverInv'
<1> DEFINE child == Child(call)
           kn == IF child \in Remote THEN known ELSE known \cup {child}
           carrier == ParentOf[child]
           root == IF RootRecord(records, carrier) # None THEN RootRecord(records, carrier)
                   ELSE UnboundRootRecord(records, carrier)
<1>1. /\ phase \in {"watching", "listing"} /\ calls[call] = "absent"
      /\ Direct(child) \/ carrier \in agents
      /\ calls' = [calls EXCEPT ![call] = "running"]
      /\ agents' = IF child \in Remote THEN agents ELSE agents \cup {child}
      /\ returned' = returned
      /\ IF phase # "watching" THEN Note(records, known)
         ELSE IF Direct(child)
         THEN Note(StartedAlone(records, call), kn)
         ELSE Observe(StartedUnder(records, call, root), kn, marks)
  BY DEF SubagentStart, StartedAlone, StartedUnder, RecordAbove
<1>2. /\ records \in Records /\ Sound(records, returned) /\ records[call] = None
      /\ calls \in [Calls -> {"absent", "running", "ended", "never"}] /\ agents \subseteq Children \ Remote
      /\ \A c \in Calls : calls[c] \in {"absent", "never"} => records[c] = None
      /\ IsFiniteSet(marks)
  BY <1>1 DEF ObserverInv, ShapeInv, RecordsInv
<1>3. child \in Children
  BY TreeAssumption DEF Child
<1>4. phase' = phase
  BY <1>1 DEF Note, Observe
<1>5. ASSUME NEW rs, Recorded(rs) = Recorded(records) \cup {call}, phase = "watching"
      PROVE  HostAfter(rs)
  <2>1. calls' \in [Calls -> {"absent", "running", "ended", "never"}]
    BY <1>1, <1>2
  <2>2. agents' \subseteq Children \ Remote
    BY <1>1, <1>2, <1>3
  <2>3. \A c \in Calls : calls'[c] \in {"absent", "never"} => rs[c] = None
    BY <1>1, <1>2, <1>5 DEF Recorded
  <2>4. \A c \in Calls : calls'[c] \in {"running", "ended"} => rs[c] # None
    BY <1>1, <1>2, <1>5 DEF Recorded, ObserverInv, RecordsInv
  <2>5. \A a \in agents' : \E c \in Recorded(rs) : Child(c) = a
    BY <1>1, <1>5 DEF ObserverInv, RecordsInv
  <2> QED
    BY <2>1, <2>2, <2>3, <2>4, <2>5 DEF HostAfter
<1> HIDE DEF child
<1>6. CASE phase # "watching"
  <2> DEFINE rs == records
             kn0 == known
  <2>1. Note(rs, kn0)
    BY <1>1, <1>6
  <2>2. Quiet(rs)
    BY <1>2, <2>1, SameRecords DEF Note, Quiet
  <2>3. HostAfter(rs)
    BY <1>1, <1>2, <1>3, <1>4, <1>6 DEF HostAfter
  <2>4. Sound(rs, returned')
    BY <1>1, <1>2
  <2> HIDE DEF rs, kn0
  <2> QED
    BY <2>1, <2>2, <2>3, <2>4, NoteStep
<1>7. CASE phase = "watching" /\ Direct(child)
  <2> DEFINE rs == StartedAlone(records, call)
  <2>1. /\ rs \in Records /\ Recorded(rs) = Recorded(records) \cup {call} /\ Sound(rs, returned)
        /\ Forward(records, rs) /\ \A c \in Recorded(records) : rs[c].binding = records[c].binding
        /\ rs[call].binding = None
    BY <1>2, <1>7, DirectStarts DEF child, Started
  <2>2. Note(rs, kn)
    BY <1>1, <1>7
  <2> HIDE DEF rs, kn
  <2>3. Listed(rs) = Listed(records) /\ \A p : UnattachedIn(records, p) => UnattachedIn(rs, p)
    BY <1>2, <2>1, DirectStartIsQuiet
  <2>4. Quiet(rs)
    BY <2>1, <2>2, <2>3 DEF Note, Quiet
  <2>5. HostAfter(rs)
    BY <1>5, <1>7, <2>1
  <2> QED
    BY <1>1, <2>1, <2>2, <2>4, <2>5, NoteStep
<1>8. CASE phase = "watching" /\ ~Direct(child)
  <2> DEFINE rs == StartedUnder(records, call, root)
  <2>1. carrier \in agents /\ carrier \in Children /\ carrier \notin Remote
    BY <1>1, <1>2, <1>8
  <2>2. \E e \in Recorded(records) : Child(e) = carrier
    BY <1>8, <2>1 DEF ObserverInv, RecordsInv
  <2>3. /\ root \in Recorded(records) \cup {None}
        /\ root # None =>
             /\ Top[Child(root)] = Top[carrier] /\ Direct(Child(root))
             /\ records[root].binding = None => Child(root) = carrier
    <3>1. RootRecord(records, carrier) \in TopRecords(records, carrier)
      BY <1>2, <2>1, RootRecordIs
    <3>2. CASE RootRecord(records, carrier) # None
      <4>1. root = RootRecord(records, carrier)
        BY <3>2
      <4>2. /\ root \in Recorded(records) /\ Direct(Child(root)) /\ Child(root) = Top[carrier]
            /\ records[root].binding # None /\ Child(root) \in Children
        BY <1>2, <3>1, <3>2, <4>1, RecordedType DEF TopRecords
      <4>3. Top[Child(root)] = Child(root)
        BY <4>2, TopOf
      <4> QED
        BY <4>2, <4>3
    <3>3. CASE RootRecord(records, carrier) = None
      <4>1. root = UnboundRootRecord(records, carrier)
        BY <3>3
      <4>2. root # None => /\ root \in Recorded(records) /\ Child(root) = carrier /\ Direct(carrier)
        BY <1>2, <4>1, UnboundRootRecordIs
      <4> QED
        BY <4>1, <4>2
    <3> QED
      BY <3>2, <3>3
  <2> HIDE DEF root
  <2>4. /\ rs \in Records /\ Recorded(rs) = Recorded(records) \cup {call} /\ Sound(rs, returned)
        /\ Forward(records, rs) /\ Fresh(records, rs, returned)
    <3>1. Beneath(records, returned, call, root)
      BY <1>2, <1>8, <2>1, <2>2, <2>3 DEF child, Beneath
    <3>2. Started(records, returned, call, rs)
      BY <3>1, NestedStarts
    <3> QED
      BY <3>2 DEF Started
  <2>5. Observe(rs, kn, marks)
    BY <1>1, <1>8
  <2> HIDE DEF rs, kn, carrier
  <2>6. HostAfter(rs)
    BY <1>5, <1>8, <2>4
  <2>7. \A p : SupportedIn(records, cold, marks, p) => SupportedIn(rs, cold, marks, p)
    BY <1>2, <2>4, SupportGrows
  <2> QED
    BY <1>1, <1>2, <2>4, <2>5, <2>6, <2>7, ObserveStep
<1> QED
  BY <1>6, <1>7, <1>8

(* subagent_end of a run.                                                  *)
LEMMA SubagentEndStep ==
  ASSUME ObserverInv, Own # None, NEW call \in Calls, SubagentEnd(call)
  PROVE  ObserverInv'
<1> DEFINE rs == [records EXCEPT ![call].ended = TRUE]
<1>1. /\ phase = "watching" /\ calls[call] = "running" /\ calls' = [calls EXCEPT ![call] = "ended"]
      /\ agents' = agents /\ returned' = returned /\ Observe(rs, known, marks)
  BY DEF SubagentEnd
<1>2. /\ records \in Records /\ Sound(records, returned) /\ records[call] # None
      /\ calls \in [Calls -> {"absent", "running", "ended", "never"}] /\ agents \subseteq Children \ Remote
      /\ \A c \in Calls : calls[c] \in {"absent", "never"} => records[c] = None
      /\ \A c \in Calls : calls[c] \in {"running", "ended"} => records[c] # None
      /\ \A a \in agents : \E c \in Recorded(records) : Child(c) = a
      /\ IsFiniteSet(marks)
  BY <1>1 DEF ObserverInv, ShapeInv, RecordsInv
<1>3. call \in Recorded(records)
  BY <1>2 DEF Recorded
<1>4. /\ rs \in Records /\ Recorded(rs) = Recorded(records) /\ Sound(rs, returned)
      /\ Forward(records, rs) /\ Fresh(records, rs, returned)
  BY <1>2, <1>3, RecordEnds
<1> HIDE DEF rs
<1>5. HostAfter(rs)
  <2>1. \A c \in Calls : rs[c] = None <=> records[c] = None
    BY <1>4 DEF Recorded
  <2> QED
    BY <1>1, <1>2, <1>4, <2>1 DEF HostAfter
<1>6. \A p : SupportedIn(records, cold, marks, p) => SupportedIn(rs, cold, marks, p)
  BY <1>2, <1>4, SupportGrows
<1> QED
  BY <1>1, <1>2, <1>4, <1>5, <1>6, ObserveStep

(* agent_disposed of a child.                                              *)
LEMMA AgentDisposedStep ==
  ASSUME ObserverInv, Own # None, NEW child \in Children, AgentDisposed(child)
  PROVE  ObserverInv'
<1> DEFINE rs == records
           kn == IF phase = "watching" THEN known \ {child} ELSE known
<1>1. /\ agents' = agents \ {child} /\ calls' = calls /\ returned' = returned /\ Note(rs, kn)
  BY DEF AgentDisposed
<1>2. /\ records \in Records /\ Sound(records, returned)
      /\ calls \in [Calls -> {"absent", "running", "ended", "never"}] /\ agents \subseteq Children \ Remote
  BY DEF ObserverInv, ShapeInv, RecordsInv
<1>3. phase' = phase
  BY <1>1 DEF Note
<1>4. Quiet(rs)
  BY <1>1, <1>2, SameRecords DEF Note, Quiet
<1>5. HostAfter(rs)
  BY <1>1, <1>2, <1>3 DEF HostAfter, ObserverInv, RecordsInv
<1>6. Sound(rs, returned')
  BY <1>1, <1>2
<1> HIDE DEF rs, kn
<1> QED
  BY <1>1, <1>4, <1>5, <1>6, NoteStep

(* An event after which the records are the same.                          *)
LEMMA SampleStep ==
  ASSUME ObserverInv, Own # None, NEW kn, NEW mk, Observe(records, kn, mk),
         calls' = calls, agents' = agents, returned \subseteq returned',
         IsFiniteSet(mk), marks \subseteq mk, \A m \in mk : m \in marks \/ m.kind # "cold"
  PROVE  ObserverInv'
<1> DEFINE rs == records
<1>1. Observe(rs, kn, mk)
  OBVIOUS
<1>2. /\ rs \in Records /\ Sound(records, returned)
      /\ calls \in [Calls -> {"absent", "running", "ended", "never"}] /\ agents \subseteq Children \ Remote
  BY DEF ObserverInv, ShapeInv, RecordsInv
<1>3. Forward(records, rs) /\ Fresh(records, rs, returned)
  BY <1>2, SameRecords
<1>4. Sound(rs, returned')
  <2>1. Sound(records, returned \cup returned')
    BY <1>2, MoreReturned
  <2>2. returned \cup returned' = returned'
    OBVIOUS
  <2> QED
    BY <2>1, <2>2
<1>5. HostAfter(rs)
  BY <1>1, <1>2 DEF HostAfter, ObserverInv, RecordsInv, Observe
<1>6. \A p : SupportedIn(records, cold, marks, p) => SupportedIn(rs, cold, mk, p)
  BY DEF SupportedIn
<1> HIDE DEF rs
<1> QED
  BY <1>1, <1>2, <1>3, <1>4, <1>5, <1>6, ObserveStep

(* agent_status of a child.                                                *)
LEMMA AgentStatusStep ==
  ASSUME ObserverInv, Own # None, NEW child \in Children, AgentStatus(child)
  PROVE  ObserverInv'
<1> DEFINE kn == known \cup {child}
<1>1. Observe(records, kn, marks) /\ calls' = calls /\ agents' = agents /\ returned' = returned
  BY DEF AgentStatus
<1>2. IsFiniteSet(marks)
  BY DEF ObserverInv, ShapeInv
<1> HIDE DEF kn
<1> QED
  BY <1>1, <1>2, SampleStep

(* trackChild, when start() of a child of the plan returned.               *)
LEMMA TrackChildStep ==
  ASSUME ObserverInv, Own # None, NEW child \in Children, TrackChild(child)
  PROVE  ObserverInv'
<1> DEFINE candidate == UnboundRootRecord(records, child)
           direct == Mark("direct", child, 0)
           rs == WhenTracked(records, child, candidate)
           kn == IF child \in Remote THEN known ELSE known \cup {child}
<1>1. /\ child \in DOMAIN Bindings \ returned /\ returned' = returned \cup {child}
      /\ calls' = calls /\ agents' = agents
      /\ IF candidate = None THEN Observe(records, known, marks \cup {direct})
         ELSE Observe(rs, kn, marks \ {direct})
  BY DEF TrackChild, WhenTracked
<1>2. /\ records \in Records /\ Sound(records, returned) /\ IsFiniteSet(marks)
      /\ calls \in [Calls -> {"absent", "running", "ended", "never"}] /\ agents \subseteq Children \ Remote
  BY DEF ObserverInv, ShapeInv, RecordsInv
<1>3. direct.kind # "cold" /\ direct.child = child
  BY DEF Mark
<1> HIDE DEF candidate, direct, kn
<1>4. CASE candidate = None
  <2> DEFINE mk == marks \cup {direct}
  <2>1. IsFiniteSet(mk)
    BY <1>2, FS_AddElement
  <2>2. Observe(records, known, mk)
    BY <1>1, <1>4
  <2>3. marks \subseteq mk /\ (\A m \in mk : m \in marks \/ m.kind # "cold") /\ returned \subseteq returned'
    BY <1>1, <1>3
  <2> HIDE DEF mk
  <2> QED
    BY <1>1, <2>1, <2>2, <2>3, SampleStep
<1>5. CASE candidate # None
  <2> DEFINE mk == marks \ {direct}
  <2>1. Tracked(records, returned, child, candidate, rs)
    BY <1>1, <1>2, <1>5, ChildTracked DEF candidate
  <2>2. Observe(rs, kn, mk)
    BY <1>1, <1>5
  <2> HIDE DEF rs
  <2>3. /\ rs \in Records /\ Recorded(rs) = Recorded(records) /\ Sound(rs, returned')
        /\ Forward(records, rs) /\ Fresh(records, rs, returned)
        /\ candidate \in Recorded(rs) /\ Child(candidate) = child /\ Direct(child)
        /\ rs[candidate].binding # None
    BY <1>1, <2>1, TreeAssumption, CapsAssumption DEF Tracked
  <2>4. IsFiniteSet(mk)
    BY <1>2, FS_Subset
  <2>5. \A m \in mk : m \in marks \/ m.kind # "cold"
    OBVIOUS
  <2>6. HostAfter(rs)
    <3>1. \A c \in Calls : rs[c] = None <=> records[c] = None
      BY <2>3 DEF Recorded
    <3>2. phase' = phase
      BY <2>2 DEF Observe
    <3> QED
      BY <1>1, <1>2, <2>3, <3>1, <3>2 DEF HostAfter, ObserverInv, RecordsInv
  <2>7. \A p : SupportedIn(records, cold, marks, p) => SupportedIn(rs, cold, mk, p)
    <3>1. Listed(records) \subseteq Listed(rs)
      BY <1>2, <2>3, ForwardListed
    <3>2. candidate \in Listed(rs)
      BY <2>3 DEF Listed
    <3> QED
      BY <1>3, <2>3, <3>1, <3>2 DEF SupportedIn
  <2> HIDE DEF mk
  <2> QED
    BY <2>2, <2>3, <2>4, <2>5, <2>6, <2>7, ObserveStep
<1> QED
  BY <1>4, <1>5

----------------------------------------------------------------------------
(* Stages and outcomes                                                     *)

(* A receipt goes to one that only has more settled stages or its outcome. *)
LEMMA StagesGoOn ==
  ASSUME NEW receipt, OwnReceipt(receipt), receipt.outcome = "running", NEW next, OwnReceipt(next),
         next.participation = receipt.participation,
         \A s \in Stages : receipt.stages[s] # "pending" => next.stages[s] = receipt.stages[s]
  PROVE  GoesTo(receipt, next)
<1>1. \A r \in receipt.participation.rows : r \in Participant /\ SameParticipant(r, r)
  BY SameReflexive DEF OwnReceipt, LiveRunReceipt
<1>2. \A r \in receipt.participation.rows :
        \E n \in next.participation.rows : n.child = r.child /\ SameParticipant(r, n)
  BY <1>1
<1> QED
  BY <1>2 DEF GoesTo, validateReplacement, OwnReceipt

(* finishRunReceipt settles the outcome.                                   *)
LEMMA FinishedReceipt ==
  ASSUME NEW receipt, OwnReceipt(receipt), receipt.outcome = "running",
         NEW outcome, outcome \in {"completed", "failed"},
         outcome = "completed" => \A s \in Stages : receipt.stages[s] # "pending"
  PROVE  Made(receipt, finishRunReceipt(receipt, outcome))
<1> DEFINE next == finishRunReceipt(receipt, outcome)
           stages == IF outcome = "failed"
                     THEN [s \in Stages |-> IF receipt.stages[s] = "pending" THEN "cancelled"
                                            ELSE receipt.stages[s]]
                     ELSE receipt.stages
<1>1. receipt \in LiveRunReceipt /\ receipt.run = Run /\ receipt.stages \in [Stages -> Statuses]
  BY DEF OwnReceipt, LiveRunReceipt
<1>2. next = [receipt EXCEPT !.outcome = outcome, !.stages = stages]
  BY <1>1 DEF finishRunReceipt
<1>3. stages \in [Stages -> Statuses]
  BY <1>1 DEF Statuses
<1>4. /\ \A s \in Stages : stages[s] # "pending"
      /\ \A s \in Stages : receipt.stages[s] # "pending" => stages[s] = receipt.stages[s]
  BY <1>1
<1> HIDE DEF next, stages
<1>5. /\ OwnReceipt(next) /\ next.stages = stages /\ next.outcome = outcome
      /\ next.participation = receipt.participation
  BY <1>1, <1>2, <1>3 DEF OwnReceipt, LiveRunReceipt, Outcomes
<1>6. validateStaticTransitions(next)
  BY <1>4, <1>5, TreeAssumption DEF validateStaticTransitions
<1>7. GoesTo(receipt, next)
  BY <1>4, <1>5, StagesGoOn
<1>8. Made(receipt, next)
  BY <1>5, <1>6, <1>7 DEF Made
<1> QED
  BY <1>8 DEF next

(* settleRunReceiptStage settles a stage and those that it skips.          *)
LEMMA SettledReceipt ==
  ASSUME NEW receipt, OwnReceipt(receipt), receipt.outcome = "running",
         validateStaticTransitions(receipt), NEW stage \in Stages, CanSettle(receipt, stage),
         \A d \in StagesOf[stage].after : ~CanSettle(receipt, d)
  PROVE  Made(receipt, settleRunReceiptStage(receipt, stage, "completed"))
         /\ settleRunReceiptStage(receipt, stage, "completed").outcome = "running"
<1> DEFINE next == settleRunReceiptStage(receipt, stage, "completed")
           stages == [receipt.stages EXCEPT ![stage] = "completed"]
<1>1. receipt \in LiveRunReceipt /\ receipt.run = Run /\ receipt.stages \in [Stages -> Statuses]
  BY DEF OwnReceipt, LiveRunReceipt
<1>2. next = [receipt EXCEPT !.stages = stages]
  BY <1>1 DEF settleRunReceiptStage
<1>3. stages \in [Stages -> Statuses]
  BY <1>1 DEF Statuses
<1>4. \A s \in Stages : stages[s] = IF s = stage THEN "completed" ELSE receipt.stages[s]
  BY <1>1
<1>5. receipt.stages[stage] = "pending"
  BY DEF CanSettle
<1> HIDE DEF next, stages
<1>6. /\ OwnReceipt(next) /\ next.stages = stages /\ next.outcome = "running"
      /\ next.participation = receipt.participation
  BY <1>1, <1>2, <1>3 DEF OwnReceipt, LiveRunReceipt
<1>7. \A s \in Stages : StagesOf[s].after \subseteq Stages
  BY TreeAssumption
<1>8. validateStaticTransitions(next)
  <2>1. ASSUME NEW s \in Stages, stages[s] # "pending", NEW d \in StagesOf[s].after
        PROVE  stages[d] # "pending"
    <3>1. d \in Stages
      BY <1>7, <2>1
    <3>2. receipt.stages[d] # "pending"
      <4>1. CASE s = stage
        BY <2>1, <3>1, <4>1 DEF CanSettle
      <4>2. CASE s # stage
        BY <1>4, <2>1, <4>2 DEF validateStaticTransitions
      <4> QED
        BY <4>1, <4>2
    <3> QED
      BY <1>4, <3>1, <3>2
  <2> QED
    BY <1>6, <2>1 DEF validateStaticTransitions
<1>9. GoesTo(receipt, next)
  BY <1>4, <1>5, <1>6, StagesGoOn
<1>10. Made(receipt, next) /\ next.outcome = "running"
  BY <1>6, <1>8, <1>9 DEF Made
<1> QED
  BY <1>10 DEF next

(* What a step keeps that emits without recording anything.                *)
Resampled ==
  UNCHANGED <<calls, agents, returned, records, bound, cold, known, entries, roots>>

(* Such a step keeps all but what is said of the phase.                    *)
LEMMA ResampledStep ==
  ASSUME ObserverInv, Own # None, Resampled, NEW mk, marks' = mk, IsFiniteSet(mk), marks \subseteq mk,
         \A m \in mk : m \in marks \/ m.kind # "cold",
         phase' = phase \/ phase' = "finished",
         NEW receipt,
         Emit(Emission(records, bound, known, cold, mk), receipt),
         Made(Emission(records, bound, known, cold, mk).receipt, receipt)
  PROVE  /\ ShapeInv' /\ RecordsInv' /\ ColdInv' /\ EntriesInv' /\ FeedInv' /\ ReceiptReachesFeed'
         /\ gone' = {} => RowsInv' /\ SeatedWell(records', admitted')
         /\ Own' = receipt
<1> DEFINE rs == records
<1>1. /\ calls' = calls /\ agents' = agents /\ returned' = returned /\ records' = rs /\ bound' = bound
      /\ cold' = cold /\ entries' = entries /\ roots' = roots /\ bound = Listed(rs)
  BY DEF Resampled, ObserverInv, ShapeInv
<1>2. Observing
  BY ObservingIs
<1>3. \A p : SupportedIn(records, cold, marks, p) => SupportedIn(rs, cold, mk, p)
  BY DEF SupportedIn
<1>4. /\ rs \in Records /\ Sound(rs, returned) /\ Forward(records, rs) /\ Fresh(records, rs, returned)
  BY <1>2, SameRecords DEF Observing
<1>a. /\ Emit(Emission(rs, Listed(rs), known, cold, mk), receipt)
      /\ Made(Emission(rs, Listed(rs), known, cold, mk).receipt, receipt)
  BY <1>1
<1> HIDE DEF rs
<1>5. ColdInv'
  BY <1>1, <1>3, <1>4, ColdKept DEF ObserverInv
<1>6. Sampled(rs, returned, mk)
  BY <1>1, <1>4, <1>5 DEF Sampled, ColdInv
<1>7. /\ admitted' \subseteq Listed(rs) /\ Cardinality(admitted') <= Seats
      /\ runs' \in [Sessions -> [Runs -> LiveRunReceipt \cup {None}]]
      /\ feeds' \in [Sessions -> RunFeed] /\ Own' = receipt /\ FeedInv'
      /\ gone' = {} => RowsInv' /\ SeatedWell(rs, admitted')
      /\ ReceiptReachesFeed'
  BY <1>1, <1>2, <1>a, <1>6, EmissionStep
<1>8. ShapeInv'
  BY <1>1, <1>7 DEF ObserverInv, ShapeInv
<1>9. RecordsInv'
  BY <1>1 DEF ObserverInv, RecordsInv, rs
<1>10. EntriesInv'
  BY <1>1 DEF ObserverInv, EntriesInv
<1> QED
  BY <1>1, <1>5, <1>7, <1>8, <1>9, <1>10

(* A stage of the plan is settled.                                         *)
LEMMA SettleStageStep ==
  ASSUME ObserverInv, Own # None, NEW stage \in Stages, SettleStage(stage, "completed")
  PROVE  ObserverInv'
<1> DEFINE mk == marks
           e == Emission(records, bound, known, cold, mk)
           receipt == settleRunReceiptStage(e.receipt, stage, "completed")
<1>1. /\ phase = "watching" /\ CanSettle(Own, stage)
      /\ \A d \in StagesOf[stage].after : ~CanSettle(Own, d)
      /\ Resampled /\ marks' = mk /\ phase' = phase /\ ending' = ending
      /\ Emit(e, receipt)
  BY DEF SettleStage, Resampled, Own
<1>2. Observing /\ IsFiniteSet(mk) /\ marks \subseteq mk /\ \A m \in mk : m \in marks \/ m.kind # "cold"
  BY ObservingIs DEF ObserverInv, ShapeInv
<1>3. Made(e.receipt, e.receipt) /\ e.receipt.outcome = Own.outcome /\ e.receipt.stages = Own.stages
  <2> DEFINE rs == records
  <2>1. Sampled(rs, returned, mk)
    BY <1>2, SameRecords DEF Sampled, Observing, ObserverInv, ColdInv
  <2>2. e = Emission(rs, Listed(rs), known, cold, mk)
    BY DEF ObserverInv, ShapeInv
  <2> HIDE DEF rs, mk, e
  <2> QED
    BY <1>2, <2>1, <2>2, EmissionMade
<1> HIDE DEF e
<1>4. OwnReceipt(e.receipt) /\ validateStaticTransitions(e.receipt) /\ e.receipt.outcome = "running"
  BY <1>1, <1>3 DEF Made, ObserverInv, ReceiptInv
<1>5. CanSettle(e.receipt, stage) /\ \A d \in StagesOf[stage].after : ~CanSettle(e.receipt, d)
  BY <1>1, <1>3 DEF CanSettle
<1>6. Made(e.receipt, receipt) /\ receipt.outcome = "running"
  BY <1>4, <1>5, SettledReceipt
<1> HIDE DEF receipt, mk
<1>7. /\ ShapeInv' /\ RecordsInv' /\ ColdInv' /\ EntriesInv' /\ FeedInv' /\ ReceiptReachesFeed'
      /\ gone' = {} => RowsInv' /\ SeatedWell(records', admitted')
      /\ Own' = receipt
  BY <1>1, <1>2, <1>6, ResampledStep DEF e
<1>8. ReceiptInv'
  <2>1. receipt # None /\ receipt.run = Run /\ validateStaticTransitions(receipt)
    BY <1>6, ReceiptIsSome DEF Made, OwnReceipt
  <2> QED
    BY <1>1, <1>6, <1>7, <2>1 DEF ReceiptInv
<1> QED
  BY <1>7, <1>8 DEF ObserverInv

(* The last observation, and the outcome after it.                         *)
LEMMA ConcludeStep ==
  ASSUME ObserverInv, Own # None, phase \in {"listing", "reading"}, NEW mk, Conclude(cold, mk),
         Resampled, ending' = ending, IsFiniteSet(mk), marks \subseteq mk,
         \A m \in mk : m \in marks \/ m.kind # "cold"
  PROVE  ObserverInv'
<1> DEFINE e == Emission(records, bound, known, cold, mk)
           receipt == finishRunReceipt(e.receipt, ending)
<1>1. phase' = "finished" /\ marks' = mk /\ Emit(e, receipt)
  BY DEF Conclude
<1>2. Observing
  BY ObservingIs
<1>3. Made(e.receipt, e.receipt) /\ e.receipt.outcome = Own.outcome /\ e.receipt.stages = Own.stages
  <2> DEFINE rs == records
  <2>1. Sampled(rs, returned, mk)
    BY <1>2, SameRecords DEF Sampled, Observing, ObserverInv, ColdInv, ColdFacts, SupportedIn
  <2>2. e = Emission(rs, Listed(rs), known, cold, mk)
    BY DEF ObserverInv, ShapeInv
  <2> HIDE DEF rs, e
  <2> QED
    BY <1>2, <2>1, <2>2, EmissionMade
<1> HIDE DEF e
<1>4. OwnReceipt(e.receipt) /\ e.receipt.outcome = "running"
  BY <1>3 DEF Made, ObserverInv, ReceiptInv
<1>5. /\ ending \in {"completed", "failed"}
      /\ ending = "completed" => \A s \in Stages : e.receipt.stages[s] # "pending"
  BY <1>3 DEF ObserverInv, ReceiptInv
<1>6. Made(e.receipt, receipt)
  BY <1>4, <1>5, FinishedReceipt
<1> HIDE DEF receipt
<1>7. /\ ShapeInv' /\ RecordsInv' /\ ColdInv' /\ EntriesInv' /\ FeedInv' /\ ReceiptReachesFeed'
      /\ gone' = {} => RowsInv' /\ SeatedWell(records', admitted')
      /\ Own' = receipt
  BY <1>1, <1>2, <1>6, ResampledStep DEF e
<1>8. ReceiptInv'
  <2>1. receipt # None /\ receipt.run = Run /\ validateStaticTransitions(receipt)
    BY <1>6, ReceiptIsSome DEF Made, OwnReceipt
  <2> QED
    BY <1>1, <1>7, <2>1 DEF ReceiptInv
<1> QED
  BY <1>7, <1>8 DEF ObserverInv

(* The listing of the descendants fails.                                   *)
LEMMA ListingFailsStep ==
  ASSUME ObserverInv, Own # None, ListingFails
  PROVE  ObserverInv'
<1> DEFINE mk == marks \cup {Mark("descendants", 0, 0)}
<1>1. /\ phase = "listing" /\ Resampled /\ ending' = ending /\ Conclude(cold, mk)
  BY DEF ListingFails, Resampled
<1>2. IsFiniteSet(mk)
  BY FS_AddElement DEF ObserverInv, ShapeInv
<1>3. marks \subseteq mk /\ \A m \in mk : m \in marks \/ m.kind # "cold"
  BY DEF Mark
<1> HIDE DEF mk
<1> QED
  BY <1>1, <1>2, <1>3, ConcludeStep

(* Every entry of the listing was read.                                    *)
LEMMA ReadingEndsStep ==
  ASSUME ObserverInv, Own # None, ReadingEnds
  PROVE  ObserverInv'
<1> DEFINE mk == marks
<1>1. /\ phase = "reading" /\ Resampled /\ ending' = ending /\ Conclude(cold, mk)
  BY DEF ReadingEnds, Resampled
<1>2. IsFiniteSet(mk)
  BY DEF ObserverInv, ShapeInv
<1>3. marks \subseteq mk /\ \A m \in mk : m \in marks \/ m.kind # "cold"
  OBVIOUS
<1> HIDE DEF mk
<1> QED
  BY <1>1, <1>2, <1>3, ConcludeStep

----------------------------------------------------------------------------
(* Listing and reading the descendants                                     *)

(* The run begins: its receipt is the first one of the feed.               *)
LEMMA BeginRunStep ==
  ASSUME ObserverInv, BeginRun
  PROVE  ObserverInv'
<1> DEFINE receipt == createRunReceipt(Run)
<1>1. /\ Own = None /\ runs' = [runs EXCEPT ![Session][Run] = receipt]
      /\ feeds' = [feeds EXCEPT ![Session].active[Run] = receipt]
      /\ calls' = calls /\ agents' = agents /\ returned' = returned /\ records' = records /\ bound' = bound
      /\ cold' = cold /\ marks' = marks /\ admitted' = admitted /\ phase' = phase
      /\ ending' = ending /\ entries' = entries /\ roots' = roots /\ gone' = gone
  BY DEF BeginRun, observerVars, Own
<1>2. receipt = [run |-> Run, outcome |-> "running", stages |-> [s \in Stages |-> "pending"],
                 participation |-> [rows |-> {}, unavailable |-> 0, truncated |-> 0]]
  BY DEF createRunReceipt, NoObservation
<1>3. receipt \in LiveRunReceipt
  BY <1>2, CapsAssumption DEF LiveRunReceipt, Outcomes, Statuses
<1>4. OwnReceipt(receipt) /\ receipt # None /\ receipt.outcome = "running" /\ receipt.participation.rows = {}
  <2>1. receipt.run = Run /\ receipt.outcome = "running" /\ receipt.participation.rows = {}
    BY <1>2
  <2>2. OwnReceipt(receipt)
    BY <1>3, <2>1 DEF OwnReceipt
  <2> HIDE DEF receipt
  <2> QED
    BY <2>1, <2>2, ReceiptIsSome
<1>5. validateStaticTransitions(receipt)
  BY <1>2 DEF validateStaticTransitions
<1> HIDE DEF receipt
<1>6. /\ runs \in [Sessions -> [Runs -> LiveRunReceipt \cup {None}]] /\ feeds \in [Sessions -> RunFeed]
      /\ feeds[Session] = EmptyFeed /\ phase = "watching"
  BY <1>1 DEF ObserverInv, ShapeInv, FeedInv, ReceiptInv
<1>7. runs' \in [Sessions -> [Runs -> LiveRunReceipt \cup {None}]] /\ Own' = receipt
  <2>1. Session \in Sessions /\ Run \in Runs
    BY CapsAssumption
  <2>2. runs[Session] \in [Runs -> LiveRunReceipt \cup {None}]
    BY <1>6, <2>1
  <2>3. [runs[Session] EXCEPT ![Run] = receipt] \in [Runs -> LiveRunReceipt \cup {None}]
    BY <1>3, <2>2
  <2>4. runs' = [runs EXCEPT ![Session] = [runs[Session] EXCEPT ![Run] = receipt]]
    BY <1>1, <1>6, <2>1
  <2> QED
    BY <1>6, <2>1, <2>2, <2>3, <2>4 DEF Own
<1>8. feeds' \in [Sessions -> RunFeed] /\ Held(feeds'[Session], receipt)
  <2> DEFINE feed == [EmptyFeed EXCEPT !.active[Run] = receipt]
  <2>1. feeds' = [feeds EXCEPT ![Session] = feed]
    BY <1>1, <1>6, CapsAssumption DEF RunFeed
  <2>2. feed \in RunFeed /\ Held(feed, receipt)
    BY <1>3, <1>4, CapsAssumption DEF RunFeed, EmptyFeed, Held
  <2> HIDE DEF feed
  <2> QED
    BY <1>6, <2>1, <2>2, CapsAssumption
<1>9. Previous(feeds'[Session], Run) = receipt
  BY <1>8, HeldIsPrevious
<1>10. FeedInv' /\ ReceiptReachesFeed'
  BY <1>4, <1>7, <1>8, <1>9 DEF FeedInv, ReceiptReachesFeed, GoesTo
<1>11. gone' = {} => RowsInv' /\ SeatedWell(records', admitted')
  BY <1>1, <1>4, <1>7 DEF RowsInv, ObserverInv
<1>12. ShapeInv'
  BY <1>1, <1>7, <1>8 DEF ObserverInv, ShapeInv
<1>13. RecordsInv' /\ ColdInv' /\ EntriesInv'
  BY <1>1 DEF ObserverInv, RecordsInv, ColdInv, EntriesInv
<1>14. ReceiptInv'
  BY <1>1, <1>4, <1>5, <1>6, <1>7 DEF OwnReceipt, ReceiptInv
<1> QED
  BY <1>10, <1>11, <1>12, <1>13, <1>14 DEF ObserverInv

(* What a step keeps that records nothing and publishes nothing.           *)
Kept ==
  /\ UNCHANGED <<feedVars, calls, agents, returned, records, bound, admitted, gone>>
  /\ cold \subseteq cold' /\ marks \subseteq marks' /\ (phase' = "watching" => phase = "watching")

(* Such a step keeps the invariant.                                        *)
LEMMA KeptStep ==
  ASSUME ObserverInv, Own # None, Kept, ColdRows(cold'), IsFiniteSet(marks'),
         entries' \in Seq([child : Children, diagnostic : BOOLEAN]),
         roots' \in [Children -> Calls \cup {None}],
         ColdInv', EntriesInv', ReceiptInv'
  PROVE  ObserverInv'
<1> DEFINE rs == records
<1>1. /\ records' = rs /\ calls' = calls /\ agents' = agents /\ returned' = returned /\ bound' = bound
      /\ admitted' = admitted /\ runs' = runs /\ feeds' = feeds
  BY DEF Kept, feedVars
<1>2. Quiet(rs)
  BY SameRecords DEF ObserverInv, RecordsInv, Kept, Quiet
<1>3. ShapeInv'
  BY <1>1 DEF ObserverInv, ShapeInv
<1>4. RecordsInv'
  BY <1>1 DEF ObserverInv, RecordsInv, Kept
<1> HIDE DEF rs
<1>5. FeedInv' /\ ReceiptReachesFeed' /\ (gone' = {} => RowsInv' /\ SeatedWell(records', admitted'))
  BY <1>2, QuietStep
<1> QED
  BY <1>3, <1>4, <1>5 DEF ObserverInv

(* The run finishes and the descendants are about to be listed.            *)
LEMMA FinishStep ==
  ASSUME ObserverInv, Own # None, NEW outcome, outcome \in {"completed", "failed"}, Finish(outcome)
  PROVE  ObserverInv'
<1>1. /\ phase = "watching" /\ phase' = "listing" /\ ending' = outcome
      /\ outcome = "completed" => \A s \in Stages : Own.stages[s] = "completed"
      /\ cold' = cold /\ marks' = marks /\ entries' = entries /\ roots' = roots
      /\ records' = records /\ runs' = runs /\ Own' = Own
  BY DEF Finish, feedVars, Own
<1>2. Kept
  BY <1>1 DEF Finish, Kept
<1>3. /\ ColdRows(cold') /\ IsFiniteSet(marks')
      /\ entries' \in Seq([child : Children, diagnostic : BOOLEAN])
      /\ roots' \in [Children -> Calls \cup {None}]
  BY <1>1 DEF ObserverInv, ShapeInv
<1>4. ColdInv'
  BY <1>1 DEF ObserverInv, ColdInv
<1>5. EntriesInv'
  BY <1>1 DEF ObserverInv, EntriesInv
<1>6. ReceiptInv'
  BY <1>1 DEF ObserverInv, ReceiptInv
<1> QED
  BY <1>2, <1>3, <1>4, <1>5, <1>6, KeptStep

(* Finitely many children have begun.                                      *)
LEMMA BegunFinite ==
  ASSUME calls \in [Calls -> {"absent", "running", "ended", "never"}]
  PROVE  Begun \subseteq Children /\ IsFiniteSet(Begun) /\ Cardinality(Begun) \in Nat
<1> DEFINE S == {c \in Calls : calls[c] \in {"running", "ended"}}
           f == [c \in S |-> Child(c)]
<1>1. IsFiniteSet(S) /\ S \subseteq Calls
  <2>1. S \subseteq Calls
    OBVIOUS
  <2> HIDE DEF S
  <2> QED
    BY <2>1, TreeAssumption, FS_Subset
<1>2. Begun = {f[c] : c \in S}
  BY DEF Begun
<1>3. \A c \in Calls : Child(c) \in Children
  BY TreeAssumption DEF Child
<1>4. Begun \subseteq Children
  BY <1>3 DEF Begun
<1> HIDE DEF S, f
<1>5. IsFiniteSet({f[c] : c \in S})
  BY <1>1, FunctionImage
<1> QED
  BY <1>2, <1>4, <1>5, FS_CardinalityType

(* The listing of the descendants returns, each child once.                *)
LEMMA ListingReturnsStep ==
  ASSUME ObserverInv, Own # None, ListingReturns
  PROVE  ObserverInv'
<1> DEFINE before(a, b) == Depth(a) < Depth(b) \/ (Depth(a) = Depth(b) /\ a < b)
<1>1. PICK list \in [1..Cardinality(Begun) -> Begun], broken \in SUBSET {c \in Begun : ~Direct(c)} :
        /\ phase = "listing" /\ phase' = "reading"
        /\ \A i, j \in DOMAIN list : i < j => before(list[i], list[j])
        /\ entries' = [n \in DOMAIN list |-> [child |-> list[n], diagnostic |-> list[n] \in broken]]
        /\ UNCHANGED <<feedVars, calls, agents, returned, records, bound, cold, known,
                       marks, admitted, ending, roots, gone>>
  BY DEF ListingReturns
<1>2. /\ cold' = cold /\ marks' = marks /\ roots' = roots /\ ending' = ending
      /\ records' = records /\ Own' = Own
  BY <1>1 DEF feedVars, Own
<1>3. Kept
  BY <1>1 DEF Kept
<1>4. Begun \subseteq Children /\ Cardinality(Begun) \in Nat
  BY BegunFinite DEF ObserverInv, ShapeInv
<1>5. /\ ColdRows(cold') /\ IsFiniteSet(marks') /\ roots' \in [Children -> Calls \cup {None}]
  BY <1>2 DEF ObserverInv, ShapeInv
<1>6. /\ DOMAIN entries' = 1..Cardinality(Begun)
      /\ \A n \in DOMAIN entries' : entries'[n].child = list[n] /\ list[n] \in Children
      /\ \A n \in DOMAIN entries' : entries'[n] \in [child : Children, diagnostic : BOOLEAN]
  BY <1>1, <1>4
<1>7. entries' \in Seq([child : Children, diagnostic : BOOLEAN])
  <2>1. entries' \in [1..Cardinality(Begun) -> [child : Children, diagnostic : BOOLEAN]]
    BY <1>1, <1>4
  <2> QED
    <3> DEFINE S == [child : Children, diagnostic : BOOLEAN]
               n == Cardinality(Begun)
    <3>1. n \in Nat /\ entries' \in [1..n -> S]
      BY <1>4, <2>1
    <3> HIDE DEF S, n
    <3>2. \E m \in Nat : entries' \in [1..m -> S]
      BY <3>1
    <3>3. entries' \in UNION {[1..m -> S] : m \in Nat}
      BY <3>2
    <3>4. entries' \in Seq(S)
      BY <3>3, SeqDef
    <3> QED
      BY <3>4 DEF S
<1>8. ColdInv'
  BY <1>2 DEF ObserverInv, ColdInv
<1>9. EntriesInv'
  <2>1. \A m \in marks : m.kind # "cold"
    BY <1>1 DEF ObserverInv, EntriesInv
  <2>2. ASSUME NEW i \in DOMAIN entries', NEW j \in DOMAIN entries', i < j
        PROVE  entries'[i].child # entries'[j].child
    <3>1. before(list[i], list[j]) /\ list[i] \in Children /\ list[j] \in Children
      BY <1>1, <1>6, <2>2
    <3>2. /\ Depth(list[i]) \in Nat /\ Depth(list[j]) \in Nat /\ list[i] \in Nat /\ list[j] \in Nat
      BY <3>1, DepthType, TreeAssumption DEF Tree
    <3>3. list[i] # list[j]
      BY <3>1, <3>2
    <3> QED
      BY <1>6, <3>3
  <2>3. \A i, j \in DOMAIN entries' : i < j \/ j < i \/ i = j
    BY <1>4, <1>6
  <2> QED
    BY <1>2, <2>1, <2>2, <2>3 DEF EntriesInv
<1>10. ReceiptInv'
  BY <1>1, <1>2 DEF ObserverInv, ReceiptInv
<1> QED
  BY <1>3, <1>5, <1>7, <1>8, <1>9, <1>10, KeptStep

(* An entry of the listing.                                                *)
Entry == [child : Children, diagnostic : BOOLEAN]

(* The first entry, and the others.                                        *)
LEMMA HeadEntry ==
  ASSUME NEW s \in Seq(Entry), s # <<>>
  PROVE  /\ Head(s) \in Entry /\ Tail(s) \in Seq(Entry) /\ 1 \in DOMAIN s /\ Head(s) = s[1]
         /\ \A i \in DOMAIN Tail(s) : i + 1 \in DOMAIN s /\ Tail(s)[i] = s[i + 1] /\ i \in Nat \ {0}
  BY HeadTailProperties

(* What reading an entry does to the rows and marks.                       *)
LEMMA ReadEntryIs ==
  ASSUME NEW readable, ReadEntry(readable), NEW child, child = Head(entries).child,
         NEW root, root = IF DirectRecord(records, child) # None THEN DirectRecord(records, child)
                          ELSE IF ParentOf[child] = Parent THEN None ELSE roots[ParentOf[child]]
  PROVE  \/ cold' = cold /\ marks' = marks /\ (root = None \/ HasBoundChild(child))
         \/ /\ root # None /\ cold' = cold
            /\ \E kind \in {"diagnostic", "nested-remote", "cold"} :
                 marks' = marks \cup {Mark(kind, child, 0)}
         \/ /\ root # None /\ ~HasBoundChild(child) /\ Child(root) \notin Remote
            /\ cold' = cold \cup {ColdRow(child, root)} /\ marks' = marks \ {Mark("cold", child, 0)}
<1>1. CASE root = None
  BY <1>1 DEF ReadEntry
<1>2. CASE root # None /\ Head(entries).diagnostic
  BY <1>2 DEF ReadEntry
<1>3. CASE root # None /\ ~Head(entries).diagnostic /\ HasBoundChild(child)
  BY <1>3 DEF ReadEntry
<1>4. CASE root # None /\ ~Head(entries).diagnostic /\ ~HasBoundChild(child)
  <2>1. IF Child(root) \in Remote
        THEN marks' = marks \cup {Mark("nested-remote", child, 0)} /\ cold' = cold
        ELSE IF ~readable \/ child \in Remote
        THEN marks' = marks \cup {Mark("cold", child, 0)} /\ cold' = cold
        ELSE /\ cold' = cold \cup {ColdRow(child, root)}
             /\ marks' = marks \ {Mark("cold", child, 0)}
    BY <1>4 DEF ReadEntry
  <2> QED
    BY <1>4, <2>1
<1> QED
  BY <1>1, <1>2, <1>3, <1>4

(* The row of a Session that was read.                                     *)
LEMMA ColdRowIs ==
  ASSUME NEW rs \in Records, rs = records, NEW child \in Children, NEW root \in Recorded(rs),
         rs[root].binding # None
  PROVE  LET row == ColdRow(child, root)
         IN /\ row \in Participant /\ row.child = child /\ row.parent = ParentOf[child] /\ row.run = None
            /\ row.stage \in Stages /\ row.index < StagesOf[row.stage].expectedChildren
<1>1. rs[root].binding \in DOMAIN Bindings
  BY RecordedType DEF LifecycleRecord
<1> DEFINE binding == Bindings[rs[root].binding]
<1>2. /\ binding.stage \in Stages /\ binding.index \in Nat
      /\ binding.index < StagesOf[binding.stage].expectedChildren
  BY <1>1, TreeAssumption
<1>3. ParentOf[child] \in Children \cup {Parent} /\ Depth(child) \in Nat
  BY DepthType, TreeAssumption DEF Tree
<1>4. ColdRow(child, root) =
        [child |-> child, parent |-> ParentOf[child], depth |-> Depth(child),
         stage |-> binding.stage, index |-> binding.index, run |-> None,
         source |-> "session", state |-> "ended", stop |-> None]
  BY DEF ColdRow
<1> HIDE DEF binding
<1> QED
  BY <1>2, <1>3, <1>4 DEF Participant

(* An entry of the listing is read: a row, a mark or nothing.              *)
LEMMA ReadEntryStep ==
  ASSUME ObserverInv, Own # None, NEW readable, ReadEntry(readable)
  PROVE  ObserverInv'
<1> DEFINE child == Head(entries).child
           root == IF DirectRecord(records, child) # None THEN DirectRecord(records, child)
                   ELSE IF ParentOf[child] = Parent THEN None ELSE roots[ParentOf[child]]
<1>1. /\ phase = "reading" /\ entries # <<>> /\ entries' = Tail(entries)
      /\ roots' = [roots EXCEPT ![child] = root]
      /\ UNCHANGED <<feedVars, calls, agents, returned, records, bound, known,
                     admitted, phase, ending, gone>>
  BY DEF ReadEntry
<1>2. /\ records \in Records /\ bound = Listed(records) /\ ColdRows(cold) /\ IsFiniteSet(marks)
      /\ entries \in Seq(Entry) /\ roots \in [Children -> Calls \cup {None}]
      /\ ColdFacts(records, cold, marks)
      /\ \A p \in Children : roots[p] # None =>
           /\ roots[p] \in Recorded(records) /\ records[roots[p]].binding # None
           /\ Child(roots[p]) \in Remote \/ SupportedIn(records, cold, marks, p)
      /\ \A i, j \in DOMAIN entries : entries[i].child = entries[j].child => i = j
      /\ \A m \in marks : m.kind = "cold" => \A i \in DOMAIN entries : entries[i].child # m.child
  BY DEF ObserverInv, ShapeInv, RecordsInv, ColdInv, EntriesInv, Entry
<1>3. /\ Head(entries) \in Entry /\ entries' \in Seq(Entry) /\ 1 \in DOMAIN entries
      /\ Head(entries) = entries[1]
      /\ \A i \in DOMAIN entries' : i + 1 \in DOMAIN entries /\ entries'[i] = entries[i + 1] /\ i \in Nat \ {0}
  BY <1>1, <1>2, HeadEntry
<1>4. child \in Children /\ child = entries[1].child
  BY <1>3 DEF Entry
<1>5. \/ cold' = cold /\ marks' = marks /\ (root = None \/ HasBoundChild(child))
      \/ /\ root # None /\ cold' = cold
         /\ \E kind \in {"diagnostic", "nested-remote", "cold"} :
              marks' = marks \cup {Mark(kind, child, 0)}
      \/ /\ root # None /\ ~HasBoundChild(child) /\ Child(root) \notin Remote
         /\ cold' = cold \cup {ColdRow(child, root)} /\ marks' = marks \ {Mark("cold", child, 0)}
  BY ReadEntryIs
<1> DEFINE direct == DirectRecord(records, child)
<1>6. direct # None => /\ direct \in Recorded(records) /\ Child(direct) = child /\ Direct(child)
                       /\ records[direct].binding # None
  BY <1>2, DirectRecordIs
<1>7. root # None =>
        /\ root \in Recorded(records) /\ records[root].binding # None
        /\ direct # None => HasBoundChild(child)
        /\ direct = None => /\ ParentOf[child] \in Children
                            /\ Child(root) \in Remote \/ SupportedIn(records, cold, marks, ParentOf[child])
  <2> SUFFICES ASSUME root # None
               PROVE  /\ root \in Recorded(records) /\ records[root].binding # None
                      /\ direct # None => HasBoundChild(child)
                      /\ direct = None => /\ ParentOf[child] \in Children
                                          /\ Child(root) \in Remote \/ SupportedIn(records, cold, marks, ParentOf[child])
    OBVIOUS
  <2>1. CASE direct # None
    <3>1. root = direct
      BY <2>1
    <3>2. direct \in Listed(records)
      BY <1>6, <2>1 DEF Listed
    <3> HIDE DEF direct, root
    <3>3. HasBoundChild(child)
      BY <1>2, <1>6, <2>1, <3>2 DEF HasBoundChild
    <3> QED
      BY <1>6, <2>1, <3>1, <3>3
  <2>2. CASE direct = None
    <3>1. root = roots[ParentOf[child]] /\ ParentOf[child] # Parent
      BY <2>2
    <3>2. ParentOf[child] \in Children
      BY <1>4, <3>1, TreeAssumption
    <3> HIDE DEF direct, root
    <3> QED
      BY <1>2, <2>2, <3>1, <3>2
  <2> QED
    BY <2>1, <2>2
<1> HIDE DEF child, root, direct
<1> DEFINE row == ColdRow(child, root)
<1>8. root # None =>
        /\ row \in Participant /\ row.child = child /\ row.parent = ParentOf[child] /\ row.run = None
        /\ row.stage \in Stages /\ row.index < StagesOf[row.stage].expectedChildren
  BY <1>2, <1>4, <1>7, ColdRowIs
<1> HIDE DEF row
<1>9. marks \subseteq marks' /\ cold \subseteq cold' /\ IsFiniteSet(marks')
      /\ \A m \in marks' : m \in marks \/ m.child = child
  <2>1. CASE cold' = cold /\ marks' = marks
    BY <1>2, <2>1
  <2>2. ASSUME cold' = cold, NEW kind, marks' = marks \cup {Mark(kind, child, 0)}
        PROVE  /\ marks \subseteq marks' /\ cold \subseteq cold' /\ IsFiniteSet(marks')
               /\ \A m \in marks' : m \in marks \/ m.child = child
    <3> DEFINE m == Mark(kind, child, 0)
    <3>1. m.child = child
      BY DEF Mark
    <3> HIDE DEF m
    <3>2. marks' = marks \cup {m} /\ cold' = cold
      BY <2>2 DEF m
    <3>3. IsFiniteSet(marks')
      BY <1>2, <3>2, FS_AddElement
    <3> QED
      BY <3>1, <3>2, <3>3
  <2>3. CASE cold' = cold \cup {ColdRow(child, root)} /\ marks' = marks \ {Mark("cold", child, 0)}
    <3>1. Mark("cold", child, 0) \notin marks
      BY <1>2, <1>3, <1>4 DEF Mark
    <3>2. marks' = marks
      BY <2>3, <3>1
    <3> QED
      BY <1>2, <2>3, <3>2
  <2> QED
    BY <1>5, <2>1, <2>2, <2>3
<1>10. \A p : SupportedIn(records, cold, marks, p) => SupportedIn(records, cold', marks', p)
  BY <1>9 DEF SupportedIn
<1>11. ColdRows(cold') /\ ColdFacts(records, cold', marks')
  <2>1. CASE cold' = cold
    BY <1>2, <1>10, <2>1 DEF ColdFacts
  <2>2. CASE /\ root # None /\ ~HasBoundChild(child) /\ Child(root) \notin Remote
             /\ cold' = cold \cup {ColdRow(child, root)}
    <3>1. cold' = cold \cup {row}
      BY <2>2 DEF row
    <3>2. \A q \in cold : q.child # child
      BY <2>2 DEF HasBoundChild
    <3>3. ColdRows(cold')
      <4>1. IsFiniteSet(cold')
        BY <1>2, <3>1, FS_AddElement DEF ColdRows
      <4> QED
        BY <1>2, <1>8, <2>2, <3>1, <3>2, <4>1 DEF ColdRows, UniqueChildren
    <3>4. SupportedIn(records, cold, marks, row.parent) /\ row.parent \in Children
      BY <1>7, <1>8, <2>2
    <3>5. ColdFacts(records, cold', marks')
      BY <1>2, <1>8, <1>10, <2>2, <3>1, <3>4 DEF ColdFacts
    <3> QED
      BY <3>3, <3>5
  <2> QED
    BY <1>5, <2>1, <2>2
<1>12. root # None => SupportedIn(records, cold', marks', child)
  <2> HAVE root # None
  <2>1. CASE HasBoundChild(child)
    <3>1. SupportedIn(records, cold, marks, child)
      BY <1>2, <2>1 DEF HasBoundChild, SupportedIn
    <3> QED
      BY <1>10, <3>1
  <2>2. ASSUME NEW kind, marks' = marks \cup {Mark(kind, child, 0)}
        PROVE  SupportedIn(records, cold', marks', child)
    <3> DEFINE m == Mark(kind, child, 0)
    <3>1. m \in marks' /\ m.child = child
      BY <2>2 DEF Mark
    <3> HIDE DEF m
    <3> QED
      BY <3>1 DEF SupportedIn
  <2>3. CASE cold' = cold \cup {ColdRow(child, root)}
    <3>1. row \in cold' /\ row.child = child
      BY <1>8, <2>3 DEF row
    <3> QED
      BY <3>1 DEF SupportedIn
  <2> QED
    BY <1>5, <2>1, <2>2, <2>3
<1>13. roots' \in [Children -> Calls \cup {None}]
  BY <1>1, <1>2, <1>4, <1>7 DEF Recorded
<1>14. records' = records /\ phase' = phase /\ ending' = ending /\ Own' = Own
  BY <1>1 DEF feedVars, Own
<1>15. ColdInv'
  <2>1. ASSUME NEW p \in Children, roots'[p] # None
        PROVE  /\ roots'[p] \in Recorded(records) /\ records[roots'[p]].binding # None
               /\ Child(roots'[p]) \in Remote \/ SupportedIn(records, cold', marks', p)
    <3>1. CASE p = child
      <4>1. roots'[p] = root
        BY <1>1, <1>2, <3>1
      <4> QED
        BY <1>7, <1>12, <2>1, <3>1, <4>1
    <3>2. CASE p # child
      <4>1. roots'[p] = roots[p]
        BY <1>1, <1>2, <3>2
      <4> QED
        BY <1>2, <1>10, <2>1, <4>1
    <3> QED
      BY <3>1, <3>2
  <2> QED
    BY <1>11, <1>14, <2>1 DEF ColdInv
<1>16. EntriesInv'
  <2>1. ASSUME NEW i \in DOMAIN entries', NEW j \in DOMAIN entries', entries'[i].child = entries'[j].child
        PROVE  i = j
    <3>1. i + 1 = j + 1
      BY <1>2, <1>3, <2>1
    <3> QED
      BY <1>3, <3>1
  <2>2. ASSUME NEW m \in marks', m.kind = "cold", NEW i \in DOMAIN entries'
        PROVE  entries'[i].child # m.child
    <3>1. i + 1 \in DOMAIN entries /\ entries'[i] = entries[i + 1] /\ i + 1 # 1
      BY <1>3
    <3>2. CASE m \in marks
      BY <1>2, <2>2, <3>1, <3>2
    <3>3. CASE m.child = child
      BY <1>2, <1>3, <1>4, <3>1, <3>3
    <3> QED
      BY <1>9, <3>2, <3>3
  <2> QED
    BY <1>1, <1>14, <2>1, <2>2 DEF EntriesInv
<1>17. ReceiptInv'
  BY <1>14 DEF ObserverInv, ReceiptInv
<1>18. Kept
  BY <1>1, <1>9 DEF Kept
<1> QED
  BY <1>3, <1>9, <1>11, <1>13, <1>15, <1>16, <1>17, <1>18, KeptStep DEF Entry

----------------------------------------------------------------------------
(* The receipt of the run reaches the feed                                 *)

(* The invariant holds before the run begins.                              *)
LEMMA ObserverStarts == FeedInit /\ ObserverInit => ObserverInv
<1> SUFFICES ASSUME FeedInit, ObserverInit PROVE ObserverInv
  OBVIOUS
<1>1. /\ agents = {} /\ returned = {} /\ records = [c \in Calls |-> None] /\ bound = {} /\ cold = {}
      /\ marks = {} /\ admitted = {} /\ gone = {} /\ phase = "watching" /\ entries = <<>>
      /\ roots = [c \in Children |-> None]
      /\ feeds = [s \in Sessions |-> EmptyFeed] /\ runs = [s \in Sessions |-> [r \in Runs |-> None]]
  BY DEF ObserverInit, FeedInit
<1>2. PICK S : calls = [c \in Calls |-> IF c \in S THEN "absent" ELSE "never"]
  BY DEF ObserverInit
<1>3. Recorded(records) = {} /\ Listed(records) = {} /\ records \in Records
  BY <1>1 DEF Recorded, Listed, Records
<1>4. Cardinality(admitted) = 0 /\ IsFiniteSet(cold) /\ IsFiniteSet(marks)
  BY <1>1, FS_EmptySet
<1>5. Own = None /\ feeds[Session] = EmptyFeed /\ EmptyFeed \in RunFeed
  BY <1>1, CapsAssumption DEF Own, EmptyFeed, RunFeed
<1>6. ShapeInv
  <2>1. calls \in [Calls -> {"absent", "running", "ended", "never"}]
    BY <1>2
  <2>2. ColdRows(cold)
    BY <1>1, <1>4 DEF ColdRows, UniqueChildren
  <2>3. entries \in Seq([child : Children, diagnostic : BOOLEAN])
    BY <1>1
  <2>4. /\ runs \in [Sessions -> [Runs -> LiveRunReceipt \cup {None}]] /\ feeds \in [Sessions -> RunFeed]
        /\ roots \in [Children -> Calls \cup {None}]
    BY <1>1, <1>5
  <2>5. bound = Listed(records) /\ admitted \subseteq bound /\ Cardinality(admitted) <= Seats
    BY <1>1, <1>3, <1>4, CapsAssumption
  <2> QED
    BY <1>1, <1>4, <2>1, <2>2, <2>3, <2>4, <2>5 DEF ShapeInv
<1>7. RecordsInv
  <2>1. \A c \in Calls : calls[c] \notin {"running", "ended"} /\ records[c] = None
    BY <1>1, <1>2
  <2> QED
    BY <1>1, <1>3, <2>1 DEF RecordsInv, Sound
<1>8. ColdInv /\ EntriesInv
  BY <1>1 DEF ColdInv, ColdFacts, EntriesInv
<1>9. ReceiptInv /\ FeedInv /\ RowsInv /\ ReceiptReachesFeed
  BY <1>1, <1>5 DEF ReceiptInv, FeedInv, RowsInv, ReceiptReachesFeed
<1>10. SeatedWell(records, admitted)
  BY <1>1, <1>3, <1>4, CapsAssumption DEF SeatedWell
<1> QED
  BY <1>6, <1>7, <1>8, <1>9, <1>10 DEF ObserverInv

(* Every step of the observer keeps it.                                    *)
LEMMA ObserverGoesOn ==
  ObserverInv /\ [ObserverStep]_<<feedVars, observerVars>> => ObserverInv'
<1> SUFFICES ASSUME ObserverInv, [ObserverStep]_<<feedVars, observerVars>> PROVE ObserverInv'
  OBVIOUS
<1>1. CASE BeginRun
  BY <1>1, BeginRunStep
<1>2. ASSUME Own # None, NEW c \in Calls, SubagentStart(c) PROVE ObserverInv'
  BY <1>2, SubagentStartStep
<1>3. ASSUME Own # None, NEW c \in Calls, SubagentEnd(c) PROVE ObserverInv'
  BY <1>3, SubagentEndStep
<1>4. ASSUME Own # None, NEW c \in Children, AgentDisposed(c) PROVE ObserverInv'
  BY <1>4, AgentDisposedStep
<1>5. ASSUME Own # None, NEW c \in Children, AgentStatus(c) PROVE ObserverInv'
  BY <1>5, AgentStatusStep
<1>6. ASSUME Own # None, NEW c \in Children, TrackChild(c) PROVE ObserverInv'
  BY <1>6, TrackChildStep
<1>7. ASSUME Own # None, NEW s \in Stages, SettleStage(s, "completed") PROVE ObserverInv'
  BY <1>7, SettleStageStep
<1>8. ASSUME Own # None, NEW o \in {"completed", "failed"}, Finish(o) PROVE ObserverInv'
  BY <1>8, FinishStep
<1>9. CASE Own # None /\ ListingFails
  BY <1>9, ListingFailsStep
<1>10. CASE Own # None /\ ListingReturns
  BY <1>10, ListingReturnsStep
<1>11. ASSUME Own # None, NEW readable, ReadEntry(readable) PROVE ObserverInv'
  BY <1>11, ReadEntryStep
<1>12. CASE Own # None /\ ReadingEnds
  BY <1>12, ReadingEndsStep
<1>13. CASE UNCHANGED <<feedVars, observerVars>>
  BY <1>13 DEF feedVars, observerVars, ObserverInv, ShapeInv, RecordsInv, ColdInv, EntriesInv, ReceiptInv,
                FeedInv, RowsInv, ReceiptReachesFeed, Unpublishable, Unattached, Own
<1> QED
  BY <1>1, <1>2, <1>3, <1>4, <1>5, <1>6, <1>7, <1>8, <1>9, <1>10, <1>11, <1>12, <1>13
     DEF ObserverStep, Own

(* A receipt of the run that left no row out, names each child once and    *)
(* hangs below no child without a row is in the feed as soon as the        *)
(* observer emitted it (emit in run-receipt.ts), for any tree of children, *)
(* plan, order of events and reading of Sessions.                          *)
THEOREM ReceiptReachesFeedAlways == ObserverSpec => []ReceiptReachesFeed
<1>1. ObserverInv => ReceiptReachesFeed
  BY DEF ObserverInv
<1> QED
  BY <1>1, ObserverStarts, ObserverGoesOn, PTL DEF ObserverSpec

----------------------------------------------------------------------------
(* The client of the feed                                                  *)

USE FeedAssumption

----------------------------------------------------------------------------
(* What the Host keeps                                                     *)

HostTypes ==
  /\ feeds \in [Sessions -> Feed]
  /\ runs \in [Sessions -> [Runs -> Receipt \cup {None}]]
  /\ life \in [Sessions -> Nat] /\ lives \in [Sessions -> Nat]
  /\ \A s \in Sessions : life[s] <= lives[s]
  /\ instance \in Nat /\ started \in Nat /\ instance <= started
  /\ follower \in FeedFollower \cup {None}
  /\ follower # None =>
       /\ follower.pending => follower.open
       /\ follower.open => instance # 0 /\ life[follower.session] # 0

(* A model the feed handed out of session s: as long as the feed is the    *)
(* same, it has gone on from this model or still is at it.                 *)
OfFeed(model, s) ==
  /\ model \in FeedModel /\ model.session = s
  /\ model.instance \in 1..started /\ model.life \in 1..lives[s]
  /\ SameFeed(model, s) =>
       /\ model.feed.revision <= feeds[s].revision
       /\ model.feed.revision = feeds[s].revision => model.feed = feeds[s]

(* The feed has a replacement of this model to hand out.                   *)
Behind(model, s) ==
  SameFeed(model, s) /\ model.feed.revision < feeds[s].revision

(* Every change of the feed of a Session gets the next revision.           *)
LEMMA ReplacedFeed ==
  ASSUME NEW feed \in Feed, NEW receipt \in Receipt
  PROVE  /\ Replaced(feed, receipt) \in Feed
         /\ Replaced(feed, receipt).revision = feed.revision + 1
         /\ Published(feed, receipt) \in {feed, Replaced(feed, receipt)}
<1>1. feed = [active |-> feed.active, terminal |-> feed.terminal, revision |-> feed.revision]
  BY DEF Feed
<1>2. /\ feed.active \in [Runs -> Receipt \cup {None}]
      /\ feed.terminal \in Receipt \cup {None} /\ feed.revision \in Nat
  BY DEF Feed
<1>3. receipt.run \in Runs
  BY DEF Receipt
<1>4. CASE receipt.outcome = "running"
  <2>1. [feed.active EXCEPT ![receipt.run] = receipt] \in [Runs -> Receipt \cup {None}]
    BY <1>2
  <2>2. Replaced(feed, receipt) =
          [active |-> [feed.active EXCEPT ![receipt.run] = receipt],
           terminal |-> feed.terminal, revision |-> feed.revision + 1]
    BY <1>1, <1>4 DEF Replaced
  <2> QED
    BY <1>2, <2>1, <2>2 DEF Feed, Published
<1>5. CASE receipt.outcome # "running"
  <2>1. [feed.active EXCEPT ![receipt.run] = None] \in [Runs -> Receipt \cup {None}]
    BY <1>2
  <2>2. Replaced(feed, receipt) =
          [active |-> [feed.active EXCEPT ![receipt.run] = None],
           terminal |-> receipt, revision |-> feed.revision + 1]
    BY <1>1, <1>5 DEF Replaced
  <2> QED
    BY <1>2, <2>1, <2>2 DEF Feed, Published
<1> QED
  BY <1>4, <1>5

(* A feed that is cleared is a feed.                                       *)
LEMMA ClearedFeed ==
  ASSUME NEW feed \in Feed, feed.terminal # None
  PROVE  Cleared(feed) \in Feed /\ Cleared(feed).revision = feed.revision + 1
<1>1. Cleared(feed) =
        [active |-> feed.active, terminal |-> None, revision |-> feed.revision + 1]
  BY DEF Cleared, Feed
<1> QED
  BY <1>1 DEF Feed

(* Receipts of a run that has no children.                                 *)
LEMMA RunReceipts ==
  ASSUME NEW s \in Sessions, NEW r \in Runs, NEW receipt \in NextReceipts(s, r),
         runs[s][r] \in Receipt \cup {None}
  PROVE  receipt \in Receipt
<1>1. createRunReceipt(r) \in Receipt
  BY DEF createRunReceipt, Receipt, Outcomes, Statuses
<1>2. ASSUME NEW former \in Receipt, NEW p \in Stages
      PROVE  settleRunReceiptStage(former, p, "completed") \in Receipt
  BY DEF settleRunReceiptStage, Receipt, Statuses
<1>3. ASSUME NEW former \in Receipt, NEW o \in {"failed", "completed"}
      PROVE  finishRunReceipt(former, o) \in Receipt
  BY DEF finishRunReceipt, Receipt, Statuses, Outcomes
<1> QED
  BY <1>1, <1>2, <1>3 DEF NextReceipts

----------------------------------------------------------------------------
(* A step of the Host                                                      *)

(* What a step does to the models that were handed out, and to the         *)
(* follower: it stays at the same feed, with a later revision to hand out  *)
(* if there is one, or it is closed.                                       *)
FollowerEffect ==
  /\ follower = None => follower' = None
  /\ follower # None =>
       /\ follower' # None /\ follower'.session = follower.session
       /\ follower'.open =>
            /\ follower.open /\ instance' = instance
            /\ life'[follower.session] = life[follower.session]
            /\ \/ /\ feeds'[follower.session] = feeds[follower.session]
                  /\ follower'.pending = follower.pending
               \/ feeds'[follower.session].revision > feeds[follower.session].revision

HostEffect ==
  /\ wire' = wire
  /\ \A s \in Sessions : \A m : OfFeed(m, s) => OfFeed(m, s)'
  /\ FollowerEffect

(* A follower that is closed, and one whose feed stands still.             *)
LEMMA ClosedFollower ==
  ASSUME HostTypes, follower' = Closed
  PROVE  /\ follower' \in FeedFollower \cup {None} /\ FollowerEffect
         /\ follower' # None => ~follower'.open /\ ~follower'.pending
<1>1. CASE follower = None
  BY <1>1 DEF Closed, FollowerEffect
<1>2. CASE follower # None
  <2>1. follower = [session |-> follower.session, open |-> follower.open,
                    pending |-> follower.pending] /\ follower.session \in Sessions
    BY <1>2 DEF FeedFollower, HostTypes
  <2>2. follower' = [session |-> follower.session, open |-> FALSE, pending |-> FALSE]
    BY <1>2, <2>1 DEF Closed
  <2>3. follower' \in FeedFollower
    BY <2>1, <2>2 DEF FeedFollower
  <2>4. ~follower'.open /\ ~follower'.pending /\ follower'.session = follower.session
    BY <2>2
  <2> QED
    BY <1>2, <2>3, <2>4 DEF FollowerEffect
<1> QED
  BY <1>1, <1>2

(* The follower has nothing new to hand out while its feed stays as it is. *)
LEMMA IdleFollower ==
  ASSUME follower' = follower,
         follower # None /\ follower.open =>
           /\ instance' = instance /\ life'[follower.session] = life[follower.session]
           /\ feeds'[follower.session] = feeds[follower.session]
  PROVE  FollowerEffect
BY DEF FollowerEffect

(* A feed of a Session moves on.                                           *)
LEMMA CommitStep ==
  ASSUME HostTypes, NEW s \in Sessions, NEW feed \in Feed,
         feed = feeds[s] \/ feed.revision = feeds[s].revision + 1,
         Commit(s, feed), UNCHANGED <<instance, started, life, lives, wire>>,
         runs' \in [Sessions -> [Runs -> Receipt \cup {None}]]
  PROVE  HostTypes' /\ HostEffect
<1>. USE DEF HostTypes
<1>1. CASE feed = feeds[s]
  <2>1. feeds' = feeds /\ follower' = follower
    BY <1>1 DEF Commit
  <2>2. HostTypes'
    BY <2>1
  <2>3. FollowerEffect
    BY <2>1, IdleFollower
  <2> QED
    BY <2>1, <2>2, <2>3 DEF HostEffect, OfFeed, SameFeed
<1>2. CASE feed # feeds[s]
  <2>1. /\ feeds' = [feeds EXCEPT ![s] = feed] /\ follower' = Pushed(s)
        /\ feed.revision = feeds[s].revision + 1
    BY <1>2 DEF Commit
  <2>2. /\ feeds' \in [Sessions -> Feed] /\ feeds'[s] = feed
        /\ \A t \in Sessions : t # s => feeds'[t] = feeds[t]
    BY <2>1
  <2>3. \A t \in Sessions : feeds[t].revision \in Nat
    BY DEF Feed
  <2>4. ASSUME NEW t \in Sessions, NEW m, OfFeed(m, t)
        PROVE  OfFeed(m, t)'
    <3>1. m.feed.revision \in Nat
      BY <2>4 DEF OfFeed, FeedModel, Feed
    <3> QED
      BY <2>1, <2>2, <2>3, <2>4, <3>1 DEF OfFeed, SameFeed
  <2>5. CASE follower # None /\ follower.session = s /\ follower.open
    <3>1. follower \in FeedFollower /\ follower' = [follower EXCEPT !.pending = TRUE]
      BY <2>1, <2>5 DEF Pushed
    <3>2. /\ follower' \in FeedFollower /\ follower'.session = s /\ follower'.open
      BY <2>5, <3>1 DEF FeedFollower
    <3>3. feeds'[s].revision > feeds[s].revision
      BY <2>1, <2>2, <2>3
    <3>4. FollowerEffect
      BY <2>5, <3>2, <3>3 DEF FollowerEffect
    <3>5. HostTypes'
      BY <2>2, <2>5, <3>2
    <3> QED
      BY <2>4, <3>4, <3>5 DEF HostEffect
  <2>6. CASE ~(follower # None /\ follower.session = s /\ follower.open)
    <3>1. follower' = follower
      BY <2>1, <2>6 DEF Pushed
    <3>2. follower # None => follower \in FeedFollower
      OBVIOUS
    <3>3. follower # None /\ follower.open => feeds'[follower.session] = feeds[follower.session]
      BY <2>2, <2>6, <3>2 DEF FeedFollower
    <3>4. FollowerEffect
      BY <3>1, <3>3, IdleFollower
    <3>5. HostTypes'
      BY <2>2, <3>1
    <3> QED
      BY <2>4, <3>4, <3>5 DEF HostEffect
  <2> QED
    BY <2>5, <2>6
<1> QED
  BY <1>1, <1>2

(* A step of the Host keeps its types, and every model it handed out stays *)
(* one of its feed.                                                        *)
LEMMA HostSteps ==
  ASSUME HostTypes, HostStep
  PROVE  HostTypes' /\ HostEffect
<1>1. CASE RunAdvances
  <2>0. PICK begin \in Begins :
          \E receipt \in NextReceipts(begin[1], begin[2]) :
            /\ life[begin[1]] # 0
            /\ runs' = [runs EXCEPT ![begin[1]][begin[2]] = receipt]
            /\ Publish(begin[1], receipt)
            /\ UNCHANGED <<instance, started, life, lives, wire, others, disturbances>>
    BY <1>1 DEF RunAdvances
  <2>1. PICK receipt \in NextReceipts(begin[1], begin[2]) :
          /\ life[begin[1]] # 0
          /\ runs' = [runs EXCEPT ![begin[1]][begin[2]] = receipt]
          /\ Publish(begin[1], receipt)
          /\ UNCHANGED <<instance, started, life, lives, wire, others, disturbances>>
    BY <2>0
  <2>. DEFINE s == begin[1]
              r == begin[2]
  <2>9. receipt \in NextReceipts(s, r)
    BY <2>1
  <2>2. s \in Sessions /\ r \in Runs
    OBVIOUS
  <2>3. /\ runs[s] \in [Runs -> Receipt \cup {None}]
        /\ runs[s][r] \in Receipt \cup {None} /\ feeds[s] \in Feed
    BY <2>2 DEF HostTypes
  <2>4. receipt \in Receipt
    <3>. HIDE DEF s, r
    <3> QED
      BY <2>2, <2>3, <2>9, RunReceipts
  <2>5. runs' \in [Sessions -> [Runs -> Receipt \cup {None}]]
    <3>1. runs' = [runs EXCEPT ![s] = [runs[s] EXCEPT ![r] = receipt]]
      BY <2>1
    <3>2. [runs[s] EXCEPT ![r] = receipt] \in [Runs -> Receipt \cup {None}]
      BY <2>3, <2>4
    <3> QED
      BY <3>1, <3>2 DEF HostTypes
  <2>6. Publish(s, receipt) /\ UNCHANGED <<instance, started, life, lives, wire>>
    BY <2>1
  <2>. HIDE DEF s, r
  <2>7. CASE instance # 0 /\ life[s] # 0
    <3>1. /\ Published(feeds[s], receipt) \in Feed
          /\ \/ Published(feeds[s], receipt) = feeds[s]
             \/ Published(feeds[s], receipt).revision = feeds[s].revision + 1
      BY <2>3, <2>4, ReplacedFeed
    <3>2. Commit(s, Published(feeds[s], receipt))
      BY <2>6, <2>7 DEF Publish
    <3> QED
      BY <2>2, <2>5, <2>6, <3>1, <3>2, CommitStep
  <2>8. CASE ~(instance # 0 /\ life[s] # 0)
    <3>1. Commit(s, feeds[s])
      BY <2>6, <2>8 DEF Publish, Commit
    <3> QED
      BY <2>2, <2>3, <2>5, <2>6, <3>1, CommitStep
  <2> QED
    BY <2>7, <2>8
<1>2. ASSUME NEW s \in Sessions, ClearTerminal(s)
      PROVE  HostTypes' /\ HostEffect
  <2>1. feeds[s] \in Feed /\ feeds[s].terminal # None
    BY <1>2 DEF ClearTerminal, HostTypes
  <2>2. Cleared(feeds[s]) \in Feed /\ Cleared(feeds[s]).revision = feeds[s].revision + 1
    BY <2>1, ClearedFeed
  <2>3. /\ Commit(s, Cleared(feeds[s])) /\ UNCHANGED <<instance, started, life, lives, wire>>
        /\ runs' \in [Sessions -> [Runs -> Receipt \cup {None}]]
    BY <1>2 DEF ClearTerminal, HostTypes
  <2> QED
    BY <2>2, <2>3, CommitStep
<1>3. ASSUME NEW s \in Sessions, DisposeSession(s)
      PROVE  HostTypes' /\ HostEffect
  <2>1. /\ life' = [life EXCEPT ![s] = 0] /\ feeds' = [feeds EXCEPT ![s] = EmptyFeed]
        /\ follower' = IF follower # None /\ follower.session = s THEN Closed ELSE follower
        /\ UNCHANGED <<instance, started, lives, wire, runs>>
    BY <1>3 DEF DisposeSession
  <2>2. EmptyFeed \in Feed
    BY DEF EmptyFeed, Feed
  <2>3. HostTypes'
    <3>1. CASE follower # None /\ follower.session = s
      BY <2>1, <2>2, <3>1, ClosedFollower DEF HostTypes
    <3>2. CASE ~(follower # None /\ follower.session = s)
      <4>1. follower' = follower
        BY <2>1, <3>2
      <4>2. follower # None => life'[follower.session] = life[follower.session]
        BY <2>1, <3>2 DEF HostTypes, FeedFollower
      <4> QED
        BY <2>1, <2>2, <4>1, <4>2 DEF HostTypes
    <3> QED
      BY <3>1, <3>2
  <2>4. ASSUME NEW t \in Sessions, NEW m, OfFeed(m, t)
        PROVE  OfFeed(m, t)'
    <3>1. life'[s] = 0 /\ (t # s => life'[t] = life[t] /\ feeds'[t] = feeds[t])
      BY <2>1 DEF HostTypes
    <3> QED
      BY <2>1, <2>4, <3>1 DEF OfFeed, SameFeed, HostTypes
  <2>5. FollowerEffect
    <3>1. CASE follower # None /\ follower.session = s
      BY <2>1, <3>1, ClosedFollower
    <3>2. CASE ~(follower # None /\ follower.session = s)
      <4>1. follower' = follower
        BY <2>1, <3>2
      <4>2. follower # None => /\ life'[follower.session] = life[follower.session]
                               /\ feeds'[follower.session] = feeds[follower.session]
        BY <2>1, <3>2 DEF HostTypes, FeedFollower
      <4> QED
        BY <2>1, <4>1, <4>2, IdleFollower
    <3> QED
      BY <3>1, <3>2
  <2> QED
    BY <2>1, <2>3, <2>4, <2>5 DEF HostEffect
<1>4. ASSUME NEW s \in Sessions, OpenSession(s)
      PROVE  HostTypes' /\ HostEffect
  <2>1. /\ lives' = [lives EXCEPT ![s] = @ + 1] /\ life' = [life EXCEPT ![s] = lives[s] + 1]
        /\ life[s] = 0
        /\ UNCHANGED <<instance, started, feeds, follower, wire, runs>>
    BY <1>4 DEF OpenSession
  <2>2. /\ life'[s] = lives[s] + 1 /\ lives'[s] = lives[s] + 1
        /\ \A t \in Sessions : t # s => life'[t] = life[t] /\ lives'[t] = lives[t]
        /\ life' \in [Sessions -> Nat] /\ lives' \in [Sessions -> Nat]
    BY <2>1 DEF HostTypes
  <2>5. follower # None /\ follower.open => follower.session # s
    BY <2>1 DEF HostTypes
  <2>6. follower # None /\ follower.open => life'[follower.session] = life[follower.session]
    BY <2>2, <2>5 DEF HostTypes, FeedFollower
  <2>3. HostTypes'
    BY <2>1, <2>2, <2>6 DEF HostTypes
  <2>4. ASSUME NEW t \in Sessions, NEW m, OfFeed(m, t)
        PROVE  OfFeed(m, t)'
    <3>1. lives[t] \in Nat /\ m.life \in 1..lives[t]
      BY <2>4 DEF OfFeed, HostTypes
    <3> QED
      BY <2>1, <2>2, <2>4, <3>1 DEF OfFeed, SameFeed
  <2>7. FollowerEffect
    BY <2>1, <2>6, IdleFollower
  <2> QED
    BY <2>1, <2>3, <2>4, <2>7 DEF HostEffect
<1>5. CASE StopCompanion
  <2>1. /\ instance' = 0 /\ feeds' = [s \in Sessions |-> EmptyFeed] /\ follower' = Closed
        /\ UNCHANGED <<started, life, lives, wire, runs>>
    BY <1>5 DEF StopCompanion
  <2>2. EmptyFeed \in Feed
    BY DEF EmptyFeed, Feed
  <2>3. HostTypes'
    BY <2>1, <2>2, ClosedFollower DEF HostTypes
  <2>4. ASSUME NEW t \in Sessions, NEW m, OfFeed(m, t)
        PROVE  OfFeed(m, t)'
    BY <2>1, <2>4 DEF OfFeed, SameFeed, HostTypes
  <2> QED
    BY <2>1, <2>3, <2>4, ClosedFollower DEF HostEffect
<1>6. CASE StartCompanion
  <2>1. /\ instance = 0 /\ started' = started + 1 /\ instance' = started + 1
        /\ UNCHANGED <<life, lives, feeds, follower, wire, runs>>
    BY <1>6 DEF StartCompanion
  <2>2. HostTypes'
    BY <2>1 DEF HostTypes
  <2>3. ASSUME NEW t \in Sessions, NEW m, OfFeed(m, t)
        PROVE  OfFeed(m, t)'
    BY <2>1, <2>3 DEF OfFeed, SameFeed, HostTypes
  <2>4. FollowerEffect
    BY <2>1, IdleFollower DEF HostTypes
  <2> QED
    BY <2>1, <2>2, <2>3, <2>4 DEF HostEffect
<1>7. CASE OtherFollows
  <2>1. UNCHANGED <<instance, started, life, lives, feeds, follower, wire, runs>>
    BY <1>7 DEF OtherFollows
  <2>2. FollowerEffect
    BY <2>1, IdleFollower
  <2> QED
    BY <2>1, <2>2 DEF HostEffect, HostTypes, OfFeed, SameFeed
<1> QED
  BY <1>1, <1>2, <1>3, <1>4, <1>5, <1>6, <1>7 DEF HostStep

----------------------------------------------------------------------------
(* The client: its inductive invariant                                     *)

InUse == Current(control.epoch, control.session)

ClientTypes ==
  /\ target \in Sessions \cup {None} /\ epoch \in Nat \ {0}
  /\ control = [session |-> control.session, epoch |-> control.epoch,
                phase |-> control.phase, accepted |-> control.accepted]
  /\ control.epoch \in Nat /\ control.epoch <= epoch
  /\ control.phase # "none" => control.session \in Sessions
  /\ shown = [session |-> shown.session, state |-> shown.state, model |-> shown.model,
              directClear |-> shown.directClear]

ShownInv ==
  /\ shown.session = target /\ shown.state # "invalid-frame"
  /\ shown.model # None => target \in Sessions /\ OfFeed(shown.model, target)

(* The frame on its way is of the stream's Session, and a replacement is   *)
(* news to the client it reaches.                                          *)
Sent(frame) ==
  /\ control.phase \in {"following", "disposing"}
  /\ frame.type \in {"unavailable", "baseline", "replacement"}
  /\ frame.type = "unavailable" => follower = None
  /\ frame.type # "unavailable" => OfFeed(frame.value, control.session)
  /\ frame.type = "replacement" /\ InUse =>
       shown.model # None /\ shown.model.feed.revision < frame.value.feed.revision

WireInv == wire = <<>> \/ \E frame : wire = <<frame>> /\ Sent(frame)

(* The model that went out last is of the feed the follower is at, and     *)
(* older than what is pending.                                             *)
Before(model) ==
  /\ SameFeed(model, control.session)
  /\ follower.pending => model.feed.revision < feeds[control.session].revision

FollowerInv ==
  follower # None /\ follower.open =>
    /\ follower.session = control.session /\ control.phase = "following"
    /\ wire # <<>> => Before(wire[1].value)
    /\ wire = <<>> /\ InUse => shown.model # None /\ Before(shown.model)

ClientInv == HostTypes /\ ClientTypes /\ ShownInv /\ WireInv /\ FollowerInv

(* The invariant holds at the start.                                       *)
LEMMA ClientInvInit == FeedInit /\ ClientInit => ClientInv
<1>. SUFFICES ASSUME FeedInit, ClientInit PROVE ClientInv
  OBVIOUS
<1>. USE DEF FeedInit, ClientInit
<1>1. EmptyFeed \in Feed
  BY DEF EmptyFeed, Feed
<1>2. HostTypes
  BY <1>1 DEF HostTypes
<1>3. ClientTypes
  BY DEF ClientTypes, Shown, NoStream
<1>4. ShownInv
  BY DEF ShownInv, Shown
<1> QED
  BY <1>2, <1>3, <1>4 DEF ClientInv, WireInv, FollowerInv

(* Models that were handed out of a Session stay so while the Host rests.  *)
HostRests == UNCHANGED <<instance, started, life, lives, feeds, runs>>

(* While the Host rests nothing that was handed out changes.               *)
LEMMA RestingHost ==
  ASSUME HostRests
  PROVE  \A s, m : OfFeed(m, s)' <=> OfFeed(m, s)
BY DEF HostRests, OfFeed, SameFeed

(* A step of the Host leaves the client alone.                             *)
LEMMA HostKeepsClient ==
  ASSUME ClientInv, HostStep, UNCHANGED clientVars
  PROVE  ClientInv'
<1>. USE DEF ClientInv
<1>1. HostTypes' /\ HostEffect
  BY HostSteps
<1>2. /\ target' = target /\ epoch' = epoch /\ shown' = shown /\ control' = control
      /\ wire' = wire
  BY <1>1 DEF clientVars, HostEffect
<1>3. ClientTypes'
  BY <1>2 DEF ClientTypes
<1>4. InUse' = InUse
  BY <1>2 DEF InUse, Current
<1>5. ShownInv'
  BY <1>1, <1>2 DEF ShownInv, HostEffect
<1>6. WireInv'
  <2>1. CASE wire = <<>>
    BY <1>2, <2>1 DEF WireInv
  <2>2. CASE wire # <<>>
    <3>1. PICK frame : wire = <<frame>> /\ Sent(frame)
      BY <2>2 DEF WireInv
    <3>2. control.session \in Sessions
      BY <3>1 DEF Sent, ClientTypes
    <3>3. frame.type # "unavailable" => OfFeed(frame.value, control.session)'
      BY <1>1, <1>2, <3>1, <3>2 DEF Sent, HostEffect
    <3>4. frame.type = "unavailable" => follower' = None
      BY <1>1, <3>1 DEF Sent, HostEffect, FollowerEffect
    <3>5. Sent(frame)'
      BY <1>2, <1>4, <3>1, <3>3, <3>4 DEF Sent
    <3> QED
      BY <1>2, <3>1, <3>5 DEF WireInv
  <2> QED
    BY <2>1, <2>2
<1>7. FollowerInv'
  <2>. SUFFICES ASSUME follower' # None, follower'.open PROVE FollowerInv'
    BY DEF FollowerInv
  <2>. DEFINE s == control.session
  <2>1. /\ follower # None /\ follower.open /\ follower'.session = follower.session
        /\ instance' = instance /\ life'[s] = life[s]
        /\ \/ feeds'[s] = feeds[s] /\ follower'.pending = follower.pending
           \/ feeds'[s].revision > feeds[s].revision
        /\ follower.session = s
    BY <1>1 DEF HostEffect, FollowerEffect, FollowerInv
  <2>2. s \in Sessions /\ control.phase = "following"
    BY <2>1 DEF FollowerInv, ClientTypes
  <2>3. feeds[s].revision \in Nat /\ feeds'[s].revision \in Nat
    BY <1>1, <2>2 DEF HostTypes, Feed
  <2>4. ASSUME NEW m, OfFeed(m, s), Before(m)
        PROVE  Before(m)'
    <3>1. SameFeed(m, s) /\ m.feed.revision \in Nat /\ m.feed.revision <= feeds[s].revision
      BY <2>4 DEF OfFeed, Before, FeedModel, Feed
    <3>2. SameFeed(m, s)'
      BY <1>2, <2>1, <3>1 DEF SameFeed
    <3> QED
      BY <1>2, <2>1, <2>3, <2>4, <3>1, <3>2 DEF Before
  <2>5. wire # <<>> => Before(wire[1].value)'
    <3>1. SUFFICES ASSUME wire # <<>> PROVE Before(wire[1].value)'
      OBVIOUS
    <3>2. PICK frame : wire = <<frame>> /\ Sent(frame)
      BY <3>1 DEF WireInv
    <3>3. frame = wire[1] /\ OfFeed(frame.value, s) /\ Before(frame.value)
      BY <2>1, <3>2 DEF Sent, FollowerInv
    <3>4. Before(frame.value)'
      BY <2>4, <3>3
    <3> QED
      BY <1>2, <3>3, <3>4
  <2>6. wire = <<>> /\ InUse => shown.model # None /\ Before(shown.model)'
    <3>1. SUFFICES ASSUME wire = <<>>, InUse PROVE shown.model # None /\ Before(shown.model)'
      OBVIOUS
    <3>2. shown.model # None /\ Before(shown.model) /\ OfFeed(shown.model, s)
      BY <2>1, <3>1 DEF FollowerInv, ShownInv, InUse, Current
    <3> QED
      BY <1>2, <2>4, <3>2
  <2> QED
    BY <1>2, <1>4, <2>1, <2>2, <2>5, <2>6 DEF FollowerInv
<1> QED
  BY <1>1, <1>3, <1>5, <1>6, <1>7

----------------------------------------------------------------------------
(* The steps of the client                                                 *)

(* A client that takes nothing from its stream but its follower, which is  *)
(* closed or left.                                                         *)
LEMMA StreamStops ==
  ASSUME ClientInv, HostRests, follower' \in {None, Closed}
  PROVE  HostTypes' /\ FollowerInv'
<1>1. HostTypes' /\ (follower' # None => ~follower'.open)
  <2>1. CASE follower' = None
    BY <2>1 DEF ClientInv, HostTypes, HostRests
  <2>2. CASE follower' = Closed
    <3>1. /\ follower' \in FeedFollower \cup {None}
          /\ follower' # None => ~follower'.open /\ ~follower'.pending
      BY <2>2, ClosedFollower DEF ClientInv
    <3> QED
      BY <3>1 DEF ClientInv, HostTypes, HostRests
  <2> QED
    BY <2>1, <2>2
<1> QED
  BY <1>1 DEF FollowerInv

(* Another Session is selected: what is shown and what is on the wire stay *)
(* right.                                                                  *)
LEMMA SelectKeepsClient ==
  ASSUME ClientInv, NEW s \in Sessions \cup {None}, SelectSession(s)
  PROVE  ClientInv'
<1>. USE DEF ClientInv
<1>1. /\ target' = s /\ epoch' = epoch + 1 /\ control' = control
      /\ shown' = Shown(s, IF s = None THEN "ready-empty" ELSE "opening", None)
      /\ wire' = wire /\ follower' = follower /\ HostRests
  BY DEF SelectSession, HostRests, feedVars
<1>2. HostTypes'
  BY <1>1 DEF HostTypes, HostRests
<1>3. ClientTypes' /\ ~InUse'
  BY <1>1 DEF ClientTypes, Shown, InUse, Current
<1>4. ShownInv'
  BY <1>1 DEF ShownInv, Shown
<1>5. WireInv'
  <2>1. \A frame : Sent(frame) => Sent(frame)'
    BY <1>1, <1>3, RestingHost DEF Sent
  <2> QED
    BY <1>1, <2>1 DEF WireInv
<1>6. FollowerInv'
  BY <1>1, <1>3 DEF FollowerInv, Before, SameFeed, HostRests
<1> QED
  BY <1>2, <1>3, <1>4, <1>5, <1>6

(* The browser disposes of the stream it had.                              *)
LEMMA DisposeKeepsClient ==
  ASSUME ClientInv, DisposePrevious
  PROVE  ClientInv'
<1>. USE DEF ClientInv
<1>1. /\ follower' = Closed /\ wire' = wire /\ HostRests
      /\ target' = target /\ epoch' = epoch /\ shown' = shown
      /\ control' = [control EXCEPT !.phase = IF @ = "none" THEN @ ELSE "disposing"]
  BY DEF DisposePrevious, HostRests
<1>2. HostTypes' /\ FollowerInv'
  BY <1>1, StreamStops
<1>3. /\ control'.session = control.session /\ control'.epoch = control.epoch
      /\ control'.phase = IF control.phase = "none" THEN "none" ELSE "disposing"
      /\ ClientTypes'
  BY <1>1 DEF ClientTypes
<1>4. ShownInv'
  BY <1>1, RestingHost DEF ShownInv
<1>5. WireInv'
  <2>1. ASSUME NEW frame, Sent(frame) PROVE Sent(frame)'
    <3>1. frame.type = "unavailable" => follower' = None
      BY <1>1, <2>1 DEF Sent, Closed
    <3>2. frame.type # "unavailable" => OfFeed(frame.value, control.session)'
      BY <1>1, <1>3, <2>1, RestingHost DEF Sent
    <3>3. InUse' = InUse
      BY <1>1, <1>3 DEF InUse, Current
    <3> QED
      BY <1>1, <1>3, <2>1, <3>1, <3>2, <3>3 DEF Sent
  <2> QED
    BY <1>1, <2>1 DEF WireInv
<1> QED
  BY <1>2, <1>3, <1>4, <1>5

(* The carrier is opened.                                                  *)
LEMMA OpenKeepsClient ==
  ASSUME ClientInv, OpenStream
  PROVE  ClientInv'
<1>. USE DEF ClientInv
<1>1. /\ follower' = None /\ wire' = <<>> /\ HostRests
      /\ target' = target /\ epoch' = epoch /\ shown' = shown
      /\ control' = IF Current(Head(chain).epoch, Head(chain).session) /\ Head(chain).session # None
                    THEN [session |-> Head(chain).session, epoch |-> Head(chain).epoch,
                          phase |-> "opening", accepted |-> FALSE]
                    ELSE NoStream
  BY DEF OpenStream, HostRests
<1>2. HostTypes' /\ FollowerInv'
  BY <1>1, StreamStops
<1>3. ClientTypes'
  <2>1. CASE Current(Head(chain).epoch, Head(chain).session) /\ Head(chain).session # None
    <3>1. control' = [session |-> target, epoch |-> epoch, phase |-> "opening", accepted |-> FALSE]
      BY <1>1, <2>1 DEF Current
    <3>2. target \in Sessions
      BY <2>1 DEF Current, ClientTypes
    <3>3. /\ control'.session = target /\ control'.epoch = epoch
          /\ control'.phase = "opening" /\ control'.accepted = FALSE
      BY <3>1
    <3>4. control' = [session |-> control'.session, epoch |-> control'.epoch,
                      phase |-> control'.phase, accepted |-> control'.accepted]
      BY <3>1, <3>3
    <3> QED
      BY <1>1, <3>2, <3>3, <3>4 DEF ClientTypes
  <2>2. CASE ~(Current(Head(chain).epoch, Head(chain).session) /\ Head(chain).session # None)
    <3>1. control' = NoStream
      BY <1>1, <2>2
    <3>2. /\ control'.epoch = 0 /\ control'.phase = "none"
          /\ control' = [session |-> control'.session, epoch |-> control'.epoch,
                         phase |-> control'.phase, accepted |-> control'.accepted]
      BY <3>1 DEF NoStream
    <3> QED
      BY <1>1, <3>2 DEF ClientTypes
  <2> QED
    BY <2>1, <2>2
<1>4. ShownInv'
  BY <1>1, RestingHost DEF ShownInv
<1> QED
  BY <1>1, <1>2, <1>3, <1>4 DEF WireInv

(* The model a Session has now.                                            *)
LEMMA ModelIsOfFeed ==
  ASSUME HostTypes, NEW s \in Sessions, instance # 0, life[s] # 0
  PROVE  /\ OfFeed(Model(s), s) /\ SameFeed(Model(s), s) /\ Model(s) # None
         /\ Model(s).feed = feeds[s]
<1>1. Model(s) = [session |-> s, instance |-> instance, life |-> life[s], feed |-> feeds[s]]
  BY DEF Model
<1>2. Model(s) \in FeedModel
  BY <1>1 DEF FeedModel, HostTypes
<1>3. feeds[s].revision \in Nat
  BY DEF HostTypes, Feed
<1> QED
  BY <1>1, <1>2, <1>3 DEF OfFeed, SameFeed, HostTypes

(* The Host opens the follower.                                            *)
LEMMA FollowKeepsClient ==
  ASSUME ClientInv, Follow
  PROVE  ClientInv'
<1>. USE DEF ClientInv
<1>. DEFINE s == control.session
<1>1. /\ control.phase = "opening" /\ HostRests
      /\ target' = target /\ epoch' = epoch /\ shown' = shown
      /\ control' = [control EXCEPT !.phase = "following", !.accepted = FALSE]
  BY DEF Follow, HostRests
<1>2. /\ control'.session = s /\ control'.epoch = control.epoch /\ control'.phase = "following"
      /\ ClientTypes' /\ s \in Sessions
  BY <1>1 DEF ClientTypes
<1>3. ShownInv'
  BY <1>1, RestingHost DEF ShownInv
<1>4. CASE Unavailable(s) # None
  <2>1. wire' = <<[type |-> "unavailable", value |-> None]>> /\ follower' = None
    BY <1>4 DEF Follow
  <2>2. HostTypes' /\ FollowerInv'
    BY <1>1, <2>1, StreamStops
  <2>3. Sent([type |-> "unavailable", value |-> None])'
    BY <1>2, <2>1 DEF Sent
  <2> QED
    BY <1>2, <1>3, <2>1, <2>2, <2>3 DEF WireInv
<1>5. CASE Unavailable(s) = None
  <2>1. /\ wire' = <<[type |-> "baseline", value |-> Model(s)]>>
        /\ follower' = [session |-> s, open |-> TRUE, pending |-> FALSE]
    BY <1>5 DEF Follow
  <2>2. instance # 0 /\ life[s] # 0
    BY <1>5 DEF Unavailable
  <2>4. HostTypes'
    <3>1. follower' \in FeedFollower
      BY <1>2, <2>1 DEF FeedFollower
    <3>2. ~follower'.pending /\ follower'.session = s
      BY <2>1
    <3> QED
      BY <1>1, <2>2, <3>1, <3>2 DEF HostTypes, HostRests
  <2>5. PICK model, frame :
          model = Model(s) /\ frame = [type |-> "baseline", value |-> model]
    OBVIOUS
  <2>6. /\ wire' = <<frame>> /\ frame.type = "baseline" /\ frame.value = model
        /\ OfFeed(model, s)' /\ SameFeed(model, s)'
    <3>1. OfFeed(model, s) /\ SameFeed(model, s)
      BY <1>2, <2>2, <2>5, ModelIsOfFeed
    <3>2. OfFeed(model, s)' /\ SameFeed(model, s)'
      BY <1>1, <1>2, <3>1 DEF HostRests, OfFeed, SameFeed
    <3> QED
      BY <2>1, <2>5, <3>2
  <2>7. Sent(frame)'
    BY <1>2, <2>6 DEF Sent
  <2>8. FollowerInv'
    BY <1>2, <2>1, <2>6 DEF FollowerInv, Before
  <2>9. WireInv'
    BY <2>6, <2>7 DEF WireInv
  <2> QED
    BY <1>2, <1>3, <2>4, <2>8, <2>9
<1> QED
  BY <1>4, <1>5

(* The Host hands a model out.                                             *)
LEMMA HandOutKeepsClient ==
  ASSUME ClientInv, HandOut
  PROVE  ClientInv'
<1>. USE DEF ClientInv
<1>. DEFINE s == control.session
<1>1. /\ follower # None /\ follower.pending /\ wire = <<>> /\ HostRests
      /\ wire' = <<[type |-> "replacement", value |-> Model(follower.session)]>>
      /\ follower' = [follower EXCEPT !.pending = FALSE]
      /\ target' = target /\ epoch' = epoch /\ shown' = shown /\ control' = control
  BY DEF HandOut, HostRests, clientVars
<1>2. /\ follower.open /\ follower.session = s /\ control.phase = "following"
      /\ instance # 0 /\ life[s] # 0 /\ s \in Sessions
      /\ InUse => shown.model # None /\ Before(shown.model)
  BY <1>1 DEF HostTypes, FollowerInv, ClientTypes
<1>3. PICK model, frame :
        model = Model(s) /\ frame = [type |-> "replacement", value |-> model]
  OBVIOUS
<1>4. /\ follower' \in FeedFollower /\ follower'.session = s
      /\ follower'.open /\ ~follower'.pending
  <2>1. follower \in FeedFollower
    BY <1>1 DEF HostTypes
  <2> QED
    BY <1>1, <1>2, <2>1 DEF FeedFollower
<1>5. HostTypes'
  BY <1>1, <1>2, <1>4 DEF HostTypes, HostRests
<1>6. ClientTypes' /\ ShownInv' /\ InUse' = InUse
  BY <1>1, RestingHost DEF ClientTypes, ShownInv, InUse, Current
<1>7. /\ wire' = <<frame>> /\ frame.type = "replacement" /\ frame.value = model
      /\ OfFeed(model, s)' /\ SameFeed(model, s)' /\ model.feed = feeds[s]
  <2>1. OfFeed(model, s) /\ SameFeed(model, s) /\ model.feed = feeds[s]
    BY <1>2, <1>3, ModelIsOfFeed
  <2>2. OfFeed(model, s)' /\ SameFeed(model, s)'
    BY <1>1, <2>1 DEF HostRests, OfFeed, SameFeed
  <2> QED
    BY <1>1, <1>2, <1>3, <2>1, <2>2
<1>8. Sent(frame)'
  BY <1>1, <1>2, <1>6, <1>7 DEF Sent, Before
<1>9. WireInv' /\ FollowerInv'
  BY <1>1, <1>2, <1>4, <1>7, <1>8 DEF WireInv, FollowerInv, Before
<1> QED
  BY <1>5, <1>6, <1>9

(* What a frame makes of what is shown: the model it brings, or what was   *)
(* shown with another state; a replacement is never refused.               *)
LEMMA ReceiveKeepsClient ==
  ASSUME ClientInv, Receive
  PROVE  ClientInv'
<1>. USE DEF ClientInv
<1>. DEFINE s == control.session
<1>1. PICK frame : wire = <<frame>> /\ Sent(frame) /\ Head(wire) = frame /\ wire[1] = frame
  <2>1. PICK frame : wire = <<frame>> /\ Sent(frame)
    BY DEF Receive, WireInv
  <2> QED
    BY <2>1
<1>2. /\ target' = target /\ epoch' = epoch /\ wire' = <<>> /\ HostRests
      /\ follower' = IF control'.phase = "failed" THEN None ELSE follower
      /\ frame.type = "unavailable" => FeedUnavailable
      /\ frame.type = "baseline" => AcceptBaseline(frame.value)
      /\ frame.type = "replacement" => AcceptReplacement(frame.value)
  BY <1>1 DEF Receive, HostRests, Sent
<1>3. s \in Sessions /\ (InUse => s = target /\ shown.session = target)
  BY <1>1 DEF Sent, ClientTypes, InUse, Current, ShownInv
<1>4. WireInv'
  BY <1>2 DEF WireInv
<1>5. ASSUME control' = [control EXCEPT !.phase = "failed"],
             shown' = shown \/ (InUse /\ shown' = Shown(s, "feed-unavailable", None))
      PROVE  ClientInv'
  <2>1. HostTypes' /\ FollowerInv'
    <3>1. follower' = None
      BY <1>2, <1>5 DEF ClientTypes
    <3> QED
      BY <1>2, <3>1, StreamStops
  <2>2. ClientTypes' /\ ShownInv'
    BY <1>2, <1>3, <1>5, RestingHost DEF ClientTypes, ShownInv, Shown
  <2> QED
    BY <1>4, <2>1, <2>2
<1>6. ASSUME NEW opening \in BOOLEAN,
             shown' = IF InUse THEN Accepted(frame.value, opening) ELSE shown,
             control' = [control EXCEPT !.accepted = TRUE] \/ control' = control,
             frame.type # "unavailable"
      PROVE  ClientInv'
  <2>1. /\ control'.session = s /\ control'.phase = control.phase
        /\ control'.epoch = control.epoch
        /\ control' = [session |-> control'.session, epoch |-> control'.epoch,
                       phase |-> control'.phase, accepted |-> control'.accepted]
    BY <1>6 DEF ClientTypes
  <2>2. control.phase # "failed" /\ follower' = follower
    BY <1>1, <1>2, <2>1 DEF Sent
  <2>3. OfFeed(frame.value, s) /\ OfFeed(frame.value, s)' /\ frame.value # None
    <3>1. OfFeed(frame.value, s)
      BY <1>1, <1>6 DEF Sent
    <3>2. OfFeed(frame.value, s)'
      BY <1>2, <2>1, <3>1 DEF OfFeed, SameFeed, HostRests
    <3> QED
      BY <3>1, <3>2 DEF OfFeed
  <2>4. InUse' = InUse
    BY <1>2, <2>1 DEF InUse, Current
  <2>5. /\ InUse => /\ shown'.session = s /\ shown'.model = frame.value
                    /\ shown'.state # "invalid-frame"
        /\ ~InUse => shown' = shown
        /\ shown' = [session |-> shown'.session, state |-> shown'.state, model |-> shown'.model,
                     directClear |-> shown'.directClear]
    BY <1>6 DEF Accepted, contentState, ClientTypes
  <2>6. HostTypes' /\ ClientTypes'
    BY <1>2, <2>1, <2>2, <2>5 DEF HostTypes, HostRests, ClientTypes
  <2>7. ShownInv'
    <3>1. CASE InUse
      <4>1. control'.session = target'
        BY <1>2, <1>3, <2>1, <3>1
      <4>2. /\ shown'.session = target' /\ shown'.state # "invalid-frame"
            /\ shown'.model = frame.value /\ target' \in Sessions
        BY <1>2, <1>3, <2>5, <3>1
      <4>3. OfFeed(frame.value, target)'
        BY <2>3, <4>1
      <4> QED
        BY <4>2, <4>3 DEF ShownInv
    <3>2. CASE ~InUse
      BY <1>2, <2>5, <3>2, RestingHost DEF ShownInv
    <3> QED
      BY <3>1, <3>2
  <2>8. FollowerInv'
    <3>. SUFFICES ASSUME follower # None, follower.open PROVE FollowerInv'
      BY <2>2 DEF FollowerInv
    <3>1. follower.session = s /\ control.phase = "following" /\ Before(frame.value)
      BY <1>1 DEF FollowerInv
    <3>2. Before(frame.value)'
      BY <1>2, <2>1, <2>2, <3>1 DEF Before, SameFeed, HostRests
    <3> QED
      BY <1>2, <2>1, <2>2, <2>3, <2>4, <2>5, <3>1, <3>2 DEF FollowerInv
  <2> QED
    BY <1>4, <2>6, <2>7, <2>8
<1>7. CASE frame.type = "unavailable"
  <2>1. /\ shown' = Failed("feed-unavailable")
        /\ control' = [control EXCEPT !.phase = "failed"]
    BY <1>2, <1>7 DEF FeedUnavailable
  <2>2. shown' = shown \/ (InUse /\ shown' = Shown(s, "feed-unavailable", None))
    BY <2>1 DEF Failed, InUse
  <2> QED
    BY <1>5, <2>1, <2>2
<1>8. CASE frame.type = "baseline"
  BY <1>2, <1>6, <1>8 DEF AcceptBaseline, InUse
<1>9. CASE frame.type = "replacement"
  <2>1. CASE InUse
    <3>1. shown.model # None /\ shown.model.feed.revision < frame.value.feed.revision
      BY <1>1, <1>9, <2>1 DEF Sent
    <3>2. shown.model.feed.revision \in Nat /\ frame.value.feed.revision \in Nat
      BY <1>1, <1>9, <3>1 DEF Sent, ShownInv, OfFeed, FeedModel, Feed
    <3>3. ~(frame.value.feed.revision <= shown.model.feed.revision)
      BY <3>1, <3>2
    <3>4. shown' = Accepted(frame.value, FALSE) /\ control' = control
      BY <1>2, <1>9, <2>1, <3>1, <3>3 DEF AcceptReplacement, InUse
    <3> QED
      BY <1>6, <1>9, <2>1, <3>4
  <2>2. CASE ~InUse
    BY <1>2, <1>6, <1>9, <2>2 DEF AcceptReplacement, InUse
  <2> QED
    BY <2>1, <2>2
<1> QED
  BY <1>1, <1>7, <1>8, <1>9 DEF Sent

(* The stream follows again, from a lost carrier or a feed that ended.     *)
LEMMA ReconnectKeepsClient ==
  ASSUME ClientInv, Reconnect, HostRests, target' = target, epoch' = epoch,
         control.phase = "following"
  PROVE  ClientInv'
<1>. USE DEF ClientInv
<1>1. /\ control' = [control EXCEPT !.phase = "opening"]
      /\ shown' = shown \/ shown' = [shown EXCEPT !.state = "reconnecting"]
      /\ follower' = None /\ wire' = <<>>
  BY DEF Reconnect
<1>2. HostTypes' /\ FollowerInv'
  BY <1>1, StreamStops
<1>3. ClientTypes'
  BY <1>1 DEF ClientTypes
<1>4. /\ shown'.session = shown.session /\ shown'.model = shown.model
      /\ shown'.state # "invalid-frame"
  BY <1>1 DEF ClientTypes, ShownInv
<1>5. ShownInv'
  BY <1>4, RestingHost DEF ShownInv
<1> QED
  BY <1>1, <1>2, <1>3, <1>5 DEF WireInv

(* A carrier ends, and the browser opens another or gives up.              *)
LEMMA EndKeepsClient ==
  ASSUME ClientInv, FeedEnds
  PROVE  ClientInv'
<1>. USE DEF ClientInv
<1>1. /\ target' = target /\ epoch' = epoch /\ HostRests /\ control.phase = "following"
      /\ wire = <<>>
  BY DEF FeedEnds, HostRests
<1>2. CASE control.accepted
  BY <1>1, <1>2, ReconnectKeepsClient DEF FeedEnds
<1>3. CASE ~control.accepted
  <2>1. /\ control' = [control EXCEPT !.phase = "failed"] /\ follower' = None /\ wire' = <<>>
        /\ shown' = shown \/ shown' = [shown EXCEPT !.state = "stream-error"]
    BY <1>1, <1>3 DEF FeedEnds, Failed
  <2>2. HostTypes' /\ FollowerInv'
    BY <1>1, <2>1, StreamStops
  <2>3. ClientTypes'
    BY <1>1, <2>1 DEF ClientTypes
  <2>4. /\ shown'.session = shown.session /\ shown'.model = shown.model
        /\ shown'.state # "invalid-frame"
    BY <2>1 DEF ClientTypes, ShownInv
  <2>5. ShownInv'
    BY <1>1, <2>4, RestingHost DEF ShownInv
  <2> QED
    BY <2>1, <2>2, <2>3, <2>5 DEF WireInv
<1> QED
  BY <1>2, <1>3

(* The client shows the Session that is selected, models of its feed only, *)
(* and refuses none of them, however streams are opened, lost, replaced    *)
(* and disposed (client/model.ts:161, 214, 229).                           *)
THEOREM ClientShowsItsSession == ClientSpec => []ClientFollowsHost
<1>1. ClientInv /\ [(HostStep /\ UNCHANGED clientVars) \/ ClientStep]_<<feedVars, clientVars>>
        => ClientInv'
  <2>. SUFFICES ASSUME ClientInv,
                       [(HostStep /\ UNCHANGED clientVars) \/ ClientStep]_<<feedVars, clientVars>>
                PROVE  ClientInv'
    OBVIOUS
  <2>1. CASE HostStep /\ UNCHANGED clientVars
    BY <2>1, HostKeepsClient
  <2>2. ASSUME NEW s \in Sessions \cup {None}, SelectSession(s) PROVE ClientInv'
    BY <2>2, SelectKeepsClient
  <2>3. CASE ClientProgress
    BY <2>3, DisposeKeepsClient, OpenKeepsClient, FollowKeepsClient, HandOutKeepsClient,
       ReceiveKeepsClient, EndKeepsClient DEF ClientProgress
  <2>4. CASE LoseCarrier
    <3>1. /\ Reconnect /\ HostRests /\ target' = target /\ epoch' = epoch
          /\ control.phase = "following"
      BY <2>4 DEF LoseCarrier, HostRests
    <3> QED
      BY <3>1, ReconnectKeepsClient
  <2>5. CASE UNCHANGED <<feedVars, clientVars>>
    <3>1. /\ instance' = instance /\ started' = started /\ life' = life /\ lives' = lives
          /\ feeds' = feeds /\ follower' = follower /\ wire' = wire /\ runs' = runs
          /\ target' = target /\ epoch' = epoch /\ shown' = shown /\ control' = control
      BY <2>5 DEF feedVars, clientVars
    <3> QED
      BY <3>1 DEF ClientInv, HostTypes, ClientTypes, ShownInv, WireInv, FollowerInv, Sent,
                  Before, InUse, Current, OfFeed, SameFeed
  <2> QED
    BY <2>1, <2>2, <2>3, <2>4, <2>5 DEF ClientStep
<1>2. ClientInv => ClientFollowsHost
  BY DEF ClientInv, ShownInv, OfFeed, ClientFollowsHost
<1> QED
  BY <1>1, <1>2, ClientInvInit, PTL DEF ClientSpec

------------------------------------------------------------------------------
(* The token account of a receipt                                          *)

(* A usage: a count of each field, or None where it is not known.          *)
Usage == [Fields -> Nat \cup {None}]

(* What a usage counts for: what is not known adds nothing.                *)
Counted(usage, f) == IF usage[f] = None THEN 0 ELSE usage[f]

(* What the parts of a usage count for together.                           *)
OfParts(usage) ==
  ((Counted(usage, "input") + Counted(usage, "output")) + Counted(usage, "read"))
    + Counted(usage, "write")

(* It counts for a number in each field.                                   *)
LEMMA CountedType ==
  \A usage \in Usage : \A f \in Fields : Counted(usage, f) \in Nat
BY DEF Usage, Counted

(* There are finitely many parts.                                          *)
LEMMA PartsFinite == IsFiniteSet(Parts)
<1>1. IsFiniteSet({})
  BY FS_EmptySet
<1>2. IsFiniteSet({} \cup {"write"})
  BY <1>1, FS_AddElement
<1>3. IsFiniteSet(({} \cup {"write"}) \cup {"read"})
  BY <1>2, FS_AddElement
<1>4. IsFiniteSet((({} \cup {"write"}) \cup {"read"}) \cup {"output"})
  BY <1>3, FS_AddElement
<1>5. IsFiniteSet(((({} \cup {"write"}) \cup {"read"}) \cup {"output"}) \cup {"input"})
  BY <1>4, FS_AddElement
<1>6. ((({} \cup {"write"}) \cup {"read"}) \cup {"output"}) \cup {"input"} = Parts
  BY DEF Parts
<1> QED
  BY <1>5, <1>6

(* A sum over the parts is the sum of the four.                            *)
LEMMA FourParts ==
  ASSUME NEW w \in [Parts -> Nat]
  PROVE  Total(w) = ((w["input"] + w["output"]) + w["read"]) + w["write"]
<1> DEFINE A == {"output", "read", "write"}
           B == {"read", "write"}
           C == {"write"}
           a == [x \in A |-> w[x]]
           b == [x \in B |-> w[x]]
           c == [x \in C |-> w[x]]
           d == [x \in {} |-> w[x]]
<1>1. IsFiniteSet({}) /\ IsFiniteSet(C) /\ IsFiniteSet(B) /\ IsFiniteSet(A) /\ IsFiniteSet(Parts)
  <2>1. IsFiniteSet({})
    BY FS_EmptySet
  <2>2. IsFiniteSet({} \cup {"write"})
    BY <2>1, FS_AddElement
  <2>3. IsFiniteSet(({} \cup {"write"}) \cup {"read"})
    BY <2>2, FS_AddElement
  <2>4. IsFiniteSet((({} \cup {"write"}) \cup {"read"}) \cup {"output"})
    BY <2>3, FS_AddElement
  <2>5. IsFiniteSet(((({} \cup {"write"}) \cup {"read"}) \cup {"output"}) \cup {"input"})
    BY <2>4, FS_AddElement
  <2>6. /\ {} \cup {"write"} = C /\ ({} \cup {"write"}) \cup {"read"} = B
        /\ (({} \cup {"write"}) \cup {"read"}) \cup {"output"} = A
        /\ ((({} \cup {"write"}) \cup {"read"}) \cup {"output"}) \cup {"input"} = Parts
    BY DEF Parts
  <2> QED
    BY <2>1, <2>2, <2>3, <2>4, <2>5, <2>6
<1>2. /\ Parts \ {"input"} = A /\ A \ {"output"} = B /\ B \ {"read"} = C /\ C \ {"write"} = {}
      /\ "input" \in Parts /\ "output" \in A /\ "read" \in B /\ "write" \in C
      /\ A \subseteq Parts /\ B \subseteq Parts /\ C \subseteq Parts
  BY DEF Parts
<1>3. /\ a \in [A -> Nat] /\ b \in [B -> Nat] /\ c \in [C -> Nat] /\ d \in [{} -> Nat]
      /\ \A x \in A : a[x] = w[x]
      /\ \A x \in B : b[x] = w[x] /\ b[x] = a[x]
      /\ \A x \in C : c[x] = w[x] /\ c[x] = b[x]
      /\ DOMAIN d = {}
  BY <1>2
<1> HIDE DEF A, B, C, a, b, c, d
<1>4. Total(w) = w["input"] + Total(a)
  <2>1. /\ w \in [Parts -> Nat] /\ "input" \in Parts /\ a \in [Parts \ {"input"} -> Nat]
        /\ \A y \in Parts \ {"input"} : a[y] = w[y]
    BY <1>2, <1>3
  <2>2. IsFiniteSet(Parts)
    BY <1>1
  <2> QED
    BY <2>1, <2>2, TotalTake
<1>5. Total(a) = a["output"] + Total(b)
  <2>1. /\ a \in [A -> Nat] /\ "output" \in A /\ b \in [A \ {"output"} -> Nat]
        /\ \A y \in A \ {"output"} : b[y] = a[y]
    BY <1>2, <1>3
  <2>2. IsFiniteSet(A)
    BY <1>1
  <2> QED
    BY <2>1, <2>2, TotalTake
<1>6. Total(b) = b["read"] + Total(c)
  <2>1. /\ b \in [B -> Nat] /\ "read" \in B /\ c \in [B \ {"read"} -> Nat]
        /\ \A y \in B \ {"read"} : c[y] = b[y]
    BY <1>2, <1>3
  <2>2. IsFiniteSet(B)
    BY <1>1
  <2> QED
    BY <2>1, <2>2, TotalTake
<1>7. Total(c) = c["write"] + Total(d)
  <2>1. /\ c \in [C -> Nat] /\ "write" \in C /\ d \in [C \ {"write"} -> Nat]
        /\ \A y \in C \ {"write"} : d[y] = c[y]
    BY <1>2, <1>3
  <2>2. IsFiniteSet(C)
    BY <1>1
  <2> QED
    BY <2>1, <2>2, TotalTake
<1>8. Total(d) = 0
  BY <1>3, TotalEmpty
<1>9. /\ a["output"] = w["output"] /\ b["read"] = w["read"] /\ c["write"] = w["write"]
      /\ w["input"] \in Nat /\ w["output"] \in Nat /\ w["read"] \in Nat /\ w["write"] \in Nat
  BY <1>2, <1>3
<1> QED
  BY <1>4, <1>5, <1>6, <1>7, <1>8, <1>9

(* The known subtotal of a usage is what its parts count for.              *)
LEMMA SubtotalIs ==
  ASSUME NEW usage \in Usage
  PROVE  KnownSubtotal(usage) = OfParts(usage)
<1> DEFINE w == [f \in Parts |-> Counted(usage, f)]
           A == Parts \cap Known(usage)
<1>1. w \in [Parts -> Nat] /\ A \in SUBSET Parts
  BY CountedType DEF Fields
<1>2. \A x \in Parts \ A : w[x] = 0
  BY DEF Counted, Known, Usage, Fields
<1>3. [f \in A |-> w[f]] = [f \in A |-> usage[f]]
  BY DEF Counted, Known, Usage, Fields
<1>4. w["input"] = Counted(usage, "input") /\ w["output"] = Counted(usage, "output")
      /\ w["read"] = Counted(usage, "read") /\ w["write"] = Counted(usage, "write")
  BY DEF Parts
<1>5. KnownSubtotal(usage) = Total([f \in A |-> w[f]])
  BY <1>3 DEF KnownSubtotal
<1> HIDE DEF w, A
<1>6. Total([f \in A |-> w[f]]) = Total(w)
  BY <1>1, <1>2, PartsFinite, TotalOfWeighted
<1>7. Total(w) = ((w["input"] + w["output"]) + w["read"]) + w["write"]
  BY <1>1, FourParts
<1> QED
  BY <1>4, <1>5, <1>6, <1>7 DEF OfParts

(* A usage that is not known at all, or whose total is that of its parts.  *)
Even(usage) ==
  /\ usage \in Usage
  /\ \/ usage = Unknown
     \/ /\ usage["input"] # None /\ usage["output"] # None /\ usage["total"] # None
        /\ usage["total"] = OfParts(usage)

(* What deriveTurnTokenUsage finds in a turn has a total.                  *)
TurnUsage == {u \in Usage : {"input", "output", "total"} \subseteq Known(u)}

(* What is not known counts for nothing.                                   *)
LEMMA UnknownIs ==
  Unknown \in Usage /\ \A f \in Fields : Counted(Unknown, f) = 0 /\ Unknown[f] = None
BY DEF Unknown, Usage, Counted

(* The parts count for a number.                                           *)
LEMMA OfPartsType == \A usage \in Usage : OfParts(usage) \in Nat
<1> TAKE usage \in Usage
<1>1. /\ Counted(usage, "input") \in Nat /\ Counted(usage, "output") \in Nat
      /\ Counted(usage, "read") \in Nat /\ Counted(usage, "write") \in Nat
  BY CountedType DEF Fields, Parts
<1> QED
  BY <1>1 DEF OfParts

(* The usage of a turn is such.                                            *)
LEMMA TurnIsEven ==
  ASSUME NEW usage \in TurnUsage \cup {None}, usage # None => Balanced(usage)
  PROVE  Even(addUsage(usage))
<1>1. CASE usage = None
  BY <1>1, UnknownIs DEF addUsage, Even
<1>2. CASE usage # None
  <2>1. /\ usage \in Usage /\ {"input", "output", "total"} \subseteq Known(usage)
        /\ addUsage(usage) = usage
    BY <1>2 DEF TurnUsage, addUsage
  <2>2. usage["input"] # None /\ usage["output"] # None /\ usage["total"] # None
    BY <2>1 DEF Known
  <2>3. usage["total"] = KnownSubtotal(usage)
    BY <1>2, <2>1, <2>2 DEF Balanced
  <2> QED
    BY <2>1, <2>2, <2>3, SubtotalIs DEF Even
<1> QED
  BY <1>1, <1>2

(* What is taken of the usage of a compaction is such.                     *)
LEMMA CompactionIsEven ==
  ASSUME NEW usage \in Usage, Balanced(usage)
  PROVE  Even(addCompactionUsage(usage))
<1>1. CASE ~({"input", "output"} \subseteq Known(usage))
  BY <1>1, UnknownIs DEF addCompactionUsage, Even
<1>2. CASE {"input", "output"} \subseteq Known(usage)
  <2> DEFINE s == KnownSubtotal(usage)
             v == [usage EXCEPT !["total"] = s]
  <2>1. s \in Nat /\ s = OfParts(usage) /\ s # None /\ s >= s
    BY SubtotalIs, OfPartsType, CountsAssumption
  <2>2. addCompactionUsage(usage) = v
    <3> HIDE DEF s
    <3>1. CASE usage["total"] = s
      BY <1>2, <2>1, <3>1 DEF addCompactionUsage, s
    <3>2. CASE usage["total"] # s
      <4>1. usage["total"] = None /\ Parts \subseteq Known(usage)
        BY <1>2, <3>2 DEF Balanced, s
      <4> QED
        BY <1>2, <4>1 DEF addCompactionUsage, s
    <3> QED
      BY <3>1, <3>2
  <2>3. /\ v \in Usage /\ v["total"] = s
        /\ v["input"] = usage["input"] /\ v["output"] = usage["output"]
        /\ v["read"] = usage["read"] /\ v["write"] = usage["write"]
    BY <2>1 DEF Usage, Fields, Parts
  <2>4. usage["input"] # None /\ usage["output"] # None
    BY <1>2 DEF Known
  <2> HIDE DEF s, v
  <2>5. OfParts(v) = OfParts(usage)
    BY <2>3 DEF OfParts, Counted
  <2> QED
    BY <2>1, <2>2, <2>3, <2>4, <2>5 DEF Even
<1> QED
  BY <1>1, <1>2

(* Its total counts what its parts do.                                     *)
LEMMA EvenCounts ==
  ASSUME NEW usage, Even(usage)
  PROVE  /\ Counted(usage, "total") = OfParts(usage)
         /\ usage["input"] # None => usage["total"] # None
<1>1. CASE usage = Unknown
  <2>1. \A f \in Fields : Counted(usage, f) = 0 /\ usage[f] = None
    BY <1>1, UnknownIs
  <2>2. "total" \in Fields /\ "input" \in Fields /\ "output" \in Fields /\ "read" \in Fields /\ "write" \in Fields
    BY DEF Fields, Parts
  <2> QED
    BY <2>1, <2>2 DEF OfParts
<1>2. CASE usage # Unknown
  BY <1>2 DEF Even, Counted
<1> QED
  BY <1>1, <1>2

(* Finitely many windows of a log, each with an even usage.                *)
Windows(D, usages) == IsFiniteSet(D) /\ usages \in [D -> Usage] /\ \A n \in D : Even(usages[n])

(* What each of them counts for in a field.                                *)
Weights(D, usages, f) == [n \in D |-> Counted(usages[n], f)]

(* These are numbers with a sum.                                           *)
LEMMA WeightsType ==
  ASSUME NEW D, NEW usages, Windows(D, usages)
  PROVE  \A f \in Fields : Weights(D, usages, f) \in [D -> Nat] /\ Total(Weights(D, usages, f)) \in Nat
<1> TAKE f \in Fields
<1>1. Weights(D, usages, f) \in [D -> Nat]
  BY CountedType DEF Weights, Windows
<1> QED
  BY <1>1, TotalType DEF Windows

(* The evidence of a dimension is the sum of what is known of it.          *)
LEMMA EvidenceIs ==
  ASSUME NEW D, NEW usages, Windows(D, usages), NEW f \in Fields, NEW incomplete,
         NEW value, value = tokenEvidence(usages, f, incomplete).value
  PROVE  /\ value \in Nat \cup {None}
         /\ value = None <=> \A n \in D : usages[n][f] = None
         /\ (IF value = None THEN 0 ELSE value) = Total(Weights(D, usages, f))
<1> DEFINE reported == {n \in D : usages[n][f] # None}
           w == Weights(D, usages, f)
           p == [n \in reported |-> w[n]]
<1>1. DOMAIN usages = D
  BY DEF Windows
<1>2. w \in [D -> Nat] /\ IsFiniteSet(D) /\ Total(w) \in Nat
  BY WeightsType DEF Windows
<1>3. \A n \in D \ reported : w[n] = 0
  BY DEF Weights, Counted
<1>4. p = [n \in reported |-> usages[n][f]]
  BY DEF Weights, Counted
<1>5. Total(p) = Total(w)
  <2> HIDE DEF w
  <2>1. reported \in SUBSET D
    OBVIOUS
  <2> HIDE DEF reported
  <2> QED
    BY <1>2, <1>3, <2>1, TotalOfWeighted
<1>6. value = IF reported = {} THEN None ELSE Total([n \in reported |-> usages[n][f]])
  BY <1>1 DEF tokenEvidence
<1>7. CASE reported = {}
  <2>1. value = None /\ \A n \in D : usages[n][f] = None
    BY <1>6, <1>7
  <2>2. \A n \in D : w[n] <= 0
    BY <1>2, <1>3, <1>7
  <2>3. Total(w) <= 0 * Cardinality(D) /\ Cardinality(D) \in Nat
    <3> HIDE DEF w
    <3> QED
      BY <1>2, <2>2, TotalBound, FS_CardinalityType
  <2>4. Total(w) = 0
    <3> HIDE DEF w
    <3> QED
      BY <1>2, <2>3
  <2> QED
    BY <2>1, <2>4
<1>8. CASE reported # {}
  <2>1. value = Total(w)
    BY <1>4, <1>5, <1>6, <1>8
  <2>2. value \in Nat /\ value # None
    BY <1>2, <2>1, CountsAssumption
  <2> QED
    BY <1>8, <2>1, <2>2
<1> QED
  BY <1>7, <1>8

(* The total of the totals is that of the parts.                           *)
LEMMA TotalsOfParts ==
  ASSUME NEW D, NEW usages, Windows(D, usages)
  PROVE  Total(Weights(D, usages, "total")) =
           ((Total(Weights(D, usages, "input")) + Total(Weights(D, usages, "output")))
             + Total(Weights(D, usages, "read"))) + Total(Weights(D, usages, "write"))
<1> DEFINE i == Weights(D, usages, "input")
           o == Weights(D, usages, "output")
           r == Weights(D, usages, "read")
           w == Weights(D, usages, "write")
           io == [n \in D |-> i[n] + o[n]]
           ior == [n \in D |-> io[n] + r[n]]
           all == [n \in D |-> ior[n] + w[n]]
<1>1. i \in [D -> Nat] /\ o \in [D -> Nat] /\ r \in [D -> Nat] /\ w \in [D -> Nat] /\ IsFiniteSet(D)
  BY WeightsType DEF Fields, Parts, Windows
<1>2. all = Weights(D, usages, "total")
  <2>1. \A n \in D : all[n] = OfParts(usages[n])
    BY DEF Weights, OfParts
  <2>2. \A n \in D : Counted(usages[n], "total") = OfParts(usages[n])
    BY EvenCounts DEF Windows
  <2>3. all = [n \in D |-> all[n]]
    OBVIOUS
  <2> HIDE DEF all
  <2> QED
    BY <2>1, <2>2, <2>3 DEF Weights
<1> HIDE DEF i, o, r, w
<1>3. io \in [D -> Nat] /\ Total(io) = Total(i) + Total(o)
  BY <1>1, TotalAdds
<1> HIDE DEF io
<1>4. ior \in [D -> Nat] /\ Total(ior) = Total(io) + Total(r)
  BY <1>1, <1>3, TotalAdds
<1> HIDE DEF ior
<1>5. Total(all) = Total(ior) + Total(w)
  BY <1>1, <1>4, TotalAdds
<1> QED
  BY <1>2, <1>3, <1>4, <1>5 DEF i, o, r, w

(* The sample of such windows passes the check of the feed.                *)
LEMMA SampleOfWindowsAgrees ==
  ASSUME NEW D, NEW usages, Windows(D, usages), NEW incomplete,
         NEW sample, sample = [f \in Fields |-> tokenEvidence(usages, f, incomplete)]
  PROVE  SampleAgrees(sample)
<1> DEFINE value == [f \in Fields |-> sample[f].value]
           T(f) == Total(Weights(D, usages, f))
<1>1. ASSUME NEW f \in Fields
      PROVE  /\ value[f] \in Nat \cup {None}
             /\ value[f] = None <=> \A n \in D : usages[n][f] = None
             /\ Counted(value, f) = T(f)
  <2> DEFINE v == tokenEvidence(usages, f, incomplete).value
  <2>1. /\ v \in Nat \cup {None}
        /\ v = None <=> \A n \in D : usages[n][f] = None
        /\ (IF v = None THEN 0 ELSE v) = T(f)
    BY EvidenceIs
  <2>2. value[f] = v
    OBVIOUS
  <2> HIDE DEF value, v, T
  <2> QED
    BY <2>1, <2>2 DEF Counted
<1>2. value \in Usage
  BY <1>1 DEF Usage
<1> HIDE DEF value, T
<1>3. /\ "total" \in Fields /\ "input" \in Fields /\ "output" \in Fields
      /\ "read" \in Fields /\ "write" \in Fields /\ "input" \in Parts
  BY DEF Fields, Parts
<1>4. Counted(value, "total") = OfParts(value)
  <2>1. T("total") = ((T("input") + T("output")) + T("read")) + T("write")
    BY TotalsOfParts DEF T
  <2> QED
    BY <1>1, <1>3, <2>1 DEF OfParts
<1>5. KnownSubtotal(value) = OfParts(value) /\ OfParts(value) \in Nat
  BY <1>2, SubtotalIs, OfPartsType
<1>6. value["total"] # None => value["total"] = KnownSubtotal(value) /\ value["total"] >= KnownSubtotal(value)
  <2>1. value["total"] # None => value["total"] = OfParts(value)
    BY <1>4 DEF Counted
  <2> QED
    BY <1>5, <2>1
<1>7. value["input"] # None => value["total"] # None
  <2>1. SUFFICES ASSUME value["input"] # None PROVE value["total"] # None
    OBVIOUS
  <2>2. PICK n \in D : usages[n]["input"] # None
    BY <1>1, <1>3, <2>1
  <2>3. usages[n]["total"] # None
    BY <2>2, EvenCounts DEF Windows
  <2> QED
    BY <1>1, <1>3, <2>3
<1>8. Parts \subseteq Known(value) => value["input"] # None
  BY <1>3 DEF Known
<1>9. /\ value["total"] # None => value["total"] >= KnownSubtotal(value)
      /\ Parts \subseteq Known(value) => value["total"] = KnownSubtotal(value)
  BY <1>6, <1>7, <1>8
<1> QED
  BY <1>9 DEF SampleAgrees, value

(* The logs of Sessions, of any length.                                    *)
LogEvent ==
  [type : {"start"}, turn : Nat, usage : {None}]
    \cup [type : {"end"}, turn : Nat, usage : TurnUsage \cup {None}]
    \cup [type : {"summary"}, turn : Nat, usage : Usage \cup {None}]

SessionLogs == UNION {[1..n -> LogEvent] : n \in Nat}

(* The sample of the log of any Session whose usages are balanced passes   *)
(* the check of the feed, for any number of turns and compactions that are *)
(* closed, left open, or without usage.                                    *)
THEOREM SamplesOfSessionsAgree == \A Logs \in SUBSET SessionLogs : SamplesAgree(Logs)
<1>1. SUFFICES ASSUME NEW events \in SessionLogs,
                      \A n \in DOMAIN events : events[n].usage # None => Balanced(events[n].usage)
               PROVE  SampleAgrees(sessionTokenSample(events))
  BY DEF SamplesAgree
<1> DEFINE turns == completeTurns(events)
           summaries == {n \in DOMAIN events : events[n].type = "summary" /\ events[n].usage # None}
           D == turns.windows \cup summaries
           usages == [n \in D |-> IF n \in summaries THEN addCompactionUsage(events[n].usage)
                                  ELSE addUsage(events[n].usage)]
<1>2. PICK length \in Nat : events \in [1..length -> LogEvent]
  BY DEF SessionLogs
<1>3. D \subseteq 1..length /\ \A n \in turns.windows : events[n].type = "end"
  BY <1>2 DEF completeTurns, Closes
<1>4. IsFiniteSet(D)
  <2> HIDE DEF D
  <2>1. IsFiniteSet(1..length)
    BY FS_Interval
  <2> QED
    BY <1>3, <2>1, FS_Subset
<1>5. \A n \in D : Even(usages[n])
  <2> TAKE n \in D
  <2>1. events[n] \in LogEvent
    BY <1>2, <1>3
  <2>2. events[n].usage # None => Balanced(events[n].usage)
    BY <1>1, <1>2, <1>3
  <2> DEFINE u == events[n].usage
  <2>3. CASE n \in summaries
    <3>1. u \in Usage /\ Balanced(u)
      BY <2>1, <2>2, <2>3 DEF LogEvent
    <3>2. usages[n] = addCompactionUsage(u)
      BY <2>3
    <3> HIDE DEF usages, u
    <3> QED
      BY <3>1, <3>2, CompactionIsEven
  <2>4. CASE n \notin summaries
    <3>1. events[n].type = "end"
      BY <1>3, <2>4
    <3>2. u \in TurnUsage \cup {None} /\ (u # None => Balanced(u))
      BY <2>1, <2>2, <3>1 DEF LogEvent
    <3>3. usages[n] = addUsage(u)
      BY <2>4
    <3> HIDE DEF usages, u
    <3> QED
      BY <3>2, <3>3, TurnIsEven
  <2> QED
    BY <2>3, <2>4
<1>6. Windows(D, usages)
  <2>1. usages = [n \in D |-> usages[n]]
    OBVIOUS
  <2> HIDE DEF usages, D
  <2>2. usages \in [D -> Usage]
    BY <1>5, <2>1 DEF Even
  <2> QED
    BY <1>4, <1>5, <2>2 DEF Windows
<1>7. sessionTokenSample(events) = [f \in Fields |-> tokenEvidence(usages, f, turns.incomplete)]
  BY DEF sessionTokenSample
<1> HIDE DEF usages, D, turns
<1> QED
  BY <1>6, <1>7, SampleOfWindowsAgrees

(* What is known of a field of a row.                                      *)
Evidence ==
  [status : {"reported", "provisional"}, value : Nat] \cup [status : {"unavailable"}, value : {None}]

(* The total of one field over the rows of a receipt.                      *)
LEMMA FieldTotalIs ==
  ASSUME NEW S, IsFiniteSet(S), NEW samples \in [S -> [Fields -> Evidence]],
         NEW f \in Fields, NEW n \in Nat, NEW t \in Nat,
         NEW total, total = aggregateTokenField(samples, f, n, t)
  PROVE  /\ total.value = None <=> total.coverage.status = "unavailable"
         /\ total.coverage.status = "complete" <=>
              n + t = 0 /\ \A c \in S : samples[c][f].status = "reported"
<1> DEFINE with(status) == {c \in S : samples[c][f].status = status}
           counted == with("reported") \cup with("provisional")
           r == Cardinality(with("reported"))
           p == Cardinality(with("provisional"))
           u == Cardinality(with("unavailable"))
           w == [c \in counted |-> samples[c][f].value]
<1>1. \A c \in S : samples[c][f] \in Evidence
  OBVIOUS
<1>2. \A c \in S : c \in counted \/ c \in with("unavailable")
  BY <1>1 DEF Evidence
<1>3. /\ IsFiniteSet(with("reported")) /\ IsFiniteSet(with("provisional"))
      /\ IsFiniteSet(with("unavailable")) /\ IsFiniteSet(counted)
  BY FS_Subset
<1>4. r \in Nat /\ p \in Nat /\ u \in Nat /\ Cardinality(S) \in Nat
  BY <1>3, FS_CardinalityType
<1>5. /\ r = 0 <=> with("reported") = {}
      /\ p = 0 <=> with("provisional") = {}
      /\ u = 0 <=> with("unavailable") = {}
      /\ Cardinality(S) = 0 <=> S = {}
  BY <1>3, FS_EmptySet
<1>6. Total(w) \in Nat
  <2>1. w \in [counted -> Nat]
    BY <1>1 DEF Evidence
  <2> HIDE DEF w, counted
  <2> QED
    BY <1>3, <2>1, TotalType
<1>7. DOMAIN samples = S
  OBVIOUS
<1>8. /\ total.value = IF counted = {} /\ Cardinality(S) + n + t > 0 THEN None ELSE Total(w)
      /\ total.coverage = coverage(r, p, u + n, t)
  BY <1>7 DEF aggregateTokenField
<1>9. total.coverage.status = IF p + (u + n) + t = 0 THEN "complete"
                              ELSE IF r + p = 0 THEN "unavailable" ELSE "partial"
  BY <1>8 DEF coverage
<1>10. counted = {} <=> r + p = 0
  BY <1>4, <1>5
<1>11. p + (u + n) + t = 0 <=> p = 0 /\ u = 0 /\ n + t = 0
  BY <1>4
<1>12. p = 0 /\ u = 0 <=> \A c \in S : samples[c][f].status = "reported"
  BY <1>2, <1>5
<1>13. total.coverage.status = "complete" <=>
         n + t = 0 /\ \A c \in S : samples[c][f].status = "reported"
  BY <1>9, <1>11, <1>12
<1>14. counted = {} /\ p + (u + n) + t # 0 <=> counted = {} /\ Cardinality(S) + n + t > 0
  <2>1. counted = {} => (with("unavailable") = S /\ p = 0)
    BY <1>2, <1>5
  <2> HIDE DEF counted, p
  <2>2. counted = {} => u = Cardinality(S) /\ p = 0
    BY <2>1
  <2> HIDE DEF u
  <2> QED
    BY <1>4, <2>2
<1>15. total.value = None <=> counted = {} /\ Cardinality(S) + n + t > 0
  BY <1>6, <1>8, CountsAssumption
<1>16. total.coverage.status = "unavailable" <=> counted = {} /\ p + (u + n) + t # 0
  BY <1>9, <1>10
<1> QED
  BY <1>13, <1>14, <1>15, <1>16

(* Nothing is known of a field exactly when its total is null, and an      *)
(* account is complete only when every row reported every field, for any   *)
(* number of rows, of participants that could not be observed and of rows  *)
(* that were left out.                                                     *)
THEOREM AccountsOfReceiptsAgree ==
  \A Members : IsFiniteSet(Members) => AccountsAgree(Members, [Fields -> Evidence], Nat)
<1>1. SUFFICES ASSUME NEW Members, IsFiniteSet(Members), NEW samples \in [Members -> [Fields -> Evidence]],
                      NEW n \in Nat, NEW t \in Nat, NEW account, account = tokenAccount(samples, n, t)
               PROVE  /\ \A f \in Fields : account.totals[f].value = None
                                             <=> account.totals[f].coverage.status = "unavailable"
                      /\ account.coverage = "complete" <=>
                           n + t = 0 /\ \A c \in Members, f \in Fields : samples[c][f].status = "reported"
  BY DEF AccountsAgree
<1> DEFINE total(f) == aggregateTokenField(samples, f, n, t)
<1>2. \A f \in Fields :
        /\ total(f).value = None <=> total(f).coverage.status = "unavailable"
        /\ total(f).coverage.status = "complete" <=>
             n + t = 0 /\ \A c \in Members : samples[c][f].status = "reported"
  <2> TAKE f \in Fields
  <2> QED
    BY <1>1, FieldTotalIs
<1>3. \A f \in Fields : account.totals[f] = total(f)
  BY <1>1 DEF tokenAccount
<1>4. account.coverage = "complete" <=> \A f \in Fields : account.totals[f].coverage.status = "complete"
  BY <1>1 DEF tokenAccount
<1> HIDE DEF total
<1>5. "total" \in Fields
  BY DEF Fields
<1> QED
  BY <1>2, <1>3, <1>4, <1>5

============================================================================
