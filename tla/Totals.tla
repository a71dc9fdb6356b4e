-------------------------------- MODULE Totals --------------------------------
(***************************************************************************)
(* The sums and maxima that the limits of a run are about: how many agents *)
(* the tasks of a graph ask for, how many members a Cohort may have, how   *)
(* many bytes the outcomes of an activation have, the widest stage of a    *)
(* Strategy.                                                               *)
(***************************************************************************)
EXTENDS Naturals

(* The sum of a function's values.                                         *)
Total(w) ==
  LET sum[T \in SUBSET DOMAIN w] ==
        IF T = {} THEN 0
        ELSE LET x == CHOOSE x \in T : TRUE IN w[x] + sum[T \ {x}]
  IN sum[DOMAIN w]

(* The largest of some numbers, 0 when there are none.                     *)
Largest(S) == IF S = {} THEN 0 ELSE CHOOSE x \in S : \A y \in S : y <= x

===============================================================================
