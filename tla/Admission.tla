------------------------------- MODULE Admission -------------------------------
(***************************************************************************)
(* The admission of child activations within one run                       *)
(* (src/src/durable-run/admission.ts), with what the metrics of the run    *)
(* make of it.  With a Host service the adapter asks the service instead   *)
(* and keeps nothing.                                                      *)
(*                                                                         *)
(* External, from the tests: the callers, who may release a reservation    *)
(* twice or one they never had, and who note when each was admitted and    *)
(* released.                                                               *)
(***************************************************************************)
EXTENDS RunReports, Totals, TLC

CONSTANTS
  MaxConcurrent,    \* the limit of the run
  Weights,          \* how many activations a request asks for
  MaxReservations,  \* bound: the number of reservations
  MaxClock          \* bound: the last time

(* Limits and weights are positive safe integers, or refused.              *)
ASSUME AdmissionAssumption ==
  /\ MaxConcurrent \in Nat /\ Weights \subseteq Nat \ {0}
  /\ MaxReservations \in Nat /\ MaxClock \in Nat

VARIABLES
  active,      \* the activations counted as running
  held,        \* reservation -> weight, of those not released
  sequence,    \* the number of the last reservation
  clock,
  admittedAt,  \* history: reservation -> when it was granted
  admissions   \* history: what the metrics are told of, released ones only

admissionVars == <<active, held, sequence, clock, admittedAt, admissions>>

AdmissionInit ==
  /\ active = 0 /\ held = <<>> /\ sequence = 0 /\ clock = 0
  /\ admittedAt = <<>> /\ admissions = <<>>

(* A request over the limit is denied and changes nothing.                 *)
Reserve(weight) ==
  /\ sequence < MaxReservations
  /\ active + weight <= MaxConcurrent
  /\ sequence' = sequence + 1
  /\ held' = [r \in DOMAIN held \cup {sequence + 1} |->
                IF r = sequence + 1 THEN weight ELSE held[r]]
  /\ active' = active + weight
  /\ admittedAt' = Append(admittedAt, clock)
  /\ UNCHANGED <<clock, admissions>>

(* Mutant of Release: a reservation is given back as often as asked.       *)
ReleaseAgain(id) ==
  /\ id \in 1..sequence
  /\ active' = IF active > 0 THEN active - 1 ELSE 0
  /\ held' = [r \in DOMAIN held \ {id} |-> held[r]]
  /\ UNCHANGED <<sequence, clock, admittedAt, admissions>>

(* Releasing what is not held does nothing.                                *)
Release(id) ==
  /\ id \in DOMAIN held
  /\ active' = active - held[id]
  /\ held' = [r \in DOMAIN held \ {id} |-> held[r]]
  /\ admissions' = Append(admissions, [admittedAt |-> admittedAt[id], releasedAt |-> clock])
  /\ UNCHANGED <<sequence, clock, admittedAt>>

AdmissionTick ==
  /\ clock < MaxClock /\ clock' = clock + 1
  /\ UNCHANGED <<active, held, sequence, admittedAt, admissions>>

AdmissionNext ==
  \/ \E weight \in Weights : Reserve(weight)
  \/ \E id \in 1..MaxReservations : Release(id)
  \/ AdmissionTick

AdmissionSpec == AdmissionInit /\ [][AdmissionNext]_admissionVars

-----------------------------------------------------------------------------
(* The count is what is held, within the limit, however reservations are   *)
(* released; and the parallelism that the metrics report of the admissions *)
(* never exceeds what was admitted at once.                                *)
AdmissionHolds ==
  /\ active = Total(held)
  /\ active <= MaxConcurrent
  /\ peak(admissions) <= MaxConcurrent

==============================================================================
