---------------------------- MODULE JournalHistory ----------------------------
(***************************************************************************)
(* The journal with two history variables: what the records themselves     *)
(* forget, and what a retry limit or a lease check relies on nevertheless. *)
(***************************************************************************)
EXTENDS LegionJournal

VARIABLES
  requeues,   \* how often each mail went from reserved back to queued
  highFence   \* the highest fence the run record ever carried

historyVars == <<vars, requeues, highFence>>

HistoryInit == Init /\ requeues = [m \in Mails |-> 0] /\ highFence = 0

(* A step of the journal takes mail m back from its reservation.           *)
TakenBack(m) ==
  mail[m] # None /\ mail[m].status = "reserved" /\ mail'[m].status = "queued"

Remember ==
  /\ requeues' = [m \in Mails |-> requeues[m] + IF TakenBack(m) THEN 1 ELSE 0]
  /\ highFence' = IF run'.fence # None /\ run'.fence > highFence
                  THEN run'.fence ELSE highFence

HistorySpec == HistoryInit /\ [][Next /\ Remember]_historyVars

(* However often the lease changes hands, the reclaim count of a mail      *)
(* tells at least how often it was taken back from a reservation, so a     *)
(* retry limit on it cannot be undercut (invariant.ts:118-119).            *)
ReclaimCountCoversRequeues ==
  \A m \in Mails : mail[m] # None => mail[m].reclaimCount >= requeues[m]

(* "run fence cannot decrease" (invariant.ts:51): whatever fence the run   *)
(* record carries is at least every fence it carried before.               *)
FenceNeverDecreases ==
  run # None /\ run.fence # None => run.fence >= highFence

===============================================================================
