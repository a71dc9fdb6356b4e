--------------------------- MODULE MCLegionJournal ---------------------------
(***************************************************************************)
(* Bounded instance of the journal and its history.  The guards of the     *)
(* plan, mail, attempt, continuation, milestone and decision families read *)
(* the run, the tasks and their own records only, never each other's, so   *)
(* one behaviour uses at most one of these families (milestones and        *)
(* decisions together) and the state space is a sum, not a product.        *)
(***************************************************************************)
EXTENDS JournalHistory, TLC

(* None of the families named has been used.                               *)
NoRecords(families) == \A family \in families : \A k \in DOMAIN family : family[k] = None
NoReceipts == milestones = <<>> /\ decisions = <<>>

(* Tasks differ by their name only.                                      *)
TaskSymmetry == Permutations(Tasks)

MCNext ==
  /\ \/ RunEvent
     \/ TaskEvent
     \/ NoReceipts /\ NoRecords({mail, attempts, continuations}) /\ PlanEvent
     \/ NoReceipts /\ NoRecords({plans, attempts, continuations}) /\ MailEvent
     \/ NoReceipts /\ NoRecords({plans, mail, continuations}) /\ AttemptEvent
     \/ NoReceipts /\ NoRecords({plans, mail, attempts}) /\ ContinuationEvent
     \/ NoRecords({plans, mail, attempts, continuations})
        /\ (MilestoneEvent \/ DecisionEvent)
  /\ Remember

MCSpec == HistoryInit /\ [][MCNext]_historyVars

==============================================================================
