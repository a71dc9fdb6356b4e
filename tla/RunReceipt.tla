------------------------------- MODULE RunReceipt ------------------------------
(***************************************************************************)
(* The Run Receipt of a Cohort Run: how the run makes one                  *)
(* (src/src/run-receipt.ts) and what the feed requires of one and of its   *)
(* successor (types.ts and feed.ts of packages/run-receipt-feed).          *)
(*                                                                         *)
(* A row stands for a participant together with its token sample; times,   *)
(* names and labels are left out.                                          *)
(***************************************************************************)
EXTENDS Absence, Naturals, FiniteSets

CONSTANTS
  Parent,        \* the Session of the run
  StagesOf,      \* the stages of the plan: [stage -> [order, after, expectedChildren]]
  Seats          \* participantsPerReceipt

Statuses == {"pending", "completed", "degraded", "cancelled", "failed"}
Outcomes == {"running", "completed", "degraded", "cancelled", "failed"}

Stages == DOMAIN StagesOf

(* RunReceiptEvidenceCoverage: what is known of how many participants.     *)
coverage(reported, provisional, unavailable, truncated) ==
  [status |-> IF provisional + unavailable + truncated = 0 THEN "complete"
              ELSE IF reported + provisional = 0 THEN "unavailable" ELSE "partial",
   reported |-> reported, provisional |-> provisional,
   unavailable |-> unavailable, truncated |-> truncated]

NoObservation == [rows |-> {}, unavailable |-> 0, truncated |-> 0]

createRunReceipt(run) ==
  [run |-> run, outcome |-> "running", stages |-> [s \in Stages |-> "pending"],
   participation |-> NoObservation]

setRunReceiptObservation(receipt, observation) ==
  [receipt EXCEPT !.participation = observation]

CanSettle(receipt, stage) == stage \in Stages /\ receipt.stages[stage] = "pending"

settleRunReceiptStage(receipt, stage, status) ==
  [receipt EXCEPT !.stages[stage] = status]

finishRunReceipt(receipt, outcome) ==
  [receipt EXCEPT !.outcome = outcome,
     !.stages = IF outcome \in {"failed", "cancelled"}
                THEN [s \in Stages |-> IF @[s] = "pending" THEN "cancelled" ELSE @[s]]
                ELSE @]

participation(receipt) ==
  coverage(Cardinality(receipt.participation.rows), 0,
           receipt.participation.unavailable, receipt.participation.truncated)

------------------------------------------------------------------------------
(* What the feed requires of a receipt                                      *)

UniqueChildren(rows) == \A r, q \in rows : r.child = q.child => r = q

(* A row under the Session or under another row, of a stage of the plan.   *)
Referenced(row, rows) ==
  /\ row.parent \in {Parent} \cup {r.child : r \in rows}
  /\ row.stage \in Stages
  /\ row.depth = 1 => row.index < StagesOf[row.stage].expectedChildren

validateReferences(receipt) ==
  LET rows == receipt.participation.rows
  IN UniqueChildren(rows) /\ \A r \in rows : Referenced(r, rows)

validateStaticTransitions(receipt) ==
  /\ \A s \in Stages : receipt.stages[s] # "pending" =>
       \A d \in StagesOf[s].after : receipt.stages[d] # "pending"
  /\ receipt.outcome # "running" => \A s \in Stages : receipt.stages[s] # "pending"

(* Identity and binding of a participant stay, and it ends once.           *)
SameParticipant(row, next) ==
  /\ [next EXCEPT !.state = row.state, !.stop = row.stop] = row
  /\ row.state = "ended" => next.state = "ended"
  /\ row.stop # None => next.stop = row.stop

(* validateReplacement of feed.ts: the receipt only goes forward.          *)
validateReplacement(previous, next) ==
  /\ previous.run = next.run
  /\ previous.outcome # "running" => next.outcome = previous.outcome
  /\ \A s \in Stages :
       previous.stages[s] # "pending" => next.stages[s] = previous.stages[s]
  /\ \A r \in previous.participation.rows :
       \E n \in next.participation.rows : n.child = r.child /\ SameParticipant(r, n)

==============================================================================
