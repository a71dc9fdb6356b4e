--------------------------- MODULE CohortExecution ---------------------------
(***************************************************************************)
(* One Cohort Run: executeStrategyPlan (execution.ts) interprets a compiled *)
(* plan stage by stage through DSH child Sessions, each owned from          *)
(* admission to cleanup by settleChildRun (child-run.ts).                   *)
(*                                                                         *)
(* The run is single-threaded JavaScript: an action is the code between two *)
(* awaits, or one step of the Host.  Abort listeners run inside the abort,  *)
(* so whatever waits in observeWithAbort is decided there (seen), and its   *)
(* continuation runs later.                                                 *)
(*                                                                         *)
(* The compiler accepts a plan only when maxConcurrent covers its widest    *)
(* fan-out (orchestration.ts:699, 975-976), so a fan-out has one worker per  *)
(* member and every member is admitted when its stage starts.               *)
(***************************************************************************)
EXTENDS Naturals, FiniteSets

CONSTANTS
  Stages,       \* number of primitives of the plan
  Fanout,       \* which primitives are dsh-subagent-fanout
  Count,        \* members of each primitive, 1 for a dsh-delegate
  MinSuccess,   \* successes each primitive needs
  None

ASSUME PlanAssumption ==
  /\ Stages \in Nat \ {0}
  /\ Fanout \in [1..Stages -> BOOLEAN]
  /\ Count \in [1..Stages -> Nat \ {0}]
  /\ MinSuccess \in [1..Stages -> Nat \ {0}]
  /\ \A p \in 1..Stages : /\ MinSuccess[p] <= Count[p]
                          /\ ~Fanout[p] => Count[p] = 1

Outcomes == {"completed", "degraded", "cancelled", "failed"}
StageStatuses == {"pending", "completed", "degraded", "cancelled", "failed"}
Executions == {"completed", "failed", "cancelled"}

ASSUME NoneIsAbsent == None \notin Outcomes \cup
  {"aborted", "published", "rejected", "quiescent", "pending"}

Member == UNION {{p} \X (1..Count[p]) : p \in 1..Stages}
Of(p) == {p} \X (1..Count[p])

(* Where executeOne of a member stands.                                     *)
Awaiting == {"starting", "running"}
Settled == {"valued", "errored"}
Positions == {"idle", "preflight", "cleaning"} \cup Awaiting \cup Settled

(* The child as the Host keeps it.                                          *)
Hosted == {"absent", "requested", "refused", "live", "disposing", "gone", "stuck"}

VARIABLES
  main,          \* where executeStrategyPlan stands
  stage,         \* the primitive in execution, Stages + 1 after the last
  aborted,       \* deadline.signal: the parent's abort or the deadline timer
  stageAborted,  \* stageController of the fan-out in execution
  claimed,       \* TerminalArbiter
  failedMembers, \* failures the fan-out in execution counted
  marked,        \* members whose failure was counted
  member,        \* position of each member
  seen,          \* what the promise a member awaits was resolved with
  execution,     \* ChildExecution, fixed before cleanup
  child,         \* the member's child in the Host
  status,        \* stages of the Run Receipt
  outcome        \* kind of the outcome executeStrategyPlan returns

vars == <<main, stage, aborted, stageAborted, claimed, failedMembers, marked,
          member, seen, execution, child, status, outcome>>

fanoutVars == <<stageAborted, failedMembers, marked>>

TypeOK ==
  /\ main \in {"loop", "members", "finishing", "returned"}
  /\ stage \in 1..(Stages + 1)
  /\ aborted \in BOOLEAN
  /\ stageAborted \in BOOLEAN
  /\ claimed \in Outcomes \cup {None}
  /\ failedMembers \in Nat
  /\ marked \subseteq Member
  /\ member \in [Member -> Positions]
  /\ seen \in [Member -> {None, "aborted", "published", "rejected"} \cup Executions
                           \cup {"quiescent", "pending"}]
  /\ execution \in [Member -> Executions \cup {None}]
  /\ child \in [Member -> Hosted]
  /\ status \in [1..Stages -> StageStatuses]
  /\ outcome \in Outcomes \cup {None}

Init ==
  /\ main = "loop"
  /\ stage = 1
  /\ aborted = FALSE
  /\ stageAborted = FALSE
  /\ claimed = None
  /\ failedMembers = 0
  /\ marked = {}
  /\ member = [c \in Member |-> "idle"]
  /\ seen = [c \in Member |-> None]
  /\ execution = [c \in Member |-> None]
  /\ child = [c \in Member |-> "absent"]
  /\ status = [p \in 1..Stages |-> "pending"]
  /\ outcome = None

(* TerminalArbiter.claim: the first claim stands.                           *)
Claim(kind) == IF claimed = None THEN kind ELSE claimed

(* The signal a member of the stage is given.                               *)
Signal == IF Fanout[stage] THEN stageAborted ELSE aborted

(* The members an abort resolves in observeWithAbort.                       *)
Waiting(c) == member[c] \in Awaiting /\ seen[c] = None

Wake(s) == [c \in Member |-> IF Waiting(c) THEN "aborted" ELSE s[c]]

------------------------------------------------------------------------------
(* Failures of a member                                                     *)

(* What a member awaited is consumed, and its failure decides nothing.      *)
Report(c) ==
  /\ seen' = [seen EXCEPT ![c] = None]
  /\ UNCHANGED claimed

(* The terminal claim of markFailure, and the abort of the other members.   *)
AbortStage(c) ==
  /\ claimed' = Claim("failed")
  /\ stageAborted' = TRUE
  /\ seen' = Wake([seen EXCEPT ![c] = None])

(* Mutant of MarkFailure: a member counts whenever it reports.               *)
MarkFailureTwice(c) ==
  LET impossible == failedMembers + 1 > Count[stage] - MinSuccess[stage]
  IN  /\ marked' = marked \cup {c}
      /\ failedMembers' = failedMembers + 1
      /\ IF impossible THEN AbortStage(c)
                       ELSE Report(c) /\ UNCHANGED stageAborted

(* markFailure of a fan-out worker: a member counts once, and the count that *)
(* makes minSuccess impossible claims the terminal and aborts the stage.    *)
MarkFailure(c) ==
  LET impossible == failedMembers + 1 > Count[stage] - MinSuccess[stage]
  IN  IF c \in marked
        THEN Report(c) /\ UNCHANGED fanoutVars
        ELSE /\ marked' = marked \cup {c}
             /\ failedMembers' = failedMembers + 1
             /\ IF impossible THEN AbortStage(c)
                              ELSE Report(c) /\ UNCHANGED stageAborted

NoFailure(c) == Report(c) /\ UNCHANGED fanoutVars

(* onExecution of a failed execution.                                       *)
OnExecutionFailed(c) ==
  IF Fanout[stage]
    THEN MarkFailure(c)
    ELSE /\ claimed' = Claim("failed")
         /\ seen' = [seen EXCEPT ![c] = None]
         /\ UNCHANGED fanoutVars

(* executeOne throws: a worker marks the failure, a delegate only settles.  *)
OnError(c) ==
  IF Fanout[stage] THEN MarkFailure(c) ELSE NoFailure(c)

------------------------------------------------------------------------------
(* executeOne and settleChildRun                                            *)

(* Mutant of Start: the signal is not read after the preflight.              *)
StartAnyway(c) ==
  /\ member[c] = "preflight"
  /\ member' = [member EXCEPT ![c] = "starting"]
  /\ child' = [child EXCEPT ![c] = "requested"]
  /\ UNCHANGED <<main, stage, aborted, fanoutVars, claimed, seen, execution, status, outcome>>

(* The preflight succeeded and the signal is not aborted: start is called.  *)
Start(c) ==
  /\ member[c] = "preflight"
  /\ ~Signal
  /\ member' = [member EXCEPT ![c] = "starting"]
  /\ child' = [child EXCEPT ![c] = "requested"]
  /\ UNCHANGED <<main, stage, aborted, fanoutVars, claimed, seen, execution, status, outcome>>

(* The preflight failed, or settleChildRun finds the signal aborted.        *)
NotStarted(c) ==
  /\ member[c] = "preflight"
  /\ member' = [member EXCEPT ![c] = "errored"]
  /\ execution' = [execution EXCEPT ![c] = IF Signal THEN "cancelled" ELSE None]
  /\ OnError(c)
  /\ UNCHANGED <<main, stage, aborted, child, status, outcome>>

(* The abort came before the child was published: the member settles with   *)
(* cleanup pending, and a child already published meanwhile is disposed.    *)
AdmissionAborted(c) ==
  /\ member[c] = "starting"
  /\ seen[c] = "aborted"
  /\ member' = [member EXCEPT ![c] = "errored"]
  /\ execution' = [execution EXCEPT ![c] = "cancelled"]
  /\ child' = [child EXCEPT ![c] = IF @ = "live" THEN "disposing" ELSE @]
  /\ OnError(c)
  /\ UNCHANGED <<main, stage, aborted, status, outcome>>

AdmissionRejected(c) ==
  /\ member[c] = "starting"
  /\ seen[c] = "rejected"
  /\ member' = [member EXCEPT ![c] = "errored"]
  /\ execution' = [execution EXCEPT ![c] = "failed"]
  /\ OnExecutionFailed(c)
  /\ UNCHANGED <<main, stage, aborted, child, status, outcome>>

(* The child is published; observeWithAbort reads the signal again.         *)
AdmissionPublished(c) ==
  /\ member[c] = "starting"
  /\ seen[c] = "published"
  /\ member' = [member EXCEPT ![c] = "running"]
  /\ seen' = [seen EXCEPT ![c] = IF Signal THEN "aborted" ELSE None]
  /\ UNCHANGED <<main, stage, aborted, fanoutVars, claimed, execution, child, status, outcome>>

(* The execution is fixed and announced, then run.dispose is called.        *)
ExecutionSettles(c) ==
  /\ member[c] = "running"
  /\ seen[c] # None
  /\ LET kind == IF seen[c] = "aborted" THEN "cancelled" ELSE seen[c]
     IN  /\ execution' = [execution EXCEPT ![c] = kind]
         /\ IF kind = "failed" THEN OnExecutionFailed(c) ELSE NoFailure(c)
  /\ member' = [member EXCEPT ![c] = "cleaning"]
  /\ child' = [child EXCEPT ![c] = "disposing"]
  /\ UNCHANGED <<main, stage, aborted, status, outcome>>

(* The timer of beginCleanup: disposal takes longer than cleanupTimeoutMs.  *)
CleanupTimeout(c) ==
  /\ member[c] = "cleaning"
  /\ seen[c] = None
  /\ seen' = [seen EXCEPT ![c] = "pending"]
  /\ UNCHANGED <<main, stage, aborted, fanoutVars, claimed, member, execution, child,
                 status, outcome>>

(* A completed child that cleaned up yields its artifact value.             *)
Value(c) ==
  /\ member[c] = "cleaning"
  /\ seen[c] = "quiescent"
  /\ execution[c] = "completed"
  /\ member' = [member EXCEPT ![c] = "valued"]
  /\ NoFailure(c)
  /\ UNCHANGED <<main, stage, aborted, execution, child, status, outcome>>

(* Cleanup failed or is pending, the execution did not complete, or the     *)
(* result does not materialize as the artifact's contract.                  *)
Error(c) ==
  /\ member[c] = "cleaning"
  /\ seen[c] # None
  /\ member' = [member EXCEPT ![c] = "errored"]
  /\ OnError(c)
  /\ UNCHANGED <<main, stage, aborted, execution, child, status, outcome>>

------------------------------------------------------------------------------
(* executeStrategyPlan                                                      *)

(* Mutant of Catch: a late abort turns a failed run into a cancelled one.    *)
CatchAborted ==
  LET kind == IF aborted THEN "cancelled" ELSE "failed"
  IN  /\ outcome' = kind
      /\ claimed' = Claim(kind)
      /\ main' = "finishing"

(* The catch branch, and the finally block that ends the deadline.          *)
Catch ==
  LET kind == IF claimed = "cancelled" \/ (claimed = None /\ aborted)
                THEN "cancelled" ELSE "failed"
  IN  /\ outcome' = kind
      /\ claimed' = Claim(kind)
      /\ main' = "finishing"

(* throwIfAborted at the head of the loop.                                  *)
StopBeforeStage ==
  /\ main = "loop"
  /\ stage <= Stages
  /\ aborted
  /\ Catch
  /\ UNCHANGED <<stage, aborted, fanoutVars, member, seen, execution, child, status>>

StartStage ==
  /\ main = "loop"
  /\ stage <= Stages
  /\ ~aborted
  /\ main' = "members"
  /\ stageAborted' = FALSE
  /\ failedMembers' = 0
  /\ marked' = {}
  /\ member' = [c \in Member |-> IF c \in Of(stage) THEN "preflight" ELSE member[c]]
  /\ UNCHANGED <<stage, aborted, claimed, seen, execution, child, status, outcome>>

Valued(p) == {c \in Of(p) : member[c] = "valued"}
Errored(p) == {c \in Of(p) : member[c] = "errored"}

StageDone ==
  /\ main = "members"
  /\ \A c \in Of(stage) : member[c] \in Settled

(* Too few members have a value.                                            *)
StageFails ==
  /\ StageDone
  /\ Cardinality(Valued(stage)) < MinSuccess[stage]
  /\ status' = [status EXCEPT ![stage] = IF aborted THEN "cancelled" ELSE "failed"]
  /\ Catch
  /\ UNCHANGED <<stage, aborted, fanoutVars, member, seen, execution, child>>

(* The artifact would exceed maxOutputBytes.                                *)
StageOverflows ==
  /\ StageDone
  /\ Cardinality(Valued(stage)) >= MinSuccess[stage]
  /\ status' = [status EXCEPT ![stage] = "failed"]
  /\ Catch
  /\ UNCHANGED <<stage, aborted, fanoutVars, member, seen, execution, child>>

(* Mutant of StageSucceeds: tolerated failures do not degrade the stage.     *)
StageSucceedsWhole ==
  /\ StageDone
  /\ Cardinality(Valued(stage)) >= MinSuccess[stage]
  /\ status' = [status EXCEPT ![stage] = "completed"]
  /\ stage' = stage + 1
  /\ main' = "loop"
  /\ UNCHANGED <<aborted, fanoutVars, claimed, member, seen, execution, child, outcome>>

StageSucceeds ==
  /\ StageDone
  /\ Cardinality(Valued(stage)) >= MinSuccess[stage]
  /\ status' = [status EXCEPT ![stage] = IF Errored(stage) = {} THEN "completed"
                                         ELSE "degraded"]
  /\ stage' = stage + 1
  /\ main' = "loop"
  /\ UNCHANGED <<aborted, fanoutVars, claimed, member, seen, execution, child, outcome>>

(* All stages succeeded: the run ends as it claims, or as it was claimed.   *)
Complete ==
  /\ main = "loop"
  /\ stage = Stages + 1
  /\ LET kind == IF \E c \in Member : member[c] = "errored" THEN "degraded" ELSE "completed"
     IN  outcome' = Claim(kind) /\ claimed' = Claim(kind)
  /\ main' = "finishing"
  /\ UNCHANGED <<stage, aborted, fanoutVars, member, seen, execution, child, status>>

(* participation.finish settled; finishRunReceipt closes the receipt.       *)
Return ==
  /\ main = "finishing"
  /\ main' = "returned"
  /\ status' = [p \in 1..Stages |->
       IF outcome \in {"failed", "cancelled"} /\ status[p] = "pending"
         THEN "cancelled" ELSE status[p]]
  /\ UNCHANGED <<stage, aborted, fanoutVars, claimed, member, seen, execution, child, outcome>>

(* Mutant of Abort: what awaits a child does not hear of the abort.          *)
AbortUnheard ==
  /\ main \in {"loop", "members"}
  /\ ~aborted
  /\ aborted' = TRUE
  /\ claimed' = Claim("cancelled")
  /\ stageAborted' = IF main = "members" /\ Fanout[stage] THEN TRUE ELSE stageAborted
  /\ UNCHANGED <<main, stage, failedMembers, marked, member, seen, execution, child, status,
                 outcome>>

(* The parent aborts or the deadline passes: claimCancellation, then the    *)
(* stage's controller and every listener below it.  The finally block       *)
(* removes both sources.                                                    *)
Abort ==
  /\ main \in {"loop", "members"}
  /\ ~aborted
  /\ aborted' = TRUE
  /\ claimed' = Claim("cancelled")
  /\ stageAborted' = IF main = "members" /\ Fanout[stage] THEN TRUE ELSE stageAborted
  /\ seen' = Wake(seen)
  /\ UNCHANGED <<main, stage, failedMembers, marked, member, execution, child, status, outcome>>

------------------------------------------------------------------------------
(* The Host's subagent runtime: it may ignore an abort, and it owes no       *)
(* answer to a start, a run or a disposal.                                  *)

(* Mutant of ChildPublished: a late publication finds nobody.                *)
ChildPublishedUnowned(c) ==
  /\ child[c] = "requested"
  /\ child' = [child EXCEPT ![c] = "live"]
  /\ seen' = [seen EXCEPT ![c] = IF Waiting(c) THEN "published" ELSE @]
  /\ UNCHANGED <<main, stage, aborted, fanoutVars, claimed, member, execution, status, outcome>>

(* A child published after its admission was given up is disposed at once.  *)
ChildPublished(c) ==
  /\ child[c] = "requested"
  /\ child' = [child EXCEPT ![c] = IF member[c] = "starting" THEN "live" ELSE "disposing"]
  /\ seen' = [seen EXCEPT ![c] = IF Waiting(c) THEN "published" ELSE @]
  /\ UNCHANGED <<main, stage, aborted, fanoutVars, claimed, member, execution, status, outcome>>

ChildRefused(c) ==
  /\ child[c] = "requested"
  /\ child' = [child EXCEPT ![c] = "refused"]
  /\ seen' = [seen EXCEPT ![c] = IF Waiting(c) THEN "rejected" ELSE @]
  /\ UNCHANGED <<main, stage, aborted, fanoutVars, claimed, member, execution, status, outcome>>

ChildResult(c, kind) ==
  /\ member[c] = "running"
  /\ Waiting(c)
  /\ seen' = [seen EXCEPT ![c] = kind]
  /\ UNCHANGED <<main, stage, aborted, fanoutVars, claimed, member, execution, child,
                 status, outcome>>

ChildDisposed(c) ==
  /\ child[c] = "disposing"
  /\ child' = [child EXCEPT ![c] = "gone"]
  /\ seen' = [seen EXCEPT ![c] = IF member[c] = "cleaning" /\ @ = None THEN "quiescent" ELSE @]
  /\ UNCHANGED <<main, stage, aborted, fanoutVars, claimed, member, execution, status, outcome>>

DisposalFails(c) ==
  /\ child[c] = "disposing"
  /\ child' = [child EXCEPT ![c] = "stuck"]
  /\ seen' = [seen EXCEPT ![c] = IF member[c] = "cleaning" /\ @ = None THEN "failed" ELSE @]
  /\ UNCHANGED <<main, stage, aborted, fanoutVars, claimed, member, execution, status, outcome>>

------------------------------------------------------------------------------
(* The steps of a member that need nothing of the Host's runtime but the     *)
(* preflight's model lookup.                                                *)
MemberStep(c) ==
  \/ Start(c)
  \/ NotStarted(c)
  \/ AdmissionAborted(c)
  \/ AdmissionRejected(c)
  \/ AdmissionPublished(c)
  \/ ExecutionSettles(c)
  \/ CleanupTimeout(c)
  \/ Value(c)
  \/ Error(c)

RunStep ==
  \/ StopBeforeStage
  \/ StartStage
  \/ StageFails
  \/ StageOverflows
  \/ StageSucceeds
  \/ Complete
  \/ Return

HostStep(c) ==
  \/ ChildPublished(c)
  \/ ChildRefused(c)
  \/ \E kind \in {"completed", "failed"} : ChildResult(c, kind)
  \/ ChildDisposed(c)
  \/ DisposalFails(c)

Next ==
  \/ RunStep
  \/ Abort
  \/ \E c \in Member : MemberStep(c) \/ HostStep(c)

Fairness ==
  /\ WF_vars(RunStep)
  /\ WF_vars(Abort)
  /\ \A c \in Member : WF_vars(MemberStep(c))

Spec == Init /\ [][Next]_vars /\ Fairness

------------------------------------------------------------------------------
(* The first claim on how the run ends stands, whatever fails, aborts or     *)
(* completes later, and the outcome returned is the one claimed             *)
(* (TerminalArbiter and every branch that ends executeStrategyPlan).        *)
FirstClaimDecides ==
  [][claimed # None => claimed' = claimed /\ outcome' \in {None, claimed}]_vars

(* Once it is decided how the run ends, no further child is started: neither *)
(* another member of the fan-out nor a later stage (settleChildRun's first  *)
(* check, throwIfAborted, the stage's controller).                          *)
NoStartOnceDecided ==
  [][\A c \in Member : child[c] = "absent" /\ child'[c] = "requested"
                         => claimed = None]_vars

(* The members of a stage whose failure is known: a delegate's as soon as its *)
(* execution failed, a fan-out's also when it fails to start or to clean up. *)
Failing(p) ==
  {c \in Of(p) : execution[c] = "failed" \/ (Fanout[p] /\ member[c] = "errored")}

Lost == Cardinality(Failing(stage)) > Count[stage] - MinSuccess[stage]

(* While a stage executes, the end of the run is decided, and the rest of a  *)
(* fan-out aborted, exactly when the run is aborted or minSuccess is out of *)
(* reach: never for failures the stage tolerates, and before any cleanup    *)
(* (markFailure, onExecution).                                              *)
DecidedExactlyWhenLost ==
  main = "members" =>
    /\ (claimed # None) <=> (aborted \/ Lost)
    /\ Fanout[stage] => (stageAborted <=> claimed # None)

(* No child is left behind: when a member has settled, its child is not      *)
(* running unowned, and a value comes only from a child that completed and  *)
(* is gone (settleChildRun with late publication, executeOne's errors).     *)
NoChildForgotten ==
  \A c \in Member :
    /\ member[c] \in Settled => child[c] # "live"
    /\ member[c] = "valued" => execution[c] = "completed" /\ child[c] = "gone"

(* A run that completed or degraded reached minSuccess in every stage, and  *)
(* says degraded exactly when a stage of its receipt is degraded; no run    *)
(* leaves a stage of its receipt pending.                                   *)
ReceiptAgrees ==
  main = "returned" =>
    /\ outcome \in {"completed", "degraded"} =>
         /\ \A p \in 1..Stages : /\ Cardinality(Valued(p)) >= MinSuccess[p]
                                 /\ status[p] \in {"completed", "degraded"}
         /\ outcome = "degraded" <=> \E p \in 1..Stages : status[p] = "degraded"
    /\ \A p \in 1..Stages : status[p] # "pending"

(* The run returns though children ignore the abort, never start, never end *)
(* or are never disposed: the deadline and the cleanup timers suffice.      *)
RunReturns == <>(main = "returned")

(* docs/run-receipts.md:52: child settlement determines stage and outcome    *)
(* state, so a failed run has the stage that failed it.                     *)
FailedRunNamesItsStage ==
  main = "returned" /\ outcome = "failed" => \E p \in 1..Stages : status[p] = "failed"
==============================================================================
