---------------------------- MODULE RunControlProofs ----------------------------
(***************************************************************************)
(* Proofs that concurrent controls of a durable run keep its safety        *)
(* properties, for any number of controls, tasks, leases, retries and      *)
(* crashes.  The properties follow from one inductive invariant, IInv.     *)
(***************************************************************************)
EXTENDS RunControl, TLAPS

NonIdempotent == {t \in Tasks : effectClass[t] = "non-idempotent-write"}

(* A task that is past the point at which child was started: no attempt of *)
(* the generation of child but child itself can be recorded for it.        *)
Past(task, child) ==
  \/ task.generation > child.generation
  \/ /\ task.generation = child.generation
     /\ task.status # "pending"
     /\ task.attempt \in {0, child.fence}

PastIn(state, child) == Past(state.tasks[child.task], child)

(* The children of these controls are recorded and not started yet.        *)
Prepared(c) == pc[c] \in {"prepare-flush", "execute"}

Cancelling(c) == action[c] = "cancel"

----------------------------------------------------------------------------
(* The inductive invariant                                                 *)

(* Actions go with the stages they lead to.                                *)
StagesInv ==
  \A c \in Controls :
    /\ pc[c] = "reassert" => action[c] \in {"resume", "cancel"}
    /\ pc[c] \in {"cancel-children", "cancelled"} => Cancelling(c)

(* What a control read is the journal as long as it holds its lease.       *)
FreshInv ==
  \A c \in Controls : Holds(c) =>
    /\ pc[c] \in {"assert", "commit", "prepare"} => snapshot[c] = journal
    /\ Cancelling(c) /\ pc[c] \in {"flush", "cancel-children"}
         => snapshot[c].attempts = journal.attempts

(* A recovery incorporates receipts only, and retries no ambiguous write;  *)
(* an activation admits ready tasks only.                                  *)
PlanInv ==
  \A c \in Controls :
    /\ pc[c] \in {"assert", "commit"} /\ action[c] = "resume" => \A t \in Tasks :
         /\ plan[c][t] = "incorporate-receipt" => ChildOf(t, snapshot[c]) \in succeeded
         /\ t \in NonIdempotent => plan[c][t] # "retry"
    /\ pc[c] = "prepare" => \A t \in admitted[c] : Ready(t, snapshot[c])

(* Children run, and return, for attempts that are recorded durably.       *)
ChildInv ==
  /\ \A c \in Controls : Prepared(c) =>
       /\ Started(c) \subseteq journal.attempts
       /\ \A child \in Started(c) :
            PastIn(journal, child) /\ (pc[c] = "execute" => PastIn(durable, child))
  /\ \A child \in children \cup succeeded :
       PastIn(journal, child) /\ PastIn(durable, child)
  /\ children \subseteq journal.attempts
  /\ accepted \subseteq succeeded

(* A task that runs has an attempt.                                        *)
RunsAttempt(state) ==
  \A t \in Tasks : state.tasks[t].status = "running" => state.tasks[t].attempt # 0

(* The attempt of a child is flushed before the child is started.          *)
RecordInv ==
  /\ \A c \in Controls : pc[c] = "execute" => Started(c) \subseteq durable.attempts
  /\ children \subseteq durable.attempts
  /\ RunsAttempt(journal) /\ RunsAttempt(durable)

(* Once an ambiguous write is started its task is not pending any more,    *)
(* and at most one control is about to start it.                           *)
StartInv ==
  /\ \A t \in NonIdempotent :
       /\ starts[t] <= 1
       /\ starts[t] = 1 => /\ journal.tasks[t].status # "pending"
                           /\ durable.tasks[t].status # "pending"
  /\ \A c \in Controls : Prepared(c) => \A t \in admitted[c] \cap NonIdempotent :
       /\ starts[t] = 0
       /\ journal.tasks[t].status # "pending"
       /\ pc[c] = "execute" => durable.tasks[t].status # "pending"
  /\ \A c, d \in Controls : c # d /\ Prepared(c) /\ Prepared(d) =>
       admitted[c] \cap admitted[d] \cap NonIdempotent = {}

(* A cancel goes from its intent over the closed admission to a run        *)
(* without children.                                                       *)
CancelInv ==
  /\ killed # {} => durable.intent
  /\ durable.intent => journal.intent
  /\ \A c \in Controls : Cancelling(c) =>
       /\ pc[c] = "flush" => journal.intent
       /\ pc[c] = "cancel-children" => durable.intent
       /\ pc[c] \in {"cancel-children", "reassert", "cancelled"} => ~admission
       /\ pc[c] \in {"reassert", "cancelled"} /\ Holds(c) => children = {}
  /\ journal.status = "cancelled" =>
       /\ children = {}
       /\ admission => \A c \in Controls : ~Prepared(c)

IInv ==
  /\ TypeOK /\ StagesInv /\ FreshInv /\ PlanInv /\ ChildInv
  /\ RecordInv /\ AcceptedOncePerGeneration /\ StartInv /\ CancelInv

----------------------------------------------------------------------------
(* Lemmas about the steps                                                  *)

(* Where assertLease leads: to the finally block without the lease, or on  *)
(* to what the action does next.                                           *)
LEMMA AssertLeaseMoves ==
  ASSUME TypeOK, StagesInv, NEW c \in Controls, AssertLease(c)
  PROVE  /\ UNCHANGED <<action, fence, snapshot, plan, admitted, hostVars, sessionVars,
                        childVars, accepted>>
         /\ \/ Goto(c, "release")
            \/ pc[c] = "assert" /\ Goto(c, "commit") /\ Holds(c)
            \/ /\ pc[c] = "reassert" /\ action[c] = "resume" /\ Goto(c, "refresh")
            \/ /\ pc[c] = "reassert" /\ Cancelling(c) /\ Goto(c, "cancelled") /\ Holds(c)
  BY DEF AssertLease, StagesInv, Throw, Cancelling

(* A control that holds its lease has a fence that was granted.            *)
LEMMA HolderHasFence ==
  ASSUME TypeOK, NEW c \in Controls, Holds(c)
  PROVE  fence[c] \in 1..MaxFence /\ lease.fence = fence[c]
  BY NoneIsAbsent DEF TypeOK, Holds

(* The task a recovery leaves is a task, and the others are no further     *)
(* than it from what was started.                                          *)
LEMMA RecoveredTask ==
  ASSUME ControlAssumption, NEW task \in Task, NEW act \in RecoveryActions,
         act = "retry" => task.generation < MaxGeneration
  PROVE  /\ Recovered(task, act) \in Task
         /\ \A child \in Child : Past(task, child) => Past(Recovered(task, act), child)
         /\ task.status # "pending" /\ act # "retry"
              => Recovered(task, act).status # "pending"
<1> DEFINE next == Recovered(task, act)
<1>1. CASE act = "incorporate-receipt"
  <2>1. next = [task EXCEPT !.status = "succeeded"]
    BY <1>1 DEF Recovered
  <2>. QED BY <2>1 DEF Task, Past
<1>2. CASE act = "retry"
  <2>1. next = [status |-> "pending", generation |-> task.generation + 1, attempt |-> 0]
    BY <1>2 DEF Recovered
  <2>. QED BY <1>2, <2>1 DEF Task, Child, Past, ControlAssumption
<1>3. CASE act = "needs-attention"
  <2>1. next = [task EXCEPT !.status = "suspended", !.attempt = 0]
    BY <1>3 DEF Recovered
  <2>2. 0 \in 0..MaxFence
    BY DEF ControlAssumption
  <2>3. next = [status |-> "suspended", generation |-> task.generation, attempt |-> 0]
    BY <2>1 DEF Task
  <2>. QED BY <1>3, <2>2, <2>3 DEF Task, Past
<1>4. CASE act \notin {"incorporate-receipt", "retry", "needs-attention"}
  BY <1>4 DEF Recovered
<1>. QED BY <1>1, <1>2, <1>3, <1>4

(* A committed recovery changes the tasks as its plan says and nothing      *)
(* else of the run.                                                         *)
LEMMA RecoveryEffect ==
  ASSUME TypeOK, NEW c \in Controls, CommitRecovery(c)
  PROVE  /\ journal' \in Run
         /\ \A t \in Tasks : journal'.tasks[t] = Recovered(journal.tasks[t], plan[c][t])
         /\ journal'.status = journal.status /\ journal'.intent = journal.intent
         /\ journal'.attempts = journal.attempts
<1>1. ASSUME NEW t \in Tasks
      PROVE  Recovered(journal.tasks[t], plan[c][t]) \in Task
  <2>1. journal.tasks[t] \in Task /\ plan[c][t] \in RecoveryActions
    BY DEF TypeOK, Run
  <2>2. plan[c][t] = "retry" => journal.tasks[t].generation < MaxGeneration
    BY DEF CommitRecovery, Retryable
  <2>. QED BY <2>1, <2>2, RecoveredTask, ControlAssumption
<1>2. journal' = [journal EXCEPT !.tasks = [t \in Tasks |-> Recovered(journal.tasks[t], plan[c][t])]]
  BY DEF CommitRecovery
<1>. QED BY <1>1, <1>2 DEF TypeOK, Run

(* A task that starts to run is a task.                                     *)
LEMMA RunningTask ==
  ASSUME NEW task \in Task, NEW f \in 0..MaxFence
  PROVE  [task EXCEPT !.status = "running", !.attempt = f] \in Task
<1>1. [task EXCEPT !.status = "running"] \in Task
  BY DEF Task
<1>2. \A u \in Task : [u EXCEPT !.attempt = f] \in Task
  BY DEF Task
<1>. QED BY <1>1, <1>2

(* A prepared batch makes its tasks running under the fence of its          *)
(* control and records their attempts.                                      *)
LEMMA PreparedEffect ==
  ASSUME TypeOK, NEW c \in Controls, CommitPrepared(c)
  PROVE  /\ journal' \in Run
         /\ \A t \in Tasks : journal'.tasks[t] =
              IF t \in admitted[c]
              THEN [journal.tasks[t] EXCEPT !.status = "running", !.attempt = fence[c]]
              ELSE journal.tasks[t]
         /\ journal'.status = journal.status /\ journal'.intent = journal.intent
         /\ journal'.attempts = journal.attempts \cup Started(c)
         /\ Started(c) \subseteq Child
<1>1. fence[c] \in 1..MaxFence
  BY HolderHasFence DEF CommitPrepared, MayAppend
<1>2. Started(c) \subseteq Child
  BY <1>1 DEF Started, Child, TypeOK, Run, Task
<1>3. ASSUME NEW t \in Tasks
      PROVE  [journal.tasks[t] EXCEPT !.status = "running", !.attempt = fence[c]] \in Task
  <2>1. journal.tasks[t] \in Task
    BY DEF TypeOK, Run
  <2>2. fence[c] \in 0..MaxFence
    BY <1>1
  <2>. QED BY <2>1, <2>2, RunningTask
<1>4. journal' = [journal EXCEPT
       !.tasks = [t \in Tasks |->
         IF t \in admitted[c]
         THEN [journal.tasks[t] EXCEPT !.status = "running", !.attempt = fence[c]]
         ELSE journal.tasks[t]],
       !.attempts = @ \cup Started(c)]
  BY DEF CommitPrepared
<1>. QED BY <1>2, <1>3, <1>4 DEF TypeOK, Run

(* A settled batch changes the status of tasks of its control only, to      *)
(* succeeded or failed.                                                     *)
LEMMA SettledEffect ==
  ASSUME TypeOK, NEW c \in Controls, CommitSettled(c)
  PROVE  /\ journal' \in Run
         /\ \A t \in Tasks : \/ journal'.tasks[t] = journal.tasks[t]
                             \/ \E s \in {"succeeded", "failed"} :
                                  journal'.tasks[t] = [journal.tasks[t] EXCEPT !.status = s]
         /\ journal'.status = journal.status /\ journal'.intent = journal.intent
         /\ journal'.attempts = journal.attempts
<1> DEFINE Settled(t) == IF t \notin admitted[c] THEN journal.tasks[t]
       ELSE [journal.tasks[t] EXCEPT !.status =
              IF \E child \in Started(c) \cap succeeded : child.task = t
              THEN "succeeded" ELSE "failed"]
<1>1. ASSUME NEW t \in Tasks
      PROVE  /\ Settled(t) \in Task
             /\ \/ Settled(t) = journal.tasks[t]
                \/ \E s \in {"succeeded", "failed"} : Settled(t) = [journal.tasks[t] EXCEPT !.status = s]
  <2>1. journal.tasks[t] \in Task
    BY DEF TypeOK, Run
  <2>2. \A s \in {"succeeded", "failed"} : [journal.tasks[t] EXCEPT !.status = s] \in Task
    BY <2>1 DEF Task
  <2>. QED BY <2>1, <2>2
<1>2. journal' = [journal EXCEPT !.tasks = [t \in Tasks |-> Settled(t)]]
  BY DEF CommitSettled
<1> HIDE DEF Settled
<1>. QED BY <1>1, <1>2 DEF TypeOK, Run

(* No commit takes a task back to before a child was started.              *)
LEMMA RecoveryMovesOn ==
  ASSUME TypeOK, NEW c \in Controls, CommitRecovery(c), NEW child \in Child,
         PastIn(journal, child)
  PROVE  PastIn(journal', child)
<1>1. child.task \in Tasks
  BY DEF Child
<1>2. journal.tasks[child.task] \in Task /\ plan[c][child.task] \in RecoveryActions
  BY <1>1 DEF TypeOK, Run
<1>3. plan[c][child.task] = "retry" => journal.tasks[child.task].generation < MaxGeneration
  BY <1>1 DEF CommitRecovery, Retryable
<1>. QED BY <1>1, <1>2, <1>3, RecoveryEffect, RecoveredTask, ControlAssumption DEF PastIn

(* A child that belongs to the past of the journal still does after a       *)
(* prepared batch.                                                          *)
LEMMA PreparedMovesOn ==
  ASSUME TypeOK, FreshInv, PlanInv, NEW c \in Controls, CommitPrepared(c),
         NEW child \in Child, PastIn(journal, child)
  PROVE  PastIn(journal', child)
<1>. DEFINE t == child.task
<1>1. t \in Tasks
  BY DEF Child
<1>2. journal.tasks[t] \in Task
  BY <1>1 DEF TypeOK, Run
<1>3. CASE t \in admitted[c]
  <2>1. journal.tasks[t].status = "pending"
    BY <1>3 DEF CommitPrepared, MayAppend, FreshInv, PlanInv, Ready
  <2>2. journal'.tasks[t] = [journal.tasks[t] EXCEPT !.status = "running", !.attempt = fence[c]]
    BY <1>1, <1>3, PreparedEffect
  <2>3. journal'.tasks[t].generation = journal.tasks[t].generation
    BY <1>2, <2>2 DEF Task
  <2>. QED BY <2>1, <2>3 DEF PastIn, Past
<1>4. CASE t \notin admitted[c]
  BY <1>1, <1>4, PreparedEffect DEF PastIn
<1>. QED BY <1>3, <1>4

(* A child that belongs to the past of the journal still does after a       *)
(* settled batch.                                                           *)
LEMMA SettledMovesOn ==
  ASSUME TypeOK, NEW c \in Controls, CommitSettled(c), NEW child \in Child,
         PastIn(journal, child)
  PROVE  PastIn(journal', child)
<1>. DEFINE t == child.task
<1>1. t \in Tasks
  BY DEF Child
<1>2. journal.tasks[t] \in Task
  BY <1>1 DEF TypeOK, Run
<1>3. CASE journal'.tasks[t] = journal.tasks[t]
  BY <1>3 DEF PastIn
<1>4. ASSUME NEW s \in {"succeeded", "failed"},
             journal'.tasks[t] = [journal.tasks[t] EXCEPT !.status = s]
      PROVE  PastIn(journal', child)
  BY <1>2, <1>4 DEF Task, PastIn, Past
<1>. QED BY <1>1, <1>3, <1>4, SettledEffect

(* The children of a prepared batch are the ones its tasks now run.        *)
LEMMA StartedArePast ==
  ASSUME TypeOK, FreshInv, PlanInv, NEW c \in Controls, CommitPrepared(c),
         NEW child \in Started(c)
  PROVE  PastIn(journal', child)
<1>1. PICK t \in admitted[c] :
        child = [task |-> t, generation |-> snapshot[c].tasks[t].generation, fence |-> fence[c]]
  BY DEF Started
<1>2. t \in Tasks /\ snapshot[c] = journal
  BY DEF CommitPrepared, MayAppend, FreshInv, TypeOK
<1>3. journal.tasks[t] \in Task
  BY <1>2 DEF TypeOK, Run
<1>4. journal'.tasks[t] = [journal.tasks[t] EXCEPT !.status = "running", !.attempt = fence[c]]
  BY <1>2, PreparedEffect
<1>5. /\ journal'.tasks[t].generation = child.generation
      /\ journal'.tasks[t].status = "running" /\ journal'.tasks[t].attempt = child.fence
  BY <1>1, <1>2, <1>3, <1>4 DEF Task
<1>. QED BY <1>1, <1>5 DEF PastIn, Past

(* The values a control starts with, and keeps nothing but them after it   *)
(* returned or the Host crashed.                                           *)
LEMMA InitialValues ==
  /\ NewRun \in Run /\ NoPlan \in [Tasks -> RecoveryActions]
  /\ \A t \in Tasks : Ready(t, NewRun)
<1>1. [status |-> "pending", generation |-> 0, attempt |-> 0] \in Task
  BY ControlAssumption DEF ControlAssumption, Task
<1>. QED BY <1>1 DEF NewRun, NoPlan, Run, RecoveryActions, Ready

----------------------------------------------------------------------------
(* Each conjunct is kept by every step                                     *)

(* The types are kept.                                                     *)
LEMMA TypeStep ==
  ASSUME TypeOK, StagesInv, FreshInv, PlanInv, ChildInv, [Next]_vars
  PROVE  TypeOK'
<1>. USE ControlAssumption DEF ControlAssumption, Goto, Throw, Holds, vars,
     controlVars, hostVars, sessionVars, childVars
<1>1. ASSUME NEW c \in Controls, NEW act \in {"resume", "cancel", "steer"}, Begin(c, act)
      PROVE  TypeOK'
  BY <1>1 DEF Begin, TypeOK, Run, Stages
<1>2. ASSUME NEW c \in Controls, Acquire(c)
      PROVE  TypeOK'
  <2>1. CASE lease = None /\ granted < MaxFence
    <3>1. granted + 1 \in 1..MaxFence /\ granted + 1 \in 0..MaxFence
      BY <2>1 DEF TypeOK
    <3>2. lease' \in [holder : Controls, fence : 1..MaxFence]
      BY <1>2, <2>1, <3>1 DEF Acquire
    <3>3. fence' \in [Controls -> 0..MaxFence] /\ pc' \in [Controls -> Stages]
      BY ZenonT(40), <1>2, <2>1, <3>1 DEF Acquire, TypeOK, Stages
    <3>. QED BY <1>2, <2>1, <3>1, <3>2, <3>3 DEF Acquire, TypeOK
  <2>2. CASE ~(lease = None /\ granted < MaxFence)
    BY <1>2, <2>2 DEF Acquire, TypeOK, Stages
  <2>. QED BY <2>1, <2>2
<1>3. ASSUME NEW c \in Controls, Reread(c)
      PROVE  TypeOK'
  <2>1. plan' \in [Controls -> [Tasks -> RecoveryActions]]
    <3>1. \A t, receipt : RecoveryAction(t, journal, receipt) \in RecoveryActions
      BY DEF RecoveryAction, RecoveryActions
    <3>. QED BY <1>3, <3>1 DEF Reread, TypeOK, RecoveryActions
  <2>. QED BY <1>3, <2>1 DEF Reread, TypeOK, Stages
<1>4. ASSUME NEW c \in Controls, AssertLease(c)
      PROVE  TypeOK'
  BY ZenonT(40), <1>4, AssertLeaseMoves DEF TypeOK, Stages
<1>5. ASSUME NEW c \in Controls, CommitRecovery(c)
      PROVE  TypeOK'
  <2>1. journal' \in Run
    BY <1>5, RecoveryEffect
  <2>2. accepted' \subseteq Child
    <3>1. ASSUME NEW t \in Tasks, plan[c][t] = "incorporate-receipt"
          PROVE  ChildOf(t, journal) \in Child
      BY <1>5, <3>1 DEF CommitRecovery, MayAppend, PlanInv, FreshInv, TypeOK
    <3>. QED BY <1>5, <3>1 DEF CommitRecovery, TypeOK
  <2>. QED BY <1>5, <2>1, <2>2 DEF CommitRecovery, TypeOK, Stages
<1>6. ASSUME NEW c \in Controls, CommitCancelIntent(c)
      PROVE  TypeOK'
  BY <1>6 DEF CommitCancelIntent, MayAppend, TypeOK, Run, Stages
<1>7. ASSUME NEW c \in Controls, CommitSteerProposal(c)
      PROVE  TypeOK'
  BY <1>7 DEF CommitSteerProposal, MayAppend, TypeOK, Run, Stages
<1>8. ASSUME NEW c \in Controls, CommitCancelled(c)
      PROVE  TypeOK'
  BY <1>8 DEF CommitCancelled, MayAppend, TypeOK, Run, Stages
<1>9. ASSUME NEW c \in Controls, CommitPrepared(c)
      PROVE  TypeOK'
  BY <1>9, PreparedEffect DEF CommitPrepared, TypeOK, Stages
<1>10. ASSUME NEW c \in Controls, CommitSettled(c)
      PROVE  TypeOK'
  BY <1>10, SettledEffect DEF CommitSettled, TypeOK, Stages
<1>11. ASSUME NEW c \in Controls, CommitRejected(c)
      PROVE  TypeOK'
  BY <1>11 DEF CommitRejected, TypeOK, Run, Stages
<1>12. ASSUME NEW c \in Controls, Flush(c)
      PROVE  TypeOK'
  BY <1>12 DEF Flush, FlushStages, AfterFlush, TypeOK, Run, Stages
<1>13. ASSUME NEW c \in Controls, FlushUnavailable(c)
      PROVE  TypeOK'
  BY <1>13 DEF FlushUnavailable, FlushStages, TypeOK, Run, Stages
<1>14. ASSUME NEW c \in Controls, CancelLiveChildren(c)
      PROVE  TypeOK'
  BY <1>14 DEF CancelLiveChildren, TypeOK, Run, Stages
<1>15. ASSUME NEW c \in Controls, Activate(c)
      PROVE  TypeOK'
  BY <1>15 DEF Activate, Admissible, TypeOK, Run, Stages
<1>16. ASSUME NEW c \in Controls, Execute(c)
      PROVE  TypeOK'
  <2>1. Started(c) \subseteq Child
    BY <1>16 DEF Execute, ChildInv, Prepared, TypeOK, Run
  <2>2. starts' \in [Tasks -> Nat]
    BY <1>16 DEF Execute, TypeOK
  <2>. QED BY <1>16, <2>1, <2>2 DEF Execute, TypeOK, Stages
<1>17. ASSUME NEW c \in Controls, Join(c)
      PROVE  TypeOK'
  BY <1>17 DEF Join, TypeOK, Run, Stages
<1>18. ASSUME NEW c \in Controls, JoinRejected(c)
      PROVE  TypeOK'
  BY <1>18 DEF JoinRejected, TypeOK, Run, Stages
<1>19. ASSUME NEW c \in Controls, Release(c)
      PROVE  TypeOK'
  BY <1>19, InitialValues DEF Release, TypeOK, Stages
<1>20. ASSUME NEW child \in children, ChildReturns(child)
      PROVE  TypeOK'
  BY <1>20 DEF ChildReturns, TypeOK, Run, Stages
<1>21. CASE Expire
  BY <1>21 DEF Expire, TypeOK, Run, Stages
<1>22. CASE Crash
  BY <1>22, InitialValues DEF Crash, TypeOK, Stages
<1>23. CASE UNCHANGED vars
  BY <1>23 DEF TypeOK
<1>. QED BY <1>1, <1>2, <1>3, <1>4, <1>5, <1>6, <1>7, <1>8, <1>9, <1>10, <1>11,
     <1>12, <1>13, <1>14, <1>15, <1>16, <1>17, <1>18, <1>19, <1>20, <1>21, <1>22, <1>23 DEF Next, Control

(* Actions and stages go together.                                         *)
LEMMA StagesStep ==
  ASSUME TypeOK, StagesInv, [Next]_vars
  PROVE  StagesInv'
<1>. USE ControlAssumption DEF StagesInv, Cancelling, TypeOK, Stages, Goto,
     Throw, Holds, vars, controlVars, hostVars, sessionVars, childVars
<1>1. ASSUME NEW c \in Controls, NEW act \in {"resume", "cancel", "steer"}, Begin(c, act)
      PROVE  StagesInv'
  BY <1>1 DEF Begin
<1>2. ASSUME NEW c \in Controls, Acquire(c)
      PROVE  StagesInv'
  BY <1>2 DEF Acquire
<1>3. ASSUME NEW c \in Controls, Reread(c)
      PROVE  StagesInv'
  BY <1>3 DEF Reread
<1>4. ASSUME NEW c \in Controls, AssertLease(c)
      PROVE  StagesInv'
  BY <1>4 DEF AssertLease
<1>5. ASSUME NEW c \in Controls, CommitRecovery(c)
      PROVE  StagesInv'
  BY <1>5 DEF CommitRecovery, MayAppend, Retryable, Recovered
<1>6. ASSUME NEW c \in Controls, CommitCancelIntent(c)
      PROVE  StagesInv'
  BY <1>6 DEF CommitCancelIntent, MayAppend
<1>7. ASSUME NEW c \in Controls, CommitSteerProposal(c)
      PROVE  StagesInv'
  BY <1>7 DEF CommitSteerProposal, MayAppend
<1>8. ASSUME NEW c \in Controls, CommitCancelled(c)
      PROVE  StagesInv'
  BY <1>8 DEF CommitCancelled, MayAppend
<1>9. ASSUME NEW c \in Controls, CommitPrepared(c)
      PROVE  StagesInv'
  BY <1>9 DEF CommitPrepared, MayAppend
<1>10. ASSUME NEW c \in Controls, CommitSettled(c)
      PROVE  StagesInv'
  BY <1>10 DEF CommitSettled, MayAppend, AcceptsResult
<1>11. ASSUME NEW c \in Controls, CommitRejected(c)
      PROVE  StagesInv'
  BY <1>11 DEF CommitRejected
<1>12. ASSUME NEW c \in Controls, Flush(c)
      PROVE  StagesInv'
  BY <1>12 DEF Flush, FlushStages, AfterFlush
<1>13. ASSUME NEW c \in Controls, FlushUnavailable(c)
      PROVE  StagesInv'
  BY <1>13 DEF FlushUnavailable, FlushStages
<1>14. ASSUME NEW c \in Controls, CancelLiveChildren(c)
      PROVE  StagesInv'
  BY <1>14 DEF CancelLiveChildren
<1>15. ASSUME NEW c \in Controls, Activate(c)
      PROVE  StagesInv'
  BY <1>15 DEF Activate, Admissible
<1>16. ASSUME NEW c \in Controls, Execute(c)
      PROVE  StagesInv'
  BY <1>16 DEF Execute
<1>17. ASSUME NEW c \in Controls, Join(c)
      PROVE  StagesInv'
  BY <1>17 DEF Join
<1>18. ASSUME NEW c \in Controls, JoinRejected(c)
      PROVE  StagesInv'
  BY <1>18 DEF JoinRejected
<1>19. ASSUME NEW c \in Controls, Release(c)
      PROVE  StagesInv'
  BY <1>19 DEF Release, NewRun, NoPlan
<1>20. ASSUME NEW child \in children, ChildReturns(child)
      PROVE  StagesInv'
  BY <1>20 DEF ChildReturns
<1>21. CASE Expire
  BY <1>21 DEF Expire
<1>22. CASE Crash
  BY <1>22 DEF Crash, NewRun, NoPlan
<1>23. CASE UNCHANGED vars
  BY <1>23
<1>. QED BY <1>1, <1>2, <1>3, <1>4, <1>5, <1>6, <1>7, <1>8, <1>9, <1>10, <1>11,
     <1>12, <1>13, <1>14, <1>15, <1>16, <1>17, <1>18, <1>19, <1>20, <1>21, <1>22, <1>23 DEF Next, Control

(* Whoever holds its lease is the only one who appends.                    *)
LEMMA FreshStep ==
  ASSUME TypeOK, StagesInv, FreshInv, [Next]_vars
  PROVE  FreshInv'
<1>. USE ControlAssumption, NoneIsAbsent DEF FreshInv, Cancelling, TypeOK,
     Goto, Throw, Holds, vars, controlVars, hostVars, sessionVars, childVars
<1>1. ASSUME NEW c \in Controls, NEW act \in {"resume", "cancel", "steer"}, Begin(c, act)
      PROVE  FreshInv'
  BY <1>1 DEF Begin
<1>2. ASSUME NEW c \in Controls, Acquire(c)
      PROVE  FreshInv'
  BY <1>2 DEF Acquire
<1>3. ASSUME NEW c \in Controls, Reread(c)
      PROVE  FreshInv'
  BY <1>3 DEF Reread
<1>4. ASSUME NEW c \in Controls, AssertLease(c)
      PROVE  FreshInv'
  BY ZenonT(40), <1>4, AssertLeaseMoves DEF AssertLease
<1>5. ASSUME NEW c \in Controls, CommitRecovery(c)
      PROVE  FreshInv'
  BY <1>5 DEF CommitRecovery, MayAppend, Retryable, Recovered
<1>6. ASSUME NEW c \in Controls, CommitCancelIntent(c)
      PROVE  FreshInv'
  BY <1>6 DEF CommitCancelIntent, MayAppend
<1>7. ASSUME NEW c \in Controls, CommitSteerProposal(c)
      PROVE  FreshInv'
  BY <1>7 DEF CommitSteerProposal, MayAppend
<1>8. ASSUME NEW c \in Controls, CommitCancelled(c)
      PROVE  FreshInv'
  BY <1>8 DEF CommitCancelled, MayAppend
<1>9. ASSUME NEW c \in Controls, CommitPrepared(c)
      PROVE  FreshInv'
  BY <1>9 DEF CommitPrepared, MayAppend
<1>10. ASSUME NEW c \in Controls, CommitSettled(c)
      PROVE  FreshInv'
  BY <1>10 DEF CommitSettled, MayAppend, AcceptsResult
<1>11. ASSUME NEW c \in Controls, CommitRejected(c)
      PROVE  FreshInv'
  BY <1>11 DEF CommitRejected
<1>12. ASSUME NEW c \in Controls, Flush(c)
      PROVE  FreshInv'
  BY <1>12 DEF Flush, FlushStages, AfterFlush
<1>13. ASSUME NEW c \in Controls, FlushUnavailable(c)
      PROVE  FreshInv'
  BY <1>13 DEF FlushUnavailable, FlushStages
<1>14. ASSUME NEW c \in Controls, CancelLiveChildren(c)
      PROVE  FreshInv'
  BY <1>14 DEF CancelLiveChildren
<1>15. ASSUME NEW c \in Controls, Activate(c)
      PROVE  FreshInv'
  BY <1>15 DEF Activate, Admissible
<1>16. ASSUME NEW c \in Controls, Execute(c)
      PROVE  FreshInv'
  BY <1>16 DEF Execute
<1>17. ASSUME NEW c \in Controls, Join(c)
      PROVE  FreshInv'
  BY <1>17 DEF Join
<1>18. ASSUME NEW c \in Controls, JoinRejected(c)
      PROVE  FreshInv'
  BY <1>18 DEF JoinRejected
<1>19. ASSUME NEW c \in Controls, Release(c)
      PROVE  FreshInv'
  BY <1>19 DEF Release, NewRun, NoPlan
<1>20. ASSUME NEW child \in children, ChildReturns(child)
      PROVE  FreshInv'
  BY <1>20 DEF ChildReturns
<1>21. CASE Expire
  BY <1>21 DEF Expire
<1>22. CASE Crash
  BY <1>22 DEF Crash, NewRun, NoPlan
<1>23. CASE UNCHANGED vars
  BY <1>23
<1>. QED BY <1>1, <1>2, <1>3, <1>4, <1>5, <1>6, <1>7, <1>8, <1>9, <1>10, <1>11,
     <1>12, <1>13, <1>14, <1>15, <1>16, <1>17, <1>18, <1>19, <1>20, <1>21, <1>22, <1>23 DEF Next, Control

(* A step that plans nothing, admits nothing and leads no control to a      *)
(* commit keeps what was planned and admitted.                              *)
LEMMA PlanTransfer ==
  ASSUME TypeOK, PlanInv, UNCHANGED <<snapshot, plan, admitted>>, succeeded \subseteq succeeded',
         \A d \in Controls :
           /\ pc'[d] \in {"assert", "commit"} =>
                pc[d] \in {"assert", "commit"} /\ action'[d] = action[d]
           /\ pc'[d] = "prepare" => pc[d] = "prepare"
  PROVE  PlanInv'
  BY DEF PlanInv, ChildOf, Ready

(* What is planned from a state is planned from what it holds.             *)
LEMMA PlanStep ==
  ASSUME TypeOK, StagesInv, PlanInv, [Next]_vars
  PROVE  PlanInv'
<1>. USE ControlAssumption DEF PlanInv, ChildOf, Ready, TypeOK, Goto, Throw,
     vars, controlVars, hostVars, sessionVars, childVars
<1>1. ASSUME NEW c \in Controls, NEW act \in {"resume", "cancel", "steer"}, Begin(c, act)
      PROVE  PlanInv'
  <2>1. \A d \in Controls :
          /\ pc'[d] \in {"assert", "commit"} =>
               pc[d] \in {"assert", "commit"} /\ action'[d] = action[d]
          /\ pc'[d] = "prepare" => pc[d] = "prepare"
    BY <1>1 DEF Begin
  <2>. QED BY <1>1, <2>1, PlanTransfer DEF Begin
<1>2. ASSUME NEW c \in Controls, Acquire(c)
      PROVE  PlanInv'
  <2>1. \A d \in Controls :
          /\ pc'[d] \in {"assert", "commit"} =>
               pc[d] \in {"assert", "commit"} /\ action'[d] = action[d]
          /\ pc'[d] = "prepare" => pc[d] = "prepare"
    BY <1>2 DEF Acquire
  <2>. QED BY <1>2, <2>1, PlanTransfer DEF Acquire
<1>3. ASSUME NEW c \in Controls, Reread(c)
      PROVE  PlanInv'
  <2>1. ASSUME action[c] = "resume", NEW t \in Tasks
        PROVE  /\ plan'[c][t] = "incorporate-receipt" => ChildOf(t, journal) \in succeeded
               /\ t \in NonIdempotent => plan'[c][t] # "retry"
    <3>1. \E receipt \in succeeded \cup {None} :
            plan'[c][t] \in {"none", RecoveryAction(t, journal, receipt)}
      <4>1. PICK found \in [Tasks -> succeeded \cup {None}],
                 considered \in {Tasks, {u \in Tasks : journal.tasks[u].status = "running"}} :
              plan' = [plan EXCEPT ![c] = [u \in Tasks |->
                IF u \in considered THEN RecoveryAction(u, journal, found[u]) ELSE "none"]]
        BY <1>3, <2>1 DEF Reread
      <4>2. plan'[c][t] \in {"none", RecoveryAction(t, journal, found[t])}
        BY <4>1
      <4>. QED BY <4>2
    <3>2. PICK receipt \in succeeded \cup {None} :
            plan'[c][t] \in {"none", RecoveryAction(t, journal, receipt)}
      BY <3>1
    <3>3. RecoveryAction(t, journal, receipt) = "incorporate-receipt"
            => receipt # None /\ receipt = ChildOf(t, journal)
      BY DEF RecoveryAction, Terminal
    <3>4. t \in NonIdempotent => RecoveryAction(t, journal, receipt) # "retry"
      BY DEF RecoveryAction, NonIdempotent, Terminal
    <3>. QED BY <3>2, <3>3, <3>4
  <2>2. snapshot' = [snapshot EXCEPT ![c] = journal] /\ pc' = [pc EXCEPT ![c] = "assert"]
    BY <1>3 DEF Reread
  <2>3. action' = action /\ succeeded' = succeeded /\ admitted' = admitted
    BY <1>3 DEF Reread
  <2>4. \A d \in Controls \ {c} : plan'[d] = plan[d]
    BY <1>3 DEF Reread
  <2>. QED BY <2>1, <2>2, <2>3, <2>4
<1>4. ASSUME NEW c \in Controls, AssertLease(c)
      PROVE  PlanInv'
  <2>1. \A d \in Controls :
          /\ pc'[d] \in {"assert", "commit"} => pc[d] \in {"assert", "commit"}
          /\ pc'[d] = "prepare" => pc[d] = "prepare"
    BY <1>4, AssertLeaseMoves
  <2>. QED BY <1>4, <2>1 DEF AssertLease
<1>5. ASSUME NEW c \in Controls, CommitRecovery(c)
      PROVE  PlanInv'
  <2>1. \A d \in Controls :
          /\ pc'[d] \in {"assert", "commit"} =>
               pc[d] \in {"assert", "commit"} /\ action'[d] = action[d]
          /\ pc'[d] = "prepare" => pc[d] = "prepare"
    BY <1>5 DEF CommitRecovery
  <2>. QED BY <1>5, <2>1, PlanTransfer DEF CommitRecovery
<1>6. ASSUME NEW c \in Controls, CommitCancelIntent(c)
      PROVE  PlanInv'
  <2>1. \A d \in Controls :
          /\ pc'[d] \in {"assert", "commit"} =>
               pc[d] \in {"assert", "commit"} /\ action'[d] = action[d]
          /\ pc'[d] = "prepare" => pc[d] = "prepare"
    BY <1>6 DEF CommitCancelIntent
  <2>. QED BY <1>6, <2>1, PlanTransfer DEF CommitCancelIntent
<1>7. ASSUME NEW c \in Controls, CommitSteerProposal(c)
      PROVE  PlanInv'
  <2>1. \A d \in Controls :
          /\ pc'[d] \in {"assert", "commit"} =>
               pc[d] \in {"assert", "commit"} /\ action'[d] = action[d]
          /\ pc'[d] = "prepare" => pc[d] = "prepare"
    BY <1>7 DEF CommitSteerProposal
  <2>. QED BY <1>7, <2>1, PlanTransfer DEF CommitSteerProposal
<1>8. ASSUME NEW c \in Controls, CommitCancelled(c)
      PROVE  PlanInv'
  <2>1. \A d \in Controls :
          /\ pc'[d] \in {"assert", "commit"} =>
               pc[d] \in {"assert", "commit"} /\ action'[d] = action[d]
          /\ pc'[d] = "prepare" => pc[d] = "prepare"
    BY <1>8 DEF CommitCancelled
  <2>. QED BY <1>8, <2>1, PlanTransfer DEF CommitCancelled
<1>9. ASSUME NEW c \in Controls, CommitPrepared(c)
      PROVE  PlanInv'
  <2>1. \A d \in Controls :
          /\ pc'[d] \in {"assert", "commit"} =>
               pc[d] \in {"assert", "commit"} /\ action'[d] = action[d]
          /\ pc'[d] = "prepare" => pc[d] = "prepare"
    BY <1>9 DEF CommitPrepared
  <2>. QED BY <1>9, <2>1, PlanTransfer DEF CommitPrepared
<1>10. ASSUME NEW c \in Controls, CommitSettled(c)
      PROVE  PlanInv'
  <2>1. \A d \in Controls :
          /\ pc'[d] \in {"assert", "commit"} =>
               pc[d] \in {"assert", "commit"} /\ action'[d] = action[d]
          /\ pc'[d] = "prepare" => pc[d] = "prepare"
    BY <1>10 DEF CommitSettled
  <2>. QED BY <1>10, <2>1, PlanTransfer DEF CommitSettled
<1>11. ASSUME NEW c \in Controls, CommitRejected(c)
      PROVE  PlanInv'
  <2>1. \A d \in Controls :
          /\ pc'[d] \in {"assert", "commit"} =>
               pc[d] \in {"assert", "commit"} /\ action'[d] = action[d]
          /\ pc'[d] = "prepare" => pc[d] = "prepare"
    BY <1>11 DEF CommitRejected
  <2>. QED BY <1>11, <2>1, PlanTransfer DEF CommitRejected
<1>12. ASSUME NEW c \in Controls, Flush(c)
      PROVE  PlanInv'
  <2>1. \A d \in Controls :
          /\ pc'[d] \in {"assert", "commit"} =>
               pc[d] \in {"assert", "commit"} /\ action'[d] = action[d]
          /\ pc'[d] = "prepare" => pc[d] = "prepare"
    BY <1>12 DEF Flush, FlushStages, AfterFlush
  <2>. QED BY <1>12, <2>1, PlanTransfer DEF Flush
<1>13. ASSUME NEW c \in Controls, FlushUnavailable(c)
      PROVE  PlanInv'
  <2>1. \A d \in Controls :
          /\ pc'[d] \in {"assert", "commit"} =>
               pc[d] \in {"assert", "commit"} /\ action'[d] = action[d]
          /\ pc'[d] = "prepare" => pc[d] = "prepare"
    BY <1>13 DEF FlushUnavailable, FlushStages
  <2>. QED BY <1>13, <2>1, PlanTransfer DEF FlushUnavailable
<1>14. ASSUME NEW c \in Controls, CancelLiveChildren(c)
      PROVE  PlanInv'
  <2>1. \A d \in Controls :
          /\ pc'[d] \in {"assert", "commit"} =>
               pc[d] \in {"assert", "commit"} /\ action'[d] = action[d]
          /\ pc'[d] = "prepare" => pc[d] = "prepare"
    BY <1>14 DEF CancelLiveChildren
  <2>. QED BY <1>14, <2>1, PlanTransfer DEF CancelLiveChildren
<1>15. ASSUME NEW c \in Controls, Activate(c)
      PROVE  PlanInv'
  BY ZenonT(40), <1>15 DEF Activate, Admissible
<1>16. ASSUME NEW c \in Controls, Execute(c)
      PROVE  PlanInv'
  <2>1. \A d \in Controls :
          /\ pc'[d] \in {"assert", "commit"} =>
               pc[d] \in {"assert", "commit"} /\ action'[d] = action[d]
          /\ pc'[d] = "prepare" => pc[d] = "prepare"
    BY <1>16 DEF Execute
  <2>. QED BY <1>16, <2>1, PlanTransfer DEF Execute
<1>17. ASSUME NEW c \in Controls, Join(c)
      PROVE  PlanInv'
  <2>1. \A d \in Controls :
          /\ pc'[d] \in {"assert", "commit"} =>
               pc[d] \in {"assert", "commit"} /\ action'[d] = action[d]
          /\ pc'[d] = "prepare" => pc[d] = "prepare"
    BY <1>17 DEF Join
  <2>. QED BY <1>17, <2>1, PlanTransfer DEF Join
<1>18. ASSUME NEW c \in Controls, JoinRejected(c)
      PROVE  PlanInv'
  <2>1. \A d \in Controls :
          /\ pc'[d] \in {"assert", "commit"} =>
               pc[d] \in {"assert", "commit"} /\ action'[d] = action[d]
          /\ pc'[d] = "prepare" => pc[d] = "prepare"
    BY <1>18 DEF JoinRejected
  <2>. QED BY <1>18, <2>1, PlanTransfer DEF JoinRejected
<1>19. ASSUME NEW c \in Controls, Release(c)
      PROVE  PlanInv'
  BY <1>19 DEF Release, NewRun, NoPlan
<1>20. ASSUME NEW child \in children, ChildReturns(child)
      PROVE  PlanInv'
  <2>1. \A d \in Controls :
          /\ pc'[d] \in {"assert", "commit"} =>
               pc[d] \in {"assert", "commit"} /\ action'[d] = action[d]
          /\ pc'[d] = "prepare" => pc[d] = "prepare"
    BY <1>20 DEF ChildReturns
  <2>. QED BY <1>20, <2>1, PlanTransfer DEF ChildReturns
<1>21. CASE Expire
  <2>1. \A d \in Controls :
          /\ pc'[d] \in {"assert", "commit"} =>
               pc[d] \in {"assert", "commit"} /\ action'[d] = action[d]
          /\ pc'[d] = "prepare" => pc[d] = "prepare"
    BY <1>21 DEF Expire
  <2>. QED BY <1>21, <2>1, PlanTransfer DEF Expire
<1>22. CASE Crash
  BY <1>22 DEF Crash, NewRun, NoPlan
<1>23. CASE UNCHANGED vars
  BY <1>23
<1>. QED BY <1>1, <1>2, <1>3, <1>4, <1>5, <1>6, <1>7, <1>8, <1>9, <1>10, <1>11,
     <1>12, <1>13, <1>14, <1>15, <1>16, <1>17, <1>18, <1>19, <1>20, <1>21, <1>22, <1>23 DEF Next, Control

(* A step that starts nothing, flushes nothing and takes no task back      *)
(* keeps the children durable.                                             *)
LEMMA ChildTransfer ==
  ASSUME TypeOK, ChildInv,
         \A child \in Child : PastIn(journal, child) => PastIn(journal', child),
         journal.attempts \subseteq journal'.attempts, UNCHANGED durable,
         children' \subseteq children, succeeded' \subseteq succeeded \cup children,
         accepted' \subseteq succeeded',
         \A d \in Controls : Prepared(d)' =>
           /\ Prepared(d) /\ Started(d)' = Started(d)
           /\ pc'[d] = "execute" => pc[d] = "execute"
  PROVE  ChildInv'
<1>1. journal.attempts \subseteq Child /\ children \cup succeeded \subseteq Child
  BY DEF TypeOK, Run
<1>2. ASSUME NEW d \in Controls, Prepared(d)'
      PROVE  /\ Started(d)' \subseteq journal'.attempts
             /\ \A child \in Started(d)' :
                  PastIn(journal', child) /\ (pc'[d] = "execute" => PastIn(durable', child))
  <2>1. Started(d) \subseteq journal.attempts
    BY <1>2 DEF ChildInv
  <2>. QED BY <1>1, <1>2, <2>1 DEF ChildInv
<1>3. \A child \in children' \cup succeeded' : PastIn(journal', child) /\ PastIn(durable', child)
  BY <1>1 DEF ChildInv
<1>4. children' \subseteq journal'.attempts /\ accepted' \subseteq succeeded'
  BY DEF ChildInv
<1>. QED BY <1>2, <1>3, <1>4 DEF ChildInv

(* A step that leaves the journal, its durable part and what was accepted  *)
(* alone.                                                                  *)
LEMMA ChildStill ==
  ASSUME TypeOK, ChildInv, UNCHANGED <<journal, durable, accepted>>,
         children' \subseteq children, succeeded' \in {succeeded} \cup
           {succeeded \cup {child} : child \in children},
         \A d \in Controls : Prepared(d)' => pc'[d] = pc[d],
         \A d \in Controls : Prepared(d)' => Started(d)' = Started(d)
  PROVE  ChildInv'
<1>1. succeeded' \subseteq succeeded \cup children /\ succeeded \subseteq succeeded'
  OBVIOUS
<1>2. \A d \in Controls : Prepared(d)' => Prepared(d)
  BY DEF Prepared
<1>3. accepted' \subseteq succeeded'
  BY <1>1 DEF ChildInv
<1>4. \A child \in Child : PastIn(journal, child) => PastIn(journal', child)
  OBVIOUS
<1>. QED BY <1>1, <1>2, <1>3, <1>4, ChildTransfer

(* Children keep running for durable attempts.                             *)
LEMMA ChildStep ==
  ASSUME TypeOK, StagesInv, FreshInv, PlanInv, ChildInv, [Next]_vars
  PROVE  ChildInv'
<1>. USE ControlAssumption DEF TypeOK, Goto, vars, controlVars, hostVars,
     sessionVars, childVars
<1>1. ASSUME NEW c \in Controls, NEW act \in {"resume", "cancel", "steer"}, Begin(c, act)
      PROVE  ChildInv'
  <2>1. \A d \in Controls : Prepared(d)' => pc'[d] = pc[d]
    BY <1>1 DEF Begin, Prepared
  <2>2. \A d \in Controls : Prepared(d)' => Started(d)' = Started(d)
    BY <1>1, <2>1 DEF Begin, Prepared, Started
  <2>. QED BY <1>1, <2>1, <2>2, ChildStill DEF Begin
<1>2. ASSUME NEW c \in Controls, Acquire(c)
      PROVE  ChildInv'
  <2>1. \A d \in Controls : Prepared(d)' => d # c /\ pc'[d] = pc[d]
    BY <1>2 DEF Acquire, Prepared
  <2>2. \A d \in Controls \ {c} : fence'[d] = fence[d]
    BY <1>2 DEF Acquire
  <2>3. snapshot' = snapshot /\ admitted' = admitted
    BY <1>2 DEF Acquire
  <2>4. \A d \in Controls : Prepared(d)' => Started(d)' = Started(d)
    BY <2>1, <2>2, <2>3 DEF Started
  <2>. QED BY <1>2, <2>1, <2>4, ChildStill DEF Acquire
<1>3. ASSUME NEW c \in Controls, Reread(c)
      PROVE  ChildInv'
  <2>1. \A d \in Controls : Prepared(d)' => pc'[d] = pc[d]
    BY <1>3 DEF Reread, Prepared
  <2>2. \A d \in Controls : Prepared(d)' => Started(d)' = Started(d)
    BY <1>3, <2>1 DEF Reread, Prepared, Started
  <2>. QED BY <1>3, <2>1, <2>2, ChildStill DEF Reread
<1>4. ASSUME NEW c \in Controls, AssertLease(c)
      PROVE  ChildInv'
  <2>1. \A d \in Controls : Prepared(d)' => pc'[d] = pc[d]
    BY <1>4, AssertLeaseMoves DEF Prepared
  <2>2. \A d \in Controls : Prepared(d)' => Started(d)' = Started(d)
    BY <1>4, <2>1 DEF AssertLease, Started
  <2>. QED BY <1>4, <2>1, <2>2, ChildStill DEF AssertLease
<1>5. ASSUME NEW c \in Controls, CommitRecovery(c)
      PROVE  ChildInv'
  <2>1. \A child \in Child : PastIn(journal, child) => PastIn(journal', child)
    BY <1>5, RecoveryMovesOn
  <2>2. \A d \in Controls : Prepared(d)' =>
          /\ Prepared(d) /\ Started(d)' = Started(d)
          /\ pc'[d] = "execute" => pc[d] = "execute"
    BY <1>5 DEF CommitRecovery, Prepared, Started
  <2>3. journal'.attempts = journal.attempts
    BY <1>5, RecoveryEffect
  <2>4. accepted' \subseteq succeeded
    <3>1. \A t \in Tasks : plan[c][t] = "incorporate-receipt" => ChildOf(t, journal) \in succeeded
      BY <1>5 DEF CommitRecovery, MayAppend, FreshInv, PlanInv
    <3>. QED BY <1>5, <3>1 DEF CommitRecovery, ChildInv
  <2>. QED BY <1>5, <2>1, <2>2, <2>3, <2>4, ChildTransfer DEF CommitRecovery
<1>6. ASSUME NEW c \in Controls, CommitCancelIntent(c)
      PROVE  ChildInv'
  <2>1. \A d \in Controls : Prepared(d)' =>
          /\ Prepared(d) /\ Started(d)' = Started(d)
          /\ pc'[d] = "execute" => pc[d] = "execute"
    BY <1>6 DEF CommitCancelIntent, Prepared, Started
  <2>2. journal' = [journal EXCEPT !.intent = TRUE]
        /\ UNCHANGED <<durable, children, succeeded, accepted>>
    BY <1>6 DEF CommitCancelIntent
  <2>3. journal'.attempts = journal.attempts /\ journal'.tasks = journal.tasks
    BY <2>2 DEF Run
  <2>4. \A child \in Child : PastIn(journal, child) => PastIn(journal', child)
    BY <2>3 DEF PastIn, Past
  <2>. QED BY <2>1, <2>2, <2>3, <2>4, ChildTransfer DEF ChildInv
<1>7. ASSUME NEW c \in Controls, CommitSteerProposal(c)
      PROVE  ChildInv'
  <2>1. \A d \in Controls : Prepared(d)' =>
          /\ Prepared(d) /\ Started(d)' = Started(d)
          /\ pc'[d] = "execute" => pc[d] = "execute"
    BY <1>7 DEF CommitSteerProposal, Prepared, Started
  <2>2. journal' = [journal EXCEPT !.proposed = TRUE]
        /\ UNCHANGED <<durable, children, succeeded, accepted>>
    BY <1>7 DEF CommitSteerProposal
  <2>3. journal'.attempts = journal.attempts /\ journal'.tasks = journal.tasks
    BY <2>2 DEF Run
  <2>4. \A child \in Child : PastIn(journal, child) => PastIn(journal', child)
    BY <2>3 DEF PastIn, Past
  <2>. QED BY <2>1, <2>2, <2>3, <2>4, ChildTransfer DEF ChildInv
<1>8. ASSUME NEW c \in Controls, CommitCancelled(c)
      PROVE  ChildInv'
  <2>1. \A d \in Controls : Prepared(d)' =>
          /\ Prepared(d) /\ Started(d)' = Started(d)
          /\ pc'[d] = "execute" => pc[d] = "execute"
    BY <1>8 DEF CommitCancelled, Prepared, Started
  <2>2. journal' = [journal EXCEPT !.status = "cancelled"]
        /\ UNCHANGED <<durable, children, succeeded, accepted>>
    BY <1>8 DEF CommitCancelled
  <2>3. journal'.attempts = journal.attempts /\ journal'.tasks = journal.tasks
    BY <2>2 DEF Run
  <2>4. \A child \in Child : PastIn(journal, child) => PastIn(journal', child)
    BY <2>3 DEF PastIn, Past
  <2>. QED BY <2>1, <2>2, <2>3, <2>4, ChildTransfer DEF ChildInv
<1>9. ASSUME NEW c \in Controls, CommitPrepared(c)
      PROVE  ChildInv'
  <2>1. \A child \in Child : PastIn(journal, child) => PastIn(journal', child)
    BY <1>9, PreparedMovesOn
  <2>2. \A child \in Started(c) : PastIn(journal', child)
    BY <1>9, StartedArePast
  <2>3. \A d \in Controls :
          /\ Started(d)' = Started(d)
          /\ d = c => ~Prepared(d) /\ pc'[d] = "prepare-flush"
          /\ d # c => pc'[d] = pc[d]
    BY <1>9 DEF CommitPrepared, Prepared, Started
  <2>4. journal'.attempts = journal.attempts \cup Started(c) /\ Started(c) \subseteq Child
    BY <1>9, PreparedEffect
  <2>5. UNCHANGED <<durable, children, succeeded, accepted>>
    BY <1>9 DEF CommitPrepared
  <2>6. ASSUME NEW d \in Controls, Prepared(d)'
        PROVE  /\ Started(d) \subseteq journal'.attempts
               /\ \A child \in Started(d) :
                    PastIn(journal', child) /\ (pc'[d] = "execute" => PastIn(durable', child))
    <3>1. CASE d = c
      BY <2>2, <2>3, <2>4, <3>1
    <3>2. CASE d # c
      <4>1. Prepared(d)
        BY <2>3, <2>6, <3>2 DEF Prepared
      <4>2. Started(d) \subseteq journal.attempts /\ journal.attempts \subseteq Child
        BY <4>1 DEF ChildInv, Run
      <4>. QED BY <2>1, <2>3, <2>4, <2>5, <3>2, <4>1, <4>2 DEF ChildInv
    <3>. QED BY <3>1, <3>2
  <2>7. \A child \in children' \cup succeeded' :
          PastIn(journal', child) /\ PastIn(durable', child)
    BY <2>1, <2>5 DEF ChildInv
  <2>. QED BY <2>3, <2>4, <2>5, <2>6, <2>7 DEF ChildInv
<1>10. ASSUME NEW c \in Controls, CommitSettled(c)
      PROVE  ChildInv'
  <2>1. \A child \in Child : PastIn(journal, child) => PastIn(journal', child)
    BY <1>10, SettledMovesOn
  <2>2. \A d \in Controls : Prepared(d)' =>
          /\ Prepared(d) /\ Started(d)' = Started(d)
          /\ pc'[d] = "execute" => pc[d] = "execute"
    BY <1>10 DEF CommitSettled, Prepared, Started
  <2>3. journal'.attempts = journal.attempts
    BY <1>10, SettledEffect
  <2>4. accepted' \subseteq succeeded
    BY <1>10 DEF CommitSettled, ChildInv
  <2>. QED BY <1>10, <2>1, <2>2, <2>3, <2>4, ChildTransfer DEF CommitSettled
<1>11. ASSUME NEW c \in Controls, CommitRejected(c)
      PROVE  ChildInv'
  <2>1. \A d \in Controls : Prepared(d)' => pc'[d] = pc[d]
    BY <1>11 DEF CommitRejected, Throw, Prepared
  <2>2. \A d \in Controls : Prepared(d)' => Started(d)' = Started(d)
    BY <1>11, <2>1 DEF CommitRejected, Throw, Prepared, Started
  <2>. QED BY <1>11, <2>1, <2>2, ChildStill DEF CommitRejected
<1>12. ASSUME NEW c \in Controls, Flush(c)
      PROVE  ChildInv'
  <2>1. \A d \in Controls : Prepared(d)' => Prepared(d) /\ Started(d)' = Started(d)
    BY <1>12 DEF Flush, FlushStages, AfterFlush, Prepared, Started
  <2>2. durable' = journal /\ UNCHANGED <<journal, children, succeeded, accepted>>
    BY <1>12 DEF Flush
  <2>3. \A child : PastIn(durable', child) = PastIn(journal, child)
                   /\ PastIn(journal', child) = PastIn(journal, child)
    BY <2>2
  <2>. QED BY <2>1, <2>2, <2>3 DEF ChildInv
<1>13. ASSUME NEW c \in Controls, FlushUnavailable(c)
      PROVE  ChildInv'
  <2>1. \A d \in Controls : Prepared(d)' => pc'[d] = pc[d]
    BY <1>13 DEF FlushUnavailable, FlushStages, Throw, Prepared
  <2>2. \A d \in Controls : Prepared(d)' => Started(d)' = Started(d)
    BY <1>13, <2>1 DEF FlushUnavailable, FlushStages, Throw, Prepared, Started
  <2>. QED BY <1>13, <2>1, <2>2, ChildStill DEF FlushUnavailable
<1>14. ASSUME NEW c \in Controls, CancelLiveChildren(c)
      PROVE  ChildInv'
  <2>1. \A d \in Controls : Prepared(d)' => pc'[d] = pc[d]
    BY <1>14 DEF CancelLiveChildren, Prepared
  <2>2. \A d \in Controls : Prepared(d)' => Started(d)' = Started(d)
    BY <1>14, <2>1 DEF CancelLiveChildren, Prepared, Started
  <2>. QED BY <1>14, <2>1, <2>2, ChildStill DEF CancelLiveChildren
<1>15. ASSUME NEW c \in Controls, Activate(c)
      PROVE  ChildInv'
  <2>1. \A d \in Controls : Prepared(d)' => pc'[d] = pc[d]
    BY <1>15 DEF Activate, Prepared
  <2>2. \A d \in Controls : Prepared(d)' => Started(d)' = Started(d)
    BY <1>15, <2>1 DEF Activate, Prepared, Started
  <2>. QED BY <1>15, <2>1, <2>2, ChildStill DEF Activate
<1>16. ASSUME NEW c \in Controls, Execute(c)
      PROVE  ChildInv'
  <2>1. CASE admission
    <3>1. \A d \in Controls : Prepared(d)' => d # c /\ pc'[d] = pc[d]
      BY <1>16, <2>1 DEF Execute, Prepared
    <3>2. children' = children \cup Started(c)
      BY <1>16, <2>1 DEF Execute
    <3>3. /\ Started(c) \subseteq journal.attempts
          /\ \A child \in Started(c) : PastIn(journal, child) /\ PastIn(durable, child)
      BY <1>16 DEF Execute, ChildInv, Prepared
    <3>. QED BY <1>16, <3>1, <3>2, <3>3 DEF Execute, ChildInv, Prepared, Started
  <2>2. CASE ~admission
    <3>1. \A d \in Controls : Prepared(d)' => pc'[d] = pc[d]
      BY <1>16, <2>2 DEF Execute, Throw, Prepared
    <3>2. \A d \in Controls : Prepared(d)' => Started(d)' = Started(d)
      BY <1>16, <3>1 DEF Execute, Prepared, Started
    <3>. QED BY <1>16, <2>2, <3>1, <3>2, ChildStill DEF Execute
  <2>. QED BY <2>1, <2>2
<1>17. ASSUME NEW c \in Controls, Join(c)
      PROVE  ChildInv'
  <2>1. \A d \in Controls : Prepared(d)' => pc'[d] = pc[d]
    BY <1>17 DEF Join, Prepared
  <2>2. \A d \in Controls : Prepared(d)' => Started(d)' = Started(d)
    BY <1>17, <2>1 DEF Join, Prepared, Started
  <2>. QED BY <1>17, <2>1, <2>2, ChildStill DEF Join
<1>18. ASSUME NEW c \in Controls, JoinRejected(c)
      PROVE  ChildInv'
  <2>1. \A d \in Controls : Prepared(d)' => pc'[d] = pc[d]
    BY <1>18 DEF JoinRejected, Throw, Prepared
  <2>2. \A d \in Controls : Prepared(d)' => Started(d)' = Started(d)
    BY <1>18, <2>1 DEF JoinRejected, Throw, Prepared, Started
  <2>. QED BY <1>18, <2>1, <2>2, ChildStill DEF JoinRejected
<1>19. ASSUME NEW c \in Controls, Release(c)
      PROVE  ChildInv'
  <2>1. \A d \in Controls : Prepared(d)' => pc'[d] = pc[d]
    BY <1>19 DEF Release, NewRun, NoPlan, Prepared
  <2>2. \A d \in Controls : Prepared(d)' => Started(d)' = Started(d)
    BY <1>19, <2>1 DEF Release, NewRun, NoPlan, Prepared, Started
  <2>. QED BY <1>19, <2>1, <2>2, ChildStill DEF Release
<1>20. ASSUME NEW child \in children, ChildReturns(child)
      PROVE  ChildInv'
  <2>1. \A d \in Controls : Prepared(d)' => pc'[d] = pc[d]
    BY <1>20 DEF ChildReturns, Prepared
  <2>2. \A d \in Controls : Prepared(d)' => Started(d)' = Started(d)
    BY <1>20, <2>1 DEF ChildReturns, Prepared, Started
  <2>. QED BY <1>20, <2>1, <2>2, ChildStill DEF ChildReturns
<1>21. CASE Expire
  <2>1. \A d \in Controls : Prepared(d)' => pc'[d] = pc[d]
    BY <1>21 DEF Expire, Prepared
  <2>2. \A d \in Controls : Prepared(d)' => Started(d)' = Started(d)
    BY <1>21, <2>1 DEF Expire, Prepared, Started
  <2>. QED BY <1>21, <2>1, <2>2, ChildStill DEF Expire
<1>22. CASE Crash
  BY <1>22 DEF Crash, NewRun, NoPlan, ChildInv, Prepared, Started, PastIn, Past
<1>23. CASE UNCHANGED vars
  BY <1>23 DEF ChildInv, Prepared, Started
<1>. QED BY <1>1, <1>2, <1>3, <1>4, <1>5, <1>6, <1>7, <1>8, <1>9, <1>10, <1>11,
     <1>12, <1>13, <1>14, <1>15, <1>16, <1>17, <1>18, <1>19, <1>20, <1>21, <1>22, <1>23 DEF Next, Control

(* A step that starts nothing and flushes nothing keeps the records of the *)
(* children.                                                               *)
LEMMA RecordTransfer ==
  ASSUME TypeOK, RecordInv, UNCHANGED durable, children' \subseteq children,
         RunsAttempt(journal)',
         \A d \in Controls : pc'[d] = "execute" =>
           pc[d] = "execute" /\ Started(d)' = Started(d)
  PROVE  RecordInv'
  BY DEF RecordInv, RunsAttempt

(* No commit leaves a task running without an attempt.                     *)
LEMMA RecoveryRuns ==
  ASSUME TypeOK, RunsAttempt(journal), NEW c \in Controls, CommitRecovery(c)
  PROVE  RunsAttempt(journal)'
<1>1. ASSUME NEW t \in Tasks, journal'.tasks[t].status = "running"
      PROVE  journal'.tasks[t].attempt # 0
  <2>1. journal'.tasks[t] = Recovered(journal.tasks[t], plan[c][t])
    BY RecoveryEffect
  <2>2. journal.tasks[t] \in Task
    BY DEF TypeOK, Run
  <2>3. journal'.tasks[t] = journal.tasks[t]
    BY <1>1, <2>1, <2>2 DEF Recovered, Task
  <2>. QED BY <1>1, <2>3 DEF RunsAttempt
<1>. QED BY <1>1 DEF RunsAttempt

LEMMA PreparedRuns ==
  ASSUME TypeOK, RunsAttempt(journal), NEW c \in Controls, CommitPrepared(c)
  PROVE  RunsAttempt(journal)'
<1>1. fence[c] \in 1..MaxFence
  BY HolderHasFence DEF CommitPrepared, MayAppend
<1>2. ASSUME NEW t \in Tasks, journal'.tasks[t].status = "running"
      PROVE  journal'.tasks[t].attempt # 0
  <2>1. journal.tasks[t] \in Task
    BY DEF TypeOK, Run
  <2>2. CASE t \in admitted[c]
    <3>1. journal'.tasks[t] = [journal.tasks[t] EXCEPT !.status = "running", !.attempt = fence[c]]
      BY <2>2, PreparedEffect
    <3>. QED BY <1>1, <2>1, <3>1 DEF Task
  <2>3. CASE t \notin admitted[c]
    BY <1>2, <2>3, PreparedEffect DEF RunsAttempt
  <2>. QED BY <2>2, <2>3
<1>. QED BY <1>2 DEF RunsAttempt

LEMMA SettledRuns ==
  ASSUME TypeOK, RunsAttempt(journal), NEW c \in Controls, CommitSettled(c)
  PROVE  RunsAttempt(journal)'
<1>1. ASSUME NEW t \in Tasks, journal'.tasks[t].status = "running"
      PROVE  journal'.tasks[t].attempt # 0
  <2>1. journal.tasks[t] \in Task
    BY DEF TypeOK, Run
  <2>2. journal'.tasks[t] = journal.tasks[t]
    BY <1>1, <2>1, SettledEffect DEF Task
  <2>. QED BY <1>1, <2>2 DEF RunsAttempt
<1>. QED BY <1>1 DEF RunsAttempt

(* The attempts of the children stay recorded.                             *)
LEMMA RecordStep ==
  ASSUME TypeOK, StagesInv, ChildInv, RecordInv, [Next]_vars
  PROVE  RecordInv'
<1>. USE DEF TypeOK, Goto, vars, controlVars, hostVars, sessionVars, childVars
<1>0. RunsAttempt(journal)
  BY DEF RecordInv
<1>1. ASSUME NEW c \in Controls, NEW act \in {"resume", "cancel", "steer"}, Begin(c, act)
      PROVE  RecordInv'
  <2>1. \A d \in Controls : pc'[d] = "execute" => pc[d] = "execute" /\ Started(d)' = Started(d)
    BY <1>1 DEF Begin, Started
  <2>2. UNCHANGED durable /\ children' \subseteq children
    BY <1>1 DEF Begin
  <2>3. RunsAttempt(journal)'
    BY <1>0, <1>1 DEF Begin, RunsAttempt
  <2>. QED BY <2>1, <2>2, <2>3, RecordTransfer
<1>2. ASSUME NEW c \in Controls, Acquire(c)
      PROVE  RecordInv'
  <2>1. \A d \in Controls : pc'[d] = "execute" => pc[d] = "execute" /\ Started(d)' = Started(d)
    BY <1>2 DEF Acquire, Started
  <2>2. UNCHANGED durable /\ children' \subseteq children
    BY <1>2 DEF Acquire
  <2>3. RunsAttempt(journal)'
    BY <1>0, <1>2 DEF Acquire, RunsAttempt
  <2>. QED BY <2>1, <2>2, <2>3, RecordTransfer
<1>3. ASSUME NEW c \in Controls, Reread(c)
      PROVE  RecordInv'
  <2>1. \A d \in Controls : pc'[d] = "execute" => pc[d] = "execute" /\ Started(d)' = Started(d)
    BY <1>3 DEF Reread, Started
  <2>2. UNCHANGED durable /\ children' \subseteq children
    BY <1>3 DEF Reread
  <2>3. RunsAttempt(journal)'
    BY <1>0, <1>3 DEF Reread, RunsAttempt
  <2>. QED BY <2>1, <2>2, <2>3, RecordTransfer
<1>4. ASSUME NEW c \in Controls, AssertLease(c)
      PROVE  RecordInv'
  <2>1. \A d \in Controls : pc'[d] = "execute" => pc[d] = "execute" /\ Started(d)' = Started(d)
    BY <1>4, AssertLeaseMoves DEF Started
  <2>2. UNCHANGED durable /\ children' \subseteq children
    BY <1>4 DEF AssertLease
  <2>3. RunsAttempt(journal)'
    BY <1>0, <1>4 DEF AssertLease, RunsAttempt
  <2>. QED BY <2>1, <2>2, <2>3, RecordTransfer
<1>5. ASSUME NEW c \in Controls, CommitRecovery(c)
      PROVE  RecordInv'
  <2>1. \A d \in Controls : pc'[d] = "execute" => pc[d] = "execute" /\ Started(d)' = Started(d)
    BY <1>5 DEF CommitRecovery, Started
  <2>2. UNCHANGED durable /\ children' \subseteq children
    BY <1>5 DEF CommitRecovery
  <2>3. RunsAttempt(journal)'
    BY <1>0, <1>5, RecoveryRuns
  <2>. QED BY <2>1, <2>2, <2>3, RecordTransfer
<1>6. ASSUME NEW c \in Controls, CommitCancelIntent(c)
      PROVE  RecordInv'
  <2>1. \A d \in Controls : pc'[d] = "execute" => pc[d] = "execute" /\ Started(d)' = Started(d)
    BY <1>6 DEF CommitCancelIntent, Started
  <2>2. UNCHANGED durable /\ children' \subseteq children
    BY <1>6 DEF CommitCancelIntent
  <2>3. journal'.tasks = journal.tasks
    BY <1>6 DEF CommitCancelIntent, Run
  <2>4. RunsAttempt(journal)'
    BY <1>0, <2>3 DEF RunsAttempt
  <2>. QED BY <2>1, <2>2, <2>4, RecordTransfer
<1>7. ASSUME NEW c \in Controls, CommitSteerProposal(c)
      PROVE  RecordInv'
  <2>1. \A d \in Controls : pc'[d] = "execute" => pc[d] = "execute" /\ Started(d)' = Started(d)
    BY <1>7 DEF CommitSteerProposal, Started
  <2>2. UNCHANGED durable /\ children' \subseteq children
    BY <1>7 DEF CommitSteerProposal
  <2>3. journal'.tasks = journal.tasks
    BY <1>7 DEF CommitSteerProposal, Run
  <2>4. RunsAttempt(journal)'
    BY <1>0, <2>3 DEF RunsAttempt
  <2>. QED BY <2>1, <2>2, <2>4, RecordTransfer
<1>8. ASSUME NEW c \in Controls, CommitCancelled(c)
      PROVE  RecordInv'
  <2>1. \A d \in Controls : pc'[d] = "execute" => pc[d] = "execute" /\ Started(d)' = Started(d)
    BY <1>8 DEF CommitCancelled, Started
  <2>2. UNCHANGED durable /\ children' \subseteq children
    BY <1>8 DEF CommitCancelled
  <2>3. journal'.tasks = journal.tasks
    BY <1>8 DEF CommitCancelled, Run
  <2>4. RunsAttempt(journal)'
    BY <1>0, <2>3 DEF RunsAttempt
  <2>. QED BY <2>1, <2>2, <2>4, RecordTransfer
<1>9. ASSUME NEW c \in Controls, CommitPrepared(c)
      PROVE  RecordInv'
  <2>1. \A d \in Controls : pc'[d] = "execute" => pc[d] = "execute" /\ Started(d)' = Started(d)
    BY <1>9 DEF CommitPrepared, Started
  <2>2. UNCHANGED durable /\ children' \subseteq children
    BY <1>9 DEF CommitPrepared
  <2>3. RunsAttempt(journal)'
    BY <1>0, <1>9, PreparedRuns
  <2>. QED BY <2>1, <2>2, <2>3, RecordTransfer
<1>10. ASSUME NEW c \in Controls, CommitSettled(c)
      PROVE  RecordInv'
  <2>1. \A d \in Controls : pc'[d] = "execute" => pc[d] = "execute" /\ Started(d)' = Started(d)
    BY <1>10 DEF CommitSettled, Started
  <2>2. UNCHANGED durable /\ children' \subseteq children
    BY <1>10 DEF CommitSettled
  <2>3. RunsAttempt(journal)'
    BY <1>0, <1>10, SettledRuns
  <2>. QED BY <2>1, <2>2, <2>3, RecordTransfer
<1>11. ASSUME NEW c \in Controls, CommitRejected(c)
      PROVE  RecordInv'
  <2>1. \A d \in Controls : pc'[d] = "execute" => pc[d] = "execute" /\ Started(d)' = Started(d)
    BY <1>11 DEF CommitRejected, Throw, Started
  <2>2. UNCHANGED durable /\ children' \subseteq children
    BY <1>11 DEF CommitRejected
  <2>3. RunsAttempt(journal)'
    BY <1>0, <1>11 DEF CommitRejected, RunsAttempt
  <2>. QED BY <2>1, <2>2, <2>3, RecordTransfer
<1>12. ASSUME NEW c \in Controls, Flush(c)
      PROVE  RecordInv'
  <2>1. \A d \in Controls : pc'[d] = "execute" => Prepared(d) /\ Started(d)' = Started(d)
    BY <1>12 DEF Flush, FlushStages, AfterFlush, Prepared, Started
  <2>2. durable' = journal /\ UNCHANGED <<journal, children>>
    BY <1>12 DEF Flush
  <2>. QED BY <2>1, <2>2 DEF ChildInv, RecordInv, RunsAttempt
<1>13. ASSUME NEW c \in Controls, FlushUnavailable(c)
      PROVE  RecordInv'
  <2>1. \A d \in Controls : pc'[d] = "execute" => pc[d] = "execute" /\ Started(d)' = Started(d)
    BY <1>13 DEF FlushUnavailable, FlushStages, Throw, Started
  <2>2. UNCHANGED durable /\ children' \subseteq children
    BY <1>13 DEF FlushUnavailable
  <2>3. RunsAttempt(journal)'
    BY <1>0, <1>13 DEF FlushUnavailable, RunsAttempt
  <2>. QED BY <2>1, <2>2, <2>3, RecordTransfer
<1>14. ASSUME NEW c \in Controls, CancelLiveChildren(c)
      PROVE  RecordInv'
  <2>1. \A d \in Controls : pc'[d] = "execute" => pc[d] = "execute" /\ Started(d)' = Started(d)
    BY <1>14 DEF CancelLiveChildren, Started
  <2>2. UNCHANGED durable /\ children' \subseteq children
    BY <1>14 DEF CancelLiveChildren
  <2>3. RunsAttempt(journal)'
    BY <1>0, <1>14 DEF CancelLiveChildren, RunsAttempt
  <2>. QED BY <2>1, <2>2, <2>3, RecordTransfer
<1>15. ASSUME NEW c \in Controls, Activate(c)
      PROVE  RecordInv'
  <2>1. \A d \in Controls : pc'[d] = "execute" => pc[d] = "execute" /\ Started(d)' = Started(d)
    BY <1>15 DEF Activate, Started
  <2>2. UNCHANGED durable /\ children' \subseteq children
    BY <1>15 DEF Activate
  <2>3. RunsAttempt(journal)'
    BY <1>0, <1>15 DEF Activate, RunsAttempt
  <2>. QED BY <2>1, <2>2, <2>3, RecordTransfer
<1>16. ASSUME NEW c \in Controls, Execute(c)
      PROVE  RecordInv'
  <2>1. CASE admission
    <3>1. \A d \in Controls : pc'[d] = "execute" => pc[d] = "execute" /\ Started(d)' = Started(d)
      BY <1>16, <2>1 DEF Execute, Started
    <3>2. children' = children \cup Started(c) /\ pc[c] = "execute" /\ UNCHANGED <<journal, durable>>
      BY <1>16, <2>1 DEF Execute
    <3>. QED BY <3>1, <3>2 DEF RecordInv, RunsAttempt
  <2>2. CASE ~admission
    <3>1. \A d \in Controls : pc'[d] = "execute" => pc[d] = "execute" /\ Started(d)' = Started(d)
      BY <1>16, <2>2 DEF Execute, Throw, Started
    <3>2. UNCHANGED <<journal, durable, children>>
      BY <1>16, <2>2 DEF Execute
    <3>. QED BY <1>0, <3>1, <3>2, RecordTransfer DEF RunsAttempt
  <2>. QED BY <2>1, <2>2
<1>17. ASSUME NEW c \in Controls, Join(c)
      PROVE  RecordInv'
  <2>1. \A d \in Controls : pc'[d] = "execute" => pc[d] = "execute" /\ Started(d)' = Started(d)
    BY <1>17 DEF Join, Started
  <2>2. UNCHANGED durable /\ children' \subseteq children
    BY <1>17 DEF Join
  <2>3. RunsAttempt(journal)'
    BY <1>0, <1>17 DEF Join, RunsAttempt
  <2>. QED BY <2>1, <2>2, <2>3, RecordTransfer
<1>18. ASSUME NEW c \in Controls, JoinRejected(c)
      PROVE  RecordInv'
  <2>1. \A d \in Controls : pc'[d] = "execute" => pc[d] = "execute" /\ Started(d)' = Started(d)
    BY <1>18 DEF JoinRejected, Throw, Started
  <2>2. UNCHANGED durable /\ children' \subseteq children
    BY <1>18 DEF JoinRejected
  <2>3. RunsAttempt(journal)'
    BY <1>0, <1>18 DEF JoinRejected, RunsAttempt
  <2>. QED BY <2>1, <2>2, <2>3, RecordTransfer
<1>19. ASSUME NEW c \in Controls, Release(c)
      PROVE  RecordInv'
  <2>1. \A d \in Controls : pc'[d] = "execute" => pc[d] = "execute" /\ Started(d)' = Started(d)
    BY <1>19 DEF Release, NewRun, NoPlan, Started
  <2>2. UNCHANGED durable /\ children' \subseteq children
    BY <1>19 DEF Release
  <2>3. RunsAttempt(journal)'
    BY <1>0, <1>19 DEF Release, RunsAttempt
  <2>. QED BY <2>1, <2>2, <2>3, RecordTransfer
<1>20. ASSUME NEW child \in children, ChildReturns(child)
      PROVE  RecordInv'
  <2>1. \A d \in Controls : pc'[d] = "execute" => pc[d] = "execute" /\ Started(d)' = Started(d)
    BY <1>20 DEF ChildReturns, Started
  <2>. QED BY <1>0, <1>20, <2>1, RecordTransfer DEF ChildReturns, RunsAttempt
<1>21. CASE Expire
  <2>1. \A d \in Controls : pc'[d] = "execute" => pc[d] = "execute" /\ Started(d)' = Started(d)
    BY <1>21 DEF Expire, Started
  <2>. QED BY <1>0, <1>21, <2>1, RecordTransfer DEF Expire, RunsAttempt
<1>22. CASE Crash
  BY <1>22 DEF Crash, RecordInv, RunsAttempt
<1>23. CASE UNCHANGED vars
  BY <1>23 DEF RecordInv, RunsAttempt, Started
<1>. QED BY <1>1, <1>2, <1>3, <1>4, <1>5, <1>6, <1>7, <1>8, <1>9, <1>10, <1>11,
     <1>12, <1>13, <1>14, <1>15, <1>16, <1>17, <1>18, <1>19, <1>20, <1>21, <1>22, <1>23 DEF Next, Control

(* A child that returned is the child of its task's attempt, if its task   *)
(* has its generation and an attempt still.                                *)
LEMMA ReturnedIsCurrent ==
  ASSUME TypeOK, ChildInv, NEW x \in succeeded, NEW y \in Child,
         y = ChildOf(y.task, journal), x.task = y.task, x.generation = y.generation
  PROVE  x = y
<1>1. x \in Child /\ PastIn(journal, x)
  BY DEF TypeOK, ChildInv
<1>2. /\ journal.tasks[x.task].generation = x.generation
      /\ journal.tasks[x.task].attempt = y.fence
  BY DEF ChildOf
<1>3. y.fence \in 1..MaxFence /\ x.generation \in Nat
  BY <1>1, ControlAssumption DEF Child, ControlAssumption
<1>4. y.fence = x.fence
  BY <1>1, <1>2, <1>3 DEF PastIn, Past
<1>. QED BY <1>1, <1>4 DEF Child

(* Results that are accepted together with old ones, and are all of        *)
(* current children, are still one per generation.                         *)
LEMMA AcceptCurrent ==
  ASSUME TypeOK, ChildInv, AcceptedOncePerGeneration,
         NEW current \in SUBSET succeeded,
         \A y \in current : y = ChildOf(y.task, journal),
         accepted' = accepted \cup current
  PROVE  AcceptedOncePerGeneration'
<1>1. current \subseteq Child /\ accepted \subseteq succeeded
  BY DEF TypeOK, ChildInv
<1>2. ASSUME NEW x \in accepted', NEW y \in accepted',
             x.task = y.task, x.generation = y.generation
      PROVE  x = y
  <2>1. CASE x \in accepted /\ y \in accepted
    BY <1>2, <2>1 DEF AcceptedOncePerGeneration
  <2>2. CASE y \in current
    BY <1>1, <1>2, <2>2, ReturnedIsCurrent
  <2>3. CASE x \in current
    BY <1>1, <1>2, <2>3, ReturnedIsCurrent
  <2>. QED BY <1>2, <2>1, <2>2, <2>3
<1>. QED BY <1>2 DEF AcceptedOncePerGeneration

(* Only results of current children are accepted.                          *)
LEMMA AcceptStep ==
  ASSUME TypeOK, FreshInv, PlanInv, ChildInv, AcceptedOncePerGeneration, [Next]_vars
  PROVE  AcceptedOncePerGeneration'
<1>. USE DEF vars, controlVars, hostVars, sessionVars, childVars
<1>1. ASSUME NEW c \in Controls, NEW act \in {"resume", "cancel", "steer"}, Begin(c, act)
      PROVE  AcceptedOncePerGeneration'
  BY <1>1 DEF Begin, AcceptedOncePerGeneration
<1>2. ASSUME NEW c \in Controls, Acquire(c)
      PROVE  AcceptedOncePerGeneration'
  BY <1>2 DEF Acquire, AcceptedOncePerGeneration
<1>3. ASSUME NEW c \in Controls, Reread(c)
      PROVE  AcceptedOncePerGeneration'
  BY <1>3 DEF Reread, AcceptedOncePerGeneration
<1>4. ASSUME NEW c \in Controls, AssertLease(c)
      PROVE  AcceptedOncePerGeneration'
  BY <1>4 DEF AssertLease, AcceptedOncePerGeneration
<1>5. ASSUME NEW c \in Controls, CommitRecovery(c)
      PROVE  AcceptedOncePerGeneration'
  <2>. DEFINE current ==
         {ChildOf(t, journal) : t \in {u \in Tasks : plan[c][u] = "incorporate-receipt"}}
  <2>1. current \subseteq succeeded
    BY <1>5 DEF CommitRecovery, MayAppend, Holds, FreshInv, PlanInv
  <2>2. \A y \in current : y = ChildOf(y.task, journal)
    BY DEF ChildOf
  <2>3. accepted' = accepted \cup current
    BY <1>5 DEF CommitRecovery
  <2>. QED BY <2>1, <2>2, <2>3, AcceptCurrent
<1>6. ASSUME NEW c \in Controls, CommitCancelIntent(c)
      PROVE  AcceptedOncePerGeneration'
  BY <1>6 DEF CommitCancelIntent, AcceptedOncePerGeneration
<1>7. ASSUME NEW c \in Controls, CommitSteerProposal(c)
      PROVE  AcceptedOncePerGeneration'
  BY <1>7 DEF CommitSteerProposal, AcceptedOncePerGeneration
<1>8. ASSUME NEW c \in Controls, CommitCancelled(c)
      PROVE  AcceptedOncePerGeneration'
  BY <1>8 DEF CommitCancelled, AcceptedOncePerGeneration
<1>9. ASSUME NEW c \in Controls, CommitPrepared(c)
      PROVE  AcceptedOncePerGeneration'
  BY <1>9 DEF CommitPrepared, AcceptedOncePerGeneration
<1>10. ASSUME NEW c \in Controls, CommitSettled(c)
      PROVE  AcceptedOncePerGeneration'
  <2>. DEFINE current == Started(c) \cap succeeded
  <2>1. \A y \in current : y = ChildOf(y.task, journal)
    BY <1>10 DEF CommitSettled, AcceptsResult, ChildOf, Started
  <2>2. accepted' = accepted \cup current
    BY <1>10 DEF CommitSettled
  <2>. QED BY <2>1, <2>2, AcceptCurrent
<1>11. ASSUME NEW c \in Controls, CommitRejected(c)
      PROVE  AcceptedOncePerGeneration'
  BY <1>11 DEF CommitRejected, AcceptedOncePerGeneration
<1>12. ASSUME NEW c \in Controls, Flush(c)
      PROVE  AcceptedOncePerGeneration'
  BY <1>12 DEF Flush, AcceptedOncePerGeneration
<1>13. ASSUME NEW c \in Controls, FlushUnavailable(c)
      PROVE  AcceptedOncePerGeneration'
  BY <1>13 DEF FlushUnavailable, AcceptedOncePerGeneration
<1>14. ASSUME NEW c \in Controls, CancelLiveChildren(c)
      PROVE  AcceptedOncePerGeneration'
  BY <1>14 DEF CancelLiveChildren, AcceptedOncePerGeneration
<1>15. ASSUME NEW c \in Controls, Activate(c)
      PROVE  AcceptedOncePerGeneration'
  BY <1>15 DEF Activate, AcceptedOncePerGeneration
<1>16. ASSUME NEW c \in Controls, Execute(c)
      PROVE  AcceptedOncePerGeneration'
  BY <1>16 DEF Execute, AcceptedOncePerGeneration
<1>17. ASSUME NEW c \in Controls, Join(c)
      PROVE  AcceptedOncePerGeneration'
  BY <1>17 DEF Join, AcceptedOncePerGeneration
<1>18. ASSUME NEW c \in Controls, JoinRejected(c)
      PROVE  AcceptedOncePerGeneration'
  BY <1>18 DEF JoinRejected, AcceptedOncePerGeneration
<1>19. ASSUME NEW c \in Controls, Release(c)
      PROVE  AcceptedOncePerGeneration'
  BY <1>19 DEF Release, AcceptedOncePerGeneration
<1>20. ASSUME NEW child \in children, ChildReturns(child)
      PROVE  AcceptedOncePerGeneration'
  BY <1>20 DEF ChildReturns, AcceptedOncePerGeneration
<1>21. CASE Expire
  BY <1>21 DEF Expire, AcceptedOncePerGeneration
<1>22. CASE Crash
  BY <1>22 DEF Crash, AcceptedOncePerGeneration
<1>23. CASE UNCHANGED vars
  BY <1>23 DEF AcceptedOncePerGeneration
<1>. QED BY <1>1, <1>2, <1>3, <1>4, <1>5, <1>6, <1>7, <1>8, <1>9, <1>10, <1>11,
     <1>12, <1>13, <1>14, <1>15, <1>16, <1>17, <1>18, <1>19, <1>20, <1>21, <1>22, <1>23 DEF Next, Control

(* A step that starts nothing, flushes nothing and makes no task pending   *)
(* keeps the ambiguous writes apart.                                       *)
LEMMA StartTransfer ==
  ASSUME TypeOK, StartInv, UNCHANGED <<durable, starts>>,
         \A t \in NonIdempotent : journal.tasks[t].status # "pending"
                                  => journal'.tasks[t].status # "pending",
         \A d \in Controls : Prepared(d)' =>
           /\ Prepared(d) /\ admitted'[d] = admitted[d]
           /\ pc'[d] = "execute" => pc[d] = "execute"
  PROVE  StartInv'
  BY DEF StartInv

(* Ambiguous writes start once.                                            *)
LEMMA StartStep ==
  ASSUME TypeOK, StagesInv, FreshInv, PlanInv, StartInv, [Next]_vars
  PROVE  StartInv'
<1>. USE ControlAssumption DEF Goto, vars, controlVars, hostVars, sessionVars,
     childVars
<1>1. ASSUME NEW c \in Controls, NEW act \in {"resume", "cancel", "steer"}, Begin(c, act)
      PROVE  StartInv'
  BY <1>1 DEF Begin, StartInv, Prepared, TypeOK
<1>2. ASSUME NEW c \in Controls, Acquire(c)
      PROVE  StartInv'
  <2>1. \A d \in Controls : Prepared(d)' =>
          /\ Prepared(d) /\ admitted'[d] = admitted[d]
          /\ pc'[d] = "execute" => pc[d] = "execute"
    BY <1>2 DEF Acquire, Prepared, TypeOK
  <2>2. UNCHANGED <<journal, durable, starts>>
    BY <1>2 DEF Acquire
  <2>. QED BY <2>1, <2>2, StartTransfer
<1>3. ASSUME NEW c \in Controls, Reread(c)
      PROVE  StartInv'
  BY <1>3 DEF Reread, StartInv, Prepared, TypeOK
<1>4. ASSUME NEW c \in Controls, AssertLease(c)
      PROVE  StartInv'
  <2>1. \A d \in Controls : Prepared(d)' =>
          /\ Prepared(d) /\ admitted'[d] = admitted[d]
          /\ pc'[d] = "execute" => pc[d] = "execute"
    BY ZenonT(40), <1>4, AssertLeaseMoves DEF AssertLease, Prepared, TypeOK
  <2>2. UNCHANGED <<journal, durable, starts>>
    BY <1>4 DEF AssertLease
  <2>. QED BY <2>1, <2>2, StartTransfer
<1>5. ASSUME NEW c \in Controls, CommitRecovery(c)
      PROVE  StartInv'
  <2>1. \A d \in Controls : Prepared(d)' =>
          /\ Prepared(d) /\ admitted'[d] = admitted[d]
          /\ pc'[d] = "execute" => pc[d] = "execute"
    BY <1>5 DEF CommitRecovery, Prepared, TypeOK
  <2>2. \A t \in NonIdempotent : journal.tasks[t].status # "pending"
                                 => journal'.tasks[t].status # "pending"
    <3>. TAKE t \in NonIdempotent
    <3>1. t \in Tasks
      BY DEF NonIdempotent
    <3>2. journal.tasks[t] \in Task /\ plan[c][t] \in RecoveryActions
      BY <3>1 DEF TypeOK, Run
    <3>3. plan[c][t] # "retry"
      BY <1>5, <3>1 DEF CommitRecovery, MayAppend, PlanInv
    <3>4. journal'.tasks[t] = Recovered(journal.tasks[t], plan[c][t])
      BY <1>5, <3>1, RecoveryEffect
    <3>. QED BY <3>2, <3>3, <3>4, RecoveredTask
  <2>. QED BY <1>5, <2>1, <2>2, StartTransfer DEF CommitRecovery
<1>6. ASSUME NEW c \in Controls, CommitCancelIntent(c)
      PROVE  StartInv'
  BY <1>6 DEF CommitCancelIntent, MayAppend, StartInv, Prepared, TypeOK
<1>7. ASSUME NEW c \in Controls, CommitSteerProposal(c)
      PROVE  StartInv'
  BY <1>7 DEF CommitSteerProposal, MayAppend, StartInv, Prepared, TypeOK
<1>8. ASSUME NEW c \in Controls, CommitCancelled(c)
      PROVE  StartInv'
  BY <1>8 DEF CommitCancelled, MayAppend, StartInv, Prepared, TypeOK
<1>9. ASSUME NEW c \in Controls, CommitPrepared(c)
      PROVE  StartInv'
  <2>1. \A d \in Controls :
          /\ Prepared(d)' => d = c \/ Prepared(d)
          /\ pc'[d] = "execute" => d # c /\ pc[d] = "execute"
    BY <1>9 DEF CommitPrepared, Prepared, TypeOK
  <2>2. UNCHANGED <<admitted, durable, starts>>
    BY <1>9 DEF CommitPrepared
  <2>3. ASSUME NEW t \in admitted[c] \cap NonIdempotent
        PROVE  /\ journal.tasks[t].status = "pending"
               /\ journal'.tasks[t].status # "pending"
               /\ starts[t] = 0
    <3>1. t \in Tasks
      BY DEF NonIdempotent
    <3>2. journal.tasks[t] \in Task /\ starts[t] \in Nat
      BY <3>1 DEF TypeOK, Run
    <3>3. journal.tasks[t].status = "pending"
      BY <1>9 DEF CommitPrepared, MayAppend, FreshInv, PlanInv, Ready
    <3>4. starts[t] = 0
      BY <3>2, <3>3 DEF StartInv
    <3>5. journal'.tasks[t] = [journal.tasks[t] EXCEPT !.status = "running", !.attempt = fence[c]]
      BY <1>9, <3>1, PreparedEffect
    <3>. QED BY <3>2, <3>3, <3>4, <3>5 DEF Task
  <2>4. \A t \in NonIdempotent : journal.tasks[t].status # "pending"
                                 => journal'.tasks[t].status # "pending"
    BY <1>9, <2>3, PreparedEffect DEF NonIdempotent
  <2>5. ASSUME NEW d \in Controls, d # c, Prepared(d)'
        PROVE  /\ Prepared(d) /\ admitted[c] \cap admitted[d] \cap NonIdempotent = {}
    <3>1. Prepared(d)
      BY <2>1, <2>5 DEF Prepared
    <3>2. \A t \in admitted[d] \cap NonIdempotent : journal.tasks[t].status # "pending"
      BY <3>1 DEF StartInv
    <3>. QED BY <2>3, <3>1, <3>2
  <2>6. \A t \in NonIdempotent :
          /\ starts[t] <= 1
          /\ starts[t] = 1 => /\ journal'.tasks[t].status # "pending"
                              /\ durable.tasks[t].status # "pending"
    BY <2>4 DEF StartInv
  <2>7. \A d \in Controls : Prepared(d)' => \A t \in admitted[d] \cap NonIdempotent :
          /\ starts[t] = 0
          /\ journal'.tasks[t].status # "pending"
          /\ pc'[d] = "execute" => durable.tasks[t].status # "pending"
    <3>. SUFFICES ASSUME NEW d \in Controls, Prepared(d)',
                         NEW t \in admitted[d] \cap NonIdempotent
         PROVE  /\ starts[t] = 0
                /\ journal'.tasks[t].status # "pending"
                /\ pc'[d] = "execute" => durable.tasks[t].status # "pending"
      OBVIOUS
    <3>1. CASE d = c
      BY <2>1, <2>3, <3>1
    <3>2. CASE d # c
      BY <2>1, <2>4, <2>5, <3>2 DEF StartInv
    <3>. QED BY <3>1, <3>2
  <2>8. \A d, e \in Controls : d # e /\ Prepared(d)' /\ Prepared(e)' =>
          admitted[d] \cap admitted[e] \cap NonIdempotent = {}
    BY <2>1, <2>5 DEF StartInv
  <2>. QED BY <2>2, <2>6, <2>7, <2>8 DEF StartInv
<1>10. ASSUME NEW c \in Controls, CommitSettled(c)
      PROVE  StartInv'
  <2>1. \A d \in Controls : Prepared(d)' =>
          /\ Prepared(d) /\ admitted'[d] = admitted[d]
          /\ pc'[d] = "execute" => pc[d] = "execute"
    BY <1>10 DEF CommitSettled, Prepared, TypeOK
  <2>2. \A t \in NonIdempotent : journal.tasks[t].status # "pending"
                                 => journal'.tasks[t].status # "pending"
    <3>. TAKE t \in NonIdempotent
    <3>1. t \in Tasks
      BY DEF NonIdempotent
    <3>2. journal.tasks[t] \in Task
      BY <3>1 DEF TypeOK, Run
    <3>. QED BY <1>10, <3>1, <3>2, SettledEffect DEF Task
  <2>. QED BY <1>10, <2>1, <2>2, StartTransfer DEF CommitSettled
<1>11. ASSUME NEW c \in Controls, CommitRejected(c)
      PROVE  StartInv'
  <2>1. \A d \in Controls : Prepared(d)' =>
          /\ Prepared(d) /\ admitted'[d] = admitted[d]
          /\ pc'[d] = "execute" => pc[d] = "execute"
    BY <1>11 DEF CommitRejected, Throw, Prepared, TypeOK
  <2>2. UNCHANGED <<journal, durable, starts>>
    BY <1>11 DEF CommitRejected
  <2>. QED BY <2>1, <2>2, StartTransfer
<1>12. ASSUME NEW c \in Controls, Flush(c)
      PROVE  StartInv'
  BY <1>12 DEF Flush, FlushStages, AfterFlush, StartInv, Prepared, TypeOK
<1>13. ASSUME NEW c \in Controls, FlushUnavailable(c)
      PROVE  StartInv'
  BY <1>13 DEF FlushUnavailable, FlushStages, Throw, StartInv, Prepared, TypeOK
<1>14. ASSUME NEW c \in Controls, CancelLiveChildren(c)
      PROVE  StartInv'
  BY <1>14 DEF CancelLiveChildren, StartInv, Prepared, TypeOK
<1>15. ASSUME NEW c \in Controls, Activate(c)
      PROVE  StartInv'
  BY <1>15 DEF Activate, Admissible, StartInv, Prepared, TypeOK
<1>16. ASSUME NEW c \in Controls, Execute(c)
      PROVE  StartInv'
  <2>1. CASE admission
    <3>1. \A d \in Controls : Prepared(d)' => d # c /\ Prepared(d) /\ pc'[d] = pc[d]
      BY <1>16, <2>1 DEF Execute, Prepared, TypeOK
    <3>2. /\ UNCHANGED <<admitted, journal, durable>>
          /\ \A t \in Tasks : starts'[t] = IF t \in admitted[c] THEN starts[t] + 1 ELSE starts[t]
      BY <1>16, <2>1 DEF Execute
    <3>3. pc[c] = "execute" /\ Prepared(c)
      BY <1>16 DEF Execute, Prepared
    <3>4. ASSUME NEW t \in NonIdempotent
          PROVE  /\ starts'[t] <= 1
                 /\ starts'[t] = 1 => /\ journal.tasks[t].status # "pending"
                                      /\ durable.tasks[t].status # "pending"
      BY <3>2, <3>3 DEF StartInv, NonIdempotent
    <3>5. \A d \in Controls : Prepared(d)' => \A t \in admitted[d] \cap NonIdempotent :
            starts'[t] = starts[t]
      BY <3>1, <3>2, <3>3 DEF StartInv, NonIdempotent
    <3>. QED BY <3>1, <3>2, <3>4, <3>5 DEF StartInv
  <2>2. CASE ~admission
    <3>1. \A d \in Controls : Prepared(d)' => Prepared(d) /\ pc'[d] = pc[d]
      BY <1>16, <2>2 DEF Execute, Throw, Prepared, TypeOK
    <3>2. UNCHANGED <<admitted, journal, durable, starts>>
      BY <1>16, <2>2 DEF Execute
    <3>. QED BY <3>1, <3>2, StartTransfer
  <2>. QED BY <2>1, <2>2
<1>17. ASSUME NEW c \in Controls, Join(c)
      PROVE  StartInv'
  BY <1>17 DEF Join, StartInv, Prepared, TypeOK
<1>18. ASSUME NEW c \in Controls, JoinRejected(c)
      PROVE  StartInv'
  BY <1>18 DEF JoinRejected, Throw, StartInv, Prepared, TypeOK
<1>19. ASSUME NEW c \in Controls, Release(c)
      PROVE  StartInv'
  BY <1>19 DEF Release, NewRun, NoPlan, StartInv, Prepared, TypeOK
<1>20. ASSUME NEW child \in children, ChildReturns(child)
      PROVE  StartInv'
  BY <1>20 DEF ChildReturns, StartInv, Prepared, TypeOK
<1>21. CASE Expire
  BY <1>21 DEF Expire, StartInv, Prepared, TypeOK
<1>22. CASE Crash
  BY <1>22 DEF Crash, NewRun, NoPlan, StartInv, Prepared, TypeOK
<1>23. CASE UNCHANGED vars
  BY <1>23 DEF StartInv, Prepared
<1>. QED BY <1>1, <1>2, <1>3, <1>4, <1>5, <1>6, <1>7, <1>8, <1>9, <1>10, <1>11,
     <1>12, <1>13, <1>14, <1>15, <1>16, <1>17, <1>18, <1>19, <1>20, <1>21, <1>22, <1>23 DEF Next, Control

(* A cancel goes its way.                                                  *)
LEMMA CancelStep ==
  ASSUME TypeOK, StagesInv, FreshInv, ChildInv, CancelInv, [Next]_vars
  PROVE  CancelInv'
<1>. USE ControlAssumption, NoneIsAbsent DEF Goto, vars, controlVars, hostVars,
     sessionVars, childVars
<1>1. ASSUME NEW c \in Controls, NEW act \in {"resume", "cancel", "steer"}, Begin(c, act)
      PROVE  CancelInv'
  BY <1>1 DEF Begin, Holds, CancelInv, Cancelling, Prepared, TypeOK
<1>2. ASSUME NEW c \in Controls, Acquire(c)
      PROVE  CancelInv'
  BY <1>2 DEF Acquire, Holds, CancelInv, Cancelling, Prepared, TypeOK
<1>3. ASSUME NEW c \in Controls, Reread(c)
      PROVE  CancelInv'
  BY <1>3 DEF Reread, Holds, CancelInv, Cancelling, Prepared, TypeOK
<1>4. ASSUME NEW c \in Controls, AssertLease(c)
      PROVE  CancelInv'
  <2>1. UNCHANGED <<action, lease, fence, admission, journal, durable, children, killed>>
    BY <1>4 DEF AssertLease
  <2>2. \A d \in Controls : Prepared(d)' => Prepared(d)
    BY <1>4, AssertLeaseMoves DEF Prepared, TypeOK
  <2>3. \A d \in Controls :
          /\ pc'[d] \in {"flush", "cancel-children", "reassert"} => pc'[d] = pc[d]
          /\ Cancelling(d) /\ pc'[d] = "cancelled" => pc[d] \in {"reassert", "cancelled"}
    BY <1>4, AssertLeaseMoves DEF TypeOK, Cancelling
  <2>. QED BY <2>1, <2>2, <2>3 DEF CancelInv, Cancelling, Holds
<1>5. ASSUME NEW c \in Controls, CommitRecovery(c)
      PROVE  CancelInv'
  <2>1. journal'.status = journal.status /\ journal'.intent = journal.intent
    BY <1>5, RecoveryEffect
  <2>2. UNCHANGED <<action, lease, fence, admission, durable, children, killed>>
    BY <1>5 DEF CommitRecovery
  <2>3. ~Cancelling(c) /\ pc' = [pc EXCEPT ![c] = "flush"]
    BY <1>5 DEF CommitRecovery, Cancelling
  <2>4. \A d \in Controls : /\ d # c => pc'[d] = pc[d]
                           /\ Prepared(d)' => Prepared(d)
    BY <2>3 DEF Prepared, TypeOK
  <2>. QED BY <2>1, <2>2, <2>3, <2>4 DEF CancelInv, Cancelling, Holds
<1>6. ASSUME NEW c \in Controls, CommitCancelIntent(c)
      PROVE  CancelInv'
  BY <1>6 DEF CommitCancelIntent, Holds, MayAppend, CancelInv, Cancelling,
    Prepared,
     TypeOK
<1>7. ASSUME NEW c \in Controls, CommitSteerProposal(c)
      PROVE  CancelInv'
  BY <1>7 DEF CommitSteerProposal, Holds, MayAppend, CancelInv, Cancelling,
    Prepared,
     TypeOK
<1>8. ASSUME NEW c \in Controls, CommitCancelled(c)
      PROVE  CancelInv'
  <2>1. Holds(c) /\ Cancelling(c) /\ pc[c] = "cancelled"
    BY <1>8 DEF CommitCancelled, MayAppend, StagesInv
  <2>2. children = {} /\ ~admission
    BY <2>1 DEF CancelInv
  <2>3. journal'.intent = journal.intent
    BY <1>8 DEF CommitCancelled, TypeOK, Run
  <2>4. UNCHANGED <<action, lease, fence, admission, durable, children, killed>>
    BY <1>8 DEF CommitCancelled
  <2>5. \A d \in Controls : pc'[d] = pc[d] \/ pc'[d] = "cancelled-flush"
    BY <1>8 DEF CommitCancelled, TypeOK
  <2>. QED BY <2>2, <2>3, <2>4, <2>5 DEF CancelInv, Cancelling, Holds
<1>9. ASSUME NEW c \in Controls, CommitPrepared(c)
      PROVE  CancelInv'
  BY <1>9 DEF CommitPrepared, Holds, MayAppend, CancelInv, Cancelling,
    Prepared, TypeOK
<1>10. ASSUME NEW c \in Controls, CommitSettled(c)
      PROVE  CancelInv'
  BY <1>10 DEF CommitSettled, Holds, MayAppend, AcceptsResult, CancelInv,
    Cancelling,
     Prepared, TypeOK
<1>11. ASSUME NEW c \in Controls, CommitRejected(c)
      PROVE  CancelInv'
  BY <1>11 DEF CommitRejected, Holds, Throw, CancelInv, Cancelling, Prepared,
    TypeOK
<1>12. ASSUME NEW c \in Controls, Flush(c)
      PROVE  CancelInv'
  BY <1>12 DEF Flush, Holds, FlushStages, AfterFlush, CancelInv, Cancelling,
    Prepared,
     TypeOK
<1>13. ASSUME NEW c \in Controls, FlushUnavailable(c)
      PROVE  CancelInv'
  BY <1>13 DEF FlushUnavailable, Holds, Throw, FlushStages, CancelInv,
    Cancelling, Prepared,
     TypeOK
<1>14. ASSUME NEW c \in Controls, CancelLiveChildren(c)
      PROVE  CancelInv'
  <2>1. pc[c] = "cancel-children" /\ Cancelling(c)
    BY <1>14 DEF CancelLiveChildren, StagesInv
  <2>2. durable.intent /\ ~admission
    BY <2>1 DEF CancelInv
  <2>3. Holds(c) => children' = {}
    <3>1. Holds(c) => snapshot[c].attempts = journal.attempts
      BY <2>1 DEF FreshInv
    <3>2. children \subseteq journal.attempts
      BY DEF ChildInv
    <3>3. children' = children \ (children \cap snapshot[c].attempts)
      BY <1>14 DEF CancelLiveChildren
    <3>. QED BY <3>1, <3>2, <3>3
  <2>4. UNCHANGED <<action, lease, fence, admission, journal, durable>>
    BY <1>14 DEF CancelLiveChildren
  <2>5. /\ pc'[c] = "reassert"
        /\ \A d \in Controls \ {c} : pc'[d] = pc[d]
    BY <1>14 DEF CancelLiveChildren, TypeOK
  <2>6. children' \subseteq children
    BY <1>14 DEF CancelLiveChildren
  <2>7. \A d \in Controls : Prepared(d)' => Prepared(d)
    BY <2>5 DEF Prepared
  <2>. QED BY <2>1, <2>2, <2>3, <2>4, <2>5, <2>6, <2>7 DEF CancelInv, Cancelling, Holds
<1>15. ASSUME NEW c \in Controls, Activate(c)
      PROVE  CancelInv'
  BY <1>15 DEF Activate, Holds, Admissible, CancelInv, Cancelling, Prepared,
    TypeOK
<1>16. ASSUME NEW c \in Controls, Execute(c)
      PROVE  CancelInv'
  BY <1>16 DEF Execute, Holds, Throw, CancelInv, Cancelling, Prepared, TypeOK
<1>17. ASSUME NEW c \in Controls, Join(c)
      PROVE  CancelInv'
  BY <1>17 DEF Join, Holds, CancelInv, Cancelling, Prepared, TypeOK
<1>18. ASSUME NEW c \in Controls, JoinRejected(c)
      PROVE  CancelInv'
  BY <1>18 DEF JoinRejected, Holds, Throw, CancelInv, Cancelling, Prepared,
    TypeOK
<1>19. ASSUME NEW c \in Controls, Release(c)
      PROVE  CancelInv'
  BY <1>19 DEF Release, Holds, NewRun, NoPlan, CancelInv, Cancelling, Prepared,
    TypeOK
<1>20. ASSUME NEW child \in children, ChildReturns(child)
      PROVE  CancelInv'
  BY <1>20 DEF ChildReturns, Holds, CancelInv, Cancelling, Prepared, TypeOK
<1>21. CASE Expire
  BY <1>21 DEF Expire, Holds, CancelInv, Cancelling, Prepared, TypeOK
<1>22. CASE Crash
  BY <1>22 DEF Crash, Holds, NewRun, NoPlan, CancelInv, Cancelling, Prepared,
    TypeOK
<1>23. CASE UNCHANGED vars
  BY <1>23 DEF CancelInv, Cancelling, Prepared, Holds
<1>. QED BY <1>1, <1>2, <1>3, <1>4, <1>5, <1>6, <1>7, <1>8, <1>9, <1>10, <1>11,
     <1>12, <1>13, <1>14, <1>15, <1>16, <1>17, <1>18, <1>19, <1>20, <1>21, <1>22, <1>23 DEF Next, Control

----------------------------------------------------------------------------
(* The invariant is inductive                                              *)

(* A new run without controls and children satisfies the invariant.         *)
LEMMA InitIInv == Init => IInv
<1>. SUFFICES ASSUME Init
     PROVE  IInv
  OBVIOUS
<1>. USE DEF Init
<1>1. TypeOK
  BY InitialValues, ControlAssumption DEF TypeOK, Stages, ControlAssumption
<1>2. StagesInv /\ FreshInv /\ PlanInv
  BY NoneIsAbsent, ControlAssumption
     DEF StagesInv, FreshInv, PlanInv, Holds, ControlAssumption
<1>3. ChildInv /\ AcceptedOncePerGeneration /\ StartInv
  BY DEF ChildInv, AcceptedOncePerGeneration, StartInv, Prepared, NonIdempotent
<1>4. CancelInv
  BY DEF CancelInv, NewRun, Cancelling
<1>5. RecordInv
  BY DEF RecordInv, RunsAttempt, NewRun
<1>. QED BY <1>1, <1>2, <1>3, <1>4, <1>5 DEF IInv

(* Every step of a control, of the Host and of a child preserves the        *)
(* invariant, part by part.                                                 *)
LEMMA IInvStep == IInv /\ [Next]_vars => IInv'
  BY TypeStep, StagesStep, FreshStep, PlanStep, ChildStep, RecordStep, AcceptStep,
     StartStep, CancelStep DEF IInv

(* The invariant holds in every reachable state of a run under control.     *)
LEMMA IInvHolds == Spec => []IInv
<1>. QED BY InitIInv, IInvStep, PTL DEF Spec

----------------------------------------------------------------------------
(* Theorems                                                                *)

(* Every state a durable run and its controls can be in has its type: no   *)
(* fence beyond the granted ones, no attempt or child outside the plan     *)
(* (controlDurableRun, run-control.ts).                                    *)
THEOREM ControlTypes == Spec => []TypeOK
<1>. QED BY IInvHolds, PTL DEF IInv

(* "Prepared commits cross the durability barrier before dispatch"         *)
(* (controller.ts:149): however controls interleave, lose their leases,    *)
(* fail to flush or crash, a child that runs has an attempt that survives. *)
THEOREM ChildrenSurviveCrashes == Spec => []ChildrenAreDurable
<1>1. TypeOK /\ ChildInv /\ RecordInv => ChildrenAreDurable
  <2>1. SUFFICES ASSUME TypeOK, ChildInv, RecordInv, NEW child \in children
                 PROVE  LET task == durable.tasks[child.task] IN
                        /\ child \in durable.attempts
                        /\ \/ task.generation > child.generation
                           \/ /\ task.generation = child.generation /\ task.status # "pending"
                              /\ task.status = "running" => task.attempt = child.fence
    BY DEF ChildrenAreDurable
  <2>2. child \in durable.attempts /\ PastIn(durable, child)
    BY <2>1 DEF ChildInv, RecordInv
  <2>3. child.task \in Tasks
    BY <2>1 DEF TypeOK, Child
  <2>4. durable.tasks[child.task].status = "running" => durable.tasks[child.task].attempt # 0
    BY <2>1, <2>3 DEF RecordInv, RunsAttempt
  <2>. QED BY <2>2, <2>4 DEF PastIn, Past
<1>. QED BY <1>1, IInvHolds, PTL DEF IInv

(* "Ambiguous non-idempotent writes become needs-attention and never       *)
(* replay automatically" (docs/recovery.md), for any number of controls,   *)
(* retries, leases and crashes.                                            *)
THEOREM AmbiguousWritesStartOnce == Spec => []NonIdempotentStartsOnce
<1>1. StartInv => NonIdempotentStartsOnce
  BY DEF StartInv, NonIdempotentStartsOnce, NonIdempotent
<1>. QED BY <1>1, IInvHolds, PTL DEF IInv

(* "accepted commits are fenced exactly once per logical generation"       *)
(* (docs/durable-runs.md): decideResultAcceptance and planRecovery never   *)
(* let the results of two children of one generation count.                *)
THEOREM OneResultPerGeneration == Spec => []AcceptedOncePerGeneration
<1>. QED BY IInvHolds, PTL DEF IInv

(* A recovery is committed to the very state it was planned from.          *)
THEOREM RecoverySeesTheJournal == Spec => []RecoveryIsFresh
<1>1. FreshInv => RecoveryIsFresh
  BY DEF FreshInv, RecoveryIsFresh
<1>. QED BY <1>1, IInvHolds, PTL DEF IInv

(* Children are only cancelled under a durable intent, and a cancelled run *)
(* has no child, whatever children started between the intent and the      *)
(* closing of admission.                                                   *)
THEOREM CancelledRunsAreQuiet == Spec => []CancelIsOrderly
<1>1. CancelInv => CancelIsOrderly
  BY DEF CancelInv, CancelIsOrderly
<1>. QED BY <1>1, IInvHolds, PTL DEF IInv

=============================================================================
