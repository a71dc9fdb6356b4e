------------------------------ MODULE RunControl ------------------------------
(***************************************************************************)
(* Concurrent controls of one durable run: controlDurableRun               *)
(* (src/src/durable-run/run-control.ts) with the recovery it plans         *)
(* (recovery.ts), the activation it starts (controller.ts) and the results *)
(* it accepts (result-acceptance.ts).  One action per stretch of code      *)
(* between two awaits; a rejected promise goes to the finally block.       *)
(*                                                                         *)
(* External, from how the ports are used: Host coordination (one lease at  *)
(* a time, every grant with a larger fence, leases that expire), the       *)
(* Session (commits that "atomically reject unless lease owner/fence are   *)
(* still current at append", a flush that may fail), child Sessions and    *)
(* their receipts.  A crash of the Host ends every control and child and   *)
(* loses what was appended after the last flush.                           *)
(***************************************************************************)
EXTENDS Naturals, FiniteSets

CONSTANTS
  Controls,       \* the callers of controlDurableRun
  Tasks,          \* the tasks of the plan, numbered in canonical TaskId order
  effectClass,    \* the effect class of each task
  MaxStarts,      \* bounds.maxStarts of an activation
  MaxFence,       \* bound: the number of leases Host coordination grants
  MaxGeneration,  \* bound: the generation up to which a task is retried
  MaxCrashes,     \* bound: the number of Host crashes
  None            \* no lease, no receipt

ASSUME ControlAssumption ==
  /\ Tasks \subseteq Nat
  /\ MaxStarts \in Nat \ {0}
  /\ MaxFence \in Nat /\ MaxGeneration \in Nat /\ MaxCrashes \in Nat
  /\ effectClass \in [Tasks -> {"read", "idempotent-write", "non-idempotent-write"}]

(* None is neither a lease nor a child.                                    *)
ASSUME NoneIsAbsent ==
  /\ None \notin [holder : Controls, fence : 0..MaxFence]
  /\ None \notin [task : Tasks, generation : 0..MaxGeneration, fence : 1..MaxFence]

VARIABLES
  pc,        \* where each control stands
  action,    \* resume, cancel or steer
  fence,     \* the fence of the lease a control was granted, 0 before
  snapshot,  \* the state a control read last
  plan,      \* the recovery a control planned: an action per task
  admitted,  \* the tasks a control's activation admitted
  lease,     \* the current lease: holder and fence, or None
  granted,   \* the largest fence granted
  journal,   \* the run as the Session has it, appended and folded
  durable,   \* the run as of the last successful flush
  admission, \* FALSE once a cancel closed admission
  children,  \* the child activations that run
  succeeded, \* the child activations that returned a result, and its receipt
  crashes,   \* the number of Host crashes
  starts,    \* history: how often the effect of each task was started
  accepted,  \* history: the child activations whose result was accepted
  killed     \* history: the child activations a cancel ended

controlVars == <<pc, action, fence, snapshot, plan, admitted>>
hostVars == <<lease, granted, admission, crashes>>
sessionVars == <<journal, durable>>
childVars == <<children, succeeded, starts, killed>>
vars == <<controlVars, hostVars, sessionVars, childVars, accepted>>

Stages == {"idle", "acquire", "reread", "assert", "commit", "flush",
           "reassert", "refresh", "prepare", "prepare-flush", "execute", "join",
           "settle", "settle-flush", "cancel-children", "cancelled",
           "cancelled-flush", "release"}

Child == [task : Tasks, generation : 0..MaxGeneration, fence : 1..MaxFence]

(* attempt is the fence of the task's current attempt, 0 without one; the  *)
(* attempt has the task's generation.  The attempt records of a run stay,  *)
(* whatever becomes of them; one child belongs to each.                    *)
Task == [status : {"pending", "running", "suspended", "succeeded", "failed"},
         generation : 0..MaxGeneration, attempt : 0..MaxFence]

Run == [status : {"active", "cancelled"}, intent : BOOLEAN, proposed : BOOLEAN,
        tasks : [Tasks -> Task], attempts : SUBSET Child]

Terminal(task) == task.status \in {"succeeded", "failed"}

RecoveryActions == {"none", "keep-terminal", "incorporate-receipt",
                    "reject-stale-result", "retry", "needs-attention"}

TypeOK ==
  /\ pc \in [Controls -> Stages]
  /\ action \in [Controls -> {"resume", "cancel", "steer"}]
  /\ fence \in [Controls -> 0..MaxFence]
  /\ snapshot \in [Controls -> Run]
  /\ plan \in [Controls -> [Tasks -> RecoveryActions]]
  /\ admitted \in [Controls -> SUBSET Tasks]
  /\ lease \in [holder : Controls, fence : 1..MaxFence] \cup {None}
  /\ granted \in 0..MaxFence
  /\ journal \in Run
  /\ durable \in Run
  /\ admission \in BOOLEAN
  /\ children \subseteq Child
  /\ succeeded \subseteq Child
  /\ crashes \in 0..MaxCrashes
  /\ starts \in [Tasks -> Nat]
  /\ accepted \subseteq Child
  /\ killed \subseteq Child

NewRun == [status |-> "active", intent |-> FALSE, proposed |-> FALSE,
           tasks |-> [t \in Tasks |->
             [status |-> "pending", generation |-> 0, attempt |-> 0]],
           attempts |-> {}]
NoPlan == [t \in Tasks |-> "none"]

Init ==
  /\ pc = [c \in Controls |-> "idle"]
  /\ action = [c \in Controls |-> "resume"]
  /\ fence = [c \in Controls |-> 0]
  /\ snapshot = [c \in Controls |-> NewRun]
  /\ plan = [c \in Controls |-> NoPlan]
  /\ admitted = [c \in Controls |-> {}]
  /\ lease = None /\ granted = 0 /\ admission = TRUE /\ crashes = 0
  /\ journal = NewRun /\ durable = NewRun
  /\ children = {} /\ succeeded = {} /\ killed = {} /\ accepted = {}
  /\ starts = [t \in Tasks |-> 0]

----------------------------------------------------------------------------
(* Helpers                                                                 *)

Holds(c) == lease = [holder |-> c, fence |-> fence[c]]

Goto(c, stage) == pc' = [pc EXCEPT ![c] = stage]

(* Mutation: no finally block.                                             *)
ThrowWithoutRelease(c) == Goto(c, "idle")

(* A rejected promise: the finally block releases the lease.               *)
Throw(c) == Goto(c, "release")

ChildOf(t, state) ==
  [task |-> t, generation |-> state.tasks[t].generation,
   fence |-> state.tasks[t].attempt]

(* Mutation: every running attempt is retried.                             *)
RetryAnyEffect(t, state, receipt) ==
  CASE Terminal(state.tasks[t]) -> "keep-terminal"
    [] ~Terminal(state.tasks[t]) /\ receipt = ChildOf(t, state) -> "incorporate-receipt"
    [] OTHER -> "retry"

(* planRecovery for one task: its action, from the receipt found for it.   *)
(* An abandon-attempt always goes with the retry or the needs-attention    *)
(* after it, which replace the attempt.                                    *)
RecoveryAction(t, state, receipt) ==
  CASE Terminal(state.tasks[t]) -> "keep-terminal"
    [] ~Terminal(state.tasks[t]) /\ receipt # None ->
         IF receipt = ChildOf(t, state)
         THEN "incorporate-receipt" ELSE "reject-stale-result"
    [] ~Terminal(state.tasks[t]) /\ receipt = None ->
         IF \/ effectClass[t] = "read"
            \/ effectClass[t] = "idempotent-write" /\ state.tasks[t].attempt # 0
         THEN "retry" ELSE "needs-attention"

(* Mutation: a retry reuses the generation.                                *)
RetrySameGeneration(task, act) ==
  CASE act = "incorporate-receipt" -> [task EXCEPT !.status = "succeeded"]
    [] act = "retry" -> [task EXCEPT !.status = "pending", !.attempt = 0]
    [] act = "needs-attention" -> [task EXCEPT !.status = "suspended", !.attempt = 0]
    [] OTHER -> task

(* Mutation: needs-attention, a status of runs, is written to the task.    *)
TaskNeedsAttention(task, act) ==
  CASE act = "incorporate-receipt" -> [task EXCEPT !.status = "succeeded"]
    [] act = "retry" -> [task EXCEPT !.status = "pending", !.attempt = 0]
    [] act = "needs-attention" -> [task EXCEPT !.status = "needs-attention"]
    [] OTHER -> task

(* The task a committed recovery action leaves.                            *)
Recovered(task, act) ==
  CASE act = "incorporate-receipt" -> [task EXCEPT !.status = "succeeded"]
    [] act = "retry" -> [status |-> "pending", generation |-> task.generation + 1,
                         attempt |-> 0]
    [] act = "needs-attention" -> [task EXCEPT !.status = "suspended", !.attempt = 0]
    [] OTHER -> task

(* deriveReadyFrontier for independent tasks, cut at maxStarts.            *)
Ready(t, state) ==
  state.tasks[t].status = "pending" /\ state.tasks[t].attempt = 0

Admissible(state) ==
  {t \in Tasks : /\ Ready(t, state)
                 /\ Cardinality({u \in Tasks : Ready(u, state) /\ u < t}) < MaxStarts}

(* decideResultAcceptance for the result of child against the projection   *)
(* and the active fence.                                                   *)
AcceptsResult(child, activeFence) ==
  /\ child.generation = journal.tasks[child.task].generation
  /\ child.fence = journal.tasks[child.task].attempt
  /\ child.fence = activeFence
  /\ journal.status # "cancelled"
  /\ ~Terminal(journal.tasks[child.task])

----------------------------------------------------------------------------
(* controlDurableRun                                                       *)

Begin(c, act) ==
  /\ pc[c] = "idle"
  /\ action' = [action EXCEPT ![c] = act]
  /\ Goto(c, "acquire")
  /\ UNCHANGED <<fence, snapshot, plan, admitted, hostVars, sessionVars,
                 childVars, accepted>>

(* The lease is granted, or the run is leased and the call fails before    *)
(* the try block.                                                          *)
Acquire(c) ==
  /\ pc[c] = "acquire"
  /\ \/ /\ lease = None
        /\ granted < MaxFence
        /\ granted' = granted + 1
        /\ lease' = [holder |-> c, fence |-> granted + 1]
        /\ fence' = [fence EXCEPT ![c] = granted + 1]
        /\ Goto(c, "reread")
     \/ /\ lease # None \/ granted = MaxFence
        /\ Goto(c, "idle")
        /\ UNCHANGED <<lease, granted, fence>>
  /\ UNCHANGED <<action, snapshot, plan, admitted, admission, crashes,
                 sessionVars, childVars, accepted>>

(* Mutation: the state is reread as of the last flush.                     *)
RereadDurable(c) ==
  /\ pc[c] = "reread"
  /\ snapshot' = [snapshot EXCEPT ![c] = durable]
  /\ plan' = [plan EXCEPT ![c] = [t \in Tasks |-> RecoveryAction(t, durable, None)]]
  /\ Goto(c, "assert")
  /\ UNCHANGED <<action, fence, admitted, hostVars, sessionVars, childVars, accepted>>

(* reread, and for a resume planRecovery on what it returned.  The port    *)
(* hands planRecovery every task or the running ones, each with the        *)
(* receipt of one of its children, or with none.                           *)
Reread(c) ==
  /\ pc[c] = "reread"
  /\ snapshot' = [snapshot EXCEPT ![c] = journal]
  /\ \/ action[c] # "resume" /\ UNCHANGED plan
     \/ /\ action[c] = "resume"
        /\ \E found \in [Tasks -> succeeded \cup {None}],
              considered \in {Tasks, {t \in Tasks : journal.tasks[t].status = "running"}} :
             /\ \A t \in Tasks : found[t] # None => found[t].task = t
             /\ plan' = [plan EXCEPT ![c] = [t \in Tasks |->
                  IF t \in considered THEN RecoveryAction(t, journal, found[t])
                  ELSE "none"]]
  /\ Goto(c, "assert")
  /\ UNCHANGED <<action, fence, admitted, hostVars, sessionVars, childVars, accepted>>

(* Mutation: a lost lease is waited for instead of thrown.                 *)
AwaitLease(c) ==
  /\ pc[c] \in {"assert", "reassert"} /\ Holds(c)
  /\ Goto(c, CASE pc[c] = "assert" -> "commit"
               [] pc[c] = "reassert" /\ action[c] = "resume" -> "refresh"
               [] pc[c] = "reassert" /\ action[c] = "cancel" -> "cancelled")
  /\ UNCHANGED <<action, fence, snapshot, plan, admitted, hostVars, sessionVars,
                 childVars, accepted>>

(* assertLease before the first commit, and again before the activation or *)
(* the terminal commit.                                                    *)
AssertLease(c) ==
  /\ pc[c] \in {"assert", "reassert"}
  /\ IF ~Holds(c) THEN Throw(c)
     ELSE Goto(c, CASE pc[c] = "assert" -> "commit"
                    [] pc[c] = "reassert" /\ action[c] = "resume" -> "refresh"
                    [] pc[c] = "reassert" /\ action[c] = "cancel" -> "cancelled")
  /\ UNCHANGED <<action, fence, snapshot, plan, admitted, hostVars, sessionVars,
                 childVars, accepted>>

(* A commit is appended under the current lease or rejected; the journal   *)
(* of a terminal run rejects it too.                                       *)
MayAppend(c) == Holds(c) /\ journal.status # "cancelled"

(* Bound: a recovery that retries beyond MaxGeneration is rejected.         *)
Retryable(c) == \A t \in Tasks : plan[c][t] = "retry" =>
                  journal.tasks[t].generation < MaxGeneration

CommitRecovery(c) ==
  /\ pc[c] = "commit" /\ action[c] = "resume" /\ MayAppend(c) /\ Retryable(c)
  /\ journal' = [journal EXCEPT !.tasks =
       [t \in Tasks |-> Recovered(journal.tasks[t], plan[c][t])]]
  /\ accepted' = accepted \cup
       {ChildOf(t, journal) : t \in {u \in Tasks : plan[c][u] = "incorporate-receipt"}}
  /\ Goto(c, "flush")
  /\ UNCHANGED <<action, fence, snapshot, plan, admitted, hostVars, durable, childVars>>

CommitCancelIntent(c) ==
  /\ pc[c] = "commit" /\ action[c] = "cancel" /\ MayAppend(c)
  /\ journal' = [journal EXCEPT !.intent = TRUE]
  /\ Goto(c, "flush")
  /\ UNCHANGED <<action, fence, snapshot, plan, admitted, hostVars, durable,
                 childVars, accepted>>

CommitSteerProposal(c) ==
  /\ pc[c] = "commit" /\ action[c] = "steer" /\ MayAppend(c)
  /\ journal' = [journal EXCEPT !.proposed = TRUE]
  /\ Goto(c, "flush")
  /\ UNCHANGED <<action, fence, snapshot, plan, admitted, hostVars, durable,
                 childVars, accepted>>

CommitCancelled(c) ==
  /\ pc[c] = "cancelled" /\ MayAppend(c)
  /\ journal' = [journal EXCEPT !.status = "cancelled"]
  /\ Goto(c, "cancelled-flush")
  /\ UNCHANGED <<action, fence, snapshot, plan, admitted, hostVars, durable,
                 childVars, accepted>>

(* The children a control's activation started.                            *)
Started(c) == {[task |-> t, generation |-> snapshot[c].tasks[t].generation,
                fence |-> fence[c]] : t \in admitted[c]}

(* Mutation: children start before the prepared batch is flushed.          *)
CommitPreparedUnflushed(c) ==
  /\ pc[c] = "prepare" /\ MayAppend(c)
  /\ journal' = [journal EXCEPT
       !.tasks = [t \in Tasks |->
         IF t \in admitted[c]
         THEN [journal.tasks[t] EXCEPT !.status = "running", !.attempt = fence[c]]
         ELSE journal.tasks[t]],
       !.attempts = @ \cup Started(c)]
  /\ Goto(c, "execute")
  /\ UNCHANGED <<action, fence, snapshot, plan, admitted, hostVars, durable,
                 childVars, accepted>>

(* port.commit of the prepared batch of an activation.                     *)
CommitPrepared(c) ==
  /\ pc[c] = "prepare" /\ MayAppend(c)
  /\ journal' = [journal EXCEPT
       !.tasks = [t \in Tasks |->
         IF t \in admitted[c]
         THEN [journal.tasks[t] EXCEPT !.status = "running", !.attempt = fence[c]]
         ELSE journal.tasks[t]],
       !.attempts = @ \cup Started(c)]
  /\ Goto(c, "prepare-flush")
  /\ UNCHANGED <<action, fence, snapshot, plan, admitted, hostVars, durable,
                 childVars, accepted>>

(* port.commit of the settled batch: "must atomically revalidate current   *)
(* attempt/generation/fence".                                              *)
CommitSettled(c) ==
  /\ pc[c] = "settle" /\ MayAppend(c)
  /\ \A child \in Started(c) : AcceptsResult(child, lease.fence)
  /\ journal' = [journal EXCEPT !.tasks = [t \in Tasks |->
       IF t \notin admitted[c] THEN journal.tasks[t]
       ELSE [journal.tasks[t] EXCEPT !.status =
              IF \E child \in Started(c) \cap succeeded : child.task = t
              THEN "succeeded" ELSE "failed"]]]
  /\ accepted' = accepted \cup (Started(c) \cap succeeded)
  /\ Goto(c, "settle-flush")
  /\ UNCHANGED <<action, fence, snapshot, plan, admitted, hostVars, durable, childVars>>

(* A commit that is rejected.                                              *)
CommitRejected(c) ==
  /\ \/ pc[c] \in {"commit", "cancelled", "prepare", "settle"} /\ ~MayAppend(c)
     \/ pc[c] = "commit" /\ action[c] = "resume" /\ ~Retryable(c)
     \/ /\ pc[c] = "settle" /\ MayAppend(c)
        /\ \E child \in Started(c) : ~AcceptsResult(child, lease.fence)
  /\ Throw(c)
  /\ UNCHANGED <<action, fence, snapshot, plan, admitted, hostVars, sessionVars,
                 childVars, accepted>>

(* requireFlush.  closeAdmission runs in the same turn as the flush of the *)
(* cancel intent.                                                          *)
FlushStages == {"flush", "cancelled-flush", "prepare-flush", "settle-flush"}

AfterFlush(c) ==
  CASE pc[c] = "flush" /\ action[c] = "resume" -> "reassert"
    [] pc[c] = "flush" /\ action[c] = "cancel" -> "cancel-children"
    [] pc[c] = "flush" /\ action[c] = "steer" -> "release"
    [] pc[c] = "prepare-flush" -> "execute"
    [] pc[c] \in {"cancelled-flush", "settle-flush"} -> "release"

(* Mutation: a cancel does not close admission.                            *)
FlushKeepsAdmission(c) ==
  /\ pc[c] \in FlushStages
  /\ durable' = journal
  /\ Goto(c, AfterFlush(c))
  /\ UNCHANGED <<action, fence, snapshot, plan, admitted, hostVars, journal,
                 childVars, accepted>>

Flush(c) ==
  /\ pc[c] \in FlushStages
  /\ durable' = journal
  /\ admission' = (admission /\ AfterFlush(c) # "cancel-children")
  /\ Goto(c, AfterFlush(c))
  /\ UNCHANGED <<action, fence, snapshot, plan, admitted, lease, granted, crashes,
                 journal, childVars, accepted>>

FlushUnavailable(c) ==
  /\ pc[c] \in FlushStages
  /\ Throw(c)
  /\ UNCHANGED <<action, fence, snapshot, plan, admitted, hostVars, sessionVars,
                 childVars, accepted>>

(* cancelLiveChildren of the state read before the intent was committed:   *)
(* the children of all the attempts it has.                                *)
CancelLiveChildren(c) ==
  /\ pc[c] = "cancel-children"
  /\ LET live == children \cap snapshot[c].attempts
     IN killed' = killed \cup live /\ children' = children \ live
  /\ Goto(c, "reassert")
  /\ UNCHANGED <<action, fence, snapshot, plan, admitted, hostVars, sessionVars,
                 succeeded, starts, accepted>>

(* The second reread of a resume, and the admission of its activation in   *)
(* the same turn; an activation that admits nothing is idle.               *)
Activate(c) ==
  /\ pc[c] = "refresh"
  /\ snapshot' = [snapshot EXCEPT ![c] = journal]
  /\ admitted' = [admitted EXCEPT ![c] = Admissible(journal)]
  /\ Goto(c, IF Admissible(journal) = {} THEN "release" ELSE "prepare")
  /\ UNCHANGED <<action, fence, plan, hostVars, sessionVars, childVars, accepted>>

(* port.execute starts a child per admitted task, unless a cancel closed   *)
(* admission: then the executions reject.                                  *)
Execute(c) ==
  /\ pc[c] = "execute"
  /\ IF admission
     THEN /\ children' = children \cup Started(c)
          /\ starts' = [t \in Tasks |-> IF t \in admitted[c] THEN starts[t] + 1
                                        ELSE starts[t]]
          /\ Goto(c, "join")
     ELSE Throw(c) /\ UNCHANGED <<children, starts>>
  /\ UNCHANGED <<action, fence, snapshot, plan, admitted, hostVars, sessionVars,
                 succeeded, killed, accepted>>

(* Promise.all over the executions, whose outcomes are then validated: it  *)
(* waits for all of them, or rejects as soon as one execution or outcome   *)
(* is bad, whatever the others do.                                         *)
Join(c) ==
  /\ pc[c] = "join"
  /\ Started(c) \cap children = {}
  /\ Goto(c, "settle")
  /\ UNCHANGED <<action, fence, snapshot, plan, admitted, hostVars, sessionVars,
                 childVars, accepted>>

JoinRejected(c) ==
  /\ pc[c] = "join"
  /\ Started(c) \ children # {}
  /\ Throw(c)
  /\ UNCHANGED <<action, fence, snapshot, plan, admitted, hostVars, sessionVars,
                 childVars, accepted>>

(* The finally block.  The Host ignores the release of a lost lease.       *)
Release(c) ==
  /\ pc[c] = "release"
  /\ lease' = IF Holds(c) THEN None ELSE lease
  /\ Goto(c, "idle")
  /\ fence' = [fence EXCEPT ![c] = 0]
  /\ snapshot' = [snapshot EXCEPT ![c] = NewRun]
  /\ plan' = [plan EXCEPT ![c] = NoPlan]
  /\ admitted' = [admitted EXCEPT ![c] = {}]
  /\ UNCHANGED <<action, granted, admission, crashes, sessionVars, childVars, accepted>>

Control(c) ==
  \/ Acquire(c) \/ Reread(c) \/ AssertLease(c)
  \/ CommitRecovery(c) \/ CommitCancelIntent(c) \/ CommitSteerProposal(c)
  \/ CommitCancelled(c) \/ CommitPrepared(c) \/ CommitSettled(c) \/ CommitRejected(c)
  \/ Flush(c) \/ CancelLiveChildren(c) \/ Activate(c) \/ Execute(c) \/ Join(c)
  \/ Release(c)

----------------------------------------------------------------------------
(* The Host and the children (external)                                    *)

Expire ==
  /\ lease # None
  /\ lease' = None
  /\ UNCHANGED <<controlVars, granted, admission, crashes, sessionVars, childVars,
                 accepted>>

ChildReturns(child) ==
  /\ child \in children
  /\ children' = children \ {child}
  /\ succeeded' \in {succeeded, succeeded \cup {child}}
  /\ UNCHANGED <<controlVars, hostVars, sessionVars, starts, killed, accepted>>

Crash ==
  /\ crashes < MaxCrashes
  /\ crashes' = crashes + 1
  /\ pc' = [c \in Controls |-> "idle"]
  /\ fence' = [c \in Controls |-> 0]
  /\ snapshot' = [c \in Controls |-> NewRun]
  /\ plan' = [c \in Controls |-> NoPlan]
  /\ admitted' = [c \in Controls |-> {}]
  /\ journal' = durable
  /\ children' = {}
  /\ admission' = TRUE
  /\ UNCHANGED <<action, lease, granted, durable, succeeded, starts, killed, accepted>>

Next ==
  \/ \E c \in Controls : \/ Control(c)
                         \/ FlushUnavailable(c) \/ JoinRejected(c)
                         \/ \E act \in {"resume", "cancel", "steer"} : Begin(c, act)
  \/ \E child \in children : ChildReturns(child)
  \/ Expire
  \/ Crash

(* Every promise a control awaits settles, and so does every child.        *)
Fairness ==
  /\ \A c \in Controls : WF_vars(Control(c))
  /\ WF_vars(\E child \in children : ChildReturns(child))

Spec == Init /\ [][Next]_vars /\ Fairness

----------------------------------------------------------------------------
(* Properties                                                              *)

(* A child only runs for an attempt the journal will still have after a    *)
(* crash: the attempt is durably recorded, and its task is durably past    *)
(* that generation or has begun it, and if it runs it runs that very       *)
(* attempt (controller.ts:149-151, "Prepared commits cross the durability  *)
(* barrier before dispatch").                                              *)
ChildrenAreDurable ==
  \A child \in children :
    LET task == durable.tasks[child.task] IN
    /\ child \in durable.attempts
    /\ \/ task.generation > child.generation
       \/ /\ task.generation = child.generation /\ task.status # "pending"
          /\ task.status = "running" => task.attempt = child.fence

(* "Ambiguous non-idempotent writes become needs-attention and never       *)
(* replay automatically" (docs/recovery.md): over crashes, lost leases and *)
(* failed flushes the effect of such a task starts at most once.           *)
NonIdempotentStartsOnce ==
  \A t \in Tasks : effectClass[t] = "non-idempotent-write" => starts[t] <= 1

(* "accepted commits are fenced exactly once per logical generation"       *)
(* (docs/durable-runs.md): whoever settles or recovers a generation, and   *)
(* however often a crash takes an acceptance back, it is one child whose   *)
(* result counts.                                                          *)
AcceptedOncePerGeneration ==
  \A x, y \in accepted :
    x.task = y.task /\ x.generation = y.generation => x = y

(* The commit of a recovery sees the very state the recovery was planned   *)
(* from: whoever still holds its lease read the latest journal.            *)
RecoveryIsFresh ==
  \A c \in Controls :
    pc[c] \in {"assert", "commit"} /\ Holds(c) => snapshot[c] = journal

(* Children are only cancelled once the intent to cancel survives a crash, *)
(* and once the run is cancelled no child of it runs or starts any more.   *)
CancelIsOrderly ==
  /\ killed # {} => durable.intent
  /\ journal.status = "cancelled" => children = {}

(* Every control comes back, having given its lease up.                    *)
ControlsReturn == \A c \in Controls : pc[c] = "acquire" ~> pc[c] = "idle"
LeaseGivenUp == \A c \in Controls : Holds(c) ~> ~Holds(c)

(* "Lease loss or failed flush prevents the next effect."                  *)
(* (docs/recovery.md:11): a child only starts under the current lease.     *)
NoEffectAfterLeaseLoss ==
  [][\A child \in children' \ children : lease # None /\ lease.fence = child.fence]_vars

=============================================================================
