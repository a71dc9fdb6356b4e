---------------------------- MODULE LegionJournal ----------------------------
(***************************************************************************)
(* The journal of one Durable Strategy Run.  DSH Session keeps the         *)
(* physical append-only log; Legion decides which event may be appended    *)
(* (assertLegionTransition, src/src/durable-run/invariant.ts) and folds    *)
(* the log into the legion-run projection (applyLegionProjection,          *)
(* src/src/durable-run/projection.ts).  The variables are that projection, *)
(* one action appends one event of each of the eight families.             *)
(*                                                                         *)
(* A single run is modelled: every guard reads state.runs[data.runId] only *)
(* and the fold writes that entry only, so runs do not interact here.      *)
(* Timestamps, digests and texts that no guard compares are left out; the  *)
(* fields that are compared as a whole (JSON.stringify) are one value.     *)
(***************************************************************************)
EXTENDS Naturals, FiniteSets, Sequences

CONSTANTS
  PlanVersions,   \* plan versions a record may carry
  Fences,         \* fences the Host coordination may hand out
  Generations,    \* task generations
  ReclaimCounts,  \* mail reclaim counts
  Steps,          \* milestone steps, the bound on the number of receipts
  Tasks, Attempts, Mails, Continuations,   \* identities of the records
  Plans,          \* contents of a plan record: digest, graph, environment
  Owners,         \* owner fingerprint, effect class and idempotency key
  Routes,         \* profile, route plan, environment and context digests
  Children,       \* child Session ids
  MailKeys,       \* mail idempotency keys
  Receipts,       \* milestone ids and receipt digests
  Decisions,      \* the contents of decision records
  MaxDecisions,   \* bound on the number of decisions
  RunStatuses, TaskStatuses, AttemptStatuses,   \* statuses that occur
  None            \* the absent optional field and the absent record

VARIABLES
  run,            \* the run record, or None before its first event
  plans,          \* committed plan contents per version
  tasks,          \* task records
  attempts,       \* attempt records
  mail,           \* mail records
  continuations,  \* continuation records
  milestones,     \* accepted milestone receipts, oldest first
  decisions       \* decision records, oldest first

vars == <<run, plans, tasks, attempts, mail, continuations, milestones,
          decisions>>

----------------------------------------------------------------------------
(* Vocabulary: src/src/durable-run/contract.ts and status.ts               *)

RUN_STATUSES == {"created", "active", "suspended", "completed", "degraded",
                 "cancelled", "failed", "needs-attention"}
TASK_STATUSES == {"pending", "ready", "leased", "running", "suspended",
                  "succeeded", "failed", "cancelled", "superseded", "blocked"}
ATTEMPT_STATUSES == {"prepared", "started", "settled", "abandoned",
                     "rejected-stale"}
MAIL_STATUSES == {"queued", "reserved", "incorporated", "acknowledged",
                  "discarded"}
CONTINUATION_STATUSES == {"available", "consumed", "invalidated"}

isTerminalRunStatus(s) == s \in {"completed", "degraded", "cancelled", "failed"}
isTerminalTaskStatus(s) ==
  s \in {"succeeded", "failed", "cancelled", "superseded", "blocked"}
isTerminalAttemptStatus(s) == s \in {"settled", "abandoned", "rejected-stale"}
isTerminalMailStatus(s) == s \in {"acknowledged", "discarded"}

ASSUME JournalAssumption ==
  /\ PlanVersions \subseteq Nat
  /\ Fences \subseteq Nat
  /\ Generations \subseteq Nat
  /\ ReclaimCounts \subseteq Nat
  /\ Steps \subseteq Nat
  /\ MaxDecisions \in Nat
  /\ RunStatuses \subseteq RUN_STATUSES
  /\ TaskStatuses \subseteq TASK_STATUSES
  /\ AttemptStatuses \subseteq ATTEMPT_STATUSES

RunRecord == [status : RunStatuses, planVersion : PlanVersions,
              fence : Fences \cup {None}]
TaskRecord == [planVersion : PlanVersions, generation : Generations,
               status : TaskStatuses]

(* binding is the optional immutable AttemptBinding, of which only the     *)
(* route it was prepared for matters; result is the route a ResultEnvelope *)
(* names.  The identities a binding and a result repeat (task, attempt,    *)
(* plan, generation, fence) must equal the record's, so they add nothing.  *)
AttemptRecord == [task : Tasks, planVersion : PlanVersions,
                  generation : Generations, fence : Fences, owner : Owners,
                  route : Routes, binding : Routes \cup {None},
                  status : AttemptStatuses, child : Children \cup {None},
                  result : Routes \cup {None}]

(* fence is the reservation's fence: only reserved, incorporated and       *)
(* acknowledged mail has one (contract.ts, MailRecord).                    *)
MailRecord == {m \in [task : Tasks, key : MailKeys, generation : Generations,
                      status : MAIL_STATUSES, reclaimCount : ReclaimCounts,
                      fence : Fences \cup {None}] :
                 (m.fence # None) <=>
                   m.status \in {"reserved", "incorporated", "acknowledged"}}

(* planVersion and tokenFence belong to the immutable token; fence is the  *)
(* consumingFence of a consumed continuation.                              *)
ContinuationRecord ==
  {c \in [planVersion : PlanVersions, tokenFence : Fences,
          status : CONTINUATION_STATUSES, fence : Fences \cup {None}] :
     (c.fence # None) <=> c.status = "consumed"}

MilestoneReceipt == [step : Steps, milestoneId : Receipts, digest : Receipts]

(* None is the absent value of every optional field and of every record.   *)
ASSUME NoneIsAbsent ==
  None \notin Fences \cup Routes \cup Children \cup Plans \cup Decisions
           \cup RunRecord \cup TaskRecord \cup AttemptRecord \cup MailRecord
           \cup ContinuationRecord \cup MilestoneReceipt

(* The type of the projection.                                             *)
TypeOK ==
  /\ run \in RunRecord \cup {None}
  /\ plans \in [PlanVersions -> Plans \cup {None}]
  /\ tasks \in [Tasks -> TaskRecord \cup {None}]
  /\ attempts \in [Attempts -> AttemptRecord \cup {None}]
  /\ mail \in [Mails -> MailRecord \cup {None}]
  /\ continuations \in [Continuations -> ContinuationRecord \cup {None}]
  /\ milestones \in Seq(MilestoneReceipt)
  /\ decisions \in Seq(Decisions)

Init ==
  /\ run = None
  /\ plans = [v \in PlanVersions |-> None]
  /\ tasks = [t \in Tasks |-> None]
  /\ attempts = [a \in Attempts |-> None]
  /\ mail = [m \in Mails |-> None]
  /\ continuations = [c \in Continuations |-> None]
  /\ milestones = <<>>
  /\ decisions = <<>>

----------------------------------------------------------------------------
(* The gate: assertLegionTransition on the events validateLegionEventData  *)
(* lets through.  planVersion is the event header's plan version, which    *)
(* validation makes equal to the record's where the record carries one.    *)

(* Every event but a run-state event needs a live run and a plan version   *)
(* that is not behind the run's.                                           *)
RelatedEvent(planVersion) ==
  /\ run # None
  /\ ~isTerminalRunStatus(run.status)
  /\ planVersion >= run.planVersion

AcceptsRunState(r) ==
  \/ run = None /\ r.status = "created"
  \/ /\ run # None
     /\ r.planVersion >= run.planVersion
     /\ run.fence # None /\ r.fence # None => r.fence >= run.fence
     /\ ~isTerminalRunStatus(run.status)

AcceptsPlanState(v, p) ==
  RelatedEvent(v) /\ plans[v] \in {None, p}

(* Mutation: the generation of a task may be lowered.                      *)
AcceptsAnyGeneration(t, r) ==
  /\ RelatedEvent(r.planVersion)
  /\ tasks[t] # None => ~isTerminalTaskStatus(tasks[t].status)

AcceptsTaskState(t, r) ==
  /\ RelatedEvent(r.planVersion)
  /\ tasks[t] # None => /\ r.generation >= tasks[t].generation
                        /\ ~isTerminalTaskStatus(tasks[t].status)

(* Mutation: a requeued mail need not count its reclaim.                   *)
AcceptsUncountedRequeue(m, r, planVersion, fence) ==
  /\ RelatedEvent(planVersion)
  /\ tasks[r.task] # None
  /\ r.generation = tasks[r.task].generation
  /\ mail[m] # None =>
       /\ r.key = mail[m].key
       /\ isTerminalMailStatus(mail[m].status) => r = mail[m]
       /\ mail[m].status = "incorporated" =>
            r.status \in {"incorporated", "acknowledged"}
       /\ r.reclaimCount >= mail[m].reclaimCount

(* fence is the header's fence, or None.                                   *)
AcceptsMailState(m, r, planVersion, fence) ==
  /\ RelatedEvent(planVersion)
  /\ r.status = "queued" /\ r.reclaimCount > 0 => fence # None
  /\ tasks[r.task] # None
  /\ r.generation = tasks[r.task].generation
  /\ r.fence # None => fence = r.fence
  /\ r.status = "discarded" => fence # None
  /\ run.fence # None => fence \in {None, run.fence}
  /\ mail[m] # None =>
       /\ r.key = mail[m].key
       /\ isTerminalMailStatus(mail[m].status) => r = mail[m]
       /\ mail[m].status = "incorporated" =>
            r.status \in {"incorporated", "acknowledged"}
       /\ mail[m].status = "reserved" /\ r.status = "queued" =>
            r.reclaimCount = mail[m].reclaimCount + 1
       /\ r.reclaimCount >= mail[m].reclaimCount

(* Mutation: a consumed continuation may be written once more.             *)
AcceptsReusedContinuation(c, r) ==
  /\ RelatedEvent(r.planVersion)
  /\ continuations[c] # None =>
       (continuations[c].status = "available" /\ r.status = "available"
          => r = continuations[c])

(* Nothing compares the token of an available record with the token of the *)
(* record that consumes or invalidates it, nor fence with the run's fence. *)
AcceptsContinuationState(c, r) ==
  /\ RelatedEvent(r.planVersion)
  /\ continuations[c] # None =>
       (continuations[c].status # "available" \/ r.status = "available"
          => r = continuations[c])

(* Mutation: any step after the last one is accepted.                      *)
AcceptsMilestoneGap(r, planVersion) ==
  /\ RelatedEvent(planVersion)
  /\ milestones # <<>> => r.step > milestones[Len(milestones)].step
  /\ \A i \in 1..Len(milestones) : /\ milestones[i].milestoneId # r.milestoneId
                                   /\ milestones[i].digest # r.digest

AcceptsMilestone(r, planVersion) ==
  /\ RelatedEvent(planVersion)
  /\ milestones = <<>> => r.step = 1
  /\ milestones # <<>> => r.step = milestones[Len(milestones)].step + 1
  /\ \A i \in 1..Len(milestones) : /\ milestones[i].milestoneId # r.milestoneId
                                   /\ milestones[i].digest # r.digest

(* Mutation: the task is not part of the identity, so an attempt can move  *)
(* from a terminal task to a live one.                                     *)
IdentityWithoutTask(r) ==
  <<r.planVersion, r.generation, r.fence, r.owner, r.binding>>

(* Mutation: the binding is not part of the identity.                      *)
IdentityWithoutBinding(r) == <<r.task, r.planVersion, r.generation, r.fence, r.owner>>

(* What an attempt may never rebind once it is recorded.                   *)
SafetyIdentity(r) ==
  <<r.task, r.planVersion, r.generation, r.fence, r.owner, r.binding>>

AcceptsAttemptState(a, r) ==
  /\ RelatedEvent(r.planVersion)
  /\ tasks[r.task] # None
  /\ run.fence # None => r.fence = run.fence
  /\ ~isTerminalTaskStatus(tasks[r.task].status)
  /\ attempts[a] # None =>
       /\ ~isTerminalAttemptStatus(attempts[a].status)
       /\ SafetyIdentity(attempts[a]) = SafetyIdentity(r)
  /\ r.binding # None => r.binding = r.route
  /\ r.result # None => r.result = r.route

----------------------------------------------------------------------------
(* One action per event family: appendLegionEvent followed by its fold.    *)

AppendRunState(r) ==
  /\ AcceptsRunState(r)
  /\ run' = r
  /\ UNCHANGED <<plans, tasks, attempts, mail, continuations, milestones,
                 decisions>>

AppendPlanState(v, p) ==
  /\ AcceptsPlanState(v, p)
  /\ plans' = [plans EXCEPT ![v] = p]
  /\ UNCHANGED <<run, tasks, attempts, mail, continuations, milestones,
                 decisions>>

AppendTaskState(t, r) ==
  /\ AcceptsTaskState(t, r)
  /\ tasks' = [tasks EXCEPT ![t] = r]
  /\ UNCHANGED <<run, plans, attempts, mail, continuations, milestones,
                 decisions>>

AppendMailState(m, r, planVersion, fence) ==
  /\ AcceptsMailState(m, r, planVersion, fence)
  /\ mail' = [mail EXCEPT ![m] = r]
  /\ UNCHANGED <<run, plans, tasks, attempts, continuations, milestones,
                 decisions>>

AppendContinuationState(c, r) ==
  /\ AcceptsContinuationState(c, r)
  /\ continuations' = [continuations EXCEPT ![c] = r]
  /\ UNCHANGED <<run, plans, tasks, attempts, mail, milestones, decisions>>

AppendMilestone(r, planVersion) ==
  /\ AcceptsMilestone(r, planVersion)
  /\ milestones' = Append(milestones, r)
  /\ UNCHANGED <<run, plans, tasks, attempts, mail, continuations, decisions>>

AppendDecision(d, planVersion) ==
  /\ RelatedEvent(planVersion)
  /\ Len(decisions) < MaxDecisions
  /\ decisions' = Append(decisions, d)
  /\ UNCHANGED <<run, plans, tasks, attempts, mail, continuations, milestones>>

AppendAttemptState(a, r) ==
  /\ AcceptsAttemptState(a, r)
  /\ attempts' = [attempts EXCEPT ![a] = r]
  /\ UNCHANGED <<run, plans, tasks, mail, continuations, milestones, decisions>>

RunEvent == \E r \in RunRecord : AppendRunState(r)
PlanEvent == \E v \in PlanVersions, p \in Plans : AppendPlanState(v, p)
TaskEvent == \E t \in Tasks, r \in TaskRecord : AppendTaskState(t, r)
MailEvent == \E m \in Mails, r \in MailRecord, planVersion \in PlanVersions,
                fence \in Fences \cup {None} :
               AppendMailState(m, r, planVersion, fence)
ContinuationEvent == \E c \in Continuations, r \in ContinuationRecord :
                       AppendContinuationState(c, r)
MilestoneEvent == \E r \in MilestoneReceipt, planVersion \in PlanVersions :
                    AppendMilestone(r, planVersion)
DecisionEvent == \E d \in Decisions, planVersion \in PlanVersions :
                   AppendDecision(d, planVersion)
AttemptEvent == \E a \in Attempts, r \in AttemptRecord : AppendAttemptState(a, r)

Next == \/ RunEvent \/ PlanEvent \/ TaskEvent \/ MailEvent
        \/ ContinuationEvent \/ MilestoneEvent \/ DecisionEvent \/ AttemptEvent

Spec == Init /\ [][Next]_vars

----------------------------------------------------------------------------
(* Properties                                                              *)

(* Accepted milestone receipts are numbered 1, 2, 3... and no milestone id *)
(* or receipt digest occurs twice (invariant.ts:138-152): what the next    *)
(* activation resumes from is one gapless history.                         *)
MilestonesContiguous ==
  \A i \in 1..Len(milestones) :
    /\ milestones[i].step = i
    /\ \A j \in 1..(i - 1) :
         /\ milestones[j].milestoneId # milestones[i].milestoneId
         /\ milestones[j].digest # milestones[i].digest

(* Mail was committed for a generation its recipient task had reached, so  *)
(* whatever later task events do, no mail is waiting for a generation that *)
(* does not exist yet (invariant.ts:82-84 with 97-103).                    *)
MailGenerationReached ==
  \A m \in Mails : mail[m] # None =>
    /\ tasks[mail[m].task] # None
    /\ mail[m].generation <= tasks[mail[m].task].generation

(* A recorded attempt that lost its authority is never written again: one  *)
(* that carries another fence than the run, that belongs to a plan version *)
(* the run has left, or whose task is terminal.  A late settlement of a    *)
(* fenced-out controller therefore changes nothing, whatever identity it   *)
(* claims (invariant.ts:63, 156-186).                                      *)
LostAuthority(a) ==
  \/ run.fence # None /\ attempts[a].fence # run.fence
  \/ attempts[a].planVersion < run.planVersion
  \/ isTerminalTaskStatus(tasks[attempts[a].task].status)

StaleAttemptFrozen ==
  [][\A a \in Attempts : attempts[a] # None /\ LostAuthority(a)
                          => attempts'[a] = attempts[a]]_vars

(* An attempt prepared with an immutable binding executes the profile,     *)
(* route, environment and context it was bound to until it settles, and    *)
(* its result names the same ones (invariant.ts:176-198, 202-213).         *)
BoundRouteFixed ==
  [][\A a \in Attempts : attempts[a] # None /\ attempts[a].binding # None =>
        /\ attempts'[a].route = attempts[a].route
        /\ attempts'[a].binding = attempts[a].binding
        /\ attempts'[a].result \in {None, attempts[a].route}]_vars

(* The journal as a store of committed facts.  A milestone or a decision   *)
(* is the fact at its position, so appending one changes no other.         *)
Facts == {<<"run", 0>>}
         \cup {<<"plan", v>> : v \in PlanVersions}
         \cup {<<"task", t>> : t \in Tasks}
         \cup {<<"attempt", a>> : a \in Attempts}
         \cup {<<"mail", m>> : m \in Mails}
         \cup {<<"continuation", c>> : c \in Continuations}
         \cup {<<"milestone", i>> : i \in Steps}
         \cup {<<"decision", i>> : i \in 1..MaxDecisions}

ContentOf(f) ==
  CASE f[1] = "run" -> run
    [] f[1] = "plan" -> plans[f[2]]
    [] f[1] = "task" -> tasks[f[2]]
    [] f[1] = "attempt" -> attempts[f[2]]
    [] f[1] = "mail" -> mail[f[2]]
    [] f[1] = "continuation" -> continuations[f[2]]
    [] f[1] = "milestone" -> IF f[2] \in 1..Len(milestones)
                             THEN milestones[f[2]] ELSE None
    [] f[1] = "decision" -> IF f[2] \in 1..Len(decisions)
                            THEN decisions[f[2]] ELSE None

(* The terminal state of each family of records.                           *)
IsFinal(f) ==
  CASE f[1] = "run" -> FALSE
    [] f[1] = "plan" -> plans[f[2]] # None
    [] f[1] = "task" -> tasks[f[2]] # None
                        /\ isTerminalTaskStatus(tasks[f[2]].status)
    [] f[1] = "attempt" -> attempts[f[2]] # None
                           /\ isTerminalAttemptStatus(attempts[f[2]].status)
    [] f[1] = "mail" -> mail[f[2]] # None
                        /\ isTerminalMailStatus(mail[f[2]].status)
    [] f[1] = "continuation" -> continuations[f[2]] # None
                                /\ continuations[f[2]].status # "available"
    [] f[1] = "milestone" -> f[2] \in 1..Len(milestones)
    [] f[1] = "decision" -> f[2] \in 1..Len(decisions)

Sealed == run # None /\ isTerminalRunStatus(run.status)

content == [f \in Facts |-> ContentOf(f)]
final == {f \in Facts : Sealed \/ IsFinal(f)}

Committed == INSTANCE CommittedFacts WITH Absent <- None

(* Every terminal record is final, and a terminal run seals its journal:   *)
(* no event of any family, in any order, changes a final fact or two facts *)
(* at once (invariant.ts:53-55, 60-62, 71-73, 85-87, 116, 129-134, 173).   *)
JournalKeepsCommittedFacts == Committed!Spec

(* A checkpoint of the projection is accepted by parseProjectionState: its *)
(* attempts and its mail must match their task's record, and requeued mail *)
(* needs a fence to stand in the reconstructed header.                     *)
CheckpointParses ==
  /\ \A a \in Attempts : attempts[a] # None =>
       /\ tasks[attempts[a].task] # None
       /\ attempts[a].planVersion = tasks[attempts[a].task].planVersion
       /\ attempts[a].generation = tasks[attempts[a].task].generation
       /\ attempts[a].binding \in {None, attempts[a].route}
       /\ attempts[a].result \in {None, attempts[a].route}
  /\ \A m \in Mails : mail[m] # None =>
       /\ tasks[mail[m].task] # None
       /\ mail[m].generation = tasks[mail[m].task].generation
       /\ mail[m].status = "queued" /\ mail[m].reclaimCount > 0 => run.fence # None

(* "restores checkpoint plus tail exactly like a full fold"                *)
(* (tests/durable-projection.spec.ts:27): the state a fold reaches can be  *)
(* restored from a checkpoint of that state, when every attempt was        *)
(* recorded for a plan and a generation its task has reached.              *)
AttemptsReached ==
  \A a \in Attempts : attempts[a] # None =>
    /\ attempts[a].generation <= tasks[attempts[a].task].generation
    /\ attempts[a].planVersion <= tasks[attempts[a].task].planVersion

CheckpointRestorable == AttemptsReached => CheckpointParses

==============================================================================
