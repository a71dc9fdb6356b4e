------------------------- MODULE LegionJournalProofs -------------------------
(***************************************************************************)
(* Proofs about LegionJournal and JournalHistory for every value of their  *)
(* constants.                                                              *)
(***************************************************************************)
EXTENDS JournalHistory, TLAPS

(* The projection always has its type, whatever is appended.               *)
THEOREM TypeCorrect == Spec => []TypeOK
<1>1. Init => TypeOK
  BY DEF Init, TypeOK
<1>2. TypeOK /\ [Next]_vars => TypeOK'
  <2> SUFFICES ASSUME TypeOK, [Next]_vars
               PROVE  TypeOK'
    OBVIOUS
  <2>1. CASE RunEvent
    BY <2>1 DEF RunEvent, AppendRunState, TypeOK
  <2>2. CASE PlanEvent
    BY <2>2 DEF PlanEvent, AppendPlanState, TypeOK
  <2>3. CASE TaskEvent
    BY <2>3 DEF TaskEvent, AppendTaskState, TypeOK
  <2>4. CASE MailEvent
    BY <2>4 DEF MailEvent, AppendMailState, TypeOK
  <2>5. CASE ContinuationEvent
    BY <2>5 DEF ContinuationEvent, AppendContinuationState, TypeOK
  <2>6. CASE MilestoneEvent
    BY <2>6 DEF MilestoneEvent, AppendMilestone, TypeOK
  <2>7. CASE DecisionEvent
    BY <2>7 DEF DecisionEvent, AppendDecision, TypeOK
  <2>8. CASE AttemptEvent
    BY <2>8 DEF AttemptEvent, AppendAttemptState, TypeOK
  <2>9. CASE UNCHANGED vars
    BY <2>9 DEF vars, TypeOK
  <2> QED
    BY <2>1, <2>2, <2>3, <2>4, <2>5, <2>6, <2>7, <2>8, <2>9 DEF Next
<1> QED
  BY <1>1, <1>2, PTL DEF Spec

----------------------------------------------------------------------------
(* Every event family leaves the variables of the other families alone.    *)
LEMMA OtherFamiliesUnchanged ==
  ASSUME [Next]_vars
  PROVE  /\ MilestoneEvent \/ UNCHANGED milestones
         /\ TaskEvent \/ UNCHANGED tasks
         /\ MailEvent \/ UNCHANGED mail
         /\ AttemptEvent \/ UNCHANGED attempts
  BY DEF Next, vars, RunEvent, AppendRunState, PlanEvent, AppendPlanState,
         TaskEvent, AppendTaskState, MailEvent, AppendMailState,
         ContinuationEvent, AppendContinuationState, MilestoneEvent,
         AppendMilestone, DecisionEvent, AppendDecision, AttemptEvent,
         AppendAttemptState

(* Milestone receipts are numbered without a gap and never duplicated.     *)
THEOREM MilestonesAreContiguous == Spec => []MilestonesContiguous
<1>1. Init => MilestonesContiguous
  BY DEF Init, MilestonesContiguous
<1>2. TypeOK /\ MilestonesContiguous /\ [Next]_vars => MilestonesContiguous'
  <2> SUFFICES ASSUME TypeOK, MilestonesContiguous, [Next]_vars
               PROVE  MilestonesContiguous'
    OBVIOUS
  <2>1. CASE UNCHANGED milestones
    BY <2>1 DEF MilestonesContiguous
  <2>2. CASE MilestoneEvent
    <3>1. PICK r \in MilestoneReceipt, planVersion \in PlanVersions :
            AppendMilestone(r, planVersion)
      BY <2>2 DEF MilestoneEvent
    <3>2. milestones \in Seq(MilestoneReceipt)
      BY DEF TypeOK
    <3>3. r.step = Len(milestones) + 1
      <4>1. CASE milestones = <<>>
        BY <3>1, <4>1 DEF AppendMilestone, AcceptsMilestone
      <4>2. CASE milestones # <<>>
        <5>1. Len(milestones) \in 1..Len(milestones)
          BY <3>2, <4>2
        <5>2. milestones[Len(milestones)].step = Len(milestones)
          BY <5>1 DEF MilestonesContiguous
        <5> QED
          BY <3>1, <4>2, <5>2 DEF AppendMilestone, AcceptsMilestone
      <4> QED
        BY <4>1, <4>2
    <3>4. /\ milestones' = Append(milestones, r)
          /\ \A i \in 1..Len(milestones) :
               /\ milestones[i].milestoneId # r.milestoneId
               /\ milestones[i].digest # r.digest
      BY <3>1 DEF AppendMilestone, AcceptsMilestone
    <3>5. /\ Len(milestones') = Len(milestones) + 1
          /\ Len(milestones) \in Nat
          /\ milestones'[Len(milestones) + 1] = r
          /\ \A i \in 1..Len(milestones) : milestones'[i] = milestones[i]
      BY <3>2, <3>4
    <3> QED
      BY <3>3, <3>4, <3>5 DEF MilestonesContiguous
  <2> QED
    BY <2>1, <2>2, OtherFamiliesUnchanged
<1> QED
  BY <1>1, <1>2, TypeCorrect, PTL DEF Spec

(* No mail waits for a generation its recipient task has not reached.      *)
THEOREM MailGenerationIsReached == Spec => []MailGenerationReached
<1>1. Init => MailGenerationReached
  BY DEF Init, MailGenerationReached
<1>2. TypeOK /\ MailGenerationReached /\ [Next]_vars => MailGenerationReached'
  <2> SUFFICES ASSUME TypeOK, MailGenerationReached, [Next]_vars,
                      NEW m \in Mails, mail'[m] # None
               PROVE  /\ tasks'[mail'[m].task] # None
                      /\ mail'[m].generation <= tasks'[mail'[m].task].generation
    BY DEF MailGenerationReached
  <2>1. CASE UNCHANGED <<tasks, mail>>
    BY <2>1 DEF MailGenerationReached
  <2>2. CASE TaskEvent
    <3>1. PICK t \in Tasks, r \in TaskRecord : AppendTaskState(t, r)
      BY <2>2 DEF TaskEvent
    <3>2. mail' = mail /\ tasks' = [tasks EXCEPT ![t] = r]
      BY <3>1 DEF AppendTaskState
    <3>3. tasks[t] # None => r.generation >= tasks[t].generation
      BY <3>1 DEF AppendTaskState, AcceptsTaskState
    <3>4. mail[m].task \in Tasks /\ mail[m].generation \in Nat
      BY <3>2, JournalAssumption DEF TypeOK, MailRecord
    <3>5. r.generation \in Nat /\ r # None
      BY JournalAssumption, NoneIsAbsent DEF TaskRecord
    <3>6. tasks[t] # None => tasks[t].generation \in Nat
      BY JournalAssumption DEF TypeOK, TaskRecord
    <3> QED
      BY <3>2, <3>3, <3>4, <3>5, <3>6 DEF MailGenerationReached, TypeOK
  <2>3. CASE MailEvent
    <3>1. PICK n \in Mails, r \in MailRecord, planVersion \in PlanVersions,
               fence \in Fences \cup {None} : AppendMailState(n, r, planVersion, fence)
      BY <2>3 DEF MailEvent
    <3>2. tasks' = tasks /\ mail' = [mail EXCEPT ![n] = r]
      BY <3>1 DEF AppendMailState
    <3>3. tasks[r.task] # None /\ r.generation = tasks[r.task].generation
      BY <3>1 DEF AppendMailState, AcceptsMailState
    <3>4. r.generation \in Nat
      BY JournalAssumption DEF MailRecord
    <3> QED
      BY <3>2, <3>3, <3>4 DEF MailGenerationReached, TypeOK
  <2> QED
    BY <2>1, <2>2, <2>3, OtherFamiliesUnchanged
<1> QED
  BY <1>1, <1>2, TypeCorrect, PTL DEF Spec

----------------------------------------------------------------------------
(* Attempt records agree with themselves: a binding and a result name the  *)
(* route of the record.                                                    *)
AttemptsAgree ==
  \A a \in Attempts : attempts[a] # None =>
    /\ attempts[a].binding \in {None, attempts[a].route}
    /\ attempts[a].result \in {None, attempts[a].route}

(* In every reachable state an attempt belongs to a task and its binding    *)
(* and result name its route.                                               *)
LEMMA AttemptsAlwaysAgree == Spec => []AttemptsAgree
<1>1. Init => AttemptsAgree
  BY DEF Init, AttemptsAgree
<1>2. TypeOK /\ AttemptsAgree /\ [Next]_vars => AttemptsAgree'
  <2> SUFFICES ASSUME TypeOK, AttemptsAgree, [Next]_vars
               PROVE  AttemptsAgree'
    OBVIOUS
  <2>1. CASE UNCHANGED attempts
    BY <2>1 DEF AttemptsAgree
  <2>2. CASE AttemptEvent
    <3>1. PICK a \in Attempts, r \in AttemptRecord : AppendAttemptState(a, r)
      BY <2>2 DEF AttemptEvent
    <3>2. /\ attempts' = [attempts EXCEPT ![a] = r]
          /\ r.binding \in {None, r.route}
          /\ r.result \in {None, r.route}
      BY <3>1 DEF AppendAttemptState, AcceptsAttemptState
    <3> QED
      BY <3>2 DEF AttemptsAgree, TypeOK
  <2> QED
    BY <2>1, <2>2, OtherFamiliesUnchanged
<1> QED
  BY <1>1, <1>2, TypeCorrect, PTL DEF Spec

(* An attempt that lost its authority is never written again.              *)
THEOREM StaleAttemptsAreFrozen == Spec => StaleAttemptFrozen
<1>1. TypeOK /\ [Next]_vars =>
        \A a \in Attempts : attempts[a] # None /\ LostAuthority(a)
                            => attempts'[a] = attempts[a]
  <2> SUFFICES ASSUME TypeOK, [Next]_vars, NEW a \in Attempts,
                      attempts[a] # None, LostAuthority(a)
               PROVE  attempts'[a] = attempts[a]
    OBVIOUS
  <2>1. CASE UNCHANGED attempts
    BY <2>1
  <2>2. CASE AttemptEvent
    <3>1. PICK b \in Attempts, r \in AttemptRecord : AppendAttemptState(b, r)
      BY <2>2 DEF AttemptEvent
    <3>2. attempts' = [attempts EXCEPT ![b] = r]
      BY <3>1 DEF AppendAttemptState
    <3>3. CASE b = a
      <4>1. /\ r.task = attempts[a].task
            /\ r.planVersion = attempts[a].planVersion
            /\ r.fence = attempts[a].fence
        BY <3>1, <3>3 DEF AppendAttemptState, AcceptsAttemptState, SafetyIdentity
      <4>2. /\ run # None
            /\ r.planVersion >= run.planVersion
            /\ run.fence # None => r.fence = run.fence
            /\ ~isTerminalTaskStatus(tasks[r.task].status)
        BY <3>1 DEF AppendAttemptState, AcceptsAttemptState, RelatedEvent
      <4>3. r.planVersion \in Nat /\ run.planVersion \in Nat
        BY <4>2, JournalAssumption DEF TypeOK, RunRecord, AttemptRecord
      <4> QED
        BY <4>1, <4>2, <4>3 DEF LostAuthority
    <3>4. CASE b # a
      BY <3>2, <3>4 DEF TypeOK
    <3> QED
      BY <3>3, <3>4
  <2> QED
    BY <2>1, <2>2, OtherFamiliesUnchanged
<1> QED
  BY <1>1, TypeCorrect, PTL DEF Spec, StaleAttemptFrozen

(* A bound attempt keeps the route it was bound to, and its result names   *)
(* that route.                                                             *)
THEOREM BoundRoutesAreFixed == Spec => BoundRouteFixed
<1>1. TypeOK /\ AttemptsAgree /\ [Next]_vars =>
        \A a \in Attempts : attempts[a] # None /\ attempts[a].binding # None =>
          /\ attempts'[a].route = attempts[a].route
          /\ attempts'[a].binding = attempts[a].binding
          /\ attempts'[a].result \in {None, attempts[a].route}
  <2> SUFFICES ASSUME TypeOK, AttemptsAgree, [Next]_vars, NEW a \in Attempts,
                      attempts[a] # None, attempts[a].binding # None
               PROVE  /\ attempts'[a].route = attempts[a].route
                      /\ attempts'[a].binding = attempts[a].binding
                      /\ attempts'[a].result \in {None, attempts[a].route}
    OBVIOUS
  <2>1. CASE attempts'[a] = attempts[a]
    BY <2>1 DEF AttemptsAgree
  <2>2. CASE AttemptEvent
    <3>1. PICK b \in Attempts, r \in AttemptRecord : AppendAttemptState(b, r)
      BY <2>2 DEF AttemptEvent
    <3>2. attempts' = [attempts EXCEPT ![b] = r]
      BY <3>1 DEF AppendAttemptState
    <3>3. CASE b = a
      <4>1. r.binding = attempts[a].binding
        BY <3>1, <3>3 DEF AppendAttemptState, AcceptsAttemptState, SafetyIdentity
      <4>2. r.binding \in {None, r.route} /\ r.result \in {None, r.route}
        BY <3>1 DEF AppendAttemptState, AcceptsAttemptState
      <4>3. attempts[a].binding = attempts[a].route
        BY DEF AttemptsAgree
      <4>4. attempts'[a] = r
        BY <3>2, <3>3 DEF TypeOK
      <4> QED
        BY <4>1, <4>2, <4>3, <4>4
    <3>4. CASE b # a
      BY <2>1, <3>2, <3>4 DEF TypeOK
    <3> QED
      BY <3>3, <3>4
  <2> QED
    BY <2>1, <2>2, OtherFamiliesUnchanged
<1> QED
  BY <1>1, TypeCorrect, AttemptsAlwaysAgree, PTL DEF Spec, BoundRouteFixed

----------------------------------------------------------------------------
(* The journal implements the store of committed facts.                    *)

(* A fact is one of eight kinds, each with the identities of its family.    *)
LEMMA FactKinds ==
  ASSUME NEW f \in Facts
  PROVE  /\ f = <<f[1], f[2]>>
         /\ \/ f[1] = "run"
            \/ f[1] = "plan" /\ f[2] \in PlanVersions
            \/ f[1] = "task" /\ f[2] \in Tasks
            \/ f[1] = "attempt" /\ f[2] \in Attempts
            \/ f[1] = "mail" /\ f[2] \in Mails
            \/ f[1] = "continuation" /\ f[2] \in Continuations
            \/ f[1] = "milestone" /\ f[2] \in Steps
            \/ f[1] = "decision" /\ f[2] \in 1..MaxDecisions
  BY DEF Facts

(* An append that changes one fact, not a final one, while the run stays   *)
(* as it is, is a Commit of that fact.                                     *)
LEMMA OneFactIsACommit ==
  ASSUME NEW f \in Facts, ~Sealed, ~IsFinal(f), run' = run,
         \A g \in Facts \ {f} : /\ ContentOf(g)' = ContentOf(g)
                                /\ IsFinal(g)' <=> IsFinal(g)
  PROVE  Committed!Next
<1>1. f \notin final
  BY DEF final
<1>2. DOMAIN content' = Facts
  BY DEF content
<1>3. \A g \in Facts \ {f} : content'[g] = content[g]
  BY DEF content
<1>4. ~Sealed'
  BY DEF Sealed
<1>5. CASE IsFinal(f)'
  <2>1. final' = final \cup {f}
    BY <1>4, <1>5 DEF final
  <2> QED
    BY <1>1, <1>2, <1>3, <2>1 DEF Committed!Next, Committed!Commit
<1>6. CASE ~IsFinal(f)'
  <2>1. final' = final
    BY <1>4, <1>6 DEF final
  <2> QED
    BY <1>1, <1>2, <1>3, <2>1 DEF Committed!Next, Committed!Commit
<1> QED
  BY <1>5, <1>6

(* A step that keeps every variable keeps the committed facts.             *)
LEMMA StutterIsStutter ==
  ASSUME UNCHANGED vars
  PROVE  UNCHANGED <<content, final>>
  BY DEF vars, content, final, ContentOf, IsFinal, Sealed

(* An accepted run event commits the fact of the run.                       *)
LEMMA RunEventCommits ==
  ASSUME TypeOK, RunEvent
  PROVE  Committed!Next
<1>1. PICK r \in RunRecord : AppendRunState(r)
  BY DEF RunEvent
<1> DEFINE f == <<"run", 0>>
<1>2. f \in Facts
  BY DEF Facts
<1>3. ~Sealed
  BY <1>1 DEF AppendRunState, AcceptsRunState, Sealed
<1>4. UNCHANGED <<plans, tasks, attempts, mail, continuations, milestones, decisions>>
  BY <1>1 DEF AppendRunState
<1>5. \A g \in Facts : IsFinal(g)' <=> IsFinal(g)
  BY <1>4 DEF IsFinal
<1>6. \A g \in Facts \ {f} : g[1] # "run"
  BY DEF Facts
<1>7. \A g \in Facts \ {f} : ContentOf(g)' = ContentOf(g)
  BY <1>4, <1>6, FactKinds DEF ContentOf
<1>8. ~IsFinal(f)
  BY DEF IsFinal
<1>9. f \notin final /\ DOMAIN content' = Facts
      /\ \A g \in Facts \ {f} : content'[g] = content[g]
  BY <1>2, <1>3, <1>7, <1>8 DEF final, content
<1>10. final' \in {final, Facts}
  <2>1. CASE Sealed'
    BY <2>1 DEF final
  <2>2. CASE ~Sealed'
    BY <1>3, <1>5, <2>2 DEF final
  <2> QED
    BY <2>1, <2>2
<1> QED
  BY <1>2, <1>9, <1>10 DEF Committed!Next, Committed!Commit

(* The gate takes no event of a task, an attempt or another record of a     *)
(* terminal run.                                                            *)
LEMMA RelatedEventIsUnsealed ==
  ASSUME NEW planVersion, RelatedEvent(planVersion)
  PROVE  ~Sealed
  BY DEF RelatedEvent, Sealed

(* An accepted task event commits the fact of its task.                     *)
LEMMA TaskEventCommits ==
  ASSUME TypeOK, TaskEvent
  PROVE  Committed!Next
<1>1. PICK t \in Tasks, r \in TaskRecord : AppendTaskState(t, r)
  BY DEF TaskEvent
<1> DEFINE f == <<"task", t>>
<1>2. f \in Facts
  BY DEF Facts
<1>3. ~Sealed /\ ~IsFinal(f)
  BY <1>1, RelatedEventIsUnsealed DEF AppendTaskState, AcceptsTaskState, IsFinal
<1>4. /\ tasks' = [tasks EXCEPT ![t] = r]
      /\ UNCHANGED <<run, plans, attempts, mail, continuations, milestones, decisions>>
  BY <1>1 DEF AppendTaskState
<1>5. ASSUME NEW g \in Facts \ {f}
      PROVE  /\ ContentOf(g)' = ContentOf(g)
             /\ IsFinal(g)' <=> IsFinal(g)
  <2>1. g[1] # "task" \/ (g[2] \in Tasks /\ g[2] # t)
    BY FactKinds
  <2>2. g[1] = "task" => tasks'[g[2]] = tasks[g[2]]
    BY <1>4, <2>1 DEF TypeOK
  <2> QED
    BY <1>4, <2>2, FactKinds DEF ContentOf, IsFinal
<1> QED
  BY <1>2, <1>3, <1>4, <1>5, OneFactIsACommit

(* A final plan, mail or continuation accepts its own repetition only.     *)
LEMMA PlanEventCommits ==
  ASSUME TypeOK, PlanEvent
  PROVE  Committed!Next \/ UNCHANGED vars
<1>1. PICK v \in PlanVersions, p \in Plans : AppendPlanState(v, p)
  BY DEF PlanEvent
<1> DEFINE f == <<"plan", v>>
<1>2. f \in Facts
  BY DEF Facts
<1>3. ~Sealed
  BY <1>1, RelatedEventIsUnsealed DEF AppendPlanState, AcceptsPlanState
<1>4. /\ plans' = [plans EXCEPT ![v] = p]
      /\ UNCHANGED <<run, tasks, attempts, mail, continuations, milestones, decisions>>
  BY <1>1 DEF AppendPlanState
<1>5. ASSUME NEW g \in Facts \ {f}
      PROVE  /\ ContentOf(g)' = ContentOf(g)
             /\ IsFinal(g)' <=> IsFinal(g)
  <2>1. g[1] # "plan" \/ (g[2] \in PlanVersions /\ g[2] # v)
    BY FactKinds
  <2>2. g[1] = "plan" => plans'[g[2]] = plans[g[2]]
    BY <1>4, <2>1 DEF TypeOK
  <2> QED
    BY <1>4, <2>2, FactKinds DEF ContentOf, IsFinal
<1>6. CASE IsFinal(f)
  <2>1. p = plans[v]
    BY <1>1, <1>6 DEF AppendPlanState, AcceptsPlanState, IsFinal
  <2>2. plans' = plans
    BY <1>4, <2>1 DEF TypeOK
  <2> QED
    BY <1>4, <2>2 DEF vars
<1>7. CASE ~IsFinal(f)
  BY <1>2, <1>3, <1>4, <1>5, <1>7, OneFactIsACommit
<1> QED
  BY <1>6, <1>7

(* An accepted mail event commits the fact of its mail, or changes          *)
(* nothing.                                                                 *)
LEMMA MailEventCommits ==
  ASSUME TypeOK, MailEvent
  PROVE  Committed!Next \/ UNCHANGED vars
<1>1. PICK m \in Mails, r \in MailRecord, planVersion \in PlanVersions,
          fence \in Fences \cup {None} : AppendMailState(m, r, planVersion, fence)
  BY DEF MailEvent
<1> DEFINE f == <<"mail", m>>
<1>2. f \in Facts
  BY DEF Facts
<1>3. ~Sealed
  BY <1>1, RelatedEventIsUnsealed DEF AppendMailState, AcceptsMailState
<1>4. /\ mail' = [mail EXCEPT ![m] = r]
      /\ UNCHANGED <<run, plans, tasks, attempts, continuations, milestones, decisions>>
  BY <1>1 DEF AppendMailState
<1>5. ASSUME NEW g \in Facts \ {f}
      PROVE  /\ ContentOf(g)' = ContentOf(g)
             /\ IsFinal(g)' <=> IsFinal(g)
  <2>1. g[1] # "mail" \/ (g[2] \in Mails /\ g[2] # m)
    BY FactKinds
  <2>2. g[1] = "mail" => mail'[g[2]] = mail[g[2]]
    BY <1>4, <2>1 DEF TypeOK
  <2> QED
    BY <1>4, <2>2, FactKinds DEF ContentOf, IsFinal
<1>6. CASE IsFinal(f)
  <2>1. r = mail[m]
    BY <1>1, <1>6 DEF AppendMailState, AcceptsMailState, IsFinal
  <2>2. mail' = mail
    BY <1>4, <2>1 DEF TypeOK
  <2> QED
    BY <1>4, <2>2 DEF vars
<1>7. CASE ~IsFinal(f)
  BY <1>2, <1>3, <1>4, <1>5, <1>7, OneFactIsACommit
<1> QED
  BY <1>6, <1>7

(* An accepted continuation event commits the fact of its token, or         *)
(* changes nothing.                                                         *)
LEMMA ContinuationEventCommits ==
  ASSUME TypeOK, ContinuationEvent
  PROVE  Committed!Next \/ UNCHANGED vars
<1>1. PICK c \in Continuations, r \in ContinuationRecord :
          AppendContinuationState(c, r)
  BY DEF ContinuationEvent
<1> DEFINE f == <<"continuation", c>>
<1>2. f \in Facts
  BY DEF Facts
<1>3. ~Sealed
  BY <1>1, RelatedEventIsUnsealed DEF AppendContinuationState, AcceptsContinuationState
<1>4. /\ continuations' = [continuations EXCEPT ![c] = r]
      /\ UNCHANGED <<run, plans, tasks, attempts, mail, milestones, decisions>>
  BY <1>1 DEF AppendContinuationState
<1>5. ASSUME NEW g \in Facts \ {f}
      PROVE  /\ ContentOf(g)' = ContentOf(g)
             /\ IsFinal(g)' <=> IsFinal(g)
  <2>1. g[1] # "continuation" \/ (g[2] \in Continuations /\ g[2] # c)
    BY FactKinds
  <2>2. g[1] = "continuation" => continuations'[g[2]] = continuations[g[2]]
    BY <1>4, <2>1 DEF TypeOK
  <2> QED
    BY <1>4, <2>2, FactKinds DEF ContentOf, IsFinal
<1>6. CASE IsFinal(f)
  <2>1. r = continuations[c]
    BY <1>1, <1>6 DEF AppendContinuationState, AcceptsContinuationState, IsFinal
  <2>2. continuations' = continuations
    BY <1>4, <2>1 DEF TypeOK
  <2> QED
    BY <1>4, <2>2 DEF vars
<1>7. CASE ~IsFinal(f)
  BY <1>2, <1>3, <1>4, <1>5, <1>7, OneFactIsACommit
<1> QED
  BY <1>6, <1>7

(* A terminal attempt accepts nothing.                                     *)
LEMMA AttemptEventCommits ==
  ASSUME TypeOK, AttemptEvent
  PROVE  Committed!Next
<1>1. PICK a \in Attempts, r \in AttemptRecord : AppendAttemptState(a, r)
  BY DEF AttemptEvent
<1> DEFINE f == <<"attempt", a>>
<1>2. f \in Facts
  BY DEF Facts
<1>3. ~Sealed /\ ~IsFinal(f)
  BY <1>1, RelatedEventIsUnsealed DEF AppendAttemptState, AcceptsAttemptState, IsFinal
<1>4. /\ attempts' = [attempts EXCEPT ![a] = r]
      /\ UNCHANGED <<run, plans, tasks, mail, continuations, milestones, decisions>>
  BY <1>1 DEF AppendAttemptState
<1>5. ASSUME NEW g \in Facts \ {f}
      PROVE  /\ ContentOf(g)' = ContentOf(g)
             /\ IsFinal(g)' <=> IsFinal(g)
  <2>1. g[1] # "attempt" \/ (g[2] \in Attempts /\ g[2] # a)
    BY FactKinds
  <2>2. g[1] = "attempt" => attempts'[g[2]] = attempts[g[2]]
    BY <1>4, <2>1 DEF TypeOK
  <2> QED
    BY <1>4, <2>2, FactKinds DEF ContentOf, IsFinal
<1> QED
  BY <1>2, <1>3, <1>4, <1>5, OneFactIsACommit

(* A receipt is committed at the position after the last one.              *)
LEMMA MilestoneEventCommits ==
  ASSUME TypeOK, MilestonesContiguous, MilestoneEvent
  PROVE  Committed!Next
<1>1. PICK r \in MilestoneReceipt, planVersion \in PlanVersions :
        AppendMilestone(r, planVersion)
  BY DEF MilestoneEvent
<1> DEFINE n == Len(milestones) + 1
           f == <<"milestone", n>>
<1>2. milestones \in Seq(MilestoneReceipt) /\ Len(milestones) \in Nat
  BY DEF TypeOK
<1>3. r.step = n
  <2>1. CASE milestones = <<>>
    BY <1>1, <2>1 DEF AppendMilestone, AcceptsMilestone
  <2>2. CASE milestones # <<>>
    <3>1. milestones[Len(milestones)].step = Len(milestones)
      BY <1>2, <2>2 DEF MilestonesContiguous
    <3> QED
      BY <1>1, <2>2, <3>1 DEF AppendMilestone, AcceptsMilestone
  <2> QED
    BY <2>1, <2>2
<1>4. f \in Facts
  BY <1>3 DEF Facts, MilestoneReceipt
<1>5. ~Sealed /\ ~IsFinal(f)
  BY <1>1, <1>2, RelatedEventIsUnsealed DEF AppendMilestone, AcceptsMilestone, IsFinal
<1>6. /\ milestones' = Append(milestones, r)
      /\ UNCHANGED <<run, plans, tasks, attempts, mail, continuations, decisions>>
  BY <1>1 DEF AppendMilestone
<1>7. /\ Len(milestones') = n
      /\ \A i \in 1..Len(milestones) : milestones'[i] = milestones[i]
  BY <1>2, <1>6
<1>8. ASSUME NEW g \in Facts \ {f}
      PROVE  /\ ContentOf(g)' = ContentOf(g)
             /\ IsFinal(g)' <=> IsFinal(g)
  <2>1. g[1] # "milestone" \/ (g[2] \in Nat /\ g[2] # n)
    BY FactKinds, JournalAssumption
  <2>2. g[1] = "milestone" =>
          (g[2] \in 1..Len(milestones') <=> g[2] \in 1..Len(milestones))
    BY <1>2, <1>7, <2>1
  <2> QED
    BY <1>6, <1>7, <2>2, FactKinds DEF ContentOf, IsFinal
<1> QED
  BY <1>4, <1>5, <1>6, <1>8, OneFactIsACommit

(* An accepted decision event commits the next decision.                    *)
LEMMA DecisionEventCommits ==
  ASSUME TypeOK, DecisionEvent
  PROVE  Committed!Next
<1>1. PICK d \in Decisions, planVersion \in PlanVersions :
        AppendDecision(d, planVersion)
  BY DEF DecisionEvent
<1> DEFINE n == Len(decisions) + 1
           f == <<"decision", n>>
<1>2. decisions \in Seq(Decisions) /\ Len(decisions) \in Nat
  BY DEF TypeOK
<1>3. Len(decisions) < MaxDecisions /\ MaxDecisions \in Nat
  BY <1>1, JournalAssumption DEF AppendDecision
<1>4. n \in 1..MaxDecisions
  BY <1>2, <1>3
<1>5. f \in Facts
  BY <1>4 DEF Facts
<1>6. ~Sealed /\ ~IsFinal(f)
  BY <1>1, <1>2, RelatedEventIsUnsealed DEF AppendDecision, IsFinal
<1>7. /\ decisions' = Append(decisions, d)
      /\ UNCHANGED <<run, plans, tasks, attempts, mail, continuations, milestones>>
  BY <1>1 DEF AppendDecision
<1>8. /\ Len(decisions') = n
      /\ \A i \in 1..Len(decisions) : decisions'[i] = decisions[i]
  BY <1>2, <1>7
<1>9. ASSUME NEW g \in Facts \ {f}
      PROVE  /\ ContentOf(g)' = ContentOf(g)
             /\ IsFinal(g)' <=> IsFinal(g)
  <2>1. g[1] # "decision" \/ (g[2] \in Nat /\ g[2] # n)
    BY FactKinds, <1>3
  <2>2. g[1] = "decision" =>
          (g[2] \in 1..Len(decisions') <=> g[2] \in 1..Len(decisions))
    BY <1>2, <1>8, <2>1
  <2> QED
    BY <1>7, <1>8, <2>2, FactKinds DEF ContentOf, IsFinal
<1> QED
  BY <1>5, <1>6, <1>7, <1>9, OneFactIsACommit

(* The Legion journal implements CommittedFacts: a final fact keeps its    *)
(* content for ever and a terminal run seals the journal.                  *)
THEOREM JournalImplementsCommittedFacts == Spec => JournalKeepsCommittedFacts
<1>1. Init => Committed!Init
  <2> SUFFICES ASSUME Init
               PROVE  Committed!Init
    OBVIOUS
  <2>1. \A f \in Facts : ContentOf(f) = None /\ ~IsFinal(f)
    <3> SUFFICES ASSUME NEW f \in Facts
                 PROVE  ContentOf(f) = None /\ ~IsFinal(f)
      OBVIOUS
    <3>1. 1..Len(milestones) = {} /\ 1..Len(decisions) = {}
      BY DEF Init
    <3> QED
      BY <3>1, FactKinds DEF Init, ContentOf, IsFinal
  <2>2. ~Sealed
    BY DEF Init, Sealed
  <2> QED
    BY <2>1, <2>2 DEF Committed!Init, content, final
<1>2. TypeOK /\ MilestonesContiguous /\ [Next]_vars
        => [Committed!Next]_<<content, final>>
  BY StutterIsStutter, RunEventCommits, PlanEventCommits, TaskEventCommits,
     MailEventCommits, ContinuationEventCommits, MilestoneEventCommits,
     DecisionEventCommits, AttemptEventCommits DEF Next
<1> QED
  BY <1>1, <1>2, TypeCorrect, MilestonesAreContiguous, PTL
     DEF Spec, JournalKeepsCommittedFacts, Committed!Spec

----------------------------------------------------------------------------
(* The history of the journal.                                             *)

(* Requeues are counted from the first record of the mail on.              *)
RequeuesInv ==
  /\ requeues \in [Mails -> Nat]
  /\ \A m \in Mails : mail[m] = None => requeues[m] = 0

(* The history adds nothing to the journal and takes nothing from it.      *)
LEMMA HistoryIsOfTheJournal == HistorySpec => Spec
<1>1. [Next /\ Remember]_historyVars => [Next]_vars
  BY DEF historyVars
<1> QED
  BY <1>1, PTL DEF HistorySpec, HistoryInit, Spec

(* The reclaim count of a mail covers the times it was taken back, through *)
(* whatever events of whatever holders of the lease: a mail that is        *)
(* reserved is requeued with one more reclaim, and no other event lowers   *)
(* the count (invariant.ts:114-120).                                       *)
THEOREM ReclaimsCoverRequeues == HistorySpec => []ReclaimCountCoversRequeues
<1> USE JournalAssumption
<1>1. HistoryInit => RequeuesInv /\ ReclaimCountCoversRequeues
  BY DEF HistoryInit, Init, RequeuesInv, ReclaimCountCoversRequeues
<1>2. TypeOK /\ RequeuesInv /\ ReclaimCountCoversRequeues /\ [Next /\ Remember]_historyVars
        => RequeuesInv' /\ ReclaimCountCoversRequeues'
  <2> SUFFICES ASSUME TypeOK, RequeuesInv, ReclaimCountCoversRequeues,
                      [Next /\ Remember]_historyVars
               PROVE  RequeuesInv' /\ ReclaimCountCoversRequeues'
    OBVIOUS
  <2>1. CASE UNCHANGED historyVars
    BY <2>1 DEF historyVars, vars, RequeuesInv, ReclaimCountCoversRequeues
  <2>2. CASE Next /\ Remember
    <3>1. requeues' = [m \in Mails |-> requeues[m] + IF TakenBack(m) THEN 1 ELSE 0]
      BY <2>2 DEF Remember
    <3>2. requeues' \in [Mails -> Nat]
      BY <3>1 DEF RequeuesInv
    <3>3. ASSUME NEW m \in Mails, mail'[m] = mail[m]
          PROVE  requeues'[m] = requeues[m]
      <4>1. ~TakenBack(m)
        BY <3>3 DEF TakenBack
      <4> QED
        BY <3>1, <4>1 DEF RequeuesInv
    <3>4. CASE UNCHANGED mail
      BY <3>2, <3>3, <3>4 DEF RequeuesInv, ReclaimCountCoversRequeues
    <3>5. CASE MailEvent
      <4>1. PICK m \in Mails, r \in MailRecord, planVersion \in PlanVersions,
                 fence \in Fences \cup {None} : AppendMailState(m, r, planVersion, fence)
        BY <3>5 DEF MailEvent
      <4>2. mail' = [mail EXCEPT ![m] = r] /\ AcceptsMailState(m, r, planVersion, fence)
        BY <4>1 DEF AppendMailState
      <4>3. mail'[m] = r /\ \A n \in Mails \ {m} : mail'[n] = mail[n]
        BY <4>2 DEF TypeOK
      <4>4. r # None /\ r.reclaimCount \in Nat /\ requeues[m] \in Nat
        BY NoneIsAbsent DEF MailRecord, RequeuesInv
      <4>5. r.reclaimCount >= requeues'[m]
        <5>1. CASE mail[m] = None
          BY <3>1, <4>4, <5>1 DEF TakenBack, RequeuesInv
        <5>2. CASE mail[m] # None
          <6>1. mail[m].reclaimCount \in Nat /\ mail[m].reclaimCount >= requeues[m]
            BY <5>2 DEF TypeOK, MailRecord, ReclaimCountCoversRequeues
          <6>2. /\ r.reclaimCount >= mail[m].reclaimCount
                /\ TakenBack(m) => r.reclaimCount = mail[m].reclaimCount + 1
            BY <4>2, <4>3, <5>2 DEF AcceptsMailState, TakenBack
          <6> QED
            BY <3>1, <4>4, <6>1, <6>2
        <5> QED
          BY <5>1, <5>2
      <4>6. \A n \in Mails \ {m} : requeues'[n] = requeues[n]
        BY <3>3, <4>3
      <4> QED
        BY <3>2, <4>3, <4>4, <4>5, <4>6 DEF RequeuesInv, ReclaimCountCoversRequeues
    <3> QED
      BY <2>2, <3>4, <3>5, OtherFamiliesUnchanged
  <2> QED
    BY <2>1, <2>2
<1> QED
  BY <1>1, <1>2, HistoryIsOfTheJournal, TypeCorrect, PTL DEF HistorySpec

==============================================================================
