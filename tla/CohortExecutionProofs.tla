------------------------ MODULE CohortExecutionProofs ------------------------
(***************************************************************************)
(* Proofs about CohortExecution for every plan: any number of stages,       *)
(* members and required successes.                                          *)
(***************************************************************************)
EXTENDS CohortExecution, FiniteSetTheorems, TLAPS

USE PlanAssumption, NoneIsAbsent

(* The outcome is open until a branch of executeStrategyPlan ends the run,   *)
(* and only that branch claims a success.                                   *)
PhaseInv ==
  /\ main \in {"loop", "members"} => /\ outcome = None
                                     /\ claimed \in {None, "cancelled", "failed"}
  /\ main \in {"finishing", "returned"} => /\ outcome # None
                                           /\ outcome = claimed
  /\ main = "members" => stage <= Stages

(* A member waits for its stage: those of later stages have not begun.       *)
NotBegun(c) == \/ c[1] > stage
               \/ main = "loop" /\ c[1] = stage

(* What a member's position says of its stage, execution and child.          *)
MemberFacts(c) ==
  /\ NotBegun(c) => member[c] = "idle"
  /\ member[c] \in {"idle", "preflight"} =>
       execution[c] = None /\ child[c] = "absent" /\ seen[c] = None
  /\ member[c] \in {"preflight", "cleaning"} \cup Awaiting
       => main = "members" /\ c[1] = stage
  /\ member[c] = "starting" =>
       /\ execution[c] = None
       /\ seen[c] \in {None, "aborted", "published", "rejected"}
       /\ seen[c] = "published" => child[c] = "live"
       /\ seen[c] = "rejected" => child[c] = "refused"
  /\ member[c] = "running" =>
       /\ execution[c] = None
       /\ child[c] = "live"
       /\ seen[c] \in {None, "aborted", "completed", "failed"}
  /\ member[c] = "cleaning" =>
       /\ execution[c] # None
       /\ child[c] \in {"disposing", "gone", "stuck"}
       /\ seen[c] = "quiescent" => child[c] = "gone"
  /\ member[c] = "valued" => execution[c] = "completed" /\ child[c] = "gone"
  /\ member[c] = "errored" => child[c] # "live"

MemberInv == \A c \in Member : MemberFacts(c)

(* The fan-out counts each failing member once.                             *)
CountInv ==
  main = "members" /\ Fanout[stage] =>
    /\ marked = Failing(stage)
    /\ failedMembers = Cardinality(marked)

(* Between stages, only an abort has decided the run.                       *)
LoopInv == main = "loop" => (claimed # None <=> aborted)

IInv == /\ TypeOK
        /\ PhaseInv
        /\ MemberInv
        /\ CountInv
        /\ LoopInv
        /\ DecidedExactlyWhenLost

------------------------------------------------------------------------------
(* n numbers from 1.                                                        *)
LEMMA IntervalSize ==
  ASSUME NEW n \in Nat \ {0}
  PROVE  IsFiniteSet(1..n) /\ Cardinality(1..n) = n
  BY FS_Interval, 1 \in Int, n \in Int, n - 1 + 1 = n, ~(1 > n)

(* The members of a stage are those that carry it, Count of them.           *)
LEMMA MembersOfStage ==
  /\ \A c \in Member : c[1] \in 1..Stages
  /\ \A p \in 1..Stages : /\ Of(p) = {c \in Member : c[1] = p}
                          /\ IsFiniteSet(Of(p))
                          /\ Cardinality(Of(p)) = Count[p]
<1>1. \A c \in Member : c[1] \in 1..Stages
  BY DEF Member
<1>2. ASSUME NEW p \in 1..Stages
      PROVE  Of(p) = {c \in Member : c[1] = p}
  BY DEF Of, Member
<1>3. ASSUME NEW p \in 1..Stages
      PROVE  IsFiniteSet(Of(p)) /\ Cardinality(Of(p)) = Count[p]
  <2>1. Count[p] \in Nat \ {0}
    BY DEF PlanAssumption
  <2> DEFINE n == Count[p]
  <2>2. IsFiniteSet(1..n) /\ Cardinality(1..n) = n
    BY <2>1, IntervalSize
  <2>3. IsFiniteSet({p}) /\ Cardinality({p}) = 1
    BY FS_Singleton
  <2>4. IsFiniteSet({p} \X (1..n)) /\ Cardinality({p} \X (1..n)) = 1 * n
    <3> HIDE DEF n
    <3> QED
      BY ZenonT(40), <2>2, <2>3, FS_Product
  <2> QED
    BY <2>1, <2>4 DEF Of
<1> QED
  BY <1>1, <1>2, <1>3

(* Whatever a member reports, only its own promise and the fan-out's books   *)
(* change, and every promise the failure does not abort keeps its value.    *)
LEMMA ReportTypes ==
  ASSUME TypeOK, NEW c \in Member, OnError(c) \/ OnExecutionFailed(c) \/ NoFailure(c)
  PROVE  /\ stageAborted' \in BOOLEAN
         /\ claimed' \in {claimed, Claim("failed")}
         /\ claimed' \in Outcomes \cup {None}
         /\ failedMembers' \in Nat
         /\ marked' \subseteq Member
         /\ seen' = [seen EXCEPT ![c] = None] \/ seen' = Wake([seen EXCEPT ![c] = None])
         /\ seen' \in [Member -> {None, "aborted", "published", "rejected"} \cup Executions
                                   \cup {"quiescent", "pending"}]
<1>1. CASE NoFailure(c)
  BY <1>1 DEF NoFailure, Report, TypeOK, fanoutVars
<1>2. CASE MarkFailure(c)
  <2>1. Claim("failed") \in Outcomes \cup {None}
    BY DEF Claim, TypeOK, Outcomes
  <2>2. CASE /\ marked' = marked \cup {c}
             /\ failedMembers' = failedMembers + 1
             /\ AbortStage(c)
    <3>1. Wake([seen EXCEPT ![c] = None]) \in
            [Member -> {None, "aborted", "published", "rejected"} \cup Executions
                         \cup {"quiescent", "pending"}]
      BY DEF TypeOK, Wake
    <3>2. seen' = Wake([seen EXCEPT ![c] = None])
      BY <2>2 DEF AbortStage
    <3>3. /\ stageAborted' \in BOOLEAN
          /\ claimed' = Claim("failed")
          /\ failedMembers' \in Nat
          /\ marked' \subseteq Member
      BY <2>2 DEF AbortStage, TypeOK
    <3> QED
      BY <2>1, <3>1, <3>2, <3>3, Zenon
  <2>3. CASE /\ marked' = marked \cup {c}
             /\ failedMembers' = failedMembers + 1
             /\ Report(c)
             /\ UNCHANGED stageAborted
    BY <2>3 DEF Report, TypeOK
  <2>4. CASE NoFailure(c)
    BY <1>1, <2>4
  <2> QED
    BY <1>2, <2>2, <2>3, <2>4, Zenon DEF MarkFailure, NoFailure
<1>3. CASE /\ claimed' = Claim("failed")
           /\ seen' = [seen EXCEPT ![c] = None]
           /\ UNCHANGED fanoutVars
  BY <1>3 DEF TypeOK, fanoutVars, Claim, Outcomes
<1> QED
  BY <1>1, <1>2, <1>3 DEF OnError, OnExecutionFailed

(* A step keeps the types: a stage in execution is one of the plan's, and a  *)
(* running member saw an end of its child or the abort.                     *)
LEMMA TypeStep == TypeOK /\ PhaseInv /\ MemberInv /\ [Next]_vars => TypeOK'
<1> SUFFICES ASSUME TypeOK, PhaseInv, MemberInv, [Next]_vars
             PROVE  TypeOK'
  OBVIOUS
<1> USE DEF TypeOK, fanoutVars
<1>1. CASE RunStep
  <2>1. CASE StopBeforeStage
    BY <2>1 DEF StopBeforeStage, Catch, Claim, Outcomes
  <2>2. CASE StartStage
    BY <2>2 DEF StartStage, Positions
  <2>3. CASE StageFails
    BY <2>3 DEF StageFails, Catch, Claim, Outcomes, StageStatuses
  <2>4. CASE StageOverflows
    BY <2>4 DEF StageOverflows, Catch, Claim, Outcomes, StageStatuses
  <2>5. CASE StageSucceeds
    BY <2>5 DEF StageSucceeds, StageDone, StageStatuses, PhaseInv
  <2>6. CASE Complete
    BY <2>6 DEF Complete, Claim, Outcomes
  <2>7. CASE Return
    BY <2>7 DEF Return, StageStatuses
  <2> QED
    BY <1>1, <2>1, <2>2, <2>3, <2>4, <2>5, <2>6, <2>7 DEF RunStep
<1>2. CASE Abort
  BY <1>2 DEF Abort, Claim, Outcomes, Wake
<1>3. ASSUME NEW c \in Member, MemberStep(c)
      PROVE  TypeOK'
  <2>1. CASE Start(c)
    BY <2>1 DEF Start, Positions, Awaiting, Hosted
  <2>2. CASE NotStarted(c)
    BY <2>2, ReportTypes DEF NotStarted, Positions, Settled, Executions
  <2>3. CASE AdmissionAborted(c)
    BY <2>3, ReportTypes DEF AdmissionAborted, Positions, Settled, Executions, Hosted
  <2>4. CASE AdmissionRejected(c)
    BY <2>4, ReportTypes DEF AdmissionRejected, Positions, Settled, Executions
  <2>5. CASE AdmissionPublished(c)
    BY <2>5 DEF AdmissionPublished, Positions, Awaiting
  <2>6. CASE ExecutionSettles(c)
    <3>1. seen[c] \in {"aborted", "completed", "failed"}
      BY <2>6 DEF ExecutionSettles, MemberInv, MemberFacts
    <3>2. OnError(c) \/ OnExecutionFailed(c) \/ NoFailure(c)
      BY <2>6 DEF ExecutionSettles
    <3> QED
      BY <2>6, <3>1, <3>2, ReportTypes DEF ExecutionSettles, Positions, Executions, Hosted
  <2>7. CASE CleanupTimeout(c)
    BY <2>7 DEF CleanupTimeout
  <2>8. CASE Value(c)
    BY <2>8, ReportTypes DEF Value, Positions, Settled
  <2>9. CASE Error(c)
    BY <2>9, ReportTypes DEF Error, Positions, Settled
  <2> QED
    BY <1>3, <2>1, <2>2, <2>3, <2>4, <2>5, <2>6, <2>7, <2>8, <2>9 DEF MemberStep
<1>4. ASSUME NEW c \in Member, HostStep(c)
      PROVE  TypeOK'
  BY <1>4 DEF HostStep, ChildPublished, ChildRefused, ChildResult, ChildDisposed,
              DisposalFails, Hosted, Executions
<1>5. CASE UNCHANGED vars
  BY <1>5 DEF vars
<1> QED
  BY <1>1, <1>2, <1>3, <1>4, <1>5 DEF Next

------------------------------------------------------------------------------
(* A member acts only while its stage executes.                             *)
LEMMA ActiveMember ==
  ASSUME MemberInv, NEW c \in Member, MemberStep(c)
  PROVE  main = "members" /\ c[1] = stage /\ UNCHANGED <<main, stage, aborted, status, outcome>>
  BY DEF MemberInv, MemberFacts, MemberStep, Start, NotStarted, AdmissionAborted,
         AdmissionRejected, AdmissionPublished, ExecutionSettles, CleanupTimeout, Value,
         Error, Awaiting

(* A member's step leaves the others where they are, but may resolve what    *)
(* they wait for with the abort.                                            *)
LEMMA OtherMembers ==
  ASSUME TypeOK, PhaseInv, MemberInv, NEW c \in Member, MemberStep(c)
  PROVE  /\ claimed' \in {claimed, Claim("failed")}
         /\ \A d \in Member \ {c} :
              /\ member'[d] = member[d]
              /\ execution'[d] = execution[d]
              /\ child'[d] = child[d]
              /\ seen'[d] = seen[d] \/ (Waiting(d) /\ seen'[d] = "aborted")
<1> DEFINE Kept(d) == /\ member'[d] = member[d]
                      /\ execution'[d] = execution[d]
                      /\ child'[d] = child[d]
           Heard(d) == seen'[d] = seen[d] \/ (Waiting(d) /\ seen'[d] = "aborted")
<1>1. \A d \in Member \ {c} : Kept(d)
  BY DEF TypeOK, MemberStep, Start, NotStarted, AdmissionAborted, AdmissionRejected,
         AdmissionPublished, ExecutionSettles, CleanupTimeout, Value, Error
<1>2. CASE OnError(c) \/ OnExecutionFailed(c) \/ NoFailure(c)
  <2>1. claimed' \in {claimed, Claim("failed")}
    BY <1>2, ReportTypes
  <2>2. seen' = [seen EXCEPT ![c] = None] \/ seen' = Wake([seen EXCEPT ![c] = None])
    BY <1>2, ReportTypes
  <2>3. \A d \in Member \ {c} : Heard(d)
    BY <2>2 DEF TypeOK, Wake
  <2> QED
    BY <1>1, <2>1, <2>3
<1>3. CASE Start(c) \/ AdmissionPublished(c) \/ CleanupTimeout(c)
  <2>1. claimed' = claimed
    BY <1>3 DEF Start, AdmissionPublished, CleanupTimeout
  <2>2. \A d \in Member \ {c} : Heard(d)
    BY <1>3 DEF Start, AdmissionPublished, CleanupTimeout, TypeOK
  <2> QED
    BY <1>1, <2>1, <2>2
<1> QED
  BY <1>2, <1>3 DEF MemberStep, NotStarted, AdmissionAborted, AdmissionRejected,
                    ExecutionSettles, Value, Error

(* The run's phase, outcome and claim stay together.                        *)
LEMMA PhaseStep ==
  TypeOK /\ PhaseInv /\ MemberInv /\ [Next]_vars => PhaseInv'
<1> SUFFICES ASSUME TypeOK, PhaseInv, MemberInv, [Next]_vars
             PROVE  PhaseInv'
  OBVIOUS
<1> USE DEF PhaseInv
<1>1. CASE RunStep
  <2>1. CASE StopBeforeStage
    BY <2>1 DEF StopBeforeStage, Catch, Claim, Outcomes
  <2>2. CASE StartStage
    BY <2>2 DEF StartStage
  <2>3. CASE StageFails
    BY <2>3 DEF StageFails, StageDone, Catch, Claim, Outcomes
  <2>4. CASE StageOverflows
    BY <2>4 DEF StageOverflows, StageDone, Catch, Claim, Outcomes
  <2>5. CASE StageSucceeds
    BY <2>5 DEF StageSucceeds, StageDone
  <2>6. CASE Complete
    BY <2>6 DEF Complete, Claim, Outcomes
  <2>7. CASE Return
    BY <2>7 DEF Return, fanoutVars
  <2> QED
    BY <1>1, <2>1, <2>2, <2>3, <2>4, <2>5, <2>6, <2>7 DEF RunStep
<1>2. CASE Abort
  BY <1>2 DEF Abort, Claim
<1>3. ASSUME NEW c \in Member, MemberStep(c)
      PROVE  PhaseInv'
  <2>1. main = "members" /\ UNCHANGED <<main, stage, outcome>>
    BY <1>3, ActiveMember
  <2>2. claimed' \in {claimed, Claim("failed")}
    BY <1>3, OtherMembers
  <2> QED
    BY <2>1, <2>2 DEF Claim
<1>4. ASSUME NEW c \in Member, HostStep(c)
      PROVE  PhaseInv'
  BY <1>4 DEF HostStep, ChildPublished, ChildRefused, ChildResult, ChildDisposed, DisposalFails
<1>5. CASE UNCHANGED vars
  BY <1>5 DEF vars
<1> QED
  BY <1>1, <1>2, <1>3, <1>4, <1>5 DEF Next

------------------------------------------------------------------------------
(* A member that does not move keeps its facts when its promise is resolved  *)
(* with the abort.                                                          *)
LEMMA UnmovedMember ==
  ASSUME NEW d \in Member, MemberFacts(d), NotBegun(d)' => NotBegun(d),
         member[d] \in {"preflight", "cleaning"} \cup Awaiting => UNCHANGED <<main, stage>>,
         member'[d] = member[d], execution'[d] = execution[d], child'[d] = child[d],
         seen'[d] = seen[d] \/ (Waiting(d) /\ seen'[d] = "aborted")
  PROVE  MemberFacts(d)'
  BY DEF MemberFacts, Waiting, Awaiting

(* The step of a member keeps the facts about that member.                  *)
LEMMA ActingMember ==
  ASSUME TypeOK, PhaseInv, MemberInv, NEW c \in Member, MemberStep(c)
  PROVE  MemberFacts(c)'
<1>1. main = "members" /\ c[1] = stage /\ UNCHANGED <<main, stage>> /\ MemberFacts(c)
  BY ActiveMember DEF MemberInv
<1>2. ~NotBegun(c)'
  <2>1. stage \in Int
    BY DEF TypeOK
  <2> QED
    BY <1>1, <2>1 DEF NotBegun
<1> USE DEF TypeOK, Awaiting, Settled
<1>3. CASE Start(c)
  BY <1>1, <1>2, <1>3 DEF Start, MemberFacts
<1>4. CASE NotStarted(c)
  BY <1>1, <1>2, <1>4 DEF NotStarted, MemberFacts
<1>5. CASE AdmissionAborted(c)
  BY <1>1, <1>2, <1>5 DEF AdmissionAborted, MemberFacts
<1>6. CASE AdmissionRejected(c)
  BY <1>1, <1>2, <1>6 DEF AdmissionRejected, MemberFacts
<1>7. CASE AdmissionPublished(c)
  BY <1>1, <1>2, <1>7 DEF AdmissionPublished, MemberFacts
<1>8. CASE ExecutionSettles(c)
  <2>1. seen[c] \in {"aborted", "completed", "failed"}
    BY <1>1, <1>8 DEF ExecutionSettles, MemberFacts
  <2>2. /\ member'[c] = "cleaning"
        /\ execution'[c] # None
        /\ child'[c] = "disposing"
    BY <1>8, <2>1 DEF ExecutionSettles, NoneIsAbsent, Outcomes
  <2>3. seen'[c] = None
    <3>1. seen' = [seen EXCEPT ![c] = None] \/ seen' = Wake([seen EXCEPT ![c] = None])
      BY <1>8, ReportTypes DEF ExecutionSettles
    <3>2. ~Waiting(c)
      BY <1>8 DEF ExecutionSettles, Waiting
    <3> QED
      BY <3>1, <3>2 DEF Wake
  <2> QED
    BY <1>1, <1>2, <2>2, <2>3 DEF MemberFacts
<1>9. CASE CleanupTimeout(c)
  BY <1>1, <1>2, <1>9 DEF CleanupTimeout, MemberFacts
<1>10. CASE Value(c)
  BY <1>1, <1>2, <1>10 DEF Value, MemberFacts
<1>11. CASE Error(c)
  BY <1>1, <1>2, <1>11 DEF Error, MemberFacts
<1> QED
  BY <1>3, <1>4, <1>5, <1>6, <1>7, <1>8, <1>9, <1>10, <1>11 DEF MemberStep

(* A step of the Host keeps the facts about the member whose child it is.   *)
LEMMA ActingChild ==
  ASSUME TypeOK, MemberInv, NEW c \in Member, HostStep(c)
  PROVE  /\ MemberFacts(c)'
         /\ UNCHANGED <<main, stage, aborted, fanoutVars, claimed, member, execution, status, outcome>>
         /\ \A d \in Member \ {c} : child'[d] = child[d] /\ seen'[d] = seen[d]
<1>1. MemberFacts(c)
  BY DEF MemberInv
<1> USE DEF TypeOK, Awaiting, Waiting, NotBegun
<1>2. CASE ChildPublished(c)
  BY <1>1, <1>2 DEF ChildPublished, MemberFacts
<1>3. CASE ChildRefused(c)
  BY <1>1, <1>3 DEF ChildRefused, MemberFacts
<1>4. ASSUME NEW kind \in {"completed", "failed"}, ChildResult(c, kind)
      PROVE  /\ MemberFacts(c)'
             /\ UNCHANGED <<main, stage, aborted, fanoutVars, claimed, member, execution,
                            status, outcome>>
             /\ \A d \in Member \ {c} : child'[d] = child[d] /\ seen'[d] = seen[d]
  BY <1>1, <1>4 DEF ChildResult, MemberFacts
<1>5. CASE ChildDisposed(c)
  BY <1>1, <1>5 DEF ChildDisposed, MemberFacts
<1>6. CASE DisposalFails(c)
  BY <1>1, <1>6 DEF DisposalFails, MemberFacts
<1> QED
  BY <1>2, <1>3, <1>4, <1>5, <1>6 DEF HostStep

(* Every step keeps what positions say of executions and children.          *)
LEMMA MemberInvStep ==
  TypeOK /\ PhaseInv /\ MemberInv /\ [Next]_vars => MemberInv'
<1> SUFFICES ASSUME TypeOK, PhaseInv, MemberInv, [Next]_vars, NEW d \in Member
             PROVE  MemberFacts(d)'
  BY DEF MemberInv
<1>1. MemberFacts(d)
  BY DEF MemberInv
<1>2. stage \in Int /\ d[1] \in Int
  BY MembersOfStage DEF TypeOK
<1>3. CASE RunStep
  <2>1. CASE StartStage
    <3>1. CASE d[1] = stage
      <4>1. d \in Of(stage) /\ member[d] = "idle"
        BY <1>1, <2>1, <3>1, MembersOfStage DEF StartStage, MemberFacts, NotBegun
      <4>2. member'[d] = "preflight" /\ UNCHANGED <<stage, execution, child, seen>> /\ main' = "members"
        BY <2>1, <4>1 DEF StartStage
      <4> QED
        BY <1>1, <1>2, <3>1, <4>1, <4>2 DEF MemberFacts, NotBegun, Awaiting
    <3>2. CASE d[1] # stage
      <4>1. d \notin Of(stage)
        BY <3>2, <2>1, MembersOfStage DEF StartStage, Of
      <4>2. UNCHANGED <<stage, execution, child, seen>> /\ member'[d] = member[d] /\ main = "loop"
        BY <2>1, <4>1 DEF StartStage
      <4> QED
        BY <1>1, <2>1, <3>2, <4>2 DEF MemberFacts, NotBegun, Awaiting, StartStage
    <3> QED
      BY <3>1, <3>2
  <2>2. CASE StageSucceeds
    <3>1. ~(member[d] \in {"preflight", "cleaning"} \cup Awaiting)
      BY <1>1, <2>2, MembersOfStage DEF StageSucceeds, StageDone, MemberFacts, PhaseInv, TypeOK,
                                        Awaiting, Settled
    <3>2. NotBegun(d)' => NotBegun(d)
      BY <1>2, <2>2 DEF StageSucceeds, NotBegun
    <3> QED
      BY <1>1, <2>2, <3>1, <3>2 DEF MemberFacts, StageSucceeds, Awaiting
  <2>3. CASE StageFails \/ StageOverflows
    <3>1. ~(member[d] \in {"preflight", "cleaning"} \cup Awaiting)
      BY <1>1, <2>3, MembersOfStage DEF StageFails, StageOverflows, StageDone, MemberFacts, PhaseInv,
                                        TypeOK, Awaiting, Settled
    <3>2. main' = "finishing" /\ UNCHANGED <<stage, member, execution, child, seen>>
      BY <2>3 DEF StageFails, StageOverflows, Catch
    <3> QED
      BY <1>1, <3>1, <3>2 DEF MemberFacts, NotBegun, Awaiting
  <2>4. CASE StopBeforeStage \/ Complete \/ Return
    <3>1. /\ main \in {"loop", "finishing"}
          /\ main' \in {"finishing", "returned"}
          /\ UNCHANGED <<stage, member, execution, child, seen>>
      BY <2>4 DEF StopBeforeStage, Complete, Return, Catch
    <3> QED
      BY <1>1, <3>1 DEF MemberFacts, NotBegun, Awaiting
  <2> QED
    BY <1>3, <2>1, <2>2, <2>3, <2>4 DEF RunStep
<1>4. CASE Abort
  <2>1. UNCHANGED <<main, stage, member, execution, child>> /\ seen' = Wake(seen)
    BY <1>4 DEF Abort
  <2>2. seen'[d] = seen[d] \/ (Waiting(d) /\ seen'[d] = "aborted")
    BY <2>1 DEF Wake
  <2> QED
    BY <1>1, <2>1, <2>2, UnmovedMember DEF NotBegun
<1>5. ASSUME NEW c \in Member, MemberStep(c)
      PROVE  MemberFacts(d)'
  <2>1. UNCHANGED <<main, stage>>
    BY <1>5, ActiveMember
  <2>2. CASE d = c
    BY <1>5, <2>2, ActingMember
  <2>3. CASE d # c
    BY <1>1, <1>5, <2>1, <2>3, OtherMembers, UnmovedMember DEF NotBegun
  <2> QED
    BY <2>2, <2>3
<1>6. ASSUME NEW c \in Member, HostStep(c)
      PROVE  MemberFacts(d)'
  <2>1. CASE d = c
    BY <1>6, <2>1, ActingChild
  <2>2. CASE d # c
    BY <1>1, <1>6, <2>2, ActingChild, UnmovedMember DEF NotBegun
  <2> QED
    BY <2>1, <2>2
<1>7. CASE UNCHANGED vars
  BY <1>1, <1>7 DEF vars, MemberFacts, NotBegun
<1> QED
  BY <1>3, <1>4, <1>5, <1>6, <1>7 DEF Next

------------------------------------------------------------------------------
(* The failing members are some of the stage's, finitely many.              *)
LEMMA FailingMembers ==
  ASSUME NEW p \in 1..Stages
  PROVE  /\ Failing(p) \subseteq Of(p)
         /\ IsFiniteSet(Failing(p))
         /\ Cardinality(Failing(p)) \in Nat
<1>1. Failing(p) \subseteq Of(p)
  BY DEF Failing
<1>2. IsFiniteSet(Of(p))
  BY MembersOfStage
<1>3. IsFiniteSet(Failing(p))
  BY <1>1, <1>2, FS_Subset
<1> QED
  BY <1>1, <1>3, FS_CardinalityType

(* A stage that lost too many members cannot have enough values.            *)
LEMMA LossPreventsSuccess ==
  ASSUME MemberInv, NEW p \in 1..Stages,
         Cardinality(Failing(p)) > Count[p] - MinSuccess[p]
  PROVE  Cardinality(Valued(p)) < MinSuccess[p]
<1>1. /\ IsFiniteSet(Of(p))
      /\ Cardinality(Of(p)) = Count[p]
      /\ Of(p) \subseteq Member
  BY MembersOfStage
<1>2. Failing(p) \cap Valued(p) = {}
  BY <1>1 DEF Failing, Valued, MemberInv, MemberFacts
<1>3. Valued(p) \subseteq Of(p)
  BY DEF Valued
<1>4. IsFiniteSet(Valued(p)) /\ Cardinality(Valued(p)) \in Nat
  <2>1. IsFiniteSet(Valued(p))
    BY <1>1, <1>3, FS_Subset
  <2> QED
    BY <2>1, FS_CardinalityType
<1>5. Cardinality(Failing(p) \cup Valued(p))
        = Cardinality(Failing(p)) + Cardinality(Valued(p)) - Cardinality({})
  BY <1>2, <1>4, FailingMembers, FS_Union
<1>6. Cardinality(Failing(p) \cup Valued(p)) <= Count[p]
  <2>1. Failing(p) \cup Valued(p) \in SUBSET Of(p)
    BY <1>3, FailingMembers
  <2> QED
    BY <1>1, <2>1, FS_Subset
<1>7. Count[p] \in Nat /\ MinSuccess[p] \in Nat /\ Cardinality({}) = 0
  BY FS_EmptySet DEF PlanAssumption
<1> QED
  BY <1>4, <1>5, <1>6, <1>7, FailingMembers

(* What a member's step does to the books of its stage: nothing, a counted   *)
(* failure of a fan-out member, or the failed execution of a delegate.      *)
LEMMA BookKeeping ==
  ASSUME TypeOK, PhaseInv, MemberInv, NEW c \in Member, MemberStep(c)
  PROVE  \/ Failing(stage)' = Failing(stage) /\ UNCHANGED <<fanoutVars, claimed>>
         \/ /\ Failing(stage)' = Failing(stage) \cup {c}
            /\ IF Fanout[stage] THEN MarkFailure(c)
               ELSE claimed' = Claim("failed") /\ UNCHANGED fanoutVars
<1>1. /\ main = "members" /\ c[1] = stage /\ UNCHANGED <<main, stage>>
      /\ MemberFacts(c)
  BY ActiveMember DEF MemberInv
<1>2. stage \in 1..Stages /\ c \in Of(stage) /\ Of(stage) \subseteq Member
  BY <1>1, MembersOfStage
<1>3. ASSUME NEW d \in Of(stage), d # c
      PROVE  (d \in Failing(stage)') <=> (d \in Failing(stage))
  <2>1. member'[d] = member[d] /\ execution'[d] = execution[d]
    BY <1>2, <1>3, OtherMembers
  <2> QED
    BY <1>1, <2>1 DEF Failing, Of
<1>4. Failing(stage)' \subseteq Of(stage) /\ Failing(stage) \subseteq Of(stage)
  BY <1>1 DEF Failing, Of
<1>5. ASSUME (c \in Failing(stage)') <=> (c \in Failing(stage))
      PROVE  Failing(stage)' = Failing(stage)
  <2>1. \A d \in Of(stage) : d \in Failing(stage)' <=> d \in Failing(stage)
    BY <1>3, <1>5
  <2> QED
    BY <1>4, <2>1
<1>6. ASSUME c \in Failing(stage)'
      PROVE  Failing(stage)' = Failing(stage) \cup {c}
  BY <1>2, <1>3, <1>4, <1>6
<1>7. c \in Failing(stage) <=> execution[c] = "failed" \/ (Fanout[stage] /\ member[c] = "errored")
  BY <1>2 DEF Failing
<1>8. c \in Failing(stage)' <=> execution'[c] = "failed" \/ (Fanout[stage] /\ member'[c] = "errored")
  BY <1>1, <1>2 DEF Failing, Of
<1>9. ASSUME OnError(c), member'[c] = "errored", execution'[c] = "failed" => execution[c] = "failed",
             member[c] # "errored", execution[c] = "failed" => execution'[c] = "failed"
      PROVE  \/ Failing(stage)' = Failing(stage) /\ UNCHANGED <<fanoutVars, claimed>>
             \/ /\ Failing(stage)' = Failing(stage) \cup {c}
                /\ Fanout[stage] /\ MarkFailure(c)
  <2>1. CASE Fanout[stage]
    BY <1>6, <1>8, <1>9, <2>1 DEF OnError
  <2>2. CASE ~Fanout[stage]
    BY <1>5, <1>7, <1>8, <1>9, <2>2 DEF OnError, NoFailure, Report
  <2> QED
    BY <2>1, <2>2
<1>10. ASSUME OnExecutionFailed(c), execution'[c] = "failed"
       PROVE  /\ Failing(stage)' = Failing(stage) \cup {c}
              /\ IF Fanout[stage] THEN MarkFailure(c)
                 ELSE claimed' = Claim("failed") /\ UNCHANGED fanoutVars
  BY <1>6, <1>8, <1>10 DEF OnExecutionFailed
<1>11. "failed" # None
  BY DEF NoneIsAbsent, Outcomes
<1>12. CASE NotStarted(c)
  <2>1. /\ OnError(c) /\ member'[c] = "errored" /\ execution'[c] # "failed"
        /\ member[c] # "errored" /\ execution[c] # "failed"
    BY <1>1, <1>11, <1>12 DEF NotStarted, TypeOK, MemberFacts
  <2> QED
    BY <1>9, <2>1
<1>13. CASE AdmissionAborted(c)
  <2>1. /\ OnError(c) /\ member'[c] = "errored" /\ execution'[c] # "failed"
        /\ member[c] # "errored" /\ execution[c] # "failed"
    BY <1>1, <1>11, <1>13 DEF AdmissionAborted, TypeOK, MemberFacts
  <2> QED
    BY <1>9, <2>1
<1>14. CASE Error(c)
  <2>1. /\ OnError(c) /\ member'[c] = "errored" /\ execution'[c] = execution[c]
        /\ member[c] # "errored"
    BY <1>14 DEF Error, TypeOK
  <2> QED
    BY <1>9, <2>1
<1>15. CASE AdmissionRejected(c)
  <2>1. OnExecutionFailed(c) /\ execution'[c] = "failed"
    BY <1>15 DEF AdmissionRejected, TypeOK
  <2> QED
    BY <1>10, <2>1
<1>16. CASE ExecutionSettles(c)
  <2>1. /\ seen[c] \in {"aborted", "completed", "failed"}
        /\ execution[c] = None
        /\ member[c] = "running" /\ member'[c] = "cleaning"
    BY <1>1, <1>16 DEF ExecutionSettles, MemberFacts, TypeOK
  <2>2. CASE seen[c] = "failed"
    <3>1. OnExecutionFailed(c) /\ execution'[c] = "failed"
      BY <1>16, <2>2 DEF ExecutionSettles, TypeOK
    <3> QED
      BY <1>10, <3>1
  <2>3. CASE seen[c] # "failed"
    <3>1. NoFailure(c) /\ execution'[c] # "failed"
      BY <1>16, <2>1, <2>3 DEF ExecutionSettles, TypeOK
    <3> QED
      BY <1>5, <1>7, <1>8, <1>11, <2>1, <3>1 DEF NoFailure, Report
  <2> QED
    BY <2>2, <2>3
<1>17. CASE Value(c)
  <2>1. /\ NoFailure(c) /\ execution[c] = "completed" /\ execution'[c] = "completed"
        /\ member[c] = "cleaning" /\ member'[c] = "valued"
    BY <1>17 DEF Value, TypeOK
  <2> QED
    BY <1>5, <1>7, <1>8, <2>1 DEF NoFailure, Report
<1>18. CASE Start(c) \/ AdmissionPublished(c) \/ CleanupTimeout(c)
  <2>1. /\ execution'[c] = execution[c]
        /\ member[c] # "errored" /\ member'[c] # "errored"
        /\ UNCHANGED <<fanoutVars, claimed>>
    BY <1>18 DEF Start, AdmissionPublished, CleanupTimeout, TypeOK
  <2> QED
    BY <1>5, <1>7, <1>8, <2>1
<1> QED
  BY <1>12, <1>13, <1>14, <1>15, <1>16, <1>17, <1>18 DEF MemberStep

(* The books stay right when a member acts: what decides the run is exactly  *)
(* the loss of the stage.                                                   *)
LEMMA MemberBooks ==
  ASSUME IInv, NEW c \in Member, MemberStep(c)
  PROVE  CountInv' /\ DecidedExactlyWhenLost'
<1>1. /\ main = "members" /\ UNCHANGED <<main, stage, aborted>>
      /\ stage \in 1..Stages
  <2>1. main = "members" /\ c[1] = stage /\ UNCHANGED <<main, stage, aborted>>
    BY ActiveMember DEF IInv
  <2> QED
    BY <2>1, MembersOfStage
<1>2. /\ (claimed # None) <=> (aborted \/ Lost)
      /\ Fanout[stage] => /\ stageAborted <=> claimed # None
                          /\ marked = Failing(stage)
                          /\ failedMembers = Cardinality(marked)
  BY <1>1 DEF IInv, CountInv, DecidedExactlyWhenLost
<1>3. Lost' <=> Cardinality(Failing(stage)') > Count[stage] - MinSuccess[stage]
  BY <1>1 DEF Lost
<1>4. SUFFICES /\ (claimed' # None) <=> (aborted \/ Lost')
               /\ Fanout[stage] => /\ stageAborted' <=> claimed' # None
                                   /\ marked' = Failing(stage)'
                                   /\ failedMembers' = Cardinality(marked')
  BY <1>1 DEF CountInv, DecidedExactlyWhenLost
<1>5. /\ IsFiniteSet(Failing(stage))
      /\ Cardinality(Failing(stage)) \in Nat
      /\ Count[stage] \in Nat /\ MinSuccess[stage] \in Nat
      /\ ~Fanout[stage] => Count[stage] = 1 /\ MinSuccess[stage] = 1
  BY <1>1, FailingMembers DEF PlanAssumption
<1>6. Claim("failed") # None
  BY DEF Claim, NoneIsAbsent, Outcomes
<1>7. CASE Failing(stage)' = Failing(stage) /\ UNCHANGED <<fanoutVars, claimed>>
  BY <1>2, <1>3, <1>7 DEF Lost, fanoutVars
<1>8. CASE /\ Failing(stage)' = Failing(stage) \cup {c}
           /\ ~Fanout[stage]
           /\ claimed' = Claim("failed")
  <2>1. Cardinality(Failing(stage)') \in Nat \ {0}
    <3>1. IsFiniteSet(Failing(stage) \cup {c})
      BY <1>5, FS_AddElement
    <3> QED
      BY <1>8, <3>1, FS_CardinalityType, FS_EmptySet
  <2> QED
    BY <1>3, <1>5, <1>6, <1>8, <2>1
<1>9. CASE /\ Failing(stage)' = Failing(stage) \cup {c}
           /\ Fanout[stage]
           /\ MarkFailure(c)
  <2>1. CASE c \in marked
    <3>1. Failing(stage)' = Failing(stage) /\ UNCHANGED <<fanoutVars, claimed>>
      BY <1>2, <1>9, <2>1 DEF MarkFailure, Report
    <3> QED
      BY <1>7, <3>1
  <2>2. CASE c \notin marked
    <3>1. Cardinality(Failing(stage)') = Cardinality(Failing(stage)) + 1
      <4>1. c \notin Failing(stage)
        BY <1>2, <1>9, <2>2
      <4>2. Cardinality(Failing(stage) \cup {c}) = Cardinality(Failing(stage)) + 1
        BY <1>5, <4>1, FS_AddElement
      <4> QED
        BY <1>9, <4>2, Zenon
    <3>2. marked' = Failing(stage)' /\ failedMembers' = Cardinality(marked')
      BY <1>2, <1>9, <2>2, <3>1 DEF MarkFailure
    <3>3. CASE Lost'
      <4>1. AbortStage(c)
        BY <1>2, <1>3, <1>9, <2>2, <3>1, <3>3 DEF MarkFailure
      <4> QED
        BY <1>6, <3>2, <3>3, <4>1 DEF AbortStage
    <3>4. CASE ~Lost'
      <4>1. UNCHANGED <<claimed, stageAborted>>
        BY <1>2, <1>3, <1>9, <2>2, <3>1, <3>4 DEF MarkFailure, Report
      <4>2. ~Lost
        BY <1>3, <1>5, <3>1, <3>4 DEF Lost
      <4> QED
        BY <1>2, <3>2, <3>4, <4>1, <4>2
    <3> QED
      BY <3>3, <3>4
  <2> QED
    BY <2>1, <2>2
<1> QED
  BY <1>7, <1>8, <1>9, BookKeeping DEF IInv

(* Every step keeps the books; between stages only an abort has decided.     *)
LEMMA BooksStep ==
  IInv /\ [Next]_vars => CountInv' /\ LoopInv' /\ DecidedExactlyWhenLost'
<1> SUFFICES ASSUME IInv, [Next]_vars
             PROVE  CountInv' /\ LoopInv' /\ DecidedExactlyWhenLost'
  OBVIOUS
<1> USE DEF IInv
<1>1. CASE RunStep
  <2>1. CASE StartStage
    <3>1. /\ main = "loop" /\ main' = "members"
          /\ stage \in 1..Stages
          /\ claimed # None <=> aborted
          /\ ~aborted
          /\ UNCHANGED <<stage, aborted, claimed>>
          /\ marked' = {} /\ failedMembers' = 0 /\ stageAborted' = FALSE
      BY <2>1 DEF StartStage, LoopInv, TypeOK
    <3>2. Failing(stage)' = {}
      <4>1. \A c \in Of(stage) : /\ c \in Member
                                 /\ execution'[c] = None
                                 /\ member'[c] = "preflight"
        <5>1. ASSUME NEW c \in Of(stage)
              PROVE  c \in Member /\ execution[c] = None
          <6>1. c \in Member /\ c[1] = stage
            <7>1. Of(stage) = {d \in Member : d[1] = stage}
              BY <3>1, MembersOfStage
            <7> QED
              BY <5>1, <7>1
          <6>2. MemberFacts(c) /\ NotBegun(c)
            BY <3>1, <6>1, Zenon DEF MemberInv, NotBegun
          <6> QED
            BY <6>1, <6>2, Zenon DEF MemberFacts
        <5> QED
          BY <2>1, <5>1 DEF StartStage
      <4>2. "failed" # None
        BY DEF NoneIsAbsent, Outcomes
      <4> QED
        BY <3>1, <4>1, <4>2 DEF Failing, Of
    <3>3. Cardinality(Failing(stage)') = 0
      BY <3>2, FS_EmptySet
    <3>4. Count[stage] \in Nat /\ MinSuccess[stage] \in Nat /\ MinSuccess[stage] <= Count[stage]
      BY <3>1 DEF PlanAssumption
    <3>5. ~Lost'
      BY <3>1, <3>3, <3>4 DEF Lost
    <3> QED
      BY <3>1, <3>2, <3>3, <3>5 DEF CountInv, LoopInv, DecidedExactlyWhenLost
  <2>2. CASE StageSucceeds
    <3>1. /\ main = "members" /\ main' = "loop" /\ stage \in 1..Stages
          /\ Cardinality(Valued(stage)) >= MinSuccess[stage]
          /\ UNCHANGED <<claimed, aborted>>
      BY <2>2 DEF StageSucceeds, StageDone, PhaseInv, TypeOK
    <3>2. ~Lost
      <4>1. SUFFICES ASSUME Cardinality(Failing(stage)) > Count[stage] - MinSuccess[stage]
                     PROVE  FALSE
        BY DEF Lost
      <4>2. Cardinality(Valued(stage)) < MinSuccess[stage]
        BY <3>1, <4>1, LossPreventsSuccess
      <4>3. Cardinality(Valued(stage)) \in Nat /\ MinSuccess[stage] \in Nat
        <5>1. IsFiniteSet(Valued(stage))
          BY <3>1, MembersOfStage, FS_Subset DEF Valued
        <5> QED
          BY <3>1, <5>1, FS_CardinalityType DEF PlanAssumption
      <4> QED
        BY <3>1, <4>2, <4>3
    <3> QED
      BY <3>1, <3>2 DEF CountInv, LoopInv, DecidedExactlyWhenLost
  <2>3. CASE StopBeforeStage \/ StageFails \/ StageOverflows \/ Complete \/ Return
    <3>1. main' \in {"finishing", "returned"}
      BY <2>3 DEF StopBeforeStage, StageFails, StageOverflows, Complete, Return, Catch
    <3> QED
      BY <3>1 DEF CountInv, LoopInv, DecidedExactlyWhenLost
  <2> QED
    BY <1>1, <2>1, <2>2, <2>3 DEF RunStep
<1>2. CASE Abort
  <2>1. /\ UNCHANGED <<main, stage, failedMembers, marked, member, execution>>
        /\ aborted' = TRUE
        /\ claimed' # None
        /\ main = "members" /\ Fanout[stage] => stageAborted' = TRUE
    BY <1>2 DEF Abort, Claim, NoneIsAbsent, Outcomes
  <2>2. Failing(stage)' = Failing(stage)
    BY <2>1 DEF Failing, Of
  <2> QED
    BY <2>1, <2>2 DEF CountInv, LoopInv, DecidedExactlyWhenLost
<1>3. ASSUME NEW c \in Member, MemberStep(c)
      PROVE  CountInv' /\ LoopInv' /\ DecidedExactlyWhenLost'
  <2>1. main' = "members"
    BY <1>3, ActiveMember
  <2> QED
    BY <1>3, <2>1, MemberBooks DEF LoopInv
<1>4. ASSUME UNCHANGED <<main, stage, aborted, fanoutVars, claimed, member, execution>>
      PROVE  CountInv' /\ LoopInv' /\ DecidedExactlyWhenLost'
  <2>1. Failing(stage)' = Failing(stage)
    BY <1>4 DEF Failing, Of
  <2>2. Lost' <=> Lost
    BY <1>4, <2>1 DEF Lost
  <2> QED
    BY <1>4, <2>1, <2>2 DEF CountInv, LoopInv, DecidedExactlyWhenLost, fanoutVars
<1>5. ASSUME NEW c \in Member, HostStep(c)
      PROVE  UNCHANGED <<main, stage, aborted, fanoutVars, claimed, member, execution>>
  BY <1>5, ActingChild
<1>6. CASE UNCHANGED vars
  BY <1>4, <1>6 DEF vars, fanoutVars
<1> QED
  BY <1>1, <1>2, <1>3, <1>4, <1>5, <1>6 DEF Next

------------------------------------------------------------------------------
(* The run starts with the invariant, and every step keeps it.              *)
LEMMA InitInv == Init => IInv
<1> SUFFICES ASSUME Init PROVE IInv
  OBVIOUS
<1> USE DEF Init
<1>1. TypeOK
  <2>1. stage \in 1..(Stages + 1)
    BY DEF PlanAssumption
  <2>2. /\ member \in [Member -> Positions]
        /\ execution \in [Member -> Executions \cup {None}]
        /\ child \in [Member -> Hosted]
        /\ status \in [1..Stages -> StageStatuses]
        /\ seen \in [Member -> {None, "aborted", "published", "rejected"} \cup Executions
                                 \cup {"quiescent", "pending"}]
    BY DEF Positions, Hosted, StageStatuses
  <2> QED
    BY <2>1, <2>2 DEF TypeOK
<1>2. PhaseInv /\ CountInv /\ LoopInv /\ DecidedExactlyWhenLost
  BY DEF PhaseInv, CountInv, LoopInv, DecidedExactlyWhenLost
<1>3. MemberInv
  BY DEF MemberInv, MemberFacts, NotBegun, Awaiting
<1> QED
  BY <1>1, <1>2, <1>3 DEF IInv

(* No step of the run, a member, the Host or an abort breaks the invariant.  *)
LEMMA StepInv == IInv /\ [Next]_vars => IInv'
  BY TypeStep, PhaseStep, MemberInvStep, BooksStep DEF IInv

(* The invariant holds in every reachable state.                            *)
LEMMA Invariant == Spec => []IInv
  BY InitInv, StepInv, PTL DEF Spec

(* Every reachable state is of the types the code gives it: counts are       *)
(* numbers, the stage is one of the plan's or past it, and every position,  *)
(* execution and status is one the code knows.                              *)
THEOREM TypeCorrect == Spec => []TypeOK
<1>1. IInv => TypeOK
  BY DEF IInv
<1> QED
  BY <1>1, Invariant, PTL

(* For every plan: while a stage executes, the run's end is decided and the  *)
(* fan-out aborted exactly when the run is aborted or minSuccess is out of  *)
(* reach (markFailure, onExecution, claimCancellation).                     *)
THEOREM DecisionIsExact == Spec => []DecidedExactlyWhenLost
<1>1. IInv => DecidedExactlyWhenLost
  BY DEF IInv
<1> QED
  BY <1>1, Invariant, PTL

(* For every plan: no settled member leaves its child running, and a value   *)
(* is that of a child that completed and was disposed (settleChildRun).     *)
THEOREM ChildrenAreOwned == Spec => []NoChildForgotten
<1>1. IInv => NoChildForgotten
  BY DEF IInv, MemberInv, MemberFacts, NoChildForgotten, Settled
<1> QED
  BY <1>1, Invariant, PTL

(* For every plan: the first claim stands, and no outcome but the one        *)
(* claimed is returned (TerminalArbiter).                                   *)
THEOREM ClaimStands == Spec => FirstClaimDecides
<1>1. IInv /\ [Next]_vars => [claimed # None => claimed' = claimed /\ outcome' \in {None, claimed}]_vars
  <2> SUFFICES ASSUME IInv, Next, claimed # None
               PROVE  claimed' = claimed /\ outcome' \in {None, claimed}
    OBVIOUS
  <2> USE DEF IInv
  <2>1. outcome \in {None, claimed}
    BY DEF PhaseInv, TypeOK
  <2>2. CASE RunStep
    <3>1. CASE StopBeforeStage
      BY <3>1 DEF StopBeforeStage, Catch, Claim, PhaseInv
    <3>2. CASE StageFails \/ StageOverflows
      BY <3>2 DEF StageFails, StageOverflows, StageDone, Catch, Claim, PhaseInv
    <3>3. CASE StartStage \/ StageSucceeds \/ Return
      BY <2>1, <3>3 DEF StartStage, StageSucceeds, Return
    <3>4. CASE Complete
      BY <3>4 DEF Complete, Claim
    <3> QED
      BY <2>2, <3>1, <3>2, <3>3, <3>4 DEF RunStep
  <2>3. CASE Abort
    BY <2>1, <2>3 DEF Abort, Claim
  <2>4. ASSUME NEW c \in Member, MemberStep(c)
        PROVE  claimed' = claimed /\ outcome' \in {None, claimed}
    <3>1. claimed' \in {claimed, Claim("failed")}
      BY <2>4, OtherMembers
    <3>2. UNCHANGED outcome
      BY <2>4, ActiveMember
    <3> QED
      BY <2>1, <3>1, <3>2 DEF Claim
  <2>5. ASSUME NEW c \in Member, HostStep(c)
        PROVE  claimed' = claimed /\ outcome' \in {None, claimed}
    BY <2>1, <2>5, ActingChild
  <2> QED
    BY <2>2, <2>3, <2>4, <2>5 DEF Next
<1> QED
  BY <1>1, Invariant, PTL DEF Spec, FirstClaimDecides

(* For every plan: once it is decided how the run ends no further child is   *)
(* started (settleChildRun's first check of the member's signal).           *)
THEOREM NoLateStart == Spec => NoStartOnceDecided
<1>1. IInv /\ [Next]_vars =>
        [\A c \in Member : child[c] = "absent" /\ child'[c] = "requested" => claimed = None]_vars
  <2> SUFFICES ASSUME IInv, Next, NEW c \in Member, child[c] = "absent", child'[c] = "requested"
               PROVE  claimed = None
    OBVIOUS
  <2> USE DEF IInv
  <2>1. Start(c)
    <3>1. CASE RunStep \/ Abort
      BY <3>1 DEF RunStep, StopBeforeStage, StartStage, StageFails, StageOverflows,
                  StageSucceeds, Complete, Return, Abort
    <3>2. ASSUME NEW d \in Member, MemberStep(d)
          PROVE  Start(c)
      <4>1. d = c
        BY <3>2, OtherMembers
      <4> QED
        BY <3>2, <4>1 DEF TypeOK, MemberStep, Start, NotStarted, AdmissionAborted, AdmissionRejected,
                          AdmissionPublished, ExecutionSettles, CleanupTimeout, Value, Error
    <3>3. ASSUME NEW d \in Member, HostStep(d)
          PROVE  FALSE
      <4>1. d = c
        BY <3>3, ActingChild
      <4> QED
        BY <3>3, <4>1 DEF TypeOK, MemberInv, MemberFacts, HostStep, ChildPublished, ChildRefused,
                          ChildResult, ChildDisposed, DisposalFails
    <3> QED
      BY <3>1, <3>2, <3>3 DEF Next
  <2>2. /\ main = "members" /\ c[1] = stage /\ member[c] = "preflight" /\ execution[c] = None
        /\ stage \in 1..Stages /\ c \in Of(stage) /\ ~Signal
    BY <2>1, MembersOfStage DEF Start, MemberInv, MemberFacts
  <2>3. CASE Fanout[stage]
    BY <2>2, <2>3 DEF Signal, DecidedExactlyWhenLost
  <2>4. CASE ~Fanout[stage]
    <3>1. Count[stage] = 1 /\ MinSuccess[stage] = 1
      BY <2>2, <2>4 DEF PlanAssumption
    <3>2. Of(stage) = {c}
      BY SMTT(30), <2>2, <3>1 DEF Of
    <3>3. Failing(stage) = {}
      BY <2>2, <2>4, <3>2 DEF Failing, NoneIsAbsent, Outcomes
    <3>4. ~Lost
      BY <3>1, <3>3, FS_EmptySet DEF Lost
    <3> QED
      BY <2>2, <2>4, <3>4 DEF Signal, DecidedExactlyWhenLost
  <2> QED
    BY <2>3, <2>4
<1> QED
  BY <1>1, Invariant, PTL DEF Spec, NoStartOnceDecided

------------------------------------------------------------------------------
(* What a stage left behind when the run went past it: enough values, and a  *)
(* status that tells whether a member failed.                               *)
PassedInv ==
  \A p \in 1..Stages : p < stage =>
    /\ Cardinality(Valued(p)) >= MinSuccess[p]
    /\ status[p] = IF Errored(p) = {} THEN "completed" ELSE "degraded"

(* A success is claimed only after the last stage, and says whether a member *)
(* of any stage failed.                                                     *)
SuccessInv ==
  outcome \in {"completed", "degraded"} =>
    /\ stage = Stages + 1
    /\ outcome = "degraded" <=> \E p \in 1..Stages : Errored(p) # {}

(* A receipt that is closed has no stage pending.                            *)
ClosedInv == main = "returned" => \A p \in 1..Stages : status[p] # "pending"

ReceiptInv == PassedInv /\ SuccessInv /\ ClosedInv

(* A stage keeps the members that have a value and those that have not while *)
(* its members keep their positions.                                        *)
LEMMA SameSettlement ==
  ASSUME NEW p \in 1..Stages, \A c \in Member : c[1] = p => member'[c] = member[c]
  PROVE  Valued(p)' = Valued(p) /\ Errored(p)' = Errored(p)
  BY MembersOfStage DEF Valued, Errored

(* A member that failed is one of its stage's.                               *)
LEMMA ErroredMember ==
  (\E c \in Member : member[c] = "errored") <=> \E p \in 1..Stages : Errored(p) # {}
<1>1. ASSUME NEW c \in Member, member[c] = "errored"
      PROVE  \E p \in 1..Stages : Errored(p) # {}
  <2>1. c[1] \in 1..Stages /\ Of(c[1]) = {d \in Member : d[1] = c[1]}
    BY MembersOfStage
  <2>2. c \in Errored(c[1])
    BY <1>1, <2>1 DEF Errored
  <2> QED
    BY <2>1, <2>2
<1>2. ASSUME NEW p \in 1..Stages, NEW c \in Errored(p)
      PROVE  \E d \in Member : member[d] = "errored"
  <2>1. Of(p) = {d \in Member : d[1] = p}
    BY MembersOfStage
  <2> QED
    BY <1>2, <2>1 DEF Errored
<1> QED
  BY <1>1, <1>2

(* Nothing of a passed stage changes but when the receipt is closed.         *)
LEMMA PassedStep ==
  IInv /\ PassedInv /\ [Next]_vars => PassedInv'
<1> SUFFICES ASSUME IInv, PassedInv, [Next]_vars
             PROVE  PassedInv'
  OBVIOUS
<1> USE DEF IInv
<1>1. ASSUME UNCHANGED <<stage, status>>,
             \A c \in Member : c[1] < stage => member'[c] = member[c]
      PROVE  PassedInv'
  BY <1>1, SameSettlement DEF PassedInv
<1>2. CASE StageSucceeds
  <2>1. /\ stage' = stage + 1 /\ UNCHANGED member
        /\ stage \in 1..Stages /\ stage \in Nat
        /\ Cardinality(Valued(stage)) >= MinSuccess[stage]
        /\ status' = [status EXCEPT ![stage] = IF Errored(stage) = {} THEN "completed"
                                               ELSE "degraded"]
    BY <1>2 DEF StageSucceeds, StageDone, PhaseInv, TypeOK
  <2>2. \A p \in 1..Stages : Valued(p)' = Valued(p) /\ Errored(p)' = Errored(p)
    BY <2>1, SameSettlement
  <2>3. \A p \in 1..Stages : p < stage' => p < stage \/ p = stage
    BY <2>1
  <2>4. status \in [1..Stages -> StageStatuses]
    BY DEF TypeOK
  <2> QED
    BY <2>1, <2>2, <2>3, <2>4 DEF PassedInv
<1>3. CASE Return
  <2>1. /\ UNCHANGED <<stage, member>>
        /\ \A p \in 1..Stages : status[p] # "pending" => status'[p] = status[p]
    BY <1>3 DEF Return
  <2> QED
    BY <2>1, SameSettlement DEF PassedInv
<1>4. CASE StageFails \/ StageOverflows
  <2>1. /\ UNCHANGED <<stage, member>>
        /\ \A p \in 1..Stages : p # stage => status'[p] = status[p]
    BY <1>4 DEF StageFails, StageOverflows, TypeOK
  <2> QED
    BY <2>1, SameSettlement DEF PassedInv, TypeOK
<1>5. CASE StartStage
  <2>1. /\ UNCHANGED <<stage, status>>
        /\ \A c \in Member : c \notin Of(stage) => member'[c] = member[c]
        /\ stage \in 1..Stages
    BY <1>5 DEF StartStage, TypeOK
  <2> QED
    BY <1>1, <2>1, MembersOfStage
<1>6. CASE StopBeforeStage \/ Complete \/ Abort \/ UNCHANGED vars
  BY <1>1, <1>6 DEF StopBeforeStage, Complete, Abort, vars
<1>7. ASSUME NEW c \in Member, MemberStep(c)
      PROVE  PassedInv'
  <2>1. /\ UNCHANGED <<stage, status>>
        /\ c[1] = stage
        /\ \A d \in Member \ {c} : member'[d] = member[d]
    BY <1>7, ActiveMember, OtherMembers
  <2> QED
    BY <1>1, <2>1, MembersOfStage DEF TypeOK
<1>8. ASSUME NEW c \in Member, HostStep(c)
      PROVE  PassedInv'
  BY <1>1, <1>8, ActingChild
<1> QED
  BY <1>2, <1>3, <1>4, <1>5, <1>6, <1>7, <1>8 DEF Next, RunStep

(* Only a run past its last stage succeeds, and nothing changes after that.  *)
LEMMA SuccessStep ==
  IInv /\ SuccessInv /\ [Next]_vars => SuccessInv'
<1> SUFFICES ASSUME IInv, SuccessInv, [Next]_vars
             PROVE  SuccessInv'
  OBVIOUS
<1> USE DEF IInv
<1>1. ASSUME UNCHANGED <<stage, outcome, member>>
      PROVE  SuccessInv'
  BY <1>1, SameSettlement DEF SuccessInv
<1>2. ASSUME outcome' \notin {"completed", "degraded"}
      PROVE  SuccessInv'
  BY <1>2 DEF SuccessInv
<1>3. None \notin {"completed", "degraded"}
  BY DEF NoneIsAbsent, Outcomes
<1>4. CASE Complete
  <2>1. /\ stage = Stages + 1 /\ UNCHANGED <<stage, member>>
        /\ claimed \in {None, "cancelled", "failed"}
        /\ outcome' = Claim(IF \E c \in Member : member[c] = "errored"
                            THEN "degraded" ELSE "completed")
    BY <1>4 DEF Complete, PhaseInv
  <2>2. \A p \in 1..Stages : Errored(p)' = Errored(p)
    BY <2>1, SameSettlement
  <2> QED
    BY <1>3, <2>1, <2>2, ErroredMember DEF SuccessInv, Claim
<1>5. CASE StopBeforeStage \/ StageFails \/ StageOverflows
  <2>1. outcome' \in {"cancelled", "failed"}
    BY <1>5 DEF StopBeforeStage, StageFails, StageOverflows, Catch
  <2> QED
    BY <1>2, <2>1
<1>6. CASE StartStage \/ StageSucceeds
  <2>1. outcome' = None
    BY <1>6 DEF StartStage, StageSucceeds, StageDone, PhaseInv
  <2> QED
    BY <1>2, <1>3, <2>1
<1>7. CASE Return \/ Abort \/ UNCHANGED vars
  BY <1>1, <1>7 DEF Return, Abort, vars
<1>8. ASSUME NEW c \in Member, MemberStep(c)
      PROVE  SuccessInv'
  <2>1. main = "members" /\ UNCHANGED outcome
    BY <1>8, ActiveMember
  <2>2. outcome' = None
    BY <2>1 DEF PhaseInv
  <2> QED
    BY <1>2, <1>3, <2>2
<1>9. ASSUME NEW c \in Member, HostStep(c)
      PROVE  SuccessInv'
  BY <1>1, <1>9, ActingChild
<1> QED
  BY <1>4, <1>5, <1>6, <1>7, <1>8, <1>9 DEF Next, RunStep

(* Closing the receipt leaves no stage pending, and nothing follows it.      *)
LEMMA ClosedStep ==
  IInv /\ PassedInv /\ SuccessInv /\ ClosedInv /\ [Next]_vars => ClosedInv'
<1> SUFFICES ASSUME IInv, PassedInv, SuccessInv, ClosedInv, [Next]_vars
             PROVE  ClosedInv'
  OBVIOUS
<1> USE DEF IInv
<1>1. CASE Return
  <2>1. /\ outcome \in Outcomes
        /\ status' = [p \in 1..Stages |->
              IF outcome \in {"failed", "cancelled"} /\ status[p] = "pending"
                THEN "cancelled" ELSE status[p]]
    BY <1>1 DEF Return, PhaseInv, TypeOK
  <2>2. CASE outcome \in {"failed", "cancelled"}
    BY <2>1, <2>2 DEF ClosedInv
  <2>3. CASE outcome \notin {"failed", "cancelled"}
    <3>1. outcome \in {"completed", "degraded"} /\ stage = Stages + 1
      BY <2>1, <2>3 DEF Outcomes, SuccessInv
    <3>2. \A p \in 1..Stages : p < stage
      BY <3>1 DEF PlanAssumption
    <3>3. \A p \in 1..Stages : status[p] # "pending"
      BY <3>2 DEF PassedInv
    <3> QED
      BY <2>1, <3>3 DEF ClosedInv
  <2> QED
    BY <2>2, <2>3
<1>2. CASE RunStep /\ ~Return
  <2>1. main' # "returned"
    BY <1>2 DEF RunStep, StopBeforeStage, StartStage, StageFails, StageOverflows, StageSucceeds,
                Complete, Catch
  <2> QED
    BY <2>1 DEF ClosedInv
<1>3. CASE Abort \/ UNCHANGED vars
  BY <1>3 DEF Abort, vars, ClosedInv
<1>4. ASSUME NEW c \in Member, MemberStep(c) \/ HostStep(c)
      PROVE  ClosedInv'
  <2>1. UNCHANGED <<main, status>>
    BY <1>4, ActiveMember, ActingChild
  <2> QED
    BY <2>1 DEF ClosedInv
<1> QED
  BY <1>1, <1>2, <1>3, <1>4 DEF Next

(* For every plan: the receipt a run returns agrees with what it did. A run  *)
(* that completed or degraded had enough values in every stage, and is      *)
(* degraded exactly when a stage of its receipt is; one that failed or was  *)
(* cancelled leaves no stage pending (executeStrategyPlan's receipt,        *)
(* finishRunReceipt).                                                       *)
THEOREM ReceiptIsTrue == Spec => []ReceiptAgrees
<1>1. Init => ReceiptInv
  <2> SUFFICES ASSUME Init
               PROVE  ReceiptInv
    OBVIOUS
  <2>1. stage = 1 /\ outcome = None /\ main = "loop"
    BY DEF Init
  <2>2. None \notin {"completed", "degraded"}
    BY DEF NoneIsAbsent, Outcomes
  <2> QED
    BY <2>1, <2>2 DEF ReceiptInv, PassedInv, SuccessInv, ClosedInv
<1>2. IInv /\ ReceiptInv /\ [Next]_vars => ReceiptInv'
  BY PassedStep, SuccessStep, ClosedStep DEF ReceiptInv
<1>3. IInv /\ ReceiptInv => ReceiptAgrees
  <2> SUFFICES ASSUME IInv, ReceiptInv, main = "returned"
               PROVE  /\ outcome \in {"completed", "degraded"} =>
                           /\ \A p \in 1..Stages :
                                /\ Cardinality(Valued(p)) >= MinSuccess[p]
                                /\ status[p] \in {"completed", "degraded"}
                           /\ outcome = "degraded"
                                <=> \E p \in 1..Stages : status[p] = "degraded"
                      /\ \A p \in 1..Stages : status[p] # "pending"
    BY DEF ReceiptAgrees
  <2>1. \A p \in 1..Stages : status[p] # "pending"
    BY DEF ReceiptInv, ClosedInv
  <2>2. ASSUME outcome \in {"completed", "degraded"}
        PROVE  /\ \A p \in 1..Stages : /\ Cardinality(Valued(p)) >= MinSuccess[p]
                                       /\ status[p] \in {"completed", "degraded"}
               /\ outcome = "degraded" <=> \E p \in 1..Stages : status[p] = "degraded"
    <3>1. /\ stage = Stages + 1
          /\ outcome = "degraded" <=> \E p \in 1..Stages : Errored(p) # {}
      BY <2>2 DEF ReceiptInv, SuccessInv
    <3>2. \A p \in 1..Stages : p < stage
      BY <3>1 DEF PlanAssumption
    <3>3. \A p \in 1..Stages :
            /\ Cardinality(Valued(p)) >= MinSuccess[p]
            /\ status[p] = IF Errored(p) = {} THEN "completed" ELSE "degraded"
      BY <3>2 DEF ReceiptInv, PassedInv
    <3> QED
      BY <3>1, <3>3
  <2> QED
    BY <2>1, <2>2
<1> QED
  BY <1>1, <1>2, <1>3, Invariant, PTL DEF Spec
==============================================================================
