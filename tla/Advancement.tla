------------------------------ MODULE Advancement ------------------------------
(***************************************************************************)
(* A stair-step run: bounded activations that observe milestones, decide   *)
(* whether to go on, and yield through one-shot continuations              *)
(* (stair-step.ts, continuation.ts), over a journal that loses what was    *)
(* not flushed.  One action per effect of checkpointMilestoneBeforeYield   *)
(* and consumeBeforeEffects.                                               *)
(*                                                                         *)
(* External, from how the effects are used: the activations' caller, who   *)
(* reads the streak and the accepted progress from the journal and holds   *)
(* the tokens it was told of; the Session; restarts and leases, either of  *)
(* which gives the run to another owner; plans and environments that       *)
(* change.                                                                 *)
(***************************************************************************)
EXTENDS StairStep, Continuation, SequencesExt

CONSTANTS
  Activations,      \* the activations, numbered in the order they begin
  Tokens,           \* the continuations, numbered in the order of issue
  Policies,         \* the policies the run may have
  Observations,     \* what may be observed of a milestone
  ActivationLimit,  \* how many milestones an activation may take
  Grants,           \* the grants of authority
  Inputs,           \* the artifacts a resumption expects
  MaxLimit,         \* the limits the run starts with
  Lifetime,         \* how long a token lives
  MaxInstant,       \* bound: the last time
  MaxChanges,       \* bound: the number of changes of plan or environment
  MaxOwners         \* bound: the number of owners

ASSUME AdvancementAssumption ==
  /\ Activations \subseteq Nat /\ Tokens \subseteq Nat
  /\ \A p \in Policies : p.maxMilestones \in Nat
  /\ ActivationLimit \in Nat \ {0}
  /\ MaxLimit \in Nat /\ Lifetime \in Nat /\ MaxInstant \in Nat
  /\ MaxOwners \in Nat \ {0}

VARIABLES
  policy,
  journal,      \* milestones and continuations as appended so far
  stored,       \* the same as of the last persisted append
  activation,   \* where each activation stands, and what it may do
  owner,        \* the current owner and its lease
  bound,        \* the current plan, goal, context and environment
  available,    \* the artifacts at hand
  instant,
  reported,     \* history: the tokens the caller was told of, and what they follow
  effects       \* history: how often effects were started from each token

advancementVars == <<policy, journal, stored, activation, owner, bound,
                     available, instant, reported, effects>>

NoToken == [status |-> "absent"]

NotStarted == [step |-> "idle", owner |-> 0, taken |-> 0, token |-> NoToken,
               authority |-> {}, limits |-> 0]

AdvancementInit ==
  /\ policy \in {p \in Policies : ValidPolicy(p)}
  /\ journal = [milestones |-> <<>>, continuations |-> [t \in Tokens |-> NoToken]]
  /\ stored = journal
  /\ activation = [a \in Activations |-> NotStarted]
  /\ owner = 1
  /\ bound = [b \in Bindings |-> 1]
  /\ available = Inputs /\ instant = 0
  /\ reported = [tokens |-> {}, milestones |-> {}] /\ effects = [t \in Tokens |-> 0]

AdvancementTypeOK ==
  /\ \A state \in {journal, stored} :
       /\ \A i \in DOMAIN state.milestones : state.milestones[i].step = i
       /\ \A t \in Tokens : state.continuations[t].status
            \in {"absent", "available", "consumed", "invalidated"}
  /\ \A a \in Activations :
       /\ activation[a].step \in {"idle", "run", "flush-milestone", "issue",
            "flush-token", "yielded", "flush-consumed", "effects", "failed"}
       /\ activation[a].authority \subseteq Grants
       /\ activation[a].limits \in 0..MaxLimit
  /\ owner \in 1..MaxOwners /\ instant \in 0..MaxInstant
  /\ reported.tokens \subseteq Tokens

(* The resume context of an activation, under its owner and lease.         *)
Current(by, authority, limits) ==
  [owner |-> by, fence |-> by, bound |-> bound, inputs |-> available,
   authority |-> authority, limits |-> limits, now |-> instant]

NextIdle(a) ==
  activation[a] = NotStarted /\ \A b \in Activations : b < a => activation[b] # NotStarted

Move(a, step) == activation' = [activation EXCEPT ![a].step = step]

world == <<policy, owner, bound, available, instant>>

(* The first activation of the run, with what the deployment granted it.   *)
Start(a, authority, limits) ==
  /\ NextIdle(a) /\ \A b \in Activations : activation[b] = NotStarted
  /\ activation' = [activation EXCEPT ![a] =
       [step |-> "run", owner |-> owner, taken |-> 0, token |-> NoToken,
        authority |-> authority, limits |-> limits]]
  /\ UNCHANGED <<world, journal, stored, reported, effects>>

(* An activation that no longer holds the lease may not append.            *)
Holds(a) == activation[a].owner = owner

(* A milestone is verified and appended; the journal refuses one without   *)
(* an artifact (validate.ts:615).  Then the activation takes the next one  *)
(* or begins to yield.                                                     *)
Milestone(a, observation) ==
  LET receipt == evaluateStairStepMilestone(policy, observation, journal.milestones)
      taken == activation[a].taken + 1
  IN  /\ activation[a].step = "run" /\ Holds(a)
      /\ Acceptable(policy, observation, journal.milestones)
      /\ observation.artifact
      /\ journal' = [journal EXCEPT !.milestones = Append(@, receipt)]
      /\ activation' = [activation EXCEPT ![a].taken = taken, ![a].step =
           IF decideStairStepAdvancement(policy, receipt, taken, ActivationLimit)
                = "continue" THEN "run" ELSE "flush-milestone"]
      /\ UNCHANGED <<world, stored, reported, effects>>

(* A rejected observation, or a receipt the journal refuses.               *)
MilestoneRejected(a, observation) ==
  /\ activation[a].step = "run"
  /\ \/ ~Acceptable(policy, observation, journal.milestones)
     \/ ~observation.artifact
     \/ ~Holds(a)
  /\ Move(a, "failed")
  /\ UNCHANGED <<world, journal, stored, reported, effects>>

(* Before the token is appended its activation fixes what it may do.       *)
Issue(a, t) ==
  /\ activation[a].step = "issue" /\ Holds(a)
  /\ \A u \in Tokens : journal.continuations[u] = NoToken <=> u >= t
  /\ LET record == issueContinuation(t, Current(activation[a].owner,
                       activation[a].authority, activation[a].limits),
                       Inputs, instant + Lifetime)
     IN  /\ journal' = [journal EXCEPT !.continuations[t] = record]
         /\ activation' = [activation EXCEPT ![a].step = "flush-token",
                                             ![a].token = record]
  /\ UNCHANGED <<world, stored, reported, effects>>

AfterYieldFlush == [step \in {"flush-milestone", "flush-token", "flush-consumed"} |->
                 CASE step = "flush-milestone" -> "issue"
                   [] step = "flush-token" -> "yielded"
                   [] OTHER -> "effects"]

(* After its last flush the activation returns with its token, which       *)
(* follows the milestones of the run.                                      *)
Tell(a) ==
  reported' = IF activation[a].step = "flush-token"
              THEN [tokens |-> reported.tokens \cup {activation[a].token.continuationId},
                    milestones |-> reported.milestones \cup ToSet(journal.milestones)]
              ELSE reported

FlushYield(a) ==
  /\ activation[a].step \in DOMAIN AfterYieldFlush
  /\ stored' = journal
  /\ Tell(a)
  /\ Move(a, AfterYieldFlush[activation[a].step])
  /\ UNCHANGED <<world, journal, effects>>

(* Mutant of YieldFlushUnavailable: the answer of the flush is not looked at.   *)
YieldFlushIgnored(a) ==
  /\ activation[a].step \in DOMAIN AfterYieldFlush
  /\ Tell(a)
  /\ Move(a, AfterYieldFlush[activation[a].step])
  /\ UNCHANGED <<world, journal, stored, effects>>

YieldFlushUnavailable(a) ==
  /\ activation[a].step \in DOMAIN AfterYieldFlush
  /\ stored' \in {journal, stored}
  /\ Move(a, "failed")
  /\ UNCHANGED <<world, journal, reported, effects>>

(* A new activation presents a token of the journal and asks for           *)
(* authority and limits of its own.                                        *)
Consume(a, t, authority, limits) ==
  LET record == journal.continuations[t]
      current == Current(owner, authority, limits)
  IN  /\ NextIdle(a) /\ t \in reported.tokens /\ record # NoToken
      /\ validateContinuation(record, current) = "resumable"
      /\ GateAcceptsContinuation(record, consumeContinuation(record, current))
      /\ journal' = [journal EXCEPT !.continuations[t] = consumeContinuation(record, current)]
      /\ activation' = [activation EXCEPT ![a] =
           [step |-> "flush-consumed", owner |-> owner, taken |-> 0, token |-> record,
            authority |-> authority, limits |-> limits]]
      /\ UNCHANGED <<world, stored, reported, effects>>

(* The effects of the resumed activation: it takes milestones again.       *)
StartEffects(a) ==
  /\ activation[a].step = "effects"
  /\ effects' = [effects EXCEPT ![activation[a].token.continuationId] = @ + 1]
  /\ Move(a, "run")
  /\ UNCHANGED <<world, journal, stored, reported>>

Invalidate(t) ==
  /\ Invalidatable(journal.continuations[t], instant)
  /\ journal' = [journal EXCEPT !.continuations[t] = invalidateContinuation(@, instant)]
  /\ UNCHANGED <<world, stored, activation, reported, effects>>

(* The plan evolves, the environment or the context changes, artifacts go. *)
Change(b) ==
  /\ Cardinality({c \in Bindings : bound[c] # 1}) < MaxChanges
  /\ bound[b] = 1 /\ bound' = [bound EXCEPT ![b] = 2]
  /\ UNCHANGED <<policy, owner, available, instant, journal, stored, activation,
                 reported, effects>>

LoseInput(i) ==
  /\ \A b \in Bindings : bound[b] = 1
  /\ i \in available /\ available' = available \ {i}
  /\ UNCHANGED <<policy, owner, bound, instant, journal, stored, activation,
                 reported, effects>>

(* The lease goes to another owner; with a restart what was not flushed is *)
(* lost and every activation ends.                                         *)
ChangeOwner ==
  /\ owner < MaxOwners /\ owner' = owner + 1
  /\ UNCHANGED <<policy, bound, available, instant, journal, stored, activation,
                 reported, effects>>

RestartRun ==
  /\ owner < MaxOwners /\ owner' = owner + 1
  /\ journal' = stored
  /\ activation' = [a \in Activations |->
       IF activation[a].step \in {"idle", "yielded"} THEN activation[a]
       ELSE [activation[a] EXCEPT !.step = "failed"]]
  /\ UNCHANGED <<policy, bound, available, instant, stored, reported, effects>>

Elapse ==
  /\ instant < MaxInstant /\ instant' = instant + 1
  /\ UNCHANGED <<policy, owner, bound, available, journal, stored, activation,
                 reported, effects>>

AdvancementNext ==
  \/ \E a \in Activations :
       \/ FlushYield(a) \/ YieldFlushUnavailable(a) \/ StartEffects(a)
       \/ \E o \in Observations : Milestone(a, o) \/ MilestoneRejected(a, o)
       \/ \E t \in Tokens : Issue(a, t)
       \/ \E authority \in SUBSET Grants, limits \in 0..MaxLimit :
            \/ Start(a, authority, limits)
            \/ \E t \in Tokens : Consume(a, t, authority, limits)
  \/ \E t \in Tokens : Invalidate(t)
  \/ \E b \in Bindings : Change(b)
  \/ \E i \in Inputs : LoseInput(i)
  \/ ChangeOwner \/ RestartRun \/ Elapse

AdvancementSpec == AdvancementInit /\ [][AdvancementNext]_advancementVars

(* However many activations present a token, and whatever was lost in      *)
(* between, its effects are started at most once (ADR-0019 "consumable at  *)
(* most once"); and along any chain of yields and resumptions no activation*)
(* may do more than the first was granted, nor has it more left to spend   *)
(* (docs/stair-step.md "may only narrow authority and limits").            *)
ResumptionsAreDelimited ==
  /\ \A t \in Tokens : effects[t] <= 1
  /\ \A a, first \in Activations :
       (\A b \in Activations : first <= b) /\ activation[a] # NotStarted =>
         /\ activation[a].authority \subseteq activation[first].authority
         /\ activation[a].limits <= activation[first].limits

(* What the caller was told to resume from survives every restart, with    *)
(* the milestones it follows (ADR-0019 "Checkpoint mode never reports a    *)
(* continuation before its event is flushed").                             *)
ReportedContinuationsAreDurable ==
  /\ \A t \in reported.tokens : stored.continuations[t] # NoToken
  /\ reported.milestones \subseteq ToSet(stored.milestones)

(* A run that is to pause for want of progress pauses at every milestone   *)
(* that ends a streak of maxNoProgressMilestones without a progress not    *)
(* seen before, across activations and restarts; and no activation takes   *)
(* more milestones than its limit.                                         *)
NoProgressPauses ==
  LET done == journal.milestones
      New(i) == /\ done[i].progress # <<>>
                /\ \A j \in 1..(i - 1) : done[j].progress # done[i].progress
  IN  /\ Len(done) <= policy.maxMilestones
      /\ \A a \in Activations : activation[a].taken <= ActivationLimit
      /\ "no-progress" \in policy.pauseOn =>
           \A i \in DOMAIN done :
             i >= policy.maxNoProgressMilestones
             /\ (\A j \in (i - policy.maxNoProgressMilestones + 1)..i : ~New(j))
               => done[i].nextDecision = "pause"

==============================================================================
