---------------------------- MODULE DurableMailbox ----------------------------
(***************************************************************************)
(* The durable mailbox of one run: transitionMail and deliverReservedMail  *)
(* (src/src/durable-run/mailbox.ts), the gate every mail event passes      *)
(* (invariant.ts, legion/mail-state) and the manifest a delivery builds    *)
(* (context.ts).  One action per effect of a delivery; each effect         *)
(* transitions the current mailbox and appends the post-state.             *)
(*                                                                         *)
(* External, from how the effects are used: the Session, whose flush may   *)
(* fail and may have persisted what it failed to report; a restart that    *)
(* loses what was appended after the last flush and every delivery; the    *)
(* lease that hands the run to an owner with a larger fence; the retry of  *)
(* the recipient task.                                                     *)
(***************************************************************************)
EXTENDS ContextManifest

CONSTANTS
  Messages,       \* the message of each mailId: key, payload, page, expiry
  Deliveries,     \* the deliveries, each with a reservation of its own
  Contexts,       \* the other pages a recipient context may hold
  ManifestBounds, \* the bounds of the recipient's manifests
  ReserveFor,     \* how long a reservation holds
  MaxTime,        \* bound: the last time
  MaxGeneration,  \* bound: the generation up to which the task is retried
  MaxFence,       \* bound: the last fence the run is leased under
  None            \* no mail, no reservation, no context

ASSUME MailboxAssumption ==
  /\ MaxGeneration \in Nat \ {0} /\ MaxFence \in Nat \ {0}
  /\ MaxTime \in Nat /\ ReserveFor \in Nat

VARIABLES
  mailbox,        \* the projection of the Session as appended so far
  flushed,        \* the projection as of the last persisted append
  delivery,       \* where each delivery stands, and what it captured
  time,
  incorporations  \* history: the durable incorporations

mailboxVars == <<mailbox, flushed, delivery, time, incorporations>>

MailIds == DOMAIN Messages

(* A mail record, whose message its mailId tells.  A reservation stays     *)
(* with mail incorporated under it; the context is the digest of the       *)
(* manifest and its context generation.                                    *)
Queued(generation, reclaims) ==
  [status |-> "queued", recipientGeneration |-> generation,
   reclaimCount |-> reclaims, reservation |-> None, context |-> None]

NoMail == [status |-> "absent"]

Idle == [step |-> "idle", mailId |-> None, fence |-> 0, generation |-> 0,
         manifest |-> None]

MailboxInit ==
  /\ mailbox = [mail |-> [m \in MailIds |-> NoMail], generation |-> 1, fence |-> 1]
  /\ flushed = mailbox
  /\ delivery = [d \in Deliveries |-> Idle]
  /\ time = 0 /\ incorporations = {}

MailboxTypeOK ==
  /\ \A state \in {mailbox, flushed} :
       /\ state.generation \in 1..MaxGeneration /\ state.fence \in 1..MaxFence
       /\ \A m \in MailIds :
            state.mail[m].status \in {"absent", "queued", "reserved",
                                      "incorporated", "acknowledged", "discarded"}
  /\ \A d \in Deliveries :
       delivery[d].step \in {"idle", "manifest", "flush-reserved", "incorporate",
                             "flush-incorporated", "acknowledge",
                             "flush-acknowledged", "delivered", "failed", "lost"}
  /\ time \in 0..MaxTime

(* invariant.ts: what the journal refuses of a mail event; fence is the    *)
(* fence of the event, None without one.                                   *)
GateAccepts(m, record, fence) ==
  LET existing == mailbox.mail[m]
  IN  /\ record.recipientGeneration = mailbox.generation
      /\ record.status \in {"reserved", "incorporated", "acknowledged"}
           => fence = record.reservation.fence
      /\ record.status = "discarded" => fence # None
      /\ fence # None => fence = mailbox.fence
      /\ existing # NoMail =>
           /\ existing.status \in {"acknowledged", "discarded"} => existing = record
           /\ existing.status = "incorporated"
                => record.status \in {"incorporated", "acknowledged"}
           /\ existing.status = "reserved" /\ record.status = "queued"
                => record.reclaimCount = existing.reclaimCount + 1
           /\ record.reclaimCount >= existing.reclaimCount

AppendMail(m, record, fence) ==
  /\ GateAccepts(m, record, fence)
  /\ mailbox' = [mailbox EXCEPT !.mail[m] = record]

HeldBy(record, d) ==
  record.reservation.id = d /\ record.reservation.fence = delivery[d].fence

(* A message known under its idempotency key is not queued again, whatever *)
(* its mailId and whatever became of it; with another payload, or with a   *)
(* mailId in use, it is refused.                                           *)
Enqueue(m) ==
  /\ \A n \in MailIds : mailbox.mail[n] # NoMail
       => Messages[n].idempotencyKey # Messages[m].idempotencyKey
  /\ mailbox.mail[m] = NoMail
  /\ AppendMail(m, Queued(mailbox.generation, 0), None)
  /\ UNCHANGED <<flushed, delivery, time, incorporations>>

(* The first effect of a delivery, under the lease its owner holds.        *)
Reserve(d, m) ==
  LET current == mailbox.mail[m]
  IN  /\ delivery[d].step = "idle" /\ time + ReserveFor <= MaxTime
      /\ current.status = "queued"
      /\ Messages[m].expiresAt > time
      /\ AppendMail(m, [current EXCEPT !.status = "reserved", !.reservation =
                      [id |-> d, fence |-> mailbox.fence,
                       expiresAt |-> time + ReserveFor]], mailbox.fence)
      /\ delivery' = [delivery EXCEPT ![d] =
           [step |-> "manifest", mailId |-> m, fence |-> mailbox.fence,
            generation |-> mailbox.generation, manifest |-> None]]
      /\ UNCHANGED <<flushed, time, incorporations>>

(* The recipient's manifest of the mail's page and the other pages it is   *)
(* given; the digest of a manifest is told by the pages it keeps.          *)
BuildManifest(d, context) ==
  LET pages == context \cup {Messages[delivery[d].mailId].page}
  IN  /\ delivery[d].step = "manifest"
      /\ Accepts(pages, ManifestBounds)
      /\ delivery' = [delivery EXCEPT ![d].step = "flush-reserved",
           ![d].manifest = {p.pageId : p \in
                              ToSet(createContextManifest(pages, ManifestBounds).pages)}]
      /\ UNCHANGED <<mailbox, flushed, time, incorporations>>

SameContext(record, d) == record.context = delivery[d].manifest

(* Mutant of IncorporateResult: mail under its reservation is incorporated *)
(* whether or not it was before.                                           *)
IncorporateAgain(current, d) ==
  IF /\ current.status \in {"reserved", "incorporated"} /\ HeldBy(current, d)
     /\ Messages[delivery[d].mailId].payload \in delivery[d].manifest
  THEN [current EXCEPT !.status = "incorporated", !.context = delivery[d].manifest]
  ELSE None

(* Reserved mail is incorporated when the manifest holds its payload; a    *)
(* repeated incorporation must name the context of the first.              *)
IncorporateResult(current, d) ==
  IF current.status \in {"incorporated", "acknowledged"}
  THEN IF HeldBy(current, d) /\ SameContext(current, d) THEN current ELSE None
  ELSE IF /\ current.status = "reserved" /\ HeldBy(current, d)
          /\ Messages[delivery[d].mailId].payload \in delivery[d].manifest
       THEN [current EXCEPT !.status = "incorporated", !.context = delivery[d].manifest]
       ELSE None

AcknowledgeResult(current, d) ==
  IF /\ current.status \in {"incorporated", "acknowledged"}
     /\ HeldBy(current, d) /\ SameContext(current, d)
  THEN [current EXCEPT !.status = "acknowledged"] ELSE None

(* What the effect of step makes of the mail, None when it throws.         *)
Result(d, step) ==
  LET current == mailbox.mail[delivery[d].mailId]
      result == IF step = "incorporate" THEN IncorporateResult(current, d)
                ELSE AcknowledgeResult(current, d)
  IN  IF current.recipientGeneration = delivery[d].generation THEN result ELSE None

EffectSucceeds(d, step) ==
  /\ Result(d, step) # None
  /\ GateAccepts(delivery[d].mailId, Result(d, step), delivery[d].fence)

Incorporate(d) ==
  /\ delivery[d].step = "incorporate" /\ EffectSucceeds(d, "incorporate")
  /\ AppendMail(delivery[d].mailId, Result(d, "incorporate"), delivery[d].fence)
  /\ delivery' = [delivery EXCEPT ![d].step = "flush-incorporated"]
  /\ UNCHANGED <<flushed, time, incorporations>>

Acknowledge(d) ==
  /\ delivery[d].step = "acknowledge" /\ EffectSucceeds(d, "acknowledge")
  /\ AppendMail(delivery[d].mailId, Result(d, "acknowledge"), delivery[d].fence)
  /\ delivery' = [delivery EXCEPT ![d].step = "flush-acknowledged"]
  /\ UNCHANGED <<flushed, time, incorporations>>

(* An effect throws: the transition refuses it or the gate does.           *)
EffectRejected(d) ==
  /\ delivery[d].step \in {"incorporate", "acknowledge"}
  /\ ~EffectSucceeds(d, delivery[d].step)
  /\ delivery' = [delivery EXCEPT ![d].step = "failed"]
  /\ UNCHANGED <<mailbox, flushed, time, incorporations>>

AfterFlush == [flushing \in {"flush-reserved", "flush-incorporated", "flush-acknowledged"} |->
                 CASE flushing = "flush-reserved" -> "incorporate"
                   [] flushing = "flush-incorporated" -> "acknowledge"
                   [] OTHER -> "delivered"]

Persist ==
  /\ flushed' = mailbox
  /\ incorporations' = incorporations \cup
       {[mailId |-> m, generation |-> mailbox.mail[m].recipientGeneration,
         context |-> mailbox.mail[m].context] :
         m \in {n \in MailIds : mailbox.mail[n].status \in {"incorporated", "acknowledged"}}}

Flush(d) ==
  /\ delivery[d].step \in DOMAIN AfterFlush
  /\ Persist
  /\ delivery' = [delivery EXCEPT ![d].step = AfterFlush[delivery[d].step]]
  /\ UNCHANGED <<mailbox, time>>

(* Mutant of requireFlush: the answer of the flush is not looked at.       *)
IgnoreFlush(d) ==
  delivery' = [delivery EXCEPT ![d].step = AfterFlush[delivery[d].step]]

(* A flush that reports nothing durable may have persisted all the same.   *)
requireFlush(d) ==
  delivery' = [delivery EXCEPT ![d].step = "failed"]

FlushUnavailable(d) ==
  /\ delivery[d].step \in DOMAIN AfterFlush
  /\ requireFlush(d)
  /\ Persist \/ UNCHANGED <<flushed, incorporations>>
  /\ UNCHANGED <<mailbox, time>>

(* The caller of a failed delivery tries again from its reservation, with  *)
(* a manifest built anew.                                                  *)
Redeliver(d) ==
  /\ delivery[d].step = "failed"
  /\ mailbox.mail[delivery[d].mailId].status
       \in {"reserved", "incorporated", "acknowledged"}
  /\ delivery' = [delivery EXCEPT ![d].step = "manifest", ![d].manifest = None]
  /\ UNCHANGED <<mailbox, flushed, time, incorporations>>

(* Mutant of Reclaimed: an expired reservation is kept for its owner.      *)
ReclaimedByOtherFence(current) ==
  /\ current.status = "reserved"
  /\ mailbox.fence > current.reservation.fence
  /\ time >= current.reservation.expiresAt

(* Whether the current owner may take reserved mail back.                  *)
Reclaimed(current) ==
  /\ current.status = "reserved"
  /\ mailbox.fence >= current.reservation.fence
  /\ time >= current.reservation.expiresAt

(* Any owner returns mail whose reservation ran out to the queue.          *)
Reclaim(m) ==
  LET current == mailbox.mail[m]
  IN  /\ Reclaimed(current)
      /\ AppendMail(m, Queued(current.recipientGeneration, current.reclaimCount + 1), mailbox.fence)
      /\ UNCHANGED <<flushed, delivery, time, incorporations>>

(* Queued mail, or mail reserved under the discarding owner's fence.  The  *)
(* gate refuses to discard incorporated mail, which transitionMail would.  *)
Discard(m) ==
  LET current == mailbox.mail[m]
  IN  /\ current.status \in {"queued", "reserved", "incorporated"}
      /\ current.status # "queued" => current.reservation.fence = mailbox.fence
      /\ AppendMail(m, [current EXCEPT !.status = "discarded", !.reservation = None,
                      !.context = None], mailbox.fence)
      /\ UNCHANGED <<flushed, delivery, time, incorporations>>

RetryTask ==
  /\ mailbox.generation < MaxGeneration
  /\ mailbox' = [mailbox EXCEPT !.generation = @ + 1]
  /\ UNCHANGED <<flushed, delivery, time, incorporations>>

Takeover ==
  /\ mailbox.fence < MaxFence
  /\ mailbox' = [mailbox EXCEPT !.fence = @ + 1]
  /\ UNCHANGED <<flushed, delivery, time, incorporations>>

(* The owner dies with its deliveries; the next one has a larger fence.    *)
Restart ==
  /\ mailbox.fence < MaxFence
  /\ mailbox' = [flushed EXCEPT !.fence = mailbox.fence + 1]
  /\ delivery' = [d \in Deliveries |-> IF delivery[d].step \in {"idle", "delivered"}
                    THEN delivery[d] ELSE [delivery[d] EXCEPT !.step = "lost"]]
  /\ UNCHANGED <<flushed, time, incorporations>>

Tick ==
  /\ time < MaxTime /\ time' = time + 1
  /\ UNCHANGED <<mailbox, flushed, delivery, incorporations>>

Deliver(d) ==
  \/ \E m \in MailIds : Reserve(d, m)
  \/ \E context \in Contexts : BuildManifest(d, context)
  \/ Incorporate(d) \/ Acknowledge(d) \/ EffectRejected(d)
  \/ Flush(d) \/ FlushUnavailable(d) \/ Redeliver(d)

MailboxNext ==
  \/ \E m \in MailIds : Enqueue(m)
  \/ \E d \in Deliveries : Deliver(d)
  \/ \E m \in MailIds : Reclaim(m) \/ Discard(m)
  \/ RetryTask \/ Takeover \/ Restart \/ Tick

MailboxSpec == MailboxInit /\ [][MailboxNext]_mailboxVars

(* Time passes, and the owner reclaims whatever it may.                    *)
ReclaimFairness ==
  /\ WF_mailboxVars(Tick)
  /\ \A m \in MailIds : WF_mailboxVars(Reclaim(m))

(* Mail is acknowledged only when its incorporation is already durable:    *)
(* whatever the flushes answered, a restart between any two effects finds  *)
(* acknowledged mail incorporated, in the same context (ADR-0017           *)
(* "Acknowledgement occurs only after ... any required DSH flush").        *)
AcknowledgedAfterDurableIncorporation ==
  \A m \in MailIds : mailbox.mail[m].status = "acknowledged" =>
    /\ flushed.mail[m].status \in {"incorporated", "acknowledged"}
    /\ flushed.mail[m].context = mailbox.mail[m].context

(* Over any number of deliveries, retries, restarts and owners, a          *)
(* generation of the recipient durably incorporates a mail into one        *)
(* context (ADR-0017 "incorporation is idempotent by mail, task            *)
(* generation, and context generation").                                   *)
IncorporatedOncePerGeneration ==
  \A i, j \in incorporations :
    i.mailId = j.mailId /\ i.generation = j.generation => i.context = j.context

(* A reservation does not hold mail for ever: its owner delivers or loses  *)
(* it, unless the recipient task was retried meanwhile, for then the gate  *)
(* refuses every event of the mail (invariant.ts:97).                      *)
ReservationEnds ==
  \A m \in MailIds, d \in Deliveries :
    (mailbox.mail[m].status = "reserved" /\ mailbox.mail[m].reservation.id = d)
      ~> \/ mailbox.mail[m].status # "reserved"
         \/ mailbox.mail[m].reservation.id # d
         \/ mailbox.mail[m].recipientGeneration # mailbox.generation

==============================================================================
