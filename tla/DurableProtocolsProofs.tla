------------------------ MODULE DurableProtocolsProofs ------------------------
(***************************************************************************)
(* Proofs about the protocols that run over the journal and its flushes.   *)
(*                                                                         *)
(* Mail is acknowledged only once its incorporation is durable, and        *)
(* incorporated into one context only, for any number of messages,         *)
(* deliveries, owners, retries and restarts.                               *)
(*                                                                         *)
(* A stair-step run is resumed at most once from each of its               *)
(* continuations, from durable ones only and never with more than it was   *)
(* granted, and it pauses for want of progress, for any number of          *)
(* activations, continuations, milestones, owners and restarts.            *)
(*                                                                         *)
(* Evidence keeps the doubt of what it was derived from, and a manifest    *)
(* what is valuable, for any pages, derivations and bounds.                *)
(***************************************************************************)
EXTENDS DurableMailbox, Advancement, ContextEvidence, TotalsProofs, TLAPS

-----------------------------------------------------------------------------
(* Delivery of mail.                                                       *)

(* What is known of the values.  The context of a mail is the digest of a  *)
(* manifest, told by the pages a manifest of its page may keep.            *)
ManifestOf(m, context) ==
  {p.pageId : p \in ToSet(createContextManifest(context \cup {Messages[m].page},
                                                ManifestBounds).pages)}

Manifests == {ManifestOf(m, context) : m \in MailIds, context \in Contexts}

Reservations == [id : Deliveries, fence : 1..MaxFence, expiresAt : Nat]

Mail == [status : {"queued", "reserved", "incorporated", "acknowledged", "discarded"},
         recipientGeneration : 1..MaxGeneration, reclaimCount : Nat,
         reservation : Reservations \cup {None}, context : Manifests \cup {None}]

Mailbox == [mail : [MailIds -> Mail \cup {NoMail}], generation : 1..MaxGeneration,
            fence : 1..MaxFence]

DeliverySteps == {"idle", "manifest", "flush-reserved", "incorporate", "flush-incorporated",
          "acknowledge", "flush-acknowledged", "delivered", "failed", "lost"}

Delivery == [step : DeliverySteps, mailId : MailIds \cup {None}, fence : 0..MaxFence,
             generation : 0..MaxGeneration, manifest : Manifests \cup {None}]

(* Mail that is in a context of its recipient, and stays in it.            *)
Incorporated(record) == record.status \in {"incorporated", "acknowledged"}

StaysIn(record, next) ==
  Incorporated(record) =>
    /\ Incorporated(next) /\ next.context = record.context
    /\ next.recipientGeneration = record.recipientGeneration

MailStaysIn == \A n \in MailIds : StaysIn(mailbox.mail[n], mailbox'.mail[n])

----------------------------------------------------------------------------
(* The inductive invariant                                                 *)

MailboxShape ==
  /\ mailbox \in Mailbox /\ flushed \in Mailbox
  /\ delivery \in [Deliveries -> Delivery]
  /\ \A d \in Deliveries : delivery[d].step # "idle" => delivery[d].mailId \in MailIds
  /\ time \in 0..MaxTime

(* A delivery acknowledges mail that is incorporated in its manifest, and  *)
(* durably so.                                                             *)
DeliveryInv ==
  \A d \in Deliveries :
    LET m == delivery[d].mailId IN
    /\ delivery[d].step \in {"flush-incorporated", "acknowledge", "flush-acknowledged"} =>
         Incorporated(mailbox.mail[m]) /\ mailbox.mail[m].context = delivery[d].manifest
    /\ delivery[d].step \in {"acknowledge", "flush-acknowledged"} =>
         Incorporated(flushed.mail[m]) /\ flushed.mail[m].context = delivery[d].manifest

(* A durable incorporation is that of its mail, in the Session as in what  *)
(* the Session was last known to keep.                                     *)
DurableInv ==
  \A i \in incorporations :
    /\ i.mailId \in MailIds
    /\ \A record \in {mailbox.mail[i.mailId], flushed.mail[i.mailId]} :
         /\ Incorporated(record) /\ record.context = i.context
         /\ record.recipientGeneration = i.generation

MailboxInv == MailboxShape /\ DeliveryInv /\ DurableInv /\ AcknowledgedAfterDurableIncorporation

----------------------------------------------------------------------------
(* What an effect leaves                                                   *)

(* An appended mail event writes the record of one mail and leaves the      *)
(* others.                                                                  *)
LEMMA AppendedMail ==
  ASSUME MailboxShape, NEW m \in MailIds, NEW record \in Mail, NEW f, AppendMail(m, record, f)
  PROVE  /\ mailbox' \in Mailbox
         /\ mailbox'.mail[m] = record
         /\ \A n \in MailIds : n # m => mailbox'.mail[n] = mailbox.mail[n]
  BY DEF MailboxShape, Mailbox, AppendMail

(* The result of an effect keeps the context of mail that is incorporated. *)
LEMMA EffectResult ==
  ASSUME MailboxShape, NEW d \in Deliveries, delivery[d].mailId \in MailIds,
         NEW step \in {"incorporate", "acknowledge"}, EffectSucceeds(d, step)
  PROVE  LET current == mailbox.mail[delivery[d].mailId] IN
         /\ Result(d, step) \in Mail
         /\ StaysIn(current, Result(d, step))
         /\ Incorporated(Result(d, step))
         /\ Result(d, step).context = delivery[d].manifest
         /\ Result(d, step).status = "acknowledged" /\ step = "incorporate"
              => current.status = "acknowledged"
         /\ step = "acknowledge" => Incorporated(current) /\ SameContext(current, d)
<1>. DEFINE current == mailbox.mail[delivery[d].mailId]
<1>1. current \in Mail \cup {NoMail} /\ delivery[d].manifest \in Manifests \cup {None}
  BY DEF MailboxShape, Mailbox, Delivery
<1>2. current.status \in {"reserved", "incorporated", "acknowledged"} => current \in Mail
  BY <1>1 DEF NoMail
<1>3. CASE step = "incorporate"
  <2>1. Result(d, step) = IncorporateResult(current, d) /\ Result(d, step) # None
    BY <1>3 DEF EffectSucceeds, Result
  <2>2. CASE Incorporated(current)
    <3>1. Result(d, step) = current /\ SameContext(current, d)
      BY <2>1, <2>2 DEF IncorporateResult, Incorporated
    <3>. QED BY <1>2, <1>3, <2>2, <3>1 DEF Incorporated, SameContext, StaysIn
  <2>3. CASE ~Incorporated(current)
    <3>1. /\ current.status = "reserved"
          /\ Result(d, step) = [current EXCEPT !.status = "incorporated",
                                              !.context = delivery[d].manifest]
      BY <2>1, <2>3 DEF IncorporateResult, Incorporated
    <3>2. current \in Mail
      BY <1>2, <3>1
    <3>. QED BY <1>1, <1>3, <2>3, <3>1, <3>2 DEF Incorporated, StaysIn, Mail
  <2>. QED BY <2>2, <2>3
<1>4. CASE step = "acknowledge"
  <2>1. Result(d, step) = AcknowledgeResult(current, d) /\ Result(d, step) # None
    BY <1>4 DEF EffectSucceeds, Result
  <2>2. /\ Incorporated(current) /\ SameContext(current, d)
        /\ Result(d, step) = [current EXCEPT !.status = "acknowledged"]
    BY <2>1 DEF AcknowledgeResult, Incorporated
  <2>3. current \in Mail
    BY <1>2, <2>2 DEF Incorporated
  <2>. QED BY <1>4, <2>2, <2>3 DEF Incorporated, SameContext, StaysIn, Mail
<1>. QED BY <1>3, <1>4

(* The types are kept.                                                     *)
LEMMA MailboxShapeStep ==
  ASSUME MailboxShape, [MailboxNext]_mailboxVars
  PROVE  MailboxShape'
<1>. USE MailboxAssumption DEF MailboxAssumption, mailboxVars
<1>1. ASSUME NEW m \in MailIds, Enqueue(m)
      PROVE  MailboxShape'
  <2>1. Queued(mailbox.generation, 0) \in Mail
    BY <1>1 DEF Queued, MailboxShape, Mailbox, Mail
  <2>2. mailbox' \in Mailbox
    BY <1>1, <2>1, AppendedMail DEF Enqueue
  <2>. QED BY <1>1, <2>2 DEF Enqueue, MailboxShape
<1>2. ASSUME NEW d \in Deliveries, NEW m \in MailIds, Reserve(d, m)
      PROVE  MailboxShape'
  <2>. DEFINE record == [mailbox.mail[m] EXCEPT !.status = "reserved", !.reservation =
                      [id |-> d, fence |-> mailbox.fence,
                       expiresAt |-> time + ReserveFor]]
  <2>1. mailbox.mail[m] \in Mail
    BY <1>2 DEF Reserve, MailboxShape, Mailbox, NoMail
  <2>2. [id |-> d, fence |-> mailbox.fence, expiresAt |-> time + ReserveFor] \in Reservations
    BY DEF MailboxShape, Mailbox, Reservations
  <2>3. record \in Mail
    BY <2>1, <2>2 DEF Mail
  <2>4. mailbox' \in Mailbox
    BY <1>2, <2>3, AppendedMail DEF Reserve
  <2>5. mailbox.fence \in 0..MaxFence /\ mailbox.generation \in 0..MaxGeneration
    BY DEF MailboxShape, Mailbox
  <2>6. delivery' \in [Deliveries -> Delivery]
    BY <1>2, <2>5 DEF Reserve, MailboxShape, Delivery, DeliverySteps
  <2>7. \A e \in Deliveries : delivery'[e].step # "idle" => delivery'[e].mailId \in MailIds
    BY <1>2, <2>5 DEF Reserve, MailboxShape
  <2>. QED BY <1>2, <2>4, <2>6, <2>7 DEF Reserve, MailboxShape
<1>3. ASSUME NEW d \in Deliveries, NEW context \in Contexts, BuildManifest(d, context)
      PROVE  MailboxShape'
  <2>. DEFINE packed == ManifestOf(delivery[d].mailId, context)
  <2>1. packed \in Manifests
    BY <1>3 DEF BuildManifest, MailboxShape, Manifests
  <2>2. delivery' = [delivery EXCEPT ![d].step = "flush-reserved", ![d].manifest = packed]
    BY <1>3 DEF BuildManifest, ManifestOf
  <2>. HIDE DEF packed
  <2>3. delivery' \in [Deliveries -> Delivery]
    <3>1. \A r \in Delivery : [r EXCEPT !.step = "flush-reserved"] \in Delivery
      BY DEF Delivery, DeliverySteps
    <3>2. \A r \in Delivery : [r EXCEPT !.manifest = packed] \in Delivery
      BY <2>1 DEF Delivery
    <3>3. [delivery[d] EXCEPT !.step = "flush-reserved", !.manifest = packed] \in Delivery
      BY <3>1, <3>2 DEF MailboxShape
    <3>4. delivery' = [delivery EXCEPT ![d] =
            [delivery[d] EXCEPT !.step = "flush-reserved", !.manifest = packed]]
      BY <2>2 DEF MailboxShape
    <3>. QED BY <3>3, <3>4 DEF MailboxShape
  <2>4. \A e \in Deliveries : delivery'[e].mailId = delivery[e].mailId
    BY <2>2 DEF MailboxShape, Delivery
  <2>. QED BY <1>3, <2>2, <2>3, <2>4 DEF BuildManifest, MailboxShape
<1>4. ASSUME NEW d \in Deliveries, Incorporate(d)
      PROVE  MailboxShape'
  <2>1. delivery[d].mailId \in MailIds
    BY <1>4 DEF Incorporate, MailboxShape
  <2>2. mailbox' \in Mailbox
    BY <1>4, <2>1, EffectResult, AppendedMail DEF Incorporate
  <2>. QED BY <1>4, <2>2 DEF Incorporate, MailboxShape, Delivery, DeliverySteps
<1>5. ASSUME NEW d \in Deliveries, Acknowledge(d)
      PROVE  MailboxShape'
  <2>1. delivery[d].mailId \in MailIds
    BY <1>5 DEF Acknowledge, MailboxShape
  <2>2. mailbox' \in Mailbox
    BY <1>5, <2>1, EffectResult, AppendedMail DEF Acknowledge
  <2>. QED BY <1>5, <2>2 DEF Acknowledge, MailboxShape, Delivery, DeliverySteps
<1>6. ASSUME NEW d \in Deliveries, EffectRejected(d)
      PROVE  MailboxShape'
  BY <1>6 DEF EffectRejected, MailboxShape, Delivery, DeliverySteps
<1>7. ASSUME NEW d \in Deliveries, Flush(d)
      PROVE  MailboxShape'
  <2>1. AfterFlush[delivery[d].step] \in DeliverySteps \ {"idle"} /\ delivery[d].step # "idle"
    BY <1>7 DEF Flush, AfterFlush, DeliverySteps
  <2>. QED BY <1>7, <2>1 DEF Flush, Persist, MailboxShape, Delivery
<1>8. ASSUME NEW d \in Deliveries, FlushUnavailable(d)
      PROVE  MailboxShape'
  <2>1. delivery[d].step # "idle"
    BY <1>8 DEF FlushUnavailable, AfterFlush
  <2>. QED BY <1>8, <2>1 DEF FlushUnavailable, requireFlush, Persist, MailboxShape, Delivery, DeliverySteps
<1>9. ASSUME NEW d \in Deliveries, Redeliver(d)
      PROVE  MailboxShape'
  BY ZenonT(40), <1>9 DEF Redeliver, MailboxShape, Delivery, DeliverySteps
<1>10. ASSUME NEW m \in MailIds, Reclaim(m)
      PROVE  MailboxShape'
  <2>1. mailbox.mail[m] \in Mail
    BY <1>10 DEF Reclaim, Reclaimed, MailboxShape, Mailbox, NoMail
  <2>2. Queued(mailbox.mail[m].recipientGeneration, mailbox.mail[m].reclaimCount + 1) \in Mail
    BY <2>1 DEF Queued, Mail
  <2>3. mailbox' \in Mailbox
    BY <1>10, <2>2, AppendedMail DEF Reclaim
  <2>. QED BY <1>10, <2>3 DEF Reclaim, MailboxShape
<1>11. ASSUME NEW m \in MailIds, Discard(m)
      PROVE  MailboxShape'
  <2>1. mailbox.mail[m] \in Mail
    BY <1>11 DEF Discard, MailboxShape, Mailbox, NoMail
  <2>2. [mailbox.mail[m] EXCEPT !.status = "discarded", !.reservation = None,
                               !.context = None] \in Mail
    BY <2>1 DEF Mail
  <2>3. mailbox' \in Mailbox
    BY <1>11, <2>2, AppendedMail DEF Discard
  <2>. QED BY <1>11, <2>3 DEF Discard, MailboxShape
<1>12. CASE RetryTask
  BY <1>12 DEF RetryTask, MailboxShape, Mailbox
<1>13. CASE Takeover
  BY <1>13 DEF Takeover, MailboxShape, Mailbox
<1>14. CASE Restart
  <2>1. mailbox' \in Mailbox
    BY <1>14 DEF Restart, MailboxShape, Mailbox
  <2>2. delivery' \in [Deliveries -> Delivery]
    BY <1>14 DEF Restart, MailboxShape, Delivery, DeliverySteps
  <2>3. \A d \in Deliveries : delivery'[d].mailId = delivery[d].mailId
                            /\ (delivery'[d].step # "idle" => delivery[d].step # "idle")
    BY <1>14 DEF Restart, MailboxShape, Delivery
  <2>. QED BY <1>14, <2>1, <2>2, <2>3 DEF Restart, MailboxShape
<1>15. CASE Tick
  BY <1>15 DEF Tick, MailboxShape
<1>16. CASE UNCHANGED mailboxVars
  BY <1>16 DEF MailboxShape
<1>. QED BY <1>1, <1>2, <1>3, <1>4, <1>5, <1>6, <1>7, <1>8, <1>9, <1>10, <1>11,
    <1>12, <1>13, <1>14, <1>15, <1>16 DEF MailboxNext, Deliver

(* Nothing but a restart takes mail out of a context: the gate refuses to  *)
(* discard it, and a second delivery finds it in its own context or fails. *)
LEMMA MailStays ==
  ASSUME MailboxShape, ~Restart, [MailboxNext]_mailboxVars
  PROVE  MailStaysIn
<1>. USE DEF MailStaysIn, mailboxVars
<1>1. ASSUME NEW m \in MailIds, Enqueue(m)
      PROVE  MailStaysIn
  <2>1. Queued(mailbox.generation, 0) \in Mail /\ mailbox.mail[m] = NoMail
    BY <1>1 DEF Enqueue, Queued, MailboxShape, Mailbox, Mail
  <2>. QED BY <1>1, <2>1, AppendedMail DEF Enqueue, StaysIn, Incorporated, NoMail
<1>2. ASSUME NEW d \in Deliveries, NEW m \in MailIds, Reserve(d, m)
      PROVE  MailStaysIn
  <2>1. mailbox.mail[m].status = "queued"
    BY <1>2 DEF Reserve
  <2>2. \A n \in MailIds : n # m => mailbox'.mail[n] = mailbox.mail[n]
    BY <1>2 DEF Reserve, AppendMail, MailboxShape, Mailbox
  <2>. QED BY <2>1, <2>2 DEF StaysIn, Incorporated
<1>3. ASSUME NEW d \in Deliveries, NEW context \in Contexts, BuildManifest(d, context)
      PROVE  MailStaysIn
  BY <1>3 DEF BuildManifest, StaysIn, MailboxShape, Mailbox
<1>4. ASSUME NEW d \in Deliveries, Incorporate(d)
      PROVE  MailStaysIn
  <2>1. delivery[d].mailId \in MailIds
    BY <1>4 DEF Incorporate, MailboxShape
  <2>. QED BY <1>4, <2>1, EffectResult, AppendedMail DEF Incorporate, StaysIn
<1>5. ASSUME NEW d \in Deliveries, Acknowledge(d)
      PROVE  MailStaysIn
  <2>1. delivery[d].mailId \in MailIds
    BY <1>5 DEF Acknowledge, MailboxShape
  <2>. QED BY <1>5, <2>1, EffectResult, AppendedMail DEF Acknowledge, StaysIn
<1>6. ASSUME NEW d \in Deliveries, EffectRejected(d)
      PROVE  MailStaysIn
  BY <1>6 DEF EffectRejected, StaysIn, MailboxShape, Mailbox
<1>7. ASSUME NEW d \in Deliveries, Flush(d)
      PROVE  MailStaysIn
  BY <1>7 DEF Flush, StaysIn, MailboxShape, Mailbox
<1>8. ASSUME NEW d \in Deliveries, FlushUnavailable(d)
      PROVE  MailStaysIn
  BY <1>8 DEF FlushUnavailable, StaysIn, MailboxShape, Mailbox
<1>9. ASSUME NEW d \in Deliveries, Redeliver(d)
      PROVE  MailStaysIn
  BY <1>9 DEF Redeliver, StaysIn, MailboxShape, Mailbox
<1>10. ASSUME NEW m \in MailIds, Reclaim(m)
      PROVE  MailStaysIn
  <2>1. mailbox.mail[m].status = "reserved"
    BY <1>10 DEF Reclaim, Reclaimed
  <2>2. \A n \in MailIds : n # m => mailbox'.mail[n] = mailbox.mail[n]
    BY <1>10 DEF Reclaim, AppendMail, MailboxShape, Mailbox
  <2>. QED BY <2>1, <2>2 DEF StaysIn, Incorporated
<1>11. ASSUME NEW m \in MailIds, Discard(m)
      PROVE  MailStaysIn
  <2>1. ~Incorporated(mailbox.mail[m])
    BY <1>11 DEF Discard, AppendMail, GateAccepts, MailboxShape, Mailbox, Mail,
    NoMail, Incorporated
  <2>2. \A n \in MailIds : n # m => mailbox'.mail[n] = mailbox.mail[n]
    BY <1>11 DEF Discard, AppendMail, MailboxShape, Mailbox
  <2>. QED BY <2>1, <2>2 DEF StaysIn
<1>12. CASE RetryTask
  BY <1>12 DEF RetryTask, StaysIn, MailboxShape, Mailbox
<1>13. CASE Takeover
  BY <1>13 DEF Takeover, StaysIn, MailboxShape, Mailbox
<1>14. CASE Restart
  BY <1>14
<1>15. CASE Tick
  BY <1>15 DEF Tick, StaysIn, MailboxShape, Mailbox
<1>16. CASE UNCHANGED mailboxVars
  BY <1>16 DEF StaysIn
<1>. QED BY <1>1, <1>2, <1>3, <1>4, <1>5, <1>6, <1>7, <1>8, <1>9, <1>10, <1>11,
    <1>12, <1>13, <1>14, <1>15, <1>16 DEF MailboxNext, Deliver

(* A delivery that does not move finds its mail where it was.              *)
LEMMA DeliveryTransfer ==
  ASSUME MailboxShape, DeliveryInv, MailStaysIn, UNCHANGED flushed,
         \A e \in Deliveries :
           delivery'[e].step \in {"flush-incorporated", "acknowledge", "flush-acknowledged"}
             => delivery'[e] = delivery[e]
  PROVE  DeliveryInv'
  BY DEF DeliveryInv, MailStaysIn, StaysIn, MailboxShape

(* What a delivery acknowledges is durable in its context.                 *)
LEMMA DeliveryStep ==
  ASSUME MailboxShape, DeliveryInv, [MailboxNext]_mailboxVars
  PROVE  DeliveryInv'
<1>. USE DEF mailboxVars
<1>1. CASE Restart
  BY <1>1 DEF Restart, DeliveryInv, MailboxShape, Delivery
<1>2. CASE ~Restart
  <2>0. MailStaysIn
    BY <1>2, MailStays
  <2>1. ASSUME NEW m \in MailIds, Enqueue(m)
        PROVE  DeliveryInv'
    BY <2>0, <2>1, DeliveryTransfer DEF Enqueue, MailboxShape, Delivery
  <2>2. ASSUME NEW d \in Deliveries, NEW m \in MailIds, Reserve(d, m)
        PROVE  DeliveryInv'
    BY <2>0, <2>2, DeliveryTransfer DEF Reserve, MailboxShape, Delivery
  <2>3. ASSUME NEW d \in Deliveries, NEW context \in Contexts, BuildManifest(d, context)
        PROVE  DeliveryInv'
    BY <2>0, <2>3, DeliveryTransfer DEF BuildManifest, MailboxShape, Delivery
  <2>4. ASSUME NEW d \in Deliveries, Incorporate(d)
        PROVE  DeliveryInv'
    <3>1. delivery[d].mailId \in MailIds
      BY <2>4 DEF Incorporate, MailboxShape
    <3>2. /\ delivery'[d].step = "flush-incorporated" /\ UNCHANGED flushed
          /\ delivery'[d].mailId = delivery[d].mailId
          /\ delivery'[d].manifest = delivery[d].manifest
          /\ \A e \in Deliveries : e # d => delivery'[e] = delivery[e]
      BY <2>4 DEF Incorporate, MailboxShape, Delivery
    <3>3. /\ Incorporated(mailbox'.mail[delivery[d].mailId])
          /\ mailbox'.mail[delivery[d].mailId].context = delivery[d].manifest
      BY <2>4, <3>1, EffectResult, AppendedMail DEF Incorporate
    <3>4. delivery[d].step = "incorporate"
      BY <2>4 DEF Incorporate
    <3>. QED BY <2>0, <3>1, <3>2, <3>3, <3>4 DEF DeliveryInv, MailStaysIn,
      StaysIn, MailboxShape
  <2>5. ASSUME NEW d \in Deliveries, Acknowledge(d)
        PROVE  DeliveryInv'
    <3>1. delivery[d].mailId \in MailIds
      BY <2>5 DEF Acknowledge, MailboxShape
    <3>2. /\ delivery'[d].step = "flush-acknowledged" /\ UNCHANGED flushed
          /\ delivery'[d].mailId = delivery[d].mailId
          /\ delivery'[d].manifest = delivery[d].manifest
          /\ \A e \in Deliveries : e # d => delivery'[e] = delivery[e]
      BY <2>5 DEF Acknowledge, MailboxShape, Delivery
    <3>3. /\ Incorporated(mailbox'.mail[delivery[d].mailId])
          /\ mailbox'.mail[delivery[d].mailId].context = delivery[d].manifest
      BY <2>5, <3>1, EffectResult, AppendedMail DEF Acknowledge
    <3>4. delivery[d].step = "acknowledge"
      BY <2>5 DEF Acknowledge
    <3>. QED BY <2>0, <3>1, <3>2, <3>3, <3>4 DEF DeliveryInv, MailStaysIn,
      StaysIn, MailboxShape
  <2>6. ASSUME NEW d \in Deliveries, EffectRejected(d)
        PROVE  DeliveryInv'
    BY <2>0, <2>6, DeliveryTransfer DEF EffectRejected, MailboxShape, Delivery
  <2>7. ASSUME NEW d \in Deliveries, Flush(d)
        PROVE  DeliveryInv'
    BY <2>7 DEF Flush, AfterFlush, Persist, DeliveryInv, MailboxShape, Delivery
  <2>8. ASSUME NEW d \in Deliveries, FlushUnavailable(d)
        PROVE  DeliveryInv'
    BY <2>8 DEF FlushUnavailable, requireFlush, Persist, DeliveryInv, MailboxShape,
      Delivery
  <2>9. ASSUME NEW d \in Deliveries, Redeliver(d)
        PROVE  DeliveryInv'
    BY <2>0, <2>9, DeliveryTransfer DEF Redeliver, MailboxShape, Delivery
  <2>10. ASSUME NEW m \in MailIds, Reclaim(m)
        PROVE  DeliveryInv'
    BY <2>0, <2>10, DeliveryTransfer DEF Reclaim, MailboxShape, Delivery
  <2>11. ASSUME NEW m \in MailIds, Discard(m)
        PROVE  DeliveryInv'
    BY <2>0, <2>11, DeliveryTransfer DEF Discard, MailboxShape, Delivery
  <2>12. CASE RetryTask
    BY <2>0, <2>12, DeliveryTransfer DEF RetryTask, MailboxShape, Delivery
  <2>13. CASE Takeover
    BY <2>0, <2>13, DeliveryTransfer DEF Takeover, MailboxShape, Delivery
  <2>14. CASE Tick
    BY <2>0, <2>14, DeliveryTransfer DEF Tick, MailboxShape, Delivery
  <2>15. CASE UNCHANGED mailboxVars
    BY <2>0, <2>15, DeliveryTransfer
  <2>. QED BY <1>2, <2>1, <2>2, <2>3, <2>4, <2>5, <2>6, <2>7, <2>8, <2>9,
      <2>10, <2>11, <2>12, <2>13, <2>14, <2>15 DEF MailboxNext, Deliver
<1>. QED BY <1>1, <1>2

(* A flush that persists adds what is incorporated to what is durable.     *)
LEMMA PersistKeeps ==
  ASSUME DurableInv, Persist, UNCHANGED mailbox
  PROVE  DurableInv'
<1>1. ASSUME NEW i \in incorporations', i \notin incorporations
      PROVE  /\ i.mailId \in MailIds
             /\ Incorporated(mailbox.mail[i.mailId])
             /\ mailbox.mail[i.mailId].context = i.context
             /\ mailbox.mail[i.mailId].recipientGeneration = i.generation
  BY <1>1 DEF Persist, Incorporated
<1>. QED BY <1>1 DEF Persist, DurableInv

(* What is durable in a context stays in it.                               *)
LEMMA DurableStep ==
  ASSUME MailboxShape, DurableInv, [MailboxNext]_mailboxVars
  PROVE  DurableInv'
<1>. USE DEF mailboxVars
<1>1. CASE Restart
  BY <1>1 DEF Restart, DurableInv, MailboxShape, Mailbox
<1>2. CASE ~Restart
  <2>0. MailStaysIn
    BY <1>2, MailStays
  <2>1. ASSUME NEW m \in MailIds, Enqueue(m)
        PROVE  DurableInv'
    BY <2>0, <2>1 DEF Enqueue, DurableInv, MailStaysIn, StaysIn
  <2>2. ASSUME NEW d \in Deliveries, NEW m \in MailIds, Reserve(d, m)
        PROVE  DurableInv'
    BY <2>0, <2>2 DEF Reserve, DurableInv, MailStaysIn, StaysIn
  <2>3. ASSUME NEW d \in Deliveries, NEW context \in Contexts, BuildManifest(d, context)
        PROVE  DurableInv'
    BY <2>0, <2>3 DEF BuildManifest, DurableInv, MailStaysIn, StaysIn
  <2>4. ASSUME NEW d \in Deliveries, Incorporate(d)
        PROVE  DurableInv'
    BY <2>0, <2>4 DEF Incorporate, DurableInv, MailStaysIn, StaysIn
  <2>5. ASSUME NEW d \in Deliveries, Acknowledge(d)
        PROVE  DurableInv'
    BY <2>0, <2>5 DEF Acknowledge, DurableInv, MailStaysIn, StaysIn
  <2>6. ASSUME NEW d \in Deliveries, EffectRejected(d)
        PROVE  DurableInv'
    BY <2>0, <2>6 DEF EffectRejected, DurableInv, MailStaysIn, StaysIn
  <2>7. ASSUME NEW d \in Deliveries, Flush(d)
        PROVE  DurableInv'
    <3>1. Persist /\ UNCHANGED mailbox
      BY <2>7 DEF Flush
    <3>. QED BY <3>1, PersistKeeps
  <2>8. ASSUME NEW d \in Deliveries, FlushUnavailable(d)
        PROVE  DurableInv'
    <3>1. UNCHANGED mailbox /\ (Persist \/ UNCHANGED <<flushed, incorporations>>)
      BY <2>8 DEF FlushUnavailable
    <3>. QED BY <3>1, PersistKeeps DEF DurableInv
  <2>9. ASSUME NEW d \in Deliveries, Redeliver(d)
        PROVE  DurableInv'
    BY <2>0, <2>9 DEF Redeliver, DurableInv, MailStaysIn, StaysIn
  <2>10. ASSUME NEW m \in MailIds, Reclaim(m)
        PROVE  DurableInv'
    BY <2>0, <2>10 DEF Reclaim, DurableInv, MailStaysIn, StaysIn
  <2>11. ASSUME NEW m \in MailIds, Discard(m)
        PROVE  DurableInv'
    BY <2>0, <2>11 DEF Discard, DurableInv, MailStaysIn, StaysIn
  <2>12. CASE RetryTask
    BY <2>0, <2>12 DEF RetryTask, DurableInv, MailStaysIn, StaysIn
  <2>13. CASE Takeover
    BY <2>0, <2>13 DEF Takeover, DurableInv, MailStaysIn, StaysIn
  <2>14. CASE Tick
    BY <2>0, <2>14 DEF Tick, DurableInv, MailStaysIn, StaysIn
  <2>15. CASE UNCHANGED mailboxVars
    BY <2>15 DEF DurableInv
  <2>. QED BY <1>2, <2>1, <2>2, <2>3, <2>4, <2>5, <2>6, <2>7, <2>8, <2>9,
      <2>10, <2>11, <2>12, <2>13, <2>14, <2>15 DEF MailboxNext, Deliver
<1>. QED BY <1>1, <1>2

(* Mail is acknowledged by a delivery that flushed its incorporation.      *)
LEMMA AcknowledgedStep ==
  ASSUME MailboxShape, DeliveryInv, AcknowledgedAfterDurableIncorporation, [MailboxNext]_mailboxVars
  PROVE  AcknowledgedAfterDurableIncorporation'
<1>. USE DEF AcknowledgedAfterDurableIncorporation, mailboxVars
<1>1. CASE Restart
  BY <1>1 DEF Restart, MailboxShape, Mailbox
<1>2. CASE ~Restart
  <2>0. MailStaysIn
    BY <1>2, MailStays
  <2>1. ASSUME NEW m \in MailIds, Enqueue(m)
        PROVE  AcknowledgedAfterDurableIncorporation'
    BY <2>1 DEF Enqueue, AppendMail, Queued, MailboxShape, Mailbox
  <2>2. ASSUME NEW d \in Deliveries, NEW m \in MailIds, Reserve(d, m)
        PROVE  AcknowledgedAfterDurableIncorporation'
    <3>1. mailbox.mail[m] \in Mail
      BY <2>2 DEF Reserve, MailboxShape, Mailbox, NoMail
    <3>. QED BY <2>2, <3>1 DEF Reserve, AppendMail, MailboxShape, Mailbox, Mail
  <2>3. ASSUME NEW d \in Deliveries, NEW context \in Contexts, BuildManifest(d, context)
        PROVE  AcknowledgedAfterDurableIncorporation'
    BY <2>3 DEF BuildManifest, AppendMail, MailboxShape, Mailbox
  <2>4. ASSUME NEW d \in Deliveries, Incorporate(d)
        PROVE  AcknowledgedAfterDurableIncorporation'
    <3>. DEFINE m == delivery[d].mailId
    <3>1. m \in MailIds /\ EffectSucceeds(d, "incorporate") /\ UNCHANGED flushed
      BY <2>4 DEF Incorporate, MailboxShape
    <3>2. /\ mailbox'.mail[m].status = "acknowledged" => mailbox.mail[m].status = "acknowledged"
          /\ \A n \in MailIds : n # m => mailbox'.mail[n] = mailbox.mail[n]
      BY <2>4, <3>1, EffectResult, AppendedMail DEF Incorporate
    <3>. QED BY <2>0, <3>1, <3>2 DEF MailStaysIn, StaysIn, Incorporated
  <2>5. ASSUME NEW d \in Deliveries, Acknowledge(d)
        PROVE  AcknowledgedAfterDurableIncorporation'
    <3>. DEFINE m == delivery[d].mailId
    <3>1. /\ m \in MailIds /\ EffectSucceeds(d, "acknowledge") /\ UNCHANGED flushed
          /\ delivery[d].step = "acknowledge"
      BY <2>5 DEF Acknowledge, MailboxShape
    <3>2. /\ mailbox'.mail[m].context = delivery[d].manifest
          /\ \A n \in MailIds : n # m => mailbox'.mail[n] = mailbox.mail[n]
      BY <2>5, <3>1, EffectResult, AppendedMail DEF Acknowledge
    <3>3. Incorporated(flushed.mail[m]) /\ flushed.mail[m].context = delivery[d].manifest
      BY <3>1 DEF DeliveryInv
    <3>. QED BY <3>1, <3>2, <3>3 DEF Incorporated
  <2>6. ASSUME NEW d \in Deliveries, EffectRejected(d)
        PROVE  AcknowledgedAfterDurableIncorporation'
    BY <2>6 DEF EffectRejected, AppendMail, MailboxShape, Mailbox
  <2>7. ASSUME NEW d \in Deliveries, Flush(d)
        PROVE  AcknowledgedAfterDurableIncorporation'
    BY <2>7 DEF Flush, Persist
  <2>8. ASSUME NEW d \in Deliveries, FlushUnavailable(d)
        PROVE  AcknowledgedAfterDurableIncorporation'
    BY <2>8 DEF FlushUnavailable, Persist
  <2>9. ASSUME NEW d \in Deliveries, Redeliver(d)
        PROVE  AcknowledgedAfterDurableIncorporation'
    BY <2>9 DEF Redeliver, AppendMail, MailboxShape, Mailbox
  <2>10. ASSUME NEW m \in MailIds, Reclaim(m)
        PROVE  AcknowledgedAfterDurableIncorporation'
    BY <2>10 DEF Reclaim, AppendMail, Queued, MailboxShape, Mailbox
  <2>11. ASSUME NEW m \in MailIds, Discard(m)
        PROVE  AcknowledgedAfterDurableIncorporation'
    <3>1. mailbox.mail[m] \in Mail
      BY <2>11 DEF Discard, MailboxShape, Mailbox, NoMail
    <3>. QED BY <2>11, <3>1 DEF Discard, AppendMail, MailboxShape, Mailbox, Mail
  <2>12. CASE RetryTask
    BY <2>12 DEF RetryTask, AppendMail, MailboxShape, Mailbox
  <2>13. CASE Takeover
    BY <2>13 DEF Takeover, AppendMail, MailboxShape, Mailbox
  <2>14. CASE Tick
    BY <2>14 DEF Tick, AppendMail, MailboxShape, Mailbox
  <2>15. CASE UNCHANGED mailboxVars
    BY <2>15
  <2>. QED BY <1>2, <2>1, <2>2, <2>3, <2>4, <2>5, <2>6, <2>7, <2>8, <2>9,
      <2>10, <2>11, <2>12, <2>13, <2>14, <2>15 DEF MailboxNext, Deliver
<1>. QED BY <1>1, <1>2

----------------------------------------------------------------------------
(* The invariant is inductive                                              *)

(* The empty mailbox satisfies the invariant.                               *)
LEMMA InitMailboxInv == MailboxInit => MailboxInv
<1>. SUFFICES ASSUME MailboxInit
     PROVE  MailboxInv
  OBVIOUS
<1>. USE MailboxAssumption DEF MailboxInit, MailboxAssumption
<1>1. MailboxShape
  BY DEF MailboxShape, Mailbox, Delivery, DeliverySteps, Idle
<1>2. DeliveryInv /\ DurableInv
  BY DEF DeliveryInv, DurableInv, Idle
<1>3. AcknowledgedAfterDurableIncorporation
  BY DEF AcknowledgedAfterDurableIncorporation, NoMail
<1>. QED BY <1>1, <1>2, <1>3 DEF MailboxInv

(* Every step of the mailbox and of its deliveries preserves the            *)
(* invariant, part by part.                                                 *)
LEMMA MailboxInvStep == MailboxInv /\ [MailboxNext]_mailboxVars => MailboxInv'
  BY MailboxShapeStep, DeliveryStep, DurableStep, AcknowledgedStep DEF MailboxInv

(* The invariant of the mailbox holds in every reachable state.             *)
LEMMA IInvHolds == MailboxSpec => []MailboxInv
<1>. QED BY InitMailboxInv, MailboxInvStep, PTL DEF MailboxSpec

----------------------------------------------------------------------------
(* Theorems                                                                *)

(* Every mail, delivery and lease of the mailbox stays in its type         *)
(* (mailbox.ts, mail-state of invariant.ts).                               *)
THEOREM MailboxTypes == MailboxSpec => []MailboxTypeOK
<1>1. MailboxShape => MailboxTypeOK
  BY DEF MailboxShape, MailboxTypeOK, Mailbox, Mail, NoMail, Delivery, DeliverySteps
<1>. QED BY <1>1, IInvHolds, PTL DEF MailboxInv

(* "Acknowledgement occurs only after ... any required DSH flush"          *)
(* (ADR-0017): whatever the flushes answer and whenever the owner dies,    *)
(* mail that is acknowledged is durably in the same context.               *)
THEOREM AcknowledgedMailIsDurable ==
  MailboxSpec => []AcknowledgedAfterDurableIncorporation
<1>. QED BY IInvHolds, PTL DEF MailboxInv

(* "incorporation is idempotent by mail, task generation, and context      *)
(* generation" (ADR-0017): deliverReservedMail, however often it is        *)
(* repeated, puts mail into one context.                                   *)
THEOREM MailIsInOneContext == MailboxSpec => []IncorporatedOncePerGeneration
<1>1. DurableInv => IncorporatedOncePerGeneration
  BY DEF DurableInv, IncorporatedOncePerGeneration
<1>. QED BY <1>1, IInvHolds, PTL DEF MailboxInv

-----------------------------------------------------------------------------
(* Advancement by milestones and continuations.                            *)

(* What is known of the values.                                            *)
Receipt == [step : Nat, artifact : {o.artifact : o \in Observations},
            interaction : {o.interaction : o \in Observations},
            progress : {o.progress : o \in Observations}, noProgress : Nat,
            nextDecision : {"pause", "complete", "revise", "advance"}]

Token == [continuationId : Tokens, status : {"available", "consumed", "invalidated"},
          owner : 0..MaxOwners, fence : 0..MaxOwners, bound : [Bindings -> {1, 2}],
          expectedInputs : SUBSET Inputs, authority : SUBSET Grants, limits : 0..MaxLimit,
          issuedAt : Nat, expiresAt : Nat, updatedAt : Nat]

Journal == [milestones : Seq(Receipt), continuations : [Tokens -> Token \cup {NoToken}]]

ActivationSteps == {"idle", "run", "flush-milestone", "issue", "flush-token", "yielded",
          "flush-consumed", "effects", "failed"}

Activation == [step : ActivationSteps, owner : 0..MaxOwners, taken : 0..ActivationLimit,
               token : Token \cup {NoToken}, authority : SUBSET Grants,
               limits : 0..MaxLimit]

IsFirst(a) == \A b \in Activations : a <= b

TokenOf(a) == activation[a].token.continuationId

(* An activation that consumed its token and did not start its effects.    *)
Resuming(a) == activation[a].step \in {"flush-consumed", "effects"}

----------------------------------------------------------------------------
(* The inductive invariant                                                 *)

AdvancementShape ==
  /\ policy \in Policies /\ ValidPolicy(policy)
  /\ journal \in Journal /\ stored \in Journal
  /\ activation \in [Activations -> Activation]
  /\ owner \in 1..MaxOwners /\ bound \in [Bindings -> {1, 2}]
  /\ available \subseteq Inputs /\ instant \in 0..MaxInstant
  /\ reported.tokens \subseteq Tokens /\ effects \in [Tokens -> Nat]

(* Activations and tokens are what their places say.                       *)
Placed(a) ==
  /\ activation[a] = NotStarted <=> activation[a].step = "idle"
  /\ activation[a].step = "flush-token" \/ Resuming(a) => activation[a].token \in Token
  /\ activation[a].step = "run" \/ Resuming(a) => activation[a].taken < ActivationLimit

Named(state) ==
  \A t \in Tokens : state.continuations[t] # NoToken =>
                      state.continuations[t].continuationId = t

PlacesInv == (\A a \in Activations : Placed(a)) /\ Named(journal) /\ Named(stored)

(* The caller is told of tokens that the journal and its store have.       *)
ReportedInv ==
  /\ \A t \in reported.tokens :
       journal.continuations[t] # NoToken /\ stored.continuations[t] # NoToken
  /\ \A a \in Activations : activation[a].step = "flush-token" =>
       journal.continuations[TokenOf(a)] # NoToken

(* No milestone the caller was told of is lost, nor one the store has.     *)
MilestonesInv ==
  /\ reported.milestones \subseteq ToSet(stored.milestones)
  /\ ToSet(stored.milestones) \subseteq ToSet(journal.milestones)

(* A token is consumed before its effects start, by one activation.        *)
ConsumedInv ==
  /\ \A t \in Tokens :
       /\ effects[t] <= 1
       /\ effects[t] = 1 => /\ journal.continuations[t].status = "consumed"
                            /\ stored.continuations[t].status = "consumed"
  /\ \A a \in Activations : Resuming(a) =>
       /\ effects[TokenOf(a)] = 0
       /\ journal.continuations[TokenOf(a)].status = "consumed"
       /\ activation[a].step = "effects" =>
            stored.continuations[TokenOf(a)].status = "consumed"
  /\ \A a, b \in Activations :
       Resuming(a) /\ Resuming(b) /\ a # b => TokenOf(a) # TokenOf(b)

(* Tokens and activations have no more than the first activation had.      *)
Within(grant, first) ==
  /\ activation[first] # NotStarted
  /\ grant.authority \subseteq activation[first].authority
  /\ grant.limits <= activation[first].limits

GrantInv ==
  \A first \in Activations : IsFirst(first) =>
    /\ \A a \in Activations : activation[a] # NotStarted => Within(activation[a], first)
    /\ \A state \in {journal, stored} : \A t \in Tokens :
         state.continuations[t] # NoToken => Within(state.continuations[t], first)

(* Every receipt counts the milestones before it that brought nothing new, *)
(* and the run pauses when they are too many.                              *)
NewIn(done, i) ==
  /\ done[i].progress # <<>>
  /\ \A j \in 1..(i - 1) : done[j].progress # done[i].progress

Streak(done, i, n) == \A j \in (i - n + 1)..i : ~NewIn(done, j)

Counted(rules, done) ==
  /\ Len(done) <= rules.maxMilestones
  /\ \A i \in 1..Len(done) :
       /\ done[i].step = i
       /\ \A n \in 1..i : Streak(done, i, n) => done[i].noProgress >= n
       /\ /\ "no-progress" \in rules.pauseOn
          /\ done[i].noProgress >= rules.maxNoProgressMilestones
          => done[i].nextDecision = "pause"

StreakInv ==
  Counted(policy, journal.milestones) /\ Counted(policy, stored.milestones)

AdvancementInv ==
  AdvancementShape /\ PlacesInv /\ ReportedInv /\ MilestonesInv /\ ConsumedInv
  /\ GrantInv /\ StreakInv

----------------------------------------------------------------------------
(* What the effects leave                                                  *)

(* evaluateStairStepMilestone yields a receipt, whatever is observed.       *)
LEMMA ReceiptType ==
  ASSUME AdvancementShape, NEW o \in Observations
  PROVE  evaluateStairStepMilestone(policy, o, journal.milestones) \in Receipt
<1>. DEFINE done == journal.milestones
<1>1. done \in Seq(Receipt)
  BY DEF AdvancementShape, Journal
<1>2. done # <<>> => Len(done) \in 1..Len(done)
  BY <1>1
<1>3. done # <<>> => done[Len(done)].noProgress \in Nat
  <2>1. done # <<>> => done[Len(done)] \in Receipt
    BY <1>1, <1>2
  <2>. QED BY <2>1 DEF Receipt
<1>5. noProgressMilestones(o, done) \in Nat
  BY <1>3 DEF noProgressMilestones
<1>4. NextDecision(policy, o, done) \in {"pause", "complete", "revise", "advance"}
  BY DEF NextDecision
<1>. QED BY <1>1, <1>4, <1>5 DEF evaluateStairStepMilestone, Receipt

(* issueContinuation yields a token.                                        *)
LEMMA IssuedType ==
  ASSUME AdvancementShape, NEW a \in Activations, NEW t \in Tokens
  PROVE  issueContinuation(t, Current(activation[a].owner, activation[a].authority,
                                      activation[a].limits), Inputs, instant + Lifetime)
           \in Token
  BY AdvancementAssumption
     DEF AdvancementAssumption, AdvancementShape, Activation, Token, issueContinuation, Current

(* A token that is consumed or invalidated is a token still.                *)
LEMMA EndedType ==
  ASSUME AdvancementShape, NEW record \in Token
  PROVE  /\ \A authority, limits :
              consumeContinuation(record, Current(owner, authority, limits)) \in Token
         /\ invalidateContinuation(record, instant) \in Token
<1>1. instant \in Nat
  BY AdvancementAssumption DEF AdvancementAssumption, AdvancementShape
<1>2. \A s \in {"consumed", "invalidated"} : [record EXCEPT !.status = s] \in Token
  BY DEF Token
<1>3. \A r \in Token : [r EXCEPT !.updatedAt = instant] \in Token
  BY <1>1 DEF Token
<1>4. \A s \in {"consumed", "invalidated"} :
        [record EXCEPT !.status = s, !.updatedAt = instant] \in Token
  BY <1>2, <1>3
<1>. QED BY <1>4 DEF consumeContinuation, invalidateContinuation, Current

(* Writing one continuation yields a journal.                               *)
LEMMA JournalUpdate ==
  ASSUME AdvancementShape, NEW t \in Tokens, NEW record \in Token
  PROVE  [journal EXCEPT !.continuations[t] = record] \in Journal
  BY DEF AdvancementShape, Journal

(* Moving one activation yields a function of activations.                  *)
LEMMA ActivationUpdate ==
  ASSUME AdvancementShape, NEW a \in Activations, NEW next \in Activation
  PROVE  [activation EXCEPT ![a] = next] \in [Activations -> Activation]
  BY DEF AdvancementShape

(* The types are kept.                                                     *)
LEMMA AdvancementShapeStep ==
  ASSUME AdvancementShape, PlacesInv, [AdvancementNext]_advancementVars
  PROVE  AdvancementShape'
<1>. USE AdvancementAssumption DEF AdvancementAssumption, advancementVars,
    world, Move
<1>1. ASSUME NEW a \in Activations, NEW authority \in SUBSET Grants, NEW limits \in 0..MaxLimit,
             Start(a, authority, limits)
      PROVE  AdvancementShape'
  <2>1. owner \in 0..MaxOwners /\ NotStarted \in Activation
    BY DEF AdvancementShape, NotStarted, Activation, ActivationSteps
  <2>2. [step |-> "run", owner |-> owner, taken |-> 0, token |-> NoToken,
         authority |-> authority, limits |-> limits] \in Activation
    BY <2>1 DEF Activation, ActivationSteps
  <2>. QED BY <1>1, <2>2, ActivationUpdate DEF Start, AdvancementShape
<1>2. ASSUME NEW a \in Activations, NEW o \in Observations, Milestone(a, o)
      PROVE  AdvancementShape'
  <2>1. journal' \in Journal
    <3>1. evaluateStairStepMilestone(policy, o, journal.milestones) \in Receipt
      BY ReceiptType
    <3>2. Append(journal.milestones, evaluateStairStepMilestone(policy, o, journal.milestones))
            \in Seq(Receipt)
      BY <3>1 DEF AdvancementShape, Journal
    <3>3. journal' = [journal EXCEPT !.milestones = Append(@,
            evaluateStairStepMilestone(policy, o, journal.milestones))]
      BY <1>2 DEF Milestone
    <3>. QED BY <3>2, <3>3 DEF AdvancementShape, Journal
  <2>2. activation' \in [Activations -> Activation]
    <3>1. activation[a].taken + 1 \in 0..ActivationLimit
      BY <1>2 DEF Milestone, PlacesInv, Placed, Named, AdvancementShape, Activation
    <3>2. \A r \in Activation, s \in {"run", "flush-milestone"} :
            [r EXCEPT !.step = s] \in Activation
      BY DEF Activation, ActivationSteps
    <3>3. [activation[a] EXCEPT !.taken = activation[a].taken + 1] \in Activation
      BY <3>1 DEF AdvancementShape, Activation
    <3>4. PICK s \in {"run", "flush-milestone"} : activation' =
            [activation EXCEPT ![a].taken = activation[a].taken + 1, ![a].step = s]
      BY <1>2 DEF Milestone
    <3>5. [activation[a] EXCEPT !.taken = activation[a].taken + 1, !.step = s] \in Activation
      BY <3>2, <3>3
    <3>6. activation' = [activation EXCEPT ![a] =
            [activation[a] EXCEPT !.taken = activation[a].taken + 1, !.step = s]]
      BY <3>4 DEF AdvancementShape
    <3>. QED BY <3>5, <3>6, ActivationUpdate
  <2>. QED BY <1>2, <2>1, <2>2 DEF Milestone, AdvancementShape
<1>3. ASSUME NEW a \in Activations, NEW o \in Observations, MilestoneRejected(a, o)
      PROVE  AdvancementShape'
  BY <1>3 DEF MilestoneRejected, AdvancementShape, Activation, ActivationSteps
<1>4. ASSUME NEW a \in Activations, NEW t \in Tokens, Issue(a, t)
      PROVE  AdvancementShape'
  <2>. DEFINE record == issueContinuation(t, Current(activation[a].owner,
                         activation[a].authority, activation[a].limits),
                         Inputs, instant + Lifetime)
  <2>1. record \in Token
    BY IssuedType
  <2>2. /\ journal' = [journal EXCEPT !.continuations[t] = record]
        /\ activation' = [activation EXCEPT ![a].step = "flush-token", ![a].token = record]
    BY <1>4 DEF Issue
  <2>. HIDE DEF record
  <2>3. activation' \in [Activations -> Activation]
    <3>1. [activation[a] EXCEPT !.step = "flush-token"] \in Activation
      BY DEF AdvancementShape, Activation, ActivationSteps
    <3>2. \A r \in Activation : [r EXCEPT !.token = record] \in Activation
      BY <2>1 DEF Activation
    <3>3. [activation[a] EXCEPT !.step = "flush-token", !.token = record] \in Activation
      BY <3>1, <3>2
    <3>4. activation' = [activation EXCEPT ![a] =
            [activation[a] EXCEPT !.step = "flush-token", !.token = record]]
      BY <2>2 DEF AdvancementShape
    <3>. QED BY <3>3, <3>4, ActivationUpdate
  <2>. QED BY <1>4, <2>1, <2>2, <2>3, JournalUpdate DEF Issue, AdvancementShape
<1>5. ASSUME NEW a \in Activations, FlushYield(a)
      PROVE  AdvancementShape'
  <2>1. AfterYieldFlush[activation[a].step] \in ActivationSteps
    BY <1>5 DEF FlushYield, AfterYieldFlush, ActivationSteps
  <2>2. activation' \in [Activations -> Activation]
    BY <1>5, <2>1 DEF FlushYield, AdvancementShape, Activation
  <2>3. reported'.tokens \subseteq Tokens
    BY <1>5 DEF FlushYield, Tell, PlacesInv, Placed, Named, AdvancementShape, Token
  <2>. QED BY <1>5, <2>2, <2>3 DEF FlushYield, AdvancementShape
<1>6. ASSUME NEW a \in Activations, YieldFlushUnavailable(a)
      PROVE  AdvancementShape'
  BY <1>6 DEF YieldFlushUnavailable, AdvancementShape, Activation, ActivationSteps
<1>7. ASSUME NEW a \in Activations, NEW t \in Tokens, NEW authority \in SUBSET Grants,
             NEW limits \in 0..MaxLimit, Consume(a, t, authority, limits)
      PROVE  AdvancementShape'
  <2>1. journal.continuations[t] \in Token
    BY <1>7 DEF Consume, AdvancementShape, Journal
  <2>2. journal' \in Journal
    BY <1>7, <2>1, EndedType, JournalUpdate DEF Consume
  <2>3. owner \in 0..MaxOwners
    BY DEF AdvancementShape
  <2>4. [step |-> "flush-consumed", owner |-> owner, taken |-> 0,
         token |-> journal.continuations[t], authority |-> authority,
         limits |-> limits] \in Activation
    BY <2>1, <2>3 DEF Activation, ActivationSteps
  <2>. QED BY <1>7, <2>2, <2>4, ActivationUpdate DEF Consume, AdvancementShape
<1>8. ASSUME NEW a \in Activations, StartEffects(a)
      PROVE  AdvancementShape'
  <2>1. TokenOf(a) \in Tokens
    BY <1>8 DEF StartEffects, PlacesInv, Placed, Named, Resuming, TokenOf, Token
  <2>2. effects' \in [Tokens -> Nat]
    BY <1>8, <2>1 DEF StartEffects, TokenOf, AdvancementShape
  <2>. QED BY <1>8, <2>2 DEF StartEffects, AdvancementShape, Activation, ActivationSteps
<1>9. ASSUME NEW t \in Tokens, Invalidate(t)
      PROVE  AdvancementShape'
  <2>1. journal.continuations[t] \in Token
    BY <1>9 DEF Invalidate, Invalidatable, NoToken, AdvancementShape, Journal
  <2>2. journal' \in Journal
    BY <1>9, <2>1, EndedType, JournalUpdate DEF Invalidate
  <2>. QED BY <1>9, <2>2 DEF Invalidate, AdvancementShape
<1>10. ASSUME NEW b \in Bindings, Change(b)
      PROVE  AdvancementShape'
  BY <1>10 DEF Change, AdvancementShape, Activation, ActivationSteps
<1>11. ASSUME NEW i \in Inputs, LoseInput(i)
      PROVE  AdvancementShape'
  BY <1>11 DEF LoseInput, AdvancementShape, Activation, ActivationSteps
<1>12. CASE ChangeOwner
  BY <1>12 DEF ChangeOwner, AdvancementShape, Activation, ActivationSteps
<1>13. CASE RestartRun
  BY <1>13 DEF RestartRun, AdvancementShape, Activation, ActivationSteps
<1>14. CASE Elapse
  BY <1>14 DEF Elapse, AdvancementShape, Activation, ActivationSteps
<1>15. CASE UNCHANGED advancementVars
  BY <1>15 DEF AdvancementShape, Activation, ActivationSteps
<1>. QED BY <1>1, <1>2, <1>3, <1>4, <1>5, <1>6, <1>7, <1>8, <1>9, <1>10, <1>11,
    <1>12, <1>13, <1>14, <1>15 DEF AdvancementNext

(* A token is not the value that stands for none.                           *)
LEMMA TokenIsThere == \A record \in Token : record # NoToken
  BY DEF Token, NoToken

(* An activation that resumes, or flushes a new token, holds the identity   *)
(* of a token.                                                              *)
LEMMA ResumesToken ==
  ASSUME PlacesInv, NEW a \in Activations,
         Resuming(a) \/ activation[a].step = "flush-token"
  PROVE  TokenOf(a) \in Tokens
  BY DEF PlacesInv, Placed, TokenOf, Token

(* Which fields of an activation a move leaves alone.                      *)
LEMMA Moved ==
  ASSUME AdvancementShape, NEW a \in Activations, NEW step, Move(a, step)
  PROVE  /\ activation'[a].step = step
         /\ activation'[a].taken = activation[a].taken
         /\ activation'[a].token = activation[a].token
         /\ activation'[a].authority = activation[a].authority
         /\ activation'[a].limits = activation[a].limits
         /\ \A b \in Activations : b # a => activation'[b] = activation[b]
  BY DEF Move, AdvancementShape, Activation

(* A milestone (checkpointMilestoneBeforeYield) appends its receipt,        *)
(* leaves the tokens, and lets its activation run on only below its         *)
(* limit.                                                                   *)
LEMMA MilestoneEffect ==
  ASSUME AdvancementShape, PlacesInv, NEW a \in Activations, NEW o \in Observations, Milestone(a, o)
  PROVE  /\ journal'.continuations = journal.continuations
         /\ journal'.milestones = Append(journal.milestones,
              evaluateStairStepMilestone(policy, o, journal.milestones))
         /\ \/ activation'[a].step = "flush-milestone"
            \/ activation'[a].step = "run" /\ activation'[a].taken < ActivationLimit
         /\ activation'[a].token = activation[a].token
         /\ activation'[a].authority = activation[a].authority
         /\ activation'[a].limits = activation[a].limits
         /\ \A b \in Activations : b # a => activation'[b] = activation[b]
<1>. DEFINE receipt == evaluateStairStepMilestone(policy, o, journal.milestones)
            taken == activation[a].taken + 1
            decision == decideStairStepAdvancement(policy, receipt, taken, ActivationLimit)
            step == IF decision = "continue" THEN "run" ELSE "flush-milestone"
<1>1. /\ journal' = [journal EXCEPT !.milestones = Append(@, receipt)]
      /\ activation' = [activation EXCEPT ![a].taken = taken, ![a].step = step]
  BY DEF Milestone
<1>2. taken \in Nat
  BY DEF AdvancementShape, Activation
<1>3. decision = "continue" => taken < ActivationLimit
  <2>1. receipt.nextDecision \in {"pause", "complete", "revise", "advance"}
    BY ReceiptType DEF Receipt
  <2>2. receipt.nextDecision \in {"pause", "complete"} => decision # "continue"
    BY DEF decideStairStepAdvancement
  <2>3. receipt.nextDecision \in {"revise", "advance"} /\ decision = "continue"
          => ~(taken >= ActivationLimit)
    BY DEF decideStairStepAdvancement
  <2>. QED BY <1>2, <2>1, <2>2, <2>3, AdvancementAssumption DEF AdvancementAssumption
<1>. HIDE DEF receipt, taken, decision
<1>4. /\ activation'[a].step = step /\ activation'[a].taken = taken
      /\ activation'[a].token = activation[a].token
      /\ activation'[a].authority = activation[a].authority
      /\ activation'[a].limits = activation[a].limits
      /\ \A b \in Activations : b # a => activation'[b] = activation[b]
  BY <1>1 DEF AdvancementShape, Activation
<1>5. /\ journal'.continuations = journal.continuations
      /\ journal'.milestones = Append(journal.milestones, receipt)
  BY <1>1 DEF AdvancementShape, Journal
<1>. QED BY <1>3, <1>4, <1>5 DEF receipt, step

(* Issuing writes one token that was not there, with the grants of the      *)
(* activation that yields.                                                  *)
LEMMA IssueEffect ==
  ASSUME AdvancementShape, PlacesInv, NEW a \in Activations, NEW t \in Tokens, Issue(a, t)
  PROVE  /\ activation[a].step = "issue" /\ activation'[a].step = "flush-token"
         /\ journal.continuations[t] = NoToken
         /\ activation'[a].token \in Token
         /\ activation'[a].token.continuationId = t
         /\ activation'[a].token.authority = activation[a].authority
         /\ activation'[a].token.limits = activation[a].limits
         /\ activation'[a].taken = activation[a].taken
         /\ activation'[a].authority = activation[a].authority
         /\ activation'[a].limits = activation[a].limits
         /\ \A b \in Activations : b # a => activation'[b] = activation[b]
         /\ journal'.milestones = journal.milestones
         /\ journal'.continuations[t] = activation'[a].token
         /\ \A u \in Tokens : u # t => journal'.continuations[u] = journal.continuations[u]
<1>. DEFINE record == issueContinuation(t, Current(activation[a].owner,
                        activation[a].authority, activation[a].limits),
                        Inputs, instant + Lifetime)
<1>1. /\ activation[a].step = "issue" /\ journal.continuations[t] = NoToken
      /\ journal' = [journal EXCEPT !.continuations[t] = record]
      /\ activation' = [activation EXCEPT ![a].step = "flush-token", ![a].token = record]
  BY AdvancementAssumption DEF AdvancementAssumption, Issue
<1>2. /\ record \in Token /\ record.continuationId = t
      /\ record.authority = activation[a].authority /\ record.limits = activation[a].limits
  BY IssuedType DEF issueContinuation, Current
<1>. HIDE DEF record
<1>3. /\ activation'[a].step = "flush-token" /\ activation'[a].token = record
      /\ activation'[a].taken = activation[a].taken
      /\ activation'[a].authority = activation[a].authority
      /\ activation'[a].limits = activation[a].limits
      /\ \A b \in Activations : b # a => activation'[b] = activation[b]
  BY <1>1 DEF AdvancementShape, Activation
<1>4. /\ journal'.milestones = journal.milestones
      /\ journal'.continuations[t] = record
      /\ \A u \in Tokens : u # t => journal'.continuations[u] = journal.continuations[u]
  BY <1>1 DEF AdvancementShape, Journal
<1>. QED BY <1>1, <1>2, <1>3, <1>4

(* What becomes of a token that is consumed or invalidated.                *)
LEMMA EndedToken ==
  ASSUME NEW record \in Token, NEW authority, NEW limits
  PROVE  LET consumed == consumeContinuation(record, Current(owner, authority, limits))
             invalidated == invalidateContinuation(record, instant)
         IN  /\ consumed.status = "consumed" /\ invalidated.status = "invalidated"
             /\ \A next \in {consumed, invalidated} :
                  /\ next.continuationId = record.continuationId
                  /\ next.authority = record.authority /\ next.limits = record.limits
  BY DEF consumeContinuation, invalidateContinuation, Token

(* Consuming (consumeBeforeEffects) takes an available token, ends it,      *)
(* and gives its grants to one activation that had not started.             *)
LEMMA ConsumeEffect ==
  ASSUME AdvancementShape, PlacesInv, NEW a \in Activations, NEW t \in Tokens,
         NEW authority \in SUBSET Grants, NEW limits \in 0..MaxLimit,
         Consume(a, t, authority, limits)
  PROVE  LET record == journal.continuations[t]
             next == journal'.continuations[t]
         IN  /\ activation[a] = NotStarted /\ activation[a].step = "idle"
             /\ record \in Token /\ record.status = "available"
             /\ record.continuationId = t
             /\ activation'[a].step = "flush-consumed" /\ activation'[a].token = record
             /\ activation'[a].taken = 0
             /\ activation'[a].authority \subseteq record.authority
             /\ activation'[a].limits <= record.limits
             /\ \A b \in Activations : b # a => activation'[b] = activation[b]
             /\ next \in Token /\ next.status = "consumed" /\ next.continuationId = t
             /\ next.authority = record.authority /\ next.limits = record.limits
             /\ journal'.milestones = journal.milestones
             /\ \A u \in Tokens : u # t => journal'.continuations[u] = journal.continuations[u]
<1>. DEFINE record == journal.continuations[t]
            next == consumeContinuation(record, Current(owner, authority, limits))
<1>1. /\ activation[a] = NotStarted /\ record # NoToken
      /\ validateContinuation(record, Current(owner, authority, limits)) = "resumable"
      /\ journal' = [journal EXCEPT !.continuations[t] = next]
      /\ activation' = [activation EXCEPT ![a] =
           [step |-> "flush-consumed", owner |-> owner, taken |-> 0, token |-> record,
            authority |-> authority, limits |-> limits]]
  BY DEF Consume, NextIdle
<1>2. record \in Token /\ record.continuationId = t
  BY <1>1 DEF AdvancementShape, Journal, PlacesInv, Placed, Named
<1>3. record.status = "available"
  BY <1>1, <1>2 DEF validateContinuation, Token
<1>4. authority \subseteq record.authority /\ ~(limits > record.limits)
  BY <1>1, <1>3 DEF validateContinuation, Current
<1>5. limits <= record.limits
  BY <1>2, <1>4, AdvancementAssumption DEF Token, AdvancementAssumption
<1>6. /\ next \in Token /\ next.status = "consumed" /\ next.continuationId = t
      /\ next.authority = record.authority /\ next.limits = record.limits
  BY <1>2, EndedType, EndedToken
<1>. HIDE DEF next
<1>7. /\ journal'.milestones = journal.milestones
      /\ journal'.continuations[t] = next
      /\ \A u \in Tokens : u # t => journal'.continuations[u] = journal.continuations[u]
  BY <1>1 DEF AdvancementShape, Journal
<1>8. /\ activation'[a].step = "flush-consumed" /\ activation'[a].token = record
      /\ activation'[a].taken = 0 /\ activation'[a].authority = authority
      /\ activation'[a].limits = limits
      /\ \A b \in Activations : b # a => activation'[b] = activation[b]
  BY <1>1 DEF AdvancementShape
<1>9. activation[a].step = "idle"
  BY <1>1 DEF NotStarted
<1>. QED BY <1>1, <1>2, <1>3, <1>4, <1>5, <1>6, <1>7, <1>8, <1>9

(* Invalidating ends one available token and changes nothing else.          *)
LEMMA InvalidateEffect ==
  ASSUME AdvancementShape, PlacesInv, NEW t \in Tokens, Invalidate(t)
  PROVE  LET record == journal.continuations[t]
             next == journal'.continuations[t]
         IN  /\ record \in Token /\ record.status = "available"
             /\ next \in Token /\ next.status = "invalidated"
             /\ next.continuationId = record.continuationId
             /\ next.authority = record.authority /\ next.limits = record.limits
             /\ journal'.milestones = journal.milestones
             /\ \A u \in Tokens : u # t => journal'.continuations[u] = journal.continuations[u]
<1>. DEFINE record == journal.continuations[t]
            next == invalidateContinuation(record, instant)
<1>1. /\ record.status = "available" /\ record # NoToken
      /\ journal' = [journal EXCEPT !.continuations[t] = next]
  BY DEF Invalidate, Invalidatable, NoToken
<1>2. record \in Token
  BY <1>1 DEF AdvancementShape, Journal
<1>3. /\ next \in Token /\ next.status = "invalidated"
      /\ next.continuationId = record.continuationId
      /\ next.authority = record.authority /\ next.limits = record.limits
  BY <1>2, EndedType, EndedToken
<1>. HIDE DEF next
<1>4. /\ journal'.milestones = journal.milestones
      /\ journal'.continuations[t] = next
      /\ \A u \in Tokens : u # t => journal'.continuations[u] = journal.continuations[u]
  BY <1>1 DEF AdvancementShape, Journal
<1>. QED BY <1>1, <1>2, <1>3, <1>4

(* A restart takes the journal back to what is stored and ends the          *)
(* activations that were under way.                                         *)
LEMMA RestartEffect ==
  ASSUME AdvancementShape, RestartRun
  PROVE  /\ journal' = stored /\ stored' = stored
         /\ \A a \in Activations :
              \/ activation'[a] = activation[a] /\ activation[a].step \in {"idle", "yielded"}
              \/ /\ activation'[a].step = "failed" /\ activation[a].step # "idle"
                 /\ activation'[a].authority = activation[a].authority
                 /\ activation'[a].limits = activation[a].limits
  BY DEF RestartRun, AdvancementShape, Activation

(* An activation that does not move stays in its place.                     *)
LEMMA PlacedStill ==
  ASSUME NEW a \in Activations, Placed(a), activation'[a] = activation[a]
  PROVE  Placed(a)'
  BY DEF Placed, Resuming

(* What the places say is kept.                                            *)
LEMMA PlacesStep ==
  ASSUME AdvancementShape, PlacesInv, [AdvancementNext]_advancementVars
  PROVE  PlacesInv'
<1>. USE DEF advancementVars
<1>1. ASSUME NEW a \in Activations, NEW authority \in SUBSET Grants, NEW limits \in 0..MaxLimit,
             Start(a, authority, limits)
      PROVE  PlacesInv'
  <2>1. /\ activation'[a].step = "run" /\ activation'[a].taken = 0
        /\ \A b \in Activations : b # a => activation'[b] = activation[b]
    BY <1>1 DEF Start, AdvancementShape
  <2>2. Placed(a)'
    BY <2>1, AdvancementAssumption DEF AdvancementAssumption, Placed, Resuming,
    NotStarted
  <2>3. \A b \in Activations : b # a => Placed(b)'
    BY <2>1, PlacedStill DEF PlacesInv
  <2>4. Named(journal)' /\ Named(stored)'
    BY <1>1 DEF Start, PlacesInv, Named
  <2>. QED BY <2>2, <2>3, <2>4 DEF PlacesInv
<1>2. ASSUME NEW a \in Activations, NEW o \in Observations, Milestone(a, o)
      PROVE  PlacesInv'
  <2>1. Placed(a)'
    <3>1. activation'[a] # NotStarted /\ activation'[a].step # "idle"
      BY <1>2, MilestoneEffect DEF NotStarted
    <3>2. activation'[a].step = "flush-token" \/ Resuming(a)' => activation'[a].token \in Token
      BY <1>2, MilestoneEffect DEF Resuming
    <3>3. activation'[a].step = "run" \/ Resuming(a)' => activation'[a].taken < ActivationLimit
      BY <1>2, MilestoneEffect,
    AdvancementAssumption DEF AdvancementAssumption, Resuming
    <3>. QED BY <3>1, <3>2, <3>3 DEF Placed
  <2>2. \A b \in Activations : b # a => Placed(b)'
    BY <1>2, MilestoneEffect, PlacedStill DEF PlacesInv
  <2>3. Named(journal)'
    BY <1>2, MilestoneEffect DEF PlacesInv, Named
  <2>4. Named(stored)'
    BY <1>2 DEF Milestone, PlacesInv, Named
  <2>. QED BY <2>1, <2>2, <2>3, <2>4 DEF PlacesInv
<1>3. ASSUME NEW a \in Activations, NEW o \in Observations, MilestoneRejected(a, o)
      PROVE  PlacesInv'
  <2>1. Placed(a)'
    BY <1>3, Moved
       DEF MilestoneRejected, PlacesInv, Placed, Resuming, NotStarted
  <2>2. \A b \in Activations : b # a => Placed(b)'
    BY <1>3, Moved, PlacedStill DEF MilestoneRejected, PlacesInv
  <2>3. Named(journal)' /\ Named(stored)'
    BY <1>3 DEF MilestoneRejected, PlacesInv, Named
  <2>. QED BY <2>1, <2>2, <2>3 DEF PlacesInv
<1>4. ASSUME NEW a \in Activations, NEW t \in Tokens, Issue(a, t)
      PROVE  PlacesInv'
  <2>1. Placed(a)'
    <3>1. activation'[a] # NotStarted /\ activation'[a].step # "idle"
      BY <1>4, IssueEffect DEF NotStarted
    <3>2. activation'[a].step = "flush-token" \/ Resuming(a)' => activation'[a].token \in Token
      BY <1>4, IssueEffect DEF Resuming
    <3>3. activation'[a].step = "run" \/ Resuming(a)' => activation'[a].taken < ActivationLimit
      BY <1>4, IssueEffect, AdvancementAssumption DEF AdvancementAssumption,
    Resuming
    <3>. QED BY <3>1, <3>2, <3>3 DEF Placed
  <2>2. \A b \in Activations : b # a => Placed(b)'
    BY <1>4, IssueEffect, PlacedStill DEF PlacesInv
  <2>3. Named(journal)'
    BY <1>4, IssueEffect DEF PlacesInv, Named
  <2>4. Named(stored)'
    BY <1>4 DEF Issue, PlacesInv, Named
  <2>. QED BY <2>1, <2>2, <2>3, <2>4 DEF PlacesInv
<1>5. ASSUME NEW a \in Activations, FlushYield(a)
      PROVE  PlacesInv'
  <2>1. Placed(a)'
    BY <1>5, Moved
       DEF FlushYield, PlacesInv, Placed, Resuming, NotStarted, AfterYieldFlush
  <2>2. \A b \in Activations : b # a => Placed(b)'
    BY <1>5, Moved, PlacedStill DEF FlushYield, PlacesInv
  <2>3. Named(journal)' /\ Named(stored)'
    BY <1>5 DEF FlushYield, PlacesInv, Named
  <2>. QED BY <2>1, <2>2, <2>3 DEF PlacesInv
<1>6. ASSUME NEW a \in Activations, YieldFlushUnavailable(a)
      PROVE  PlacesInv'
  <2>1. Placed(a)'
    BY <1>6, Moved
       DEF YieldFlushUnavailable, PlacesInv, Placed, Resuming, NotStarted
  <2>2. \A b \in Activations : b # a => Placed(b)'
    BY <1>6, Moved, PlacedStill DEF YieldFlushUnavailable, PlacesInv
  <2>3. Named(journal)' /\ Named(stored)'
    BY <1>6 DEF YieldFlushUnavailable, PlacesInv, Named
  <2>. QED BY <2>1, <2>2, <2>3 DEF PlacesInv
<1>7. ASSUME NEW a \in Activations, NEW t \in Tokens, NEW authority \in SUBSET Grants,
             NEW limits \in 0..MaxLimit, Consume(a, t, authority, limits)
      PROVE  PlacesInv'
  <2>1. /\ activation'[a].step = "flush-consumed" /\ activation'[a].taken = 0
        /\ activation'[a].token = journal.continuations[t]
        /\ journal.continuations[t] \in Token
        /\ journal'.continuations[t].continuationId = t
        /\ \A b \in Activations : b # a => activation'[b] = activation[b]
        /\ \A u \in Tokens : u # t => journal'.continuations[u] = journal.continuations[u]
    BY ZenonT(40), <1>7, ConsumeEffect
  <2>2. Placed(a)'
    BY <2>1, AdvancementAssumption DEF AdvancementAssumption, Placed, Resuming,
    NotStarted
  <2>3. \A b \in Activations : b # a => Placed(b)'
    BY <2>1, PlacedStill DEF PlacesInv
  <2>4. Named(journal)'
    BY <2>1 DEF PlacesInv, Named
  <2>5. Named(stored)'
    BY <1>7 DEF Consume, PlacesInv, Named
  <2>. QED BY <2>2, <2>3, <2>4, <2>5 DEF PlacesInv
<1>8. ASSUME NEW a \in Activations, StartEffects(a)
      PROVE  PlacesInv'
  <2>1. Placed(a)'
    BY <1>8, Moved
       DEF StartEffects, PlacesInv, Placed, Resuming, NotStarted
  <2>2. \A b \in Activations : b # a => Placed(b)'
    BY <1>8, Moved, PlacedStill DEF StartEffects, PlacesInv
  <2>3. Named(journal)' /\ Named(stored)'
    BY <1>8 DEF StartEffects, PlacesInv, Named
  <2>. QED BY <2>1, <2>2, <2>3 DEF PlacesInv
<1>9. ASSUME NEW t \in Tokens, Invalidate(t)
      PROVE  PlacesInv'
  <2>1. Named(journal)'
    BY <1>9, InvalidateEffect DEF PlacesInv, Named, NoToken, Token
  <2>2. Named(stored)'
    BY <1>9 DEF Invalidate, PlacesInv, Named
  <2>3. \A b \in Activations : Placed(b)'
    BY <1>9, PlacedStill DEF Invalidate, PlacesInv
  <2>. QED BY <2>1, <2>2, <2>3 DEF PlacesInv
<1>10. ASSUME NEW b \in Bindings, Change(b)
      PROVE  PlacesInv'
  BY <1>10 DEF Change, PlacesInv, Placed, Named, Resuming
<1>11. ASSUME NEW i \in Inputs, LoseInput(i)
      PROVE  PlacesInv'
  BY <1>11 DEF LoseInput, PlacesInv, Placed, Named, Resuming
<1>12. CASE ChangeOwner
  BY <1>12 DEF ChangeOwner, PlacesInv, Placed, Named, Resuming
<1>13. CASE RestartRun
  <2>1. ASSUME NEW b \in Activations
        PROVE  Placed(b)'
    <3>1. CASE activation'[b] = activation[b]
      BY <3>1, PlacedStill DEF PlacesInv
    <3>2. CASE activation'[b].step = "failed"
      BY <3>2 DEF Placed, Resuming, NotStarted
    <3>. QED BY <1>13, <3>1, <3>2, RestartEffect
  <2>2. Named(journal)' /\ Named(stored)'
    BY <1>13, RestartEffect DEF PlacesInv, Named
  <2>. QED BY <2>1, <2>2 DEF PlacesInv
<1>14. CASE Elapse
  BY <1>14 DEF Elapse, PlacesInv, Placed, Named, Resuming
<1>15. CASE UNCHANGED advancementVars
  BY <1>15 DEF PlacesInv, Placed, Named, Resuming
<1>. QED BY <1>1, <1>2, <1>3, <1>4, <1>5, <1>6, <1>7, <1>8, <1>9, <1>10, <1>11,
    <1>12, <1>13, <1>14, <1>15 DEF AdvancementNext

(* What the caller is told of stays.                                       *)
LEMMA ReportedStep ==
  ASSUME AdvancementShape, PlacesInv, ReportedInv, [AdvancementNext]_advancementVars
  PROVE  ReportedInv'
<1>. USE DEF advancementVars
<1>1. ASSUME NEW a \in Activations, NEW authority \in SUBSET Grants, NEW limits \in 0..MaxLimit,
             Start(a, authority, limits)
      PROVE  ReportedInv'
  <2>1. \A b \in Activations : activation'[b].step = "flush-token" =>
          b # a /\ activation'[b] = activation[b]
    BY <1>1 DEF Start, AdvancementShape
  <2>. QED BY <1>1, <2>1 DEF Start, ReportedInv, TokenOf
<1>2. ASSUME NEW a \in Activations, NEW o \in Observations, Milestone(a, o)
      PROVE  ReportedInv'
  <2>1. \A b \in Activations : activation'[b].step = "flush-token" =>
          b # a /\ activation'[b] = activation[b]
    BY <1>2, MilestoneEffect
  <2>2. journal'.continuations = journal.continuations
    BY <1>2, MilestoneEffect
  <2>. QED BY ZenonT(40), <1>2, <2>1, <2>2 DEF Milestone, ReportedInv, TokenOf
<1>3. ASSUME NEW a \in Activations, NEW o \in Observations, MilestoneRejected(a, o)
      PROVE  ReportedInv'
  <2>1. \A b \in Activations : activation'[b].step = "flush-token" =>
          b # a /\ activation'[b] = activation[b]
    BY <1>3, Moved DEF MilestoneRejected
  <2>. QED BY <1>3, <2>1 DEF MilestoneRejected, ReportedInv, TokenOf
<1>4. ASSUME NEW a \in Activations, NEW t \in Tokens, Issue(a, t)
      PROVE  ReportedInv'
  <2>1. /\ journal'.continuations[t] # NoToken /\ TokenOf(a)' = t
        /\ \A b \in Activations : b # a => activation'[b] = activation[b]
        /\ \A u \in Tokens : u # t => journal'.continuations[u] = journal.continuations[u]
    BY <1>4, IssueEffect DEF TokenOf, NoToken, Token
  <2>2. \A b \in Activations : activation[b].step = "flush-token" => TokenOf(b) \in Tokens
    BY ResumesToken
  <2>. QED BY <1>4, <2>1, <2>2 DEF Issue, AdvancementShape, ReportedInv, TokenOf
<1>5. ASSUME NEW a \in Activations, FlushYield(a)
      PROVE  ReportedInv'
  <2>1. \A b \in Activations : activation'[b].step = "flush-token" =>
          b # a /\ activation'[b] = activation[b]
    BY <1>5, Moved DEF FlushYield, AfterYieldFlush
  <2>2. \A u \in reported'.tokens : journal.continuations[u] # NoToken
    BY <1>5 DEF FlushYield, Tell, ReportedInv, TokenOf
  <2>. QED BY <1>5, <2>1, <2>2 DEF FlushYield, ReportedInv, TokenOf
<1>6. ASSUME NEW a \in Activations, YieldFlushUnavailable(a)
      PROVE  ReportedInv'
  <2>1. \A b \in Activations : activation'[b].step = "flush-token" =>
          b # a /\ activation'[b] = activation[b]
    BY <1>6, Moved DEF YieldFlushUnavailable
  <2>. QED BY <1>6, <2>1 DEF YieldFlushUnavailable, ReportedInv, TokenOf
<1>7. ASSUME NEW a \in Activations, NEW t \in Tokens, NEW authority \in SUBSET Grants,
             NEW limits \in 0..MaxLimit, Consume(a, t, authority, limits)
      PROVE  ReportedInv'
  <2>1. /\ journal'.continuations[t] # NoToken
        /\ activation'[a].step = "flush-consumed"
        /\ \A b \in Activations : b # a => activation'[b] = activation[b]
        /\ \A u \in Tokens : u # t => journal'.continuations[u] = journal.continuations[u]
    BY SMTT(30), <1>7, ConsumeEffect, TokenIsThere
  <2>2. \A b \in Activations : activation[b].step = "flush-token" => TokenOf(b) \in Tokens
    BY ResumesToken
  <2>. QED BY <1>7, <2>1, <2>2 DEF Consume, AdvancementShape, ReportedInv, TokenOf
<1>8. ASSUME NEW a \in Activations, StartEffects(a)
      PROVE  ReportedInv'
  <2>1. \A b \in Activations : activation'[b].step = "flush-token" =>
          b # a /\ activation'[b] = activation[b]
    BY <1>8, Moved DEF StartEffects
  <2>. QED BY <1>8, <2>1 DEF StartEffects, ReportedInv, TokenOf
<1>9. ASSUME NEW t \in Tokens, Invalidate(t)
      PROVE  ReportedInv'
  <2>1. /\ journal'.continuations[t] # NoToken
        /\ \A u \in Tokens : u # t => journal'.continuations[u] = journal.continuations[u]
    BY <1>9, InvalidateEffect DEF NoToken, Token
  <2>2. \A b \in Activations : activation[b].step = "flush-token" => TokenOf(b) \in Tokens
    BY ResumesToken
  <2>. QED BY <1>9, <2>1, <2>2 DEF Invalidate, AdvancementShape, ReportedInv, TokenOf
<1>10. ASSUME NEW b \in Bindings, Change(b)
      PROVE  ReportedInv'
  BY <1>10 DEF Change, ReportedInv, TokenOf
<1>11. ASSUME NEW i \in Inputs, LoseInput(i)
      PROVE  ReportedInv'
  BY <1>11 DEF LoseInput, ReportedInv, TokenOf
<1>12. CASE ChangeOwner
  BY <1>12 DEF ChangeOwner, ReportedInv, TokenOf
<1>13. CASE RestartRun
  <2>1. \A b \in Activations : activation'[b].step # "flush-token"
    BY <1>13, RestartEffect
  <2>. QED BY <1>13, <2>1, RestartEffect DEF RestartRun, ReportedInv
<1>14. CASE Elapse
  BY <1>14 DEF Elapse, ReportedInv, TokenOf
<1>15. CASE UNCHANGED advancementVars
  BY <1>15 DEF ReportedInv, TokenOf
<1>. QED BY <1>1, <1>2, <1>3, <1>4, <1>5, <1>6, <1>7, <1>8, <1>9, <1>10, <1>11,
    <1>12, <1>13, <1>14, <1>15 DEF AdvancementNext

(* A step that begins no resumption and unmarks no consumed token.         *)
LEMMA ConsumedTransfer ==
  ASSUME ConsumedInv, effects' = effects,
         \A t \in Tokens : effects[t] = 1 =>
           /\ journal'.continuations[t].status = "consumed"
           /\ stored'.continuations[t].status = "consumed",
         \A a \in Activations : Resuming(a)' =>
           /\ Resuming(a) /\ activation'[a].token = activation[a].token
           /\ journal'.continuations[TokenOf(a)].status = "consumed"
           /\ activation'[a].step = "effects" =>
                stored'.continuations[TokenOf(a)].status = "consumed"
  PROVE  ConsumedInv'
<1>1. \A a \in Activations : Resuming(a)' => Resuming(a) /\ TokenOf(a)' = TokenOf(a)
  BY DEF TokenOf
<1>2. \A t \in Tokens :
        /\ effects'[t] <= 1
        /\ effects'[t] = 1 => /\ journal'.continuations[t].status = "consumed"
                              /\ stored'.continuations[t].status = "consumed"
  BY DEF ConsumedInv
<1>3. \A a \in Activations : Resuming(a)' =>
        /\ effects'[TokenOf(a)'] = 0
        /\ journal'.continuations[TokenOf(a)'].status = "consumed"
        /\ activation'[a].step = "effects" =>
             stored'.continuations[TokenOf(a)'].status = "consumed"
  BY <1>1 DEF ConsumedInv
<1>4. \A a, b \in Activations :
        Resuming(a)' /\ Resuming(b)' /\ a # b => TokenOf(a)' # TokenOf(b)'
  BY <1>1 DEF ConsumedInv
<1>. QED BY <1>2, <1>3, <1>4 DEF ConsumedInv

(* Milestones are appended, flushed and read back, and never dropped.      *)
LEMMA MilestonesStep ==
  ASSUME AdvancementShape, MilestonesInv, [AdvancementNext]_advancementVars
  PROVE  MilestonesInv'
<1>. USE DEF advancementVars, MilestonesInv
<1>0. journal.milestones \in Seq(Receipt)
  BY DEF AdvancementShape, Journal
<1>1. ASSUME NEW a \in Activations, NEW authority \in SUBSET Grants, NEW limits \in 0..MaxLimit,
             Start(a, authority, limits)
      PROVE  MilestonesInv'
  BY <1>1 DEF Start
<1>2. ASSUME NEW a \in Activations, NEW o \in Observations, Milestone(a, o)
      PROVE  MilestonesInv'
  <2>. DEFINE receipt == evaluateStairStepMilestone(policy, o, journal.milestones)
  <2>1. journal'.milestones = Append(journal.milestones, receipt)
    BY <1>2 DEF Milestone, AdvancementShape, Journal
  <2>. HIDE DEF receipt
  <2>2. ToSet(journal.milestones) \subseteq ToSet(journal'.milestones)
    BY <1>0, <2>1 DEF ToSet
  <2>. QED BY <1>2, <2>2 DEF Milestone
<1>3. ASSUME NEW a \in Activations, NEW o \in Observations, MilestoneRejected(a, o)
      PROVE  MilestonesInv'
  BY <1>3 DEF MilestoneRejected
<1>4. ASSUME NEW a \in Activations, NEW t \in Tokens, Issue(a, t)
      PROVE  MilestonesInv'
  <2>1. journal'.milestones = journal.milestones
    BY <1>4 DEF Issue, AdvancementShape, Journal
  <2>. QED BY <1>4, <2>1 DEF Issue
<1>5. ASSUME NEW a \in Activations, FlushYield(a)
      PROVE  MilestonesInv'
  BY <1>5 DEF FlushYield, Tell
<1>6. ASSUME NEW a \in Activations, YieldFlushUnavailable(a)
      PROVE  MilestonesInv'
  BY <1>6 DEF YieldFlushUnavailable
<1>7. ASSUME NEW a \in Activations, NEW t \in Tokens, NEW authority \in SUBSET Grants,
             NEW limits \in 0..MaxLimit, Consume(a, t, authority, limits)
      PROVE  MilestonesInv'
  <2>1. journal'.milestones = journal.milestones
    BY <1>7 DEF Consume, AdvancementShape, Journal
  <2>. QED BY <1>7, <2>1 DEF Consume
<1>8. ASSUME NEW a \in Activations, StartEffects(a)
      PROVE  MilestonesInv'
  BY <1>8 DEF StartEffects
<1>9. ASSUME NEW t \in Tokens, Invalidate(t)
      PROVE  MilestonesInv'
  <2>1. journal'.milestones = journal.milestones
    BY <1>9 DEF Invalidate, AdvancementShape, Journal
  <2>. QED BY <1>9, <2>1 DEF Invalidate
<1>10. ASSUME NEW b \in Bindings, Change(b)
      PROVE  MilestonesInv'
  BY <1>10 DEF Change
<1>11. ASSUME NEW i \in Inputs, LoseInput(i)
      PROVE  MilestonesInv'
  BY <1>11 DEF LoseInput
<1>12. CASE ChangeOwner
  BY <1>12 DEF ChangeOwner
<1>13. CASE RestartRun
  BY <1>13 DEF RestartRun
<1>14. CASE Elapse
  BY <1>14 DEF Elapse
<1>15. CASE UNCHANGED advancementVars
  BY <1>15
<1>. QED BY <1>1, <1>2, <1>3, <1>4, <1>5, <1>6, <1>7, <1>8, <1>9, <1>10, <1>11,
    <1>12, <1>13, <1>14, <1>15 DEF AdvancementNext

(* A token is consumed before its effects start, by one activation.        *)
LEMMA ConsumedStep ==
  ASSUME AdvancementShape, PlacesInv, ReportedInv, ConsumedInv, [AdvancementNext]_advancementVars
  PROVE  ConsumedInv'
<1>. USE DEF advancementVars
<1>1. ASSUME NEW a \in Activations, NEW authority \in SUBSET Grants, NEW limits \in 0..MaxLimit,
             Start(a, authority, limits)
      PROVE  ConsumedInv'
  <2>1. \A b \in Activations : Resuming(b)' => activation'[b] = activation[b]
    BY <1>1 DEF Start, AdvancementShape, Resuming
  <2>2. \A b \in Activations : Resuming(b)' => Resuming(b)
    BY <2>1 DEF Resuming
  <2>. QED BY <1>1, <2>1, <2>2, ConsumedTransfer DEF Start, ConsumedInv,
    Resuming
<1>2. ASSUME NEW a \in Activations, NEW o \in Observations, Milestone(a, o)
      PROVE  ConsumedInv'
  <2>1. \A b \in Activations : Resuming(b)' => activation'[b] = activation[b]
    BY <1>2, MilestoneEffect DEF Resuming
  <2>2. \A b \in Activations : Resuming(b)' => Resuming(b)
    BY <2>1 DEF Resuming
  <2>3. journal'.continuations = journal.continuations
    BY <1>2, MilestoneEffect
  <2>4. stored' = stored /\ effects' = effects
    BY <1>2 DEF Milestone
  <2>. QED BY <2>1, <2>2, <2>3, <2>4, ConsumedTransfer DEF ConsumedInv
<1>3. ASSUME NEW a \in Activations, NEW o \in Observations, MilestoneRejected(a, o)
      PROVE  ConsumedInv'
  <2>1. \A b \in Activations : Resuming(b)' => activation'[b] = activation[b]
    BY <1>3, Moved DEF MilestoneRejected, Resuming
  <2>2. \A b \in Activations : Resuming(b)' => Resuming(b)
    BY <2>1 DEF Resuming
  <2>. QED BY <1>3, <2>1, <2>2, ConsumedTransfer DEF MilestoneRejected,
    ConsumedInv, Resuming
<1>4. ASSUME NEW a \in Activations, NEW t \in Tokens, Issue(a, t)
      PROVE  ConsumedInv'
  <2>1. /\ journal.continuations[t].status # "consumed"
        /\ \A u \in Tokens : u # t => journal'.continuations[u] = journal.continuations[u]
    BY <1>4, IssueEffect DEF NoToken
  <2>2. \A b \in Activations : Resuming(b)' => activation'[b] = activation[b]
    BY <1>4, IssueEffect DEF Resuming
  <2>3. \A b \in Activations : Resuming(b)' => Resuming(b) /\ TokenOf(b) \in Tokens
    BY <2>2, ResumesToken DEF Resuming
  <2>4. stored' = stored /\ effects' = effects
    BY <1>4 DEF Issue
  <2>. QED BY <2>1, <2>2, <2>3, <2>4, ConsumedTransfer DEF ConsumedInv
<1>5. ASSUME NEW a \in Activations, FlushYield(a)
      PROVE  ConsumedInv'
  <2>1. \A b \in Activations : Resuming(b)' =>
          Resuming(b) /\ activation'[b].token = activation[b].token
    BY <1>5, Moved DEF FlushYield, AfterYieldFlush, Resuming
  <2>2. journal' = journal /\ stored' = journal /\ effects' = effects
    BY <1>5 DEF FlushYield
  <2>. QED BY <2>1, <2>2, ConsumedTransfer DEF ConsumedInv
<1>6. ASSUME NEW a \in Activations, YieldFlushUnavailable(a)
      PROVE  ConsumedInv'
  <2>1. \A b \in Activations : Resuming(b)' => activation'[b] = activation[b]
    BY <1>6, Moved DEF YieldFlushUnavailable, Resuming
  <2>2. \A b \in Activations : Resuming(b)' => Resuming(b)
    BY <2>1 DEF Resuming
  <2>. QED BY <1>6, <2>1, <2>2, ConsumedTransfer DEF YieldFlushUnavailable,
    ConsumedInv, Resuming
<1>7. ASSUME NEW a \in Activations, NEW t \in Tokens, NEW authority \in SUBSET Grants,
             NEW limits \in 0..MaxLimit, Consume(a, t, authority, limits)
      PROVE  ConsumedInv'
  <2>. DEFINE record == journal.continuations[t]
  <2>1. /\ record.status = "available" /\ record.continuationId = t
        /\ activation[a].step = "idle" /\ activation'[a].step = "flush-consumed"
        /\ activation'[a].token = record
        /\ journal'.continuations[t].status = "consumed"
        /\ \A b \in Activations : b # a => activation'[b] = activation[b]
        /\ \A u \in Tokens : u # t => journal'.continuations[u] = journal.continuations[u]
    BY ZenonT(40), <1>7, ConsumeEffect
  <2>2. stored' = stored /\ effects' = effects
    BY <1>7 DEF Consume
  <2>3. effects[t] = 0
    BY <2>1 DEF AdvancementShape, ConsumedInv
  <2>4. TokenOf(a)' = t /\ ~Resuming(a) /\ Resuming(a)'
    BY <2>1 DEF TokenOf, Resuming
  <2>5. \A b \in Activations : Resuming(b)' /\ b # a =>
          /\ Resuming(b) /\ TokenOf(b)' = TokenOf(b) /\ activation'[b] = activation[b]
          /\ TokenOf(b) \in Tokens /\ TokenOf(b) # t
    BY <2>1, ResumesToken DEF Resuming, TokenOf, ConsumedInv
  <2>6. \A u \in Tokens :
          /\ effects'[u] <= 1
          /\ effects'[u] = 1 => /\ journal'.continuations[u].status = "consumed"
                                /\ stored'.continuations[u].status = "consumed"
    BY <2>1, <2>2 DEF ConsumedInv
  <2>7. \A b \in Activations : Resuming(b)' =>
          /\ effects'[TokenOf(b)'] = 0
          /\ journal'.continuations[TokenOf(b)'].status = "consumed"
          /\ activation'[b].step = "effects" =>
               stored'.continuations[TokenOf(b)'].status = "consumed"
    BY <2>1, <2>2, <2>3, <2>4, <2>5 DEF ConsumedInv
  <2>8. \A b, c \in Activations :
          Resuming(b)' /\ Resuming(c)' /\ b # c => TokenOf(b)' # TokenOf(c)'
    BY <2>4, <2>5 DEF ConsumedInv
  <2>. QED BY <2>6, <2>7, <2>8 DEF ConsumedInv
<1>8. ASSUME NEW a \in Activations, StartEffects(a)
      PROVE  ConsumedInv'
  <2>. DEFINE t == TokenOf(a)
  <2>1. activation[a].step = "effects" /\ Resuming(a) /\ t \in Tokens
    BY <1>8, ResumesToken DEF StartEffects, Resuming
  <2>2. /\ ~Resuming(a)'
        /\ \A b \in Activations : b # a => activation'[b] = activation[b]
    BY <1>8, Moved DEF StartEffects, Resuming
  <2>3. /\ effects'[t] = effects[t] + 1
        /\ \A u \in Tokens : u # t => effects'[u] = effects[u]
    BY <1>8, <2>1 DEF StartEffects, TokenOf, AdvancementShape
  <2>4. journal' = journal /\ stored' = stored
    BY <1>8 DEF StartEffects
  <2>5. effects'[t] = 1 /\ journal.continuations[t].status = "consumed"
          /\ stored.continuations[t].status = "consumed"
    BY <2>1, <2>3 DEF ConsumedInv
  <2>6. \A b \in Activations : Resuming(b)' =>
          /\ Resuming(b) /\ TokenOf(b)' = TokenOf(b) /\ activation'[b] = activation[b]
          /\ TokenOf(b) \in Tokens /\ TokenOf(b) # t
    BY <2>1, <2>2, ResumesToken DEF Resuming, TokenOf, ConsumedInv
  <2>7. \A u \in Tokens :
          /\ effects'[u] <= 1
          /\ effects'[u] = 1 => /\ journal'.continuations[u].status = "consumed"
                                /\ stored'.continuations[u].status = "consumed"
    BY <2>3, <2>4, <2>5 DEF ConsumedInv
  <2>8. \A b \in Activations : Resuming(b)' =>
          /\ effects'[TokenOf(b)'] = 0
          /\ journal'.continuations[TokenOf(b)'].status = "consumed"
          /\ activation'[b].step = "effects" =>
               stored'.continuations[TokenOf(b)'].status = "consumed"
    BY <2>3, <2>4, <2>6 DEF ConsumedInv
  <2>9. \A b, c \in Activations :
          Resuming(b)' /\ Resuming(c)' /\ b # c => TokenOf(b)' # TokenOf(c)'
    BY <2>6 DEF ConsumedInv
  <2>. QED BY <2>7, <2>8, <2>9 DEF ConsumedInv
<1>9. ASSUME NEW t \in Tokens, Invalidate(t)
      PROVE  ConsumedInv'
  <2>1. /\ journal.continuations[t].status # "consumed"
        /\ \A u \in Tokens : u # t => journal'.continuations[u] = journal.continuations[u]
    BY <1>9, InvalidateEffect
  <2>2. \A b \in Activations : Resuming(b)' => activation'[b] = activation[b]
    BY <1>9 DEF Invalidate
  <2>3. \A b \in Activations : Resuming(b)' => Resuming(b) /\ TokenOf(b) \in Tokens
    BY <2>2, ResumesToken DEF Resuming
  <2>4. stored' = stored /\ effects' = effects
    BY <1>9 DEF Invalidate
  <2>. QED BY <2>1, <2>2, <2>3, <2>4, ConsumedTransfer DEF ConsumedInv
<1>10. ASSUME NEW b \in Bindings, Change(b)
      PROVE  ConsumedInv'
  BY <1>10 DEF Change, ConsumedInv, Resuming, TokenOf
<1>11. ASSUME NEW i \in Inputs, LoseInput(i)
      PROVE  ConsumedInv'
  BY <1>11 DEF LoseInput, ConsumedInv, Resuming, TokenOf
<1>12. CASE ChangeOwner
  BY <1>12 DEF ChangeOwner, ConsumedInv, Resuming, TokenOf
<1>13. CASE RestartRun
  <2>1. \A b \in Activations : ~Resuming(b)'
    BY <1>13, RestartEffect DEF Resuming
  <2>. QED BY <1>13, <2>1, RestartEffect, ConsumedTransfer DEF RestartRun,
    ConsumedInv
<1>14. CASE Elapse
  BY <1>14 DEF Elapse, ConsumedInv, Resuming, TokenOf
<1>15. CASE UNCHANGED advancementVars
  BY <1>15 DEF ConsumedInv, Resuming, TokenOf
<1>. QED BY <1>1, <1>2, <1>3, <1>4, <1>5, <1>6, <1>7, <1>8, <1>9, <1>10, <1>11,
    <1>12, <1>13, <1>14, <1>15 DEF AdvancementNext

(* What an activation or a token has comes from one that was there.        *)
GrantsFrom(state, next) ==
  \A t \in Tokens : next.continuations[t] # NoToken =>
    /\ state.continuations[t] # NoToken
    /\ next.continuations[t].authority = state.continuations[t].authority
    /\ next.continuations[t].limits = state.continuations[t].limits

(* The grants of a started activation are those of the token it came        *)
(* from, provided that the step starts activations from tokens only.        *)
LEMMA GrantTransfer ==
  ASSUME AdvancementShape, GrantInv,
         \A a \in Activations : activation[a] # NotStarted =>
           /\ activation'[a] # NotStarted
           /\ activation'[a].authority = activation[a].authority
           /\ activation'[a].limits = activation[a].limits,
         \A a \in Activations : activation'[a] # NotStarted =>
           \/ activation[a] # NotStarted
           \/ \E t \in Tokens :
                /\ journal.continuations[t] # NoToken
                /\ activation'[a].authority \subseteq journal.continuations[t].authority
                /\ activation'[a].limits <= journal.continuations[t].limits
                /\ activation'[a].limits \in Nat,
         GrantsFrom(journal, journal') \/ GrantsFrom(stored, journal'),
         GrantsFrom(journal, stored') \/ GrantsFrom(stored, stored')
  PROVE  GrantInv'
<1>. SUFFICES ASSUME NEW first \in Activations, IsFirst(first)
              PROVE  /\ \A a \in Activations :
                          activation'[a] # NotStarted => Within(activation[a], first)'
                     /\ \A t \in Tokens : journal'.continuations[t] # NoToken =>
                          Within(journal.continuations[t], first)'
                     /\ \A t \in Tokens : stored'.continuations[t] # NoToken =>
                          Within(stored.continuations[t], first)'
  BY DEF GrantInv
<1>1. \A a \in Activations : activation[a].limits \in Nat
  BY AdvancementAssumption DEF AdvancementAssumption, AdvancementShape, Activation
<1>2. \A t \in Tokens :
        journal.continuations[t] # NoToken => journal.continuations[t].limits \in Nat
  BY AdvancementAssumption DEF AdvancementAssumption, AdvancementShape, Journal, Token
<1>3. /\ \A a \in Activations : activation[a] # NotStarted => Within(activation[a], first)
      /\ \A t \in Tokens : journal.continuations[t] # NoToken =>
           Within(journal.continuations[t], first)
      /\ \A t \in Tokens : stored.continuations[t] # NoToken =>
           Within(stored.continuations[t], first)
  BY DEF GrantInv
<1>4. ASSUME NEW a \in Activations, activation'[a] # NotStarted
      PROVE  Within(activation[a], first)'
  <2>1. CASE activation[a] # NotStarted
    BY <1>3, <2>1 DEF Within
  <2>2. CASE \E t \in Tokens :
               /\ journal.continuations[t] # NoToken
               /\ activation'[a].authority \subseteq journal.continuations[t].authority
               /\ activation'[a].limits <= journal.continuations[t].limits
               /\ activation'[a].limits \in Nat
    BY <1>1, <1>2, <1>3, <2>2 DEF Within
  <2>. QED BY <1>4, <2>1, <2>2
<1>5. \A t \in Tokens : journal'.continuations[t] # NoToken =>
        Within(journal.continuations[t], first)'
  BY <1>3 DEF GrantsFrom, Within
<1>6. \A t \in Tokens : stored'.continuations[t] # NoToken =>
        Within(stored.continuations[t], first)'
  BY <1>3 DEF GrantsFrom, Within
<1>. QED BY <1>4, <1>5, <1>6

(* No one gets more than the first activation had.                         *)
LEMMA GrantStep ==
  ASSUME AdvancementShape, PlacesInv, GrantInv, [AdvancementNext]_advancementVars
  PROVE  GrantInv'
<1>. USE DEF advancementVars
<1>1. ASSUME NEW a \in Activations, NEW authority \in SUBSET Grants, NEW limits \in 0..MaxLimit,
             Start(a, authority, limits)
      PROVE  GrantInv'
  <2>1. \A b \in Activations : a <= b
    BY <1>1, AdvancementAssumption DEF AdvancementAssumption, Start, NextIdle
  <2>2. \A t \in Tokens : journal.continuations[t] = NoToken /\ stored.continuations[t] = NoToken
    BY <1>1, <2>1 DEF Start, GrantInv, Within, IsFirst
  <2>3. /\ activation'[a].authority = authority /\ activation'[a].limits = limits
        /\ activation'[a] # NotStarted
        /\ \A b \in Activations : b # a => activation'[b] = NotStarted
    BY <1>1 DEF Start, AdvancementShape, NotStarted
  <2>4. \A first \in Activations : IsFirst(first) => first = a
    BY <2>1, AdvancementAssumption DEF AdvancementAssumption, IsFirst
  <2>5. limits <= limits
    BY AdvancementAssumption DEF AdvancementAssumption
  <2>. QED BY <1>1, <2>2, <2>3, <2>4, <2>5 DEF Start, GrantInv, Within
<1>2. ASSUME NEW a \in Activations, NEW o \in Observations, Milestone(a, o)
      PROVE  GrantInv'
  <2>1. \A b \in Activations :
          /\ activation'[b] = NotStarted <=> activation[b] = NotStarted
          /\ activation'[b].authority = activation[b].authority
          /\ activation'[b].limits = activation[b].limits
    <3>1. activation[a].step = "run"
      BY <1>2 DEF Milestone
    <3>2. activation[a] # NotStarted /\ activation'[a] # NotStarted
      BY <1>2, <3>1, MilestoneEffect DEF NotStarted
    <3>. QED BY <1>2, <3>2, MilestoneEffect
  <2>2. journal'.continuations = journal.continuations /\ stored' = stored
    BY <1>2, MilestoneEffect DEF Milestone
  <2>. QED BY <2>1, <2>2, GrantTransfer DEF GrantsFrom
<1>3. ASSUME NEW a \in Activations, NEW o \in Observations, MilestoneRejected(a, o)
      PROVE  GrantInv'
  <2>1. \A b \in Activations :
          /\ activation'[b] = NotStarted <=> activation[b] = NotStarted
          /\ activation'[b].authority = activation[b].authority
          /\ activation'[b].limits = activation[b].limits
    <3>1. activation[a] # NotStarted /\ activation'[a] # NotStarted
      BY <1>3, Moved DEF MilestoneRejected, NotStarted
    <3>2. \E step : Move(a, step)
      BY <1>3 DEF MilestoneRejected
    <3>. QED BY <3>1, <3>2, Moved
  <2>. QED BY <1>3, <2>1, GrantTransfer DEF MilestoneRejected, GrantsFrom
<1>4. ASSUME NEW a \in Activations, NEW t \in Tokens, Issue(a, t)
      PROVE  GrantInv'
  <2>1. /\ activation[a] # NotStarted
        /\ \A b \in Activations :
             /\ activation'[b] = NotStarted <=> activation[b] = NotStarted
             /\ activation'[b].authority = activation[b].authority
             /\ activation'[b].limits = activation[b].limits
    BY <1>4, IssueEffect DEF NotStarted
  <2>2. /\ stored' = stored
        /\ journal'.continuations[t].authority = activation[a].authority
        /\ journal'.continuations[t].limits = activation[a].limits
        /\ \A u \in Tokens : u # t => journal'.continuations[u] = journal.continuations[u]
    BY <1>4, IssueEffect DEF Issue
  <2>. QED BY <2>1, <2>2 DEF GrantInv, Within
<1>5. ASSUME NEW a \in Activations, FlushYield(a)
      PROVE  GrantInv'
  <2>1. \A b \in Activations :
          /\ activation'[b] = NotStarted <=> activation[b] = NotStarted
          /\ activation'[b].authority = activation[b].authority
          /\ activation'[b].limits = activation[b].limits
    <3>1. activation[a] # NotStarted /\ activation'[a] # NotStarted
      BY <1>5, Moved DEF FlushYield, NotStarted, AfterYieldFlush
    <3>2. \E step : Move(a, step)
      BY <1>5 DEF FlushYield
    <3>. QED BY <3>1, <3>2, Moved
  <2>. QED BY <1>5, <2>1, GrantTransfer DEF FlushYield, GrantsFrom
<1>6. ASSUME NEW a \in Activations, YieldFlushUnavailable(a)
      PROVE  GrantInv'
  <2>1. \A b \in Activations :
          /\ activation'[b] = NotStarted <=> activation[b] = NotStarted
          /\ activation'[b].authority = activation[b].authority
          /\ activation'[b].limits = activation[b].limits
    <3>1. activation[a] # NotStarted /\ activation'[a] # NotStarted
      BY <1>6, Moved DEF YieldFlushUnavailable, NotStarted, AfterYieldFlush
    <3>2. \E step : Move(a, step)
      BY <1>6 DEF YieldFlushUnavailable
    <3>. QED BY <3>1, <3>2, Moved
  <2>. QED BY <1>6, <2>1, GrantTransfer DEF YieldFlushUnavailable, GrantsFrom
<1>7. ASSUME NEW a \in Activations, NEW t \in Tokens, NEW authority \in SUBSET Grants,
             NEW limits \in 0..MaxLimit, Consume(a, t, authority, limits)
      PROVE  GrantInv'
  <2>1. /\ activation[a] = NotStarted /\ stored' = stored
        /\ journal.continuations[t] # NoToken
        /\ activation'[a].authority \subseteq journal.continuations[t].authority
        /\ activation'[a].limits <= journal.continuations[t].limits
        /\ \A b \in Activations : b # a => activation'[b] = activation[b]
    <3>1. stored' = stored
      BY <1>7 DEF Consume
    <3>. QED BY <1>7, <3>1, ConsumeEffect, TokenIsThere
  <2>2. activation'[a].limits \in Nat
    BY <1>7, AdvancementAssumption DEF AdvancementAssumption, Consume, AdvancementShape
  <2>3. GrantsFrom(journal, journal')
    BY SMTT(30), <1>7, <2>1, ConsumeEffect DEF GrantsFrom
  <2>4. GrantsFrom(stored, stored')
    BY <2>1 DEF GrantsFrom
  <2>. QED BY <2>1, <2>2, <2>3, <2>4, GrantTransfer
<1>8. ASSUME NEW a \in Activations, StartEffects(a)
      PROVE  GrantInv'
  <2>1. \A b \in Activations :
          /\ activation'[b] = NotStarted <=> activation[b] = NotStarted
          /\ activation'[b].authority = activation[b].authority
          /\ activation'[b].limits = activation[b].limits
    <3>1. activation[a] # NotStarted /\ activation'[a] # NotStarted
      BY <1>8, Moved DEF StartEffects, NotStarted
    <3>2. \E step : Move(a, step)
      BY <1>8 DEF StartEffects
    <3>. QED BY <3>1, <3>2, Moved
  <2>. QED BY <1>8, <2>1, GrantTransfer DEF StartEffects, GrantsFrom
<1>9. ASSUME NEW t \in Tokens, Invalidate(t)
      PROVE  GrantInv'
  <2>1. GrantsFrom(journal, journal')
    BY <1>9, InvalidateEffect, TokenIsThere DEF GrantsFrom
  <2>2. GrantsFrom(stored, stored') /\ activation' = activation
    BY <1>9 DEF Invalidate, GrantsFrom
  <2>. QED BY <2>1, <2>2, GrantTransfer
<1>10. ASSUME NEW b \in Bindings, Change(b)
      PROVE  GrantInv'
  BY <1>10 DEF Change, GrantInv, Within
<1>11. ASSUME NEW i \in Inputs, LoseInput(i)
      PROVE  GrantInv'
  BY <1>11 DEF LoseInput, GrantInv, Within
<1>12. CASE ChangeOwner
  BY <1>12 DEF ChangeOwner, GrantInv, Within
<1>13. CASE RestartRun
  <2>1. \A b \in Activations :
          /\ activation'[b] = NotStarted <=> activation[b] = NotStarted
          /\ activation[b] # NotStarted =>
               /\ activation'[b].authority = activation[b].authority
               /\ activation'[b].limits = activation[b].limits
    BY <1>13, RestartEffect DEF PlacesInv, Placed, NotStarted
  <2>2. GrantsFrom(stored, journal') /\ GrantsFrom(stored, stored')
    BY <1>13, RestartEffect DEF GrantsFrom
  <2>. QED BY <2>1, <2>2, GrantTransfer
<1>14. CASE Elapse
  BY <1>14 DEF Elapse, GrantInv, Within
<1>15. CASE UNCHANGED advancementVars
  BY <1>15 DEF GrantInv, Within
<1>. QED BY <1>1, <1>2, <1>3, <1>4, <1>5, <1>6, <1>7, <1>8, <1>9, <1>10, <1>11,
    <1>12, <1>13, <1>14, <1>15 DEF AdvancementNext

(* A milestone that is accepted carries the streak on.                     *)
LEMMA CountedNext ==
  ASSUME AdvancementShape, NEW done \in Seq(Receipt), Counted(policy, done),
         NEW o \in Observations, Acceptable(policy, o, done)
  PROVE  Counted(policy, Append(done, evaluateStairStepMilestone(policy, o, done)))
<1>. DEFINE receipt == evaluateStairStepMilestone(policy, o, done)
            next == Append(done, receipt)
            last == Len(done) + 1
<1>1. /\ receipt.step = last /\ receipt.progress = o.progress
      /\ receipt.noProgress = noProgressMilestones(o, done)
      /\ receipt.nextDecision = NextDecision(policy, o, done)
  BY DEF evaluateStairStepMilestone
<1>. HIDE DEF receipt
<1>2. /\ Len(next) = last /\ next[last] = receipt
      /\ \A i \in 1..Len(done) : next[i] = done[i]
  OBVIOUS
<1>3. DOMAIN done = 1..Len(done) /\ Len(done) \in Nat
  OBVIOUS
<1>. HIDE DEF next
<1>4. \A i \in 1..Len(done) : NewIn(next, i) <=> NewIn(done, i)
  <2>. TAKE i \in 1..Len(done)
  <2>1. \A j \in 1..(i - 1) : j \in 1..Len(done)
    BY <1>3
  <2>. QED BY <1>2, <2>1 DEF NewIn
<1>5. NewIn(next, last) <=> madeProgress(o, done)
  <2>1. 1..(last - 1) = DOMAIN done
    BY <1>3
  <2>2. \A j \in DOMAIN done : next[j].progress = done[j].progress
    BY <1>2, <1>3
  <2>3. next[last].progress = o.progress
    BY <1>1, <1>2
  <2>4. NewIn(next, last) <=>
          o.progress # <<>> /\ \A j \in DOMAIN done : next[j].progress # o.progress
    BY <2>1, <2>3 DEF NewIn
  <2>. QED BY <2>2, <2>4 DEF madeProgress
<1>6. \A i \in 1..Len(done) : done[i].noProgress \in Nat
  <2>1. \A i \in 1..Len(done) : done[i] \in Receipt
    OBVIOUS
  <2>. QED BY <2>1 DEF Receipt
<1>7. ASSUME NEW n \in 1..last, Streak(next, last, n)
      PROVE  receipt.noProgress >= n
  <2>1. ~madeProgress(o, done)
    BY <1>3, <1>5, <1>7 DEF Streak
  <2>2. CASE n = 1
    BY <1>1, <1>3, <1>6, <2>1, <2>2 DEF noProgressMilestones
  <2>3. CASE n # 1
    <3>1. /\ Len(done) \in 1..Len(done) /\ n - 1 \in 1..Len(done) /\ done # <<>>
      BY <1>3, <2>3
    <3>2. \A j \in (Len(done) - (n - 1) + 1)..Len(done) :
            j \in 1..Len(done) /\ j \in (last - n + 1)..last
      BY <1>3, <2>3
    <3>3. Streak(done, Len(done), n - 1)
      BY <1>4, <1>7, <3>2 DEF Streak
    <3>4. done[Len(done)].noProgress >= n - 1
      BY <3>1, <3>3 DEF Counted
    <3>. QED BY <1>1, <1>6, <2>1, <3>1, <3>4 DEF noProgressMilestones
  <2>. QED BY <2>2, <2>3
<1>8. /\ "no-progress" \in policy.pauseOn
      /\ receipt.noProgress >= policy.maxNoProgressMilestones
      => receipt.nextDecision = "pause"
  BY <1>1 DEF NextDecision, Pauses
<1>9. Len(next) <= policy.maxMilestones
  BY <1>2 DEF Acceptable
<1>10. ASSUME NEW i \in 1..Len(next)
       PROVE  /\ next[i].step = i
              /\ \A n \in 1..i : Streak(next, i, n) => next[i].noProgress >= n
              /\ /\ "no-progress" \in policy.pauseOn
                 /\ next[i].noProgress >= policy.maxNoProgressMilestones
                 => next[i].nextDecision = "pause"
  <2>1. CASE i = last
    BY <1>1, <1>2, <1>7, <1>8, <2>1
  <2>2. CASE i \in 1..Len(done)
    <3>1. ASSUME NEW n \in 1..i, Streak(next, i, n)
          PROVE  next[i].noProgress >= n
      <4>1. \A j \in (i - n + 1)..i : j \in 1..Len(done)
        BY <1>3, <2>2
      <4>2. Streak(done, i, n)
        BY <1>4, <3>1, <4>1 DEF Streak
      <4>. QED BY <1>2, <2>2, <4>2 DEF Counted
    <3>. QED BY <1>2, <2>2, <3>1 DEF Counted
  <2>. QED BY <1>2, <1>3, <2>1, <2>2
<1>. QED BY <1>9, <1>10 DEF Counted, next, receipt

(* The streaks are counted right in a journal that was, or was stored,      *)
(* before the step.                                                         *)
LEMMA CountedTransfer ==
  ASSUME StreakInv, policy' = policy,
         journal'.milestones \in {journal.milestones, stored.milestones},
         stored'.milestones \in {journal.milestones, stored.milestones}
  PROVE  StreakInv'
  BY DEF StreakInv

(* The streak of every receipt goes on from the one before it.             *)
LEMMA StreakStep ==
  ASSUME AdvancementShape, PlacesInv, StreakInv, [AdvancementNext]_advancementVars
  PROVE  StreakInv'
<1>. USE DEF advancementVars
<1>1. ASSUME NEW a \in Activations, NEW authority \in SUBSET Grants, NEW limits \in 0..MaxLimit,
             Start(a, authority, limits)
      PROVE  StreakInv'
  BY <1>1, CountedTransfer DEF Start, world
<1>2. ASSUME NEW a \in Activations, NEW o \in Observations, Milestone(a, o)
      PROVE  StreakInv'
  <2>. DEFINE receipt == evaluateStairStepMilestone(policy, o, journal.milestones)
  <2>1. stored' = stored /\ policy' = policy /\ Acceptable(policy, o, journal.milestones)
    BY <1>2 DEF Milestone, world
  <2>2. journal'.milestones = Append(journal.milestones, receipt)
    BY <1>2, MilestoneEffect
  <2>3. Counted(policy, Append(journal.milestones, receipt))
    BY <2>1, CountedNext DEF StreakInv, AdvancementShape, Journal
  <2>. HIDE DEF receipt
  <2>. QED BY <2>1, <2>2, <2>3 DEF StreakInv
<1>3. ASSUME NEW a \in Activations, NEW o \in Observations, MilestoneRejected(a, o)
      PROVE  StreakInv'
  BY <1>3, CountedTransfer DEF MilestoneRejected, world
<1>4. ASSUME NEW a \in Activations, NEW t \in Tokens, Issue(a, t)
      PROVE  StreakInv'
  <2>1. journal'.milestones = journal.milestones
    BY <1>4, IssueEffect
  <2>2. stored' = stored /\ policy' = policy
    BY <1>4 DEF Issue, world
  <2>. QED BY <2>1, <2>2, CountedTransfer
<1>5. ASSUME NEW a \in Activations, FlushYield(a)
      PROVE  StreakInv'
  BY <1>5, CountedTransfer DEF FlushYield, world
<1>6. ASSUME NEW a \in Activations, YieldFlushUnavailable(a)
      PROVE  StreakInv'
  BY <1>6, CountedTransfer DEF YieldFlushUnavailable, world
<1>7. ASSUME NEW a \in Activations, NEW t \in Tokens, NEW authority \in SUBSET Grants,
             NEW limits \in 0..MaxLimit, Consume(a, t, authority, limits)
      PROVE  StreakInv'
  <2>1. journal'.milestones = journal.milestones
    BY <1>7, ConsumeEffect
  <2>2. stored' = stored /\ policy' = policy
    BY <1>7 DEF Consume, world
  <2>. QED BY <2>1, <2>2, CountedTransfer
<1>8. ASSUME NEW a \in Activations, StartEffects(a)
      PROVE  StreakInv'
  BY <1>8, CountedTransfer DEF StartEffects, world
<1>9. ASSUME NEW t \in Tokens, Invalidate(t)
      PROVE  StreakInv'
  <2>1. journal'.milestones = journal.milestones
    BY <1>9, InvalidateEffect
  <2>2. stored' = stored /\ policy' = policy
    BY <1>9 DEF Invalidate, world
  <2>. QED BY <2>1, <2>2, CountedTransfer
<1>10. ASSUME NEW b \in Bindings, Change(b)
      PROVE  StreakInv'
  BY <1>10, CountedTransfer DEF Change, world
<1>11. ASSUME NEW i \in Inputs, LoseInput(i)
      PROVE  StreakInv'
  BY <1>11, CountedTransfer DEF LoseInput, world
<1>12. CASE ChangeOwner
  BY <1>12, CountedTransfer DEF ChangeOwner, world
<1>13. CASE RestartRun
  BY <1>13, RestartEffect, CountedTransfer DEF RestartRun
<1>14. CASE Elapse
  BY <1>14, CountedTransfer DEF Elapse, world
<1>15. CASE UNCHANGED advancementVars
  BY <1>15, CountedTransfer
<1>. QED BY <1>1, <1>2, <1>3, <1>4, <1>5, <1>6, <1>7, <1>8, <1>9, <1>10, <1>11,
    <1>12, <1>13, <1>14, <1>15 DEF AdvancementNext

----------------------------------------------------------------------------
(* The theorems                                                            *)

(* A run without milestones, tokens and activations satisfies the           *)
(* invariant.                                                               *)
LEMMA InitAdvancementInv == AdvancementInit => AdvancementInv
<1>. SUFFICES ASSUME AdvancementInit PROVE AdvancementInv
  OBVIOUS
<1>. USE AdvancementAssumption DEF AdvancementAssumption, AdvancementInit
<1>1. AdvancementShape
  <2>1. NotStarted \in Activation
    BY DEF NotStarted, Activation, ActivationSteps
  <2>2. journal \in Journal
    BY DEF Journal
  <2>. QED BY <2>1, <2>2 DEF AdvancementShape
<1>2. PlacesInv
  BY DEF PlacesInv, Placed, Named, Resuming, NotStarted
<1>3. ReportedInv /\ MilestonesInv /\ ConsumedInv
  BY DEF ReportedInv, MilestonesInv, ConsumedInv, Resuming, NotStarted
<1>4. GrantInv
  BY DEF GrantInv
<1>5. StreakInv
  <2>1. Len(journal.milestones) = 0 /\ Len(stored.milestones) = 0
    OBVIOUS
  <2>. QED BY <2>1 DEF StreakInv, Counted
<1>. QED BY <1>1, <1>2, <1>3, <1>4, <1>5 DEF AdvancementInv

(* Every step of the activations preserves the invariant, part by part.     *)
LEMMA AdvancementInvStep == AdvancementInv /\ [AdvancementNext]_advancementVars => AdvancementInv'
  BY AdvancementShapeStep, PlacesStep, ReportedStep, MilestonesStep, ConsumedStep,
     GrantStep, StreakStep DEF AdvancementInv

(* The inductive invariant of a stair-step run (stair-step.ts,             *)
(* continuation.ts): where each activation stands, what the journal and    *)
(* its store have of each token, and what every receipt counts.            *)
THEOREM AdvancementInvariant == AdvancementSpec => []AdvancementInv
<1>. QED BY InitAdvancementInv, AdvancementInvStep, PTL DEF AdvancementSpec

(* The milestones are numbered in their order, and tokens, activations,    *)
(* grants and owners stay what they are (stair-step.ts, continuation.ts).  *)
THEOREM AdvancementTypes == AdvancementSpec => []AdvancementTypeOK
<1>1. AdvancementInv => AdvancementTypeOK
  <2>. SUFFICES ASSUME AdvancementInv PROVE AdvancementTypeOK
    OBVIOUS
  <2>1. ASSUME NEW state \in {journal, stored}
        PROVE  /\ \A i \in DOMAIN state.milestones : state.milestones[i].step = i
               /\ \A t \in Tokens : state.continuations[t].status
                    \in {"absent", "available", "consumed", "invalidated"}
    <3>1. state \in Journal /\ Counted(policy, state.milestones)
      BY DEF AdvancementInv, AdvancementShape, StreakInv
    <3>2. \A i \in DOMAIN state.milestones : state.milestones[i].step = i
      BY <3>1 DEF Journal, Counted
    <3>3. \A t \in Tokens : state.continuations[t].status
            \in {"absent", "available", "consumed", "invalidated"}
      BY <3>1 DEF Journal, Token, NoToken
    <3>. QED BY <3>2, <3>3
  <2>. QED BY <2>1 DEF AdvancementInv, AdvancementShape, Activation, ActivationSteps, AdvancementTypeOK
<1>. QED BY <1>1, AdvancementInvariant, PTL

(* However many activations present a token, and whatever a lost flush or  *)
(* a restart takes back, effects start from it at most once; and no chain  *)
(* of yields and resumptions widens what the first activation was granted  *)
(* (validateContinuation, consumeBeforeEffects).                           *)
THEOREM TokensAreOneShot == AdvancementSpec => []ResumptionsAreDelimited
<1>1. AdvancementInv => ResumptionsAreDelimited
  BY DEF AdvancementInv, ConsumedInv, GrantInv, Within, IsFirst, ResumptionsAreDelimited
<1>. QED BY <1>1, AdvancementInvariant, PTL

(* A continuation the caller was told of is in the store with the          *)
(* milestones it follows, and stays there through every restart (checkpointMilestoneBeforeYield).                 *)
THEOREM ReportedTokensAreStored == AdvancementSpec => []ReportedContinuationsAreDurable
<1>1. AdvancementInv => ReportedContinuationsAreDurable
  BY DEF AdvancementInv, ReportedInv, MilestonesInv, ReportedContinuationsAreDurable
<1>. QED BY <1>1, AdvancementInvariant, PTL

(* The run stops for want of progress at every milestone that ends too     *)
(* long a streak, wherever activations and restarts cut the streak, and    *)
(* stays within its milestones (evaluateStairStepMilestone).               *)
THEOREM RunsWithoutProgressPause == AdvancementSpec => []NoProgressPauses
<1>1. AdvancementInv => NoProgressPauses
  <2>. SUFFICES ASSUME AdvancementInv PROVE NoProgressPauses
    OBVIOUS
  <2>. DEFINE done == journal.milestones
              most == policy.maxNoProgressMilestones
  <2>1. /\ done \in Seq(Receipt) /\ Counted(policy, done)
        /\ \A a \in Activations : activation[a].taken <= ActivationLimit
    BY AdvancementAssumption
       DEF AdvancementAssumption, AdvancementInv, AdvancementShape, Journal, Activation, StreakInv
  <2>2. most \in Nat \ {0}
    BY AdvancementAssumption DEF AdvancementAssumption, AdvancementInv, AdvancementShape, ValidPolicy
  <2>3. ASSUME "no-progress" \in policy.pauseOn, NEW i \in DOMAIN done, i >= most,
               Streak(done, i, most)
        PROVE  done[i].nextDecision = "pause"
    <3>1. i \in 1..Len(done) /\ most \in 1..i
      BY <2>1, <2>2, <2>3
    <3>. QED BY <2>3, <3>1, <2>1 DEF Counted
  <2>4. Len(done) <= policy.maxMilestones
    BY <2>1 DEF Counted
  <2>. QED BY <2>1, <2>3, <2>4 DEF NoProgressPauses, Streak, NewIn
<1>. QED BY <1>1, AdvancementInvariant, PTL

-----------------------------------------------------------------------------
(* The evidence of a context, and its manifest.                            *)

(* Keys of one length.                                                     *)
Keys(n) == [1..n -> Int]

(* The key that decides first decides: an order of the keys of one length  *)
(* in which any two differ one way or the other.                           *)
LEMMA KeysAreOrdered ==
  ASSUME NEW n \in Nat, NEW a \in Keys(n), NEW b \in Keys(n), NEW c \in Keys(n)
  PROVE  /\ ~KeyBefore(a, a)
         /\ a # b => KeyBefore(a, b) \/ KeyBefore(b, a)
         /\ KeyBefore(a, b) /\ KeyBefore(b, c) => KeyBefore(a, c)
<1>. USE DEF Keys
<1>1. ~KeyBefore(a, a)
  BY DEF KeyBefore
<1>2. ASSUME a # b PROVE KeyBefore(a, b) \/ KeyBefore(b, a)
  <2>. DEFINE P == {i \in 1..n : a[i] # b[i]}
  <2>1. P \in SUBSET Nat /\ P # {}
    <3>1. \E i \in 1..n : a[i] # b[i]
      <4>1. (\A i \in 1..n : a[i] = b[i]) => a = b
        OBVIOUS
      <4>. QED BY <1>2, <4>1
    <3>2. \A i \in 1..n : i \in Nat
      OBVIOUS
    <3>. QED BY <3>1, <3>2
  <2>5. \E i \in P : \A k \in P : i <= k
    <3>. HIDE DEF P
    <3>. QED BY <2>1, LeastNumber
  <2>2. PICK i \in P : \A k \in P : i <= k
    BY <2>5
  <2>3. \A j \in 1..(i - 1) : a[j] = b[j]
    BY <2>2
  <2>4. i \in DOMAIN a /\ i \in DOMAIN b /\ (a[i] < b[i] \/ b[i] < a[i])
    BY <2>2
  <2>. QED BY <2>3, <2>4 DEF KeyBefore
<1>3. ASSUME KeyBefore(a, b), KeyBefore(b, c) PROVE KeyBefore(a, c)
  <2>1. PICK i \in 1..n : a[i] < b[i] /\ \A j \in 1..(i - 1) : a[j] = b[j]
    BY <1>3 DEF KeyBefore
  <2>2. PICK k \in 1..n : b[k] < c[k] /\ \A j \in 1..(k - 1) : b[j] = c[j]
    BY <1>3 DEF KeyBefore
  <2>. DEFINE m == IF i <= k THEN i ELSE k
  <2>3. m \in 1..n /\ a[m] < c[m]
    <3>1. CASE i < k
      BY <2>1, <2>2, <3>1
    <3>2. CASE i = k
      BY <2>1, <2>2, <3>2
    <3>3. CASE k < i
      BY <2>1, <2>2, <3>3
    <3>. QED BY <3>1, <3>2, <3>3
  <2>4. \A j \in 1..(m - 1) : a[j] = c[j]
    BY <2>1, <2>2
  <2>. QED BY <2>3, <2>4 DEF KeyBefore
<1>. QED BY <1>1, <1>2, <1>3

(* The first two numbers of keys that are in order.                        *)
LEMMA KeysBegin ==
  ASSUME NEW n \in Nat, n >= 2, NEW a \in Keys(n), NEW b \in Keys(n), KeyBefore(a, b)
  PROVE  a[1] <= b[1] /\ (a[1] = b[1] => a[2] <= b[2])
<1>. USE DEF Keys
<1>1. PICK i \in 1..n : a[i] < b[i] /\ \A j \in 1..(i - 1) : a[j] = b[j]
  BY DEF KeyBefore
<1>2. 1 \in 1..n /\ 2 \in 1..n
  OBVIOUS
<1>3. a[1] \in Int /\ b[1] \in Int /\ a[2] \in Int /\ b[2] \in Int
  BY <1>2
<1>4. CASE i = 1
  BY <1>1, <1>3, <1>4
<1>5. CASE i = 2
  BY <1>1, <1>3, <1>5
<1>6. CASE i > 2
  <2>1. 1 \in 1..(i - 1) /\ 2 \in 1..(i - 1)
    BY <1>6
  <2>. QED BY <1>1, <1>3, <2>1
<1>. QED BY <1>4, <1>5, <1>6

(* The pages of S that come before p.                                      *)
Before(S, keys, p) == {q \in S : KeyBefore(keys[q], keys[p])}

Distinct(S, keys) == \A p, q \in S : keys[p] = keys[q] => p = q

(* The sequence s lists S: every member once, in the order of the keys.    *)
Lists(s, S, keys) ==
  /\ Cardinality(S) \in Nat /\ s \in [1..Cardinality(S) -> S]
  /\ \A p \in S : \E i \in 1..Cardinality(S) : s[i] = p
  /\ \A i, j \in 1..Cardinality(S) : KeyBefore(keys[s[i]], keys[s[j]]) <=> i < j
  /\ \A i \in 1..Cardinality(S) : Cardinality(Before(S, keys, s[i])) = i - 1
  /\ \A p, q \in S : Cardinality(Before(S, keys, p)) = Cardinality(Before(S, keys, q)) => p = q

(* Sorting a finite set lists it.                                          *)
LEMMA SortedInOrder ==
  ASSUME NEW S, IsFiniteSet(S), NEW n \in Nat, NEW keys \in [S -> Keys(n)],
         Distinct(S, keys)
  PROVE  Lists(Sorted(S, keys), S, keys)
<1>. DEFINE N == Cardinality(S)
            place == [p \in S |-> Cardinality(Before(S, keys, p))]
            s == Sorted(S, keys)
<1>1. N \in Nat
  BY FS_CardinalityType
<1>2. \A p \in S : IsFiniteSet(Before(S, keys, p)) /\ Cardinality(Before(S, keys, p)) \in Nat
  BY FS_Subset, FS_CardinalityType DEF Before
<1>3. ASSUME NEW p \in S, NEW q \in S
      PROVE  /\ ~KeyBefore(keys[p], keys[p])
             /\ p # q => KeyBefore(keys[p], keys[q]) \/ KeyBefore(keys[q], keys[p])
             /\ \A r \in S : KeyBefore(keys[r], keys[p]) /\ KeyBefore(keys[p], keys[q])
                               => KeyBefore(keys[r], keys[q])
  <2>1. keys[p] \in Keys(n) /\ keys[q] \in Keys(n) /\ (keys[p] = keys[q] => p = q)
    BY DEF Distinct
  <2>2. ASSUME NEW r \in S, KeyBefore(keys[r], keys[p]), KeyBefore(keys[p], keys[q])
        PROVE  KeyBefore(keys[r], keys[q])
    <3>1. keys[r] \in Keys(n)
      OBVIOUS
    <3>. QED BY <2>1, <2>2, <3>1, KeysAreOrdered
  <2>3. ~KeyBefore(keys[p], keys[p])
    BY <2>1, KeysAreOrdered
  <2>4. p # q => KeyBefore(keys[p], keys[q]) \/ KeyBefore(keys[q], keys[p])
    BY <2>1, KeysAreOrdered
  <2>. QED BY <2>2, <2>3, <2>4
<1>4. ASSUME NEW p \in S, NEW q \in S, KeyBefore(keys[p], keys[q])
      PROVE  place[p] < place[q]
  <2>1. Before(S, keys, p) \subseteq Before(S, keys, q)
    BY <1>3, <1>4 DEF Before
  <2>2. p \in Before(S, keys, q) /\ p \notin Before(S, keys, p)
    BY <1>3, <1>4 DEF Before
  <2>3. Before(S, keys, p) \subseteq Before(S, keys, q) \ {p}
    BY <2>1, <2>2
  <2>4. IsFiniteSet(Before(S, keys, q) \ {p})
        /\ Cardinality(Before(S, keys, q) \ {p}) = Cardinality(Before(S, keys, q)) - 1
    BY <1>2, <2>2, FS_RemoveElement
  <2>5. Cardinality(Before(S, keys, p)) <= Cardinality(Before(S, keys, q) \ {p})
    BY <2>3, <2>4, FS_Subset
  <2>. QED BY <1>2, <2>4, <2>5
<1>5. ASSUME NEW p \in S PROVE place[p] \in 0..(N - 1)
  <2>1. Before(S, keys, p) \subseteq S \ {p}
    BY <1>3 DEF Before
  <2>2. IsFiniteSet(S \ {p}) /\ Cardinality(S \ {p}) = N - 1
    BY FS_RemoveElement
  <2>3. Cardinality(Before(S, keys, p)) <= Cardinality(S \ {p})
    BY <2>1, <2>2, FS_Subset
  <2>. QED BY <1>1, <1>2, <2>2, <2>3
<1>6. \A p, q \in S : place[p] = place[q] => p = q
  <2>1. \A p \in S : place[p] \in Int
    BY <1>5
  <2>. QED BY <1>3, <1>4, <2>1
<1>7. IsFiniteSet(0..(N - 1)) /\ Cardinality(0..(N - 1)) = N
  <2>1. 0 \in Int /\ N - 1 \in Int /\ (IF 0 > N - 1 THEN 0 ELSE (N - 1) - 0 + 1) = N
    BY <1>1
  <2>. HIDE DEF N
  <2>. QED BY ONLY <2>1, FS_Interval
<1>. HIDE DEF place, N
<1>8. place \in Injection(S, 0..(N - 1))
  <2>1. place \in [S -> 0..(N - 1)]
    BY <1>5 DEF place
  <2>. QED BY <1>6, <2>1 DEF Injection, IsInjective
<1>9. place \in Surjection(S, 0..(N - 1))
  <2>1. Cardinality(S) = Cardinality(0..(N - 1))
    BY <1>7 DEF N
  <2>. QED BY ONLY <1>7, <1>8, <2>1, FS_Injection
<1>10. ASSUME NEW i \in 1..N
       PROVE  s[i] \in S /\ place[s[i]] = i - 1
  <2>1. i - 1 \in 0..(N - 1)
    BY <1>1
  <2>2. \E p \in S : place[p] = i - 1
    BY <1>9, <2>1 DEF Surjection
  <2>3. \E p \in S : Cardinality(Before(S, keys, p)) = i - 1
    BY <2>2 DEF place
  <2>4. s[i] = CHOOSE p \in S : Cardinality(Before(S, keys, p)) = i - 1
    BY DEF Sorted, N, Before
  <2>5. s[i] \in S /\ Cardinality(Before(S, keys, s[i])) = i - 1
    BY <2>3, <2>4
  <2>. QED BY <2>5 DEF place
<1>11. s \in [1..N -> S]
  <2>1. s = [i \in 1..N |-> CHOOSE p \in S : Cardinality(Before(S, keys, p)) = i - 1]
    BY DEF Sorted, N, Before
  <2>2. DOMAIN s = 1..N /\ s = [i \in 1..N |-> s[i]]
    BY <2>1
  <2>. QED BY <1>10, <2>2
<1>12. ASSUME NEW p \in S PROVE \E i \in 1..N : s[i] = p
  <2>1. place[p] \in 0..(N - 1)
    BY <1>5
  <2>2. place[p] + 1 \in 1..N /\ (place[p] + 1) - 1 = place[p]
    BY <1>1, <2>1
  <2>3. s[place[p] + 1] \in S /\ place[s[place[p] + 1]] = place[p]
    BY <1>10, <2>2
  <2>. QED BY <1>6, <2>2, <2>3
<1>13. ASSUME NEW i \in 1..N, NEW j \in 1..N
       PROVE  KeyBefore(keys[s[i]], keys[s[j]]) <=> i < j
  <2>1. s[i] \in S /\ s[j] \in S /\ place[s[i]] = i - 1 /\ place[s[j]] = j - 1
    BY <1>10
  <2>2. KeyBefore(keys[s[i]], keys[s[j]]) => i < j
    BY <1>1, <1>4, <2>1
  <2>3. KeyBefore(keys[s[j]], keys[s[i]]) => j < i
    BY <1>1, <1>4, <2>1
  <2>4. i < j => s[i] # s[j]
    BY <1>1, <2>1
  <2>. QED BY <1>1, <1>3, <2>1, <2>2, <2>3, <2>4
<1>14. \A i \in 1..N : Cardinality(Before(S, keys, s[i])) = i - 1
  BY <1>10 DEF place
<1>15. \A p, q \in S : Cardinality(Before(S, keys, p)) = Cardinality(Before(S, keys, q)) => p = q
  BY <1>6 DEF place
<1>. QED BY <1>1, <1>11, <1>12, <1>13, <1>14, <1>15 DEF N, Lists

(* The ranks.                                                              *)
LEMMA Ranks ==
  /\ \A kind \in ToSet(FRESHNESS) :
       /\ Rank(kind, FRESHNESS) \in 1..3
       /\ kind = "timeless" <=> Rank(kind, FRESHNESS) = 3
  /\ \A trust \in ToSet(TRUSTS) :
       /\ Rank(trust, TRUSTS) \in 1..5
       /\ trust = "untrusted-external" <=> Rank(trust, TRUSTS) = 5
  /\ \A slot \in ToSet(CONTEXT_SLOTS) :
       /\ Rank(slot, CONTEXT_SLOTS) \in 1..7
       /\ slot \in sharedSlots <=> Rank(slot, CONTEXT_SLOTS) <= 3
<1>1. /\ Rank("expired", FRESHNESS) = 1 /\ Rank("fresh", FRESHNESS) = 2
      /\ Rank("timeless", FRESHNESS) = 3
  BY DEF Rank, FRESHNESS
<1>2. /\ Rank("system", TRUSTS) = 1 /\ Rank("user", TRUSTS) = 2 /\ Rank("tool", TRUSTS) = 3
      /\ Rank("agent", TRUSTS) = 4 /\ Rank("untrusted-external", TRUSTS) = 5
  BY DEF Rank, TRUSTS
<1>3. /\ Rank("profile-policy", CONTEXT_SLOTS) = 1 /\ Rank("strategy-policy", CONTEXT_SLOTS) = 2
      /\ Rank("shared-run", CONTEXT_SLOTS) = 3 /\ Rank("goal", CONTEXT_SLOTS) = 4
      /\ Rank("task", CONTEXT_SLOTS) = 5 /\ Rank("evidence", CONTEXT_SLOTS) = 6
      /\ Rank("mail", CONTEXT_SLOTS) = 7
  BY DEF Rank, CONTEXT_SLOTS
<1>4. ToSet(FRESHNESS) = {"expired", "fresh", "timeless"}
  BY DEF ToSet, FRESHNESS
<1>5. ToSet(TRUSTS) = {"system", "user", "tool", "agent", "untrusted-external"}
  BY DEF ToSet, TRUSTS
<1>6. ToSet(CONTEXT_SLOTS) = {"profile-policy", "strategy-policy", "shared-run", "goal", "task",
                              "evidence", "mail"}
  BY DEF ToSet, CONTEXT_SLOTS
<1>7. \A kind \in ToSet(FRESHNESS) :
        Rank(kind, FRESHNESS) \in 1..3 /\ (kind = "timeless" <=> Rank(kind, FRESHNESS) = 3)
  BY <1>1, <1>4
<1>8. \A trust \in ToSet(TRUSTS) :
        /\ Rank(trust, TRUSTS) \in 1..5
        /\ trust = "untrusted-external" <=> Rank(trust, TRUSTS) = 5
  BY <1>2, <1>5
<1>9. \A slot \in ToSet(CONTEXT_SLOTS) :
        /\ Rank(slot, CONTEXT_SLOTS) \in 1..7
        /\ slot \in sharedSlots <=> Rank(slot, CONTEXT_SLOTS) <= 3
  BY <1>3, <1>6 DEF sharedSlots
<1>. QED BY <1>7, <1>8, <1>9

(* The keys of a page are numbers, of which the last is its identity.      *)
LEMMA PageKeys ==
  ASSUME NEW p \in ContextPage
  PROVE  /\ pageOrder(p) \in Keys(3)
         /\ pageOrder(p)[1] = Rank(p.slot, CONTEXT_SLOTS) /\ pageOrder(p)[3] = p.pageId
         /\ optionalEvictionOrder(p) \in Keys(5)
         /\ optionalEvictionOrder(p)[1] = IF p.pin = "evictable" THEN 0 ELSE 1
         /\ optionalEvictionOrder(p)[2] = Rank(p.freshness, FRESHNESS)
         /\ optionalEvictionOrder(p)[5] = p.pageId
<1>1. /\ Rank(p.slot, CONTEXT_SLOTS) \in Int /\ Rank(p.freshness, FRESHNESS) \in Int
      /\ p.orderKey \in Int /\ p.pageId \in Int /\ p.observedAt \in Int /\ -p.bytes \in Int
  BY Ranks DEF ContextPage
<1>2. pageOrder(p) \in Keys(3) /\ pageOrder(p)[1] = Rank(p.slot, CONTEXT_SLOTS)
      /\ pageOrder(p)[3] = p.pageId
  BY <1>1 DEF pageOrder, Keys
<1>3. /\ optionalEvictionOrder(p) \in Keys(5)
      /\ optionalEvictionOrder(p)[1] = IF p.pin = "evictable" THEN 0 ELSE 1
      /\ optionalEvictionOrder(p)[2] = Rank(p.freshness, FRESHNESS)
      /\ optionalEvictionOrder(p)[5] = p.pageId
  BY <1>1 DEF optionalEvictionOrder, Keys
<1>. QED BY <1>2, <1>3

(* Pages that a manifest may be built from: finitely many, each with an    *)
(* identity of its own.                                                    *)
Pages(pages) ==
  /\ pages \subseteq ContextPage /\ IsFiniteSet(pages)
  /\ \A p, q \in pages : p.pageId = q.pageId => p = q

(* What the eviction order says.                                           *)
LEMMA Evictions ==
  ASSUME NEW pages, Pages(pages)
  PROVE  LET list == InEvictionOrder(pages)
             N == Cardinality(pages)
         IN  /\ N \in Nat /\ list \in [1..N -> pages]
             /\ \A p \in pages : \E i \in 1..N : list[i] = p
             /\ \A i, j \in 1..N : list[i] = list[j] => i = j
             /\ \A i, j \in 1..N : i < j /\ list[j].pin = "evictable" => list[i].pin = "evictable"
             /\ \A i, j \in 1..N :
                  list[i].freshness = "timeless" /\ list[j].freshness # "timeless"
                  /\ list[i].pin = list[j].pin => j < i
             /\ \A i, j \in 1..N :
                  KeyBefore(optionalEvictionOrder(list[i]), optionalEvictionOrder(list[j])) <=> i < j
<1>. DEFINE keys == [p \in pages |-> optionalEvictionOrder(p)]
            list == InEvictionOrder(pages)
            N == Cardinality(pages)
<1>1. keys \in [pages -> Keys(5)]
  BY PageKeys DEF Pages
<1>2. Distinct(pages, keys)
  <2>. SUFFICES ASSUME NEW p \in pages, NEW q \in pages, keys[p] = keys[q] PROVE p = q
    BY DEF Distinct
  <2>1. keys[p][5] = p.pageId /\ keys[q][5] = q.pageId
    BY PageKeys DEF Pages
  <2>. QED BY <2>1 DEF Pages
<1>3. list = Sorted(pages, keys)
  BY DEF InEvictionOrder
<1>4. IsFiniteSet(pages)
  BY DEF Pages
<1>5. /\ N \in Nat /\ list \in [1..N -> pages]
      /\ \A p \in pages : \E i \in 1..N : list[i] = p
      /\ \A i, j \in 1..N : KeyBefore(keys[list[i]], keys[list[j]]) <=> i < j
  <2>. HIDE DEF keys
  <2>1. Lists(list, pages, keys)
    BY <1>1, <1>2, <1>3, <1>4, SortedInOrder
  <2>. HIDE DEF list
  <2>. QED BY <2>1 DEF Lists
<1>6. ASSUME NEW i \in 1..N
      PROVE  /\ list[i] \in ContextPage /\ keys[list[i]] \in Keys(5)
             /\ keys[list[i]][1] = IF list[i].pin = "evictable" THEN 0 ELSE 1
             /\ keys[list[i]][2] = Rank(list[i].freshness, FRESHNESS)
             /\ keys[list[i]] = optionalEvictionOrder(list[i])
  <2>. HIDE DEF list
  <2>1. list[i] \in pages
    BY <1>5
  <2>2. keys[list[i]] = optionalEvictionOrder(list[i]) /\ list[i] \in ContextPage
    BY <2>1 DEF Pages
  <2>. HIDE DEF keys
  <2>. QED BY <2>2, PageKeys
<1>. HIDE DEF keys, list, N
<1>7. \A i, j \in 1..N : list[i] = list[j] => i = j
  <2>. SUFFICES ASSUME NEW i \in 1..N, NEW j \in 1..N, list[i] = list[j] PROVE i = j
    OBVIOUS
  <2>1. /\ i < j <=> KeyBefore(keys[list[i]], keys[list[j]])
        /\ i < i <=> KeyBefore(keys[list[i]], keys[list[i]])
        /\ j < i <=> KeyBefore(keys[list[j]], keys[list[i]])
    BY <1>5
  <2>. QED BY <1>5, <2>1
<1>8. ASSUME NEW i \in 1..N, NEW j \in 1..N, i < j
      PROVE  LET a == keys[list[i]]
                 b == keys[list[j]]
             IN  a[1] <= b[1] /\ (a[1] = b[1] => a[2] <= b[2])
  <2>1. KeyBefore(keys[list[i]], keys[list[j]])
    BY <1>5, <1>8
  <2>2. keys[list[i]] \in Keys(5) /\ keys[list[j]] \in Keys(5)
    BY <1>6
  <2>. QED BY <2>1, <2>2, KeysBegin
<1>9. ASSUME NEW i \in 1..N, NEW j \in 1..N, i < j, list[j].pin = "evictable"
      PROVE  list[i].pin = "evictable"
  <2>1. keys[list[i]][1] <= keys[list[j]][1]
    BY <1>8, <1>9
  <2>2. /\ keys[list[i]][1] = IF list[i].pin = "evictable" THEN 0 ELSE 1
        /\ keys[list[j]][1] = IF list[j].pin = "evictable" THEN 0 ELSE 1
    BY <1>6
  <2>. QED BY <1>9, <2>1, <2>2
<1>12. \A i, j \in 1..N :
         list[i].freshness = "timeless" /\ list[j].freshness # "timeless"
         /\ list[i].pin = list[j].pin => j < i
  <2>. SUFFICES ASSUME NEW i \in 1..N, NEW j \in 1..N, list[i].freshness = "timeless",
                       list[j].freshness # "timeless", list[i].pin = list[j].pin
                PROVE  j < i
    OBVIOUS
  <2>1. list[i].freshness \in ToSet(FRESHNESS) /\ list[j].freshness \in ToSet(FRESHNESS)
    BY <1>6 DEF ContextPage
  <2>2. Rank(list[i].freshness, FRESHNESS) = 3 /\ Rank(list[j].freshness, FRESHNESS) \in 1..2
    BY <2>1, Ranks
  <2>3. keys[list[i]][2] = 3 /\ keys[list[j]][2] \in 1..2 /\ keys[list[i]][1] = keys[list[j]][1]
    <3>1. /\ keys[list[i]][1] = IF list[i].pin = "evictable" THEN 0 ELSE 1
          /\ keys[list[j]][1] = IF list[j].pin = "evictable" THEN 0 ELSE 1
          /\ keys[list[i]][2] = Rank(list[i].freshness, FRESHNESS)
          /\ keys[list[j]][2] = Rank(list[j].freshness, FRESHNESS)
      BY <1>6
    <3>. QED BY <2>2, <3>1
  <2>4. ~(i < j)
    BY <1>8, <2>3
  <2>5. i # j
    OBVIOUS
  <2>6. i \in Int /\ j \in Int
    OBVIOUS
  <2>. QED BY <2>4, <2>5, <2>6
<1>11. \A i, j \in 1..N : i < j /\ list[j].pin = "evictable" => list[i].pin = "evictable"
  BY <1>9
<1>13. N \in Nat /\ list \in [1..N -> pages] /\ \A p \in pages : \E i \in 1..N : list[i] = p
  BY <1>5
<1>14. \A i, j \in 1..N :
         KeyBefore(optionalEvictionOrder(list[i]), optionalEvictionOrder(list[j])) <=> i < j
  BY <1>5, <1>6
<1>. QED BY ONLY <1>7, <1>11, <1>12, <1>13, <1>14 DEF list, N

(* A least number is one.                                                  *)
LEMMA LeastIsLeast ==
  ASSUME NEW P \in SUBSET Nat, P # {}
  PROVE  Least(P) \in P /\ \A k \in P : Least(P) <= k
  BY LeastNumber DEF Least

(* What is kept of pages of which the required ones fit.                   *)
KeepsTheValuable(kept, pages, within) ==
  /\ kept \subseteq pages /\ Required(pages) \subseteq kept /\ Fits(kept, within)
  /\ \A p \in pages \ kept, q \in kept : q.pin = "evictable" => p.pin = "evictable"
  /\ \A p \in pages \ kept, q \in pages :
       p.pin = q.pin /\ p.freshness = "timeless" /\ q.freshness # "timeless" => q \notin kept
  /\ \A p \in pages \ kept : ~Fits(AtLeastAsValuable(p, pages), within)

(* The optional pages go in the order of their value, and no more of them  *)
(* than have to (createContextManifest).                                   *)
LEMMA KeptPages ==
  ASSUME NEW pages, Pages(pages), NEW within, Fits(Required(pages), within)
  PROVE  KeepsTheValuable(Kept(pages, within), pages, within)
<1>. DEFINE optional == pages \ Required(pages)
            list == InEvictionOrder(optional)
            N == Cardinality(optional)
            Without(n) == pages \ {list[i] : i \in 1..n}
            enough == {n \in 0..N : Fits(Without(n), within)}
            k == Least(enough)
            kept == Kept(pages, within)
<1>1. Pages(optional)
  BY FS_Subset DEF Pages
<1>2. /\ N \in Nat /\ list \in [1..N -> optional]
      /\ \A p \in optional : \E i \in 1..N : list[i] = p
      /\ \A i, j \in 1..N : list[i] = list[j] => i = j
      /\ \A i, j \in 1..N : i < j /\ list[j].pin = "evictable" => list[i].pin = "evictable"
      /\ \A i, j \in 1..N :
           list[i].freshness = "timeless" /\ list[j].freshness # "timeless"
           /\ list[i].pin = list[j].pin => j < i
      /\ \A i, j \in 1..N :
           KeyBefore(optionalEvictionOrder(list[i]), optionalEvictionOrder(list[j])) <=> i < j
  <2>. HIDE DEF optional
  <2>. QED BY <1>1, Evictions
<1>3. Len(list) = N
  <2>. HIDE DEF list, N, optional
  <2>1. N \in Nat /\ list \in [1..N -> optional]
    BY <1>2
  <2>. QED BY ONLY <2>1
<1>4. kept = Without(k)
  BY <1>3 DEF Kept
<1>. HIDE DEF list, N, kept
<1>5. Without(N) = Required(pages)
  BY <1>2 DEF Required
<1>6. enough \in SUBSET Nat /\ N \in enough
  <2>1. enough \subseteq 0..N /\ \A n \in 0..N : n \in Nat
    BY <1>2
  <2>2. N \in 0..N
    BY <1>2
  <2>3. Fits(Without(N), within)
    BY <1>5
  <2>. QED BY <2>1, <2>2, <2>3
<1>7. k \in enough /\ \A n \in enough : k <= n
  <2>. HIDE DEF enough
  <2>. QED BY <1>6, LeastIsLeast
<1>8. k \in 0..N /\ Fits(kept, within)
  BY <1>4, <1>7
<1>9. \A n \in 0..N : n < k => ~Fits(Without(n), within)
  <2>. SUFFICES ASSUME NEW n \in 0..N, n < k, Fits(Without(n), within) PROVE FALSE
    OBVIOUS
  <2>1. n \in enough
    OBVIOUS
  <2>. HIDE DEF enough
  <2>2. k <= n
    <3>. HIDE DEF k, N
    <3>. QED BY <1>7, <2>1
  <2>3. n \in Int /\ k \in Int
    <3>. HIDE DEF k, N
    <3>. QED BY <1>2, <1>8
  <2>. HIDE DEF k
  <2>. QED BY <2>2, <2>3
<1>. HIDE DEF k, enough
<1>10. /\ kept \subseteq pages /\ Required(pages) \subseteq kept
  BY <1>2, <1>4, <1>8 DEF Required
<1>11. \A p \in pages \ kept : \E i \in 1..k : i \in 1..N /\ p = list[i]
  <2>1. \A i \in 1..k : i \in 1..N
    BY <1>2, <1>8
  <2>2. \A p \in pages \ kept : p \in {list[i] : i \in 1..k}
    BY <1>4
  <2>. QED BY <2>1, <2>2
<1>12. \A q \in optional \cap kept : \E j \in 1..N : j > k /\ q = list[j]
  <2>. SUFFICES ASSUME NEW q \in optional \cap kept PROVE \E j \in 1..N : j > k /\ q = list[j]
    OBVIOUS
  <2>1. PICK j \in 1..N : q = list[j]
    BY <1>2
  <2>2. j \notin 1..k
    BY <1>4, <2>1
  <2>. QED BY <1>2, <1>8, <2>1, <2>2
<1>13. ASSUME NEW p \in pages \ kept, NEW q \in kept, q.pin = "evictable"
       PROVE  p.pin = "evictable"
  <2>1. PICK i \in 1..k : i \in 1..N /\ p = list[i]
    BY <1>11
  <2>2. q \in optional
    BY <1>10, <1>13 DEF Required
  <2>3. PICK j \in 1..N : j > k /\ q = list[j]
    BY <1>12, <2>2
  <2>4. i < j
    BY <1>2, <1>8, <2>1, <2>3
  <2>. QED BY <1>2, <1>13, <2>1, <2>3, <2>4
<1>14. ASSUME NEW p \in pages \ kept, NEW q \in pages, p.pin = q.pin, p.freshness = "timeless",
              q.freshness # "timeless", q \in kept
       PROVE  FALSE
  <2>1. PICK i \in 1..k : i \in 1..N /\ p = list[i]
    BY <1>11
  <2>2. q \in optional
    BY <1>2, <1>14, <2>1 DEF Required
  <2>3. PICK j \in 1..N : j > k /\ q = list[j]
    BY <1>12, <1>14, <2>2
  <2>4. j < i
    BY <1>2, <1>14, <2>1, <2>3
  <2>. QED BY <1>2, <1>8, <2>1, <2>3, <2>4
<1>15. ASSUME NEW p \in pages \ kept
       PROVE  ~Fits(AtLeastAsValuable(p, pages), within)
  <2>1. PICK i \in 1..k : i \in 1..N /\ p = list[i]
    BY <1>11
  <2>2. i - 1 \in 0..N /\ i - 1 < k
    BY <1>2, <1>8, <2>1
  <2>3. ASSUME NEW q \in optional
        PROVE  KeyBefore(optionalEvictionOrder(q), optionalEvictionOrder(p))
                 <=> q \in {list[n] : n \in 1..(i - 1)}
    <3>1. PICK j \in 1..N : q = list[j]
      BY <1>2
    <3>2. KeyBefore(optionalEvictionOrder(q), optionalEvictionOrder(p)) <=> j < i
      BY <1>2, <2>1, <3>1
    <3>3. q \in {list[n] : n \in 1..(i - 1)} <=> \E n \in 1..(i - 1) : n = j
      <4>1. \A n \in 1..(i - 1) : n \in 1..N
        BY <1>2, <2>1
      <4>. QED BY <1>2, <3>1, <4>1
    <3>. QED BY <1>2, <2>1, <3>2, <3>3
  <2>4. ASSUME NEW q \in Required(pages)
        PROVE  q \notin {list[n] : n \in 1..(i - 1)}
    <3>1. \A n \in 1..(i - 1) : n \in 1..N
      BY <1>2, <2>1
    <3>. QED BY <1>2, <3>1
  <2>5. AtLeastAsValuable(p, pages) = Without(i - 1)
    <3>1. Required(pages) \subseteq pages
      BY DEF Required
    <3>. QED BY <2>3, <2>4, <3>1 DEF AtLeastAsValuable
  <2>. QED BY <1>9, <2>2, <2>5
<1>. QED BY <1>8, <1>10, <1>13, <1>14, <1>15 DEF KeepsTheValuable, kept

PageKeysOf(pages) == [p \in pages |-> pageOrder(p)]

(* The page order lists the pages.                                         *)
LEMMA PagesInOrder ==
  ASSUME NEW pages, Pages(pages)
  PROVE  /\ Lists(InPageOrder(pages), pages, PageKeysOf(pages))
         /\ InPageOrder(pages) \in Seq(pages) /\ Len(InPageOrder(pages)) = Cardinality(pages)
         /\ ToSet(InPageOrder(pages)) = pages
<1>. DEFINE list == InPageOrder(pages)
            keys == PageKeysOf(pages)
            N == Cardinality(pages)
<1>1. keys \in [pages -> Keys(3)]
  BY PageKeys DEF Pages, PageKeysOf
<1>2. Distinct(pages, keys)
  <2>. SUFFICES ASSUME NEW p \in pages, NEW q \in pages, keys[p] = keys[q] PROVE p = q
    BY DEF Distinct
  <2>1. keys[p][3] = p.pageId /\ keys[q][3] = q.pageId
    BY PageKeys DEF Pages, PageKeysOf
  <2>. QED BY <2>1 DEF Pages
<1>3. list = Sorted(pages, keys) /\ IsFiniteSet(pages)
  BY DEF InPageOrder, Pages, PageKeysOf
<1>4. Lists(list, pages, keys)
  <2>. HIDE DEF keys, list
  <2>. QED BY <1>1, <1>2, <1>3, SortedInOrder
<1>5. /\ N \in Nat /\ list \in [1..N -> pages]
      /\ \A p \in pages : \E i \in 1..N : list[i] = p
  BY <1>4 DEF Lists
<1>. HIDE DEF list, N
<1>6. list \in Seq(pages) /\ Len(list) = N
  <2>1. list \in Seq(pages)
    BY ONLY <1>5
  <2>. QED BY ONLY <1>5, <2>1
<1>7. ToSet(list) = pages
  BY <1>5 DEF ToSet
<1>. QED BY <1>4, <1>6, <1>7 DEF list, N

Shared(pages) == {p \in pages : p.slot \in sharedSlots}

(* The shared pages come first.                                            *)
LEMMA SharedPagesFirst ==
  ASSUME NEW pages, Pages(pages)
  PROVE  InPageOrder(Shared(pages))
           = SubSeq(InPageOrder(pages), 1, Len(InPageOrder(Shared(pages))))
<1>. DEFINE shared == Shared(pages)
            s == InPageOrder(pages)
            t == InPageOrder(shared)
            keys == PageKeysOf(pages)
            sharedKeys == PageKeysOf(shared)
            M == Cardinality(shared)
            N == Cardinality(pages)
<1>1. Pages(shared) /\ shared \subseteq pages
  BY FS_Subset DEF Pages, Shared
<1>2. /\ Lists(s, pages, keys) /\ s \in Seq(pages) /\ Len(s) = N
      /\ Lists(t, shared, sharedKeys) /\ t \in Seq(shared) /\ Len(t) = M
  <2>. HIDE DEF shared
  <2>. QED BY <1>1, PagesInOrder
<1>3. M \in Nat /\ N \in Nat /\ M <= N
  <2>1. IsFiniteSet(pages)
    BY DEF Pages
  <2>. QED BY <1>1, <2>1, FS_Subset, FS_CardinalityType
<1>4. ASSUME NEW p \in shared
      PROVE  Before(shared, sharedKeys, p) = Before(pages, keys, p)
  <2>1. ASSUME NEW q \in pages, KeyBefore(keys[q], keys[p])
        PROVE  q \in shared
    <3>1. p \in pages /\ p \in ContextPage /\ q \in ContextPage /\ p.slot \in sharedSlots
      BY <1>1 DEF Pages, Shared
    <3>2. keys[q] = pageOrder(q) /\ keys[p] = pageOrder(p)
      BY <3>1 DEF PageKeysOf
    <3>3. keys[q] \in Keys(3) /\ keys[p] \in Keys(3)
          /\ keys[q][1] = Rank(q.slot, CONTEXT_SLOTS) /\ keys[p][1] = Rank(p.slot, CONTEXT_SLOTS)
      BY <3>1, <3>2, PageKeys
    <3>4. keys[q][1] <= keys[p][1]
      <4>. HIDE DEF keys
      <4>1. 3 \in Nat /\ 3 >= 2
        OBVIOUS
      <4>. QED BY <2>1, <3>3, <4>1, KeysBegin
    <3>5. p.slot \in ToSet(CONTEXT_SLOTS) /\ q.slot \in ToSet(CONTEXT_SLOTS)
      BY <3>1 DEF ContextPage
    <3>6. q.slot \in sharedSlots
      BY <3>1, <3>3, <3>4, <3>5, Ranks
    <3>. QED BY <3>6 DEF Shared
  <2>2. \A q \in shared : sharedKeys[q] = keys[q]
    BY <1>1 DEF PageKeysOf
  <2>. QED BY <1>1, <2>1, <2>2 DEF Before
<1>5. /\ s \in [1..N -> pages] /\ t \in [1..M -> shared]
      /\ \A i \in 1..N : Cardinality(Before(pages, keys, s[i])) = i - 1
      /\ \A i \in 1..M : Cardinality(Before(shared, sharedKeys, t[i])) = i - 1
      /\ \A p, q \in pages :
           Cardinality(Before(pages, keys, p)) = Cardinality(Before(pages, keys, q)) => p = q
  BY <1>2 DEF Lists
<1>. HIDE DEF s, t, keys, sharedKeys, M, N, shared
<1>6. ASSUME NEW i \in 1..M PROVE t[i] = s[i]
  <2>1. i \in 1..N
    BY <1>3
  <2>2. t[i] \in shared /\ t[i] \in pages /\ s[i] \in pages
    BY <1>1, <1>5, <2>1
  <2>3. Cardinality(Before(pages, keys, t[i])) = i - 1
    BY <1>4, <1>5, <2>2
  <2>. QED BY <1>5, <2>1, <2>2, <2>3
<1>7. SubSeq(s, 1, M) = [i \in 1..M |-> s[i]]
  BY ONLY <1>2, <1>3
<1>8. t = [i \in 1..M |-> s[i]]
  BY <1>5, <1>6
<1>9. t = SubSeq(s, 1, Len(t))
  BY <1>2, <1>7, <1>8
<1>. QED BY <1>9 DEF s, t, shared

(* Evidence p is at least as doubtful as q, at any time.                   *)
AsDoubtful(p, q) ==
  /\ q.freshness = "expired" => p.freshness = "expired"
  /\ q.freshness = "fresh" => \/ p.freshness = "expired"
                              \/ p.freshness = "fresh" /\ p.expiresAt <= q.expiresAt
  /\ q.trust = "untrusted-external" => p.trust = "untrusted-external"

(* What is derived is as doubtful as each of its sources                   *)
(* (propagateContextEvidence).                                             *)
LEMMA Propagation ==
  ASSUME NEW pages, pages \subseteq ContextPage, pages # {}
  PROVE  LET combined == propagateContextEvidence(pages)
         IN  /\ combined.trust \in ToSet(TRUSTS) /\ combined.freshness \in ToSet(FRESHNESS)
             /\ combined.observedAt \in Nat /\ combined.expiresAt \in Nat
             /\ combined.lineage \in SUBSET Nat
             /\ \A id \in combined.lineage :
                  \E q \in pages : id = q.pageId \/ id \in q.lineage
             /\ \A q \in pages : AsDoubtful(combined, q)
<1>. DEFINE combined == propagateContextEvidence(pages)
            expired == {p \in pages : p.freshness = "expired"}
            dynamic == {p \in pages : p.freshness # "timeless"}
            worst == CHOOSE t \in Times(pages, "trust") :
                       \A p \in pages : Rank(p.trust, TRUSTS) <= Rank(t, TRUSTS)
            times == Times(IF expired # {} THEN expired ELSE dynamic, "expiresAt") \cup {Never}
            observed == Times(dynamic, "observedAt") \cup {Never}
<1>1. /\ combined.trust = worst
      /\ combined.freshness = IF expired # {} THEN "expired"
                              ELSE IF dynamic # {} THEN "fresh" ELSE "timeless"
      /\ combined.observedAt = Least(observed) /\ combined.expiresAt = Least(times)
      /\ combined.lineage = Times(pages, "pageId") \cup UNION Times(pages, "lineage")
  BY DEF propagateContextEvidence
<1>2. \A p \in pages : /\ p.trust \in ToSet(TRUSTS) /\ p.freshness \in ToSet(FRESHNESS)
                       /\ p.observedAt \in Nat /\ p.expiresAt \in Nat /\ p.pageId \in Nat
                       /\ p.lineage \in SUBSET Nat
  BY DEF ContextPage
<1>3. worst \in Times(pages, "trust") /\ \A p \in pages : Rank(p.trust, TRUSTS) <= Rank(worst, TRUSTS)
  <2>. DEFINE P == {5 - Rank(p.trust, TRUSTS) : p \in pages}
  <2>1. \A p \in pages : Rank(p.trust, TRUSTS) \in 1..5
    BY <1>2, Ranks
  <2>2. P \in SUBSET Nat /\ P # {}
    BY <2>1
  <2>3. \E m \in P : \A k \in P : m <= k
    <3>. HIDE DEF P
    <3>. QED BY <2>2, LeastNumber
  <2>4. PICK p \in pages : \A q \in pages : 5 - Rank(p.trust, TRUSTS) <= 5 - Rank(q.trust, TRUSTS)
    BY <2>3
  <2>5. \A q \in pages : Rank(q.trust, TRUSTS) <= Rank(p.trust, TRUSTS)
    BY <2>1, <2>4
  <2>6. p.trust \in Times(pages, "trust")
    BY DEF Times
  <2>. QED BY <2>5, <2>6
<1>4. worst \in ToSet(TRUSTS)
  BY <1>2, <1>3 DEF Times
<1>5. times \in SUBSET Nat /\ times # {} /\ observed \in SUBSET Nat /\ observed # {}
  BY <1>2 DEF Times, Never
<1>6. Least(times) \in Nat /\ (\A k \in times : Least(times) <= k) /\ Least(observed) \in Nat
  <2>. HIDE DEF times, observed
  <2>. QED BY <1>5, LeastIsLeast
<1>7. combined.freshness \in ToSet(FRESHNESS)
  <2>1. ToSet(FRESHNESS) = {"expired", "fresh", "timeless"}
    BY DEF ToSet, FRESHNESS
  <2>. QED BY <1>1, <2>1
<1>8. combined.lineage \in SUBSET Nat
      /\ \A id \in combined.lineage : \E q \in pages : id = q.pageId \/ id \in q.lineage
  BY <1>1, <1>2 DEF Times
<1>9. ASSUME NEW q \in pages
      PROVE  AsDoubtful(combined, q)
  <2>1. q.freshness = "expired" => combined.freshness = "expired"
    BY <1>1
  <2>2. ASSUME q.freshness = "fresh", expired = {}
        PROVE  combined.freshness = "fresh" /\ combined.expiresAt <= q.expiresAt
    <3>1. q \in dynamic
      BY <2>2
    <3>2. q.expiresAt \in times
      BY <2>2, <3>1 DEF Times
    <3>. QED BY <1>1, <1>6, <2>2, <3>1, <3>2
  <2>3. ASSUME q.trust = "untrusted-external" PROVE combined.trust = "untrusted-external"
    <3>1. Rank(q.trust, TRUSTS) = 5 /\ Rank(q.trust, TRUSTS) <= Rank(worst, TRUSTS)
          /\ Rank(worst, TRUSTS) \in 1..5
      BY <1>2, <1>3, <1>4, <2>3, Ranks
    <3>2. Rank(worst, TRUSTS) = 5
      BY <3>1
    <3>. QED BY <1>1, <1>4, <3>2, Ranks
  <2>. QED BY <1>1, <2>1, <2>2, <2>3 DEF AsDoubtful
<1>. HIDE DEF worst, times, observed, combined
<1>. QED BY <1>1, <1>4, <1>6, <1>7, <1>8, <1>9 DEF combined

(* Evidence with an identity of its own each, of which what is derived is  *)
(* as doubtful as what it is derived from.                                 *)
EvidenceInv ==
  /\ Pages(evidence) /\ derived \in Nat /\ now \in Nat
  /\ \A p \in evidence : p.pageId < 100 + derived /\ \A id \in p.lineage : id < 100 + derived
  /\ \A p, q \in evidence :
       q.pageId \in p.lineage => p.slot = "evidence" /\ AsDoubtful(p, q)

(* Derived evidence keeps the taint of its ancestry.                       *)
LEMMA DeriveStep ==
  ASSUME EvidenceInv, NEW pages \in SUBSET evidence, Cardinality(pages) \in 1..2, Derive(pages),
         DerivedBytes \in Nat
  PROVE  EvidenceInv'
<1>. DEFINE combined == propagateContextEvidence(pages)
            id == 100 + derived
            new == [pageId |-> id, slot |-> "evidence", orderKey |-> 1, pin |-> "evictable",
                    bytes |-> DerivedBytes, trust |-> combined.trust,
                    freshness |-> combined.freshness, observedAt |-> combined.observedAt,
                    expiresAt |-> combined.expiresAt, lineage |-> combined.lineage]
<1>1. evidence' = evidence \cup {new} /\ derived' = derived + 1 /\ now' = now
  BY DEF Derive
<1>2. pages # {} /\ pages \subseteq ContextPage
  BY FS_EmptySet DEF EvidenceInv, Pages
<1>3. /\ combined.trust \in ToSet(TRUSTS) /\ combined.freshness \in ToSet(FRESHNESS)
      /\ combined.observedAt \in Nat /\ combined.expiresAt \in Nat
      /\ combined.lineage \in SUBSET Nat
      /\ \A i \in combined.lineage : \E q \in pages : i = q.pageId \/ i \in q.lineage
      /\ \A q \in pages : AsDoubtful(combined, q)
  BY <1>2, Propagation
<1>. HIDE DEF combined
<1>4. id \in Nat /\ derived \in Nat /\ now \in Nat
  BY DEF EvidenceInv
<1>5. "evidence" \in ToSet(CONTEXT_SLOTS) /\ "evictable" \in ToSet(PINS)
  BY DEF ToSet, CONTEXT_SLOTS, PINS
<1>6. new \in ContextPage
  BY <1>3, <1>4, <1>5 DEF ContextPage
<1>7. /\ new.pageId = id /\ new.lineage = combined.lineage /\ new.slot = "evidence"
      /\ new.trust = combined.trust /\ new.freshness = combined.freshness
      /\ new.expiresAt = combined.expiresAt
  OBVIOUS
<1>. HIDE DEF new
<1>8. \A p \in evidence : /\ p \in ContextPage /\ p.pageId \in Nat /\ p.lineage \in SUBSET Nat
                          /\ p.pageId < id /\ \A i \in p.lineage : i < id
  BY DEF EvidenceInv, Pages, ContextPage
<1>9. \A i \in new.lineage : i \in Nat /\ i < id
  <2>. SUFFICES ASSUME NEW i \in new.lineage PROVE i \in Nat /\ i < id
    OBVIOUS
  <2>1. PICK q \in pages : i = q.pageId \/ i \in q.lineage
    BY <1>3, <1>7
  <2>. QED BY <1>8, <2>1
<1>10. Pages(evidence')
  <2>1. evidence' \subseteq ContextPage /\ IsFiniteSet(evidence')
    BY <1>1, <1>6, FS_AddElement DEF EvidenceInv, Pages
  <2>2. \A p, q \in evidence' : p.pageId = q.pageId => p = q
    BY <1>1, <1>4, <1>7, <1>8 DEF EvidenceInv, Pages
  <2>. QED BY <2>1, <2>2 DEF Pages
<1>11. \A p \in evidence' : p.pageId < 100 + derived' /\ \A i \in p.lineage : i < 100 + derived'
  <2>1. 100 + derived' = id + 1
    BY <1>1, <1>4
  <2>2. \A p \in evidence : p.pageId < id + 1 /\ \A i \in p.lineage : i < id + 1
    BY <1>4, <1>8
  <2>3. new.pageId < id + 1 /\ \A i \in new.lineage : i < id + 1
    BY <1>4, <1>7, <1>9
  <2>. QED BY <1>1, <2>1, <2>2, <2>3
<1>12. ASSUME NEW p \in evidence', NEW q \in evidence', q.pageId \in p.lineage
       PROVE  p.slot = "evidence" /\ AsDoubtful(p, q)
  <2>1. q \in evidence
    <3>1. q.pageId # id
      BY <1>1, <1>4, <1>8, <1>9, <1>12
    <3>. QED BY <1>1, <1>7, <3>1
  <2>2. CASE p \in evidence
    BY <1>12, <2>1, <2>2 DEF EvidenceInv
  <2>3. CASE p = new
    <3>1. PICK r \in pages : q.pageId = r.pageId \/ q.pageId \in r.lineage
      BY <1>3, <1>7, <1>12, <2>3
    <3>2. AsDoubtful(new, r)
      BY <1>3, <1>7 DEF AsDoubtful
    <3>3. CASE q.pageId = r.pageId
      <4>1. q = r
        BY <2>1, <3>3 DEF EvidenceInv, Pages
      <4>. QED BY <1>7, <2>3, <3>2, <4>1
    <3>4. CASE q.pageId \in r.lineage
      <4>1. AsDoubtful(r, q)
        BY <2>1, <3>4 DEF EvidenceInv
      <4>2. new.expiresAt \in Nat /\ r.expiresAt \in Nat /\ q.expiresAt \in Nat
        BY <1>3, <1>7, <1>8, <2>1 DEF ContextPage
      <4>3. AsDoubtful(new, q)
        BY <3>2, <4>1, <4>2 DEF AsDoubtful
      <4>. QED BY <1>7, <2>3, <4>3
    <3>. QED BY <3>1, <3>3, <3>4
  <2>. QED BY <1>1, <2>2, <2>3
<1>. QED BY <1>1, <1>4, <1>10, <1>11, <1>12 DEF EvidenceInv

(* The manifest that is built keeps what is valuable.                      *)
LEMMA BuildStep ==
  ASSUME EvidenceInv, NEW within \in PageBounds, Build(within)
  PROVE  ManifestKeepsTheValuable'
<1>. DEFINE kept == Kept(evidence, within)
            built == createContextManifest(evidence, within)
<1>1. /\ manifest' = built /\ bounds' = within /\ evidence' = evidence
      /\ Fits(Required(evidence), within) /\ Pages(evidence)
  BY DEF Build, Accepts, EvidenceInv
<1>2. KeepsTheValuable(kept, evidence, within)
  BY <1>1, KeptPages
<1>. HIDE DEF kept
<1>3. Pages(kept)
  BY <1>1, <1>2, FS_Subset DEF KeepsTheValuable, Pages
<1>4. /\ built.pages = InPageOrder(kept) /\ built.sharedPrefix = InPageOrder(Shared(kept))
      /\ built.totalBytes = Bytes(kept)
  BY DEF createContextManifest, kept, Shared
<1>. HIDE DEF built
<1>5. ToSet(built.pages) = kept
  BY <1>3, <1>4, PagesInOrder
<1>6. built.sharedPrefix = SubSeq(built.pages, 1, Len(built.sharedPrefix))
  BY <1>3, <1>4, SharedPagesFirst
<1>7. /\ Fits(kept, within) /\ built.totalBytes = Bytes(kept)
      /\ Required(evidence) \subseteq kept
      /\ \A p \in evidence \ kept, q \in kept : q.pin = "evictable" => p.pin = "evictable"
      /\ \A p \in evidence \ kept : ~Fits(AtLeastAsValuable(p, evidence), within)
  BY <1>2, <1>4 DEF KeepsTheValuable
<1>8. \A p, q \in evidence :
        p \in evidence \ kept /\ p.pin = q.pin /\ p.freshness = "timeless"
        /\ q.freshness # "timeless" => q \in evidence \ kept
  BY <1>2 DEF KeepsTheValuable
<1>. QED BY <1>1, <1>5, <1>6, <1>7, <1>8 DEF ManifestKeepsTheValuable

(* Whatever is derived and packed, doubt and value survive: through any    *)
(* chain of derivations, for any pages and any bounds                      *)
(* (src/src/durable-run/context.ts).                                       *)
THEOREM ContextsAreFaithful == EvidenceSpec => []ContextIsFaithful
<1>1. EvidenceInit => EvidenceInv /\ ManifestKeepsTheValuable
  <2>. SUFFICES ASSUME EvidenceInit PROVE EvidenceInv /\ ManifestKeepsTheValuable
    OBVIOUS
  <2>1. ManifestKeepsTheValuable
    BY DEF EvidenceInit, ManifestKeepsTheValuable
  <2>2. /\ evidence \subseteq Sources /\ derived = 0 /\ now = 0
        /\ IsFiniteSet(evidence)
    BY EvidenceAssumption, FS_Subset DEF EvidenceInit, EvidenceAssumption
  <2>3. Pages(evidence)
    BY <2>2, EvidenceAssumption DEF EvidenceAssumption, Pages
  <2>4. \A p \in evidence : p.pageId < 100 + derived /\ p.lineage = {}
    BY <2>2, EvidenceAssumption DEF EvidenceAssumption
  <2>. QED BY <2>1, <2>2, <2>3, <2>4 DEF EvidenceInv
<1>2. EvidenceInv /\ ManifestKeepsTheValuable /\ [EvidenceNext]_evidenceVars
        => EvidenceInv' /\ ManifestKeepsTheValuable'
  <2>. SUFFICES ASSUME EvidenceInv, ManifestKeepsTheValuable, [EvidenceNext]_evidenceVars
                PROVE  EvidenceInv' /\ ManifestKeepsTheValuable'
    OBVIOUS
  <2>1. ASSUME NEW pages \in SUBSET evidence, Cardinality(pages) \in 1..2, Derive(pages)
        PROVE  EvidenceInv' /\ ManifestKeepsTheValuable'
    <3>1. ManifestKeepsTheValuable'
      BY <2>1 DEF Derive, ManifestKeepsTheValuable
    <3>2. DerivedBytes \in Nat
      BY EvidenceAssumption DEF EvidenceAssumption
    <3>. QED BY <2>1, <3>1, <3>2, DeriveStep
  <2>2. ASSUME NEW within \in PageBounds, Build(within)
        PROVE  EvidenceInv' /\ ManifestKeepsTheValuable'
    <3>1. EvidenceInv'
      BY <2>2 DEF Build, EvidenceInv, Pages
    <3>. QED BY <2>2, <3>1, BuildStep
  <2>3. CASE Pass
    BY <2>3 DEF Pass, EvidenceInv, Pages, ManifestKeepsTheValuable
  <2>4. CASE UNCHANGED evidenceVars
    BY <2>4 DEF evidenceVars, EvidenceInv, Pages, ManifestKeepsTheValuable
  <2>. QED BY <2>1, <2>2, <2>3, <2>4 DEF EvidenceNext
<1>3. EvidenceInv => TaintSurvivesDerivation
  <2>. SUFFICES ASSUME EvidenceInv, NEW p \in evidence, NEW q \in evidence,
                       q.pageId \in p.lineage, Doubtful(q, now)
                PROVE  p \in requiredWriteRevalidation(evidence, now)
    BY DEF TaintSurvivesDerivation
  <2>1. p.slot = "evidence" /\ AsDoubtful(p, q)
    BY DEF EvidenceInv
  <2>2. p.expiresAt \in Nat /\ q.expiresAt \in Nat /\ now \in Nat
    BY DEF EvidenceInv, Pages, ContextPage
  <2>3. Doubtful(p, now)
    BY <2>1, <2>2 DEF AsDoubtful, Doubtful
  <2>. QED BY <2>1, <2>3 DEF requiredWriteRevalidation
<1>. QED BY <1>1, <1>2, <1>3, PTL DEF EvidenceSpec, ContextIsFaithful

===============================================================================
