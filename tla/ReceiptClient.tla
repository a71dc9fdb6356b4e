------------------------------ MODULE ReceiptClient ----------------------------
(***************************************************************************)
(* The client of the receipt feed: ClientReceiptModel of                   *)
(* packages/run-receipt-feed/src/client/model.ts follows the Session that  *)
(* is selected over a stream that reconnects, and the overlay shows one of *)
(* its receipts (client/RunReceiptOverlay.ts).                             *)
(*                                                                         *)
(* External, from how model.ts uses it: RemoteSnapshotStream delivers the  *)
(* frames in order, reports a lost carrier and follows again, and stops    *)
(* for good after any other failure; its dispose ends some time later.     *)
(***************************************************************************)
EXTENDS ReceiptFeed

CONSTANTS MaxSelections

(* The receipts of this Host's runs, the models of them that the feed hands*)
(* out, and its followers.                                                 *)
Receipt == [run : Runs, outcome : Outcomes, stages : [Stages -> Statuses],
            participation : {NoObservation}]
Feed == [active : [Runs -> Receipt \cup {None}], terminal : Receipt \cup {None}, revision : Nat]
FeedModel == [session : Sessions, instance : Nat, life : Nat, feed : Feed]
FeedFollower == [session : Sessions, open : BOOLEAN, pending : BOOLEAN]

(* None is none of them.                                                   *)
ASSUME FeedAssumption ==
  /\ Begins \subseteq Sessions \X Runs
  /\ None \notin Sessions \cup Receipt \cup FeedModel \cup FeedFollower
  /\ None \notin {"feed-disposed", "session-not-live", "follower-cap"}

VARIABLES
  target,        \* targetSessionId
  epoch,         \* selectionEpoch
  shown,         \* the client's snapshot
  chain,         \* the scheduled transitions, the first one in progress
  step,          \* where that one stands: "start" or "disposing"
  control        \* the stream in use or in disposal

clientVars == <<target, epoch, shown, chain, step, control>>

Shown(session, state, model) ==
  [session |-> session, state |-> state, model |-> model, directClear |-> FALSE]

NoStream == [session |-> None, epoch |-> 0, phase |-> "none", accepted |-> FALSE]

ClientInit ==
  /\ target \in Sessions \cup {None} /\ epoch = 1
  /\ shown = Shown(target, IF target = None THEN "ready-empty" ELSE "opening", None)
  /\ chain = <<[epoch |-> 1, session |-> target]>> /\ step = "start"
  /\ control = NoStream

(* Mutant of Current: only the Session is compared.                        *)
CurrentWithoutEpoch(e, s) == s = target

Current(e, s) == e = epoch /\ s = target

------------------------------------------------------------------------------
(* Content                                                                  *)

Running(model) == {r \in Receipts(model.feed) : r.outcome = "running"}
Ended(model) == Receipts(model.feed) \ Running(model)

clearedTerminal(previous, next) ==
  /\ previous # None /\ next.feed.revision > previous.feed.revision
  /\ Ended(previous) # {} /\ Ended(next) = {}

directClearState(previous, next, opening) ==
  \/ clearedTerminal(previous.model, next)
  \/ /\ previous.directClear /\ previous.model # None
     /\ ~(opening /\ next.feed.revision < previous.model.feed.revision)
     /\ Running(previous.model) # {} /\ Ended(next) = {}
     /\ {r.run : r \in Running(next)} = {r.run : r \in Running(previous.model)}

contentState(next, previous, opening) ==
  IF Receipts(next.feed) = {}
  THEN IF previous = None THEN "ready-empty"
       ELSE IF Receipts(previous.feed) = {} THEN "ready-empty"
       ELSE IF opening /\ next.feed.revision <= previous.feed.revision THEN "new-instance-empty"
       ELSE IF Ended(previous) # {} THEN "direct-clear-empty" ELSE "ready-empty"
  ELSE IF \E r \in Receipts(next.feed) : participation(r).status # "complete" THEN "partial"
  ELSE IF Running(next) # {} THEN "active" ELSE "settled"

Accepted(model, opening) ==
  [session |-> control.session, state |-> contentState(model, shown.model, opening),
   model |-> model, directClear |-> directClearState(shown, model, opening)]

(* fail: what was shown stays, unless the feed cannot be followed.         *)
Failed(code) ==
  IF ~Current(control.epoch, control.session) THEN shown
  ELSE IF code = "feed-unavailable" \/
          (code = "invalid-frame" /\ shown.state \in {"opening", "reconnecting"})
       THEN Shown(control.session, code, None)
  ELSE [shown EXCEPT !.state = code]

------------------------------------------------------------------------------
(* Selection                                                                *)

(* followCurrent: another Session is selected, or none.                    *)
SelectSession(s) ==
  /\ s # target /\ epoch <= MaxSelections
  /\ target' = s /\ epoch' = epoch + 1
  /\ shown' = Shown(s, IF s = None THEN "ready-empty" ELSE "opening", None)
  /\ chain' = Append(chain, [epoch |-> epoch + 1, session |-> s])
  /\ UNCHANGED <<feedVars, step, control>>

(* The next transition takes the stream in use and disposes it: its        *)
(* follower is aborted.                                                    *)
DisposePrevious ==
  /\ chain # <<>> /\ step = "start"
  /\ step' = "disposing" /\ follower' = Closed
  /\ control' = [control EXCEPT !.phase = IF @ = "none" THEN @ ELSE "disposing"]
  /\ UNCHANGED <<instance, started, life, lives, feeds, wire, others, disturbances, runs,
                 target, epoch, shown, chain>>

(* The disposal ended: the stream of the Session is opened, if it is still *)
(* the one selected.                                                       *)
OpenStream ==
  /\ chain # <<>> /\ step = "disposing"
  /\ control' = IF Current(Head(chain).epoch, Head(chain).session) /\ Head(chain).session # None
                THEN [session |-> Head(chain).session, epoch |-> Head(chain).epoch,
                      phase |-> "opening", accepted |-> FALSE]
                ELSE NoStream
  /\ chain' = Tail(chain) /\ step' = "start"
  /\ wire' = <<>> /\ follower' = None
  /\ UNCHANGED <<instance, started, life, lives, feeds, others, disturbances, runs,
                 target, epoch, shown>>

------------------------------------------------------------------------------
(* The stream                                                               *)

(* follow registers the follower and hands out the model, or tells why it  *)
(* gives none.                                                             *)
Follow ==
  /\ control.phase = "opening" /\ wire = <<>>
  /\ control' = [control EXCEPT !.phase = "following", !.accepted = FALSE]
  /\ IF Unavailable(control.session) # None
     THEN /\ wire' = <<[type |-> "unavailable", value |-> None]>>
          /\ follower' = None
     ELSE /\ wire' = <<[type |-> "baseline", value |-> Model(control.session)]>>
          /\ follower' = [session |-> control.session, open |-> TRUE, pending |-> FALSE]
  /\ UNCHANGED <<instance, started, life, lives, feeds, others, disturbances, runs,
                 target, epoch, shown, chain, step>>

(* The follower hands out what is pending.                                 *)
HandOut ==
  /\ follower # None /\ follower.pending /\ wire = <<>>
  /\ wire' = <<[type |-> "replacement", value |-> Model(follower.session)]>>
  /\ follower' = [follower EXCEPT !.pending = FALSE]
  /\ UNCHANGED <<instance, started, life, lives, feeds, others, disturbances, runs, clientVars>>

FeedUnavailable ==
  /\ shown' = Failed("feed-unavailable")
  /\ control' = [control EXCEPT !.phase = "failed"]

(* acceptBaseline                                                          *)
AcceptBaseline(model) ==
  /\ shown' = IF Current(control.epoch, control.session) THEN Accepted(model, TRUE) ELSE shown
  /\ control' = [control EXCEPT !.accepted = TRUE]

(* acceptReplacement: one that does not advance the revision fails the     *)
(* stream.                                                                 *)
AcceptReplacement(model) ==
  IF ~Current(control.epoch, control.session) THEN UNCHANGED <<shown, control>>
  ELSE IF shown.model = None THEN
       shown' = Failed("invalid-frame") /\ control' = [control EXCEPT !.phase = "failed"]
  ELSE IF model.feed.revision <= shown.model.feed.revision THEN
       shown' = Failed("invalid-frame") /\ control' = [control EXCEPT !.phase = "failed"]
  ELSE shown' = Accepted(model, FALSE) /\ UNCHANGED control

(* A frame arrives, also while the stream is being disposed.  A stream     *)
(* that fails leaves its follower.                                         *)
Receive ==
  /\ wire # <<>> /\ control.phase \in {"following", "disposing"}
  /\ LET frame == Head(wire)
     IN CASE frame.type = "unavailable" -> FeedUnavailable
          [] frame.type = "baseline" -> AcceptBaseline(frame.value)
          [] frame.type = "replacement" -> AcceptReplacement(frame.value)
  /\ wire' = <<>>
  /\ follower' = IF control'.phase = "failed" THEN None ELSE follower
  /\ UNCHANGED <<instance, started, life, lives, feeds, others, disturbances, runs,
                 target, epoch, chain, step>>

(* carrierFailed: what was shown stays, marked, and the stream follows     *)
(* again.                                                                  *)
Reconnect ==
  /\ control' = [control EXCEPT !.phase = "opening"]
  /\ shown' = IF Current(control.epoch, control.session)
              THEN [shown EXCEPT !.state = "reconnecting"] ELSE shown
  /\ follower' = None /\ wire' = <<>>

(* The carrier is lost.                                                    *)
LoseCarrier ==
  /\ control.phase = "following" /\ Disturbed
  /\ Reconnect
  /\ UNCHANGED <<instance, started, life, lives, feeds, others, runs,
                 target, epoch, chain, step>>

(* The Host closed the follower: the feed ended.                           *)
FeedEnds ==
  /\ control.phase = "following" /\ wire = <<>>
  /\ follower # None /\ ~follower.open
  /\ IF control.accepted THEN Reconnect
     ELSE /\ shown' = Failed("stream-error")
          /\ control' = [control EXCEPT !.phase = "failed"]
          /\ follower' = None /\ UNCHANGED wire
  /\ UNCHANGED <<instance, started, life, lives, feeds, others, disturbances, runs,
                 target, epoch, chain, step>>

(* What the client and its stream do by themselves.                        *)
ClientProgress == DisposePrevious \/ OpenStream \/ Follow \/ HandOut \/ Receive \/ FeedEnds

ClientStep ==
  \/ \E s \in Sessions \cup {None} : SelectSession(s)
  \/ ClientProgress \/ LoseCarrier

(* The Host and a client of its feed.                                      *)
ClientSpec ==
  FeedInit /\ ClientInit
  /\ [][(HostStep /\ UNCHANGED clientVars) \/ ClientStep]_<<feedVars, clientVars>>

------------------------------------------------------------------------------
(* Properties                                                               *)

SameFeed(model, s) == model.instance = instance /\ model.life = life[s]

(* Whatever streams were opened, lost, replaced and disposed in between,   *)
(* the client shows a model of the Session that is selected and of no      *)
(* other, never one the feed did not have, and refuses no frame of its     *)
(* own stream (client/model.ts:161, 214, 229).                             *)
ClientFollowsHost ==
  /\ shown.session = target /\ shown.state # "invalid-frame"
  /\ shown.model # None =>
       /\ shown.model.session = target
       /\ SameFeed(shown.model, target) =>
            /\ shown.model.feed.revision <= feeds[target].revision
            /\ shown.model.feed.revision = feeds[target].revision
                 => shown.model.feed = feeds[target]

UpToDate ==
  /\ chain = <<>>
  /\ \/ target = None
     \/ control.phase = "failed"
     \/ /\ shown.model # None /\ SameFeed(shown.model, target)
        /\ shown.model.feed = feeds[target]

(* Once the Host and the user come to rest, the client shows what the feed *)
(* has, or that it cannot follow: no replacement is lost between the model *)
(* it was handed and the next one (feed.ts:328, client/model.ts:229).      *)
ClientCatchesUp == <>[]UpToDate

==============================================================================
