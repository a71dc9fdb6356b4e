------------------------------- MODULE ReceiptFeed -----------------------------
(***************************************************************************)
(* The feed of the receipts companion (ReceiptFeedState and                *)
(* ReplacementFollower of packages/run-receipt-feed/src/feed.ts): it keeps,*)
(* for each live Session, the running receipts and one terminal, and gives *)
(* every follower the whole model of its Session and then its replacements.*)
(*                                                                         *)
(* A Session that was disposed and opened again under its id is another    *)
(* Session, told apart by its life.  A state nothing was published to is   *)
(* removed with its last follower (feed.ts:262-270); it equals the state a *)
(* Session starts with, so that every Session has one here.                *)
(***************************************************************************)
EXTENDS RunReceipt, Sequences, Totals

CONSTANTS
  Sessions,
  Runs,
  ActiveCap,     \* activeReceiptsPerSession
  FollowerCap,   \* processFollowers
  ModelWeight,   \* serializedSessionReplacementBytes: a receipt and a row weigh 1
  Begins,        \* the runs that may start: <<Session, run>>
  MaxRevision,   \* replacements of one Session
  MaxDisturbances

VARIABLES
  instance,      \* the companion's instance, 0 while none runs
  started,       \* instances started
  life,          \* the Session object that is live, 0 for none
  lives,         \* objects each Session had
  feeds,         \* what the feed keeps of each Session
  follower,      \* the follower of the client's stream, or None
  wire,          \* the frame it handed out, on its way to the client
  others,        \* followers of other clients
  disturbances,  \* Sessions disposed, companions stopped, carriers lost, other clients
  runs           \* the receipt each run holds, None before it starts

feedVars == <<instance, started, life, lives, feeds, follower, wire, others,
              disturbances, runs>>

EmptyFeed == [active |-> [r \in Runs |-> None], terminal |-> None, revision |-> 0]

FeedInit ==
  /\ instance = 1 /\ started = 1
  /\ life = [s \in Sessions |-> 1] /\ lives = life
  /\ feeds = [s \in Sessions |-> EmptyFeed]
  /\ follower = None /\ wire = <<>> /\ others = 0 /\ disturbances = 0
  /\ runs = [s \in Sessions |-> [r \in Runs |-> None]]

Actives(feed) == {feed.active[r] : r \in {q \in Runs : feed.active[q] # None}}
Receipts(feed) == Actives(feed) \cup (IF feed.terminal = None THEN {} ELSE {feed.terminal})

Rows(receipt) == Cardinality(receipt.participation.rows)

Weight(feed) == Total([r \in Receipts(feed) |-> 1 + Rows(r)])

(* The receipt a publication of a run replaces.                            *)
Previous(feed, run) ==
  IF feed.active[run] # None THEN feed.active[run]
  ELSE IF feed.terminal # None /\ feed.terminal.run = run THEN feed.terminal ELSE None

Replaced(feed, receipt) ==
  IF receipt.outcome = "running"
  THEN [feed EXCEPT !.active[receipt.run] = receipt, !.revision = @ + 1]
  ELSE [feed EXCEPT !.active[receipt.run] = None, !.terminal = receipt, !.revision = @ + 1]

(* Why publish refuses a receipt, or None.                                 *)
Refusal(feed, receipt) ==
  LET previous == Previous(feed, receipt.run)
      next == Replaced(feed, receipt)
  IN IF Rows(receipt) > Seats THEN "participant-cap"
     ELSE IF ~validateReferences(receipt) THEN "invalid-references"
     ELSE IF ~validateStaticTransitions(receipt) THEN "invalid-transition"
     ELSE IF previous = receipt THEN None
     ELSE IF previous # None /\ ~validateReplacement(previous, receipt) THEN "invalid-transition"
     ELSE IF Cardinality(Actives(next)) > ActiveCap THEN "active-receipt-cap"
     ELSE IF Weight(next) > ModelWeight THEN "session-byte-cap"
     ELSE None

(* The feed after a publication: a refused or repeated one changes nothing.*)
Published(feed, receipt) ==
  IF Refusal(feed, receipt) # None \/ Previous(feed, receipt.run) = receipt
  THEN feed ELSE Replaced(feed, receipt)

Cleared(feed) ==
  IF feed.terminal = None THEN feed
  ELSE [feed EXCEPT !.terminal = None, !.revision = @ + 1]

(* Mutant of Pushed: a replacement is kept only when none is pending and   *)
(* the follower waits for one.                                             *)
PushedWhenIdle(s) ==
  IF follower # None /\ follower.session = s /\ follower.open /\ wire = <<>>
  THEN [follower EXCEPT !.pending = TRUE] ELSE follower

(* ReplacementFollower.push keeps the latest replacement, which is the     *)
(* model of the Session.                                                   *)
Pushed(s) ==
  IF follower # None /\ follower.session = s /\ follower.open
  THEN [follower EXCEPT !.pending = TRUE] ELSE follower

Commit(s, feed) ==
  IF feed = feeds[s] THEN UNCHANGED <<feeds, follower>>
  ELSE /\ feed.revision <= MaxRevision
       /\ feeds' = [feeds EXCEPT ![s] = feed] /\ follower' = Pushed(s)

(* A run publishes; the feed refuses a Session that is not live.           *)
Publish(s, receipt) ==
  IF instance # 0 /\ life[s] # 0 THEN Commit(s, Published(feeds[s], receipt))
  ELSE UNCHANGED <<feeds, follower>>

(* A run starts, settles a stage or ends, whatever the feed answers.       *)
NextReceipts(s, run) ==
  LET receipt == runs[s][run]
  IN IF receipt = None THEN {createRunReceipt(run)}
     ELSE IF receipt.outcome # "running" THEN {}
     ELSE {settleRunReceiptStage(receipt, p, "completed") :
             p \in {p \in Stages : CanSettle(receipt, p)}}
          \cup {finishRunReceipt(receipt, o) :
                  o \in IF \E p \in Stages : CanSettle(receipt, p)
                        THEN {"failed"} ELSE {"completed"}}

RunAdvances ==
  \E begin \in Begins :
    LET s == begin[1] r == begin[2]
    IN \E receipt \in NextReceipts(s, r) :
         /\ life[s] # 0
         /\ runs' = [runs EXCEPT ![s][r] = receipt]
         /\ Publish(s, receipt)
         /\ UNCHANGED <<instance, started, life, lives, wire, others, disturbances>>

(* clearRunReceiptTerminal, when a direct Specialist was admitted.         *)
ClearTerminal(s) ==
  /\ instance # 0 /\ life[s] # 0 /\ feeds[s].terminal # None
  /\ Commit(s, Cleared(feeds[s]))
  /\ UNCHANGED <<instance, started, life, lives, wire, others, disturbances, runs>>

Closed == IF follower = None THEN None ELSE [follower EXCEPT !.open = FALSE, !.pending = FALSE]

Disturbed == disturbances < MaxDisturbances /\ disturbances' = disturbances + 1

(* The Session is disposed: drop closes its followers.                     *)
DisposeSession(s) ==
  /\ life[s] # 0 /\ Disturbed
  /\ life' = [life EXCEPT ![s] = 0]
  /\ feeds' = [feeds EXCEPT ![s] = EmptyFeed]
  /\ follower' = IF follower # None /\ follower.session = s THEN Closed ELSE follower
  /\ UNCHANGED <<instance, started, lives, wire, others, runs>>

OpenSession(s) ==
  /\ life[s] = 0 
  /\ lives' = [lives EXCEPT ![s] = @ + 1] /\ life' = [life EXCEPT ![s] = lives[s] + 1]
  /\ UNCHANGED <<instance, started, feeds, follower, wire, others, disturbances, runs>>

(* The companion is unloaded, and starts again empty.                      *)
StopCompanion ==
  /\ instance # 0 /\ instance' = 0 /\ Disturbed
  /\ feeds' = [s \in Sessions |-> EmptyFeed] /\ follower' = Closed
  /\ UNCHANGED <<started, life, lives, wire, others, runs>>

StartCompanion ==
  /\ instance = 0
  /\ started' = started + 1 /\ instance' = started + 1
  /\ UNCHANGED <<life, lives, feeds, follower, wire, others, disturbances, runs>>

(* Another client follows or leaves.                                       *)
OtherFollows ==
  /\ instance # 0 /\ Disturbed /\ others' \in {0, FollowerCap} \ {others}
  /\ UNCHANGED <<instance, started, life, lives, feeds, follower, wire, runs>>

Followers == others + IF follower # None /\ follower.open THEN 1 ELSE 0

(* Why follow gives no model, or None.                                     *)
Unavailable(s) ==
  IF instance = 0 THEN "feed-disposed"
  ELSE IF life[s] = 0 THEN "session-not-live"
  ELSE IF Followers >= FollowerCap THEN "follower-cap"
  ELSE None

Model(s) == [session |-> s, instance |-> instance, life |-> life[s], feed |-> feeds[s]]

HostStep ==
  \/ RunAdvances
  \/ \E s \in Sessions : ClearTerminal(s) \/ DisposeSession(s) \/ OpenSession(s)
  \/ StopCompanion \/ StartCompanion \/ OtherFollows

==============================================================================
