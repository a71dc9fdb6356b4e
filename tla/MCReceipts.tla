------------------------------- MODULE MCReceipts ------------------------------
(***************************************************************************)
(* Bounded instance of the Run Receipts of a Session.  A behaviour follows *)
(* one of three parts:                                                     *)
(*   "client"     the feed of the Host and a browser that selects Sessions *)
(*                (ReceiptFeed, ReceiptClient)                             *)
(*   "observer"   the children one run observes, and the receipts it gives *)
(*                the feed (ReceiptParticipation)                          *)
(*   "tables"     the token accounts and the choices of the overlay, over  *)
(*                bounded inputs                                           *)
(***************************************************************************)
EXTENDS ReceiptClient, ReceiptParticipation, ReceiptTokens, TLC

Presentation == INSTANCE ReceiptPresentation WITH Nothing <- None, DismissedCap <- 2

VARIABLE part
mcvars == <<part, feedVars, clientVars, observerVars>>

MCStages == "s" :> [order |-> 0, after |-> {}, expectedChildren |-> 2]
MCChildren == 1..5
MCParentOf == 1 :> Parent @@ 2 :> Parent @@ 3 :> 1 @@ 4 :> 3 @@ 5 :> 1
MCCalls == {<<1,1>>, <<2,1>>, <<3,1>>, <<3,2>>, <<4,1>>, <<5,1>>}
MCScenarios == {{<<1,1>>, <<3,1>>, <<4,1>>}, {<<1,1>>, <<3,1>>, <<3,2>>}, {<<1,1>>, <<2,1>>, <<5,1>>}, {}}
CONSTANTS s1, r1, r2
MCBegins == {<<s1, r1>>, <<s1, r2>>}
MCBindings == 1 :> [stage |-> "s", index |-> 0] @@ 2 :> [stage |-> "s", index |-> 1]

MCUsage(input, output, read, write, total) ==
  "input" :> input @@ "output" :> output @@ "read" :> read @@ "write" :> write @@ "total" :> total

TurnUsages == {MCUsage(1, 1, 1, 0, 3), MCUsage(1, 0, None, None, 1), None}
SummaryUsages ==
  {MCUsage(1, 1, 1, 0, 3), MCUsage(1, 0, None, None, 1), MCUsage(1, 1, None, 2, 4),
   MCUsage(1, 0, 1, 1, None), MCUsage(None, 1, None, None, None), MCUsage(1, 1, 0, 0, 5)}
LogEvents ==
  [type : {"start"}, turn : {1, 2}, usage : {None}] \cup [type : {"end"}, turn : {1, 2}, usage : TurnUsages]
    \cup [type : {"summary"}, turn : {0}, usage : SummaryUsages]
Logs == UNION {[1..n -> LogEvents] : n \in 0..3}
FewEvents == {e \in LogEvents : e.turn < 2 /\ e.usage \in {None, MCUsage(1, 0, None, None, 1), MCUsage(1, 1, 1, 0, 3)}}

TablesAgree ==
  /\ SamplesAgree(Logs)
  /\ AccountsAgree({1, 2}, {sessionTokenSample(l) : l \in UNION {[1..n -> FewEvents] : n \in 0..2}}, {0, 1})
  /\ Presentation!ChoicesAreKept({1, 2} \X {1, 2, 3}, 1, {1, 2, 3}, 3)

MCInit ==
  /\ part \in {"client", "observer", "tables"}
  /\ FeedInit /\ ClientInit /\ ObserverInit
  /\ target = IF part = "client" THEN s1 ELSE None
  /\ part = "observer" => \E c \in Calls : calls[c] # "never"
  /\ part # "observer" => calls = [c \in Calls |-> "never"]

MCNext ==
  /\ UNCHANGED part
  /\ \/ /\ part = "client" /\ UNCHANGED observerVars
        /\ \/ HostStep /\ UNCHANGED clientVars
           \/ ClientStep
     \/ /\ part = "observer" /\ UNCHANGED clientVars
        /\ ObserverStep

(* The browser comes to show what the Host holds (ClientCatchesUp).        *)
SelectedClientCatchesUp == part = "client" => ClientCatchesUp

(* Token accounts and the choices of the overlay are what their rows and   *)
(* what the user did make them (src/src/run-receipt.ts:519,                *)
(* packages/run-receipt-feed/src/client/RunReceiptOverlay.ts:45).          *)
ReceiptTablesHold == part = "tables" => TablesAgree

MCSpec == MCInit /\ [][MCNext]_mcvars
          /\ WF_mcvars(part = "client" /\ UNCHANGED <<part, observerVars>> /\ ClientProgress)
==============================================================================
