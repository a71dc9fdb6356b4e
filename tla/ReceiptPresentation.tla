--------------------------- MODULE ReceiptPresentation --------------------------
(***************************************************************************)
(* What the overlay of the client shows of a Session's receipts            *)
(* (packages/run-receipt-feed/src/client/RunReceiptOverlay.ts): the choices*)
(* it stores and the receipt it selects by them.                           *)
(*                                                                         *)
(* A run is a number, larger when it started later (ties by its id); a     *)
(* choice names a Session and a run.                                       *)
(***************************************************************************)
EXTENDS SequencesExt, Naturals, FiniteSets

CONSTANTS
  Nothing,
  DismissedCap   \* the dismissals that are kept

createReceiptPresentationStore == [selected |-> Nothing, dismissed |-> <<>>]

select(state, choice) == [state EXCEPT !.selected = choice]

Without(dismissed, choice) == SelectSeq(dismissed, LAMBDA c : c # choice)

(* dismiss: the latest dismissals are kept.                                *)
dismiss(state, choice) ==
  LET all == Append(Without(state.dismissed, choice), choice)
      drop == IF Len(all) > DismissedCap THEN Len(all) - DismissedCap ELSE 0
  IN [state EXCEPT !.dismissed = SubSeq(all, drop + 1, Len(all))]

(* Mutant of reopen: what is reopened stays among the dismissed.           *)
ReopenDismissed(state, choice) == [state EXCEPT !.selected = choice]

reopen(state, choice) ==
  [selected |-> choice, dismissed |-> Without(state.dismissed, choice)]

Latest(runs) == IF runs = {} THEN Nothing ELSE Max(runs)

(* The run selected in this Session, or the latest that is running, or the *)
(* latest that ended.                                                      *)
Preferred(state, session, runs, running) ==
  IF \E r \in runs : state.selected = <<session, r>>
  THEN CHOOSE r \in runs : state.selected = <<session, r>>
  ELSE IF runs \cap running # {} THEN Latest(runs \cap running) ELSE Latest(runs)

selectedReceipt(state, session, runs, running) ==
  LET visible == {r \in runs : ~Contains(state.dismissed, <<session, r>>)}
  IN Preferred(state, session, visible, running)

launcherReceipt(state, session, runs, running) ==
  Preferred(state, session, runs, running)

------------------------------------------------------------------------------
(* The stores a user can reach with some choices.                          *)
After(state, choices) ==
  UNION {{select(state, c), dismiss(state, c), reopen(state, c)} : c \in choices}

Reachable(choices, n) ==
  LET within[k \in 0..n] ==
        IF k = 0 THEN {createReceiptPresentationStore}
        ELSE within[k-1] \cup UNION {After(s, choices) : s \in within[k-1]}
  IN within[n]

(* Whatever was dismissed and reopened before: what is dismissed now is    *)
(* not shown and what is reopened is, a receipt is hidden only by its own  *)
(* dismissal, and the launcher always has one                              *)
(* (client/RunReceiptOverlay.ts:59, 96, 115).                              *)
ChoicesAreKept(choices, session, runs, n) ==
  \A state \in Reachable(choices, n), running \in SUBSET runs :
    LET shown(s) == selectedReceipt(s, session, runs, running)
    IN /\ IsInjective(state.dismissed) /\ Len(state.dismissed) <= DismissedCap
       /\ \A r \in runs : /\ shown(dismiss(state, <<session, r>>)) # r
                          /\ shown(reopen(state, <<session, r>>)) = r
       /\ shown(state) = Nothing =>
            \A r \in runs : Contains(state.dismissed, <<session, r>>)
       /\ runs # {} => launcherReceipt(state, session, runs, running) \in runs

==============================================================================
