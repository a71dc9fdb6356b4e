---------------------------- MODULE CommittedFacts ----------------------------
(***************************************************************************)
(* What an append-only store of facts promises its readers, whatever the   *)
(* facts are: one commit touches one fact, a fact that became final keeps  *)
(* its content for ever, and when the store is sealed every fact is final. *)
(* The abstract specification the Legion journal implements: final facts   *)
(* are the terminal records of docs/journal-contract-v1.md, and a terminal *)
(* run seals its journal.                                                  *)
(***************************************************************************)

CONSTANTS
  Facts,    \* the identities of the facts
  Absent    \* the content of a fact nobody committed yet

VARIABLES
  content,  \* what is committed, per fact
  final     \* the facts that may not change any more

Init ==
  /\ content = [f \in Facts |-> Absent]
  /\ final = {}

(* f is committed anew; it may become final, and its commit may seal the   *)
(* whole store.                                                            *)
Commit(f) ==
  /\ f \notin final
  /\ DOMAIN content' = Facts
  /\ \A g \in Facts \ {f} : content'[g] = content[g]
  /\ final' \in {final, final \cup {f}, Facts}

Next == \E f \in Facts : Commit(f)

Spec == Init /\ [][Next]_<<content, final>>

==============================================================================
