---------------------------- MODULE MCRunControl ----------------------------
(***************************************************************************)
(* Bounded instance of RunControl: one task that may not be replayed and   *)
(* one that may.                                                           *)
(***************************************************************************)
EXTENDS RunControl, TLC

MCEffectClass == 1 :> "non-idempotent-write" @@ 2 :> "read"

(* One task whose effect may be retried, for the liveness run.             *)
MCIdempotent == 1 :> "idempotent-write"

(* Controls differ by their name only.                                     *)
ControlSymmetry == Permutations(Controls)

=============================================================================
