----------------------------- MODULE Continuation ------------------------------
(***************************************************************************)
(* Delimited one-shot continuations (src/src/durable-run/continuation.ts): *)
(* issuing, validating, consuming and invalidating a token.  The identity  *)
(* of a token and its digest are model values of the caller; a token whose *)
(* digest does not match is a token nobody issued.                         *)
(***************************************************************************)
EXTENDS Naturals, FiniteSets

CONSTANT Bindings   \* what a token is bound to: plan, goal, context, environment

(* Authority is a set of grants, limits the amount left.                   *)
issueContinuation(id, current, expectedInputs, expiresAt) ==
  [continuationId |-> id, status |-> "available",
   owner |-> current.owner, fence |-> current.fence, bound |-> current.bound,
   expectedInputs |-> expectedInputs, authority |-> current.authority,
   limits |-> current.limits, issuedAt |-> current.now, expiresAt |-> expiresAt,
   updatedAt |-> current.now]

Expired(record, current) == current.now >= record.expiresAt

(* Mutant of validateContinuation: a token presented again is not noticed. *)
ValidateWithoutStatus(record, current) ==
  IF \/ Expired(record, current)
     \/ record.owner # current.owner \/ record.fence # current.fence
     \/ \E b \in Bindings : record.bound[b] # current.bound[b]
     \/ ~(record.expectedInputs \subseteq current.inputs)
     \/ ~(current.authority \subseteq record.authority)
     \/ current.limits > record.limits
  THEN "reject" ELSE "resumable"

(* The decision on presenting a token, in the order of the checks.         *)
validateContinuation(record, current) ==
  CASE record.status \in {"consumed", "invalidated"} -> "reject"
    [] record.status = "available" ->
       IF \/ Expired(record, current)
          \/ record.owner # current.owner
          \/ record.fence # current.fence
       THEN "reject"
       ELSE IF \/ \E b \in Bindings : record.bound[b] # current.bound[b]
               \/ ~(record.expectedInputs \subseteq current.inputs)
       THEN "replan"
       ELSE IF \/ ~(current.authority \subseteq record.authority)
               \/ current.limits > record.limits
       THEN "reject"
       ELSE "resumable"

consumeContinuation(record, current) ==
  [record EXCEPT !.status = "consumed", !.updatedAt = current.now]

Invalidatable(record, now) == record.status = "available" /\ now >= record.updatedAt

invalidateContinuation(record, now) ==
  [record EXCEPT !.status = "invalidated", !.updatedAt = now]

(* invariant.ts: a terminal continuation stays as it is, and an available  *)
(* one is not rewritten.                                                   *)
GateAcceptsContinuation(existing, record) ==
  existing.status # "absent" =>
    \/ existing = record
    \/ existing.status = "available" /\ record.status # "available"

==============================================================================
