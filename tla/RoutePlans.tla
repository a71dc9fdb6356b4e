-------------------------------- MODULE RoutePlans -----------------------------
(***************************************************************************)
(* Which model route a Specialist's child is started on                    *)
(* (src/src/route.ts): the first candidate without a known contradiction.  *)
(*                                                                         *)
(* A candidate is [id, provider, maxTokens, minContext, minOutput,         *)
(* instructions], a fact [kind, id, context, tokens] where context and     *)
(* tokens, the adapter's default, may be None.  Digests stand for the plan *)
(* they are taken of.                                                      *)
(***************************************************************************)
EXTENDS Absence, Naturals, Sequences, FiniteSets

Fact(kind, route) == [kind |-> kind, id |-> route.id, context |-> None, tokens |-> None]

(* observeModelRoutes: what the adapter's answer [kind, context, tokens]   *)
(* says of a route.                                                        *)
ObservedFact(route, registered, answer) ==
  IF route.provider \notin registered THEN Fact("adapter-missing", route)
  ELSE IF answer.kind = "unknown-model" THEN Fact("rejected", route)
  ELSE IF answer.kind = "error" THEN Fact("metadata-unknown", route)
  ELSE [Fact("resolved", route) EXCEPT !.context = answer.context, !.tokens = answer.tokens]

(* materializeModelFactsObservations: one fact of each route, in order.    *)
FactsMatch(routes, facts) ==
  Len(facts) = Len(routes) /\ \A i \in DOMAIN routes : facts[i].id = routes[i].id

effectiveOutputBudget(route, fact) ==
  IF route.maxTokens # None THEN [kind |-> "explicit", tokens |-> route.maxTokens]
  ELSE IF fact.kind = "resolved" /\ fact.tokens # None
       THEN [kind |-> "adapter-default", tokens |-> fact.tokens]
       ELSE [kind |-> "unknown", tokens |-> None]

Below(value, bound) == value # None /\ bound # None /\ value < bound

rejectReasons(route, fact) ==
  CASE fact.kind = "adapter-missing" -> {"ADAPTER_MISSING"}
    [] fact.kind = "rejected" -> {"MODEL_RESOLUTION_REJECTED"}
    [] fact.kind = "metadata-unknown" -> {}
    [] OTHER ->
         {r \in {"CONTEXT_CAPACITY_TOO_SMALL"} : Below(fact.context, route.minContext)}
           \cup {r \in {"EFFECTIVE_OUTPUT_BUDGET_TOO_SMALL"} :
                   Below(effectiveOutputBudget(route, fact).tokens, route.minOutput)}

evidence(route, fact) ==
  LET budget == effectiveOutputBudget(route, fact)
  IN  [budget |-> budget,
       unknowns |->
         {u \in {"MODEL_METADATA_UNAVAILABLE"} : fact.kind = "metadata-unknown"}
           \cup {u \in {"CONTEXT_CAPACITY_UNKNOWN"} : route.minContext # None /\ fact.context = None}
           \cup {u \in {"EFFECTIVE_OUTPUT_BUDGET_UNKNOWN"} :
                   route.minOutput # None /\ budget.kind = "unknown"}]

Decision(i, kind, route, why) == [index |-> i, kind |-> kind, candidate |-> route, why |-> why]

(* compileRoutePlan: the candidates are decided on in order; what comes    *)
(* after the selected one is not looked at.                                *)
Decisions(routes, facts) ==
  LET decisions[i \in 0..Len(routes)] ==
        IF i = 0 THEN <<>>
        ELSE LET before == decisions[i - 1]
                 reasons == rejectReasons(routes[i], facts[i])
             IN  Append(before,
                   IF \E j \in 1..(i - 1) : before[j].kind = "selected"
                   THEN Decision(i, "skipped", routes[i], {"HIGHER_PRIORITY_SELECTED"})
                   ELSE IF reasons # {} THEN Decision(i, "rejected", routes[i], reasons)
                        ELSE Decision(i, "selected", routes[i], evidence(routes[i], facts[i])))
  IN  decisions[Len(routes)]

Selection(decision) ==
  LET budget == decision.why.budget
  IN  [index |-> decision.index, id |-> decision.candidate.id, provider |-> decision.candidate.provider,
       maxTokens |-> budget.tokens,
       source |-> IF budget.kind = "unknown" THEN None ELSE budget.kind,
       instructions |-> decision.candidate.instructions]

compileRoutePlan(routes, facts) ==
  LET decisions == Decisions(routes, facts)
      chosen == {i \in DOMAIN decisions : decisions[i].kind = "selected"}
  IN  [decisions |-> decisions,
       selected |-> IF chosen = {} THEN None ELSE Selection(decisions[CHOOSE i \in chosen : TRUE])]

(* assertSelectedRoutePlan: before it is applied, the selection is compared*)
(* again with the decision it was made of.                                 *)
assertSelectedRoutePlan(plan) ==
  LET chosen == {i \in DOMAIN plan.decisions : plan.decisions[i].kind = "selected"}
  IN  /\ plan.selected # None /\ Cardinality(chosen) = 1
      /\ \A i \in DOMAIN plan.decisions : plan.decisions[i].index = i
      /\ \A i \in chosen : plan.selected = Selection(plan.decisions[i])

(* applyRoutePlan: the child's options and instructions come from the      *)
(* selected route.                                                         *)
applyRoutePlan(plan, routePlan) ==
  [plan EXCEPT !.route = routePlan.selected,
               !.persona = plan.persona \/ routePlan.selected.instructions]

-----------------------------------------------------------------------------

Admissible(route, fact) == rejectReasons(route, fact) = {}

(* A plan selects the first admissible candidate, passes the check that is *)
(* made before it is applied, and, had less been known of one candidate,   *)
(* would not have selected a later one: unknown metadata never rejects.    *)
RouteIsFirstAdmissible(routes, facts) ==
  LET plan == compileRoutePlan(routes, facts)
      good == {i \in DOMAIN routes : Admissible(routes[i], facts[i])}
      Blurred(i) == [facts EXCEPT ![i] = Fact("metadata-unknown", routes[i])]
  IN  /\ (plan.selected = None) = (good = {})
      /\ plan.selected # None =>
           /\ plan.selected.index \in good
           /\ \A i \in good : plan.selected.index <= i
           /\ assertSelectedRoutePlan(plan)
           /\ \A i \in DOMAIN routes :
                compileRoutePlan(routes, Blurred(i)).selected.index <= plan.selected.index
==============================================================================
