----------------------------- MODULE SpecialistCatalog -------------------------
(***************************************************************************)
(* What a row may delegate to (src/src/compiler.ts): the Specialists of a  *)
(* configuration judged against the providers and adapters that are there, *)
(* and the plan of one delegation.                                         *)
(*                                                                         *)
(* A Specialist is [provider, options, routes, persona, filter, depth,     *)
(* background, result]: options, persona, filter and depth tell whether it *)
(* sets them, routes is None or a sequence of candidates, and result is    *)
(* "text" or "structured".  A provider is [capabilities, continuable].     *)
(***************************************************************************)
EXTENDS RoutePlans

Capabilities == {"agentOptions", "depthLimit", "persona", "toolFilter", "outputSchema"}

(* What a Specialist asks of the provider of a foreground child.           *)
Needs(specialist) ==
  {c \in {"agentOptions"} : specialist.options \/ specialist.routes # None}
    \cup {c \in {"depthLimit"} : specialist.depth}
    \cup {c \in {"persona"} :
            \/ specialist.persona
            \/ specialist.routes # None
               /\ \E i \in DOMAIN specialist.routes : specialist.routes[i].instructions}
    \cup {c \in {"toolFilter"} : specialist.filter}
    \cup {c \in {"outputSchema"} : specialist.result # "text"}

DefaultMode(config, specialist) ==
  IF config.enableRunInBackground /\ specialist.background THEN "continuable" ELSE "foreground"

(* Adapters that nobody could list are not held against a route.           *)
AdapterUnavailable(specialist, snapshot) ==
  /\ specialist.routes # None /\ snapshot.llm # None
  /\ \A i \in DOMAIN specialist.routes : specialist.routes[i].provider \notin snapshot.llm

(* The modes in which a Specialist can run.                                *)
AllowedModes(config, specialist, snapshot) ==
  IF specialist.provider \notin DOMAIN snapshot.providers \/ AdapterUnavailable(specialist, snapshot)
  THEN {}
  ELSE LET provider == snapshot.providers[specialist.provider]
       IN  {m \in {"foreground"} : Needs(specialist) \subseteq provider.capabilities}
             \cup {m \in {"continuable"} :
                     config.enableRunInBackground /\ provider.continuable /\ specialist.result = "text"}

(* The errors of a Specialist: its default mode is not supported by a      *)
(* provider that is there.                                                 *)
ProviderErrors(config, specialist, snapshot) ==
  IF specialist.provider \notin DOMAIN snapshot.providers THEN {}
  ELSE LET provider == snapshot.providers[specialist.provider]
       IN  IF DefaultMode(config, specialist) = "continuable"
           THEN {e \in {"CONTINUABLE"} : ~provider.continuable}
                  \cup {e \in {"STRUCTURED_BACKGROUND"} : specialist.result # "text"}
           ELSE Needs(specialist) \ provider.capabilities

(* compileSpecialistCatalog.                                               *)
compileSpecialistCatalog(config, snapshot) ==
  LET names == DOMAIN config.specialists
      Modes(n) == AllowedModes(config, config.specialists[n], snapshot)
      Mode(n) == DefaultMode(config, config.specialists[n])
      active == {n \in names : Mode(n) \in Modes(n)}
  IN  [specialists |-> config.specialists,
       background |-> config.enableRunInBackground,
       modes |-> [n \in names |-> Modes(n)],
       active |-> active,
       default |-> IF config.default \in active THEN config.default ELSE None,
       errors |-> UNION {ProviderErrors(config, config.specialists[n], snapshot) : n \in names}]

assertCatalogUsable(catalog) == catalog.errors = {}

Refused(code) == [error |-> code]

(* compileDelegationPlan: an invocation names a Specialist or None, and    *)
(* asks for the background, for the foreground or for neither (None).      *)
compileDelegationPlan(catalog, invocation) ==
  LET name == IF invocation.specialist # None THEN invocation.specialist ELSE catalog.default
      specialist == catalog.specialists[name]
      background == catalog.background
                      /\ IF invocation.background = None THEN specialist.background
                                                         ELSE invocation.background
      mode == IF background THEN "continuable" ELSE "foreground"
  IN  IF name = None THEN Refused("PROFILE_REQUIRED")
      ELSE IF name \notin DOMAIN catalog.specialists THEN Refused("PROFILE_UNKNOWN")
      ELSE IF name \notin catalog.active THEN Refused("PROFILE_INACTIVE")
      ELSE IF ~catalog.background /\ invocation.background = TRUE THEN Refused("BACKGROUND_DISABLED")
      ELSE IF mode = "continuable" /\ specialist.result # "text"
      THEN Refused("STRUCTURED_BACKGROUND_UNSUPPORTED")
      ELSE IF mode \notin catalog.modes[name] THEN Refused("MODE_UNSUPPORTED")
      ELSE [error |-> None, specialist |-> name, mode |-> mode, provider |-> specialist.provider,
            route |-> None, persona |-> specialist.persona, result |-> specialist.result]

-----------------------------------------------------------------------------

(* In a usable catalog a Specialist is inactive only because its provider  *)
(* or every adapter it could use is missing, the default is active, and a  *)
(* plan asks of the provider nothing it cannot do: a foreground child only *)
(* what it has a capability for, a background child only what can go on.   *)
PlansRunAsCompiled(config, snapshot, invocation) ==
  LET catalog == compileSpecialistCatalog(config, snapshot)
      plan == compileDelegationPlan(catalog, invocation)
      Provider(n) == snapshot.providers[config.specialists[n].provider]
  IN  assertCatalogUsable(catalog) =>
        /\ \A n \in DOMAIN config.specialists \ catalog.active :
             \/ config.specialists[n].provider \notin DOMAIN snapshot.providers
             \/ AdapterUnavailable(config.specialists[n], snapshot)
        /\ catalog.default \in catalog.active \cup {None}
        /\ plan.error = None =>
             LET specialist == config.specialists[plan.specialist]
             IN  /\ plan.specialist \in catalog.active
                 /\ plan.mode = "foreground" => Needs(specialist) \subseteq Provider(plan.specialist).capabilities
                 /\ plan.mode = "continuable" =>
                      /\ config.enableRunInBackground /\ invocation.background # FALSE
                      /\ Provider(plan.specialist).continuable /\ specialist.result = "text"
==============================================================================
