------------------------------- MODULE Delegation ------------------------------
(***************************************************************************)
(* One Specialist call of the published tool (execute of src/src/index.ts):*)
(* it plans against the catalog it was published with, observes the model  *)
(* routes, and starts a child.  A background child is handed over; the     *)
(* child of a foreground call is waited for and disposed                   *)
(* (src/src/child-run.ts, src/src/settlement.ts).                          *)
(*                                                                         *)
(* External, from how these files use the Host: adapters come and go and   *)
(* answer for a model, start() publishes a child or fails some time later, *)
(* the child ends, and its disposal succeeds, fails or takes long.         *)
(***************************************************************************)
EXTENDS SpecialistCatalog

CONSTANTS
  Config,        \* the configuration of the row
  Snapshots,     \* what the registries held when the catalog was compiled
  Invocations,
  Adapters,
  Answers        \* what an adapter may say of a model

(* What is absent is told from what a call comes to and from the errors of *)
(* a plan.                                                                 *)
ASSUME DelegationAssumption ==
  None \notin {"result", "child", "error", "completed", "failed", "cancelled",
               "PROFILE_REQUIRED", "PROFILE_UNKNOWN", "PROFILE_INACTIVE",
               "BACKGROUND_DISABLED", "STRUCTURED_BACKGROUND_UNSUPPORTED",
               "MODE_UNSUPPORTED"}

VARIABLES
  snapshot,      \* the snapshot of the published generation
  registered,    \* the adapters that are registered
  signalled,     \* has the signal of the call aborted?
  progress,         \* "idle", "observing", "admitting", "running", "cleaning" or "done"
  delegation,    \* the plan of the call
  facts,         \* what was observed so far, by route
  child,         \* "none", "starting", "running", "disposing", "disposed" or "broken"
  adaptersAtStart, \* the adapters that were there when the child was started
  execution,     \* "completed", "failed" or "cancelled"
  outcome,       \* of the call: "result", "child" or "error"
  receipts       \* does the parent still show its last terminal receipt?

delegationVars ==
  <<snapshot, registered, signalled, progress, delegation, facts, child, adaptersAtStart, execution, outcome, receipts>>
callVars == <<delegation, facts>>
childVars == <<child, adaptersAtStart, execution, receipts>>

Routes == Config.specialists[delegation.specialist].routes

DelegationInit ==
  /\ snapshot \in Snapshots
  /\ assertCatalogUsable(compileSpecialistCatalog(Config, snapshot))
  /\ registered \in SUBSET Adapters
  /\ signalled \in BOOLEAN
  /\ progress = "idle" /\ delegation = None /\ facts = <<>>
  /\ child = "none" /\ adaptersAtStart = None /\ execution = None
  /\ outcome = None /\ receipts = TRUE

Ends(result) == progress' = "done" /\ outcome' = result

(* settleForeground: the call succeeds when its child completed and is     *)
(* gone, and a structured result has the promised form.                    *)
SettlesWith(result, clean) ==
  /\ execution' = result
  /\ \E wellFormed \in BOOLEAN :
       /\ delegation'.result = "text" => wellFormed
       /\ Ends(IF result = "completed" /\ clean /\ wellFormed THEN "result" ELSE "error")

(* requireSelectedLlmAdapter: asked again in the step that starts the      *)
(* child, however long ago the adapter was observed.                       *)
requireSelectedLlmAdapter(p) == p.route = None \/ p.route.provider \in registered

(* The start of the child: startContinuable, or start under settleChildRun,*)
(* which does not start anything for a call that is aborted.               *)
Start(p) ==
  /\ delegation' = p
  /\ IF ~requireSelectedLlmAdapter(p) \/ (signalled /\ p.mode = "continuable")
     THEN Ends("error") /\ UNCHANGED childVars
     ELSE IF signalled
          THEN SettlesWith("cancelled", TRUE) /\ UNCHANGED <<child, adaptersAtStart, receipts>>
          ELSE /\ child' = "starting" /\ adaptersAtStart' = registered /\ progress' = "admitting"
               /\ UNCHANGED <<execution, outcome, receipts>>

(* execute: plan, then ask for the facts of every route whose adapter is   *)
(* listed.                                                                 *)
Execute(invocation) ==
  LET p == compileDelegationPlan(compileSpecialistCatalog(Config, snapshot), invocation)
      routes == Config.specialists[p.specialist].routes
  IN  /\ progress = "idle"
      /\ IF p.error # None
         THEN Ends("error") /\ UNCHANGED <<callVars, childVars>>
         ELSE IF routes = None THEN Start(p) /\ UNCHANGED facts
         ELSE IF signalled THEN Ends("error") /\ UNCHANGED <<callVars, childVars>>
         ELSE /\ delegation' = p /\ progress' = "observing"
              /\ facts' = [i \in DOMAIN routes |->
                             IF routes[i].provider \in registered THEN None
                             ELSE ObservedFact(routes[i], registered, None)]
              /\ UNCHANGED <<childVars, outcome>>
      /\ UNCHANGED <<snapshot, registered, signalled>>

(* observeModelRoutes: an adapter answers, or is gone by then; an answer   *)
(* after the abort, or one that makes no sense, ends the call.             *)
ModelResolved(i, answer) ==
  /\ progress = "observing" /\ facts[i] = None
  /\ IF signalled \/ (answer.kind = "invalid" /\ Routes[i].provider \in registered)
     THEN Ends("error") /\ UNCHANGED facts
     ELSE /\ facts' = [facts EXCEPT ![i] = ObservedFact(Routes[i], registered, answer)]
          /\ UNCHANGED <<progress, outcome>>
  /\ UNCHANGED <<snapshot, registered, signalled, delegation, childVars>>

(* All the facts are there: select the route and start the child on it.    *)
Planned ==
  /\ progress = "observing" /\ \A i \in DOMAIN facts : facts[i] # None
  /\ LET routePlan == compileRoutePlan(Routes, facts)
     IN  IF ~FactsMatch(Routes, facts) \/ routePlan.selected = None
         THEN Ends("error") /\ UNCHANGED <<delegation, childVars>>
         ELSE Start(applyRoutePlan(delegation, routePlan))
  /\ UNCHANGED <<snapshot, registered, signalled, facts>>

(* The signal aborts.  A foreground call ends at once and leaves the child *)
(* that is still being started to its late disposal, or disposes the child *)
(* it has.                                                                 *)
CallAborts ==
  /\ ~signalled /\ progress # "done" /\ signalled' = TRUE
  /\ IF delegation # None /\ delegation.mode = "foreground" /\ progress \in {"admitting", "running"}
     THEN IF progress = "admitting"
          THEN execution' = "cancelled" /\ Ends("error") /\ UNCHANGED child
          ELSE execution' = "cancelled" /\ child' = "disposing" /\ progress' = "cleaning" /\ UNCHANGED outcome
     ELSE UNCHANGED <<progress, child, execution, outcome>>
  /\ UNCHANGED <<snapshot, registered, callVars, adaptersAtStart, receipts>>

(* Mutant of StartPublishes: a child published after the call ended stays. *)
StartPublishesToNobody ==
  /\ child = "starting" /\ receipts' = FALSE
  /\ child' = "running"
  /\ IF progress = "done" THEN UNCHANGED <<progress, outcome>>
     ELSE IF delegation.mode = "continuable" THEN Ends("child")
     ELSE progress' = "running" /\ UNCHANGED outcome
  /\ UNCHANGED <<snapshot, registered, signalled, callVars, adaptersAtStart, execution>>

(* start() returns a child.  The parent's last terminal receipt goes; a    *)
(* child nobody waits for any more is disposed.                            *)
StartPublishes ==
  /\ child = "starting" /\ receipts' = FALSE
  /\ child' = IF progress = "done" THEN "disposing" ELSE "running"
  /\ IF progress = "done" THEN UNCHANGED <<progress, outcome>>
     ELSE IF delegation.mode = "continuable" THEN Ends("child")
     ELSE progress' = "running" /\ UNCHANGED outcome
  /\ UNCHANGED <<snapshot, registered, signalled, callVars, adaptersAtStart, execution>>

StartFails ==
  /\ child = "starting" /\ child' = "none"
  /\ IF progress = "done" THEN UNCHANGED <<progress, outcome, execution>>
     ELSE Ends("error") /\ execution' = IF delegation.mode = "foreground" THEN "failed" ELSE execution
  /\ UNCHANGED <<snapshot, registered, signalled, callVars, adaptersAtStart, receipts>>

(* The child of a foreground call ends, well or not: what the execution    *)
(* came to is fixed before the child is disposed.                          *)
ChildSettles ==
  /\ progress = "running"
  /\ execution' \in {"completed", "failed"}
  /\ child' = "disposing" /\ progress' = "cleaning"
  /\ UNCHANGED <<snapshot, registered, signalled, callVars, adaptersAtStart, outcome, receipts>>

(* beginCleanup: the disposal ends, before or after the call gave it up.   *)
Disposed ==
  /\ child = "disposing" /\ child' \in {"disposed", "broken"}
  /\ IF progress = "cleaning" THEN UNCHANGED delegation /\ SettlesWith(execution, child' = "disposed")
     ELSE UNCHANGED <<delegation, progress, execution, outcome>>
  /\ UNCHANGED <<snapshot, registered, signalled, facts, adaptersAtStart, receipts>>

CleanupTimesOut ==
  /\ progress = "cleaning" /\ Ends("error")
  /\ UNCHANGED <<snapshot, registered, signalled, callVars, childVars>>

AdapterChanges(adapter) ==
  /\ progress # "done"
  /\ registered' = IF adapter \in registered THEN registered \ {adapter} ELSE registered \cup {adapter}
  /\ UNCHANGED <<snapshot, signalled, progress, callVars, childVars, outcome>>

DelegationStep ==
  \/ \E invocation \in Invocations : Execute(invocation)
  \/ \E i \in DOMAIN facts, answer \in Answers : ModelResolved(i, answer)
  \/ Planned \/ CallAborts
  \/ StartPublishes \/ StartFails \/ ChildSettles \/ Disposed \/ CleanupTimesOut
  \/ \E adapter \in Adapters : AdapterChanges(adapter)

DelegationSpec == DelegationInit /\ [][DelegationStep]_delegationVars

-----------------------------------------------------------------------------

(* A child is started only on an adapter that is registered at that moment,*)
(* though it was observed earlier; a foreground call leaves no child behind*)
(* that is not being disposed, however abort, publication and disposal     *)
(* fall, and returns a result only of a child that is gone; a background   *)
(* call ends with its child in being.                                      *)
DelegationOwnsItsChild ==
  /\ adaptersAtStart # None /\ delegation.route # None => delegation.route.provider \in adaptersAtStart
  /\ progress = "done" /\ child = "running" => delegation.mode = "continuable" /\ outcome = "child"
  /\ outcome = "result" => child = "disposed" /\ execution = "completed"
  /\ outcome = "child" => child = "running"
  /\ progress = "cleaning" => execution # None
  /\ adaptersAtStart # None /\ delegation.route # None => delegation.route.index =
       compileRoutePlan(Routes, facts).selected.index
==============================================================================
