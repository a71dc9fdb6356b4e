------------------------------- MODULE Publication -----------------------------
(***************************************************************************)
(* A delegation row and its configuration: where the configuration comes   *)
(* from (src/src/settings.ts), how a change of it becomes the published    *)
(* generation (src/src/internal/republication.ts) and how a generation     *)
(* becomes the registered tool (applyDelegationRow of src/src/index.ts).   *)
(*                                                                         *)
(* A configuration stands for the composition entry with one stored user   *)
(* section layered over it.  One settings row may serve the namespace; a   *)
(* delegation row that finds it unserved owns it.                          *)
(*                                                                         *)
(* External, from how the sources above use the Host: the settings service *)
(* keeps the stored section and lists only registered namespaces, the      *)
(* registries keep providers and tools and announce changes of them.       *)
(***************************************************************************)
EXTENDS Absence, FiniteSets, Naturals

CONSTANTS
  Entry,         \* the composition entry
  Sections,      \* the configurations a stored section leads to
  Rejected,      \* those this row cannot materialize, though any row may store them
  Unloadable,    \* those whose prompt files cannot be loaded
  Routed,        \* the configurations that need an LLM adapter
  ToolOf,        \* toolName
  ProviderOf,    \* subagentProvider of the Specialist
  MaxUpsets      \* bound: changes of the registries

VARIABLES
  service,       \* is the settings service mounted?
  document,      \* the stored user section, or None
  owner,         \* who registered the namespace: "nobody", "settings" or "row"
  settingsRow,   \* "absent", "waiting" for the service, or "attached"
  attached,      \* the row's wiring: "no", "owning", "consuming" or "rejected"
  rowPhase,      \* "attaching", "materializing", "published" or "stopped"
  awaited,       \* does the start of the row wait for the attachment?
  prepublish,    \* prepublishPending
  passing,       \* running: "idle", "reading", or "ended" before the finally callback
  reading,       \* the configuration being materialized
  pending,
  generation,
  tool,          \* the name the row has registered
  definition,    \* activeDefinition
  activeSnapshot,
  failed,        \* registrationFailed
  providers,     \* each is "absent", "present", or "lacking" a capability
  adapters,      \* is there an LLM adapter?
  taken,         \* tool names registered by others
  upsets,
  unannounced    \* the namespace changed hands since the row last read its source

settingsVars == <<service, document, owner, settingsRow, attached, unannounced>>
passVars == <<prepublish, passing, reading, pending>>
surfaceVars == <<tool, definition, activeSnapshot, failed>>
registryVars == <<providers, adapters, taken, upsets>>
rowVars == <<settingsVars, rowPhase, awaited, passVars, generation, surfaceVars, registryVars>>

Configurations == Sections \cup {Entry}
Names == {ToolOf[c] : c \in Configurations}
Providers == {ProviderOf[c] : c \in Configurations}

(* A configuration is there, and names its tool.                           *)
ASSUME PublicationAssumption ==
  None \notin Configurations /\ \A c \in Configurations : ToolOf[c] # None

PublicationInit ==
  /\ service \in BOOLEAN /\ awaited = service
  /\ document \in Sections \cup {None}
  /\ settingsRow \in {"absent", "waiting"}
  /\ owner = "nobody" /\ attached = "no" /\ unannounced = FALSE
  /\ rowPhase = "attaching"
  /\ prepublish = FALSE /\ passing = "idle" /\ reading = None /\ pending = FALSE
  /\ generation = None
  /\ tool = None /\ definition = None /\ activeSnapshot = None /\ failed = FALSE
  /\ providers \in [Providers -> {"absent", "present", "lacking"}]
  /\ adapters \in BOOLEAN /\ taken \in SUBSET Names /\ upsets = 0

-----------------------------------------------------------------------------
(* The source of the configuration.                                        *)

(* layerSettingsSection: an absent section leaves the entry.               *)
layerSettingsSection(section) == IF section = None THEN Entry ELSE section

(* What configSource() reads: the scope of an owner, the layered section   *)
(* of a consumer while somebody serves the namespace, or the entry.        *)
Source(wiring, served, section) ==
  CASE wiring = "owning" -> layerSettingsSection(section)
    [] wiring = "consuming" /\ served /\ section \notin Rejected -> layerSettingsSection(section)
    [] OTHER -> Entry

(* request of the serializer, which finds the row published and running.   *)
Request(source) ==
  IF passing = "idle"
  THEN passing' = "reading" /\ reading' = source /\ pending' = FALSE
  ELSE pending' = TRUE /\ UNCHANGED <<passing, reading>>

(* onChange: republish.                                                    *)
Republish(source) ==
  CASE rowPhase = "published" -> Request(source) /\ UNCHANGED prepublish
    [] rowPhase \in {"attaching", "materializing"} ->
         prepublish' = TRUE /\ UNCHANGED <<passing, reading, pending>>
    [] OTHER -> UNCHANGED passVars

(* registerOwnedSection: the service checks the stored section; a section  *)
(* the row cannot act on leaves it on its entry, with nothing watched.     *)
registerOwnedSection ==
  /\ owner = "nobody"
  /\ IF document \in Rejected
     THEN attached' = "rejected" /\ UNCHANGED <<owner, passVars>>
     ELSE /\ attached' = "owning" /\ owner' = "row"
          /\ Republish(Source("owning", TRUE, document))

(* consumeServedSection: read the stored section over this row's entry.    *)
consumeServedSection ==
  /\ owner # "nobody"
  /\ attached' = "consuming" /\ UNCHANGED owner
  /\ Republish(Source("consuming", TRUE, document))

(* installSettingsSection: the callback of the injected scope.             *)
RowAttaches ==
  /\ service /\ attached = "no" /\ rowPhase # "stopped"
  /\ registerOwnedSection \/ consumeServedSection
  /\ unannounced' = FALSE
  /\ UNCHANGED <<service, document, settingsRow, rowPhase, awaited, generation, surfaceVars, registryVars>>

(* A namespace that is registered or released is announced to nobody.      *)
Unannounced == unannounced' = (unannounced \/ attached = "consuming")

(* registerSettingsNamespace: the settings row serves the namespace unless *)
(* another row does.                                                       *)
registerSettingsNamespace ==
  /\ service /\ settingsRow = "waiting"
  /\ settingsRow' = "attached"
  /\ IF owner = "nobody" THEN owner' = "settings" /\ Unannounced
                         ELSE UNCHANGED <<owner, unannounced>>
  /\ UNCHANGED <<service, document, attached, rowPhase, awaited, passVars, generation, surfaceVars, registryVars>>

SettingsRowUnloads ==
  /\ settingsRow # "absent" /\ settingsRow' = "absent"
  /\ IF owner = "settings" THEN owner' = "nobody" /\ Unannounced
                           ELSE UNCHANGED <<owner, unannounced>>
  /\ UNCHANGED <<service, document, attached, rowPhase, awaited, passVars, generation, surfaceVars, registryVars>>

SettingsRowMounts ==
  /\ settingsRow = "absent" /\ settingsRow' = "waiting"
  /\ UNCHANGED <<service, document, owner, attached, unannounced>>
  /\ UNCHANGED <<rowPhase, awaited, passVars, generation, surfaceVars, registryVars>>

(* A user stores a section through a surface that is served; its owner     *)
(* refuses what it cannot materialize, a settings row only what no row     *)
(* could.  Both the owner's scope and the consumers learn of it.           *)
Store(section) ==
  /\ service /\ owner # "nobody" /\ section # document
  /\ owner = "row" => section \notin Rejected
  /\ document' = section
  /\ IF attached \in {"owning", "consuming"}
     THEN Republish(Source(attached, TRUE, section)) /\ unannounced' = FALSE
     ELSE UNCHANGED <<passVars, unannounced>>
  /\ UNCHANGED <<service, owner, settingsRow, attached, rowPhase, awaited, generation, surfaceVars, registryVars>>

(* installEntryFallback: the service goes, the row falls back to its entry.*)
ServiceDetaches ==
  /\ service /\ service' = FALSE
  /\ owner' = "nobody" /\ attached' = "no" /\ unannounced' = FALSE
  /\ settingsRow' = IF settingsRow = "attached" THEN "waiting" ELSE settingsRow
  /\ IF attached \in {"owning", "consuming"} THEN Republish(Entry) ELSE UNCHANGED passVars
  /\ UNCHANGED <<document, rowPhase, awaited, generation, surfaceVars, registryVars>>

ServiceMounts ==
  /\ ~service /\ service' = TRUE
  /\ UNCHANGED <<document, owner, settingsRow, attached, unannounced>>
  /\ UNCHANGED <<rowPhase, awaited, passVars, generation, surfaceVars, registryVars>>

-----------------------------------------------------------------------------
(* The tool surface.                                                       *)

(* What compiling a generation against the registries comes to: a usable   *)
(* catalog with or without active Specialists, or a refused one.           *)
Compiled(config, available, routes) ==
  IF available[ProviderOf[config]] = "lacking" THEN "refused"
  ELSE IF available[ProviderOf[config]] = "absent" \/ (config \in Routed /\ ~routes)
  THEN "inactive" ELSE "active"

(* A tool under another name is withdrawn before the new one is registered.*)
Kept(config) == IF tool = ToolOf[config] THEN tool ELSE None

RefreshThrows(config, available, routes, names) ==
  LET catalog == Compiled(config, available, routes)
  IN  \/ catalog = "refused"
      \/ catalog = "active" /\ Kept(config) = None /\ ToolOf[config] \in names

(* refresh.                                                                *)
Refresh(config, available, routes, names) ==
  LET catalog == Compiled(config, available, routes)
      collides == Kept(config) = None /\ ToolOf[config] \in names
  IN  \/ /\ catalog = "refused"
         /\ failed' = FALSE /\ UNCHANGED <<tool, definition, activeSnapshot>>
      \/ /\ catalog = "inactive"
         /\ tool' = None /\ definition' = None /\ activeSnapshot' = config /\ failed' = FALSE
      \/ /\ catalog = "active" /\ ~collides
         /\ tool' = ToolOf[config] /\ definition' = config /\ activeSnapshot' = config /\ failed' = FALSE
      \/ /\ catalog = "active" /\ collides
         /\ tool' = None /\ definition' = None /\ failed' = TRUE /\ UNCHANGED activeSnapshot

Upset == upsets < MaxUpsets /\ upsets' = upsets + 1

(* subagent/provider-added and -removed: of a provider the generation uses.*)
ProviderChanges(provider, state) ==
  /\ Upset
  /\ (providers[provider] = "absent") # (state = "absent")
  /\ providers' = [providers EXCEPT ![provider] = state]
  /\ IF rowPhase = "published" /\ ProviderOf[generation] = provider
     THEN Refresh(generation, providers', adapters, taken)
     ELSE UNCHANGED surfaceVars
  /\ UNCHANGED <<settingsVars, rowPhase, awaited, passVars, generation, adapters, taken>>

AdaptersUpdated ==
  /\ Upset
  /\ adapters' = ~adapters
  /\ IF rowPhase = "published" THEN Refresh(generation, providers, adapters', taken) ELSE UNCHANGED surfaceVars
  /\ UNCHANGED <<settingsVars, rowPhase, awaited, passVars, generation, providers, taken>>

(* tools/change: another plugin registers or releases a name.              *)
ToolsChange(name) ==
  /\ Upset
  /\ name # tool
  /\ taken' = IF name \in taken THEN taken \ {name} ELSE taken \cup {name}
  /\ IF rowPhase = "published" /\ failed
     THEN Refresh(generation, providers, adapters, taken')
     ELSE UNCHANGED surfaceVars
  /\ UNCHANGED <<settingsVars, rowPhase, awaited, passVars, generation, providers, adapters>>

-----------------------------------------------------------------------------
(* The row.                                                                *)

(* The disposers of the row: the tool goes, and with its scope the         *)
(* registration of the namespace.                                          *)
Unwound ==
  /\ rowPhase' = "stopped" /\ attached' = "no" /\ unannounced' = FALSE
  /\ owner' = IF owner = "row" THEN "nobody" ELSE owner
  /\ tool' = None /\ definition' = None /\ activeSnapshot' = None

(* The wiring is awaited when a service was there; the first generation    *)
(* is read after it, so that what was asked for until now is forgotten.    *)
StartMaterializing ==
  /\ rowPhase = "attaching" /\ (awaited => attached # "no")
  /\ rowPhase' = "materializing"
  /\ prepublish' = FALSE /\ unannounced' = FALSE
  /\ reading' = Source(attached, owner # "nobody", document)
  /\ UNCHANGED <<service, document, owner, settingsRow, attached, awaited>>
  /\ UNCHANGED <<passing, pending, generation, surfaceVars, registryVars>>

(* The first publication; a row that cannot make it does not start.        *)
PublishFirst ==
  /\ rowPhase = "materializing"
  /\ UNCHANGED <<service, document, settingsRow, awaited, registryVars>>
  /\ IF reading \in Unloadable \/ RefreshThrows(reading, providers, adapters, taken)
     THEN /\ Unwound
          /\ reading' = None /\ prepublish' = FALSE
          /\ UNCHANGED <<passing, pending, generation, failed>>
     ELSE /\ rowPhase' = "published" /\ generation' = reading
          /\ Refresh(reading, providers, adapters, taken)
          /\ prepublish' = FALSE
          /\ IF prepublish THEN /\ passing' = "reading"
                                /\ reading' = Source(attached, owner # "nobody", document)
                           ELSE /\ reading' = None /\ UNCHANGED passing
          /\ unannounced' = (unannounced /\ ~prepublish)
          /\ UNCHANGED <<owner, attached, pending>>

(* The end of a pass: publishLatest, and the condition of the loop.        *)
PassEnds ==
  /\ passing = "reading"
  /\ IF rowPhase = "stopped" \/ reading \in Unloadable
     THEN UNCHANGED <<generation, surfaceVars>>
     ELSE generation' = reading /\ Refresh(reading, providers, adapters, taken)
  /\ IF pending /\ rowPhase = "published"
     THEN /\ reading' = Source(attached, owner # "nobody", document)
          /\ pending' = FALSE /\ unannounced' = FALSE
          /\ UNCHANGED passing
     ELSE passing' = "ended" /\ reading' = None /\ UNCHANGED <<pending, unannounced>>
  /\ UNCHANGED <<service, document, owner, settingsRow, attached, rowPhase, awaited, prepublish, registryVars>>

(* Mutant of Finally: the serializer forgets what was asked after the last *)
(* pass.                                                                   *)
FinallyOnlyIdle ==
  /\ passing = "ended" /\ passing' = "idle"
  /\ UNCHANGED <<settingsVars, rowPhase, awaited, prepublish, reading, pending, generation, surfaceVars, registryVars>>

(* The finally callback of the serializer, which asks again for a request  *)
(* that came between the loop and itself.                                  *)
Finally ==
  /\ passing = "ended"
  /\ IF pending /\ rowPhase = "published"
     THEN /\ passing' = "reading" /\ pending' = FALSE
          /\ reading' = Source(attached, owner # "nobody", document)
          /\ unannounced' = FALSE
     ELSE passing' = "idle" /\ UNCHANGED <<pending, reading, unannounced>>
  /\ UNCHANGED <<service, document, owner, settingsRow, attached, rowPhase, awaited, prepublish>>
  /\ UNCHANGED <<generation, surfaceVars, registryVars>>

(* The row is disposed.                                                    *)
RowStops ==
  /\ rowPhase # "stopped" /\ Unwound
  /\ IF rowPhase = "materializing" THEN reading' = None ELSE UNCHANGED reading
  /\ UNCHANGED <<service, document, settingsRow, awaited, prepublish, passing, pending>>
  /\ UNCHANGED <<generation, failed, registryVars>>

RowStep ==
  \/ RowAttaches \/ registerSettingsNamespace \/ SettingsRowUnloads \/ SettingsRowMounts
  \/ \E section \in Sections \cup {None} : Store(section)
  \/ ServiceDetaches \/ ServiceMounts
  \/ \E p \in Providers, state \in {"absent", "present", "lacking"} : ProviderChanges(p, state)
  \/ AdaptersUpdated
  \/ \E name \in Names : ToolsChange(name)
  \/ StartMaterializing \/ PublishFirst \/ RowStops

(* Bound: of a stopped row only the pass in flight is followed.            *)
PublicationStep ==
  \/ rowPhase # "stopped" /\ RowStep
  \/ PassEnds \/ Finally

PublicationSpec == PublicationInit /\ [][PublicationStep]_rowVars

-----------------------------------------------------------------------------

(* What the user's section comes to while it is served.                    *)
Effective ==
  IF service /\ owner # "nobody" /\ document \notin Rejected
  THEN layerSettingsSection(document) ELSE Entry

(* A published row at rest publishes the configuration that is in force:   *)
(* no change made while it started, while a pass was in flight or while    *)
(* the serializer wound up is lost.  Excepted are a section whose files do *)
(* not load, which leaves the last generation; a namespace that changed    *)
(* hands, which nobody announces; and a section that was refused when the  *)
(* row registered, after which it no longer listens.                       *)
RestsOnCurrent ==
  (rowPhase = "published" /\ passing = "idle" /\ (service => attached # "no")) =>
     \/ generation = Effective
     \/ Effective \in Unloadable \/ unannounced \/ attached = "rejected"

(* The tool is registered exactly while the generation has an active       *)
(* Specialist and its name is free, and runs that generation, the one the  *)
(* prompt describes; a refused catalog leaves the surface that was there; a*)
(* stopped row leaves none.                                                *)
ToolMatchesGeneration ==
  /\ (tool = None) = (definition = None)
  /\ tool # None => activeSnapshot = definition
  /\ rowPhase # "published" => tool = None
  /\ rowPhase = "published" =>
       LET catalog == Compiled(generation, providers, adapters)
       IN  /\ catalog = "inactive" => tool = None
           /\ catalog = "active" =>
                \/ tool = ToolOf[generation] /\ definition = generation
                \/ tool = None /\ ToolOf[generation] \in taken

(* The surface a session sees follows the configuration and the registries.*)
PublicationIsCurrent == RestsOnCurrent /\ ToolMatchesGeneration
==============================================================================
