------------------------- MODULE DelegationRowProofs -------------------------
(***************************************************************************)
(* Proofs about a delegation row (src/src/settings.ts,                     *)
(* src/src/internal/republication.ts, src/src/index.ts): that the          *)
(* configuration it publishes and the tool it registers are the current    *)
(* ones, for any number of sections, Providers and changes of the          *)
(* registries; that a call of the tool owns the child it starts; that the  *)
(* prompt resources it loads (src/src/resources.ts) are whole; and that a  *)
(* plan (src/src/compiler.ts) and its route (src/src/route.ts) are such as *)
(* the registries can serve.                                               *)
(***************************************************************************)
EXTENDS Publication, Delegation, PromptResources, TotalsProofs, SequenceTheorems, TLAPS

----------------------------------------------------------------------------
(* The row: its inductive invariant                                        *)

RowTypes ==
  /\ document \in Sections \cup {None}
  /\ owner \in {"nobody", "settings", "row"}
  /\ attached \in {"no", "owning", "consuming", "rejected"}
  /\ rowPhase \in {"attaching", "materializing", "published", "stopped"}
  /\ passing \in {"idle", "reading", "ended"}
  /\ rowPhase = "published" => generation \in Configurations
  /\ rowPhase = "materializing" \/ passing = "reading" => reading \in Configurations

(* Who owns the namespace, and what a wiring rests on.                     *)
WiringInv ==
  /\ owner # "nobody" \/ attached # "no" => service
  /\ attached = "owning" => owner = "row" /\ document \notin Rejected
  /\ unannounced => attached = "consuming"

CurrentSource == Source(attached, owner # "nobody", document)

Shown == generation = CurrentSource \/ CurrentSource \in Unloadable \/ unannounced

(* What is read is current, or it is noted that it has to be read again.   *)
CurrentInv ==
  /\ rowPhase \in {"attaching", "materializing"} => passing = "idle" /\ ~pending
  /\ rowPhase = "materializing" => reading = CurrentSource \/ prepublish \/ unannounced
  /\ rowPhase = "published" =>
       /\ passing = "idle" => Shown /\ ~pending
       /\ passing = "reading" => reading = CurrentSource \/ pending \/ unannounced
       /\ passing = "ended" => Shown \/ pending

(* A tool that a free name would bring back is known to have failed.       *)
Surface(config) ==
  LET catalog == Compiled(config, providers, adapters)
  IN  /\ catalog = "inactive" => tool = None
      /\ catalog = "active" =>
           \/ tool = ToolOf[config] /\ definition = config
           \/ tool = None /\ ToolOf[config] \in taken /\ failed

SurfaceInv ==
  /\ tool = None <=> definition = None
  /\ tool # None => activeSnapshot = definition
  /\ rowPhase # "published" => tool = None
  /\ rowPhase = "published" => Surface(generation)

RowInv == RowTypes /\ WiringInv /\ CurrentInv /\ SurfaceInv

(* What a pass materializes is one of the configurations of the row.        *)
LEMMA SourceType ==
  ASSUME NEW wiring, NEW served, NEW section \in Sections \cup {None}
  PROVE  Source(wiring, served, section) \in Configurations
  BY DEF Source, layerSettingsSection, Configurations

(* A request for republication starts a pass that reads a configuration,    *)
(* or leaves one to be taken up.                                            *)
LEMMA RepublishTypes ==
  ASSUME RowTypes, NEW config \in Configurations, Republish(config)
  PROVE  /\ passing' \in {"idle", "reading", "ended"}
         /\ rowPhase = "materializing" \/ passing' = "reading" => reading' \in Configurations
  BY DEF RowTypes, Republish, Request, passVars

(* The types are kept.                                                     *)
LEMMA RowTypesStep ==
  ASSUME RowTypes, CurrentInv, [PublicationStep]_rowVars
  PROVE  RowTypes'
<1>. USE SourceType DEF settingsVars, passVars, surfaceVars, registryVars
<1>1. ASSUME RowAttaches, rowPhase # "stopped"
      PROVE  RowTypes'
  <2>1. UNCHANGED passVars \/ \E w, s, d : d \in Sections \cup {None} /\ Republish(Source(w, s, d))
    BY <1>1 DEF RowAttaches, RowTypes, registerOwnedSection, consumeServedSection
  <2>2. /\ passing' \in {"idle", "reading", "ended"}
        /\ rowPhase = "materializing" \/ passing' = "reading" => reading' \in Configurations
    BY <2>1, RepublishTypes, SourceType DEF RowTypes, layerSettingsSection,
        Configurations
  <2>. QED BY <1>1, <2>2 DEF RowAttaches, RowTypes, registerOwnedSection,
      consumeServedSection
<1>2. ASSUME registerSettingsNamespace, rowPhase # "stopped"
      PROVE  RowTypes'
  BY <1>2 DEF registerSettingsNamespace, RowTypes, Unwound
<1>3. ASSUME SettingsRowUnloads, rowPhase # "stopped"
      PROVE  RowTypes'
  BY <1>3 DEF SettingsRowUnloads, RowTypes, Unwound
<1>4. ASSUME SettingsRowMounts, rowPhase # "stopped"
      PROVE  RowTypes'
  BY <1>4 DEF SettingsRowMounts, RowTypes, Unwound
<1>5. ASSUME NEW section \in Sections \cup {None}, Store(section), rowPhase # "stopped"
      PROVE  RowTypes'
  <2>1. UNCHANGED passVars \/ \E w, s, d : d \in Sections \cup {None} /\ Republish(Source(w, s, d))
    BY <1>5 DEF Store, registerOwnedSection, consumeServedSection
  <2>2. /\ passing' \in {"idle", "reading", "ended"}
        /\ rowPhase = "materializing" \/ passing' = "reading" => reading' \in Configurations
    BY <2>1, RepublishTypes, SourceType DEF RowTypes, layerSettingsSection,
        Configurations
  <2>. QED BY <1>5, <2>2 DEF Store, RowTypes, registerOwnedSection, consumeServedSection
<1>6. ASSUME ServiceDetaches, rowPhase # "stopped"
      PROVE  RowTypes'
  <2>1. UNCHANGED passVars \/ Republish(Entry)
    BY <1>6 DEF ServiceDetaches, registerOwnedSection, consumeServedSection
  <2>2. /\ passing' \in {"idle", "reading", "ended"}
        /\ rowPhase = "materializing" \/ passing' = "reading" => reading' \in Configurations
    BY <2>1, RepublishTypes, SourceType DEF RowTypes, layerSettingsSection,
        Configurations
  <2>. QED BY <1>6, <2>2 DEF ServiceDetaches, RowTypes, registerOwnedSection,
      consumeServedSection
<1>7. ASSUME ServiceMounts, rowPhase # "stopped"
      PROVE  RowTypes'
  BY <1>7 DEF ServiceMounts, RowTypes, Unwound
<1>8. ASSUME NEW p \in Providers, NEW state \in {"absent", "present", "lacking"},
             ProviderChanges(p, state), rowPhase # "stopped"
      PROVE  RowTypes'
  BY <1>8 DEF ProviderChanges, RowTypes, Unwound
<1>9. ASSUME AdaptersUpdated, rowPhase # "stopped"
      PROVE  RowTypes'
  BY <1>9 DEF AdaptersUpdated, RowTypes, Unwound
<1>10. ASSUME NEW name \in Names, ToolsChange(name), rowPhase # "stopped"
      PROVE  RowTypes'
  BY <1>10 DEF ToolsChange, RowTypes, Unwound
<1>11. ASSUME StartMaterializing, rowPhase # "stopped"
      PROVE  RowTypes'
  BY <1>11 DEF StartMaterializing, RowTypes, Unwound
<1>12. ASSUME PublishFirst, rowPhase # "stopped"
      PROVE  RowTypes'
  <2>1. CASE rowPhase' = "stopped"
    BY <1>12, <2>1 DEF PublishFirst, RowTypes, Unwound, CurrentInv
  <2>2. CASE rowPhase' # "stopped"
    <3>1. /\ rowPhase' = "published" /\ generation' = reading /\ reading \in Configurations
          /\ UNCHANGED <<document, owner, attached>>
      BY <1>12, <2>2 DEF PublishFirst, RowTypes, Unwound
    <3>2. \/ passing' = "reading" /\ reading' \in Configurations
          \/ passing' = passing /\ passing = "idle"
      BY <1>12, <2>2, SourceType DEF PublishFirst, RowTypes, CurrentInv, Unwound
    <3>. QED BY <3>1, <3>2 DEF RowTypes
  <2>. QED BY <2>1, <2>2
<1>13. ASSUME RowStops, rowPhase # "stopped"
      PROVE  RowTypes'
  <2>1. UNCHANGED <<document, passing>> /\ rowPhase' = "stopped"
        /\ attached' = "no" /\ owner' \in {owner, "nobody"}
    BY <1>13 DEF RowStops, Unwound
  <2>2. reading' = reading \/ rowPhase = "materializing"
    BY <1>13 DEF RowStops
  <2>. QED BY <2>1, <2>2 DEF RowTypes, CurrentInv
<1>14. CASE PassEnds
  <2>1. rowPhase' = "published" => generation' \in Configurations
    BY <1>14 DEF PassEnds, RowTypes
  <2>2. \/ passing' = "ended"
        \/ passing' = passing /\ reading' \in Configurations
    BY <1>14, SourceType DEF PassEnds, RowTypes
  <2>3. UNCHANGED <<document, owner, attached, rowPhase>>
    BY <1>14 DEF PassEnds
  <2>4. rowPhase # "materializing"
    BY <1>14 DEF PassEnds, CurrentInv
  <2>. QED BY <2>1, <2>2, <2>3, <2>4 DEF RowTypes
<1>15. CASE Finally
  BY <1>15 DEF Finally, RowTypes, Unwound
<1>16. CASE UNCHANGED rowVars
  BY <1>16 DEF rowVars, RowTypes, Unwound
<1>. QED BY <1>1, <1>2, <1>3, <1>4, <1>5, <1>6, <1>7, <1>8, <1>9, <1>10, <1>11,
    <1>12, <1>13, <1>14, <1>15, <1>16 DEF PublicationStep, RowStep

(* The wiring is kept.                                                     *)
LEMMA WiringStep ==
  ASSUME RowTypes, WiringInv, [PublicationStep]_rowVars
  PROVE  WiringInv'
<1>. USE DEF settingsVars, passVars, surfaceVars, registryVars
<1>1. ASSUME RowAttaches, rowPhase # "stopped"
      PROVE  WiringInv'
  BY <1>1 DEF RowAttaches, RowTypes, WiringInv, registerOwnedSection,
      consumeServedSection, Unannounced, Unwound
<1>2. ASSUME registerSettingsNamespace, rowPhase # "stopped"
      PROVE  WiringInv'
  BY <1>2 DEF registerSettingsNamespace, RowTypes, WiringInv, registerOwnedSection,
      consumeServedSection, Unannounced, Unwound
<1>3. ASSUME SettingsRowUnloads, rowPhase # "stopped"
      PROVE  WiringInv'
  BY <1>3 DEF SettingsRowUnloads, RowTypes, WiringInv, registerOwnedSection,
      consumeServedSection, Unannounced, Unwound
<1>4. ASSUME SettingsRowMounts, rowPhase # "stopped"
      PROVE  WiringInv'
  BY <1>4 DEF SettingsRowMounts, RowTypes, WiringInv, registerOwnedSection,
      consumeServedSection, Unannounced, Unwound
<1>5. ASSUME NEW section \in Sections \cup {None}, Store(section), rowPhase # "stopped"
      PROVE  WiringInv'
  BY <1>5 DEF Store, RowTypes, WiringInv, registerOwnedSection, consumeServedSection,
      Unannounced, Unwound
<1>6. ASSUME ServiceDetaches, rowPhase # "stopped"
      PROVE  WiringInv'
  BY <1>6 DEF ServiceDetaches, RowTypes, WiringInv, registerOwnedSection,
      consumeServedSection, Unannounced, Unwound
<1>7. ASSUME ServiceMounts, rowPhase # "stopped"
      PROVE  WiringInv'
  BY <1>7 DEF ServiceMounts, RowTypes, WiringInv, registerOwnedSection,
      consumeServedSection, Unannounced, Unwound
<1>8. ASSUME NEW p \in Providers, NEW state \in {"absent", "present", "lacking"},
             ProviderChanges(p, state), rowPhase # "stopped"
      PROVE  WiringInv'
  BY <1>8 DEF ProviderChanges, RowTypes, WiringInv, registerOwnedSection,
      consumeServedSection, Unannounced, Unwound
<1>9. ASSUME AdaptersUpdated, rowPhase # "stopped"
      PROVE  WiringInv'
  BY <1>9 DEF AdaptersUpdated, RowTypes, WiringInv, registerOwnedSection,
      consumeServedSection, Unannounced, Unwound
<1>10. ASSUME NEW name \in Names, ToolsChange(name), rowPhase # "stopped"
      PROVE  WiringInv'
  BY <1>10 DEF ToolsChange, RowTypes, WiringInv, registerOwnedSection,
      consumeServedSection, Unannounced, Unwound
<1>11. ASSUME StartMaterializing, rowPhase # "stopped"
      PROVE  WiringInv'
  BY <1>11 DEF StartMaterializing, RowTypes, WiringInv, registerOwnedSection,
      consumeServedSection, Unannounced, Unwound
<1>12. ASSUME PublishFirst, rowPhase # "stopped"
      PROVE  WiringInv'
  BY <1>12 DEF PublishFirst, RowTypes, WiringInv, registerOwnedSection,
      consumeServedSection, Unannounced, Unwound
<1>13. ASSUME RowStops, rowPhase # "stopped"
      PROVE  WiringInv'
  BY <1>13 DEF RowStops, RowTypes, WiringInv, registerOwnedSection,
      consumeServedSection, Unannounced, Unwound
<1>14. CASE PassEnds
  BY <1>14 DEF PassEnds, RowTypes, WiringInv, registerOwnedSection,
      consumeServedSection, Unannounced, Unwound
<1>15. CASE Finally
  BY <1>15 DEF Finally, RowTypes, WiringInv, registerOwnedSection,
      consumeServedSection, Unannounced, Unwound
<1>16. CASE UNCHANGED rowVars
  BY <1>16 DEF rowVars, RowTypes, WiringInv, registerOwnedSection,
      consumeServedSection, Unannounced, Unwound
<1>. QED BY <1>1, <1>2, <1>3, <1>4, <1>5, <1>6, <1>7, <1>8, <1>9, <1>10, <1>11,
    <1>12, <1>13, <1>14, <1>15, <1>16 DEF PublicationStep, RowStep

(* Nothing that changes is forgotten.                                      *)
LEMMA CurrentStep ==
  ASSUME RowTypes, WiringInv, CurrentInv, [PublicationStep]_rowVars
  PROVE  CurrentInv'
<1>. USE DEF settingsVars, passVars, surfaceVars, registryVars
<1>1. ASSUME RowAttaches, rowPhase # "stopped"
      PROVE  CurrentInv'
  BY <1>1 DEF RowAttaches, RowTypes, WiringInv, CurrentInv, CurrentSource, Shown,
      Source, Republish, Request, registerOwnedSection, consumeServedSection,
      Unannounced, Unwound, layerSettingsSection
<1>2. ASSUME registerSettingsNamespace, rowPhase # "stopped"
      PROVE  CurrentInv'
  BY <1>2 DEF registerSettingsNamespace, RowTypes, WiringInv, CurrentInv,
      CurrentSource, Shown, Source, Republish, Request, registerOwnedSection,
      consumeServedSection, Unannounced, Unwound, layerSettingsSection
<1>3. ASSUME SettingsRowUnloads, rowPhase # "stopped"
      PROVE  CurrentInv'
  BY <1>3 DEF SettingsRowUnloads, RowTypes, WiringInv, CurrentInv, CurrentSource,
      Shown, Source, Republish, Request, registerOwnedSection, consumeServedSection,
      Unannounced, Unwound, layerSettingsSection
<1>4. ASSUME SettingsRowMounts, rowPhase # "stopped"
      PROVE  CurrentInv'
  BY <1>4 DEF SettingsRowMounts, RowTypes, WiringInv, CurrentInv, CurrentSource,
      Shown, Source, Republish, Request, registerOwnedSection, consumeServedSection,
      Unannounced, Unwound, layerSettingsSection
<1>5. ASSUME NEW section \in Sections \cup {None}, Store(section), rowPhase # "stopped"
      PROVE  CurrentInv'
  BY <1>5 DEF Store, RowTypes, WiringInv, CurrentInv, CurrentSource, Shown, Source,
      Republish, Request, registerOwnedSection, consumeServedSection, Unannounced,
      Unwound, layerSettingsSection
<1>6. ASSUME ServiceDetaches, rowPhase # "stopped"
      PROVE  CurrentInv'
  BY <1>6 DEF ServiceDetaches, RowTypes, WiringInv, CurrentInv, CurrentSource, Shown,
      Source, Republish, Request, registerOwnedSection, consumeServedSection,
      Unannounced, Unwound, layerSettingsSection
<1>7. ASSUME ServiceMounts, rowPhase # "stopped"
      PROVE  CurrentInv'
  BY <1>7 DEF ServiceMounts, RowTypes, WiringInv, CurrentInv, CurrentSource, Shown,
      Source, Republish, Request, registerOwnedSection, consumeServedSection,
      Unannounced, Unwound, layerSettingsSection
<1>8. ASSUME NEW p \in Providers, NEW state \in {"absent", "present", "lacking"},
             ProviderChanges(p, state), rowPhase # "stopped"
      PROVE  CurrentInv'
  BY <1>8 DEF ProviderChanges, RowTypes, WiringInv, CurrentInv, CurrentSource, Shown,
      Source, Republish, Request, registerOwnedSection, consumeServedSection,
      Unannounced, Unwound, layerSettingsSection
<1>9. ASSUME AdaptersUpdated, rowPhase # "stopped"
      PROVE  CurrentInv'
  BY <1>9 DEF AdaptersUpdated, RowTypes, WiringInv, CurrentInv, CurrentSource, Shown,
      Source, Republish, Request, registerOwnedSection, consumeServedSection,
      Unannounced, Unwound, layerSettingsSection
<1>10. ASSUME NEW name \in Names, ToolsChange(name), rowPhase # "stopped"
      PROVE  CurrentInv'
  BY <1>10 DEF ToolsChange, RowTypes, WiringInv, CurrentInv, CurrentSource, Shown,
      Source, Republish, Request, registerOwnedSection, consumeServedSection,
      Unannounced, Unwound, layerSettingsSection
<1>11. ASSUME StartMaterializing, rowPhase # "stopped"
      PROVE  CurrentInv'
  BY <1>11 DEF StartMaterializing, RowTypes, WiringInv, CurrentInv, CurrentSource,
      Shown, Source, Republish, Request, registerOwnedSection, consumeServedSection,
      Unannounced, Unwound, layerSettingsSection
<1>12. ASSUME PublishFirst, rowPhase # "stopped"
      PROVE  CurrentInv'
  BY <1>12 DEF PublishFirst, RowTypes, WiringInv, CurrentInv, CurrentSource, Shown,
      Source, Republish, Request, registerOwnedSection, consumeServedSection,
      Unannounced, Unwound, layerSettingsSection
<1>13. ASSUME RowStops, rowPhase # "stopped"
      PROVE  CurrentInv'
  BY <1>13 DEF RowStops, RowTypes, WiringInv, CurrentInv, CurrentSource, Shown,
      Source, Republish, Request, registerOwnedSection, consumeServedSection,
      Unannounced, Unwound, layerSettingsSection
<1>14. CASE PassEnds
  BY <1>14 DEF PassEnds, RowTypes, WiringInv, CurrentInv, CurrentSource, Shown,
      Source, Republish, Request, registerOwnedSection, consumeServedSection,
      Unannounced, Unwound, layerSettingsSection
<1>15. CASE Finally
  BY <1>15 DEF Finally, RowTypes, WiringInv, CurrentInv, CurrentSource, Shown,
      Source, Republish, Request, registerOwnedSection, consumeServedSection,
      Unannounced, Unwound, layerSettingsSection
<1>16. CASE UNCHANGED rowVars
  BY <1>16 DEF rowVars, RowTypes, WiringInv, CurrentInv, CurrentSource, Shown,
      Source, Republish, Request, registerOwnedSection, consumeServedSection,
      Unannounced, Unwound, layerSettingsSection
<1>. QED BY <1>1, <1>2, <1>3, <1>4, <1>5, <1>6, <1>7, <1>8, <1>9, <1>10, <1>11,
    <1>12, <1>13, <1>14, <1>15, <1>16 DEF PublicationStep, RowStep

(* What a refresh leaves of the surface.                                   *)
LEMMA RefreshEffect ==
  ASSUME tool = None <=> definition = None, tool # None => activeSnapshot = definition,
         NEW config \in Configurations, NEW available, NEW routes, NEW names,
         Refresh(config, available, routes, names)
  PROVE  LET catalog == Compiled(config, available, routes)
         IN  /\ tool' = None <=> definition' = None
             /\ tool' # None => activeSnapshot' = definition'
             /\ catalog = "inactive" => tool' = None
             /\ catalog = "active" =>
                  \/ tool' = ToolOf[config] /\ definition' = config
                  \/ tool' = None /\ ToolOf[config] \in names /\ failed'
  BY PublicationAssumption DEF PublicationAssumption, Refresh

(* The surface follows the generation and the registries.                  *)
LEMMA SurfaceStep ==
  ASSUME RowTypes, CurrentInv, SurfaceInv, [PublicationStep]_rowVars
  PROVE  SurfaceInv'
<1>. USE DEF settingsVars, passVars, surfaceVars, registryVars
<1>1. ASSUME RowAttaches, rowPhase # "stopped"
      PROVE  SurfaceInv'
  BY <1>1 DEF RowAttaches, SurfaceInv, Surface
<1>2. ASSUME registerSettingsNamespace, rowPhase # "stopped"
      PROVE  SurfaceInv'
  BY <1>2 DEF registerSettingsNamespace, SurfaceInv, Surface
<1>3. ASSUME SettingsRowUnloads, rowPhase # "stopped"
      PROVE  SurfaceInv'
  BY <1>3 DEF SettingsRowUnloads, SurfaceInv, Surface
<1>4. ASSUME SettingsRowMounts, rowPhase # "stopped"
      PROVE  SurfaceInv'
  BY <1>4 DEF SettingsRowMounts, SurfaceInv, Surface
<1>5. ASSUME NEW section \in Sections \cup {None}, Store(section), rowPhase # "stopped"
      PROVE  SurfaceInv'
  BY <1>5 DEF Store, SurfaceInv, Surface
<1>6. ASSUME ServiceDetaches, rowPhase # "stopped"
      PROVE  SurfaceInv'
  BY <1>6 DEF ServiceDetaches, SurfaceInv, Surface
<1>7. ASSUME ServiceMounts, rowPhase # "stopped"
      PROVE  SurfaceInv'
  BY <1>7 DEF ServiceMounts, SurfaceInv, Surface
<1>8. ASSUME NEW p \in Providers, NEW state \in {"absent", "present", "lacking"},
             ProviderChanges(p, state), rowPhase # "stopped"
      PROVE  SurfaceInv'
  <2>1. CASE rowPhase = "published" /\ ProviderOf[generation] = p
    BY <1>8, <2>1, RefreshEffect DEF ProviderChanges, RowTypes, SurfaceInv, Surface
  <2>2. CASE ~(rowPhase = "published" /\ ProviderOf[generation] = p)
    <3>1. UNCHANGED <<rowPhase, generation, surfaceVars, adapters, taken>>
      BY <1>8, <2>2 DEF ProviderChanges
    <3>2. rowPhase = "published" => providers'[ProviderOf[generation]] = providers[ProviderOf[generation]]
      BY <1>8, <2>2 DEF ProviderChanges, RowTypes, Providers
    <3>. QED BY <3>1, <3>2 DEF SurfaceInv, Surface, Compiled
  <2>. QED BY <2>1, <2>2
<1>9. ASSUME AdaptersUpdated, rowPhase # "stopped"
      PROVE  SurfaceInv'
  BY <1>9, RefreshEffect DEF AdaptersUpdated, RowTypes, SurfaceInv, Surface
<1>10. ASSUME NEW name \in Names, ToolsChange(name), rowPhase # "stopped"
      PROVE  SurfaceInv'
  BY <1>10, RefreshEffect DEF ToolsChange, RowTypes, SurfaceInv, Surface
<1>11. ASSUME StartMaterializing, rowPhase # "stopped"
      PROVE  SurfaceInv'
  BY <1>11 DEF StartMaterializing, SurfaceInv, Surface
<1>12. ASSUME PublishFirst, rowPhase # "stopped"
      PROVE  SurfaceInv'
  <2>1. CASE rowPhase' = "stopped"
    BY <1>12, <2>1 DEF PublishFirst, SurfaceInv, Unwound
  <2>2. CASE rowPhase' # "stopped"
    BY <1>12, <2>2, RefreshEffect DEF PublishFirst, RowTypes, SurfaceInv, Surface,
        Unwound
  <2>. QED BY <2>1, <2>2
<1>13. ASSUME RowStops, rowPhase # "stopped"
      PROVE  SurfaceInv'
  BY <1>13 DEF RowStops, SurfaceInv, Unwound
<1>14. CASE PassEnds
  <2>1. CASE rowPhase = "stopped" \/ reading \in Unloadable
    BY <1>14, <2>1 DEF PassEnds, SurfaceInv, Surface
  <2>2. CASE ~(rowPhase = "stopped" \/ reading \in Unloadable)
    <3>1. /\ reading \in Configurations /\ generation' = reading
          /\ Refresh(reading, providers, adapters, taken)
          /\ UNCHANGED <<rowPhase, registryVars>> /\ rowPhase = "published"
      BY <1>14, <2>2 DEF PassEnds, RowTypes, CurrentInv
    <3>. QED BY <3>1, RefreshEffect DEF SurfaceInv, Surface, Unwound
  <2>. QED BY <2>1, <2>2
<1>15. CASE Finally
  BY <1>15 DEF Finally, SurfaceInv, Surface
<1>16. CASE UNCHANGED rowVars
  BY <1>16 DEF rowVars, SurfaceInv, Surface
<1>. QED BY <1>1, <1>2, <1>3, <1>4, <1>5, <1>6, <1>7, <1>8, <1>9, <1>10, <1>11,
    <1>12, <1>13, <1>14, <1>15, <1>16 DEF PublicationStep, RowStep

(* The first states, and every step.                                       *)
LEMMA RowInit == PublicationInit => RowInv
<1>. SUFFICES ASSUME PublicationInit PROVE RowInv
  OBVIOUS
<1>1. RowTypes
  BY DEF PublicationInit, RowTypes
<1>2. WiringInv /\ CurrentInv /\ SurfaceInv
  BY DEF PublicationInit, WiringInv, CurrentInv, SurfaceInv
<1>. QED BY <1>1, <1>2 DEF RowInv

(* Every step between two awaits of a pass, and every change made by        *)
(* somebody else, preserves the invariant of the row.                       *)
LEMMA RowInvStep == RowInv /\ [PublicationStep]_rowVars => RowInv'
  BY RowTypesStep, WiringStep, CurrentStep, SurfaceStep DEF RowInv

(* A published row at rest shows the configuration in force, and its tool  *)
(* is registered exactly while its name is free and a Specialist is active *)
(* (internal/republication.ts, applyDelegationRow of index.ts).            *)
THEOREM RowsPublishWhatIsCurrent == PublicationSpec => []PublicationIsCurrent
<1>1. RowInv => PublicationIsCurrent
  <2>. SUFFICES ASSUME RowInv PROVE PublicationIsCurrent
    OBVIOUS
  <2>1. RestsOnCurrent
    <3>. SUFFICES ASSUME rowPhase = "published", passing = "idle",
                         service => attached # "no", attached # "rejected"
                  PROVE  generation = Effective \/ Effective \in Unloadable \/ unannounced
      BY DEF RestsOnCurrent
    <3>1. CurrentSource = Effective
      BY DEF RowInv, RowTypes, WiringInv, CurrentSource, Source, Effective,
             layerSettingsSection
    <3>2. Shown
      BY DEF RowInv, CurrentInv
    <3>. QED BY <3>1, <3>2 DEF Shown
  <2>2. ToolMatchesGeneration
    BY DEF RowInv, SurfaceInv, Surface, ToolMatchesGeneration
  <2>. QED BY <2>1, <2>2 DEF PublicationIsCurrent
<1>. QED BY <1>1, RowInit, RowInvStep, PTL DEF PublicationSpec

----------------------------------------------------------------------------
(* A call of the tool: its inductive invariant                             *)

(* A plan as compileDelegationPlan makes it, on a route or on none.        *)
IsPlan(plan) ==
  \E name, mode, provider, route, persona, result :
    plan = [error |-> None, specialist |-> name, mode |-> mode, provider |-> provider,
            route |-> route, persona |-> persona, result |-> result]

(* Where a call stands says what has become of its child.                  *)
PlaceInv ==
  /\ progress \in {"idle", "observing"} => adaptersAtStart = None /\ child = "none"
  /\ progress = "admitting" => child = "starting"
  /\ progress = "running" => child = "running" /\ delegation.mode # "continuable"
  /\ progress = "cleaning" => child = "disposing" /\ execution # None
  /\ progress = "observing" => IsPlan(delegation)

OutcomeInv ==
  /\ progress = "done" \/ outcome = None
  /\ progress = "done" /\ child = "running" => delegation.mode = "continuable" /\ outcome = "child"
  /\ outcome = "result" => child = "disposed" /\ execution = "completed"
  /\ outcome = "child" => child = "running"

(* The child is started on the route that is selected, and on an adapter   *)
(* that was there at that moment.                                          *)
RouteInv ==
  adaptersAtStart # None /\ delegation.route # None =>
    /\ delegation.route.provider \in adaptersAtStart
    /\ delegation.route.index = compileRoutePlan(Routes, facts).selected.index

CallInv == PlaceInv /\ OutcomeInv /\ RouteInv

(* What compileDelegationPlan returns without an error is a plan of which   *)
(* no route is selected yet.                                                *)
LEMMA CompiledPlan ==
  ASSUME NEW catalog, NEW invocation,
         compileDelegationPlan(catalog, invocation).error = None
  PROVE  /\ IsPlan(compileDelegationPlan(catalog, invocation))
         /\ compileDelegationPlan(catalog, invocation).route = None
  BY ZenonT(40), DelegationAssumption DEF DelegationAssumption, compileDelegationPlan, Refused, IsPlan

(* applyRoutePlan changes nothing of a plan but its route.                  *)
LEMMA RoutedPlan ==
  ASSUME NEW plan, IsPlan(plan), NEW routePlan
  PROVE  /\ applyRoutePlan(plan, routePlan).route = routePlan.selected
         /\ applyRoutePlan(plan, routePlan).specialist = plan.specialist
         /\ applyRoutePlan(plan, routePlan).mode = plan.mode
  BY DEF IsPlan, applyRoutePlan

(* What starting on a plan leaves.                                         *)
LEMMA StartEffect ==
  ASSUME NEW p, PlaceInv, OutcomeInv, progress \in {"idle", "observing"}, Start(p)
  PROVE  /\ delegation' = p
         /\ \/ /\ progress' = "done" /\ outcome' = "error"
               /\ child' = "none" /\ adaptersAtStart' = None
            \/ /\ progress' = "admitting" /\ outcome' = None /\ child' = "starting"
               /\ adaptersAtStart' = registered
               /\ p.route # None => p.route.provider \in registered
  BY DelegationAssumption
     DEF DelegationAssumption, Start, Ends, SettlesWith, requireSelectedLlmAdapter, childVars,
         PlaceInv, OutcomeInv

(* Every step of a call.                                                   *)
LEMMA CallStep ==
  ASSUME CallInv, [DelegationStep]_delegationVars
  PROVE  CallInv'
<1>. USE DelegationAssumption DEF DelegationAssumption, callVars, childVars, CallInv
<1>1. ASSUME NEW invocation \in Invocations, Execute(invocation)
      PROVE  CallInv'
  <2>. DEFINE p == compileDelegationPlan(compileSpecialistCatalog(Config, snapshot), invocation)
  <2>1. progress = "idle"
    BY <1>1 DEF Execute
  <2>2. \/ Ends("error") /\ UNCHANGED <<callVars, childVars>>
        \/ p.error = None /\ Start(p)
        \/ p.error = None /\ delegation' = p /\ progress' = "observing"
             /\ UNCHANGED <<childVars, outcome>>
    BY <1>1 DEF Execute
  <2>. HIDE DEF p
  <2>3. CASE Ends("error") /\ UNCHANGED <<callVars, childVars>>
    BY <2>1, <2>3 DEF PlaceInv, OutcomeInv, RouteInv, Ends, Routes
  <2>4. p.error = None => IsPlan(p) /\ p.route = None
    BY CompiledPlan DEF p
  <2>5. CASE p.error = None /\ Start(p)
    BY <2>1, <2>4, <2>5, StartEffect DEF PlaceInv, OutcomeInv, RouteInv
  <2>6. CASE p.error = None /\ delegation' = p /\ progress' = "observing"
               /\ UNCHANGED <<childVars, outcome>>
    <3>1. IsPlan(delegation)'
      BY <2>4, <2>6 DEF IsPlan
    <3>. QED BY <2>1, <2>6, <3>1 DEF PlaceInv, OutcomeInv, RouteInv
  <2>. QED BY <2>2, <2>3, <2>5, <2>6
<1>2. ASSUME NEW i \in DOMAIN facts, NEW answer \in Answers, ModelResolved(i, answer)
      PROVE  CallInv'
  BY <1>2 DEF ModelResolved, PlaceInv, OutcomeInv, RouteInv, IsPlan, Routes, Ends,
      SettlesWith
<1>3. CASE Planned
  <2>. DEFINE routePlan == compileRoutePlan(Routes, facts)
              p == applyRoutePlan(delegation, routePlan)
  <2>1. progress = "observing" /\ facts' = facts /\ IsPlan(delegation)
    BY <1>3 DEF Planned, PlaceInv
  <2>2. (Ends("error") /\ UNCHANGED <<delegation, childVars>>) \/ Start(p)
    BY <1>3 DEF Planned
  <2>3. p.route = routePlan.selected /\ p.specialist = delegation.specialist
    BY <2>1, RoutedPlan
  <2>. HIDE DEF p
  <2>4. CASE Ends("error") /\ UNCHANGED <<delegation, childVars>>
    BY <2>1, <2>4 DEF PlaceInv, OutcomeInv, RouteInv, Ends, Routes
  <2>5. CASE Start(p)
    <3>1. delegation' = p /\ Routes' = Routes
      BY <2>1, <2>3, <2>5, StartEffect DEF Routes
    <3>2. PlaceInv' /\ OutcomeInv'
      BY <2>1, <2>5, StartEffect DEF PlaceInv, OutcomeInv
    <3>3. RouteInv'
      BY <2>1, <2>3, <2>5, <3>1, StartEffect DEF RouteInv
    <3>. QED BY <3>2, <3>3
  <2>. QED BY <2>2, <2>4, <2>5
<1>4. CASE CallAborts
  BY <1>4 DEF CallAborts, PlaceInv, OutcomeInv, RouteInv, IsPlan, Routes, Ends,
      SettlesWith
<1>5. CASE StartPublishes
  BY <1>5 DEF StartPublishes, PlaceInv, OutcomeInv, RouteInv, IsPlan, Routes, Ends,
      SettlesWith
<1>6. CASE StartFails
  BY <1>6 DEF StartFails, PlaceInv, OutcomeInv, RouteInv, IsPlan, Routes, Ends,
      SettlesWith
<1>7. CASE ChildSettles
  BY <1>7 DEF ChildSettles, PlaceInv, OutcomeInv, RouteInv, IsPlan, Routes, Ends,
      SettlesWith
<1>8. CASE Disposed
  BY <1>8 DEF Disposed, PlaceInv, OutcomeInv, RouteInv, IsPlan, Routes, Ends,
      SettlesWith
<1>9. CASE CleanupTimesOut
  BY <1>9 DEF CleanupTimesOut, PlaceInv, OutcomeInv, RouteInv, IsPlan, Routes, Ends,
      SettlesWith
<1>10. ASSUME NEW adapter \in Adapters, AdapterChanges(adapter)
      PROVE  CallInv'
  BY <1>10 DEF AdapterChanges, PlaceInv, OutcomeInv, RouteInv, IsPlan, Routes, Ends,
      SettlesWith
<1>11. CASE UNCHANGED delegationVars
  BY <1>11 DEF delegationVars, PlaceInv, OutcomeInv, RouteInv, IsPlan, Routes
<1>. QED BY <1>1, <1>2, <1>3, <1>4, <1>5, <1>6, <1>7, <1>8, <1>9, <1>10,
    <1>11 DEF DelegationStep

(* A child is started on the route that was selected and on an adapter     *)
(* that is registered then; it is disposed unless it was handed over, and  *)
(* a result is one of a child that is gone (execute of index.ts,           *)
(* child-run.ts, settlement.ts).                                           *)
THEOREM CallsOwnTheirChildren == DelegationSpec => []DelegationOwnsItsChild
<1>1. DelegationInit => CallInv
  BY DelegationAssumption
     DEF DelegationAssumption, DelegationInit, CallInv, PlaceInv, OutcomeInv, RouteInv
<1>2. CallInv /\ [DelegationStep]_delegationVars => CallInv'
  BY CallStep
<1>3. CallInv => DelegationOwnsItsChild
  BY DelegationAssumption
     DEF DelegationAssumption, CallInv, PlaceInv, OutcomeInv, RouteInv, DelegationOwnsItsChild
<1>. QED BY <1>1, <1>2, <1>3, PTL DEF DelegationSpec

----------------------------------------------------------------------------
(* The prompt resources                                                    *)

(* All of one version.                                                     *)
Uniform(blocks) == \A j, k \in DOMAIN blocks : blocks[j] = blocks[k]

Reading == {"verify", "read", "restat", "compare"}

Fragment == [path : {Paths[i] : i \in DOMAIN Paths}, blocks : Seq(Nat)]

ResourceTypes ==
  /\ entry \in [{Paths[i] : i \in DOMAIN Paths} -> Inodes \cup {None}]
  /\ files \in [Inodes -> [blocks : Seq(Nat), mtime : Nat]]
  /\ unwritten \in [Inodes -> Seq(Nat)] /\ edits \in Nat
  /\ at \in 1..Len(Paths) /\ buffer \in Seq(Nat) /\ loaded \in Seq(Fragment)
  /\ loading \in {"open", "stat", "done", "failed"} \cup Reading
  /\ loading \in {"stat"} \cup Reading => handle \in Inodes

(* A file has one version, or the beginning of one that is being written.  *)
FileInv ==
  \A i \in Inodes :
    /\ Uniform(files[i].blocks) /\ Uniform(unwritten[i])
    /\ \A j \in DOMAIN files[i].blocks, k \in DOMAIN unwritten[i] :
         files[i].blocks[j] = unwritten[i][k]

(* What was read of a file is the beginning of it, unless the file has     *)
(* another time than the first stat found.                                 *)
ReadInv ==
  /\ loading \in Reading =>
       found.mtime \in Nat /\ found.mtime <= files[handle].mtime
  /\ loading \in {"read", "restat"} /\ found.mtime = files[handle].mtime =>
       /\ Len(buffer) <= Len(files[handle].blocks)
       /\ \A j \in 1..Len(buffer) : buffer[j] = files[handle].blocks[j]
  /\ loading = "compare" /\ found.mtime = again.mtime => Uniform(buffer)

(* What is loaded is the beginning of the list, within the budget.         *)
LoadedInv ==
  /\ Len(loaded) = IF loading = "done" THEN Len(Paths) ELSE at - 1
  /\ \A i \in 1..Len(loaded) : loaded[i].path = Paths[i] /\ Uniform(loaded[i].blocks)
  /\ Bytes(loaded) <= MaxBytes

ResourceInv == ResourceTypes /\ FileInv /\ ReadInv /\ LoadedInv

(* The types are kept.                                                     *)
LEMMA ResourceTypesStep ==
  ASSUME ResourceTypes, [ResourcesStep]_resourceVars
  PROVE  ResourceTypes'
<1>. USE ResourcesAssumption DEF ResourcesAssumption, ResourceTypes, Reading, directoryVars,
     loadVars, resourceVars
<1>1. ASSUME NEW inode \in Inodes, NEW blocks \in Sizes, SaveInPlace(inode, blocks)
      PROVE  ResourceTypes'
  <2>1. [i \in 1..blocks |-> edits + 1] \in Seq(Nat)
    OBVIOUS
  <2>2. files' = [files EXCEPT ![inode] = [blocks |-> <<>>, mtime |-> files[inode].mtime + 1]]
    BY <1>1 DEF SaveInPlace
  <2>3. [blocks |-> <<>>, mtime |-> files[inode].mtime + 1] \in [blocks : Seq(Nat), mtime : Nat]
    OBVIOUS
  <2>4. files' \in [Inodes -> [blocks : Seq(Nat), mtime : Nat]]
    BY <2>2, <2>3
  <2>5. unwritten' \in [Inodes -> Seq(Nat)]
    BY <1>1, <2>1 DEF SaveInPlace
  <2>6. edits' \in Nat /\ entry' = entry /\ UNCHANGED loadVars
    BY <1>1 DEF SaveInPlace, Edit
  <2>. QED BY <2>4, <2>5, <2>6
<1>2. ASSUME NEW inode \in Inodes, WriteBlock(inode)
      PROVE  ResourceTypes'
  <2>. DEFINE rest == unwritten[inode]
              written == [blocks |-> Append(files[inode].blocks, Head(rest)),
                          mtime |-> files[inode].mtime + 1]
  <2>1. rest \in Seq(Nat) /\ rest # <<>>
    BY <1>2 DEF WriteBlock
  <2>2. Head(rest) \in Nat /\ Tail(rest) \in Seq(Nat)
    BY ONLY <2>1, HeadTailProperties
  <2>3. files' = [files EXCEPT ![inode] = written]
    BY <1>2 DEF WriteBlock
  <2>4. written \in [blocks : Seq(Nat), mtime : Nat]
    <3>1. files[inode] \in [blocks : Seq(Nat), mtime : Nat]
      OBVIOUS
    <3>. QED BY ONLY <2>2, <3>1, SMTT(30)
  <2>5. files' \in [Inodes -> [blocks : Seq(Nat), mtime : Nat]]
    BY <2>3, <2>4
  <2>6. unwritten' \in [Inodes -> Seq(Nat)]
    BY <1>2, <2>2 DEF WriteBlock
  <2>7. UNCHANGED <<entry, edits, loadVars>>
    BY <1>2 DEF WriteBlock
  <2>. QED BY <2>5, <2>6, <2>7
<1>3. ASSUME NEW p \in DOMAIN entry, NEW inode \in Inodes \cup {None}, Replace(p, inode)
      PROVE  ResourceTypes'
  <2>1. entry' = [entry EXCEPT ![p] = inode]
    BY <1>3 DEF Replace
  <2>2. entry' \in [{Paths[i] : i \in DOMAIN Paths} -> Inodes \cup {None}]
    BY <2>1
  <2>3. edits' \in Nat /\ files' = files /\ unwritten' = unwritten /\ UNCHANGED loadVars
    BY <1>3 DEF Replace, Edit
  <2>. QED BY <2>2, <2>3
<1>4. CASE OpenFile
  <2>1. entry[path] \in Inodes \cup {None}
    BY DEF path
  <2>. QED BY <1>4, <2>1 DEF OpenFile, Fails
<1>5. CASE StatFile
  BY <1>5 DEF StatFile
<1>6. CASE VerifyPath
  <2>1. \/ loading' = "failed" /\ UNCHANGED buffer
        \/ loading' = "read" /\ buffer' = <<>>
    BY <1>6 DEF VerifyPath, Fails
  <2>2. /\ entry' = entry /\ files' = files /\ unwritten' = unwritten /\ edits' = edits
        /\ handle' = handle /\ at' = at /\ loaded' = loaded /\ loading = "verify"
    BY <1>6 DEF VerifyPath, Fails
  <2>5. buffer \in Seq(Nat) /\ <<>> \in Seq(Nat) /\ handle \in Inodes
    BY <2>2
  <2>3. buffer' \in Seq(Nat) /\ handle' \in Inodes
    BY ONLY <2>1, <2>2, <2>5
  <2>4. loading' \in {"failed", "read"}
    BY <2>1
  <2>. QED BY <2>2, <2>3, <2>4
<1>7. CASE ReadBlock
  <2>1. files[handle].blocks \in Seq(Nat)
    BY <1>7 DEF ReadBlock
  <2>2. Len(buffer) < Len(files[handle].blocks) => files[handle].blocks[Len(buffer) + 1] \in Nat
    <3>. DEFINE blocks == files[handle].blocks
    <3>. HIDE DEF blocks
    <3>1. blocks \in Seq(Nat) /\ buffer \in Seq(Nat)
      BY <2>1 DEF blocks
    <3>2. Len(buffer) < Len(blocks) => blocks[Len(buffer) + 1] \in Nat
      BY ONLY <3>1
    <3>. QED BY <3>2 DEF blocks
  <2>3. \/ loading' = "restat" /\ UNCHANGED buffer
        \/ /\ loading' = "read" /\ Len(buffer) < Len(files[handle].blocks)
           /\ buffer' = Append(buffer, files[handle].blocks[Len(buffer) + 1])
    BY <1>7 DEF ReadBlock
  <2>4. /\ entry' = entry /\ files' = files /\ unwritten' = unwritten /\ edits' = edits
        /\ handle' = handle /\ at' = at /\ loaded' = loaded /\ loading = "read"
    BY <1>7 DEF ReadBlock
  <2>7. buffer \in Seq(Nat) /\ handle \in Inodes
    BY <2>4
  <2>8. ASSUME NEW block \in Nat PROVE Append(buffer, block) \in Seq(Nat)
    BY ONLY <2>7, <2>8
  <2>5. buffer' \in Seq(Nat) /\ handle' \in Inodes
    BY ONLY <2>2, <2>3, <2>4, <2>7, <2>8
  <2>6. loading' \in {"restat", "read"}
    BY <2>3
  <2>. QED BY <2>4, <2>5, <2>6
<1>8. CASE StatAgain
  BY <1>8 DEF StatAgain
<1>9. CASE KeepFragment
  <2>1. [path |-> path, blocks |-> buffer] \in Fragment
    BY DEF Fragment, path
  <2>2. \/ Fails
        \/ /\ loaded' = Append(loaded, [path |-> path, blocks |-> buffer])
           /\ \/ at < Len(Paths) /\ at' = at + 1 /\ loading' = "open"
              \/ loading' = "done" /\ UNCHANGED at
           /\ buffer' = <<>>
    BY <1>9 DEF KeepFragment
  <2>3. entry' = entry /\ files' = files /\ unwritten' = unwritten /\ edits' = edits
    BY <1>9 DEF KeepFragment
  <2>. DEFINE fragment == [path |-> path, blocks |-> buffer]
  <2>6. Append(loaded, fragment) \in Seq(Fragment)
    <3>1. loaded \in Seq(Fragment)
      OBVIOUS
    <3>. HIDE DEF fragment
    <3>. QED BY ONLY <2>1, <3>1 DEF fragment
  <2>4. loaded' \in Seq(Fragment) /\ buffer' \in Seq(Nat)
    <3>1. loaded \in Seq(Fragment) /\ buffer \in Seq(Nat) /\ <<>> \in Seq(Nat)
      OBVIOUS
    <3>. QED BY ONLY <2>2, <2>6, <3>1 DEF Fails
  <2>5. at' \in 1..Len(Paths) /\ loading' \in {"failed", "open", "done"}
    BY <2>2 DEF Fails
  <2>. QED BY <2>3, <2>4, <2>5
<1>10. CASE UNCHANGED resourceVars
  BY <1>10
<1>. QED BY <1>1, <1>2, <1>3, <1>4, <1>5, <1>6, <1>7, <1>8, <1>9, <1>10 DEF ResourcesStep

(* Whoever edits the directory writes one version after the other.         *)
LEMMA FileStep ==
  ASSUME ResourceTypes, FileInv, [ResourcesStep]_resourceVars
  PROVE  FileInv'
<1>1. ASSUME NEW inode \in Inodes, NEW blocks \in Sizes, SaveInPlace(inode, blocks)
      PROVE  FileInv'
  <2>1. files' = [files EXCEPT ![inode] = [blocks |-> <<>>, mtime |-> files[inode].mtime + 1]]
        /\ unwritten' = [unwritten EXCEPT ![inode] = [i \in 1..blocks |-> edits + 1]]
    BY <1>1 DEF SaveInPlace
  <2>2. \A i \in Inodes \ {inode} : files'[i] = files[i] /\ unwritten'[i] = unwritten[i]
    BY <2>1 DEF ResourceTypes
  <2>3. files'[inode].blocks = <<>> /\ unwritten'[inode] = [i \in 1..blocks |-> edits + 1]
    BY <2>1 DEF ResourceTypes
  <2>4. DOMAIN files'[inode].blocks = {} /\ \A k \in DOMAIN unwritten'[inode] :
          unwritten'[inode][k] = edits + 1
    BY <2>3
  <2>5. /\ Uniform(files'[inode].blocks) /\ Uniform(unwritten'[inode])
        /\ \A j \in DOMAIN files'[inode].blocks, k \in DOMAIN unwritten'[inode] :
             files'[inode].blocks[j] = unwritten'[inode][k]
    BY <2>4 DEF Uniform
  <2>. QED BY <2>2, <2>5 DEF FileInv
<1>2. ASSUME NEW inode \in Inodes, WriteBlock(inode)
      PROVE  FileInv'
  <2>. DEFINE blocks == files[inode].blocks
              rest == unwritten[inode]
  <2>1. blocks \in Seq(Nat) /\ rest \in Seq(Nat) /\ rest # <<>>
    BY <1>2 DEF WriteBlock, ResourceTypes
  <2>2. \A i \in Inodes \ {inode} : files'[i] = files[i] /\ unwritten'[i] = unwritten[i]
    BY <1>2 DEF WriteBlock, ResourceTypes
  <2>3. files'[inode].blocks = Append(blocks, Head(rest)) /\ unwritten'[inode] = Tail(rest)
    BY <1>2 DEF WriteBlock, ResourceTypes
  <2>4. /\ Uniform(blocks) /\ Uniform(rest)
        /\ \A j \in DOMAIN blocks, k \in DOMAIN rest : blocks[j] = rest[k]
    BY DEF FileInv
  <2>. HIDE DEF blocks, rest
  <2>5. Head(rest) = rest[1] /\ 1 \in DOMAIN rest /\ Len(rest) \in Nat
    BY <2>1
  <2>6. \A j \in DOMAIN Append(blocks, Head(rest)) : Append(blocks, Head(rest))[j] = rest[1]
    BY <2>1, <2>4, <2>5
  <2>7. \A k \in DOMAIN Tail(rest) : Tail(rest)[k] = rest[1]
    <3>1. \A k \in DOMAIN Tail(rest) : k + 1 \in DOMAIN rest /\ Tail(rest)[k] = rest[k + 1]
      BY <2>1, <2>5
    <3>. QED BY <2>4, <2>5, <3>1 DEF Uniform
  <2>8. /\ Uniform(files'[inode].blocks) /\ Uniform(unwritten'[inode])
        /\ \A j \in DOMAIN files'[inode].blocks, k \in DOMAIN unwritten'[inode] :
             files'[inode].blocks[j] = unwritten'[inode][k]
    BY <2>3, <2>6, <2>7 DEF Uniform
  <2>. QED BY <2>2, <2>8 DEF FileInv
<1>3. CASE UNCHANGED <<files, unwritten>>
  BY <1>3 DEF FileInv
<1>. QED BY <1>1, <1>2, <1>3 DEF ResourcesStep, Replace, OpenFile, StatFile, VerifyPath, ReadBlock,
     StatAgain, KeepFragment, resourceVars, directoryVars, loadVars

(* A file that is written has a later time.                                *)
LEMMA WrittenLater ==
  ASSUME ResourceTypes, NEW i \in Inodes,
         \/ \E inode \in Inodes, blocks \in Sizes : SaveInPlace(inode, blocks)
         \/ \E inode \in Inodes : WriteBlock(inode)
         \/ \E p \in DOMAIN entry, inode \in Inodes \cup {None} : Replace(p, inode)
  PROVE  /\ files'[i] = files[i] \/ files'[i].mtime = files[i].mtime + 1
         /\ UNCHANGED loadVars
<1>1. ASSUME NEW inode \in Inodes, NEW blocks \in Sizes, SaveInPlace(inode, blocks)
      PROVE  files'[i] = files[i] \/ files'[i].mtime = files[i].mtime + 1
  BY <1>1 DEF ResourceTypes, SaveInPlace
<1>2. ASSUME NEW inode \in Inodes, WriteBlock(inode)
      PROVE  files'[i] = files[i] \/ files'[i].mtime = files[i].mtime + 1
  BY <1>2 DEF ResourceTypes, WriteBlock
<1>3. ASSUME NEW p \in DOMAIN entry, NEW inode \in Inodes \cup {None}, Replace(p, inode)
      PROVE  files'[i] = files[i]
  BY <1>3 DEF Replace
<1>4. UNCHANGED loadVars
  BY DEF SaveInPlace, WriteBlock, Replace
<1>. QED BY <1>1, <1>2, <1>3, <1>4

(* What is read is the beginning of one version, or is going to be thrown  *)
(* away.                                                                   *)
LEMMA ReadStep ==
  ASSUME ResourceTypes, FileInv, ReadInv, [ResourcesStep]_resourceVars
  PROVE  ReadInv'
<1>. USE DEF Reading
<1>1. CASE \/ \E inode \in Inodes, blocks \in Sizes : SaveInPlace(inode, blocks)
           \/ \E inode \in Inodes : WriteBlock(inode)
           \/ \E p \in DOMAIN entry, inode \in Inodes \cup {None} : Replace(p, inode)
  <2>0. CASE loading \notin Reading
    BY <1>1, <2>0, WrittenLater DEF ReadInv, loadVars, SaveInPlace, WriteBlock, Replace
  <2>1. CASE loading \in Reading
    <3>1. handle \in Inodes /\ files[handle].mtime \in Nat
      BY <2>1 DEF ResourceTypes
    <3>2. files'[handle] = files[handle] \/ files'[handle].mtime = files[handle].mtime + 1
      BY <1>1, <3>1, WrittenLater
    <3>3. UNCHANGED loadVars
      BY <1>1, <3>1, WrittenLater
    <3>. QED BY <2>1, <3>1, <3>2, <3>3 DEF ReadInv, loadVars
  <2>. QED BY <2>0, <2>1
<1>2. CASE OpenFile
  BY <1>2 DEF OpenFile, Fails, ReadInv
<1>3. CASE StatFile
  <2>1. handle \in Inodes /\ files[handle].mtime \in Nat
    BY <1>3 DEF StatFile, ResourceTypes
  <2>. QED BY <1>3, <2>1 DEF StatFile, Stat, ReadInv, directoryVars
<1>4. CASE VerifyPath
  <2>1. handle \in Inodes /\ files[handle].blocks \in Seq(Nat)
    BY <1>4 DEF VerifyPath, ResourceTypes
  <2>2. Len(<<>>) <= Len(files[handle].blocks)
    BY <2>1
  <2>. QED BY <1>4, <2>2 DEF VerifyPath, Fails, ReadInv, directoryVars
<1>5. CASE ReadBlock
  <2>1. /\ handle \in Inodes /\ files[handle].blocks \in Seq(Nat) /\ buffer \in Seq(Nat)
        /\ loading = "read" /\ UNCHANGED <<found, handle, files>>
    BY <1>5 DEF ReadBlock, ResourceTypes, directoryVars
  <2>2. CASE Len(buffer) < Len(files[handle].blocks)
    <3>1. buffer' = Append(buffer, files[handle].blocks[Len(buffer) + 1]) /\ loading' = "read"
      BY <1>5, <2>1, <2>2 DEF ReadBlock
    <3>2. /\ Len(buffer') = Len(buffer) + 1 /\ Len(buffer') <= Len(files[handle].blocks)
          /\ \A j \in 1..Len(buffer) : buffer'[j] = buffer[j]
          /\ buffer'[Len(buffer) + 1] = files[handle].blocks[Len(buffer) + 1]
      BY <2>1, <2>2, <3>1
    <3>. QED BY <2>1, <3>1, <3>2, SMTT(40) DEF ReadInv
  <2>3. CASE ~(Len(buffer) < Len(files[handle].blocks))
    <3>1. buffer' = buffer /\ loading' = "restat"
      BY <1>5, <2>3 DEF ReadBlock
    <3>. QED BY <2>1, <3>1 DEF ReadInv
  <2>. QED BY <2>2, <2>3
<1>6. CASE StatAgain
  <2>1. /\ handle \in Inodes /\ files[handle].blocks \in Seq(Nat) /\ buffer \in Seq(Nat)
        /\ loading = "restat" /\ loading' = "compare" /\ again'.mtime = files[handle].mtime
        /\ UNCHANGED <<found, handle, files, buffer>>
    BY <1>6 DEF StatAgain, Stat, ResourceTypes, directoryVars
  <2>2. ASSUME found.mtime = files[handle].mtime
        PROVE  Uniform(buffer)
    <3>1. \A j \in DOMAIN buffer : j \in DOMAIN files[handle].blocks
                                    /\ buffer[j] = files[handle].blocks[j]
      BY <2>1, <2>2, SMTT(40) DEF ReadInv
    <3>2. Uniform(files[handle].blocks)
      BY <2>1 DEF FileInv
    <3>. QED BY ONLY <3>1, <3>2 DEF Uniform
  <2>. QED BY <2>1, <2>2 DEF ReadInv
<1>7. CASE KeepFragment
  BY <1>7 DEF KeepFragment, Fails, ReadInv
<1>8. CASE UNCHANGED resourceVars
  BY <1>8 DEF ReadInv, resourceVars, loadVars, directoryVars
<1>. QED BY <1>1, <1>2, <1>3, <1>4, <1>5, <1>6, <1>7, <1>8 DEF ResourcesStep

(* The total of a sequence that is one longer.                             *)
LEMMA TotalOfOneMore ==
  ASSUME NEW n, NEW w, NEW v, n \in Nat, w \in [1..(n + 1) -> Nat], v \in [1..n -> Nat],
         \A i \in 1..n : v[i] = w[i]
  PROVE  Total(w) = w[n + 1] + Total(v)
<1>1. PICK S, x : S = 1..(n + 1) /\ x = n + 1
  OBVIOUS
<1>2. IsFiniteSet(S)
  BY <1>1, FS_Interval
<1>3. x \in S
  BY <1>1
<1>6. S \ {x} = 1..n
  BY <1>1
<1>4. w \in [S -> Nat] /\ v \in [S \ {x} -> Nat] /\ \A i \in S \ {x} : v[i] = w[i]
  BY <1>1, <1>6
<1>5. Total(w) = w[x] + Total(v)
  BY ONLY <1>2, <1>3, <1>4, TotalTake
<1>. QED BY <1>1, <1>5

(* A fragment adds its blocks.                                             *)
LEMMA BytesOfOneMore ==
  ASSUME NEW fragments \in Seq(Fragment), NEW fragment \in Fragment
  PROVE  /\ Bytes(fragments) \in Nat
         /\ Bytes(Append(fragments, fragment)) = Bytes(fragments) + Len(fragment.blocks)
<1>. DEFINE n == Len(fragments)
            more == Append(fragments, fragment)
            w == [i \in DOMAIN more |-> Len(more[i].blocks)]
            v == [i \in DOMAIN fragments |-> Len(fragments[i].blocks)]
<1>1. /\ n \in Nat /\ DOMAIN fragments = 1..n /\ DOMAIN more = 1..(n + 1)
      /\ more[n + 1] = fragment /\ \A i \in 1..n : more[i] = fragments[i]
      /\ \A i \in 1..n : fragments[i] \in Fragment
  OBVIOUS
<1>2. \A f \in Fragment : Len(f.blocks) \in Nat
  BY DEF Fragment
<1>3. IsFiniteSet(1..n) /\ IsFiniteSet(1..(n + 1))
  BY <1>1, FS_Interval
<1>. HIDE DEF n, more
<1>4. v \in [1..n -> Nat] /\ w \in [1..(n + 1) -> Nat]
  BY <1>1, <1>2
<1>5. n + 1 \in 1..(n + 1) /\ (1..(n + 1)) \ {n + 1} = 1..n
  BY <1>1
<1>6. w[n + 1] = Len(fragment.blocks) /\ \A i \in 1..n : v[i] = w[i]
  BY <1>1, <1>5
<1>. HIDE DEF w, v
<1>7. Total(w) = w[n + 1] + Total(v)
  BY <1>1, <1>4, <1>6, TotalOfOneMore
<1>8. Total(v) \in Nat
  BY <1>3, <1>4, TotalType
<1>9. Bytes(fragments) = Total(v) /\ Bytes(more) = Total(w)
  BY DEF Bytes, v, w
<1>10. Len(fragment.blocks) \in Nat
  BY <1>2
<1>. QED BY <1>6, <1>7, <1>8, <1>9, <1>10 DEF more

(* What is kept continues the list.                                        *)
LEMMA LoadedStep ==
  ASSUME ResourceTypes, ReadInv, LoadedInv, [ResourcesStep]_resourceVars
  PROVE  LoadedInv'
<1>. USE ResourcesAssumption DEF ResourcesAssumption
<1>1. CASE KeepFragment
  <2>1. CASE Fails
    BY <1>1, <2>1 DEF KeepFragment, Fails, LoadedInv
  <2>2. CASE ~Fails
    <3>. DEFINE fragment == [path |-> path, blocks |-> buffer]
    <3>0. fragment \in Fragment /\ loaded \in Seq(Fragment)
      BY DEF ResourceTypes, Fragment, path
    <3>1. /\ loading = "compare" /\ Unchanged /\ Bytes(loaded) + Len(buffer) <= MaxBytes
          /\ loaded' = Append(loaded, fragment)
          /\ IF at < Len(Paths) THEN at' = at + 1 /\ loading' = "open"
                                ELSE loading' = "done" /\ UNCHANGED at
      <4>1. Bytes(loaded) \in Nat
        BY ONLY <3>0, BytesOfOneMore
      <4>. QED BY <1>1, <2>2, <4>1, SMTT(40) DEF KeepFragment, ResourceTypes
    <3>3. Uniform(buffer)
      BY <3>1 DEF ReadInv, Unchanged
    <3>4. fragment.path = Paths[at] /\ fragment.blocks = buffer
      BY DEF path
    <3>. HIDE DEF fragment
    <3>5. Bytes(loaded') = Bytes(loaded) + Len(buffer)
      BY <3>0, <3>1, <3>4, BytesOfOneMore
    <3>6. Len(loaded) = at - 1
      BY <3>1 DEF LoadedInv
    <3>7. /\ Len(loaded') = at /\ loaded'[at] = fragment
          /\ \A i \in 1..Len(loaded) : loaded'[i] = loaded[i]
      BY <3>0, <3>1, <3>6, SMTT(40) DEF ResourceTypes
    <3>8. \A i \in 1..at : loaded'[i].path = Paths[i] /\ Uniform(loaded'[i].blocks)
      <4>1. loaded'[at].path = Paths[at] /\ Uniform(loaded'[at].blocks)
        BY <3>3, <3>4, <3>7
      <4>2. \A i \in 1..(at - 1) : loaded'[i].path = Paths[i] /\ Uniform(loaded'[i].blocks)
        BY <3>6, <3>7 DEF LoadedInv
      <4>3. \A i \in 1..at : i = at \/ i \in 1..(at - 1)
        BY DEF ResourceTypes
      <4>. QED BY <4>1, <4>2, <4>3
    <3>9. at = Len(Paths) \/ at < Len(Paths)
      BY DEF ResourceTypes
    <3>. QED BY <3>1, <3>5, <3>7, <3>8, <3>9, SMTT(40) DEF LoadedInv, ResourceTypes
  <2>. QED BY <2>1, <2>2
<1>2. CASE loaded' = loaded /\ at' = at /\ (loading' = "done" <=> loading = "done")
  BY <1>2 DEF LoadedInv
<1>. QED BY <1>1, <1>2 DEF ResourcesStep, SaveInPlace, WriteBlock, Replace, OpenFile, StatFile,
     VerifyPath, ReadBlock, StatAgain, Fails, resourceVars, loadVars

(* Resources that load are complete, in order, within their budget, and    *)
(* each is of one version, however the directory is edited meanwhile       *)
(* (loadSpecialistResources, loadFragment).                                *)
THEOREM LoadedResourcesAreWhole == ResourcesSpec => []ResourcesAreWhole
<1>. USE ResourcesAssumption DEF ResourcesAssumption
<1>1. ResourcesInit => ResourceInv
  <2>. SUFFICES ASSUME ResourcesInit PROVE ResourceInv
    OBVIOUS
  <2>1. \A n \in Sizes : Version(n) \in Seq(Nat) /\ Uniform(Version(n))
    BY DEF Version, Uniform
  <2>2. ResourceTypes
    BY <2>1 DEF ResourcesInit, ResourceTypes, Reading
  <2>3. FileInv
    BY <2>1 DEF ResourcesInit, FileInv, Uniform
  <2>4. ReadInv
    BY DEF ResourcesInit, ReadInv, Reading
  <2>5. Bytes(<<>>) = 0
    <3>. DEFINE w == [i \in DOMAIN <<>> |-> Len(<<>>[i].blocks)]
    <3>1. DOMAIN w = {} /\ w \in [{} -> Nat]
      OBVIOUS
    <3>. HIDE DEF w
    <3>2. Total(w) = 0
      BY <3>1, TotalEmpty
    <3>. QED BY <3>2 DEF Bytes, w
  <2>6. LoadedInv
    BY <2>5 DEF ResourcesInit, LoadedInv
  <2>. QED BY <2>2, <2>3, <2>4, <2>6 DEF ResourceInv
<1>2. ResourceInv /\ [ResourcesStep]_resourceVars => ResourceInv'
  BY ResourceTypesStep, FileStep, ReadStep, LoadedStep DEF ResourceInv
<1>3. ResourceInv => ResourcesAreWhole
  <2>. SUFFICES ASSUME ResourceInv PROVE ResourcesAreWhole
    OBVIOUS
  <2>1. Paths \in Seq({Paths[i] : i \in DOMAIN Paths}) /\ loaded \in Seq(Fragment)
    BY DEF ResourceInv, ResourceTypes
  <2>2. ASSUME loading = "done" PROVE [i \in DOMAIN loaded |-> loaded[i].path] = Paths
    BY <2>1, <2>2 DEF ResourceInv, LoadedInv
  <2>. QED BY <2>1, <2>2
       DEF ResourceInv, LoadedInv, ResourcesAreWhole, Uniform, assertResourceSnapshot
<1>. QED BY <1>1, <1>2, <1>3, PTL DEF ResourcesSpec

----------------------------------------------------------------------------
(* The route of a child                                                    *)

(* Candidates of a Specialist, what is known of them, and what a plan may  *)
(* select.                                                                 *)
Counts == Nat \cup {None}

Candidates(Labels) ==
  [id : Labels, provider : Labels, maxTokens : Counts, minContext : Counts, minOutput : Counts,
   instructions : BOOLEAN]

ModelFacts(Labels) ==
  [kind : {"adapter-missing", "rejected", "metadata-unknown", "resolved"}, id : Labels,
   context : Counts, tokens : Counts]

Selections(Labels) ==
  [index : Nat, id : Labels, provider : Labels, maxTokens : Counts,
   source : {"explicit", "adapter-default", None}, instructions : BOOLEAN]

(* The positions of the candidates without a known contradiction.          *)
Admissibles(routes, known) == {i \in 1..Len(routes) : Admissible(routes[i], known[i])}

(* The decision on the i-th candidate, and those on the first i.           *)
Judged(routes, known, i) ==
  IF \E j \in 1..(i - 1) : j \in Admissibles(routes, known)
  THEN Decision(i, "skipped", routes[i], {"HIGHER_PRIORITY_SELECTED"})
  ELSE IF rejectReasons(routes[i], known[i]) # {}
       THEN Decision(i, "rejected", routes[i], rejectReasons(routes[i], known[i]))
       ELSE Decision(i, "selected", routes[i], evidence(routes[i], known[i]))

Judgements(routes, known, i) == [j \in 1..i |-> Judged(routes, known, j)]

(* The first admissible candidate is the one that is selected.             *)
LEMMA FirstIsSelected ==
  ASSUME NEW S, NEW routes \in Seq(S), NEW known, NEW i \in 1..Len(routes)
  PROVE  Judged(routes, known, i).kind = "selected" <=>
           /\ i \in Admissibles(routes, known)
           /\ \A j \in Admissibles(routes, known) : i <= j
<1>1. \A j \in Admissibles(routes, known) : j \in Nat /\ j >= 1
  BY DEF Admissibles
<1>2. (\E j \in 1..(i - 1) : j \in Admissibles(routes, known)) <=>
        ~\A j \in Admissibles(routes, known) : i <= j
  BY <1>1
<1>3. i \in Admissibles(routes, known) <=> rejectReasons(routes[i], known[i]) = {}
  BY DEF Admissibles, Admissible
<1> QED
  BY <1>2, <1>3 DEF Judged, Decision

(* One is selected among the first ones exactly when one is admissible.    *)
LEMMA SelectedAmong ==
  ASSUME NEW S, NEW routes \in Seq(S), NEW known, NEW i \in 1..Len(routes)
  PROVE  (\E j \in 1..(i - 1) : Judgements(routes, known, i - 1)[j].kind = "selected") <=>
           \E j \in 1..(i - 1) : j \in Admissibles(routes, known)
<1> DEFINE P == {j \in 1..(i - 1) : j \in Admissibles(routes, known)}
<1>1. Len(routes) \in Nat /\ \A j \in 1..(i - 1) : j \in 1..Len(routes)
  BY LenProperties
<1>2. \A j \in 1..(i - 1) : Judgements(routes, known, i - 1)[j] = Judged(routes, known, j)
  BY DEF Judgements
<1>3. ASSUME NEW j \in 1..(i - 1), Judged(routes, known, j).kind = "selected"
      PROVE  j \in Admissibles(routes, known)
  BY <1>1, <1>3, FirstIsSelected
<1>4. ASSUME P # {}
      PROVE  \E j \in 1..(i - 1) : Judged(routes, known, j).kind = "selected"
  <2>1. P \in SUBSET Nat
    OBVIOUS
  <2>2. PICK m \in P : \A k \in P : m <= k
    <3> HIDE DEF P
    <3> QED
      BY <1>4, <2>1, LeastNumber
  <2>3. m \in 1..(i - 1) /\ m \in 1..Len(routes) /\ m \in Admissibles(routes, known)
    BY <1>1
  <2>4. \A k \in Admissibles(routes, known) : m <= k
    <3>1. \A k \in Admissibles(routes, known) : k \in Nat /\ k >= 1
      BY DEF Admissibles
    <3> QED
      BY <2>2, <2>3, <3>1
  <2> QED
    BY <2>3, <2>4, FirstIsSelected
<1> QED
  BY <1>2, <1>3, <1>4

(* One more judgement is appended.                                         *)
LEMMA OneMoreJudgement ==
  ASSUME NEW routes, NEW known, NEW i \in Nat \ {0}
  PROVE  Judgements(routes, known, i) =
           Append(Judgements(routes, known, i - 1), Judged(routes, known, i))
<1> DEFINE J(j) == Judged(routes, known, j)
           V == {J(j) : j \in 1..i}
           s == [j \in 1..(i - 1) |-> J(j)]
           t == [j \in 1..i |-> J(j)]
           a == Append(s, J(i))
<1> HIDE DEF J
<1>1. s \in Seq(V) /\ Len(s) = i - 1 /\ J(i) \in V /\ i - 1 \in Nat
  OBVIOUS
<1> HIDE DEF V
<1>2. /\ a \in Seq(V) /\ Len(a) = i
      /\ \A j \in 1..(i - 1) : a[j] = s[j]
      /\ a[i] = J(i)
  <2> HIDE DEF s
  <2>1. /\ a \in Seq(V) /\ Len(a) = Len(s) + 1
        /\ \A j \in 1..Len(s) : a[j] = s[j]
        /\ a[Len(s) + 1] = J(i)
    BY <1>1, AppendProperties
  <2> HIDE DEF a
  <2> QED
    BY <1>1, <2>1
<1>3. a = [j \in 1..i |-> a[j]]
  <2> HIDE DEF a
  <2> QED
    BY <1>2, LenProperties
<1>4. \A j \in 1..i : a[j] = t[j]
  <2> HIDE DEF a
  <2> QED
    BY <1>2
<1>5. t = a
  <2> HIDE DEF a
  <2> QED
    BY <1>3, <1>4
<1> QED
  BY <1>5 DEF Judgements, J

(* The decisions of a plan are these judgements: the recursion has them as *)
(* its only solution.                                                      *)
LEMMA DecisionsAreJudgements ==
  ASSUME NEW S, NEW routes \in Seq(S), NEW known
  PROVE  Decisions(routes, known) = Judgements(routes, known, Len(routes))
<1> DEFINE n == Len(routes)
           E(f, i) ==
             IF i = 0 THEN <<>>
             ELSE LET before == f[i - 1]
                      reasons == rejectReasons(routes[i], known[i])
                  IN  Append(before,
                        IF \E j \in 1..(i - 1) : before[j].kind = "selected"
                        THEN Decision(i, "skipped", routes[i], {"HIGHER_PRIORITY_SELECTED"})
                        ELSE IF reasons # {} THEN Decision(i, "rejected", routes[i], reasons)
                             ELSE Decision(i, "selected", routes[i], evidence(routes[i], known[i])))
           Solution(f) == f = [i \in 0..n |-> E(f, i)]
           J(i) == Judgements(routes, known, i)
           h == [i \in 0..n |-> J(i)]
<1>1. n \in Nat
  BY LenProperties
<1>2. ASSUME NEW i \in 0..n, NEW f, i # 0 => f[i - 1] = J(i - 1)
      PROVE  E(f, i) = J(i)
  <2>1. CASE i = 0
    <3>1. J(0) = <<>>
      BY DEF Judgements
    <3> QED
      BY <2>1, <3>1
  <2>2. CASE i # 0
    <3>1. i \in 1..Len(routes) /\ i \in Nat \ {0}
      BY <1>1, <2>2
    <3>2. (\E j \in 1..(i - 1) : f[i - 1][j].kind = "selected") <=>
             \E j \in 1..(i - 1) : j \in Admissibles(routes, known)
      BY <1>2, <2>2, <3>1, SelectedAmong
    <3>3. E(f, i) = Append(f[i - 1], Judged(routes, known, i))
      BY <2>2, <3>2 DEF Judged
    <3> QED
      BY <1>2, <2>2, <3>1, <3>3, OneMoreJudgement
  <2> QED
    BY <2>1, <2>2
<1>3. Decisions(routes, known) = (CHOOSE f : Solution(f))[n]
  BY DEF Decisions
<1> HIDE DEF E, J
<1>4. Solution(h)
  <2>1. ASSUME NEW i \in 0..n PROVE E(h, i) = J(i)
    <3>1. i # 0 => h[i - 1] = J(i - 1)
      BY <1>1
    <3> HIDE DEF h, n
    <3> QED
      BY <1>2, <3>1
  <2>2. h = [i \in 0..n |-> J(i)]
    OBVIOUS
  <2> HIDE DEF h, n
  <2> QED
    BY <2>1, <2>2
<1>5. ASSUME NEW f, Solution(f) PROVE f[n] = J(n)
  <2> DEFINE P == {i \in 0..n : f[i] # J(i)}
  <2>1. SUFFICES ASSUME P # {} PROVE FALSE
    BY <1>1
  <2>2. P \in SUBSET Nat
    BY <1>1
  <2>3. PICK m \in P : \A k \in P : m <= k
    <3> HIDE DEF P
    <3> QED
      BY <2>1, <2>2, LeastNumber
  <2>4. m # 0 => m - 1 \in 0..n /\ m - 1 \notin P
    BY <1>1, <2>3
  <2>5. m # 0 => f[m - 1] = J(m - 1)
    BY <2>4
  <2>6. m \in 0..n /\ f[m] # J(m)
    OBVIOUS
  <2>7. f[m] = E(f, m)
    <3> HIDE DEF n
    <3> QED
      BY <1>5, <2>6
  <2>8. E(f, m) = J(m)
    <3> HIDE DEF n, P
    <3> QED
      BY <1>2, <2>5, <2>6
  <2> QED
    BY <2>6, <2>7, <2>8
<1>6. Solution(CHOOSE f : Solution(f))
  <2> HIDE DEF Solution
  <2> QED
    BY <1>4
<1>7. (CHOOSE f : Solution(f))[n] = J(n)
  <2> DEFINE f == CHOOSE f : Solution(f)
  <2> HIDE DEF Solution, n, f
  <2>1. Solution(f)
    BY <1>6 DEF f
  <2>2. f[n] = J(n)
    BY <1>5, <2>1
  <2> QED
    BY <2>2 DEF f
<1> HIDE DEF Solution
<1> QED
  BY <1>3, <1>7 DEF J

(* The positions at which a plan has selected.                             *)
Chosen(decisions) == {i \in DOMAIN decisions : decisions[i].kind = "selected"}

(* What a plan selects: the first admissible candidate, or nothing.        *)
LEMMA PlanSelects ==
  ASSUME NEW S, NEW routes \in Seq(S), NEW known
  PROVE  LET plan == compileRoutePlan(routes, known)
         IN  /\ plan.decisions = Judgements(routes, known, Len(routes))
             /\ Admissibles(routes, known) = {} => plan.selected = None
             /\ \A m \in Admissibles(routes, known) :
                  (\A i \in Admissibles(routes, known) : m <= i)
                    => /\ Chosen(plan.decisions) = {m}
                       /\ plan.decisions[m] = Decision(m, "selected", routes[m], evidence(routes[m], known[m]))
                       /\ plan.selected = Selection(plan.decisions[m])
<1> DEFINE d == Judgements(routes, known, Len(routes))
           plan == compileRoutePlan(routes, known)
           good == Admissibles(routes, known)
<1>0. Decisions(routes, known) = d
  BY DecisionsAreJudgements
<1>1. plan.decisions = d
  <2> HIDE DEF d
  <2> QED
    BY <1>0 DEF compileRoutePlan
<1>2. plan.selected = IF Chosen(d) = {} THEN None ELSE Selection(d[CHOOSE i \in Chosen(d) : TRUE])
  <2> DEFINE all == Decisions(routes, known)
             chosen == {i \in DOMAIN all : all[i].kind = "selected"}
  <2>1. plan.selected = IF chosen = {} THEN None ELSE Selection(all[CHOOSE i \in chosen : TRUE])
    BY DEF compileRoutePlan
  <2>2. chosen = Chosen(d) /\ all = d
    BY <1>0 DEF Chosen
  <2> HIDE DEF chosen, all, plan, d
  <2> QED
    BY <2>1, <2>2
<1>3. DOMAIN d = 1..Len(routes) /\ \A i \in 1..Len(routes) : d[i] = Judged(routes, known, i)
  BY DEF Judgements
<1>4. \A i : i \in Chosen(d) <=> i \in good /\ \A j \in good : i <= j
  <2> TAKE i
  <2>1. i \in Chosen(d) <=> i \in 1..Len(routes) /\ Judged(routes, known, i).kind = "selected"
    <3> HIDE DEF d
    <3> QED
      BY <1>3 DEF Chosen
  <2>2. i \in good => i \in 1..Len(routes)
    BY DEF Admissibles
  <2> HIDE DEF good, d
  <2> QED
    BY <2>1, <2>2, FirstIsSelected DEF good
<1>5. good = {} => plan.selected = None
  <2> HIDE DEF plan, d, good
  <2> QED
    BY <1>2, <1>4
<1>6. ASSUME NEW m \in good, \A i \in good : m <= i
      PROVE  /\ Chosen(d) = {m}
             /\ d[m] = Decision(m, "selected", routes[m], evidence(routes[m], known[m]))
             /\ plan.selected = Selection(d[m])
  <2>1. \A i \in good : i \in Nat /\ i \in 1..Len(routes)
    BY DEF Admissibles
  <2>2. Chosen(d) = {m}
    <3> HIDE DEF d, good
    <3>1. \A i : i \in Chosen(d) <=> i = m
      BY <1>4, <1>6, <2>1
    <3> QED
      BY <3>1
  <2>3. d[m] = Decision(m, "selected", routes[m], evidence(routes[m], known[m]))
    <3>1. d[m] = Judged(routes, known, m)
      <4> HIDE DEF d, good
      <4> QED
        BY <1>3, <2>1
    <3>2. rejectReasons(routes[m], known[m]) = {}
      BY DEF Admissibles, Admissible
    <3>3. ~\E j \in 1..(m - 1) : j \in good
      <4> HIDE DEF d, good
      <4> QED
        BY <1>6, <2>1
    <3> HIDE DEF d
    <3> QED
      BY <3>1, <3>2, <3>3 DEF Judged
  <2>4. (CHOOSE i \in Chosen(d) : TRUE) = m
    <3> HIDE DEF d
    <3> QED
      BY <2>2
  <2> HIDE DEF d, plan, good
  <2> QED
    BY <1>2, <2>2, <2>3, <2>4
<1> HIDE DEF plan, d, good
<1>7. /\ plan.decisions = d
      /\ good = {} => plan.selected = None
      /\ \A m \in good : (\A i \in good : m <= i)
           => /\ Chosen(plan.decisions) = {m}
              /\ plan.decisions[m] = Decision(m, "selected", routes[m], evidence(routes[m], known[m]))
              /\ plan.selected = Selection(plan.decisions[m])
  BY <1>1, <1>5, <1>6
<1> QED
  BY <1>7 DEF plan, d, good

(* Among admissible candidates there is a first.                           *)
LEMMA FirstAdmissible ==
  ASSUME NEW routes, NEW known, Admissibles(routes, known) # {}
  PROVE  \E m \in Admissibles(routes, known) : \A i \in Admissibles(routes, known) : m <= i
<1>1. Admissibles(routes, known) \in SUBSET Nat
  BY DEF Admissibles
<1> QED
  BY <1>1, LeastNumber

(* What is selected of a candidate is a selection.                         *)
LEMMA SelectionType ==
  ASSUME NEW Labels, NEW route \in Candidates(Labels), NEW fact \in ModelFacts(Labels), NEW m \in Nat,
         NEW decision, decision = Decision(m, "selected", route, evidence(route, fact))
  PROVE  Selection(decision) \in Selections(Labels) /\ Selection(decision).index = m
<1> DEFINE budget == effectiveOutputBudget(route, fact)
<1>1. /\ budget.kind \in {"explicit", "adapter-default", "unknown"} /\ budget.tokens \in Counts
  BY DEF effectiveOutputBudget, Candidates, ModelFacts, Counts
<1>2. decision.why.budget = budget
  BY DEF Decision, evidence
<1>3. decision.index = m /\ decision.candidate = route
  BY DEF Decision
<1> HIDE DEF budget
<1> QED
  BY <1>1, <1>2, <1>3 DEF Selection, Selections, Candidates

(* The first admissible candidate is selected, the plan passes the check   *)
(* that is made before it is applied, and knowing less of one candidate    *)
(* selects no later one (src/src/route.ts:455, 570), for any number of     *)
(* candidates, whatever is known of them.                                  *)
THEOREM RoutesAreFirstAdmissible ==
  \A Labels : None \notin Selections(Labels) =>
    \A routes \in Seq(Candidates(Labels)) : \A known \in [1..Len(routes) -> ModelFacts(Labels)] :
      RouteIsFirstAdmissible(routes, known)
<1>1. SUFFICES ASSUME NEW Labels, None \notin Selections(Labels),
                      NEW routes \in Seq(Candidates(Labels)),
                      NEW known \in [1..Len(routes) -> ModelFacts(Labels)]
               PROVE  RouteIsFirstAdmissible(routes, known)
  OBVIOUS
<1> DEFINE plan == compileRoutePlan(routes, known)
           good == Admissibles(routes, known)
           Blurred(i) == [known EXCEPT ![i] = Fact("metadata-unknown", routes[i])]
<1>2. /\ DOMAIN routes = 1..Len(routes) /\ Len(routes) \in Nat
      /\ \A i \in 1..Len(routes) : routes[i] \in Candidates(Labels)
  BY LenProperties
<1>3. good = {i \in DOMAIN routes : Admissible(routes[i], known[i])} /\ good \in SUBSET Nat
      /\ good \in SUBSET DOMAIN routes
  BY <1>2 DEF Admissibles
<1>4. good = {} => plan.selected = None
  BY PlanSelects
<1>5. ASSUME NEW m \in good, \A i \in good : m <= i
      PROVE  /\ plan.selected # None /\ plan.selected.index = m
             /\ assertSelectedRoutePlan(plan)
             /\ \A i \in DOMAIN routes :
                  compileRoutePlan(routes, Blurred(i)).selected.index <= m
  <2>1. /\ plan.decisions = Judgements(routes, known, Len(routes))
        /\ Chosen(plan.decisions) = {m}
        /\ plan.decisions[m] = Decision(m, "selected", routes[m], evidence(routes[m], known[m]))
        /\ plan.selected = Selection(plan.decisions[m])
    BY <1>5, PlanSelects
  <2>2. m \in 1..Len(routes) /\ m \in Nat
    BY <1>2, <1>3
  <2>3. plan.selected # None /\ plan.selected.index = m
    <3>1. routes[m] \in Candidates(Labels) /\ known[m] \in ModelFacts(Labels)
      BY <1>2, <2>2
    <3> HIDE DEF plan, good
    <3> QED
      BY <1>1, <2>1, <2>2, <3>1, SelectionType
  <2>4. assertSelectedRoutePlan(plan)
    <3>1. \A i \in DOMAIN plan.decisions : plan.decisions[i].index = i
      <4>1. DOMAIN plan.decisions = 1..Len(routes)
            /\ \A i \in 1..Len(routes) : plan.decisions[i] = Judged(routes, known, i)
        BY <2>1 DEF Judgements
      <4>2. \A i : Judged(routes, known, i).index = i
        BY DEF Judged, Decision
      <4> HIDE DEF plan
      <4> QED
        BY <4>1, <4>2
    <3>2. Cardinality(Chosen(plan.decisions)) = 1
      BY <2>1, FS_Singleton
    <3>3. \A i \in Chosen(plan.decisions) : plan.selected = Selection(plan.decisions[i])
      <4> HIDE DEF plan
      <4> QED
        BY <2>1
    <3> HIDE DEF plan
    <3> QED
      BY <2>3, <3>1, <3>2, <3>3 DEF assertSelectedRoutePlan, Chosen
  <2>5. ASSUME NEW i \in DOMAIN routes
        PROVE  compileRoutePlan(routes, Blurred(i)).selected.index <= m
    <3> DEFINE less == Admissibles(routes, Blurred(i))
    <3>1. good \subseteq less
      <4>1. \A j \in DOMAIN routes : Blurred(i)[j] = IF j = i THEN Fact("metadata-unknown", routes[i]) ELSE known[j]
        BY <1>2
      <4>2. rejectReasons(routes[i], Fact("metadata-unknown", routes[i])) = {}
        BY DEF rejectReasons, Fact
      <4> HIDE DEF Blurred
      <4>3. \A j \in good : j \in 1..Len(routes) /\ rejectReasons(routes[j], Blurred(i)[j]) = {}
        BY <1>2, <1>3, <4>1, <4>2 DEF Admissible
      <4> QED
        BY <4>3 DEF Admissibles, Admissible
    <3> HIDE DEF Blurred
    <3>2. PICK k \in less : \A j \in less : k <= j
      BY <3>1, FirstAdmissible
    <3>3. k <= m /\ k \in Nat /\ k \in 1..Len(routes)
      BY <3>1, <3>2 DEF Admissibles
    <3> DEFINE other == compileRoutePlan(routes, Blurred(i))
    <3>4. /\ other.decisions[k] = Decision(k, "selected", routes[k], evidence(routes[k], Blurred(i)[k]))
          /\ other.selected = Selection(other.decisions[k])
      BY <3>2, PlanSelects
    <3>5. other.selected.index = k
      <4> HIDE DEF other
      <4> QED
        BY <3>4 DEF Selection, Decision
    <3> HIDE DEF other
    <3> QED
      BY <3>3, <3>5 DEF other
  <2> QED
    BY <2>3, <2>4, <2>5
<1>6. good # {} => \E m \in good : \A i \in good : m <= i
  BY FirstAdmissible
<1>8. CASE good = {}
  <2> HIDE DEF good
  <2>1. plan.selected = None
    BY <1>4, <1>8
  <2> QED
    BY <1>3, <1>8, <2>1 DEF RouteIsFirstAdmissible
<1>9. CASE good # {}
  <2>1. PICK m \in good : \A i \in good : m <= i
    BY <1>6, <1>9
  <2>2. /\ plan.selected # None /\ plan.selected.index = m
        /\ assertSelectedRoutePlan(plan)
        /\ \A i \in DOMAIN routes :
             compileRoutePlan(routes, Blurred(i)).selected.index <= m
    BY <1>5, <2>1
  <2>3. /\ (plan.selected = None) = (good = {})
        /\ plan.selected # None =>
             /\ plan.selected.index \in good
             /\ \A i \in good : plan.selected.index <= i
             /\ assertSelectedRoutePlan(plan)
             /\ \A i \in DOMAIN routes :
                  compileRoutePlan(routes, Blurred(i)).selected.index <= plan.selected.index
    <3> HIDE DEF plan, good, Blurred
    <3> QED
      BY <1>9, <2>1, <2>2
  <2> HIDE DEF good
  <2> QED
    BY <1>3, <2>3 DEF RouteIsFirstAdmissible
<1> QED
  BY <1>8, <1>9

----------------------------------------------------------------------------
(* What a row may delegate to                                              *)

(* A Specialist is inactive without an error only when its provider or its *)
(* adapters are missing.                                                   *)
LEMMA InactiveIsMissing ==
  ASSUME NEW config, NEW offered, NEW specialist,
         DefaultMode(config, specialist) \notin AllowedModes(config, specialist, offered),
         ProviderErrors(config, specialist, offered) = {}
  PROVE  \/ specialist.provider \notin DOMAIN offered.providers
         \/ AdapterUnavailable(specialist, offered)
<1> DEFINE provider == offered.providers[specialist.provider]
           mode == DefaultMode(config, specialist)
           needs == Needs(specialist)
<1>1. SUFFICES ASSUME specialist.provider \in DOMAIN offered.providers,
                      ~AdapterUnavailable(specialist, offered)
               PROVE  FALSE
  OBVIOUS
<1>2. /\ mode = "foreground" => ~(needs \subseteq provider.capabilities)
      /\ mode = "continuable" =>
           ~(config.enableRunInBackground /\ provider.continuable /\ specialist.result = "text")
  BY <1>1 DEF AllowedModes
<1>3. /\ mode = "continuable" => provider.continuable /\ specialist.result = "text"
      /\ mode # "continuable" => needs \subseteq provider.capabilities
  BY <1>1 DEF ProviderErrors
<1>4. \/ mode = "foreground"
      \/ mode = "continuable" /\ config.enableRunInBackground
  BY DEF DefaultMode
<1> HIDE DEF mode, provider, needs
<1> QED
  BY <1>2, <1>3, <1>4

(* A mode a Specialist can run in is one its provider can serve.           *)
LEMMA ModesAreServed ==
  ASSUME NEW config, NEW offered, NEW specialist
  PROVE  LET modes == AllowedModes(config, specialist, offered)
             provider == offered.providers[specialist.provider]
         IN  /\ "foreground" \in modes => Needs(specialist) \subseteq provider.capabilities
             /\ "continuable" \in modes =>
                  config.enableRunInBackground /\ provider.continuable /\ specialist.result = "text"
BY DEF AllowedModes

(* In a usable catalog only what is missing keeps a Specialist inactive,   *)
(* the default is active, and a plan asks of its provider only what that   *)
(* can do (src/src/compiler.ts:279, 482), for any configuration and        *)
(* whatever the registries offered.                                        *)
THEOREM PlansAskWhatIsThere ==
  ASSUME None \notin BOOLEAN
  PROVE  \A config, offered, invocation :
           invocation.background \in BOOLEAN \cup {None} => PlansRunAsCompiled(config, offered, invocation)
<1>1. SUFFICES ASSUME NEW config, NEW offered, NEW invocation,
                      invocation.background \in BOOLEAN \cup {None},
                      assertCatalogUsable(compileSpecialistCatalog(config, offered))
               PROVE  PlansRunAsCompiled(config, offered, invocation)
  BY DEF PlansRunAsCompiled
<1> DEFINE catalog == compileSpecialistCatalog(config, offered)
           plan == compileDelegationPlan(catalog, invocation)
           names == DOMAIN config.specialists
           S(n) == config.specialists[n]
           name == IF invocation.specialist # None THEN invocation.specialist ELSE catalog.default
           background == catalog.background
                           /\ IF invocation.background = None THEN catalog.specialists[name].background
                                                              ELSE invocation.background
           mode == IF background THEN "continuable" ELSE "foreground"
<1>2. /\ catalog.specialists = config.specialists
      /\ catalog.background = config.enableRunInBackground
      /\ \A n \in names : catalog.modes[n] = AllowedModes(config, S(n), offered)
      /\ catalog.active = {n \in names : DefaultMode(config, S(n)) \in AllowedModes(config, S(n), offered)}
      /\ catalog.default \in catalog.active \cup {None}
      /\ catalog.errors = UNION {ProviderErrors(config, S(n), offered) : n \in names}
  BY DEF compileSpecialistCatalog
<1> HIDE DEF catalog
<1>3. \A n \in names : ProviderErrors(config, S(n), offered) = {}
  <2>1. catalog.errors = {}
    BY <1>1 DEF assertCatalogUsable, catalog
  <2> QED
    BY <1>2, <2>1
<1>4. \A n \in names \ catalog.active :
        \/ S(n).provider \notin DOMAIN offered.providers
        \/ AdapterUnavailable(S(n), offered)
  BY <1>2, <1>3, InactiveIsMissing
<1>5. ASSUME plan.error = None
      PROVE  /\ plan.specialist = name /\ plan.mode = mode
             /\ name \in catalog.active /\ name \in names /\ mode \in catalog.modes[name]
  <2>1. /\ None # "PROFILE_REQUIRED" /\ None # "PROFILE_UNKNOWN" /\ None # "PROFILE_INACTIVE"
        /\ None # "BACKGROUND_DISABLED" /\ None # "STRUCTURED_BACKGROUND_UNSUPPORTED"
        /\ None # "MODE_UNSUPPORTED"
    BY DelegationAssumption
  <2>2. \A code : Refused(code).error = code
    BY DEF Refused
  <2> DEFINE specialist == catalog.specialists[name]
             accepted == [error |-> None, specialist |-> name, mode |-> mode, provider |-> specialist.provider,
                          route |-> None, persona |-> specialist.persona, result |-> specialist.result]
  <2>3. plan =
          IF name = None THEN Refused("PROFILE_REQUIRED")
          ELSE IF name \notin DOMAIN catalog.specialists THEN Refused("PROFILE_UNKNOWN")
          ELSE IF name \notin catalog.active THEN Refused("PROFILE_INACTIVE")
          ELSE IF ~catalog.background /\ invocation.background = TRUE THEN Refused("BACKGROUND_DISABLED")
          ELSE IF mode = "continuable" /\ specialist.result # "text"
          THEN Refused("STRUCTURED_BACKGROUND_UNSUPPORTED")
          ELSE IF mode \notin catalog.modes[name] THEN Refused("MODE_UNSUPPORTED")
          ELSE accepted
    BY DEF compileDelegationPlan
  <2>4. accepted.specialist = name /\ accepted.mode = mode
    OBVIOUS
  <2> HIDE DEF plan, name, mode, accepted
  <2>5. /\ plan = accepted
        /\ name \in DOMAIN catalog.specialists /\ name \in catalog.active /\ mode \in catalog.modes[name]
    BY <1>5, <2>1, <2>2, <2>3
  <2> QED
    BY <1>2, <2>4, <2>5
<1>6. ASSUME plan.error = None
      PROVE  LET specialist == config.specialists[plan.specialist]
                 provider == offered.providers[specialist.provider]
             IN  /\ plan.specialist \in catalog.active
                 /\ plan.mode = "foreground" => Needs(specialist) \subseteq provider.capabilities
                 /\ plan.mode = "continuable" =>
                      /\ config.enableRunInBackground /\ invocation.background # FALSE
                      /\ provider.continuable /\ specialist.result = "text"
  <2>1. /\ plan.specialist = name /\ plan.mode = mode
        /\ name \in catalog.active /\ name \in names
        /\ mode \in AllowedModes(config, S(name), offered)
    BY <1>2, <1>5, <1>6
  <2>2. mode = "continuable" => invocation.background # FALSE
    BY <1>1
  <2> HIDE DEF plan, name, mode
  <2> QED
    BY <2>1, <2>2, ModesAreServed
<1> HIDE DEF plan
<1> QED
  BY <1>2, <1>4, <1>6 DEF PlansRunAsCompiled, catalog, plan

=============================================================================
