----------------------------- MODULE ConfigDocuments ---------------------------
(***************************************************************************)
(* Configuration documents (src/src/config.ts): authored in version 1, 2   *)
(* or 3, in current or retired words, in layers; read into one effective   *)
(* configuration, and exported again in each version.                      *)
(*                                                                         *)
(* A document has the fields of Document below, None where it says nothing.*)
(* A namespace maps names to entries.  A Specialist is a record of         *)
(* validateCurrentConfig, a Cohort maps its members to [specialist,        *)
(* profile], and a Strategy is [cohort, team]: what else they hold is      *)
(* copied unchanged.  Layer ids are <<word, number>>, and deployment-2 is  *)
(* <<"deployment", 2>>.                                                    *)
(***************************************************************************)
EXTENDS CatalogLayers, Absence

DefaultStarts == 16
DefaultTasks == 4

Given(f) == IF f = None THEN <<>> ELSE f

(* Mentions of the same thing in current and in retired words.             *)
SpelledTwice(current, retired) == current # None /\ retired # None

mergeScalarSpelling(current, retired) == IF current = None THEN retired ELSE current

EntriesClash(current, retired) == DOMAIN Given(current) \cap DOMAIN Given(retired) # {}

mergeNamespaceEntries(current, retired) ==
  LET new == Given(current) old == Given(retired)
  IN  [n \in DOMAIN new \cup DOMAIN old |-> IF n \in DOMAIN new THEN new[n] ELSE old[n]]

normalizeCohort(cohort) ==
  [m \in DOMAIN cohort |-> mergeScalarSpelling(cohort[m].specialist, cohort[m].profile)]

CohortSpelledTwice(cohort) ==
  \E m \in DOMAIN cohort : SpelledTwice(cohort[m].specialist, cohort[m].profile)

normalizeStrategy(strategy) == mergeScalarSpelling(strategy.cohort, strategy.team)

(* The parts of a document that a layer has as well.                       *)
SectionClashes(section) ==
  LET cohorts == mergeNamespaceEntries(section.cohorts, section.teams)
      strategies == Given(section.strategies)
  IN  \/ EntriesClash(section.specialists, section.profiles)
      \/ EntriesClash(section.cohorts, section.teams)
      \/ \E n \in DOMAIN cohorts : CohortSpelledTwice(cohorts[n])
      \/ \E n \in DOMAIN strategies : SpelledTwice(strategies[n].cohort, strategies[n].team)

(* normalizeCatalogLayer and, for the document itself,                     *)
(* normalizeConfigNamespaces: the three namespaces in current words.       *)
Namespaces(section) ==
  LET cohorts == mergeNamespaceEntries(section.cohorts, section.teams)
      strategies == Given(section.strategies)
  IN  [specialists |-> mergeNamespaceEntries(section.specialists, section.profiles),
       cohorts |-> [n \in DOMAIN cohorts |-> normalizeCohort(cohorts[n])],
       strategies |-> [n \in DOMAIN strategies |-> normalizeStrategy(strategies[n])]]

NoneDisabled == [specialists |-> {}, profiles |-> {}, cohorts |-> {}, teams |-> {}, strategies |-> {}]

(* mergeNamespaceNames and normalizeCatalogDisable.                        *)
DisableClashes(disable) ==
  disable.specialists \cap disable.profiles # {} \/ disable.cohorts \cap disable.teams # {}

Disabled(disable) ==
  [specialists |-> disable.specialists \cup disable.profiles,
   cohorts |-> disable.cohorts \cup disable.teams, strategies |-> disable.strategies]

-----------------------------------------------------------------------------

(* assertAuthoredConfigVersion: a document without a version is version 1, *)
(* and has none of what came later.                                        *)
VersionFits(document) ==
  document.version \in {None, 1} =>
    /\ document.layers = <<>>
    /\ Given(document.teams) = <<>> /\ Given(document.cohorts) = <<>> /\ Given(document.strategies) = <<>>
    /\ TRUE \notin {document.enableStrategies, document.enableDurableRuns}
    /\ document.starts \in {None, DefaultStarts} /\ document.tasks \in {None, DefaultTasks}

(* validateSettingsSection: judged as authored, before the defaults.       *)
validateSettingsSection(document) ==
  document.starts # None /\ document.tasks # None => document.tasks <= document.starts

(* The deployment's own entries are the last layer, under a fresh id.      *)
deploymentLayerId(ids) ==
  <<"deployment", CHOOSE i \in 1..(Cardinality(ids) + 1) :
      <<"deployment", i>> \notin ids /\ \A j \in 1..(i - 1) : <<"deployment", j>> \in ids>>

LayersOf(document, namespace) ==
  Append([i \in DOMAIN document.layers |->
            [id |-> document.layers[i].id,
             define |-> Namespaces(document.layers[i])[namespace],
             disable |-> Disabled(document.layers[i].disable)[namespace]]],
         [id |-> deploymentLayerId({document.layers[i].id : i \in DOMAIN document.layers}),
          define |-> Namespaces(document)[namespace], disable |-> {}])

(* materializeCurrentConfigInternal, of a document that is accepted.       *)
materializeCurrentConfig(document) ==
  LET Resolved(namespace) == resolveCatalogLayers(LayersOf(document, namespace)).values
      Or(value, default) == IF value = None THEN default ELSE value
  IN  [specialists |-> Resolved("specialists"), cohorts |-> Resolved("cohorts"),
       strategies |-> Resolved("strategies"),
       default |-> mergeScalarSpelling(document.defaultSpecialist, document.defaultProfile),
       enableStrategies |-> Or(document.enableStrategies, FALSE),
       enableDurableRuns |-> Or(document.enableDurableRuns, FALSE),
       starts |-> Or(document.starts, DefaultStarts), tasks |-> Or(document.tasks, DefaultTasks),
       roots |-> document.roots]

(* A Specialist [routes, options, filter, promptFiles]: routes is None or a*)
(* list of [id, maxTokens, minOutput], filter is None, "empty" or "names", *)
(* promptFiles a list of [root, path].                                     *)
SpecialistAccepted(specialist, roots) ==
  LET routes == specialist.routes
      files == specialist.promptFiles
  IN  /\ routes # None =>
           /\ ~specialist.options /\ Len(routes) \in 1..8
           /\ \A i, j \in DOMAIN routes : routes[i].id = routes[j].id => i = j
           /\ \A i \in DOMAIN routes :
                routes[i].maxTokens # None /\ routes[i].minOutput # None
                  => routes[i].maxTokens >= routes[i].minOutput
      /\ specialist.filter # "empty"
      /\ Len(files) <= 32
      /\ \A i \in DOMAIN files : files[i].root \in roots
      /\ \A i, j \in DOMAIN files : files[i] = files[j] => i = j

validateCurrentConfig(config) ==
  /\ DOMAIN config.specialists # {}
  /\ \A n \in DOMAIN config.specialists : SpecialistAccepted(config.specialists[n], config.roots)
  /\ config.default # None => config.default \in DOMAIN config.specialists

(* A document that materializes.                                           *)
DocumentAccepted(document) ==
  /\ VersionFits(document)
  /\ ~SectionClashes(document)
  /\ ~SpelledTwice(document.defaultSpecialist, document.defaultProfile)
  /\ \A i \in DOMAIN document.layers :
       ~SectionClashes(document.layers[i]) /\ ~DisableClashes(document.layers[i].disable)
  /\ validateSettingsSection(document)
  /\ \A namespace \in {"specialists", "cohorts", "strategies"} :
       LayersAccepted(LayersOf(document, namespace))
  /\ validateCurrentConfig(materializeCurrentConfig(document))

-----------------------------------------------------------------------------

(* The document of version 3 that says what the configuration says.        *)
CurrentDocument(config) ==
  [version |-> 3, specialists |-> config.specialists, profiles |-> None,
   defaultSpecialist |-> config.default, defaultProfile |-> None,
   cohorts |-> [n \in DOMAIN config.cohorts |->
                  [m \in DOMAIN config.cohorts[n] |->
                     [specialist |-> config.cohorts[n][m], profile |-> None]]],
   teams |-> None,
   strategies |-> [n \in DOMAIN config.strategies |-> [cohort |-> config.strategies[n], team |-> None]],
   layers |-> <<>>, enableStrategies |-> config.enableStrategies,
   enableDurableRuns |-> config.enableDurableRuns, starts |-> config.starts, tasks |-> config.tasks,
   roots |-> config.roots]

(* Mutant of projectConfigToPublishedV2: the default keeps its new name and*)
(* is lost.                                                                *)
ProjectWithoutDefault(config) ==
  [CurrentDocument(config) EXCEPT
     !.version = 2, !.specialists = None, !.profiles = config.specialists,
     !.defaultSpecialist = None, !.cohorts = None,
     !.teams = [n \in DOMAIN config.cohorts |->
                  [m \in DOMAIN config.cohorts[n] |->
                     [specialist |-> None, profile |-> config.cohorts[n][m]]]],
     !.strategies = [n \in DOMAIN config.strategies |->
                       [cohort |-> None, team |-> config.strategies[n]]]]

(* The same in the words of version 2.                                     *)
projectConfigToPublishedV2(config) ==
  [CurrentDocument(config) EXCEPT
     !.version = 2, !.specialists = None, !.profiles = config.specialists,
     !.defaultSpecialist = None, !.defaultProfile = config.default, !.cohorts = None,
     !.teams = [n \in DOMAIN config.cohorts |->
                  [m \in DOMAIN config.cohorts[n] |->
                     [specialist |-> None, profile |-> config.cohorts[n][m]]]],
     !.strategies = [n \in DOMAIN config.strategies |->
                       [cohort |-> None, team |-> config.strategies[n]]]]

(* Can the configuration be said in version 1?                             *)
RollsBack(config) ==
  /\ ~config.enableStrategies /\ ~config.enableDurableRuns
  /\ config.starts = DefaultStarts /\ config.tasks = DefaultTasks
  /\ config.cohorts = <<>> /\ config.strategies = <<>>

(* exportConfigDocument: None when it is refused.                          *)
exportConfigDocument(document, target) ==
  LET config == materializeCurrentConfig(document)
  IN  CASE target = 3 -> CurrentDocument(config)
        [] target = 2 -> projectConfigToPublishedV2(config)
        [] target \in {1, None} /\ RollsBack(config) ->
             [projectConfigToPublishedV2(config) EXCEPT
                !.version = target, !.teams = None, !.strategies = None,
                !.enableStrategies = None, !.enableDurableRuns = None, !.starts = None, !.tasks = None]
        [] OTHER -> None

-----------------------------------------------------------------------------

(* An exported document means what the authored one meant, in every version*)
(* that can say it, whatever words and layers it was authored in.  One kind*)
(* of document is exported to something that is refused: more concurrent   *)
(* tasks than starts are noticed in a document and not in the defaults.    *)
ExportsReadBack(document) ==
  LET config == materializeCurrentConfig(document)
  IN  DocumentAccepted(document) =>
        \A target \in {3, 2, 1, None} :
          LET exported == exportConfigDocument(document, target)
          IN  exported # None =>
                /\ DocumentAccepted(exported) = (config.tasks <= config.starts)
                /\ materializeCurrentConfig(exported) = config
==============================================================================
