------------------------------ MODULE CatalogLayers ----------------------------
(***************************************************************************)
(* The layers of a catalog resolved into its effective entries             *)
(* (src/src/catalog-layer.ts).  A layer is [id, define, disable], where    *)
(* define maps the names of one namespace to what they stand for; the three*)
(* namespaces of a catalog are resolved one like the other.                *)
(***************************************************************************)
EXTENDS Naturals, Sequences, FiniteSets

LOCAL INSTANCE SequencesExt
LOCAL INSTANCE Functions

MaxLayers == 32

NoEntries == [values |-> <<>>, provenance |-> <<>>, disabled |-> <<>>]

Without(f, names) == Restrict(f, DOMAIN f \ names)

(* applyNamespace: first what the layer disables goes, with its history,   *)
(* then what it defines supersedes what was defined before.                *)
applyNamespace(state, layer) ==
  LET kept == Without(state.provenance, layer.disable)
      defined == DOMAIN layer.define
      Superseded(n) == IF n \in DOMAIN kept THEN Append(kept[n].superseded, kept[n].source) ELSE <<>>
  IN  [values |-> [n \in (DOMAIN state.values \ layer.disable) \cup defined |->
                     IF n \in defined THEN layer.define[n] ELSE state.values[n]],
       provenance |-> [n \in DOMAIN kept \cup defined |->
                         IF n \in defined THEN [source |-> layer.id, superseded |-> Superseded(n)]
                         ELSE kept[n]],
       disabled |-> [n \in (DOMAIN state.disabled \cup layer.disable) \ defined |->
                       IF n \in layer.disable THEN layer.id ELSE state.disabled[n]]]

LayersAccepted(layers) ==
  /\ Len(layers) \in 1..MaxLayers
  /\ \A i, j \in DOMAIN layers : layers[i].id = layers[j].id => i = j
  /\ \A i \in DOMAIN layers : DOMAIN layers[i].define \cap layers[i].disable = {}

resolveCatalogLayers(layers) == FoldLeft(applyNamespace, NoEntries, layers)

-----------------------------------------------------------------------------

(* A name means what the last layer that mentions it says: it is defined   *)
(* there, with the layers that had defined it since it was last disabled as*)
(* superseded, or it is disabled by that layer, or nobody mentions it.     *)
LastLayerWins(layers) ==
  LET catalog == resolveCatalogLayers(layers)
      Defines(i, n) == n \in DOMAIN layers[i].define
      Mentions(n) == {i \in DOMAIN layers : Defines(i, n) \/ n \in layers[i].disable}
      Final(n) == CHOOSE i \in Mentions(n) : \A j \in Mentions(n) : j <= i
      Since(n) == {i \in Mentions(n) \ {Final(n)} :
                     \A j \in Mentions(n) : j >= i => Defines(j, n)}
      names == UNION {DOMAIN layers[i].define \cup layers[i].disable : i \in DOMAIN layers}
  IN  LayersAccepted(layers) =>
        /\ DOMAIN catalog.values = {n \in names : Defines(Final(n), n)}
        /\ DOMAIN catalog.provenance = DOMAIN catalog.values
        /\ DOMAIN catalog.disabled = names \ DOMAIN catalog.values
        /\ \A n \in DOMAIN catalog.values :
             /\ catalog.values[n] = layers[Final(n)].define[n]
             /\ catalog.provenance[n].source = layers[Final(n)].id
             /\ catalog.provenance[n].superseded =
                  [k \in 1..Cardinality(Since(n)) |->
                     layers[CHOOSE i \in Since(n) : Cardinality({j \in Since(n) : j <= i}) = k].id]
        /\ \A n \in DOMAIN catalog.disabled : catalog.disabled[n] = layers[Final(n)].id
==============================================================================
