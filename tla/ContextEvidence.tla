---------------------------- MODULE ContextEvidence ----------------------------
(***************************************************************************)
(* A recipient's evidence over time: it starts with any of the source      *)
(* pages, evidence is derived from the pages at hand and from earlier      *)
(* derivations (propagateContextEvidence), time passes, and a manifest     *)
(* generation is built from all of them (createContextManifest).  Where    *)
(* the pages come from and when a manifest is built is up to callers.      *)
(***************************************************************************)
EXTENDS ContextManifest

CONSTANTS
  Sources,      \* the pages that may be at hand
  PageBounds,   \* the bounds a manifest may be built under
  DerivedBytes, \* the size of a derived page
  MaxDerived,   \* bound: the number of derived pages
  MaxNow        \* bound: the last time observed

(* A source page is not derived from another one, and its identity is its  *)
(* digest; what is derived has an identity of its own.                     *)
ASSUME EvidenceAssumption ==
  /\ IsFiniteSet(Sources) /\ PageBounds # {}
  /\ \A p \in Sources :
       /\ p \in ContextPage /\ p.lineage = {} /\ p.pageId < 100
       /\ \A q \in Sources : p.pageId = q.pageId => p = q
  /\ DerivedBytes \in Nat

VARIABLES
  evidence,  \* the pages at hand
  derived,   \* how many of them were derived
  bounds,    \* the bounds of the manifest built
  manifest,  \* the manifest built, <<>> before
  now

evidenceVars == <<evidence, derived, bounds, manifest, now>>

EvidenceInit ==
  /\ evidence \in SUBSET Sources /\ derived = 0 /\ manifest = <<>> /\ now = 0
  /\ bounds = CHOOSE b \in PageBounds : TRUE

(* A derived page is a new artifact in the evidence slot.                  *)
Derive(pages) ==
  LET combined == propagateContextEvidence(pages)
      id == 100 + derived
  IN  /\ derived < MaxDerived /\ manifest = <<>>
      /\ evidence' = evidence \cup
           {[pageId |-> id, slot |-> "evidence", orderKey |-> 1, pin |-> "evictable",
             bytes |-> DerivedBytes, trust |-> combined.trust,
             freshness |-> combined.freshness, observedAt |-> combined.observedAt,
             expiresAt |-> combined.expiresAt, lineage |-> combined.lineage]}
      /\ derived' = derived + 1
      /\ UNCHANGED <<bounds, manifest, now>>

Build(within) ==
  /\ manifest = <<>> /\ Accepts(evidence, within)
  /\ bounds' = within
  /\ manifest' = createContextManifest(evidence, within)
  /\ UNCHANGED <<evidence, derived, now>>

Pass ==
  /\ now < MaxNow /\ manifest = <<>> /\ now' = now + 1
  /\ UNCHANGED <<evidence, derived, bounds, manifest>>

EvidenceNext ==
  \/ \E pages \in SUBSET evidence :
       Cardinality(pages) \in 1..2 /\ Derive(pages)
  \/ \E within \in PageBounds : Build(within)
  \/ Pass

EvidenceSpec == EvidenceInit /\ [][EvidenceNext]_evidenceVars

-----------------------------------------------------------------------------

(* Evidence is never cleaner than what it was made from: as soon as any    *)
(* page of its ancestry expired, or came from outside, a derived page      *)
(* cannot back a write without revalidation, however long the chain of     *)
(* derivations (context.ts:217-279).                                       *)
TaintSurvivesDerivation ==
  \A p \in evidence : \A q \in evidence :
    q.pageId \in p.lineage /\ Doubtful(q, now)
      => p \in requiredWriteRevalidation(evidence, now)

(* The required pages, and those that are evicted no earlier than p.       *)
AtLeastAsValuable(p, pages) ==
  Required(pages) \cup
    {q \in pages : ~KeyBefore(optionalEvictionOrder(q), optionalEvictionOrder(p))}

(* A manifest respects its bounds, keeps every required page, drops no     *)
(* preferred page while it keeps an evictable one and nothing timeless     *)
(* while it keeps something of its pin that is not, and drops nothing that *)
(* would still fit with the required pages and the more valuable ones;     *)
(* within it the reusable prefix is an initial part                        *)
(* (docs/context-manifest.md:15 "removes optional lower-value pages before *)
(* required safe pages").                                                  *)
ManifestKeepsTheValuable ==
  manifest = <<>> \/
    LET kept == ToSet(manifest.pages)
        dropped == evidence \ kept
    IN  /\ Fits(kept, bounds) /\ manifest.totalBytes = Bytes(kept)
        /\ Required(evidence) \subseteq kept
        /\ \A p \in dropped, q \in kept :
             q.pin = "evictable" => p.pin = "evictable"
        /\ \A p, q \in evidence :
             p \in dropped /\ p.pin = q.pin /\ p.freshness = "timeless"
             /\ q.freshness # "timeless" => q \in dropped
        /\ \A p \in dropped : ~Fits(AtLeastAsValuable(p, evidence), bounds)
        /\ manifest.sharedPrefix
             = SubSeq(manifest.pages, 1, Len(manifest.sharedPrefix))

(* Whatever is derived and however it is packed into a manifest, doubt and *)
(* value survive: the two above (src/src/durable-run/context.ts:170, 217). *)
ContextIsFaithful == TaintSurvivesDerivation /\ ManifestKeepsTheValuable

==============================================================================
