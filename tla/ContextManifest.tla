---------------------------- MODULE ContextManifest ----------------------------
(***************************************************************************)
(* The pure algorithms of src/src/durable-run/context.ts: which pages a    *)
(* bounded context generation keeps and in which order, how derived        *)
(* evidence inherits the taint of its sources, and which evidence must be  *)
(* revalidated before a write.                                             *)
(*                                                                         *)
(* Page identities, order keys and digests are numbers in code point       *)
(* order; a page is its own artifact, so its digest is its pageId.         *)
(***************************************************************************)
EXTENDS Integers, Sequences, FiniteSets, SequencesExt

(* An absent time: no observation, no expiry (MAX_SAFE_INTEGER).           *)
Never == 1000

CONTEXT_SLOTS == <<"profile-policy", "strategy-policy", "shared-run", "goal",
                   "task", "evidence", "mail">>

sharedSlots == {"profile-policy", "strategy-policy", "shared-run"}

TRUSTS == <<"system", "user", "tool", "agent", "untrusted-external">>

FRESHNESS == <<"expired", "fresh", "timeless">>

PINS == <<"evictable", "preferred", "required">>

ContextPage ==
  [pageId : Nat, slot : ToSet(CONTEXT_SLOTS), orderKey : Nat, pin : ToSet(PINS), bytes : Nat,
   trust : ToSet(TRUSTS), freshness : ToSet(FRESHNESS), observedAt : Nat, expiresAt : Nat,
   lineage : SUBSET Nat]

Rank(name, order) == CHOOSE i \in DOMAIN order : order[i] = name

Least(S) == CHOOSE x \in S : \A y \in S : x <= y

Bytes(pages) == FoldSet(LAMBDA p, total : total + p.bytes, 0, pages)

(* The first position where two keys of one length differ decides.         *)
KeyBefore(a, b) ==
  \E i \in DOMAIN a : a[i] < b[i] /\ \A j \in 1..(i - 1) : a[j] = b[j]

(* Pages in the order of their keys; no two pages have one key.            *)
Sorted(pages, keys) ==
  [i \in 1..Cardinality(pages) |->
     CHOOSE p \in pages :
       Cardinality({q \in pages : KeyBefore(keys[q], keys[p])}) = i - 1]

pageOrder(p) == <<Rank(p.slot, CONTEXT_SLOTS), p.orderKey, p.pageId>>

InPageOrder(pages) == Sorted(pages, [p \in pages |-> pageOrder(p)])

(* Evictable before preferred, expired before fresh before timeless, the   *)
(* older observation first, the larger page first.                         *)
optionalEvictionOrder(p) ==
  <<IF p.pin = "evictable" THEN 0 ELSE 1, Rank(p.freshness, FRESHNESS),
    p.observedAt, -p.bytes, p.pageId>>

InEvictionOrder(pages) == Sorted(pages, [p \in pages |-> optionalEvictionOrder(p)])

validatePage(p) ==
  /\ p.freshness # "timeless" => p.expiresAt >= p.observedAt
  /\ p.slot \in sharedSlots => p.freshness = "timeless"

Fits(pages, bounds) ==
  Cardinality(pages) <= bounds.maxPages /\ Bytes(pages) <= bounds.maxBytes

Required(pages) == {p \in pages : p.pin = "required"}

(* Optional pages go one by one, in eviction order, until the rest fits.   *)
Kept(pages, bounds) ==
  LET evictions == InEvictionOrder(pages \ Required(pages))
      Without(n) == pages \ {evictions[i] : i \in 1..n}
  IN  Without(Least({n \in 0..Len(evictions) : Fits(Without(n), bounds)}))

(* Whether createContextManifest returns instead of throwing.              *)
Accepts(pages, bounds) ==
  /\ \A p \in pages : validatePage(p)
  /\ \A p, q \in pages : p.pageId = q.pageId => p = q
  /\ Fits(Required(pages), bounds)

createContextManifest(pages, bounds) ==
  LET kept == Kept(pages, bounds)
  IN  [pages |-> InPageOrder(kept),
       sharedPrefix |-> InPageOrder({p \in kept : p.slot \in sharedSlots}),
       totalBytes |-> Bytes(kept)]

Times(pages, field) == {p[field] : p \in pages}

(* Mutant of propagateContextEvidence: only the freshest source counts.    *)
PropagateLatestExpiry(pages) ==
  LET dynamic == {p \in pages : p.freshness # "timeless"}
      latest == CHOOSE p \in pages : \A q \in pages : q.expiresAt <= p.expiresAt
  IN  [trust |-> CHOOSE t \in Times(pages, "trust") :
                   \A p \in pages : Rank(p.trust, TRUSTS) <= Rank(t, TRUSTS),
       freshness |-> latest.freshness,
       observedAt |-> Least(Times(dynamic, "observedAt") \cup {Never}),
       expiresAt |-> latest.expiresAt,
       lineage |-> Times(pages, "pageId") \cup UNION Times(pages, "lineage")]

(* The trust, freshness and lineage of evidence derived from the pages.    *)
propagateContextEvidence(pages) ==
  LET expired == {p \in pages : p.freshness = "expired"}
      dynamic == {p \in pages : p.freshness # "timeless"}
  IN  [trust |-> CHOOSE t \in Times(pages, "trust") :
                   \A p \in pages : Rank(p.trust, TRUSTS) <= Rank(t, TRUSTS),
       freshness |-> IF expired # {} THEN "expired"
                     ELSE IF dynamic # {} THEN "fresh" ELSE "timeless",
       observedAt |-> Least(Times(dynamic, "observedAt") \cup {Never}),
       expiresAt |-> Least(Times(IF expired # {} THEN expired ELSE dynamic,
                                 "expiresAt") \cup {Never}),
       lineage |-> Times(pages, "pageId") \cup UNION Times(pages, "lineage")]

(* Evidence that may not back a write as it stands.                        *)
Doubtful(p, now) ==
  \/ p.freshness = "expired"
  \/ p.freshness = "fresh" /\ p.expiresAt <= now
  \/ p.trust = "untrusted-external"

requiredWriteRevalidation(pages, now) ==
  {p \in pages : p.slot \in {"evidence", "mail"} /\ Doubtful(p, now)}

==============================================================================
