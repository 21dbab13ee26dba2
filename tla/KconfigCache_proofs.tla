------------------------- MODULE KconfigCache_proofs -------------------------
(***************************************************************************)
(* No value in the cache is ever stale, for any set of items and any       *)
(* dependencies between them.                                              *)
(***************************************************************************)
EXTENDS KconfigCache, TLAPS

\* The inductive invariant: only items are cached, what they read is cached
\* too, and nothing is stale.
CacheInv == /\ cached \subseteq Items
            /\ ReadsCached
            /\ NothingStale

\* What depends on nothing that has changed or was dropped was computed from
\* nothing that has changed: what has changed or was dropped is closed under
\* reading.
LEMMA KeptUnaffected ==
    ASSUME CacheInv,
           NEW xs \in SUBSET Items, NEW kept \in SUBSET cached,
           \A x \in xs \cup (cached \ kept) : dependents[x] \cap kept = {},
           NEW y \in kept
    PROVE  ~ComputedFrom(y, xs)
<1> DEFINE gone == xs \cup (cached \ kept)
<1>1. ReaderClosed(gone)
  <2>1. SUFFICES ASSUME NEW z \in cached, NEW w \in reads[z] \cap gone,
                        z \in kept
                 PROVE  FALSE
    BY DEF ReaderClosed
  <2>2. z \in dependents[w]
    BY <2>1 DEF CacheInv, ReadsCached
  <2>3. dependents[w] \cap kept = {}
    BY <2>1
  <2>4. QED
    BY <2>1, <2>2, <2>3
<1>2. cached \ kept \in SUBSET (cached \ {y})
  OBVIOUS
<1>3. QED
  BY <1>1, <1>2 DEF ComputedFrom

LEMMA InitEstablishes == Init => CacheInv
BY DEF Init, CacheInv, ReadsCached, NothingStale

LEMMA ComputeKeeps == ASSUME CacheInv, Compute PROVE CacheInv'
<1>1. Items' = Items /\ dependents' = dependents /\ cached' \subseteq Items
  BY DEF Compute, Items
<1>2. \A x \in cached' : \A y \in reads'[x] : y \in cached' /\ x \in dependents[y]
  BY <1>1 DEF Compute
<1>3. ReadsCached'
  BY <1>1, <1>2 DEF ReadsCached
<1>4. NothingStale'
  BY DEF Compute, CacheInv, NothingStale
<1>5. QED
  BY <1>1, <1>3, <1>4 DEF CacheInv

LEMMA ChangeKeeps == ASSUME CacheInv, Change PROVE CacheInv'
<1>1. Items' = Items /\ dependents' = dependents /\ cached' \subseteq cached
  BY DEF Change, Items
<1>2. \A x \in cached' : reads'[x] = reads[x]
  BY <1>1 DEF Change, CacheInv
<1>3. \A x \in Changed \cup (cached \ cached') : dependents[x] \cap cached' = {}
  BY DEF Change
<1>4. ReadsCached'
  <2>1. SUFFICES ASSUME NEW x \in cached', NEW w \in reads[x]
                 PROVE  w \in cached' /\ x \in dependents[w]
    BY <1>1, <1>2 DEF ReadsCached
  <2>2. w \in cached /\ x \in dependents[w]
    BY <1>1 DEF CacheInv, ReadsCached
  <2>3. QED
    BY <2>2, <1>3
<1>5. NothingStale'
  <2>1. cached' \in SUBSET cached
    BY DEF Change
  <2>2. Changed \in SUBSET Items
    BY DEF Changed
  <2>3. \A y \in cached' : ~ComputedFrom(y, Changed)
    BY <1>3, <2>1, <2>2, KeptUnaffected
  <2>4. QED
    BY <2>3 DEF Change, CacheInv, NothingStale
<1>6. QED
  BY <1>1, <1>4, <1>5 DEF CacheInv

\* Every step keeps the invariant.
LEMMA StepKeeps == CacheInv /\ [Next]_vars => CacheInv'
<1>1. SUFFICES ASSUME CacheInv, [Next]_vars PROVE CacheInv'
  OBVIOUS
<1>2. CASE Compute
  BY <1>1, <1>2, ComputeKeeps
<1>3. CASE Change
  BY <1>1, <1>3, ChangeKeeps
<1>4. CASE UNCHANGED vars
  BY <1>1, <1>4 DEF vars, CacheInv, ReadsCached, NothingStale, Items
<1>5. QED
  BY <1>1, <1>2, <1>3, <1>4 DEF Next

\* Whatever is computed and whatever the user changes, no cached value is
\* out of date (kconfiglib.py, Symbol._rec_invalidate).
THEOREM NeverStale == Spec => []NothingStale
<1>1. CacheInv => NothingStale
  BY DEF CacheInv
<1>2. QED
  BY InitEstablishes, StepKeeps, <1>1, PTL DEF Spec

\* What a cached item was computed from is cached too, so that invalidation
\* may stop at an item with nothing cached.
THEOREM MayStop == Spec => []ReadsCached
<1>1. CacheInv => ReadsCached
  BY DEF CacheInv
<1>2. QED
  BY InitEstablishes, StepKeeps, <1>1, PTL DEF Spec
=============================================================================
