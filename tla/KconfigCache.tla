---------------------------- MODULE KconfigCache ----------------------------
(***************************************************************************)
(* What the cache of kconfiglib.py promises: an item that has something    *)
(* cached was computed from nothing that has changed since.                *)
(*                                                                         *)
(* dependents[x] are the items that may be computed from x; reads[x] those *)
(* that x was in fact computed from, as conditions are short-circuited. An *)
(* item is stale when it was computed, directly or through others, from    *)
(* something the user has changed since.                                   *)
(***************************************************************************)
VARIABLES dependents,      \* constant: who may read an item
          setting,         \* what the user has set of each item
          cached,          \* the items with anything in the cache
          reads,           \* what they were computed from
          stale            \* the cached items that are out of date

vars == <<dependents, setting, cached, reads, stale>>

Items == DOMAIN dependents

Init == /\ cached = {}
        /\ DOMAIN setting = Items
        /\ reads = [x \in Items |-> {}]
        /\ stale = {}

(* Values are computed and cached, and with them whatever was read and was *)
(* not cached; an item that had something cached may have read more.       *)
Compute ==
    /\ cached' \in SUBSET Items
    /\ cached \subseteq cached'
    /\ reads' \in [Items -> SUBSET Items]
    /\ \A x \in Items : /\ reads[x] \subseteq reads'[x]
                        /\ \A y \in reads'[x] : x \in dependents[y]
                        /\ x \in cached' => reads'[x] \subseteq cached'
                        /\ x \notin cached' => reads'[x] = {}
    /\ stale' = stale \cup {x \in cached' : reads'[x] \cap stale # {}}
    /\ UNCHANGED <<dependents, setting>>

(* y was computed from the items of xs, directly or not: it is in every    *)
(* set that contains xs and every cached item that reads one of its        *)
(* members.                                                                *)
ReaderClosed(T) == \A z \in cached : reads[z] \cap T # {} => z \in T

ComputedFrom(y, xs) == \A S \in SUBSET (cached \ {y}) : ~ReaderClosed(xs \cup S)

(* The user changes the settings of some items: these and what depends on  *)
(* them through cached items is invalidated, so that what stays cached     *)
(* depends on nothing that has changed or gone.                            *)
Changed == {x \in Items : setting'[x] # setting[x]}

Change ==
    /\ DOMAIN setting' = Items
    /\ cached' \subseteq cached \ Changed
    /\ \A x \in Changed \cup (cached \ cached') : dependents[x] \cap cached' = {}
    /\ reads' = [x \in Items |-> IF x \in cached' THEN reads[x] ELSE {}]
    /\ stale' = {y \in cached' : y \in stale \/ ComputedFrom(y, Changed)}
    /\ UNCHANGED dependents

Next == Compute \/ Change

Spec == Init /\ [][Next]_vars

-----------------------------------------------------------------------------

\* No cached value is out of date.
NothingStale == stale = {}

\* What a cached item was computed from is among its dependencies, and is
\* cached: invalidation may stop where nothing is cached.
ReadsCached == \A x \in cached : \A y \in reads[x] : /\ y \in cached
                                                     /\ x \in dependents[y]
=============================================================================
