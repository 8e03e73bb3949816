----------------------------- MODULE DatasetSpec -----------------------------
(***************************************************************************)
(* What RxDataset promises its callers, with no threads in sight.          *)
(*                                                                         *)
(* A dataset is either valid for one key (every item derived from the     *)
(* cache built from that key) or not valid (NoKey).  Re-keying a dataset   *)
(* that has a dataset buffer first invalidates it, then, in one later      *)
(* step, makes it valid for exactly the key the cache now holds.  Without *)
(* a dataset buffer (light mode) re-keying only changes the cache.        *)
(* Without a cache, re-keying does nothing.                                *)
(***************************************************************************)
CONSTANTS Seeds, NoKey

VARIABLES
  hasCache,    \* the cache exists and its memory was allocated
  hasDataset,  \* the dataset buffer was allocated (full mode)
  cacheKey,    \* the key the cache was last initialised with
  dataset,     \* the key every dataset item is derived from, or NoKey
  building     \* a rebuild is in progress

vars == <<hasCache, hasDataset, cacheKey, dataset, building>>

Init ==
  /\ hasCache \in BOOLEAN
  /\ hasDataset \in BOOLEAN
  /\ cacheKey = NoKey
  /\ dataset = NoKey
  /\ building = FALSE

\* Light mode: only the cache is re-keyed.
RekeyCache(seed) ==
  /\ hasCache /\ ~hasDataset /\ ~building
  /\ cacheKey' = seed
  /\ UNCHANGED <<hasCache, hasDataset, dataset, building>>

\* Full mode: the dataset is unusable from the moment the cache changes.
BeginBuild(seed) ==
  /\ hasCache /\ hasDataset /\ ~building
  /\ cacheKey' = seed
  /\ dataset' = NoKey
  /\ building' = TRUE
  /\ UNCHANGED <<hasCache, hasDataset>>

\* The rebuild ends with every item derived from the current cache.
EndBuild ==
  /\ building
  /\ dataset' = cacheKey
  /\ building' = FALSE
  /\ UNCHANGED <<hasCache, hasDataset, cacheKey>>

Next ==
  \/ \E s \in Seeds : RekeyCache(s) \/ BeginBuild(s)
  \/ EndBuild

Spec == Init /\ [][Next]_vars
=============================================================================
