----------------------------- MODULE MC_RxEngine -----------------------------
(***************************************************************************)
(* Model of RxEngine for TLC.                                              *)
(***************************************************************************)
EXTENDS RxEngine, TLC

CONSTANTS s1, s2, v1, v2

MCSeeds == {s1, s2}
MCVms == {v1, v2}
MCWord == 2^30

\* Sizes in units of 2 MiB: maxSize() = 2080 MiB, the cache 256 MiB.  A real
\* 3 GiB allocation leaves room for 368 scratchpads; the capacity here leaves
\* room for one, so that with two VMs the second finds the pool exhausted.
MCDatasetMax == 1040
MCCacheMax == 128
MCCapacity == MCDatasetMax + MCCacheMax + 1
=============================================================================
