----------------------------- MODULE MC_CpuKinds -----------------------------
(***************************************************************************)
(* Model of the hwloc CPU kinds for TLC.                                   *)
(***************************************************************************)
EXTENDS CpuKinds

CONSTANTS c1, c2, c3, i1
MCCPUs == {c1, c2, c3}
MCInfos == {i1}
=============================================================================
