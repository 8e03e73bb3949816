------------------------------ MODULE CpuKinds ------------------------------
(***************************************************************************)
(* hwloc's CPU kinds (src/3rdparty/hwloc/src/cpukinds.c): an array of      *)
(* kinds, each a cpuset with info attributes and a forced efficiency.      *)
(* Registering a cpuset splits every kind it partly overlaps, so that the  *)
(* kinds stay disjoint; restrict() intersects them with the root cpuset    *)
(* and drops empty ones; dup() copies the array into another topology.    *)
(*                                                                         *)
(* The loops are written as RECURSIVE operators over the array; an info    *)
(* (name, value) pair is a model value, so hwloc__cpukind_add_infos, which *)
(* skips duplicates, is set union.  hwloc_internal_cpukinds_rank only      *)
(* reorders the array and sets efficiencies; it is not in the repository   *)
(* and nothing below depends on the order of the kinds.                    *)
(***************************************************************************)
EXTENDS Integers, Sequences, FiniteSets

CONSTANTS
  CPUs,          \* the processors a cpuset can name
  Infos,         \* info (name, value) pairs
  Efficiencies,  \* forced efficiencies a caller passes
  Unknown,       \* HWLOC_CPUKIND_EFFICIENCY_UNKNOWN
  MaxRegs        \* bound on the register calls

ASSUME Unknown \notin Efficiencies /\ MaxRegs \in Nat

VARIABLES
  kinds,      \* topology->cpukinds[0 .. nr_cpukinds-1]
  allocated,  \* topology->nr_cpukinds_allocated
  regs,       \* register calls so far
  infosOf,    \* infosOf[c]: infos every registration covering c gave it
  known,      \* CPUs some registration named and no restrict() removed
  copy,       \* the kind slots of the topology dup() last filled
  frees,      \* the pointers that dup() freed, in order
  dupAllocs   \* the pointers that dup() allocated

vars == <<kinds, allocated, regs, infosOf, known, copy, frees, dupAllocs>>

Kind == [cpus : SUBSET CPUs, infos : SUBSET Infos, forced : Efficiencies \cup {Unknown}]

\* hwloc_internal_cpukinds_init.
Init ==
  /\ kinds = << >> /\ allocated = 0 /\ regs = 0
  /\ infosOf = [c \in CPUs |-> {}] /\ known = {}
  /\ copy = << >> /\ frees = << >> /\ dupAllocs = {}

\* hwloc_flsl: the 1-based index of the highest set bit, 0 for 0.
RECURSIVE Fls(_)
Fls(x) == IF x = 0 THEN 0 ELSE 1 + Fls(x \div 2)

\* With N kinds, registering may leave up to 2N+1: max = 2N+1, rounded up
\* to 2^(flsl(max-1)+1), at least 8.
AllocSize(n) == LET p == 2 ^ (Fls(2 * n) + 1) IN IF p < 8 THEN 8 ELSE p

\* Mutant: the split-off kind forgets the infos of the kind it came from.
SplitKindNewInfosOnly(k, cs, inf, fe) ==
  [cpus |-> cs \cap k.cpus, infos |-> inf, forced |-> fe]

\* The kind split off k for the CPUs of cs it holds: the infos of k and of
\* the registration, and the registration's forced efficiency.
SplitKind(k, cs, inf, fe) ==
  [cpus |-> cs \cap k.cpus, infos |-> k.infos \cup inf, forced |-> fe]

\* The loop of hwloc_internal_cpukinds_register over the old kinds 1..oldnr,
\* by hwloc_bitmap_compare_inclusion(cpuset, kind): a kind that cpuset
\* INTERSECTS or is INCLUDED in is split; one it CONTAINS or EQUALs gets
\* the infos (and the efficiency if ow or none was forced); DIFFERENT is
\* skipped.  The loop stops once cpuset is empty.  Result: <<kinds, rest>>.
RECURSIVE RegisterLoop(_, _, _, _, _, _, _)
RegisterLoop(ks, i, oldnr, cs, inf, fe, ow) ==
  IF i > oldnr \/ cs = {} THEN <<ks, cs>>
  ELSE
    LET k == ks[i] IN
    IF k.cpus \cap cs # {} /\ ~(k.cpus \subseteq cs)
    THEN RegisterLoop(Append([ks EXCEPT ![i].cpus = @ \ cs], SplitKind(k, cs, inf, fe)),
                      i + 1, oldnr, cs \ k.cpus, inf, fe, ow)
    ELSE IF k.cpus \subseteq cs
    THEN RegisterLoop([ks EXCEPT ![i].infos = @ \cup inf,
                                 ![i].forced = IF ow \/ @ = Unknown THEN fe ELSE @],
                      i + 1, oldnr, cs \ k.cpus, inf, fe, ow)
    ELSE RegisterLoop(ks, i + 1, oldnr, cs, inf, fe, ow)

\* hwloc_internal_cpukinds_register(cpuset, fe, infos, flags); ow is the
\* OVERWRITE_FORCED_EFFICIENCY flag (the public hwloc_cpukinds_register
\* always passes it).  An empty cpuset is EINVAL; realloc may fail.  What
\* is left of cpuset after the loop becomes a new kind.
Register(cs, inf, fe, ow, allocOk) ==
  /\ regs < MaxRegs /\ cs # {}
  /\ regs' = regs + 1
  /\ LET max == AllocSize(Len(kinds))
         grow == max > allocated
     IN IF grow /\ ~allocOk
        THEN UNCHANGED <<kinds, allocated, infosOf, known>>
        ELSE LET r == RegisterLoop(kinds, 1, Len(kinds), cs, inf, fe, ow)
             IN /\ kinds' = IF r[2] # {}
                            THEN Append(r[1], [cpus |-> r[2], infos |-> inf, forced |-> fe])
                            ELSE r[1]
                /\ allocated' = IF grow THEN max ELSE allocated
                /\ infosOf' = [c \in CPUs |-> IF c \in cs THEN infosOf[c] \cup inf ELSE infosOf[c]]
                /\ known' = known \cup cs
  /\ UNCHANGED <<copy, frees, dupAllocs>>

\* hwloc_cpukinds_register, the public entry: an empty cpuset is EINVAL
\* (as is a non-zero flags argument, which changes nothing and is not
\* enumerated), a negative efficiency becomes unknown, and the internal
\* register always overwrites forced efficiencies.  The ranking that
\* follows only reorders the array (see above).
CpukindsRegister(cs, inf, fe, allocOk) ==
  /\ cs # {}
  /\ Register(cs, inf, IF fe < 0 THEN Unknown ELSE fe, TRUE, allocOk)

\* Mutant: after removing kind i the loop moves on without revisiting i.
RECURSIVE RestrictLoopNoRevisit(_, _, _)
RestrictLoopNoRevisit(ks, i, root) ==
  IF i > Len(ks) THEN ks
  ELSE LET k == [ks[i] EXCEPT !.cpus = @ \cap root] IN
       IF k.cpus = {}
       THEN RestrictLoopNoRevisit(
              [j \in 1 .. Len(ks) - 1 |-> IF j < i THEN ks[j] ELSE ks[j + 1]], i + 1, root)
       ELSE RestrictLoopNoRevisit([ks EXCEPT ![i] = k], i + 1, root)

\* The loop of hwloc_internal_cpukinds_restrict: and each kind with the root
\* cpuset; an empty one is freed and the tail moved down over it (memmove),
\* and i-- makes the next turn look at the kind that moved into slot i.
RECURSIVE RestrictLoop(_, _, _)
RestrictLoop(ks, i, root) ==
  IF i > Len(ks) THEN ks
  ELSE LET k == [ks[i] EXCEPT !.cpus = @ \cap root] IN
       IF k.cpus = {}
       THEN RestrictLoop([j \in 1 .. Len(ks) - 1 |-> IF j < i THEN ks[j] ELSE ks[j + 1]], i, root)
       ELSE RestrictLoop([ks EXCEPT ![i] = k], i + 1, root)

\* hwloc_internal_cpukinds_restrict with the root object's cpuset.
Restrict(root) ==
  /\ kinds' = RestrictLoop(kinds, 1, root)
  /\ known' = known \cap root
  /\ infosOf' = [c \in CPUs |-> IF c \in root THEN infosOf[c] ELSE {}]
  /\ UNCHANGED <<allocated, regs, copy, frees, dupAllocs>>

\* A pointer a kind slot holds: field f ("cpuset" or "infos") of kind j,
\* owned by the topology dup() copied from ("old") or allocated for the
\* copy ("new").  Null is the NULL a failed hwloc_bitmap_tma_dup returns.
Fields == {"cpuset", "infos"}
Ptrs == {"old", "new"} \X (1 .. Cardinality(CPUs)) \X Fields
Null == "null"

\* Slot i of the new array once the copy loop stopped at slot j on field
\* fld.  memcpy left the old kind's pointers in every slot; the loop has
\* replaced them in the slots before j.  At j, a failed cpuset dup stores
\* NULL, and a failed hwloc__tma_dup_infos leaves the old infos pointer
\* (it writes its target only on success) beside the new cpuset.
DupSlot(i, j, fld) ==
  CASE i < j                 -> [cpuset |-> <<"new", i, "cpuset">>, infos |-> <<"new", i, "infos">>]
    [] i = j /\ fld = "cpuset" -> [cpuset |-> Null, infos |-> <<"old", i, "infos">>]
    [] i = j /\ fld = "infos"  -> [cpuset |-> <<"new", i, "cpuset">>, infos |-> <<"old", i, "infos">>]
    [] OTHER                 -> [cpuset |-> <<"old", i, "cpuset">>, infos |-> <<"old", i, "infos">>]

\* What the copy loop allocated before stopping at slot j on field fld.
DupAllocs(j, fld) ==
  {<<"new", i, f>> : i \in 1 .. j - 1, f \in Fields}
    \cup (IF fld = "infos" THEN {<<"new", j, "cpuset">>} ELSE {})

\* Mutant: the kinds left to destroy() include the slot that failed.
FailedCountWithFailing(j) == j

\* new->nr_cpukinds = i when slot i (from 0) fails: the slots before it.
FailedCount(j) == j - 1

\* hwloc_internal_cpukinds_destroy: bitmap_free and free_infos on the first
\* nr slots, in order; freeing NULL does nothing.
DestroyFrees(slots, nr) ==
  SelectSeq([k \in 1 .. 2 * nr |->
               IF k % 2 = 1 THEN slots[(k + 1) \div 2].cpuset ELSE slots[k \div 2].infos],
            LAMBDA p : p # Null)

\* hwloc_internal_cpukinds_dup(new, old) into a fresh topology, with the
\* copy loop stopping at slot j on field fld: fld = "none" (j = N+1) is a
\* full copy, "array" a failed malloc of the array, which returns before
\* anything is copied.  A failure at slot j frees that slot's new cpuset
\* when its infos failed, sets nr_cpukinds and calls destroy().
Dup(j, fld) ==
  LET n     == Len(kinds)
      slots == [i \in 1 .. n |-> DupSlot(i, j, fld)]
  IN /\ IF n = 0 \/ fld = "array"
        THEN copy' = << >> /\ frees' = << >> /\ dupAllocs' = {}
        ELSE /\ dupAllocs' = DupAllocs(j, fld)
             /\ IF fld = "none"
                THEN copy' = slots /\ frees' = << >>
                ELSE /\ copy' = << >>
                     /\ frees' = (IF fld = "infos" THEN << <<"new", j, "cpuset">> >> ELSE << >>)
                                   \o DestroyFrees(slots, FailedCount(j))
     /\ UNCHANGED <<kinds, allocated, regs, infosOf, known>>

\* Where dup() can stop with N kinds to copy.
DupFailures(n) ==
  {<<0, "array">>, <<n + 1, "none">>} \cup ((1 .. n) \X Fields)

Next ==
  \* the discovery backends and the XML import pass no flags
  \/ \E cs \in SUBSET CPUs, inf \in SUBSET Infos,
        fe \in Efficiencies \cup {Unknown}, allocOk \in BOOLEAN :
          Register(cs, inf, fe, FALSE, allocOk)
  \/ \E cs \in SUBSET CPUs, inf \in SUBSET Infos,
        fe \in Efficiencies \cup {-1}, allocOk \in BOOLEAN :
          CpukindsRegister(cs, inf, fe, allocOk)
  \/ \E root \in SUBSET CPUs : Restrict(root)
  \/ \E d \in DupFailures(Len(kinds)) : Dup(d[1], d[2])

Spec == Init /\ [][Next]_vars

-----------------------------------------------------------------------------
TypeOK ==
  /\ kinds \in Seq(Kind) /\ allocated \in Nat /\ regs \in 0 .. MaxRegs
  /\ infosOf \in [CPUs -> SUBSET Infos] /\ known \subseteq CPUs
  /\ copy \in Seq([cpuset : Ptrs \cup {Null}, infos : Ptrs])
  /\ frees \in Seq(Ptrs) /\ dupAllocs \subseteq Ptrs

\* The kinds always partition the CPUs that were registered and not
\* restricted away: none is empty, no CPU is in two kinds, none is lost,
\* whatever sequence of overlapping registrations and restrictions ran.
KindsPartition ==
  /\ \A i \in 1 .. Len(kinds) : kinds[i].cpus # {}
  /\ \A i, j \in 1 .. Len(kinds) : i # j => kinds[i].cpus \cap kinds[j].cpus = {}
  /\ UNION {kinds[i].cpus : i \in 1 .. Len(kinds)} = known

\* Every CPU's kind carries exactly the infos of the registrations that
\* named that CPU: splitting a kind copies its infos to the new part, and
\* no registration's infos reach CPUs it did not name.
InfosPerCpu ==
  \A i \in 1 .. Len(kinds) : \A c \in kinds[i].cpus : kinds[i].infos = infosOf[c]

\* A dup() that fails part-way frees exactly the copies it allocated, each
\* once, and never a cpuset or infos array the old topology still owns:
\* memcpy left the old pointers in every slot the loop had not replaced,
\* so nr_cpukinds must stop destroy() before them.  A full copy keeps
\* every pointer it allocated and none of the old ones.
DupFreesOwnCopies ==
  LET held  == {copy[i][f] : i \in 1 .. Len(copy), f \in Fields}
      freed == {frees[k] : k \in 1 .. Len(frees)}
  IN /\ \A p \in freed : p[1] = "new"
     /\ Cardinality(freed) = Len(frees)
     /\ freed \cup held = dupAllocs
     /\ freed \cap held = {}
=============================================================================
