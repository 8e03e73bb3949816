------------------------------ MODULE RxEngine ------------------------------
(***************************************************************************)
(* One RxDataset and the VMs of the hashing threads that use it.           *)
(*                                                                         *)
(* - the constructor and allocate() choose light or full mode and where   *)
(*   the cache lives (inside the dataset allocation with 1GB pages);      *)
(* - tryAllocateScrathpad() carves VM scratchpads out of the tail of a 1GB *)
(*   page allocation with an atomic fetch_add;                             *)
(* - RxVm::create() binds a VM to the dataset (full mode) or the cache;    *)
(* - a VM hashes by reading dataset items or the cache;                    *)
(* - re-keying applies the seed's algorithm (module RxAlgo) when it is   *)
(*   not the one last applied, then runs RxDataset::init (module         *)
(*   RxDataset) in place, on the    *)
(*   buffers the VMs are bound to.  The code has no lock for this: the     *)
(*   callers pause every hashing thread first (spec section 5, option a), *)
(*   which is what the controller actions below model.                    *)
(* Memory sizes are in units of the scratchpad size (2 MiB).               *)
(***************************************************************************)
EXTENDS Integers, FiniteSets, Sequences

CONSTANTS
  ItemCount, ThreadCounts, Seeds, NoKey, Word,   \* as in RxDataset
  Vms,          \* the hashing threads, one VM each
  Modes,        \* RxConfig::Mode values the config can hold
  DatasetMax,   \* RxDataset::maxSize()
  CacheMax,     \* DEEPPREDICTOR_CACHE_MAX_SIZE
  L3,           \* DEEPPREDICTOR_SCRATCHPAD_L3_MAX_SIZE
  Align,        \* granularity of VirtualMemory::align()
  Capacity,     \* m_memory->capacity() of a 1GB-page allocation
  Algos         \* the algorithms a seed can name

ASSUME Modes \subseteq {"light", "auto", "fast"}
ASSUME {DatasetMax, CacheMax, L3, Align, Capacity} \subseteq Nat \ {0}

VARIABLES
  hasCache, hasDataset, hasAVX2, cacheKey, items, stray,
  mainPc, todo, writing, active,          \* RxDataset
  memory,         \* m_memory->raw() is not null
  oneGb,          \* isOneGbPages()
  scratchOffset,  \* m_scratchpadOffset (std::atomic<size_t>)
  scratchLimit,   \* m_scratchpadLimit
  scratch,        \* scratch[v]: "unasked", "null" (nullptr) or "granted"
  scratchAt,      \* scratchAt[v]: the offset returned when granted
  vm,             \* vm[v]: "none", "idle" or "hashing"
  full,           \* full[v]: v was created with DEEPPREDICTOR_FLAG_FULL_MEM
  job,            \* job[v]: the seed v is hashing for
  seen,           \* seen[v]: keys of the memory v read during this hash
  ctl,            \* "stopped", "run", "pausing" or "rekeying"
  pending,        \* the seed of the re-key that was asked for
  pendingAlgo,    \* that seed's algorithm
  config,         \* DeeppredictoR_CurrentConfig (RxAlgo)
  algo            \* the algorithm the storage last applied, or "none"

dsVars == <<hasCache, hasDataset, hasAVX2, cacheKey, items, stray,
            mainPc, todo, writing, active>>
vmVars == <<scratch, scratchAt, vm, full, job, seen>>
algoVars == <<config, algo>>
vars == <<dsVars, memory, oneGb, scratchOffset, scratchLimit, vmVars, ctl, pending,
          pendingAlgo, algoVars>>

DS == INSTANCE RxDataset
A == INSTANCE RxAlgo

AlignUp(x) == ((x + Align - 1) \div Align) * Align

\* With 1GB pages the cache is placed at align(maxSize()) in the dataset
\* allocation; the scratchpads start at maxSize() + CACHE_MAX_SIZE.
CacheRegion == AlignUp(DatasetMax) .. AlignUp(DatasetMax) + CacheMax - 1
ScratchRegion(off) == off .. off + L3 - 1

\* Mutant: a dataset is created over the null memory of a failed allocation.
CreateDatasetOverNull(memOk) == TRUE

\* deeppredictor_create_dataset(memory): NULL when the memory could not be
\* allocated, else a dataset over that memory.
CreateDataset(memOk) == memOk

\* isOneGbPages(): m_memory exists and VirtualMemory got 1GB pages, which
\* it can only have when it got memory at all.
IsOneGbPages(hasMemory, gotOneGb) == hasMemory /\ gotOneGb

\* deeppredictor_create_cache(flags, memory): NULL when its memory could
\* not be allocated (or JIT is asked for where it is not supported).
CreateCache(memOk) == memOk

\* RxDataset(hugePages, oneGbPages, cache = true, mode, node) and allocate().
\* memEnough: uv_get_total_memory() >= maxSize() + RxCache::maxSize();
\* memOk: VirtualMemory obtained memory; gotOneGb: it obtained 1GB pages;
\* cacheOk: RxCache got memory.
Construct(m, memEnough, memOk, gotOneGb, cacheOk) ==
  LET allocated == m = "fast" \/ (m = "auto" /\ memEnough)
  IN /\ memory = (allocated /\ memOk)
     /\ hasDataset = (allocated /\ CreateDataset(memOk))
     /\ oneGb = IsOneGbPages(memory, gotOneGb)
     /\ hasCache = (oneGb \/ CreateCache(cacheOk))
     /\ scratchOffset = IF oneGb THEN DatasetMax + CacheMax ELSE 0
     /\ scratchLimit = IF oneGb THEN Capacity ELSE 0

Init ==
  /\ \E m \in Modes, memEnough, memOk, gotOneGb, cacheOk \in BOOLEAN :
        Construct(m, memEnough, memOk, gotOneGb, cacheOk)
  /\ hasAVX2 \in BOOLEAN
  /\ cacheKey = NoKey
  /\ items = [i \in DS!Indices |-> NoKey]
  /\ stray = {}
  /\ mainPc = "idle"
  /\ todo = [w \in DS!Workers |-> << >>]
  /\ writing = [w \in DS!Workers |-> FALSE]
  /\ active = [w \in DS!Workers |-> {}]
  /\ scratch = [v \in Vms |-> "unasked"]
  /\ scratchAt = [v \in Vms |-> 0]
  /\ vm = [v \in Vms |-> "none"]
  /\ full = [v \in Vms |-> FALSE]
  /\ job = [v \in Vms |-> NoKey]
  /\ seen = [v \in Vms |-> {}]
  /\ ctl = "stopped"
  /\ pending = NoKey
  /\ pendingAlgo = "none"
  /\ A!Init
  /\ algo = "none"

\* deeppredictor_get_dataset_memory(dataset): the buffer the dataset was
\* created over, m_memory->raw(), null when VirtualMemory got none.
GetDatasetMemory == memory

\* raw(): the dataset's memory, null without a dataset (or when the
\* dataset was given no memory).
Raw == hasDataset /\ GetDatasetMemory

\* Mutant: the limit check forgets the size of the slot being taken.
TryAllocateScratchpadNoSize(v) ==
  /\ scratch[v] = "unasked"
  /\ IF ~hasDataset
     THEN /\ scratch' = [scratch EXCEPT ![v] = "null"]
          /\ UNCHANGED <<scratchOffset, scratchAt>>
     ELSE /\ scratchOffset' = scratchOffset + L3
          /\ scratchAt' = [scratchAt EXCEPT ![v] = scratchOffset]
          /\ scratch' = [scratch EXCEPT ![v] =
                           IF scratchOffset > scratchLimit THEN "null"
                           ELSE "granted"]
  /\ UNCHANGED <<dsVars, memory, oneGb, scratchLimit, vm, full, job, seen, ctl,
                 pending, pendingAlgo, algoVars>>

\* tryAllocateScrathpad(): nullptr when raw() is null; otherwise take the
\* next L3-sized slot with fetch_add and keep it only if it fits the limit.
TryAllocateScratchpad(v) ==
  /\ scratch[v] = "unasked"
  /\ IF ~Raw
     THEN /\ scratch' = [scratch EXCEPT ![v] = "null"]
          /\ UNCHANGED <<scratchOffset, scratchAt>>
     ELSE /\ scratchOffset' = scratchOffset + L3
          /\ scratchAt' = [scratchAt EXCEPT ![v] = scratchOffset]
          /\ scratch' = [scratch EXCEPT ![v] =
                           IF scratchOffset + L3 > scratchLimit THEN "null"
                           ELSE "granted"]
  /\ UNCHANGED <<dsVars, memory, oneGb, scratchLimit, vm, full, job, seen, ctl,
                 pending, pendingAlgo, algoVars>>

\* deeppredictor_create_vm returns NULL without the memory its flags name:
\* the dataset with DEEPPREDICTOR_FLAG_FULL_MEM, the cache without it.
VmCreated(fullMem) == IF fullMem THEN hasDataset ELSE hasCache

\* RxVm::create(): FULL_MEM and the dataset when get() is set, else the cache.
CreateVm(v) ==
  /\ vm[v] = "none" /\ scratch[v] # "unasked"
  /\ VmCreated(hasDataset)
  /\ vm' = [vm EXCEPT ![v] = "idle"]
  /\ full' = [full EXCEPT ![v] = hasDataset]
  /\ UNCHANGED <<dsVars, memory, oneGb, scratchOffset, scratchLimit, scratch, scratchAt, job, seen,
                 ctl, pending, pendingAlgo, algoVars>>

\* deeppredictor_destroy_vm: releases the VM's own storage, never the
\* scratchpad it was given or the cache or dataset it read.
ReleaseVm(v) == vm' = [vm EXCEPT ![v] = "none"]

\* RxVm::destroy(vm) when the hashing thread ends: a VM that exists (one
\* that is not inside a hash, the thread being the one that hashes) is
\* released.
DestroyVm(v) ==
  /\ vm[v] = "idle"
  /\ ReleaseVm(v)
  /\ UNCHANGED <<dsVars, memory, oneGb, scratchOffset, scratchLimit, scratch, scratchAt, full, job,
                 seen, ctl, pending, pendingAlgo, algoVars>>

\* A hash starts for the seed the memory was built from.
HashBegin(v) ==
  /\ ctl = "run" /\ vm[v] = "idle"
  /\ vm' = [vm EXCEPT ![v] = "hashing"]
  /\ job' = [job EXCEPT ![v] = cacheKey]
  /\ seen' = [seen EXCEPT ![v] = {}]
  /\ UNCHANGED <<dsVars, memory, oneGb, scratchOffset, scratchLimit, scratch, scratchAt, full, ctl,
                 pending, pendingAlgo, algoVars>>

\* Inside deeppredictor_calculate_hash (or its _first/_next pipelined
\* form) the program reads a dataset item (a FULL_MEM VM) or the cache (a
\* light VM); a dataset without memory has no item of any key to give.
HashRead(v) ==
  /\ vm[v] = "hashing"
  /\ \E i \in DS!Indices :
       seen' = [seen EXCEPT ![v] = @ \cup
                  {IF ~full[v] THEN cacheKey ELSE IF memory THEN items[i] ELSE NoKey}]
  /\ UNCHANGED <<dsVars, memory, oneGb, scratchOffset, scratchLimit, scratch, scratchAt, vm, full, job,
                 ctl, pending, pendingAlgo, algoVars>>

HashEnd(v) ==
  /\ vm[v] = "hashing" /\ seen[v] # {}
  /\ vm' = [vm EXCEPT ![v] = "idle"]
  /\ UNCHANGED <<dsVars, memory, oneGb, scratchOffset, scratchLimit, scratch, scratchAt, full, job, seen,
                 ctl, pending, pendingAlgo, algoVars>>

\* A new seed (with its algorithm) arrives: hashing threads are asked to
\* pause.
RequestRekey(s, a) ==
  /\ ctl \in {"stopped", "run"}
  /\ ctl' = "pausing"
  /\ pending' = s
  /\ pendingAlgo' = a
  /\ UNCHANGED <<dsVars, memory, oneGb, scratchOffset, scratchLimit, vmVars, algoVars>>

\* The storage applies the seed's algorithm when it differs from the one it
\* applied last; what is built next is built with the configuration then
\* current.
ApplyAlgo ==
  IF algo # pendingAlgo
  THEN algo' = pendingAlgo /\ A!Apply(pendingAlgo)
  ELSE UNCHANGED <<algo, config>>

\* Mutant: init() is called without waiting for the hashing threads.
StartRekeyNoPause ==
  /\ ctl = "pausing"
  /\ \E n \in ThreadCounts :
       \/ DS!InitNoCache(pending, n) /\ ctl' = "stopped"
       \/ DS!InitLight(pending, n) /\ ctl' = "rekeying"
       \/ DS!InitFull(pending, n) /\ ctl' = "rekeying"
  /\ ApplyAlgo
  /\ UNCHANGED <<memory, oneGb, scratchOffset, scratchLimit, vmVars, pending, pendingAlgo>>

\* Once no VM is inside a hash, RxDataset::init(pending, n) is called.
StartRekey ==
  /\ ctl = "pausing"
  /\ \A v \in Vms : vm[v] # "hashing"
  /\ \E n \in ThreadCounts :
       \/ DS!InitNoCache(pending, n) /\ ctl' = "stopped"
       \/ DS!InitLight(pending, n) /\ ctl' = "rekeying"
       \/ DS!InitFull(pending, n) /\ ctl' = "rekeying"
  /\ ApplyAlgo
  /\ UNCHANGED <<memory, oneGb, scratchOffset, scratchLimit, vmVars, pending, pendingAlgo>>

\* init() has returned true: the threads resume.
FinishRekey ==
  /\ ctl = "rekeying" /\ mainPc = "idle"
  /\ ctl' = "run"
  /\ UNCHANGED <<dsVars, memory, oneGb, scratchOffset, scratchLimit, vmVars, pending, pendingAlgo,
                 algoVars>>

BuildStep ==
  /\ \/ \E w \in DS!Workers : DS!BeginCall(w) \/ DS!EndCall(w)
     \/ DS!Join
  /\ UNCHANGED <<memory, oneGb, scratchOffset, scratchLimit, vmVars, ctl, pending, pendingAlgo,
                 algoVars>>

Next ==
  \/ \E v \in Vms :
        \/ TryAllocateScratchpad(v) \/ CreateVm(v) \/ DestroyVm(v)
        \/ HashBegin(v) \/ HashRead(v) \/ HashEnd(v)
  \/ \E s \in Seeds, a \in Algos : RequestRekey(s, a)
  \/ StartRekey \/ FinishRekey \/ BuildStep

Spec == Init /\ [][Next]_vars

-----------------------------------------------------------------------------
TypeOK ==
  /\ DS!TypeOK
  /\ memory \in BOOLEAN /\ oneGb \in BOOLEAN
  /\ scratchOffset \in Nat /\ scratchLimit \in Nat
  /\ scratch \in [Vms -> {"unasked", "null", "granted"}]
  /\ scratchAt \in [Vms -> Nat]
  /\ vm \in [Vms -> {"none", "idle", "hashing"}]
  /\ full \in [Vms -> BOOLEAN]
  /\ job \in [Vms -> Seeds \cup {NoKey}]
  /\ seen \in [Vms -> SUBSET (Seeds \cup {NoKey})]
  /\ ctl \in {"stopped", "run", "pausing", "rekeying"}
  /\ pending \in Seeds \cup {NoKey}
  /\ config \in {"Monero"} \cup {A!Base(a) : a \in Algos}
  /\ pendingAlgo \in Algos \cup {"none"}

Granted == {v \in Vms : scratch[v] = "granted"}

\* Scratchpads handed out of the 1GB-page allocation by concurrent
\* tryAllocateScrathpad() calls never overlap one another, the dataset
\* items or the cache placed after them, and never pass the allocation end.
ScratchpadsDisjoint ==
  /\ \A v \in Granted :
       /\ ScratchRegion(scratchAt[v]) \cap (0 .. DatasetMax - 1) = {}
       /\ ScratchRegion(scratchAt[v]) \cap CacheRegion = {}
       /\ scratchAt[v] + L3 <= Capacity
  /\ \A v, w \in Granted :
       v # w => ScratchRegion(scratchAt[v]) \cap ScratchRegion(scratchAt[w]) = {}

\* Every memory read a VM makes during one hash comes from the memory built
\* for the seed it is hashing: a re-key never rebuilds the cache or the
\* dataset under a running hash, in light or in full mode.
HashSeesOneKey ==
  \A v \in Vms : vm[v] = "hashing" => seen[v] \subseteq {job[v]}

\* The dataset build inside the engine: no two RxDataset::init workers
\* write one item at once, none writes outside the dataset, and init()
\* implements DatasetSpec (it returns only once every item derives from
\* the cache's new key) across the re-keys the engine performs.
DatasetNoDataRaces == DS!NoDataRaces

\* See DatasetNoDataRaces: the AVX2 remainder re-run stays in the dataset.
DatasetNoStrayWrite == DS!NoStrayWrite

\* See DatasetNoDataRaces: the refinement of DatasetSpec.
DatasetImplements == DS!Implements
=============================================================================
