------------------------------ MODULE RxDataset ------------------------------
(***************************************************************************)
(* RxDataset::init (src/crypto/rx/RxDataset.cpp): re-key the cache, then  *)
(* fill the dataset with a fork-join of worker threads, each running       *)
(* init_dataset_wrapper over its contiguous share of the items.            *)
(*                                                                         *)
(* An item is abstracted to the key of the cache it was derived from:     *)
(* deeppredictor_init_dataset(start, count) is a pure function of the item *)
(* index and the cache contents, so "item i holds key k" is all the        *)
(* properties tell apart.  A call to it is split into a begin and an end   *)
(* step so that two threads writing the same item at once can be seen.   *)
(***************************************************************************)
EXTENDS Integers, Sequences, FiniteSets

CONSTANTS
  ItemCount,     \* deeppredictor_dataset_item_count()
  ThreadCounts,  \* values the caller passes as numThreads
  Seeds,         \* keys the cache can be initialised with
  NoKey,         \* an item or cache never initialised
  Word           \* 2^32 in the code: uint32_t start/count arithmetic wraps here

ASSUME ItemCount \in Nat \ {0}
ASSUME ThreadCounts \subseteq Nat /\ ThreadCounts # {}
ASSUME Word > ItemCount + 5
ASSUME NoKey \notin Seeds

VARIABLES
  hasCache,    \* m_cache && m_cache->get()
  hasDataset,  \* get(): m_dataset was created
  hasAVX2,     \* Cpu::info()->hasAVX2(), fixed for the process
  cacheKey,    \* seed passed to the last m_cache->init(seed)
  items,       \* items[i]: key of the cache item i was derived from
  stray,       \* indices written at or beyond ItemCount
  mainPc,      \* "idle" or "joining": the thread that called init()
  todo,        \* todo[w]: index ranges of the calls worker w has still to make
  writing,     \* worker w is inside a deeppredictor_init_dataset call
  active       \* active[w]: the items that call writes

vars == <<hasCache, hasDataset, hasAVX2, cacheKey, items, stray,
          mainPc, todo, writing, active>>

MaxThreads == CHOOSE m \in ThreadCounts : \A n \in ThreadCounts : n <= m
Workers == 0 .. (IF MaxThreads > 1 THEN MaxThreads - 1 ELSE 0)
Indices == 0 .. ItemCount - 1

\* deeppredictor_init_dataset(dataset, cache, start, count) writes the items
\* start .. start+count-1; its start is an unsigned long, so no wrap here.
CallRange(start, count) == {start + k : k \in 0 .. count - 1}

\* Mutant: the remainder is covered by five items after the aligned part.
WrapperCallsFullTail(start, count) ==
  IF hasAVX2 /\ count % 5 # 0
  THEN << CallRange(start, count - (count % 5)),
          CallRange(start + count - (count % 5), 5) >>
  ELSE << CallRange(start, count) >>

\* init_dataset_wrapper: with AVX2 the items are produced in groups of five;
\* a remainder is covered by re-running the last five items of the range.
\* startItem + itemCount - 5 is computed in uint32_t.
WrapperCalls(start, count) ==
  IF hasAVX2 /\ count % 5 # 0
  THEN << CallRange(start, count - (count % 5)),
          CallRange((start + count - 5) % Word, 5) >>
  ELSE << CallRange(start, count) >>

\* Mutant: shares start one item early.
PartStartUnderflow(n, i) == (ItemCount * i) \div n - 1
\* Worker i of n gets [a, b) with a = ItemCount*i/n, b = ItemCount*(i+1)/n.
PartStart(n, i) == (ItemCount * i) \div n
\* Mutant: b - a + 1 items per share.
PartCountPlusOne(n, i) == (ItemCount * (i + 1)) \div n - PartStart(n, i) + 1
PartCount(n, i) == (ItemCount * (i + 1)) \div n - PartStart(n, i)

\* The calls each worker makes when init() is given numThreads = n: n
\* spawned threads, or the calling thread itself over all items when n <= 1.
Plan(n) ==
  [w \in Workers |->
     IF n > 1
     THEN IF w < n THEN WrapperCalls(PartStart(n, w), PartCount(n, w)) ELSE << >>
     ELSE IF w = 0 THEN WrapperCalls(0, ItemCount) ELSE << >>]

Init ==
  /\ hasCache \in BOOLEAN
  /\ hasDataset \in BOOLEAN
  /\ hasAVX2 \in BOOLEAN
  /\ cacheKey = NoKey
  /\ items = [i \in Indices |-> NoKey]
  /\ stray = {}
  /\ mainPc = "idle"
  /\ todo = [w \in Workers |-> << >>]
  /\ writing = [w \in Workers |-> FALSE]
  /\ active = [w \in Workers |-> {}]

\* init() with no usable cache returns false and changes nothing.
InitNoCache(seed, n) ==
  /\ mainPc = "idle"
  /\ ~hasCache
  /\ UNCHANGED vars

\* deeppredictor_init_cache(cache, key, keySize): the cache memory is
\* rebuilt in place from the key.
InitCache(seed) == cacheKey' = seed

\* init() in light mode: the cache is re-keyed and init() returns true.
InitLight(seed, n) ==
  /\ mainPc = "idle"
  /\ hasCache /\ ~hasDataset
  /\ InitCache(seed)
  /\ UNCHANGED <<hasCache, hasDataset, hasAVX2, items, stray, mainPc, todo, writing, active>>

\* init() in full mode: re-key the cache, start the workers, then join them.
InitFull(seed, n) ==
  /\ mainPc = "idle"
  /\ hasCache /\ hasDataset
  /\ InitCache(seed)
  /\ todo' = Plan(n)
  /\ mainPc' = "joining"
  /\ UNCHANGED <<hasCache, hasDataset, hasAVX2, items, stray, writing, active>>

\* A worker enters its next deeppredictor_init_dataset call.
BeginCall(w) ==
  /\ ~writing[w]
  /\ todo[w] # << >>
  /\ active' = [active EXCEPT ![w] = Head(todo[w])]
  /\ todo' = [todo EXCEPT ![w] = Tail(@)]
  /\ writing' = [writing EXCEPT ![w] = TRUE]
  /\ UNCHANGED <<hasCache, hasDataset, hasAVX2, cacheKey, items, stray, mainPc>>

\* The call returns: every item of its range now derives from the cache.
EndCall(w) ==
  /\ writing[w]
  /\ items' = [i \in Indices |-> IF i \in active[w] THEN cacheKey ELSE items[i]]
  /\ stray' = stray \cup (active[w] \ Indices)
  /\ writing' = [writing EXCEPT ![w] = FALSE]
  /\ active' = [active EXCEPT ![w] = {}]
  /\ UNCHANGED <<hasCache, hasDataset, hasAVX2, cacheKey, mainPc, todo>>

\* Mutant: init() returns once every thread has started its last call.
JoinEarly ==
  /\ mainPc = "joining"
  /\ \A w \in Workers : todo[w] = << >>
  /\ mainPc' = "idle"
  /\ UNCHANGED <<hasCache, hasDataset, hasAVX2, cacheKey, items, stray, todo, writing, active>>

\* threads[i].join() for every i, then init() returns true.
Join ==
  /\ mainPc = "joining"
  /\ \A w \in Workers : todo[w] = << >> /\ ~writing[w]
  /\ mainPc' = "idle"
  /\ UNCHANGED <<hasCache, hasDataset, hasAVX2, cacheKey, items, stray, todo, writing, active>>

Next ==
  \/ \E s \in Seeds, n \in ThreadCounts :
        InitNoCache(s, n) \/ InitLight(s, n) \/ InitFull(s, n)
  \/ \E w \in Workers : BeginCall(w) \/ EndCall(w)
  \/ Join

Spec == Init /\ [][Next]_vars

-----------------------------------------------------------------------------
TypeOK ==
  /\ hasCache \in BOOLEAN /\ hasDataset \in BOOLEAN /\ hasAVX2 \in BOOLEAN
  /\ cacheKey \in Seeds \cup {NoKey}
  /\ items \in [Indices -> Seeds \cup {NoKey}]
  /\ stray \subseteq Nat
  /\ mainPc \in {"idle", "joining"}
  /\ \A w \in Workers : \A k \in 1 .. Len(todo[w]) : todo[w][k] \subseteq Nat
  /\ writing \in [Workers -> BOOLEAN]
  /\ active \in [Workers -> SUBSET Nat]

\* No two worker threads of one init() are ever inside
\* deeppredictor_init_dataset on the same item at the same time: the
\* partition ranges and the AVX2 remainder re-run stay within each thread's
\* own share.
NoDataRaces ==
  \A v, w \in Workers :
    v # w /\ writing[v] /\ writing[w] => active[v] \cap active[w] = {}

\* init_dataset_wrapper never writes an item index beyond the dataset.
NoStrayWrite == stray = {}

\* RxDataset::init implements DatasetSpec: the dataset is unusable while
\* the workers run, and when init() returns in full mode every item derives
\* from the cache that was just initialised, whatever numThreads was.
Abstract == INSTANCE DatasetSpec WITH
  building <- mainPc = "joining",
  dataset  <- IF mainPc = "idle" /\ hasDataset /\ cacheKey # NoKey
                 /\ \A i \in Indices : items[i] = cacheKey
              THEN cacheKey ELSE NoKey

Implements == Abstract!Spec
=============================================================================
