\* Two hashing threads; 0 to 3 dataset workers over 17 items (every share
\* has at least five items and the AVX2 re-run happens); every mode and
\* allocation outcome in Init; seeds of rx/0 (the Monero
\* configuration) and rx/arq (one of its own), so re-keys take both
\* branches of the storage's apply test.
CONSTANTS
  s1 = s1
  s2 = s2
  v1 = v1
  v2 = v2
  NoKey = NoKey
  Seeds <- MCSeeds
  Vms <- MCVms
  Word <- MCWord
  ItemCount = 17
  ThreadCounts = {0, 1, 2, 3}
  Modes = {"light", "auto", "fast"}
  DatasetMax <- MCDatasetMax
  CacheMax <- MCCacheMax
  L3 = 1
  Align = 1
  Capacity <- MCCapacity
  Algos = {"rx/0", "rx/arq"}
SPECIFICATION Spec
INVARIANTS
  TypeOK
  ScratchpadsDisjoint
  HashSeesOneKey
  DatasetNoDataRaces
  DatasetNoStrayWrite
PROPERTIES
  DatasetImplements
