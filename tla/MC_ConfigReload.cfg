\* Two changes let a second write land inside a reload; three pool lists
\* (two enabled, one without an enabled pool) make every reload either
\* replace the strategy, keep it, or meet disabled pools.  Two jobs are
\* enough for a user job to arrive during a donate round after the donate
\* job, and three strategy generations cover two replacements.
CONSTANTS
  MaxChanges = 2
  Named = {TRUE, FALSE}
  HasDonate = {TRUE, FALSE}
  MaxJobs = 2
  MaxGens = 3
  PoolSets = {P1, P2, None}
  Inactive = None
SPECIFICATION Spec
INVARIANTS
  ResultsReachTheirKind
  MinerOnCurrentJob
  StrategyFollowsConfig
PROPERTIES
  PendingChangeReloaded
CHECK_DEADLOCK FALSE
