\* The Watcher alone decides whether a change reaches Network, so the
\* pools mine no jobs here.  Every event carries a file name: a change is
\* lost only by the stop and restart of the watch in reload().
CONSTANTS
  MaxChanges = 2
  Named = {TRUE}
  HasDonate = {FALSE}
  MaxJobs = 0
  MaxGens = 3
  PoolSets = {P1, P2, None}
  Inactive = None
SPECIFICATION Spec
PROPERTIES
  PoolsEventuallyApplied
CHECK_DEADLOCK FALSE
