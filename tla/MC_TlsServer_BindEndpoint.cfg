\* One start is enough: the socket is bound in the first process.
CONSTANTS
  MaxStarts = 1
  MaxReads = 1
SPECIFICATION Spec
INVARIANT BindReportsEndpoint
CHECK_DEADLOCK FALSE
