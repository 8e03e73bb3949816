SPECIFICATION Spec
CONSTANTS
  MaxReads = 4
  Certs = {"none", "pinned", "other"}
INVARIANTS AuthenticatedPeer RecordsKept
CHECK_DEADLOCK FALSE
