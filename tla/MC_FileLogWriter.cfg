SPECIFICATION Spec
CONSTANTS
  MaxWrites = 3
  Sizes = {1, 2}
  EndlLen = 1
  InitSize = 2
INVARIANTS LinesAtTheirOffsets
PROPERTIES ImplementsAppendLog
CHECK_DEADLOCK FALSE
