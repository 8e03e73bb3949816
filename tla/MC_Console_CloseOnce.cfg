\* One key is enough: the double close needs no input at all.
CONSTANTS
  Keys = {k1}
  MaxKeys = 1
SPECIFICATION Spec
INVARIANT CloseOnce
CHECK_DEADLOCK FALSE
