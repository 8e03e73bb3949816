\* Two starts: an interrupted regeneration, then a start that skips.
CONSTANT MaxStarts = 2
SPECIFICATION Spec
INVARIANT PairUsable
CHECK_DEADLOCK FALSE
