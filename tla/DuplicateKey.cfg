SPECIFICATION GateSpec
CONSTANTS
  Gates = {g1, g2}
INVARIANT RepeatedKeyNeverDuplicates
CHECK_DEADLOCK FALSE
