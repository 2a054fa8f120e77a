SPECIFICATION ShortSpec
CONSTANTS
  MaxKey = 7
  RangeCount = 3
  MaxLength = 4
INVARIANTS
  NothingDropped
CHECK_DEADLOCK FALSE
