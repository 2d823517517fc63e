SPECIFICATION FairSpec
CONSTANTS
  UINT_MAX = 3
  NUM_WAITERS = 1
  Readers = {r1}
PROPERTIES
  SecondReadReturns
CHECK_DEADLOCK FALSE
