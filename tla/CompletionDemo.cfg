SPECIFICATION FairSpec
CONSTANTS
  UINT_MAX = 5
  NUM_WAITERS = 4
  Readers = {r1, r2}
INVARIANTS
  TypeOK
  OneReadPerComplete
PROPERTIES
  GateStaysOpen
  ReleaseFreesAll
  UnloadEndsUnlessWaiting
CHECK_DEADLOCK FALSE
