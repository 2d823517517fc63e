SPECIFICATION FairSpec
CONSTANTS
  INT_RANGE = 4
  MAX_INCREMENT_COUNT = 3
  DVC_MAX_COUNT = 3
  d1 = d1
  d2 = d2
  r1 = r1
  r2 = r2
  Devices = {d1, d2}
  Regions = {r1, r2}
  Control <- MCControl
  Data <- MCData
  VMALLOC_TEST_PAGES = 4
  Frames = {1, 2, 3, 4, 5}
INVARIANTS
  TypeOK
  CounterExact
  NoThreadRunsUnloaded
  LeftBehind
  ProbeHolds
  DiscontigExact
  Transparent
PROPERTIES
  RmmodEnds
CHECK_DEADLOCK FALSE
