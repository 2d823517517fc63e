SPECIFICATION FairSpec
CONSTANTS
  POOL_SIZE = 2
  IntModulus = 5
  StopSignals = TRUE
  Consumers = {c1, c2}
  Readers = {r1}
  Producer = producer
  Nobody = nobody
INVARIANTS
  TypeOK
  SlotConservation
  ReportConsistent
PROPERTIES
  PoolIsQueue
  WriterServed
  UnloadHangsOnlyOnSleeper
