SPECIFICATION FairSpec
CONSTANTS
  CPUs = {cpu0, cpu1}
  Writers = {w1, w2}
  Readers = {r1}
  Hard = hard
  Worker = worker
  IrqThread = irqthread
  Nobody = nobody
  MaxEvents = 3
  UINT_MAX = 5
INVARIANTS
  TypeOK
  HolderNotInterrupted
  EventCountExact
  AnswersBacked
  QuietUnlessTriggered
PROPERTIES
  EventReachesBottomHalf
  UnloadEnds
CHECK_DEADLOCK FALSE
