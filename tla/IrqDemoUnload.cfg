SPECIFICATION Spec
CONSTANTS
  CPUs = {cpu0, cpu1}
  Writers = {w1}
  Readers = {r1}
  Hard = hard
  Worker = worker
  IrqThread = irqthread
  Nobody = nobody
  MaxEvents = 2
  UINT_MAX = 5
INVARIANTS
  NothingRunsAfterUnload
CHECK_DEADLOCK FALSE
