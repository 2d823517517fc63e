SPECIFICATION FairSpec
CONSTANTS
  POOL_SIZE = 2
  IntModulus = 4
  StopSignals = FALSE
  Consumers = {c1}
  Readers = {}
  Producer = producer
  Nobody = nobody
PROPERTIES
  KthreadStopEndsProducer
