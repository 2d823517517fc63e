SPECIFICATION FairSpec
CONSTANTS
  FifoDepth = 2
  Trigger = 1
  TxDepth = 2
  TestLen = 2
  Numbers = 4
INVARIANTS
  TypeOK
  EchoExact
  TestStringSent
PROPERTIES
  TickServed
  StartupEnds
  EchoedUnlessMissed
