SPECIFICATION FairSpec
CONSTANTS
  FifoDepth = 2
  Trigger = 1
  TxDepth = 2
  TestLen = 0
  Numbers = 4
PROPERTIES
  EveryByteRead
