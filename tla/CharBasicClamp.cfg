SPECIFICATION Spec
CONSTANTS
  MAX_KERNEL_BUFFER = 2
  Files = {f1}
  Processes = {p1}
  MaxCount = 2
  MaxOffset = 0
INVARIANTS
  EndsInBuffer
CHECK_DEADLOCK FALSE
