SPECIFICATION Spec
CONSTANTS
  MAX_KERNEL_BUFFER = 2
  Files = {f1, f2}
  Processes = {p1, p2}
  MaxCount = 2
  MaxOffset = 3
SYMMETRY Symmetry
INVARIANTS
  TypeOK
  PositionBounded
  PositionIsSum
  Unwound
  OpenKeepsModule
CHECK_DEADLOCK FALSE
