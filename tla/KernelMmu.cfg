SPECIFICATION Spec
CONSTANTS
  PAGE_SIZE = 2
  PAGE_TABLE_ENTRIES = 4
  PhysicalBases = {0, 6}
INVARIANTS
  TypeOK
  OnWhenComplete
PROPERTIES
  StartsUp
