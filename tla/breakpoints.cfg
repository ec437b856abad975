SPECIFICATION Spec
CONSTANTS
  Addrs = {0, 1}
  NaN = NaN
  Hole = Hole
  MaxSets = 5
INVARIANTS
  TypeOK
  TableMatchesList
PROPERTIES
  ArmedSpec
  TrapOnlyAtBreakpoint
CHECK_DEADLOCK FALSE
