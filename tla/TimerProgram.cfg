SPECIFICATION Spec
CONSTANTS
  XLEN = 4
  Interval = 3
  Busy = 2
  MaxTime = 19
INVARIANTS TypeOK  
CHECK_DEADLOCK FALSE
