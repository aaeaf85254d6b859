SPECIFICATION Spec
CONSTANT XLEN = 16
INVARIANTS NoDanglingIncrement AtMostOneLateTick
PROPERTIES StopTerminates KeepsTicking
CHECK_DEADLOCK FALSE
