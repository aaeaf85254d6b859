SPECIFICATION Spec
CONSTANTS
  XLEN = 8
  PageBits = 2
  MtimeAddr <- MCMtime
  MtimecmpAddr <- MCMtimecmp
  Addrs <- MCAddrs
  Values <- MCValues
 
PROPERTY ImplementsFlatMemory
