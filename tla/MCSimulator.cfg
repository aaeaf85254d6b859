SPECIFICATION SimSpec
CONSTANTS
  XLEN = 16
  PageBits = 4
  MtimeAddr <- MCMtime
  MtimecmpAddr <- MCMtimecmp
  decode <- MCdecode
  decode16 <- MCdecode16
  Regs <- MCRegs
  Csrs <- MCCsrs
  allowed_pcs <- MCAllowed
  entry <- MCEntry
  tohost_addr <- MCTohost
  Images <- MCTimerImages
  mti_enabled = TRUE
  fstep = FALSE
  MaxTicks = 3
PROPERTIES ImplementsHart ProcessEnds
CHECK_DEADLOCK FALSE
