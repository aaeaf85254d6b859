SPECIFICATION Spec
CONSTANTS
  thread_pool_size = 2
  max_length = 2
  MaxSessions = 3
  MaxBytes = 2
INVARIANTS TypeOK EchoFaithful OneOwner AlwaysAccepting
PROPERTIES ServerEnds EchoCompletes
CHECK_DEADLOCK FALSE
