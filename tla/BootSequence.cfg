\* The device stops here once it has booted or is at the console.
SPECIFICATION SequenceSpec
CONSTANTS
  Chunks = 2
  LoadLength = 2
  JumpLength = 1
  BadLength = {0, 1, 3}
  MAX_FAILURES = 2
  MaxFaults = 3
  Setups <- MCSetups
  Prefixed <- MCPrefixed
  Remains <- MCRemains
  Addresses <- MCAddresses
  MAIN_RAM_BASE = "main"
  MaxTokens = 32
  MaxFailedCopies = 1
INVARIANTS JumpsToImages FirstMediumBoots
PROPERTIES BootEnds
CHECK_DEADLOCK FALSE
