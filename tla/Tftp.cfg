SPECIFICATION TftpSpec
CONSTANTS
  h1 = h1
  h2 = h2
  Hosts <- MCHosts
  None = none
  MyIp = me
  Asker = h1
  ArpTries = 2
  Transfers <- MCTransfers
  Wrap = 3
  Tries = 2
  MaxCalls = 2
  MaxSessions = 2
  MaxLength = 5
INVARIANTS RequestsReachTheHost
PROPERTIES TransfersFiles CallReturns
CHECK_DEADLOCK FALSE
