\* The last game may have ended, with every line read.
SPECIFICATION UplinkFairSpec
CONSTANTS
  MaxGame = 3
  MaxLine = 4
INVARIANTS StoredOnceInOrder
PROPERTIES ResultArrives
CHECK_DEADLOCK FALSE
