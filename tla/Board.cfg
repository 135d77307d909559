SPECIFICATION BoardSpec
CONSTANTS
  Event <- MCEvent
  Reload = 10
  Period <- MCPeriod
  Stated <- MCPeriod
  MaxGap = 4
  CONTAGEM_MAXIMA = 10
  Lowered = 2
  Raised = 4
  FRAME_WIDTH = 12
  FRAME_HEIGHT = 6
  H_FP = 1
  H_PW = 2
  H_MAX = 17
  V_FP = 1
  V_PW = 2
  V_MAX = 11
  CURSOR_WIDTH = 3
  CURSOR_OFFSET = 1
  CURSOR_HEIGHT = 4
  BALL_SIDE = 4
  Px = {0, 5, 11}
  Py = {2, 5}
  MaxWrites = 2
  MaxVgaResets = 1
  BITS = 3
  SLAVE = 3
  ADDR_SIZE = 2
  CELLS = 9
  Targets = {0, 3}
  Addresses = {1, 8}
  Sizes = {0, 1, 2, 3, 5}
  Writes <- MCWrites
  Lengths = {0, 2}
  MaxCalls = 2
  MaxResets = 1
  Bits = {"p", "q"}
  SPIFLASH_SECTOR_SIZE = 4
  SPIFLASH_PAGE_SIZE = 2
  Sectors = 2
  Texts <- MCTexts
  Divisors = {0, 1, 2}
  MaxOps = 2
  MaxFlashResets = 1
INVARIANTS NeverLate FrameIsRight CallsAreExact FlashHoldsIt FastestThatReads
PROPERTIES NeverEarly PulseIsWhole ObeysPosition
CHECK_DEADLOCK FALSE
