\* A program that is booted does not come back.
SPECIFICATION BiosSpec
CONSTANTS
  SDRAM_PHY_MODULES = 1
  SDRAM_PHY_DELAYS = 36
  SDRAM_PHY_BITSLIPS = 3
  TckTaps = 16
  Phys <- MCPhys
  Width = 4
  Taps <- MCTaps
  Words = 5
  BusWords = 3
  Rams <- MCRams
  ModuleBits <- MCModuleBits
  Chars = {"a", "b"}
  Commands <- MCCommands
  HIST_MAX = 3
  HIST_DEPTH = 2
  CREAD_HIST_CHAR = "a"
  MaxLine = 2
  MaxEntered = 4
INVARIANTS StrobesAreAligned TrainedModulesWork BootsOnSoundMemory ShowsTheLine
PROPERTIES EditsTheLine
CHECK_DEADLOCK FALSE
