SPECIFICATION SdramSpec
CONSTANTS
  SDRAM_PHY_MODULES = 2
  SDRAM_PHY_DELAYS = 6
  SDRAM_PHY_BITSLIPS = 2
  TckTaps = 8
  Phys <- MCPhys
INVARIANTS MostModulesAreValid
CHECK_DEADLOCK FALSE
