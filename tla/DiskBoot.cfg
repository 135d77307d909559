SPECIFICATION Spec
CONSTANTS
  InitTries = 2
  Media <- MCMedia
  Paths <- MCPaths
  Setups <- MCSetups
  SS = 4
  SZDIRE = 2
  MAX_DIR = 8
  MAX_FAT12 = 3
  MAX_FAT16 = 4
  MAX_FAT32 = 6
  SectorBits = 32
  FatBits <- MCFatBits
  Body = 2
  Ext = 1
  Piece = 2
  Chunk = 12
  MaxCopies = 2
INVARIANTS GoodFilesAreCopied ReadsStayInVolume
PROPERTIES CopiesTheFile CopyReturns
CHECK_DEADLOCK FALSE
