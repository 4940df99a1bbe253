CONSTANTS
  p1 = p1
  p2 = p2
  a = a
  b = b
  long = long
  NULL = NULL
  Process <- TwoProcesses
  Name <- TwoNames
  BadName <- BadNames
  ShortReads = FALSE
  Value <- OneByte
  Length <- Lengths
  Transfer <- Transfers
  Offset <- Offsets
  Sectors = 8
  BLOCK_SECTOR_SIZE = 2
  DIR_ENTRIES = 2
  MAX_FD_COUNT = 3
SPECIFICATION Spec
SYMMETRY Symmetry
INVARIANTS SectorsOwnedOnce
PROPERTIES LostOnlyByFailure FilesAsPromised
