CONSTANTS
  p1 = p1
  p2 = p2
  a = a
  NULL = NULL
  Process <- TwoProcesses
  Mapper <- OneMapper
  Name <- OneName
  BadName <- NoBadName
  ShortReads = TRUE
  Value <- OneValue
  Length <- Lengths
  Transfer <- Transfers
  Offset <- NoOffset
  Sectors = 8
  BLOCK_SECTOR_SIZE = 2
  DIR_ENTRIES = 1
  MAX_FD_COUNT = 3
  PGSIZE = 4
  UserPages = 2
  MaxMapid = 2
SPECIFICATION MmapSpec
INVARIANTS MappingsCounted
PROPERTIES StoresReachFile
