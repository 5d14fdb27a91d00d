SPECIFICATION MCSpec
CONSTANTS
  SECTORS_PER_PAGE = 2
  RSize = 1
  WSize = 1
  DramPages = 3
  Blocks = {0}
  PAGES_PER_BLOCK = 1
  VST_MAX_LBA = 1
  Metadata = {1}
  MetaPages = {0}
  CopyPages = {0}
  MaxVer = 1
INVARIANTS
  MemoryExact
  VerdictsExact
PROPERTY
  RunEnds
CHECK_DEADLOCK FALSE
