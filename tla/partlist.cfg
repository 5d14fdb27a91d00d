SPECIFICATION MCSpec
CONSTANTS
  NUM_BANKS = 2
  PBLKS_PER_BANK = 10
  PlanesPerVblk = 1
  NUM_LOG_BLKS_PER_BANK = 3
  SCAN_LIST_ITEMS = 4
  STAMP_PAGE_OFFSET = 2
  FW_PAGE_OFFSET = 3
  NumFwPages = 2
  PAGES_PER_VBLK = 3
  EpochPages = 4
  ManualBad <- MCNoManual
  DefectChoices <- MCDefects
  Dir = {"d1"}
  LoadSeparator = "/"
  ScanBufItems = 4
  MaxFaults = 2
  FaultKinds = {"program", "stop", "save"}
INVARIANT
  ListsLoaded
