SPECIFICATION MCSpec
CONSTANTS
  Bank <- MCBank
  VBLKS_PER_BANK = 3
  PAGES_PER_BLK = 1
  SECTORS_PER_PAGE = 2
  NUM_PLANES = 2
  NAND_SPEC_DIE = 1
  NAND_SPEC_MODIFY_COPY = FALSE
  NUM_RD_BUFFERS = 2
  Data = 2
  Kinds = {"read", "program", "copy", "modify", "erase"}
  MaxOps = 2
INVARIANTS
  CallsAsAsked
  TableExact
  DramExact
PROPERTY
  SyncIsDone
CHECK_DEADLOCK FALSE
