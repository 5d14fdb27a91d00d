SPECIFICATION FairSpec
CONSTANTS
  MAX_LBA = 23
  Byte = 4
  Half = 8
  Lba28 = 32
  EqLba = 64
  Word = 128
  Lba48 = 256
  DefaultGeometry <- Geometry
  Opcodes <- AllOpcodes
  Addresses <- Ends
  Triples <- Chs
  Counts <- FewCounts
  HostReadsIdentify = TRUE
INVARIANTS
  ExactSectors
  IdentifyKept
PROPERTY EveryCommandAnswered
