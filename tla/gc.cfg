SPECIFICATION Spec
CONSTANTS
  WriteCmds <- HotColdCmds
  NumBlks = 5
  NumBanks = 2
  Lpns = {0, 2, 3, 4}
  PagesPerVblk = 4
  EpochMod = 1000
  NumBufs = 1
  GcThreshold = 2
  BatchGcThreshold = 0
  MapentsPerPage = 2
  ChkptThreshold = 2
  DepentsPerPage = 2
  LogThreshold = 12
  LogCapacity = 30
  Events = {"idle", "crash"}
  MaxWrites = 9
INVARIANTS
  RoomLeft
  CountsExact
  ProgramsErasedPages
  ChainReserved
  MapentsComplete
PROPERTIES
  ImplementsOrderedDisk
CHECK_DEADLOCK FALSE
