SPECIFICATION Spec
CONSTANTS
  WriteCmds <- ChainCmds
  NumBlks = 8
  NumBanks = 2
  Lpns = {0, 1, 2}
  PagesPerVblk = 3
  EpochMod = 1000
  NumBufs = 2
  GcThreshold = 0
  BatchGcThreshold = 0
  MapentsPerPage = 2
  ChkptThreshold = 3
  DepentsPerPage = 2
  LogThreshold = 8
  LogCapacity = 30
  Events = {"flush", "crash"}
  MaxWrites = 2
INVARIANTS
  FlushSemanticsAlways
CHECK_DEADLOCK FALSE
