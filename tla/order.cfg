SPECIFICATION Spec
CONSTANTS
  WriteCmds <- ChainCmds
  NumBlks = 8
  NumBanks = 2
  Lpns = {0, 1, 2}
  PagesPerVblk = 3
  EpochMod = 100
  NumBufs = 2
  GcThreshold = 0
  BatchGcThreshold = 0
  MapentsPerPage = 2
  ChkptThreshold = 1
  DepentsPerPage = 3
  LogThreshold = 8
  LogCapacity = 30
  Events = {"flush", "crash"}
  MaxWrites = 5
INVARIANTS
  PrefixSemantics
  FlushSemantics
  DepsForward
PROPERTIES
  ImplementsOrderedDisk
  NeverForgets
CHECK_DEADLOCK FALSE
