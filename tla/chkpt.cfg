SPECIFICATION FairSpec
CONSTANTS
  WriteCmds <- CrowdCmds
  NumBlks = 5
  NumBanks = 2
  Lpns = {0, 1, 2, 4}
  PagesPerVblk = 3
  EpochMod = 1000
  NumBufs = 2
  GcThreshold = 2
  BatchGcThreshold = 0
  MapentsPerPage = 2
  ChkptThreshold = 1
  DepentsPerPage = 2
  LogThreshold = 6
  LogCapacity = 8
  Events = {"timer", "close", "crash"}
  MaxWrites = 5
INVARIANTS
  CheckpointComplete
  LogFits
PROPERTIES
  ImplementsOrderedDisk
  CommandsComplete
CHECK_DEADLOCK FALSE
