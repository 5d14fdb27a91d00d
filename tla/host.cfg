SPECIFICATION FairSpec
CONSTANTS
  MaxCmds = 4
  MaxResets = 2
  EqLimit = 2
  NumWrBufs = 3
  NumRdBufs = 2
  WbufMargin = 1
  CmdPages = 2
INVARIANTS
  ExecutesInOrder
  DataMatches
  HeldIsQueued
  QueueBounded
  FlushCoversAnswered
PROPERTIES
  CommandsAnswered
CHECK_DEADLOCK FALSE
