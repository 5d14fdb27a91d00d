SPECIFICATION FairSpec
CONSTANTS
  NumBanks = 2
  Lpn = {0, 1, 2, 4}
  Part = {0, 1, 2}
  Bank <- Banks
  Row <- MCRow
  Buffer <- Buffers
  Datum <- MCDatum
  Blank = 0
  NumBufs = 2
  NumRdBufs = 2
  PagesPerVblk = 2
  Cmds <- PipeCmds
  MaxOps = 4
  PromptAccept = TRUE
INVARIANTS
  ProgramsCarryIssued
  NewestKept
  HostReadsNewest
  FlushOnFlash
PROPERTY
  CommandsEnd
CHECK_DEADLOCK FALSE
