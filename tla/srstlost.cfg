SPECIFICATION Spec
CONSTANTS
  MaxCmds = 2
  MaxResets = 2
  EqLimit = 2
  NumWrBufs = 3
  NumRdBufs = 2
  WbufMargin = 1
  CmdPages = 2
PROPERTIES
  SrstNotDropped
CHECK_DEADLOCK FALSE
