SPECIFICATION Spec
CONSTANTS
  Fd <- Fd2
  Line <- NoQuit
  BufLines = 1
  MaxInput = 1
  MaxBacklog = 1
PROPERTY ClosedForgotten
CHECK_DEADLOCK FALSE
