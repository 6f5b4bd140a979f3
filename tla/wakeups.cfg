SPECIFICATION Spec
CONSTANTS
  Fd <- Fd3
  Line <- WithQuit
  BufLines = 1
  MaxInput = 2
  MaxBacklog = 2
INVARIANTS
  TypeOK
  NoLostWakeup
PROPERTIES
  StrandedWait
  InputServed
  AcceptsProceed
