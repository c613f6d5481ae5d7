SPECIFICATION FairSpec
CONSTANTS
  Frame = 2
  Frames = 3
  MaxTape = 8
  MayStall = TRUE
  Transferring = {"reading", "writing"}
  Promptness = {TRUE, FALSE}
  MayTurn = FALSE
  NonBlocking = {TRUE, FALSE}
  Signals = TRUE
  MaxCall = 3
  MaxWritten = 7
INVARIANTS
  TypeOK
  WrittenIsSentOrPending
  CloseFlushes
  ReadIsConsecutive
  MovedIsReported
  PolledCallsMove
PROPERTIES
  CallsReturn
CHECK_DEADLOCK FALSE
