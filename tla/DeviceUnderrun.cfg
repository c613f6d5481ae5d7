SPECIFICATION Spec
CONSTANTS
  Frame = 2
  Frames = 3
  MaxTape = 0
  MayStall = FALSE
  Transferring = {"writing"}
  Promptness = {TRUE}
  MayTurn = FALSE
  NonBlocking = {FALSE}
  Signals = FALSE
  MaxCall = 3
  MaxWritten = 7
INVARIANTS
  UnderrunIsHarmless
CHECK_DEADLOCK FALSE
