SPECIFICATION Spec
CONSTANTS
  Capacity = 2
  HalfRange = 8
  LowDigits = 1
  BorLength = 2
  EorLength = 2
  MaxRecordings = 1
  MaxBytes = 5
  DownstreamFails = FALSE
  MayBeKilled = FALSE
  SegmentResults = {TRUE}
  Damages = {"none", "length"}
  HighBytes = {0, 1, 2}
  EventResults = {TRUE}
  EosResults = {TRUE}
  PushResults = {TRUE}
  MaxFaults = 3
INVARIANTS
  EosOnlyAtEor
CHECK_DEADLOCK FALSE
