SPECIFICATION Spec
CONSTANTS
  Capacity = 2
  HalfRange = 8
  LowDigits = 1
  BorLength = 2
  EorLength = 2
  MaxRecordings = 1
  MaxBytes = 8
  DownstreamFails = FALSE
  MayBeKilled = FALSE
  SegmentResults = {TRUE}
  Damages = {"none"}
  HighBytes = {}
  EventResults = {TRUE}
  EosResults = {TRUE}
  PushResults = {TRUE}
  MaxFaults = 3
INVARIANTS
  EverySectorReported
CHECK_DEADLOCK FALSE
