SPECIFICATION FairSpec
CONSTANTS
  Capacity = 2
  HalfRange = 8
  LowDigits = 1
  BorLength = 1
  EorLength = 3
  MaxRecordings = 2
  MaxBytes = 5
  DownstreamFails = FALSE
  MayBeKilled = FALSE
  SegmentResults = {TRUE}
  Damages = {"none", "header", "body"}
  HighBytes = {}
  EventResults = {TRUE, FALSE}
  EosResults = {TRUE}
  PushResults = {TRUE}
  MaxFaults = 2
INVARIANTS
  DeliveredInOrder
  OneRecordingDelivered
  DuplicateRunsAreUnderruns
PROPERTIES
  EosDespiteFaults
CHECK_DEADLOCK FALSE
