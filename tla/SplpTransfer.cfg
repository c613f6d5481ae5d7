SPECIFICATION Spec
CONSTANTS
  Capacity = 2
  HalfRange = 8
  LowDigits = 1
  BorLength = 2
  EorLength = 2
  MaxRecordings = 1
  MaxBytes = 5
  DownstreamFails = TRUE
  MayBeKilled = TRUE
  SegmentResults = {TRUE, FALSE}
  Damages = {"none", "header", "body"}
  HighBytes = {}
  EventResults = {TRUE}
  EosResults = {TRUE, FALSE}
  PushResults = {TRUE, FALSE}
  MaxFaults = 3
INVARIANTS
  TypeOK
  NumberIdentifiesPayload
  LossShowsAsGap
  EorIsAfterTheLastByte
  EosMeansComplete
PROPERTIES
  ImplementsTransfer
CHECK_DEADLOCK FALSE
