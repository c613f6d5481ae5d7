SPECIFICATION Spec
CONSTANTS
  BlockSize = 5
  Parity = 3
  SectorBytes = 2
  HeaderSize = 1
  MaxBytes = 3
  DownstreamFails = FALSE
  PushResults = {TRUE}
  Lengths = {0, 2, 11}
  MaxFaults = 1
INVARIANT
  OneMissingCostsNoGroup
CHECK_DEADLOCK FALSE
