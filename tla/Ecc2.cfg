SPECIFICATION Spec
CONSTANTS
  BlockSize = 5
  Parity = 3
  SectorBytes = 2
  HeaderSize = 1
  MaxBytes = 4
  DownstreamFails = TRUE
  PushResults = {TRUE, FALSE}
  Lengths = {0, 2, 11}
  MaxFaults = 3
INVARIANTS
  TypeOK
  GroupsHoldTheInput
  BuffersAreGroups
  WithinReachIsDelivered
  EveryGroupIsDelivered
  ErasuresAreOfTheCollected
CHECK_DEADLOCK FALSE
