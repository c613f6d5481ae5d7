SPECIFICATION Spec
CONSTANTS
  Ports = {p1, p2}
  f1 = f1
  f2 = f2
  Files <- MCFiles
  Minors <- MCMinors
  MaxUnits = 3
INVARIANTS
  TypeOK
  NumbersAscend
  HeldByListedUnits
  ClaimsAreExclusive
  UnloadIsClean
PROPERTIES
  UnloadSparesOpenUnits
  RemovalCompletes
CHECK_DEADLOCK FALSE
