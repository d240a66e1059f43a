\* Up to two options: a table with empty routes and a base path.
SPECIFICATION FrontSpec
CONSTANTS
  Place <- MCPlaces
  Slashed <- MCSlashed
  Table <- MCTables
  Stem <- MCStems
  Accept <- MCAccepts
  MaxOptions = 2
  r1 = r1
  r2 = r2
  Request <- MCRequests
  Token = 3
  Burst = 2
  Second = 2
  MaxTime = 8
INVARIANT EmptyRoutesStayEmpty
CHECK_DEADLOCK FALSE
