\* Up to three options, every order; then any request.  And two requests
\* racing for a burst of two, with a token every three units and seconds of
\* two.  A behaviour ends with its answer, or when the clock reaches MaxTime.
SPECIFICATION FrontSpec
CONSTANTS
  Place <- MCPlaces
  Slashed <- MCSlashed
  Table <- MCTables
  Stem <- MCStems
  Accept <- MCAccepts
  MaxOptions = 3
  r1 = r1
  r2 = r2
  Request <- MCRequests
  Token = 3
  Burst = 2
  Second = 2
  MaxTime = 8
INVARIANTS
  RoutesAsConfigured
  LinksLead
  NegotiationAgrees
  WindowBound
  HintHonoured
CHECK_DEADLOCK FALSE
