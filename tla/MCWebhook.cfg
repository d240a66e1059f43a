\* One push loop, three deliveries against a limit of two.
SPECIFICATION Spec
CONSTANTS
  l1 = l1
  l2 = l2
  up = up
  fail = fail
  j1 = j1
  j2 = j2
  j3 = j3
  None = None
  State <- MCStates
  Loop <- MCOneLoop
  Job <- MCJobs
  MaxInFlight = 2
  PushAlways = TRUE
INVARIANTS
  InFlightExact
  BoundedDeliveries
PROPERTY AnnouncedCatchesUp
