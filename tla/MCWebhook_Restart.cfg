\* A loop that Shutdown has not waited for announces last.
SPECIFICATION Spec
CONSTANTS
  l1 = l1
  l2 = l2
  up = up
  fail = fail
  j1 = j1
  j2 = j2
  j3 = j3
  None = None
  State <- MCStates
  Loop <- MCTwoLoops
  Job <- MCTwoJobs
  MaxInFlight = 2
  PushAlways = FALSE
PROPERTY AnnouncedCatchesUp
