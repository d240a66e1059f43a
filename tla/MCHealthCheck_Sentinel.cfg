\* One Start, no Shutdown, and a health check in between.
SPECIFICATION CheckSpec
CONSTANTS
  p1 = p1
  p2 = p2
  NoPusher = NoPusher
  Pusher <- MCOnePusher
  Interval = 1
  Floor = 4
  Cascade = FALSE
  Setbacks = 0
INVARIANT ShutDownIsTrue
