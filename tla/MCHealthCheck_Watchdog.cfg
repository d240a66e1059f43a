\* A fast interval far under the floor, and a clock that is set back twice.
SPECIFICATION CheckSpec
CONSTANTS
  p1 = p1
  p2 = p2
  NoPusher = NoPusher
  Pusher <- MCOnePusher
  Interval = 1
  Floor = 4
  Cascade = TRUE
  Setbacks = 2
PROPERTIES
  NoFalseAlarm
  DeathIsReported
