\* Both programs from environment to exit, two browsers, a limit of one.
SPECIFICATION ProcessSpec
CONSTANTS
  p1 = p1
  c1 = c1
  c2 = c2
  up = up
  s1 = s1
  NoPusher = NoPusher
  NoDigest = NoDigest
  Pusher <- MCPushers
  Client <- MCClients
  Digest <- MCDigests
  Src <- MCSrcs
  MaxConns = 1
  TTL = 0
  PushAlways = TRUE
  Drain = TRUE
  RenderFails = FALSE
  BufferSize = 1
  RemoteName <- MCNames
  Slashed <- MCSlashed
  Spaced <- MCSpaced
  Environment <- MCEnvironment
  Settings <- MCSettings
CHECK_DEADLOCK FALSE
INVARIANTS
  ConnectionsExact
  RemotesNamespaced
  RefusalIsEarly
  EveryReturnShutsDown
  CleanExit
PROPERTIES
  OvershootBounded
  ProcessEnds
