\* Shutdown with drain and a restart, one client.
SPECIFICATION Spec
CONSTANTS
  p1 = p1
  p2 = p2
  c1 = c1
  up = up
  fail = fail
  s1 = s1
  s2 = s2
  NoPusher = NoPusher
  NoDigest = NoDigest
  Pusher <- MCTwoPushers
  Client <- MCOneClient
  Digest <- MCOneDigest
  Src <- MCOneSrc
  MaxConns = 1
  TTL = 0
  PushAlways = FALSE
  Drain = TRUE
  RenderFails = FALSE
  BufferSize = 1
INVARIANTS
  PublishedNotShutDown
  ClosedHasCause
PROPERTIES
  ShutdownEndsStreams
  ImplementsLifecycle
  ShutdownEndsLoop
