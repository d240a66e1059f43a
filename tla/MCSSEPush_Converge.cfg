\* Self-healing with PushOnChangeTTL.
SPECIFICATION Spec
CONSTANTS
  p1 = p1
  p2 = p2
  c1 = c1
  up = up
  fail = fail
  s1 = s1
  s2 = s2
  NoPusher = NoPusher
  NoDigest = NoDigest
  Pusher <- MCOnePusher
  Client <- MCOneClient
  Digest <- MCTwoDigests
  Src <- MCTwoSrcs
  MaxConns = 0
  TTL = 2
  PushAlways = FALSE
  Drain = FALSE
  RenderFails = TRUE
  BufferSize = 2
PROPERTY Converges
