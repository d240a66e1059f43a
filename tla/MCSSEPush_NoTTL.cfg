\* Without re-assertion nothing repairs what a client missed while it connected.
SPECIFICATION Spec
CONSTANTS
  p1 = p1
  p2 = p2
  c1 = c1
  up = up
  fail = fail
  s1 = s1
  s2 = s2
  NoPusher = NoPusher
  NoDigest = NoDigest
  Pusher <- MCOnePusher
  Client <- MCOneClient
  Digest <- MCTwoDigests
  Src <- MCOneSrc
  MaxConns = 0
  TTL = 0
  PushAlways = FALSE
  Drain = FALSE
  RenderFails = FALSE
  BufferSize = 3
PROPERTY ConnectCatchesUp
