\* A push loop and the Observe hook around a ring of two.
SPECIFICATION Spec
CONSTANTS
  l1 = l1
  h1 = h1
  n1 = n1
  n2 = n2
  n3 = n3
  Blank = Blank
  Loop <- MCLoops
  Hook <- MCHooks
  Name <- MCNames
  Response <- MCResponses
  TrendSamples = 2
  MaxEvidence = 2
  Bucket = 2
  Latency <- MCLatencies
  MaxObs = 4
INVARIANTS
  TypeOK
  RingIsWindow
  NearlyChronological
  EvidenceIsReal
  FailuresAreBacked
  TrendCoherent
  ScrapeNearlyCumulative
