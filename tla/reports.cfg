\* One ad is observed, two of its impressions are reported at a time, and two
\* messages about two attestations are processed at a time.
CHECK_DEADLOCK FALSE
SPECIFICATION Spec
CONSTANTS
  Second = 3
  MaxBatch = 1
  MaxScrolls = 4
  Callers = {c1, c2}
  FreqCapMax = 2
  MaxDropped = 1
  MaxMisread = 1
  Handlers = {h1, h2}
  Ids = {1, 2}
  ann = ann
  bob = bob
  eve = eve
  Addrs = {ann, bob, eve}
  Claims <- MCClaims
  NoRow = NoRow
  Free = Free
INVARIANTS ReportedWasViewed Overshoot LogTellsStatus
PROPERTIES SilentAfterCleanup ViewedIsReported NoEarlyRefusal ImplementsTrustGraph
