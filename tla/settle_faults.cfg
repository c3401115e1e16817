\* Clicks, a budget update and deletions while every statement may fail and
\* the server may crash; fairness assumed.
CHECK_DEADLOCK FALSE
SPECIFICATION FairSpec
CONSTANTS
  Requests = {h1, h2}
  MaxId = 2
  MaxAuctions = 1
  MaxRegistrations = 1
  MaxUpdates = 1
  GroupSizes = {1, 2}
  Totals = {2}
  Payments = {0, 1, 2}
  Operations = {"update", "delete", "crash"}
  Faults = {"read", "log", "persist"}
INVARIANTS CacheMatchesTable ChargesAreDurable
PROPERTIES FirstClickOnly EveryRequestAnswered
