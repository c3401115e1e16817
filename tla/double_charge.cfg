\* A charge whose log fails is made again by the next click.
SPECIFICATION Spec
CONSTANTS
  Requests = {h1}
  MaxId = 1
  MaxAuctions = 1
  MaxRegistrations = 1
  MaxUpdates = 0
  GroupSizes = {1}
  Totals = {2}
  Payments = {1}
  Operations = {}
  Faults = {"log"}
INVARIANTS ChargedAtMostOnce
