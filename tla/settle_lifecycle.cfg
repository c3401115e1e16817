\* Clicks while advertisers are registered and deleted and the log is reset.
CHECK_DEADLOCK FALSE
SPECIFICATION Spec
CONSTANTS
  Requests = {h1, h2}
  MaxId = 3
  MaxAuctions = 2
  MaxRegistrations = 2
  MaxUpdates = 0
  GroupSizes = {1, 2}
  Totals = {2}
  Payments = {1, 2}
  Operations = {"delete", "reset"}
  Faults = {}
SYMMETRY Interchangeable
INVARIANTS ChargedAtMostOnce ClickedWasBilled
PROPERTIES ChargedToWinnersBudget NoFalseRefusal ImplementsIdealBilling
