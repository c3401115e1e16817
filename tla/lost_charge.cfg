\* After a budget update a charge is accepted that the row does not have.
SPECIFICATION Spec
CONSTANTS
  Requests = {h1}
  MaxId = 1
  MaxAuctions = 2
  MaxRegistrations = 1
  MaxUpdates = 1
  GroupSizes = {1}
  Totals = {1}
  Payments = {1}
  Operations = {"update"}
  Faults = {}
PROPERTIES ChargePersisted
