\* Two positions, the enclave started up to twice, one request at a time.
CHECK_DEADLOCK FALSE
SPECIFICATION Spec
CONSTANTS
  p1 = p1
  p2 = p2
  k1 = k1
  Positions = {p1, p2}
  Keys = {k1}
  BudgetKey <- MCKey
  Calls = {c1}
  MaxBudget = 1
  MaxKey = 2
  MaxChanges = 2
  MaxLost = 1
INVARIANTS StaleOnlyAfterRestart
PROPERTIES WinnerWasGood Converges
