\* Two query points (an OpenRTB request with two keywords), a keyword group
\* of two and an intent position; equal distances make it one query point.
CHECK_DEADLOCK FALSE
SPECIFICATION Spec
CONSTANTS
  k1 = k1
  k2 = k2
  i1 = i1
  Positions = {k1, k2, i1}
  Owner <- TwoAndOne
  Points = 2
  Prices = {0, 1, 2}
  Distances = {0, 1}
  Floors = {0, 1}
  None = None
INVARIANTS HighestScoreWins WithinBidAndFloor PricedAgainstRivals CriticalAtPoint
