\* The process stops in the middle of a put, and the bank is loaded again.
SPECIFICATION Spec
CONSTANTS
  k1 = k1
  k2 = k2
  k3 = k3
  Nothing = Nothing
  Torn = Torn
  Keys <- MCThreeKeys
  Near <- MCEqual
  Capacity = 1
  MaxRows = 2
  MaxMade = 3
  MaxVersion = 3
  Levels <- MCMastery
  Faults <- MCCrash
CHECK_DEADLOCK FALSE
INVARIANT RowsServeTheirOwn
