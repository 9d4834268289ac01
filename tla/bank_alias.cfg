\* A put matches the primary key of a row whose alias is protected.
SPECIFICATION Spec
CONSTANTS
  k1 = k1
  k2 = k2
  k3 = k3
  Nothing = Nothing
  Torn = Torn
  Keys <- MCThreeKeys
  Near <- MCEqual
  Capacity = 1
  MaxRows = 2
  MaxMade = 3
  MaxVersion = 3
  Levels <- MCMastery
  Faults <- MCNoFaults
CHECK_DEADLOCK FALSE
PROPERTY PutSparesProtectedAddresses
