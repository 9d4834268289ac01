\* Three keys in a bank of one row that may grow; crashes and failing writes.
SPECIFICATION Spec
CONSTANTS
  k1 = k1
  k2 = k2
  k3 = k3
  Nothing = Nothing
  Torn = Torn
  Keys <- MCThreeKeys
  Near <- MCNear
  Capacity = 1
  MaxRows = 2
  MaxMade = 3
  MaxVersion = 3
  Levels <- MCMastery
  Faults <- MCAllFaults
SYMMETRY MCSymmetry
CHECK_DEADLOCK FALSE
INVARIANTS
  TypeOK
  ForeignOnlyFromCutPut
  RefusedOnlyAfterInterruption
  IdleIsDurable
  HotIsCurrent
PROPERTIES
  RebuildCarriesProtection
  NeverOverwritesReferencedFile
  ProtectedRowsSurvive
