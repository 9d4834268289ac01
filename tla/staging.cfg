\* Three candidates, some of which match each other; the process stops, or a write raises, at any step.
SPECIFICATION Spec
CONSTANTS
  k1 = k1
  k2 = k2
  k3 = k3
  Nobody = Nobody
  Keys <- MCKeys
  Near <- MCNear
  MaxStaged = 2
  Faults <- MCAllFaults
SYMMETRY MCSymmetry
CHECK_DEADLOCK FALSE
INVARIANTS
  TypeOK
  OwedIsDurable
  AdmittedIsDurable
  StagedIsNotExecutable
  RefusedOnlyAfterInterruption
