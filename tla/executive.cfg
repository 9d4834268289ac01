SPECIFICATION Spec
CONSTANTS
  Inputs = {"x", "y", "absent"}
  MaxInstructions = 9
  Artifacts <- MCArtifacts
  Chains <- MCChains
INVARIANTS
  TypeOK
  ReachesOnlyWhatCanHandoff
PROPERTIES
  ComponentsAreIsolated
  ImplementsSequence
CHECK_DEADLOCK FALSE
