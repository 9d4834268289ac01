\* Every fault; two outcome ports and a sensor.
SPECIFICATION Spec
CONSTANTS
  q1 = q1
  q2 = q2
  cam = cam
  OutcomePorts <- MCTwoQueues
  SensorPorts <- MCCamera
  NumObservers = 1
  Faults <- MCAllFaults
  MaxReceipts = 2
  MaxProposals = 2
  MaxSubmits = 2
  MaxTime = 1
SYMMETRY MCSymmetry
INVARIANTS
  TypeOK
  RedeliveredOnlyAfterAbort
  PendingIsPhysical
PROPERTIES
  ClosedOnlyByDelivery
  CreditedOnlyWhileOpen
  ImplementsLedger
