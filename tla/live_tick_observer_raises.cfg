\* An observer raises, and the outcome is reported again.
SPECIFICATION Spec
CONSTANTS
  q1 = q1
  q2 = q2
  cam = cam
  OutcomePorts <- MCTwoQueues
  SensorPorts <- MCNoPort
  NumObservers = 2
  Faults <- MCObserverFault
  MaxReceipts = 1
  MaxProposals = 1
  MaxSubmits = 2
  MaxTime = 0
INVARIANT DeliveredAtMostOnce
