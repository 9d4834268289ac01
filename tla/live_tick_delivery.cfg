\* No call raises: the decoder's refusal is the only fault.  Two observers.
SPECIFICATION Spec
CONSTANTS
  q1 = q1
  q2 = q2
  cam = cam
  OutcomePorts <- MCTwoQueues
  SensorPorts <- MCCamera
  NumObservers = 2
  Faults <- MCNoConsumerFaults
  MaxReceipts = 2
  MaxProposals = 2
  MaxSubmits = 1
  MaxTime = 1
INVARIANT OutcomeNotLost
PROPERTIES
  EventuallyResolved
