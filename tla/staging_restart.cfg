\* The process stops while the queue is being saved, and is started again.
SPECIFICATION Spec
CONSTANTS
  k1 = k1
  k2 = k2
  k3 = k3
  Nobody = Nobody
  Keys <- MCKeys
  Near <- MCNear
  MaxStaged = 2
  Faults <- MCCrash
CHECK_DEADLOCK FALSE
INVARIANT QueueAlwaysLoads
