----------------------------- MODULE MCLiveTick -----------------------------
(***************************************************************************)
(* Instances of LiveTick for TLC.  Outcome ports are interchangeable, and  *)
(* no liveness property is checked under the symmetry.                     *)
(***************************************************************************)
EXTENDS LiveTick, TLC

CONSTANTS q1, q2, cam

MCTwoQueues == {q1, q2}
MCCamera == {cam}
MCNoPort == {}

MCAllFaults == FaultKinds
MCNoConsumerFaults == {"decoder"}
MCObserverFault == {"observer", "duplicate"}

MCSymmetry == Permutations(MCTwoQueues)
=============================================================================
