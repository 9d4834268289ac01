------------------------ MODULE MCCapabilityStaging ------------------------
(* An instance of CapabilityStaging for TLC.                               *)
EXTENDS CapabilityStaging, TLC

CONSTANTS k1, k2, k3

MCKeys == {k1, k2, k3}

(* k2 matches both k1 and k3, which do not match each other.               *)
MCNear == (MCKeys \X MCKeys) \ {<<k1, k3>>, <<k3, k1>>}

MCSymmetry == Permutations({k1, k3})
MCAllFaults == {"crash", "disk"}
MCCrash == {"crash"}
=============================================================================
