--------------------------- MODULE MCArtifactBank ---------------------------
(* An instance of ArtifactBank for TLC.                                    *)
EXTENDS ArtifactBank, TLC

CONSTANTS k1, k2, k3

MCThreeKeys == {k1, k2, k3}

(* k2 matches both k1 and k3, which do not match each other.               *)
MCNear == (MCThreeKeys \X MCThreeKeys) \ {<<k1, k3>>, <<k3, k1>>}
MCMastery == {"protected"}
(* Only equal keys match.                                                  *)
MCEqual == {<<k, k>> : k \in MCThreeKeys}

MCSymmetry == Permutations({k1, k3})
MCAllFaults == {"crash", "disk"}
MCCrash == {"crash"}
MCNoFaults == {}
=============================================================================
