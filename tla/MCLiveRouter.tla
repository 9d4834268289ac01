----------------------------- MODULE MCLiveRouter -----------------------------
(* An instance of LiveRouter for TLC.                                      *)
EXTENDS LiveRouter, TLC

CONSTANTS c1, c2, s1, s2

MCContexts == {c1, c2}
MCSlots    == {s1, s2}
MCSymmetry == Permutations(MCContexts) \union Permutations(MCSlots)
(* Nothing, everything, and a reward three times what the ledger accepts.  *)
MCRewards == {0, 60, 180}
=============================================================================
