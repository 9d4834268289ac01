----------------------------- MODULE MCAgentBrain -----------------------------
(* An instance of AgentBrain for TLC.                                      *)
EXTENDS AgentBrain

CONSTANTS prelude, loop, t1, t2

MCBases    == {prelude, loop}
MCFinite   == {prelude}
MCTemporal == {t1, t2}
MCWidth    == [t \in MCTemporal |-> IF t = t1 THEN 1 ELSE 2]
(* An address program, and an inverted one of one row.                     *)
MCReads    == [t \in MCTemporal |->
                 IF t = t1 THEN {"instruction"} ELSE {"instruction", "context"}]
MCContexts == {2}
(* A family of one program and, left behind by someone else, an empty one; *)
(* of the former's width t2 is refused, as a context of the latter it fits.*)
MCImports  == {[instruction |-> 1, context |-> 1, programs |-> {t1}],
               [instruction |-> 1, context |-> 2, programs |-> {}]}
=============================================================================
