-------------------------- MODULE RetentionLedger --------------------------
(***************************************************************************)
(* CapabilityRetentionLedger of src/src/neural_computer/retention.py: the  *)
(* mastery evidence of opaque capability keys, and its moves between the   *)
(* ledgers of a staging area and of the banks that admit, grow or compact. *)
(*                                                                         *)
(* Outcomes in [0, 1] are integers 0 .. Unit, and so are the thresholds; a *)
(* mean is compared with a threshold by cross-multiplication.  Of the      *)
(* stable prefix minimum the code asks only whether it reaches the mastery *)
(* threshold: the field stable says so.                                    *)
(***************************************************************************)
EXTENDS Integers, Sequences

CONSTANTS
  Ledgers,      (* ledger objects                                          *)
  Keys,         (* opaque capability keys                                  *)
  Unit,         (* the outcome 1.0                                         *)
  Mastery,      (* mastery_threshold                                       *)
  MinMastery,   (* min_mastery_observations                                *)
  Reversal,     (* reversal_threshold                                      *)
  Patience,     (* reversal_patience                                       *)
  MaxObs        (* bound: observations of one ledger, and adoptions        *)

(* RetentionPolicyConfig.validate                                          *)
ASSUME PolicyAssumption ==
  /\ Unit \in Nat \ {0}
  /\ Mastery \in 0 .. Unit
  /\ MinMastery \in Nat \ {0}
  /\ Reversal \in 0 .. Unit
  /\ Patience \in Nat \ {0}
  /\ MaxObs \in Nat

Outcomes == 0 .. Unit

VARIABLES
  records,   (* _records of every ledger                                   *)
  step,      (* _step of every ledger                                      *)
  (* History, per ledger and key: the era's cumulative sums of outcomes,   *)
  (* and how many outcomes in a row, up to the last, were low.             *)
  sums,
  lowRun

vars == <<records, step, sums, lowRun>>

(* _CapabilityRecord; known is the presence of the digest in _records.     *)
Record == [known : BOOLEAN, success : Nat, observations : Nat, lifetime : Nat,
           stable : BOOLEAN, protected : BOOLEAN, streak : Nat,
           reversals : Nat, lastStep : Nat]

(* Mutation: an unseen key is stamped before the ledger's first step.       *)
AbsentSentinel ==
  [known |-> FALSE, success |-> 0, observations |-> 0, lifetime |-> 0,
   stable |-> TRUE, protected |-> FALSE, streak |-> 0, reversals |-> 0,
   lastStep |-> -1]

Absent == [known |-> FALSE, success |-> 0, observations |-> 0, lifetime |-> 0,
           stable |-> TRUE, protected |-> FALSE, streak |-> 0,
           reversals |-> 0, lastStep |-> 0]

Fresh == [Absent EXCEPT !.known = TRUE]

TypeOK ==
  /\ records \in [Ledgers -> [Keys -> Record]]
  /\ step \in [Ledgers -> Nat]
  /\ sums \in [Ledgers -> [Keys -> Seq(Nat)]]
  /\ lowRun \in [Ledgers -> [Keys -> Nat]]

Init ==
  /\ records = [l \in Ledgers |-> [k \in Keys |-> Absent]]
  /\ step = [l \in Ledgers |-> 0]
  /\ sums = [l \in Ledgers |-> [k \in Keys |-> <<>>]]
  /\ lowRun = [l \in Ledgers |-> [k \in Keys |-> 0]]

-----------------------------------------------------------------------------
(* observe *)

Low(v) == v <= Reversal

(* The era's prefix means still reach mastery with the outcome v.           *)
StillStable(r, v) ==
  /\ r.stable
  /\ r.observations + 1 >= MinMastery
       => r.success + v >= Mastery * (r.observations + 1)

(* The counters every outcome moves, before protection is decided.         *)
Counted(r, v, s) ==
  [r EXCEPT !.known = TRUE,
            !.success = r.success + v,
            !.observations = r.observations + 1,
            !.lifetime = r.lifetime + 1,
            !.lastStep = s,
            !.stable = StillStable(r, v)]

(* Mutation: one high outcome does not break a run of low ones.            *)
StreakSticky(r, v) == IF Low(v) THEN r.streak + 1 ELSE r.streak

Streak(r, v) == IF Low(v) THEN r.streak + 1 ELSE 0

(* Mastery is revoked, and none of its evidence is kept.                   *)
Released(r) ==
  [r EXCEPT !.protected = FALSE, !.reversals = @ + 1, !.streak = 0,
            !.success = 0, !.observations = 0, !.stable = TRUE]

(* Mutation: a first qualifying mean is enough, whatever came before.      *)
MasteredSpike(r) ==
  r.observations >= MinMastery /\ r.success >= Mastery * r.observations

(* Mutation: one outcome too many is asked for.                            *)
MasteredLate(r) == r.observations > MinMastery /\ r.stable

Mastered(r) == r.observations >= MinMastery /\ r.stable

(* Whether this outcome releases the capability.                           *)
Releases(r, v) == r.protected /\ Streak(r, v) >= Patience

(* The record after protection is decided; c has been Counted.             *)
Decided(c, v) ==
  IF c.protected
    THEN IF Releases(c, v) THEN Released(c)
                           ELSE [c EXCEPT !.streak = Streak(c, v)]
    ELSE IF Mastered(c) THEN [c EXCEPT !.protected = TRUE, !.streak = 0]
                        ELSE c

Observed(r, v, s) == Decided(Counted(r, v, s), v)

LastSum(q) == IF q = <<>> THEN 0 ELSE q[Len(q)]

Observe(l, k, v) ==
  LET r == records[l][k] IN
  /\ step[l] < MaxObs
  /\ step' = [step EXCEPT ![l] = @ + 1]
  /\ records' = [records EXCEPT ![l][k] = Observed(r, v, step[l] + 1)]
  /\ sums' = [sums EXCEPT ![l][k] =
                IF Releases(r, v) THEN <<>> ELSE Append(@, LastSum(@) + v)]
  /\ lowRun' = [lowRun EXCEPT ![l][k] = IF Low(v) THEN @ + 1 ELSE 0]

(* status creates the record it is asked for.                              *)
Status(l, k) ==
  /\ ~ records[l][k].known
  /\ records' = [records EXCEPT ![l][k] = Fresh]
  /\ UNCHANGED <<step, sums, lowRun>>

-----------------------------------------------------------------------------
(* Moving evidence between ledgers *)

(* Mutation: the destination keeps its own step.                           *)
StepAfterAdoptOwn(s, t) == t + 1

StepAfterAdopt(s, t) == (IF s > t THEN s ELSE t) + 1

(* adopt (k = j) and adopt_transformed: source l's evidence for k becomes  *)
(* destination m's evidence for j, which had none.                         *)
Adopt(l, m, k, j) ==
  /\ l # m
  /\ step[l] < MaxObs /\ step[m] < MaxObs
  /\ records[l][k].known
  /\ ~ records[m][j].known
  /\ records' = [records EXCEPT ![m][j] = records[l][k]]
  /\ step' = [step EXCEPT ![m] = StepAfterAdopt(step[l], step[m])]
  /\ sums' = [sums EXCEPT ![m][j] = sums[l][k]]
  /\ lowRun' = [lowRun EXCEPT ![m][j] = lowRun[l][k]]

(* A bank that grows, compacts or consolidates continues with the subset   *)
(* of its ledger that its rows address.                                    *)
Subset(l, S) ==
  /\ records' = [records EXCEPT ![l] =
                   [k \in Keys |-> IF k \in S THEN @[k] ELSE Absent]]
  /\ sums' = [sums EXCEPT ![l] = [k \in Keys |-> IF k \in S THEN @[k] ELSE <<>>]]
  /\ lowRun' = [lowRun EXCEPT ![l] = [k \in Keys |-> IF k \in S THEN @[k] ELSE 0]]
  /\ UNCHANGED step

Next ==
  \/ \E l \in Ledgers, k \in Keys, v \in Outcomes : Observe(l, k, v)
  \/ \E l \in Ledgers, k \in Keys : Status(l, k)
  \/ \E l, m \in Ledgers, k, j \in Keys : Adopt(l, m, k, j)
  \/ \E l \in Ledgers, S \in SUBSET Keys : Subset(l, S)

Spec == Init /\ [][Next]_vars

-----------------------------------------------------------------------------
(* Properties *)

(* The mean of the era's first n outcomes reaches the mastery threshold.   *)
MeanReaches(q, n) == q[n] >= Mastery * n

(* A protected capability once had MinMastery outcomes in its present era  *)
(* with every measured prefix mean, from then back to the first one that   *)
(* counts, at the mastery threshold: no late spike, and no evidence from   *)
(* before a reversal, protects it.                                         *)
ProtectedWasMastered ==
  \A l \in Ledgers, k \in Keys : records[l][k].protected =>
    \E n \in MinMastery .. Len(sums[l][k]) :
      \A i \in MinMastery .. n : MeanReaches(sums[l][k], i)

(* Mastery is never withheld: unprotected evidence of MinMastery outcomes  *)
(* has a measured prefix below the threshold.                              *)
MasteredIsProtected ==
  \A l \in Ledgers, k \in Keys :
    (Len(sums[l][k]) >= MinMastery /\ ~ records[l][k].protected) =>
      \E i \in MinMastery .. Len(sums[l][k]) : ~ MeanReaches(sums[l][k], i)

(* A capability is released only by Patience low outcomes in a row, even   *)
(* when the evidence moved to another ledger between them.                 *)
ReleasedOnlyByStreak ==
  [][\A l \in Ledgers, k \in Keys :
       (/\ records[l][k].protected
        /\ records'[l][k].known
        /\ ~ records'[l][k].protected)
       => lowRun'[l][k] >= Patience]_vars

(* No record is newer than the ledger that holds it, whichever ledger the  *)
(* evidence was gathered in.                                               *)
RecordsNotFromTheFuture ==
  \A l \in Ledgers, k \in Keys : records[l][k].lastStep <= step[l]
=============================================================================
