-------------------------- MODULE RetentionProofs --------------------------
(***************************************************************************)
(* Machine-checked proofs about RetentionLedger, for every set of ledgers  *)
(* and keys, and every policy: the counters that observe keeps in place of *)
(* the outcomes say of them exactly what the policy asks.                  *)
(***************************************************************************)
EXTENDS RetentionLedger, TLAPS

(* Every measured prefix of the era reaches the mastery threshold.         *)
AllReach(q, n) == \A i \in MinMastery .. n : MeanReaches(q, i)

(* The record r counts the era whose cumulative sums are q.                *)
Counts(r, q) ==
  /\ r.observations = Len(q)
  /\ r.success = LastSum(q)
  /\ r.stable <=> AllReach(q, Len(q))

(* Protection is what the era earned, and no streak runs without it.       *)
Earned(r, q) ==
  /\ r.protected => \E n \in MinMastery .. Len(q) : AllReach(q, n)
  /\ ~ r.protected => ~ Mastered(r) /\ r.streak = 0

Sound(r, q, low, s) ==
  /\ Counts(r, q)
  /\ Earned(r, q)
  /\ r.streak <= low
  /\ r.lastStep <= s
  /\ ~ r.known => r = Absent /\ q = <<>>

SoundInv ==
  \A l \in Ledgers, k \in Keys :
    Sound(records[l][k], sums[l][k], lowRun[l][k], step[l])

IInv == TypeOK /\ SoundInv

-----------------------------------------------------------------------------
(* Sequences of sums *)

LEMMA EmptySums ==
  /\ <<>> \in Seq(Nat) /\ Len(<<>>) = 0 /\ LastSum(<<>>) = 0
  /\ AllReach(<<>>, 0)
BY PolicyAssumption DEF LastSum, AllReach

LEMMA LastSumType == ASSUME NEW q \in Seq(Nat) PROVE LastSum(q) \in Nat
BY DEF LastSum

(* One more outcome: the earlier prefixes stay, and the last one is new.   *)
LEMMA AppendSums ==
  ASSUME NEW q \in Seq(Nat), NEW x \in Nat
  PROVE  /\ Append(q, x) \in Seq(Nat)
         /\ Len(Append(q, x)) = Len(q) + 1
         /\ LastSum(Append(q, x)) = x
         /\ \A n \in 0 .. Len(q) : AllReach(Append(q, x), n) <=> AllReach(q, n)
         /\ AllReach(Append(q, x), Len(q) + 1) <=>
              /\ AllReach(q, Len(q))
              /\ Len(q) + 1 >= MinMastery => x >= Mastery * (Len(q) + 1)
<1>. DEFINE q1 == Append(q, x)
<1>1. /\ q1 \in Seq(Nat) /\ Len(q1) = Len(q) + 1
      /\ \A i \in 1 .. Len(q) : q1[i] = q[i]
      /\ q1[Len(q) + 1] = x
  OBVIOUS
<1>2. Len(q) \in Nat
  OBVIOUS
<1>3. LastSum(q1) = x
  <2>1. q1 # <<>>
    BY <1>1, <1>2
  <2>2. QED
    BY <1>1, <2>1 DEF LastSum
<1>. HIDE DEF q1
<1>4. \A i \in MinMastery .. Len(q) : MeanReaches(q1, i) <=> MeanReaches(q, i)
  BY <1>1, <1>2, PolicyAssumption DEF MeanReaches
<1>5. \A n \in 0 .. Len(q) : AllReach(q1, n) <=> AllReach(q, n)
  BY <1>2, <1>4, PolicyAssumption DEF AllReach
<1>6. MeanReaches(q1, Len(q) + 1) <=> x >= Mastery * (Len(q) + 1)
  BY <1>1 DEF MeanReaches
<1>7. AllReach(q1, Len(q) + 1) <=>
        /\ AllReach(q1, Len(q))
        /\ Len(q) + 1 >= MinMastery => MeanReaches(q1, Len(q) + 1)
  BY <1>2, PolicyAssumption DEF AllReach
<1>8. QED
  BY <1>1, <1>2, <1>3, <1>5, <1>6, <1>7 DEF q1

-----------------------------------------------------------------------------
(* One record *)

LEMMA AbsentSound ==
  /\ Absent \in Record /\ Fresh \in Record
  /\ \A low, s \in Nat : Sound(Absent, <<>>, low, s) /\ Sound(Fresh, <<>>, low, s)
<1>1. /\ Absent \in Record /\ Fresh \in Record
      /\ ~ Absent.protected /\ Absent.stable /\ Absent.observations = 0
      /\ Absent.success = 0 /\ Absent.streak = 0 /\ Absent.lastStep = 0
      /\ ~ Fresh.protected /\ Fresh.stable /\ Fresh.observations = 0
      /\ Fresh.success = 0 /\ Fresh.streak = 0 /\ Fresh.lastStep = 0
      /\ Fresh.known
  BY DEF Absent, Fresh, Record
<1>2. QED
  BY <1>1, EmptySums, PolicyAssumption DEF Sound, Counts, Earned, Mastered

(* The counters after an outcome v at step s. *)
LEMMA CountedFields ==
  ASSUME NEW r \in Record, NEW v \in Outcomes, NEW s \in Nat
  PROVE  /\ Counted(r, v, s) \in Record
         /\ Counted(r, v, s).known
         /\ Counted(r, v, s).stable <=> StillStable(r, v)
         /\ Counted(r, v, s).protected <=> r.protected
         /\ Counted(r, v, s).success = r.success + v
         /\ Counted(r, v, s).observations = r.observations + 1
         /\ Counted(r, v, s).streak = r.streak
         /\ Counted(r, v, s).lastStep = s
<1>. DEFINE b == StillStable(r, v)
            x == r.success + v  y == r.observations + 1  z == r.lifetime + 1
            c == Counted(r, v, s)
<1>1. x \in Nat /\ y \in Nat /\ z \in Nat
  BY PolicyAssumption DEF Record, Outcomes
<1>2. b \in BOOLEAN
  BY DEF StillStable
<1>3. c = [r EXCEPT !.known = TRUE, !.success = x, !.observations = y,
                    !.lifetime = z, !.lastStep = s, !.stable = b]
  BY DEF Counted
<1>. HIDE DEF b, x, y, z, c
<1>4. c \in Record
  BY <1>1, <1>2, <1>3 DEF Record
<1>5. c.known
  BY <1>3 DEF Record
<1>6. c.stable <=> b
  BY <1>2, <1>3 DEF Record
<1>7. c.protected <=> r.protected
  BY <1>3 DEF Record
<1>8. c.success = x
  BY <1>3 DEF Record
<1>9. c.observations = y
  BY <1>3 DEF Record
<1>10. c.streak = r.streak
  BY <1>3 DEF Record
<1>11. c.lastStep = s
  BY <1>3 DEF Record
<1>12. QED
  BY <1>4, <1>5, <1>6, <1>7, <1>8, <1>9, <1>10, <1>11 DEF b, x, y, c

LEMMA CountedCounts ==
  ASSUME NEW r \in Record, NEW q \in Seq(Nat), NEW v \in Outcomes, NEW s \in Nat,
         Counts(r, q)
  PROVE  Counts(Counted(r, v, s), Append(q, LastSum(q) + v))
<1>1. LastSum(q) \in Nat /\ LastSum(q) + v \in Nat
  BY LastSumType, PolicyAssumption DEF Outcomes
<1>. DEFINE c == Counted(r, v, s)  q1 == Append(q, LastSum(q) + v)
<1>2. /\ c.stable <=> StillStable(r, v)
      /\ c.success = r.success + v
      /\ c.observations = r.observations + 1
  BY CountedFields
<1>3. /\ q1 \in Seq(Nat) /\ Len(q1) = Len(q) + 1 /\ LastSum(q1) = LastSum(q) + v
      /\ AllReach(q1, Len(q) + 1) <=>
              /\ AllReach(q, Len(q))
              /\ Len(q) + 1 >= MinMastery => LastSum(q) + v >= Mastery * (Len(q) + 1)
  BY <1>1, AppendSums
<1>. HIDE DEF c, q1
<1>4. Counts(c, q1)
  BY <1>2, <1>3 DEF Counts, StillStable
<1>5. QED
  BY <1>4 DEF c, q1

(* Where the outcome does not release, the era goes on.                    *)
LEMMA DecidedFields ==
  ASSUME NEW c \in Record, NEW v \in Outcomes, ~ Releases(c, v)
  PROVE  /\ Decided(c, v) \in Record
         /\ Decided(c, v).known <=> c.known
         /\ Decided(c, v).stable <=> c.stable
         /\ Decided(c, v).protected <=> c.protected \/ Mastered(c)
         /\ Decided(c, v).observations = c.observations
         /\ Decided(c, v).success = c.success
         /\ Decided(c, v).lastStep = c.lastStep
         /\ Decided(c, v).streak <= Streak(c, v) \/ ~ c.protected
         /\ ~ c.protected => Decided(c, v).streak \in {0, c.streak}
<1>. DEFINE d == Decided(c, v)  t == Streak(c, v)
<1>1. t \in Nat
  BY DEF Streak, Record
<1>2. CASE c.protected
  <2>1. d = [c EXCEPT !.streak = t]
    BY <1>2 DEF Decided
  <2>. HIDE DEF d, t
  <2>2. d \in Record
    BY <1>1, <2>1 DEF Record
  <2>3. d.known <=> c.known
    BY <2>1 DEF Record
  <2>4. d.stable <=> c.stable
    BY <2>1 DEF Record
  <2>5. d.protected <=> c.protected
    BY <2>1 DEF Record
  <2>6. /\ d.observations = c.observations /\ d.success = c.success
        /\ d.lastStep = c.lastStep /\ d.streak = t
    BY <2>1 DEF Record
  <2>7. QED
    BY <1>1, <1>2, <2>2, <2>3, <2>4, <2>5, <2>6 DEF d, t
<1>3. CASE ~ c.protected /\ Mastered(c)
  <2>1. d = [c EXCEPT !.protected = TRUE, !.streak = 0]
    BY <1>3 DEF Decided
  <2>. HIDE DEF d, t
  <2>2. d \in Record
    BY <2>1 DEF Record
  <2>3. d.known <=> c.known
    BY <2>1 DEF Record
  <2>4. d.stable <=> c.stable
    BY <2>1 DEF Record
  <2>5. d.protected
    BY <2>1 DEF Record
  <2>6. /\ d.observations = c.observations /\ d.success = c.success
        /\ d.lastStep = c.lastStep /\ d.streak = 0
    BY <2>1 DEF Record
  <2>7. QED
    BY <1>3, <2>2, <2>3, <2>4, <2>5, <2>6 DEF d, t
<1>4. CASE ~ c.protected /\ ~ Mastered(c)
  BY <1>4 DEF Decided
<1>5. QED
  BY <1>2, <1>3, <1>4

LEMMA ReleasedFields ==
  ASSUME NEW c \in Record
  PROVE  /\ Released(c) \in Record
         /\ ~ Released(c).protected /\ Released(c).stable
         /\ Released(c).known <=> c.known
         /\ Released(c).streak = 0 /\ Released(c).success = 0
         /\ Released(c).observations = 0
         /\ Released(c).lastStep = c.lastStep
<1>. DEFINE n == c.reversals + 1  d == Released(c)
<1>1. n \in Nat
  BY DEF Record
<1>2. d = [c EXCEPT !.protected = FALSE, !.reversals = n, !.streak = 0,
                    !.success = 0, !.observations = 0, !.stable = TRUE]
  BY DEF Released
<1>. HIDE DEF n, d
<1>3. d \in Record
  BY <1>1, <1>2 DEF Record
<1>4. ~ d.protected
  BY <1>2 DEF Record
<1>5. d.stable
  BY <1>2 DEF Record
<1>6. d.known <=> c.known
  BY <1>2 DEF Record
<1>7. /\ d.streak = 0 /\ d.success = 0 /\ d.observations = 0
      /\ d.lastStep = c.lastStep
  BY <1>2 DEF Record
<1>8. QED
  BY <1>3, <1>4, <1>5, <1>6, <1>7 DEF d

-----------------------------------------------------------------------------
(* observe on one record *)

(* Counting keeps the counts, and decides nothing about protection.        *)
LEMMA CountedSound ==
  ASSUME NEW r \in Record, NEW q \in Seq(Nat), NEW low \in Nat, NEW s \in Nat,
         NEW v \in Outcomes, Sound(r, q, low, s)
  PROVE  LET c == Counted(r, v, s + 1)
             q1 == Append(q, LastSum(q) + v)
         IN /\ Counts(c, q1)
            /\ Mastered(c) => AllReach(q1, Len(q1)) /\ MinMastery <= Len(q1)
            /\ c.protected => \E n \in MinMastery .. Len(q1) : AllReach(q1, n)
            /\ Releases(c, v) <=> Releases(r, v)
            /\ Streak(c, v) = Streak(r, v)
<1>. DEFINE c == Counted(r, v, s + 1)  q1 == Append(q, LastSum(q) + v)
<1>1. Counts(c, q1)
  BY CountedCounts DEF Sound
<1>2. (c.protected <=> r.protected) /\ c.streak = r.streak
  BY CountedFields
<1>3. /\ q1 \in Seq(Nat) /\ Len(q1) = Len(q) + 1
      /\ \A n \in 0 .. Len(q) : AllReach(q1, n) <=> AllReach(q, n)
  <2>1. LastSum(q) + v \in Nat
    BY LastSumType, PolicyAssumption DEF Outcomes
  <2>2. QED
    BY <2>1, AppendSums
<1>. HIDE DEF c, q1
<1>4. Mastered(c) => AllReach(q1, Len(q1)) /\ MinMastery <= Len(q1)
  BY <1>1, <1>3, PolicyAssumption DEF Counts, Mastered
<1>5. c.protected => \E n \in MinMastery .. Len(q1) : AllReach(q1, n)
  <2>1. SUFFICES ASSUME r.protected
                 PROVE  \E n \in MinMastery .. Len(q1) : AllReach(q1, n)
    BY <1>2
  <2>2. PICK n \in MinMastery .. Len(q) : AllReach(q, n)
    BY <2>1 DEF Sound, Earned
  <2>3. n \in 0 .. Len(q) /\ n \in MinMastery .. Len(q1)
    BY <1>3, PolicyAssumption
  <2>4. AllReach(q1, n)
    BY <1>3, <2>2, <2>3
  <2>5. QED
    BY <2>3, <2>4
<1>6. Streak(c, v) = Streak(r, v)
  BY <1>2 DEF Streak
<1>7. Releases(c, v) <=> Releases(r, v)
  BY <1>2, <1>6 DEF Releases
<1>8. QED
  BY <1>1, <1>4, <1>5, <1>6, <1>7 DEF c, q1

(* A streak never outruns the low outcomes in a row.                       *)
LEMMA StreakIsLow ==
  ASSUME NEW r \in Record, NEW q, NEW low \in Nat, NEW s, NEW v \in Outcomes,
         Sound(r, q, low, s)
  PROVE  Streak(r, v) <= (IF Low(v) THEN low + 1 ELSE 0)
BY DEF Streak, Sound, Record

LEMMA ObservedReleased ==
  ASSUME NEW r \in Record, NEW q \in Seq(Nat), NEW low \in Nat, NEW s \in Nat,
         NEW v \in Outcomes, Sound(r, q, low, s), Releases(r, v)
  PROVE  /\ Observed(r, v, s + 1) \in Record
         /\ \A n \in Nat : Sound(Observed(r, v, s + 1), <<>>, n, s + 1)
<1>. DEFINE c == Counted(r, v, s + 1)  d == Observed(r, v, s + 1)
<1>1. c \in Record /\ c.known /\ c.lastStep = s + 1
  BY CountedFields
<1>2. Releases(c, v)
  BY CountedSound
<1>3. d = Released(c)
  BY <1>2 DEF Observed, Decided, Releases
<1>. HIDE DEF c, d
<1>4. /\ d \in Record
      /\ ~ d.protected /\ d.stable /\ d.known
      /\ d.streak = 0 /\ d.success = 0 /\ d.observations = 0
      /\ d.lastStep = s + 1
  BY <1>1, <1>3, ReleasedFields
<1>5. Counts(d, <<>>)
  BY <1>4, EmptySums DEF Counts
<1>6. Earned(d, <<>>)
  BY <1>4, PolicyAssumption DEF Earned, Mastered
<1>7. \A n \in Nat : Sound(d, <<>>, n, s + 1)
  BY <1>4, <1>5, <1>6 DEF Sound
<1>8. QED
  BY <1>4, <1>7 DEF d

LEMMA ObservedKept ==
  ASSUME NEW r \in Record, NEW q \in Seq(Nat), NEW low \in Nat, NEW s \in Nat,
         NEW v \in Outcomes, Sound(r, q, low, s), ~ Releases(r, v)
  PROVE  /\ Observed(r, v, s + 1) \in Record
         /\ r.protected => Observed(r, v, s + 1).protected
         /\ Sound(Observed(r, v, s + 1), Append(q, LastSum(q) + v),
                  IF Low(v) THEN low + 1 ELSE 0, s + 1)
<1>. DEFINE c == Counted(r, v, s + 1)  d == Observed(r, v, s + 1)
            q1 == Append(q, LastSum(q) + v)
            run == IF Low(v) THEN low + 1 ELSE 0
<1>1. /\ c \in Record /\ c.known /\ (c.protected <=> r.protected)
      /\ c.streak = r.streak /\ c.lastStep = s + 1
  BY CountedFields
<1>2. /\ Counts(c, q1)
      /\ Mastered(c) => AllReach(q1, Len(q1)) /\ MinMastery <= Len(q1)
      /\ c.protected => \E n \in MinMastery .. Len(q1) : AllReach(q1, n)
      /\ ~ Releases(c, v)
      /\ Streak(c, v) = Streak(r, v)
  BY CountedSound
<1>3. d = Decided(c, v)
  BY DEF Observed
<1>4. /\ Streak(c, v) <= run
      /\ run \in Nat /\ Streak(c, v) \in Nat
  <2>1. Streak(r, v) <= run
    BY StreakIsLow
  <2>2. run \in Nat /\ Streak(r, v) \in Nat
    BY DEF Streak, Record
  <2>. HIDE DEF c, run
  <2>3. QED
    BY <1>2, <2>1, <2>2
<1>5. Len(q1) \in Nat
  BY LastSumType, PolicyAssumption, AppendSums DEF Outcomes
<1>. HIDE DEF c, d, q1, run
<1>6. /\ d \in Record
      /\ d.known <=> c.known
      /\ d.stable <=> c.stable
      /\ d.protected <=> c.protected \/ Mastered(c)
      /\ d.observations = c.observations
      /\ d.success = c.success
      /\ d.lastStep = c.lastStep
      /\ d.streak <= Streak(c, v) \/ ~ c.protected
      /\ ~ c.protected => d.streak \in {0, c.streak}
  BY <1>1, <1>2, <1>3, DecidedFields
<1>7. Counts(d, q1)
  BY <1>2, <1>6 DEF Counts
<1>8. Earned(d, q1)
  <2>1. d.protected => \E n \in MinMastery .. Len(q1) : AllReach(q1, n)
    BY <1>2, <1>5, <1>6, PolicyAssumption
  <2>2. ~ d.protected => ~ Mastered(d) /\ d.streak = 0
    BY <1>1, <1>6 DEF Mastered, Sound, Earned
  <2>3. QED
    BY <2>1, <2>2 DEF Earned
<1>9. d.streak <= run
  <2>1. CASE c.protected
    <3>1. d.streak <= Streak(c, v) /\ d.streak \in Nat
      BY <1>6, <2>1 DEF Record
    <3>2. QED
      BY <1>4, <3>1
  <2>2. CASE ~ c.protected
    BY <1>1, <1>4, <1>6, <2>2 DEF Sound, Earned
  <2>3. QED
    BY <2>1, <2>2
<1>10. Sound(d, q1, run, s + 1)
  BY <1>1, <1>6, <1>7, <1>8, <1>9 DEF Sound
<1>11. QED
  BY <1>1, <1>6, <1>10 DEF d, q1, run

-----------------------------------------------------------------------------
(* The invariant *)

(* A step's part of ReleasedOnlyByStreak.                                  *)
ReleaseStep ==
  \A l \in Ledgers, k \in Keys :
    (/\ records[l][k].protected
     /\ records'[l][k].known
     /\ ~ records'[l][k].protected)
    => lowRun'[l][k] >= Patience

(* What IInv says of one ledger and key.                                   *)
LEMMA Fields ==
  ASSUME IInv, NEW l \in Ledgers, NEW k \in Keys
  PROVE  /\ records[l][k] \in Record /\ sums[l][k] \in Seq(Nat)
         /\ lowRun[l][k] \in Nat /\ step[l] \in Nat
         /\ Sound(records[l][k], sums[l][k], lowRun[l][k], step[l])
         /\ ~ records[l][k].known => ~ records[l][k].protected
<1>1. /\ records[l][k] \in Record /\ sums[l][k] \in Seq(Nat)
      /\ lowRun[l][k] \in Nat /\ step[l] \in Nat
  BY DEF IInv, TypeOK
<1>2. Sound(records[l][k], sums[l][k], lowRun[l][k], step[l])
  BY DEF IInv, SoundInv
<1>3. ~ Absent.protected
  BY DEF Absent
<1>4. QED
  BY <1>1, <1>2, <1>3 DEF Sound

LEMMA InitIInv == Init => IInv
<1>. SUFFICES ASSUME Init PROVE IInv
  OBVIOUS
<1>1. TypeOK
  BY AbsentSound, EmptySums DEF Init, TypeOK
<1>2. SoundInv
  BY AbsentSound DEF Init, SoundInv
<1>3. QED
  BY <1>1, <1>2 DEF IInv

(* A ledger's later step ages no record.                                   *)
LEMMA Later ==
  ASSUME NEW r \in Record, NEW q, NEW low, NEW s \in Nat, NEW t \in Nat,
         s <= t, Sound(r, q, low, s)
  PROVE  Sound(r, q, low, t)
BY DEF Sound, Record

LEMMA ObserveIInv ==
  ASSUME IInv, NEW l \in Ledgers, NEW k \in Keys, NEW v \in Outcomes,
         Observe(l, k, v)
  PROVE  IInv' /\ ReleaseStep
<1>. DEFINE r == records[l][k]  q == sums[l][k]  s == step[l]
            d == Observed(r, v, s + 1)
            e == IF Releases(r, v) THEN <<>> ELSE Append(q, LastSum(q) + v)
            run == IF Low(v) THEN lowRun[l][k] + 1 ELSE 0
<1>1. /\ r \in Record /\ q \in Seq(Nat) /\ lowRun[l][k] \in Nat /\ s \in Nat
      /\ Sound(r, q, lowRun[l][k], s)
  BY Fields
<1>2. /\ step' = [step EXCEPT ![l] = s + 1]
      /\ records' = [records EXCEPT ![l][k] = d]
      /\ sums' = [sums EXCEPT ![l][k] = e]
      /\ lowRun' = [lowRun EXCEPT ![l][k] = run]
  BY DEF Observe
<1>3. run \in Nat
  BY <1>1
<1>4. d \in Record /\ e \in Seq(Nat) /\ Sound(d, e, run, s + 1)
  <2>1. CASE Releases(r, v)
    BY <1>1, <1>3, <2>1, ObservedReleased, EmptySums
  <2>2. CASE ~ Releases(r, v)
    <3>1. d \in Record /\ Sound(d, e, run, s + 1)
      BY <1>1, <2>2, ObservedKept
    <3>2. LastSum(q) + v \in Nat
      BY <1>1, LastSumType, PolicyAssumption DEF Outcomes
    <3>3. QED
      BY <1>1, <2>2, <3>1, <3>2, AppendSums
  <2>3. QED
    BY <2>1, <2>2
<1>5. r.protected /\ ~ d.protected => run >= Patience
  <2>1. SUFFICES ASSUME r.protected, ~ d.protected PROVE run >= Patience
    OBVIOUS
  <2>2. Releases(r, v)
    BY <1>1, <2>1, ObservedKept
  <2>3. Streak(r, v) >= Patience /\ Streak(r, v) <= run
    BY <1>1, <2>2, StreakIsLow DEF Releases
  <2>4. Streak(r, v) \in Nat
    BY <1>1 DEF Streak, Record
  <2>. HIDE DEF run
  <2>5. QED
    BY <1>3, <2>3, <2>4, PolicyAssumption
<1>. HIDE DEF d, e, run
<1>6. TypeOK'
  BY <1>1, <1>2, <1>3, <1>4 DEF IInv, TypeOK
<1>7. SoundInv'
  <2>1. SUFFICES ASSUME NEW m \in Ledgers, NEW j \in Keys
                 PROVE  Sound(records'[m][j], sums'[m][j], lowRun'[m][j], step'[m])
    BY DEF SoundInv
  <2>2. CASE m = l /\ j = k
    <3>1. /\ records'[m][j] = d /\ sums'[m][j] = e
          /\ lowRun'[m][j] = run /\ step'[m] = s + 1
      BY <1>2, <2>2 DEF IInv, TypeOK
    <3>2. QED
      BY <1>4, <3>1
  <2>3. CASE m = l /\ j # k
    <3>1. /\ records'[m][j] = records[m][j] /\ sums'[m][j] = sums[m][j]
          /\ lowRun'[m][j] = lowRun[m][j] /\ step'[m] = s + 1
      BY <1>2, <2>3 DEF IInv, TypeOK
    <3>2. Sound(records[m][j], sums[m][j], lowRun[m][j], s + 1)
      BY <1>1, <2>3, Fields, Later
    <3>3. QED
      BY <3>1, <3>2
  <2>4. CASE m # l
    <3>1. /\ records'[m][j] = records[m][j] /\ sums'[m][j] = sums[m][j]
          /\ lowRun'[m][j] = lowRun[m][j] /\ step'[m] = step[m]
      BY <1>2, <2>4 DEF IInv, TypeOK
    <3>2. QED
      BY <3>1, Fields
  <2>5. QED
    BY <2>2, <2>3, <2>4
<1>8. ReleaseStep
  BY <1>2, <1>5 DEF ReleaseStep, IInv, TypeOK
<1>9. QED
  BY <1>6, <1>7, <1>8 DEF IInv

LEMMA StatusIInv ==
  ASSUME IInv, NEW l \in Ledgers, NEW k \in Keys, Status(l, k)
  PROVE  IInv' /\ ReleaseStep
<1>1. /\ records' = [records EXCEPT ![l][k] = Fresh]
      /\ step' = step /\ sums' = sums /\ lowRun' = lowRun
      /\ ~ records[l][k].known
  BY DEF Status
<1>2. sums[l][k] = <<>> /\ ~ records[l][k].protected
  BY <1>1, Fields DEF Sound
<1>3. TypeOK'
  BY <1>1, AbsentSound DEF IInv, TypeOK
<1>4. SoundInv'
  <2>1. SUFFICES ASSUME NEW m \in Ledgers, NEW j \in Keys
                 PROVE  Sound(records'[m][j], sums[m][j], lowRun[m][j], step[m])
    BY <1>1 DEF SoundInv
  <2>2. CASE m = l /\ j = k
    <3>1. records'[m][j] = Fresh
      BY <1>1, <2>2 DEF IInv, TypeOK
    <3>2. QED
      BY <1>2, <2>2, <3>1, Fields, AbsentSound
  <2>3. CASE ~ (m = l /\ j = k)
    <3>1. records'[m][j] = records[m][j]
      BY <1>1, <2>3 DEF IInv, TypeOK
    <3>2. QED
      BY <3>1, Fields
  <2>4. QED
    BY <2>2, <2>3
<1>5. ReleaseStep
  BY <1>1, <1>2 DEF ReleaseStep, IInv, TypeOK
<1>6. QED
  BY <1>3, <1>4, <1>5 DEF IInv

LEMMA AdoptIInv ==
  ASSUME IInv, NEW l \in Ledgers, NEW m \in Ledgers, NEW k \in Keys,
         NEW j \in Keys, Adopt(l, m, k, j)
  PROVE  IInv' /\ ReleaseStep
<1>. DEFINE t == StepAfterAdopt(step[l], step[m])
<1>1. /\ records' = [records EXCEPT ![m][j] = records[l][k]]
      /\ step' = [step EXCEPT ![m] = t]
      /\ sums' = [sums EXCEPT ![m][j] = sums[l][k]]
      /\ lowRun' = [lowRun EXCEPT ![m][j] = lowRun[l][k]]
      /\ ~ records[m][j].known
  BY DEF Adopt
<1>2. t \in Nat /\ step[l] <= t /\ step[m] <= t
  BY DEF StepAfterAdopt, IInv, TypeOK
<1>. HIDE DEF t
<1>3. TypeOK'
  BY <1>1, <1>2, Fields DEF IInv, TypeOK
<1>4. SoundInv'
  <2>1. SUFFICES ASSUME NEW n \in Ledgers, NEW i \in Keys
                 PROVE  Sound(records'[n][i], sums'[n][i], lowRun'[n][i], step'[n])
    BY DEF SoundInv
  <2>2. CASE n = m /\ i = j
    <3>1. /\ records'[n][i] = records[l][k] /\ sums'[n][i] = sums[l][k]
          /\ lowRun'[n][i] = lowRun[l][k] /\ step'[n] = t
      BY <1>1, <2>2 DEF IInv, TypeOK
    <3>2. Sound(records[l][k], sums[l][k], lowRun[l][k], t)
      BY <1>2, Fields, Later
    <3>3. QED
      BY <3>1, <3>2
  <2>3. CASE n = m /\ i # j
    <3>1. /\ records'[n][i] = records[n][i] /\ sums'[n][i] = sums[n][i]
          /\ lowRun'[n][i] = lowRun[n][i] /\ step'[n] = t
      BY <1>1, <2>3 DEF IInv, TypeOK
    <3>2. Sound(records[n][i], sums[n][i], lowRun[n][i], t)
      BY <1>2, <2>3, Fields, Later
    <3>3. QED
      BY <3>1, <3>2
  <2>4. CASE n # m
    <3>1. /\ records'[n][i] = records[n][i] /\ sums'[n][i] = sums[n][i]
          /\ lowRun'[n][i] = lowRun[n][i] /\ step'[n] = step[n]
      BY <1>1, <2>4 DEF IInv, TypeOK
    <3>2. QED
      BY <3>1, Fields
  <2>5. QED
    BY <2>2, <2>3, <2>4
<1>5. ReleaseStep
  <2>1. ~ records[m][j].protected
    BY <1>1, Fields
  <2>2. QED
    BY <1>1, <2>1 DEF ReleaseStep, IInv, TypeOK
<1>6. QED
  BY <1>3, <1>4, <1>5 DEF IInv

LEMMA SubsetIInv ==
  ASSUME IInv, NEW l \in Ledgers, NEW S \in SUBSET Keys, Subset(l, S)
  PROVE  IInv' /\ ReleaseStep
<1>1. TypeOK'
  BY AbsentSound, EmptySums DEF IInv, TypeOK, Subset
<1>2. ASSUME NEW m \in Ledgers, NEW j \in Keys
      PROVE  /\ Sound(records'[m][j], sums'[m][j], lowRun'[m][j], step'[m])
             /\ records'[m][j] \in {records[m][j], Absent}
  <2>1. step' = step
    BY DEF Subset
  <2>2. CASE m = l /\ j \notin S
    <3>1. /\ records'[m][j] = Absent /\ sums'[m][j] = <<>> /\ lowRun'[m][j] = 0
      BY <2>2 DEF Subset, IInv, TypeOK
    <3>2. step[m] \in Nat
      BY Fields
    <3>3. Sound(Absent, <<>>, 0, step[m])
      BY <3>2, AbsentSound
    <3>4. QED
      BY <2>1, <3>1, <3>3
  <2>3. CASE ~ (m = l /\ j \notin S)
    <3>1. /\ records'[m][j] = records[m][j] /\ sums'[m][j] = sums[m][j]
          /\ lowRun'[m][j] = lowRun[m][j]
      BY <2>3 DEF Subset, IInv, TypeOK
    <3>2. QED
      BY <2>1, <3>1, Fields
  <2>4. QED
    BY <2>2, <2>3
<1>3. SoundInv'
  BY <1>2 DEF SoundInv
<1>4. ReleaseStep
  <2>1. ~ Absent.known
    BY DEF Absent
  <2>2. QED
    BY <1>2, <2>1 DEF ReleaseStep
<1>5. QED
  BY <1>1, <1>3, <1>4 DEF IInv

LEMMA StepIInv == IInv /\ [Next]_vars => IInv' /\ (ReleaseStep \/ UNCHANGED vars)
<1>. SUFFICES ASSUME IInv, [Next]_vars
              PROVE  IInv' /\ (ReleaseStep \/ UNCHANGED vars)
  OBVIOUS
<1>1. CASE \E l \in Ledgers, k \in Keys, v \in Outcomes : Observe(l, k, v)
  BY <1>1, ObserveIInv
<1>2. CASE \E l \in Ledgers, k \in Keys : Status(l, k)
  BY <1>2, StatusIInv
<1>3. CASE \E l, m \in Ledgers, k, j \in Keys : Adopt(l, m, k, j)
  BY <1>3, AdoptIInv
<1>4. CASE \E l \in Ledgers, S \in SUBSET Keys : Subset(l, S)
  BY <1>4, SubsetIInv
<1>5. CASE UNCHANGED vars
  BY <1>5 DEF vars, IInv, TypeOK, SoundInv
<1>6. QED
  BY <1>1, <1>2, <1>3, <1>4, <1>5 DEF Next

(* The counters stay sound in every reachable state.                       *)
THEOREM Invariance == Spec => []IInv
BY InitIInv, StepIInv, PTL DEF Spec

-----------------------------------------------------------------------------
(* What the invariant says *)

(* Every state is well typed, whatever is observed, moved or dropped.      *)
THEOREM TypeCorrect == Spec => []TypeOK
<1>1. IInv => TypeOK
  BY DEF IInv
<1>2. QED
  BY <1>1, Invariance, PTL

(* The three evidence counters are enough to know that a protected          *)
(* capability had its mastered prefix, whichever ledger gathered it.        *)
THEOREM ProtectionIsEarned == Spec => []ProtectedWasMastered
<1>1. IInv => ProtectedWasMastered
  BY DEF IInv, SoundInv, Sound, Earned, AllReach, ProtectedWasMastered
<1>2. QED
  BY <1>1, Invariance, PTL

(* Enough evidence without a failing prefix is never left unprotected.      *)
THEOREM MasteryIsGranted == Spec => []MasteredIsProtected
<1>1. IInv => MasteredIsProtected
  BY DEF IInv, SoundInv, Sound, Counts, Earned, Mastered, AllReach,
         MasteredIsProtected
<1>2. QED
  BY <1>1, Invariance, PTL

(* Adoption moves the destination's step past every record it holds.        *)
THEOREM StepsBoundRecords == Spec => []RecordsNotFromTheFuture
<1>1. IInv => RecordsNotFromTheFuture
  BY DEF IInv, SoundInv, Sound, RecordsNotFromTheFuture
<1>2. QED
  BY <1>1, Invariance, PTL

(* observe alone releases, after Patience low outcomes in a row.            *)
THEOREM ReleaseIsEarned == Spec => ReleasedOnlyByStreak
<1>1. IInv /\ [Next]_vars => [ReleaseStep]_vars
  BY StepIInv
<1>2. Spec => [][ReleaseStep]_vars
  BY <1>1, Invariance, PTL DEF Spec
<1>3. QED
  BY <1>2 DEF ReleaseStep, ReleasedOnlyByStreak
=============================================================================
