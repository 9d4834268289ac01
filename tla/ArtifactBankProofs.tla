------------------------- MODULE ArtifactBankProofs -------------------------
(***************************************************************************)
(* Proofs about ArtifactBank, for any keys, any capacity, any number of    *)
(* rows, artifacts and manifest versions, and any faults.                  *)
(*                                                                         *)
(* The invariant IInv says of every moment inside a save which files it    *)
(* has written; of the manifests, in memory and on disk, that the files    *)
(* they name were written before them and never since; and of a foreign    *)
(* row, that the process stopped while rows.pt was ahead of the manifest.  *)
(***************************************************************************)
EXTENDS ArtifactBank, FiniteSetTheorems, WellFoundedInduction, TLAPS

-----------------------------------------------------------------------------
(* Rows and entries *)

(* A set of natural numbers has a least one.                               *)
LEMMA LeastOf ==
  ASSUME NEW T \in SUBSET Nat, T # {}
  PROVE  \E x \in T : \A y \in T : x <= y
<1>. DEFINE R == OpToRel(<, Nat)
<1>1. \A x, y \in Nat : y < x => <<y, x>> \in R
  BY DEF OpToRel
<1>2. IsWellFoundedOn(R, Nat)
  BY NatLessThanWellFounded
<1>. HIDE DEF R
<1>3. PICK x \in T : \A y \in T : ~ (<<y, x>> \in R)
  BY <1>2, WFMin
<1>4. QED
  <2>1. \A y \in T : ~ (y < x)
    BY <1>1, <1>3, Zenon
  <2>2. QED
    BY <2>1

(* An entry that was written over matches the key of another entry.        *)
LEMMA LostToMatch ==
  ASSUME NEW N \in Nat, NEW key, DOMAIN key = 1 .. N, NEW p \in Placements(key),
         NEW i \in 1 .. N, i \notin Standing(p, 1 .. N)
  PROVE  \E h \in 1 .. N : h # i /\ <<key[i], key[h]>> \in Near
<1>. DEFINE T == {h \in 1 .. N : h > i /\ p[h] = p[i]}
<1>1. T # {} /\ \A h \in T : h \in 1 .. N /\ h > i /\ p[h] = p[i]
  BY DEF Standing
<1>2. \A h \in 1 .. N : h > i /\ p[h] = p[i] => h \in T
  OBVIOUS
<1>3. T \in SUBSET Nat
  OBVIOUS
<1>. HIDE DEF T
<1>4. PICK h \in T : \A g \in T : h <= g
  BY <1>1, <1>3, LeastOf
<1>5. h \in 1 .. N /\ h > i /\ p[h] = p[i] /\ h # i
  BY <1>1
<1>. DEFINE before == {g \in 1 .. N : g < h}
<1>6. /\ i \in before
      /\ \A g \in before : g > i => p[g] # p[i]
  BY <1>2, <1>4, <1>5
<1>7. i \in Standing(p, before)
  BY <1>6 DEF Standing
<1>8. LET match == Matching(key, Standing(p, before), key[h])
      IN \/ \E m \in match : p[h] = p[m]
         \/ match = {} /\ FirstFree(p[h], {p[g] : g \in before})
  BY <1>5 DEF Placements
<1>9. p[h] \in {p[g] : g \in before}
  BY <1>5, <1>6
<1>10. PICK m \in Matching(key, Standing(p, before), key[h]) : p[h] = p[m]
  BY <1>8, <1>9 DEF FirstFree
<1>11. m \in Standing(p, before) /\ <<key[m], key[h]>> \in Near
  BY <1>10 DEF Matching
<1>12. m = i
  <2>1. m \in before /\ m \in 1 .. N /\ p[m] = p[i]
    BY <1>5, <1>10, <1>11 DEF Standing
  <2>2. ~ (m > i) /\ ~ (i > m)
    BY <1>6, <1>7, <1>11, <2>1 DEF Standing
  <2>3. QED
    BY <2>1, <2>2
<1>13. QED
  BY <1>5, <1>11, <1>12

(* Every row of the new bank has the last entry put there, and every entry *)
(* that stands has a row.                                                  *)
LEMMA HolderFacts ==
  ASSUME NEW N \in Nat, NEW p, DOMAIN p = 1 .. N
  PROVE  /\ \A i : Holder(p, i) # 0 =>
                     Holder(p, i) \in 1 .. N /\ p[Holder(p, i)] = i
         /\ \A j \in Standing(p, 1 .. N) : Holder(p, p[j]) = j
<1>1. ASSUME NEW i, Holder(p, i) # 0
      PROVE  Holder(p, i) \in 1 .. N /\ p[Holder(p, i)] = i
  <2>. DEFINE last == {j \in Standing(p, 1 .. N) : p[j] = i}
  <2>1. last # {} /\ Holder(p, i) = CHOOSE j \in last : TRUE
    BY <1>1 DEF Holder
  <2>2. Holder(p, i) \in last
    BY <2>1
  <2>3. QED
    BY <2>2 DEF Standing
<1>2. ASSUME NEW j \in Standing(p, 1 .. N) PROVE Holder(p, p[j]) = j
  <2>. DEFINE last == {g \in Standing(p, 1 .. N) : p[g] = p[j]}
  <2>1. ASSUME NEW g \in last PROVE g = j
    <3>1. g \in 1 .. N /\ j \in 1 .. N /\ p[g] = p[j]
      BY DEF Standing
    <3>2. ~ (g > j) /\ ~ (j > g)
      BY <3>1 DEF Standing
    <3>3. QED
      BY <3>1, <3>2
  <2>2. j \in last
    OBVIOUS
  <2>3. Holder(p, p[j]) = CHOOSE g \in last : TRUE
    BY <2>2 DEF Holder
  <2>4. QED
    BY <2>1, <2>2, <2>3
<1>3. QED
  BY <1>1, <1>2

(* Where no entry was written over, all of them stand, and the first is in *)
(* the first row.                                                          *)
LEMMA OneRowStands ==
  ASSUME NEW N \in Nat, NEW p, DOMAIN p = 1 .. N, OneRowEach(p)
  PROVE  Standing(p, 1 .. N) = 1 .. N
<1>1. \A i, h \in 1 .. N : h > i => p[h] # p[i]
  BY DEF OneRowEach
<1>2. QED
  BY <1>1 DEF Standing

LEMMA PlacedFirst ==
  ASSUME NEW N \in Nat, NEW key, DOMAIN key = 1 .. N, NEW p \in Placements(key)
  PROVE  p \in [1 .. N -> 1 .. N] /\ (1 \in 1 .. N => p[1] = 1)
<1>1. p \in [1 .. N -> 1 .. N]
  BY DEF Placements
<1>2. ASSUME 1 \in 1 .. N PROVE p[1] = 1
  <2>. DEFINE before == {g \in 1 .. N : g < 1}
              match  == Matching(key, Standing(p, before), key[1])
  <2>1. \/ \E m \in match : p[1] = p[m]
        \/ match = {} /\ FirstFree(p[1], {p[g] : g \in before})
    BY <1>2 DEF Placements
  <2>2. before = {}
    OBVIOUS
  <2>3. match = {}
    BY <2>2 DEF Matching, Standing
  <2>4. {p[g] : g \in before} = {}
    BY <2>2
  <2>5. 1 .. (p[1] - 1) \subseteq {}
    BY <2>1, <2>3, <2>4 DEF FirstFree
  <2>6. p[1] \in 1 .. N
    BY <1>1, <1>2
  <2>. HIDE DEF before, match
  <2>7. ~ (p[1] > 1)
    <3>1. p[1] > 1 => 1 \in 1 .. (p[1] - 1)
      BY <2>6
    <3>2. QED
      BY <2>5, <3>1
  <2>8. QED
    BY <2>6, <2>7
<1>3. QED
  BY <1>1, <1>2

-----------------------------------------------------------------------------
(* The order of the rows *)

LEMMA SizeOfRows ==
  ASSUME NEW S \in SUBSET Rows
  PROVE  IsFiniteSet(S) /\ Cardinality(S) \in Nat /\ Cardinality(S) <= MaxRows
<1>1. MaxRows \in Nat \ {0} /\ 1 \in Int /\ MaxRows \in Int
  BY BankAssumption
<1>2. IsFiniteSet(Rows) /\ Cardinality(Rows) = MaxRows
  BY <1>1, FS_Interval DEF Rows
<1>3. IsFiniteSet(S) /\ Cardinality(S) <= Cardinality(Rows)
  BY <1>2, FS_Subset
<1>4. QED
  BY <1>2, <1>3, FS_CardinalityType

LEMMA RankIsInjective ==
  ASSUME NEW S \in SUBSET Rows, NEW i \in S, NEW j \in S, i < j
  PROVE  Rank(S, i) < Rank(S, j)
<1>1. Rows \subseteq Nat
  BY DEF Rows
<1>. DEFINE I == {x \in S : x <= i}
            J == {x \in S : x <= j}
<1>2. I \in SUBSET J /\ I # J
  <2>1. i \in Nat /\ j \in Nat /\ S \subseteq Nat
    BY <1>1
  <2>2. j \in J /\ j \notin I
    BY <2>1
  <2>3. \A x \in S : x <= i => x <= j
    BY <2>1
  <2>4. QED
    BY <2>2, <2>3
<1>3. I \in SUBSET Rows /\ J \in SUBSET Rows
  OBVIOUS
<1>4. /\ IsFiniteSet(J) /\ Cardinality(I) \in Nat /\ Cardinality(J) \in Nat
  BY <1>3, SizeOfRows
<1>. HIDE DEF I, J
<1>5. Cardinality(I) <= Cardinality(J) /\ Cardinality(I) # Cardinality(J)
  BY <1>2, <1>4, FS_Subset
<1>6. Cardinality(I) < Cardinality(J)
  BY <1>4, <1>5
<1>7. QED
  BY <1>6 DEF I, J, Rank

LEMMA RankRange ==
  ASSUME NEW S \in SUBSET Rows, NEW i \in S
  PROVE  Rank(S, i) \in 1 .. Cardinality(S)
<1>. DEFINE I == {x \in S : x <= i}
<1>1. I \in SUBSET S /\ I \in SUBSET Rows /\ i \in I
  <2>1. i \in Nat
    BY BankAssumption DEF Rows
  <2>2. i <= i
    BY <2>1
  <2>3. i \in I
    BY <2>2
  <2>4. I \in SUBSET S
    OBVIOUS
  <2>5. QED
    BY <2>3, <2>4
<1>. HIDE DEF I
<1>2. /\ IsFiniteSet(S) /\ Cardinality(S) \in Nat
      /\ IsFiniteSet(I) /\ Cardinality(I) \in Nat
  BY <1>1, SizeOfRows
<1>3. Cardinality(I) <= Cardinality(S)
  BY <1>1, <1>2, FS_Subset
<1>4. Cardinality(I) # 0
  BY <1>1, <1>2, FS_EmptySet
<1>5. Cardinality(I) \in 1 .. Cardinality(S)
  BY <1>2, <1>3, <1>4
<1>6. QED
  BY <1>5 DEF I, Rank

LEMMA RanksDiffer ==
  ASSUME NEW S \in SUBSET Rows, NEW i \in S, NEW j \in S, Rank(S, i) = Rank(S, j)
  PROVE  i = j
<1>1. i \in Nat /\ j \in Nat
  BY DEF Rows
<1>2. Rank(S, i) \in Nat /\ Rank(S, j) \in Nat
  BY RankRange, SizeOfRows
<1>3. CASE i < j
  BY <1>2, <1>3, RankIsInjective
<1>4. CASE j < i
  BY <1>2, <1>4, RankIsInjective
<1>5. QED
  BY <1>1, <1>3, <1>4

(* A row of S is found by its rank, and every rank up to the size of S is  *)
(* that of a row.                                                          *)
LEMMA NthOfRank ==
  ASSUME NEW S \in SUBSET Rows
  PROVE  /\ \A j \in 1 .. Cardinality(S) : Nth(S, j) \in S
         /\ \A i \in S : Nth(S, Rank(S, i)) = i
<1>. DEFINE T == 1 .. Cardinality(S)
            f == [i \in S |-> Rank(S, i)]
<1>1. IsFiniteSet(S) /\ Cardinality(S) \in Nat
  BY SizeOfRows
<1>2. IsFiniteSet(T) /\ Cardinality(T) = Cardinality(S)
  BY <1>1, FS_Interval
<1>3. f \in [S -> T]
  BY RankRange
<1>4. \A i, j \in S : f[i] = f[j] => i = j
  BY RanksDiffer
<1>5. f \in Injection(S, T)
  BY <1>3, <1>4 DEF Injection, IsInjective
<1>6. f \in Surjection(S, T)
  BY <1>1, <1>2, <1>5, FS_Injection
<1>7. \A j \in T : \E i \in S : f[i] = j
  BY <1>6 DEF Surjection
<1>8. ASSUME NEW j \in T PROVE Nth(S, j) \in S
  <2>1. \E i \in S : Rank(S, i) = j
    BY <1>7, <1>8
  <2>2. QED
    BY <2>1 DEF Nth
<1>9. ASSUME NEW i \in S PROVE Nth(S, Rank(S, i)) = i
  <2>1. \E x \in S : Rank(S, x) = Rank(S, i)
    OBVIOUS
  <2>2. Nth(S, Rank(S, i)) \in S /\ Rank(S, Nth(S, Rank(S, i))) = Rank(S, i)
    BY <2>1 DEF Nth
  <2>3. QED
    BY <2>2, RanksDiffer
<1>10. QED
  BY <1>8, <1>9

LEMMA InOrderOrders ==
  ASSUME NEW S \in SUBSET Rows
  PROVE  InOrder(S) \in Orders(S)
<1>1. \A j \in 1 .. Cardinality(S) : Nth(S, j) \in S
  BY NthOfRank
<1>2. InOrder(S) \in [1 .. Cardinality(S) -> S]
  BY <1>1 DEF InOrder
<1>3. ASSUME NEW i \in S PROVE \E j \in DOMAIN InOrder(S) : InOrder(S)[j] = i
  <2>1. Rank(S, i) \in 1 .. Cardinality(S) /\ Nth(S, Rank(S, i)) = i
    BY NthOfRank, RankRange
  <2>2. QED
    BY <2>1 DEF InOrder
<1>4. QED
  BY <1>2, <1>3 DEF Orders

(* An order of S has each row of S once.                                   *)
LEMMA OrderFacts ==
  ASSUME NEW S \in SUBSET Rows, NEW q \in Orders(S)
  PROVE  /\ Cardinality(S) \in Nat /\ Cardinality(S) <= MaxRows
         /\ DOMAIN q = 1 .. Cardinality(S)
         /\ \A j \in 1 .. Cardinality(S) : q[j] \in S
         /\ \A i \in S : \E j \in 1 .. Cardinality(S) : q[j] = i
         /\ \A j, h \in 1 .. Cardinality(S) : q[j] = q[h] => j = h
<1>1. IsFiniteSet(S) /\ Cardinality(S) \in Nat /\ Cardinality(S) <= MaxRows
  BY SizeOfRows
<1>. DEFINE D == 1 .. Cardinality(S)
<1>2. /\ q \in [D -> S] /\ DOMAIN q = D
      /\ \A i \in S : \E j \in D : q[j] = i
  BY DEF Orders
<1>3. IsFiniteSet(D) /\ Cardinality(D) = Cardinality(S)
  BY <1>1, FS_Interval
<1>. HIDE DEF D
<1>4. q \in Surjection(D, S)
  BY <1>2 DEF Surjection
<1>5. q \in Injection(D, S)
  BY <1>3, <1>4, FS_Surjection
<1>6. \A j, h \in D : q[j] = q[h] => j = h
  BY <1>5 DEF Injection, IsInjective
<1>7. QED
  BY <1>1, <1>2, <1>6 DEF D

-----------------------------------------------------------------------------
(* The invariant *)

(* What is left of a save after each of its steps.                         *)
AfterRows      == <<"truncate", "evidence", "manifest", "checksum">>
AfterTruncate  == <<"evidence", "manifest", "checksum">>
AfterEvidence  == <<"manifest", "checksum">>
AfterManifest  == <<"checksum">>
AfterRetentionTruncate == <<"evidence">>
Done           == <<>>

RetentionSaves == {SaveRetention, AfterRetentionTruncate}
FullSaves      == {Save, AfterRows, AfterTruncate, AfterEvidence, AfterManifest}

(* The manifest names files that were there before it, with what it says.  *)
Intact(m) ==
  \A i \in Rows :
    /\ m.path[i] <= m.version
    /\ m.path[i] # 0 =>
         m.hash[i] \in Contents /\ files[m.path[i]] = m.hash[i]

(* Every row has an artifact.                                              *)
Covers(m, r) == \A i \in Rows : r[i] # Nothing => m.path[i] # 0

MemoryInv ==
  /\ todo \in RetentionSaves \union FullSaves \union {Done}
  /\ Intact(manifest) /\ Covers(manifest, rows)
  /\ exposed \subseteq dirty
  /\ up # "up" =>
       /\ rows = NoRows /\ manifest = NewManifest /\ evidence = NoEvidence
       /\ hot = NoRows /\ todo = Done /\ dirty = {} /\ exposed = {}

DiskInv ==
  diskManifest # Nothing =>
    /\ Intact(diskManifest)
    /\ up = "up" =>
         /\ diskManifest.version <= manifest.version
         /\ \A i \in Rows \ dirty : manifest.hash[i] = diskManifest.hash[i]

(* What the save under way has written already.                            *)
WrittenInv ==
  /\ todo \in FullSaves \ {Save} => diskRows = rows
  /\ todo \in {AfterEvidence, AfterManifest} => diskEvidence = evidence
  /\ todo = AfterManifest => diskManifest = manifest

(* What was written before, if nothing was cut short.                      *)
Synced ==
  /\ diskManifest # Nothing =>
       /\ diskRows = rows /\ diskManifest = manifest
       /\ checksum \in {Nothing, manifest}
  /\ manifest.version > 0 => diskManifest # Nothing

EvidenceSynced ==
  diskEvidence # Torn
    /\ evidence = (IF diskEvidence = Nothing THEN NoEvidence ELSE diskEvidence)

SyncInv ==
  up = "up" /\ ~ interrupted =>
    /\ todo \in RetentionSaves \union {Done} => Synced
    /\ todo = Done => EvidenceSynced

DownInv ==
  /\ up = "down" /\ ~ interrupted /\ diskManifest # Nothing => Loadable
  /\ RefusedOnlyAfterInterruption

(* Only rows that were cut serve a foreign artifact, or will after a load; *)
(* those exposed would be cut if the process stopped now.                  *)
ForeignInv ==
  /\ \A i \in Rows : Foreign(i) => i \in cut /\ i \notin dirty
  /\ diskRows # Nothing /\ diskManifest # Nothing =>
       \A i \in Rows :
         diskRows[i] # Nothing /\ diskManifest.path[i] # 0
           /\ diskManifest.hash[i].key # diskRows[i] => i \in cut \union exposed

IInv ==
  /\ TypeOK /\ MemoryInv /\ DiskInv /\ WrittenInv /\ SyncInv /\ DownInv
  /\ ForeignInv /\ HotIsCurrent

-----------------------------------------------------------------------------
(* Saving *)

LEMMA Suffixes ==
  /\ Done \notin RetentionSaves \union FullSaves
  /\ RetentionSaves \intersect FullSaves = {}
  /\ SaveRetention # AfterRetentionTruncate
  /\ Save \notin {AfterRows, AfterTruncate, AfterEvidence, AfterManifest}
  /\ AfterRows \notin {AfterTruncate, AfterEvidence, AfterManifest}
  /\ AfterTruncate \notin {AfterEvidence, AfterManifest}
  /\ AfterEvidence # AfterManifest
<1>. DEFINE Length(s) == Len(s)
            First(s) == s[1]
<1>1. /\ Length(Save) = 5 /\ Length(AfterRows) = 4 /\ Length(AfterTruncate) = 3
      /\ Length(AfterEvidence) = 2 /\ Length(AfterManifest) = 1 /\ Length(Done) = 0
      /\ Length(SaveRetention) = 2 /\ Length(AfterRetentionTruncate) = 1
  BY DEF Save, AfterRows, AfterTruncate, AfterEvidence, AfterManifest, Done,
     SaveRetention, AfterRetentionTruncate
<1>2. /\ First(AfterEvidence) = "manifest" /\ First(SaveRetention) = "truncate"
      /\ First(AfterManifest) = "checksum"
      /\ First(AfterRetentionTruncate) = "evidence"
  BY DEF AfterEvidence, AfterManifest, SaveRetention, AfterRetentionTruncate
<1>. HIDE DEF Length, First
<1>3. Done \notin RetentionSaves \union FullSaves
  BY <1>1 DEF RetentionSaves, FullSaves
<1>4. SaveRetention # AfterEvidence /\ AfterRetentionTruncate # AfterManifest
  BY <1>2
<1>5. SaveRetention \notin FullSaves /\ AfterRetentionTruncate \notin FullSaves
  BY <1>1, <1>4 DEF FullSaves
<1>6. RetentionSaves \intersect FullSaves = {}
  BY <1>5 DEF RetentionSaves
<1>7. QED
  BY <1>1, <1>3, <1>6

LEMMA Heads ==
  /\ Head(Save) = "rows" /\ Tail(Save) = AfterRows
  /\ Head(AfterRows) = "truncate" /\ Tail(AfterRows) = AfterTruncate
  /\ Head(AfterTruncate) = "evidence" /\ Tail(AfterTruncate) = AfterEvidence
  /\ Head(AfterEvidence) = "manifest" /\ Tail(AfterEvidence) = AfterManifest
  /\ Head(AfterManifest) = "checksum" /\ Tail(AfterManifest) = Done
  /\ Head(SaveRetention) = "truncate"
  /\ Tail(SaveRetention) = AfterRetentionTruncate
  /\ Head(AfterRetentionTruncate) = "evidence"
  /\ Tail(AfterRetentionTruncate) = Done
BY DEF Save, AfterRows, AfterTruncate, AfterEvidence, AfterManifest, Done,
     SaveRetention, AfterRetentionTruncate

LEMMA StepsInOrder ==
  ASSUME MemoryInv
  PROVE  /\ Next1("rows") => todo = Save /\ todo' = AfterRows
         /\ Next1("truncate") =>
              \/ todo = AfterRows /\ todo' = AfterTruncate
              \/ todo = SaveRetention /\ todo' = AfterRetentionTruncate
         /\ Next1("evidence") =>
              \/ todo = AfterTruncate /\ todo' = AfterEvidence
              \/ todo = AfterRetentionTruncate /\ todo' = Done
         /\ Next1("manifest") => todo = AfterEvidence /\ todo' = AfterManifest
         /\ Next1("checksum") => todo = AfterManifest /\ todo' = Done
<1>1. ASSUME NEW step, Next1(step)
      PROVE  todo \in RetentionSaves \union FullSaves /\ Head(todo) = step
             /\ todo' = Tail(todo)
  BY <1>1 DEF Next1, MemoryInv, Done
<1>2. QED
  BY <1>1, Heads DEF RetentionSaves, FullSaves

LEMMA TodoTyped ==
  ASSUME NEW t \in RetentionSaves \union FullSaves \union {Done}
  PROVE  t \in Seq(SaveSteps)
<1>1. /\ Save \in Seq(SaveSteps) /\ AfterRows \in Seq(SaveSteps)
      /\ AfterTruncate \in Seq(SaveSteps) /\ AfterEvidence \in Seq(SaveSteps)
      /\ AfterManifest \in Seq(SaveSteps) /\ Done \in Seq(SaveSteps)
  BY DEF Save, AfterRows, AfterTruncate, AfterEvidence, AfterManifest, Done,
     SaveSteps
<1>2. /\ SaveRetention \in Seq(SaveSteps)
      /\ AfterRetentionTruncate \in Seq(SaveSteps)
  BY DEF SaveRetention, AfterRetentionTruncate, SaveSteps
<1>3. QED
  BY <1>1, <1>2 DEF RetentionSaves, FullSaves

LEMMA WriteRowsKeeps == ASSUME IInv, WriteRows PROVE IInv'
<1>1. up = "up" /\ todo' \in RetentionSaves \union FullSaves \union {Done}
  BY StepsInOrder DEF IInv, WriteRows, Next1, FullSaves
<1>2. TypeOK'
  BY <1>1, TodoTyped DEF IInv, TypeOK, WriteRows, memoryVars
<1>3. MemoryInv'
  BY <1>1 DEF IInv, MemoryInv, Intact, WriteRows, memoryVars
<1>4. DiskInv'
  BY DEF IInv, DiskInv, Intact, WriteRows, memoryVars
<1>5. WrittenInv'
  BY StepsInOrder, Suffixes DEF IInv, WrittenInv, WriteRows, memoryVars
<1>6. SyncInv'
  BY StepsInOrder, Suffixes DEF IInv, SyncInv, WriteRows, FullSaves
<1>7. DownInv'
  BY <1>1 DEF DownInv, WriteRows, RefusedOnlyAfterInterruption
<1>8. ForeignInv'
  BY <1>1 DEF IInv, DiskInv, ForeignInv, Foreign, WriteRows, memoryVars
<1>9. HotIsCurrent'
  BY DEF IInv, HotIsCurrent, WriteRows, memoryVars
<1>10. QED
  BY <1>2, <1>3, <1>4, <1>5, <1>6, <1>7, <1>8, <1>9 DEF IInv

LEMMA TruncateRetentionKeeps == ASSUME IInv, TruncateRetention PROVE IInv'
<1>1. up = "up" /\ todo' \in RetentionSaves \union FullSaves \union {Done}
  BY StepsInOrder DEF IInv, TruncateRetention, Next1, RetentionSaves, FullSaves
<1>2. TypeOK'
  BY <1>1, TodoTyped DEF IInv, TypeOK, TruncateRetention, memoryVars, histVars
<1>3. MemoryInv'
  BY <1>1 DEF IInv, MemoryInv, Intact, TruncateRetention, memoryVars, histVars
<1>4. DiskInv'
  BY DEF IInv, DiskInv, Intact, TruncateRetention, memoryVars, histVars
<1>5. WrittenInv'
  BY StepsInOrder, Suffixes
  DEF IInv, WrittenInv, TruncateRetention, memoryVars, RetentionSaves,
      FullSaves
<1>6. SyncInv'
  BY StepsInOrder, Suffixes
  DEF IInv, SyncInv, Synced, TruncateRetention, memoryVars, histVars,
      RetentionSaves, FullSaves
<1>7. DownInv'
  BY <1>1 DEF DownInv, TruncateRetention, RefusedOnlyAfterInterruption
<1>8. ForeignInv'
  BY DEF IInv, ForeignInv, Foreign, TruncateRetention, memoryVars, histVars
<1>9. HotIsCurrent'
  BY DEF IInv, HotIsCurrent, TruncateRetention, memoryVars
<1>10. QED
  BY <1>2, <1>3, <1>4, <1>5, <1>6, <1>7, <1>8, <1>9 DEF IInv

LEMMA WriteRetentionKeeps == ASSUME IInv, WriteRetention PROVE IInv'
<1>1. up = "up" /\ todo' \in RetentionSaves \union FullSaves \union {Done}
  BY StepsInOrder DEF IInv, WriteRetention, Next1, FullSaves
<1>2. TypeOK'
  BY <1>1, TodoTyped DEF IInv, TypeOK, WriteRetention, memoryVars, histVars
<1>3. MemoryInv'
  BY <1>1 DEF IInv, MemoryInv, Intact, WriteRetention, memoryVars, histVars
<1>4. DiskInv'
  BY DEF IInv, DiskInv, Intact, WriteRetention, memoryVars, histVars
<1>5. WrittenInv'
  BY StepsInOrder, Suffixes
  DEF IInv, WrittenInv, WriteRetention, memoryVars, FullSaves
<1>6. SyncInv'
  BY StepsInOrder, Suffixes, BankAssumption
  DEF IInv, TypeOK, SyncInv, Synced, EvidenceSynced, WriteRetention,
      memoryVars, histVars, RetentionSaves, FullSaves
<1>7. DownInv'
  BY <1>1 DEF DownInv, WriteRetention, RefusedOnlyAfterInterruption
<1>8. ForeignInv'
  BY DEF IInv, ForeignInv, Foreign, WriteRetention, memoryVars, histVars
<1>9. HotIsCurrent'
  BY DEF IInv, HotIsCurrent, WriteRetention, memoryVars
<1>10. QED
  BY <1>2, <1>3, <1>4, <1>5, <1>6, <1>7, <1>8, <1>9 DEF IInv

LEMMA WriteManifestKeeps == ASSUME IInv, WriteManifest PROVE IInv'
<1>1. up = "up" /\ todo' \in RetentionSaves \union FullSaves \union {Done}
  BY StepsInOrder DEF IInv, WriteManifest, Next1, FullSaves
<1>2. TypeOK'
  BY <1>1, TodoTyped DEF IInv, TypeOK, WriteManifest, memoryVars
<1>3. MemoryInv'
  BY <1>1 DEF IInv, MemoryInv, Intact, WriteManifest, memoryVars
<1>4. DiskInv'
  BY DEF IInv, TypeOK, MemoryInv, DiskInv, Intact, Manifests, WriteManifest,
     memoryVars
<1>5. WrittenInv'
  BY StepsInOrder, Suffixes
  DEF IInv, WrittenInv, WriteManifest, memoryVars, FullSaves
<1>6. SyncInv'
  BY StepsInOrder, Suffixes DEF IInv, SyncInv, WriteManifest, FullSaves
<1>7. DownInv'
  BY <1>1 DEF DownInv, WriteManifest, RefusedOnlyAfterInterruption
<1>8. ForeignInv'
  BY StepsInOrder, Suffixes
  DEF IInv, WrittenInv, ForeignInv, Foreign, WriteManifest, memoryVars,
      FullSaves
<1>9. HotIsCurrent'
  BY DEF IInv, HotIsCurrent, WriteManifest, memoryVars
<1>10. QED
  BY <1>2, <1>3, <1>4, <1>5, <1>6, <1>7, <1>8, <1>9 DEF IInv

LEMMA WriteChecksumKeeps == ASSUME IInv, WriteChecksum PROVE IInv'
<1>1. up = "up" /\ todo' \in RetentionSaves \union FullSaves \union {Done}
  BY StepsInOrder DEF IInv, WriteChecksum, Next1
<1>2. TypeOK'
  BY <1>1, TodoTyped DEF IInv, TypeOK, WriteChecksum, memoryVars
<1>3. MemoryInv'
  BY <1>1 DEF IInv, MemoryInv, Intact, WriteChecksum, memoryVars
<1>4. DiskInv'
  BY DEF IInv, DiskInv, Intact, WriteChecksum, memoryVars
<1>5. WrittenInv'
  BY StepsInOrder, Suffixes DEF IInv, WrittenInv, WriteChecksum, memoryVars
<1>6. SyncInv'
  BY StepsInOrder, Suffixes, BankAssumption
  DEF IInv, TypeOK, WrittenInv, SyncInv, Synced, EvidenceSynced, WriteChecksum,
      memoryVars, FullSaves
<1>7. DownInv'
  BY <1>1 DEF DownInv, WriteChecksum, RefusedOnlyAfterInterruption
<1>8. ForeignInv'
  BY DEF IInv, ForeignInv, Foreign, WriteChecksum, memoryVars
<1>9. HotIsCurrent'
  BY DEF IInv, HotIsCurrent, WriteChecksum, memoryVars
<1>10. QED
  BY <1>2, <1>3, <1>4, <1>5, <1>6, <1>7, <1>8, <1>9 DEF IInv

LEMMA WriteRaisesKeeps == ASSUME IInv, WriteRaises PROVE IInv'
<1>1. todo' \in RetentionSaves \union FullSaves \union {Done}
  BY DEF WriteRaises, Done
<1>2. TypeOK'
  BY DEF IInv, TypeOK, WriteRaises, memoryVars, diskVars
<1>3. MemoryInv'
  BY <1>1 DEF IInv, MemoryInv, Intact, WriteRaises, memoryVars, diskVars
<1>4. DiskInv'
  BY DEF IInv, DiskInv, Intact, WriteRaises, memoryVars, diskVars
<1>5. WrittenInv'
  BY Suffixes DEF WrittenInv, WriteRaises, FullSaves, Done
<1>6. SyncInv'
  BY DEF SyncInv, WriteRaises
<1>7. DownInv'
  BY DEF DownInv, RefusedOnlyAfterInterruption, WriteRaises
<1>8. ForeignInv'
  BY DEF IInv, ForeignInv, Foreign, WriteRaises, memoryVars, diskVars
<1>9. HotIsCurrent'
  BY DEF IInv, HotIsCurrent, WriteRaises, memoryVars
<1>10. QED
  BY <1>2, <1>3, <1>4, <1>5, <1>6, <1>7, <1>8, <1>9 DEF IInv

-----------------------------------------------------------------------------
(* Evidence, the process cache, stopping and loading *)

LEMMA ObserveRetentionKeeps ==
  ASSUME IInv, NEW seen \in Observations(Keys), ObserveRetention(seen)
  PROVE  IInv'
<1>1. todo' \in RetentionSaves \union FullSaves \union {Done}
  BY DEF ObserveRetention, RetentionSaves
<1>2. TypeOK'
  BY <1>1, TodoTyped, BankAssumption
  DEF IInv, TypeOK, ObserveRetention, Observed, histVars, diskVars, Evidence,
      Observations
<1>3. MemoryInv'
  BY <1>1
  DEF IInv, MemoryInv, Intact, ObserveRetention, Idle, histVars, diskVars
<1>4. DiskInv'
  BY DEF IInv, DiskInv, Intact, ObserveRetention, histVars, diskVars
<1>5. WrittenInv'
  BY Suffixes DEF WrittenInv, ObserveRetention, RetentionSaves, FullSaves
<1>6. SyncInv'
  BY Suffixes
  DEF IInv, SyncInv, Synced, ObserveRetention, Idle, histVars, diskVars,
      RetentionSaves, Done
<1>7. DownInv'
  BY DEF DownInv, RefusedOnlyAfterInterruption, ObserveRetention, Idle
<1>8. ForeignInv'
  BY DEF IInv, ForeignInv, Foreign, ObserveRetention, histVars, diskVars
<1>9. HotIsCurrent'
  BY DEF IInv, HotIsCurrent, ObserveRetention
<1>10. QED
  BY <1>2, <1>3, <1>4, <1>5, <1>6, <1>7, <1>8, <1>9 DEF IInv

LEMMA PromoteKeeps == ASSUME IInv, NEW i \in Rows, Promote(i) PROVE IInv'
<1>1. todo' \in RetentionSaves \union FullSaves \union {Done}
  BY DEF IInv, MemoryInv, Promote
<1>2. TypeOK'
  BY DEF IInv, TypeOK, Promote, Occupied, Verified, histVars, diskVars,
     Manifests
<1>3. MemoryInv'
  BY DEF IInv, MemoryInv, Intact, Promote, Idle, histVars, diskVars
<1>4. DiskInv'
  BY DEF IInv, DiskInv, Intact, Promote, histVars, diskVars
<1>5. WrittenInv'
  BY DEF IInv, WrittenInv, Promote, diskVars
<1>6. SyncInv'
  BY DEF IInv, SyncInv, Synced, EvidenceSynced, Promote, histVars, diskVars
<1>7. DownInv'
  BY DEF DownInv, RefusedOnlyAfterInterruption, Promote, Idle
<1>8. ForeignInv'
  BY DEF IInv, ForeignInv, Foreign, Promote, histVars, diskVars
<1>9. HotIsCurrent'
  BY DEF IInv, MemoryInv, HotIsCurrent, Intact, Covers, Promote, Occupied
<1>10. QED
  BY <1>2, <1>3, <1>4, <1>5, <1>6, <1>7, <1>8, <1>9 DEF IInv

LEMMA EvictHotKeeps == ASSUME IInv, NEW S \in SUBSET Rows, EvictHot(S) PROVE IInv'
<1>1. todo' \in RetentionSaves \union FullSaves \union {Done}
  BY DEF IInv, MemoryInv, EvictHot
<1>2. TypeOK'
  BY DEF IInv, TypeOK, EvictHot, histVars, diskVars
<1>3. MemoryInv'
  BY DEF IInv, MemoryInv, Intact, EvictHot, Idle, histVars, diskVars
<1>4. DiskInv'
  BY DEF IInv, DiskInv, Intact, EvictHot, histVars, diskVars
<1>5. WrittenInv'
  BY DEF IInv, WrittenInv, EvictHot, diskVars
<1>6. SyncInv'
  BY DEF IInv, SyncInv, Synced, EvidenceSynced, EvictHot, histVars, diskVars
<1>7. DownInv'
  BY DEF DownInv, RefusedOnlyAfterInterruption, EvictHot, Idle
<1>8. ForeignInv'
  BY DEF IInv, ForeignInv, Foreign, EvictHot, histVars, diskVars
<1>9. HotIsCurrent'
  BY DEF IInv, HotIsCurrent, EvictHot
<1>10. QED
  BY <1>2, <1>3, <1>4, <1>5, <1>6, <1>7, <1>8, <1>9 DEF IInv

LEMMA StopKeeps == ASSUME IInv, Stop PROVE IInv'
<1>1. todo' \in RetentionSaves \union FullSaves \union {Done}
  BY DEF Stop, Done
<1>2. TypeOK'
  BY BankAssumption
  DEF IInv, TypeOK, Stop, diskVars, Evidence, NoRows, NoEvidence, NewManifest,
      Manifests
<1>3. MemoryInv'
  BY DEF MemoryInv, Intact, Covers, Stop, NoRows, NewManifest, Done
<1>4. DiskInv'
  BY DEF IInv, DiskInv, Intact, Stop, diskVars
<1>5. WrittenInv'
  BY Suffixes DEF WrittenInv, Stop, FullSaves, Done
<1>6. SyncInv'
  BY DEF SyncInv, Stop
<1>7. DownInv'
  BY BankAssumption
  DEF IInv, TypeOK, MemoryInv, SyncInv, Synced, EvidenceSynced, DownInv,
      Loadable, Verified, Intact, Covers, RefusedOnlyAfterInterruption, Stop,
      diskVars, Done
<1>8. ForeignInv'
  BY DEF IInv, ForeignInv, Foreign, NoRows, Stop, diskVars
<1>9. HotIsCurrent'
  BY DEF HotIsCurrent, NoRows, Stop
<1>10. QED
  BY <1>2, <1>3, <1>4, <1>5, <1>6, <1>7, <1>8, <1>9 DEF IInv

LEMMA LoadKeeps == ASSUME IInv, Load PROVE IInv'
<1>1. todo' \in RetentionSaves \union FullSaves \union {Done}
  BY DEF IInv, MemoryInv, Load
<1>2. TypeOK'
  BY DEF IInv, TypeOK, Load, diskVars, Evidence, NoEvidence, Loadable
<1>3. MemoryInv'
  BY DEF IInv, MemoryInv, DiskInv, Intact, Covers, Load, diskVars, Loadable,
     Verified
<1>4. DiskInv'
  BY DEF IInv, TypeOK, DiskInv, Intact, Manifests, Load, diskVars
<1>5. WrittenInv'
  BY DEF IInv, MemoryInv, WrittenInv, Load, diskVars
<1>6. SyncInv'
  BY DEF SyncInv, Synced, EvidenceSynced, Loadable, Load, diskVars
<1>7. DownInv'
  BY DEF DownInv, RefusedOnlyAfterInterruption, Load
<1>8. ForeignInv'
  BY DEF IInv, MemoryInv, ForeignInv, Foreign, Loadable, Verified, Load,
     diskVars
<1>9. HotIsCurrent'
  BY DEF IInv, MemoryInv, HotIsCurrent, NoRows, Load
<1>10. QED
  BY <1>2, <1>3, <1>4, <1>5, <1>6, <1>7, <1>8, <1>9 DEF IInv

LEMMA LoadRaisesKeeps == ASSUME IInv, LoadRaises PROVE IInv'
<1>1. todo' \in RetentionSaves \union FullSaves \union {Done}
  BY DEF IInv, MemoryInv, LoadRaises
<1>2. TypeOK'
  BY DEF IInv, TypeOK, LoadRaises, memoryVars, histVars, diskVars
<1>3. MemoryInv'
  BY DEF IInv, MemoryInv, Intact, LoadRaises, memoryVars, histVars, diskVars
<1>4. DiskInv'
  BY DEF IInv, DiskInv, Intact, LoadRaises, diskVars
<1>5. WrittenInv'
  BY DEF IInv, WrittenInv, LoadRaises, memoryVars, diskVars
<1>6. SyncInv'
  BY DEF SyncInv, LoadRaises
<1>7. DownInv'
  BY DEF IInv, DownInv, RefusedOnlyAfterInterruption, LoadRaises, histVars,
     diskVars
<1>8. ForeignInv'
  BY DEF IInv, ForeignInv, Foreign, LoadRaises, memoryVars, histVars, diskVars
<1>9. HotIsCurrent'
  BY DEF IInv, HotIsCurrent, LoadRaises, memoryVars
<1>10. QED
  BY <1>2, <1>3, <1>4, <1>5, <1>6, <1>7, <1>8, <1>9 DEF IInv

-----------------------------------------------------------------------------
(* put *)

LEMMA PlaceFacts ==
  ASSUME IInv, NEW k \in Keys, NEW i \in Rows, Place(k, i)
  PROVE  LET content == [key |-> k, made |-> made + 1]
             v == manifest.version + 1
         IN /\ content \in Contents /\ v \in Versions /\ made + 1 \in 0 .. MaxMade
            /\ manifest' \in Manifests
            /\ manifest'.version = v
            /\ manifest'.path = [manifest.path EXCEPT ![i] = v]
            /\ manifest'.hash = [manifest.hash EXCEPT ![i] = content]
            /\ files' = [files EXCEPT ![v] = content]
            /\ rows' = [rows EXCEPT ![i] = k]
<1>. DEFINE content == [key |-> k, made |-> made + 1]
            v == manifest.version + 1
<1>1. made \in Nat /\ made < MaxMade /\ manifest \in Manifests /\ v \in Versions
  BY BankAssumption DEF IInv, TypeOK, Place, ArtifactVersion
<1>2. content \in Contents /\ made + 1 \in 0 .. MaxMade
  BY <1>1, BankAssumption DEF Contents
<1>3. v \in 0 .. MaxVersion
  BY <1>1, BankAssumption DEF Versions
<1>. HIDE DEF content
<1>4. /\ manifest' = [version |-> manifest.version + 1,
                      path |-> [manifest.path EXCEPT ![i] = v],
                      hash |-> [manifest.hash EXCEPT ![i] = content],
                      alias |-> [manifest.alias EXCEPT ![i] = {}]]
      /\ files' = [files EXCEPT ![v] = content]
      /\ rows' = [rows EXCEPT ![i] = k]
  BY DEF Place, ArtifactVersion, content
<1>. HIDE DEF v
<1>5. /\ [manifest.path EXCEPT ![i] = v] \in [Rows -> 0 .. MaxVersion]
      /\ [manifest.hash EXCEPT ![i] = content] \in [Rows -> Contents \union {Nothing}]
      /\ [manifest.alias EXCEPT ![i] = {}] \in [Rows -> SUBSET Keys]
  BY <1>1, <1>2, <1>3 DEF Manifests
<1>6. manifest' \in Manifests
  BY <1>3, <1>4, <1>5 DEF Manifests, v
<1>7. QED
  BY <1>1, <1>2, <1>4, <1>6 DEF content, v

LEMMA PlaceKeeps ==
  ASSUME IInv, Idle, NEW k \in Keys, NEW i \in Rows, Place(k, i)
  PROVE  IInv'
<1>. DEFINE content == [key |-> k, made |-> made + 1]
            v == manifest.version + 1
<1>1. /\ content \in Contents /\ v \in Versions /\ made + 1 \in 0 .. MaxMade
      /\ manifest' \in Manifests
      /\ manifest'.version = v
      /\ manifest'.path = [manifest.path EXCEPT ![i] = v]
      /\ manifest'.hash = [manifest.hash EXCEPT ![i] = content]
      /\ files' = [files EXCEPT ![v] = content]
      /\ rows' = [rows EXCEPT ![i] = k]
  BY PlaceFacts
<1>2. /\ content.key = k
      /\ manifest.version \in Nat /\ v \in Nat /\ v > manifest.version
  BY BankAssumption DEF IInv, TypeOK, Manifests
<1>. HIDE DEF content, v
<1>3. /\ todo' = Save /\ made' = made + 1 /\ dirty' = dirty \union {i}
      /\ hot' = [hot EXCEPT ![i] = Nothing]
      /\ UNCHANGED <<up, capacity, evidence, diskRows, diskEvidence, diskManifest,
                     checksum, exposed, cut, interrupted>>
  BY DEF Place, DroppedFromHot
<1>4. up = "up" /\ todo = Done
  BY DEF Idle, Done
<1>5. TypeOK'
  BY <1>1, <1>3, TodoTyped DEF IInv, TypeOK, FullSaves, Contents
<1>6. \A m \in Manifests : Intact(m) /\ m.version <= manifest.version => Intact(m)'
  BY <1>1, <1>2 DEF Intact, Manifests, IInv, TypeOK
<1>7. Intact(manifest)'
  BY <1>1, <1>2 DEF Intact, Manifests, IInv, TypeOK, MemoryInv
<1>8. MemoryInv'
  BY <1>1, <1>2, <1>3, <1>4, <1>7
  DEF IInv, TypeOK, MemoryInv, Covers, FullSaves, Manifests
<1>9. DiskInv'
  <2>1. SUFFICES ASSUME diskManifest # Nothing
                 PROVE  /\ Intact(diskManifest)'
                        /\ diskManifest.version <= manifest'.version
                        /\ \A r \in Rows \ dirty' :
                             manifest'.hash[r] = diskManifest.hash[r]
    BY <1>3, <1>4 DEF DiskInv
  <2>2. diskManifest \in Manifests /\ diskManifest.version \in Nat
    BY <2>1 DEF IInv, TypeOK, Manifests
  <2>3. Intact(diskManifest) /\ diskManifest.version <= manifest.version
    BY <1>4, <2>1 DEF IInv, DiskInv
  <2>4. Intact(diskManifest)'
    BY <1>3, <1>6, <2>2, <2>3
  <2>5. ASSUME NEW r \in Rows \ dirty'
        PROVE  manifest'.hash[r] = diskManifest.hash[r]
    <3>1. r # i /\ r \in Rows \ dirty
      BY <1>3
    <3>2. manifest.hash[r] = diskManifest.hash[r]
      BY <1>4, <2>1, <3>1 DEF IInv, DiskInv
    <3>3. manifest.hash \in [Rows -> Contents \union {Nothing}]
      BY DEF IInv, TypeOK, Manifests
    <3>4. QED
      BY <1>1, <3>1, <3>2, <3>3
  <2>6. diskManifest.version <= manifest'.version
    BY <1>1, <1>2, <2>2, <2>3
  <2>7. QED
    BY <2>4, <2>5, <2>6
<1>10. WrittenInv' /\ SyncInv'
  BY <1>3, Suffixes DEF WrittenInv, SyncInv, FullSaves
<1>11. DownInv'
  BY <1>3, <1>4 DEF IInv, DownInv, RefusedOnlyAfterInterruption
<1>12. ForeignInv'
  BY <1>1, <1>2, <1>3 DEF IInv, TypeOK, ForeignInv, Foreign, Manifests
<1>13. HotIsCurrent'
  BY <1>1, <1>3 DEF IInv, TypeOK, HotIsCurrent, Manifests
<1>14. QED
  BY <1>5, <1>8, <1>9, <1>10, <1>11, <1>12, <1>13 DEF IInv

-----------------------------------------------------------------------------
(* Rebuilding *)

Entered == [key : Keys, alias : SUBSET Keys, content : Contents, foreign : BOOLEAN]

(* What an entry serves is its own, or known to be foreign.                *)
Own(e) == e.content.key # e.key => e.foreign

LEMMA EntryFacts ==
  ASSUME IInv, NEW i \in Occupied, Verified(rows, manifest, i)
  PROVE  /\ Entry(i) \in Entered /\ Own(Entry(i))
         /\ Entry(i).key = rows[i] /\ Entry(i).alias = manifest.alias[i]
         /\ Entry(i).content = files[manifest.path[i]]
<1>1. i \in Rows /\ rows[i] # Nothing /\ rows[i] \in Keys /\ manifest.path[i] # 0
      /\ manifest.alias[i] \in SUBSET Keys
  BY DEF Occupied, Verified, IInv, TypeOK, Manifests
<1>2. files[manifest.path[i]] = manifest.hash[i] /\ manifest.hash[i] \in Contents
  BY <1>1 DEF IInv, MemoryInv, Intact
<1>3. /\ Entry(i).key = rows[i] /\ Entry(i).alias = manifest.alias[i]
      /\ Entry(i).content = manifest.hash[i] /\ Entry(i).foreign = (i \in cut)
  BY <1>2 DEF Entry
<1>4. Entry(i) \in Entered
  BY <1>1, <1>2 DEF Entry, Entered
<1>5. Own(Entry(i))
  BY <1>1, <1>3 DEF Own, IInv, ForeignInv, Foreign
<1>6. QED
  BY <1>2, <1>3, <1>4, <1>5

LEMMA EntriesFacts ==
  ASSUME IInv, NEW S \in SUBSET Occupied, NEW q \in Orders(S),
         \A i \in S : Verified(rows, manifest, i)
  PROVE  /\ Entries(q) \in Seq(Entered) /\ Len(Entries(q)) = Cardinality(S)
         /\ Len(Entries(q)) \in Nat /\ Len(Entries(q)) <= MaxRows
         /\ \A j \in 1 .. Len(Entries(q)) :
              /\ q[j] \in S /\ Entries(q)[j] = Entry(q[j]) /\ Own(Entries(q)[j])
         /\ \A i \in S : \E j \in 1 .. Len(Entries(q)) : q[j] = i
         /\ \A j, h \in 1 .. Len(Entries(q)) : q[j] = q[h] => j = h
<1>1. S \in SUBSET Rows
  BY DEF Occupied
<1>2. /\ Cardinality(S) \in Nat /\ Cardinality(S) <= MaxRows
      /\ DOMAIN q = 1 .. Cardinality(S)
      /\ \A j \in 1 .. Cardinality(S) : q[j] \in S
      /\ \A i \in S : \E j \in 1 .. Cardinality(S) : q[j] = i
      /\ \A j, h \in 1 .. Cardinality(S) : q[j] = q[h] => j = h
  BY <1>1, OrderFacts
<1>3. \A j \in 1 .. Cardinality(S) : Entry(q[j]) \in Entered /\ Own(Entry(q[j]))
  BY <1>2, EntryFacts
<1>4. /\ Entries(q) \in [1 .. Cardinality(S) -> Entered]
      /\ \A j \in 1 .. Cardinality(S) : Entries(q)[j] = Entry(q[j])
  BY <1>2, <1>3 DEF Entries
<1>5. Entries(q) \in Seq(Entered) /\ Len(Entries(q)) = Cardinality(S)
  BY <1>2, <1>4
<1>6. QED
  BY <1>2, <1>3, <1>4, <1>5

(* What row i of the new bank has: entry h, or nothing.                    *)
HasEntry(es, i, h) ==
  /\ rows'[i] = es[h].key /\ manifest'.path[i] = h
  /\ manifest'.hash[i] = es[h].content /\ manifest'.alias[i] = es[h].alias
  /\ files'[h] = es[h].content
  /\ i \in cut' <=> es[h].foreign

IsVacant(i) == rows'[i] = Nothing /\ manifest'.path[i] = 0 /\ i \notin cut'

(* The tables of the new bank's manifest, row by row.                      *)
HashTable(es, held)  == [i \in Rows |-> IF held[i] # 0 THEN es[held[i]].content ELSE Nothing]
AliasTable(es, held) == [i \in Rows |-> IF held[i] # 0 THEN es[held[i]].alias ELSE {}]

LEMMA KeysOfEntries ==
  ASSUME NEW es \in Seq(Entered)
  PROVE  /\ Len(es) \in Nat /\ DOMAIN es = 1 .. Len(es)
         /\ DOMAIN EntryKeys(es) = 1 .. Len(es)
         /\ \A j \in 1 .. Len(es) :
              /\ es[j] \in Entered /\ EntryKeys(es)[j] = es[j].key
              /\ es[j].key \in Keys /\ es[j].alias \in SUBSET Keys
              /\ es[j].content \in Contents /\ es[j].foreign \in BOOLEAN
<1>1. Len(es) \in Nat /\ DOMAIN es = 1 .. Len(es)
  OBVIOUS
<1>2. \A j \in 1 .. Len(es) : es[j] \in Entered
  OBVIOUS
<1>3. QED
  BY <1>1, <1>2 DEF EntryKeys, Entered

LEMMA RebuildFacts ==
  ASSUME NEW es \in Seq(Entered), NEW p \in Placements(EntryKeys(es)),
         NEW n, NEW ev, Rebuild(es, p, n, ev)
  PROVE  /\ Len(es) \in Nat /\ Len(es) <= MaxVersion /\ Len(es) \in 0 .. MaxVersion
         /\ rows' \in [Rows -> Keys \union {Nothing}]
         /\ manifest' \in Manifests /\ manifest'.version = Len(es)
         /\ files' \in [Versions -> Contents \union {Nothing}]
         /\ \A i \in Rows : \/ IsVacant(i) /\ Holder(p, i) = 0
                            \/ \E h \in 1 .. Len(es) : p[h] = i /\ HasEntry(es, i, h)
         /\ \A h \in Standing(p, 1 .. Len(es)) :
              p[h] \in Rows => HasEntry(es, p[h], h)
<1>1. /\ Len(es) \in Nat /\ DOMAIN es = 1 .. Len(es)
      /\ DOMAIN EntryKeys(es) = 1 .. Len(es)
      /\ \A j \in 1 .. Len(es) :
           /\ es[j] \in Entered /\ es[j].key \in Keys /\ es[j].alias \in SUBSET Keys
           /\ es[j].content \in Contents /\ es[j].foreign \in BOOLEAN
  BY KeysOfEntries
<1>2. Len(es) <= MaxVersion /\ Len(es) \in 0 .. MaxVersion
  BY <1>1, BankAssumption DEF Rebuild
<1>3. DOMAIN p = 1 .. Len(es)
  BY <1>1, PlacedFirst
<1>4. /\ \A i : Holder(p, i) # 0 =>
                  Holder(p, i) \in 1 .. Len(es) /\ p[Holder(p, i)] = i
      /\ \A j \in Standing(p, 1 .. Len(es)) : Holder(p, p[j]) = j
  BY <1>1, <1>3, HolderFacts
<1>. DEFINE held == [i \in Rows |-> Holder(p, i)]
<1>5. \A i \in Rows : held[i] = Holder(p, i)
  OBVIOUS
<1>6. /\ rows' = [i \in Rows |-> IF held[i] # 0 THEN es[held[i]].key ELSE Nothing]
      /\ manifest' = [version |-> Len(es), path |-> held,
                      hash |-> HashTable(es, held), alias |-> AliasTable(es, held)]
      /\ files' = [v \in Versions |-> IF v \in DOMAIN es THEN es[v].content ELSE Nothing]
      /\ cut' = {i \in Rows : held[i] # 0 /\ es[held[i]].foreign}
  BY DEF Rebuild, HashTable, AliasTable
<1>7. /\ held \in [Rows -> 0 .. MaxVersion]
      /\ \A i \in Rows : held[i] # 0 => held[i] \in 1 .. Len(es)
  <2>1. \A i \in Rows : held[i] # 0 => held[i] \in 1 .. Len(es)
    BY <1>4, <1>5
  <2>2. \A i \in Rows : held[i] \in 0 .. MaxVersion
    BY <1>1, <1>2, <2>1, BankAssumption
  <2>3. QED
    BY <2>1, <2>2
<1>. HIDE DEF held
<1>8. /\ HashTable(es, held) \in [Rows -> Contents \union {Nothing}]
      /\ AliasTable(es, held) \in [Rows -> SUBSET Keys]
  BY <1>1, <1>7 DEF HashTable, AliasTable
<1>9. manifest' \in Manifests /\ manifest'.version = Len(es)
  BY <1>2, <1>6, <1>7, <1>8 DEF Manifests
<1>10. /\ rows' \in [Rows -> Keys \union {Nothing}]
       /\ files' \in [Versions -> Contents \union {Nothing}]
  BY <1>1, <1>6, <1>7
<1>11. /\ manifest'.path = held /\ manifest'.hash = HashTable(es, held)
       /\ manifest'.alias = AliasTable(es, held)
  BY <1>6
<1>12. ASSUME NEW i \in Rows, held[i] # 0 PROVE HasEntry(es, i, held[i])
  <2>1. held[i] \in 1 .. Len(es) /\ held[i] \in Versions
    BY <1>1, <1>2, <1>7, <1>12, BankAssumption DEF Versions
  <2>2. /\ rows'[i] = es[held[i]].key /\ manifest'.path[i] = held[i]
        /\ manifest'.hash[i] = es[held[i]].content
        /\ manifest'.alias[i] = es[held[i]].alias
    BY <1>6, <1>11, <1>12 DEF HashTable, AliasTable
  <2>3. files'[held[i]] = es[held[i]].content
    BY <1>1, <1>6, <2>1
  <2>4. i \in cut' <=> es[held[i]].foreign
    BY <1>6, <1>12
  <2>5. QED
    BY <2>2, <2>3, <2>4 DEF HasEntry
<1>13. ASSUME NEW i \in Rows, held[i] = 0 PROVE IsVacant(i)
  BY <1>6, <1>11, <1>13 DEF IsVacant
<1>14. ASSUME NEW i \in Rows
       PROVE  \/ IsVacant(i) /\ Holder(p, i) = 0
              \/ \E h \in 1 .. Len(es) : p[h] = i /\ HasEntry(es, i, h)
  BY <1>4, <1>5, <1>12, <1>13
<1>15. ASSUME NEW h \in Standing(p, 1 .. Len(es)), p[h] \in Rows
       PROVE  HasEntry(es, p[h], h)
  <2>1. held[p[h]] = h
    BY <1>4, <1>5, <1>15
  <2>2. h \in 1 .. Len(es) /\ h # 0
    BY DEF Standing
  <2>3. QED
    BY <1>12, <1>15, <2>1, <2>2
<1>16. QED
  BY <1>1, <1>2, <1>9, <1>10, <1>14, <1>15

LEMMA RebuildKeeps ==
  ASSUME IInv, Idle, NEW es \in Seq(Entered), NEW p \in Placements(EntryKeys(es)),
         \A j \in 1 .. Len(es) : Own(es[j]),
         NEW n, NEW ev \in [Keys -> Evidence], Rebuild(es, p, n, ev),
         made' \in 0 .. MaxMade
  PROVE  IInv'
<1>1. /\ Len(es) \in Nat /\ Len(es) <= MaxVersion
      /\ rows' \in [Rows -> Keys \union {Nothing}]
      /\ manifest' \in Manifests /\ manifest'.version = Len(es)
      /\ files' \in [Versions -> Contents \union {Nothing}]
      /\ \A i \in Rows : \/ IsVacant(i)
                         \/ \E h \in 1 .. Len(es) : HasEntry(es, i, h)
  BY RebuildFacts
<1>2. \A j \in 1 .. Len(es) : es[j].content \in Contents /\ es[j].foreign \in BOOLEAN
  BY KeysOfEntries
<1>3. /\ capacity' = n /\ n \in Rows /\ evidence' = ev /\ hot' = NoRows
      /\ diskRows' = rows' /\ diskManifest' = manifest' /\ checksum' = manifest'
      /\ diskEvidence' = evidence'
      /\ dirty' = {} /\ exposed' = {} /\ interrupted' = FALSE
      /\ up' = up /\ todo' = todo
  BY DEF Rebuild
<1>4. up = "up" /\ todo = Done
  BY DEF Idle, Done
<1>5. cut' \subseteq Rows
  BY DEF Rebuild
<1>6. TypeOK'
  BY <1>1, <1>3, <1>4, <1>5 DEF IInv, TypeOK, NoRows
<1>7. ASSUME NEW i \in Rows
      PROVE  /\ manifest'.path[i] <= manifest'.version
             /\ manifest'.path[i] # 0 =>
                  /\ manifest'.hash[i] \in Contents
                  /\ files'[manifest'.path[i]] = manifest'.hash[i]
             /\ rows'[i] # Nothing => manifest'.path[i] # 0
             /\ rows'[i] # Nothing /\ manifest'.hash[i].key # rows'[i] => i \in cut'
  <2>1. CASE IsVacant(i)
    BY <1>1, <2>1 DEF IsVacant
  <2>2. CASE \E h \in 1 .. Len(es) : HasEntry(es, i, h)
    <3>1. PICK h \in 1 .. Len(es) : HasEntry(es, i, h)
      BY <2>2
    <3>2. Own(es[h]) /\ es[h].content \in Contents /\ h <= Len(es) /\ h # 0
      BY <1>2
    <3>3. QED
      BY <1>1, <3>1, <3>2 DEF HasEntry, Own
  <2>3. QED
    BY <1>1, <2>1, <2>2
<1>8. Intact(manifest)' /\ Covers(manifest, rows)'
  BY <1>7 DEF Intact, Covers
<1>9. MemoryInv'
  BY <1>3, <1>4, <1>8 DEF MemoryInv
<1>10. DiskInv'
  <2>1. Intact(diskManifest)'
    BY <1>3, <1>8 DEF Intact
  <2>2. QED
    BY <1>1, <1>3, <2>1 DEF DiskInv
<1>11. WrittenInv'
  BY <1>3, <1>4, Suffixes DEF WrittenInv, FullSaves
<1>12. SyncInv'
  BY <1>1, <1>3, <1>4, BankAssumption DEF SyncInv, Synced, EvidenceSynced
<1>13. DownInv'
  BY <1>3, <1>4 DEF DownInv, RefusedOnlyAfterInterruption
<1>14. ForeignInv'
  BY <1>3, <1>7 DEF ForeignInv, Foreign
<1>15. HotIsCurrent'
  BY <1>3 DEF HotIsCurrent, NoRows
<1>16. QED
  BY <1>6, <1>9, <1>10, <1>11, <1>12, <1>13, <1>14, <1>15 DEF IInv

LEMMA EvidenceTyped ==
  ASSUME IInv
  PROVE  /\ \A S \in SUBSET Keys : EvidenceOf(S) \in [Keys -> Evidence]
         /\ \A base \in [Keys -> Evidence], S \in SUBSET Keys :
              \A seen \in Observations(S) : Observed(base, seen) \in [Keys -> Evidence]
         /\ \A base \in [Keys -> Evidence] : Observed(base, <<>>) = base
<1>1. \A S \in SUBSET Keys : EvidenceOf(S) \in [Keys -> Evidence]
  BY DEF IInv, TypeOK, EvidenceOf, Evidence
<1>2. ASSUME NEW base \in [Keys -> Evidence], NEW S \in SUBSET Keys,
             NEW seen \in Observations(S)
      PROVE  Observed(base, seen) \in [Keys -> Evidence]
  <2>1. PICK T \in SUBSET S : seen \in [T -> Levels]
    BY DEF Observations
  <2>2. QED
    BY <2>1, BankAssumption DEF Observed, Evidence
<1>3. ASSUME NEW base \in [Keys -> Evidence] PROVE Observed(base, <<>>) = base
  BY DEF Observed
<1>4. QED
  BY <1>1, <1>2, <1>3

LEMMA AddressesTyped ==
  ASSUME NEW es \in Seq(Entered)
  PROVE  EntryAddresses(es) \in SUBSET Keys
<1>1. \A j \in DOMAIN es : es[j] \in Entered
  OBVIOUS
<1>2. \A j \in DOMAIN es : {es[j].key} \union es[j].alias \subseteq Keys
  BY <1>1 DEF Entered
<1>3. QED
  BY <1>2 DEF EntryAddresses

(* The bank that grow or compact makes of the rows S, in the order q.      *)
LEMMA RebuildFromKeeps ==
  ASSUME IInv, Idle, NEW S \in SUBSET Occupied, NEW q \in Orders(S),
         \A i \in S : Verified(rows, manifest, i),
         NEW n, RebuildFrom(q, n), made' = made
  PROVE  IInv'
<1>1. /\ Entries(q) \in Seq(Entered)
      /\ \A j \in 1 .. Len(Entries(q)) : Own(Entries(q)[j])
  BY EntriesFacts
<1>2. EvidenceOf(EntryAddresses(Entries(q))) \in [Keys -> Evidence]
  BY <1>1, EvidenceTyped, AddressesTyped
<1>3. PICK p \in Placements(EntryKeys(Entries(q))) :
        Rebuild(Entries(q), p, n, EvidenceOf(EntryAddresses(Entries(q))))
  BY DEF RebuildFrom
<1>4. made' \in 0 .. MaxMade
  BY DEF IInv, TypeOK
<1>5. QED
  BY <1>1, <1>2, <1>3, <1>4, RebuildKeeps

LEMMA OccupiedRows == Occupied \in SUBSET Rows /\ InOrder(Occupied) \in Orders(Occupied)
<1>1. Occupied \in SUBSET Rows
  BY DEF Occupied
<1>2. QED
  BY <1>1, InOrderOrders

LEMMA GrowKeeps == ASSUME IInv, Grow PROVE IInv'
<1>1. /\ Idle /\ RebuildFrom(InOrder(Occupied), capacity + 1) /\ made' = made
      /\ \A i \in Occupied : Verified(rows, manifest, i)
  BY DEF Grow
<1>2. InOrder(Occupied) \in Orders(Occupied) /\ Occupied \in SUBSET Occupied
  BY OccupiedRows
<1>3. QED
  BY <1>1, <1>2, RebuildFromKeeps

LEMMA CompactKeeps == ASSUME IInv, NEW S \in SUBSET Occupied, Compact(S) PROVE IInv'
<1>1. /\ Idle /\ made' = made /\ \A i \in S : Verified(rows, manifest, i)
      /\ \E q \in Orders(S) : RebuildFrom(q, Cardinality(S))
  BY DEF Compact
<1>2. QED
  BY <1>1, RebuildFromKeeps

(* What consolidate_verified puts first.                                   *)
Replacement(k, A) ==
  [key |-> k, alias |-> A, content |-> [key |-> k, made |-> made + 1],
   foreign |-> FALSE]

(* The rows it leaves, the entries of the new bank, and their evidence.    *)
KeptRows(S)          == InOrder(Occupied \ S)
KeptEntries(S)       == Entries(KeptRows(S))
NewEntries(S, k, A)  == <<Replacement(k, A)>> \o KeptEntries(S)
NewEvidence(S, seen) == Observed(EvidenceOf(EntryAddresses(KeptEntries(S))), seen)

LEMMA ConsolidateFacts ==
  ASSUME IInv, NEW S \in SUBSET Occupied, NEW k \in Keys,
         NEW A \in SUBSET (Keys \ {k}),
         NEW seen \in {<<>>} \union Observations({k} \union A),
         Consolidate(S, k, A, seen)
  PROVE  LET kept == KeptEntries(S)
             es == NewEntries(S, k, A)
             ev == NewEvidence(S, seen)
         IN /\ KeptRows(S) \in Orders(Occupied \ S)
            /\ kept \in Seq(Entered) /\ es \in Seq(Entered) /\ Len(es) <= MaxRows
            /\ Len(es) = Len(kept) + 1
            /\ \A j \in 1 .. Len(es) : Own(es[j])
            /\ ev \in [Keys -> Evidence]
            /\ \E p \in Placements(EntryKeys(es)) :
                 OneRowEach(p) /\ Rebuild(es, p, Len(es), ev)
            /\ es[1] = Replacement(k, A)
            /\ \A j \in 1 .. Len(kept) : es[j + 1] = kept[j]
<1>. DEFINE kept == KeptEntries(S)
            es == NewEntries(S, k, A)
            ev == NewEvidence(S, seen)
<1>1. \A i \in Occupied \ S : Verified(rows, manifest, i)
  BY DEF Consolidate
<1>2. KeptRows(S) \in Orders(Occupied \ S)
  <2>1. Occupied \ S \in SUBSET Rows
    BY DEF Occupied
  <2>2. QED
    BY <2>1, InOrderOrders DEF KeptRows
<1>3. /\ kept \in Seq(Entered) /\ \A j \in 1 .. Len(kept) : Own(kept[j])
  <2>1. Occupied \ S \in SUBSET Occupied
    OBVIOUS
  <2>2. QED
    BY <1>1, <1>2, <2>1, EntriesFacts DEF KeptEntries
<1>4. Replacement(k, A) \in Entered /\ Own(Replacement(k, A))
  <2>1. [key |-> k, made |-> made + 1] \in Contents
    BY BankAssumption DEF Consolidate, IInv, TypeOK, Contents
  <2>2. QED
    BY <2>1 DEF Replacement, Entered, Own
<1>5. \E p \in Placements(EntryKeys(es)) :
        OneRowEach(p) /\ Rebuild(es, p, Len(es), ev)
  BY DEF Consolidate, Replacement, KeptRows, KeptEntries, NewEntries, NewEvidence
<1>6. ev \in [Keys -> Evidence]
  <2>1. EvidenceOf(EntryAddresses(kept)) \in [Keys -> Evidence]
    BY <1>3, EvidenceTyped, AddressesTyped
  <2>2. {k} \union A \in SUBSET Keys
    OBVIOUS
  <2>3. QED
    BY <2>1, <2>2, EvidenceTyped DEF NewEvidence
<1>. HIDE DEF kept, ev
<1>7. /\ es \in Seq(Entered) /\ Len(es) = Len(kept) + 1
      /\ es[1] = Replacement(k, A)
      /\ \A j \in 1 .. Len(kept) : es[j + 1] = kept[j]
  BY <1>3, <1>4 DEF NewEntries, kept
<1>8. \A j \in 1 .. Len(es) : Own(es[j])
  <2>1. ASSUME NEW j \in 1 .. Len(es) PROVE Own(es[j])
    <3>1. CASE j = 1
      BY <1>4, <1>7, <3>1
    <3>2. CASE j # 1
      <4>1. j - 1 \in 1 .. Len(kept) /\ j = (j - 1) + 1
        BY <1>3, <1>7, <3>2
      <4>2. es[j] = kept[j - 1]
        BY <1>7, <4>1
      <4>3. QED
        BY <1>3, <4>1, <4>2
    <3>3. QED
      BY <3>1, <3>2
  <2>2. QED
    BY <2>1
<1>9. Len(es) <= MaxRows
  <2>1. Len(es) \in Rows
    BY <1>5 DEF Rebuild
  <2>2. QED
    BY <2>1, BankAssumption DEF Rows
<1>10. QED
  BY <1>2, <1>3, <1>5, <1>6, <1>7, <1>8, <1>9 DEF kept, ev

LEMMA ConsolidateKeeps ==
  ASSUME IInv, NEW S \in SUBSET Occupied, NEW k \in Keys,
         NEW A \in SUBSET (Keys \ {k}),
         NEW seen \in {<<>>} \union Observations({k} \union A),
         Consolidate(S, k, A, seen)
  PROVE  IInv'
<1>1. Idle /\ made' \in 0 .. MaxMade
  BY BankAssumption DEF Consolidate, IInv, TypeOK
<1>2. QED
  BY <1>1, ConsolidateFacts, RebuildKeeps

-----------------------------------------------------------------------------
(* Every step *)

LEMMA InitHolds == ASSUME Init PROVE IInv
<1>1. /\ NoRows \in [Rows -> Keys \union {Nothing}]
      /\ NoRows \in [Rows -> Contents \union {Nothing}]
      /\ \A i \in Rows : NoRows[i] = Nothing
  BY DEF NoRows
<1>2. NewManifest \in Manifests
  BY <1>1, BankAssumption DEF NewManifest, Manifests
<1>3. Capacity \in Rows
  BY BankAssumption DEF Rows
<1>4. TypeOK
  <2>1. <<>> \in Seq(SaveSteps)
    BY TodoTyped DEF Done
  <2>2. evidence \in [Keys -> Evidence]
    BY DEF Init, NoEvidence, Evidence
  <2>3. 0 \in 0 .. MaxMade
    BY BankAssumption
  <2>4. files \in [Versions -> Contents \union {Nothing}]
    BY DEF Init
  <2>5. QED
    BY <1>1, <1>2, <1>3, <2>1, <2>2, <2>3, <2>4 DEF Init, TypeOK
<1>5. MemoryInv
  BY <1>1, BankAssumption
  DEF Init, MemoryInv, Intact, Covers, NewManifest, Done
<1>6. DiskInv /\ DownInv
  BY DEF Init, DiskInv, DownInv, RefusedOnlyAfterInterruption
<1>7. WrittenInv
  BY Suffixes DEF Init, WrittenInv, FullSaves, Done
<1>8. SyncInv
  BY BankAssumption DEF Init, SyncInv, Synced, EvidenceSynced, NewManifest
<1>9. ForeignInv /\ HotIsCurrent
  BY <1>1 DEF Init, ForeignInv, Foreign, HotIsCurrent
<1>10. QED
  BY <1>4, <1>5, <1>6, <1>7, <1>8, <1>9 DEF IInv

LEMMA StutterKeeps == ASSUME IInv, UNCHANGED vars PROVE IInv'
<1>1. TypeOK' /\ MemoryInv' /\ DiskInv' /\ WrittenInv'
  BY DEF IInv, TypeOK, MemoryInv, Intact, Covers, DiskInv, WrittenInv,
     vars, memoryVars, diskVars, histVars
<1>2. SyncInv' /\ DownInv'
  BY DEF IInv, SyncInv, Synced, EvidenceSynced, DownInv, Loadable, Verified,
     RefusedOnlyAfterInterruption, vars, memoryVars, diskVars, histVars
<1>3. ForeignInv' /\ HotIsCurrent'
  BY DEF IInv, ForeignInv, Foreign, HotIsCurrent,
     vars, memoryVars, diskVars, histVars
<1>4. QED
  BY <1>1, <1>2, <1>3 DEF IInv

(* Whichever row a put takes, it is one of the bank's.                     *)
LEMMA PutPlaces ==
  ASSUME IInv, NEW k \in Keys, PutMatching(k) \/ PutFree(k) \/ PutEvicting(k)
  PROVE  Idle /\ \E i \in Rows : Place(k, i)
<1>1. CASE PutMatching(k)
  BY <1>1 DEF PutMatching, MatchingRows, Matching, Occupied
<1>2. CASE PutFree(k)
  <2>1. capacity \in Rows /\ MaxRows \in Nat
    BY BankAssumption DEF IInv, TypeOK
  <2>2. Free \subseteq Rows
    BY <2>1 DEF Free, Rows
  <2>3. QED
    BY <1>2, <2>2 DEF PutFree
<1>3. CASE PutEvicting(k)
  BY <1>3 DEF PutEvicting, Occupied
<1>4. QED
  BY <1>1, <1>2, <1>3

LEMMA StepKeeps == ASSUME IInv, [Next]_vars PROVE IInv'
<1>1. CASE \/ WriteRows \/ TruncateRetention \/ WriteRetention
           \/ WriteManifest \/ WriteChecksum \/ WriteRaises
  BY <1>1, WriteRowsKeeps, TruncateRetentionKeeps, WriteRetentionKeeps,
     WriteManifestKeeps, WriteChecksumKeeps, WriteRaisesKeeps
<1>2. CASE \E k \in Keys : PutMatching(k) \/ PutFree(k) \/ PutEvicting(k)
  BY <1>2, PutPlaces, PlaceKeeps
<1>3. CASE \E seen \in Observations(Keys) : ObserveRetention(seen)
  BY <1>3, ObserveRetentionKeeps
<1>4. CASE \E i \in Rows : Promote(i)
  BY <1>4, PromoteKeeps
<1>5. CASE (\E i \in Rows : EvictHot({i})) \/ EvictHot(Rows)
  <2>1. \E S \in SUBSET Rows : EvictHot(S)
    BY <1>5
  <2>2. QED
    BY <2>1, EvictHotKeeps
<1>6. CASE Stop \/ Load \/ LoadRaises
  BY <1>6, StopKeeps, LoadKeeps, LoadRaisesKeeps
<1>7. CASE Grow
  BY <1>7, GrowKeeps
<1>8. CASE \E S \in SUBSET Occupied : Compact(S)
  BY <1>8, CompactKeeps
<1>9. CASE \E S \in SUBSET Occupied, k \in Keys : \E A \in SUBSET (Keys \ {k}) :
             \E seen \in {<<>>} \union Observations({k} \union A) :
               Consolidate(S, k, A, seen)
  BY <1>9, ConsolidateKeeps
<1>10. CASE UNCHANGED vars
  BY <1>10, StutterKeeps
<1>11. QED
  BY <1>1, <1>2, <1>3, <1>4, <1>5, <1>6, <1>7, <1>8, <1>9, <1>10 DEF Next

(* The bank's inductive invariant holds of every behaviour.                *)
THEOREM AlwaysIInv == Spec => []IInv
<1>1. Init => IInv
  BY InitHolds
<1>2. IInv /\ [Next]_vars => IInv'
  BY StepKeeps
<1>3. QED
  BY <1>1, <1>2, PTL DEF Spec

-----------------------------------------------------------------------------
(* The invariants *)

(* Every variable of the bank keeps its type.                              *)
THEOREM TypeCorrect == Spec => []TypeOK
<1>1. IInv => TypeOK
  BY DEF IInv
<1>2. QED
  BY <1>1, AlwaysIInv, PTL

(* The row promote serves was put under the key that led to it, unless the *)
(* process stopped between the two writes of a put to that very row.       *)
THEOREM ForeignOnlyFromCuts == Spec => []ForeignOnlyFromCutPut
<1>1. IInv => ForeignOnlyFromCutPut
  BY DEF IInv, ForeignInv, ForeignOnlyFromCutPut
<1>2. QED
  BY <1>1, AlwaysIInv, PTL

(* load raises only on a directory whose last save was cut short, or that  *)
(* never had a full save.                                                  *)
THEOREM RefusalHasCause == Spec => []RefusedOnlyAfterInterruption
<1>1. IInv => RefusedOnlyAfterInterruption
  BY DEF IInv, DownInv
<1>2. QED
  BY <1>1, AlwaysIInv, PTL

(* Between calls, and unless a save was cut short, the four files say what *)
(* the process knows, and every row's artifact verifies.                   *)
THEOREM IdleDurable == Spec => []IdleIsDurable
<1>1. ASSUME IInv PROVE IdleIsDurable
  <2>1. SUFFICES ASSUME Idle, ~ interrupted PROVE IdleIsDurable
    BY DEF IdleIsDurable
  <2>2. Synced /\ EvidenceSynced
    BY <1>1, <2>1 DEF Idle, IInv, SyncInv, Done
  <2>3. \A i \in Occupied : Verified(rows, manifest, i)
    BY <1>1 DEF IInv, MemoryInv, Intact, Covers, Occupied, Verified
  <2>4. QED
    BY <2>2, <2>3 DEF Synced, EvidenceSynced, IdleIsDurable
<1>2. QED
  BY <1>1, AlwaysIInv, PTL

(* What the process cache holds of a row is the row's present artifact.    *)
THEOREM HotCurrent == Spec => []HotIsCurrent
<1>1. IInv => HotIsCurrent
  BY DEF IInv
<1>2. QED
  BY <1>1, AlwaysIInv, PTL

-----------------------------------------------------------------------------
(* The steps *)

(* A put never writes over a file the manifest on disk refers to, whatever *)
(* was cut short before: the invariant says of that manifest that its      *)
(* files are what it says, before the step and after it.                   *)
THEOREM ReferencedFilesKept == Spec => NeverOverwritesReferencedFile
<1>. DEFINE Kept == capacity' = capacity /\ diskManifest' = diskManifest =>
                      \A v \in Versions : files'[v] # files[v] => v \notin Referenced
<1>1. ASSUME IInv, IInv' PROVE Kept
  <2>1. SUFFICES ASSUME diskManifest' = diskManifest, NEW v \in Versions,
                        v \in Referenced
                 PROVE  files'[v] = files[v]
    OBVIOUS
  <2>2. PICK i \in Rows : v = diskManifest.path[i]
    BY <2>1 DEF Referenced
  <2>3. diskManifest # Nothing /\ v # 0
    BY <2>1 DEF Referenced, Versions
  <2>4. files[v] = diskManifest.hash[i]
    BY <1>1, <2>2, <2>3 DEF IInv, DiskInv, Intact
  <2>5. files'[v] = diskManifest'.hash[i]
    BY <1>1, <2>1, <2>2, <2>3 DEF IInv, DiskInv, Intact
  <2>6. QED
    BY <2>1, <2>4, <2>5
<1>2. IInv /\ IInv' => [Kept]_vars
  BY <1>1
<1>3. Spec => [][Kept]_vars
  BY <1>2, AlwaysIInv, PTL DEF Spec
<1>4. QED
  BY <1>3 DEF NeverOverwritesReferencedFile

(* An entry that stands is in the new bank as it was in the old.           *)
LEMMA EntryCarried ==
  ASSUME NEW es \in Seq(Entered), Len(es) <= MaxRows,
         NEW p \in Placements(EntryKeys(es)), NEW n, NEW ev, Rebuild(es, p, n, ev),
         NEW h \in Standing(p, 1 .. Len(es)), NEW i,
         es[h].key = rows[i], es[h].alias = manifest.alias[i],
         es[h].content = files[manifest.path[i]]
  PROVE  Carried(i)
<1>1. Len(es) \in Nat /\ DOMAIN EntryKeys(es) = 1 .. Len(es)
  BY KeysOfEntries
<1>2. p[h] \in 1 .. Len(es)
  BY <1>1, PlacedFirst DEF Standing
<1>3. p[h] \in Rows
  BY <1>1, <1>2, BankAssumption DEF Rows
<1>4. HasEntry(es, p[h], h)
  BY <1>3, RebuildFacts
<1>5. QED
  BY <1>3, <1>4 DEF HasEntry, Carried, Addresses

(* What grow and compact make of a row of S: it is carried over whole,     *)
(* with its evidence, or one of the others has a key that matches its own. *)
LEMMA CarriedOver ==
  ASSUME IInv, NEW S \in SUBSET Occupied, NEW q \in Orders(S),
         \A i \in S : Verified(rows, manifest, i), NEW n, RebuildFrom(q, n),
         NEW i \in S
  PROVE  \/ Carried(i) /\ \A k \in Addresses(i) : evidence'[k] = evidence[k]
         \/ \E h \in Occupied \ {i} : <<rows[i], rows[h]>> \in Near
<1>. DEFINE es == Entries(q)
            ev == EvidenceOf(EntryAddresses(es))
<1>1. /\ es \in Seq(Entered) /\ Len(es) \in Nat /\ Len(es) <= MaxRows
      /\ \A j \in 1 .. Len(es) : q[j] \in S /\ es[j] = Entry(q[j])
      /\ \A x \in S : \E j \in 1 .. Len(es) : q[j] = x
      /\ \A j, h \in 1 .. Len(es) : q[j] = q[h] => j = h
  BY EntriesFacts
<1>2. PICK p \in Placements(EntryKeys(es)) : Rebuild(es, p, n, ev)
  BY DEF RebuildFrom
<1>. HIDE DEF es, ev
<1>3. /\ DOMAIN EntryKeys(es) = 1 .. Len(es)
      /\ \A j \in 1 .. Len(es) : EntryKeys(es)[j] = es[j].key /\ es[j] \in Entered
  BY <1>1, KeysOfEntries
<1>4. PICK j \in 1 .. Len(es) : q[j] = i
  BY <1>1
<1>5. \A x \in S : /\ Entry(x).key = rows[x] /\ Entry(x).alias = manifest.alias[x]
                   /\ Entry(x).content = files[manifest.path[x]]
  BY EntryFacts
<1>6. /\ es[j].key = rows[i] /\ es[j].alias = manifest.alias[i]
      /\ es[j].content = files[manifest.path[i]] /\ es[j] \in Entered
  BY <1>1, <1>3, <1>4, <1>5
<1>7. CASE j \in Standing(p, 1 .. Len(es))
  <2>1. Carried(i)
    BY <1>1, <1>2, <1>6, <1>7, EntryCarried
  <2>2. DOMAIN es = 1 .. Len(es)
    BY <1>1
  <2>3. Addresses(i) \subseteq EntryAddresses(es) /\ Addresses(i) \subseteq Keys
    BY <1>6, <2>2 DEF Addresses, EntryAddresses, Entered
  <2>4. \A k \in Addresses(i) : evidence'[k] = evidence[k]
    BY <1>2, <2>3 DEF Rebuild, EvidenceOf, ev
  <2>5. QED
    BY <2>1, <2>4
<1>8. CASE j \notin Standing(p, 1 .. Len(es))
  <2>1. PICK h \in 1 .. Len(es) :
          h # j /\ <<EntryKeys(es)[j], EntryKeys(es)[h]>> \in Near
    BY <1>1, <1>2, <1>3, <1>8, LostToMatch
  <2>2. q[h] \in S /\ q[h] # i /\ es[h].key = rows[q[h]]
    BY <1>1, <1>4, <1>5, <2>1
  <2>3. <<rows[i], rows[q[h]]>> \in Near
    BY <1>3, <1>6, <2>1, <2>2
  <2>4. QED
    BY <2>2, <2>3
<1>9. QED
  BY <1>7, <1>8

LEMMA StepCarries ==
  ASSUME IInv, Next, Idle, Idle', made' = made, NEW i \in Occupied
  PROVE  \/ Carried(i) /\ \A k \in Addresses(i) : evidence'[k] = evidence[k]
         \/ RowIsProtected(i) =>
              \E h \in Occupied \ {i} : <<rows[i], rows[h]>> \in Near
<1>1. CASE Grow
  <2>1. InOrder(Occupied) \in Orders(Occupied) /\ Occupied \in SUBSET Occupied
    BY OccupiedRows
  <2>2. QED
    BY <1>1, <2>1, CarriedOver DEF Grow
<1>2. CASE \E S \in SUBSET Occupied : Compact(S)
  <2>1. PICK S \in SUBSET Occupied : Compact(S)
    BY <1>2
  <2>2. RowIsProtected(i) => i \in S
    BY <2>1 DEF Compact
  <2>3. QED
    BY <2>1, <2>2, CarriedOver DEF Compact
<1>3. CASE \E S \in SUBSET Occupied, k \in Keys : \E A \in SUBSET (Keys \ {k}) :
             \E seen \in {<<>>} \union Observations({k} \union A) :
               Consolidate(S, k, A, seen)
  <2>1. made \in Nat /\ made' = made + 1
    BY <1>3, BankAssumption DEF Consolidate, IInv, TypeOK
  <2>2. QED
    BY <2>1
<1>4. todo = Done /\ todo' = Done /\ up = "up"
  BY DEF Idle, Done
<1>5. CASE \E k \in Keys : PutMatching(k) \/ PutFree(k) \/ PutEvicting(k)
  BY <1>4, <1>5, PutPlaces, Suffixes DEF Place, FullSaves
<1>6. CASE \/ WriteRows \/ TruncateRetention \/ WriteRetention
           \/ WriteManifest \/ WriteChecksum \/ WriteRaises
  BY <1>4, <1>6 DEF WriteRows, TruncateRetention, WriteRetention, WriteManifest,
     WriteChecksum, WriteRaises, Next1, Done
<1>7. CASE \E seen \in Observations(Keys) : ObserveRetention(seen)
  BY <1>4, <1>7, Suffixes DEF ObserveRetention, RetentionSaves
<1>8. CASE \/ \E r \in Rows : Promote(r)
           \/ \E r \in Rows : EvictHot({r})
           \/ EvictHot(Rows)
  <2>1. rows' = rows /\ manifest' = manifest /\ files' = files /\ evidence' = evidence
    BY <1>8 DEF Promote, EvictHot, diskVars
  <2>2. i \in Rows
    BY DEF Occupied
  <2>3. Carried(i)
    BY <2>1, <2>2 DEF Carried, Addresses
  <2>4. QED
    BY <2>1, <2>3
<1>9. CASE Stop \/ Load \/ LoadRaises
  BY <1>4, <1>9 DEF Stop, Load, LoadRaises, Idle
<1>10. QED
  BY <1>1, <1>2, <1>3, <1>5, <1>6, <1>7, <1>8, <1>9 DEF Next

(* Growth and compaction carry protection over: every address of a         *)
(* protected row leads to the same artifact, on the same evidence, unless  *)
(* the key of another row matches its own.  They put row after row and do  *)
(* not look: LostToMatch says that nothing else loses one.                 *)
THEOREM ProtectionCarried == Spec => RebuildCarriesProtection
<1>. DEFINE Kept ==
       Idle /\ Idle' /\ made' = made =>
         \A i \in Occupied : RowIsProtected(i) =>
           \/ Carried(i) /\ \A k \in Addresses(i) : evidence'[k] = evidence[k]
           \/ \E h \in Occupied \ {i} : <<rows[i], rows[h]>> \in Near
<1>1. IInv /\ [Next]_vars => [Kept]_vars
  BY StepCarries
<1>2. Spec => [][Kept]_vars
  BY <1>1, AlwaysIInv, PTL DEF Spec
<1>3. QED
  BY <1>2 DEF RebuildCarriesProtection

(* What a consolidation leaves of row i: the row, or a replacement that    *)
(* outcomes of its own have left evidence on.                              *)
LEMMA ConsolidationSpares ==
  ASSUME IInv, NEW S \in SUBSET Occupied, NEW k \in Keys,
         NEW A \in SUBSET (Keys \ {k}),
         NEW seen \in {<<>>} \union Observations({k} \union A),
         Consolidate(S, k, A, seen), NEW i \in Occupied, RowIsProtected(i)
  PROVE  Consolidated /\ (Carried(i) \/ Vouched)
<1>. DEFINE kept == KeptEntries(S)
            es == NewEntries(S, k, A)
            ev == NewEvidence(S, seen)
<1>1. /\ KeptRows(S) \in Orders(Occupied \ S)
      /\ kept \in Seq(Entered) /\ es \in Seq(Entered) /\ Len(es) <= MaxRows
      /\ Len(es) = Len(kept) + 1
      /\ ev \in [Keys -> Evidence]
      /\ \E p \in Placements(EntryKeys(es)) :
           OneRowEach(p) /\ Rebuild(es, p, Len(es), ev)
      /\ es[1] = Replacement(k, A)
      /\ \A j \in 1 .. Len(kept) : es[j + 1] = kept[j]
  BY ConsolidateFacts
<1>2. PICK p \in Placements(EntryKeys(es)) :
        OneRowEach(p) /\ Rebuild(es, p, Len(es), ev)
  BY <1>1
<1>3. Len(es) \in Nat /\ Len(kept) \in Nat /\ DOMAIN EntryKeys(es) = 1 .. Len(es)
  BY <1>1, KeysOfEntries
<1>4. /\ p \in [1 .. Len(es) -> 1 .. Len(es)]
      /\ 1 \in 1 .. Len(es) => p[1] = 1
  BY <1>3, PlacedFirst
<1>5. Standing(p, 1 .. Len(es)) = 1 .. Len(es)
  BY <1>2, <1>3, <1>4, OneRowStands
<1>6. Consolidated
  <2>1. todo = <<>>
    BY DEF Consolidate, Idle
  <2>2. todo' = todo
    BY <1>2 DEF Rebuild
  <2>3. QED
    BY <2>1, <2>2 DEF Consolidated
<1>7. CASE i \notin S
  <2>1. \A r \in Occupied \ S : Verified(rows, manifest, r)
    BY DEF Consolidate
  <2>2. i \in Occupied \ S /\ Occupied \ S \in SUBSET Occupied
    BY <1>7
  <2>3. \E j \in 1 .. Len(kept) : kept[j] = Entry(i)
    <3>1. /\ \A j \in 1 .. Len(kept) : kept[j] = Entry(KeptRows(S)[j])
          /\ \E j \in 1 .. Len(kept) : KeptRows(S)[j] = i
      BY <1>1, <2>1, <2>2, EntriesFacts DEF KeptEntries
    <3>. HIDE DEF kept
    <3>2. QED
      BY <3>1
  <2>4. /\ Entry(i).key = rows[i] /\ Entry(i).alias = manifest.alias[i]
        /\ Entry(i).content = files[manifest.path[i]]
    BY <2>1, <2>2, EntryFacts
  <2>. HIDE DEF kept, es, ev
  <2>5. PICK j \in 1 .. Len(kept) : kept[j] = Entry(i)
    BY <2>3
  <2>6. PICK h \in 1 .. Len(es) : es[h] = Entry(i)
    <3>1. j + 1 \in 1 .. Len(es) /\ es[j + 1] = Entry(i)
      BY <1>1, <1>3, <2>5
    <3>2. QED
      BY <3>1
  <2>7. h \in Standing(p, 1 .. Len(es))
    BY <1>5
  <2>8. Carried(i)
    BY <1>1, <1>2, <2>4, <2>6, <2>7, EntryCarried
  <2>9. QED
    BY <1>6, <2>8
<1>8. CASE i \in S
  <2>1. DOMAIN seen # {} /\ seen # <<>>
    BY <1>8 DEF Consolidate, OutcomesRequired
  <2>2. PICK T \in SUBSET ({k} \union A) : T # {} /\ seen \in [T -> Levels]
    BY <2>1 DEF Observations
  <2>3. PICK a \in T : TRUE
    BY <2>2
  <2>4. a \in {k} \union A /\ a \in Keys /\ a \in DOMAIN seen /\ seen[a] # "none"
    BY <2>2, <2>3, BankAssumption
  <2>5. ev[a] = seen[a]
    BY <2>4 DEF NewEvidence, Observed
  <2>. HIDE DEF es, kept, ev
  <2>6. 1 \in 1 .. Len(es)
    BY <1>1, <1>3
  <2>7. p[1] = 1 /\ 1 \in Rows /\ 1 \in Standing(p, 1 .. Len(es))
    BY <1>1, <1>3, <1>4, <1>5, <2>6, BankAssumption DEF Rows
  <2>8. HasEntry(es, p[1], 1)
    BY <1>1, <1>2, <2>7, RebuildFacts
  <2>9. rows'[1] = k /\ manifest'.alias[1] = A
    BY <1>1, <2>7, <2>8 DEF Replacement, HasEntry
  <2>10. evidence'[a] # "none"
    BY <1>2, <2>4, <2>5 DEF Rebuild
  <2>11. Vouched
    BY <2>4, <2>9, <2>10 DEF Vouched
  <2>12. QED
    BY <1>6, <2>11
<1>9. QED
  BY <1>7, <1>8

(* Where a put goes: to a row whose key matches, a free row, or one that   *)
(* may be evicted.                                                         *)
LEMMA PutFacts ==
  ASSUME IInv, NEW n \in Keys, PutMatching(n) \/ PutFree(n) \/ PutEvicting(n)
  PROVE  \E p \in Rows :
           /\ Place(n, p)
           /\ p \in Occupied => <<rows[p], n>> \in Near \/ Evictable(p)
<1>1. CASE PutMatching(n)
  BY <1>1 DEF PutMatching, MatchingRows, Matching, Occupied
<1>2. CASE PutFree(n)
  <2>1. PICK p \in Free : Place(n, p)
    BY <1>2 DEF PutFree
  <2>2. capacity \in Rows /\ MaxRows \in Nat
    BY BankAssumption DEF IInv, TypeOK
  <2>3. p \in Rows /\ p \notin Occupied
    BY <2>1, <2>2 DEF Free, Rows
  <2>4. QED
    BY <2>1, <2>3
<1>3. CASE PutEvicting(n)
  BY <1>3 DEF PutEvicting, Occupied
<1>4. QED
  BY <1>1, <1>2, <1>3

LEMMA PutKeepsOthers ==
  ASSUME IInv, NEW n \in Keys, NEW p \in Rows, Place(n, p)
  PROVE  /\ todo' = Save
         /\ \A i \in Rows : i # p => LeftInPlace(i)
         /\ rows'[p] = n /\ manifest'.hash[p] = [key |-> n, made |-> made']
<1>1. /\ rows' = [rows EXCEPT ![p] = n]
      /\ manifest'.path = [manifest.path EXCEPT ![p] = ArtifactVersion]
      /\ manifest'.hash = [manifest.hash EXCEPT ![p] = [key |-> n, made |-> made + 1]]
      /\ manifest'.alias = [manifest.alias EXCEPT ![p] = {}]
      /\ todo' = Save /\ made' = made + 1
  BY DEF Place
<1>2. /\ rows \in [Rows -> Keys \union {Nothing}]
      /\ manifest.path \in [Rows -> 0 .. MaxVersion]
      /\ manifest.hash \in [Rows -> Contents \union {Nothing}]
      /\ manifest.alias \in [Rows -> SUBSET Keys]
  BY DEF IInv, TypeOK, Manifests
<1>3. ASSUME NEW i \in Rows, i # p PROVE LeftInPlace(i)
  BY <1>1, <1>2, <1>3 DEF LeftInPlace
<1>4. QED
  BY <1>1, <1>2, <1>3

LEMMA StepSpares ==
  ASSUME IInv, Next, Idle, up' = "up", made' # made,
         NEW i \in Occupied, RowIsProtected(i)
  PROVE  \/ LeftInPlace(i) \/ WrittenOver(i)
         \/ Consolidated /\ (Carried(i) \/ Vouched)
<1>1. CASE \E n \in Keys : PutMatching(n) \/ PutFree(n) \/ PutEvicting(n)
  <2>1. PICK n \in Keys : PutMatching(n) \/ PutFree(n) \/ PutEvicting(n)
    BY <1>1
  <2>2. PICK p \in Rows : /\ Place(n, p)
                          /\ p \in Occupied => <<rows[p], n>> \in Near \/ Evictable(p)
    BY <2>1, PutFacts
  <2>3. /\ todo' = Save /\ rows'[p] = n
        /\ manifest'.hash[p] = [key |-> n, made |-> made']
        /\ \A r \in Rows : r # p => LeftInPlace(r)
    BY <2>2, PutKeepsOthers
  <2>4. i \in Rows
    BY DEF Occupied
  <2>5. CASE p = i
    BY <2>2, <2>3, <2>5 DEF Evictable, WrittenOver
  <2>6. QED
    BY <2>3, <2>4, <2>5
<1>2. CASE \E S \in SUBSET Occupied, k \in Keys : \E A \in SUBSET (Keys \ {k}) :
             \E seen \in {<<>>} \union Observations({k} \union A) :
               Consolidate(S, k, A, seen)
  BY <1>2, ConsolidationSpares
<1>3. CASE Grow \/ \E S \in SUBSET Occupied : Compact(S)
  BY <1>3 DEF Grow, Compact
<1>4. CASE \/ WriteRows \/ TruncateRetention \/ WriteRetention
           \/ WriteManifest \/ WriteChecksum \/ WriteRaises
  BY <1>4 DEF WriteRows, TruncateRetention, WriteRetention,
     WriteManifest, WriteChecksum, WriteRaises, histVars
<1>5. CASE \/ \E seen \in Observations(Keys) : ObserveRetention(seen)
           \/ \E r \in Rows : Promote(r)
           \/ \E r \in Rows : EvictHot({r})
           \/ EvictHot(Rows)
           \/ Stop \/ Load \/ LoadRaises
  BY <1>5 DEF ObserveRetention, Promote, EvictHot, Stop, Load, LoadRaises, histVars
<1>6. QED
  BY <1>1, <1>2, <1>3, <1>4, <1>5 DEF Next

(* A row with a protected address, primary or alias, is evicted by no put: *)
(* only a put whose key matches its own takes it.  A consolidation gives   *)
(* it up only for evidence of the replacement's own.                       *)
THEOREM ProtectedRowsKept == Spec => ProtectedRowsSurvive
<1>. DEFINE Spared ==
       Idle /\ up' = "up" /\ made' # made =>
         \A i \in Occupied : RowIsProtected(i) =>
           \/ LeftInPlace(i) \/ WrittenOver(i)
           \/ Consolidated /\ (Carried(i) \/ Vouched)
<1>1. IInv /\ [Next]_vars => [Spared]_vars
  BY StepSpares
<1>2. Spec => [][Spared]_vars
  BY <1>1, AlwaysIInv, PTL DEF Spec
<1>3. QED
  BY <1>2 DEF ProtectedRowsSurvive

-----------------------------------------------------------------------------
(* Where no write raises *)

(* The put under way is alone in having written its row and not yet its    *)
(* manifest.                                                               *)
BeforeManifest == {Save, AfterRows, AfterTruncate, AfterEvidence}

DirtyInv ==
  /\ \A i, j \in dirty : i = j
  /\ todo \notin BeforeManifest => dirty = {}

LEMMA OthersHaveWritten ==
  /\ Done \notin BeforeManifest /\ AfterManifest \notin BeforeManifest
  /\ SaveRetention \notin BeforeManifest
  /\ AfterRetentionTruncate \notin BeforeManifest
BY Suffixes DEF BeforeManifest, RetentionSaves, FullSaves

(* The actions that make a new bank, and the one step they all make.       *)
Rebuilt ==
  \/ Grow
  \/ \E S \in SUBSET Occupied : Compact(S)
  \/ \E S \in SUBSET Occupied, k \in Keys : \E A \in SUBSET (Keys \ {k}) :
       \E seen \in {<<>>} \union Observations({k} \union A) :
         Consolidate(S, k, A, seen)

LEMMA RebuiltFrom ==
  ASSUME IInv, Rebuilt
  PROVE  /\ Idle
         /\ \E es \in Seq(Entered) : \E p \in Placements(EntryKeys(es)) : \E n, ev :
              /\ Rebuild(es, p, n, ev)
              /\ cut = {} => \A j \in 1 .. Len(es) : ~ es[j].foreign
<1>. DEFINE Made(es) == /\ es \in Seq(Entered)
                        /\ cut = {} => \A j \in 1 .. Len(es) : ~ es[j].foreign
<1>1. ASSUME NEW S \in SUBSET Occupied, NEW q \in Orders(S),
             \A i \in S : Verified(rows, manifest, i)
      PROVE  Made(Entries(q))
  <2>1. /\ Entries(q) \in Seq(Entered)
        /\ \A j \in 1 .. Len(Entries(q)) : Entries(q)[j] = Entry(q[j])
    BY <1>1, EntriesFacts
  <2>2. ASSUME cut = {}, NEW j \in 1 .. Len(Entries(q)) PROVE ~ Entries(q)[j].foreign
    <3>1. Entry(q[j]).foreign <=> q[j] \in cut
      BY DEF Entry
    <3>2. Entries(q)[j] = Entry(q[j])
      BY <2>1
    <3>3. QED
      BY <2>2, <3>1, <3>2
  <2>3. QED
    BY <2>1, <2>2
<1>2. ASSUME NEW S \in SUBSET Occupied, NEW q \in Orders(S), NEW n,
             \A i \in S : Verified(rows, manifest, i), RebuildFrom(q, n)
      PROVE  /\ Made(Entries(q))
             /\ \E p \in Placements(EntryKeys(Entries(q))) :
                  Rebuild(Entries(q), p, n, EvidenceOf(EntryAddresses(Entries(q))))
  <2>1. Made(Entries(q))
    BY <1>1, <1>2
  <2>. HIDE DEF Made
  <2>2. QED
    BY <1>2, <2>1 DEF RebuildFrom
<1>3. ASSUME NEW S \in SUBSET Occupied, NEW k \in Keys,
             NEW A \in SUBSET (Keys \ {k}),
             NEW seen \in {<<>>} \union Observations({k} \union A),
             Consolidate(S, k, A, seen)
      PROVE  /\ Idle /\ Made(NewEntries(S, k, A))
             /\ \E p \in Placements(EntryKeys(NewEntries(S, k, A))) :
                  Rebuild(NewEntries(S, k, A), p, Len(NewEntries(S, k, A)),
                          NewEvidence(S, seen))
  <2>. DEFINE kept == KeptEntries(S)
              es == NewEntries(S, k, A)
  <2>1. Idle /\ \A i \in Occupied \ S : Verified(rows, manifest, i)
    BY <1>3 DEF Consolidate
  <2>2. /\ KeptRows(S) \in Orders(Occupied \ S)
        /\ es \in Seq(Entered) /\ Len(es) = Len(kept) + 1
        /\ es[1] = Replacement(k, A)
        /\ \A j \in 1 .. Len(kept) : es[j + 1] = kept[j]
        /\ \E p \in Placements(EntryKeys(es)) :
             OneRowEach(p) /\ Rebuild(es, p, Len(es), NewEvidence(S, seen))
    BY <1>3, ConsolidateFacts
  <2>3. Made(kept)
    <3>1. Occupied \ S \in SUBSET Occupied
      OBVIOUS
    <3>2. QED
      BY <1>1, <2>1, <2>2, <3>1 DEF KeptEntries
  <2>4. Len(kept) \in Nat
    BY <2>3
  <2>. HIDE DEF kept, es
  <2>5. ASSUME cut = {}, NEW j \in 1 .. Len(es) PROVE ~ es[j].foreign
    <3>1. CASE j = 1
      BY <2>2, <3>1 DEF Replacement
    <3>2. CASE j # 1
      <4>1. j - 1 \in 1 .. Len(kept) /\ j = (j - 1) + 1
        BY <2>2, <2>4, <3>2
      <4>2. es[j] = kept[j - 1]
        BY <2>2, <4>1
      <4>3. QED
        BY <2>3, <2>5, <4>1, <4>2
    <3>3. QED
      BY <3>1, <3>2
  <2>6. QED
    BY <2>1, <2>2, <2>5 DEF es
<1>4. QED
  <2>. HIDE DEF Made
  <2>1. \A es : Made(es) =>
          /\ es \in Seq(Entered)
          /\ cut = {} => \A j \in 1 .. Len(es) : ~ es[j].foreign
    BY DEF Made
  <2>2. CASE Grow
    <3>1. InOrder(Occupied) \in Orders(Occupied) /\ Occupied \in SUBSET Occupied
      BY OccupiedRows
    <3>2. /\ Idle /\ RebuildFrom(InOrder(Occupied), capacity + 1)
          /\ \A i \in Occupied : Verified(rows, manifest, i)
      BY <2>2 DEF Grow
    <3>3. QED
      BY <1>2, <2>1, <3>1, <3>2
  <2>3. CASE \E S \in SUBSET Occupied : Compact(S)
    <3>1. PICK S \in SUBSET Occupied : Compact(S)
      BY <2>3
    <3>2. PICK q \in Orders(S) : RebuildFrom(q, Cardinality(S))
      BY <3>1 DEF Compact
    <3>3. Idle /\ \A i \in S : Verified(rows, manifest, i)
      BY <3>1 DEF Compact
    <3>4. QED
      BY <1>2, <2>1, <3>2, <3>3
  <2>4. CASE \E S \in SUBSET Occupied, k \in Keys : \E A \in SUBSET (Keys \ {k}) :
               \E seen \in {<<>>} \union Observations({k} \union A) :
                 Consolidate(S, k, A, seen)
    BY <1>3, <2>1, <2>4
  <2>5. QED
    BY <2>2, <2>3, <2>4 DEF Rebuilt

LEMMA DirtyStep ==
  ASSUME IInv, DirtyInv, [Next]_vars, "disk" \notin Faults
  PROVE  DirtyInv'
<1>0. MemoryInv
  BY DEF IInv
<1>1. CASE WriteRows
  BY <1>0, <1>1, StepsInOrder, OthersHaveWritten
  DEF DirtyInv, WriteRows, BeforeManifest
<1>2. CASE TruncateRetention
  BY <1>0, <1>2, StepsInOrder, OthersHaveWritten
  DEF DirtyInv, TruncateRetention, BeforeManifest, histVars
<1>3. CASE WriteRetention
  BY <1>0, <1>3, StepsInOrder, OthersHaveWritten
  DEF DirtyInv, WriteRetention, BeforeManifest, histVars
<1>4. CASE WriteManifest \/ Stop
  BY <1>4 DEF DirtyInv, WriteManifest, Stop
<1>5. CASE WriteChecksum
  BY <1>0, <1>5, StepsInOrder, OthersHaveWritten DEF DirtyInv, WriteChecksum
<1>6. CASE WriteRaises
  BY <1>6 DEF WriteRaises
<1>7. CASE \E k \in Keys : PutMatching(k) \/ PutFree(k) \/ PutEvicting(k)
  <2>1. PICK i \in Rows : Idle /\ dirty' = dirty \union {i} /\ todo' = Save
    BY <1>7, PutPlaces DEF Place
  <2>2. dirty = {}
    BY <2>1, OthersHaveWritten DEF DirtyInv, Idle, Done
  <2>3. QED
    BY <2>1, <2>2 DEF DirtyInv, BeforeManifest
<1>8. CASE \E seen \in Observations(Keys) : ObserveRetention(seen)
  <2>1. Idle /\ dirty' = dirty
    BY <1>8 DEF ObserveRetention, histVars
  <2>2. QED
    BY <2>1, OthersHaveWritten DEF DirtyInv, Idle, Done
<1>9. CASE \/ \E i \in Rows : Promote(i) \/ EvictHot({i})
           \/ EvictHot(Rows) \/ Load \/ LoadRaises
  BY <1>9 DEF DirtyInv, Promote, EvictHot, Load, LoadRaises, histVars
<1>10. CASE Rebuilt
  BY <1>10, RebuiltFrom DEF DirtyInv, Rebuild
<1>11. CASE UNCHANGED vars
  BY <1>11 DEF DirtyInv, vars, histVars
<1>12. QED
  BY <1>1, <1>2, <1>3, <1>4, <1>5, <1>6, <1>7, <1>8, <1>9, <1>10, <1>11 DEF Next, Rebuilt

(* What a stop of the process can leave behind of the rows.                *)
CrashCutsOneRow ==
  [][up = "up" /\ up' = "down" =>
       /\ \A i, j \in cut' \ cut : i = j
       /\ todo = <<>> => cut' = cut]_vars

(* Unless a write raises, the process stops with at most one more row that *)
(* may serve a foreign artifact, that of the put under way, and between    *)
(* calls with none: a crash harms no row but the one it was writing.       *)
THEOREM OneRowPerCrash == "disk" \notin Faults => (Spec => CrashCutsOneRow)
<1>1. SUFFICES ASSUME "disk" \notin Faults PROVE Spec => CrashCutsOneRow
  OBVIOUS
<1>. DEFINE OneCut == up = "up" /\ up' = "down" =>
                        /\ \A i, j \in cut' \ cut : i = j
                        /\ todo = <<>> => cut' = cut
<1>2. Init => DirtyInv
  BY DEF Init, DirtyInv
<1>3. IInv /\ DirtyInv /\ [Next]_vars => DirtyInv'
  BY <1>1, DirtyStep
<1>4. ASSUME IInv, DirtyInv, Next, up = "up", up' = "down"
      PROVE  Stop
  BY <1>4
  DEF Next, WriteRows, TruncateRetention, WriteRetention, WriteManifest,
      WriteChecksum, WriteRaises, PutMatching, PutFree, PutEvicting, Place,
      ObserveRetention, Promote, EvictHot, Load, LoadRaises, Grow, Compact,
      RebuildFrom, Consolidate, Rebuild
<1>5. IInv /\ DirtyInv /\ [Next]_vars => [OneCut]_vars
  <2>1. SUFFICES ASSUME IInv, DirtyInv, Next, up = "up", up' = "down" PROVE OneCut
    OBVIOUS
  <2>2. cut' = cut \union exposed
    BY <1>4, <2>1 DEF Stop
  <2>3. exposed \subseteq dirty
    BY <2>1 DEF IInv, MemoryInv
  <2>4. QED
    BY <2>1, <2>2, <2>3, OthersHaveWritten DEF DirtyInv, Done
<1>6. Spec => [][OneCut]_vars
  BY <1>2, <1>3, <1>5, AlwaysIInv, PTL DEF Spec
<1>7. QED
  BY <1>6 DEF CrashCutsOneRow

-----------------------------------------------------------------------------
(* Where nothing stops a save *)

(* No write raises, and the process ends between two calls only.           *)
NothingStops == Faults = {}

CalmInv == ~ interrupted /\ cut = {}

LEMMA CalmStep ==
  ASSUME IInv, DirtyInv, CalmInv, [Next]_vars, NothingStops
  PROVE  CalmInv'
<1>1. CASE WriteRaises
  BY <1>1 DEF NothingStops, WriteRaises
<1>2. CASE Stop
  <2>1. todo = <<>> /\ dirty = {}
    BY <1>2, OthersHaveWritten DEF NothingStops, Stop, DirtyInv, Done
  <2>2. exposed = {}
    BY <2>1 DEF IInv, MemoryInv
  <2>3. QED
    BY <1>2, <2>1, <2>2 DEF CalmInv, Stop
<1>3. CASE Rebuilt
  <2>1. PICK es \in Seq(Entered) :
          \E p \in Placements(EntryKeys(es)) : \E n, ev :
            /\ Rebuild(es, p, n, ev)
            /\ cut = {} => \A j \in 1 .. Len(es) : ~ es[j].foreign
    BY <1>3, RebuiltFrom
  <2>2. PICK p \in Placements(EntryKeys(es)) : \E n, ev : Rebuild(es, p, n, ev)
    BY <2>1
  <2>3. PICK n, ev : Rebuild(es, p, n, ev)
    BY <2>2
  <2>4. \A j \in 1 .. Len(es) : ~ es[j].foreign
    BY <2>1 DEF CalmInv
  <2>5. \A i \in Rows : IsVacant(i) \/ \E h \in 1 .. Len(es) : HasEntry(es, i, h)
    BY <2>3, RebuildFacts
  <2>6. cut' \subseteq Rows /\ interrupted' = FALSE
    BY <2>3 DEF Rebuild
  <2>7. cut' = {}
    BY <2>4, <2>5, <2>6 DEF IsVacant, HasEntry
  <2>8. QED
    BY <2>6, <2>7 DEF CalmInv
<1>4. CASE \E k \in Keys : PutMatching(k) \/ PutFree(k) \/ PutEvicting(k)
  BY <1>4, PutPlaces DEF CalmInv, Place
<1>5. CASE \/ WriteRows \/ TruncateRetention \/ WriteRetention
           \/ WriteManifest \/ WriteChecksum
  BY <1>5
  DEF CalmInv, WriteRows, TruncateRetention, WriteRetention, WriteManifest,
      WriteChecksum, histVars
<1>6. CASE \/ \E seen \in Observations(Keys) : ObserveRetention(seen)
           \/ \E i \in Rows : Promote(i) \/ EvictHot({i})
           \/ EvictHot(Rows) \/ Load \/ LoadRaises
  BY <1>6 DEF CalmInv, ObserveRetention, Promote, EvictHot, Load, LoadRaises, histVars
<1>7. CASE UNCHANGED vars
  BY <1>7 DEF CalmInv, vars, histVars
<1>8. QED
  BY <1>1, <1>2, <1>3, <1>4, <1>5, <1>6, <1>7 DEF Next, Rebuilt

(* A directory that never had a full save is all that load may refuse.     *)
RefusedOnlyUnsaved == up = "refused" => diskManifest = Nothing

(* Where no save is cut short, put is as good as atomic: every row serves  *)
(* what was put under its key, and only a directory that never had a full  *)
(* save refuses to load.  bank_crash shows that the condition is needed.   *)
THEOREM CalmBankServesItsOwn ==
  NothingStops => (Spec => [](RowsServeTheirOwn /\ RefusedOnlyUnsaved))
<1>1. SUFFICES ASSUME NothingStops
               PROVE  Spec => [](RowsServeTheirOwn /\ RefusedOnlyUnsaved)
  OBVIOUS
<1>2. Init => DirtyInv /\ CalmInv
  BY DEF Init, DirtyInv, CalmInv
<1>3. IInv /\ DirtyInv /\ [Next]_vars => DirtyInv'
  BY <1>1, DirtyStep DEF NothingStops
<1>4. IInv /\ DirtyInv /\ CalmInv /\ [Next]_vars => CalmInv'
  BY <1>1, CalmStep
<1>5. IInv /\ CalmInv => RowsServeTheirOwn /\ RefusedOnlyUnsaved
  BY DEF IInv, ForeignInv, DownInv, RefusedOnlyAfterInterruption, CalmInv,
     RowsServeTheirOwn, RefusedOnlyUnsaved
<1>6. QED
  BY <1>2, <1>3, <1>4, <1>5, AlwaysIInv, PTL DEF Spec

-----------------------------------------------------------------------------
(* What a put may take *)

PutTakesOnlyItsMatch ==
  [][todo = <<>> /\ todo' = Save =>
       \A i \in Occupied : \A k \in Addresses(i) :
         evidence[k] = "protected" =>
           \/ \E j \in Rows : rows'[j] = k \/ k \in manifest'.alias[j]
           \/ WrittenOver(i)]_vars

LEMMA PutSpares ==
  ASSUME IInv, NEW n \in Keys, PutMatching(n) \/ PutFree(n) \/ PutEvicting(n),
         NEW i \in Occupied, NEW k \in Addresses(i), evidence[k] = "protected"
  PROVE  \/ \E j \in Rows : rows'[j] = k \/ k \in manifest'.alias[j]
         \/ WrittenOver(i)
<1>1. i \in Rows /\ RowIsProtected(i)
  BY DEF Occupied, RowIsProtected
<1>2. PICK p \in Rows : /\ Place(n, p)
                        /\ p \in Occupied => <<rows[p], n>> \in Near \/ Evictable(p)
  BY PutFacts
<1>3. /\ \A r \in Rows : r # p => LeftInPlace(r)
      /\ todo' = Save
      /\ rows'[p] = n /\ manifest'.hash[p] = [key |-> n, made |-> made']
  BY <1>2, PutKeepsOthers
<1>4. CASE p # i
  <2>1. rows'[i] = rows[i] /\ manifest'.alias[i] = manifest.alias[i]
    BY <1>1, <1>3, <1>4 DEF LeftInPlace
  <2>2. QED
    BY <1>1, <2>1 DEF Addresses
<1>5. CASE p = i
  BY <1>1, <1>2, <1>3, <1>5 DEF Evictable, WrittenOver
<1>6. QED
  BY <1>4, <1>5

(* "Without evicting protected capabilities": a put leaves every protected *)
(* address with the bank, but for those of the one row whose primary key   *)
(* matched the key it was given.  bank_alias shows that it takes those.    *)
THEOREM PutLosesOnlyItsMatch == Spec => PutTakesOnlyItsMatch
<1>. DEFINE Spares ==
       todo = <<>> /\ todo' = Save =>
         \A i \in Occupied : \A k \in Addresses(i) :
           evidence[k] = "protected" =>
             \/ \E j \in Rows : rows'[j] = k \/ k \in manifest'.alias[j]
             \/ WrittenOver(i)
<1>1. ASSUME IInv, Next, todo = <<>>, todo' = Save
      PROVE  \E n \in Keys : PutMatching(n) \/ PutFree(n) \/ PutEvicting(n)
  <2>1. SaveRetention # Save /\ Save # <<>>
    BY Suffixes DEF RetentionSaves, FullSaves, Done
  <2>2. ~ Rebuilt
    BY <1>1, <2>1, RebuiltFrom DEF Rebuild
  <2>3. QED
    BY <1>1, <2>1, <2>2
    DEF Next, Rebuilt, WriteRows, TruncateRetention, WriteRetention, WriteManifest,
        WriteChecksum, WriteRaises, Next1, ObserveRetention, Promote, EvictHot, Stop,
        Load, LoadRaises
<1>2. IInv /\ [Next]_vars => [Spares]_vars
  BY <1>1, PutSpares
<1>3. Spec => [][Spares]_vars
  BY <1>2, AlwaysIInv, PTL DEF Spec
<1>4. QED
  BY <1>3 DEF PutTakesOnlyItsMatch
=============================================================================
