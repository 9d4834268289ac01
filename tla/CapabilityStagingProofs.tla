---------------------- MODULE CapabilityStagingProofs ----------------------
(***************************************************************************)
(* Machine-checked proofs about CapabilityStaging, for every set of keys,  *)
(* whichever of them match each other, and every choice of faults: between *)
(* the queue's directory and the bank's, nothing that was staged or        *)
(* admitted is lost but to a put of a key that matches it.                 *)
(***************************************************************************)
EXTENDS CapabilityStaging, WellFoundedInduction, TLAPS

(* The bank's directory holds k with the evidence that it was admitted by. *)
Kept(k) ==
  /\ k \in Executable
  /\ bankEvidence[k] = "protected" /\ k \notin unsavedEvidence

(* What a call in progress has done so far.                                *)
CallInv ==
  /\ pc = "idle" <=> call = "none"
  /\ pc = "idle" => unsaved = {}
  /\ pc # "idle" => key \in Keys /\ up = "up"
  /\ pc = "unlink" => manifest = staged
  /\ pc = "adopt" => call = "admit" /\ key \in staged /\ unsavedEvidence = {}
  /\ call = "stage" => key \in staged
  /\ call = "admit" => key \in Executable
  /\ call = "admit" /\ pc # "adopt" =>
       Kept(key) /\ key \notin staged /\ key \notin undo

(* A last row.                                                             *)
Bounded(b) == \E n \in Nat : \A i \in DOMAIN b : i <= n

(* What the bank executes has evidence in its directory, but for the key   *)
(* of an admission that is not done, or was never finished.                *)
BankInv ==
  /\ Bounded(bank)
  /\ \A k \in Executable :
       \/ bankEvidence[k] # "none" /\ k \notin unsavedEvidence
       \/ k \in cutShort \/ (pc = "adopt" /\ k = key)

(* What is owed and not in the bank with its evidence is in the manifest,  *)
(* in the queue that the next manifest is written from, and in the one that*)
(* a raising _persist goes back to.  What is owed and staged is listed.    *)
OwedInv ==
  /\ \A k \in owed : Kept(k) \/ k \in manifest
  /\ up = "up" => \A k \in owed : Kept(k) \/ k \in staged
  /\ owed \intersect staged \subseteq manifest
  /\ pc \in {"files", "unlink"} =>
       /\ \A k \in owed : Kept(k) \/ k \in undo
       /\ owed \intersect undo \subseteq staged \intersect manifest

(* What is admitted is in none of the three.                               *)
AdmittedInv ==
  /\ \A k \in admitted : Kept(k) /\ k \notin manifest
  /\ up = "up" => \A k \in admitted : k \notin staged
  /\ pc \in {"files", "unlink"} => \A k \in admitted : k \notin undo

(* What is in one of the three and executable too was cut short, or is the *)
(* key of the admission under way, until the queue is saved without it.    *)
StagedInv ==
  /\ staged \intersect Executable \subseteq
       cutShort \union (IF pc = "adopt" THEN {key} ELSE {})
  /\ manifest \intersect Executable \subseteq
       cutShort \union (IF call = "admit" THEN {key} ELSE {})
  /\ pc \in {"files", "unlink"} => undo \intersect Executable \subseteq cutShort

(* Only _persist, before it has written the manifest, makes the files      *)
(* disagree with it.                                                       *)
FileInv ==
  /\ pc # "files" /\ ~ interrupted => Loadable
  /\ up = "refused" => interrupted

IInv ==
  /\ TypeOK /\ CallInv /\ BankInv /\ OwedInv /\ AdmittedInv /\ StagedInv
  /\ FileInv

-----------------------------------------------------------------------------
(* _persist *)

LEMMA WriteFileKeeps ==
  ASSUME IInv, NEW k \in Keys, WriteFile(k)
  PROVE  IInv'
<1>1. TypeOK'
  BY DEF IInv, TypeOK, Executable, WriteFile, histVars, bankVars
<1>2. CallInv'
  BY DEF IInv, CallInv, Kept, Executable, WriteFile, histVars, bankVars
<1>3. BankInv'
  BY DEF IInv, BankInv, Executable, WriteFile, histVars, bankVars
<1>4. OwedInv'
  BY DEF IInv, OwedInv, Kept, Executable, WriteFile, histVars, bankVars
<1>5. AdmittedInv'
  BY DEF IInv, AdmittedInv, Kept, Executable, WriteFile, histVars, bankVars
<1>6. StagedInv'
  BY DEF IInv, StagedInv, Executable, WriteFile, histVars, bankVars
<1>7. FileInv'
  BY DEF FileInv, WriteFile, histVars
<1>8. QED
  BY <1>1, <1>2, <1>3, <1>4, <1>5, <1>6, <1>7 DEF IInv

LEMMA WriteManifestKeeps ==
  ASSUME IInv, WriteManifest
  PROVE  IInv'
<1>1. TypeOK'
  BY DEF IInv, TypeOK, Executable, WriteManifest, ManifestOf, bankVars
<1>2. CallInv'
  BY DEF IInv, CallInv, Kept, Executable, WriteManifest, ManifestOf, bankVars
<1>3. BankInv'
  BY DEF IInv, BankInv, Executable, WriteManifest, ManifestOf, bankVars
<1>4. OwedInv'
  BY DEF IInv, OwedInv, Kept, Executable, WriteManifest, ManifestOf, bankVars
<1>5. AdmittedInv'
  BY DEF IInv, AdmittedInv, Kept, Executable, WriteManifest, ManifestOf,
     bankVars
<1>6. StagedInv'
  BY DEF IInv, StagedInv, Executable, WriteManifest, ManifestOf, bankVars
<1>7. FileInv'
  BY DEF IInv, TypeOK, FileInv, Loadable, WriteManifest, ManifestOf
<1>8. QED
  BY <1>1, <1>2, <1>3, <1>4, <1>5, <1>6, <1>7 DEF IInv

LEMMA UnlinkKeeps ==
  ASSUME IInv, Unlink
  PROVE  IInv'
<1>1. TypeOK'
  BY DEF IInv, TypeOK, CallInv, Executable, Unlink, LiveFiles, NoCall,
     bankVars
<1>2. CallInv'
  BY DEF CallInv, Unlink, LiveFiles, NoCall
<1>3. BankInv'
  BY DEF IInv, CallInv, BankInv, Kept, Executable, Unlink, LiveFiles, NoCall,
     bankVars
<1>4. OwedInv'
  BY DEF IInv, CallInv, OwedInv, Kept, Executable, Unlink, LiveFiles, NoCall,
     bankVars
<1>5. AdmittedInv'
  BY DEF IInv, CallInv, AdmittedInv, Kept, Executable, Unlink, LiveFiles,
     NoCall, bankVars
<1>6. StagedInv'
  BY DEF IInv, CallInv, StagedInv, Executable, Unlink, LiveFiles, NoCall,
     bankVars
<1>7. FileInv'
  BY DEF IInv, CallInv, TypeOK, FileInv, Loadable, Unlink, LiveFiles, NoCall
<1>8. QED
  BY <1>1, <1>2, <1>3, <1>4, <1>5, <1>6, <1>7 DEF IInv

LEMMA PersistRaisesKeeps ==
  ASSUME IInv, PersistRaises
  PROVE  IInv'
<1>1. TypeOK'
  BY DEF IInv, TypeOK, CallInv, Executable, PersistRaises, CutShort, NoCall,
     storeVars, bankVars
<1>2. CallInv'
  BY DEF CallInv, PersistRaises, NoCall
<1>3. BankInv'
  BY DEF IInv, BankInv, Executable, PersistRaises, CutShort, NoCall, bankVars
<1>4. OwedInv'
  BY DEF IInv, OwedInv, Kept, Executable, PersistRaises, NoCall, storeVars,
     bankVars
<1>5. AdmittedInv'
  BY DEF IInv, AdmittedInv, Kept, Executable, PersistRaises, NoCall,
     storeVars, bankVars
<1>6. StagedInv'
  BY DEF IInv, CallInv, StagedInv, Executable, PersistRaises, CutShort,
     NoCall, storeVars, bankVars
<1>7. FileInv'
  BY DEF IInv, FileInv, Loadable, PersistRaises, NoCall, storeVars
<1>8. QED
  BY <1>1, <1>2, <1>3, <1>4, <1>5, <1>6, <1>7 DEF IInv

-----------------------------------------------------------------------------
(* stage, discard, observe, and the admission that observe may make *)

LEMMA StageKeeps ==
  ASSUME IInv, NEW k \in Keys, Stage(k)
  PROVE  IInv'
<1>1. TypeOK'
  BY DEF IInv, TypeOK, Executable, Stage, Stageable, StartPersist, storeVars,
     histVars, bankVars
<1>2. CallInv'
  BY DEF CallInv, Stage, Stageable, StartPersist, Idle, histVars
<1>3. BankInv'
  BY DEF IInv, BankInv, Executable, Stage, Stageable, StartPersist, Idle,
     histVars, bankVars
<1>4. OwedInv'
  BY DEF IInv, OwedInv, Kept, Executable, Stage, Stageable, StartPersist,
     Idle, storeVars, histVars, bankVars
<1>5. AdmittedInv'
  BY DEF IInv, AdmittedInv, Kept, Executable, Stage, Stageable, StartPersist,
     Idle, storeVars, histVars, bankVars
<1>6. StagedInv'
  BY DEF IInv, CallInv, BankInv, StagedInv, Executable, Stage, Stageable,
     StartPersist, Idle, storeVars, histVars, bankVars
<1>7. FileInv'
  BY DEF FileInv, Stage, Stageable, StartPersist, Idle, histVars
<1>8. QED
  BY <1>1, <1>2, <1>3, <1>4, <1>5, <1>6, <1>7 DEF IInv

LEMMA DiscardKeeps ==
  ASSUME IInv, NEW k \in Keys, Discard(k)
  PROVE  IInv'
<1>1. TypeOK'
  BY DEF IInv, TypeOK, Executable, Discard, StartPersist, storeVars, bankVars
<1>2. CallInv'
  BY DEF CallInv, Discard, StartPersist, Idle
<1>3. BankInv'
  BY DEF IInv, BankInv, Executable, Discard, StartPersist, Idle, bankVars
<1>4. OwedInv'
  BY DEF IInv, OwedInv, Kept, Executable, Discard, StartPersist, Idle,
     storeVars, bankVars
<1>5. AdmittedInv'
  BY DEF IInv, AdmittedInv, Kept, Executable, Discard, StartPersist, Idle,
     storeVars, bankVars
<1>6. StagedInv'
  BY DEF IInv, CallInv, StagedInv, Executable, Discard, StartPersist, Idle,
     storeVars, bankVars
<1>7. FileInv'
  BY DEF FileInv, Discard, StartPersist, Idle
<1>8. QED
  BY <1>1, <1>2, <1>3, <1>4, <1>5, <1>6, <1>7 DEF IInv

LEMMA ObserveStaysKeeps ==
  ASSUME IInv, NEW k \in Keys, ObserveStays(k)
  PROVE  IInv'
<1>1. TypeOK'
  BY DEF IInv, TypeOK, Executable, ObserveStays, StartPersist, storeVars,
     histVars, bankVars
<1>2. CallInv'
  BY DEF CallInv, ObserveStays, StartPersist, Idle, histVars
<1>3. BankInv'
  BY DEF IInv, BankInv, Executable, ObserveStays, StartPersist, Idle,
     histVars, bankVars
<1>4. OwedInv'
  BY DEF IInv, OwedInv, Kept, Executable, ObserveStays, StartPersist, Idle,
     storeVars, histVars, bankVars
<1>5. AdmittedInv'
  BY DEF IInv, AdmittedInv, Kept, Executable, ObserveStays, StartPersist,
     Idle, storeVars, histVars, bankVars
<1>6. StagedInv'
  BY DEF IInv, CallInv, StagedInv, Executable, ObserveStays, StartPersist,
     Idle, storeVars, histVars, bankVars
<1>7. FileInv'
  BY DEF FileInv, ObserveStays, StartPersist, Idle, histVars
<1>8. QED
  BY <1>1, <1>2, <1>3, <1>4, <1>5, <1>6, <1>7 DEF IInv

-----------------------------------------------------------------------------
(* The rows of an admission *)

(* A set of natural numbers has a least one, and, below a bound, a largest.*)
LEMMA LeastOf ==
  ASSUME NEW T \in SUBSET Nat, T # {}
  PROVE  \E x \in T : \A y \in T : x <= y
<1>. DEFINE R == OpToRel(<, Nat)
<1>1. \A x, y \in Nat : y < x => <<y, x>> \in R
  BY DEF OpToRel
<1>2. IsWellFoundedOn(R, Nat)
  BY NatLessThanWellFounded
<1>. HIDE DEF R
<1>3. PICK x \in T : \A y \in T : ~ (<<y, x>> \in R)
  BY <1>2, WFMin
<1>4. QED
  <2>1. \A y \in T : ~ (y < x)
    BY <1>1, <1>3, Zenon
  <2>2. QED
    BY <2>1

LEMMA LargestOf ==
  ASSUME NEW T \in SUBSET Nat, T # {}, NEW n \in Nat, \A x \in T : x <= n
  PROVE  \E x \in T : \A y \in T : y <= x
<1>. DEFINE U == {m \in Nat : \A y \in T : y <= m}
<1>1. U \in SUBSET Nat /\ n \in U
  OBVIOUS
<1>2. \A m \in Nat : m \in U <=> \A y \in T : y <= m
  OBVIOUS
<1>. HIDE DEF U
<1>3. PICK x \in U : \A y \in U : x <= y
  BY <1>1, LeastOf
<1>4. x \in Nat /\ \A y \in T : y <= x
  BY <1>1, <1>2
<1>5. ASSUME x \notin T PROVE FALSE
  <2>1. \A y \in T : y < x
    BY <1>4, <1>5
  <2>2. x > 0 /\ x - 1 \in Nat
    <3>1. PICK y \in T : TRUE
      OBVIOUS
    <3>2. y \in Nat /\ y < x
      BY <2>1
    <3>3. QED
      BY <1>4, <3>2
  <2>3. \A y \in T : y <= x - 1
    BY <1>4, <2>1
  <2>4. x - 1 \in U
    BY <1>2, <2>2, <2>3
  <2>5. QED
    BY <1>3, <1>4, <2>4
<1>6. QED
  BY <1>4, <1>5

(* The row of an entry that was written over belongs to a later key that   *)
(* its own matches.                                                        *)
LEMMA LostToMatch ==
  ASSUME NEW D \in SUBSET Nat, NEW b, DOMAIN b = D, NEW p \in Placements(b),
         NEW i \in D, i \notin Standing(p, D)
  PROVE  \E h \in D : h > i /\ <<b[i], b[h]>> \in Near
<1>. DEFINE T == {h \in D : h > i /\ p[h] = p[i]}
<1>1. T # {} /\ \A h \in T : h \in D /\ h > i /\ p[h] = p[i]
  BY DEF Standing
<1>2. \A h \in D : h > i /\ p[h] = p[i] => h \in T
  OBVIOUS
<1>3. T \in SUBSET Nat
  OBVIOUS
<1>. HIDE DEF T
<1>4. PICK h \in T : \A g \in T : h <= g
  BY <1>1, <1>3, LeastOf
<1>5. h \in D /\ h > i /\ p[h] = p[i]
  BY <1>1
<1>. DEFINE before == {g \in D : g < h}
<1>6. /\ i \in before
      /\ \A g \in before : g > i => p[g] # p[i]
  BY <1>2, <1>4, <1>5
<1>7. i \in Standing(p, before)
  BY <1>6 DEF Standing
<1>8. LET match == Matching(b, Standing(p, before), b[h])
      IN \/ \E m \in match : p[h] = p[m]
         \/ match = {} /\ FirstFree(p[h], {p[g] : g \in before})
  BY <1>5 DEF Placements
<1>9. p[h] \in {p[g] : g \in before}
  BY <1>5, <1>6
<1>10. PICK m \in Matching(b, Standing(p, before), b[h]) : p[h] = p[m]
  BY <1>8, <1>9 DEF FirstFree
<1>11. m \in Standing(p, before) /\ <<b[m], b[h]>> \in Near
  BY <1>10 DEF Matching
<1>12. m = i
  <2>1. m \in before /\ m \in D /\ p[m] = p[i]
    BY <1>5, <1>10, <1>11 DEF Standing
  <2>2. ~ (m > i) /\ ~ (i > m)
    BY <1>6, <1>7, <1>11, <2>1 DEF Standing
  <2>3. QED
    BY <2>1, <2>2
<1>13. QED
  BY <1>5, <1>11, <1>12

(* Every row of the grown bank has the last entry put there, and every     *)
(* entry that stands has a row.                                            *)
LEMMA HolderFacts ==
  ASSUME NEW D \in SUBSET (Nat \ {0}), NEW p, DOMAIN p = D
  PROVE  /\ \A i : Holder(p, i) # 0 => Holder(p, i) \in D /\ p[Holder(p, i)] = i
         /\ \A j \in Standing(p, D) : Holder(p, p[j]) = j
<1>1. ASSUME NEW i, Holder(p, i) # 0
      PROVE  Holder(p, i) \in D /\ p[Holder(p, i)] = i
  <2>. DEFINE last == {j \in Standing(p, D) : p[j] = i}
  <2>1. last # {} /\ Holder(p, i) = CHOOSE j \in last : TRUE
    BY <1>1 DEF Holder
  <2>2. Holder(p, i) \in last
    BY <2>1
  <2>3. QED
    BY <2>2 DEF Standing
<1>2. ASSUME NEW j \in Standing(p, D) PROVE Holder(p, p[j]) = j
  <2>. DEFINE last == {g \in Standing(p, D) : p[g] = p[j]}
  <2>1. ASSUME NEW g \in last PROVE g = j
    <3>1. g \in D /\ j \in D /\ p[g] = p[j]
      BY DEF Standing
    <3>2. ~ (g > j) /\ ~ (j > g)
      BY <3>1 DEF Standing
    <3>3. QED
      BY <3>1, <3>2
  <2>2. j \in last
    OBVIOUS
  <2>3. Holder(p, p[j]) = CHOOSE g \in last : TRUE
    BY <2>2 DEF Holder
  <2>4. QED
    BY <2>1, <2>2, <2>3
<1>3. QED
  BY <1>1, <1>2

(* A bank that has rows of natural numbers, and a last one.                *)
IsBank(b) == DOMAIN b \subseteq Nat \ {0} /\ Bounded(b)

LEMMA WithRowFacts ==
  ASSUME NEW b, IsBank(b), NEW i \in Nat \ {0}, NEW k
  PROVE  /\ IsBank(WithRow(b, i, k))
         /\ KeysOf(WithRow(b, i, k)) \subseteq KeysOf(b) \union {k}
         /\ k \in KeysOf(WithRow(b, i, k))
         /\ \A r \in DOMAIN b : r # i => b[r] \in KeysOf(WithRow(b, i, k))
<1>. DEFINE w == WithRow(b, i, k)
<1>1. /\ DOMAIN w = DOMAIN b \union {i} /\ w[i] = k
      /\ \A r \in DOMAIN b : r # i => w[r] = b[r]
  BY DEF WithRow
<1>2. PICK n \in Nat : \A r \in DOMAIN b : r <= n
  BY DEF IsBank, Bounded
<1>. HIDE DEF w
<1>3. \E m \in Nat : \A r \in DOMAIN w : r <= m
  <2>1. CASE i <= n
    BY <1>1, <1>2, <2>1
  <2>2. CASE ~ (i <= n)
    <3>1. \A r \in DOMAIN b : r <= i
      BY <1>2, <2>2 DEF IsBank
    <3>2. QED
      BY <1>1, <3>1
  <2>3. QED
    BY <2>1, <2>2
<1>4. IsBank(w)
  BY <1>1, <1>3 DEF IsBank, Bounded
<1>5. /\ KeysOf(w) \subseteq KeysOf(b) \union {k} /\ k \in KeysOf(w)
      /\ \A r \in DOMAIN b : r # i => b[r] \in KeysOf(w)
  BY <1>1 DEF KeysOf
<1>6. QED
  BY <1>4, <1>5 DEF w

(* Growth loses the key of no row, but to another key that it matches.     *)
LEMMA GrownFacts ==
  ASSUME IsBank(bank), NEW p \in Placements(bank)
  PROVE  /\ IsBank(Grown(p)) /\ KeysOf(Grown(p)) \subseteq Executable
         /\ \A v \in Executable \ KeysOf(Grown(p)) :
              \E h \in Executable \ {v} : <<v, h>> \in Near
<1>. DEFINE D == DOMAIN bank
<1>1. D \in SUBSET (Nat \ {0}) /\ D \in SUBSET Nat /\ DOMAIN p = D
  BY DEF IsBank, Placements
<1>2. PICK n \in Nat : \A r \in D : r <= n
  BY DEF IsBank, Bounded
<1>3. \A j \in D : p[j] \in D
  BY DEF Placements
<1>. HIDE DEF D
<1>4. /\ \A i : Holder(p, i) # 0 => Holder(p, i) \in D /\ p[Holder(p, i)] = i
      /\ \A j \in Standing(p, D) : Holder(p, p[j]) = j
  BY <1>1, HolderFacts
<1>5. /\ DOMAIN Grown(p) = {r \in D : Holder(p, r) # 0}
      /\ \A r \in DOMAIN Grown(p) : Grown(p)[r] = bank[Holder(p, r)]
  BY <1>1 DEF Grown
<1>6. IsBank(Grown(p))
  BY <1>1, <1>2, <1>5 DEF IsBank, Bounded
<1>7. KeysOf(Grown(p)) \subseteq Executable
  BY <1>4, <1>5 DEF KeysOf, Executable, D
<1>8. ASSUME NEW v \in Executable, v \notin KeysOf(Grown(p))
      PROVE  \E h \in Executable \ {v} : <<v, h>> \in Near
  <2>. DEFINE T == {r \in D : bank[r] = v}
  <2>1. T # {} /\ T \in SUBSET Nat /\ \A r \in T : r <= n
    BY <1>1, <1>2 DEF Executable, KeysOf, D
  <2>2. \A r \in D : r \in T <=> bank[r] = v
    OBVIOUS
  <2>3. \A r \in T : r \in D
    OBVIOUS
  <2>. HIDE DEF T
  <2>4. PICK j \in T : \A y \in T : y <= j
    BY <2>1, LargestOf
  <2>5. j \in D /\ bank[j] = v
    BY <2>2, <2>3
  <2>6. j \notin Standing(p, D)
    <3>1. SUFFICES ASSUME j \in Standing(p, D) PROVE FALSE
      OBVIOUS
    <3>2. Holder(p, p[j]) = j /\ j # 0 /\ p[j] \in D
      BY <1>1, <1>3, <1>4, <2>5, <3>1
    <3>3. p[j] \in DOMAIN Grown(p) /\ Grown(p)[p[j]] = v
      BY <1>5, <2>5, <3>2
    <3>4. QED
      BY <1>8, <3>3 DEF KeysOf
  <2>7. PICK h \in D : h > j /\ <<bank[j], bank[h]>> \in Near
    <3>1. DOMAIN bank = D
      BY DEF D
    <3>2. QED
      BY <1>1, <2>5, <2>6, <3>1, LostToMatch
  <2>8. bank[h] # v
    BY <1>1, <2>2, <2>4, <2>5, <2>7
  <2>9. bank[h] \in Executable
    BY DEF Executable, KeysOf, D
  <2>10. QED
    BY <2>5, <2>7, <2>8, <2>9
<1>9. QED
  BY <1>6, <1>7, <1>8

(* An admission that keeps the evidence of the rows, and loses a protected *)
(* key only to one it matches.                                             *)
Spares(k, b, new) ==
  /\ IsBank(b) /\ k \in KeysOf(b) /\ KeysOf(b) \subseteq Executable \union {k}
  /\ bankEvidence' \in [Keys -> Evidence]
  /\ \A c \in Executable : bankEvidence'[c] = bankEvidence[c]
  /\ \A v \in Executable \ KeysOf(b) :
       bankEvidence[v] = "protected" => v \in WrittenOver(b, new)

LEMMA AdmitKeeps ==
  ASSUME IInv, NEW k \in Keys, NEW b, NEW new, Admit(k, b, new), Spares(k, b, new)
  PROVE  IInv'
<1>1. /\ pc = "idle" /\ up = "up" /\ call = "none" /\ k \in staged
      /\ bank' = b /\ Executable' = KeysOf(b) /\ unsavedEvidence' = {}
      /\ call' = "admit" /\ key' = k /\ pc' = "adopt"
      /\ owed' = owed \ (WrittenOver(b, new) \ staged)
      /\ admitted' = admitted \ WrittenOver(b, new)
      /\ cutShort' = cutShort \intersect KeysOf(b)
      /\ UNCHANGED <<up, undo, unsaved, staged, file, manifest, interrupted>>
  BY DEF IInv, CallInv, Admit, Idle, Executable, storeVars
<1>2. TypeOK'
  BY <1>1 DEF IInv, TypeOK, Spares, IsBank
<1>3. CallInv'
  BY <1>1 DEF CallInv, Spares
<1>4. BankInv'
  <2>1. Bounded(b)
    BY DEF Spares, IsBank
  <2>2. ASSUME NEW c \in KeysOf(b)
        PROVE  bankEvidence'[c] # "none" \/ c \in cutShort' \/ c = k
    <3>1. CASE c \in Executable
      BY <1>1, <2>2, <3>1 DEF IInv, BankInv, Spares
    <3>2. CASE c \notin Executable
      BY <2>2, <3>2 DEF Spares
    <3>3. QED
      BY <3>1, <3>2
  <2>3. QED
    BY <1>1, <2>1, <2>2 DEF BankInv
<1>5. ASSUME NEW v \in Keys, Kept(v), v \notin WrittenOver(b, new)
      PROVE  Kept(v)'
  BY <1>1, <1>5 DEF Kept, Spares
<1>6. OwedInv'
  BY <1>1, <1>5 DEF IInv, TypeOK, OwedInv
<1>7. AdmittedInv'
  BY <1>1, <1>5 DEF IInv, TypeOK, AdmittedInv
<1>8. StagedInv'
  BY <1>1 DEF IInv, StagedInv, Spares
<1>9. FileInv'
  BY <1>1 DEF IInv, FileInv, Loadable
<1>10. QED
  BY <1>2, <1>3, <1>4, <1>6, <1>7, <1>8, <1>9 DEF IInv

LEMMA ObserveAdmitsKeeps ==
  ASSUME IInv, NEW k \in Keys, NEW i \in Nat \ {0}, ObserveAdmits(k, i)
  PROVE  IInv'
<1>. DEFINE b == WithRow(bank, i, k)
<1>1. IsBank(bank)
  BY DEF IInv, TypeOK, BankInv, IsBank
<1>2. /\ IsBank(b) /\ KeysOf(b) \subseteq Executable \union {k} /\ k \in KeysOf(b)
      /\ \A r \in DOMAIN bank : r # i => bank[r] \in KeysOf(b)
  BY <1>1, WithRowFacts DEF Executable
<1>3. Admit(k, b, {k}) /\ bankEvidence' = bankEvidence
  BY DEF ObserveAdmits
<1>. HIDE DEF b
<1>4. ASSUME NEW v \in Executable, v \notin KeysOf(b), bankEvidence[v] = "protected"
      PROVE  v \in WrittenOver(b, {k})
  <2>1. i \in DOMAIN bank /\ bank[i] = v
    BY <1>2, <1>4 DEF Executable, KeysOf
  <2>2. v # k
    BY <1>2, <1>4
  <2>3. GoesTo(bank, k, i) \/ Evicts(k, i)
    BY DEF ObserveAdmits
  <2>4. CASE GoesTo(bank, k, i)
    <3>1. i \in Matching(bank, DOMAIN bank, k)
      BY <2>1, <2>4 DEF GoesTo, FirstFree
    <3>2. <<v, k>> \in Near
      BY <2>1, <3>1 DEF Matching
    <3>3. QED
      BY <1>4, <2>2, <3>2 DEF WrittenOver
  <2>5. CASE Evicts(k, i)
    BY <1>4, <2>1, <2>5 DEF Evicts, Evictable
  <2>6. QED
    BY <2>3, <2>4, <2>5
<1>5. Spares(k, b, {k})
  BY <1>2, <1>3, <1>4 DEF Spares, IInv, TypeOK
<1>6. QED
  BY <1>3, <1>5, AdmitKeeps

LEMMA ObserveGrowsKeeps ==
  ASSUME IInv, NEW k \in Keys, NEW i \in Nat \ {0}, NEW p \in Placements(bank),
         ObserveGrows(k, p, i)
  PROVE  IInv'
<1>. DEFINE g == Grown(p)
            b == WithRow(g, i, k)
            new == Executable \union {k}
<1>1. IsBank(bank)
  BY DEF IInv, TypeOK, BankInv, IsBank
<1>2. /\ IsBank(g) /\ KeysOf(g) \subseteq Executable
      /\ \A v \in Executable \ KeysOf(g) :
           \E h \in Executable \ {v} : <<v, h>> \in Near
  BY <1>1, GrownFacts
<1>3. /\ Admit(k, b, new) /\ GoesTo(g, k, i)
      /\ bankEvidence' = [c \in Keys |-> IF c \in Executable THEN bankEvidence[c]
                                         ELSE "none"]
  BY DEF ObserveGrows
<1>. HIDE DEF g
<1>4. /\ IsBank(b) /\ KeysOf(b) \subseteq KeysOf(g) \union {k} /\ k \in KeysOf(b)
      /\ \A r \in DOMAIN g : r # i => g[r] \in KeysOf(b)
  BY <1>2, WithRowFacts
<1>. HIDE DEF b, new
<1>5. ASSUME NEW v \in Executable, v \notin KeysOf(b)
      PROVE  v \in WrittenOver(b, new)
  <2>1. v # k
    BY <1>4, <1>5
  <2>2. CASE v \in KeysOf(g)
    <3>1. i \in DOMAIN g /\ g[i] = v
      BY <1>4, <1>5, <2>2 DEF KeysOf
    <3>2. i \in Matching(g, DOMAIN g, k)
      BY <1>3, <3>1 DEF GoesTo, FirstFree
    <3>3. <<v, k>> \in Near /\ k \in new \ {v}
      BY <2>1, <3>1, <3>2 DEF Matching, new
    <3>4. QED
      BY <1>5, <3>3 DEF WrittenOver
  <2>3. CASE v \notin KeysOf(g)
    <3>1. \E h \in new \ {v} : <<v, h>> \in Near
      BY <1>2, <2>3 DEF new
    <3>2. QED
      BY <1>5, <3>1 DEF WrittenOver
  <2>4. QED
    BY <2>2, <2>3
<1>6. /\ bankEvidence' \in [Keys -> Evidence]
      /\ \A c \in Executable : bankEvidence'[c] = bankEvidence[c]
  BY <1>3 DEF IInv, TypeOK, Evidence
<1>7. Spares(k, b, new)
  BY <1>2, <1>4, <1>5, <1>6 DEF Spares
<1>8. QED
  BY <1>3, <1>7, AdmitKeeps

LEMMA AdoptKeeps ==
  ASSUME IInv, Adopt
  PROVE  IInv'
<1>1. TypeOK'
  BY DEF IInv, TypeOK, Executable, Evidence, Adopt, StartPersist, storeVars,
     histVars
<1>2. CallInv'
  BY DEF IInv, TypeOK, CallInv, Kept, Executable, Adopt, StartPersist,
     histVars
<1>3. BankInv'
  BY DEF IInv, TypeOK, CallInv, BankInv, Executable, Adopt, StartPersist,
     histVars
<1>4. OwedInv'
  BY DEF IInv, TypeOK, CallInv, OwedInv, Kept, Executable, Adopt,
     StartPersist, storeVars, histVars
<1>5. AdmittedInv'
  BY DEF IInv, AdmittedInv, Kept, Executable, Adopt, StartPersist, storeVars,
     histVars
<1>6. StagedInv'
  BY DEF IInv, StagedInv, Executable, Adopt, StartPersist, storeVars,
     histVars
<1>7. FileInv'
  BY DEF FileInv, Adopt, StartPersist, histVars
<1>8. QED
  BY <1>1, <1>2, <1>3, <1>4, <1>5, <1>6, <1>7 DEF IInv

LEMMA AdoptRaisesKeeps ==
  ASSUME IInv, AdoptRaises
  PROVE  IInv'
<1>1. TypeOK'
  BY DEF IInv, TypeOK, CallInv, Executable, AdoptRaises, CutShort, NoCall,
     storeVars, bankVars
<1>2. CallInv'
  BY DEF CallInv, AdoptRaises, NoCall
<1>3. BankInv'
  BY DEF IInv, CallInv, BankInv, Executable, AdoptRaises, CutShort, NoCall,
     bankVars
<1>4. OwedInv'
  BY DEF IInv, OwedInv, Kept, Executable, AdoptRaises, NoCall, storeVars,
     bankVars
<1>5. AdmittedInv'
  BY DEF IInv, AdmittedInv, Kept, Executable, AdoptRaises, NoCall, storeVars,
     bankVars
<1>6. StagedInv'
  BY DEF IInv, CallInv, StagedInv, Executable, AdoptRaises, CutShort, NoCall,
     storeVars, bankVars
<1>7. FileInv'
  BY DEF IInv, FileInv, Loadable, AdoptRaises, NoCall, storeVars
<1>8. QED
  BY <1>1, <1>2, <1>3, <1>4, <1>5, <1>6, <1>7 DEF IInv

LEMMA SaveRaisesKeeps ==
  ASSUME IInv, SaveRaises
  PROVE  IInv'
<1>1. TypeOK'
  BY DEF IInv, TypeOK, CallInv, Executable, Evidence, SaveRaises, CutShort,
     NoCall, storeVars
<1>2. CallInv'
  BY DEF CallInv, SaveRaises, NoCall
<1>3. BankInv'
  BY DEF IInv, CallInv, BankInv, Executable, SaveRaises, CutShort, NoCall
<1>4. OwedInv'
  BY DEF IInv, OwedInv, Kept, Executable, SaveRaises, NoCall, storeVars
<1>5. AdmittedInv'
  BY DEF IInv, AdmittedInv, Kept, Executable, SaveRaises, NoCall, storeVars
<1>6. StagedInv'
  BY DEF IInv, CallInv, StagedInv, Executable, SaveRaises, CutShort, NoCall,
     storeVars
<1>7. FileInv'
  BY DEF IInv, FileInv, Loadable, SaveRaises, NoCall, storeVars
<1>8. QED
  BY <1>1, <1>2, <1>3, <1>4, <1>5, <1>6, <1>7 DEF IInv

-----------------------------------------------------------------------------
(* The bank's own use, and the end of the process *)

LEMMA BankObservesKeeps ==
  ASSUME IInv, NEW k \in Keys, NEW e \in Evidence, BankObserves(k, e)
  PROVE  IInv'
<1>1. TypeOK'
  BY DEF IInv, TypeOK, Executable, BankObserves, Releases, callVars,
     storeVars
<1>2. CallInv'
  BY DEF IInv, CallInv, BankObserves, Releases, Idle, callVars
<1>3. BankInv'
  BY DEF IInv, BankInv, Executable, BankObserves, Releases, callVars
<1>4. OwedInv'
  BY DEF IInv, OwedInv, Kept, Executable, BankObserves, Releases, callVars,
     storeVars
<1>5. AdmittedInv'
  BY DEF IInv, AdmittedInv, Kept, Executable, BankObserves, Releases,
     callVars, storeVars
<1>6. StagedInv'
  BY DEF IInv, StagedInv, Executable, BankObserves, Releases, callVars,
     storeVars
<1>7. FileInv'
  BY DEF IInv, FileInv, Loadable, BankObserves, Releases, callVars, storeVars
<1>8. QED
  BY <1>1, <1>2, <1>3, <1>4, <1>5, <1>6, <1>7 DEF IInv

LEMMA StopKeeps ==
  ASSUME IInv, Stop
  PROVE  IInv'
<1>1. TypeOK'
  BY DEF IInv, TypeOK, CallInv, Executable, Evidence, Stop, CutShort,
     DiskEvidence, NoCall, storeVars
<1>2. CallInv'
  BY DEF CallInv, Stop, DiskEvidence, NoCall
<1>3. BankInv'
  BY DEF IInv, TypeOK, CallInv, BankInv, Executable, Stop, CutShort,
     DiskEvidence, NoCall
<1>4. OwedInv'
  BY DEF IInv, TypeOK, OwedInv, Kept, Executable, Stop, DiskEvidence, NoCall,
     storeVars
<1>5. AdmittedInv'
  BY DEF IInv, TypeOK, AdmittedInv, Kept, Executable, Stop, DiskEvidence,
     NoCall, storeVars
<1>6. StagedInv'
  BY DEF IInv, TypeOK, CallInv, StagedInv, Executable, Stop, CutShort,
     DiskEvidence, NoCall, storeVars
<1>7. FileInv'
  BY DEF IInv, FileInv, Loadable, Stop, DiskEvidence, NoCall, storeVars
<1>8. QED
  BY <1>1, <1>2, <1>3, <1>4, <1>5, <1>6, <1>7 DEF IInv

LEMMA LoadKeeps ==
  ASSUME IInv, Load
  PROVE  IInv'
<1>1. TypeOK'
  BY DEF IInv, TypeOK, Executable, Load, callVars, storeVars, histVars,
     bankVars
<1>2. CallInv'
  BY DEF IInv, CallInv, Load, callVars, histVars
<1>3. BankInv'
  BY DEF IInv, BankInv, Executable, Load, callVars, histVars, bankVars
<1>4. OwedInv'
  BY DEF IInv, OwedInv, Kept, Executable, Load, callVars, storeVars,
     histVars, bankVars
<1>5. AdmittedInv'
  BY DEF IInv, AdmittedInv, Kept, Executable, Load, callVars, storeVars,
     histVars, bankVars
<1>6. StagedInv'
  BY DEF IInv, CallInv, StagedInv, Executable, Load, callVars, storeVars,
     histVars, bankVars
<1>7. FileInv'
  BY DEF FileInv, Loadable, Load, storeVars, histVars
<1>8. QED
  BY <1>1, <1>2, <1>3, <1>4, <1>5, <1>6, <1>7 DEF IInv

LEMMA LoadRaisesKeeps ==
  ASSUME IInv, LoadRaises
  PROVE  IInv'
<1>1. TypeOK'
  BY DEF IInv, TypeOK, Executable, LoadRaises, callVars, storeVars, histVars,
     bankVars
<1>2. CallInv'
  BY DEF IInv, CallInv, LoadRaises, callVars, histVars
<1>3. BankInv'
  BY DEF IInv, BankInv, Executable, LoadRaises, callVars, histVars, bankVars
<1>4. OwedInv'
  BY DEF IInv, OwedInv, Kept, Executable, LoadRaises, callVars, storeVars,
     histVars, bankVars
<1>5. AdmittedInv'
  BY DEF IInv, AdmittedInv, Kept, Executable, LoadRaises, callVars,
     storeVars, histVars, bankVars
<1>6. StagedInv'
  BY DEF IInv, StagedInv, Executable, LoadRaises, callVars, storeVars,
     histVars, bankVars
<1>7. FileInv'
  BY DEF IInv, CallInv, FileInv, LoadRaises, histVars
<1>8. QED
  BY <1>1, <1>2, <1>3, <1>4, <1>5, <1>6, <1>7 DEF IInv

-----------------------------------------------------------------------------
(* Every step *)

LEMMA InitIInv == Init => IInv
<1>1. SUFFICES ASSUME Init PROVE IInv
  OBVIOUS
<1>2. bank = <<>> /\ DOMAIN bank = {} /\ Executable = {}
  BY <1>1 DEF Init, Executable, KeysOf
<1>3. TypeOK
  BY <1>1, <1>2, StagingAssumption DEF Init, TypeOK, Evidence
<1>4. BankInv
  <2>1. Bounded(bank)
    BY <1>2 DEF Bounded
  <2>2. QED
    BY <1>2, <2>1 DEF BankInv
<1>5. CallInv /\ OwedInv /\ AdmittedInv /\ StagedInv
  BY <1>1, <1>2 DEF Init, CallInv, OwedInv, AdmittedInv, StagedInv
<1>6. FileInv
  BY <1>1 DEF Init, FileInv, Loadable
<1>7. QED
  BY <1>3, <1>4, <1>5, <1>6 DEF IInv

LEMMA StutterKeeps == ASSUME IInv, UNCHANGED vars PROVE IInv'
BY DEF IInv, TypeOK, CallInv, BankInv, OwedInv, AdmittedInv, StagedInv, FileInv,
   Loadable, Kept, Executable, vars, callVars, storeVars, bankVars, histVars

(* An admission in Next: of k into row i, in place or with growth.         *)
AdmitsAt(k, i) ==
  \/ ObserveAdmits(k, i)
  \/ \E p \in Placements(bank) : ObserveGrows(k, p, i)

LEMMA StepIInv == IInv /\ [Next]_vars => IInv'
<1>1. SUFFICES ASSUME IInv, Next \/ UNCHANGED vars PROVE IInv'
  OBVIOUS
<1>2. ASSUME NEW k \in Keys,
             WriteFile(k) \/ Stage(k) \/ Discard(k) \/ ObserveStays(k)
      PROVE  IInv'
  BY <1>1, <1>2, WriteFileKeeps, StageKeeps, DiscardKeeps, ObserveStaysKeeps
<1>3. CASE WriteManifest \/ Unlink \/ PersistRaises
  BY <1>1, <1>3, WriteManifestKeeps, UnlinkKeeps, PersistRaisesKeeps
<1>4. ASSUME NEW k \in Keys, NEW i \in 1 .. Cardinality(DOMAIN bank) + 1,
             AdmitsAt(k, i)
      PROVE  IInv'
  <2>1. i \in Nat \ {0}
    OBVIOUS
  <2>2. QED
    BY <1>1, <1>4, <2>1, ObserveAdmitsKeeps, ObserveGrowsKeeps DEF AdmitsAt
<1>5. CASE Adopt \/ AdoptRaises \/ SaveRaises
  BY <1>1, <1>5, AdoptKeeps, AdoptRaisesKeeps, SaveRaisesKeeps
<1>6. ASSUME NEW k \in Keys, NEW e \in Evidence, BankObserves(k, e) PROVE IInv'
  BY <1>1, <1>6, BankObservesKeeps
<1>7. CASE Stop \/ Load \/ LoadRaises
  BY <1>1, <1>7, StopKeeps, LoadKeeps, LoadRaisesKeeps
<1>8. CASE UNCHANGED vars
  BY <1>1, <1>8, StutterKeeps
<1>9. QED
  BY <1>1, <1>2, <1>3, <1>4, <1>5, <1>6, <1>7, <1>8 DEF Next, AdmitsAt

LEMMA AlwaysIInv == Spec => []IInv
BY InitIInv, StepIInv, PTL DEF Spec

(* The queue, its files and the bank keep their shapes.                    *)
THEOREM TypeCorrect == Spec => []TypeOK
BY AlwaysIInv, PTL DEF IInv

(* No accepted candidate is lost between the two directories, whatever     *)
(* stopped or raised between the writes to the one and to the other, and   *)
(* whichever keys match: only a later put of a key that matches its own,   *)
(* once it has left the queue, writes over it in the bank.                 *)
THEOREM OwedAreDurable == Spec => []OwedIsDurable
<1>1. IInv => OwedIsDurable
  BY DEF IInv, TypeOK, OwedInv, OwedIsDurable, Kept, DiskEvidence
<1>2. QED
  BY <1>1, AlwaysIInv, PTL

(* What was reported as admitted stays in the bank's directory with its    *)
(* protection, through puts, evictions and growth of the bank, and never   *)
(* comes back to the queue, until a key that matches its own is put.       *)
THEOREM AdmittedAreDurable == Spec => []AdmittedIsDurable
<1>1. IInv => AdmittedIsDurable
  BY DEF IInv, AdmittedInv, AdmittedIsDurable, Kept, DiskEvidence
<1>2. QED
  BY <1>1, AlwaysIInv, PTL

(* Between calls a candidate waits outside the executable bank, unless an  *)
(* admission of it put its artifact and was then cut short: neither an     *)
(* admission of another key, nor a restart, nor a key staged anew makes    *)
(* one both a candidate and executable.                                    *)
THEOREM StagedNotExecutable == Spec => []StagedIsNotExecutable
<1>1. IInv => StagedIsNotExecutable
  BY DEF IInv, StagedInv, StagedIsNotExecutable, Idle
<1>2. QED
  BY <1>1, AlwaysIInv, PTL

(* A queue is refused only after a _persist that stopped before it had     *)
(* written the manifest.                                                   *)
THEOREM RefusalHasCause == Spec => []RefusedOnlyAfterInterruption
<1>1. IInv => RefusedOnlyAfterInterruption
  BY DEF IInv, FileInv, RefusedOnlyAfterInterruption
<1>2. QED
  BY <1>1, AlwaysIInv, PTL

-----------------------------------------------------------------------------
(* Where nothing stops a _persist *)

(* No write raises, and the process ends between two calls only.           *)
NothingStops == Faults = {}

LEMMA NeverInterrupted ==
  ASSUME NothingStops
  PROVE  Spec => [](~ interrupted)
<1>1. Init => ~ interrupted
  BY DEF Init
<1>2. ASSUME ~ interrupted, [Next]_vars PROVE ~ interrupted'
  <2>1. CASE PersistRaises \/ SaveRaises
    BY <2>1 DEF NothingStops, PersistRaises, SaveRaises
  <2>2. CASE Stop
    BY <1>2, <2>2 DEF NothingStops, Stop
  <2>3. CASE UNCHANGED vars
    BY <1>2, <2>3 DEF vars, histVars
  <2>4. ASSUME Next, ~ PersistRaises, ~ SaveRaises, ~ Stop PROVE ~ interrupted'
    BY <1>2, <2>4
    DEF Next, WriteFile, Stage, Discard, ObserveStays, WriteManifest, Unlink,
        ObserveAdmits, ObserveGrows, Admit, Adopt, AdoptRaises, BankObserves,
        Load, LoadRaises, histVars
  <2>5. QED
    BY <1>2, <2>1, <2>2, <2>3, <2>4
<1>3. QED
  BY <1>1, <1>2, PTL DEF Spec

(* "Candidate artifacts and evidence are persisted through atomic,         *)
(* checksummed snapshots": where no call of _persist is cut short, the     *)
(* queue of every restart loads.  staging_restart shows that the condition *)
(* is needed.                                                              *)
THEOREM QueueLoads == NothingStops => (Spec => []QueueAlwaysLoads)
<1>1. SUFFICES ASSUME NothingStops PROVE Spec => []QueueAlwaysLoads
  OBVIOUS
<1>2. RefusedOnlyAfterInterruption /\ ~ interrupted => QueueAlwaysLoads
  BY DEF RefusedOnlyAfterInterruption, QueueAlwaysLoads
<1>3. QED
  BY <1>1, <1>2, NeverInterrupted, RefusalHasCause, PTL

(* Between calls the manifest lists exactly the candidates of the queue.   *)
RestartKeepsTheQueue == Idle => staged = manifest

(* Before the write of an admission's evidence, too.                       *)
QueueInv == up = "up" /\ pc \in {"idle", "adopt"} => staged = manifest

LEMMA QueueStep ==
  ASSUME "disk" \notin Faults, IInv, QueueInv, [Next]_vars
  PROVE  QueueInv'
<1>. USE DEF IInv, CallInv, QueueInv
<1>1. ASSUME NEW k \in Keys, WriteFile(k) \/ Stage(k) \/ Discard(k) \/ ObserveStays(k)
      PROVE  QueueInv'
  BY <1>1 DEF WriteFile, Stage, Discard, ObserveStays, StartPersist
<1>2. CASE WriteManifest
  BY <1>2 DEF WriteManifest
<1>3. CASE Unlink
  BY <1>3 DEF Unlink, NoCall
<1>4. CASE PersistRaises \/ SaveRaises
  BY <1>4 DEF PersistRaises, SaveRaises
<1>5. ASSUME NEW k \in Keys, NEW b, NEW new, Admit(k, b, new) PROVE QueueInv'
  BY <1>5 DEF Admit, Idle, storeVars
<1>6. ASSUME NEW k \in Keys, NEW i, AdmitsAt(k, i) PROVE QueueInv'
  BY <1>5, <1>6 DEF AdmitsAt, ObserveAdmits, ObserveGrows
<1>7. CASE Adopt
  BY <1>7 DEF Adopt, StartPersist
<1>8. CASE AdoptRaises
  BY <1>8 DEF AdoptRaises, NoCall, storeVars
<1>9. ASSUME NEW k \in Keys, NEW e \in Evidence, BankObserves(k, e) PROVE QueueInv'
  BY <1>9 DEF BankObserves, callVars, storeVars
<1>10. CASE Stop \/ LoadRaises
  BY <1>10 DEF Stop, LoadRaises
<1>11. CASE Load
  BY <1>11 DEF Load, storeVars
<1>12. CASE UNCHANGED vars
  BY <1>12 DEF vars, callVars, storeVars
<1>13. QED
  BY <1>1, <1>2, <1>3, <1>4, <1>6, <1>7, <1>8, <1>9, <1>10, <1>11, <1>12
  DEF Next, AdmitsAt

(* Unless a write raises, a restart keeps the queue: no candidate is lost  *)
(* and none comes back, also if the process stopped in the middle of a     *)
(* call.                                                                   *)
THEOREM RestartKeeps == "disk" \notin Faults => (Spec => []RestartKeepsTheQueue)
<1>1. SUFFICES ASSUME "disk" \notin Faults PROVE Spec => []RestartKeepsTheQueue
  OBVIOUS
<1>2. Init => QueueInv
  BY DEF Init, QueueInv
<1>3. IInv /\ QueueInv /\ [Next]_vars => QueueInv'
  BY <1>1, QueueStep
<1>4. QueueInv => RestartKeepsTheQueue
  BY DEF QueueInv, RestartKeepsTheQueue, Idle
<1>5. QED
  BY <1>2, <1>3, <1>4, AlwaysIInv, PTL DEF Spec
=============================================================================
