--------------------------- MODULE AgentBrainProofs ---------------------------
(***************************************************************************)
(* Machine-checked proofs about AgentBrain, for every set of programs,     *)
(* every capacity and every admission gate: a bank that is saved loads, a  *)
(* rejection leaves no trace, and a candidate enters only by its merits.   *)
(***************************************************************************)
EXTENDS AgentBrain, FiniteSetTheorems, TLAPS

(* The older bank's slots are those of the newer one, which may have more. *)
Extends(newer, older) ==
  /\ Slots(older) \subseteq Slots(newer)
  /\ \A i \in Slots(older) : newer.programs[i] = older.programs[i]

Good(b) == BankOK(b) /\ Loadable(b)

-----------------------------------------------------------------------------
(* Counting skills *)

LEMMA FamilySize ==
  ASSUME NEW S \in SUBSET Temporal
  PROVE  /\ Cardinality(S) \in Nat /\ Cardinality({}) = 0
         /\ \A t \in Temporal : /\ Cardinality(S \union {t}) <= Cardinality(S) + 1
                                /\ t \in S => S \union {t} = S
<1>1. IsFiniteSet(S)
  BY FS_Subset, BrainAssumption
<1>2. Cardinality(S) \in Nat /\ Cardinality({}) = 0
  BY <1>1, FS_CardinalityType, FS_EmptySet
<1>3. ASSUME NEW t \in Temporal
      PROVE  /\ Cardinality(S \union {t}) <= Cardinality(S) + 1
             /\ t \in S => S \union {t} = S
  <2>1. Cardinality(S \union {t}) =
          IF t \in S THEN Cardinality(S) ELSE Cardinality(S) + 1
    BY <1>1, FS_AddElement
  <2>2. QED
    BY <1>2, <2>1
<1>4. QED
  BY <1>2, <1>3

LEMMA FamilyOfBank ==
  ASSUME NEW b \in Banks
  PROVE  /\ FamilyOf(b) \in SUBSET Temporal /\ Cardinality(FamilyOf(b)) \in Nat
         /\ Len(b.programs) \in Nat /\ b.programs \in Seq(Artifacts)
         /\ SkillCount(b) \in Nat
<1>1. FamilyOf(b) \in SUBSET Temporal
  BY DEF FamilyOf, Banks, Families
<1>2. Cardinality(FamilyOf(b)) \in Nat
  BY <1>1, FamilySize
<1>3. Len(b.programs) \in Nat /\ b.programs \in Seq(Artifacts)
  BY DEF Banks
<1>4. QED
  BY <1>1, <1>2, <1>3 DEF SkillCount

(* Records of provenance stay derivable in a bank that has more slots.     *)
LEMMA RecordsStay ==
  ASSUME NEW b, NEW c, BankOK(b), BankOK(c), Extends(c, b), Loadable(b),
         NEW record \in b.provenance
  PROVE  /\ record.child \in Programs(c)
         /\ record.parents \in Pairs(c)
         /\ Composable(c, record.parents)
         /\ record.child = Composed(c, record.parents)
         /\ record.digests = <<c.programs[record.parents[1]],
                               c.programs[record.parents[2]]>>
<1>1. /\ record.child \in Programs(b) /\ record.parents \in Pairs(b)
      /\ Composable(b, record.parents)
      /\ record.child = Composed(b, record.parents)
      /\ record.digests = <<b.programs[record.parents[1]],
                            b.programs[record.parents[2]]>>
  BY DEF Loadable
<1>2. record.parents[1] \in Slots(b) /\ record.parents[2] \in Slots(b)
      /\ record.parents \in Pairs(c)
  BY <1>1 DEF Pairs, Extends
<1>3. c.programs[record.parents[1]] = b.programs[record.parents[1]]
      /\ c.programs[record.parents[2]] = b.programs[record.parents[2]]
  BY <1>2 DEF Extends
<1>4. Programs(b) \subseteq Programs(c)
  BY DEF Programs, Extends, Slots
<1>5. QED
  BY <1>1, <1>2, <1>3, <1>4 DEF Composable, Composed

-----------------------------------------------------------------------------
(* What an accepted artifact makes of a bank *)

LEMMA Appended ==
  ASSUME NEW S, NEW s \in Seq(S), NEW x \in S
  PROVE  /\ Append(s, x) \in Seq(S) /\ Len(Append(s, x)) = Len(s) + 1
         /\ DOMAIN Append(s, x) = DOMAIN s \union {Len(s) + 1}
         /\ Append(s, x)[Len(s) + 1] = x
         /\ \A i \in DOMAIN s : Append(s, x)[i] = s[i]
         /\ Len(s) \in Nat
OBVIOUS

LEMMA ProgramAdded ==
  ASSUME NEW b, Good(b), NEW artifact \in Artifacts,
         artifact \in Programs(b) \/ SkillCount(b) < Capacity
  PROVE  LET c == WithProgram(b, artifact)
         IN /\ Good(c) /\ Extends(c, b) /\ artifact \in Programs(c)
            /\ c.version = b.version + 1 /\ c.provenance = b.provenance
            /\ c.family = b.family
<1>. DEFINE ps == IF artifact \in Programs(b) THEN b.programs
                  ELSE Append(b.programs, artifact)
            rs == RoutesFor(b, ps)
            last == Len(b.programs) + 1
            c  == WithProgram(b, artifact)
<1>1. /\ b \in Banks /\ b.programs \in Seq(Artifacts) /\ b.version \in Nat
      /\ b.family \in Families \union {None} /\ b.provenance \in SUBSET Records
      /\ \A i, j \in DOMAIN b.programs : b.programs[i] = b.programs[j] => i = j
  BY DEF Good, BankOK, Banks
<1>2. /\ ps \in Seq(Artifacts) /\ Len(ps) \in Nat
      /\ artifact \in Programs(b) => ps = b.programs
      /\ artifact \notin Programs(b) =>
           /\ Len(ps) = Len(b.programs) + 1
           /\ DOMAIN ps = DOMAIN b.programs \union {last} /\ ps[last] = artifact
           /\ \A i \in DOMAIN b.programs : ps[i] = b.programs[i]
  <2>1. CASE artifact \in Programs(b)
    BY <1>1, <2>1
  <2>2. CASE artifact \notin Programs(b)
    <3>1. ps = Append(b.programs, artifact)
      BY <2>2
    <3>. HIDE DEF ps
    <3>2. QED
      BY <1>1, <2>2, <3>1, Appended
  <2>3. QED
    BY <2>1, <2>2
<1>3. rs \in Nat \union {None}
  BY <1>2 DEF RoutesFor
<1>4. rs # None => rs = Len(ps)
  BY DEF RoutesFor
<1>. HIDE DEF ps, rs, last
<1>5. c = [b EXCEPT !.programs = ps, !.routes = rs, !.version = b.version + 1]
  BY DEF WithProgram, ps, rs
<1>. HIDE DEF c
<1>6. /\ c.programs = ps /\ c.routes = rs /\ c.version = b.version + 1
      /\ c.family = b.family /\ c.provenance = b.provenance
  BY <1>1, <1>5 DEF Banks
<1>7. c \in Banks
  <2>1. c = [programs |-> ps, family |-> b.family, routes |-> rs,
             provenance |-> b.provenance, version |-> b.version + 1]
    BY <1>1, <1>5 DEF Banks
  <2>2. b.version + 1 \in Nat
    BY <1>1
  <2>3. QED
    BY <1>1, <1>2, <1>3, <2>1, <2>2 DEF Banks
<1>8. \A i, j \in DOMAIN ps : ps[i] = ps[j] => i = j
  <2>1. CASE artifact \in Programs(b)
    BY <1>1, <1>2, <2>1
  <2>2. CASE artifact \notin Programs(b)
    <3>1. \A i \in DOMAIN b.programs : b.programs[i] # artifact
      BY <2>2 DEF Programs
    <3>2. SUFFICES ASSUME NEW i \in DOMAIN ps, NEW j \in DOMAIN ps, ps[i] = ps[j]
                   PROVE  i = j
      OBVIOUS
    <3>3. /\ i = last \/ i \in DOMAIN b.programs
          /\ j = last \/ j \in DOMAIN b.programs
      BY <1>2, <2>2
    <3>4. QED
      BY <1>1, <1>2, <2>2, <3>1, <3>2, <3>3
  <2>3. QED
    BY <2>1, <2>2
<1>9. BankOK(c)
  <2>1. c.programs = ps
    BY <1>6
  <2>2. QED
    BY <1>7, <1>8, <2>1 DEF BankOK
<1>10. Extends(c, b)
  BY <1>2, <1>6 DEF Extends, Slots
<1>11. artifact \in Programs(c)
  <2>1. CASE artifact \in Programs(b)
    BY <1>2, <1>6, <2>1 DEF Programs
  <2>2. CASE artifact \notin Programs(b)
    <3>1. last \in DOMAIN ps /\ ps[last] = artifact
      BY <1>2, <2>2
    <3>2. QED
      BY <1>6, <3>1 DEF Programs
  <2>3. QED
    BY <2>1, <2>2
<1>12. SkillCount(c) <= Capacity
  <2>1. FamilyOf(c) = FamilyOf(b)
    BY <1>6 DEF FamilyOf
  <2>2. SkillCount(b) <= Capacity /\ Capacity \in Nat
    BY BrainAssumption DEF Good, Loadable
  <2>3. Cardinality(FamilyOf(b)) \in Nat /\ SkillCount(b) \in Nat
    BY <1>1, FamilyOfBank
  <2>4. SkillCount(c) = Len(ps) + Cardinality(FamilyOf(b))
        /\ SkillCount(b) = Len(b.programs) + Cardinality(FamilyOf(b))
    BY <1>6, <2>1 DEF SkillCount
  <2>5. QED
    <3>1. Len(b.programs) \in Nat
      BY <1>1
    <3>2. artifact \notin Programs(b) => Len(ps) = Len(b.programs) + 1
      BY <1>2
    <3>3. artifact \in Programs(b) => Len(ps) = Len(b.programs)
      BY <1>2
    <3>4. QED
      BY <2>2, <2>3, <2>4, <3>1, <3>2, <3>3
<1>13. Loadable(c)
  <2>1. \A record \in c.provenance :
          /\ record.child \in Programs(c)
          /\ record.parents \in Pairs(c)
          /\ Composable(c, record.parents)
          /\ record.child = Composed(c, record.parents)
          /\ record.digests = <<c.programs[record.parents[1]],
                                c.programs[record.parents[2]]>>
    BY <1>6, <1>9, <1>10, RecordsStay DEF Good
  <2>2. \A t \in FamilyOf(c) : Fits(t, c.family)
    BY <1>6 DEF Good, Loadable, FamilyOf
  <2>3. QED
    BY <1>4, <1>6, <1>12, <2>1, <2>2 DEF Loadable
<1>14. QED
  BY <1>6, <1>9, <1>10, <1>11, <1>13 DEF Good, c

LEMMA CompositionAdded ==
  ASSUME NEW b, Good(b), NEW parents \in Pairs(b), Composable(b, parents),
         Composed(b, parents) \in Programs(b) \/ SkillCount(b) < Capacity
  PROVE  LET c == WithComposition(b, parents)
         IN /\ Good(c) /\ Extends(c, b) /\ Composed(b, parents) \in Programs(c)
            /\ c.version = b.version + 2
            /\ \E record \in c.provenance :
                 record.child = Composed(b, parents) /\ record.parents = parents
<1>. DEFINE child == Composed(b, parents)
            a == WithProgram(b, child)
            new == [child |-> child, parents |-> parents,
                    digests |-> <<b.programs[parents[1]], b.programs[parents[2]]>>]
            c == WithComposition(b, parents)
<1>1. child \in Artifacts
  BY DEF Composable
<1>2. /\ Good(a) /\ Extends(a, b) /\ child \in Programs(a)
      /\ a.version = b.version + 1 /\ a.provenance = b.provenance
  BY <1>1, ProgramAdded
<1>3. b \in Banks /\ b.programs \in Seq(Artifacts) /\ b.version \in Nat
  BY DEF Good, BankOK, Banks
<1>4. /\ parents[1] \in Slots(b) /\ parents[2] \in Slots(b)
      /\ parents = <<parents[1], parents[2]>>
  BY DEF Pairs
<1>5. /\ parents \in Nat \X Nat
      /\ b.programs[parents[1]] \in Artifacts /\ b.programs[parents[2]] \in Artifacts
  BY <1>3, <1>4 DEF Slots
<1>. HIDE DEF child, a
<1>6. new \in Records
  BY <1>1, <1>5 DEF Records
<1>7. new.child = child /\ new.parents = parents
      /\ new.digests = <<b.programs[parents[1]], b.programs[parents[2]]>>
  OBVIOUS
<1>. HIDE DEF new
<1>8. c = [a EXCEPT !.provenance = a.provenance \union {new},
                    !.version = a.version + 1]
  BY DEF WithComposition, a, child, new
<1>. HIDE DEF c
<1>9. a \in Banks /\ a.version \in Nat /\ a.provenance \in SUBSET Records
  BY <1>2 DEF Good, BankOK, Banks
<1>10. /\ c.programs = a.programs /\ c.routes = a.routes /\ c.family = a.family
       /\ c.version = a.version + 1 /\ c.provenance = a.provenance \union {new}
  BY <1>8, <1>9 DEF Banks
<1>11. c \in Banks
  <2>. DEFINE pr == a.provenance \union {new}
  <2>1. pr \in SUBSET Records /\ a.version + 1 \in Nat
    BY <1>6, <1>9
  <2>2. c = [a EXCEPT !.provenance = pr, !.version = a.version + 1]
    BY <1>8
  <2>. HIDE DEF pr
  <2>3. c = [programs |-> a.programs, family |-> a.family, routes |-> a.routes,
             provenance |-> pr, version |-> a.version + 1]
    BY <1>9, <2>2 DEF Banks
  <2>4. QED
    BY <1>9, <2>1, <2>3 DEF Banks
<1>12. BankOK(c)
  BY <1>2, <1>10, <1>11 DEF Good, BankOK
<1>13. /\ Extends(c, a) /\ Extends(c, b) /\ Programs(c) = Programs(a)
       /\ SkillCount(c) = SkillCount(a)
  BY <1>2, <1>10 DEF Extends, Slots, Programs, SkillCount, FamilyOf
<1>14. /\ c.programs[parents[1]] = b.programs[parents[1]]
       /\ c.programs[parents[2]] = b.programs[parents[2]]
       /\ parents \in Pairs(c)
  BY <1>4, <1>13 DEF Extends, Pairs
<1>15. Composable(c, parents) /\ Composed(c, parents) = child
  BY <1>14 DEF Composable, Composed, child
<1>16. ASSUME NEW record \in c.provenance
       PROVE  /\ record.child \in Programs(c)
              /\ record.parents \in Pairs(c)
              /\ Composable(c, record.parents)
              /\ record.child = Composed(c, record.parents)
              /\ record.digests = <<c.programs[record.parents[1]],
                                    c.programs[record.parents[2]]>>
  <2>1. CASE record = new
    BY <1>2, <1>7, <1>13, <1>14, <1>15, <2>1
  <2>2. CASE record \in a.provenance
    BY <1>2, <1>12, <1>13, <2>2, RecordsStay DEF Good
  <2>3. QED
    BY <1>10, <2>1, <2>2
<1>17. Loadable(c)
  <2>1. \A t \in FamilyOf(c) : Fits(t, c.family)
    BY <1>2, <1>10 DEF Good, Loadable, FamilyOf
  <2>2. QED
    BY <1>2, <1>10, <1>13, <1>16, <2>1 DEF Loadable, Good
<1>18. new \in c.provenance
  BY <1>10
<1>19. c.version = b.version + 2
  BY <1>2, <1>3, <1>10
<1>20. QED
  BY <1>2, <1>7, <1>12, <1>13, <1>17, <1>18, <1>19 DEF Good, child, c

WithFamily(b, f, v) == [b EXCEPT !.family = f, !.version = v]

Held(f) == IF f = None THEN {} ELSE f.programs

AllFit(f) == \A t \in Held(f) : Fits(t, f)

(* Another family changes nothing else of a bank.                          *)
LEMMA FamilyChanged ==
  ASSUME NEW b, Good(b), NEW f \in Families \union {None}, NEW v \in Nat,
         AllFit(f),
         Len(b.programs) + Cardinality(Held(f)) <= Capacity
  PROVE  /\ Good(WithFamily(b, f, v)) /\ Extends(WithFamily(b, f, v), b)
         /\ WithFamily(b, f, v).family = f /\ WithFamily(b, f, v).version = v
<1>. DEFINE c == WithFamily(b, f, v)
<1>1. b \in Banks
  BY DEF Good, BankOK
<1>1a. c = [b EXCEPT !.family = f, !.version = v]
  BY DEF WithFamily
<1>. HIDE DEF c
<1>2. c = [programs |-> b.programs, family |-> f, routes |-> b.routes,
           provenance |-> b.provenance, version |-> v]
  BY <1>1, <1>1a DEF Banks
<1>3. c \in Banks
  BY <1>1, <1>2 DEF Banks
<1>4. /\ c.programs = b.programs /\ c.family = f /\ c.routes = b.routes
      /\ c.provenance = b.provenance /\ c.version = v
  BY <1>2
<1>5. BankOK(c)
  BY <1>3, <1>4 DEF Good, BankOK
<1>6. Extends(c, b)
  BY <1>4 DEF Extends, Slots
<1>7. SkillCount(c) <= Capacity
  BY <1>4 DEF SkillCount, FamilyOf, Held
<1>8. ASSUME NEW record \in c.provenance
      PROVE  /\ record.child \in Programs(c)
             /\ record.parents \in Pairs(c)
             /\ Composable(c, record.parents)
             /\ record.child = Composed(c, record.parents)
             /\ record.digests = <<c.programs[record.parents[1]],
                                   c.programs[record.parents[2]]>>
  <2>1. record \in b.provenance /\ BankOK(b) /\ Loadable(b)
    BY <1>4 DEF Good
  <2>2. QED
    BY <1>5, <1>6, <2>1, RecordsStay
<1>9. c.routes # None => c.routes = Len(c.programs)
  BY <1>4 DEF Good, Loadable
<1>10. Loadable(c)
  <2>1. \A t \in FamilyOf(c) : Fits(t, c.family)
    BY <1>4 DEF AllFit, Held, FamilyOf
  <2>2. QED
    BY <1>7, <1>8, <1>9, <2>1 DEF Loadable
<1>11. QED
  BY <1>4, <1>5, <1>6, <1>10 DEF Good, c

-----------------------------------------------------------------------------
(* The state *)

(* A composed candidate is still what its parents' slots compose to.       *)
Derived(c, b) ==
  c # None /\ c.parents # None =>
    /\ c.parents \in Pairs(b) /\ Composable(b, c.parents)
    /\ c.artifact = Composed(b, c.parents)

FilesAgree ==
  /\ file # None => Good(file)
  /\ ~ saving /\ ~ cut /\ file # None => checksum = "this"

Sane ==
  /\ TypeOK /\ Good(bank) /\ Derived(candidate, bank) /\ FilesAgree
  /\ ~ up => candidate = None

LEMMA DerivedStays ==
  ASSUME NEW x, NEW b, NEW c, Derived(x, b), Extends(c, b) PROVE Derived(x, c)
<1>1. SUFFICES ASSUME x # None, x.parents # None
               PROVE  /\ x.parents \in Pairs(c) /\ Composable(c, x.parents)
                      /\ x.artifact = Composed(c, x.parents)
  BY DEF Derived
<1>2. /\ x.parents \in Pairs(b) /\ Composable(b, x.parents)
      /\ x.artifact = Composed(b, x.parents)
  BY <1>1 DEF Derived
<1>3. x.parents[1] \in Slots(b) /\ x.parents[2] \in Slots(b)
      /\ x.parents \in Pairs(c)
  BY <1>2 DEF Pairs, Extends
<1>4. c.programs[x.parents[1]] = b.programs[x.parents[1]]
      /\ c.programs[x.parents[2]] = b.programs[x.parents[2]]
  BY <1>3 DEF Extends
<1>5. QED
  BY <1>2, <1>3, <1>4 DEF Composable, Composed

LEMMA EmptyBankGood == Good(EmptyBank) /\ FamilyOf(EmptyBank) = {}
<1>1. EmptyBank \in Banks /\ BankOK(EmptyBank)
  <2>1. <<>> \in Seq(Artifacts) /\ DOMAIN <<>> = {} /\ {} \in SUBSET Records
    OBVIOUS
  <2>2. EmptyBank \in Banks
    BY <2>1 DEF EmptyBank, Banks
  <2>3. QED
    BY <2>1, <2>2 DEF EmptyBank, BankOK
<1>2. FamilyOf(EmptyBank) = {} /\ Len(EmptyBank.programs) = 0
  BY DEF EmptyBank, FamilyOf
<1>3. SkillCount(EmptyBank) = 0
  BY <1>2, FamilySize DEF SkillCount
<1>4. Loadable(EmptyBank)
  <2>1. EmptyBank.routes = None /\ EmptyBank.provenance = {}
    BY DEF EmptyBank
  <2>2. \A t \in FamilyOf(EmptyBank) : Fits(t, EmptyBank.family)
    BY <1>2
  <2>3. QED
    BY <1>3, <2>1, <2>2, BrainAssumption DEF Loadable
<1>5. QED
  BY <1>1, <1>2, <1>4 DEF Good

LEMMA AcceptedOnMerit ==
  ASSUME NEW b \in Banks, NEW known \in BOOLEAN, NEW v \in Verdicts,
         ResultOf(b, known, v) = "accepted"
  PROVE  v = "stable" /\ (known \/ SkillCount(b) < Capacity)
<1>1. SkillCount(b) \in Nat /\ Capacity \in Nat
  BY FamilyOfBank, BrainAssumption
<1>2. ~ Full(b, known)
  BY DEF ResultOf
<1>3. v = "stable"
  BY <1>2 DEF ResultOf, Verdicts
<1>4. QED
  BY <1>1, <1>2, <1>3 DEF Full

(* What a call does to the bank: it stays good, keeps its slots, and       *)
(* changes visibly or only by a family that holds nothing.                 *)
Traced ==
  \/ bank'.version > bank.version /\ ~ rejected'
  \/ /\ FamilyOf(bank) = {} /\ FamilyOf(bank') = {}
     /\ rejected' => bank'.family = None
     /\ [bank' EXCEPT !.family = None] = [bank EXCEPT !.family = None]

LEMMA AdmitExecutiveGood ==
  ASSUME Sane, NEW base \in Bases, NEW v \in Verdicts, AdmitExecutive(<<base>>, v)
  PROVE  Good(bank') /\ Extends(bank', bank) /\ (bank' # bank => Traced)
<1>. DEFINE artifact == <<base>>
            known == artifact \in Programs(bank)
            res == ResultOf(bank, known, v)
<1>1. Good(bank) /\ bank \in Banks /\ bank.version \in Nat
  BY DEF Sane, Good, BankOK, Banks
<1>2. artifact \in Artifacts
  BY BrainAssumption DEF Artifacts
<1>3. /\ rejected' = (res = "rejected")
      /\ bank' = IF res = "accepted" THEN WithProgram(bank, artifact) ELSE bank
  BY DEF AdmitExecutive, Ends
<1>4. CASE res = "accepted"
  <2>1. known \/ SkillCount(bank) < Capacity
    <3>1. known \in BOOLEAN
      OBVIOUS
    <3>. HIDE DEF known
    <3>2. QED
      BY <1>1, <1>4, <3>1, AcceptedOnMerit
  <2>. HIDE DEF artifact, res
  <2>2. /\ Good(bank') /\ Extends(bank', bank)
        /\ bank'.version = bank.version + 1
    BY <1>1, <1>2, <1>3, <1>4, <2>1, ProgramAdded
  <2>3. ~ rejected'
    BY <1>3, <1>4
  <2>4. QED
    BY <1>1, <2>2, <2>3 DEF Traced
<1>5. CASE res # "accepted"
  BY <1>1, <1>3, <1>5 DEF Extends
<1>6. QED
  BY <1>4, <1>5

LEMMA ComposeExecutiveGood ==
  ASSUME Sane, NEW parents \in Pairs(bank), NEW v \in Verdicts,
         ComposeExecutive(parents, v)
  PROVE  Good(bank') /\ Extends(bank', bank) /\ (bank' # bank => Traced)
<1>. DEFINE known == Composed(bank, parents) \in Programs(bank)
            res == ResultOf(bank, known, v)
<1>1. Good(bank) /\ bank \in Banks /\ bank.version \in Nat
  BY DEF Sane, Good, BankOK, Banks
<1>2. /\ rejected' = (res = "rejected") /\ Composable(bank, parents)
      /\ bank' = IF res = "accepted" THEN WithComposition(bank, parents) ELSE bank
  BY DEF ComposeExecutive, Ends
<1>3. CASE res = "accepted"
  <2>1. known \/ SkillCount(bank) < Capacity
    <3>1. known \in BOOLEAN
      OBVIOUS
    <3>. HIDE DEF known
    <3>2. QED
      BY <1>1, <1>3, <3>1, AcceptedOnMerit
  <2>. HIDE DEF res
  <2>2. /\ Good(bank') /\ Extends(bank', bank)
        /\ bank'.version = bank.version + 2
    BY <1>1, <1>2, <1>3, <2>1, CompositionAdded
  <2>3. ~ rejected'
    BY <1>2, <1>3
  <2>4. QED
    BY <1>1, <2>2, <2>3 DEF Traced
<1>4. CASE res # "accepted"
  BY <1>1, <1>2, <1>4 DEF Extends
<1>5. QED
  BY <1>3, <1>4

(* A family that holds nothing comes or goes.                              *)
LEMMA EmptyFamilyChanged ==
  ASSUME Good(bank), FamilyOf(bank) = {}, NEW f \in Families \union {None},
         f = None \/ f.programs = {}, rejected' => f = None,
         bank' = [bank EXCEPT !.family = f]
  PROVE  Good(bank') /\ Extends(bank', bank) /\ Traced
<1>1. bank \in Banks /\ bank.version \in Nat /\ SkillCount(bank) <= Capacity
  BY DEF Good, BankOK, Banks, Loadable
<1>2. bank' = WithFamily(bank, f, bank.version)
  BY <1>1 DEF Banks, WithFamily
<1>3. Len(bank.programs) + Cardinality(Held(f)) <= Capacity
  BY <1>1 DEF SkillCount, Held
<1>4. Good(bank') /\ Extends(bank', bank) /\ bank'.family = f
  <2>1. AllFit(f)
    BY DEF AllFit, Held
  <2>2. QED
    BY <1>1, <1>2, <1>3, <2>1, FamilyChanged
<1>5. FamilyOf(bank') = {}
  BY <1>4 DEF FamilyOf
<1>6. [bank' EXCEPT !.family = None] = [bank EXCEPT !.family = None]
  BY <1>1 DEF Banks
<1>7. QED
  BY <1>4, <1>5, <1>6 DEF Traced

LEMMA AdmitTemporalGood ==
  ASSUME Sane, NEW t \in Temporal, NEW w \in Contexts, NEW v \in Verdicts,
         AdmitTemporal(t, w, v)
  PROVE  Good(bank') /\ Extends(bank', bank) /\ (bank' # bank => Traced)
<1>. DEFINE family == IF bank.family = None THEN NewFamily(t, w) ELSE bank.family
            known == t \in FamilyOf(bank)
            full == Full(bank, known)
            gate == ResultOf(bank, known, v)
            fits == Fits(t, family) /\ w = family.context
            res == IF ~ full /\ ~ fits THEN "raised" ELSE gate
            wider == [family EXCEPT !.programs = @ \union {t}]
<1>1. /\ Good(bank) /\ bank \in Banks /\ bank.version \in Nat
      /\ bank.family \in Families \union {None}
      /\ SkillCount(bank) <= Capacity
  BY DEF Sane, Good, BankOK, Banks, Loadable
<1>2. family \in Families /\ family.programs = FamilyOf(bank)
      /\ (bank.family # None => family = bank.family)
  BY <1>1, BrainAssumption DEF Families, FamilyOf, NewFamily
<1>3. known \in BOOLEAN
  OBVIOUS
<1>4. /\ rejected' = (res = "rejected")
      /\ bank' = CASE res = "accepted" ->
                       [bank EXCEPT !.family = wider, !.version = @ + 1]
                  [] res = "rejected" /\ full -> bank
                  [] res = "rejected" /\ ~ full ->
                       [bank EXCEPT !.family = FamilyAfterRejection(family)]
                  [] res = "raised" -> [bank EXCEPT !.family = family]
  BY DEF AdmitTemporal
<1>5. /\ wider \in Families /\ wider.programs = FamilyOf(bank) \union {t}
      /\ wider.instruction = family.instruction /\ wider.context = family.context
  BY <1>2 DEF Families
<1>6. gate \in {"accepted", "rejected", "raised"}
  BY DEF ResultOf, Verdicts
<1>7. gate = "accepted" => known \/ SkillCount(bank) < Capacity
  <2>. HIDE DEF known
  <2>1. QED
    BY <1>1, <1>3, AcceptedOnMerit
<1>8. /\ res \in {"accepted", "rejected", "raised"}
      /\ res = "accepted" => gate = "accepted" /\ (full \/ Fits(t, family))
  BY <1>6
<1>8a. res = "accepted" => AllFit(wider)
  <2>1. gate = "accepted" => ~ full
    BY DEF ResultOf
  <2>2. \A u \in FamilyOf(bank) : Fits(u, bank.family)
    BY DEF Sane, Good, Loadable
  <2>3. \A u \in FamilyOf(bank) : bank.family # None
    BY DEF FamilyOf
  <2>. HIDE DEF family, full, gate, res, wider
  <2>4. \A u \in FamilyOf(bank) : Fits(u, family)
    BY <1>2, <2>2, <2>3
  <2>5. ASSUME res = "accepted", NEW u \in Held(wider) PROVE Fits(u, wider)
    <3>1. u \in FamilyOf(bank) \union {t}
      BY <1>5, <2>5 DEF Held
    <3>2. Fits(u, family)
      BY <1>8, <2>1, <2>4, <2>5, <3>1
    <3>3. QED
      BY <1>5, <3>2 DEF Fits
  <2>6. QED
    BY <2>5 DEF AllFit
<1>. HIDE DEF family, full, gate, res, wider
<1>9. CASE res = "accepted"
  <2>1. bank' = WithFamily(bank, wider, bank.version + 1)
    BY <1>4, <1>9 DEF WithFamily
  <2>2. FamilyOf(bank) \in SUBSET Temporal /\ Cardinality(FamilyOf(bank)) \in Nat
        /\ Len(bank.programs) \in Nat /\ Capacity \in Nat
    BY <1>1, FamilyOfBank, BrainAssumption
  <2>3. /\ Cardinality(FamilyOf(bank) \union {t}) <= Cardinality(FamilyOf(bank)) + 1
        /\ known => FamilyOf(bank) \union {t} = FamilyOf(bank)
        /\ Cardinality({}) = 0
    BY <2>2, FamilySize
  <2>4. FamilyOf(bank) \union {t} \in SUBSET Temporal
    BY <2>2
  <2>5. Cardinality(FamilyOf(bank) \union {t}) \in Nat
    BY <2>4, FamilySize
  <2>6. Len(bank.programs) + Cardinality(FamilyOf(bank)) <= Capacity
        /\ (known \/ Len(bank.programs) + Cardinality(FamilyOf(bank)) < Capacity)
    BY <1>1, <1>7, <1>8, <1>9 DEF SkillCount
  <2>. HIDE DEF known
  <2>7. Len(bank.programs) + Cardinality(FamilyOf(bank) \union {t}) <= Capacity
    <3>1. CASE known
      <4>1. FamilyOf(bank) \union {t} = FamilyOf(bank)
        BY <2>3, <3>1
      <4>2. QED
        BY <2>6, <4>1
    <3>2. CASE ~ known
      <4>1. Cardinality(FamilyOf(bank) \union {t}) <= Cardinality(FamilyOf(bank)) + 1
        BY <2>3
      <4>2. Len(bank.programs) + Cardinality(FamilyOf(bank)) < Capacity
        BY <2>6, <3>2
      <4>3. QED
        BY <2>2, <2>5, <4>1, <4>2
    <3>3. QED
      BY <3>1, <3>2
  <2>8. Len(bank.programs) + Cardinality(Held(wider)) <= Capacity
    <3>1. CASE wider = None
      <4>1. Held(wider) = {}
        BY <3>1 DEF Held
      <4>2. QED
        BY <2>2, <2>3, <2>6, <4>1
    <3>2. CASE wider # None
      <4>1. Held(wider) = FamilyOf(bank) \union {t}
        BY <1>5, <3>2 DEF Held
      <4>2. QED
        BY <2>7, <4>1
    <3>3. QED
      BY <3>1, <3>2
  <2>9. Good(bank') /\ Extends(bank', bank) /\ bank'.version = bank.version + 1
    BY <1>1, <1>5, <1>8a, <1>9, <2>1, <2>8, FamilyChanged
  <2>10. ~ rejected'
    BY <1>4, <1>9
  <2>11. QED
    BY <1>1, <2>9, <2>10 DEF Traced
<1>10. CASE bank' = bank
  BY <1>1, <1>10 DEF Extends
<1>11. CASE res = "rejected"
  <2>1. CASE full
    BY <1>4, <1>10, <1>11, <2>1
  <2>2. CASE ~ full
    <3>1. bank' = [bank EXCEPT !.family = FamilyAfterRejection(family)]
      BY <1>4, <1>11, <2>2
    <3>2. CASE family.programs = {}
      BY <1>1, <1>2, <3>1, <3>2, EmptyFamilyChanged DEF FamilyAfterRejection
    <3>3. CASE family.programs # {}
      <4>1. bank.family # None /\ FamilyAfterRejection(family) = bank.family
        BY <1>2, <3>3 DEF FamilyAfterRejection, FamilyOf
      <4>2. bank' = bank
        BY <1>1, <3>1, <4>1 DEF Banks
      <4>3. QED
        BY <1>10, <4>2
    <3>4. QED
      BY <3>2, <3>3
  <2>3. QED
    BY <2>1, <2>2
<1>12. CASE res = "raised"
  <2>1. bank' = [bank EXCEPT !.family = family] /\ ~ rejected'
    BY <1>4, <1>12
  <2>2. CASE bank.family = None
    <3>1. FamilyOf(bank) = {} /\ family.programs = {}
      BY <1>2, <2>2 DEF FamilyOf
    <3>2. QED
      BY <1>1, <1>2, <2>1, <3>1, EmptyFamilyChanged
  <2>3. CASE bank.family # None
    <3>1. bank' = bank
      BY <1>1, <1>2, <2>1, <2>3 DEF Banks
    <3>2. QED
      BY <1>10, <3>1
  <2>4. QED
    BY <2>2, <2>3
<1>13. QED
  BY <1>8, <1>9, <1>11, <1>12

LEMMA ImportTemporalGood ==
  ASSUME Sane, NEW family \in Imports, ImportTemporal(family)
  PROVE  Good(bank') /\ Extends(bank', bank) /\ Traced
<1>1. /\ Good(bank) /\ bank.version \in Nat /\ SkillCount(bank) <= Capacity
  BY DEF Sane, Good, BankOK, Banks, Loadable
<1>2. family \in Families /\ ~ rejected'
      /\ bank' = WithFamily(bank, family, bank.version + 1)
  BY BrainAssumption DEF ImportTemporal, WithFamily
<1>3. Len(bank.programs) + Cardinality(Held(family)) <= Capacity
  <2>1. CASE bank.family = None
    <3>1. Len(bank.programs) + Cardinality(family.programs) <= Capacity
      BY <2>1 DEF ImportTemporal
    <3>2. Len(bank.programs) + Cardinality({}) <= Capacity
      BY <1>1, <2>1 DEF SkillCount, FamilyOf
    <3>3. QED
      BY <3>1, <3>2 DEF Held
  <2>2. CASE bank.family # None
    <3>1. bank.family = family
      BY <2>2 DEF ImportTemporal
    <3>2. QED
      BY <1>1, <3>1 DEF SkillCount, FamilyOf, Held
  <2>3. QED
    BY <2>1, <2>2
<1>4. AllFit(family)
  BY DEF ImportTemporal, AllFit, Held
<1>5. Good(bank') /\ Extends(bank', bank) /\ bank'.version = bank.version + 1
  BY <1>1, <1>2, <1>3, <1>4, FamilyChanged
<1>6. QED
  BY <1>1, <1>2, <1>5 DEF Traced

LEMMA EnableRoutesGood ==
  ASSUME Sane, EnableRoutes
  PROVE  Good(bank') /\ Extends(bank', bank) /\ Traced
<1>. DEFINE n == Len(bank.programs)
<1>1. /\ bank \in Banks /\ bank.version \in Nat /\ Good(bank) /\ n \in Nat
      /\ SkillCount(bank) <= Capacity
  BY DEF Sane, Good, BankOK, Banks, Loadable
<1>2. bank' = [programs |-> bank.programs, family |-> bank.family, routes |-> n,
               provenance |-> bank.provenance, version |-> bank.version + 1]
  BY <1>1 DEF EnableRoutes, Banks
<1>. HIDE DEF n
<1>3. bank' \in Banks
  BY <1>1, <1>2 DEF Banks
<1>4. /\ bank'.programs = bank.programs /\ bank'.routes = n
      /\ bank'.family = bank.family /\ bank'.provenance = bank.provenance
      /\ bank'.version = bank.version + 1
  BY <1>2
<1>5. BankOK(bank')
  BY <1>1, <1>3, <1>4 DEF Good, BankOK
<1>6. Extends(bank', bank)
  BY <1>4 DEF Extends, Slots
<1>7. SkillCount(bank') <= Capacity
  BY <1>1, <1>4 DEF SkillCount, FamilyOf
<1>8. ASSUME NEW record \in bank'.provenance
      PROVE  /\ record.child \in Programs(bank')
             /\ record.parents \in Pairs(bank')
             /\ Composable(bank', record.parents)
             /\ record.child = Composed(bank', record.parents)
             /\ record.digests = <<bank'.programs[record.parents[1]],
                                   bank'.programs[record.parents[2]]>>
  <2>1. record \in bank.provenance /\ BankOK(bank) /\ Loadable(bank)
    BY <1>1, <1>4 DEF Good
  <2>2. QED
    BY <1>5, <1>6, <2>1, RecordsStay
<1>9. Loadable(bank')
  <2>1. \A t \in FamilyOf(bank') : Fits(t, bank'.family)
    BY <1>1, <1>4 DEF Good, Loadable, FamilyOf
  <2>2. QED
    BY <1>4, <1>7, <1>8, <2>1 DEF Loadable, n
<1>10. ~ rejected'
  BY DEF EnableRoutes
<1>11. QED
  BY <1>1, <1>4, <1>5, <1>6, <1>9, <1>10 DEF Good, Traced

-----------------------------------------------------------------------------
(* The candidate *)

LEMMA StableOutcomes ==
  ASSUME NEW l \in Seq(Means)
  PROVE  /\ Verdict(l) \in Verdicts
         /\ Verdict(l) = "stable" =>
              /\ Len(l) >= MinObservations /\ Len(l) >= MinStable
              /\ \A i \in DOMAIN l : l[i] # "outside"
              /\ \A i \in Len(l) - MinStable + 1 .. Len(l) : l[i] = "high"
<1>1. Verdict(l) \in Verdicts
  BY DEF Verdict, Verdicts
<1>2. SUFFICES ASSUME Verdict(l) = "stable"
               PROVE  /\ Len(l) >= MinObservations /\ Len(l) >= MinStable
                      /\ \A i \in DOMAIN l : l[i] # "outside"
                      /\ \A i \in Len(l) - MinStable + 1 .. Len(l) : l[i] = "high"
  BY <1>1
<1>3. /\ ~ \E i \in DOMAIN l : l[i] = "outside"
      /\ ~ (Len(l) < MinObservations)
      /\ \E first \in DOMAIN l :
           /\ Len(l) - first + 1 >= MinStable
           /\ \A i \in first .. Len(l) : l[i] = "high"
  BY <1>2 DEF Verdict
<1>4. Len(l) \in Nat /\ DOMAIN l = 1 .. Len(l)
      /\ MinStable \in Nat /\ MinObservations \in Nat
  BY BrainAssumption
<1>5. PICK first \in 1 .. Len(l) :
        /\ Len(l) - first + 1 >= MinStable
        /\ \A i \in first .. Len(l) : l[i] = "high"
  BY <1>3, <1>4
<1>6. Len(l) >= MinObservations /\ Len(l) >= MinStable
  BY <1>3, <1>4, <1>5
<1>7. ASSUME NEW i \in Len(l) - MinStable + 1 .. Len(l) PROVE l[i] = "high"
  <2>1. i \in first .. Len(l)
    BY <1>4, <1>5, <1>7
  <2>2. QED
    BY <1>5, <2>1
<1>8. QED
  BY <1>3, <1>6, <1>7

(* What NewcomersAreStable says of a step that lets the candidate in.      *)
Merited ==
  LET l == candidate'.lifetimes
  IN /\ ~ candidate.admitted /\ candidate'.admitted
     /\ candidate.artifact \in Programs(bank')
     /\ candidate.parents # None
          => \E record \in bank'.provenance :
               record.child = candidate.artifact
                 /\ record.parents = candidate.parents
     /\ Len(l) >= MinObservations
     /\ \A i \in DOMAIN l : l[i] # "outside"
     /\ Len(l) >= MinStable
     /\ \A i \in Len(l) - MinStable + 1 .. Len(l) : l[i] = "high"

LEMMA FinishEpisodeGood ==
  ASSUME Sane, NEW mean \in Means, FinishEpisode(mean)
  PROVE  /\ Good(bank') /\ Extends(bank', bank)
         /\ bank' # bank => Traced /\ Merited
         /\ candidate' \in Candidates
         /\ candidate'.parents = candidate.parents
         /\ candidate'.artifact = candidate.artifact
<1>. DEFINE l == Append(candidate.lifetimes, mean)
            known == candidate.artifact \in Programs(bank)
            verdict == Verdict(l)
            res == ResultOf(bank, known, verdict)
            adm == candidate.admitted \/ res = "accepted"
<1>1. /\ candidate \in Candidates /\ candidate # None /\ Good(bank)
      /\ bank \in Banks /\ bank.version \in Nat
  BY DEF FinishEpisode, Sane, TypeOK, Good, BankOK, Banks
<1>2. /\ candidate.artifact \in Artifacts /\ candidate.lifetimes \in Seq(Means)
      /\ candidate.admitted \in BOOLEAN
  BY <1>1 DEF Candidates
<1>3. l \in Seq(Means)
  BY <1>2
<1>4. /\ verdict \in Verdicts
      /\ verdict = "stable" =>
           /\ Len(l) >= MinObservations /\ Len(l) >= MinStable
           /\ \A i \in DOMAIN l : l[i] # "outside"
           /\ \A i \in Len(l) - MinStable + 1 .. Len(l) : l[i] = "high"
  <2>. HIDE DEF l
  <2>1. QED
    BY <1>3, StableOutcomes
<1>5. known \in BOOLEAN /\ adm \in BOOLEAN
  BY <1>2
<1>6. /\ candidate' = [candidate EXCEPT !.lifetimes = l, !.admitted = adm]
      /\ candidate.admitted => bank' = bank
      /\ ~ candidate.admitted =>
           /\ rejected' = (res = "rejected")
           /\ bank' = IF res = "accepted"
                      THEN IF candidate.parents = None
                           THEN WithProgram(bank, candidate.artifact)
                           ELSE WithComposition(bank, candidate.parents)
                      ELSE bank
  BY DEF FinishEpisode, Ends
<1>7. /\ known <=> candidate.artifact \in Programs(bank)
      /\ adm <=> candidate.admitted \/ res = "accepted"
  OBVIOUS
<1>8. res = "accepted" =>
        verdict = "stable" /\ (known \/ SkillCount(bank) < Capacity)
  <2>. HIDE DEF known, verdict
  <2>1. QED
    BY <1>1, <1>4, <1>5, AcceptedOnMerit
<1>. HIDE DEF l, known, verdict, res, adm
<1>9. /\ candidate' \in Candidates /\ candidate'.lifetimes = l
      /\ candidate'.admitted = adm /\ candidate'.parents = candidate.parents
      /\ candidate'.artifact = candidate.artifact
  BY <1>1, <1>3, <1>5, <1>6 DEF Candidates
<1>10. CASE bank' = bank
  BY <1>1, <1>9, <1>10 DEF Extends
<1>11. CASE ~ candidate.admitted /\ res = "accepted"
  <2>1. ~ rejected' /\ adm
    BY <1>6, <1>7, <1>11
  <2>2. CASE candidate.parents = None
    <3>1. bank' = WithProgram(bank, candidate.artifact)
      BY <1>6, <1>11, <2>2
    <3>2. /\ Good(bank') /\ Extends(bank', bank)
          /\ candidate.artifact \in Programs(bank')
          /\ bank'.version = bank.version + 1
      BY <1>1, <1>2, <1>7, <1>8, <1>11, <3>1, ProgramAdded
    <3>3. Traced
      BY <1>1, <2>1, <3>2 DEF Traced
    <3>4. Merited
      BY <1>4, <1>8, <1>9, <1>11, <2>1, <2>2, <3>2 DEF Merited
    <3>5. QED
      BY <1>9, <3>2, <3>3, <3>4
  <2>3. CASE candidate.parents # None
    <3>1. bank' = WithComposition(bank, candidate.parents)
      BY <1>6, <1>11, <2>3
    <3>2. /\ candidate.parents \in Pairs(bank)
          /\ Composable(bank, candidate.parents)
          /\ candidate.artifact = Composed(bank, candidate.parents)
      BY <1>1, <2>3 DEF Sane, Derived
    <3>3. /\ Good(bank') /\ Extends(bank', bank)
          /\ candidate.artifact \in Programs(bank')
          /\ bank'.version = bank.version + 2
          /\ \E record \in bank'.provenance :
               record.child = candidate.artifact
                 /\ record.parents = candidate.parents
      BY <1>1, <1>7, <1>8, <1>11, <3>1, <3>2, CompositionAdded
    <3>4. Traced
      BY <1>1, <2>1, <3>3 DEF Traced
    <3>5. Merited
      BY <1>4, <1>8, <1>9, <1>11, <2>1, <3>3 DEF Merited
    <3>6. QED
      BY <1>9, <3>3, <3>4, <3>5
  <2>4. QED
    BY <2>2, <2>3
<1>12. QED
  BY <1>6, <1>10, <1>11

LEMMA ProposeTyped ==
  ASSUME Sane, Propose
  PROVE  candidate' \in Candidates /\ Derived(candidate', bank)
<1>1. <<>> \in Seq(Means)
  OBVIOUS
<1>2. ASSUME NEW b \in Bases, candidate' = NewCandidate(<<b>>, None)
      PROVE  candidate' \in Candidates /\ Derived(candidate', bank)
  <2>1. <<b>> \in Artifacts
    BY BrainAssumption DEF Artifacts
  <2>2. QED
    BY <1>1, <1>2, <2>1 DEF NewCandidate, Candidates, Derived
<1>3. ASSUME NEW parents \in Pairs(bank), Composable(bank, parents),
             candidate' = NewCandidate(Composed(bank, parents), parents)
      PROVE  candidate' \in Candidates /\ Derived(candidate', bank)
  <2>1. bank.programs \in Seq(Artifacts) /\ Composed(bank, parents) \in Artifacts
    BY <1>3 DEF Sane, Good, BankOK, Banks, Composable
  <2>2. parents \in Nat \X Nat
    BY <2>1 DEF Pairs, Slots
  <2>3. QED
    BY <1>1, <1>3, <2>1, <2>2 DEF NewCandidate, Candidates, Derived
<1>4. QED
  BY <1>2, <1>3 DEF Propose

-----------------------------------------------------------------------------
(* Every step keeps the state sane *)

(* A call on the bank leaves the files alone.                              *)
LEMMA CallSane ==
  ASSUME Sane, up, Good(bank'), DiskUnchanged, rejected' \in BOOLEAN,
         candidate' = None \/ candidate' \in Candidates,
         Derived(candidate', bank')
  PROVE  Sane'
<1>1. BankOK(bank')
  BY DEF Good
<1>2. TypeOK'
  BY <1>1 DEF Sane, TypeOK, DiskUnchanged
<1>3. FilesAgree' /\ up'
  BY DEF Sane, FilesAgree, DiskUnchanged
<1>4. QED
  BY <1>2, <1>3 DEF Sane

LEMMA BankCallSane ==
  ASSUME Sane, up, Good(bank'), Extends(bank', bank), DiskUnchanged,
         candidate' = candidate, rejected' \in BOOLEAN
  PROVE  Sane'
<1>1. Derived(candidate', bank')
  BY DerivedStays DEF Sane
<1>2. QED
  BY <1>1, CallSane DEF Sane, TypeOK

LEMMA DiskSane ==
  ASSUME Sane, SaveBank \/ SaveChecksum \/ SaveRaises
  PROVE  Sane'
<1>1. bank' = bank /\ candidate' = candidate /\ up' = up
  BY DEF SaveBank, SaveChecksum, SaveRaises
<1>2. BankOK(bank) /\ Good(bank) /\ (file # None => Good(file))
  BY DEF Sane, FilesAgree, Good
<1>3. CASE SaveBank
  <2>1. file' = bank /\ saving' = TRUE /\ rejected' = FALSE /\ cut' = cut
        /\ checksum' \in {"missing", "this", "other"}
    BY <1>3 DEF SaveBank, ChecksumAfter, Sane, TypeOK
  <2>2. QED
    BY <1>1, <1>2, <2>1 DEF Sane, TypeOK, FilesAgree
<1>4. CASE SaveChecksum
  <2>1. file' = file /\ checksum' = "this" /\ saving' = FALSE /\ cut' = FALSE
        /\ rejected' = rejected
    BY <1>4 DEF SaveChecksum, ChecksumWritten
  <2>2. TypeOK'
    BY <1>1, <2>1 DEF Sane, TypeOK
  <2>3. FilesAgree' /\ Derived(candidate', bank')
    BY <1>1, <2>1 DEF Sane, FilesAgree
  <2>4. QED
    BY <1>1, <1>2, <2>2, <2>3 DEF Sane
<1>5. CASE SaveRaises
  <2>1. file' = file /\ checksum' = checksum /\ saving' = FALSE /\ cut' = TRUE
        /\ rejected' = rejected
    BY <1>5 DEF SaveRaises
  <2>2. TypeOK'
    BY <1>1, <2>1 DEF Sane, TypeOK
  <2>3. FilesAgree' /\ Derived(candidate', bank')
    BY <1>1, <2>1 DEF Sane, FilesAgree
  <2>4. QED
    BY <1>1, <1>2, <2>2, <2>3 DEF Sane
<1>6. QED
  BY <1>3, <1>4, <1>5

LEMMA ProcessSane == ASSUME Sane, Crash \/ Start PROVE Sane'
<1>1. Good(EmptyBank)
  BY EmptyBankGood
<1>2. CASE Crash
  <2>1. /\ bank' = EmptyBank /\ candidate' = None /\ saving' = FALSE
        /\ cut' = (cut \/ saving) /\ file' = file /\ checksum' = checksum
        /\ up' = FALSE /\ rejected' = FALSE
    BY <1>2 DEF Crash
  <2>2. cut' \in BOOLEAN /\ (~ cut' => ~ cut /\ ~ saving)
    BY <2>1 DEF Sane, TypeOK
  <2>3. QED
    BY <1>1, <2>1, <2>2 DEF Sane, TypeOK, FilesAgree, Derived, Good
<1>3. CASE Start
  <2>1. Good(bank')
    BY <1>1, <1>3 DEF Start, Accepts, Sane, FilesAgree
  <2>2. candidate' = candidate /\ UNCHANGED <<file, checksum, saving, rejected, cut>>
        /\ up' = TRUE /\ candidate = None
    BY <1>3 DEF Start, Sane
  <2>3. QED
    BY <2>1, <2>2 DEF Sane, TypeOK, FilesAgree, Derived, Good
<1>4. QED
  BY <1>2, <1>3

LEMMA StutterSane == ASSUME Sane, UNCHANGED vars PROVE Sane'
<1>1. Good(bank')
  BY DEF Sane, vars
<1>2. QED
  BY <1>1 DEF Sane, TypeOK, FilesAgree, Derived, vars

LEMMA InitSane == Init => Sane
<1>1. Good(EmptyBank)
  BY EmptyBankGood
<1>2. QED
  BY <1>1 DEF Init, Sane, TypeOK, FilesAgree, Derived, Good

LEMMA StepSane == Sane /\ [Next]_vars => Sane'
<1>1. SUFFICES ASSUME Sane, [Next]_vars PROVE Sane'
  OBVIOUS
<1>2. ASSUME NEW b \in Bases, NEW v \in Verdicts, AdmitExecutive(<<b>>, v)
      PROVE  Sane'
  <2>1. Good(bank') /\ Extends(bank', bank)
    BY <1>1, <1>2, AdmitExecutiveGood
  <2>2. QED
    BY <1>1, <1>2, <2>1, BankCallSane DEF AdmitExecutive, Calling, Ends
<1>3. ASSUME NEW p \in Pairs(bank), NEW v \in Verdicts, ComposeExecutive(p, v)
      PROVE  Sane'
  <2>1. Good(bank') /\ Extends(bank', bank)
    BY <1>1, <1>3, ComposeExecutiveGood
  <2>2. QED
    BY <1>1, <1>3, <2>1, BankCallSane DEF ComposeExecutive, Calling, Ends
<1>4. ASSUME NEW t \in Temporal, NEW w \in Contexts, NEW v \in Verdicts,
         AdmitTemporal(t, w, v)
      PROVE  Sane'
  <2>1. Good(bank') /\ Extends(bank', bank)
    BY <1>1, <1>4, AdmitTemporalGood
  <2>2. DiskUnchanged /\ up /\ candidate' = candidate /\ rejected' \in BOOLEAN
    BY <1>4 DEF AdmitTemporal, Calling
  <2>3. QED
    BY <1>1, <2>1, <2>2, BankCallSane
<1>5. ASSUME NEW family \in Imports, ImportTemporal(family) PROVE Sane'
  <2>1. Good(bank') /\ Extends(bank', bank)
    BY <1>1, <1>5, ImportTemporalGood
  <2>2. QED
    BY <1>1, <1>5, <2>1, BankCallSane DEF ImportTemporal, Calling
<1>6. CASE EnableRoutes
  <2>1. Good(bank') /\ Extends(bank', bank)
    BY <1>1, <1>6, EnableRoutesGood
  <2>2. QED
    BY <1>1, <1>6, <2>1, BankCallSane DEF EnableRoutes, Calling
<1>7. CASE Propose
  <2>1. candidate' \in Candidates /\ Derived(candidate', bank)
    BY <1>1, <1>7, ProposeTyped
  <2>2. bank' = bank /\ Good(bank') /\ DiskUnchanged /\ up /\ rejected' = FALSE
    BY <1>1, <1>7 DEF Propose, Sane
  <2>3. QED
    BY <1>1, <2>1, <2>2, CallSane
<1>8. CASE Discard
  <2>1. bank' = bank /\ Good(bank') /\ DiskUnchanged /\ up /\ rejected' = FALSE
        /\ candidate' = None
    BY <1>1, <1>8 DEF Discard, Sane
  <2>2. QED
    BY <1>1, <2>1, CallSane DEF Derived
<1>9. ASSUME NEW mean \in Means, FinishEpisode(mean) PROVE Sane'
  <2>1. /\ Good(bank') /\ Extends(bank', bank) /\ candidate' \in Candidates
        /\ candidate'.parents = candidate.parents
        /\ candidate'.artifact = candidate.artifact
    BY <1>1, <1>9, FinishEpisodeGood
  <2>2. candidate # None /\ up /\ DiskUnchanged /\ rejected' \in BOOLEAN
    BY <1>9 DEF FinishEpisode, Calling, Ends
  <2>3. Derived(candidate', bank)
    BY <1>1, <2>1, <2>2 DEF Sane, Derived
  <2>4. Derived(candidate', bank')
    BY <2>1, <2>3, DerivedStays
  <2>5. QED
    BY <1>1, <2>1, <2>2, <2>4, CallSane
<1>10. CASE SaveBank \/ SaveChecksum \/ SaveRaises
  BY <1>1, <1>10, DiskSane
<1>11. CASE Crash \/ Start
  BY <1>1, <1>11, ProcessSane
<1>12. CASE UNCHANGED vars
  BY <1>1, <1>12, StutterSane
<1>13. QED
  BY <1>1, <1>2, <1>3, <1>4, <1>5, <1>6, <1>7, <1>8, <1>9, <1>10, <1>11, <1>12
  DEF Next

LEMMA AlwaysSane == Spec => []Sane
BY InitSane, StepSane, PTL DEF Spec

(* Every bank, also the one in the file, is well-formed, and no executive  *)
(* program has two slots.                                                  *)
THEOREM Typed == Spec => []TypeOK
BY AlwaysSane, PTL DEF Sane

(* Whatever calls were accepted, rejected or raised, the bank that is saved*)
(* passes every check of from_payload.                                     *)
THEOREM Loads == Spec => []SavedBankLoads
<1>1. Sane => SavedBankLoads
  BY DEF Sane, FilesAgree, Good, SavedBankLoads
<1>2. QED
  BY <1>1, AlwaysSane, PTL

(* A load refuses only what a save that stopped halfway left behind.       *)
THEOREM RefusalHasCause == Spec => []RefusedOnlyAfterCut
<1>1. Sane => RefusedOnlyAfterCut
  BY DEF Sane, FilesAgree, Good, RefusedOnlyAfterCut, Accepts
<1>2. QED
  BY <1>1, AlwaysSane, PTL

LEMMA StepTraced ==
  Sane /\ [Next]_vars => (up /\ up' /\ bank' # bank => Traced)
<1>1. SUFFICES ASSUME Sane, Next, up, up', bank' # bank PROVE Traced
  BY DEF vars
<1>2. ASSUME NEW b \in Bases, NEW v \in Verdicts, AdmitExecutive(<<b>>, v)
      PROVE  Traced
  BY <1>1, <1>2, AdmitExecutiveGood
<1>3. ASSUME NEW p \in Pairs(bank), NEW v \in Verdicts, ComposeExecutive(p, v)
      PROVE  Traced
  BY <1>1, <1>3, ComposeExecutiveGood
<1>4. ASSUME NEW t \in Temporal, NEW w \in Contexts, NEW v \in Verdicts,
         AdmitTemporal(t, w, v)
      PROVE  Traced
  BY <1>1, <1>4, AdmitTemporalGood
<1>5. ASSUME NEW family \in Imports, ImportTemporal(family) PROVE Traced
  BY <1>1, <1>5, ImportTemporalGood
<1>6. CASE EnableRoutes
  BY <1>1, <1>6, EnableRoutesGood
<1>7. ASSUME NEW mean \in Means, FinishEpisode(mean) PROVE Traced
  BY <1>1, <1>7, FinishEpisodeGood
<1>8. CASE Propose \/ Discard \/ SaveBank \/ SaveChecksum \/ SaveRaises \/ Crash
           \/ Start
  BY <1>1, <1>8 DEF Propose, Discard, SaveBank, SaveChecksum, SaveRaises, Crash,
     Start
<1>9. QED
  BY <1>1, <1>2, <1>3, <1>4, <1>5, <1>6, <1>7, <1>8 DEF Next

(* A rejected call leaves the bank as it was, or drops a family that holds *)
(* nothing; no call changes a bank without a trace in its version, but for *)
(* such a family.                                                          *)
THEOREM NoTrace == Spec => RejectedLeavesNoTrace
<1>1. Sane /\ [Next]_vars =>
        [up /\ up' /\ bank' # bank =>
           \/ bank'.version > bank.version /\ ~ rejected'
           \/ /\ FamilyOf(bank) = {} /\ FamilyOf(bank') = {}
              /\ rejected' => bank'.family = None
              /\ [bank' EXCEPT !.family = None] = [bank EXCEPT !.family = None]]_vars
  BY StepTraced DEF Traced
<1>2. QED
  BY <1>1, AlwaysSane, PTL DEF Spec, RejectedLeavesNoTrace

LEMMA StepMerited ==
  Sane /\ [Next]_vars =>
    (candidate # None /\ candidate' # None
       /\ candidate'.lifetimes # candidate.lifetimes /\ bank' # bank => Merited)
<1>1. SUFFICES ASSUME Sane, Next, candidate # None, candidate' # None,
                      candidate' # candidate, bank' # bank
               PROVE  Merited
  BY DEF vars
<1>2. ASSUME NEW mean \in Means, FinishEpisode(mean) PROVE Merited
  BY <1>1, <1>2, FinishEpisodeGood
<1>3. ASSUME NEW b \in Bases, NEW v \in Verdicts, AdmitExecutive(<<b>>, v)
      PROVE  FALSE
  BY <1>1, <1>3 DEF AdmitExecutive
<1>4. ASSUME NEW p \in Pairs(bank), NEW v \in Verdicts, ComposeExecutive(p, v)
      PROVE  FALSE
  BY <1>1, <1>4 DEF ComposeExecutive
<1>5. ASSUME NEW t \in Temporal, NEW w \in Contexts, NEW v \in Verdicts,
         AdmitTemporal(t, w, v)
      PROVE  FALSE
  BY <1>1, <1>5 DEF AdmitTemporal
<1>6. ASSUME NEW family \in Imports, ImportTemporal(family) PROVE FALSE
  BY <1>1, <1>6 DEF ImportTemporal
<1>7. CASE EnableRoutes \/ Propose \/ Discard \/ SaveBank \/ SaveChecksum
           \/ SaveRaises \/ Crash \/ Start
  BY <1>1, <1>7 DEF EnableRoutes, Propose, Discard, SaveBank, SaveChecksum,
     SaveRaises, Crash, Start
<1>8. QED
  BY <1>1, <1>2, <1>3, <1>4, <1>5, <1>6, <1>7 DEF Next

(* A candidate enters the bank once, and only by lifetimes that the gate   *)
(* was to ask for.                                                         *)
THEOREM EntersByMerit == Spec => NewcomersAreStable
<1>1. Sane /\ [Next]_vars =>
        [candidate # None /\ candidate' # None
           /\ candidate'.lifetimes # candidate.lifetimes /\ bank' # bank =>
         LET l == candidate'.lifetimes
         IN /\ ~ candidate.admitted /\ candidate'.admitted
            /\ candidate.artifact \in Programs(bank')
            /\ candidate.parents # None
                 => \E record \in bank'.provenance :
                      record.child = candidate.artifact
                        /\ record.parents = candidate.parents
            /\ Len(l) >= MinObservations
            /\ \A i \in DOMAIN l : l[i] # "outside"
            /\ Len(l) >= MinStable
            /\ \A i \in Len(l) - MinStable + 1 .. Len(l) : l[i] = "high"]_vars
  BY StepMerited DEF Merited
<1>2. QED
  BY <1>1, AlwaysSane, PTL DEF Spec, NewcomersAreStable
=============================================================================
