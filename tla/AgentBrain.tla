------------------------------ MODULE AgentBrain ------------------------------
(***************************************************************************)
(* ExternalAgentBrainBank (src/src/neural_computer/agent_brain_bank.py) and*)
(* ExternalExecutiveCandidateLiveMachine (live.py): the one container of   *)
(* executive programs, of a family of temporal programs, of the routes to  *)
(* the former and of the provenance of composed ones, its two files, and a *)
(* candidate that earns its place in it over its lifetimes.                *)
(*                                                                         *)
(* An executive artifact is the sequence of the base programs it is        *)
(* composed of (Executive says what composition does), and its digest is   *)
(* itself; the switches of a composition are left out.  Outcomes of direct *)
(* calls are abstracted to what the admission gate makes of them; those of *)
(* the candidate are kept.                                                 *)
(***************************************************************************)
EXTENDS Naturals, Sequences, FiniteSets

CONSTANTS
  Bases,         (* executive programs that are not composed               *)
  Finite,        (* those that can reach their terminal HALT               *)
  Temporal,      (* temporal programs                                      *)
  Width,         (* instruction_width of each temporal program             *)
  Reads,         (* what the rows of each may stand for                    *)
  Contexts,      (* widths of the contexts a temporal program comes with   *)
  Imports,       (* temporal families that may be imported                 *)
  Capacity,      (* capacity                                               *)
  MinObservations, MinStable,    (* the candidate's admission gate         *)
  None,          (* no family, no routes, no candidate, no file            *)
  MaxVersion,    (* bound: changes of a bank                               *)
  MaxSaved,      (* bound: changes of a bank that is saved                 *)
  MaxParts,      (* bound: base programs of a composition                  *)
  MaxLifetimes   (* bound: lifetimes of a candidate                        *)

(* The width of an instruction and of a context, and the temporal programs.*)
Families == [instruction : Nat, context : Nat, programs : SUBSET Temporal]

ASSUME BrainAssumption ==
  /\ Finite \subseteq Bases
  /\ IsFiniteSet(Temporal) /\ Width \in [Temporal -> Nat]
  /\ Reads \in [Temporal -> SUBSET {"instruction", "context"}]
  /\ Contexts \subseteq Nat
  /\ Imports \subseteq Families
  /\ Capacity \in Nat \ {0}
  /\ MinObservations \in Nat \ {0} /\ MinStable \in Nat \ {0}
  /\ MaxVersion \in Nat /\ MaxSaved \in Nat
  /\ MaxParts \in Nat \ {0} /\ MaxLifetimes \in Nat

Artifacts == UNION {[1 .. n -> Bases] : n \in 1 .. MaxParts}

CanHandoff(artifact) == artifact[Len(artifact)] \in Finite

(* A lifetime's mean is below the threshold, at least that, or outside     *)
(* [0, 1].                                                                 *)
Means    == {"low", "high", "outside"}
Verdicts == {"stable", "unstable", "invalid"}

VARIABLES
  bank,          (* the bank of the running process                        *)
  candidate,     (* the candidate machine                                  *)
  file,          (* what the .bank file says                               *)
  checksum,      (* the .sha256: missing, of this .bank, or of another     *)
  saving,        (* save_bank has written the .bank file only              *)
  up,            (* a process is running                                   *)
  (* History.                                                              *)
  rejected,      (* the last call of an admission ended with a rejection   *)
  cut            (* a save stopped halfway, and none was completed since   *)

vars == <<bank, candidate, file, checksum, saving, up, rejected, cut>>

EmptyBank ==
  [programs |-> <<>>, family |-> None, routes |-> None, provenance |-> {},
   version |-> 0]

Programs(b) == {b.programs[i] : i \in DOMAIN b.programs}

(* _validate_artifact: the rows of an address or a recursive program are   *)
(* instructions, those of a prototype or an AND are contexts, and the one  *)
(* row of an inverted program may be either.                               *)
Fits(t, family) ==
  \/ "instruction" \in Reads[t] /\ Width[t] = family.instruction
  \/ "context" \in Reads[t] /\ Width[t] = family.context

FamilyOf(b) == IF b.family = None THEN {} ELSE b.family.programs

SkillCount(b) == Len(b.programs) + Cardinality(FamilyOf(b))

Slots(b) == DOMAIN b.programs

Pairs(b) == Slots(b) \X Slots(b)

(* compose_executive_artifacts of two slots; it raises where the first     *)
(* component never reaches its terminal.                                   *)
Composed(b, parents) == b.programs[parents[1]] \o b.programs[parents[2]]

Composable(b, parents) ==
  /\ CanHandoff(b.programs[parents[1]])
  /\ Composed(b, parents) \in Artifacts

Candidates ==
  [artifact : Artifacts, parents : (Nat \X Nat) \union {None},
   lifetimes : Seq(Means), admitted : BOOLEAN]

Records ==
  [child : Artifacts, parents : Nat \X Nat, digests : Artifacts \X Artifacts]

Banks ==
  [programs : Seq(Artifacts), family : Families \union {None},
   routes : Nat \union {None}, provenance : SUBSET Records, version : Nat]

(* No executive program has two slots.                                     *)
BankOK(b) ==
  /\ b \in Banks
  /\ \A i, j \in DOMAIN b.programs : b.programs[i] = b.programs[j] => i = j

TypeOK ==
  /\ BankOK(bank)
  /\ candidate = None \/ candidate \in Candidates
  /\ file = None \/ BankOK(file)
  /\ checksum \in {"missing", "this", "other"}
  /\ saving \in BOOLEAN /\ up \in BOOLEAN /\ cut \in BOOLEAN
  /\ rejected \in BOOLEAN

Init ==
  /\ bank = EmptyBank /\ candidate = None
  /\ file = None /\ checksum = "missing"
  /\ saving = FALSE /\ up = TRUE
  /\ rejected = FALSE /\ cut = FALSE

-----------------------------------------------------------------------------
(* The admission gate, and what an accepted artifact changes.              *)

(* Mutation: the stable suffix may have any length.                        *)
VerdictAnySuffix(outcomes) ==
  IF \E i \in DOMAIN outcomes : outcomes[i] = "outside" THEN "invalid"
  ELSE IF Len(outcomes) < MinObservations THEN "unstable"
  ELSE IF outcomes[Len(outcomes)] = "high" THEN "stable" ELSE "unstable"

(* evaluate_program_digest_admission: from some outcome on, with at least  *)
(* MinStable of them, every one reaches the threshold.                     *)
Verdict(outcomes) ==
  IF \E i \in DOMAIN outcomes : outcomes[i] = "outside" THEN "invalid"
  ELSE IF Len(outcomes) < MinObservations THEN "unstable"
  ELSE IF \E first \in DOMAIN outcomes :
            /\ Len(outcomes) - first + 1 >= MinStable
            /\ \A i \in first .. Len(outcomes) : outcomes[i] = "high"
  THEN "stable" ELSE "unstable"

(* A full bank rejects a newcomer before it looks at the outcomes.         *)
Full(b, isKnown) == SkillCount(b) >= Capacity /\ ~ isKnown

ResultOf(b, isKnown, verdict) ==
  IF Full(b, isKnown) THEN "rejected"
  ELSE CASE verdict = "stable"   -> "accepted"
         [] verdict = "unstable" -> "rejected"
         [] verdict = "invalid"  -> "raised"

(* Mutation: the routes are not widened for a new program.                 *)
RoutesForStale(b, programs) == b.routes

RoutesFor(b, programs) == IF b.routes = None THEN None ELSE Len(programs)

(* Mutation: an artifact the bank has gets another slot.                   *)
WithProgramAgain(b, artifact) ==
  LET programs == Append(b.programs, artifact)
  IN [b EXCEPT !.programs = programs, !.routes = RoutesFor(b, programs),
               !.version = @ + 1]

(* admit_executive: an identical artifact keeps its slot.                  *)
WithProgram(b, artifact) ==
  LET programs == IF artifact \in Programs(b) THEN b.programs
                  ELSE Append(b.programs, artifact)
  IN [b EXCEPT !.programs = programs, !.routes = RoutesFor(b, programs),
               !.version = @ + 1]

(* compose_executive adds where the child comes from.                      *)
WithComposition(b, parents) ==
  [WithProgram(b, Composed(b, parents)) EXCEPT
     !.provenance = @ \union
       {[child |-> Composed(b, parents), parents |-> parents,
         digests |-> <<b.programs[parents[1]], b.programs[parents[2]]>>]},
     !.version = @ + 1]

(* A call ends; the bank becomes b if it accepted.                         *)
Ends(res, b) ==
  /\ rejected' = (res = "rejected")
  /\ bank' = IF res = "accepted" THEN b ELSE bank

Calling == up /\ ~ saving /\ bank.version < MaxVersion

DiskUnchanged == UNCHANGED <<file, checksum, saving, up, cut>>

-----------------------------------------------------------------------------
(* Direct calls.                                                           *)

AdmitExecutive(artifact, verdict) ==
  /\ Calling
  /\ Ends(ResultOf(bank, artifact \in Programs(bank), verdict),
          WithProgram(bank, artifact))
  /\ UNCHANGED candidate /\ DiskUnchanged

ComposeExecutive(parents, verdict) ==
  /\ Calling /\ Composable(bank, parents)
  /\ Ends(ResultOf(bank, Composed(bank, parents) \in Programs(bank), verdict),
          WithComposition(bank, parents))
  /\ UNCHANGED candidate /\ DiskUnchanged

(* Mutation: the family a rejection leaves empty is kept.                  *)
FamilyAfterRejectionKept(family) == family

(* A rejection that leaves the family empty drops it.                      *)
FamilyAfterRejection(family) == IF family.programs = {} THEN None ELSE family

(* The family a first program makes, of its width and its context's.       *)
NewFamily(t, context) ==
  [instruction |-> Width[t], context |-> context, programs |-> {}]

(* admit_temporal.  The family is made before the call to it that may      *)
(* raise, also because the program or its context does not fit.            *)
AdmitTemporal(t, context, verdict) ==
  LET family == IF bank.family = None THEN NewFamily(t, context) ELSE bank.family
      full   == Full(bank, t \in FamilyOf(bank))
      fits   == Fits(t, family) /\ context = family.context
      res    == IF ~ full /\ ~ fits THEN "raised"
                ELSE ResultOf(bank, t \in FamilyOf(bank), verdict)
  IN /\ Calling
     /\ rejected' = (res = "rejected")
     /\ bank' = CASE res = "accepted" ->
                       [bank EXCEPT !.family = [family EXCEPT !.programs = @ \union {t}],
                                    !.version = @ + 1]
                  [] res = "rejected" /\ full -> bank
                  [] res = "rejected" /\ ~ full ->
                       [bank EXCEPT !.family = FamilyAfterRejection(family)]
                  [] res = "raised" -> [bank EXCEPT !.family = family]
     /\ UNCHANGED candidate /\ DiskUnchanged

(* import_temporal_bank; importing the same family again changes nothing   *)
(* but the version.                                                        *)
ImportTemporal(family) ==
  /\ Calling
  /\ \A t \in family.programs : Fits(t, family)
  /\ IF bank.family = None
     THEN Len(bank.programs) + Cardinality(family.programs) <= Capacity
     ELSE bank.family = family
  /\ bank' = [bank EXCEPT !.family = family, !.version = @ + 1]
  /\ rejected' = FALSE
  /\ UNCHANGED candidate /\ DiskUnchanged

(* executive_route_evidence, asked for the first time.                     *)
EnableRoutes ==
  /\ Calling /\ bank.routes = None
  /\ bank' = [bank EXCEPT !.routes = Len(bank.programs), !.version = @ + 1]
  /\ rejected' = FALSE
  /\ UNCHANGED candidate /\ DiskUnchanged

-----------------------------------------------------------------------------
(* The candidate machine.                                                  *)

NewCandidate(artifact, parents) ==
  [artifact |-> artifact, parents |-> parents, lifetimes |-> <<>>,
   admitted |-> FALSE]

Propose ==
  /\ up /\ ~ saving /\ candidate = None
  /\ \/ \E b \in Bases : candidate' = NewCandidate(<<b>>, None)
     \/ \E parents \in Pairs(bank) :
          /\ Composable(bank, parents)
          /\ candidate' = NewCandidate(Composed(bank, parents), parents)
  /\ rejected' = FALSE
  /\ UNCHANGED bank /\ DiskUnchanged

(* finish_episode of a lifetime that earned outcomes.  The lifetime counts *)
(* whatever the bank then says to it, and also if the bank raises.         *)
FinishEpisode(mean) ==
  LET lifetimes == Append(candidate.lifetimes, mean)
      known     == candidate.artifact \in Programs(bank)
      res       == ResultOf(bank, known, Verdict(lifetimes))
  IN /\ Calling /\ candidate # None
     /\ Len(candidate.lifetimes) < MaxLifetimes
     /\ IF candidate.admitted
        THEN rejected' = FALSE /\ UNCHANGED bank
        ELSE Ends(res, IF candidate.parents = None
                       THEN WithProgram(bank, candidate.artifact)
                       ELSE WithComposition(bank, candidate.parents))
     /\ candidate' = [candidate EXCEPT !.lifetimes = lifetimes,
                                       !.admitted = @ \/ res = "accepted"]
     /\ DiskUnchanged

Discard ==
  /\ up /\ ~ saving /\ candidate # None
  /\ candidate' = None /\ rejected' = FALSE
  /\ UNCHANGED bank /\ DiskUnchanged

-----------------------------------------------------------------------------
(* The two files.                                                          *)

(* What the checksum is of once the .bank file is replaced; one that was   *)
(* of another bank may be of the new one.                                  *)
ChecksumAfter(new) ==
  IF checksum = "missing" \/ new = file THEN {checksum}
  ELSE IF checksum = "this" THEN {"other"} ELSE {"this", "other"}

SaveBank ==
  /\ up /\ ~ saving /\ bank.version <= MaxSaved
  /\ file' = bank /\ checksum' \in ChecksumAfter(bank)
  /\ saving' = TRUE /\ rejected' = FALSE
  /\ UNCHANGED <<bank, candidate, up, cut>>

(* Mutation: the digest written is one computed before the file was.       *)
ChecksumBefore == checksum

ChecksumWritten == "this"

SaveChecksum ==
  /\ saving
  /\ checksum' = ChecksumWritten /\ saving' = FALSE /\ cut' = FALSE
  /\ UNCHANGED <<bank, candidate, file, up, rejected>>

(* A write raises, and save_bank with it; before the .bank file is written *)
(* that changes nothing.                                                   *)
SaveRaises ==
  /\ saving
  /\ saving' = FALSE /\ cut' = TRUE
  /\ UNCHANGED <<bank, candidate, file, checksum, up, rejected>>

Crash ==
  /\ up
  /\ up' = FALSE /\ bank' = EmptyBank /\ candidate' = None
  /\ saving' = FALSE /\ cut' = (cut \/ saving) /\ rejected' = FALSE
  /\ UNCHANGED <<file, checksum>>

(* What from_payload asks of a bank that it reads.                         *)
Loadable(b) ==
  /\ b.routes # None => b.routes = Len(b.programs)
  /\ SkillCount(b) <= Capacity
  /\ \A t \in FamilyOf(b) : Fits(t, b.family)
  /\ \A record \in b.provenance :
       /\ record.child \in Programs(b)
       /\ record.parents \in Pairs(b)
       /\ Composable(b, record.parents)
       /\ record.child = Composed(b, record.parents)
       /\ record.digests = <<b.programs[record.parents[1]],
                             b.programs[record.parents[2]]>>

Accepts == file # None /\ checksum = "this" /\ Loadable(file)

(* load_bank, or a new bank where there is none to load.                   *)
Start ==
  /\ ~ up
  /\ up' = TRUE
  /\ bank' = IF Accepts THEN file ELSE EmptyBank
  /\ UNCHANGED <<candidate, file, checksum, saving, rejected, cut>>

-----------------------------------------------------------------------------
Next ==
  \/ \E b \in Bases, v \in Verdicts : AdmitExecutive(<<b>>, v)
  \/ \E p \in Pairs(bank), v \in Verdicts : ComposeExecutive(p, v)
  \/ \E t \in Temporal, c \in Contexts, v \in Verdicts : AdmitTemporal(t, c, v)
  \/ \E family \in Imports : ImportTemporal(family)
  \/ EnableRoutes
  \/ Propose \/ Discard
  \/ \E mean \in Means : FinishEpisode(mean)
  \/ SaveBank \/ SaveChecksum \/ SaveRaises \/ Crash \/ Start

Spec == Init /\ [][Next]_vars

-----------------------------------------------------------------------------
(* Whatever the bank has been through, the bank that is saved passes every *)
(* check of from_payload: routes as wide as the programs, no more skills   *)
(* than its capacity over both families, temporal programs that all fit    *)
(* the widths of their family, and every composed program still derivable  *)
(* from the slots its record names.                                        *)
SavedBankLoads == Loadable(bank) /\ (file # None => Loadable(file))

(* "A rejected candidate leaves the bank byte-for-byte unchanged"          *)
(* (live.py:1128): a rejection changes no more than to drop a family that  *)
(* holds nothing.  A call that raises may leave such a family behind, and  *)
(* nothing else changes a bank but for its version to tell.                *)
RejectedLeavesNoTrace ==
  [][up /\ up' /\ bank' # bank =>
       \/ bank'.version > bank.version /\ ~ rejected'
       \/ /\ FamilyOf(bank) = {} /\ FamilyOf(bank') = {}
          /\ rejected' => bank'.family = None
          /\ [bank' EXCEPT !.family = None] = [bank EXCEPT !.family = None]]_vars

(* A candidate enters the bank once, with a record of its parents if it is *)
(* composed, and only after MinObservations lifetimes, all in [0, 1], of   *)
(* which the last MinStable reached the threshold.                         *)
NewcomersAreStable ==
  [][candidate # None /\ candidate' # None /\ candidate'.lifetimes # candidate.lifetimes
       /\ bank' # bank =>
     LET l == candidate'.lifetimes
     IN /\ ~ candidate.admitted /\ candidate'.admitted
        /\ candidate.artifact \in Programs(bank')
        /\ candidate.parents # None
             => \E record \in bank'.provenance :
                  record.child = candidate.artifact
                    /\ record.parents = candidate.parents
        /\ Len(l) >= MinObservations
        /\ \A i \in DOMAIN l : l[i] # "outside"
        /\ Len(l) >= MinStable
        /\ \A i \in Len(l) - MinStable + 1 .. Len(l) : l[i] = "high"]_vars

(* A bank is refused only after a save that stopped between its two files: *)
(* any other moment leaves the bank that was saved last to be loaded.      *)
RefusedOnlyAfterCut ==
  ~ saving /\ file # None /\ ~ Accepts => cut
=============================================================================
