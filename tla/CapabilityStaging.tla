------------------------- MODULE CapabilityStaging -------------------------
(***************************************************************************)
(* ConfidenceAwareCapabilityStaging over ExternalCapabilityLifecycle.admit *)
(* (src/src/neural_computer/lifecycle.py): candidates wait, with their     *)
(* evidence, outside the executable bank until their outcomes master them. *)
(*                                                                         *)
(* The staging directory (one file per candidate, and a manifest that      *)
(* names each file's hash) and the bank's directory are two stores; an     *)
(* admission writes first to the one and then to the other.  pc is the     *)
(* write that comes next: the process may stop before any of them, and any *)
(* of them may raise.  The bank's own put and save are single steps here;  *)
(* ArtifactBank takes them apart.  A candidate's evidence in the queue is  *)
(* left out: RetentionLedger says which outcome masters it, here any may.  *)
(*                                                                         *)
(* The queue and the ledgers know a key by its exact bytes, the bank's     *)
(* rows by what they match (RowMatching): a candidate that the queue takes *)
(* for a new one may still write over the row of an admitted one.          *)
(***************************************************************************)
EXTENDS Naturals, FiniteSets, RowMatching

CONSTANTS
  MaxStaged,   (* bound: candidates staged at a time                       *)
  Faults,      (* a subset of {"crash", "disk"}                            *)
  Nobody       (* no key                                                   *)

ASSUME StagingAssumption ==
  /\ Nobody \notin Keys
  /\ MaxStaged \in Nat
  /\ Faults \subseteq {"crash", "disk"}

Evidence == {"none", "some", "protected"}

VARIABLES
  up,             (* the process: "up", "down", or "refused" by _load      *)
  call,           (* the call in progress                                  *)
  key,            (* the key it is about                                   *)
  pc,             (* its next step                                         *)
  staged,         (* _staged                                               *)
  undo,           (* what _staged becomes if _persist raises               *)
  unsaved,        (* artifact files _persist has still to write            *)
  file,           (* candidate-*.pt: missing, the bytes the manifest names,*)
                  (* or other bytes                                        *)
  manifest,       (* manifest.json: the candidates it lists                *)
  bank,           (* the executable bank: the key of each occupied row     *)
  bankEvidence,   (* the bank's ledger                                     *)
  unsavedEvidence,(* keys whose evidence the bank has in memory only       *)
  (* History.                                                              *)
  owed,           (* keys staged, and not since discarded, reported as     *)
                  (* admitted, released by the bank, or, once out of the   *)
                  (* queue, written over in the bank under a matching key  *)
  admitted,       (* keys admitted, and not since released by the bank or  *)
                  (* written over in it under a matching key               *)
  cutShort,       (* executable keys whose admission put the artifact and  *)
                  (* then stopped or raised, and has not succeeded since   *)
  interrupted     (* a _persist stopped halfway, and none succeeded since  *)

callVars  == <<call, key, pc, undo, unsaved>>
storeVars == <<file, manifest>>
bankVars  == <<bank, bankEvidence, unsavedEvidence>>
histVars  == <<owed, admitted, cutShort, interrupted>>
vars      == <<up, callVars, staged, storeVars, bankVars, histVars>>

KeysOf(b)  == {b[i] : i \in DOMAIN b}
Executable == KeysOf(bank)

TypeOK ==
  /\ up \in {"up", "down", "refused"}
  /\ call \in {"none", "stage", "observe", "admit", "discard"}
  /\ key \in Keys \union {Nobody}
  /\ pc \in {"idle", "adopt", "files", "unlink"}
  /\ staged \subseteq Keys /\ undo \subseteq Keys /\ unsaved \subseteq Keys
  /\ file \in [Keys -> {"missing", "named", "other"}]
  /\ manifest \subseteq Keys
  /\ DOMAIN bank \subseteq Nat \ {0} /\ Executable \subseteq Keys
  /\ bankEvidence \in [Keys -> Evidence]
  /\ unsavedEvidence \subseteq Keys
  /\ owed \subseteq Keys /\ admitted \subseteq Keys /\ cutShort \subseteq Keys
  /\ interrupted \in BOOLEAN

NoCall ==
  /\ call' = "none" /\ key' = Nobody /\ pc' = "idle"
  /\ undo' = {} /\ unsaved' = {}

Init ==
  /\ up = "up"
  /\ call = "none" /\ key = Nobody /\ pc = "idle"
  /\ undo = {} /\ unsaved = {}
  /\ staged = {}
  /\ file = [k \in Keys |-> "missing"]
  /\ manifest = {}
  /\ bank = <<>>
  /\ bankEvidence = [k \in Keys |-> "none"]
  /\ unsavedEvidence = {}
  /\ owed = {} /\ admitted = {} /\ cutShort = {}
  /\ interrupted = FALSE

Idle == up = "up" /\ pc = "idle"

-----------------------------------------------------------------------------
(* _persist: every candidate's file is written again, then the manifest,   *)
(* then the files of candidates no longer staged are unlinked.             *)

StartPersist(c, k, new, fallback) ==
  /\ call' = c /\ key' = k /\ pc' = "files"
  /\ staged' = new
  /\ undo' = fallback
  /\ unsaved' = new

(* torch.save names its records after the temporary file, so that no two   *)
(* saves of one artifact have the same bytes.                              *)
WriteFile(k) ==
  /\ up = "up" /\ pc = "files"
  /\ k \in unsaved
  /\ unsaved' = unsaved \ {k}
  /\ file' = [file EXCEPT ![k] = "other"]
  /\ UNCHANGED <<up, call, key, pc, undo, staged, manifest, bankVars, histVars>>

(* Mutation: what is listed was taken before the call changed it.          *)
ManifestOfBefore(s) == undo

ManifestOf(s) == s

WriteManifest ==
  /\ up = "up" /\ pc = "files"
  /\ unsaved = {}
  /\ manifest' = ManifestOf(staged)
  /\ file' = [k \in Keys |-> IF k \in staged THEN "named"
                             ELSE IF file[k] = "missing" THEN "missing" ELSE "other"]
  /\ pc' = "unlink"
  /\ interrupted' = FALSE
  /\ UNCHANGED <<up, call, key, undo, unsaved, staged, bankVars,
                 owed, admitted, cutShort>>

(* Mutation: only the file just written is kept.                           *)
LiveFilesOne(s) == {key}

LiveFiles(s) == s

(* The files of candidates no longer staged go, and the call returns.      *)
Unlink ==
  /\ up = "up" /\ pc = "unlink"
  /\ file' = [k \in Keys |-> IF k \in LiveFiles(staged) THEN file[k] ELSE "missing"]
  /\ owed' = CASE call = "stage" -> owed \union {key}
               [] call = "admit" -> owed \ {key}
               [] OTHER          -> owed
  /\ admitted' = IF call = "admit" THEN admitted \union {key} ELSE admitted
  /\ cutShort' = IF call = "admit" THEN cutShort \ {key} ELSE cutShort
  /\ NoCall
  /\ UNCHANGED <<up, staged, manifest, bankVars, interrupted>>

(* An admission that ends here has put its artifact, and is still listed.  *)
CutShort == IF call = "admit" /\ pc \in {"adopt", "files"}
            THEN cutShort \union {key} ELSE cutShort

(* stage and discard put _staged back; observe does not.                   *)
PersistRaises ==
  /\ "disk" \in Faults
  /\ up = "up" /\ pc \in {"files", "unlink"}
  /\ staged' = undo
  /\ interrupted' = (interrupted \/ pc = "files")
  /\ cutShort' = CutShort
  /\ NoCall
  /\ UNCHANGED <<up, storeVars, bankVars, owed, admitted>>

-----------------------------------------------------------------------------
(* stage, discard *)

(* Mutation: the bank is not asked whether it has evidence for the key.    *)
StageableUnlessQueued(k) == k \notin staged

Stageable(k) == bankEvidence[k] = "none" /\ k \notin staged

Stage(k) ==
  /\ Idle
  /\ Stageable(k)
  /\ Cardinality(staged) < MaxStaged
  /\ StartPersist("stage", k, staged \union {k}, staged)
  /\ UNCHANGED <<up, storeVars, bankVars, histVars>>

Discard(k) ==
  /\ Idle
  /\ k \in staged
  /\ StartPersist("discard", k, staged \ {k}, staged)
  /\ owed' = owed \ {k}
  /\ UNCHANGED <<up, storeVars, bankVars, admitted, cutShort, interrupted>>

-----------------------------------------------------------------------------
(* observe: the outcome is recorded in the candidate's own evidence first. *)
(* Where that masters it and the lifecycle then refuses (its plan asks for *)
(* a consolidation, or for growth without a destination), or raises,       *)
(* observe leaves without _persist, and nothing else has changed.          *)

ObserveStays(k) ==
  /\ Idle
  /\ k \in staged
  /\ StartPersist("observe", k, staged, staged)
  /\ UNCHANGED <<up, storeVars, bankVars, histVars>>

(* Mutation: the bank evicts without asking for protection.                *)
EvictableAny(v) == TRUE

Evictable(v) == bankEvidence[v] # "protected"

(* A put of k into bank b goes to a matching row, or, with none, to the    *)
(* first free row.                                                         *)
GoesTo(b, k, i) ==
  LET match == Matching(b, DOMAIN b, k) IN
  i \in match \/ (match = {} /\ FirstFree(i, DOMAIN b))

(* In a full bank it takes the row of an evictable victim instead; how     *)
(* full the bank is, the model leaves open.                                *)
Evicts(k, i) ==
  /\ Matching(bank, DOMAIN bank, k) = {}
  /\ i \in DOMAIN bank /\ Evictable(bank[i])

(* Mutation: rows are counted from 0.                                      *)
WithRowFromZero(b, i, k) ==
  [r \in DOMAIN b \union {i - 1} |-> IF r = i - 1 THEN k ELSE b[r]]

WithRow(b, i, k) == [r \in DOMAIN b \union {i} |-> IF r = i THEN k ELSE b[r]]

(* The keys that have no row in b, having matched another of the new keys. *)
WrittenOver(b, new) ==
  {v \in Executable \ KeysOf(b) : \E h \in new \ {v} : <<v, h>> \in Near}

(* lifecycle.admit accepts: put saves the bank, which now is b; the keys   *)
(* new have been put into it.                                              *)
Admit(k, b, new) ==
  /\ Idle
  /\ k \in staged
  /\ bank' = b
  /\ unsavedEvidence' = {}
  /\ owed' = owed \ (WrittenOver(b, new) \ staged)
  /\ admitted' = admitted \ WrittenOver(b, new)
  /\ cutShort' = cutShort \intersect KeysOf(b)
  /\ call' = "admit" /\ key' = k /\ pc' = "adopt"
  /\ UNCHANGED <<up, undo, unsaved, staged, storeVars, interrupted>>

ObserveAdmits(k, i) ==
  /\ GoesTo(bank, k, i) \/ Evicts(k, i)
  /\ Admit(k, WithRow(bank, i, k), {k})
  /\ UNCHANGED bankEvidence

(* The rows put into a larger bank, in order, in the places p.             *)
Grown(p) == [i \in {r \in DOMAIN p : Holder(p, r) # 0} |-> bank[Holder(p, i)]]

(* With growth: the new bank keeps the evidence on the keys of its rows    *)
(* only, and takes k's artifact last.                                      *)
ObserveGrows(k, p, i) ==
  /\ GoesTo(Grown(p), k, i)
  /\ Admit(k, WithRow(Grown(p), i, k), Executable \union {k})
  /\ bankEvidence' = [c \in Keys |-> IF c \in Executable THEN bankEvidence[c]
                                     ELSE "none"]

(* retention.adopt and memory.save; then the candidate leaves the queue.   *)
Adopt ==
  /\ up = "up" /\ pc = "adopt"
  /\ bankEvidence[key] = "none"
  /\ bankEvidence' = [bankEvidence EXCEPT ![key] = "protected"]
  /\ StartPersist("admit", key, staged \ {key}, staged \ {key})
  /\ UNCHANGED <<up, storeVars, bank, unsavedEvidence, histVars>>

(* The bank has evidence of its own for the key: adopt raises, the artifact*)
(* is executable already, and the candidate stays staged.                  *)
AdoptRaises ==
  /\ up = "up" /\ pc = "adopt"
  /\ bankEvidence[key] # "none"
  /\ cutShort' = CutShort
  /\ NoCall
  /\ UNCHANGED <<up, staged, storeVars, bankVars, owed, admitted, interrupted>>

SaveRaises ==
  /\ "disk" \in Faults
  /\ up = "up" /\ pc = "adopt"
  /\ bankEvidence[key] = "none"
  /\ bankEvidence' = [bankEvidence EXCEPT ![key] = "protected"]
  /\ unsavedEvidence' = unsavedEvidence \union {key}
  /\ cutShort' = CutShort
  /\ NoCall
  /\ UNCHANGED <<up, staged, storeVars, bank, owed, admitted, interrupted>>

-----------------------------------------------------------------------------
(* The bank's own use, and the end of the process *)

(* The bank's own ledger withdraws its protection.                         *)
Releases(k, e) == bankEvidence[k] = "protected" /\ e # "protected"

(* memory.observe_retention of an executable capability; it saves.  What   *)
(* the bank releases, nobody is owed any longer.                           *)
BankObserves(k, e) ==
  /\ Idle
  /\ k \in Executable
  /\ e # "none"
  /\ bankEvidence' = [bankEvidence EXCEPT ![k] = e]
  /\ unsavedEvidence' = {}
  /\ admitted' = IF Releases(k, e) THEN admitted \ {k} ELSE admitted
  /\ owed' = IF Releases(k, e) THEN owed \ {k} ELSE owed
  /\ UNCHANGED <<up, callVars, staged, storeVars, bank, cutShort, interrupted>>

(* What the bank's directory holds.                                        *)
DiskEvidence(k) == IF k \in unsavedEvidence THEN "none" ELSE bankEvidence[k]

Stop ==
  /\ up = "up"
  /\ pc # "idle" => "crash" \in Faults
  /\ up' = "down"
  /\ staged' = {}
  /\ bankEvidence' = [k \in Keys |-> DiskEvidence(k)]
  /\ unsavedEvidence' = {}
  /\ interrupted' = (interrupted \/ pc = "files")
  /\ cutShort' = CutShort
  /\ NoCall
  /\ UNCHANGED <<storeVars, bank, owed, admitted>>

Loadable == \A k \in manifest : file[k] = "named"

Load ==
  /\ up = "down"
  /\ Loadable
  /\ up' = "up"
  /\ staged' = manifest
  /\ UNCHANGED <<callVars, storeVars, bankVars, histVars>>

LoadRaises ==
  /\ up = "down"
  /\ ~ Loadable
  /\ up' = "refused"
  /\ UNCHANGED <<callVars, staged, storeVars, bankVars, histVars>>

Next ==
  \/ \E k \in Keys : WriteFile(k) \/ Stage(k) \/ Discard(k) \/ ObserveStays(k)
  \/ WriteManifest \/ Unlink \/ PersistRaises
  \/ \E k \in Keys, i \in 1 .. Cardinality(DOMAIN bank) + 1 :
         \/ ObserveAdmits(k, i)
         \/ \E p \in Placements(bank) : ObserveGrows(k, p, i)
  \/ Adopt \/ AdoptRaises \/ SaveRaises
  \/ \E k \in Keys, e \in Evidence : BankObserves(k, e)
  \/ Stop \/ Load \/ LoadRaises

Spec == Init /\ [][Next]_vars

-----------------------------------------------------------------------------
(* Properties *)

(* A candidate that stage accepted is never silently discarded: until it is*)
(* reported as admitted, or the bank releases it or writes over it, one of *)
(* the two directories holds it, the bank's with its evidence, whatever    *)
(* stopped or raised in between.                                           *)
OwedIsDurable ==
  \A k \in owed :
    k \in manifest \/ (k \in Executable /\ DiskEvidence(k) # "none")

(* A capability reported as admitted is in the bank's directory, protected *)
(* by the evidence it earned in staging, and no longer in the queue's,     *)
(* until the bank releases it or a put of a matching key writes over it.   *)
AdmittedIsDurable ==
  \A k \in admitted :
    k \in Executable /\ DiskEvidence(k) = "protected" /\ k \notin manifest

(* A staged candidate is "deliberately absent from the executable bank",   *)
(* but for one whose admission put its artifact and was then cut short.    *)
StagedIsNotExecutable == Idle => staged \intersect Executable \subseteq cutShort

(* The queue fails to load only after a _persist that stopped between the  *)
(* first artifact file and the manifest.                                   *)
RefusedOnlyAfterInterruption == up = "refused" => interrupted

(* "Candidate artifacts and evidence are persisted through atomic,         *)
(* checksummed snapshots": the queue always loads.                         *)
QueueAlwaysLoads == up # "refused"
=============================================================================
