---------------------------- MODULE ArtifactBank ----------------------------
(***************************************************************************)
(* ExecutableArtifactMemory of src/src/neural_computer/artifact_memory.py: *)
(* a bounded bank of opaque artifacts, addressed by learned keys, with the *)
(* mastery evidence that protects its rows.                                *)
(*                                                                         *)
(* The bank lives in a directory: an address snapshot (rows.pt), a         *)
(* retention ledger, a manifest, the manifest's checksum, and one file per *)
(* artifact.  A save writes the first four one after the other; todo is    *)
(* what remains of the save under way, and the process may stop, or a      *)
(* write may raise, between any two of them.                               *)
(*                                                                         *)
(* A key is an exact vector, under which evidence is filed; which rows a   *)
(* put matches is RowMatching's.  A hash is the content it is the hash of. *)
(***************************************************************************)
EXTENDS Integers, Sequences, FiniteSets, RowMatching

CONSTANTS
  Capacity,     (* capacity of the first bank                              *)
  MaxRows,      (* bound: capacity after growth                            *)
  MaxMade,      (* bound: artifacts given to the bank                      *)
  MaxVersion,   (* bound: manifest versions of one directory               *)
  Faults,       (* a subset of {"crash", "disk"}                           *)
  Levels,       (* bound: the evidence outcomes may leave on a key         *)
  Nothing,      (* no key, no file, no manifest                            *)
  Torn          (* a file truncated and not yet written                    *)

Rows     == 1 .. MaxRows
Versions == 1 .. MaxVersion
Evidence == {"none", "some", "protected"}
Contents == [key : Keys, made : 1 .. MaxMade]

Manifests ==
  [version : 0 .. MaxVersion,
   path    : [Rows -> 0 .. MaxVersion],
   hash    : [Rows -> Contents \union {Nothing}],
   alias   : [Rows -> SUBSET Keys]]

ASSUME BankAssumption ==
  /\ Nothing \notin Keys \union Contents \union Manifests
  /\ {Nothing, Torn} \intersect [Keys -> Evidence] = {} /\ Nothing # Torn
  /\ Nothing \notin [Rows -> Keys \union {Nothing}]
  /\ Capacity \in Nat \ {0} /\ MaxRows \in Nat /\ Capacity <= MaxRows
  /\ MaxVersion \in Nat /\ MaxMade \in Nat
  /\ Faults \subseteq {"crash", "disk"}
  /\ Levels \subseteq {"some", "protected"}

VARIABLES
  up,            (* the process: "up", "down", or "refused" by its load    *)
  capacity,      (* capacity of the present directory's bank               *)
  rows,          (* rows: the key of each occupied row                     *)
  manifest,      (* paths, artifact_sha256, alias_keys, _manifest_version  *)
  evidence,      (* retention: what the ledger holds on each key           *)
  hot,           (* hot: artifacts in the process cache                    *)
  todo,          (* the writes a save has still to make                    *)
  diskRows, diskEvidence, diskManifest, checksum,  (* the four files       *)
  files,         (* artifact-v*.pt                                         *)
  (* History, read by no guard but the bounds.                             *)
  made,          (* artifacts given to the bank                            *)
  dirty,         (* rows put since the manifest was last written           *)
  exposed,       (* those of them that rows.pt already has                 *)
  cut,           (* rows exposed when the process stopped                  *)
  interrupted    (* a save was cut short, and none has succeeded since     *)

memoryVars == <<rows, manifest, evidence, hot>>
diskVars   == <<diskRows, diskEvidence, diskManifest, checksum, files>>
histVars   == <<made, dirty, exposed, cut, interrupted>>
vars       == <<up, capacity, memoryVars, todo, diskVars, histVars>>

SaveSteps == {"rows", "truncate", "evidence", "manifest", "checksum"}

TypeOK ==
  /\ up \in {"up", "down", "refused"}
  /\ capacity \in Rows
  /\ rows \in [Rows -> Keys \union {Nothing}]
  /\ manifest \in Manifests
  /\ evidence \in [Keys -> Evidence]
  /\ hot \in [Rows -> Contents \union {Nothing}]
  /\ todo \in Seq(SaveSteps)
  /\ diskRows \in {Nothing} \union [Rows -> Keys \union {Nothing}]
  /\ diskEvidence \in {Nothing, Torn} \union [Keys -> Evidence]
  /\ diskManifest \in {Nothing} \union Manifests
  /\ checksum \in {Nothing} \union Manifests
  /\ files \in [Versions -> Contents \union {Nothing}]
  /\ made \in 0 .. MaxMade
  /\ dirty \subseteq Rows /\ exposed \subseteq Rows /\ cut \subseteq Rows
  /\ interrupted \in BOOLEAN

NoRows     == [i \in Rows |-> Nothing]
NoEvidence == [k \in Keys |-> "none"]
NewManifest ==
  [version |-> 0,
   path    |-> [i \in Rows |-> 0],
   hash    |-> NoRows,
   alias   |-> [i \in Rows |-> {}]]

Init ==
  /\ up = "up"
  /\ capacity = Capacity
  /\ rows = NoRows
  /\ manifest = NewManifest
  /\ evidence = NoEvidence
  /\ hot = NoRows
  /\ todo = <<>>
  /\ diskRows = Nothing
  /\ diskEvidence = Nothing
  /\ diskManifest = Nothing
  /\ checksum = Nothing
  /\ files = [v \in Versions |-> Nothing]
  /\ made = 0
  /\ dirty = {} /\ exposed = {} /\ cut = {}
  /\ interrupted = FALSE

Idle == up = "up" /\ todo = <<>>

Occupied       == {i \in Rows : rows[i] # Nothing}
Addresses(i)   == {rows[i]} \union manifest.alias[i]
RowIsProtected(i) == \E k \in Addresses(i) : evidence[k] = "protected"

-----------------------------------------------------------------------------
(* Saving *)

(* Mutation: the manifest is written before the rows it describes.         *)
SaveManifestFirst == <<"manifest", "rows", "truncate", "evidence", "checksum">>

(* Mutation: the ledger is not saved with the rest.                        *)
SaveWithoutEvidence == <<"rows", "manifest", "checksum">>

Save          == <<"rows", "truncate", "evidence", "manifest", "checksum">>
SaveRetention == <<"truncate", "evidence">>

Next1(step) ==
  /\ up = "up"
  /\ todo # <<>> /\ Head(todo) = step
  /\ todo' = Tail(todo)

WriteRows ==
  /\ Next1("rows")
  /\ diskRows' = rows
  /\ exposed' = dirty
  /\ UNCHANGED <<up, capacity, memoryVars, diskEvidence, diskManifest, checksum,
                 files, made, dirty, cut, interrupted>>

(* The ledger is written in place: opening the file truncates it.          *)
TruncateRetention ==
  /\ Next1("truncate")
  /\ diskEvidence' = Torn
  /\ UNCHANGED <<up, capacity, memoryVars, diskRows, diskManifest, checksum, files,
                 histVars>>

WriteRetention ==
  /\ Next1("evidence")
  /\ diskEvidence' = evidence
  /\ UNCHANGED <<up, capacity, memoryVars, diskRows, diskManifest, checksum, files,
                 histVars>>

WriteManifest ==
  /\ Next1("manifest")
  /\ diskManifest' = manifest
  /\ cut' = cut \ dirty
  /\ dirty' = {}
  /\ exposed' = {}
  /\ UNCHANGED <<up, capacity, memoryVars, diskRows, diskEvidence, checksum, files,
                 made, interrupted>>

WriteChecksum ==
  /\ Next1("checksum")
  /\ checksum' = manifest
  /\ interrupted' = FALSE
  /\ UNCHANGED <<up, capacity, memoryVars, diskRows, diskEvidence, diskManifest,
                 files, made, dirty, exposed, cut>>

(* A write raises: the caller's call fails, the bank in memory stays.      *)
WriteRaises ==
  /\ "disk" \in Faults
  /\ up = "up" /\ todo # <<>>
  /\ todo' = <<>>
  /\ interrupted' = TRUE
  /\ UNCHANGED <<up, capacity, memoryVars, diskVars, made, dirty, exposed, cut>>

-----------------------------------------------------------------------------
(* put *)

(* Mutation: the file of the present manifest is written over.             *)
ArtifactVersionReused == IF manifest.version = 0 THEN 1 ELSE manifest.version

ArtifactVersion == manifest.version + 1

(* Mutation: the process cache keeps the row's former artifact.            *)
DroppedFromHotNever(i) == hot

DroppedFromHot(i) == [hot EXCEPT ![i] = Nothing]

(* The new artifact's file is written, row i is taken, and all is saved.   *)
Place(k, i) ==
  LET content == [key |-> k, made |-> made + 1] IN
  /\ made < MaxMade
  /\ ArtifactVersion \in Versions
  /\ files' = [files EXCEPT ![ArtifactVersion] = content]
  /\ rows' = [rows EXCEPT ![i] = k]
  /\ manifest' = [version |-> manifest.version + 1,
                  path    |-> [manifest.path EXCEPT ![i] = ArtifactVersion],
                  hash    |-> [manifest.hash EXCEPT ![i] = content],
                  alias   |-> [manifest.alias EXCEPT ![i] = {}]]
  /\ hot' = DroppedFromHot(i)
  /\ todo' = Save
  /\ made' = made + 1
  /\ dirty' = dirty \union {i}
  /\ UNCHANGED <<up, capacity, evidence, diskRows, diskEvidence, diskManifest,
                 checksum, exposed, cut, interrupted>>

MatchingRows(k) == Matching(rows, Occupied, k)
Free            == (1 .. capacity) \ Occupied

(* Mutation: only the primary key is asked for protection.                 *)
EvictablePrimary(i) == evidence[rows[i]] # "protected"

Evictable(i) == ~ RowIsProtected(i)

(* A matching row is overwritten, protected or not: its key becomes k, and *)
(* the evidence on its former key is no longer that of any row.            *)
PutMatching(k) ==
  /\ Idle
  /\ \E i \in MatchingRows(k) : Place(k, i)

PutFree(k) ==
  /\ Idle
  /\ MatchingRows(k) = {}
  /\ \E i \in Free : (\A j \in Free : i <= j) /\ Place(k, i)

(* The caller's eviction scores choose among the unprotected rows; with    *)
(* none left, put raises MemoryError and changes nothing.                  *)
PutEvicting(k) ==
  /\ Idle
  /\ MatchingRows(k) = {} /\ Free = {}
  /\ \E i \in Occupied : Evictable(i) /\ Place(k, i)

-----------------------------------------------------------------------------
(* Evidence, and the process cache *)

(* The evidence that outcomes for some of the keys in S may leave.         *)
(* RetentionLedger says which evidence follows which; here any may.        *)
Observations(S) == UNION {[T -> Levels] : T \in (SUBSET S) \ {{}}}

(* Mutation: the ledger forgets the keys it was given no outcome for.      *)
ObservedOnly(base, seen) == seen

Observed(base, seen) ==
  [k \in Keys |-> IF k \in DOMAIN seen THEN seen[k] ELSE base[k]]

(* observe_retention and observe_retention_batch, for keys that some row   *)
(* has or none.                                                            *)
ObserveRetention(seen) ==
  /\ Idle
  /\ evidence' = Observed(evidence, seen)
  /\ todo' = SaveRetention
  /\ UNCHANGED <<up, capacity, rows, manifest, hot, diskVars, histVars>>

(* _load_verified *)
Verified(r, m, i) ==
  /\ r[i] # Nothing => m.path[i] # 0
  /\ m.path[i] # 0 => files[m.path[i]] = m.hash[i]

(* promote, promote_candidates, promote_index and promote_view.            *)
Promote(i) ==
  /\ Idle
  /\ i \in Occupied
  /\ Verified(rows, manifest, i)
  /\ hot[i] = Nothing
  /\ hot' = [hot EXCEPT ![i] = files[manifest.path[i]]]
  /\ UNCHANGED <<up, capacity, rows, manifest, evidence, todo, diskVars, histVars>>

(* evict: one row's, or all (S = Rows).                                    *)
EvictHot(S) ==
  /\ Idle
  /\ \E i \in S : hot[i] # Nothing
  /\ hot' = [i \in Rows |-> IF i \in S THEN Nothing ELSE hot[i]]
  /\ UNCHANGED <<up, capacity, rows, manifest, evidence, todo, diskVars, histVars>>

-----------------------------------------------------------------------------
(* Stopping and loading *)

(* The process ends: between two calls, or, a crash, inside one.           *)
Stop ==
  /\ up = "up"
  /\ todo # <<>> => "crash" \in Faults
  /\ up' = "down"
  /\ rows' = NoRows
  /\ manifest' = NewManifest
  /\ evidence' = NoEvidence
  /\ hot' = NoRows
  /\ todo' = <<>>
  /\ interrupted' = (interrupted \/ todo # <<>>)
  /\ cut' = cut \union exposed
  /\ dirty' = {} /\ exposed' = {}
  /\ UNCHANGED <<capacity, diskVars, made>>

(* load: every file parses and agrees, and every occupied row verifies.  A *)
(* manifest that never had a checksum is a legacy manifest.                *)
Loadable ==
  /\ diskManifest # Nothing
  /\ checksum \in {Nothing, diskManifest}
  /\ diskEvidence # Torn
  /\ diskRows # Nothing
  /\ \A i \in Rows : diskRows[i] # Nothing => Verified(diskRows, diskManifest, i)

Load ==
  /\ up = "down"
  /\ Loadable
  /\ up' = "up"
  /\ rows' = diskRows
  /\ manifest' = diskManifest
  /\ evidence' = IF diskEvidence = Nothing THEN NoEvidence ELSE diskEvidence
  /\ interrupted' = FALSE
  /\ UNCHANGED <<capacity, hot, todo, diskVars, made, dirty, exposed, cut>>

LoadRaises ==
  /\ up = "down"
  /\ ~ Loadable
  /\ up' = "refused"
  /\ UNCHANGED <<capacity, memoryVars, todo, diskVars, histVars>>

-----------------------------------------------------------------------------
(* Rebuilding the bank in a new directory.  The source is not changed, so  *)
(* a rebuild that stops halfway leaves nothing behind: it is one step, and *)
(* the caller goes on with the new bank.                                   *)

(* Mutation: the aliases stay behind.                                      *)
EntryWithoutAliases(i) == [key     |-> rows[i],
                           alias   |-> {},
                           content |-> files[manifest.path[i]],
                           foreign |-> i \in cut]

(* What one row carries over.                                              *)
Entry(i) == [key     |-> rows[i],
             alias   |-> manifest.alias[i],
             content |-> files[manifest.path[i]],
             foreign |-> i \in cut]

(* A set of rows in an order of the caller's, and in that of the rows: the *)
(* j-th of S has j of S up to itself.                                      *)
Orders(S) ==
  {q \in [1 .. Cardinality(S) -> S] : \A i \in S : \E j \in DOMAIN q : q[j] = i}

Rank(S, i) == Cardinality({x \in S : x <= i})

Nth(S, j) == CHOOSE i \in S : Rank(S, i) = j

InOrder(S) == [j \in 1 .. Cardinality(S) |-> Nth(S, j)]

Entries(q) == [j \in DOMAIN q |-> Entry(q[j])]

EntryKeys(es) == [j \in DOMAIN es |-> es[j].key]

EntryAddresses(es) == UNION {{es[j].key} \union es[j].alias : j \in DOMAIN es}

(* retention.subset *)
EvidenceOf(S) == [k \in Keys |-> IF k \in S THEN evidence[k] ELSE "none"]

(* The entries are put into the new bank in order, each in the row and     *)
(* over the entry that p says, and the bank is saved.                      *)
Rebuild(es, p, newCapacity, newEvidence) ==
  LET held    == [i \in Rows |-> Holder(p, i)]
      Taken(i) == held[i] # 0
  IN
  /\ newCapacity \in Rows
  /\ Len(es) <= MaxVersion
  /\ capacity' = newCapacity
  /\ rows' = [i \in Rows |-> IF Taken(i) THEN es[held[i]].key ELSE Nothing]
  /\ manifest' =
       [version |-> Len(es),
        path    |-> held,
        hash    |-> [i \in Rows |-> IF Taken(i) THEN es[held[i]].content ELSE Nothing],
        alias   |-> [i \in Rows |-> IF Taken(i) THEN es[held[i]].alias ELSE {}]]
  /\ evidence' = newEvidence
  /\ hot' = NoRows
  /\ diskRows' = rows' /\ diskManifest' = manifest' /\ checksum' = manifest'
  /\ diskEvidence' = evidence'
  /\ files' = [v \in Versions |-> IF v \in DOMAIN es THEN es[v].content ELSE Nothing]
  /\ cut' = {i \in Rows : Taken(i) /\ es[held[i]].foreign}
  /\ dirty' = {} /\ exposed' = {} /\ interrupted' = FALSE
  /\ UNCHANGED <<up, todo>>

(* Growth and compaction put each row they take, and do not look whether   *)
(* a later one matched an earlier one and wrote over it.                   *)
RebuildFrom(q, newCapacity) ==
  LET es == Entries(q) IN
  \E p \in Placements(EntryKeys(es)) :
    Rebuild(es, p, newCapacity, EvidenceOf(EntryAddresses(es)))

Grow ==
  /\ Idle
  /\ \A i \in Occupied : Verified(rows, manifest, i)
  /\ RebuildFrom(InOrder(Occupied), capacity + 1)
  /\ UNCHANGED made

Compact(S) ==
  /\ Idle
  /\ S # {} /\ S \subseteq Occupied
  /\ \A i \in Occupied \ S : ~ RowIsProtected(i)
  /\ \A i \in S : Verified(rows, manifest, i)
  /\ \E q \in Orders(S) : RebuildFrom(q, Cardinality(S))
  /\ UNCHANGED made

(* Protected sources are replaced only on the evidence of outcomes.        *)
OutcomesRequired(S, seen) ==
  (\E i \in S : RowIsProtected(i)) => DOMAIN seen # {}

(* consolidate_verified, where the retention gate and the caller's         *)
(* verifier accept: one new artifact, under key k and the aliases A,       *)
(* replaces the rows S; seen is the evidence its outcomes leave, if any.   *)
(* It alone counts the rows, and raises if an entry was written over.      *)
Consolidate(S, k, A, seen) ==
  LET kept == Entries(InOrder(Occupied \ S))
      content == [key |-> k, made |-> made + 1]
      es == <<[key |-> k, alias |-> A, content |-> content, foreign |-> FALSE]>> \o kept
      before == EvidenceOf(EntryAddresses(kept))
  IN
  /\ Idle
  /\ made < MaxMade
  /\ S # {} /\ S \subseteq Occupied
  /\ \A i \in Occupied \ S : Verified(rows, manifest, i)
  /\ OutcomesRequired(S, seen)
  /\ \E p \in Placements(EntryKeys(es)) :
       OneRowEach(p) /\ Rebuild(es, p, Len(es), Observed(before, seen))
  /\ made' = made + 1

Next ==
  \/ WriteRows \/ TruncateRetention \/ WriteRetention
  \/ WriteManifest \/ WriteChecksum \/ WriteRaises
  \/ \E k \in Keys : PutMatching(k) \/ PutFree(k) \/ PutEvicting(k)
  \/ \E seen \in Observations(Keys) : ObserveRetention(seen)
  \/ \E i \in Rows : Promote(i)
  \/ \E i \in Rows : EvictHot({i})
  \/ EvictHot(Rows)
  \/ Stop \/ Load \/ LoadRaises
  \/ Grow
  \/ \E S \in SUBSET Occupied : Compact(S)
  \/ \E S \in SUBSET Occupied, k \in Keys : \E A \in SUBSET (Keys \ {k}) :
       \E seen \in {<<>>} \union Observations({k} \union A) :
         Consolidate(S, k, A, seen)

Spec == Init /\ [][Next]_vars

-----------------------------------------------------------------------------
(* Properties *)

(* Whatever was cut short before, a put never writes over a file that the  *)
(* manifest on disk refers to: the committed rows survive a later crash.   *)
Referenced == IF diskManifest = Nothing THEN {}
              ELSE {diskManifest.path[i] : i \in Rows}

NeverOverwritesReferencedFile ==
  [][capacity' = capacity /\ diskManifest' = diskManifest =>
       \A v \in Versions : files'[v] # files[v] => v \notin Referenced]_vars

(* A row serves an artifact under a key it was not put under only if the   *)
(* process stopped between the two writes of a put to that very row.       *)
Foreign(i) == rows[i] # Nothing /\ manifest.hash[i].key # rows[i]

ForeignOnlyFromCutPut ==
  up = "up" => \A i \in Rows : Foreign(i) => i \in cut

(* A bank that no save was cut short of loads again, and its four files    *)
(* then say what the process knew.                                         *)
RefusedOnlyAfterInterruption ==
  up = "refused" => interrupted \/ diskManifest = Nothing

IdleIsDurable ==
  Idle /\ ~ interrupted =>
    /\ evidence = (IF diskEvidence = Nothing THEN NoEvidence ELSE diskEvidence)
    /\ manifest.version > 0 =>
         /\ diskRows = rows /\ diskManifest = manifest
         /\ checksum \in {Nothing, manifest}
         /\ \A i \in Occupied : Verified(rows, manifest, i)

(* The process cache never serves a row's former artifact.                 *)
HotIsCurrent == \A i \in Rows : hot[i] # Nothing => hot[i] = manifest.hash[i]

(* The whole row, with its addresses and its artifact, is in the bank.     *)
Carried(i) ==
  \E j \in Rows :
    /\ {rows'[j]} \union manifest'.alias[j] = Addresses(i)
    /\ files'[manifest'.path[j]] = files[manifest.path[i]]

(* A row with a protected address, primary or alias, stays where it is     *)
(* through a put, unless the new key matches its own and writes over it;   *)
(* a consolidation carries it over, or replaces it by an artifact with     *)
(* evidence of its own.                                                    *)
WrittenOver(i)  == /\ todo' = Save /\ <<rows[i], rows'[i]>> \in Near
                   /\ manifest'.hash[i] = [key |-> rows'[i], made |-> made']
Consolidated    == todo' = <<>>
Vouched         == \E k \in {rows'[1]} \union manifest'.alias[1] : evidence'[k] # "none"
LeftInPlace(i)  == /\ todo' = Save
                   /\ rows'[i] = rows[i] /\ manifest'.alias[i] = manifest.alias[i]
                   /\ manifest'.path[i] = manifest.path[i]
                   /\ manifest'.hash[i] = manifest.hash[i]

ProtectedRowsSurvive ==
  [][Idle /\ up' = "up" /\ made' # made =>
       \A i \in Occupied : RowIsProtected(i) =>
         \/ LeftInPlace(i) \/ WrittenOver(i)
         \/ Consolidated /\ (Carried(i) \/ Vouched)]_vars

(* Growth and compaction carry protection over: every address of a         *)
(* protected row leads to the same artifact, on the same evidence, unless  *)
(* another of the rows has a key that matches this row's.                  *)
RebuildCarriesProtection ==
  [][Idle /\ Idle' /\ made' = made =>
       \A i \in Occupied : RowIsProtected(i) =>
         \/ Carried(i) /\ \A k \in Addresses(i) : evidence'[k] = evidence[k]
         \/ \E h \in Occupied \ {i} : <<rows[i], rows[h]>> \in Near]_vars

(* put adds "an artifact without evicting protected capabilities": a       *)
(* protected address stays an address of some row.                         *)
PutSparesProtectedAddresses ==
  [][todo = <<>> /\ todo' = Save =>
       \A i \in Occupied : \A k \in Addresses(i) :
         evidence[k] = "protected" =>
           \E j \in Rows : rows'[j] = k \/ k \in manifest'.alias[j]]_vars

(* put is atomic: after any stop, every row serves what was put under it.  *)
RowsServeTheirOwn == up = "up" => \A i \in Rows : ~ Foreign(i)
=============================================================================
