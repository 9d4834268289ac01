----------------------------- MODULE RowMatching -----------------------------
(***************************************************************************)
(* How ContentAddressedMemory.write (src/src/neural_computer/memory.py)    *)
(* and ExecutableArtifactMemory.put choose the row of a key, and what      *)
(* becomes of a bank's entries when growth or compaction puts them, one    *)
(* after the other, into a new one.                                        *)
(*                                                                         *)
(* A key has two identities.  Evidence, protection and the queue's check   *)
(* for duplicates go by its exact bytes: an element of Keys is one exact   *)
(* vector.  Rows match by cosine at write_match_threshold: Near holds the  *)
(* pairs of a row's key and a new key that match.  Nothing is assumed of   *)
(* Near: cosine is not transitive, and a zero key does not match itself.   *)
(***************************************************************************)
EXTENDS Naturals, FiniteSets

CONSTANTS
  Keys,         (* opaque capability addresses                             *)
  Near          (* the pairs of keys whose cosine reaches the threshold    *)

ASSUME NearAssumption == Near \subseteq Keys \X Keys

(* The rows in I, of the given keys, that a write of key k may go to: the  *)
(* best of those at the threshold, which is a row of k itself if there is  *)
(* one (it scores 1), and otherwise any of them.                           *)
Matching(key, I, k) ==
  LET near == {i \in I : <<key[i], k>> \in Near}
      same == {i \in near : key[i] = k}
  IN IF same # {} THEN same ELSE near

FirstFree(i, taken) == i \notin taken /\ 1 .. (i - 1) \subseteq taken

(* Entries are put into an empty bank in order; p[j] is the row of the     *)
(* j-th.  Of the entries J, those that no later one of them wrote over:    *)
Standing(p, J) == {i \in J : \A h \in J : h > i => p[h] # p[i]}

(* Each goes to a matching row, or, with none, to the first free row.      *)
Placements(key) ==
  {p \in [DOMAIN key -> DOMAIN key] :
     \A j \in DOMAIN key :
       LET before == {i \in DOMAIN key : i < j}
           match  == Matching(key, Standing(p, before), key[j])
       IN \/ \E i \in match : p[j] = p[i]
          \/ match = {} /\ FirstFree(p[j], {p[i] : i \in before})}

(* The entry a row has in the end, and 0 if it has none.                   *)
Holder(p, i) ==
  LET last == {j \in Standing(p, DOMAIN p) : p[j] = i} IN
  IF last = {} THEN 0 ELSE CHOOSE j \in last : TRUE

(* No entry was written over.                                              *)
OneRowEach(p) == \A i, j \in DOMAIN p : p[i] = p[j] => i = j
=============================================================================
