--------------------------- MODULE OutcomeLedger ---------------------------
(***************************************************************************)
(* What the live runtime promises about an agent's action receipts.  A     *)
(* receipt is issued once and is open until its outcome is accounted for.  *)
(* Every consumer of outcomes (the observers, then the cognitive machine)  *)
(* is credited with it once per delivery; a delivery that a consumer cuts  *)
(* short is retried, and only then may a consumer be credited again.  The  *)
(* receipt closes when the machine has the outcome, and every observer too.*)
(* LiveTick implements this module.                                        *)
(***************************************************************************)
EXTENDS Naturals

CONSTANTS
  Receipts,    (* receipt identities                                       *)
  Observers,   (* external learners, credited one at a time                *)
  Machine      (* the cognitive machine, credited as the receipt closes    *)

VARIABLES
  issued,      (* receipts handed to an output device                      *)
  open,        (* receipts still waiting for their outcome                 *)
  credited,    (* how often each consumer was given each receipt's outcome *)
  retries      (* deliveries of each receipt's outcome that were cut short *)

ledgerVars == <<issued, open, credited, retries>>

Consumers == Observers \union {Machine}

(* c has not had r's outcome in the delivery under way.                    *)
Creditable(c, r) == r \in open /\ credited[c][r] <= retries[r]

CreditAll(c, S) ==
  [credited EXCEPT ![c] = [r \in Receipts |-> IF r \in S THEN @[r] + 1 ELSE @[r]]]

Init ==
  /\ issued = {}
  /\ open = {}
  /\ credited = [c \in Consumers |-> [r \in Receipts |-> 0]]
  /\ retries = [r \in Receipts |-> 0]

Issue(r) ==
  /\ r \notin issued
  /\ issued' = issued \union {r}
  /\ open' = open \union {r}
  /\ UNCHANGED <<credited, retries>>

(* The device refused the action: nobody will ever be credited with it.    *)
Withdraw(r) ==
  /\ r \in open
  /\ \A c \in Consumers : credited[c][r] = 0
  /\ open' = open \ {r}
  /\ UNCHANGED <<issued, credited, retries>>

Credit(c, r) ==
  /\ Creditable(c, r)
  /\ credited' = CreditAll(c, {r})
  /\ UNCHANGED <<issued, open, retries>>

(* Consumer c raises in the delivery of S, having taken in T or not.       *)
CutShort(c, S, T) ==
  /\ S \subseteq open
  /\ \A r \in T : Creditable(c, r)
  /\ credited' = CreditAll(c, T)
  /\ retries' = [r \in Receipts |-> IF r \in S THEN retries[r] + 1 ELSE retries[r]]
  /\ UNCHANGED <<issued, open>>

(* The machine is credited with outcomes that every observer has had, and  *)
(* their receipts close for good.                                          *)
Close(S) ==
  /\ \A r \in S : /\ Creditable(Machine, r)
                  /\ \A c \in Observers : credited[c][r] > 0
  /\ credited' = CreditAll(Machine, S)
  /\ open' = open \ S
  /\ UNCHANGED <<issued, retries>>

Next ==
  \/ \E r \in Receipts : Issue(r) \/ Withdraw(r)
  \/ \E c \in Observers, r \in Receipts : Credit(c, r)
  \/ \E c \in Consumers, S \in SUBSET Receipts :
       \E T \in SUBSET S : CutShort(c, S, T)
  \/ \E S \in SUBSET Receipts : Close(S)

Spec == Init /\ [][Next]_ledgerVars
=============================================================================
