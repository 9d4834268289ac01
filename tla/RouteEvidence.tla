---------------------------- MODULE RouteEvidence ----------------------------
(***************************************************************************)
(* The route ledger of src/src/neural_computer/addressing.py: what one     *)
(* context remembers of the slots that were tried                          *)
(* (PersistentOpaqueRouteEvidence), and what the "balanced" strategy makes *)
(* of it (PersistentOpaqueContextRouteEvidence.behavior_probabilities).    *)
(*                                                                         *)
(* Outcomes are multiples of 1/Unit.  A probability is abstracted to       *)
(* whether it is zero.                                                     *)
(***************************************************************************)
EXTENDS Integers

CONSTANTS
  NoSlot,        (* no slot                                                *)
  Unit,          (* the outcome 1.0                                        *)
  Mastery,       (* mastery_threshold                                      *)
  MinMastery,    (* min_mastery_observations                               *)
  Reversal,      (* reversal_threshold; the router passes mastery_threshold*)
  Patience,      (* reversal_patience                                      *)
  Exploration    (* the selection is made with a positive exploration      *)

ASSUME PolicyAssumption ==
  /\ Unit \in Nat \ {0}
  /\ Mastery \in 0 .. Unit /\ Reversal \in 0 .. Unit
  /\ MinMastery \in Nat \ {0} /\ Patience \in Nat \ {0}
  /\ Exploration \in BOOLEAN

Outcomes == 0 .. Unit

NoOutcome == -1

(* One slot's counters.  stable says whether every prefix mean measured so *)
(* far reached the threshold (_stable_prefix_minimum >= mastery_threshold).*)
EmptyRow ==
  [attempts |-> 0, sum |-> 0, stable |-> TRUE, protected |-> FALSE,
   low |-> 0, high |-> 0]

Rows ==
  [attempts : Nat, sum : Nat, stable : BOOLEAN, protected : BOOLEAN,
   low : Nat, high : Nat]

Ledgers(slots) ==
  [rows : [slots -> Rows], preferred : slots \union {NoSlot},
   last : slots \union {NoSlot}, lastOutcome : Outcomes \union {NoOutcome}]

(* A context without a record behaves like one with no attempts.           *)
NewLedger(slots) ==
  [rows |-> [s \in slots |-> EmptyRow], preferred |-> NoSlot,
   last |-> NoSlot, lastOutcome |-> NoOutcome]

Slots(ledger) == DOMAIN ledger.rows

(* Mutation: the records that exist already get no row for a new slot.     *)
AppendSlotNever(ledger, s) == ledger

AppendSlot(ledger, s) ==
  [ledger EXCEPT !.rows =
     [t \in Slots(ledger) \union {s} |-> IF t = s THEN EmptyRow ELSE @[t]]]

(* Mutation: a slot that is reversed keeps its counters and loses only its *)
(* protection.                                                             *)
ReleasedRowKept(row) == [row EXCEPT !.protected = FALSE, !.low = 0]

(* What a reversal leaves of a row: it must earn mastery anew.             *)
ReleasedRow(row) == EmptyRow

Counted(row, v) ==
  [row EXCEPT !.attempts = @ + 1, !.sum = @ + v,
              !.high = IF v >= Mastery THEN @ + 1 ELSE 0,
              !.low = IF row.protected /\ v <= Reversal THEN @ + 1 ELSE 0]

Reverses(row, v) ==
  row.protected /\ Counted(row, v).low >= Patience

(* A row that is not protected: MinMastery good outcomes in a row earn it  *)
(* protection, and so do measured prefix means that were never too low.    *)
Earned(row) ==
  LET stable == row.stable /\ row.sum >= Mastery * row.attempts IN
  IF row.high >= MinMastery
  THEN [row EXCEPT !.stable = TRUE, !.protected = TRUE]
  ELSE IF row.attempts >= MinMastery
  THEN [row EXCEPT !.stable = stable, !.protected = stable]
  ELSE row

ObserveRow(row, v) ==
  IF Reverses(row, v)  THEN ReleasedRow(Counted(row, v))
  ELSE IF row.protected THEN Counted(row, v)
  ELSE Earned(Counted(row, v))

(* PersistentOpaqueRouteEvidence.observe.                                  *)
ObserveSlot(ledger, s, v) ==
  LET row == ObserveRow(ledger.rows[s], v) IN
  [rows |-> [ledger.rows EXCEPT ![s] = row],
   preferred |->
     IF row.protected THEN s
     ELSE IF Reverses(ledger.rows[s], v) /\ ledger.preferred = s THEN NoSlot
     ELSE ledger.preferred,
   last |-> s, lastOutcome |-> v]

LeastTried(ledger) ==
  {s \in Slots(ledger) : \A t \in Slots(ledger) :
     ledger.rows[s].attempts <= ledger.rows[t].attempts}

(* The slots a selection may pick under the "balanced" strategy: a slot    *)
(* that is preferred, or that has just done well; otherwise the slots that *)
(* were tried least, without the one that has just failed if others remain.*)
Choices(ledger) ==
  LET promising ==
        IF ledger.preferred # NoSlot THEN ledger.preferred
        ELSE IF ledger.lastOutcome >= Mastery THEN ledger.last ELSE NoSlot
      failed == IF ledger.lastOutcome \in 0 .. Reversal
                THEN {ledger.last} ELSE {}
      others == LeastTried(ledger) \ failed
  IN IF promising # NoSlot
     THEN IF Exploration THEN Slots(ledger) ELSE {promising}
     ELSE IF others # {} THEN others ELSE LeastTried(ledger)
=============================================================================
