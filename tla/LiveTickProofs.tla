--------------------------- MODULE LiveTickProofs ---------------------------
(***************************************************************************)
(* Machine-checked proofs about LiveTick, for every set of ports, every    *)
(* number of observers, receipts, proposals and submissions, and every     *)
(* combination of faults.                                                  *)
(***************************************************************************)
EXTENDS LiveTick, SequenceTheorems, FiniteSetTheorems, WellFoundedInduction, TLAPS

(* What each phase knows of the bounds and of tick's locals.               *)
PhaseInv ==
  /\ pc # "idle" => now \in Times
  /\ pc \in {"idle", "poll"} => item = 1 /\ observer = 1
  /\ pc = "emit" => toEmit <= MaxReceipts + 1 - nextReceiptId
  /\ pc = "emitting" => /\ toEmit \in 1 .. MaxReceipts + 2 - nextReceiptId
                        /\ nextReceiptId > 1
  /\ NumObservers > 0 => observer \in Observers

TypeInv == TypeOK /\ PhaseInv

(* The loops over resolved outcomes and observers have passed (c, r).      *)
Given(c, r) ==
  /\ pc = "observe"
  /\ c \in Observers
  /\ \E i \in DOMAIN batch : /\ batch[i].receipt = r
                             /\ i < item \/ (i = item /\ c < observer)

(* The receipt just handed to a device, which has not returned.            *)
InHand == IF pc = "emitting" THEN {Emitting} ELSE {}

ResolvedInv ==
  pc = "observe" => NoDuplicates(batch) /\ BatchReceipts \subseteq pending

IssuedInv ==
  /\ pending \subseteq Issued
  /\ acted \subseteq Issued
  /\ \A c \in Consumers, r \in Receipts :
       r \notin Issued \/ r \in InHand => seen[c][r] = 0

PhysicalInv == pending \subseteq acted \union InHand

(* A pending receipt the current delivery has not reached was credited     *)
(* once per delivery cut short, and no more.                               *)
CreditInv ==
  \A c \in Consumers, r \in Receipts :
    /\ seen[c][r] <= aborted[r] + 1
    /\ r \in pending /\ ~ Given(c, r) => seen[c][r] <= aborted[r]
    /\ Given(c, r) => seen[c][r] > 0

LedgerInv == ResolvedInv /\ IssuedInv /\ PhysicalInv /\ CreditInv

IInv == TypeInv /\ LedgerInv

-----------------------------------------------------------------------------
(* Types *)

LEMMA ConstantTypes ==
  /\ Cardinality(Ports) \in Nat
  /\ NumObservers \in Nat
  /\ MaxReceipts \in Nat
  /\ MaxProposals \in Nat
  /\ MaxSubmits \in Nat
  /\ MaxTime \in Nat
<1>1. IsFiniteSet(Ports)
  BY PortsAssumption, FS_Union DEF Ports
<1>2. QED
  BY <1>1, FS_CardinalityType, BoundsAssumption

LEMMA MachineConsumes == Machine \in Consumers
BY DEF Consumers

LEMMA TypeInit == Init => TypeInv
<1>1. SUFFICES ASSUME Init PROVE TypeInv
  OBVIOUS
<1>2. order \in Seq(Ports)
  BY <1>1, ConstantTypes DEF Init
<1>3. QED
  BY <1>1, <1>2, ConstantTypes
  DEF Init, TypeInv, TypeOK, PhaseInv, Times, Receipts, Phases, Observers, Never

(* The history function keeps its type when c is given the outcomes in S.  *)
LEMMA GivenAllType ==
  ASSUME seen \in [Consumers -> [Receipts -> Nat]], NEW c \in Consumers, NEW S
  PROVE  GivenAll(c, S) \in [Consumers -> [Receipts -> Nat]]
BY DEF GivenAll

LEMMA CutShortType ==
  ASSUME aborted \in [Receipts -> Nat], NEW S, CutShort(S)
  PROVE  aborted' \in [Receipts -> Nat]
BY DEF CutShort

(* An exception, or the end of tick, resets its locals to their types.     *)
LEMMA LeaveTickType ==
  ASSUME LeaveTick
  PROVE  /\ pc' = "idle" /\ pc' \in Phases
         /\ now' \in Times \union {Never}
         /\ polled' \in Nat
         /\ batch' = <<>> /\ batch' \in Seq(Outcomes)
         /\ item' = 1 /\ observer' = 1
         /\ toEmit' \in Nat
         /\ NumObservers > 0 => observer' \in Observers
BY ConstantTypes DEF LeaveTick, Phases, Observers

LEMMA TypeStep == TypeInv /\ [Next]_vars => TypeInv'
<1>1. SUFFICES ASSUME TypeInv, [Next]_vars PROVE TypeInv'
  OBVIOUS
<1>. USE ConstantTypes DEF TypeInv, TypeOK, PhaseInv, Phases, Never
<1>2. CASE UNCHANGED vars
  BY <1>1, <1>2 DEF vars, inputVars, runtimeVars, tickVars, histVars
<1>3. ASSUME NEW t \in Times, TickStart(t) PROVE TypeInv'
  BY <1>1, <1>3 DEF TickStart, inputVars, runtimeVars, histVars, Times
<1>4. CASE PollOutcomes
  <2>1. CASE NoDuplicates(queue[NextPort])
    <3>1. queue[NextPort] \in Seq(Outcomes)
      BY <1>1, <1>4 DEF PollOutcomes
    <3>2. batch \o queue[NextPort] \in Seq(Outcomes)
      BY <1>1, <3>1, ConcatProperties
    <3>3. queue' \in [OutcomePorts -> Seq(Outcomes)]
      BY <1>1, <1>4 DEF PollOutcomes
    <3>4. polled' = polled + 1 /\ batch' = batch \o queue[NextPort]
      BY ONLY <1>4, <2>1 DEF PollOutcomes, Drained
    <3>5. UNCHANGED <<order, pending, emittedAt, nextReceiptId, lastNow, pc, now,
                      item, observer, toEmit, histVars>>
      BY ONLY <1>4, <2>1 DEF PollOutcomes
    <3>6. QED
      BY <1>1, <3>2, <3>3, <3>4, <3>5 DEF histVars
  <2>2. CASE ~ NoDuplicates(queue[NextPort])
    BY <1>1, <1>4, <2>2, LeaveTickType DEF PollOutcomes, Abort, histVars
  <2>3. QED
    BY <2>1, <2>2
<1>5. CASE PollSensor
  BY <1>1, <1>5 DEF PollSensor, inputVars, runtimeVars, histVars
<1>6. CASE SensorRaises
  BY <1>1, <1>6, LeaveTickType DEF SensorRaises, Abort, inputVars, histVars
<1>7. CASE Resolve
  BY <1>1, <1>7 DEF Resolve, inputVars, runtimeVars, histVars
<1>8. CASE ResolveRaises
  BY <1>1, <1>8, LeaveTickType DEF ResolveRaises, Abort, inputVars, histVars
<1>9. CASE Observe
  <2>1. observer \in Consumers
    BY <1>1, <1>9 DEF Observe, ObserversDone, Consumers
  <2>2. seen' \in [Consumers -> [Receipts -> Nat]]
    BY <1>1, <1>9, <2>1, GivenAllType DEF Observe
  <2>3. observer' \in Nat \ {0} /\ (NumObservers > 0 => observer' \in Observers)
    BY <1>1, <1>9 DEF Observe, ObserversDone, Observers
  <2>4. item' \in Nat \ {0}
    BY <1>1, <1>9 DEF Observe
  <2>5. QED
    BY <1>1, <1>9, <2>2, <2>3, <2>4 DEF Observe, inputVars, runtimeVars
<1>10. CASE ObserverRaises
  <2>1. observer \in Consumers
    BY <1>1, <1>10 DEF ObserverRaises, ObserversDone, Consumers
  <2>2. seen' \in [Consumers -> [Receipts -> Nat]]
    BY <1>1, <1>10, <2>1, GivenAllType DEF ObserverRaises, MaybeSeen
  <2>3. aborted' \in [Receipts -> Nat]
    BY <1>1, <1>10, CutShortType DEF ObserverRaises
  <2>4. QED
    BY <1>1, <1>10, <2>2, <2>3, LeaveTickType DEF ObserverRaises, Abort, inputVars
<1>11. ASSUME NEW n \in 0 .. MaxProposals, MachineTick(n) PROVE TypeInv'
  <2>1. seen' \in [Consumers -> [Receipts -> Nat]]
    BY <1>1, <1>11, GivenAllType DEF MachineTick, MachineDigests, Consumers
  <2>2. QED
    BY <1>1, <1>11, <2>1 DEF MachineTick, MachineDigests, Settled, inputVars
<1>12. CASE ProposalRefused
  <2>1. seen' \in [Consumers -> [Receipts -> Nat]]
    BY <1>1, <1>12, GivenAllType DEF ProposalRefused, MachineDigests, Consumers
  <2>2. QED
    BY <1>1, <1>12, <2>1, LeaveTickType
    DEF ProposalRefused, MachineDigests, Settled, Abort, inputVars
<1>13. CASE MachineRaises
  <2>1. seen' \in [Consumers -> [Receipts -> Nat]]
    BY <1>1, <1>13, MachineConsumes, GivenAllType DEF MachineRaises, MaybeSeen
  <2>2. aborted' \in [Receipts -> Nat]
    BY <1>1, <1>13, CutShortType DEF MachineRaises
  <2>3. QED
    BY <1>1, <1>13, <2>1, <2>2, LeaveTickType DEF MachineRaises, Abort, inputVars
<1>14. CASE EmitBegin
  BY <1>1, <1>14 DEF EmitBegin, Receipts, inputVars, histVars
<1>15. CASE EmitReturn
  BY <1>1, <1>15 DEF EmitReturn, Emitting, Receipts, inputVars, runtimeVars
<1>16. CASE EmitRaises
  BY <1>1, <1>16, LeaveTickType
  DEF EmitRaises, Withdrawn, Emitting, Receipts, Abort, inputVars
<1>17. CASE TickDone
  BY <1>1, <1>17, LeaveTickType DEF TickDone, inputVars, histVars
<1>18. ASSUME NEW p \in Ports, Attach(p) PROVE TypeInv'
  BY <1>1, <1>18 DEF Attach, runtimeVars, tickVars, histVars
<1>19. ASSUME NEW p \in Ports, Detach(p) PROVE TypeInv'
  BY <1>1, <1>19 DEF Detach, runtimeVars, tickVars, histVars
<1>20. ASSUME NEW p \in OutcomePorts, NEW r \in Receipts, NEW t \in Times,
              Submit(p, r, t)
       PROVE  TypeInv'
  <2>1. [receipt |-> r, observedAt |-> t] \in Outcomes
    BY DEF Outcomes
  <2>2. queue' \in [OutcomePorts -> Seq(Outcomes)]
    BY <1>1, <1>20, <2>1 DEF Submit
  <2>3. submitted' \in [Receipts -> 0 .. MaxSubmits]
    BY <1>1, <1>20 DEF Submit
  <2>4. QED
    BY <1>1, <1>20, <2>2, <2>3 DEF Submit, runtimeVars, tickVars
<1>21. QED
  BY <1>1, <1>2, <1>3, <1>4, <1>5, <1>6, <1>7, <1>8, <1>9, <1>10, <1>11, <1>12,
     <1>13, <1>14, <1>15, <1>16, <1>17, <1>18, <1>19, <1>20
  DEF Next, TickStep, Environment

(* The variables of the runtime, its ports and its callers keep their types*)
(* whatever a port, an observer, the machine or a device does.             *)
THEOREM TypeCorrect == Spec => []TypeOK
<1>1. TypeInv => TypeOK
  BY DEF TypeInv
<1>2. QED
  BY <1>1, TypeInit, TypeStep, PTL DEF Spec

-----------------------------------------------------------------------------
(* The ledger *)

(* GivenAll adds one for c and the receipts in S, and nothing elsewhere.   *)
LEMMA GivenAllValue ==
  ASSUME seen \in [Consumers -> [Receipts -> Nat]], NEW c \in Consumers, NEW S,
         seen' = GivenAll(c, S), NEW d \in Consumers, NEW r \in Receipts
  PROVE  seen'[d][r] = IF d = c /\ r \in S THEN seen[d][r] + 1 ELSE seen[d][r]
BY DEF GivenAll

LEMMA GivenAllElsewhere ==
  ASSUME seen \in [Consumers -> [Receipts -> Nat]], NEW c \in Consumers, NEW S,
         NEW d \in Consumers, NEW r \in Receipts \ S
  PROVE  GivenAll(c, S)[d][r] = seen[d][r]
BY DEF GivenAll

(* A step that touches no receipt and enters no phase that resolves or     *)
(* emits one keeps the ledger.                                             *)
LEMMA QuietStep ==
  ASSUME LedgerInv, UNCHANGED <<pending, acted, seen, aborted, nextReceiptId>>,
         pc \notin {"observe", "emitting"}, pc' \notin {"observe", "emitting"}
  PROVE  LedgerInv'
BY DEF LedgerInv, ResolvedInv, IssuedInv, PhysicalInv, CreditInv, Given, InHand, Issued

(* Steps outside tick do not see its locals change either.                 *)
LEMMA OutsideStep ==
  ASSUME LedgerInv,
         UNCHANGED <<pending, acted, seen, aborted, nextReceiptId, tickVars>>
  PROVE  LedgerInv'
BY DEF LedgerInv, ResolvedInv, IssuedInv, PhysicalInv, CreditInv, Given, InHand,
       Issued, Emitting, NoDuplicates, BatchReceipts, tickVars

(* The next outcome is that of a pending receipt, and the next observer has*)
(* not been given it in this delivery.                                     *)
LEMMA NextUngiven ==
  ASSUME TypeInv, LedgerInv, pc = "observe", ~ ObserversDone
  PROVE  /\ item \in DOMAIN batch
         /\ observer \in Observers /\ observer \in Consumers
         /\ batch[item].receipt \in BatchReceipts
         /\ batch[item].receipt \in pending /\ batch[item].receipt \in Receipts
         /\ ~ Given(observer, batch[item].receipt)
<1>. USE DEF TypeInv, TypeOK, PhaseInv, LedgerInv
<1>1. item \in DOMAIN batch /\ observer \in Observers /\ observer \in Nat
  BY ConstantTypes DEF ObserversDone
<1>2. batch[item].receipt \in BatchReceipts
  BY <1>1 DEF BatchReceipts
<1>3. \A i \in DOMAIN batch : batch[i].receipt = batch[item].receipt => i = item
  BY <1>1 DEF ResolvedInv, NoDuplicates
<1>4. ~ Given(observer, batch[item].receipt)
  BY <1>1, <1>3 DEF Given
<1>5. QED
  BY <1>1, <1>2, <1>4 DEF ResolvedInv, Consumers

(* Giving the next outcome to the next observer reaches that pair alone.   *)
LEMMA ObserveReaches ==
  ASSUME TypeInv, LedgerInv, Observe, NEW c \in Consumers, NEW r \in Receipts
  PROVE  Given(c, r)' <=> Given(c, r) \/ (c = observer /\ r = batch[item].receipt)
<1>. USE DEF TypeInv, TypeOK, PhaseInv
<1>1. /\ pc = "observe" /\ pc' = "observe" /\ batch' = batch
      /\ item \in 1 .. Len(batch) /\ item \in DOMAIN batch
      /\ observer \in 1 .. NumObservers /\ NumObservers \in Nat
  BY ConstantTypes DEF Observe, ObserversDone, Observers
<1>2. \A i \in DOMAIN batch : i \in Nat
  OBVIOUS
<1>3. \A i \in DOMAIN batch : batch[i].receipt = batch[item].receipt <=> i = item
  BY <1>1 DEF LedgerInv, ResolvedInv, NoDuplicates
<1>4. CASE observer < NumObservers
  <2>1. item' = item /\ observer' = observer + 1
    BY <1>4 DEF Observe
  <2>2. QED
    BY <1>1, <1>2, <1>3, <1>4, <2>1 DEF Given, Observers
<1>5. CASE ~ (observer < NumObservers)
  <2>1. item' = item + 1 /\ observer' = 1
    BY <1>5 DEF Observe
  <2>2. QED
    BY <1>1, <1>2, <1>3, <1>5, <2>1 DEF Given, Observers
<1>6. QED
  BY <1>4, <1>5

LEMMA ObserveStep == TypeInv /\ LedgerInv /\ Observe => LedgerInv'
<1>1. SUFFICES ASSUME TypeInv, LedgerInv, Observe PROVE LedgerInv'
  OBVIOUS
<1>. USE DEF TypeInv, TypeOK, PhaseInv, LedgerInv
<1>2. /\ pc = "observe" /\ UNCHANGED <<pending, acted, aborted, nextReceiptId, pc, batch>>
      /\ ~ ObserversDone
  BY <1>1 DEF Observe, runtimeVars
<1>3. /\ observer \in Consumers
      /\ batch[item].receipt \in Receipts /\ batch[item].receipt \in pending
      /\ ~ Given(observer, batch[item].receipt)
  BY <1>1, <1>2, NextUngiven
<1>4. \A c \in Consumers, r \in Receipts :
        seen'[c][r] = IF c = observer /\ r = batch[item].receipt
                        THEN seen[c][r] + 1 ELSE seen[c][r]
  <2>1. seen' = GivenAll(observer, {batch[item].receipt})
    BY <1>1 DEF Observe
  <2>2. SUFFICES ASSUME NEW c \in Consumers, NEW r \in Receipts
                 PROVE  seen'[c][r] = IF c = observer /\ r = batch[item].receipt
                                        THEN seen[c][r] + 1 ELSE seen[c][r]
    OBVIOUS
  <2>3. seen'[c][r] = IF c = observer /\ r \in {batch[item].receipt}
                        THEN seen[c][r] + 1 ELSE seen[c][r]
    BY <1>1, <1>3, <2>1 DEF GivenAll
  <2>4. QED
    BY <2>3
<1>5. ResolvedInv'
  BY <1>1, <1>2 DEF ResolvedInv, NoDuplicates, BatchReceipts
<1>6. IssuedInv'
  BY <1>1, <1>2, <1>3, <1>4 DEF IssuedInv, Issued, InHand
<1>7. PhysicalInv'
  BY <1>1, <1>2 DEF PhysicalInv, InHand
<1>8. CreditInv'
  <2>1. SUFFICES ASSUME NEW c \in Consumers, NEW r \in Receipts
                 PROVE  /\ seen'[c][r] <= aborted'[r] + 1
                        /\ r \in pending' /\ ~ Given(c, r)' => seen'[c][r] <= aborted'[r]
                        /\ Given(c, r)' => seen'[c][r] > 0
    BY DEF CreditInv
  <2>2. /\ seen[c][r] \in Nat /\ aborted[r] \in Nat
        /\ seen[c][r] <= aborted[r] + 1
        /\ r \in pending /\ ~ Given(c, r) => seen[c][r] <= aborted[r]
        /\ Given(c, r) => seen[c][r] > 0
    BY <1>1 DEF CreditInv
  <2>3. Given(c, r)' <=> Given(c, r) \/ (c = observer /\ r = batch[item].receipt)
    BY <1>1, ObserveReaches
  <2>4. QED
    BY <1>2, <1>3, <1>4, <2>2, <2>3
<1>9. QED
  BY <1>5, <1>6, <1>7, <1>8

(* A consumer raises: what it was given in this delivery it may be given   *)
(* again, and aborted says so.                                             *)
LEMMA CutShortStep ==
  ASSUME TypeInv, LedgerInv, NEW c \in Consumers, NEW S \in SUBSET BatchReceipts,
         pc = "observe", MaybeSeen(c, S), CutShort(BatchReceipts), pc' = "idle",
         UNCHANGED <<pending, acted, nextReceiptId>>,
         \A r \in S : ~ Given(c, r)
  PROVE  LedgerInv'
<1>. USE DEF TypeInv, TypeOK, LedgerInv
<1>1. \A d \in Consumers, r \in Receipts :
        /\ seen[d][r] \in Nat /\ aborted[r] \in Nat
        /\ \/ seen'[d][r] = seen[d][r]
           \/ d = c /\ r \in S /\ seen'[d][r] = seen[d][r] + 1
  BY GivenAllValue DEF MaybeSeen
<1>2. \A r \in Receipts :
        aborted'[r] = IF r \in BatchReceipts THEN aborted[r] + 1 ELSE aborted[r]
  BY DEF CutShort
<1>3. BatchReceipts \subseteq pending
  BY DEF ResolvedInv
<1>4. \A d \in Consumers, r \in Receipts : ~ Given(d, r)' 
  BY DEF Given
<1>5. \A d \in Consumers, r \in Receipts : r \notin BatchReceipts => ~ Given(d, r)
  BY DEF Given, BatchReceipts
<1>6. IssuedInv'
  BY <1>1, <1>3 DEF IssuedInv, Issued, InHand
<1>7. CreditInv'
  <2>1. SUFFICES ASSUME NEW d \in Consumers, NEW r \in Receipts
                 PROVE  /\ seen'[d][r] <= aborted'[r] + 1
                        /\ r \in pending => seen'[d][r] <= aborted'[r]
    BY <1>4 DEF CreditInv
  <2>2. /\ seen[d][r] <= aborted[r] + 1
        /\ r \in pending /\ ~ Given(d, r) => seen[d][r] <= aborted[r]
    BY DEF CreditInv
  <2>3. CASE r \in BatchReceipts
    <3>1. aborted'[r] = aborted[r] + 1 /\ r \in pending
      BY <1>2, <1>3, <2>3
    <3>2. CASE seen'[d][r] = seen[d][r]
      BY <1>1, <2>2, <3>1, <3>2
    <3>3. CASE d = c /\ r \in S /\ seen'[d][r] = seen[d][r] + 1
      BY <1>1, <2>2, <3>1, <3>3
    <3>4. QED
      BY <1>1, <3>2, <3>3
  <2>4. CASE r \notin BatchReceipts
    BY <1>1, <1>2, <1>5, <2>2, <2>4
  <2>5. QED
    BY <2>3, <2>4
<1>8. ResolvedInv' /\ PhysicalInv'
  BY DEF ResolvedInv, PhysicalInv, InHand
<1>9. QED
  BY <1>6, <1>7, <1>8

LEMMA AllGiven ==
  ASSUME TypeInv, pc = "observe", ObserversDone,
         NEW c \in Observers, NEW r \in BatchReceipts
  PROVE  Given(c, r)
<1>. USE DEF TypeInv, TypeOK
<1>1. PICK i \in DOMAIN batch : batch[i].receipt = r
  BY DEF BatchReceipts
<1>2. i \in Nat /\ i <= Len(batch)
  OBVIOUS
<1>3. item > Len(batch)
  BY ConstantTypes DEF ObserversDone, Observers
<1>4. QED
  BY <1>1, <1>2, <1>3 DEF Given

(* The machine digests the batch once every observer has been given it.    *)
LEMMA DigestStep ==
  ASSUME TypeInv, LedgerInv, MachineDigests, pc' \in {"idle", "emit"},
         UNCHANGED <<acted, aborted, nextReceiptId>>
  PROVE  /\ LedgerInv'
         /\ \A c \in Consumers, r \in BatchReceipts : seen'[c][r] > 0
<1>. USE DEF TypeInv, TypeOK, LedgerInv
<1>1. pc = "observe" /\ ObserversDone /\ pending' = pending \ BatchReceipts
  BY DEF MachineDigests, Settled
<1>2. \A c \in Consumers, r \in Receipts :
        /\ seen[c][r] \in Nat /\ aborted[r] \in Nat
        /\ seen'[c][r] = IF c = Machine /\ r \in BatchReceipts
                           THEN seen[c][r] + 1 ELSE seen[c][r]
  BY MachineConsumes, GivenAllValue DEF MachineDigests
<1>3. BatchReceipts \subseteq pending /\ BatchReceipts \subseteq Receipts
  BY <1>1 DEF ResolvedInv
<1>4. \A c \in Observers, r \in BatchReceipts : Given(c, r)
  BY <1>1, AllGiven
<1>5. \A r \in Receipts : ~ Given(Machine, r)
  BY ConstantTypes DEF Given, Observers, Machine
<1>6. \A c \in Consumers, r \in BatchReceipts : seen'[c][r] > 0
  BY <1>2, <1>3, <1>4 DEF CreditInv, Consumers
<1>7. \A c \in Consumers, r \in Receipts : ~ Given(c, r)'
  BY DEF Given
<1>8. CreditInv'
  <2>1. \A c \in Consumers, r \in Receipts : Given(c, r) => r \in BatchReceipts
    BY DEF Given, BatchReceipts
  <2>2. QED
    BY <1>1, <1>2, <1>3, <1>5, <1>7, <2>1 DEF CreditInv
<1>9. IssuedInv'
  BY <1>1, <1>2, <1>3 DEF IssuedInv, Issued, InHand
<1>10. ResolvedInv' /\ PhysicalInv'
  BY <1>1 DEF ResolvedInv, PhysicalInv, InHand
<1>11. QED
  BY <1>6, <1>8, <1>9, <1>10

(* The receipt is new: nobody was ever credited with it.                   *)
LEMMA EmitBeginStep == TypeInv /\ LedgerInv /\ EmitBegin => LedgerInv'
<1>1. SUFFICES ASSUME TypeInv, LedgerInv, EmitBegin PROVE LedgerInv'
  OBVIOUS
<1>. USE DEF TypeInv, TypeOK, PhaseInv, LedgerInv
<1>2. /\ pc = "emit" /\ pc' = "emitting" /\ UNCHANGED <<acted, seen, aborted, batch>>
      /\ pending' = pending \union {nextReceiptId}
      /\ nextReceiptId' = nextReceiptId + 1 /\ nextReceiptId \in Nat
  BY <1>1, ConstantTypes DEF EmitBegin, histVars
<1>3. nextReceiptId \notin Issued /\ Issued' = Issued \union {nextReceiptId}
  BY <1>1, <1>2 DEF Issued
<1>4. InHand = {} /\ InHand' = {nextReceiptId}
  BY <1>2 DEF InHand, Emitting
<1>5. IssuedInv'
  BY <1>1, <1>2, <1>3, <1>4 DEF IssuedInv
<1>6. CreditInv'
  <2>1. \A c \in Consumers, r \in Receipts : ~ Given(c, r) /\ ~ Given(c, r)'
    BY <1>2 DEF Given
  <2>2. \A c \in Consumers :
          nextReceiptId \in Receipts => seen[c][nextReceiptId] = 0
    BY <1>1, <1>3 DEF IssuedInv
  <2>3. \A r \in Receipts : aborted[r] >= 0
    BY <1>1
  <2>4. QED
    BY <1>1, <1>2, <2>1, <2>2, <2>3 DEF CreditInv
<1>7. ResolvedInv' /\ PhysicalInv'
  BY <1>1, <1>2, <1>4 DEF ResolvedInv, PhysicalInv
<1>8. QED
  BY <1>5, <1>6, <1>7

(* The device returned or raised: the receipt in its hand is performed, or *)
(* withdrawn.                                                              *)
LEMMA EmitEndStep ==
  ASSUME TypeInv, LedgerInv, pc = "emitting", pc' \in {"emit", "idle"},
         UNCHANGED <<seen, aborted, nextReceiptId>>,
         \/ pending' = pending /\ acted' = acted \union {Emitting}
         \/ /\ pending' = pending \ {Emitting}
            /\ acted' \in {acted, acted \union {Emitting}}
  PROVE  LedgerInv'
<1>. USE DEF TypeInv, TypeOK, PhaseInv, LedgerInv
<1>1. InHand = {Emitting} /\ InHand' = {} /\ Issued' = Issued
  BY DEF InHand, Issued
<1>2. Emitting \in Issued
  BY DEF Emitting, Issued
<1>3. IssuedInv'
  BY <1>1, <1>2 DEF IssuedInv
<1>4. PhysicalInv'
  BY <1>1 DEF PhysicalInv
<1>5. \A c \in Consumers, r \in Receipts : ~ Given(c, r) /\ ~ Given(c, r)'
  BY DEF Given
<1>6. CreditInv'
  BY <1>5 DEF CreditInv
<1>7. ResolvedInv'
  BY DEF ResolvedInv
<1>8. QED
  BY <1>3, <1>4, <1>6, <1>7

LEMMA ResolveStep == TypeInv /\ LedgerInv /\ Resolve => LedgerInv'
<1>1. SUFFICES ASSUME TypeInv, LedgerInv, Resolve PROVE LedgerInv'
  OBVIOUS
<1>. USE DEF TypeInv, TypeOK, PhaseInv, LedgerInv
<1>2. /\ pc = "poll" /\ pc' = "observe" /\ item' = item /\ observer' = observer
      /\ UNCHANGED <<pending, acted, seen, aborted, nextReceiptId, batch>>
      /\ NoDuplicates(batch) /\ BatchReceipts \subseteq pending
  BY <1>1 DEF Resolve, Resolvable, BatchReceipts, histVars, runtimeVars
<1>3. ResolvedInv'
  <2>1. BatchReceipts' = BatchReceipts
    BY <1>2 DEF BatchReceipts
  <2>2. NoDuplicates(batch)'
    BY <1>2 DEF NoDuplicates
  <2>3. QED
    BY <1>2, <2>1, <2>2 DEF ResolvedInv
<1>4. IssuedInv' /\ PhysicalInv'
  BY <1>1, <1>2 DEF IssuedInv, PhysicalInv, InHand, Issued
<1>5. \A c \in Consumers, r \in Receipts : ~ Given(c, r) /\ ~ Given(c, r)'
  <2>1. item' = 1 /\ observer' = 1 /\ (\A i \in DOMAIN batch : i \in Nat \ {0})
    BY <1>1, <1>2
  <2>2. QED
    BY <1>2, <2>1, ConstantTypes DEF Given, Observers
<1>6. CreditInv'
  BY <1>1, <1>2, <1>5 DEF CreditInv
<1>7. QED
  BY <1>3, <1>4, <1>6

LEMMA LedgerInit == Init => LedgerInv
BY ConstantTypes
DEF Init, LedgerInv, ResolvedInv, IssuedInv, PhysicalInv, CreditInv, Given, InHand

LEMMA LedgerStep == TypeInv /\ LedgerInv /\ [Next]_vars => LedgerInv'
<1>1. SUFFICES ASSUME TypeInv, LedgerInv, [Next]_vars PROVE LedgerInv'
  OBVIOUS
<1>2. CASE UNCHANGED vars
  BY <1>1, <1>2, OutsideStep DEF vars, runtimeVars, histVars
<1>3. ASSUME NEW t \in Times, TickStart(t) PROVE LedgerInv'
  BY <1>1, <1>3, QuietStep DEF TickStart, runtimeVars, histVars
<1>4. CASE PollOutcomes
  <2>1. pc = "poll" /\ UNCHANGED <<pending, acted, seen, aborted, nextReceiptId>>
    BY <1>4 DEF PollOutcomes, histVars
  <2>2. pc' \in {"poll", "idle"}
    BY <1>4 DEF PollOutcomes, Abort, LeaveTick
  <2>3. QED
    BY <1>1, <2>1, <2>2, QuietStep
<1>5. CASE PollSensor
  BY <1>1, <1>5, QuietStep DEF PollSensor, runtimeVars, histVars
<1>6. CASE SensorRaises
  BY <1>1, <1>6, QuietStep DEF SensorRaises, Abort, LeaveTick, histVars
<1>7. CASE Resolve
  BY <1>1, <1>7, ResolveStep
<1>8. CASE ResolveRaises
  BY <1>1, <1>8, QuietStep DEF ResolveRaises, Abort, LeaveTick, histVars
<1>9. CASE Observe
  BY <1>1, <1>9, ObserveStep
<1>10. CASE ObserverRaises
  <2>1. /\ pc = "observe" /\ pc' = "idle" /\ CutShort(BatchReceipts)
        /\ MaybeSeen(observer, {batch[item].receipt})
        /\ UNCHANGED <<pending, acted, nextReceiptId>>
    BY <1>10 DEF ObserverRaises, Abort, LeaveTick
  <2>2. /\ observer \in Consumers /\ {batch[item].receipt} \in SUBSET BatchReceipts
        /\ ~ Given(observer, batch[item].receipt)
    BY <1>1, <1>10, <2>1, NextUngiven DEF ObserverRaises
  <2>3. QED
    BY <1>1, <2>1, <2>2, CutShortStep
<1>11. ASSUME NEW n \in 0 .. MaxProposals, MachineTick(n) PROVE LedgerInv'
  BY <1>1, <1>11, DigestStep DEF MachineTick
<1>12. CASE ProposalRefused
  BY <1>1, <1>12, DigestStep DEF ProposalRefused, Abort, LeaveTick
<1>13. CASE MachineRaises
  <2>1. /\ pc = "observe" /\ pc' = "idle" /\ CutShort(BatchReceipts)
        /\ MaybeSeen(Machine, BatchReceipts)
        /\ UNCHANGED <<pending, acted, nextReceiptId>>
    BY <1>13 DEF MachineRaises, Abort, LeaveTick
  <2>2. \A r \in BatchReceipts : ~ Given(Machine, r)
    BY ConstantTypes DEF Given, Observers, Machine
  <2>3. QED
    BY <1>1, <2>1, <2>2, MachineConsumes, CutShortStep
<1>14. CASE EmitBegin
  BY <1>1, <1>14, EmitBeginStep
<1>15. CASE EmitReturn
  BY <1>1, <1>15, EmitEndStep DEF EmitReturn, runtimeVars
<1>16. CASE EmitRaises
  BY <1>1, <1>16, EmitEndStep DEF EmitRaises, Withdrawn, Abort, LeaveTick
<1>17. CASE TickDone
  BY <1>1, <1>17, QuietStep DEF TickDone, LeaveTick, histVars
<1>18. ASSUME NEW p \in Ports, Attach(p) PROVE LedgerInv'
  BY <1>1, <1>18, OutsideStep DEF Attach, runtimeVars, histVars
<1>19. ASSUME NEW p \in Ports, Detach(p) PROVE LedgerInv'
  BY <1>1, <1>19, OutsideStep DEF Detach, runtimeVars, histVars
<1>20. ASSUME NEW p \in OutcomePorts, NEW r \in Receipts, NEW t \in Times,
              Submit(p, r, t)
       PROVE  LedgerInv'
  BY <1>1, <1>20, OutsideStep DEF Submit, runtimeVars
<1>21. QED
  BY <1>1, <1>2, <1>3, <1>4, <1>5, <1>6, <1>7, <1>8, <1>9, <1>10, <1>11, <1>12,
     <1>13, <1>14, <1>15, <1>16, <1>17, <1>18, <1>19, <1>20
  DEF Next, TickStep, Environment

LEMMA Inductive == Spec => []IInv
<1>1. Init => IInv
  BY TypeInit, LedgerInit DEF IInv
<1>2. IInv /\ [Next]_vars => IInv'
  BY TypeStep, LedgerStep DEF IInv
<1>3. QED
  BY <1>1, <1>2, PTL DEF Spec

(* However outcomes are duplicated, reordered or resubmitted, and whoever  *)
(* raises, no consumer is given a receipt's outcome more often than once   *)
(* plus the number of ticks that a consumer cut short with it resolved.    *)
THEOREM Redelivery == Spec => []RedeliveredOnlyAfterAbort
<1>1. IInv => RedeliveredOnlyAfterAbort
  BY DEF IInv, LedgerInv, CreditInv, TypeInv, TypeOK, RedeliveredOnlyAfterAbort
<1>2. QED
  BY <1>1, Inductive, PTL

(* No receipt of an action that was never performed stays behind.          *)
THEOREM Physical == Spec => []PendingIsPhysical
<1>1. IInv => PendingIsPhysical
  BY DEF IInv, LedgerInv, PhysicalInv, InHand, PendingIsPhysical
<1>2. QED
  BY <1>1, Inductive, PTL

-----------------------------------------------------------------------------
(* Steps *)

(* The steps that neither give an outcome nor close a receipt.             *)
LEMMA NoCredit ==
  ASSUME TypeInv, [Next]_vars, ~ Observe, ~ ObserverRaises, ~ MachineDigests,
         ~ MachineRaises
  PROVE  UNCHANGED <<seen, aborted>>
<1>1. CASE UNCHANGED vars
  BY <1>1 DEF vars, histVars
<1>2. ASSUME NEW t \in Times, TickStart(t) PROVE UNCHANGED <<seen, aborted>>
  BY <1>2 DEF TickStart, histVars
<1>3. CASE TickStep
  BY <1>3
  DEF TickStep, PollOutcomes, PollSensor, SensorRaises, Resolve, ResolveRaises,
      MachineTick, ProposalRefused, EmitBegin, EmitReturn, EmitRaises, TickDone,
      histVars
<1>4. CASE Environment
  BY <1>4 DEF Environment, Attach, Detach, Submit, histVars
<1>5. QED
  BY <1>1, <1>2, <1>3, <1>4 DEF Next

(* What was resolved is of the present: between the check and the last     *)
(* consumer neither the batch nor the time of an emission changes.         *)
TimelyInv == pc = "observe" => Timely

LEMMA TimelyStep == TimelyInv /\ [Next]_vars => TimelyInv'
<1>1. SUFFICES ASSUME TimelyInv, [Next]_vars, pc' = "observe" PROVE Timely'
  BY DEF TimelyInv
<1>2. CASE Resolve
  BY <1>2 DEF Resolve, Resolvable, Timely, runtimeVars
<1>3. CASE UNCHANGED <<pc, batch, emittedAt>>
  BY <1>1, <1>3 DEF TimelyInv, Timely
<1>4. CASE UNCHANGED vars \/ Observe \/ Environment
  <2>1. UNCHANGED <<batch, emittedAt>> /\ pc = "observe"
    BY <1>1, <1>4
    DEF vars, Observe, Environment, Attach, Detach, Submit, runtimeVars, tickVars
  <2>2. QED
    BY <1>1, <1>3, <2>1
<1>5. ASSUME NEW t \in Times, TickStart(t) PROVE FALSE
  BY <1>1, <1>5 DEF TickStart
<1>6. CASE TickStep /\ ~ Resolve /\ ~ Observe
  BY <1>1, <1>6
  DEF TickStep, PollOutcomes, PollSensor, SensorRaises, ResolveRaises, ObserverRaises,
      MachineTick, ProposalRefused, MachineRaises, EmitBegin, EmitReturn, EmitRaises,
      TickDone, Abort, LeaveTick
<1>7. QED
  BY <1>1, <1>2, <1>4, <1>5, <1>6 DEF Next

LEMMA ResolvedAreTimely == Spec => []TimelyInv
<1>1. Init => TimelyInv
  BY DEF Init, TimelyInv
<1>2. QED
  BY <1>1, TimelyStep, PTL DEF Spec

(* Who is given an outcome, and of which receipt.                          *)
LEMMA CreditStep ==
  ASSUME IInv, [Next]_vars, NEW c \in Consumers, NEW r \in Receipts,
         seen'[c][r] # seen[c][r]
  PROVE  pc = "observe" /\ r \in pending /\ r \in acted /\ r \in BatchReceipts
<1>. USE DEF IInv, TypeInv, TypeOK, LedgerInv
<1>1. pc = "observe" /\ r \in BatchReceipts
  <2>1. CASE Observe \/ ObserverRaises
    <3>1. pc = "observe" /\ ~ ObserversDone
      BY <2>1 DEF Observe, ObserverRaises
    <3>2. batch[item].receipt \in BatchReceipts /\ observer \in Consumers
      BY <3>1, NextUngiven
    <3>3. seen' = seen \/ seen' = GivenAll(observer, {batch[item].receipt})
      BY <2>1 DEF Observe, ObserverRaises, MaybeSeen
    <3>4. r \in {batch[item].receipt}
      <4>1. SUFFICES ASSUME r \in Receipts \ {batch[item].receipt}
                     PROVE  seen'[c][r] = seen[c][r]
        OBVIOUS
      <4>2. seen \in [Consumers -> [Receipts -> Nat]] /\ c \in Consumers
        OBVIOUS
      <4>3. ASSUME NEW x, r \in Receipts \ {x}
            PROVE  GivenAll(observer, {x})[c][r] = seen[c][r]
        BY ONLY <3>2, <4>2, <4>3, GivenAllElsewhere
      <4>4. QED
        BY <3>3, <4>1, <4>3
    <3>5. QED
      BY <3>1, <3>2, <3>4
  <2>2. CASE MachineDigests \/ MachineRaises
    <3>1. pc = "observe" /\ (seen' = seen \/ seen' = GivenAll(Machine, BatchReceipts))
      BY <2>2 DEF MachineDigests, MachineRaises, MaybeSeen
    <3>2. QED
      BY <3>1, MachineConsumes, GivenAllValue
  <2>3. QED
    BY <2>1, <2>2, NoCredit
<1>2. QED
  BY <1>1 DEF ResolvedInv, PhysicalInv, InHand

(* What tick resolved, it resolved against pending receipts of actions that*)
(* were performed, and no outcome next to it was too early; and each call  *)
(* gives the batch's outcomes only.                                        *)
THEOREM CreditsAreOpen == Spec => CreditedOnlyWhileOpen
<1>1. IInv /\ TimelyInv /\ [Next]_vars
        => [\A c \in Consumers, r \in Receipts :
              seen'[c][r] # seen[c][r] =>
                r \in pending /\ r \in acted /\ r \in BatchReceipts /\ Timely]_vars
  BY CreditStep DEF TimelyInv
<1>2. QED
  BY <1>1, Inductive, ResolvedAreTimely, PTL DEF Spec, CreditedOnlyWhileOpen

(* How a receipt closes.                                                   *)
LEMMA CloseStep ==
  ASSUME IInv, [Next]_vars, NEW r \in pending \ pending'
  PROVE  \/ \A c \in Consumers : seen'[c][r] > 0
         \/ pc = "emitting" /\ r = Emitting /\ "device" \in Faults
<1>1. CASE EmitRaises
  BY <1>1 DEF EmitRaises, Withdrawn
<1>2. CASE MachineDigests /\ (ProposalRefused \/ \E n \in 0 .. MaxProposals : MachineTick(n))
  <2>1. pc' \in {"idle", "emit"} /\ UNCHANGED <<acted, aborted, nextReceiptId>>
    BY <1>2 DEF ProposalRefused, MachineTick, Abort, LeaveTick
  <2>2. r \in BatchReceipts
    BY <1>2 DEF MachineDigests, Settled
  <2>3. QED
    BY <1>2, <2>1, <2>2, DigestStep DEF IInv
<1>3. ASSUME ~ EmitRaises, ~ ProposalRefused,
             ~ \E n \in 0 .. MaxProposals : MachineTick(n)
      PROVE  pending \subseteq pending'
  <2>1. CASE UNCHANGED vars
    BY <2>1 DEF vars, runtimeVars
  <2>2. ASSUME NEW t \in Times, TickStart(t) PROVE pending' = pending
    BY <2>2 DEF TickStart, runtimeVars
  <2>3. CASE TickStep
    BY <1>3, <2>3
    DEF TickStep, PollOutcomes, PollSensor, SensorRaises, Resolve, ResolveRaises,
        Observe, ObserverRaises, MachineRaises, EmitBegin, EmitReturn, TickDone,
        runtimeVars
  <2>4. CASE Environment
    BY <2>4 DEF Environment, Attach, Detach, Submit, runtimeVars
  <2>5. QED
    BY <2>1, <2>2, <2>3, <2>4 DEF Next
<1>4. QED
  BY <1>1, <1>2, <1>3 DEF ProposalRefused, MachineTick

(* A closed receipt's outcome reached everybody, or its device refused it. *)
THEOREM ClosesAreDelivered == Spec => ClosedOnlyByDelivery
<1>1. IInv /\ [Next]_vars
        => [\A r \in pending \ pending' :
              \/ \A c \in Consumers : seen'[c][r] > 0
              \/ pc = "emitting" /\ r = Emitting /\ "device" \in Faults]_vars
  BY CloseStep
<1>2. QED
  BY <1>1, Inductive, PTL DEF Spec, ClosedOnlyByDelivery

-----------------------------------------------------------------------------
(* Refinement *)

LEMMA LedgerConsumers == Ledger!Consumers = Consumers
BY DEF Ledger!Consumers, Consumers

LEMMA LedgerCreditAll ==
  ASSUME NEW c, NEW S
  PROVE  Ledger!CreditAll(c, S) = GivenAll(c, S)
BY DEF Ledger!CreditAll, GivenAll

LEMMA RefinesInit == Init => Ledger!Init
BY LedgerConsumers DEF Init, Ledger!Init, Issued

LEMMA ObserveCredits ==
  ASSUME IInv, Observe
  PROVE  \E c \in Observers, r \in Receipts : Ledger!Credit(c, r)
<1>. USE DEF IInv, TypeInv, TypeOK, PhaseInv, LedgerInv
<1>1. /\ pc = "observe" /\ UNCHANGED <<pending, aborted, nextReceiptId>>
      /\ ~ ObserversDone /\ seen' = GivenAll(observer, {batch[item].receipt})
  BY DEF Observe, runtimeVars
<1>2. /\ observer \in Observers /\ observer \in Consumers
      /\ batch[item].receipt \in Receipts /\ batch[item].receipt \in pending
      /\ ~ Given(observer, batch[item].receipt)
  BY <1>1, NextUngiven
<1>3. Ledger!Creditable(observer, batch[item].receipt)
  BY <1>2 DEF CreditInv, Ledger!Creditable
<1>4. Ledger!Credit(observer, batch[item].receipt)
  BY <1>1, <1>3, LedgerCreditAll DEF Ledger!Credit, Issued
<1>5. QED
  BY <1>2, <1>4

LEMMA AbortCutsShort ==
  ASSUME IInv, ObserverRaises \/ MachineRaises
  PROVE  \E c \in Consumers, S \in SUBSET Receipts :
           \E T \in SUBSET S : Ledger!CutShort(c, S, T)
<1>. USE DEF IInv, TypeInv, TypeOK, LedgerInv
<1>1. /\ pc = "observe" /\ UNCHANGED <<pending, nextReceiptId>>
      /\ CutShort(BatchReceipts)
  BY DEF ObserverRaises, MachineRaises
<1>2. BatchReceipts \subseteq pending /\ BatchReceipts \in SUBSET Receipts
  BY <1>1 DEF ResolvedInv
<1>3. PICK c \in Consumers, T \in SUBSET BatchReceipts :
        /\ seen' = GivenAll(c, T)
        /\ \A r \in T : ~ Given(c, r)
  <2>1. ASSUME NEW c \in Consumers PROVE seen = GivenAll(c, {})
    BY DEF GivenAll
  <2>2. CASE ObserverRaises
    <3>1. /\ observer \in Consumers
          /\ {batch[item].receipt} \in SUBSET BatchReceipts
          /\ ~ Given(observer, batch[item].receipt)
      BY <1>1, <2>2, NextUngiven DEF ObserverRaises
    <3>2. seen' = seen \/ seen' = GivenAll(observer, {batch[item].receipt})
      BY <2>2 DEF ObserverRaises, MaybeSeen
    <3>3. CASE seen' = seen
      <4>1. seen' = GivenAll(observer, {}) /\ {} \in SUBSET BatchReceipts
        BY <2>1, <3>1, <3>3
      <4>2. QED
        BY <3>1, <4>1, Zenon
    <3>4. CASE seen' = GivenAll(observer, {batch[item].receipt})
      BY <3>1, <3>4
    <3>5. QED
      BY <3>2, <3>3, <3>4
  <2>3. CASE MachineRaises
    <3>1. \A r \in BatchReceipts : ~ Given(Machine, r)
      BY ConstantTypes DEF Given, Observers, Machine
    <3>2. seen' = seen \/ seen' = GivenAll(Machine, BatchReceipts)
      BY <2>3 DEF MachineRaises, MaybeSeen
    <3>3. CASE seen' = seen
      <4>1. seen' = GivenAll(Machine, {}) /\ {} \in SUBSET BatchReceipts
        BY <2>1, <3>3, MachineConsumes
      <4>2. QED
        BY <4>1, MachineConsumes, Zenon
    <3>4. CASE seen' = GivenAll(Machine, BatchReceipts)
      BY <3>1, <3>4, MachineConsumes
    <3>5. QED
      BY <3>2, <3>3, <3>4
  <2>4. QED
    BY <2>2, <2>3
<1>4. \A r \in T : Ledger!Creditable(c, r)
  BY <1>2, <1>3 DEF CreditInv, Ledger!Creditable
<1>5. Ledger!CutShort(c, BatchReceipts, T)
  BY <1>1, <1>2, <1>3, <1>4, LedgerCreditAll
  DEF Ledger!CutShort, CutShort, Issued
<1>6. QED
  BY <1>2, <1>3, <1>5

LEMMA DigestCloses ==
  ASSUME IInv, MachineDigests, UNCHANGED <<aborted, nextReceiptId>>
  PROVE  \E S \in SUBSET Receipts : Ledger!Close(S)
<1>. USE DEF IInv, TypeInv, TypeOK, LedgerInv
<1>1. /\ pc = "observe" /\ ObserversDone /\ pending' = pending \ BatchReceipts
      /\ seen' = GivenAll(Machine, BatchReceipts)
  BY DEF MachineDigests, Settled
<1>2. BatchReceipts \subseteq pending /\ BatchReceipts \in SUBSET Receipts
  BY <1>1 DEF ResolvedInv
<1>3. \A r \in BatchReceipts : Ledger!Creditable(Machine, r)
  <2>1. \A r \in BatchReceipts : ~ Given(Machine, r)
    BY ConstantTypes DEF Given, Observers, Machine
  <2>2. QED
    BY <1>2, <2>1, MachineConsumes DEF CreditInv, Ledger!Creditable
<1>4. \A c \in Observers, r \in BatchReceipts : seen[c][r] > 0
  BY <1>1, <1>2, AllGiven DEF CreditInv, Consumers
<1>5. Ledger!Close(BatchReceipts)
  BY <1>1, <1>3, <1>4, LedgerCreditAll DEF Ledger!Close, Issued
<1>6. QED
  BY <1>2, <1>5

LEMMA RefinesNext == IInv /\ [Next]_vars => [Ledger!Next]_(Ledger!ledgerVars)
<1>1. SUFFICES ASSUME IInv, [Next]_vars, ~ UNCHANGED Ledger!ledgerVars
               PROVE  Ledger!Next
  OBVIOUS
<1>2. ~ UNCHANGED <<pending, nextReceiptId, seen, aborted>>
  BY <1>1 DEF Ledger!ledgerVars, Issued
<1>3. CASE Observe
  BY <1>1, <1>3, ObserveCredits DEF Ledger!Next
<1>4. CASE ObserverRaises \/ MachineRaises
  BY <1>1, <1>4, AbortCutsShort, LedgerConsumers DEF Ledger!Next
<1>5. CASE ProposalRefused \/ \E n \in 0 .. MaxProposals : MachineTick(n)
  <2>1. MachineDigests /\ UNCHANGED <<aborted, nextReceiptId>>
    BY <1>5 DEF ProposalRefused, MachineTick
  <2>2. QED
    BY <1>1, <2>1, DigestCloses DEF Ledger!Next
<1>6. CASE EmitBegin
  <2>1. nextReceiptId \in Receipts /\ nextReceiptId \notin Issued
        /\ Issued' = Issued \union {nextReceiptId}
    BY <1>1, <1>6, ConstantTypes
    DEF IInv, TypeInv, TypeOK, PhaseInv, EmitBegin, Receipts, Issued
  <2>2. Ledger!Issue(nextReceiptId)
    BY <1>6, <2>1 DEF EmitBegin, histVars, Ledger!Issue
  <2>3. QED
    BY <2>1, <2>2 DEF Ledger!Next
<1>7. CASE EmitRaises
  <2>1. /\ pc = "emitting" /\ pending' = pending \ {Emitting}
        /\ UNCHANGED <<seen, aborted, nextReceiptId>>
    BY <1>7 DEF EmitRaises, Withdrawn
  <2>2. Emitting \in pending
    BY <1>1, <1>2, <2>1 DEF IInv, TypeInv, TypeOK
  <2>3. Emitting \in Receipts /\ \A c \in Consumers : seen[c][Emitting] = 0
    BY <1>1, <2>1, <2>2
    DEF IInv, TypeInv, TypeOK, LedgerInv, IssuedInv, InHand
  <2>4. Ledger!Withdraw(Emitting)
    BY <2>1, <2>2, <2>3, LedgerConsumers DEF Ledger!Withdraw, Issued
  <2>5. QED
    BY <2>3, <2>4 DEF Ledger!Next
<1>8. CASE UNCHANGED vars
  BY <1>2, <1>8 DEF vars, runtimeVars, histVars
<1>9. ASSUME NEW t \in Times, TickStart(t) PROVE FALSE
  BY <1>2, <1>9 DEF TickStart, runtimeVars, histVars
<1>10. CASE TickStep
  BY <1>2, <1>3, <1>4, <1>5, <1>6, <1>7, <1>10
  DEF TickStep, PollOutcomes, PollSensor, SensorRaises, Resolve, ResolveRaises,
      EmitReturn, TickDone, runtimeVars, histVars
<1>11. CASE Environment
  BY <1>2, <1>11 DEF Environment, Attach, Detach, Submit, runtimeVars, histVars
<1>12. QED
  BY <1>1, <1>8, <1>9, <1>10, <1>11 DEF Next

(* The runtime implements the ledger: whatever ports, observers, machine   *)
(* and devices do, every step is a step of OutcomeLedger or stutters.      *)
THEOREM Refinement == Spec => ImplementsLedger
BY RefinesInit, RefinesNext, Inductive, PTL DEF Spec, ImplementsLedger, Ledger!Spec

-----------------------------------------------------------------------------
(* Where only the decoder fails *)

(* Nothing but the decoder may fail.                                       *)
OnlyDecoderFails == Faults \subseteq {"decoder"}

(* An outcome that can still be resolved, and that is the only one of its  *)
(* receipt.                                                                *)
Waiting(o) == Resolvable(o) /\ submitted[o.receipt] = 1

Carried(r) == pc \in {"poll", "observe"} /\ r \in BatchReceipts

QueuesInv ==
  /\ \A p \in OutcomePorts : \A i \in DOMAIN queue[p] : Waiting(queue[p][i])
  /\ \A p, q \in OutcomePorts : \A i \in DOMAIN queue[p], j \in DOMAIN queue[q] :
       queue[p][i].receipt = queue[q][j].receipt => p = q /\ i = j

BatchInv ==
  /\ pc = "idle" => batch = <<>>
  /\ pc \in {"poll", "observe"} =>
       /\ NoDuplicates(batch)
       /\ \A i \in DOMAIN batch :
            /\ Waiting(batch[i])
            /\ \A p \in OutcomePorts : ~ Queued(p, batch[i].receipt)

(* An issued receipt waits for its outcome, or its only outcome is on its  *)
(* way, or was digested.                                                   *)
SubmittedInv ==
  \A r \in Receipts :
    /\ submitted[r] <= 1
    /\ submitted[r] = 1 => r \in Issued
    /\ r \in Issued /\ submitted[r] = 0 => r \in pending
    /\ r \in pending /\ submitted[r] = 1 =>
         Carried(r) \/ \E p \in OutcomePorts : Queued(p, r)

FlowInv == QueuesInv /\ BatchInv /\ SubmittedInv

LEMMA FlowInit == Init => FlowInv
BY BoundsAssumption
DEF Init, FlowInv, QueuesInv, BatchInv, SubmittedInv, Issued, Receipts

LEMMA QueueTypes ==
  ASSUME TypeInv
  PROVE  /\ \A p \in OutcomePorts : queue[p] \in Seq(Outcomes)
         /\ batch \in Seq(Outcomes) /\ pending \in SUBSET Receipts
         /\ submitted \in [Receipts -> 0 .. MaxSubmits]
         /\ emittedAt \in [Receipts -> Times \union {Never}]
BY DEF TypeInv, TypeOK

(* A step that moves no outcome and closes no receipt.                     *)
LEMMA FlowUntouched ==
  ASSUME FlowInv,
         UNCHANGED <<queue, pending, emittedAt, nextReceiptId, submitted>>,
         \/ pc' \in {"poll", "observe"} /\ pc \in {"idle", "poll", "observe"}
              /\ batch' = batch
         \/ pc' \notin {"poll", "observe"} /\ pc \notin {"poll", "observe"}
              /\ (pc' = "idle" => batch' = <<>>)
  PROVE  FlowInv'
<1>1. QueuesInv'
  BY DEF FlowInv, QueuesInv, Waiting, Resolvable
<1>2. BatchInv'
  BY DEF FlowInv, BatchInv, NoDuplicates, Waiting, Resolvable, Queued
<1>3. SubmittedInv'
  BY DEF FlowInv, SubmittedInv, BatchInv, Carried, Queued, Issued, BatchReceipts
<1>4. QED
  BY <1>1, <1>2, <1>3 DEF FlowInv

LEMMA SubmitFlows ==
  ASSUME TypeInv, FlowInv, OnlyDecoderFails,
         NEW p \in OutcomePorts, NEW r \in Receipts, NEW t \in Times, Submit(p, r, t)
  PROVE  FlowInv'
<1>. DEFINE o == [receipt |-> r, observedAt |-> t]
<1>1. /\ pc \in {"idle", "emitting"} /\ r \in Issued /\ submitted[r] = 0
      /\ t >= emittedAt[r]
  <2>1. submitted[r] \in Nat /\ t \in Int /\ emittedAt[r] \in Int
    BY BoundsAssumption DEF TypeInv, TypeOK, Times, Never
  <2>2. QED
    BY <2>1 DEF Submit, OnlyDecoderFails
<1>2. r \in pending
  BY <1>1 DEF FlowInv, SubmittedInv
<1>3. /\ queue' = [queue EXCEPT ![p] = Append(queue[p], o)]
      /\ submitted' = [submitted EXCEPT ![r] = 1]
      /\ UNCHANGED <<pending, emittedAt, nextReceiptId, pc, batch>>
  BY <1>1 DEF Submit, runtimeVars, tickVars
<1>4. \A q \in OutcomePorts : \A i \in DOMAIN queue[q] : queue[q][i].receipt # r
  BY <1>1 DEF FlowInv, QueuesInv, Waiting
<1>5. o.receipt = r /\ o.observedAt = t /\ o \in Outcomes
  BY DEF Outcomes
<1>. HIDE DEF o
<1>6. /\ DOMAIN queue'[p] = DOMAIN queue[p] \union {Len(queue[p]) + 1}
      /\ \A i \in DOMAIN queue[p] : queue'[p][i] = queue[p][i]
      /\ queue'[p][Len(queue[p]) + 1] = o
  <2>1. queue[p] \in Seq(Outcomes) /\ queue'[p] = Append(queue[p], o)
    BY <1>3 DEF TypeInv, TypeOK
  <2>2. QED
    BY <1>5, <2>1
<1>7. \A q \in OutcomePorts : q # p => queue'[q] = queue[q]
  BY <1>3 DEF TypeInv, TypeOK
<1>8. \A x \in Receipts : submitted'[x] = IF x = r THEN 1 ELSE submitted[x]
  BY <1>3 DEF TypeInv, TypeOK
<1>9. \A q \in OutcomePorts : \A i \in DOMAIN queue[q] :
        queue[q][i].receipt \in Receipts
  <2>1. ASSUME NEW q \in OutcomePorts, NEW i \in DOMAIN queue[q]
        PROVE  queue[q][i] \in Outcomes
    BY QueueTypes
  <2>2. QED
    BY <2>1 DEF Outcomes
<1>10. QueuesInv'
  <2>. DEFINE Waits(x) == /\ x.receipt \in pending /\ submitted'[x.receipt] = 1
                          /\ x.observedAt >= emittedAt[x.receipt]
  <2>1. \A q \in OutcomePorts : \A i \in DOMAIN queue[q] : Waits(queue[q][i])
    BY <1>4, <1>8, <1>9 DEF FlowInv, QueuesInv, Waiting, Resolvable
  <2>2. Waits(o)
    BY <1>1, <1>2, <1>5, <1>8
  <2>3. \A q \in OutcomePorts : \A i \in DOMAIN queue'[q] :
          \/ i \in DOMAIN queue[q] /\ queue'[q][i] = queue[q][i]
          \/ q = p /\ i = Len(queue[p]) + 1 /\ queue'[q][i] = o
    BY <1>6, <1>7
  <2>. HIDE DEF Waits
  <2>4. \A q \in OutcomePorts : \A i \in DOMAIN queue'[q] : Waits(queue'[q][i])
    BY <2>1, <2>2, <2>3
  <2>5. \A q, s \in OutcomePorts :
          \A i \in DOMAIN queue'[q], j \in DOMAIN queue'[s] :
            queue'[q][i].receipt = queue'[s][j].receipt => q = s /\ i = j
    BY <2>3, <1>4, <1>5 DEF FlowInv, QueuesInv
  <2>6. QED
    BY <1>3, <2>4, <2>5 DEF QueuesInv, Waits, Waiting, Resolvable
<1>11. BatchInv'
  BY <1>1, <1>3 DEF FlowInv, BatchInv
<1>12. SubmittedInv'
  <2>1. ASSUME NEW x \in Receipts
        PROVE  /\ submitted'[x] <= 1
               /\ submitted'[x] = 1 => x \in Issued'
               /\ x \in Issued' /\ submitted'[x] = 0 => x \in pending'
    BY <1>1, <1>3, <1>8 DEF FlowInv, SubmittedInv, Issued
  <2>2. Queued(p, r)'
    BY <1>5, <1>6 DEF Queued
  <2>3. \A q \in OutcomePorts, x \in Receipts : Queued(q, x) => Queued(q, x)'
    BY <1>6, <1>7 DEF Queued
  <2>4. ASSUME NEW x \in Receipts, x \in pending', submitted'[x] = 1
        PROVE  \E q \in OutcomePorts : Queued(q, x)'
    <3>1. CASE x = r
      BY <2>2, <3>1
    <3>2. CASE x # r
      BY <1>1, <1>3, <1>8, <2>3, <2>4, <3>2 DEF FlowInv, SubmittedInv, Carried
    <3>3. QED
      BY <3>1, <3>2
  <2>5. QED
    BY <2>1, <2>4 DEF SubmittedInv
<1>13. QED
  BY <1>10, <1>11, <1>12 DEF FlowInv

(* A poll moves the queue's outcomes into the batch; since none of them is *)
(* there already, or twice in the queue, the port does not refuse.         *)
LEMMA PollFlows ==
  ASSUME TypeInv, FlowInv, OnlyDecoderFails, PollOutcomes
  PROVE  FlowInv'
<1>. DEFINE p == NextPort
<1>1. pc = "poll" /\ p \in OutcomePorts /\ NoDuplicates(queue[p])
  BY DEF PollOutcomes, FlowInv, QueuesInv, NoDuplicates
<1>2. /\ queue' = [queue EXCEPT ![p] = <<>>] /\ batch' = batch \o queue[p]
      /\ UNCHANGED <<pending, emittedAt, nextReceiptId, pc, submitted>>
  BY <1>1 DEF PollOutcomes, Drained, histVars
<1>. HIDE DEF p
<1>3. /\ queue'[p] = <<>> /\ \A q \in OutcomePorts : q # p => queue'[q] = queue[q]
      /\ \A i \in DOMAIN queue'[p] : FALSE
  BY <1>1, <1>2 DEF TypeInv, TypeOK
<1>. DEFINE n == Len(batch)
<1>4. /\ n \in Nat /\ DOMAIN batch = 1 .. n /\ DOMAIN queue[p] = 1 .. Len(queue[p])
      /\ Len(queue[p]) \in Nat
      /\ DOMAIN batch' = 1 .. n + Len(queue[p])
      /\ \A i \in DOMAIN batch : i \in DOMAIN batch' /\ batch'[i] = batch[i]
      /\ \A i \in DOMAIN queue[p] :
           i + n \in DOMAIN batch' /\ batch'[i + n] = queue[p][i]
  BY <1>1, <1>2, QueueTypes
<1>. HIDE DEF n
<1>5. \A i \in DOMAIN batch' :
        \/ i \in DOMAIN batch /\ batch'[i] = batch[i]
        \/ /\ i - n \in DOMAIN queue[p] /\ i = (i - n) + n
           /\ batch'[i] = queue[p][i - n]
  BY <1>4
<1>6. QueuesInv'
  BY <1>2, <1>3 DEF FlowInv, QueuesInv, Waiting, Resolvable
<1>7. BatchInv'
  <2>1. ASSUME NEW i \in DOMAIN batch' PROVE Waiting(batch'[i])
    BY <1>1, <1>5 DEF FlowInv, QueuesInv, BatchInv
  <2>2. ASSUME NEW i \in DOMAIN batch', NEW q \in OutcomePorts
        PROVE  \A j \in DOMAIN queue'[q] : queue'[q][j].receipt # batch'[i].receipt
    BY <1>1, <1>3, <1>5 DEF FlowInv, QueuesInv, BatchInv, Queued
  <2>3. ASSUME NEW i \in DOMAIN batch', NEW j \in DOMAIN batch',
               batch'[i].receipt = batch'[j].receipt
        PROVE  i = j
    <3>1. CASE i \in DOMAIN batch /\ j \in DOMAIN batch
      BY <1>1, <1>4, <2>3, <3>1 DEF FlowInv, BatchInv, NoDuplicates
    <3>2. CASE i \in DOMAIN batch /\ j \notin DOMAIN batch
      BY <1>1, <1>4, <1>5, <2>3, <3>2 DEF FlowInv, BatchInv, Queued
    <3>3. CASE i \notin DOMAIN batch /\ j \in DOMAIN batch
      BY <1>1, <1>4, <1>5, <2>3, <3>3 DEF FlowInv, BatchInv, Queued
    <3>4. CASE i \notin DOMAIN batch /\ j \notin DOMAIN batch
      BY <1>1, <1>5, <2>3, <3>4 DEF NoDuplicates
    <3>5. QED
      BY <3>1, <3>2, <3>3, <3>4
  <2>4. QED
    BY <1>1, <1>2, <2>1, <2>2, <2>3
    DEF BatchInv, NoDuplicates, Waiting, Resolvable, Queued
<1>8. SubmittedInv'
  <2>1. ASSUME NEW x \in Receipts, x \in pending', submitted'[x] = 1
        PROVE  Carried(x)' \/ \E q \in OutcomePorts : Queued(q, x)'
    <3>1. CASE Carried(x)
      BY <1>1, <1>2, <1>4, <3>1 DEF Carried, BatchReceipts
    <3>2. CASE Queued(p, x)
      <4>1. PICK i \in DOMAIN queue[p] : queue[p][i].receipt = x
        BY <3>2 DEF Queued
      <4>2. i + n \in DOMAIN batch' /\ batch'[i + n].receipt = x
        BY <1>4, <4>1
      <4>3. QED
        BY <1>1, <1>2, <4>2 DEF Carried, BatchReceipts
    <3>3. CASE \E q \in OutcomePorts : q # p /\ Queued(q, x)
      BY <1>3, <3>3 DEF Queued
    <3>4. QED
      BY <1>2, <2>1, <3>1, <3>2, <3>3 DEF FlowInv, SubmittedInv
  <2>2. QED
    BY <1>2, <2>1 DEF FlowInv, SubmittedInv, Issued
<1>9. QED
  BY <1>6, <1>7, <1>8 DEF FlowInv

(* Since no call can raise before it, the machine digests the whole batch; *)
(* receipts close with their outcomes.                                     *)
LEMMA DigestFlows ==
  ASSUME TypeInv, FlowInv, MachineDigests,
         UNCHANGED <<queue, emittedAt, nextReceiptId, submitted>>,
         pc' \in {"idle", "emit"}, pc' = "idle" => batch' = <<>>
  PROVE  FlowInv'
<1>1. pc = "observe" /\ pending' = pending \ BatchReceipts
  BY DEF MachineDigests, Settled
<1>2. \A p \in OutcomePorts : \A i \in DOMAIN queue[p] :
        queue[p][i].receipt \notin BatchReceipts
  BY <1>1 DEF FlowInv, BatchInv, Queued, BatchReceipts
<1>3. QueuesInv'
  BY <1>1, <1>2 DEF FlowInv, QueuesInv, Waiting, Resolvable
<1>4. BatchInv'
  BY DEF BatchInv
<1>5. SubmittedInv'
  <2>1. \A x \in BatchReceipts : submitted[x] = 1
    BY <1>1 DEF FlowInv, BatchInv, Waiting, BatchReceipts
  <2>2. QED
    BY <1>1, <2>1 DEF FlowInv, SubmittedInv, Carried, Issued, Queued
<1>6. QED
  BY <1>3, <1>4, <1>5 DEF FlowInv

LEMMA EmitFlows ==
  ASSUME TypeInv, IssuedInv, FlowInv, EmitBegin
  PROVE  FlowInv'
<1>1. /\ pc = "emit" /\ pc' = "emitting" /\ nextReceiptId' = nextReceiptId + 1
      /\ pending' = pending \union {nextReceiptId}
      /\ emittedAt' = [emittedAt EXCEPT ![nextReceiptId] = now]
      /\ UNCHANGED <<queue, batch, submitted>>
  BY DEF EmitBegin, inputVars, histVars
<1>2. nextReceiptId \in Nat /\ nextReceiptId \notin Issued
      /\ Issued' = Issued \union {nextReceiptId}
  BY <1>1, BoundsAssumption DEF TypeInv, TypeOK, Issued
<1>3. QueuesInv'
  <2>1. \A p \in OutcomePorts : \A i \in DOMAIN queue[p] :
          queue[p][i].receipt \in pending /\ queue[p][i].receipt # nextReceiptId
    BY <1>2 DEF FlowInv, QueuesInv, Waiting, Resolvable, IssuedInv
  <2>2. QED
    BY <1>1, <2>1, QueueTypes DEF FlowInv, QueuesInv, Waiting, Resolvable
<1>4. BatchInv'
  BY <1>1 DEF BatchInv
<1>5. SubmittedInv'
  <2>1. nextReceiptId \in Receipts => submitted[nextReceiptId] # 1
    BY <1>2 DEF FlowInv, SubmittedInv
  <2>2. QED
    BY <1>1, <1>2, <2>1 DEF FlowInv, SubmittedInv, Carried, Queued
<1>6. QED
  BY <1>3, <1>4, <1>5 DEF FlowInv

LEMMA FlowStep ==
  ASSUME IInv, FlowInv, OnlyDecoderFails, [Next]_vars
  PROVE  FlowInv'
<1>1. TypeInv /\ IssuedInv
  BY DEF IInv, LedgerInv
<1>2. ASSUME NEW t \in Times, TickStart(t) PROVE FlowInv'
  BY <1>2, FlowUntouched DEF TickStart, inputVars, runtimeVars, histVars
<1>3. CASE PollOutcomes
  BY <1>1, <1>3, PollFlows
<1>4. CASE PollSensor \/ Resolve \/ Observe
  BY <1>4, FlowUntouched
  DEF PollSensor, Resolve, Observe, inputVars, runtimeVars, histVars
<1>5. ~ SensorRaises /\ ~ ObserverRaises /\ ~ MachineRaises /\ ~ EmitRaises
  BY DEF OnlyDecoderFails, SensorRaises, ObserverRaises, MachineRaises, EmitRaises
<1>6. ~ ResolveRaises
  BY DEF ResolveRaises, OnlyDecoderFails, FlowInv, BatchInv, Waiting
<1>7. ASSUME NEW n \in 0 .. MaxProposals, MachineTick(n) PROVE FlowInv'
  BY <1>1, <1>7, DigestFlows DEF MachineTick, inputVars
<1>8. CASE ProposalRefused
  BY <1>1, <1>8, DigestFlows DEF ProposalRefused, Abort, LeaveTick, inputVars
<1>9. CASE EmitBegin
  BY <1>1, <1>9, EmitFlows
<1>10. CASE EmitReturn \/ TickDone
  BY <1>10, FlowUntouched
  DEF EmitReturn, TickDone, LeaveTick, inputVars, runtimeVars, histVars
<1>11. ASSUME NEW p \in Ports, Attach(p) \/ Detach(p) PROVE FlowInv'
  BY <1>11, FlowUntouched
  DEF Attach, Detach, runtimeVars, tickVars, histVars, FlowInv, BatchInv
<1>12. ASSUME NEW p \in OutcomePorts, NEW r \in Receipts, NEW t \in Times,
              Submit(p, r, t)
       PROVE  FlowInv'
  BY <1>1, <1>12, SubmitFlows
<1>13. CASE UNCHANGED vars
  BY <1>1, <1>13, FlowUntouched
  DEF vars, inputVars, runtimeVars, tickVars, histVars, FlowInv, BatchInv,
      TypeInv, TypeOK, Phases
<1>14. QED
  BY <1>2, <1>3, <1>4, <1>5, <1>6, <1>7, <1>8, <1>9, <1>10, <1>11, <1>12, <1>13
  DEF Next, TickStep, Environment

(* Where no sensor, observer, machine or device raises, and every outcome  *)
(* is reported once and not early, the outcome of an open receipt is in a  *)
(* queue or in the batch until the receipt closes: whatever the order of   *)
(* the ports, their comings and goings, and the decoder's refusals.        *)
THEOREM NothingLost == OnlyDecoderFails => (Spec => []OutcomeNotLost)
<1>1. SUFFICES ASSUME OnlyDecoderFails PROVE Spec => []OutcomeNotLost
  OBVIOUS
<1>2. Init => FlowInv
  BY FlowInit
<1>3. IInv /\ FlowInv /\ [Next]_vars => FlowInv'
  BY <1>1, FlowStep
<1>4. IInv /\ FlowInv => OutcomeNotLost
  <2>1. SUFFICES ASSUME IInv, FlowInv, NEW r \in pending, submitted[r] > 0
                 PROVE  InFlight(r)
    BY DEF OutcomeNotLost
  <2>2. r \in Receipts /\ submitted[r] \in Nat /\ submitted[r] <= 1
    BY <2>1, BoundsAssumption DEF IInv, TypeInv, TypeOK, FlowInv, SubmittedInv
  <2>3. submitted[r] = 1
    BY <2>1, <2>2
  <2>4. QED
    BY <2>1, <2>2, <2>3 DEF FlowInv, SubmittedInv, Carried, InFlight
<1>5. QED
  BY <1>2, <1>3, <1>4, Inductive, PTL DEF Spec

-----------------------------------------------------------------------------
(* Closed receipts *)

(* A receipt that is no longer open: every consumer had its outcome, or its*)
(* device refused the action and nobody ever will.                         *)
ClosedForAllOrNone ==
  \A r \in Issued \ pending :
    \/ \A c \in Consumers : seen[c][r] > 0
    \/ "device" \in Faults /\ \A c \in Consumers : seen[c][r] = 0

(* Receipts are issued one at a time, and each is pending when it is.      *)
LEMMA IssuedStep ==
  ASSUME IInv, [Next]_vars, NEW r \in Issued', r \notin pending'
  PROVE  r \in Issued
<1>. USE DEF IInv, TypeInv, TypeOK
<1>1. CASE EmitBegin
  BY <1>1 DEF EmitBegin, Issued
<1>2. ASSUME ~ EmitBegin PROVE nextReceiptId' = nextReceiptId
  <2>1. CASE UNCHANGED vars
    BY <2>1 DEF vars, runtimeVars
  <2>2. ASSUME NEW t \in Times, TickStart(t) PROVE nextReceiptId' = nextReceiptId
    BY <2>2 DEF TickStart, runtimeVars
  <2>3. CASE TickStep
    BY <1>2, <2>3
    DEF TickStep, PollOutcomes, PollSensor, SensorRaises, Resolve, ResolveRaises,
        Observe, ObserverRaises, MachineTick, ProposalRefused, MachineRaises,
        EmitReturn, EmitRaises, TickDone, runtimeVars
  <2>4. CASE Environment
    BY <2>4 DEF Environment, Attach, Detach, Submit, runtimeVars
  <2>5. QED
    BY <2>1, <2>2, <2>3, <2>4 DEF Next
<1>3. QED
  BY <1>1, <1>2 DEF Issued

(* At the step that closes it, a receipt's outcome reached everybody, or   *)
(* nobody and its device raised.                                           *)
LEMMA ClosesForAllOrNone ==
  ASSUME IInv, [Next]_vars, NEW r \in pending \ pending'
  PROVE  \/ \A c \in Consumers : seen'[c][r] > 0
         \/ "device" \in Faults /\ \A c \in Consumers : seen'[c][r] = 0
<1>1. CASE \A c \in Consumers : seen'[c][r] > 0
  BY <1>1
<1>2. CASE pc = "emitting" /\ r = Emitting /\ "device" \in Faults
  <2>1. r \in Receipts /\ \A c \in Consumers : seen[c][r] = 0
    BY <1>2 DEF IInv, TypeInv, TypeOK, LedgerInv, IssuedInv, InHand
  <2>2. UNCHANGED seen
    BY <1>2, NoCredit
    DEF IInv, Observe, ObserverRaises, MachineDigests, MachineRaises
  <2>3. QED
    BY <1>2, <2>1, <2>2
<1>3. QED
  BY <1>1, <1>2, CloseStep

(* However a tick ends, a closed receipt is one whose outcome every        *)
(* observer and the machine have, or one that was never performed for      *)
(* certain and of which none of them ever heard: no consumer learns from   *)
(* an action of which another consumer has not been told by then.          *)
THEOREM ClosedReceipts == Spec => []ClosedForAllOrNone
<1>1. Init => ClosedForAllOrNone
  BY DEF Init, Issued, ClosedForAllOrNone
<1>2. ASSUME IInv, ClosedForAllOrNone, [Next]_vars
      PROVE  ClosedForAllOrNone'
  <2>1. SUFFICES ASSUME NEW r \in Issued', r \notin pending'
                 PROVE  \/ \A c \in Consumers : seen'[c][r] > 0
                        \/ /\ "device" \in Faults
                           /\ \A c \in Consumers : seen'[c][r] = 0
    BY DEF ClosedForAllOrNone
  <2>2. r \in Issued
    BY <1>2, <2>1, IssuedStep
  <2>3. CASE r \in pending
    BY <1>2, <2>1, <2>3, ClosesForAllOrNone
  <2>4. CASE r \notin pending
    <3>1. r \in Receipts
      BY <1>2, <2>2, ConstantTypes DEF IInv, TypeInv, TypeOK, Issued, Receipts
    <3>2. \A c \in Consumers : seen'[c][r] = seen[c][r]
      BY <1>2, <2>4, <3>1, CreditStep
    <3>3. QED
      BY <1>2, <2>2, <2>4, <3>2 DEF ClosedForAllOrNone
  <2>5. QED
    BY <2>3, <2>4
<1>3. QED
  BY <1>1, <1>2, Inductive, PTL DEF Spec

(* No observer and no machine raises; anything else may.                   *)
NoConsumerRaises == {"observer", "machine"} \intersect Faults = {}

(* Delivery as tick's docstring has it.                                    *)
DeliveredExactlyOnce ==
  \A r \in Issued \ pending :
    \/ \A c \in Consumers : seen[c][r] = 1
    \/ "device" \in Faults /\ \A c \in Consumers : seen[c][r] = 0

NoneAborted == \A r \in Receipts : aborted[r] = 0

LEMMA NothingAborted ==
  ASSUME NoConsumerRaises
  PROVE  Spec => []NoneAborted
<1>1. Init => NoneAborted
  BY DEF Init, NoneAborted
<1>2. ASSUME IInv, [Next]_vars PROVE aborted' = aborted
  <2>1. ~ ObserverRaises /\ ~ MachineRaises
    BY DEF NoConsumerRaises, ObserverRaises, MachineRaises
  <2>2. CASE UNCHANGED vars
    BY <2>2 DEF vars, histVars
  <2>3. ASSUME NEW t \in Times, TickStart(t) PROVE aborted' = aborted
    BY <2>3 DEF TickStart, histVars
  <2>4. CASE TickStep
    BY <2>1, <2>4
    DEF TickStep, PollOutcomes, PollSensor, SensorRaises, Resolve, ResolveRaises,
        Observe, MachineTick, ProposalRefused, EmitBegin, EmitReturn, EmitRaises,
        TickDone, histVars
  <2>5. CASE Environment
    BY <2>5 DEF Environment, Attach, Detach, Submit, histVars
  <2>6. QED
    BY <1>2, <2>2, <2>3, <2>4, <2>5 DEF Next
<1>3. NoneAborted /\ IInv /\ [Next]_vars => NoneAborted'
  BY <1>2 DEF NoneAborted
<1>4. QED
  BY <1>1, <1>3, Inductive, PTL DEF Spec

(* "Outcomes are delivered exactly once": so they are, whatever sensors,   *)
(* decoder and devices do and however outcomes are repeated or reordered,  *)
(* as long as no observer and no machine raises.  live_tick_observer_raises*)
(* shows that the condition is needed.                                     *)
THEOREM ExactlyOnce ==
  NoConsumerRaises => (Spec => [](DeliveredAtMostOnce /\ DeliveredExactlyOnce))
<1>1. SUFFICES ASSUME NoConsumerRaises
               PROVE  Spec => [](DeliveredAtMostOnce /\ DeliveredExactlyOnce)
  OBVIOUS
<1>2. NoneAborted /\ RedeliveredOnlyAfterAbort => DeliveredAtMostOnce
  BY DEF NoneAborted, RedeliveredOnlyAfterAbort, DeliveredAtMostOnce
<1>3. IInv /\ DeliveredAtMostOnce /\ ClosedForAllOrNone => DeliveredExactlyOnce
  <2>1. SUFFICES ASSUME IInv, DeliveredAtMostOnce, ClosedForAllOrNone,
                        NEW r \in Issued \ pending
                 PROVE  \/ \A c \in Consumers : seen[c][r] = 1
                        \/ /\ "device" \in Faults
                           /\ \A c \in Consumers : seen[c][r] = 0
    BY DEF DeliveredExactlyOnce
  <2>2. r \in Receipts
    BY <2>1, ConstantTypes DEF IInv, TypeInv, TypeOK, Issued, Receipts
  <2>3. \A c \in Consumers : seen[c][r] \in Nat /\ seen[c][r] <= 1
    BY <2>1, <2>2 DEF IInv, TypeInv, TypeOK, DeliveredAtMostOnce
  <2>4. QED
    BY <2>1, <2>3 DEF ClosedForAllOrNone
<1>4. QED
  BY <1>1, <1>2, <1>3, NothingAborted, Redelivery, ClosedReceipts, Inductive, PTL

-----------------------------------------------------------------------------
(* A tick ends *)

(* What is left of a tick: its phases, then the loop of the phase, then the*)
(* loop inside that.                                                       *)
PhasesLeft ==
  CASE pc = "poll"                  -> 3
    [] pc = "observe"               -> 2
    [] pc \in {"emit", "emitting"}  -> 1
    [] OTHER                        -> 0

RoundsLeft ==
  CASE pc = "poll"                          -> Len(order) - polled
    [] pc = "observe" /\ ~ ObserversDone    -> Len(batch) + 1 - item
    [] pc \in {"emit", "emitting"}          -> toEmit
    [] OTHER                                -> 0

CallsLeft ==
  CASE pc = "observe" /\ ~ ObserversDone  -> NumObservers - observer
    [] pc = "emit"                        -> 1
    [] OTHER                              -> 0

Remaining == <<PhasesLeft, <<RoundsLeft, CallsLeft>>>>

Remainders == Nat \X (Nat \X Nat)

(* The lexicographic order.                                                *)
Shorter ==
  LET Less == OpToRel(<, Nat)
  IN  LexPairOrdering(Less, LexPairOrdering(Less, Less, Nat, Nat), Nat, Nat \X Nat)

LEMMA ShorterIsWellFounded == IsWellFoundedOn(Shorter, Remainders)
<1>. DEFINE Less == OpToRel(<, Nat)
            Inner == LexPairOrdering(Less, Less, Nat, Nat)
<1>1. IsWellFoundedOn(Less, Nat)
  BY NatLessThanWellFounded
<1>2. IsWellFoundedOn(Inner, Nat \X Nat)
  <2>. HIDE DEF Less
  <2>1. QED
    BY <1>1, WFLexPairOrdering
<1>3. IsWellFoundedOn(LexPairOrdering(Less, Inner, Nat, Nat \X Nat), Nat \X (Nat \X Nat))
  <2>. HIDE DEF Less, Inner
  <2>1. QED
    BY <1>1, <1>2, WFLexPairOrdering
<1>4. QED
  BY <1>3 DEF Shorter, Remainders

LEMMA ShorterValue ==
  ASSUME NEW a \in Nat, NEW b \in Nat, NEW c \in Nat,
         NEW x \in Nat, NEW y \in Nat, NEW z \in Nat,
         \/ x < a
         \/ x = a /\ (y < b \/ (y = b /\ z < c))
  PROVE  << <<x, <<y, z>>>>, <<a, <<b, c>>>> >> \in Shorter
<1>. DEFINE Less == OpToRel(<, Nat)
            Inner == LexPairOrdering(Less, Less, Nat, Nat)
<1>1. \A m, n \in Nat : m < n => <<m, n>> \in Less
  BY DEF OpToRel
<1>. HIDE DEF Less
<1>2. y < b \/ (y = b /\ z < c) => << <<y, z>>, <<b, c>> >> \in Inner
  BY <1>1 DEF LexPairOrdering
<1>. HIDE DEF Inner
<1>3. << <<x, <<y, z>>>>, <<a, <<b, c>>>> >>
        \in LexPairOrdering(Less, Inner, Nat, Nat \X Nat)
  BY <1>1, <1>2 DEF LexPairOrdering
<1>4. QED
  BY <1>3 DEF Shorter, Less, Inner

(* The polling loop has not passed the end of the ports.                   *)
PollInv ==
  /\ pc = "idle" => polled = 0
  /\ pc = "poll" => polled <= Len(order)

RunInv == TypeInv /\ PollInv

LEMMA RunInit == Init => RunInv
BY TypeInit, ConstantTypes DEF Init, RunInv, PollInv

LEMMA RunStep == RunInv /\ [Next]_vars => RunInv'
<1>1. SUFFICES ASSUME RunInv, [Next]_vars PROVE PollInv'
  BY TypeStep DEF RunInv
<1>. USE DEF RunInv, TypeInv, TypeOK, PollInv
<1>2. Len(order) \in Nat
  BY <1>1
<1>3. CASE UNCHANGED vars
  BY <1>1, <1>3 DEF vars, inputVars, tickVars
<1>4. ASSUME NEW t \in Times, TickStart(t) PROVE PollInv'
  BY <1>1, <1>2, <1>4 DEF TickStart, inputVars
<1>5. CASE TickStep
  BY <1>1, <1>2, <1>5
  DEF TickStep, PollOutcomes, PollSensor, SensorRaises, Resolve, ResolveRaises,
      Observe, ObserverRaises, MachineTick, ProposalRefused, MachineRaises,
      EmitBegin, EmitReturn, EmitRaises, TickDone, inputVars, Abort, LeaveTick
<1>6. CASE Environment
  BY <1>1, <1>6 DEF Environment, Attach, Detach, Submit, tickVars
<1>7. QED
  BY <1>1, <1>3, <1>4, <1>5, <1>6 DEF Next

LEMMA RemainingType == RunInv => Remaining \in Remainders
<1>1. SUFFICES ASSUME RunInv PROVE Remaining \in Remainders
  OBVIOUS
<1>. USE DEF RunInv, TypeInv, TypeOK, PollInv, PhaseInv
<1>2. PhasesLeft \in Nat
  BY DEF PhasesLeft
<1>3. RoundsLeft \in Nat
  BY <1>1 DEF RoundsLeft, ObserversDone
<1>4. CallsLeft \in Nat
  BY <1>1, ConstantTypes DEF CallsLeft, ObserversDone, Observers
<1>5. QED
  BY <1>2, <1>3, <1>4 DEF Remaining, Remainders

(* Each call that returns, and each exception, leaves less of the tick.    *)
LEMMA StepShortens ==
  ASSUME RunInv, TickStep, RunInv'
  PROVE  \/ PhasesLeft' < PhasesLeft
         \/ /\ PhasesLeft' = PhasesLeft
            /\ RoundsLeft' < RoundsLeft \/ (RoundsLeft' = RoundsLeft /\ CallsLeft' < CallsLeft)
<1>. USE DEF RunInv, TypeInv, TypeOK, PollInv, PhaseInv
<1>. DEFINE Goal == \/ PhasesLeft' < PhasesLeft
                    \/ /\ PhasesLeft' = PhasesLeft
                       /\ \/ RoundsLeft' < RoundsLeft
                          \/ RoundsLeft' = RoundsLeft /\ CallsLeft' < CallsLeft
<1>1. ASSUME pc # "idle", Abort \/ LeaveTick PROVE Goal
  BY <1>1 DEF Abort, LeaveTick, PhasesLeft, Phases
<1>2. CASE PollOutcomes
  <2>1. CASE Abort
    BY <1>1, <1>2, <2>1 DEF PollOutcomes
  <2>2. CASE ~ Abort
    <3>1. pc = "poll" /\ pc' = "poll" /\ polled' = polled + 1 /\ order' = order
      BY <1>2, <2>2 DEF PollOutcomes
    <3>2. QED
      BY <3>1 DEF PhasesLeft, RoundsLeft
  <2>3. QED
    BY <2>1, <2>2
<1>3. CASE PollSensor
  <2>1. pc = "poll" /\ pc' = "poll" /\ polled' = polled + 1 /\ order' = order
    BY <1>3 DEF PollSensor, inputVars
  <2>2. QED
    BY <2>1 DEF PhasesLeft, RoundsLeft
<1>4. CASE Resolve
  BY <1>4 DEF Resolve, PhasesLeft
<1>5. CASE SensorRaises \/ ResolveRaises \/ ObserverRaises \/ ProposalRefused
           \/ MachineRaises \/ EmitRaises \/ TickDone
  <2>1. pc # "idle" /\ (Abort \/ LeaveTick)
    BY <1>5 DEF SensorRaises, ResolveRaises, ObserverRaises, ProposalRefused,
       MachineDigests, MachineRaises, EmitRaises, TickDone
  <2>2. QED
    BY <1>1, <2>1
<1>6. CASE Observe
  <2>1. /\ pc = "observe" /\ pc' = "observe" /\ ~ ObserversDone /\ batch' = batch
        /\ NumObservers \in Nat /\ observer \in 1 .. NumObservers
        /\ item <= Len(batch) /\ Len(batch) \in Nat
    BY <1>6, ConstantTypes DEF Observe, ObserversDone, Observers
  <2>2. PhasesLeft' = PhasesLeft /\ RoundsLeft = Len(batch) + 1 - item
        /\ CallsLeft = NumObservers - observer
    BY <2>1 DEF PhasesLeft, RoundsLeft, CallsLeft
  <2>3. CASE observer < NumObservers
    <3>1. observer' = observer + 1 /\ item' = item
      BY <1>6, <2>3 DEF Observe
    <3>2. RoundsLeft' = RoundsLeft /\ CallsLeft' = CallsLeft - 1
      BY <2>1, <2>2, <3>1 DEF RoundsLeft, CallsLeft, ObserversDone
    <3>3. QED
      BY <2>1, <2>2, <3>2
  <2>4. CASE ~ (observer < NumObservers)
    <3>1. item' = item + 1
      BY <1>6, <2>4 DEF Observe
    <3>2. RoundsLeft' < RoundsLeft
      BY <2>1, <2>2, <3>1 DEF RoundsLeft, ObserversDone
    <3>3. QED
      BY <2>2, <3>2
  <2>5. QED
    BY <2>3, <2>4
<1>7. ASSUME NEW n \in 0 .. MaxProposals, MachineTick(n) PROVE Goal
  BY <1>7 DEF MachineTick, MachineDigests, PhasesLeft
<1>8. CASE EmitBegin
  BY <1>8 DEF EmitBegin, PhasesLeft, RoundsLeft, CallsLeft
<1>9. CASE EmitReturn
  BY <1>9 DEF EmitReturn, PhasesLeft, RoundsLeft, CallsLeft
<1>10. QED
  BY <1>2, <1>3, <1>4, <1>5, <1>6, <1>7, <1>8, <1>9 DEF TickStep

(* The environment, which may report outcomes while a device acts, adds    *)
(* nothing to a tick in progress: what it reports waits for the next one.  *)
LEMMA EnvironmentKeepsRemaining == RunInv /\ Environment => Remaining' = Remaining
<1>1. SUFFICES ASSUME RunInv, Environment PROVE Remaining' = Remaining
  OBVIOUS
<1>2. pc' = pc /\ UNCHANGED tickVars /\ (pc = "idle" \/ order' = order)
  BY <1>1 DEF Environment, Attach, Detach, Submit, tickVars
<1>3. QED
  BY <1>2 DEF tickVars, Remaining, PhasesLeft, RoundsLeft, CallsLeft, ObserversDone

(* Every step of a tick comes closer to its end, in a well-founded order,  *)
(* and nothing else that happens during the tick moves it away: a tick     *)
(* makes finitely many calls, whatever the ports bring and whoever raises. *)
THEOREM TicksEnd ==
  /\ IsWellFoundedOn(Shorter, Remainders)
  /\ Spec => []( Remaining \in Remainders )
  /\ Spec => [][ pc # "idle" => \/ <<Remaining', Remaining>> \in Shorter
                                \/ Remaining' = Remaining /\ ~ TickStep ]_vars
<1>0. (RunInv => Remaining \in Remainders)'
  BY RemainingType, PTL
<1>1. RunInv /\ [Next]_vars
        => [ pc # "idle" => \/ <<Remaining', Remaining>> \in Shorter
                            \/ Remaining' = Remaining /\ ~ TickStep ]_vars
  <2>1. SUFFICES ASSUME RunInv, Next, pc # "idle", RunInv'
                 PROVE  \/ <<Remaining', Remaining>> \in Shorter
                        \/ Remaining' = Remaining /\ ~ TickStep
    BY RunStep
  <2>2. CASE TickStep
    <3>1. Remaining \in Remainders /\ Remaining' \in Remainders
      BY <1>0, <2>1, RemainingType
    <3>2. QED
      BY <2>1, <2>2, <3>1, StepShortens, ShorterValue DEF Remaining, Remainders
  <2>3. CASE Environment /\ ~ TickStep
    BY <2>1, <2>3, EnvironmentKeepsRemaining
  <2>4. QED
    BY <2>1, <2>2, <2>3 DEF Next, TickStart
<1>2. QED
  BY <1>1, RunInit, RunStep, RemainingType, ShorterIsWellFounded, PTL DEF Spec
=============================================================================
