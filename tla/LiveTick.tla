------------------------------ MODULE LiveTick ------------------------------
(***************************************************************************)
(* The causal tick of src/src/neural_computer/live.py:                     *)
(*                                                                         *)
(*   RECEIVE -> resolve outcomes -> observers -> machine -> EMIT           *)
(*                                                                         *)
(* CognitiveTickRuntime.tick runs synchronously, and calls out at five     *)
(* places: every attached input port, every outcome observer, the machine, *)
(* and the output device of every proposal.  Each call may raise, and the  *)
(* exception leaves tick where it stands; so a tick is split at the calls, *)
(* pc says which one is next, and Abort is the exception's way out.        *)
(*                                                                         *)
(* The environment hands outcomes to QueuedOutcomeInputDevice ports between*)
(* ticks, or inside a device's emit (a device that answers at once).       *)
(***************************************************************************)
EXTENDS Integers, Sequences, FiniteSets

CONSTANTS
  OutcomePorts,   (* QueuedOutcomeInputDevice instances                    *)
  SensorPorts,    (* input devices that bring learned events only          *)
  NumObservers,   (* length of outcome_observers                           *)
  Faults,         (* what may go wrong, a subset of FaultKinds             *)
  MaxReceipts,    (* bound: receipts issued                                *)
  MaxProposals,   (* bound: proposals of one machine tick                  *)
  MaxSubmits,     (* bound: outcomes submitted for one receipt             *)
  MaxTime         (* bound: the caller's clock                             *)

FaultKinds == {"sensor", "observer", "machine", "decoder", "device",
               "duplicate", "early"}

ASSUME PortsAssumption ==
  /\ IsFiniteSet(OutcomePorts) /\ IsFiniteSet(SensorPorts)
  /\ OutcomePorts \intersect SensorPorts = {}
  /\ OutcomePorts \union SensorPorts # {}

ASSUME BoundsAssumption ==
  /\ NumObservers \in Nat
  /\ MaxReceipts \in Nat
  /\ MaxProposals \in Nat
  /\ MaxSubmits \in Nat
  /\ MaxTime \in Nat

ASSUME FaultsAssumption == Faults \subseteq FaultKinds

Ports     == OutcomePorts \union SensorPorts
Receipts  == 1 .. MaxReceipts
Observers == 1 .. NumObservers
Machine   == 0
Consumers == Observers \union {Machine}
Times     == 0 .. MaxTime
Never     == -1

(* A LiveOutcomeEvent; reward, presence and confidence do not steer tick.  *)
Outcomes == [receipt : Receipts, observedAt : Times]

VARIABLES
  order,          (* LiveInputInstruction._ports, in polling order         *)
  queue,          (* QueuedOutcomeInputDevice._queue of each outcome port  *)
  pending,        (* receipt ids of CognitiveTickRuntime._pending          *)
  emittedAt,      (* emitted_at of every issued receipt                    *)
  nextReceiptId,  (* CognitiveTickRuntime._next_receipt_id                 *)
  lastNow,        (* CognitiveTickRuntime._last_now                        *)
  pc,             (* the call tick makes next                              *)
  now,            (* tick's argument                                       *)
  polled,         (* ports polled so far                                   *)
  batch,          (* outcomes of the input batch                           *)
  item, observer, (* the loops over resolved outcomes and over observers   *)
  toEmit,         (* proposals still to be emitted                         *)
  (* History: what the outside has seen, read by no action's guard but the *)
  (* environment's.                                                        *)
  seen,           (* how often each consumer was given each outcome        *)
  acted,          (* receipts whose action a device has performed          *)
  submitted,      (* outcomes submitted for each receipt                   *)
  aborted         (* ticks a consumer cut short with this receipt resolved *)

inputVars   == <<order, queue>>
runtimeVars == <<pending, emittedAt, nextReceiptId, lastNow>>
tickVars    == <<pc, now, polled, batch, item, observer, toEmit>>
histVars    == <<seen, acted, submitted, aborted>>
vars        == <<inputVars, runtimeVars, tickVars, histVars>>

Phases == {"idle", "poll", "observe", "emit", "emitting"}

Attached      == {order[i] : i \in DOMAIN order}
Issued        == 1 .. nextReceiptId - 1
BatchReceipts == {batch[i].receipt : i \in DOMAIN batch}

(* Mutation: a poll may resolve a receipt twice.                           *)
NoDuplicatesUnchecked(b) == TRUE

NoDuplicates(b) ==
  \A i, j \in DOMAIN b : b[i].receipt = b[j].receipt => i = j

TypeOK ==
  /\ order \in Seq(Ports)
  /\ queue \in [OutcomePorts -> Seq(Outcomes)]
  /\ pending \subseteq Receipts
  /\ emittedAt \in [Receipts -> Times \union {Never}]
  /\ nextReceiptId \in 1 .. MaxReceipts + 1
  /\ lastNow \in Times \union {Never}
  /\ pc \in Phases
  /\ now \in Times \union {Never}
  /\ polled \in Nat
  /\ batch \in Seq(Outcomes)
  /\ item \in Nat \ {0}
  /\ observer \in Nat \ {0}
  /\ toEmit \in Nat
  /\ seen \in [Consumers -> [Receipts -> Nat]]
  /\ acted \subseteq Receipts
  /\ submitted \in [Receipts -> 0 .. MaxSubmits]
  /\ aborted \in [Receipts -> Nat]

(***************************************************************************)
(* LiveInputInstruction is built over a nonempty mapping of ports.  A      *)
(* mapping that lists every port is the largest; detach gives the others.  *)
(***************************************************************************)
Init ==
  /\ order \in {s \in [1 .. Cardinality(Ports) -> Ports] :
                  \A i, j \in DOMAIN s : s[i] = s[j] => i = j}
  /\ queue = [p \in OutcomePorts |-> <<>>]
  /\ pending = {}
  /\ emittedAt = [r \in Receipts |-> Never]
  /\ nextReceiptId = 1
  /\ lastNow = Never
  /\ pc = "idle"
  /\ now = Never
  /\ polled = 0
  /\ batch = <<>>
  /\ item = 1
  /\ observer = 1
  /\ toEmit = 0
  /\ seen = [c \in Consumers |-> [r \in Receipts |-> 0]]
  /\ acted = {}
  /\ submitted = [r \in Receipts |-> 0]
  /\ aborted = [r \in Receipts |-> 0]

(* Leaving tick, by return or by exception: its locals are gone.           *)
LeaveTick ==
  /\ pc' = "idle"
  /\ now' = Never
  /\ polled' = 0
  /\ batch' = <<>>
  /\ item' = 1
  /\ observer' = 1
  /\ toEmit' = 0

(* An exception passes through tick: _tick and _last_now keep their values.*)
Abort == LeaveTick /\ UNCHANGED lastNow

-----------------------------------------------------------------------------
(* Between ticks: ports come and go, the environment reports outcomes.     *)

Attach(p) ==
  /\ pc = "idle"
  /\ p \notin Attached
  /\ order' = Append(order, p)
  /\ UNCHANGED <<queue, runtimeVars, tickVars, histVars>>

Detach(p) ==
  /\ pc = "idle"
  /\ Len(order) > 1
  /\ \E i \in DOMAIN order :
       /\ order[i] = p
       /\ order' = SubSeq(order, 1, i - 1) \o SubSeq(order, i + 1, Len(order))
  /\ UNCHANGED <<queue, runtimeVars, tickVars, histVars>>

(* submit takes the agent's own receipt, which the environment has from    *)
(* emit; observed_at is the environment's clock.                           *)
Submit(p, r, t) ==
  /\ pc \in {"idle", "emitting"}
  /\ r \in Issued
  /\ submitted[r] < MaxSubmits
  /\ submitted[r] > 0 => "duplicate" \in Faults
  /\ t < emittedAt[r] => "early" \in Faults
  /\ queue' = [queue EXCEPT ![p] = Append(@, [receipt |-> r, observedAt |-> t])]
  /\ submitted' = [submitted EXCEPT ![r] = @ + 1]
  /\ UNCHANGED <<order, runtimeVars, tickVars, seen, acted, aborted>>

-----------------------------------------------------------------------------
(* RECEIVE *)

TickStart(t) ==
  /\ pc = "idle"
  /\ t >= lastNow
  /\ pc' = "poll"
  /\ now' = t
  /\ UNCHANGED <<inputVars, runtimeVars, polled, batch, item, observer, toEmit,
                 histVars>>

NextPort == order[polled + 1]

(* Mutation: only the oldest outcome survives the drain.                   *)
DrainedFirst(p) == IF queue[p] = <<>> THEN <<>> ELSE <<Head(queue[p])>>

Drained(p) == queue[p]

(* poll drains the queue before anything is validated; a port that brings  *)
(* one receipt twice is refused at once, with what was drained so far.     *)
PollOutcomes ==
  /\ pc = "poll"
  /\ polled < Len(order)
  /\ NextPort \in OutcomePorts
  /\ queue' = [queue EXCEPT ![NextPort] = <<>>]
  /\ IF NoDuplicates(queue[NextPort])
       THEN /\ polled' = polled + 1
            /\ batch' = batch \o Drained(NextPort)
            /\ UNCHANGED <<lastNow, pc, now, item, observer, toEmit>>
       ELSE Abort
  /\ UNCHANGED <<order, pending, emittedAt, nextReceiptId, histVars>>

PollSensor ==
  /\ pc = "poll"
  /\ polled < Len(order)
  /\ NextPort \in SensorPorts
  /\ polled' = polled + 1
  /\ UNCHANGED <<inputVars, runtimeVars, pc, now, batch, item, observer, toEmit,
                 histVars>>

SensorRaises ==
  /\ "sensor" \in Faults
  /\ pc = "poll"
  /\ polled < Len(order)
  /\ NextPort \in SensorPorts
  /\ Abort
  /\ UNCHANGED <<inputVars, pending, emittedAt, nextReceiptId, histVars>>

-----------------------------------------------------------------------------
(* Resolving outcomes against the pending table. *)

(* Mutation: the first port is the only one polled.                        *)
PollDoneFirst == polled >= 1

PollDone == polled >= Len(order)

(* Mutation: a receipt no longer pending resolves again.                   *)
ResolvableClosed(o) == o.observedAt >= emittedAt[o.receipt]

Resolvable(o) ==
  /\ o.receipt \in pending
  /\ o.observedAt >= emittedAt[o.receipt]

Resolve ==
  /\ pc = "poll"
  /\ PollDone
  /\ NoDuplicates(batch)
  /\ \A i \in DOMAIN batch : Resolvable(batch[i])
  /\ pc' = "observe"
  /\ UNCHANGED <<inputVars, runtimeVars, now, polled, batch, item, observer,
                 toEmit, histVars>>

(* An unresolvable outcome refuses the whole batch, and so do sensors      *)
(* whose event collections do not merge.                                   *)
ResolveRaises ==
  /\ pc = "poll"
  /\ PollDone
  /\ \/ ~ NoDuplicates(batch)
     \/ \E i \in DOMAIN batch : ~ Resolvable(batch[i])
     \/ "sensor" \in Faults /\ SensorPorts \intersect Attached # {}
  /\ Abort
  /\ UNCHANGED <<inputVars, pending, emittedAt, nextReceiptId, histVars>>

-----------------------------------------------------------------------------
(* Learn: every observer is given every resolved outcome, one by one.      *)

(* Mutation: the last outcome of the batch is left out.                    *)
ObserversDoneEarly == NumObservers = 0 \/ item >= Len(batch)

ObserversDone == NumObservers = 0 \/ item > Len(batch)

GivenAll(c, S) ==
  [seen EXCEPT ![c] = [r \in Receipts |-> IF r \in S THEN @[r] + 1 ELSE @[r]]]

(* What the history records of a call that may have taken effect before it *)
(* raised.                                                                 *)
MaybeSeen(c, S) ==
  \/ UNCHANGED seen
  \/ seen' = GivenAll(c, S)

CutShort(S) ==
  aborted' = [r \in Receipts |-> IF r \in S THEN aborted[r] + 1 ELSE aborted[r]]

Observe ==
  /\ pc = "observe"
  /\ ~ ObserversDone
  /\ seen' = GivenAll(observer, {batch[item].receipt})
  /\ IF observer < NumObservers
       THEN /\ observer' = observer + 1
            /\ item' = item
       ELSE /\ observer' = 1
            /\ item' = item + 1
  /\ UNCHANGED <<inputVars, runtimeVars, pc, now, polled, batch, toEmit,
                 acted, submitted, aborted>>

ObserverRaises ==
  /\ "observer" \in Faults
  /\ pc = "observe"
  /\ ~ ObserversDone
  /\ MaybeSeen(observer, {batch[item].receipt})
  /\ CutShort(BatchReceipts)
  /\ Abort
  /\ UNCHANGED <<inputVars, pending, emittedAt, nextReceiptId, acted, submitted>>

-----------------------------------------------------------------------------
(* Think: the machine is given the whole batch; then its receipts close.   *)

(* Mutation: the resolved receipts are never deleted.                      *)
SettledNever == pending

Settled == pending \ BatchReceipts

(* No call is made between the machine's return and the deletions.         *)
MachineDigests ==
  /\ pc = "observe"
  /\ ObserversDone
  /\ seen' = GivenAll(Machine, BatchReceipts)
  /\ pending' = Settled

MachineTick(n) ==
  /\ MachineDigests
  /\ n <= MaxReceipts + 1 - nextReceiptId
  /\ toEmit' = n
  /\ pc' = "emit"
  /\ UNCHANGED <<inputVars, emittedAt, nextReceiptId, lastNow, now, polled, batch,
                 item, observer, acted, submitted, aborted>>

(* Some proposal does not validate, or names an output nobody registered:  *)
(* refused before any is emitted, but after the receipts closed.           *)
ProposalRefused ==
  /\ "decoder" \in Faults
  /\ MachineDigests
  /\ Abort
  /\ UNCHANGED <<inputVars, emittedAt, nextReceiptId, acted, submitted, aborted>>

MachineRaises ==
  /\ "machine" \in Faults
  /\ pc = "observe"
  /\ ObserversDone
  /\ MaybeSeen(Machine, BatchReceipts)
  /\ CutShort(BatchReceipts)
  /\ Abort
  /\ UNCHANGED <<inputVars, pending, emittedAt, nextReceiptId, acted, submitted>>

-----------------------------------------------------------------------------
(* EMIT: the receipt is pending before the device is called.               *)

EmitBegin ==
  /\ pc = "emit"
  /\ toEmit > 0
  /\ nextReceiptId' = nextReceiptId + 1
  /\ pending' = pending \union {nextReceiptId}
  /\ emittedAt' = [emittedAt EXCEPT ![nextReceiptId] = now]
  /\ pc' = "emitting"
  /\ UNCHANGED <<inputVars, lastNow, now, polled, batch, item, observer, toEmit,
                 histVars>>

(* Mutation: the counter is read after it moved on.                        *)
EmittingNext == nextReceiptId

Emitting == nextReceiptId - 1

EmitReturn ==
  /\ pc = "emitting"
  /\ acted' = acted \union {Emitting}
  /\ toEmit' = toEmit - 1
  /\ pc' = "emit"
  /\ UNCHANGED <<inputVars, runtimeVars, now, polled, batch, item, observer,
                 seen, submitted, aborted>>

(* Mutation: the refused receipt stays in the pending table.               *)
WithdrawnNever == pending

Withdrawn == pending \ {Emitting}

(* The device raises, with or without having acted.                        *)
EmitRaises ==
  /\ "device" \in Faults
  /\ pc = "emitting"
  /\ pending' = Withdrawn
  /\ acted' \in {acted, acted \union {Emitting}}
  /\ Abort
  /\ UNCHANGED <<inputVars, emittedAt, nextReceiptId, seen, submitted, aborted>>

TickDone ==
  /\ pc = "emit"
  /\ toEmit = 0
  /\ lastNow' = now
  /\ LeaveTick
  /\ UNCHANGED <<inputVars, pending, emittedAt, nextReceiptId, histVars>>

-----------------------------------------------------------------------------

(* What tick does by itself, once called.                                  *)
TickStep ==
  \/ PollOutcomes
  \/ PollSensor
  \/ SensorRaises
  \/ Resolve
  \/ ResolveRaises
  \/ Observe
  \/ ObserverRaises
  \/ \E n \in 0 .. MaxProposals : MachineTick(n)
  \/ ProposalRefused
  \/ MachineRaises
  \/ EmitBegin
  \/ EmitReturn
  \/ EmitRaises
  \/ TickDone

Environment ==
  \/ \E p \in Ports : Attach(p) \/ Detach(p)
  \/ \E p \in OutcomePorts, r \in Receipts, t \in Times : Submit(p, r, t)

Next ==
  \/ \E t \in Times : TickStart(t)
  \/ TickStep
  \/ Environment

(* The agent loop keeps calling tick, and a call runs to its end; nothing  *)
(* is assumed of the environment.                                          *)
Fairness ==
  /\ WF_vars(\E t \in Times : TickStart(t))
  /\ WF_vars(TickStep)

Spec == Init /\ [][Next]_vars /\ Fairness

-----------------------------------------------------------------------------
(* Properties. *)

(* A consumer is given the outcome of a receipt a second time only after a *)
(* tick in which that receipt had been resolved was cut short by an        *)
(* observer or by the machine: the pending table is the only guard against *)
(* replayed, duplicated or doubly submitted outcomes (tick, 1038-1063).    *)
RedeliveredOnlyAfterAbort ==
  \A c \in Consumers, r \in Receipts : seen[c][r] <= 1 + aborted[r]

(* Between ticks every pending receipt was physically emitted: "a backend  *)
(* exception cannot leave a receipt that was never physically emitted".    *)
PendingIsPhysical == pc = "idle" => pending \subseteq acted

(* A receipt leaves the pending table for one of two reasons: every        *)
(* observer and the machine have been given its outcome, or the device     *)
(* raised while it was being emitted.                                      *)
ClosedOnlyByDelivery ==
  [][\A r \in pending \ pending' :
       \/ \A c \in Consumers : seen'[c][r] > 0
       \/ pc = "emitting" /\ r = Emitting /\ "device" \in Faults]_vars

(* No outcome of the batch was observed before its action.                 *)
Timely == \A i \in DOMAIN batch : batch[i].observedAt >= emittedAt[batch[i].receipt]

(* An outcome goes to a consumer only while its receipt is pending, of an  *)
(* action that was performed, and out of a batch in which no outcome is    *)
(* older than its action: nothing is learned from a closed receipt, nor    *)
(* next to an outcome that is refused.                                     *)
CreditedOnlyWhileOpen ==
  [][\A c \in Consumers, r \in Receipts :
       seen'[c][r] # seen[c][r] =>
         r \in pending /\ r \in acted /\ r \in BatchReceipts /\ Timely]_vars

(* The outcome of a receipt that is still pending, once submitted, is in   *)
(* some port's queue or in the batch of the tick in progress.              *)
Queued(p, r) == \E i \in DOMAIN queue[p] : queue[p][i].receipt = r

InFlight(r) == r \in BatchReceipts \/ \E p \in OutcomePorts : Queued(p, r)

OutcomeNotLost ==
  \A r \in pending : submitted[r] > 0 => InFlight(r)

(* An outcome reported to an attached port is eventually accounted for.    *)
EventuallyResolved ==
  \A p \in OutcomePorts, r \in Receipts :
    Queued(p, r) ~> (r \notin pending \/ p \notin Attached)

(* "Outcomes are delivered exactly once" (tick's docstring), literally.    *)
DeliveredAtMostOnce ==
  \A c \in Consumers, r \in Receipts : seen[c][r] <= 1

(* The runtime keeps the ledger of OutcomeLedger, whatever goes wrong: a   *)
(* receipt closes once, with every consumer credited once per delivery.    *)
Ledger == INSTANCE OutcomeLedger WITH
            issued <- Issued, open <- pending, credited <- seen,
            retries <- aborted

ImplementsLedger == Ledger!Spec
=============================================================================
