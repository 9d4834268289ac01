# Verification of neural-computer-agent

TLA+ models, TLC runs and TLAPS proofs for the control logic of the library
under `src/src/neural_computer`: the live tick and the router it drives, the
interpreter of learned programs and what composes them, and the external memory
in which everything learned is kept. Paths below are relative to that directory; in
`PROJECT.json` every definition that models code is mapped to its lines.

    tlc  -workers 2 -config retention.cfg MCRetentionLedger
    tlapm LiveTickProofs.tla        (and LiveRouterProofs, RetentionProofs, AgentBrainProofs,
                                     ArtifactBankProofs, CapabilityStagingProofs,
                                     ExecutiveProofs, ExecutiveSequenceProofs)

## 1. The system

A fixed controller exchanges learned events with replaceable devices, and its
durable skills live in external banks. Three things make that correct, and none
of them is numeric: that an outcome is credited to the action that caused it,
once, and to the skill that took it; that a capability which outcomes have
mastered is not forgotten under capacity pressure; and that what is on disk is
what the process believes. A fourth comes with composition: that a skill built
from others does what they do.

| component | state it keeps | operations | talks to |
|---|---|---|---|
| `CognitiveTickRuntime` (`live.py`) | pending receipts, receipt counter, last time | `tick` | calls input ports, observers, the machine, output devices |
| `LiveInputInstruction`, `QueuedOutcomeInputDevice` (`live.py`) | attached ports; queued outcomes | `attach`, `detach`, `poll`, `submit` | polled by the runtime; the environment submits |
| router machine (`live.py`), `ExternalExecutiveSkillRouter` (`executive_route.py`) | the active selection, one machine per slot, the rewards of the episode, the selection behind every proposal | `tick`, `finish_episode`, `reset` | called by the runtime; selects in the agent brain's routes and observes into them |
| `PersistentOpaqueRouteEvidence` and its contextual bank (`addressing.py`) | counters for each slot, a preferred slot, the last outcome; one ledger per context | `select_slot`, `observe`, `append_slot` | the router |
| executive interpreter (`executive.py`, `executive_memory.py`, `executive_operators.py`) | pointer, workspace, accumulator, operator states, status | `tick` | operators; called by a live machine |
| composition (`executive_bank.py`) | none: pure | `compose_executive_artifacts`, `executive_artifact_can_handoff` | the agent brain |
| `ExternalAgentBrainBank` (`agent_brain_bank.py`) | executive programs, a temporal family, routes, provenance, version; a file and its checksum | `admit_executive`, `compose_executive`, `admit_temporal`, `import_temporal_bank`, `executive_route_evidence`, `save_bank`, `load_bank` | the candidate and router machines |
| candidate machine (`live.py`) | an artifact, its lifetimes' means, whether it is admitted | `finish_episode` | the agent brain |
| temporal programs and history (`temporal_*.py`) | append-only history, routed programs | append, read, select, credit | the live machines |
| promotion firewall (`promotion.py`) | one-use holdout claims | claim, evaluate | experiments |
| `PersistentOpaqueStateStore`, checkpoints (`state_store.py`, `checkpoint.py`) | checksummed files | save, load | policies |
| everything else | tensors | forward passes, searches, estimators | |

`PROJECT.json` lists every part, with what is not modelled and why.

### What is hard

* **Calls out of a tick.** `tick` is synchronous, but it calls user code in five
  places, and an exception leaves it halfway: queues drained, observers told,
  receipts closed or not, proposals emitted or not.
* **Outcomes out of order.** They come from the outside: twice, early, for
  closed receipts, through several ports, from inside a device's `emit`.
* **Files that belong together, written one after the other.** A bank is a
  snapshot of rows, a ledger, a manifest, its checksum and one file per
  artifact; a staging queue is a manifest and one file per candidate; an
  admission writes to both directories. Crashes and raising writes fall between.
* **Two identities of a key.** Evidence, protection and the queue's check for
  duplicates go by a key's exact bytes; rows are found by cosine, at
  `write_match_threshold`. Two keys may be one row and two records of evidence,
  and matching is not transitive.
* **Protection by alias.** A consolidated row answers to several keys, each with
  evidence of its own.
* **Boundaries of evidence**: the first measured prefix, the streak, the era
  after a reversal, the step of a ledger that adopts.
* **Two clocks of credit.** A reward comes ticks after the proposal that earned
  it, perhaps in another episode, when another skill acts; the router's mean is
  of one skill, and everything else in the tick can raise after it was counted.
* **Fields that must agree.** Routes, two families under one capacity and the
  records of compositions grow through different calls, each of which may be
  rejected or raise, and the loader demands that they agree.
* **Relocation.** A composed program is its components' code with every pointer,
  slot and operator handle renumbered, every HALT but the last dropped and
  intentions muted.

There are no threads: the code takes no locks and runs no callbacks
concurrently. Interleaving means calls of the environment between the calls a
component makes.

## 2. The modules

| module | models | composed of |
|---|---|---|
| `OutcomeLedger` | what the tick promises: receipts issued, open, credited, closed | abstract |
| `LiveTick` | `CognitiveTickRuntime`, `LiveInputInstruction`, `QueuedOutcomeInputDevice` | implements `OutcomeLedger` |
| `LiveTickProofs` | theorems about `LiveTick` | extends it |
| `RetentionLedger` | `CapabilityRetentionLedger`, several of them | |
| `RetentionProofs` | theorems about `RetentionLedger` | extends it |
| `RouteEvidence` | the ledger of one route context: counters, mastery, release, choice | pure operators |
| `LiveRouter` | the router machine, as the machine of a live runtime | extends `RouteEvidence` |
| `LiveRouterProofs` | theorems about `LiveRouter` | extends it |
| `ExecutiveProgram` | programs, operators, one instruction, composition of any number of artifacts | pure operators |
| `Executive` | the interpreter running one artifact, alone or composed | extends `ExecutiveProgram`, implements `ExecutiveSequence` |
| `ExecutiveSequence` | what composition promises: the components one after the other | abstract, extends `ExecutiveProgram` |
| `ExecutiveProofs` | theorems about `Executive` | extends it |
| `ExecutiveSequenceProofs` | that `Executive` implements `ExecutiveSequence`; compositions of compositions | extends `ExecutiveProofs` |
| `AgentBrain` | `ExternalAgentBrainBank`, its two files, and the candidate machine | |
| `AgentBrainProofs` | theorems about `AgentBrain` | extends it |
| `RowMatching` | which row a write goes to, and what becomes of entries put one after the other | pure operators |
| `ArtifactBank` | `ExecutableArtifactMemory` and its directory | extends `RowMatching`; the ledger's evidence, abstracted to three levels |
| `ArtifactBankProofs` | theorems about `ArtifactBank` | extends it |
| `CapabilityStaging` | `ConfidenceAwareCapabilityStaging` over `ExternalCapabilityLifecycle.admit` | extends `RowMatching`; two directories, the bank's own writes are one step |
| `CapabilityStagingProofs` | theorems about `CapabilityStaging` | extends it |
| `MC...` | instances of these for TLC | |

### LiveTick

`pc` is the call that `tick` makes next: `poll` (a port), `observe` (an observer,
then the machine), `emit` (take the next proposal), `emitting` (the device).
Between two calls the code runs alone, so a call and what follows it is one
action. Every call has an action for its return and one for its exception;
`Abort` leaves `_tick` and `_last_now` alone, as an exception does.

| action | code |
|---|---|
| `Attach`, `Detach`, `Submit` | the methods of that name; `Submit` also while a device is in `emit` |
| `TickStart` | the time check of `tick` |
| `PollOutcomes`, `PollSensor`, `SensorRaises` | one port of `LiveInputInstruction.poll`; the queue is cleared before its batch is validated |
| `Resolve`, `ResolveRaises` | merging and validating the batch, matching outcomes with `_pending` |
| `Observe`, `ObserverRaises` | one call of one observer |
| `MachineTick`, `ProposalRefused`, `MachineRaises` | the machine, the deletion of the resolved receipts, the validation of its proposals |
| `EmitBegin`, `EmitReturn`, `EmitRaises` | issuing a receipt, and the two ways out of `device.emit` |
| `TickDone` | the end of `tick` |

`seen`, `acted`, `submitted` and `aborted` are history: what consumers and
devices experienced. Rewards, events and propensities do not steer the tick and
are left out; so are deadlines, which only set a flag of the result. Every port
of the model is polled through one `LiveInputInstruction`; a runtime with a bare
port is the instance with one port.

`OutcomeLedger` is the promise: a receipt is issued, then withdrawn or closed;
to close it every consumer must have been credited, once per delivery; a
delivery that is cut short may be repeated. `ImplementsLedger` checks that
`LiveTick` does that, with `pending` for the open receipts.

### RouteEvidence and LiveRouter

`LiveRouter` is the machine that `LiveTick` calls when a router drives the agent.
A tick credits the outcomes it is given, one by one, and then acts; `taken` is
what it has gone through, and the action that acts also ends the tick. What the
runtime guarantees of its inputs is the interface between the two modules: an
outcome comes only for an open receipt, a batch has no receipt twice, and
receipts close when the tick returns. After a tick that raised, a receipt is
open still and its outcome may come again, which is what `OutcomeLedger`'s
`CutShort` allows.

| action | code |
|---|---|
| `CreditPerOutcome`, `PerOutcomeRaises` | `_observe_outcomes` in the mode `per_outcome`: the bank's route observes the reward, or refuses it outside [0, 1] |
| `CollectReward`, `RouteChangedRaises` | the mode `episode_mean`: the reward joins the episode's mean, unless the mean is another slot's |
| `NothingToDo`, `SelectRaises` | a tick without events while nothing is selected; an empty bank or an encoder that raises |
| `Emits`, `Waits`, `Halts`, `MachineRaises` | one tick of the selected skill: the active one or, in the same tick, a new selection |
| `FinishEpisode`, `Reset` | committing the mean, and starting the next episode with new machines |
| `Grow` | an admission by the bank: every context's record gets a row |

`Choices` is what `select_slot` may return with the `balanced` strategy; ties are
left open, because slots are told apart by nothing else. `log` keeps, for every
slot and context, the outcomes since it was new or reversed, and `MasteredAt` and
`ReversedBy` say on it what the counters are to mean.

### ExecutiveProgram, Executive and ExecutiveSequence

`Execute` is one turn of the loop of `_tick`: all ten instructions, with the
checks that raise. `Executive` makes one step of each, on the loop's locals
(`work`); they become the caller's state (`committed`) when the tick ends and
are lost when it raises, at any instruction. A tensor's content is one of a few
values or absent; kinds are kept, because operators check them.

`Valid` is the validation of a program and of the operators behind its CALLs.
`Compose` translates `compose_executive_artifacts`: `Relocated` renumbers (slots
by `SlotOf`, targets by `Moved`), `HandleMap` merges operators of equal
specification when they are shared, `Muted` turns the EMITs of all components but
the last into HANDOFFs. The offsets that the code adds up in its loop are
`Offsets`, a recursive function over the sizes of the components, and `PartAt` is
the component in whose part of the program a pointer is. `ExecutiveSequence` never sees
the composed program: it runs the components as they are, in workspaces of their
own, and moves on when one reaches its terminal HALT. `ImplementsSequence` maps
the composed state to the components' with `Split`.

### AgentBrain

`bank` is the running process's, `file` and `checksum` the two files, `saving` the
moment between them. An artifact is the sequence of the base programs it was
composed of, which makes its digest itself: a program composed of composed ones is,
under the same switches, instruction for instruction the one composed of all their
base programs at once (`CompositionsNest`, section 5), and it can be composed on if
the last of them can (`HandoffComposes`). Direct calls take the verdict of the
admission gate as an input (`Verdicts`); the candidate's is computed from the
means of its lifetimes (`Verdict`). A call ends accepted, rejected or raised, and
the three leave the bank in different ways: `AdmitTemporal` has the partial
changes. A family has two widths, of instructions and of contexts, and a temporal
program is read at one of them: `Fits` translates `_validate_artifact`, where the
rows of an address or a recursive program are instructions, those of a prototype
or a conjunction contexts, and the one row of an inverted program may be either
(`Reads`). `Loadable` is what `from_payload` demands. A loaded bank is the saved
one: versions, routes, families and provenance are all in the file.

### RetentionLedger

Several ledgers over several keys, each with the record of `_CapabilityRecord`.
Outcomes are integers `0 .. Unit`, so that means and thresholds compare exactly;
the prefix minimum is kept as the one fact the code asks of it, whether it
reaches the mastery threshold. `sums` and `lowRun` are history from which the
properties recompute mastery and reversal by their definition: the model's
counters are checked against the sequence of outcomes itself. `recent` only
feeds a reported mean and is left out; floating-point rounding is too.

### RowMatching

An element of `Keys` is an exact vector, and `Near` the pairs of a row's key and a
new key whose cosine reaches the threshold. Nothing is assumed of `Near`: it need
be neither transitive nor, for a zero vector, reflexive. `Matching` is the row
that `write` chooses: the key's own if there is one, otherwise any near one.
`Placements` is what becomes of a list of entries that are put one after the other
into an empty bank, as growth and compaction do: one that matches an earlier one
writes over it, and `Holder` is the entry that a row has in the end.

### ArtifactBank

The bank in memory (`rows`, `manifest`, `evidence`, `hot`), its directory
(`diskRows`, `diskEvidence`, `diskManifest`, `checksum`, `files`), and `todo`,
the writes that the `save` under way has still to make. `put` writes the
artifact's file and changes the memory, then saves; the process may stop, or a
write raise, before each remaining write. The retention ledger's file is
truncated and then written, because `save` there is a plain `write_text`; the
others are replaced atomically. A hash is the content it is the hash of. A put
under a key that is near a row's gives the row the new key, and asks no protection:
the evidence stays filed under the former one, which no row has any more.
`grow`, `compact` and `consolidate_verified` build a new directory and never change
the source, so each is one step that succeeds or leaves nothing the caller uses.
`Rebuild` is what they share: the rows go in order (`compact`: in the order its
caller gives) into an empty bank, where they may merge. Only
`consolidate_verified` counts the rows that came of it (`OneRowEach`).
`consolidate_verified` appears where its gate and its verifier accept; every
outcome they could have accepted is tried.

### CapabilityStaging

`pc` walks through an admission: `adopt` (the artifact is in the bank, its
evidence is not), `files` and `unlink` (inside `_persist`). The queue refuses a
candidate by its exact digest; the put of an admission goes by `Matching`, so that
it may write over the row of an admitted capability, and a growth may merge rows
and drops from the ledger the keys that have none. What is `owed` and `admitted`
ends there: the properties say that nothing else ends it. `cutShort` remembers the
admissions that put their artifact and went no further. Which outcome masters a
candidate is `RetentionLedger`'s subject; here any outcome may. `file[k]` says
whether a candidate's file has the bytes the manifest names. That a rewritten
file never has the same bytes is a fact about `torch.save`, which is outside the
repository: it names its archive's records after the path it is given, here a
fresh temporary name. After `grow` the bank in use is another directory; the
model takes a restarted process to be given the bank last admitted to.

## 3. The runs

| run | instance | shows |
|---|---|---|
| `live_tick_faults` | 2 outcome ports, 1 sensor, 1 observer, 2 receipts, 2 proposals a tick, 2 submissions a receipt, times 0..1, every fault | the safety properties and the refinement, 5.7 million states |
| `live_tick_delivery` | the same ports, 2 observers, only a decoder fails | no outcome is lost, every one is accounted for |
| `live_tick_observer_raises` | 1 receipt, 2 observers | a counterexample: the docstring's "exactly once" fails after an exception |
| `router` | 2 contexts, 2 skills, 3 proposals, 2 episodes, one outcome that may be reported again, rewards 0, 1 and 3, mastery at 1/2 over 2 outcomes, patience 1, both feedback modes | credit and protection, 3.2 million states |
| `executive` | as a first component every body of one or two instructions of an alphabet of 14, and four longer programs; four second components; chains of three and four through three middle components; both switches; 9 instructions a tick | the interpreter is safe, composed programs do what their components do, 83 thousand states |
| `brain` | 2 executive programs, one of which never ends, 2 temporal ones of different width, one of which may be read as instructions or as contexts, capacity 3, 4 changes of a bank, 3 lifetimes, crashes and raising writes | the bank and its candidate, 2.6 million states |
| `retention` | 2 ledgers, 1 key, outcomes 0, 1/2, 1, mastery and patience 2, 6 observations each | mastery and reversal over every history, 2.3 million states |
| `bank` | 3 keys, of which one matches both others and these not each other, 1 row growing to 2, 3 artifacts, crashes and raising writes | durability and protection, 359 thousand states |
| `bank_crash` | the same, but only equal keys match; crashes only | a counterexample: a load that serves the evicted artifact |
| `bank_alias` | the same as `bank_crash`, no faults | a counterexample: a put that drops a protected alias |
| `staging` | 3 candidates, of which one matches both others and these not each other, at most 2 staged, crashes and raising writes | nothing is lost between the two directories, 1.1 million states |
| `staging_restart` | the same, crashes only | a counterexample: a queue that never loads again |

**Bounds.** Two receipts and two submissions each are the least that let one
outcome be duplicated while another is outstanding, and two ports the least that
let the duplicate arrive by another way; a third of either adds no new pair. Two
times distinguish early from prompt. Six observations reach mastery, a broken
streak, a reversal and the era after it. Three keys are the primary key, the
alias and the newcomer of an eviction, and the least on which matching is not
transitive: the middle one can take the row of either other, and be taken by it.
Two candidates staged at a time are enough to have one admitted while the other
waits, and the third key is in the bank then. Three artifacts let a put follow one that
was cut short. `Levels` leaves out the evidence that neither protects nor is
absent: nothing in the bank's code distinguishes the two but the presence of a
record, which `CapabilityStaging` keeps. For the router, patience 1 lets
mastery, reversal and mastery anew fit in the outcomes there are; thresholds for
mastery and reversal are equal because the bank constructs its routes so; rewards
are multiples of 1/60 so that the mean of up to six is exact, and 3 is the reward
that brings a mean out of [0, 1] and lets others bring it back. Two slots
and two contexts are what it takes to credit the wrong one. The alphabet of
`executive` has every instruction, with targets before, at and behind the
terminal HALT; two instructions make every pair adjacent, and the longer programs
are those that need more: an n-back policy like the repository's, preludes
that feed a delay, and one that waits. Operator handles have a gap, slots
overlap, and 9 instructions end a tick in the middle of the second component as
well as before it. A chain of three is the least with a component between two
others, whose offsets are sums and whose terminal is not the program's; a chain of four
has two of these next to each other. In `brain`, capacity 3 makes programs of both families meet
the limit; a composition of a composition has three parts; a family with one width for both
kinds and one with two separate the programs that fit either; four changes let a
bank be saved, grow and be saved again. All bounds are guards on environment
actions or on counters, named in each module's CONSTANTS.

**Symmetry** is over outcome ports, over the two keys that play the same part in
`Near`, and over contexts and slots; liveness is checked without.

**Deadlock** is checked for the tick, the router, the agent brain and the ledger.
An artifact bank or a queue that refuses to load has stopped for good, which is
what those runs are about; an executive program that has halted or run out of
instructions takes no further tick.

**Fairness.** `live_tick_delivery` assumes that the agent loop keeps calling
`tick` and that a call that can go on does (`WF` of `TickStart` and of
`TickStep`): the code is a single synchronous call, and the loop is the caller's
(`experiments/brainworkshop_canonical/canonical_live_machine.py:202` ticks while
a receipt is pending). Nothing is
assumed of the environment, so `EventuallyResolved` lets a port be detached.
The other runs assume no fairness.

**What the properties say.**

* `RedeliveredOnlyAfterAbort`, `CreditedOnlyWhileOpen`, `ClosedOnlyByDelivery`,
  `PendingIsPhysical`: the causal ledger of receipts, under every exception.
  `CreditedOnlyWhileOpen` includes that no outcome of a credited batch was observed
  before its action.
* `OutcomeNotLost`, `EventuallyResolved`: its liveness side, where no consumer
  and no sensor fails. With a raising sensor the outcomes drained before it are
  lost, by the order of `poll`; this is a hazard on the list, not a property.
* `MeanIsTheSelections`, `CreditedOnce`, `SkillChangesOnlyAfterHalt`: an outcome
  goes to the skill that earned it, however late it comes, and is counted again
  only after a tick that raised; a skill is replaced only when its program ended.
  That is weaker than the phrase "one verified executive skill per live episode"
  of the router's docstring: when a skill halts, the code selects again within the
  episode (`live.py:964`), and the property is about what the code means by it.
* `ProtectionIsMastery`: the counters of a route, of which the code looks only at
  the last values, protect a skill exactly if its history since it was new or
  reversed has mastered it.
* `ReachesOnlyWhatCanHandoff`, `ComponentsAreIsolated`, `ImplementsSequence`: the
  static handoff check misses no way to the end, relocation keeps components out
  of each other's slots and operators, and a composed program is indistinguishable
  from its components run in turn. The `TypeOK` of that run includes that every
  composition passes its own validation and no pointer leaves its program.
* `SavedBankLoads`, `RefusedOnlyAfterCut`: no sequence of calls makes a bank that
  its own loader refuses, and only a save cut in two does. The loader's checks
  include the widths of the family's programs.
* `RejectedLeavesNoTrace`, `NewcomersAreStable`: what the bank promises of
  rejections, as far as it goes, and of admissions.
* `ProtectedWasMastered`, `MasteredIsProtected`, `ReleasedOnlyByStreak`:
  protection is exactly stable mastery of the present era.
  `RecordsNotFromTheFuture`: evidence stays in the past of the ledger it is in.
* `ForeignOnlyFromCutPut`, `RefusedOnlyAfterInterruption`, `IdleIsDurable`,
  `NeverOverwritesReferencedFile`: what a crash can and cannot do to a bank.
  `ForeignOnlyFromCutPut` bounds what `bank_crash` exhibits: only the very row of
  an interrupted put is affected.
* `HotIsCurrent`: no stale artifact.
* `ProtectedRowsSurvive`: no protected row is lost to capacity pressure. In every
  step its key is left in place, or a put of a matching key writes over it, or a
  consolidation merges it into a row whose verifier vouched for it.
  `RebuildCarriesProtection`: growth and compaction carry a protected row with the
  evidence it had, unless the key of another row they carry matches it. The two
  exceptions are what the code does, and no more than that is lost.
* `OwedIsDurable`, `AdmittedIsDurable`: the two directories of an admission, taken
  together, until the bank releases the capability or a matching key writes over
  its row. `StagedIsNotExecutable`: between calls, a staged candidate is
  "deliberately absent from the executable bank", but for those whose
  admission put the artifact and was then cut short.

Each property has a mutant in `PROJECT.json`: a plausible slip in a mapped
definition, written next to it in the module, that makes TLC report the
property violated.

## 4. The findings

Four runs contradict a sentence of the documentation; `PROJECT.json` quotes each.
An outcome can be credited twice to an observer when another consumer raises
(`live_tick_observer_raises`). A bank's save is not atomic as a whole, and a
crash in an evicting put can serve the evicted artifact under the new key
(`bank_crash`). A put under the primary key of a consolidated row drops
protected aliases (`bank_alias`). A put under a key that is near the row's, but not
equal to it, drops the protected key itself: the evidence stays under the former
key, so the row is unprotected and the next put may evict it; the run `bank` takes
such steps. A crash while the staging queue is saved leaves a queue that does not
load (`staging_restart`).

How far each claim can be relied on is proved (section 5): `ExactlyOnce`,
`CalmBankServesItsOwn` and `QueueLoads` state the condition under which three of
them hold as they are written, and `ClosedReceipts`, `OneRowPerCrash` and
`PutLosesOnlyItsMatch` what remains true where they do not.

### What the code does that is worth knowing

Behaviour that the models show and no sentence of the documentation denies:

* A preferred slot whose machine has halted is selected in every tick that
  follows, and does nothing, until `reset`.
* A reward outside [0, 1] is averaged before it is checked. Others can bring the
  mean back into range; if they do not, `finish_episode` and `reset` raise
  until they do.
* When the decoder raises, the skill's program has moved on and its intention is
  lost; only the receipts of the batch stay open.
* A candidate with one lifetime outside [0, 1] is judged with all its lifetimes
  at every later one, so every later judgement raises.
* An `admit_temporal` that raises may leave an empty family behind. It fixes both
  widths for every temporal program to come and blocks `import_temporal_bank`.
* Growth and compaction put row by row, and matching is not transitive: a row may
  merge into one carried before it, silently, and a protected one be lost.
* The staging queue takes a candidate whose key is near an admitted one's for a new
  one, and its admission writes over the admitted one's row.
* Importing the family that a bank already has is accepted, because the digests
  agree, and raises its version; a family with another capacity has another
  digest, and is refused.
* Components of a composition share the accumulator and the instruction budget
  of a tick.

## 5. The proofs

`LiveTickProofs` proves, for every number of ports, observers, receipts and for
every choice of faults, the properties that `live_tick_faults` checks:
`TypeCorrect`, `Redelivery`, `Physical`, `CreditsAreOpen`, `ClosesAreDelivered`
and `Refinement`. The assumptions are those of `LiveTick`: finite disjoint sets
of ports, not both empty, and natural bounds.

None of these is inductive by itself. `RedeliveredOnlyAfterAbort` needs to know,
of a tick in the middle of its observers, exactly which consumers have been
given which outcomes of the batch: the invariant `IInv` says, next to the types,

* `ResolvedInv`: among its observers, a tick's batch has no receipt twice, and
  each of its receipts is pending;
* `IssuedInv`: what is pending, performed or credited was issued, and the receipt
  that is with its device has not been credited to anyone;
* `PhysicalInv`: every pending receipt was performed, but the one that is with
  its device;
* `TimelyInv`: no outcome of the batch was observed before its action;
* `CreditInv`: a consumer was given a receipt at most once more often than the
  receipt was cut short; a pending one that the loops have not reached, no more
  often; and one that they have passed, at least once.

`IInv` holds initially, every action preserves it (one lemma per group of
actions), and the action properties and the refinement's step follow from it.
For the refinement each action maps to `Issue`, `Credit`, `CutShort`, `Close`,
`Withdraw` or a stutter of `OutcomeLedger`.

Three theorems say what is left of the docstring's "exactly once" and of progress:

* `ClosedReceipts`: whoever raises, a receipt that is no longer open is one that
  every consumer has been told of, or one that its device refused and that nobody
  ever hears of. What an exception can do is repeat a delivery, never split one for
  good. It follows from `IInv` and from `ClosedOnlyByDelivery` step by step.
* `ExactlyOnce`: if no observer and no machine raises, each consumer gets each
  outcome exactly once (`DeliveredAtMostOnce` is the property that
  `live_tick_observer_raises` refutes). Only these two can cut a delivery short, so
  `aborted` stays zero and `CreditInv` leaves one count.
* `TicksEnd`: a tick makes finitely many calls. `Remaining` is what it has ahead,
  compared phase first, then the proposals to come, then the calls of the present
  phase; the order is well-founded, every step of `TickStep` goes down in it, and the
  environment's steps during a tick leave it alone. With `WF` of `TickStep` this is
  what `EventuallyResolved` needs of a single tick; the passage from there to the
  leads-to formula is left to TLC.

`NothingLost` proves `OutcomeNotLost` under the condition of the run
`live_tick_delivery`: only the decoder fails, so an outcome is reported once and not
before its action. Its invariant `FlowInv` says that every outcome in a queue or
in the batch can be resolved and is alone of its receipt (`QueuesInv`,
`BatchInv`), so that neither `PollOutcomes` nor `Resolve` ever refuses; and that an
issued receipt waits for its outcome, has it on the way, or is closed
(`SubmittedInv`).

`RetentionProofs` proves, for every set of ledgers and keys and every policy that
`RetentionPolicyConfig.validate` accepts, all that the run `retention` checks:
`TypeCorrect`, `ProtectionIsEarned`, `MasteryIsGranted`, `StepsBoundRecords` and
`ReleaseIsEarned`. What has to be shown is that the counters a record keeps say
as much as the outcomes they stand for. Its `IInv` is, of every record and the
era's cumulative sums (`Sound`):

* `Counts`: the counters are the number and the sum of the era's outcomes, and
  `stable` says that every measured prefix mean reached mastery;
* `Earned`: a protected record had such a prefix; an unprotected one is not
  mastered now and has no streak;
* the streak is at most the low outcomes in a row, no record is newer than its
  ledger's step, and a key without a record has no history.

`AppendSums` says what one more outcome does to the prefixes; `CountedSound`,
`ObservedKept` and `ObservedReleased` carry `Sound` through `observe`; a lemma per
action carries it through `status`, `adopt` and `subset`. The means are compared
by cross-multiplication, so nothing is proved about floating-point rounding.

`LiveRouterProofs` proves all that the run `router` checks, for every set of
contexts, slots and rewards, and every policy with `Patience` and `MinMastery` at
least 1: `Typed`, `Protection`, `OneSkillAtATime`, `MeanOfOneSkill`,
`OnceUnlessCut`. For protection the invariant `Sane` says, of every context,
slot and its `log` (`Sound`), what each counter counts: `attempts` and `sum` the
whole log; `high` the longest suffix at or over mastery; `low` the low outcomes at the end since
the first mastery; `stable` whether the first prefix is yet to be judged. From
that, `ObserveSlotSound` shows that one more outcome keeps the row and the log
in step through mastery and release. `Acting` says, of the proposals of the
present episode, that the selection which made one is the active one or its
machine has halted; `Earning` says of each earner that its reward was its
selection's; `Crediting` ties the credits of an open receipt to `taken` and
`cut`. The mean is integer division in the model, so the theorems say nothing of
a mean between two multiples of the unit but that it is rounded down.

`AgentBrainProofs` proves all that the run `brain` checks, for every set of
programs, finite family, capacity and admission gate: `Typed`, `Loads`,
`RefusalHasCause`, `NoTrace`, `EntersByMerit`. The inductive `Sane` adds to the
types that the bank, and the file if there is one, is loadable (`Good`), that a
composed candidate is still what its parents' slots compose to (`Derived`: slots
are only ever appended, `Extends`, so it survives the growth of the bank between
two lifetimes), and that only a save in progress or cut in two leaves a checksum
that is not the file's. Part of `Good` is that what the family holds fits its
widths (`AllFit`). Each call has a lemma (`...Good`) that says what it
keeps, whether it changed a trace (`Traced`), and, of the candidate, on what
merits it entered (`Merited`).

`ArtifactBankProofs` proves all that the run `bank` checks, for every set of keys,
every capacity, bound and choice of faults: `TypeCorrect`, `ForeignOnlyFromCuts`,
`RefusalHasCause`, `IdleDurable`, `HotCurrent`, `ReferencedFilesKept`,
`ProtectionCarried`, `ProtectedRowsKept`. Its `IInv` is about the moments inside a
save, of which `todo` is what remains:

* `MemoryInv`, `DiskInv`: the manifest in memory and the one on disk name only
  files no newer than themselves, and each such file has the content they say
  (`Intact`). A put takes the version after the manifest's, so it keeps both,
  and `ReferencedFilesKept` follows from the invariant before and after a step;
* `WrittenInv`: which files the save under way has written already, and
  `SyncInv`: what they said before it, if nothing was cut short;
* `ForeignInv`: a foreign row was cut, and a row of `rows.pt` that the manifest on
  disk would serve wrongly is cut or `exposed`, so a stop at this moment makes it
  cut;
* `DownInv`: a process that went down between complete saves finds a directory
  that loads.

Of matching the proofs assume nothing but `NearAssumption`, that `Near` is a set of
pairs of keys. Growth, compaction and consolidation are proved through what they
have in common. `EntriesFacts` says what the entries are, in any order that lists
each row once (`OrderFacts`). `LostToMatch` is about the placements: an entry that
was written over matches the key of another entry, the next one put into its row.
`HolderFacts` says which entry a row has in the end. From these, `RebuildFacts` describes the new bank, `RebuildFromKeeps` carries the
invariant over, and `CarriedOver` finds the protected row's key there, with its
evidence, or the other row whose key matched.

The counterexamples `bank_crash` and `bank_alias` are bounded by three more
theorems. `CalmBankServesItsOwn`: with no fault, the property that `bank_crash`
refutes holds, and only a directory that never had a full save refuses to load.
`OneRowPerCrash`: unless a write raises, each stop of the process adds at most one
row to those that may be foreign, and none if it comes between two calls; the rows
whose files are ahead of the manifest are those of the put under way
(`DirtyInv`). A write that raises is the exception because the process goes on with
the row it has, and may be stopped later while it puts another.
`PutLosesOnlyItsMatch`: a put takes from the bank no protected address but the key
and the aliases of one row, whose key matches the one that was put. That is all that
`bank_alias` shows, and all that a near key can do.

`CapabilityStagingProofs` proves all that the run `staging` checks, for every set of
keys, every `Near`, every bound on what is staged and choice of faults:
`TypeCorrect`, `OwedAreDurable`, `AdmittedAreDurable`, `StagedNotExecutable`,
`RefusalHasCause`. The invariant follows a candidate through the four places that
a call moves it between:

* `OwedInv`: one that is owed is kept by the bank with its evidence (`Kept`), or it
  is in the manifest, in the queue from which the next manifest is written, and in
  the one a raising `_persist` goes back to;
* `AdmittedInv`: one that is admitted is in none of the three, and in the bank, whose
  ledger protects it;
* `StagedInv`: one that is staged or in the manifest has a row only if its admission
  was cut short or is the call in progress;
* `BankInv`: what the bank executes has evidence in its directory, but for the key of
  an admission under way or cut short;
* `CallInv`, `FileInv`: what each step of a call leaves to do, and that only
  `_persist`, before its manifest, makes the files disagree with it.

What an admission does to other rows is in `WithRowFacts` (the put) and
`GrownFacts` (the growth, through the same two lemmas on placements): a key that
leaves the bank was written over by one that matches it.

`QueueLoads` is the condition under which what `staging_restart` refutes is true:
no call of `_persist` is cut short. `RestartKeeps` is about the returns of
`observe` before its `_persist`: unless a write raises, the queue in memory and the
manifest list, between calls, the same candidates, so that a restart neither
forgets nor resurrects one.

`ExecutiveProofs` and `ExecutiveSequenceProofs` prove all that the run `executive`
checks, for every set of artifacts that are valid and whose handles have a
largest one, compositions of any number of them, every set of inputs and every
budget.

The proofs about a list of components rest on what its offsets are. `SumsExist`
shows by well-founded induction on the naturals that the recursive function
`Offsets` exists; `OffsetsAdd` and `SumsGrow` that each offset is the one before it
plus a size, and that they grow. `PlaceFacts` and `PartOf` collect what follows for
the program: the bodies of the components lie behind each other, and every pointer
is in exactly one of them.

* `ComposedIsValid`: a composition passes the validation that ends
  `compose_executive_artifacts`. `ComposeJoins` and `Moves` say what composition
  does to the code and to the fields of an instruction; each kind of instruction
  then lands among the `Instructions` of the result.
* `HandoffComposes`: `executive_artifact_can_handoff` says yes to a composition
  exactly if it says yes to every component. `compose_executive_artifacts` asks it of
  all but the last, so its result can be composed further on just when the last one
  can, and nobody has to search the composed program. In one direction, a closed
  set of pointers of the composition is cut to a closed set of each component and
  the terminals are reached one after the other; in the other, a closed set of one
  component that misses its terminal is put among the whole bodies of those before
  it.
* `CompositionsNest`: to compose two compositions is to compose all their
  components at once, with either setting of both switches. The two artifacts are
  equal in code, slots and operators, so that a bank which keeps digests cannot
  tell them apart. `OffsetsNest` shows it of the three offsets (for handles it needs
  that a composition's width is the sum of its components', `WidthAdds`), `FirstFollows`
  of sharing, where the order in which kinds first occur must survive a first
  renumbering, and `MutedNest` of an instruction: an EMIT that is muted in its part is
  a HANDOFF when its part is composed. With `CompositionOfOne` (an artifact composed
  of nothing else, without sharing, is itself) it holds of lists in which some
  artifacts are composed and others not.
* `TypeCorrect` and `HandoffNeverMissed` follow from one invariant, `IInv`. It
  says that the locals are typed, and (`Kept`) that the pointer is in every set
  of pointers that holds the first one and the successors of its members. One
  instruction goes nowhere else (`ExecuteTyped`, over all ten), and
  `CanHandoff` says just that of the terminal HALT.
* `Isolation`: an instruction stores into its destination and its handle's
  operator only (`ExecuteFrame`), and relocation keeps both in the component
  (`ComposedIsMine`; `HandlesApart` is where the width of a component counts,
  which is its largest handle and not its number of operators).
* `Composition`: the refinement. `Layout` says how the components lie in the
  program. Its hard part is sharing: a kind's handle is the number of kinds that
  occur before it, and no two kinds have the same rank (`RanksDiffer`), so that
  two operators have one handle exactly if they have one state (`HandlesByKey`).
  `View` is what the component at the pointer sees of the program's locals;
  `Simulates` shows that the component's instruction on its view and the
  program's on the locals end alike and agree, exceptions included; `SeenAgrees`
  that the split locals then move as `ExecutiveSequence` says, over the handover
  at the terminal HALT of a component that is not the last too.

What the assumption leaves to the code is that an artifact has finitely many
operators.

**Only model-checked**: the liveness property `EventuallyResolved`. Liveness under
fairness and ENABLED are outside what the proof system's backends do; `TicksEnd` is
the part of it that is a safety property.

## 6. What is not modelled

* Tensor arithmetic: forward passes, similarity scores, learned planners and
  estimators. Where their result steers modelled control it is a
  nondeterministic choice.
* Building a bank over a directory that already holds one without `load`, and
  rebuilding into a directory that is not empty.
* Device I/O, formats, schema and width checks of every record.
* The exhaustive search for a composition, and the legacy files that `load_bank`
  migrates.
* Artifacts whose input widths disagree, which composition refuses.
* What `ExternalTemporalProgramBank` does alone: its selection, its routes and
  its files. The agent brain sees its widths, its programs, `admit` and import.
* Widths and delays of executive operators: an operator is its kind, so their part in
  the specification that decides sharing is not checked.
* Matching of route contexts by distance: contexts are equal or apart.
* The components marked `not_modelled` in `PROJECT.json`. By far the most code
  of the repository is of that kind: transition models, trainers, estimators,
  searches and experiments, whose correctness is a matter of numbers. The map
  therefore covers a small share of all lines, and most of those that keep
  durable state or credit outcomes.

## 7. Plan

1. `HoldoutLedger` (`promotion.py`) and the snapshot protocol of
   `state_store.py` and `checkpoint.py`: one abstract durable store that both,
   and the saves of `ArtifactBank` and `AgentBrain`, are compared with.
2. The temporal bank's routes, on `RouteEvidence`, and its history stores.
3. `select_capability_candidate` and `stable_prefix_minimum` as operators, checked
   against their definitions over bounded curves; `control_flow.py`'s machine.
4. Transactions of `ContentAddressedMemory`.
