------------------------------- MODULE Executive -------------------------------
(***************************************************************************)
(* ExternalExecutiveMachine (src/src/neural_computer/executive.py): one    *)
(* artifact, admitted alone or composed of others, ticked on events until  *)
(* it halts or runs out of instructions.                                   *)
(*                                                                         *)
(* A tick works on its own copy of the state and hands it back only when   *)
(* it ends without an exception, so committed is the caller's state and    *)
(* work the locals of the loop.  trusted ticks differ in what they check   *)
(* of a state that is right, and are not told apart.                       *)
(***************************************************************************)
EXTENDS ExecutiveProgram

CONSTANTS
  Artifacts,        (* programs and their operators                        *)
  Chains,           (* lists of artifacts: one alone, or more to compose   *)
  Inputs,           (* what the events of a tick hold; "absent" if nothing *)
  MaxInstructions   (* max_instructions_per_tick                           *)

ASSUME ExecutiveAssumption ==
  /\ \A a \in Artifacts :
       /\ Valid(a)
       /\ Handles(a) # {} => \E h \in Handles(a) : \A g \in Handles(a) : g <= h
  /\ Chains \subseteq Seq(Artifacts) \ {<<>>}
  /\ "absent" \in Inputs /\ "none" \notin Inputs
  /\ MaxInstructions \in Nat \ {0}

VARIABLES
  parts,      (* the components, in their order                            *)
  share,      (* share_compatible_operators                                *)
  silent,     (* final_emit_only                                           *)
  artifact,   (* the machine's program and operators                       *)
  committed,  (* ExternalExecutiveState, but for its status                *)
  status,     (* and its status                                            *)
  work,       (* the locals of _tick                                       *)
  events,     (* the input of the tick under way, "none" between ticks     *)
  executed    (* instructions of the tick under way                        *)

programVars == <<parts, share, silent, artifact>>
vars == <<programVars, committed, status, work, events, executed>>

Ticking == events # "none"

Truth == {"true", "false", "absent"}
Values ==
  {Empty} \union ({"events", "value"} \X Inputs)
          \union ({"evidence", "intention"} \X Truth)

States ==
  [ptr : DOMAIN artifact.code, ws : [1 .. artifact.slots -> Values],
   acc : Values, ops : [Handles(artifact) -> Inputs]]

(* Every artifact passes its own validation, a composed one too, and the   *)
(* instruction pointer never escapes its program.                          *)
TypeOK ==
  /\ Valid(artifact)
  /\ work.ptr \in DOMAIN artifact.code
  /\ work \in States /\ (~ Ticking => committed = work)
  /\ status \in {"ready", "waiting", "emitted", "halted", "step_budget_exhausted"}
  /\ executed \in 0 .. MaxInstructions - 1

InitialState(a) ==
  [ptr |-> 1, ws |-> [s \in 1 .. a.slots |-> Empty], acc |-> Empty,
   ops |-> [h \in Handles(a) |-> "absent"]]

Init ==
  /\ parts \in Chains
  /\ \/ /\ Len(parts) = 1 /\ share = FALSE /\ silent = FALSE
        /\ artifact = parts[1]
     \/ /\ CanCompose(parts) /\ share \in BOOLEAN /\ silent \in BOOLEAN
        /\ artifact = Compose(parts, share, silent)
  /\ committed = InitialState(artifact) /\ work = committed
  /\ status = "ready" /\ events = "none" /\ executed = 0

(* A program that has halted returns at once, with no intention; one that  *)
(* is exhausted raises.  Neither changes anything.                         *)
Tick(input) ==
  /\ ~ Ticking /\ status \notin {"halted", "step_budget_exhausted"}
  /\ events' = input
  /\ UNCHANGED <<programVars, committed, status, work, executed>>

Now == Execute(artifact, work, events)

Return(w, s) ==
  /\ work' = w /\ committed' = w /\ status' = s
  /\ events' = "none" /\ executed' = 0
  /\ UNCHANGED programVars

Continues ==
  /\ Ticking /\ Now.end = "on" /\ executed + 1 < MaxInstructions
  /\ work' = Now.w
  /\ executed' = executed + 1
  /\ UNCHANGED <<programVars, committed, status, events>>

RunsOut ==
  /\ Ticking /\ Now.end = "on" /\ executed + 1 >= MaxInstructions
  /\ Return(Now.w, "step_budget_exhausted")

Waits == Ticking /\ Now.end = "wait" /\ Return(Now.w, "waiting")
Emits == Ticking /\ Now.end = "emit" /\ Return(Now.w, "emitted")
Halts == Ticking /\ Now.end = "halt" /\ Return(Now.w, "halted")

(* The tick's locals are lost.                                             *)
Raises == Ticking /\ Now.end = "raise" /\ Return(committed, status)

Next ==
  \/ \E input \in Inputs : Tick(input)
  \/ Continues \/ RunsOut \/ Waits \/ Emits \/ Halts \/ Raises

Spec == Init /\ [][Next]_vars

-----------------------------------------------------------------------------
(* executive_artifact_can_handoff refuses no component that any run can    *)
(* bring to its terminal HALT: the check passes over no way to it.         *)
ReachesOnlyWhatCanHandoff ==
  Len(parts) = 1 /\ work.ptr = Terminal(artifact) => CanHandoff(artifact)

(* What the n-th component owns of the composed program.                   *)
Slots(n)     == {SlotOf(parts, n, s) : s \in 1 .. parts[n].slots}
Operators(n) == {HandleMap(parts, share, n, h) : h \in Handles(parts[n])}

(* "preserving stateful operator isolation" (executive_bank.py:316): an    *)
(* instruction of one component leaves the slots of the other ones alone,  *)
(* and without sharing their operators' states too.                        *)
ComponentsAreIsolated ==
  [][executed' > executed =>
       \A other \in DOMAIN parts \ {PartAt(parts, work.ptr)} :
         /\ \A s \in Slots(other) : work'.ws[s] = work.ws[s]
         /\ share \/ \A h \in Operators(other) : work'.ops[h] = work.ops[h]]_vars

(* The composed program seen as its components, each at its own pointer,   *)
(* with its own workspace, and with the operators they may share.          *)
Split(w) ==
  LET at == PartAt(parts, w.ptr)
  IN [at  |-> at,
      ptr |-> w.ptr - ProgramOffsets(parts)[at],
      ws  |-> [n \in DOMAIN parts |->
                 [s \in 1 .. parts[n].slots |-> w.ws[SlotOf(parts, n, s)]]],
      acc |-> w.acc,
      ops |-> [k \in {Key(parts, share, o) : o \in Owners(parts)} |->
                 LET o == CHOOSE x \in Owners(parts) : Key(parts, share, x) = k
                 IN w.ops[HandleMap(parts, share, o[1], o[2])]]]

Sequence == INSTANCE ExecutiveSequence WITH
  committed <- Split(committed), work <- Split(work)

(* A composed artifact does what its components do one after the other,    *)
(* however many they are: in workspaces of their own, with one accumulator *)
(* and one budget, with one state for equal operators if they are shared,  *)
(* and with the last one's intentions only if only the last may emit.      *)
ImplementsSequence == Sequence!Spec
=============================================================================
