--------------------------- MODULE ExecutiveProgram ---------------------------
(***************************************************************************)
(* Executive programs as data: their instructions and what one of them     *)
(* does (src/src/neural_computer/executive.py), the allow-listed operators *)
(* a CALL reaches (executive_operators.py, executive_memory.py), and the   *)
(* composition of artifacts into one (executive_bank.py).                  *)
(*                                                                         *)
(* The batch is one row.  A workspace value is <<kind, content>>; a tensor *)
(* is one of a few contents, "absent" when its row is not present.         *)
(***************************************************************************)
EXTENDS Naturals, Sequences, FiniteSets

Empty == <<"empty", "absent">>

(* Instructions; a target of 0 is a next_target that is not given.         *)
Receive(dst)         == [op |-> "receive", dst |-> dst]
Read(src)            == [op |-> "read", src |-> src]
Write(dst)           == [op |-> "write", dst |-> dst]
Copy(src, dst)       == [op |-> "copy", src |-> src, dst |-> dst]
Call(h, args, dst)   == [op |-> "call", handle |-> h, args |-> args, dst |-> dst]
Branch(src, t, f, u) ==
  [op |-> "branch", src |-> src, true |-> t, false |-> f, unknown |-> u]
Wait(next)           == [op |-> "wait", next |-> next]
Emit(src, next)      == [op |-> "emit", src |-> src, next |-> next]
Handoff(next)        == [op |-> "handoff", next |-> next]
Halt                 == [op |-> "halt"]

(* An artifact: its code, the number of its workspace slots, and the kind  *)
(* of operator behind each handle.                                         *)
Terminal(a) == Len(a.code)
Handles(a)  == DOMAIN a.specs

Targets(i) ==
  CASE i.op = "branch"                       -> {i.true, i.false, i.unknown}
    [] i.op \in {"wait", "emit", "handoff"}  -> {i.next} \ {0}
    [] OTHER                                 -> {}

(* ExecutiveInstruction.validate: what an instruction of a may be.         *)
Instructions(a) ==
  LET slot    == 1 .. a.slots
      pointer == DOMAIN a.code
  IN [op : {"receive", "write"}, dst : slot]
     \union [op : {"read"}, src : slot]
     \union [op : {"copy"}, src : slot, dst : slot]
     \union [op : {"call"}, handle : Handles(a), args : Seq(slot), dst : slot]
     \union [op : {"branch"}, src : slot,
             true : pointer, false : pointer, unknown : pointer]
     \union [op : {"emit"}, src : slot, next : {0} \union pointer]
     \union [op : {"wait", "handoff"}, next : {0} \union pointer]
     \union [op : {"halt"}]

OperatorKinds == {"singleton_event_value", "value_delay",
                  "value_equality_evidence", "evidence_binary_intention"}

(* ExternalExecutiveProgram.validate, and an operator for every CALL.      *)
Valid(a) ==
  /\ a.slots \in Nat \ {0}
  /\ a.specs \in [Handles(a) -> OperatorKinds] /\ Handles(a) \subseteq Nat
  /\ a.code \in Seq(Instructions(a)) /\ a.code # <<>>
  /\ a.code[Terminal(a)] = Halt

-----------------------------------------------------------------------------
(* The operators.  state is what the handle's operator remembers.          *)

InputKinds(kind) ==
  CASE kind = "singleton_event_value"     -> <<"events">>
    [] kind = "value_delay"               -> <<"value">>
    [] kind = "value_equality_evidence"   -> <<"value", "value">>
    [] kind = "evidence_binary_intention" -> <<"evidence">>

WellTyped(kind, args) ==
  /\ Len(args) = Len(InputKinds(kind))
  /\ \A i \in DOMAIN args : args[i][1] = InputKinds(kind)[i]

Equality(left, right) ==
  IF "absent" \in {left, right} THEN "absent"
  ELSE IF left = right THEN "true" ELSE "false"

Result(kind, args, state) ==
  CASE kind = "singleton_event_value"     -> <<"value", args[1][2]>>
    [] kind = "value_delay"               -> <<"value", state>>
    [] kind = "value_equality_evidence"   ->
         <<"evidence", Equality(args[1][2], args[2][2])>>
    [] kind = "evidence_binary_intention" -> <<"intention", args[1][2]>>

(* A delay of one remembers the value it was called with.                  *)
StateAfter(kind, args, state) ==
  IF kind = "value_delay" THEN args[1][2] ELSE state

-----------------------------------------------------------------------------
(* One instruction of the loop of _tick.  w holds the loop's locals: the   *)
(* instruction pointer, the workspace, the accumulator and the operators'  *)
(* states; the outcome says how the loop goes on, with which locals, and   *)
(* which intention leaves it.                                              *)

Outcome(end, w)  == [end |-> end, w |-> w, intention |-> "none"]
Raised(w)        == Outcome("raise", w)
Next1(w)         == [w EXCEPT !.ptr = @ + 1]
Goto(w, target)  == IF target = 0 THEN Next1(w) ELSE [w EXCEPT !.ptr = target]

CallOutcome(i, specs, w) ==
  LET kind  == specs[i.handle]
      args  == [n \in DOMAIN i.args |-> w.ws[i.args[n]]]
      value == Result(kind, args, w.ops[i.handle])
  IN IF WellTyped(kind, args)
     THEN Outcome("on", Next1([w EXCEPT
            !.ws[i.dst] = value, !.acc = value,
            !.ops[i.handle] = StateAfter(kind, args, @)]))
     ELSE Raised(w)

BranchOutcome(i, w) ==
  LET evidence == w.ws[i.src]
  IN CASE evidence[1] # "evidence"     -> Raised(w)
       [] evidence[2] = "true"         -> Outcome("on", Goto(w, i.true))
       [] evidence[2] = "false"        -> Outcome("on", Goto(w, i.false))
       [] evidence = <<"evidence", "absent">> -> Outcome("on", Goto(w, i.unknown))

EmitOutcome(i, w) ==
  LET value == w.ws[i.src]
  IN IF value[1] = "intention" /\ value[2] # "absent"
     THEN [end |-> "emit", w |-> Goto(w, i.next), intention |-> value[2]]
     ELSE Raised(w)

Execute(a, w, events) ==
  LET i == a.code[w.ptr]
      Store(v) == Outcome("on", Next1([w EXCEPT !.ws[i.dst] = v]))
  IN CASE i.op = "receive" -> Store(<<"events", events>>)
       [] i.op = "read"    -> IF w.ws[i.src] = Empty THEN Raised(w)
                              ELSE Outcome("on", Next1([w EXCEPT !.acc = w.ws[i.src]]))
       [] i.op = "write"   -> IF w.acc = Empty THEN Raised(w) ELSE Store(w.acc)
       [] i.op = "copy"    -> IF w.ws[i.src] = Empty THEN Raised(w)
                              ELSE Store(w.ws[i.src])
       [] i.op = "call"    -> CallOutcome(i, a.specs, w)
       [] i.op = "branch"  -> BranchOutcome(i, w)
       [] i.op = "wait"    -> Outcome("wait", Goto(w, i.next))
       [] i.op = "emit"    -> EmitOutcome(i, w)
       [] i.op = "handoff" -> Outcome("on", Goto(w, i.next))
       [] i.op = "halt"    -> Outcome("halt", w)

-----------------------------------------------------------------------------
(* Composition.                                                            *)

(* Mutation: BRANCH is followed to its decided targets only.               *)
SuccessorsDecided(a, p) ==
  LET i == a.code[p]
  IN IF i.op = "branch" THEN {i.true, i.false}
     ELSE IF i.op = "halt" THEN {}
     ELSE IF Targets(i) # {} THEN Targets(i) ELSE {p + 1}

Successors(a, p) ==
  LET i == a.code[p]
  IN IF i.op = "halt" THEN {}
     ELSE IF Targets(i) # {} THEN Targets(i) ELSE {p + 1}

(* executive_artifact_can_handoff: every set of pointers that holds the    *)
(* first and, with each of its members, its successors holds the terminal. *)
CanHandoff(a) ==
  \A reachable \in SUBSET DOMAIN a.code :
    1 \in reachable /\ (\A p \in reachable : Successors(a, p) \subseteq reachable)
    => Terminal(a) \in reachable

CanCompose(parts) ==
  /\ \A n \in 1 .. Len(parts) - 1 : CanHandoff(parts[n])
  /\ \A n \in DOMAIN parts : Terminal(parts[n]) > 1

(* The operators of a list of artifacts, and whose state each has: its own,*)
(* or with sharing that of its specification.                              *)
Owners(parts) ==
  {o \in (DOMAIN parts) \X UNION {Handles(parts[n]) : n \in DOMAIN parts} :
     o[2] \in Handles(parts[o[1]])}

Key(parts, share, o) == IF share THEN parts[o[1]].specs[o[2]] ELSE o

(* The kinds of a list of artifacts in the order in which they first occur.*)
OccursAt(parts, kind) == {o \in Owners(parts) : parts[o[1]].specs[o[2]] = kind}

Before(x, y) == x[1] < y[1] \/ (x[1] = y[1] /\ x[2] < y[2])

FirstBefore(parts, kind, other) ==
  \E x \in OccursAt(parts, kind) : \A y \in OccursAt(parts, other) : Before(x, y)

Kinds(parts) == {parts[o[1]].specs[o[2]] : o \in Owners(parts)}

Width(a) ==
  IF Handles(a) = {} THEN 0
  ELSE (CHOOSE h \in Handles(a) : \A g \in Handles(a) : g <= h) + 1

(* What is ahead of each of a list of things of these sizes, and of all    *)
(* that follows them.                                                      *)
Offsets(sizes) ==
  LET ahead[n \in 1 .. Len(sizes) + 1] ==
        IF n = 1 THEN 0 ELSE ahead[n - 1] + sizes[n - 1]
  IN ahead

(* Every component but the last loses its terminal HALT.                   *)
ProgramOffsets(parts) == Offsets([n \in DOMAIN parts |-> Terminal(parts[n]) - 1])
SlotOffsets(parts)    == Offsets([n \in DOMAIN parts |-> parts[n].slots])
HandleOffsets(parts)  == Offsets([n \in DOMAIN parts |-> Width(parts[n])])

(* The component that the pointer p of the composed program is in.         *)
PartAt(parts, p) ==
  CHOOSE n \in DOMAIN parts :
    /\ ProgramOffsets(parts)[n] < p
    /\ n < Len(parts) => p <= ProgramOffsets(parts)[n + 1]

(* Mutation: a later component's handles follow the number of the earlier  *)
(* ones' operators, not their largest handles.                             *)
HandleMapByCount(parts, share, n, h) ==
  IF share
  THEN Cardinality({k \in Kinds(parts) : FirstBefore(parts, k, parts[n].specs[h])})
  ELSE h + Offsets([m \in DOMAIN parts |-> Cardinality(Handles(parts[m]))])[n]

(* The handle that the n-th component's handle h becomes: with sharing one *)
(* for each specification, numbered as they occur.                         *)
HandleMap(parts, share, n, h) ==
  IF share
  THEN Cardinality({k \in Kinds(parts) : FirstBefore(parts, k, parts[n].specs[h])})
  ELSE h + HandleOffsets(parts)[n]

(* Where a slot or a target of the n-th component comes to be.  A target   *)
(* that was the terminal of its component is where the next one starts.    *)
SlotOf(parts, n, s) == s + SlotOffsets(parts)[n]

(* Mutation: a target is moved by the lengths of the earlier components,   *)
(* their terminals included.                                               *)
MovedFar(parts, n, t) ==
  IF t = 0 THEN 0 ELSE t + Offsets([m \in DOMAIN parts |-> Terminal(parts[m])])[n]

Moved(parts, n, t) == IF t = 0 THEN 0 ELSE t + ProgramOffsets(parts)[n]

(* An instruction of the n-th component in the composed program.           *)
Relocated(parts, share, n, i) ==
  [f \in DOMAIN i |->
     CASE f \in {"src", "dst"} -> SlotOf(parts, n, i[f])
       [] f \in {"true", "false", "unknown", "next"} -> Moved(parts, n, i[f])
       [] f = "args"   -> [k \in DOMAIN i.args |-> SlotOf(parts, n, i.args[k])]
       [] f = "handle" -> HandleMap(parts, share, n, i.handle)
       [] f = "op"     -> i.op]

(* Mutation: the switch is forgotten.                                      *)
MutedNever(silent, i) == i

(* final_emit_only makes an EMIT of all but the last component a HANDOFF.  *)
Muted(silent, i) ==
  IF silent /\ i.op = "emit" THEN Handoff(i.next) ELSE i

Compose(parts, share, silent) ==
  LET last == Len(parts)
      becomes(o) == HandleMap(parts, share, o[1], o[2])
      instruction(p) ==
        LET n == PartAt(parts, p)
        IN Muted(silent /\ n < last,
                 Relocated(parts, share, n,
                           parts[n].code[p - ProgramOffsets(parts)[n]]))
  IN [code  |-> [p \in 1 .. ProgramOffsets(parts)[last] + Terminal(parts[last]) |->
                   instruction(p)],
      slots |-> SlotOffsets(parts)[last + 1],
      specs |-> [h \in {becomes(o) : o \in Owners(parts)} |->
                   LET o == CHOOSE x \in Owners(parts) : becomes(x) = h
                   IN parts[o[1]].specs[o[2]]]]
=============================================================================
