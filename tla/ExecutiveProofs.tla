----------------------------- MODULE ExecutiveProofs -----------------------------
(***************************************************************************)
(* Proofs about Executive, for every set of valid artifacts, compositions  *)
(* of any number of them, every input and every budget: a composed artifact*)
(* is valid, the instruction pointer never escapes its program, a pointer  *)
(* the machine reaches is one that executive_artifact_can_handoff finds, a *)
(* composition hands off exactly if each of its components does, and the   *)
(* components leave each other's slots and operators alone.                *)
(***************************************************************************)
EXTENDS Executive, FiniteSetTheorems, SequenceTheorems, TLAPS, WellFoundedInduction

(* The elements of a sequence over S are in S.                             *)
LEMMA Elements ==
  ASSUME NEW S, NEW s \in Seq(S)
  PROVE  \A n \in DOMAIN s : s[n] \in S
OBVIOUS

(* What an instruction holds, by its operation.                            *)
LEMMA ByOperation ==
  ASSUME NEW a, NEW i \in Instructions(a)
  PROVE  \/ /\ i.op \in {"receive", "write"} /\ i.dst \in 1 .. a.slots
            /\ DOMAIN i = {"op", "dst"}
         \/ /\ i.op = "read" /\ i.src \in 1 .. a.slots /\ DOMAIN i = {"op", "src"}
         \/ /\ i.op = "copy" /\ i.src \in 1 .. a.slots /\ i.dst \in 1 .. a.slots
            /\ DOMAIN i = {"op", "src", "dst"}
         \/ /\ i.op = "call" /\ i.handle \in Handles(a)
            /\ i.args \in Seq(1 .. a.slots) /\ i.dst \in 1 .. a.slots
            /\ DOMAIN i = {"op", "handle", "args", "dst"}
         \/ /\ i.op = "branch" /\ i.src \in 1 .. a.slots
            /\ {i.true, i.false, i.unknown} \subseteq DOMAIN a.code
            /\ DOMAIN i = {"op", "src", "true", "false", "unknown"}
         \/ /\ i.op = "emit" /\ i.src \in 1 .. a.slots
            /\ i.next \in {0} \union DOMAIN a.code /\ DOMAIN i = {"op", "src", "next"}
         \/ /\ i.op \in {"wait", "handoff"} /\ i.next \in {0} \union DOMAIN a.code
            /\ DOMAIN i = {"op", "next"}
         \/ i.op = "halt" /\ DOMAIN i = {"op"}
BY DEF Instructions

StatesOf(a) ==
  [ptr : DOMAIN a.code, ws : [1 .. a.slots -> Values], acc : Values,
   ops : [Handles(a) -> Inputs]]

(* What ExternalExecutiveProgram.validate gives of a program's code.       *)
LEMMA CodeTyped ==
  ASSUME NEW a, Valid(a)
  PROVE  /\ Terminal(a) \in Nat \ {0} /\ DOMAIN a.code = 1 .. Terminal(a)
         /\ \A p \in DOMAIN a.code : a.code[p] \in Instructions(a)
BY DEF Valid, Terminal

(* Where an instruction but HALT goes on: behind itself, which is not      *)
(* behind the terminal, or to its target.                                  *)
LEMMA GoesOn ==
  ASSUME NEW a, Valid(a), NEW p \in DOMAIN a.code
  PROVE  LET i == a.code[p] IN
         /\ i.op \in {"receive", "read", "write", "copy", "call"} =>
              p + 1 \in DOMAIN a.code /\ p + 1 \in Successors(a, p)
         /\ i.op \in {"wait", "emit", "handoff"} =>
              LET q == IF i.next = 0 THEN p + 1 ELSE i.next
              IN q \in DOMAIN a.code /\ q \in Successors(a, p)
         /\ i.op = "branch" =>
              /\ {i.true, i.false, i.unknown} \subseteq DOMAIN a.code
              /\ 0 \notin {i.true, i.false, i.unknown}
              /\ {i.true, i.false, i.unknown} \subseteq Successors(a, p)
<1>. DEFINE i == a.code[p]
<1>1. /\ Terminal(a) \in Nat \ {0} /\ DOMAIN a.code = 1 .. Terminal(a)
      /\ i \in Instructions(a) /\ p \in Nat
  BY CodeTyped
<1>2. i.op # "halt" => p + 1 \in DOMAIN a.code
  BY <1>1 DEF Valid, Halt
<1>3. i.op = "branch" => Targets(i) = {i.true, i.false, i.unknown}
  BY DEF Targets
<1>4. i.op \in {"wait", "emit", "handoff"} => Targets(i) = {i.next} \ {0}
  BY DEF Targets
<1>5. i.op \in {"receive", "read", "write", "copy", "call"} => Targets(i) = {}
  BY DEF Targets
<1>6. i.op \in {"wait", "emit", "handoff"} => i.next \in {0} \union DOMAIN a.code
  BY <1>1, ByOperation
<1>7. i.op = "branch" => {i.true, i.false, i.unknown} \subseteq DOMAIN a.code
  BY <1>1, ByOperation
<1>8. 0 \notin DOMAIN a.code
  BY <1>1
<1>. HIDE DEF i
<1>9. Successors(a, p) = IF i.op = "halt" THEN {}
                         ELSE IF Targets(i) # {} THEN Targets(i) ELSE {p + 1}
  BY DEF Successors, i
<1>10. i.op \in {"wait", "emit", "handoff"} =>
         LET q == IF i.next = 0 THEN p + 1 ELSE i.next
         IN q \in DOMAIN a.code /\ q \in Successors(a, p)
  BY <1>2, <1>4, <1>6, <1>9
<1>11. QED
  BY <1>2, <1>3, <1>5, <1>7, <1>8, <1>9, <1>10 DEF i

(* Which values there are, by their kind.                                  *)
LEMMA ValuesFacts ==
  /\ Empty \in Values
  /\ \A x \in Inputs : <<"events", x>> \in Values /\ <<"value", x>> \in Values
  /\ \A x \in Truth : <<"evidence", x>> \in Values /\ <<"intention", x>> \in Values
  /\ \A v \in Values : /\ v[1] \in {"events", "value"} => v[2] \in Inputs
                       /\ v[1] \in {"evidence", "intention"} => v[2] \in Truth
                       /\ v[1] \in {"empty", "events", "value", "evidence", "intention"}
BY DEF Values, Empty

(* What a CALL computes is a value, and a state for its operator.          *)
LEMMA ResultTyped ==
  ASSUME NEW kind \in OperatorKinds, NEW args \in Seq(Values), WellTyped(kind, args),
         NEW state \in Inputs
  PROVE  Result(kind, args, state) \in Values /\ StateAfter(kind, args, state) \in Inputs
<1>1. CASE kind = "singleton_event_value"
  <2>1. InputKinds(kind) = <<"events">>
    BY <1>1 DEF InputKinds
  <2>2. args[1] \in Values /\ args[1][1] = "events"
    <3>1. Len(args) = 1 /\ \A n \in DOMAIN args : args[n][1] = <<"events">>[n]
      BY <2>1 DEF WellTyped
    <3>2. 1 \in DOMAIN args /\ args[1] \in Values
      BY <3>1
    <3>3. QED
      BY <3>1, <3>2
  <2>3. QED
    BY <1>1, <2>2, ValuesFacts DEF Result, StateAfter
<1>2. CASE kind = "value_delay"
  <2>1. InputKinds(kind) = <<"value">>
    BY <1>2 DEF InputKinds
  <2>2. args[1] \in Values /\ args[1][1] = "value"
    <3>1. Len(args) = 1 /\ \A n \in DOMAIN args : args[n][1] = <<"value">>[n]
      BY <2>1 DEF WellTyped
    <3>2. 1 \in DOMAIN args /\ args[1] \in Values
      BY <3>1
    <3>3. QED
      BY <3>1, <3>2
  <2>3. QED
    BY <1>2, <2>2, ValuesFacts DEF Result, StateAfter
<1>3. CASE kind = "value_equality_evidence"
  <2>1. Equality(args[1][2], args[2][2]) \in Truth
    BY DEF Equality, Truth
  <2>2. QED
    BY <1>3, <2>1, ValuesFacts DEF Result, StateAfter
<1>4. CASE kind = "evidence_binary_intention"
  <2>1. InputKinds(kind) = <<"evidence">>
    BY <1>4 DEF InputKinds
  <2>2. args[1] \in Values /\ args[1][1] = "evidence"
    <3>1. Len(args) = 1 /\ \A n \in DOMAIN args : args[n][1] = <<"evidence">>[n]
      BY <2>1 DEF WellTyped
    <3>2. 1 \in DOMAIN args /\ args[1] \in Values
      BY <3>1
    <3>3. QED
      BY <3>1, <3>2
  <2>3. QED
    BY <1>4, <2>2, ValuesFacts DEF Result, StateAfter
<1>5. QED
  BY <1>1, <1>2, <1>3, <1>4 DEF OperatorKinds

(* How a turn of the loop may end, from the state w.                       *)
Ends(a, w, o) ==
  /\ o.end \in {"on", "wait", "emit", "halt", "raise"}
  /\ o.w \in StatesOf(a)
  /\ o.w = w \/ o.w.ptr \in Successors(a, w.ptr)
  /\ o.end = "on" => a.code[w.ptr].op # "halt"

(* A value stored in a slot leaves the locals typed.                       *)
LEMMA StoreTyped ==
  ASSUME NEW a, NEW w \in StatesOf(a), NEW v \in Values, NEW d \in 1 .. a.slots
  PROVE  [w EXCEPT !.ws[d] = v] \in StatesOf(a) /\ [w EXCEPT !.ws[d] = v].ptr = w.ptr
BY DEF StatesOf

(* An instruction leaves typed locals, and goes to one of its successors.  *)
LEMMA ExecuteTyped ==
  ASSUME NEW a, Valid(a), NEW w \in StatesOf(a), NEW e \in Inputs
  PROVE  Ends(a, w, Execute(a, w, e))
<1>. DEFINE i == a.code[w.ptr]
            o == Execute(a, w, e)
<1>1. w.ptr \in DOMAIN a.code /\ i \in Instructions(a)
  BY CodeTyped DEF StatesOf
<1>2. ASSUME NEW x \in StatesOf(a), x.ptr = w.ptr,
             i.op \in {"receive", "read", "write", "copy", "call"},
             NEW out, out = Outcome("on", Next1(x))
      PROVE  Ends(a, w, out)
  <2>1. w.ptr + 1 \in DOMAIN a.code /\ w.ptr + 1 \in Successors(a, w.ptr)
    BY <1>1, <1>2, GoesOn
  <2>2. Next1(x) \in StatesOf(a) /\ Next1(x).ptr = w.ptr + 1
    BY <1>2, <2>1 DEF Next1, StatesOf
  <2>3. out.end = "on" /\ out.w = Next1(x)
    BY <1>2 DEF Outcome
  <2>4. QED
    BY <1>2, <2>1, <2>2, <2>3 DEF Ends
<1>3. ASSUME NEW q \in DOMAIN a.code, q \in Successors(a, w.ptr), i.op # "halt",
             NEW end \in {"on", "wait", "emit"}, NEW out, out.end = end,
             out.w = [w EXCEPT !.ptr = q]
      PROVE  Ends(a, w, out)
  BY <1>3 DEF Ends, StatesOf
<1>4. Ends(a, w, Raised(w))
  BY DEF Ends, Raised, Outcome
<1>5. CASE i.op = "receive"
  <2>1. i.dst \in 1 .. a.slots /\ <<"events", e>> \in Values
    BY <1>1, <1>5, ByOperation, ValuesFacts
  <2>2. o = Outcome("on", Next1([w EXCEPT !.ws[i.dst] = <<"events", e>>]))
    BY <1>5 DEF Execute
  <2>. DEFINE x == [w EXCEPT !.ws[i.dst] = <<"events", e>>]
  <2>3. x \in StatesOf(a) /\ x.ptr = w.ptr
    BY <2>1, StoreTyped
  <2>. HIDE DEF x, o
  <2>4. QED
    BY <1>2, <1>4, <1>5, <2>2, <2>3 DEF x, o
<1>6. CASE i.op = "read"
  <2>1. w.ws[i.src] \in Values
    BY <1>1, <1>6, ByOperation DEF StatesOf
  <2>2. o = IF w.ws[i.src] = Empty THEN Raised(w)
            ELSE Outcome("on", Next1([w EXCEPT !.acc = w.ws[i.src]]))
    BY <1>6 DEF Execute
  <2>3. [w EXCEPT !.acc = w.ws[i.src]] \in StatesOf(a)
        /\ [w EXCEPT !.acc = w.ws[i.src]].ptr = w.ptr
    BY <2>1 DEF StatesOf
  <2>4. QED
    BY <1>2, <1>4, <1>6, <2>2, <2>3
<1>7. CASE i.op = "write"
  <2>1. i.dst \in 1 .. a.slots /\ w.acc \in Values
    BY <1>1, <1>7, ByOperation DEF StatesOf
  <2>2. o = IF w.acc = Empty THEN Raised(w)
            ELSE Outcome("on", Next1([w EXCEPT !.ws[i.dst] = w.acc]))
    BY <1>7 DEF Execute
  <2>. DEFINE x == [w EXCEPT !.ws[i.dst] = w.acc]
  <2>3. x \in StatesOf(a) /\ x.ptr = w.ptr
    BY <2>1, StoreTyped
  <2>. HIDE DEF x, o
  <2>4. QED
    BY <1>2, <1>4, <1>7, <2>2, <2>3 DEF x, o
<1>8. CASE i.op = "copy"
  <2>1. i.dst \in 1 .. a.slots /\ w.ws[i.src] \in Values
    BY <1>1, <1>8, ByOperation DEF StatesOf
  <2>2. o = IF w.ws[i.src] = Empty THEN Raised(w)
            ELSE Outcome("on", Next1([w EXCEPT !.ws[i.dst] = w.ws[i.src]]))
    BY <1>8 DEF Execute
  <2>. DEFINE v == w.ws[i.src]
              d == i.dst
              x == [w EXCEPT !.ws[d] = v]
  <2>3. x \in StatesOf(a) /\ x.ptr = w.ptr
    <3>. HIDE DEF v, d
    <3>1. v \in Values /\ d \in 1 .. a.slots
      BY <2>1 DEF v, d
    <3>2. QED
      BY <3>1, StoreTyped
  <2>. HIDE DEF x, o
  <2>4. QED
    BY <1>2, <1>4, <1>8, <2>2, <2>3 DEF x, o
<1>9. CASE i.op = "call"
  <2>. DEFINE kind  == a.specs[i.handle]
              args  == [n \in DOMAIN i.args |-> w.ws[i.args[n]]]
              state == w.ops[i.handle]
              value == Result(kind, args, state)
              after == StateAfter(kind, args, state)
              x == [w EXCEPT !.ws[i.dst] = value, !.acc = value, !.ops[i.handle] = after]
  <2>1. /\ i.handle \in Handles(a) /\ i.dst \in 1 .. a.slots
        /\ i.args \in Seq(1 .. a.slots)
    BY <1>1, <1>9, ByOperation
  <2>2. kind \in OperatorKinds /\ state \in Inputs
    BY <2>1 DEF Valid, StatesOf
  <2>3. args \in Seq(Values)
    <3>1. \A n \in DOMAIN i.args : w.ws[i.args[n]] \in Values
      <4>1. \A n \in DOMAIN i.args : i.args[n] \in 1 .. a.slots
        BY <2>1, Elements
      <4>2. w.ws \in [1 .. a.slots -> Values]
        BY DEF StatesOf
      <4>3. QED
        BY <4>1, <4>2
    <3>2. DOMAIN i.args = 1 .. Len(i.args) /\ Len(i.args) \in Nat
      BY <2>1
    <3>3. QED
      BY <3>1, <3>2
  <2>4. o = IF WellTyped(kind, args) THEN Outcome("on", Next1(x)) ELSE Raised(w)
    BY <1>9 DEF Execute, CallOutcome
  <2>5. WellTyped(kind, args) => value \in Values /\ after \in Inputs
    BY <2>2, <2>3, ResultTyped
  <2>. HIDE DEF kind, args, value, after
  <2>6. WellTyped(kind, args) => x \in StatesOf(a) /\ x.ptr = w.ptr
    BY <2>1, <2>5 DEF StatesOf
  <2>. HIDE DEF x
  <2>7. QED
    BY <1>2, <1>4, <1>9, <2>4, <2>6
<1>10. CASE i.op = "branch"
  <2>. DEFINE v == w.ws[i.src]
  <2>1. v \in Values /\ {i.true, i.false, i.unknown} \subseteq DOMAIN a.code
        /\ 0 \notin {i.true, i.false, i.unknown}
        /\ {i.true, i.false, i.unknown} \subseteq Successors(a, w.ptr)
    BY <1>1, <1>10, ByOperation, GoesOn DEF StatesOf
  <2>2. v[1] = "evidence" =>
          v = <<"evidence", "true">> \/ v = <<"evidence", "false">>
            \/ v = <<"evidence", "absent">>
    BY <2>1 DEF Values, Empty, Truth
  <2>3. o = BranchOutcome(i, w)
    BY <1>10 DEF Execute
  <2>. HIDE DEF o
  <2>4. \/ o = Raised(w)
        \/ \E q \in {i.true, i.false, i.unknown} : o = Outcome("on", Goto(w, q))
    <3>1. o = CASE v[1] # "evidence"  -> Raised(w)
                [] v[2] = "true"      -> Outcome("on", Goto(w, i.true))
                [] v[2] = "false"     -> Outcome("on", Goto(w, i.false))
                [] v = <<"evidence", "absent">> -> Outcome("on", Goto(w, i.unknown))
      BY <2>3 DEF BranchOutcome
    <3>. HIDE DEF v, i
    <3>2. QED
      BY <2>2, <3>1
  <2>5. \A q \in {i.true, i.false, i.unknown} :
          LET out == Outcome("on", Goto(w, q))
          IN out.end = "on" /\ out.w = [w EXCEPT !.ptr = q]
    BY <2>1 DEF Outcome, Goto
  <2>6. QED
    BY <1>3, <1>4, <1>10, <2>1, <2>4, <2>5 DEF o
<1>11. ASSUME i.op \in {"wait", "emit", "handoff"},
              NEW end \in {"on", "wait", "emit"}, NEW out, out.end = end,
              out.w = Goto(w, i.next)
       PROVE  Ends(a, w, out)
  <2>. DEFINE q == IF i.next = 0 THEN w.ptr + 1 ELSE i.next
  <2>1. q \in DOMAIN a.code /\ q \in Successors(a, w.ptr)
    BY <1>1, <1>11, GoesOn
  <2>2. Goto(w, i.next) = [w EXCEPT !.ptr = q]
    BY DEF Goto, Next1
  <2>. HIDE DEF q
  <2>3. QED
    BY <1>3, <1>11, <2>1, <2>2
<1>12. CASE i.op \in {"wait", "handoff"}
  <2>1. o = Outcome(IF i.op = "wait" THEN "wait" ELSE "on", Goto(w, i.next))
    BY <1>12 DEF Execute
  <2>2. QED
    BY <1>11, <1>12, <2>1 DEF Outcome
<1>13. CASE i.op = "emit"
  <2>1. o = EmitOutcome(i, w)
    BY <1>13 DEF Execute
  <2>2. o = Raised(w) \/ (o.end = "emit" /\ o.w = Goto(w, i.next))
    <3>. DEFINE v == w.ws[i.src]
                out == [end |-> "emit", w |-> Goto(w, i.next), intention |-> v[2]]
    <3>1. o = IF v[1] = "intention" /\ v[2] # "absent" THEN out ELSE Raised(w)
      BY <2>1 DEF EmitOutcome
    <3>2. out.end = "emit" /\ out.w = Goto(w, i.next)
      OBVIOUS
    <3>. HIDE DEF o, out
    <3>3. QED
      BY <3>1, <3>2
  <2>3. QED
    BY <1>4, <1>11, <1>13, <2>2
<1>14. CASE i.op = "halt"
  <2>1. o = Outcome("halt", w)
    BY <1>14 DEF Execute
  <2>2. QED
    BY <2>1 DEF Outcome, Ends
<1>15. QED
  <2>1. i.op \in {"receive", "read", "write", "copy", "call", "branch", "wait",
                  "handoff", "emit", "halt"}
    BY <1>1, ByOperation
  <2>2. QED
    BY <2>1, <1>5, <1>6, <1>7, <1>8, <1>9, <1>10, <1>12, <1>13, <1>14

(* The converse of ByOperation.                                            *)
LEMMA AnInstruction ==
  ASSUME NEW a, NEW r, r = [f \in DOMAIN r |-> r[f]],
         \/ /\ r.op \in {"receive", "write"} /\ r.dst \in 1 .. a.slots
            /\ DOMAIN r = {"op", "dst"}
         \/ /\ r.op = "read" /\ r.src \in 1 .. a.slots /\ DOMAIN r = {"op", "src"}
         \/ /\ r.op = "copy" /\ r.src \in 1 .. a.slots /\ r.dst \in 1 .. a.slots
            /\ DOMAIN r = {"op", "src", "dst"}
         \/ /\ r.op = "call" /\ r.handle \in Handles(a)
            /\ r.args \in Seq(1 .. a.slots) /\ r.dst \in 1 .. a.slots
            /\ DOMAIN r = {"op", "handle", "args", "dst"}
         \/ /\ r.op = "branch" /\ r.src \in 1 .. a.slots
            /\ {r.true, r.false, r.unknown} \subseteq DOMAIN a.code
            /\ DOMAIN r = {"op", "src", "true", "false", "unknown"}
         \/ /\ r.op = "emit" /\ r.src \in 1 .. a.slots
            /\ r.next \in {0} \union DOMAIN a.code /\ DOMAIN r = {"op", "src", "next"}
         \/ /\ r.op \in {"wait", "handoff"} /\ r.next \in {0} \union DOMAIN a.code
            /\ DOMAIN r = {"op", "next"}
         \/ r.op = "halt" /\ DOMAIN r = {"op"}
  PROVE  r \in Instructions(a)
BY DEF Instructions

HasLargest(H) == H # {} => \E h \in H : \A g \in H : g <= h

(* A component's width is larger than each of its handles.                 *)
LEMMA WidthFacts ==
  ASSUME NEW a, Handles(a) \subseteq Nat, HasLargest(Handles(a))
  PROVE  Width(a) \in Nat /\ \A h \in Handles(a) : h < Width(a)
BY DEF Width, HasLargest

(* A set of natural numbers has a least one.                               *)
LEMMA LeastOf ==
  ASSUME NEW T \in SUBSET Nat, T # {}
  PROVE  \E x \in T : \A y \in T : x <= y
<1>. DEFINE R == OpToRel(<, Nat)
<1>1. \A x, y \in Nat : y < x => <<y, x>> \in R
  BY DEF OpToRel
<1>2. IsWellFoundedOn(R, Nat)
  BY NatLessThanWellFounded
<1>. HIDE DEF R
<1>3. PICK x \in T : \A y \in T : ~ (<<y, x>> \in R)
  BY <1>2, WFMin
<1>4. QED
  <2>1. \A y \in T : ~ (y < x)
    BY <1>1, <1>3, Zenon
  <2>2. QED
    BY <2>1

(* f adds up the first sizes: what Offsets is to be.                       *)
Adds(f, sizes, k) ==
  /\ f[1] = 0
  /\ \A n \in 1 .. k : f[n] \in Nat
  /\ \A n \in 1 .. k - 1 : f[n + 1] = f[n] + sizes[n]

(* Sums of a list of sizes exist.                                          *)
LEMMA SumsExist ==
  ASSUME NEW N \in Nat, NEW sizes, \A n \in 1 .. N : sizes[n] \in Nat
  PROVE  \A k \in 1 .. N + 1 : \E f \in [1 .. k -> Nat] : Adds(f, sizes, k)
<1>. DEFINE Bad == {k \in 1 .. N + 1 : ~ \E f \in [1 .. k -> Nat] : Adds(f, sizes, k)}
<1>1. SUFFICES ASSUME Bad # {} PROVE FALSE
  OBVIOUS
<1>2. PICK k \in Bad : \A y \in Bad : k <= y
  <2>1. Bad \in SUBSET Nat
    OBVIOUS
  <2>. HIDE DEF Bad
  <2>2. QED
    BY <1>1, <2>1, LeastOf
<1>3. k \in 1 .. N + 1 /\ ~ \E f \in [1 .. k -> Nat] : Adds(f, sizes, k)
  BY <1>2
<1>4. CASE k = 1
  <2>. DEFINE f == [n \in 1 .. 1 |-> 0]
  <2>1. f \in [1 .. k -> Nat] /\ Adds(f, sizes, k)
    BY <1>4 DEF Adds
  <2>2. QED
    BY <1>3, <2>1
<1>5. CASE k # 1
  <2>1. k - 1 \in 1 .. N /\ k - 1 \in 1 .. N + 1 /\ ~ (k <= k - 1)
    BY <1>3, <1>5
  <2>2. k - 1 \notin Bad
    BY <1>2, <2>1
  <2>3. PICK g \in [1 .. k - 1 -> Nat] : Adds(g, sizes, k - 1)
    BY <2>1, <2>2
  <2>. HIDE DEF Bad
  <2>. DEFINE f == [n \in 1 .. k |-> IF n = k THEN g[k - 1] + sizes[k - 1] ELSE g[n]]
  <2>4. g[k - 1] \in Nat /\ sizes[k - 1] \in Nat
    BY <2>1, <2>3
  <2>5. f \in [1 .. k -> Nat]
    BY <1>3, <2>4
  <2>6. f[1] = 0 /\ \A n \in 1 .. k : f[n] \in Nat
    BY <1>3, <1>5, <2>3, <2>5 DEF Adds
  <2>7. ASSUME NEW n \in 1 .. k - 1 PROVE f[n + 1] = f[n] + sizes[n]
    <3>1. CASE n = k - 1
      BY <1>3, <2>1, <3>1
    <3>2. CASE n # k - 1
      <4>1. n \in 1 .. (k - 1) - 1 /\ n + 1 \in 1 .. k - 1 /\ n \in 1 .. k - 1
        BY <1>3, <2>1, <3>2
      <4>2. g[n + 1] = g[n] + sizes[n]
        BY <2>3, <4>1 DEF Adds
      <4>3. f[n] = g[n] /\ f[n + 1] = g[n + 1]
        BY <1>3, <4>1
      <4>4. QED
        BY <4>2, <4>3
    <3>3. QED
      BY <3>1, <3>2
  <2>8. QED
    BY <1>3, <2>5, <2>6, <2>7 DEF Adds
<1>6. QED
  BY <1>4, <1>5

(* Offsets adds up the sizes ahead.                                        *)
LEMMA OffsetsAdd ==
  ASSUME NEW N \in Nat, NEW sizes, Len(sizes) = N, \A n \in 1 .. N : sizes[n] \in Nat
  PROVE  Adds(Offsets(sizes), sizes, N + 1)
<1>. DEFINE D == 1 .. N + 1
            step(f) == [n \in D |-> IF n = 1 THEN 0 ELSE f[n - 1] + sizes[n - 1]]
            F == Offsets(sizes)
<1>1. F = CHOOSE f : f = step(f)
  BY DEF Offsets
<1>2. PICK f \in [D -> Nat] : Adds(f, sizes, N + 1)
  <2>1. N + 1 \in 1 .. N + 1
    OBVIOUS
  <2>2. QED
    BY <2>1, SumsExist
<1>3. f = step(f)
  <2>1. ASSUME NEW n \in D PROVE f[n] = step(f)[n]
    <3>1. CASE n = 1
      BY <1>2, <3>1 DEF Adds
    <3>2. CASE n # 1
      <4>1. n - 1 \in 1 .. N /\ n = (n - 1) + 1
        BY <3>2
      <4>2. f[n] = f[n - 1] + sizes[n - 1]
        BY <1>2, <4>1 DEF Adds
      <4>3. QED
        BY <3>2, <4>2
    <3>3. QED
      BY <3>1, <3>2
  <2>2. QED
    BY <2>1
<1>. HIDE DEF step, F
<1>4. F = step(F)
  BY <1>1, <1>3
<1>5. \A n \in D : F[n] = IF n = 1 THEN 0 ELSE F[n - 1] + sizes[n - 1]
  BY <1>4 DEF step
<1>. HIDE DEF D
<1>6. F[1] = 0
  BY <1>5 DEF D
<1>7. ASSUME NEW n \in 1 .. N PROVE F[n + 1] = F[n] + sizes[n]
  BY <1>5, <1>7 DEF D
<1>8. \A n \in 1 .. N + 1 : F[n] \in Nat
  <2>. DEFINE Bad == {n \in 1 .. N + 1 : F[n] \notin Nat}
  <2>1. SUFFICES ASSUME Bad # {} PROVE FALSE
    OBVIOUS
  <2>2. PICK k \in Bad : \A y \in Bad : k <= y
    <3>1. Bad \in SUBSET Nat
      OBVIOUS
    <3>. HIDE DEF Bad
    <3>2. QED
      BY <2>1, <3>1, LeastOf
  <2>3. k # 1
    BY <1>6, <2>2
  <2>4. k - 1 \in 1 .. N /\ k = (k - 1) + 1 /\ ~ (k <= k - 1)
    BY <2>2, <2>3
  <2>5. F[k - 1] \in Nat
    BY <2>2, <2>4
  <2>6. QED
    BY <1>7, <2>2, <2>4, <2>5
<1>9. QED
  BY <1>6, <1>7, <1>8 DEF Adds, F

(* Sums of natural numbers do not fall.                                    *)
LEMMA SumsGrow ==
  ASSUME NEW k \in Nat, NEW f, NEW sizes, Adds(f, sizes, k),
         \A n \in 1 .. k - 1 : sizes[n] \in Nat,
         NEW m \in 1 .. k, NEW n \in 1 .. k, m <= n
  PROVE  f[m] <= f[n]
<1>. DEFINE Bad == {x \in m .. k : ~ (f[m] <= f[x])}
<1>1. SUFFICES ASSUME Bad # {} PROVE FALSE
  OBVIOUS
<1>2. PICK x \in Bad : \A y \in Bad : x <= y
  <2>1. Bad \in SUBSET Nat
    OBVIOUS
  <2>. HIDE DEF Bad
  <2>2. QED
    BY <1>1, <2>1, LeastOf
<1>3. f[m] \in Nat
  BY DEF Adds
<1>4. x # m
  BY <1>2, <1>3
<1>5. x - 1 \in m .. k /\ x - 1 \in 1 .. k - 1 /\ x = (x - 1) + 1 /\ ~ (x <= x - 1)
  BY <1>2, <1>4
<1>6. f[m] <= f[x - 1]
  BY <1>2, <1>5
<1>7. f[x] = f[x - 1] + sizes[x - 1] /\ f[x - 1] \in Nat /\ sizes[x - 1] \in Nat
  BY <1>5 DEF Adds
<1>8. f[m] <= f[x]
  BY <1>3, <1>6, <1>7
<1>9. QED
  BY <1>2, <1>8

(* Artifacts that Compose may be given, one or more.                       *)
Listed(ps) ==
  /\ Len(ps) \in Nat \ {0} /\ DOMAIN ps = 1 .. Len(ps)
  /\ \A n \in DOMAIN ps : Valid(ps[n]) /\ HasLargest(Handles(ps[n]))

Offset(ps, n) == ProgramOffsets(ps)[n]

Hands(ps, n) == n < Len(ps)

(* The pointers of the n-th component that it has in the composition: all  *)
(* but the terminal of one that is not the last.                           *)
Body(ps, n) ==
  {p \in DOMAIN ps[n].code : Hands(ps, n) => p # Terminal(ps[n])}

(* A list made of another one's members is as long.                        *)
LEMMA LengthOf ==
  ASSUME NEW N \in Nat, NEW f, f = [n \in 1 .. N |-> f[n]]
  PROVE  Len(f) = N
<1>. DEFINE S == {f[n] : n \in 1 .. N}
<1>1. \A n \in 1 .. N : f[n] \in S
  OBVIOUS
<1>. HIDE DEF S
<1>2. f \in [1 .. N -> S]
  BY <1>1
<1>3. QED
  BY <1>2

(* The offsets of a list's components: where their instructions, slots and *)
(* handles start.                                                          *)
LEMMA OffsetFacts ==
  ASSUME NEW ps, Listed(ps)
  PROVE  /\ Adds(ProgramOffsets(ps), [n \in DOMAIN ps |-> Terminal(ps[n]) - 1], Len(ps) + 1)
         /\ Adds(SlotOffsets(ps), [n \in DOMAIN ps |-> ps[n].slots], Len(ps) + 1)
         /\ Adds(HandleOffsets(ps), [n \in DOMAIN ps |-> Width(ps[n])], Len(ps) + 1)
<1>1. Len(ps) \in Nat /\ DOMAIN ps = 1 .. Len(ps)
  BY DEF Listed
<1>2. \A n \in DOMAIN ps : /\ Terminal(ps[n]) - 1 \in Nat
                           /\ ps[n].slots \in Nat /\ Width(ps[n]) \in Nat
  <2>1. TAKE n \in DOMAIN ps
  <2>2. Valid(ps[n]) /\ HasLargest(Handles(ps[n]))
    BY DEF Listed
  <2>3. Terminal(ps[n]) \in Nat \ {0}
    BY <2>2, CodeTyped
  <2>4. ps[n].slots \in Nat /\ Width(ps[n]) \in Nat
    BY <2>2, WidthFacts DEF Valid
  <2>5. QED
    BY <2>3, <2>4
<1>3. ASSUME NEW g, g = [n \in DOMAIN ps |-> g[n]], \A n \in DOMAIN ps : g[n] \in Nat
      PROVE  Adds(Offsets(g), g, Len(ps) + 1)
  <2>1. Len(g) = Len(ps)
    BY <1>1, <1>3, LengthOf
  <2>2. QED
    BY <1>1, <1>3, <2>1, OffsetsAdd
<1>. DEFINE b == [n \in DOMAIN ps |-> Terminal(ps[n]) - 1]
            s == [n \in DOMAIN ps |-> ps[n].slots]
            w == [n \in DOMAIN ps |-> Width(ps[n])]
<1>4. /\ b = [n \in DOMAIN ps |-> b[n]] /\ \A n \in DOMAIN ps : b[n] \in Nat
      /\ s = [n \in DOMAIN ps |-> s[n]] /\ \A n \in DOMAIN ps : s[n] \in Nat
      /\ w = [n \in DOMAIN ps |-> w[n]] /\ \A n \in DOMAIN ps : w[n] \in Nat
  BY <1>2
<1>. HIDE DEF b, s, w
<1>5. Adds(Offsets(b), b, Len(ps) + 1)
  BY <1>3, <1>4
<1>6. Adds(Offsets(s), s, Len(ps) + 1)
  BY <1>3, <1>4
<1>7. Adds(Offsets(w), w, Len(ps) + 1)
  BY <1>3, <1>4
<1>8. QED
  BY <1>5, <1>6, <1>7 DEF ProgramOffsets, SlotOffsets, HandleOffsets, b, s, w

(* Where a component's code starts, and where the next one's does.         *)
Placed(ps) ==
  /\ Offset(ps, 1) = 0 /\ 1 \in DOMAIN ps
  /\ \A n \in DOMAIN ps :
       /\ Offset(ps, n) \in Nat /\ Terminal(ps[n]) \in Nat \ {0} /\ n \in Nat
       /\ DOMAIN ps[n].code = 1 .. Terminal(ps[n])
       /\ Hands(ps, n) =>
            /\ n + 1 \in DOMAIN ps
            /\ Offset(ps, n + 1) = Offset(ps, n) + Terminal(ps[n]) - 1
  /\ \A m, n \in DOMAIN ps :
       m < n => /\ m + 1 \in DOMAIN ps /\ Hands(ps, m)
                /\ Offset(ps, m + 1) <= Offset(ps, n)
  /\ Len(ps) \in DOMAIN ps /\ \A n \in DOMAIN ps : Hands(ps, n) <=> n # Len(ps)

LEMMA PlaceFacts ==
  ASSUME NEW ps, Listed(ps)
  PROVE  Placed(ps)
<1>. DEFINE off == [n \in DOMAIN ps |-> Offset(ps, n)]
            g == [n \in DOMAIN ps |-> Terminal(ps[n]) - 1]
            f == ProgramOffsets(ps)
            N == Len(ps)
<1>1. N \in Nat \ {0} /\ DOMAIN ps = 1 .. N
  BY DEF Listed
<1>2. Adds(f, g, N + 1)
  BY OffsetFacts
<1>3. \A n \in DOMAIN ps : /\ Terminal(ps[n]) \in Nat \ {0}
                           /\ DOMAIN ps[n].code = 1 .. Terminal(ps[n])
  BY CodeTyped DEF Listed
<1>4. \A n \in 1 .. N : g[n] = Terminal(ps[n]) - 1 /\ off[n] = f[n]
  BY <1>1 DEF Offset
<1>5. \A n \in DOMAIN ps : Hands(ps, n) <=> n < N
  BY DEF Hands
<1>. HIDE DEF g, f, N, off
<1>6. f[1] = 0 /\ (\A n \in 1 .. N : f[n] \in Nat) /\ \A n \in 1 .. N : f[n + 1] = f[n] + g[n]
  BY <1>1, <1>2 DEF Adds
<1>7. \A n \in 1 .. N : g[n] \in Nat
  BY <1>1, <1>3, <1>4
<1>8. \A m, n \in 1 .. N + 1 : m <= n => f[m] <= f[n]
  BY <1>1, <1>2, <1>7, SumsGrow
<1>9. \A n \in DOMAIN ps : n < N => n + 1 \in DOMAIN ps /\ off[n + 1] = off[n] + Terminal(ps[n]) - 1
  BY <1>1, <1>3, <1>4, <1>6
<1>10. \A m, n \in DOMAIN ps : m < n => m + 1 \in DOMAIN ps /\ off[m + 1] <= off[n] /\ m < N
  BY <1>1, <1>4, <1>8
<1>11. /\ off[1] = 0 /\ N \in DOMAIN ps /\ 1 \in DOMAIN ps
       /\ \A n \in DOMAIN ps : off[n] \in Nat /\ n \in Nat /\ (n < N <=> n # N)
  BY <1>1, <1>4, <1>6
<1>12. \A n \in DOMAIN ps : off[n] = Offset(ps, n)
  BY DEF off
<1>13. \A n \in DOMAIN ps :
         /\ Offset(ps, n) \in Nat /\ Terminal(ps[n]) \in Nat \ {0} /\ n \in Nat
         /\ DOMAIN ps[n].code = 1 .. Terminal(ps[n])
  BY <1>3, <1>11, <1>12
<1>14. \A n \in DOMAIN ps : Hands(ps, n) =>
         /\ n + 1 \in DOMAIN ps
         /\ Offset(ps, n + 1) = Offset(ps, n) + Terminal(ps[n]) - 1
  BY <1>5, <1>9, <1>12
<1>15. \A m, n \in DOMAIN ps :
         m < n => /\ m + 1 \in DOMAIN ps /\ Hands(ps, m)
                  /\ Offset(ps, m + 1) <= Offset(ps, n)
  BY <1>5, <1>10, <1>12
<1>16. /\ Offset(ps, 1) = 0 /\ 1 \in DOMAIN ps /\ Len(ps) \in DOMAIN ps
       /\ \A n \in DOMAIN ps : Hands(ps, n) <=> n # Len(ps)
  BY <1>5, <1>11, <1>12 DEF N
<1>17. QED
  BY <1>13, <1>14, <1>15, <1>16 DEF Placed

(* An instruction's component, by its pointer in the composition.          *)
LEMMA PartOf ==
  ASSUME NEW ps, Listed(ps), NEW n \in DOMAIN ps, NEW p \in Body(ps, n)
  PROVE  PartAt(ps, p + Offset(ps, n)) = n
<1>. DEFINE q == p + Offset(ps, n)
            In(m) == Offset(ps, m) < q /\ (m < Len(ps) => q <= Offset(ps, m + 1))
<1>1. Placed(ps)
  BY PlaceFacts
<1>2. /\ p \in 1 .. Terminal(ps[n]) /\ (Hands(ps, n) => p # Terminal(ps[n]))
      /\ Offset(ps, n) \in Nat /\ Terminal(ps[n]) \in Nat
  BY <1>1 DEF Placed, Body
<1>3. q \in Nat /\ Offset(ps, n) < q
  BY <1>2
<1>4. ASSUME Hands(ps, n) PROVE q <= Offset(ps, n + 1)
  <2>1. Offset(ps, n + 1) = Offset(ps, n) + Terminal(ps[n]) - 1
    BY <1>1, <1>4 DEF Placed
  <2>2. QED
    BY <1>2, <1>4, <2>1
<1>5. In(n)
  BY <1>3, <1>4 DEF Hands
<1>6. ASSUME NEW m \in DOMAIN ps, In(m), m # n PROVE FALSE
  <2>1. m \in Nat /\ n \in Nat /\ Offset(ps, m) \in Nat
    BY <1>1 DEF Placed
  <2>2. CASE m < n
    <3>1. Hands(ps, m) /\ Offset(ps, m + 1) <= Offset(ps, n) /\ m + 1 \in DOMAIN ps
      BY <1>1, <2>2 DEF Placed
    <3>2. q <= Offset(ps, m + 1) /\ Offset(ps, m + 1) \in Nat
      BY <1>1, <1>6, <3>1 DEF Hands, Placed
    <3>. HIDE DEF q
    <3>3. QED
      BY <1>2, <1>3, <3>1, <3>2
  <2>3. CASE n < m
    <3>1. Hands(ps, n) /\ Offset(ps, n + 1) <= Offset(ps, m) /\ n + 1 \in DOMAIN ps
      BY <1>1, <2>3 DEF Placed
    <3>2. q <= Offset(ps, n + 1) /\ Offset(ps, m) < q /\ Offset(ps, n + 1) \in Nat
      BY <1>1, <1>4, <1>6, <3>1 DEF Placed
    <3>. HIDE DEF q
    <3>3. QED
      BY <1>2, <1>3, <2>1, <3>1, <3>2
  <2>4. QED
    BY <1>6, <2>1, <2>2, <2>3
<1>7. PartAt(ps, q) = CHOOSE m \in DOMAIN ps : In(m)
  BY DEF PartAt, Offset
<1>. HIDE DEF In, q
<1>8. PartAt(ps, q) = n
  BY <1>5, <1>6, <1>7
<1>9. QED
  BY <1>8 DEF q

Total(ps) == Offset(ps, Len(ps)) + Terminal(ps[Len(ps)])

(* The components cover the program, and no more.                          *)
LEMMA BodiesCover ==
  ASSUME NEW ps, Listed(ps)
  PROVE  /\ Total(ps) \in Nat \ {0}
         /\ \A n \in DOMAIN ps : \A p \in DOMAIN ps[n].code :
              p \in Nat /\ p + Offset(ps, n) \in 1 .. Total(ps)
         /\ \A q \in 1 .. Total(ps) :
              \E n \in DOMAIN ps : \E p \in Body(ps, n) : q = p + Offset(ps, n)
<1>. DEFINE L == Len(ps)
            T == Total(ps)
<1>1. Placed(ps)
  BY PlaceFacts
<1>2. /\ L \in DOMAIN ps /\ Offset(ps, L) \in Nat /\ Terminal(ps[L]) \in Nat \ {0}
      /\ T = Offset(ps, L) + Terminal(ps[L]) /\ T \in Nat \ {0}
      /\ \A n \in DOMAIN ps : Hands(ps, n) <=> n # L
  <2>1. L \in DOMAIN ps /\ T = Offset(ps, L) + Terminal(ps[L])
        /\ \A n \in DOMAIN ps : Hands(ps, n) <=> n # L
    BY <1>1 DEF Placed, Total
  <2>2. Offset(ps, L) \in Nat /\ Terminal(ps[L]) \in Nat \ {0}
    BY <1>1, <2>1 DEF Placed
  <2>. HIDE DEF L, T
  <2>3. QED
    BY <2>1, <2>2
<1>. HIDE DEF L, T
<1>3. ASSUME NEW n \in DOMAIN ps, NEW p \in DOMAIN ps[n].code
      PROVE  p \in Nat /\ p + Offset(ps, n) \in 1 .. T
  <2>1. p \in 1 .. Terminal(ps[n]) /\ Offset(ps, n) \in Nat /\ Terminal(ps[n]) \in Nat
    BY <1>1 DEF Placed
  <2>2. CASE n = L
    BY <1>2, <2>1, <2>2
  <2>3. CASE n # L
    <3>1. n + 1 \in DOMAIN ps /\ Offset(ps, n + 1) = Offset(ps, n) + Terminal(ps[n]) - 1
      BY <1>1, <1>2, <2>3 DEF Placed
    <3>2. n + 1 = L \/ n + 1 < L
      BY <1>1, <1>2, <2>3 DEF Hands, L, Placed
    <3>3. Offset(ps, n + 1) <= Offset(ps, L)
      <4>1. CASE n + 1 = L
        BY <1>2, <4>1
      <4>2. CASE n + 1 < L
        <5>1. /\ Offset(ps, (n + 1) + 1) <= Offset(ps, L) /\ (n + 1) + 1 \in DOMAIN ps
              /\ Hands(ps, n + 1)
          BY <1>1, <1>2, <3>1, <4>2 DEF Placed
        <5>2. /\ Offset(ps, (n + 1) + 1) = Offset(ps, n + 1) + Terminal(ps[n + 1]) - 1
              /\ Offset(ps, n + 1) \in Nat /\ Terminal(ps[n + 1]) \in Nat \ {0}
          BY <1>1, <3>1, <5>1 DEF Placed
        <5>3. QED
          BY <1>2, <5>1, <5>2
      <4>3. QED
        BY <3>2, <4>1, <4>2
    <3>4. QED
      BY <1>2, <2>1, <3>1, <3>3
  <2>4. QED
    BY <2>2, <2>3
<1>4. ASSUME NEW q \in 1 .. T
      PROVE  \E n \in DOMAIN ps : \E p \in Body(ps, n) : q = p + Offset(ps, n)
  <2>. DEFINE After == {n \in DOMAIN ps : Hands(ps, n) => q <= Offset(ps, n + 1)}
  <2>1. L \in After
    BY <1>2
  <2>2. PICK n \in After : \A m \in After : n <= m
    <3>1. After \in SUBSET Nat
      BY <1>1 DEF Placed
    <3>. HIDE DEF After
    <3>2. QED
      BY <2>1, <3>1, LeastOf
  <2>3. /\ n \in DOMAIN ps /\ n \in Nat /\ Offset(ps, n) \in Nat
        /\ Terminal(ps[n]) \in Nat \ {0} /\ DOMAIN ps[n].code = 1 .. Terminal(ps[n])
        /\ (Hands(ps, n) => q <= Offset(ps, n + 1))
    BY <1>1 DEF Placed
  <2>4. Offset(ps, n) < q
    <3>1. CASE n = 1
      BY <1>1, <3>1 DEF Placed
    <3>2. CASE n # 1
      <4>. DEFINE m == n - 1
      <4>1. m \in DOMAIN ps /\ m < n /\ m + 1 = n
        BY <2>3, <3>2 DEF Listed
      <4>. HIDE DEF m
      <4>2. m \notin After
        BY <1>1, <2>2, <2>3, <4>1 DEF Placed
      <4>3. ~ (q <= Offset(ps, n))
        BY <4>1, <4>2
      <4>4. QED
        BY <1>2, <2>3, <4>3
    <3>3. QED
      BY <3>1, <3>2
  <2>. DEFINE p == q - Offset(ps, n)
  <2>5. q = p + Offset(ps, n)
    BY <1>2, <2>3
  <2>6. p \in Body(ps, n)
    <3>1. CASE Hands(ps, n)
      <4>1. Offset(ps, n + 1) = Offset(ps, n) + Terminal(ps[n]) - 1
        BY <1>1, <2>3, <3>1 DEF Placed
      <4>2. p \in 1 .. Terminal(ps[n]) /\ p # Terminal(ps[n])
        BY <1>2, <2>3, <2>4, <3>1, <4>1
      <4>. HIDE DEF p
      <4>3. QED
        BY <2>3, <4>2 DEF Body
    <3>2. CASE ~ Hands(ps, n)
      <4>1. n = L
        BY <1>2, <2>3, <3>2
      <4>2. p \in 1 .. Terminal(ps[n])
        BY <1>2, <2>3, <2>4, <4>1
      <4>. HIDE DEF p
      <4>3. QED
        BY <2>3, <3>2, <4>2 DEF Body
    <3>3. QED
      BY <3>1, <3>2
  <2>. HIDE DEF p
  <2>7. QED
    BY <2>3, <2>5, <2>6
<1>5. QED
  BY <1>2, <1>3, <1>4 DEF T

(* c runs the code of its components, but for their terminals, one after   *)
(* the other.                                                              *)
Joins(c, ps, sh, si) ==
  /\ c.slots = SlotOffsets(ps)[Len(ps) + 1]
  /\ c.code \in Seq({c.code[p] : p \in DOMAIN c.code})
  /\ Len(c.code) = Total(ps) /\ DOMAIN c.code = 1 .. Total(ps)
  /\ \A n \in DOMAIN ps : \A p \in Body(ps, n) :
       c.code[p + Offset(ps, n)]
         = Muted(si /\ Hands(ps, n), Relocated(ps, sh, n, ps[n].code[p]))

(* Composition, without its local definitions.                             *)
LEMMA ComposeJoins ==
  ASSUME NEW ps, Listed(ps), NEW sh, NEW si
  PROVE  Joins(Compose(ps, sh, si), ps, sh, si)
<1>. DEFINE c == Compose(ps, sh, si)
            at(q) == PartAt(ps, q)
            f(q) == Muted(si /\ at(q) < Len(ps),
                          Relocated(ps, sh, at(q), ps[at(q)].code[q - ProgramOffsets(ps)[at(q)]]))
            T == Total(ps)
<1>1. c.code = [q \in 1 .. T |-> f(q)] /\ c.slots = SlotOffsets(ps)[Len(ps) + 1]
  BY DEF Compose, Total, Offset
<1>2. T \in Nat \ {0}
  BY BodiesCover
<1>3. ASSUME NEW n \in DOMAIN ps, NEW p \in Body(ps, n)
      PROVE  /\ p + Offset(ps, n) \in 1 .. T
             /\ f(p + Offset(ps, n))
                  = Muted(si /\ Hands(ps, n), Relocated(ps, sh, n, ps[n].code[p]))
  <2>. DEFINE q == p + Offset(ps, n)
  <2>1. at(q) = n
    BY PartOf
  <2>2. q - Offset(ps, n) = p
    <3>1. p \in Nat /\ Offset(ps, n) \in Nat
      BY BodiesCover, PlaceFacts DEF Body, Placed
    <3>2. QED
      BY <3>1
  <2>3. q \in 1 .. T
    BY BodiesCover DEF Body
  <2>. HIDE DEF q, at
  <2>4. f(q) = Muted(si /\ n < Len(ps), Relocated(ps, sh, n, ps[n].code[p]))
    BY <2>1, <2>2 DEF Offset
  <2>5. QED
    BY <2>3, <2>4 DEF Hands, q
<1>. HIDE DEF c, f, T
<1>4. DOMAIN c.code = 1 .. T /\ \A q \in 1 .. T : c.code[q] = f(q)
  BY <1>1
<1>5. c.code = [q \in 1 .. T |-> c.code[q]]
  BY <1>1
<1>6. Len(c.code) = T
  BY <1>2, <1>5, LengthOf
<1>7. c.code \in Seq({c.code[q] : q \in DOMAIN c.code})
  <2>. DEFINE S == {c.code[q] : q \in DOMAIN c.code}
  <2>1. \A q \in 1 .. T : c.code[q] \in S
    BY <1>4
  <2>. HIDE DEF S
  <2>2. c.code \in [1 .. T -> S]
    BY <1>5, <2>1
  <2>3. c.code \in Seq(S)
    BY <1>2, <2>2
  <2>4. QED
    BY <2>3 DEF S
<1>8. QED
  BY <1>1, <1>3, <1>4, <1>6, <1>7 DEF Joins, T, c

(* The operators of a list's components.                                   *)
LEMMA OwnersOf ==
  ASSUME NEW ps
  PROVE  \A o : o \in Owners(ps) <=>
                  \E n \in DOMAIN ps : \E h \in Handles(ps[n]) : o = <<n, h>>
BY DEF Owners

(* What of an operator its kind and its component's width say.             *)
LEMMA OwnerTyped ==
  ASSUME NEW ps, Listed(ps), NEW n \in DOMAIN ps, NEW h \in Handles(ps[n])
  PROVE  /\ n \in Nat /\ h \in Nat /\ ps[n].specs[h] \in OperatorKinds
         /\ HandleOffsets(ps)[n] \in Nat /\ h < Width(ps[n]) /\ Width(ps[n]) \in Nat
<1>1. Valid(ps[n]) /\ HasLargest(Handles(ps[n]))
  BY DEF Listed
<1>2. h \in Nat /\ ps[n].specs[h] \in OperatorKinds
  BY <1>1 DEF Valid
<1>3. h < Width(ps[n]) /\ Width(ps[n]) \in Nat
  BY <1>1, WidthFacts DEF Valid
<1>4. n \in Nat /\ n \in 1 .. Len(ps) + 1
  BY DEF Listed
<1>5. HandleOffsets(ps)[n] \in Nat
  BY <1>4, OffsetFacts DEF Adds
<1>6. QED
  BY <1>2, <1>3, <1>4, <1>5

(* What a handle of a component becomes is a natural number.               *)
LEMMA HandleTyped ==
  ASSUME NEW ps, Listed(ps), NEW sh, NEW n \in DOMAIN ps, NEW h \in Handles(ps[n])
  PROVE  HandleMap(ps, sh, n, h) \in Nat
<1>1. CASE sh
  <2>1. \A o \in Owners(ps) : ps[o[1]].specs[o[2]] \in OperatorKinds
    BY OwnersOf, OwnerTyped
  <2>2. Kinds(ps) \subseteq OperatorKinds
    BY <2>1 DEF Kinds
  <2>. DEFINE F == {k \in Kinds(ps) : FirstBefore(ps, k, ps[n].specs[h])}
  <2>3. IsFiniteSet(OperatorKinds)
    <3>1. OperatorKinds = ((({} \union {"singleton_event_value"}) \union {"value_delay"})
                            \union {"value_equality_evidence"})
                            \union {"evidence_binary_intention"}
      BY DEF OperatorKinds
    <3>2. QED
      BY <3>1, FS_EmptySet, FS_AddElement
  <2>4. IsFiniteSet(F)
    BY <2>2, <2>3, FS_Subset
  <2>5. Cardinality(F) \in Nat
    BY <2>4, FS_CardinalityType
  <2>6. QED
    BY <1>1, <2>5 DEF HandleMap
<1>2. CASE ~ sh
  <2>1. h \in Nat /\ HandleOffsets(ps)[n] \in Nat
    BY OwnerTyped
  <2>2. HandleMap(ps, sh, n, h) = h + HandleOffsets(ps)[n]
    BY <1>2 DEF HandleMap
  <2>3. QED
    BY <2>1, <2>2
<1>3. QED
  BY <1>1, <1>2

(* Unless they are shared, no two operators have one handle: each          *)
(* component's handles lie between its offset and the next one's.          *)
LEMMA HandlesApart ==
  ASSUME NEW ps, Listed(ps), NEW sh, ~ sh,
         NEW n \in DOMAIN ps, NEW h \in Handles(ps[n]),
         NEW m \in DOMAIN ps, NEW g \in Handles(ps[m]),
         HandleMap(ps, sh, n, h) = HandleMap(ps, sh, m, g)
  PROVE  n = m /\ h = g
<1>. DEFINE f == HandleOffsets(ps)
            w == [k \in DOMAIN ps |-> Width(ps[k])]
            N == Len(ps)
<1>1. N \in Nat \ {0} /\ DOMAIN ps = 1 .. N
  BY DEF Listed
<1>2. Adds(f, w, N + 1)
  BY OffsetFacts
<1>3. \A k \in 1 .. N : w[k] = Width(ps[k]) /\ w[k] \in Nat
  <2>1. \A k \in 1 .. N : Width(ps[k]) \in Nat
    BY <1>1, WidthFacts DEF Listed, Valid
  <2>2. QED
    BY <1>1, <2>1
<1>4. h + f[n] = g + f[m]
  BY DEF HandleMap
<1>5. /\ n \in 1 .. N /\ m \in 1 .. N /\ h \in Nat /\ g \in Nat
      /\ h < w[n] /\ g < w[m]
  BY <1>1, <1>3, OwnerTyped
<1>. HIDE DEF f, w, N
<1>6. (\A k \in 1 .. N + 1 : f[k] \in Nat) /\ \A k \in 1 .. N : f[k + 1] = f[k] + w[k]
  BY <1>1, <1>2 DEF Adds
<1>7. \A j, k \in 1 .. N + 1 : j <= k => f[j] <= f[k]
  BY <1>1, <1>2, <1>3, SumsGrow
<1>8. f[n] \in Nat /\ w[n] \in Nat /\ f[n + 1] = f[n] + w[n]
  BY <1>1, <1>3, <1>5, <1>6
<1>13. f[m] \in Nat /\ w[m] \in Nat /\ f[m + 1] = f[m] + w[m]
  BY <1>1, <1>3, <1>5, <1>6
<1>9. CASE n < m
  <2>1. f[n + 1] <= f[m]
    BY <1>1, <1>5, <1>7, <1>9
  <2>2. QED
    BY <1>4, <1>5, <1>8, <1>13, <2>1
<1>10. CASE m < n
  <2>1. f[m + 1] <= f[n]
    BY <1>1, <1>5, <1>7, <1>10
  <2>2. QED
    BY <1>4, <1>5, <1>8, <1>13, <2>1
<1>11. CASE n = m
  BY <1>4, <1>5, <1>8, <1>13, <1>11
<1>12. QED
  BY <1>1, <1>5, <1>9, <1>10, <1>11

(* The components' slots lie apart in the composition, and are all of it.  *)
SlotsLie(ps, c) ==
  /\ \A n \in DOMAIN ps : \A s \in 1 .. ps[n].slots : SlotOf(ps, n, s) \in 1 .. c.slots
  /\ \A n, m \in DOMAIN ps : \A s \in 1 .. ps[n].slots, t \in 1 .. ps[m].slots :
       SlotOf(ps, n, s) = SlotOf(ps, m, t) => n = m /\ s = t

LEMMA SlotsApart ==
  ASSUME NEW ps, Listed(ps), NEW c, c.slots = SlotOffsets(ps)[Len(ps) + 1]
  PROVE  SlotsLie(ps, c) /\ c.slots \in Nat \ {0}
<1>. DEFINE f == SlotOffsets(ps)
            w == [k \in DOMAIN ps |-> ps[k].slots]
            N == Len(ps)
<1>1. N \in Nat \ {0} /\ DOMAIN ps = 1 .. N
  BY DEF Listed
<1>2. Adds(f, w, N + 1)
  BY OffsetFacts
<1>3. \A k \in 1 .. N : w[k] = ps[k].slots /\ w[k] \in Nat \ {0}
  BY <1>1 DEF Listed, Valid
<1>4. \A n, s : SlotOf(ps, n, s) = s + f[n]
  BY DEF SlotOf
<1>5. c.slots = f[N + 1]
  OBVIOUS
<1>. HIDE DEF f, w, N
<1>6. (\A k \in 1 .. N + 1 : f[k] \in Nat) /\ f[1] = 0
      /\ \A k \in 1 .. N : f[k + 1] = f[k] + w[k]
  BY <1>1, <1>2 DEF Adds
<1>7. \A j, k \in 1 .. N + 1 : j <= k => f[j] <= f[k]
  <2>1. \A k \in 1 .. (N + 1) - 1 : w[k] \in Nat
    BY <1>1, <1>3
  <2>2. QED
    BY <1>1, <1>2, <2>1, SumsGrow
<1>8. c.slots \in Nat \ {0}
  <2>1. f[1 + 1] = 0 + w[1] /\ w[1] \in Nat \ {0} /\ 1 + 1 \in 1 .. N + 1 /\ f[1 + 1] <= f[N + 1]
    BY <1>1, <1>3, <1>6, <1>7
  <2>2. f[N + 1] \in Nat
    BY <1>1, <1>6
  <2>3. QED
    BY <1>5, <2>1, <2>2
<1>9. ASSUME NEW n \in 1 .. N, NEW s \in 1 .. ps[n].slots
      PROVE  SlotOf(ps, n, s) \in 1 .. c.slots
  <2>1. /\ s \in 1 .. w[n] /\ w[n] \in Nat /\ f[n] \in Nat
        /\ f[n + 1] = f[n] + w[n] /\ f[n + 1] <= f[N + 1] /\ f[N + 1] \in Nat
    BY <1>1, <1>3, <1>6, <1>7
  <2>2. s + f[n] \in 1 .. f[N + 1]
    BY <2>1
  <2>3. QED
    BY <1>4, <1>5, <2>2
<1>10. ASSUME NEW n \in 1 .. N, NEW m \in 1 .. N,
              NEW s \in 1 .. ps[n].slots, NEW t \in 1 .. ps[m].slots,
              SlotOf(ps, n, s) = SlotOf(ps, m, t)
       PROVE  n = m /\ s = t
  <2>1. /\ s \in 1 .. w[n] /\ t \in 1 .. w[m] /\ w[n] \in Nat /\ w[m] \in Nat
        /\ f[n] \in Nat /\ f[m] \in Nat
        /\ f[n + 1] = f[n] + w[n] /\ f[m + 1] = f[m] + w[m]
    <3>1. s \in 1 .. w[n] /\ t \in 1 .. w[m] /\ w[n] \in Nat /\ w[m] \in Nat
      BY <1>3
    <3>2. n \in 1 .. N + 1 /\ m \in 1 .. N + 1
      BY <1>1
    <3>3. f[n] \in Nat /\ f[m] \in Nat
      BY <1>6, <3>2
    <3>4. f[n + 1] = f[n] + w[n] /\ f[m + 1] = f[m] + w[m]
      BY <1>6
    <3>5. QED
      BY <3>1, <3>3, <3>4
  <2>2. s + f[n] = t + f[m]
    BY <1>4, <1>10
  <2>3. CASE n < m
    <3>1. f[n + 1] <= f[m]
      BY <1>1, <1>7, <2>3
    <3>2. QED
      BY <2>1, <2>2, <3>1
  <2>4. CASE m < n
    <3>1. f[m + 1] <= f[n]
      BY <1>1, <1>7, <2>4
    <3>2. QED
      BY <2>1, <2>2, <3>1
  <2>5. CASE n = m
    BY <2>1, <2>2, <2>5
  <2>6. QED
    BY <1>1, <2>3, <2>4, <2>5
<1>11. QED
  BY <1>1, <1>8, <1>9, <1>10 DEF SlotsLie

(* The specs of a composition: one operator behind every handle that a     *)
(* component's handle becomes.                                             *)
LEMMA ComposedHandles ==
  ASSUME NEW ps, Listed(ps), NEW sh, NEW si
  PROVE  LET c == Compose(ps, sh, si) IN
         /\ \A n \in DOMAIN ps : \A h \in Handles(ps[n]) :
              HandleMap(ps, sh, n, h) \in Handles(c)
         /\ c.specs \in [Handles(c) -> OperatorKinds] /\ Handles(c) \subseteq Nat
<1>. DEFINE c == Compose(ps, sh, si)
            becomes(o) == HandleMap(ps, sh, o[1], o[2])
            H == {becomes(o) : o \in Owners(ps)}
            chosen(h) == CHOOSE x \in Owners(ps) : becomes(x) = h
            kind(o) == ps[o[1]].specs[o[2]]
<1>1. c.specs = [h \in H |-> kind(chosen(h))]
  BY DEF Compose
<1>2. \A o \in Owners(ps) : kind(o) \in OperatorKinds /\ becomes(o) \in Nat
  <2>1. \A n \in DOMAIN ps : \A h \in Handles(ps[n]) :
          ps[n].specs[h] \in OperatorKinds /\ HandleMap(ps, sh, n, h) \in Nat
    BY OwnerTyped, HandleTyped
  <2>2. QED
    BY <2>1, OwnersOf
<1>3. \A n \in DOMAIN ps : \A h \in Handles(ps[n]) :
        <<n, h>> \in Owners(ps) /\ HandleMap(ps, sh, n, h) = becomes(<<n, h>>)
  BY OwnersOf
<1>. HIDE DEF becomes, c
<1>4. \A h \in H : chosen(h) \in Owners(ps)
  OBVIOUS
<1>. HIDE DEF kind, chosen
<1>5. H \subseteq Nat /\ \A h \in H : kind(chosen(h)) \in OperatorKinds
  BY <1>2, <1>4
<1>6. Handles(c) = H
  BY <1>1 DEF Handles
<1>7. \A n \in DOMAIN ps : \A h \in Handles(ps[n]) : HandleMap(ps, sh, n, h) \in H
  BY <1>3
<1>. HIDE DEF H
<1>8. c.specs \in [H -> OperatorKinds]
  BY <1>1, <1>5
<1>9. QED
  BY <1>5, <1>6, <1>7, <1>8 DEF c

(* What of an instruction is left in place, and what is moved.             *)
Moves(r, ps, sh, n, i) ==
  /\ DOMAIN r = DOMAIN i /\ r = [f \in DOMAIN r |-> r[f]]
  /\ "op" \in DOMAIN i => r.op = i.op
  /\ "src" \in DOMAIN i => r.src = SlotOf(ps, n, i.src)
  /\ "dst" \in DOMAIN i => r.dst = SlotOf(ps, n, i.dst)
  /\ "true" \in DOMAIN i => r.true = Moved(ps, n, i.true)
  /\ "false" \in DOMAIN i => r.false = Moved(ps, n, i.false)
  /\ "unknown" \in DOMAIN i => r.unknown = Moved(ps, n, i.unknown)
  /\ "next" \in DOMAIN i => r.next = Moved(ps, n, i.next)
  /\ "handle" \in DOMAIN i => r.handle = HandleMap(ps, sh, n, i.handle)
  /\ "args" \in DOMAIN i =>
       r.args = [k \in DOMAIN i.args |-> SlotOf(ps, n, i.args[k])]

(* Relocation, field by field.                                             *)
LEMMA RelocatedMoves ==
  ASSUME NEW ps, NEW sh, NEW n, NEW i
  PROVE  Moves(Relocated(ps, sh, n, i), ps, sh, n, i)
<1>. DEFINE r == Relocated(ps, sh, n, i)
            g(f) == CASE f \in {"src", "dst"} -> SlotOf(ps, n, i[f])
                      [] f \in {"true", "false", "unknown", "next"} -> Moved(ps, n, i[f])
                      [] f = "args"   -> [k \in DOMAIN i.args |-> SlotOf(ps, n, i.args[k])]
                      [] f = "handle" -> HandleMap(ps, sh, n, i.handle)
                      [] f = "op"     -> i.op
<1>1. r = [f \in DOMAIN i |-> g(f)]
  BY DEF Relocated, SlotOf, Moved
<1>2. /\ g("op") = i.op /\ g("handle") = HandleMap(ps, sh, n, i.handle)
      /\ g("src") = SlotOf(ps, n, i.src) /\ g("dst") = SlotOf(ps, n, i.dst)
      /\ g("true") = Moved(ps, n, i.true) /\ g("false") = Moved(ps, n, i.false)
      /\ g("unknown") = Moved(ps, n, i.unknown) /\ g("next") = Moved(ps, n, i.next)
      /\ g("args") = [k \in DOMAIN i.args |-> SlotOf(ps, n, i.args[k])]
  OBVIOUS
<1>. HIDE DEF g, r
<1>3. DOMAIN r = DOMAIN i /\ \A f \in DOMAIN i : r[f] = g(f)
  BY <1>1
<1>4. r = [f \in DOMAIN r |-> r[f]]
  BY <1>1
<1>5. QED
  BY <1>2, <1>3, <1>4 DEF r, Moves

(* A relocated instruction is one of the composition.                      *)
LEMMA RelocatedTyped ==
  ASSUME NEW ps, Listed(ps), NEW sh, NEW si,
         NEW n \in DOMAIN ps, NEW i \in Instructions(ps[n])
  PROVE  Relocated(ps, sh, n, i) \in Instructions(Compose(ps, sh, si))
<1>. DEFINE c == Compose(ps, sh, si)
            r == Relocated(ps, sh, n, i)
            m == ps[n]
<1>1. Joins(c, ps, sh, si)
  BY ComposeJoins
<1>2. DOMAIN c.code = 1 .. Total(ps) /\ c.slots = SlotOffsets(ps)[Len(ps) + 1]
  <2>. HIDE DEF c
  <2>1. QED
    BY <1>1 DEF Joins
<1>3. \A h \in Handles(m) : HandleMap(ps, sh, n, h) \in Handles(c)
  BY ComposedHandles
<1>4. \A s \in 1 .. m.slots : SlotOf(ps, n, s) \in 1 .. c.slots
  <2>. HIDE DEF c
  <2>1. SlotsLie(ps, c)
    BY <1>2, SlotsApart
  <2>2. QED
    BY <2>1 DEF SlotsLie
<1>5. /\ \A t \in DOMAIN m.code : Moved(ps, n, t) \in DOMAIN c.code
      /\ Moved(ps, n, 0) = 0
  <2>1. \A t \in DOMAIN m.code : t # 0 /\ t + Offset(ps, n) \in 1 .. Total(ps)
    <3>1. DOMAIN m.code = 1 .. Terminal(m)
      BY CodeTyped DEF Listed
    <3>2. 0 \notin 1 .. Terminal(m)
      OBVIOUS
    <3>3. QED
      BY <3>1, <3>2, BodiesCover
  <2>. HIDE DEF c, m
  <2>2. QED
    BY <1>2, <2>1 DEF Moved, Offset
<1>6. \A s \in Seq(1 .. m.slots) :
        [k \in DOMAIN s |-> SlotOf(ps, n, s[k])] \in Seq(1 .. c.slots)
  <2>1. TAKE s \in Seq(1 .. m.slots)
  <2>. DEFINE S == 1 .. m.slots
              T == 1 .. c.slots
  <2>2. s \in Seq(S) /\ \A x \in S : SlotOf(ps, n, x) \in T
    BY <1>4
  <2>. HIDE DEF S, T, c, m
  <2>3. /\ \A k \in DOMAIN s : SlotOf(ps, n, s[k]) \in T
        /\ DOMAIN s = 1 .. Len(s) /\ Len(s) \in Nat
    BY <2>2, Elements
  <2>4. [k \in DOMAIN s |-> SlotOf(ps, n, s[k])] \in Seq(T)
    BY <2>3
  <2>5. QED
    BY <2>4 DEF T
<1>. HIDE DEF m, c, r
<1>7. i \in Instructions(m)
  BY DEF m
<1>8. Moves(r, ps, sh, n, i)
  BY RelocatedMoves DEF r
<1>9. \A t \in {0} \union DOMAIN m.code : Moved(ps, n, t) \in {0} \union DOMAIN c.code
  BY <1>5
<1>10. CASE i.op \in {"receive", "write"}
  <2>1. i.dst \in 1 .. m.slots /\ DOMAIN i = {"op", "dst"}
    BY <1>7, <1>10, ByOperation
  <2>2. r.dst \in 1 .. c.slots /\ DOMAIN r = {"op", "dst"} /\ r.op \in {"receive", "write"}
    BY <1>4, <1>8, <1>10, <2>1 DEF Moves
  <2>3. QED
    BY <1>8, <2>2, AnInstruction DEF r, c, Moves
<1>11. CASE i.op \in {"read", "copy"}
  <2>1. /\ i.src \in 1 .. m.slots
        /\ \/ i.op = "read" /\ DOMAIN i = {"op", "src"}
           \/ i.op = "copy" /\ i.dst \in 1 .. m.slots /\ DOMAIN i = {"op", "src", "dst"}
    BY <1>7, <1>11, ByOperation
  <2>2. /\ r.src \in 1 .. c.slots
        /\ \/ r.op = "read" /\ DOMAIN r = {"op", "src"}
           \/ r.op = "copy" /\ r.dst \in 1 .. c.slots /\ DOMAIN r = {"op", "src", "dst"}
    BY <1>4, <1>8, <2>1 DEF Moves
  <2>3. QED
    BY <1>8, <2>2, AnInstruction DEF r, c, Moves
<1>12. CASE i.op = "call"
  <2>1. /\ i.handle \in Handles(m) /\ i.args \in Seq(1 .. m.slots) /\ i.dst \in 1 .. m.slots
        /\ DOMAIN i = {"op", "handle", "args", "dst"}
    BY <1>7, <1>12, ByOperation
  <2>2. r.handle \in Handles(c)
    BY <1>3, <1>8, <2>1 DEF Moves
  <2>3. r.args \in Seq(1 .. c.slots)
    BY <1>6, <1>8, <2>1 DEF Moves
  <2>4. r.dst \in 1 .. c.slots /\ r.op = "call" /\ DOMAIN r = {"op", "handle", "args", "dst"}
    BY <1>4, <1>8, <1>12, <2>1 DEF Moves
  <2>5. QED
    BY <1>8, <2>2, <2>3, <2>4, AnInstruction DEF r, c, Moves
<1>13. CASE i.op = "branch"
  <2>1. /\ i.src \in 1 .. m.slots /\ {i.true, i.false, i.unknown} \subseteq DOMAIN m.code
        /\ DOMAIN i = {"op", "src", "true", "false", "unknown"}
    BY <1>7, <1>13, ByOperation
  <2>2. /\ r.src \in 1 .. c.slots /\ {r.true, r.false, r.unknown} \subseteq DOMAIN c.code
        /\ r.op = "branch" /\ DOMAIN r = {"op", "src", "true", "false", "unknown"}
    BY <1>4, <1>5, <1>8, <1>13, <2>1 DEF Moves
  <2>3. QED
    BY <1>8, <2>2, AnInstruction DEF r, c, Moves
<1>14. CASE i.op = "emit"
  <2>1. /\ i.src \in 1 .. m.slots /\ i.next \in {0} \union DOMAIN m.code
        /\ DOMAIN i = {"op", "src", "next"}
    BY <1>7, <1>14, ByOperation
  <2>2. /\ r.src \in 1 .. c.slots /\ r.next \in {0} \union DOMAIN c.code
        /\ r.op = "emit" /\ DOMAIN r = {"op", "src", "next"}
    BY <1>4, <1>8, <1>9, <1>14, <2>1 DEF Moves
  <2>3. QED
    BY <1>8, <2>2, AnInstruction DEF r, c, Moves
<1>15. CASE i.op \in {"wait", "handoff"}
  <2>1. i.next \in {0} \union DOMAIN m.code /\ DOMAIN i = {"op", "next"}
    BY <1>7, <1>15, ByOperation
  <2>2. /\ r.next \in {0} \union DOMAIN c.code
        /\ r.op \in {"wait", "handoff"} /\ DOMAIN r = {"op", "next"}
    BY <1>8, <1>9, <1>15, <2>1 DEF Moves
  <2>3. QED
    BY <1>8, <2>2, AnInstruction DEF r, c, Moves
<1>16. CASE i.op = "halt"
  <2>1. DOMAIN i = {"op"}
    BY <1>7, <1>16, ByOperation
  <2>2. r.op = "halt" /\ DOMAIN r = {"op"}
    BY <1>8, <1>16, <2>1 DEF Moves
  <2>3. QED
    BY <1>8, <2>2, AnInstruction DEF r, c, Moves
<1>17. QED
  <2>1. i.op \in {"receive", "read", "write", "copy", "call", "branch", "wait",
                  "handoff", "emit", "halt"}
    BY <1>7, ByOperation
  <2>2. QED
    BY <2>1, <1>10, <1>11, <1>12, <1>13, <1>14, <1>15, <1>16

(* So is one that final_emit_only changed.                                 *)
LEMMA MutedTyped ==
  ASSUME NEW a, NEW i \in Instructions(a), NEW si
  PROVE  Muted(si, i) \in Instructions(a)
<1>1. CASE si /\ i.op = "emit"
  <2>1. i.next \in {0} \union DOMAIN a.code
    BY <1>1, ByOperation
  <2>2. Handoff(i.next) \in [op : {"wait", "handoff"}, next : {0} \union DOMAIN a.code]
    BY <2>1 DEF Handoff
  <2>3. QED
    BY <1>1, <2>2 DEF Muted, Instructions
<1>2. CASE ~ (si /\ i.op = "emit")
  BY <1>2 DEF Muted
<1>3. QED
  BY <1>1, <1>2

(* A relocated HALT is a HALT.                                             *)
LEMMA RelocatedHalt ==
  ASSUME NEW ps, NEW sh, NEW n
  PROVE  Relocated(ps, sh, n, Halt) = Halt
<1>1. DOMAIN Halt = {"op"} /\ Halt.op = "halt"
  BY DEF Halt
<1>2. Relocated(ps, sh, n, Halt) = [f \in {"op"} |-> "halt"]
  BY <1>1 DEF Relocated
<1>3. [f \in {"op"} |-> "halt"] = Halt
  BY DEF Halt
<1>4. QED
  BY <1>2, <1>3

(* compose_executive_artifacts returns a valid artifact (the validate that *)
(* ends it, executive_bank.py:476, never raises): targets, slots, handles  *)
(* and the terminal HALT are right, whatever the components are and        *)
(* however many.                                                           *)
THEOREM ComposedIsValid ==
  ASSUME NEW ps, Listed(ps), NEW sh, NEW si
  PROVE  Valid(Compose(ps, sh, si))
<1>. DEFINE c == Compose(ps, sh, si)
            L == Len(ps)
<1>1. Joins(c, ps, sh, si)
  BY ComposeJoins
<1>2. c.specs \in [Handles(c) -> OperatorKinds] /\ Handles(c) \subseteq Nat
  BY ComposedHandles
<1>3. \A n \in DOMAIN ps : \A p \in Body(ps, n) :
        Muted(si /\ Hands(ps, n), Relocated(ps, sh, n, ps[n].code[p])) \in Instructions(c)
  <2>1. TAKE n \in DOMAIN ps
  <2>2. TAKE p \in Body(ps, n)
  <2>3. ps[n].code[p] \in Instructions(ps[n])
    BY CodeTyped DEF Listed, Body
  <2>4. Relocated(ps, sh, n, ps[n].code[p]) \in Instructions(c)
    BY <2>3, RelocatedTyped
  <2>. HIDE DEF c
  <2>5. QED
    BY <2>4, MutedTyped
<1>. HIDE DEF c
<1>4. /\ c.slots = SlotOffsets(ps)[L + 1]
      /\ Len(c.code) = Total(ps) /\ DOMAIN c.code = 1 .. Total(ps)
      /\ c.code \in Seq({c.code[p] : p \in DOMAIN c.code})
  BY <1>1 DEF Joins
<1>5. \A q \in DOMAIN c.code : c.code[q] \in Instructions(c)
  <2>1. TAKE q \in DOMAIN c.code
  <2>2. PICK n \in DOMAIN ps : \E p \in Body(ps, n) : q = p + Offset(ps, n)
    BY <1>4, BodiesCover
  <2>3. PICK p \in Body(ps, n) : q = p + Offset(ps, n)
    BY <2>2
  <2>4. QED
    BY <1>1, <1>3, <2>3 DEF Joins
<1>6. Total(ps) \in Nat \ {0}
  BY BodiesCover
<1>7. c.code \in Seq(Instructions(c)) /\ c.code # <<>>
  <2>. DEFINE S == {c.code[p] : p \in DOMAIN c.code}
              T == Instructions(c)
  <2>1. S \subseteq T
    BY <1>5
  <2>2. c.code \in Seq(S)
    BY <1>4
  <2>. HIDE DEF S, T
  <2>3. c.code \in Seq(T)
    BY <2>1, <2>2, SeqMonotonic
  <2>4. QED
    BY <1>4, <1>6, <2>3 DEF T
<1>8. c.code[Terminal(c)] = Halt
  <2>1. /\ L \in DOMAIN ps /\ ~ Hands(ps, L) /\ Terminal(ps[L]) \in DOMAIN ps[L].code
        /\ Terminal(ps[L]) \in Nat /\ Offset(ps, L) \in Nat
    <3>1. L \in DOMAIN ps /\ ~ Hands(ps, L)
      BY PlaceFacts DEF Placed
    <3>2. /\ Terminal(ps[L]) \in Nat \ {0} /\ Offset(ps, L) \in Nat
          /\ DOMAIN ps[L].code = 1 .. Terminal(ps[L])
      BY <3>1, PlaceFacts DEF Placed
    <3>. HIDE DEF L
    <3>3. QED
      BY <3>1, <3>2
  <2>2. ps[L].code[Terminal(ps[L])] = Halt
    BY <2>1 DEF Listed, Valid
  <2>3. Terminal(ps[L]) \in Body(ps, L)
    BY <2>1 DEF Body
  <2>4. Total(ps) = Terminal(ps[L]) + Offset(ps, L)
    <3>1. Total(ps) = Offset(ps, L) + Terminal(ps[L])
      BY DEF Total
    <3>. HIDE DEF L
    <3>2. QED
      BY <2>1, <3>1
  <2>5. c.code[Terminal(ps[L]) + Offset(ps, L)]
          = Muted(si /\ Hands(ps, L), Relocated(ps, sh, L, Halt))
    BY <1>1, <2>1, <2>2, <2>3 DEF Joins
  <2>6. Muted(si /\ Hands(ps, L), Relocated(ps, sh, L, Halt)) = Halt
    BY <2>1, RelocatedHalt DEF Muted
  <2>. HIDE DEF L
  <2>7. QED
    BY <1>4, <2>4, <2>5, <2>6 DEF Terminal
<1>9. c.slots \in Nat \ {0}
  BY <1>4, SlotsApart
<1>10. Valid(c)
  BY <1>2, <1>7, <1>8, <1>9 DEF Valid
<1>11. QED
  BY <1>10 DEF c

(* The machine runs one artifact, or those that Compose was given.         *)
Shape ==
  /\ Listed(parts)
  /\ \/ Len(parts) = 1 /\ artifact = parts[1] /\ share = FALSE
     \/ CanCompose(parts) /\ artifact = Compose(parts, share, silent)

(* No set of pointers that holds the first one and the successors of its   *)
(* members is ever left.                                                   *)
Closed(R) == 1 \in R /\ \A p \in R : Successors(artifact, p) \subseteq R

Kept ==
  \A R \in SUBSET DOMAIN artifact.code :
    Closed(R) => work.ptr \in R /\ committed.ptr \in R

IInv ==
  /\ TypeOK
  /\ committed \in States /\ events \in Inputs \union {"none"}
  /\ Shape
  /\ Kept

(* The states of the machine are those of its artifact.                    *)
LEMMA StatesAre == States = StatesOf(artifact)
BY DEF States, StatesOf

(* The assumption on the artifacts, by one of them.                        *)
LEMMA ArtifactsAreValid ==
  \A a \in Artifacts : Valid(a) /\ HasLargest(Handles(a))
BY ExecutiveAssumption DEF HasLargest

(* So every list of them is one that Compose may be given.                 *)
LEMMA ChainsAreListed ==
  ASSUME NEW ps \in Chains
  PROVE  Listed(ps)
<1>1. ps \in Seq(Artifacts) /\ ps # <<>>
  BY ExecutiveAssumption
<1>2. /\ Len(ps) \in Nat /\ DOMAIN ps = 1 .. Len(ps)
      /\ \A n \in DOMAIN ps : ps[n] \in Artifacts
  BY <1>1, Elements
<1>3. Len(ps) # 0
  BY <1>1
<1>4. QED
  BY <1>2, <1>3, ArtifactsAreValid DEF Listed

(* ExternalExecutiveState's first state is typed.                          *)
LEMMA InitialTyped ==
  ASSUME NEW a, Valid(a)
  PROVE  InitialState(a) \in StatesOf(a) /\ InitialState(a).ptr = 1
<1>1. 1 \in DOMAIN a.code
  BY CodeTyped
<1>2. Empty \in Values /\ "absent" \in Inputs
  BY ValuesFacts, ExecutiveAssumption
<1>3. QED
  BY <1>1, <1>2 DEF InitialState, StatesOf

(* The invariant holds of a new machine.                                   *)
LEMMA InitInv == Init => IInv
<1>. SUFFICES ASSUME Init PROVE IInv
  OBVIOUS
<1>1. Shape
  <2>1. Listed(parts)
    BY ChainsAreListed DEF Init
  <2>2. QED
    BY <2>1 DEF Shape, Init
<1>2. Valid(artifact)
  <2>1. CASE Len(parts) = 1 /\ artifact = parts[1]
    BY <1>1, <2>1 DEF Shape, Listed
  <2>2. CASE artifact = Compose(parts, share, silent)
    BY <1>1, <2>2, ComposedIsValid DEF Shape
  <2>3. QED
    BY <1>1, <2>1, <2>2 DEF Shape
<1>3. committed = InitialState(artifact) /\ work = committed
      /\ status = "ready" /\ events = "none" /\ executed = 0
  BY DEF Init
<1>4. committed \in States /\ work \in States /\ committed.ptr = 1 /\ work.ptr = 1
  BY <1>2, <1>3, InitialTyped, StatesAre
<1>5. work.ptr \in DOMAIN artifact.code
  BY <1>4, StatesAre DEF StatesOf
<1>6. executed \in 0 .. MaxInstructions - 1
  BY <1>3, ExecutiveAssumption
<1>7. TypeOK
  BY <1>2, <1>3, <1>4, <1>5, <1>6 DEF TypeOK
<1>8. Kept
  BY <1>4 DEF Kept, Closed
<1>9. QED
  BY <1>1, <1>3, <1>4, <1>7, <1>8 DEF IInv

(* What one instruction keeps.                                             *)
LEMMA NowKept ==
  ASSUME IInv, Ticking
  PROVE  /\ Ends(artifact, work, Now)
         /\ Now.w \in States
         /\ \A R \in SUBSET DOMAIN artifact.code : Closed(R) => Now.w.ptr \in R
<1>1. work \in StatesOf(artifact) /\ Valid(artifact) /\ events \in Inputs
  BY StatesAre DEF IInv, TypeOK, Ticking
<1>2. Ends(artifact, work, Now)
  BY <1>1, ExecuteTyped DEF Now
<1>3. Now.w \in States
  BY <1>2, StatesAre DEF Ends
<1>4. ASSUME NEW R \in SUBSET DOMAIN artifact.code, Closed(R)
      PROVE  Now.w.ptr \in R
  <2>1. work.ptr \in R
    BY <1>4 DEF IInv, Kept
  <2>2. Successors(artifact, work.ptr) \subseteq R
    BY <1>4, <2>1 DEF Closed
  <2>3. Now.w = work \/ Now.w.ptr \in Successors(artifact, work.ptr)
    BY <1>2 DEF Ends
  <2>4. QED
    BY <2>1, <2>2, <2>3
<1>5. QED
  BY <1>2, <1>3, <1>4

(* Every step of the machine keeps the invariant.                          *)
LEMMA NextInv == IInv /\ [Next]_vars => IInv'
<1>. SUFFICES ASSUME IInv, [Next]_vars PROVE IInv'
  OBVIOUS
<1>0. /\ Valid(artifact) /\ work \in States /\ committed \in States
      /\ executed \in 0 .. MaxInstructions - 1 /\ MaxInstructions \in Nat \ {0}
      /\ status \in {"ready", "waiting", "emitted", "halted", "step_budget_exhausted"}
  BY ExecutiveAssumption DEF IInv, TypeOK
<1>1. UNCHANGED programVars
  BY DEF Next, vars, Tick, Continues, RunsOut, Waits, Emits, Halts, Raises, Return
<1>2. Shape' /\ States' = States /\ artifact' = artifact
      /\ \A R : Closed(R)' <=> Closed(R)
  BY <1>1 DEF IInv, Shape, States, Closed, programVars
<1>3. (work' \in States => work'.ptr \in DOMAIN artifact.code)
  BY DEF States
<1>4. ASSUME work' \in States, committed' \in States,
             ~ Ticking' => committed' = work',
             executed' \in 0 .. MaxInstructions - 1,
             events' \in Inputs \union {"none"},
             status' \in {"ready", "waiting", "emitted", "halted", "step_budget_exhausted"},
             \A R \in SUBSET DOMAIN artifact.code :
               Closed(R) => work'.ptr \in R /\ committed'.ptr \in R
      PROVE  IInv'
  <2>1. TypeOK'
    BY <1>0, <1>2, <1>3, <1>4 DEF TypeOK
  <2>2. Kept'
    BY <1>2, <1>4 DEF Kept
  <2>3. QED
    BY <1>2, <1>4, <2>1, <2>2 DEF IInv
<1>5. \A R \in SUBSET DOMAIN artifact.code :
        Closed(R) => work.ptr \in R /\ committed.ptr \in R
  BY DEF IInv, Kept
<1>6. ASSUME NEW w \in States, NEW s, Return(w, s),
             s \in {"ready", "waiting", "emitted", "halted", "step_budget_exhausted"},
             \A R \in SUBSET DOMAIN artifact.code : Closed(R) => w.ptr \in R
      PROVE  IInv'
  <2>1. work' = w /\ committed' = w /\ status' = s /\ events' = "none" /\ executed' = 0
    BY <1>6 DEF Return
  <2>2. 0 \in 0 .. MaxInstructions - 1
    BY <1>0
  <2>3. QED
    BY <1>4, <1>6, <2>1, <2>2
<1>7. CASE UNCHANGED vars
  <2>1. /\ work' = work /\ committed' = committed /\ status' = status
        /\ events' = events /\ executed' = executed
    BY <1>7 DEF vars
  <2>2. ~ Ticking' => committed' = work'
    BY <2>1 DEF IInv, TypeOK, Ticking
  <2>3. QED
    BY <1>0, <1>4, <1>5, <2>1, <2>2 DEF IInv
<1>8. ASSUME NEW input \in Inputs, Tick(input) PROVE IInv'
  <2>1. /\ work' = work /\ committed' = committed /\ status' = status
        /\ events' = input /\ executed' = executed
    BY <1>8 DEF Tick
  <2>2. ~ Ticking' => committed' = work'
    BY <1>8, <2>1, ExecutiveAssumption DEF Ticking
  <2>3. QED
    BY <1>0, <1>4, <1>5, <2>1, <2>2
<1>9. CASE Continues
  <2>1. Ticking /\ executed + 1 < MaxInstructions
        /\ work' = Now.w /\ executed' = executed + 1
        /\ committed' = committed /\ status' = status /\ events' = events
    BY <1>9 DEF Continues
  <2>2. /\ work' \in States
        /\ \A R \in SUBSET DOMAIN artifact.code : Closed(R) => work'.ptr \in R
    BY <2>1, NowKept
  <2>3. executed' \in 0 .. MaxInstructions - 1
    BY <1>0, <2>1
  <2>4. Ticking'
    BY <2>1 DEF Ticking
  <2>5. events' \in Inputs \union {"none"}
    BY <2>1 DEF IInv
  <2>6. QED
    BY <1>0, <1>4, <1>5, <2>1, <2>2, <2>3, <2>4, <2>5
<1>10. CASE RunsOut \/ Waits \/ Emits \/ Halts
  <2>1. PICK s \in {"step_budget_exhausted", "waiting", "emitted", "halted"} :
          Ticking /\ Return(Now.w, s)
    BY <1>10 DEF RunsOut, Waits, Emits, Halts
  <2>2. QED
    BY <1>6, <2>1, NowKept
<1>11. CASE Raises
  BY <1>0, <1>5, <1>6, <1>11 DEF Raises
<1>12. QED
  BY <1>7, <1>8, <1>9, <1>10, <1>11 DEF Next

(* The inductive invariant: the artifact is valid, the locals and the      *)
(* committed state are typed, and no set of pointers closed under          *)
(* Successors is ever left.                                                *)
THEOREM Invariance == Spec => []IInv
BY InitInv, NextInv, PTL DEF Spec

(* The instruction pointer never escapes its program, and an artifact that *)
(* is composed is a valid one (ExternalExecutiveMachine._tick).            *)
THEOREM TypeCorrect == Spec => []TypeOK
<1>1. IInv => TypeOK
  BY DEF IInv
<1>2. QED
  BY Invariance, <1>1, PTL

(* executive_artifact_can_handoff refuses no component that some run       *)
(* brings to its terminal HALT (executive_bank.py:480).                    *)
THEOREM HandoffNeverMissed == Spec => []ReachesOnlyWhatCanHandoff
<1>1. IInv => ReachesOnlyWhatCanHandoff
  BY DEF IInv, Kept, Closed, ReachesOnlyWhatCanHandoff, CanHandoff
<1>2. QED
  BY Invariance, <1>1, PTL

Stores == {"receive", "write", "copy", "call"}

(* An instruction writes at most its destination, and the state of the     *)
(* operator that it calls.                                                 *)
Frame(a, w, x) ==
  LET i == a.code[w.ptr]
  IN /\ \A s \in 1 .. a.slots : (i.op \in Stores /\ s = i.dst) \/ x.ws[s] = w.ws[s]
     /\ \A h \in Handles(a) : (i.op = "call" /\ h = i.handle) \/ x.ops[h] = w.ops[h]

(* An instruction has no other effect on slots and operators.              *)
LEMMA ExecuteFrame ==
  ASSUME NEW a, Valid(a), NEW w \in StatesOf(a), NEW e \in Inputs
  PROVE  Frame(a, w, Execute(a, w, e).w)
<1>. DEFINE i == a.code[w.ptr]
            o == Execute(a, w, e)
<1>1. i \in Instructions(a)
  BY CodeTyped DEF StatesOf
<1>2. ASSUME NEW x, x.ws = w.ws, x.ops = w.ops
      PROVE  Frame(a, w, x)
  BY <1>2 DEF Frame
<1>3. \A x, q : /\ Next1(x).ws = x.ws /\ Next1(x).ops = x.ops
                /\ Goto(x, q).ws = x.ws /\ Goto(x, q).ops = x.ops
  BY DEF Next1, Goto
<1>4. CASE i.op \in {"receive", "write", "copy"}
  <2>1. PICK v : o.w = Next1([w EXCEPT !.ws[i.dst] = v]) \/ o.w = w
    BY <1>4 DEF Execute, Raised, Outcome
  <2>2. CASE o.w = Next1([w EXCEPT !.ws[i.dst] = v])
    <3>. DEFINE x == [w EXCEPT !.ws[i.dst] = v]
    <3>1. x.ops = w.ops /\ \A s \in 1 .. a.slots : s = i.dst \/ x.ws[s] = w.ws[s]
      BY DEF StatesOf
    <3>. HIDE DEF x
    <3>2. o.w.ws = x.ws /\ o.w.ops = x.ops
      BY <1>3, <2>2 DEF x
    <3>3. QED
      BY <1>4, <3>1, <3>2 DEF Frame, Stores
  <2>3. QED
    BY <1>2, <2>1, <2>2
<1>5. CASE i.op = "call"
  <2>. DEFINE args  == [n \in DOMAIN i.args |-> w.ws[i.args[n]]]
              value == Result(a.specs[i.handle], args, w.ops[i.handle])
              after == StateAfter(a.specs[i.handle], args, w.ops[i.handle])
              x == [w EXCEPT !.ws[i.dst] = value, !.acc = value, !.ops[i.handle] = after]
  <2>1. o.w = Next1(x) \/ o.w = w
    BY <1>5 DEF Execute, CallOutcome, Raised, Outcome
  <2>. HIDE DEF value, after
  <2>2. CASE o.w = Next1(x)
    <3>1. /\ \A s \in 1 .. a.slots : s = i.dst \/ x.ws[s] = w.ws[s]
          /\ \A h \in Handles(a) : h = i.handle \/ x.ops[h] = w.ops[h]
      BY DEF StatesOf
    <3>. HIDE DEF x
    <3>2. o.w.ws = x.ws /\ o.w.ops = x.ops
      BY <1>3, <2>2
    <3>3. QED
      BY <1>5, <3>1, <3>2 DEF Frame, Stores
  <2>3. QED
    BY <1>2, <2>1, <2>2
<1>6. CASE i.op \in {"read", "wait", "handoff", "halt"}
  <2>1. \/ o.w = w \/ o.w = Goto(w, i.next)
        \/ o.w = Next1([w EXCEPT !.acc = w.ws[i.src]])
    BY <1>6 DEF Execute, Raised, Outcome
  <2>2. o.w.ws = w.ws /\ o.w.ops = w.ops
    <3>. DEFINE x == [w EXCEPT !.acc = w.ws[i.src]]
    <3>1. x.ws = w.ws /\ x.ops = w.ops
      BY DEF StatesOf
    <3>2. o.w = w \/ o.w = Goto(w, i.next) \/ o.w = Next1(x)
      BY <2>1
    <3>. HIDE DEF x, o, i
    <3>3. CASE o.w = w
      BY <3>3
    <3>4. CASE o.w = Goto(w, i.next)
      BY <1>3, <3>4
    <3>5. CASE o.w = Next1(x)
      BY <1>3, <3>1, <3>5
    <3>6. QED
      BY <3>2, <3>3, <3>4, <3>5
  <2>3. QED
    BY <1>2, <2>2
<1>7. CASE i.op = "emit"
  <2>1. o.w = w \/ o.w = Goto(w, i.next)
    BY <1>7 DEF Execute, EmitOutcome, Raised, Outcome
  <2>2. QED
    BY <1>2, <1>3, <2>1
<1>8. CASE i.op = "branch"
  <2>1. o = BranchOutcome(i, w)
    BY <1>8 DEF Execute
  <2>. DEFINE v == w.ws[i.src]
  <2>2. v \in Values
    BY <1>1, <1>8, ByOperation DEF StatesOf
  <2>3. v[1] = "evidence" =>
          v = <<"evidence", "true">> \/ v = <<"evidence", "false">>
            \/ v = <<"evidence", "absent">>
    BY <2>2 DEF Values, Empty, Truth
  <2>4. o.w = w \/ \E q : o.w = Goto(w, q)
    <3>1. o = CASE v[1] # "evidence"  -> Raised(w)
                [] v[2] = "true"      -> Outcome("on", Goto(w, i.true))
                [] v[2] = "false"     -> Outcome("on", Goto(w, i.false))
                [] v = <<"evidence", "absent">> -> Outcome("on", Goto(w, i.unknown))
      BY <2>1 DEF BranchOutcome
    <3>2. Raised(w).w = w /\ \A q : Outcome("on", Goto(w, q)).w = Goto(w, q)
      BY DEF Raised, Outcome
    <3>. HIDE DEF v, i, o
    <3>3. \/ o = Raised(w)
          \/ \E q \in {i.true, i.false, i.unknown} : o = Outcome("on", Goto(w, q))
      BY <2>3, <3>1
    <3>4. QED
      BY <3>2, <3>3
  <2>5. QED
    BY <1>2, <1>3, <2>4
<1>9. QED
  <2>1. i.op \in {"receive", "read", "write", "copy", "call", "branch", "wait",
                  "handoff", "emit", "halt"}
    BY <1>1, ByOperation
  <2>2. QED
    BY <2>1, <1>4, <1>5, <1>6, <1>7, <1>8

(* An instruction of a composition stores into its own component's slots,  *)
(* and calls its own component's operators.                                *)
Mine(ps, sh, n, i) ==
  /\ i.op \in Stores => \E s \in 1 .. ps[n].slots : i.dst = SlotOf(ps, n, s)
  /\ i.op = "call" => \E h \in Handles(ps[n]) : i.handle = HandleMap(ps, sh, n, h)

(* A relocated instruction stays with its component.                       *)
LEMMA RelocatedIsMine ==
  ASSUME NEW ps, NEW sh, NEW n, NEW i \in Instructions(ps[n])
  PROVE  Mine(ps, sh, n, Relocated(ps, sh, n, i))
<1>. DEFINE r == Relocated(ps, sh, n, i)
            m == ps[n]
<1>1. /\ i.op \in Stores => i.dst \in 1 .. m.slots /\ "dst" \in DOMAIN i
      /\ i.op = "call" => i.handle \in Handles(m) /\ "handle" \in DOMAIN i
      /\ "op" \in DOMAIN i
  BY ByOperation DEF Stores
<1>2. Moves(r, ps, sh, n, i)
  BY RelocatedMoves
<1>. HIDE DEF r
<1>3. QED
  BY <1>1, <1>2 DEF Mine, Moves, r

(* So does one that final_emit_only changed.                               *)
LEMMA MutedIsMine ==
  ASSUME NEW ps, NEW sh, NEW n, NEW i, NEW si, Mine(ps, sh, n, i)
  PROVE  Mine(ps, sh, n, Muted(si, i))
BY DEF Mine, Muted, Handoff, Stores

(* The instruction at a pointer is of the component that is there.         *)
LEMMA ComposedIsMine ==
  ASSUME NEW ps, Listed(ps), NEW sh, NEW si, NEW q \in DOMAIN Compose(ps, sh, si).code
  PROVE  /\ PartAt(ps, q) \in DOMAIN ps
         /\ Mine(ps, sh, PartAt(ps, q), Compose(ps, sh, si).code[q])
<1>. DEFINE c == Compose(ps, sh, si)
<1>1. Joins(c, ps, sh, si)
  BY ComposeJoins
<1>2. q \in DOMAIN c.code
  OBVIOUS
<1>. HIDE DEF c
<1>3. PICK n \in DOMAIN ps : \E p \in Body(ps, n) : q = p + Offset(ps, n)
  BY <1>1, <1>2, BodiesCover DEF Joins
<1>4. PICK p \in Body(ps, n) : q = p + Offset(ps, n)
  BY <1>3
<1>5. PartAt(ps, q) = n
  BY <1>4, PartOf
<1>6. c.code[q] = Muted(si /\ Hands(ps, n), Relocated(ps, sh, n, ps[n].code[p]))
  BY <1>1, <1>4 DEF Joins
<1>7. ps[n].code[p] \in Instructions(ps[n])
  BY CodeTyped DEF Listed, Body
<1>8. Mine(ps, sh, n, c.code[q])
  BY <1>6, <1>7, RelocatedIsMine, MutedIsMine
<1>9. QED
  BY <1>5, <1>8 DEF c

(* What a step leaves alone: all that is the other components'.            *)
OthersAlone ==
  \A other \in DOMAIN parts \ {PartAt(parts, work.ptr)} :
    /\ \A s \in Slots(other) : work'.ws[s] = work.ws[s]
    /\ share \/ \A h \in Operators(other) : work'.ops[h] = work.ops[h]

(* One step leaves the other components alone.                             *)
LEMMA StepIsolates ==
  ASSUME IInv, [Next]_vars, executed' > executed
  PROVE  OthersAlone
<1>. DEFINE one == PartAt(parts, work.ptr)
            i == artifact.code[work.ptr]
<1>1. executed \in 0 .. MaxInstructions - 1 /\ MaxInstructions \in Nat
  BY ExecutiveAssumption DEF IInv, TypeOK
<1>2. Continues
  <2>1. ~ (executed' = executed) /\ ~ (executed' = 0)
    BY <1>1
  <2>2. QED
    BY <2>1 DEF Next, vars, Tick, RunsOut, Waits, Emits, Halts, Raises, Return
<1>3. Ticking /\ work' = Now.w
  BY <1>2 DEF Continues
<1>4. Listed(parts)
  BY DEF IInv, Shape
<1>5. /\ Valid(artifact) /\ work \in StatesOf(artifact) /\ events \in Inputs
      /\ work.ptr \in DOMAIN artifact.code
  BY <1>3, StatesAre DEF IInv, TypeOK, Ticking
<1>6. Frame(artifact, work, work')
  BY <1>3, <1>5, ExecuteFrame DEF Now
<1>7. CASE Len(parts) = 1 /\ artifact = parts[1]
  <2>1. DOMAIN parts = {1}
    BY <1>4, <1>7 DEF Listed
  <2>2. work.ptr \in Body(parts, 1)
    BY <1>5, <1>7 DEF Body, Hands
  <2>3. PartAt(parts, work.ptr + Offset(parts, 1)) = 1
    BY <1>4, <2>1, <2>2, PartOf
  <2>4. work.ptr + Offset(parts, 1) = work.ptr
    <3>1. Offset(parts, 1) = 0 /\ work.ptr \in Nat
      BY <1>4, <1>5, PlaceFacts, CodeTyped DEF Placed
    <3>2. QED
      BY <3>1
  <2>5. one = 1
    BY <2>3, <2>4
  <2>6. QED
    BY <2>1, <2>5 DEF OthersAlone
<1>8. CASE artifact = Compose(parts, share, silent)
  <2>1. SlotsLie(parts, artifact)
    <3>1. Joins(artifact, parts, share, silent)
      BY <1>4, <1>8, ComposeJoins
    <3>2. QED
      BY <1>4, <3>1, SlotsApart DEF Joins
  <2>2. one \in DOMAIN parts /\ Mine(parts, share, one, i)
    BY <1>4, <1>5, <1>8, ComposedIsMine
  <2>. HIDE DEF i, one
  <2>3. ASSUME NEW other \in DOMAIN parts, other # one, NEW s \in Slots(other)
        PROVE  work'.ws[s] = work.ws[s]
    <3>1. PICK t \in 1 .. parts[other].slots : s = SlotOf(parts, other, t)
      BY <2>3 DEF Slots
    <3>2. s \in 1 .. artifact.slots
      BY <2>1, <3>1 DEF SlotsLie
    <3>3. ~ (i.op \in Stores /\ s = i.dst)
      BY <2>1, <2>2, <2>3, <3>1 DEF Mine, SlotsLie
    <3>4. QED
      BY <1>6, <3>2, <3>3 DEF Frame, i
  <2>4. ASSUME ~ share, NEW other \in DOMAIN parts, other # one, NEW h \in Operators(other)
        PROVE  work'.ops[h] = work.ops[h]
    <3>1. PICK g \in Handles(parts[other]) : h = HandleMap(parts, share, other, g)
      BY <2>4 DEF Operators
    <3>2. h \in Handles(artifact)
      BY <1>4, <1>8, <3>1, ComposedHandles
    <3>3. ASSUME i.op = "call" PROVE h # i.handle
      <4>1. PICK k \in Handles(parts[one]) : i.handle = HandleMap(parts, share, one, k)
        BY <2>2, <3>3 DEF Mine
      <4>2. QED
        BY <1>4, <2>2, <2>4, <3>1, <4>1, HandlesApart
    <3>4. QED
      BY <1>6, <3>2, <3>3 DEF Frame, i
  <2>5. QED
    BY <2>3, <2>4 DEF OthersAlone, one
<1>9. QED
  BY <1>7, <1>8 DEF IInv, Shape

(* An instruction of one component of a composition leaves the others'     *)
(* slots alone, and without sharing their operators' states ("preserving   *)
(* stateful operator isolation", executive_bank.py:316).                   *)
THEOREM Isolation == Spec => ComponentsAreIsolated
<1>1. IInv /\ [Next]_vars =>
        [executed' > executed =>
           \A other \in DOMAIN parts \ {PartAt(parts, work.ptr)} :
             /\ \A s \in Slots(other) : work'.ws[s] = work.ws[s]
             /\ share \/ \A h \in Operators(other) : work'.ops[h] = work.ops[h]]_vars
  BY StepIsolates DEF OthersAlone
<1>2. QED
  BY Invariance, <1>1, PTL DEF Spec, ComponentsAreIsolated

-----------------------------------------------------------------------------
(* The handoff check of a composition *)

(* Where the instructions of the components go on in the composition.      *)
LEMMA SuccessorsMove ==
  ASSUME NEW ps, Listed(ps), NEW sh, NEW si, NEW n \in DOMAIN ps, NEW p \in Body(ps, n)
  PROVE  LET c == Compose(ps, sh, si)
             q == p + Offset(ps, n)
         IN  /\ q \in DOMAIN c.code
             /\ \A s : s \in Successors(c, q) <=>
                         \E t \in Successors(ps[n], p) : s = t + Offset(ps, n)
<1>. DEFINE m == ps[n]
            c == Compose(ps, sh, si)
            k == Offset(ps, n)
            q == p + k
            i == m.code[p]
            j == c.code[q]
            r == Relocated(ps, sh, n, i)
            move(t) == t + k
<1>1. /\ Valid(m) /\ k \in Nat /\ p \in DOMAIN m.code
      /\ i \in Instructions(m) /\ p \in Nat \ {0} /\ DOMAIN m.code \subseteq Nat \ {0}
  <2>1. Valid(m)
    BY DEF Listed
  <2>2. k \in Nat /\ DOMAIN m.code = 1 .. Terminal(m) /\ Terminal(m) \in Nat
    BY PlaceFacts DEF Placed
  <2>3. p \in DOMAIN m.code
    BY DEF Body
  <2>4. i \in Instructions(m)
    BY <2>1, <2>3, CodeTyped
  <2>. HIDE DEF m, k, i
  <2>5. QED
    BY <2>1, <2>2, <2>3, <2>4
<1>2. Joins(c, ps, sh, si)
  BY ComposeJoins
<1>3. /\ q \in DOMAIN c.code
      /\ \E x : j = Muted(x, r)
  <2>. HIDE DEF c
  <2>1. q \in 1 .. Total(ps)
    BY <1>1, BodiesCover
  <2>2. j = Muted(si /\ Hands(ps, n), r)
    BY <1>2 DEF Joins
  <2>3. QED
    BY <1>2, <2>1, <2>2 DEF Joins
<1>4. Moves(r, ps, sh, n, i)
  BY RelocatedMoves
<1>5. \A t \in DOMAIN m.code : Moved(ps, n, t) = move(t) /\ move(t) # 0
  <2>1. \A t \in DOMAIN m.code : t \in Nat \ {0} /\ Moved(ps, n, t) = t + k
    BY <1>1 DEF Moved, Offset
  <2>2. QED
    BY <1>1, <2>1
<1>6. Moved(ps, n, 0) = 0 /\ 0 \notin DOMAIN m.code
  BY <1>1 DEF Moved
<1>7. move(p) = q /\ move(p + 1) = q + 1
  <2>1. \A x, y \in Nat : (x + 1) + y = (x + y) + 1
    OBVIOUS
  <2>. HIDE DEF k
  <2>2. QED
    BY <1>1, <2>1
<1>. HIDE DEF c, q, r, j, move, k, m, i
<1>8. \/ /\ i.op \in {"receive", "write", "read", "copy", "call"}
         /\ Targets(i) = {}
      \/ /\ i.op = "branch" /\ Targets(i) = {i.true, i.false, i.unknown}
         /\ Targets(i) \subseteq DOMAIN m.code
         /\ {"op", "true", "false", "unknown"} \subseteq DOMAIN i
      \/ /\ i.op \in {"wait", "emit", "handoff"} /\ Targets(i) = {i.next} \ {0}
         /\ i.next \in {0} \union DOMAIN m.code
         /\ {"op", "next"} \subseteq DOMAIN i
      \/ i.op = "halt"
  BY <1>1, ByOperation DEF Targets
<1>9. "op" \in DOMAIN i
  BY <1>1, ByOperation
<1>10. \/ j = r /\ j.op = i.op
       \/ j = Handoff(r.next) /\ i.op = "emit" /\ j.op = "handoff" /\ j.next = r.next
  BY <1>3, <1>4, <1>9 DEF Moves, Muted, Handoff
<1>11. CASE i.op \in {"receive", "write", "read", "copy", "call"}
  <2>1. Targets(i) = {} /\ Targets(j) = {} /\ j.op = i.op
    BY <1>8, <1>10, <1>11 DEF Targets
  <2>2. Successors(c, q) = {q + 1} /\ Successors(m, p) = {p + 1}
    BY <1>11, <2>1 DEF Successors, j, i
  <2>3. \A s : s \in Successors(c, q) <=> \E t \in Successors(m, p) : s = move(t)
    BY <1>7, <2>2
  <2>4. QED
    BY <1>3, <2>3 DEF c, q, m, move, k
<1>12. CASE i.op = "branch"
  <2>1. /\ j.op = "branch" /\ j.true = move(i.true) /\ j.false = move(i.false)
        /\ j.unknown = move(i.unknown)
    BY <1>4, <1>5, <1>8, <1>10, <1>12 DEF Moves
  <2>2. /\ Targets(j) = {move(i.true), move(i.false), move(i.unknown)}
        /\ Targets(i) = {i.true, i.false, i.unknown}
    BY <1>12, <2>1 DEF Targets
  <2>3. /\ Successors(c, q) = {move(i.true), move(i.false), move(i.unknown)}
        /\ Successors(m, p) = {i.true, i.false, i.unknown}
    BY <1>12, <2>1, <2>2 DEF Successors, j, i
  <2>4. \A s : s \in Successors(c, q) <=> \E t \in Successors(m, p) : s = move(t)
    BY <2>3
  <2>5. QED
    BY <1>3, <2>4 DEF c, q, m, move, k
<1>13. CASE i.op \in {"wait", "emit", "handoff"}
  <2>1. /\ j.op \in {"wait", "emit", "handoff"} /\ j.next = r.next
        /\ r.next = Moved(ps, n, i.next)
    BY <1>4, <1>8, <1>10, <1>13 DEF Moves
  <2>2. Targets(j) = {j.next} \ {0} /\ Targets(i) = {i.next} \ {0}
    BY <1>13, <2>1 DEF Targets
  <2>3. /\ Successors(c, q) = IF j.next = 0 THEN {q + 1} ELSE {j.next}
        /\ Successors(m, p) = IF i.next = 0 THEN {p + 1} ELSE {i.next}
    BY <1>13, <2>1, <2>2 DEF Successors, j, i
  <2>4. CASE i.next = 0
    <3>1. j.next = 0
      BY <1>6, <2>1, <2>4
    <3>2. QED
      BY <1>3, <1>7, <2>3, <2>4, <3>1 DEF c, q, m, move, k
  <2>5. CASE i.next # 0
    <3>1. i.next \in DOMAIN m.code
      BY <1>8, <1>13, <2>5
    <3>2. j.next = move(i.next) /\ j.next # 0
      BY <1>5, <2>1, <3>1
    <3>3. QED
      BY <1>3, <2>3, <2>5, <3>2 DEF c, q, m, move, k
  <2>6. QED
    BY <2>4, <2>5
<1>14. CASE i.op = "halt"
  <2>1. j.op = "halt"
    BY <1>10, <1>14
  <2>2. Successors(c, q) = {} /\ Successors(m, p) = {}
    BY <1>14, <2>1 DEF Successors, j, i
  <2>3. QED
    BY <1>3, <2>2 DEF c, q, m, move, k
<1>15. QED
  BY <1>8, <1>11, <1>12, <1>13, <1>14

(* No successor is outside the code.                                       *)
LEMMA SuccessorsTyped ==
  ASSUME NEW a, Valid(a), NEW p \in DOMAIN a.code
  PROVE  Successors(a, p) \subseteq DOMAIN a.code
<1>. DEFINE i == a.code[p]
<1>1. i \in Instructions(a)
  BY CodeTyped
<1>2. /\ i.op \in {"receive", "read", "write", "copy", "call"} =>
           p + 1 \in DOMAIN a.code
      /\ i.op \in {"wait", "emit", "handoff"} =>
           (IF i.next = 0 THEN p + 1 ELSE i.next) \in DOMAIN a.code
      /\ i.op = "branch" => {i.true, i.false, i.unknown} \subseteq DOMAIN a.code
  BY GoesOn
<1>3. i.op \in {"receive", "read", "write", "copy", "call", "branch", "wait",
                "emit", "handoff", "halt"}
  BY <1>1, ByOperation
<1>4. Successors(a, p) = IF i.op = "halt" THEN {}
                         ELSE IF Targets(i) # {} THEN Targets(i) ELSE {p + 1}
  BY DEF Successors
<1>. HIDE DEF i
<1>5. CASE i.op \in {"receive", "read", "write", "copy", "call"}
  <2>1. Targets(i) = {}
    BY <1>5 DEF Targets
  <2>2. QED
    BY <1>2, <1>4, <1>5, <2>1
<1>6. CASE i.op \in {"wait", "emit", "handoff"}
  <2>1. Targets(i) = {i.next} \ {0}
    BY <1>6 DEF Targets
  <2>2. QED
    BY <1>2, <1>4, <1>6, <2>1
<1>7. CASE i.op = "branch"
  <2>1. Targets(i) = {i.true, i.false, i.unknown}
    BY <1>7 DEF Targets
  <2>2. QED
    BY <1>2, <1>4, <1>7, <2>1
<1>8. QED
  BY <1>3, <1>4, <1>5, <1>6, <1>7

(* The handoff check says of a composition what it says of its components: *)
(* a composed program can be composed on just when every one of its parts  *)
(* can, whatever is shared or silenced (compose_executive_artifacts asks   *)
(* the check of its components and never of what it returns).              *)
THEOREM HandoffComposes ==
  ASSUME NEW ps, Listed(ps), NEW sh, NEW si
  PROVE  CanHandoff(Compose(ps, sh, si)) <=> \A n \in DOMAIN ps : CanHandoff(ps[n])
<1>. DEFINE c == Compose(ps, sh, si)
            L == Len(ps)
            k(n) == Offset(ps, n)
            T(n) == Terminal(ps[n])
<1>1. /\ L \in DOMAIN ps /\ 1 \in DOMAIN ps /\ k(1) = 0
      /\ \A n \in DOMAIN ps : Hands(ps, n) <=> n # L
  BY PlaceFacts DEF Placed
<1>2. \A n \in DOMAIN ps :
        /\ k(n) \in Nat /\ T(n) \in Nat \ {0} /\ n \in Nat
        /\ DOMAIN ps[n].code = 1 .. T(n)
        /\ Hands(ps, n) => n + 1 \in DOMAIN ps /\ k(n + 1) = k(n) + T(n) - 1
  BY PlaceFacts DEF Placed
<1>3. \A m, n \in DOMAIN ps : m < n => m + 1 \in DOMAIN ps /\ Hands(ps, m) /\ k(m + 1) <= k(n)
  BY PlaceFacts DEF Placed
<1>4. /\ Terminal(c) = k(L) + T(L) /\ DOMAIN c.code = 1 .. k(L) + T(L)
      /\ Terminal(c) \in Nat \ {0}
  <2>1. Joins(c, ps, sh, si) /\ Total(ps) \in Nat \ {0}
    BY ComposeJoins, BodiesCover
  <2>. HIDE DEF c
  <2>2. Len(c.code) = Total(ps) /\ DOMAIN c.code = 1 .. Total(ps)
    BY <2>1 DEF Joins
  <2>3. QED
    BY <2>1, <2>2 DEF Terminal, Total
<1>5. \A n \in DOMAIN ps : \A p \in Body(ps, n) :
        /\ p + k(n) \in DOMAIN c.code
        /\ \A s : s \in Successors(c, p + k(n)) <=>
                    \E t \in Successors(ps[n], p) : s = t + k(n)
  BY SuccessorsMove
<1>6. \A n \in DOMAIN ps : \A p \in 1 .. T(n) : Successors(ps[n], p) \subseteq 1 .. T(n)
  BY <1>2, SuccessorsTyped DEF Listed
<1>7. \A n \in DOMAIN ps : Successors(ps[n], T(n)) = {}
  BY DEF Listed, Valid, Halt, Successors
<1>8. \A n \in DOMAIN ps : \A p \in 1 .. T(n) : p = T(n) \/ p \in Body(ps, n)
  BY <1>2 DEF Body
<1>9. \A n \in DOMAIN ps : \A p \in Body(ps, n) : p \in 1 .. T(n) /\ (n # L => p # T(n))
  BY <1>1, <1>2 DEF Body
<1>10. \A q \in 1 .. Terminal(c) :
         \E n \in DOMAIN ps : \E p \in Body(ps, n) : q = p + k(n)
  BY <1>4, BodiesCover DEF Total
<1>. HIDE DEF c, k, T, L
<1>11. ASSUME CanHandoff(c), NEW m \in DOMAIN ps
       PROVE  CanHandoff(ps[m])
  <2>1. SUFFICES ASSUME NEW S \in SUBSET DOMAIN ps[m].code, 1 \in S,
                        \A p \in S : Successors(ps[m], p) \subseteq S,
                        T(m) \notin S
                 PROVE  FALSE
    BY DEF CanHandoff, T
  <2>. DEFINE R == (1 .. k(m)) \union {p + k(m) : p \in S}
  <2>2. S \subseteq Body(ps, m) /\ S \subseteq 1 .. T(m) /\ k(m) \in Nat /\ T(m) \in Nat \ {0}
    BY <1>2, <1>8, <2>1
  <2>3. 1 \in R
    BY <2>1, <2>2
  <2>4. k(m) <= k(L) + T(L)
    <3>1. CASE m = L
      BY <1>2, <1>1, <3>1
    <3>2. CASE m # L
      <4>1. Hands(ps, m) /\ m + 1 \in DOMAIN ps /\ k(m + 1) = k(m) + T(m) - 1
        BY <1>1, <1>2, <3>2
      <4>2. m < L /\ k(m + 1) <= k(L)
        BY <1>1, <1>3, <4>1 DEF Hands, L
      <4>3. k(L) \in Nat /\ T(L) \in Nat /\ k(m + 1) \in Nat
        BY <1>1, <1>2, <4>1
      <4>4. QED
        BY <2>2, <4>1, <4>2, <4>3
    <3>3. QED
      BY <3>1, <3>2
  <2>5. R \in SUBSET DOMAIN c.code
    <3>1. \A p \in S : p + k(m) \in DOMAIN c.code
      BY <1>5, <2>2
    <3>2. 1 .. k(m) \subseteq DOMAIN c.code
      BY <1>1, <1>2, <1>4, <2>2, <2>4
    <3>3. QED
      BY <3>1, <3>2
  <2>6. ASSUME NEW q \in 1 .. k(m) PROVE Successors(c, q) \subseteq R
    <3>1. q \in 1 .. Terminal(c)
      BY <1>1, <1>2, <1>4, <2>2, <2>4
    <3>2. PICK n \in DOMAIN ps : \E p \in Body(ps, n) : q = p + k(n)
      BY <1>10, <3>1
    <3>3. PICK p \in Body(ps, n) : q = p + k(n)
      BY <3>2
    <3>4. p \in 1 .. T(n) /\ k(n) \in Nat /\ T(n) \in Nat \ {0} /\ n \in Nat /\ m \in Nat
      BY <1>2, <1>9
    <3>5. n < m
      <4>1. CASE m < n
        <5>1. k(m + 1) <= k(n) /\ k(m + 1) = k(m) + T(m) - 1
          BY <1>2, <1>3, <4>1
        <5>2. QED
          BY <2>2, <3>3, <3>4, <5>1
      <4>2. CASE m = n
        BY <2>2, <3>3, <3>4, <4>2
      <4>3. QED
        BY <3>4, <4>1, <4>2
    <3>6. k(n) + T(n) <= k(m) + 1
      <4>1. k(n + 1) <= k(m) /\ k(n + 1) = k(n) + T(n) - 1
        BY <1>2, <1>3, <3>5
      <4>2. QED
        BY <2>2, <3>4, <4>1
    <3>7. ASSUME NEW s \in Successors(c, q) PROVE s \in R
      <4>1. PICK t \in Successors(ps[n], p) : s = t + k(n)
        BY <1>5, <3>3
      <4>2. t \in 1 .. T(n)
        BY <1>6, <3>4, <4>1
      <4>3. s \in 1 .. k(m) \/ s = 1 + k(m)
        BY <2>2, <3>4, <3>6, <4>1, <4>2
      <4>4. QED
        BY <2>1, <4>3
    <3>8. QED
      BY <3>7
  <2>7. ASSUME NEW p \in S PROVE Successors(c, p + k(m)) \subseteq R
    <3>1. \A s : s \in Successors(c, p + k(m)) <=>
                   \E t \in Successors(ps[m], p) : s = t + k(m)
      BY <1>5, <2>2
    <3>2. \A t \in Successors(ps[m], p) : t \in S
      BY <2>1
    <3>3. QED
      BY <3>1, <3>2
  <2>8. \A q \in R : Successors(c, q) \subseteq R
    BY <2>6, <2>7
  <2>9. k(L) + T(L) \in R
    <3>. HIDE DEF R
    <3>1. QED
      BY <1>4, <1>11, <2>3, <2>5, <2>8 DEF CanHandoff
  <2>10. /\ k(L) \in Nat /\ T(L) \in Nat \ {0}
         /\ m = L \/ k(m) + T(m) - 1 <= k(L)
    <3>1. CASE m # L
      <4>1. Hands(ps, m) /\ m + 1 \in DOMAIN ps /\ k(m + 1) = k(m) + T(m) - 1
        BY <1>1, <1>2, <3>1
      <4>2. m < L /\ k(m + 1) <= k(L)
        BY <1>1, <1>3, <4>1 DEF Hands, L
      <4>3. QED
        BY <1>1, <1>2, <4>1, <4>2
    <3>2. QED
      BY <1>1, <1>2, <3>1
  <2>11. k(L) + T(L) > k(m)
    BY <2>2, <2>10
  <2>12. PICK p \in S : k(L) + T(L) = p + k(m)
    BY <2>2, <2>9, <2>10, <2>11
  <2>13. p \in 1 .. T(m) /\ p # T(m)
    BY <2>1, <2>2
  <2>14. QED
    BY <2>2, <2>10, <2>12, <2>13
<1>12. ASSUME \A n \in DOMAIN ps : CanHandoff(ps[n])
       PROVE  CanHandoff(c)
  <2>1. SUFFICES ASSUME NEW R \in SUBSET DOMAIN c.code, 1 \in R,
                        \A p \in R : Successors(c, p) \subseteq R
                 PROVE  Terminal(c) \in R
    BY DEF CanHandoff
  <2>2. ASSUME NEW n \in DOMAIN ps, 1 + k(n) \in R
        PROVE  T(n) + k(n) \in R
    <3>. DEFINE S == {p \in 1 .. T(n) : p + k(n) \in R}
    <3>1. 1 \in S /\ S \in SUBSET DOMAIN ps[n].code
      BY <1>2, <2>2
    <3>2. ASSUME NEW p \in S PROVE Successors(ps[n], p) \subseteq S
      <4>1. CASE p = T(n)
        BY <1>7, <4>1
      <4>2. CASE p # T(n)
        <5>1. p \in Body(ps, n)
          BY <1>8, <4>2
        <5>2. \A t \in Successors(ps[n], p) : t + k(n) \in Successors(c, p + k(n))
          BY <1>5, <5>1
        <5>3. Successors(c, p + k(n)) \subseteq R
          BY <2>1
        <5>4. Successors(ps[n], p) \subseteq 1 .. T(n)
          BY <1>6
        <5>5. QED
          BY <5>2, <5>3, <5>4
      <4>3. QED
        BY <4>1, <4>2
    <3>3. T(n) \in S
      <4>. HIDE DEF S
      <4>1. QED
        BY <1>12, <3>1, <3>2 DEF CanHandoff, T
    <3>4. QED
      BY <3>3
  <2>3. \A n \in DOMAIN ps : 1 + k(n) \in R
    <3>. DEFINE Bad == {n \in DOMAIN ps : 1 + k(n) \notin R}
    <3>1. SUFFICES ASSUME Bad # {} PROVE FALSE
      OBVIOUS
    <3>2. PICK n \in Bad : \A m \in Bad : n <= m
      <4>1. Bad \in SUBSET Nat
        BY <1>2
      <4>. HIDE DEF Bad
      <4>2. QED
        BY <3>1, <4>1, LeastOf
    <3>3. n \in DOMAIN ps /\ n \in Nat /\ 1 + k(n) \notin R
      BY <1>2
    <3>4. n # 1
      BY <1>1, <2>1, <3>3
    <3>5. PICK m \in DOMAIN ps : m < n /\ m + 1 = n
      <4>1. n - 1 \in DOMAIN ps /\ n - 1 < n /\ (n - 1) + 1 = n
        BY <3>3, <3>4 DEF Listed
      <4>2. QED
        BY <4>1
    <3>6. m \notin Bad
      BY <1>2, <3>2, <3>3, <3>5
    <3>7. T(m) + k(m) \in R
      BY <2>2, <3>5, <3>6
    <3>8. Hands(ps, m) /\ k(m + 1) = k(m) + T(m) - 1
      BY <1>2, <1>3, <3>3, <3>5
    <3>9. T(m) + k(m) = 1 + k(n)
      BY <1>2, <3>5, <3>8
    <3>10. QED
      BY <3>3, <3>7, <3>9
  <2>4. T(L) + k(L) = Terminal(c)
    BY <1>1, <1>2, <1>4
  <2>5. QED
    BY <1>1, <2>2, <2>3, <2>4
<1>13. QED
  BY <1>11, <1>12 DEF c
==================================================================================
