------------------------------ MODULE MCExecutive ------------------------------
(* Artifacts for Executive: every first component with a body of one or two*)
(* instructions of an alphabet, and named ones like those the repository   *)
(* builds: an n-back policy, a prelude that feeds a delay, a wait loop.    *)
(* They run alone, in pairs, and in chains of three and four.              *)
EXTENDS Executive

Artifact(body, slots, specs) ==
  [code |-> Append(body, Halt), slots |-> slots, specs |-> specs]

(* Two operators, with handles that leave a gap.                           *)
Sparse == [h \in {0, 2} |-> IF h = 0 THEN "singleton_event_value" ELSE "value_delay"]

Alphabet ==
  {Receive(1), Read(1), Write(2), Copy(1, 2), Call(0, <<1>>, 2), Call(2, <<2>>, 2),
   Wait(0), Wait(1), Emit(1, 0), Handoff(1), Handoff(3), Halt,
   Branch(1, 1, 2, 3), Branch(1, 2, 2, 1)}

Small ==
  {Artifact(body, 2, Sparse) :
     body \in {b \in UNION {[1 .. n -> Alphabet] : n \in 1 .. 2} :
                 Valid([code |-> Append(b, Halt), slots |-> 2, specs |-> Sparse])}}

(* Delays the event's value, and waits or hands off.                       *)
Prelude(last) ==
  Artifact(<<Receive(1), Call(0, <<1>>, 2), Call(2, <<2>>, 2), last>>, 2, Sparse)

(* Says whether the value equals the delayed one, and emits the answer.    *)
NBackSpecs ==
  [h \in 0 .. 3 |->
     <<"singleton_event_value", "value_delay", "value_equality_evidence",
       "evidence_binary_intention">>[h + 1]]

NBack(unknown) ==
  Artifact(<<Receive(1), Call(0, <<1>>, 1), Call(1, <<1>>, 2), Call(2, <<1, 2>>, 2),
             Branch(2, 6, 6, unknown), Call(3, <<2>>, 1), Emit(1, 1), Wait(1)>>,
           2, NBackSpecs)

Firsts ==
  Small \union {Prelude(Wait(0)), Prelude(Handoff(5)), NBack(8), NBack(9)}

Seconds ==
  {NBack(8), NBack(9),
   Artifact(<<Write(1), Wait(0), Read(1)>>, 1, << >>),
   Artifact(<<Receive(1), Wait(1)>>, 1, Sparse)}

(* Chains of up to four: components between a first and a last one.        *)
Opening == Artifact(<<Receive(1)>>, 1, << >>)

Middles ==
  {Prelude(Handoff(5)), Artifact(<<Copy(1, 2), Emit(1, 3)>>, 2, Sparse),
   Artifact(<<Receive(1), Call(0, <<1>>, 2), Wait(4)>>, 2, Sparse)}

MCArtifacts == Firsts \union Seconds \union Middles \union {Opening}

MCChains ==
  {<<a>> : a \in Firsts \union Seconds} \union (Firsts \X Seconds)
    \union ({Opening, NBack(9)} \X Middles \X Seconds)
    \union ({Opening} \X Middles \X Middles \X Seconds)
=============================================================================
