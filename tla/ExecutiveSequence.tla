--------------------------- MODULE ExecutiveSequence ---------------------------
(***************************************************************************)
(* What compose_executive_artifacts promises (its docstring,               *)
(* src/src/neural_computer/executive_bank.py:308): the components run one  *)
(* after the other, each as it is.  A component that comes to its terminal *)
(* HALT hands over to the next one in the same tick.                       *)
(***************************************************************************)
EXTENDS ExecutiveProgram

CONSTANTS Artifacts, Chains, Inputs, MaxInstructions

VARIABLES
  parts,      (* the artifacts, in their order                             *)
  share,      (* equal operators have one state                            *)
  silent,     (* only the last component's intentions leave the program    *)
  committed,  (* the state between ticks: the component that runs (at), its*)
              (* pointer, a workspace for each component, an accumulator,  *)
              (* and the operators' states                                 *)
  status, work, events, executed

programVars == <<parts, share, silent>>
vars == <<programVars, committed, status, work, events, executed>>

Ticking == events # "none"

Start(chain, sharing) ==
  [at |-> 1, ptr |-> 1,
   ws |-> [n \in DOMAIN chain |-> [s \in 1 .. chain[n].slots |-> Empty]],
   acc |-> Empty,
   ops |-> [k \in {Key(chain, sharing, o) : o \in Owners(chain)} |-> "absent"]]

Init ==
  /\ parts \in Chains /\ share \in BOOLEAN /\ silent \in BOOLEAN
  /\ CanCompose(parts) \/ (Len(parts) = 1 /\ ~ share /\ ~ silent)
  /\ committed = Start(parts, share) /\ work = committed
  /\ status = "ready" /\ events = "none" /\ executed = 0

Tick(input) ==
  /\ ~ Ticking /\ status \notin {"halted", "step_budget_exhausted"}
  /\ events' = input
  /\ UNCHANGED <<programVars, committed, status, work, executed>>

Running == parts[work.at]
IsLast  == work.at = Len(parts)

(* The state as the component that runs sees it.                           *)
Own ==
  [ptr |-> work.ptr, ws |-> work.ws[work.at], acc |-> work.acc,
   ops |-> [h \in Handles(Running) |-> work.ops[Key(parts, share, <<work.at, h>>)]]]

(* An EMIT that is to leave nothing only moves on.                         *)
Hushed == silent /\ ~ IsLast /\ Running.code[work.ptr].op = "emit"

(* A component's operators of equal specification share their state with   *)
(* each other too: the one that the instruction called decides it.         *)
Changed(k, ops) ==
  {h \in Handles(Running) :
     Key(parts, share, <<work.at, h>>) = k /\ ops[h] # work.ops[k]}

Seen(own) ==
  LET over == ~ IsLast /\ own.ptr = Terminal(Running)
  IN [at  |-> IF over THEN work.at + 1 ELSE work.at,
      ptr |-> IF over THEN 1 ELSE own.ptr,
      ws  |-> [work.ws EXCEPT ![work.at] = own.ws],
      acc |-> own.acc,
      ops |-> [k \in DOMAIN work.ops |->
                 IF Changed(k, own.ops) = {} THEN work.ops[k]
                 ELSE own.ops[CHOOSE h \in Changed(k, own.ops) : TRUE]]]

Does ==
  IF Hushed THEN Outcome("on", Goto(Own, Running.code[work.ptr].next))
  ELSE Execute(Running, Own, events)

Return(w, s) ==
  /\ work' = w /\ committed' = w /\ status' = s
  /\ events' = "none" /\ executed' = 0
  /\ UNCHANGED programVars

Continues ==
  /\ Ticking /\ Does.end = "on" /\ executed + 1 < MaxInstructions
  /\ work' = Seen(Does.w)
  /\ executed' = executed + 1
  /\ UNCHANGED <<programVars, committed, status, events>>

Ends(end, result) == Does.end = end /\ Return(Seen(Does.w), result)

Next ==
  \/ \E input \in Inputs : Tick(input)
  \/ Continues
  \/ /\ Ticking
     /\ \/ executed + 1 >= MaxInstructions /\ Ends("on", "step_budget_exhausted")
        \/ Ends("wait", "waiting") \/ Ends("emit", "emitted")
        \/ Ends("halt", "halted")
        \/ Does.end = "raise" /\ Return(committed, status)

Spec == Init /\ [][Next]_vars
=============================================================================
