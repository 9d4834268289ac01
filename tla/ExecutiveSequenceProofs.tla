------------------------- MODULE ExecutiveSequenceProofs -------------------------
(***************************************************************************)
(* Executive implements ExecutiveSequence, for every set of valid          *)
(* artifacts, compositions of any number of them, every input and every    *)
(* budget: what a composed artifact does is what its components do one     *)
(* after the other.                                                        *)
(*                                                                         *)
(* Layout says how the components lie in the program (their operators,     *)
(* slots, code and pointers); View is what the one that runs sees of the   *)
(* program's locals; Simulates that its instruction and the program's      *)
(* agree; SeenAgrees that the split state moves as ExecutiveSequence says. *)
(*                                                                         *)
(* The last part says what a composition of compositions is (Nests): the   *)
(* composition of all their components (CompositionsNest).                 *)
(***************************************************************************)
EXTENDS ExecutiveProofs

(* Kinds, in the order of their first operators, and handles.              *)

(* The owner of an operator, typed.                                        *)
LEMMA OwnersTyped ==
  ASSUME NEW ps, Listed(ps), NEW o \in Owners(ps)
  PROVE  /\ o = <<o[1], o[2]>> /\ o[1] \in DOMAIN ps /\ o[2] \in Handles(ps[o[1]])
         /\ o[1] \in Nat /\ o[2] \in Nat
BY OwnersOf, OwnerTyped

(* A kind has a first operator.                                            *)
LEMMA FirstOccurrence ==
  ASSUME NEW ps, Listed(ps), NEW X, X \subseteq Owners(ps), X # {}
  PROVE  \E x \in X : \A y \in X : x = y \/ Before(x, y)
<1>1. \A o \in X : o = <<o[1], o[2]>> /\ o[1] \in Nat /\ o[2] \in Nat
  BY OwnersTyped
<1>. DEFINE Ns == {o[1] : o \in X}
            At(n) == {o[2] : o \in {x \in X : x[1] = n}}
<1>2. (\A n : At(n) \in SUBSET Nat) /\ Ns \in SUBSET Nat /\ Ns # {}
  BY <1>1
<1>. HIDE DEF Ns
<1>3. PICK n \in Ns : \A m \in Ns : n <= m
  BY <1>2, LeastOf
<1>. USE DEF Ns
<1>4. At(n) # {} /\ n \in Nat /\ \A y \in X : n <= y[1]
  BY <1>1, <1>3
<1>5. PICK h \in At(n) : \A g \in At(n) : h <= g
  <2>. HIDE DEF At
  <2>1. QED
    BY <1>2, <1>4, LeastOf
<1>6. PICK x \in X : x[1] = n /\ x[2] = h
  BY <1>5
<1>7. ASSUME NEW y \in X PROVE x = y \/ Before(x, y)
  <2>1. CASE y[1] = n
    <3>1. h <= y[2] /\ h \in Nat /\ y[2] \in Nat
      BY <1>1, <1>2, <1>5, <2>1
    <3>2. CASE h = y[2]
      BY <1>1, <1>6, <2>1, <3>2
    <3>3. CASE h < y[2]
      BY <1>6, <2>1, <3>3 DEF Before
    <3>4. QED
      BY <3>1, <3>2, <3>3
  <2>2. CASE y[1] # n
    <3>1. n <= y[1] /\ n \in Nat /\ y[1] \in Nat
      BY <1>1, <1>4
    <3>2. n < y[1]
      BY <2>2, <3>1
    <3>3. QED
      BY <1>6, <3>2 DEF Before
  <2>3. QED
    BY <2>1, <2>2
<1>8. QED
  BY <1>7

(* Before is a strict order.                                               *)
LEMMA BeforeOrders ==
  ASSUME NEW ps, Listed(ps),
         NEW x \in Owners(ps), NEW y \in Owners(ps), NEW z \in Owners(ps)
  PROVE  /\ ~ Before(x, x)
         /\ Before(x, y) /\ Before(y, z) => Before(x, z)
         /\ x = y \/ Before(x, y) \/ Before(y, x)
<1>1. \A o \in {x, y, z} : o = <<o[1], o[2]>> /\ o[2] \in Nat
  BY OwnersTyped
<1>2. \A o \in {x, y, z} : o[1] \in Nat
  BY OwnersTyped
<1>3. ~ Before(x, x)
  BY <1>1, <1>2 DEF Before
<1>4. Before(x, y) /\ Before(y, z) => Before(x, z)
  BY <1>1, <1>2 DEF Before
<1>5. x = y \/ Before(x, y) \/ Before(y, x)
  <2>1. x[1] = y[1] \/ x[1] < y[1] \/ y[1] < x[1]
    BY <1>2
  <2>2. x[2] = y[2] \/ x[2] < y[2] \/ y[2] < x[2]
    BY <1>1
  <2>3. x[1] = y[1] /\ x[2] = y[2] => x = y
    BY <1>1
  <2>4. QED
    BY <2>1, <2>2, <2>3 DEF Before
<1>6. QED
  BY <1>3, <1>4, <1>5

Earlier(ps, k) == {j \in Kinds(ps) : FirstBefore(ps, j, k)}

(* There are four kinds of operators.                                      *)
LEMMA FourKinds == IsFiniteSet(OperatorKinds)
<1>1. OperatorKinds = ((({} \union {"singleton_event_value"}) \union {"value_delay"})
                        \union {"value_equality_evidence"})
                        \union {"evidence_binary_intention"}
  BY DEF OperatorKinds
<1>2. QED
  BY <1>1, FS_EmptySet, FS_AddElement

(* The kinds before a given one are finitely many.                         *)
LEMMA KindsFinite ==
  ASSUME NEW ps, Listed(ps), NEW k
  PROVE  IsFiniteSet(Earlier(ps, k))
<1>1. \A o \in Owners(ps) : ps[o[1]].specs[o[2]] \in OperatorKinds
  BY OwnersOf, OwnerTyped
<1>2. Earlier(ps, k) \subseteq OperatorKinds
  BY <1>1 DEF Kinds, Earlier
<1>3. QED
  BY <1>2, FourKinds, FS_Subset

(* Of two kinds one comes first, and only one.                             *)
LEMMA OneComesFirst ==
  ASSUME NEW ps, Listed(ps), NEW j \in Kinds(ps), NEW k \in Kinds(ps)
  PROVE  /\ ~ (FirstBefore(ps, j, k) /\ FirstBefore(ps, k, j))
         /\ j = k \/ FirstBefore(ps, j, k) \/ FirstBefore(ps, k, j)
<1>1. \A i : OccursAt(ps, i) \subseteq Owners(ps)
  BY DEF OccursAt
<1>2. OccursAt(ps, j) # {} /\ OccursAt(ps, k) # {}
  BY DEF Kinds, OccursAt
<1>3. PICK x \in OccursAt(ps, j) : \A y \in OccursAt(ps, j) : x = y \/ Before(x, y)
  BY <1>1, <1>2, FirstOccurrence
<1>4. PICK y \in OccursAt(ps, k) : \A z \in OccursAt(ps, k) : y = z \/ Before(y, z)
  BY <1>1, <1>2, FirstOccurrence
<1>5. x \in Owners(ps) /\ y \in Owners(ps)
  BY <1>1, <1>3, <1>4
<1>6. ASSUME FirstBefore(ps, j, k), FirstBefore(ps, k, j) PROVE FALSE
  <2>1. PICK u \in OccursAt(ps, j) : \A z \in OccursAt(ps, k) : Before(u, z)
    BY <1>6 DEF FirstBefore
  <2>2. PICK v \in OccursAt(ps, k) : \A z \in OccursAt(ps, j) : Before(v, z)
    BY <1>6 DEF FirstBefore
  <2>3. Before(u, v) /\ Before(v, u) /\ u \in Owners(ps) /\ v \in Owners(ps)
    BY <1>1, <2>1, <2>2
  <2>4. QED
    BY <2>3, BeforeOrders
<1>7. Before(x, y) => FirstBefore(ps, j, k)
  <2>1. \A z \in OccursAt(ps, k) : Before(x, y) => Before(x, z)
    BY <1>1, <1>4, <1>5, BeforeOrders
  <2>2. QED
    BY <1>3, <2>1 DEF FirstBefore
<1>8. Before(y, x) => FirstBefore(ps, k, j)
  <2>1. \A z \in OccursAt(ps, j) : Before(y, x) => Before(y, z)
    BY <1>1, <1>3, <1>5, BeforeOrders
  <2>2. QED
    BY <1>4, <2>1 DEF FirstBefore
<1>9. x = y => j = k
  BY <1>3, <1>4 DEF OccursAt
<1>10. x = y \/ Before(x, y) \/ Before(y, x)
  BY <1>5, BeforeOrders
<1>11. QED
  BY <1>6, <1>7, <1>8, <1>9, <1>10

(* A kind that comes first has the lower rank.                             *)
LEMMA RanksFollow ==
  ASSUME NEW ps, Listed(ps), NEW j \in Kinds(ps), NEW k \in Kinds(ps),
         FirstBefore(ps, j, k)
  PROVE  /\ Cardinality(Earlier(ps, j)) \in Nat /\ Cardinality(Earlier(ps, k)) \in Nat
         /\ Cardinality(Earlier(ps, j)) < Cardinality(Earlier(ps, k))
<1>. DEFINE F == Earlier(ps, j)
            G == Earlier(ps, k)
<1>1. IsFiniteSet(F) /\ IsFiniteSet(G)
  BY KindsFinite
<1>2. j \in G /\ j \notin F
  BY OneComesFirst DEF Earlier
<1>3. F \subseteq G
  <2>. SUFFICES ASSUME NEW i \in F PROVE i \in G
    OBVIOUS
  <2>1. PICK z \in OccursAt(ps, i) : \A o \in OccursAt(ps, j) : Before(z, o)
    BY DEF Earlier, FirstBefore
  <2>2. PICK u \in OccursAt(ps, j) : \A o \in OccursAt(ps, k) : Before(u, o)
    BY DEF FirstBefore
  <2>3. \A o \in OccursAt(ps, k) : Before(z, o)
    <3>1. \A l : OccursAt(ps, l) \subseteq Owners(ps)
      BY DEF OccursAt
    <3>2. Before(z, u)
      BY <2>1, <2>2
    <3>3. QED
      BY <2>1, <2>2, <3>1, <3>2, BeforeOrders
  <2>4. QED
    BY <2>1, <2>3 DEF Earlier, FirstBefore
<1>. HIDE DEF F, G
<1>4. Cardinality(F) < Cardinality(G) /\ Cardinality(F) \in Nat /\ Cardinality(G) \in Nat
  BY <1>1, <1>2, <1>3, FS_Subset, FS_CardinalityType
<1>5. QED
  BY <1>4 DEF F, G

(* No two kinds have the same rank.                                        *)
LEMMA RanksDiffer ==
  ASSUME NEW ps, Listed(ps), NEW j \in Kinds(ps), NEW k \in Kinds(ps), j # k
  PROVE  Cardinality(Earlier(ps, j)) # Cardinality(Earlier(ps, k))
<1>1. CASE FirstBefore(ps, j, k)
  <2>1. /\ Cardinality(Earlier(ps, j)) \in Nat /\ Cardinality(Earlier(ps, k)) \in Nat
        /\ Cardinality(Earlier(ps, j)) < Cardinality(Earlier(ps, k))
    BY <1>1, RanksFollow
  <2>2. QED
    BY <2>1
<1>2. CASE FirstBefore(ps, k, j)
  <2>1. /\ Cardinality(Earlier(ps, j)) \in Nat /\ Cardinality(Earlier(ps, k)) \in Nat
        /\ Cardinality(Earlier(ps, k)) < Cardinality(Earlier(ps, j))
    BY <1>2, RanksFollow
  <2>2. QED
    BY <2>1
<1>3. QED
  BY <1>1, <1>2, OneComesFirst

(* Two operators have one handle exactly if they share their state.        *)
LEMMA HandlesByKey ==
  ASSUME NEW ps, Listed(ps), NEW sh, NEW x \in Owners(ps), NEW y \in Owners(ps)
  PROVE  HandleMap(ps, sh, x[1], x[2]) = HandleMap(ps, sh, y[1], y[2])
           <=> Key(ps, sh, x) = Key(ps, sh, y)
<1>. DEFINE kind(o) == ps[o[1]].specs[o[2]]
<1>1. CASE sh
  <2>1. kind(x) \in Kinds(ps) /\ kind(y) \in Kinds(ps)
    BY DEF Kinds
  <2>2. /\ HandleMap(ps, sh, x[1], x[2]) = Cardinality(Earlier(ps, kind(x)))
        /\ HandleMap(ps, sh, y[1], y[2]) = Cardinality(Earlier(ps, kind(y)))
    BY <1>1 DEF HandleMap, Earlier
  <2>3. Key(ps, sh, x) = kind(x) /\ Key(ps, sh, y) = kind(y)
    BY <1>1 DEF Key
  <2>. HIDE DEF kind
  <2>4. kind(x) # kind(y) => Cardinality(Earlier(ps, kind(x))) # Cardinality(Earlier(ps, kind(y)))
    BY <2>1, RanksDiffer
  <2>5. QED
    BY <2>2, <2>3, <2>4
<1>2. CASE ~ sh
  <2>1. \A o \in {x, y} : /\ o = <<o[1], o[2]>> /\ o[1] \in DOMAIN ps
                          /\ o[2] \in Handles(ps[o[1]])
    BY OwnersTyped
  <2>2. Key(ps, sh, x) = x /\ Key(ps, sh, y) = y
    BY <1>2 DEF Key
  <2>3. HandleMap(ps, sh, x[1], x[2]) = HandleMap(ps, sh, y[1], y[2]) =>
          x[1] = y[1] /\ x[2] = y[2]
    BY <1>2, <2>1, HandlesApart
  <2>4. QED
    BY <2>1, <2>2, <2>3
<1>3. QED
  BY <1>1, <1>2

(* Behind its handle is an operator of the component's own kind.           *)
LEMMA SpecsKept ==
  ASSUME NEW ps, Listed(ps), NEW sh, NEW si, NEW n \in DOMAIN ps, NEW h \in Handles(ps[n])
  PROVE  Compose(ps, sh, si).specs[HandleMap(ps, sh, n, h)] = ps[n].specs[h]
<1>. DEFINE becomes(o) == HandleMap(ps, sh, o[1], o[2])
            H == {becomes(o) : o \in Owners(ps)}
            chosen(g) == CHOOSE x \in Owners(ps) : becomes(x) = g
            o == <<n, h>>
            x == chosen(becomes(o))
<1>1. o \in Owners(ps) /\ o[1] = n /\ o[2] = h
  BY OwnersOf
<1>2. Compose(ps, sh, si).specs = [g \in H |-> ps[chosen(g)[1]].specs[chosen(g)[2]]]
  BY DEF Compose
<1>3. becomes(o) \in H
  BY <1>1
<1>4. Compose(ps, sh, si).specs[becomes(o)] = ps[x[1]].specs[x[2]]
  <2>. HIDE DEF H, becomes, chosen
  <2>1. QED
    BY <1>2, <1>3
<1>5. x \in Owners(ps) /\ becomes(x) = becomes(o)
  <2>1. \E y \in Owners(ps) : becomes(y) = becomes(o)
    BY <1>1
  <2>2. QED
    BY <2>1
<1>. HIDE DEF x, o
<1>6. Key(ps, sh, x) = Key(ps, sh, o)
  BY <1>1, <1>5, HandlesByKey
<1>7. ps[x[1]].specs[x[2]] = ps[o[1]].specs[o[2]]
  BY <1>6 DEF Key
<1>8. QED
  BY <1>1, <1>4, <1>7

(* How the components lie in the program that runs.                        *)
OperatorsLie(ps, sh, c) ==
  /\ \A n \in DOMAIN ps : \A h \in Handles(ps[n]) :
       /\ <<n, h>> \in Owners(ps)
       /\ HandleMap(ps, sh, n, h) \in Handles(c)
       /\ c.specs[HandleMap(ps, sh, n, h)] = ps[n].specs[h]
  /\ \A o \in Owners(ps) : /\ o = <<o[1], o[2]>> /\ o[1] \in DOMAIN ps
                           /\ o[2] \in Handles(ps[o[1]])
  /\ \A x, y \in Owners(ps) :
       HandleMap(ps, sh, x[1], x[2]) = HandleMap(ps, sh, y[1], y[2])
         <=> Key(ps, sh, x) = Key(ps, sh, y)

CodeLies(ps, sh, si, c) ==
  \A n \in DOMAIN ps : \A p \in Body(ps, n) :
    LET i == ps[n].code[p]
        j == c.code[p + Offset(ps, n)]
    IN IF si /\ Hands(ps, n) /\ i.op = "emit" THEN j = Handoff(Moved(ps, n, i.next))
       ELSE Moves(j, ps, sh, n, i)

PointersLie(ps, c) ==
  /\ \A p \in DOMAIN c.code :
       \E n \in DOMAIN ps : \E q \in Body(ps, n) : p = q + Offset(ps, n)
  /\ \A n \in DOMAIN ps : \A t \in Nat : Moved(ps, n, t) = IF t = 0 THEN 0 ELSE t + Offset(ps, n)

Chain(ps) ==
  Listed(ps) /\ \A n \in DOMAIN ps : Hands(ps, n) => Terminal(ps[n]) > 1

Layout(ps, sh, si, c) ==
  /\ Chain(ps) /\ Valid(c) /\ \A n \in DOMAIN ps : Valid(ps[n])
  /\ OperatorsLie(ps, sh, c) /\ SlotsLie(ps, c)
  /\ CodeLies(ps, sh, si, c) /\ PointersLie(ps, c)

(* A program alone lies in itself.                                         *)
LEMMA AloneLies ==
  ASSUME NEW ps, Listed(ps), Len(ps) = 1, NEW si
  PROVE  Layout(ps, FALSE, si, ps[1])
<1>. DEFINE a == ps[1]
<1>1. DOMAIN ps = {1} /\ ~ Hands(ps, 1) /\ Chain(ps) /\ Valid(a)
  BY DEF Chain, Hands, Listed
<1>2. /\ Terminal(a) \in Nat \ {0} /\ DOMAIN a.code = 1 .. Terminal(a)
      /\ \A p \in DOMAIN a.code : a.code[p] \in Instructions(a)
      /\ Handles(a) \subseteq Nat /\ a.slots \in Nat
  BY <1>1, CodeTyped DEF Valid
<1>3. \A o : o \in Owners(ps) <=> \E h \in Handles(a) : o = <<1, h>>
  BY <1>1, OwnersOf
<1>4. Offset(ps, 1) = 0 /\ SlotOffsets(ps)[1] = 0 /\ HandleOffsets(ps)[1] = 0
  BY PlaceFacts, OffsetFacts DEF Placed, Adds
<1>5. /\ \A h \in Handles(a) : HandleMap(ps, FALSE, 1, h) = h
      /\ \A o : Key(ps, FALSE, o) = o
      /\ \A s \in 1 .. a.slots : SlotOf(ps, 1, s) = s
      /\ \A t \in Nat : Moved(ps, 1, t) = t
  <2>1. \A x \in Nat : x + 0 = x
    OBVIOUS
  <2>2. \A h \in Handles(a) : HandleMap(ps, FALSE, 1, h) = h
    BY <1>2, <1>4, <2>1 DEF HandleMap
  <2>3. \A s \in 1 .. a.slots : SlotOf(ps, 1, s) = s
    BY <1>2, <1>4, <2>1 DEF SlotOf
  <2>4. \A t \in Nat : Moved(ps, 1, t) = t
    BY <1>4, <2>1 DEF Moved, Offset
  <2>5. QED
    BY <2>2, <2>3, <2>4 DEF Key
<1>6. Body(ps, 1) = DOMAIN a.code
  BY <1>1 DEF Body
<1>. HIDE DEF a
<1>7. ps[1] = a
  BY DEF a
<1>8. OperatorsLie(ps, FALSE, a)
  <2>1. \A n \in DOMAIN ps : \A h \in Handles(ps[n]) :
          /\ <<n, h>> \in Owners(ps)
          /\ HandleMap(ps, FALSE, n, h) \in Handles(a)
          /\ a.specs[HandleMap(ps, FALSE, n, h)] = ps[n].specs[h]
    BY <1>1, <1>3, <1>5, <1>7
  <2>2. \A o \in Owners(ps) : /\ o = <<o[1], o[2]>> /\ o[1] \in DOMAIN ps
                              /\ o[2] \in Handles(ps[o[1]])
    BY <1>1, <1>3, <1>7
  <2>3. \A x, y \in Owners(ps) : x[2] = y[2] <=> x = y
    BY <1>3
  <2>4. \A x \in Owners(ps) : HandleMap(ps, FALSE, x[1], x[2]) = x[2]
    BY <1>1, <1>5, <1>7, <2>2
  <2>5. \A x, y \in Owners(ps) :
          HandleMap(ps, FALSE, x[1], x[2]) = HandleMap(ps, FALSE, y[1], y[2])
            <=> Key(ps, FALSE, x) = Key(ps, FALSE, y)
    <3>1. TAKE x, y \in Owners(ps)
    <3>2. HandleMap(ps, FALSE, x[1], x[2]) = x[2] /\ HandleMap(ps, FALSE, y[1], y[2]) = y[2]
      BY <2>4
    <3>3. Key(ps, FALSE, x) = x /\ Key(ps, FALSE, y) = y
      BY <1>5
    <3>4. x[2] = y[2] <=> x = y
      BY <2>3
    <3>5. QED
      BY <3>2, <3>3, <3>4, Zenon
  <2>6. QED
    BY <2>1, <2>2, <2>5 DEF OperatorsLie
<1>9. SlotsLie(ps, a)
  BY <1>1, <1>5, <1>7 DEF SlotsLie
<1>10. CodeLies(ps, FALSE, si, a)
  <2>1. SUFFICES ASSUME NEW p \in DOMAIN a.code
                 PROVE  Moves(a.code[p], ps, FALSE, 1, a.code[p])
    <3>1. \A p \in DOMAIN a.code : p + 0 = p
      BY <1>2
    <3>2. \A n \in DOMAIN ps : n = 1 /\ ~ Hands(ps, n) /\ ps[n] = a
      BY <1>1, <1>7
    <3>3. \A p \in Body(ps, 1) :
            /\ a.code[p + Offset(ps, 1)] = a.code[p]
            /\ Moves(a.code[p], ps, FALSE, 1, a.code[p])
      BY <1>4, <1>6, <2>1, <3>1
    <3>4. QED
      BY <3>2, <3>3 DEF CodeLies
  <2>. DEFINE i == a.code[p]
  <2>2. i \in Instructions(a)
    BY <1>2
  <2>3. i = [f \in DOMAIN i |-> i[f]]
    BY <2>2 DEF Instructions
  <2>. HIDE DEF i
  <2>4. /\ "src" \in DOMAIN i => i.src \in 1 .. a.slots
        /\ "dst" \in DOMAIN i => i.dst \in 1 .. a.slots
        /\ "handle" \in DOMAIN i => i.handle \in Handles(a)
        /\ "args" \in DOMAIN i => i.args \in Seq(1 .. a.slots)
        /\ "next" \in DOMAIN i => i.next \in {0} \union DOMAIN a.code
        /\ "true" \in DOMAIN i => {i.true, i.false, i.unknown} \subseteq DOMAIN a.code
        /\ "true" \in DOMAIN i <=> "false" \in DOMAIN i
        /\ "true" \in DOMAIN i <=> "unknown" \in DOMAIN i
    BY <2>2, ByOperation
  <2>5. DOMAIN a.code \subseteq Nat
    BY <1>2
  <2>6. "args" \in DOMAIN i =>
          i.args = [k \in DOMAIN i.args |-> SlotOf(ps, 1, i.args[k])]
    <3>1. ASSUME NEW s \in Seq(1 .. a.slots)
          PROVE  s = [k \in DOMAIN s |-> SlotOf(ps, 1, s[k])]
      <4>1. s = [k \in DOMAIN s |-> s[k]]
        OBVIOUS
      <4>2. \A k \in DOMAIN s : s[k] \in 1 .. a.slots
        BY Elements
      <4>3. \A k \in DOMAIN s : SlotOf(ps, 1, s[k]) = s[k]
        BY <1>5, <4>2
      <4>4. QED
        BY <4>1, <4>3
    <3>2. QED
      BY <2>4, <3>1
  <2>7. Moves(i, ps, FALSE, 1, i)
    BY <1>5, <2>3, <2>4, <2>5, <2>6 DEF Moves
  <2>8. QED
    BY <2>7 DEF i
<1>11. PointersLie(ps, a)
  <2>1. \A p \in DOMAIN a.code : p = p + 0
    BY <1>2
  <2>2. \A p \in DOMAIN a.code : \E q \in Body(ps, 1) : p = q + Offset(ps, 1)
    BY <1>4, <1>6, <2>1
  <2>3. \A t \in Nat : Moved(ps, 1, t) = IF t = 0 THEN 0 ELSE t + Offset(ps, 1)
    BY DEF Moved, Offset
  <2>4. QED
    BY <1>1, <2>2, <2>3 DEF PointersLie
<1>12. QED
  BY <1>1, <1>7, <1>8, <1>9, <1>10, <1>11 DEF Layout

(* The components of a list lie in their composition.                      *)
LEMMA ListLies ==
  ASSUME NEW ps, Listed(ps), CanCompose(ps), NEW sh, NEW si
  PROVE  Layout(ps, sh, si, Compose(ps, sh, si))
<1>. DEFINE c == Compose(ps, sh, si)
<1>1. Joins(c, ps, sh, si)
  BY ComposeJoins
<1>2. Valid(c) /\ (\A n \in DOMAIN ps : Valid(ps[n])) /\ Chain(ps)
  BY ComposedIsValid DEF Listed, Chain, CanCompose
<1>3. OperatorsLie(ps, sh, c)
  <2>1. ASSUME NEW n \in DOMAIN ps, NEW h \in Handles(ps[n])
        PROVE  /\ <<n, h>> \in Owners(ps)
               /\ HandleMap(ps, sh, n, h) \in Handles(c)
               /\ c.specs[HandleMap(ps, sh, n, h)] = ps[n].specs[h]
    <3>1. <<n, h>> \in Owners(ps)
      BY OwnersOf
    <3>2. HandleMap(ps, sh, n, h) \in Handles(c)
      BY ComposedHandles
    <3>3. c.specs[HandleMap(ps, sh, n, h)] = ps[n].specs[h]
      BY SpecsKept
    <3>4. QED
      BY <3>1, <3>2, <3>3
  <2>2. \A o \in Owners(ps) : /\ o = <<o[1], o[2]>> /\ o[1] \in DOMAIN ps
                              /\ o[2] \in Handles(ps[o[1]])
    BY OwnersTyped
  <2>3. \A x, y \in Owners(ps) :
          HandleMap(ps, sh, x[1], x[2]) = HandleMap(ps, sh, y[1], y[2])
            <=> Key(ps, sh, x) = Key(ps, sh, y)
    BY HandlesByKey
  <2>. HIDE DEF c
  <2>4. QED
    BY <2>1, <2>2, <2>3 DEF OperatorsLie
<1>. HIDE DEF c
<1>4. SlotsLie(ps, c)
  BY <1>1, SlotsApart DEF Joins
<1>5. CodeLies(ps, sh, si, c)
  <2>1. ASSUME NEW n \in DOMAIN ps, NEW p \in Body(ps, n)
        PROVE  LET i == ps[n].code[p]
                   j == c.code[p + Offset(ps, n)]
               IN IF si /\ Hands(ps, n) /\ i.op = "emit" THEN j = Handoff(Moved(ps, n, i.next))
                  ELSE Moves(j, ps, sh, n, i)
    <3>. DEFINE i == ps[n].code[p]
                j == c.code[p + Offset(ps, n)]
                r == Relocated(ps, sh, n, i)
    <3>1. j = Muted(si /\ Hands(ps, n), r)
      BY <1>1 DEF Joins
    <3>2. i \in Instructions(ps[n])
      BY CodeTyped DEF Listed, Body
    <3>3. Moves(r, ps, sh, n, i)
      BY RelocatedMoves
    <3>. HIDE DEF r, i, j
    <3>4. "op" \in DOMAIN i /\ (i.op = "emit" => "next" \in DOMAIN i)
      BY <3>2, ByOperation
    <3>5. r.op = i.op /\ (i.op = "emit" => r.next = Moved(ps, n, i.next))
      BY <3>3, <3>4 DEF Moves
    <3>6. IF si /\ Hands(ps, n) /\ i.op = "emit" THEN j = Handoff(Moved(ps, n, i.next))
          ELSE Moves(j, ps, sh, n, i)
      BY <3>1, <3>3, <3>5 DEF Muted
    <3>7. QED
      BY <3>6 DEF i, j
  <2>2. QED
    BY <2>1 DEF CodeLies
<1>6. PointersLie(ps, c)
  <2>1. \A p \in DOMAIN c.code : \E n \in DOMAIN ps : \E q \in Body(ps, n) : p = q + Offset(ps, n)
    BY <1>1, BodiesCover DEF Joins
  <2>2. \A n \in DOMAIN ps : \A t \in Nat : Moved(ps, n, t) = IF t = 0 THEN 0 ELSE t + Offset(ps, n)
    BY DEF Moved, Offset
  <2>3. QED
    BY <2>1, <2>2 DEF PointersLie
<1>7. QED
  BY <1>2, <1>3, <1>4, <1>5, <1>6 DEF Layout, c
(* The locals as the n-th component sees them.                             *)
View(ps, sh, n, w) ==
  [ptr |-> w.ptr - Offset(ps, n),
   ws  |-> [s \in 1 .. ps[n].slots |-> w.ws[SlotOf(ps, n, s)]],
   acc |-> w.acc,
   ops |-> [h \in Handles(ps[n]) |-> w.ops[HandleMap(ps, sh, n, h)]]]

(* The n-th component runs.                                                *)
Runs(ps, sh, si, c, n, w) ==
  /\ Layout(ps, sh, si, c) /\ n \in DOMAIN ps /\ w \in StatesOf(c)
  /\ w.ptr - Offset(ps, n) \in Body(ps, n)

(* What the component made of its view, x, is what the program made of the *)
(* locals, X, which else are as they were.                                 *)
Data(ps, sh, c, n, w, x, X) ==
  /\ x.ws \in [1 .. ps[n].slots -> Values] /\ x.ops \in [Handles(ps[n]) -> Inputs]
  /\ X.acc = x.acc
  /\ \A s \in 1 .. ps[n].slots : X.ws[SlotOf(ps, n, s)] = x.ws[s]
  /\ \A m \in DOMAIN ps \ {n} : \A s \in 1 .. ps[m].slots :
       X.ws[SlotOf(ps, m, s)] = w.ws[SlotOf(ps, m, s)]
  /\ \/ x.ops = View(ps, sh, n, w).ops /\ X.ops = w.ops
     \/ \E h \in Handles(ps[n]) :
          /\ X.ops[HandleMap(ps, sh, n, h)] = x.ops[h]
          /\ \A g \in Handles(ps[n]) \ {h} : x.ops[g] = w.ops[HandleMap(ps, sh, n, g)]
          /\ \A g \in Handles(c) \ {HandleMap(ps, sh, n, h)} : X.ops[g] = w.ops[g]

(* Offsets and code, typed.                                                *)
LEMMA OffsetTyped ==
  ASSUME NEW ps, NEW sh, NEW si, NEW c, Layout(ps, sh, si, c), NEW n \in DOMAIN ps
  PROVE  /\ Offset(ps, n) \in Nat /\ DOMAIN ps[n].code \subseteq Nat
         /\ Terminal(ps[n]) \in Nat \ {0} /\ DOMAIN ps[n].code = 1 .. Terminal(ps[n])
<1>1. Placed(ps)
  BY PlaceFacts DEF Layout, Chain
<1>2. /\ Offset(ps, n) \in Nat /\ Terminal(ps[n]) \in Nat \ {0}
      /\ DOMAIN ps[n].code = 1 .. Terminal(ps[n])
  BY <1>1 DEF Placed
<1>3. QED
  BY <1>2

(* What a component sees is a state of it, inside its body.                *)
LEMMA ViewTyped ==
  ASSUME NEW ps, NEW sh, NEW si, NEW c, NEW n, NEW w, Runs(ps, sh, si, c, n, w)
  PROVE  LET v == View(ps, sh, n, w) IN
         /\ v \in StatesOf(ps[n]) /\ v.ptr \in Body(ps, n)
         /\ v.ptr \in Nat /\ w.ptr = v.ptr + Offset(ps, n)
<1>. DEFINE v == View(ps, sh, n, w)
<1>1. n \in DOMAIN ps /\ Layout(ps, sh, si, c) /\ w.ptr \in DOMAIN c.code
      /\ w.ws \in [1 .. c.slots -> Values] /\ w.acc \in Values
      /\ w.ops \in [Handles(c) -> Inputs]
  BY DEF Runs, StatesOf
<1>2. /\ \A s \in 1 .. ps[n].slots : SlotOf(ps, n, s) \in 1 .. c.slots
      /\ \A h \in Handles(ps[n]) : HandleMap(ps, sh, n, h) \in Handles(c)
  BY <1>1 DEF Layout, SlotsLie, OperatorsLie
<1>3. w.ptr \in Nat /\ Offset(ps, n) \in Nat
  BY <1>1, CodeTyped, OffsetTyped DEF Layout
<1>4. v.ptr = w.ptr - Offset(ps, n) /\ v.acc = w.acc
      /\ v.ws = [s \in 1 .. ps[n].slots |-> w.ws[SlotOf(ps, n, s)]]
      /\ v.ops = [h \in Handles(ps[n]) |-> w.ops[HandleMap(ps, sh, n, h)]]
      /\ v = [ptr |-> v.ptr, ws |-> v.ws, acc |-> v.acc, ops |-> v.ops]
  BY DEF View
<1>. HIDE DEF v
<1>5. v.ptr \in Body(ps, n) /\ v.ptr \in DOMAIN ps[n].code
  BY <1>4 DEF Runs, Body
<1>6. v.ws \in [1 .. ps[n].slots -> Values] /\ v.ops \in [Handles(ps[n]) -> Inputs]
  <2>1. \A s \in 1 .. ps[n].slots : w.ws[SlotOf(ps, n, s)] \in Values
    BY <1>1, <1>2
  <2>2. v.ws \in [1 .. ps[n].slots -> Values]
    BY <1>4, <2>1
  <2>3. \A h \in Handles(ps[n]) : w.ops[HandleMap(ps, sh, n, h)] \in Inputs
    BY <1>1, <1>2
  <2>4. v.ops \in [Handles(ps[n]) -> Inputs]
    BY <1>4, <2>3
  <2>5. QED
    BY <2>2, <2>4
<1>7. v \in StatesOf(ps[n])
  BY <1>1, <1>4, <1>5, <1>6 DEF StatesOf
<1>8. v.ptr \in Nat /\ w.ptr = v.ptr + Offset(ps, n)
  BY <1>1, <1>3, <1>4, <1>5, OffsetTyped
<1>9. QED
  BY <1>5, <1>7, <1>8 DEF v

(* What a component sees, field by field.                                  *)
LEMMA ViewFields ==
  ASSUME NEW ps, NEW sh, NEW n, NEW w
  PROVE  LET v == View(ps, sh, n, w) IN
         /\ v.acc = w.acc
         /\ \A s \in 1 .. ps[n].slots : v.ws[s] = w.ws[SlotOf(ps, n, s)]
         /\ \A h \in Handles(ps[n]) : v.ops[h] = w.ops[HandleMap(ps, sh, n, h)]
BY DEF View

(* Nothing is stored.                                                      *)
LEMMA DataSame ==
  ASSUME NEW ps, NEW sh, NEW si, NEW c, NEW n, NEW w, Runs(ps, sh, si, c, n, w),
         NEW x, NEW X, x.ws = View(ps, sh, n, w).ws, x.ops = View(ps, sh, n, w).ops,
         X.ws = w.ws, X.ops = w.ops, x.acc = X.acc
  PROVE  Data(ps, sh, c, n, w, x, X)
<1>. DEFINE v == View(ps, sh, n, w)
<1>1. v.ws \in [1 .. ps[n].slots -> Values] /\ v.ops \in [Handles(ps[n]) -> Inputs]
  BY ViewTyped DEF StatesOf
<1>2. \A s \in 1 .. ps[n].slots : v.ws[s] = w.ws[SlotOf(ps, n, s)]
  BY ViewFields
<1>. HIDE DEF v
<1>3. x.ws = v.ws /\ x.ops = v.ops
  BY DEF v
<1>4. QED
  BY <1>1, <1>2, <1>3 DEF Data, v

(* A value is stored in a slot.                                            *)
LEMMA DataStore ==
  ASSUME NEW ps, NEW sh, NEW si, NEW c, NEW n, NEW w, Runs(ps, sh, si, c, n, w),
         NEW value \in Values, NEW d \in 1 .. ps[n].slots,
         NEW x, NEW X, x.ws = [View(ps, sh, n, w).ws EXCEPT ![d] = value],
         x.ops = View(ps, sh, n, w).ops,
         X.ws = [w.ws EXCEPT ![SlotOf(ps, n, d)] = value], X.ops = w.ops, x.acc = X.acc
  PROVE  Data(ps, sh, c, n, w, x, X)
<1>. DEFINE v == View(ps, sh, n, w)
            vs == v.ws
            us == w.ws
            S == 1 .. ps[n].slots
            at(s) == SlotOf(ps, n, s)
<1>1. vs \in [S -> Values] /\ v.ops \in [Handles(ps[n]) -> Inputs]
      /\ us \in [1 .. c.slots -> Values]
  BY ViewTyped DEF StatesOf, Runs
<1>2. \A s \in S : vs[s] = us[at(s)]
  BY ViewFields
<1>3. /\ \A m \in DOMAIN ps : \A s \in 1 .. ps[m].slots : SlotOf(ps, m, s) \in 1 .. c.slots
      /\ \A m \in DOMAIN ps : \A s \in 1 .. ps[m].slots :
           at(d) = SlotOf(ps, m, s) => n = m /\ d = s
      /\ n \in DOMAIN ps
  BY DEF Runs, Layout, SlotsLie
<1>4. x.ws = [vs EXCEPT ![d] = value] /\ X.ws = [us EXCEPT ![at(d)] = value]
      /\ x.ops = v.ops
  OBVIOUS
<1>5. d \in S
  OBVIOUS
<1>. HIDE DEF v, vs, us, S, at
<1>6. x.ws \in [S -> Values]
  BY <1>1, <1>4
<1>7. \A s \in S : X.ws[at(s)] = x.ws[s]
  BY <1>1, <1>2, <1>3, <1>4, <1>5 DEF at, S
<1>8. \A m \in DOMAIN ps \ {n} : \A s \in 1 .. ps[m].slots :
        X.ws[SlotOf(ps, m, s)] = us[SlotOf(ps, m, s)]
  BY <1>1, <1>3, <1>4
<1>9. QED
  BY <1>1, <1>4, <1>6, <1>7, <1>8 DEF Data, v, us, S, at

(* A CALL stores a value and its operator's state.                         *)
LEMMA DataCall ==
  ASSUME NEW ps, NEW sh, NEW si, NEW c, NEW n, NEW w, Runs(ps, sh, si, c, n, w),
         NEW value \in Values, NEW d \in 1 .. ps[n].slots,
         NEW after \in Inputs, NEW h \in Handles(ps[n]),
         NEW x, NEW X, x.ws = [View(ps, sh, n, w).ws EXCEPT ![d] = value],
         x.ops = [View(ps, sh, n, w).ops EXCEPT ![h] = after],
         X.ws = [w.ws EXCEPT ![SlotOf(ps, n, d)] = value],
         X.ops = [w.ops EXCEPT ![HandleMap(ps, sh, n, h)] = after], x.acc = X.acc
  PROVE  Data(ps, sh, c, n, w, x, X)
<1>. DEFINE v == View(ps, sh, n, w)
            g0 == HandleMap(ps, sh, n, h)
            vo == v.ops
            wo == w.ops
            y2 == [ws |-> x.ws, ops |-> v.ops, acc |-> x.acc]
            Y2 == [ws |-> X.ws, ops |-> w.ops, acc |-> X.acc]
<1>1. Data(ps, sh, c, n, w, y2, Y2)
  BY DataStore
<1>2. /\ x.ws \in [1 .. ps[n].slots -> Values] /\ X.acc = x.acc
      /\ \A s \in 1 .. ps[n].slots : X.ws[SlotOf(ps, n, s)] = x.ws[s]
      /\ \A m \in DOMAIN ps \ {n} : \A s \in 1 .. ps[m].slots :
           X.ws[SlotOf(ps, m, s)] = w.ws[SlotOf(ps, m, s)]
  <2>1. y2.ws = x.ws /\ Y2.ws = X.ws /\ y2.acc = x.acc /\ Y2.acc = X.acc
    OBVIOUS
  <2>. HIDE DEF y2, Y2
  <2>2. QED
    BY <1>1, <2>1 DEF Data
<1>3. vo \in [Handles(ps[n]) -> Inputs] /\ wo \in [Handles(c) -> Inputs]
  BY ViewTyped DEF StatesOf, Runs
<1>4. g0 \in Handles(c) /\ \A g \in Handles(ps[n]) : vo[g] = wo[HandleMap(ps, sh, n, g)]
  <2>1. g0 \in Handles(c)
    BY DEF Runs, Layout, OperatorsLie
  <2>2. \A g \in Handles(ps[n]) : vo[g] = wo[HandleMap(ps, sh, n, g)]
    BY ViewFields
  <2>. HIDE DEF vo, wo, g0
  <2>3. QED
    BY <2>1, <2>2
<1>5. x.ops = [vo EXCEPT ![h] = after] /\ X.ops = [wo EXCEPT ![g0] = after]
  OBVIOUS
<1>. HIDE DEF vo, wo, v, g0
<1>6. x.ops \in [Handles(ps[n]) -> Inputs]
  BY <1>3, <1>5
<1>7. /\ X.ops[g0] = x.ops[h]
      /\ \A g \in Handles(ps[n]) \ {h} : x.ops[g] = wo[HandleMap(ps, sh, n, g)]
      /\ \A g \in Handles(c) \ {g0} : X.ops[g] = wo[g]
  BY <1>3, <1>4, <1>5
<1>8. QED
  BY <1>2, <1>6, <1>7 DEF Data, wo, g0

(* What a store changes.                                                   *)
LEMMA StoreFields ==
  ASSUME NEW a, NEW w \in StatesOf(a), NEW v \in Values, NEW d \in 1 .. a.slots
  PROVE  LET x == [w EXCEPT !.ws[d] = v] IN
         /\ x \in StatesOf(a) /\ x.ptr = w.ptr /\ x.acc = w.acc
         /\ x.ws = [w.ws EXCEPT ![d] = v] /\ x.ops = w.ops
BY DEF StatesOf

(* What a load changes.                                                    *)
LEMMA LoadFields ==
  ASSUME NEW a, NEW w \in StatesOf(a), NEW v \in Values
  PROVE  LET x == [w EXCEPT !.acc = v] IN
         /\ x \in StatesOf(a) /\ x.ptr = w.ptr /\ x.acc = v /\ x.ws = w.ws /\ x.ops = w.ops
BY DEF StatesOf

Called(w, d, v, h, after) == [w EXCEPT !.ws[d] = v, !.acc = v, !.ops[h] = after]

(* What a CALL changes.                                                    *)
LEMMA CallFields ==
  ASSUME NEW a, NEW w \in StatesOf(a), NEW v \in Values, NEW d \in 1 .. a.slots,
         NEW after \in Inputs, NEW h \in Handles(a)
  PROVE  LET x == Called(w, d, v, h, after) IN
         /\ x \in StatesOf(a) /\ x.ptr = w.ptr /\ x.acc = v
         /\ x.ws = [w.ws EXCEPT ![d] = v] /\ x.ops = [w.ops EXCEPT ![h] = after]
BY DEF StatesOf, Called

(* A step of the component agrees with one of the program.                 *)
Agrees(ps, sh, c, n, w, x, X) ==
  Data(ps, sh, c, n, w, x, X) /\ X.ptr = x.ptr + Offset(ps, n)

(* Data is not about pointers.                                             *)
LEMMA DataOnly ==
  ASSUME NEW ps, NEW sh, NEW c, NEW n, NEW w, NEW x, NEW X, Data(ps, sh, c, n, w, x, X),
         NEW y, NEW Y, y.ws = x.ws, y.acc = x.acc, y.ops = x.ops,
         Y.ws = X.ws, Y.acc = X.acc, Y.ops = X.ops
  PROVE  Data(ps, sh, c, n, w, y, Y)
BY DEF Data

(* A jump of the component is a jump of the program.                       *)
LEMMA JumpAgrees ==
  ASSUME NEW ps, NEW sh, NEW si, NEW c, NEW n, NEW w, Runs(ps, sh, si, c, n, w),
         NEW x \in StatesOf(ps[n]), NEW X \in StatesOf(c), Data(ps, sh, c, n, w, x, X),
         x.ptr = View(ps, sh, n, w).ptr, X.ptr = w.ptr
  PROVE  /\ Agrees(ps, sh, c, n, w, Next1(x), Next1(X))
         /\ \A t \in {0} \union DOMAIN ps[n].code :
              Agrees(ps, sh, c, n, w, Goto(x, t), Goto(X, Moved(ps, n, t)))
<1>1. /\ x.ptr \in Nat /\ X.ptr = x.ptr + Offset(ps, n) /\ Offset(ps, n) \in Nat
      /\ {0} \union DOMAIN ps[n].code \subseteq Nat /\ n \in DOMAIN ps
  BY ViewTyped, OffsetTyped DEF Runs
<1>2. ASSUME NEW z, NEW a, z \in StatesOf(a), NEW q
      PROVE  LET y == [z EXCEPT !.ptr = q]
             IN y.ptr = q /\ y.ws = z.ws /\ y.acc = z.acc /\ y.ops = z.ops
  BY <1>2 DEF StatesOf
<1>3. ASSUME NEW p \in Nat
      PROVE  Agrees(ps, sh, c, n, w, [x EXCEPT !.ptr = p], [X EXCEPT !.ptr = p + Offset(ps, n)])
  <2>. DEFINE y == [x EXCEPT !.ptr = p]
              Y == [X EXCEPT !.ptr = p + Offset(ps, n)]
  <2>1. y.ptr = p /\ y.ws = x.ws /\ y.acc = x.acc /\ y.ops = x.ops
    BY <1>2
  <2>2. Y.ptr = p + Offset(ps, n) /\ Y.ws = X.ws /\ Y.acc = X.acc /\ Y.ops = X.ops
    BY <1>2
  <2>. HIDE DEF y, Y
  <2>3. Data(ps, sh, c, n, w, y, Y)
    BY <2>1, <2>2, DataOnly
  <2>4. Agrees(ps, sh, c, n, w, y, Y)
    BY <2>1, <2>2, <2>3 DEF Agrees
  <2>5. QED
    BY <2>4 DEF y, Y
<1>4. Agrees(ps, sh, c, n, w, Next1(x), Next1(X))
  <2>1. Next1(x) = [x EXCEPT !.ptr = x.ptr + 1] /\ Next1(X) = [X EXCEPT !.ptr = X.ptr + 1]
    BY DEF Next1
  <2>2. X.ptr + 1 = (x.ptr + 1) + Offset(ps, n) /\ x.ptr + 1 \in Nat
    BY <1>1
  <2>3. QED
    BY <1>3, <2>1, <2>2
<1>5. ASSUME NEW t \in {0} \union DOMAIN ps[n].code
      PROVE  Agrees(ps, sh, c, n, w, Goto(x, t), Goto(X, Moved(ps, n, t)))
  <2>1. t \in Nat /\ Moved(ps, n, t) = IF t = 0 THEN 0 ELSE t + Offset(ps, n)
    BY <1>1 DEF Runs, Layout, PointersLie
  <2>2. CASE t = 0
    <3>1. Moved(ps, n, t) = 0
      BY <2>1, <2>2
    <3>2. Goto(x, t) = Next1(x) /\ Goto(X, Moved(ps, n, t)) = Next1(X)
      BY <2>2, <3>1 DEF Goto
    <3>3. QED
      BY <1>4, <3>2
  <2>3. CASE t # 0
    <3>1. Moved(ps, n, t) = t + Offset(ps, n) /\ t + Offset(ps, n) # 0
      BY <1>1, <2>1, <2>3
    <3>2. /\ Goto(x, t) = [x EXCEPT !.ptr = t]
          /\ Goto(X, Moved(ps, n, t)) = [X EXCEPT !.ptr = t + Offset(ps, n)]
      BY <2>3, <3>1 DEF Goto
    <3>3. QED
      BY <1>3, <2>1, <3>2
  <2>4. QED
    BY <2>2, <2>3
<1>6. QED
  BY <1>4, <1>5

(* What the n-th component does; one that is to leave nothing moves on.    *)
Does(ps, sh, si, n, w, e) ==
  LET v == View(ps, sh, n, w)
      i == ps[n].code[v.ptr]
  IN IF si /\ Hands(ps, n) /\ i.op = "emit" THEN Outcome("on", Goto(v, i.next))
     ELSE Execute(ps[n], v, e)

Matches(ps, sh, c, n, w, o, O) ==
  o.end = O.end /\ (o.end # "raise" => Agrees(ps, sh, c, n, w, o.w, O.w))

(* Outcomes with the same end match if their locals agree.                 *)
LEMMA OutcomesMatch ==
  ASSUME NEW ps, NEW sh, NEW c, NEW n, NEW w, NEW x, NEW X,
         Agrees(ps, sh, c, n, w, x, X), NEW end
  PROVE  Matches(ps, sh, c, n, w, Outcome(end, x), Outcome(end, X))
BY DEF Matches, Outcome

(* What the program does is what its component that runs does: the same    *)
(* end, and locals that agree unless an exception loses them.              *)
LEMMA Simulates ==
  ASSUME NEW ps, NEW sh, NEW si, NEW c, NEW n, NEW w, Runs(ps, sh, si, c, n, w),
         NEW e \in Inputs
  PROVE  Matches(ps, sh, c, n, w, Does(ps, sh, si, n, w, e), Execute(c, w, e))
<1>. DEFINE m == ps[n]
            v == View(ps, sh, n, w)
            i == m.code[v.ptr]
            j == c.code[w.ptr]
            slot(s) == SlotOf(ps, n, s)
            o == Execute(m, v, e)
            O == Execute(c, w, e)
            M(y, Y) == Matches(ps, sh, c, n, w, y, Y)
<1>1. /\ n \in DOMAIN ps /\ Layout(ps, sh, si, c) /\ w \in StatesOf(c) /\ Valid(m)
      /\ v \in StatesOf(m) /\ v.ptr \in Body(ps, n) /\ w.ptr = v.ptr + Offset(ps, n)
      /\ i \in Instructions(m) /\ Valid(c)
  BY ViewTyped, CodeTyped DEF Runs, Layout, Body
<1>2. IF si /\ Hands(ps, n) /\ i.op = "emit" THEN j = Handoff(Moved(ps, n, i.next))
      ELSE Moves(j, ps, sh, n, i)
  BY <1>1 DEF Layout, CodeLies
<1>3. /\ v.acc = w.acc
      /\ \A s \in 1 .. m.slots : v.ws[s] = w.ws[slot(s)]
      /\ \A h \in Handles(m) : v.ops[h] = w.ops[HandleMap(ps, sh, n, h)]
  BY ViewFields
<1>4. \A s \in 1 .. m.slots : slot(s) \in 1 .. c.slots
  BY <1>1 DEF Layout, SlotsLie
<1>5. \A h \in Handles(m) : /\ HandleMap(ps, sh, n, h) \in Handles(c)
                            /\ c.specs[HandleMap(ps, sh, n, h)] = m.specs[h]
  BY <1>1 DEF Layout, OperatorsLie
<1>6. /\ \A s \in 1 .. m.slots : v.ws[s] \in Values
      /\ v.acc \in Values /\ \A h \in Handles(m) : v.ops[h] \in Inputs
  BY <1>1 DEF StatesOf
<1>7. Agrees(ps, sh, c, n, w, v, w)
  <2>1. Data(ps, sh, c, n, w, v, w)
    BY <1>3, DataSame
  <2>2. QED
    BY <1>1, <2>1 DEF Agrees
<1>8. M(Raised(v), Raised(w))
  BY <1>7, OutcomesMatch DEF Raised
<1>9. \A t \in {0} \union DOMAIN m.code :
        Agrees(ps, sh, c, n, w, Goto(v, t), Goto(w, Moved(ps, n, t)))
  BY <1>1, <1>7, JumpAgrees DEF Agrees
<1>10. ASSUME NEW d \in 1 .. m.slots, NEW value \in Values
       PROVE  M(Outcome("on", Next1([v EXCEPT !.ws[d] = value])),
                Outcome("on", Next1([w EXCEPT !.ws[slot(d)] = value])))
  <2>. DEFINE x == [v EXCEPT !.ws[d] = value]
              X == [w EXCEPT !.ws[slot(d)] = value]
  <2>1. /\ x \in StatesOf(m) /\ x.ptr = v.ptr /\ x.acc = v.acc
        /\ x.ws = [v.ws EXCEPT ![d] = value] /\ x.ops = v.ops
    BY <1>1, StoreFields
  <2>2. /\ X \in StatesOf(c) /\ X.ptr = w.ptr /\ X.acc = w.acc
        /\ X.ws = [w.ws EXCEPT ![slot(d)] = value] /\ X.ops = w.ops
    BY <1>1, <1>4, StoreFields
  <2>. HIDE DEF x, X
  <2>3. Data(ps, sh, c, n, w, x, X)
    BY <1>3, <2>1, <2>2, DataStore
  <2>4. Agrees(ps, sh, c, n, w, Next1(x), Next1(X))
    BY <2>1, <2>2, <2>3, JumpAgrees
  <2>5. QED
    BY <2>4, OutcomesMatch DEF x, X
<1>11. ASSUME NEW d \in 1 .. m.slots, NEW value \in Values,
              NEW after \in Inputs, NEW h \in Handles(m)
       PROVE  M(Outcome("on", Next1(Called(v, d, value, h, after))),
                Outcome("on", Next1(Called(w, slot(d), value, HandleMap(ps, sh, n, h), after))))
  <2>. DEFINE x == Called(v, d, value, h, after)
              g == HandleMap(ps, sh, n, h)
              X == Called(w, slot(d), value, g, after)
  <2>1. /\ x \in StatesOf(m) /\ x.ptr = v.ptr /\ x.acc = value
        /\ x.ws = [v.ws EXCEPT ![d] = value] /\ x.ops = [v.ops EXCEPT ![h] = after]
    <3>. HIDE DEF v, m
    <3>1. QED
      BY <1>1, CallFields
  <2>2. /\ X \in StatesOf(c) /\ X.ptr = w.ptr /\ X.acc = value
        /\ X.ws = [w.ws EXCEPT ![slot(d)] = value] /\ X.ops = [w.ops EXCEPT ![g] = after]
    <3>1. slot(d) \in 1 .. c.slots /\ g \in Handles(c)
      BY <1>4, <1>5
    <3>. HIDE DEF g, slot
    <3>2. QED
      BY <1>1, <3>1, CallFields
  <2>. HIDE DEF x, X
  <2>3. Data(ps, sh, c, n, w, x, X)
    BY <2>1, <2>2, DataCall
  <2>4. Agrees(ps, sh, c, n, w, Next1(x), Next1(X))
    BY <2>1, <2>2, <2>3, JumpAgrees
  <2>5. QED
    BY <2>4, OutcomesMatch DEF x, X
<1>. HIDE DEF M
<1>12. CASE si /\ Hands(ps, n) /\ i.op = "emit"
  <2>1. Does(ps, sh, si, n, w, e) = Outcome("on", Goto(v, i.next))
    BY <1>12 DEF Does
  <2>2. i.next \in {0} \union DOMAIN m.code
    BY <1>1, <1>12, ByOperation
  <2>. DEFINE t == Moved(ps, n, i.next)
  <2>3. j = Handoff(t)
    BY <1>2, <1>12
  <2>4. Agrees(ps, sh, c, n, w, Goto(v, i.next), Goto(w, t))
    BY <1>9, <2>2
  <2>. HIDE DEF t
  <2>5. j.op = "handoff" /\ j.next = t
    BY <2>3 DEF Handoff
  <2>6. O = Outcome("on", Goto(w, t))
    BY <2>5 DEF Execute
  <2>7. QED
    BY <2>1, <2>4, <2>6, OutcomesMatch
<1>13. CASE ~ (si /\ Hands(ps, n) /\ i.op = "emit")
  <2>. SUFFICES M(o, O)
    BY <1>13 DEF Does, M
  <2>1. Moves(j, ps, sh, n, i)
    BY <1>2, <1>13
  <2>2. j.op = i.op
    BY <1>1, <2>1, ByOperation DEF Moves
  <2>3. CASE i.op = "receive"
    <3>1. i.dst \in 1 .. m.slots /\ j.dst = slot(i.dst) /\ <<"events", e>> \in Values
      BY <1>1, <2>1, <2>3, ByOperation, ValuesFacts DEF Moves
    <3>2. o = Outcome("on", Next1([v EXCEPT !.ws[i.dst] = <<"events", e>>]))
      BY <2>3 DEF Execute
    <3>3. O = Outcome("on", Next1([w EXCEPT !.ws[slot(i.dst)] = <<"events", e>>]))
      BY <2>2, <2>3, <3>1 DEF Execute
    <3>. HIDE DEF o, O, i, j
    <3>4. QED
      BY <1>10, <3>1, <3>2, <3>3
  <2>4. CASE i.op = "read"
    <3>. DEFINE value == v.ws[i.src]
    <3>1. i.src \in 1 .. m.slots /\ j.src = slot(i.src)
      BY <1>1, <2>1, <2>4, ByOperation DEF Moves
    <3>2. w.ws[j.src] = value /\ value \in Values
      BY <1>3, <1>6, <3>1
    <3>. DEFINE x == [v EXCEPT !.acc = value]
                X == [w EXCEPT !.acc = value]
    <3>3. o = IF value = Empty THEN Raised(v) ELSE Outcome("on", Next1(x))
      BY <2>4 DEF Execute
    <3>4. O = IF value = Empty THEN Raised(w) ELSE Outcome("on", Next1(X))
      BY <2>2, <2>4, <3>2 DEF Execute
    <3>. HIDE DEF o, O, value
    <3>5. x \in StatesOf(m) /\ x.ptr = v.ptr /\ x.acc = value /\ x.ws = v.ws /\ x.ops = v.ops
      BY <1>1, <3>2, LoadFields
    <3>6. X \in StatesOf(c) /\ X.ptr = w.ptr /\ X.acc = value /\ X.ws = w.ws /\ X.ops = w.ops
      BY <1>1, <3>2, LoadFields
    <3>. HIDE DEF x, X
    <3>7. Data(ps, sh, c, n, w, x, X)
      BY <3>5, <3>6, DataSame
    <3>8. M(Outcome("on", Next1(x)), Outcome("on", Next1(X)))
      <4>1. Agrees(ps, sh, c, n, w, Next1(x), Next1(X))
        BY <3>5, <3>6, <3>7, JumpAgrees
      <4>2. QED
        BY <4>1, OutcomesMatch DEF M
    <3>9. QED
      BY <1>8, <3>3, <3>4, <3>8
  <2>5. CASE i.op = "write"
    <3>. DEFINE value == v.acc
    <3>1. i.dst \in 1 .. m.slots /\ j.dst = slot(i.dst) /\ value \in Values /\ w.acc = value
      BY <1>1, <1>3, <1>6, <2>1, <2>5, ByOperation DEF Moves
    <3>2. o = IF value = Empty THEN Raised(v)
              ELSE Outcome("on", Next1([v EXCEPT !.ws[i.dst] = value]))
      BY <2>5 DEF Execute
    <3>3. O = IF value = Empty THEN Raised(w)
              ELSE Outcome("on", Next1([w EXCEPT !.ws[slot(i.dst)] = value]))
      BY <2>2, <2>5, <3>1 DEF Execute
    <3>. HIDE DEF o, O, i, j, value
    <3>4. QED
      BY <1>8, <1>10, <3>1, <3>2, <3>3
  <2>6. CASE i.op = "copy"
    <3>. DEFINE value == v.ws[i.src]
    <3>1. /\ i.src \in 1 .. m.slots /\ j.src = slot(i.src)
          /\ i.dst \in 1 .. m.slots /\ j.dst = slot(i.dst)
      BY <1>1, <2>1, <2>6, ByOperation DEF Moves
    <3>2. w.ws[j.src] = value /\ value \in Values
      BY <1>3, <1>6, <3>1
    <3>3. o = IF value = Empty THEN Raised(v)
              ELSE Outcome("on", Next1([v EXCEPT !.ws[i.dst] = value]))
      BY <2>6 DEF Execute
    <3>4. O = IF value = Empty THEN Raised(w)
              ELSE Outcome("on", Next1([w EXCEPT !.ws[slot(i.dst)] = value]))
      BY <2>2, <2>6, <3>1, <3>2 DEF Execute
    <3>. HIDE DEF o, O, i, j, value
    <3>5. QED
      BY <1>8, <1>10, <3>1, <3>2, <3>3, <3>4
  <2>7. CASE i.op = "call"
    <3>. DEFINE kind  == m.specs[i.handle]
                args  == [k \in DOMAIN i.args |-> v.ws[i.args[k]]]
                state == v.ops[i.handle]
                value == Result(kind, args, state)
                after == StateAfter(kind, args, state)
                g     == HandleMap(ps, sh, n, i.handle)
                x == Called(v, i.dst, value, i.handle, after)
                X == Called(w, slot(i.dst), value, g, after)
    <3>1. /\ i.handle \in Handles(m) /\ i.dst \in 1 .. m.slots
          /\ i.args \in Seq(1 .. m.slots)
          /\ j.handle = g /\ j.dst = slot(i.dst)
          /\ j.args = [k \in DOMAIN i.args |-> slot(i.args[k])]
      BY <1>1, <2>1, <2>7, ByOperation DEF Moves
    <3>2. \A k \in DOMAIN i.args : i.args[k] \in 1 .. m.slots
      BY <3>1, Elements
    <3>3. [k \in DOMAIN j.args |-> w.ws[j.args[k]]] = args
      <4>1. DOMAIN j.args = DOMAIN i.args /\ \A k \in DOMAIN i.args : j.args[k] = slot(i.args[k])
        BY <3>1
      <4>2. \A k \in DOMAIN i.args : w.ws[j.args[k]] = v.ws[i.args[k]]
        BY <1>3, <3>2, <4>1
      <4>3. QED
        BY <4>1, <4>2
    <3>4. c.specs[g] = kind /\ w.ops[g] = state /\ g \in Handles(c)
      BY <1>3, <1>5, <3>1
    <3>5. o = IF WellTyped(kind, args) THEN Outcome("on", Next1(x)) ELSE Raised(v)
      BY <2>7 DEF Execute, CallOutcome, Called
    <3>6. O = IF WellTyped(kind, args) THEN Outcome("on", Next1(X)) ELSE Raised(w)
      <4>1. O = CallOutcome(j, c.specs, w)
        BY <2>2, <2>7 DEF Execute
      <4>. HIDE DEF kind, args, state, g
      <4>2. QED
        BY <3>1, <3>3, <3>4, <4>1 DEF CallOutcome, Called
    <3>7. kind \in OperatorKinds /\ state \in Inputs
      BY <1>1, <1>6, <3>1 DEF Valid
    <3>8. args \in Seq(Values)
      <4>1. \A k \in DOMAIN i.args : v.ws[i.args[k]] \in Values
        BY <1>6, <3>2
      <4>2. DOMAIN i.args = 1 .. Len(i.args) /\ Len(i.args) \in Nat
        BY <3>1
      <4>3. QED
        BY <4>1, <4>2
    <3>. HIDE DEF kind, args, state, g
    <3>9. WellTyped(kind, args) => value \in Values /\ after \in Inputs
      BY <3>7, <3>8, ResultTyped
    <3>. HIDE DEF value, after
    <3>10. ASSUME WellTyped(kind, args)
           PROVE  M(Outcome("on", Next1(x)), Outcome("on", Next1(X)))
      <4>1. value \in Values /\ after \in Inputs
        BY <3>9, <3>10
      <4>. DEFINE d == i.dst
                  h == i.handle
      <4>2. d \in 1 .. m.slots /\ h \in Handles(m)
        BY <3>1
      <4>. HIDE DEF d, h
      <4>3. M(Outcome("on", Next1(Called(v, d, value, h, after))),
              Outcome("on", Next1(Called(w, slot(d), value, HandleMap(ps, sh, n, h), after))))
        BY <1>11, <4>1, <4>2
      <4>4. QED
        BY <4>3 DEF d, h, g
    <3>. HIDE DEF x, X, o, O
    <3>11. QED
      BY <1>8, <3>5, <3>6, <3>10
  <2>8. CASE i.op = "branch"
    <3>. DEFINE value == v.ws[i.src]
    <3>1. /\ i.src \in 1 .. m.slots /\ j.src = slot(i.src)
          /\ {i.true, i.false, i.unknown} \subseteq DOMAIN m.code
          /\ j.true = Moved(ps, n, i.true) /\ j.false = Moved(ps, n, i.false)
          /\ j.unknown = Moved(ps, n, i.unknown)
      BY <1>1, <2>1, <2>8, ByOperation DEF Moves
    <3>2. w.ws[j.src] = value /\ value \in Values
      BY <1>3, <1>6, <3>1
    <3>3. value[1] = "evidence" =>
            value = <<"evidence", "true">> \/ value = <<"evidence", "false">>
              \/ value = <<"evidence", "absent">>
      <4>. HIDE DEF value
      <4>1. QED
        BY <3>2 DEF Values, Empty, Truth
    <3>4. o = CASE value[1] # "evidence"  -> Raised(v)
                [] value[2] = "true"      -> Outcome("on", Goto(v, i.true))
                [] value[2] = "false"     -> Outcome("on", Goto(v, i.false))
                [] value = <<"evidence", "absent">> -> Outcome("on", Goto(v, i.unknown))
      BY <2>8 DEF Execute, BranchOutcome
    <3>5. O = CASE value[1] # "evidence"  -> Raised(w)
                [] value[2] = "true"      -> Outcome("on", Goto(w, j.true))
                [] value[2] = "false"     -> Outcome("on", Goto(w, j.false))
                [] value = <<"evidence", "absent">> -> Outcome("on", Goto(w, j.unknown))
      <4>1. O = BranchOutcome(j, w)
        BY <2>2, <2>8 DEF Execute
      <4>. HIDE DEF value
      <4>2. QED
        BY <3>2, <4>1 DEF BranchOutcome
    <3>6. \A t \in {i.true, i.false, i.unknown} :
            M(Outcome("on", Goto(v, t)), Outcome("on", Goto(w, Moved(ps, n, t))))
      BY <1>9, <3>1, OutcomesMatch DEF M
    <3>. HIDE DEF value, o, O, i, j
    <3>7. QED
      BY <1>8, <3>1, <3>3, <3>4, <3>5, <3>6
  <2>9. CASE i.op \in {"wait", "emit", "handoff"}
    <3>1. /\ i.next \in {0} \union DOMAIN m.code /\ j.next = Moved(ps, n, i.next)
          /\ i.op = "emit" => i.src \in 1 .. m.slots /\ j.src = slot(i.src)
      BY <1>1, <2>1, <2>9, ByOperation DEF Moves
    <3>. DEFINE x == Goto(v, i.next)
                X == Goto(w, Moved(ps, n, i.next))
    <3>2. Agrees(ps, sh, c, n, w, x, X)
      BY <1>9, <3>1
    <3>3. CASE i.op \in {"wait", "handoff"}
      <4>1. o = Outcome(IF i.op = "wait" THEN "wait" ELSE "on", x)
        BY <3>3 DEF Execute
      <4>2. O = Outcome(IF i.op = "wait" THEN "wait" ELSE "on", X)
        BY <2>2, <3>1, <3>3 DEF Execute
      <4>. HIDE DEF o, O, x, X
      <4>3. QED
        BY <3>2, <4>1, <4>2, OutcomesMatch DEF M
    <3>4. CASE i.op = "emit"
      <4>. DEFINE value == v.ws[i.src]
                  y == [end |-> "emit", w |-> x, intention |-> value[2]]
                  Y == [end |-> "emit", w |-> X, intention |-> value[2]]
      <4>1. w.ws[j.src] = value
        BY <1>3, <3>1, <3>4
      <4>2. o = IF value[1] = "intention" /\ value[2] # "absent" THEN y ELSE Raised(v)
        BY <3>4 DEF Execute, EmitOutcome
      <4>3. O = IF value[1] = "intention" /\ value[2] # "absent" THEN Y ELSE Raised(w)
        <5>1. O = EmitOutcome(j, w)
          BY <2>2, <3>4 DEF Execute
        <5>. HIDE DEF value
        <5>2. QED
          BY <3>1, <4>1, <5>1 DEF EmitOutcome
      <4>4. M(y, Y)
        BY <3>2 DEF M, Matches
      <4>. HIDE DEF y, Y, o, O
      <4>5. QED
        BY <1>8, <4>2, <4>3, <4>4
    <3>5. QED
      BY <2>9, <3>3, <3>4
  <2>10. CASE i.op = "halt"
    <3>1. o = Outcome("halt", v) /\ O = Outcome("halt", w)
      BY <2>2, <2>10 DEF Execute
    <3>2. QED
      BY <1>7, <3>1, OutcomesMatch DEF M
  <2>11. i.op \in {"receive", "read", "write", "copy", "call", "branch", "wait",
                   "handoff", "emit", "halt"}
    BY <1>1, ByOperation
  <2>. HIDE DEF o, O, i, j
  <2>12. QED
    BY <2>3, <2>4, <2>5, <2>6, <2>7, <2>8, <2>9, <2>10, <2>11
<1>14. QED
  BY <1>12, <1>13

Keys(ps, sh) == {Key(ps, sh, o) : o \in Owners(ps)}
Owner(ps, sh, k) == CHOOSE x \in Owners(ps) : Key(ps, sh, x) = k

(* Split, of components ps.                                                *)
SplitOf(ps, sh, w) ==
  LET at == PartAt(ps, w.ptr)
  IN [at  |-> at,
      ptr |-> w.ptr - Offset(ps, at),
      ws  |-> [n \in DOMAIN ps |-> [s \in 1 .. ps[n].slots |-> w.ws[SlotOf(ps, n, s)]]],
      acc |-> w.acc,
      ops |-> [k \in Keys(ps, sh) |->
                 w.ops[HandleMap(ps, sh, Owner(ps, sh, k)[1], Owner(ps, sh, k)[2])]]]

(* What ExecutiveSequence makes of the split state S after its component   *)
(* came to own.                                                            *)
ChangedOf(ps, sh, S, k, ops) ==
  {h \in Handles(ps[S.at]) : Key(ps, sh, <<S.at, h>>) = k /\ ops[h] # S.ops[k]}

SeenOf(ps, sh, S, own) ==
  LET over == ~ (S.at = Len(ps)) /\ own.ptr = Terminal(ps[S.at])
  IN [at  |-> IF over THEN S.at + 1 ELSE S.at,
      ptr |-> IF over THEN 1 ELSE own.ptr,
      ws  |-> [S.ws EXCEPT ![S.at] = own.ws],
      acc |-> own.acc,
      ops |-> [k \in DOMAIN S.ops |->
                 IF ChangedOf(ps, sh, S, k, own.ops) = {} THEN S.ops[k]
                 ELSE own.ops[CHOOSE h \in ChangedOf(ps, sh, S, k, own.ops) : TRUE]]]

(* The operator that stands for a key, and its handle.                     *)
LEMMA OwnerFacts ==
  ASSUME NEW ps, NEW sh, NEW si, NEW c, Layout(ps, sh, si, c), NEW k \in Keys(ps, sh)
  PROVE  LET x == Owner(ps, sh, k) IN
         /\ x \in Owners(ps) /\ Key(ps, sh, x) = k
         /\ HandleMap(ps, sh, x[1], x[2]) \in Handles(c)
         /\ \A n \in DOMAIN ps : \A h \in Handles(ps[n]) :
              HandleMap(ps, sh, x[1], x[2]) = HandleMap(ps, sh, n, h)
                <=> Key(ps, sh, <<n, h>>) = k
<1>. DEFINE x == Owner(ps, sh, k)
<1>1. x \in Owners(ps) /\ Key(ps, sh, x) = k
  <2>1. \E y \in Owners(ps) : Key(ps, sh, y) = k
    BY DEF Keys
  <2>2. QED
    BY <2>1 DEF Owner
<1>. HIDE DEF x
<1>2. OperatorsLie(ps, sh, c)
  BY DEF Layout
<1>3. HandleMap(ps, sh, x[1], x[2]) \in Handles(c)
  BY <1>1, <1>2 DEF OperatorsLie
<1>4. ASSUME NEW n \in DOMAIN ps, NEW h \in Handles(ps[n])
      PROVE  HandleMap(ps, sh, x[1], x[2]) = HandleMap(ps, sh, n, h)
               <=> Key(ps, sh, <<n, h>>) = k
  <2>. DEFINE y == <<n, h>>
  <2>1. y \in Owners(ps) /\ y[1] = n /\ y[2] = h
    BY <1>2 DEF OperatorsLie
  <2>. HIDE DEF y
  <2>2. HandleMap(ps, sh, x[1], x[2]) = HandleMap(ps, sh, y[1], y[2])
          <=> Key(ps, sh, x) = Key(ps, sh, y)
    BY <1>1, <1>2, <2>1 DEF OperatorsLie
  <2>3. QED
    BY <1>1, <2>1, <2>2 DEF y
<1>5. QED
  BY <1>1, <1>3, <1>4 DEF x

(* Where the split state is.                                               *)
LEMMA SplitAt ==
  ASSUME NEW ps, NEW sh, NEW si, NEW c, NEW n, NEW w, Runs(ps, sh, si, c, n, w)
  PROVE  /\ SplitOf(ps, sh, w).at = n
         /\ SplitOf(ps, sh, w).ptr = w.ptr - Offset(ps, n)
         /\ DOMAIN SplitOf(ps, sh, w).ops = Keys(ps, sh)
<1>. DEFINE S == SplitOf(ps, sh, w)
            p == w.ptr - Offset(ps, n)
<1>1. n \in DOMAIN ps /\ Listed(ps) /\ p \in Body(ps, n)
  BY DEF Runs, Layout, Chain
<1>2. w.ptr = p + Offset(ps, n)
  <2>. DEFINE v == View(ps, sh, n, w)
  <2>1. v.ptr = p
    BY DEF View
  <2>. HIDE DEF v, p
  <2>2. w.ptr = v.ptr + Offset(ps, n)
    BY ViewTyped DEF v
  <2>3. QED
    BY <2>1, <2>2
<1>. HIDE DEF p
<1>3. PartAt(ps, w.ptr) = n
  BY <1>1, <1>2, PartOf
<1>4. S.at = n /\ S.ptr = w.ptr - Offset(ps, n) /\ DOMAIN S.ops = Keys(ps, sh)
  BY <1>3 DEF SplitOf
<1>5. QED
  BY <1>4

(* The operators' states in the split state.                               *)
LEMMA SplitOps ==
  ASSUME NEW ps, NEW sh, NEW si, NEW c, NEW n, NEW w, Runs(ps, sh, si, c, n, w),
         NEW h \in Handles(ps[n])
  PROVE  /\ Key(ps, sh, <<n, h>>) \in Keys(ps, sh)
         /\ SplitOf(ps, sh, w).ops[Key(ps, sh, <<n, h>>)] = w.ops[HandleMap(ps, sh, n, h)]
<1>. DEFINE k == Key(ps, sh, <<n, h>>)
            x == Owner(ps, sh, k)
<1>1. n \in DOMAIN ps /\ Layout(ps, sh, si, c) /\ OperatorsLie(ps, sh, c)
  BY DEF Runs, Layout
<1>2. k \in Keys(ps, sh)
  BY <1>1 DEF Keys, OperatorsLie
<1>3. HandleMap(ps, sh, x[1], x[2]) = HandleMap(ps, sh, n, h)
  BY <1>1, <1>2, OwnerFacts
<1>4. SplitOf(ps, sh, w).ops[k] = w.ops[HandleMap(ps, sh, x[1], x[2])]
  BY <1>2 DEF SplitOf
<1>5. QED
  BY <1>2, <1>3, <1>4

(* A component that comes to its terminal HALT hands over.                 *)
LEMMA SeenAt ==
  ASSUME NEW ps, NEW sh, NEW si, NEW c, NEW n, NEW w, Runs(ps, sh, si, c, n, w),
         NEW x, NEW X, X.ptr = x.ptr + Offset(ps, n), x.ptr \in DOMAIN ps[n].code
  PROVE  LET over == ~ (n = Len(ps)) /\ x.ptr = Terminal(ps[n]) IN
         /\ SplitOf(ps, sh, X).at = (IF over THEN n + 1 ELSE n)
         /\ SplitOf(ps, sh, X).ptr = (IF over THEN 1 ELSE x.ptr)
<1>. DEFINE R == SplitOf(ps, sh, X)
            p == x.ptr
            q == X.ptr
            T == Terminal(ps[n])
            over == ~ (n = Len(ps)) /\ p = T
<1>1. n \in DOMAIN ps /\ Layout(ps, sh, si, c) /\ Chain(ps) /\ Listed(ps)
  BY DEF Runs, Layout, Chain
<1>2. /\ Offset(ps, n) \in Nat /\ T \in Nat \ {0} /\ p \in DOMAIN ps[n].code
      /\ DOMAIN ps[n].code = 1 .. T /\ (Hands(ps, n) <=> n # Len(ps))
      /\ Hands(ps, n) =>
           n + 1 \in DOMAIN ps /\ Offset(ps, n + 1) = Offset(ps, n) + T - 1
  <2>1. Placed(ps)
    BY <1>1, PlaceFacts
  <2>2. QED
    BY <1>1, <2>1 DEF Placed
<1>3. q = p + Offset(ps, n)
  OBVIOUS
<1>4. R.at = PartAt(ps, q) /\ R.ptr = q - Offset(ps, PartAt(ps, q))
  BY DEF SplitOf
<1>. HIDE DEF R, p, q
<1>5. CASE over
  <2>. DEFINE m == n + 1
  <2>1. m \in DOMAIN ps /\ Offset(ps, m) = Offset(ps, n) + T - 1
    BY <1>2, <1>5
  <2>. HIDE DEF m
  <2>2. q = 1 + Offset(ps, m) /\ q - Offset(ps, m) = 1
    BY <1>2, <1>3, <1>5, <2>1
  <2>3. 1 \in Body(ps, m)
    <3>1. /\ Terminal(ps[m]) \in Nat \ {0} /\ DOMAIN ps[m].code = 1 .. Terminal(ps[m])
      BY <1>1, <2>1, OffsetTyped
    <3>2. Hands(ps, m) => Terminal(ps[m]) > 1
      BY <1>1, <2>1 DEF Chain
    <3>3. QED
      BY <3>1, <3>2 DEF Body
  <2>4. PartAt(ps, q) = m
    BY <1>1, <2>1, <2>2, <2>3, PartOf
  <2>5. R.at = n + 1 /\ R.ptr = 1
    BY <1>4, <2>2, <2>4 DEF m
  <2>6. QED
    BY <1>5, <2>5 DEF R, p
<1>6. CASE ~ over
  <2>1. p \in Body(ps, n)
    BY <1>2, <1>6 DEF Body
  <2>2. PartAt(ps, q) = n
    BY <1>1, <1>3, <2>1, PartOf
  <2>3. q - Offset(ps, n) = p
    BY <1>2, <1>3
  <2>4. R.at = n /\ R.ptr = p
    BY <1>4, <2>2, <2>3
  <2>5. QED
    BY <1>6, <2>4 DEF R, p
<1>7. QED
  BY <1>5, <1>6

(* Only the workspace of the component that runs changes.                  *)
LEMMA SeenWs ==
  ASSUME NEW ps, NEW sh, NEW si, NEW c, NEW n, NEW w, Runs(ps, sh, si, c, n, w),
         NEW x, NEW X, Data(ps, sh, c, n, w, x, X)
  PROVE  SplitOf(ps, sh, X).ws = [SplitOf(ps, sh, w).ws EXCEPT ![n] = x.ws]
<1>. DEFINE was == SplitOf(ps, sh, w).ws
            now == SplitOf(ps, sh, X).ws
<1>1. was = [m \in DOMAIN ps |-> [s \in 1 .. ps[m].slots |-> w.ws[SlotOf(ps, m, s)]]]
  BY DEF SplitOf
<1>2. now = [m \in DOMAIN ps |-> [s \in 1 .. ps[m].slots |-> X.ws[SlotOf(ps, m, s)]]]
  BY DEF SplitOf
<1>3. /\ x.ws \in [1 .. ps[n].slots -> Values]
      /\ \A s \in 1 .. ps[n].slots : X.ws[SlotOf(ps, n, s)] = x.ws[s]
      /\ \A m \in DOMAIN ps \ {n} : \A s \in 1 .. ps[m].slots :
           X.ws[SlotOf(ps, m, s)] = w.ws[SlotOf(ps, m, s)]
  BY DEF Data
<1>4. [s \in 1 .. ps[n].slots |-> X.ws[SlotOf(ps, n, s)]] = x.ws
  BY <1>3
<1>5. \A m \in DOMAIN ps \ {n} :
        [s \in 1 .. ps[m].slots |-> X.ws[SlotOf(ps, m, s)]]
          = [s \in 1 .. ps[m].slots |-> w.ws[SlotOf(ps, m, s)]]
  BY <1>3
<1>6. DOMAIN was = DOMAIN ps /\ was = [m \in DOMAIN ps |-> was[m]]
      /\ now = [m \in DOMAIN ps |-> now[m]]
  BY <1>1, <1>2
<1>7. ASSUME NEW m \in DOMAIN ps PROVE now[m] = IF m = n THEN x.ws ELSE was[m]
  <2>1. /\ now[m] = [s \in 1 .. ps[m].slots |-> X.ws[SlotOf(ps, m, s)]]
        /\ was[m] = [s \in 1 .. ps[m].slots |-> w.ws[SlotOf(ps, m, s)]]
    BY <1>1, <1>2
  <2>. HIDE DEF was, now
  <2>2. CASE m = n
    BY <1>4, <2>1, <2>2
  <2>3. CASE m # n
    BY <1>5, <2>1, <2>3
  <2>4. QED
    BY <2>2, <2>3
<1>. HIDE DEF was, now
<1>8. now = [was EXCEPT ![n] = x.ws]
  BY <1>6, <1>7
<1>9. QED
  BY <1>8 DEF was, now

(* An operator's state changes exactly if that of its key does.            *)
LEMMA SeenOps ==
  ASSUME NEW ps, NEW sh, NEW si, NEW c, NEW n, NEW w, Runs(ps, sh, si, c, n, w),
         NEW x, NEW X, Data(ps, sh, c, n, w, x, X), NEW k \in Keys(ps, sh)
  PROVE  LET S == SplitOf(ps, sh, w)
             changed == ChangedOf(ps, sh, S, k, x.ops)
         IN SplitOf(ps, sh, X).ops[k] =
              IF changed = {} THEN S.ops[k] ELSE x.ops[CHOOSE h \in changed : TRUE]
<1>. DEFINE S == SplitOf(ps, sh, w)
            H == Handles(ps[n])
            key(h) == Key(ps, sh, <<n, h>>)
            to(h) == HandleMap(ps, sh, n, h)
            o == Owner(ps, sh, k)
            g == HandleMap(ps, sh, o[1], o[2])
            xo == x.ops
            Xo == X.ops
            wo == w.ops
            was == S.ops[k]
            changed == ChangedOf(ps, sh, S, k, xo)
<1>1. n \in DOMAIN ps /\ Layout(ps, sh, si, c)
  BY DEF Runs
<1>2. /\ S.at = n /\ was = wo[g]
      /\ \A h \in H : key(h) = k => was = wo[to(h)]
  <2>1. S.at = n
    BY SplitAt
  <2>2. was = wo[g]
    BY DEF SplitOf
  <2>3. ASSUME NEW h \in H, key(h) = k PROVE was = wo[to(h)]
    BY <2>3, SplitOps
  <2>4. QED
    BY <2>1, <2>2, <2>3
<1>3. SplitOf(ps, sh, X).ops[k] = Xo[g]
  BY DEF SplitOf
<1>4. g \in Handles(c) /\ \A h \in H : g = to(h) <=> key(h) = k
  BY <1>1, OwnerFacts
<1>5. \A h : h \in changed <=> h \in H /\ key(h) = k /\ xo[h] # was
  BY <1>2 DEF ChangedOf
<1>6. \A h \in H : View(ps, sh, n, w).ops[h] = wo[to(h)]
  BY ViewFields
<1>7. \/ xo = View(ps, sh, n, w).ops /\ Xo = wo
      \/ \E h \in H : /\ Xo[to(h)] = xo[h]
                      /\ \A f \in H \ {h} : xo[f] = wo[to(f)]
                      /\ \A f \in Handles(c) \ {to(h)} : Xo[f] = wo[f]
  BY DEF Data
<1>. HIDE DEF S, H, key, to, g, o, xo, Xo, wo, was, changed
<1>8. Xo[g] = IF changed = {} THEN was ELSE xo[CHOOSE h \in changed : TRUE]
  <2>1. CASE xo = View(ps, sh, n, w).ops /\ Xo = wo
    <3>1. changed = {}
      BY <1>2, <1>5, <1>6, <2>1
    <3>2. QED
      BY <1>2, <2>1, <3>1
  <2>2. ASSUME NEW h \in H, Xo[to(h)] = xo[h],
               \A f \in H \ {h} : xo[f] = wo[to(f)],
               \A f \in Handles(c) \ {to(h)} : Xo[f] = wo[f]
        PROVE  Xo[g] = IF changed = {} THEN was ELSE xo[CHOOSE f \in changed : TRUE]
    <3>1. \A f : f \in changed => f = h /\ key(h) = k /\ xo[h] # was
      BY <1>2, <1>5, <2>2
    <3>2. CASE key(h) = k
      <4>1. Xo[g] = xo[h]
        BY <1>4, <2>2, <3>2
      <4>2. CASE changed = {}
        <5>1. xo[h] = was
          BY <1>5, <3>2, <4>2
        <5>2. QED
          BY <4>1, <4>2, <5>1
      <4>3. CASE changed # {}
        <5>1. (CHOOSE f \in changed : TRUE) \in changed
          BY <4>3
        <5>2. (CHOOSE f \in changed : TRUE) = h
          BY <3>1, <5>1
        <5>3. QED
          BY <4>1, <4>3, <5>2
      <4>4. QED
        BY <4>2, <4>3
    <3>3. CASE key(h) # k
      <4>1. changed = {}
        BY <3>1, <3>3
      <4>2. Xo[g] = wo[g]
        BY <1>4, <2>2, <3>3
      <4>3. QED
        BY <1>2, <4>1, <4>2
    <3>4. QED
      BY <3>2, <3>3
  <2>3. QED
    BY <1>7, <2>1, <2>2
<1>9. QED
  BY <1>3, <1>8 DEF changed, was, xo, Xo, S

(* A step of the program is a step of the components one after the other.  *)
LEMMA SeenAgrees ==
  ASSUME NEW ps, NEW sh, NEW si, NEW c, NEW n, NEW w, Runs(ps, sh, si, c, n, w),
         NEW x, NEW X, Agrees(ps, sh, c, n, w, x, X), x.ptr \in DOMAIN ps[n].code
  PROVE  SplitOf(ps, sh, X) = SeenOf(ps, sh, SplitOf(ps, sh, w), x)
<1>. DEFINE S == SplitOf(ps, sh, w)
            R == SplitOf(ps, sh, X)
            T == SeenOf(ps, sh, S, x)
            over == ~ (S.at = Len(ps)) /\ x.ptr = Terminal(ps[S.at])
            seen == [k \in DOMAIN S.ops |->
                       IF ChangedOf(ps, sh, S, k, x.ops) = {} THEN S.ops[k]
                       ELSE x.ops[CHOOSE h \in ChangedOf(ps, sh, S, k, x.ops) : TRUE]]
<1>1. Data(ps, sh, c, n, w, x, X) /\ X.ptr = x.ptr + Offset(ps, n)
  BY DEF Agrees
<1>2. S.at = n /\ DOMAIN S.ops = Keys(ps, sh)
  BY SplitAt
<1>3. R.at = (IF over THEN S.at + 1 ELSE S.at) /\ R.ptr = (IF over THEN 1 ELSE x.ptr)
  BY <1>1, <1>2, SeenAt
<1>4. R.ws = [S.ws EXCEPT ![S.at] = x.ws]
  BY <1>1, <1>2, SeenWs
<1>5. R.acc = x.acc
  BY <1>1 DEF SplitOf, Data
<1>6. R.ops = seen
  <2>1. \A k \in Keys(ps, sh) : R.ops[k] = seen[k]
    BY <1>1, <1>2, SeenOps
  <2>2. R.ops = [k \in Keys(ps, sh) |-> R.ops[k]]
    BY DEF SplitOf
  <2>3. seen = [k \in Keys(ps, sh) |-> seen[k]]
    BY <1>2
  <2>. HIDE DEF R, seen
  <2>4. QED
    BY <2>1, <2>2, <2>3
<1>7. R = [at |-> R.at, ptr |-> R.ptr, ws |-> R.ws, acc |-> R.acc, ops |-> R.ops]
  BY DEF SplitOf
<1>8. T = [at  |-> IF over THEN S.at + 1 ELSE S.at, ptr |-> IF over THEN 1 ELSE x.ptr,
           ws  |-> [S.ws EXCEPT ![S.at] = x.ws], acc |-> x.acc, ops |-> seen]
  BY DEF SeenOf
<1>. HIDE DEF R, S, T, over, seen
<1>9. QED
  BY <1>3, <1>4, <1>5, <1>6, <1>7, <1>8 DEF R, S, T

(* What ExecutiveSequence's component sees of the split state S, and does. *)
OwnOf(ps, sh, S) ==
  [ptr |-> S.ptr, ws |-> S.ws[S.at], acc |-> S.acc,
   ops |-> [h \in Handles(ps[S.at]) |-> S.ops[Key(ps, sh, <<S.at, h>>)]]]

DoesOf(ps, sh, si, S, e) ==
  IF si /\ ~ (S.at = Len(ps)) /\ ps[S.at].code[S.ptr].op = "emit"
  THEN Outcome("on", Goto(OwnOf(ps, sh, S), ps[S.at].code[S.ptr].next))
  ELSE Execute(ps[S.at], OwnOf(ps, sh, S), e)

(* ExecutiveSequence's component sees what the one in the program does.    *)
LEMMA OwnIsView ==
  ASSUME NEW ps, NEW sh, NEW si, NEW c, NEW n, NEW w, Runs(ps, sh, si, c, n, w)
  PROVE  OwnOf(ps, sh, SplitOf(ps, sh, w)) = View(ps, sh, n, w)
<1>. DEFINE S == SplitOf(ps, sh, w)
            H == Handles(ps[n])
            own == [h \in H |-> S.ops[Key(ps, sh, <<n, h>>)]]
            seen == [h \in H |-> w.ops[HandleMap(ps, sh, n, h)]]
<1>1. S.at = n /\ S.ptr = w.ptr - Offset(ps, n)
  BY SplitAt
<1>2. S.acc = w.acc
  BY DEF SplitOf
<1>3. S.ws[n] = [s \in 1 .. ps[n].slots |-> w.ws[SlotOf(ps, n, s)]]
  BY DEF SplitOf, Runs
<1>4. own = seen
  <2>1. \A h \in H : S.ops[Key(ps, sh, <<n, h>>)] = w.ops[HandleMap(ps, sh, n, h)]
    BY SplitOps
  <2>. HIDE DEF S, H
  <2>2. QED
    BY <2>1
<1>5. OwnOf(ps, sh, S) = [ptr |-> S.ptr, ws |-> S.ws[n], acc |-> S.acc, ops |-> own]
  <2>. HIDE DEF S
  <2>1. QED
    BY <1>1 DEF OwnOf
<1>6. View(ps, sh, n, w) =
        [ptr |-> w.ptr - Offset(ps, n),
         ws |-> [s \in 1 .. ps[n].slots |-> w.ws[SlotOf(ps, n, s)]],
         acc |-> w.acc, ops |-> seen]
  BY DEF View
<1>. HIDE DEF S, own, seen
<1>7. QED
  BY <1>1, <1>2, <1>3, <1>4, <1>5, <1>6 DEF S

(* And does what that one does.                                            *)
LEMMA DoesIsDoes ==
  ASSUME NEW ps, NEW sh, NEW si, NEW c, NEW n, NEW w, Runs(ps, sh, si, c, n, w), NEW e
  PROVE  DoesOf(ps, sh, si, SplitOf(ps, sh, w), e) = Does(ps, sh, si, n, w, e)
<1>. DEFINE S == SplitOf(ps, sh, w)
            v == View(ps, sh, n, w)
            last == n = Len(ps)
<1>1. S.at = n /\ S.ptr = v.ptr
  BY SplitAt DEF View
<1>2. OwnOf(ps, sh, S) = v
  BY OwnIsView
<1>3. ~ last <=> Hands(ps, n)
  BY PlaceFacts DEF Runs, Layout, Chain, Placed
<1>4. DoesOf(ps, sh, si, S, e) =
        IF si /\ ~ last /\ ps[n].code[v.ptr].op = "emit"
        THEN Outcome("on", Goto(v, ps[n].code[v.ptr].next))
        ELSE Execute(ps[n], v, e)
  <2>. HIDE DEF S, v
  <2>1. QED
    BY <1>1, <1>2 DEF DoesOf
<1>5. Does(ps, sh, si, n, w, e) =
        IF si /\ Hands(ps, n) /\ ps[n].code[v.ptr].op = "emit"
        THEN Outcome("on", Goto(v, ps[n].code[v.ptr].next))
        ELSE Execute(ps[n], v, e)
  BY DEF Does
<1>. HIDE DEF S, v, last
<1>6. QED
  BY <1>3, <1>4, <1>5 DEF S

(* It stays in its code.                                                   *)
LEMMA DoesTyped ==
  ASSUME NEW ps, NEW sh, NEW si, NEW c, NEW n, NEW w, Runs(ps, sh, si, c, n, w),
         NEW e \in Inputs
  PROVE  Does(ps, sh, si, n, w, e).w.ptr \in DOMAIN ps[n].code
<1>. DEFINE v == View(ps, sh, n, w)
            i == ps[n].code[v.ptr]
            o == Does(ps, sh, si, n, w, e)
<1>1. v \in StatesOf(ps[n]) /\ Valid(ps[n])
  BY ViewTyped DEF Runs, Layout
<1>2. v.ptr \in DOMAIN ps[n].code
  BY <1>1 DEF StatesOf
<1>3. CASE si /\ Hands(ps, n) /\ i.op = "emit"
  <2>1. o.w = Goto(v, i.next)
    BY <1>3 DEF Does, Outcome
  <2>2. (IF i.next = 0 THEN v.ptr + 1 ELSE i.next) \in DOMAIN ps[n].code
    <3>. HIDE DEF v
    <3>1. QED
      BY <1>1, <1>2, <1>3, GoesOn
  <2>3. Goto(v, i.next).ptr = IF i.next = 0 THEN v.ptr + 1 ELSE i.next
    <3>. HIDE DEF v, i
    <3>1. QED
      BY <1>1 DEF Goto, Next1, StatesOf
  <2>4. QED
    BY <2>1, <2>2, <2>3
<1>4. CASE ~ (si /\ Hands(ps, n) /\ i.op = "emit")
  <2>1. o = Execute(ps[n], v, e)
    BY <1>4 DEF Does
  <2>2. Ends(ps[n], v, Execute(ps[n], v, e))
    BY <1>1, ExecuteTyped
  <2>. HIDE DEF o, v
  <2>3. o.w \in StatesOf(ps[n])
    BY <2>1, <2>2 DEF Ends
  <2>4. QED
    BY <2>3 DEF StatesOf, o
<1>5. QED
  BY <1>3, <1>4

(* One instruction of the program is one of ExecutiveSequence.             *)
LEMMA StepAgrees ==
  ASSUME NEW ps, NEW sh, NEW si, NEW c, NEW n, NEW w, Runs(ps, sh, si, c, n, w),
         NEW e \in Inputs
  PROVE  LET S == SplitOf(ps, sh, w)
             o == DoesOf(ps, sh, si, S, e)
             O == Execute(c, w, e)
         IN /\ o.end = O.end
            /\ o.end # "raise" => SplitOf(ps, sh, O.w) = SeenOf(ps, sh, S, o.w)
<1>. DEFINE o == Does(ps, sh, si, n, w, e)
            O == Execute(c, w, e)
<1>1. Matches(ps, sh, c, n, w, o, O)
  BY Simulates
<1>2. o.w.ptr \in DOMAIN ps[n].code
  BY DoesTyped
<1>3. DoesOf(ps, sh, si, SplitOf(ps, sh, w), e) = o
  BY DoesIsDoes
<1>. HIDE DEF o, O
<1>4. o.end = O.end /\ (o.end # "raise" => Agrees(ps, sh, c, n, w, o.w, O.w))
  BY <1>1 DEF Matches
<1>5. o.end # "raise" => SplitOf(ps, sh, O.w) = SeenOf(ps, sh, SplitOf(ps, sh, w), o.w)
  BY <1>2, <1>4, SeenAgrees
<1>6. QED
  BY <1>3, <1>4, <1>5 DEF O

(* ExecutiveSequence has these operators of its own; they are the same.    *)
LEMMA SameOperators ==
  /\ \A a : Sequence!Terminal(a) = Terminal(a) /\ Sequence!Handles(a) = Handles(a)
  /\ \A chain : Sequence!Owners(chain) = Owners(chain)
  /\ \A chain, sharing, o : Sequence!Key(chain, sharing, o) = Key(chain, sharing, o)
  /\ \A chain : Sequence!CanCompose(chain) = CanCompose(chain)
  /\ Sequence!Empty = Empty
BY DEF Sequence!Terminal, Terminal, Sequence!Handles, Handles, Sequence!Owners, Owners,
       Sequence!Key, Key, Sequence!CanCompose, CanCompose, Sequence!Empty, Empty,
       Sequence!CanHandoff, CanHandoff, Sequence!Successors, Successors,
       Sequence!Targets, Targets

(* So is what an instruction does.                                         *)
LEMMA SameExecute ==
  ASSUME NEW a, NEW w, NEW e
  PROVE  Sequence!Execute(a, w, e) = Execute(a, w, e)
BY DEF Sequence!Execute, Execute, Sequence!CallOutcome, CallOutcome,
       Sequence!BranchOutcome, BranchOutcome, Sequence!EmitOutcome, EmitOutcome,
       Sequence!Outcome, Outcome, Sequence!Raised, Raised, Sequence!Next1, Next1,
       Sequence!Goto, Goto, Sequence!Empty, Empty, Sequence!WellTyped, WellTyped,
       Sequence!InputKinds, InputKinds, Sequence!Result, Result,
       Sequence!StateAfter, StateAfter, Sequence!Equality, Equality

(* Split, of the machine's own components.                                 *)
LEMMA SplitIsSplitOf == \A w : Split(w) = SplitOf(parts, share, w)
BY DEF Split, SplitOf, Keys, Owner, Offset

(* ExecutiveSequence's first state.                                        *)
LEMMA SameStart ==
  ASSUME NEW chain, NEW sharing
  PROVE  Sequence!Start(chain, sharing) =
         [at |-> 1, ptr |-> 1,
          ws |-> [n \in DOMAIN chain |-> [s \in 1 .. chain[n].slots |-> Empty]],
          acc |-> Empty,
          ops |-> [k \in Keys(chain, sharing) |-> "absent"]]
BY SameOperators DEF Sequence!Start, Keys

(* What ExecutiveSequence's component does.                                *)
LEMMA SequenceDoes == Sequence!Does = DoesOf(parts, share, silent, Split(work), events)
BY SameOperators, SameExecute
DEF Sequence!Does, DoesOf, Sequence!Hushed, Sequence!IsLast, Sequence!Running,
    Sequence!Own, OwnOf, Sequence!Outcome, Outcome, Sequence!Goto, Goto,
    Sequence!Next1, Next1

(* And what becomes of the split state.                                    *)
LEMMA SequenceSeen ==
  ASSUME NEW own
  PROVE  Sequence!Seen(own) = SeenOf(parts, share, Split(work), own)
<1>. DEFINE S == Split(work)
<1>1. \A k, ops : Sequence!Changed(k, ops) = ChangedOf(parts, share, S, k, ops)
  BY SameOperators DEF Sequence!Changed, ChangedOf, Sequence!Running
<1>2. Sequence!Terminal(Sequence!Running) = Terminal(parts[S.at])
  BY SameOperators DEF Sequence!Running
<1>. DEFINE f(k) == IF Sequence!Changed(k, own.ops) = {} THEN S.ops[k]
                    ELSE own.ops[CHOOSE h \in Sequence!Changed(k, own.ops) : TRUE]
            g(k) == IF ChangedOf(parts, share, S, k, own.ops) = {} THEN S.ops[k]
                    ELSE own.ops[CHOOSE h \in ChangedOf(parts, share, S, k, own.ops) : TRUE]
<1>3. ASSUME NEW k PROVE f(k) = g(k)
  <2>. DEFINE A == Sequence!Changed(k, own.ops)
              B == ChangedOf(parts, share, S, k, own.ops)
  <2>1. A = B
    BY <1>1
  <2>. HIDE DEF A, B
  <2>2. (IF A = {} THEN S.ops[k] ELSE own.ops[CHOOSE h \in A : TRUE])
          = (IF B = {} THEN S.ops[k] ELSE own.ops[CHOOSE h \in B : TRUE])
    BY <2>1
  <2>3. QED
    BY <2>2 DEF A, B
<1>. HIDE DEF S, f, g
<1>4. [k \in DOMAIN S.ops |-> f(k)] = [k \in DOMAIN S.ops |-> g(k)]
  BY <1>3
<1>5. QED
  BY <1>2, <1>4 DEF Sequence!Seen, SeenOf, Sequence!IsLast, S, f, g

(* The machine's components lie in its artifact.                           *)
LEMMA ArtifactLies ==
  ASSUME IInv
  PROVE  Layout(parts, share, silent, artifact)
<1>1. Listed(parts)
  BY DEF IInv, Shape
<1>2. CASE Len(parts) = 1 /\ artifact = parts[1] /\ share = FALSE
  BY <1>1, <1>2, AloneLies
<1>3. CASE CanCompose(parts) /\ artifact = Compose(parts, share, silent)
  BY <1>1, <1>3, ListLies
<1>4. QED
  BY <1>2, <1>3 DEF IInv, Shape

(* At every pointer one component runs.                                    *)
LEMMA OneRuns ==
  ASSUME IInv
  PROVE  \E n \in DOMAIN parts : Runs(parts, share, silent, artifact, n, work)
<1>1. Layout(parts, share, silent, artifact) /\ work \in StatesOf(artifact)
      /\ work.ptr \in DOMAIN artifact.code
  BY ArtifactLies, StatesAre DEF IInv, TypeOK
<1>2. PICK n \in DOMAIN parts : \E q \in Body(parts, n) : work.ptr = q + Offset(parts, n)
  BY <1>1 DEF Layout, PointersLie
<1>3. PICK q \in Body(parts, n) : work.ptr = q + Offset(parts, n)
  BY <1>2
<1>4. q \in Nat /\ Offset(parts, n) \in Nat
  BY <1>1, OffsetTyped DEF Body
<1>5. work.ptr - Offset(parts, n) = q
  BY <1>3, <1>4
<1>6. QED
  BY <1>1, <1>3, <1>5 DEF Runs

(* The instruction under way is one of ExecutiveSequence.                  *)
LEMMA NowAgrees ==
  ASSUME IInv, Ticking
  PROVE  /\ Sequence!Does.end = Now.end
         /\ Now.end # "raise" => Split(Now.w) = Sequence!Seen(Sequence!Does.w)
<1>1. PICK n \in DOMAIN parts : Runs(parts, share, silent, artifact, n, work)
  BY OneRuns
<1>2. events \in Inputs
  BY DEF IInv, Ticking
<1>. DEFINE S == SplitOf(parts, share, work)
            o == DoesOf(parts, share, silent, S, events)
<1>3. Sequence!Does = o
  BY SequenceDoes, SplitIsSplitOf
<1>4. o.end = Now.end
      /\ (o.end # "raise" => SplitOf(parts, share, Now.w) = SeenOf(parts, share, S, o.w))
  BY <1>1, <1>2, StepAgrees DEF Now
<1>. HIDE DEF o
<1>5. Sequence!Seen(o.w) = SeenOf(parts, share, S, o.w)
  BY SequenceSeen, SplitIsSplitOf
<1>6. QED
  BY <1>3, <1>4, <1>5, SplitIsSplitOf

(* The first states agree.                                                 *)
LEMMA StartIsInitial ==
  ASSUME NEW ps, NEW sh, NEW si, NEW c, Layout(ps, sh, si, c)
  PROVE  SplitOf(ps, sh, InitialState(c)) = Sequence!Start(ps, sh)
<1>. DEFINE w == InitialState(c)
            R == SplitOf(ps, sh, w)
            owner(k) == Owner(ps, sh, k)
<1>1. w.ptr = 1 /\ w.acc = Empty /\ w.ws = [s \in 1 .. c.slots |-> Empty]
      /\ w.ops = [h \in Handles(c) |-> "absent"]
  BY DEF InitialState
<1>2. Chain(ps) /\ Listed(ps) /\ SlotsLie(ps, c)
  BY DEF Layout, Chain
<1>3. PartAt(ps, 1) = 1 /\ 1 - Offset(ps, 1) = 1
  <2>1. 1 \in DOMAIN ps /\ Offset(ps, 1) = 0
    BY <1>2, PlaceFacts DEF Placed
  <2>2. 1 \in Body(ps, 1)
    <3>1. Terminal(ps[1]) \in Nat \ {0} /\ DOMAIN ps[1].code = 1 .. Terminal(ps[1])
      BY <2>1, OffsetTyped
    <3>2. Hands(ps, 1) => Terminal(ps[1]) > 1
      BY <1>2, <2>1 DEF Chain
    <3>3. QED
      BY <3>1, <3>2 DEF Body
  <2>3. PartAt(ps, 1 + Offset(ps, 1)) = 1
    BY <1>2, <2>1, <2>2, PartOf
  <2>4. QED
    BY <2>1, <2>3
<1>. HIDE DEF w
<1>4. R = [at |-> PartAt(ps, w.ptr), ptr |-> w.ptr - Offset(ps, PartAt(ps, w.ptr)),
           ws  |-> [n \in DOMAIN ps |-> [s \in 1 .. ps[n].slots |-> w.ws[SlotOf(ps, n, s)]]],
           acc |-> w.acc,
           ops |-> [k \in Keys(ps, sh) |-> w.ops[HandleMap(ps, sh, owner(k)[1], owner(k)[2])]]]
  BY DEF SplitOf
<1>. HIDE DEF R
<1>5. [n \in DOMAIN ps |-> [s \in 1 .. ps[n].slots |-> w.ws[SlotOf(ps, n, s)]]]
        = [n \in DOMAIN ps |-> [s \in 1 .. ps[n].slots |-> Empty]]
  <2>1. ASSUME NEW n \in DOMAIN ps
        PROVE  [s \in 1 .. ps[n].slots |-> w.ws[SlotOf(ps, n, s)]]
                 = [s \in 1 .. ps[n].slots |-> Empty]
    BY <1>1, <1>2 DEF SlotsLie
  <2>2. QED
    BY <2>1
<1>6. [k \in Keys(ps, sh) |-> w.ops[HandleMap(ps, sh, owner(k)[1], owner(k)[2])]]
        = [k \in Keys(ps, sh) |-> "absent"]
  <2>1. ASSUME NEW k \in Keys(ps, sh)
        PROVE  w.ops[HandleMap(ps, sh, owner(k)[1], owner(k)[2])] = "absent"
    <3>1. HandleMap(ps, sh, owner(k)[1], owner(k)[2]) \in Handles(c)
      BY OwnerFacts
    <3>. HIDE DEF owner
    <3>2. QED
      BY <1>1, <3>1
  <2>. HIDE DEF owner
  <2>2. QED
    BY <2>1
<1>. HIDE DEF owner
<1>7. R = [at |-> 1, ptr |-> 1,
           ws |-> [n \in DOMAIN ps |-> [s \in 1 .. ps[n].slots |-> Empty]],
           acc |-> Empty, ops |-> [k \in Keys(ps, sh) |-> "absent"]]
  BY <1>1, <1>3, <1>4, <1>5, <1>6
<1>8. QED
  BY <1>7, SameStart DEF R, w

(* A new machine is one of ExecutiveSequence.                              *)
LEMMA SequenceInit == Init => Sequence!Init
<1>. SUFFICES ASSUME Init PROVE Sequence!Init
  OBVIOUS
<1>1. IInv
  BY InitInv
<1>2. /\ committed = InitialState(artifact) /\ work = committed
      /\ status = "ready" /\ events = "none" /\ executed = 0
  BY DEF Init
<1>3. Split(committed) = Sequence!Start(parts, share)
  BY <1>1, <1>2, ArtifactLies, StartIsInitial, SplitIsSplitOf
<1>4. /\ parts \in Chains /\ share \in BOOLEAN /\ silent \in BOOLEAN
      /\ Sequence!CanCompose(parts) \/ (Len(parts) = 1 /\ ~ share /\ ~ silent)
  BY SameOperators DEF Init
<1>5. QED
  BY <1>2, <1>3, <1>4 DEF Sequence!Init

(* Every step is one of ExecutiveSequence, or none.                        *)
LEMMA SequenceNext == IInv /\ [Next]_vars => [Sequence!Next]_Sequence!vars
<1>. SUFFICES ASSUME IInv, [Next]_vars PROVE [Sequence!Next]_Sequence!vars
  OBVIOUS
<1>. DEFINE S == Split(work)
            C == Split(committed)
<1>1. UNCHANGED programVars
  BY DEF vars, Next, Tick, Continues, RunsOut, Waits, Emits, Halts, Raises, Return
<1>2. UNCHANGED <<parts, share, silent>>
  BY <1>1 DEF programVars
<1>3. /\ S' = SplitOf(parts, share, work') /\ C' = SplitOf(parts, share, committed')
      /\ S = SplitOf(parts, share, work) /\ C = SplitOf(parts, share, committed)
  <2>1. S = SplitOf(parts, share, work) /\ C = SplitOf(parts, share, committed)
    BY SplitIsSplitOf
  <2>2. S' = SplitOf(parts', share', work') /\ C' = SplitOf(parts', share', committed')
    BY DEF Split, SplitOf, Keys, Owner, Offset
  <2>3. QED
    BY <1>2, <2>1, <2>2
<1>. HIDE DEF S, C
<1>4. (work' = work => S' = S) /\ (committed' = committed => C' = C)
  BY <1>3
<1>5. (work' = committed => S' = C)
  BY <1>3
<1>6. CASE UNCHANGED vars
  <2>1. UNCHANGED Sequence!vars
    BY <1>2, <1>4, <1>6 DEF vars, Sequence!vars, Sequence!programVars, S, C
  <2>2. QED
    BY <2>1
<1>7. ASSUME NEW input \in Inputs, Tick(input) PROVE Sequence!Next
  <2>1. Sequence!Tick(input)
    BY <1>2, <1>4, <1>7
    DEF Tick, Ticking, Sequence!Tick, Sequence!Ticking, Sequence!programVars, S, C
  <2>2. QED
    BY <2>1 DEF Sequence!Next
<1>8. ASSUME Ticking, Now.end # "raise"
      PROVE  /\ Sequence!Ticking /\ Sequence!Does.end = Now.end
             /\ SplitOf(parts, share, Now.w) = Sequence!Seen(Sequence!Does.w)
  BY <1>8, NowAgrees, SplitIsSplitOf DEF Ticking, Sequence!Ticking
<1>9. CASE Continues
  <2>1. Ticking /\ Now.end = "on" /\ executed + 1 < MaxInstructions
        /\ work' = Now.w /\ executed' = executed + 1
        /\ committed' = committed /\ status' = status /\ events' = events
    BY <1>9 DEF Continues
  <2>2. S' = Sequence!Seen(Sequence!Does.w)
    BY <1>3, <1>8, <2>1
  <2>3. Sequence!Continues
    BY <1>2, <1>4, <1>8, <2>1, <2>2 DEF Sequence!Continues, Sequence!programVars, S, C
  <2>4. QED
    BY <2>3 DEF Sequence!Next
<1>10. ASSUME NEW end, NEW result, Ticking, Now.end = end, end # "raise",
              Return(Now.w, result)
       PROVE  Sequence!Ticking /\ Sequence!Ends(end, result)
  <2>1. /\ work' = Now.w /\ committed' = Now.w /\ status' = result
        /\ events' = "none" /\ executed' = 0
    BY <1>10 DEF Return
  <2>2. /\ S' = Sequence!Seen(Sequence!Does.w) /\ C' = Sequence!Seen(Sequence!Does.w)
        /\ Sequence!Ticking /\ Sequence!Does.end = end
    BY <1>3, <1>8, <1>10, <2>1
  <2>3. QED
    BY <1>2, <2>1, <2>2 DEF Sequence!Ends, Sequence!Return, Sequence!programVars, S, C
<1>11. CASE RunsOut
  BY <1>10, <1>11 DEF RunsOut, Sequence!Next
<1>12. CASE Waits
  BY <1>10, <1>12 DEF Waits, Sequence!Next
<1>13. CASE Emits
  BY <1>10, <1>13 DEF Emits, Sequence!Next
<1>14. CASE Halts
  BY <1>10, <1>14 DEF Halts, Sequence!Next
<1>15. CASE Raises
  <2>1. /\ Ticking /\ Now.end = "raise"
        /\ work' = committed /\ committed' = committed /\ status' = status
        /\ events' = "none" /\ executed' = 0
    BY <1>15 DEF Raises, Return
  <2>2. Sequence!Ticking /\ Sequence!Does.end = "raise"
    BY <2>1, NowAgrees DEF Ticking, Sequence!Ticking
  <2>3. Sequence!Return(C, status)
    BY <1>2, <1>4, <1>5, <2>1 DEF Sequence!Return, Sequence!programVars, S, C
  <2>4. QED
    BY <2>2, <2>3 DEF Sequence!Next, C
<1>16. QED
  BY <1>6, <1>7, <1>9, <1>11, <1>12, <1>13, <1>14, <1>15 DEF Next

(* A composed artifact, whatever its components are, does what they do one *)
(* after the other (compose_executive_artifacts, executive_bank.py:308).   *)
THEOREM Composition == Spec => ImplementsSequence
<1>. USE SequenceInit, SequenceNext, Invariance
<1>1. QED
  BY PTL DEF Spec, ImplementsSequence, Sequence!Spec

-----------------------------------------------------------------------------
(* Compositions of compositions.                                           *)

(* A bounded set of natural numbers has a largest one.                     *)
LEMMA LargestOf ==
  ASSUME NEW T \in SUBSET Nat, T # {}, NEW N \in Nat, \A x \in T : x <= N
  PROVE  \E x \in T : \A y \in T : y <= x
<1>. DEFINE B == {n \in Nat : \A x \in T : x <= n}
<1>1. B \in SUBSET Nat /\ N \in B
  OBVIOUS
<1>2. PICK n \in B : \A m \in B : n <= m
  <2>. HIDE DEF B
  <2>1. QED
    BY <1>1, LeastOf
<1>3. n \in Nat /\ \A x \in T : x <= n
  BY <1>2
<1>4. ASSUME n \notin T PROVE FALSE
  <2>1. PICK x \in T : TRUE
    OBVIOUS
  <2>2. n # 0
    BY <1>3, <1>4, <2>1
  <2>3. n - 1 \in Nat /\ ~ (n <= n - 1)
    BY <1>3, <2>2
  <2>4. \A y \in T : y <= n - 1
    BY <1>3, <1>4
  <2>5. QED
    BY <1>2, <2>3, <2>4
<1>5. QED
  BY <1>3, <1>4

(* The sums f of sizes g, and w that adds the same sizes e places further. *)
Shifts(f, g, w, k, e, c) ==
  /\ Adds(f, g, k) /\ w[1 + e] = c
  /\ \A n \in 1 .. k - 1 : g[n] \in Nat /\ w[(n + 1) + e] = w[n + e] + g[n]

(* It adds them to what it starts with.                                    *)
LEMMA SumsShift ==
  ASSUME NEW k \in Nat, NEW e \in Nat, NEW c \in Nat, NEW f, NEW g, NEW w,
         Shifts(f, g, w, k, e, c)
  PROVE  \A n \in 1 .. k : w[n + e] = f[n] + c
<1>. DEFINE Bad == {n \in 1 .. k : w[n + e] # f[n] + c}
<1>1. SUFFICES ASSUME Bad # {} PROVE FALSE
  OBVIOUS
<1>2. PICK x \in Bad : \A y \in Bad : x <= y
  <2>1. Bad \in SUBSET Nat
    OBVIOUS
  <2>. HIDE DEF Bad
  <2>2. QED
    BY <1>1, <2>1, LeastOf
<1>3. x \in 1 .. k /\ w[x + e] # f[x] + c
  BY <1>2
<1>4. x # 1
  BY <1>3 DEF Adds, Shifts
<1>5. x - 1 \in 1 .. k /\ x - 1 \in 1 .. k - 1 /\ x = (x - 1) + 1 /\ ~ (x <= x - 1)
  BY <1>3, <1>4
<1>6. w[(x - 1) + e] = f[x - 1] + c
  BY <1>2, <1>5
<1>7. f[x] = f[x - 1] + g[x - 1] /\ f[x - 1] \in Nat /\ g[x - 1] \in Nat
  BY <1>5 DEF Adds, Shifts
<1>8. w[x + e] = w[(x - 1) + e] + g[x - 1]
  BY <1>5 DEF Shifts
<1>9. QED
  BY <1>3, <1>6, <1>7, <1>8

(* A composition's length, from its components'.                           *)
LEMMA TotalIs ==
  ASSUME NEW ps, Listed(ps)
  PROVE  Total(ps) = ProgramOffsets(ps)[Len(ps) + 1] + 1
<1>. DEFINE f == ProgramOffsets(ps)
            g == [n \in DOMAIN ps |-> Terminal(ps[n]) - 1]
            L == Len(ps)
<1>1. L \in Nat \ {0} /\ DOMAIN ps = 1 .. L
  BY DEF Listed
<1>2. Adds(f, g, L + 1)
  BY OffsetFacts
<1>3. Terminal(ps[L]) \in Nat \ {0} /\ g[L] = Terminal(ps[L]) - 1
  BY <1>1, CodeTyped DEF Listed
<1>4. Total(ps) = f[L] + Terminal(ps[L])
  BY DEF Total, Offset
<1>. HIDE DEF f, g, L
<1>5. L \in 1 .. (L + 1) - 1 /\ L \in 1 .. L + 1
  BY <1>1
<1>6. f[L + 1] = f[L] + g[L] /\ f[L] \in Nat
  BY <1>2, <1>5 DEF Adds
<1>7. Total(ps) = f[L + 1] + 1
  BY <1>3, <1>4, <1>6
<1>8. QED
  BY <1>7 DEF f, L

(* The handles of a composition are what its components' become.           *)
LEMMA HandlesAre ==
  ASSUME NEW ps, NEW sh, NEW si, NEW g \in Handles(Compose(ps, sh, si))
  PROVE  \E n \in DOMAIN ps : \E h \in Handles(ps[n]) : g = HandleMap(ps, sh, n, h)
<1>. DEFINE H == {HandleMap(ps, sh, o[1], o[2]) : o \in Owners(ps)}
<1>1. Handles(Compose(ps, sh, si)) = H
  BY DEF Compose, Handles
<1>2. PICK o \in Owners(ps) : g = HandleMap(ps, sh, o[1], o[2])
  BY <1>1
<1>3. QED
  BY <1>2, OwnersOf

(* They have a bound: the components' widths, or the number of kinds.      *)
LEMMA HandlesBounded ==
  ASSUME NEW ps, Listed(ps), NEW sh, NEW si
  PROVE  \E N \in Nat : \A g \in Handles(Compose(ps, sh, si)) : g <= N
<1>1. CASE sh
  <2>1. ASSUME NEW n \in DOMAIN ps, NEW h \in Handles(ps[n])
        PROVE  HandleMap(ps, sh, n, h) <= Cardinality(OperatorKinds)
    <3>. DEFINE F == Earlier(ps, ps[n].specs[h])
    <3>1. HandleMap(ps, sh, n, h) = Cardinality(F)
      BY <1>1 DEF HandleMap, Earlier
    <3>2. F \subseteq OperatorKinds
      <4>1. \A o \in Owners(ps) : ps[o[1]].specs[o[2]] \in OperatorKinds
        BY OwnersOf, OwnerTyped
      <4>2. QED
        BY <4>1 DEF Kinds, Earlier
    <3>3. IsFiniteSet(OperatorKinds)
      BY FourKinds
    <3>. HIDE DEF F
    <3>4. QED
      BY <3>1, <3>2, <3>3, FS_Subset
  <2>2. Cardinality(OperatorKinds) \in Nat
    BY FourKinds, FS_CardinalityType
  <2>3. QED
    BY <2>1, <2>2, HandlesAre
<1>2. CASE ~ sh
  <2>. DEFINE f == HandleOffsets(ps)
              w == [k \in DOMAIN ps |-> Width(ps[k])]
              L == Len(ps)
  <2>1. L \in Nat \ {0} /\ DOMAIN ps = 1 .. L
    BY DEF Listed
  <2>2. Adds(f, w, L + 1) /\ \A n \in DOMAIN ps : w[n] = Width(ps[n])
    BY OffsetFacts
  <2>3. \A n \in DOMAIN ps : \A h \in Handles(ps[n]) :
          /\ h \in Nat /\ h < Width(ps[n])
          /\ HandleMap(ps, sh, n, h) = h + f[n]
    BY <1>2, OwnerTyped DEF HandleMap
  <2>4. \A n \in DOMAIN ps : Width(ps[n]) \in Nat
    BY WidthFacts DEF Listed, Valid
  <2>. HIDE DEF f, w, L
  <2>5. \A n \in DOMAIN ps : /\ f[n] \in Nat /\ f[n + 1] = f[n] + Width(ps[n])
                             /\ n + 1 \in 1 .. L + 1
    BY <2>1, <2>2 DEF Adds
  <2>6. f[L + 1] \in Nat /\ \A n \in 1 .. L + 1 : f[n] <= f[L + 1]
    <3>1. \A n \in 1 .. (L + 1) - 1 : w[n] \in Nat
      BY <2>1, <2>2, <2>4
    <3>2. L + 1 \in Nat /\ L + 1 \in 1 .. L + 1
      BY <2>1
    <3>3. f[L + 1] \in Nat
      BY <2>2, <3>2 DEF Adds
    <3>4. ASSUME NEW n \in 1 .. L + 1 PROVE f[n] <= f[L + 1]
      <4>1. n <= L + 1
        BY <2>1
      <4>2. QED
        BY <2>2, <3>1, <3>2, <4>1, SumsGrow
    <3>5. QED
      BY <3>3, <3>4
  <2>7. ASSUME NEW n \in DOMAIN ps, NEW h \in Handles(ps[n])
        PROVE  HandleMap(ps, sh, n, h) <= f[L + 1]
    <3>1. f[n + 1] <= f[L + 1] /\ f[n + 1] = f[n] + Width(ps[n]) /\ f[n] \in Nat
      BY <2>5, <2>6
    <3>2. h \in Nat /\ h < Width(ps[n]) /\ Width(ps[n]) \in Nat
      BY <2>3, <2>4
    <3>3. QED
      BY <2>3, <2>6, <3>1, <3>2
  <2>8. QED
    BY <2>6, <2>7, HandlesAre
<1>3. QED
  BY <1>1, <1>2

(* So a composition can be a component itself.                             *)
LEMMA ComposedIsListed ==
  ASSUME NEW ps, Listed(ps), NEW sh, NEW si
  PROVE  LET c == Compose(ps, sh, si) IN Valid(c) /\ HasLargest(Handles(c))
<1>. DEFINE c == Compose(ps, sh, si)
<1>1. Valid(c)
  BY ComposedIsValid
<1>2. Handles(c) \in SUBSET Nat
  BY <1>1 DEF Valid
<1>3. PICK N \in Nat : \A g \in Handles(c) : g <= N
  BY HandlesBounded
<1>. HIDE DEF c
<1>4. HasLargest(Handles(c))
  BY <1>2, <1>3, LargestOf DEF HasLargest
<1>5. QED
  BY <1>1, <1>4 DEF c

(* The width of a composition is the sum of its components'.               *)
LEMMA WidthAdds ==
  ASSUME NEW ps, Listed(ps), NEW sh, ~ sh, NEW si
  PROVE  Width(Compose(ps, sh, si)) = HandleOffsets(ps)[Len(ps) + 1]
<1>. DEFINE c == Compose(ps, sh, si)
            f == HandleOffsets(ps)
            w == [k \in DOMAIN ps |-> Width(ps[k])]
            L == Len(ps)
<1>1. L \in Nat \ {0} /\ DOMAIN ps = 1 .. L
  BY DEF Listed
<1>2. Adds(f, w, L + 1) /\ \A n \in DOMAIN ps : w[n] = Width(ps[n])
  BY OffsetFacts
<1>3. \A n \in DOMAIN ps : \A h \in Handles(ps[n]) :
        /\ h \in Nat /\ h < Width(ps[n]) /\ HandleMap(ps, sh, n, h) = h + f[n]
        /\ HandleMap(ps, sh, n, h) \in Handles(c)
  BY OwnerTyped, ComposedHandles DEF HandleMap
<1>4. \A n \in DOMAIN ps : Width(ps[n]) \in Nat
  BY WidthFacts DEF Listed, Valid
<1>5. \A g \in Handles(c) :
        \E n \in DOMAIN ps : \E h \in Handles(ps[n]) : g = HandleMap(ps, sh, n, h)
  BY HandlesAre
<1>6. Handles(c) \subseteq Nat /\ HasLargest(Handles(c))
  BY ComposedIsListed DEF Valid
<1>. HIDE DEF c, f, w, L
<1>7. \A n \in DOMAIN ps : /\ f[n] \in Nat /\ f[n + 1] = f[n] + Width(ps[n])
                           /\ n + 1 \in 1 .. L + 1
  BY <1>1, <1>2 DEF Adds
<1>8. f[1] = 0 /\ \A n \in 1 .. L + 1 : f[n] \in Nat
  BY <1>2 DEF Adds
<1>9. \A n \in 1 .. L + 1 : f[n] <= f[L + 1]
  <2>1. \A n \in 1 .. (L + 1) - 1 : w[n] \in Nat
    BY <1>1, <1>2, <1>4
  <2>2. L + 1 \in Nat /\ L + 1 \in 1 .. L + 1
    BY <1>1
  <2>3. ASSUME NEW n \in 1 .. L + 1 PROVE f[n] <= f[L + 1]
    <3>1. n <= L + 1
      BY <1>1
    <3>2. QED
      BY <1>2, <2>1, <2>2, <3>1, SumsGrow
  <2>4. QED
    BY <2>3
<1>10. \A g \in Handles(c) : g < f[L + 1]
  <2>1. TAKE g \in Handles(c)
  <2>2. PICK n \in DOMAIN ps : \E h \in Handles(ps[n]) : g = HandleMap(ps, sh, n, h)
    BY <1>5
  <2>7. PICK h \in Handles(ps[n]) : g = HandleMap(ps, sh, n, h)
    BY <2>2
  <2>3. g = h + f[n] /\ h \in Nat /\ h < Width(ps[n]) /\ Width(ps[n]) \in Nat
    BY <1>3, <1>4, <2>7
  <2>4. f[n + 1] = f[n] + Width(ps[n]) /\ f[n] \in Nat /\ f[n + 1] <= f[L + 1]
    BY <1>7, <1>9
  <2>5. f[L + 1] \in Nat
    BY <1>1, <1>8
  <2>6. QED
    BY <2>3, <2>4, <2>5
<1>11. CASE f[L + 1] = 0
  <2>1. Handles(c) = {}
    BY <1>6, <1>10, <1>11
  <2>2. QED
    BY <1>11, <2>1 DEF Width, c, f, L
<1>12. CASE f[L + 1] # 0
  <2>. DEFINE Full == {n \in 1 .. L + 1 : f[n] = f[L + 1]}
  <2>1. PICK n \in Full : \A m \in Full : n <= m
    <3>1. Full \in SUBSET Nat /\ L + 1 \in Full
      BY <1>1
    <3>. HIDE DEF Full
    <3>2. QED
      BY <3>1, LeastOf
  <2>2. n # 1
    BY <1>8, <1>12, <2>1
  <2>3. n - 1 \in DOMAIN ps /\ n = (n - 1) + 1 /\ ~ (n <= n - 1) /\ n - 1 \in 1 .. L + 1
    BY <1>1, <2>1, <2>2
  <2>. DEFINE m == n - 1
  <2>4. f[m] # f[L + 1] /\ m \in DOMAIN ps /\ f[m + 1] = f[L + 1]
    BY <2>1, <2>3
  <2>. HIDE DEF m
  <2>5. f[L + 1] = f[m] + Width(ps[m]) /\ f[m] \in Nat /\ Width(ps[m]) \in Nat \ {0}
    BY <1>4, <1>7, <2>4
  <2>6. Handles(ps[m]) # {} /\ HasLargest(Handles(ps[m])) /\ Handles(ps[m]) \subseteq Nat
    BY <2>4, <2>5 DEF Width, Listed, Valid
  <2>7. PICK h \in Handles(ps[m]) : Width(ps[m]) = h + 1
    BY <2>6 DEF Width, HasLargest
  <2>8. h + f[m] \in Handles(c) /\ h \in Nat
    BY <1>3, <2>4, <2>7
  <2>9. f[L + 1] = (h + f[m]) + 1 /\ f[L + 1] \in Nat
    BY <2>5, <2>7, <2>8
  <2>10. Width(c) \in Nat /\ h + f[m] < Width(c)
    BY <1>6, <2>8, WidthFacts
  <2>11. Width(c) <= f[L + 1]
    <3>1. PICK x \in Handles(c) : Width(c) = x + 1
      BY <1>6, <2>8 DEF Width, HasLargest
    <3>2. x < f[L + 1] /\ x \in Nat
      BY <1>6, <1>10
    <3>3. QED
      BY <2>9, <3>1, <3>2
  <2>12. Width(c) = f[L + 1]
    BY <2>5, <2>8, <2>9, <2>10, <2>11
  <2>13. QED
    BY <2>12 DEF c, f, L
<1>13. QED
  BY <1>11, <1>12

(* Sums of two sizes.                                                      *)
LEMMA SumsOfTwo ==
  ASSUME NEW p, NEW v, Adds(p, v, 3), v[1] \in Nat, v[2] \in Nat
  PROVE  p[1] = 0 /\ p[2] = v[1] /\ p[3] = v[1] + v[2]
<1>1. p[1] = 0 /\ p[1 + 1] = p[1] + v[1] /\ p[2 + 1] = p[2] + v[2] /\ p[2] \in Nat
  BY DEF Adds
<1>2. p[1 + 1] = v[1]
  <2>1. p[1 + 1] = 0 + v[1] /\ p[1 + 1] \in Nat
    BY <1>1
  <2>2. QED
    BY <1>1, <2>1
<1>3. QED
  BY <1>1, <1>2

(* The list q of components, of which rs has e ahead, and the composition  *)
(* of q as the k-th component of pr.                                       *)
Nest(rs, pr, sh, k, q, e) ==
  /\ k \in DOMAIN pr /\ e \in Nat
  /\ \A n \in DOMAIN q : n + e \in DOMAIN rs /\ rs[n + e] = q[n]
  /\ \A n \in 1 .. Len(q) + 1 :
       /\ ProgramOffsets(rs)[n + e] = ProgramOffsets(q)[n] + ProgramOffsets(pr)[k]
       /\ SlotOffsets(rs)[n + e] = SlotOffsets(q)[n] + SlotOffsets(pr)[k]
       /\ sh \/ HandleOffsets(rs)[n + e] = HandleOffsets(q)[n] + HandleOffsets(pr)[k]

(* Two lists in one, and their compositions side by side.                  *)
Nests(rs, pr, sh, si, ps, qs) ==
  /\ Listed(ps) /\ Listed(qs) /\ Listed(rs) /\ Listed(pr)
  /\ Len(rs) = Len(ps) + Len(qs) /\ Len(pr) = 2
  /\ pr[1] = Compose(ps, sh, si) /\ pr[2] = Compose(qs, sh, si)
  /\ Nest(rs, pr, sh, 1, ps, 0) /\ Nest(rs, pr, sh, 2, qs, Len(ps))
  /\ ProgramOffsets(rs)[Len(rs) + 1] = ProgramOffsets(pr)[3]
  /\ SlotOffsets(rs)[Len(rs) + 1] = SlotOffsets(pr)[3]

(* Sums f and g of sizes x and y, the sums w of both lists of sizes, and    *)
(* the sums p of two sizes that are the sums of x and of y.                *)
TwoSums(N, M, f, g, w, p, x, y, z, v) ==
  /\ N \in Nat /\ M \in Nat
  /\ Adds(f, x, N + 1) /\ Adds(g, y, M + 1) /\ Adds(w, z, (N + M) + 1) /\ Adds(p, v, 3)
  /\ \A n \in 1 .. N : x[n] \in Nat /\ z[n] = x[n]
  /\ \A n \in 1 .. M : y[n] \in Nat /\ z[n + N] = y[n]
  /\ v[1] = f[N + 1] /\ v[2] = g[M + 1]

(* The second list's sums start where the first one's end.                *)
LEMMA OffsetsNest ==
  ASSUME NEW N, NEW M, NEW f, NEW g, NEW w, NEW p, NEW x, NEW y, NEW z, NEW v,
         TwoSums(N, M, f, g, w, p, x, y, z, v)
  PROVE  /\ \A n \in 1 .. N + 1 : w[n + 0] = f[n] + p[1]
         /\ \A n \in 1 .. M + 1 : w[n + N] = g[n] + p[2]
         /\ w[(N + M) + 1] = p[3]
<1>. USE DEF TwoSums
<1>0. N \in Nat /\ M \in Nat
  OBVIOUS
<1>1. w[1] = 0 /\ \A n \in 1 .. N + M : w[n + 1] = w[n] + z[n] /\ w[n] \in Nat
  BY DEF Adds
<1>2. (\A n \in 1 .. N + 1 : f[n] \in Nat) /\ f[N + 1] \in Nat /\ g[M + 1] \in Nat
  BY DEF Adds
<1>3. p[1] = 0 /\ p[2] = v[1] /\ p[3] = v[1] + v[2]
  BY <1>2, SumsOfTwo
<1>4. \A n \in 1 .. N + 1 : w[n + 0] = f[n] + p[1]
  <2>1. ASSUME NEW e \in Nat, e = 0, NEW c \in Nat, c = 0, NEW k \in Nat, k = N + 1
        PROVE  \A n \in 1 .. k : w[n + e] = f[n] + c
    <3>1. /\ \A n \in 1 .. k - 1 : x[n] \in Nat
          /\ \A n \in 1 .. k - 1 : w[(n + 1) + e] = w[n + e] + x[n]
      BY <1>1, <2>1
    <3>2. w[1 + e] = c /\ Adds(f, x, k)
      BY <1>1, <2>1
    <3>3. Shifts(f, x, w, k, e, c)
      BY <3>1, <3>2 DEF Shifts
    <3>4. QED
      BY <3>3, SumsShift
  <2>2. 0 \in Nat /\ N + 1 \in Nat
    OBVIOUS
  <2>3. \A n \in 1 .. N + 1 : w[n + 0] = f[n] + 0
    BY <2>1, <2>2
  <2>4. QED
    BY <1>3, <2>3
<1>5. \A n \in 1 .. M + 1 : w[n + N] = g[n] + p[2]
  <2>1. ASSUME NEW c \in Nat, c = f[N + 1], NEW k \in Nat, k = M + 1
        PROVE  \A n \in 1 .. k : w[n + N] = g[n] + c
    <3>1. ASSUME NEW n \in 1 .. k - 1
          PROVE  y[n] \in Nat /\ w[(n + 1) + N] = w[n + N] + y[n]
      <4>1. n \in 1 .. M /\ n + N \in 1 .. N + M /\ (n + 1) + N = (n + N) + 1
        BY <2>1
      <4>2. w[(n + N) + 1] = w[n + N] + z[n + N]
        BY <1>1, <4>1
      <4>3. QED
        BY <4>1, <4>2
    <3>2. w[1 + N] = c /\ Adds(g, y, k)
      <4>1. N + 1 \in 1 .. N + 1 /\ 1 + N = N + 1 /\ (N + 1) + 0 = N + 1
        OBVIOUS
      <4>2. w[(N + 1) + 0] = f[N + 1] + 0
        BY <1>3, <1>4, <4>1
      <4>3. QED
        BY <1>2, <2>1, <4>1, <4>2
    <3>3. Shifts(g, y, w, k, N, c)
      BY <3>1, <3>2 DEF Shifts
    <3>4. QED
      BY <3>3, SumsShift
  <2>2. M + 1 \in Nat
    OBVIOUS
  <2>3. QED
    BY <1>2, <1>3, <2>1, <2>2
<1>6. w[(N + M) + 1] = p[3]
  <2>1. (M + 1) + N = (N + M) + 1 /\ M + 1 \in 1 .. M + 1
    OBVIOUS
  <2>2. w[(M + 1) + N] = g[M + 1] + f[N + 1]
    BY <1>3, <1>5, <2>1
  <2>3. QED
    BY <1>2, <1>3, <2>1, <2>2
<1>7. QED
  BY <1>4, <1>5, <1>6

(* The lengths that a composition has of its components.                   *)
LEMMA SizesSum ==
  ASSUME NEW ps, Listed(ps), NEW sh, NEW si
  PROVE  LET c == Compose(ps, sh, si) IN
         /\ Terminal(c) - 1 = ProgramOffsets(ps)[Len(ps) + 1]
         /\ c.slots = SlotOffsets(ps)[Len(ps) + 1]
         /\ sh \/ Width(c) = HandleOffsets(ps)[Len(ps) + 1]
<1>. DEFINE c == Compose(ps, sh, si)
            f == ProgramOffsets(ps)
            L == Len(ps)
<1>1. Joins(c, ps, sh, si)
  BY ComposeJoins
<1>2. Terminal(c) = f[L + 1] + 1
  BY <1>1, TotalIs DEF Joins, Terminal
<1>3. f[L + 1] \in Nat
  <2>1. L \in Nat
    BY DEF Listed
  <2>2. Adds(f, [n \in DOMAIN ps |-> Terminal(ps[n]) - 1], L + 1)
    BY OffsetFacts
  <2>. HIDE DEF f, L
  <2>3. L + 1 \in 1 .. L + 1
    BY <2>1
  <2>4. QED
    BY <2>2, <2>3 DEF Adds
<1>4. Terminal(c) - 1 = f[L + 1]
  BY <1>2, <1>3
<1>5. c.slots = SlotOffsets(ps)[Len(ps) + 1]
  BY <1>1 DEF Joins
<1>6. sh \/ Width(c) = HandleOffsets(ps)[Len(ps) + 1]
  BY WidthAdds
<1>7. QED
  BY <1>4, <1>5, <1>6

(* The sizes of a listed component.                                        *)
LEMMA SizesTyped ==
  ASSUME NEW ps, Listed(ps), NEW n \in DOMAIN ps
  PROVE  /\ Terminal(ps[n]) - 1 \in Nat /\ ps[n].slots \in Nat /\ Width(ps[n]) \in Nat
<1>1. Valid(ps[n]) /\ HasLargest(Handles(ps[n]))
  BY DEF Listed
<1>2. Terminal(ps[n]) \in Nat \ {0}
  BY <1>1, CodeTyped
<1>3. Width(ps[n]) \in Nat /\ ps[n].slots \in Nat
  BY <1>1, WidthFacts DEF Valid
<1>4. QED
  BY <1>2, <1>3

(* Two lists one after the other, and the compositions of both.            *)
LEMMA NestsTwo ==
  ASSUME NEW S, NEW ps \in Seq(S), NEW qs \in Seq(S), Listed(ps), Listed(qs),
         NEW sh, NEW si
  PROVE  Nests(ps \o qs, <<Compose(ps, sh, si), Compose(qs, sh, si)>>, sh, si, ps, qs)
<1>. DEFINE rs == ps \o qs
            a == Compose(ps, sh, si)
            b == Compose(qs, sh, si)
            pr == <<a, b>>
            N == Len(ps)
            M == Len(qs)
<1>1. /\ N \in Nat \ {0} /\ DOMAIN ps = 1 .. N /\ M \in Nat \ {0} /\ DOMAIN qs = 1 .. M
  BY DEF Listed
<1>2. /\ Len(rs) = N + M /\ DOMAIN rs = 1 .. N + M
      /\ \A n \in 1 .. N : rs[n] = ps[n] /\ n \in DOMAIN rs
      /\ \A n \in 1 .. M : rs[n + N] = qs[n] /\ n + N \in DOMAIN rs
  BY <1>1
<1>3. Len(pr) = 2 /\ DOMAIN pr = 1 .. 2 /\ pr[1] = a /\ pr[2] = b
  OBVIOUS
<1>4. Valid(a) /\ HasLargest(Handles(a)) /\ Valid(b) /\ HasLargest(Handles(b))
  BY ComposedIsListed
<1>5. /\ Terminal(a) - 1 = ProgramOffsets(ps)[N + 1] /\ Terminal(b) - 1 = ProgramOffsets(qs)[M + 1]
      /\ a.slots = SlotOffsets(ps)[N + 1] /\ b.slots = SlotOffsets(qs)[M + 1]
      /\ sh \/ (Width(a) = HandleOffsets(ps)[N + 1] /\ Width(b) = HandleOffsets(qs)[M + 1])
  BY SizesSum
<1>. HIDE DEF rs, pr, a, b
<1>6. Listed(pr)
  BY <1>3, <1>4 DEF Listed
<1>7. Listed(rs)
  <2>1. \A n \in DOMAIN rs : n \in 1 .. N \/ (n - N \in 1 .. M /\ n = (n - N) + N)
    BY <1>1, <1>2
  <2>2. \A n \in DOMAIN rs : Valid(rs[n]) /\ HasLargest(Handles(rs[n]))
    BY <1>1, <1>2, <2>1 DEF Listed
  <2>3. QED
    BY <1>1, <1>2, <2>2 DEF Listed
<1>8. ASSUME NEW f, NEW g, NEW w, NEW p, NEW x, NEW y, NEW z, NEW v,
             Adds(f, x, N + 1), Adds(g, y, M + 1), Adds(w, z, Len(rs) + 1), Adds(p, v, Len(pr) + 1),
             \A n \in DOMAIN ps : x[n] \in Nat /\ z[n] = x[n],
             \A n \in DOMAIN qs : y[n] \in Nat /\ z[n + N] = y[n],
             v[1] = f[N + 1], v[2] = g[M + 1]
      PROVE  /\ \A n \in 1 .. N + 1 : w[n + 0] = f[n] + p[1]
             /\ \A n \in 1 .. M + 1 : w[n + N] = g[n] + p[2]
             /\ w[Len(rs) + 1] = p[3]
  <2>. HIDE DEF N, M
  <2>1. Adds(w, z, (N + M) + 1) /\ Adds(p, v, 3)
    BY <1>2, <1>3, <1>8
  <2>2. N \in Nat /\ M \in Nat
    BY <1>1
  <2>3. /\ \A n \in 1 .. N : x[n] \in Nat /\ z[n] = x[n]
        /\ \A n \in 1 .. M : y[n] \in Nat /\ z[n + N] = y[n]
    BY <1>1, <1>8
  <2>6. TwoSums(N, M, f, g, w, p, x, y, z, v)
    BY <1>8, <2>1, <2>2, <2>3 DEF TwoSums
  <2>4. /\ \A n \in 1 .. N + 1 : w[n + 0] = f[n] + p[1]
        /\ \A n \in 1 .. M + 1 : w[n + N] = g[n] + p[2]
        /\ w[(N + M) + 1] = p[3]
    BY <2>6, OffsetsNest
  <2>5. QED
    BY <1>2, <2>4
<1>9. /\ \A n \in 1 .. N + 1 :
           ProgramOffsets(rs)[n + 0] = ProgramOffsets(ps)[n] + ProgramOffsets(pr)[1]
      /\ \A n \in 1 .. M + 1 :
           ProgramOffsets(rs)[n + N] = ProgramOffsets(qs)[n] + ProgramOffsets(pr)[2]
      /\ ProgramOffsets(rs)[Len(rs) + 1] = ProgramOffsets(pr)[3]
  <2>. DEFINE size(l) == [n \in DOMAIN l |-> Terminal(l[n]) - 1]
              x == size(ps)
              y == size(qs)
              z == size(rs)
              v == size(pr)
  <2>1. /\ Adds(ProgramOffsets(ps), x, N + 1) /\ Adds(ProgramOffsets(qs), y, M + 1)
        /\ Adds(ProgramOffsets(rs), z, Len(rs) + 1) /\ Adds(ProgramOffsets(pr), v, Len(pr) + 1)
    BY <1>6, <1>7, OffsetFacts
  <2>2. \A n \in DOMAIN ps : x[n] \in Nat /\ z[n] = x[n]
    BY <1>1, <1>2, SizesTyped
  <2>3. \A n \in DOMAIN qs : y[n] \in Nat /\ z[n + N] = y[n]
    BY <1>1, <1>2, SizesTyped
  <2>4. v[1] = ProgramOffsets(ps)[N + 1] /\ v[2] = ProgramOffsets(qs)[M + 1]
    BY <1>3, <1>5
  <2>. HIDE DEF x, y, z, v, N, M
  <2>5. QED
    BY <1>8, <2>1, <2>2, <2>3, <2>4
<1>10. /\ \A n \in 1 .. N + 1 : SlotOffsets(rs)[n + 0] = SlotOffsets(ps)[n] + SlotOffsets(pr)[1]
       /\ \A n \in 1 .. M + 1 :
            SlotOffsets(rs)[n + N] = SlotOffsets(qs)[n] + SlotOffsets(pr)[2]
       /\ SlotOffsets(rs)[Len(rs) + 1] = SlotOffsets(pr)[3]
  <2>. DEFINE size(l) == [n \in DOMAIN l |-> l[n].slots]
              x == size(ps)
              y == size(qs)
              z == size(rs)
              v == size(pr)
  <2>1. /\ Adds(SlotOffsets(ps), x, N + 1) /\ Adds(SlotOffsets(qs), y, M + 1)
        /\ Adds(SlotOffsets(rs), z, Len(rs) + 1) /\ Adds(SlotOffsets(pr), v, Len(pr) + 1)
    BY <1>6, <1>7, OffsetFacts
  <2>2. \A n \in DOMAIN ps : x[n] \in Nat /\ z[n] = x[n]
    BY <1>1, <1>2, SizesTyped
  <2>3. \A n \in DOMAIN qs : y[n] \in Nat /\ z[n + N] = y[n]
    BY <1>1, <1>2, SizesTyped
  <2>4. v[1] = SlotOffsets(ps)[N + 1] /\ v[2] = SlotOffsets(qs)[M + 1]
    BY <1>3, <1>5
  <2>. HIDE DEF x, y, z, v, N, M
  <2>5. QED
    BY <1>8, <2>1, <2>2, <2>3, <2>4
<1>11. ASSUME ~ sh
       PROVE  /\ \A n \in 1 .. N + 1 :
                   HandleOffsets(rs)[n + 0] = HandleOffsets(ps)[n] + HandleOffsets(pr)[1]
              /\ \A n \in 1 .. M + 1 :
                   HandleOffsets(rs)[n + N] = HandleOffsets(qs)[n] + HandleOffsets(pr)[2]
  <2>. DEFINE size(l) == [n \in DOMAIN l |-> Width(l[n])]
              x == size(ps)
              y == size(qs)
              z == size(rs)
              v == size(pr)
  <2>1. /\ Adds(HandleOffsets(ps), x, N + 1) /\ Adds(HandleOffsets(qs), y, M + 1)
        /\ Adds(HandleOffsets(rs), z, Len(rs) + 1) /\ Adds(HandleOffsets(pr), v, Len(pr) + 1)
    BY <1>6, <1>7, OffsetFacts
  <2>2. \A n \in DOMAIN ps : x[n] \in Nat /\ z[n] = x[n]
    BY <1>1, <1>2, SizesTyped
  <2>3. \A n \in DOMAIN qs : y[n] \in Nat /\ z[n + N] = y[n]
    BY <1>1, <1>2, SizesTyped
  <2>4. v[1] = HandleOffsets(ps)[N + 1] /\ v[2] = HandleOffsets(qs)[M + 1]
    BY <1>3, <1>5, <1>11
  <2>. HIDE DEF x, y, z, v, N, M
  <2>5. QED
    BY <1>8, <2>1, <2>2, <2>3, <2>4
<1>12. Nest(rs, pr, sh, 1, ps, 0)
  <2>1. \A n \in DOMAIN ps : n + 0 \in DOMAIN rs /\ rs[n + 0] = ps[n]
    BY <1>1, <1>2
  <2>2. 1 \in DOMAIN pr /\ 0 \in Nat
    BY <1>3
  <2>3. QED
    BY <1>9, <1>10, <1>11, <2>1, <2>2 DEF Nest
<1>13. Nest(rs, pr, sh, 2, qs, N)
  <2>1. \A n \in DOMAIN qs : n + N \in DOMAIN rs /\ rs[n + N] = qs[n]
    BY <1>1, <1>2
  <2>2. 2 \in DOMAIN pr /\ N \in Nat
    BY <1>1, <1>3
  <2>3. QED
    BY <1>9, <1>10, <1>11, <2>1, <2>2 DEF Nest
<1>14. Nests(rs, pr, sh, si, ps, qs)
  BY <1>2, <1>3, <1>6, <1>7, <1>9, <1>10, <1>12, <1>13 DEF Nests, a, b
<1>15. QED
  BY <1>14 DEF rs, pr, a, b

(* Without sharing the operators' handles follow the offsets.              *)
LEMMA HandlesNestOwn ==
  ASSUME NEW rs, NEW pr, NEW sh, ~ sh, NEW k, NEW q, Listed(q), NEW e, Nest(rs, pr, sh, k, q, e),
         Listed(pr), NEW n \in DOMAIN q, NEW h \in Handles(q[n])
  PROVE  HandleMap(rs, sh, n + e, h) = HandleMap(pr, sh, k, HandleMap(q, sh, n, h))
<1>1. h \in Nat /\ HandleOffsets(q)[n] \in Nat
  BY OwnerTyped
<1>2. HandleOffsets(pr)[k] \in Nat
  <2>. DEFINE f == HandleOffsets(pr)
              w == [m \in DOMAIN pr |-> Width(pr[m])]
              L == Len(pr)
  <2>1. Adds(f, w, L + 1)
    BY OffsetFacts
  <2>2. L \in Nat /\ k \in 1 .. L
    BY DEF Listed, Nest
  <2>. HIDE DEF f, w, L
  <2>3. k \in 1 .. L + 1
    BY <2>2
  <2>4. f[k] \in Nat
    BY <2>1, <2>3 DEF Adds
  <2>5. QED
    BY <2>4 DEF f
<1>3. HandleOffsets(rs)[n + e] = HandleOffsets(q)[n] + HandleOffsets(pr)[k]
  <2>1. n \in 1 .. Len(q) + 1
    BY DEF Listed
  <2>2. QED
    BY <2>1 DEF Nest
<1>4. /\ HandleMap(q, sh, n, h) = h + HandleOffsets(q)[n]
      /\ \A g : HandleMap(pr, sh, k, g) = g + HandleOffsets(pr)[k]
      /\ HandleMap(rs, sh, n + e, h) = h + HandleOffsets(rs)[n + e]
  BY DEF HandleMap
<1>5. QED
  BY <1>1, <1>2, <1>3, <1>4

(* With sharing a handle is the rank of its operator's kind.               *)
ByKind(sh) == \A ps, n, h : HandleMap(ps, sh, n, h) = Cardinality(Earlier(ps, ps[n].specs[h]))

(* The switch does that.                                                   *)
LEMMA SharedByKind == \A sh : sh => ByKind(sh)
BY DEF ByKind, HandleMap, Earlier

(* The operators of a composition are of its components' kinds.            *)
LEMMA ComposedKinds ==
  ASSUME NEW q, Listed(q), NEW sh, ByKind(sh), NEW si,
         NEW g \in Handles(Compose(q, sh, si))
  PROVE  LET kind == Compose(q, sh, si).specs[g] IN
         kind \in Kinds(q) /\ g = Cardinality(Earlier(q, kind))
<1>. DEFINE c == Compose(q, sh, si)
<1>1. PICK n \in DOMAIN q : \E h \in Handles(q[n]) : g = HandleMap(q, sh, n, h)
  BY HandlesAre
<1>2. PICK h \in Handles(q[n]) : g = HandleMap(q, sh, n, h)
  BY <1>1
<1>3. c.specs[g] = q[n].specs[h]
  BY <1>2, SpecsKept
<1>4. g = Cardinality(Earlier(q, q[n].specs[h]))
  BY <1>2 DEF ByKind
<1>5. <<n, h>> \in Owners(q)
  BY OwnersOf
<1>6. q[n].specs[h] \in Kinds(q)
  BY <1>5 DEF Kinds
<1>7. QED
  BY <1>3, <1>4, <1>6

(* And its components' kinds are its.                                      *)
LEMMA KindsComposed ==
  ASSUME NEW q, Listed(q), NEW sh, ByKind(sh), NEW si, NEW kind \in Kinds(q)
  PROVE  LET c == Compose(q, sh, si)
             g == Cardinality(Earlier(q, kind))
         IN g \in Handles(c) /\ c.specs[g] = kind
<1>1. PICK o \in Owners(q) : kind = q[o[1]].specs[o[2]]
  BY DEF Kinds
<1>2. o[1] \in DOMAIN q /\ o[2] \in Handles(q[o[1]])
  BY OwnersTyped
<1>3. HandleMap(q, sh, o[1], o[2]) = Cardinality(Earlier(q, kind))
  BY <1>1 DEF ByKind
<1>4. QED
  BY <1>1, <1>2, <1>3, ComposedHandles, SpecsKept

(* A component's operators are its list's.                                 *)
LEMMA OwnersNest ==
  ASSUME NEW rs, NEW pr, NEW sh, NEW k, NEW q, NEW e, Nest(rs, pr, sh, k, q, e),
         NEW n \in DOMAIN q, NEW h \in Handles(q[n])
  PROVE  /\ <<n + e, h>> \in OccursAt(rs, q[n].specs[h])
         /\ <<n, h>> \in OccursAt(q, q[n].specs[h])
         /\ q[n].specs[h] \in Kinds(rs) /\ q[n].specs[h] \in Kinds(q)
<1>1. n + e \in DOMAIN rs /\ rs[n + e] = q[n]
  BY DEF Nest
<1>2. <<n + e, h>> \in Owners(rs) /\ <<n, h>> \in Owners(q)
  BY <1>1, OwnersOf
<1>3. /\ <<n + e, h>>[1] = n + e /\ <<n + e, h>>[2] = h
      /\ <<n, h>>[1] = n /\ <<n, h>>[2] = h
  OBVIOUS
<1>4. <<n + e, h>> \in OccursAt(rs, q[n].specs[h]) /\ <<n, h>> \in OccursAt(q, q[n].specs[h])
  BY <1>1, <1>2, <1>3 DEF OccursAt
<1>5. \A l, i, o : o \in OccursAt(l, i) => i \in Kinds(l)
  BY DEF OccursAt, Kinds
<1>6. QED
  BY <1>4, <1>5

(* What comes first in the list comes first in its part.                   *)
LEMMA FirstInPart ==
  ASSUME NEW rs, NEW pr, NEW sh, NEW k, NEW q, Listed(q), NEW e, Nest(rs, pr, sh, k, q, e),
         NEW n \in DOMAIN q, NEW h \in Handles(q[n]), NEW i,
         \A y \in OccursAt(rs, i) : Before(<<n + e, h>>, y)
  PROVE  \A y \in OccursAt(q, i) : Before(<<n, h>>, y)
<1>1. TAKE y \in OccursAt(q, i)
<1>2. /\ y \in Owners(q) /\ q[y[1]].specs[y[2]] = i
      /\ y[1] \in DOMAIN q /\ y[2] \in Handles(q[y[1]])
  BY OwnersTyped DEF OccursAt
<1>3. <<y[1] + e, y[2]>> \in OccursAt(rs, i)
  BY <1>2, OwnersNest
<1>4. n + e < y[1] + e \/ (n + e = y[1] + e /\ h < y[2])
  BY <1>3 DEF Before
<1>5. n \in Nat /\ y[1] \in Nat /\ e \in Nat
  BY <1>2 DEF Listed, Nest
<1>6. n < y[1] \/ (n = y[1] /\ h < y[2])
  BY <1>4, <1>5
<1>7. QED
  BY <1>6 DEF Before

(* A part's first operator of a kind comes first in its composition.       *)
LEMMA FirstOfPart ==
  ASSUME NEW pr, Listed(pr), NEW k \in DOMAIN pr, NEW q, Listed(q),
         NEW sh, ByKind(sh), NEW si, pr[k] = Compose(q, sh, si),
         NEW j \in Kinds(q), NEW i,
         \E x \in OccursAt(q, j) : \A y \in OccursAt(q, i) : Before(x, y),
         \A y \in OccursAt(pr, i) : y[1] >= k
  PROVE  FirstBefore(pr, j, i) /\ j \in Kinds(pr)
<1>. DEFINE g == Cardinality(Earlier(q, j))
            x == <<k, g>>
<1>1. g \in Handles(pr[k]) /\ pr[k].specs[g] = j
  BY KindsComposed
<1>2. x \in OccursAt(pr, j) /\ j \in Kinds(pr)
  <2>1. x \in Owners(pr) /\ x[1] = k /\ x[2] = g
    BY <1>1, OwnersOf
  <2>. HIDE DEF x, g
  <2>2. QED
    BY <1>1, <2>1 DEF OccursAt, Kinds
<1>3. ASSUME NEW y \in OccursAt(pr, i) PROVE Before(x, y)
  <2>1. y \in Owners(pr) /\ pr[y[1]].specs[y[2]] = i
    BY DEF OccursAt
  <2>2. y[1] \in DOMAIN pr /\ y[2] \in Handles(pr[y[1]]) /\ y[1] \in Nat
    BY <2>1, OwnersTyped
  <2>5. y[1] >= k /\ k \in Nat
    BY DEF Listed
  <2>3. CASE y[1] = k
    <3>1. i \in Kinds(q) /\ y[2] = Cardinality(Earlier(q, i))
      BY <2>1, <2>2, <2>3, ComposedKinds
    <3>2. g < y[2]
      BY <3>1, RanksFollow DEF FirstBefore
    <3>3. QED
      BY <2>3, <3>2 DEF Before
  <2>4. CASE k < y[1]
    BY <2>4 DEF Before
  <2>6. QED
    BY <2>2, <2>3, <2>4, <2>5
<1>4. FirstBefore(pr, j, i)
  BY <1>2, <1>3 DEF FirstBefore
<1>5. QED
  BY <1>2, <1>4

(* A part of the list that is a component of the other one.                *)
Part(rs, pr, sh, si, k, q, e) ==
  /\ Nest(rs, pr, sh, k, q, e) /\ Listed(q) /\ Listed(pr) /\ Listed(rs)
  /\ pr[k] = Compose(q, sh, si)
  /\ \A n \in DOMAIN q : Hands(rs, n + e) <=> (Hands(q, n) \/ Hands(pr, k))

(* What is ahead of an operator of a part is ahead of it in both lists.    *)
LEMMA FirstInNest ==
  ASSUME NEW rs, NEW pr, NEW sh, ByKind(sh), NEW si, NEW k, NEW q, NEW e,
         Part(rs, pr, sh, si, k, q, e),
         NEW n \in DOMAIN q, NEW h \in Handles(q[n]), NEW i,
         NEW x, x = <<n + e, h>>, \A y \in OccursAt(rs, i) : Before(x, y),
         \A y \in OccursAt(pr, i) : y[1] >= k
  PROVE  FirstBefore(pr, q[n].specs[h], i)
<1>1. /\ Nest(rs, pr, sh, k, q, e) /\ Listed(q) /\ Listed(pr)
      /\ pr[k] = Compose(q, sh, si) /\ k \in DOMAIN pr
  BY DEF Part, Nest
<1>2. \A y \in OccursAt(q, i) : Before(<<n, h>>, y)
  BY <1>1, FirstInPart
<1>3. <<n, h>> \in OccursAt(q, q[n].specs[h]) /\ q[n].specs[h] \in Kinds(q)
  BY <1>1, OwnersNest
<1>4. QED
  BY <1>1, <1>2, <1>3, FirstOfPart

(* Two lists in one are its parts.                                         *)
LEMMA TheParts ==
  ASSUME NEW rs, NEW pr, NEW sh, NEW si, NEW ps, NEW qs, Nests(rs, pr, sh, si, ps, qs)
  PROVE  Part(rs, pr, sh, si, 1, ps, 0) /\ Part(rs, pr, sh, si, 2, qs, Len(ps))
<1>1. /\ Len(rs) = Len(ps) + Len(qs) /\ DOMAIN ps = 1 .. Len(ps) /\ DOMAIN qs = 1 .. Len(qs)
      /\ Len(ps) \in Nat /\ Len(qs) \in Nat \ {0} /\ Len(pr) = 2
  BY DEF Nests, Listed
<1>2. \A n \in DOMAIN ps : Hands(rs, n + 0) <=> (Hands(ps, n) \/ Hands(pr, 1))
  BY <1>1 DEF Hands
<1>3. \A n \in DOMAIN qs : Hands(rs, n + Len(ps)) <=> (Hands(qs, n) \/ Hands(pr, 2))
  BY <1>1 DEF Hands
<1>4. QED
  BY <1>2, <1>3 DEF Nests, Part

(* A component of the list is one of a part.                               *)
LEMMA InPart ==
  ASSUME NEW rs, NEW pr, NEW sh, NEW si, NEW ps, NEW qs, Nests(rs, pr, sh, si, ps, qs),
         NEW m \in DOMAIN rs
  PROVE  \E k \in {1, 2}, e \in {0, Len(ps)} : \E q \in {ps, qs} :
           /\ Part(rs, pr, sh, si, k, q, e)
           /\ k = 2 => m > Len(ps)
           /\ \E n \in DOMAIN q : m = n + e /\ rs[m] = q[n]
<1>1. /\ Part(rs, pr, sh, si, 1, ps, 0) /\ Part(rs, pr, sh, si, 2, qs, Len(ps))
  BY TheParts
<1>2. /\ DOMAIN rs = 1 .. Len(ps) + Len(qs) /\ DOMAIN ps = 1 .. Len(ps)
      /\ DOMAIN qs = 1 .. Len(qs) /\ Len(ps) \in Nat /\ Len(qs) \in Nat
  BY DEF Nests, Listed
<1>3. ASSUME m <= Len(ps) PROVE \E n \in DOMAIN ps : m = n + 0 /\ rs[m] = ps[n]
  <2>1. m \in DOMAIN ps /\ m = m + 0
    BY <1>2, <1>3
  <2>2. rs[m] = ps[m]
    BY <1>1, <2>1 DEF Part, Nest
  <2>3. QED
    BY <2>1, <2>2
<1>4. ASSUME m > Len(ps) PROVE \E n \in DOMAIN qs : m = n + Len(ps) /\ rs[m] = qs[n]
  <2>1. PICK n \in DOMAIN qs : m = n + Len(ps)
    <3>1. m - Len(ps) \in DOMAIN qs /\ m = (m - Len(ps)) + Len(ps)
      BY <1>2, <1>4
    <3>2. QED
      BY <3>1
  <2>2. rs[m] = qs[n]
    BY <1>1, <2>1 DEF Part, Nest
  <2>3. QED
    BY <2>1, <2>2
<1>5. CASE m <= Len(ps)
  <2>1. 1 \in {1, 2} /\ 0 \in {0, Len(ps)} /\ ps \in {ps, qs} /\ 1 # 2
    OBVIOUS
  <2>2. QED
    BY <1>1, <1>3, <1>5, <2>1
<1>6. CASE m > Len(ps)
  <2>1. 2 \in {1, 2} /\ Len(ps) \in {0, Len(ps)} /\ qs \in {ps, qs}
    OBVIOUS
  <2>2. QED
    BY <1>1, <1>4, <1>6, <2>1
<1>7. QED
  BY <1>2, <1>5, <1>6

(* An operator of the list is one of a part.                               *)
LEMMA InEither ==
  ASSUME NEW rs, NEW pr, NEW sh, NEW si, NEW ps, NEW qs, Nests(rs, pr, sh, si, ps, qs),
         NEW x \in Owners(rs)
  PROVE  \E k \in {1, 2}, e \in {0, Len(ps)} : \E q \in {ps, qs} :
           /\ Part(rs, pr, sh, si, k, q, e)
           /\ k = 2 => x[1] > Len(ps)
           /\ \E n \in DOMAIN q : \E h \in Handles(q[n]) :
                x = <<n + e, h>> /\ rs[x[1]].specs[x[2]] = q[n].specs[h]
<1>1. x = <<x[1], x[2]>> /\ x[1] \in DOMAIN rs /\ x[2] \in Handles(rs[x[1]])
  BY OwnersTyped DEF Nests
<1>2. PICK k \in {1, 2}, e \in {0, Len(ps)} : \E q \in {ps, qs} :
        /\ Part(rs, pr, sh, si, k, q, e)
        /\ k = 2 => x[1] > Len(ps)
        /\ \E n \in DOMAIN q : x[1] = n + e /\ rs[x[1]] = q[n]
  BY <1>1, InPart
<1>3. PICK q \in {ps, qs} :
        /\ Part(rs, pr, sh, si, k, q, e)
        /\ k = 2 => x[1] > Len(ps)
        /\ \E n \in DOMAIN q : x[1] = n + e /\ rs[x[1]] = q[n]
  BY <1>2
<1>4. \E n \in DOMAIN q : \E h \in Handles(q[n]) :
        x = <<n + e, h>> /\ rs[x[1]].specs[x[2]] = q[n].specs[h]
  BY <1>1, <1>3
<1>5. QED
  BY <1>3, <1>4

(* Both lists have the same kinds.                                         *)
LEMMA KindsNest ==
  ASSUME NEW rs, NEW pr, NEW sh, ByKind(sh), NEW si, NEW ps, NEW qs,
         Nests(rs, pr, sh, si, ps, qs)
  PROVE  Kinds(rs) = Kinds(pr)
<1>1. Listed(rs) /\ Listed(pr) /\ DOMAIN pr = 1 .. 2
  BY DEF Nests, Listed
<1>2. ASSUME NEW i \in Kinds(rs) PROVE i \in Kinds(pr)
  <2>1. PICK x \in Owners(rs) : i = rs[x[1]].specs[x[2]]
    BY DEF Kinds
  <2>2. PICK k \in {1, 2}, e \in {0, Len(ps)} : \E q \in {ps, qs} :
           /\ Part(rs, pr, sh, si, k, q, e)
           /\ \E n \in DOMAIN q : \E h \in Handles(q[n]) : i = q[n].specs[h]
    BY <2>1, InEither
  <2>3. PICK q \in {ps, qs} :
           /\ Part(rs, pr, sh, si, k, q, e)
           /\ \E n \in DOMAIN q : \E h \in Handles(q[n]) : i = q[n].specs[h]
    BY <2>2
  <2>4. i \in Kinds(q) /\ Listed(q) /\ pr[k] = Compose(q, sh, si) /\ k \in DOMAIN pr
    <3>1. PICK n \in DOMAIN q : \E h \in Handles(q[n]) : i = q[n].specs[h]
      BY <2>3
    <3>2. Nest(rs, pr, sh, k, q, e)
      BY <2>3 DEF Part
    <3>3. i \in Kinds(q)
      BY <3>1, <3>2, OwnersNest
    <3>4. QED
      BY <2>3, <3>2, <3>3 DEF Part, Nest
  <2>5. \E g \in Handles(pr[k]) : pr[k].specs[g] = i
    BY <2>4, KindsComposed
  <2>6. PICK g \in Handles(pr[k]) : pr[k].specs[g] = i
    BY <2>5
  <2>7. <<k, g>> \in Owners(pr)
    BY <2>4, <2>6, OwnersOf
  <2>8. QED
    BY <2>6, <2>7 DEF Kinds
<1>3. ASSUME NEW i \in Kinds(pr) PROVE i \in Kinds(rs)
  <2>1. PICK y \in Owners(pr) : i = pr[y[1]].specs[y[2]]
    BY DEF Kinds
  <2>2. y[1] \in {1, 2} /\ y[2] \in Handles(pr[y[1]])
    BY <1>1, <2>1, OwnersTyped
  <2>3. ASSUME NEW k, NEW q, NEW e, Part(rs, pr, sh, si, k, q, e), k = y[1] PROVE i \in Kinds(rs)
    <3>1. i \in Kinds(q)
      BY <2>1, <2>2, <2>3, ComposedKinds DEF Part
    <3>2. PICK o \in Owners(q) : i = q[o[1]].specs[o[2]]
      BY <3>1 DEF Kinds
    <3>3. o[1] \in DOMAIN q /\ o[2] \in Handles(q[o[1]])
      BY <2>3, <3>2, OwnersTyped DEF Part
    <3>4. QED
      BY <2>3, <3>2, <3>3, OwnersNest DEF Part
  <2>4. Part(rs, pr, sh, si, 1, ps, 0) /\ Part(rs, pr, sh, si, 2, qs, Len(ps))
    BY TheParts
  <2>5. QED
    BY <2>2, <2>3, <2>4
<1>4. QED
  BY <1>2, <1>3

(* What comes first in one list comes first in the other.                  *)
LEMMA FirstFollows ==
  ASSUME NEW rs, NEW pr, NEW sh, ByKind(sh), NEW si, NEW ps, NEW qs,
         Nests(rs, pr, sh, si, ps, qs),
         NEW j, NEW i, FirstBefore(rs, j, i)
  PROVE  FirstBefore(pr, j, i)
<1>1. Listed(rs) /\ Listed(pr) /\ DOMAIN pr = 1 .. 2 /\ Len(ps) \in Nat /\ Listed(ps)
      /\ DOMAIN ps = 1 .. Len(ps) /\ Nest(rs, pr, sh, 1, ps, 0) /\ pr[1] = Compose(ps, sh, si)
  BY DEF Nests, Listed
<1>2. PICK x \in OccursAt(rs, j) : \A y \in OccursAt(rs, i) : Before(x, y)
  BY DEF FirstBefore
<1>3. x \in Owners(rs) /\ rs[x[1]].specs[x[2]] = j
  BY <1>2 DEF OccursAt
<1>4. PICK k \in {1, 2}, e \in {0, Len(ps)} : \E q \in {ps, qs} :
        /\ Part(rs, pr, sh, si, k, q, e)
        /\ k = 2 => x[1] > Len(ps)
        /\ \E n \in DOMAIN q : \E h \in Handles(q[n]) :
             x = <<n + e, h>> /\ rs[x[1]].specs[x[2]] = q[n].specs[h]
  BY <1>3, InEither
<1>5. PICK q \in {ps, qs} :
        /\ Part(rs, pr, sh, si, k, q, e)
        /\ k = 2 => x[1] > Len(ps)
        /\ \E n \in DOMAIN q : \E h \in Handles(q[n]) :
             x = <<n + e, h>> /\ rs[x[1]].specs[x[2]] = q[n].specs[h]
  BY <1>4
<1>6. PICK n \in DOMAIN q : \E h \in Handles(q[n]) : x = <<n + e, h>> /\ j = q[n].specs[h]
  BY <1>3, <1>5
<1>7. PICK h \in Handles(q[n]) : x = <<n + e, h>> /\ j = q[n].specs[h]
  BY <1>6
<1>8. ASSUME NEW y \in OccursAt(pr, i) PROVE y[1] >= k
  <2>1. y \in Owners(pr) /\ pr[y[1]].specs[y[2]] = i
    BY DEF OccursAt
  <2>2. y[1] \in {1, 2} /\ y[2] \in Handles(pr[y[1]])
    BY <1>1, <2>1, OwnersTyped
  <2>3. ASSUME k = 2, y[1] = 1 PROVE FALSE
    <3>1. i \in Kinds(ps)
      <4>1. pr[1].specs[y[2]] = i /\ y[2] \in Handles(pr[1])
        BY <2>1, <2>2, <2>3
      <4>2. QED
        BY <1>1, <4>1, ComposedKinds
    <3>2. PICK o \in Owners(ps) : i = ps[o[1]].specs[o[2]]
      BY <3>1 DEF Kinds
    <3>3. o[1] \in 1 .. Len(ps) /\ o[2] \in Handles(ps[o[1]]) /\ o[1] + 0 = o[1]
      BY <1>1, <3>2, OwnersTyped
    <3>4. rs[o[1]] = ps[o[1]] /\ o[1] \in DOMAIN rs
      <4>1. o[1] + 0 \in DOMAIN rs /\ rs[o[1] + 0] = ps[o[1]]
        BY <1>1, <3>3 DEF Nest
      <4>2. QED
        BY <3>3, <4>1
    <3>5. <<o[1], o[2]>> \in Owners(rs)
      BY <3>3, <3>4, OwnersOf
    <3>6. <<o[1], o[2]>> \in OccursAt(rs, i)
      BY <3>2, <3>4, <3>5 DEF OccursAt
    <3>7. Before(x, <<o[1], o[2]>>)
      BY <1>2, <3>6
    <3>8. x[1] > Len(ps) /\ x[1] \in Nat
      BY <1>1, <1>3, <1>5, <2>3, OwnersTyped
    <3>9. Len(ps) \in Nat
      BY <1>1
    <3>10. o[1] \in Nat /\ o[1] <= Len(ps)
      <4>1. \A z \in 1 .. Len(ps) : z \in Nat /\ z <= Len(ps)
        BY <3>9
      <4>2. QED
        BY <3>3, <4>1
    <3>11. x[1] < o[1] \/ x[1] = o[1]
      BY <3>7 DEF Before
    <3>12. QED
      BY <3>8, <3>9, <3>10, <3>11
  <2>4. QED
    BY <2>2, <2>3
<1>9. QED
  BY <1>2, <1>5, <1>7, <1>8, FirstInNest

(* So a kind has the same rank in both.                                    *)
LEMMA RanksNest ==
  ASSUME NEW rs, NEW pr, NEW sh, ByKind(sh), NEW si, NEW ps, NEW qs,
         Nests(rs, pr, sh, si, ps, qs), NEW i \in Kinds(rs)
  PROVE  Earlier(rs, i) = Earlier(pr, i)
<1>1. Listed(rs) /\ Listed(pr)
  BY DEF Nests
<1>2. Kinds(rs) = Kinds(pr)
  BY KindsNest
<1>3. ASSUME NEW j \in Kinds(rs) PROVE FirstBefore(rs, j, i) <=> FirstBefore(pr, j, i)
  <2>1. /\ FirstBefore(rs, j, i) => FirstBefore(pr, j, i)
        /\ FirstBefore(rs, i, j) => FirstBefore(pr, i, j)
    BY FirstFollows
  <2>2. i \in Kinds(pr) /\ j \in Kinds(pr)
    BY <1>2
  <2>3. /\ ~ (FirstBefore(pr, j, i) /\ FirstBefore(pr, i, j))
        /\ ~ (FirstBefore(pr, i, i) /\ FirstBefore(pr, i, i))
    BY <1>1, <2>2, OneComesFirst
  <2>4. j = i \/ FirstBefore(rs, j, i) \/ FirstBefore(rs, i, j)
    BY <1>1, OneComesFirst
  <2>5. QED
    BY <2>1, <2>3, <2>4
<1>4. QED
  BY <1>2, <1>3 DEF Earlier

(* A component's handle is what its part's handle becomes.                 *)
HandlesNest(rs, pr, sh, k, q, e) ==
  \A n \in DOMAIN q : \A h \in Handles(q[n]) :
    HandleMap(rs, sh, n + e, h) = HandleMap(pr, sh, k, HandleMap(q, sh, n, h))

(* With and without sharing.                                               *)
LEMMA HandlesNestAll ==
  ASSUME NEW rs, NEW pr, NEW sh, NEW si, NEW ps, NEW qs, Nests(rs, pr, sh, si, ps, qs),
         NEW k, NEW q, NEW e, Part(rs, pr, sh, si, k, q, e)
  PROVE  HandlesNest(rs, pr, sh, k, q, e)
<1>1. Nest(rs, pr, sh, k, q, e) /\ Listed(q) /\ Listed(pr) /\ pr[k] = Compose(q, sh, si)
  BY DEF Part
<1>2. CASE ~ sh
  BY <1>1, <1>2, HandlesNestOwn DEF HandlesNest
<1>3. ASSUME ByKind(sh), NEW n \in DOMAIN q, NEW h \in Handles(q[n])
      PROVE  HandleMap(rs, sh, n + e, h) = HandleMap(pr, sh, k, HandleMap(q, sh, n, h))
  <2>. DEFINE g == HandleMap(q, sh, n, h)
              i == q[n].specs[h]
  <2>1. pr[k].specs[g] = i
    BY <1>1, SpecsKept
  <2>2. rs[n + e] = q[n]
    BY <1>1 DEF Nest
  <2>3. HandleMap(rs, sh, n + e, h) = Cardinality(Earlier(rs, i))
    BY <1>3, <2>2 DEF ByKind
  <2>4. HandleMap(pr, sh, k, g) = Cardinality(Earlier(pr, i))
    BY <1>3, <2>1 DEF ByKind
  <2>5. i \in Kinds(rs)
    BY <1>1, OwnersNest
  <2>6. Earlier(rs, i) = Earlier(pr, i)
    BY <1>3, <2>5, RanksNest
  <2>7. QED
    BY <2>3, <2>4, <2>6
<1>4. sh => ByKind(sh)
  BY SharedByKind
<1>5. ByKind(sh) => HandlesNest(rs, pr, sh, k, q, e)
  BY <1>3 DEF HandlesNest
<1>6. QED
  BY <1>2, <1>4, <1>5

(* Offsets in a part.                                                      *)
LEMMA PartOffsets ==
  ASSUME NEW rs, NEW pr, NEW sh, NEW si, NEW k, NEW q, NEW e, Part(rs, pr, sh, si, k, q, e),
         NEW n \in DOMAIN q
  PROVE  /\ Offset(q, n) \in Nat /\ Offset(pr, k) \in Nat
         /\ Offset(rs, n + e) = Offset(q, n) + Offset(pr, k)
         /\ SlotOffsets(q)[n] \in Nat /\ SlotOffsets(pr)[k] \in Nat
         /\ SlotOffsets(rs)[n + e] = SlotOffsets(q)[n] + SlotOffsets(pr)[k]
<1>1. Nest(rs, pr, sh, k, q, e) /\ Listed(q) /\ Listed(pr) /\ k \in DOMAIN pr
  BY DEF Part, Nest
<1>2. ASSUME NEW l, Listed(l), NEW m \in DOMAIN l
      PROVE  ProgramOffsets(l)[m] \in Nat /\ SlotOffsets(l)[m] \in Nat
  <2>1. m \in 1 .. Len(l) + 1
    BY <1>2 DEF Listed
  <2>2. QED
    BY <1>2, <2>1, OffsetFacts DEF Adds
<1>3. n \in 1 .. Len(q) + 1
  BY <1>1 DEF Listed
<1>4. QED
  BY <1>1, <1>2, <1>3 DEF Nest, Offset

(* A slot or a target of a part's component comes to be in the same place. *)
LEMMA PlacesNest ==
  ASSUME NEW rs, NEW pr, NEW sh, NEW si, NEW k, NEW q, NEW e, Part(rs, pr, sh, si, k, q, e),
         NEW n \in DOMAIN q
  PROVE  \A s \in Nat :
           /\ SlotOf(rs, n + e, s) = SlotOf(pr, k, SlotOf(q, n, s))
           /\ Moved(rs, n + e, s) = Moved(pr, k, Moved(q, n, s))
<1>. DEFINE a == SlotOffsets(q)[n]
            b == SlotOffsets(pr)[k]
            c == Offset(q, n)
            d == Offset(pr, k)
<1>1. /\ a \in Nat /\ b \in Nat /\ SlotOffsets(rs)[n + e] = a + b
      /\ c \in Nat /\ d \in Nat /\ Offset(rs, n + e) = c + d
  BY PartOffsets
<1>2. \A s \in Nat :
        /\ SlotOf(q, n, s) = s + a /\ SlotOf(pr, k, s) = s + b
        /\ SlotOf(rs, n + e, s) = s + (a + b)
        /\ Moved(q, n, s) = (IF s = 0 THEN 0 ELSE s + c)
        /\ Moved(pr, k, s) = (IF s = 0 THEN 0 ELSE s + d)
        /\ Moved(rs, n + e, s) = (IF s = 0 THEN 0 ELSE s + (c + d))
  BY <1>1 DEF SlotOf, Moved, Offset
<1>. HIDE DEF a, b, c, d
<1>3. ASSUME NEW s \in Nat PROVE SlotOf(rs, n + e, s) = SlotOf(pr, k, SlotOf(q, n, s))
  <2>1. s + a \in Nat /\ (s + a) + b = s + (a + b)
    BY <1>1
  <2>2. QED
    BY <1>2, <2>1
<1>4. ASSUME NEW s \in Nat PROVE Moved(rs, n + e, s) = Moved(pr, k, Moved(q, n, s))
  <2>1. s + c \in Nat /\ (s + c) + d = s + (c + d) /\ (s # 0 => s + c # 0) /\ 0 \in Nat
    BY <1>1
  <2>2. QED
    BY <1>2, <2>1
<1>5. QED
  BY <1>3, <1>4

(* An instruction moved into its part, and with it, is moved into the list.*)
LEMMA RelocatedNest ==
  ASSUME NEW rs, NEW pr, NEW sh, NEW si, NEW k, NEW q, NEW e, Part(rs, pr, sh, si, k, q, e),
         HandlesNest(rs, pr, sh, k, q, e),
         NEW n \in DOMAIN q, NEW i \in Instructions(q[n])
  PROVE  Relocated(rs, sh, n + e, i) = Relocated(pr, sh, k, Relocated(q, sh, n, i))
<1>. DEFINE r == Relocated(rs, sh, n + e, i)
            u == Relocated(q, sh, n, i)
            v == Relocated(pr, sh, k, u)
<1>1. Moves(r, rs, sh, n + e, i) /\ Moves(u, q, sh, n, i) /\ Moves(v, pr, sh, k, u)
  BY RelocatedMoves
<1>2. \A s \in Nat :
        /\ SlotOf(rs, n + e, s) = SlotOf(pr, k, SlotOf(q, n, s))
        /\ Moved(rs, n + e, s) = Moved(pr, k, Moved(q, n, s))
  BY PlacesNest
<1>. HIDE DEF r, u, v
<1>3. /\ DOMAIN r = DOMAIN i /\ DOMAIN u = DOMAIN i /\ DOMAIN v = DOMAIN i
      /\ r = [f \in DOMAIN i |-> r[f]] /\ v = [f \in DOMAIN i |-> v[f]]
  BY <1>1 DEF Moves
<1>4. q[n].slots \in Nat /\ DOMAIN q[n].code \subseteq Nat
  BY CodeTyped DEF Part, Listed, Valid
<1>5. /\ "src" \in DOMAIN i => i.src \in Nat
      /\ "dst" \in DOMAIN i => i.dst \in Nat
      /\ "handle" \in DOMAIN i => i.handle \in Handles(q[n])
      /\ "args" \in DOMAIN i => i.args \in Seq(1 .. q[n].slots)
      /\ "next" \in DOMAIN i => i.next \in Nat
      /\ "true" \in DOMAIN i => i.true \in Nat
      /\ "false" \in DOMAIN i => i.false \in Nat
      /\ "unknown" \in DOMAIN i => i.unknown \in Nat
      /\ DOMAIN i \subseteq {"op", "src", "dst", "true", "false", "unknown", "next",
                             "handle", "args"}
  BY <1>4, ByOperation
<1>6. "op" \in DOMAIN i => r.op = v.op
  BY <1>1, <1>3 DEF Moves
<1>7. "src" \in DOMAIN i => r.src = v.src
  BY <1>1, <1>2, <1>3, <1>5 DEF Moves
<1>8. "dst" \in DOMAIN i => r.dst = v.dst
  BY <1>1, <1>2, <1>3, <1>5 DEF Moves
<1>9. "true" \in DOMAIN i => r.true = v.true
  BY <1>1, <1>2, <1>3, <1>5 DEF Moves
<1>10. "false" \in DOMAIN i => r.false = v.false
  BY <1>1, <1>2, <1>3, <1>5 DEF Moves
<1>11. "unknown" \in DOMAIN i => r.unknown = v.unknown
  BY <1>1, <1>2, <1>3, <1>5 DEF Moves
<1>12. "next" \in DOMAIN i => r.next = v.next
  BY <1>1, <1>2, <1>3, <1>5 DEF Moves
<1>13. "handle" \in DOMAIN i => r.handle = v.handle
  BY <1>1, <1>3, <1>5 DEF Moves, HandlesNest
<1>14. "args" \in DOMAIN i => r.args = v.args
  <2>. SUFFICES ASSUME "args" \in DOMAIN i PROVE r.args = v.args
    OBVIOUS
  <2>. DEFINE D == DOMAIN i.args
  <2>1. /\ r.args = [m \in D |-> SlotOf(rs, n + e, i.args[m])]
        /\ u.args = [m \in D |-> SlotOf(q, n, i.args[m])]
        /\ v.args = [m \in DOMAIN u.args |-> SlotOf(pr, k, u.args[m])]
    BY <1>1, <1>3 DEF Moves
  <2>2. \A m \in D : i.args[m] \in Nat
    <3>1. \A m \in D : i.args[m] \in 1 .. q[n].slots
      BY <1>5, Elements
    <3>2. QED
      BY <1>4, <3>1
  <2>. HIDE DEF D
  <2>3. DOMAIN u.args = D /\ \A m \in D : u.args[m] = SlotOf(q, n, i.args[m])
    BY <2>1
  <2>4. \A m \in D : SlotOf(rs, n + e, i.args[m]) = SlotOf(pr, k, u.args[m])
    BY <1>2, <2>2, <2>3
  <2>5. QED
    BY <2>1, <2>3, <2>4
<1>15. \A f \in DOMAIN i : r[f] = v[f]
  BY <1>5, <1>6, <1>7, <1>8, <1>9, <1>10, <1>11, <1>12, <1>13, <1>14
<1>16. r = v
  BY <1>3, <1>15
<1>17. QED
  BY <1>16 DEF r, u, v

(* A HANDOFF stays one.                                                    *)
LEMMA RelocatedHandoff ==
  ASSUME NEW ps, NEW sh, NEW n, NEW t
  PROVE  Relocated(ps, sh, n, Handoff(t)) = Handoff(Moved(ps, n, t))
<1>. DEFINE i == Handoff(t)
            r == Relocated(ps, sh, n, i)
<1>1. Moves(r, ps, sh, n, i)
  BY RelocatedMoves
<1>2. DOMAIN i = {"op", "next"} /\ i.op = "handoff" /\ i.next = t
  BY DEF Handoff
<1>. HIDE DEF i, r
<1>3. /\ r = [f \in {"op", "next"} |-> r[f]] /\ r.op = "handoff"
      /\ r.next = Moved(ps, n, t)
  BY <1>1, <1>2 DEF Moves
<1>4. r = Handoff(Moved(ps, n, t))
  BY <1>3 DEF Handoff
<1>5. QED
  BY <1>4 DEF r, i

(* And what may be emitted is decided by the last component of all.        *)
LEMMA MutedNest ==
  ASSUME NEW rs, NEW pr, NEW sh, NEW si, NEW k, NEW q, NEW e, Part(rs, pr, sh, si, k, q, e),
         HandlesNest(rs, pr, sh, k, q, e),
         NEW n \in DOMAIN q, NEW i \in Instructions(q[n])
  PROVE  Muted(si /\ Hands(rs, n + e), Relocated(rs, sh, n + e, i))
           = Muted(si /\ Hands(pr, k),
                   Relocated(pr, sh, k, Muted(si /\ Hands(q, n), Relocated(q, sh, n, i))))
<1>. DEFINE r == Relocated(rs, sh, n + e, i)
            u == Relocated(q, sh, n, i)
            v == Relocated(pr, sh, k, u)
<1>1. r = v
  BY RelocatedNest
<1>2. Moves(r, rs, sh, n + e, i) /\ Moves(u, q, sh, n, i) /\ Moves(v, pr, sh, k, u)
  BY RelocatedMoves
<1>3. Hands(rs, n + e) <=> (Hands(q, n) \/ Hands(pr, k))
  BY DEF Part
<1>4. "op" \in DOMAIN i /\ (i.op = "emit" => "next" \in DOMAIN i)
  BY ByOperation
<1>. HIDE DEF r, u, v
<1>5. r.op = i.op /\ u.op = i.op /\ v.op = i.op /\ "op" \in DOMAIN u /\ DOMAIN u = DOMAIN i
  BY <1>2, <1>4 DEF Moves
<1>6. CASE i.op # "emit"
  <2>1. \A b : Muted(b, r) = r /\ Muted(b, u) = u /\ Muted(b, v) = v
    BY <1>5, <1>6 DEF Muted
  <2>2. Muted(si /\ Hands(q, n), u) = u
    BY <2>1
  <2>3. Muted(si /\ Hands(rs, n + e), r) = r /\ Muted(si /\ Hands(pr, k), v) = v
    BY <2>1
  <2>4. QED
    BY <1>1, <2>2, <2>3 DEF r, u, v
<1>7. CASE i.op = "emit" /\ ~ (si /\ Hands(q, n))
  <2>1. Muted(si /\ Hands(q, n), u) = u
    BY <1>7 DEF Muted
  <2>2. (si /\ Hands(rs, n + e)) <=> (si /\ Hands(pr, k))
    BY <1>3, <1>7
  <2>3. Muted(si /\ Hands(rs, n + e), r) = Muted(si /\ Hands(pr, k), v)
    BY <1>1, <2>2 DEF Muted
  <2>4. QED
    BY <2>1, <2>3 DEF r, u, v
<1>8. CASE i.op = "emit" /\ (si /\ Hands(q, n))
  <2>. DEFINE t == Moved(q, n, i.next)
  <2>1. u.next = t /\ r.next = v.next /\ v.next = Moved(pr, k, t)
    BY <1>1, <1>2, <1>4, <1>5, <1>8 DEF Moves
  <2>2. Muted(si /\ Hands(q, n), u) = Handoff(t)
    BY <1>5, <1>8, <2>1 DEF Muted
  <2>3. Muted(si /\ Hands(rs, n + e), r) = Handoff(Moved(pr, k, t))
    BY <1>3, <1>5, <1>8, <2>1 DEF Muted
  <2>4. Relocated(pr, sh, k, Handoff(t)) = Handoff(Moved(pr, k, t))
    BY RelocatedHandoff
  <2>5. \A b, s : Muted(b, Handoff(s)) = Handoff(s)
    BY DEF Muted, Handoff
  <2>6. Muted(si /\ Hands(pr, k), Relocated(pr, sh, k, Handoff(t))) = Handoff(Moved(pr, k, t))
    BY <2>4, <2>5
  <2>. HIDE DEF t
  <2>7. QED
    BY <2>2, <2>3, <2>6 DEF r, u
<1>9. QED
  BY <1>6, <1>7, <1>8

(* A pointer of a component is one of its part's composition.              *)
LEMMA BodiesNest ==
  ASSUME NEW rs, NEW pr, NEW sh, NEW si, NEW k, NEW q, NEW e, Part(rs, pr, sh, si, k, q, e),
         NEW n \in DOMAIN q, NEW p \in Body(rs, n + e)
  PROVE  /\ p \in Nat /\ p \in Body(q, n) /\ p + Offset(q, n) \in Body(pr, k)
<1>. DEFINE c == Compose(q, sh, si)
            f == ProgramOffsets(q)
            L == Len(q)
            T == Terminal(q[n])
<1>1. /\ Nest(rs, pr, sh, k, q, e) /\ Listed(q) /\ pr[k] = c /\ rs[n + e] = q[n]
      /\ Hands(rs, n + e) <=> (Hands(q, n) \/ Hands(pr, k))
  BY DEF Part, Nest
<1>2. p \in DOMAIN q[n].code /\ (Hands(rs, n + e) => p # T)
  BY <1>1 DEF Body
<1>3. p \in Body(q, n)
  BY <1>1, <1>2 DEF Body
<1>4. DOMAIN c.code = 1 .. Total(q) /\ Terminal(c) = Total(q)
  BY <1>1, ComposeJoins DEF Joins, Terminal
<1>5. p + Offset(q, n) \in 1 .. Total(q) /\ p \in Nat
  BY <1>1, <1>2, BodiesCover
<1>6. T \in Nat \ {0} /\ DOMAIN q[n].code = 1 .. T
  BY <1>1, CodeTyped DEF Listed
<1>7. ASSUME Hands(pr, k) PROVE p + Offset(q, n) # Total(q)
  <2>1. p \in 1 .. T /\ p # T
    BY <1>1, <1>2, <1>6, <1>7
  <2>2. Adds(f, [m \in DOMAIN q |-> Terminal(q[m]) - 1], L + 1)
    BY <1>1, OffsetFacts
  <2>3. \A m \in 1 .. L : [l \in DOMAIN q |-> Terminal(q[l]) - 1][m] \in Nat
    BY <1>1, SizesTyped DEF Listed
  <2>4. L \in Nat \ {0} /\ n \in 1 .. L
    BY <1>1 DEF Listed
  <2>5. [m \in DOMAIN q |-> Terminal(q[m]) - 1][n] = T - 1
    OBVIOUS
  <2>6. Total(q) = f[L + 1] + 1
    BY <1>1, TotalIs
  <2>. DEFINE g == [m \in DOMAIN q |-> Terminal(q[m]) - 1]
  <2>7. Adds(f, g, L + 1) /\ (\A m \in 1 .. L : g[m] \in Nat) /\ g[n] = T - 1
    BY <2>2, <2>3, <2>5
  <2>. HIDE DEF f, L, T, g
  <2>8. f[n + 1] = f[n] + g[n] /\ f[n] \in Nat /\ f[L + 1] \in Nat
    <3>1. n \in 1 .. (L + 1) - 1 /\ n \in 1 .. L + 1 /\ L + 1 \in 1 .. L + 1
      BY <2>4
    <3>2. QED
      BY <2>7, <3>1 DEF Adds
  <2>9. f[n + 1] <= f[L + 1]
    <3>1. ASSUME NEW j \in Nat, j = L + 1, NEW m \in Nat, m = n + 1 PROVE f[m] <= f[j]
      <4>1. m \in 1 .. j /\ j \in 1 .. j /\ m <= j /\ \A l \in 1 .. j - 1 : g[l] \in Nat
        BY <2>4, <2>7, <3>1
      <4>2. Adds(f, g, j)
        BY <2>7, <3>1
      <4>3. QED
        BY <4>1, <4>2, SumsGrow
    <3>2. QED
      BY <2>4, <3>1
  <2>10. Offset(q, n) = f[n]
    BY DEF Offset, f
  <2>11. QED
    BY <1>6, <2>1, <2>6, <2>7, <2>8, <2>9, <2>10
<1>8. p + Offset(q, n) \in Body(pr, k)
  <2>. HIDE DEF c
  <2>1. QED
    BY <1>1, <1>4, <1>5, <1>7 DEF Body
<1>9. QED
  BY <1>3, <1>5, <1>8

(* A component's instruction in the composition.                           *)
LEMMA JoinedCode ==
  ASSUME NEW ps, Listed(ps), NEW sh, NEW si, NEW n \in DOMAIN ps, NEW p \in Body(ps, n)
  PROVE  Compose(ps, sh, si).code[p + Offset(ps, n)]
           = Muted(si /\ Hands(ps, n), Relocated(ps, sh, n, ps[n].code[p]))
<1>. DEFINE c == Compose(ps, sh, si)
<1>1. Joins(c, ps, sh, si)
  BY ComposeJoins
<1>. HIDE DEF c
<1>2. c.code[p + Offset(ps, n)]
        = Muted(si /\ Hands(ps, n), Relocated(ps, sh, n, ps[n].code[p]))
  BY <1>1 DEF Joins
<1>3. QED
  BY <1>2 DEF c

(* The programs agree on the code of a part's component.                   *)
LEMMA CodeNest ==
  ASSUME NEW rs, NEW pr, NEW sh, NEW si, NEW k, NEW q, NEW e, Part(rs, pr, sh, si, k, q, e),
         HandlesNest(rs, pr, sh, k, q, e),
         NEW n \in DOMAIN q, NEW p \in Body(rs, n + e)
  PROVE  Compose(rs, sh, si).code[p + Offset(rs, n + e)]
           = Compose(pr, sh, si).code[p + Offset(rs, n + e)]
<1>. DEFINE c == Compose(q, sh, si)
            i == q[n].code[p]
            x == p + Offset(q, n)
<1>1. /\ Listed(rs) /\ Listed(pr) /\ Listed(q) /\ pr[k] = c /\ k \in DOMAIN pr
      /\ n + e \in DOMAIN rs /\ rs[n + e] = q[n]
  BY DEF Part, Nest
<1>2. p \in Nat /\ p \in Body(q, n) /\ x \in Body(pr, k)
  BY BodiesNest
<1>3. i \in Instructions(q[n])
  BY <1>1, <1>2, CodeTyped DEF Listed, Body
<1>4. Compose(rs, sh, si).code[p + Offset(rs, n + e)]
        = Muted(si /\ Hands(rs, n + e), Relocated(rs, sh, n + e, i))
  <2>1. ASSUME NEW m, m = n + e
        PROVE  Compose(rs, sh, si).code[p + Offset(rs, m)]
                 = Muted(si /\ Hands(rs, m), Relocated(rs, sh, m, i))
    BY <1>1, <2>1, JoinedCode
  <2>2. QED
    BY <2>1
<1>5. c.code[x] = Muted(si /\ Hands(q, n), Relocated(q, sh, n, i))
  BY <1>1, <1>2, JoinedCode
<1>6. Compose(pr, sh, si).code[x + Offset(pr, k)]
        = Muted(si /\ Hands(pr, k), Relocated(pr, sh, k, c.code[x]))
  <2>. HIDE DEF c, x
  <2>1. QED
    BY <1>1, <1>2, JoinedCode
<1>7. x + Offset(pr, k) = p + Offset(rs, n + e)
  <2>1. Offset(q, n) \in Nat /\ Offset(pr, k) \in Nat
        /\ Offset(rs, n + e) = Offset(q, n) + Offset(pr, k)
    BY PartOffsets
  <2>2. QED
    BY <1>2, <2>1
<1>8. Muted(si /\ Hands(rs, n + e), Relocated(rs, sh, n + e, i))
        = Muted(si /\ Hands(pr, k), Relocated(pr, sh, k, c.code[x]))
  <2>. HIDE DEF i, c, x
  <2>1. Muted(si /\ Hands(rs, n + e), Relocated(rs, sh, n + e, i))
          = Muted(si /\ Hands(pr, k),
                  Relocated(pr, sh, k, Muted(si /\ Hands(q, n), Relocated(q, sh, n, i))))
    BY <1>3, MutedNest
  <2>2. QED
    BY <1>5, <2>1
<1>9. QED
  BY <1>4, <1>6, <1>7, <1>8

(* The operators of the list and those of the list of its parts.           *)
LEMMA SpecsNest ==
  ASSUME NEW rs, NEW pr, NEW sh, NEW si, NEW ps, NEW qs, Nests(rs, pr, sh, si, ps, qs)
  PROVE  Compose(rs, sh, si).specs = Compose(pr, sh, si).specs
<1>. DEFINE a == Compose(rs, sh, si)
            b == Compose(pr, sh, si)
<1>1. Listed(rs) /\ Listed(pr) /\ DOMAIN pr = 1 .. 2
  BY DEF Nests, Listed
<1>2. /\ a.specs \in [Handles(a) -> OperatorKinds] /\ b.specs \in [Handles(b) -> OperatorKinds]
  BY <1>1, ComposedHandles
<1>3. ASSUME NEW k, NEW q, NEW e, Part(rs, pr, sh, si, k, q, e),
             NEW n \in DOMAIN q, NEW h \in Handles(q[n])
      PROVE  LET g == HandleMap(rs, sh, n + e, h)
                 f == HandleMap(q, sh, n, h)
             IN /\ g = HandleMap(pr, sh, k, f) /\ g \in Handles(a) /\ g \in Handles(b)
                /\ a.specs[g] = b.specs[g]
  <2>. DEFINE g == HandleMap(rs, sh, n + e, h)
              f == HandleMap(q, sh, n, h)
  <2>1. /\ Listed(q) /\ pr[k] = Compose(q, sh, si) /\ k \in DOMAIN pr
        /\ n + e \in DOMAIN rs /\ rs[n + e] = q[n]
    BY <1>3 DEF Part, Nest
  <2>2. g = HandleMap(pr, sh, k, f)
    BY <1>3, HandlesNestAll DEF HandlesNest
  <2>3. f \in Handles(pr[k]) /\ pr[k].specs[f] = q[n].specs[h]
    BY <2>1, ComposedHandles, SpecsKept
  <2>4. g \in Handles(a) /\ a.specs[g] = q[n].specs[h]
    <3>1. h \in Handles(rs[n + e]) /\ rs[n + e].specs[h] = q[n].specs[h]
      BY <2>1
    <3>2. QED
      BY <1>1, <2>1, <3>1, ComposedHandles, SpecsKept
  <2>. HIDE DEF f, g
  <2>5. g \in Handles(b) /\ b.specs[g] = pr[k].specs[f]
    BY <1>1, <2>1, <2>2, <2>3, ComposedHandles, SpecsKept
  <2>6. QED
    BY <2>2, <2>3, <2>4, <2>5 DEF f, g
<1>4. ASSUME NEW g \in Handles(a) PROVE g \in Handles(b) /\ a.specs[g] = b.specs[g]
  <2>1. PICK m \in DOMAIN rs : \E h \in Handles(rs[m]) : g = HandleMap(rs, sh, m, h)
    BY HandlesAre
  <2>2. PICK h \in Handles(rs[m]) : g = HandleMap(rs, sh, m, h)
    BY <2>1
  <2>3. PICK k \in {1, 2}, e \in {0, Len(ps)} : \E q \in {ps, qs} :
          /\ Part(rs, pr, sh, si, k, q, e)
          /\ \E n \in DOMAIN q : m = n + e /\ rs[m] = q[n]
    BY InPart
  <2>4. PICK q \in {ps, qs} :
          /\ Part(rs, pr, sh, si, k, q, e)
          /\ \E n \in DOMAIN q : m = n + e /\ rs[m] = q[n]
    BY <2>3
  <2>5. PICK n \in DOMAIN q : m = n + e /\ rs[m] = q[n]
    BY <2>4
  <2>6. g = HandleMap(rs, sh, n + e, h) /\ h \in Handles(q[n])
    BY <2>2, <2>5
  <2>. HIDE DEF a, b
  <2>7. QED
    BY <1>3, <2>4, <2>6
<1>5. ASSUME NEW g \in Handles(b) PROVE g \in Handles(a)
  <2>1. PICK k \in DOMAIN pr : \E f \in Handles(pr[k]) : g = HandleMap(pr, sh, k, f)
    BY HandlesAre
  <2>2. PICK f \in Handles(pr[k]) : g = HandleMap(pr, sh, k, f)
    BY <2>1
  <2>3. ASSUME NEW q, NEW e, Part(rs, pr, sh, si, k, q, e) PROVE g \in Handles(a)
    <3>1. pr[k] = Compose(q, sh, si)
      BY <2>3 DEF Part
    <3>2. f \in Handles(Compose(q, sh, si))
      BY <3>1
    <3>3. PICK n \in DOMAIN q : \E h \in Handles(q[n]) : f = HandleMap(q, sh, n, h)
      BY <3>2, HandlesAre
    <3>4. PICK h \in Handles(q[n]) : f = HandleMap(q, sh, n, h)
      BY <3>3
    <3>. HIDE DEF a, b
    <3>5. QED
      BY <1>3, <2>2, <2>3, <3>4
  <2>4. Part(rs, pr, sh, si, 1, ps, 0) /\ Part(rs, pr, sh, si, 2, qs, Len(ps))
    BY TheParts
  <2>. HIDE DEF a, b
  <2>5. k = 1 \/ k = 2
    BY <1>1
  <2>6. QED
    BY <2>3, <2>4, <2>5
<1>. HIDE DEF a, b
<1>6. Handles(a) = Handles(b)
  BY <1>4, <1>5
<1>7. a.specs = b.specs
  BY <1>2, <1>4, <1>6
<1>8. QED
  BY <1>7 DEF a, b

(* To compose compositions is to compose their components: an artifact may *)
(* be one already composed (compose_executive_artifacts,                   *)
(* executive_bank.py:308), and it is what it would be had its components   *)
(* been given in its place.                                                *)
THEOREM CompositionsNest ==
  ASSUME NEW S, NEW ps \in Seq(S), NEW qs \in Seq(S), Listed(ps), Listed(qs),
         NEW sh, NEW si
  PROVE  Compose(<<Compose(ps, sh, si), Compose(qs, sh, si)>>, sh, si)
           = Compose(ps \o qs, sh, si)
<1>. DEFINE rs == ps \o qs
            pr == <<Compose(ps, sh, si), Compose(qs, sh, si)>>
            a == Compose(rs, sh, si)
            b == Compose(pr, sh, si)
<1>1. Nests(rs, pr, sh, si, ps, qs)
  BY NestsTwo
<1>. HIDE DEF rs, pr
<1>2. Listed(rs) /\ Listed(pr) /\ Len(pr) = 2
  BY <1>1 DEF Nests
<1>3. Joins(a, rs, sh, si) /\ Joins(b, pr, sh, si)
  BY <1>2, ComposeJoins
<1>4. Total(rs) = Total(pr) /\ a.slots = b.slots
  <2>1. /\ ProgramOffsets(rs)[Len(rs) + 1] = ProgramOffsets(pr)[3]
        /\ SlotOffsets(rs)[Len(rs) + 1] = SlotOffsets(pr)[3]
    BY <1>1 DEF Nests
  <2>2. /\ Total(rs) = ProgramOffsets(rs)[Len(rs) + 1] + 1
        /\ Total(pr) = ProgramOffsets(pr)[2 + 1] + 1
    BY <1>2, TotalIs
  <2>3. a.slots = SlotOffsets(rs)[Len(rs) + 1] /\ b.slots = SlotOffsets(pr)[2 + 1]
    BY <1>2, <1>3 DEF Joins
  <2>4. QED
    BY <2>1, <2>2, <2>3
<1>5. a.specs = b.specs
  BY <1>1, SpecsNest
<1>6. a.code = b.code
  <2>0. Joins(a, rs, sh, si) /\ Joins(b, pr, sh, si)
    BY <1>3
  <2>. HIDE DEF a, b
  <2>1. /\ DOMAIN a.code = 1 .. Total(rs) /\ DOMAIN b.code = 1 .. Total(rs)
        /\ a.code = [x \in DOMAIN a.code |-> a.code[x]]
        /\ b.code = [x \in DOMAIN b.code |-> b.code[x]]
    <3>1. ASSUME NEW c, NEW l, Joins(c, l, sh, si)
          PROVE  /\ DOMAIN c.code = 1 .. Total(l)
                 /\ c.code = [x \in DOMAIN c.code |-> c.code[x]]
      <4>1. DOMAIN c.code = 1 .. Total(l) /\ c.code \in Seq({c.code[p] : p \in DOMAIN c.code})
        BY <3>1 DEF Joins
      <4>2. \A T : \A s \in Seq(T) : s = [x \in DOMAIN s |-> s[x]]
        OBVIOUS
      <4>3. QED
        BY <4>1, <4>2
    <3>2. QED
      BY <1>4, <2>0, <3>1
  <2>. USE DEF a, b
  <2>2. ASSUME NEW x \in 1 .. Total(rs) PROVE a.code[x] = b.code[x]
    <3>1. PICK m \in DOMAIN rs : \E p \in Body(rs, m) : x = p + Offset(rs, m)
      BY <1>2, BodiesCover
    <3>2. PICK p \in Body(rs, m) : x = p + Offset(rs, m)
      BY <3>1
    <3>3. PICK k \in {1, 2}, e \in {0, Len(ps)} : \E q \in {ps, qs} :
            /\ Part(rs, pr, sh, si, k, q, e)
            /\ \E n \in DOMAIN q : m = n + e /\ rs[m] = q[n]
      BY <1>1, InPart
    <3>4. PICK q \in {ps, qs} :
            /\ Part(rs, pr, sh, si, k, q, e)
            /\ \E n \in DOMAIN q : m = n + e /\ rs[m] = q[n]
      BY <3>3
    <3>5. PICK n \in DOMAIN q : m = n + e
      BY <3>4
    <3>6. HandlesNest(rs, pr, sh, k, q, e)
      BY <1>1, <3>4, HandlesNestAll
    <3>7. p \in Body(rs, n + e) /\ x = p + Offset(rs, n + e)
      BY <3>2, <3>5
    <3>8. a.code[p + Offset(rs, n + e)] = b.code[p + Offset(rs, n + e)]
      BY <3>4, <3>6, <3>7, CodeNest
    <3>9. QED
      BY <3>7, <3>8
  <2>. HIDE DEF a, b
  <2>3. QED
    BY <2>1, <2>2
<1>7. \A l : Compose(l, sh, si) = [code  |-> Compose(l, sh, si).code,
                                   slots |-> Compose(l, sh, si).slots,
                                   specs |-> Compose(l, sh, si).specs]
  BY DEF Compose
<1>8. a = b
  BY <1>4, <1>5, <1>6, <1>7
<1>9. QED
  BY <1>8 DEF rs, pr

(* Moves says all of an instruction.                                       *)
LEMMA MovesOnce ==
  ASSUME NEW ps, NEW sh, NEW n, NEW a, NEW i \in Instructions(a), NEW r, NEW u,
         Moves(r, ps, sh, n, i), Moves(u, ps, sh, n, i)
  PROVE  r = u
<1>1. DOMAIN i \subseteq {"op", "src", "dst", "true", "false", "unknown", "next", "handle",
                          "args"}
  BY ByOperation
<1>2. \A f \in DOMAIN i : r[f] = u[f]
  BY <1>1 DEF Moves
<1>3. QED
  BY <1>2 DEF Moves

(* An artifact composed of nothing else, with its own operators, is itself:*)
(* so CompositionsNest says it of lists in which some artifacts are        *)
(* composed and others not.                                                *)
THEOREM CompositionOfOne ==
  ASSUME NEW ps, Listed(ps), Len(ps) = 1, NEW si,
         ps[1] = [code |-> ps[1].code, slots |-> ps[1].slots, specs |-> ps[1].specs]
  PROVE  Compose(ps, FALSE, si) = ps[1]
<1>. DEFINE a == ps[1]
<1>1. DOMAIN ps = {1} /\ ~ Hands(ps, 1) /\ Valid(a) /\ 1 \in DOMAIN ps
  BY DEF Hands, Listed
<1>2. \A sh : sh = FALSE => Compose(ps, sh, si) = a
  <2>1. SUFFICES ASSUME NEW sh, sh = FALSE PROVE Compose(ps, sh, si) = a
    OBVIOUS
  <2>. DEFINE c == Compose(ps, sh, si)
  <2>2. Joins(c, ps, sh, si)
    BY ComposeJoins
  <2>3. Layout(ps, sh, si, a)
    BY <2>1, AloneLies
  <2>4. /\ SlotOffsets(ps)[1 + 1] = a.slots /\ Offset(ps, 1) = 0 /\ Total(ps) = Terminal(a)
        /\ HandleOffsets(ps)[1] = 0
    <3>1. /\ SlotOffsets(ps)[1] = 0
          /\ SlotOffsets(ps)[1 + 1] = SlotOffsets(ps)[1] + [n \in DOMAIN ps |-> ps[n].slots][1]
          /\ HandleOffsets(ps)[1] = 0
      <4>. DEFINE f == SlotOffsets(ps)
                  s == [n \in DOMAIN ps |-> ps[n].slots]
                  w == [n \in DOMAIN ps |-> Width(ps[n])]
      <4>1. Adds(f, s, Len(ps) + 1) /\ Adds(HandleOffsets(ps), w, Len(ps) + 1)
        BY OffsetFacts
      <4>. HIDE DEF f, s, w
      <4>2. f[1] = 0 /\ HandleOffsets(ps)[1] = 0 /\ \A n \in 1 .. 1 : f[n + 1] = f[n] + s[n]
        BY <4>1 DEF Adds
      <4>3. QED
        BY <4>2 DEF f, s
    <3>2. a.slots \in Nat /\ Terminal(a) \in Nat /\ [n \in DOMAIN ps |-> ps[n].slots][1] = a.slots
      BY <1>1, CodeTyped DEF Valid
    <3>3. Offset(ps, 1) = 0
      BY PlaceFacts DEF Placed
    <3>4. Total(ps) = Terminal(a)
      BY <3>2, <3>3 DEF Total
    <3>5. QED
      BY <3>1, <3>2, <3>3, <3>4
  <2>5. c.slots = a.slots
    BY <2>2, <2>4 DEF Joins
  <2>6. Terminal(a) \in Nat /\ DOMAIN a.code = 1 .. Terminal(a) /\ a.code \in Seq(Instructions(a))
        /\ \A p \in DOMAIN a.code : a.code[p] \in Instructions(a)
    BY <1>1, CodeTyped DEF Valid
  <2>7. ASSUME NEW p \in DOMAIN a.code PROVE c.code[p] = a.code[p]
    <3>. DEFINE i == a.code[p]
                r == Relocated(ps, sh, 1, i)
    <3>1. p \in Body(ps, 1) /\ p + Offset(ps, 1) = p
      BY <1>1, <2>4, <2>6 DEF Body
    <3>2. c.code[p] = Muted(si /\ Hands(ps, 1), r)
      BY <1>1, <3>1, JoinedCode
    <3>3. Moves(r, ps, sh, 1, i)
      BY RelocatedMoves
    <3>4. CodeLies(ps, sh, si, a)
      BY <2>3 DEF Layout
    <3>5. Moves(i, ps, sh, 1, i)
      BY <1>1, <3>1, <3>4 DEF CodeLies
    <3>6. i \in Instructions(a)
      BY <2>6
    <3>. HIDE DEF i, r
    <3>7. r = i
      BY <3>3, <3>5, <3>6, MovesOnce
    <3>8. c.code[p] = i
      BY <1>1, <3>2, <3>7 DEF Muted
    <3>9. QED
      BY <3>8 DEF i
  <2>8. c.code = a.code
    <3>. HIDE DEF a, c
    <3>1. DOMAIN c.code = DOMAIN a.code
      BY <2>2, <2>4, <2>6 DEF Joins
    <3>2. \A T : \A s \in Seq(T) : s = [x \in DOMAIN s |-> s[x]]
      OBVIOUS
    <3>3. c.code = [x \in DOMAIN c.code |-> c.code[x]]
      BY <2>2, <3>2 DEF Joins
    <3>4. a.code = [x \in DOMAIN a.code |-> a.code[x]]
      BY <2>6, <3>2
    <3>5. QED
      BY <2>7, <3>1, <3>3, <3>4
  <2>9. c.specs = a.specs
    <3>1. ASSUME NEW h \in Handles(a) PROVE HandleMap(ps, sh, 1, h) = h
      <4>1. h \in Nat
        BY <1>1 DEF Valid
      <4>2. HandleMap(ps, sh, 1, h) = h + HandleOffsets(ps)[1]
        BY <2>1 DEF HandleMap
      <4>3. QED
        BY <2>4, <4>1, <4>2
    <3>2. ASSUME NEW h \in Handles(a) PROVE h \in Handles(c) /\ c.specs[h] = a.specs[h]
      BY <1>1, <3>1, ComposedHandles, SpecsKept
    <3>3. ASSUME NEW h \in Handles(c) PROVE h \in Handles(a)
      <4>1. PICK n \in DOMAIN ps : \E g \in Handles(ps[n]) : h = HandleMap(ps, sh, n, g)
        BY HandlesAre
      <4>2. QED
        BY <1>1, <3>1, <4>1
    <3>4. c.specs \in [Handles(c) -> OperatorKinds] /\ a.specs \in [Handles(a) -> OperatorKinds]
      BY <1>1, ComposedHandles DEF Valid
    <3>. HIDE DEF a, c
    <3>5. Handles(c) = Handles(a)
      BY <3>2, <3>3
    <3>6. QED
      BY <3>2, <3>4, <3>5
  <2>10. c = [code |-> c.code, slots |-> c.slots, specs |-> c.specs]
    BY DEF Compose
  <2>11. a = [code |-> a.code, slots |-> a.slots, specs |-> a.specs]
    OBVIOUS
  <2>. HIDE DEF a, c
  <2>12. c = a
    BY <2>5, <2>8, <2>9, <2>10, <2>11
  <2>13. QED
    BY <2>12 DEF c
<1>3. QED
  BY <1>2
=================================================================================
