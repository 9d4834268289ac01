--------------------------- MODULE LiveRouterProofs ---------------------------
(***************************************************************************)
(* Machine-checked proofs about LiveRouter, for every set of slots and     *)
(* contexts, every policy, and every number of receipts and episodes: the  *)
(* counters of the route ledger say of the outcomes what mastery and       *)
(* reversal mean, and what the router credits is what acted.               *)
(***************************************************************************)
EXTENDS LiveRouter, TLAPS

Entries == [value : Outcomes, total : Nat]

AllHigh(l, from) == \A j \in from .. Len(l) : l[j].value >= Mastery
AllLow(l, from)  == \A j \in from .. Len(l) : l[j].value <= Reversal

Mastered(l) == \E at \in DOMAIN l : MasteredAt(l, at)

(* high counts the outcomes at the end of l that reach the threshold.      *)
CountsHigh(high, l) ==
  /\ high \in 0 .. Len(l)
  /\ AllHigh(l, Len(l) - high + 1)
  /\ high < Len(l) => l[Len(l) - high].value < Mastery

(* low counts the low outcomes at the end of l that came after the first   *)
(* mastery.                                                                *)
CountsLow(low, l, m) ==
  /\ m \in DOMAIN l /\ MasteredAt(l, m)
  /\ \A at \in 1 .. m - 1 : ~ MasteredAt(l, at)
  /\ low \in 0 .. Len(l) - m
  /\ AllLow(l, Len(l) - low + 1)
  /\ low < Len(l) - m => l[Len(l) - low].value > Reversal

Sound(row, l) ==
  /\ row.attempts = Len(l)
  /\ row.sum = Total(l)
  /\ CountsHigh(row.high, l)
  /\ row.protected <=> Mastered(l)
  /\ row.protected => \E m \in DOMAIN l : CountsLow(row.low, l, m)
  /\ ~ row.protected => row.low = 0 /\ (row.stable <=> Len(l) < MinMastery)
  /\ row.low < Patience

-----------------------------------------------------------------------------
(* Sequences of outcomes *)

LEMMA EntryTypes ==
  ASSUME NEW l \in Seq(Entries), NEW j \in 1 .. Len(l)
  PROVE  l[j].value \in Outcomes /\ l[j].value \in Nat /\ l[j].total \in Nat
<1>1. l[j] \in Entries
  OBVIOUS
<1>2. QED
  BY <1>1, PolicyAssumption DEF Entries, Outcomes

LEMMA TotalType == ASSUME NEW l \in Seq(Entries) PROVE Total(l) \in Nat
<1>1. CASE l = <<>>
  BY <1>1 DEF Total
<1>2. CASE l # <<>>
  <2>1. Len(l) \in 1 .. Len(l)
    BY <1>2
  <2>2. l[Len(l)].total \in Nat
    BY <2>1, EntryTypes
  <2>3. QED
    BY <1>2, <2>2 DEF Total
<1>3. QED
  BY <1>1, <1>2

LEMMA LongerFacts ==
  ASSUME NEW l \in Seq(Entries), NEW v \in Outcomes
  PROVE  /\ Longer(l, v) \in Seq(Entries)
         /\ Len(Longer(l, v)) = Len(l) + 1
         /\ \A j \in 1 .. Len(l) : Longer(l, v)[j] = l[j]
         /\ Longer(l, v)[Len(l) + 1].value = v
         /\ Total(Longer(l, v)) = Total(l) + v
         /\ Longer(l, v)[Len(l) + 1].total = Total(l) + v
<1>. DEFINE x == [value |-> v, total |-> Total(l) + v]
<1>1. x \in Entries /\ x.value = v /\ x.total = Total(l) + v
  <2>1. Total(l) \in Nat /\ v \in Nat
    BY TotalType, PolicyAssumption DEF Outcomes
  <2>2. Total(l) + v \in Nat
    BY <2>1
  <2>3. QED
    BY <2>2 DEF Entries
<1>. HIDE DEF x
<1>2. /\ Append(l, x) \in Seq(Entries) /\ Len(Append(l, x)) = Len(l) + 1
      /\ \A j \in 1 .. Len(l) : Append(l, x)[j] = l[j]
      /\ Append(l, x)[Len(l) + 1] = x
      /\ Append(l, x) # <<>>
  BY <1>1
<1>3. Longer(l, v) = Append(l, x)
  BY DEF Longer, x
<1>4. Total(Append(l, x)) = x.total
  BY <1>2 DEF Total
<1>5. QED
  BY <1>1, <1>2, <1>3, <1>4

(* What an outcome mastered or not does not change with later outcomes.    *)
LEMMA MasteredStays ==
  ASSUME NEW l \in Seq(Entries), NEW v \in Outcomes, NEW at \in 1 .. Len(l)
  PROVE  MasteredAt(Longer(l, v), at) <=> MasteredAt(l, at)
<1>1. \A j \in 1 .. Len(l) : Longer(l, v)[j] = l[j]
  BY LongerFacts
<1>2. Longer(l, v)[at] = l[at]
  BY <1>1
<1>3. ASSUME at >= MinMastery
      PROVE  \A j \in at - MinMastery + 1 .. at : Longer(l, v)[j] = l[j]
  BY <1>1, <1>3, PolicyAssumption
<1>4. QED
  BY <1>2, <1>3 DEF MasteredAt

(* The last outcome masters when it completes the first measured prefix and*)
(* that reaches the threshold on average, or MinMastery high ones in a row.*)
LEMMA MasteredNow ==
  ASSUME NEW l \in Seq(Entries), NEW v \in Outcomes,
         NEW high \in Nat, CountsHigh(high, Longer(l, v))
  PROVE  MasteredAt(Longer(l, v), Len(l) + 1) <=>
           \/ Len(l) + 1 = MinMastery /\ Total(l) + v >= Mastery * MinMastery
           \/ high >= MinMastery
<1>. DEFINE k == Longer(l, v)  n == Len(l) + 1
<1>1. /\ k \in Seq(Entries) /\ Len(k) = n /\ n \in Nat \ {0}
      /\ k[n].total = Total(l) + v
  BY LongerFacts
<1>. HIDE DEF k, n
<1>2. \A j \in 1 .. n : k[j].value \in Int
  BY <1>1, EntryTypes
<1>3. CountsHigh(high, k)
  BY DEF k
<1>4. ASSUME high >= MinMastery
      PROVE  n >= MinMastery /\ \A j \in n - MinMastery + 1 .. n : k[j].value >= Mastery
  BY <1>1, <1>3, <1>4, PolicyAssumption DEF CountsHigh, AllHigh
<1>5. ASSUME n >= MinMastery, high < MinMastery,
             \A j \in n - MinMastery + 1 .. n : k[j].value >= Mastery
      PROVE  FALSE
  <2>1. high < n /\ k[n - high].value < Mastery
    BY <1>1, <1>3, <1>5, PolicyAssumption DEF CountsHigh
  <2>2. n - high \in n - MinMastery + 1 .. n
    BY <1>1, <1>5, PolicyAssumption
  <2>3. n - high \in 1 .. n
    BY <1>1, <2>1
  <2>4. QED
    BY <2>1, <2>2, <2>3, <1>2, <1>5, PolicyAssumption
<1>6. QED
  BY <1>1, <1>4, <1>5, PolicyAssumption DEF MasteredAt, k, n

LEMMA HighCounted ==
  ASSUME NEW l \in Seq(Entries), NEW v \in Outcomes,
         NEW high \in Nat, CountsHigh(high, l)
  PROVE  CountsHigh(IF v >= Mastery THEN high + 1 ELSE 0, Longer(l, v))
<1>. DEFINE k == Longer(l, v)
<1>1. /\ Len(k) = Len(l) + 1 /\ Len(l) \in Nat
      /\ \A j \in 1 .. Len(l) : k[j] = l[j]
      /\ k[Len(l) + 1].value = v
  BY LongerFacts
<1>. HIDE DEF k
<1>2. /\ high \in 0 .. Len(l)
      /\ \A j \in Len(l) - high + 1 .. Len(l) : l[j].value >= Mastery
      /\ high < Len(l) => l[Len(l) - high].value < Mastery
  BY DEF CountsHigh, AllHigh
<1>3. CASE v >= Mastery
  <2>1. high + 1 \in 0 .. Len(k)
    BY <1>1, <1>2
  <2>2. AllHigh(k, Len(k) - (high + 1) + 1)
    <3>1. SUFFICES ASSUME NEW j \in Len(k) - (high + 1) + 1 .. Len(k)
                   PROVE  k[j].value >= Mastery
      BY DEF AllHigh
    <3>2. CASE j = Len(l) + 1
      BY <1>1, <1>3, <3>2
    <3>3. CASE j # Len(l) + 1
      <4>1. j \in Len(l) - high + 1 .. Len(l) /\ j \in 1 .. Len(l)
        BY <1>1, <1>2, <3>1, <3>3
      <4>2. QED
        BY <1>1, <1>2, <4>1
    <3>4. QED
      BY <3>2, <3>3
  <2>3. high + 1 < Len(k) => k[Len(k) - (high + 1)].value < Mastery
    BY <1>1, <1>2
  <2>4. CountsHigh(high + 1, k)
    BY <2>1, <2>2, <2>3 DEF CountsHigh
  <2>5. QED
    BY <1>3, <2>4 DEF k
<1>4. CASE ~ (v >= Mastery)
  <2>1. v < Mastery
    BY <1>4, PolicyAssumption DEF Outcomes
  <2>2. CountsHigh(0, k)
    BY <1>1, <2>1 DEF CountsHigh, AllHigh
  <2>3. QED
    BY <1>4, <2>2 DEF k
<1>5. QED
  BY <1>3, <1>4

LEMMA LowCounted ==
  ASSUME NEW l \in Seq(Entries), NEW v \in Outcomes,
         NEW low \in Nat, NEW m \in DOMAIN l, CountsLow(low, l, m)
  PROVE  CountsLow(IF v <= Reversal THEN low + 1 ELSE 0, Longer(l, v), m)
<1>. DEFINE k == Longer(l, v)
<1>1. /\ Len(k) = Len(l) + 1 /\ Len(l) \in Nat
      /\ \A j \in 1 .. Len(l) : k[j] = l[j]
      /\ k[Len(l) + 1].value = v
      /\ k \in Seq(Entries) /\ DOMAIN k = 1 .. Len(k)
  BY LongerFacts
<1>2. \A at \in 1 .. Len(l) : MasteredAt(k, at) <=> MasteredAt(l, at)
  BY MasteredStays
<1>. HIDE DEF k
<1>3. /\ m \in 1 .. Len(l) /\ MasteredAt(l, m)
      /\ \A at \in 1 .. m - 1 : ~ MasteredAt(l, at)
      /\ low \in 0 .. Len(l) - m
      /\ \A j \in Len(l) - low + 1 .. Len(l) : l[j].value <= Reversal
      /\ low < Len(l) - m => l[Len(l) - low].value > Reversal
  BY DEF CountsLow, AllLow
<1>4. /\ m \in DOMAIN k /\ MasteredAt(k, m)
      /\ \A at \in 1 .. m - 1 : ~ MasteredAt(k, at)
  BY <1>1, <1>2, <1>3
<1>5. CASE v <= Reversal
  <2>1. low + 1 \in 0 .. Len(k) - m
    BY <1>1, <1>3
  <2>2. AllLow(k, Len(k) - (low + 1) + 1)
    <3>1. SUFFICES ASSUME NEW j \in Len(k) - (low + 1) + 1 .. Len(k)
                   PROVE  k[j].value <= Reversal
      BY DEF AllLow
    <3>2. CASE j = Len(l) + 1
      BY <1>1, <1>5, <3>2
    <3>3. CASE j # Len(l) + 1
      <4>1. j \in Len(l) - low + 1 .. Len(l) /\ j \in 1 .. Len(l)
        BY <1>1, <1>3, <3>1, <3>3
      <4>2. QED
        BY <1>1, <1>3, <4>1
    <3>4. QED
      BY <3>2, <3>3
  <2>3. ASSUME low + 1 < Len(k) - m
        PROVE  k[Len(k) - (low + 1)].value > Reversal
    <3>1. /\ low < Len(l) - m /\ Len(k) - (low + 1) = Len(l) - low
          /\ Len(l) - low \in 1 .. Len(l)
      BY <1>1, <1>3, <2>3
    <3>2. k[Len(l) - low] = l[Len(l) - low]
      BY <1>1, <3>1
    <3>3. QED
      BY <1>3, <3>1, <3>2
  <2>4. CountsLow(low + 1, k, m)
    BY <1>4, <2>1, <2>2, <2>3 DEF CountsLow
  <2>5. QED
    BY <1>5, <2>4 DEF k
<1>6. CASE ~ (v <= Reversal)
  <2>1. v > Reversal
    BY <1>6, PolicyAssumption DEF Outcomes
  <2>2. CountsLow(0, k, m)
    BY <1>1, <1>3, <1>4, <2>1 DEF CountsLow, AllLow
  <2>3. QED
    BY <1>6, <2>2 DEF k
<1>7. QED
  BY <1>5, <1>6

(* With the count of the low outcomes since the first mastery, a reversal  *)
(* is seen without the sequence.                                           *)
LEMMA ReversalIsCounted ==
  ASSUME NEW l \in Seq(Entries), NEW low \in Nat, NEW m \in DOMAIN l,
         CountsLow(low, l, m), low <= Patience
  PROVE  ReversedBy(l) <=> low >= Patience
<1>1. /\ Len(l) \in Nat /\ m \in 1 .. Len(l) /\ MasteredAt(l, m)
      /\ \A at \in 1 .. m - 1 : ~ MasteredAt(l, at)
      /\ low \in 0 .. Len(l) - m
      /\ \A j \in Len(l) - low + 1 .. Len(l) : l[j].value <= Reversal
      /\ low < Len(l) - m => l[Len(l) - low].value > Reversal
  BY DEF CountsLow, AllLow
<1>2. ASSUME low >= Patience PROVE ReversedBy(l)
  <2>1. low = Patience /\ Len(l) >= m + Patience
    BY <1>1, <1>2, PolicyAssumption
  <2>2. QED
    BY <1>1, <2>1 DEF ReversedBy
<1>3. ASSUME ReversedBy(l), ~ (low >= Patience) PROVE FALSE
  <2>1. PICK at \in 1 .. Len(l) :
          /\ MasteredAt(l, at) /\ Len(l) >= at + Patience
          /\ \A j \in Len(l) - Patience + 1 .. Len(l) : l[j].value <= Reversal
    BY <1>3 DEF ReversedBy
  <2>2. m <= at
    BY <1>1, <2>1
  <2>3. low < Len(l) - m /\ Len(l) - low \in Len(l) - Patience + 1 .. Len(l)
    BY <1>1, <1>3, <2>1, <2>2, PolicyAssumption
  <2>4. Len(l) - low \in 1 .. Len(l)
    BY <1>1, <2>3
  <2>5. l[Len(l) - low].value > Reversal /\ l[Len(l) - low].value <= Reversal
    BY <1>1, <2>1, <2>3
  <2>6. l[Len(l) - low].value \in Nat /\ Reversal \in Nat
    BY <2>4, EntryTypes, PolicyAssumption
  <2>7. QED
    BY <2>5, <2>6
<1>4. QED
  BY <1>2, <1>3

-----------------------------------------------------------------------------
(* One row *)

LEMMA EmptyRowSound == EmptyRow \in Rows /\ Sound(EmptyRow, <<>>)
<1>1. EmptyRow \in Rows
  BY DEF EmptyRow, Rows
<1>2. <<>> \in Seq(Entries) /\ Len(<<>>) = 0 /\ ~ Mastered(<<>>)
  BY DEF Mastered
<1>3. CountsHigh(0, <<>>) /\ Total(<<>>) = 0
  BY <1>2 DEF CountsHigh, AllHigh, Total
<1>4. /\ EmptyRow.attempts = 0 /\ EmptyRow.sum = 0 /\ EmptyRow.high = 0
      /\ EmptyRow.low = 0 /\ EmptyRow.stable /\ ~ EmptyRow.protected
  BY DEF EmptyRow
<1>5. QED
  BY <1>1, <1>2, <1>3, <1>4, PolicyAssumption DEF Sound

LEMMA CountedFields ==
  ASSUME NEW row \in Rows, NEW v \in Outcomes
  PROVE  /\ Counted(row, v) \in Rows
         /\ Counted(row, v).attempts = row.attempts + 1
         /\ Counted(row, v).sum = row.sum + v
         /\ Counted(row, v).stable <=> row.stable
         /\ Counted(row, v).protected <=> row.protected
         /\ Counted(row, v).high = IF v >= Mastery THEN row.high + 1 ELSE 0
         /\ Counted(row, v).low =
              IF row.protected /\ v <= Reversal THEN row.low + 1 ELSE 0
<1>. DEFINE a == row.attempts + 1
            b == row.sum + v
            h == IF v >= Mastery THEN row.high + 1 ELSE 0
            w == IF row.protected /\ v <= Reversal THEN row.low + 1 ELSE 0
            c == Counted(row, v)
<1>1. a \in Nat /\ b \in Nat /\ h \in Nat /\ w \in Nat
  BY PolicyAssumption DEF Rows, Outcomes
<1>2. c = [row EXCEPT !.attempts = a, !.sum = b, !.high = h, !.low = w]
  BY DEF Counted, Rows
<1>. HIDE DEF a, b, h, w, c
<1>3. c \in Rows
  BY <1>1, <1>2 DEF Rows
<1>4. c.attempts = a /\ c.sum = b /\ c.high = h /\ c.low = w
  BY <1>2 DEF Rows
<1>5. c.stable <=> row.stable
  BY <1>2 DEF Rows
<1>6. c.protected <=> row.protected
  BY <1>2 DEF Rows
<1>7. QED
  BY <1>3, <1>4, <1>5, <1>6 DEF a, b, h, w, c

(* What decides of a row that has no protection yet.                       *)
Steady(row) == row.stable /\ row.sum >= Mastery * row.attempts

LEMMA EarnedFields ==
  ASSUME NEW row \in Rows, ~ row.protected
  PROVE  /\ Earned(row) \in Rows
         /\ Earned(row).attempts = row.attempts
         /\ Earned(row).sum = row.sum
         /\ Earned(row).high = row.high
         /\ Earned(row).low = row.low
         /\ Earned(row).protected <=>
              \/ row.high >= MinMastery
              \/ row.attempts >= MinMastery /\ Steady(row)
         /\ ~ Earned(row).protected =>
              (Earned(row).stable <=> row.stable /\ row.attempts < MinMastery)
<1>. DEFINE b == Steady(row)  e == Earned(row)
<1>1. b \in BOOLEAN
  BY DEF Steady
<1>2. row.high \in Nat /\ row.attempts \in Nat /\ MinMastery \in Nat
  BY PolicyAssumption DEF Rows
<1>3. e = IF row.high >= MinMastery
          THEN [row EXCEPT !.stable = TRUE, !.protected = TRUE]
          ELSE IF row.attempts >= MinMastery
          THEN [row EXCEPT !.stable = b, !.protected = b]
          ELSE row
  BY DEF Earned, Steady
<1>. HIDE DEF b, e
<1>4. CASE row.high >= MinMastery
  <2>1. e = [row EXCEPT !.stable = TRUE, !.protected = TRUE]
    BY <1>3, <1>4
  <2>2. e \in Rows /\ e.protected
    BY <2>1 DEF Rows
  <2>3. /\ e.attempts = row.attempts /\ e.sum = row.sum
        /\ e.high = row.high /\ e.low = row.low
    BY <2>1 DEF Rows
  <2>4. QED
    BY <1>4, <2>2, <2>3 DEF e
<1>5. CASE ~ (row.high >= MinMastery) /\ row.attempts >= MinMastery
  <2>1. e = [row EXCEPT !.stable = b, !.protected = b]
    BY <1>3, <1>5
  <2>2. e \in Rows
    BY <1>1, <2>1 DEF Rows
  <2>3. e.protected <=> b
    BY <1>1, <2>1 DEF Rows
  <2>4. e.stable <=> b
    BY <1>1, <2>1 DEF Rows
  <2>5. /\ e.attempts = row.attempts /\ e.sum = row.sum
        /\ e.high = row.high /\ e.low = row.low
    BY <2>1 DEF Rows
  <2>6. ~ (row.attempts < MinMastery)
    BY <1>2, <1>5
  <2>7. QED
    BY <1>5, <2>2, <2>3, <2>4, <2>5, <2>6 DEF e, b
<1>6. CASE ~ (row.high >= MinMastery) /\ ~ (row.attempts >= MinMastery)
  <2>1. e = row
    BY <1>3, <1>6
  <2>2. row.attempts < MinMastery
    BY <1>2, <1>6
  <2>3. QED
    BY <1>6, <2>1, <2>2 DEF e
<1>7. QED
  BY <1>4, <1>5, <1>6

(* Protected: the row is released by a reversal, and else counts on.       *)
LEMMA ProtectedSound ==
  ASSUME NEW row \in Rows, NEW l \in Seq(Entries), NEW v \in Outcomes,
         Sound(row, l), row.protected
  PROVE  ObserveRow(row, v) \in Rows /\ Logged(l, v) \in Seq(Entries)
         /\ Sound(ObserveRow(row, v), Logged(l, v))
<1>. DEFINE k == Longer(l, v)  c == Counted(row, v)
            w == IF v <= Reversal THEN row.low + 1 ELSE 0
<1>1. PICK m \in DOMAIN l : CountsLow(row.low, l, m)
  BY DEF Sound
<1>2. /\ c \in Rows /\ c.attempts = row.attempts + 1 /\ c.sum = row.sum + v
      /\ c.protected
      /\ c.high = IF v >= Mastery THEN row.high + 1 ELSE 0
      /\ c.low = w
  BY CountedFields
<1>3. /\ k \in Seq(Entries) /\ Len(k) = Len(l) + 1 /\ Total(k) = Total(l) + v
  BY LongerFacts
<1>4. row.low \in Nat /\ row.high \in Nat /\ CountsHigh(row.high, l)
      /\ row.low < Patience /\ row.attempts = Len(l) /\ row.sum = Total(l)
  BY DEF Rows, Sound
<1>5. w \in Nat /\ w <= Patience
  BY <1>4, PolicyAssumption
<1>6. CountsLow(w, k, m)
  BY <1>1, <1>4, LowCounted
<1>7. m \in DOMAIN k /\ MasteredAt(k, m)
  BY <1>6 DEF CountsLow
<1>8. ReversedBy(k) <=> w >= Patience
  BY <1>3, <1>5, <1>6, <1>7, ReversalIsCounted
<1>9. Reverses(row, v) <=> w >= Patience
  BY <1>2 DEF Reverses
<1>10. CountsHigh(c.high, k)
  BY <1>2, <1>4, HighCounted
<1>. HIDE DEF k, c, w
<1>11. CASE w >= Patience
  <2>1. ObserveRow(row, v) = EmptyRow /\ Logged(l, v) = <<>>
    BY <1>8, <1>9, <1>11 DEF ObserveRow, ReleasedRow, Logged, k
  <2>2. <<>> \in Seq(Entries)
    OBVIOUS
  <2>3. QED
    BY <2>1, <2>2, EmptyRowSound
<1>12. CASE ~ (w >= Patience)
  <2>1. ObserveRow(row, v) = c /\ Logged(l, v) = k
    BY <1>8, <1>9, <1>12 DEF ObserveRow, Logged, k, c
  <2>2. Mastered(k)
    BY <1>7 DEF Mastered
  <2>3. c.low < Patience
    BY <1>2, <1>5, <1>12, PolicyAssumption
  <2>4. c.attempts = Len(k) /\ c.sum = Total(k)
    BY <1>2, <1>3, <1>4
  <2>5. \E n \in DOMAIN k : CountsLow(c.low, k, n)
    BY <1>2, <1>6, <1>7
  <2>6. Sound(c, k)
    BY <1>2, <1>10, <2>2, <2>3, <2>4, <2>5 DEF Sound
  <2>7. QED
    BY <1>2, <1>3, <2>1, <2>6
<1>13. QED
  BY <1>11, <1>12

(* Not protected: nothing to reverse, and the last outcome may master.     *)
LEMMA NotReversed ==
  ASSUME NEW l \in Seq(Entries), NEW v \in Outcomes, ~ Mastered(l)
  PROVE  ~ ReversedBy(Longer(l, v))
<1>1. SUFFICES ASSUME ReversedBy(Longer(l, v)) PROVE FALSE
  OBVIOUS
<1>2. PICK at \in DOMAIN Longer(l, v) :
        MasteredAt(Longer(l, v), at) /\ Len(Longer(l, v)) >= at + Patience
  BY <1>1 DEF ReversedBy
<1>3. Longer(l, v) \in Seq(Entries) /\ Len(Longer(l, v)) = Len(l) + 1
  BY LongerFacts
<1>4. at \in 1 .. Len(l)
  BY <1>2, <1>3, PolicyAssumption
<1>5. MasteredAt(l, at)
  BY <1>2, <1>4, MasteredStays
<1>6. QED
  BY <1>4, <1>5 DEF Mastered

LEMMA MasteredByLast ==
  ASSUME NEW l \in Seq(Entries), NEW v \in Outcomes, ~ Mastered(l)
  PROVE  /\ Mastered(Longer(l, v)) <=> MasteredAt(Longer(l, v), Len(l) + 1)
         /\ \A at \in 1 .. Len(l) : ~ MasteredAt(Longer(l, v), at)
<1>1. \A at \in 1 .. Len(l) : ~ MasteredAt(Longer(l, v), at)
  BY MasteredStays DEF Mastered
<1>2. Longer(l, v) \in Seq(Entries) /\ Len(Longer(l, v)) = Len(l) + 1
      /\ Len(l) \in Nat
  BY LongerFacts
<1>3. DOMAIN Longer(l, v) = 1 .. Len(l) + 1
  BY <1>2
<1>4. QED
  BY <1>1, <1>2, <1>3 DEF Mastered

LEMMA UnprotectedSound ==
  ASSUME NEW row \in Rows, NEW l \in Seq(Entries), NEW v \in Outcomes,
         Sound(row, l), ~ row.protected
  PROVE  ObserveRow(row, v) \in Rows /\ Logged(l, v) \in Seq(Entries)
         /\ Sound(ObserveRow(row, v), Logged(l, v))
<1>. DEFINE k == Longer(l, v)  c == Counted(row, v)  e == Earned(c)
            n == Len(l) + 1
<1>1. /\ row.attempts = Len(l) /\ row.sum = Total(l) /\ row.low = 0
      /\ row.stable <=> Len(l) < MinMastery
      /\ CountsHigh(row.high, l) /\ row.high \in Nat /\ ~ Mastered(l)
  BY DEF Sound, Rows
<1>2. /\ c \in Rows /\ c.attempts = n /\ c.sum = Total(l) + v
      /\ c.stable <=> row.stable
      /\ ~ c.protected
      /\ c.high = IF v >= Mastery THEN row.high + 1 ELSE 0
      /\ c.low = 0
  BY <1>1, CountedFields
<1>3. /\ k \in Seq(Entries) /\ Len(k) = n /\ n \in Nat \ {0}
      /\ Total(k) = Total(l) + v /\ DOMAIN k = 1 .. n
  BY LongerFacts
<1>4. CountsHigh(c.high, k)
  BY <1>1, <1>2, HighCounted
<1>5. Logged(l, v) = k
  BY <1>1, NotReversed DEF Logged
<1>6. ObserveRow(row, v) = e
  BY DEF ObserveRow, Reverses
<1>7. /\ Mastered(k) <=> MasteredAt(k, n)
      /\ \A at \in 1 .. n - 1 : ~ MasteredAt(k, at)
  <2>1. n - 1 = Len(l)
    BY <1>3
  <2>2. QED
    BY <1>1, <2>1, MasteredByLast
<1>8. c.high \in Nat /\ Total(l) + v \in Nat /\ MinMastery \in Nat \ {0}
      /\ Mastery \in Nat /\ Patience \in Nat \ {0}
  BY <1>2, TotalType, PolicyAssumption DEF Rows, Outcomes
<1>9. MasteredAt(k, n) <=>
        \/ n = MinMastery /\ Total(l) + v >= Mastery * MinMastery
        \/ c.high >= MinMastery
  BY <1>4, <1>8, MasteredNow
<1>10. /\ e \in Rows /\ e.attempts = c.attempts /\ e.sum = c.sum
       /\ e.high = c.high /\ e.low = c.low
  BY <1>2, EarnedFields
<1>11. e.protected <=> \/ c.high >= MinMastery
                       \/ c.attempts >= MinMastery /\ Steady(c)
  BY <1>2, EarnedFields
<1>12. ~ e.protected => (e.stable <=> c.stable /\ c.attempts < MinMastery)
  BY <1>2, EarnedFields
<1>. HIDE DEF k, c, e
<1>13. c.attempts >= MinMastery /\ Steady(c) <=>
         n = MinMastery /\ Total(l) + v >= Mastery * MinMastery
  <2>1. c.attempts >= MinMastery /\ c.stable <=> n = MinMastery
    BY <1>1, <1>2, <1>3, <1>8
  <2>2. n = MinMastery => (c.sum >= Mastery * c.attempts
                             <=> Total(l) + v >= Mastery * MinMastery)
    BY <1>2
  <2>3. QED
    BY <2>1, <2>2 DEF Steady
<1>14. e.protected <=> Mastered(k)
  BY <1>7, <1>9, <1>11, <1>13
<1>15. e.protected => CountsLow(e.low, k, n)
  <2>1. SUFFICES ASSUME e.protected PROVE CountsLow(e.low, k, n)
    OBVIOUS
  <2>2. MasteredAt(k, n)
    BY <1>7, <1>14, <2>1
  <2>3. e.low = 0
    BY <1>2, <1>10
  <2>4. AllLow(k, Len(k) + 1)
    BY <1>3 DEF AllLow
  <2>5. QED
    BY <1>3, <1>7, <2>2, <2>3, <2>4 DEF CountsLow
<1>16. ~ e.protected => (e.stable <=> Len(k) < MinMastery)
  BY <1>1, <1>2, <1>3, <1>8, <1>12
<1>17. Sound(e, k)
  <2>1. e.attempts = Len(k) /\ e.sum = Total(k) /\ CountsHigh(e.high, k)
    BY <1>2, <1>3, <1>4, <1>10
  <2>2. e.low = 0 /\ e.low < Patience
    BY <1>2, <1>8, <1>10
  <2>3. e.protected => \E m \in DOMAIN k : CountsLow(e.low, k, m)
    BY <1>3, <1>15
  <2>4. QED
    BY <1>14, <1>16, <2>1, <2>2, <2>3 DEF Sound
<1>18. QED
  BY <1>3, <1>5, <1>6, <1>10, <1>17

LEMMA ObserveSound ==
  ASSUME NEW row \in Rows, NEW l \in Seq(Entries), NEW v \in Outcomes,
         Sound(row, l)
  PROVE  ObserveRow(row, v) \in Rows /\ Logged(l, v) \in Seq(Entries)
         /\ Sound(ObserveRow(row, v), Logged(l, v))
BY ProtectedSound, UnprotectedSound

-----------------------------------------------------------------------------
(* The ledgers *)

(* Every counter says what the outcomes say, and only a slot that its      *)
(* outcomes protect is preferred.                                          *)
LedgerSound(ledger, logged) ==
  /\ \A s \in Slots(ledger) : Sound(ledger.rows[s], logged[s])
  /\ ledger.preferred # NoSlot => ledger.rows[ledger.preferred].protected

Unused(logged) == \A s \in AllSlots \ slots : logged[s] = <<>>

Sane ==
  /\ TypeOK
  /\ \A c \in Contexts : LedgerSound(ledgers[c], log[c]) /\ Unused(log[c])

(* Only a slot of the ledger is chosen.                                    *)
LEMMA ChoicesAreSlots ==
  ASSUME NEW S, NEW ledger \in Ledgers(S), NoSlot \notin S
  PROVE  Choices(ledger) \subseteq S
<1>1. /\ Slots(ledger) = S /\ ledger.preferred \in S \union {NoSlot}
      /\ ledger.last \in S \union {NoSlot}
  BY DEF Ledgers, Slots
<1>2. LeastTried(ledger) \subseteq S
  BY <1>1 DEF LeastTried
<1>3. QED
  BY <1>1, <1>2 DEF Choices

LEMMA ObserveSlotSound ==
  ASSUME NEW S, NEW ledger \in Ledgers(S), NEW s \in S, NEW v \in Outcomes,
         NoSlot \notin S, S \subseteq AllSlots,
         NEW logged \in [AllSlots -> Seq(Entries)], LedgerSound(ledger, logged)
  PROVE  LET after == ObserveSlot(ledger, s, v)
             longer == [logged EXCEPT ![s] = Logged(@, v)]
         IN after \in Ledgers(S) /\ longer \in [AllSlots -> Seq(Entries)]
            /\ LedgerSound(after, longer)
<1>. DEFINE row == ledger.rows[s]
            new == ObserveRow(row, v)
            ell == Logged(logged[s], v)
            pref == IF new.protected THEN s
                    ELSE IF Reverses(row, v) /\ ledger.preferred = s THEN NoSlot
                    ELSE ledger.preferred
            after == ObserveSlot(ledger, s, v)
            longer == [logged EXCEPT ![s] = ell]
<1>1. /\ row \in Rows /\ ledger.rows \in [S -> Rows] /\ Slots(ledger) = S
      /\ ledger.preferred \in S \union {NoSlot}
  BY DEF Ledgers, Slots
<1>2. logged[s] \in Seq(Entries) /\ Sound(row, logged[s])
  BY <1>1 DEF LedgerSound
<1>3. new \in Rows /\ ell \in Seq(Entries) /\ Sound(new, ell)
  BY <1>1, <1>2, ObserveSound
<1>4. after = [rows |-> [ledger.rows EXCEPT ![s] = new], preferred |-> pref,
               last |-> s, lastOutcome |-> v]
  BY DEF ObserveSlot
<1>5. ~ Reverses(row, v) /\ row.protected => new.protected
  <2>1. SUFFICES ASSUME ~ Reverses(row, v), row.protected PROVE new.protected
    OBVIOUS
  <2>2. new = Counted(row, v)
    BY <2>1 DEF ObserveRow
  <2>3. QED
    BY <1>1, <2>1, <2>2, CountedFields
<1>. HIDE DEF row, new, ell, after
<1>6. [ledger.rows EXCEPT ![s] = new] \in [S -> Rows]
  BY <1>1, <1>3
<1>7. pref \in S \union {NoSlot}
  BY <1>1
<1>8. after \in Ledgers(S)
  BY <1>4, <1>6, <1>7 DEF Ledgers
<1>9. longer \in [AllSlots -> Seq(Entries)]
  BY <1>3
<1>10. /\ Slots(after) = S /\ after.rows = [ledger.rows EXCEPT ![s] = new]
       /\ after.preferred = pref
  BY <1>1, <1>4 DEF Slots
<1>11. \A t \in S : Sound(after.rows[t], longer[t])
  <2>1. TAKE t \in S
  <2>2. CASE t = s
    BY <1>1, <1>3, <1>10, <2>2
  <2>3. CASE t # s
    <3>1. after.rows[t] = ledger.rows[t] /\ longer[t] = logged[t]
      BY <1>1, <1>10, <2>3
    <3>2. Sound(ledger.rows[t], logged[t])
      BY <1>1 DEF LedgerSound
    <3>3. QED
      BY <3>1, <3>2
  <2>4. QED
    BY <2>2, <2>3
<1>12. after.preferred # NoSlot => after.rows[after.preferred].protected
  <2>1. SUFFICES ASSUME pref # NoSlot PROVE after.rows[pref].protected
    BY <1>10
  <2>2. CASE new.protected
    BY <1>1, <1>10, <2>2
  <2>3. CASE ~ new.protected
    <3>1. pref = ledger.preferred
      BY <2>1, <2>3
    <3>2. ledger.rows[pref].protected
      BY <2>1, <3>1 DEF LedgerSound
    <3>3. pref # s
      BY <1>5, <2>1, <2>3, <3>1, <3>2 DEF row
    <3>4. after.rows[pref] = ledger.rows[pref]
      BY <1>1, <1>10, <2>1, <3>1, <3>3
    <3>5. QED
      BY <3>2, <3>4
  <2>4. QED
    BY <2>2, <2>3
<1>13. QED
  BY <1>8, <1>9, <1>10, <1>11, <1>12 DEF LedgerSound, after, ell

LEMMA AppendSlotSound ==
  ASSUME NEW S, NEW ledger \in Ledgers(S), NEW s, s \notin S, NoSlot \notin S,
         NEW logged, LedgerSound(ledger, logged), logged[s] = <<>>
  PROVE  /\ AppendSlot(ledger, s) \in Ledgers(S \union {s})
         /\ LedgerSound(AppendSlot(ledger, s), logged)
<1>. DEFINE grown == [t \in S \union {s} |-> IF t = s THEN EmptyRow
                                           ELSE ledger.rows[t]]
            after == AppendSlot(ledger, s)
<1>1. /\ ledger.rows \in [S -> Rows] /\ Slots(ledger) = S
      /\ ledger.preferred \in S \union {NoSlot}
      /\ ledger.last \in S \union {NoSlot}
      /\ ledger.lastOutcome \in Outcomes \union {NoOutcome}
  BY DEF Ledgers, Slots
<1>2. EmptyRow \in Rows /\ Sound(EmptyRow, <<>>)
  BY EmptyRowSound
<1>3. grown \in [S \union {s} -> Rows]
  BY <1>1, <1>2
<1>4. after = [ledger EXCEPT !.rows = grown]
  BY <1>1 DEF AppendSlot
<1>. HIDE DEF after
<1>5. DOMAIN grown = S \union {s} /\ grown[s] = EmptyRow
      /\ \A t \in S : grown[t] = ledger.rows[t]
  OBVIOUS
<1>. HIDE DEF grown
<1>6. after = [rows |-> grown, preferred |-> ledger.preferred,
               last |-> ledger.last, lastOutcome |-> ledger.lastOutcome]
  BY <1>4 DEF Ledgers
<1>7. after \in Ledgers(S \union {s})
  BY <1>1, <1>3, <1>6 DEF Ledgers
<1>8. Slots(after) = S \union {s} /\ after.rows = grown
      /\ after.preferred = ledger.preferred
  BY <1>5, <1>6 DEF Slots
<1>9. \A t \in S \union {s} : Sound(grown[t], logged[t])
  BY <1>1, <1>2, <1>5 DEF LedgerSound
<1>10. after.preferred # NoSlot => after.rows[after.preferred].protected
  BY <1>1, <1>5, <1>8 DEF LedgerSound
<1>11. QED
  BY <1>7, <1>8, <1>9, <1>10 DEF LedgerSound, after

-----------------------------------------------------------------------------
(* The state *)

LEMMA SaneRoute ==
  ASSUME Sane, NEW c \in Contexts
  PROVE  /\ ledgers[c] \in Ledgers(slots) /\ log[c] \in [AllSlots -> Seq(Entries)]
         /\ LedgerSound(ledgers[c], log[c])
         /\ NoSlot \notin slots /\ slots \subseteq AllSlots
BY RouterAssumption DEF Sane, TypeOK, Entries

LEMMA ObserveRouteSane ==
  ASSUME Sane, NEW sel \in Selections, NEW v \in Outcomes, ObserveRoute(sel, v)
  PROVE  /\ ledgers' \in [Contexts -> Ledgers(slots)] /\ slots' = slots
         /\ log' \in [Contexts -> [AllSlots -> Seq(Entries)]]
         /\ \A c \in Contexts : LedgerSound(ledgers'[c], log'[c])
                                /\ Unused(log'[c])
<1>. DEFINE c == sel.context  s == sel.slot
            after == ObserveSlot(ledgers[c], s, v)
            longer == [log[c] EXCEPT ![s] = Logged(@, v)]
<1>1. /\ ledgers \in [Contexts -> Ledgers(slots)]
      /\ log \in [Contexts -> [AllSlots -> Seq(Entries)]]
  BY DEF Sane, TypeOK, Entries
<1>2. c \in Contexts /\ s \in slots /\ slots' = slots
  BY DEF Selections, ObserveRoute
<1>3. /\ after \in Ledgers(slots) /\ longer \in [AllSlots -> Seq(Entries)]
      /\ LedgerSound(after, longer)
  BY <1>2, SaneRoute, ObserveSlotSound
<1>4. ledgers' = [ledgers EXCEPT ![c] = after]
  BY DEF ObserveRoute
<1>5. log' = [log EXCEPT ![c] = longer]
  BY DEF ObserveRoute
<1>6. Unused(longer)
  <2>1. Unused(log[c])
    BY <1>2 DEF Sane
  <2>2. \A t \in AllSlots \ slots : longer[t] = log[c][t]
    BY <1>1, <1>2
  <2>3. QED
    BY <2>1, <2>2 DEF Unused
<1>. HIDE DEF after, longer, c
<1>7. /\ ledgers' \in [Contexts -> Ledgers(slots)]
      /\ log' \in [Contexts -> [AllSlots -> Seq(Entries)]]
  BY <1>1, <1>3, <1>4, <1>5
<1>8. ASSUME NEW d \in Contexts
      PROVE  LedgerSound(ledgers'[d], log'[d]) /\ Unused(log'[d])
  <2>1. CASE d = c
    BY <1>1, <1>2, <1>3, <1>4, <1>5, <1>6, <2>1
  <2>2. CASE d # c
    BY <1>1, <1>4, <1>5, <2>2 DEF Sane
  <2>3. QED
    BY <2>1, <2>2
<1>9. QED
  BY <1>2, <1>7, <1>8

LEMMA SelectedAreSelections ==
  ASSUME Sane, NEW sel \in Selected PROVE sel \in Selections
<1>1. CASE active # NoSelection
  BY <1>1 DEF Selected, Sane, TypeOK
<1>2. CASE active = NoSelection
  <2>1. PICK c \in Contexts :
          \E s \in Choices(ledgers[c]) : sel = [slot |-> s, context |-> c]
    BY <1>2 DEF Selected
  <2>2. Choices(ledgers[c]) \subseteq slots
    BY SaneRoute, ChoicesAreSlots
  <2>3. QED
    BY <2>1, <2>2 DEF Selections
<1>3. QED
  BY <1>1, <1>2

LEMMA NotNone == ASSUME Sane, NEW sel \in Selections PROVE sel # NoSelection
BY RouterAssumption DEF Sane, TypeOK, Selections, NoSelection

LEMMA ProposalIsSelection ==
  ASSUME Sane, NEW r \in Issued PROVE proposals[r] \in Selections
BY DEF Sane, TypeOK, Issued

-----------------------------------------------------------------------------
(* What a tick leaves behind when it ends *)

(* The part of TypeOK that is about ledgers, and its soundness: a step that*)
(* changes neither keeps both.                                             *)
LEMMA LedgersKept ==
  ASSUME Sane, UNCHANGED <<bankVars, log>>
  PROVE  /\ slots' \subseteq AllSlots
         /\ ledgers' \in [Contexts -> Ledgers(slots')]
         /\ log' \in [Contexts -> [AllSlots -> Seq(Entries)]]
         /\ \A c \in Contexts : LedgerSound(ledgers'[c], log'[c])
         /\ \A c \in Contexts : Unused(log[c])'
         /\ Selections' = Selections
BY DEF Sane, TypeOK, bankVars, Entries, Unused, Selections

LEMMA RaiseSane ==
  ASSUME Sane, Raise,
         active' \in Selections \union {NoSelection},
         machines' \in [AllSlots -> MachineStates]
  PROVE  Sane'
<1>1. UNCHANGED <<bankVars, log>>
  BY DEF Raise
<1>2. /\ slots' \subseteq AllSlots
      /\ ledgers' \in [Contexts -> Ledgers(slots')]
      /\ log' \in [Contexts -> [AllSlots -> Seq(Entries)]]
      /\ \A c \in Contexts : LedgerSound(ledgers'[c], log'[c])
      /\ \A c \in Contexts : Unused(log[c])'
      /\ Selections' = Selections
  BY <1>1, LedgersKept
<1>3. TypeOK'
  BY <1>2 DEF Sane, TypeOK, Raise, episodeVars, receiptVars, Issued, Entries
<1>4. QED
  BY <1>2, <1>3 DEF Sane

LEMMA CloseSane ==
  ASSUME Sane, NEW opened, Close(opened), opened \subseteq Issued',
         Issued \subseteq Issued',
         active' \in Selections \union {NoSelection},
         machines' \in [AllSlots -> MachineStates],
         proposals' \in Seq(Selections), Len(proposals') <= MaxReceipts,
         issued' \in Seq(Nat), Len(issued') = Len(proposals')
  PROVE  Sane'
<1>1. UNCHANGED <<bankVars, log>>
  BY DEF Close
<1>2. /\ slots' \subseteq AllSlots
      /\ ledgers' \in [Contexts -> Ledgers(slots')]
      /\ log' \in [Contexts -> [AllSlots -> Seq(Entries)]]
      /\ \A c \in Contexts : LedgerSound(ledgers'[c], log'[c])
      /\ \A c \in Contexts : Unused(log[c])'
      /\ Selections' = Selections
  BY <1>1, LedgersKept
<1>3. /\ taken' = {} /\ pending' = StillPending \union opened
      /\ cut' = cut \intersect StillPending
      /\ UNCHANGED <<feedback, credited, rewards, earners, episode>>
  BY DEF Close, episodeVars
<1>4. credits' \in [Receipts -> Nat]
  BY DEF Close, Sane, TypeOK
<1>5. pending \subseteq Issued /\ earners \subseteq Issued
  BY DEF Sane, TypeOK
<1>6. /\ pending' \subseteq Issued' /\ taken' \subseteq pending'
      /\ cut' \subseteq pending' /\ earners' \subseteq Issued'
  BY <1>3, <1>5 DEF StillPending
<1>7. TypeOK'
  BY <1>2, <1>3, <1>4, <1>6 DEF Sane, TypeOK, Entries
<1>8. QED
  BY <1>2, <1>7 DEF Sane

-----------------------------------------------------------------------------
(* Every step keeps the state sane *)

LEMMA InitSane == Init => Sane
<1>1. SUFFICES ASSUME Init PROVE Sane
  OBVIOUS
<1>2. <<>> \in Seq(Entries) /\ <<>> \in Seq(Nat) /\ <<>> \in Seq(Selections)
      /\ Len(<<>>) = 0
  OBVIOUS
<1>3. NewLedger({}) \in Ledgers({})
  BY DEF NewLedger, Ledgers
<1>4. ledgers \in [Contexts -> Ledgers(slots)]
  BY <1>1, <1>3 DEF Init
<1>5. log \in [Contexts -> [AllSlots -> Seq(Entries)]]
  BY <1>1, <1>2 DEF Init
<1>6. rewards \in [count : Nat, sum : Int] /\ rewards.count = 0
  BY <1>1 DEF Init, NoRewards
<1>7. TypeOK
  BY <1>1, <1>2, <1>4, <1>5, <1>6, RouterAssumption
  DEF Init, TypeOK, MachineStates, Issued, Entries
<1>8. ASSUME NEW c \in Contexts
      PROVE  LedgerSound(ledgers[c], log[c]) /\ Unused(log[c])
  <2>1. ledgers[c] = NewLedger({}) /\ log[c] = [s \in AllSlots |-> <<>>]
    BY <1>1 DEF Init
  <2>2. Slots(NewLedger({})) = {} /\ NewLedger({}).preferred = NoSlot
    BY DEF NewLedger, Slots
  <2>3. QED
    BY <2>1, <2>2 DEF LedgerSound, Unused
<1>9. QED
  BY <1>7, <1>8 DEF Sane

(* A step that credits an outcome, or commits a mean, in the ledgers.      *)
LEMMA LedgersObservedSane ==
  ASSUME Sane, NEW sel \in Selections, NEW v \in Outcomes, ObserveRoute(sel, v),
         feedback' = feedback, UNCHANGED receiptVars, cut' = cut,
         machines' \in [AllSlots -> MachineStates],
         active' \in Selections \union {NoSelection},
         credited' \in Selections \union {NoSelection},
         rewards' \in [count : Nat, sum : Int],
         (credited' = NoSelection) <=> (rewards'.count = 0),
         taken' \subseteq pending, episode' \in Nat,
         credits' \in [Receipts -> Nat], earners' \subseteq Issued
  PROVE  Sane'
<1>1. /\ ledgers' \in [Contexts -> Ledgers(slots)] /\ slots' = slots
      /\ log' \in [Contexts -> [AllSlots -> Seq(Entries)]]
      /\ \A c \in Contexts : LedgerSound(ledgers'[c], log'[c])
                             /\ Unused(log'[c])
  BY ObserveRouteSane
<1>2. Selections' = Selections /\ Issued' = Issued
  BY <1>1 DEF Selections, Issued, receiptVars
<1>3. TypeOK'
  BY <1>1, <1>2 DEF Sane, TypeOK, receiptVars, Entries
<1>4. \A c \in Contexts : Unused(log[c])'
  BY <1>1 DEF Unused
<1>5. QED
  BY <1>1, <1>3, <1>4 DEF Sane

LEMMA CreditTypes ==
  ASSUME Sane, NEW r \in Receipts, Due(r), Credit(r)
  PROVE  /\ credits' \in [Receipts -> Nat] /\ taken' \subseteq pending
         /\ r \in Issued /\ proposals[r] \in Selections
         /\ feedback' = feedback /\ UNCHANGED receiptVars /\ cut' = cut
         /\ episode' = episode /\ UNCHANGED skillVars
<1>1. r \in pending /\ taken \subseteq pending /\ pending \subseteq Issued
      /\ credits \in [Receipts -> Nat]
  BY DEF Due, Sane, TypeOK
<1>2. credits[r] + 1 \in Nat
  BY <1>1
<1>3. credits' \in [Receipts -> Nat]
  BY <1>1, <1>2 DEF Credit
<1>4. QED
  BY <1>1, <1>3, ProposalIsSelection DEF Credit

LEMMA CreditPerOutcomeSane ==
  ASSUME Sane, NEW r \in Receipts, NEW v \in Rewards, CreditPerOutcome(r, v)
  PROVE  Sane'
<1>1. Due(r) /\ Credit(r) /\ v \in Outcomes /\ ObserveRoute(proposals[r], v)
      /\ UNCHANGED episodeVars
  BY DEF CreditPerOutcome, InRange
<1>2. /\ credits' \in [Receipts -> Nat] /\ taken' \subseteq pending
      /\ r \in Issued /\ proposals[r] \in Selections
      /\ feedback' = feedback /\ UNCHANGED receiptVars /\ cut' = cut
      /\ episode' = episode /\ UNCHANGED skillVars
  BY <1>1, CreditTypes
<1>. DEFINE sel == proposals[r]
<1>3. sel \in Selections /\ ObserveRoute(sel, v)
  BY <1>1, <1>2
<1>. HIDE DEF sel
<1>4. QED
  BY <1>1, <1>2, <1>3, LedgersObservedSane
  DEF Sane, TypeOK, episodeVars, skillVars

LEMMA CollectRewardSane ==
  ASSUME Sane, NEW r \in Receipts, NEW v \in Rewards, CollectReward(r, v)
  PROVE  Sane'
<1>1. Due(r) /\ Credit(r) /\ UNCHANGED <<bankVars, log>>
  BY DEF CollectReward
<1>2. /\ credits' \in [Receipts -> Nat] /\ taken' \subseteq pending
      /\ r \in Issued /\ proposals[r] \in Selections
      /\ feedback' = feedback /\ UNCHANGED receiptVars /\ cut' = cut
      /\ episode' = episode /\ UNCHANGED skillVars
  BY <1>1, CreditTypes
<1>3. /\ slots' \subseteq AllSlots
      /\ ledgers' \in [Contexts -> Ledgers(slots')]
      /\ log' \in [Contexts -> [AllSlots -> Seq(Entries)]]
      /\ \A c \in Contexts : LedgerSound(ledgers'[c], log'[c])
      /\ \A c \in Contexts : Unused(log[c])'
      /\ Selections' = Selections
  BY <1>1, LedgersKept
<1>4. /\ rewards' \in [count : Nat, sum : Int] /\ rewards'.count # 0
  BY RouterAssumption DEF Sane, TypeOK, CollectReward
<1>5. credited' \in Selections /\ credited' # NoSelection
  BY <1>2, NotNone DEF CollectReward, Sane, TypeOK
<1>6. earners' \subseteq Issued' /\ Issued' = Issued
  BY <1>2 DEF CollectReward, Sane, TypeOK, Issued, receiptVars
<1>7. TypeOK'
  BY <1>2, <1>3, <1>4, <1>5, <1>6
  DEF Sane, TypeOK, receiptVars, skillVars, Entries
<1>8. QED
  BY <1>3, <1>7 DEF Sane

(* FinishEpisode and Reset *)
LEMMA CommitSane ==
  ASSUME Sane, Commit, feedback' = feedback, UNCHANGED receiptVars, cut' = cut,
         machines' \in [AllSlots -> MachineStates],
         active' \in Selections \union {NoSelection},
         taken' = taken, episode' \in Nat, credits' = credits
  PROVE  Sane'
<1>1. /\ credited' = NoSelection /\ rewards' \in [count : Nat, sum : Int]
      /\ rewards'.count = 0 /\ earners' = {}
  BY DEF Commit, ForgetEpisode, NoRewards
<1>2. /\ taken' \subseteq pending /\ credits' \in [Receipts -> Nat]
      /\ Issued' = Issued
  BY DEF Sane, TypeOK, Issued, receiptVars
<1>3. CASE feedback = "per_outcome" \/ credited = NoSelection
  <2>1. UNCHANGED <<bankVars, log>>
    BY <1>3 DEF Commit
  <2>2. /\ slots' \subseteq AllSlots
        /\ ledgers' \in [Contexts -> Ledgers(slots')]
        /\ log' \in [Contexts -> [AllSlots -> Seq(Entries)]]
        /\ \A c \in Contexts : LedgerSound(ledgers'[c], log'[c])
        /\ \A c \in Contexts : Unused(log[c])'
        /\ Selections' = Selections
    BY <2>1, LedgersKept
  <2>3. TypeOK'
    BY <1>1, <1>2, <2>2 DEF Sane, TypeOK, receiptVars, Entries
  <2>4. QED
    BY <2>2, <2>3 DEF Sane
<1>4. CASE ~ (feedback = "per_outcome" \/ credited = NoSelection)
  <2>. DEFINE v == Mean
  <2>1. v \in Outcomes /\ ObserveRoute(credited, v)
    BY <1>4 DEF Commit, InRange
  <2>2. credited \in Selections
    BY <1>4 DEF Sane, TypeOK
  <2>. HIDE DEF v
  <2>3. QED
    BY <1>1, <1>2, <2>1, <2>2, LedgersObservedSane
<1>5. QED
  BY <1>3, <1>4

LEMMA GrowSane == ASSUME Sane, Grow PROVE Sane'
<1>1. PICK s \in AllSlots \ slots :
        /\ slots' = slots \union {s}
        /\ ledgers' = [c \in Contexts |-> AppendSlot(ledgers[c], s)]
  BY DEF Grow
<1>2. UNCHANGED <<feedback, log, skillVars, episodeVars, receiptVars, taken,
                  histVars>>
  BY DEF Grow
<1>3. ASSUME NEW c \in Contexts
      PROVE  /\ ledgers'[c] \in Ledgers(slots')
             /\ LedgerSound(ledgers'[c], log'[c]) /\ Unused(log[c])'
  <2>1. log[c][s] = <<>> /\ Unused(log[c])
    BY <1>1 DEF Sane, Unused
  <2>2. ledgers'[c] = AppendSlot(ledgers[c], s) /\ log' = log
    BY <1>1, <1>2
  <2>3. s \notin slots
    BY <1>1
  <2>4. /\ AppendSlot(ledgers[c], s) \in Ledgers(slots \union {s})
        /\ LedgerSound(AppendSlot(ledgers[c], s), log[c])
    BY <2>1, <2>3, SaneRoute, AppendSlotSound
  <2>5. QED
    BY <1>1, <2>1, <2>2, <2>4 DEF Unused
<1>4. ledgers' \in [Contexts -> Ledgers(slots')] /\ slots' \subseteq AllSlots
  BY <1>1, <1>3 DEF Sane, TypeOK
<1>5. Selections \subseteq Selections' /\ Issued' = Issued
  BY <1>1, <1>2 DEF Selections, Issued, receiptVars
<1>6. proposals' \in Seq(Selections')
  <2>1. proposals \in Seq(Selections) /\ proposals' = proposals
    BY <1>2 DEF Sane, TypeOK, receiptVars
  <2>2. QED
    BY <1>5, <2>1
<1>7. /\ active' \in Selections' \union {NoSelection}
      /\ credited' \in Selections' \union {NoSelection}
  BY <1>2, <1>5 DEF Sane, TypeOK, skillVars, episodeVars
<1>8. TypeOK'
  BY <1>2, <1>4, <1>5, <1>6, <1>7
  DEF Sane, TypeOK, skillVars, episodeVars, receiptVars, histVars
<1>9. QED
  BY <1>3, <1>8 DEF Sane

(* A tick that acts on a selection, or on none.                            *)
LEMMA EmitsSane ==
  ASSUME Sane, NEW sel \in Selected, Emits(sel) PROVE Sane'
<1>1. sel \in Selections /\ proposals \in Seq(Selections)
      /\ issued \in Seq(Nat) /\ Len(issued) = Len(proposals) /\ episode \in Nat
      /\ machines \in [AllSlots -> MachineStates]
  BY SelectedAreSelections DEF Sane, TypeOK
<1>2. /\ proposals' = Append(proposals, sel) /\ issued' = Append(issued, episode)
      /\ active' = sel /\ machines' = machines /\ Len(proposals) < MaxReceipts
  BY DEF Emits
<1>3. /\ proposals' \in Seq(Selections) /\ Len(proposals') = Len(proposals) + 1
      /\ issued' \in Seq(Nat) /\ Len(issued') = Len(proposals')
      /\ Len(proposals) \in Nat
  BY <1>1, <1>2
<1>4. Len(proposals') <= MaxReceipts
  BY <1>2, <1>3, RouterAssumption
<1>. DEFINE opened == {Len(proposals')}
<1>5. opened \subseteq Issued' /\ Issued \subseteq Issued' /\ Close(opened)
  BY <1>3 DEF Issued, Emits
<1>. HIDE DEF opened
<1>6. QED
  BY <1>1, <1>2, <1>3, <1>4, <1>5, CloseSane

LEMMA SilentSane ==
  ASSUME Sane, Silent,
         active' \in Selections \union {NoSelection},
         machines' \in [AllSlots -> MachineStates]
  PROVE  Sane'
<1>1. Close({}) /\ proposals' = proposals /\ issued' = issued
  BY DEF Silent
<1>2. /\ proposals' \in Seq(Selections) /\ Len(proposals') <= MaxReceipts
      /\ issued' \in Seq(Nat) /\ Len(issued') = Len(proposals')
      /\ Issued' = Issued
  BY <1>1 DEF Sane, TypeOK, Issued
<1>3. QED
  BY <1>1, <1>2, CloseSane

LEMMA ActingSane ==
  ASSUME Sane, NEW sel \in Selected,
         \/ MachineRaises(sel) \/ Halts(sel)
         \/ \E status \in {"ready", "exhausted"} : Waits(sel, status)
  PROVE  Sane'
<1>1. sel \in Selections /\ machines \in [AllSlots -> MachineStates]
  BY SelectedAreSelections DEF Sane, TypeOK
<1>2. CASE MachineRaises(sel)
  BY <1>1, <1>2, RaiseSane DEF MachineRaises
<1>3. CASE Halts(sel)
  <2>1. machines' \in [AllSlots -> MachineStates]
    BY <1>1, <1>3 DEF Halts, MachineStates
  <2>2. active' = NoSelection /\ Silent
    BY <1>3 DEF Halts, Kept
  <2>3. QED
    BY <2>1, <2>2, SilentSane
<1>4. ASSUME NEW status \in {"ready", "exhausted"}, Waits(sel, status)
      PROVE  Sane'
  <2>1. machines' \in [AllSlots -> MachineStates]
    BY <1>1, <1>4 DEF Waits, MachineStates
  <2>2. active' = sel /\ Silent
    BY <1>4 DEF Waits, Kept
  <2>3. QED
    BY <1>1, <2>1, <2>2, SilentSane
<1>5. QED
  BY <1>2, <1>3, <1>4

LEMMA RaisedSane ==
  ASSUME Sane, Raise, UNCHANGED skillVars PROVE Sane'
BY RaiseSane DEF Sane, TypeOK, skillVars

LEMMA StutterSane == ASSUME Sane, UNCHANGED vars PROVE Sane'
<1>1. UNCHANGED <<bankVars, log>>
  BY DEF vars
<1>2. /\ slots' \subseteq AllSlots
      /\ ledgers' \in [Contexts -> Ledgers(slots')]
      /\ log' \in [Contexts -> [AllSlots -> Seq(Entries)]]
      /\ \A c \in Contexts : LedgerSound(ledgers'[c], log'[c])
      /\ \A c \in Contexts : Unused(log[c])'
      /\ Selections' = Selections
  BY <1>1, LedgersKept
<1>3. TypeOK'
  BY <1>2 DEF Sane, TypeOK, vars, skillVars, episodeVars, receiptVars,
     histVars, Issued, Entries
<1>4. QED
  BY <1>2, <1>3 DEF Sane

LEMMA StepSane == Sane /\ [Next]_vars => Sane'
<1>1. SUFFICES ASSUME Sane, [Next]_vars PROVE Sane'
  OBVIOUS
<1>2. ASSUME NEW r \in Receipts, RouteChangedRaises(r) PROVE Sane'
  BY <1>1, <1>2, RaisedSane DEF RouteChangedRaises
<1>3. ASSUME NEW r \in Receipts, NEW v \in Rewards, CreditPerOutcome(r, v)
      PROVE  Sane'
  BY <1>1, <1>3, CreditPerOutcomeSane
<1>4. ASSUME NEW r \in Receipts, NEW v \in Rewards, PerOutcomeRaises(r, v)
      PROVE  Sane'
  BY <1>1, <1>4, RaisedSane DEF PerOutcomeRaises
<1>5. ASSUME NEW r \in Receipts, NEW v \in Rewards, CollectReward(r, v)
      PROVE  Sane'
  BY <1>1, <1>5, CollectRewardSane
<1>6. CASE NothingToDo
  BY <1>1, <1>6, SilentSane DEF NothingToDo, Sane, TypeOK, skillVars
<1>7. CASE SelectRaises
  BY <1>1, <1>7, RaisedSane DEF SelectRaises
<1>8. ASSUME NEW sel \in Selected, Emits(sel) PROVE Sane'
  BY <1>1, <1>8, EmitsSane
<1>9. ASSUME NEW sel \in Selected,
             \/ MachineRaises(sel) \/ Halts(sel)
             \/ \E status \in {"ready", "exhausted"} : Waits(sel, status)
      PROVE  Sane'
  BY <1>1, <1>9, ActingSane
<1>10. CASE FinishEpisode
  <2>1. Commit /\ feedback' = feedback /\ UNCHANGED receiptVars /\ cut' = cut
        /\ UNCHANGED skillVars /\ taken' = taken /\ episode' = episode
        /\ credits' = credits
    BY <1>10 DEF FinishEpisode, histVars
  <2>2. QED
    BY <1>1, <2>1, CommitSane DEF Sane, TypeOK, skillVars
<1>11. CASE Reset
  <2>1. Commit /\ feedback' = feedback /\ UNCHANGED receiptVars /\ cut' = cut
        /\ taken' = taken /\ episode' = episode + 1 /\ credits' = credits
        /\ active' = NoSelection /\ machines' = [s \in AllSlots |-> "ready"]
    BY <1>11 DEF Reset
  <2>2. episode' \in Nat /\ machines' \in [AllSlots -> MachineStates]
    BY <1>1, <2>1 DEF Sane, TypeOK, MachineStates
  <2>3. QED
    BY <1>1, <2>1, <2>2, CommitSane
<1>12. CASE Grow
  BY <1>1, <1>12, GrowSane
<1>13. CASE UNCHANGED vars
  BY <1>1, <1>13, StutterSane
<1>14. QED
  BY <1>1, <1>2, <1>3, <1>4, <1>5, <1>6, <1>7, <1>8, <1>9, <1>10, <1>11, <1>12,
     <1>13 DEF Next

LEMMA AlwaysSane == Spec => []Sane
BY InitSane, StepSane, PTL DEF Spec

(* Every variable keeps its type: what is active, credited or proposed is  *)
(* a slot that the bank has, in a known context, and the ledgers have a row*)
(* for exactly the slots of the bank.                                      *)
THEOREM Typed == Spec => []TypeOK
BY AlwaysSane, PTL DEF Sane

LEMMA SaneProtection == Sane => ProtectionIsMastery
<1>1. SUFFICES ASSUME Sane, NEW c \in Contexts
               PROVE  /\ \A s \in slots :
                           ledgers[c].rows[s].protected
                             <=> \E at \in DOMAIN log[c][s] :
                                   MasteredAt(log[c][s], at)
                      /\ ledgers[c].preferred # NoSlot
                           => ledgers[c].rows[ledgers[c].preferred].protected
  BY DEF ProtectionIsMastery
<1>2. LedgerSound(ledgers[c], log[c]) /\ Slots(ledgers[c]) = slots
  BY <1>1, SaneRoute DEF Ledgers, Slots
<1>3. QED
  BY <1>2 DEF LedgerSound, Sound, Mastered

(* In every context a slot is protected exactly when the outcomes it had   *)
(* there, since it was new or last reversed, mastered it: the counters of  *)
(* PersistentOpaqueRouteEvidence decide it as the whole history would.     *)
THEOREM Protection == Spec => []ProtectionIsMastery
BY AlwaysSane, SaneProtection, PTL

-----------------------------------------------------------------------------
(* Who acts in an episode *)

(* A skill that acted in this episode is still the selection it was then,  *)
(* or it halted; and a slot acts for one context in an episode.            *)
Acting ==
  /\ \A i \in Issued : issued[i] <= episode
  /\ \A i, j \in Issued : i < j => issued[i] <= issued[j]
  /\ \A i \in Issued : issued[i] = episode =>
       proposals[i] = active \/ machines[proposals[i].slot] = "halted"
  /\ \A i, j \in Issued :
       issued[i] = issued[j] /\ proposals[i].slot = proposals[j].slot
         => proposals[i] = proposals[j]
  /\ SkillChangesOnlyAfterHalt

LEMMA ActingKept ==
  ASSUME Acting, UNCHANGED <<proposals, issued, episode>>,
         \A i \in Issued : issued[i] = episode =>
           proposals[i] = active' \/ machines'[proposals[i].slot] = "halted",
         \A s \in AllSlots : machines[s] = "halted" => machines'[s] = "halted",
         Sane
  PROVE  Acting'
<1>1. \A i \in Issued : proposals[i].slot \in AllSlots
  BY ProposalIsSelection DEF Selections, Sane, TypeOK
<1>2. SkillChangesOnlyAfterHalt'
  BY <1>1 DEF Acting, SkillChangesOnlyAfterHalt, Issued
<1>3. QED
  BY <1>2 DEF Acting, Issued

(* The tick's selection is the active one, or none was active and every    *)
(* skill that acted in this episode has halted.                            *)
LEMMA SelectedActs ==
  ASSUME Sane, Acting, NEW sel \in Selected, NEW i \in Issued,
         issued[i] = episode
  PROVE  proposals[i] = sel \/ machines[proposals[i].slot] = "halted"
<1>1. CASE active # NoSelection
  BY <1>1 DEF Acting, Selected
<1>2. CASE active = NoSelection
  BY <1>2, ProposalIsSelection, NotNone DEF Acting
<1>3. QED
  BY <1>1, <1>2

LEMMA EmitsActing ==
  ASSUME Sane, Acting, NEW sel \in Selected, Emits(sel) PROVE Acting'
<1>. DEFINE n == Len(proposals) + 1
<1>1. /\ sel \in Selections /\ proposals \in Seq(Selections)
      /\ issued \in Seq(Nat) /\ Len(issued) = Len(proposals) /\ episode \in Nat
  BY SelectedAreSelections DEF Sane, TypeOK
<1>2. /\ proposals' = Append(proposals, sel) /\ issued' = Append(issued, episode)
      /\ active' = sel /\ machines' = machines /\ episode' = episode
      /\ machines[sel.slot] = "ready"
  BY DEF Emits, Close, Status
<1>3. /\ Issued = 1 .. n - 1 /\ Issued' = 1 .. n /\ n \in Nat \ {0}
      /\ \A i \in Issued : proposals'[i] = proposals[i] /\ issued'[i] = issued[i]
      /\ proposals'[n] = sel /\ issued'[n] = episode
  BY <1>1, <1>2 DEF Issued
<1>3a. /\ \A i \in Issued' : i \in Int /\ (i \in Issued \/ i = n) /\ i <= n
       /\ \A i \in Issued : i \in Int /\ i < n /\ i \in Issued'
  BY <1>3
<1>4. \A i \in Issued : issued[i] = episode =>
        proposals[i] = sel \/ machines[proposals[i].slot] = "halted"
  BY SelectedActs
<1>. HIDE DEF n
<1>5. \A i \in Issued : issued[i] \in Nat /\ issued[i] <= episode
  BY <1>1 DEF Acting, Issued
<1>6. \A i \in Issued' : issued'[i] <= episode'
  <2>1. TAKE i \in Issued'
  <2>2. CASE i = n
    <3>1. issued'[i] = episode /\ episode' = episode
      BY <1>2, <1>3, <2>2
    <3>2. episode \in Nat
      BY <1>1
    <3>3. QED
      BY <3>1, <3>2
  <2>3. CASE i # n
    BY <1>2, <1>3, <1>3a, <1>5, <2>3
  <2>4. QED
    BY <2>2, <2>3
<1>7. \A i, j \in Issued' : i < j => issued'[i] <= issued'[j]
  <2>1. SUFFICES ASSUME NEW i \in Issued', NEW j \in Issued', i < j
                 PROVE  issued'[i] <= issued'[j]
    OBVIOUS
  <2>2. i \in Issued
    BY <1>3, <1>3a, <2>1
  <2>3. CASE j = n
    BY <1>3, <1>5, <2>2, <2>3
  <2>4. CASE j # n
    BY <1>3, <1>3a, <2>1, <2>2, <2>4 DEF Acting
  <2>5. QED
    BY <2>3, <2>4
<1>8. \A i \in Issued' : issued'[i] = episode' =>
        proposals'[i] = active' \/ machines'[proposals'[i].slot] = "halted"
  BY <1>2, <1>3, <1>3a, <1>4
<1>9. ASSUME NEW i \in Issued, issued[i] = episode, proposals[i].slot = sel.slot
      PROVE  proposals[i] = sel
  BY <1>2, <1>4, <1>9
<1>10. \A i, j \in Issued' :
         issued'[i] = issued'[j] /\ proposals'[i].slot = proposals'[j].slot
           => proposals'[i] = proposals'[j]
  <2>1. TAKE i, j \in Issued'
  <2>2. CASE i \in Issued /\ j \in Issued
    BY <1>3, <2>2 DEF Acting
  <2>3. CASE i = n \/ j = n
    BY <1>3, <1>9, <2>3
  <2>4. QED
    BY <1>3, <2>2, <2>3
<1>11. SkillChangesOnlyAfterHalt'
  <2>1. SUFFICES ASSUME NEW i \in Issued', NEW j \in Issued',
                        issued'[i] = episode', issued'[j] = episode', i < j,
                        proposals'[i].slot # proposals'[j].slot
                 PROVE  /\ machines'[proposals'[i].slot] = "halted"
                        /\ \A k \in Issued' : k > j =>
                             proposals'[k].slot # proposals'[i].slot
    BY DEF SkillChangesOnlyAfterHalt
  <2>2. i \in Issued /\ issued[i] = episode /\ proposals'[i] = proposals[i]
    <3>1. i \in Issued
      BY <1>3, <1>3a, <2>1
    <3>2. QED
      BY <1>2, <1>3, <2>1, <3>1
  <2>3. machines[proposals[i].slot] = "halted"
    <3>1. CASE j = n
      BY <1>3, <1>4, <2>1, <2>2, <3>1
    <3>2. CASE j # n
      <4>1. j \in Issued /\ issued[j] = episode /\ proposals'[j] = proposals[j]
        BY <1>2, <1>3, <1>3a, <2>1, <3>2
      <4>2. QED
        BY <2>1, <2>2, <4>1 DEF Acting, SkillChangesOnlyAfterHalt
    <3>3. QED
      BY <3>1, <3>2
  <2>4. ASSUME NEW k \in Issued', k > j
        PROVE  proposals'[k].slot # proposals[i].slot
    <3>1. CASE k = n
      BY <1>2, <1>3, <2>3, <3>1
    <3>2. CASE k # n
      <4>1. k \in Issued /\ proposals'[k] = proposals[k]
        BY <1>3, <1>3a, <3>2
      <4>2. j \in Issued
        BY <1>3, <1>3a, <2>1, <2>4, <3>2
      <4>3. issued[j] = episode /\ proposals'[j] = proposals[j]
        BY <1>2, <1>3, <2>1, <4>2
      <4>4. QED
        BY <2>1, <2>2, <2>4, <4>1, <4>2, <4>3 DEF Acting, SkillChangesOnlyAfterHalt
    <3>3. QED
      BY <3>1, <3>2
  <2>5. QED
    BY <1>2, <2>2, <2>3, <2>4
<1>12. QED
  BY <1>6, <1>7, <1>8, <1>10, <1>11 DEF Acting

LEMMA QuietActing ==
  ASSUME Sane, Acting, NEW sel \in Selected,
         \/ MachineRaises(sel) \/ Halts(sel)
         \/ \E status \in {"ready", "exhausted"} : Waits(sel, status)
  PROVE  Acting'
<1>1. \A i \in Issued : issued[i] = episode =>
        proposals[i] = sel \/ machines[proposals[i].slot] = "halted"
  BY SelectedActs
<1>2. /\ sel \in Selections /\ machines \in [AllSlots -> MachineStates]
      /\ sel.slot \in AllSlots
      /\ \A i \in Issued : proposals[i].slot \in AllSlots
  BY SelectedAreSelections, ProposalIsSelection DEF Sane, TypeOK, Selections
<1>3. CASE MachineRaises(sel)
  <2>1. active' = sel /\ machines' = machines
        /\ UNCHANGED <<proposals, issued, episode>>
    BY <1>3 DEF MachineRaises, Raise, receiptVars
  <2>2. QED
    BY <1>1, <2>1, ActingKept
<1>4. CASE Halts(sel)
  <2>1. machines' = [machines EXCEPT ![sel.slot] = "halted"]
        /\ UNCHANGED <<proposals, issued, episode>>
    BY <1>4 DEF Halts, Silent, Close
  <2>2. /\ \A s \in AllSlots : machines[s] = "halted" => machines'[s] = "halted"
        /\ machines'[sel.slot] = "halted"
    BY <1>2, <2>1
  <2>3. \A i \in Issued : issued[i] = episode =>
          proposals[i] = active' \/ machines'[proposals[i].slot] = "halted"
    BY <1>1, <1>2, <2>2
  <2>4. QED
    BY <2>1, <2>2, <2>3, ActingKept
<1>5. ASSUME NEW status \in {"ready", "exhausted"}, Waits(sel, status)
      PROVE  Acting'
  <2>1. /\ machines' = [machines EXCEPT ![sel.slot] = status] /\ active' = sel
        /\ UNCHANGED <<proposals, issued, episode>>
        /\ machines[sel.slot] = "ready"
    BY <1>5 DEF Waits, Silent, Close, Kept, Status
  <2>2. \A s \in AllSlots : machines[s] = "halted" => machines'[s] = "halted"
    BY <1>2, <2>1
  <2>3. \A i \in Issued : issued[i] = episode =>
          proposals[i] = active' \/ machines'[proposals[i].slot] = "halted"
    BY <1>1, <1>2, <2>1, <2>2
  <2>4. QED
    BY <2>1, <2>2, <2>3, ActingKept
<1>6. QED
  BY <1>3, <1>4, <1>5

LEMMA ResetActing == ASSUME Sane, Acting, Reset PROVE Acting'
<1>1. /\ proposals' = proposals /\ issued' = issued /\ episode' = episode + 1
      /\ Issued' = Issued /\ episode \in Nat
  BY DEF Reset, receiptVars, Issued, Sane, TypeOK
<1>2. \A i \in Issued : issued[i] \in Nat /\ issued[i] <= episode
  BY DEF Acting, Sane, TypeOK, Issued
<1>3. \A i \in Issued : issued'[i] < episode' /\ issued'[i] # episode'
  BY <1>1, <1>2
<1>4. \A i \in Issued : issued'[i] <= episode'
  BY <1>1, <1>2
<1>5. SkillChangesOnlyAfterHalt'
  BY <1>1, <1>3 DEF SkillChangesOnlyAfterHalt
<1>6. QED
  BY <1>1, <1>3, <1>4, <1>5 DEF Acting

(* The steps that end no tick with an action, and those between ticks.     *)
LEMMA OtherStepsOutsideActing ==
  ASSUME \/ \E r \in Receipts : RouteChangedRaises(r)
         \/ \E r \in Receipts, v \in Rewards :
              CreditPerOutcome(r, v) \/ PerOutcomeRaises(r, v)
              \/ CollectReward(r, v)
         \/ NothingToDo \/ SelectRaises \/ FinishEpisode \/ Grow
         \/ UNCHANGED vars
  PROVE  UNCHANGED <<proposals, issued, episode, machines, active>>
BY DEF RouteChangedRaises, CreditPerOutcome, PerOutcomeRaises, CollectReward,
   NothingToDo, SelectRaises, FinishEpisode, Grow, Raise, Credit, Silent, Close,
   vars, skillVars, receiptVars, histVars

LEMMA StepActing == Sane /\ Acting /\ [Next]_vars => Acting'
<1>1. SUFFICES ASSUME Sane, Acting, [Next]_vars PROVE Acting'
  OBVIOUS
<1>2. ASSUME NEW sel \in Selected, Emits(sel) PROVE Acting'
  BY <1>1, <1>2, EmitsActing
<1>3. ASSUME NEW sel \in Selected,
             \/ MachineRaises(sel) \/ Halts(sel)
             \/ \E status \in {"ready", "exhausted"} : Waits(sel, status)
      PROVE  Acting'
  BY <1>1, <1>3, QuietActing
<1>4. CASE Reset
  BY <1>1, <1>4, ResetActing
<1>5. CASE UNCHANGED <<proposals, issued, episode, machines, active>>
  <2>1. \A i \in Issued : issued[i] = episode =>
          proposals[i] = active' \/ machines'[proposals[i].slot] = "halted"
    BY <1>1, <1>5 DEF Acting
  <2>2. QED
    BY <1>1, <1>5, <2>1, ActingKept
<1>6. QED
  BY <1>1, <1>2, <1>3, <1>4, <1>5, OtherStepsOutsideActing DEF Next

LEMMA InitActing == Init => Acting
<1>1. Init => Issued = {}
  BY DEF Init, Issued
<1>2. QED
  BY <1>1 DEF Acting, SkillChangesOnlyAfterHalt

LEMMA AlwaysActing == Spec => []Acting
BY AlwaysSane, InitActing, StepActing, PTL DEF Spec

(* Within an episode the acting skill changes only after its program has   *)
(* halted, and a skill that was replaced does not act again in it.         *)
THEOREM OneSkillAtATime == Spec => []SkillChangesOnlyAfterHalt
BY AlwaysActing, PTL DEF Acting

-----------------------------------------------------------------------------
(* Who is credited *)

(* The rewards kept for the episode's mean are of the skill it will credit.*)
Earning ==
  /\ credited = NoSelection => earners = {}
  /\ \A r \in earners : proposals[r].slot = credited.slot

LEMMA EarningKept ==
  ASSUME Sane, Earning, UNCHANGED <<credited, earners>>,
         \A r \in Issued : proposals'[r] = proposals[r]
  PROVE  Earning'
BY DEF Earning, Sane, TypeOK

LEMMA StepEarning == Sane /\ Earning /\ [Next]_vars => Earning'
<1>1. SUFFICES ASSUME Sane, Earning, [Next]_vars PROVE Earning'
  OBVIOUS
<1>2. ASSUME NEW r \in Receipts, NEW v \in Rewards, CollectReward(r, v)
      PROVE  Earning'
  <2>1. Due(r) /\ Credit(r) /\ SameRoute(proposals[r])
        /\ earners' = earners \union {r}
        /\ credited' = IF credited = NoSelection THEN proposals[r] ELSE credited
    BY <1>2 DEF CollectReward
  <2>2. proposals[r] \in Selections /\ proposals' = proposals
    BY <1>1, <2>1, CreditTypes DEF receiptVars
  <2>3. credited' # NoSelection
    BY <1>1, <2>1, <2>2, NotNone
  <2>4. QED
    BY <1>1, <2>1, <2>2, <2>3 DEF Earning, SameRoute
<1>3. CASE FinishEpisode \/ Reset
  BY <1>3 DEF FinishEpisode, Reset, Commit, ForgetEpisode, Earning
<1>4. ASSUME NEW sel \in Selected, Emits(sel) PROVE Earning'
  <2>1. proposals' = Append(proposals, sel) /\ UNCHANGED <<credited, earners>>
    BY <1>4 DEF Emits, Close, episodeVars
  <2>2. sel \in Selections /\ proposals \in Seq(Selections)
    BY <1>1, SelectedAreSelections DEF Sane, TypeOK
  <2>3. \A r \in Issued : proposals'[r] = proposals[r]
    BY <2>1, <2>2 DEF Issued
  <2>4. QED
    BY <1>1, <2>1, <2>3, EarningKept
<1>5. CASE UNCHANGED <<credited, earners, proposals>>
  BY <1>1, <1>5, EarningKept
<1>6. ASSUME \/ \E r \in Receipts : RouteChangedRaises(r)
             \/ \E r \in Receipts, v \in Rewards :
                  CreditPerOutcome(r, v) \/ PerOutcomeRaises(r, v)
             \/ NothingToDo \/ SelectRaises \/ Grow \/ UNCHANGED vars
             \/ \E sel \in Selected :
                  \/ MachineRaises(sel) \/ Halts(sel)
                  \/ \E status \in {"ready", "exhausted"} : Waits(sel, status)
      PROVE  UNCHANGED <<credited, earners, proposals>>
  BY <1>6 DEF RouteChangedRaises, CreditPerOutcome, PerOutcomeRaises,
     NothingToDo, SelectRaises, Grow, MachineRaises, Halts, Waits,
     Raise, Credit, Silent, Close, vars, episodeVars, receiptVars
<1>7. QED
  BY <1>1, <1>2, <1>3, <1>4, <1>5, <1>6 DEF Next

LEMMA AlwaysEarning == Spec => []Earning
<1>1. Init => Earning
  BY DEF Init, Earning
<1>2. QED
  BY <1>1, AlwaysSane, StepEarning, PTL DEF Spec

LEMMA EarnersAlike == Sane /\ Acting /\ Earning => MeanIsTheSelections
BY DEF Sane, TypeOK, Acting, Earning, MeanIsTheSelections

(* The rewards of an episode's mean were earned by the one skill it will   *)
(* credit, and those of one episode in one context.                        *)
THEOREM MeanOfOneSkill == Spec => []MeanIsTheSelections
BY AlwaysSane, AlwaysActing, AlwaysEarning, EarnersAlike, PTL

-----------------------------------------------------------------------------
(* How often an outcome is credited *)

Crediting ==
  \A r \in Receipts :
    /\ r \in taken => credits[r] > 0
    /\ credits[r] > 0 => r \in taken \/ r \in cut
    /\ credits[r] > 1 => r \in cut

LEMMA CreditKeeps ==
  ASSUME Sane, Crediting, NEW r \in Receipts, Due(r), Credit(r)
  PROVE  Crediting'
<1>1. /\ r \notin taken /\ taken' = taken \union {r} /\ cut' = cut
      /\ credits \in [Receipts -> Nat]
      /\ credits' = [credits EXCEPT ![r] = @ + 1]
  BY DEF Due, Credit, Sane, TypeOK
<1>2. ASSUME NEW q \in Receipts
      PROVE  /\ q \in taken' => credits'[q] > 0
             /\ credits'[q] > 0 => q \in taken' \/ q \in cut'
             /\ credits'[q] > 1 => q \in cut'
  <2>1. CASE q = r
    <3>1. credits'[r] = credits[r] + 1 /\ credits[r] \in Nat
      BY <1>1
    <3>2. credits[r] > 0 => r \in cut
      BY <1>1 DEF Crediting
    <3>3. QED
      BY <1>1, <2>1, <3>1, <3>2
  <2>2. CASE q # r
    BY <1>1, <2>2 DEF Crediting
  <2>3. QED
    BY <2>1, <2>2
<1>3. QED
  BY <1>2 DEF Crediting

LEMMA CloseKeeps ==
  ASSUME Sane, Crediting, NEW opened, Close(opened)
  PROVE  Crediting'
<1>1. /\ taken' = {} /\ cut' = cut \intersect StillPending
      /\ \A r \in Receipts :
           credits'[r] = IF r \in StillPending THEN credits[r] ELSE 0
  BY DEF Close
<1>2. \A r \in StillPending : r \notin taken
  BY DEF StillPending
<1>3. QED
  BY <1>1, <1>2 DEF Crediting

LEMMA StepCrediting == Sane /\ Crediting /\ [Next]_vars => Crediting'
<1>1. SUFFICES ASSUME Sane, Crediting, [Next]_vars PROVE Crediting'
  OBVIOUS
<1>2. ASSUME NEW r \in Receipts, NEW v \in Rewards,
             CreditPerOutcome(r, v) \/ CollectReward(r, v)
      PROVE  Crediting'
  BY <1>1, <1>2, CreditKeeps DEF CreditPerOutcome, CollectReward
<1>3. CASE Raise
  BY <1>1, <1>3 DEF Raise, Crediting
<1>5. CASE UNCHANGED <<taken, credits, cut>>
  BY <1>1, <1>5 DEF Crediting
<1>6. ASSUME NEW sel \in Selected, Emits(sel) PROVE Crediting'
  BY <1>1, <1>6, CloseKeeps DEF Emits
<1>7. CASE Silent
  BY <1>1, <1>7, CloseKeeps DEF Silent
<1>8. ASSUME \/ \E r \in Receipts : RouteChangedRaises(r)
             \/ \E r \in Receipts, v \in Rewards : PerOutcomeRaises(r, v)
             \/ SelectRaises
             \/ \E sel \in Selected : MachineRaises(sel)
      PROVE  Raise
  BY <1>8 DEF RouteChangedRaises, PerOutcomeRaises, SelectRaises, MachineRaises
<1>9. ASSUME \/ NothingToDo
             \/ \E sel \in Selected :
                  \/ Halts(sel)
                  \/ \E status \in {"ready", "exhausted"} : Waits(sel, status)
      PROVE  Silent
  BY <1>9 DEF NothingToDo, Halts, Waits
<1>10. ASSUME FinishEpisode \/ Reset \/ Grow \/ UNCHANGED vars
       PROVE  UNCHANGED <<taken, credits, cut>>
  BY <1>10 DEF FinishEpisode, Reset, Grow, vars, histVars
<1>11. QED
  BY <1>1, <1>2, <1>3, <1>5, <1>6, <1>7, <1>8, <1>9, <1>10 DEF Next

LEMMA AlwaysCrediting == Spec => []Crediting
<1>1. Init => Crediting
  BY DEF Init, Crediting
<1>2. QED
  BY <1>1, AlwaysSane, StepCrediting, PTL DEF Spec

LEMMA CreditingOfIssued == Sane /\ Crediting => CreditedOnce
<1>1. Sane => Issued \subseteq Receipts
  BY RouterAssumption DEF Sane, TypeOK, Issued, Receipts
<1>2. QED
  BY <1>1 DEF Crediting, CreditedOnce

(* An outcome a tick goes through is credited, and a second time only after*)
(* a tick that had it raised and left its receipt open.                    *)
THEOREM OnceUnlessCut == Spec => []CreditedOnce
BY AlwaysSane, AlwaysCrediting, CreditingOfIssued, PTL
=============================================================================
