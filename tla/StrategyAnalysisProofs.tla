------------------------- MODULE StrategyAnalysisProofs -------------------------
(* Lemmas about the operators of Indicators and StrategyAnalysis, for every    *)
(* market: what aggregation makes of a gap free range of minutes, what two     *)
(* markets that agree up to a bar have in common, when a result of the nine    *)
(* gates was known, and what later minutes can still change.                   *)
EXTENDS StrategyAnalysis, WellFoundedInduction, TLAPS

\* A set of naturals has a least element, and Min is it.
LEMMA MinOfNaturals ==
  ASSUME NEW S \in SUBSET Nat, S # {}
  PROVE  Min(S) \in S /\ \A y \in S : Min(S) <= y
<1>1. PICK x \in S : \A y \in S : ~ (<<y, x>> \in OpToRel(<, Nat))
  BY NatLessThanWellFounded, WFMin
<1>2. \A y \in S : ~ (y < x)
  BY <1>1 DEF OpToRel
<1>3. \A y \in S : x <= y
  BY <1>2
<1>4. QED
  BY <1>3 DEF Min

\* A bounded set of naturals has a greatest element, and Max is it.
LEMMA MaxOfBounded ==
  ASSUME NEW S \in SUBSET Nat, S # {}, NEW b \in Nat, \A y \in S : y <= b
  PROVE  Max(S) \in S /\ \A y \in S : Max(S) >= y
<1> DEFINE T == {b - y : y \in S}
<1>1. T \in SUBSET Nat /\ T # {}
  OBVIOUS
<1>2. PICK y \in S : b - y = Min(T)
  BY <1>1, MinOfNaturals
<1>3. \A z \in S : b - y <= b - z
  BY <1>1, <1>2, MinOfNaturals
<1>4. \A z \in S : z <= y
  BY <1>3
<1> QED
  BY <1>4 DEF Max

\* Whole groups of a gap free range of minutes.
FirstWhole(a, size) == (a + size - 1) \div size
EndWhole(b, size) == (b + 1) \div size
WholeBar(rows, size, group) == Aggregate(rows, group * size, group * size + size - 1)
WholeBars(rows, size, first, end) ==
  [i \in 1..(end - first) |-> WholeBar(rows, size, first + i - 1)]

\* A group of minutes is inside a range when it is one of the whole groups.
LEMMA GroupIsWhole ==
  ASSUME NEW a \in Nat, NEW b \in Nat, NEW size \in Nat \ {0}, NEW g \in Nat
  PROVE  (g * size)..(g * size + size - 1) \subseteq a..b
           <=> FirstWhole(a, size) <= g /\ g < EndWhole(b, size)
<1>1. a <= g * size <=> FirstWhole(a, size) <= g
  <2> DEFINE q == (a + size - 1) \div size
  <2>1. q \in Nat /\ q * size <= a + size - 1 /\ a + size - 1 < q * size + size
    OBVIOUS
  <2>2. ASSUME q <= g PROVE a <= g * size
    <3>1. q * size <= g * size
      BY <2>1, <2>2
    <3> QED BY <3>1, <2>1
  <2>3. ASSUME g < q PROVE g * size < a
    <3>1. g * size + size <= q * size
      BY <2>1, <2>3
    <3> QED BY <3>1, <2>1
  <2> QED BY <2>1, <2>2, <2>3 DEF FirstWhole
<1>2. g * size + size - 1 <= b <=> g < EndWhole(b, size)
  <2> DEFINE q == (b + 1) \div size
  <2>1. q \in Nat /\ q * size <= b + 1 /\ b + 1 < q * size + size
    OBVIOUS
  <2>2. ASSUME g < q PROVE g * size + size <= b + 1
    <3>1. g * size + size <= q * size
      BY <2>1, <2>2
    <3> QED BY <3>1, <2>1
  <2>3. ASSUME q <= g PROVE b + 1 < g * size + size
    <3>1. q * size <= g * size
      BY <2>1, <2>3
    <3> QED BY <3>1, <2>1
  <2> QED BY <2>1, <2>2, <2>3 DEF EndWhole
<1>3. (g * size)..(g * size + size - 1) \subseteq a..b <=> a <= g * size /\ g * size + size - 1 <= b
  <2>1. g * size \in Nat /\ g * size <= g * size + size - 1
    OBVIOUS
  <2> QED BY <2>1
<1> QED BY <1>1, <1>2, <1>3

\* Aggregating a gap free range of minutes gives a bar for each of its whole
\* groups, and no other.
LEMMA ResampleIsWholeBars ==
  ASSUME NEW rows, NEW a \in Nat, NEW b \in Nat, a <= b, DOMAIN rows = a..b,
         NEW size \in Nat \ {0}
  PROVE  Resample(rows, size) = WholeBars(rows, size, FirstWhole(a, size), EndWhole(b, size))
<1> DEFINE p == a \div size
           q == b \div size
           F == FirstWhole(a, size)
           E == EndWhole(b, size)
           n == q - p + 1
           starts == [k \in 1..n |-> (p + k - 1) * size]
           Whole(start) == start..(start + size - 1) \subseteq DOMAIN rows
           Bar(start) == Aggregate(rows, start, start + size - 1)
           Step(f) == [k \in 0..Len(starts) |->
                         IF k = 0 THEN <<>>
                         ELSE IF Whole(starts[k]) THEN Append(f[k - 1], Bar(starts[k])) ELSE f[k - 1]]
           bars == CHOOSE f : f = Step(f)
<1>1. GroupStarts(rows, size) = starts
  <2>1. Min(a..b) = a /\ Max(a..b) = b
    <3>1. a \in a..b /\ b \in a..b /\ \A y \in a..b : a <= y /\ b >= y
      OBVIOUS
    <3> QED
      BY <3>1 DEF Min, Max
  <2>2. a..b # {}
    OBVIOUS
  <2> QED
    BY <2>1, <2>2 DEF GroupStarts
<1>2. Resample(rows, size) = bars[Len(starts)]
  BY <1>1 DEF Resample
<1>3. p \in Nat /\ q \in Nat /\ p <= q /\ F \in Nat /\ E \in Nat /\ n \in Nat \ {0}
  <2>1. p \in Nat /\ q \in Nat /\ F \in Nat /\ E \in Nat
    BY DEF FirstWhole, EndWhole
  <2>2. p * size <= a /\ b < q * size + size
    OBVIOUS
  <2>3. ASSUME q < p PROVE FALSE
    <3>1. q * size + size <= p * size
      BY <2>1, <2>3
    <3> QED BY <2>2, <3>1, <2>1
  <2> QED BY <2>1, <2>3
<1>4. F \in {p, p + 1} /\ E <= q + 1
  <2>1. F \in {p, p + 1}
    BY DEF FirstWhole
  <2>2. E <= q + 1
    BY DEF EndWhole
  <2> QED BY <2>1, <2>2
<1>5. Len(starts) = n
  BY <1>3
<1>6. \A k \in 1..n : starts[k] = (p + k - 1) * size
  OBVIOUS
<1>7. \A k \in 1..n : Whole(starts[k]) <=> F <= p + k - 1 /\ p + k - 1 < E
  <2> SUFFICES ASSUME NEW k \in 1..n
               PROVE  Whole(starts[k]) <=> F <= p + k - 1 /\ p + k - 1 < E
    OBVIOUS
  <2>1. p + k - 1 \in Nat
    BY <1>3
  <2> HIDE DEF p, q, n
  <2> QED
    BY <2>1, GroupIsWhole
<1>8. \A k \in 1..n : Bar(starts[k]) = WholeBar(rows, size, p + k - 1)
  BY DEF WholeBar
<1> DEFINE Upto(k) == IF p + k <= E THEN p + k ELSE E
           g == [k \in 0..n |-> [i \in 1..(Upto(k) - F) |-> WholeBar(rows, size, F + i - 1)]]
<1>9. \A k \in 0..n : /\ Upto(k) \in Int
                      /\ g[k] = [i \in 1..(Upto(k) - F) |-> WholeBar(rows, size, F + i - 1)]
  BY <1>3
<1>10. g[0] = <<>>
  <2>1. 1..(Upto(0) - F) = {}
    BY <1>3, <1>4
  <2>2. g[0] = [i \in 1..(Upto(0) - F) |-> WholeBar(rows, size, F + i - 1)]
    BY <1>9, <1>3
  <2> HIDE DEF g, Upto, F
  <2> QED BY <2>1, <2>2
<1> HIDE DEF p, q, F, E, n, starts, Whole, Bar, g
<1>11. ASSUME NEW k \in 1..n
       PROVE  g[k] = IF Whole(starts[k]) THEN Append(g[k - 1], Bar(starts[k])) ELSE g[k - 1]
  <2>0. k \in 0..n /\ k - 1 \in 0..n
    BY <1>3
  <2>1. CASE Whole(starts[k])
    <3>1. F <= p + k - 1 /\ p + k - 1 < E
      BY <1>7, <2>1
    <3> DEFINE m == p + k - 1 - F
    <3>2. m \in Nat /\ Upto(k) - F = m + 1 /\ Upto(k - 1) - F = m
      BY <3>1, <1>3
    <3>3. Bar(starts[k]) = WholeBar(rows, size, F + (m + 1) - 1)
      BY <1>8, <1>3
    <3>4. /\ g[k] = [i \in 1..(m + 1) |-> WholeBar(rows, size, F + i - 1)]
          /\ g[k - 1] = [i \in 1..m |-> WholeBar(rows, size, F + i - 1)]
      BY <2>0, <3>2, <1>9
    <3> HIDE DEF m
    <3>5. g[k] = Append(g[k - 1], Bar(starts[k]))
      BY <3>3, <3>4, <3>2, <1>3
    <3> QED BY <3>5, <2>1
  <2>2. CASE ~ Whole(starts[k])
    <3>1. ~ (F <= p + k - 1 /\ p + k - 1 < E)
      BY <1>7, <2>2
    <3>2. 1..(Upto(k) - F) = 1..(Upto(k - 1) - F)
      BY <3>1, <1>3, <1>4
    <3> QED BY <3>2, <1>9, <2>0, <2>2
  <2> QED BY <2>1, <2>2
<1>12. g = Step(g)
  <2>1. \A k \in 0..n : k = 0 \/ k \in 1..n
    BY <1>3
  <2>2. g = [k \in 0..n |-> g[k]]
    BY DEF g
  <2> QED BY <2>1, <2>2, <1>10, <1>11, <1>5
<1>13. bars = Step(bars)
  BY <1>12
<1> HIDE DEF bars
<1>14. /\ bars[0] = <<>>
       /\ \A k \in 1..n :
            bars[k] = IF Whole(starts[k]) THEN Append(bars[k - 1], Bar(starts[k])) ELSE bars[k - 1]
  <2>1. /\ Step(bars)[0] = <<>>
        /\ \A k \in 1..n :
             Step(bars)[k] = IF Whole(starts[k]) THEN Append(bars[k - 1], Bar(starts[k]))
                             ELSE bars[k - 1]
    BY <1>5, <1>3
  <2> HIDE DEF Step
  <2> QED BY <2>1, <1>13
<1>15. \A k \in 0..n : bars[k] = g[k]
  <2> DEFINE bad == {k \in 0..n : bars[k] # g[k]}
  <2>1. ASSUME bad # {}
        PROVE  FALSE
    <3>1. Min(bad) \in bad /\ \A y \in bad : Min(bad) <= y
      <4>1. bad \in SUBSET Nat
        BY <1>3
      <4> QED BY <2>1, <4>1, MinOfNaturals
    <3>2. Min(bad) # 0
      BY <3>1, <1>14, <1>10
    <3>3. Min(bad) \in 1..n /\ Min(bad) - 1 \notin bad /\ Min(bad) - 1 \in 0..n
      BY <3>1, <3>2, <1>3
    <3>4. bars[Min(bad) - 1] = g[Min(bad) - 1]
      BY <3>3
    <3> QED
      BY <3>1, <3>3, <3>4, <1>14, <1>11
  <2> QED BY <2>1
<1>16. n \in 0..n /\ 1..(Upto(n) - F) = 1..(E - F)
  BY <1>3, <1>4 DEF n
<1>17. QED
  BY <1>2, <1>5, <1>15, <1>16, <1>9 DEF WholeBars, F, E
--------------------------------------------------------------------------------
(* Bars in the order of time *)

\* Sequences of bars of one time frame, without a gap between them.
Timeline(bars, size) ==
  /\ bars \in Seq({bars[i] : i \in DOMAIN bars})
  /\ \A i \in DOMAIN bars :
       /\ bars[i].close_time \in Nat
       /\ (bars[i].close_time + 1) % size = 0
       /\ bars[i].open_time = bars[i].close_time + 1 - size
  /\ \A i, j \in DOMAIN bars : bars[j].close_time = bars[i].close_time + (j - i) * size

\* Later bars close later.
LEMMA LaterCloses ==
  ASSUME NEW bars, NEW size \in Nat \ {0}, Timeline(bars, size),
         NEW i \in DOMAIN bars, NEW j \in DOMAIN bars
  PROVE  /\ DOMAIN bars = 1..Len(bars) /\ Len(bars) \in Nat
         /\ i < j <=> bars[i].close_time < bars[j].close_time
         /\ i <= j <=> bars[i].close_time <= bars[j].close_time
<1>1. DOMAIN bars = 1..Len(bars) /\ Len(bars) \in Nat
  BY DEF Timeline
<1>2. i \in Nat /\ j \in Nat /\ bars[i].close_time \in Nat /\ bars[j].close_time \in Nat
  <2>1. i \in 1..Len(bars) /\ j \in 1..Len(bars)
    BY <1>1
  <2>2. bars[i].close_time \in Nat /\ bars[j].close_time \in Nat
    BY DEF Timeline
  <2> QED BY <1>1, <2>1, <2>2
<1>3. bars[j].close_time = bars[i].close_time + (j - i) * size
  BY DEF Timeline
<1>4. ASSUME i < j
      PROVE  (j - i) * size > 0
  BY <1>2, <1>4
<1>5. ASSUME j < i
      PROVE  (j - i) * size < 0
  BY <1>2, <1>5
<1>6. i = j => (j - i) * size = 0
  BY <1>2
<1>7. (j - i) * size \in Int
  BY <1>2
<1> HIDE DEF Timeline
<1>8. i < j <=> bars[i].close_time < bars[j].close_time
  <2> DEFINE d == (j - i) * size
  <2>1. d \in Int /\ (i < j => d > 0) /\ (j < i => d < 0) /\ (i = j => d = 0)
        /\ bars[j].close_time = bars[i].close_time + d
    BY <1>3, <1>4, <1>5, <1>6, <1>7
  <2> HIDE DEF d
  <2> QED BY <2>1, <1>2
<1>9. i <= j <=> bars[i].close_time <= bars[j].close_time
  <2> DEFINE d == (j - i) * size
  <2>1. d \in Int /\ (i < j => d > 0) /\ (j < i => d < 0) /\ (i = j => d = 0)
        /\ bars[j].close_time = bars[i].close_time + d
    BY <1>3, <1>4, <1>5, <1>6, <1>7
  <2> HIDE DEF d
  <2> QED BY <2>1, <1>2
<1> QED BY <1>1, <1>8, <1>9

\* The beginning of a sequence of bars.
LEMMA BeginningOf ==
  ASSUME NEW bars, NEW S, bars \in Seq(S), NEW n \in 0..Len(bars)
  PROVE  /\ SubSeq(bars, 1, n) \in Seq(S)
         /\ Len(SubSeq(bars, 1, n)) = n /\ DOMAIN SubSeq(bars, 1, n) = 1..n
         /\ \A i \in 1..n : SubSeq(bars, 1, n)[i] = bars[i]
         /\ SubSeq(bars, 1, Len(bars)) = bars
  OBVIOUS

\* What resample_bars makes of a gap free range is a timeline, and no bar of it
\* closes after the last minute.
LEMMA ResampledTimeline ==
  ASSUME NEW rows, NEW a \in Nat, NEW b \in Nat, a <= b, DOMAIN rows = a..b,
         NEW size \in Nat \ {0}
  PROVE  LET bars == Resample(rows, size)
         IN /\ Timeline(bars, size)
            /\ \A i \in DOMAIN bars : bars[i].close_time <= b /\ bars[i].open_time >= a
<1> DEFINE F == FirstWhole(a, size)
           E == EndWhole(b, size)
           bars == WholeBars(rows, size, F, E)
<1>1. Resample(rows, size) = bars
  BY ResampleIsWholeBars
<1>2. F \in Nat /\ E \in Nat
  BY DEF FirstWhole, EndWhole
<1>3. DOMAIN bars = 1..(E - F) /\ \A i \in 1..(E - F) : bars[i] = WholeBar(rows, size, F + i - 1)
  BY DEF WholeBars
<1> DEFINE n == IF F < E THEN E - F ELSE 0
<1>4. n \in Nat /\ 1..(E - F) = 1..n /\ \A i \in 1..n : F + i - 1 < E
  BY <1>2
<1>5. ASSUME NEW i \in DOMAIN bars
      PROVE  /\ F + i - 1 \in Nat /\ F <= F + i - 1 /\ F + i - 1 < E /\ i \in Nat
             /\ bars[i].close_time = (F + i - 1) * size + size - 1
             /\ bars[i].open_time = (F + i - 1) * size
  <2>1. i \in 1..n /\ bars[i] = WholeBar(rows, size, F + i - 1)
    BY <1>3, <1>4
  <2> HIDE DEF n, bars, F, E
  <2>2. i \in Nat /\ F + i - 1 \in Nat /\ F <= F + i - 1 /\ F + i - 1 < E
    BY <2>1, <1>2, <1>4
  <2> QED BY <2>1, <2>2 DEF WholeBar, Aggregate
<1>6. bars \in Seq({bars[i] : i \in DOMAIN bars})
  <2>1. DOMAIN bars = 1..n /\ bars = [i \in 1..n |-> bars[i]]
    BY <1>3, <1>4 DEF WholeBars
  <2> HIDE DEF n, bars
  <2> QED BY <2>1, <1>4
<1> HIDE DEF F, E, bars, n
<1>7. ASSUME NEW i \in DOMAIN bars
      PROVE  /\ bars[i].close_time \in Nat
             /\ (bars[i].close_time + 1) % size = 0
             /\ bars[i].open_time = bars[i].close_time + 1 - size
             /\ bars[i].close_time <= b /\ bars[i].open_time >= a
  <2> DEFINE g == F + i - 1
  <2>1. /\ g \in Nat /\ F <= g /\ g < E
        /\ bars[i].close_time = g * size + size - 1 /\ bars[i].open_time = g * size
    BY <1>5
  <2> HIDE DEF g
  <2>2. (g * size)..(g * size + size - 1) \subseteq a..b
    BY <2>1, GroupIsWhole DEF F, E
  <2>3. g * size \in Nat
    BY <2>1
  <2>4. g * size >= a /\ g * size + size - 1 <= b
    BY <2>2, <2>3
  <2>5. (g * size + size) % size = 0
    BY <2>1
  <2> QED
    BY <2>1, <2>3, <2>4, <2>5
<1>8. ASSUME NEW i \in DOMAIN bars, NEW j \in DOMAIN bars
      PROVE  bars[j].close_time = bars[i].close_time + (j - i) * size
  <2> DEFINE g == F + i - 1
             h == F + j - 1
  <2>1. g \in Nat /\ h \in Nat /\ j - i = h - g
    <3>1. i \in Nat /\ j \in Nat /\ g \in Nat /\ h \in Nat
      BY <1>5
    <3>2. F \in Nat
      BY <1>2
    <3> QED BY ONLY <3>1, <3>2
  <2>2. bars[j].close_time = h * size + size - 1 /\ bars[i].close_time = g * size + size - 1
    BY <1>5
  <2> HIDE DEF g, h
  <2>3. h * size = g * size + (h - g) * size
    BY <2>1
  <2>4. h * size \in Int /\ g * size \in Int /\ (h - g) * size \in Int
    <3>1. g \in Int /\ h \in Int /\ h - g \in Int
      BY <2>1
    <3>2. size \in Int
      OBVIOUS
    <3> QED BY ONLY <3>1, <3>2
  <2>5. bars[j].close_time = bars[i].close_time + (h - g) * size
    <3>1. size \in Int
      OBVIOUS
    <3> QED BY ONLY <2>2, <2>3, <2>4, <3>1
  <2> QED BY ONLY <2>1, <2>5
<1> QED
  BY <1>1, <1>6, <1>7, <1>8 DEF Timeline

\* The bars closed by a time are a beginning of the sequence.
LEMMA ClosedByIsBeginning ==
  ASSUME NEW bars, NEW size \in Nat \ {0}, Timeline(bars, size), NEW time \in Int
  PROVE  \E n \in 0..Len(bars) :
           /\ ClosedBy(bars, time) = SubSeq(bars, 1, n)
           /\ \A i \in DOMAIN bars : bars[i].close_time <= time <=> i <= n
<1> DEFINE S == {0} \cup {i \in DOMAIN bars : bars[i].close_time <= time}
<1>1. DOMAIN bars = 1..Len(bars) /\ Len(bars) \in Nat
  BY DEF Timeline
<1>2. S \in SUBSET Nat /\ S # {} /\ \A i \in S : i <= Len(bars)
  BY <1>1
<1>3. Max(S) \in S /\ \A i \in S : Max(S) >= i
  BY <1>1, <1>2, MaxOfBounded
<1>4. Max(S) \in 0..Len(bars)
  BY <1>1, <1>2, <1>3
<1>5. ASSUME NEW i \in DOMAIN bars, i <= Max(S)
      PROVE  bars[i].close_time <= time
  <2>1. i \in 1..Len(bars)
    BY <1>1
  <2>2. Max(S) \in DOMAIN bars /\ bars[Max(S)].close_time <= time
    BY <2>1, <1>3, <1>4, <1>5
  <2>3. bars[i].close_time <= bars[Max(S)].close_time
    BY <2>2, <1>5, LaterCloses
  <2>4. bars[i].close_time \in Nat /\ bars[Max(S)].close_time \in Nat
    BY <2>2 DEF Timeline
  <2> QED BY <2>2, <2>3, <2>4
<1>6. ASSUME NEW i \in DOMAIN bars, bars[i].close_time <= time
      PROVE  i <= Max(S)
  BY <1>1, <1>2, <1>3, <1>6
<1> QED
  BY <1>4, <1>5, <1>6 DEF ClosedBy

\* The same, with the number of bars at hand.
LEMMA ClosedByCount ==
  ASSUME NEW bars, NEW size \in Nat \ {0}, Timeline(bars, size), NEW time \in Int,
         NEW n \in 0..Len(bars), \A i \in DOMAIN bars : bars[i].close_time <= time <=> i <= n
  PROVE  ClosedBy(bars, time) = SubSeq(bars, 1, n)
<1>1. PICK k \in 0..Len(bars) :
        /\ ClosedBy(bars, time) = SubSeq(bars, 1, k)
        /\ \A i \in DOMAIN bars : bars[i].close_time <= time <=> i <= k
  BY ClosedByIsBeginning
<1>2. DOMAIN bars = 1..Len(bars) /\ Len(bars) \in Nat
  BY DEF Timeline
<1>3. k = n
  <2>1. \A i \in 1..Len(bars) : i <= k <=> i <= n
    BY <1>1, <1>2
  <2> QED BY <2>1, <1>2
<1> QED BY <1>1, <1>3

--------------------------------------------------------------------------------
(* Less of the market *)

\* The first minutes of a market.
Until(rows, k) == [m \in DOMAIN rows \cap (0..k) |-> rows[m]]

\* Without minutes there are no bars.
LEMMA ResampleOfNothing ==
  ASSUME NEW rows, DOMAIN rows = {}, NEW size
  PROVE  Resample(rows, size) = <<>>
<1> DEFINE Step(f) == [k \in 0..Len(<<>>) |->
                         IF k = 0 THEN <<>>
                         ELSE IF <<>>[k]..(<<>>[k] + size - 1) \subseteq DOMAIN rows
                              THEN Append(f[k - 1], Aggregate(rows, <<>>[k], <<>>[k] + size - 1))
                              ELSE f[k - 1]]
           bars == CHOOSE f : f = Step(f)
<1>1. GroupStarts(rows, size) = <<>>
  BY DEF GroupStarts
<1>2. Resample(rows, size) = bars[Len(<<>>)]
  BY <1>1 DEF Resample
<1>3. Len(<<>>) = 0 /\ 0..0 = {0}
  OBVIOUS
<1>4. \A f : Step(f) = [k \in {0} |-> <<>>]
  BY <1>3
<1> HIDE DEF Step
<1>5. bars = [k \in {0} |-> <<>>]
  BY <1>4
<1> QED BY <1>2, <1>3, <1>5

\* The bars of the first minutes are the bars that are closed by the last of them.
LEMMA ResampleUntil ==
  ASSUME NEW rows, NEW a \in Nat, NEW b \in Nat, a <= b, DOMAIN rows = a..b,
         NEW size \in Nat \ {0}, NEW k \in Int
  PROVE  Resample(Until(rows, k), size) = ClosedBy(Resample(rows, size), k)
<1> DEFINE bars == Resample(rows, size)
<1>1. Timeline(bars, size) /\ \A i \in DOMAIN bars : bars[i].close_time <= b /\ bars[i].open_time >= a
  BY ResampledTimeline
<1>2. DOMAIN bars = 1..Len(bars) /\ Len(bars) \in Nat
  BY <1>1 DEF Timeline
<1>3. \A i \in DOMAIN bars : bars[i].close_time \in Nat /\ bars[i].open_time = bars[i].close_time + 1 - size
  BY <1>1 DEF Timeline
<1>4. CASE k < a
  <2>1. DOMAIN Until(rows, k) = {}
    BY <1>4 DEF Until
  <2>2. \A i \in DOMAIN bars : ~ (bars[i].close_time <= k)
    BY <1>1, <1>3, <1>4
  <2>3. \A i \in DOMAIN bars : bars[i].close_time <= k <=> i <= 0
    BY <2>2, <1>2
  <2>4. ClosedBy(bars, k) = SubSeq(bars, 1, 0)
    <3>1. 0 \in 0..Len(bars)
      BY <1>2
    <3> HIDE DEF bars
    <3> QED BY <3>1, <2>3, <1>1, ClosedByCount
  <2>5. SubSeq(bars, 1, 0) = <<>>
    OBVIOUS
  <2> QED
    BY <2>1, <2>4, <2>5, ResampleOfNothing
<1>5. CASE a <= k
  <2> DEFINE c == IF k <= b THEN k ELSE b
             early == Until(rows, k)
             F == FirstWhole(a, size)
             E == EndWhole(b, size)
             C == EndWhole(c, size)
  <2>1. c \in Nat /\ a <= c /\ c <= b /\ c <= k /\ DOMAIN early = a..c
    BY <1>5 DEF Until
  <2>2. F \in Nat /\ E \in Nat /\ C \in Nat
    BY <2>1 DEF FirstWhole, EndWhole
  <2> HIDE DEF c, early, bars, F, E, C
  <2>3. Resample(early, size) = WholeBars(early, size, F, C) /\ bars = WholeBars(rows, size, F, E)
    BY <2>1, ResampleIsWholeBars DEF bars, F, E, C
  <2>4. ASSUME NEW i \in 1..Len(bars)
        PROVE  /\ bars[i].close_time <= k <=> i <= C - F
               /\ i <= C - F => WholeBar(early, size, F + i - 1) = bars[i]
    <3> DEFINE g == F + i - 1
    <3>1. g \in Nat /\ i \in 1..(E - F) /\ bars[i] = WholeBar(rows, size, g)
      <4>1. i \in DOMAIN WholeBars(rows, size, F, E) /\ i \in Nat \ {0}
        BY <1>2, <2>3
      <4> QED BY <4>1, <2>2, <2>3 DEF WholeBars
    <3>2. bars[i].close_time = g * size + size - 1 /\ g * size \in Nat /\ F <= g
      BY <3>1, <2>2 DEF WholeBar, Aggregate
    <3> HIDE DEF g
    <3>3. a <= g * size
      BY <1>1, <1>2, <1>3, <3>2
    <3>4. (g * size)..(g * size + size - 1) \subseteq a..c <=> F <= g /\ g < C
      BY <3>1, <2>1, GroupIsWhole DEF F, C
    <3>5. (g * size)..(g * size + size - 1) \subseteq a..c <=> g * size + size - 1 <= c
      BY <3>2, <3>3, <2>1
    <3>6. g * size + size - 1 <= c <=> bars[i].close_time <= k
      BY <3>2, <1>1, <1>2 DEF c
    <3>7. g < C <=> i <= C - F
      BY <2>2 DEF g
    <3>8. ASSUME g < C
          PROVE  WholeBar(early, size, g) = WholeBar(rows, size, g)
      <4>1. \A m \in (g * size)..(g * size + size - 1) : early[m] = rows[m]
        BY <3>4, <3>8, <3>2, <2>1 DEF early, Until
      <4>2. g * size \in (g * size)..(g * size + size - 1)
            /\ g * size + size - 1 \in (g * size)..(g * size + size - 1)
        BY <3>2
      <4> QED
        BY <4>1, <4>2 DEF WholeBar, Aggregate
    <3> QED
      BY <3>1, <3>4, <3>2, <3>5, <3>6, <3>7, <3>8 DEF g
  <2> DEFINE n == IF F < C THEN C - F ELSE 0
  <2>5. n \in 0..Len(bars) /\ 1..(C - F) = 1..n
    <3>1. C <= E
      BY <2>1 DEF C, E, EndWhole
    <3>2. DOMAIN bars = 1..(E - F)
      BY <2>3 DEF WholeBars
    <3>3. 1..(E - F) = 1..Len(bars)
      BY <3>2, <1>2
    <3>4. n <= Len(bars)
      BY <3>1, <3>3, <1>2, <2>2
    <3> QED
      BY <3>4, <2>2, <1>2
  <2>6. ClosedBy(bars, k) = SubSeq(bars, 1, n)
    <3>1. \A i \in DOMAIN bars : bars[i].close_time <= k <=> i <= n
      BY <2>4, <1>2, <2>2
    <3> QED BY <3>1, <1>1, <2>5, ClosedByCount
  <2>7. WholeBars(early, size, F, C) = [i \in 1..n |-> WholeBar(early, size, F + i - 1)]
    BY <2>5 DEF WholeBars
  <2>8. SubSeq(bars, 1, n) = [i \in 1..n |-> bars[i]]
    BY <2>5, <1>1 DEF Timeline
  <2>9. \A i \in 1..n : WholeBar(early, size, F + i - 1) = bars[i]
    BY <2>4, <2>5, <2>2, <1>2
  <2> QED
    BY <2>3, <2>6, <2>7, <2>8, <2>9 DEF early, bars
<1> QED
  BY <1>4, <1>5

--------------------------------------------------------------------------------
(* The gates in turn *)

\* The result a gate has if all the gates before it have passed.
ContextBar(pois) ==
  IF BrokenHighs(pois) = {} THEN Len(pois)
  ELSE IF PointOfInterest(pois).block.status # "PASS" THEN PointOfInterest(pois).break
  ELSE PointOfInterest(pois).block.value.touch
KnownDays(days, pois) == ClosedBy(days, pois[ContextBar(pois)].close_time)
Block(pois) ==
  IF BrokenHighs(pois) = {} THEN Unavailable("upstream_gate_not_passed")
  ELSE PointOfInterest(pois).block

Sweep(hours, block) == FirstIndexAtOrAfter(hours, LiquidityGate(hours, block).known_at)
Displaced(hours, block) == DisplacementIndex(hours, Sweep(hours, block))
DisplacementGate(hours, block) ==
  IF Displaced(hours, block) = 0 THEN Fail("displacement_window_expired")
  ELSE Passed(NoValue, hours[Displaced(hours, block)].close_time,
              hours[Displaced(hours, block)].close_time)
GapGate(hours, block) ==
  Fvg(hours, Max({1, Displaced(hours, block) - 2}), Displaced(hours, block) + 2)

RegimeGate(days, pois, hours) ==
  IF <<>> \in {days, pois, hours} THEN Unavailable("insufficient_timeframe_warmup")
  ELSE IF KnownDays(days, pois) = <<>> THEN Unavailable("insufficient_1d_context")
  ELSE Structure(KnownDays(days, pois))
StructureGate(days, pois) ==
  IF Structure(KnownDays(days, pois)).value.bias # "BULLISH" THEN Fail("v2_long_only")
  ELSE Aligned(Structure(SubSeq(pois, 1, ContextBar(pois))), "4h_not_aligned_bullish")

Candidate(i, days, pois, hours) ==
  CASE i = 1 -> RegimeGate(days, pois, hours)
    [] i = 2 -> StructureGate(days, pois)
    [] i = 3 -> DealingRange(SubSeq(pois, 1, ContextBar(pois)))
    [] i = 4 -> Block(pois)
    [] i = 5 -> LiquidityGate(hours, Block(pois))
    [] i = 6 -> DisplacementGate(hours, Block(pois))
    [] i = 7 -> MssGate(hours, Sweep(hours, Block(pois)), Displaced(hours, Block(pois)))
    [] i = 8 -> GapGate(hours, Block(pois))
    [] i = 9 -> RiskGate(pois, hours, Block(pois), LiquidityGate(hours, Block(pois)),
                         GapGate(hours, Block(pois)))

\* At most n gates have been reached, one after the other.
Staged(reached, n, days, pois, hours) ==
  /\ reached \in Seq({reached[i] : i \in DOMAIN reached})
  /\ Len(reached) \in 1..n
  /\ \A i \in 1..(Len(reached) - 1) : reached[i].status = "PASS"
  /\ Len(reached) < n => reached[Len(reached)].status # "PASS"
  /\ \A i \in 1..Len(reached) : reached[i] = Candidate(i, days, pois, hours)

\* One gate further: it has its candidate, or is not reached.
LEMMA ThenStaged ==
  ASSUME NEW reached, NEW n \in Nat \ {0}, NEW days, NEW pois, NEW hours,
         Staged(reached, n, days, pois, hours),
         NEW gate,
         \/ gate = Candidate(n + 1, days, pois, hours)
         \/ Candidate(n, days, pois, hours).status # "PASS"
  PROVE  Staged(Then(reached, gate), n + 1, days, pois, hours)
<1> DEFINE len == Len(reached)
           longer == Then(reached, gate)
<1>1. len \in 1..n /\ DOMAIN reached = 1..len
  BY DEF Staged
<1>4. /\ reached \in Seq({reached[i] : i \in DOMAIN reached})
      /\ \A i \in 1..(len - 1) : reached[i].status = "PASS"
      /\ len < n => reached[len].status # "PASS"
      /\ \A i \in 1..len : reached[i] = Candidate(i, days, pois, hours)
  BY DEF Staged
<1>2. CASE reached[len].status = "PASS"
  <2>0. len = n
    <3>1. len < n => reached[len].status # "PASS"
      BY <1>4
    <3> HIDE DEF len
    <3> QED BY <1>1, <1>2, <3>1
  <2>1. len = n /\ gate = Candidate(n + 1, days, pois, hours)
    <3>1. reached[n] = Candidate(n, days, pois, hours)
      BY <2>0, <1>1, <1>4
    <3> QED BY <3>1, <2>0, <1>2
  <2>2. longer = Append(reached, gate)
    BY <1>2 DEF Then, Last
  <2>3. Len(longer) = n + 1 /\ \A i \in 1..n : longer[i] = reached[i]
    <3>1. reached \in Seq({reached[i] : i \in DOMAIN reached} \cup {gate})
      BY <1>4
    <3> HIDE DEF longer
    <3> QED BY <2>0, <2>2, <3>1
  <2>4. longer[n + 1] = gate
    BY <2>0, <2>2, <1>4
  <2>5. longer \in Seq({longer[i] : i \in DOMAIN longer})
    <3>1. longer = [i \in 1..(n + 1) |-> longer[i]]
      BY <2>1, <2>2 DEF Staged
    <3> HIDE DEF longer
    <3> QED BY <3>1
  <2> HIDE DEF longer
  <2>6. \A i \in 1..n : longer[i].status = "PASS" /\ longer[i] = Candidate(i, days, pois, hours)
    <3> SUFFICES ASSUME NEW i \in 1..n
                 PROVE  longer[i].status = "PASS" /\ longer[i] = Candidate(i, days, pois, hours)
      OBVIOUS
    <3>1. i \in 1..(len - 1) \/ i = len
      BY <2>0
    <3> QED BY <3>1, <2>0, <2>3, <1>2, <1>4
  <2>7. Staged(longer, n + 1, days, pois, hours)
    <3>1. Len(longer) \in 1..(n + 1) /\ ~ (Len(longer) < n + 1)
      BY <2>3
    <3>2. \A i \in 1..(Len(longer) - 1) : longer[i].status = "PASS"
      BY <2>3, <2>6
    <3>3. \A i \in 1..Len(longer) : longer[i] = Candidate(i, days, pois, hours)
      BY <2>1, <2>3, <2>4, <2>6
    <3> QED BY <2>5, <3>1, <3>2, <3>3 DEF Staged
  <2> QED
    BY <2>7 DEF longer
<1>3. CASE reached[len].status # "PASS"
  <2>1. longer = reached
    BY <1>3 DEF Then, Last
  <2> QED
    BY <2>1, <1>1, <1>3 DEF Staged
<1> QED
  BY <1>2, <1>3

\* A gate has its candidate when all before it have passed, and else its initial
\* result.
InTurn(indicators, days, pois, hours) ==
  /\ DOMAIN indicators = 1..9
  /\ \A i \in 1..9 :
       indicators[i] = IF \A j \in 1..(i - 1) : indicators[j].status = "PASS"
                       THEN Candidate(i, days, pois, hours)
                       ELSE Unavailable("upstream_gate_not_passed")

\* The indicators of gates reached one after the other are in turn, when nothing
\* stopped them but a gate or their end.
LEMMA IndicatedInTurn ==
  ASSUME NEW reached, NEW n \in 1..9, NEW days, NEW pois, NEW hours,
         Staged(reached, n, days, pois, hours),
         \/ n = 9
         \/ Candidate(n, days, pois, hours).status # "PASS"
         \/ Candidate(n + 1, days, pois, hours) = Unavailable("upstream_gate_not_passed")
  PROVE  InTurn(Indicated(reached), days, pois, hours)
<1> DEFINE len == Len(reached)
           indicators == Indicated(reached)
<1>1. len \in 1..n /\ DOMAIN reached = 1..len
  BY DEF Staged
<1>2. DOMAIN indicators = 1..9
  BY DEF Indicated, Gates
<1>3. \A i \in 1..9 : indicators[i] = IF i <= len THEN reached[i]
                                      ELSE Unavailable("upstream_gate_not_passed")
  BY <1>1, <1>2 DEF Indicated
<1>6. /\ \A i \in 1..(len - 1) : reached[i].status = "PASS"
      /\ len < n => reached[len].status # "PASS"
      /\ \A i \in 1..len : reached[i] = Candidate(i, days, pois, hours)
  BY DEF Staged
<1> HIDE DEF indicators, len
<1>4. Unavailable("upstream_gate_not_passed").status # "PASS"
  BY DEF Unavailable, Result
<1>5. ASSUME NEW i \in 1..9
      PROVE  indicators[i] = IF \A j \in 1..(i - 1) : indicators[j].status = "PASS"
                             THEN Candidate(i, days, pois, hours)
                             ELSE Unavailable("upstream_gate_not_passed")
  <2>1. CASE i <= len
    <3>1. \A j \in 1..(i - 1) : indicators[j].status = "PASS"
      <4> SUFFICES ASSUME NEW j \in 1..(i - 1)
                   PROVE  indicators[j].status = "PASS"
        OBVIOUS
      <4>1. j \in 1..(len - 1) /\ j \in 1..9
        BY <2>1, <1>1
      <4> QED BY <4>1, <1>1, <1>3, <1>6
    <3> QED BY <3>1, <2>1, <1>1, <1>3, <1>6
  <2>2. CASE i > len + 1
    <3>1. len + 1 \in 1..(i - 1) /\ indicators[len + 1].status # "PASS"
      BY <1>1, <1>3, <1>4, <2>2
    <3> QED BY <3>1, <1>1, <1>3, <2>2
  <2>3. CASE i = len + 1
    <3>1. indicators[i] = Unavailable("upstream_gate_not_passed")
      BY <1>1, <1>3, <2>3
    <3>2. CASE reached[len].status # "PASS"
      <4>1. len \in 1..(i - 1) /\ indicators[len].status # "PASS"
        BY <1>1, <1>3, <2>3, <3>2
      <4> QED BY <4>1, <3>1
    <3>3. CASE reached[len].status = "PASS"
      <4>1. len = n
        BY <1>1, <3>3, <1>6
      <4>2. Candidate(n, days, pois, hours).status = "PASS"
        BY <4>1, <3>3, <1>1, <1>6
      <4> QED BY <4>1, <4>2, <2>3, <3>1
    <3> QED BY <3>2, <3>3
  <2> QED BY <2>1, <2>2, <2>3, <1>1
<1> QED
  BY <1>2, <1>5 DEF InTurn, indicators

\* The context reaches the first three gates one after the other.
LEMMA ContextStaged ==
  ASSUME NEW days, NEW pois, NEW hours, <<>> \notin {days, pois, hours},
         KnownDays(days, pois) # <<>>
  PROVE  Staged(Context(days, pois, ContextBar(pois)), 3, days, pois, hours)
<1> DEFINE first == <<Structure(KnownDays(days, pois))>>
           second == Then(first, StructureGate(days, pois))
           third == Then(second, DealingRange(SubSeq(pois, 1, ContextBar(pois))))
<1>1. Context(days, pois, ContextBar(pois)) = third
  BY DEF Context, KnownDays, StructureGate
<1>2. Staged(first, 1, days, pois, hours)
  <2>1. Candidate(1, days, pois, hours) = Structure(KnownDays(days, pois))
    BY DEF Candidate, RegimeGate
  <2> QED BY <2>1 DEF Staged
<1>3. /\ StructureGate(days, pois) = Candidate(1 + 1, days, pois, hours)
      /\ DealingRange(SubSeq(pois, 1, ContextBar(pois))) = Candidate(2 + 1, days, pois, hours)
  BY DEF Candidate
<1> HIDE DEF first
<1>4. Staged(second, 1 + 1, days, pois, hours)
  BY <1>2, <1>3, ThenStaged
<1> HIDE DEF second
<1>5. Staged(third, 2 + 1, days, pois, hours)
  BY <1>4, <1>3, ThenStaged
<1> QED
  BY <1>1, <1>5

\* analyze_symbol_v2 passes the gates in turn.
LEMMA GatesInTurn ==
  ASSUME NEW days, NEW pois, NEW hours
  PROVE  InTurn(Indicated(GatesOn(days, pois, hours)), days, pois, hours)
<1> DEFINE reached == GatesOn(days, pois, hours)
           at == ContextBar(pois)
           context == Context(days, pois, at)
           block == PointOfInterest(pois).block
<1>0. /\ \A reason : Unavailable(reason).status = "UNAVAILABLE"
      /\ "UNAVAILABLE" # "PASS"
  BY DEF Unavailable, Result
<1>1. CASE <<>> \in {days, pois, hours}
  <2>1. reached = <<Candidate(1, days, pois, hours)>> /\ Candidate(1, days, pois, hours).status # "PASS"
    BY <1>0, <1>1 DEF GatesOn, Candidate, RegimeGate
  <2> HIDE DEF reached
  <2>2. Staged(reached, 1, days, pois, hours)
    BY <2>1 DEF Staged
  <2> QED BY <2>1, <2>2, IndicatedInTurn DEF reached
<1>2. CASE <<>> \notin {days, pois, hours} /\ KnownDays(days, pois) = <<>>
  <2>1. Candidate(1, days, pois, hours).status # "PASS"
    BY <1>0, <1>2 DEF Candidate, RegimeGate
  <2>2. context = <<Candidate(1, days, pois, hours)>>
    BY <1>2 DEF Context, KnownDays, Candidate, RegimeGate
  <2>3. \A gate : Then(<<Candidate(1, days, pois, hours)>>, gate) = <<Candidate(1, days, pois, hours)>>
    BY <2>1 DEF Then, Last
  <2>4. reached = <<Candidate(1, days, pois, hours)>>
    BY <1>2, <2>2, <2>3 DEF GatesOn, Execution, ContextBar
  <2> HIDE DEF reached
  <2>5. Staged(reached, 1, days, pois, hours)
    BY <2>4 DEF Staged
  <2> QED BY <2>1, <2>5, IndicatedInTurn DEF reached
<1>3. CASE <<>> \notin {days, pois, hours} /\ KnownDays(days, pois) # <<>> /\ BrokenHighs(pois) = {}
  <2>1. reached = context
    BY <1>3 DEF GatesOn, ContextBar
  <2>2. Candidate(3 + 1, days, pois, hours) = Unavailable("upstream_gate_not_passed")
    BY <1>3 DEF Candidate, Block
  <2>3. Staged(context, 3, days, pois, hours)
    BY <1>3, ContextStaged
  <2> QED BY <2>1, <2>2, <2>3, IndicatedInTurn
<1>4. CASE /\ <<>> \notin {days, pois, hours} /\ KnownDays(days, pois) # <<>>
           /\ BrokenHighs(pois) # {}
  <2>1. Staged(context, 3, days, pois, hours)
    BY <1>4, ContextStaged
  <2>2. block = Candidate(3 + 1, days, pois, hours) /\ block = Block(pois)
    BY <1>4 DEF Candidate, Block
  <2> DEFINE fourth == Then(context, block)
  <2> HIDE DEF context
  <2>3. Staged(fourth, 3 + 1, days, pois, hours)
    BY <2>1, <2>2, ThenStaged
  <2> HIDE DEF fourth
  <2>4. CASE block.status # "PASS"
    <3>1. reached = fourth
      BY <1>4, <2>4 DEF GatesOn, ContextBar, fourth, context
    <3>2. Candidate(4, days, pois, hours).status # "PASS"
      BY <2>2, <2>4
    <3> QED BY <3>1, <3>2, <2>3, IndicatedInTurn
  <2>5. CASE block.status = "PASS"
    <3> DEFINE fifth == Then(fourth, LiquidityGate(hours, block))
               sixth == Then(fifth, DisplacementGate(hours, block))
               seventh == Then(sixth, MssGate(hours, Sweep(hours, block), Displaced(hours, block)))
               eighth == Then(seventh, GapGate(hours, block))
               ninth == Then(eighth, RiskGate(pois, hours, block, LiquidityGate(hours, block),
                                              GapGate(hours, block)))
    <3>1. reached = ninth
      BY <1>4, <2>5 DEF GatesOn, ContextBar, Execution, Sweep, Displaced, DisplacementGate,
                        GapGate, fourth, context
    <3>2. /\ LiquidityGate(hours, block) = Candidate(4 + 1, days, pois, hours)
          /\ DisplacementGate(hours, block) = Candidate(5 + 1, days, pois, hours)
          /\ MssGate(hours, Sweep(hours, block), Displaced(hours, block))
               = Candidate(6 + 1, days, pois, hours)
          /\ GapGate(hours, block) = Candidate(7 + 1, days, pois, hours)
          /\ RiskGate(pois, hours, block, LiquidityGate(hours, block), GapGate(hours, block))
               = Candidate(8 + 1, days, pois, hours)
      BY <2>2 DEF Candidate
    <3>3. Staged(fifth, 4 + 1, days, pois, hours)
      BY <2>3, <3>2, ThenStaged
    <3> HIDE DEF fifth
    <3>4. Staged(sixth, 5 + 1, days, pois, hours)
      BY <3>3, <3>2, ThenStaged
    <3> HIDE DEF sixth
    <3>5. Staged(seventh, 6 + 1, days, pois, hours)
      BY <3>4, <3>2, ThenStaged
    <3> HIDE DEF seventh
    <3>6. Staged(eighth, 7 + 1, days, pois, hours)
      BY <3>5, <3>2, ThenStaged
    <3> HIDE DEF eighth
    <3>7. Staged(ninth, 8 + 1, days, pois, hours)
      BY <3>6, <3>2, ThenStaged
    <3> QED BY <3>1, <3>7, IndicatedInTurn
  <2> QED BY <2>4, <2>5
<1> QED
  BY <1>1, <1>2, <1>3, <1>4

--------------------------------------------------------------------------------
(* Searches *)

\* A search gives 0 or the first index found.
LEMMA FirstIndexFound ==
  ASSUME NEW S \in SUBSET (Nat \ {0})
  PROVE  /\ FirstIndex(S) = 0 <=> S = {}
         /\ FirstIndex(S) # 0 => FirstIndex(S) \in S /\ \A i \in S : FirstIndex(S) <= i
         /\ FirstIndex(S) \in Nat
<1>1. S # {} => Min(S) \in S /\ \A i \in S : Min(S) <= i
  BY MinOfNaturals
<1> QED
  BY <1>1 DEF FirstIndex

\* What is found and has nothing before it is what a search gives.
LEMMA FirstIndexIs ==
  ASSUME NEW S \in SUBSET (Nat \ {0}), NEW m \in S, \A i \in S : m <= i
  PROVE  FirstIndex(S) = m
<1>1. FirstIndex(S) # 0
  BY FirstIndexFound
<1>2. FirstIndex(S) \in S /\ FirstIndex(S) <= m
  BY <1>1, FirstIndexFound
<1>3. FirstIndex(S) \in Nat /\ m \in Nat /\ m <= FirstIndex(S)
  BY <1>2
<1> QED
  BY <1>2, <1>3

\* Two searches with the same first hit.
LEMMA SameFirstIndex ==
  ASSUME NEW S \in SUBSET (Nat \ {0}), NEW T \in SUBSET (Nat \ {0}),
         FirstIndex(S) \in T, \A i \in T : i < FirstIndex(S) => i \in S
  PROVE  FirstIndex(T) = FirstIndex(S)
<1>1. FirstIndex(S) # 0 /\ FirstIndex(S) \in Nat
  OBVIOUS
<1>2. \A i \in S : FirstIndex(S) <= i
  BY <1>1, FirstIndexFound
<1>3. \A i \in T : FirstIndex(S) <= i
  BY <1>1, <1>2
<1> QED
  BY <1>3, FirstIndexIs

\* Two sequences of bars that agree on the first n of them.
Agree(p, q, n) ==
  /\ Len(p) \in Nat /\ Len(q) \in Nat
  /\ n \in 0..Len(p) /\ n \in 0..Len(q)
  /\ DOMAIN p = 1..Len(p) /\ DOMAIN q = 1..Len(q)
  /\ \A i \in 1..n : p[i] = q[i]

\* Agreeing goes both ways.
LEMMA AgreeSymmetric ==
  ASSUME NEW p, NEW q, NEW n, Agree(p, q, n)
  PROVE  Agree(q, p, n)
  BY DEF Agree

\* A pivot has all its neighbours, and is known at the last of them.
LEMMA PivotRange ==
  ASSUME NEW p, Len(p) \in Nat, NEW i \in LowPivots(p) \cup HighPivots(p)
  PROVE  /\ i \in 1..Len(p) /\ KnownIndex(i) \in 1..Len(p) /\ i < KnownIndex(i)
         /\ Around(p, i) = (i - SwingLength)..(i + SwingLength) \ {i}
<1>1. SwingLength \in Nat \ {0}
  BY StrategyAssumption
<1>2. i \in (SwingLength + 1)..(Len(p) - SwingLength)
  BY DEF LowPivots, HighPivots, Confirmable
<1>3. i \in Nat /\ i - SwingLength >= 1 /\ i + SwingLength <= Len(p)
  BY <1>1, <1>2
<1>4. Max({1, i - SwingLength}) = i - SwingLength /\ Min({Len(p), i + SwingLength}) = i + SwingLength
  <2> DEFINE first == i - SwingLength
             last == i + SwingLength
             end == Len(p)
  <2>1. first \in Int /\ last \in Int /\ end \in Int /\ 1 <= first /\ last <= end
    BY <1>1, <1>3
  <2> HIDE DEF first, last, end
  <2>2. Max({1, first}) = first /\ Min({end, last}) = last
    BY <2>1 DEF Max, Min
  <2> QED BY <2>2 DEF first, last, end
<1> QED
  BY <1>1, <1>3, <1>4 DEF Around, KnownIndex

\* A pivot that is confirmed within what two sequences share is one of both.
LEMMA PivotAgrees ==
  ASSUME NEW p, NEW q, NEW n, Agree(p, q, n), NEW i \in Int, KnownIndex(i) <= n
  PROVE  /\ i \in LowPivots(p) => i \in LowPivots(q)
         /\ i \in HighPivots(p) => i \in HighPivots(q)
<1>0. SwingLength \in Nat \ {0} /\ Len(p) \in Nat /\ Len(q) \in Nat /\ n \in Nat /\ n <= Len(q)
  BY StrategyAssumption DEF Agree
<1>1. ASSUME i \in LowPivots(p) \cup HighPivots(p)
      PROVE  /\ i \in Confirmable(q) /\ p[i] = q[i]
             /\ Around(p, i) = Around(q, i)
             /\ \A j \in Around(p, i) : p[j] = q[j]
  <2>1. i \in (SwingLength + 1)..(Len(p) - SwingLength)
    BY <1>1 DEF LowPivots, HighPivots, Confirmable
  <2>2. i - SwingLength >= 1 /\ i + SwingLength <= n
    BY <1>0, <2>1 DEF KnownIndex
  <2>3. i \in Confirmable(q)
    BY <1>0, <2>2 DEF Confirmable
  <2>4. Around(p, i) = (i - SwingLength)..(i + SwingLength) \ {i}
    BY <1>0, <1>1, PivotRange
  <2>10. i \in Int /\ i + SwingLength <= Len(q)
    BY <1>0, <2>1, <2>2
  <2>5. Max({1, i - SwingLength}) = i - SwingLength /\ Min({Len(q), i + SwingLength}) = i + SwingLength
    <3> DEFINE first == i - SwingLength
               last == i + SwingLength
               end == Len(q)
    <3>1. first \in Int /\ last \in Int /\ end \in Int /\ 1 <= first /\ last <= end
      BY <1>0, <2>10, <2>2
    <3> HIDE DEF first, last, end
    <3>2. Max({1, first}) = first /\ Min({end, last}) = last
      BY <3>1 DEF Max, Min
    <3> QED BY <3>2 DEF first, last, end
  <2>6. Around(q, i) = (i - SwingLength)..(i + SwingLength) \ {i}
    BY <2>5 DEF Around
  <2>7. \A j \in (i - SwingLength)..(i + SwingLength) : j \in 1..n
    BY <1>0, <2>2
  <2>8. i \in 1..n
    BY <1>0, <2>2
  <2> QED
    BY <2>3, <2>4, <2>6, <2>7, <2>8 DEF Agree
<1>2. ASSUME i \in LowPivots(p)
      PROVE  i \in LowPivots(q)
  BY <1>1, <1>2 DEF LowPivots
<1>3. ASSUME i \in HighPivots(p)
      PROVE  i \in HighPivots(q)
  BY <1>1, <1>3 DEF HighPivots
<1> QED
  BY <1>2, <1>3

\* The references frozen at an index are the same for all who know that much.
LEMMA FrozenAgree ==
  ASSUME NEW p, NEW q, NEW n, Agree(p, q, n), NEW index \in Int, index <= n + 1
  PROVE  /\ KnownBefore(LowPivots(p), index) = KnownBefore(LowPivots(q), index)
         /\ KnownBefore(HighPivots(p), index) = KnownBefore(HighPivots(q), index)
         /\ \A i \in KnownBefore(LowPivots(p), index) \cup KnownBefore(HighPivots(p), index) :
              i \in 1..n /\ i < index
<1>0. SwingLength \in Nat \ {0} /\ Len(p) \in Nat /\ Len(q) \in Nat /\ n \in Nat
  BY StrategyAssumption DEF Agree
<1>1. ASSUME NEW r, Len(r) \in Nat, NEW i \in LowPivots(r) \cup HighPivots(r), KnownIndex(i) < index
      PROVE  i \in Nat \ {0} /\ KnownIndex(i) <= n /\ i < KnownIndex(i) /\ KnownIndex(i) \in Nat
  <2>1. i \in 1..Len(r) /\ KnownIndex(i) \in 1..Len(r) /\ i < KnownIndex(i)
    BY <1>1, PivotRange
  <2> QED BY <2>1, <1>0, <1>1
<1>2. ASSUME NEW i
      PROVE  /\ i \in KnownBefore(LowPivots(p), index) <=> i \in KnownBefore(LowPivots(q), index)
             /\ i \in KnownBefore(HighPivots(p), index) <=> i \in KnownBefore(HighPivots(q), index)
  <2>1. Agree(q, p, n)
    BY AgreeSymmetric
  <2> QED
    BY <1>0, <1>1, <2>1, PivotAgrees DEF KnownBefore
<1>3. \A i \in KnownBefore(LowPivots(p), index) \cup KnownBefore(HighPivots(p), index) :
        i \in 1..n /\ i < index
  BY <1>0, <1>1 DEF KnownBefore
<1> QED
  BY <1>2, <1>3

\* The newest of the frozen references.
LEMMA NewestFrozen ==
  ASSUME NEW p, NEW q, NEW n, Agree(p, q, n), NEW index \in Int, index <= n + 1,
         NEW frozen \in {KnownBefore(LowPivots(p), index), KnownBefore(HighPivots(p), index)},
         frozen # {}
  PROVE  Max(frozen) \in frozen /\ Max(frozen) \in 1..n /\ Max(frozen) < index
         /\ p[Max(frozen)] = q[Max(frozen)]
<1>1. n \in Nat /\ \A i \in frozen : i \in 1..n /\ i < index
  BY FrozenAgree DEF Agree
<1>2. Max(frozen) \in frozen
  <2>1. frozen \in SUBSET Nat /\ \A i \in frozen : i <= n
    BY <1>1
  <2> HIDE DEF Agree
  <2> QED BY <1>1, <2>1, MaxOfBounded
<1> QED
  BY <1>1, <1>2 DEF Agree

--------------------------------------------------------------------------------
(* The point of interest *)

NewestBroken(pois) == Max(BrokenHighs(pois))

\* The point of interest is the first break of the newest broken high.
LEMMA BreakFound ==
  ASSUME NEW pois, Len(pois) \in Nat, BrokenHighs(pois) # {}
  PROVE  /\ NewestBroken(pois) \in BrokenHighs(pois)
         /\ \A i \in BrokenHighs(pois) : i <= NewestBroken(pois)
         /\ PointOfInterest(pois).break \in Breaks(pois, NewestBroken(pois))
         /\ \A j \in Breaks(pois, NewestBroken(pois)) : PointOfInterest(pois).break <= j
         /\ PointOfInterest(pois).break \in 1..Len(pois)
         /\ NewestBroken(pois) \in Nat \ {0}
         /\ KnownIndex(NewestBroken(pois)) < PointOfInterest(pois).break
<1> DEFINE broken == NewestBroken(pois)
           break == PointOfInterest(pois).break
<1>1. \A i \in BrokenHighs(pois) : i \in 1..Len(pois) /\ KnownIndex(i) \in 1..Len(pois)
  BY PivotRange DEF BrokenHighs
<1>2. broken \in BrokenHighs(pois) /\ \A i \in BrokenHighs(pois) : i <= broken
  <2>1. BrokenHighs(pois) \in SUBSET Nat /\ \A i \in BrokenHighs(pois) : i <= Len(pois)
    BY <1>1
  <2>2. Max(BrokenHighs(pois)) \in BrokenHighs(pois)
        /\ \A i \in BrokenHighs(pois) : Max(BrokenHighs(pois)) >= i
    BY <2>1, MaxOfBounded
  <2> QED BY <2>1, <2>2 DEF NewestBroken
<1>3. break = Min(Breaks(pois, broken))
  BY DEF PointOfInterest, NewestBroken
<1>4. Breaks(pois, broken) # {} /\ KnownIndex(broken) \in 1..Len(pois)
  BY <1>1, <1>2 DEF BrokenHighs
<1>5. Breaks(pois, broken) \in SUBSET Nat
      /\ \A j \in Breaks(pois, broken) : j \in 1..Len(pois) /\ KnownIndex(broken) < j
  BY <1>4 DEF Breaks
<1>6. break \in Breaks(pois, broken) /\ \A j \in Breaks(pois, broken) : break <= j
  BY <1>3, <1>4, <1>5, MinOfNaturals
<1> QED
  BY <1>1, <1>2, <1>5, <1>6

\* The search of smc_1h_order_block for the first touch of a zone.
Touches(bars, zone, breakIndex) ==
  {i \in (breakIndex + 1)..Len(bars) : bars[i].low <= zone.high /\ bars[i].high >= zone.low}

\* An order block that passes is known at its first touch.
LEMMA BlockTouched ==
  ASSUME NEW bars, Len(bars) \in Nat, NEW start, NEW breakIndex \in Nat,
         OrderBlock(bars, start, breakIndex).status = "PASS"
  PROVE  LET block == OrderBlock(bars, start, breakIndex)
         IN /\ block.value.touch \in (breakIndex + 1)..Len(bars)
            /\ block.event_time = bars[block.value.touch].close_time
            /\ block.known_at = bars[block.value.touch].close_time
<1> DEFINE block == OrderBlock(bars, start, breakIndex)
           bearish == {i \in start..(breakIndex - 1) : bars[i].close < bars[i].open}
           origin == Max(bearish)
           zone == [low |-> bars[origin].low, high |-> bars[origin].high]
           touch == FirstIndex(Touches(bars, zone, breakIndex))
<1>1. Touches(bars, zone, breakIndex) \in SUBSET (Nat \ {0})
  BY DEF Touches
<1>2. touch # 0 => touch \in Touches(bars, zone, breakIndex)
  BY <1>1, FirstIndexFound
<1>3. touch # 0 /\ block = Passed([zone |-> zone, touch |-> touch],
                                  bars[touch].close_time, bars[touch].close_time)
  BY DEF OrderBlock, Touches, Fail, Passed, Result
<1> HIDE DEF touch, zone
<1> QED
  BY <1>2, <1>3 DEF Touches, Passed, Result

\* An order block that passes by a touch both see is the same for both, and one
\* that passes for nobody so far does not pass for who sees less.
LEMMA OrderBlockAgrees ==
  ASSUME NEW p, NEW q, NEW n, Agree(p, q, n), NEW start \in Nat \ {0}, NEW breakIndex \in 1..n
  PROVE  /\ OrderBlock(p, start, breakIndex).status = "PASS"
            /\ OrderBlock(p, start, breakIndex).value.touch <= n
              => OrderBlock(q, start, breakIndex) = OrderBlock(p, start, breakIndex)
         /\ OrderBlock(p, start, breakIndex).status # "PASS" /\ n = Len(q)
              => OrderBlock(q, start, breakIndex).status # "PASS"
<1> DEFINE bearish(r) == {i \in start..(breakIndex - 1) : r[i].close < r[i].open}
           origin == Max(bearish(p))
           zone == [low |-> p[origin].low, high |-> p[origin].high]
           mitigated(r) == \E i \in (origin + 1)..(breakIndex - 1) : r[i].low < zone.low
           touch(r) == FirstIndex(Touches(r, zone, breakIndex))
           blockOf(r) == IF bearish(p) = {} THEN Fail("no_directional_ob")
                         ELSE IF mitigated(p) THEN Fail("prior_mitigation")
                         ELSE IF touch(r) = 0 THEN Fail("no_first_touch")
                         ELSE Passed([zone |-> zone, touch |-> touch(r)],
                                     r[touch(r)].close_time, r[touch(r)].close_time)
<1>0. /\ n \in Nat /\ Len(p) \in Nat /\ Len(q) \in Nat /\ n <= Len(p) /\ n <= Len(q)
      /\ \A i \in 1..n : p[i] = q[i]
  BY DEF Agree
<1>1. bearish(q) = bearish(p) /\ bearish(p) \subseteq 1..(breakIndex - 1)
  <2>1. \A i \in start..(breakIndex - 1) : i \in 1..n /\ i \in 1..(breakIndex - 1)
    BY <1>0
  <2> QED BY <1>0, <2>1
<1>2. ASSUME bearish(p) # {}
      PROVE  /\ origin \in 1..(breakIndex - 1) /\ p[origin] = q[origin]
             /\ mitigated(q) = mitigated(p)
  <2>1. origin \in 1..(breakIndex - 1)
    <3>1. bearish(p) \in SUBSET Nat /\ \A i \in bearish(p) : i <= breakIndex
      BY <1>1
    <3>2. bearish(p) # {}
      BY <1>2
    <3> HIDE DEF bearish
    <3>3. breakIndex \in Nat
      BY <1>0
    <3>4. origin \in bearish(p)
      BY <3>1, <3>2, <3>3, MaxOfBounded
    <3> QED BY <1>1, <3>4
  <2>2. \A i \in origin..(breakIndex - 1) : i \in 1..n /\ p[i] = q[i]
    BY <1>0, <2>1
  <2> HIDE DEF origin
  <2> QED BY <2>1, <2>2
<1>3. OrderBlock(p, start, breakIndex) = blockOf(p)
  BY DEF OrderBlock, Touches
<1>4. OrderBlock(q, start, breakIndex) = blockOf(q)
  <2>1. CASE bearish(p) = {}
    BY <1>1, <2>1 DEF OrderBlock
  <2>2. CASE bearish(p) # {}
    <3>1. Max(bearish(q)) = origin /\ zone = [low |-> q[origin].low, high |-> q[origin].high]
          /\ mitigated(q) = mitigated(p)
      BY <1>1, <1>2, <2>2
    <3> QED BY <1>1, <3>1 DEF OrderBlock, Touches
  <2> QED BY <2>1, <2>2
<1> HIDE DEF bearish, mitigated, zone
<1>5. \A r \in {p, q} : Touches(r, zone, breakIndex) \in SUBSET (Nat \ {0})
  BY DEF Touches
<1>6. \A i \in 1..n : i \in Touches(p, zone, breakIndex) <=> i \in Touches(q, zone, breakIndex)
  BY <1>0 DEF Touches
<1>7. ASSUME blockOf(p).status = "PASS", blockOf(p).value.touch <= n
      PROVE  blockOf(q) = blockOf(p)
  <2>1. bearish(p) # {} /\ ~ mitigated(p) /\ touch(p) # 0 /\ touch(p) <= n
    BY <1>7 DEF Fail, Passed, Result
  <2>2. touch(p) \in Touches(p, zone, breakIndex)
    BY <1>5, <2>1, FirstIndexFound
  <2>3. touch(p) \in 1..n
    BY <1>5, <2>1, <2>2, <1>0
  <2>4. \A i \in Touches(q, zone, breakIndex) : i < touch(p) => i \in Touches(p, zone, breakIndex)
    BY <1>0, <1>5, <1>6, <2>3
  <2>5. touch(q) = touch(p)
    BY <1>5, <1>6, <2>2, <2>3, <2>4, SameFirstIndex
  <2> HIDE DEF touch
  <2> QED BY <2>3, <2>5, <1>0
<1>8. ASSUME blockOf(p).status # "PASS", n = Len(q)
      PROVE  blockOf(q).status # "PASS"
  <2>1. bearish(p) = {} \/ mitigated(p) \/ touch(p) = 0
    BY <1>8 DEF Passed, Result
  <2>2. CASE bearish(p) = {} \/ mitigated(p)
    BY <2>2 DEF Fail, Result
  <2>3. CASE touch(p) = 0
    <3>1. Touches(p, zone, breakIndex) = {}
      BY <1>5, <2>3, FirstIndexFound
    <3>2. Touches(q, zone, breakIndex) = {}
      <4>1. \A i \in Touches(q, zone, breakIndex) : i \in 1..n
        <5>1. Touches(q, zone, breakIndex) \subseteq (breakIndex + 1)..Len(q)
          BY DEF Touches
        <5>2. breakIndex \in Nat /\ n = Len(q) /\ n \in Nat
          BY <1>8, <1>0
        <5> HIDE DEF zone
        <5> QED BY ONLY <5>1, <5>2
      <4> QED BY <4>1, <3>1, <1>6
    <3>3. touch(q) = 0
      BY <1>5, <3>2, FirstIndexFound
    <3> HIDE DEF touch
    <3> QED BY <3>3 DEF Fail, Result
  <2> QED BY <2>1, <2>2, <2>3
<1> HIDE DEF blockOf
<1> QED
  BY <1>3, <1>4, <1>7, <1>8
\* Where the impulse of a point of interest begins.
ImpulseStart(pois, broken, breakIndex) ==
  LET lows == KnownBefore(LowPivots(pois), breakIndex)
  IN IF lows # {} THEN Max(lows) ELSE Max({1, broken - 3})

\* With the bars up to its break, and no others, the point of interest is the
\* same; its order block is the same once its touch is among them.
LEMMA PoiAgrees ==
  ASSUME NEW p, NEW q, NEW n, Agree(p, q, n), n = Len(q),
         BrokenHighs(p) # {}, PointOfInterest(p).break <= n
  PROVE  /\ BrokenHighs(q) # {}
         /\ PointOfInterest(q).break = PointOfInterest(p).break
         /\ PointOfInterest(p).block.status = "PASS"
            /\ PointOfInterest(p).block.value.touch <= n
              => PointOfInterest(q).block = PointOfInterest(p).block
         /\ PointOfInterest(p).block.status # "PASS"
              => PointOfInterest(q).block.status # "PASS"
<1> DEFINE broken == NewestBroken(p)
           breakIndex == PointOfInterest(p).break
           start == ImpulseStart(p, broken, breakIndex)
<1>0. n \in Nat /\ Len(p) \in Nat /\ Len(q) \in Nat /\ n <= Len(p) /\ \A i \in 1..n : p[i] = q[i]
  BY DEF Agree
<1>1. /\ broken \in BrokenHighs(p) /\ broken \in Nat \ {0}
      /\ \A i \in BrokenHighs(p) : i <= broken
      /\ breakIndex \in Breaks(p, broken) /\ breakIndex \in 1..n
      /\ \A j \in Breaks(p, broken) : breakIndex <= j
      /\ KnownIndex(broken) < breakIndex
  BY <1>0, BreakFound
<1>2. SwingLength \in Nat \ {0}
  BY StrategyAssumption
<1>3. ASSUME NEW i \in HighPivots(q)
      PROVE  i \in HighPivots(p) /\ Breaks(q, i) \subseteq Breaks(p, i)
  <2>1. i \in 1..Len(q) /\ KnownIndex(i) \in 1..n
    BY <1>0, PivotRange
  <2>2. i \in HighPivots(p)
    <3>1. i \in Int /\ KnownIndex(i) <= n /\ Agree(q, p, n)
      BY <2>1, AgreeSymmetric
    <3> QED BY <3>1, PivotAgrees
  <2>3. p[i] = q[i] /\ \A j \in (KnownIndex(i) + 1)..n : p[j] = q[j]
    BY <2>1, <1>0
  <2> QED BY <2>2, <2>3, <1>0, <2>1 DEF Breaks
<1>4. broken \in HighPivots(q) /\ breakIndex \in Breaks(q, broken)
  <2>1. broken \in HighPivots(p) /\ broken \in 1..n /\ KnownIndex(broken) <= n /\ KnownIndex(broken) \in Int
    BY <1>1, <1>2, <1>0 DEF BrokenHighs, KnownIndex
  <2>2. broken \in HighPivots(q)
    <3>1. broken \in Int
      BY <1>1
    <3> QED BY <2>1, <3>1, PivotAgrees
  <2>3. p[broken] = q[broken] /\ p[breakIndex] = q[breakIndex]
    BY <2>1, <1>0, <1>1
  <2> QED BY <2>2, <2>3, <1>1, <1>0 DEF Breaks
<1>5. BrokenHighs(q) # {} /\ broken \in BrokenHighs(q)
  BY <1>4 DEF BrokenHighs
<1>6. BrokenHighs(q) \subseteq BrokenHighs(p)
  BY <1>3 DEF BrokenHighs
<1>7. NewestBroken(q) = broken
  <2>1. /\ NewestBroken(q) \in BrokenHighs(q) /\ broken <= NewestBroken(q)
        /\ NewestBroken(q) \in Nat \ {0}
    BY <1>5, <1>0, BreakFound
  <2>2. NewestBroken(q) <= broken
    BY <2>1, <1>6, <1>1
  <2> QED BY <2>1, <2>2, <1>1
<1>8. PointOfInterest(q).break = breakIndex
  <2>1. /\ PointOfInterest(q).break \in Breaks(q, broken)
        /\ \A j \in Breaks(q, broken) : PointOfInterest(q).break <= j
        /\ PointOfInterest(q).break \in 1..Len(q)
    BY <1>5, <1>7, <1>0, BreakFound
  <2>2. PointOfInterest(q).break <= breakIndex /\ breakIndex <= PointOfInterest(q).break
    BY <2>1, <1>4, <1>3, <1>1
  <2> QED BY <2>1, <2>2, <1>1, <1>0
<1>9. KnownBefore(LowPivots(p), breakIndex) = KnownBefore(LowPivots(q), breakIndex)
      /\ \A i \in KnownBefore(LowPivots(p), breakIndex) : i \in 1..n
  <2>1. breakIndex \in Int /\ breakIndex <= n + 1
    BY <1>1, <1>0
  <2> QED BY <2>1, FrozenAgree
<1>10. start = ImpulseStart(q, broken, breakIndex)
  BY <1>9 DEF ImpulseStart
<1>11. start \in Nat \ {0}
  <2>1. CASE KnownBefore(LowPivots(p), breakIndex) # {}
    <3>1. breakIndex \in Int /\ breakIndex <= n + 1
      BY <1>1, <1>0
    <3>2. Max(KnownBefore(LowPivots(p), breakIndex)) \in 1..n
      BY <2>1, <3>1, NewestFrozen
    <3> QED BY <3>2, <2>1, <1>0 DEF ImpulseStart
  <2>2. CASE KnownBefore(LowPivots(p), breakIndex) = {}
    <3> DEFINE third == broken - 3
    <3>1. third \in Int
      BY <1>1
    <3> HIDE DEF third
    <3>2. Max({1, third}) \in {1, third} /\ Max({1, third}) >= 1
      BY <3>1 DEF Max
    <3>3. start = Max({1, third})
      BY <2>2 DEF third, ImpulseStart
    <3> QED BY <3>1, <3>2, <3>3
  <2> QED BY <2>1, <2>2
<1>12. PointOfInterest(p).block = OrderBlock(p, start, breakIndex)
  BY DEF PointOfInterest, ImpulseStart, NewestBroken
<1>13. PointOfInterest(q).block = OrderBlock(q, ImpulseStart(q, NewestBroken(q), PointOfInterest(q).break),
                                             PointOfInterest(q).break)
  BY DEF PointOfInterest, ImpulseStart, NewestBroken
<1>14. PointOfInterest(q).block = OrderBlock(q, start, breakIndex)
  BY <1>13, <1>7, <1>8, <1>10
<1> HIDE DEF start, breakIndex, broken
<1> QED
  BY <1>5, <1>8, <1>12, <1>14, <1>11, <1>1, OrderBlockAgrees DEF breakIndex

\* The bar whose context is judged is one of the bars, and a touched block has
\* a zone and times of the bar that touches it.
LEMMA ContextBarFound ==
  ASSUME NEW pois, Len(pois) \in Nat \ {0}
  PROVE  /\ ContextBar(pois) \in 1..Len(pois)
         /\ Block(pois).status = "PASS" =>
              /\ BrokenHighs(pois) # {}
              /\ Block(pois) = PointOfInterest(pois).block
              /\ ContextBar(pois) = Block(pois).value.touch
              /\ PointOfInterest(pois).break < ContextBar(pois)
              /\ Block(pois).event_time = pois[ContextBar(pois)].close_time
              /\ Block(pois).known_at = pois[ContextBar(pois)].close_time
<1> DEFINE poi == PointOfInterest(pois)
           broken == NewestBroken(pois)
<1>1. CASE BrokenHighs(pois) = {}
  BY <1>1 DEF ContextBar, Block, Unavailable, Result
<1>2. CASE BrokenHighs(pois) # {}
  <2>1. poi.break \in 1..Len(pois)
    BY <1>2, BreakFound
  <2>2. poi.block = OrderBlock(pois, ImpulseStart(pois, broken, poi.break), poi.break)
    BY DEF PointOfInterest, ImpulseStart, NewestBroken
  <2>3. Block(pois) = poi.block
    BY <1>2 DEF Block
  <2>4. CASE poi.block.status # "PASS"
    BY <1>2, <2>1, <2>3, <2>4 DEF ContextBar
  <2>5. CASE poi.block.status = "PASS"
    <3>1. poi.break \in Nat
      BY <2>1
    <3>2. /\ poi.block.value.touch \in (poi.break + 1)..Len(pois)
          /\ poi.block.event_time = pois[poi.block.value.touch].close_time
          /\ poi.block.known_at = pois[poi.block.value.touch].close_time
      <4> HIDE DEF poi, broken
      <4> QED BY <2>2, <2>5, <3>1, BlockTouched
    <3>3. ContextBar(pois) = poi.block.value.touch
      BY <1>2, <2>5 DEF ContextBar
    <3> HIDE DEF poi
    <3>4. ContextBar(pois) \in 1..Len(pois) /\ poi.break < ContextBar(pois)
      BY <3>1, <3>2, <3>3, <2>1
    <3> QED BY <3>2, <3>3, <3>4, <2>3, <1>2 DEF poi
  <2> QED BY <2>4, <2>5
<1> QED BY <1>1, <1>2
--------------------------------------------------------------------------------
(* The execution on hours that agree *)

\* The same first index is found in two sets that agree up to it.
LEMMA SameFirst ==
  ASSUME NEW S \in SUBSET (Nat \ {0}), NEW T \in SUBSET (Nat \ {0}), FirstIndex(S) # 0,
         \A i \in 1..FirstIndex(S) : i \in S <=> i \in T
  PROVE  FirstIndex(T) = FirstIndex(S)
<1>1. FirstIndex(S) \in S /\ FirstIndex(S) \in Nat \ {0}
  BY FirstIndexFound
<1>2. FirstIndex(S) \in T
  BY <1>1
<1>3. \A i \in T : i < FirstIndex(S) => i \in S
  BY <1>1
<1> QED BY <1>2, <1>3, SameFirstIndex

\* The first bar of a timeline that closes no earlier than one of its bars is
\* that bar.
LEMMA FirstToClose ==
  ASSUME NEW bars, NEW size \in Nat \ {0}, Timeline(bars, size), NEW i \in DOMAIN bars
  PROVE  FirstIndexAtOrAfter(bars, bars[i].close_time) = i
<1> DEFINE S == {j \in DOMAIN bars : bars[j].close_time >= bars[i].close_time}
<1>1. DOMAIN bars = 1..Len(bars) /\ Len(bars) \in Nat
  BY DEF Timeline
<1>2. \A j \in DOMAIN bars : /\ bars[j].close_time \in Nat
                             /\ i <= j <=> bars[i].close_time <= bars[j].close_time
  BY LaterCloses DEF Timeline
<1>3. S \in SUBSET (Nat \ {0}) /\ i \in S /\ \A j \in S : i <= j
  BY <1>1, <1>2
<1> HIDE DEF S
<1>4. FirstIndex(S) = i
  BY <1>3, FirstIndexIs
<1> QED BY <1>4 DEF S, FirstIndexAtOrAfter

\* The bars two sequences share are the same beginning of both.
LEMMA SameBeginning ==
  ASSUME NEW p, NEW q, NEW n, Agree(p, q, n), NEW m \in 0..n
  PROVE  /\ SubSeq(p, 1, m) = SubSeq(q, 1, m)
         /\ Len(SubSeq(p, 1, m)) = m
         /\ \A i \in 1..m : SubSeq(p, 1, m)[i] = p[i]
<1>1. \A i \in 1..m : p[i] = q[i]
  BY DEF Agree
<1>2. SubSeq(p, 1, m) = [i \in 1..m |-> p[i]] /\ SubSeq(q, 1, m) = [i \in 1..m |-> q[i]]
  OBVIOUS
<1> QED BY <1>1, <1>2

\* The smaller and the larger of two numbers.
LEMMA ExtremeOfTwo ==
  ASSUME NEW S \in SUBSET Int, NEW a \in S, NEW b \in S, \A x \in S : x = a \/ x = b
  PROVE  /\ Min(S) \in S /\ Min(S) <= a /\ Min(S) <= b
         /\ Max(S) \in S /\ Max(S) >= a /\ Max(S) >= b
<1>1. \E x \in S : \A y \in S : x <= y
  <2>1. CASE a <= b
    BY <2>1
  <2>2. CASE b <= a
    BY <2>2
  <2> QED BY <2>1, <2>2
<1>2. \E x \in S : \A y \in S : x >= y
  <2>1. CASE a <= b
    BY <2>1
  <2>2. CASE b <= a
    BY <2>2
  <2> QED BY <2>1, <2>2
<1>3. Min(S) \in S /\ \A y \in S : Min(S) <= y
  BY <1>1 DEF Min
<1>4. Max(S) \in S /\ \A y \in S : Max(S) >= y
  BY <1>2 DEF Max
<1> QED BY <1>3, <1>4

\* The two searches of ict_5m_liquidity.
Breach(bars, level, reference, touch) ==
  FirstIndex({i \in (Max({reference, touch}) + 1)..Len(bars) : bars[i].low < level})
Reclaim(bars, level, breach) ==
  FirstIndex({i \in breach..Min({Len(bars), breach + 1}) : bars[i].close > level})

\* A liquidity gate that passes has a breach after the touch and a reclaim by
\* the breaching bar or the next one.
LEMMA LiquidityFound ==
  ASSUME NEW bars, Len(bars) \in Nat, NEW level, NEW reference \in Nat, NEW touch \in Nat,
         Liquidity(bars, level, reference, touch).status = "PASS"
  PROVE  LET gate == Liquidity(bars, level, reference, touch)
             breach == Breach(bars, level, reference, touch)
             reclaim == Reclaim(bars, level, breach)
         IN /\ breach \in 1..Len(bars) /\ touch < breach
            /\ reclaim \in breach..Len(bars) /\ reclaim <= breach + 1
            /\ gate.event_time = bars[breach].close_time
            /\ gate.known_at = bars[reclaim].close_time
<1> DEFINE breach == Breach(bars, level, reference, touch)
           reclaim == Reclaim(bars, level, breach)
           from == Max({reference, touch})
           B == {i \in (from + 1)..Len(bars) : bars[i].low < level}
           R == {i \in breach..Min({Len(bars), breach + 1}) : bars[i].close > level}
<1>1. from \in Nat /\ touch <= from
  <2> DEFINE both == {reference, touch}
  <2>1. both \in SUBSET Int /\ reference \in both /\ touch \in both
        /\ \A x \in both : x = reference \/ x = touch
    OBVIOUS
  <2> HIDE DEF both
  <2>2. (Max(both) = reference \/ Max(both) = touch) /\ Max(both) >= touch
    BY <2>1, ExtremeOfTwo
  <2> QED BY ONLY <2>2, reference \in Nat, touch \in Nat DEF both
<1>2. breach # 0 /\ reclaim # 0
      /\ Liquidity(bars, level, reference, touch)
           = Passed([extreme |-> bars[breach].low], bars[breach].close_time, bars[reclaim].close_time)
  BY DEF Liquidity, Breach, Reclaim, Fail, Result
<1>3. breach \in 1..Len(bars) /\ touch < breach
  <2>1. B \in SUBSET (Nat \ {0}) /\ breach = FirstIndex(B)
    BY <1>1 DEF Breach
  <2> HIDE DEF breach, from
  <2>2. breach \in B
    <3> HIDE DEF B
    <3> QED BY <2>1, <1>2, FirstIndexFound
  <2> QED BY <2>2, <1>1
<1>4. reclaim \in breach..Len(bars) /\ reclaim <= breach + 1
  <2>1. reclaim = FirstIndex(R)
    BY DEF Reclaim
  <2> HIDE DEF breach
  <2> DEFINE next == breach + 1
             len == Len(bars)
             both == {len, next}
             last == Min(both)
  <2>2. /\ next \in Nat /\ breach \in Nat \ {0} /\ len \in Nat
        /\ both \in SUBSET Int /\ len \in both /\ next \in both
        /\ \A x \in both : x = len \/ x = next
    BY <1>3
  <2> HIDE DEF next, len, both
  <2>3. last \in Int /\ last <= len /\ last <= next
    BY <2>2, ExtremeOfTwo
  <2> HIDE DEF last
  <2>4. R = {i \in breach..last : bars[i].close > level}
    BY DEF last, both, len, next
  <2>5. R \in SUBSET (Nat \ {0})
    BY <2>4, <2>2, <2>3
  <2>6. reclaim \in R
    <3> HIDE DEF R, reclaim
    <3> QED BY <2>1, <2>5, <1>2, FirstIndexFound DEF reclaim
  <2> HIDE DEF R, reclaim
  <2>7. reclaim \in breach..last
    BY <2>6, <2>4
  <2>8. reclaim \in breach..len /\ reclaim <= next
    BY <2>7, <2>2, <2>3
  <2> QED BY <2>8 DEF len, next
<1> QED
  BY <1>2, <1>3, <1>4 DEF Passed, Result

\* A breach and its reclaim are found by all who see that far.
LEMMA LiquidityAgrees ==
  ASSUME NEW p, NEW q, NEW n, Agree(p, q, n), NEW level, NEW reference \in Nat, NEW touch \in Nat,
         Liquidity(p, level, reference, touch).status = "PASS",
         Reclaim(p, level, Breach(p, level, reference, touch)) <= n
  PROVE  Liquidity(q, level, reference, touch) = Liquidity(p, level, reference, touch)
<1> DEFINE breach == Breach(p, level, reference, touch)
           reclaim == Reclaim(p, level, breach)
           from == Max({reference, touch})
           B(r) == {i \in (from + 1)..Len(r) : r[i].low < level}
           R(r) == {i \in breach..Min({Len(r), breach + 1}) : r[i].close > level}
<1>0. n \in Nat /\ Len(p) \in Nat /\ Len(q) \in Nat /\ n <= Len(p) /\ n <= Len(q)
      /\ \A i \in 1..n : p[i] = q[i]
  BY DEF Agree
<1>1. from \in Nat
  BY DEF Max
<1>2. breach \in 1..Len(p) /\ reclaim \in breach..Len(p) /\ reclaim <= breach + 1
  BY <1>0, LiquidityFound
<1>3. breach \in 1..n /\ reclaim \in breach..n /\ breach # 0 /\ reclaim # 0
  BY <1>0, <1>2
<1>4. Breach(q, level, reference, touch) = breach
  <2>1. breach = FirstIndex(B(p)) /\ Breach(q, level, reference, touch) = FirstIndex(B(q))
    BY DEF Breach
  <2> HIDE DEF from, breach
  <2>2. B(p) \in SUBSET (Nat \ {0}) /\ B(q) \in SUBSET (Nat \ {0})
    BY <1>0, <1>1
  <2>3. \A i \in 1..breach : i \in B(p) <=> i \in B(q)
    BY <1>0, <1>1, <1>3
  <2> HIDE DEF B
  <2> QED BY <2>1, <2>2, <2>3, <1>3, SameFirst
<1>5. Reclaim(q, level, breach) = reclaim
  <2>1. reclaim = FirstIndex(R(p)) /\ Reclaim(q, level, breach) = FirstIndex(R(q))
    BY DEF Reclaim
  <2> HIDE DEF breach, reclaim
  <2> DEFINE next == breach + 1
             lenp == Len(p)
             lenq == Len(q)
             bothp == {lenp, next}
             bothq == {lenq, next}
             lastp == Min(bothp)
             lastq == Min(bothq)
  <2>2. next \in Nat /\ lenp \in Nat /\ lenq \in Nat /\ n <= lenp /\ n <= lenq /\ breach \in Nat \ {0}
        /\ reclaim \in breach..n /\ reclaim <= next
    BY <1>0, <1>2, <1>3
  <2>3. R(p) = {i \in breach..lastp : p[i].close > level} /\ R(q) = {i \in breach..lastq : q[i].close > level}
    OBVIOUS
  <2>4. /\ bothp \in SUBSET Int /\ lenp \in bothp /\ next \in bothp /\ \A x \in bothp : x = lenp \/ x = next
        /\ bothq \in SUBSET Int /\ lenq \in bothq /\ next \in bothq /\ \A x \in bothq : x = lenq \/ x = next
    BY <2>2
  <2> HIDE DEF next, lenp, lenq, bothp, bothq
  <2>5. (lastp = lenp \/ lastp = next) /\ (lastq = lenq \/ lastq = next)
    BY <2>4, ExtremeOfTwo
  <2> HIDE DEF lastp, lastq
  <2>6. lastp \in Nat /\ lastq \in Nat
    BY <2>2, <2>5
  <2>7. reclaim <= lastp /\ reclaim <= lastq
    BY <2>2, <2>5, <1>0
  <2> HIDE DEF R
  <2>8. R(p) \in SUBSET (Nat \ {0}) /\ R(q) \in SUBSET (Nat \ {0})
    BY <2>2, <2>3, <2>6, <2>7
  <2>9. \A i \in 1..reclaim : i \in R(p) <=> i \in R(q)
    BY <2>2, <2>3, <2>6, <2>7, <1>0
  <2> QED BY <2>1, <2>8, <2>9, <1>3, SameFirst
<1>6. p[breach] = q[breach] /\ p[reclaim] = q[reclaim]
  BY <1>0, <1>3
<1>7. Liquidity(p, level, reference, touch)
        = Passed([extreme |-> p[breach].low], p[breach].close_time, p[reclaim].close_time)
  BY <1>3 DEF Liquidity, Breach, Reclaim
<1>8. Liquidity(q, level, reference, touch)
        = Passed([extreme |-> q[breach].low], q[breach].close_time, q[reclaim].close_time)
  <2> HIDE DEF breach, reclaim
  <2> QED BY <1>3, <1>4, <1>5 DEF Liquidity, Breach, Reclaim
<1> QED BY <1>6, <1>7, <1>8
--------------------------------------------------------------------------------
(* The liquidity gate *)

FirstTouch(hours, block) == FirstZoneTouch(hours, block.value.zone, block.known_at)
Observed(hours, touch) == SubSeq(hours, 1, Min({Len(hours), touch + PoiTimeout}))
FrozenLows(hours, touch) == KnownBefore(LowPivots(hours), touch)

\* What is observed after a touch is a beginning of the hours.
LEMMA ObservedHours ==
  ASSUME NEW hours, NEW S, hours \in Seq(S), NEW touch \in Nat
  PROVE  \E m \in 0..Len(hours) :
           /\ Observed(hours, touch) = SubSeq(hours, 1, m)
           /\ Len(Observed(hours, touch)) = m
           /\ \A i \in 1..m : Observed(hours, touch)[i] = hours[i]
           /\ m <= touch + PoiTimeout
           /\ m = Len(hours) \/ m = touch + PoiTimeout
<1> DEFINE len == Len(hours)
           end == touch + PoiTimeout
           both == {len, end}
           m == Min(both)
<1>1. /\ len \in Nat /\ end \in Nat /\ both \in SUBSET Int /\ len \in both /\ end \in both
      /\ \A x \in both : x = len \/ x = end
  <2>1. PoiTimeout \in Nat /\ len \in Nat
    BY StrategyAssumption
  <2>2. end \in Nat
    BY ONLY <2>1
  <2> HIDE DEF len, end
  <2> QED BY ONLY <2>1, <2>2
<1>2. Observed(hours, touch) = SubSeq(hours, 1, m)
  BY DEF Observed
<1> HIDE DEF both, end
<1>3. (m = len \/ m = end) /\ m <= len /\ m <= end
  BY <1>1, ExtremeOfTwo
<1> HIDE DEF m
<1>4. m \in 0..len
  BY <1>1, <1>3
<1>5. Len(SubSeq(hours, 1, m)) = m /\ \A i \in 1..m : SubSeq(hours, 1, m)[i] = hours[i]
  BY <1>4, BeginningOf
<1> QED
  BY <1>2, <1>3, <1>4, <1>5 DEF end

\* The touch is the first hour that opens after the block is known and reaches
\* its zone; all who see it agree on it.
LEMMA TouchFound ==
  ASSUME NEW hours, Len(hours) \in Nat, DOMAIN hours = 1..Len(hours), NEW block
  PROVE  /\ FirstTouch(hours, block) \in 0..Len(hours)
         /\ FirstTouch(hours, block) # 0 => hours[FirstTouch(hours, block)].open_time > block.known_at
<1> DEFINE S == {i \in DOMAIN hours : /\ hours[i].open_time > block.known_at
                                      /\ hours[i].low <= block.value.zone.high
                                      /\ hours[i].high >= block.value.zone.low}
<1>1. FirstTouch(hours, block) = FirstIndex(S) /\ S \in SUBSET (Nat \ {0})
  BY DEF FirstTouch, FirstZoneTouch
<1>2. FirstIndex(S) # 0 => FirstIndex(S) \in S
  <2>1. S \in SUBSET (Nat \ {0})
    BY <1>1
  <2> HIDE DEF S
  <2> QED BY ONLY <2>1, FirstIndexFound
<1>3. S \subseteq 1..Len(hours) /\ (\A i \in S : hours[i].open_time > block.known_at)
  OBVIOUS
<1> HIDE DEF S
<1>4. CASE FirstIndex(S) = 0
  BY <1>1, <1>4
<1>5. CASE FirstIndex(S) # 0
  <2>1. FirstIndex(S) \in S
    BY <1>2, <1>5
  <2>2. FirstIndex(S) \in 1..Len(hours) /\ hours[FirstIndex(S)].open_time > block.known_at
    BY ONLY <1>3, <2>1
  <2> DEFINE found == FirstIndex(S)
  <2>3. found \in 0..Len(hours)
    <3>1. found \in 1..Len(hours)
      BY <2>2
    <3> HIDE DEF found
    <3> QED BY ONLY <3>1
  <2> QED BY <1>1, <2>2, <2>3
<1> QED BY <1>4, <1>5

\* Both see the same first touch, when it is among the bars they share.
LEMMA TouchAgrees ==
  ASSUME NEW p, NEW q, NEW n, Agree(p, q, n), NEW block, FirstTouch(p, block) \in 1..n
  PROVE  FirstTouch(q, block) = FirstTouch(p, block)
<1> DEFINE S(r) == {i \in DOMAIN r : /\ r[i].open_time > block.known_at
                                     /\ r[i].low <= block.value.zone.high
                                     /\ r[i].high >= block.value.zone.low}
<1>1. \A r : FirstTouch(r, block) = FirstIndex(S(r))
  BY DEF FirstTouch, FirstZoneTouch
<1>2. S(p) \in SUBSET (Nat \ {0}) /\ S(q) \in SUBSET (Nat \ {0})
  BY DEF Agree
<1>3. \A i \in 1..n : i \in S(p) <=> i \in S(q)
  BY DEF Agree
<1>4. FirstIndex(S(p)) \in 1..n /\ n \in Nat
  BY <1>1 DEF Agree
<1> HIDE DEF S
<1>5. FirstIndex(S(p)) # 0 /\ \A i \in 1..FirstIndex(S(p)) : i \in S(p) <=> i \in S(q)
  BY <1>3, <1>4
<1>6. FirstIndex(S(q)) = FirstIndex(S(p))
  BY <1>2, <1>5, SameFirst
<1> QED BY <1>1, <1>6

\* The gate in terms of these.
LEMMA LiquidityGateIs ==
  ASSUME NEW hours, NEW block
  PROVE  LiquidityGate(hours, block)
           = IF FirstTouch(hours, block) = 0 THEN Unavailable("poi_touch_not_in_1h_snapshot")
             ELSE IF FrozenLows(hours, FirstTouch(hours, block)) = {}
               THEN Unavailable("no_frozen_sell_side_liquidity")
             ELSE Liquidity(Observed(hours, FirstTouch(hours, block)),
                            hours[Max(FrozenLows(hours, FirstTouch(hours, block)))].low,
                            Max(FrozenLows(hours, FirstTouch(hours, block))),
                            FirstTouch(hours, block))
  BY DEF LiquidityGate, FirstTouch, FrozenLows, Observed

\* A passed liquidity gate: the level is broken after the touch, and the sweep
\* is the hour that reclaims it.
LEMMA SweepFound ==
  ASSUME NEW hours, NEW size \in Nat \ {0}, Timeline(hours, size), NEW block,
         LiquidityGate(hours, block).status = "PASS"
  PROVE  LET gate == LiquidityGate(hours, block)
             touch == FirstTouch(hours, block)
             frozen == FrozenLows(hours, touch)
             observed == Observed(hours, touch)
             level == hours[Max(frozen)].low
             sweep == Reclaim(observed, level, Breach(observed, level, Max(frozen), touch))
         IN /\ touch \in 1..Len(hours) /\ frozen # {} /\ Max(frozen) \in Nat
            /\ gate = Liquidity(observed, level, Max(frozen), touch)
            /\ sweep = Sweep(hours, block)
            /\ sweep \in 1..Len(hours) /\ touch < sweep /\ sweep <= touch + PoiTimeout
            /\ gate.known_at = hours[sweep].close_time
            /\ \E breach \in 1..sweep : touch < breach /\ gate.event_time = hours[breach].close_time
<1> DEFINE touch == FirstTouch(hours, block)
           frozen == FrozenLows(hours, touch)
           observed == Observed(hours, touch)
           level == hours[Max(frozen)].low
           breach == Breach(observed, level, Max(frozen), touch)
           sweep == Reclaim(observed, level, breach)
           gate == LiquidityGate(hours, block)
<1>0. /\ Len(hours) \in Nat /\ DOMAIN hours = 1..Len(hours)
      /\ hours \in Seq({hours[i] : i \in DOMAIN hours})
  BY DEF Timeline
<1>1. touch # 0 /\ frozen # {} /\ gate = Liquidity(observed, level, Max(frozen), touch)
  BY LiquidityGateIs DEF Unavailable, Result
<1>2. touch \in 1..Len(hours)
  BY <1>0, <1>1, TouchFound
<1>3. Max(frozen) \in 1..Len(hours)
  <2>1. Agree(hours, hours, Len(hours)) /\ touch \in Int /\ touch <= Len(hours) + 1
    BY <1>0, <1>2 DEF Agree
  <2>2. frozen \in {KnownBefore(LowPivots(hours), touch), KnownBefore(HighPivots(hours), touch)}
    BY DEF FrozenLows
  <2> HIDE DEF touch, frozen
  <2> QED BY <2>1, <2>2, <1>1, NewestFrozen
<1>4. PICK m \in 0..Len(hours) :
        /\ Len(observed) = m /\ m <= touch + PoiTimeout
        /\ \A i \in 1..m : observed[i] = hours[i]
  <2>1. touch \in Nat
    BY <1>2, <1>0
  <2> HIDE DEF touch
  <2> QED BY <2>1, <1>0, ObservedHours
<1>5. /\ breach \in 1..m /\ touch < breach
      /\ sweep \in breach..m /\ sweep <= breach + 1
      /\ gate.event_time = observed[breach].close_time
      /\ gate.known_at = observed[sweep].close_time
  <2>1. Len(observed) \in Nat /\ Max(frozen) \in Nat /\ touch \in Nat
        /\ Liquidity(observed, level, Max(frozen), touch).status = "PASS"
    BY <1>1, <1>2, <1>3, <1>4, <1>0
  <2>2. LET g == Liquidity(observed, level, Max(frozen), touch)
        IN /\ breach \in 1..Len(observed) /\ touch < breach
           /\ sweep \in breach..Len(observed) /\ sweep <= breach + 1
           /\ g.event_time = observed[breach].close_time
           /\ g.known_at = observed[sweep].close_time
    <3> HIDE DEF observed, level, frozen, touch
    <3> QED BY <2>1, LiquidityFound
  <2> HIDE DEF observed, level, frozen, touch, breach, sweep, gate
  <2> QED BY <2>2, <1>1, <1>4
<1> HIDE DEF observed, level, frozen, touch, breach, sweep, gate
<1>6. /\ touch \in 1..Len(hours) /\ breach \in 1..sweep /\ sweep \in 1..Len(hours)
      /\ touch < sweep /\ sweep <= touch + PoiTimeout
  <2>1. touch \in Nat /\ breach \in Nat /\ sweep \in Nat /\ m \in Nat /\ PoiTimeout \in Nat
    BY <1>0, <1>2, <1>4, <1>5, StrategyAssumption
  <2> QED BY <2>1, <1>0, <1>2, <1>4, <1>5
<1>7. gate.event_time = hours[breach].close_time /\ gate.known_at = hours[sweep].close_time
  <2>1. breach \in 1..m /\ sweep \in 1..m
    BY <1>5, <1>4
  <2> QED BY <2>1, <1>4, <1>5
<1>8. sweep = Sweep(hours, block)
  <2>1. FirstIndexAtOrAfter(hours, hours[sweep].close_time) = sweep
    BY <1>6, <1>0, FirstToClose
  <2> QED BY <2>1, <1>7 DEF Sweep, gate
<1>9. Max(frozen) \in Nat
  BY <1>3, <1>0
<1> QED
  BY <1>1, <1>6, <1>7, <1>8, <1>9, <1>5 DEF observed, level, frozen, touch, breach, sweep, gate

\* A liquidity gate that has passed, or has failed after all its waiting, is
\* the same for all who see that far.
LEMMA LiquidityGateAgrees ==
  ASSUME NEW p, NEW q, NEW n, Agree(p, q, n), NEW size \in Nat \ {0},
         Timeline(p, size), Timeline(q, size), NEW block
  PROVE  /\ LiquidityGate(p, block).status = "PASS" /\ Sweep(p, block) <= n
              => LiquidityGate(q, block) = LiquidityGate(p, block) /\ Sweep(q, block) = Sweep(p, block)
         /\ LiquidityGate(p, block).status = "FAIL" /\ FirstTouch(p, block) + PoiTimeout <= n
              => LiquidityGate(q, block) = LiquidityGate(p, block)
<1> DEFINE touch == FirstTouch(p, block)
           frozen == FrozenLows(p, touch)
           level == p[Max(frozen)].low
<1>0. /\ n \in Nat /\ Len(p) \in Nat /\ Len(q) \in Nat /\ n <= Len(p) /\ n <= Len(q)
      /\ DOMAIN p = 1..Len(p) /\ DOMAIN q = 1..Len(q)
      /\ \A i \in 1..n : p[i] = q[i]
      /\ p \in Seq({p[i] : i \in DOMAIN p}) /\ q \in Seq({q[i] : i \in DOMAIN q})
      /\ PoiTimeout \in Nat
  BY StrategyAssumption DEF Agree, Timeline
<1>1. ASSUME touch \in 1..n, frozen # {}
      PROVE  /\ Max(frozen) \in Nat
             /\ LiquidityGate(p, block) = Liquidity(Observed(p, touch), level, Max(frozen), touch)
             /\ LiquidityGate(q, block) = Liquidity(Observed(q, touch), level, Max(frozen), touch)
  <2>1. FirstTouch(q, block) = touch /\ touch # 0
    BY <1>1, TouchAgrees
  <2>2. touch \in Int /\ touch <= n + 1
    BY <1>1, <1>0
  <2>3. FrozenLows(q, touch) = frozen /\ Max(frozen) \in 1..n /\ q[Max(frozen)] = p[Max(frozen)]
    <3>1. frozen \in {KnownBefore(LowPivots(p), touch), KnownBefore(HighPivots(p), touch)}
      BY DEF FrozenLows
    <3>2. FrozenLows(q, touch) = frozen
      <4> HIDE DEF touch
      <4> QED BY <2>2, FrozenAgree DEF FrozenLows
    <3> HIDE DEF touch, frozen
    <3> QED BY <3>1, <3>2, <2>2, <1>1, NewestFrozen
  <2> HIDE DEF touch, frozen
  <2>4. LiquidityGate(p, block) = Liquidity(Observed(p, touch), p[Max(frozen)].low, Max(frozen), touch)
    BY <2>1, <1>1, LiquidityGateIs DEF touch, frozen
  <2>5. LiquidityGate(q, block) = Liquidity(Observed(q, touch), q[Max(frozen)].low, Max(frozen), touch)
    BY <2>1, <2>3, <1>1, LiquidityGateIs
  <2> QED BY <2>3, <2>4, <2>5, <1>0
<1>2. ASSUME LiquidityGate(p, block).status = "PASS", Sweep(p, block) <= n
      PROVE  LiquidityGate(q, block) = LiquidityGate(p, block) /\ Sweep(q, block) = Sweep(p, block)
  <2> DEFINE before == Observed(p, touch)
             after == Observed(q, touch)
             sweep == Reclaim(before, level, Breach(before, level, Max(frozen), touch))
  <2>1. /\ touch \in 1..Len(p) /\ frozen # {} /\ Max(frozen) \in Nat
        /\ LiquidityGate(p, block) = Liquidity(before, level, Max(frozen), touch)
        /\ sweep = Sweep(p, block)
        /\ sweep \in 1..Len(p) /\ touch < sweep /\ sweep <= touch + PoiTimeout
        /\ LiquidityGate(p, block).known_at = p[sweep].close_time
    BY <1>2, SweepFound
  <2> HIDE DEF sweep, level, frozen, before, after, touch
  <2>2. touch \in Nat /\ touch \in 1..n /\ sweep \in 1..n
    <3>1. sweep <= n
      BY <2>1, <1>2
    <3>2. touch \in Nat /\ sweep \in Nat /\ n \in Nat /\ 1 <= touch /\ touch < sweep
      BY ONLY <2>1, <1>0
    <3> QED BY ONLY <3>1, <3>2
  <2>3. LiquidityGate(q, block) = Liquidity(after, level, Max(frozen), touch)
    BY <2>1, <2>2, <1>1 DEF level, frozen, touch, after
  <2>4. PICK m \in 0..Len(p) : /\ before = SubSeq(p, 1, m) /\ Len(before) = m
                               /\ \A i \in 1..m : before[i] = p[i]
                               /\ m = Len(p) \/ m = touch + PoiTimeout
    <3> DEFINE S == {p[i] : i \in DOMAIN p}
    <3>1. p \in Seq(S) /\ touch \in Nat
      BY <1>0, <2>2
    <3> HIDE DEF S
    <3> QED BY ONLY <3>1, ObservedHours DEF before
  <2>5. PICK k \in 0..Len(q) : /\ after = SubSeq(q, 1, k) /\ Len(after) = k
                               /\ \A i \in 1..k : after[i] = q[i]
                               /\ k = Len(q) \/ k = touch + PoiTimeout
    <3> DEFINE S == {q[i] : i \in DOMAIN q}
    <3>1. q \in Seq(S) /\ touch \in Nat
      BY <1>0, <2>2
    <3> HIDE DEF S
    <3> QED BY ONLY <3>1, ObservedHours DEF after
  <2>6. sweep <= m /\ sweep <= k /\ m \in Nat /\ k \in Nat /\ sweep \in Nat
    <3>1. m \in Nat /\ k \in Nat /\ sweep \in Nat /\ sweep <= Len(p) /\ sweep <= Len(q)
      BY <2>2, <1>0
    <3> QED BY <3>1, <2>1, <2>4, <2>5
  <2>7. Agree(before, after, sweep)
    <3>1. DOMAIN before = 1..m /\ DOMAIN after = 1..k
      BY <2>4, <2>5, <1>0, BeginningOf
    <3>2. \A i \in 1..sweep : before[i] = after[i]
      <4> SUFFICES ASSUME NEW i \in 1..sweep PROVE before[i] = after[i]
        OBVIOUS
      <4>1. i \in 1..m /\ i \in 1..k /\ i \in 1..n
        BY <2>6, <2>2, <1>0
      <4>2. before[i] = p[i] /\ after[i] = q[i] /\ p[i] = q[i]
        BY ONLY <4>1, <2>4, <2>5, <1>0
      <4> QED BY <4>2
    <3>3. /\ Len(before) = m /\ Len(after) = k /\ m \in Nat /\ k \in Nat
          /\ sweep \in 0..m /\ sweep \in 0..k
      BY ONLY <2>4, <2>5, <2>6
    <3> QED BY ONLY <3>1, <3>2, <3>3 DEF Agree
  <2>8. Liquidity(after, level, Max(frozen), touch) = Liquidity(before, level, Max(frozen), touch)
    <3>1. Reclaim(before, level, Breach(before, level, Max(frozen), touch)) <= sweep
      BY <2>6 DEF sweep
    <3>2. Liquidity(before, level, Max(frozen), touch).status = "PASS"
      BY <2>1, <1>2
    <3> QED BY <3>1, <3>2, <2>1, <2>2, <2>7, LiquidityAgrees
  <2>9. FirstIndexAtOrAfter(q, q[sweep].close_time) = sweep
    <3>1. sweep \in DOMAIN q
      BY <2>2, <1>0
    <3> QED BY <3>1, FirstToClose
  <2>10. q[sweep] = p[sweep] /\ sweep = Sweep(p, block)
    BY <2>1, <2>2, <1>0
  <2>11. LiquidityGate(q, block) = LiquidityGate(p, block)
    BY <2>1, <2>3, <2>8
  <2>12. Sweep(q, block) = FirstIndexAtOrAfter(q, p[sweep].close_time)
    BY <2>11, <2>1 DEF Sweep
  <2> QED
    BY <2>9, <2>10, <2>11, <2>12
<1>3. ASSUME LiquidityGate(p, block).status = "FAIL", touch + PoiTimeout <= n
      PROVE  LiquidityGate(q, block) = LiquidityGate(p, block)
  <2>1. touch # 0 /\ frozen # {}
    BY <1>3, LiquidityGateIs DEF Unavailable, Result
  <2>2. touch \in 0..Len(p)
    BY <1>0, TouchFound
  <2> HIDE DEF touch, level, frozen
  <2>3. touch \in 1..n /\ touch \in Nat
    BY <1>3, <2>1, <2>2, <1>0
  <2>4. PICK m \in 0..Len(p) : /\ Observed(p, touch) = SubSeq(p, 1, m)
                               /\ m <= touch + PoiTimeout
                               /\ m = Len(p) \/ m = touch + PoiTimeout
    BY <2>3, <1>0, ObservedHours
  <2>5. PICK k \in 0..Len(q) : /\ Observed(q, touch) = SubSeq(q, 1, k)
                               /\ k <= touch + PoiTimeout
                               /\ k = Len(q) \/ k = touch + PoiTimeout
    BY <2>3, <1>0, ObservedHours
  <2>6. m = touch + PoiTimeout /\ k = touch + PoiTimeout /\ m \in 0..n
    <3> DEFINE end == touch + PoiTimeout
    <3>1. end \in Nat /\ end <= n
      BY <2>3, <1>0, <1>3
    <3> HIDE DEF end
    <3>2. (m = Len(p) \/ m = end) /\ (k = Len(q) \/ k = end) /\ m <= end /\ k <= end
      BY <2>4, <2>5 DEF end
    <3>3. m \in Nat /\ k \in Nat
      BY <1>0
    <3>4. end <= m /\ end <= k
      <4>1. end <= Len(p) /\ end <= Len(q)
        BY <3>1, <1>0
      <4>2. (end <= m \/ m = end) /\ (end <= k \/ k = end)
        BY <3>2, <4>1
      <4> QED BY <4>2, <3>1
    <3>5. m = end /\ k = end
      BY <3>1, <3>2, <3>3, <3>4
    <3> QED BY <3>1, <3>5, <1>0 DEF end
  <2>7. SubSeq(p, 1, m) = SubSeq(q, 1, k)
    BY <2>6, SameBeginning
  <2> QED
    BY <2>1, <2>3, <2>4, <2>5, <2>7, <1>1 DEF touch, level, frozen
<1> QED
  BY <1>2, <1>3
--------------------------------------------------------------------------------
(* Displacement and structure shift *)

\* Whether a bar is a displacement is for that bar and the ones before it to say.
LEMMA DisplacementShared ==
  ASSUME NEW p, NEW q, NEW n, Agree(p, q, n), NEW index \in 1..n
  PROVE  IsDisplacement(p, index) <=> IsDisplacement(q, index)
<1> DEFINE back == index - DisplacementLookback
           both == {1, back}
           first == Max(both)
           Prior(r) == [k \in 1..(index - first) |-> Body(r[first + k - 1])]
           Judged(r) == LET b == r[index]
                            span == b.high - b.low
                        IN /\ Prior(r) # <<>>
                           /\ b.close > b.open
                           /\ 200 * Body(b) >= DoubledMedian(Prior(r)) * BodyMultiplePct
                           /\ 100 * Body(b) >= BodyRatioPct * span
                           /\ 100 * (b.high - b.close) <= CloseEdgePct * span
<1>0. n \in Nat /\ index \in Nat /\ DisplacementLookback \in Nat /\ \A i \in 1..n : p[i] = q[i]
  BY StrategyAssumption DEF Agree
<1>1. back \in Int /\ both \in SUBSET Int /\ 1 \in both /\ back \in both /\ \A x \in both : x = 1 \/ x = back
  BY <1>0
<1>2. (IsDisplacement(p, index) <=> Judged(p)) /\ (IsDisplacement(q, index) <=> Judged(q))
  BY DEF IsDisplacement
<1>3. first \in Int /\ first >= 1
  <2> HIDE DEF back, both
  <2> QED BY <1>1, ExtremeOfTwo
<1>4. Prior(p) = Prior(q)
  <2> HIDE DEF first
  <2>1. \A k \in 1..(index - first) : first + k - 1 \in 1..n
    BY <1>0, <1>3
  <2> QED BY <2>1, <1>0
<1>5. p[index] = q[index]
  BY <1>0
<1> HIDE DEF Prior
<1> QED
  BY <1>2, <1>4, <1>5

\* The displacement is one of the window's bars after the sweep, and all who
\* see it, or all of the window, agree on it.
LEMMA DisplacementFound ==
  ASSUME NEW bars, Len(bars) \in Nat, NEW sweep \in Nat
  PROVE  /\ DisplacementIndex(bars, sweep) \in 0..Len(bars)
         /\ DisplacementIndex(bars, sweep) # 0
              => sweep < DisplacementIndex(bars, sweep)
                 /\ DisplacementIndex(bars, sweep) <= sweep + DisplacementWindow
<1> DEFINE len == Len(bars)
           end == sweep + DisplacementWindow
           both == {len, end}
           last == Min(both)
           S == {i \in (sweep + 1)..last : IsDisplacement(bars, i)}
<1>1. /\ len \in Nat /\ end \in Nat /\ both \in SUBSET Int /\ len \in both /\ end \in both
      /\ \A x \in both : x = len \/ x = end
  BY StrategyAssumption
<1>2. DisplacementIndex(bars, sweep) = FirstIndex(S)
  BY DEF DisplacementIndex
<1> HIDE DEF both, end
<1>3. (last = len \/ last = end) /\ last <= len /\ last <= end
  BY <1>1, ExtremeOfTwo
<1> HIDE DEF last
<1>4. last \in Nat
  BY <1>1, <1>3
<1>5. \A i \in S : i \in 1..len /\ sweep < i /\ i <= end
  BY <1>1, <1>3, <1>4
<1>6. FirstIndex(S) # 0 => FirstIndex(S) \in S
  <2>1. S \in SUBSET (Nat \ {0})
    BY <1>5
  <2> HIDE DEF S
  <2> QED BY <2>1, FirstIndexFound
<1> HIDE DEF S
<1> QED BY <1>1, <1>2, <1>5, <1>6 DEF end

\* Both find the same displacement, when it or all its window is shared.
LEMMA DisplacementAgrees ==
  ASSUME NEW p, NEW q, NEW n, Agree(p, q, n), NEW sweep \in Nat,
         \/ DisplacementIndex(p, sweep) \in 1..n
         \/ sweep + DisplacementWindow <= n
  PROVE  DisplacementIndex(q, sweep) = DisplacementIndex(p, sweep)
<1> DEFINE end == sweep + DisplacementWindow
           bothp == {Len(p), end}
           bothq == {Len(q), end}
           lastp == Min(bothp)
           lastq == Min(bothq)
           S == {i \in (sweep + 1)..lastp : IsDisplacement(p, i)}
           T == {i \in (sweep + 1)..lastq : IsDisplacement(q, i)}
<1>0. /\ n \in Nat /\ Len(p) \in Nat /\ Len(q) \in Nat /\ n <= Len(p) /\ n <= Len(q)
      /\ end \in Nat /\ DisplacementWindow \in Nat
  <2>1. DisplacementWindow \in Nat
    BY ONLY StrategyAssumption
  <2>2. /\ n \in Nat /\ Len(p) \in Nat /\ Len(q) \in Nat /\ n <= Len(p) /\ n <= Len(q)
    BY ONLY Agree(p, q, n) DEF Agree
  <2>3. end \in Nat
    BY <2>1
  <2> HIDE DEF end
  <2> QED BY ONLY <2>1, <2>2, <2>3
<1>1. /\ bothp \in SUBSET Int /\ Len(p) \in bothp /\ end \in bothp /\ \A x \in bothp : x = Len(p) \/ x = end
      /\ bothq \in SUBSET Int /\ Len(q) \in bothq /\ end \in bothq /\ \A x \in bothq : x = Len(q) \/ x = end
  <2> HIDE DEF end
  <2>1. /\ bothp \in SUBSET Int /\ Len(p) \in bothp /\ end \in bothp
        /\ \A x \in bothp : x = Len(p) \/ x = end
    BY ONLY <1>0
  <2>2. /\ bothq \in SUBSET Int /\ Len(q) \in bothq /\ end \in bothq
        /\ \A x \in bothq : x = Len(q) \/ x = end
    BY ONLY <1>0
  <2> QED BY <2>1, <2>2
<1>2. DisplacementIndex(p, sweep) = FirstIndex(S) /\ DisplacementIndex(q, sweep) = FirstIndex(T)
  BY DEF DisplacementIndex
<1>3. (sweep + DisplacementWindow <= n) <=> (end <= n)
  OBVIOUS
<1> HIDE DEF bothp, bothq, end
<1>4. /\ lastp = Len(p) \/ lastp = end
      /\ lastq = Len(q) \/ lastq = end
      /\ lastp <= end /\ lastq <= end
  BY <1>1, ExtremeOfTwo
<1> HIDE DEF lastp, lastq
<1>5. lastp \in Nat /\ lastq \in Nat
  BY <1>0, <1>4
<1>6. S \in SUBSET (Nat \ {0}) /\ T \in SUBSET (Nat \ {0})
  BY <1>5
<1>7. \A i \in 1..n : (i <= lastp /\ i <= lastq) \/ end < i
  BY <1>0, <1>4, <1>5
<1>8. \A i \in 1..n : i \in S <=> i \in T
  <2> SUFFICES ASSUME NEW i \in 1..n
               PROVE  i \in S <=> i \in T
    OBVIOUS
  <2>1. IsDisplacement(p, i) <=> IsDisplacement(q, i)
    BY DisplacementShared
  <2>2. i \in (sweep + 1)..lastp <=> i \in (sweep + 1)..lastq
    BY <1>7, <1>4, <1>5, <1>0
  <2> QED BY <2>1, <2>2
<1>9. CASE FirstIndex(S) \in 1..n
  <2>1. FirstIndex(S) # 0 /\ \A i \in 1..FirstIndex(S) : i \in S <=> i \in T
    <3> HIDE DEF S, T
    <3> QED BY <1>9, <1>8, <1>0
  <2> HIDE DEF S, T
  <2> QED BY <2>1, <1>6, <1>2, SameFirst
<1>10. CASE end <= n
  <2>1. \A i \in S \cup T : i \in 1..n
    BY <1>10, <1>4, <1>5, <1>0
  <2>2. S = T
    <3>1. \A i : i \in S <=> i \in T
      <4> HIDE DEF S, T
      <4> QED BY <2>1, <1>8
    <3> HIDE DEF S, T
    <3> QED BY <3>1
  <2> HIDE DEF S, T
  <2> QED BY <2>2, <1>2
<1> HIDE DEF S, T
<1> QED BY <1>9, <1>10, <1>2, <1>3

\* The structure shift is judged by what the displacement and the sweep know.
LEMMA MssAgrees ==
  ASSUME NEW p, NEW q, NEW n, Agree(p, q, n), NEW sweep \in 1..n, NEW displaced \in 1..n
  PROVE  MssGate(q, sweep, displaced) = MssGate(p, sweep, displaced)
<1> DEFINE frozen == KnownBefore(HighPivots(p), sweep)
<1>0. n \in Nat /\ sweep \in Int /\ sweep <= n + 1
  BY DEF Agree
<1>1. KnownBefore(HighPivots(q), sweep) = frozen
  BY <1>0, FrozenAgree
<1>2. frozen # {} => p[Max(frozen)] = q[Max(frozen)]
  <2>1. frozen \in {KnownBefore(LowPivots(p), sweep), KnownBefore(HighPivots(p), sweep)}
    OBVIOUS
  <2> HIDE DEF frozen
  <2> QED BY <2>1, <1>0, NewestFrozen
<1>3. SubSeq(p, 1, displaced) = SubSeq(q, 1, displaced)
  <2>1. displaced \in 0..n
    BY <1>0
  <2> QED BY <2>1, SameBeginning
<1> HIDE DEF frozen
<1>4. MssGate(p, sweep, displaced)
        = IF frozen = {} THEN Unavailable("no_frozen_opposing_swing")
          ELSE Mss(SubSeq(p, 1, displaced), p[Max(frozen)].high)
  BY DEF MssGate, frozen
<1>5. MssGate(q, sweep, displaced)
        = IF frozen = {} THEN Unavailable("no_frozen_opposing_swing")
          ELSE Mss(SubSeq(q, 1, displaced), q[Max(frozen)].high)
  BY <1>1 DEF MssGate
<1>6. CASE frozen = {}
  BY <1>4, <1>5, <1>6
<1>7. CASE frozen # {}
  <2>1. p[Max(frozen)].high = q[Max(frozen)].high
    BY <1>2, <1>7
  <2> QED BY <2>1, <1>3, <1>4, <1>5, <1>7
<1> QED BY <1>6, <1>7
--------------------------------------------------------------------------------
(* The gap *)

\* The bars among which ict_5m_fvg looks for a gap and for its retracement.
GapBars(bars, start, end) ==
  {i \in Max({start + 2, 3})..Min({end, Len(bars)}) : bars[i].low > bars[i - 2].high}
GapEntry(bars, formed) ==
  100 * bars[formed - 2].high + EntryPct * (bars[formed].low - bars[formed - 2].high)
RetracingBars(bars, formed) ==
  {i \in (formed + 1)..Min({formed + FvgWait, Len(bars)}) :
     100 * bars[i].low <= GapEntry(bars, formed)}
LastWaited(bars, formed) == Min({Len(bars), formed + FvgWait})

\* A fair value gap by what is found: none, one that expires, one that fills.
LEMMA GapIs ==
  ASSUME NEW bars, NEW start, NEW end
  PROVE  LET formed == FirstIndex(GapBars(bars, start, end))
             fill == FirstIndex(RetracingBars(bars, formed))
         IN Fvg(bars, start, end)
              = IF formed = 0 THEN Fail("no_fvg")
                ELSE IF fill = 0
                  THEN Result("FAIL", "fvg_retracement_expired", NoValue, bars[formed].close_time,
                              bars[LastWaited(bars, formed)].close_time)
                ELSE Passed([entry |-> GapEntry(bars, formed)], bars[formed].close_time,
                            bars[fill].close_time)
  BY DEF Fvg, GapBars, RetracingBars, GapEntry, LastWaited

\* Where a gap and its retracement can be.
LEMMA GapRange ==
  ASSUME NEW bars, Len(bars) \in Nat, NEW start \in Nat, NEW end \in Nat
  PROVE  \A i : i \in GapBars(bars, start, end)
                  <=> /\ i \in 1..Len(bars) /\ start + 2 <= i /\ 3 <= i /\ i <= end
                      /\ bars[i].low > bars[i - 2].high
<1> DEFINE third == start + 2
           later == {third, 3}
           first == Max(later)
           both == {end, Len(bars)}
           last == Min(both)
<1>1. /\ third \in Nat /\ 3 \in Nat /\ later \in SUBSET Int /\ third \in later /\ 3 \in later
      /\ \A x \in later : x = third \/ x = 3
      /\ both \in SUBSET Int /\ end \in both /\ Len(bars) \in both
      /\ \A x \in both : x = end \/ x = Len(bars)
  OBVIOUS
<1>2. GapBars(bars, start, end) = {i \in first..last : bars[i].low > bars[i - 2].high}
  BY DEF GapBars
<1> HIDE DEF third, later, both
<1>3. (first = third \/ first = 3) /\ first >= third /\ first >= 3
  BY <1>1, ExtremeOfTwo
<1>4. (last = end \/ last = Len(bars)) /\ last <= end /\ last <= Len(bars)
  BY <1>1, ExtremeOfTwo
<1> HIDE DEF first, last
<1>5. first \in Nat /\ last \in Nat
  BY <1>1, <1>3, <1>4
<1>6. \A i : i \in first..last <=> i \in 1..Len(bars) /\ third <= i /\ 3 <= i /\ i <= end
  <2> SUFFICES ASSUME NEW i \in Int
               PROVE  i \in first..last <=> i \in 1..Len(bars) /\ third <= i /\ 3 <= i /\ i <= end
    BY <1>5
  <2>1. i \in first..last <=> first <= i /\ i <= last
    BY <1>5
  <2>2. first <= i <=> third <= i /\ 3 <= i
    BY <1>1, <1>3, <1>5
  <2>3. i <= last <=> i <= end /\ i <= Len(bars)
    <3>1. CASE last = end
      BY <3>1, <1>4, <1>5
    <3>2. CASE last = Len(bars)
      BY <3>2, <1>4, <1>5
    <3> QED BY <3>1, <3>2, <1>4
  <2> QED BY <2>1, <2>2, <2>3
<1> QED BY <1>2, <1>6 DEF third

\* The bars that can fill a gap are the ones behind it that are waited for.
LEMMA RetracingRange ==
  ASSUME NEW bars, Len(bars) \in Nat, NEW formed \in Nat
  PROVE  /\ \A i : i \in RetracingBars(bars, formed)
                     <=> /\ i \in 1..Len(bars) /\ formed < i /\ i <= formed + FvgWait
                         /\ 100 * bars[i].low <= GapEntry(bars, formed)
         /\ formed <= Len(bars) => LastWaited(bars, formed) \in formed..Len(bars)
         /\ formed + FvgWait <= Len(bars) => LastWaited(bars, formed) = formed + FvgWait
<1> DEFINE end == formed + FvgWait
           both == {end, Len(bars)}
           last == Min(both)
<1>1. /\ end \in Nat /\ formed <= end /\ FvgWait \in Nat
      /\ both \in SUBSET Int /\ end \in both /\ Len(bars) \in both
      /\ \A x \in both : x = end \/ x = Len(bars)
  BY StrategyAssumption
<1>2. /\ RetracingBars(bars, formed)
           = {i \in (formed + 1)..last : 100 * bars[i].low <= GapEntry(bars, formed)}
      /\ LastWaited(bars, formed) = last
  <2>1. {Len(bars), formed + FvgWait} = both
    OBVIOUS
  <2> HIDE DEF both
  <2>2. LastWaited(bars, formed) = last
    BY <2>1 DEF LastWaited
  <2> QED BY <2>2 DEF RetracingBars, both
<1> HIDE DEF end, both
<1>3. (last = end \/ last = Len(bars)) /\ last <= end /\ last <= Len(bars)
  BY <1>1, ExtremeOfTwo
<1> HIDE DEF last
<1>4. last \in Nat
  BY <1>1, <1>3
<1>5. \A i : i \in (formed + 1)..last <=> i \in 1..Len(bars) /\ formed < i /\ i <= end
  <2> SUFFICES ASSUME NEW i \in Int
               PROVE  i \in (formed + 1)..last <=> i \in 1..Len(bars) /\ formed < i /\ i <= end
    BY <1>4
  <2>1. i <= last <=> i <= end /\ i <= Len(bars)
    <3>1. CASE last = end
      BY <3>1, <1>1, <1>3, <1>4
    <3>2. CASE last = Len(bars)
      BY <3>2, <1>1, <1>3, <1>4
    <3> QED BY <3>1, <3>2, <1>3
  <2> QED BY <2>1, <1>4
<1>6. formed <= Len(bars) => last \in formed..Len(bars)
  BY <1>1, <1>3, <1>4
<1>7. end <= Len(bars) => last = end
  BY <1>1, <1>3, <1>4
<1> QED BY <1>2, <1>5, <1>6, <1>7 DEF end

\* A gap is formed by a bar from the displacement on, and its times are those of
\* the bar that forms it and of the one that retraces it or ends the waiting.
LEMMA GapFound ==
  ASSUME NEW bars, Len(bars) \in Nat, NEW start \in Nat, NEW end \in Nat
  PROVE  LET gap == Fvg(bars, start, end)
             formed == FirstIndex(GapBars(bars, start, end))
             fill == FirstIndex(RetracingBars(bars, formed))
         IN /\ formed \in 0..Len(bars) /\ fill \in 0..Len(bars)
            /\ formed # 0 => start + 2 <= formed /\ 3 <= formed /\ formed <= end
            /\ fill # 0 => formed < fill
            /\ gap.status = "PASS" <=> formed # 0 /\ fill # 0
            /\ gap.status \in {"PASS", "FAIL"}
            /\ gap.status = "PASS" => /\ gap.event_time = bars[formed].close_time
                                      /\ gap.known_at = bars[fill].close_time
            /\ gap.status = "FAIL" =>
                 \/ gap.event_time = NoTime /\ gap.known_at = NoTime
                 \/ formed # 0 /\ \E k \in formed..Len(bars) :
                      gap.event_time = bars[formed].close_time /\ gap.known_at = bars[k].close_time
<1> DEFINE G == GapBars(bars, start, end)
           formed == FirstIndex(G)
           R == RetracingBars(bars, formed)
           fill == FirstIndex(R)
           gap == Fvg(bars, start, end)
<1>1. \A i \in G : i \in 1..Len(bars) /\ start + 2 <= i /\ 3 <= i /\ i <= end
  BY GapRange
<1>2. G \in SUBSET (Nat \ {0})
  BY <1>1
<1> HIDE DEF G
<1>3. formed \in Nat /\ (formed # 0 => formed \in G)
  BY <1>2, FirstIndexFound
<1>4. formed \in 0..Len(bars) /\ (formed # 0 => start + 2 <= formed /\ 3 <= formed /\ formed <= end)
  BY <1>1, <1>3
<1> HIDE DEF formed
<1>5. \A i \in R : i \in 1..Len(bars) /\ formed < i
  BY <1>3, RetracingRange
<1>6. R \in SUBSET (Nat \ {0})
  BY <1>5
<1>7. formed <= Len(bars) => LastWaited(bars, formed) \in formed..Len(bars)
  BY <1>3, RetracingRange
<1> HIDE DEF R
<1>8. fill \in Nat /\ (fill # 0 => fill \in R)
  BY <1>6, FirstIndexFound
<1>9. fill \in 0..Len(bars) /\ (fill # 0 => formed < fill)
  BY <1>5, <1>8
<1> HIDE DEF fill, gap
<1>10. gap = IF formed = 0 THEN Fail("no_fvg")
             ELSE IF fill = 0
               THEN Result("FAIL", "fvg_retracement_expired", NoValue, bars[formed].close_time,
                           bars[LastWaited(bars, formed)].close_time)
             ELSE Passed([entry |-> GapEntry(bars, formed)], bars[formed].close_time,
                         bars[fill].close_time)
  BY GapIs DEF gap, fill, R, formed, G
<1>11. CASE formed = 0
  <2>1. gap.status = "FAIL" /\ gap.event_time = NoTime /\ gap.known_at = NoTime
    BY <1>10, <1>11 DEF Fail, Result
  <2> QED BY <2>1, <1>4, <1>9, <1>11 DEF gap, fill, R, formed, G
<1>12. CASE formed # 0 /\ fill = 0
  <2>1. gap.status = "FAIL" /\ gap.event_time = bars[formed].close_time
        /\ gap.known_at = bars[LastWaited(bars, formed)].close_time
    BY <1>10, <1>12 DEF Result
  <2>2. LastWaited(bars, formed) \in formed..Len(bars)
    BY <1>4, <1>7
  <2> QED BY <2>1, <2>2, <1>4, <1>9, <1>12 DEF gap, fill, R, formed, G
<1>13. CASE formed # 0 /\ fill # 0
  <2>1. gap.status = "PASS" /\ gap.event_time = bars[formed].close_time
        /\ gap.known_at = bars[fill].close_time
    BY <1>10, <1>13 DEF Passed, Result
  <2> QED BY <2>1, <1>4, <1>9, <1>13 DEF gap, fill, R, formed, G
<1> QED BY <1>11, <1>12, <1>13

\* A gap that is retraced, or has been waited for, is the same for all who see
\* that far.
LEMMA GapAgrees ==
  ASSUME NEW p, NEW q, NEW n, Agree(p, q, n), NEW start \in Nat, NEW end \in Nat,
         \/ /\ Fvg(p, start, end).status = "PASS"
            /\ FirstIndex(RetracingBars(p, FirstIndex(GapBars(p, start, end)))) <= n
         \/ end + FvgWait <= n
  PROVE  Fvg(q, start, end) = Fvg(p, start, end)
<1> DEFINE formed == FirstIndex(GapBars(p, start, end))
           fill == FirstIndex(RetracingBars(p, formed))
<1>0. /\ n \in Nat /\ Len(p) \in Nat /\ Len(q) \in Nat /\ n <= Len(p) /\ n <= Len(q) /\ FvgWait \in Nat
      /\ \A i \in 1..n : p[i] = q[i]
  BY StrategyAssumption DEF Agree
<1>1. \A i \in 1..n : i \in GapBars(p, start, end) <=> i \in GapBars(q, start, end)
  <2> SUFFICES ASSUME NEW i \in 1..n
               PROVE  i \in GapBars(p, start, end) <=> i \in GapBars(q, start, end)
    OBVIOUS
  <2>1. 3 <= i => p[i] = q[i] /\ p[i - 2] = q[i - 2]
    <3>1. n \in Nat /\ (3 <= i => i - 2 \in 1..n)
      BY ONLY <1>0
    <3> QED BY ONLY <1>0, <3>1
  <2>2. i \in 1..Len(p) /\ i \in 1..Len(q)
    BY <1>0
  <2>3. i \in GapBars(p, start, end)
          <=> start + 2 <= i /\ 3 <= i /\ i <= end /\ p[i].low > p[i - 2].high
    BY <2>2, <1>0, GapRange
  <2>4. i \in GapBars(q, start, end)
          <=> start + 2 <= i /\ 3 <= i /\ i <= end /\ q[i].low > q[i - 2].high
    BY <2>2, <1>0, GapRange
  <2> QED BY <2>1, <2>3, <2>4
<1>2. GapBars(p, start, end) \in SUBSET (Nat \ {0}) /\ GapBars(q, start, end) \in SUBSET (Nat \ {0})
  BY <1>0, GapRange
<1>3. /\ formed \in 0..Len(p) /\ fill \in 0..Len(p)
      /\ formed # 0 => 3 <= formed /\ formed <= end
      /\ fill # 0 => formed < fill
      /\ Fvg(p, start, end).status = "PASS" => formed # 0 /\ fill # 0
  BY <1>0, GapFound
<1> HIDE DEF formed, fill
<1>4. (Fvg(p, start, end).status = "PASS" /\ fill <= n) \/ end + FvgWait <= n
  BY DEF fill, formed
<1>5. formed \in Nat /\ fill \in Nat /\ formed \in 0..n
  BY <1>0, <1>3, <1>4
<1>6. FirstIndex(GapBars(q, start, end)) = formed
  <2>1. CASE formed # 0
    <3>1. \A i \in 1..formed : i \in GapBars(p, start, end) <=> i \in GapBars(q, start, end)
      BY <1>1, <1>5, <1>0
    <3> QED BY <3>1, <2>1, <1>2, SameFirst DEF formed
  <2>2. CASE formed = 0
    <3>1. end <= n
      BY <2>2, <1>3, <1>4, <1>0
    <3>2. \A i \in GapBars(p, start, end) \cup GapBars(q, start, end) : i \in 1..n
      BY <3>1, <1>0, GapRange
    <3>3. GapBars(p, start, end) = GapBars(q, start, end)
      BY <3>2, <1>1
    <3> QED BY <3>3 DEF formed
  <2> QED BY <2>1, <2>2
<1>7. formed # 0 => p[formed] = q[formed] /\ GapEntry(p, formed) = GapEntry(q, formed)
  <2>1. formed # 0 => p[formed] = q[formed] /\ p[formed - 2] = q[formed - 2]
    BY <1>0, <1>3, <1>5
  <2> QED BY <2>1 DEF GapEntry
<1>8. ASSUME formed # 0, NEW i \in 1..n
      PROVE  i \in RetracingBars(p, formed) <=> i \in RetracingBars(q, formed)
  <2>1. p[i] = q[i] /\ i \in 1..Len(p) /\ i \in 1..Len(q)
    BY <1>0
  <2> QED BY <2>1, <1>0, <1>5, <1>7, <1>8, RetracingRange
<1>9. RetracingBars(p, formed) \in SUBSET (Nat \ {0}) /\ RetracingBars(q, formed) \in SUBSET (Nat \ {0})
  BY <1>0, <1>5, RetracingRange
<1>10. ASSUME formed # 0
       PROVE  /\ FirstIndex(RetracingBars(q, formed)) = fill
              /\ fill # 0 => p[fill] = q[fill]
              /\ fill = 0 => LastWaited(p, formed) = LastWaited(q, formed)
                             /\ p[LastWaited(p, formed)] = q[LastWaited(p, formed)]
  <2>1. CASE fill # 0 /\ fill <= n
    <3>1. \A i \in 1..fill : i \in RetracingBars(p, formed) <=> i \in RetracingBars(q, formed)
      BY <2>1, <1>8, <1>10, <1>5, <1>0
    <3>2. FirstIndex(RetracingBars(q, formed)) = fill
      BY <3>1, <2>1, <1>9, SameFirst DEF fill
    <3>3. fill \in 1..n
      BY <2>1, <1>5, <1>0
    <3> QED BY <3>2, <3>3, <2>1, <1>0
  <2>2. CASE ~ (fill # 0 /\ fill <= n)
    <3>1. formed + FvgWait <= n /\ formed + FvgWait \in 1..n
      BY <2>2, <1>3, <1>4, <1>5, <1>10, <1>0
    <3>2. \A i \in RetracingBars(p, formed) \cup RetracingBars(q, formed) : i \in 1..n
      <4>1. \A i \in RetracingBars(p, formed) : i \in 1..Len(p) /\ i <= formed + FvgWait
        BY <1>5, <1>0, RetracingRange
      <4>2. \A i \in RetracingBars(q, formed) : i \in 1..Len(q) /\ i <= formed + FvgWait
        BY <1>5, <1>0, RetracingRange
      <4> QED BY <4>1, <4>2, <3>1, <1>0
    <3>3. RetracingBars(p, formed) = RetracingBars(q, formed)
      BY <3>2, <1>8, <1>10
    <3>4. fill # 0 => fill \in RetracingBars(p, formed)
      BY <1>9, FirstIndexFound DEF fill
    <3>5. fill = 0
      BY <3>2, <3>4, <2>2, <1>0
    <3>6. LastWaited(p, formed) = formed + FvgWait /\ LastWaited(q, formed) = formed + FvgWait
      <4>1. formed + FvgWait <= Len(p) /\ formed + FvgWait <= Len(q)
        BY <3>1, <1>5, <1>0
      <4> QED BY <4>1, <1>5, <1>0, RetracingRange
    <3>7. p[formed + FvgWait] = q[formed + FvgWait]
      BY <3>1, <1>0
    <3> QED BY <3>3, <3>5, <3>6, <3>7 DEF fill
  <2> QED BY <2>1, <2>2
<1>11. Fvg(p, start, end)
         = IF formed = 0 THEN Fail("no_fvg")
           ELSE IF fill = 0
             THEN Result("FAIL", "fvg_retracement_expired", NoValue, p[formed].close_time,
                         p[LastWaited(p, formed)].close_time)
           ELSE Passed([entry |-> GapEntry(p, formed)], p[formed].close_time, p[fill].close_time)
  BY GapIs DEF formed, fill
<1>12. ASSUME formed # 0
       PROVE  Fvg(q, start, end)
                = IF fill = 0
                  THEN Result("FAIL", "fvg_retracement_expired", NoValue, q[formed].close_time,
                              q[LastWaited(q, formed)].close_time)
                  ELSE Passed([entry |-> GapEntry(q, formed)], q[formed].close_time, q[fill].close_time)
  BY <1>6, <1>10, <1>12, GapIs
<1>13. formed = 0 => Fvg(q, start, end) = Fail("no_fvg")
  BY <1>6, GapIs
<1> QED
  BY <1>7, <1>10, <1>11, <1>12, <1>13
--------------------------------------------------------------------------------
(* Risk, and the execution as a whole *)

\* The true ranges, and with them their average, are those of the bars up to
\* the one that is asked about.
LEMMA AverageShared ==
  ASSUME NEW p, NEW q, NEW n, Agree(p, q, n), NEW fill \in 1..n, HasAtr(fill)
  PROVE  AtrSum(p, fill) = AtrSum(q, fill)
<1>0. n \in Nat /\ fill \in Nat /\ AtrPeriod \in Nat \ {0} /\ AtrPeriod <= fill /\ \A i \in 1..n : p[i] = q[i]
  BY StrategyAssumption DEF Agree, HasAtr
<1>1. \A i \in 1..n : TrueRange(p, i) = TrueRange(q, i)
  <2> SUFFICES ASSUME NEW i \in 1..n
               PROVE  TrueRange(p, i) = TrueRange(q, i)
    OBVIOUS
  <2>1. p[i] = q[i]
    BY <1>0
  <2>2. CASE i = 1
    BY <2>1, <2>2 DEF TrueRange
  <2>3. CASE i # 1
    <3>1. p[i - 1] = q[i - 1]
      BY <2>3, <1>0
    <3> QED BY <2>1, <2>3, <3>1 DEF TrueRange
  <2> QED BY <2>2, <2>3
<1>2. \A k \in 1..AtrPeriod : fill - AtrPeriod + k \in 1..n
  BY <1>0
<1>3. [k \in 1..AtrPeriod |-> TrueRange(p, fill - AtrPeriod + k)]
        = [k \in 1..AtrPeriod |-> TrueRange(q, fill - AtrPeriod + k)]
  BY <1>1, <1>2
<1> QED BY <1>3 DEF AtrSum

\* The hour that fills the entry.
Fill(hours, block) == FirstIndexAtOrAfter(hours, GapGate(hours, block).known_at)

\* The risk is judged at the hour of the fill, against a target that was frozen
\* at the touch of the order block.
LEMMA RiskAgrees ==
  ASSUME NEW p, NEW q, NEW n, Agree(p, q, n), NEW u, NEW v, NEW m, Agree(u, v, m),
         NEW block, block.value.touch \in Int, block.value.touch <= m + 1,
         NEW liquidity, NEW gap,
         FirstIndexAtOrAfter(p, gap.known_at) \in 1..n,
         FirstIndexAtOrAfter(q, gap.known_at) = FirstIndexAtOrAfter(p, gap.known_at)
  PROVE  RiskGate(v, q, block, liquidity, gap) = RiskGate(u, p, block, liquidity, gap)
<1> DEFINE fill == FirstIndexAtOrAfter(p, gap.known_at)
           touch == block.value.touch
           targets == KnownBefore(HighPivots(u), touch)
<1>1. KnownBefore(HighPivots(v), touch) = targets
  <2> HIDE DEF touch
  <2>1. touch \in Int /\ touch <= m + 1
    BY DEF touch
  <2> QED BY <2>1, FrozenAgree
<1>2. targets # {} => u[Max(targets)] = v[Max(targets)]
  <2>1. targets \in {KnownBefore(LowPivots(u), touch), KnownBefore(HighPivots(u), touch)}
    OBVIOUS
  <2>2. touch \in Int /\ touch <= m + 1
    OBVIOUS
  <2> HIDE DEF targets, touch
  <2> QED BY <2>1, <2>2, NewestFrozen
<1>3. HasAtr(fill) => AtrSum(p, fill) = AtrSum(q, fill)
  <2> HIDE DEF fill
  <2>1. fill \in 1..n
    BY DEF fill
  <2> QED BY <2>1, AverageShared
<1>4. RiskGate(u, p, block, liquidity, gap)
        = IF ~ HasAtr(fill) \/ targets = {} THEN Unavailable("insufficient_frozen_risk_reference")
          ELSE Risk(gap.value.entry, liquidity.value.extreme, u[Max(targets)].high, AtrSum(p, fill))
  BY DEF RiskGate
<1>5. RiskGate(v, q, block, liquidity, gap)
        = IF ~ HasAtr(fill) \/ targets = {} THEN Unavailable("insufficient_frozen_risk_reference")
          ELSE Risk(gap.value.entry, liquidity.value.extreme, v[Max(targets)].high, AtrSum(q, fill))
  <2> HIDE DEF fill, targets
  <2>1. FirstIndexAtOrAfter(q, gap.known_at) = fill
    BY DEF fill
  <2>2. KnownBefore(HighPivots(v), block.value.touch) = targets
    BY <1>1
  <2> QED BY <2>1, <2>2 DEF RiskGate
<1> HIDE DEF fill, targets
<1>6. CASE ~ HasAtr(fill) \/ targets = {}
  BY <1>4, <1>5, <1>6
<1>7. CASE HasAtr(fill) /\ targets # {}
  <2>1. AtrSum(p, fill) = AtrSum(q, fill) /\ u[Max(targets)].high = v[Max(targets)].high
    BY <1>2, <1>3, <1>7
  <2> QED BY <2>1, <1>4, <1>5, <1>7
<1> QED BY <1>6, <1>7

\* The displacement and the gap of an execution, and the hours their times are
\* taken from.
LEMMA DisplacedFound ==
  ASSUME NEW hours, NEW size \in Nat \ {0}, Timeline(hours, size), NEW block,
         LiquidityGate(hours, block).status = "PASS"
  PROVE  /\ Displaced(hours, block) \in 0..Len(hours)
         /\ DisplacementGate(hours, block).status = "PASS" <=> Displaced(hours, block) # 0
         /\ DisplacementGate(hours, block).status = "PASS" =>
              /\ Displaced(hours, block) \in 1..Len(hours)
              /\ Sweep(hours, block) < Displaced(hours, block)
              /\ DisplacementGate(hours, block).event_time = hours[Displaced(hours, block)].close_time
              /\ DisplacementGate(hours, block).known_at = hours[Displaced(hours, block)].close_time
         /\ DisplacementGate(hours, block).status # "PASS" =>
              DisplacementGate(hours, block) = Fail("displacement_window_expired")
<1>0. Len(hours) \in Nat /\ DOMAIN hours = 1..Len(hours)
  BY DEF Timeline
<1>1. Sweep(hours, block) \in 1..Len(hours)
  BY SweepFound
<1>2. /\ Displaced(hours, block) \in 0..Len(hours)
      /\ Displaced(hours, block) # 0 => Sweep(hours, block) < Displaced(hours, block)
  <2>1. Sweep(hours, block) \in Nat
    BY <1>0, <1>1
  <2> QED BY <2>1, <1>0, DisplacementFound DEF Displaced
<1>3. /\ DisplacementGate(hours, block).status = "PASS" <=> Displaced(hours, block) # 0
      /\ DisplacementGate(hours, block).status = "PASS" =>
           /\ DisplacementGate(hours, block).event_time = hours[Displaced(hours, block)].close_time
           /\ DisplacementGate(hours, block).known_at = hours[Displaced(hours, block)].close_time
      /\ DisplacementGate(hours, block).status # "PASS" =>
           DisplacementGate(hours, block) = Fail("displacement_window_expired")
  BY DEF DisplacementGate, Fail, Passed, Result
<1>4. Displaced(hours, block) # 0 => Displaced(hours, block) \in 1..Len(hours)
  BY <1>0, <1>2
<1> QED BY <1>2, <1>3, <1>4

\* A result with the times of two bars, or without any time.
TimedBy(gate, bars) ==
  /\ gate.status \in {"PASS", "FAIL", "UNAVAILABLE"}
  /\ \/ gate.event_time = NoTime /\ gate.known_at = NoTime
     \/ \E event, known \in DOMAIN bars :
          /\ event <= known
          /\ gate.event_time = bars[event].close_time
          /\ gate.known_at = bars[known].close_time

\* The gap that is looked for around the displacement: it is timed by the hour
\* that forms it and a later one, and if it passes, by the hour of the fill.
LEMMA GapGateFound ==
  ASSUME NEW hours, NEW size \in Nat \ {0}, Timeline(hours, size), NEW block,
         Displaced(hours, block) \in 1..Len(hours)
  PROVE  LET gap == GapGate(hours, block)
             displaced == Displaced(hours, block)
         IN /\ gap.status \in {"PASS", "FAIL"}
            /\ gap.status = "PASS" =>
                 /\ Fill(hours, block) \in 1..Len(hours)
                 /\ displaced < Fill(hours, block)
                 /\ gap.known_at = hours[Fill(hours, block)].close_time
                 /\ \E formed \in displaced..Fill(hours, block) :
                      gap.event_time = hours[formed].close_time
                 /\ \E start \in Nat :
                      /\ gap = Fvg(hours, start, displaced + 2)
                      /\ start = Max({1, displaced - 2})
                      /\ Fill(hours, block) = FirstIndex(RetracingBars(hours,
                                                FirstIndex(GapBars(hours, start, displaced + 2))))
            /\ TimedBy(gap, hours)
<1> DEFINE displaced == Displaced(hours, block)
           gap == GapGate(hours, block)
           back == displaced - 2
           both == {1, back}
           start == Max(both)
           formed == FirstIndex(GapBars(hours, start, displaced + 2))
           fill == FirstIndex(RetracingBars(hours, formed))
<1>0. Len(hours) \in Nat /\ DOMAIN hours = 1..Len(hours) /\ displaced \in Nat \ {0} /\ displaced + 2 \in Nat
  <2>1. Len(hours) \in Nat /\ DOMAIN hours = 1..Len(hours)
    BY DEF Timeline
  <2> QED BY <2>1
<1>1. back \in Int /\ both \in SUBSET Int /\ 1 \in both /\ back \in both /\ \A x \in both : x = 1 \/ x = back
  BY <1>0
<1>2. gap = Fvg(hours, start, displaced + 2)
  BY DEF GapGate
<1>3. start \in Nat /\ displaced <= start + 2
  <2>1. back = displaced - 2
    OBVIOUS
  <2> HIDE DEF back, both, displaced
  <2>2. (start = 1 \/ start = back) /\ start >= 1 /\ start >= back
    BY <1>1, ExtremeOfTwo
  <2> HIDE DEF start
  <2>3. start \in Nat /\ start >= displaced - 2
    BY <1>0, <1>1, <2>1, <2>2
  <2> QED BY <2>3, <1>0
<1>4. start = Max({1, displaced - 2})
  OBVIOUS
<1> HIDE DEF start, displaced, gap
<1>5. /\ formed \in 0..Len(hours) /\ fill \in 0..Len(hours)
      /\ formed # 0 => start + 2 <= formed
      /\ fill # 0 => formed < fill
      /\ gap.status = "PASS" <=> formed # 0 /\ fill # 0
      /\ gap.status \in {"PASS", "FAIL"}
      /\ gap.status = "PASS" => /\ gap.event_time = hours[formed].close_time
                                /\ gap.known_at = hours[fill].close_time
      /\ gap.status = "FAIL" =>
           \/ gap.event_time = NoTime /\ gap.known_at = NoTime
           \/ formed # 0 /\ \E k \in formed..Len(hours) :
                gap.event_time = hours[formed].close_time /\ gap.known_at = hours[k].close_time
  <2> DEFINE end == displaced + 2
             result == Fvg(hours, start, end)
  <2>1. end \in Nat /\ gap = result
    BY <1>0, <1>2
  <2> HIDE DEF end
  <2>2. LET g == Fvg(hours, start, end)
            f == FirstIndex(GapBars(hours, start, end))
            r == FirstIndex(RetracingBars(hours, f))
        IN /\ f \in 0..Len(hours) /\ r \in 0..Len(hours)
           /\ f # 0 => start + 2 <= f /\ 3 <= f /\ f <= end
           /\ r # 0 => f < r
           /\ g.status = "PASS" <=> f # 0 /\ r # 0
           /\ g.status \in {"PASS", "FAIL"}
           /\ g.status = "PASS" => /\ g.event_time = hours[f].close_time
                                   /\ g.known_at = hours[r].close_time
           /\ g.status = "FAIL" =>
                \/ g.event_time = NoTime /\ g.known_at = NoTime
                \/ f # 0 /\ \E k \in f..Len(hours) :
                     g.event_time = hours[f].close_time /\ g.known_at = hours[k].close_time
    <3> HIDE DEF formed, fill, result
    <3> QED BY <1>0, <1>3, <2>1, GapFound
  <2>3. /\ formed = FirstIndex(GapBars(hours, start, end))
        /\ fill = FirstIndex(RetracingBars(hours, formed))
    BY DEF end
  <2> HIDE DEF formed, fill
  <2>4. /\ formed \in 0..Len(hours) /\ fill \in 0..Len(hours)
        /\ formed # 0 => start + 2 <= formed
        /\ fill # 0 => formed < fill
        /\ result.status = "PASS" <=> formed # 0 /\ fill # 0
        /\ result.status \in {"PASS", "FAIL"}
        /\ result.status = "PASS" => /\ result.event_time = hours[formed].close_time
                                     /\ result.known_at = hours[fill].close_time
        /\ result.status = "FAIL" =>
             \/ result.event_time = NoTime /\ result.known_at = NoTime
             \/ formed # 0 /\ \E k \in formed..Len(hours) :
                  result.event_time = hours[formed].close_time /\ result.known_at = hours[k].close_time
    BY <2>2, <2>3
  <2> HIDE DEF result
  <2> QED BY <2>1, <2>4
<1> HIDE DEF formed, fill
<1>6. ASSUME gap.status = "PASS"
      PROVE  /\ Fill(hours, block) = fill /\ fill \in 1..Len(hours)
             /\ displaced < fill /\ formed \in displaced..fill
  <2>1. /\ formed # 0 /\ fill # 0 /\ formed < fill /\ start + 2 <= formed
        /\ gap.known_at = hours[fill].close_time
    BY <1>5, <1>6
  <2>2. formed \in Nat /\ fill \in Nat /\ fill \in 1..Len(hours)
    BY <2>1, <1>5, <1>0
  <2>3. displaced <= formed
    BY <2>1, <2>2, <1>0, <1>3
  <2>4. displaced < fill /\ formed \in displaced..fill
    BY <2>1, <2>2, <2>3, <1>0
  <2>5. FirstIndexAtOrAfter(hours, hours[fill].close_time) = fill
    BY <2>2, <1>0, FirstToClose
  <2>6. Fill(hours, block) = fill
    BY <2>1, <2>5 DEF Fill, gap
  <2> QED BY <2>2, <2>4, <2>6
<1>7. gap.status = "PASS" =>
                 /\ Fill(hours, block) \in 1..Len(hours)
                 /\ displaced < Fill(hours, block)
                 /\ gap.known_at = hours[Fill(hours, block)].close_time
                 /\ \E k \in displaced..Fill(hours, block) :
                      gap.event_time = hours[k].close_time
  BY <1>5, <1>6
<1>8. gap.status = "PASS" =>
                 \E s \in Nat :
                      /\ gap = Fvg(hours, s, displaced + 2)
                      /\ s = Max({1, displaced - 2})
                      /\ Fill(hours, block) = FirstIndex(RetracingBars(hours,
                                                FirstIndex(GapBars(hours, s, displaced + 2))))
  BY <1>2, <1>3, <1>4, <1>6 DEF fill, formed
<1>9. TimedBy(gap, hours)
  <2>1. CASE gap.status = "PASS"
    <3>1. formed \in DOMAIN hours /\ fill \in DOMAIN hours /\ formed <= fill
      BY <2>1, <1>0, <1>5, <1>6
    <3> QED BY <3>1, <2>1, <1>5 DEF TimedBy
  <2>2. CASE gap.status = "FAIL" /\ gap.event_time = NoTime /\ gap.known_at = NoTime
    BY <2>2 DEF TimedBy
  <2>3. CASE gap.status = "FAIL" /\ ~ (gap.event_time = NoTime /\ gap.known_at = NoTime)
    <3>1. formed # 0
      BY <2>3, <1>5
    <3>2. PICK k \in formed..Len(hours) :
            gap.event_time = hours[formed].close_time /\ gap.known_at = hours[k].close_time
      BY <2>3, <1>5
    <3>3. formed \in DOMAIN hours /\ k \in DOMAIN hours /\ formed <= k
      BY <3>1, <3>2, <1>0, <1>5
    <3> QED BY <3>2, <3>3, <2>3 DEF TimedBy
  <2> QED BY <2>1, <2>2, <2>3, <1>5
<1> QED
  BY <1>5, <1>7, <1>8, <1>9 DEF gap, displaced
\* Each gate of the execution that has passed, or has waited long enough, is
\* the same on hours that agree as far as it looks.
LEMMA ExecutionAgrees ==
  ASSUME NEW p, NEW q, NEW n, Agree(p, q, n), NEW size \in Nat \ {0},
         Timeline(p, size), Timeline(q, size),
         NEW u, NEW v, NEW m, Agree(u, v, m),
         NEW block, block.value.touch \in Int, block.value.touch <= m + 1,
         LiquidityGate(p, block).status = "PASS", Sweep(p, block) <= n
  PROVE  /\ LiquidityGate(q, block) = LiquidityGate(p, block)
         /\ (Displaced(p, block) \in 1..n \/ Sweep(p, block) + DisplacementWindow <= n)
              => DisplacementGate(q, block) = DisplacementGate(p, block)
         /\ Displaced(p, block) \in 1..n =>
              /\ MssGate(q, Sweep(q, block), Displaced(q, block))
                   = MssGate(p, Sweep(p, block), Displaced(p, block))
              /\ ((GapGate(p, block).status = "PASS" /\ Fill(p, block) <= n)
                    \/ Displaced(p, block) + 2 + FvgWait <= n)
                   => GapGate(q, block) = GapGate(p, block)
              /\ GapGate(p, block).status = "PASS" /\ Fill(p, block) <= n
                   => RiskGate(v, q, block, LiquidityGate(q, block), GapGate(q, block))
                        = RiskGate(u, p, block, LiquidityGate(p, block), GapGate(p, block))
<1> DEFINE sweep == Sweep(p, block)
           displaced == Displaced(p, block)
<1>0. /\ n \in Nat /\ Len(p) \in Nat /\ Len(q) \in Nat /\ n <= Len(p) /\ n <= Len(q)
      /\ \A i \in 1..n : p[i] = q[i]
      /\ DOMAIN p = 1..Len(p) /\ DOMAIN q = 1..Len(q)
  BY DEF Agree
<1>1. LiquidityGate(q, block) = LiquidityGate(p, block) /\ Sweep(q, block) = sweep
  BY LiquidityGateAgrees
<1>2. sweep \in 1..Len(p)
  BY SweepFound
<1>3. sweep \in Nat /\ sweep \in 1..n
  BY <1>0, <1>2
<1>4. displaced = DisplacementIndex(p, sweep) /\ Displaced(q, block) = DisplacementIndex(q, sweep)
  BY <1>1 DEF Displaced
<1> HIDE DEF sweep, displaced
<1>5. ASSUME displaced \in 1..n \/ sweep + DisplacementWindow <= n
      PROVE  Displaced(q, block) = displaced
  BY <1>3, <1>4, <1>5, DisplacementAgrees
<1>6. ASSUME displaced \in 1..n \/ sweep + DisplacementWindow <= n
      PROVE  DisplacementGate(q, block) = DisplacementGate(p, block)
  <2>1. Displaced(q, block) = displaced /\ Displaced(p, block) = displaced
    BY <1>5, <1>6 DEF displaced
  <2>2. CASE displaced = 0
    BY <2>1, <2>2 DEF DisplacementGate
  <2>3. CASE displaced # 0
    <3>1. displaced \in 1..n
      <4>1. displaced \in 0..Len(p) /\ displaced <= sweep + DisplacementWindow
        BY <2>3, <1>0, <1>3, <1>4, DisplacementFound
      <4>2. DisplacementWindow \in Nat
        BY StrategyAssumption
      <4> QED BY <4>1, <4>2, <2>3, <1>6, <1>0, <1>3
    <3>2. p[displaced] = q[displaced]
      BY <3>1, <1>0
    <3> QED BY <2>1, <2>3, <3>2 DEF DisplacementGate
  <2> QED BY <2>2, <2>3
<1>7. ASSUME displaced \in 1..n
      PROVE  MssGate(q, Sweep(q, block), Displaced(q, block)) = MssGate(p, sweep, displaced)
  <2>1. Displaced(q, block) = displaced
    BY <1>5, <1>7
  <2> QED BY <2>1, <1>1, <1>3, <1>7, MssAgrees
<1>8. ASSUME displaced \in 1..n,
             (GapGate(p, block).status = "PASS" /\ Fill(p, block) <= n) \/ displaced + 2 + FvgWait <= n
      PROVE  GapGate(q, block) = GapGate(p, block)
  <2> DEFINE back == displaced - 2
             both == {1, back}
             start == Max(both)
             end == displaced + 2
  <2>1. Displaced(q, block) = displaced /\ Displaced(p, block) = displaced
    BY <1>5, <1>8 DEF displaced
  <2>2. GapGate(p, block) = Fvg(p, start, end) /\ GapGate(q, block) = Fvg(q, start, end)
    BY <2>1 DEF GapGate
  <2>3. /\ back \in Int /\ both \in SUBSET Int /\ 1 \in both /\ back \in both
        /\ \A x \in both : x = 1 \/ x = back
        /\ end \in Nat
    BY <1>8, <1>0
  <2>4. start \in Nat
    <3> HIDE DEF back, both
    <3>1. (start = 1 \/ start = back) /\ start >= 1
      BY <2>3, ExtremeOfTwo
    <3> HIDE DEF start
    <3> QED BY <3>1, <2>3
  <2>5. displaced \in 1..Len(p)
    BY <1>8, <1>0
  <2>6. Fvg(p, start, end).status = "PASS" =>
          Fill(p, block) = FirstIndex(RetracingBars(p, FirstIndex(GapBars(p, start, end))))
    <3>1. GapGate(p, block).status = "PASS" =>
            \E s \in Nat : /\ s = Max({1, displaced - 2})
                           /\ Fill(p, block) = FirstIndex(RetracingBars(p, FirstIndex(GapBars(p, s, displaced + 2))))
      BY <2>1, <2>5, GapGateFound
    <3>2. start = Max({1, displaced - 2}) /\ end = displaced + 2
      OBVIOUS
    <3> HIDE DEF start, end
    <3> QED BY <3>1, <3>2, <2>2
  <2> HIDE DEF start
  <2>7. (Fvg(p, start, end).status = "PASS"
          /\ FirstIndex(RetracingBars(p, FirstIndex(GapBars(p, start, end)))) <= n)
        \/ end + FvgWait <= n
    BY <1>8, <2>2, <2>6
  <2> HIDE DEF end
  <2> QED BY <2>2, <2>3, <2>4, <2>7, GapAgrees
<1>9. ASSUME displaced \in 1..n, GapGate(p, block).status = "PASS", Fill(p, block) <= n
      PROVE  RiskGate(v, q, block, LiquidityGate(q, block), GapGate(q, block))
                = RiskGate(u, p, block, LiquidityGate(p, block), GapGate(p, block))
  <2> DEFINE gap == GapGate(p, block)
             fill == Fill(p, block)
  <2>1. GapGate(q, block) = gap
    BY <1>8, <1>9
  <2>2. fill \in 1..Len(p) /\ gap.known_at = p[fill].close_time
    <3>1. Displaced(p, block) \in 1..Len(p)
      BY <1>9, <1>0 DEF displaced
    <3> QED BY <3>1, <1>9, GapGateFound
  <2>3. fill \in 1..n /\ p[fill] = q[fill] /\ fill \in DOMAIN q
    <3> HIDE DEF fill
    <3>1. fill <= n
      BY <1>9 DEF fill
    <3> QED BY <3>1, <2>2, <1>0
  <2>4. FirstIndexAtOrAfter(p, gap.known_at) = fill
    BY DEF Fill
  <2> HIDE DEF gap, fill
  <2>5. FirstIndexAtOrAfter(q, gap.known_at) = fill
    BY <2>2, <2>3, FirstToClose
  <2>6. RiskGate(v, q, block, LiquidityGate(p, block), gap) = RiskGate(u, p, block, LiquidityGate(p, block), gap)
    BY <2>3, <2>4, <2>5, RiskAgrees
  <2> QED BY <2>1, <2>6, <1>1 DEF gap
<1> QED
  BY <1>1, <1>6, <1>7, <1>8, <1>9 DEF sweep, displaced

--------------------------------------------------------------------------------
(* The bars of one dataset *)

\* The daily, 4H and 1H bars of a gap free range of minutes: each series in the
\* order of time, and no 4H bar without the hours it is made of.
Charts(days, pois, hours) ==
  /\ Timeline(days, DaySize) /\ Timeline(pois, PoiSize) /\ Timeline(hours, HourSize)
  /\ pois # <<>> => hours # <<>> /\ hours[1].close_time <= pois[1].close_time

\* A beginning of a timeline is a timeline that agrees with it.
LEMMA BeginningIsTimeline ==
  ASSUME NEW bars, NEW size \in Nat \ {0}, Timeline(bars, size), NEW n \in 0..Len(bars)
  PROVE  LET early == SubSeq(bars, 1, n)
         IN /\ Timeline(early, size)
            /\ Len(early) = n
            /\ Agree(bars, early, n)
            /\ \A i \in 1..n : early[i] = bars[i]
<1> DEFINE S == {bars[i] : i \in DOMAIN bars}
           early == SubSeq(bars, 1, n)
<1>0. bars \in Seq(S) /\ Len(bars) \in Nat /\ DOMAIN bars = 1..Len(bars)
  BY DEF Timeline
<1>1. /\ early \in Seq(S) /\ Len(early) = n /\ DOMAIN early = 1..n
      /\ \A i \in 1..n : early[i] = bars[i]
  <2> HIDE DEF S
  <2> QED BY <1>0, BeginningOf
<1>2. 1..n \subseteq DOMAIN bars
  BY <1>0
<1>3. early \in Seq({early[i] : i \in DOMAIN early})
  <2> DEFINE V == {early[i] : i \in DOMAIN early}
  <2>1. early = [i \in 1..n |-> early[i]] /\ \A i \in 1..n : early[i] \in V
    <3> HIDE DEF S
    <3> HIDE DEF early
    <3> QED BY <1>1
  <2>2. n \in Nat
    BY <1>0
  <2> HIDE DEF V, early, S
  <2>3. early \in [1..n -> V]
    BY <2>1
  <2>4. early \in Seq(V)
    BY <2>2, <2>3
  <2> QED BY <2>4 DEF V
<1> HIDE DEF early
<1>4. Timeline(early, size)
  BY <1>1, <1>2, <1>3 DEF Timeline
<1>5. Agree(bars, early, n)
  BY <1>0, <1>1 DEF Agree
<1> QED BY <1>1, <1>4, <1>5 DEF early

\* The bars closed by a time, as a beginning that agrees.
LEMMA ClosedByAgrees ==
  ASSUME NEW bars, NEW size \in Nat \ {0}, Timeline(bars, size), NEW time \in Int
  PROVE  LET early == ClosedBy(bars, time)
         IN /\ Timeline(early, size)
            /\ Len(early) \in 0..Len(bars)
            /\ Agree(bars, early, Len(early))
            /\ \A i \in DOMAIN bars : bars[i].close_time <= time <=> i <= Len(early)
            /\ \A i \in 1..Len(early) : early[i] = bars[i]
            /\ Len(early) = Len(bars) => early = bars
<1>1. PICK n \in 0..Len(bars) :
        /\ ClosedBy(bars, time) = SubSeq(bars, 1, n)
        /\ \A i \in DOMAIN bars : bars[i].close_time <= time <=> i <= n
  BY ClosedByIsBeginning
<1>2. /\ Timeline(SubSeq(bars, 1, n), size) /\ Len(SubSeq(bars, 1, n)) = n
      /\ Agree(bars, SubSeq(bars, 1, n), n)
      /\ \A i \in 1..n : SubSeq(bars, 1, n)[i] = bars[i]
  BY BeginningIsTimeline
<1>3. n = Len(bars) => SubSeq(bars, 1, n) = bars
  <2>1. bars \in Seq({bars[i] : i \in DOMAIN bars})
    BY DEF Timeline
  <2> QED BY <2>1, BeginningOf
<1> QED
  BY <1>1, <1>2, <1>3

\* What was closed by a time was closed by it at any later one, too.
LEMMA ClosedByEarlier ==
  ASSUME NEW bars, NEW size \in Nat \ {0}, Timeline(bars, size), NEW time \in Int,
         NEW earlier \in Int, earlier <= time
  PROVE  ClosedBy(ClosedBy(bars, time), earlier) = ClosedBy(bars, earlier)
<1>1. PICK n \in 0..Len(bars) :
        /\ ClosedBy(bars, earlier) = SubSeq(bars, 1, n)
        /\ \A i \in DOMAIN bars : bars[i].close_time <= earlier <=> i <= n
  BY ClosedByIsBeginning
<1>2. PICK k \in 0..Len(bars) :
        /\ ClosedBy(bars, time) = SubSeq(bars, 1, k)
        /\ \A i \in DOMAIN bars : bars[i].close_time <= time <=> i <= k
  BY ClosedByIsBeginning
<1> DEFINE early == SubSeq(bars, 1, k)
<1>3. Len(bars) \in Nat /\ DOMAIN bars = 1..Len(bars) /\ \A i \in DOMAIN bars : bars[i].close_time \in Nat
  BY DEF Timeline
<1>4. n <= k
  <2>1. CASE n = 0
    BY <2>1, <1>3
  <2>2. CASE n # 0
    <3>1. n \in DOMAIN bars
      BY <2>2, <1>3
    <3>2. bars[n].close_time <= time
      BY <3>1, <1>1, <1>3
    <3> QED BY <3>1, <3>2, <1>2
  <2> QED BY <2>1, <2>2
<1>5. /\ Timeline(early, size) /\ Len(early) = k /\ DOMAIN early = 1..k
      /\ \A i \in 1..k : early[i] = bars[i]
  <2>1. Timeline(early, size) /\ Len(early) = k /\ \A i \in 1..k : early[i] = bars[i]
    BY BeginningIsTimeline
  <2>2. DOMAIN early = 1..Len(early)
    BY <2>1 DEF Timeline
  <2> QED BY <2>1, <2>2
<1>6. SubSeq(early, 1, n) = SubSeq(bars, 1, n)
  <2>1. \A i \in 1..n : i \in 1..k
    BY <1>3, <1>4
  <2>2. Agree(early, bars, n)
    BY <2>1, <1>3, <1>4, <1>5 DEF Agree
  <2>3. n \in 0..n
    BY <1>3
  <2> HIDE DEF early
  <2> QED BY <2>2, <2>3, SameBeginning
<1>7. \A i \in DOMAIN early : early[i].close_time <= earlier <=> i <= n
  BY <1>1, <1>3, <1>5
<1> HIDE DEF early
<1>8. n \in 0..Len(early)
  BY <1>4, <1>5, <1>3
<1>9. ClosedBy(early, earlier) = SubSeq(early, 1, n)
  BY <1>5, <1>7, <1>8, ClosedByCount
<1> QED BY <1>1, <1>2, <1>6, <1>9 DEF early
--------------------------------------------------------------------------------
(* No lookahead *)

\* The gates by name.
LEMMA Candidates ==
  ASSUME NEW days, NEW pois, NEW hours
  PROVE  /\ Candidate(1, days, pois, hours) = RegimeGate(days, pois, hours)
         /\ Candidate(2, days, pois, hours) = StructureGate(days, pois)
         /\ Candidate(3, days, pois, hours) = DealingRange(SubSeq(pois, 1, ContextBar(pois)))
         /\ Candidate(4, days, pois, hours) = Block(pois)
         /\ Candidate(5, days, pois, hours) = LiquidityGate(hours, Block(pois))
         /\ Candidate(6, days, pois, hours) = DisplacementGate(hours, Block(pois))
         /\ Candidate(7, days, pois, hours)
              = MssGate(hours, Sweep(hours, Block(pois)), Displaced(hours, Block(pois)))
         /\ Candidate(8, days, pois, hours) = GapGate(hours, Block(pois))
         /\ Candidate(9, days, pois, hours)
              = RiskGate(pois, hours, Block(pois), LiquidityGate(hours, Block(pois)),
                         GapGate(hours, Block(pois)))
<1>1. Candidate(1, days, pois, hours) = RegimeGate(days, pois, hours)
  BY DEF Candidate
<1>2. Candidate(2, days, pois, hours) = StructureGate(days, pois)
  BY DEF Candidate
<1>3. Candidate(3, days, pois, hours) = DealingRange(SubSeq(pois, 1, ContextBar(pois)))
  BY DEF Candidate
<1>4. Candidate(4, days, pois, hours) = Block(pois)
  BY DEF Candidate
<1>5. Candidate(5, days, pois, hours) = LiquidityGate(hours, Block(pois))
  BY DEF Candidate
<1>6. Candidate(6, days, pois, hours) = DisplacementGate(hours, Block(pois))
  BY DEF Candidate
<1>7. Candidate(7, days, pois, hours)
        = MssGate(hours, Sweep(hours, Block(pois)), Displaced(hours, Block(pois)))
  BY DEF Candidate
<1>8. Candidate(8, days, pois, hours) = GapGate(hours, Block(pois))
  BY DEF Candidate
<1>9. Candidate(9, days, pois, hours)
        = RiskGate(pois, hours, Block(pois), LiquidityGate(hours, Block(pois)), GapGate(hours, Block(pois)))
  BY DEF Candidate
<1> QED BY <1>1, <1>2, <1>3, <1>4, <1>5, <1>6, <1>7, <1>8, <1>9

\* What there is to know of a timeline with a bar.
LEMMA TimelineShape ==
  ASSUME NEW bars, NEW size \in Nat \ {0}, Timeline(bars, size)
  PROVE  /\ DOMAIN bars = 1..Len(bars) /\ Len(bars) \in Nat
         /\ bars # <<>> => Len(bars) \in Nat \ {0}
         /\ \A i \in DOMAIN bars : bars[i].close_time \in Nat
         /\ bars \in Seq({bars[i] : i \in DOMAIN bars})
<1>1. DOMAIN bars = 1..Len(bars) /\ Len(bars) \in Nat /\ bars \in Seq({bars[i] : i \in DOMAIN bars})
  BY DEF Timeline
<1>2. bars # <<>> => Len(bars) # 0
  BY <1>1
<1>3. \A i \in DOMAIN bars : bars[i].close_time \in Nat
  BY DEF Timeline
<1> QED BY <1>1, <1>2, <1>3

\* What a context is judged by was closed with its bar: with more of the market,
\* or less, but for what closes later, it is the same.
LEMMA ContextKnown ==
  ASSUME NEW days, NEW pois, NEW hours, Charts(days, pois, hours), pois # <<>>,
         NEW k \in Int, pois[ContextBar(pois)].close_time <= k
  PROVE  LET then == ClosedBy(pois, k)
         IN /\ ContextBar(then) = ContextBar(pois)
            /\ ContextBar(pois) \in 1..Len(then)
            /\ Block(pois).status = "PASS" => Block(then) = Block(pois)
            /\ KnownDays(ClosedBy(days, k), then) = KnownDays(days, pois)
            /\ SubSeq(then, 1, ContextBar(then)) = SubSeq(pois, 1, ContextBar(pois))
<1> DEFINE then == ClosedBy(pois, k)
           n == Len(then)
           at == ContextBar(pois)
           poi == PointOfInterest(pois)
<1>0. /\ HourSize \in Nat \ {0} /\ PoiSize \in Nat \ {0} /\ DaySize \in Nat \ {0}
      /\ Timeline(days, DaySize) /\ Timeline(pois, PoiSize) /\ Timeline(hours, HourSize)
  BY TimeframeAssumption DEF Charts
<1>1. /\ Timeline(then, PoiSize) /\ n \in 0..Len(pois) /\ Agree(pois, then, n)
      /\ \A i \in DOMAIN pois : pois[i].close_time <= k <=> i <= n
  BY <1>0, ClosedByAgrees
<1>2. /\ DOMAIN pois = 1..Len(pois) /\ Len(pois) \in Nat \ {0} /\ n \in Nat
      /\ \A i \in DOMAIN pois : pois[i].close_time \in Nat
  <2>1. Len(pois) \in Nat \ {0} /\ DOMAIN pois = 1..Len(pois)
        /\ \A i \in DOMAIN pois : pois[i].close_time \in Nat
    BY <1>0, TimelineShape
  <2> HIDE DEF n, then
  <2>2. n \in Nat
    BY <1>1, <2>1
  <2> QED BY <2>1, <2>2
<1>3. /\ at \in 1..Len(pois)
      /\ Block(pois).status = "PASS" => BrokenHighs(pois) # {} /\ Block(pois) = poi.block
                                        /\ at = Block(pois).value.touch /\ poi.break < at
  BY <1>2, ContextBarFound
<1>4. at \in 1..n
  <2>1. at \in DOMAIN pois /\ pois[at].close_time <= k
    BY <1>2, <1>3
  <2>2. at \in Nat \ {0}
    BY <1>2, <1>3
  <2> HIDE DEF n, at, then
  <2>3. at <= n
    BY <2>1, <1>1
  <2> QED BY <2>2, <2>3, <1>2
<1>5. /\ ContextBar(then) = at
      /\ Block(pois).status = "PASS" => Block(then) = Block(pois)
  <2>1. CASE BrokenHighs(pois) = {}
    <3>1. at = Len(pois)
      BY <2>1 DEF ContextBar
    <3>2. n = Len(pois)
      <4> HIDE DEF n, at
      <4> QED BY <3>1, <1>4, <1>1, <1>2
    <3>3. then = pois
      BY <3>2, <1>0, ClosedByAgrees
    <3> QED BY <3>3
  <2>2. CASE BrokenHighs(pois) # {} /\ poi.block.status # "PASS"
    <3>1. poi.break = at /\ poi.break <= n
      BY <2>2, <1>4, <1>2 DEF ContextBar
    <3>2. /\ BrokenHighs(then) # {} /\ PointOfInterest(then).break = poi.break
          /\ PointOfInterest(then).block.status # "PASS"
      <4> HIDE DEF then, at
      <4> QED BY <2>2, <3>1, <1>1, PoiAgrees
    <3>3. Block(pois).status # "PASS"
      BY <2>2 DEF Block
    <3> QED BY <3>1, <3>2, <3>3 DEF ContextBar
  <2>3. CASE BrokenHighs(pois) # {} /\ poi.block.status = "PASS"
    <3>1. Block(pois) = poi.block
      BY <2>3 DEF Block
    <3>2. poi.block.value.touch = at /\ poi.break \in Nat /\ poi.break <= n /\ at <= n
      <4>1. poi.break \in 1..Len(pois)
        BY <2>3, <1>2, BreakFound
      <4>2. poi.block.value.touch = at /\ poi.break < at
        BY <1>3, <2>3, <3>1
      <4> HIDE DEF at, poi, n
      <4> QED BY <4>1, <4>2, <1>4, <1>2
    <3>3. /\ BrokenHighs(then) # {}
          /\ PointOfInterest(then).block = poi.block
      <4> HIDE DEF then, at
      <4> QED BY <2>3, <3>2, <1>1, PoiAgrees
    <3>4. ContextBar(then) = poi.block.value.touch /\ Block(then) = poi.block
      BY <3>3, <2>3 DEF ContextBar, Block
    <3> QED BY <3>1, <3>2, <3>4
  <2> QED BY <2>1, <2>2, <2>3
<1>6. then[at] = pois[at] /\ SubSeq(then, 1, at) = SubSeq(pois, 1, at)
  <2> HIDE DEF at, then
  <2>1. at \in 0..n
    BY <1>4, <1>2
  <2>2. SubSeq(then, 1, at) = SubSeq(pois, 1, at)
    BY <2>1, <1>1, SameBeginning
  <2> QED BY <2>2, <1>1, <1>4 DEF Agree
<1>7. KnownDays(ClosedBy(days, k), then) = KnownDays(days, pois)
  <2>1. pois[at].close_time \in Int /\ pois[at].close_time <= k
    BY <1>2, <1>3
  <2> HIDE DEF at, then
  <2>2. ClosedBy(ClosedBy(days, k), pois[at].close_time) = ClosedBy(days, pois[at].close_time)
    BY <2>1, <1>0, ClosedByEarlier
  <2> QED BY <2>2, <1>5, <1>6 DEF KnownDays, at
<1> QED BY <1>4, <1>5, <1>6, <1>7

\* A gate that has passed, and the ones before it, are what they were when the
\* last of them became known.
LEMMA KnownAgrees ==
  ASSUME NEW days, NEW pois, NEW hours, Charts(days, pois, hours), <<>> \notin {days, pois, hours},
         NEW k \in Int, NEW i \in 2..9,
         \A j \in 1..i : /\ Candidate(j, days, pois, hours).status = "PASS"
                         /\ Candidate(j, days, pois, hours).known_at <= k
  PROVE  \A j \in 1..i : Candidate(j, ClosedBy(days, k), ClosedBy(pois, k), ClosedBy(hours, k))
                           = Candidate(j, days, pois, hours)
<1> DEFINE early == ClosedBy(days, k)
           then == ClosedBy(pois, k)
           past == ClosedBy(hours, k)
           at == ContextBar(pois)
           n == Len(past)
           block == Block(pois)
<1>0. /\ HourSize \in Nat \ {0} /\ PoiSize \in Nat \ {0} /\ DaySize \in Nat \ {0}
      /\ Timeline(days, DaySize) /\ Timeline(pois, PoiSize) /\ Timeline(hours, HourSize)
  BY TimeframeAssumption DEF Charts
<1>1. /\ Timeline(past, HourSize) /\ n \in 0..Len(hours) /\ Agree(hours, past, n)
      /\ \A h \in DOMAIN hours : hours[h].close_time <= k <=> h <= n
  BY <1>0, ClosedByAgrees
<1>2. /\ DOMAIN hours = 1..Len(hours) /\ Len(hours) \in Nat \ {0} /\ n \in Nat
      /\ Len(pois) \in Nat \ {0} /\ DOMAIN pois = 1..Len(pois)
      /\ \A h \in DOMAIN pois : pois[h].close_time \in Nat
      /\ \A h \in DOMAIN hours : hours[h].close_time \in Nat
  <2>1. /\ DOMAIN hours = 1..Len(hours) /\ Len(hours) \in Nat \ {0}
        /\ Len(pois) \in Nat \ {0} /\ DOMAIN pois = 1..Len(pois)
        /\ \A h \in DOMAIN pois : pois[h].close_time \in Nat
        /\ \A h \in DOMAIN hours : hours[h].close_time \in Nat
    BY <1>0, TimelineShape
  <2> HIDE DEF n
  <2>2. n \in Nat
    BY <1>1, <2>1
  <2> QED BY <2>1, <2>2
<1>3. at \in 1..Len(pois)
  BY <1>2, ContextBarFound
<1>4. StructureGate(days, pois).status = "PASS" /\ StructureGate(days, pois).known_at <= k
      /\ RegimeGate(days, pois, hours).status = "PASS"
  <2>1. 1 \in 1..i /\ 2 \in 1..i
    OBVIOUS
  <2> QED BY <2>1, Candidates
<1>5. KnownDays(days, pois) # <<>>
  BY <1>4 DEF RegimeGate, Unavailable, Result
<1>6. pois[at].close_time <= k
  <2>1. StructureGate(days, pois).known_at = Last(SubSeq(pois, 1, at)).close_time
    BY <1>4 DEF StructureGate, Aligned, Structure, Fail, Result
  <2>2. Last(SubSeq(pois, 1, at)) = pois[at]
    <3>1. pois \in Seq({pois[h] : h \in DOMAIN pois}) /\ at \in 0..Len(pois)
      BY <1>0, <1>2, <1>3 DEF Timeline
    <3>2. Len(SubSeq(pois, 1, at)) = at /\ SubSeq(pois, 1, at)[at] = pois[at]
      <4> HIDE DEF at
      <4> QED BY <3>1, <1>3, BeginningOf
    <3> QED BY <3>2 DEF Last
  <2> QED BY <2>1, <2>2, <1>4
<1>7. /\ ContextBar(then) = at /\ at \in 1..Len(then)
      /\ block.status = "PASS" => Block(then) = block
      /\ KnownDays(early, then) = KnownDays(days, pois)
      /\ SubSeq(then, 1, at) = SubSeq(pois, 1, at)
  <2>1. pois # <<>>
    OBVIOUS
  <2> QED BY <1>6, <2>1, ContextKnown
<1>8. <<>> \notin {early, then, past}
  <2>1. then # <<>>
    <3>1. Len(<<>>) = 0 /\ at \in Nat \ {0} /\ at <= Len(then) /\ Len(then) \in Nat
      <4>1. Len(then) \in 0..Len(pois)
        BY <1>0, ClosedByAgrees
      <4> HIDE DEF at, then
      <4> QED BY <4>1, <1>7, <1>3, <1>2
    <3> QED BY <3>1
  <2>2. past # <<>>
    <3>1. hours[1].close_time <= pois[1].close_time /\ hours[1].close_time \in Nat
          /\ pois[1].close_time \in Nat /\ pois[at].close_time \in Nat
      <4>1. 1 \in DOMAIN hours /\ 1 \in DOMAIN pois /\ at \in DOMAIN pois
        BY <1>2, <1>3
      <4> HIDE DEF at
      <4> QED BY <4>1, <1>2 DEF Charts
    <3>2. pois[1].close_time <= pois[at].close_time
      <4>1. 1 \in DOMAIN pois /\ at \in DOMAIN pois /\ 1 <= at
        BY <1>2, <1>3
      <4> HIDE DEF at
      <4> QED BY <4>1, <1>0, LaterCloses
    <3>3. hours[1].close_time <= k
      BY <3>1, <3>2, <1>6
    <3>4. 1 \in DOMAIN hours
      BY <1>2
    <3>5. 1 <= n
      BY <3>3, <3>4, <1>1
    <3> QED BY <3>5
  <2>3. early # <<>>
    <3>1. ASSUME early = <<>> PROVE FALSE
      <4>1. Timeline(early, DaySize)
        BY <1>0, ClosedByAgrees
      <4>2. then[at].close_time \in Int
        <5>1. Timeline(then, PoiSize)
          BY <1>0, ClosedByAgrees
        <5> HIDE DEF then, at
        <5> QED BY <5>1, <1>7 DEF Timeline
      <4>3. KnownDays(early, then) = ClosedBy(early, then[at].close_time)
        BY <1>7 DEF KnownDays
      <4>4. Len(ClosedBy(early, then[at].close_time)) \in 0..Len(early)
            /\ (Len(ClosedBy(early, then[at].close_time)) = Len(early) => ClosedBy(early, then[at].close_time) = early)
        <5> HIDE DEF then, at, early
        <5> QED BY <4>1, <4>2, <1>0, ClosedByAgrees
      <4>5. Len(early) = 0
        BY <3>1
      <4>6. KnownDays(early, then) = early
        <5> HIDE DEF then, at, early
        <5> QED BY <4>3, <4>4, <4>5
      <4> QED BY <4>6, <3>1, <1>5, <1>7
    <3> QED BY <3>1
  <2> QED BY <2>1, <2>2, <2>3
<1>9. <<>> \notin {days, pois, hours}
  OBVIOUS
<1> HIDE DEF early, then, past, at, block, n
<1>10. \A j \in 1..3 : Candidate(j, early, then, past) = Candidate(j, days, pois, hours)
  <2>1. RegimeGate(early, then, past) = RegimeGate(days, pois, hours)
    BY <1>7, <1>8, <1>9 DEF RegimeGate
  <2>2. StructureGate(early, then) = StructureGate(days, pois)
    BY <1>7 DEF StructureGate, at
  <2>3. DealingRange(SubSeq(then, 1, ContextBar(then))) = DealingRange(SubSeq(pois, 1, ContextBar(pois)))
    BY <1>7 DEF at
  <2>4. \A j \in 1..3 : j = 1 \/ j = 2 \/ j = 3
    OBVIOUS
  <2> QED BY <2>1, <2>2, <2>3, <2>4, Candidates
<1>11. CASE i <= 3
  BY <1>10, <1>11 DEF early, then, past
<1>12. CASE 4 <= i
  <2>1. 4 \in 1..i /\ Candidate(4, days, pois, hours) = block
    BY <1>12, Candidates DEF block
  <2>2. block.status = "PASS" /\ Block(then) = block
    BY <2>1, <1>7
  <2>3. Candidate(4, early, then, past) = Candidate(4, days, pois, hours)
    BY <2>1, <2>2, Candidates
  <2>4. block.value.touch = at
    BY <2>2, <1>2, ContextBarFound DEF block, at
  <2>5. CASE i = 4
    <3>1. \A j \in 1..i : j \in 1..3 \/ j = 4
      BY <2>5
    <3> QED BY <3>1, <2>3, <1>10 DEF early, then, past
  <2>6. CASE 5 <= i
    <3>1. LiquidityGate(hours, block).status = "PASS" /\ LiquidityGate(hours, block).known_at <= k
      <4>1. 5 \in 1..i
        BY <2>6
      <4> QED BY <4>1, Candidates DEF block
    <3>2. Sweep(hours, block) \in 1..Len(hours)
          /\ LiquidityGate(hours, block).known_at = hours[Sweep(hours, block)].close_time
      BY <3>1, <1>0, SweepFound
    <3>3. Sweep(hours, block) <= n
      BY <3>1, <3>2, <1>1, <1>2
    <3> DEFINE m == Len(then)
    <3>4. Agree(pois, then, m) /\ block.value.touch \in Int /\ block.value.touch <= m + 1
      <4>1. Agree(pois, then, m) /\ m \in 0..Len(pois)
        BY <1>0, ClosedByAgrees DEF then
      <4> HIDE DEF m
      <4>2. at \in 1..m
        BY <1>7 DEF m
      <4> QED BY <4>1, <4>2, <2>4, <1>2
    <3> HIDE DEF m
    <3>5. /\ LiquidityGate(past, block) = LiquidityGate(hours, block)
          /\ (Displaced(hours, block) \in 1..n \/ Sweep(hours, block) + DisplacementWindow <= n)
              => DisplacementGate(past, block) = DisplacementGate(hours, block)
          /\ Displaced(hours, block) \in 1..n =>
              /\ MssGate(past, Sweep(past, block), Displaced(past, block))
                   = MssGate(hours, Sweep(hours, block), Displaced(hours, block))
              /\ ((GapGate(hours, block).status = "PASS" /\ Fill(hours, block) <= n)
                  \/ Displaced(hours, block) + 2 + FvgWait <= n)
                   => GapGate(past, block) = GapGate(hours, block)
              /\ GapGate(hours, block).status = "PASS" /\ Fill(hours, block) <= n
                   => RiskGate(then, past, block, LiquidityGate(past, block), GapGate(past, block))
                        = RiskGate(pois, hours, block, LiquidityGate(hours, block), GapGate(hours, block))
      BY <3>1, <3>3, <3>4, <1>0, <1>1, ExecutionAgrees
    <3>6. Candidate(5, early, then, past) = Candidate(5, days, pois, hours)
      BY <3>5, <2>2, Candidates DEF block
    <3>7. 6 <= i => Displaced(hours, block) \in 1..n
                    /\ Candidate(6, early, then, past) = Candidate(6, days, pois, hours)
      <4> SUFFICES ASSUME 6 <= i
                   PROVE  Displaced(hours, block) \in 1..n
                          /\ Candidate(6, early, then, past) = Candidate(6, days, pois, hours)
        OBVIOUS
      <4>1. 6 \in 1..i
        OBVIOUS
      <4>2. DisplacementGate(hours, block).status = "PASS" /\ DisplacementGate(hours, block).known_at <= k
        BY <4>1, Candidates DEF block
      <4>3. Displaced(hours, block) \in 1..Len(hours)
            /\ DisplacementGate(hours, block).known_at = hours[Displaced(hours, block)].close_time
        BY <4>2, <3>1, <1>0, DisplacedFound
      <4>4. Displaced(hours, block) \in 1..n
        BY <4>2, <4>3, <1>1, <1>2
      <4> QED BY <4>4, <3>5, <2>2, Candidates DEF block
    <3>8. 7 <= i => Candidate(7, early, then, past) = Candidate(7, days, pois, hours)
      BY <3>5, <3>7, <2>2, Candidates DEF block
    <3>9. 8 <= i => /\ GapGate(hours, block).status = "PASS" /\ Fill(hours, block) <= n
                    /\ Candidate(8, early, then, past) = Candidate(8, days, pois, hours)
      <4> SUFFICES ASSUME 8 <= i
                   PROVE  /\ GapGate(hours, block).status = "PASS" /\ Fill(hours, block) <= n
                          /\ Candidate(8, early, then, past) = Candidate(8, days, pois, hours)
        OBVIOUS
      <4>1. 8 \in 1..i /\ 6 <= i
        OBVIOUS
      <4>2. GapGate(hours, block).status = "PASS" /\ GapGate(hours, block).known_at <= k
        BY <4>1, Candidates DEF block
      <4>3. Displaced(hours, block) \in 1..n /\ Displaced(hours, block) \in 1..Len(hours)
        BY <4>1, <3>7, <1>1, <1>2
      <4>4. Fill(hours, block) \in 1..Len(hours)
            /\ GapGate(hours, block).known_at = hours[Fill(hours, block)].close_time
        BY <4>2, <4>3, <1>0, GapGateFound
      <4>5. Fill(hours, block) <= n
        BY <4>2, <4>4, <1>1, <1>2
      <4> QED BY <4>2, <4>3, <4>5, <3>5, <2>2, Candidates DEF block
    <3>10. 9 <= i => Candidate(9, early, then, past) = Candidate(9, days, pois, hours)
      BY <3>5, <3>7, <3>9, <2>2, Candidates DEF block
    <3>11. \A j \in 1..i : \/ j \in 1..3 \/ j = 4 \/ j = 5 \/ (j = 6 /\ 6 <= i) \/ (j = 7 /\ 7 <= i)
                           \/ (j = 8 /\ 8 <= i) \/ (j = 9 /\ 9 <= i)
      OBVIOUS
    <3> QED
      BY <3>6, <3>7, <3>8, <3>9, <3>10, <3>11, <2>3, <1>10 DEF early, then, past
  <2> QED BY <1>12, <2>5, <2>6
<1> QED BY <1>11, <1>12
--------------------------------------------------------------------------------
(* The analysis of a dataset *)

\* A bar of a longer time frame ends with bars of the shorter ones.
LEMMA Aligns ==
  /\ \A x \in Nat : x % PoiSize = 0 => x % HourSize = 0
  /\ \A x \in Nat : x % DaySize = 0 => x % PoiSize = 0
<1>1. ASSUME NEW s \in Nat \ {0}, NEW t \in Nat \ {0}, t % s = 0, NEW x \in Nat, x % t = 0
      PROVE  x % s = 0
  <2> DEFINE c == t \div s
             d == x \div t
  <2>1. c \in Nat /\ d \in Nat /\ t = c * s /\ x = d * t
    BY <1>1
  <2> HIDE DEF c, d
  <2>2. x = (d * c) * s /\ d * c \in Nat
    BY <2>1
  <2> DEFINE e == d * c
  <2>3. x = e * s /\ e \in Nat
    BY <2>2
  <2> HIDE DEF e
  <2> QED BY <2>3
<1>2. /\ HourSize \in Nat \ {0} /\ PoiSize \in Nat \ {0} /\ DaySize \in Nat \ {0}
      /\ PoiSize % HourSize = 0 /\ DaySize % PoiSize = 0
  BY TimeframeAssumption
<1>3. \A x \in Nat : x % PoiSize = 0 => x % HourSize = 0
  BY <1>1, <1>2
<1>4. \A x \in Nat : x % DaySize = 0 => x % PoiSize = 0
  BY <1>1, <1>2
<1> QED BY <1>3, <1>4

\* The last minute of the last whole hour, as analysis_boundary has it.
LastHour(b) == ((b + 1) \div HourSize) * HourSize - 1

\* The boundary is the last end of an hour up to the cutoff, less than an hour
\* before it.
LEMMA LastHourBounds ==
  ASSUME NEW b \in Nat
  PROVE  /\ LastHour(b) \in Int /\ LastHour(b) <= b /\ -1 <= LastHour(b)
         /\ b - HourSize < LastHour(b)
         /\ (LastHour(b) + 1) % HourSize = 0
         /\ \A x \in Nat : x <= b /\ (x + 1) % HourSize = 0 => x <= LastHour(b)
<1> DEFINE q == (b + 1) \div HourSize
<1>1. HourSize \in Nat \ {0}
  BY TimeframeAssumption
<1>2. q \in Nat /\ q * HourSize <= b + 1 /\ b + 1 < q * HourSize + HourSize
  BY <1>1
<1>3. LastHour(b) = q * HourSize - 1
  BY DEF LastHour
<1>4. (q * HourSize) % HourSize = 0
  <2> HIDE DEF q
  <2> QED BY <1>1, <1>2
<1>5. ASSUME NEW x \in Nat, x <= b, (x + 1) % HourSize = 0
      PROVE  x <= q * HourSize - 1
  <2> DEFINE r == (x + 1) \div HourSize
  <2>1. r \in Nat /\ x + 1 = r * HourSize
    BY <1>1, <1>5
  <2> HIDE DEF r, q
  <2>2. r <= q
    <3>1. ASSUME q + 1 <= r PROVE FALSE
      <4>1. (q + 1) * HourSize <= r * HourSize
        BY <3>1, <2>1, <1>1, <1>2
      <4>2. (q + 1) * HourSize = q * HourSize + HourSize
        BY <1>1, <1>2
      <4> DEFINE Q == q * HourSize
                 R == r * HourSize
      <4>3. /\ Q \in Int /\ R \in Int /\ x + 1 = R /\ b + 1 < Q + HourSize
            /\ Q + HourSize <= R
        BY <4>1, <4>2, <1>1, <1>2, <2>1
      <4> HIDE DEF Q, R
      <4> QED BY <4>3, <1>1, <1>5
    <3> QED BY <3>1, <2>1, <1>2
  <2>3. r * HourSize <= q * HourSize
    BY <2>1, <2>2, <1>1, <1>2
  <2>4. q * HourSize \in Int /\ r * HourSize \in Int
    BY <1>1, <1>2, <2>1
  <2> QED BY <2>1, <2>3, <2>4
<1>6. q * HourSize \in Nat
  <2> HIDE DEF q
  <2> QED BY <1>1, <1>2
<1> HIDE DEF q
<1>7. \A x \in Nat : x <= b /\ (x + 1) % HourSize = 0 => x <= LastHour(b)
  BY <1>3, <1>5
<1>8. (LastHour(b) + 1) % HourSize = 0
  <2> DEFINE m == q * HourSize
  <2>1. m \in Nat /\ m % HourSize = 0 /\ LastHour(b) = m - 1
    BY <1>3, <1>4, <1>6
  <2> HIDE DEF m
  <2>2. LastHour(b) + 1 = m
    BY <2>1
  <2> QED BY <2>1, <2>2
<1> QED
  BY <1>1, <1>2, <1>3, <1>6, <1>7, <1>8

\* The bars of a gap free range of minutes are charts, and the last hour there
\* is ends with the boundary.
LEMMA ChartsOfRows ==
  ASSUME NEW rows, NEW a \in Nat, NEW b \in Nat, a <= b, DOMAIN rows = a..b
  PROVE  /\ Charts(Resample(rows, DaySize), Resample(rows, PoiSize), Resample(rows, HourSize))
         /\ \A size \in {DaySize, PoiSize, HourSize} :
              \A i \in DOMAIN Resample(rows, size) :
                Resample(rows, size)[i].close_time <= LastHour(b)
<1> DEFINE pois == Resample(rows, PoiSize)
           hours == Resample(rows, HourSize)
<1>0. /\ HourSize \in Nat \ {0} /\ PoiSize \in Nat \ {0} /\ DaySize \in Nat \ {0}
      /\ PoiSize % HourSize = 0
  BY TimeframeAssumption
<1>1. \A size \in {DaySize, PoiSize, HourSize} :
        /\ Timeline(Resample(rows, size), size)
        /\ \A i \in DOMAIN Resample(rows, size) : Resample(rows, size)[i].close_time <= b
  BY <1>0, ResampledTimeline
<1>2. ASSUME NEW size \in {DaySize, PoiSize, HourSize}, NEW i \in DOMAIN Resample(rows, size)
      PROVE  Resample(rows, size)[i].close_time <= LastHour(b)
  <2> DEFINE x == Resample(rows, size)[i].close_time
  <2>1. x \in Nat /\ (x + 1) % size = 0 /\ x <= b
    BY <1>1 DEF Timeline
  <2> HIDE DEF x
  <2>2. x + 1 \in Nat
    BY <2>1
  <2>3. (x + 1) % HourSize = 0
    BY <2>1, <2>2, Aligns
  <2>4. x <= LastHour(b)
    BY <2>1, <2>3, LastHourBounds
  <2> QED BY <2>4 DEF x
<1>3. ASSUME pois # <<>>
      PROVE  hours # <<>> /\ hours[1].close_time <= pois[1].close_time
  <2> DEFINE first == FirstWhole(a, PoiSize)
             hour == FirstWhole(a, HourSize)
             r == PoiSize \div HourSize
             g == first * r
  <2>1. pois = WholeBars(rows, PoiSize, first, EndWhole(b, PoiSize))
    BY <1>0, ResampleIsWholeBars
  <2>2. hours = WholeBars(rows, HourSize, hour, EndWhole(b, HourSize))
    BY <1>0, ResampleIsWholeBars
  <2>3. first \in Nat /\ hour \in Nat /\ EndWhole(b, PoiSize) \in Nat /\ EndWhole(b, HourSize) \in Nat
    BY <1>0 DEF FirstWhole, EndWhole
  <2>4. r \in Nat /\ PoiSize = r * HourSize
    BY <1>0
  <2>5. Timeline(pois, PoiSize) /\ Len(pois) \in Nat \ {0} /\ DOMAIN pois = 1..Len(pois)
    BY <1>0, <1>1, <1>3, TimelineShape
  <2> HIDE DEF pois, hours, first, hour, r
  <2>6. 1 \in 1..(EndWhole(b, PoiSize) - first)
    <3>1. 1 \in DOMAIN pois
      BY <2>5
    <3>2. DOMAIN pois = 1..(EndWhole(b, PoiSize) - first)
      BY <2>1 DEF WholeBars
    <3> QED BY <3>1, <3>2
  <2>7. g \in Nat /\ g * HourSize = first * PoiSize
    BY <2>3, <2>4, <1>0
  <2>8. (first * PoiSize)..(first * PoiSize + PoiSize - 1) \subseteq a..b
    <3>1. first <= first /\ first < EndWhole(b, PoiSize)
      BY <2>3, <2>6
    <3> QED BY <3>1, <2>3, <1>0, GroupIsWhole DEF first
  <2> HIDE DEF g
  <2>9. HourSize <= PoiSize
    <3>1. r # 0
      BY <2>4, <1>0
    <3> QED BY <3>1, <2>4, <1>0
  <2>10. (g * HourSize)..(g * HourSize + HourSize - 1) \subseteq a..b
    <3> DEFINE from == first * PoiSize
    <3>1. from \in Nat /\ from..(from + PoiSize - 1) \subseteq a..b /\ g * HourSize = from
      BY <2>3, <2>7, <2>8, <1>0
    <3> HIDE DEF from
    <3>2. from..(from + HourSize - 1) \subseteq from..(from + PoiSize - 1)
      BY <3>1, <2>9, <1>0
    <3> QED BY <3>1, <3>2
  <2>11. hour <= g /\ g < EndWhole(b, HourSize)
    BY <2>7, <2>10, <1>0, GroupIsWhole DEF hour
  <2>12. 1 \in 1..(EndWhole(b, HourSize) - hour)
    BY <2>3, <2>7, <2>11
  <2>13. 1 \in DOMAIN hours /\ hours[1] = WholeBar(rows, HourSize, hour)
    <3>1. 1 \in DOMAIN hours /\ hours[1] = WholeBar(rows, HourSize, hour + 1 - 1)
      BY <2>2, <2>12 DEF WholeBars
    <3>2. hour + 1 - 1 = hour
      BY <2>3
    <3> QED BY <3>1, <3>2
  <2>14. pois[1] = WholeBar(rows, PoiSize, first)
    <3>1. pois[1] = WholeBar(rows, PoiSize, first + 1 - 1)
      BY <2>1, <2>6 DEF WholeBars
    <3>2. first + 1 - 1 = first
      BY <2>3
    <3> QED BY <3>1, <3>2
  <2>15. hours[1].close_time = hour * HourSize + HourSize - 1
         /\ pois[1].close_time = first * PoiSize + PoiSize - 1
    BY <2>13, <2>14 DEF WholeBar, Aggregate
  <2>16. hour * HourSize <= g * HourSize
    BY <2>3, <2>7, <2>11, <1>0
  <2>17. hours[1].close_time <= pois[1].close_time
    <3> DEFINE x == hour * HourSize
               y == g * HourSize
    <3>1. x \in Nat /\ y \in Nat /\ x <= y
      BY <2>3, <2>7, <2>16, <1>0
    <3>2. hours[1].close_time = x + HourSize - 1 /\ pois[1].close_time = y + PoiSize - 1
      BY <2>15, <2>7
    <3> HIDE DEF x, y
    <3> QED BY <3>1, <3>2, <2>9, <1>0
  <2>18. hours # <<>>
    BY <2>13
  <2> QED BY <2>17, <2>18 DEF pois, hours
<1>4. Charts(Resample(rows, DaySize), pois, hours)
  BY <1>1, <1>3 DEF Charts
<1> QED BY <1>2, <1>4

\* The bars of no minutes at all.
LEMMA GatesOfNothing ==
  ASSUME NEW rows, DOMAIN rows = {}
  PROVE  ReachedGates(rows) = <<Unavailable("insufficient_timeframe_warmup")>>
  BY ResampleOfNothing DEF ReachedGates, GatesOn

\* The indicators of an analysis are the candidates in turn.
LEMMA IndicatorsInTurn ==
  ASSUME NEW rows
  PROVE  InTurn(AnalyzeSymbol(rows).indicators,
                Resample(rows, DaySize), Resample(rows, PoiSize), Resample(rows, HourSize))
  BY GatesInTurn DEF AnalyzeSymbol, ReachedGates

\* The analysis is the same with the minutes up to the boundary only.
THEOREM WholeHoursDecide ==
  ASSUME NEW rows, NEW a \in Nat, NEW b \in Nat, a <= b, DOMAIN rows = a..b
  PROVE  AnalyzeSymbol(Until(rows, LastHour(b))) = AnalyzeSymbol(rows)
<1>0. {DaySize, PoiSize, HourSize} \subseteq Nat \ {0} /\ LastHour(b) \in Int
  BY TimeframeAssumption, LastHourBounds
<1>1. ASSUME NEW size \in {DaySize, PoiSize, HourSize}
      PROVE  Resample(Until(rows, LastHour(b)), size) = Resample(rows, size)
  <2> DEFINE bars == Resample(rows, size)
             then == ClosedBy(bars, LastHour(b))
  <2>1. Resample(Until(rows, LastHour(b)), size) = then
    BY <1>0, ResampleUntil
  <2>2. Timeline(bars, size)
    BY ChartsOfRows DEF Charts
  <2>3. \A i \in DOMAIN bars : bars[i].close_time <= LastHour(b)
    BY ChartsOfRows
  <2> HIDE DEF bars
  <2>4. DOMAIN bars = 1..Len(bars) /\ Len(bars) \in Nat
    BY <2>2, <1>0, TimelineShape
  <2>5. /\ \A i \in DOMAIN bars : bars[i].close_time <= LastHour(b) <=> i <= Len(then)
        /\ Len(then) \in 0..Len(bars)
        /\ Len(then) = Len(bars) => then = bars
    BY <2>2, <1>0, ClosedByAgrees
  <2> HIDE DEF then
  <2>6. Len(then) = Len(bars)
    <3>1. CASE Len(bars) = 0
      BY <3>1, <2>5, <2>4
    <3>2. CASE Len(bars) # 0
      <4>1. Len(bars) \in DOMAIN bars
        BY <3>2, <2>4
      <4>2. Len(bars) <= Len(then)
        BY <4>1, <2>3, <2>5
      <4>3. Len(then) \in Nat /\ Len(then) <= Len(bars)
        BY <2>5, <2>4
      <4> QED BY <4>2, <4>3, <2>4
    <3> QED BY <3>1, <3>2
  <2> QED BY <2>1, <2>5, <2>6 DEF bars
<1> QED
  BY <1>1 DEF AnalyzeSymbol, ReachedGates

\* No lookahead: the gates that have passed are those of the market as it was
\* when the last of them became known.
THEOREM NoLookahead ==
  ASSUME NEW rows, NEW a \in Nat, NEW b \in Nat, a <= b, DOMAIN rows = a..b,
         NEW k \in Int, NEW i \in 2..9,
         \A j \in 1..i : /\ AnalyzeSymbol(rows).indicators[j].status = "PASS"
                         /\ AnalyzeSymbol(rows).indicators[j].known_at <= k
  PROVE  \A j \in 1..i : AnalyzeSymbol(Until(rows, k)).indicators[j] = AnalyzeSymbol(rows).indicators[j]
<1> DEFINE days == Resample(rows, DaySize)
           pois == Resample(rows, PoiSize)
           hours == Resample(rows, HourSize)
           now == AnalyzeSymbol(rows).indicators
           then == AnalyzeSymbol(Until(rows, k)).indicators
           early == ClosedBy(days, k)
           before == ClosedBy(pois, k)
           past == ClosedBy(hours, k)
<1>1. InTurn(now, days, pois, hours)
  BY IndicatorsInTurn
<1>2. InTurn(then, early, before, past)
  <2>1. HourSize \in Nat \ {0} /\ PoiSize \in Nat \ {0} /\ DaySize \in Nat \ {0}
    BY TimeframeAssumption
  <2>2. /\ Resample(Until(rows, k), DaySize) = early
        /\ Resample(Until(rows, k), PoiSize) = before
        /\ Resample(Until(rows, k), HourSize) = past
    BY <2>1, ResampleUntil
  <2>3. InTurn(then, Resample(Until(rows, k), DaySize), Resample(Until(rows, k), PoiSize),
               Resample(Until(rows, k), HourSize))
    BY IndicatorsInTurn
  <2> HIDE DEF then, early, before, past
  <2> QED BY <2>2, <2>3
<1>3. Charts(days, pois, hours)
  BY ChartsOfRows
<1>4. \A j \in 1..i : now[j].status = "PASS" /\ now[j].known_at <= k
  OBVIOUS
<1> HIDE DEF days, pois, hours, now, then, early, before, past
<1>5. \A j \in 1..i : j \in 1..9 /\ \A l \in 1..(j - 1) : l \in 1..i
  OBVIOUS
<1>6. \A j \in 1..i : now[j] = Candidate(j, days, pois, hours)
  BY <1>1, <1>4, <1>5 DEF InTurn
<1>7. <<>> \notin {days, pois, hours}
  <2>1. RegimeGate(days, pois, hours).status = "PASS"
    <3>1. 1 \in 1..i
      OBVIOUS
    <3> QED BY <3>1, <1>4, <1>6, Candidates
  <2> QED BY <2>1 DEF RegimeGate, Unavailable, Result
<1>8. \A j \in 1..i : Candidate(j, early, before, past) = now[j]
  <2>1. \A j \in 1..i : Candidate(j, early, before, past) = Candidate(j, days, pois, hours)
    <3>1. \A j \in 1..i : /\ Candidate(j, days, pois, hours).status = "PASS"
                          /\ Candidate(j, days, pois, hours).known_at <= k
      BY <1>4, <1>6
    <3> QED BY ONLY <3>1, <1>3, <1>7, KnownAgrees DEF early, before, past
  <2> QED BY <2>1, <1>6
<1>9. \A j \in 1..i : (\A l \in 1..(j - 1) : then[l].status = "PASS") => then[j] = now[j]
  BY <1>2, <1>5, <1>8 DEF InTurn
<1>10. \A j \in 1..i : then[j] = now[j]
  <2> DEFINE P == {j \in 1..i : then[j] # now[j]}
  <2>1. ASSUME P # {} PROVE FALSE
    <3>1. P \in SUBSET Nat
      OBVIOUS
    <3>2. Min(P) \in P /\ \A j \in P : Min(P) <= j
      <4> HIDE DEF P
      <4> QED BY <3>1, <2>1, MinOfNaturals
    <3> DEFINE first == Min(P)
    <3> HIDE DEF first
    <3>3. first \in 1..i /\ then[first] # now[first] /\ \A l \in 1..(first - 1) : l \in 1..i /\ l \notin P
      <4>1. first \in P /\ \A j \in P : first <= j
        BY <3>2 DEF first
      <4>2. first \in 1..i /\ then[first] # now[first]
        BY <4>1
      <4>3. \A l \in 1..(first - 1) : l \in 1..i /\ ~ (first <= l)
        BY <4>2
      <4> QED BY <4>1, <4>2, <4>3
    <3>4. \A l \in 1..(first - 1) : then[l] = now[l]
      BY <3>3
    <3>5. \A l \in 1..(first - 1) : then[l].status = "PASS"
      BY <3>3, <3>4, <1>4
    <3> QED BY <3>3, <3>5, <1>9
  <2> QED BY <2>1
<1> QED BY <1>10 DEF then, now
--------------------------------------------------------------------------------
(* Verdicts that stand *)

\* The hours reach the boundary: a time not after it that is whole hours after
\* the end of an hour is the end of an hour as well.
LEMMA HoursReach ==
  ASSUME NEW rows, NEW a \in Nat, NEW b \in Nat, a <= b, DOMAIN rows = a..b,
         NEW i \in DOMAIN Resample(rows, HourSize), NEW d \in Nat,
         Resample(rows, HourSize)[i].close_time + d * HourSize <= LastHour(b)
  PROVE  /\ i + d \in DOMAIN Resample(rows, HourSize)
         /\ Resample(rows, HourSize)[i + d].close_time
              = Resample(rows, HourSize)[i].close_time + d * HourSize
<1> DEFINE hours == Resample(rows, HourSize)
           F == FirstWhole(a, HourSize)
           E == EndWhole(b, HourSize)
           g == F + i - 1
<1>0. HourSize \in Nat \ {0}
  BY TimeframeAssumption
<1>1. hours = WholeBars(rows, HourSize, F, E)
  BY <1>0, ResampleIsWholeBars
<1>2. F \in Nat /\ E \in Nat /\ LastHour(b) = E * HourSize - 1
  BY <1>0 DEF FirstWhole, EndWhole, LastHour
<1>3. Timeline(hours, HourSize)
  BY ChartsOfRows DEF Charts
<1> HIDE DEF hours, F, E
<1>4. i \in 1..(E - F) /\ hours[i] = WholeBar(rows, HourSize, g)
  <2>1. i \in DOMAIN hours
    BY DEF hours
  <2> QED BY <1>1, <2>1 DEF WholeBars
<1>5. g \in Nat /\ i \in Nat /\ i + d \in Nat
  BY <1>2, <1>4
<1>6. hours[i].close_time = g * HourSize + HourSize - 1
  BY <1>4 DEF WholeBar, Aggregate
<1>7. (g + d + 1) * HourSize <= E * HourSize
  <2>1. hours[i].close_time + d * HourSize <= LastHour(b)
    BY DEF hours
  <2>2. (g + d + 1) * HourSize = g * HourSize + d * HourSize + HourSize
    BY <1>0, <1>5
  <2> DEFINE G == g * HourSize
             D == d * HourSize
             T == E * HourSize
             W == (g + d + 1) * HourSize
  <2>3. G \in Int /\ D \in Int /\ T \in Int /\ HourSize \in Int
    BY <1>0, <1>2, <1>5
  <2>4. hours[i].close_time = G + HourSize - 1 /\ hours[i].close_time + D <= T - 1 /\ W = G + D + HourSize
    BY <1>2, <1>6, <2>1, <2>2
  <2> HIDE DEF G, D, T, W
  <2>5. W <= T
    BY <2>3, <2>4
  <2> QED BY <2>5 DEF W, T
<1>8. g + d + 1 <= E
  <2> DEFINE t == g + d + 1
  <2>1. t \in Nat /\ t * HourSize <= E * HourSize
    BY <1>5, <1>7
  <2> HIDE DEF t
  <2>2. t <= E
    BY <2>1, <1>0, <1>2
  <2> QED BY <2>2 DEF t
<1>9. i + d \in 1..(E - F)
  BY <1>2, <1>4, <1>5, <1>8
<1>10. i + d \in DOMAIN hours
  BY <1>1, <1>9 DEF WholeBars
<1>11. hours[i + d].close_time = hours[i].close_time + d * HourSize
  <2>1. i \in DOMAIN hours
    BY DEF hours
  <2>2. hours[i + d].close_time = hours[i].close_time + ((i + d) - i) * HourSize
    BY <1>3, <1>10, <2>1 DEF Timeline
  <2>3. (i + d) - i = d
    BY <1>5
  <2> QED BY <2>2, <2>3
<1> QED BY <1>10, <1>11 DEF hours

\* Whether a gate of the execution that did not pass has seen all it waits for,
\* by a time the market has come to; the touch is looked up in the hours.
Waited(i, hours, indicators, time) ==
  CASE i = 5 -> /\ FirstTouch(hours, indicators[4]) # 0
                /\ hours[FirstTouch(hours, indicators[4])].close_time + PoiTimeout * HourSize <= time
    [] i = 6 -> indicators[5].known_at + DisplacementWindow * HourSize <= time
    [] i = 7 -> TRUE
    [] i = 8 -> indicators[6].known_at + (2 + FvgWait) * HourSize <= time
    [] i = 9 -> TRUE

\* As long as the order block is the same, a verdict of the execution on the
\* market up to the end of an hour is the verdict on more of that market.
THEOREM SettledVerdicts ==
  ASSUME NEW rows, NEW a \in Nat, NEW b \in Nat, a <= b, DOMAIN rows = a..b,
         NEW k \in Int, k <= LastHour(b), NEW i \in 5..9,
         \A j \in 1..(i - 1) : AnalyzeSymbol(Until(rows, k)).indicators[j].status = "PASS",
         AnalyzeSymbol(rows).indicators[4] = AnalyzeSymbol(Until(rows, k)).indicators[4],
         \/ AnalyzeSymbol(Until(rows, k)).indicators[i].status = "PASS"
         \/ /\ AnalyzeSymbol(Until(rows, k)).indicators[i].status = "FAIL"
            /\ Waited(i, Resample(rows, HourSize), AnalyzeSymbol(Until(rows, k)).indicators, k)
  PROVE  AnalyzeSymbol(rows).indicators[i] = AnalyzeSymbol(Until(rows, k)).indicators[i]
<1> DEFINE days == Resample(rows, DaySize)
           pois == Resample(rows, PoiSize)
           hours == Resample(rows, HourSize)
           now == AnalyzeSymbol(rows).indicators
           then == AnalyzeSymbol(Until(rows, k)).indicators
           early == ClosedBy(days, k)
           before == ClosedBy(pois, k)
           past == ClosedBy(hours, k)
           n == Len(past)
           block == then[4]
<1>0. HourSize \in Nat \ {0} /\ PoiSize \in Nat \ {0} /\ DaySize \in Nat \ {0}
  BY TimeframeAssumption
<1>1. InTurn(now, days, pois, hours)
  BY IndicatorsInTurn
<1>2. InTurn(then, early, before, past)
  <2>2. /\ Resample(Until(rows, k), DaySize) = early
        /\ Resample(Until(rows, k), PoiSize) = before
        /\ Resample(Until(rows, k), HourSize) = past
    BY <1>0, ResampleUntil
  <2>3. InTurn(then, Resample(Until(rows, k), DaySize), Resample(Until(rows, k), PoiSize),
               Resample(Until(rows, k), HourSize))
    BY IndicatorsInTurn
  <2> HIDE DEF then, early, before, past
  <2> QED BY <2>2, <2>3
<1>3. Timeline(pois, PoiSize) /\ Timeline(hours, HourSize)
  BY ChartsOfRows DEF Charts
<1>4. /\ \A j \in 1..(i - 1) : then[j].status = "PASS"
      /\ now[4] = block
      /\ then[i].status = "PASS" \/ (then[i].status = "FAIL" /\ Waited(i, hours, then, k))
  OBVIOUS
<1>5. \A h \in DOMAIN hours : \A d \in Nat :
        hours[h].close_time + d * HourSize <= k =>
          h + d \in DOMAIN hours /\ hours[h + d].close_time = hours[h].close_time + d * HourSize
  <2> SUFFICES ASSUME NEW h \in DOMAIN hours, NEW d \in Nat, hours[h].close_time + d * HourSize <= k
               PROVE  h + d \in DOMAIN hours
                      /\ hours[h + d].close_time = hours[h].close_time + d * HourSize
    OBVIOUS
  <2>1. hours[h].close_time + d * HourSize <= LastHour(b)
    <3> DEFINE t == hours[h].close_time + d * HourSize
    <3>1. hours[h].close_time \in Nat /\ d * HourSize \in Nat
      BY <1>0, <1>3 DEF Timeline
    <3> DEFINE W == d * HourSize
    <3>4. W \in Nat /\ t = hours[h].close_time + W
      BY <3>1
    <3>5. t \in Int
      <4> HIDE DEF W, t, hours
      <4> QED BY <3>1, <3>4
    <3>6. t <= k
      OBVIOUS
    <3>2. t \in Int /\ LastHour(b) \in Int /\ t <= k
      BY <3>5, <3>6, LastHourBounds
    <3> HIDE DEF t
    <3>3. t <= LastHour(b)
      BY <3>2
    <3> QED BY <3>3 DEF t
  <2> QED BY <2>1, HoursReach
<1>6. /\ Timeline(past, HourSize) /\ n \in 0..Len(hours) /\ Agree(hours, past, n)
      /\ \A h \in DOMAIN hours : hours[h].close_time <= k <=> h <= n
      /\ \A h \in 1..n : past[h] = hours[h]
  BY <1>0, <1>3, ClosedByAgrees
<1>7. /\ Timeline(before, PoiSize) /\ Len(before) \in 0..Len(pois) /\ Agree(pois, before, Len(before))
  BY <1>0, <1>3, ClosedByAgrees
<1> HIDE DEF days, pois, hours, now, then, early, before, past, n, block
<1>8. /\ DOMAIN hours = 1..Len(hours) /\ Len(hours) \in Nat /\ n \in Nat /\ DOMAIN past = 1..n
      /\ \A h \in DOMAIN hours : hours[h].close_time \in Nat
  <2>1. /\ DOMAIN hours = 1..Len(hours) /\ Len(hours) \in Nat
        /\ DOMAIN past = 1..Len(past) /\ Len(past) \in Nat
        /\ \A h \in DOMAIN hours : hours[h].close_time \in Nat
    BY <1>0, <1>3, <1>6, TimelineShape
  <2> QED BY <2>1 DEF n
<1>9. \A h \in 1..n : \A d \in Nat : hours[h].close_time + d * HourSize <= k => h + d <= n
  <2> SUFFICES ASSUME NEW h \in 1..n, NEW d \in Nat, hours[h].close_time + d * HourSize <= k
               PROVE  h + d <= n
    OBVIOUS
  <2>1. h \in DOMAIN hours
    BY <1>6, <1>8
  <2>2. h + d \in DOMAIN hours /\ hours[h + d].close_time = hours[h].close_time + d * HourSize
    BY <2>1, <1>5
  <2> DEFINE later == h + d
  <2>3. later \in DOMAIN hours /\ hours[later].close_time <= k
    BY <2>2
  <2> HIDE DEF later
  <2>4. later <= n
    BY <2>3, <1>6
  <2> QED BY <2>4 DEF later
<1>10. Agree(past, hours, n) /\ Agree(before, pois, Len(before))
  BY <1>6, <1>7, AgreeSymmetric
<1>11. \A j \in 1..i : j \in 1..9 /\ \A l \in 1..(j - 1) : l \in 1..(i - 1)
  OBVIOUS
<1>12. \A j \in 1..i : then[j] = Candidate(j, early, before, past)
  BY <1>2, <1>4, <1>11 DEF InTurn
<1>13. Block(before) = block /\ block.status = "PASS"
  <2>1. 4 \in 1..i /\ 4 \in 1..(i - 1)
    OBVIOUS
  <2> QED BY <2>1, <1>4, <1>12, Candidates DEF block
<1>14. (\A j \in 1..3 : now[j].status = "PASS") /\ Block(pois) = block
  <2>1. now[4] = IF \A j \in 1..3 : now[j].status = "PASS" THEN Candidate(4, days, pois, hours)
                 ELSE Unavailable("upstream_gate_not_passed")
    <3>1. 4 \in 1..9 /\ 4 - 1 = 3
      OBVIOUS
    <3> QED BY <3>1, <1>1 DEF InTurn
  <2>2. Unavailable("upstream_gate_not_passed").status # "PASS"
    BY DEF Unavailable, Result
  <2>3. \A j \in 1..3 : now[j].status = "PASS"
    BY <2>1, <2>2, <1>4, <1>13
  <2>4. now[4] = Block(pois)
    BY <2>1, <2>3, Candidates
  <2> QED BY <2>3, <2>4, <1>4
<1>15. block.value.touch \in Int /\ block.value.touch <= Len(before) + 1
  <2>1. Len(before) \in Nat
    BY <1>0, <1>7, TimelineShape
  <2>2. Len(before) # 0
    <3>1. RegimeGate(early, before, past).status = "PASS"
      <4>1. 1 \in 1..(i - 1) /\ 1 \in 1..i
        OBVIOUS
      <4> QED BY <4>1, <1>4, <1>12, Candidates
    <3>2. before # <<>>
      BY <3>1 DEF RegimeGate, Unavailable, Result
    <3> QED BY <3>2, <1>0, <1>7, TimelineShape
  <2>3. Len(before) \in Nat \ {0}
    BY <2>1, <2>2
  <2>4. ContextBar(before) \in 1..Len(before) /\ block.value.touch = ContextBar(before)
    BY <2>3, <1>13, ContextBarFound
  <2> QED BY <2>3, <2>4
<1>16. \A h \in DOMAIN past : past[h] = hours[h] /\ h <= n
  BY <1>6, <1>8
<1>17. now[5] = Candidate(5, days, pois, hours)
  <2>1. \A j \in 1..4 : now[j].status = "PASS"
    <3>1. \A j \in 1..4 : j \in 1..3 \/ j = 4
      OBVIOUS
    <3> QED BY <3>1, <1>4, <1>13, <1>14
  <2>2. 5 \in 1..9 /\ 5 - 1 = 4
    OBVIOUS
  <2> QED BY <2>1, <2>2, <1>1 DEF InTurn
<1>18. CASE i = 5
  <2>1. then[5] = LiquidityGate(past, block) /\ now[5] = LiquidityGate(hours, block)
    <3>1. 5 \in 1..i
      OBVIOUS
    <3> QED BY <3>1, <1>12, <1>13, <1>14, <1>17, Candidates
  <2>2. CASE then[5].status = "PASS"
    <3>1. Sweep(past, block) \in 1..Len(past)
      BY <2>1, <2>2, <1>0, <1>6, SweepFound
    <3>2. Sweep(past, block) <= n
      BY <3>1, <1>8 DEF n
    <3>3. LiquidityGate(hours, block) = LiquidityGate(past, block)
      BY <2>1, <2>2, <3>2, <1>0, <1>3, <1>6, <1>10, LiquidityGateAgrees
    <3> QED BY <3>3, <2>1, <1>18 DEF now, then
  <2>3. CASE then[5].status = "FAIL" /\ then[5].status # "PASS"
    <3> DEFINE touch == FirstTouch(hours, block)
    <3>1. touch # 0 /\ hours[touch].close_time + PoiTimeout * HourSize <= k
      BY <2>3, <1>4, <1>18 DEF Waited, block
    <3>2. touch \in 1..Len(hours)
      <4>1. touch \in 0..Len(hours)
        BY <1>8, TouchFound
      <4> HIDE DEF touch
      <4> QED BY <4>1, <3>1, <1>8
    <3> HIDE DEF touch
    <3>3. PoiTimeout \in Nat
      BY StrategyAssumption
    <3>4. touch \in 1..n
      <4>1. hours[touch].close_time \in Nat /\ PoiTimeout * HourSize \in Nat
        BY <3>2, <3>3, <1>8, <1>0
      <4> DEFINE W == PoiTimeout * HourSize
      <4>2. W \in Nat /\ hours[touch].close_time + W <= k
        BY <4>1, <3>1
      <4> HIDE DEF W
      <4>3. hours[touch].close_time <= k
        BY <4>1, <4>2
      <4> QED BY <4>3, <3>2, <1>6, <1>8
    <3>5. touch + PoiTimeout <= n
      BY <3>1, <3>3, <3>4, <1>9
    <3>6. FirstTouch(past, block) = touch
      BY <3>4, <1>6, TouchAgrees DEF touch
    <3>7. LiquidityGate(hours, block) = LiquidityGate(past, block)
      BY <2>1, <2>3, <3>5, <3>6, <1>0, <1>3, <1>6, <1>10, LiquidityGateAgrees
    <3> QED BY <3>7, <2>1, <1>18 DEF now, then
  <2> QED
    BY <2>2, <2>3, <1>4, <1>18 DEF now, then
<1>19. CASE 6 <= i
  <2>1. LiquidityGate(past, block).status = "PASS" /\ then[5] = LiquidityGate(past, block)
    <3>1. 5 \in 1..i /\ 5 \in 1..(i - 1)
      BY <1>19
    <3> QED BY <3>1, <1>4, <1>12, <1>13, Candidates
  <2>2. Sweep(past, block) \in 1..n /\ then[5].known_at = hours[Sweep(past, block)].close_time
    <3>1. Sweep(past, block) \in 1..Len(past) /\ then[5].known_at = past[Sweep(past, block)].close_time
      BY <2>1, <1>0, <1>6, SweepFound
    <3> QED BY <3>1, <1>6 DEF n
  <2>3. /\ LiquidityGate(hours, block) = LiquidityGate(past, block)
        /\ (Displaced(past, block) \in 1..n \/ Sweep(past, block) + DisplacementWindow <= n)
             => DisplacementGate(hours, block) = DisplacementGate(past, block)
        /\ Displaced(past, block) \in 1..n =>
             /\ MssGate(hours, Sweep(hours, block), Displaced(hours, block))
                  = MssGate(past, Sweep(past, block), Displaced(past, block))
             /\ ((GapGate(past, block).status = "PASS" /\ Fill(past, block) <= n)
                 \/ Displaced(past, block) + 2 + FvgWait <= n)
                  => GapGate(hours, block) = GapGate(past, block)
             /\ GapGate(past, block).status = "PASS" /\ Fill(past, block) <= n
                  => RiskGate(pois, hours, block, LiquidityGate(hours, block), GapGate(hours, block))
                       = RiskGate(before, past, block, LiquidityGate(past, block), GapGate(past, block))
    <3>1. Sweep(past, block) <= n
      BY <2>2, <1>8
    <3> QED BY <2>1, <3>1, <1>0, <1>3, <1>6, <1>10, <1>15, ExecutionAgrees
  <2>4. now[5] = then[5] /\ now[5].status = "PASS"
    BY <1>14, <1>17, <2>1, <2>3, Candidates
  <2>5. now[6] = DisplacementGate(hours, block)
    <3>1. \A j \in 1..5 : now[j].status = "PASS"
      <4>1. \A j \in 1..5 : j \in 1..3 \/ j = 4 \/ j = 5
        OBVIOUS
      <4> QED BY <4>1, <2>4, <1>4, <1>13, <1>14
    <3>2. 6 \in 1..9 /\ 6 - 1 = 5
      OBVIOUS
    <3> QED BY <3>1, <3>2, <1>1, <1>14, Candidates DEF InTurn
  <2>6. then[6] = DisplacementGate(past, block)
    <3>1. 6 \in 1..i
      BY <1>19
    <3> QED BY <3>1, <1>12, <1>13, Candidates
  <2>7. CASE i = 6
    <3>1. CASE then[6].status = "PASS"
      <4>1. Displaced(past, block) \in 1..n
        BY <3>1, <2>1, <2>6, <1>0, <1>6, DisplacedFound DEF n
      <4> QED BY <4>1, <2>3, <2>5, <2>6, <2>7 DEF now, then
    <3>2. CASE then[6].status = "FAIL" /\ then[6].status # "PASS"
      <4>1. hours[Sweep(past, block)].close_time + DisplacementWindow * HourSize <= k
        BY <3>2, <2>2, <2>7, <1>4 DEF Waited
      <4>2. DisplacementWindow \in Nat
        BY StrategyAssumption
      <4>3. Sweep(past, block) + DisplacementWindow <= n
        BY <4>1, <4>2, <2>2, <1>9
      <4> QED BY <4>3, <2>3, <2>5, <2>6, <2>7 DEF now, then
    <3> QED BY <3>1, <3>2, <2>7, <1>4
  <2>8. CASE 7 <= i
    <3>1. DisplacementGate(past, block).status = "PASS"
      <4>1. 6 \in 1..(i - 1)
        BY <2>8
      <4> QED BY <4>1, <2>6, <1>4
    <3>2. Displaced(past, block) \in 1..n
          /\ then[6].known_at = hours[Displaced(past, block)].close_time
      <4>1. Displaced(past, block) \in 1..Len(past)
            /\ then[6].known_at = past[Displaced(past, block)].close_time
        BY <3>1, <2>1, <2>6, <1>0, <1>6, DisplacedFound
      <4> QED BY <4>1, <1>6 DEF n
    <3>3. now[6] = then[6] /\ now[6].status = "PASS"
      BY <3>1, <3>2, <2>3, <2>5, <2>6
    <3>4. now[7] = then[7]
      <4>1. now[7] = MssGate(hours, Sweep(hours, block), Displaced(hours, block))
        <5>1. \A j \in 1..6 : now[j].status = "PASS"
          <6>1. \A j \in 1..6 : j \in 1..3 \/ j = 4 \/ j = 5 \/ j = 6
            OBVIOUS
          <6> QED BY <6>1, <2>4, <3>3, <1>4, <1>13, <1>14
        <5>2. 7 \in 1..9 /\ 7 - 1 = 6
          OBVIOUS
        <5> QED BY <5>1, <5>2, <1>1, <1>14, Candidates DEF InTurn
      <4>2. then[7] = MssGate(past, Sweep(past, block), Displaced(past, block))
        <5>1. 7 \in 1..i
          BY <2>8
        <5> QED BY <5>1, <1>12, <1>13, Candidates
      <4> QED BY <4>1, <4>2, <3>2, <2>3
    <3>5. CASE i = 7
      BY <3>4, <3>5 DEF now, then
    <3>6. CASE 8 <= i
      <4>1. now[7].status = "PASS"
        <5>1. 7 \in 1..(i - 1)
          BY <3>6
        <5> QED BY <5>1, <3>4, <1>4
      <4>2. now[8] = GapGate(hours, block)
        <5>1. \A j \in 1..7 : now[j].status = "PASS"
          <6>1. \A j \in 1..7 : j \in 1..3 \/ j = 4 \/ j = 5 \/ j = 6 \/ j = 7
            OBVIOUS
          <6> QED BY <6>1, <2>4, <3>3, <4>1, <1>4, <1>13, <1>14
        <5>2. 8 \in 1..9 /\ 8 - 1 = 7
          OBVIOUS
        <5> QED BY <5>1, <5>2, <1>1, <1>14, Candidates DEF InTurn
      <4>3. then[8] = GapGate(past, block)
        <5>1. 8 \in 1..i
          BY <3>6
        <5> QED BY <5>1, <1>12, <1>13, Candidates
      <4>4. GapGate(past, block).status = "PASS" => Fill(past, block) <= n
        <5>1. Displaced(past, block) \in 1..Len(past) /\ Len(past) = n
          BY <3>2 DEF n
        <5>2. GapGate(past, block).status = "PASS" => Fill(past, block) \in 1..Len(past)
          BY <5>1, <1>0, <1>6, GapGateFound
        <5> QED BY <5>1, <5>2, <1>8
      <4>5. CASE i = 8
        <5>1. CASE then[8].status = "PASS"
          BY <5>1, <4>2, <4>3, <4>4, <4>5, <3>2, <2>3 DEF now, then
        <5>2. CASE then[8].status = "FAIL" /\ then[8].status # "PASS"
          <6>1. hours[Displaced(past, block)].close_time + (2 + FvgWait) * HourSize <= k
            BY <5>2, <3>2, <4>5, <1>4 DEF Waited
          <6>2. FvgWait \in Nat /\ 2 + FvgWait \in Nat
            BY ONLY StrategyAssumption
          <6>3. Displaced(past, block) + (2 + FvgWait) <= n
            BY <6>1, <6>2, <3>2, <1>9
          <6>4. Displaced(past, block) + 2 + FvgWait <= n
            BY <6>2, <6>3, <3>2, <1>8
          <6> QED BY <6>4, <4>2, <4>3, <4>5, <3>2, <2>3 DEF now, then
        <5> QED BY <5>1, <5>2, <4>5, <1>4
      <4>6. CASE i = 9
        <5>1. GapGate(past, block).status = "PASS"
          <6>1. 8 \in 1..(i - 1)
            BY <4>6
          <6> QED BY <6>1, <4>3, <1>4
        <5>2. now[8] = then[8] /\ now[8].status = "PASS"
          BY <5>1, <4>2, <4>3, <4>4, <3>2, <2>3
        <5>3. now[9] = RiskGate(pois, hours, block, LiquidityGate(hours, block), GapGate(hours, block))
          <6>1. \A j \in 1..8 : now[j].status = "PASS"
            <7>1. \A j \in 1..8 : j \in 1..3 \/ j = 4 \/ j = 5 \/ j = 6 \/ j = 7 \/ j = 8
              OBVIOUS
            <7> QED BY <7>1, <2>4, <3>3, <4>1, <5>2, <1>4, <1>13, <1>14
          <6>2. 9 \in 1..9 /\ 9 - 1 = 8
            OBVIOUS
          <6> QED BY <6>1, <6>2, <1>1, <1>14, Candidates DEF InTurn
        <5>4. then[9] = RiskGate(before, past, block, LiquidityGate(past, block), GapGate(past, block))
          <6>1. 9 \in 1..i
            BY <4>6
          <6> QED BY <6>1, <1>12, <1>13, Candidates
        <5> QED BY <5>1, <5>3, <5>4, <4>4, <4>6, <3>2, <2>3 DEF now, then
      <4> QED BY <3>6, <4>5, <4>6
    <3> QED BY <2>8, <3>5, <3>6
  <2> QED BY <1>19, <2>7, <2>8
<1> QED BY <1>18, <1>19
--------------------------------------------------------------------------------
(* The times of the gates *)

\* The bars a gate takes its times from; the risk has none.
Series(i, days, pois, hours) ==
  CASE i = 1 -> days
    [] i \in 2..4 -> pois
    [] i \in 5..8 -> hours
    [] OTHER -> <<>>

\* A result that says nothing of the time is timed by whatever bars.
LEMMA UntimedResults ==
  ASSUME NEW bars, NEW reason
  PROVE  TimedBy(Fail(reason), bars) /\ TimedBy(Unavailable(reason), bars)
  BY DEF TimedBy, Fail, Unavailable, Result

\* The last bar of a beginning of the bars.
LEMMA LastOfBeginning ==
  ASSUME NEW bars, NEW size \in Nat \ {0}, Timeline(bars, size), NEW n \in 1..Len(bars)
  PROVE  /\ n \in DOMAIN bars
         /\ SubSeq(bars, 1, n) # <<>>
         /\ Last(SubSeq(bars, 1, n)) = bars[n]
<1>1. /\ DOMAIN bars = 1..Len(bars) /\ Len(bars) \in Nat
      /\ bars \in Seq({bars[i] : i \in DOMAIN bars})
  BY TimelineShape
<1> DEFINE first == SubSeq(bars, 1, n)
<1>2. Len(first) = n /\ DOMAIN first = 1..n /\ \A i \in 1..n : first[i] = bars[i]
  <2>1. n \in 0..Len(bars)
    BY <1>1
  <2> QED BY <1>1, <2>1, BeginningOf
<1> HIDE DEF first
<1>3. n \in 1..n
  BY <1>1
<1>4. first # <<>>
  BY <1>2, <1>3
<1>5. Last(first) = first[n]
  BY <1>2 DEF Last
<1> QED BY <1>1, <1>2, <1>3, <1>4, <1>5 DEF first

\* The regime is timed by the last day that was closed with the bar of the
\* context, if there is one.
LEMMA RegimeTimed ==
  ASSUME NEW days, NEW pois, NEW hours, Charts(days, pois, hours)
  PROVE  /\ TimedBy(RegimeGate(days, pois, hours), days)
         /\ RegimeGate(days, pois, hours).status = "PASS" =>
              /\ pois # <<>> /\ ContextBar(pois) \in 1..Len(pois)
              /\ RegimeGate(days, pois, hours).known_at <= pois[ContextBar(pois)].close_time
<1> DEFINE known == KnownDays(days, pois)
           bar == ContextBar(pois)
           time == pois[bar].close_time
           n == Len(known)
           gate == RegimeGate(days, pois, hours)
<1>0. PoiSize \in Nat \ {0} /\ DaySize \in Nat \ {0}
  BY TimeframeAssumption
<1>1. Timeline(days, DaySize) /\ Timeline(pois, PoiSize)
  BY DEF Charts
<1>2. CASE <<>> \in {days, pois, hours}
  <2>1. gate = Unavailable("insufficient_timeframe_warmup")
    BY <1>2 DEF RegimeGate
  <2>2. gate.status # "PASS"
    BY <2>1 DEF Unavailable, Result
  <2> QED BY <2>1, <2>2, UntimedResults
<1>3. CASE <<>> \notin {days, pois, hours} /\ known = <<>>
  <2>1. gate = Unavailable("insufficient_1d_context")
    BY <1>3 DEF RegimeGate
  <2>2. gate.status # "PASS"
    BY <2>1 DEF Unavailable, Result
  <2> QED BY <2>1, <2>2, UntimedResults
<1>4. CASE <<>> \notin {days, pois, hours} /\ known # <<>>
  <2>1. Len(pois) \in Nat \ {0} /\ DOMAIN pois = 1..Len(pois)
    BY <1>0, <1>1, <1>4, TimelineShape
  <2>2. bar \in 1..Len(pois)
    BY <2>1, ContextBarFound
  <2>3. time \in Nat
    <3> HIDE DEF bar
    <3> QED BY <2>1, <2>2, <1>1 DEF Timeline
  <2>4. known = ClosedBy(days, time)
    BY DEF KnownDays
  <2>5. PICK m \in 0..Len(days) :
          /\ known = SubSeq(days, 1, m)
          /\ \A i \in DOMAIN days : days[i].close_time <= time <=> i <= m
    <3> HIDE DEF known, time
    <3>1. time \in Int
      BY <2>3
    <3>2. \E m \in 0..Len(days) :
            /\ ClosedBy(days, time) = SubSeq(days, 1, m)
            /\ \A i \in DOMAIN days : days[i].close_time <= time <=> i <= m
      BY <3>1, <1>0, <1>1, ClosedByIsBeginning
    <3> QED BY <3>2, <2>4
  <2>6. m \in 1..Len(days)
    <3>1. ASSUME m = 0 PROVE FALSE
      <4>1. Len(days) \in Nat /\ days \in Seq({days[i] : i \in DOMAIN days})
        BY <1>0, <1>1, TimelineShape
      <4>2. 0 \in 0..Len(days)
        BY <4>1
      <4>3. Len(SubSeq(days, 1, 0)) = 0 /\ SubSeq(days, 1, 0) \in Seq({days[i] : i \in DOMAIN days})
        BY <4>1, <4>2, BeginningOf
      <4>4. SubSeq(days, 1, 0) = <<>>
        BY <4>3
      <4> QED BY <4>4, <3>1, <2>5, <1>4
    <3>2. Len(days) \in Nat
      BY <1>0, <1>1, TimelineShape
    <3> QED BY <3>1, <3>2
  <2>7. m \in DOMAIN days /\ Last(known) = days[m]
    BY <2>5, <2>6, <1>0, <1>1, LastOfBeginning
  <2>8. days[m].close_time <= time
    <3>1. m <= m
      BY <2>6
    <3> QED BY <3>1, <2>5, <2>7
  <2>9. gate = Structure(known)
    BY <1>4 DEF RegimeGate
  <2>10. /\ gate.status \in {"PASS", "FAIL"}
         /\ gate.event_time = days[m].close_time /\ gate.known_at = days[m].close_time
    <3> HIDE DEF known, gate
    <3> QED BY <2>7, <2>9 DEF Structure, Result
  <2>11. m <= m
    BY <2>6
  <2>12. TimedBy(gate, days)
    <3> HIDE DEF gate
    <3> QED BY <2>7, <2>10, <2>11 DEF TimedBy
  <2> QED BY <2>2, <2>8, <2>10, <2>12, <1>4
<1> QED BY <1>2, <1>3, <1>4

\* The structure and the dealing range are timed by the bar of the context.
LEMMA ContextTimed ==
  ASSUME NEW days, NEW pois, NEW hours, Charts(days, pois, hours), pois # <<>>
  PROVE  LET structure == StructureGate(days, pois)
             range == DealingRange(SubSeq(pois, 1, ContextBar(pois)))
             time == pois[ContextBar(pois)].close_time
         IN /\ TimedBy(structure, pois) /\ TimedBy(range, pois)
            /\ structure.status = "PASS" => structure.known_at = time
            /\ range.known_at = time
<1> DEFINE bar == ContextBar(pois)
           upTo == SubSeq(pois, 1, bar)
           structure == StructureGate(days, pois)
           range == DealingRange(upTo)
           time == pois[bar].close_time
<1>1. PoiSize \in Nat \ {0} /\ Timeline(pois, PoiSize)
  BY TimeframeAssumption DEF Charts
<1>2. Len(pois) \in Nat \ {0} /\ DOMAIN pois = 1..Len(pois)
  BY <1>1, TimelineShape
<1>3. bar \in 1..Len(pois)
  BY <1>2, ContextBarFound
<1>4. bar \in DOMAIN pois /\ Last(upTo) = pois[bar] /\ bar <= bar
  <2> HIDE DEF bar
  <2> QED BY <1>1, <1>2, <1>3, LastOfBeginning
<1>5. /\ range.status \in {"PASS", "FAIL"}
      /\ range.event_time = time /\ range.known_at = time
  <2> HIDE DEF bar, upTo
  <2> QED BY <1>4 DEF DealingRange, Result
<1>6. /\ structure.status \in {"PASS", "FAIL"}
      /\ \/ structure.event_time = NoTime /\ structure.known_at = NoTime /\ structure.status = "FAIL"
         \/ structure.event_time = time /\ structure.known_at = time
  <2> DEFINE on == Structure(upTo)
  <2>1. on.status \in {"PASS", "FAIL"} /\ on.event_time = time /\ on.known_at = time
    <3> HIDE DEF bar, upTo
    <3> QED BY <1>4 DEF Structure, Result
  <2>2. \/ structure = Fail("v2_long_only")
        \/ structure = Fail("4h_not_aligned_bullish")
        \/ structure = on
    BY DEF StructureGate, Aligned
  <2> HIDE DEF on, structure, time
  <2> QED BY <2>1, <2>2 DEF Fail, Result
<1> HIDE DEF range, structure, time, bar
<1>7. TimedBy(range, pois) /\ TimedBy(structure, pois)
  BY <1>4, <1>5, <1>6 DEF TimedBy, time
<1> QED BY <1>5, <1>6, <1>7 DEF range, structure, time, bar

\* The order block is timed by the bar of its touch, or not at all.
LEMMA BlockTimed ==
  ASSUME NEW days, NEW pois, NEW hours, Charts(days, pois, hours), pois # <<>>
  PROVE  /\ TimedBy(Block(pois), pois)
         /\ Block(pois).status = "PASS" =>
              Block(pois).known_at = pois[ContextBar(pois)].close_time
<1> DEFINE block == Block(pois)
           bar == ContextBar(pois)
<1>1. PoiSize \in Nat \ {0} /\ Timeline(pois, PoiSize)
  BY TimeframeAssumption DEF Charts
<1>2. Len(pois) \in Nat \ {0} /\ DOMAIN pois = 1..Len(pois)
  BY <1>1, TimelineShape
<1>3. /\ bar \in 1..Len(pois)
      /\ block.status = "PASS" => block.event_time = pois[bar].close_time
                                  /\ block.known_at = pois[bar].close_time
  BY <1>2, ContextBarFound
<1>4. \/ block.status = "PASS"
      \/ \E reason : block = Fail(reason)
      \/ block = Unavailable("upstream_gate_not_passed")
  BY DEF Block, PointOfInterest, OrderBlock, Passed, Result
<1> HIDE DEF block, bar
<1>5. CASE block.status = "PASS"
  <2>1. bar \in DOMAIN pois /\ bar <= bar
    BY <1>2, <1>3
  <2>2. TimedBy(block, pois)
    BY <2>1, <1>3, <1>5 DEF TimedBy
  <2> QED BY <2>2, <1>3 DEF block, bar
<1>6. CASE block.status # "PASS"
  <2>1. TimedBy(block, pois)
    BY <1>4, <1>6, UntimedResults
  <2> QED BY <2>1, <1>6 DEF block, bar
<1> QED BY <1>5, <1>6

\* The sweep is timed by hours after the touch, which is after the block is
\* known.
LEMMA LiquidityTimed ==
  ASSUME NEW days, NEW pois, NEW hours, Charts(days, pois, hours),
         NEW block, block.known_at \in Int
  PROVE  /\ TimedBy(LiquidityGate(hours, block), hours)
         /\ LiquidityGate(hours, block).status = "PASS" =>
              /\ LiquidityGate(hours, block).event_time > block.known_at
              /\ LiquidityGate(hours, block).known_at >= LiquidityGate(hours, block).event_time
<1> DEFINE gate == LiquidityGate(hours, block)
           touch == FirstTouch(hours, block)
           sweep == Sweep(hours, block)
<1>1. HourSize \in Nat \ {0} /\ Timeline(hours, HourSize)
  BY TimeframeAssumption DEF Charts
<1>2. Len(hours) \in Nat /\ DOMAIN hours = 1..Len(hours)
  BY <1>1, TimelineShape
<1>3. CASE gate.status = "PASS"
  <2>1. /\ touch \in 1..Len(hours) /\ sweep \in 1..Len(hours) /\ touch < sweep
        /\ gate.known_at = hours[sweep].close_time
        /\ \E breach \in 1..sweep : touch < breach /\ gate.event_time = hours[breach].close_time
    BY <1>1, <1>3, SweepFound
  <2>2. hours[touch].open_time > block.known_at
    <3>1. touch # 0
      BY <2>1, <1>2
    <3> QED BY <3>1, <1>2, TouchFound
  <2> HIDE DEF gate, touch, sweep
  <2>3. PICK breach \in 1..sweep : touch < breach /\ gate.event_time = hours[breach].close_time
    BY <2>1
  <2>4. breach \in DOMAIN hours /\ sweep \in DOMAIN hours /\ touch \in DOMAIN hours /\ breach <= sweep
    BY <2>1, <2>3, <1>2
  <2>5. TimedBy(gate, hours)
    BY <2>1, <2>3, <2>4, <1>3 DEF TimedBy
  <2>6. /\ hours[touch].close_time < hours[breach].close_time
        /\ hours[breach].close_time <= hours[sweep].close_time
    BY <2>3, <2>4, <1>1, LaterCloses
  <2>7. /\ hours[touch].open_time = hours[touch].close_time + 1 - HourSize
        /\ hours[touch].close_time \in Nat /\ hours[breach].close_time \in Nat
        /\ hours[sweep].close_time \in Nat
    BY <2>4, <1>1 DEF Timeline
  <2>8. hours[breach].close_time > hours[touch].open_time
    BY <2>6, <2>7, <1>1
  <2>9. block.known_at < hours[breach].close_time
    <3> DEFINE opened == hours[touch].open_time
               later == hours[breach].close_time
               known == block.known_at
    <3>1. opened \in Int /\ later \in Int /\ known \in Int
      BY <2>7, <1>1
    <3>2. opened > known /\ later > opened
      BY <2>2, <2>8
    <3> HIDE DEF opened, later, known
    <3>3. known < later
      BY <3>1, <3>2
    <3> QED BY <3>3 DEF known, later
  <2>10. gate.event_time > block.known_at /\ gate.known_at >= gate.event_time
    BY <2>1, <2>3, <2>6, <2>7, <2>9
  <2> QED BY <2>5, <2>10 DEF gate
<1>4. CASE gate.status # "PASS"
  <2>1. \E reason : gate = Fail(reason) \/ gate = Unavailable(reason)
    <3>1. gate = IF FirstTouch(hours, block) = 0 THEN Unavailable("poi_touch_not_in_1h_snapshot")
                 ELSE IF FrozenLows(hours, FirstTouch(hours, block)) = {}
                   THEN Unavailable("no_frozen_sell_side_liquidity")
                 ELSE Liquidity(Observed(hours, FirstTouch(hours, block)),
                                hours[Max(FrozenLows(hours, FirstTouch(hours, block)))].low,
                                Max(FrozenLows(hours, FirstTouch(hours, block))),
                                FirstTouch(hours, block))
      BY LiquidityGateIs
    <3>2. ASSUME NEW bars, NEW level, NEW reference, NEW at
          PROVE  Liquidity(bars, level, reference, at).status = "PASS"
                 \/ \E reason : Liquidity(bars, level, reference, at) = Fail(reason)
      BY DEF Liquidity, Passed, Result
    <3> HIDE DEF gate
    <3> QED BY <3>1, <3>2, <1>4
  <2> HIDE DEF gate
  <2>2. TimedBy(gate, hours)
    BY <2>1, UntimedResults
  <2> QED BY <2>2, <1>4 DEF gate
<1> QED BY <1>3, <1>4

\* After the sweep: the displacement closes after the sweep is known, the shift
\* of structure with the displacement, and the gap is known after both.
LEMMA AfterSweepTimed ==
  ASSUME NEW days, NEW pois, NEW hours, Charts(days, pois, hours), NEW block,
         LiquidityGate(hours, block).status = "PASS"
  PROVE  LET liquidity == LiquidityGate(hours, block)
             displacement == DisplacementGate(hours, block)
             shift == MssGate(hours, Sweep(hours, block), Displaced(hours, block))
             gap == GapGate(hours, block)
         IN /\ TimedBy(displacement, hours)
            /\ displacement.status = "PASS" =>
                 /\ displacement.event_time > liquidity.known_at
                 /\ displacement.known_at >= liquidity.known_at
                 /\ TimedBy(shift, hours) /\ TimedBy(gap, hours)
                 /\ shift.status = "PASS" => shift.known_at >= displacement.known_at
                 /\ shift.status = "PASS" /\ gap.status = "PASS" => gap.known_at >= shift.known_at
<1> DEFINE liquidity == LiquidityGate(hours, block)
           displacement == DisplacementGate(hours, block)
           sweep == Sweep(hours, block)
           displaced == Displaced(hours, block)
           shift == MssGate(hours, sweep, displaced)
           gap == GapGate(hours, block)
           fill == Fill(hours, block)
<1>1. HourSize \in Nat \ {0} /\ Timeline(hours, HourSize)
  BY TimeframeAssumption DEF Charts
<1>2. Len(hours) \in Nat /\ DOMAIN hours = 1..Len(hours)
      /\ \A i \in DOMAIN hours : hours[i].close_time \in Nat
  BY <1>1, TimelineShape
<1>3. CASE displacement.status # "PASS"
  <2>1. displacement = Fail("displacement_window_expired")
    BY <1>1, <1>3, DisplacedFound
  <2>2. TimedBy(displacement, hours)
    <3> HIDE DEF displacement
    <3> QED BY <2>1, UntimedResults
  <2> QED BY <2>2, <1>3
<1>4. CASE displacement.status = "PASS"
  <2>1. /\ displaced \in 1..Len(hours) /\ sweep < displaced
        /\ displacement.event_time = hours[displaced].close_time
        /\ displacement.known_at = hours[displaced].close_time
    BY <1>1, <1>4, DisplacedFound
  <2>2. sweep \in 1..Len(hours) /\ liquidity.known_at = hours[sweep].close_time
    BY <1>1, SweepFound
  <2>3. /\ TimedBy(gap, hours)
        /\ gap.status = "PASS" =>
             /\ fill \in 1..Len(hours) /\ displaced < fill
             /\ gap.known_at = hours[fill].close_time
    BY <1>1, <2>1, GapGateFound
  <2>4. /\ shift.status \in {"PASS", "FAIL", "UNAVAILABLE"}
        /\ \/ shift.status # "PASS" /\ shift.event_time = NoTime /\ shift.known_at = NoTime
           \/ shift.event_time = hours[displaced].close_time
              /\ shift.known_at = hours[displaced].close_time
    <3> DEFINE known == SubSeq(hours, 1, displaced)
    <3>1. Last(known) = hours[displaced]
      <4> HIDE DEF displaced
      <4> QED BY <2>1, <1>1, LastOfBeginning
    <3>2. shift = Unavailable("no_frozen_opposing_swing") \/ \E level : shift = Mss(known, level)
      BY DEF MssGate
    <3> HIDE DEF shift, known, displaced
    <3> QED BY <3>1, <3>2 DEF Mss, Unavailable, Result
  <2> HIDE DEF liquidity, displacement, sweep, displaced, shift, gap, fill
  <2>5. displaced \in DOMAIN hours /\ sweep \in DOMAIN hours /\ displaced <= displaced
    BY <2>1, <2>2, <1>2
  <2>6. TimedBy(displacement, hours) /\ TimedBy(shift, hours)
    BY <2>1, <2>4, <2>5, <1>4 DEF TimedBy
  <2>7. hours[sweep].close_time < hours[displaced].close_time
    BY <2>1, <2>5, <1>1, LaterCloses
  <2>8. displacement.event_time > liquidity.known_at /\ displacement.known_at >= liquidity.known_at
    BY <2>1, <2>2, <2>5, <2>7, <1>2
  <2>9. shift.status = "PASS" => shift.known_at = hours[displaced].close_time
    BY <2>4
  <2>11. gap.status = "PASS" => hours[displaced].close_time <= gap.known_at
    <3> SUFFICES ASSUME gap.status = "PASS"
                 PROVE  hours[displaced].close_time <= gap.known_at
      OBVIOUS
    <3>1. fill \in DOMAIN hours /\ displaced <= fill
      BY <2>1, <2>3, <1>2
    <3>2. hours[displaced].close_time <= hours[fill].close_time
      BY <3>1, <2>5, <1>1, LaterCloses
    <3> QED BY <3>2, <2>3
  <2>12. hours[displaced].close_time \in Nat
    BY <2>5, <1>2
  <2>13. /\ shift.status = "PASS" => shift.known_at >= displacement.known_at
         /\ shift.status = "PASS" /\ gap.status = "PASS" => gap.known_at >= shift.known_at
    BY <2>1, <2>9, <2>11, <2>12
  <2> QED
    BY <2>3, <2>6, <2>8, <2>13 DEF liquidity, displacement, sweep, displaced, shift, gap
<1> QED BY <1>3, <1>4

\* Every gate that is reached is timed by its bars.
LEMMA CandidateTimed ==
  ASSUME NEW days, NEW pois, NEW hours, Charts(days, pois, hours), NEW i \in 1..9,
         \A j \in 1..(i - 1) : Candidate(j, days, pois, hours).status = "PASS"
  PROVE  TimedBy(Candidate(i, days, pois, hours), Series(i, days, pois, hours))
<1> DEFINE gate(j) == Candidate(j, days, pois, hours)
           block == Block(pois)
<1>1. CASE i = 1
  <2>1. Series(i, days, pois, hours) = days
    BY <1>1 DEF Series
  <2> QED BY <2>1, <1>1, Candidates, RegimeTimed
<1>2. ASSUME 2 <= i PROVE pois # <<>>
  <2>1. 1 \in 1..(i - 1)
    BY <1>2
  <2>2. RegimeGate(days, pois, hours).status = "PASS"
    BY <2>1, Candidates
  <2> QED BY <2>2, RegimeTimed
<1>3. CASE i \in 2..4
  <2>1. Series(i, days, pois, hours) = pois
    BY <1>3 DEF Series
  <2>2. pois # <<>>
    BY <1>2, <1>3
  <2>3. TimedBy(StructureGate(days, pois), pois)
        /\ TimedBy(DealingRange(SubSeq(pois, 1, ContextBar(pois))), pois)
    BY <2>2, ContextTimed
  <2>4. TimedBy(Block(pois), pois)
    BY <2>2, BlockTimed
  <2>5. i = 2 \/ i = 3 \/ i = 4
    BY <1>3
  <2> QED BY <2>1, <2>3, <2>4, <2>5, Candidates
<1>4. CASE i \in 5..8
  <2>1. Series(i, days, pois, hours) = hours
    BY <1>4 DEF Series
  <2>2. block.known_at \in Int
    <3>1. 4 \in 1..(i - 1)
      BY <1>4
    <3>2. block.status = "PASS"
      BY <3>1, Candidates
    <3>3. pois # <<>>
      BY <1>2, <1>4
    <3>4. PoiSize \in Nat \ {0} /\ Timeline(pois, PoiSize)
      BY TimeframeAssumption DEF Charts
    <3>5. Len(pois) \in Nat \ {0} /\ DOMAIN pois = 1..Len(pois)
          /\ \A j \in DOMAIN pois : pois[j].close_time \in Nat
      BY <3>3, <3>4, TimelineShape
    <3>6. ContextBar(pois) \in 1..Len(pois) /\ block.known_at = pois[ContextBar(pois)].close_time
      BY <3>2, <3>5, ContextBarFound
    <3> HIDE DEF block
    <3> QED BY <3>5, <3>6
  <2>3. TimedBy(LiquidityGate(hours, block), hours)
    BY <2>2, LiquidityTimed
  <2>4. CASE i = 5
    BY <2>1, <2>3, <2>4, Candidates
  <2>5. CASE i \in 6..8
    <3>1. LiquidityGate(hours, block).status = "PASS"
      <4>1. 5 \in 1..(i - 1)
        BY <2>5
      <4> QED BY <4>1, Candidates
    <3>2. LET displacement == DisplacementGate(hours, block)
          IN /\ TimedBy(displacement, hours)
             /\ displacement.status = "PASS" =>
                  /\ TimedBy(MssGate(hours, Sweep(hours, block), Displaced(hours, block)), hours)
                  /\ TimedBy(GapGate(hours, block), hours)
      BY <3>1, AfterSweepTimed
    <3>3. CASE i = 6
      BY <2>1, <3>2, <3>3, Candidates
    <3>4. CASE i = 7 \/ i = 8
      <4>1. 6 \in 1..(i - 1)
        BY <3>4
      <4>2. DisplacementGate(hours, block).status = "PASS"
        BY <4>1, Candidates
      <4> QED BY <2>1, <3>2, <3>4, <4>2, Candidates
    <3>5. i = 6 \/ i = 7 \/ i = 8
      BY <2>5
    <3> QED BY <3>3, <3>4, <3>5
  <2>6. i = 5 \/ i \in 6..8
    BY <1>4
  <2> QED BY <2>4, <2>5, <2>6
<1>5. CASE i = 9
  <2>1. gate(9) = RiskGate(pois, hours, block, LiquidityGate(hours, block), GapGate(hours, block))
    BY Candidates
  <2>2. ASSUME NEW liquidity, NEW gap
        PROVE  /\ RiskGate(pois, hours, block, liquidity, gap).status \in {"PASS", "FAIL", "UNAVAILABLE"}
               /\ RiskGate(pois, hours, block, liquidity, gap).event_time = NoTime
               /\ RiskGate(pois, hours, block, liquidity, gap).known_at = NoTime
    BY DEF RiskGate, Risk, Unavailable, Result
  <2> HIDE DEF gate
  <2> QED BY <2>1, <2>2, <1>5 DEF TimedBy, gate
<1>6. i = 1 \/ i \in 2..4 \/ i \in 5..8 \/ i = 9
  OBVIOUS
<1> QED BY <1>1, <1>3, <1>4, <1>5, <1>6

\* A gate all of whose predecessors have passed is its candidate, and so are
\* they.
LEMMA ReachedInTurn ==
  ASSUME NEW indicators, NEW days, NEW pois, NEW hours, InTurn(indicators, days, pois, hours),
         NEW i \in 1..9, \A j \in 1..(i - 1) : indicators[j].status = "PASS"
  PROVE  \A j \in 1..i : indicators[j] = Candidate(j, days, pois, hours)
<1>1. \A j \in 1..i : j \in 1..9 /\ \A l \in 1..(j - 1) : l \in 1..(i - 1)
  OBVIOUS
<1> QED BY <1>1 DEF InTurn

\* The times of an analysis: a result has both or none, they are in order, end
\* bars of the gate's time frame and are not after the last whole hour.
THEOREM TimesFit ==
  ASSUME NEW rows, NEW a \in Nat, NEW b \in Nat, a <= b, DOMAIN rows = a..b, NEW i \in 1..9
  PROVE  LET gate == AnalyzeSymbol(rows).indicators[i]
             size == <<DaySize, PoiSize, PoiSize, PoiSize,
                       HourSize, HourSize, HourSize, HourSize, 0>>[i]
         IN /\ gate.status \in {"PASS", "FAIL", "UNAVAILABLE"}
            /\ \/ gate.event_time = NoTime /\ gate.known_at = NoTime
               \/ /\ gate.event_time \in Nat /\ gate.known_at \in Nat
                  /\ gate.event_time <= gate.known_at /\ gate.known_at <= LastHour(b)
                  /\ i # 9
                  /\ (gate.event_time + 1) % size = 0 /\ (gate.known_at + 1) % size = 0
<1> DEFINE days == Resample(rows, DaySize)
           pois == Resample(rows, PoiSize)
           hours == Resample(rows, HourSize)
           gate == AnalyzeSymbol(rows).indicators[i]
           size == <<DaySize, PoiSize, PoiSize, PoiSize,
                     HourSize, HourSize, HourSize, HourSize, 0>>[i]
           bars == Series(i, days, pois, hours)
<1>1. Charts(days, pois, hours) /\ InTurn(AnalyzeSymbol(rows).indicators, days, pois, hours)
  BY ChartsOfRows, IndicatorsInTurn
<1>2. TimedBy(gate, bars)
  <2>1. CASE \A j \in 1..(i - 1) : AnalyzeSymbol(rows).indicators[j].status = "PASS"
    <3> DEFINE indicators == AnalyzeSymbol(rows).indicators
    <3> HIDE DEF indicators, days, pois, hours
    <3>1. \A j \in 1..i : indicators[j] = Candidate(j, days, pois, hours)
      <4>1. /\ InTurn(indicators, days, pois, hours)
            /\ \A j \in 1..(i - 1) : indicators[j].status = "PASS"
        BY <1>1, <2>1 DEF indicators
      <4> QED BY ONLY <4>1, ReachedInTurn
    <3>2. i \in 1..i /\ \A j \in 1..(i - 1) : j \in 1..i
      OBVIOUS
    <3>3. \A j \in 1..(i - 1) : Candidate(j, days, pois, hours).status = "PASS"
      BY <3>1, <3>2, <2>1 DEF indicators
    <3>4. TimedBy(Candidate(i, days, pois, hours), Series(i, days, pois, hours))
      BY <3>3, <1>1, CandidateTimed
    <3> QED BY <3>1, <3>2, <3>4 DEF indicators
  <2>2. CASE ~ \A j \in 1..(i - 1) : AnalyzeSymbol(rows).indicators[j].status = "PASS"
    <3>1. gate = Unavailable("upstream_gate_not_passed")
      BY <1>1, <2>2 DEF InTurn
    <3> HIDE DEF gate, bars
    <3> QED BY <3>1, UntimedResults
  <2> QED BY <2>1, <2>2
<1>3. \A k \in DOMAIN bars :
        /\ i # 9
        /\ bars[k].close_time \in Nat /\ bars[k].close_time <= LastHour(b)
        /\ (bars[k].close_time + 1) % size = 0
  <2>1. CASE i = 9
    <3>1. bars = <<>>
      BY <2>1 DEF Series
    <3> QED BY <3>1
  <2>2. CASE i # 9
    <3>1. size \in {DaySize, PoiSize, HourSize} /\ bars = Resample(rows, size)
      <4>1. i = 1 \/ i \in 2..4 \/ i \in 5..8
        BY <2>2
      <4>2. CASE i = 1
        BY <4>2 DEF Series
      <4>3. CASE i \in 2..4
        <5>1. size = PoiSize
          <6>1. i = 2 \/ i = 3 \/ i = 4
            BY <4>3
          <6> QED BY <6>1
        <5> QED BY <5>1, <4>3 DEF Series
      <4>4. CASE i \in 5..8
        <5>1. size = HourSize
          <6>1. i = 5 \/ i = 6 \/ i = 7 \/ i = 8
            BY <4>4
          <6> QED BY <6>1
        <5> QED BY <5>1, <4>4 DEF Series
      <4> QED BY <4>1, <4>2, <4>3, <4>4
    <3>2. Timeline(bars, size)
      BY <1>1, <3>1 DEF Charts
    <3>3. \A k \in DOMAIN bars : bars[k].close_time <= LastHour(b)
      <4> HIDE DEF size, bars
      <4> QED BY <3>1, ChartsOfRows
    <3> HIDE DEF size, bars
    <3> QED BY <3>2, <3>3, <2>2 DEF Timeline
  <2> QED BY <2>1, <2>2
<1>4. \/ gate.event_time = NoTime /\ gate.known_at = NoTime
      \/ /\ gate.event_time \in Nat /\ gate.known_at \in Nat
         /\ gate.event_time <= gate.known_at /\ gate.known_at <= LastHour(b)
         /\ i # 9
         /\ (gate.event_time + 1) % size = 0 /\ (gate.known_at + 1) % size = 0
  <2>1. CASE gate.event_time = NoTime /\ gate.known_at = NoTime
    BY <2>1
  <2>2. CASE ~ (gate.event_time = NoTime /\ gate.known_at = NoTime)
    <3>1. PICK event \in DOMAIN bars, known \in DOMAIN bars :
            /\ event <= known
            /\ gate.event_time = bars[event].close_time
            /\ gate.known_at = bars[known].close_time
      BY <1>2, <2>2 DEF TimedBy
    <3>2. bars[event].close_time <= bars[known].close_time
      <4>1. i # 9
        BY <1>3
      <4>2. Timeline(bars, DaySize) \/ Timeline(bars, PoiSize) \/ Timeline(bars, HourSize)
        <5>1. i = 1 \/ i \in 2..4 \/ i \in 5..8
          BY <4>1
        <5> HIDE DEF days, pois, hours
        <5> QED BY <5>1, <1>1 DEF Series, Charts
      <4>3. DaySize \in Nat \ {0} /\ PoiSize \in Nat \ {0} /\ HourSize \in Nat \ {0}
        BY TimeframeAssumption
      <4> HIDE DEF bars
      <4> QED BY <4>2, <4>3, <3>1, LaterCloses
    <3> HIDE DEF gate, bars, size
    <3> QED BY <3>1, <3>2, <1>3
  <2> QED BY <2>1, <2>2
<1>5. gate.status \in {"PASS", "FAIL", "UNAVAILABLE"}
  BY <1>2 DEF TimedBy
<1> QED BY <1>4, <1>5

\* The gates are passed in the order of what they know.
THEOREM StoryInOrder ==
  ASSUME NEW rows, NEW a \in Nat, NEW b \in Nat, a <= b, DOMAIN rows = a..b, NEW i \in 2..8,
         \A j \in 1..i : AnalyzeSymbol(rows).indicators[j].status = "PASS"
  PROVE  LET gate(j) == AnalyzeSymbol(rows).indicators[j]
         IN /\ gate(i).known_at >= gate(i - 1).known_at
            /\ i \in {5, 6} => gate(i).event_time > gate(i - 1).known_at
<1> DEFINE days == Resample(rows, DaySize)
           pois == Resample(rows, PoiSize)
           hours == Resample(rows, HourSize)
           indicators == AnalyzeSymbol(rows).indicators
           block == Block(pois)
           time == pois[ContextBar(pois)].close_time
<1>1. Charts(days, pois, hours) /\ InTurn(indicators, days, pois, hours)
  BY ChartsOfRows, IndicatorsInTurn
<1>2. \A j \in 1..i : indicators[j].status = "PASS" /\ indicators[j] = Candidate(j, days, pois, hours)
  <2> HIDE DEF indicators, days, pois, hours
  <2>1. \A j \in 1..(i - 1) : j \in 1..i
    OBVIOUS
  <2>2. \A j \in 1..(i - 1) : indicators[j].status = "PASS"
    BY <2>1 DEF indicators
  <2>3. i \in 1..9
    OBVIOUS
  <2>4. \A j \in 1..i : indicators[j] = Candidate(j, days, pois, hours)
    BY <1>1, <2>2, <2>3, ReachedInTurn
  <2> QED BY <2>4 DEF indicators
<1> HIDE DEF indicators, days, pois, hours
<1>3. /\ RegimeGate(days, pois, hours).status = "PASS"
      /\ indicators[1] = RegimeGate(days, pois, hours)
  <2>1. 1 \in 1..i
    OBVIOUS
  <2> QED BY <2>1, <1>2, Candidates
<1>4. pois # <<>> /\ indicators[1].known_at <= time
  BY <1>1, <1>3, RegimeTimed
<1>5. time \in Nat
  <2>1. PoiSize \in Nat \ {0} /\ Timeline(pois, PoiSize)
    BY <1>1, TimeframeAssumption DEF Charts
  <2>2. Len(pois) \in Nat \ {0} /\ DOMAIN pois = 1..Len(pois)
        /\ \A j \in DOMAIN pois : pois[j].close_time \in Nat
    BY <1>4, <2>1, TimelineShape
  <2>3. ContextBar(pois) \in 1..Len(pois)
    BY <2>2, ContextBarFound
  <2> QED BY <2>2, <2>3
<1>6. indicators[2].known_at = time
  <2>1. 2 \in 1..i
    OBVIOUS
  <2>2. indicators[2] = StructureGate(days, pois) /\ indicators[2].status = "PASS"
    BY <2>1, <1>2, Candidates
  <2>3. StructureGate(days, pois).status = "PASS" => StructureGate(days, pois).known_at = time
    BY <1>1, <1>4, ContextTimed
  <2> QED BY <2>2, <2>3
<1>7. 3 <= i => indicators[3].known_at = time
  <2> SUFFICES ASSUME 3 <= i PROVE indicators[3].known_at = time
    OBVIOUS
  <2>1. 3 \in 1..i
    OBVIOUS
  <2>2. indicators[3] = DealingRange(SubSeq(pois, 1, ContextBar(pois)))
    BY <2>1, <1>2, Candidates
  <2>3. DealingRange(SubSeq(pois, 1, ContextBar(pois))).known_at = time
    BY <1>1, <1>4, ContextTimed
  <2> QED BY <2>2, <2>3
<1>8. 4 <= i => indicators[4] = block /\ block.known_at = time
  <2> SUFFICES ASSUME 4 <= i PROVE indicators[4] = block /\ block.known_at = time
    OBVIOUS
  <2>1. 4 \in 1..i
    OBVIOUS
  <2>2. indicators[4] = block /\ block.status = "PASS"
    BY <2>1, <1>2, Candidates
  <2>3. Block(pois).status = "PASS" => Block(pois).known_at = time
    BY <1>1, <1>4, BlockTimed
  <2> QED BY <2>2, <2>3
<1> HIDE DEF time
<1>9. CASE i \in 2..4
  <2>1. i = 2 \/ i = 3 \/ i = 4
    BY <1>9
  <2>2. CASE i = 2
    BY <2>2, <1>4, <1>5, <1>6 DEF indicators
  <2>3. CASE i = 3
    BY <2>3, <1>5, <1>6, <1>7 DEF indicators
  <2>4. CASE i = 4
    BY <2>4, <1>5, <1>7, <1>8 DEF indicators
  <2> QED BY <2>1, <2>2, <2>3, <2>4
<1>10. CASE i \in 5..8
  <2>1. block.known_at \in Int
    BY <1>5, <1>8, <1>10
  <2>2. LiquidityGate(hours, block).status = "PASS" /\ indicators[5] = LiquidityGate(hours, block)
    <3>1. 5 \in 1..i
      BY <1>10
    <3> QED BY <3>1, <1>2, Candidates
  <2>3. /\ indicators[5].event_time > block.known_at
        /\ indicators[5].known_at >= indicators[5].event_time
    BY <2>1, <2>2, <1>1, LiquidityTimed
  <2>4. CASE i = 5
    <3>1. indicators[5].event_time \in Int /\ indicators[5].known_at \in Int
      <4>1. 5 \in 1..9
        OBVIOUS
      <4>2. \/ indicators[5].event_time = NoTime /\ indicators[5].known_at = NoTime
            \/ indicators[5].event_time \in Nat /\ indicators[5].known_at \in Nat
        BY <4>1, TimesFit DEF indicators
      <4> QED BY <4>2 DEF NoTime
    <3>2. indicators[5].known_at >= block.known_at
      BY <3>1, <2>1, <2>3
    <3> QED BY <2>3, <2>4, <3>2, <1>8 DEF indicators
  <2>5. CASE i \in 6..8
    <3>1. /\ DisplacementGate(hours, block).status = "PASS"
          /\ indicators[6] = DisplacementGate(hours, block)
      <4>1. 6 \in 1..i
        BY <2>5
      <4> QED BY <4>1, <1>2, Candidates
    <3>2. LET liquidity == LiquidityGate(hours, block)
              displacement == DisplacementGate(hours, block)
              shift == MssGate(hours, Sweep(hours, block), Displaced(hours, block))
              gap == GapGate(hours, block)
          IN displacement.status = "PASS" =>
               /\ displacement.event_time > liquidity.known_at
               /\ displacement.known_at >= liquidity.known_at
               /\ shift.status = "PASS" => shift.known_at >= displacement.known_at
               /\ shift.status = "PASS" /\ gap.status = "PASS" => gap.known_at >= shift.known_at
      BY <2>2, <1>1, AfterSweepTimed
    <3>3. CASE i = 6
      BY <3>1, <3>2, <3>3, <2>2 DEF indicators
    <3>4. CASE i = 7 \/ i = 8
      <4> DEFINE shift == MssGate(hours, Sweep(hours, block), Displaced(hours, block))
                 gap == GapGate(hours, block)
      <4>1. shift.status = "PASS" /\ indicators[7] = shift
        <5>1. 7 \in 1..i
          BY <3>4
        <5> QED BY <5>1, <1>2, Candidates
      <4>2. CASE i = 7
        BY <3>1, <3>2, <4>1, <4>2 DEF indicators
      <4>3. CASE i = 8
        <5>1. gap.status = "PASS" /\ indicators[8] = gap
          <6>1. 8 \in 1..i
            BY <4>3
          <6> QED BY <6>1, <1>2, Candidates
        <5>2. indicators[8].known_at >= indicators[7].known_at
          BY <5>1, <4>1, <3>1, <3>2
        <5> QED BY <5>2, <4>3 DEF indicators
      <4> QED BY <3>4, <4>2, <4>3
    <3>5. i = 6 \/ i = 7 \/ i = 8
      BY <2>5
    <3> QED BY <3>3, <3>4, <3>5
  <2>6. i = 5 \/ i \in 6..8
    BY <1>10
  <2> QED BY <2>4, <2>5, <2>6
<1>11. i \in 2..4 \/ i \in 5..8
  OBVIOUS
<1> QED BY <1>9, <1>10, <1>11
================================================================================
