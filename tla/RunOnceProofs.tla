----------------------------- MODULE RunOnceProofs -----------------------------
(* run_once for every market, every exchange of the moods and every strategy:  *)
(* the inductive invariant of RunOnce, and with the theorems about one         *)
(* analysis the safety properties of the loop.                                 *)
EXTENDS RunOnce, StrategyAnalysisProofs, FiniteSetTheorems

\* The dataset of a set of minutes, and the report of its analysis.
LastClosed(S) == IF S = {} THEN -1 ELSE Max(S)
LastWholeHour(S) == ((LastClosed(S) + 1) \div HourSize) * HourSize - 1
DatasetOf(way, S) == [m \in S |-> Market[way][m]]
ReportOf(way, S) ==
  IF LastWholeHour(S) < 0 THEN NoReport
  ELSE [boundary |-> LastWholeHour(S), analysis |-> AnalyzeSymbol(DatasetOf(way, S))]

\* A dataset has no gap and ends with a minute the exchange clock answered.
IsDataset(S) == S = {} \/ \E a \in Nat, b \in ServerCutoff : a <= b /\ S = a..b

\* A dataset grows at its end; at its beginning only while it is shorter than
\* the overlap that is fetched again.
Extends(after, before) ==
  \/ before = {}
  \/ \E a1, a0 \in Nat, b0, b1 \in ServerCutoff :
       /\ a1 <= a0 /\ a0 <= b0 /\ b0 < b1
       /\ before = a0..b0 /\ after = a1..b1
       /\ a1 = a0 \/ b0 - a0 + 1 < Overlap

TypeOK ==
  /\ fetch \in {"asking", "done", "raised"}
  /\ course \in DOMAIN Market
  /\ minutes \in SUBSET Nat /\ rows \in SUBSET Nat
  /\ cursor \in Int
  /\ pc \in {"idle", "fetch", "analyze", "reported"}

DatasetOK ==
  /\ IsDataset(minutes)
  /\ pc \in {"analyze", "reported"} => minutes # {}

\* Between two analyses the report is that of the dataset; between a commit and
\* its analysis it is that of a dataset the new one extends.
ReportOK ==
  /\ pc # "analyze" => report = ReportOf(course, minutes)
  /\ pc = "analyze" => \E before \in SUBSET Nat : /\ Extends(minutes, before)
                                                  /\ report = ReportOf(course, before)

\* What was asked for, and what of it has come as long as no page was refused.
FetchOK ==
  pc = "fetch" =>
    /\ request.end \in ServerCutoff /\ request.end > Cutoff
    /\ request.start = IF minutes = {} THEN request.end + 1 - Bootstrap ELSE Cutoff + 1 - Overlap
    /\ request.start <= cursor
    /\ fetch # "raised" => \A m \in rows : request.start <= m

\* An honest exchange has answered every minute asked for so far, once.
HonestOK ==
  pc = "fetch" /\ mood = "honest" =>
    /\ ~ repeated
    /\ rows = Minute(request.start, cursor - 1)
    /\ \/ fetch = "asking" /\ cursor <= request.end
       \/ fetch = "done" /\ cursor = request.end + 1

Inv == TypeOK /\ DatasetOK /\ ReportOK /\ FetchOK /\ HonestOK
--------------------------------------------------------------------------------
(* Minutes and pages *)

\* The first and the last of a range of minutes.
LEMMA RangeEnds ==
  ASSUME NEW a \in Nat, NEW b \in Nat, a <= b
  PROVE  Min(a..b) = a /\ Max(a..b) = b
<1>1. a..b \in SUBSET Nat /\ a \in a..b /\ b \in a..b /\ \A y \in a..b : a <= y /\ y <= b
  OBVIOUS
<1> DEFINE S == a..b
<1> HIDE DEF S
<1>2. S \in SUBSET Nat /\ a \in S /\ b \in S /\ \A y \in S : a <= y /\ y <= b
  BY <1>1 DEF S
<1>3. Min(S) \in S /\ Min(S) <= a
  BY <1>2, MinOfNaturals
<1>4. Max(S) \in S /\ Max(S) >= b
  BY <1>2, MaxOfBounded
<1> DEFINE low == Min(S)
           high == Max(S)
<1> HIDE DEF low, high
<1>5. low \in S /\ low <= a /\ high \in S /\ high >= b
  BY <1>3, <1>4 DEF low, high
<1>6. low \in Nat /\ high \in Nat /\ a <= low /\ high <= b
  BY <1>2, <1>5
<1>7. low = a /\ high = b
  BY <1>5, <1>6
<1> QED BY <1>7 DEF low, high, S

\* The last of a few times, the ones before the epoch standing for none.
LEMMA LatestTime ==
  ASSUME NEW S \in SUBSET Int, S # {}, NEW b \in Nat, \A y \in S : -1 <= y /\ y <= b
  PROVE  Max(S) \in S /\ \A y \in S : y <= Max(S)
<1> DEFINE T == {y + 1 : y \in S}
<1>1. T \in SUBSET Nat /\ T # {} /\ \A t \in T : t <= b + 1
  <2>1. ASSUME NEW t \in T PROVE t \in Nat /\ t <= b + 1
    <3>1. PICK y \in S : t = y + 1
      OBVIOUS
    <3>2. y \in Int /\ -1 <= y /\ y <= b
      OBVIOUS
    <3> HIDE DEF T
    <3> QED BY <3>1, <3>2
  <2>2. T # {}
    OBVIOUS
  <2> HIDE DEF T
  <2> QED BY <2>1, <2>2
<1>2. b + 1 \in Nat
  OBVIOUS
<1>3. Max(T) \in T /\ \A t \in T : Max(T) >= t
  <2> HIDE DEF T
  <2> QED BY <1>1, <1>2, MaxOfBounded
<1>4. PICK x \in S : Max(T) = x + 1
  BY <1>3
<1>5. \A y \in S : x >= y
  <2> SUFFICES ASSUME NEW y \in S PROVE x >= y
    OBVIOUS
  <2>1. y + 1 \in T
    OBVIOUS
  <2>2. x + 1 >= y + 1
    BY <2>1, <1>3, <1>4
  <2> QED BY <2>2
<1> QED BY <1>5 DEF Max

\* The minutes asked for start with the epoch at the earliest.
LEMMA MinuteRange ==
  ASSUME NEW first \in Int, NEW last \in Int
  PROVE  \E from \in Nat : /\ Minute(first, last) = from..last
                           /\ first <= from
                           /\ from = 0 \/ from = first
<1> DEFINE both == {0, first}
<1>1. both \in SUBSET Int /\ 0 \in both /\ first \in both /\ \A x \in both : x = 0 \/ x = first
  OBVIOUS
<1>2. Minute(first, last) = Max(both)..last
  BY DEF Minute
<1> HIDE DEF both
<1>3. Max(both) \in both /\ Max(both) >= 0 /\ Max(both) >= first
  BY <1>1, ExtremeOfTwo
<1> DEFINE from == Max(both)
<1> HIDE DEF from
<1>4. from \in both /\ from >= 0 /\ from >= first
  BY <1>3 DEF from
<1>5. from \in Nat /\ (from = 0 \/ from = first) /\ first <= from
  BY <1>1, <1>4
<1> QED BY <1>2, <1>5 DEF from

\* The page an honest exchange answers: from the cursor on, up to the limit or
\* to the end of what is asked for.
LEMMA HonestPage ==
  ASSUME cursor \in Int, request.end \in Nat, cursor <= request.end
  PROVE  \E from, last \in Nat :
           /\ Honest = from..last /\ from <= last /\ last <= request.end
           /\ cursor <= from /\ (from = 0 \/ from = cursor)
           /\ last = request.end \/ last = from + Limit - 1
<1>0. Limit \in Nat \ {0}
  BY PageAssumption
<1> DEFINE from == Max({0, cursor})
           end == request.end
           full == from + Limit - 1
           both == {end, full}
           last == Min(both)
<1>1. Honest = Minute(cursor, last)
  BY DEF Honest
<1>2. from \in Nat /\ cursor <= from /\ (from = 0 \/ from = cursor)
  <2> DEFINE two == {0, cursor}
  <2>1. two \in SUBSET Int /\ 0 \in two /\ cursor \in two /\ \A x \in two : x = 0 \/ x = cursor
    OBVIOUS
  <2>2. from = Max(two)
    OBVIOUS
  <2> HIDE DEF two, from
  <2>3. from \in two /\ from >= 0 /\ from >= cursor
    BY <2>1, <2>2, ExtremeOfTwo
  <2>4. from \in Int /\ (from = 0 \/ from = cursor)
    BY <2>1, <2>3
  <2> QED BY <2>3, <2>4
<1>3. Honest = from..last
  BY <1>1 DEF Minute
<1> HIDE DEF from
<1>4. full \in Nat /\ from <= full /\ end \in Nat /\ from <= end
  BY <1>0, <1>2
<1> HIDE DEF full, end
<1>5. both \in SUBSET Int /\ end \in both /\ full \in both /\ \A x \in both : x = end \/ x = full
  BY <1>4
<1> HIDE DEF both
<1>6. last \in both /\ last <= end /\ last <= full
  BY <1>5, ExtremeOfTwo
<1> HIDE DEF last
<1>7. last \in Nat /\ from <= last /\ (last = end \/ last = full)
  BY <1>4, <1>5, <1>6
<1> QED BY <1>2, <1>3, <1>6, <1>7 DEF end, full

\* Whatever the exchange answers is a set of minutes, and the only ones before
\* the cursor are those of a page that ends before it.
LEMMA PagesAreMinutes ==
  ASSUME cursor \in Int, request.end \in Nat, NEW page \in Pages
  PROVE  /\ page \in SUBSET Nat
         /\ page # {} => Max(page) \in page /\ \A m \in page : m <= Max(page)
         /\ (\A m \in page : cursor <= m) \/ (\A m \in page : m < cursor)
<1>0. Limit \in Nat \ {0}
  BY PageAssumption
<1> DEFINE end == request.end
           full == Max({0, cursor}) + Limit - 1
           last == Min({end, full})
<1>1. PICK from \in Nat : cursor <= from /\ Honest = from..last /\ last \in Int /\ last <= end
  <2>1. Honest = Minute(cursor, last)
    BY DEF Honest
  <2>2. full \in Int
    <3> DEFINE two == {0, cursor}
    <3>1. two \in SUBSET Int /\ 0 \in two /\ cursor \in two /\ \A x \in two : x = 0 \/ x = cursor
      OBVIOUS
    <3>2. full = Max(two) + Limit - 1
      OBVIOUS
    <3> DEFINE from == Max(two)
    <3> HIDE DEF two, full, from
    <3>3. from \in two
      BY <3>1, ExtremeOfTwo DEF from
    <3>4. from \in Int
      BY <3>1, <3>3
    <3>5. full = from + Limit - 1
      BY <3>2 DEF from
    <3> QED BY <3>4, <3>5, <1>0
  <2>3. last \in Int /\ last <= end
    <3> DEFINE both == {end, full}
    <3>1. end \in Int
      OBVIOUS
    <3> HIDE DEF full, end
    <3>2. both \in SUBSET Int /\ end \in both /\ full \in both /\ \A x \in both : x = end \/ x = full
      BY <2>2, <3>1
    <3>3. last = Min(both)
      OBVIOUS
    <3> HIDE DEF both, last
    <3>4. Min(both) \in both /\ Min(both) <= end
      BY <3>2, ExtremeOfTwo
    <3> QED BY <3>2, <3>3, <3>4
  <2> HIDE DEF last
  <2>4. \E from \in Nat : Minute(cursor, last) = from..last /\ cursor <= from
    BY <2>3, MinuteRange
  <2> QED BY <2>1, <2>3, <2>4
<1> HIDE DEF last, full
<1>2. end \in Nat
  OBVIOUS
<1>3. \/ page \subseteq Honest \cup {end + 1}
      \/ page = Minute(cursor - Limit, cursor - 1)
  BY DEF Pages
<1>4. CASE page \subseteq Honest \cup {end + 1} /\ cursor <= end + 1
  <2>1. page \in SUBSET Nat /\ \A m \in page : m <= end + 1 /\ cursor <= m
    BY <1>1, <1>2, <1>4
  <2>2. end + 1 \in Nat
    BY <1>2
  <2>3. page # {} => Max(page) \in page /\ \A m \in page : Max(page) >= m
    BY <2>1, <2>2, MaxOfBounded
  <2>4. \A m, n \in Nat : m >= n => n <= m
    OBVIOUS
  <2> QED BY <2>1, <2>3, <2>4
<1>5. CASE page \subseteq Honest \cup {end + 1} /\ ~ (cursor <= end + 1)
  <2>1. Honest = {}
    BY <1>1, <1>2, <1>5
  <2>2. page \in SUBSET Nat /\ \A m \in page : m <= end + 1 /\ m < cursor
    BY <2>1, <1>2, <1>5
  <2>3. end + 1 \in Nat
    BY <1>2
  <2>4. page # {} => Max(page) \in page /\ \A m \in page : Max(page) >= m
    BY <2>2, <2>3, MaxOfBounded
  <2>5. \A m, n \in Nat : m >= n => n <= m
    OBVIOUS
  <2> QED BY <2>2, <2>4, <2>5
<1>6. CASE page = Minute(cursor - Limit, cursor - 1)
  <2>1. cursor - Limit \in Int /\ cursor - 1 \in Int
    BY <1>0
  <2>2. PICK low \in Nat : page = low..(cursor - 1)
    BY <2>1, <1>6, MinuteRange
  <2>3. page \in SUBSET Nat /\ \A m \in page : m < cursor
    BY <2>2
  <2>4. page # {} => Max(page) \in page /\ \A m \in page : m <= Max(page)
    <3> SUFFICES ASSUME page # {} PROVE Max(page) \in page /\ \A m \in page : m <= Max(page)
      OBVIOUS
    <3>1. cursor - 1 \in Nat /\ low <= cursor - 1
      BY <2>2
    <3>2. Max(page) = cursor - 1
      BY <3>1, <2>2, RangeEnds
    <3> QED BY <2>2, <3>1, <3>2
  <2> QED BY <2>3, <2>4
<1> QED BY <1>3, <1>4, <1>5, <1>6
--------------------------------------------------------------------------------
(* The inductive invariant *)

\* The cutoff of a dataset is its last minute.
LEMMA CutoffOfDataset ==
  ASSUME IsDataset(minutes)
  PROVE  /\ Cutoff = LastClosed(minutes) /\ Cutoff \in Int /\ -1 <= Cutoff
         /\ minutes = {} => Cutoff = -1
         /\ minutes # {} => \E a \in Nat : /\ a <= Cutoff /\ minutes = a..Cutoff
                                           /\ Cutoff \in ServerCutoff /\ Cutoff \in Nat
<1>1. Cutoff = LastClosed(minutes)
  BY DEF Cutoff, LastClosed
<1>2. CASE minutes = {}
  BY <1>1, <1>2 DEF Cutoff
<1>3. CASE minutes # {}
  <2>1. PICK a \in Nat, b \in ServerCutoff : a <= b /\ minutes = a..b
    BY <1>3 DEF IsDataset
  <2>2. b \in Nat
    BY <2>1, MarketAssumption
  <2>3. Cutoff = b
    BY <2>1, <2>2, <1>3, RangeEnds DEF Cutoff
  <2> QED BY <1>1, <1>3, <2>1, <2>2, <2>3
<1> QED BY <1>2, <1>3

\* The report of a new installation: no dataset, no whole hour, no report.
LEMMA ReportOfNothing ==
  ASSUME NEW way
  PROVE  ReportOf(way, {}) = NoReport
<1>1. HourSize \in Nat \ {0}
  BY TimeframeAssumption
<1>2. LastClosed({}) + 1 = 0
  BY DEF LastClosed
<1>3. 0 \div HourSize = 0 /\ 0 * HourSize = 0
  BY <1>1
<1>4. LastWholeHour({}) = -1
  BY <1>2, <1>3 DEF LastWholeHour
<1> QED BY <1>4 DEF ReportOf

\* A new installation has no dataset, no report and nothing asked for.
LEMMA InitInv == Init => Inv
<1> SUFFICES ASSUME Init PROVE Inv
  OBVIOUS
<1>1. TypeOK
  BY DEF Init, PagesInit, TypeOK
<1>2. DatasetOK
  BY DEF Init, DatasetOK, IsDataset
<1>3. ReportOK
  BY ReportOfNothing DEF Init, ReportOK
<1>4. FetchOK /\ HonestOK
  BY DEF Init, FetchOK, HonestOK
<1> QED BY <1>1, <1>2, <1>3, <1>4 DEF Inv

\* A step that leaves the dataset and the report leaves what is said of them.
LEMMA SameDataset ==
  ASSUME DatasetOK, ReportOK, UNCHANGED <<course, minutes, report, pc>>
  PROVE  DatasetOK' /\ ReportOK' /\ Cutoff' = Cutoff
<1>1. Cutoff' = Cutoff
  BY DEF Cutoff
<1>2. DatasetOK'
  BY DEF DatasetOK, IsDataset
<1>3. ReportOK'
  BY DEF ReportOK, Extends, ReportOf, DatasetOf, LastWholeHour, LastClosed
<1> QED BY <1>1, <1>2, <1>3

\* The request of ingest_once: with the bootstrap it ends with the cutoff, with
\* the overlap it begins no later than the dataset ends.
LEMMA StartFetchInv ==
  ASSUME Inv, StartFetch
  PROVE  Inv'
<1>0. /\ Bootstrap \in Nat \ {0} /\ Overlap \in Nat \ {0} /\ ServerCutoff \subseteq Nat
      /\ Cutoff \in Int /\ -1 <= Cutoff /\ (minutes # {} => Cutoff \in Nat)
  BY WindowAssumption, MarketAssumption, CutoffOfDataset DEF Inv, DatasetOK
<1> DEFINE from(c) == IF minutes = {} THEN c + 1 - Bootstrap ELSE Cutoff + 1 - Overlap
<1>1. PICK c \in ServerCutoff : c > Cutoff /\ BeginFetch(from(c), c)
  BY DEF StartFetch
<1> DEFINE start == from(c)
<1>2. start \in Int /\ start <= c /\ c \in Nat
  BY <1>0, <1>1
<1> HIDE DEF start
<1>3. /\ request' = [start |-> start, end |-> c]
      /\ cursor' = start /\ fetch' = "asking" /\ rows' = {} /\ repeated' = FALSE
      /\ pc' = "fetch" /\ UNCHANGED <<course, minutes, report>> /\ pc = "idle"
  BY <1>1, <1>2 DEF StartFetch, BeginFetch, analysisVars, start
<1>4. TypeOK' /\ DatasetOK' /\ ReportOK'
  BY <1>2, <1>3 DEF Inv, TypeOK, DatasetOK, IsDataset, ReportOK, Extends, ReportOf, DatasetOf,
                    LastWholeHour, LastClosed
<1>5. Cutoff' = Cutoff
  BY <1>3 DEF Cutoff
<1>6. FetchOK'
  BY <1>1, <1>2, <1>3, <1>5 DEF FetchOK, start
<1>7. HonestOK'
  <2>1. start - 1 \in Int
    BY <1>2
  <2>2. PICK low \in Nat : Minute(start, start - 1) = low..(start - 1) /\ start <= low
    BY <1>2, <2>1, MinuteRange
  <2>3. Minute(start, start - 1) = {}
    BY <1>2, <2>2
  <2>4. Minute(request'.start, cursor' - 1) = {}
    BY <1>3, <2>3
  <2> QED BY <1>2, <1>3, <2>4 DEF HonestOK, Minute
<1> QED BY <1>4, <1>6, <1>7 DEF Inv

\* A page an honest exchange answers continues the rows without a gap and
\* without a repetition; a short one is the last.
LEMMA HonestAnswer ==
  ASSUME request.start \in Int, request.end \in Nat, cursor \in Int,
         request.start <= cursor, cursor <= request.end,
         rows = Minute(request.start, cursor - 1), ~ repeated,
         fetch = "asking", Answer, mood = "honest"
  PROVE  /\ ~ repeated'
         /\ rows' = Minute(request.start, cursor' - 1)
         /\ \/ fetch' = "asking" /\ cursor' <= request.end
            \/ fetch' = "done" /\ cursor' = request.end + 1
<1>0. Limit \in Nat \ {0}
  BY PageAssumption
<1> DEFINE end == request.end
           start == request.start
<1>1. PICK from \in Nat, last \in Nat :
        /\ Honest = from..last /\ from <= last /\ last <= end
        /\ cursor <= from /\ (from = 0 \/ from = cursor)
        /\ last = end \/ last = from + Limit - 1
  BY HonestPage
<1>2. Pages = {Honest}
  BY DEF Pages
<1> DEFINE page == from..last
<1>3. page # {} /\ Max(page) = last /\ Cardinality(page) = last - from + 1
  <2>1. Max(page) = last
    BY <1>1, RangeEnds
  <2>2. Cardinality(page) = IF from > last THEN 0 ELSE last - from + 1
    BY FS_Interval
  <2>3. from \in page
    BY <1>1
  <2>4. ~ (from > last)
    BY <1>1
  <2>5. Cardinality(page) = last - from + 1
    BY <2>2, <2>4
  <2> QED BY <2>1, <2>3, <2>5
<1>4. /\ rows' = rows \cup page
      /\ repeated' = (repeated \/ rows \cap page # {})
      /\ cursor' = IF last + 1 > cursor THEN last + 1 ELSE cursor
      /\ fetch' = IF last + 1 <= cursor THEN "raised"
                  ELSE IF Cardinality(page) < Limit \/ last + 1 > end THEN "done"
                  ELSE "asking"
  <2> HIDE DEF page
  <2>1. PICK p \in Pages :
          LET next == IF p = {} THEN cursor ELSE Max(p) + 1
          IN /\ rows' = rows \cup p
             /\ repeated' = (repeated \/ rows \cap p # {})
             /\ cursor' = IF next > cursor THEN next ELSE cursor
             /\ fetch' = IF p = {} THEN "done"
                         ELSE IF next <= cursor THEN "raised"
                         ELSE IF Cardinality(p) < Limit \/ next > request.end THEN "done"
                         ELSE "asking"
    BY DEF Answer
  <2>2. p = page
    BY <2>1, <1>1, <1>2 DEF page
  <2> QED BY <2>1, <2>2, <1>3
<1>5. cursor' = last + 1
  BY <1>1, <1>4
<1>6. start \in Int /\ cursor \in Int /\ cursor - 1 \in Int /\ last \in Int
      /\ start <= cursor /\ rows = Minute(start, cursor - 1)
  OBVIOUS
<1> HIDE DEF start
<1>7. PICK low \in Nat : /\ Minute(start, cursor - 1) = low..(cursor - 1)
                         /\ start <= low
                         /\ low = 0 \/ low = start
  BY <1>6, MinuteRange
<1>8. PICK first \in Nat : /\ Minute(start, last) = first..last
                           /\ start <= first
                           /\ first = 0 \/ first = start
  <2>1. start \in Int /\ last \in Int
    BY <1>6
  <2> HIDE DEF page
  <2> QED BY ONLY <2>1, MinuteRange
<1>9. first = low
  BY <1>6, <1>7, <1>8
<1>10. low <= from
  BY <1>1, <1>6, <1>7
<1>11. rows = low..(cursor - 1)
  BY <1>6, <1>7
<1>12. rows \cup page = low..last /\ rows \cap page = {}
  <2>1. ASSUME NEW m PROVE m \in rows \cup page <=> m \in low..last
    BY <1>1, <1>6, <1>10, <1>11
  <2>2. ASSUME NEW m \in rows PROVE m \notin page
    BY <1>1, <1>6, <1>11
  <2> QED BY <2>1, <2>2
<1>13. rows' = Minute(start, cursor' - 1)
  <2>1. last + 1 - 1 = last
    BY <1>1
  <2>2. rows' = Minute(start, last)
    BY <1>4, <1>8, <1>9, <1>12
  <2>3. cursor' - 1 = last
    BY <1>5, <2>1
  <2> QED BY <2>2, <2>3
<1>14. \/ fetch' = "asking" /\ cursor' <= end
       \/ fetch' = "done" /\ cursor' = end + 1
  <2> DEFINE size == Cardinality(page)
  <2>1. size = last - from + 1
    BY <1>3
  <2>2. fetch' = IF last + 1 <= cursor THEN "raised"
                 ELSE IF size < Limit \/ last + 1 > end THEN "done" ELSE "asking"
    BY <1>4
  <2>3. end \in Nat
    OBVIOUS
  <2> HIDE DEF size, page, end
  <2>4. ~ (last + 1 <= cursor)
    BY <1>1
  <2>5. CASE last = end
    BY <2>2, <2>3, <2>4, <2>5, <1>5
  <2>6. CASE last # end
    <3>1. ~ (size < Limit) /\ ~ (last + 1 > end)
      BY <2>1, <2>3, <2>6, <1>0, <1>1
    <3> QED BY <2>2, <2>3, <2>4, <2>6, <3>1, <1>5, <1>1
  <2> QED BY <2>5, <2>6
<1> QED BY <1>4, <1>12, <1>13, <1>14 DEF start

\* A page that is not refused has no minute before the cursor.
LEMMA AnswerInv ==
  ASSUME Inv, pc = "fetch", Answer, UNCHANGED <<analysisVars, pc>>
  PROVE  Inv'
<1>1. UNCHANGED <<course, minutes, report, pc, request, mood>> /\ fetch = "asking"
  BY DEF Answer, analysisVars
<1>2. /\ request.end \in ServerCutoff /\ request.end \in Nat
      /\ request.start \in Int /\ request.start <= cursor /\ cursor \in Int
      /\ rows \in SUBSET Nat /\ \A m \in rows : request.start <= m
  <2>1. /\ Bootstrap \in Nat \ {0} /\ Overlap \in Nat \ {0} /\ ServerCutoff \subseteq Nat
        /\ Cutoff \in Int
    BY WindowAssumption, MarketAssumption, CutoffOfDataset DEF Inv, DatasetOK
  <2>2. /\ request.end \in ServerCutoff
        /\ request.start = IF minutes = {} THEN request.end + 1 - Bootstrap ELSE Cutoff + 1 - Overlap
        /\ request.start <= cursor
        /\ \A m \in rows : request.start <= m
    BY <1>1 DEF Inv, FetchOK
  <2>3. cursor \in Int /\ rows \in SUBSET Nat
    BY DEF Inv, TypeOK
  <2>4. request.end \in Nat
    BY <2>1, <2>2
  <2>5. request.start \in Int
    BY <2>1, <2>2, <2>4
  <2> QED BY <2>2, <2>3, <2>4, <2>5
<1>3. PICK page \in Pages :
        LET next == IF page = {} THEN cursor ELSE Max(page) + 1
        IN /\ rows' = rows \cup page
           /\ cursor' = IF next > cursor THEN next ELSE cursor
           /\ fetch' = IF page = {} THEN "done"
                       ELSE IF next <= cursor THEN "raised"
                       ELSE IF Cardinality(page) < Limit \/ next > request.end THEN "done"
                       ELSE "asking"
  BY DEF Answer
<1>4. /\ page \in SUBSET Nat
      /\ page # {} => Max(page) \in page /\ \A m \in page : m <= Max(page)
      /\ (\A m \in page : cursor <= m) \/ (\A m \in page : m < cursor)
  BY <1>2, PagesAreMinutes
<1> DEFINE latest == Max(page)
<1>5. /\ cursor' \in Int /\ request.start <= cursor'
      /\ rows' \in SUBSET Nat /\ fetch' \in {"asking", "done", "raised"}
      /\ fetch' # "raised" => \A m \in rows' : request.start <= m
  <2>1. CASE page = {}
    <3>1. rows' = rows /\ cursor' = cursor /\ fetch' = "done"
      BY <1>2, <1>3, <2>1
    <3> QED BY <1>2, <3>1
  <2>2. CASE page # {}
    <3>1. latest \in page /\ latest \in Nat /\ \A m \in page : m <= latest
      BY <1>4, <2>2
    <3>2. /\ cursor' = IF latest + 1 > cursor THEN latest + 1 ELSE cursor
          /\ fetch' = IF latest + 1 <= cursor THEN "raised"
                      ELSE IF Cardinality(page) < Limit \/ latest + 1 > request.end THEN "done"
                      ELSE "asking"
      BY <1>3, <2>2
    <3> HIDE DEF latest
    <3>3. cursor' \in Int /\ request.start <= cursor'
      BY <1>2, <3>1, <3>2
    <3>4. fetch' # "raised" => \A m \in rows' : request.start <= m
      <4> SUFFICES ASSUME fetch' # "raised", NEW m \in rows' PROVE request.start <= m
        OBVIOUS
      <4>1. CASE m \in rows
        BY <4>1, <1>2
      <4>2. CASE m \in page
        <5>1. ~ (latest + 1 <= cursor)
          BY <3>2
        <5>2. ~ (latest < cursor)
          BY <5>1, <3>1, <1>2
        <5>3. cursor <= m
          BY <5>2, <4>2, <3>1, <1>4
        <5>4. m \in Nat
          BY <4>2, <1>4
        <5> QED BY <5>3, <5>4, <1>2
      <4> QED BY <4>1, <4>2, <1>3
    <3>5. rows' \in SUBSET Nat /\ fetch' \in {"asking", "done", "raised"}
      BY <1>2, <1>3, <1>4, <3>2
    <3> QED BY <3>3, <3>4, <3>5
  <2> QED BY <2>1, <2>2
<1>6. DatasetOK' /\ ReportOK' /\ Cutoff' = Cutoff
  BY <1>1, SameDataset DEF Inv
<1>7. TypeOK' /\ FetchOK'
  BY <1>1, <1>5, <1>6 DEF Inv, TypeOK, FetchOK
<1>8. HonestOK'
  <2>1. CASE mood = "honest"
    <3>1. rows = Minute(request.start, cursor - 1) /\ ~ repeated /\ cursor <= request.end
      BY <1>1, <2>1 DEF Inv, HonestOK
    <3>2. /\ ~ repeated'
          /\ rows' = Minute(request.start, cursor' - 1)
          /\ \/ fetch' = "asking" /\ cursor' <= request.end
             \/ fetch' = "done" /\ cursor' = request.end + 1
      BY <2>1, <3>1, <1>1, <1>2, HonestAnswer
    <3> QED BY <1>1, <3>2 DEF HonestOK, Minute
  <2>2. CASE mood # "honest"
    BY <1>1, <2>2 DEF HonestOK
  <2> QED BY <2>1, <2>2
<1> QED BY <1>6, <1>7, <1>8 DEF Inv

\* A request that fails leaves what has come.
LEMMA RequestFailsInv ==
  ASSUME Inv, pc = "fetch", RequestFails, UNCHANGED <<analysisVars, pc>>
  PROVE  Inv'
<1>1. /\ UNCHANGED <<course, minutes, report, pc, request, cursor, rows, repeated, mood>>
      /\ fetch = "asking" /\ fetch' \in {"asking", "raised"} /\ mood = "down"
  BY DEF RequestFails, analysisVars
<1>2. DatasetOK' /\ ReportOK' /\ Cutoff' = Cutoff
  BY <1>1, SameDataset DEF Inv
<1>3. TypeOK' /\ FetchOK' /\ HonestOK'
  BY <1>1, <1>2 DEF Inv, TypeOK, FetchOK, HonestOK
<1> QED BY <1>2, <1>3 DEF Inv

\* What is committed continues the dataset: its last rows have come again.
LEMMA CommitInv ==
  ASSUME Inv, Commit
  PROVE  Inv'
<1>1. /\ minutes' = minutes \cup rows /\ pc' = "analyze" /\ pc = "fetch" /\ fetch = "done"
      /\ UNCHANGED <<course, report>>
      /\ fetch' = "done" /\ cursor' = 0 /\ rows' = {}
      /\ rows # {} /\ rows = Min(rows)..request.end
      /\ minutes # {} => Min(rows) <= Cutoff
  BY DEF Commit, CommitAccepted, EndFetch
<1> DEFINE first == Min(rows)
           end == request.end
<1>2. /\ end \in ServerCutoff /\ end \in Nat /\ end > Cutoff
      /\ \A m \in rows : request.start <= m
  BY <1>1, MarketAssumption DEF Inv, FetchOK
<1>3. first \in rows /\ first \in Nat /\ first <= end
  <2>1. first \in rows /\ rows \in SUBSET Nat
    BY <1>1, MinOfNaturals DEF Inv, TypeOK
  <2>2. rows = first..end
    BY <1>1
  <2> HIDE DEF first, end
  <2> QED BY <2>1, <2>2
<1>4. rows = first..end
  BY <1>1
<1> HIDE DEF first, end
<1>5. IsDataset(minutes) /\ report = ReportOf(course, minutes) /\ minutes \in SUBSET Nat
  BY <1>1 DEF Inv, TypeOK, DatasetOK, ReportOK
<1>6. minutes' # {} /\ IsDataset(minutes') /\ Extends(minutes', minutes)
  <2>1. CASE minutes = {}
    <3>1. minutes' = first..end
      BY <1>1, <1>4, <2>1
    <3>2. minutes' # {}
      BY <1>1
    <3> QED BY <3>1, <3>2, <2>1, <1>2, <1>3 DEF IsDataset, Extends
  <2>2. CASE minutes # {}
    <3>1. PICK a \in Nat : /\ a <= Cutoff /\ minutes = a..Cutoff
                            /\ Cutoff \in ServerCutoff /\ Cutoff \in Nat
      BY <2>2, <1>5, CutoffOfDataset
    <3> DEFINE b == Cutoff
    <3> HIDE DEF b
    <3>2. a <= b /\ minutes = a..b /\ b \in ServerCutoff /\ b \in Nat /\ b < end /\ first <= b
      BY <3>1, <2>2, <1>1, <1>2 DEF b, first
    <3>3. minutes' = (a..b) \cup (first..end)
      BY <3>2, <1>1, <1>4
    <3>4. CASE a <= first
      <4>1. (a..b) \cup (first..end) = a..end
        <5>1. \A m \in Int : m \in a..end => m \in a..b \/ m \in first..end
          BY <3>2, <1>2, <1>3
        <5>2. \A m \in Int : m \in a..b \/ m \in first..end => m \in a..end
          BY <3>2, <3>4, <1>2, <1>3
        <5> QED BY <5>1, <5>2
      <4>2. minutes' = a..end /\ a <= end
        BY <4>1, <3>2, <3>3, <1>2
      <4>3. a <= a
        OBVIOUS
      <4>4. minutes' # {}
        BY <1>1
      <4>5. Extends(minutes', minutes)
        BY <4>2, <4>3, <3>2, <1>2 DEF Extends
      <4> QED BY <4>2, <4>4, <4>5, <1>2 DEF IsDataset
    <3>5. CASE first < a
      <4>1. (a..b) \cup (first..end) = first..end
        BY <3>2, <3>5, <1>2, <1>3
      <4>2. minutes' = first..end
        BY <4>1, <3>3
      <4>3. b - a + 1 < Overlap
        <5>1. request.start = b + 1 - Overlap
          BY <1>1, <2>2 DEF Inv, FetchOK, b
        <5>2. request.start <= first /\ Overlap \in Nat
          BY <1>2, <1>3, WindowAssumption
        <5>3. b + 1 - Overlap <= first
          BY <5>1, <5>2
        <5> QED BY <5>2, <5>3, <3>2, <3>5, <1>3
      <4>4. first <= a
        BY <3>2, <3>5, <1>3
      <4>5. minutes' # {}
        BY <1>1
      <4>6. Extends(minutes', minutes)
        BY <4>2, <4>3, <4>4, <3>2, <1>2, <1>3 DEF Extends
      <4> QED BY <4>2, <4>5, <4>6, <1>2, <1>3 DEF IsDataset
    <3> QED BY <3>2, <3>4, <3>5, <1>3
  <2> QED BY <2>1, <2>2
<1>7. TypeOK' /\ DatasetOK' /\ FetchOK' /\ HonestOK'
  BY <1>1, <1>5, <1>6 DEF Inv, TypeOK, DatasetOK, FetchOK, HonestOK
<1>8. ReportOK'
  BY <1>1, <1>5, <1>6 DEF ReportOK, Extends, ReportOf, DatasetOf, LastWholeHour, LastClosed
<1> QED BY <1>7, <1>8 DEF Inv

\* A failed ingestion leaves the dataset and its report.
LEMMA FailIngestionInv ==
  ASSUME Inv, FailIngestion
  PROVE  Inv'
<1>1. /\ UNCHANGED <<course, minutes, report>> /\ pc = "fetch" /\ pc' = "idle"
      /\ fetch' = "done" /\ cursor' = 0 /\ rows' = {}
  BY DEF FailIngestion, EndFetch, analysisVars
<1>2. ReportOf(course', minutes') = ReportOf(course, minutes)
  BY <1>1
<1>3. ReportOK'
  BY <1>1, <1>2 DEF Inv, ReportOK
<1>4. TypeOK' /\ DatasetOK' /\ FetchOK' /\ HonestOK'
  BY <1>1 DEF Inv, TypeOK, DatasetOK, IsDataset, FetchOK, HonestOK
<1> QED BY <1>3, <1>4 DEF Inv

\* The report of an analysis is that of the dataset.
LEMMA AnalyzeInv ==
  ASSUME Inv, Analyze
  PROVE  Inv'
<1>1. /\ UNCHANGED <<course, minutes, fetch, rows, cursor>> /\ pc = "analyze" /\ pc' = "reported"
      /\ report' = IF Boundary < 0 THEN NoReport
                    ELSE [boundary |-> Boundary, analysis |-> AnalyzeSymbol(Dataset)]
  BY DEF Analyze, pageVars
<1>2. Cutoff = LastClosed(minutes)
  BY CutoffOfDataset DEF Inv, DatasetOK
<1>3. Boundary = LastWholeHour(minutes) /\ Dataset = DatasetOf(course, minutes)
  BY <1>2 DEF Boundary, LastWholeHour, Dataset, DatasetOf
<1>4. report' = ReportOf(course, minutes)
  BY <1>1, <1>3 DEF ReportOf
<1>5. ReportOf(course', minutes') = ReportOf(course, minutes)
  BY <1>1
<1>6. ReportOK'
  BY <1>1, <1>4, <1>5 DEF ReportOK
<1>7. TypeOK' /\ DatasetOK' /\ FetchOK' /\ HonestOK'
  BY <1>1 DEF Inv, TypeOK, DatasetOK, IsDataset, FetchOK, HonestOK
<1> QED BY <1>6, <1>7 DEF Inv

\* Every step keeps the invariant.
LEMMA NextInv == Inv /\ [Next]_vars => Inv'
<1> SUFFICES ASSUME Inv, [Next]_vars PROVE Inv'
  OBVIOUS
<1>1. CASE StartFetch
  BY <1>1, StartFetchInv
<1>2. CASE FetchPage
  BY <1>2, AnswerInv, RequestFailsInv DEF FetchPage, PageStep
<1>3. CASE Commit
  BY <1>3, CommitInv
<1>4. CASE FailIngestion
  BY <1>4, FailIngestionInv
<1>5. CASE Analyze
  BY <1>5, AnalyzeInv
<1>6. CASE NextInvocation
  <2>1. /\ UNCHANGED <<course, minutes, report, fetch, rows, cursor>>
        /\ pc = "reported" /\ pc' = "idle"
    BY <1>6 DEF NextInvocation, pageVars, analysisVars
  <2>2. ReportOf(course', minutes') = ReportOf(course, minutes)
    BY <2>1
  <2>3. ReportOK'
    BY <2>1, <2>2 DEF Inv, ReportOK
  <2>4. TypeOK' /\ DatasetOK' /\ FetchOK' /\ HonestOK'
    BY <2>1 DEF Inv, TypeOK, DatasetOK, IsDataset, FetchOK, HonestOK
  <2> QED BY <2>3, <2>4 DEF Inv
<1>7. CASE UNCHANGED vars
  <2>1. UNCHANGED <<course, minutes, report, pc, fetch, request, cursor, rows, repeated, mood>>
    BY <1>7 DEF vars, pageVars, analysisVars
  <2>2. DatasetOK' /\ ReportOK' /\ Cutoff' = Cutoff
    BY <2>1, SameDataset DEF Inv
  <2>3. TypeOK' /\ FetchOK' /\ HonestOK'
    BY <2>1, <2>2 DEF Inv, TypeOK, FetchOK, HonestOK, Minute
  <2> QED BY <2>2, <2>3 DEF Inv
<1>8. CASE Exhausted
  BY <1>7, <1>8 DEF Exhausted
<1> QED
  BY <1>1, <1>2, <1>3, <1>4, <1>5, <1>6, <1>7, <1>8 DEF Next

\* The dataset, the report and the fetch are as the invariant says in every
\* state of run_once.
THEOREM Invariance == Spec => []Inv
<1>1. Init => Inv
  BY InitInv
<1>2. Inv /\ [Next]_vars => Inv'
  BY NextInv
<1> QED BY <1>1, <1>2, PTL DEF Spec
--------------------------------------------------------------------------------
(* The safety properties *)

\* The nine gates.
LEMMA NineGates == Len(Gates) = 9 /\ DOMAIN Gates = 1..9
  BY DEF Gates

\* What is reported is the analysis of a gap free range of minutes.
LEMMA AnalysedDataset ==
  ASSUME Inv, Reported
  PROVE  \E a, b \in Nat :
           /\ a <= b /\ DOMAIN Dataset = a..b
           /\ Boundary = LastHour(b) /\ Boundary \in Nat
           /\ report.analysis = AnalyzeSymbol(Dataset)
           /\ \A k : ReportAt(k) = AnalyzeSymbol(Until(Dataset, k))
<1>1. pc = "reported" /\ Boundary >= 0
  BY DEF Reported
<1>2. IsDataset(minutes) /\ minutes # {} /\ report = ReportOf(course, minutes)
  BY <1>1 DEF Inv, DatasetOK, ReportOK
<1>3. PICK a \in Nat : a <= Cutoff /\ minutes = a..Cutoff /\ Cutoff \in Nat
  BY <1>2, CutoffOfDataset
<1>4. DOMAIN Dataset = a..Cutoff
  BY <1>3 DEF Dataset
<1>5. Boundary = LastHour(Cutoff) /\ Boundary \in Nat
  <2>1. Boundary = LastHour(Cutoff)
    BY DEF Boundary, LastHour
  <2>2. LastHour(Cutoff) \in Int
    BY <1>3, LastHourBounds
  <2> DEFINE x == Boundary
  <2> HIDE DEF x
  <2>3. x \in Int /\ x >= 0
    BY <2>1, <2>2, <1>1 DEF x
  <2>4. x \in Nat
    BY <2>3
  <2> QED BY <2>1, <2>4 DEF x
<1>6. report.analysis = AnalyzeSymbol(Dataset)
  <2>1. Boundary = LastWholeHour(minutes) /\ Dataset = DatasetOf(course, minutes)
    BY <1>2, CutoffOfDataset DEF Boundary, LastWholeHour, Dataset, DatasetOf
  <2>2. ~ (Boundary < 0)
    BY <1>5
  <2>3. report = [boundary |-> Boundary, analysis |-> AnalyzeSymbol(Dataset)]
    BY <1>2, <2>1, <2>2 DEF ReportOf
  <2> QED BY <2>3
<1>7. \A k : ReportAt(k) = AnalyzeSymbol(Until(Dataset, k))
  <2> SUFFICES ASSUME NEW k PROVE ReportAt(k) = AnalyzeSymbol(Until(Dataset, k))
    OBVIOUS
  <2>1. Until(Dataset, k) = [m \in minutes \cap (0..k) |-> Market[course][m]]
    BY DEF Until, Dataset
  <2> QED BY <2>1 DEF ReportAt
<1> QED BY <1>3, <1>4, <1>5, <1>6, <1>7

\* The report depends on the complete hours alone.
LEMMA OneReport == Inv => OneReportPerBoundary
<1> SUFFICES ASSUME Inv, Reported PROVE report.analysis = ReportAt(Boundary)
  BY DEF OneReportPerBoundary
<1>1. PICK a \in Nat, b \in Nat :
        /\ a <= b /\ DOMAIN Dataset = a..b /\ Boundary = LastHour(b)
        /\ report.analysis = AnalyzeSymbol(Dataset)
        /\ \A k : ReportAt(k) = AnalyzeSymbol(Until(Dataset, k))
  BY AnalysedDataset
<1>2. AnalyzeSymbol(Until(Dataset, LastHour(b))) = AnalyzeSymbol(Dataset)
  BY <1>1, WholeHoursDecide
<1> QED BY <1>1, <1>2

\* What has passed was already known at the time it claims.
LEMMA Known == Inv => PassedWasKnown
<1> SUFFICES ASSUME Inv, Reported, NEW i \in 2..9, PassedUpTo(i), NEW j \in 1..i
             PROVE  ReportAt(Max({Gate(l).known_at : l \in 1..i})).indicators[j] = Gate(j)
  BY NineGates DEF PassedWasKnown
<1>1. PICK a \in Nat, b \in Nat :
        /\ a <= b /\ DOMAIN Dataset = a..b /\ Boundary = LastHour(b) /\ Boundary \in Nat
        /\ report.analysis = AnalyzeSymbol(Dataset)
        /\ \A k : ReportAt(k) = AnalyzeSymbol(Until(Dataset, k))
  BY AnalysedDataset
<1> DEFINE now == AnalyzeSymbol(Dataset).indicators
           times == {Gate(l).known_at : l \in 1..i}
           last == Max(times)
<1>2. \A l \in 1..9 : Gate(l) = now[l]
  BY <1>1 DEF Gate
<1>3. \A l \in 1..i : l \in 1..9
  OBVIOUS
<1>4. \A l \in 1..i : /\ now[l].known_at \in Int
                      /\ -1 <= now[l].known_at /\ now[l].known_at <= Boundary
  <2> SUFFICES ASSUME NEW l \in 1..i
               PROVE  /\ now[l].known_at \in Int
                      /\ -1 <= now[l].known_at /\ now[l].known_at <= Boundary
    OBVIOUS
  <2>1. \/ now[l].known_at = NoTime
        \/ now[l].known_at \in Nat /\ now[l].known_at <= LastHour(b)
    BY <1>1, <1>3, TimesFit
  <2> HIDE DEF now
  <2> QED BY <2>1, <1>1 DEF NoTime
<1>5. times \in SUBSET Int /\ times # {} /\ \A y \in times : -1 <= y /\ y <= Boundary
  <2>1. 1 \in 1..i
    OBVIOUS
  <2> HIDE DEF now
  <2> QED BY <2>1, <1>2, <1>3, <1>4
<1>6. last \in Int /\ \A y \in times : y <= last
  <2> HIDE DEF times
  <2>1. Max(times) \in times /\ \A y \in times : y <= Max(times)
    BY <1>1, <1>5, LatestTime
  <2> QED BY <2>1, <1>5
<1>7. \A l \in 1..i : now[l].status = "PASS" /\ now[l].known_at <= last
  <2> SUFFICES ASSUME NEW l \in 1..i PROVE now[l].status = "PASS" /\ now[l].known_at <= last
    OBVIOUS
  <2>1. Gate(l).known_at \in times
    OBVIOUS
  <2>2. Gate(l).status = "PASS"
    BY DEF PassedUpTo
  <2> HIDE DEF now, times, last
  <2> QED BY <2>1, <2>2, <1>2, <1>3, <1>6
<1> HIDE DEF times, last
<1>8. i \in 2..9
  OBVIOUS
<1>9. \A l \in 1..i : AnalyzeSymbol(Until(Dataset, last)).indicators[l] = AnalyzeSymbol(Dataset).indicators[l]
  BY <1>1, <1>6, <1>7, <1>8, NoLookahead
<1>10. ReportAt(last).indicators[j] = Gate(j)
  BY <1>1, <1>2, <1>3, <1>9
<1> QED BY <1>10 DEF last, times

\* The story is told in order.
LEMMA Ordered == Inv => KnownInOrder
<1> SUFFICES ASSUME Inv, Reported
             PROVE  /\ \A i \in 2..8 : PassedUpTo(i) => Gate(i).known_at >= Gate(i - 1).known_at
                    /\ \A i \in 5..6 : PassedUpTo(i) => Gate(i).event_time > Gate(i - 1).known_at
  BY NineGates DEF KnownInOrder
<1>1. PICK a \in Nat, b \in Nat :
        a <= b /\ DOMAIN Dataset = a..b /\ report.analysis = AnalyzeSymbol(Dataset)
  BY AnalysedDataset
<1>2. ASSUME NEW i \in 2..8, PassedUpTo(i)
      PROVE  /\ Gate(i).known_at >= Gate(i - 1).known_at
             /\ i \in {5, 6} => Gate(i).event_time > Gate(i - 1).known_at
  <2> DEFINE now(l) == AnalyzeSymbol(Dataset).indicators[l]
  <2>1. \A l : Gate(l) = now(l)
    BY <1>1 DEF Gate
  <2>2. \A l \in 1..i : AnalyzeSymbol(Dataset).indicators[l].status = "PASS"
    BY <1>2, <2>1 DEF PassedUpTo
  <2>3. /\ now(i).known_at >= now(i - 1).known_at
        /\ i \in {5, 6} => now(i).event_time > now(i - 1).known_at
    BY <1>1, <2>2, StoryInOrder
  <2> HIDE DEF now
  <2> QED BY <2>1, <2>3
<1>3. \A i \in 5..6 : i \in 2..8 /\ i \in {5, 6}
  OBVIOUS
<1> QED BY <1>2, <1>3

\* What is reported, the casebook reader accepts.
LEMMA Accepted == Inv => AcceptedByReader
<1> SUFFICES ASSUME Inv, Reported
             PROVE  /\ ValidIndicators(report.analysis.indicators, Timeframes, Boundary)
                    /\ report.analysis.decision = ExpectedDecision(report.analysis.indicators)
  BY DEF AcceptedByReader
<1>1. PICK a \in Nat, b \in Nat :
        /\ a <= b /\ DOMAIN Dataset = a..b /\ Boundary = LastHour(b) /\ Boundary \in Nat
        /\ report.analysis = AnalyzeSymbol(Dataset)
  BY AnalysedDataset
<1> DEFINE now == AnalyzeSymbol(Dataset).indicators
<1>2. now \in [1..9 -> {now[i] : i \in 1..9}] /\ DOMAIN now = 1..9 /\ Len(now) = 9
  <2>1. now = Indicated(ReachedGates(Dataset))
    BY DEF AnalyzeSymbol
  <2>2. DOMAIN now = 1..9 /\ now = [i \in 1..9 |-> now[i]]
    BY <2>1, NineGates DEF Indicated
  <2> HIDE DEF now
  <2>3. now \in Seq({now[i] : i \in 1..9})
    BY <2>2
  <2>4. Len(now) \in Nat /\ DOMAIN now = 1..Len(now)
    BY <2>3
  <2>5. Len(now) = 9
    BY <2>2, <2>4
  <2> QED BY <2>2, <2>5
<1>3. \A i \in 1..9 : ValidIndicator(now[i], Timeframes[i], Boundary)
  <2> SUFFICES ASSUME NEW i \in 1..9 PROVE ValidIndicator(now[i], Timeframes[i], Boundary)
    OBVIOUS
  <2> DEFINE size == Timeframes[i]
             gate == now[i]
  <2>1. /\ gate.status \in {"PASS", "FAIL", "UNAVAILABLE"}
        /\ \/ gate.event_time = NoTime /\ gate.known_at = NoTime
           \/ /\ gate.event_time \in Nat /\ gate.known_at \in Nat
              /\ gate.event_time <= gate.known_at /\ gate.known_at <= LastHour(b)
              /\ (gate.event_time + 1) % size = 0 /\ (gate.known_at + 1) % size = 0
    BY <1>1, TimesFit DEF Timeframes
  <2> HIDE DEF now, size, gate
  <2>2. CASE gate.event_time = NoTime /\ gate.known_at = NoTime
    <3>1. gate.event_time = -1 /\ gate.known_at = -1
      BY <2>2 DEF NoTime
    <3>2. ValidIndicator(gate, size, Boundary)
      BY <2>1, <3>1 DEF ValidIndicator
    <3> QED BY <3>2 DEF gate, size
  <2>3. CASE ~ (gate.event_time = NoTime /\ gate.known_at = NoTime)
    <3>1. /\ gate.event_time \in Nat /\ gate.known_at \in Nat
          /\ gate.event_time <= gate.known_at /\ gate.known_at <= Boundary
          /\ (gate.event_time + 1) % size = 0 /\ (gate.known_at + 1) % size = 0
      BY <2>1, <2>3, <1>1
    <3>2. ~ (gate.event_time < 0) /\ ~ (gate.known_at < 0)
      BY <3>1
    <3>3. ValidIndicator(gate, size, Boundary)
      BY <2>1, <3>1, <3>2 DEF ValidIndicator
    <3> QED BY <3>3 DEF gate, size
  <2> QED BY <2>2, <2>3
<1>4. DOMAIN Timeframes = 1..9
  BY DEF Timeframes
<1>5. ValidIndicators(now, Timeframes, Boundary)
  <2> HIDE DEF now
  <2> QED BY <1>2, <1>3, <1>4 DEF ValidIndicators
<1>6. AnalyzeSymbol(Dataset).decision = ExpectedDecision(now)
  <2>1. AnalyzeSymbol(Dataset).decision = Decision(now)
    BY DEF AnalyzeSymbol
  <2> HIDE DEF now
  <2>2. Decision(now) = ExpectedDecision(now)
    BY <1>2, NineGates DEF Decision, ExpectedDecision
  <2> QED BY <2>1, <2>2
<1> QED BY <1>1, <1>5, <1>6

\* An exchange that answers what it is asked for is not rejected.
LEMMA HonestIsAccepted == Inv => HonestFetchCommits
<1> SUFFICES ASSUME Inv, pc = "fetch", fetch = "done", mood = "honest"
             PROVE  CommitAccepted
  BY DEF HonestFetchCommits
<1> DEFINE start == request.start
           end == request.end
<1>1. ~ repeated /\ rows = Minute(start, cursor - 1) /\ cursor = end + 1
  BY DEF Inv, HonestOK
<1>2. /\ Cutoff \in Int /\ -1 <= Cutoff /\ (minutes # {} => Cutoff \in Nat)
      /\ end \in Nat /\ Overlap \in Nat \ {0} /\ Bootstrap \in Nat \ {0}
  BY CutoffOfDataset, MarketAssumption, WindowAssumption DEF Inv, DatasetOK, FetchOK
<1>3. start = IF minutes = {} THEN end + 1 - Bootstrap ELSE Cutoff + 1 - Overlap
  BY DEF Inv, FetchOK
<1>4. Cutoff < end
  BY <1>2 DEF Inv, FetchOK
<1>5. start \in Int /\ start <= end /\ (minutes # {} => start <= Cutoff)
  <2> HIDE DEF start, end
  <2> QED BY <1>2, <1>3, <1>4
<1>6. rows = Minute(start, end)
  <2>1. cursor - 1 = end
    BY <1>1, <1>2
  <2> QED BY <1>1, <2>1
<1> HIDE DEF start, end
<1>7. PICK from \in Nat : Minute(start, end) = from..end /\ (from = 0 \/ from = start)
  BY <1>2, <1>5, MinuteRange
<1>8. from <= end /\ (minutes # {} => from <= Cutoff)
  BY <1>2, <1>5, <1>7
<1>9. rows = from..end /\ Min(rows) = from /\ rows # {}
  BY <1>2, <1>6, <1>7, <1>8, RangeEnds
<1> QED BY <1>1, <1>8, <1>9 DEF CommitAccepted, end

\* What is analysed has no gap and ends with a minute the exchange clock answered.
LEMMA MarketIsAnalysed == Inv => OnlyTheMarketIsAnalysed
<1> SUFFICES ASSUME Inv, pc \in {"analyze", "reported"}
             PROVE  minutes = Min(minutes)..Cutoff /\ Cutoff \in ServerCutoff
  BY DEF OnlyTheMarketIsAnalysed
<1>1. PICK a \in Nat : /\ a <= Cutoff /\ minutes = a..Cutoff
                       /\ Cutoff \in ServerCutoff /\ Cutoff \in Nat
  BY CutoffOfDataset DEF Inv, DatasetOK
<1>2. Min(minutes) = a
  BY <1>1, RangeEnds
<1> QED BY <1>1, <1>2

\* commit_dataset never rejects what an honest exchange answers to the window
\* ingest_once asks for, whatever the pages, the base and the market.
THEOREM HonestFetchesCommit == Spec => []HonestFetchCommits
BY Invariance, HonestIsAccepted, PTL

\* Whatever an exchange does to a fetch, analyze_latest sees the market minute
\* by minute up to a cutoff the exchange clock answered.
THEOREM TheMarketIsAnalysed == Spec => []OnlyTheMarketIsAnalysed
BY Invariance, MarketIsAnalysed, PTL

\* The report of a boundary does not depend on the minutes behind it: an hour
\* is analysed once without loss (orchestrator.py:152).
THEOREM BoundaryDecides == Spec => []OneReportPerBoundary
BY Invariance, OneReport, PTL

\* No lookahead and no repainting: what analyze_symbol_v2 lets pass was known
\* at the time it claims.
THEOREM NothingRepaints == Spec => []PassedWasKnown
BY Invariance, Known, PTL

\* The gates tell their story in order, the sweep after the touch of the order
\* block and the displacement after the sweep.
THEOREM StoryIsInOrder == Spec => []KnownInOrder
BY Invariance, Ordered, PTL

\* The casebook reader accepts every report of an analysis: the times are
\* aligned and inside the boundary, and the decision is the one it expects.
THEOREM ReportsAreAccepted == Spec => []AcceptedByReader
BY Invariance, Accepted, PTL
--------------------------------------------------------------------------------
(* Verdicts *)

\* A dataset shorter than a day has no day to build a regime from.
LEMMA ShortOfADay ==
  ASSUME NEW market, NEW a \in Nat, NEW b \in Nat, a <= b, DOMAIN market = a..b, b - a + 1 < DaySize
  PROVE  AnalyzeSymbol(market).indicators[1].status # "PASS"
<1> DEFINE F == FirstWhole(a, DaySize)
           E == EndWhole(b, DaySize)
           days == Resample(market, DaySize)
           pois == Resample(market, PoiSize)
           hours == Resample(market, HourSize)
<1>0. DaySize \in Nat \ {0}
  BY TimeframeAssumption
<1>1. F \in Nat /\ E \in Nat
  BY <1>0 DEF FirstWhole, EndWhole
<1>2. days = WholeBars(market, DaySize, F, E)
  BY <1>0, ResampleIsWholeBars
<1>3. ~ (F < E)
  <2> SUFFICES ASSUME F < E PROVE FALSE
    OBVIOUS
  <2>1. (F * DaySize)..(F * DaySize + DaySize - 1) \subseteq a..b
    <3>1. F <= F
      BY <1>1
    <3> QED BY <3>1, <1>0, <1>1, GroupIsWhole
  <2> DEFINE open == F * DaySize
  <2>2. open \in Nat /\ open..(open + DaySize - 1) \subseteq a..b
    BY <2>1, <1>0, <1>1
  <2> HIDE DEF open
  <2>3. open \in a..b /\ open + DaySize - 1 \in a..b
    <3>1. open \in open..(open + DaySize - 1) /\ open + DaySize - 1 \in open..(open + DaySize - 1)
      BY ONLY <2>2, <1>0
    <3> QED BY ONLY <2>2, <3>1
  <2> QED BY <2>2, <2>3, <1>0
<1>4. days = <<>>
  <2>1. 1..(E - F) = {}
    BY <1>1, <1>3
  <2> QED BY <1>2, <2>1 DEF WholeBars
<1> HIDE DEF days, pois, hours
<1>5. GatesOn(days, pois, hours) = <<Unavailable("insufficient_timeframe_warmup")>>
  BY <1>4 DEF GatesOn
<1>6. AnalyzeSymbol(market).indicators = Indicated(<<Unavailable("insufficient_timeframe_warmup")>>)
  BY <1>5 DEF AnalyzeSymbol, ReachedGates, days, pois, hours
<1>7. Indicated(<<Unavailable("insufficient_timeframe_warmup")>>)[1]
        = Unavailable("insufficient_timeframe_warmup")
  BY NineGates DEF Indicated
<1> QED BY <1>6, <1>7 DEF Unavailable, Result

\* What an analysis replaces: the report of the same market when it had come to
\* an earlier boundary, unless that dataset was too short to pass anything.
LEMMA EarlierReport ==
  ASSUME Overlap <= DaySize, Inv, Analyze, report # NoReport, PassedUpTo(4)
  PROVE  \E a \in Nat, b \in Nat :
           /\ a <= b /\ DOMAIN Dataset = a..b
           /\ report.boundary \in Nat /\ report.boundary <= LastHour(b)
           /\ LastHour(b) = Boundary
           /\ report.analysis = AnalyzeSymbol(Until(Dataset, report.boundary))
           /\ report'.analysis = AnalyzeSymbol(Dataset)
<1>1. PICK before \in SUBSET Nat : Extends(minutes, before) /\ report = ReportOf(course, before)
  BY DEF Inv, ReportOK, Analyze
<1>2. PICK a1 \in Nat, a0 \in Nat, b0 \in ServerCutoff, b1 \in ServerCutoff :
        /\ a1 <= a0 /\ a0 <= b0 /\ b0 < b1
        /\ before = a0..b0 /\ minutes = a1..b1
        /\ a1 = a0 \/ b0 - a0 + 1 < Overlap
  <2>1. before # {}
    BY <1>1, ReportOfNothing
  <2> QED BY <1>1, <2>1 DEF Extends
<1>3. b0 \in Nat /\ b1 \in Nat /\ DaySize \in Nat \ {0} /\ HourSize \in Nat \ {0} /\ Overlap \in Nat
  BY MarketAssumption, TimeframeAssumption, WindowAssumption
<1> DEFINE old == DatasetOf(course, before)
           k == LastHour(b0)
<1>4. DOMAIN old = a0..b0 /\ DOMAIN Dataset = a1..b1
  BY <1>2 DEF DatasetOf, Dataset
<1>5. LastWholeHour(before) = k /\ Boundary = LastHour(b1)
  <2>1. LastClosed(before) = b0
    BY <1>2, <1>3, RangeEnds DEF LastClosed
  <2>2. a1 <= b1
    BY <1>2, <1>3
  <2>3. minutes # {} /\ Max(minutes) = b1
    <3>1. Max(a1..b1) = b1 /\ b1 \in a1..b1
      BY ONLY <1>3, <2>2, RangeEnds
    <3> QED BY <3>1, <1>2
  <2>4. Cutoff = b1
    BY <2>3 DEF Cutoff
  <2> QED BY <2>1, <2>4 DEF LastWholeHour, LastHour, Boundary
<1>6. k \in Int /\ k <= b0 /\ k <= LastHour(b1) /\ LastHour(b1) \in Int
  <2>1. /\ k \in Int /\ k <= b0 /\ -1 <= k /\ (k + 1) % HourSize = 0
        /\ LastHour(b1) \in Int /\ -1 <= LastHour(b1)
        /\ \A x \in Nat : x <= b1 /\ (x + 1) % HourSize = 0 => x <= LastHour(b1)
    BY <1>3, LastHourBounds
  <2> HIDE DEF k
  <2>2. CASE k = -1
    BY <2>1, <2>2
  <2>3. CASE k \in Nat
    BY <2>1, <2>3, <1>2, <1>3
  <2> QED BY <2>1, <2>2, <2>3
<1>7. k >= 0 /\ report = [boundary |-> k, analysis |-> AnalyzeSymbol(old)]
  <2>1. ~ (k < 0)
    BY <1>1, <1>5 DEF ReportOf
  <2>2. report = [boundary |-> k, analysis |-> AnalyzeSymbol(old)]
    BY <1>1, <1>5, <2>1 DEF ReportOf
  <2> HIDE DEF k
  <2> QED BY <1>6, <2>1, <2>2
<1>8. a1 = a0
  <2> SUFFICES ASSUME b0 - a0 + 1 < Overlap PROVE FALSE
    BY <1>2
  <2>1. b0 - a0 + 1 < DaySize
    BY <1>2, <1>3
  <2> HIDE DEF old, k
  <2>2. AnalyzeSymbol(old).indicators[1].status # "PASS"
    BY <1>2, <1>3, <1>4, <2>1, ShortOfADay
  <2>3. Gate(1).status = "PASS"
    BY DEF PassedUpTo
  <2>4. Gate(1) = AnalyzeSymbol(old).indicators[1]
    BY <1>7 DEF Gate
  <2> QED BY <2>2, <2>3, <2>4
<1>9. Until(old, k) = Until(Dataset, k)
  <2>1. DOMAIN old \cap (0..k) = DOMAIN Dataset \cap (0..k)
    <3> HIDE DEF old, k
    <3>1. ASSUME NEW m PROVE m \in (a0..b0) \cap (0..k) <=> m \in (a0..b1) \cap (0..k)
      BY <1>2, <1>3, <1>6
    <3> QED BY <3>1, <1>4, <1>8
  <2>2. \A m \in DOMAIN old \cap (0..k) : old[m] = Dataset[m]
    <3>1. ASSUME NEW m \in DOMAIN old \cap (0..k) PROVE old[m] = Dataset[m]
      <4>1. m \in before /\ m \in minutes
        <5> HIDE DEF k
        <5>1. m \in a0..b0 /\ m \in DOMAIN Dataset
          BY <2>1, <1>4
        <5> QED BY <5>1, <1>2, <1>4
      <4> QED BY <4>1 DEF DatasetOf, Dataset
    <3> QED BY <3>1
  <2> HIDE DEF old, k
  <2> QED BY <2>1, <2>2 DEF Until
<1>10. AnalyzeSymbol(old) = AnalyzeSymbol(Until(Dataset, k))
  <2>1. AnalyzeSymbol(Until(old, k)) = AnalyzeSymbol(old)
    <3> HIDE DEF old
    <3> QED BY <1>2, <1>3, <1>4, WholeHoursDecide
  <2> QED BY <2>1, <1>9
<1>11. report'.analysis = AnalyzeSymbol(Dataset)
  <2>1. ~ (Boundary < 0)
    <3> HIDE DEF k
    <3> QED BY <1>5, <1>6, <1>7
  <2>2. report' = [boundary |-> Boundary, analysis |-> AnalyzeSymbol(Dataset)]
    BY <2>1 DEF Analyze
  <2> QED BY <2>2
<1>12. a1 <= b1
  BY <1>2, <1>3
<1> HIDE DEF old, k
<1>13. report.boundary = k /\ report.analysis = AnalyzeSymbol(old)
  BY <1>7
<1> QED BY <1>3, <1>4, <1>5, <1>6, <1>7, <1>10, <1>11, <1>12, <1>13

\* A verdict that is settled stays, as long as the order block does.
LEMMA SettledStands ==
  ASSUME Overlap <= DaySize, Inv, Analyze, report # NoReport, PassedUpTo(4), Gate(4)' = Gate(4),
         NEW i \in 5..9, Settled(i)
  PROVE  Gate(i)' = Gate(i)
<1>1. PICK a \in Nat, b \in Nat :
        /\ a <= b /\ DOMAIN Dataset = a..b
        /\ report.boundary \in Nat /\ report.boundary <= LastHour(b)
        /\ LastHour(b) = Boundary
        /\ report.analysis = AnalyzeSymbol(Until(Dataset, report.boundary))
        /\ report'.analysis = AnalyzeSymbol(Dataset)
  BY EarlierReport
<1> DEFINE k == report.boundary
           then == AnalyzeSymbol(Until(Dataset, k)).indicators
           hours == Resample(Dataset, HourSize)
<1>2. \A j : Gate(j) = then[j] /\ Gate(j)' = AnalyzeSymbol(Dataset).indicators[j]
  BY <1>1 DEF Gate
<1>3. \A j \in 1..(i - 1) : then[j].status = "PASS"
  BY <1>2 DEF Settled, PassedUpTo
<1>4. AnalyzeSymbol(Dataset).indicators[4] = then[4]
  BY <1>2
<1>5. \/ then[i].status = "PASS"
      \/ then[i].status = "FAIL" /\ WaitedFor(i) <= k
  BY <1>2 DEF Settled
<1>6. ASSUME WaitedFor(i) <= k PROVE Waited(i, hours, then, k)
  <2>1. CASE i = 5
    <3> DEFINE touch == FirstTouch(hours, then[4])
    <3>1. WaitedFor(5) = (IF touch = 0 THEN Boundary + 1 ELSE hours[touch].close_time)
                         + PoiTimeout * HourSize
      BY <1>2 DEF WaitedFor, TouchTime, FirstTouch
    <3>2. touch # 0
      <4> SUFFICES ASSUME touch = 0 PROVE FALSE
        OBVIOUS
      <4>1. Boundary + 1 + PoiTimeout * HourSize <= k
        BY <3>1, <1>6, <2>1
      <4>2. PoiTimeout * HourSize \in Nat
        BY StrategyAssumption, TimeframeAssumption
      <4>3. Boundary \in Int /\ k \in Nat /\ k <= Boundary
        BY <1>1, LastHourBounds
      <4> DEFINE wait == PoiTimeout * HourSize
      <4> HIDE DEF wait, k, touch
      <4>4. Boundary + 1 + wait <= k /\ wait \in Nat
        BY <4>1, <4>2 DEF wait
      <4> QED BY <4>3, <4>4
    <3>3. hours[touch].close_time + PoiTimeout * HourSize <= k
      BY <3>1, <3>2, <1>6, <2>1
    <3> HIDE DEF hours, then, k
    <3> QED BY <3>2, <3>3, <2>1 DEF Waited
  <2>2. CASE i = 6
    <3>1. WaitedFor(6) = then[5].known_at + DisplacementWindow * HourSize
      BY <1>2 DEF WaitedFor
    <3> HIDE DEF hours, then, k
    <3> QED BY <3>1, <1>6, <2>2 DEF Waited
  <2>3. CASE i = 8
    <3>1. WaitedFor(8) = then[6].known_at + (2 + FvgWait) * HourSize
      BY <1>2 DEF WaitedFor
    <3> HIDE DEF hours, then, k
    <3> QED BY <3>1, <1>6, <2>3 DEF Waited
  <2>4. CASE i = 7
    BY <2>4 DEF Waited
  <2>5. CASE i = 9
    BY <2>5 DEF Waited
  <2> QED BY <2>1, <2>2, <2>3, <2>4, <2>5
<1>7. AnalyzeSymbol(Dataset).indicators[i] = then[i]
  <2>1. k \in Int /\ k <= LastHour(b)
    BY <1>1
  <2> HIDE DEF k
  <2> QED BY <2>1, <1>1, <1>3, <1>4, <1>5, <1>6, SettledVerdicts
<1> QED BY <1>2, <1>7

\* No later bar revises a verdict, while less is fetched again than a day: a
\* dataset grows at its beginning only while it is shorter than the overlap,
\* and then it has no day to pass a gate on.
THEOREM VerdictsAreFinal ==
  ASSUME Overlap <= DaySize
  PROVE  Spec => VerdictsStand
<1>1. Inv /\ [Next]_vars =>
        [pc = "analyze" /\ report # NoReport /\ PassedUpTo(4) /\ Gate(4)' = Gate(4) =>
           \A i \in 5..Len(Gates) : Settled(i) => Gate(i)' = Gate(i)]_vars
  <2> SUFFICES ASSUME Inv, Next, pc = "analyze", report # NoReport, PassedUpTo(4),
                      Gate(4)' = Gate(4), NEW i \in 5..9, Settled(i)
               PROVE  Gate(i)' = Gate(i)
    BY NineGates
  <2>1. Analyze
    BY DEF Next, StartFetch, FetchPage, Commit, FailIngestion, NextInvocation, Exhausted
  <2> QED BY <2>1, SettledStands
<1> QED BY <1>1, Invariance, PTL DEF Spec, VerdictsStand
--------------------------------------------------------------------------------
(* Every ingestion ends: what IngestionEnds needs besides fairness *)

\* A fetch that goes on has something left to ask for and a retry left.
Paging ==
  pc = "fetch" => /\ attempt \in 0..Retries
                  /\ fetch = "asking" => cursor <= request.end

\* A step of an ingestion that does not end it, or at least its fetch, moves the
\* cursor on within what was asked for, or it uses up a retry at the same place.
FetchAdvances ==
  [][pc = "fetch" /\ pc' = "fetch" =>
       /\ fetch = "asking" /\ request' = request
       /\ \/ fetch' # "asking"
          \/ cursor < cursor' /\ cursor' <= request.end
          \/ cursor' = cursor /\ attempt < attempt' /\ attempt' <= Retries]_vars

\* A page moves the cursor on, or it is the last one.
LEMMA AnswerAdvances ==
  ASSUME Inv, pc = "fetch", Answer, fetch' = "asking"
  PROVE  cursor < cursor' /\ cursor' <= request.end
<1>1. PICK page \in Pages :
        LET next == IF page = {} THEN cursor ELSE Max(page) + 1
        IN /\ cursor' = IF next > cursor THEN next ELSE cursor
           /\ fetch' = IF page = {} THEN "done"
                       ELSE IF next <= cursor THEN "raised"
                       ELSE IF Cardinality(page) < Limit \/ next > request.end THEN "done"
                       ELSE "asking"
  BY DEF Answer
<1>2. cursor \in Int /\ request.end \in Nat /\ request.start \in Int /\ request.start <= cursor
  <2>1. /\ Bootstrap \in Nat \ {0} /\ Overlap \in Nat \ {0} /\ ServerCutoff \subseteq Nat
        /\ Cutoff \in Int
    BY WindowAssumption, MarketAssumption, CutoffOfDataset DEF Inv, DatasetOK
  <2>2. /\ request.end \in ServerCutoff
        /\ request.start = IF minutes = {} THEN request.end + 1 - Bootstrap ELSE Cutoff + 1 - Overlap
        /\ request.start <= cursor
    BY DEF Inv, FetchOK
  <2>3. cursor \in Int /\ request.end \in Nat
    BY <2>1, <2>2 DEF Inv, TypeOK
  <2> QED BY <2>1, <2>2, <2>3
<1>3. page # {} => Max(page) \in Nat
  BY <1>2, PagesAreMinutes
<1> DEFINE next == Max(page) + 1
<1>4. page # {} /\ ~ (next <= cursor) /\ ~ (next > request.end)
      /\ cursor' = IF next > cursor THEN next ELSE cursor
  BY <1>1
<1>5. next \in Int
  BY <1>3, <1>4
<1> HIDE DEF next
<1> QED BY <1>2, <1>4, <1>5

LEMMA PagingStep ==
  ASSUME Inv, Paging, [Next]_vars
  PROVE  Paging'
<1>1. Retries \in Nat
  BY PageAssumption
<1>2. CASE StartFetch
  <2>1. \E start : \E c \in ServerCutoff : BeginFetch(start, c)
    BY <1>2 DEF StartFetch
  <2> QED BY <1>1, <2>1 DEF BeginFetch, Paging
<1>3. CASE FetchPage /\ Answer
  <2>1. attempt' = 0 /\ request' = request /\ pc' = pc /\ pc = "fetch"
    BY <1>3 DEF FetchPage, Answer
  <2> QED BY <1>1, <1>3, <2>1, AnswerAdvances DEF Paging
<1>4. CASE FetchPage /\ RequestFails
  BY <1>1, <1>4 DEF FetchPage, RequestFails, Paging
<1>5. CASE Commit \/ FailIngestion \/ Analyze \/ NextInvocation
  BY <1>5 DEF Commit, FailIngestion, Analyze, NextInvocation, Paging
<1>6. CASE UNCHANGED vars
  BY <1>6 DEF vars, pageVars, Paging
<1> QED BY <1>2, <1>3, <1>4, <1>5, <1>6 DEF Next, FetchPage, PageStep, Exhausted

\* An ingestion asks for finitely many pages, each with finitely many retries:
\* whatever the exchange answers, no request starts where one of the same fetch has
\* started before, but to retry it.
THEOREM FetchesAreBounded == Spec => FetchAdvances
<1>1. Init => Paging
  BY DEF Init, Paging
<1>2. Spec => [](Inv /\ Paging)
  <2>1. Inv /\ Paging /\ [Next]_vars => (Inv /\ Paging)'
    BY NextInv, PagingStep
  <2> QED BY InitInv, <1>1, <2>1, PTL DEF Spec
<1>3. Inv /\ Paging /\ [Next]_vars =>
        [pc = "fetch" /\ pc' = "fetch" =>
           /\ fetch = "asking" /\ request' = request
           /\ \/ fetch' # "asking"
              \/ cursor < cursor' /\ cursor' <= request.end
              \/ cursor' = cursor /\ attempt < attempt' /\ attempt' <= Retries]_vars
  <2> SUFFICES ASSUME Inv, Paging, Next, pc = "fetch", pc' = "fetch", ~ UNCHANGED vars
               PROVE  /\ fetch = "asking" /\ request' = request
                      /\ \/ fetch' # "asking"
                         \/ cursor < cursor' /\ cursor' <= request.end
                         \/ cursor' = cursor /\ attempt < attempt' /\ attempt' <= Retries
    OBVIOUS
  <2>1. FetchPage
    BY DEF Next, StartFetch, Commit, FailIngestion, Analyze, NextInvocation, Exhausted
  <2>2. CASE Answer
    BY <2>2, AnswerAdvances DEF Answer
  <2>3. CASE RequestFails
    BY <2>3, PageAssumption DEF RequestFails, Paging
  <2> QED BY <2>1, <2>2, <2>3 DEF FetchPage, PageStep
<1> QED BY <1>2, <1>3, PTL DEF Spec, FetchAdvances
================================================================================
