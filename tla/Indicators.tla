------------------------------ MODULE Indicators -------------------------------
(* resample.py and the indicators/ package, for the long direction, which is   *)
(* the only one analyze_symbol_v2 asks for: pure operators on bars.            *)
(* Time is counted in whole minutes: a bar that ends with minute m has         *)
(* close_time m, for the code's (m + 1) * 60_000 - 1 milliseconds.  Prices are *)
(* naturals and the strategy's fractions are percentages; quotients are        *)
(* compared by cross multiplication, the median is doubled, entries and risks  *)
(* are scaled.  Volumes and the wording of results are left out.               *)
EXTENDS Integers, Sequences, FiniteSets, FiniteSetsExt, SequencesExt

CONSTANTS
  SwingLength,           \* strategy.swing_length
  PoiTimeout,            \* strategy.poi_timeout_bars
  DisplacementWindow,    \* strategy.displacement_window
  DisplacementLookback,  \* strategy.displacement_lookback
  BodyMultiplePct,       \* strategy.displacement_body_multiple
  BodyRatioPct,          \* strategy.displacement_body_ratio
  CloseEdgePct,          \* strategy.displacement_close_edge
  FvgWait,               \* strategy.fvg_wait_bars
  EntryPct,              \* strategy.fvg_entry_fraction
  AtrPeriod,             \* strategy.atr_period
  AtrBufferPct,          \* strategy.atr_buffer
  MinimumR,              \* strategy.minimum_r
  CostBps                \* strategy.fee_bps + strategy.slippage_bps

\* StrategyConfig.__post_init__
ASSUME StrategyAssumption ==
  /\ {SwingLength, PoiTimeout, DisplacementWindow, DisplacementLookback, FvgWait, AtrPeriod}
       \subseteq Nat \ {0}
  /\ MinimumR \in Nat \ {0}
  /\ {BodyMultiplePct, BodyRatioPct, CloseEdgePct, EntryPct, AtrBufferPct, CostBps} \subseteq Nat

NoTime == -1
NoValue == <<>>

Result(status, reason, value, event, known) ==
  [status |-> status, reason |-> reason, value |-> value, event_time |-> event, known_at |-> known]
Passed(value, event, known) == Result("PASS", "passed", value, event, known)
Fail(reason) == Result("FAIL", reason, NoValue, NoTime, NoTime)
Unavailable(reason) == Result("UNAVAILABLE", reason, NoValue, NoTime, NoTime)

--------------------------------------------------------------------------------
(* Bars *)

Aggregate(rows, start, end) ==
  [open_time |-> start, close_time |-> end,
   open |-> rows[start].open, close |-> rows[end].close,
   high |-> Max({rows[m].high : m \in start..end}),
   low |-> Min({rows[m].low : m \in start..end})]

\* The groups by open time, in order: from that of the first minute to the last's.
GroupStarts(rows, size) ==
  LET first == Min(DOMAIN rows) \div size
      last == Max(DOMAIN rows) \div size
  IN IF DOMAIN rows = {} THEN <<>> ELSE [k \in 1..(last - first + 1) |-> (first + k - 1) * size]

\* Variant: a bar that is still developing, or lacks minutes, is built as well.
Resample_Developing(rows, size) ==
  LET starts == GroupStarts(rows, size)
      Minutes(start) == {m \in start..(start + size - 1) : m \in DOMAIN rows}
      Bar(start) == [Aggregate(rows, Min(Minutes(start)), Max(Minutes(start)))
                       EXCEPT !.close_time = start + size - 1]
      bars[k \in 0..Len(starts)] ==
        IF k = 0 THEN <<>>
        ELSE IF Minutes(starts[k]) # {} THEN Append(bars[k - 1], Bar(starts[k])) ELSE bars[k - 1]
  IN bars[Len(starts)]

\* resample_bars: rows map a minute to its bar; only groups of all the minutes
\* of their time frame become a bar.
Resample(rows, size) ==
  LET starts == GroupStarts(rows, size)
      Whole(start) == start..(start + size - 1) \subseteq DOMAIN rows
      Bar(start) == Aggregate(rows, start, start + size - 1)
      bars[k \in 0..Len(starts)] ==
        IF k = 0 THEN <<>>
        ELSE IF Whole(starts[k]) THEN Append(bars[k - 1], Bar(starts[k])) ELSE bars[k - 1]
  IN bars[Len(starts)]

\* Bars are in the order of time: the ones closed by a time are the first ones.
ClosedBy(bars, time) ==
  SubSeq(bars, 1, Max({0} \cup {i \in DOMAIN bars : bars[i].close_time <= time}))

Around(bars, i) == (Max({1, i - SwingLength})..Min({Len(bars), i + SwingLength})) \ {i}

\* confirmed_swings: a strict extreme among SwingLength bars on either side; it
\* is known with the last of them.
Confirmable(bars) == (SwingLength + 1)..(Len(bars) - SwingLength)

LowPivots(bars) ==
  {i \in Confirmable(bars) : \A j \in Around(bars, i) : bars[j].low > bars[i].low}
HighPivots(bars) ==
  {i \in Confirmable(bars) : \A j \in Around(bars, i) : bars[j].high < bars[i].high}

KnownIndex(i) == i + SwingLength
KnownBefore(pivots, index) == {i \in pivots : KnownIndex(i) < index}

\* _first_index_at_or_after and first_zone_touch; 0 when there is none.
FirstIndex(indices) == IF indices = {} THEN 0 ELSE Min(indices)
FirstIndexAtOrAfter(bars, time) == FirstIndex({i \in DOMAIN bars : bars[i].close_time >= time})
FirstZoneTouch(bars, zone, after) ==
  FirstIndex({i \in DOMAIN bars : /\ bars[i].open_time > after
                                  /\ bars[i].low <= zone.high /\ bars[i].high >= zone.low})

--------------------------------------------------------------------------------
(* The context of a point of interest *)

\* smc_4h_structure, which serves the daily regime as well.
Structure(bars) ==
  LET last == Last(bars)
      highs == HighPivots(bars)
      lows == LowPivots(bars)
      bias == IF highs # {} /\ last.close > bars[Max(highs)].high THEN "BULLISH"
              ELSE IF lows # {} /\ last.close < bars[Max(lows)].low THEN "BEARISH"
              ELSE "NEUTRAL"
  IN Result(IF bias = "NEUTRAL" THEN "FAIL" ELSE "PASS", "structure", [bias |-> bias],
            last.close_time, last.close_time)

\* smc_1h_dealing_range for a bullish bias: the last close is in the discount.
DealingRange(bars) ==
  LET last == Last(bars)
      high == Max({bars[i].high : i \in DOMAIN bars})
      low == Min({bars[i].low : i \in DOMAIN bars})
  IN Result(IF 2 * last.close < high + low THEN "PASS" ELSE "FAIL", "dealing_range", NoValue,
            last.close_time, last.close_time)

\* smc_1h_order_block for a bullish bias: the last bearish bar of the impulse,
\* not mitigated before the break, and its first touch after it.
OrderBlock(bars, impulseStart, breakIndex) ==
  LET bearish == {i \in impulseStart..(breakIndex - 1) : bars[i].close < bars[i].open}
      origin == Max(bearish)
      zone == [low |-> bars[origin].low, high |-> bars[origin].high]
      mitigated == \E i \in (origin + 1)..(breakIndex - 1) : bars[i].low < zone.low
      touch == FirstIndex({i \in (breakIndex + 1)..Len(bars) :
                             bars[i].low <= zone.high /\ bars[i].high >= zone.low})
  IN IF bearish = {} THEN Fail("no_directional_ob")
     ELSE IF mitigated THEN Fail("prior_mitigation")
     ELSE IF touch = 0 THEN Fail("no_first_touch")
     ELSE Passed([zone |-> zone, touch |-> touch],
                 bars[touch].close_time, bars[touch].close_time)

--------------------------------------------------------------------------------
(* The execution on the hours after the touch *)

\* ict_5m_liquidity: the first breach after the touch, reclaimed by the close of
\* the same bar or of the next one.
Liquidity(bars, level, reference, touch) ==
  LET breach == FirstIndex({i \in (Max({reference, touch}) + 1)..Len(bars) : bars[i].low < level})
      reclaim == FirstIndex({i \in breach..Min({Len(bars), breach + 1}) : bars[i].close > level})
  IN IF breach = 0 THEN Fail("no_liquidity_breach")
     ELSE IF reclaim = 0 THEN Fail("reclaim_window_expired")
     ELSE Passed([extreme |-> bars[breach].low],
                 bars[breach].close_time, bars[reclaim].close_time)

Body(bar) == IF bar.close >= bar.open THEN bar.close - bar.open ELSE bar.open - bar.close

DoubledMedian(values) ==
  LET sorted == SortSeq(values, <)
      n == Len(values)
  IN sorted[(n + 1) \div 2] + sorted[n \div 2 + 1]

\* ict_5m_displacement: a bullish body, large against the median of the bars
\* before it and against its own span, that closes near its high.
IsDisplacement(bars, index) ==
  LET b == bars[index]
      first == Max({1, index - DisplacementLookback})
      prior == [k \in 1..(index - first) |-> Body(bars[first + k - 1])]
      span == b.high - b.low
  IN /\ prior # <<>>
     /\ b.close > b.open
     /\ 200 * Body(b) >= DoubledMedian(prior) * BodyMultiplePct
     /\ 100 * Body(b) >= BodyRatioPct * span
     /\ 100 * (b.high - b.close) <= CloseEdgePct * span

\* ict_5m_mss: the last close is above the opposing swing.
Mss(bars, level) ==
  LET b == Last(bars)
  IN Result(IF b.close > level THEN "PASS" ELSE "FAIL", "no_close_mss", NoValue,
            b.close_time, b.close_time)

\* Variant: the gap is reported as known with the bar that forms it.
Fvg_KnownWhenFormed(bars, start, end) ==
  LET formed == FirstIndex({i \in Max({start + 2, 3})..Min({end, Len(bars)}) :
                              bars[i].low > bars[i - 2].high})
      low == bars[formed - 2].high
      entry == 100 * low + EntryPct * (bars[formed].low - low)
      fill == FirstIndex({i \in (formed + 1)..Min({formed + FvgWait, Len(bars)}) :
                            100 * bars[i].low <= entry})
  IN IF formed = 0 THEN Fail("no_fvg")
     ELSE IF fill = 0
       THEN Result("FAIL", "fvg_retracement_expired", NoValue, bars[formed].close_time,
                   bars[Min({Len(bars), formed + FvgWait})].close_time)
     ELSE Passed([entry |-> entry], bars[formed].close_time, bars[formed].close_time)

\* ict_5m_fvg: the first gap between a bar and the one two before it, retraced
\* to its entry within FvgWait bars.  The entry is in hundredths.
Fvg(bars, start, end) ==
  LET formed == FirstIndex({i \in Max({start + 2, 3})..Min({end, Len(bars)}) :
                              bars[i].low > bars[i - 2].high})
      low == bars[formed - 2].high
      entry == 100 * low + EntryPct * (bars[formed].low - low)
      fill == FirstIndex({i \in (formed + 1)..Min({formed + FvgWait, Len(bars)}) :
                            100 * bars[i].low <= entry})
  IN IF formed = 0 THEN Fail("no_fvg")
     ELSE IF fill = 0
       THEN Result("FAIL", "fvg_retracement_expired", NoValue, bars[formed].close_time,
                   bars[Min({Len(bars), formed + FvgWait})].close_time)
     ELSE Passed([entry |-> entry], bars[formed].close_time, bars[fill].close_time)

\* _atr: the sum of the true ranges of the AtrPeriod bars up to an index; the
\* first bar of all has no previous close.
TrueRange(bars, i) ==
  LET previous == IF i = 1 THEN bars[i].open ELSE bars[i - 1].close
      Distance(price) == IF price >= previous THEN price - previous ELSE previous - price
  IN Max({bars[i].high - bars[i].low, Distance(bars[i].high), Distance(bars[i].low)})
HasAtr(end) == end >= AtrPeriod
Total(values) == FoldLeft(LAMBDA sum, value : sum + value, 0, values)
AtrSum(bars, end) == Total([k \in 1..AtrPeriod |-> TrueRange(bars, end - AtrPeriod + k)])

\* risk: the net reward against the net risk, both scaled by 500_000 * AtrPeriod
\* so that the entry's hundredths, the average and the costs stay whole.
Risk(entry, extreme, target, atrSum) ==
  LET scale == 500000 * AtrPeriod
      scaledEntry == entry * 5000 * AtrPeriod
      risk == scaledEntry - (extreme * scale - 5000 * AtrBufferPct * atrSum)
      reward == target * scale - scaledEntry
      costs == entry * AtrPeriod * CostBps
  IN Result(IF risk > 0 /\ reward - costs >= MinimumR * (risk + costs) THEN "PASS" ELSE "FAIL",
            "net_r", NoValue, NoTime, NoTime)
================================================================================
