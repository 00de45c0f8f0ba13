--------------------------- MODULE StrategyAnalysis ----------------------------
(* analyze_symbol_v2 and decide_v2: nine gates over the 1D, 4H and 1H bars of  *)
(* one pinned snapshot.  The gates are passed in order; the ones after the     *)
(* first that does not pass stay UNAVAILABLE.                                  *)
EXTENDS Indicators

CONSTANTS
  HourSize, PoiSize, DaySize  \* minutes of a 1H, 4H and 1D bar

ASSUME TimeframeAssumption ==
  /\ HourSize \in Nat \ {0} /\ PoiSize \in Nat \ {0} /\ DaySize \in Nat \ {0}
  /\ PoiSize % HourSize = 0 /\ DaySize % PoiSize = 0

\* V2_GATES
Gates == << "smc_1d_regime", "smc_4h_structure", "smc_4h_dealing_range", "smc_4h_order_block",
            "ict_1h_liquidity", "ict_1h_displacement", "ict_1h_mss", "ict_1h_fvg", "risk" >>

\* The gates reached so far, in order; a further one is reached by passing.
Then(reached, gate) ==
  IF Last(reached).status = "PASS" THEN Append(reached, gate) ELSE reached

\* The indicators of the report: what is not reached keeps its initial result.
Indicated(reached) ==
  [i \in DOMAIN Gates |-> IF i \in DOMAIN reached THEN reached[i]
                          ELSE Unavailable("upstream_gate_not_passed")]

Aligned(structure, contradiction) ==
  IF structure.status = "PASS" /\ structure.value.bias # "BULLISH" THEN Fail(contradiction)
                                                                   ELSE structure

\* _apply_context: the first three gates with what was closed at a 4H bar.
Context(days, pois, at) ==
  LET known == ClosedBy(days, pois[at].close_time)
      upTo == SubSeq(pois, 1, at)
      regime == Structure(known)
      bearish == regime.value.bias # "BULLISH"
  IN IF known = <<>> THEN <<Unavailable("insufficient_1d_context")>>
     ELSE Then(Then(<<regime>>,
                    IF bearish THEN Fail("v2_long_only")
                    ELSE Aligned(Structure(upTo), "4h_not_aligned_bullish")),
               DealingRange(upTo))

--------------------------------------------------------------------------------
(* The point of interest: the impulse that last broke a confirmed 4H high *)

Breaks(pois, pivot) == {j \in (KnownIndex(pivot) + 1)..Len(pois) : pois[j].close > pois[pivot].high}
BrokenHighs(pois) == {i \in HighPivots(pois) : Breaks(pois, i) # {}}

PointOfInterest(pois) ==
  LET broken == Max(BrokenHighs(pois))
      breakIndex == Min(Breaks(pois, broken))
      lows == KnownBefore(LowPivots(pois), breakIndex)
      impulseStart == IF lows # {} THEN Max(lows) ELSE Max({1, broken - 3})
  IN [break |-> breakIndex, block |-> OrderBlock(pois, impulseStart, breakIndex)]

\* Variant: the reference is the newest confirmed low, not the one at the touch.
LiquidityGate_MovingLow(hours, block) ==
  LET touch == FirstZoneTouch(hours, block.value.zone, block.known_at)
      lows == LowPivots(hours)
      observed == SubSeq(hours, 1, Min({Len(hours), touch + PoiTimeout}))
  IN IF touch = 0 THEN Unavailable("poi_touch_not_in_1h_snapshot")
     ELSE IF lows = {} THEN Unavailable("no_frozen_sell_side_liquidity")
     ELSE Liquidity(observed, hours[Max(lows)].low, Max(lows), touch)

\* The gates on the hours, from the first touch of the order block's zone on.
LiquidityGate(hours, block) ==
  LET touch == FirstZoneTouch(hours, block.value.zone, block.known_at)
      frozen == KnownBefore(LowPivots(hours), touch)
      observed == SubSeq(hours, 1, Min({Len(hours), touch + PoiTimeout}))
  IN IF touch = 0 THEN Unavailable("poi_touch_not_in_1h_snapshot")
     ELSE IF frozen = {} THEN Unavailable("no_frozen_sell_side_liquidity")
     ELSE Liquidity(observed, hours[Max(frozen)].low, Max(frozen), touch)

\* Variant: the bar of the sweep is a candidate as well.
DisplacementIndex_FromSweep(hours, sweep) ==
  FirstIndex({i \in sweep..Min({Len(hours), sweep + DisplacementWindow}) : IsDisplacement(hours, i)})

DisplacementIndex(hours, sweep) ==
  FirstIndex({i \in (sweep + 1)..Min({Len(hours), sweep + DisplacementWindow}) :
                IsDisplacement(hours, i)})

MssGate(hours, sweep, displaced) ==
  LET frozen == KnownBefore(HighPivots(hours), sweep)
  IN IF frozen = {} THEN Unavailable("no_frozen_opposing_swing")
     ELSE Mss(SubSeq(hours, 1, displaced), hours[Max(frozen)].high)

RiskGate(pois, hours, block, liquidity, gap) ==
  LET fill == FirstIndexAtOrAfter(hours, gap.known_at)
      targets == KnownBefore(HighPivots(pois), block.value.touch)
  IN IF ~ HasAtr(fill) \/ targets = {} THEN Unavailable("insufficient_frozen_risk_reference")
     ELSE Risk(gap.value.entry, liquidity.value.extreme, pois[Max(targets)].high,
               AtrSum(hours, fill))

Execution(reached, pois, hours, block) ==
  LET liquidity == LiquidityGate(hours, block)
      sweep == FirstIndexAtOrAfter(hours, liquidity.known_at)
      displaced == DisplacementIndex(hours, sweep)
      displacement == IF displaced = 0 THEN Fail("displacement_window_expired")
                      ELSE Passed(NoValue, hours[displaced].close_time, hours[displaced].close_time)
      gap == Fvg(hours, Max({1, displaced - 2}), displaced + 2)
      afterSweep == Then(Then(reached, liquidity), displacement)
  IN Then(Then(Then(afterSweep, MssGate(hours, sweep, displaced)), gap),
          RiskGate(pois, hours, block, liquidity, gap))

\* analyze_symbol_v2
GatesOn(days, pois, hours) ==
  LET poi == PointOfInterest(pois)
      ContextAt(at) == Context(days, pois, at)
  IN IF <<>> \in {days, pois, hours} THEN <<Unavailable("insufficient_timeframe_warmup")>>
     ELSE IF BrokenHighs(pois) = {} THEN ContextAt(Len(pois))
     ELSE IF poi.block.status # "PASS" THEN Then(ContextAt(poi.break), poi.block)
     ELSE Execution(Then(ContextAt(poi.block.value.touch), poi.block), pois, hours, poi.block)
ReachedGates(rows) ==
  GatesOn(Resample(rows, DaySize), Resample(rows, PoiSize), Resample(rows, HourSize))

\* Variant: any gate that is UNAVAILABLE blocks, also one behind the stop.
Decision_AnyUnavailable(indicators) ==
  LET stopped == {i \in DOMAIN indicators : indicators[i].status # "PASS"}
      first == Min(stopped)
  IN IF stopped = {} THEN [status |-> "TRADE", passed |-> Len(Gates), reason |-> "all_gates_passed"]
     ELSE [status |-> IF \E i \in stopped : indicators[i].status = "UNAVAILABLE" THEN "BLOCKED"
                                                                             ELSE "NO_SETUP",
           passed |-> first - 1, reason |-> indicators[first].reason]

\* decide_v2
Decision(indicators) ==
  LET stopped == {i \in DOMAIN indicators : indicators[i].status # "PASS"}
      first == Min(stopped)
  IN IF stopped = {} THEN [status |-> "TRADE", passed |-> Len(Gates), reason |-> "all_gates_passed"]
     ELSE [status |-> IF indicators[first].status = "UNAVAILABLE" THEN "BLOCKED" ELSE "NO_SETUP",
           passed |-> first - 1, reason |-> indicators[first].reason]

AnalyzeSymbol(rows) ==
  LET indicators == Indicated(ReachedGates(rows))
  IN [indicators |-> indicators, decision |-> Decision(indicators)]
================================================================================
