--------------------------- MODULE MCCasebookReader ----------------------------
(* Instances of CasebookReader for TLC: two hourly runs, one of which has its  *)
(* cutoff on the day after its boundary, and a run of the former strategy.     *)
EXTENDS CasebookReader

Indicator(status, reason, event, known) ==
  [status |-> status, reason |-> reason, event_time |-> event, known_at |-> known]
SymbolBody(gates, verdict) ==
  [indicators |-> gates, decision |-> verdict, config_hash |-> "c1"]
Report(status, btc, eth) == [status |-> status, symbols |-> [BTCUSDT |-> btc, ETHUSDT |-> eth]]

\* The context passes at minute 3, the execution is known at a later hour.
Reaches(hour) == <<Indicator("PASS", "passed", 3, 3), Indicator("PASS", "passed", hour, hour)>>
Waits == <<Indicator("PASS", "passed", 3, 3), Indicator("FAIL", "no_fvg", -1, -1)>>
Blocked == <<Indicator("UNAVAILABLE", "warmup", -1, -1), Indicator("UNAVAILABLE", "upstream", -1, -1)>>
Trade == [status |-> "TRADE", passed |-> 2, reason |-> "all_gates_passed"]
NoSetup == [status |-> "NO_SETUP", passed |-> 1, reason |-> "no_fvg"]
IsBlocked == [status |-> "BLOCKED", passed |-> 0, reason |-> "warmup"]

MCDecisions ==
  [d1 |-> Report("TRADE", SymbolBody(Reaches(5), Trade), SymbolBody(Waits, NoSetup)),
   d2 |-> Report("BLOCKED", SymbolBody(Reaches(7), Trade), SymbolBody(Blocked, IsBlocked)),
   late |-> Report("TRADE", SymbolBody(Reaches(9), Trade), SymbolBody(Waits, NoSetup)),
   wrong |-> Report("TRADE", SymbolBody(Waits, Trade), SymbolBody(Waits, NoSetup)),
   old |-> [status |-> "NO_SETUP",
            symbols |-> [BTCUSDT |-> SymbolBody(<<Indicator("FAIL", "no_bos", 2, 2)>>,
                                          [status |-> "NO_SETUP", passed |-> 0, reason |-> "no_bos"])]]]

MCConfigs ==
  [c1 |-> [declared |-> "c1", content |-> "c1", symbols |-> {"BTCUSDT", "ETHUSDT"}],
   edited |-> [declared |-> "c1", content |-> "c2", symbols |-> {"BTCUSDT", "ETHUSDT"}],
   one |-> [declared |-> "c1", content |-> "c3", symbols |-> {"BTCUSDT"}]]

Manifest(schema, name, cutoff, boundary, snapshot, report) ==
  [schema |-> schema, run |-> name, cutoff |-> cutoff, boundary |-> boundary,
   config_hash |-> "c1", files |-> [config |-> snapshot, decision |-> report]]

MCTimeframes1 == <<1>>
MCTimeframes2 == <<4, 2>>

MCV2Run ==
  {[name |-> 1, day |-> 0, manifest |-> Manifest("2", 1, 5, 5, "c1", "d1")],
   [name |-> 2, day |-> 1, manifest |-> Manifest("2", 2, 8, 7, "c1", "d2")]}
MCV1Run ==
  {[name |-> 3, day |-> 0, manifest |-> Manifest("1", 3, 2, -1, "one", "old")]}
================================================================================
