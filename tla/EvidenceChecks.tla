---------------------------- MODULE EvidenceChecks -----------------------------
(* What casebook.py demands of the indicators and the decisions of a run:      *)
(* pure operators, used by the reader and by the properties of an analysis.    *)
EXTENDS Integers, Sequences, FiniteSets, FiniteSetsExt

StatusPriority == <<"FAILED", "BLOCKED", "TRADE", "ORDER_PENDING", "ARMED", "NO_SETUP">>

\* aggregate_status, and the reader's expected_run_status.
AggregateStatus(statuses) ==
  StatusPriority[Min({k \in DOMAIN StatusPriority : StatusPriority[k] \in statuses})]

\* _validate_indicators: event and knowledge come together and in this order,
\* neither is after the limit, and each ends a bar of the gate's time frame
\* (0 for a gate without one).  A time before the epoch stands for None.
ValidIndicator(indicator, timeframe, limit) ==
  LET event == indicator.event_time
      known == indicator.known_at
      Ends(time) == timeframe = 0 \/ (time + 1) % timeframe = 0
  IN /\ indicator.status \in {"PASS", "FAIL", "UNAVAILABLE"}
     /\ (event < 0) = (known < 0)
     /\ event >= 0 => event <= known /\ known <= limit /\ Ends(event) /\ Ends(known)

ValidIndicators(indicators, timeframes, limit) ==
  /\ DOMAIN indicators = DOMAIN timeframes
  /\ \A gate \in DOMAIN indicators : ValidIndicator(indicators[gate], timeframes[gate], limit)

\* _expected_gate_decision: the reader decides again from the indicators.
ExpectedDecision(indicators) ==
  LET open == {gate \in DOMAIN indicators : indicators[gate].status # "PASS"}
      stopped == indicators[Min(open)]
  IN IF open = {} THEN [status |-> "TRADE", passed |-> Len(indicators), reason |-> "all_gates_passed"]
     ELSE [status |-> IF stopped.status = "UNAVAILABLE" THEN "BLOCKED" ELSE "NO_SETUP",
           passed |-> Min(open) - 1, reason |-> stopped.reason]
================================================================================
