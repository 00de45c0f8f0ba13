-------------------------------- MODULE RunOnce --------------------------------
(* Orchestrator.run_once for one symbol, again and again while the market goes *)
(* on: the closed minutes are fetched page by page and committed, and the      *)
(* pinned dataset is analysed.  A fetch or a commit that fails leaves the      *)
(* dataset, and the next invocation asks again.  The transactions and the      *)
(* claims around these steps are Ingestion's and AnalysisPublication's.        *)
EXTENDS Pagination, StrategyAnalysis, EvidenceChecks

CONSTANTS
  Market,        \* the courses the market can take, by name: minutes to bars
  ServerCutoff,  \* the last closed minutes the exchange clock can answer
  Overlap,       \* config.overlap_bars
  Bootstrap      \* config.bootstrap_bars

ASSUME MarketAssumption ==
  /\ ServerCutoff \subseteq Nat
  /\ \A course \in DOMAIN Market, c \in ServerCutoff : 0..c \subseteq DOMAIN Market[course]
ASSUME WindowAssumption == Overlap \in Nat \ {0} /\ Bootstrap \in Nat \ {0}

NoReport == [boundary |-> NoTime]

VARIABLES
  course,   \* the course the market takes
  minutes,  \* the minutes of the latest committed dataset
  report,   \* the report of its analysis
  pc        \* where run_once is

analysisVars == <<course, minutes, report>>
vars == <<pageVars, analysisVars, pc>>

Cutoff == IF minutes = {} THEN -1 ELSE Max(minutes)
Dataset == [m \in minutes |-> Market[course][m]]

\* analysis_boundary: the last minute of the last complete hour.
Boundary == ((Cutoff + 1) \div HourSize) * HourSize - 1

--------------------------------------------------------------------------------
\* Variant: only the minutes that are not committed yet are fetched.
StartFetch_NoOverlap ==
  /\ pc = "idle"
  /\ \E c \in ServerCutoff :
       /\ c > Cutoff
       /\ BeginFetch(IF minutes = {} THEN c + 1 - Bootstrap ELSE Cutoff + 1, c)
  /\ pc' = "fetch"
  /\ UNCHANGED analysisVars

\* ingest_once up to its first request; without a new closed minute there is
\* nothing to fetch.
StartFetch ==
  /\ pc = "idle"
  /\ \E c \in ServerCutoff :
       /\ c > Cutoff
       /\ BeginFetch(IF minutes = {} THEN c + 1 - Bootstrap ELSE Cutoff + 1 - Overlap, c)
  /\ pc' = "fetch"
  /\ UNCHANGED analysisVars

FetchPage ==
  /\ pc = "fetch"
  /\ PageStep
  /\ UNCHANGED <<analysisVars, pc>>

\* Variant: the rows are stored as they come.
CommitAccepted_Any == ~ repeated /\ rows # {}

\* commit_dataset for one symbol: no minute twice, none missing, the last one
\* the cutoff, and at least one of them in the base.
CommitAccepted ==
  /\ ~ repeated
  /\ rows # {} /\ rows = Min(rows)..request.end
  /\ minutes # {} => Min(rows) <= Cutoff

Commit ==
  /\ pc = "fetch" /\ fetch = "done" /\ CommitAccepted
  /\ minutes' = minutes \cup rows
  /\ pc' = "analyze"
  /\ EndFetch
  /\ UNCHANGED <<course, report>>

\* FAILED: the next invocation starts from what is committed.
FailIngestion ==
  /\ pc = "fetch"
  /\ fetch = "raised" \/ (fetch = "done" /\ ~ CommitAccepted)
  /\ pc' = "idle"
  /\ EndFetch
  /\ UNCHANGED analysisVars

\* analyze_latest on the pinned dataset; without a complete hour it fails.
Analyze ==
  /\ pc = "analyze"
  /\ report' = IF Boundary < 0 THEN NoReport
               ELSE [boundary |-> Boundary, analysis |-> AnalyzeSymbol(Dataset)]
  /\ pc' = "reported"
  /\ UNCHANGED <<pageVars, course, minutes>>

NextInvocation ==
  /\ pc = "reported"
  /\ pc' = "idle"
  /\ UNCHANGED <<pageVars, analysisVars>>

\* The instance's last cutoff has been reached.
Exhausted ==
  /\ pc = "idle" /\ \A c \in ServerCutoff : c <= Cutoff
  /\ UNCHANGED vars

Init ==
  /\ PagesInit
  /\ course \in DOMAIN Market
  /\ minutes = {}
  /\ report = NoReport
  /\ pc = "idle"

Next ==
  \/ StartFetch \/ FetchPage \/ Commit \/ FailIngestion
  \/ Analyze \/ NextInvocation
  \/ Exhausted

\* One thread, and every request has a timeout.
Ingest == FetchPage \/ Commit \/ FailIngestion
Spec == Init /\ [][Next]_vars /\ WF_vars(Ingest)
--------------------------------------------------------------------------------
(* Properties *)

Timeframes == <<DaySize, PoiSize, PoiSize, PoiSize, HourSize, HourSize, HourSize, HourSize, 0>>

\* The report an analysis would have given when minute k was the last one.
ReportAt(k) == AnalyzeSymbol([m \in minutes \cap (0..k) |-> Market[course][m]])

\* There is a report to speak of: the dataset has been analysed just now.
Reported == pc = "reported" /\ Boundary >= 0

Gate(i) == report.analysis.indicators[i]
PassedUpTo(i) == \A j \in 1..i : Gate(j).status = "PASS"

\* The window of ingest_once, the paging of fetch_1m and the checks of
\* commit_dataset fit together: an exchange that answers what it is asked for
\* is never rejected, whatever the pages and the base.
HonestFetchCommits ==
  pc = "fetch" /\ fetch = "done" /\ mood = "honest" => CommitAccepted

\* Nothing an exchange does to a fetch reaches an analysis: what is analysed is
\* the market, minute by minute, up to a cutoff the exchange clock answered.
OnlyTheMarketIsAnalysed ==
  pc \in {"analyze", "reported"} =>
    minutes = Min(minutes)..Cutoff /\ Cutoff \in ServerCutoff

\* An hour is analysed once, with whatever minutes of the next hour its dataset
\* has (orchestrator.py:152): the report depends on the complete hours alone.
OneReportPerBoundary == Reported => report.analysis = ReportAt(Boundary)

\* No lookahead and no repainting: what has passed was already known at the
\* time it claims, when the market had not gone any further.
PassedWasKnown ==
  Reported =>
    \A i \in 2..Len(Gates) : PassedUpTo(i) =>
      LET then == ReportAt(Max({Gate(j).known_at : j \in 1..i}))
      IN \A j \in 1..i : then.indicators[j] = Gate(j)

\* The story is told in order: no gate is passed on knowledge older than that of
\* the gate before it, the sweep comes after the touch of the order block and
\* the displacement after the sweep is known.
KnownInOrder ==
  Reported =>
    /\ \A i \in 2..(Len(Gates) - 1) : PassedUpTo(i) => Gate(i).known_at >= Gate(i - 1).known_at
    /\ \A i \in 5..6 : PassedUpTo(i) => Gate(i).event_time > Gate(i - 1).known_at

\* What an analysis publishes, the casebook reader accepts: it finds the times
\* aligned and inside the boundary and comes to the same decision.
AcceptedByReader ==
  Reported =>
    /\ ValidIndicators(report.analysis.indicators, Timeframes, Boundary)
    /\ report.analysis.decision = ExpectedDecision(report.analysis.indicators)

\* The time after which a gate of the execution has seen all it waits for.
TouchTime ==
  LET hours == Resample(Dataset, HourSize)
      touch == FirstZoneTouch(hours, Gate(4).value.zone, Gate(4).known_at)
  IN IF touch = 0 THEN Boundary + 1 ELSE hours[touch].close_time
WaitedFor(i) ==
  CASE i = 5 -> TouchTime + PoiTimeout * HourSize
    [] i = 6 -> Gate(5).known_at + DisplacementWindow * HourSize
    [] i = 7 -> Gate(6).known_at
    [] i = 8 -> Gate(6).known_at + (2 + FvgWait) * HourSize
    [] i = 9 -> Gate(8).known_at
Settled(i) ==
  /\ PassedUpTo(i - 1)
  /\ Gate(i).status = "PASS" \/ (Gate(i).status = "FAIL" /\ WaitedFor(i) <= report.boundary)

\* As long as the order block stays the point of interest, a gate that has
\* passed goes on passing, and one that failed after all its waiting never
\* passes: no later bar revises a verdict.
VerdictsStand ==
  [][pc = "analyze" /\ report # NoReport /\ PassedUpTo(4) /\ Gate(4)' = Gate(4) =>
       \A i \in 5..Len(Gates) : Settled(i) => Gate(i)' = Gate(i)]_vars

\* Every ingestion ends, whatever open times the exchange answers.
IngestionEnds == pc = "fetch" ~> pc # "fetch"
================================================================================
