------------------------------ MODULE Pagination -------------------------------
(* BinanceClient.fetch_1m with its retried requests, and the exchange as the   *)
(* client may meet it: down, short of a minute, answering fewer minutes than   *)
(* it was asked for, stuck on minutes before the cursor or handing out the     *)
(* minute that is still open.  Bars are identified by their minute.            *)
EXTENDS Integers, FiniteSets, FiniteSetsExt

CONSTANTS
  Limit,    \* minutes of a full page, 1500 in the code
  Retries,  \* client.retries
  Mood,     \* the ways the exchange can misbehave, of the ones below
  NoFetch   \* no request has been made yet

ASSUME PageAssumption == Limit \in Nat \ {0} /\ Retries \in Nat
ASSUME MoodAssumption == Mood \subseteq {"honest", "lossy", "stuck", "open", "down"}

VARIABLES
  fetch,     \* "asking", "done" or "raised"
  request,   \* the minutes asked for: [start, end]
  cursor,    \* local variable "cursor"
  rows,      \* the minutes in local variable "rows"
  repeated,  \* whether a minute is in "rows" more than once
  attempt,   \* local variable "attempt" of _get
  mood       \* what the exchange is like during this fetch

pageVars == <<fetch, request, cursor, rows, repeated, attempt, mood>>

Minute(first, last) == Max({0, first})..last

Honest == Minute(cursor, Min({request.end, Max({0, cursor}) + Limit - 1}))

\* The answers to one request, in ascending order: a lossy or flaky exchange
\* can also answer well, a stuck one may only do so for the first page.
Pages ==
  LET page == Honest
      first == Min(page)
      last == Max(page)
  IN CASE mood = "lossy" ->
            {page, {}} \cup {page \ {m} : m \in {first, (first + last) \div 2, last}}
       [] mood = "stuck" -> (IF cursor = request.start THEN {page} ELSE {})
                              \cup {Minute(cursor - Limit, cursor - 1)}
       [] mood = "open" -> {page, page \cup {request.end + 1}}
       [] OTHER -> {page}

--------------------------------------------------------------------------------
PagesInit ==
  /\ fetch = "done"
  /\ request = NoFetch
  /\ cursor = 0 /\ rows = {} /\ repeated = FALSE /\ attempt = 0 /\ mood = "honest"

\* The invocation is over and its locals are gone.
EndFetch ==
  /\ fetch' = "done"
  /\ request' = NoFetch
  /\ cursor' = 0 /\ rows' = {} /\ repeated' = FALSE /\ attempt' = 0 /\ mood' = "honest"

BeginFetch(start, end) ==
  /\ request' = [start |-> start, end |-> end]
  /\ cursor' = start
  /\ fetch' = IF start <= end THEN "asking" ELSE "done"
  /\ rows' = {}
  /\ repeated' = FALSE
  /\ attempt' = 0
  /\ mood' \in Mood

\* Variant: a page that does not advance is simply asked for again.
Answer_MayNotAdvance ==
  /\ fetch = "asking"
  /\ \E page \in Pages :
       LET next == IF page = {} THEN cursor ELSE Max(page) + 1
       IN /\ rows' = rows \cup page
          /\ repeated' = (repeated \/ rows \cap page # {})
          /\ cursor' = IF next > cursor THEN next ELSE cursor
          /\ fetch' = IF page = {} \/ Cardinality(page) < Limit \/ next > request.end THEN "done"
                      ELSE "asking"
  /\ attempt' = 0
  /\ UNCHANGED <<request, mood>>

\* A page: the rows are kept, the cursor goes behind the last one, and a short
\* page or the end of the range is the last one.
Answer ==
  /\ fetch = "asking"
  /\ \E page \in Pages :
       LET next == IF page = {} THEN cursor ELSE Max(page) + 1
       IN /\ rows' = rows \cup page
          /\ repeated' = (repeated \/ rows \cap page # {})
          /\ cursor' = IF next > cursor THEN next ELSE cursor
          /\ fetch' = IF page = {} THEN "done"
                      ELSE IF next <= cursor THEN "raised"
                      ELSE IF Cardinality(page) < Limit \/ next > request.end THEN "done"
                      ELSE "asking"
  /\ attempt' = 0
  /\ UNCHANGED <<request, mood>>

\* _get tries again until its retries are used up, and then raises.
RequestFails ==
  /\ fetch = "asking"
  /\ mood = "down"
  /\ IF attempt = Retries THEN fetch' = "raised" /\ UNCHANGED attempt
                          ELSE attempt' = attempt + 1 /\ UNCHANGED fetch
  /\ UNCHANGED <<request, cursor, rows, repeated, mood>>

PageStep == Answer \/ RequestFails

================================================================================
