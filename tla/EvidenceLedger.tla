---------------------------- MODULE EvidenceLedger -----------------------------
(* What the analysis side promises its readers: an hourly boundary is taken by *)
(* at most one analysis run, a run takes at most one boundary, and once its    *)
(* evidence is published it stays, complete, for ever.  No clean-up, retry,    *)
(* crash or power loss shows.                                                  *)
EXTENDS Integers

CONSTANTS Boundary, Run

VARIABLE ledger   \* Boundary -> [state, run]

NoRun == "none"
Open == [state |-> "open", run |-> NoRun]
Taken(r) == [state |-> "claimed", run |-> r]
Evidence(r) == [state |-> "evidence", run |-> r]

LedgerInit == ledger = [b \in Boundary |-> Open]

Claim(b, r) ==
  /\ ledger[b] = Open
  /\ \A c \in Boundary : ledger[c].run # r
  /\ ledger' = [ledger EXCEPT ![b] = Taken(r)]

Publish(b, r) ==
  /\ ledger[b] = Taken(r)
  /\ ledger' = [ledger EXCEPT ![b] = Evidence(r)]

LedgerNext == \E b \in Boundary, r \in Run : Claim(b, r) \/ Publish(b, r)

LedgerSpec == LedgerInit /\ [][LedgerNext]_ledger
================================================================================
