----------------------------- MODULE DayLedger -----------------------------
(***************************************************************************)
(* What the daily liquidity promises: a ledger per exchange with one entry *)
(* for every day from the exchange's first one on, no day left out, no     *)
(* entry ever changed, and each taken at the first block of its day.       *)
(***************************************************************************)
EXTENDS Integers, Sequences, FiniteSetsExt

CONSTANT DayLen   \* secondsPerDay

VARIABLES
  time,         \* time[b]: timestamp of block b of the chain
  created,      \* created[e]: block in which exchange e was created
  ledger        \* ledger[e]: blocks, one per day

DayBegin(t) == t - (t % DayLen)
Day(e, i)   == DayBegin(time[created[e]]) + (i - 1) * DayLen

\* The blocks of a day and later
From(t) == {b \in DOMAIN time : time[b] >= t}

Exchanges == DOMAIN created

Init == ledger = [e \in Exchanges |-> <<>>]

Enter(e) ==
  LET blocks == From(Day(e, Len(ledger[e]) + 1))
  IN  blocks /= {} /\ ledger' = [ledger EXCEPT ![e] = Append(@, Min(blocks))]

Next == (\E e \in Exchanges : Enter(e)) /\ UNCHANGED <<time, created>>

Spec == Init /\ [][Next]_<<time, created, ledger>>
=============================================================================
