----------------------------- MODULE FindBlock -----------------------------
(***************************************************************************)
(* FindBlockByTimestamp and binarySearch (src/distributer/util.go): the    *)
(* block of a timestamp, for cycles that are measured in seconds and for   *)
(* the daily liquidity.  It waits until the chain has passed the           *)
(* timestamp, jumps back by estimated strides until it is before it, and   *)
(* searches between the last two stops.  Each step is one header request.  *)
(***************************************************************************)
EXTENDS Integers

CONSTANTS
  MaxHead,        \* bound: the chain grows up to here
  MaxTime,        \* bound: timestamps of blocks and requests
  AvgBlockTime    \* params.GetAverageBlockTime()

ASSUME FindBlockAssumption ==
  /\ MaxHead \in Nat
  /\ MaxTime \in Nat
  /\ AvgBlockTime \in Nat \ {0}

Blocks == 0 .. MaxHead
Times  == 0 .. MaxTime

VARIABLES
  time,           \* time[b]: timestamp of block b
  head,           \* latest block
  timestamp,      \* the argument
  pc, blockNumber, high, low,
  result          \* the block returned

chain == <<time, head>>
vars  == <<chain, timestamp, pc, blockNumber, high, low, result>>

\* Every block is younger than its parent: a rule of the chain.
Increasing == \A a, b \in Blocks : a < b => time[a] < time[b]

Init ==
  /\ time \in [Blocks -> Times]
  /\ Increasing
  /\ head \in Blocks
  /\ timestamp \in Times
  /\ pc = "wait"
  /\ blockNumber = 0 /\ high = 0 /\ low = 0 /\ result = 0

\* Mutant: no wait for the chain to pass the timestamp.
LatestAtOnce ==
  /\ pc = "wait"
  /\ pc' = "back"
  /\ blockNumber' = head /\ high' = head
  /\ UNCHANGED <<chain, timestamp, low, result>>

\* Mutant: it starts with the block that is still being made.
LatestPending ==
  /\ pc = "wait"
  /\ time[head] >= timestamp /\ head < MaxHead
  /\ pc' = "back"
  /\ blockNumber' = head + 1 /\ high' = head + 1
  /\ UNCHANGED <<chain, timestamp, low, result>>

\* The latest header is asked for until it is not before the timestamp.
LatestReached ==
  /\ pc = "wait"
  /\ time[head] >= timestamp
  /\ pc' = "back"
  /\ blockNumber' = head /\ high' = head
  /\ UNCHANGED <<chain, timestamp, low, result>>

Return(b) == pc' = "done" /\ result' = b

\* Mutant: the estimate is not rounded up.
CountRoundedDown == (time[blockNumber] - timestamp) \div AvgBlockTime

CountOfBlocks == (time[blockNumber] - timestamp) \div AvgBlockTime + 1

Earlier ==
  IF blockNumber - CountOfBlocks <= 0 THEN 0 ELSE blockNumber - CountOfBlocks

\* One turn of the loop that goes back by the estimated number of blocks.
GoBack ==
  /\ pc = "back"
  /\ \/ /\ time[blockNumber] = timestamp
        /\ Return(blockNumber)
        /\ UNCHANGED <<blockNumber, high, low>>
     \/ /\ time[blockNumber] > timestamp
        /\ high' = blockNumber
        /\ IF blockNumber = 0
             THEN Return(0) /\ UNCHANGED <<blockNumber, low>>
             ELSE blockNumber' = Earlier /\ UNCHANGED <<pc, low, result>>
     \/ /\ time[blockNumber] < timestamp
        /\ low' = blockNumber
        /\ pc' = "search"
        /\ UNCHANGED <<blockNumber, high, result>>
  /\ UNCHANGED <<chain, timestamp>>

Mid == (low + high) \div 2

\* binarySearch
Search ==
  /\ pc = "search"
  /\ \/ /\ low < high /\ time[Mid] = timestamp
        /\ Return(Mid)
        /\ UNCHANGED <<high, low>>
     \/ /\ low < high /\ time[Mid] > timestamp
        /\ high' = Mid
        /\ UNCHANGED <<pc, low, result>>
     \/ /\ low < high /\ time[Mid] < timestamp
        /\ low' = Mid + 1
        /\ UNCHANGED <<pc, high, result>>
     \/ /\ low >= high
        /\ Return(low)
        /\ UNCHANGED <<high, low>>
  /\ UNCHANGED <<chain, timestamp, blockNumber>>

NewBlock ==
  /\ head < MaxHead
  /\ head' = head + 1
  /\ UNCHANGED <<time, timestamp, pc, blockNumber, high, low, result>>

Next ==
  \/ LatestReached
  \/ GoBack
  \/ Search
  \/ NewBlock

Spec == /\ Init /\ [][Next]_vars
        /\ WF_vars(LatestReached \/ GoBack \/ Search) /\ WF_vars(NewBlock)

----------------------------------------------------------------------------
\* All block numbers belong to the chain: the subtraction never underflows.
TypeOK ==
  /\ time \in [Blocks -> Times] /\ Increasing
  /\ head \in Blocks
  /\ timestamp \in Times
  /\ pc \in {"wait", "back", "search", "done"}
  /\ blockNumber \in Blocks /\ high \in Blocks /\ low \in Blocks /\ result \in Blocks

\* The block found is the first one that is not before the timestamp, however far
\* the estimated strides go and whatever the chain grows meanwhile.
FindsFirstBlock ==
  pc = "done" =>
    /\ time[result] >= timestamp
    /\ \A b \in Blocks : b < result => time[b] < timestamp

\* No header beyond the latest block is ever asked for: such a request would fail
\* and be repeated for ever.
AsksForKnownBlocks ==
  /\ pc = "back" => blockNumber <= head
  /\ pc = "search" => (IF low < high THEN Mid ELSE low) <= head

\* The search stays between a block that is not before the timestamp, and known,
\* and the first block that may be; the jumps back never pass the upper end.
Bracket ==
  /\ pc = "back" => blockNumber <= high
  /\ pc \in {"back", "search"} => time[high] >= timestamp /\ high <= head
  /\ pc = "search" => low <= high /\ \A b \in Blocks : b < low => time[b] < timestamp

\* The inductive invariant.
IInv == TypeOK /\ Bracket /\ FindsFirstBlock

\* The search comes to its end once the chain has passed the timestamp.
Returns == time[MaxHead] >= timestamp ~> pc = "done"
=============================================================================
