------------------------ MODULE DailyLiquidityProofs ------------------------
(***************************************************************************)
(* Theorems about the daily liquidity (DailyLiquidity), for every chain,   *)
(* any number of exchanges, crashes, outages and failed requests: the      *)
(* search that the worker starts again and again finds the first block of  *)
(* the day, and the records implement the ledger of DayLedger.             *)
(***************************************************************************)
EXTENDS DailyLiquidity, FiniteSetTheorems, TLAPS

----------------------------------------------------------------------------
\* One search: FindBlockByTimestamp

\* The middle of two numbers lies between them, and below the larger one: what
\* makes binarySearch shrink its interval and stay inside it.
LEMMA MidBetween ==
  ASSUME NEW a \in Nat, NEW b \in Nat, a < b
  PROVE  (a + b) \div 2 \in Nat /\ a <= (a + b) \div 2 /\ (a + b) \div 2 < b
  BY Z3

\* The stride back of FindBlockByTimestamp is at least one block, so that it never
\* leads beyond the block it starts from.
LEMMA EarlierIsEarlier ==
  ASSUME TypeOK, time[blockNumber] > timestamp
  PROVE  Earlier \in Blocks /\ Earlier <= blockNumber
<1>1. time[blockNumber] \in Nat /\ timestamp \in Nat /\ blockNumber \in Nat
      /\ blockNumber <= MaxHead
  BY FindBlockAssumption DEF TypeOK, Blocks, Times
<1>2. \A x, d \in Nat : d > 0 => x \div d \in Nat
  BY Z3
<1>3. CountOfBlocks \in Nat /\ CountOfBlocks >= 1
  BY <1>1, <1>2, FindBlockAssumption DEF CountOfBlocks
<1> QED
  BY <1>1, <1>3, FindBlockAssumption DEF Earlier, Blocks

\* The invariant holds when FindBlockByTimestamp is called.
LEMMA InitIInv == Init => IInv
  BY FindBlockAssumption
  DEF Init, IInv, TypeOK, Bracket, FindsFirstBlock, Blocks, Times

\* The first loop of FindBlockByTimestamp ends with a block that is not before the
\* timestamp.
LEMMA LatestReachedStep == IInv /\ LatestReached => IInv'
  BY FindBlockAssumption
  DEF IInv, TypeOK, Bracket, FindsFirstBlock, LatestReached, chain, Blocks, Times, Increasing

\* The second loop keeps the block it came from as the upper end, and finds the
\* lower end or the block itself.
LEMMA GoBackStep == IInv /\ GoBack => IInv'
<1> SUFFICES ASSUME IInv, GoBack PROVE IInv'
  OBVIOUS
<1> USE FindBlockAssumption DEF IInv
<1>t. /\ blockNumber \in Nat /\ high \in Nat /\ head \in Nat /\ timestamp \in Nat
      /\ time[blockNumber] \in Nat
      /\ \A b \in Blocks : b \in Nat /\ time[b] \in Nat
  BY DEF TypeOK, Blocks, Times
<1>b. blockNumber <= high /\ high <= head /\ time[high] >= timestamp
  BY DEF GoBack, Bracket
<1>1. CASE time[blockNumber] = timestamp
  BY <1>1, <1>t DEF GoBack, Return, chain, TypeOK, Bracket, FindsFirstBlock, Increasing, Blocks
<1>2. CASE time[blockNumber] > timestamp /\ blockNumber = 0
  BY <1>2, <1>t DEF GoBack, Return, chain, TypeOK, Bracket, FindsFirstBlock, Increasing, Blocks
<1>3. CASE time[blockNumber] > timestamp /\ blockNumber # 0
  <2>1. Earlier \in Blocks /\ Earlier <= blockNumber
    BY <1>3, EarlierIsEarlier
  <2>2. /\ high' = blockNumber /\ blockNumber' = Earlier
        /\ UNCHANGED <<time, head, timestamp, pc, low, result>>
        /\ pc = "back"
    BY <1>3, <1>t DEF GoBack, chain
  <2> QED
    BY <1>3, <1>t, <1>b, <2>1, <2>2 DEF TypeOK, Bracket, FindsFirstBlock, Increasing, Blocks
<1>4. CASE time[blockNumber] < timestamp
  <2>1. /\ low' = blockNumber /\ pc' = "search"
        /\ UNCHANGED <<time, head, timestamp, blockNumber, high, result>>
    BY <1>4, <1>t DEF GoBack, chain
  <2>2. \A b \in Blocks : b < blockNumber => time[b] < timestamp
    BY <1>4, <1>t DEF TypeOK, Increasing
  <2> QED
    BY <1>4, <1>t, <1>b, <2>1, <2>2 DEF TypeOK, Bracket, FindsFirstBlock, Increasing, Blocks
<1> QED
  BY <1>1, <1>2, <1>3, <1>4, <1>t DEF TypeOK

\* binarySearch keeps the bracket and ends where its ends meet.
LEMMA SearchStep == IInv /\ Search => IInv'
<1> SUFFICES ASSUME IInv, Search PROVE IInv'
  OBVIOUS
<1> USE FindBlockAssumption DEF IInv
<1>t. /\ low \in Nat /\ high \in Nat /\ head \in Nat /\ timestamp \in Nat
      /\ high <= MaxHead /\ low \in Blocks
      /\ \A b \in Blocks : b \in Nat /\ time[b] \in Nat
  BY DEF TypeOK, Blocks, Times
<1>b. /\ low <= high /\ high <= head /\ time[high] >= timestamp
      /\ \A b \in Blocks : b < low => time[b] < timestamp
  BY DEF Search, Bracket
<1>m. low < high => /\ Mid \in Blocks /\ Mid \in Nat /\ time[Mid] \in Nat
                    /\ low <= Mid /\ Mid < high /\ Mid + 1 \in Blocks
  BY <1>t, MidBetween DEF Mid, Blocks
<1>i. low < high => \A b \in Blocks : b < Mid => time[b] < time[Mid]
  BY <1>m DEF TypeOK, Increasing
<1>u. UNCHANGED <<time, head, timestamp, blockNumber>> /\ pc = "search"
  BY DEF Search, chain
<1>1. CASE low < high /\ time[Mid] = timestamp /\ Return(Mid) /\ UNCHANGED <<high, low>>
  BY <1>1, <1>t, <1>m, <1>i, <1>u DEF Return, TypeOK, Bracket, FindsFirstBlock, Increasing
<1>2. CASE low < high /\ time[Mid] > timestamp /\ high' = Mid /\ UNCHANGED <<pc, low, result>>
  BY <1>2, <1>t, <1>b, <1>m, <1>u, SMTT(30)
     DEF TypeOK, Bracket, FindsFirstBlock, Increasing, Blocks
<1>3. CASE /\ low < high /\ time[Mid] < timestamp /\ low' = Mid + 1
           /\ UNCHANGED <<pc, high, result>>
  <2>1. ASSUME NEW b \in Blocks, b < Mid + 1 PROVE time[b] < timestamp
    <3>1. b \in Nat /\ time[b] \in Nat /\ (b < Mid \/ b = Mid)
      BY <1>3, <1>t, <1>m, <2>1
    <3> QED
      BY <1>3, <1>t, <1>m, <1>i, <3>1
  <2> QED
    BY <1>3, <1>t, <1>b, <1>m, <1>u, <2>1 DEF TypeOK, Bracket, FindsFirstBlock, Increasing, Blocks
<1>4. CASE low >= high /\ Return(low) /\ UNCHANGED <<high, low>>
  <2>1. low = high
    BY <1>4, <1>t, <1>b
  <2> QED
    BY <1>4, <1>t, <1>b, <1>u, <2>1 DEF Return, TypeOK, Bracket, FindsFirstBlock, Increasing, Blocks
<1> QED
  BY <1>1, <1>2, <1>3, <1>4 DEF Search

\* A block that is added behind the search does not disturb it.
LEMMA NewBlockStep == IInv /\ NewBlock => IInv'
  BY FindBlockAssumption
  DEF IInv, TypeOK, Bracket, FindsFirstBlock, NewBlock, Blocks, Times, Increasing

\* The invariant of FindBlockByTimestamp holds in every reachable state.
THEOREM Inductive == Spec => []IInv
<1>1. IInv /\ UNCHANGED vars => IInv'
  BY DEF IInv, TypeOK, Bracket, FindsFirstBlock, vars, chain, Increasing
<1>2. IInv /\ [Next]_vars => IInv'
  BY <1>1, LatestReachedStep, GoBackStep, SearchStep, NewBlockStep DEF Next
<1> QED
  BY InitIInv, <1>2, PTL DEF Spec

\* FindBlockByTimestamp returns the first block that is not before the timestamp.
THEOREM FindsFirst == Spec => []FindsFirstBlock
<1>1. IInv => FindsFirstBlock
  BY DEF IInv
<1> QED
  BY Inductive, <1>1, PTL

\* It asks only for headers the chain has.
THEOREM AsksForKnown == Spec => []AsksForKnownBlocks
<1>1. IInv => AsksForKnownBlocks
  <2> SUFFICES ASSUME IInv PROVE AsksForKnownBlocks
    OBVIOUS
  <2>1. low \in Nat /\ high \in Nat /\ head \in Nat /\ blockNumber \in Nat
    BY FindBlockAssumption DEF IInv, TypeOK, Blocks
  <2> QED
    BY <2>1, MidBetween DEF IInv, Bracket, AsksForKnownBlocks, Mid
<1> QED
  BY Inductive, <1>1, PTL

----------------------------------------------------------------------------
\* The worker: the inductive invariant

\* The i-th day of an exchange: the first is that of its creation.
DayOf(e, i) == getDayBegin(time[setup.created[e]]) + (i - 1) * DayLen

DailyTypes ==
  /\ setup \in Setups
  /\ now \in Times
  /\ records \in [Exchanges -> [Days -> Blocks \cup {Nil}]]
  /\ cur \in Nat \ {0}
  /\ todayBegin \in Nat /\ todayBegin <= now
  /\ wpc \in {"off", "day", "exchange", "creation", "find", "save", "sleep", "boot"}

\* What is recorded are the first days of an exchange, none left out ...
SegmentInv ==
  \A e \in Exchanges :
    Recorded(e) = {DayOf(e, i) : i \in 1 .. Cardinality(Recorded(e))}

\* ... each with the first block that is not before it.
FirstBlockInv ==
  \A e \in Exchanges : \A d \in Recorded(e) :
    /\ time[records[e][d]] >= d
    /\ \A b \in Blocks : b < records[e][d] => time[b] < d

\* A day that is recorded, or the next one
Wanted(e, t) == \E k \in 1 .. Cardinality(Recorded(e)) + 1 : t = DayOf(e, k)

\* The worker looks for the block of a day that is recorded, or of the next one.
WorkerInv ==
  /\ wpc \in {"creation", "find", "save"} => cur \in Exchanges
  /\ wpc \in {"find", "save"} => timestamp <= todayBegin /\ Wanted(cur, timestamp)
  /\ wpc = "save" => pc = "done"

DailyInv == IInv /\ DailyTypes /\ SegmentInv /\ FirstBlockInv /\ WorkerInv

----------------------------------------------------------------------------
\* Days

\* A product of counts and lengths is a length, and grows with the count.
LEMMA Lengths ==
  ASSUME NEW u \in Nat, u > 0
  PROVE  /\ \A k \in Nat : k * u \in Nat /\ (k * u) % u = 0 /\ (k + 1) * u = k * u + u
         /\ \A k, j \in Nat : k < j => k * u < j * u
<1>1. \A k \in Nat : k * u \in Nat /\ (k * u) % u = 0 /\ (k + 1) * u = k * u + u
  BY Z3
<1>2. ASSUME NEW k \in Nat, NEW j \in Nat, k < j PROVE k * u < j * u
  BY <1>2, Z3
<1> QED
  BY <1>1, <1>2

\* What is left of a number below the last whole multiple.
LEMMA Rounded ==
  ASSUME NEW t \in Nat, NEW u \in Nat, u > 0
  PROVE  /\ t - (t % u) \in Nat /\ t - (t % u) <= t
         /\ \E k \in Nat : t - (t % u) = k * u
<1>1. t \div u \in Nat /\ t % u \in Nat /\ t = u * (t \div u) + (t % u)
  BY Z3
<1>2. u * (t \div u) = (t \div u) * u /\ (t \div u) * u \in Nat
  BY <1>1, Z3
<1>3. t - (t % u) = (t \div u) * u
  BY <1>1, <1>2
<1> QED
  BY <1>1, <1>2, <1>3

\* Midnight before a time: a whole number of days, not later than the time.
LEMMA Midnight ==
  ASSUME NEW t \in Nat
  PROVE  /\ getDayBegin(t) \in Nat /\ getDayBegin(t) <= t
         /\ \E k \in Nat : getDayBegin(t) = k * DayLen
<1>1. DayLen \in Nat /\ DayLen > 0
  BY DailyAssumption
<1> QED
  BY <1>1, Rounded DEF getDayBegin

\* A whole number of days is its own midnight, and the other way round.
LEMMA WholeDays ==
  ASSUME NEW t \in Nat
  PROVE  /\ t % DayLen = 0 => getDayBegin(t) = t
         /\ (\E k \in Nat : t = k * DayLen) => t % DayLen = 0
<1>1. DayLen \in Nat /\ DayLen > 0
  BY DailyAssumption
<1>2. t % DayLen = 0 => getDayBegin(t) = t
  BY <1>1 DEF getDayBegin
<1>3. ASSUME NEW k \in Nat, t = k * DayLen PROVE t % DayLen = 0
  BY <1>1, <1>3, Lengths
<1> QED
  BY <1>2, <1>3

\* The days of an exchange begin at midnight, one after the other.
LEMMA DaysOf ==
  ASSUME IInv, DailyTypes, NEW e \in Exchanges
  PROVE  /\ \A i \in Nat \ {0} : /\ DayOf(e, i) \in Nat /\ DayOf(e, i) % DayLen = 0
                                 /\ DayOf(e, i + 1) = DayOf(e, i) + DayLen
         /\ \A i, j \in Nat \ {0} : i < j => DayOf(e, i) < DayOf(e, j)
<1>d. DayLen \in Nat /\ DayLen > 0 /\ IsSetup(setup)
  BY DailyAssumption DEF DailyTypes
<1>1. time[setup.created[e]] \in Nat
  BY <1>d, FindBlockAssumption DEF IsSetup, Exchanges, IInv, TypeOK, Times
<1> DEFINE first == getDayBegin(time[setup.created[e]])
<1>2. PICK m \in Nat : first = m * DayLen
  BY <1>1, Midnight
<1>3. first \in Nat
  BY <1>1, Midnight
<1>4. ASSUME NEW i \in Nat \ {0}
      PROVE  /\ DayOf(e, i) \in Nat /\ DayOf(e, i) % DayLen = 0
             /\ DayOf(e, i + 1) = DayOf(e, i) + DayLen
  <2>1. i - 1 \in Nat /\ (i - 1) + 1 = i /\ (i + 1) - 1 = i
    OBVIOUS
  <2>2. (i - 1) * DayLen \in Nat /\ i * DayLen = (i - 1) * DayLen + DayLen
    BY <1>d, <2>1, Lengths
  <2>3. DayOf(e, i) = first + (i - 1) * DayLen /\ DayOf(e, i + 1) = first + i * DayLen
    BY <2>1 DEF DayOf
  <2>4. first + (i - 1) * DayLen = (m + (i - 1)) * DayLen
    <3>1. m * DayLen + (i - 1) * DayLen = (m + (i - 1)) * DayLen
      BY <1>d, <2>1, Z3
    <3> QED
      BY <1>2, <3>1
  <2>5. m + (i - 1) \in Nat
    BY <2>1
  <2>6. DayOf(e, i) \in Nat
    <3> HIDE DEF first
    <3> QED
      BY <1>3, <2>2, <2>3
  <2>7. DayOf(e, i) % DayLen = 0
    BY <2>3, <2>4, <2>5, <2>6, WholeDays
  <2> HIDE DEF first
  <2> QED
    BY <1>3, <1>d, <2>2, <2>3, <2>6, <2>7
<1>5. ASSUME NEW i \in Nat \ {0}, NEW j \in Nat \ {0}, i < j PROVE DayOf(e, i) < DayOf(e, j)
  <2>1. i - 1 \in Nat /\ j - 1 \in Nat /\ i - 1 < j - 1
    BY <1>5
  <2>2. (i - 1) * DayLen \in Nat /\ (j - 1) * DayLen \in Nat
        /\ (i - 1) * DayLen < (j - 1) * DayLen
    BY <1>d, <2>1, Lengths
  <2>3. DayOf(e, i) = first + (i - 1) * DayLen /\ DayOf(e, j) = first + (j - 1) * DayLen
    BY DEF DayOf
  <2> HIDE DEF first
  <2> QED
    BY <1>3, <2>2, <2>3
<1> QED
  BY <1>4, <1>5

\* Finitely many days are recorded.
LEMMA FiniteDays ==
  ASSUME NEW e
  PROVE  IsFiniteSet(Recorded(e)) /\ Cardinality(Recorded(e)) \in Nat
         /\ (Recorded(e) /= {} => Cardinality(Recorded(e)) >= 1)
<1>1. MaxTime \in Nat
  BY FindBlockAssumption
<1>2. IsFiniteSet(0 .. MaxTime)
  BY <1>1, FS_Interval
<1>3. Recorded(e) \in SUBSET (0 .. MaxTime)
  BY DEF Recorded, Days, Times
<1>4. IsFiniteSet(Recorded(e))
  BY <1>2, <1>3, FS_Subset
<1> QED
  BY <1>4, FS_CardinalityType, FS_EmptySet

\* The latest record of an exchange is that of its last recorded day, and the day after
\* it is the next one.
LEMMA Latest ==
  ASSUME IInv, DailyTypes, SegmentInv, NEW e \in Exchanges, Recorded(e) /= {}
  PROVE  LET n == Cardinality(Recorded(e))
         IN  /\ n \in Nat /\ n >= 1
             /\ getDayBegin(LatestLiquidity(e)) + DayLen = DayOf(e, n + 1)
<1> DEFINE n == Cardinality(Recorded(e))
<1>1. n \in Nat /\ n >= 1
  BY FiniteDays
<1>2. Recorded(e) = {DayOf(e, i) : i \in 1 .. n}
  BY DEF SegmentInv
<1> HIDE DEF n
<1>3. DayOf(e, n) \in Recorded(e)
  BY <1>1, <1>2
<1>4. \A i \in 1 .. n : DayOf(e, i) \in Nat /\ DayOf(e, i) <= DayOf(e, n)
  <2> TAKE i \in 1 .. n
  <2>1. i \in Nat \ {0} /\ n \in Nat \ {0} /\ (i = n \/ i < n)
    BY <1>1
  <2>2. DayOf(e, i) \in Nat /\ DayOf(e, n) \in Nat
    BY <2>1, DaysOf
  <2>3. i < n => DayOf(e, i) < DayOf(e, n)
    BY <2>1, DaysOf
  <2> QED
    BY <2>1, <2>2, <2>3
<1>5. \A c \in Recorded(e) : c \in Nat /\ c <= DayOf(e, n)
  BY <1>2, <1>4
<1>6. LatestLiquidity(e) = DayOf(e, n)
  <2>1. /\ LatestLiquidity(e) \in Recorded(e)
        /\ \A c \in Recorded(e) : c <= LatestLiquidity(e)
    BY <1>3, <1>5 DEF LatestLiquidity
  <2> DEFINE l == LatestLiquidity(e)
  <2>2. l \in Nat /\ l <= DayOf(e, n) /\ DayOf(e, n) <= l /\ DayOf(e, n) \in Nat
    BY <1>3, <1>5, <2>1
  <2> HIDE DEF l
  <2>3. l = DayOf(e, n)
    BY <2>2
  <2> QED
    BY <2>3 DEF l
<1>7. n \in Nat \ {0} /\ DayOf(e, n) \in Nat /\ DayOf(e, n) % DayLen = 0
      /\ DayOf(e, n + 1) = DayOf(e, n) + DayLen
  <2>1. n \in Nat \ {0}
    BY <1>1
  <2> QED
    BY <2>1, DaysOf
<1>8. getDayBegin(DayOf(e, n)) = DayOf(e, n)
  BY <1>7, WholeDays
<1> QED
  BY <1>1, <1>6, <1>7, <1>8 DEF n

----------------------------------------------------------------------------
\* The search of FindBlockByTimestamp inside the worker

\* The chain is only extended, and the configuration stays.
LEMMA Stays ==
  ASSUME [DailyNext]_dailyVars PROVE time' = time /\ setup' = setup
<1>1. CASE UNCHANGED dailyVars
  BY <1>1 DEF dailyVars, vars, chain
<1>2. CASE UpdateLiquidityDaily
  BY <1>2 DEF UpdateLiquidityDaily, StartDay, FindLatestLiquidity, FromCreation,
              FindBlockByTimestamp, QueryLiquidity, AddLiquidity, EndDay, Sleep, vars, chain,
              LatestReached, GoBack, Search
<1>3. CASE Boot \/ Crash \/ GrowChain \/ Tick
  BY <1>3 DEF Boot, Crash, GrowChain, Tick, NewBlock, vars, chain
<1>4. CASE CheckSession \/ Outage \/ ServerBack
  BY <1>4 DEF CheckSession, Outage, ServerBack, Elsewhere, vars, chain
<1> QED
  BY <1>1, <1>2, <1>3, <1>4 DEF DailyNext

\* A step that does not touch the search keeps its invariant.
LEMMA SearchStays == ASSUME IInv, UNCHANGED vars PROVE IInv'
  BY DEF IInv, TypeOK, Bracket, FindsFirstBlock, vars, chain, Increasing

\* A search that is given up is done, with the first block.
LEMMA SearchGivenUp == ASSUME IInv, NoSearch, UNCHANGED chain PROVE IInv'
<1>1. 0 \in Blocks /\ 0 \in Times /\ time[0] \in Nat /\ MaxHead \in Nat /\ MaxTime \in Nat
  BY FindBlockAssumption DEF IInv, TypeOK, Blocks, Times
<1>2. \A b \in Blocks : ~(b < 0)
  BY <1>1 DEF Blocks
<1> QED
  BY <1>1, <1>2 DEF IInv, TypeOK, Bracket, FindsFirstBlock, NoSearch, chain, Increasing

\* A search for another time begins by waiting.
LEMMA SearchBegins ==
  ASSUME IInv, NEW t \in Times, UpdateDate(t), UNCHANGED chain PROVE IInv'
  BY DEF IInv, TypeOK, Bracket, FindsFirstBlock, UpdateDate, chain, Increasing

\* Going on with a day keeps the search sound: a day after today is not looked for.
LEMMA FromSearch ==
  ASSUME IInv, DailyTypes, NEW t \in Nat, From(t), UNCHANGED chain PROVE IInv'
<1>0. todayBegin \in Nat /\ now \in Nat /\ todayBegin <= now /\ now <= MaxTime /\ MaxTime \in Nat
  BY FindBlockAssumption DEF DailyTypes, Times
<1>1. CASE t > todayBegin
  <2>1. UNCHANGED vars
    BY <1>1 DEF From, NextExchange, search, vars
  <2> QED
    BY <2>1, SearchStays
<1>2. CASE ~(t > todayBegin)
  <2>1. UpdateDate(t)
    BY <1>2 DEF From
  <2>2. t \in Times
    BY <1>0, <1>2 DEF Times
  <2> QED
    BY <2>1, <2>2, SearchBegins
<1> QED
  BY <1>1, <1>2

\* The days the worker goes on with
LEMMA WorkerDays ==
  ASSUME IInv, DailyTypes, SegmentInv, WorkerInv
  PROVE  /\ wpc = "exchange" /\ cur \in Exchanges /\ Recorded(cur) /= {} =>
              /\ getDayBegin(LatestLiquidity(cur)) + DayLen \in Nat
              /\ Wanted(cur, getDayBegin(LatestLiquidity(cur)) + DayLen)
         /\ wpc = "creation" => /\ getDayBegin(time[setup.created[cur]]) \in Nat
                                /\ Wanted(cur, getDayBegin(time[setup.created[cur]]))
         /\ wpc \in {"find", "save"} => timestamp \in Times /\ timestamp + DayLen \in Nat
<1>1. ASSUME wpc = "exchange", cur \in Exchanges, Recorded(cur) /= {}
      PROVE  /\ getDayBegin(LatestLiquidity(cur)) + DayLen \in Nat
             /\ Wanted(cur, getDayBegin(LatestLiquidity(cur)) + DayLen)
  <2> DEFINE n == Cardinality(Recorded(cur))
  <2>1. n \in Nat /\ n >= 1 /\ getDayBegin(LatestLiquidity(cur)) + DayLen = DayOf(cur, n + 1)
    BY <1>1, Latest
  <2>2. n + 1 \in Nat \ {0} /\ n + 1 \in 1 .. n + 1
    BY <2>1
  <2>3. DayOf(cur, n + 1) \in Nat
    BY <1>1, <2>2, DaysOf
  <2> QED
    BY <2>1, <2>2, <2>3 DEF Wanted
<1>2. ASSUME wpc = "creation"
      PROVE  /\ getDayBegin(time[setup.created[cur]]) \in Nat
             /\ Wanted(cur, getDayBegin(time[setup.created[cur]]))
  <2>1. cur \in Exchanges /\ 1 \in Nat \ {0}
    BY <1>2 DEF WorkerInv
  <2>2. DayOf(cur, 1) \in Nat
    BY <2>1, DaysOf
  <2>3. DayLen \in Nat /\ (1 - 1) * DayLen = 0
    BY DailyAssumption
  <2>4. time[setup.created[cur]] \in Nat
    BY <2>1, DailyAssumption, FindBlockAssumption
       DEF DailyTypes, IsSetup, Exchanges, IInv, TypeOK, Times
  <2>5. getDayBegin(time[setup.created[cur]]) \in Nat
    BY <2>4, Midnight
  <2>6. DayOf(cur, 1) = getDayBegin(time[setup.created[cur]])
    BY <2>3, <2>5 DEF DayOf
  <2>7. Cardinality(Recorded(cur)) \in Nat
    BY FiniteDays
  <2>8. 1 \in 1 .. Cardinality(Recorded(cur)) + 1
    BY <2>7
  <2> QED
    BY <2>2, <2>6, <2>8 DEF Wanted
<1>3. timestamp \in Times /\ timestamp + DayLen \in Nat
  BY DailyAssumption, FindBlockAssumption DEF IInv, TypeOK, Times
<1> QED
  BY <1>1, <1>2, <1>3

\* Every step keeps the invariant of the search.
LEMMA IInvStep ==
  ASSUME IInv, DailyTypes, SegmentInv, WorkerInv, [DailyNext]_dailyVars PROVE IInv'
<1>1. CASE UNCHANGED dailyVars
  <2>1. UNCHANGED vars
    BY <1>1 DEF dailyVars
  <2> QED
    BY <2>1, SearchStays
<1>2. CASE FindLatestLiquidity
  <2>1. UNCHANGED chain
    BY <1>2 DEF FindLatestLiquidity
  <2>2. \/ /\ wpc = "exchange" /\ cur \in Exchanges /\ Recorded(cur) /= {}
           /\ From(getDayBegin(LatestLiquidity(cur)) + DayLen)
        \/ UNCHANGED search
        \/ NoSearch
    BY <1>2 DEF FindLatestLiquidity, Panic
  <2>3. UNCHANGED search => UNCHANGED vars
    BY <2>1 DEF search, vars
  <2> QED
    BY <2>1, <2>2, <2>3, WorkerDays, FromSearch, SearchStays, SearchGivenUp
<1>3. CASE FromCreation
  BY <1>3, WorkerDays, FromSearch DEF FromCreation
<1>4. CASE FindBlockByTimestamp
  BY <1>4, LatestReachedStep, GoBackStep, SearchStep DEF FindBlockByTimestamp
<1>5. CASE QueryLiquidity
  <2>1. UNCHANGED chain /\ wpc = "find"
    BY <1>5 DEF QueryLiquidity
  <2>2. UNCHANGED search \/ UpdateDate(timestamp)
    BY <1>5 DEF QueryLiquidity, NextExchange, Retry
  <2>3. UNCHANGED search => UNCHANGED vars
    BY <2>1 DEF search, vars
  <2> QED
    BY <2>1, <2>2, <2>3, WorkerDays, SearchBegins, SearchStays
<1>6. CASE AddLiquidity
  <2>1. UNCHANGED chain /\ wpc = "save"
    BY <1>6 DEF AddLiquidity
  <2>2. From(timestamp + DayLen) \/ UpdateDate(timestamp) \/ NoSearch
    BY <1>6 DEF AddLiquidity, Retry, Panic
  <2> QED
    BY <2>1, <2>2, WorkerDays, FromSearch, SearchBegins, SearchGivenUp
<1>7. CASE StartDay \/ EndDay \/ Sleep \/ Boot \/ Tick \/ CheckSession \/ Outage \/ ServerBack
  <2>1. UNCHANGED vars
    BY <1>7 DEF StartDay, EndDay, Sleep, Boot, Tick, CheckSession, Outage, ServerBack, Elsewhere
  <2> QED
    BY <2>1, SearchStays
<1>8. CASE Crash
  BY <1>8, SearchGivenUp DEF Crash
<1>9. CASE GrowChain
  BY <1>9, NewBlockStep DEF GrowChain
<1> QED
  BY <1>1, <1>2, <1>3, <1>4, <1>5, <1>6, <1>7, <1>8, <1>9 DEF DailyNext, UpdateLiquidityDaily

----------------------------------------------------------------------------
\* A record is written

\* Looking at the same records, the same days are wanted.
LEMMA SameDays ==
  ASSUME time' = time, setup' = setup
  PROVE  /\ Exchanges' = Exchanges
         /\ \A e, i : DayOf(e, i)' = DayOf(e, i)
         /\ records' = records =>
              /\ \A e : Recorded(e)' = Recorded(e)
              /\ \A e, t : Wanted(e, t)' <=> Wanted(e, t)
<1>1. Exchanges' = Exchanges
  BY DEF Exchanges
<1>2. \A e, i : DayOf(e, i)' = DayOf(e, i)
  BY DEF DayOf, getDayBegin
<1>3. ASSUME records' = records
      PROVE  /\ \A e : Recorded(e)' = Recorded(e)
             /\ \A e, t : Wanted(e, t)' <=> Wanted(e, t)
  <2>1. \A e : Recorded(e)' = Recorded(e)
    BY <1>3 DEF Recorded
  <2> QED
    BY <1>2, <2>1 DEF Wanted
<1> QED
  BY <1>1, <1>2, <1>3

\* What AddLiquidity records: the first block of a day that has a record already, which
\* is the same one, or of the day after the last record.
LEMMA Recording ==
  ASSUME DailyInv, wpc = "save"
  PROVE  /\ cur \in Exchanges /\ timestamp \in Days /\ result \in Blocks
         /\ time[result] >= timestamp /\ \A b \in Blocks : b < result => time[b] < timestamp
         /\ LET n == Cardinality(Recorded(cur))
            IN  \/ timestamp \in Recorded(cur) /\ records[cur][timestamp] = result
                \/ timestamp \notin Recorded(cur) /\ timestamp = DayOf(cur, n + 1)
<1> DEFINE n == Cardinality(Recorded(cur))
<1>0. IInv /\ DailyTypes /\ SegmentInv /\ FirstBlockInv /\ WorkerInv
  BY DEF DailyInv
<1>1. cur \in Exchanges /\ pc = "done" /\ timestamp <= todayBegin /\ Wanted(cur, timestamp)
  BY <1>0 DEF WorkerInv
<1>2. n \in Nat
  BY FiniteDays
<1>3. PICK k \in 1 .. n + 1 : timestamp = DayOf(cur, k)
  BY <1>1 DEF Wanted
<1> HIDE DEF n
<1>4. k \in Nat \ {0} /\ (k = n + 1 \/ k \in 1 .. n)
  BY <1>2
<1>5. timestamp \in Nat /\ timestamp % DayLen = 0
  BY <1>0, <1>1, <1>3, <1>4, DaysOf
<1>6. timestamp \in Days
  <2>1. todayBegin <= now /\ now \in 0 .. MaxTime /\ todayBegin \in Nat
    BY <1>0 DEF DailyTypes, Times
  <2>2. timestamp <= MaxTime
    BY <1>1, <1>5, <2>1, FindBlockAssumption
  <2> QED
    BY <1>5, <2>2, FindBlockAssumption DEF Days, Times
<1>7. result \in Blocks /\ time[result] >= timestamp
      /\ \A b \in Blocks : b < result => time[b] < timestamp
  BY <1>0, <1>1 DEF IInv, TypeOK, FindsFirstBlock
<1>8. Recorded(cur) = {DayOf(cur, i) : i \in 1 .. n}
  BY <1>0, <1>1 DEF SegmentInv, n
<1>9. CASE k \in 1 .. n
  <2>1. timestamp \in Recorded(cur)
    BY <1>3, <1>8, <1>9
  <2> DEFINE r == records[cur][timestamp]
  <2>2. r \in Blocks
    BY <1>0, <1>1, <2>1 DEF DailyTypes, Recorded
  <2>3. time[r] >= timestamp /\ \A b \in Blocks : b < r => time[b] < timestamp
    BY <1>0, <1>1, <2>1 DEF FirstBlockInv
  <2>4. time[r] \in Nat /\ time[result] \in Nat /\ r \in Nat /\ result \in Nat
    BY <1>0, <1>7, <2>2, FindBlockAssumption DEF IInv, TypeOK, Times, Blocks
  <2>5. r = result
    <3> HIDE DEF r
    <3> QED
      BY <1>5, <1>7, <2>2, <2>3, <2>4
  <2> QED
    BY <1>1, <1>6, <1>7, <2>1, <2>5
<1>10. CASE k = n + 1
  <2>1. \A i \in 1 .. n : DayOf(cur, i) /= DayOf(cur, n + 1)
    <3> TAKE i \in 1 .. n
    <3>1. i \in Nat \ {0} /\ n + 1 \in Nat \ {0} /\ i < n + 1
      BY <1>2
    <3>2. DayOf(cur, i) < DayOf(cur, n + 1) /\ DayOf(cur, i) \in Nat /\ DayOf(cur, n + 1) \in Nat
      BY <1>0, <1>1, <3>1, DaysOf
    <3> QED
      BY <3>2
  <2>2. timestamp \notin Recorded(cur)
    BY <1>3, <1>8, <1>10, <2>1
  <2> QED
    BY <1>1, <1>3, <1>6, <1>7, <1>10, <2>2 DEF n
<1> QED
  BY <1>4, <1>9, <1>10

\* What the records are afterwards
LEMMA Recorded1 ==
  ASSUME DailyInv, wpc = "save", time' = time, setup' = setup,
         records' = [records EXCEPT ![cur][timestamp] = result]
  PROVE  /\ records' \in [Exchanges -> [Days -> Blocks \cup {Nil}]]
         /\ \A e \in Exchanges : e /= cur => Recorded(e)' = Recorded(e)
         /\ \A e : e = cur => Recorded(e)' = Recorded(e) \cup {timestamp}
         /\ \A e \in Exchanges : \A d \in Recorded(e) : records'[e][d] = records[e][d]
         /\ records'[cur][timestamp] = result
<1>1. cur \in Exchanges /\ timestamp \in Days /\ result \in Blocks /\ result /= Nil
  <2>1. \A b \in Blocks : b /= Nil
    BY FindBlockAssumption DEF Blocks, Nil
  <2> QED
    BY <2>1, Recording
<1>2. records \in [Exchanges -> [Days -> Blocks \cup {Nil}]]
  BY DEF DailyInv, DailyTypes
<1>3. \A e \in Exchanges, d \in Days :
        records'[e][d] = IF e = cur /\ d = timestamp THEN result ELSE records[e][d]
  BY <1>1, <1>2
<1>4. records' \in [Exchanges -> [Days -> Blocks \cup {Nil}]]
  BY <1>1, <1>2
<1>5. \A e \in Exchanges : e /= cur => Recorded(e)' = Recorded(e)
  BY <1>3 DEF Recorded
<1>6. \A e : e = cur => Recorded(e)' = Recorded(e) \cup {timestamp}
  BY <1>1, <1>3 DEF Recorded
<1>7. \A e \in Exchanges : \A d \in Recorded(e) : records'[e][d] = records[e][d]
  BY <1>3, Recording DEF Recorded
<1> QED
  BY <1>1, <1>3, <1>4, <1>5, <1>6, <1>7

\* How many days are recorded afterwards
LEMMA Counted ==
  ASSUME DailyInv, wpc = "save", time' = time, setup' = setup,
         records' = [records EXCEPT ![cur][timestamp] = result],
         NEW n, n = Cardinality(Recorded(cur))
  PROVE  /\ timestamp \in Recorded(cur) =>
              \A e : e = cur => Recorded(e)' = Recorded(e) /\ Cardinality(Recorded(e)') = n
         /\ timestamp \notin Recorded(cur) =>
              /\ timestamp = DayOf(cur, n + 1)
              /\ \A e : e = cur => Cardinality(Recorded(e)') = n + 1
<1>1. \A e : e = cur => Recorded(e)' = Recorded(e) \cup {timestamp}
  BY Recorded1
<1>2. timestamp \notin Recorded(cur) => timestamp = DayOf(cur, n + 1)
  BY Recording
<1>3. ASSUME timestamp \notin Recorded(cur)
      PROVE  Cardinality(Recorded(cur) \cup {timestamp}) = n + 1
  BY <1>3, FiniteDays, FS_AddElement
<1> QED
  BY <1>1, <1>2, <1>3

\* The records stay those of the first days of each exchange, one after the other, and
\* the day after the one recorded is recorded too, or the next one.
LEMMA SegmentKept ==
  ASSUME DailyInv, wpc = "save", time' = time, setup' = setup,
         records' = [records EXCEPT ![cur][timestamp] = result]
  PROVE  /\ SegmentInv' /\ FirstBlockInv'
         /\ \A e, t : e = cur /\ t \in {timestamp, timestamp + DayLen} => Wanted(e, t)'
<1> DEFINE n == Cardinality(Recorded(cur))
<1>0. IInv /\ DailyTypes /\ SegmentInv /\ FirstBlockInv /\ WorkerInv
  BY DEF DailyInv
<1>1. cur \in Exchanges /\ timestamp \in Days /\ n \in Nat
  BY Recording, FiniteDays
<1>2. /\ Exchanges' = Exchanges /\ \A e, i : DayOf(e, i)' = DayOf(e, i)
      /\ DayLen' = DayLen
  BY SameDays
<1>3. /\ timestamp \in Recorded(cur) =>
           \A e : e = cur => Recorded(e)' = Recorded(e) /\ Cardinality(Recorded(e)') = n
      /\ timestamp \notin Recorded(cur) =>
           /\ timestamp = DayOf(cur, n + 1)
           /\ \A e : e = cur => Cardinality(Recorded(e)') = n + 1
  BY Counted
<1> HIDE DEF n
<1>4. Recorded(cur) = {DayOf(cur, i) : i \in 1 .. n}
  BY <1>0, <1>1 DEF SegmentInv, n
<1>5. ASSUME NEW e \in Exchanges
      PROVE  Recorded(e)' = {DayOf(e, i) : i \in 1 .. Cardinality(Recorded(e)')}
  <2>1. CASE e /= cur
    BY <1>0, <2>1, Recorded1 DEF SegmentInv
  <2>2. CASE e = cur /\ timestamp \in Recorded(cur)
    BY <1>3, <1>4, <2>2
  <2>3. CASE e = cur /\ timestamp \notin Recorded(cur)
    <3>1. Recorded(e)' = Recorded(e) \cup {timestamp} /\ Cardinality(Recorded(e)') = n + 1
          /\ timestamp = DayOf(e, n + 1)
      BY <1>3, <2>3, Recorded1
    <3>2. 1 .. n + 1 = (1 .. n) \cup {n + 1}
      BY <1>1
    <3> QED
      BY <1>4, <2>3, <3>1, <3>2
  <2> QED
    BY <2>1, <2>2, <2>3
<1>6. SegmentInv'
  BY <1>2, <1>5 DEF SegmentInv
<1>7. ASSUME NEW e \in Exchanges, NEW d \in Recorded(e)'
      PROVE  /\ time[records'[e][d]] >= d
             /\ \A b \in Blocks : b < records'[e][d] => time[b] < d
  <2>1. CASE d \in Recorded(e)
    <3>1. records'[e][d] = records[e][d]
      BY <2>1, Recorded1
    <3> QED
      BY <1>0, <2>1, <3>1 DEF FirstBlockInv
  <2>2. CASE d \notin Recorded(e)
    <3>1. e = cur /\ d = timestamp /\ records'[e][d] = result
      BY <1>7, <2>2, Recorded1
    <3> QED
      BY <3>1, Recording
  <2> QED
    BY <2>1, <2>2
<1>8. FirstBlockInv'
  BY <1>2, <1>7 DEF FirstBlockInv
<1>9. ASSUME NEW e, NEW t, e = cur, t \in {timestamp, timestamp + DayLen} PROVE Wanted(e, t)'
  <2>1. Wanted(cur, timestamp)
    BY <1>0 DEF WorkerInv
  <2>2. PICK k \in 1 .. n + 1 : timestamp = DayOf(cur, k)
    BY <2>1 DEF Wanted, n
  <2>3. k \in Nat \ {0} /\ k + 1 \in Nat \ {0} /\ DayOf(cur, k + 1) = timestamp + DayLen
    BY <1>0, <1>1, <2>2, DaysOf
  <2>4. PICK m \in Nat : Cardinality(Recorded(e)') = m /\ k \in 1 .. m
    <3>1. CASE timestamp \notin Recorded(cur)
      <4>1. Cardinality(Recorded(e)') = n + 1 /\ n + 1 \in Nat
        BY <1>1, <1>3, <1>9, <3>1
      <4> QED
        BY <4>1
    <3>2. CASE timestamp \in Recorded(cur)
      <4>1. PICK i \in 1 .. n : timestamp = DayOf(cur, i)
        BY <1>4, <3>2
      <4>2. i \in Nat \ {0} /\ DayOf(cur, i) \in Nat
        BY <1>0, <1>1, <4>1, DaysOf
      <4>3. ~(i < k) /\ ~(k < i)
        BY <1>0, <1>1, <2>2, <2>3, <4>1, <4>2, DaysOf
      <4>4. k = i
        BY <2>3, <4>2, <4>3
      <4>5. Cardinality(Recorded(e)') = n
        BY <1>3, <1>9, <3>2
      <4> QED
        BY <1>1, <4>1, <4>4, <4>5
    <3> QED
      BY <3>1, <3>2
  <2>5. \E j \in 1 .. m + 1 : t = DayOf(e, j)
    <3>1. k \in 1 .. m + 1 /\ k + 1 \in 1 .. m + 1
      BY <2>3, <2>4
    <3> QED
      BY <1>9, <2>2, <2>3, <3>1
  <2>6. \E j \in 1 .. m + 1 : t = DayOf(e, j)'
    BY <1>2, <2>5
  <2> QED
    BY <2>4, <2>6 DEF Wanted
<1> QED
  BY <1>6, <1>8, <1>9

----------------------------------------------------------------------------
\* Every step keeps the invariant of the worker

\* The records are only written by AddLiquidity.
LEMMA RecordsStay ==
  ASSUME [DailyNext]_dailyVars
  PROVE  \/ records' = records
         \/ /\ AddLiquidity /\ wpc = "save"
            /\ records' = [records EXCEPT ![cur][timestamp] = result]
            /\ From(timestamp + DayLen) /\ todayBegin' = todayBegin
<1>1. CASE UNCHANGED dailyVars
  BY <1>1 DEF dailyVars
<1>2. CASE StartDay \/ FindLatestLiquidity \/ FromCreation \/ FindBlockByTimestamp
           \/ QueryLiquidity \/ EndDay \/ Sleep
  BY <1>2 DEF StartDay, FindLatestLiquidity, FromCreation, FindBlockByTimestamp, QueryLiquidity,
              EndDay, Sleep
<1>3. CASE AddLiquidity
  BY <1>3 DEF AddLiquidity
<1>4. CASE Boot \/ Crash \/ GrowChain \/ Tick \/ CheckSession \/ Outage \/ ServerBack
  BY <1>4 DEF Boot, Crash, GrowChain, Tick, CheckSession, Outage, ServerBack, Elsewhere
<1> QED
  BY <1>1, <1>2, <1>3, <1>4 DEF DailyNext, UpdateLiquidityDaily

\* Every step keeps the records in order.
LEMMA SegmentStep ==
  ASSUME DailyInv, [DailyNext]_dailyVars PROVE SegmentInv' /\ FirstBlockInv'
<1>0. time' = time /\ setup' = setup
  BY Stays
<1>1. CASE records' = records
  <2>1. /\ Exchanges' = Exchanges /\ \A e, i : DayOf(e, i)' = DayOf(e, i)
        /\ \A e : Recorded(e)' = Recorded(e)
    BY <1>0, <1>1, SameDays
  <2>2. SegmentInv'
    BY <2>1 DEF DailyInv, SegmentInv
  <2>3. FirstBlockInv'
    BY <1>0, <1>1, <2>1 DEF DailyInv, FirstBlockInv
  <2> QED
    BY <2>2, <2>3
<1>2. CASE wpc = "save" /\ records' = [records EXCEPT ![cur][timestamp] = result]
  BY <1>0, <1>2, SegmentKept
<1> QED
  BY <1>1, <1>2, RecordsStay

\* Going on with a wanted day, or with the next exchange, the worker is where it may be.
LEMMA FromWorker ==
  ASSUME DailyInv, NEW t \in Nat, From(t), setup' = setup, todayBegin' = todayBegin,
         cur \in Exchanges, \A e : e = cur => Wanted(e, t)'
  PROVE  /\ cur' \in Nat \ {0}
         /\ wpc' \in {"off", "day", "exchange", "creation", "find", "save", "sleep", "boot"}
         /\ WorkerInv'
<1>0. cur \in Nat \ {0} /\ todayBegin \in Nat
  BY DEF DailyInv, DailyTypes
<1>1. CASE t > todayBegin
  BY <1>0, <1>1 DEF From, NextExchange, WorkerInv
<1>2. CASE ~(t > todayBegin)
  <2>1. wpc' = "find" /\ timestamp' = t /\ cur' = cur /\ t <= todayBegin
    BY <1>0, <1>2 DEF From, UpdateDate
  <2>2. Wanted(cur, timestamp)'
    BY <2>1
  <2> QED
    BY <1>0, <2>1, <2>2 DEF WorkerInv, Exchanges
<1> QED
  BY <1>1, <1>2

\* Every step keeps the types, and what the worker looks for.
LEMMA WorkerStep ==
  ASSUME DailyInv, [DailyNext]_dailyVars PROVE DailyTypes' /\ WorkerInv'
<1>i. IInv /\ DailyTypes /\ SegmentInv /\ FirstBlockInv /\ WorkerInv
  BY DEF DailyInv
<1>0. time' = time /\ setup' = setup
  BY Stays
<1>n. now \in Nat /\ now <= MaxTime /\ MaxTime \in Nat /\ todayBegin \in Nat /\ todayBegin <= now
  BY <1>i, FindBlockAssumption DEF DailyTypes, Times
<1>r. records' \in [Exchanges' -> [Days -> Blocks \cup {Nil}]]
  <2>1. Exchanges' = Exchanges
    BY <1>0, SameDays
  <2>2. CASE records' = records
    BY <1>i, <2>1, <2>2 DEF DailyTypes
  <2>3. CASE wpc = "save" /\ records' = [records EXCEPT ![cur][timestamp] = result]
    BY <1>0, <2>1, <2>3, Recorded1
  <2> QED
    BY <2>2, <2>3, RecordsStay
<1>w. records' = records => \A e, t : Wanted(e, t)' <=> Wanted(e, t)
  BY <1>0, SameDays
<1> DEFINE Places == {"off", "day", "exchange", "creation", "find", "save", "sleep", "boot"}
<1> SUFFICES /\ now' \in Times /\ cur' \in Nat \ {0} /\ todayBegin' \in Nat /\ todayBegin' <= now'
             /\ wpc' \in Places /\ WorkerInv'
  <2>1. setup' \in Setups
    BY <1>0, <1>i DEF DailyTypes
  <2> QED
    BY <1>r, <2>1 DEF DailyTypes
<1>1. CASE UNCHANGED <<vars, setup, now, records, worker>>
  <2>1. /\ UNCHANGED <<timestamp, pc, now, records, wpc, cur, todayBegin>>
    BY <1>1 DEF vars, worker
  <2>2. WorkerInv'
    BY <1>0, <1>i, <1>w, <2>1 DEF WorkerInv, Exchanges
  <2> QED
    BY <1>i, <2>1, <2>2 DEF DailyTypes
<1>2. CASE StartDay
  <2>1. getDayBegin(now) \in Nat /\ getDayBegin(now) <= now
    BY <1>n, Midnight
  <2> QED
    BY <1>2, <1>i, <2>1 DEF StartDay, DailyTypes, WorkerInv
<1>3. CASE FindLatestLiquidity
  <2>0. wpc = "exchange" /\ cur \in Exchanges /\ UNCHANGED <<now, records>>
    BY <1>3 DEF FindLatestLiquidity
  <2>1. CASE /\ Recorded(cur) /= {} /\ todayBegin' = todayBegin
             /\ From(getDayBegin(LatestLiquidity(cur)) + DayLen)
    <3>1. /\ getDayBegin(LatestLiquidity(cur)) + DayLen \in Nat
          /\ Wanted(cur, getDayBegin(LatestLiquidity(cur)) + DayLen)
      BY <1>i, <2>0, <2>1, WorkerDays
    <3>2. PICK t \in Nat : From(t) /\ Wanted(cur, t)
      BY <2>1, <3>1
    <3>3. \A e : e = cur => Wanted(e, t)'
      BY <1>w, <2>0, <3>2
    <3>4. cur' \in Nat \ {0} /\ wpc' \in Places /\ WorkerInv'
      BY <1>0, <2>0, <2>1, <3>2, <3>3, FromWorker
    <3> QED
      BY <1>i, <2>0, <2>1, <3>4 DEF DailyTypes
  <2>2. CASE wpc' = "creation" /\ UNCHANGED <<cur, todayBegin, search>>
    BY <1>0, <1>i, <2>0, <2>2 DEF DailyTypes, WorkerInv, Exchanges
  <2>3. CASE Panic
    BY <1>i, <1>n, <2>0, <2>3 DEF Panic, DailyTypes, WorkerInv
  <2> QED
    BY <1>3, <2>1, <2>2, <2>3 DEF FindLatestLiquidity
<1>4. CASE FromCreation
  <2>0. wpc = "creation" /\ cur \in Exchanges /\ UNCHANGED <<now, records, todayBegin>>
        /\ From(getDayBegin(time[setup.created[cur]]))
    BY <1>4, <1>i DEF FromCreation, WorkerInv
  <2>1. PICK t \in Nat : From(t) /\ Wanted(cur, t)
    BY <1>i, <2>0, WorkerDays
  <2>2. \A e : e = cur => Wanted(e, t)'
    BY <1>w, <2>0, <2>1
  <2>3. cur' \in Nat \ {0} /\ wpc' \in Places /\ WorkerInv'
    BY <1>0, <2>0, <2>1, <2>2, FromWorker
  <2> QED
    BY <1>i, <2>0, <2>3 DEF DailyTypes
<1>5. CASE FindBlockByTimestamp
  <2>1. /\ UNCHANGED <<now, records, wpc, cur, todayBegin>> /\ wpc \in {"off", "find"}
        /\ timestamp' = timestamp
    BY <1>5 DEF FindBlockByTimestamp, worker, LatestReached, GoBack, Search
  <2>2. WorkerInv'
    BY <1>0, <1>i, <1>w, <2>1 DEF WorkerInv, Exchanges
  <2> QED
    BY <1>i, <2>1, <2>2 DEF DailyTypes
<1>6. CASE QueryLiquidity
  <2>0. /\ wpc = "find" /\ pc = "done" /\ UNCHANGED <<now, records, todayBegin>>
        /\ cur \in Exchanges /\ timestamp <= todayBegin /\ Wanted(cur, timestamp)
    BY <1>6, <1>i DEF QueryLiquidity, WorkerInv
  <2>1. CASE wpc' = "save" /\ UNCHANGED <<cur, search>>
    <3>1. pc' = pc /\ timestamp' = timestamp
      BY <2>1 DEF search
    <3>2. WorkerInv'
      BY <1>0, <1>w, <2>0, <2>1, <3>1 DEF WorkerInv, Exchanges
    <3> QED
      BY <1>i, <2>0, <2>1, <3>2 DEF DailyTypes
  <2>2. CASE NextExchange
    BY <1>i, <2>0, <2>2 DEF NextExchange, DailyTypes, WorkerInv
  <2>3. CASE UpdateDate(timestamp)
    <3>1. wpc' = "find" /\ timestamp' = timestamp /\ cur' = cur
      BY <2>3 DEF UpdateDate
    <3>2. WorkerInv'
      BY <1>0, <1>w, <2>0, <3>1 DEF WorkerInv, Exchanges
    <3> QED
      BY <1>i, <2>0, <3>1, <3>2 DEF DailyTypes
  <2> QED
    BY <1>6, <2>1, <2>2, <2>3 DEF QueryLiquidity, Retry
<1>7. CASE AddLiquidity
  <2>0. /\ wpc = "save" /\ now' = now
        /\ cur \in Exchanges /\ timestamp <= todayBegin /\ Wanted(cur, timestamp)
    BY <1>7, <1>i DEF AddLiquidity, WorkerInv
  <2>1. CASE /\ records' = [records EXCEPT ![cur][timestamp] = result]
             /\ From(timestamp + DayLen) /\ todayBegin' = todayBegin
    <3>1. \A e, t : e = cur /\ t = timestamp + DayLen => Wanted(e, t)'
      BY <1>0, <2>0, <2>1, SegmentKept
    <3>2. timestamp + DayLen \in Nat
      BY <1>i, <2>0, WorkerDays
    <3>3. PICK t \in Nat : t = timestamp + DayLen
      BY <3>2
    <3>4. From(t) /\ \A e : e = cur => Wanted(e, t)'
      BY <2>1, <3>1, <3>3
    <3>5. cur' \in Nat \ {0} /\ wpc' \in Places /\ WorkerInv'
      BY <1>0, <2>0, <2>1, <3>4, FromWorker
    <3> QED
      BY <1>i, <2>0, <2>1, <3>5 DEF DailyTypes
  <2>2. CASE UpdateDate(timestamp) /\ UNCHANGED <<records, todayBegin>>
    <3>1. wpc' = "find" /\ timestamp' = timestamp /\ cur' = cur
      BY <2>2 DEF UpdateDate
    <3>2. WorkerInv'
      BY <1>0, <1>w, <2>0, <2>2, <3>1 DEF WorkerInv, Exchanges
    <3> QED
      BY <1>i, <2>0, <2>2, <3>1, <3>2 DEF DailyTypes
  <2>3. CASE Panic
    BY <1>i, <1>n, <2>0, <2>3 DEF Panic, DailyTypes, WorkerInv
  <2> QED
    BY <1>7, <2>1, <2>2, <2>3 DEF AddLiquidity, Retry
<1>8. CASE EndDay \/ Sleep \/ Boot
  BY <1>8, <1>i DEF EndDay, Sleep, Boot, DailyTypes, WorkerInv
<1>9. CASE Crash
  BY <1>9, <1>i, <1>n DEF Crash, DailyTypes, WorkerInv
<1>10. CASE GrowChain
  <2>1. UNCHANGED <<now, records, wpc, cur, todayBegin, timestamp, pc>>
    BY <1>10 DEF GrowChain, NewBlock, worker
  <2>2. WorkerInv'
    BY <1>0, <1>i, <1>w, <2>1 DEF WorkerInv, Exchanges
  <2> QED
    BY <1>i, <2>1, <2>2 DEF DailyTypes
<1>11. CASE Tick
  <2>1. /\ UNCHANGED <<records, wpc, cur, todayBegin, timestamp, pc>>
        /\ now' = now + 1 /\ now < MaxTime
    BY <1>11 DEF Tick, vars, worker
  <2>2. WorkerInv'
    BY <1>0, <1>i, <1>w, <2>1 DEF WorkerInv, Exchanges
  <2>3. now' \in Times /\ todayBegin' <= now'
    BY <1>n, <2>1 DEF Times
  <2> QED
    BY <1>i, <2>1, <2>2, <2>3 DEF DailyTypes
<1>12. CASE CheckSession \/ Outage \/ ServerBack
  BY <1>1, <1>12 DEF CheckSession, Outage, ServerBack, Elsewhere
<1>13. CASE UNCHANGED dailyVars
  BY <1>1, <1>13 DEF dailyVars
<1> QED
  BY <1>2, <1>3, <1>4, <1>5, <1>6, <1>7, <1>8, <1>9, <1>10, <1>11, <1>12, <1>13
     DEF DailyNext, UpdateLiquidityDaily

\* The invariant holds when the worker is started.
LEMMA InitDaily == DailyInit => DailyInv
<1> SUFFICES ASSUME DailyInit PROVE DailyInv
  OBVIOUS
<1>0. 0 \in Blocks /\ 0 \in Times /\ head \in Blocks /\ MaxHead \in Nat /\ MaxTime \in Nat
      /\ time \in [Blocks -> Times] /\ Increasing
  BY FindBlockAssumption DEF DailyInit, Blocks, Times
<1>1. IInv
  <2>1. timestamp \in Times /\ blockNumber = 0 /\ high = 0 /\ low = 0 /\ result = 0
        /\ (pc = "wait" \/ (pc = "done" /\ timestamp = 0))
    BY <1>0 DEF DailyInit
  <2>2. time[0] \in Nat /\ \A b \in Blocks : ~(b < 0)
    BY <1>0 DEF Blocks, Times
  <2> QED
    BY <1>0, <2>1, <2>2 DEF IInv, TypeOK, Bracket, FindsFirstBlock
<1>2. DailyTypes
  <2>1. now \in Times /\ now \in Nat
    BY <1>0 DEF DailyInit, Times
  <2>2. records \in [Exchanges -> [Days -> Blocks \cup {Nil}]]
    BY DEF DailyInit
  <2> QED
    BY <2>1, <2>2 DEF DailyInit, DailyTypes
<1>3. \A e \in Exchanges : Recorded(e) = {} /\ Cardinality(Recorded(e)) = 0
  <2>1. \A e \in Exchanges : Recorded(e) = {}
    BY DEF DailyInit, Recorded
  <2> QED
    BY <2>1, FS_EmptySet
<1>4. SegmentInv /\ FirstBlockInv
  BY <1>3 DEF SegmentInv, FirstBlockInv
<1>5. WorkerInv
  BY DEF DailyInit, WorkerInv
<1> QED
  BY <1>1, <1>2, <1>4, <1>5 DEF DailyInv

----------------------------------------------------------------------------
\* The refinement of DayLedger

\* The records of an exchange as a sequence: one for each of its first days.
LEMMA LedgerIs ==
  ASSUME DailyInv, NEW e \in Exchanges
  PROVE  LET n == Cardinality(Recorded(e))
         IN  /\ n \in Nat
             /\ \A i \in 1 .. n : DayOf(e, i) \in Recorded(e)
             /\ Ledger(e) = [i \in 1 .. n |-> records[e][DayOf(e, i)]]
             /\ Len(Ledger(e)) = n
<1> DEFINE n == Cardinality(Recorded(e))
<1>1. n \in Nat
  BY FiniteDays
<1>2. \A i \in 1 .. n : DayOf(e, i) \in Recorded(e)
  BY DEF DailyInv, SegmentInv
<1>3. Ledger(e) = [i \in 1 .. n |-> records[e][DayOf(e, i)]]
  <2>1. \A i \in 1 .. n : DayOf(e, i) \in Days
    BY <1>2 DEF Recorded
  <2>2. Ledger(e) = [i \in 1 .. n |-> IF DayOf(e, i) \in Days THEN records[e][DayOf(e, i)] ELSE Nil]
    BY DEF Ledger, DayOf
  <2> HIDE DEF n
  <2> QED
    BY <2>1, <2>2
<1>4. Len(Ledger(e)) = n
  <2> HIDE DEF n
  <2> QED
    BY <1>1, <1>3
<1> QED
  BY <1>1, <1>2, <1>3, <1>4

\* The ledgers begin empty.
LEMMA LedgerInit == DailyInit => L!Init
<1> SUFFICES ASSUME DailyInit PROVE L!Init
  OBVIOUS
<1>1. DailyInv
  BY InitDaily
<1>2. ASSUME NEW e \in Exchanges PROVE Ledger(e) = <<>>
  <2>1. Recorded(e) = {}
    BY DEF DailyInit, Recorded
  <2>2. Cardinality(Recorded(e)) = 0
    BY <2>1, FS_EmptySet
  <2>3. Ledger(e) = [i \in 1 .. 0 |-> records[e][DayOf(e, i)]]
    BY <1>1, <2>2, LedgerIs
  <2> QED
    BY <2>3
<1> QED
  BY <1>2 DEF L!Init, L!Exchanges, Exchanges

\* A record that is written is entered, or was there: then nothing changes.
LEMMA EnterStep ==
  ASSUME DailyInv, DailyInv', wpc = "save", time' = time, setup' = setup,
         records' = [records EXCEPT ![cur][timestamp] = result]
  PROVE  L!Next \/ UNCHANGED <<time, setup.created, [e \in Exchanges |-> Ledger(e)]>>
<1> DEFINE n == Cardinality(Recorded(cur))
<1>0. cur \in Exchanges /\ timestamp \in Days /\ result \in Blocks /\ n \in Nat
  BY Recording, FiniteDays
<1>1. /\ Exchanges' = Exchanges /\ \A e, i : DayOf(e, i)' = DayOf(e, i)
  BY SameDays
<1>2. \A e \in Exchanges :
        Ledger(e)' = [i \in 1 .. Cardinality(Recorded(e)') |-> records'[e][DayOf(e, i)]]
  <2> TAKE e \in Exchanges
  <2>1. e \in Exchanges'
    BY <1>1
  <2>2. \A i \in 1 .. Cardinality(Recorded(e)') : DayOf(e, i)' = DayOf(e, i)
    BY <1>1
  <2>3. \A i \in 1 .. Cardinality(Recorded(e)') : DayOf(e, i) \in Days
    <3>1. Recorded(e)' = {DayOf(e, i)' : i \in 1 .. Cardinality(Recorded(e)')}
      BY <2>1 DEF DailyInv, SegmentInv
    <3>2. Recorded(e)' \subseteq Days
      BY DEF Recorded, Days
    <3> QED
      BY <1>1, <3>1, <3>2
  <2>4. Ledger(e)' = [i \in 1 .. Cardinality(Recorded(e)') |->
                        IF DayOf(e, i) \in Days THEN records'[e][DayOf(e, i)] ELSE Nil]
    BY DEF Ledger, DayOf, Days, getDayBegin
  <2> QED
    BY <2>3, <2>4
<1>3. ASSUME NEW e \in Exchanges, Cardinality(Recorded(e)') = Cardinality(Recorded(e))
      PROVE  Ledger(e)' = Ledger(e)
  <2>1. \A i \in 1 .. Cardinality(Recorded(e)) : DayOf(e, i) \in Recorded(e)
    BY LedgerIs
  <2>2. \A i \in 1 .. Cardinality(Recorded(e)) :
          records'[e][DayOf(e, i)] = records[e][DayOf(e, i)]
    BY <2>1, Recorded1
  <2>3. Ledger(e) = [i \in 1 .. Cardinality(Recorded(e)) |-> records[e][DayOf(e, i)]]
    BY LedgerIs
  <2> QED
    BY <1>2, <1>3, <2>2, <2>3
<1>4. \A e \in Exchanges : e /= cur => Ledger(e)' = Ledger(e)
  BY <1>3, Recorded1
<1>5. CASE timestamp \in Recorded(cur)
  <2>1. \A e : e = cur => Cardinality(Recorded(e)') = Cardinality(Recorded(e))
    BY <1>5, Counted
  <2>2. \A e \in Exchanges : Ledger(e)' = Ledger(e)
    BY <1>3, <1>4, <2>1
  <2> QED
    BY <1>1, <2>2
<1>6. CASE timestamp \notin Recorded(cur)
  <2>1. timestamp = DayOf(cur, n + 1) /\ \A e : e = cur => Cardinality(Recorded(e)') = n + 1
    BY <1>6, Counted
  <2>2. Ledger(cur) = [i \in 1 .. n |-> records[cur][DayOf(cur, i)]] /\ Len(Ledger(cur)) = n
        /\ \A i \in 1 .. n : DayOf(cur, i) \in Recorded(cur)
    BY <1>0, LedgerIs
  <2> HIDE DEF n
  <2>3. \A e : e = cur => Ledger(e)' = Append(Ledger(cur), result)
    <3>1. \A e : e = cur => Ledger(e)' = [i \in 1 .. n + 1 |-> records'[cur][DayOf(cur, i)]]
      BY <1>0, <1>2, <2>1
    <3>2. \A i \in 1 .. n : records'[cur][DayOf(cur, i)] = records[cur][DayOf(cur, i)]
      BY <1>0, <2>2, Recorded1
    <3>3. records'[cur][DayOf(cur, n + 1)] = result
      BY <2>1, Recorded1
    <3>4. Append(Ledger(cur), result) = [i \in 1 .. n + 1 |-> records'[cur][DayOf(cur, i)]]
      <4>1. \A i \in 1 .. n + 1 : i \in 1 .. n \/ i = n + 1
        BY <1>0
      <4> QED
        BY <1>0, <2>2, <3>2, <3>3, <4>1
    <3> QED
      BY <3>1, <3>4
  <2> DEFINE S == {b \in DOMAIN time : time[b] >= timestamp}
  <2>4. result \in S /\ \A b \in S : result <= b
    <3>1. DOMAIN time = Blocks /\ \A b \in Blocks : b \in Nat /\ time[b] \in Nat
      BY FindBlockAssumption DEF DailyInv, IInv, TypeOK, Blocks, Times
    <3>2. timestamp \in Nat
      BY <1>0, FindBlockAssumption DEF Days, Times
    <3> QED
      BY <1>0, <3>1, <3>2, Recording
  <2>5. L!Min(S) = result
    <3>1. \A x \in S : (\A y \in S : x <= y) => x = result
      <4>1. \A b \in S : b \in Nat
        BY FindBlockAssumption DEF DailyInv, IInv, TypeOK, Blocks
      <4> HIDE DEF S
      <4> QED
        BY <2>4, <4>1
    <3> HIDE DEF S
    <3> QED
      BY <2>4, <3>1 DEF L!Min
  <2>6. L!Day(cur, Len(Ledger(cur)) + 1) = timestamp
    BY <2>1, <2>2 DEF L!Day, L!DayBegin, DayOf, getDayBegin
  <2>7. L!From(timestamp) = S
    BY DEF L!From
  <2>8. [e \in Exchanges |-> Ledger(e)]'
          = [[e \in Exchanges |-> Ledger(e)] EXCEPT ![cur] = Append(@, result)]
    <3>1. [e \in Exchanges |-> Ledger(e)]' = [e \in Exchanges |-> Ledger(e)']
      BY <1>1
    <3> QED
      BY <1>0, <1>4, <2>3, <3>1
  <2>9. L!Enter(cur)
    <3> HIDE DEF S
    <3>1. [e \in Exchanges |-> Ledger(e)][cur] = Ledger(cur)
      BY <1>0
    <3> QED
      BY <1>0, <2>4, <2>5, <2>6, <2>7, <2>8, <3>1 DEF L!Enter
  <2> QED
    BY <1>0, <2>9 DEF L!Next, L!Exchanges, Exchanges
<1> QED
  BY <1>5, <1>6

\* Every step of the worker enters a record into a ledger, or leaves the ledgers alone.
LEMMA LedgerStep ==
  ASSUME DailyInv, DailyInv', [DailyNext]_dailyVars
  PROVE  L!Next \/ UNCHANGED <<time, setup.created, [e \in Exchanges |-> Ledger(e)]>>
<1>0. time' = time /\ setup' = setup
  BY Stays
<1>1. CASE records' = records
  <2>1. Exchanges' = Exchanges /\ \A e : Ledger(e)' = Ledger(e)
    BY <1>0, <1>1 DEF Ledger, Recorded, Exchanges, Days, getDayBegin
  <2> QED
    BY <1>0, <2>1
<1>2. CASE wpc = "save" /\ records' = [records EXCEPT ![cur][timestamp] = result]
  BY <1>0, <1>2, EnterStep
<1> QED
  BY <1>1, <1>2, RecordsStay

----------------------------------------------------------------------------
\* The theorems

\* The invariant holds in every state of the daily liquidity.
THEOREM DailyInductive == DailySpec => []DailyInv
<1>1. ASSUME DailyInv, [DailyNext]_dailyVars PROVE DailyInv'
  <2>1. IInv /\ DailyTypes /\ SegmentInv /\ WorkerInv
    BY <1>1 DEF DailyInv
  <2> QED
    BY <1>1, <2>1, IInvStep, SegmentStep, WorkerStep DEF DailyInv
<1> QED
  BY InitDaily, <1>1, PTL DEF DailySpec

\* Each search of the worker, too, ends with the first block of its day.
THEOREM DailyFindsFirst == DailySpec => []FindsFirstBlock
<1>1. DailyInv => FindsFirstBlock
  BY DEF DailyInv, IInv
<1> QED
  BY DailyInductive, <1>1, PTL

\* And none of them asks for a block that the chain does not have yet.
THEOREM DailyAsksForKnown == DailySpec => []AsksForKnownBlocks
<1>1. DailyInv => AsksForKnownBlocks
  <2> SUFFICES ASSUME IInv PROVE AsksForKnownBlocks
    BY DEF DailyInv
  <2>1. low \in Nat /\ high \in Nat /\ head \in Nat /\ blockNumber \in Nat
    BY FindBlockAssumption DEF IInv, TypeOK, Blocks
  <2> QED
    BY <2>1, MidBetween DEF IInv, Bracket, AsksForKnownBlocks, Mid
<1> QED
  BY DailyInductive, <1>1, PTL

\* updateLiquidityDaily keeps a ledger: one record for each day from the creation of an
\* exchange on, none left out and none changed, each of the first block of its day;
\* whatever the node, the database and the process suffer.
THEOREM DailyKeepsLedger == DailySpec => KeepsLedger
<1>1. DailyInv /\ DailyInv' /\ [DailyNext]_dailyVars
        => [L!Next]_<<time, setup.created, [e \in Exchanges |-> Ledger(e)]>>
  BY LedgerStep
<1> QED
  BY LedgerInit, DailyInductive, <1>1, PTL DEF DailySpec, KeepsLedger, L!Spec
=============================================================================
