--------------------------- MODULE DailyLiquidity ---------------------------
(***************************************************************************)
(* The daily liquidity (src/worker/updateliquidity.go): after every        *)
(* midnight the worker takes the exchanges one by one and records their    *)
(* liquidity at the first block of every day that is not in the database   *)
(* yet.  The block is found by FindBlockByTimestamp, whose steps are those *)
(* of FindBlock, and the database is the session of MongoSession, which    *)
(* may fail, and kill the process, in the middle of it.                    *)
(*                                                                         *)
(* The three balances are those of one block of an archive node, so a      *)
(* record is the number of its block.  Midnight is every DayLen seconds.   *)
(***************************************************************************)
EXTENDS FindBlock, MongoSession, Sequences, FiniteSets

CONSTANTS
  Setups,         \* configurations to look at: a set of records, see IsSetup
  DayLen          \* secondsPerDay

\* The configuration, and how often its environment fails.
IsSetup(s) ==
  /\ s.updateLiquidity \in BOOLEAN    \* Sync.UpdateLiquidity and no --syncto
  /\ s.created \in Seq(Blocks \ {0})  \* CreationHeight of each exchange
  /\ s.archive \in BOOLEAN            \* the node keeps the state of old blocks
  /\ s.maxCrashes \in Nat             \* bound: the process dies
  /\ s.maxErrors \in Nat              \* bound: requests to the node that fail

ASSUME DailyAssumption ==
  /\ DayLen \in Nat \ {0}
  /\ \A s \in Setups : IsSetup(s)

Nil == -1

VARIABLES
  setup,
  now,            \* the clock
  records,        \* records[e][d]: block recorded for exchange e and day d, or Nil
  wpc, cur,       \* what the worker does next, for which exchange
  todayBegin,
  crashes, errors

worker    == <<wpc, cur, todayBegin>>
search    == <<timestamp, pc, blockNumber, high, low, result>>
dailyVars == <<vars, dbVars, setup, now, records, worker, crashes, errors>>

Exchanges == DOMAIN setup.created
Days      == {t \in Times : t % DayLen = 0}

getDayBegin(t) == t - (t % DayLen)

NoSearch == timestamp' = 0 /\ pc' = "done" /\ blockNumber' = 0 /\ high' = 0 /\ low' = 0 /\ result' = 0

\* The search runs for the worker, or alone, for a caller with any timestamp.
DailyInit ==
  /\ setup \in Setups
  /\ time \in [Blocks -> Times] /\ Increasing
  /\ head \in Blocks
  /\ blockNumber = 0 /\ high = 0 /\ low = 0 /\ result = 0
  /\ IF setup.updateLiquidity
       THEN wpc = "day" /\ pc = "done" /\ timestamp = 0
       ELSE wpc = "off" /\ pc = "wait" /\ timestamp \in Times
  /\ SessionInit
  /\ now = time[head]
  /\ records = [e \in Exchanges |-> [d \in Days |-> Nil]]
  /\ cur = 1 /\ todayBegin = 0
  /\ crashes = 0 /\ errors = 0

----------------------------------------------------------------------------
\* FindBlockByTimestamp is called for the next day.
UpdateDate(t) ==
  /\ wpc' = "find"
  /\ timestamp' = t /\ pc' = "wait"
  /\ UNCHANGED <<cur, blockNumber, high, low, result>>

\* The exchange is finished for today.
NextExchange == wpc' = "exchange" /\ cur' = cur + 1 /\ UNCHANGED search

From(t) == IF t > todayBegin THEN NextExchange ELSE UpdateDate(t)

\* A call on a session that is closed: nobody recovers, the process dies.
Panic ==
  /\ Panics
  /\ wpc' = "boot" /\ cur' = 1 /\ todayBegin' = 0
  /\ NoSearch

\* updateLiquidityDailyLoop
StartDay ==
  /\ wpc = "day"
  /\ todayBegin' = getDayBegin(now)
  /\ cur' = 1
  /\ wpc' = "exchange"
  /\ UNCHANGED <<vars, dbVars, setup, now, records, crashes, errors>>

Recorded(e) == {d \in Days : records[e][d] /= Nil}

LatestLiquidity(e) == CHOOSE d \in Recorded(e) : \A c \in Recorded(e) : c <= d

\* updateLiquidityDailyOnce: the latest record says where to go on.  An error of the
\* query is dropped and looks like an empty database.
FindLatestLiquidity ==
  /\ wpc = "exchange" /\ cur \in Exchanges
  /\ \/ /\ MayAnswer /\ Recorded(cur) /= {}
        /\ From(getDayBegin(LatestLiquidity(cur)) + DayLen)
        /\ UNCHANGED todayBegin
     \/ /\ MayFail \/ (MayAnswer /\ Recorded(cur) = {})
        /\ wpc' = "creation"
        /\ UNCHANGED <<cur, todayBegin, search>>
     \/ Panic
  /\ UNCHANGED <<chain, dbVars, setup, now, records, crashes, errors>>

\* LoopGetBlockHeader of the creation height, which the chain may not have yet
FromCreation ==
  /\ wpc = "creation"
  /\ setup.created[cur] <= head
  /\ From(getDayBegin(time[setup.created[cur]]))
  /\ UNCHANGED <<chain, dbVars, setup, now, records, todayBegin, crashes, errors>>

FindBlockByTimestamp ==
  /\ wpc \in {"off", "find"}
  /\ LatestReached \/ GoBack \/ Search
  /\ UNCHANGED <<dbVars, setup, now, records, worker, crashes, errors>>

\* "missing trie node": a full node has the state of the latest block only.
Missing == ~setup.archive /\ result /= head

\* Mutant: after an error the day is given up.
RetryNextDay == UpdateDate(timestamp + DayLen)

\* The same day again, after a second
Retry == UpdateDate(timestamp)

\* updateDateLiquidity: liquidity, coins and tokens at the block; a state that is
\* missing ends the exchange for today, another error is tried again.
QueryLiquidity ==
  /\ wpc = "find" /\ pc = "done"
  /\ \/ /\ ~Missing
        /\ wpc' = "save"
        /\ UNCHANGED <<cur, search, errors>>
     \/ /\ Missing
        /\ NextExchange
        /\ UNCHANGED errors
     \/ /\ errors < setup.maxErrors
        /\ errors' = errors + 1
        /\ Retry
  /\ UNCHANGED <<chain, dbVars, setup, now, records, todayBegin, crashes>>

\* AddLiquidity overwrites; three tries that all fail are an error as well.
AddLiquidity ==
  /\ wpc = "save"
  /\ \/ /\ MayAnswer
        /\ records' = [records EXCEPT ![cur][timestamp] = result]
        /\ From(timestamp + DayLen)
        /\ UNCHANGED todayBegin
     \/ /\ MayFail
        /\ Retry
        /\ UNCHANGED <<records, todayBegin>>
     \/ Panic /\ UNCHANGED records
  /\ UNCHANGED <<chain, dbVars, setup, now, crashes, errors>>

EndDay ==
  /\ wpc = "exchange" /\ cur \notin Exchanges
  /\ wpc' = "sleep"
  /\ UNCHANGED <<vars, dbVars, setup, now, records, cur, todayBegin, crashes, errors>>

\* The next midnight
Sleep ==
  /\ wpc = "sleep" /\ now >= todayBegin + DayLen
  /\ wpc' = "day"
  /\ UNCHANGED <<vars, dbVars, setup, now, records, cur, todayBegin, crashes, errors>>

----------------------------------------------------------------------------
\* The process is started (again).
Boot ==
  /\ wpc = "boot"
  /\ MongoServerInit
  /\ wpc' = "day"
  /\ UNCHANGED <<vars, setup, now, records, cur, todayBegin, crashes, errors>>

Crash ==
  /\ wpc \notin {"off", "boot"} /\ crashes < setup.maxCrashes
  /\ crashes' = crashes + 1
  /\ wpc' = "boot" /\ cur' = 1 /\ todayBegin' = 0
  /\ NoSearch
  /\ UNCHANGED <<chain, dbVars, setup, now, records, errors>>

\* No block is ahead of the clock.
GrowChain ==
  /\ head < MaxHead /\ time[head + 1] <= now
  /\ NewBlock
  /\ UNCHANGED <<dbVars, setup, now, records, worker, crashes, errors>>

Tick ==
  /\ now < MaxTime
  /\ now' = now + 1
  /\ UNCHANGED <<vars, dbVars, setup, records, worker, crashes, errors>>

Elsewhere == UNCHANGED <<vars, setup, now, records, worker, crashes, errors>>

CheckSession == wpc \notin {"off", "boot"} /\ CheckMongoSession /\ Elsewhere

Outage == wpc \notin {"off", "boot"} /\ ServerDown /\ Elsewhere

ServerBack == ServerUp /\ Elsewhere

UpdateLiquidityDaily ==
  \/ StartDay
  \/ FindLatestLiquidity
  \/ FromCreation
  \/ FindBlockByTimestamp
  \/ QueryLiquidity
  \/ AddLiquidity
  \/ EndDay
  \/ Sleep

DailyNext ==
  \/ UpdateLiquidityDaily
  \/ Boot
  \/ Crash
  \/ GrowChain
  \/ Tick
  \/ CheckSession
  \/ Outage
  \/ ServerBack

\* Goroutines run, the operator starts the process again, time passes, the chain goes
\* on, and the database server comes back.
DailyFairness ==
  /\ WF_dailyVars(UpdateLiquidityDaily) /\ WF_dailyVars(Boot)
  /\ WF_dailyVars(GrowChain) /\ WF_dailyVars(Tick)
  /\ WF_dailyVars(CheckSession) /\ WF_dailyVars(ServerBack)

DailySpec == DailyInit /\ [][DailyNext]_dailyVars /\ DailyFairness

----------------------------------------------------------------------------
\* Properties

\* The records in the order of their days, as a ledger sees them
Ledger(e) ==
  LET first == getDayBegin(time[setup.created[e]])
  IN  [i \in 1 .. Cardinality(Recorded(e)) |->
         IF first + (i - 1) * DayLen \in Days THEN records[e][first + (i - 1) * DayLen] ELSE Nil]

L == INSTANCE DayLedger WITH
       created <- setup.created,
       ledger <- [e \in Exchanges |-> Ledger(e)]

\* Whatever the node, the database and the process suffer, the records of every
\* exchange are those of consecutive days from the creation of the exchange on, each of
\* the first block of its day, and a record that is written again stays the same.
KeepsLedger == L!Spec

\* Every midnight that the chain has passed, up to the last one of the clock, is
\* recorded for every exchange in the end: with an archive node, and as long as the
\* chain does not stop (the worker waits for a block of the new day).
EveryDayRecorded ==
  setup.updateLiquidity /\ setup.archive /\ time[MaxHead] >= getDayBegin(MaxTime) =>
    <>[](\A e \in Exchanges : \A d \in Days :
           d >= getDayBegin(time[setup.created[e]]) => records[e][d] /= Nil)
=============================================================================
