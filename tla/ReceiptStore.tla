---------------------------- MODULE ReceiptStore ---------------------------
(***************************************************************************)
(* What the parser makes of the receipts of transactions                   *)
(* (src/syncer/parsereceipt.go, parse.go) and how the database takes it    *)
(* (src/mongodb/api.go): one goroutine per transaction goes through its    *)
(* logs and records accounts, the volume history from which rewards are    *)
(* computed, the volume of the day, and at last the transaction itself.    *)
(* All the goroutines of a batch run at once, and a transaction may be     *)
(* parsed again: after a crash, or with --overwrite.                       *)
(*                                                                         *)
(* A log is a record with its kind, the contract that emitted it, its      *)
(* account and the coins that changed hands.  An exchange is its own       *)
(* liquidity token, which a Transfer moves.  There is one day; the volume  *)
(* of the day, which the database keeps per exchange, is that of the       *)
(* configured exchange.                                                    *)
(***************************************************************************)
EXTENDS Integers, Sequences, FiniteSets, Functions

CONSTANTS
  Setups,           \* the runs to look at: a set of records, see IsSetup
  Txs,              \* transactions
  ExchangeAccounts, \* accounts that are exchanges themselves
  MaxPasses         \* bound: how often a transaction is parsed

Trades   == {"TokenPurchase", "EthPurchase"}
Exchange == Trades \cup {"AddLiquidity", "RemoveLiquidity"}
Erc20    == {"Transfer", "Approval"}
V2       == {"Mint", "Burn", "Swap"}
Kinds    == Exchange \cup Erc20 \cup V2 \cup {"CreateExchange", "Unknown"}

\* The configured exchange and its token; one more exchange of the configured factory,
\* found by initAllExchanges; a contract that is neither; a V2 pair called by a
\* configured router, or by another
Contracts == {"exchange", "token", "inFactory", "other", "routed"}

\* How the syncer is configured, what it finds, and which faults are looked at.
IsSetup(s) ==
  /\ \A list \in s.logLists :           \* the logs of a receipt
       /\ list \in Seq(Range(list))
       /\ \A i \in DOMAIN list :
            list[i].kind \in Kinds /\ list[i].coin \in Nat /\ list[i].contract \in Contracts
  /\ s.onlySyncAccount \in BOOLEAN
  /\ s.updateVolume \in BOOLEAN        \* Sync.UpdateVolume
  /\ s.scanAllExchange \in BOOLEAN     \* Sync.ScanAllExchange
  /\ s.recordTokenAccount \in BOOLEAN  \* Sync.RecordTokenAccount
  /\ s.maxCrashes \in Nat        \* bound: crashes
  /\ s.maxFaults \in Nat  \* bound: database calls that fail or whose answer is lost

ASSUME ReceiptStoreAssumption ==
  /\ IsFiniteSet(Txs) /\ MaxPasses \in Nat
  /\ \A s \in Setups : IsSetup(s)

VARIABLES
  setup,      \* the configuration of the syncer
  logs,       \* logs[t]: the logs of the receipt of t
  status,     \* status[t]: Receipt.Status is not 0
  \* the database
  accounts,   \* the Accounts collection: <<exchange, account>>
  tokenAccounts,  \* the TokenAccounts collection: <<token, account>>
  histories,  \* the VolumeHistory collection
  volume,     \* CoinVolume24h of the day
  saved,      \* the Transactions collection
  \* the goroutines
  pc, idx,    \* what t does next, and for which log
  save,       \* savedb of parseReceipt
  oldVal,     \* the volume UpdateVolumeWithReceipt has read
  \* history
  passes,     \* how often t was begun
  complete,   \* transactions that were parsed to their end at least once
  crashes, faults,
  missed      \* <<t, i, what>>: a record that was given up after three tries

OnlySyncAccount == setup.onlySyncAccount
UpdateVolume    == setup.updateVolume

input    == <<setup, logs, status>>
database == <<accounts, tokenAccounts, histories, volume, saved>>
routine  == <<pc, idx, save, oldVal>>
history  == <<passes, complete, crashes, faults, missed>>
vars     == <<input, database, routine, history>>

Init ==
  /\ setup \in Setups
  /\ logs \in [Txs -> setup.logLists]
  /\ status \in [Txs -> BOOLEAN]
  /\ accounts = {} /\ tokenAccounts = {} /\ histories = {} /\ volume = 0 /\ saved = {}
  /\ pc = [t \in Txs |-> "idle"] /\ idx = [t \in Txs |-> 1]
  /\ save = [t \in Txs |-> FALSE] /\ oldVal = [t \in Txs |-> 0]
  /\ passes = [t \in Txs |-> 0] /\ complete = {}
  /\ crashes = 0 /\ faults = 0 /\ missed = {}

Fault == faults < setup.maxFaults /\ faults' = faults + 1

Log(t)     == logs[t][idx[t]]
HasLog(t)  == idx[t] <= Len(logs[t])
GoTo(t, l) == pc' = [pc EXCEPT ![t] = l]

\* The loop of parseReceipt goes on with the next log.
NextLog(t) == GoTo(t, "log") /\ idx' = [idx EXCEPT ![t] = @ + 1]

\* A record that TryDoTimes gave up
GiveUp(t, what) == Fault /\ missed' = missed \cup {<<t, idx[t], what>>}

----------------------------------------------------------------------------
\* parseTx, parseReceipt: nothing is read from a failed transaction.
ParseTx(t) ==
  /\ pc[t] = "idle" /\ passes[t] < MaxPasses
  /\ passes' = [passes EXCEPT ![t] = @ + 1]
  /\ idx' = [idx EXCEPT ![t] = IF status[t] THEN 1 ELSE Len(logs[t]) + 1]
  /\ save' = [save EXCEPT ![t] = FALSE]
  /\ GoTo(t, "log")
  /\ UNCHANGED <<input, database, oldVal, complete, crashes, faults, missed>>

\* Which logs addExchangeReceipt, addErc20Receipt and addExchangeV2Receipt take
ExchangeReceipt(l) == l.kind \in Exchange /\ (l.contract = "exchange" \/ setup.scanAllExchange)
Erc20Receipt(l) ==
  l.kind \in Erc20 /\ l.contract \in {"exchange", "token"}
                           \cup (IF setup.scanAllExchange THEN {"inFactory"} ELSE {})
ExchangeV2Receipt(l) == l.kind \in V2 /\ l.contract = "routed"

\* addExchanges takes no log of a factory: it asks for two topics, and the event has
\* three.  (A log with exactly two would stop the program at the third.  The inputs
\* have none.)
Accepted(l) == ExchangeReceipt(l) \/ Erc20Receipt(l) \/ ExchangeV2Receipt(l)

\* parseReceipt: a log that is not taken, and one that is
IgnoreLog(t) ==
  /\ pc[t] = "log" /\ HasLog(t)
  /\ ~Accepted(Log(t))
  /\ NextLog(t)
  /\ UNCHANGED <<input, database, save, oldVal, history>>

AddReceipt(t) ==
  /\ pc[t] = "log" /\ HasLog(t)
  /\ Accepted(Log(t))
  /\ save' = [save EXCEPT ![t] = TRUE]
  /\ IF Log(t).kind = "TokenPurchase" THEN GoTo(t, "tokenAccount") /\ UNCHANGED idx
     ELSE IF Log(t).kind \in Exchange \cup {"Transfer"}
       THEN GoTo(t, "account") /\ UNCHANGED idx
       ELSE NextLog(t)
  /\ UNCHANGED <<input, database, oldVal, history>>

\* Mutant: a purchase does not record its account.
AccountableLiquidity(l) ==
  \/ l.kind = "Transfer" /\ l.contract \in {"exchange", "inFactory"}
  \/ l.kind \in Exchange \ Trades

\* Every log of an exchange records its account; of a token (recordTokenAccounts) only
\* a transfer of liquidity does.
Accountable(l) ==
  \/ l.kind = "Transfer" /\ l.contract \in {"exchange", "inFactory"}
  \/ l.kind \in Exchange

\* recordAccounts.  An account that is there already is a duplicate key, which is not
\* an error.
RecordAccounts(t) ==
  /\ pc[t] = "account"
  /\ \/ /\ accounts' = IF Accountable(Log(t))
                          THEN accounts \cup {<<Log(t).contract, Log(t).account>>} ELSE accounts
        /\ UNCHANGED <<faults, missed>>
     \/ Accountable(Log(t)) /\ GiveUp(t, "account") /\ UNCHANGED accounts
  /\ IF Log(t).kind = "Transfer" THEN GoTo(t, "tokenAccount") /\ UNCHANGED idx
     ELSE IF Log(t).kind \in Trades /\ ~OnlySyncAccount
       THEN GoTo(t, "history") /\ UNCHANGED idx
       ELSE NextLog(t)
  /\ UNCHANGED <<input, tokenAccounts, histories, volume, saved, save, oldVal, passes, complete,
                 crashes>>

\* params.GetExchangeToken for a purchase; an exchange that is not configured has none.
TokenOf(l) ==
  IF l.kind = "Transfer" THEN l.contract
  ELSE IF l.contract = "exchange" THEN "token" ELSE ""

\* recordTokenAccounts: for a purchase, before its account, and for a transfer after it
RecordTokenAccounts(t) ==
  /\ pc[t] = "tokenAccount"
  /\ \/ /\ tokenAccounts' = IF setup.recordTokenAccount
                               THEN tokenAccounts \cup {<<TokenOf(Log(t)), Log(t).account>>}
                               ELSE tokenAccounts
        /\ UNCHANGED <<faults, missed>>
     \/ setup.recordTokenAccount /\ GiveUp(t, "tokenAccount") /\ UNCHANGED tokenAccounts
  /\ IF Log(t).kind = "Transfer" THEN NextLog(t) ELSE GoTo(t, "account") /\ UNCHANGED idx
  /\ UNCHANGED <<input, accounts, histories, volume, saved, save, oldVal, passes, complete, crashes>>

\* Mutant: another key for every parse.
HistoryKeyOfPass(t) == <<t, idx[t], passes[t]>>

\* Mutant: one key for all logs of a transaction.
HistoryKeyOfTx(t) == <<t, 1>>

\* GetKeyOfVolumeHistory: transaction hash and log index
HistoryKey(t) == <<t, idx[t]>>

\* recordAccountVoumes: not for the exchange in the middle of a token to token
\* swap.  A second insert or an upsert under the same key leaves one record.
AddVolumeHistory(t) ==
  LET record == [key |-> HistoryKey(t), exchange |-> Log(t).contract,
                 account |-> Log(t).account, coin |-> Log(t).coin]
  IN
  /\ pc[t] = "history"
  /\ \/ /\ histories' = IF Log(t).account \in ExchangeAccounts THEN histories
                        ELSE {h \in histories : h.key /= record.key} \cup {record}
        /\ UNCHANGED <<faults, missed>>
     \/ /\ Log(t).account \notin ExchangeAccounts
        /\ GiveUp(t, "history")
        /\ UNCHANGED histories
  /\ IF UpdateVolume /\ Log(t).contract = "exchange"
       THEN GoTo(t, "findVolume") /\ UNCHANGED idx ELSE NextLog(t)
  /\ UNCHANGED <<input, accounts, tokenAccounts, volume, saved, save, oldVal, passes, complete, crashes>>

\* UpdateVolumeWithReceipt reads the volume of the day ...
FindVolume(t) ==
  /\ pc[t] = "findVolume"
  /\ oldVal' = [oldVal EXCEPT ![t] = volume]
  /\ GoTo(t, "addVolume")
  /\ UNCHANGED <<input, database, idx, save, history>>

NewVolume(t) == oldVal[t] + Log(t).coin

\* ... and writes the sum.  When the answer is lost TryDoTimes does both again.
AddVolume(t) ==
  /\ pc[t] = "addVolume"
  /\ \/ volume' = NewVolume(t) /\ NextLog(t) /\ UNCHANGED <<faults, missed>>
     \/ /\ Fault
        /\ volume' = NewVolume(t) /\ GoTo(t, "findVolume")
        /\ UNCHANGED <<idx, missed>>
     \/ GiveUp(t, "volume") /\ NextLog(t) /\ UNCHANGED volume
  /\ UNCHANGED <<input, accounts, tokenAccounts, histories, saved, save, oldVal, passes, complete,
                 crashes>>

\* parseTx: at last the transaction, if a log was recorded.
AddTransaction(t) ==
  /\ pc[t] = "log" /\ ~HasLog(t)
  /\ \/ /\ saved' = IF save[t] /\ ~OnlySyncAccount THEN saved \cup {t} ELSE saved
        /\ UNCHANGED <<faults, missed>>
     \/ save[t] /\ ~OnlySyncAccount /\ GiveUp(t, "tx") /\ UNCHANGED saved
  /\ complete' = complete \cup {t}
  /\ GoTo(t, "idle")
  /\ UNCHANGED <<input, accounts, tokenAccounts, histories, volume, idx, save, oldVal, passes, crashes>>

\* The process dies; what is in the database stays.
Crash ==
  /\ crashes < setup.maxCrashes
  /\ \E t \in Txs : pc[t] /= "idle"
  /\ crashes' = crashes + 1
  /\ pc' = [t \in Txs |-> "idle"]
  /\ UNCHANGED <<input, database, idx, save, oldVal, passes, complete, faults, missed>>

Step(t) ==
  \/ IgnoreLog(t)
  \/ AddReceipt(t)
  \/ RecordAccounts(t)
  \/ RecordTokenAccounts(t)
  \/ AddVolumeHistory(t)
  \/ FindVolume(t)
  \/ AddVolume(t)
  \/ AddTransaction(t)

Next ==
  \/ \E t \in Txs : ParseTx(t) \/ Step(t)
  \/ Crash

Spec == Init /\ [][Next]_vars

----------------------------------------------------------------------------
\* Properties

\* The volume of the day is never negative, and only transactions of the chain are
\* stored.
TypeOK ==
  /\ volume \in Nat /\ saved \subseteq Txs
  /\ pc \in [Txs -> {"idle", "log", "account", "tokenAccount", "history", "findVolume", "addVolume"}]
  /\ idx \in [Txs -> Nat \ {0}] /\ save \in [Txs -> BOOLEAN] /\ oldVal \in [Txs -> Nat]
  /\ passes \in [Txs -> 0 .. MaxPasses] /\ complete \subseteq Txs
  /\ crashes \in 0 .. setup.maxCrashes /\ faults \in 0 .. setup.maxFaults

\* The trades of the chain: <<t, i>>
TradeLogs(ts) ==
  {x \in UNION {{t} \X DOMAIN logs[t] : t \in {u \in ts : status[u]}} :
     Accepted(logs[x[1]][x[2]]) /\ logs[x[1]][x[2]].kind \in Trades}
RewardedLogs(ts) == {x \in TradeLogs(ts) : logs[x[1]][x[2]].account \notin ExchangeAccounts}

CoinsOf(ls) == SumFunction([x \in ls |-> logs[x[1]][x[2]].coin])
RecordedCoins(e, a) ==
  SumFunction([h \in {r \in histories : r.exchange = e /\ r.account = a} |-> h.coin])
CoinsOfAccount(ts, e, a) ==
  CoinsOf({x \in RewardedLogs(ts) :
             logs[x[1]][x[2]].contract = e /\ logs[x[1]][x[2]].account = a})

\* However often and however far a transaction is parsed, FindAccountVolumes counts
\* each trade of an account with an exchange at most once, and every trade of a
\* transaction that was parsed to its end unless a record was given up.
HistoryCountsOnce ==
  \A e \in Contracts, a \in {l.account : l \in UNION {Range(logs[t]) : t \in Txs}} :
    /\ RecordedCoins(e, a) <= CoinsOfAccount(Txs, e, a)
    /\ missed = {} /\ ~OnlySyncAccount => RecordedCoins(e, a) >= CoinsOfAccount(complete, e, a)

\* A transaction in the database has all its trades there too: it is written last.
SavedIsComplete ==
  \A t \in saved : \A x \in RewardedLogs({t}) :
    (\E h \in histories : h.key = x) \/ <<x[1], x[2], "history">> \in missed

Missed(what, a) == \E m \in missed : m[3] = what /\ logs[m[1]][m[2]].account = a

\* Whoever was ever given liquidity of an exchange, and the exchange is configured or
\* scanned: the logs of a transaction
LiquidityGiven(t) ==
  IF ~status[t] THEN {}
  ELSE {l \in Range(logs[t]) : /\ Accepted(l) /\ l.contract \in {"exchange", "inFactory"}
                               /\ l.kind \in {"Transfer", "AddLiquidity"}}

\* The list of accounts that the liquidity rewards go through misses nobody: who has
\* volume is in it, and so is who was given liquidity in a transaction that was parsed
\* to its end, if only by a transfer, unless the record was given up.
TradersAreAccounts ==
  /\ \A h \in histories : <<h.exchange, h.account>> \in accounts \/ Missed("account", h.account)
  /\ \A t \in complete : \A l \in LiquidityGiven(t) :
       <<l.contract, l.account>> \in accounts \/ Missed("account", l.account)

\* "update volume per day": when all transactions were parsed once and nothing
\* failed, the volume of the day is what was traded.
DayVolumeExact ==
  /\ complete = Txs /\ faults = 0 /\ crashes = 0 /\ UpdateVolume /\ ~OnlySyncAccount
  /\ \A t \in Txs : passes[t] = 1
  => volume = CoinsOf({x \in TradeLogs(Txs) : logs[x[1]][x[2]].contract = "exchange"})
=============================================================================
