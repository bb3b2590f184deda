------------------------- MODULE ReceiptStoreProofs -------------------------
(***************************************************************************)
(* Theorems about the receipt parser and its records (ReceiptStore), for   *)
(* any receipts, any number of transactions, crashes and failed database   *)
(* calls: the volume history counts a trade once, a stored transaction has *)
(* its trades in the history, and who trades or is given liquidity is in   *)
(* the list of accounts.                                                   *)
(***************************************************************************)
EXTENDS ReceiptStore, SumTheorems

----------------------------------------------------------------------------
\* The inductive invariant

\* Types, and the input, which stays
Types ==
  /\ TypeOK
  /\ setup \in Setups /\ logs \in [Txs -> setup.logLists] /\ status \in [Txs -> BOOLEAN]

InLog == {"account", "tokenAccount", "history", "findVolume", "addVolume"}
InTrade == {"history", "findVolume", "addVolume"}

\* Which log a goroutine can be at in each of its places
PlaceInv ==
  \A t \in Txs :
    /\ pc[t] /= "idle" /\ HasLog(t) => status[t]
    /\ pc[t] \in InLog => HasLog(t) /\ Accepted(Log(t))
    /\ pc[t] = "account" => Log(t).kind \in Exchange \cup {"Transfer"}
    /\ pc[t] = "tokenAccount" => Log(t).kind \in {"TokenPurchase", "Transfer"}
    /\ pc[t] \in InTrade => Log(t).kind \in Trades /\ ~OnlySyncAccount

\* The history record of a log
RecordOf(x) ==
  [key |-> x, exchange |-> logs[x[1]][x[2]].contract,
   account |-> logs[x[1]][x[2]].account, coin |-> logs[x[1]][x[2]].coin]

AccountThere(e, a) == <<e, a>> \in accounts \/ Missed("account", a)

\* The history holds records of trades, and of no other account than the list has.
HistoryInv ==
  /\ histories \subseteq {RecordOf(x) : x \in RewardedLogs(Txs)}
  /\ \A h \in histories : AccountThere(h.exchange, h.account)

\* What is left in the database of the i-th log of t
AccountDone(t, i) ==
  Accepted(logs[t][i]) /\ Accountable(logs[t][i])
    => AccountThere(logs[t][i].contract, logs[t][i].account)
HistoryDone(t, i) ==
  /\ Accepted(logs[t][i]) /\ logs[t][i].kind \in Trades
  /\ logs[t][i].account \notin ExchangeAccounts /\ ~OnlySyncAccount
  => (\E h \in histories : h.key = <<t, i>>) \/ <<t, i, "history">> \in missed
LogDone(t, i) == AccountDone(t, i) /\ HistoryDone(t, i)

\* The logs that a goroutine has left behind are done, and of its log what comes first is.
ProgressInv ==
  \A t \in Txs : pc[t] /= "idle" /\ status[t] =>
    /\ \A i \in DOMAIN logs[t] : i < idx[t] => LogDone(t, i)
    /\ pc[t] \in InTrade => AccountDone(t, idx[t])
    /\ pc[t] = "tokenAccount" /\ Log(t).kind = "Transfer" => AccountDone(t, idx[t])
    /\ pc[t] \in {"findVolume", "addVolume"} => HistoryDone(t, idx[t])

\* A transaction that was parsed to its end, and one that is stored
CompleteInv ==
  /\ \A t \in complete : status[t] => \A i \in DOMAIN logs[t] : LogDone(t, i)
  /\ saved \subseteq complete
  /\ saved /= {} => ~OnlySyncAccount

IInv == Types /\ PlaceInv /\ HistoryInv /\ ProgressInv /\ CompleteInv

----------------------------------------------------------------------------
\* What the assumption says of the receipts

\* A receipt is a sequence of logs of known kinds.
LEMMA Receipts ==
  ASSUME Types, NEW t \in Txs
  PROVE  /\ Len(logs[t]) \in Nat /\ DOMAIN logs[t] = 1 .. Len(logs[t])
         /\ idx[t] \in Nat \ {0}
         /\ \A i \in DOMAIN logs[t] : /\ logs[t][i].kind \in Kinds
                                      /\ logs[t][i].coin \in Nat
                                      /\ logs[t][i].contract \in Contracts
         /\ HasLog(t) => idx[t] \in DOMAIN logs[t]
<1>1. IsSetup(setup) /\ logs[t] \in setup.logLists
  BY ReceiptStoreAssumption DEF Types
<1>2. logs[t] \in Seq(Range(logs[t]))
  BY <1>1 DEF IsSetup
<1>3. Len(logs[t]) \in Nat /\ DOMAIN logs[t] = 1 .. Len(logs[t])
  <2> DEFINE R == Range(logs[t])
  <2>1. logs[t] \in Seq(R)
    BY <1>2
  <2> HIDE DEF R
  <2> QED
    BY <2>1
<1>4. idx[t] \in Nat \ {0}
  BY DEF Types, TypeOK
<1> QED
  BY <1>1, <1>3, <1>4 DEF IsSetup, HasLog

\* There are finitely many trades.
LEMMA FiniteTrades ==
  ASSUME Types, NEW T \in SUBSET Txs
  PROVE  IsFiniteSet(RewardedLogs(T))
<1> DEFINE U == {u \in T : status[u]}
           W == {{t} \X DOMAIN logs[t] : t \in U}
<1>1. IsFiniteSet(U)
  <2>1. U \in SUBSET Txs
    OBVIOUS
  <2> QED
    BY <2>1, FS_Subset, ReceiptStoreAssumption
<1>2. IsFiniteSet(W)
  <2> DEFINE f == [t \in U |-> {t} \X DOMAIN logs[t]]
  <2>1. f \in Surjection(U, W)
    BY DEF Surjection
  <2> HIDE DEF U, W, f
  <2> QED
    BY <1>1, <2>1, FS_Surjection
<1>3. ASSUME NEW w \in W PROVE IsFiniteSet(w)
  <2>1. PICK t \in U : w = {t} \X DOMAIN logs[t]
    OBVIOUS
  <2>2. IsFiniteSet(DOMAIN logs[t])
    <3>1. t \in Txs
      OBVIOUS
    <3> QED
      BY <3>1, Receipts, FS_Interval
  <2>3. IsFiniteSet({t})
    BY FS_Singleton
  <2> QED
    BY <2>1, <2>2, <2>3, FS_Product
<1>4. IsFiniteSet(UNION W)
  <2> HIDE DEF W
  <2> QED
    BY <1>2, <1>3, FS_UNION
<1>5. RewardedLogs(T) \in SUBSET UNION W
  BY DEF RewardedLogs, TradeLogs
<1> QED
  BY <1>4, <1>5, FS_Subset

\* Which logs are the rewarded trades
LEMMA Rewarded ==
  ASSUME NEW T \in SUBSET Txs
  PROVE  \A x : x \in RewardedLogs(T) <=>
           \E t \in T : \E i \in DOMAIN logs[t] :
             /\ x = <<t, i>> /\ status[t]
             /\ Accepted(logs[t][i]) /\ logs[t][i].kind \in Trades
             /\ logs[t][i].account \notin ExchangeAccounts
  BY DEF RewardedLogs, TradeLogs


----------------------------------------------------------------------------
\* Every step keeps the types and the places

\* A step is a crash, or an action of one goroutine, or a stutter.
LEMMA Cases ==
  ASSUME [Next]_vars
  PROVE  \/ UNCHANGED vars
         \/ Crash
         \/ \E t \in Txs :
              \/ ParseTx(t) \/ IgnoreLog(t) \/ AddReceipt(t) \/ RecordAccounts(t)
              \/ RecordTokenAccounts(t) \/ AddVolumeHistory(t) \/ FindVolume(t) \/ AddVolume(t)
              \/ AddTransaction(t)
  BY DEF Next, Step

\* The input stays.
LEMMA InputStays ==
  ASSUME [Next]_vars PROVE setup' = setup /\ logs' = logs /\ status' = status
<1>1. input' = input
  BY DEF Next, Step, ParseTx, IgnoreLog, AddReceipt, RecordAccounts, RecordTokenAccounts,
         AddVolumeHistory, FindVolume, AddVolume, AddTransaction, Crash, vars
<1> QED
  BY <1>1 DEF input

\* The initial states satisfy the invariant.
LEMMA InitIInv == Init => IInv
<1> SUFFICES ASSUME Init PROVE IInv
  OBVIOUS
<1>1. IsSetup(setup) /\ MaxPasses \in Nat
  BY ReceiptStoreAssumption DEF Init
<1>2. Types
  BY <1>1 DEF Init, Types, TypeOK, IsSetup
<1>3. PlaceInv /\ ProgressInv
  BY DEF Init, PlaceInv, ProgressInv, InLog, InTrade
<1>4. HistoryInv /\ CompleteInv
  BY DEF Init, HistoryInv, CompleteInv
<1> QED
  BY <1>2, <1>3, <1>4 DEF IInv

\* Every step keeps the types.
LEMMA TypesStep ==
  ASSUME Types, PlaceInv, [Next]_vars PROVE Types'
<1>0. setup' = setup /\ logs' = logs /\ status' = status
  BY InputStays
<1>1. setup.maxCrashes \in Nat /\ setup.maxFaults \in Nat /\ MaxPasses \in Nat
  BY ReceiptStoreAssumption DEF Types, IsSetup
<1>2. TypeOK'
  <2>1. CASE UNCHANGED vars
    BY <2>1 DEF Types, TypeOK, vars, input, database, routine, history
  <2>2. CASE Crash
    BY <1>0, <1>1, <2>2 DEF Types, TypeOK, Crash, database, input
  <2>3. ASSUME NEW t \in Txs, ParseTx(t) PROVE TypeOK'
    <3>1. Len(logs[t]) \in Nat
      BY Receipts
    <3>2. idx' \in [Txs -> Nat \ {0}]
      BY <2>3, <3>1 DEF Types, TypeOK, ParseTx
    <3>3. passes' \in [Txs -> 0 .. MaxPasses]
      BY <1>1, <2>3 DEF Types, TypeOK, ParseTx
    <3> QED
      BY <1>0, <2>3, <3>2, <3>3 DEF Types, TypeOK, ParseTx, GoTo, database
  <2>4. ASSUME NEW t \in Txs, IgnoreLog(t) PROVE TypeOK'
    BY <1>0, <2>4 DEF Types, TypeOK, IgnoreLog, NextLog, GoTo, database, history
  <2>5. ASSUME NEW t \in Txs, AddReceipt(t) PROVE TypeOK'
    BY <1>0, <2>5 DEF Types, TypeOK, AddReceipt, NextLog, GoTo, database, history
  <2>6. ASSUME NEW t \in Txs, RecordAccounts(t) PROVE TypeOK'
    BY <1>0, <1>1, <2>6 DEF Types, TypeOK, RecordAccounts, NextLog, GoTo, GiveUp, Fault
  <2>7. ASSUME NEW t \in Txs, RecordTokenAccounts(t) PROVE TypeOK'
    BY <1>0, <1>1, <2>7 DEF Types, TypeOK, RecordTokenAccounts, NextLog, GoTo, GiveUp, Fault
  <2>8. ASSUME NEW t \in Txs, AddVolumeHistory(t) PROVE TypeOK'
    BY <1>0, <1>1, <2>8 DEF Types, TypeOK, AddVolumeHistory, NextLog, GoTo, GiveUp, Fault
  <2>9. ASSUME NEW t \in Txs, FindVolume(t) PROVE TypeOK'
    BY <1>0, <2>9 DEF Types, TypeOK, FindVolume, GoTo, database, history
  <2>10. ASSUME NEW t \in Txs, AddVolume(t) PROVE TypeOK'
    <3>1. pc[t] \in InLog
      BY <2>10 DEF AddVolume, InLog
    <3>2. Log(t).coin \in Nat
      BY <3>1, Receipts DEF PlaceInv, Log
    <3>3. NewVolume(t) \in Nat
      BY <3>2 DEF Types, TypeOK, NewVolume
    <3> QED
      BY <1>0, <1>1, <2>10, <3>3 DEF Types, TypeOK, AddVolume, NextLog, GoTo, GiveUp, Fault
  <2>11. ASSUME NEW t \in Txs, AddTransaction(t) PROVE TypeOK'
    BY <1>0, <1>1, <2>11 DEF Types, TypeOK, AddTransaction, GoTo, GiveUp, Fault
  <2> QED
    BY <2>1, <2>2, <2>3, <2>4, <2>5, <2>6, <2>7, <2>8, <2>9, <2>10, <2>11, Cases
<1> QED
  BY <1>0, <1>2 DEF Types

\* The place of one goroutine
PlaceOf(t) ==
  /\ pc[t] /= "idle" /\ HasLog(t) => status[t]
  /\ pc[t] \in InLog => HasLog(t) /\ Accepted(Log(t))
  /\ pc[t] = "account" => Log(t).kind \in Exchange \cup {"Transfer"}
  /\ pc[t] = "tokenAccount" => Log(t).kind \in {"TokenPurchase", "Transfer"}
  /\ pc[t] \in InTrade => Log(t).kind \in Trades /\ ~OnlySyncAccount

\* A goroutine that does nothing stays where it is.
LEMMA Elsewhere ==
  ASSUME Types, NEW t \in Txs, NEW u \in Txs, t /= u, [Next]_vars,
         \/ ParseTx(t) \/ IgnoreLog(t) \/ AddReceipt(t) \/ RecordAccounts(t)
         \/ RecordTokenAccounts(t) \/ AddVolumeHistory(t) \/ FindVolume(t) \/ AddVolume(t)
         \/ AddTransaction(t)
  PROVE  pc'[u] = pc[u] /\ idx'[u] = idx[u]
  BY DEF ParseTx, IgnoreLog, AddReceipt, RecordAccounts, RecordTokenAccounts, AddVolumeHistory,
         FindVolume, AddVolume, AddTransaction, NextLog, GoTo, routine, Types, TypeOK

\* Going on with the next log leads nowhere new.
LEMMA PlaceNext ==
  ASSUME Types, PlaceInv, NEW t \in Txs, pc[t] /= "idle", HasLog(t), NextLog(t),
         setup' = setup, logs' = logs, status' = status
  PROVE  PlaceOf(t)'
<1>1. pc'[t] = "log" /\ status'[t] = status[t]
  BY DEF NextLog, GoTo, Types, TypeOK
<1>2. status[t]
  BY DEF PlaceInv
<1> QED
  BY <1>1, <1>2 DEF PlaceOf, InLog, InTrade

\* Every step keeps the places.
LEMMA PlaceInvStep ==
  ASSUME Types, PlaceInv, [Next]_vars PROVE PlaceInv'
<1>0. setup' = setup /\ logs' = logs /\ status' = status
  BY InputStays
<1>1. CASE UNCHANGED vars
  BY <1>0, <1>1 DEF PlaceInv, vars, routine, HasLog, Log, Accepted, ExchangeReceipt, Erc20Receipt,
                    ExchangeV2Receipt, OnlySyncAccount
<1>2. CASE Crash
  BY <1>2 DEF Crash, PlaceInv, InLog, InTrade
<1>3. ASSUME NEW t \in Txs,
             \/ ParseTx(t) \/ IgnoreLog(t) \/ AddReceipt(t) \/ RecordAccounts(t)
             \/ RecordTokenAccounts(t) \/ AddVolumeHistory(t) \/ FindVolume(t) \/ AddVolume(t)
             \/ AddTransaction(t)
      PROVE  PlaceInv'
  <2>0. PlaceOf(t)
    BY DEF PlaceOf, PlaceInv
  <2>t. pc \in [Txs -> {"idle", "log"} \cup InLog] /\ idx \in [Txs -> Nat \ {0}]
    BY DEF Types, TypeOK, InLog
  <2>a. \A l : Accepted(l)' <=> Accepted(l)
    BY <1>0 DEF Accepted, ExchangeReceipt, Erc20Receipt, ExchangeV2Receipt
  <2>1. ASSUME NEW u \in Txs, u /= t PROVE PlaceOf(u)'
    <3>1. pc'[u] = pc[u] /\ idx'[u] = idx[u]
      BY <1>3, <2>1, Elsewhere
    <3>2. PlaceOf(u)
      BY DEF PlaceOf, PlaceInv
    <3> QED
      BY <1>0, <2>a, <3>1, <3>2 DEF PlaceOf, HasLog, Log, OnlySyncAccount
  <2>2. PlaceOf(t)'
    <3>1. CASE ParseTx(t)
      <4>1. Len(logs[t]) \in Nat
        BY Receipts
      <4>2. pc'[t] = "log" /\ idx'[t] = IF status[t] THEN 1 ELSE Len(logs[t]) + 1
        BY <2>t, <3>1 DEF ParseTx, GoTo
      <4> QED
        BY <1>0, <4>1, <4>2 DEF PlaceOf, HasLog, InLog, InTrade
    <3>2. CASE IgnoreLog(t)
      BY <1>0, <3>2, PlaceNext DEF IgnoreLog
    <3>3. CASE AddReceipt(t)
      <4>1. CASE NextLog(t)
        BY <1>0, <3>3, <4>1, PlaceNext DEF AddReceipt
      <4>2. CASE ~NextLog(t)
        <5>1. idx' = idx
          BY <3>3, <4>2 DEF AddReceipt
        <5>2. \/ pc'[t] = "tokenAccount" /\ Log(t).kind = "TokenPurchase"
              \/ pc'[t] = "account" /\ Log(t).kind \in Exchange \cup {"Transfer"}
          BY <2>t, <3>3, <4>2 DEF AddReceipt, GoTo
        <5>3. HasLog(t) /\ Accepted(Log(t)) /\ status[t]
          BY <2>0, <3>3 DEF AddReceipt, PlaceOf
        <5> QED
          BY <1>0, <2>a, <5>1, <5>2, <5>3 DEF PlaceOf, InLog, InTrade, HasLog, Log
      <4> QED
        BY <4>1, <4>2
    <3>4. CASE RecordAccounts(t)
      <4>0. pc[t] = "account" /\ HasLog(t) /\ Accepted(Log(t)) /\ status[t]
        BY <2>0, <3>4 DEF RecordAccounts, PlaceOf, InLog
      <4>1. CASE NextLog(t)
        BY <1>0, <4>0, <4>1, PlaceNext
      <4>2. CASE ~NextLog(t)
        <5>1. idx' = idx
          BY <3>4, <4>2 DEF RecordAccounts
        <5>2. \/ pc'[t] = "tokenAccount" /\ Log(t).kind = "Transfer"
              \/ pc'[t] = "history" /\ Log(t).kind \in Trades /\ ~OnlySyncAccount
          BY <2>t, <3>4, <4>2 DEF RecordAccounts, GoTo
        <5> QED
          BY <1>0, <2>a, <4>0, <5>1, <5>2 DEF PlaceOf, InLog, InTrade, HasLog, Log, OnlySyncAccount
      <4> QED
        BY <4>1, <4>2
    <3>5. CASE RecordTokenAccounts(t)
      <4>0. pc[t] = "tokenAccount" /\ HasLog(t) /\ Accepted(Log(t)) /\ status[t]
            /\ Log(t).kind \in {"TokenPurchase", "Transfer"}
        BY <2>0, <3>5 DEF RecordTokenAccounts, PlaceOf, InLog
      <4>1. CASE NextLog(t)
        BY <1>0, <4>0, <4>1, PlaceNext
      <4>2. CASE ~NextLog(t)
        <5>1. idx' = idx /\ pc'[t] = "account"
          BY <2>t, <3>5, <4>2 DEF RecordTokenAccounts, GoTo
        <5>2. Log(t).kind = "TokenPurchase"
          BY <3>5, <4>0, <4>2 DEF RecordTokenAccounts
        <5> QED
          BY <1>0, <2>a, <4>0, <5>1, <5>2
             DEF PlaceOf, InLog, InTrade, HasLog, Log, Exchange, Trades
      <4> QED
        BY <4>1, <4>2
    <3>6. CASE AddVolumeHistory(t)
      <4>0. pc[t] = "history" /\ HasLog(t) /\ Accepted(Log(t)) /\ status[t]
            /\ Log(t).kind \in Trades /\ ~OnlySyncAccount
        BY <2>0, <3>6 DEF AddVolumeHistory, PlaceOf, InLog, InTrade
      <4>1. CASE NextLog(t)
        BY <1>0, <4>0, <4>1, PlaceNext
      <4>2. CASE ~NextLog(t)
        <5>1. idx' = idx /\ pc'[t] = "findVolume"
          BY <2>t, <3>6, <4>2 DEF AddVolumeHistory, GoTo
        <5> QED
          BY <1>0, <2>a, <4>0, <5>1 DEF PlaceOf, InLog, InTrade, HasLog, Log, OnlySyncAccount
      <4> QED
        BY <4>1, <4>2
    <3>7. CASE FindVolume(t)
      <4>0. pc[t] = "findVolume" /\ HasLog(t) /\ Accepted(Log(t)) /\ status[t]
            /\ Log(t).kind \in Trades /\ ~OnlySyncAccount
        BY <2>0, <3>7 DEF FindVolume, PlaceOf, InLog, InTrade
      <4>1. idx' = idx /\ pc'[t] = "addVolume"
        BY <2>t, <3>7 DEF FindVolume, GoTo
      <4> QED
        BY <1>0, <2>a, <4>0, <4>1 DEF PlaceOf, InLog, InTrade, HasLog, Log, OnlySyncAccount
    <3>8. CASE AddVolume(t)
      <4>0. pc[t] = "addVolume" /\ HasLog(t) /\ Accepted(Log(t)) /\ status[t]
            /\ Log(t).kind \in Trades /\ ~OnlySyncAccount
        BY <2>0, <3>8 DEF AddVolume, PlaceOf, InLog, InTrade
      <4>1. CASE NextLog(t)
        BY <1>0, <4>0, <4>1, PlaceNext
      <4>2. CASE ~NextLog(t)
        <5>1. idx' = idx /\ pc'[t] = "findVolume"
          BY <2>t, <3>8, <4>2 DEF AddVolume, GoTo
        <5> QED
          BY <1>0, <2>a, <4>0, <5>1 DEF PlaceOf, InLog, InTrade, HasLog, Log, OnlySyncAccount
      <4> QED
        BY <4>1, <4>2
    <3>9. CASE AddTransaction(t)
      <4>1. pc'[t] = "idle"
        BY <2>t, <3>9 DEF AddTransaction, GoTo
      <4> QED
        BY <4>1 DEF PlaceOf, InLog, InTrade
    <3> QED
      BY <1>3, <3>1, <3>2, <3>3, <3>4, <3>5, <3>6, <3>7, <3>8, <3>9
  <2>3. \A u \in Txs : PlaceOf(u)'
    BY <2>1, <2>2
  <2> QED
    BY <2>3 DEF PlaceOf, PlaceInv
<1> QED
  BY <1>1, <1>2, <1>3, Cases

----------------------------------------------------------------------------
\* The history, the accounts and what is done

\* The operators that look at the receipts look at them the same way in the next state.
LEMMA SameReceipts ==
  ASSUME [Next]_vars
  PROVE  /\ \A l : Accepted(l)' <=> Accepted(l)
         /\ \A l : Accountable(l)' <=> Accountable(l)
         /\ \A x : RecordOf(x)' = RecordOf(x)
         /\ RewardedLogs(Txs)' = RewardedLogs(Txs)
         /\ OnlySyncAccount' = OnlySyncAccount
<1>0. setup' = setup /\ logs' = logs /\ status' = status
  BY InputStays
<1>1. \A l : Accepted(l)' <=> Accepted(l)
  BY <1>0 DEF Accepted, ExchangeReceipt, Erc20Receipt, ExchangeV2Receipt
<1>2. TradeLogs(Txs)' = TradeLogs(Txs)
  BY <1>0, <1>1 DEF TradeLogs
<1> QED
  BY <1>0, <1>1, <1>2 DEF Accountable, RecordOf, RewardedLogs, OnlySyncAccount

\* Accounts and missed records are never taken back.
LEMMA AccountsStay ==
  ASSUME [Next]_vars
  PROVE  /\ accounts \subseteq accounts' /\ missed \subseteq missed'
         /\ \A e, a : AccountThere(e, a) => AccountThere(e, a)'
<1>1. accounts \subseteq accounts' /\ missed \subseteq missed'
  BY DEF Next, Step, ParseTx, IgnoreLog, AddReceipt, RecordAccounts, RecordTokenAccounts,
         AddVolumeHistory, FindVolume, AddVolume, AddTransaction, Crash, vars, database, history,
         GiveUp
<1>2. logs' = logs
  BY InputStays
<1> QED
  BY <1>1, <1>2 DEF AccountThere, Missed

\* A record of the history is only replaced by one with the same key.
LEMMA HistoriesStay ==
  ASSUME [Next]_vars
  PROVE  \A h \in histories : \E g \in histories' : g.key = h.key
<1>1. CASE histories' = histories
  BY <1>1
<1>2. ASSUME NEW t \in Txs, AddVolumeHistory(t)
      PROVE  \A h \in histories : \E g \in histories' : g.key = h.key
  <2> DEFINE record == [key |-> HistoryKey(t), exchange |-> Log(t).contract,
                        account |-> Log(t).account, coin |-> Log(t).coin]
  <2>1. \/ histories' = histories
        \/ histories' = {h \in histories : h.key /= record.key} \cup {record}
    BY <1>2 DEF AddVolumeHistory
  <2> HIDE DEF record
  <2> QED
    BY <2>1
<1>3. histories' = histories \/ \E t \in Txs : AddVolumeHistory(t)
  BY DEF Next, Step, ParseTx, IgnoreLog, AddReceipt, RecordAccounts, RecordTokenAccounts,
         FindVolume, AddVolume, AddTransaction, Crash, vars, database
<1> QED
  BY <1>1, <1>2, <1>3

\* What is done stays done.
LEMMA DoneStays ==
  ASSUME [Next]_vars
  PROVE  \A t, i : /\ AccountDone(t, i) => AccountDone(t, i)'
                   /\ HistoryDone(t, i) => HistoryDone(t, i)'
<1>0. logs' = logs
  BY InputStays
<1> TAKE t, i
<1>1. AccountDone(t, i) => AccountDone(t, i)'
  BY <1>0, SameReceipts, AccountsStay DEF AccountDone
<1>2. HistoryDone(t, i) => HistoryDone(t, i)'
  BY <1>0, SameReceipts, AccountsStay, HistoriesStay DEF HistoryDone
<1> QED
  BY <1>1, <1>2

\* Every step keeps the history true: a record is written for the trade that the
\* goroutine is at, whose account is in the list.
LEMMA HistoryInvStep ==
  ASSUME Types, PlaceInv, HistoryInv, ProgressInv, [Next]_vars PROVE HistoryInv'
<1>1. CASE histories' = histories
  BY <1>1, SameReceipts, AccountsStay DEF HistoryInv
<1>2. ASSUME NEW t \in Txs, AddVolumeHistory(t), histories' /= histories
      PROVE  HistoryInv'
  <2> DEFINE record == [key |-> HistoryKey(t), exchange |-> Log(t).contract,
                        account |-> Log(t).account, coin |-> Log(t).coin]
  <2>1. /\ histories' = {h \in histories : h.key /= record.key} \cup {record}
        /\ Log(t).account \notin ExchangeAccounts
    BY <1>2 DEF AddVolumeHistory
  <2>2. /\ pc[t] \in InTrade /\ pc[t] \in InLog /\ pc[t] /= "idle"
        /\ HasLog(t) /\ Accepted(Log(t)) /\ Log(t).kind \in Trades /\ status[t]
    BY <1>2 DEF AddVolumeHistory, InTrade, InLog, PlaceInv
  <2>3. idx[t] \in DOMAIN logs[t]
    BY <2>2, Receipts
  <2>4. HistoryKey(t) \in RewardedLogs(Txs)
    BY <2>1, <2>2, <2>3, Rewarded DEF HistoryKey, Log
  <2>5. record = RecordOf(HistoryKey(t))
    BY DEF RecordOf, HistoryKey, Log
  <2>6. AccountThere(record.exchange, record.account)
    <3>1. AccountDone(t, idx[t])
      BY <2>2 DEF ProgressInv
    <3>2. Accountable(Log(t))
      BY <2>2 DEF Accountable, Exchange
    <3> QED
      BY <2>2, <3>1, <3>2 DEF AccountDone, Log
  <2> HIDE DEF record
  <2> QED
    BY <2>1, <2>4, <2>5, <2>6, SameReceipts, AccountsStay DEF HistoryInv
<1>3. histories' = histories \/ \E t \in Txs : AddVolumeHistory(t)
  BY DEF Next, Step, ParseTx, IgnoreLog, AddReceipt, RecordAccounts, RecordTokenAccounts,
         FindVolume, AddVolume, AddTransaction, Crash, vars, database
<1> QED
  BY <1>1, <1>2, <1>3

\* How far one goroutine is
ProgressOf(t) ==
  pc[t] /= "idle" /\ status[t] =>
    /\ \A i \in DOMAIN logs[t] : i < idx[t] => LogDone(t, i)
    /\ pc[t] \in InTrade => AccountDone(t, idx[t])
    /\ pc[t] = "tokenAccount" /\ Log(t).kind = "Transfer" => AccountDone(t, idx[t])
    /\ pc[t] \in {"findVolume", "addVolume"} => HistoryDone(t, idx[t])

\* A goroutine goes on to the next log when its log is done.
LEMMA ProgressNext ==
  ASSUME Types, ProgressInv, [Next]_vars, NEW t \in Txs, pc[t] /= "idle", NextLog(t),
         \A i : i = idx[t] => LogDone(t, i)'
  PROVE  ProgressOf(t)'
<1>0. logs' = logs /\ status' = status
  BY InputStays
<1>1. pc'[t] = "log" /\ idx'[t] = idx[t] + 1 /\ idx[t] \in Nat
  BY DEF NextLog, GoTo, Types, TypeOK
<1>2. ASSUME status[t], NEW i \in DOMAIN logs[t], i < idx[t] + 1 PROVE LogDone(t, i)'
  <2>1. i \in Nat
    BY Receipts
  <2>2. CASE i = idx[t]
    BY <1>1, <2>2
  <2>3. CASE i < idx[t]
    BY <1>2, <2>3, DoneStays DEF ProgressInv, LogDone
  <2> QED
    BY <1>1, <1>2, <2>1, <2>2, <2>3
<1> QED
  BY <1>0, <1>1, <1>2 DEF ProgressOf, InTrade

\* Every step keeps the progress: what an action leaves behind is done.
LEMMA ProgressInvStep ==
  ASSUME Types, PlaceInv, ProgressInv, [Next]_vars PROVE ProgressInv'
<1>0. logs' = logs /\ status' = status
  BY InputStays
<1>1. CASE UNCHANGED vars
  <2>1. pc' = pc /\ idx' = idx
    BY <1>1 DEF vars, routine
  <2> QED
    BY <1>0, <2>1, DoneStays DEF ProgressInv, LogDone, Log
<1>2. CASE Crash
  BY <1>2 DEF Crash, ProgressInv
<1>3. ASSUME NEW t \in Txs,
             \/ ParseTx(t) \/ IgnoreLog(t) \/ AddReceipt(t) \/ RecordAccounts(t)
             \/ RecordTokenAccounts(t) \/ AddVolumeHistory(t) \/ FindVolume(t) \/ AddVolume(t)
             \/ AddTransaction(t)
      PROVE  ProgressInv'
  <2>0. ProgressOf(t)
    BY DEF ProgressOf, ProgressInv
  <2>p. PlaceOf(t)
    BY DEF PlaceOf, PlaceInv
  <2>t. pc \in [Txs -> {"idle", "log"} \cup InLog] /\ idx \in [Txs -> Nat \ {0}]
    BY DEF Types, TypeOK, InLog
  <2>1. ASSUME NEW u \in Txs, u /= t PROVE ProgressOf(u)'
    <3>1. pc'[u] = pc[u] /\ idx'[u] = idx[u]
      BY <1>3, <2>1, Elsewhere
    <3>2. ProgressOf(u)
      BY DEF ProgressOf, ProgressInv
    <3> QED
      BY <1>0, <3>1, <3>2, DoneStays DEF ProgressOf, LogDone, Log
  <2>s. ASSUME idx' = idx,
               status[t] => \A i \in DOMAIN logs[t] : i < idx[t] => LogDone(t, i)
        PROVE  status[t]' => \A i \in DOMAIN (logs[t]') : i < idx[t]' => LogDone(t, i)'
    BY <1>0, <2>s, DoneStays DEF LogDone
  <2>d. \A i : i = idx[t] => (AccountDone(t, i) => AccountDone(t, i)')
                             /\ (HistoryDone(t, i) => HistoryDone(t, i)')
    BY DoneStays
  <2>2. ProgressOf(t)'
    <3>1. CASE ParseTx(t)
      <4>1. pc'[t] = "log" /\ (status[t] => idx'[t] = 1)
        BY <2>t, <3>1 DEF ParseTx, GoTo
      <4>2. \A i \in DOMAIN logs[t] : ~(i < 1)
        BY Receipts
      <4> QED
        BY <1>0, <4>1, <4>2 DEF ProgressOf, InTrade
    <3>2. CASE IgnoreLog(t)
      <4>1. \A i : i = idx[t] => LogDone(t, i)
        BY <3>2 DEF IgnoreLog, LogDone, AccountDone, HistoryDone, Log
      <4> QED
        BY <3>2, <4>1, <2>d, ProgressNext DEF IgnoreLog, LogDone
    <3>3. CASE AddReceipt(t)
      <4>1. CASE NextLog(t)
        <5>1. pc'[t] = "log"
          BY <2>t, <4>1 DEF NextLog, GoTo
        <5>2. Log(t).kind \notin Exchange \cup {"Transfer"}
          BY <2>t, <3>3, <5>1 DEF AddReceipt, GoTo, Exchange, Trades
        <5>3. \A i : i = idx[t] => LogDone(t, i)
          BY <5>2 DEF LogDone, AccountDone, HistoryDone, Accountable, Exchange, Log
        <5> QED
          BY <3>3, <4>1, <5>3, <2>d, ProgressNext DEF AddReceipt, LogDone
      <4>2. CASE ~NextLog(t)
        <5>1. idx' = idx /\ pc[t] = "log"
          BY <3>3, <4>2 DEF AddReceipt
        <5>2. \/ pc'[t] = "tokenAccount" /\ Log(t).kind = "TokenPurchase"
              \/ pc'[t] = "account"
          BY <2>t, <3>3, <4>2 DEF AddReceipt, GoTo
        <5> QED
          BY <1>0, <2>0, <2>s, <5>1, <5>2 DEF ProgressOf, InTrade, Log
      <4> QED
        BY <4>1, <4>2
    <3>4. CASE RecordAccounts(t)
      <4>0. pc[t] = "account" /\ Log(t).kind \in Exchange \cup {"Transfer"}
        BY <2>p, <3>4 DEF RecordAccounts, PlaceOf
      <4>1. \A i : i = idx[t] => AccountDone(t, i)'
        <5>1. CASE accounts' = accounts \cup {<<Log(t).contract, Log(t).account>>}
          BY <1>0, <5>1, SameReceipts DEF AccountDone, AccountThere, Log
        <5>2. CASE missed' = missed \cup {<<t, idx[t], "account">>}
          <6>1. \E m \in missed' : m[3] = "account" /\ logs[m[1]][m[2]].account = Log(t).account
            <7>1. <<t, idx[t], "account">> \in missed'
              BY <5>2
            <7>2. logs[<<t, idx[t], "account">>[1]][<<t, idx[t], "account">>[2]] = Log(t)
              BY DEF Log
            <7> QED
              BY <7>1, <7>2
          <6> QED
            BY <1>0, <6>1, SameReceipts DEF AccountDone, AccountThere, Missed, Log
        <5>3. CASE ~Accountable(Log(t))
          BY <1>0, <5>3, SameReceipts DEF AccountDone, Log
        <5> QED
          BY <3>4, <5>1, <5>2, <5>3 DEF RecordAccounts, GiveUp
      <4>2. CASE NextLog(t)
        <5>1. pc'[t] = "log"
          BY <2>t, <4>2 DEF NextLog, GoTo
        <5>2. Log(t).kind \notin Trades \/ OnlySyncAccount
          BY <2>t, <3>4, <5>1 DEF RecordAccounts, GoTo
        <5>3. \A i : i = idx[t] => HistoryDone(t, i)
          BY <5>2 DEF HistoryDone, Log
        <5> QED
          BY <4>0, <4>1, <4>2, <5>3, <2>d, ProgressNext DEF LogDone
      <4>3. CASE ~NextLog(t)
        <5>1. idx' = idx
          BY <3>4, <4>3 DEF RecordAccounts
        <5>2. pc'[t] \in {"tokenAccount", "history"}
          BY <2>t, <3>4, <4>3 DEF RecordAccounts, GoTo
        <5>3. AccountDone(t, idx[t])'
          BY <4>1, <5>1
        <5> QED
          BY <1>0, <2>0, <2>s, <4>0, <5>1, <5>2, <5>3 DEF ProgressOf, InTrade, Log
      <4> QED
        BY <4>2, <4>3
    <3>5. CASE RecordTokenAccounts(t)
      <4>0. pc[t] = "tokenAccount" /\ (status[t] => (Log(t).kind = "Transfer" => AccountDone(t, idx[t])))
            /\ HasLog(t) /\ status[t]
        BY <2>0, <2>p, <3>5 DEF RecordTokenAccounts, PlaceOf, ProgressOf, InLog
      <4>1. CASE NextLog(t)
        <5>1. pc'[t] = "log"
          BY <2>t, <4>1 DEF NextLog, GoTo
        <5>2. Log(t).kind = "Transfer"
          BY <2>t, <3>5, <5>1 DEF RecordTokenAccounts, GoTo
        <5>3. \A i : i = idx[t] => LogDone(t, i)
          BY <4>0, <5>2 DEF LogDone, HistoryDone, Trades, Log
        <5> QED
          BY <4>0, <4>1, <5>3, <2>d, ProgressNext DEF LogDone
      <4>2. CASE ~NextLog(t)
        <5>1. idx' = idx /\ pc'[t] = "account"
          BY <2>t, <3>5, <4>2 DEF RecordTokenAccounts, GoTo
        <5> QED
          BY <1>0, <2>0, <2>s, <4>0, <5>1 DEF ProgressOf, InTrade
      <4> QED
        BY <4>1, <4>2
    <3>6. CASE AddVolumeHistory(t)
      <4>0. pc[t] = "history" /\ HasLog(t) /\ status[t] /\ AccountDone(t, idx[t])
        BY <2>0, <2>p, <3>6 DEF AddVolumeHistory, PlaceOf, ProgressOf, InLog, InTrade
      <4>1. \A i : i = idx[t] => HistoryDone(t, i)'
        <5> DEFINE record == [key |-> HistoryKey(t), exchange |-> Log(t).contract,
                              account |-> Log(t).account, coin |-> Log(t).coin]
        <5>1. CASE Log(t).account \in ExchangeAccounts
          BY <1>0, <5>1 DEF HistoryDone, Log
        <5>2. CASE histories' = {h \in histories : h.key /= record.key} \cup {record}
          <6>1. record \in histories' /\ record.key = <<t, idx[t]>>
            BY <5>2 DEF HistoryKey
          <6> HIDE DEF record
          <6> QED
            BY <6>1 DEF HistoryDone
        <5>3. CASE missed' = missed \cup {<<t, idx[t], "history">>}
          BY <5>3 DEF HistoryDone
        <5> QED
          BY <3>6, <5>1, <5>2, <5>3 DEF AddVolumeHistory, GiveUp
      <4>2. CASE NextLog(t)
        BY <4>0, <4>1, <4>2, <2>d, ProgressNext DEF LogDone
      <4>3. CASE ~NextLog(t)
        <5>1. idx' = idx /\ pc'[t] = "findVolume"
          BY <2>t, <3>6, <4>3 DEF AddVolumeHistory, GoTo
        <5>2. AccountDone(t, idx[t])' /\ HistoryDone(t, idx[t])'
          BY <2>d, <4>0, <4>1, <5>1
        <5> QED
          BY <1>0, <2>0, <2>s, <4>0, <5>1, <5>2 DEF ProgressOf, InTrade
      <4> QED
        BY <4>2, <4>3
    <3>7. CASE FindVolume(t)
      <4>0. pc[t] = "findVolume" /\ status[t] /\ AccountDone(t, idx[t]) /\ HistoryDone(t, idx[t])
        BY <2>0, <2>p, <3>7 DEF FindVolume, PlaceOf, ProgressOf, InLog, InTrade
      <4>1. idx' = idx /\ pc'[t] = "addVolume"
        BY <2>t, <3>7 DEF FindVolume, GoTo
      <4>2. AccountDone(t, idx[t])' /\ HistoryDone(t, idx[t])'
        BY <2>d, <4>0, <4>1
      <4> QED
        BY <1>0, <2>0, <2>s, <4>0, <4>1, <4>2 DEF ProgressOf, InTrade
    <3>8. CASE AddVolume(t)
      <4>0. pc[t] = "addVolume" /\ status[t] /\ AccountDone(t, idx[t]) /\ HistoryDone(t, idx[t])
        BY <2>0, <2>p, <3>8 DEF AddVolume, PlaceOf, ProgressOf, InLog, InTrade
      <4>1. CASE NextLog(t)
        BY <2>d, <4>0, <4>1, ProgressNext DEF LogDone
      <4>2. CASE ~NextLog(t)
        <5>1. idx' = idx /\ pc'[t] = "findVolume"
          BY <2>t, <3>8, <4>2 DEF AddVolume, GoTo
        <5>2. AccountDone(t, idx[t])' /\ HistoryDone(t, idx[t])'
          BY <2>d, <4>0, <5>1
        <5> QED
          BY <1>0, <2>0, <2>s, <4>0, <5>1, <5>2 DEF ProgressOf, InTrade
      <4> QED
        BY <4>1, <4>2
    <3>9. CASE AddTransaction(t)
      <4>1. pc'[t] = "idle"
        BY <2>t, <3>9 DEF AddTransaction, GoTo
      <4> QED
        BY <4>1 DEF ProgressOf
    <3> QED
      BY <1>3, <3>1, <3>2, <3>3, <3>4, <3>5, <3>6, <3>7, <3>8, <3>9
  <2>3. \A u \in Txs : ProgressOf(u)'
    BY <2>1, <2>2
  <2> QED
    BY <2>3 DEF ProgressOf, ProgressInv
<1> QED
  BY <1>1, <1>2, <1>3, Cases

\* Every step keeps what is said of parsed and stored transactions: both happen when
\* no log is left.
LEMMA CompleteInvStep ==
  ASSUME Types, PlaceInv, ProgressInv, CompleteInv, [Next]_vars PROVE CompleteInv'
<1>0. logs' = logs /\ status' = status
  BY InputStays
<1>1. CASE complete' = complete /\ saved' = saved
  BY <1>0, <1>1, DoneStays, SameReceipts DEF CompleteInv, LogDone
<1>2. ASSUME NEW t \in Txs, AddTransaction(t) PROVE CompleteInv'
  <2>1. /\ complete' = complete \cup {t}
        /\ \/ saved' = saved
           \/ saved' = saved \cup {t} /\ ~OnlySyncAccount
    BY <1>2 DEF AddTransaction
  <2>2. ASSUME status[t], NEW i \in DOMAIN logs[t] PROVE LogDone(t, i)'
    <3>1. pc[t] /= "idle" /\ idx[t] > Len(logs[t])
      BY <1>2, Receipts DEF AddTransaction, HasLog
    <3>2. i < idx[t]
      BY <3>1, Receipts
    <3> QED
      BY <2>2, <3>1, <3>2, DoneStays DEF ProgressInv, LogDone
  <2> QED
    BY <1>0, <2>1, <2>2, DoneStays, SameReceipts DEF CompleteInv, LogDone
<1>3. (complete' = complete /\ saved' = saved) \/ \E t \in Txs : AddTransaction(t)
  BY DEF Next, Step, ParseTx, IgnoreLog, AddReceipt, RecordAccounts, RecordTokenAccounts,
         AddVolumeHistory, FindVolume, AddVolume, Crash, vars, database, history
<1> QED
  BY <1>1, <1>2, <1>3

----------------------------------------------------------------------------
\* What the invariant says of the database

\* A stored transaction has its trades in the history.
LEMMA InvSaved ==
  ASSUME IInv PROVE SavedIsComplete
<1> SUFFICES ASSUME NEW t \in saved, NEW x \in RewardedLogs({t})
             PROVE  (\E h \in histories : h.key = x) \/ <<x[1], x[2], "history">> \in missed
  BY DEF SavedIsComplete
<1>1. t \in Txs /\ t \in complete /\ ~OnlySyncAccount
  BY DEF IInv, CompleteInv, Types, TypeOK
<1>2. PICK i \in DOMAIN logs[t] :
        /\ x = <<t, i>> /\ status[t]
        /\ Accepted(logs[t][i]) /\ logs[t][i].kind \in Trades
        /\ logs[t][i].account \notin ExchangeAccounts
  <2>1. {t} \in SUBSET Txs
    BY <1>1
  <2> QED
    BY <2>1, Rewarded
<1>3. HistoryDone(t, i)
  BY <1>1, <1>2 DEF IInv, CompleteInv, LogDone
<1> QED
  BY <1>1, <1>2, <1>3 DEF HistoryDone

\* Who has volume, or was given liquidity, is in the list of accounts.
LEMMA InvAccounts ==
  ASSUME IInv PROVE TradersAreAccounts
<1>1. \A h \in histories :
        <<h.exchange, h.account>> \in accounts \/ Missed("account", h.account)
  BY DEF IInv, HistoryInv, AccountThere
<1>2. ASSUME NEW t \in complete, NEW l \in LiquidityGiven(t)
      PROVE  <<l.contract, l.account>> \in accounts \/ Missed("account", l.account)
  <2>1. /\ status[t] /\ l \in Range(logs[t]) /\ Accepted(l)
        /\ l.contract \in {"exchange", "inFactory"} /\ l.kind \in {"Transfer", "AddLiquidity"}
    BY <1>2 DEF LiquidityGiven
  <2>2. PICK i \in DOMAIN logs[t] : l = logs[t][i]
    BY <2>1 DEF Range
  <2>3. AccountDone(t, i)
    BY <2>1, <2>2 DEF IInv, CompleteInv, LogDone
  <2>4. Accountable(l)
    BY <2>1 DEF Accountable, Exchange
  <2> QED
    BY <2>1, <2>2, <2>3, <2>4 DEF AccountDone, AccountThere
<1> QED
  BY <1>1, <1>2 DEF TradersAreAccounts

\* The coins of a log
CoinOf(x) == logs[x[1]][x[2]].coin

\* Of the logs of an account with an exchange, those that have a record
TradesOf(T, e, a) ==
  {x \in RewardedLogs(T) : logs[x[1]][x[2]].contract = e /\ logs[x[1]][x[2]].account = a}
KeysOf(e, a) == {h.key : h \in {r \in histories : r.exchange = e /\ r.account = a}}

\* The coins of the records of an account are those of the logs that they name.
LEMMA CoinsByKey ==
  ASSUME IInv, NEW e, NEW a
  PROVE  /\ KeysOf(e, a) \in SUBSET TradesOf(Txs, e, a)
         /\ RecordedCoins(e, a) = SumFunction([x \in KeysOf(e, a) |-> CoinOf(x)])
<1> DEFINE H == {r \in histories : r.exchange = e /\ r.account = a}
           K == KeysOf(e, a)
           k == [h \in H |-> h.key]
           f == [h \in H |-> h.coin]
           g == [x \in K |-> CoinOf(x)]
<1>1. \A h \in H : /\ h.key \in RewardedLogs(Txs) /\ h = RecordOf(h.key)
  BY DEF IInv, HistoryInv, RecordOf
<1>2. K \in SUBSET TradesOf(Txs, e, a)
  BY <1>1 DEF KeysOf, TradesOf, RecordOf
<1>3. \A x \in RewardedLogs(Txs) : CoinOf(x) \in Nat
  BY Rewarded, Receipts DEF IInv, CoinOf
<1>4. IsFiniteSet(RewardedLogs(Txs))
  <2>1. Types /\ Txs \in SUBSET Txs
    BY DEF IInv
  <2> QED
    BY <2>1, FiniteTrades
<1>5. IsFiniteSet(K)
  <2>1. K \in SUBSET RewardedLogs(Txs)
    BY <1>2 DEF TradesOf
  <2> QED
    BY <1>4, <2>1, FS_Subset
<1>6. k \in [H -> K] /\ K = {k[h] : h \in H}
  BY DEF KeysOf
<1>7. \A p, q \in H : k[p] = k[q] => p = q
  BY <1>1
<1>8. IsFiniteSet(H)
  <2>1. k \in Injection(H, K)
    <3> HIDE DEF k, H, K
    <3> QED
      BY <1>6, <1>7 DEF Injection, IsInjective
  <2> HIDE DEF k, H, K
  <2> QED
    BY <1>5, <2>1, FS_Injection
<1>9. \A h \in H : h.coin = CoinOf(h.key) /\ h.coin \in Nat
  BY <1>1, <1>3 DEF RecordOf, CoinOf
<1>10. f \in [H -> Nat] /\ g \in [K -> Nat] /\ \A h \in H : g[k[h]] = f[h]
  BY <1>6, <1>9 DEF KeysOf
<1>11. SumFunction(f) = SumFunction(g)
  <2> HIDE DEF H, K, k, f, g
  <2> QED
    BY <1>5, <1>6, <1>7, <1>8, <1>10, SumImage
<1>12. RecordedCoins(e, a) = SumFunction(f)
  BY DEF RecordedCoins
<1> QED
  BY <1>2, <1>11, <1>12

\* A part of the logs has no more coins than all of them.
LEMMA CoinsOfPart ==
  ASSUME NEW S, IsFiniteSet(S), \A x \in S : CoinOf(x) \in Nat, NEW R \in SUBSET S
  PROVE  SumFunction([x \in R |-> CoinOf(x)]) <= SumFunction([x \in S |-> CoinOf(x)])
<1> DEFINE f == [x \in S |-> CoinOf(x)]
<1>1. f \in [S -> Nat]
  OBVIOUS
<1>2. SumFunction([x \in R |-> f[x]]) <= SumFunction(f)
  <2> HIDE DEF f
  <2> QED
    BY <1>1, SumOfPart
<1>3. [x \in R |-> f[x]] = [x \in R |-> CoinOf(x)]
  OBVIOUS
<1> QED
  BY <1>2, <1>3

\* Every trade is counted at most once, and those of a parsed transaction are.
LEMMA InvHistory ==
  ASSUME IInv PROVE HistoryCountsOnce
<1> SUFFICES ASSUME NEW e, NEW a
             PROVE  /\ RecordedCoins(e, a) <= CoinsOfAccount(Txs, e, a)
                    /\ missed = {} /\ ~OnlySyncAccount
                         => RecordedCoins(e, a) >= CoinsOfAccount(complete, e, a)
  BY DEF HistoryCountsOnce
<1> DEFINE K == KeysOf(e, a)
           Sum(S) == SumFunction([x \in S |-> CoinOf(x)])
<1>t. Types /\ complete \in SUBSET Txs /\ Txs \in SUBSET Txs
  BY DEF IInv, Types, TypeOK
<1>1. K \in SUBSET TradesOf(Txs, e, a) /\ RecordedCoins(e, a) = Sum(K)
  BY CoinsByKey
<1>2. \A T : CoinsOfAccount(T, e, a) = Sum(TradesOf(T, e, a))
  BY DEF CoinsOfAccount, CoinsOf, TradesOf, CoinOf
<1>3. \A x \in RewardedLogs(Txs) : CoinOf(x) \in Nat
  BY <1>t, Rewarded, Receipts DEF CoinOf
<1>4. IsFiniteSet(TradesOf(Txs, e, a)) /\ \A x \in TradesOf(Txs, e, a) : CoinOf(x) \in Nat
  <2>1. TradesOf(Txs, e, a) \in SUBSET RewardedLogs(Txs)
    BY DEF TradesOf
  <2> QED
    BY <1>t, <1>3, <2>1, FiniteTrades, FS_Subset
<1>5. Sum(K) <= Sum(TradesOf(Txs, e, a))
  <2> HIDE DEF K
  <2> QED
    BY <1>1, <1>4, CoinsOfPart
<1>6. ASSUME missed = {}, ~OnlySyncAccount
      PROVE  Sum(TradesOf(complete, e, a)) <= Sum(K)
  <2>1. TradesOf(complete, e, a) \in SUBSET K
    <3> SUFFICES ASSUME NEW x \in TradesOf(complete, e, a) PROVE x \in K
      OBVIOUS
    <3>1. PICK t \in complete : \E i \in DOMAIN logs[t] :
            /\ x = <<t, i>> /\ status[t]
            /\ Accepted(logs[t][i]) /\ logs[t][i].kind \in Trades
            /\ logs[t][i].account \notin ExchangeAccounts
      BY <1>t, Rewarded DEF TradesOf
    <3>2. PICK i \in DOMAIN logs[t] :
            /\ x = <<t, i>> /\ status[t]
            /\ Accepted(logs[t][i]) /\ logs[t][i].kind \in Trades
            /\ logs[t][i].account \notin ExchangeAccounts
      BY <3>1
    <3>3. HistoryDone(t, i)
      BY <3>2 DEF IInv, CompleteInv, LogDone
    <3>4. PICK h \in histories : h.key = x
      BY <1>6, <3>2, <3>3 DEF HistoryDone
    <3>5. h = RecordOf(x)
      BY <3>4 DEF IInv, HistoryInv, RecordOf
    <3> QED
      BY <3>4, <3>5 DEF KeysOf, TradesOf, RecordOf
  <2>2. IsFiniteSet(K) /\ \A x \in K : CoinOf(x) \in Nat
    BY <1>1, <1>4, FS_Subset
  <2> HIDE DEF K
  <2> QED
    BY <2>1, <2>2, CoinsOfPart
<1> QED
  BY <1>1, <1>2, <1>5, <1>6

----------------------------------------------------------------------------
\* The theorems

\* The invariant holds in every state the parser reaches.
THEOREM Inductive == Spec => []IInv
<1>1. ASSUME IInv, [Next]_vars PROVE IInv'
  <2>1. Types /\ PlaceInv /\ HistoryInv /\ ProgressInv /\ CompleteInv
    BY <1>1 DEF IInv
  <2> QED
    BY <1>1, <2>1, TypesStep, PlaceInvStep, HistoryInvStep, ProgressInvStep, CompleteInvStep
       DEF IInv
<1> QED
  BY InitIInv, <1>1, PTL DEF Spec

\* Variables keep their types: parsing never leaves the log it is at undefined, and the
\* faults and crashes stay within their bounds.
THEOREM TypeCorrect == Spec => []TypeOK
<1>1. IInv => TypeOK
  BY DEF IInv, Types
<1> QED
  BY Inductive, <1>1, PTL

\* However often a transaction is parsed, its trades are counted at most once, and if no
\* record was given up, exactly once when it was parsed to its end (addVolumeHistory).
THEOREM TradesCountOnce == Spec => []HistoryCountsOnce
<1>1. IInv => HistoryCountsOnce
  BY InvHistory
<1> QED
  BY Inductive, <1>1, PTL

\* A transaction is stored last: its trades are in the history, or were given up after
\* three tries (parseTx, addMgoTransaction).
THEOREM SavedLast == Spec => []SavedIsComplete
<1>1. IInv => SavedIsComplete
  BY InvSaved
<1> QED
  BY Inductive, <1>1, PTL

\* The list of accounts has everybody who has volume or was given liquidity
\* (recordAccounts comes before the history).
THEOREM NobodyForgotten == Spec => []TradersAreAccounts
<1>1. IInv => TradersAreAccounts
  BY InvAccounts
<1> QED
  BY Inductive, <1>1, PTL
=============================================================================
