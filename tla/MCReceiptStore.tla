--------------------------- MODULE MCReceiptStore --------------------------
(* Receipts of one or two logs: purchases in both directions, by traders   *)
(* and by an exchange, transfers of liquidity, and logs that record        *)
(* nothing; on the configured exchange and on one that is only scanned.    *)
EXTENDS ReceiptStore

L(kind, contract, account, coin) ==
  [kind |-> kind, contract |-> contract, account |-> account, coin |-> coin]

Lists ==
  {<<L("TokenPurchase", "exchange", "a", 1), L("EthPurchase", "exchange", "b", 2)>>,
   <<L("Transfer", "exchange", "b", 0), L("TokenPurchase", "exchange", "x", 3)>>,
   <<L("EthPurchase", "inFactory", "a", 3), L("AddLiquidity", "exchange", "a", 0)>>}

OtherLists ==
  {<<L("CreateExchange", "other", "a", 0), L("Approval", "exchange", "c", 0),
     L("Swap", "routed", "c", 0)>>}

ScannedLists ==
  {<<L("TokenPurchase", "inFactory", "a", 1), L("Transfer", "inFactory", "b", 0)>>,
   <<L("Transfer", "token", "b", 0), L("EthPurchase", "other", "a", 2)>>}

TradeLists ==
  {<<L("TokenPurchase", "exchange", "a", 1)>>, <<L("EthPurchase", "exchange", "b", 2)>>}

Faulty == [logLists |-> Lists, onlySyncAccount |-> FALSE, updateVolume |-> TRUE,
           scanAllExchange |-> FALSE, recordTokenAccount |-> FALSE,
           maxCrashes |-> 0, maxFaults |-> 1]

MCSetups ==
  {Faulty,
   [Faulty EXCEPT !.logLists = Lists \cup OtherLists, !.maxCrashes = 1, !.maxFaults = 0],
   [Faulty EXCEPT !.onlySyncAccount = TRUE, !.maxCrashes = 1],
   [Faulty EXCEPT !.updateVolume = FALSE, !.maxCrashes = 1],
   [Faulty EXCEPT !.logLists = ScannedLists, !.scanAllExchange = TRUE,
                  !.recordTokenAccount = TRUE]}

Simple == {[Faulty EXCEPT !.logLists = TradeLists, !.maxFaults = 0]}
=============================================================================
