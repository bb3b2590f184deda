--------------------------- MODULE LiquidRewards ---------------------------
(***************************************************************************)
(* Rewards by liquidity (src/distributer/byliquidity.go, option.go,        *)
(* mongodb/api.go): the liquidity of every account of every exchange is    *)
(* read from the chain, or from the database where an earlier attempt has  *)
(* left it, turned into coins, and the total is divided by weighted share  *)
(* among the exchanges and their accounts.  Input files replace all of the *)
(* reading.                                                                *)
(*                                                                         *)
(* In archive mode everything is read at the sample height; without it     *)
(* every request reads the latest block, while people move their           *)
(* liquidity.                                                              *)
(***************************************************************************)
EXTENDS Settlement

CONSTANTS
  LiquidSetups,     \* the settlements to look at: a set of records, see IsLiquidSetup
  TotalValue,       \* Option.TotalValue
  Balances,         \* values of the liquidity of an account
  MaxMoves          \* bound: transfers of liquidity while the job runs

\* The part of the configuration a settlement uses, and what it finds.
IsLiquidSetup(s) ==
  /\ s.archiveMode \in BOOLEAN
  /\ s.weights \in [1 .. Exchanges -> Nat \ {0}]  \* the weight of each exchange
  /\ s.listed \subseteq Accounts      \* the accounts in the Accounts collection
  /\ s.excluded \subseteq Accounts    \* accounts that get no reward
  /\ s.coins \subseteq Nat            \* values of the coin balance of an exchange
  /\ s.files \in Seq(Seq(Accounts \X Int))  \* the lines of the input files, if any
  /\ s.maxCrashes \in Nat            \* bound: the job is started again

ASSUME LiquidRewardsAssumption ==
  /\ Balances \subseteq Nat
  /\ {TotalValue, MaxMoves} \subseteq Nat
  /\ \A s \in LiquidSetups : IsLiquidSetup(s)

NotRead == -1

VARIABLES
  sampled,      \* sampled[e][a]: liquidity at the sample height
  latest,       \* latest[e][a]: liquidity at the latest block
  balances,     \* the LiquidityBalances collection
  value,        \* value[e][a]: what the job has read
  supply,       \* totalSupply the job has read, per exchange
  height,       \* the height under which it keeps what it reads
  moves, crashes

Listed      == setup.listed
Excluded    == setup.excluded
Weights     == setup.weights
ArchiveMode == setup.archiveMode

chain == <<setup, sampled, latest, coin>>
liquidVars  == <<chain, balances, pc, cur, value, supply, height, stats, sent, moves, crashes>>

LiquidInit ==
  /\ setup \in LiquidSetups
  /\ sampled \in [Ex -> [Accounts -> Balances]]
  /\ latest = sampled
  /\ coin \in [Ex -> setup.coins]
  /\ balances = {}
  /\ NothingSettled
  /\ value = [e \in Ex |-> [a \in Accounts |-> NotRead]]
  /\ supply = [e \in Ex |-> 0] /\ height = 0
  /\ moves = 0 /\ crashes = 0

\* Mutant: the latest block even in archive mode.
AtHeightLatest == latest

\* The state of the chain a request is answered from
AtHeight == IF ArchiveMode THEN sampled ELSE latest

----------------------------------------------------------------------------
\* ByLiquidity: no rewards or an option check that fails ends it.
CheckLiquidOption ==
  /\ pc = "start"
  /\ \/ TotalValue > 0 /\ pc' = IF setup.files = <<>> THEN "supply" ELSE "files"
     \/ pc' = "failed"
  /\ UNCHANGED <<chain, balances, cur, value, supply, height, stats, sent, moves, crashes>>

\* GetAccountsAndSharesFromFile: a share of zero is skipped, and an account that comes
\* twice is kept twice; the order is the file's.
SharesFromFile(lines) ==
  LET kept == {i \in DOMAIN lines : lines[i][1] \notin Excluded /\ lines[i][2] > 0}
      read == Enumerate(kept, {p \in kept \X kept : p[1] < p[2]})
  IN  [k \in DOMAIN read |->
         [account |-> lines[read[k]][1], share |-> lines[read[k]][2], reward |-> NoReward]]

\* GetAccountsAndShares: one file for every exchange, or an error
GetAccountsAndShares ==
  /\ pc = "files"
  /\ IF Len(setup.files) = Exchanges
       THEN stats' = [e \in Ex |-> SharesFromFile(setup.files[e])] /\ pc' = "calc"
       ELSE pc' = "failed" /\ UNCHANGED stats
  /\ UNCHANGED <<chain, balances, cur, value, supply, height, sent, moves, crashes>>

\* The latest height, if there is no sample: every transfer is in a new block.
Height == IF ArchiveMode THEN 0 ELSE moves

\* getLiquidityBalancesOfExchange: height, total supply and coins, ...
GetExchangeLiquidity ==
  /\ pc = "supply"
  /\ IF cur <= Exchanges
       THEN /\ supply' = [supply EXCEPT ![cur] = SumFunction(AtHeight[cur])]
            /\ height' = Height
            /\ pc' = "balance"
       ELSE pc' = "calc" /\ UNCHANGED <<supply, height>>
  /\ UNCHANGED <<chain, balances, cur, value, stats, sent, moves, crashes>>

\* FindLiquidityBalance: what the database has for the account at the height
Cached(a) ==
  {b \in balances : b.exchange = cur /\ b.account = a /\ b.height = height}

Record(a, liquidity) ==
  [exchange |-> cur, account |-> a, height |-> height, liquidity |-> liquidity]

\* ... then one account after the other, from the database if it is there (and the
\* query does not fail), else from the chain.  AddLiquidityBalance inserts, so that
\* an older record stays, and its error is dropped.
GetLiquidityBalance ==
  /\ pc = "balance"
  /\ \E a \in Listed :
       /\ value[cur][a] = NotRead
       /\ \A b \in Listed : b < a => value[cur][b] /= NotRead
       /\ \E found \in {b.liquidity : b \in Cached(a)} \cup {AtHeight[cur][a]} :
            /\ value' = [value EXCEPT ![cur][a] = found]
            /\ \/ UNCHANGED balances
               \/ Cached(a) = {} /\ balances' = balances \cup {Record(a, found)}
  /\ UNCHANGED <<chain, pc, cur, supply, height, stats, sent, moves, crashes>>

\* The liquidity of an account, in coins
CoinBalance(e, a) ==
  IF supply[e] > 0 THEN (value[e][a] * coin[e]) \div supply[e] ELSE value[e][a] * coin[e]

\* All accounts are read; whether the list is complete is worked out and dropped.
EndExchange ==
  /\ pc = "balance"
  /\ \A a \in Listed : value[cur][a] /= NotRead
  /\ stats' = [stats EXCEPT ![cur] = ConvertToSortedSlice(
       {[account |-> a, share |-> CoinBalance(cur, a), reward |-> NoReward] :
          a \in Listed \ Excluded})]
  /\ cur' = cur + 1
  /\ pc' = "supply"
  /\ UNCHANGED <<chain, balances, value, supply, height, sent, moves, crashes>>

\* CalcWeightedRewards
CalcStats ==
  /\ pc = "calc"
  /\ stats' = CalcWeightedRewards(stats, TotalValue, Weights)
  /\ pc' = "send" /\ cur' = 1
  /\ UNCHANGED <<chain, balances, value, supply, height, sent, moves, crashes>>

\* dispatchRewards
SendLiquidRewards ==
  /\ DispatchRewards
  /\ UNCHANGED <<sampled, latest, balances, value, supply, height, moves, crashes>>

----------------------------------------------------------------------------
\* Somebody gives a unit of liquidity to somebody else.
Move ==
  /\ moves < MaxMoves /\ pc \notin {"start", "failed", "done"}
  /\ moves' = moves + 1
  /\ \E e \in Ex, a, b \in Accounts :
       /\ a /= b /\ latest[e][a] > 0
       /\ latest' = [latest EXCEPT ![e][a] = @ - 1, ![e][b] = @ + 1]
  /\ UNCHANGED <<setup, sampled, coin, balances, pc, cur, value, supply, height, stats, sent, crashes>>

\* The job dies while it reads and is started again; the database stays.
Restart ==
  /\ crashes < setup.maxCrashes /\ pc \in {"supply", "balance"}
  /\ crashes' = crashes + 1
  /\ pc' = "start" /\ cur' = 1
  /\ value' = [e \in Ex |-> [a \in Accounts |-> NotRead]]
  /\ supply' = [e \in Ex |-> 0] /\ height' = 0
  /\ stats' = [e \in Ex |-> <<>>]
  /\ UNCHANGED <<chain, balances, sent, moves>>

LiquidNext ==
  \/ CheckLiquidOption
  \/ GetAccountsAndShares
  \/ GetExchangeLiquidity
  \/ GetLiquidityBalance
  \/ EndExchange
  \/ CalcStats
  \/ SendLiquidRewards
  \/ Move
  \/ Restart

LiquidSpec == LiquidInit /\ [][LiquidNext]_liquidVars

----------------------------------------------------------------------------
\* Properties

\* Only accounts that may be rewarded have a share, and it is positive.
LiquidTypeOK ==
  /\ pc \in {"start", "failed", "files", "supply", "balance", "calc", "send", "done"}
  /\ cur \in 1 .. Exchanges + 1
  /\ \A e \in Ex : \A i \in DOMAIN stats[e] :
       /\ stats[e][i].account \in Accounts \ Excluded
       /\ stats[e][i].share > 0
       /\ stats[e][i].reward \in Nat \cup {NoReward}
  /\ sent \in [Ex -> Nat]

\* If anybody has a share, the whole total is sent, except a unit that rounding may
\* give to an exchange without accounts.
SentIsTotal ==
  pc = "done" =>
    LET empty == {e \in Ex : stats[e] = <<>>}
    IN  IF empty = Ex THEN SumFunction(sent) = 0
        ELSE /\ SumFunction(sent) <= TotalValue
             /\ SumFunction(sent) >= TotalValue - Cardinality(empty)

\* In archive mode all shares come from the sample height, whatever is moved
\* meanwhile and however often the job is started again (unless they come from files).
SharesFromSample ==
  ArchiveMode /\ setup.files = <<>> =>
    \A e \in Ex : \A i \in DOMAIN stats[e] :
      LET total == SumFunction(sampled[e])
          held  == sampled[e][stats[e][i].account] * coin[e]
      IN  stats[e][i].share = IF total > 0 THEN held \div total ELSE held

\* Equal treatment across exchanges: with equal weights, equal shares are paid the
\* same, up to the two divisions by which they are computed.  Each may be almost two
\* units off the exact proportion, to either side.
EqualShareEqualReward ==
  pc \in {"send", "done"} =>
    \A d, e \in Ex : \A i \in DOMAIN stats[d], j \in DOMAIN stats[e] :
      Weights[d] = Weights[e] /\ stats[d][i].share = stats[e][j].share
        => Paid(stats[d][i]) - Paid(stats[e][j]) <= 3
=============================================================================
