--------------------------- MODULE VolumeRewards ---------------------------
(***************************************************************************)
(* Rewards by volume (src/distributer/byvolume.go, option.go): the volumes *)
(* of every exchange are turned into a provisional reward per account,     *)
(* each exchange as if it were alone; the total, less the reward of the    *)
(* steps in which nobody traded, is then divided among the exchanges and   *)
(* each exchange's part spread again over its accounts; at last the        *)
(* rewards are sent, exchange by exchange.                                 *)
(*                                                                         *)
(* Heights are counted in steps; the volume history of a step is summed    *)
(* per account, as FindAccountVolumes does, and the pools' coin balances   *)
(* at the sample height are inputs.                                        *)
(***************************************************************************)
EXTENDS Settlement, Params, FiniteSetsExt

CONSTANTS
  VolumeSetups,     \* the settlements to look at: a set of records, see IsVolumeSetup
  NoRewardAccounts, \* excluded accounts: they get no reward
  StepReward,       \* Option.StepReward
  Volumes           \* values of the volume of an account in a step

\* The options of a settlement and the part of the configuration it uses.
IsVolumeSetup(s) ==
  /\ s.steps \in Nat \ {0}          \* volume steps in the range that is settled
  /\ s.cycleSteps \in Nat \ {0}     \* volume steps in a liquidity cycle
  /\ s.useSteps \in BOOLEAN         \* StepCount /= 0
  /\ s.totalValue \in Nat           \* Option.TotalValue
  /\ s.weights \in [1 .. Exchanges -> Nat]
  /\ s.weightIsPercentage \in BOOLEAN
  /\ CheckTradeWeights(s.weights, s.weightIsPercentage)
  /\ s.stakers \subseteq Accounts   \* accounts in the staker list
  /\ {s.points, s.percents} \subseteq Seq(Nat)
  /\ CheckStakeConfig(s.points, s.percents)  \* <<>>, <<>>: no stake
  /\ s.coins \subseteq Nat /\ s.stakes \subseteq Nat  \* values of the inputs

ASSUME VolumeRewardsAssumption ==
  /\ StepReward \in Nat /\ Volumes \subseteq Nat
  /\ NoRewardAccounts \subseteq Accounts
  /\ \A s \in VolumeSetups : IsVolumeSetup(s)

VARIABLES
  volume,       \* volume[e][t][a]: coins a traded on e in step t
  stake,        \* stake[a]: whole coins a has staked
  noVolumeStartHeights, hasNoMissingVolumes, noVolumes,
  rewards       \* the part of each exchange

St == 1 .. setup.steps

Steps      == setup.steps
UseSteps   == setup.useSteps
Points     == setup.points
Stakers    == setup.stakers

inputs == <<setup, volume, coin, stake>>
volumeVars == <<inputs, pc, cur, stats, noVolumeStartHeights, hasNoMissingVolumes, noVolumes,
          rewards, sent>>

VolumeInit ==
  /\ setup \in VolumeSetups
  /\ volume \in [Ex -> [St -> [Accounts -> Volumes]]]
  /\ coin \in [Ex -> setup.coins]
  /\ stake \in [Accounts -> setup.stakes]
  /\ NothingSettled
  /\ noVolumeStartHeights = {} /\ hasNoMissingVolumes = FALSE /\ noVolumes = 0
  /\ rewards = <<>>

----------------------------------------------------------------------------
\* calcAddPercentOfStaking: the last point that is reached.
CalcAddPercentOfStaking(amount) ==
  LET reached == {i \in DOMAIN Points : amount >= Points[i]}
  IN  IF reached = {} THEN 0 ELSE Points[Max(reached)]

\* weightedByStakeAmount of one statistic
WeightedByStake(s) ==
  IF s.account \notin Stakers THEN s
  ELSE [s EXCEPT !.share =
          @ + (@ * CalcAddPercentOfStaking(stake[s.account])) \div 100]

\* FindAccountVolumes over the steps ts of exchange e
FindAccountVolumes(e, ts) ==
  ConvertToSortedSlice(
    {[account |-> a,
      share   |-> SumFunction([t \in ts |-> volume[e][t][a]]),
      reward  |-> NoReward] : a \in Accounts \ NoRewardAccounts})

\* getSingleCycleRewardsFromDB
SingleCycleRewards(total, e, ts) ==
  LET found    == FindAccountVolumes(e, ts)
      weighted == [i \in DOMAIN found |-> WeightedByStake(found[i])]
  IN  CalcRewards(weighted, total)

StepRewards == setup.totalValue \div Steps

\* GetAccountsAndRewardsFromDB: the steps added up per account.  A step in which
\* an account's reward is not positive does not count for it.
StatsOfSteps(e) ==
  LET cycle == [t \in St |-> SingleCycleRewards(StepRewards, e, {t})]
      paid(a, t) == {s \in Range(cycle[t]) : s.account = a /\ s.reward > 0}
      got == {a \in Accounts : \E t \in St : paid(a, t) /= {}}
      sum(a, f(_)) == SumFunction([t \in {u \in St : paid(a, u) /= {}} |->
                        f(CHOOSE s \in paid(a, t) : TRUE)])
  IN  ConvertToSortedSlice(
        {[account |-> a,
          share   |-> sum(a, LAMBDA s : s.share),
          reward  |-> sum(a, LAMBDA s : s.reward)] : a \in got})

NoVolumeStarts(e) == {t \in St : FindAccountVolumes(e, {t}) = <<>>}

\* Mutant: a step without volume on any one of the exchanges counts.
UpdateNoVolumesUnion(starts) == <<noVolumeStartHeights \cup starts, FALSE>>

\* updateNoVolumes: the result is <<noVolumeStartHeights, hasNoMissingVolumes>>.
UpdateNoVolumes(starts) ==
  CASE hasNoMissingVolumes -> <<noVolumeStartHeights, TRUE>>
    [] ~hasNoMissingVolumes /\ starts = {} -> <<{}, TRUE>>
    [] ~hasNoMissingVolumes /\ starts /= {} /\ noVolumeStartHeights = {} ->
         <<starts, FALSE>>
    [] OTHER -> LET both == noVolumeStartHeights \cap starts
                IN  <<both, both = {}>>

----------------------------------------------------------------------------
\* checkWeights: stricter than the check of the configuration
CheckWeights ==
  /\ \A e \in Ex : setup.weights[e] /= 0
  /\ setup.weightIsPercentage => SumFunction(setup.weights) = 100

\* ByVolume and checkAndInit: no rewards or an option check that fails ends it.
\* What the sender owns and how deep the range lies may fail it, too.
CheckVolumeOption ==
  /\ pc = "start"
  /\ \/ setup.totalValue > 0 /\ CheckWeights /\ pc' = "load"
     \/ pc' = "failed"
  /\ UNCHANGED <<inputs, cur, stats, noVolumeStartHeights, hasNoMissingVolumes,
                 noVolumes, rewards, sent>>

\* GetAccountsAndRewards of one exchange, from the database
LoadExchange ==
  /\ pc = "load" /\ cur <= Exchanges
  /\ cur' = cur + 1
  /\ IF UseSteps
       THEN /\ stats' = [stats EXCEPT ![cur] = StatsOfSteps(cur)]
            /\ noVolumeStartHeights' = UpdateNoVolumes(NoVolumeStarts(cur))[1]
            /\ hasNoMissingVolumes' = UpdateNoVolumes(NoVolumeStarts(cur))[2]
       ELSE /\ stats' = [stats EXCEPT ![cur] = SingleCycleRewards(setup.totalValue, cur, St)]
            /\ UNCHANGED <<noVolumeStartHeights, hasNoMissingVolumes>>
  /\ UNCHANGED <<inputs, pc, noVolumes, rewards, sent>>

\* The pool's coin balance, scaled when a part of a cycle is settled, limits the
\* volume that counts for an exchange.
ExchangeShare(e) ==
  LET volumes == CalcTotalShare(stats[e])
      limit   == IF Steps = setup.cycleSteps THEN coin[e] ELSE (coin[e] * Steps) \div setup.cycleSteps
      capped  == IF volumes > limit THEN limit ELSE volumes
  IN  IF volumes = 0 THEN 0 ELSE capped * setup.weights[e]

DivideVolumeRewards(total) ==
  CASE Exchanges = 1 -> <<total>>
    [] Exchanges > 1 /\ setup.weightIsPercentage -> SplitRewards(total, setup.weights)
    [] OTHER -> SplitRewards(total, [e \in Ex |-> ExchangeShare(e)])

Payable(novolumes) == setup.totalValue - StepReward * novolumes

\* ByVolume: subtract the steps without volume and divide the rest.
DivideTotal ==
  /\ pc = "load" /\ cur > Exchanges
  /\ noVolumes' = Cardinality(noVolumeStartHeights)
  /\ IF Payable(noVolumes') <= 0
       THEN pc' = "done" /\ UNCHANGED rewards
       ELSE /\ rewards' = DivideVolumeRewards(Payable(noVolumes'))
            /\ pc' = IF Len(rewards') = Exchanges THEN "calc" ELSE "done"
  /\ UNCHANGED <<inputs, cur, stats, noVolumeStartHeights, hasNoMissingVolumes, sent>>

\* CalcRewardsInBatch
CalcBatch ==
  /\ pc = "calc"
  /\ stats' = CalcRewardsInBatch(stats, rewards)
  /\ pc' = "send" /\ cur' = 1
  /\ UNCHANGED <<inputs, noVolumeStartHeights, hasNoMissingVolumes, noVolumes, rewards, sent>>

\* dispatchRewards
SendVolumeRewards ==
  /\ DispatchRewards
  /\ UNCHANGED <<volume, stake, noVolumeStartHeights, hasNoMissingVolumes, noVolumes, rewards>>

VolumeNext ==
  \/ CheckVolumeOption
  \/ LoadExchange
  \/ DivideTotal
  \/ CalcBatch
  \/ SendVolumeRewards

VolumeSpec == VolumeInit /\ [][VolumeNext]_volumeVars

----------------------------------------------------------------------------
TotalSent == SumFunction(sent)

\* Only accounts that are not excluded and have a share get a reward, and no
\* reward is negative.
VolumeTypeOK ==
  /\ pc \in {"start", "failed", "load", "calc", "send", "done"}
  /\ cur \in 1 .. Exchanges + 1
  /\ \A e \in Ex : \A i \in DOMAIN stats[e] :
       /\ stats[e][i].account \in Accounts \ NoRewardAccounts
       /\ stats[e][i].share > 0
       /\ stats[e][i].reward \in Nat \cup {NoReward}
  /\ noVolumeStartHeights \subseteq St /\ noVolumes \in 0 .. Steps
  /\ hasNoMissingVolumes \in BOOLEAN
  /\ rewards = <<>> \/ rewards \in [Ex -> Nat]
  /\ sent \in [Ex -> Nat]

\* "no volume is intersection set of all exchanges": the steps whose reward is
\* withheld are exactly those in which nobody traded on any exchange.
NoVolumesExact ==
  UseSteps /\ pc \in {"calc", "send", "done"} =>
    noVolumes = Cardinality(
      {t \in St : \A e \in Ex : \A a \in Accounts \ NoRewardAccounts : volume[e][t][a] = 0})

\* Every exchange that has accounts got a part of its own.
AllServed == \A e \in Ex : stats[e] /= <<>> => rewards[e] > 0

\* When every exchange with accounts gets a part, what is sent is exactly the
\* payable total, less the parts of exchanges without accounts.
SentIsPayable ==
  pc = "done" /\ rewards /= <<>> /\ cur > Exchanges /\ AllServed =>
    TotalSent + SumFunction([e \in {x \in Ex : stats[x] = <<>>} |-> rewards[e]])
      = setup.totalValue - StepReward * noVolumes

\* README: --rewards are "the total rewards to send": never more than that.
SentWithinTotal == TotalSent <= setup.totalValue

\* The entry of Percents for the last point reached
PercentFromTable(amount) ==
  LET reached == {i \in DOMAIN Points : amount >= Points[i]}
  IN  IF reached = {} THEN 0 ELSE setup.percents[Max(reached)]

\* checkStakeConfig asks for one of Percents for each of Points: the volume of a
\* staker counts that percentage more, of the last point that he reaches.
StakeRaisesByPercent ==
  pc /= "start" /\ ~UseSteps =>
    \A e \in Ex : \A i \in DOMAIN stats[e] :
      LET s == stats[e][i]
          v == SumFunction([t \in St |-> volume[e][t][s.account]])
          percent == IF s.account \in Stakers THEN PercentFromTable(stake[s.account]) ELSE 0
      IN  s.share = v + (v * percent) \div 100
=============================================================================
