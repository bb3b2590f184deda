------------------------------- MODULE Params -------------------------------
(***************************************************************************)
(* What the program makes of its configuration file before anything runs   *)
(* (src/params/checkconfig.go, src/params/config.go): the checks it must   *)
(* pass and the values they change.  Addresses and names are opaque, and   *)
(* the checks of their spelling are left out.                              *)
(***************************************************************************)
EXTENDS Integers, Sequences, Functions

\* checkExchangeConfig: percentages add up to the whole, or nobody has one.
CheckTradeWeights(weights, isPercentage) ==
  isPercentage => SumFunction(weights) \in {0, 100}

\* checkStakeConfig
Ascending(s) == \A i \in DOMAIN s : s[i] > (IF i = 1 THEN 0 ELSE s[i - 1])
CheckStakeConfig(points, percents) ==
  Len(points) = Len(percents) /\ Ascending(points) /\ Ascending(percents)

\* checkCycle
CheckCycle(dist) ==
  /\ dist.stepLen /= 0
  /\ dist.cycleLen >= dist.stepLen
  /\ dist.cycleLen % dist.stepLen = 0

\* checkDistributeConfig, check: "must sync with at least the distribute job's stable
\* height".  Nothing is looked at while the job is disabled.
CheckDistribute(dist) ==
  IF dist.enable /\ dist.stable > dist.syncStable
    THEN [syncStable |-> dist.stable, stable |-> 1]
    ELSE [syncStable |-> dist.syncStable, stable |-> dist.stable]

\* initDistributer: the exchanges with a weight take part in the rewards.
Weighted(weights) == {e \in DOMAIN weights : weights[e] > 0}
=============================================================================
