---------------------------- MODULE RewardMath -----------------------------
(***************************************************************************)
(* The account statistics and the arithmetic on them                       *)
(* (src/mongodb/types.go), as operators.  A statistic is a record          *)
(* [account, share, reward]; a list of them is a sequence.  The nil reward *)
(* of a statistic that nobody has computed yet is NoReward.                *)
(***************************************************************************)
EXTENDS Integers, Sequences, Functions, FiniteSets

NoReward == -1

\* Stats.Less: by reward if both have one, else by share, larger first; equal
\* ones by address.
Less(s, t) ==
  LET byReward == s.reward /= NoReward /\ t.reward /= NoReward
      cmp == IF byReward THEN s.reward - t.reward ELSE s.share - t.share
  IN  IF cmp /= 0 THEN cmp > 0 ELSE s.account < t.account

\* The elements of a finite set in the order of a relation
Enumerate(S, R) ==
  CHOOSE l \in [1 .. Cardinality(S) -> S] :
    \A i, j \in DOMAIN l : i < j => <<l[i], l[j]>> \in R

\* Statistics without a positive share are dropped, the rest is sorted.
ConvertToSortedSlice(stats) ==
  LET kept == {s \in stats : s.share > 0}
  IN  Enumerate(kept, {p \in kept \X kept : Less(p[1], p[2])})

CalcTotalShare(stats) == SumFunction([i \in DOMAIN stats |-> stats[i].share])

\* Mutant: the weights alone count.
SumWeights(stats, weight) == weight

SumWeightShares(stats, weight) ==
  SumFunction([i \in DOMAIN stats |-> stats[i].share * weight])

\* Mutant: what rounding leaves over is forgotten.
SpreadNothing(left, n, i) == 0

\* The part of item i in what rounding leaves over: avg, and one of the first mod
Spread(left, n, i) == left \div n + (IF i <= left % n THEN 1 ELSE 0)

\* DivideRewards: rounded down, what is left over spread from the front.  The
\* empty sequence is the nil it returns when no share is positive.
SplitRewards(total, shares) ==
  LET n      == Len(shares)
      sum    == SumFunction(shares)
      floors == [i \in 1 .. n |-> (total * shares[i]) \div sum]
      left   == total - SumFunction(floors)
  IN  IF sum <= 0 THEN <<>>
      ELSE [i \in 1 .. n |-> floors[i] + Spread(left, n, i)]

\* CalcRewards: by share the first time, by the previous reward afterwards; a
\* total that is not positive leaves the list as it is.
CalcRewards(stats, total) ==
  LET basis   == [i \in DOMAIN stats |-> IF stats[1].reward /= NoReward
                                           THEN stats[i].reward ELSE stats[i].share]
      rewards == SplitRewards(total, basis)
  IN  IF stats = <<>> \/ total <= 0 \/ Len(rewards) /= Len(stats)
        THEN stats
        ELSE [i \in DOMAIN stats |-> [stats[i] EXCEPT !.reward = rewards[i]]]

\* CalcRewardsInBatch: one total per list, nothing at all if they do not match.
CalcRewardsInBatch(lists, totals) ==
  IF Len(totals) /= Len(lists) THEN lists
  ELSE [i \in DOMAIN lists |-> CalcRewards(lists[i], totals[i])]

\* CalcWeightedRewards: the total is divided among the lists by weighted share.
CalcWeightedRewards(lists, total, weights) ==
  IF Len(weights) /= Len(lists) \/ Len(lists) = 0 THEN lists
  ELSE IF Len(lists) = 1 THEN <<CalcRewards(lists[1], total)>>
  ELSE CalcRewardsInBatch(lists,
         SplitRewards(total, [i \in DOMAIN lists |-> SumWeightShares(lists[i], weights[i])]))
=============================================================================
