--------------------------- MODULE DivideRewards ---------------------------
(***************************************************************************)
(* DivideRewards (src/mongodb/types.go), loop by loop: every reward that   *)
(* leaves the system, to an account or to a whole exchange, comes out of   *)
(* it.  One step is one turn of a loop; the integers are unbounded, as     *)
(* big.Int is.                                                             *)
(***************************************************************************)
EXTENDS Integers

CONSTANTS
  TotalRewards,  \* the totals a caller may ask to divide
  Shares,        \* the shares an account or an exchange may have
  MaxCount       \* at most this many of them

ASSUME InputsAssumption ==
  /\ TotalRewards \subseteq Nat
  /\ Shares \subseteq Nat
  /\ MaxCount \in Nat

VARIABLES
  total, n, shares,   \* the arguments: totalReward, len(totalShareSlice), its items
  pc, i,              \* the loop and its index (items before i are done)
  sumTotalShare, sumReward, rewards, avg, mod,
  \* history: prefix sums of the shares and of the rounded-down rewards
  shareSum, floors, floorSum

input == <<total, n, shares>>
ghost == <<shareSum, floors, floorSum>>
vars  == <<input, pc, i, sumTotalShare, sumReward, rewards, avg, mod, ghost>>

Index == 1 .. n

Init ==
  /\ total \in TotalRewards
  /\ n \in 0 .. MaxCount
  /\ shares \in [1 .. n -> Shares]
  /\ pc = "sum" /\ i = 0
  /\ sumTotalShare = 0 /\ sumReward = 0
  /\ rewards = [k \in 1 .. n |-> 0]
  /\ avg = 0 /\ mod = 0
  /\ shareSum = [k \in 0 .. n |-> 0]
  /\ floors = [k \in 1 .. n |-> 0]
  /\ floorSum = [k \in 0 .. n |-> 0]

\* for _, share := range totalShareSlice { sumTotalShare.Add(...) }
SumShare ==
  /\ pc = "sum" /\ i < n
  /\ i' = i + 1
  /\ sumTotalShare' = sumTotalShare + shares[i + 1]
  /\ shareSum' = [shareSum EXCEPT ![i + 1] = shareSum[i] + shares[i + 1]]
  /\ UNCHANGED <<input, pc, sumReward, rewards, avg, mod, floors, floorSum>>

\* if sumTotalShare.Sign() <= 0 { return nil }
CheckShares ==
  /\ pc = "sum" /\ i = n
  /\ pc' = IF sumTotalShare <= 0 THEN "nil" ELSE "divide"
  /\ i' = 0
  /\ UNCHANGED <<input, sumTotalShare, sumReward, rewards, avg, mod, ghost>>

Floor(share) == (total * share) \div sumTotalShare

\* reward := totalReward * share / sumTotalShare, rounded down
Divide ==
  /\ pc = "divide" /\ i < n
  /\ i' = i + 1
  /\ rewards' = [rewards EXCEPT ![i + 1] = Floor(shares[i + 1])]
  /\ sumReward' = sumReward + Floor(shares[i + 1])
  /\ floors' = [floors EXCEPT ![i + 1] = Floor(shares[i + 1])]
  /\ floorSum' = [floorSum EXCEPT ![i + 1] = floorSum[i] + Floor(shares[i + 1])]
  /\ UNCHANGED <<input, pc, sumTotalShare, avg, mod, shareSum>>

\* if sumReward < totalReward: what rounding left over, per item and rest
Leftover ==
  /\ pc = "divide" /\ i = n
  /\ i' = 0
  /\ IF sumReward < total
       THEN /\ pc' = "adjust"
            /\ avg' = (total - sumReward) \div n
            /\ mod' = (total - sumReward) % n
            /\ UNCHANGED sumReward
       ELSE /\ pc' = "verify"
            /\ sumReward' = 0
            /\ UNCHANGED <<avg, mod>>
  /\ UNCHANGED <<input, sumTotalShare, rewards, ghost>>

\* Mutant: one item too few gets a unit more.
ExtraOffByOne(k) == avg + (IF k < mod THEN 1 ELSE 0)

\* Mutant: the first item gets all that is left over.
ExtraToFirst(k) == avg + (IF k = 1 THEN mod ELSE 0)

\* Mutant: the last items get a unit more.
ExtraFromBack(k) == avg + (IF k > n - mod THEN 1 ELSE 0)

\* avg to everyone, and one more to the first mod items (uint64(i) < mod)
Extra(k) == avg + (IF k <= mod THEN 1 ELSE 0)

Adjust ==
  /\ pc = "adjust" /\ i < n
  /\ i' = i + 1
  /\ rewards' = [rewards EXCEPT ![i + 1] = @ + Extra(i + 1)]
  /\ UNCHANGED <<input, pc, sumTotalShare, sumReward, avg, mod, ghost>>

StartVerify ==
  /\ pc = "adjust" /\ i = n
  /\ pc' = "verify" /\ i' = 0 /\ sumReward' = 0
  /\ UNCHANGED <<input, sumTotalShare, rewards, avg, mod, ghost>>

\* verify sum
Verify ==
  /\ pc = "verify" /\ i < n
  /\ i' = i + 1
  /\ sumReward' = sumReward + rewards[i + 1]
  /\ UNCHANGED <<input, pc, sumTotalShare, rewards, avg, mod, ghost>>

Return ==
  /\ pc = "verify" /\ i = n
  /\ pc' = "done"
  /\ UNCHANGED <<input, i, sumTotalShare, sumReward, rewards, avg, mod, ghost>>

Next ==
  \/ SumShare
  \/ CheckShares
  \/ Divide
  \/ Leftover
  \/ Adjust
  \/ StartVerify
  \/ Verify
  \/ Return

Spec == Init /\ [][Next]_vars

----------------------------------------------------------------------------
\* No quantity of the function is ever negative: the subtraction that yields the
\* leftover never underflows, and no reward is lowered.
TypeOK ==
  /\ total \in Nat /\ n \in Nat /\ shares \in [Index -> Nat]
  /\ pc \in {"sum", "nil", "divide", "adjust", "verify", "done"}
  /\ i \in 0 .. n
  /\ sumTotalShare \in Nat /\ sumReward \in Nat
  /\ rewards \in [Index -> Nat]
  /\ avg \in Nat /\ mod \in Nat
  /\ shareSum \in [0 .. n -> Nat]
  /\ floors \in [Index -> Nat]
  /\ floorSum \in [0 .. n -> Nat]

\* The "verify sum failed" error is never logged: what was handed out adds up to
\* the total, to the last unit.
VerifySumHolds == pc = "done" => sumReward = total

\* Rounding moves nobody further than one unit: avg is never positive, and the
\* units left over go one each to the first items.
AtMostOneExtra ==
  pc = "done" => \A k \in Index : rewards[k] \in {floors[k], floors[k] + 1}

\* In a list sorted by share, as ConvertToSortedSlice leaves it, a larger share
\* is never paid less than a smaller one behind it.
LargerShareFirst ==
  pc = "done" =>
    \A j, k \in Index : j < k /\ shares[j] >= shares[k] => rewards[j] >= rewards[k]

----------------------------------------------------------------------------
\* The inductive invariant behind them.

Divided == pc \in {"adjust", "verify", "done"}

\* shareSum holds the prefix sums of the shares seen so far.
ShareSumInv ==
  /\ shareSum[0] = 0
  /\ \A k \in Index : pc /= "sum" \/ k <= i => shareSum[k] = shareSum[k - 1] + shares[k]
  /\ sumTotalShare = shareSum[IF pc = "sum" THEN i ELSE n]
  /\ pc \notin {"sum", "nil"} => sumTotalShare > 0 /\ n > 0

\* floorSum[k] is at most k rounding errors below its exact value.
FloorSumInv ==
  /\ floorSum[0] = 0
  /\ pc \in {"sum", "nil"} => sumReward = 0
  /\ pc = "divide" => sumReward = floorSum[i]
  /\ pc = "adjust" => sumReward = floorSum[n]
  /\ \A k \in Index : Divided \/ (pc = "divide" /\ k <= i) =>
       /\ floorSum[k] = floorSum[k - 1] + floors[k]
       /\ sumTotalShare * floors[k] <= total * shares[k]
       /\ total * shares[k] < sumTotalShare * floors[k] + sumTotalShare
  /\ \A k \in 0 .. n : Divided \/ (pc = "divide" /\ k <= i) =>
       /\ sumTotalShare * floorSum[k] <= total * shareSum[k]
       /\ total * shareSum[k] <= sumTotalShare * floorSum[k] + k * (sumTotalShare - 1)

\* What is left over is less than one unit each, so it fits into mod.
LeftoverInv ==
  /\ avg = 0
  /\ ~Divided => mod = 0 /\ rewards = floors
  /\ Divided => mod < n /\ floorSum[n] + mod = total
  /\ pc = "adjust" =>
       \A k \in Index : rewards[k] = floors[k] + (IF k <= i THEN Extra(k) ELSE 0)
  /\ pc \in {"verify", "done"} =>
       \A k \in Index : rewards[k] = floors[k] + Extra(k)
  /\ pc = "verify" => sumReward = floorSum[i] + (IF i <= mod THEN i ELSE mod)
  /\ pc = "done" => sumReward = total

\* The loops together: the inductive invariant of DivideRewards.
IInv == TypeOK /\ ShareSumInv /\ FloorSumInv /\ LeftoverInv

----------------------------------------------------------------------------
\* What the loops compute.

NoAnswer == <<>>

\* The answer exists once the function returns it.
Abstract == INSTANCE FairSplit WITH
  answer <- IF pc = "done" THEN rewards ELSE NoAnswer

\* DivideRewards implements FairSplit: what it returns is the total split so that nobody
\* is further than one unit from the exact proportion.
FairSplitSpec == Abstract!Spec

Math == INSTANCE RewardMath

\* The operator the other modules use for DivideRewards computes the same.
OperatorAgrees ==
  /\ pc = "done" => rewards = Math!SplitRewards(total, shares)
  /\ pc = "nil" => Math!SplitRewards(total, shares) = <<>>
=============================================================================
