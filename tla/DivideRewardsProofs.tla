------------------------ MODULE DivideRewardsProofs ------------------------
(***************************************************************************)
(* Proofs about DivideRewards, for every total, every list of shares and   *)
(* every length.  The invariant says that the prefix sums of the           *)
(* rounded-down rewards stay within one unit per item of the exact value;  *)
(* at the end of the loop that leaves less than one unit per item, so the  *)
(* average that is added is zero and the rest goes to the first items.     *)
(***************************************************************************)
EXTENDS DivideRewards, Sequences, SumTheorems

----------------------------------------------------------------------------
\* Arithmetic.

\* Rounding down keeps the order of the shares.
LEMMA FloorMono ==
  ASSUME NEW T \in Nat, NEW S \in Nat, S > 0, NEW a \in Nat, NEW b \in Nat, b <= a,
         NEW f \in Nat, NEW g \in Nat,
         T * a < S * f + S, S * g <= T * b
  PROVE  g <= f
<1>1. T * b <= T * a
  BY MulMono
<1>2. S * (f + 1) = S * f + S
  BY Distribute, Z3
<1>3. T * a \in Int /\ T * b \in Int /\ S * g \in Int /\ S * f \in Int
  BY MulNat
<1>4. S * g < S * (f + 1)
  BY <1>1, <1>2, <1>3
<1>5. g < f + 1
  BY <1>4, MulCancel
<1>6. QED BY <1>5

\* Updating a function at one point keeps its type.
LEMMA ExceptType ==
  ASSUME NEW S, NEW T, NEW f \in [S -> T], NEW x \in S, NEW v \in T
  PROVE  [f EXCEPT ![x] = v] \in [S -> T]
OBVIOUS

----------------------------------------------------------------------------
\* The invariant holds when DivideRewards is called.
LEMMA InitIInv == Init => IInv
<1> SUFFICES ASSUME Init PROVE IInv
  OBVIOUS
<1>1. total \in Nat /\ n \in Nat /\ shares \in [Index -> Nat]
  <2>1. total \in Nat /\ n \in Nat
    BY InputsAssumption DEF Init
  <2>2. shares \in [Index -> Shares]
    BY DEF Init, Index
  <2>3. QED BY <2>1, <2>2, InputsAssumption
<1>2. TypeOK
  BY <1>1 DEF Init, TypeOK, Index
<1>3. ShareSumInv
  BY <1>1 DEF Init, ShareSumInv, Index
<1>4. FloorSumInv
  BY <1>1 DEF Init, FloorSumInv, Divided, Index
<1>5. LeftoverInv
  BY <1>1 DEF Init, LeftoverInv, Divided, Index
<1>6. QED BY <1>2, <1>3, <1>4, <1>5 DEF IInv

\* Adding one more share to sumTotalShare keeps the invariant.
LEMMA SumShareStep == IInv /\ SumShare => IInv'
<1> SUFFICES ASSUME IInv, SumShare PROVE IInv'
  OBVIOUS
<1> USE DEF IInv, SumShare, input
<1>0. /\ i \in Nat /\ i + 1 \in Index /\ i \in 0 .. n /\ i + 1 \in 0 .. n /\ n \in Nat
      /\ shares[i + 1] \in Nat /\ shareSum[i] \in Nat
      /\ n' = n /\ Index' = Index /\ i' = i + 1
  BY DEF TypeOK, Index
<1>1. TypeOK'
  <2>1. sumTotalShare' \in Nat
    BY <1>0, SMTT(30) DEF TypeOK
  <2>2. shareSum' \in [0 .. n -> Nat]
    <3>1. shareSum \in [0 .. n -> Nat]
      BY DEF TypeOK
    <3>2. shareSum[i] + shares[i + 1] \in Nat
      BY <1>0
    <3>3. shareSum' = [shareSum EXCEPT ![i + 1] = shareSum[i] + shares[i + 1]]
      OBVIOUS
    <3>4. QED BY <1>0, <3>1, <3>2, <3>3, ExceptType, Zenon
  <2>3. QED BY <1>0, <2>1, <2>2 DEF TypeOK
<1>2. ShareSumInv'
  <2>1. shareSum'[i + 1] = shareSum[i] + shares[i + 1]
    BY <1>0 DEF TypeOK
  <2>2. \A k \in 0 .. n : k /= i + 1 => shareSum'[k] = shareSum[k]
    BY DEF TypeOK
  <2>3. shareSum'[0] = 0
    BY <1>0, <2>2 DEF ShareSumInv
  <2>4. ASSUME NEW k \in Index, k <= i + 1
        PROVE  shareSum'[k] = shareSum'[k - 1] + shares[k]
    <3>1. k \in 0 .. n /\ k - 1 \in 0 .. n /\ k \in Int
      BY <1>0 DEF Index
    <3>2. CASE k = i + 1
      <4>1. k - 1 = i /\ i /= i + 1
        BY <3>2, <1>0
      <4>2. shareSum'[k - 1] = shareSum[i]
        BY <4>1, <1>0, <2>2
      <4>3. QED BY <3>2, <4>2, <2>1
    <3>3. CASE k <= i
      <4>1. k /= i + 1 /\ k - 1 /= i + 1
        BY <3>3, <3>1, <1>0
      <4>2. shareSum'[k] = shareSum[k] /\ shareSum'[k - 1] = shareSum[k - 1]
        BY <4>1, <3>1, <2>2
      <4>3. QED BY <3>3, <4>2 DEF ShareSumInv
    <3>4. QED BY <3>1, <3>2, <3>3, <1>0, <2>4
  <2>5. sumTotalShare' = shareSum'[i']
    BY <1>0, <2>1 DEF ShareSumInv
  <2>6. QED BY <1>0, <2>3, <2>4, <2>5 DEF ShareSumInv
<1>3. FloorSumInv'
  BY DEF TypeOK, FloorSumInv, Divided, Index
<1>4. LeftoverInv'
  BY DEF TypeOK, LeftoverInv, Divided, Index
<1>5. QED BY <1>1, <1>2, <1>3, <1>4

\* Behind the check for a positive sum there is at least one item.
LEMMA CheckSharesStep == IInv /\ CheckShares => IInv'
<1> SUFFICES ASSUME IInv, CheckShares PROVE IInv'
  OBVIOUS
<1> USE DEF IInv, CheckShares, input, ghost
<1>1. TypeOK'
  <2>1. Index' = Index /\ n' = n /\ 0 \in 0 .. n
    BY DEF TypeOK, Index
  <2>2. QED BY <2>1 DEF TypeOK
<1>2. ShareSumInv'
  BY DEF TypeOK, ShareSumInv, Index
<1>3. FloorSumInv'
  <2>1. \A k \in 0 .. n : k <= 0 => k = 0
    BY DEF TypeOK
  <2>2. total * 0 = 0 /\ sumTotalShare * 0 = 0 /\ 0 * (sumTotalShare - 1) = 0
    BY DEF TypeOK
  <2>3. sumTotalShare * floorSum[0] = 0 /\ total * shareSum[0] = 0
    BY <2>2 DEF FloorSumInv, ShareSumInv
  <2>4. ~Divided' /\ floorSum' = floorSum /\ shareSum' = shareSum
        /\ sumTotalShare' = sumTotalShare /\ total' = total /\ n' = n /\ i' = 0
    BY DEF Divided
  <2>5. (\A k \in Index : Divided \/ (pc = "divide" /\ k <= i) =>
           /\ floorSum[k] = floorSum[k - 1] + floors[k]
           /\ sumTotalShare * floors[k] <= total * shares[k]
           /\ total * shares[k] < sumTotalShare * floors[k] + sumTotalShare)'
    BY <2>4 DEF Index, TypeOK
  <2>6. (\A k \in 0 .. n : Divided \/ (pc = "divide" /\ k <= i) =>
           /\ sumTotalShare * floorSum[k] <= total * shareSum[k]
           /\ total * shareSum[k] <= sumTotalShare * floorSum[k] + k * (sumTotalShare - 1))'
    BY <2>1, <2>2, <2>3, <2>4
  <2>7. (/\ floorSum[0] = 0
         /\ pc \in {"sum", "nil"} => sumReward = 0
         /\ pc = "divide" => sumReward = floorSum[i]
         /\ pc = "adjust" => sumReward = floorSum[n])'
    BY DEF FloorSumInv, TypeOK
  <2>8. QED BY <2>5, <2>6, <2>7 DEF FloorSumInv
<1>4. LeftoverInv'
  BY DEF TypeOK, LeftoverInv, Divided, Index
<1>5. QED BY <1>1, <1>2, <1>3, <1>4

\* One more rounded-down reward: its rounding error is less than one unit.
LEMMA DivideStep == IInv /\ Divide => IInv'
<1> SUFFICES ASSUME IInv, Divide PROVE IInv'
  OBVIOUS
<1> DEFINE s == shares[i + 1]
           r == Floor(s)
<1>1. /\ i \in Nat /\ i + 1 \in Index /\ i \in 0 .. n /\ i + 1 \in 0 .. n
      /\ s \in Nat /\ total \in Nat /\ sumTotalShare \in Nat /\ sumTotalShare > 0
      /\ floorSum[i] \in Nat /\ shareSum[i] \in Nat /\ n \in Nat
  BY DEF IInv, TypeOK, ShareSumInv, Divide, Index
<1>2. /\ r \in Nat
      /\ sumTotalShare * r <= total * s
      /\ total * s < sumTotalShare * r + sumTotalShare
  <2>1. total * s \in Nat
    BY <1>1, MulNat
  <2>2. QED BY <1>1, <2>1, DivBounds DEF Floor
<1> HIDE DEF r, s
<1>3. /\ rewards' = [rewards EXCEPT ![i + 1] = r]
      /\ sumReward' = sumReward + r
      /\ floors' = [floors EXCEPT ![i + 1] = r]
      /\ floorSum' = [floorSum EXCEPT ![i + 1] = floorSum[i] + r]
      /\ pc = "divide" /\ i < n /\ i' = i + 1
      /\ total' = total /\ n' = n /\ shares' = shares /\ pc' = pc
      /\ sumTotalShare' = sumTotalShare /\ avg' = avg /\ mod' = mod
      /\ shareSum' = shareSum /\ shares[i + 1] = s
  BY DEF Divide, input, r, s
<1>4. TypeOK'
  <2>1. Index' = Index
    BY <1>3 DEF Index
  <2>2. rewards' \in [Index -> Nat] /\ floors' \in [Index -> Nat]
    BY <1>2, <1>3 DEF IInv, TypeOK
  <2>3. floorSum' \in [0 .. n -> Nat] /\ sumReward' \in Nat
    <3>1. floorSum \in [0 .. n -> Nat] /\ sumReward \in Nat
      BY DEF IInv, TypeOK
    <3>2. floorSum[i] + r \in Nat /\ sumReward' \in Nat
      BY <1>1, <1>2, <1>3, <3>1
    <3>3. QED BY <1>1, <1>3, <3>1, <3>2, ExceptType, Zenon
  <2>4. QED BY <1>1, <1>3, <2>1, <2>2, <2>3 DEF IInv, TypeOK
<1>5. ShareSumInv'
  BY <1>3 DEF IInv, ShareSumInv, Index
<1>6. FloorSumInv'
  <2>1. (/\ floorSum[0] = 0
         /\ pc \in {"sum", "nil"} => sumReward = 0
         /\ pc = "divide" => sumReward = floorSum[i]
         /\ pc = "adjust" => sumReward = floorSum[n])'
    BY <1>1, <1>2, <1>3 DEF IInv, TypeOK, FloorSumInv
  <2>2. ASSUME NEW k \in Index, k <= i + 1
        PROVE  /\ floorSum'[k] = floorSum'[k - 1] + floors'[k]
               /\ sumTotalShare * floors'[k] <= total * shares[k]
               /\ total * shares[k] < sumTotalShare * floors'[k] + sumTotalShare
    <3>1. CASE k = i + 1
      BY <3>1, <1>1, <1>2, <1>3 DEF IInv, TypeOK, Index
    <3>2. CASE k <= i
      <4>1. /\ floorSum[k] = floorSum[k - 1] + floors[k]
            /\ sumTotalShare * floors[k] <= total * shares[k]
            /\ total * shares[k] < sumTotalShare * floors[k] + sumTotalShare
        BY <3>2, <1>3 DEF IInv, FloorSumInv
      <4>2. k - 1 /= i + 1 /\ k /= i + 1 /\ k - 1 \in 0 .. n /\ k \in 0 .. n
        BY <3>2, <1>1 DEF Index
      <4>3. /\ floorSum'[k] = floorSum[k] /\ floorSum'[k - 1] = floorSum[k - 1]
            /\ floors'[k] = floors[k]
        BY <4>2, <1>3 DEF IInv, TypeOK, Index
      <4>4. QED BY <4>1, <4>3
    <3>3. QED BY <3>1, <3>2, <1>1, <2>2 DEF Index
  <2>3. ASSUME NEW k \in 0 .. n, k <= i + 1
        PROVE  /\ sumTotalShare * floorSum'[k] <= total * shareSum[k]
               /\ total * shareSum[k]
                    <= sumTotalShare * floorSum'[k] + k * (sumTotalShare - 1)
    <3>1. CASE k = i + 1
      <4>1. /\ sumTotalShare * floorSum[i] <= total * shareSum[i]
            /\ total * shareSum[i]
                 <= sumTotalShare * floorSum[i] + i * (sumTotalShare - 1)
        BY <1>1, <1>3 DEF IInv, FloorSumInv
      <4>2. shareSum[i + 1] = shareSum[i] + s
        <5>1. shareSum[i + 1] = shareSum[(i + 1) - 1] + shares[i + 1]
          BY <1>1, <1>3 DEF IInv, ShareSumInv
        <5>2. (i + 1) - 1 = i
          BY <1>1
        <5>3. QED BY <5>1, <5>2, <1>3
      <4>3. total * shareSum[i + 1] = total * shareSum[i] + total * s
        BY <4>2, <1>1, Distribute
      <4>4. floorSum'[i + 1] = floorSum[i] + r
        BY <1>1, <1>3 DEF IInv, TypeOK
      <4>5. sumTotalShare * floorSum'[i + 1]
              = sumTotalShare * floorSum[i] + sumTotalShare * r
        BY <4>4, <1>1, <1>2, Distribute
      <4>6. (i + 1) * (sumTotalShare - 1)
              = i * (sumTotalShare - 1) + (sumTotalShare - 1)
        BY <1>1, Z3
      <4>7. /\ total * shareSum[i] \in Int /\ total * s \in Int
            /\ sumTotalShare * floorSum[i] \in Int /\ sumTotalShare * r \in Int
            /\ i * (sumTotalShare - 1) \in Int
        BY <1>1, <1>2, Z3
      <4> HIDE DEF s, r
      <4>8. QED BY <3>1, <4>1, <4>3, <4>5, <4>6, <4>7, <1>1, <1>2
    <3>2. CASE k <= i
      <4>1. floorSum'[k] = floorSum[k]
        BY <3>2, <1>1, <1>3 DEF IInv, TypeOK
      <4>2. QED BY <3>2, <4>1, <1>3 DEF IInv, FloorSumInv
    <3>3. QED BY <3>1, <3>2, <1>1, <2>3
  <2>4. ~Divided'
    BY <1>3 DEF Divided
  <2>5. Index' = Index
    BY <1>3 DEF Index
  <2>6. QED BY <2>1, <2>2, <2>3, <2>4, <2>5, <1>3 DEF FloorSumInv
<1>7. LeftoverInv'
  BY <1>3 DEF IInv, TypeOK, LeftoverInv, Divided, Index
<1>8. QED BY <1>4, <1>5, <1>6, <1>7 DEF IInv

\* Less than one unit per item is left over, so that avg is 0 and mod all of it.
LEMMA LeftoverStep == IInv /\ Leftover => IInv'
<1> SUFFICES ASSUME IInv, Leftover PROVE IInv'
  OBVIOUS
<1>1. /\ n \in Nat /\ n > 0 /\ total \in Nat /\ sumTotalShare \in Nat
      /\ sumTotalShare > 0 /\ sumReward \in Nat /\ sumReward = floorSum[n]
      /\ sumTotalShare = shareSum[n] /\ n \in 0 .. n /\ avg = 0 /\ mod = 0
      /\ rewards = floors /\ floorSum[n] \in Nat
  BY DEF IInv, TypeOK, ShareSumInv, FloorSumInv, LeftoverInv, Leftover, Divided
<1>2. \A k \in 0 .. n :
         /\ sumTotalShare * floorSum[k] <= total * shareSum[k]
         /\ total * shareSum[k] <= sumTotalShare * floorSum[k] + k * (sumTotalShare - 1)
  <2> SUFFICES ASSUME NEW k \in 0 .. n
               PROVE  /\ sumTotalShare * floorSum[k] <= total * shareSum[k]
                      /\ total * shareSum[k]
                           <= sumTotalShare * floorSum[k] + k * (sumTotalShare - 1)
    OBVIOUS
  <2>1. pc = "divide" /\ k <= i
    BY <1>1 DEF Leftover
  <2>2. QED BY <2>1 DEF IInv, FloorSumInv
<1>3. sumReward <= total /\ total < sumReward + n
  <2>1. /\ sumTotalShare * sumReward <= total * sumTotalShare
        /\ total * sumTotalShare <= sumTotalShare * sumReward + n * (sumTotalShare - 1)
    BY <1>1, <1>2
  <2>2. QED BY <1>1, <2>1, LeftoverSmall
<1>4. /\ avg' = 0 /\ mod' \in Nat /\ mod' < n /\ floorSum[n] + mod' = total
      /\ sumReward' \in Nat
  <2>1. CASE sumReward < total
    <3>1. total - sumReward \in Nat /\ total - sumReward < n
      BY <1>1, <1>3, <2>1
    <3>2. (total - sumReward) \div n = 0 /\ (total - sumReward) % n = total - sumReward
      BY <1>1, <3>1, SmallDiv
    <3>3. avg' = 0 /\ mod' = total - sumReward /\ sumReward' = sumReward
      BY <2>1, <3>2 DEF Leftover
    <3>4. QED BY <1>1, <3>1, <3>3
  <2>2. CASE ~(sumReward < total)
    BY <1>1, <1>3, <2>2 DEF Leftover
  <2>3. QED BY <2>1, <2>2
<1>5. /\ pc' \in {"adjust", "verify"} /\ i' = 0 /\ pc = "divide" /\ i = n
      /\ pc' = "adjust" => sumReward' = sumReward
      /\ pc' = "verify" => sumReward' = 0 /\ mod' = 0
      /\ total' = total /\ n' = n /\ shares' = shares
      /\ sumTotalShare' = sumTotalShare /\ rewards' = rewards
      /\ shareSum' = shareSum /\ floors' = floors /\ floorSum' = floorSum
      /\ Index' = Index /\ Divided'
  BY <1>1 DEF Leftover, input, ghost, Index, Divided
<1>6. TypeOK'
  BY <1>1, <1>4, <1>5 DEF IInv, TypeOK
<1>7. ShareSumInv'
  BY <1>1, <1>5 DEF IInv, ShareSumInv
<1>8. FloorSumInv'
  <2>1. \A k \in Index : /\ k <= n
                         /\ floorSum[k] = floorSum[k - 1] + floors[k]
                         /\ sumTotalShare * floors[k] <= total * shares[k]
                         /\ total * shares[k] < sumTotalShare * floors[k] + sumTotalShare
    <3> SUFFICES ASSUME NEW k \in Index
                 PROVE  /\ k <= n
                        /\ floorSum[k] = floorSum[k - 1] + floors[k]
                        /\ sumTotalShare * floors[k] <= total * shares[k]
                        /\ total * shares[k] < sumTotalShare * floors[k] + sumTotalShare
      OBVIOUS
    <3>1. pc = "divide" /\ k <= n /\ k <= i
      BY <1>1, <1>5 DEF Index
    <3>2. QED BY <3>1 DEF IInv, FloorSumInv
  <2>2. floorSum[0] = 0
    BY DEF IInv, FloorSumInv
  <2>3. QED BY <1>1, <1>2, <1>5, <2>1, <2>2 DEF FloorSumInv
<1>9. LeftoverInv'
  <2>1. \A k \in Index : k \in Nat /\ ~(k <= 0) /\ floors[k] \in Nat
    BY DEF IInv, TypeOK, Index
  <2>2. floorSum[0] = 0
    BY DEF IInv, FloorSumInv
  <2>3. pc' = "verify" => \A k \in Index : Extra(k)' = 0
    BY <2>1, <1>4, <1>5 DEF Extra
  <2>4. pc' = "verify" => (\A k \in Index : rewards[k] = floors[k] + Extra(k))'
    BY <2>1, <2>3, <1>1, <1>5
  <2>5. pc' = "adjust" =>
          (\A k \in Index : rewards[k] = floors[k] + (IF k <= i THEN Extra(k) ELSE 0))'
    BY <2>1, <1>1, <1>5
  <2>6. pc' = "verify" => (sumReward = floorSum[i] + (IF i <= mod THEN i ELSE mod))'
    BY <2>2, <1>4, <1>5
  <2>7. QED BY <1>4, <1>5, <2>4, <2>5, <2>6 DEF LeftoverInv
<1>10. QED BY <1>6, <1>7, <1>8, <1>9 DEF IInv

\* Handing out the leftover changes the reward of one item.
LEMMA AdjustStep == IInv /\ Adjust => IInv'
<1> SUFFICES ASSUME IInv, Adjust PROVE IInv'
  OBVIOUS
<1>1. /\ n \in Nat /\ i \in Nat /\ i < n /\ i + 1 \in Index /\ i + 1 \in 0 .. n
      /\ avg = 0 /\ mod \in Nat /\ rewards \in [Index -> Nat] /\ pc = "adjust"
      /\ floors \in [Index -> Nat]
  <2>1. /\ n \in Nat /\ i \in 0 .. n /\ i < n /\ mod \in Nat /\ pc = "adjust"
        /\ rewards \in [Index -> Nat] /\ floors \in [Index -> Nat]
    BY DEF IInv, TypeOK, Adjust
  <2>2. avg = 0
    BY DEF IInv, LeftoverInv
  <2>3. i \in Nat /\ i + 1 \in Index /\ i + 1 \in 0 .. n
    BY <2>1 DEF Index
  <2>4. QED BY <2>1, <2>2, <2>3
<1>2. \A k \in Index : Extra(k) \in {0, 1}
  BY <1>1 DEF Extra, Index
<1>3. /\ i' = i + 1 /\ pc' = pc /\ total' = total /\ n' = n /\ shares' = shares
      /\ sumTotalShare' = sumTotalShare /\ sumReward' = sumReward
      /\ avg' = avg /\ mod' = mod /\ shareSum' = shareSum /\ floors' = floors
      /\ floorSum' = floorSum /\ Index' = Index /\ Divided' = Divided
      /\ rewards' = [rewards EXCEPT ![i + 1] = rewards[i + 1] + Extra(i + 1)]
  BY <1>1 DEF Adjust, input, ghost, Index, Divided
<1>4. TypeOK'
  <2>1. rewards[i + 1] + Extra(i + 1) \in Nat
    BY <1>1, <1>2
  <2>2. rewards' \in [Index -> Nat]
    BY <1>1, <1>3, <2>1, ExceptType, Zenon
  <2>3. QED BY <1>1, <1>3, <2>2 DEF IInv, TypeOK
<1>5. ShareSumInv'
  BY <1>1, <1>3 DEF IInv, ShareSumInv
<1>6. FloorSumInv'
  BY <1>1, <1>3 DEF IInv, FloorSumInv, Divided
<1>7. LeftoverInv'
  <2>1. \A k \in Index : Extra(k)' = Extra(k)
    BY <1>3 DEF Extra
  <2>2. ASSUME NEW k \in Index
        PROVE  rewards'[k] = floors[k] + (IF k <= i + 1 THEN Extra(k) ELSE 0)
    <3>1. rewards[k] = floors[k] + (IF k <= i THEN Extra(k) ELSE 0)
      BY <1>1 DEF IInv, LeftoverInv
    <3>2. k \in Nat /\ floors[k] \in Nat
      BY <1>1 DEF Index
    <3>3. CASE k = i + 1
      BY <3>1, <3>2, <3>3, <1>1, <1>2, <1>3
    <3>4. CASE k /= i + 1
      <4>1. k <= i + 1 <=> k <= i
        BY <3>2, <3>4, <1>1
      <4>2. QED BY <3>1, <3>4, <4>1, <1>1, <1>3
    <3>5. QED BY <3>3, <3>4
  <2>3. QED BY <2>1, <2>2, <1>1, <1>3 DEF IInv, LeftoverInv, Divided
<1>8. QED BY <1>4, <1>5, <1>6, <1>7 DEF IInv

\* After the last item every reward has got its extra unit, if any.
LEMMA StartVerifyStep == IInv /\ StartVerify => IInv'
<1> SUFFICES ASSUME IInv, StartVerify PROVE IInv'
  OBVIOUS
<1>1. /\ i' = 0 /\ pc' = "verify" /\ pc = "adjust" /\ sumReward' = 0 /\ i = n
      /\ total' = total /\ n' = n /\ shares' = shares
      /\ sumTotalShare' = sumTotalShare /\ rewards' = rewards
      /\ avg' = avg /\ mod' = mod /\ shareSum' = shareSum /\ floors' = floors
      /\ floorSum' = floorSum /\ Index' = Index /\ Divided' /\ Divided
      /\ n \in Nat /\ mod \in Nat
  BY DEF StartVerify, input, ghost, Index, Divided, IInv, TypeOK
<1>2. TypeOK'
  BY <1>1 DEF IInv, TypeOK
<1>3. ShareSumInv'
  BY <1>1 DEF IInv, ShareSumInv
<1>4. FloorSumInv'
  BY <1>1 DEF IInv, FloorSumInv
<1>5. LeftoverInv'
  <2>1. \A k \in Index : Extra(k)' = Extra(k) /\ k <= i
    BY <1>1 DEF Extra, Index
  <2>2. floorSum[0] = 0
    BY DEF IInv, FloorSumInv
  <2>3. QED BY <1>1, <2>1, <2>2 DEF IInv, LeftoverInv
<1>6. QED BY <1>2, <1>3, <1>4, <1>5 DEF IInv

\* The sum of the "verify sum" loop is a prefix sum plus the extra units so far.
LEMMA VerifyStep == IInv /\ Verify => IInv'
<1> SUFFICES ASSUME IInv, Verify PROVE IInv'
  OBVIOUS
<1>1. /\ i' = i + 1 /\ pc' = pc /\ pc = "verify" /\ i < n /\ i \in Nat /\ n \in Nat
      /\ sumReward' = sumReward + rewards[i + 1]
      /\ total' = total /\ n' = n /\ shares' = shares
      /\ sumTotalShare' = sumTotalShare /\ rewards' = rewards
      /\ avg' = avg /\ mod' = mod /\ shareSum' = shareSum /\ floors' = floors
      /\ floorSum' = floorSum /\ Index' = Index /\ Divided' /\ Divided
      /\ i + 1 \in Index /\ i + 1 \in 0 .. n /\ i \in 0 .. n /\ mod \in Nat /\ avg = 0
  <2>1. n \in Nat /\ i \in 0 .. n /\ mod \in Nat
    BY DEF IInv, TypeOK
  <2>2. avg = 0
    BY DEF IInv, LeftoverInv
  <2>3. i < n /\ pc = "verify" /\ i \in Nat /\ i + 1 \in Index /\ i + 1 \in 0 .. n
    BY <2>1 DEF Verify, Index
  <2>4. QED BY <2>1, <2>2, <2>3 DEF Verify, input, ghost, Index, Divided
<1>2. TypeOK'
  <2>1. sumReward \in Nat /\ rewards[i + 1] \in Nat
    BY <1>1 DEF IInv, TypeOK
  <2>2. sumReward' \in Nat
    BY <1>1, <2>1
  <2>3. QED BY <1>1, <2>2 DEF IInv, TypeOK
<1>3. ShareSumInv'
  BY <1>1 DEF IInv, ShareSumInv
<1>4. FloorSumInv'
  BY <1>1 DEF IInv, FloorSumInv
<1>5. LeftoverInv'
  <2>1. \A k \in Index : Extra(k)' = Extra(k)
    BY <1>1 DEF Extra
  <2>2. floorSum[i + 1] = floorSum[i] + floors[i + 1]
    <3>1. floorSum[i + 1] = floorSum[(i + 1) - 1] + floors[i + 1]
      BY <1>1 DEF IInv, FloorSumInv
    <3>2. (i + 1) - 1 = i
      BY <1>1
    <3>3. QED BY <3>1, <3>2
  <2>3. rewards[i + 1] = floors[i + 1] + Extra(i + 1)
    BY <1>1 DEF IInv, LeftoverInv
  <2>4. sumReward = floorSum[i] + (IF i <= mod THEN i ELSE mod)
    BY <1>1 DEF IInv, LeftoverInv
  <2>5. floorSum[i] \in Nat /\ floors[i + 1] \in Nat
    BY <1>1 DEF IInv, TypeOK
  <2>6. Extra(i + 1) = (IF i + 1 <= mod THEN 1 ELSE 0)
    BY <1>1 DEF Extra
  <2>7. sumReward' = floorSum[i + 1] + (IF i + 1 <= mod THEN i + 1 ELSE mod)
    BY <1>1, <2>2, <2>3, <2>4, <2>5, <2>6
  <2>8. QED BY <1>1, <2>1, <2>7 DEF IInv, LeftoverInv
<1>6. QED BY <1>2, <1>3, <1>4, <1>5 DEF IInv

\* When the "verify sum" loop ends its sum is the total.
LEMMA ReturnStep == IInv /\ Return => IInv'
<1> SUFFICES ASSUME IInv, Return PROVE IInv'
  OBVIOUS
<1>1. /\ i' = i /\ i = n /\ pc' = "done" /\ pc = "verify" /\ sumReward' = sumReward
      /\ total' = total /\ n' = n /\ shares' = shares
      /\ sumTotalShare' = sumTotalShare /\ rewards' = rewards
      /\ avg' = avg /\ mod' = mod /\ shareSum' = shareSum /\ floors' = floors
      /\ floorSum' = floorSum /\ Index' = Index /\ Divided' /\ Divided
      /\ mod \in Nat /\ n \in Nat
  BY DEF Return, input, ghost, Index, Divided, IInv, TypeOK
<1>2. TypeOK'
  BY <1>1 DEF IInv, TypeOK
<1>3. ShareSumInv'
  BY <1>1 DEF IInv, ShareSumInv
<1>4. FloorSumInv'
  BY <1>1 DEF IInv, FloorSumInv
<1>5. LeftoverInv'
  <2>1. \A k \in Index : Extra(k)' = Extra(k)
    BY <1>1 DEF Extra
  <2>2. sumReward = total
    BY <1>1 DEF IInv, LeftoverInv
  <2>3. QED BY <1>1, <2>1, <2>2 DEF IInv, LeftoverInv
<1>6. QED BY <1>2, <1>3, <1>4, <1>5 DEF IInv

\* Every step of the loops keeps the invariant.
THEOREM Inductive == Spec => []IInv
<1>1. Init => IInv
  BY InitIInv
<1>2. IInv /\ [Next]_vars => IInv'
  <2> SUFFICES ASSUME IInv, [Next]_vars PROVE IInv'
    OBVIOUS
  <2>1. CASE Next
    BY <2>1, SumShareStep, CheckSharesStep, DivideStep, LeftoverStep, AdjustStep,
       StartVerifyStep, VerifyStep, ReturnStep DEF Next
  <2>2. CASE UNCHANGED vars
    BY <2>2 DEF vars, input, ghost, IInv, TypeOK, ShareSumInv, FloorSumInv,
                LeftoverInv, Divided, Index, Extra
  <2>3. QED BY <2>1, <2>2
<1>3. QED BY <1>1, <1>2, PTL DEF Spec

\* The variables of DivideRewards keep their types.
THEOREM TypeCorrect == Spec => []TypeOK
<1>1. IInv => TypeOK
  BY DEF IInv
<1>2. QED BY <1>1, Inductive, PTL

\* DivideRewards never logs "verify sum failed": the rewards add up to the total.
THEOREM SumIsTotal == Spec => []VerifySumHolds
<1>1. IInv => VerifySumHolds
  BY DEF IInv, LeftoverInv, VerifySumHolds
<1>2. QED BY <1>1, Inductive, PTL

\* Each reward is the rounded-down proportion or one unit more.
THEOREM RoundingIsFair == Spec => []AtMostOneExtra
<1>1. IInv => AtMostOneExtra
  <2> SUFFICES ASSUME IInv, pc = "done", NEW k \in Index
               PROVE  rewards[k] \in {floors[k], floors[k] + 1}
    BY DEF AtMostOneExtra
  <2>1. rewards[k] = floors[k] + Extra(k) /\ avg = 0
    BY DEF IInv, LeftoverInv
  <2>2. Extra(k) \in {0, 1} /\ floors[k] \in Nat
    BY <2>1 DEF Extra, IInv, TypeOK
  <2>3. QED BY <2>1, <2>2
<1>2. QED BY <1>1, Inductive, PTL

\* In a list sorted by share nobody is paid less than someone behind him.
THEOREM OrderIsKept == Spec => []LargerShareFirst
<1>1. IInv => LargerShareFirst
  <2> SUFFICES ASSUME IInv, pc = "done", NEW j \in Index, NEW k \in Index,
                      j < k, shares[j] >= shares[k]
               PROVE  rewards[j] >= rewards[k]
    BY DEF LargerShareFirst
  <2>1. /\ rewards[j] = floors[j] + Extra(j) /\ rewards[k] = floors[k] + Extra(k)
        /\ avg = 0 /\ sumTotalShare > 0
    BY DEF IInv, LeftoverInv, ShareSumInv
  <2>2. /\ total \in Nat /\ sumTotalShare \in Nat /\ mod \in Nat
        /\ shares[j] \in Nat /\ shares[k] \in Nat
        /\ floors[j] \in Nat /\ floors[k] \in Nat /\ j \in Nat /\ k \in Nat
    BY DEF IInv, TypeOK, Index
  <2>3. /\ total * shares[j] < sumTotalShare * floors[j] + sumTotalShare
        /\ sumTotalShare * floors[k] <= total * shares[k]
    BY DEF IInv, FloorSumInv, Divided
  <2>4. floors[k] <= floors[j]
    BY <2>1, <2>2, <2>3, FloorMono
  <2>5. Extra(k) <= Extra(j) /\ Extra(k) \in {0, 1} /\ Extra(j) \in {0, 1}
    BY <2>1, <2>2 DEF Extra
  <2>6. QED BY <2>1, <2>2, <2>4, <2>5
<1>2. QED BY <1>1, Inductive, PTL

----------------------------------------------------------------------------
\* What the loops add up to: the prefix sums are the sums FairSplit and RewardMath speak
\* of, so that the function as a whole is a fair split, and the operator is the function.

\* The sum of an instance is the sum: they unfold to the same fold.
LEMMA SameSum ==
  ASSUME NEW f
  PROVE  Abstract!SumOf(f) = SumFunction(f) /\ Math!SumFunction(f) = SumFunction(f)
<1>1. SumFunction(f) = Iter(f, DOMAIN f)[DOMAIN f]
  BY SumIsIter
<1>2. Abstract!SumOf(f) = Iter(f, DOMAIN f)[DOMAIN f]
  BY DEF Abstract!SumOf, Abstract!SumFunction, Abstract!SumFunctionOnSet,
         Abstract!FoldFunctionOnSet, Abstract!MapThenFoldSet, Iter, Folded, First
<1>3. Math!SumFunction(f) = Iter(f, DOMAIN f)[DOMAIN f]
  BY DEF Math!SumFunction, Math!SumFunctionOnSet, Math!FoldFunctionOnSet,
         Math!MapThenFoldSet, Iter, Folded, First
<1> QED
  BY <1>1, <1>2, <1>3

\* After the first loop sumTotalShare is the sum of the shares.
LEMMA SharesSummed ==
  ASSUME IInv, pc # "sum"
  PROVE  SumFunction(shares) = sumTotalShare
<1>1. n \in Nat /\ shares \in [1 .. n -> Int] /\ shareSum \in [0 .. n -> Int]
  BY DEF IInv, TypeOK, Index
<1>2. shareSum[0] = 0 /\ \A k \in 1 .. n : shareSum[k] = shareSum[k - 1] + shares[k]
  BY DEF IInv, ShareSumInv, Index
<1>3. SumFunction(shares) = shareSum[n]
  BY <1>1, <1>2, PrefixSum
<1> QED
  BY <1>3 DEF IInv, ShareSumInv

\* The rounded-down rewards miss the total by mod units.
LEMMA FloorsSummed ==
  ASSUME IInv, Divided
  PROVE  SumFunction(floors) = floorSum[n] /\ floorSum[n] + mod = total
<1>1. n \in Nat /\ floors \in [1 .. n -> Int] /\ floorSum \in [0 .. n -> Int]
  BY DEF IInv, TypeOK, Index
<1>2. floorSum[0] = 0 /\ \A k \in 1 .. n : floorSum[k] = floorSum[k - 1] + floors[k]
  BY DEF IInv, FloorSumInv, Index
<1>3. SumFunction(floors) = floorSum[n]
  BY <1>1, <1>2, PrefixSum
<1> QED
  BY <1>3 DEF IInv, LeftoverInv

\* Once adjusted, the rewards add up to the total.
LEMMA RewardsSummed ==
  ASSUME IInv, pc \in {"verify", "done"}
  PROVE  SumFunction(rewards) = total
<1> DEFINE p == [k \in 0 .. n |-> floorSum[k] + (IF k <= mod THEN k ELSE mod)]
<1>1. /\ n \in Nat /\ mod \in Nat /\ floorSum \in [0 .. n -> Nat]
      /\ rewards \in [1 .. n -> Int] /\ floors \in [1 .. n -> Nat] /\ Divided
  <2>1. /\ n \in Nat /\ mod \in Nat /\ floorSum \in [0 .. n -> Nat]
        /\ rewards \in [1 .. n -> Nat] /\ floors \in [1 .. n -> Nat]
    BY DEF IInv, TypeOK, Index
  <2>2. rewards \in [1 .. n -> Int]
    BY <2>1
  <2>3. Divided
    BY DEF Divided
  <2> QED
    BY <2>1, <2>2, <2>3
<1>2. /\ floorSum[0] = 0 /\ \A k \in 1 .. n : floorSum[k] = floorSum[k - 1] + floors[k]
      /\ mod < n /\ floorSum[n] + mod = total
      /\ \A k \in 1 .. n : rewards[k] = floors[k] + (IF k <= mod THEN 1 ELSE 0)
  <2>1. avg = 0 /\ mod < n /\ floorSum[n] + mod = total
    BY <1>1 DEF IInv, LeftoverInv
  <2>2. \A k \in 1 .. n : Extra(k) = (IF k <= mod THEN 1 ELSE 0)
    BY <2>1 DEF Extra
  <2>3. floorSum[0] = 0 /\ \A k \in 1 .. n : floorSum[k] = floorSum[k - 1] + floors[k]
    BY <1>1 DEF IInv, FloorSumInv, Index
  <2> QED
    BY <2>1, <2>2, <2>3 DEF IInv, LeftoverInv, Index
<1>3. p \in [0 .. n -> Int] /\ p[0] = 0 /\ p[n] = total
  BY <1>1, <1>2, SMTT(30)
<1>4. \A k \in 1 .. n : p[k] = p[k - 1] + rewards[k]
  <2> SUFFICES ASSUME NEW k \in 1 .. n PROVE p[k] = p[k - 1] + rewards[k]
    OBVIOUS
  <2>1. /\ k \in Nat /\ k >= 1 /\ k - 1 \in 0 .. n /\ k \in 0 .. n
        /\ floorSum[k - 1] \in Nat /\ floors[k] \in Nat
    BY <1>1
  <2>2. /\ p[k] = floorSum[k] + (IF k <= mod THEN k ELSE mod)
        /\ p[k - 1] = floorSum[k - 1] + (IF k - 1 <= mod THEN k - 1 ELSE mod)
    BY <2>1
  <2>3. /\ floorSum[k] = floorSum[k - 1] + floors[k]
        /\ rewards[k] = floors[k] + (IF k <= mod THEN 1 ELSE 0)
    BY <1>2
  <2> HIDE DEF p
  <2>4. CASE k <= mod
    <3>1. k - 1 <= mod
      BY <1>1, <2>1, <2>4
    <3> QED
      BY <1>1, <2>1, <2>2, <2>3, <2>4, <3>1
  <2>5. CASE ~(k <= mod) /\ k - 1 <= mod
    <3>1. k - 1 = mod
      BY <1>1, <2>1, <2>5
    <3>2. p[k] = floorSum[k] + (k - 1) /\ p[k - 1] = floorSum[k - 1] + (k - 1)
      BY <2>2, <2>5, <3>1
    <3>3. rewards[k] = floors[k]
      BY <2>1, <2>3, <2>5
    <3> QED
      BY <2>1, <2>3, <3>2, <3>3
  <2>6. CASE ~(k - 1 <= mod)
    <3>1. ~(k <= mod)
      BY <1>1, <2>1, <2>6
    <3> QED
      BY <1>1, <2>1, <2>2, <2>3, <2>6, <3>1
  <2> QED
    BY <2>4, <2>5, <2>6
<1> HIDE DEF p
<1> QED
  BY <1>1, <1>3, <1>4, PrefixSum

\* Nobody gets more than the total.
LEMMA RewardBelowTotal ==
  ASSUME IInv, pc \in {"verify", "done"}, NEW k \in Index
  PROVE  rewards[k] \in 0 .. total
<1> DEFINE h == [j \in Index \ {k} |-> rewards[j]]
<1>1. IsFiniteSet(Index) /\ rewards \in [Index -> Nat] /\ total \in Nat
  <2>1. n \in Nat /\ rewards \in [Index -> Nat] /\ total \in Nat
    BY DEF IInv, TypeOK
  <2>2. IsFiniteSet(1 .. n)
    BY <2>1, FS_Interval
  <2> QED
    BY <2>1, <2>2 DEF Index
<1>2. /\ h \in [Index \ {k} -> Nat] /\ h \in [Index \ {k} -> Int]
      /\ rewards \in [Index -> Int]
      /\ \A j \in Index \ {k} : h[j] = rewards[j]
  BY <1>1
<1>3. SumFunction(rewards) = rewards[k] + SumFunction(h)
  <2> HIDE DEF h
  <2>1. \A g \in [Index \ {k} -> Int] :
          (\A y \in Index \ {k} : g[y] = rewards[y])
            => SumFunction(rewards) = rewards[k] + SumFunction(g)
    BY <1>1, <1>2, SumRemove
  <2> QED
    BY <1>2, <2>1
<1>4. SumFunction(h) \in Nat
  <2>1. \A R \in SUBSET Index : SumFunction([x \in R |-> rewards[x]]) \in Nat
    BY <1>1, SumOfPart
  <2> QED
    BY <2>1
<1> HIDE DEF h
<1> QED
  BY <1>1, <1>3, <1>4, RewardsSummed

\* What is returned is a fair split of the total.
LEMMA ResultIsFair ==
  ASSUME IInv, pc \in {"verify", "done"}
  PROVE  /\ Abstract!SumOf(shares) > 0
         /\ rewards \in [DOMAIN shares -> 0 .. total]
         /\ Abstract!Fair(rewards)
<1>1. /\ total \in Nat /\ n \in Nat /\ sumTotalShare \in Nat /\ sumTotalShare > 0
      /\ shares \in [Index -> Nat] /\ rewards \in [Index -> Nat] /\ floors \in [Index -> Nat]
      /\ DOMAIN shares = Index
  BY DEF IInv, TypeOK, ShareSumInv
<1>2. Abstract!SumOf(shares) = sumTotalShare /\ Abstract!SumOf(rewards) = total
  BY SharesSummed, RewardsSummed, SameSum
<1>3. rewards \in [DOMAIN shares -> 0 .. total]
  BY <1>1, RewardBelowTotal
<1>4. ASSUME NEW k \in Index
      PROVE  /\ total * shares[k] < (rewards[k] + 1) * sumTotalShare
             /\ rewards[k] * sumTotalShare <= total * shares[k] + sumTotalShare
  <2>1. /\ rewards[k] \in {floors[k], floors[k] + 1}
        /\ shares[k] \in Nat /\ floors[k] \in Nat /\ rewards[k] \in Nat
        /\ total * shares[k] \in Nat
    <3>1. rewards[k] = floors[k] + Extra(k) /\ avg = 0
      BY DEF IInv, LeftoverInv
    <3>2. Extra(k) \in {0, 1} /\ floors[k] \in Nat /\ shares[k] \in Nat /\ rewards[k] \in Nat
      BY <3>1, <1>1 DEF Extra
    <3> QED
      BY <1>1, <3>1, <3>2, MulNat
  <2>2. /\ sumTotalShare * floors[k] <= total * shares[k]
        /\ total * shares[k] < sumTotalShare * floors[k] + sumTotalShare
    <3>1. Divided
      BY DEF Divided
    <3> QED
      BY <3>1 DEF IInv, FloorSumInv
  <2>3. /\ (floors[k] + 1) * sumTotalShare = sumTotalShare * floors[k] + sumTotalShare
        /\ floors[k] * sumTotalShare = sumTotalShare * floors[k]
        /\ ((floors[k] + 1) + 1) * sumTotalShare
             = sumTotalShare * floors[k] + sumTotalShare + sumTotalShare
        /\ sumTotalShare * floors[k] \in Nat
    BY <1>1, <2>1, Z3
  <2>4. CASE rewards[k] = floors[k]
    BY <1>1, <2>1, <2>2, <2>3, <2>4
  <2>5. CASE rewards[k] = floors[k] + 1
    BY <1>1, <2>1, <2>2, <2>3, <2>5
  <2> QED
    BY <2>1, <2>4, <2>5
<1>5. Abstract!Fair(rewards)
  BY <1>1, <1>2, <1>4 DEF Abstract!Fair
<1> QED
  BY <1>1, <1>2, <1>3, <1>5

\* No answer has been given when the function is called.
LEMMA FairInit == Init => Abstract!Init
BY DEF Init, Abstract!Init

\* Only the return is a step of FairSplit, and it gives a fair answer.
LEMMA FairStep ==
  ASSUME IInv, [Next]_vars
  PROVE  [Abstract!Next]_(Abstract!vars)
<1>1. CASE Return
  <2>1. /\ pc = "verify" /\ pc' = "done" /\ rewards' = rewards
        /\ total' = total /\ shares' = shares
    BY <1>1 DEF Return, input
  <2>2. /\ Abstract!SumOf(shares) > 0
        /\ rewards \in [DOMAIN shares -> 0 .. total]
        /\ Abstract!Fair(rewards)
    BY <2>1, ResultIsFair
  <2>3. rewards \in {r \in [DOMAIN shares -> 0 .. total] : Abstract!Fair(r)}
    BY <2>2
  <2>4. Abstract!Split
    BY <2>1, <2>2, <2>3 DEF Abstract!Split
  <2> QED
    BY <2>4 DEF Abstract!Next
<1>2. CASE ~Return
  <2>1. total' = total /\ shares' = shares
    BY <1>2 DEF Next, SumShare, CheckShares, Divide, Leftover, Adjust, StartVerify, Verify,
                Return, vars, input
  <2>2. \/ pc' = pc /\ rewards' = rewards
        \/ pc # "done" /\ pc' # "done"
    BY <1>2 DEF Next, SumShare, CheckShares, Divide, Leftover, Adjust, StartVerify, Verify,
                Return, vars, input, ghost
  <2> QED
    BY <2>1, <2>2 DEF Abstract!vars
<1> QED
  BY <1>1, <1>2

\* DivideRewards implements FairSplit, for every total and every list of shares.
THEOREM ImplementsFairSplit == Spec => FairSplitSpec
<1>1. IInv /\ [Next]_vars => [Abstract!Next]_(Abstract!vars)
  BY FairStep
<1> QED
  BY FairInit, Inductive, <1>1, PTL DEF Spec, FairSplitSpec, Abstract!Spec

----------------------------------------------------------------------------

\* DivideRewards returns nil only if no share is positive.
NilInv == pc = "nil" => sumTotalShare = 0

\* NilInv is an invariant.
LEMMA NilOnlyWithoutShares == Spec => []NilInv
<1>1. Init => NilInv
  BY DEF Init, NilInv
<1>2. IInv /\ NilInv /\ [Next]_vars => NilInv'
  <2> SUFFICES ASSUME IInv, NilInv, [Next]_vars, pc' = "nil" PROVE sumTotalShare' = 0
    BY DEF NilInv
  <2>1. CheckShares \/ UNCHANGED vars
    BY DEF Next, SumShare, Divide, Leftover, Adjust, StartVerify, Verify, Return
  <2>2. sumTotalShare \in Nat
    BY DEF IInv, TypeOK
  <2>3. CASE CheckShares
    BY <2>2, <2>3 DEF CheckShares
  <2>4. CASE UNCHANGED vars
    BY <2>4 DEF vars, NilInv
  <2> QED
    BY <2>1, <2>3, <2>4
<1> QED
  BY <1>1, <1>2, Inductive, PTL DEF Spec

\* The operator of RewardMath computes what the loops compute.
LEMMA ResultIsSplit ==
  ASSUME IInv, NilInv
  PROVE  OperatorAgrees
<1>1. /\ total \in Nat /\ n \in Nat /\ sumTotalShare \in Nat /\ mod \in Nat
      /\ shares \in [1 .. n -> Nat] /\ rewards \in [1 .. n -> Nat] /\ floors \in [1 .. n -> Nat]
      /\ Len(shares) = n
  <2>1. n \in Nat /\ shares \in [1 .. n -> Nat]
    BY DEF IInv, TypeOK, Index
  <2>2. Len(shares) = n
    BY <2>1
  <2> QED
    BY <2>1, <2>2 DEF IInv, TypeOK, Index
<1>2. ASSUME pc = "nil" PROVE Math!SplitRewards(total, shares) = <<>>
  <2>1. Math!SumFunction(shares) = 0
    BY <1>2, SharesSummed, SameSum DEF NilInv
  <2> QED
    BY <2>1 DEF Math!SplitRewards
<1>3. ASSUME pc = "done" PROVE rewards = Math!SplitRewards(total, shares)
  <2>1. Math!SumFunction(shares) = sumTotalShare /\ sumTotalShare > 0
    BY <1>3, SharesSummed, SameSum DEF IInv, ShareSumInv
  <2>2. Divided
    BY <1>3 DEF Divided
  <2>3. ASSUME NEW k \in 1 .. n PROVE (total * shares[k]) \div sumTotalShare = floors[k]
    <3>1. /\ sumTotalShare * floors[k] <= total * shares[k]
          /\ total * shares[k] < sumTotalShare * floors[k] + sumTotalShare
      BY <2>2 DEF IInv, FloorSumInv, Index
    <3>2. total * shares[k] \in Nat /\ floors[k] \in Nat
      BY <1>1, MulNat
    <3> QED
      BY <1>1, <2>1, <3>1, <3>2, DivUnique
  <2>4. floors = [j \in 1 .. n |-> (total * shares[j]) \div sumTotalShare]
    BY <1>1, <2>3
  <2>5. /\ Math!SumFunction(floors) = floorSum[n] /\ floorSum[n] \in Nat
        /\ total - floorSum[n] = mod /\ mod < n
    BY <1>1, <2>2, FloorsSummed, SameSum, SMTT(30) DEF IInv, LeftoverInv, TypeOK
  <2>6. mod \div n = 0 /\ mod % n = mod
    BY <1>1, <2>5, SmallDiv
  <2>7. ASSUME NEW k \in 1 .. n PROVE rewards[k] = floors[k] + Math!Spread(mod, n, k)
    <3>1. rewards[k] = floors[k] + (IF k <= mod THEN 1 ELSE 0)
      BY <1>3, <1>1 DEF IInv, LeftoverInv, Extra, Index
    <3>2. Math!Spread(mod, n, k) = (IF k <= mod THEN 1 ELSE 0)
      BY <2>6 DEF Math!Spread
    <3> QED
      BY <3>1, <3>2
  <2>8. rewards = [j \in 1 .. n |-> floors[j] + Math!Spread(mod, n, j)]
    BY <1>1, <2>7
  <2>9. Math!SplitRewards(total, shares)
          = [j \in 1 .. n |-> floors[j] + Math!Spread(mod, n, j)]
    <3> DEFINE F == [j \in 1 .. Len(shares) |->
                       (total * shares[j]) \div Math!SumFunction(shares)]
    <3>1. F = floors
      BY <1>1, <2>1, <2>4
    <3>2. Math!SplitRewards(total, shares)
            = IF Math!SumFunction(shares) <= 0 THEN <<>>
              ELSE [j \in 1 .. Len(shares) |->
                      F[j] + Math!Spread(total - Math!SumFunction(F), Len(shares), j)]
      BY DEF Math!SplitRewards
    <3> HIDE DEF F
    <3> QED
      BY <1>1, <2>1, <2>5, <3>1, <3>2
  <2> QED
    BY <2>8, <2>9
<1> QED
  BY <1>2, <1>3 DEF OperatorAgrees

\* SplitRewards, which ByVolume and ByLiquidity are modelled with, is DivideRewards, for
\* every total and every list of shares.
THEOREM OperatorIsLoop == Spec => []OperatorAgrees
<1>1. IInv /\ NilInv => OperatorAgrees
  BY ResultIsSplit
<1> QED
  BY <1>1, Inductive, NilOnlyWithoutShares, PTL
=============================================================================
