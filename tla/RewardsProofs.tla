--------------------------- MODULE RewardsProofs ---------------------------
(***************************************************************************)
(* Theorems about the rewards, for any number of exchanges and accounts,   *)
(* any balances, volumes and weights, any moves, errors and restarts, and  *)
(* for share files of any length.  Both ways to settle rest on the same    *)
(* arithmetic (RewardMath) and are proved here: rewards by liquidity       *)
(* (LiquidRewards), then rewards by volume (VolumeRewards).                *)
(***************************************************************************)
EXTENDS LiquidRewards, VolumeRewards, SumTheorems

----------------------------------------------------------------------------
\* A finite set has its elements in order.

\* R orders the elements of S.
Orders(R, S) ==
  /\ \A x, y, z \in S : <<x, y>> \in R /\ <<y, z>> \in R => <<x, z>> \in R
  /\ \A x, y \in S : x = y \/ <<x, y>> \in R \/ <<y, x>> \in R

\* An ordered finite set has a last element.
LEMMA LastElement ==
  ASSUME NEW S, IsFiniteSet(S), NEW R, Orders(R, S)
  PROVE  \A A \in SUBSET S : A # {} => \E m \in A : \A x \in A \ {m} : <<x, m>> \in R
<1> DEFINE HasLast(A) == \E m \in A : \A x \in A \ {m} : <<x, m>> \in R
           T == {A \in SUBSET S : A # {} => HasLast(A)}
<1>1. ASSUME NEW A \in SUBSET S, \A B \in SUBSET A : B # A => B \in T
      PROVE  A \in T
  <2> SUFFICES ASSUME A # {} PROVE HasLast(A)
    OBVIOUS
  <2>1. PICK x \in A : TRUE
    OBVIOUS
  <2>2. CASE A \ {x} = {}
    BY <2>1, <2>2
  <2>3. CASE A \ {x} # {}
    <3>1. A \ {x} \in SUBSET A /\ A \ {x} # A
      BY <2>1
    <3>2. PICK m \in A \ {x} : \A y \in (A \ {x}) \ {m} : <<y, m>> \in R
      BY <1>1, <2>3, <3>1
    <3>3. CASE <<m, x>> \in R
      <4>1. \A y \in A \ {x} : <<y, x>> \in R
        BY <3>2, <3>3 DEF Orders
      <4> QED
        BY <2>1, <4>1
    <3>4. CASE <<x, m>> \in R
      BY <3>2, <3>4
    <3> QED
      BY <2>1, <3>2, <3>3, <3>4 DEF Orders
  <2> QED
    BY <2>2, <2>3
<1>2. \A A \in SUBSET S : A \in T
  <2> HIDE DEF T
  <2> QED
    BY <1>1, SubsetInduction
<1> QED
  BY <1>2

\* l lists A in the order of R.
Lists(l, A, R) ==
  /\ l \in [1 .. Cardinality(A) -> A]
  /\ \A i, j \in 1 .. Cardinality(A) : i < j => <<l[i], l[j]>> \in R

\* The list exists: take the last element out and put it at the end.
LEMMA ListExists ==
  ASSUME NEW S, IsFiniteSet(S), NEW R, Orders(R, S)
  PROVE  \E l : Lists(l, S, R)
<1> DEFINE T == {A \in SUBSET S : \E l : Lists(l, A, R)}
<1>1. ASSUME NEW A \in SUBSET S, \A B \in SUBSET A : B # A => B \in T
      PROVE  A \in T
  <2>1. CASE A = {}
    <3>1. Cardinality(A) = 0 /\ 1 .. 0 = {}
      BY <2>1, FS_EmptySet
    <3>2. Lists([i \in {} |-> i], A, R)
      BY <2>1, <3>1 DEF Lists
    <3> QED
      BY <3>2
  <2>2. CASE A # {}
    <3>1. PICK m \in A : \A x \in A \ {m} : <<x, m>> \in R
      BY <2>2, LastElement
    <3> DEFINE B == A \ {m}
               n == Cardinality(B)
    <3>2. B \in SUBSET A /\ B # A
      BY <3>1
    <3>3. PICK k : Lists(k, B, R)
      BY <1>1, <3>2
    <3>4. IsFiniteSet(A) /\ n = Cardinality(A) - 1 /\ n \in Nat
      <4>1. IsFiniteSet(A) /\ IsFiniteSet(B)
        BY FS_Subset
      <4>2. Cardinality(B) = Cardinality(A) - 1
        BY <3>1, <4>1, FS_RemoveElement
      <4>3. Cardinality(B) \in Nat
        BY <4>1, FS_CardinalityType
      <4> QED
        BY <4>1, <4>2, <4>3
    <3>5. Cardinality(A) = n + 1
      <4>1. Cardinality(A) \in Nat
        BY <3>4, FS_CardinalityType
      <4> QED
        BY <3>4, <4>1
    <3> HIDE DEF B, n
    <3>6. k \in [1 .. n -> B] /\ \A i, j \in 1 .. n : i < j => <<k[i], k[j]>> \in R
      BY <3>3 DEF Lists, n
    <3> DEFINE l == [i \in 1 .. (n + 1) |-> IF i = n + 1 THEN m ELSE k[i]]
    <3>7. \A i \in 1 .. (n + 1) : i # n + 1 => i \in 1 .. n
      BY <3>4
    <3>8. l \in [1 .. (n + 1) -> A]
      BY <3>2, <3>6, <3>7
    <3>9. \A i, j \in 1 .. (n + 1) : i < j => <<l[i], l[j]>> \in R
      <4> SUFFICES ASSUME NEW i \in 1 .. (n + 1), NEW j \in 1 .. (n + 1), i < j
                   PROVE  <<l[i], l[j]>> \in R
        OBVIOUS
      <4>1. i \in 1 .. n /\ l[i] = k[i] /\ k[i] \in B
        BY <3>4, <3>6
      <4>2. CASE j = n + 1
        BY <3>1, <4>1, <4>2 DEF B
      <4>3. CASE j # n + 1
        BY <3>6, <3>7, <4>1, <4>3
      <4> QED
        BY <4>2, <4>3
    <3> HIDE DEF l
    <3>10. Lists(l, A, R)
      BY <3>5, <3>8, <3>9 DEF Lists
    <3> QED
      BY <3>10
  <2> QED
    BY <2>1, <2>2
<1>2. \A A \in SUBSET S : A \in T
  <2> HIDE DEF T
  <2> QED
    BY <1>1, SubsetInduction
<1> QED
  BY <1>2

\* Enumerate lists the elements of an ordered finite set, in order.
LEMMA EnumerateLists ==
  ASSUME NEW S, IsFiniteSet(S), NEW R, Orders(R, S)
  PROVE  Lists(Enumerate(S, R), S, R)
<1>1. \E l \in [1 .. Cardinality(S) -> S] :
        \A i, j \in DOMAIN l : i < j => <<l[i], l[j]>> \in R
  <2>1. PICK l : Lists(l, S, R)
    BY ListExists
  <2>2. /\ l \in [1 .. Cardinality(S) -> S] /\ DOMAIN l = 1 .. Cardinality(S)
        /\ \A i, j \in DOMAIN l : i < j => <<l[i], l[j]>> \in R
    BY <2>1 DEF Lists
  <2> QED
    BY <2>2
<1> DEFINE l == Enumerate(S, R)
<1>2. /\ l \in [1 .. Cardinality(S) -> S]
      /\ \A i, j \in DOMAIN l : i < j => <<l[i], l[j]>> \in R
  BY <1>1 DEF Enumerate
<1> HIDE DEF l
<1>3. Lists(l, S, R)
  BY <1>2 DEF Lists
<1> QED
  BY <1>3 DEF l

----------------------------------------------------------------------------
\* Lists of statistics

\* A statistic as it is computed, and one whose reward nobody has computed yet
Stat  == [account : Accounts, share : Nat \ {0}, reward : Nat \cup {NoReward}]
Fresh == {s \in Stat : s.reward = NoReward}

\* Statistics of different accounts without a reward are ordered by Less.
LEMMA LessOrders ==
  ASSUME NEW S \in SUBSET Fresh, \A s, t \in S : s.account = t.account => s = t
  PROVE  Orders({p \in S \X S : Less(p[1], p[2])}, S)
<1> DEFINE R == {p \in S \X S : Less(p[1], p[2])}
<1>1. \A s \in S : s.account \in Nat /\ s.share \in Nat /\ s.reward = NoReward
  BY SettlementAssumption DEF Fresh, Stat
<1>2. \A s, t \in S : <<s, t>> \in R <=>
         IF s.share - t.share # 0 THEN s.share - t.share > 0 ELSE s.account < t.account
  BY <1>1 DEF Less, NoReward
<1> HIDE DEF R
<1>3. \A x, y, z \in S : <<x, y>> \in R /\ <<y, z>> \in R => <<x, z>> \in R
  <2> SUFFICES ASSUME NEW x \in S, NEW y \in S, NEW z \in S, <<x, y>> \in R, <<y, z>> \in R
               PROVE  <<x, z>> \in R
    OBVIOUS
  <2>1. /\ x.share > y.share \/ (x.share = y.share /\ x.account < y.account)
        /\ y.share > z.share \/ (y.share = z.share /\ y.account < z.account)
    BY <1>1, <1>2
  <2> QED
    BY <1>1, <1>2, <2>1
<1>4. \A x, y \in S : x = y \/ <<x, y>> \in R \/ <<y, x>> \in R
  <2> SUFFICES ASSUME NEW x \in S, NEW y \in S, x # y PROVE <<x, y>> \in R \/ <<y, x>> \in R
    OBVIOUS
  <2>1. x.account # y.account
    OBVIOUS
  <2> QED
    BY <1>1, <1>2, <2>1
<1>5. Orders(R, S)
  BY <1>3, <1>4 DEF Orders
<1> QED
  BY <1>5 DEF R

\* Numbers are ordered by <.
LEMMA NumbersOrder ==
  ASSUME NEW S \in SUBSET Int
  PROVE  Orders({p \in S \X S : p[1] < p[2]}, S)
BY DEF Orders

\* What is sorted is a list of the statistics with a positive share.
LEMMA SortedIsList ==
  ASSUME NEW S, IsFiniteSet(S),
         \A s \in S : s \in [account : Accounts, share : Nat, reward : {NoReward}],
         \A s, t \in S : s.account = t.account => s = t
  PROVE  LET l == ConvertToSortedSlice(S)
         IN  l \in Seq(Fresh) /\ \A i \in DOMAIN l : l[i] \in S
<1> DEFINE kept == {s \in S : s.share > 0}
           R == {p \in kept \X kept : Less(p[1], p[2])}
           l == Enumerate(kept, R)
<1>1. kept \in SUBSET Fresh /\ kept \in SUBSET S
  BY DEF Fresh, Stat
<1>2. IsFiniteSet(kept) /\ Cardinality(kept) \in Nat
  BY <1>1, FS_Subset, FS_CardinalityType
<1>3. Orders(R, kept)
  <2>1. \A s, t \in kept : s.account = t.account => s = t
    OBVIOUS
  <2> HIDE DEF kept
  <2> QED
    BY <1>1, <2>1, LessOrders
<1>4. l \in [1 .. Cardinality(kept) -> kept]
  <2> HIDE DEF kept, R
  <2> QED
    BY <1>2, <1>3, EnumerateLists DEF Lists
<1>5. l = ConvertToSortedSlice(S)
  BY DEF ConvertToSortedSlice
<1> HIDE DEF kept, R, l
<1>6. l \in [1 .. Cardinality(kept) -> Fresh] /\ \A i \in DOMAIN l : l[i] \in S
  BY <1>1, <1>4
<1>7. l \in Seq(Fresh)
  BY <1>2, <1>6 
<1> QED
  BY <1>5, <1>6, <1>7

\* What is read from a file is a list of the lines with a positive share, except the
\* excluded accounts.
LEMMA FileIsList ==
  ASSUME NEW lines \in Seq(Accounts \X Int)
  PROVE  LET l == SharesFromFile(lines)
         IN  l \in Seq(Fresh) /\ \A k \in DOMAIN l : l[k].account \notin Excluded
<1> DEFINE kept == {i \in DOMAIN lines : lines[i][1] \notin Excluded /\ lines[i][2] > 0}
           R == {p \in kept \X kept : p[1] < p[2]}
           read == Enumerate(kept, R)
<1>1. /\ Len(lines) \in Nat /\ DOMAIN lines = 1 .. Len(lines)
      /\ \A i \in DOMAIN lines : lines[i] \in Accounts \X Int
  OBVIOUS
<1>2. kept \in SUBSET (1 .. Len(lines)) /\ kept \in SUBSET Int
  BY <1>1
<1>3. IsFiniteSet(kept) /\ Cardinality(kept) \in Nat
  <2>1. IsFiniteSet(1 .. Len(lines))
    BY <1>1, FS_Interval
  <2> QED
    BY <1>2, <2>1, FS_Subset, FS_CardinalityType
<1>4. Orders(R, kept)
  <2> HIDE DEF kept
  <2> QED
    BY <1>2, NumbersOrder
<1>5. read \in [1 .. Cardinality(kept) -> kept]
  <2> HIDE DEF kept, R
  <2> QED
    BY <1>3, <1>4, EnumerateLists DEF Lists
<1>6. \A i \in kept : /\ lines[i][1] \in Accounts /\ lines[i][1] \notin Excluded
                      /\ lines[i][2] \in Nat \ {0}
  BY <1>1
<1>7. SharesFromFile(lines) =
        [k \in DOMAIN read |-> [account |-> lines[read[k]][1], share |-> lines[read[k]][2],
                                reward |-> NoReward]]
  BY DEF SharesFromFile
<1> HIDE DEF kept, R, read
<1>8. /\ SharesFromFile(lines) \in [1 .. Cardinality(kept) -> Fresh]
      /\ \A k \in DOMAIN SharesFromFile(lines) : SharesFromFile(lines)[k].account \notin Excluded
  BY <1>5, <1>6, <1>7 DEF Fresh, Stat
<1> QED
  BY <1>3, <1>8, SMTT(30)

----------------------------------------------------------------------------
\* DivideRewards as an operator

\* A rounded-down reward, or one unit more, is within a unit of the exact one.
LEMMA WithinAUnit ==
  ASSUME NEW T \in Nat, NEW S \in Nat, S > 0, NEW s \in Nat, NEW f \in Nat, NEW r \in Nat,
         S * f <= T * s, T * s < S * f + S, r = f \/ r = f + 1
  PROVE  /\ T * s < S * (r + 1) /\ S * r <= T * s + S
         /\ s = 0 => r <= 1
<1>1. S * f \in Nat /\ T * s \in Nat
  BY MulNat
<1>2. S * (f + 1) = S * f + S /\ S * ((f + 1) + 1) = S * f + S + S
  BY Distribute, Z3
<1>3. s = 0 => f = 0
  <2> SUFFICES ASSUME s = 0, f >= 1 PROVE FALSE
    OBVIOUS
  <2>1. T * s = 0
    BY Z3
  <2>2. S * 1 <= S * f /\ S * 1 = S
    BY MulMono, Z3
  <2> QED
    BY <1>1, <2>1, <2>2
<1>4. CASE r = f
  BY <1>1, <1>2, <1>3, <1>4
<1>5. CASE r = f + 1
  BY <1>1, <1>2, <1>3, <1>5
<1> QED
  BY <1>4, <1>5

\* The rounded-down rewards leave over less than one unit for each item.
LEMMA LeftOver ==
  ASSUME NEW T \in Nat, NEW S \in Nat, S > 0, NEW n \in Nat, n > 0,
         NEW shares \in [1 .. n -> Nat], NEW floors \in [1 .. n -> Nat],
         \A k \in 1 .. n : S * floors[k] <= T * shares[k] /\ T * shares[k] < S * floors[k] + S,
         SumFunction(shares) = S
  PROVE  T - SumFunction(floors) \in 0 .. (n - 1)
<1> DEFINE F == SumFunction(floors)
           exact == [k \in 1 .. n |-> T * shares[k]]
           below == [k \in 1 .. n |-> S * floors[k]]
           most  == [k \in 1 .. n |-> S - 1]
           above == [k \in 1 .. n |-> S * floors[k] + (S - 1)]
<1>1. F \in Nat
  BY SumNat
<1>2. \A k \in 1 .. n : S * floors[k] \in Nat /\ T * shares[k] \in Nat
  BY MulNat
<1>3. /\ exact \in [1 .. n -> Int] /\ below \in [1 .. n -> Int]
      /\ most \in [1 .. n -> Int] /\ above \in [1 .. n -> Int]
      /\ shares \in [1 .. n -> Int] /\ floors \in [1 .. n -> Int]
  <2>1. ASSUME NEW k \in 1 .. n
        PROVE  T * shares[k] \in Int /\ S * floors[k] \in Int /\ S * floors[k] + (S - 1) \in Int
    <3>1. T * shares[k] \in Nat /\ S * floors[k] \in Nat
      BY <1>2
    <3> QED
      BY <3>1
  <2>2. exact \in [1 .. n -> Int]
    BY <2>1
  <2>3. below \in [1 .. n -> Int]
    BY <2>1
  <2>4. above \in [1 .. n -> Int]
    BY <2>1
  <2>5. most \in [1 .. n -> Int] /\ shares \in [1 .. n -> Int] /\ floors \in [1 .. n -> Int]
    OBVIOUS
  <2> HIDE DEF exact, below, most, above
  <2> QED
    BY <2>2, <2>3, <2>4, <2>5
<1>4. /\ \A k \in 1 .. n : exact[k] = T * shares[k]
      /\ \A k \in 1 .. n : below[k] = S * floors[k]
      /\ \A k \in 1 .. n : most[k] = S - 1
      /\ \A k \in 1 .. n : above[k] = below[k] + most[k]
  OBVIOUS
<1>5. ASSUME NEW k \in 1 .. n PROVE below[k] <= exact[k] /\ exact[k] <= above[k]
  <2>1. /\ T * shares[k] \in Nat /\ S * floors[k] \in Nat
        /\ S * floors[k] <= T * shares[k] /\ T * shares[k] < S * floors[k] + S
    BY <1>2
  <2>2. above[k] = S * floors[k] + (S - 1)
    OBVIOUS
  <2> HIDE DEF exact, below, most, above
  <2> QED
    BY <1>4, <2>1, <2>2, SMTT(30)
<1> HIDE DEF F, exact, below, most, above
<1>6. \A c \in Nat : \A f, h \in [1 .. n -> Int] :
        (\A k \in 1 .. n : h[k] = c * f[k]) => SumFunction(h) = c * SumFunction(f)
  <2>1. \A c \in Nat : c \in Int
    OBVIOUS
  <2> QED
    BY <2>1, SumScale, Zenon
<1>7. SumFunction(exact) = T * SumFunction(shares) /\ SumFunction(below) = S * SumFunction(floors)
  BY <1>3, <1>4, <1>6, ZenonT(30)
<1>8. SumFunction(most) = n * (S - 1)
  <2>1. S - 1 \in Int
    OBVIOUS
  <2> QED
    BY <2>1, <1>3, <1>4, SumConst, ZenonT(30)
<1>9. SumFunction(above) = SumFunction(below) + SumFunction(most)
  BY <1>3, <1>4, SumPlus, ZenonT(30)
<1>10. SumFunction(below) <= SumFunction(exact) /\ SumFunction(exact) <= SumFunction(above)
  BY <1>3, <1>5, SumMono
<1>11. S * F <= T * S /\ T * S <= S * F + n * (S - 1)
  BY <1>6, <1>7, <1>8, <1>9, <1>10 DEF F
<1>12. F <= T /\ T < F + n
  BY <1>1, <1>11, LeftoverSmall
<1> QED
  BY <1>1, <1>12, SMTT(30) DEF F

\* As many units as there are left are spread.
LEMMA SpreadSum ==
  ASSUME NEW n \in Nat, NEW left \in 0 .. (n - 1),
         NEW f \in [1 .. n -> Int], \A k \in 1 .. n : f[k] = IF k <= left THEN 1 ELSE 0
  PROVE  SumFunction(f) = left
<1> DEFINE p == [k \in 0 .. n |-> IF k <= left THEN k ELSE left]
<1>1. p \in [0 .. n -> Int] /\ p[0] = 0 /\ p[n] = left
  OBVIOUS
<1>2. ASSUME NEW k \in 1 .. n PROVE p[k] = p[k - 1] + f[k]
  <2>1. k \in 0 .. n /\ k - 1 \in 0 .. n /\ k \in Int
    OBVIOUS
  <2>2. /\ p[k] = (IF k <= left THEN k ELSE left)
        /\ p[k - 1] = (IF k - 1 <= left THEN k - 1 ELSE left)
        /\ f[k] = (IF k <= left THEN 1 ELSE 0)
    BY <2>1
  <2> HIDE DEF p
  <2>3. CASE k <= left
    BY <2>1, <2>2, <2>3
  <2>4. CASE k = left + 1
    BY <2>1, <2>2, <2>4
  <2>5. CASE k > left + 1
    BY <2>1, <2>2, <2>5
  <2> QED
    BY <2>1, <2>3, <2>4, <2>5
<1> HIDE DEF p
<1> QED
  BY <1>1, <1>2, PrefixSum

\* What DivideRewards promises: one reward for each share, in sum the total, and each
\* within a unit of the exact proportion.
FairRewards(r, T, S, n, shares) ==
  /\ r \in [1 .. n -> Nat]
  /\ SumFunction(r) = T
  /\ \A k \in 1 .. n : /\ T * shares[k] < S * (r[k] + 1) /\ S * r[k] <= T * shares[k] + S
                       /\ shares[k] = 0 => r[k] <= 1

\* DivideRewards keeps the promise if any share is positive.
LEMMA SplitFacts ==
  ASSUME NEW T \in Nat, NEW n \in Nat, NEW shares \in [1 .. n -> Nat],
         NEW S \in Nat, SumFunction(shares) = S, S > 0
  PROVE  FairRewards(SplitRewards(T, shares), T, S, n, shares)
<1> DEFINE floors == [i \in 1 .. n |-> (T * shares[i]) \div S]
           left == T - SumFunction(floors)
           extra == [i \in 1 .. n |-> Spread(left, n, i)]
           r == [i \in 1 .. n |-> floors[i] + Spread(left, n, i)]
<1>1. n > 0
  <2> SUFFICES ASSUME n = 0 PROVE FALSE
    OBVIOUS
  <2>1. DOMAIN shares = {}
    OBVIOUS
  <2> QED
    BY <2>1, SumEmpty
<1>2. \A k \in 1 .. n : T * shares[k] \in Nat
  BY MulNat
<1>3. \A a \in Nat : a \div S \in Nat /\ S * (a \div S) <= a /\ a < S * (a \div S) + S
  BY DivBounds
<1>4. \A k \in 1 .. n : floors[k] = (T * shares[k]) \div S
  OBVIOUS
<1>5. floors \in [1 .. n -> Nat]
  <2>1. \A k \in 1 .. n : (T * shares[k]) \div S \in Nat
    BY <1>2, <1>3
  <2> QED
    BY <2>1
<1>6. SplitRewards(T, shares) = r
  <2>1. Len(shares) = n /\ ~(S <= 0)
    OBVIOUS
  <2> QED
    BY <2>1 DEF SplitRewards
<1> HIDE DEF floors
<1>7. \A k \in 1 .. n : S * floors[k] <= T * shares[k] /\ T * shares[k] < S * floors[k] + S
  BY <1>2, <1>3, <1>4
<1>8. left \in 0 .. (n - 1)
  BY <1>1, <1>5, <1>7, LeftOver
<1>9. \A k \in 1 .. n : Spread(left, n, k) = IF k <= left THEN 1 ELSE 0
  <2> HIDE DEF left
  <2>1. left \div n = 0 /\ left % n = left
    BY <1>1, <1>8, SmallDiv
  <2> QED
    BY <1>8, <2>1 DEF Spread
<1>10. SumFunction(extra) = left
  <2>1. extra \in [1 .. n -> Int] /\ \A k \in 1 .. n : extra[k] = IF k <= left THEN 1 ELSE 0
    <3> HIDE DEF left
    <3> QED
      BY <1>9
  <2> HIDE DEF left, extra
  <2> QED
    BY <1>8, <2>1, SpreadSum, ZenonT(30)
<1>11. /\ r \in [1 .. n -> Nat]
       /\ \A k \in 1 .. n : r[k] = floors[k] \/ r[k] = floors[k] + 1
  <2> HIDE DEF left
  <2>1. \A k \in 1 .. n : r[k] = floors[k] + (IF k <= left THEN 1 ELSE 0)
    BY <1>9
  <2>2. r = [k \in 1 .. n |-> r[k]]
    OBVIOUS
  <2> HIDE DEF r
  <2>3. \A k \in 1 .. n : floors[k] \in Nat /\ (r[k] = floors[k] \/ r[k] = floors[k] + 1)
    BY <1>5, <2>1
  <2>4. \A k \in 1 .. n : r[k] \in Nat
    BY <2>3
  <2> QED
    BY <2>2, <2>3, <2>4
<1>12. SumFunction(r) = T
  <2>1. /\ extra \in [1 .. n -> Int] /\ floors \in [1 .. n -> Int] /\ r \in [1 .. n -> Int]
        /\ \A k \in 1 .. n : r[k] = floors[k] + extra[k]
    <3> HIDE DEF left
    <3> QED
      BY <1>5, <1>9, <1>11
  <2> HIDE DEF extra, r
  <2>2. SumFunction(r) = SumFunction(floors) + SumFunction(extra)
    BY <2>1, SumPlus, Zenon
  <2>3. SumFunction(floors) \in Nat
    BY <1>5, SumNat
  <2> QED
    BY <1>10, <2>2, <2>3
<1> HIDE DEF r, left
<1>13. ASSUME NEW k \in 1 .. n
       PROVE  /\ T * shares[k] < S * (r[k] + 1) /\ S * r[k] <= T * shares[k] + S
              /\ shares[k] = 0 => r[k] <= 1
  <2>1. \A s, f, t \in Nat : S * f <= T * s /\ T * s < S * f + S /\ (t = f \/ t = f + 1)
          => T * s < S * (t + 1) /\ S * t <= T * s + S /\ (s = 0 => t <= 1)
    BY WithinAUnit, Zenon
  <2> QED
    BY <1>5, <1>7, <1>11, <2>1
<1> QED
  BY <1>6, <1>11, <1>12, <1>13 DEF FairRewards

----------------------------------------------------------------------------
\* The rewards of a list

\* What the accounts of a list are paid

\* The accounts of l keep their shares in m, are paid T in sum, all of them have a reward
\* if there is anything to pay, and each is within a unit of the exact proportion.
FairList(m, l, n, T) ==
  /\ m \in [1 .. n -> Stat]
  /\ \A i \in 1 .. n : m[i].account = l[i].account /\ m[i].share = l[i].share
  /\ RewardsSended(m) = T
  /\ T > 0 => \A i \in 1 .. n : m[i].reward \in Nat
  /\ \A i \in 1 .. n : /\ T * l[i].share < CalcTotalShare(l) * (Paid(m[i]) + 1)
                       /\ CalcTotalShare(l) * Paid(m[i]) <= T * l[i].share + CalcTotalShare(l)

\* No account has more than the sum of the shares.
LEMMA ShareInTotal ==
  ASSUME NEW n \in Nat, NEW l \in [1 .. n -> Stat]
  PROVE  /\ CalcTotalShare(l) \in Nat
         /\ \A i \in 1 .. n : l[i].share <= CalcTotalShare(l)
<1> DEFINE f == [i \in 1 .. n |-> l[i].share]
<1>1. f \in [1 .. n -> Nat] /\ CalcTotalShare(l) = SumFunction(f)
  BY DEF CalcTotalShare, Stat
<1>2. \A i \in 1 .. n : f[i] = l[i].share
  OBVIOUS
<1> HIDE DEF f
<1> QED
  BY <1>1, <1>2, SumMember, SumNat

\* CalcRewards divides its total fairly among the accounts of the list.
LEMMA CalcRewardsFacts ==
  ASSUME NEW n \in Nat, n > 0, NEW l \in [1 .. n -> Fresh], NEW T \in Nat
  PROVE  FairList(CalcRewards(l, T), l, n, T)
<1> DEFINE f == [i \in 1 .. n |-> l[i].share]
           S == CalcTotalShare(l)
           r == SplitRewards(T, f)
           m == CalcRewards(l, T)
           p == [i \in 1 .. n |-> Paid(m[i])]
<1>1. /\ \A i \in 1 .. n : /\ l[i].account \in Accounts /\ l[i].reward = NoReward
                           /\ l[i].share \in Nat /\ l[i].share > 0
      /\ l \in [1 .. n -> Stat] /\ 1 \in 1 .. n /\ DOMAIN l = 1 .. n
  BY DEF Fresh, Stat
<1>2. S \in Nat /\ S > 0 /\ \A i \in 1 .. n : l[i].share <= S
  <2> HIDE DEF S
  <2>1. S \in Nat /\ \A i \in 1 .. n : l[i].share <= S
    BY <1>1, ShareInTotal DEF S
  <2> QED
    BY <1>1, <2>1
<1>3. f \in [1 .. n -> Nat] /\ SumFunction(f) = S /\ \A i \in 1 .. n : f[i] = l[i].share
  BY <1>1 DEF CalcTotalShare
<1>4. FairRewards(r, T, S, n, f)
  <2> HIDE DEF f, S
  <2> QED
    BY <1>2, <1>3, SplitFacts
<1>5. /\ r \in [1 .. n -> Nat] /\ Len(r) = n /\ SumFunction(r) = T
      /\ \A k \in 1 .. n : T * f[k] < S * (r[k] + 1) /\ S * r[k] <= T * f[k] + S
  <2> HIDE DEF f, S, r
  <2> QED
    BY <1>4 DEF FairRewards
<1>6. [i \in DOMAIN l |-> IF l[1].reward # NoReward THEN l[i].reward ELSE l[i].share] = f
  BY <1>1
<1>7. l # <<>> /\ Len(l) = n
  BY <1>1
<1>8. CASE T = 0
  <2>1. m = l
    BY <1>8 DEF CalcRewards
  <2>2. \A i \in 1 .. n : Paid(m[i]) = 0
    BY <1>1, <2>1 DEF Paid, NoReward
  <2>3. RewardsSended(m) = 0
    <3>1. [i \in DOMAIN m |-> Paid(m[i])] \in [1 .. n -> Int]
          /\ \A i \in 1 .. n : [j \in DOMAIN m |-> Paid(m[j])][i] = 0
      BY <1>1, <2>1, <2>2
    <3> DEFINE q == [i \in DOMAIN m |-> Paid(m[i])]
    <3> HIDE DEF q
    <3>2. SumFunction(q) = n * 0
      BY <3>1, SumConst DEF q
    <3> QED
      BY <3>2 DEF RewardsSended, q
  <2>4. \A i \in 1 .. n : T * l[i].share = 0
    BY <1>1, <1>8, Z3
  <2> HIDE DEF m, S
  <2>5. S * (0 + 1) = S /\ S * 0 = 0
    BY <1>2, Z3
  <2>6. ASSUME NEW i \in 1 .. n
        PROVE  T * l[i].share < S * (Paid(m[i]) + 1) /\ S * Paid(m[i]) <= T * l[i].share + S
    BY <1>2, <2>2, <2>4, <2>5
  <2> QED
    BY <1>1, <1>8, <2>1, <2>3, <2>6 DEF FairList, S, m
<1>9. CASE T > 0
  <2>1. m = [i \in 1 .. n |-> [l[i] EXCEPT !.reward = r[i]]]
    <3> HIDE DEF f, r
    <3> DEFINE basis == [i \in DOMAIN l |-> IF l[1].reward /= NoReward
                                              THEN l[i].reward ELSE l[i].share]
    <3>1. SplitRewards(T, basis) = r
      BY <1>6 DEF r
    <3>2. ~(l = <<>> \/ T <= 0 \/ Len(SplitRewards(T, basis)) /= Len(l))
      BY <1>5, <1>7, <1>9, <3>1
    <3>3. CalcRewards(l, T)
            = [i \in DOMAIN l |-> [l[i] EXCEPT !.reward = SplitRewards(T, basis)[i]]]
      BY <3>2, Zenon DEF CalcRewards
    <3> HIDE DEF basis
    <3> QED
      BY <1>1, <3>1, <3>3
  <2> HIDE DEF m, r, f, S
  <2>2. /\ m \in [1 .. n -> Stat]
        /\ \A i \in 1 .. n : /\ m[i].account = l[i].account /\ m[i].share = l[i].share
                             /\ m[i].reward = r[i]
    BY <1>1, <1>5, <2>1 DEF Stat
  <2>3. \A i \in 1 .. n : Paid(m[i]) = r[i]
    BY <1>5, <2>2 DEF Paid
  <2>4. RewardsSended(m) = T
    <3>1. [i \in DOMAIN m |-> Paid(m[i])] = r
      BY <1>5, <2>2, <2>3
    <3> QED
      BY <1>5, <3>1 DEF RewardsSended
  <2> QED
    BY <1>3, <1>5, <2>2, <2>3, <2>4, SMTT(30) DEF FairList, m, S
<1> QED
  BY <1>8, <1>9

----------------------------------------------------------------------------
\* The parts of the exchanges

WeightedShares(lists, weights) == [e \in Ex |-> SumWeightShares(lists[e], weights[e])]

\* The weighted share of a list is positive if it has any account.
LEMMA WeightedShare ==
  ASSUME NEW l \in Seq(Fresh), NEW w \in Nat \ {0}
  PROVE  /\ CalcTotalShare(l) \in Nat
         /\ SumWeightShares(l, w) = w * CalcTotalShare(l)
         /\ SumWeightShares(l, w) \in Nat
         /\ l = <<>> => SumWeightShares(l, w) = 0
         /\ l # <<>> => SumWeightShares(l, w) > 0 /\ CalcTotalShare(l) > 0
<1> DEFINE n == Len(l)
           f == [i \in 1 .. n |-> l[i].share]
           h == [i \in 1 .. n |-> l[i].share * w]
           S == CalcTotalShare(l)
<1>1. n \in Nat /\ l \in [1 .. n -> Fresh] /\ l \in [1 .. n -> Stat] /\ DOMAIN l = 1 .. n
  BY DEF Fresh
<1> HIDE DEF n
<1>2. f \in [1 .. n -> Int] /\ S = SumFunction(f) /\ SumWeightShares(l, w) = SumFunction(h)
  BY <1>1 DEF Stat, CalcTotalShare, SumWeightShares
<1>3. S \in Nat /\ \A i \in 1 .. n : l[i].share <= S
  BY <1>1, ShareInTotal DEF S
<1>4. \A i \in 1 .. n : /\ l[i].share \in Nat \ {0} /\ l[i].share * w \in Int
                         /\ l[i].share * w = w * l[i].share
  <2> SUFFICES ASSUME NEW i \in 1 .. n
               PROVE  /\ l[i].share \in Nat \ {0}
                      /\ l[i].share * w \in Int /\ l[i].share * w = w * l[i].share
    OBVIOUS
  <2>1. l[i].share \in Nat \ {0}
    BY <1>1 DEF Stat
  <2>2. \A a, b \in Nat : a * b \in Int /\ a * b = b * a
    BY Z3
  <2> QED
    BY <2>1, <2>2
<1>5. h \in [1 .. n -> Int] /\ \A i \in 1 .. n : h[i] = w * f[i]
  BY <1>4
<1>6. SumFunction(h) = w * S
  <2> HIDE DEF f, h, S
  <2>1. \A c \in Nat : \A g, k \in [1 .. n -> Int] :
          (\A i \in 1 .. n : k[i] = c * g[i]) => SumFunction(k) = c * SumFunction(g)
    <3>1. \A c \in Nat : c \in Int
      OBVIOUS
    <3> QED
      BY <1>1, <3>1, SumScale, Zenon
  <2>2. SumFunction(h) = w * SumFunction(f)
    BY <1>2, <1>5, <2>1
  <2> QED
    BY <1>2, <2>2
<1>7. w * S \in Nat
  BY <1>3, MulNat
<1>8. CASE l = <<>>
  <2>1. DOMAIN f = {}
    BY <1>1, <1>8
  <2>2. S = 0
    BY <1>2, <2>1, SumEmpty
  <2>3. w * 0 = 0
    BY Z3
  <2> HIDE DEF S, f, h
  <2> QED
    BY <1>2, <1>3, <1>6, <1>7, <1>8, <2>2, <2>3 DEF S
<1>9. CASE l # <<>>
  <2>1. 1 \in 1 .. n
    BY <1>1, <1>9 DEF n
  <2>2. S > 0
    <3> HIDE DEF S
    <3> QED
      BY <1>3, <1>4, <2>1
  <2>3. w * S > 0
    <3> HIDE DEF S
    <3> QED
      BY <1>3, <2>2, Z3
  <2> HIDE DEF S, f, h
  <2> QED
    BY <1>2, <1>3, <1>6, <1>7, <1>9, <2>2, <2>3 DEF S
<1> QED
  BY <1>8, <1>9

\* CalcWeightedRewards leaves lists without accounts as they are; otherwise the total
\* is divided fairly among the lists by weighted share, and each part in its list.
LEMMA WeightedFacts ==
  ASSUME NEW weights \in [Ex -> Nat \ {0}], NEW lists \in [Ex -> Seq(Fresh)], NEW T \in Nat,
         NEW W, W = SumFunction(WeightedShares(lists, weights))
  PROVE  /\ WeightedShares(lists, weights) \in [Ex -> Nat] /\ W \in Nat
         /\ \/ /\ \A e \in Ex : lists[e] = <<>>
               /\ CalcWeightedRewards(lists, T, weights) = lists
            \/ /\ W > 0
               /\ \E parts :
                    /\ FairRewards(parts, T, W, Exchanges, WeightedShares(lists, weights))
                    /\ CalcWeightedRewards(lists, T, weights) =
                         [e \in Ex |-> CalcRewards(lists[e], parts[e])]
<1> DEFINE n == Exchanges
           ws == WeightedShares(lists, weights)
           r == SplitRewards(T, ws)
<1>1. n \in Nat /\ n > 0 /\ Ex = 1 .. n
  BY SettlementAssumption DEF Ex
<1>2. /\ Len(lists) = n /\ DOMAIN lists = Ex
      /\ Len(weights) = n
  BY <1>1
<1>3. /\ ws \in [Ex -> Nat]
      /\ \A e \in Ex : /\ ws[e] = SumWeightShares(lists[e], weights[e])
                       /\ lists[e] = <<>> => ws[e] = 0
                       /\ lists[e] # <<>> => ws[e] > 0
  BY WeightedShare DEF WeightedShares
<1> HIDE DEF ws, n
<1>4. W \in Nat /\ \A e \in Ex : ws[e] <= W
  BY <1>1, <1>3, SumMember, SumNat DEF ws
<1>5. [i \in DOMAIN lists |-> SumWeightShares(lists[i], weights[i])] = ws
  BY <1>2 DEF ws, WeightedShares
<1>6. CASE \A e \in Ex : lists[e] = <<>>
  <2>1. W = 0
    <3>1. W = n * 0
      <4>1. ws \in [1 .. n -> Int] /\ \A e \in 1 .. n : ws[e] = 0
        BY <1>1, <1>3, <1>6, SMTT(30)
      <4> QED
        BY <1>1, <4>1, SumConst DEF ws
    <3> QED
      BY <1>1, <3>1
  <2>2. r = <<>>
    BY <2>1 DEF SplitRewards, ws
  <2>3. CASE n = 1
    <3>1. CalcWeightedRewards(lists, T, weights) = <<CalcRewards(lists[1], T)>>
      BY <1>2, <2>3 DEF CalcWeightedRewards
    <3>2. lists[1] = <<>>
      BY <1>1, <1>6, <2>3
    <3>3. CalcRewards(lists[1], T) = <<>>
      BY <3>2 DEF CalcRewards
    <3>4. <<lists[1]>> = lists
      BY <1>1, <1>2, <2>3
    <3> QED
      BY <1>3, <1>4, <1>6, <3>1, <3>2, <3>3, <3>4 DEF ws
  <2>4. CASE n # 1
    <3>1. CalcWeightedRewards(lists, T, weights) = CalcRewardsInBatch(lists, r)
      BY <1>1, <1>2, <1>5, <2>4, SMTT(30) DEF CalcWeightedRewards
    <3>2. CalcRewardsInBatch(lists, r) = lists
      BY <1>1, <1>2, <2>2 DEF CalcRewardsInBatch
    <3> QED
      BY <1>3, <1>4, <1>6, <3>1, <3>2 DEF ws
  <2> QED
    BY <2>3, <2>4
<1>7. CASE ~ \A e \in Ex : lists[e] = <<>>
  <2>1. W > 0
    <3>1. PICK e \in Ex : lists[e] # <<>>
      BY <1>7
    <3>2. ws[e] > 0 /\ ws[e] <= W /\ ws[e] \in Nat
      BY <1>3, <1>4, <3>1
    <3> QED
      BY <1>4, <3>2
  <2>2. FairRewards(r, T, W, n, ws)
    BY <1>1, <1>3, <1>4, <2>1, SplitFacts DEF ws
  <2>3. r \in [1 .. n -> Nat] /\ SumFunction(r) = T
    BY <2>2 DEF FairRewards
  <2>4. CASE n = 1
    <3>1. CalcWeightedRewards(lists, T, weights) = <<CalcRewards(lists[1], T)>>
      BY <1>2, <2>4 DEF CalcWeightedRewards
    <3>2. r[1] = T
      <4>1. r \in [1 .. 1 -> Int] /\ r[1] \in Int /\ \A k \in 1 .. 1 : r[k] = r[1]
        BY <2>3, <2>4
      <4>2. SumFunction(r) = 1 * r[1]
        BY <4>1, SumConst
      <4> QED
        BY <2>3, <4>1, <4>2
    <3>3. <<CalcRewards(lists[1], T)>> = [e \in Ex |-> CalcRewards(lists[e], r[e])]
      BY <1>1, <2>4, <3>2
    <3> QED
      BY <1>3, <1>4, <2>1, <2>2, <3>1, <3>3 DEF ws, n
  <2>5. CASE n # 1
    <3>1. CalcWeightedRewards(lists, T, weights) = CalcRewardsInBatch(lists, r)
      BY <1>1, <1>2, <1>5, <2>5, SMTT(30) DEF CalcWeightedRewards
    <3>2. CalcRewardsInBatch(lists, r) = [e \in Ex |-> CalcRewards(lists[e], r[e])]
      BY <1>1, <1>2, <2>3 DEF CalcRewardsInBatch
    <3> QED
      BY <1>3, <1>4, <2>1, <2>2, <3>1, <3>2 DEF ws, n
  <2> QED
    BY <2>4, <2>5
<1> QED
  BY <1>6, <1>7

----------------------------------------------------------------------------
\* The result of CalcWeightedRewards

\* What the two divisions may lose: the total T is divided among lists with the
\* weighted shares w * S out of W, the part P of a list among shares s out of S.
LEMMA TwoDivisions ==
  ASSUME NEW T \in Nat, NEW w \in Nat, NEW S \in Nat, NEW s \in Nat, NEW W \in Nat,
         NEW P \in Nat, NEW p \in Nat, S > 0, W > 0, s > 0, s <= S,
         T * (w * S) < W * (P + 1), W * P <= T * (w * S) + W,
         P * s < S * (p + 1), S * p <= P * s + S
  PROVE  W * p <= T * (w * s) + 2 * W /\ T * (w * s) < W * (p + 2)
<1> DEFINE A == T * (w * s)
           B == T * (w * S)
           Q == P * s
<1>1. A \in Nat /\ B \in Nat /\ Q \in Nat
  BY MulNat
<1>2. S * A = s * B /\ s * (W * P) = W * Q
  BY Z3
<1>3. s * W <= S * W
  BY Z3
<1> HIDE DEF A, B, Q
<1>4. S * (W * p) < S * (A + 2 * W + 1)
  <2>1. W * (S * p) <= W * (Q + S)
    BY <1>1, MulMono, MulNat DEF Q
  <2>2. s * (W * P) <= s * (B + W)
    BY <1>1, MulMono, MulNat DEF B
  <2>3. W * (S * p) <= W * Q + W * S /\ W * Q <= s * B + s * W
    BY <1>1, <1>2, <2>1, <2>2, Z3
  <2>4. W * (S * p) = S * (W * p) /\ W * S = S * W
    BY Z3
  <2>5. S * (W * p) <= S * A + S * W + S * W
    BY <1>1, <1>2, <1>3, <2>3, <2>4, Z3
  <2>6. S * (A + 2 * W + 1) = S * A + S * W + S * W + S
    BY <1>1, Z3
  <2> QED
    BY <1>1, <2>5, <2>6, Z3
<1>5. S * A < S * (W * (p + 2))
  <2>1. s * B < s * (W * (P + 1))
    BY <1>1, Z3 DEF B
  <2>2. s * (W * (P + 1)) = W * Q + s * W
    BY <1>1, <1>2, Z3
  <2>3. W * Q < W * (S * (p + 1))
    BY <1>1, Z3 DEF Q
  <2>4. S * (W * (p + 2)) = W * (S * (p + 1)) + S * W
    BY Z3
  <2> QED
    BY <1>1, <1>2, <1>3, <2>1, <2>2, <2>3, <2>4, Z3
<1>6. W * p < A + 2 * W + 1
  <2>1. W * p \in Int /\ A + 2 * W + 1 \in Int
    BY <1>1
  <2> QED
    BY <1>4, <2>1, MulCancel
<1>7. A < W * (p + 2)
  <2>1. A \in Int /\ W * (p + 2) \in Int
    BY <1>1
  <2> QED
    BY <1>5, <2>1, MulCancel
<1> QED
  BY <1>1, <1>6, <1>7, MulNat DEF A

\* Two rewards that are each within two units of the same proportion
LEMMA WithinThree ==
  ASSUME NEW A \in Nat, NEW W \in Nat, W > 0, NEW p \in Nat, NEW q \in Nat,
         W * p <= A + 2 * W, A < W * (q + 2)
  PROVE  p - q <= 3
<1>1. W * (q + 2) + 2 * W = W * (q + 4)
  BY Z3
<1>2. W * p < W * (q + 4)
  BY <1>1, Z3
<1>3. p < q + 4
  BY <1>2, MulCancel
<1> QED
  BY <1>3

\* The exchanges without accounts, what the accounts of each exchange are paid, and the
\* two promises: together they are paid the total, except a unit for an exchange without
\* accounts; and with equal weights and shares they are paid the same, up to 3 units.
Empty(st) == {e \in Ex : st[e] = <<>>}
SendedSums(st) == [e \in Ex |-> RewardsSended(st[e])]

AllIsPaid(st, T) ==
  IF Empty(st) = Ex THEN SumFunction(SendedSums(st)) = 0
  ELSE /\ SumFunction(SendedSums(st)) <= T
       /\ SumFunction(SendedSums(st)) >= T - Cardinality(Empty(st))

EqualPay(st, weights) ==
  \A d, e \in Ex : \A i \in DOMAIN st[d], j \in DOMAIN st[e] :
    weights[d] = weights[e] /\ st[d][i].share = st[e][j].share
      => Paid(st[d][i]) - Paid(st[e][j]) <= 3

SameAccounts(m, lists) ==
  \A e \in Ex :
    /\ DOMAIN m[e] = DOMAIN lists[e]
    /\ \A i \in DOMAIN m[e] : /\ m[e][i].account = lists[e][i].account
                              /\ m[e][i].share = lists[e][i].share

\* What is paid is never negative.
LEMMA PaidNat ==
  ASSUME NEW s \in Stat
  PROVE  Paid(s) \in Nat
BY DEF Paid, Stat, NoReward

\* An empty list is paid nothing.
LEMMA EmptyIsNotPaid == RewardsSended(<<>>) = 0
<1> DEFINE p == [i \in DOMAIN <<>> |-> Paid(<<>>[i])]
<1>1. DOMAIN p = {}
  OBVIOUS
<1> HIDE DEF p
<1>2. SumFunction(p) = 0
  BY <1>1, SumEmpty
<1> QED
  BY <1>2 DEF RewardsSended, p

\* If each list is paid its part, all are paid the total.
LEMMA PartsArePaid ==
  ASSUME NEW st, NEW T \in Nat, NEW parts \in [Ex -> Nat], SumFunction(parts) = T,
         \A e \in Ex : IF st[e] = <<>> THEN parts[e] <= 1 ELSE RewardsSended(st[e]) = parts[e],
         Empty(st) # Ex
  PROVE  AllIsPaid(st, T)
<1> DEFINE n == Exchanges
           paid == SendedSums(st)
           E == Empty(st)
           gone == [e \in 1 .. n |-> IF e \in E THEN 1 ELSE 0]
           most == [e \in 1 .. n |-> paid[e] + gone[e]]
<1>1. n \in Nat /\ Ex = 1 .. n
  BY SettlementAssumption DEF Ex
<1>2. \A e \in Ex : paid[e] = IF e \in E THEN 0 ELSE parts[e]
  BY EmptyIsNotPaid DEF SendedSums, Empty
<1>3. paid \in [1 .. n -> Int] /\ parts \in [1 .. n -> Int]
  <2>1. paid = [e \in Ex |-> RewardsSended(st[e])]
    BY DEF SendedSums
  <2> HIDE DEF paid
  <2> QED
    BY <1>1, <1>2, <2>1
<1>4. E \in SUBSET (1 .. n)
  BY <1>1 DEF Empty
<1> HIDE DEF paid, n
<1>5. /\ gone \in [1 .. n -> Int] /\ \A k \in 1 .. n : gone[k] = IF k \in E THEN 1 ELSE 0
      /\ most \in [1 .. n -> Int] /\ \A k \in 1 .. n : most[k] = paid[k] + gone[k]
  BY <1>3
<1> HIDE DEF E, gone, most
<1>6. SumFunction(gone) = Cardinality(E) /\ Cardinality(E) \in Nat
  BY <1>1, <1>4, <1>5, SumIndicator
<1>7. SumFunction(most) = SumFunction(paid) + SumFunction(gone)
  <2>1. \A f, g, h \in [1 .. n -> Int] :
          (\A k \in 1 .. n : h[k] = f[k] + g[k]) => SumFunction(h) = SumFunction(f) + SumFunction(g)
    BY <1>1, SumPlus, Zenon
  <2> QED
    BY <1>3, <1>5, <2>1
<1>8. \A k \in 1 .. n : paid[k] <= parts[k] /\ parts[k] <= most[k]
  <2> SUFFICES ASSUME NEW k \in 1 .. n PROVE paid[k] <= parts[k] /\ parts[k] <= most[k]
    OBVIOUS
  <2>1. k \in Ex /\ parts[k] \in Nat /\ paid[k] \in Int
    BY <1>1, <1>3
  <2>2. CASE k \in E
    <3>1. parts[k] <= 1
      BY <2>1, <2>2 DEF E, Empty
    <3> QED
      BY <1>2, <1>5, <2>1, <2>2, <3>1
  <2>3. CASE k \notin E
    BY <1>2, <1>5, <2>1, <2>3
  <2> QED
    BY <2>2, <2>3
<1>9. SumFunction(paid) <= T /\ T <= SumFunction(most)
  BY <1>1, <1>3, <1>5, <1>8, SumMono
<1>10. SumFunction(paid) \in Int
  <2>1. IsFiniteSet(1 .. n)
    BY <1>1, FS_Interval
  <2> QED
    BY <1>3, <2>1, SumInt
<1> QED
  BY <1>6, <1>7, <1>9, <1>10 DEF AllIsPaid, paid, E

\* CalcWeightedRewards keeps the accounts and their shares and both promises.
LEMMA WeightedResult ==
  ASSUME NEW weights \in [Ex -> Nat \ {0}], NEW lists \in [Ex -> Seq(Fresh)], NEW T \in Nat,
         NEW m, m = CalcWeightedRewards(lists, T, weights)
  PROVE  /\ m \in [Ex -> Seq(Stat)]
         /\ SameAccounts(m, lists)
         /\ AllIsPaid(m, T)
         /\ EqualPay(m, weights)
<1> DEFINE n == Exchanges
           ws == WeightedShares(lists, weights)
           W == SumFunction(ws)
<1>1. n \in Nat /\ Ex = 1 .. n
  BY SettlementAssumption DEF Ex
<1>2. /\ ws \in [Ex -> Nat] /\ W \in Nat
      /\ \/ (\A e \in Ex : lists[e] = <<>>) /\ m = lists
         \/ /\ W > 0
            /\ \E parts : /\ FairRewards(parts, T, W, n, ws)
                          /\ m = [e \in Ex |-> CalcRewards(lists[e], parts[e])]
  <2>1. \A V : V = SumFunction(WeightedShares(lists, weights)) =>
          /\ WeightedShares(lists, weights) \in [Ex -> Nat] /\ V \in Nat
          /\ \/ /\ \A e \in Ex : lists[e] = <<>>
                /\ CalcWeightedRewards(lists, T, weights) = lists
             \/ /\ V > 0
                /\ \E parts :
                     /\ FairRewards(parts, T, V, Exchanges, WeightedShares(lists, weights))
                     /\ CalcWeightedRewards(lists, T, weights) =
                          [e \in Ex |-> CalcRewards(lists[e], parts[e])]
    BY WeightedFacts
  <2> QED
    BY <2>1
<1>3. \A e \in Ex : /\ weights[e] \in Nat
                    /\ CalcTotalShare(lists[e]) \in Nat
                    /\ ws[e] = weights[e] * CalcTotalShare(lists[e])
                    /\ lists[e] = <<>> => ws[e] = 0
                    /\ lists[e] # <<>> => CalcTotalShare(lists[e]) > 0
  BY WeightedShare DEF WeightedShares
<1> HIDE DEF ws, W, n
<1>4. CASE (\A e \in Ex : lists[e] = <<>>) /\ m = lists
  <2>1. Seq(Fresh) \subseteq Seq(Stat)
    BY DEF Fresh
  <2>2. m \in [Ex -> Seq(Stat)] /\ SameAccounts(m, lists)
    BY <1>4, <2>1 DEF SameAccounts
  <2>3. Empty(m) = Ex
    BY <1>4 DEF Empty
  <2>4. SendedSums(m) \in [1 .. n -> Int] /\ \A e \in 1 .. n : SendedSums(m)[e] = 0
    BY <1>1, <1>4, EmptyIsNotPaid DEF SendedSums
  <2>5. SumFunction(SendedSums(m)) = 0
    <3> DEFINE p == SendedSums(m)
    <3>1. p \in [1 .. n -> Int] /\ \A e \in 1 .. n : p[e] = 0
      BY <2>4
    <3> HIDE DEF p
    <3>2. SumFunction(p) = 0
      BY <1>1, <3>1, SumZero
    <3> QED
      BY <3>2 DEF p
  <2>6. EqualPay(m, weights)
    BY <1>4 DEF EqualPay
  <2> QED
    BY <2>2, <2>3, <2>5, <2>6 DEF AllIsPaid
<1>5. ASSUME W > 0, NEW parts, FairRewards(parts, T, W, n, ws),
             m = [e \in Ex |-> CalcRewards(lists[e], parts[e])]
      PROVE  m \in [Ex -> Seq(Stat)] /\ SameAccounts(m, lists)
             /\ AllIsPaid(m, T) /\ EqualPay(m, weights)
  <2>1. /\ parts \in [Ex -> Nat] /\ SumFunction(parts) = T
        /\ \A e \in Ex : /\ T * ws[e] < W * (parts[e] + 1)
                         /\ W * parts[e] <= T * ws[e] + W
                         /\ ws[e] = 0 => parts[e] <= 1
    BY <1>1, <1>5 DEF FairRewards
  <2>2. \A e \in Ex : lists[e] = <<>> => m[e] = <<>>
    BY <1>5 DEF CalcRewards
  <2>3. ASSUME NEW e \in Ex, lists[e] # <<>>
        PROVE  /\ Len(lists[e]) \in Nat /\ lists[e] \in [1 .. Len(lists[e]) -> Fresh]
               /\ FairList(m[e], lists[e], Len(lists[e]), parts[e])
    <3>1. lists[e] \in Seq(Fresh)
      OBVIOUS
    <3>2. Len(lists[e]) \in Nat /\ Len(lists[e]) > 0 /\ lists[e] \in [1 .. Len(lists[e]) -> Fresh]
      BY <2>3, <3>1
    <3>3. m[e] = CalcRewards(lists[e], parts[e]) /\ parts[e] \in Nat
      BY <1>5, <2>1
    <3> QED
      BY <3>2, <3>3, CalcRewardsFacts
  <2>4. ASSUME NEW e \in Ex, lists[e] # <<>>
        PROVE  /\ DOMAIN m[e] = DOMAIN lists[e]
               /\ m[e] \in Seq(Stat) /\ m[e] # <<>>
               /\ RewardsSended(m[e]) = parts[e]
               /\ \A i \in DOMAIN m[e] :
                    /\ m[e][i].account = lists[e][i].account
                    /\ m[e][i].share = lists[e][i].share
    <3>1. Len(lists[e]) \in Nat /\ lists[e] \in [1 .. Len(lists[e]) -> Fresh]
      BY <2>3, <2>4
    <3>2. FairList(m[e], lists[e], Len(lists[e]), parts[e])
      BY <2>3, <2>4
    <3>3. /\ m[e] \in [1 .. Len(lists[e]) -> Stat]
          /\ \A i \in 1 .. Len(lists[e]) :
               m[e][i].account = lists[e][i].account /\ m[e][i].share = lists[e][i].share
          /\ RewardsSended(m[e]) = parts[e]
      BY <3>2 DEF FairList
    <3>4. DOMAIN m[e] = 1 .. Len(lists[e]) /\ DOMAIN lists[e] = 1 .. Len(lists[e])
      BY <3>1, <3>3
    <3>5. m[e] \in Seq(Stat) /\ m[e] # <<>>
      <4>1. lists[e] \in Seq(Fresh)
        OBVIOUS
      <4>2. 1 \in DOMAIN m[e]
        BY <2>4, <3>4, <4>1
      <4>3. m[e] # <<>>
        BY <4>2
      <4>4. \A k \in Nat : \A g \in [1 .. k -> Stat] : g \in Seq(Stat)
        OBVIOUS
      <4> QED
        BY <3>1, <3>3, <4>3, <4>4
    <3> QED
      BY <3>3, <3>4, <3>5
  <2>5. m \in [Ex -> Seq(Stat)] /\ SameAccounts(m, lists)
    <3>1. \A e \in Ex : m[e] \in Seq(Stat)
      BY <2>2, <2>4
    <3>2. DOMAIN m = Ex /\ m = [e \in Ex |-> m[e]]
      BY <1>5
    <3>3. m \in [Ex -> Seq(Stat)]
      BY <3>1, <3>2
    <3>4. SameAccounts(m, lists)
      BY <2>2, <2>4 DEF SameAccounts
    <3> QED
      BY <3>3, <3>4
  <2>6. AllIsPaid(m, T)
    <3>1. \A e \in Ex : m[e] = <<>> <=> lists[e] = <<>>
      BY <2>2, <2>4
    <3>2. \A e \in Ex : IF m[e] = <<>> THEN parts[e] <= 1 ELSE RewardsSended(m[e]) = parts[e]
      BY <1>3, <2>1, <2>4, <3>1
    <3>3. Empty(m) # Ex
      <4> SUFFICES ASSUME Empty(m) = Ex PROVE FALSE
        OBVIOUS
      <4>1. \A e \in Ex : ws[e] = 0
        BY <1>3, <3>1 DEF Empty
      <4>2. ws \in [1 .. n -> Int] /\ \A e \in 1 .. n : ws[e] = 0
        BY <1>1, <1>2, <4>1
      <4>3. W = 0
        BY <1>1, <4>2, SumZero DEF W
      <4> QED
        BY <1>5, <4>3
    <3> QED
      BY <2>1, <3>2, <3>3, PartsArePaid
  <2>7. ASSUME NEW e \in Ex, NEW i \in DOMAIN m[e]
        PROVE  /\ Paid(m[e][i]) \in Nat /\ m[e][i].share \in Nat
               /\ W * Paid(m[e][i]) <= T * (weights[e] * m[e][i].share) + 2 * W
               /\ T * (weights[e] * m[e][i].share) < W * (Paid(m[e][i]) + 2)
    <3> DEFINE l == lists[e]
               S == CalcTotalShare(l)
               s == m[e][i].share
               p == Paid(m[e][i])
    <3>1. l # <<>>
      BY <2>2, <2>7
    <3>2. DOMAIN m[e] = DOMAIN l /\ m[e] \in Seq(Stat) /\ s = l[i].share
      BY <2>4, <2>7, <3>1
    <3>3. Len(l) \in Nat /\ l \in [1 .. Len(l) -> Fresh] /\ FairList(m[e], l, Len(l), parts[e])
      BY <2>3, <3>1
    <3>4. i \in 1 .. Len(l) /\ m[e][i] \in Stat
      BY <2>7, <3>2, <3>3
    <3>5. s \in Nat /\ s > 0 /\ p \in Nat
      BY <3>4, PaidNat DEF Stat
    <3>6. parts[e] * s < S * (p + 1) /\ S * p <= parts[e] * s + S
      BY <3>2, <3>3, <3>4 DEF FairList
    <3>7. S \in Nat /\ S > 0 /\ s <= S
      <4>1. l \in [1 .. Len(l) -> Stat]
        BY <3>3 DEF Fresh
      <4>2. \A k \in 1 .. Len(l) : l[k].share <= CalcTotalShare(l)
        BY <3>3, <4>1, ShareInTotal
      <4> QED
        BY <1>3, <3>1, <3>2, <3>4, <4>2
    <3>8. /\ weights[e] \in Nat /\ parts[e] \in Nat /\ ws[e] = weights[e] * S
          /\ T * ws[e] < W * (parts[e] + 1) /\ W * parts[e] <= T * ws[e] + W
      BY <1>3, <2>1
    <3> HIDE DEF s, p, S, l
    <3>9. T * (weights[e] * S) < W * (parts[e] + 1) /\ W * parts[e] <= T * (weights[e] * S) + W
      BY <3>8
    <3>10. W * p <= T * (weights[e] * s) + 2 * W /\ T * (weights[e] * s) < W * (p + 2)
      BY <1>2, <1>5, <3>5, <3>6, <3>7, <3>8, <3>9, TwoDivisions
    <3> QED
      BY <3>5, <3>10 DEF s, p
  <2>8. ASSUME NEW d \in Ex, NEW e \in Ex, NEW i \in DOMAIN m[d], NEW j \in DOMAIN m[e],
               weights[d] = weights[e], m[d][i].share = m[e][j].share
        PROVE  Paid(m[d][i]) - Paid(m[e][j]) <= 3
    <3> DEFINE A == T * (weights[e] * m[e][j].share)
    <3>1. /\ Paid(m[d][i]) \in Nat /\ Paid(m[e][j]) \in Nat
          /\ W * Paid(m[d][i]) <= A + 2 * W
          /\ A < W * (Paid(m[e][j]) + 2)
      BY <2>7, <2>8
    <3>2. A \in Nat
      <4>1. weights[e] \in Nat /\ m[e][j].share \in Nat
        BY <1>3, <2>7
      <4>2. weights[e] * m[e][j].share \in Nat
        BY <4>1, MulNat
      <4> QED
        BY <4>2, MulNat
    <3> HIDE DEF A
    <3> QED
      BY <1>2, <1>5, <3>1, <3>2, WithinThree
  <2>9. EqualPay(m, weights)
    BY <2>8 DEF EqualPay
  <2> QED
    BY <2>5, <2>6, <2>9
<1> QED
  BY <1>2, <1>4, <1>5

----------------------------------------------------------------------------
\* The invariant

\* Every variable has its type, exchanges are handled one after the other, and nobody
\* has a reward before the rewards are computed.
LiquidTypes ==
  /\ setup \in LiquidSetups
  /\ sampled \in [Ex -> [Accounts -> Nat]] /\ latest \in [Ex -> [Accounts -> Nat]]
  /\ coin \in [Ex -> Nat]
  /\ balances \in SUBSET [exchange : Ex, account : Accounts, height : Nat, liquidity : Nat]
  /\ pc \in {"start", "failed", "files", "supply", "balance", "calc", "send", "done"}
  /\ cur \in 1 .. Exchanges + 1
  /\ pc \in {"balance", "send"} => cur \in Ex
  /\ pc = "done" => cur = Exchanges + 1
  /\ value \in [Ex -> [Accounts -> Nat \cup {NotRead}]]
  /\ supply \in [Ex -> Nat] /\ height \in Nat /\ moves \in Nat
  /\ stats \in [Ex -> Seq(Stat)]
  /\ pc \notin {"send", "done"} => stats \in [Ex -> Seq(Fresh)]
  /\ \A e \in Ex : \A i \in DOMAIN stats[e] : stats[e][i].account \notin Excluded
  /\ sent \in [Ex -> Nat]

\* The coins of an account with the given liquidity, of a supply and a coin balance
Coins(liquidity, supply0, coins) ==
  IF supply0 > 0 THEN (liquidity * coins) \div supply0 ELSE liquidity * coins

\* In archive mode the job, the database and the shares know only the sample height.
SampleInv ==
  ArchiveMode /\ setup.files = <<>> =>
    /\ \A b \in balances : b.liquidity = sampled[b.exchange][b.account]
    /\ \A e \in Ex : \A a \in Accounts : value[e][a] \in {NotRead, sampled[e][a]}
    /\ pc = "balance" => supply[cur] = SumFunction(sampled[cur])
    /\ \A e \in Ex : \A i \in DOMAIN stats[e] :
         stats[e][i].share =
           Coins(sampled[e][stats[e][i].account], SumFunction(sampled[e]), coin[e])

\* Once they are computed, the rewards are the total, and they treat all alike.
ResultInv ==
  pc \in {"send", "done"} => AllIsPaid(stats, TotalValue) /\ EqualPay(stats, Weights)

\* Each exchange is sent its rewards, and once.
SentInv ==
  \A e \in Ex : sent[e] = IF pc \in {"send", "done"} /\ e < cur THEN RewardsSended(stats[e]) ELSE 0

LiquidIInv == LiquidTypes /\ SampleInv /\ ResultInv /\ SentInv

\* What a settlement is configured with
LEMMA SetupFacts ==
  ASSUME LiquidTypes
  PROVE  /\ ArchiveMode \in BOOLEAN /\ Weights \in [Ex -> Nat \ {0}]
         /\ Listed \subseteq Accounts /\ Excluded \subseteq Accounts
         /\ setup.files \in Seq(Seq(Accounts \X Int))
BY LiquidRewardsAssumption
   DEF LiquidTypes, IsLiquidSetup, ArchiveMode, Weights, Listed, Excluded, Ex

\* Exchanges are numbers, accounts are finitely many numbers.
LEMMA ConstantFacts ==
  /\ Exchanges \in Nat /\ Exchanges > 0 /\ Ex = 1 .. Exchanges /\ IsFiniteSet(Ex)
  /\ Accounts \subseteq Nat /\ IsFiniteSet(Accounts) /\ Balances \subseteq Nat
  /\ TotalValue \in Nat
<1>1. Exchanges \in Nat /\ Ex = 1 .. Exchanges
  BY SettlementAssumption DEF Ex
<1>2. IsFiniteSet(Ex)
  BY <1>1, FS_Interval
<1> QED
  BY <1>1, <1>2, LiquidRewardsAssumption, SettlementAssumption

\* The supply of an exchange is a number.
LEMMA SupplyNat ==
  ASSUME NEW f \in [Accounts -> Nat]
  PROVE  SumFunction(f) \in Nat
<1>1. Accounts \in SUBSET Accounts /\ IsFiniteSet(Accounts)
  BY ConstantFacts
<1> QED
  BY <1>1, SumOfPart

\* What EndExchange makes of the accounts it has read
Statistics ==
  {[account |-> a, share |-> CoinBalance(cur, a), reward |-> NoReward] : a \in Listed \ Excluded}

\* They are a list of accounts with their coins.
LEMMA ListOfExchange ==
  ASSUME LiquidTypes, pc = "balance", \A a \in Listed : value[cur][a] # NotRead
  PROVE  LET l == ConvertToSortedSlice(Statistics)
         IN  /\ l \in Seq(Fresh)
             /\ \A i \in DOMAIN l :
                  /\ l[i].account \in Listed \ Excluded
                  /\ l[i].share = CoinBalance(cur, l[i].account)
<1> DEFINE A == Listed \ Excluded
           f == [a \in A |-> [account |-> a, share |-> CoinBalance(cur, a), reward |-> NoReward]]
<1>1. A \subseteq Accounts /\ IsFiniteSet(A) /\ cur \in Ex
  <2>1. A \subseteq Accounts /\ cur \in Ex
    BY SetupFacts DEF LiquidTypes
  <2> QED
    BY <2>1, ConstantFacts, FS_Subset
<1>2. ASSUME NEW a \in A PROVE CoinBalance(cur, a) \in Nat
  <2>1. value[cur][a] \in Nat /\ coin[cur] \in Nat /\ supply[cur] \in Nat
    BY <1>1 DEF LiquidTypes
  <2>2. value[cur][a] * coin[cur] \in Nat
    BY <2>1, MulNat
  <2> DEFINE v == value[cur][a] * coin[cur]
  <2> HIDE DEF v
  <2>3. supply[cur] > 0 => v \div supply[cur] \in Nat
    BY <2>1, <2>2, DivBounds DEF v
  <2> QED
    BY <2>2, <2>3 DEF CoinBalance, v
<1>3. \A a \in A : f[a] = [account |-> a, share |-> CoinBalance(cur, a), reward |-> NoReward]
  OBVIOUS
<1>4. Statistics = {f[a] : a \in A}
  BY DEF Statistics
<1>5. DOMAIN f = A /\ f \in [A -> Statistics]
  BY DEF Statistics
<1> HIDE DEF f, A
<1>6. IsFiniteSet(Statistics)
  <2>1. f \in Surjection(A, Statistics)
    BY <1>4, <1>5 DEF Surjection
  <2> QED
    BY <1>1, <2>1, FS_Surjection
<1>7. ASSUME NEW s \in Statistics
      PROVE  /\ s \in [account : Accounts, share : Nat, reward : {NoReward}]
             /\ s.account \in A /\ s.share = CoinBalance(cur, s.account)
             /\ s = f[s.account]
  <2>1. PICK a \in A : s = f[a]
    BY <1>4
  <2>2. s = [account |-> a, share |-> CoinBalance(cur, a), reward |-> NoReward]
    BY <1>3, <2>1
  <2>3. a \in Accounts /\ CoinBalance(cur, a) \in Nat
    BY <1>1, <1>2
  <2>4. s.account = a /\ s.share = CoinBalance(cur, a)
    BY <2>2
  <2>5. s \in [account : Accounts, share : Nat, reward : {NoReward}]
    <3> DEFINE c == CoinBalance(cur, a)
    <3>1. c \in Nat /\ s = [account |-> a, share |-> c, reward |-> NoReward]
      BY <2>2, <2>3
    <3> HIDE DEF c
    <3> QED
      BY <2>3, <3>1
  <2> QED
    BY <2>1, <2>4, <2>5
<1>8. \A s, t \in Statistics : s.account = t.account => s = t
  BY <1>7, Zenon
<1>9. LET l == ConvertToSortedSlice(Statistics)
      IN  l \in Seq(Fresh) /\ \A i \in DOMAIN l : l[i] \in Statistics
  BY <1>6, <1>7, <1>8, SortedIsList
<1> QED
  BY <1>7, <1>9 DEF A

\* The invariant holds in the beginning.
LEMMA LiquidInitIInv == LiquidInit => LiquidIInv
<1> SUFFICES ASSUME LiquidInit PROVE LiquidIInv
  OBVIOUS
<1>1. LiquidTypes
  <2>1. \A e \in Ex : stats[e] = <<>> /\ DOMAIN stats[e] = {}
    BY DEF LiquidInit, NothingSettled
  <2>2. stats \in [Ex -> Seq(Stat)] /\ stats \in [Ex -> Seq(Fresh)]
    BY DEF LiquidInit, NothingSettled
  <2>3. sampled \in [Ex -> [Accounts -> Nat]] /\ latest \in [Ex -> [Accounts -> Nat]]
    BY ConstantFacts DEF LiquidInit, NothingSettled
  <2>4. coin \in [Ex -> Nat]
    BY LiquidRewardsAssumption DEF LiquidInit, NothingSettled, IsLiquidSetup
  <2>5. value \in [Ex -> [Accounts -> Nat \cup {NotRead}]]
    BY DEF LiquidInit, NothingSettled
  <2>6. /\ setup \in LiquidSetups /\ balances = {} /\ pc = "start" /\ cur = 1
        /\ height = 0 /\ moves = 0
    BY DEF LiquidInit, NothingSettled
  <2>7. cur \in 1 .. Exchanges + 1
    BY <2>6, ConstantFacts
  <2>8. supply \in [Ex -> Nat] /\ sent \in [Ex -> Nat]
    BY DEF LiquidInit, NothingSettled
  <2> QED
    BY <2>1, <2>2, <2>3, <2>4, <2>5, <2>6, <2>7, <2>8 DEF LiquidTypes
<1>2. SampleInv
  BY DEF LiquidInit, NothingSettled, SampleInv
<1>3. ResultInv
  BY DEF LiquidInit, NothingSettled, ResultInv
<1>4. SentInv
  BY DEF LiquidInit, NothingSettled, SentInv
<1> QED
  BY <1>1, <1>2, <1>3, <1>4 DEF LiquidIInv

\* Each action keeps the types.
LEMMA TypesStep ==
  ASSUME LiquidTypes, [LiquidNext]_liquidVars
  PROVE  LiquidTypes'
<1>1. /\ ArchiveMode \in BOOLEAN /\ Weights \in [Ex -> Nat \ {0}]
      /\ Listed \subseteq Accounts /\ Excluded \subseteq Accounts
      /\ setup.files \in Seq(Seq(Accounts \X Int))
  BY SetupFacts
<1>2. /\ Exchanges \in Nat /\ Exchanges > 0 /\ Ex = 1 .. Exchanges
      /\ TotalValue \in Nat /\ Seq(Fresh) \subseteq Seq(Stat)
  BY ConstantFacts DEF Fresh
<1>3. CASE CheckLiquidOption
  BY <1>3 DEF CheckLiquidOption, LiquidTypes, chain, Excluded
<1>4. CASE GetAccountsAndShares
  <2>1. CASE Len(setup.files) = Exchanges
    <3>1. \A e \in Ex : setup.files[e] \in Seq(Accounts \X Int)
      BY <1>1, <1>2, <2>1
    <3>2. stats' = [e \in Ex |-> SharesFromFile(setup.files[e])] /\ pc' = "calc"
      BY <1>4, <2>1 DEF GetAccountsAndShares
    <3>3. \A e \in Ex : /\ stats'[e] \in Seq(Fresh)
                        /\ \A i \in DOMAIN stats'[e] : stats'[e][i].account \notin Excluded
      BY <3>1, <3>2, FileIsList
    <3>4. stats' \in [Ex -> Seq(Fresh)] /\ stats' \in [Ex -> Seq(Stat)]
      BY <1>2, <3>2, <3>3
    <3> QED
      BY <1>4, <3>2, <3>3, <3>4 DEF GetAccountsAndShares, LiquidTypes, chain, Excluded
  <2>2. CASE Len(setup.files) # Exchanges
    BY <1>4, <2>2 DEF GetAccountsAndShares, LiquidTypes, chain, Excluded
  <2> QED
    BY <2>1, <2>2
<1>5. CASE GetExchangeLiquidity
  <2>1. CASE cur <= Exchanges
    <3>1. cur \in Ex
      BY <1>2, <2>1 DEF LiquidTypes
    <3>2. AtHeight[cur] \in [Accounts -> Nat]
      BY <3>1 DEF AtHeight, LiquidTypes
    <3>3. SumFunction(AtHeight[cur]) \in Nat /\ Height \in Nat
      BY <3>2, SupplyNat DEF Height, LiquidTypes
    <3>4. supply' \in [Ex -> Nat] /\ height' \in Nat /\ pc' = "balance"
      BY <1>5, <2>1, <3>3 DEF GetExchangeLiquidity, LiquidTypes
    <3> QED
      BY <1>5, <3>1, <3>4 DEF GetExchangeLiquidity, LiquidTypes, chain, Excluded
  <2>2. CASE ~(cur <= Exchanges)
    BY <1>5, <2>2 DEF GetExchangeLiquidity, LiquidTypes, chain, Excluded
  <2> QED
    BY <2>1, <2>2
<1>6. CASE GetLiquidityBalance
  <2>1. cur \in Ex
    BY <1>6 DEF GetLiquidityBalance, LiquidTypes
  <2>2. PICK a \in Listed :
          \E found \in {b.liquidity : b \in Cached(a)} \cup {AtHeight[cur][a]} :
            /\ value' = [value EXCEPT ![cur][a] = found]
            /\ \/ UNCHANGED balances
               \/ balances' = balances \cup {Record(a, found)}
    BY <1>6 DEF GetLiquidityBalance
  <2>3. PICK found \in {b.liquidity : b \in Cached(a)} \cup {AtHeight[cur][a]} :
          /\ value' = [value EXCEPT ![cur][a] = found]
          /\ \/ UNCHANGED balances
             \/ balances' = balances \cup {Record(a, found)}
    BY <2>2
  <2>4. a \in Accounts
    BY <1>1
  <2>5. found \in Nat
    <3>1. \A b \in Cached(a) : b.liquidity \in Nat
      BY DEF Cached, LiquidTypes
    <3>2. AtHeight[cur][a] \in Nat
      BY <2>1, <2>4 DEF AtHeight, LiquidTypes
    <3> QED
      BY <3>1, <3>2
  <2>6. value' \in [Ex -> [Accounts -> Nat \cup {NotRead}]]
    BY <2>1, <2>3, <2>4, <2>5 DEF LiquidTypes
  <2>7. balances' \in SUBSET [exchange : Ex, account : Accounts, height : Nat, liquidity : Nat]
    BY <2>1, <2>3, <2>4, <2>5 DEF LiquidTypes, Record
  <2> QED
    BY <1>6, <2>6, <2>7 DEF GetLiquidityBalance, LiquidTypes, chain, Excluded
<1>7. CASE EndExchange
  <2>1. cur \in Ex /\ pc = "balance" /\ \A a \in Listed : value[cur][a] # NotRead
    BY <1>7 DEF EndExchange, LiquidTypes
  <2>2. stats' = [stats EXCEPT ![cur] = ConvertToSortedSlice(Statistics)]
    BY <1>7 DEF EndExchange, Statistics
  <2>3. /\ ConvertToSortedSlice(Statistics) \in Seq(Fresh)
        /\ \A i \in DOMAIN ConvertToSortedSlice(Statistics) :
             ConvertToSortedSlice(Statistics)[i].account \notin Excluded
    BY <2>1, ListOfExchange
  <2>4. stats \in [Ex -> Seq(Fresh)]
    BY <2>1 DEF LiquidTypes
  <2>5. stats' \in [Ex -> Seq(Fresh)] /\ stats' \in [Ex -> Seq(Stat)]
    BY <1>2, <2>2, <2>3, <2>4
  <2>6. \A e \in Ex : \A i \in DOMAIN stats'[e] : stats'[e][i].account \notin Excluded
    BY <2>2, <2>3, <2>4 DEF LiquidTypes
  <2>7. cur' \in 1 .. Exchanges + 1 /\ pc' = "supply" /\ Excluded' = Excluded
    BY <1>2, <1>7, <2>1 DEF EndExchange, chain, Excluded
  <2> QED
    BY <1>7, <2>5, <2>6, <2>7 DEF EndExchange, LiquidTypes, chain
<1>8. CASE CalcStats
  <2>1. stats \in [Ex -> Seq(Fresh)] /\ stats' = CalcWeightedRewards(stats, TotalValue, Weights)
    BY <1>8 DEF CalcStats, LiquidTypes
  <2>2. stats' \in [Ex -> Seq(Stat)] /\ SameAccounts(stats', stats)
    BY <1>1, <1>2, <2>1, WeightedResult
  <2>3. \A e \in Ex : \A i \in DOMAIN stats'[e] : stats'[e][i].account \notin Excluded
    BY <2>2 DEF SameAccounts, LiquidTypes
  <2>4. cur' = 1 /\ pc' = "send" /\ 1 \in Ex /\ 1 \in 1 .. Exchanges + 1 /\ Excluded' = Excluded
    BY <1>2, <1>8 DEF CalcStats, chain, Excluded
  <2> QED
    BY <1>8, <2>2, <2>3, <2>4 DEF CalcStats, LiquidTypes, chain
<1>9. CASE SendLiquidRewards
  <2>1. cur \in Ex /\ pc = "send"
    BY <1>9 DEF SendLiquidRewards, DispatchRewards, LiquidTypes
  <2>2. RewardsSended(stats[cur]) \in Nat
    <3> DEFINE l == stats[cur]
               f == [i \in DOMAIN l |-> Paid(l[i])]
    <3>1. l \in Seq(Stat)
      BY <2>1 DEF LiquidTypes
    <3> HIDE DEF l
    <3>2. Len(l) \in Nat /\ DOMAIN l = 1 .. Len(l) /\ \A i \in DOMAIN l : l[i] \in Stat
      BY <3>1
    <3>3. f \in [1 .. Len(l) -> Nat]
      BY <3>2, PaidNat
    <3> HIDE DEF f
    <3>4. SumFunction(f) \in Nat
      BY <3>2, <3>3, SumNat
    <3> QED
      BY <3>4 DEF f, l, RewardsSended
  <2>3. sent' \in [Ex -> Nat]
    BY <1>9, <2>2 DEF SendLiquidRewards, DispatchRewards, LiquidTypes
  <2>4. /\ cur' = cur + 1 /\ cur' \in 1 .. Exchanges + 1
        /\ pc' = IF cur = Exchanges THEN "done" ELSE "send"
        /\ pc' = "send" => cur' \in Ex
        /\ pc' = "done" => cur' = Exchanges + 1
    BY <1>2, <1>9, <2>1 DEF SendLiquidRewards, DispatchRewards
  <2> QED
    BY <1>9, <2>1, <2>3, <2>4 DEF SendLiquidRewards, DispatchRewards, LiquidTypes, chain, Excluded
<1>10. CASE Move
  <2>1. latest' \in [Ex -> [Accounts -> Nat]]
    <3>1. PICK e \in Ex, a \in Accounts, b \in Accounts :
            /\ a /= b /\ latest[e][a] > 0
            /\ latest' = [latest EXCEPT ![e][a] = @ - 1, ![e][b] = @ + 1]
      BY <1>10 DEF Move
    <3>2. latest[e] \in [Accounts -> Nat] /\ latest \in [Ex -> [Accounts -> Nat]]
      BY DEF LiquidTypes
    <3>3. [[latest[e] EXCEPT ![a] = @ - 1] EXCEPT ![b] = @ + 1] \in [Accounts -> Nat]
      <4>1. latest[e][a] - 1 \in Nat /\ latest[e][b] + 1 \in Nat
        BY <3>1, <3>2
      <4>2. [latest[e] EXCEPT ![a] = @ - 1] \in [Accounts -> Nat]
        BY <3>2, <4>1
      <4>3. [latest[e] EXCEPT ![a] = @ - 1][b] = latest[e][b]
        BY <3>1, <3>2
      <4> QED
        BY <4>1, <4>2, <4>3
    <3> QED
      BY <3>1, <3>2, <3>3
  <2> QED
    BY <1>10, <2>1 DEF Move, LiquidTypes, Excluded
<1>11. CASE Restart
  <2>1. stats' \in [Ex -> Seq(Fresh)] /\ stats' \in [Ex -> Seq(Stat)]
        /\ \A e \in Ex : stats'[e] = <<>> /\ DOMAIN stats'[e] = {}
    BY <1>11 DEF Restart
  <2>2. value' \in [Ex -> [Accounts -> Nat \cup {NotRead}]]
    BY <1>11 DEF Restart
  <2>3. 1 \in 1 .. Exchanges + 1
    BY <1>2
  <2> QED
    BY <1>11, <2>1, <2>2, <2>3 DEF Restart, LiquidTypes, chain, Excluded
<1>12. CASE UNCHANGED liquidVars
  BY <1>12 DEF liquidVars, chain, LiquidTypes, Excluded
<1> QED
  BY <1>3, <1>4, <1>5, <1>6, <1>7, <1>8, <1>9, <1>10, <1>11, <1>12 DEF LiquidNext

\* No step changes the configuration or the sample.
LEMMA ChainStays ==
  ASSUME [LiquidNext]_liquidVars
  PROVE  setup' = setup /\ sampled' = sampled /\ coin' = coin
BY DEF LiquidNext, liquidVars, chain, CheckLiquidOption, GetAccountsAndShares, GetExchangeLiquidity,
   GetLiquidityBalance, EndExchange, CalcStats, SendLiquidRewards, DispatchRewards,
   Move, Restart

\* Each action keeps to the sample: what is read at the sample height, or found in the
\* database, is what the chain had there.
LEMMA SampleStep ==
  ASSUME LiquidTypes, SampleInv, [LiquidNext]_liquidVars
  PROVE  SampleInv'
<1>1. setup' = setup /\ sampled' = sampled /\ coin' = coin /\ ArchiveMode' = ArchiveMode
  BY ChainStays DEF ArchiveMode
<1>2. SUFFICES ASSUME ArchiveMode, setup.files = <<>> PROVE SampleInv'
  BY <1>1 DEF SampleInv
<1>3. /\ \A b \in balances : b.liquidity = sampled[b.exchange][b.account]
      /\ \A e \in Ex : \A a \in Accounts : value[e][a] \in {NotRead, sampled[e][a]}
      /\ pc = "balance" => supply[cur] = SumFunction(sampled[cur])
      /\ \A e \in Ex : \A i \in DOMAIN stats[e] :
           stats[e][i].share =
             Coins(sampled[e][stats[e][i].account], SumFunction(sampled[e]), coin[e])
  BY <1>2 DEF SampleInv
<1>4. AtHeight = sampled
  BY <1>2 DEF AtHeight
<1>5. Listed \subseteq Accounts /\ Weights \in [Ex -> Nat \ {0}] /\ Ex = 1 .. Exchanges
      /\ Exchanges \in Nat /\ Exchanges > 0 /\ TotalValue \in Nat
  BY SetupFacts, ConstantFacts
<1>6. ASSUME balances' = balances, value' = value, stats' = stats,
             pc' = "balance" => supply'[cur'] = SumFunction(sampled[cur'])
      PROVE  SampleInv'
  BY <1>1, <1>3, <1>6 DEF SampleInv
<1>7. CASE CheckLiquidOption
  BY <1>2, <1>6, <1>7 DEF CheckLiquidOption
<1>8. CASE GetAccountsAndShares
  <2>1. Len(setup.files) # Exchanges
    BY <1>2, <1>5
  <2> QED
    BY <1>6, <1>8, <2>1 DEF GetAccountsAndShares
<1>9. CASE GetExchangeLiquidity
  <2>1. pc' = "balance" => supply'[cur'] = SumFunction(sampled[cur'])
    <3>1. CASE cur <= Exchanges
      <4>1. cur \in Ex /\ supply \in [Ex -> Nat]
        BY <1>5, <3>1 DEF LiquidTypes
      <4> QED
        BY <1>4, <1>9, <3>1, <4>1 DEF GetExchangeLiquidity
    <3>2. CASE ~(cur <= Exchanges)
      BY <1>9, <3>2 DEF GetExchangeLiquidity
    <3> QED
      BY <3>1, <3>2
  <2> QED
    BY <1>6, <1>9, <2>1 DEF GetExchangeLiquidity
<1>10. CASE GetLiquidityBalance
  <2>1. cur \in Ex /\ pc = "balance"
    BY <1>10 DEF GetLiquidityBalance, LiquidTypes
  <2>2. PICK a \in Listed :
          \E found \in {b.liquidity : b \in Cached(a)} \cup {AtHeight[cur][a]} :
            /\ value' = [value EXCEPT ![cur][a] = found]
            /\ \/ UNCHANGED balances
               \/ balances' = balances \cup {Record(a, found)}
    BY <1>10 DEF GetLiquidityBalance
  <2>3. PICK found \in {b.liquidity : b \in Cached(a)} \cup {AtHeight[cur][a]} :
          /\ value' = [value EXCEPT ![cur][a] = found]
          /\ \/ UNCHANGED balances
             \/ balances' = balances \cup {Record(a, found)}
    BY <2>2
  <2>4. a \in Accounts
    BY <1>5
  <2>5. found = sampled[cur][a]
    BY <1>3, <1>4 DEF Cached
  <2>6. \A b \in balances' : b.liquidity = sampled[b.exchange][b.account]
    BY <1>3, <2>3, <2>5 DEF Record
  <2>7. \A e \in Ex : \A c \in Accounts : value'[e][c] \in {NotRead, sampled[e][c]}
    BY <1>3, <2>1, <2>3, <2>4, <2>5 DEF LiquidTypes
  <2>8. /\ pc' = pc /\ cur' = cur /\ supply' = supply /\ stats' = stats
    BY <1>10 DEF GetLiquidityBalance
  <2> QED
    BY <1>1, <1>3, <2>6, <2>7, <2>8 DEF SampleInv
<1>11. CASE EndExchange
  <2>1. cur \in Ex /\ pc = "balance" /\ \A a \in Listed : value[cur][a] # NotRead
    BY <1>11 DEF EndExchange, LiquidTypes
  <2>2. stats' = [stats EXCEPT ![cur] = ConvertToSortedSlice(Statistics)]
    BY <1>11 DEF EndExchange, Statistics
  <2>3. \A i \in DOMAIN ConvertToSortedSlice(Statistics) :
          LET s == ConvertToSortedSlice(Statistics)[i]
          IN  s.account \in Listed \ Excluded /\ s.share = CoinBalance(cur, s.account)
    BY <2>1, ListOfExchange
  <2>4. \A a \in Listed : CoinBalance(cur, a)
                            = Coins(sampled[cur][a], SumFunction(sampled[cur]), coin[cur])
    <3>1. \A a \in Listed : value[cur][a] = sampled[cur][a]
      BY <1>3, <1>5, <2>1
    <3> QED
      BY <1>3, <2>1, <3>1 DEF CoinBalance, Coins
  <2>5. stats \in [Ex -> Seq(Stat)]
    BY DEF LiquidTypes
  <2>6. \A e \in Ex : \A i \in DOMAIN stats'[e] :
          stats'[e][i].share =
            Coins(sampled[e][stats'[e][i].account], SumFunction(sampled[e]), coin[e])
    <3>1. stats'[cur] = ConvertToSortedSlice(Statistics)
      BY <2>1, <2>2, <2>5
    <3>2. \A e \in Ex \ {cur} : stats'[e] = stats[e]
      BY <2>2, <2>5
    <3> QED
      BY <1>3, <2>3, <2>4, <3>1, <3>2
  <2>7. balances' = balances /\ value' = value /\ pc' = "supply"
    BY <1>11 DEF EndExchange
  <2> QED
    BY <1>1, <1>3, <2>6, <2>7 DEF SampleInv
<1>12. CASE CalcStats
  <2>1. stats \in [Ex -> Seq(Fresh)] /\ stats' = CalcWeightedRewards(stats, TotalValue, Weights)
    BY <1>12 DEF CalcStats, LiquidTypes
  <2>2. SameAccounts(stats', stats)
    BY <1>5, <2>1, WeightedResult
  <2>3. \A e \in Ex : \A i \in DOMAIN stats'[e] :
          stats'[e][i].share =
            Coins(sampled[e][stats'[e][i].account], SumFunction(sampled[e]), coin[e])
    BY <1>3, <2>2 DEF SameAccounts
  <2>4. balances' = balances /\ value' = value /\ pc' = "send"
    BY <1>12 DEF CalcStats
  <2> QED
    BY <1>1, <1>3, <2>3, <2>4 DEF SampleInv
<1>13. CASE SendLiquidRewards
  BY <1>6, <1>13 DEF SendLiquidRewards, DispatchRewards
<1>14. CASE Move
  BY <1>3, <1>6, <1>14 DEF Move
<1>15. CASE Restart
  <2>1. /\ balances' = balances /\ pc' = "start"
        /\ value' = [e \in Ex |-> [a \in Accounts |-> NotRead]]
        /\ \A e \in Ex : DOMAIN stats'[e] = {}
    BY <1>15 DEF Restart
  <2>2. \A e \in Ex : \A a \in Accounts : value'[e][a] = NotRead
    BY <2>1
  <2> QED
    BY <1>1, <1>3, <2>1, <2>2 DEF SampleInv
<1>16. CASE UNCHANGED liquidVars
  BY <1>3, <1>6, <1>16 DEF liquidVars
<1> QED
  BY <1>7, <1>8, <1>9, <1>10, <1>11, <1>12, <1>13, <1>14, <1>15, <1>16 DEF LiquidNext

\* The rewards are computed once, and nothing changes them afterwards.
LEMMA ResultStep ==
  ASSUME LiquidTypes, ResultInv, [LiquidNext]_liquidVars
  PROVE  ResultInv'
<1>1. Weights' = Weights
  BY ChainStays DEF Weights
<1>2. CASE CalcStats
  <2>1. /\ stats \in [Ex -> Seq(Fresh)] /\ stats' = CalcWeightedRewards(stats, TotalValue, Weights)
        /\ Weights \in [Ex -> Nat \ {0}] /\ TotalValue \in Nat
    BY <1>2, SetupFacts, ConstantFacts DEF CalcStats, LiquidTypes
  <2>2. AllIsPaid(stats', TotalValue) /\ EqualPay(stats', Weights)
    BY <2>1, WeightedResult
  <2> QED
    BY <1>1, <2>2 DEF ResultInv
<1>3. CASE SendLiquidRewards \/ Move \/ UNCHANGED liquidVars
  <2>1. stats' = stats /\ (pc' \in {"send", "done"} => pc \in {"send", "done"})
    BY <1>3 DEF SendLiquidRewards, DispatchRewards, Move, liquidVars
  <2> QED
    BY <1>1, <2>1 DEF ResultInv
<1>4. CASE CheckLiquidOption \/ GetAccountsAndShares \/ GetExchangeLiquidity \/ GetLiquidityBalance
           \/ EndExchange \/ Restart
  <2>1. pc' \notin {"send", "done"}
    BY <1>4 DEF CheckLiquidOption, GetAccountsAndShares, GetExchangeLiquidity, GetLiquidityBalance,
                EndExchange, Restart
  <2> QED
    BY <2>1 DEF ResultInv
<1> QED
  BY <1>2, <1>3, <1>4 DEF LiquidNext

\* sendRewards goes through the exchanges in order and sends each of them what was
\* computed.
LEMMA SentStep ==
  ASSUME LiquidTypes, SentInv, [LiquidNext]_liquidVars
  PROVE  SentInv'
<1>1. CASE SendLiquidRewards
  <2>1. cur \in Ex /\ pc = "send" /\ sent \in [Ex -> Nat] /\ \A e \in Ex : e \in Nat
    BY <1>1, ConstantFacts DEF SendLiquidRewards, DispatchRewards, LiquidTypes
  <2>2. /\ sent' = [sent EXCEPT ![cur] = RewardsSended(stats[cur])]
        /\ stats' = stats /\ cur' = cur + 1 /\ pc' \in {"send", "done"}
    BY <1>1 DEF SendLiquidRewards, DispatchRewards, RewardsSended
  <2>3. ASSUME NEW e \in Ex
        PROVE  sent'[e] = IF e < cur + 1 THEN RewardsSended(stats[e]) ELSE 0
    <3>1. sent[e] = IF e < cur THEN RewardsSended(stats[e]) ELSE 0
      BY <2>1 DEF SentInv
    <3>2. CASE e = cur
      BY <2>1, <2>2, <3>2
    <3>3. CASE e # cur
      BY <2>1, <2>2, <3>1, <3>3
    <3> QED
      BY <3>2, <3>3
  <2> QED
    BY <2>2, <2>3 DEF SentInv
<1>2. CASE Move \/ UNCHANGED liquidVars
  BY <1>2 DEF Move, liquidVars, SentInv
<1>3. CASE CalcStats
  <2>1. \A e \in Ex : sent[e] = 0 /\ ~(e < 1)
    BY <1>3, ConstantFacts DEF CalcStats, SentInv
  <2> QED
    BY <1>3, <2>1 DEF CalcStats, SentInv
<1>4. CASE CheckLiquidOption \/ GetAccountsAndShares \/ GetExchangeLiquidity \/ GetLiquidityBalance
           \/ EndExchange \/ Restart
  <2>1. pc \notin {"send", "done"} /\ pc' \notin {"send", "done"} /\ sent' = sent
    BY <1>4 DEF CheckLiquidOption, GetAccountsAndShares, GetExchangeLiquidity, GetLiquidityBalance,
                EndExchange, Restart
  <2> QED
    BY <2>1 DEF SentInv
<1> QED
  BY <1>1, <1>2, <1>3, <1>4 DEF LiquidNext

----------------------------------------------------------------------------
\* The theorems

\* The invariant holds throughout.
THEOREM Inductive == LiquidSpec => []LiquidIInv
<1>1. ASSUME LiquidIInv, [LiquidNext]_liquidVars PROVE LiquidIInv'
  <2>1. LiquidTypes /\ SampleInv /\ ResultInv /\ SentInv
    BY <1>1 DEF LiquidIInv
  <2> QED
    BY <1>1, <2>1, TypesStep, SampleStep, ResultStep, SentStep DEF LiquidIInv
<1> QED
  BY LiquidInitIInv, <1>1, PTL DEF LiquidSpec

\* Only accounts that are not excluded have a share, it is positive, and no reward is
\* computed as a negative number (ConvertToSortedSlice, GetAccountsAndSharesFromFile).
THEOREM LiquidTypeCorrect == LiquidSpec => []LiquidTypeOK
<1>1. LiquidIInv => LiquidTypeOK
  <2> SUFFICES ASSUME LiquidTypes PROVE LiquidTypeOK
    BY DEF LiquidIInv
  <2>1. ASSUME NEW e \in Ex, NEW i \in DOMAIN stats[e]
        PROVE  /\ stats[e][i].account \in Accounts \ Excluded
               /\ stats[e][i].share > 0
               /\ stats[e][i].reward \in Nat \cup {NoReward}
    <3>1. stats[e] \in Seq(Stat)
      BY DEF LiquidTypes
    <3>2. stats[e][i] \in Stat
      BY <3>1
    <3> QED
      BY <3>2 DEF LiquidTypes, Stat
  <2> QED
    BY <2>1 DEF LiquidTypes, LiquidTypeOK
<1> QED
  BY Inductive, <1>1, PTL

\* The rewards sent are the whole total, except a unit that rounding may give to an
\* exchange without accounts, and nothing if nobody has a share (CalcWeightedRewards,
\* sendRewards).
THEOREM TotalIsSent == LiquidSpec => []SentIsTotal
<1>1. LiquidIInv => SentIsTotal
  <2> SUFFICES ASSUME LiquidTypes, ResultInv, SentInv, pc = "done" PROVE SentIsTotal
    BY DEF LiquidIInv, SentIsTotal
  <2>1. sent = SendedSums(stats)
    <3>1. \A e \in Ex : e < Exchanges + 1
      BY ConstantFacts
    <3>2. cur = Exchanges + 1 /\ sent \in [Ex -> Nat]
      BY DEF LiquidTypes
    <3>3. \A e \in Ex : sent[e] = RewardsSended(stats[e])
      BY <3>1, <3>2 DEF SentInv
    <3> QED
      BY <3>2, <3>3 DEF SendedSums
  <2>2. AllIsPaid(stats, TotalValue)
    BY DEF ResultInv
  <2> QED
    BY <2>1, <2>2 DEF SentIsTotal, AllIsPaid, Empty
<1> QED
  BY Inductive, <1>1, PTL

\* In archive mode everybody's share is computed from the sample height, whatever is
\* moved and however often the job is started again (getLiquidityBalancesOfExchange).
THEOREM SampleDecides == LiquidSpec => []SharesFromSample
<1>1. LiquidIInv => SharesFromSample
  BY DEF LiquidIInv, SampleInv, SharesFromSample, Coins
<1> QED
  BY Inductive, <1>1, PTL

\* Equal shares of equally weighted exchanges are paid the same, up to three units, by
\* the two divisions of CalcWeightedRewards.
THEOREM EqualTreatment == LiquidSpec => []EqualShareEqualReward
<1>1. LiquidIInv => EqualShareEqualReward
  BY DEF LiquidIInv, ResultInv, EqualPay, EqualShareEqualReward
<1> QED
  BY Inductive, <1>1, PTL

----------------------------------------------------------------------------
\* More about sums

\* Items that are zero do not count.
LEMMA SumWithoutZeros ==
  ASSUME NEW S, IsFiniteSet(S), NEW f \in [S -> Nat], NEW R \in SUBSET S,
         \A x \in S \ R : f[x] = 0
  PROVE  SumFunction([x \in R |-> f[x]]) = SumFunction(f)
<1> DEFINE G(A) == SumFunction([y \in A |-> f[y]])
           T == {A \in SUBSET S : R \subseteq A => G(A) = G(R)}
<1>1. ASSUME NEW A \in SUBSET S, \A B \in SUBSET A : B # A => B \in T
      PROVE  A \in T
  <2> SUFFICES ASSUME R \subseteq A PROVE G(A) = G(R)
    OBVIOUS
  <2>1. CASE A = R
    BY <2>1
  <2>2. CASE A # R
    <3>1. PICK x \in A : x \notin R
      BY <2>2
    <3>2. A \ {x} \in SUBSET A /\ A \ {x} # A /\ R \subseteq A \ {x}
      BY <3>1
    <3>3. G(A \ {x}) = G(R)
      <4>1. A \ {x} \in T
        BY <1>1, <3>2
      <4> HIDE DEF G
      <4> QED
        BY <3>2, <4>1
    <3>4. G(A) = f[x] + G(A \ {x})
      <4>1. f \in [S -> Int]
        OBVIOUS
      <4> QED
        BY <3>1, <4>1, SumPartRemove
    <3>5. f[x] = 0
      BY <3>1
    <3>6. G(A \ {x}) \in Nat
      <4>1. A \ {x} \in SUBSET S
        OBVIOUS
      <4> QED
        BY <4>1, SumOfPart
    <3> HIDE DEF G
    <3> QED
      BY <3>3, <3>4, <3>5, <3>6
  <2> QED
    BY <2>1, <2>2
<1>2. \A A \in SUBSET S : A \in T
  <2> HIDE DEF T
  <2> QED
    BY <1>1, SubsetInduction
<1>3. G(S) = G(R)
  <2>1. S \in T
    BY <1>2
  <2> HIDE DEF G
  <2> QED
    BY <2>1
<1>4. [y \in S |-> f[y]] = f
  OBVIOUS
<1> QED
  BY <1>3, <1>4

\* A sum of numbers is positive if one of them is.
LEMMA SumPositive ==
  ASSUME NEW S, IsFiniteSet(S), NEW f \in [S -> Nat], NEW x \in S, f[x] > 0
  PROVE  SumFunction(f) \in Nat /\ SumFunction(f) > 0
<1> DEFINE h == [y \in S \ {x} |-> f[y]]
<1>1. SumFunction(f) = f[x] + SumFunction(h)
  <2>1. f \in [S -> Int] /\ h \in [S \ {x} -> Int] /\ \A y \in S \ {x} : h[y] = f[y]
    OBVIOUS
  <2> HIDE DEF h
  <2> QED
    BY <2>1, SumRemove
<1>2. SumFunction(h) \in Nat
  <2>1. S \ {x} \in SUBSET S
    OBVIOUS
  <2> QED
    BY <2>1, SumOfPart
<1> HIDE DEF h
<1> QED
  BY <1>1, <1>2

\* A sum of numbers is zero only if all of them are.
LEMMA SumIsZero ==
  ASSUME NEW S, IsFiniteSet(S), NEW f \in [S -> Nat]
  PROVE  SumFunction(f) = 0 <=> \A x \in S : f[x] = 0
<1>1. ASSUME \A x \in S : f[x] = 0 PROVE SumFunction(f) = 0
  <2> DEFINE g == [x \in {} |-> f[x]]
  <2>1. SumFunction(g) = SumFunction(f)
    BY <1>1, SumWithoutZeros
  <2>2. DOMAIN g = {}
    OBVIOUS
  <2> HIDE DEF g
  <2> QED
    BY <2>1, <2>2, SumEmpty
<1>2. ASSUME NEW x \in S, f[x] # 0 PROVE SumFunction(f) # 0
  <2>1. f[x] > 0
    BY <1>2
  <2>2. SumFunction(f) \in Nat /\ SumFunction(f) > 0
    BY <2>1, SumPositive
  <2> QED
    BY <2>2
<1> QED
  BY <1>1, <1>2

----------------------------------------------------------------------------
\* More about lists

\* What is sorted are the statistics with a positive share.
LEMMA SortedElements ==
  ASSUME NEW S, IsFiniteSet(S),
         NEW kept, kept = {s \in S : s.share > 0},
         Orders({p \in kept \X kept : Less(p[1], p[2])}, kept)
  PROVE  LET l == ConvertToSortedSlice(S)
         IN  /\ l \in Seq(kept)
             /\ l = <<>> <=> kept = {}
<1> DEFINE R == {p \in kept \X kept : Less(p[1], p[2])}
           l == Enumerate(kept, R)
<1>1. IsFiniteSet(kept) /\ Cardinality(kept) \in Nat
  BY FS_Subset, FS_CardinalityType
<1>2. l \in [1 .. Cardinality(kept) -> kept]
  <2> HIDE DEF R
  <2> QED
    BY <1>1, EnumerateLists DEF Lists, R
<1>3. l = ConvertToSortedSlice(S)
  BY DEF ConvertToSortedSlice
<1>4. Cardinality(kept) = 0 <=> kept = {}
  BY <1>1, FS_EmptySet
<1> HIDE DEF R, l
<1>5. l \in Seq(kept) /\ Len(l) = Cardinality(kept)
  <2> DEFINE n == Cardinality(kept)
  <2>1. n \in Nat /\ l \in [1 .. n -> kept]
    BY <1>1, <1>2
  <2> HIDE DEF n
  <2>2. l \in Seq(kept) /\ Len(l) = n
    BY <2>1
  <2> QED
    BY <2>2 DEF n
<1>6. l = <<>> <=> kept = {}
  BY <1>4, <1>5
<1> QED
  BY <1>3, <1>5, <1>6

\* Statistics of different accounts that all have a reward are ordered by Less, too.
LEMMA LessOrdersPaid ==
  ASSUME NEW S \in SUBSET Stat, \A s, t \in S : s.account = t.account => s = t,
         \A s \in S : s.reward > 0
  PROVE  Orders({p \in S \X S : Less(p[1], p[2])}, S)
<1> DEFINE R == {p \in S \X S : Less(p[1], p[2])}
<1>1. \A s \in S : s.account \in Nat /\ s.reward \in Nat /\ s.reward # NoReward
  <2> SUFFICES ASSUME NEW s \in S
               PROVE  s.account \in Nat /\ s.reward \in Nat /\ s.reward # NoReward
    OBVIOUS
  <2>1. s.account \in Accounts /\ s.reward \in Nat \cup {NoReward} /\ s.reward > 0
    BY DEF Stat
  <2>2. s.reward \in Nat /\ s.reward # NoReward
    <3> DEFINE r == s.reward
    <3> HIDE DEF r
    <3>1. r \in Nat \cup {-1} /\ r > 0
      BY <2>1 DEF r, NoReward
    <3>2. r \in Nat /\ r # -1
      BY <3>1
    <3> QED
      BY <3>2 DEF r, NoReward
  <2> QED
    BY <2>1, <2>2, SettlementAssumption
<1>2. \A s, t \in S : <<s, t>> \in R <=>
         IF s.reward - t.reward # 0 THEN s.reward - t.reward > 0 ELSE s.account < t.account
  BY <1>1 DEF Less
<1> HIDE DEF R
<1>3. \A x, y, z \in S : <<x, y>> \in R /\ <<y, z>> \in R => <<x, z>> \in R
  <2> SUFFICES ASSUME NEW x \in S, NEW y \in S, NEW z \in S, <<x, y>> \in R, <<y, z>> \in R
               PROVE  <<x, z>> \in R
    OBVIOUS
  <2>1. /\ x.reward > y.reward \/ (x.reward = y.reward /\ x.account < y.account)
        /\ y.reward > z.reward \/ (y.reward = z.reward /\ y.account < z.account)
    BY <1>1, <1>2
  <2> QED
    BY <1>1, <1>2, <2>1
<1>4. \A x, y \in S : x = y \/ <<x, y>> \in R \/ <<y, x>> \in R
  <2> SUFFICES ASSUME NEW x \in S, NEW y \in S, x # y PROVE <<x, y>> \in R \/ <<y, x>> \in R
    OBVIOUS
  <2>1. x.account # y.account
    OBVIOUS
  <2> QED
    BY <1>1, <1>2, <2>1
<1>5. Orders(R, S)
  BY <1>3, <1>4 DEF Orders
<1> QED
  BY <1>5 DEF R

\* CalcRewards the second time: the total is divided by the rewards so far.
LEMMA CalcRewardsAgain ==
  ASSUME NEW n \in Nat, n > 0, NEW l \in [1 .. n -> Stat],
         \A i \in 1 .. n : l[i].reward \in Nat, RewardsSended(l) > 0,
         NEW T \in Nat, T > 0
  PROVE  LET m == CalcRewards(l, T)
         IN  /\ m \in [1 .. n -> Stat]
             /\ \A i \in 1 .. n : m[i].account = l[i].account /\ m[i].share = l[i].share
             /\ RewardsSended(m) = T
<1> DEFINE f == [i \in 1 .. n |-> l[i].reward]
           r == SplitRewards(T, f)
           m == CalcRewards(l, T)
<1>1. /\ l # <<>> /\ Len(l) = n /\ DOMAIN l = 1 .. n
      /\ \A i \in 1 .. n : l[i].account \in Accounts /\ l[i].share \in Nat \ {0}
      /\ l[1].reward # NoReward
  BY DEF Stat, NoReward
<1>2. f \in [1 .. n -> Nat] /\ \A i \in 1 .. n : f[i] = l[i].reward
  OBVIOUS
<1>3. RewardsSended(l) = SumFunction(f)
  <2>1. \A i \in 1 .. n : Paid(l[i]) = l[i].reward
    BY DEF Paid
  <2>2. [i \in DOMAIN l |-> Paid(l[i])] = f
    BY <1>1, <2>1
  <2> QED
    BY <2>2 DEF RewardsSended
<1>4. [i \in DOMAIN l |-> IF l[1].reward /= NoReward THEN l[i].reward ELSE l[i].share] = f
  BY <1>1
<1> HIDE DEF f
<1>5. SumFunction(f) \in Nat
  BY <1>2, SumNat
<1>6. FairRewards(r, T, SumFunction(f), n, f)
  <2>1. \A S : S = SumFunction(f) => FairRewards(SplitRewards(T, f), T, S, n, f)
    BY <1>2, <1>3, <1>5, SplitFacts
  <2> QED
    BY <2>1
<1>7. r \in [1 .. n -> Nat] /\ Len(r) = n /\ SumFunction(r) = T
  <2> HIDE DEF r
  <2> QED
    BY <1>6 DEF FairRewards
<1>8. m = [i \in 1 .. n |-> [l[i] EXCEPT !.reward = r[i]]]
  <2> DEFINE basis == [i \in DOMAIN l |-> IF l[1].reward /= NoReward
                                            THEN l[i].reward ELSE l[i].share]
  <2>1. SplitRewards(T, basis) = r
    BY <1>4
  <2>2. ~(l = <<>> \/ T <= 0 \/ Len(SplitRewards(T, basis)) /= Len(l))
    <3>1. Len(r) = Len(l) /\ ~(T <= 0)
      <4> HIDE DEF r
      <4> QED
        BY <1>1, <1>7
    <3> HIDE DEF basis, r
    <3> QED
      BY <1>1, <2>1, <3>1
  <2>3. CalcRewards(l, T) = [i \in DOMAIN l |-> [l[i] EXCEPT !.reward = SplitRewards(T, basis)[i]]]
    BY <2>2, Zenon DEF CalcRewards
  <2> HIDE DEF basis, r
  <2> QED
    BY <1>1, <2>1, <2>3
<1> HIDE DEF m, r
<1>9. /\ m \in [1 .. n -> Stat]
      /\ \A i \in 1 .. n : /\ m[i].account = l[i].account /\ m[i].share = l[i].share
                           /\ m[i].reward = r[i]
  BY <1>1, <1>7, <1>8 DEF Stat
<1>10. RewardsSended(m) = T
  <2>1. \A i \in 1 .. n : Paid(m[i]) = r[i]
    BY <1>7, <1>9 DEF Paid
  <2>2. [i \in DOMAIN m |-> Paid(m[i])] = r
    BY <1>7, <1>9, <2>1
  <2> QED
    BY <1>7, <2>2 DEF RewardsSended
<1> QED
  BY <1>9, <1>10 DEF m

----------------------------------------------------------------------------
\* The invariant of the rewards by volume

\* Every variable has its type, exchanges are handled one after the other, and who gets
\* past the options has something to divide.
VolumeTypes ==
  /\ setup \in VolumeSetups
  /\ volume \in [Ex -> [1 .. setup.steps -> [Accounts -> Nat]]]
  /\ coin \in [Ex -> Nat] /\ stake \in [Accounts -> Nat]
  /\ pc \in {"start", "failed", "load", "calc", "send", "done"}
  /\ cur \in 1 .. Exchanges + 1
  /\ pc \in {"start", "failed"} => cur = 1
  /\ pc \in {"calc", "done"} => cur = Exchanges + 1
  /\ pc = "send" => cur \in Ex
  /\ pc \notin {"start", "failed"} => setup.totalValue > 0
  /\ stats \in [Ex -> Seq(Stat)]
  /\ \A e \in Ex : \A i \in DOMAIN stats[e] : stats[e][i].account \notin NoRewardAccounts
  /\ noVolumeStartHeights \subseteq 1 .. setup.steps
  /\ hasNoMissingVolumes \in BOOLEAN
  /\ noVolumes \in 0 .. setup.steps
  /\ rewards = <<>> \/ rewards \in [Ex -> Nat]
  /\ sent \in [Ex -> Nat]

\* What the configuration is, for any settlement
LEMMA SettlementFacts ==
  ASSUME VolumeTypes
  PROVE  /\ setup.steps \in Nat \ {0} /\ setup.cycleSteps \in Nat \ {0}
         /\ setup.useSteps \in BOOLEAN /\ setup.totalValue \in Nat
         /\ setup.weights \in [Ex -> Nat] /\ setup.weightIsPercentage \in BOOLEAN
         /\ setup.points \in Seq(Nat)
         /\ St = 1 .. setup.steps /\ IsFiniteSet(1 .. setup.steps)
         /\ StepReward \in Nat /\ NoRewardAccounts \subseteq Accounts
<1>1. IsVolumeSetup(setup)
  BY VolumeRewardsAssumption DEF VolumeTypes
<1>2. setup.steps \in Nat \ {0} /\ IsFiniteSet(1 .. setup.steps)
  <2>1. setup.steps \in Nat \ {0}
    BY <1>1 DEF IsVolumeSetup
  <2> QED
    BY <2>1, FS_Interval
<1> QED
  BY <1>1, <1>2, VolumeRewardsAssumption DEF IsVolumeSetup, St, Ex

----------------------------------------------------------------------------
\* The lists of an exchange

\* A set given by a record for each of finitely many accounts is finite, and its members
\* have different accounts.
LEMMA RecordPerAccount ==
  ASSUME NEW A, IsFiniteSet(A), NEW f, DOMAIN f = A, \A a \in A : f[a].account = a
  PROVE  /\ IsFiniteSet({f[a] : a \in A})
         /\ \A s, t \in {f[a] : a \in A} : s.account = t.account => s = t
<1> DEFINE S == {f[a] : a \in A}
           g == [a \in A |-> f[a]]
<1>1. g \in Surjection(A, S)
  BY DEF Surjection
<1>2. IsFiniteSet(S)
  <2> HIDE DEF g, S
  <2> QED
    BY <1>1, FS_Surjection
<1> QED
  BY <1>2

\* FindAccountVolumes lists the accounts that traded, and nobody else.
LEMMA FoundFacts ==
  ASSUME VolumeTypes,
         NEW e \in Ex, NEW ts \in SUBSET (1 .. setup.steps)
  PROVE  LET l == FindAccountVolumes(e, ts)
         IN  /\ l \in Seq(Fresh)
             /\ \A i \in DOMAIN l : l[i].account \notin NoRewardAccounts
             /\ l = <<>> <=>
                  \A t \in ts : \A a \in Accounts \ NoRewardAccounts : volume[e][t][a] = 0
<1> DEFINE A == Accounts \ NoRewardAccounts
           v(a) == SumFunction([t \in ts |-> volume[e][t][a]])
           f == [a \in A |-> [account |-> a, share |-> v(a), reward |-> NoReward]]
           S == {f[a] : a \in A}
           kept == {s \in S : s.share > 0}
           l == FindAccountVolumes(e, ts)
<1>1. IsFiniteSet(A) /\ IsFiniteSet(ts) /\ A \subseteq Accounts
  <2>1. IsFiniteSet(Accounts)
    BY SettlementAssumption
  <2> QED
    BY <2>1, SettlementFacts, FS_Subset
<1>2. \A a \in A : v(a) \in Nat /\ (v(a) = 0 <=> \A t \in ts : volume[e][t][a] = 0)
  <2> SUFFICES ASSUME NEW a \in A
               PROVE  v(a) \in Nat /\ (v(a) = 0 <=> \A t \in ts : volume[e][t][a] = 0)
    OBVIOUS
  <2> DEFINE g == [t \in ts |-> volume[e][t][a]]
  <2>1. g \in [ts -> Nat] /\ \A t \in ts : g[t] = volume[e][t][a]
    <3>1. volume[e] \in [1 .. setup.steps -> [Accounts -> Nat]] /\ a \in Accounts
      BY <1>1 DEF VolumeTypes
    <3>2. \A t \in ts : volume[e][t][a] \in Nat
      BY <3>1
    <3> QED
      BY <3>2
  <2> HIDE DEF g
  <2>2. SumFunction(g) \in Nat
    <3>1. [t \in ts |-> g[t]] = g /\ ts \in SUBSET ts
      BY <2>1
    <3> QED
      BY <1>1, <2>1, SumOfPart
  <2>3. SumFunction(g) = 0 <=> \A t \in ts : g[t] = 0
    BY <1>1, <2>1, SumIsZero
  <2> QED
    BY <2>1, <2>2, <2>3 DEF g
<1>3. l = ConvertToSortedSlice(S)
  BY DEF FindAccountVolumes
<1> HIDE DEF v, l
<1>4. /\ \A a \in A : f[a] = [account |-> a, share |-> v(a), reward |-> NoReward]
      /\ \A a \in A : f[a].account = a /\ f[a].share = v(a)
      /\ DOMAIN f = A
  <2>1. DOMAIN f = A /\ \A a \in A : f[a] = [account |-> a, share |-> v(a), reward |-> NoReward]
    OBVIOUS
  <2> HIDE DEF f
  <2>2. ASSUME NEW a \in A PROVE f[a].account = a /\ f[a].share = v(a)
    <3>1. \A c, x : x = [account |-> a, share |-> c, reward |-> NoReward]
                     => x.account = a /\ x.share = c
      OBVIOUS
    <3> QED
      BY <2>1, <3>1
  <2> QED
    BY <2>1, <2>2
<1> HIDE DEF f
<1>5. IsFiniteSet(S) /\ \A s, t \in S : s.account = t.account => s = t
  <2>1. IsFiniteSet(A) /\ DOMAIN f = A /\ \A a \in A : f[a].account = a
    BY <1>1, <1>4, Zenon
  <2> HIDE DEF A
  <2> QED
    BY <2>1, RecordPerAccount
<1>6. \A s \in S : s \in [account : A, share : Nat, reward : {NoReward}]
  <2> SUFFICES ASSUME NEW a \in A PROVE f[a] \in [account : A, share : Nat, reward : {NoReward}]
    OBVIOUS
  <2>1. f[a] = [account |-> a, share |-> v(a), reward |-> NoReward] /\ v(a) \in Nat
    BY <1>2, <1>4
  <2> QED
    BY <2>1
<1>7. \A a \in A : f[a].share = v(a)
  BY <1>4, Zenon
<1> HIDE DEF S, A
<1>8. kept \in SUBSET Fresh /\ \A s \in kept : s.account \in A
  BY <1>1, <1>6 DEF Fresh, Stat
<1>9. Orders({p \in kept \X kept : Less(p[1], p[2])}, kept)
  <2>1. \A s, t \in kept : s.account = t.account => s = t
    BY <1>5
  <2> HIDE DEF kept
  <2> QED
    BY <1>8, <2>1, LessOrders
<1>10. l \in Seq(kept) /\ (l = <<>> <=> kept = {})
  BY <1>3, <1>5, <1>9, SortedElements
<1>11. kept = {} <=> \A a \in A : v(a) = 0
  <2>1. kept = {} <=> \A a \in A : ~(f[a].share > 0)
    BY DEF S
  <2> QED
    BY <1>2, <1>7, <2>1
<1>12. l \in Seq(Fresh) /\ \A i \in DOMAIN l : l[i].account \in A
  <2> HIDE DEF kept
  <2> QED
    BY <1>8, <1>10
<1> QED
  BY <1>2, <1>10, <1>11, <1>12 DEF A, l

\* What a staker's volume counts more is a number: the last point reached exists.
LEMMA AddedPercent ==
  ASSUME VolumeTypes, NEW amount \in Nat
  PROVE  CalcAddPercentOfStaking(amount) \in Nat
<1> DEFINE reached == {i \in DOMAIN setup.points : amount >= setup.points[i]}
<1>1. /\ CalcAddPercentOfStaking(amount)
           = IF reached = {} THEN 0 ELSE setup.points[Max(reached)]
      /\ setup.points \in Seq(Nat) /\ DOMAIN setup.points = 1 .. Len(setup.points)
  BY SettlementFacts DEF CalcAddPercentOfStaking, Points
<1>2. IsFiniteSet(reached) /\ reached \in SUBSET Int
  <2>1. IsFiniteSet(1 .. Len(setup.points))
    BY <1>1, FS_Interval
  <2> QED
    BY <1>1, <2>1, FS_Subset
<1>3. reached \in SUBSET DOMAIN setup.points
  OBVIOUS
<1> HIDE DEF reached
<1>4. ASSUME reached # {} PROVE Max(reached) \in reached
  <2> DEFINE R == {p \in reached \X reached : p[1] < p[2]}
  <2>1. Orders(R, reached)
    BY <1>2, NumbersOrder
  <2>2. \E m \in reached : \A x \in reached \ {m} : <<x, m>> \in R
    <3> HIDE DEF R
    <3>1. \A A \in SUBSET reached :
            A # {} => \E m \in A : \A x \in A \ {m} : <<x, m>> \in R
      BY <1>2, <2>1, LastElement, ZenonT(30)
    <3> QED
      BY <1>4, <3>1
  <2>3. PICK m \in reached : \A x \in reached \ {m} : x < m
    BY <2>2
  <2>4. \A x \in reached : m >= x
    BY <1>2, <2>3
  <2> QED
    BY <2>4 DEF Max
<1> QED
  BY <1>1, <1>3, <1>4

\* Raising the volume of stakers leaves a list with the same accounts.
LEMMA WeightedList ==
  ASSUME VolumeTypes, NEW l \in Seq(Fresh)
  PROVE  LET m == [i \in DOMAIN l |-> WeightedByStake(l[i])]
         IN  /\ m \in [1 .. Len(l) -> Fresh]
             /\ \A i \in 1 .. Len(l) : m[i].account = l[i].account
<1>1. ASSUME NEW s \in Fresh
      PROVE  WeightedByStake(s) \in Fresh /\ WeightedByStake(s).account = s.account
  <2> DEFINE p == CalcAddPercentOfStaking(stake[s.account])
             more == s.share + (s.share * p) \div 100
  <2>1. s.account \in Accounts /\ s.share \in Nat /\ s.share > 0 /\ s.reward = NoReward
    BY DEF Fresh, Stat
  <2>2. p \in Nat
    <3>1. stake[s.account] \in Nat
      BY <2>1 DEF VolumeTypes
    <3> QED
      BY <3>1, AddedPercent
  <2> HIDE DEF p
  <2>3. (s.share * p) \div 100 \in Nat
    <3>1. s.share * p \in Nat
      BY <2>1, <2>2, MulNat
    <3> QED
      BY <3>1, DivBounds
  <2>4. more \in Nat /\ more > 0
    <3> DEFINE d == (s.share * p) \div 100
    <3>1. d \in Nat
      BY <2>3
    <3> HIDE DEF d
    <3>2. s.share + d \in Nat /\ s.share + d > 0
      BY <2>1, <3>1
    <3> QED
      BY <3>2 DEF d
  <2>5. WeightedByStake(s) = s \/ WeightedByStake(s) = [s EXCEPT !.share = more]
    BY DEF WeightedByStake, p
  <2> HIDE DEF more
  <2> QED
    BY <2>1, <2>4, <2>5 DEF Fresh, Stat
<1>2. \A i \in 1 .. Len(l) : l[i] \in Fresh
  OBVIOUS
<1> QED
  BY <1>1, <1>2

\* The list of an exchange whose volumes are taken together: all of the total is paid.
LEMMA SingleCycleFacts ==
  ASSUME VolumeTypes,
         NEW e \in Ex, NEW ts \in SUBSET (1 .. setup.steps), NEW T \in Nat
  PROVE  LET m == SingleCycleRewards(T, e, ts)
         IN  /\ m \in Seq(Stat)
             /\ \A i \in DOMAIN m : m[i].account \notin NoRewardAccounts
             /\ T > 0 /\ m # <<>> =>
                  RewardsSended(m) > 0 /\ \A i \in DOMAIN m : m[i].reward \in Nat
<1> DEFINE l == FindAccountVolumes(e, ts)
           w == [i \in DOMAIN l |-> WeightedByStake(l[i])]
           n == Len(l)
           m == CalcRewards(w, T)
<1>1. l \in Seq(Fresh) /\ \A i \in DOMAIN l : l[i].account \notin NoRewardAccounts
  BY FoundFacts
<1>2. SingleCycleRewards(T, e, ts) = m
  BY DEF SingleCycleRewards
<1> HIDE DEF l
<1>3. n \in Nat /\ w \in [1 .. n -> Fresh] /\ \A i \in 1 .. n : w[i].account \notin NoRewardAccounts
  <2>1. n \in Nat /\ DOMAIN l = 1 .. n
    BY <1>1
  <2>2. w \in [1 .. n -> Fresh] /\ \A i \in 1 .. n : w[i].account = l[i].account
    BY <1>1, WeightedList
  <2> HIDE DEF w, n
  <2> QED
    BY <1>1, <2>1, <2>2
<1> HIDE DEF w, n
<1>4. CASE n = 0
  <2>1. w = <<>>
    BY <1>3, <1>4
  <2>2. m = <<>>
    BY <2>1 DEF CalcRewards
  <2> QED
    BY <1>2, <2>2
<1>5. CASE n > 0
  <2>1. FairList(m, w, n, T)
    BY <1>3, <1>5, CalcRewardsFacts
  <2> HIDE DEF m
  <2> QED
    BY <1>2, <1>3, <2>1 DEF FairList
<1> QED
  BY <1>3, <1>4, <1>5

\* The list of an exchange whose steps are divided one by one: whoever is in it has a
\* reward.
LEMMA StepsFacts ==
  ASSUME VolumeTypes, NEW e \in Ex
  PROVE  LET m == StatsOfSteps(e)
         IN  /\ m \in Seq(Stat)
             /\ \A i \in DOMAIN m : m[i].account \notin NoRewardAccounts /\ m[i].reward > 0
<1> DEFINE cycle == [t \in St |-> SingleCycleRewards(StepRewards, e, {t})]
           paid(a, t) == {s \in Range(cycle[t]) : s.account = a /\ s.reward > 0}
           got == {a \in Accounts : \E t \in St : paid(a, t) # {}}
           days(a) == {u \in St : paid(a, u) # {}}
           shares(a) == [t \in days(a) |-> (CHOOSE s \in paid(a, t) : TRUE).share]
           wins(a) == [t \in days(a) |-> (CHOOSE s \in paid(a, t) : TRUE).reward]
           f == [a \in got |-> [account |-> a, share |-> SumFunction(shares(a)),
                                reward |-> SumFunction(wins(a))]]
           S == {f[a] : a \in got}
           m == ConvertToSortedSlice(S)
<1>1. StepRewards \in Nat /\ St = 1 .. setup.steps
  <2>1. setup.totalValue \in Nat /\ setup.steps \in Nat /\ setup.steps > 0
    BY SettlementFacts
  <2>2. setup.totalValue \div setup.steps \in Nat
    BY <2>1, DivBounds
  <2> QED
    BY <2>2, SettlementFacts DEF StepRewards, Steps
<1>2. \A t \in St :
        /\ cycle[t] \in Seq(Stat)
        /\ \A i \in DOMAIN cycle[t] : cycle[t][i].account \notin NoRewardAccounts
  <2> SUFFICES ASSUME NEW t \in St
               PROVE  /\ cycle[t] \in Seq(Stat)
                      /\ \A i \in DOMAIN cycle[t] : cycle[t][i].account \notin NoRewardAccounts
    OBVIOUS
  <2>1. {t} \in SUBSET (1 .. setup.steps)
    BY <1>1
  <2> QED
    BY <1>1, <2>1, SingleCycleFacts
<1>3. StatsOfSteps(e) = m
  <2>1. {[account |-> a, share |-> SumFunction(shares(a)),
          reward |-> SumFunction(wins(a))] : a \in got} = S
    <3> HIDE DEF got, shares, wins
    <3> QED
      OBVIOUS
  <2>2. StatsOfSteps(e)
          = ConvertToSortedSlice(
              {[account |-> a, share |-> SumFunction(shares(a)),
                reward |-> SumFunction(wins(a))] : a \in got})
    BY Zenon DEF StatsOfSteps
  <2> HIDE DEF S
  <2> QED
    BY <2>1, <2>2
<1> HIDE DEF cycle
<1>4. \A a \in got : \A t \in days(a) :
        LET s == CHOOSE s \in paid(a, t) : TRUE
        IN  /\ s.share \in Nat /\ s.share > 0 /\ s.reward \in Nat /\ s.reward > 0
            /\ a \notin NoRewardAccounts
  <2> SUFFICES ASSUME NEW a \in got, NEW t \in St, paid(a, t) # {}
               PROVE  LET s == CHOOSE s \in paid(a, t) : TRUE
                      IN  /\ s.share \in Nat /\ s.share > 0 /\ s.reward \in Nat /\ s.reward > 0
                          /\ a \notin NoRewardAccounts
    OBVIOUS
  <2> DEFINE s == CHOOSE s \in paid(a, t) : TRUE
  <2>1. s \in paid(a, t)
    OBVIOUS
  <2> HIDE DEF s
  <2>2. s \in Range(cycle[t]) /\ s.account = a /\ s.reward > 0
    BY <2>1
  <2>3. PICK i \in DOMAIN cycle[t] : s = cycle[t][i]
    BY <2>2 DEF Range
  <2>4. s \in Stat /\ s.account \notin NoRewardAccounts
    BY <1>2, <2>3
  <2>5. s.share \in Nat /\ s.share > 0 /\ s.reward \in Nat
    BY <2>2, <2>4 DEF Stat, NoReward
  <2> QED
    BY <2>2, <2>4, <2>5 DEF s
<1>5. ASSUME NEW a \in got
      PROVE  /\ SumFunction(shares(a)) \in Nat \ {0}
             /\ SumFunction(wins(a)) \in Nat \ {0}
             /\ a \in Accounts /\ a \notin NoRewardAccounts
  <2>1. PICK t \in days(a) : TRUE
    OBVIOUS
  <2>2. IsFiniteSet(days(a))
    BY <1>1, SettlementFacts, FS_Subset
  <2>3. /\ shares(a) \in [days(a) -> Nat] /\ shares(a)[t] > 0
        /\ wins(a) \in [days(a) -> Nat] /\ wins(a)[t] > 0
        /\ a \notin NoRewardAccounts
    <3> HIDE DEF paid
    <3>1. \A u \in days(a) : LET s == CHOOSE s \in paid(a, u) : TRUE
                             IN  /\ s.share \in Nat /\ s.share > 0
                                 /\ s.reward \in Nat /\ s.reward > 0
                                 /\ a \notin NoRewardAccounts
      BY <1>4
    <3> HIDE DEF days
    <3> QED
      BY <2>1, <3>1
  <2> DEFINE s == shares(a)
             w == wins(a)
             D == days(a)
  <2>4. /\ s \in [D -> Nat] /\ s[t] > 0 /\ w \in [D -> Nat] /\ w[t] > 0 /\ t \in D
        /\ IsFiniteSet(D)
    BY <2>1, <2>2, <2>3
  <2> HIDE DEF s, w, D
  <2>5. SumFunction(s) \in Nat /\ SumFunction(s) > 0 /\ SumFunction(w) \in Nat /\ SumFunction(w) > 0
    BY <2>4, SumPositive
  <2>6. SumFunction(s) \in Nat \ {0} /\ SumFunction(w) \in Nat \ {0}
    BY <2>5
  <2>7. a \in Accounts
    OBVIOUS
  <2> HIDE DEF got
  <2> QED
    BY <2>3, <2>6, <2>7 DEF s, w
<1>6. IsFiniteSet(got)
  <2>1. got \in SUBSET Accounts
    OBVIOUS
  <2> HIDE DEF got
  <2> QED
    BY <2>1, SettlementAssumption, FS_Subset
<1> DEFINE x(a) == SumFunction(shares(a))
           y(a) == SumFunction(wins(a))
<1>7. \A a \in got : f[a] = [account |-> a, share |-> x(a), reward |-> y(a)]
  <2> HIDE DEF got, shares, wins
  <2> QED
    OBVIOUS
<1>8. DOMAIN f = got
  <2> HIDE DEF got, shares, wins
  <2> QED
    OBVIOUS
<1>9. \A a \in got : x(a) \in Nat \ {0} /\ y(a) \in Nat \ {0}
                    /\ a \in Accounts /\ a \notin NoRewardAccounts
  <2> HIDE DEF got, shares, wins
  <2> QED
    BY <1>5
<1> HIDE DEF f, x, y, got, shares, wins, days, paid, m
<1>10. \A a \in got : f[a] \in Stat /\ f[a].account = a /\ f[a].share > 0 /\ f[a].reward > 0
  <2> SUFFICES ASSUME NEW a \in got
               PROVE  f[a] \in Stat /\ f[a].account = a /\ f[a].share > 0 /\ f[a].reward > 0
    OBVIOUS
  <2> DEFINE b == x(a)
             c == y(a)
  <2>1. f[a] = [account |-> a, share |-> b, reward |-> c] /\ a \in Accounts
        /\ b \in Nat \ {0} /\ c \in Nat \ {0}
    BY <1>7, <1>9
  <2> HIDE DEF b, c
  <2> QED
    BY <2>1 DEF Stat
<1>11. IsFiniteSet(S) /\ \A s, t \in S : s.account = t.account => s = t
  <2>1. \A a \in got : f[a].account = a
    BY <1>10
  <2> QED
    BY <1>6, <1>8, <2>1, RecordPerAccount
<1>12. /\ S \in SUBSET Stat /\ \A s \in S : s.share > 0 /\ s.reward > 0
       /\ \A s \in S : s.account \notin NoRewardAccounts
  <2> SUFFICES ASSUME NEW a \in got
               PROVE  /\ f[a] \in Stat /\ f[a].share > 0 /\ f[a].reward > 0
                      /\ f[a].account \notin NoRewardAccounts
    OBVIOUS
  <2>1. f[a] \in Stat /\ f[a].account = a /\ f[a].share > 0 /\ f[a].reward > 0
    BY <1>10
  <2>2. a \notin NoRewardAccounts
    BY <1>9
  <2> QED
    BY <2>1, <2>2
<1> HIDE DEF S
<1>13. S = {s \in S : s.share > 0}
  BY <1>12
<1>14. Orders({p \in S \X S : Less(p[1], p[2])}, S)
  <2>1. \A s \in S : s.reward > 0
    BY <1>12
  <2> QED
    BY <1>11, <1>12, <2>1, LessOrdersPaid
<1>15. ConvertToSortedSlice(S) \in Seq(S)
  BY <1>11, <1>13, <1>14, SortedElements
<1>16. m = ConvertToSortedSlice(S)
  BY DEF m
<1>17. m \in Seq(S) /\ \A i \in DOMAIN m : m[i] \in S
  BY <1>15, <1>16
<1>18. /\ m \in Seq(Stat)
       /\ \A i \in DOMAIN m : m[i].account \notin NoRewardAccounts /\ m[i].reward > 0
  BY <1>12, <1>17
<1> QED
  BY <1>3, <1>18

\* Every account of the list has a reward, and together they have one.
HasRewards(l) ==
  l # <<>> => RewardsSended(l) > 0 /\ \A i \in DOMAIN l : l[i].reward \in Nat

\* The sum over a list of what is paid is a number, and positive if anybody is paid.
LEMMA SendedFacts ==
  ASSUME NEW l \in Seq(Stat)
  PROVE  /\ RewardsSended(l) \in Nat
         /\ (\E i \in DOMAIN l : l[i].reward > 0) => RewardsSended(l) > 0
<1> DEFINE n == Len(l)
           p == [i \in 1 .. n |-> Paid(l[i])]
<1>1. n \in Nat /\ DOMAIN l = 1 .. n /\ \A i \in 1 .. n : l[i] \in Stat
  OBVIOUS
<1>2. RewardsSended(l) = SumFunction(p)
  BY <1>1 DEF RewardsSended
<1>3. p \in [1 .. n -> Nat]
  BY <1>1, PaidNat
<1>4. \A i \in 1 .. n : l[i].reward > 0 => p[i] > 0
  BY DEF Paid
<1>5. IsFiniteSet(1 .. n)
  BY <1>1, FS_Interval
<1> HIDE DEF n, p
<1>6. SumFunction(p) \in Nat
  BY <1>1, <1>3, SumNat
<1>7. ASSUME NEW i \in 1 .. n, p[i] > 0 PROVE SumFunction(p) > 0
  BY <1>3, <1>5, <1>7, SumPositive
<1> QED
  BY <1>1, <1>2, <1>4, <1>6, <1>7

\* CalcRewards of a list that has rewards pays its part instead.
LEMMA BatchList ==
  ASSUME NEW l \in Seq(Stat), HasRewards(l), NEW T \in Nat
  PROVE  LET m == CalcRewards(l, T)
         IN  /\ m \in Seq(Stat) /\ DOMAIN m = DOMAIN l /\ (m = <<>> <=> l = <<>>)
             /\ \A i \in DOMAIN m : m[i].account = l[i].account
             /\ l # <<>> /\ T > 0 => RewardsSended(m) = T
<1> DEFINE n == Len(l)
           m == CalcRewards(l, T)
<1>1. CASE l = <<>> \/ ~(T > 0)
  <2>1. m = l
    BY <1>1 DEF CalcRewards
  <2> QED
    BY <1>1, <2>1
<1>2. CASE l # <<>> /\ T > 0
  <2>1. n \in Nat /\ n > 0 /\ l \in [1 .. n -> Stat] /\ DOMAIN l = 1 .. n
    BY <1>2
  <2>2. RewardsSended(l) > 0 /\ \A i \in 1 .. n : l[i].reward \in Nat
    BY <1>2, <2>1 DEF HasRewards
  <2> HIDE DEF n
  <2>3. /\ m \in [1 .. n -> Stat]
        /\ \A i \in 1 .. n : m[i].account = l[i].account
        /\ RewardsSended(m) = T
    BY <1>2, <2>1, <2>2, CalcRewardsAgain
  <2> HIDE DEF m
  <2>4. m \in Seq(Stat) /\ DOMAIN m = DOMAIN l /\ Len(m) = n
    BY <2>1, <2>3
  <2>5. m # <<>>
    BY <2>1, <2>4
  <2> QED
    BY <1>2, <2>1, <2>3, <2>4, <2>5 DEF m
<1> QED
  BY <1>1, <1>2

\* The share of an exchange is a number.
LEMMA ExchangeShareNat ==
  ASSUME VolumeTypes, NEW e \in Ex
  PROVE  ExchangeShare(e) \in Nat
<1> DEFINE v == CalcTotalShare(stats[e])
           scaled == (coin[e] * setup.steps) \div setup.cycleSteps
           limit == IF setup.steps = setup.cycleSteps THEN coin[e] ELSE scaled
           capped == IF v > limit THEN limit ELSE v
           w == setup.weights[e]
<1>1. v \in Nat
  <2>1. stats[e] \in Seq(Stat)
    BY DEF VolumeTypes
  <2>2. Len(stats[e]) \in Nat /\ stats[e] \in [1 .. Len(stats[e]) -> Stat]
    BY <2>1
  <2> QED
    BY <2>2, ShareInTotal
<1>2. coin[e] \in Nat /\ w \in Nat
  BY SettlementFacts DEF VolumeTypes
<1>3. scaled \in Nat
  <2>1. /\ setup.steps \in Nat /\ setup.cycleSteps \in Nat /\ setup.cycleSteps > 0
    BY SettlementFacts
  <2>2. coin[e] * setup.steps \in Nat
    BY <1>2, <2>1, MulNat
  <2> QED
    BY <2>1, <2>2, DivBounds
<1>4. ExchangeShare(e) = IF v = 0 THEN 0 ELSE capped * w
  BY DEF ExchangeShare, Steps
<1> HIDE DEF v, scaled, w
<1>5. capped \in Nat
  BY <1>1, <1>2, <1>3
<1> HIDE DEF capped
<1>6. capped * w \in Nat
  BY <1>2, <1>5, MulNat
<1> QED
  BY <1>4, <1>6

\* The payable total is divided among the exchanges without a rest, or nobody has a share.
LEMMA DivideVolumeFacts ==
  ASSUME VolumeTypes, NEW T \in Nat, T > 0
  PROVE  LET r == DivideVolumeRewards(T)
         IN  \/ r = <<>>
             \/ r \in [Ex -> Nat] /\ Len(r) = Exchanges /\ SumFunction(r) = T
<1> DEFINE n == Exchanges
           r == DivideVolumeRewards(T)
<1>1. n \in Nat /\ n > 0 /\ Ex = 1 .. n
  BY ConstantFacts, SettlementFacts
<1>2. ASSUME NEW f \in [Ex -> Nat]
      PROVE  LET q == SplitRewards(T, f)
             IN  q = <<>> \/ (q \in [Ex -> Nat] /\ Len(q) = n /\ SumFunction(q) = T)
  <2> DEFINE q == SplitRewards(T, f)
             S == SumFunction(f)
  <2>1. S \in Nat /\ f \in [1 .. n -> Nat]
    BY <1>1, SumNat
  <2>2. CASE S = 0
    <3>1. q = <<>>
      BY <2>2 DEF SplitRewards
    <3> QED
      BY <3>1
  <2>3. CASE S > 0
    <3>1. FairRewards(q, T, S, n, f)
      <4>1. \A z \in Nat : z = SumFunction(f) /\ z > 0 =>
              FairRewards(SplitRewards(T, f), T, z, n, f)
        BY <1>1, <2>1, SplitFacts
      <4> QED
        BY <2>1, <2>3, <4>1
    <3> HIDE DEF q, S
    <3>2. q \in [1 .. n -> Nat] /\ SumFunction(q) = T
      BY <3>1 DEF FairRewards
    <3>3. Len(q) = n
      BY <1>1, <3>2
    <3> QED
      BY <1>1, <3>2, <3>3 DEF q
  <2> QED
    BY <2>1, <2>2, <2>3
<1>3. CASE n = 1
  <2>1. r = <<T>>
    BY <1>3 DEF DivideVolumeRewards
  <2>2. <<T>> \in [1 .. 1 -> Int] /\ <<T>> \in [1 .. 1 -> Nat] /\ Len(<<T>>) = 1
        /\ \A k \in 1 .. 1 : <<T>>[k] = T
    OBVIOUS
  <2>3. SumFunction(<<T>>) = 1 * T
    <3> DEFINE g == <<T>>
    <3>1. g \in [1 .. 1 -> Int] /\ \A k \in 1 .. 1 : g[k] = T
      BY <2>2
    <3> HIDE DEF g
    <3>2. SumFunction(g) = 1 * T
      <4>1. \A f \in [1 .. 1 -> Int] : (\A k \in 1 .. 1 : f[k] = T) => SumFunction(f) = 1 * T
        <5>1. 1 \in Nat /\ T \in Int
          OBVIOUS
        <5> QED
          BY <5>1, SumConst, Zenon
      <4> QED
        BY <3>1, <4>1
    <3> QED
      BY <3>2 DEF g
  <2> QED
    BY <1>1, <1>3, <2>1, <2>2, <2>3
<1>4. CASE n > 1 /\ setup.weightIsPercentage
  <2>1. r = SplitRewards(T, setup.weights)
    BY <1>4 DEF DivideVolumeRewards
  <2>2. setup.weights \in [Ex -> Nat]
    BY SettlementFacts
  <2> QED
    BY <1>2, <2>1, <2>2
<1>5. CASE n > 1 /\ ~setup.weightIsPercentage
  <2> DEFINE f == [e \in Ex |-> ExchangeShare(e)]
  <2>1. r = SplitRewards(T, f)
    BY <1>1, <1>5 DEF DivideVolumeRewards
  <2>2. f \in [Ex -> Nat]
    BY ExchangeShareNat
  <2> HIDE DEF f
  <2> QED
    BY <1>2, <2>1, <2>2
<1> QED
  BY <1>1, <1>3, <1>4, <1>5

\* The steps in which nobody traded on the first k exchanges
Untraded(v, steps, k) ==
  {t \in 1 .. steps : \A e \in 1 .. k : \A a \in Accounts \ NoRewardAccounts : v[e][t][a] = 0}

\* noVolumeStartHeights is the intersection over the exchanges read so far.
QuietInv ==
  /\ pc \in {"start", "failed"} \/ (pc = "load" /\ cur = 1) \/ ~setup.useSteps =>
       noVolumeStartHeights = {} /\ ~hasNoMissingVolumes
  /\ setup.useSteps /\ pc = "load" /\ cur > 1 =>
       /\ noVolumeStartHeights = Untraded(volume, setup.steps, cur - 1)
       /\ hasNoMissingVolumes <=> noVolumeStartHeights = {}
  /\ setup.useSteps /\ pc \in {"calc", "send", "done"} =>
       noVolumeStartHeights = Untraded(volume, setup.steps, Exchanges)
  /\ pc \in {"calc", "send", "done"} => noVolumes = Cardinality(noVolumeStartHeights)

\* Until the parts are known, the lists have provisional rewards.
ListsInv ==
  pc \in {"start", "failed", "load", "calc"} => \A e \in Ex : HasRewards(stats[e])

\* The parts are what is payable; each list with a part of its own is paid it.
PartsInv ==
  /\ pc \in {"start", "failed", "load"} => rewards = <<>>
  /\ pc \in {"calc", "send"} => rewards # <<>>
  /\ rewards # <<>> =>
       /\ Len(rewards) = Exchanges
       /\ SumFunction(rewards) = setup.totalValue - StepReward * noVolumes
  /\ pc \in {"send", "done"} /\ rewards # <<>> =>
       \A e \in Ex : stats[e] # <<>> /\ rewards[e] > 0 => RewardsSended(stats[e]) = rewards[e]

\* What was sent to the accounts of an exchange is what its list says, and that once.
PartsSent ==
  \A e \in Ex : sent[e] = IF rewards # <<>> /\ pc \in {"send", "done"} /\ e < cur
                            THEN RewardsSended(stats[e]) ELSE 0

VolumeIInv == VolumeTypes /\ QuietInv /\ ListsInv /\ PartsInv /\ PartsSent

----------------------------------------------------------------------------
\* The invariant holds in the beginning.
LEMMA VolumeInitIInv ==
  ASSUME VolumeInit
  PROVE  VolumeIInv
<1>1. /\ IsVolumeSetup(setup) /\ Volumes \subseteq Nat
      /\ 1 \in 1 .. Exchanges + 1
  BY ConstantFacts, VolumeRewardsAssumption DEF VolumeInit
<1>2. /\ setup.coins \subseteq Nat /\ setup.stakes \subseteq Nat /\ setup.steps \in Nat
      /\ St = 1 .. setup.steps
  BY <1>1 DEF IsVolumeSetup, St
<1>3. /\ volume \in [Ex -> [1 .. setup.steps -> [Accounts -> Nat]]]
      /\ coin \in [Ex -> Nat] /\ stake \in [Accounts -> Nat]
  <2>1. \A S : [S -> [Accounts -> Volumes]] \subseteq [S -> [Accounts -> Nat]]
    BY <1>1
  <2>2. volume \in [Ex -> [1 .. setup.steps -> [Accounts -> Volumes]]]
    BY <1>1, <1>2 DEF VolumeInit
  <2>3. volume \in [Ex -> [1 .. setup.steps -> [Accounts -> Nat]]]
    BY <2>1, <2>2
  <2>4. coin \in [Ex -> setup.coins] /\ stake \in [Accounts -> setup.stakes]
    BY <1>1 DEF VolumeInit
  <2> QED
    BY <1>2, <2>3, <2>4
<1>4. /\ setup \in VolumeSetups /\ pc = "start" /\ cur = 1 /\ stats = [e \in Ex |-> <<>>]
      /\ noVolumeStartHeights = {} /\ hasNoMissingVolumes = FALSE /\ noVolumes = 0
      /\ rewards = <<>> /\ sent = [e \in Ex |-> 0]
  BY <1>1 DEF VolumeInit, NothingSettled
<1>5. VolumeTypes
  <2>1. /\ stats \in [Ex -> Seq(Stat)] /\ sent \in [Ex -> Nat]
        /\ \A e \in Ex : DOMAIN stats[e] = {}
    BY <1>4
  <2>2. 0 \in 0 .. setup.steps
    BY <1>2
  <2> QED
    BY <1>1, <1>3, <1>4, <2>1, <2>2 DEF VolumeTypes
<1>6. QuietInv /\ PartsInv
  BY <1>4 DEF QuietInv, PartsInv
<1>7. ListsInv /\ PartsSent
  BY <1>4 DEF ListsInv, HasRewards, PartsSent
<1> QED
  BY <1>5, <1>6, <1>7 DEF VolumeIInv

----------------------------------------------------------------------------
\* Each action keeps it.

\* updateNoVolumes intersects the steps without volume, once there are any.
LEMMA UpdateFacts ==
  ASSUME NEW starts, NEW both, hasNoMissingVolumes \in BOOLEAN,
         \/ noVolumeStartHeights = {} /\ ~hasNoMissingVolumes /\ both = starts
         \/ /\ hasNoMissingVolumes <=> noVolumeStartHeights = {}
            /\ both = noVolumeStartHeights \cap starts
  PROVE  \E none \in BOOLEAN : /\ UpdateNoVolumes(starts) = <<both, none>>
                               /\ none <=> both = {}
<1>1. CASE hasNoMissingVolumes
  <2>1. UpdateNoVolumes(starts) = <<noVolumeStartHeights, TRUE>>
    BY <1>1 DEF UpdateNoVolumes
  <2> QED
    BY <1>1, <2>1
<1>2. CASE ~hasNoMissingVolumes /\ starts = {}
  <2>1. UpdateNoVolumes(starts) = <<{}, TRUE>>
    BY <1>2 DEF UpdateNoVolumes
  <2> QED
    BY <1>2, <2>1
<1>3. CASE ~hasNoMissingVolumes /\ starts # {} /\ noVolumeStartHeights = {}
  <2>1. UpdateNoVolumes(starts) = <<starts, FALSE>>
    BY <1>3 DEF UpdateNoVolumes
  <2> QED
    BY <1>3, <2>1
<1>4. CASE ~hasNoMissingVolumes /\ starts # {} /\ noVolumeStartHeights # {}
  <2>1. both = noVolumeStartHeights \cap starts
    BY <1>4
  <2>2. UpdateNoVolumes(starts) = <<both, both = {}>>
    BY <1>4, <2>1 DEF UpdateNoVolumes
  <2> QED
    BY <2>2, Zenon
<1> QED
  BY <1>1, <1>2, <1>3, <1>4

\* The steps without volume on exchange cur, and so on all exchanges up to it
LEMMA QuietSteps ==
  ASSUME VolumeTypes, cur \in Ex
  PROVE  /\ NoVolumeStarts(cur) \in SUBSET (1 .. setup.steps)
         /\ cur = 1 => NoVolumeStarts(cur) = Untraded(volume, setup.steps, cur)
         /\ cur > 1 => Untraded(volume, setup.steps, cur - 1) \cap NoVolumeStarts(cur)
                        = Untraded(volume, setup.steps, cur)
<1> DEFINE A == Accounts \ NoRewardAccounts
           starts == NoVolumeStarts(cur)
<1>1. starts = {t \in 1 .. setup.steps : \A a \in A : volume[cur][t][a] = 0}
  <2>1. \A t \in 1 .. setup.steps :
          FindAccountVolumes(cur, {t}) = <<>> <=> \A a \in A : volume[cur][t][a] = 0
    <3> SUFFICES ASSUME NEW t \in 1 .. setup.steps
                 PROVE  FindAccountVolumes(cur, {t}) = <<>>
                          <=> \A a \in A : volume[cur][t][a] = 0
      OBVIOUS
    <3>1. {t} \in SUBSET (1 .. setup.steps)
      OBVIOUS
    <3>2. FindAccountVolumes(cur, {t}) = <<>>
            <=> \A u \in {t} : \A a \in A : volume[cur][u][a] = 0
      BY <3>1, FoundFacts
    <3> QED
      BY <3>2
  <2> QED
    BY <2>1, SettlementFacts DEF NoVolumeStarts
<1>2. cur \in Nat /\ cur > 0
  BY ConstantFacts
<1>3. cur = 1 => 1 .. cur = {cur}
  BY <1>2
<1>4. cur > 1 => 1 .. cur = (1 .. (cur - 1)) \cup {cur}
  BY <1>2
<1> HIDE DEF A, starts
<1> QED
  BY <1>1, <1>3, <1>4 DEF Untraded, A, starts

\* Nothing is read yet when the options are checked.
LEMMA KeepsCheckOption ==
  ASSUME VolumeIInv, CheckVolumeOption
  PROVE  VolumeIInv'
<1>1. /\ VolumeTypes /\ QuietInv /\ ListsInv /\ PartsInv /\ PartsSent
      /\ pc = "start" /\ pc' \in {"load", "failed"}
      /\ pc' = "load" => setup.totalValue > 0
      /\ setup' = setup /\ volume' = volume /\ coin' = coin /\ stake' = stake
      /\ cur' = cur /\ stats' = stats /\ noVolumeStartHeights' = noVolumeStartHeights
      /\ hasNoMissingVolumes' = hasNoMissingVolumes /\ noVolumes' = noVolumes
      /\ rewards' = rewards /\ sent' = sent
  BY DEF VolumeIInv, CheckVolumeOption, inputs
<1>2. cur = 1
  BY <1>1 DEF VolumeTypes
<1>3. VolumeTypes'
  BY <1>1, <1>2 DEF VolumeTypes
<1>4. QuietInv'
  BY <1>1, <1>2 DEF QuietInv
<1>5. ListsInv' /\ PartsInv' /\ PartsSent'
  BY <1>1 DEF ListsInv, PartsInv, PartsSent
<1> QED
  BY <1>3, <1>4, <1>5 DEF VolumeIInv

\* The list that an exchange is given, either way it is computed
LEMMA LoadedList ==
  ASSUME VolumeIInv, LoadExchange
  PROVE  /\ stats' \in [Ex -> Seq(Stat)]
         /\ \A e \in Ex : e # cur => stats'[e] = stats[e]
         /\ HasRewards(stats'[cur])
         /\ \A i \in DOMAIN stats'[cur] : stats'[cur][i].account \notin NoRewardAccounts
<1>1. /\ VolumeTypes /\ pc = "load" /\ cur \in Ex /\ setup.useSteps \in BOOLEAN
      /\ stats' = [stats EXCEPT ![cur] =
           IF setup.useSteps THEN StatsOfSteps(cur)
           ELSE SingleCycleRewards(setup.totalValue, cur, St)]
  <2>1. VolumeTypes
    BY DEF VolumeIInv
  <2>2. cur \in Ex /\ pc = "load"
    BY <2>1, ConstantFacts DEF VolumeTypes, LoadExchange
  <2> QED
    BY <2>1, <2>2, SettlementFacts
       DEF LoadExchange, UseSteps
<1> DEFINE l == IF setup.useSteps THEN StatsOfSteps(cur)
                ELSE SingleCycleRewards(setup.totalValue, cur, St)
<1>2. /\ l \in Seq(Stat) /\ HasRewards(l)
      /\ \A i \in DOMAIN l : l[i].account \notin NoRewardAccounts
  <2>1. CASE setup.useSteps
    <3>1. /\ l \in Seq(Stat)
          /\ \A i \in DOMAIN l : l[i].account \notin NoRewardAccounts /\ l[i].reward > 0
      BY <1>1, <2>1, StepsFacts
    <3> HIDE DEF l
    <3>2. ASSUME l # <<>> PROVE RewardsSended(l) > 0 /\ \A i \in DOMAIN l : l[i].reward \in Nat
      <4>1. 1 \in DOMAIN l
        BY <3>1, <3>2
      <4>2. \A i \in DOMAIN l : l[i] \in Stat
        BY <3>1
      <4>3. \E i \in DOMAIN l : l[i].reward > 0
        BY <3>1, <4>1
      <4>4. \A i \in DOMAIN l : l[i].reward \in Nat
        BY <3>1, <4>2 DEF Stat, NoReward
      <4> QED
        BY <3>1, <4>3, <4>4, SendedFacts
    <3> QED
      BY <3>1, <3>2 DEF HasRewards
  <2>2. CASE ~setup.useSteps
    <3>1. setup.totalValue \in Nat /\ setup.totalValue > 0 /\ St = 1 .. setup.steps
      BY <1>1, SettlementFacts DEF VolumeTypes
    <3>2. /\ l \in Seq(Stat)
          /\ \A i \in DOMAIN l : l[i].account \notin NoRewardAccounts
          /\ l # <<>> => RewardsSended(l) > 0 /\ \A i \in DOMAIN l : l[i].reward \in Nat
      <4>1. St \in SUBSET (1 .. setup.steps)
        BY <3>1
      <4> QED
        BY <1>1, <2>2, <3>1, <4>1, SingleCycleFacts
    <3> HIDE DEF l
    <3> QED
      BY <3>2 DEF HasRewards
  <2> QED
    BY <1>1, <2>1, <2>2
<1>3. stats' = [stats EXCEPT ![cur] = l] /\ stats \in [Ex -> Seq(Stat)]
  BY <1>1 DEF VolumeTypes
<1> HIDE DEF l
<1> QED
  BY <1>1, <1>2, <1>3

\* GetAccountsAndRewards adds the list of the next exchange and intersects the steps
\* without volume.
LEMMA KeepsLoadExchange ==
  ASSUME VolumeIInv, LoadExchange
  PROVE  VolumeIInv'
<1>1. /\ VolumeTypes /\ QuietInv /\ ListsInv /\ PartsInv /\ PartsSent
      /\ pc = "load" /\ pc' = "load" /\ cur' = cur + 1 /\ cur <= Exchanges
      /\ setup' = setup /\ volume' = volume /\ coin' = coin /\ stake' = stake
      /\ noVolumes' = noVolumes /\ rewards' = rewards /\ sent' = sent
  BY DEF VolumeIInv, LoadExchange, inputs
<1>2. cur \in Ex /\ cur \in Nat /\ cur' \in 1 .. Exchanges + 1 /\ cur' > 1 /\ cur' - 1 = cur
  BY <1>1, ConstantFacts DEF VolumeTypes
<1>3. /\ stats' \in [Ex -> Seq(Stat)]
      /\ \A e \in Ex : e # cur => stats'[e] = stats[e]
      /\ HasRewards(stats'[cur])
      /\ \A i \in DOMAIN stats'[cur] : stats'[cur][i].account \notin NoRewardAccounts
  BY LoadedList
<1>4. /\ noVolumeStartHeights' \subseteq 1 .. setup.steps /\ hasNoMissingVolumes' \in BOOLEAN
      /\ ~setup.useSteps => noVolumeStartHeights' = {} /\ ~hasNoMissingVolumes'
      /\ setup.useSteps =>
           /\ noVolumeStartHeights' = Untraded(volume, setup.steps, cur)
           /\ hasNoMissingVolumes' <=> noVolumeStartHeights' = {}
  <2>1. CASE ~setup.useSteps
    <3>1. noVolumeStartHeights' = noVolumeStartHeights /\ hasNoMissingVolumes' = hasNoMissingVolumes
      BY <2>1 DEF LoadExchange, UseSteps
    <3> QED
      BY <1>1, <2>1, <3>1 DEF VolumeTypes, QuietInv
  <2>2. CASE setup.useSteps
    <3> DEFINE starts == NoVolumeStarts(cur)
               both == Untraded(volume, setup.steps, cur)
    <3>1. /\ noVolumeStartHeights' = UpdateNoVolumes(starts)[1]
          /\ hasNoMissingVolumes' = UpdateNoVolumes(starts)[2]
      BY <2>2 DEF LoadExchange, UseSteps
    <3>2. \/ noVolumeStartHeights = {} /\ ~hasNoMissingVolumes /\ both = starts
          \/ /\ hasNoMissingVolumes <=> noVolumeStartHeights = {}
             /\ both = noVolumeStartHeights \cap starts
      <4>1. CASE cur = 1
        <5>1. noVolumeStartHeights = {} /\ ~hasNoMissingVolumes
          BY <1>1, <4>1 DEF QuietInv
        <5>2. both = starts
          BY <1>1, <1>2, <4>1, QuietSteps
        <5> QED
          BY <5>1, <5>2
      <4>2. CASE cur > 1
        <5>1. /\ noVolumeStartHeights = Untraded(volume, setup.steps, cur - 1)
              /\ hasNoMissingVolumes <=> noVolumeStartHeights = {}
          BY <1>1, <2>2, <4>2 DEF QuietInv
        <5>2. both = noVolumeStartHeights \cap starts
          BY <1>1, <1>2, <4>2, <5>1, QuietSteps
        <5> QED
          BY <5>1, <5>2
      <4> QED
        BY <1>2, <4>1, <4>2, ConstantFacts
    <3>3. both \subseteq 1 .. setup.steps
      BY DEF Untraded
    <3> HIDE DEF starts, both
    <3>4. PICK none \in BOOLEAN : /\ UpdateNoVolumes(starts) = <<both, none>>
                                  /\ none <=> both = {}
      <4>1. hasNoMissingVolumes \in BOOLEAN
        BY <1>1 DEF VolumeTypes
      <4> QED
        BY <3>2, <4>1, UpdateFacts
    <3>5. noVolumeStartHeights' = both /\ hasNoMissingVolumes' = none
      BY <3>1, <3>4
    <3> QED
      BY <2>2, <3>3, <3>4, <3>5 DEF both
  <2> QED
    BY <2>1, <2>2
<1>5. VolumeTypes'
  <2>1. \A e \in Ex : \A i \in DOMAIN stats'[e] : stats'[e][i].account \notin NoRewardAccounts
    BY <1>1, <1>3 DEF VolumeTypes
  <2> QED
    BY <1>1, <1>2, <1>3, <1>4, <2>1 DEF VolumeTypes
<1>6. QuietInv'
  BY <1>1, <1>2, <1>4 DEF QuietInv
<1>7. ListsInv' /\ PartsInv' /\ PartsSent'
  <2>1. \A e \in Ex : HasRewards(stats'[e])
    BY <1>1, <1>3 DEF ListsInv
  <2>2. ListsInv'
    BY <2>1 DEF ListsInv
  <2>3. PartsInv'
    BY <1>1 DEF PartsInv
  <2>4. PartsSent'
    BY <1>1 DEF PartsSent
  <2> QED
    BY <2>2, <2>3, <2>4
<1> QED
  BY <1>5, <1>6, <1>7 DEF VolumeIInv

\* ByVolume counts the steps without volume and divides what is payable.
LEMMA KeepsDivideTotal ==
  ASSUME VolumeIInv, DivideTotal
  PROVE  VolumeIInv'
<1>1. /\ VolumeTypes /\ QuietInv /\ ListsInv /\ PartsInv /\ PartsSent
      /\ pc = "load" /\ cur > Exchanges /\ cur' = cur /\ stats' = stats
      /\ noVolumes' = Cardinality(noVolumeStartHeights)
      /\ setup' = setup /\ volume' = volume /\ coin' = coin /\ stake' = stake
      /\ noVolumeStartHeights' = noVolumeStartHeights
      /\ hasNoMissingVolumes' = hasNoMissingVolumes /\ sent' = sent
  BY DEF VolumeIInv, DivideTotal, inputs
<1>2. /\ cur = Exchanges + 1 /\ cur > 1 /\ Exchanges \in Nat /\ rewards = <<>>
      /\ setup.totalValue \in Nat /\ StepReward \in Nat /\ cur - 1 = Exchanges
  <2>1. cur \in 1 .. Exchanges + 1 /\ rewards = <<>>
    BY <1>1 DEF VolumeTypes, PartsInv
  <2>2. Exchanges \in Nat /\ Exchanges > 0
    BY ConstantFacts
  <2>3. setup.totalValue \in Nat /\ StepReward \in Nat
    BY <1>1, SettlementFacts
  <2> QED
    BY <1>1, <2>1, <2>2, <2>3
<1>3. noVolumes' \in 0 .. setup.steps
  <2>1. IsFiniteSet(1 .. setup.steps) /\ Cardinality(1 .. setup.steps) = setup.steps
    <3>1. setup.steps \in Nat /\ setup.steps >= 1
      BY <1>1, SettlementFacts
    <3>2. IsFiniteSet(1 .. setup.steps) /\ Cardinality(1 .. setup.steps)
            = IF 1 > setup.steps THEN 0 ELSE setup.steps - 1 + 1
      <4>1. setup.steps \in Int /\ 1 \in Int
        BY <3>1
      <4> QED
        BY <4>1, FS_Interval
    <3> QED
      BY <3>1, <3>2
  <2>2. noVolumeStartHeights \subseteq 1 .. setup.steps
    BY <1>1 DEF VolumeTypes
  <2>3. /\ Cardinality(noVolumeStartHeights) <= Cardinality(1 .. setup.steps)
        /\ IsFiniteSet(noVolumeStartHeights)
    BY <2>1, <2>2, FS_Subset
  <2>4. Cardinality(noVolumeStartHeights) \in Nat /\ setup.steps \in Nat
    BY <1>1, <2>3, SettlementFacts, FS_CardinalityType
  <2> QED
    BY <1>1, <2>1, <2>3, <2>4
<1> DEFINE T == setup.totalValue - StepReward * noVolumes'
<1>4. T \in Int
  <2>1. noVolumes' \in Nat
    BY <1>3
  <2>2. StepReward * noVolumes' \in Nat
    BY <1>2, <2>1, MulNat
  <2> DEFINE x == StepReward * noVolumes'
  <2> HIDE DEF x
  <2>3. setup.totalValue - x \in Int
    BY <1>2, <2>2 DEF x
  <2> QED
    BY <2>3 DEF x
<1>5. \/ pc' = "done" /\ rewards' = <<>>
      \/ /\ pc' = "calc" /\ rewards' \in [Ex -> Nat] /\ Len(rewards') = Exchanges
         /\ SumFunction(rewards') = T
  <2>1. CASE ~(T > 0)
    <3>1. Payable(noVolumes') <= 0
      BY <1>4, <2>1 DEF Payable
    <3> QED
      BY <1>2, <3>1 DEF DivideTotal
  <2>2. CASE T > 0
    <3>1. Payable(noVolumes') = T
      BY DEF Payable
    <3> HIDE DEF T
    <3>2. T \in Nat
      BY <1>4, <2>2
    <3> DEFINE r == DivideVolumeRewards(T)
    <3>3. /\ rewards' = r
          /\ pc' = IF Len(r) = Exchanges THEN "calc" ELSE "done"
      BY <2>2, <3>1, <3>2 DEF DivideTotal
    <3>4. r = <<>> \/ (r \in [Ex -> Nat] /\ Len(r) = Exchanges /\ SumFunction(r) = T)
      BY <1>1, <2>2, <3>2, DivideVolumeFacts
    <3> HIDE DEF r
    <3>5. Exchanges # 0
      BY ConstantFacts
    <3> QED
      BY <3>3, <3>4, <3>5
  <2> QED
    BY <2>1, <2>2
<1> HIDE DEF T
<1>6. VolumeTypes'
  <2>1. pc' \in {"calc", "done"} /\ (rewards' = <<>> \/ rewards' \in [Ex -> Nat])
    BY <1>5
  <2> QED
    BY <1>1, <1>2, <1>3, <2>1 DEF VolumeTypes
<1>7. QuietInv'
  <2>1. setup.useSteps => noVolumeStartHeights = Untraded(volume, setup.steps, Exchanges)
    BY <1>1, <1>2 DEF QuietInv
  <2>2. ~setup.useSteps => noVolumeStartHeights = {} /\ ~hasNoMissingVolumes
    BY <1>1 DEF QuietInv
  <2>3. pc' \in {"calc", "done"}
    BY <1>5
  <2> QED
    BY <1>1, <2>1, <2>2, <2>3 DEF QuietInv
<1>8. ListsInv' /\ PartsSent'
  <2>1. ListsInv'
    BY <1>1 DEF ListsInv
  <2>2. PartsSent'
    <3>1. pc' = "calc" \/ rewards' = <<>>
      BY <1>5
    <3>2. sent = [e \in Ex |-> 0]
      BY <1>1, <1>2 DEF PartsSent, VolumeTypes
    <3> QED
      BY <1>1, <3>1, <3>2 DEF PartsSent
  <2> QED
    BY <2>1, <2>2
<1>9. PartsInv'
  <2>1. CASE rewards' = <<>> /\ pc' = "done"
    BY <2>1 DEF PartsInv
  <2>2. CASE /\ pc' = "calc" /\ rewards' \in [Ex -> Nat] /\ Len(rewards') = Exchanges
             /\ SumFunction(rewards') = T
    <3>1. rewards' # <<>>
      BY <2>2, ConstantFacts
    <3> QED
      BY <1>1, <2>2, <3>1 DEF PartsInv, T
  <2> QED
    BY <1>5, <2>1, <2>2
<1> QED
  BY <1>6, <1>7, <1>8, <1>9 DEF VolumeIInv

\* CalcRewardsInBatch pays each exchange its part instead of the provisional rewards.
LEMMA KeepsCalcBatch ==
  ASSUME VolumeIInv, CalcBatch
  PROVE  VolumeIInv'
<1>1. /\ VolumeTypes /\ QuietInv /\ ListsInv /\ PartsInv /\ PartsSent
      /\ pc = "calc" /\ pc' = "send" /\ cur' = 1
      /\ setup' = setup /\ volume' = volume /\ coin' = coin /\ stake' = stake
      /\ noVolumeStartHeights' = noVolumeStartHeights
      /\ hasNoMissingVolumes' = hasNoMissingVolumes /\ noVolumes' = noVolumes
      /\ rewards' = rewards /\ sent' = sent
  BY DEF VolumeIInv, CalcBatch, inputs
<1>2. /\ rewards \in [Ex -> Nat] /\ Len(rewards) = Exchanges /\ stats \in [Ex -> Seq(Stat)]
      /\ \A e \in Ex : HasRewards(stats[e])
      /\ 1 \in Ex /\ 1 \in 1 .. Exchanges + 1
      /\ rewards # <<>>
  BY <1>1, ConstantFacts DEF VolumeTypes, ListsInv, PartsInv
<1>3. stats' = [e \in Ex |-> CalcRewards(stats[e], rewards[e])]
  <2>1. Len(stats) = Len(rewards) /\ DOMAIN stats = Ex
    BY <1>2, ConstantFacts
  <2>2. stats' = [e \in Ex |-> CalcRewards(stats[e], rewards[e])]
    BY <2>1 DEF CalcBatch, CalcRewardsInBatch
  <2> QED
    BY <2>2
<1>4. ASSUME NEW e \in Ex
      PROVE  /\ stats'[e] \in Seq(Stat)
             /\ \A i \in DOMAIN stats'[e] : stats'[e][i].account \notin NoRewardAccounts
             /\ stats'[e] # <<>> /\ rewards[e] > 0 => RewardsSended(stats'[e]) = rewards[e]
  <2>1. stats'[e] = CalcRewards(stats[e], rewards[e])
    BY <1>3
  <2>2. stats[e] \in Seq(Stat) /\ HasRewards(stats[e]) /\ rewards[e] \in Nat
    BY <1>2
  <2>3. \A i \in DOMAIN stats[e] : stats[e][i].account \notin NoRewardAccounts
    BY <1>1 DEF VolumeTypes
  <2> DEFINE l == stats[e]
             T == rewards[e]
             m == CalcRewards(l, T)
  <2>4. l \in Seq(Stat) /\ HasRewards(l) /\ T \in Nat /\ m = CalcRewards(l, T)
    BY <2>2
  <2> HIDE DEF l, T, m
  <2>5. /\ m \in Seq(Stat) /\ DOMAIN m = DOMAIN l /\ (m = <<>> <=> l = <<>>)
        /\ \A i \in DOMAIN m : m[i].account = l[i].account
        /\ l # <<>> /\ T > 0 => RewardsSended(m) = T
    BY <2>4, BatchList
  <2>6. \A i \in DOMAIN m : m[i].account \notin NoRewardAccounts
    BY <2>3, <2>5 DEF l
  <2>7. stats'[e] = m
    BY <2>1 DEF m, l, T
  <2> QED
    BY <2>5, <2>6, <2>7 DEF T
<1>5. VolumeTypes'
  <2>1. stats' \in [Ex -> Seq(Stat)]
    BY <1>3, <1>4
  <2> QED
    BY <1>1, <1>2, <1>4, <2>1 DEF VolumeTypes
<1>6. QuietInv' /\ ListsInv'
  BY <1>1 DEF QuietInv, ListsInv
<1>7. PartsInv'
  BY <1>1, <1>4 DEF PartsInv
<1>8. PartsSent'
  <2>1. \A e \in Ex : ~(e < 1)
    BY ConstantFacts
  <2> QED
    BY <1>1, <2>1 DEF PartsSent
<1> QED
  BY <1>5, <1>6, <1>7, <1>8 DEF VolumeIInv

\* dispatchRewards sends what the list of the exchange says.
LEMMA KeepsSendExchange ==
  ASSUME VolumeIInv, SendVolumeRewards
  PROVE  VolumeIInv'
<1>1. /\ VolumeTypes /\ QuietInv /\ ListsInv /\ PartsInv /\ PartsSent
      /\ pc = "send" /\ cur' = cur + 1 /\ stats' = stats
      /\ pc' = IF cur = Exchanges THEN "done" ELSE "send"
      /\ sent' = [sent EXCEPT ![cur] = RewardsSended(stats[cur])]
      /\ setup' = setup /\ volume' = volume /\ coin' = coin /\ stake' = stake
      /\ noVolumeStartHeights' = noVolumeStartHeights
      /\ hasNoMissingVolumes' = hasNoMissingVolumes /\ noVolumes' = noVolumes
      /\ rewards' = rewards
  BY DEF VolumeIInv, SendVolumeRewards, DispatchRewards, inputs
<1>2. /\ cur \in Ex /\ stats[cur] \in Seq(Stat) /\ sent \in [Ex -> Nat] /\ rewards # <<>>
      /\ Exchanges \in Nat /\ Ex = 1 .. Exchanges
  BY <1>1, ConstantFacts DEF VolumeTypes, PartsInv
<1>3. RewardsSended(stats[cur]) \in Nat
  BY <1>2, SendedFacts
<1>4. cur' \in 1 .. Exchanges + 1 /\ (pc' = "send" => cur' \in Ex)
      /\ (pc' = "done" => cur' = Exchanges + 1)
  BY <1>1, <1>2
<1>5. VolumeTypes'
  <2>1. sent' \in [Ex -> Nat]
    BY <1>1, <1>2, <1>3
  <2>2. pc' \in {"send", "done"}
    BY <1>1
  <2> QED
    BY <1>1, <1>4, <2>1, <2>2 DEF VolumeTypes
<1>6. QuietInv'
  BY <1>1 DEF QuietInv
<1>7. ListsInv' /\ PartsInv'
  <2>1. pc' \in {"send", "done"}
    BY <1>1
  <2> QED
    BY <1>1, <1>2, <2>1 DEF ListsInv, PartsInv
<1>8. PartsSent'
  <2>1. \A e \in Ex : sent'[e] = IF e < cur + 1 THEN RewardsSended(stats[e]) ELSE 0
    <3> SUFFICES ASSUME NEW e \in Ex
                 PROVE  sent'[e] = IF e < cur + 1 THEN RewardsSended(stats[e]) ELSE 0
      OBVIOUS
    <3>1. CASE e = cur
      BY <1>1, <1>2, <1>3, <3>1
    <3>2. CASE e # cur
      <4>1. sent'[e] = sent[e] /\ (e < cur <=> e < cur + 1)
        BY <1>1, <1>2, <3>2
      <4> QED
        BY <1>1, <1>2, <4>1 DEF PartsSent
    <3> QED
      BY <3>1, <3>2
  <2>2. pc' \in {"send", "done"}
    BY <1>1
  <2> QED
    BY <1>1, <1>2, <2>1, <2>2 DEF PartsSent
<1> QED
  BY <1>5, <1>6, <1>7, <1>8 DEF VolumeIInv

\* Every step of ByVolume keeps the invariant.
LEMMA VolumeStep ==
  ASSUME VolumeIInv, [VolumeNext]_volumeVars
  PROVE  VolumeIInv'
<1>1. CASE CheckVolumeOption
  BY <1>1, KeepsCheckOption
<1>2. CASE LoadExchange
  BY <1>2, KeepsLoadExchange
<1>3. CASE DivideTotal
  BY <1>3, KeepsDivideTotal
<1>4. CASE CalcBatch
  BY <1>4, KeepsCalcBatch
<1>5. CASE SendVolumeRewards
  BY <1>5, KeepsSendExchange
<1>6. CASE UNCHANGED volumeVars
  <2>1. /\ setup' = setup /\ volume' = volume /\ coin' = coin /\ stake' = stake
        /\ pc' = pc /\ cur' = cur /\ stats' = stats
        /\ noVolumeStartHeights' = noVolumeStartHeights
        /\ hasNoMissingVolumes' = hasNoMissingVolumes /\ noVolumes' = noVolumes
        /\ rewards' = rewards /\ sent' = sent
    BY <1>6 DEF volumeVars, inputs
  <2>2. VolumeTypes /\ QuietInv /\ ListsInv /\ PartsInv /\ PartsSent
    BY DEF VolumeIInv
  <2>3. VolumeTypes' /\ QuietInv'
    BY <2>1, <2>2 DEF VolumeTypes, QuietInv
  <2>4. ListsInv' /\ PartsInv' /\ PartsSent'
    BY <2>1, <2>2 DEF ListsInv, PartsInv, PartsSent
  <2> QED
    BY <2>3, <2>4 DEF VolumeIInv
<1> QED
  BY <1>1, <1>2, <1>3, <1>4, <1>5, <1>6 DEF VolumeNext

----------------------------------------------------------------------------
\* The theorems about the rewards by volume

\* The invariant of ByVolume, for any exchanges, accounts, volumes and weights
THEOREM VolumeInductive ==
  VolumeSpec => []VolumeIInv
<1>1. VolumeInit => VolumeIInv
  BY VolumeInitIInv
<1>2. VolumeIInv /\ [VolumeNext]_volumeVars => VolumeIInv'
  BY VolumeStep
<1> QED
  BY <1>1, <1>2, PTL DEF VolumeSpec

\* Only accounts that are not excluded and traded have a share, no reward is negative,
\* and no more steps are without volume than there are (getAccountsAndRewards).
THEOREM VolumeTypeCorrect ==
  VolumeSpec => []VolumeTypeOK
<1>1. VolumeIInv => VolumeTypeOK
  <2> SUFFICES ASSUME VolumeTypes PROVE VolumeTypeOK
    BY DEF VolumeIInv
  <2>1. St = 1 .. setup.steps
    BY DEF St
  <2>2. ASSUME NEW e \in Ex, NEW i \in DOMAIN stats[e]
        PROVE  /\ stats[e][i].account \in Accounts \ NoRewardAccounts
               /\ stats[e][i].share > 0
               /\ stats[e][i].reward \in Nat \cup {NoReward}
    <3>1. stats[e] \in Seq(Stat)
      BY DEF VolumeTypes
    <3>2. stats[e][i] \in Stat
      BY <3>1
    <3> QED
      BY <3>2 DEF VolumeTypes, Stat
  <2> QED
    BY <2>1, <2>2 DEF VolumeTypes, VolumeTypeOK, Steps
<1> QED
  BY VolumeInductive, <1>1, PTL

\* The steps whose reward is withheld are those in which nobody traded on any exchange:
\* updateNoVolumes intersects the exchanges, in whatever order it meets gaps.
THEOREM NoVolumesAreExact ==
  VolumeSpec => []NoVolumesExact
<1>1. VolumeIInv => NoVolumesExact
  <2> SUFFICES ASSUME VolumeIInv, setup.useSteps, pc \in {"calc", "send", "done"}
               PROVE  noVolumes = Cardinality({t \in St : \A e \in Ex :
                        \A a \in Accounts \ NoRewardAccounts : volume[e][t][a] = 0})
    BY DEF NoVolumesExact, UseSteps
  <2>1. noVolumes = Cardinality(Untraded(volume, setup.steps, Exchanges))
    BY DEF VolumeIInv, QuietInv
  <2>2. Untraded(volume, setup.steps, Exchanges)
          = {t \in St : \A e \in Ex :
               \A a \in Accounts \ NoRewardAccounts : volume[e][t][a] = 0}
    BY DEF Untraded, St, Ex
  <2> QED
    BY <2>1, <2>2
<1> QED
  BY VolumeInductive, <1>1, PTL

\* What was sent to each exchange, once all of them were
LEMMA SentOfExchange ==
  ASSUME VolumeIInv, rewards # <<>>, AllServed, NEW e \in Ex
  PROVE  /\ rewards \in [Ex -> Nat] /\ sent \in [Ex -> Nat]
         /\ sent[e] <= rewards[e]
         /\ pc = "done" => sent[e] = IF stats[e] = <<>> THEN 0 ELSE rewards[e]
<1>1. /\ rewards \in [Ex -> Nat] /\ sent \in [Ex -> Nat]
      /\ stats[e] # <<>> => rewards[e] > 0
      /\ sent[e] = IF pc \in {"send", "done"} /\ e < cur THEN RewardsSended(stats[e]) ELSE 0
      /\ pc \in {"send", "done"} /\ stats[e] # <<>> => RewardsSended(stats[e]) = rewards[e]
      /\ pc = "done" => e < cur
  <2>1. VolumeTypes /\ PartsInv /\ PartsSent
    BY DEF VolumeIInv
  <2>2. stats[e] # <<>> => rewards[e] > 0
    BY DEF AllServed
  <2>3. pc = "done" => e < cur
    BY <2>1, ConstantFacts DEF VolumeTypes
  <2> QED
    BY <2>1, <2>2, <2>3 DEF VolumeTypes, PartsInv, PartsSent
<1>2. stats[e] = <<>> => RewardsSended(stats[e]) = 0
  BY EmptyIsNotPaid
<1> QED
  BY <1>1, <1>2

\* All of the payable total is sent, except the parts of exchanges without accounts, if
\* every exchange with accounts got a part (CalcRewardsInBatch, dispatchRewards).
THEOREM PayableIsSent ==
  VolumeSpec => []SentIsPayable
<1>1. VolumeIInv => SentIsPayable
  <2> DEFINE none == {x \in Ex : stats[x] = <<>>}
             lost == [e \in 1 .. Exchanges |-> IF e \in none THEN rewards[e] ELSE 0]
             n == Exchanges
  <2> SUFFICES ASSUME VolumeIInv, pc = "done", rewards # <<>>, AllServed
               PROVE  SumFunction(sent) + SumFunction([e \in none |-> rewards[e]])
                        = setup.totalValue - StepReward * noVolumes
    BY DEF SentIsPayable, TotalSent
  <2>1. n \in Nat /\ Ex = 1 .. n /\ IsFiniteSet(1 .. n) /\ Exchanges = n
    BY ConstantFacts
  <2>2. \A e \in Ex : /\ rewards \in [Ex -> Nat] /\ sent \in [Ex -> Nat]
                      /\ sent[e] = IF e \in none THEN 0 ELSE rewards[e]
    BY SentOfExchange
  <2>3. SumFunction(rewards) = setup.totalValue - StepReward * noVolumes
    BY DEF VolumeIInv, PartsInv
  <2>4. none \in SUBSET (1 .. n) /\ 1 \in Ex
    BY <2>1, ConstantFacts
  <2> HIDE DEF none, n
  <2>5. /\ rewards \in [1 .. n -> Nat] /\ sent \in [1 .. n -> Nat]
        /\ lost \in [1 .. n -> Nat]
        /\ \A k \in 1 .. n : rewards[k] = sent[k] + lost[k]
        /\ \A k \in (1 .. n) \ none : lost[k] = 0
    BY <2>1, <2>2, <2>4
  <2>6. [e \in none |-> rewards[e]] = [e \in none |-> lost[e]]
    BY <2>1, <2>4
  <2> HIDE DEF lost
  <2>7. SumFunction([e \in none |-> lost[e]]) = SumFunction(lost)
    BY <2>1, <2>4, <2>5, SumWithoutZeros
  <2>8. SumFunction(rewards) = SumFunction(sent) + SumFunction(lost)
    <3>1. \A f, g, h \in [1 .. n -> Int] :
            (\A k \in 1 .. n : h[k] = f[k] + g[k])
              => SumFunction(h) = SumFunction(f) + SumFunction(g)
      BY <2>1, SumPlus, Zenon
    <3>2. rewards \in [1 .. n -> Int] /\ sent \in [1 .. n -> Int] /\ lost \in [1 .. n -> Int]
      BY <2>5
    <3> QED
      BY <2>5, <3>1, <3>2
  <2> QED
    BY <2>3, <2>6, <2>7, <2>8
<1> QED
  BY VolumeInductive, <1>1, PTL

\* The run volumeOverpay shows that more than the total can be sent.  It takes an exchange
\* with accounts and without a part: if there is none, the total is never exceeded.
THEOREM ServedStaysWithin ==
  VolumeSpec => []((rewards # <<>> => AllServed) => SentWithinTotal)
<1>1. VolumeIInv => ((rewards # <<>> => AllServed) => SentWithinTotal)
  <2> SUFFICES ASSUME VolumeIInv, rewards # <<>> => AllServed
               PROVE  SumFunction(sent) <= setup.totalValue
    BY DEF SentWithinTotal, TotalSent
  <2>1. VolumeTypes /\ PartsInv /\ PartsSent
    BY DEF VolumeIInv
  <2>2. /\ Exchanges \in Nat /\ Ex = 1 .. Exchanges /\ 1 \in Ex
        /\ setup.totalValue \in Nat /\ StepReward \in Nat /\ noVolumes \in Nat
    <3>1. Exchanges \in Nat /\ Ex = 1 .. Exchanges /\ 1 \in Ex
      BY ConstantFacts
    <3>2. setup \in VolumeSetups /\ noVolumes \in 0 .. setup.steps
      BY <2>1 DEF VolumeTypes
    <3>3. setup.totalValue \in Nat /\ StepReward \in Nat /\ setup.steps \in Nat
      BY <2>1, SettlementFacts
    <3> QED
      BY <3>1, <3>2, <3>3
  <2>3. CASE rewards = <<>>
    <3>1. \A e \in 1 .. Exchanges : sent[e] = 0
      BY <2>1, <2>2, <2>3 DEF PartsSent
    <3>2. sent \in [1 .. Exchanges -> Int]
      BY <2>1, <2>2 DEF VolumeTypes
    <3>3. SumFunction(sent) = 0
      BY <2>2, <3>1, <3>2, SumZero
    <3> QED
      BY <2>2, <3>3
  <2>4. CASE rewards # <<>>
    <3>1. \A e \in Ex : /\ rewards \in [Ex -> Nat] /\ sent \in [Ex -> Nat]
                        /\ sent[e] <= rewards[e]
      BY <2>4, SentOfExchange
    <3>2. /\ rewards \in [1 .. Exchanges -> Int] /\ sent \in [1 .. Exchanges -> Int]
          /\ \A e \in 1 .. Exchanges : sent[e] <= rewards[e]
      BY <2>2, <3>1
    <3>3. SumFunction(sent) <= SumFunction(rewards)
      BY <2>2, <3>2, SumMono
    <3>4. SumFunction(rewards) = setup.totalValue - StepReward * noVolumes
      BY <2>1, <2>4 DEF PartsInv
    <3>5. StepReward * noVolumes \in Nat
      BY <2>2, MulNat
    <3>6. SumFunction(sent) \in Nat
      <4>1. sent \in [1 .. Exchanges -> Nat]
        BY <2>2, <3>1
      <4> QED
        BY <2>2, <4>1, SumNat
    <3> DEFINE x == StepReward * noVolumes
    <3> HIDE DEF x
    <3>7. SumFunction(sent) <= setup.totalValue - x /\ x \in Nat
      BY <3>3, <3>4, <3>5 DEF x
    <3> QED
      BY <2>2, <3>6, <3>7
  <2> QED
    BY <2>3, <2>4
<1> QED
  BY VolumeInductive, <1>1, PTL
=============================================================================
