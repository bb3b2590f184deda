---------------------------- MODULE SumTheorems ----------------------------
(***************************************************************************)
(* What SumFunction of the community modules computes on a finite domain:  *)
(* the sum does not depend on the order in which the fold takes the        *)
(* elements, so that an element may be taken out or put in.  At the end,   *)
(* the arithmetic of rounded-down quotients.                               *)
(***************************************************************************)
EXTENDS Integers, FiniteSets, Functions, Folds, FiniteSetTheorems, WellFoundedInduction, TLAPS

\* A non-empty set of numbers has a least one.
LEMMA LeastNumber ==
  ASSUME NEW T, T \subseteq Nat, T # {}
  PROVE  \E m \in T : \A n \in T : m <= n
<1>1. PICK m \in T : \A n \in T : ~(<<n, m>> \in OpToRel(<, Nat))
  BY NatLessThanWellFounded, WFMin
<1>2. \A n \in T : ~(n < m)
  BY <1>1 DEF OpToRel
<1> QED
  BY <1>2

\* Induction over the numbers, for a set of numbers.
LEMMA NumberInduction ==
  ASSUME NEW P, P \subseteq Nat, 0 \in P, \A n \in P : n + 1 \in P
  PROVE  P = Nat
<1> SUFFICES ASSUME Nat \ P # {} PROVE FALSE
  OBVIOUS
<1>1. PICK m \in Nat \ P : \A n \in Nat \ P : m <= n
  BY LeastNumber
<1>2. m - 1 \in Nat /\ m - 1 \in P
  BY <1>1
<1> QED
  BY <1>1, <1>2

\* Induction over the subsets of a finite set, for a set of subsets.
LEMMA SubsetInduction ==
  ASSUME NEW S, IsFiniteSet(S), NEW T,
         \A A \in SUBSET S : (\A B \in SUBSET A : B # A => B \in T) => A \in T
  PROVE  \A A \in SUBSET S : A \in T
<1> SUFFICES ASSUME NEW A0 \in SUBSET S, A0 \notin T PROVE FALSE
  OBVIOUS
<1> DEFINE C == {Cardinality(A) : A \in {B \in SUBSET S : B \notin T}}
<1>1. \A A \in SUBSET S : IsFiniteSet(A) /\ Cardinality(A) \in Nat
  BY FS_Subset, FS_CardinalityType
<1>2. C \subseteq Nat /\ C # {}
  BY <1>1
<1>3. PICK m \in C : \A n \in C : m <= n
  BY <1>2, LeastNumber
<1>4. PICK A \in SUBSET S : A \notin T /\ Cardinality(A) = m
  BY <1>3
<1>5. ASSUME NEW B \in SUBSET A, B # A PROVE B \in T
  <2>1. B \in SUBSET S /\ Cardinality(B) < Cardinality(A)
    BY <1>1, <1>5, FS_Subset
  <2> QED
    BY <1>1, <1>3, <1>4, <2>1
<1> QED
  BY <1>4, <1>5

----------------------------------------------------------------------------

\* The element the fold takes out of s, and the equation of the fold.
First(s) == CHOOSE x \in s : TRUE

Folded(g, f, s) == IF s = {} THEN 0 ELSE f[First(s)] + g[s \ {First(s)}]

Iter(f, S) == CHOOSE g : g = [s \in SUBSET S |-> Folded(g, f, s)]

\* SumFunction is the value of the fold at the whole domain.
LEMMA SumIsIter ==
  ASSUME NEW f PROVE SumFunction(f) = Iter(f, DOMAIN f)[DOMAIN f]
  BY DEF SumFunction, SumFunctionOnSet, FoldFunctionOnSet, MapThenFoldSet, Iter, Folded, First

\* A non-empty set loses one element.
LEMMA FirstOfSet ==
  ASSUME NEW S, IsFiniteSet(S), NEW s \in SUBSET S, s # {}
  PROVE  /\ First(s) \in s /\ IsFiniteSet(s)
         /\ Cardinality(s) \in Nat /\ Cardinality(s) >= 1
         /\ Cardinality(s \ {First(s)}) = Cardinality(s) - 1
<1>1. First(s) \in s
  BY DEF First
<1>2. IsFiniteSet(s)
  BY FS_Subset
<1>3. Cardinality(s \ {First(s)}) = Cardinality(s) - 1
  BY <1>1, <1>2, FS_RemoveElement
<1>4. Cardinality(s) \in Nat /\ Cardinality(s) # 0
  BY <1>2, FS_CardinalityType, FS_EmptySet
<1> QED
  BY <1>1, <1>2, <1>3, <1>4

\* The equation of the fold has a solution.
LEMMA IterExists ==
  ASSUME NEW S, IsFiniteSet(S), NEW f \in [S -> Int]
  PROVE  \E g \in [SUBSET S -> Int] : g = [s \in SUBSET S |-> Folded(g, f, s)]
<1> DEFINE Small(n) == {s \in SUBSET S : Cardinality(s) <= n}
           P == {n \in Nat : \E g \in [Small(n) -> Int] :
                               \A s \in Small(n) : g[s] = Folded(g, f, s)}
<1>0. \A s \in SUBSET S : IsFiniteSet(s) /\ Cardinality(s) \in Nat
  BY FS_Subset, FS_CardinalityType
<1>1. 0 \in P
  <2>1. \A s \in Small(0) : s = {}
    BY <1>0, FS_EmptySet
  <2> DEFINE g == [s \in Small(0) |-> 0]
  <2>2. g \in [Small(0) -> Int] /\ \A s \in Small(0) : g[s] = Folded(g, f, s)
    BY <2>1 DEF Folded
  <2> QED
    BY <2>2
<1>2. ASSUME NEW n \in P PROVE n + 1 \in P
  <2>1. PICK g \in [Small(n) -> Int] : \A s \in Small(n) : g[s] = Folded(g, f, s)
    OBVIOUS
  <2> DEFINE h == [s \in Small(n + 1) |-> Folded(g, f, s)]
  <2>n. n \in Nat /\ n + 1 \in Nat
    OBVIOUS
  <2>2. ASSUME NEW s \in Small(n + 1), s # {}
        PROVE  First(s) \in S /\ s \ {First(s)} \in Small(n)
    BY <2>2, <2>n, FirstOfSet
  <2>3. \A s \in Small(n + 1) : Folded(g, f, s) \in Int
    BY <2>1, <2>2 DEF Folded
  <2>4. h \in [Small(n + 1) -> Int]
    BY <2>3
  <2>5. \A s \in Small(n) : s \in Small(n + 1) /\ h[s] = g[s]
    BY <1>0, <2>1, <2>n
  <2>6. \A s \in Small(n + 1) : h[s] = Folded(h, f, s)
    <3> HIDE DEF Small
    <3> QED
      BY <2>2, <2>5 DEF Folded
  <2> QED
    BY <2>n, <2>4, <2>6
<1>3. P = Nat
  <2> HIDE DEF P
  <2>1. P \subseteq Nat
    BY DEF P
  <2> QED
    BY <1>1, <1>2, <2>1, NumberInduction
<1>4. Cardinality(S) \in P
  BY <1>0, <1>3
<1>5. Small(Cardinality(S)) = SUBSET S
  BY FS_Subset
<1>6. PICK g \in [SUBSET S -> Int] : \A s \in SUBSET S : g[s] = Folded(g, f, s)
  BY <1>4, <1>5
<1>7. g = [s \in SUBSET S |-> Folded(g, f, s)]
  BY <1>6
<1> QED
  BY <1>7

\* The fold satisfies its equation, and its values are integers.
LEMMA IterEquation ==
  ASSUME NEW S, IsFiniteSet(S), NEW f \in [S -> Int]
  PROVE  \A s \in SUBSET S : Iter(f, S)[s] = Folded(Iter(f, S), f, s)
<1>1. Iter(f, S) = [s \in SUBSET S |-> Folded(Iter(f, S), f, s)]
  BY IterExists DEF Iter
<1> QED
  BY <1>1

\* A fold over a set of integers is an integer, and only depends on the elements it
\* sums over.
LEMMA IterOfSubset ==
  ASSUME NEW S, IsFiniteSet(S), NEW f \in [S -> Int], NEW R \in SUBSET S,
         NEW h \in [R -> Int], \A x \in R : h[x] = f[x]
  PROVE  \A s \in SUBSET R : Iter(f, S)[s] = Iter(h, R)[s] /\ Iter(f, S)[s] \in Int
<1> DEFINE T == {s \in SUBSET R : Iter(f, S)[s] = Iter(h, R)[s] /\ Iter(f, S)[s] \in Int}
<1>0. IsFiniteSet(R)
  BY FS_Subset
<1>1. ASSUME NEW A \in SUBSET R, \A B \in SUBSET A : B # A => B \in T
      PROVE  A \in T
  <2>1. /\ Iter(f, S)[A] = Folded(Iter(f, S), f, A)
        /\ Iter(h, R)[A] = Folded(Iter(h, R), h, A)
    BY <1>0, IterEquation
  <2>2. CASE A = {}
    BY <2>1, <2>2 DEF Folded
  <2>3. CASE A # {}
    <3>1. First(A) \in A
      BY <2>3 DEF First
    <3>2. A \ {First(A)} \in T
      BY <1>1, <3>1
    <3>3. /\ Iter(f, S)[A \ {First(A)}] = Iter(h, R)[A \ {First(A)}]
          /\ Iter(f, S)[A \ {First(A)}] \in Int
      BY <3>2
    <3>4. f[First(A)] = h[First(A)] /\ f[First(A)] \in Int
      BY <3>1
    <3> QED
      BY <2>1, <2>3, <3>3, <3>4 DEF Folded
  <2> QED
    BY <2>2, <2>3
<1>2. \A A \in SUBSET R : A \in T
  <2> HIDE DEF T
  <2> QED
    BY <1>0, <1>1, SubsetInduction
<1> QED
  BY <1>2

\* Any element may be taken out of the fold first.
LEMMA IterRemove ==
  ASSUME NEW S, IsFiniteSet(S), NEW f \in [S -> Int]
  PROVE  \A s \in SUBSET S : \A x \in s : Iter(f, S)[s] = f[x] + Iter(f, S)[s \ {x}]
<1> DEFINE I(s) == Iter(f, S)[s]
           T == {s \in SUBSET S : \A x \in s : I(s) = f[x] + I(s \ {x})}
<1>i. \A s \in SUBSET S : I(s) \in Int
  BY IterOfSubset
<1>1. ASSUME NEW A \in SUBSET S, \A B \in SUBSET A : B # A => B \in T
      PROVE  A \in T
  <2> SUFFICES ASSUME NEW x \in A PROVE I(A) = f[x] + I(A \ {x})
    OBVIOUS
  <2> DEFINE c == First(A)
  <2>1. c \in A /\ I(A) = f[c] + I(A \ {c})
    BY IterEquation DEF Folded, First
  <2>2. CASE c # x
    <3>1. I(A \ {c}) = f[x] + I((A \ {c}) \ {x})
      <4>1. A \ {c} \in T /\ x \in A \ {c}
        BY <1>1, <2>1, <2>2
      <4> QED
        BY <4>1
    <3>2. I(A \ {x}) = f[c] + I((A \ {x}) \ {c})
      <4>1. A \ {x} \in T /\ c \in A \ {x}
        BY <1>1, <2>1, <2>2
      <4> QED
        BY <4>1
    <3>3. (A \ {x}) \ {c} = (A \ {c}) \ {x}
      OBVIOUS
    <3>4. I((A \ {c}) \ {x}) \in Int /\ f[x] \in Int /\ f[c] \in Int
      BY <1>i, <2>1
    <3>5. I(A \ {x}) = f[c] + I((A \ {c}) \ {x})
      BY <3>2, <3>3
    <3>6. \A p, q, k \in Int : p + (q + k) = q + (p + k)
      OBVIOUS
    <3>7. f[c] + (f[x] + I((A \ {c}) \ {x})) = f[x] + (f[c] + I((A \ {c}) \ {x}))
      BY <3>4, <3>6
    <3> QED
      BY <2>1, <3>1, <3>5, <3>7
  <2> QED
    BY <2>1, <2>2
<1>2. \A A \in SUBSET S : A \in T
  <2> HIDE DEF T
  <2> QED
    BY <1>1, SubsetInduction
<1> QED
  BY <1>2

----------------------------------------------------------------------------
\* The sums themselves

\* The sum over nothing is zero.
LEMMA SumEmpty ==
  ASSUME NEW f, DOMAIN f = {} PROVE SumFunction(f) = 0
<1>1. \E g : g = [s \in SUBSET {} |-> Folded(g, f, s)]
  <2> WITNESS [s \in SUBSET {} |-> 0]
  <2> QED
    BY DEF Folded
<1>2. Iter(f, {}) = [s \in SUBSET {} |-> Folded(Iter(f, {}), f, s)]
  BY <1>1 DEF Iter
<1>3. Iter(f, {})[{}] = 0
  BY <1>2 DEF Folded
<1> QED
  BY <1>3, SumIsIter

\* A sum of integers is an integer.
LEMMA SumInt ==
  ASSUME NEW S, IsFiniteSet(S), NEW f \in [S -> Int]
  PROVE  SumFunction(f) \in Int
  BY IterOfSubset, SumIsIter

\* Any element may be taken out of a sum.
LEMMA SumRemove ==
  ASSUME NEW S, IsFiniteSet(S), NEW f \in [S -> Int], NEW x \in S,
         NEW h \in [S \ {x} -> Int], \A y \in S \ {x} : h[y] = f[y]
  PROVE  SumFunction(f) = f[x] + SumFunction(h)
<1>1. SumFunction(f) = f[x] + Iter(f, S)[S \ {x}]
  <2>1. SumFunction(f) = Iter(f, S)[S]
    BY SumIsIter
  <2>2. S \in SUBSET S
    OBVIOUS
  <2> QED
    BY <2>1, <2>2, IterRemove
<1>2. Iter(f, S)[S \ {x}] = Iter(h, S \ {x})[S \ {x}]
  BY IterOfSubset
<1> QED
  BY <1>1, <1>2, SumIsIter

\* One element more in the domain adds its value.
LEMMA SumAdd ==
  ASSUME NEW S, IsFiniteSet(S), NEW x, x \notin S, NEW h \in [S -> Int],
         NEW f \in [S \cup {x} -> Int], \A y \in S : f[y] = h[y]
  PROVE  SumFunction(f) = SumFunction(h) + f[x]
<1>1. IsFiniteSet(S \cup {x})
  BY FS_AddElement
<1>2. (S \cup {x}) \ {x} = S
  OBVIOUS
<1>3. SumFunction(f) = f[x] + SumFunction(h)
  BY <1>1, <1>2, SumRemove
<1>4. SumFunction(h) \in Int /\ f[x] \in Int
  BY SumInt
<1> QED
  BY <1>3, <1>4

\* A sum of natural numbers is one, and no part of it is larger.
LEMMA SumOfPart ==
  ASSUME NEW S, IsFiniteSet(S), NEW f \in [S -> Nat], NEW R \in SUBSET S
  PROVE  /\ SumFunction(f) \in Nat
         /\ SumFunction([x \in R |-> f[x]]) \in Nat
         /\ SumFunction([x \in R |-> f[x]]) <= SumFunction(f)
<1> DEFINE Part(A) == SumFunction([x \in A |-> f[x]])
           T == {A \in SUBSET S : Part(A) \in Nat /\ \A B \in SUBSET A : Part(B) <= Part(A)}
<1>0. \A A \in SUBSET S : IsFiniteSet(A)
  BY FS_Subset
<1>r. ASSUME NEW A \in SUBSET S, NEW x \in A
      PROVE  Part(A) = f[x] + Part(A \ {x})
  <2> DEFINE g == [y \in A |-> f[y]]
             h == [y \in A \ {x} |-> f[y]]
  <2>1. g \in [A -> Int] /\ h \in [A \ {x} -> Int] /\ \A y \in A \ {x} : h[y] = g[y]
    OBVIOUS
  <2>2. SumFunction(g) = g[x] + SumFunction(h)
    <3> HIDE DEF g, h
    <3> QED
      BY <1>0, <2>1, SumRemove
  <2> QED
    BY <2>2
<1>1. ASSUME NEW A \in SUBSET S, \A B \in SUBSET A : B # A => B \in T
      PROVE  A \in T
  <2>1. CASE A = {}
    <3>1. Part({}) = 0
      BY SumEmpty
    <3>2. \A B \in SUBSET A : B = {}
      BY <2>1
    <3> QED
      BY <2>1, <3>1, <3>2, SMTT(30)
  <2>2. CASE A # {}
    <3>1. PICK x \in A : TRUE
      BY <2>2
    <3>2. ASSUME NEW y \in A PROVE Part(A) \in Nat /\ Part(A \ {y}) <= Part(A)
      <4>1. A \ {y} \in T
        BY <1>1
      <4>2. Part(A \ {y}) \in Nat /\ f[y] \in Nat
        BY <4>1
      <4> HIDE DEF Part, T
      <4> QED
        BY <1>r, <4>2
    <3>3. ASSUME NEW B \in SUBSET A PROVE Part(B) <= Part(A)
      <4>1. CASE B = A
        <5>1. Part(A) \in Nat
          BY <3>1, <3>2
        <5> QED
          BY <4>1, <5>1
      <4>2. CASE B # A
        <5>1. PICK y \in A : y \notin B
          BY <4>2
        <5>2. A \ {y} \in T /\ B \in SUBSET (A \ {y}) /\ B \in T
          BY <1>1, <4>2, <5>1
        <5>3. Part(B) <= Part(A \ {y}) /\ Part(B) \in Nat /\ Part(A \ {y}) \in Nat
          BY <5>2
        <5>4. Part(A \ {y}) <= Part(A) /\ Part(A) \in Nat
          BY <3>2, <5>1
        <5> HIDE DEF Part, T
        <5> QED
          BY <5>3, <5>4
      <4> QED
        BY <4>1, <4>2
    <3> QED
      BY <3>1, <3>2, <3>3
  <2> QED
    BY <2>1, <2>2
<1>2. \A A \in SUBSET S : A \in T
  <2> HIDE DEF T
  <2> QED
    BY <1>1, SubsetInduction
<1>3. R \in T /\ S \in T /\ f = [x \in S |-> f[x]]
  BY <1>2
<1>4. Part(S) = SumFunction(f)
  BY <1>3
<1> QED
  BY <1>3, <1>4

\* Any element may be taken out of the sum over a part of a domain.
LEMMA SumPartRemove ==
  ASSUME NEW S, IsFiniteSet(S), NEW f \in [S -> Int]
  PROVE  \A A \in SUBSET S : \A x \in A :
           SumFunction([y \in A |-> f[y]]) = f[x] + SumFunction([y \in A \ {x} |-> f[y]])
<1>1. ASSUME NEW A \in SUBSET S
      PROVE  SumFunction([y \in A |-> f[y]]) = Iter(f, S)[A]
  <2> DEFINE p == [y \in A |-> f[y]]
  <2>1. p \in [A -> Int] /\ DOMAIN p = A /\ (\A y \in A : p[y] = f[y]) /\ A \in SUBSET A
    OBVIOUS
  <2>2. SumFunction(p) = Iter(p, A)[A]
    <3> HIDE DEF p
    <3> QED
      BY <2>1, SumIsIter
  <2>3. Iter(f, S)[A] = Iter(p, A)[A]
    <3> HIDE DEF p
    <3> QED
      BY <2>1, IterOfSubset
  <2> QED
    BY <2>2, <2>3
<1>2. \A A \in SUBSET S : \A x \in A :
        Iter(f, S)[A] = f[x] + Iter(f, S)[A \ {x}]
  BY IterRemove
<1> QED
  <2> TAKE A \in SUBSET S
  <2> TAKE x \in A
  <2>1. A \ {x} \in SUBSET S
    OBVIOUS
  <2> QED
    BY <1>1, <1>2, <2>1

\* A sum may be taken over the names of the elements instead of the elements.
LEMMA SumImage ==
  ASSUME NEW S, IsFiniteSet(S), NEW R, IsFiniteSet(R), NEW k \in [S -> R],
         R = {k[x] : x \in S},
         \A x, y \in S : k[x] = k[y] => x = y,
         NEW f \in [S -> Nat], NEW g \in [R -> Nat], \A x \in S : g[k[x]] = f[x]
  PROVE  SumFunction(f) = SumFunction(g)
<1> DEFINE Img(A) == {k[x] : x \in A}
           SumF(A) == SumFunction([x \in A |-> f[x]])
           SumG(B) == SumFunction([y \in B |-> g[y]])
           T == {A \in SUBSET S : SumF(A) = SumG(Img(A))}
<1>0. f \in [S -> Int] /\ g \in [R -> Int]
  OBVIOUS
<1>f. \A A \in SUBSET S : \A x \in A :
        SumFunction([y \in A |-> f[y]]) = f[x] + SumFunction([y \in A \ {x} |-> f[y]])
  BY ONLY IsFiniteSet(S), <1>0, SumPartRemove
<1>g. \A B \in SUBSET R : \A z \in B :
        SumFunction([y \in B |-> g[y]]) = g[z] + SumFunction([y \in B \ {z} |-> g[y]])
  BY ONLY IsFiniteSet(R), <1>0, SumPartRemove
<1>1. \A A \in SUBSET S : \A x \in A : SumF(A) = f[x] + SumF(A \ {x})
  BY ONLY <1>f
<1>h. \A B \in SUBSET R : \A z \in B : SumG(B) = g[z] + SumG(B \ {z})
  BY ONLY <1>g
<1>2. ASSUME NEW A \in SUBSET S, NEW x \in A
      PROVE  SumG(Img(A)) = f[x] + SumG(Img(A \ {x}))
  <2>1. Img(A) \in SUBSET R /\ k[x] \in Img(A)
    OBVIOUS
  <2>2. SumG(Img(A)) = g[k[x]] + SumG(Img(A) \ {k[x]})
    <3> HIDE DEF Img, SumG
    <3> QED
      BY <2>1, <1>h
  <2>3. Img(A) \ {k[x]} = Img(A \ {x}) /\ g[k[x]] = f[x]
    OBVIOUS
  <2> QED
    BY <2>2, <2>3
<1>3. ASSUME NEW A \in SUBSET S, \A B \in SUBSET A : B # A => B \in T
      PROVE  A \in T
  <2>1. CASE A = {}
    <3>1. Img(A) = {}
      BY <2>1
    <3>2. SumF(A) = 0 /\ SumG(Img(A)) = 0
      BY <2>1, <3>1, SumEmpty
    <3> QED
      BY <3>2
  <2>2. CASE A # {}
    <3>1. PICK x \in A : TRUE
      BY <2>2
    <3>2. A \ {x} \in T
      BY <1>3, <3>1
    <3>3. SumF(A \ {x}) = SumG(Img(A \ {x}))
      BY <3>2
    <3>4. SumF(A) = SumG(Img(A))
      <4> HIDE DEF SumF, SumG, Img, T
      <4> QED
        BY <1>1, <1>2, <3>3
    <3> QED
      BY <3>4
  <2> QED
    BY <2>1, <2>2
<1>4. S \in T
  <2>1. \A A \in SUBSET S : A \in T
    <3> HIDE DEF T
    <3> QED
      BY <1>3, SubsetInduction
  <2> QED
    BY <2>1
<1>5. f = [x \in S |-> f[x]] /\ g = [y \in R |-> g[y]] /\ Img(S) = R
  OBVIOUS
<1>6. SumF(S) = SumG(Img(S))
  BY <1>4
<1> QED
  BY <1>5, <1>6

\* A list that grows by one element.
LEMMA SumNext ==
  ASSUME NEW k \in Nat, NEW g \in [1 .. (k + 1) -> Int], NEW h \in [1 .. k -> Int],
         \A j \in 1 .. k : g[j] = h[j]
  PROVE  SumFunction(g) = SumFunction(h) + g[k + 1]
<1> DEFINE S == 1 .. k
           x == k + 1
<1>1. x \notin S /\ 1 .. (k + 1) = S \cup {x}
  OBVIOUS
<1>2. IsFiniteSet(S)
  BY FS_Interval
<1>3. g \in [S \cup {x} -> Int] /\ h \in [S -> Int] /\ \A y \in S : g[y] = h[y]
  BY <1>1
<1>4. SumFunction(g) = SumFunction(h) + g[x]
  <2> HIDE DEF S, x
  <2>1. \A a \in [S -> Int], b \in [S \cup {x} -> Int] :
          (\A y \in S : b[y] = a[y]) => SumFunction(b) = SumFunction(a) + b[x]
    BY <1>1, <1>2, SumAdd
  <2> QED
    BY <1>3, <2>1
<1> QED
  BY <1>4

\* The last prefix sum is the sum: a loop that adds up a list computes SumFunction.
LEMMA PrefixSum ==
  ASSUME NEW n \in Nat, NEW f \in [1 .. n -> Int], NEW p \in [0 .. n -> Int],
         p[0] = 0, \A k \in 1 .. n : p[k] = p[k - 1] + f[k]
  PROVE  SumFunction(f) = p[n]
<1> DEFINE Part(k) == [j \in 1 .. k |-> f[j]]
           P == {k \in Nat : k <= n => SumFunction(Part(k)) = p[k]}
<1>1. 0 \in P
  <2>1. DOMAIN Part(0) = {}
    OBVIOUS
  <2>2. SumFunction(Part(0)) = 0
    <3> HIDE DEF Part
    <3> QED
      BY <2>1, SumEmpty
  <2> QED
    BY <2>2
<1>2. ASSUME NEW k \in Nat, SumFunction(Part(k)) = p[k], k + 1 <= n
      PROVE  SumFunction(Part(k + 1)) = p[k + 1]
  <2>1. k + 1 \in 1 .. n /\ \A j \in 1 .. (k + 1) : f[j] \in Int
    BY <1>2
  <2>2. /\ Part(k) \in [1 .. k -> Int] /\ Part(k + 1) \in [1 .. (k + 1) -> Int]
        /\ \A j \in 1 .. k : Part(k + 1)[j] = Part(k)[j]
        /\ Part(k + 1)[k + 1] = f[k + 1]
    BY <2>1
  <2>3. SumFunction(Part(k + 1)) = SumFunction(Part(k)) + Part(k + 1)[k + 1]
    <3> HIDE DEF Part
    <3> QED
      BY <2>2, SumNext
  <2>4. p[k + 1] = p[k] + f[k + 1]
    <3>1. p[k + 1] = p[(k + 1) - 1] + f[k + 1]
      BY <2>1
    <3>2. (k + 1) - 1 = k
      BY Z3
    <3> QED
      BY <3>1, <3>2
  <2> QED
    BY <1>2, <2>2, <2>3, <2>4
<1>3. P = Nat
  <2>1. ASSUME NEW k \in P PROVE k + 1 \in P
    <3>1. k \in Nat /\ (k <= n => SumFunction(Part(k)) = p[k])
      OBVIOUS
    <3>2. k + 1 <= n => SumFunction(Part(k + 1)) = p[k + 1]
      <4> HIDE DEF Part
      <4> QED
        BY <3>1, <1>2
    <3> QED
      BY <3>1, <3>2
  <2>2. P \subseteq Nat
    OBVIOUS
  <2> HIDE DEF P
  <2> QED
    BY <1>1, <2>1, <2>2, NumberInduction
<1>4. n \in P
  BY <1>3
<1>5. Part(n) = f
  OBVIOUS
<1> QED
  BY <1>4, <1>5

----------------------------------------------------------------------------
\* Quotients

\* Division by a positive number rounds down.
LEMMA DivBounds ==
  ASSUME NEW a \in Nat, NEW b \in Nat, b > 0
  PROVE  /\ a \div b \in Nat
         /\ b * (a \div b) <= a
         /\ a < b * (a \div b) + b
BY Z3

\* A dividend below the divisor: QuoRem of the leftover gives avg = 0.
LEMMA SmallDiv ==
  ASSUME NEW a \in Nat, NEW b \in Nat, a < b
  PROVE  a \div b = 0 /\ a % b = a
BY Z3

\* Products of naturals are naturals.
LEMMA MulNat ==
  ASSUME NEW a \in Nat, NEW b \in Nat
  PROVE  a * b \in Nat
BY Z3

\* Multiplication distributes over addition: for the prefix sums of the shares.
LEMMA Distribute ==
  ASSUME NEW a \in Int, NEW b \in Int, NEW c \in Int
  PROVE  a * (b + c) = a * b + a * c
BY Z3

\* Multiplication keeps the order.
LEMMA MulMono ==
  ASSUME NEW a \in Nat, NEW b \in Int, NEW c \in Int, b <= c
  PROVE  a * b <= a * c
BY Z3

\* A common positive factor can be dropped from a strict inequality.
LEMMA MulCancel ==
  ASSUME NEW a \in Nat, a > 0, NEW b \in Int, NEW c \in Int, a * b < a * c
  PROVE  b < c
BY MulMono, Z3

\* Fewer than n units are left when n rounding errors make up the difference.
LEMMA LeftoverSmall ==
  ASSUME NEW T \in Nat, NEW S \in Nat, S > 0, NEW f \in Nat, NEW m \in Nat, m > 0,
         S * f <= T * S, T * S <= S * f + m * (S - 1)
  PROVE  f <= T /\ T < f + m
<1>1. S * T = T * S /\ S \in Int /\ f \in Int /\ T \in Int /\ m \in Int
  BY Z3
<1>2. f <= T
  <2>1. SUFFICES ASSUME T < f PROVE FALSE
    BY <1>1
  <2>2. S * (T + 1) <= S * f
    BY <2>1, MulMono
  <2>3. S * (T + 1) = S * T + S
    BY Distribute, Z3
  <2>4. QED BY <2>2, <2>3, <1>1, MulNat
<1>3. T < f + m
  <2>1. m * (S - 1) = m * S - m
    BY Z3
  <2>2. S * (f + m) = S * f + S * m
    BY Distribute
  <2>3. S * m = m * S
    BY Z3
  <2>4. S * f \in Int /\ S * T \in Int /\ S * m \in Int
    BY MulNat
  <2>5. S * T < S * (f + m)
    BY <1>1, <2>1, <2>2, <2>3, <2>4
  <2>6. QED BY <2>5, MulCancel
<1>4. QED BY <1>2, <1>3

\* A quotient is determined by its bounds.
LEMMA DivUnique ==
  ASSUME NEW a \in Nat, NEW b \in Nat, b > 0, NEW q \in Nat, b * q <= a, a < b * q + b
  PROVE  a \div b = q
<1> DEFINE d == a \div b
<1>1. d \in Nat /\ b * d <= a /\ a < b * d + b
  BY DivBounds
<1> HIDE DEF d
<1>2. b * (d + 1) = b * d + b /\ b * (q + 1) = b * q + b
  BY <1>1, Distribute, Z3
<1>3. b * d \in Nat /\ b * q \in Nat
  BY <1>1, MulNat
<1>4. b * q < b * (d + 1) /\ b * d < b * (q + 1)
  BY <1>1, <1>2, <1>3
<1>5. q < d + 1 /\ d < q + 1
  BY <1>1, <1>4, MulCancel
<1> QED
  BY <1>1, <1>5 DEF d

----------------------------------------------------------------------------
\* Sums of lists

\* Every list of numbers has prefix sums, and the last is the sum.
LEMMA PrefixExists ==
  ASSUME NEW n \in Nat, NEW f \in [1 .. n -> Int]
  PROVE  \E p \in [0 .. n -> Int] :
           /\ p[0] = 0 /\ p[n] = SumFunction(f)
           /\ \A k \in 1 .. n : p[k] = p[k - 1] + f[k]
<1> DEFINE Part(k) == [j \in 1 .. k |-> f[j]]
           p == [k \in 0 .. n |-> SumFunction(Part(k))]
<1>1. ASSUME NEW k \in 0 .. n PROVE Part(k) \in [1 .. k -> Int] /\ SumFunction(Part(k)) \in Int
  <2>1. Part(k) \in [1 .. k -> Int] /\ IsFiniteSet(1 .. k)
    BY FS_Interval
  <2> HIDE DEF Part
  <2> QED
    BY <2>1, SumInt
<1>2. p \in [0 .. n -> Int]
  <2> HIDE DEF Part
  <2> QED
    BY <1>1
<1>3. SumFunction(Part(0)) = 0
  <2>1. DOMAIN Part(0) = {}
    OBVIOUS
  <2> HIDE DEF Part
  <2> QED
    BY <2>1, SumEmpty
<1>4. Part(n) = f
  OBVIOUS
<1>5. ASSUME NEW k \in 1 .. n PROVE p[k] = p[k - 1] + f[k]
  <2>1. k - 1 \in Nat /\ k - 1 \in 0 .. n /\ k \in 0 .. n /\ (k - 1) + 1 = k
    OBVIOUS
  <2>2. (\A j \in 1 .. (k - 1) : Part(k)[j] = Part(k - 1)[j]) /\ Part(k)[k] = f[k]
    OBVIOUS
  <2>3. SumFunction(Part(k)) = SumFunction(Part(k - 1)) + f[k]
    <3> HIDE DEF Part, p
    <3>1. Part(k) \in [1 .. ((k - 1) + 1) -> Int] /\ Part(k - 1) \in [1 .. (k - 1) -> Int]
      BY <1>1, <2>1
    <3>2. \A g \in [1 .. ((k - 1) + 1) -> Int], h \in [1 .. (k - 1) -> Int] :
            (\A j \in 1 .. (k - 1) : g[j] = h[j])
              => SumFunction(g) = SumFunction(h) + g[(k - 1) + 1]
      BY <2>1, SumNext
    <3> QED
      BY <2>1, <2>2, <3>1, <3>2
  <2> HIDE DEF Part
  <2> QED
    BY <2>1, <2>3
<1>6. p[0] = 0 /\ p[n] = SumFunction(f)
  <2> HIDE DEF Part
  <2> QED
    BY <1>3, <1>4
<1> HIDE DEF Part, p
<1> QED
  BY <1>2, <1>5, <1>6

\* The sum of sums
LEMMA SumPlus ==
  ASSUME NEW n \in Nat, NEW f \in [1 .. n -> Int], NEW g \in [1 .. n -> Int],
         NEW h \in [1 .. n -> Int], \A k \in 1 .. n : h[k] = f[k] + g[k]
  PROVE  SumFunction(h) = SumFunction(f) + SumFunction(g)
<1>1. PICK p \in [0 .. n -> Int] :
        /\ p[0] = 0 /\ p[n] = SumFunction(f)
        /\ \A k \in 1 .. n : p[k] = p[k - 1] + f[k]
  BY PrefixExists
<1>2. PICK q \in [0 .. n -> Int] :
        /\ q[0] = 0 /\ q[n] = SumFunction(g)
        /\ \A k \in 1 .. n : q[k] = q[k - 1] + g[k]
  BY PrefixExists
<1> DEFINE r == [k \in 0 .. n |-> p[k] + q[k]]
<1>3. r \in [0 .. n -> Int] /\ r[0] = 0 /\ r[n] = p[n] + q[n]
  BY <1>1, <1>2
<1>4. ASSUME NEW k \in 1 .. n PROVE r[k] = r[k - 1] + h[k]
  <2>1. /\ k \in 0 .. n /\ k - 1 \in 0 .. n /\ f[k] \in Int /\ g[k] \in Int
        /\ p[k - 1] \in Int /\ q[k - 1] \in Int
    OBVIOUS
  <2>2. r[k] = p[k] + q[k] /\ r[k - 1] = p[k - 1] + q[k - 1]
    BY <2>1
  <2>3. p[k] = p[k - 1] + f[k] /\ q[k] = q[k - 1] + g[k] /\ h[k] = f[k] + g[k]
    BY <1>1, <1>2
  <2> HIDE DEF r
  <2> QED
    BY <2>1, <2>2, <2>3
<1> HIDE DEF r
<1>5. SumFunction(h) = r[n]
  BY <1>3, <1>4, PrefixSum
<1> QED
  BY <1>1, <1>2, <1>3, <1>5

\* The sum of multiples
LEMMA SumScale ==
  ASSUME NEW n \in Nat, NEW c \in Int, NEW f \in [1 .. n -> Int],
         NEW h \in [1 .. n -> Int], \A k \in 1 .. n : h[k] = c * f[k]
  PROVE  SumFunction(h) = c * SumFunction(f)
<1>1. PICK p \in [0 .. n -> Int] :
        /\ p[0] = 0 /\ p[n] = SumFunction(f)
        /\ \A k \in 1 .. n : p[k] = p[k - 1] + f[k]
  BY PrefixExists
<1> DEFINE r == [k \in 0 .. n |-> c * p[k]]
<1>2. \A a, b \in Int : a * b \in Int /\ a * 0 = 0
  BY Z3
<1>3. r \in [0 .. n -> Int] /\ r[0] = 0 /\ r[n] = c * p[n]
  BY <1>1, <1>2
<1>4. ASSUME NEW k \in 1 .. n PROVE r[k] = r[k - 1] + h[k]
  <2>1. k \in 0 .. n /\ k - 1 \in 0 .. n /\ f[k] \in Int /\ p[k - 1] \in Int
    OBVIOUS
  <2>2. r[k] = c * p[k] /\ r[k - 1] = c * p[k - 1]
    BY <2>1
  <2>3. c * (p[k - 1] + f[k]) = c * p[k - 1] + c * f[k]
    BY <2>1, Distribute
  <2>4. p[k] = p[k - 1] + f[k] /\ h[k] = c * f[k]
    BY <1>1
  <2> HIDE DEF r
  <2> QED
    BY <2>2, <2>3, <2>4
<1> HIDE DEF r
<1>5. SumFunction(h) = r[n]
  BY <1>3, <1>4, PrefixSum
<1> QED
  BY <1>1, <1>3, <1>5

\* The sum of n equal numbers
LEMMA SumConst ==
  ASSUME NEW n \in Nat, NEW c \in Int, NEW f \in [1 .. n -> Int], \A k \in 1 .. n : f[k] = c
  PROVE  SumFunction(f) = n * c
<1> DEFINE r == [k \in 0 .. n |-> k * c]
<1>2. \A a, b \in Int : a * b \in Int /\ 0 * b = 0
  BY Z3
<1>3. r \in [0 .. n -> Int] /\ r[0] = 0 /\ r[n] = n * c
  BY <1>2
<1>4. ASSUME NEW k \in 1 .. n PROVE r[k] = r[k - 1] + f[k]
  <2>1. k \in Int /\ k \in 0 .. n /\ k - 1 \in 0 .. n
    OBVIOUS
  <2>2. k * c = (k - 1) * c + c
    BY <2>1, Z3
  <2>3. r[k] = k * c /\ r[k - 1] = (k - 1) * c
    BY <2>1
  <2> HIDE DEF r
  <2> QED
    BY <2>2, <2>3
<1> HIDE DEF r
<1>5. SumFunction(f) = r[n]
  BY <1>3, <1>4, PrefixSum
<1> QED
  BY <1>3, <1>5

\* The sum of natural numbers is one.
LEMMA SumNat ==
  ASSUME NEW n \in Nat, NEW f \in [1 .. n -> Nat]
  PROVE  SumFunction(f) \in Nat
<1>1. IsFiniteSet(1 .. n)
  BY FS_Interval
<1>2. \A S : IsFiniteSet(S) => \A h \in [S -> Nat] : SumFunction(h) \in Nat
  <2> SUFFICES ASSUME NEW S, IsFiniteSet(S), NEW h \in [S -> Nat]
               PROVE  SumFunction(h) \in Nat
    OBVIOUS
  <2>1. S \in SUBSET S
    OBVIOUS
  <2> QED
    BY <2>1, SumOfPart
<1> QED
  BY <1>1, <1>2

\* A larger list has the larger sum.
LEMMA SumMono ==
  ASSUME NEW n \in Nat, NEW f \in [1 .. n -> Int], NEW g \in [1 .. n -> Int],
         \A k \in 1 .. n : f[k] <= g[k]
  PROVE  SumFunction(f) <= SumFunction(g)
<1> DEFINE d == [k \in 1 .. n |-> g[k] - f[k]]
<1>1. /\ d \in [1 .. n -> Int] /\ d \in [1 .. n -> Nat]
      /\ \A k \in 1 .. n : g[k] = f[k] + d[k]
  OBVIOUS
<1>2. IsFiniteSet(1 .. n)
  BY FS_Interval
<1> HIDE DEF d
<1>3. SumFunction(g) = SumFunction(f) + SumFunction(d)
  BY <1>1, SumPlus
<1>4. SumFunction(d) \in Nat
  BY <1>1, SumNat
<1>5. SumFunction(f) \in Int
  BY <1>2, SumInt
<1> QED
  BY <1>3, <1>4, <1>5

\* No element of a list of natural numbers is larger than its sum.
LEMMA SumMember ==
  ASSUME NEW n \in Nat, NEW f \in [1 .. n -> Nat], NEW k \in 1 .. n
  PROVE  f[k] <= SumFunction(f) /\ SumFunction(f) \in Nat
<1> DEFINE S == 1 .. n
           R == S \ {k}
<1>1. IsFiniteSet(S) /\ R \in SUBSET S /\ f \in [S -> Nat] /\ f \in [S -> Int]
  BY FS_Interval
<1>2. \A A \in SUBSET S : SumFunction([x \in A |-> f[x]]) \in Nat /\ SumFunction(f) \in Nat
  <2> HIDE DEF S
  <2> QED
    BY <1>1, SumOfPart
<1>3. \A A \in SUBSET S : \A x \in A :
        SumFunction([y \in A |-> f[y]]) = f[x] + SumFunction([y \in A \ {x} |-> f[y]])
  <2> HIDE DEF S
  <2> QED
    BY <1>1, SumPartRemove
<1>4. [x \in S |-> f[x]] = f /\ S \in SUBSET S /\ k \in S /\ f[k] \in Nat
  OBVIOUS
<1>5. SumFunction(f) = f[k] + SumFunction([y \in R |-> f[y]])
  <2> HIDE DEF S
  <2>1. SumFunction([y \in S |-> f[y]]) = f[k] + SumFunction([y \in S \ {k} |-> f[y]])
    BY <1>3, <1>4
  <2> QED
    BY <1>4, <2>1
<1>6. SumFunction([y \in R |-> f[y]]) \in Nat
  BY <1>1, <1>2
<1> HIDE DEF R, S
<1> QED
  BY <1>1, <1>2, <1>4, <1>5, <1>6

\* The size of a set of numbers is the sum of its indicator.
LEMMA SumIndicator ==
  ASSUME NEW n \in Nat, NEW E \in SUBSET (1 .. n), NEW f \in [1 .. n -> Int],
         \A k \in 1 .. n : f[k] = IF k \in E THEN 1 ELSE 0
  PROVE  SumFunction(f) = Cardinality(E) /\ Cardinality(E) \in Nat
<1> DEFINE Upto(k) == {j \in E : j <= k}
           p == [k \in 0 .. n |-> Cardinality(Upto(k))]
<1>0. /\ Upto(0) = {} /\ Upto(n) = E /\ \A j \in E : j \in Int
      /\ \A k : Upto(k) \subseteq E
      /\ \A k \in 1 .. n : Upto(k) = IF k \in E THEN Upto(k - 1) \cup {k} ELSE Upto(k - 1)
  <2>1. \A j \in E : j \in Int /\ 1 <= j /\ j <= n
    OBVIOUS
  <2>2. Upto(0) = {} /\ Upto(n) = E
    <3>1. \A j \in E : ~(j <= 0) /\ j <= n
      BY <2>1
    <3> QED
      BY <3>1, Zenon
  <2>3. ASSUME NEW k \in 1 .. n
        PROVE  Upto(k) = IF k \in E THEN Upto(k - 1) \cup {k} ELSE Upto(k - 1)
    <3>1. \A j \in E : j <= k <=> j <= k - 1 \/ j = k
      BY <2>1
    <3>2. CASE k \in E
      BY <3>1, <3>2
    <3>3. CASE k \notin E
      BY <3>1, <3>3
    <3> QED
      BY <3>2, <3>3
  <2> QED
    BY <2>1, <2>2, <2>3
<1>1. IsFiniteSet(E)
  <2>1. IsFiniteSet(1 .. n)
    BY FS_Interval
  <2> QED
    BY <2>1, FS_Subset
<1>2. \A k \in 0 .. n : IsFiniteSet(Upto(k)) /\ Cardinality(Upto(k)) \in Nat
  BY <1>1, FS_Subset, FS_CardinalityType
<1> HIDE DEF Upto
<1>3. p \in [0 .. n -> Int]
  BY <1>2
<1>4. p[0] = 0
  <2>1. Upto(0) = {} /\ p[0] = Cardinality(Upto(0))
    BY <1>0
  <2> HIDE DEF p
  <2> QED
    BY <2>1, FS_EmptySet
<1>5. p[n] = Cardinality(E)
  <2>1. Upto(n) = E /\ p[n] = Cardinality(Upto(n))
    BY <1>0
  <2> HIDE DEF p
  <2> QED
    BY <2>1
<1>6. ASSUME NEW k \in 1 .. n PROVE p[k] = p[k - 1] + f[k]
  <2>1. /\ k \in 0 .. n /\ k - 1 \in 0 .. n
        /\ p[k] = Cardinality(Upto(k)) /\ p[k - 1] = Cardinality(Upto(k - 1))
    OBVIOUS
  <2>2. CASE k \in E
    <3>1. Upto(k) = Upto(k - 1) \cup {k} /\ k \notin Upto(k - 1)
      <4>1. ~(k <= k - 1)
        OBVIOUS
      <4> QED
        BY <1>0, <2>2, <4>1 DEF Upto
    <3>2. IsFiniteSet(Upto(k - 1)) /\ Cardinality(Upto(k - 1)) \in Nat
      BY <1>2, <2>1
    <3> HIDE DEF Upto, p
    <3>3. Cardinality(Upto(k)) = Cardinality(Upto(k - 1)) + 1
      BY <3>1, <3>2, FS_AddElement
    <3> QED
      BY <2>1, <2>2, <3>3
  <2>3. CASE k \notin E
    <3>1. Upto(k) = Upto(k - 1)
      BY <1>0, <2>3
    <3>2. Cardinality(Upto(k)) \in Nat
      BY <1>2, <2>1
    <3> HIDE DEF Upto, p
    <3> QED
      BY <2>1, <2>3, <3>1, <3>2
  <2> QED
    BY <2>2, <2>3
<1> HIDE DEF p
<1>7. SumFunction(f) = p[n]
  BY <1>3, <1>4, <1>6, PrefixSum
<1> QED
  BY <1>1, <1>5, <1>7, FS_CardinalityType

\* A sum of zeros is zero.
LEMMA SumZero ==
  ASSUME NEW n \in Nat, NEW f \in [1 .. n -> Int], \A k \in 1 .. n : f[k] = 0
  PROVE  SumFunction(f) = 0
<1>1. SumFunction(f) = n * 0
  BY SumConst
<1> QED
  BY <1>1
=============================================================================
