------------------------- MODULE CycleRunnerProofs -------------------------
(***************************************************************************)
(* Theorems about the distribution job (CycleRunner), for every            *)
(* configuration and every length of the chain: no height is settled       *)
(* twice, rewards come from final blocks only, the volume goroutine leaves *)
(* no hole, a cycle's sample can be drawn again, and the goroutines stay   *)
(* on the cycles of the configuration, where no sum of theirs wraps.       *)
(*                                                                         *)
(* The argument is one of alignment: cycles and steps are laid out from    *)
(* the start height on, so two of them are the same or apart; what was     *)
(* settled lies in units that ended far enough below the head; and a job   *)
(* that is started looks for the first cycle that had not.                 *)
(***************************************************************************)
EXTENDS CycleRunner, TLAPS

\* The two conditions on a configuration that the code does not check and the
\* theorems need.  When the job is started before the start height is stable, the
\* unsigned subtraction of calcCurCycleStart wraps, and the cycles it walks through
\* need not be those a later start finds.  And when no stable height is configured at
\* all, a quick job that is started again at the very end of a step settles the step
\* again (start + step < latest is strict).
StartsInTime(s) ==
  s.enable => /\ s.start + CheckDistribute(s).stable <= s.firstHead
              /\ s.quick => s.stable + s.syncStable > 0

----------------------------------------------------------------------------
\* The inductive invariant

\* settleVolumeRewards goes through a cycle in units: its steps, or all at once
Unit == IF Quick THEN StepLen ELSE CycleLen

\* Heights at which a unit, or a cycle, starts
Aligned(a) == a >= Start /\ (a - Start) % Unit = 0
OnCycle(a) == a >= Start /\ (a - Start) % CycleLen = 0

\* A unit that ends at e can be settled
Deep(e) == e + Stable + SyncStable <= head

InUnit(h, a) == Aligned(a) /\ a <= h /\ h < a + Unit

Heights == 0 .. MaxHead

Settling == {"wait", "seed", "draw", "send"}

\* Types, and the constant part of the state
Types ==
  /\ setup \in Setups
  /\ TypeOK
  /\ seed \in [block : Height, draws : Nat]
  /\ setup.firstHead <= head
  /\ running => setup.enable
  /\ cpc /= "off" => call \in setup.calls

\* Where the volume goroutine is
VolumeInv ==
  /\ vpc /= "off" => running /\ OnCycle(vstart) /\ vstart <= head
  /\ vpc \in {"seed", "draw"} => VolumeDraws
  /\ vpc = "step" => Quick
  /\ vpc \in {"step"} \cup Settling => Aligned(vcur) /\ vcur <= head /\ vlatest <= head
  /\ vpc \in {"seed", "draw", "send"} => Deep(vcur + Unit)
  /\ vpc \in Settling /\ ~Quick => vcur = vstart

\* What was settled lies in units that were deep, and not at or above the unit the
\* volume goroutine is about to settle
PaidInv ==
  /\ \A h \in Heights : paid[h] > 0 => \E a \in Heights : InUnit(h, a) /\ Deep(a + Unit)
  /\ \A h \in Heights : paid[h] <= 1
  /\ vpc \in Settling => \A h \in Heights : h >= vcur => paid[h] = 0
  /\ vpc = "cycle" /\ ~Quick => \A h \in Heights : h >= vstart => paid[h] = 0
  /\ vpc = "step" =>
       \A h \in Heights : paid[h] > 0 =>
         h < vcur \/ \E a \in Heights : InUnit(h, a) /\ a + Unit < vlatest

\* Between the first cycle and the one the goroutine is in, nothing is left out, be
\* the job running or not
PassedInv ==
  ~Quick /\ TradeExchanges /= {} =>
    \A h \in first .. (vstart - 1) : paid[h] > 0 \/ h \in lost

\* The command has settled the part of its range below ccur
Recalced(h) == IF TradeExchanges /= {} /\ CalcVolumes(call) /\ h \in call.start .. (ccur - 1)
                 THEN 1 ELSE 0

CalcInv ==
  /\ \A h \in Heights : recalced[h] <= 1 /\ (recalced[h] > 0 => Deep(h + 1))
  /\ cpc = "off" => \A h \in Heights : recalced[h] = 0
  /\ cpc \in {"volume", "liquid", "done"} =>
       \A h \in Heights : recalced[h] = Recalced(h)
  /\ cpc = "volume" =>
       /\ CalcVolumes(call)
       /\ call.start <= ccur /\ ccur <= call.end
       /\ (call.end - ccur) % Unit = 0
       /\ ~Quick => ccur + Unit = call.end \/ ccur = call.end
  /\ cpc \in {"liquid", "done"} /\ CalcVolumes(call) => ccur = call.end

\* The sample of a cycle when nobody else draws
Repeatable == Archive /\ ~VolumeDraws
CycleSample(start) == RandomSample(start, Seeded(start))

LiquidInv ==
  /\ lpc /= "off" => lstart <= head
  /\ Repeatable =>
       /\ lpc \in {"draw", "drawAgain"} => seed = Seeded(lstart)
       /\ lpc \in {"waitSample", "seedAgain", "drawAgain", "send"} =>
            sample = CycleSample(lstart)
       /\ lpc \in {"seedAgain", "drawAgain", "send"} => Deep(sample)

\* The liquidity goroutine is in a cycle of the layout
CycleInv == lpc /= "off" => OnCycle(lstart)

\* What is known of the liquidity rewards that were sent
SentInv ==
  /\ \A s \in lsent : s.sample \in Nat /\ s.head \in Nat
  /\ Repeatable => \A s \in lsent : ~s.given => s.sample = CycleSample(s.cycle)
  /\ Archive => \A s \in lsent :
       \/ s.by = "job" /\ VolumeDraws
       \/ s.by = "calcRewards" /\ ~s.given
       \/ s.sample + Stable + SyncStable <= s.head

IInv ==
  /\ Types
  /\ VolumeInv
  /\ PaidInv
  /\ PassedInv
  /\ CalcInv
  /\ LiquidInv
  /\ CycleInv
  /\ SentInv

----------------------------------------------------------------------------
\* Arithmetic

\* The product of lengths and counts is a length.
LEMMA Product ==
  ASSUME NEW k \in Nat, NEW u \in Nat
  PROVE  k * u \in Nat
BY Z3

\* A distance that divides is a number of units, and the other way round.
LEMMA Multiple ==
  ASSUME NEW x \in Nat, NEW u \in Nat, u > 0
  PROVE  x % u = 0 <=> \E k \in Nat : x = k * u
<1>1. ASSUME x % u = 0 PROVE \E k \in Nat : x = k * u
  <2>1. x \div u \in Nat
    BY Z3
  <2>2. x = u * (x \div u)
    BY <1>1, Z3
  <2>3. x = (x \div u) * u
    BY <2>1, <2>2, Z3
  <2> QED
    BY <2>1, <2>3
<1>2. ASSUME NEW k \in Nat, x = k * u PROVE x % u = 0
  BY <1>2, Z3
<1> QED
  BY <1>1, <1>2

\* One unit on, a multiple is a multiple.
LEMMA NextMultiple ==
  ASSUME NEW x \in Nat, NEW u \in Nat, u > 0, x % u = 0
  PROVE  (x + u) % u = 0
<1>1. PICK k \in Nat : x = k * u
  BY Multiple
<1>2. x + u = (k + 1) * u
  BY <1>1, Z3
<1> QED
  BY <1>2, Multiple, k + 1 \in Nat, x + u \in Nat

\* Two multiples are the same or a unit apart.
LEMMA MultiplesApart ==
  ASSUME NEW x \in Nat, NEW y \in Nat, NEW u \in Nat, u > 0,
         x % u = 0, y % u = 0, x < y
  PROVE  x + u <= y /\ (y - x) % u = 0 /\ (y - (x + u)) % u = 0
<1>1. PICK k \in Nat : x = k * u
  BY Multiple
<1>2. PICK j \in Nat : y = j * u
  BY Multiple
<1>3. k < j
  <2> SUFFICES ASSUME k >= j PROVE FALSE
    OBVIOUS
  <2>1. k * u >= j * u
    BY Z3
  <2> QED
    BY <2>1, <1>1, <1>2
<1>4. PICK d \in Nat : j = k + 1 + d
  <2>1. j - k - 1 \in Nat /\ j = k + 1 + (j - k - 1)
    BY <1>3
  <2> QED
    BY <2>1
<1>5. y = x + u + d * u /\ d * u \in Nat
  <2>1. (k + 1 + d) * u = k * u + u + d * u
    BY Z3
  <2> QED
    BY <2>1, <1>1, <1>2, <1>4, Product
<1>6. y - (x + u) = d * u /\ y - x = (d + 1) * u
  <2>1. (d + 1) * u = d * u + u
    BY Z3
  <2>2. d * u \in Nat
    BY Product
  <2> QED
    BY <2>1, <2>2, <1>5
<1>7. (y - x) % u = 0
  <2>1. y - x \in Nat /\ d + 1 \in Nat
    BY <1>5
  <2> QED
    BY <2>1, <1>6, Multiple
<1>8. (y - (x + u)) % u = 0
  <2>1. y - (x + u) \in Nat
    BY <1>5
  <2> QED
    BY <2>1, <1>6, Multiple
<1> QED
  BY <1>5, <1>7, <1>8

\* What is left of a multiple behind its first unit.
LEMMA MultipleLeft ==
  ASSUME NEW x \in Nat, NEW u \in Nat, u > 0, x > 0, x % u = 0
  PROVE  u <= x /\ (x - u) % u = 0
<1>1. PICK k \in Nat : x = k * u
  BY Multiple
<1>2. k > 0
  <2>1. k = 0 => k * u = 0
    BY Z3
  <2> QED
    BY <1>1, <2>1
<1>3. k - 1 \in Nat /\ x = (k - 1) * u + u
  <2>1. k * u = (k - 1) * u + u
    BY Z3
  <2> QED
    BY <1>1, <1>2, <2>1
<1>4. (k - 1) * u \in Nat
  BY <1>3, Product
<1>5. x - u = (k - 1) * u /\ x - u \in Nat
  BY <1>3, <1>4
<1> QED
  BY <1>3, <1>5, Multiple

\* A multiple of the cycle is a multiple of the step that divides the cycle.
LEMMA MultipleOfMultiple ==
  ASSUME NEW x \in Nat, NEW c \in Nat, NEW u \in Nat, u > 0, c >= u,
         c % u = 0, x % c = 0
  PROVE  x % u = 0
<1>1. PICK m \in Nat : c = m * u
  BY Multiple
<1>2. PICK k \in Nat : x = k * c
  <2>1. c > 0
    OBVIOUS
  <2> QED
    BY <2>1, Multiple
<1>3. x = (k * m) * u
  BY <1>1, <1>2, Z3
<1> QED
  BY <1>3, Product, Multiple

\* Rounding down to a multiple.
LEMMA RoundDown ==
  ASSUME NEW x \in Nat, NEW u \in Nat, u > 0
  PROVE  /\ (x \div u) * u \in Nat
         /\ (x \div u) * u <= x
         /\ x < (x \div u) * u + u
         /\ ((x \div u) * u) % u = 0
<1>1. x \div u \in Nat /\ (x \div u) * u <= x /\ x < (x \div u) * u + u
  BY Z3
<1>2. (x \div u) * u \in Nat
  BY <1>1, Product
<1>3. ((x \div u) * u) % u = 0
  BY <1>1, <1>2, Multiple
<1> QED
  BY <1>1, <1>2, <1>3

\* A remainder is below its divisor, and a number below the divisor is its own.
LEMMA Remainder ==
  ASSUME NEW x \in Int, NEW u \in Nat, u > 0
  PROVE  x % u \in 0 .. (u - 1) /\ (x \in 0 .. (u - 1) => x % u = x)
BY Z3

\* Rounding down is whole, for numbers below zero too.
LEMMA RoundDownInt ==
  ASSUME NEW x \in Int, NEW u \in Nat, u > 0
  PROVE  (x \div u) * u \in Int
<1>1. x \div u \in Int
  BY Z3
<1> QED
  BY <1>1, Z3

----------------------------------------------------------------------------
\* The configuration

\* What the checks of the configuration leave of the distances and the lengths.
LEMMA Config ==
  ASSUME setup \in Setups
  PROVE  /\ Start \in Nat /\ CycleLen \in Nat /\ StepLen \in Nat /\ MaxHead \in Nat
         /\ Stable \in Nat /\ SyncStable \in Nat /\ Word \in Nat
         /\ Quick \in BOOLEAN /\ Archive \in BOOLEAN
         /\ StepLen > 0 /\ CycleLen >= StepLen /\ CycleLen % StepLen = 0
         /\ setup.stable \in Nat /\ setup.stable <= Stable + SyncStable
         /\ Word > MaxHead + CycleLen + Stable + 1
         /\ SyncStable <= setup.firstHead
         /\ setup.firstHead \in Nat /\ setup.maxCrashes \in Nat /\ setup.maxFails \in Nat
<1>1. IsSetup(setup) /\ Word \in Nat
  BY CycleAssumption
<1>2. setup.stable \in Nat /\ setup.syncStable \in Nat /\ setup.enable \in BOOLEAN
  BY <1>1 DEF IsSetup
<1>3. Stable = IF setup.enable /\ setup.stable > setup.syncStable THEN 1 ELSE setup.stable
  BY DEF Stable, CheckDistribute
<1>4. SyncStable = IF setup.enable /\ setup.stable > setup.syncStable
                     THEN setup.stable ELSE setup.syncStable
  BY DEF SyncStable, CheckDistribute
<1>5. /\ Stable \in Nat /\ SyncStable \in Nat /\ Stable <= setup.stable
      /\ setup.stable <= Stable + SyncStable
  BY <1>2, <1>3, <1>4
<1>6. /\ setup.firstHead \in Nat /\ setup.firstHead >= setup.syncStable
      /\ setup.firstHead >= setup.stable
  BY <1>1 DEF IsSetup
<1>7. SyncStable <= setup.firstHead
  BY <1>2, <1>4, <1>6
<1>8. /\ Start \in Nat /\ CycleLen \in Nat /\ StepLen \in Nat /\ MaxHead \in Nat
      /\ Quick \in BOOLEAN /\ Archive \in BOOLEAN
      /\ setup.maxCrashes \in Nat /\ setup.maxFails \in Nat
  BY <1>1 DEF IsSetup, Start, CycleLen, StepLen, MaxHead, Quick, Archive
<1>9. StepLen > 0 /\ CycleLen >= StepLen /\ CycleLen % StepLen = 0
  <2>1. CheckCycle(setup)
    BY <1>1 DEF IsSetup
  <2>2. StepLen /= 0 /\ CycleLen >= StepLen /\ CycleLen % StepLen = 0
    BY <2>1 DEF CheckCycle, StepLen, CycleLen
  <2> QED
    BY <2>2, <1>8
<1>10. Word > MaxHead + CycleLen + Stable + 1
  <2>1. Word > MaxHead + CycleLen + setup.stable + 1
    BY <1>1 DEF IsSetup, MaxHead, CycleLen
  <2> QED
    BY <2>1, <1>5, <1>8, <1>2, <1>1
<1> QED
  BY <1>1, <1>2, <1>5, <1>6, <1>7, <1>8, <1>9, <1>10

\* A unit is a step or a cycle, and a cycle is so many units.
LEMMA Units ==
  ASSUME setup \in Setups
  PROVE  /\ Unit \in Nat /\ Unit > 0 /\ Unit <= CycleLen /\ CycleLen % Unit = 0
         /\ ~Quick => Unit = CycleLen
         /\ Quick => Unit = StepLen
<1>1. /\ CycleLen \in Nat /\ StepLen \in Nat /\ StepLen > 0 /\ CycleLen >= StepLen
      /\ CycleLen % StepLen = 0
  BY Config
<1>2. CycleLen % CycleLen = 0
  <2>1. CycleLen = 1 * CycleLen /\ CycleLen > 0
    BY <1>1
  <2> QED
    BY <2>1, <1>1, Multiple, 1 \in Nat
<1> QED
  BY <1>1, <1>2 DEF Unit

\* The arguments of the command.
LEMMA Calls ==
  ASSUME setup \in Setups, NEW c \in setup.calls
  PROVE  /\ c.start \in Heights /\ c.end \in Heights /\ c.sample \in Heights
         /\ c.type \in {"volume", "liquid", "both"}
<1>1. IsSetup(setup)
  BY CycleAssumption
<1>2. c \in [start : 0 .. setup.maxHead, end : 0 .. setup.maxHead,
             sample : 0 .. setup.maxHead, type : {"volume", "liquid", "both"}]
  BY <1>1 DEF IsSetup
<1> QED
  BY <1>2 DEF Heights, MaxHead

\* The condition of the theorems, for the configuration of the run.
LEMMA InTime ==
  ASSUME setup \in Setups, \A s \in Setups : StartsInTime(s), setup.enable
  PROVE  /\ Start + Stable <= setup.firstHead
         /\ Quick => Stable + SyncStable > 0
<1>1. StartsInTime(setup)
  OBVIOUS
<1>2. Start + Stable <= setup.firstHead /\ (Quick => setup.stable + setup.syncStable > 0)
  BY <1>1 DEF StartsInTime, Start, Stable, Quick
<1>3. setup.stable \in Nat /\ setup.syncStable \in Nat
  BY CycleAssumption DEF IsSetup
<1>4. setup.stable + setup.syncStable > 0 => Stable + SyncStable > 0
  BY <1>3 DEF Stable, SyncStable, CheckDistribute
<1> QED
  BY <1>2, <1>4

\* Nothing below the word's width wraps.
LEMMA NoWrap ==
  ASSUME setup \in Setups, NEW a \in Int, NEW b \in Int, 0 <= a + b, a + b < Word
  PROVE  Add(a, b) = a + b
BY Config, Remainder, a + b \in Int DEF Add

\* Every sum is a height of the word, and so is where a cycle is found to start.
LEMMA WordType ==
  ASSUME setup \in Setups
  PROVE  /\ \A a, b \in Int : Add(a, b) \in Height /\ Sub(a, b) \in Height
         /\ \A a \in Int : CurCycleStart(a) \in Height
         /\ \A a \in Int : a % CycleLen \in Int
         /\ \A a \in Int, r \in [block : Height, draws : Nat] : RandomSample(a, r) \in Height
         /\ Height \subseteq Nat /\ Height \subseteq Int /\ 0 \in Height
<1>1. /\ Word \in Nat /\ Word > 0 /\ CycleLen \in Nat /\ CycleLen > 0
      /\ Start \in Nat /\ Stable \in Nat
  BY Config
<1>2. \A a \in Int : a % Word \in Height
  BY <1>1, Remainder DEF Height
<1>3. \A a, b \in Int : Add(a, b) \in Height /\ Sub(a, b) \in Height
  BY <1>2 DEF Add, Sub
<1>4. Height \subseteq Nat /\ Height \subseteq Int /\ 0 \in Height
  BY <1>1 DEF Height
<1>5. ASSUME NEW a \in Int PROVE CurCycleStart(a) \in Height
  <2> Sub(a, Start) \in Int
    <3>1. Sub(a, Start) \in Height
      BY <1>1, <1>3
    <3> QED
      BY <3>1, <1>4
  <2>1. Sub(Sub(a, Start), Stable) \in Int
    <3>1. Sub(Sub(a, Start), Stable) \in Height
      BY <1>1, <1>3
    <3> QED
      BY <3>1, <1>4
  <2>2. (Sub(Sub(a, Start), Stable) \div CycleLen) * CycleLen \in Int
    BY <1>1, <2>1, RoundDownInt
  <2> QED
    BY <1>1, <1>3, <2>2 DEF CurCycleStart
<1>6. \A a \in Int : a % CycleLen \in Int
  BY <1>1, Remainder
<1>7. ASSUME NEW a \in Int, NEW r \in [block : Height, draws : Nat]
      PROVE  RandomSample(a, r) \in Height
  <2>1. HeadLen \in Nat /\ HeadLen < CycleLen
    BY <1>1 DEF HeadLen
  <2>2. r.block \in Int /\ r.draws \in Int
    <3>1. r.block \in Height /\ r.draws \in Nat
      OBVIOUS
    <3>2. r.block \in Int
      BY <3>1, <1>4, Zenon
    <3> QED
      BY <3>1, <3>2
  <2>3. r.block * 5 + r.draws * 3 + 1 \in Int
    BY <2>2
  <2>4. CycleLen - HeadLen \in Nat /\ CycleLen - HeadLen > 0
    BY <1>1, <2>1
  <2>5. Random(r, CycleLen - HeadLen) \in Int
    BY <2>3, <2>4, Remainder DEF Random
  <2>6. HeadLen + Random(r, CycleLen - HeadLen) \in Int
    BY <2>1, <2>5
  <2> QED
    BY <1>3, <2>6 DEF RandomSample
<1> QED
  BY <1>3, <1>4, <1>5, <1>6, <1>7

\* The definitions that depend on the configuration alone keep their meaning.
LEMMA Frozen ==
  ASSUME setup' = setup
  PROVE  /\ Start' = Start /\ CycleLen' = CycleLen /\ StepLen' = StepLen
         /\ Stable' = Stable /\ SyncStable' = SyncStable /\ MaxHead' = MaxHead
         /\ Quick' = Quick /\ Archive' = Archive /\ Unit' = Unit /\ Heights' = Heights
         /\ TradeExchanges' = TradeExchanges /\ LiquidExchanges' = LiquidExchanges
         /\ VolumeDraws' = VolumeDraws /\ Repeatable' = Repeatable
BY DEF Start, CycleLen, StepLen, Stable, SyncStable, MaxHead, Quick, Archive, Unit,
       Heights, TradeExchanges, LiquidExchanges, VolumeDraws, Repeatable

\* So do the operators that look at nothing else.
LEMMA FrozenOps ==
  ASSUME setup' = setup
  PROVE  /\ \A a : Aligned(a)' = Aligned(a)
         /\ \A a : OnCycle(a)' = OnCycle(a)
         /\ \A h, a : InUnit(h, a)' = InUnit(h, a)
         /\ \A a : CycleSample(a)' = CycleSample(a)
<1>1. Start' = Start /\ CycleLen' = CycleLen /\ Unit' = Unit
  BY Frozen
<1>2. \A a : Aligned(a)' = Aligned(a)
  BY <1>1 DEF Aligned
<1>3. \A a : OnCycle(a)' = OnCycle(a)
  BY <1>1 DEF OnCycle
<1>4. \A h, a : InUnit(h, a)' = InUnit(h, a)
  BY <1>1, <1>2 DEF InUnit
<1>5. \A a : CycleSample(a)' = CycleSample(a)
  BY <1>1 DEF CycleSample, RandomSample, HeadLen, Random, Seeded, Add
<1> QED
  BY <1>2, <1>3, <1>4, <1>5

----------------------------------------------------------------------------
\* Alignment

\* Units follow each other and do not overlap.
LEMMA AlignedUnits ==
  ASSUME setup \in Setups
  PROVE  /\ \A a \in Int : Aligned(a) => a \in Nat /\ Aligned(a + Unit)
         /\ \A a, b \in Int : Aligned(a) /\ Aligned(b) /\ a < b => a + Unit <= b
<1>1. Start \in Nat /\ Unit \in Nat /\ Unit > 0
  BY Config, Units
<1>2. ASSUME NEW a \in Int, Aligned(a) PROVE a \in Nat /\ Aligned(a + Unit)
  <2>1. a - Start \in Nat /\ (a - Start) % Unit = 0 /\ a \in Nat
    BY <1>1, <1>2 DEF Aligned
  <2>2. ((a - Start) + Unit) % Unit = 0
    BY <2>1, <1>1, NextMultiple
  <2>3. (a + Unit) - Start = (a - Start) + Unit /\ a + Unit >= Start
    BY <1>1, <2>1
  <2> QED
    BY <2>1, <2>2, <2>3 DEF Aligned
<1>3. ASSUME NEW a \in Int, NEW b \in Int, Aligned(a), Aligned(b), a < b
      PROVE  a + Unit <= b
  <2>1. /\ a - Start \in Nat /\ (a - Start) % Unit = 0
        /\ b - Start \in Nat /\ (b - Start) % Unit = 0
        /\ a - Start < b - Start
    BY <1>1, <1>3 DEF Aligned
  <2>2. (a - Start) + Unit <= b - Start
    BY <2>1, <1>1, MultiplesApart
  <2> QED
    BY <2>2, <1>1
<1> QED
  BY <1>2, <1>3

\* Cycles follow each other, and a cycle starts with a unit.
LEMMA CycleUnits ==
  ASSUME setup \in Setups, NEW a \in Int, OnCycle(a)
  PROVE  a \in Nat /\ OnCycle(a + CycleLen) /\ Aligned(a)
<1>1. /\ Start \in Nat /\ Unit \in Nat /\ Unit > 0 /\ CycleLen \in Nat /\ CycleLen > 0
      /\ CycleLen >= Unit /\ CycleLen % Unit = 0
  BY Config, Units
<1>2. a - Start \in Nat /\ (a - Start) % CycleLen = 0 /\ a \in Nat
  BY <1>1 DEF OnCycle
<1>3. ((a - Start) + CycleLen) % CycleLen = 0
  BY <1>1, <1>2, NextMultiple
<1>4. (a + CycleLen) - Start = (a - Start) + CycleLen /\ a + CycleLen >= Start
  BY <1>1, <1>2
<1>5. (a - Start) % Unit = 0
  BY <1>1, <1>2, MultipleOfMultiple
<1> QED
  BY <1>2, <1>3, <1>4, <1>5 DEF OnCycle, Aligned

\* calcCurCycleStart: the last cycle that had begun when the stable height was where
\* the head is now, if the job is not started too early.
LEMMA CurCycle ==
  ASSUME setup \in Setups, NEW latest \in Nat,
         latest <= MaxHead, Start + Stable <= latest
  PROVE  /\ CurCycleStart(latest) \in Nat
         /\ OnCycle(CurCycleStart(latest))
         /\ CurCycleStart(latest) <= latest
         /\ latest - Stable < CurCycleStart(latest) + CycleLen
<1>1. /\ Start \in Nat /\ CycleLen \in Nat /\ CycleLen > 0 /\ Stable \in Nat
      /\ MaxHead \in Nat /\ Word \in Nat /\ Word > MaxHead + CycleLen + Stable + 1
  BY Config
<1>2. Sub(latest, Start) = latest - Start
  BY <1>1, Remainder, latest - Start \in Int, latest - Start \in 0 .. (Word - 1) DEF Sub
<1>3. Sub(latest - Start, Stable) = latest - Start - Stable
  <2>1. (latest - Start) - Stable \in 0 .. (Word - 1)
    BY <1>1
  <2> QED
    BY <2>1, <1>1, Remainder DEF Sub
<1> DEFINE x == latest - Start - Stable
           q == (x \div CycleLen) * CycleLen
<1>4. x \in Nat
  BY <1>1
<1>5. q \in Nat /\ q <= x /\ x < q + CycleLen /\ q % CycleLen = 0
  BY <1>1, <1>4, RoundDown
<1>6. CurCycleStart(latest) = Add(Start, q)
  BY <1>2, <1>3 DEF CurCycleStart
<1>7. x = latest - Start - Stable
  OBVIOUS
<1> HIDE DEF q, x
<1>8. Add(Start, q) = Start + q
  <2>1. 0 <= Start + q /\ Start + q < Word
    BY <1>1, <1>5, <1>7
  <2> QED
    BY <2>1, <1>1, <1>5, NoWrap
<1>9. OnCycle(Start + q)
  <2>1. (Start + q) - Start = q /\ Start + q >= Start
    BY <1>1, <1>5
  <2> QED
    BY <2>1, <1>5 DEF OnCycle
<1> QED
  BY <1>1, <1>5, <1>6, <1>7, <1>8, <1>9

\* CalcRandomSample returns a height of the cycle.
LEMMA SampleInCycle ==
  ASSUME setup \in Setups, NEW start \in Nat, start <= MaxHead
  PROVE  CycleSample(start) \in Nat /\ CycleSample(start) < start + CycleLen
<1>1. /\ CycleLen \in Nat /\ CycleLen > 0 /\ MaxHead \in Nat /\ Word \in Nat
      /\ Stable \in Nat /\ Word > MaxHead + CycleLen + Stable + 1
  BY Config
<1>2. HeadLen \in Nat /\ HeadLen < CycleLen
  BY <1>1 DEF HeadLen
<1>3. Random(Seeded(start), CycleLen - HeadLen) \in 0 .. (CycleLen - HeadLen - 1)
  <2>1. CycleLen - HeadLen \in Nat /\ CycleLen - HeadLen > 0
    BY <1>1, <1>2
  <2>2. start * 5 + 0 * 3 + 1 \in Int
    OBVIOUS
  <2> QED
    BY <2>1, <2>2, Remainder DEF Random, Seeded
<1>4. CycleSample(start) = Add(start, HeadLen + Random(Seeded(start), CycleLen - HeadLen))
  BY DEF CycleSample, RandomSample
<1> DEFINE d == HeadLen + Random(Seeded(start), CycleLen - HeadLen)
<1>5. d \in Nat /\ d < CycleLen
  BY <1>1, <1>2, <1>3
<1> HIDE DEF d
<1>6. Add(start, d) = start + d
  BY <1>1, <1>5, NoWrap
<1> QED
  BY <1>1, <1>4, <1>5, <1>6 DEF d

----------------------------------------------------------------------------
\* Types

\* No step changes the configuration, and the chain only grows.
LEMMA SetupStays ==
  ASSUME [Next]_vars
  PROVE  setup' = setup
BY DEF Next, vars, Run, CalcRewards, Calc, CalcVolumeSend, CalcVolumeDone, CalcLiquidSend,
       Volume, VolumeBegin, VolumeStep, VolumeWait, VolumeSeed, VolumeDraw, VolumeSend,
       Liquid, LiquidSeed, LiquidDraw, LiquidWait, LiquidSend, NewBlock, SyncTo, Restart

\* The chain grows by one block at a time, up to the bound of the run.
LEMMA HeadStep ==
  ASSUME [Next]_vars
  PROVE  head' = head \/ (head < MaxHead /\ head' = head + 1)
BY DEF Next, vars, Run, CalcRewards, Calc, CalcVolumeSend, CalcVolumeDone, CalcLiquidSend,
       Volume, VolumeBegin, VolumeStep, VolumeWait, VolumeSeed, VolumeDraw, VolumeSend,
       Liquid, LiquidSeed, LiquidDraw, LiquidWait, LiquidSend, NewBlock, SyncTo, Restart

\* The types as facts about numbers, for the steps below.
LEMMA Numbers ==
  ASSUME Types
  PROVE  /\ setup \in Setups
         /\ Start \in Nat /\ CycleLen \in Nat /\ StepLen \in Nat /\ MaxHead \in Nat
         /\ Stable \in Nat /\ SyncStable \in Nat /\ Word \in Nat
         /\ Word > MaxHead + CycleLen + Stable + 1
         /\ Unit \in Nat /\ Unit > 0 /\ Unit <= CycleLen
         /\ head \in Nat /\ head <= MaxHead /\ setup.firstHead <= head
         /\ setup.firstHead \in Nat /\ SyncStable <= setup.firstHead
         /\ syncInfo \in Nat /\ syncInfo + SyncStable <= head
         /\ vstart \in Nat /\ vcur \in Nat /\ vlatest \in Nat /\ lstart \in Nat
         /\ sample \in Nat /\ ccur \in Nat /\ first \in Nat
         /\ {vstart, vcur, vlatest, lstart, sample, ccur, first} \subseteq Height
         /\ paid \in [Heights -> Nat] /\ recalced \in [Heights -> Nat]
<1>1. setup \in Setups
  BY DEF Types
<1>2. /\ Start \in Nat /\ CycleLen \in Nat /\ StepLen \in Nat /\ MaxHead \in Nat
      /\ Stable \in Nat /\ SyncStable \in Nat /\ Word \in Nat
      /\ Word > MaxHead + CycleLen + Stable + 1
      /\ Unit \in Nat /\ Unit > 0 /\ Unit <= CycleLen
      /\ setup.firstHead \in Nat /\ SyncStable <= setup.firstHead
  BY <1>1, Config, Units
<1>3. head \in 0 .. MaxHead /\ syncInfo \in 0 .. head - SyncStable /\ setup.firstHead <= head
  BY DEF Types, TypeOK
<1>4. {vstart, vcur, vlatest, lstart, sample, ccur, first} \subseteq Height
  BY DEF Types, TypeOK
<1>5. Height \subseteq Nat
  BY <1>2 DEF Height
<1>6. paid \in [Heights -> Nat] /\ recalced \in [Heights -> Nat]
  BY DEF Types, TypeOK, Heights
<1>7. head \in Nat /\ head <= MaxHead /\ syncInfo \in Nat /\ syncInfo + SyncStable <= head
  BY <1>2, <1>3
<1>8. /\ vstart \in Nat /\ vcur \in Nat /\ vlatest \in Nat /\ lstart \in Nat
      /\ sample \in Nat /\ ccur \in Nat /\ first \in Nat
  BY <1>4, <1>5
<1> QED
  BY <1>1, <1>2, <1>3, <1>4, <1>6, <1>7, <1>8

\* The constant part of a step's types.
LEMMA TypesFrame ==
  ASSUME Types, [Next]_vars
  PROVE  /\ setup' \in Setups /\ MaxHead' = MaxHead /\ SyncStable' = SyncStable
         /\ Height' = Height
         /\ head' \in 0 .. MaxHead /\ setup'.firstHead <= head'
         /\ setup'.maxCrashes = setup.maxCrashes /\ setup'.maxFails = setup.maxFails
         /\ setup'.calls = setup.calls /\ setup'.enable = setup.enable
<1>1. setup' = setup
  BY SetupStays
<1>2. head' = head \/ (head < MaxHead /\ head' = head + 1)
  BY HeadStep
<1>3. /\ setup \in Setups /\ head \in Nat /\ head <= MaxHead /\ setup.firstHead <= head
      /\ setup.firstHead \in Nat /\ MaxHead \in Nat
  BY Numbers
<1>4. MaxHead' = MaxHead /\ SyncStable' = SyncStable
  BY <1>1, Frozen
<1> QED
  BY <1>1, <1>2, <1>3, <1>4 DEF Height

\* The variables have their types when the programs start.
LEMMA InitTypes == Init => Types
<1> SUFFICES ASSUME Init PROVE Types
  OBVIOUS
<1>1. setup \in Setups
  BY DEF Init
<1>2. /\ SyncStable \in Nat /\ MaxHead \in Nat /\ Word \in Nat /\ Word > 0
      /\ setup.firstHead \in Nat /\ SyncStable <= setup.firstHead
      /\ setup.maxCrashes \in Nat /\ setup.maxFails \in Nat
  BY <1>1, Config
<1>3. setup.firstHead <= MaxHead
  <2>1. IsSetup(setup)
    BY <1>1, CycleAssumption
  <2>2. setup.firstHead \in setup.syncStable .. setup.maxHead
    BY <2>1 DEF IsSetup
  <2>3. setup.syncStable \in Nat /\ setup.maxHead \in Nat
    BY <2>1 DEF IsSetup
  <2> QED
    BY <2>2, <2>3 DEF MaxHead
<1>4. head \in 0 .. MaxHead /\ syncInfo \in 0 .. head - SyncStable
  BY <1>2, <1>3 DEF Init
<1>5. 0 \in Height
  BY <1>2 DEF Height
<1>6. /\ running \in BOOLEAN /\ vpc = "off" /\ lpc = "off" /\ cpc = "off"
      /\ {vstart, vcur, vlatest, lstart, sample} \subseteq Height
      /\ seed \in [block : Height, draws : Nat]
      /\ call = NoCall /\ ccur \in Height
      /\ lost \subseteq Height /\ first \in Height /\ ~running
  BY <1>5 DEF Init, NotStarted
<1>7. {paid, recalced} \subseteq [0 .. MaxHead -> Nat]
  BY DEF Init
<1>8. crashes \in 0 .. setup.maxCrashes /\ fails \in 0 .. setup.maxFails
  BY <1>2 DEF Init
<1>9. setup.firstHead <= head
  BY <1>2 DEF Init
<1>10. seed.block \in Height /\ seed.draws \in Nat
  BY <1>6
<1>11. /\ vpc \in {"off", "cycle", "step", "wait", "seed", "draw", "send"}
       /\ lpc \in {"off", "seed", "draw", "waitSample", "seedAgain", "drawAgain", "send",
                   "waitEnd"}
       /\ cpc \in {"off", "volume", "liquid", "done", "failed"}
       /\ call \in setup.calls \cup {NoCall}
  BY <1>6
<1>12. TypeOK
  BY <1>4, <1>6, <1>7, <1>8, <1>10, <1>11 DEF TypeOK
<1> QED
  BY <1>1, <1>6, <1>9, <1>12 DEF Types

\* Which steps touch the variables of which goroutine.
LEMMA VolumeFrame ==
  ASSUME [Next]_vars
  PROVE  \/ Run \/ Restart
         \/ VolumeBegin \/ VolumeStep \/ VolumeWait \/ VolumeSeed \/ VolumeDraw \/ VolumeSend
         \/ UNCHANGED <<running, volume, first, paid, lost>>
BY DEF Next, vars, history, CalcRewards, Calc, CalcVolumeSend, CalcVolumeDone, CalcLiquidSend,
       Volume, Liquid, LiquidSeed, LiquidDraw, LiquidWait, LiquidSend, NewBlock, SyncTo

\* The liquidity goroutine's state changes only in its own steps and in a start.
LEMMA LiquidFrame ==
  ASSUME [Next]_vars
  PROVE  \/ Run \/ Restart \/ LiquidSeed \/ LiquidDraw \/ LiquidWait \/ LiquidSend
         \/ UNCHANGED liquid
BY DEF Next, vars, CalcRewards, Calc, CalcVolumeSend, CalcVolumeDone, CalcLiquidSend,
       Volume, VolumeBegin, VolumeStep, VolumeWait, VolumeSeed, VolumeDraw, VolumeSend,
       Liquid, NewBlock, SyncTo

\* The random source changes only where a goroutine seeds it or draws.
LEMMA SeedFrame ==
  ASSUME [Next]_vars
  PROVE  Restart \/ VolumeSeed \/ VolumeDraw \/ LiquidSeed \/ LiquidDraw \/ UNCHANGED seed
BY DEF Next, vars, CalcRewards, Calc, CalcVolumeSend, CalcVolumeDone, CalcLiquidSend,
       Volume, VolumeBegin, VolumeStep, VolumeWait, VolumeSend, Run,
       Liquid, LiquidWait, LiquidSend, NewBlock, SyncTo

\* Only the steps of calcRewards change its state and what it has paid.
LEMMA CommandFrame ==
  ASSUME [Next]_vars
  PROVE  \/ Calc \/ CalcVolumeSend \/ CalcVolumeDone \/ CalcLiquidSend
         \/ UNCHANGED <<command, recalced>>
BY DEF Next, vars, history, CalcRewards, Run, Restart,
       Volume, VolumeBegin, VolumeStep, VolumeWait, VolumeSeed, VolumeDraw, VolumeSend,
       Liquid, LiquidSeed, LiquidDraw, LiquidWait, LiquidSend, NewBlock, SyncTo

\* Liquidity rewards are sent by the goroutine and by calcRewards only.
LEMMA SentFrame ==
  ASSUME [Next]_vars
  PROVE  LiquidSend \/ CalcLiquidSend \/ UNCHANGED lsent
BY DEF Next, vars, history, CalcRewards, Calc, CalcVolumeSend, CalcVolumeDone, Run, Restart,
       Volume, VolumeBegin, VolumeStep, VolumeWait, VolumeSeed, VolumeDraw, VolumeSend,
       Liquid, LiquidSeed, LiquidDraw, LiquidWait, NewBlock, SyncTo

\* Restarts and errors stay within the bounds of the run.
LEMMA CountersFrame ==
  ASSUME [Next]_vars
  PROVE  /\ crashes' = crashes \/ (crashes < setup.maxCrashes /\ crashes' = crashes + 1)
         /\ fails' = fails \/ (fails < setup.maxFails /\ fails' = fails + 1)
BY DEF Next, vars, history, CalcRewards, Calc, CalcVolumeSend, CalcVolumeDone, CalcLiquidSend,
       Run, Restart,
       Volume, VolumeBegin, VolumeStep, VolumeWait, VolumeSeed, VolumeDraw, VolumeSend,
       Liquid, LiquidSeed, LiquidDraw, LiquidWait, LiquidSend, NewBlock, SyncTo

\* Every step keeps the types.
LEMMA TypesStep ==
  ASSUME Types, [Next]_vars
  PROVE  Types'
<1>1. /\ setup' \in Setups /\ MaxHead' = MaxHead /\ SyncStable' = SyncStable
      /\ Height' = Height
      /\ head' \in 0 .. MaxHead /\ setup'.firstHead <= head'
      /\ setup'.maxCrashes = setup.maxCrashes /\ setup'.maxFails = setup.maxFails
      /\ setup'.calls = setup.calls /\ setup'.enable = setup.enable
  BY TypesFrame
<1>2. /\ setup \in Setups /\ head \in Nat /\ SyncStable \in Nat /\ syncInfo \in Nat
      /\ syncInfo + SyncStable <= head /\ MaxHead \in Nat
      /\ setup.firstHead \in Nat /\ SyncStable <= setup.firstHead /\ setup.firstHead <= head
      /\ Heights = 0 .. MaxHead /\ Word \in Nat /\ Word > 0
      /\ setup.maxCrashes \in Nat /\ setup.maxFails \in Nat
  <2>1. setup.maxCrashes \in Nat /\ setup.maxFails \in Nat /\ Word > 0
    BY Numbers, Config
  <2> QED
    BY <2>1, Numbers DEF Heights
<1>3. 0 \in Height /\ head \in Height /\ Height \subseteq Int
  <2>1. head \in Nat /\ head < Word
    BY Numbers
  <2> QED
    BY <2>1, <1>2 DEF Height
<1>4. syncInfo' \in 0 .. head' - SyncStable
  <2>1. syncInfo' = syncInfo \/ syncInfo' = head - SyncStable \/ syncInfo' = syncInfo - 1
    BY DEF Next, vars, Run, CalcRewards, Calc, CalcVolumeSend, CalcVolumeDone, CalcLiquidSend,
       Volume, VolumeBegin, VolumeStep, VolumeWait, VolumeSeed, VolumeDraw, VolumeSend,
       Liquid, LiquidSeed, LiquidDraw, LiquidWait, LiquidSend, NewBlock, SyncTo, Restart
  <2>2. syncInfo' = syncInfo - 1 => syncInfo' \in Nat
    BY <1>2 DEF Next, vars, Run, CalcRewards, Calc, CalcVolumeSend, CalcVolumeDone,
       CalcLiquidSend,
       Volume, VolumeBegin, VolumeStep, VolumeWait, VolumeSeed, VolumeDraw, VolumeSend,
       Liquid, LiquidSeed, LiquidDraw, LiquidWait, LiquidSend, NewBlock, SyncTo, Restart
  <2>3. head <= head'
    BY <1>2, HeadStep
  <2> QED
    BY <1>1, <1>2, <2>1, <2>2, <2>3
<1>5. /\ running' \in BOOLEAN /\ (running' => setup'.enable)
      /\ vpc' \in {"off", "cycle", "step", "wait", "seed", "draw", "send"}
      /\ {vstart', vcur', vlatest', first'} \subseteq Height
      /\ lost' \subseteq Height /\ paid' \in [Heights -> Nat]
  <2>1. /\ running \in BOOLEAN /\ (running => setup.enable)
        /\ vpc \in {"off", "cycle", "step", "wait", "seed", "draw", "send"}
        /\ {vstart, vcur, vlatest, first} \subseteq Height
        /\ lost \subseteq Height /\ paid \in [Heights -> Nat]
    BY <1>2 DEF Types, TypeOK
  <2>2. /\ CurCycleStart(head) \in Height /\ VolumeEnd \in Height
        /\ Add(vstart, CycleLen) \in Height
    <3>1. vcur \in Int /\ vstart \in Int /\ head \in Int /\ StepLen \in Int /\ CycleLen \in Int
      BY Numbers
    <3> QED
      BY <1>2, <3>1, WordType DEF VolumeEnd
  <2>3. /\ {h \in vstart .. CurCycleStart(head) - 1 : paid[h] = 0} \subseteq Height
        /\ SettledRange \subseteq Height
    <3>1. \A x, y \in Height : x .. (y - 1) \subseteq Height
      BY CycleAssumption, SMTT(30) DEF Height
    <3>2. vstart \in Height /\ vcur \in Height
      BY <2>1
    <3>3. vstart .. (CurCycleStart(head) - 1) \subseteq Height
      BY <2>2, <3>1, <3>2, Zenon
    <3>4. vcur .. (VolumeEnd - 1) \subseteq Height
      BY <2>2, <3>1, <3>2, Zenon
    <3> QED
      BY <3>3, <3>4, Zenon DEF SettledRange
  <2>4. CASE Run
    BY <2>1, <2>2, <2>3, <2>4, <1>1 DEF Run
  <2>5. CASE Restart
    BY <2>1, <2>5, <1>1, <1>3 DEF Restart
  <2>6. CASE VolumeBegin
    BY <2>1, <2>6, <1>1, <1>3 DEF VolumeBegin, history
  <2>7. CASE VolumeStep
    BY <2>1, <2>2, <2>7, <1>1 DEF VolumeStep, history
  <2>8. CASE VolumeWait \/ VolumeSeed \/ VolumeDraw
    BY <2>1, <2>8, <1>1 DEF VolumeWait, VolumeSeed, VolumeDraw, history
  <2>9. CASE VolumeSend
    <3>1. paid' \in [Heights -> Nat]
      BY <2>1, <2>9 DEF VolumeSend
    <3>2. lost' \subseteq Height
      BY <2>1, <2>3, <2>9 DEF VolumeSend
    <3> QED
      BY <2>1, <2>2, <2>9, <3>1, <3>2, <1>1 DEF VolumeSend
  <2>10. CASE UNCHANGED <<running, volume, first, paid, lost>>
    BY <2>1, <2>10, <1>1 DEF volume
  <2> QED
    BY <2>4, <2>5, <2>6, <2>7, <2>8, <2>9, <2>10, VolumeFrame
<1>6. /\ lpc' \in {"off", "seed", "draw", "waitSample", "seedAgain", "drawAgain", "send",
                   "waitEnd"}
      /\ {lstart', sample'} \subseteq Height
  <2>1. /\ lpc \in {"off", "seed", "draw", "waitSample", "seedAgain", "drawAgain", "send",
                    "waitEnd"}
        /\ {lstart, sample} \subseteq Height
    BY DEF Types, TypeOK
  <2>2. CurCycleStart(head) \in Height /\ Add(lstart, CycleLen) \in Height
    <3>1. lstart \in Int /\ head \in Int /\ CycleLen \in Int
      BY Numbers
    <3> QED
      BY <1>2, <3>1, WordType
  <2>3. RandomSample(lstart, seed) \in Height
    BY <1>2, Numbers, WordType DEF Types
  <2>4. CASE Run \/ Restart
    BY <2>1, <2>2, <2>4, <1>3 DEF Run, Restart
  <2>5. CASE LiquidSeed \/ LiquidDraw
    BY <2>1, <2>3, <2>5 DEF LiquidSeed, LiquidDraw
  <2>6. CASE LiquidWait \/ LiquidSend
    BY <2>1, <2>2, <2>6 DEF LiquidWait, LiquidSend
  <2>7. CASE UNCHANGED liquid
    BY <2>1, <2>7 DEF liquid
  <2> QED
    BY <2>4, <2>5, <2>6, <2>7, LiquidFrame
<1>7. seed' \in [block : Height, draws : Nat]
  <2>1. seed \in [block : Height, draws : Nat]
    BY DEF Types
  <2>2. CASE Restart
    BY <2>2, <1>3 DEF Restart
  <2>3. CASE VolumeSeed
    <3>1. vcur \in Int /\ Start \in Int /\ CycleLen \in Int
      BY Numbers
    <3>2. Sub(vcur, Start) \in Int
      BY <1>2, <1>3, <3>1, WordType
    <3>3. Sub(vcur, Start) % CycleLen \in Int
      BY <1>2, <3>2, WordType
    <3>4. Sub(vcur, Sub(vcur, Start) % CycleLen) \in Int
      BY <1>2, <1>3, <3>1, <3>3, WordType
    <3>5. PrevCycleStart \in Height
      BY <1>2, <3>1, <3>4, WordType DEF PrevCycleStart
    <3> QED
      BY <2>3, <3>5 DEF VolumeSeed, Seed, Seeded
  <2>4. CASE LiquidSeed
    <3>1. lstart \in Height
      BY Numbers
    <3> QED
      BY <2>4, <3>1 DEF LiquidSeed, Seed, Seeded
  <2>5. CASE VolumeDraw \/ LiquidDraw
    BY <2>1, <2>5 DEF VolumeDraw, LiquidDraw, Drawn
  <2> QED
    BY <2>1, <2>2, <2>3, <2>4, <2>5, SeedFrame
<1>8. /\ cpc' \in {"off", "volume", "liquid", "done", "failed"}
      /\ call' \in setup.calls \cup {NoCall} /\ ccur' \in Height
      /\ (cpc' /= "off" => call' \in setup.calls)
      /\ recalced' \in [Heights -> Nat]
  <2>1. /\ cpc \in {"off", "volume", "liquid", "done", "failed"}
        /\ call \in setup.calls \cup {NoCall} /\ ccur \in Height
        /\ (cpc /= "off" => call \in setup.calls)
        /\ recalced \in [Heights -> Nat]
    BY <1>2 DEF Types, TypeOK
  <2>2. \A c \in setup.calls : c.start \in Height /\ c.end \in Height
    BY <1>2, Calls, Config DEF Height, Heights
  <2>3. CASE Calc
    BY <2>1, <2>2, <2>3 DEF Calc, history
  <2>4. CASE CalcVolumeSend
    <3>1. CalcVolumeEnd \in Height
      <4>1. ccur \in Int /\ StepLen \in Int
        BY Numbers
      <4>2. call.end \in Height
        BY <2>1, <2>2, <2>4 DEF CalcVolumeSend
      <4> QED
        BY <1>2, <4>1, <4>2, WordType DEF CalcVolumeEnd
    <3>2. recalced' \in [Heights -> Nat]
      BY <2>1, <2>4 DEF CalcVolumeSend
    <3> QED
      BY <2>1, <2>4, <3>1, <3>2 DEF CalcVolumeSend
  <2>5. CASE CalcVolumeDone \/ CalcLiquidSend
    BY <2>1, <2>5 DEF CalcVolumeDone, CalcLiquidSend, history
  <2>6. CASE UNCHANGED <<command, recalced>>
    BY <2>1, <2>6 DEF command
  <2> QED
    BY <2>3, <2>4, <2>5, <2>6, CommandFrame
<1>9. crashes' \in 0 .. setup.maxCrashes /\ fails' \in 0 .. setup.maxFails
  <2>1. crashes \in 0 .. setup.maxCrashes /\ fails \in 0 .. setup.maxFails
    BY DEF Types, TypeOK
  <2> QED
    BY <2>1, <1>2, CountersFrame
<1>10. seed'.block \in Height /\ seed'.draws \in Nat
  BY <1>7
<1>11. {paid', recalced'} \subseteq [0 .. MaxHead -> Nat]
  BY <1>2, <1>5, <1>8
<1>12. TypeOK'
  BY <1>1, <1>4, <1>5, <1>6, <1>8, <1>9, <1>10, <1>11 DEF TypeOK
<1> QED
  BY <1>1, <1>5, <1>7, <1>8, <1>12 DEF Types

----------------------------------------------------------------------------
\* Where the volume goroutine is

\* What ended deep enough stays so.
LEMMA DeepStays ==
  ASSUME Types, [Next]_vars
  PROVE  \A e \in Int : Deep(e) => Deep(e)'
<1>1. Stable' = Stable /\ SyncStable' = SyncStable
  BY SetupStays, Frozen
<1>2. head \in Nat /\ Stable \in Nat /\ SyncStable \in Nat /\ head <= head'
  BY HeadStep, Numbers
<1>3. head' \in Int
  BY HeadStep, Numbers
<1> QED
  BY <1>1, <1>2, <1>3 DEF Deep

\* waitCycleEnd: the sync info keeps the syncer's distance to the head, and the wait
\* adds the job's.
LEMMA ReachedDeep ==
  ASSUME Types, NEW e \in Nat, e <= MaxHead + CycleLen, Reached(e)
  PROVE  Deep(e)
<1>1. /\ setup \in Setups /\ Stable \in Nat /\ SyncStable \in Nat /\ CycleLen \in Nat
      /\ MaxHead \in Nat /\ Word > MaxHead + CycleLen + Stable + 1 /\ Word \in Nat
      /\ syncInfo \in Nat /\ syncInfo + SyncStable <= head /\ head \in Nat
  BY Numbers
<1>2. Add(e, Stable) = e + Stable
  BY <1>1, NoWrap
<1>3. e + Stable <= syncInfo
  BY <1>1, <1>2 DEF Reached
<1> QED
  BY <1>1, <1>3 DEF Deep

\* No addition of the volume goroutine wraps.
LEMMA UnitEnds ==
  ASSUME Types
  PROVE  /\ vcur <= head => VolumeEnd = vcur + Unit
         /\ vstart <= head => Add(vstart, CycleLen) = vstart + CycleLen
         /\ lstart <= head => Add(lstart, CycleLen) = lstart + CycleLen
<1>1. /\ setup \in Setups /\ Stable \in Nat /\ CycleLen \in Nat /\ Unit \in Nat
      /\ MaxHead \in Nat /\ Word > MaxHead + CycleLen + Stable + 1 /\ Word \in Nat
      /\ head \in Nat /\ head <= MaxHead /\ Unit <= CycleLen
      /\ vcur \in Nat /\ vstart \in Nat /\ lstart \in Nat
  BY Numbers
<1>2. VolumeEnd = Add(vcur, Unit)
  BY DEF VolumeEnd, Unit
<1>3. vcur <= head => Add(vcur, Unit) = vcur + Unit
  BY <1>1, NoWrap
<1>4. vstart <= head => Add(vstart, CycleLen) = vstart + CycleLen
  BY <1>1, NoWrap
<1>5. lstart <= head => Add(lstart, CycleLen) = lstart + CycleLen
  BY <1>1, NoWrap
<1> QED
  BY <1>2, <1>3, <1>4, <1>5

\* A unit whose end is deep ends at or below the head, and within the chain's bound.
LEMMA DeepBelow ==
  ASSUME Types, NEW a \in Nat, Deep(a + Unit)
  PROVE  a + Unit <= head /\ a \in Heights /\ a + Unit - 1 \in Heights
<1>1. /\ Stable \in Nat /\ SyncStable \in Nat /\ head \in Nat /\ head <= MaxHead
      /\ MaxHead \in Nat /\ Unit \in Nat /\ Unit > 0
  BY Numbers
<1>2. a + Unit <= head
  BY <1>1 DEF Deep
<1> QED
  BY <1>1, <1>2 DEF Heights

\* The cycle that run starts with, once the chain is past the start height.
LEMMA RunCycle ==
  ASSUME Types, \A s \in Setups : StartsInTime(s), setup.enable
  PROVE  /\ CurCycleStart(head) \in Nat
         /\ OnCycle(CurCycleStart(head))
         /\ CurCycleStart(head) <= head
         /\ head - Stable < CurCycleStart(head) + CycleLen
<1>1. /\ setup \in Setups /\ head \in Nat /\ head <= MaxHead /\ setup.firstHead <= head
      /\ setup.firstHead \in Nat /\ Start \in Nat /\ Stable \in Nat
  BY Numbers
<1>2. Start + Stable <= head
  BY <1>1, InTime
<1> QED
  BY <1>1, <1>2, CurCycle

\* No step takes the volume goroutine off its cycles or ahead of the head.
LEMMA VolumeInvStep ==
  ASSUME Types, VolumeInv, \A s \in Setups : StartsInTime(s), [Next]_vars
  PROVE  VolumeInv'
<1>1. /\ setup' = setup /\ Stable' = Stable /\ SyncStable' = SyncStable /\ Quick' = Quick
      /\ Unit' = Unit /\ VolumeDraws' = VolumeDraws /\ CycleLen' = CycleLen
  BY SetupStays, Frozen
<1>2. /\ \A a : Aligned(a)' = Aligned(a)
      /\ \A a : OnCycle(a)' = OnCycle(a)
  BY <1>1, FrozenOps
<1>3. /\ head <= head' /\ head' \in Nat /\ head \in Nat /\ vcur \in Nat /\ vstart \in Nat
      /\ vlatest \in Nat /\ Unit \in Nat /\ CycleLen \in Nat /\ Unit > 0
      /\ setup \in Setups /\ MaxHead \in Nat /\ head <= MaxHead
      /\ Stable \in Nat /\ SyncStable \in Nat /\ Unit <= CycleLen
  BY Numbers, HeadStep
<1>4. \A e \in Int : Deep(e) => Deep(e)'
  BY DeepStays
<1>5. /\ vpc \in Settling \cup {"step"} => VolumeEnd = vcur + Unit
      /\ vpc /= "off" => Add(vstart, CycleLen) = vstart + CycleLen
  BY UnitEnds DEF VolumeInv, Settling
<1>6. \A a \in Int : Aligned(a) => Aligned(a + Unit)
  BY <1>3, AlignedUnits
<1>7. \A a \in Int : OnCycle(a) => OnCycle(a + CycleLen) /\ Aligned(a)
  BY <1>3, CycleUnits
<1>8. CASE Run
  <2>1. setup.enable
    BY <1>8 DEF Run
  <2>2. /\ OnCycle(CurCycleStart(head)) /\ CurCycleStart(head) <= head
        /\ CurCycleStart(head) \in Nat
    BY <2>1, RunCycle
  <2>3. running' /\ vstart' = CurCycleStart(head) /\ vpc' \in {"off", "cycle"}
    BY <1>8 DEF Run
  <2> QED
    BY <1>1, <1>2, <1>3, <2>2, <2>3 DEF VolumeInv, Settling
<1>9. CASE Restart
  BY <1>9 DEF Restart, VolumeInv, Settling
<1>10. CASE VolumeBegin
  <2>1. /\ vpc = "cycle" /\ vcur' = vstart /\ vlatest' = head /\ vstart' = vstart
        /\ running' = running /\ head' = head
        /\ vpc' = IF Quick THEN "step" ELSE "wait"
    BY <1>10 DEF VolumeBegin
  <2> QED
    BY <1>1, <1>2, <1>3, <1>7, <2>1 DEF VolumeInv, Settling
<1>11. CASE VolumeStep
  <2>1. /\ vpc = "step" /\ vlatest' = vlatest /\ running' = running /\ head' = head
        /\ vpc' \in {"step", "wait", "cycle"} /\ Quick
    BY <1>11 DEF VolumeStep, VolumeInv
  <2>2. CASE vcur < Add(vstart, CycleLen) /\ VolumeEnd < vlatest
    <3>1. vcur' = vcur + Unit /\ vpc' = vpc /\ vstart' = vstart
      BY <2>1, <2>2, <1>5, <1>11 DEF VolumeStep
    <3> QED
      BY <1>1, <1>2, <1>3, <1>5, <1>6, <2>1, <2>2, <3>1 DEF VolumeInv, Settling
  <2>3. CASE vcur < Add(vstart, CycleLen) /\ ~(VolumeEnd < vlatest)
    <3>1. vcur' = vcur /\ vpc' = "wait" /\ vstart' = vstart
      BY <2>1, <2>3, <1>11 DEF VolumeStep
    <3> QED
      BY <1>1, <1>2, <1>3, <2>1, <3>1 DEF VolumeInv, Settling
  <2>4. CASE ~(vcur < Add(vstart, CycleLen))
    <3>1. vpc' = "cycle" /\ vstart' = vstart + CycleLen
      BY <2>1, <2>4, <1>5, <1>11 DEF VolumeStep
    <3>2. vstart + CycleLen <= vcur
      BY <1>3, <1>5, <2>1, <2>4
    <3> QED
      BY <1>1, <1>2, <1>3, <1>7, <2>1, <3>1, <3>2 DEF VolumeInv, Settling
  <2> QED
    BY <2>2, <2>3, <2>4
<1>12. CASE VolumeWait
  <2>1. /\ vpc = "wait" /\ Reached(VolumeEnd) /\ running' = running /\ head' = head
        /\ vstart' = vstart /\ vcur' = vcur /\ vlatest' = vlatest
        /\ vpc' = IF VolumeDraws THEN "seed" ELSE "send"
    BY <1>12 DEF VolumeWait
  <2>2. Deep(vcur + Unit)
    <3>1. VolumeEnd = vcur + Unit /\ vcur <= head
      BY <1>5, <2>1 DEF VolumeInv, Settling
    <3>2. vcur + Unit \in Nat /\ vcur + Unit <= MaxHead + CycleLen
      BY <1>3, <3>1
    <3> QED
      BY <2>1, <3>1, <3>2, ReachedDeep
  <2>3. Deep(vcur + Unit)'
    BY <1>1, <1>3, <1>4, <2>1, <2>2
  <2> QED
    BY <1>1, <1>2, <1>3, <2>1, <2>3 DEF VolumeInv, Settling
<1>13. CASE VolumeSeed \/ VolumeDraw
  <2>1. /\ vpc \in {"seed", "draw"} /\ running' = running /\ head' = head
        /\ vstart' = vstart /\ vcur' = vcur /\ vlatest' = vlatest
        /\ vpc' \in {"draw", "send"}
    BY <1>13 DEF VolumeSeed, VolumeDraw
  <2>2. Deep(vcur + Unit)'
    BY <1>1, <1>3, <1>4, <2>1 DEF VolumeInv
  <2> QED
    BY <1>1, <1>2, <1>3, <2>1, <2>2 DEF VolumeInv, Settling
<1>14. CASE VolumeSend
  <2>1. /\ vpc = "send" /\ running' = running /\ head' = head /\ vlatest' = vlatest
    BY <1>14 DEF VolumeSend
  <2>2. vcur + Unit <= head
    BY <1>3, <2>1 DEF VolumeInv, Deep
  <2>3. CASE Quick
    <3>1. vpc' = "step" /\ vcur' = vcur + Unit /\ vstart' = vstart
      BY <1>5, <1>14, <2>1, <2>3 DEF VolumeSend, Settling
    <3> QED
      BY <1>1, <1>2, <1>3, <1>6, <2>1, <2>2, <2>3, <3>1 DEF VolumeInv, Settling
  <2>4. CASE ~Quick
    <3>1. vpc' = "cycle" /\ vstart' = vcur + Unit
      BY <1>5, <1>14, <2>1, <2>4 DEF VolumeSend, Settling
    <3>2. vcur = vstart /\ Unit = CycleLen
      BY <2>1, <2>4, <1>3, Units DEF VolumeInv, Settling
    <3> QED
      BY <1>1, <1>2, <1>3, <1>7, <2>1, <2>2, <2>4, <3>1, <3>2 DEF VolumeInv, Settling
  <2> QED
    BY <2>3, <2>4
<1>15. CASE UNCHANGED <<running, volume, first, paid, lost>>
  <2>1. /\ running' = running /\ vpc' = vpc /\ vstart' = vstart /\ vcur' = vcur
        /\ vlatest' = vlatest
    BY <1>15 DEF volume
  <2>2. Deep(vcur + Unit) => Deep(vcur + Unit)'
    BY <1>1, <1>3, <1>4, <2>1
  <2> QED
    BY <1>1, <1>2, <1>3, <2>1, <2>2 DEF VolumeInv, Settling
<1> QED
  BY <1>8, <1>9, <1>10, <1>11, <1>12, <1>13, <1>14, <1>15, VolumeFrame

----------------------------------------------------------------------------
\* What was settled

\* A height of the unit at a that lies at or above another unit's start: that unit does
\* not start behind a.
LEMMA UnitOf ==
  ASSUME setup \in Setups, NEW a \in Int, NEW b \in Int, NEW h \in Int,
         Aligned(b), InUnit(h, a), b <= h
  PROVE  b <= a
<1>1. Aligned(a) /\ h < a + Unit /\ Unit \in Nat
  BY Units DEF InUnit
<1>2. a < b => a + Unit <= b
  BY <1>1, AlignedUnits
<1> QED
  BY <1>1, <1>2

\* sendVolumeRewards settles the heights of the unit at vcur, and they are heights of
\* the chain.
LEMMA SettledUnit ==
  ASSUME Types, VolumeInv, vpc = "send"
  PROVE  /\ \A h \in Int : h \in SettledRange <=> vcur <= h /\ h < vcur + Unit
         /\ SettledRange \subseteq Heights
         /\ \A h \in SettledRange : InUnit(h, vcur)
         /\ vcur \in Heights /\ Deep(vcur + Unit) /\ VolumeEnd = vcur + Unit
<1>1. vcur \in Nat /\ Unit \in Nat /\ Unit > 0 /\ head \in Nat /\ MaxHead \in Nat
  BY Numbers
<1>2. vcur <= head /\ Aligned(vcur) /\ Deep(vcur + Unit)
  BY DEF VolumeInv, Settling
<1>3. VolumeEnd = vcur + Unit
  BY <1>2, UnitEnds
<1>4. vcur + Unit <= head /\ vcur \in Heights /\ vcur + Unit - 1 \in Heights
  BY <1>1, <1>2, DeepBelow
<1>5. SettledRange = vcur .. (vcur + Unit - 1)
  BY <1>1, <1>3 DEF SettledRange
<1>6. \A h \in Int : h \in SettledRange <=> vcur <= h /\ h < vcur + Unit
  BY <1>1, <1>5
<1>7. SettledRange \subseteq Heights
  BY <1>1, <1>4, <1>5 DEF Heights
<1>8. \A h \in SettledRange : InUnit(h, vcur)
  BY <1>1, <1>2, <1>5 DEF InUnit
<1> QED
  BY <1>2, <1>3, <1>4, <1>6, <1>7, <1>8

\* No step pays a height twice: what is paid lies before the cycle that is open.
LEMMA PaidInvStep ==
  ASSUME Types, VolumeInv, PaidInv, \A s \in Setups : StartsInTime(s), [Next]_vars
  PROVE  PaidInv'
<1>1. /\ setup' = setup /\ Stable' = Stable /\ SyncStable' = SyncStable /\ Quick' = Quick
      /\ Unit' = Unit /\ CycleLen' = CycleLen /\ Heights' = Heights
  BY SetupStays, Frozen
<1>2. \A h, a : InUnit(h, a)' = InUnit(h, a)
  BY <1>1, FrozenOps
<1>3. /\ head \in Nat /\ vcur \in Nat /\ vstart \in Nat
      /\ vlatest \in Nat /\ Unit \in Nat /\ CycleLen \in Nat /\ Unit > 0
      /\ setup \in Setups /\ MaxHead \in Nat /\ head <= MaxHead
      /\ Stable \in Nat /\ SyncStable \in Nat /\ Unit <= CycleLen
      /\ paid \in [Heights -> Nat]
  BY Numbers
<1>4. \A a \in Heights : Deep(a + Unit) => Deep(a + Unit)'
  <2>1. \A a \in Heights : a + Unit \in Int
    BY <1>3 DEF Heights
  <2> QED
    BY <1>1, <2>1, DeepStays
<1>5. /\ \A h \in Heights : paid[h] > 0 => \E a \in Heights : InUnit(h, a) /\ Deep(a + Unit)
      /\ \A h \in Heights : paid[h] <= 1
  BY DEF PaidInv
<1>6. ASSUME paid' = paid
      PROVE  /\ \A h \in Heights : paid'[h] > 0 =>
                  \E a \in Heights : InUnit(h, a)' /\ Deep(a + Unit)'
             /\ \A h \in Heights : paid'[h] <= 1
  BY <1>2, <1>4, <1>5, <1>6
<1>7. Heights \subseteq Int
  BY <1>3 DEF Heights
<1>8. CASE Run
  <2>1. paid' = paid /\ vpc' \in {"off", "cycle"} /\ vstart' = CurCycleStart(head)
    BY <1>8 DEF Run
  <2>2. setup.enable
    BY <1>8 DEF Run
  <2>3. /\ CurCycleStart(head) \in Nat /\ OnCycle(CurCycleStart(head))
        /\ head - Stable < CurCycleStart(head) + CycleLen
    BY <2>2, RunCycle
  <2>4. ASSUME ~Quick, NEW h \in Heights, h >= CurCycleStart(head), paid[h] > 0
        PROVE  FALSE
    <3>1. PICK a \in Heights : InUnit(h, a) /\ Deep(a + Unit)
      BY <1>5, <2>4
    <3>2. Aligned(CurCycleStart(head)) /\ CurCycleStart(head) \in Int
      BY <1>3, <2>3, CycleUnits
    <3>3. CurCycleStart(head) <= a
      BY <1>3, <1>7, <2>4, <3>1, <3>2, UnitOf
    <3>4. Unit = CycleLen
      BY <1>3, <2>4, Units
    <3> QED
      BY <1>3, <1>7, <2>3, <3>1, <3>3, <3>4 DEF Deep
  <2>5. vpc' = "cycle" /\ ~Quick => \A h \in Heights : h >= vstart' => paid'[h] = 0
    BY <1>3, <2>1, <2>4
  <2> QED
    BY <1>1, <1>6, <2>1, <2>5 DEF PaidInv, Settling
<1>9. CASE Restart
  <2>1. paid' = paid /\ vpc' = "off"
    BY <1>9 DEF Restart
  <2> QED
    BY <1>1, <1>6, <2>1 DEF PaidInv, Settling
<1>10. CASE VolumeBegin
  <2>1. /\ vpc = "cycle" /\ vcur' = vstart /\ vlatest' = head /\ vstart' = vstart
        /\ running' = running /\ head' = head /\ paid' = paid
        /\ vpc' = IF Quick THEN "step" ELSE "wait"
    BY <1>10 DEF VolumeBegin, history
  <2>2. CASE Quick
    <3>1. Stable + SyncStable > 0
      <4>1. setup.enable
        BY <2>1 DEF Types, VolumeInv
      <4> QED
        BY <1>3, <2>2, <4>1, InTime
    <3>2. \A h \in Heights : paid[h] > 0 =>
            \E a \in Heights : InUnit(h, a) /\ a + Unit < head
      <4>1. \A a \in Heights : Deep(a + Unit) => a + Unit < head
        BY <1>3, <1>7, <3>1 DEF Deep
      <4> QED
        BY <1>5, <4>1
    <3> QED
      BY <1>1, <1>2, <1>6, <2>1, <2>2, <3>2 DEF PaidInv, Settling
  <2>3. CASE ~Quick
    BY <1>1, <1>6, <2>1, <2>3 DEF PaidInv, Settling
  <2> QED
    BY <2>2, <2>3
<1>11. CASE VolumeStep
  <2>1. /\ vpc = "step" /\ vlatest' = vlatest /\ running' = running /\ head' = head
        /\ paid' = paid /\ vpc' \in {"step", "wait", "cycle"} /\ Quick
        /\ Aligned(vcur) /\ vcur <= head
    BY <1>11 DEF VolumeStep, VolumeInv, history
  <2>2. VolumeEnd = vcur + Unit
    BY <2>1, UnitEnds
  <2>3. \A h \in Heights : paid[h] > 0 =>
          h < vcur \/ \E a \in Heights : InUnit(h, a) /\ a + Unit < vlatest
    BY <2>1 DEF PaidInv
  <2>4. CASE vpc' = "step"
    <3>1. vcur' = vcur + Unit
      BY <2>1, <2>2, <2>4, <1>11 DEF VolumeStep
    <3>2. \A h \in Heights : h < vcur => h < vcur'
      BY <1>3, <1>7, <3>1
    <3>3. \A h \in Heights : paid'[h] > 0 =>
            h < vcur' \/ \E a \in Heights : InUnit(h, a)' /\ a + Unit < vlatest'
      BY <1>2, <2>1, <2>3, <3>2
    <3> QED
      BY <1>1, <1>6, <2>1, <2>4, <3>3 DEF PaidInv, Settling
  <2>5. CASE vpc' = "wait"
    <3>1. vcur' = vcur /\ ~(VolumeEnd < vlatest)
      BY <2>1, <2>5, <1>11 DEF VolumeStep
    <3>2. ASSUME NEW h \in Heights, h >= vcur, paid[h] > 0 PROVE FALSE
      <4>1. PICK a \in Heights : InUnit(h, a) /\ a + Unit < vlatest
        BY <1>3, <1>7, <2>3, <3>2
      <4>2. vcur <= a
        BY <1>3, <1>7, <2>1, <3>2, <4>1, UnitOf
      <4> QED
        BY <1>3, <1>7, <2>2, <3>1, <4>1, <4>2
    <3>3. \A h \in Heights : h >= vcur' => paid'[h] = 0
      BY <1>3, <2>1, <3>1, <3>2
    <3> QED
      BY <1>1, <1>6, <2>1, <2>5, <3>3 DEF PaidInv, Settling
  <2>6. CASE vpc' = "cycle"
    BY <1>1, <1>6, <2>1, <2>6 DEF PaidInv, Settling
  <2> QED
    BY <2>1, <2>4, <2>5, <2>6
<1>12. CASE VolumeWait \/ VolumeSeed \/ VolumeDraw
  <2>1. /\ vpc \in Settling /\ vpc' \in Settling /\ paid' = paid /\ vcur' = vcur
    BY <1>12 DEF VolumeWait, VolumeSeed, VolumeDraw, Settling, history
  <2>2. \A h \in Heights : h >= vcur' => paid'[h] = 0
    BY <2>1 DEF PaidInv
  <2> QED
    BY <1>1, <1>6, <2>1, <2>2 DEF PaidInv, Settling
<1>13. CASE VolumeSend
  <2>1. vpc = "send"
    BY <1>13 DEF VolumeSend
  <2>2. /\ \A h \in Int : h \in SettledRange <=> vcur <= h /\ h < vcur + Unit
        /\ \A h \in SettledRange : InUnit(h, vcur)
        /\ vcur \in Heights /\ Deep(vcur + Unit) /\ VolumeEnd = vcur + Unit
    BY <2>1, SettledUnit
  <2>3. \A h \in Heights : h >= vcur => paid[h] = 0
    BY <2>1 DEF PaidInv, Settling
  <2>4. \A h \in Heights : \/ paid'[h] = paid[h]
                           \/ paid'[h] = paid[h] + 1 /\ h \in SettledRange
    BY <1>3, <1>13 DEF VolumeSend
  <2>5. \A h \in Heights : \/ paid'[h] = paid[h]
                           \/ /\ paid'[h] = 1 /\ vcur <= h /\ h < vcur + Unit
                              /\ InUnit(h, vcur)
    BY <1>3, <1>7, <2>2, <2>3, <2>4
  <2>6. \A h \in Heights : paid'[h] <= 1
    BY <1>5, <2>5
  <2>7. \A h \in Heights : paid'[h] > 0 =>
          \E a \in Heights : InUnit(h, a)' /\ Deep(a + Unit)'
    BY <1>2, <1>4, <1>5, <2>2, <2>5
  <2>8. \A h \in Heights : h >= vcur + Unit => paid'[h] = 0
    BY <1>3, <1>7, <2>3, <2>5
  <2>9. CASE Quick
    <3>1. vpc' = "step" /\ vcur' = vcur + Unit
      BY <1>13, <2>2, <2>9 DEF VolumeSend
    <3>2. \A h \in Heights : paid'[h] > 0 => h < vcur'
      BY <1>3, <1>7, <2>8, <3>1
    <3> QED
      BY <1>1, <2>6, <2>7, <3>1, <3>2 DEF PaidInv, Settling
  <2>10. CASE ~Quick
    <3>1. vpc' = "cycle" /\ vstart' = vcur + Unit
      BY <1>13, <2>2, <2>10 DEF VolumeSend
    <3> QED
      BY <1>1, <2>6, <2>7, <2>8, <3>1 DEF PaidInv, Settling
  <2> QED
    BY <2>9, <2>10
<1>14. CASE UNCHANGED <<running, volume, first, paid, lost>>
  <2>1. /\ paid' = paid /\ vpc' = vpc /\ vstart' = vstart /\ vcur' = vcur
        /\ vlatest' = vlatest
    BY <1>14 DEF volume
  <2>2. vpc' = "step" =>
       \A h \in Heights : paid'[h] > 0 =>
         h < vcur' \/ \E a \in Heights : InUnit(h, a)' /\ a + Unit < vlatest'
    BY <1>2, <2>1 DEF PaidInv
  <2> QED
    BY <1>1, <1>6, <2>1, <2>2 DEF PaidInv, Settling
<1> QED
  BY <1>8, <1>9, <1>10, <1>11, <1>12, <1>13, <1>14, VolumeFrame

----------------------------------------------------------------------------
\* What the volume goroutine has passed

\* No step leaves a finished height unpaid behind the goroutine.
LEMMA PassedInvStep ==
  ASSUME Types, VolumeInv, PassedInv, \A s \in Setups : StartsInTime(s), [Next]_vars
  PROVE  PassedInv'
<1>1. /\ setup' = setup /\ Quick' = Quick /\ TradeExchanges' = TradeExchanges
  BY SetupStays, Frozen
<1>2. /\ head \in Nat /\ vcur \in Nat /\ vstart \in Nat /\ first \in Nat
      /\ Unit \in Nat /\ setup \in Setups /\ MaxHead \in Nat /\ head <= MaxHead
      /\ paid \in [Heights -> Nat] /\ Heights = 0 .. MaxHead
  BY Numbers DEF Heights
<1> SUFFICES ASSUME ~Quick, TradeExchanges /= {},
                    NEW h \in first' .. (vstart' - 1)
             PROVE  paid'[h] > 0 \/ h \in lost'
  BY <1>1 DEF PassedInv
<1>3. \A i \in first .. (vstart - 1) : paid[i] > 0 \/ i \in lost
  BY DEF PassedInv
<1>4. CASE Run
  <2>1. setup.enable /\ paid' = paid /\ vstart' = CurCycleStart(head)
    BY <1>4 DEF Run
  <2>2. CurCycleStart(head) \in Nat /\ CurCycleStart(head) <= head
    BY <2>1, RunCycle
  <2>3. CASE crashes = 0
    <3>1. first' = vstart'
      BY <2>1, <2>3, <1>4 DEF Run
    <3> QED
      BY <2>1, <2>2, <3>1
  <2>4. CASE crashes /= 0
    <3>1. /\ lost' = lost \cup {i \in vstart .. CurCycleStart(head) - 1 : paid[i] = 0}
          /\ first' = first
      BY <2>4, <1>4 DEF Run
    <3>2. h \in first .. (CurCycleStart(head) - 1) /\ h \in Heights
      BY <1>2, <2>1, <2>2, <3>1
    <3>3. CASE h < vstart
      <4>1. h \in first .. (vstart - 1)
        BY <1>2, <2>2, <3>2, <3>3
      <4> QED
        BY <1>3, <2>1, <3>1, <4>1
    <3>4. CASE h >= vstart
      <4>1. h \in vstart .. CurCycleStart(head) - 1
        BY <1>2, <2>2, <3>2, <3>4
      <4>2. paid[h] \in Nat
        BY <1>2, <3>2
      <4> QED
        BY <2>1, <3>1, <4>1, <4>2
    <3> QED
      BY <1>2, <3>2, <3>3, <3>4
  <2> QED
    BY <2>3, <2>4
<1>5. CASE VolumeSend
  <2>1. vpc = "send"
    BY <1>5 DEF VolumeSend
  <2>2. /\ \A i \in Int : i \in SettledRange <=> vcur <= i /\ i < vcur + Unit
        /\ SettledRange \subseteq Heights /\ VolumeEnd = vcur + Unit
    BY <2>1, SettledUnit
  <2>3. vcur = vstart
    BY <2>1 DEF VolumeInv, Settling
  <2>4. first' = first /\ vstart' = vstart + Unit
    BY <1>5, <2>2, <2>3 DEF VolumeSend
  <2>5. h \in first .. (vstart + Unit - 1) /\ h \in Int
    BY <1>2, <2>4
  <2>6. CASE h < vstart
    <3>1. h \in first .. (vstart - 1)
      BY <1>2, <2>5, <2>6
    <3>2. h \notin SettledRange
      BY <1>2, <2>2, <2>3, <2>5, <2>6
    <3>3. h \in Heights /\ paid[h] > 0 => paid'[h] = paid[h]
      BY <1>2, <1>5, <3>2 DEF VolumeSend
    <3>4. h \in Heights
      <4>1. vstart <= head
        BY <2>1 DEF VolumeInv
      <4> QED
        BY <1>2, <3>1, <4>1
    <3>5. h \in lost => h \in lost'
      BY <1>5 DEF VolumeSend
    <3> QED
      BY <1>3, <3>1, <3>3, <3>4, <3>5
  <2>7. CASE h >= vstart
    <3>1. h \in SettledRange /\ h \in Heights
      BY <1>2, <2>2, <2>3, <2>5, <2>7
    <3>2. paid'[h] = paid[h] + 1 \/ h \in lost'
      BY <1>2, <1>5, <3>1 DEF VolumeSend
    <3>3. paid[h] \in Nat
      BY <1>2, <3>1
    <3> QED
      BY <3>2, <3>3
  <2> QED
    BY <1>2, <2>5, <2>6, <2>7
<1>6. CASE \/ Restart \/ VolumeBegin \/ VolumeStep \/ VolumeWait \/ VolumeSeed \/ VolumeDraw
           \/ UNCHANGED <<running, volume, first, paid, lost>>
  <2>1. ~VolumeStep
    BY DEF VolumeStep, VolumeInv
  <2>2. first' = first /\ vstart' = vstart /\ paid' = paid /\ lost' = lost
    BY <1>6, <2>1 DEF Restart, VolumeBegin, VolumeWait, VolumeSeed, VolumeDraw, volume, history
  <2> QED
    BY <1>3, <2>2
<1> QED
  BY <1>4, <1>5, <1>6, VolumeFrame

----------------------------------------------------------------------------
\* The command

\* calcVolumeRewards settles a unit of the range that the command was given.
LEMMA CalcUnit ==
  ASSUME Types, CalcInv, cpc = "volume", ccur < call.end
  PROVE  /\ CalcVolumeEnd = ccur + Unit
         /\ ccur + Unit <= call.end /\ (call.end - (ccur + Unit)) % Unit = 0
         /\ ~Quick => ccur + Unit = call.end
         /\ ccur \in Heights
<1>1. /\ setup \in Setups /\ Unit \in Nat /\ Unit > 0 /\ ccur \in Nat /\ MaxHead \in Nat
      /\ CycleLen \in Nat /\ Word \in Nat /\ Word > MaxHead + CycleLen + Stable + 1
      /\ Stable \in Nat /\ Unit <= CycleLen /\ StepLen \in Nat
  BY Numbers
<1>2. call.end \in Nat /\ call.end <= MaxHead
  BY <1>1, Calls DEF Types, Heights
<1>3. (call.end - ccur) % Unit = 0 /\ (~Quick => ccur + Unit = call.end \/ ccur = call.end)
  BY DEF CalcInv
<1>4. ccur + Unit <= call.end /\ (call.end - (ccur + Unit)) % Unit = 0
  <2> DEFINE d == call.end - ccur
  <2>1. d \in Nat /\ d > 0 /\ d % Unit = 0
    BY <1>1, <1>2, <1>3
  <2>2. Unit <= d /\ (d - Unit) % Unit = 0
    BY <1>1, <2>1, MultipleLeft
  <2>3. d - Unit = call.end - (ccur + Unit) /\ ccur + Unit <= call.end
    BY <1>1, <1>2, <2>2
  <2> QED
    BY <2>2, <2>3
<1>5. CASE Quick
  <2>1. Unit = StepLen
    BY <1>1, <1>5, Units
  <2>2. CalcVolumeEnd = Add(ccur, Unit)
    BY <1>5, <2>1 DEF CalcVolumeEnd
  <2>3. Add(ccur, Unit) = ccur + Unit
    BY <1>1, <1>2, <1>4, NoWrap
  <2> QED
    BY <1>1, <1>2, <1>4, <1>5, <2>2, <2>3 DEF Heights
<1>6. CASE ~Quick
  <2>1. Unit = CycleLen /\ CalcVolumeEnd = call.end
    BY <1>1, <1>6, Units DEF CalcVolumeEnd
  <2>2. ccur + Unit = call.end
    BY <1>1, <1>2, <1>3, <1>6
  <2> QED
    BY <1>1, <1>2, <1>4, <2>1, <2>2 DEF Heights
<1> QED
  BY <1>5, <1>6

\* checkStartEndHeight lets a range of whole units pass.
LEMMA CheckedRange ==
  ASSUME setup \in Setups, NEW c \in setup.calls, CheckStartEndHeight(c), CalcVolumes(c)
  PROVE  /\ c.start < c.end /\ (c.end - c.start) % Unit = 0
         /\ ~Quick => c.start + Unit = c.end
<1>1. /\ CycleLen \in Nat /\ MaxHead \in Nat /\ Word \in Nat /\ Stable \in Nat
      /\ Word > MaxHead + CycleLen + Stable + 1 /\ Unit \in Nat /\ Unit > 0
      /\ CycleLen > 0
  BY Config, Units
<1>2. c.start \in Nat /\ c.end \in Nat /\ c.start <= MaxHead /\ c.end <= MaxHead
  BY Calls DEF Heights
<1>3. c.start < c.end
  BY DEF CheckStartEndHeight
<1>4. CASE Quick
  <2>1. (c.end - c.start) % StepLen = 0
    BY <1>4 DEF CheckStartEndHeight
  <2> QED
    BY <1>3, <1>4, <2>1, Units
<1>5. CASE ~Quick
  <2>1. Unit = CycleLen
    BY <1>5, Units
  <2>2. Add(c.start, CycleLen) = c.end
    BY <1>5 DEF CheckStartEndHeight
  <2>3. Add(c.start, CycleLen) = c.start + CycleLen
    BY <1>1, <1>2, NoWrap
  <2>4. c.end - c.start = Unit
    BY <1>1, <1>2, <2>1, <2>2, <2>3
  <2>5. Unit % Unit = 0
    <3>1. Unit = 1 * Unit
      BY <1>1
    <3> QED
      BY <1>1, <3>1, Multiple, 1 \in Nat
  <2> QED
    BY <1>1, <1>2, <1>3, <2>1, <2>2, <2>3, <2>4, <2>5
<1> QED
  BY <1>4, <1>5

\* No step makes calcRewards pay a height twice.
LEMMA CalcInvStep ==
  ASSUME Types, CalcInv, [Next]_vars
  PROVE  CalcInv'
<1>1. /\ setup' = setup /\ Quick' = Quick /\ Unit' = Unit /\ Heights' = Heights
      /\ TradeExchanges' = TradeExchanges
  BY SetupStays, Frozen
<1>2. /\ setup \in Setups /\ Unit \in Nat /\ Unit > 0 /\ ccur \in Nat /\ MaxHead \in Nat
      /\ recalced \in [Heights -> Nat] /\ Heights = 0 .. MaxHead
      /\ CycleLen \in Nat /\ Stable \in Nat /\ SyncStable \in Nat /\ head \in Nat
  BY Numbers DEF Heights
<1>3. \A h \in Heights : Deep(h + 1) => Deep(h + 1)'
  <2>1. \A h \in Heights : h + 1 \in Int
    BY <1>2
  <2> QED
    BY <2>1, DeepStays
<1>4. \A h \in Heights : recalced[h] <= 1 /\ (recalced[h] > 0 => Deep(h + 1))
  BY DEF CalcInv
<1>5. ASSUME recalced' = recalced
      PROVE  \A h \in Heights : recalced'[h] <= 1 /\ (recalced'[h] > 0 => Deep(h + 1)')
  BY <1>3, <1>4, <1>5
<1>6. CASE Calc
  <2>1. /\ cpc = "off" /\ recalced' = recalced /\ call' \in setup.calls
        /\ ccur' = call'.start
        /\ cpc' = IF ~(CheckStartEndHeight(call') /\ CheckSampleHeight(call')) THEN "failed"
                  ELSE IF CalcVolumes(call') THEN "volume" ELSE "liquid"
    BY <1>6 DEF Calc, history
  <2>2. \A h \in Heights : recalced'[h] = 0
    BY <2>1 DEF CalcInv
  <2>3. call'.start \in Heights /\ call'.end \in Heights
    BY <1>2, <2>1, Calls
  <2>4. \A h \in Heights : Recalced(h)' = 0
    BY <1>2, <2>1, <2>3 DEF Recalced
  <2>5. CalcVolumes(call)' <=> CalcVolumes(call')
    BY DEF CalcVolumes
  <2>6. CASE cpc' = "volume"
    <3>1. CheckStartEndHeight(call') /\ CalcVolumes(call')
      BY <2>1, <2>6
    <3>2. /\ call'.start < call'.end /\ (call'.end - call'.start) % Unit = 0
          /\ ~Quick => call'.start + Unit = call'.end
      BY <1>2, <2>1, <3>1, CheckedRange
    <3>3. call'.start <= ccur' /\ ccur' <= call'.end
      BY <1>2, <2>1, <2>3, <3>2
    <3>4. (call'.end - ccur') % Unit = 0 /\ (~Quick => ccur' + Unit = call'.end)
      BY <2>1, <3>2
    <3> QED
      BY <1>1, <1>5, <2>1, <2>2, <2>4, <2>5, <2>6, <3>1, <3>3, <3>4 DEF CalcInv
  <2>7. CASE cpc' \in {"failed", "liquid"}
    <3>1. cpc' = "liquid" => ~CalcVolumes(call')
      BY <2>1
    <3> QED
      BY <1>1, <1>5, <2>1, <2>2, <2>4, <2>5, <2>7, <3>1 DEF CalcInv
  <2> QED
    BY <2>1, <2>6, <2>7
<1>7. CASE CalcVolumeSend
  <2>1. /\ cpc = "volume" /\ ccur < call.end /\ Reached(CalcVolumeEnd) /\ call' = call
        /\ head' = head
    BY <1>7 DEF CalcVolumeSend
  <2>2. /\ CalcVolumeEnd = ccur + Unit
        /\ ccur + Unit <= call.end /\ (call.end - (ccur + Unit)) % Unit = 0
        /\ ~Quick => ccur + Unit = call.end
        /\ ccur \in Heights
    BY <2>1, CalcUnit
  <2>3. call.start \in Heights /\ call.end \in Heights
    BY <1>2, <2>1, Calls DEF Types
  <2>4. CASE fails' = fails + 1 /\ cpc' = "failed" /\ UNCHANGED <<recalced, ccur>>
    BY <1>1, <1>5, <2>4 DEF CalcInv
  <2>5. CASE /\ recalced' = [h \in DOMAIN recalced |->
                         IF TradeExchanges /= {} /\ h \in ccur .. (CalcVolumeEnd - 1)
                           THEN recalced[h] + 1 ELSE recalced[h]]
             /\ ccur' = CalcVolumeEnd
             /\ UNCHANGED <<cpc, fails>>
    <3>1. Deep(ccur + Unit)
      <4>1. ccur + Unit \in Nat /\ ccur + Unit <= MaxHead + CycleLen
        BY <1>2, <2>2, <2>3
      <4> QED
        BY <2>1, <2>2, <4>1, ReachedDeep
    <3>2. /\ CalcVolumes(call) /\ call.start <= ccur
          /\ \A h \in Heights : recalced[h] = Recalced(h)
      BY <2>1 DEF CalcInv
    <3>3. \A h \in Heights :
            recalced'[h] = IF TradeExchanges /= {} /\ h \in ccur .. (CalcVolumeEnd - 1)
                             THEN recalced[h] + 1 ELSE recalced[h]
      BY <1>2, <2>5
    <3>4. ASSUME NEW h \in Heights
          PROVE  recalced'[h] = IF TradeExchanges /= {} /\ h \in call.start .. (ccur + Unit - 1)
                                  THEN 1 ELSE 0
      <4>1. recalced[h] = IF TradeExchanges /= {} /\ h \in call.start .. (ccur - 1)
                            THEN 1 ELSE 0
        BY <3>2 DEF Recalced
      <4>2. recalced'[h] = IF TradeExchanges /= {} /\ h \in ccur .. (ccur + Unit - 1)
                             THEN recalced[h] + 1 ELSE recalced[h]
        <5>1. CalcVolumeEnd - 1 = ccur + Unit - 1
          BY <1>2, <2>2
        <5> QED
          BY <3>3, <5>1
      <4>3. /\ h \in call.start .. (ccur - 1) <=> call.start <= h /\ h < ccur
            /\ h \in ccur .. (ccur + Unit - 1) <=> ccur <= h /\ h < ccur + Unit
            /\ h \in call.start .. (ccur + Unit - 1) <=> call.start <= h /\ h < ccur + Unit
        <5>1. h \in Int /\ call.start \in Int /\ ccur \in Int /\ Unit \in Int
          BY <1>2, <2>3
        <5> QED
          BY <5>1
      <4>4. call.start \in Nat /\ h \in Nat /\ call.start <= ccur
        BY <1>2, <2>3, <3>2
      <4>5. CASE h < ccur
        BY <1>2, <4>1, <4>2, <4>3, <4>4, <4>5
      <4>6. CASE h >= ccur
        BY <1>2, <4>1, <4>2, <4>3, <4>4, <4>6
      <4> QED
        BY <1>2, <4>4, <4>5, <4>6
    <3>5. \A h \in Heights : Recalced(h)' = recalced'[h]
      <4>1. call' = call /\ ccur' = ccur + Unit
        BY <2>1, <2>2, <2>5
      <4>2. CalcVolumes(call')
        BY <3>2, <4>1
      <4>3. \A h \in Heights :
              Recalced(h)' = IF TradeExchanges /= {} /\ h \in call.start .. (ccur + Unit - 1)
                               THEN 1 ELSE 0
        <5>1. ccur' - 1 = ccur + Unit - 1
          BY <1>2, <4>1
        <5> QED
          BY <1>1, <4>1, <4>2, <5>1 DEF Recalced, CalcVolumes
      <4> QED
        BY <3>4, <4>3
    <3>6. \A h \in Heights : recalced'[h] <= 1 /\ (recalced'[h] > 0 => Deep(h + 1)')
      <4> TAKE h \in Heights
      <4>1. recalced'[h] > 0 => h < ccur + Unit
        BY <1>2, <2>3, <3>4
      <4>2. h < ccur + Unit => Deep(h + 1)
        BY <1>2, <3>1 DEF Deep
      <4> QED
        BY <1>3, <3>4, <4>1, <4>2
    <3>7. /\ call'.start <= ccur' /\ ccur' <= call'.end
          /\ (call'.end - ccur') % Unit = 0
          /\ ~Quick => ccur' = call'.end
      <4>1. call' = call /\ ccur' = ccur + Unit /\ call.start <= ccur
        BY <2>1, <2>2, <2>5, <3>2
      <4>2. call.start \in Nat
        BY <1>2, <2>3
      <4>3. call.start <= ccur + Unit
        BY <1>2, <4>1, <4>2
      <4> QED
        BY <2>2, <4>1, <4>3
    <3> QED
      BY <1>1, <2>1, <2>5, <3>2, <3>5, <3>6, <3>7 DEF CalcInv, CalcVolumes
  <2> QED
    BY <1>7, <2>4, <2>5 DEF CalcVolumeSend
<1>8. CASE CalcVolumeDone
  <2>1. /\ cpc = "volume" /\ ccur >= call.end /\ call' = call /\ ccur' = ccur
        /\ recalced' = recalced /\ cpc' \in {"liquid", "done"}
    BY <1>8 DEF CalcVolumeDone, history
  <2>2. ccur = call.end
    <3>1. call.end \in Heights
      BY <1>2, <2>1, Calls DEF Types
    <3> QED
      BY <1>2, <2>1, <3>1 DEF CalcInv
  <2>3. \A h \in Heights : recalced'[h] = Recalced(h)'
    BY <1>1, <2>1 DEF CalcInv, Recalced, CalcVolumes
  <2> QED
    BY <1>1, <1>5, <2>1, <2>2, <2>3 DEF CalcInv
<1>9. CASE CalcLiquidSend
  <2>1. /\ cpc = "liquid" /\ call' = call /\ ccur' = ccur
        /\ recalced' = recalced /\ cpc' \in {"failed", "done"}
    BY <1>9 DEF CalcLiquidSend
  <2>2. \A h \in Heights : recalced'[h] = Recalced(h)'
    BY <1>1, <2>1 DEF CalcInv, Recalced, CalcVolumes
  <2> QED
    BY <1>1, <1>5, <2>1, <2>2 DEF CalcInv, CalcVolumes
<1>10. CASE UNCHANGED <<command, recalced>>
  <2>1. cpc' = cpc /\ call' = call /\ ccur' = ccur /\ recalced' = recalced
    BY <1>10 DEF command
  <2>2. \A h \in Heights : Recalced(h)' = Recalced(h)
    BY <1>1, <2>1 DEF Recalced, CalcVolumes
  <2> QED
    BY <1>1, <1>5, <2>1, <2>2 DEF CalcInv, CalcVolumes
<1> QED
  BY <1>6, <1>7, <1>8, <1>9, <1>10, CommandFrame

----------------------------------------------------------------------------
\* The liquidity goroutine

\* No step gives the liquidity goroutine a sample that is not final.
LEMMA LiquidInvStep ==
  ASSUME Types, VolumeInv, LiquidInv, \A s \in Setups : StartsInTime(s), [Next]_vars
  PROVE  LiquidInv'
<1>1. setup' = setup /\ Repeatable' = Repeatable /\ Archive' = Archive
  BY SetupStays, Frozen
<1>2. \A a : CycleSample(a)' = CycleSample(a)
  BY <1>1, FrozenOps
<1>3. /\ head \in Nat /\ head' \in Nat /\ head <= head' /\ lstart \in Nat /\ setup \in Setups
      /\ MaxHead \in Nat /\ head <= MaxHead /\ CycleLen \in Nat /\ Stable \in Nat
      /\ SyncStable \in Nat /\ sample \in Nat
  BY Numbers, HeadStep
<1>4. Deep(sample) => Deep(sample)' \/ sample' /= sample
  BY <1>3, DeepStays DEF Deep
<1>5. CASE Run
  <2>1. setup.enable /\ lstart' = CurCycleStart(head) /\ lpc' \in {"off", "seed"}
    BY <1>5 DEF Run
  <2>2. CurCycleStart(head) <= head /\ CurCycleStart(head) \in Nat
    BY <2>1, RunCycle
  <2> QED
    BY <1>3, <2>1, <2>2 DEF LiquidInv
<1>6. CASE Restart
  BY <1>6 DEF Restart, LiquidInv
<1>7. CASE LiquidSeed
  <2>1. /\ lpc \in {"seed", "seedAgain"} /\ seed' = Seeded(lstart) /\ head' = head
        /\ lpc' = IF lpc = "seed" THEN "draw" ELSE "drawAgain"
        /\ lstart' = lstart /\ sample' = sample
    BY <1>7 DEF LiquidSeed, Seed
  <2>2. Seeded(lstart)' = Seeded(lstart)
    BY <2>1 DEF Seeded
  <2> QED
    BY <1>1, <1>2, <1>3, <1>4, <2>1, <2>2 DEF LiquidInv
<1>8. CASE LiquidDraw
  <2>1. /\ lpc \in {"draw", "drawAgain"} /\ sample' = RandomSample(lstart, seed)
        /\ head' = head /\ lstart' = lstart
        /\ lpc' = IF lpc = "draw" THEN "waitSample" ELSE "send"
    BY <1>8 DEF LiquidDraw
  <2>2. ASSUME Repeatable PROVE sample' = CycleSample(lstart)
    <3>1. seed = Seeded(lstart)
      BY <2>1, <2>2 DEF LiquidInv
    <3> QED
      BY <2>1, <3>1 DEF CycleSample
  <2>3. ASSUME Repeatable, lpc = "drawAgain" PROVE Deep(sample)'
    <3>1. sample = CycleSample(lstart) /\ Deep(sample)
      BY <2>3 DEF LiquidInv
    <3>2. sample' = sample
      BY <2>2, <2>3, <3>1
    <3> QED
      BY <1>4, <3>1, <3>2
  <2> QED
    BY <1>1, <1>2, <1>3, <2>1, <2>2, <2>3 DEF LiquidInv
<1>9. CASE LiquidWait
  <2>1. lpc \in {"waitSample", "waitEnd"} /\ head' = head /\ sample' = sample
    BY <1>9 DEF LiquidWait
  <2>2. CASE lpc = "waitSample"
    <3>1. /\ Reached(sample) /\ lstart' = lstart
          /\ lpc' = IF Archive THEN "seedAgain" ELSE "send"
      BY <2>2, <1>9 DEF LiquidWait
    <3>2. ASSUME Repeatable PROVE sample = CycleSample(lstart) /\ Deep(sample)
      <4>1. sample = CycleSample(lstart) /\ lstart <= MaxHead
        BY <1>3, <2>2, <3>2 DEF LiquidInv
      <4>2. sample < lstart + CycleLen
        BY <1>3, <4>1, SampleInCycle
      <4>3. sample <= MaxHead + CycleLen
        BY <1>3, <4>1, <4>2
      <4> QED
        BY <1>3, <3>1, <4>1, <4>3, ReachedDeep
    <3>3. Repeatable => Archive
      BY DEF Repeatable
    <3> QED
      BY <1>1, <1>2, <1>3, <1>4, <2>1, <2>2, <3>1, <3>2, <3>3 DEF LiquidInv
  <2>3. CASE lpc = "waitEnd"
    <3>1. /\ Reached(Add(lstart, CycleLen)) /\ lstart' = Add(lstart, CycleLen)
          /\ lpc' = "seed"
      BY <2>3, <1>9 DEF LiquidWait
    <3>2. lstart <= head /\ Add(lstart, CycleLen) = lstart + CycleLen
      BY <2>3, UnitEnds DEF LiquidInv
    <3>3. Deep(lstart + CycleLen)
      <4>1. lstart + CycleLen \in Nat /\ lstart + CycleLen <= MaxHead + CycleLen
        BY <1>3, <3>2
      <4> QED
        BY <3>1, <3>2, <4>1, ReachedDeep
    <3>4. lstart' <= head'
      BY <1>3, <2>1, <3>1, <3>2, <3>3 DEF Deep
    <3> QED
      BY <3>1, <3>4 DEF LiquidInv
  <2> QED
    BY <2>1, <2>2, <2>3
<1>10. CASE LiquidSend
  BY <1>3, <1>10 DEF LiquidSend, LiquidInv
<1>11. CASE UNCHANGED liquid
  <2>1. lpc' = lpc /\ lstart' = lstart /\ sample' = sample
    BY <1>11 DEF liquid
  <2>2. Seeded(lstart)' = Seeded(lstart)
    BY <2>1 DEF Seeded
  <2>3. ASSUME Repeatable, lpc \in {"draw", "drawAgain"} PROVE seed' = Seeded(lstart)
    <3>1. seed = Seeded(lstart)
      BY <2>3 DEF LiquidInv
    <3>2. ~VolumeSeed /\ ~VolumeDraw
      BY <2>3 DEF Repeatable, VolumeInv, VolumeSeed, VolumeDraw
    <3>3. Restart => lpc' = "off"
      BY DEF Restart
    <3>4. ~Restart
      BY <2>1, <2>3, <3>3
    <3>5. CASE LiquidSeed \/ LiquidDraw
      BY <2>1, <2>3, <3>5 DEF LiquidSeed, LiquidDraw
    <3> QED
      BY <3>1, <3>2, <3>4, <3>5, SeedFrame
  <2> QED
    BY <1>1, <1>2, <1>3, <1>4, <2>1, <2>2, <2>3 DEF LiquidInv
<1> QED
  BY <1>5, <1>6, <1>7, <1>8, <1>9, <1>10, <1>11, LiquidFrame

\* The liquidity goroutine goes from cycle to cycle.
LEMMA CycleInvStep ==
  ASSUME Types, LiquidInv, CycleInv, \A s \in Setups : StartsInTime(s), [Next]_vars
  PROVE  CycleInv'
<1>1. \A a : OnCycle(a)' = OnCycle(a)
  BY SetupStays, FrozenOps
<1>2. CASE Run
  <2>1. setup.enable /\ lstart' = CurCycleStart(head)
    BY <1>2 DEF Run
  <2>2. OnCycle(CurCycleStart(head))
    BY <2>1, RunCycle
  <2> QED
    BY <1>1, <2>1, <2>2 DEF CycleInv
<1>3. CASE Restart
  BY <1>3 DEF Restart, CycleInv
<1>4. CASE LiquidWait
  <2>1. lpc \in {"waitSample", "waitEnd"}
    BY <1>4 DEF LiquidWait
  <2>2. OnCycle(lstart) /\ lstart <= head
    BY <2>1 DEF LiquidInv, CycleInv
  <2>3. lstart' = lstart \/ lstart' = Add(lstart, CycleLen)
    BY <1>4 DEF LiquidWait
  <2>4. Add(lstart, CycleLen) = lstart + CycleLen
    BY <2>2, UnitEnds
  <2>5. OnCycle(lstart + CycleLen)
    BY <2>2, Numbers, CycleUnits
  <2>6. OnCycle(lstart')
    BY <2>2, <2>3, <2>4, <2>5
  <2> QED
    BY <1>1, <2>6 DEF CycleInv
<1>5. CASE LiquidSeed \/ LiquidDraw \/ LiquidSend \/ UNCHANGED liquid
  <2>1. lstart' = lstart /\ (lpc' /= "off" => lpc /= "off")
    BY <1>5 DEF LiquidSeed, LiquidDraw, LiquidSend, liquid
  <2> QED
    BY <1>1, <2>1 DEF CycleInv
<1> QED
  BY <1>2, <1>3, <1>4, <1>5, LiquidFrame

----------------------------------------------------------------------------
\* The liquidity rewards that were sent

\* No step sends liquidity rewards from another sample than the cycle's.
LEMMA SentInvStep ==
  ASSUME Types, LiquidInv, SentInv, [Next]_vars
  PROVE  SentInv'
<1>1. /\ setup' = setup /\ Repeatable' = Repeatable /\ Archive' = Archive
      /\ VolumeDraws' = VolumeDraws /\ Stable' = Stable /\ SyncStable' = SyncStable
  BY SetupStays, Frozen
<1>2. \A a : CycleSample(a)' = CycleSample(a)
  BY <1>1, FrozenOps
<1>3. CASE lsent' = lsent
  BY <1>1, <1>2, <1>3 DEF SentInv
<1>4. ASSUME NEW r,
             lsent' = lsent \cup {r}, r.sample \in Nat, r.head \in Nat,
             Repeatable => (~r.given => r.sample = CycleSample(r.cycle)),
             Archive => \/ r.by = "job" /\ VolumeDraws
                        \/ r.by = "calcRewards" /\ ~r.given
                        \/ r.sample + Stable + SyncStable <= r.head
      PROVE  SentInv'
  <2>1. Repeatable => \A s \in lsent' : ~s.given => s.sample = CycleSample(s.cycle)
    BY <1>4 DEF SentInv
  <2>2. Archive => \A s \in lsent' :
          \/ s.by = "job" /\ VolumeDraws
          \/ s.by = "calcRewards" /\ ~s.given
          \/ s.sample + Stable + SyncStable <= s.head
    BY <1>4 DEF SentInv
  <2>3. \A s \in lsent' : s.sample \in Nat /\ s.head \in Nat
    BY <1>4 DEF SentInv
  <2> QED
    BY <1>1, <1>2, <2>1, <2>2, <2>3 DEF SentInv
<1>5. CASE LiquidSend
  <2>1. lpc = "send"
    BY <1>5 DEF LiquidSend
  <2> DEFINE r == Sent("job", lstart, sample, FALSE)
  <2>2. CASE lsent' = lsent \cup {r}
    <3>1. /\ r.by = "job" /\ r.given = FALSE /\ r.cycle = lstart /\ r.head = head
          /\ r.sample = IF Archive THEN sample ELSE head
      BY DEF Sent
    <3>2. Repeatable => sample = CycleSample(lstart) /\ Deep(sample) /\ Archive
      BY <2>1 DEF LiquidInv, Repeatable
    <3>3. Archive => VolumeDraws \/ Repeatable
      BY DEF Repeatable
    <3> HIDE DEF r
    <3>4. Repeatable => (~r.given => r.sample = CycleSample(r.cycle))
      BY <3>1, <3>2
    <3>5. Archive => \/ r.by = "job" /\ VolumeDraws
                     \/ r.by = "calcRewards" /\ ~r.given
                     \/ r.sample + Stable + SyncStable <= r.head
      BY <3>1, <3>2, <3>3 DEF Deep
    <3>6. r.sample \in Nat /\ r.head \in Nat
      BY <3>1, Numbers
    <3> QED
      BY <1>4, <2>2, <3>4, <3>5, <3>6
  <2>3. lsent' = lsent \cup {r} \/ lsent' = lsent
    BY <1>5 DEF LiquidSend
  <2> QED
    BY <1>3, <2>2, <2>3
<1>6. CASE CalcLiquidSend
  <2>1. cpc = "liquid" /\ (Archive /\ call.sample /= 0 => Reached(call.sample))
    BY <1>6 DEF CalcLiquidSend
  <2> DEFINE r == Sent("calcRewards", call.start, CalcSample, call.sample /= 0)
  <2>2. CASE lsent' = lsent \cup {r}
    <3>1. /\ r.by = "calcRewards" /\ r.given = (call.sample /= 0) /\ r.cycle = call.start
          /\ r.head = head
          /\ r.sample = IF Archive THEN CalcSample ELSE head
      BY DEF Sent
    <3>2. call.sample = 0 => CalcSample = CycleSample(call.start)
      BY DEF CalcSample, CycleSample
    <3>3. Archive /\ call.sample /= 0 => CalcSample = call.sample /\ Deep(call.sample)
      <4>1. call.sample \in Nat /\ call.sample <= MaxHead + CycleLen
        <5>1. call.sample \in Heights /\ MaxHead \in Nat /\ CycleLen \in Nat
          BY <2>1, Calls, Numbers DEF Types
        <5> QED
          BY <5>1 DEF Heights
      <4> QED
        BY <2>1, <4>1, ReachedDeep DEF CalcSample
    <3>4. Repeatable => Archive
      BY DEF Repeatable
    <3> HIDE DEF r
    <3>5. Repeatable => (~r.given => r.sample = CycleSample(r.cycle))
      BY <3>1, <3>2, <3>4
    <3>6. Archive => \/ r.by = "job" /\ VolumeDraws
                     \/ r.by = "calcRewards" /\ ~r.given
                     \/ r.sample + Stable + SyncStable <= r.head
      BY <3>1, <3>3 DEF Deep
    <3>7. CalcSample \in Nat
      <4>1. call.sample \in Heights /\ call.start \in Heights
        BY <2>1, Calls, Numbers DEF Types
      <4>2. call.sample \in Nat /\ call.start \in Nat /\ call.start <= MaxHead
        <5>1. MaxHead \in Nat
          BY Numbers
        <5> QED
          BY <4>1, <5>1 DEF Heights
      <4>3. CycleSample(call.start) \in Nat
        BY <4>2, SampleInCycle, Numbers
      <4> QED
        BY <3>2, <4>2, <4>3 DEF CalcSample
    <3>8. r.sample \in Nat /\ r.head \in Nat
      BY <3>1, <3>7, Numbers
    <3> QED
      BY <1>4, <2>2, <3>5, <3>6, <3>8
  <2>3. lsent' = lsent \cup {r} \/ lsent' = lsent
    BY <1>6 DEF CalcLiquidSend
  <2> QED
    BY <1>3, <2>2, <2>3
<1> QED
  BY <1>3, <1>5, <1>6, SentFrame

----------------------------------------------------------------------------
\* The inductive invariant, and what follows from it

\* The invariant holds when the programs start.
LEMMA InitIInv == Init => IInv
<1> SUFFICES ASSUME Init PROVE IInv
  OBVIOUS
<1>1. Types
  BY InitTypes
<1>2. /\ vpc = "off" /\ lpc = "off" /\ cpc = "off" /\ lsent = {}
      /\ first = 0 /\ vstart = 0
  BY DEF Init, NotStarted
<1>3. \A h \in Heights : paid[h] = 0 /\ recalced[h] = 0
  BY DEF Init, Heights
<1>4. VolumeInv
  BY <1>2 DEF VolumeInv, Settling
<1>5. PaidInv
  BY <1>2, <1>3 DEF PaidInv, Settling
<1>6. PassedInv
  BY <1>2 DEF PassedInv
<1>7. CalcInv
  BY <1>2, <1>3 DEF CalcInv
<1>8. LiquidInv
  BY <1>2 DEF LiquidInv
<1>9. SentInv
  BY <1>2 DEF SentInv
<1>10. CycleInv
  BY <1>2 DEF CycleInv
<1> QED
  BY <1>1, <1>4, <1>5, <1>6, <1>7, <1>8, <1>9, <1>10 DEF IInv

\* Every state of a job that can be started in time satisfies the invariant.
THEOREM Inductive ==
  ASSUME \A s \in Setups : StartsInTime(s)
  PROVE  Spec => []IInv
<1>1. Init => IInv
  BY InitIInv
<1>2. IInv /\ [Next]_vars => IInv'
  BY TypesStep, VolumeInvStep, PaidInvStep, PassedInvStep, CalcInvStep, LiquidInvStep,
     CycleInvStep, SentInvStep DEF IInv
<1> QED
  BY <1>1, <1>2, PTL DEF Spec

\* The types hold however the job is started: a height stays in its word, wrapped or
\* not, and the sync info at or below what the syncer may store.
THEOREM TypeCorrect == Spec => []TypeOK
<1>1. Init => Types
  BY InitTypes
<1>2. Types /\ [Next]_vars => Types'
  BY TypesStep
<1>3. Types => TypeOK
  BY DEF Types
<1> QED
  BY <1>1, <1>2, <1>3, PTL DEF Spec

\* Where the goroutines are: in a cycle that starts a whole number of cycles behind the
\* start height and not above the head, the volume goroutine in a step of the same
\* kind; and every sum they compute from there, the ends and the heights they wait
\* for, is the sum of the numbers and not what is left of it modulo the word.
OnGrid ==
  /\ vpc /= "off" =>
       /\ OnCycle(vstart) /\ vstart <= head
       /\ Add(vstart, CycleLen) = vstart + CycleLen
  /\ vpc \in {"step"} \cup Settling =>
       /\ Aligned(vcur) /\ vcur <= head
       /\ VolumeEnd = vcur + Unit
       /\ Add(VolumeEnd, Stable) = VolumeEnd + Stable
  /\ lpc /= "off" =>
       /\ OnCycle(lstart) /\ lstart <= head
       /\ Add(lstart, CycleLen) = lstart + CycleLen
       /\ Add(lstart + CycleLen, Stable) = lstart + CycleLen + Stable

\* A job that is not started before the start height is stable walks through the cycles
\* and the steps that checkCycleLength promises, whatever restarts and errors come in
\* between, and none of its unsigned sums wraps.  (calcPrevCycleSttEnd is left out: in
\* the first cycles it may go below zero.)
THEOREM NothingWraps ==
  ASSUME \A s \in Setups : StartsInTime(s)
  PROVE  Spec => []OnGrid
<1>1. IInv => OnGrid
  <2> SUFFICES ASSUME IInv PROVE OnGrid
    OBVIOUS
  <2>1. Types /\ VolumeInv /\ LiquidInv /\ CycleInv
    BY DEF IInv
  <2>2. /\ setup \in Setups /\ Stable \in Nat /\ CycleLen \in Nat /\ Unit \in Nat
        /\ MaxHead \in Nat /\ Word \in Nat /\ Word > MaxHead + CycleLen + Stable + 1
        /\ head \in Nat /\ head <= MaxHead /\ Unit <= CycleLen
        /\ vcur \in Nat /\ vstart \in Nat /\ lstart \in Nat
    BY <2>1, Numbers
  <2>3. /\ vcur <= head => VolumeEnd = vcur + Unit
        /\ vstart <= head => Add(vstart, CycleLen) = vstart + CycleLen
        /\ lstart <= head => Add(lstart, CycleLen) = lstart + CycleLen
    BY <2>1, UnitEnds
  <2>4. ASSUME vpc /= "off"
        PROVE  OnCycle(vstart) /\ vstart <= head /\ Add(vstart, CycleLen) = vstart + CycleLen
    BY <2>1, <2>3, <2>4 DEF VolumeInv
  <2>5. ASSUME vpc \in {"step"} \cup Settling
        PROVE  /\ Aligned(vcur) /\ vcur <= head /\ VolumeEnd = vcur + Unit
               /\ Add(VolumeEnd, Stable) = VolumeEnd + Stable
    <3>1. Aligned(vcur) /\ vcur <= head /\ VolumeEnd = vcur + Unit
      BY <2>1, <2>3, <2>5 DEF VolumeInv
    <3>2. VolumeEnd \in Nat /\ VolumeEnd + Stable < Word
      BY <2>2, <3>1
    <3>3. Add(VolumeEnd, Stable) = VolumeEnd + Stable
      BY <2>2, <3>2, NoWrap
    <3> QED
      BY <3>1, <3>3
  <2>6. ASSUME lpc /= "off"
        PROVE  /\ OnCycle(lstart) /\ lstart <= head
               /\ Add(lstart, CycleLen) = lstart + CycleLen
               /\ Add(lstart + CycleLen, Stable) = lstart + CycleLen + Stable
    <3>1. OnCycle(lstart) /\ lstart <= head /\ Add(lstart, CycleLen) = lstart + CycleLen
      BY <2>1, <2>3, <2>6 DEF LiquidInv, CycleInv
    <3>2. lstart + CycleLen \in Nat /\ lstart + CycleLen + Stable < Word
      BY <2>2, <3>1
    <3>3. Add(lstart + CycleLen, Stable) = lstart + CycleLen + Stable
      BY <2>2, <3>2, NoWrap
    <3> QED
      BY <3>1, <3>3
  <2> QED
    BY <2>4, <2>5, <2>6 DEF OnGrid
<1> QED
  BY <1>1, Inductive, PTL

\* settleVolumeRewards settles no height twice, however often the job is started again
\* and whichever settlements fail, and calcVolumeRewards settles its range once.
THEOREM HeightsSettledOnce ==
  ASSUME \A s \in Setups : StartsInTime(s)
  PROVE  Spec => []SettledOnce
<1>1. IInv => SettledOnce
  <2> SUFFICES ASSUME IInv PROVE SettledOnce
    OBVIOUS
  <2>1. DOMAIN paid = Heights
    BY Numbers DEF IInv
  <2> QED
    BY <2>1 DEF IInv, PaidInv, CalcInv, SettledOnce
<1> QED
  BY <1>1, Inductive, PTL

\* waitCycleEnd keeps what is settled, and the heights at which balances are read, as
\* far below the head as the configuration asks for.
THEOREM RewardsFromFinalBlocks ==
  ASSUME \A s \in Setups : StartsInTime(s)
  PROVE  Spec => []FromFinalBlocks
<1>1. IInv => FromFinalBlocks
  <2> SUFFICES ASSUME IInv PROVE FromFinalBlocks
    OBVIOUS
  <2>1. Types /\ PaidInv /\ CalcInv /\ SentInv
    BY DEF IInv
  <2>2. /\ setup \in Setups /\ Stable \in Nat /\ SyncStable \in Nat /\ head \in Nat
        /\ Unit \in Nat /\ MaxHead \in Nat /\ setup.stable \in Nat
        /\ setup.stable <= Stable + SyncStable
        /\ paid \in [Heights -> Nat] /\ recalced \in [Heights -> Nat]
    BY <2>1, Numbers, Config
  <2>3. ASSUME NEW h \in Heights, paid[h] + recalced[h] > 0
        PROVE  Final(h + 1, head)
    <3>1. h \in Nat /\ paid[h] \in Nat /\ recalced[h] \in Nat
      BY <2>2 DEF Heights
    <3>2. Deep(h + 1)
      <4>1. CASE recalced[h] > 0
        BY <2>1, <4>1 DEF CalcInv
      <4>2. CASE paid[h] > 0
        <5>1. PICK a \in Heights : InUnit(h, a) /\ Deep(a + Unit)
          BY <2>1, <4>2 DEF PaidInv
        <5>2. a \in Nat /\ h < a + Unit
          BY <2>2, <5>1 DEF InUnit, Heights
        <5> QED
          BY <2>2, <3>1, <5>1, <5>2 DEF Deep
      <4> QED
        BY <2>3, <3>1, <4>1, <4>2
    <3> QED
      BY <2>2, <3>1, <3>2 DEF Deep, Final
  <2>4. ASSUME Archive, NEW s \in lsent,
               ~(s.by = "job" /\ VolumeDraws), ~(s.by = "calcRewards" /\ ~s.given)
        PROVE  Final(s.sample, s.head)
    <3>1. s.sample + Stable + SyncStable <= s.head
      BY <2>1, <2>4 DEF SentInv
    <3>2. s.sample \in Nat /\ s.head \in Nat
      BY <2>1 DEF SentInv
    <3> QED
      BY <2>2, <3>1, <3>2 DEF Final
  <2> QED
    BY <2>2, <2>3, <2>4 DEF FromFinalBlocks
<1> QED
  BY <1>1, Inductive, PTL

\* Whole cycles that the volume goroutine has passed were settled or are on record as
\* lost, and a command that ends well has settled its range and nothing else.
THEOREM NoHolesLeft ==
  ASSUME \A s \in Setups : StartsInTime(s)
  PROVE  Spec => []NoHoles
<1>1. IInv => NoHoles
  <2> SUFFICES ASSUME IInv PROVE NoHoles
    OBVIOUS
  <2>1. Types /\ PassedInv /\ CalcInv
    BY DEF IInv
  <2>2. ASSUME cpc = "done", CalcVolumes(call), TradeExchanges /= {}
        PROVE  {h \in DOMAIN recalced : recalced[h] > 0} = call.start .. (call.end - 1)
    <3>1. DOMAIN recalced = Heights /\ Heights = 0 .. MaxHead /\ MaxHead \in Nat
      BY <2>1, Numbers DEF Heights
    <3>2. call.start \in Heights /\ call.end \in Heights
      BY <2>1, <2>2, Numbers, Calls DEF Types
    <3>3. \A h \in Heights : recalced[h] = IF h \in call.start .. (call.end - 1) THEN 1 ELSE 0
      BY <2>1, <2>2 DEF CalcInv, Recalced
    <3>4. call.start .. (call.end - 1) \subseteq Heights
      BY <3>1, <3>2
    <3> QED
      BY <3>1, <3>3, <3>4
  <2> QED
    BY <2>1, <2>2 DEF PassedInv, NoHoles
<1> QED
  BY <1>1, Inductive, PTL

\* CalcRandomSampleHeight "base on start": in archive mode, when no other goroutine
\* draws, the sample of a cycle is a function of the cycle.
THEOREM SamplesRepeat ==
  ASSUME \A s \in Setups : StartsInTime(s)
  PROVE  Spec => []SampleRepeatable
<1>1. IInv => SampleRepeatable
  BY DEF IInv, SentInv, SampleRepeatable, SampleBasedOnStart, Repeatable
<1> QED
  BY <1>1, Inductive, PTL
=============================================================================
