---------------------------- MODULE CycleRunner ----------------------------
(***************************************************************************)
(* The distribution job (src/distributer/distribute.go): two goroutines    *)
(* walk through the cycles of the chain, one settles the volume rewards of *)
(* a cycle or of its steps, the other the liquidity rewards.  Both wait    *)
(* for the sync info that the syncer keeps in the database, and both draw  *)
(* the height at which balances are sampled from Go's one global random    *)
(* source, which each seeds for itself (byliquidity.go).                   *)
(* Beside the job the operator may give the command calcRewards, a process *)
(* of its own, which settles one range again from the same database.       *)
(*                                                                         *)
(* Heights stand for timestamps too: the arithmetic is the same.  It is    *)
(* unsigned and wraps at Word (2^64 in the code).                          *)
(***************************************************************************)
EXTENDS Params, FiniteSets

CONSTANTS
  Setups,           \* the jobs to look at: a set of records, see IsSetup
  Word              \* 2^64 in the code

\* The job's configuration, and how far its environment is followed.
IsSetup(s) ==
  /\ s.enable \in BOOLEAN        \* Distribute.Enable: the job is started
  /\ s.stable \in Nat            \* Distribute.StableHeight
  /\ s.syncStable \in Nat        \* Sync.Stable
  /\ s.start \in Nat             \* Distribute.StartHeight
  /\ s.cycleLen \in Nat          \* ByLiquidCycle
  /\ s.stepLen \in Nat           \* ByVolumeCycle
  /\ CheckCycle(s)
  /\ s.quick \in BOOLEAN         \* QuickSettleVolumeRewards
  /\ s.archive \in BOOLEAN       \* ArchiveMode
  /\ s.weightIsPercentage \in BOOLEAN
  \* TradeWeight and LiquidWeight of each exchange
  /\ DOMAIN s.trade = DOMAIN s.liquid
  /\ \A e \in DOMAIN s.trade : s.trade[e] \in Nat /\ s.liquid[e] \in Nat
  /\ CheckTradeWeights(s.trade, s.weightIsPercentage)
  /\ Weighted(s.trade) \cup Weighted(s.liquid) /= {}
  /\ s.firstHead \in s.syncStable .. s.maxHead  \* head when the program is started
  /\ s.firstHead >= s.stable
  /\ s.maxHead \in Nat           \* bound: the chain grows up to here
  /\ s.maxCrashes \in Nat        \* bound: restarts
  /\ s.maxFails \in Nat          \* bound: ByVolume or ByLiquidity returns an error
  /\ s.calls \subseteq           \* arguments of calcRewards; at most one is given
       [start : 0 .. s.maxHead, end : 0 .. s.maxHead, sample : 0 .. s.maxHead,
        type : {"volume", "liquid", "both"}]
  /\ Word > s.maxHead + s.cycleLen + s.stable + 1

ASSUME CycleAssumption == Word \in Nat /\ \A s \in Setups : IsSetup(s)

Height == 0 .. Word - 1

VARIABLES
  setup,            \* the configuration
  head,             \* latest block of the chain
  syncInfo,         \* SyncInfo.Number in the database
  running,          \* the goroutines have been started
  \* the volume goroutine
  vpc, vstart, vcur, vlatest,
  \* the liquidity goroutine
  lpc, lstart, sample,
  seed,             \* the global random source: who seeded it, draws since
  \* the command calcRewards
  cpc, call, ccur,
  \* history
  first,            \* the cycle the program was started in first
  paid,             \* paid[h]: how often height h was in a range that was settled
  recalced,         \* recalced[h]: the same, for the ranges of the command
  lsent,            \* the liquidity rewards sent: cycle, sampled height, head then
  lost,             \* heights a restart or an error left out
  crashes, fails

Start       == setup.start
CycleLen    == setup.cycleLen
StepLen     == setup.stepLen
Quick       == setup.quick
Archive     == setup.archive
MaxHead     == setup.maxHead

\* The distances in effect: the syncer's, and the job's on top of it
Stable      == CheckDistribute(setup).stable
SyncStable  == CheckDistribute(setup).syncStable

\* The exchanges that share the volume rewards, and the liquidity rewards
TradeExchanges  == Weighted(setup.trade)
LiquidExchanges == Weighted(setup.liquid)

\* divideVolumeRewardsByExchange draws a random number.
VolumeDraws == Archive /\ ~setup.weightIsPercentage /\ Cardinality(TradeExchanges) > 1

volume  == <<vpc, vstart, vcur, vlatest>>
liquid  == <<lpc, lstart, sample>>
command == <<cpc, call, ccur>>
history == <<first, paid, recalced, lsent, lost, crashes, fails>>
vars    == <<setup, head, syncInfo, running, volume, liquid, seed, command, history>>

Add(a, b) == (a + b) % Word
Sub(a, b) == (a - b) % Word

NotStarted ==
  /\ running = FALSE
  /\ vpc = "off" /\ vstart = 0 /\ vcur = 0 /\ vlatest = 0
  /\ lpc = "off" /\ lstart = 0 /\ sample = 0
  /\ seed = [block |-> 0, draws |-> 0]

NoCall == [start |-> 0, end |-> 0, sample |-> 0, type |-> "both"]

Init ==
  /\ setup \in Setups
  /\ head = setup.firstHead
  /\ syncInfo = head - SyncStable
  /\ NotStarted
  /\ paid = [h \in 0 .. MaxHead |-> 0]
  /\ recalced = [h \in 0 .. MaxHead |-> 0]
  /\ cpc = "off" /\ call = NoCall /\ ccur = 0
  /\ first = 0 /\ lsent = {} /\ lost = {}
  /\ crashes = 0 /\ fails = 0

----------------------------------------------------------------------------
\* calcCurCycleStart
CurCycleStart(latest) ==
  Add(Start, (Sub(Sub(latest, Start), Stable) \div CycleLen) * CycleLen)

\* run, after WaitSyncToLatest.  What lies between the cycle a process that was
\* stopped was in and the one its successor starts with is never looked at again.
Run ==
  /\ setup.enable /\ ~running
  /\ running' = TRUE
  /\ vstart' = CurCycleStart(head) /\ lstart' = CurCycleStart(head)
  /\ vpc' = IF TradeExchanges = {} THEN "off" ELSE "cycle"
  /\ lpc' = IF LiquidExchanges = {} THEN "off" ELSE "seed"
  /\ IF crashes = 0
       THEN first' = CurCycleStart(head) /\ UNCHANGED lost
       ELSE /\ lost' = lost \cup {h \in vstart .. CurCycleStart(head) - 1 : paid[h] = 0}
            /\ UNCHANGED first
  /\ UNCHANGED <<setup, head, syncInfo, vcur, vlatest, sample, seed, command, paid,
                 recalced, lsent, crashes, fails>>

\* Mutant: the stable height is forgotten.
ReachedUnstable(end) == syncInfo >= end

\* Mutant: the sync info must be seen at the very height.
ReachedExactly(end) == syncInfo = Add(end, Stable)

\* waitCycleEnd returns
Reached(end) == syncInfo >= Add(end, Stable)

----------------------------------------------------------------------------
\* Go's math/rand: what is drawn depends on the last seed and the draws since.
Random(source, max) == (source.block * 5 + source.draws * 3 + 1) % max
Seeded(block)       == [block |-> block, draws |-> 0]

\* Mutant: seeded by when it happens.
SeedAtHead(block) == seed' = Seeded(head)

\* getRandNumber: the hash of a block is the seed; LoopGetBlockHeader asks for it
\* until the chain has it.
Seed(block) == block <= head /\ seed' = Seeded(block)
Drawn       == seed' = [seed EXCEPT !.draws = @ + 1]

\* CalcRandomSample: somewhere in the last two thirds of the cycle
HeadLen == CycleLen \div 3
RandomSample(start, source) == Add(start, HeadLen + Random(source, CycleLen - HeadLen))

----------------------------------------------------------------------------
\* runVolumeDistribute, settleVolumeRewards

VolumeEnd == Add(vcur, IF Quick THEN StepLen ELSE CycleLen)

\* The head is read once for the whole cycle.
VolumeBegin ==
  /\ vpc = "cycle"
  /\ vcur' = vstart
  /\ vlatest' = head
  /\ vpc' = IF Quick THEN "step" ELSE "wait"
  /\ UNCHANGED <<setup, head, syncInfo, running, vstart, liquid, seed, command, history>>

\* for start := cycleStart; start < cycleEnd; start += step
VolumeStep ==
  /\ vpc = "step"
  /\ IF vcur < Add(vstart, CycleLen)
       THEN IF VolumeEnd < vlatest
              THEN vcur' = VolumeEnd /\ UNCHANGED <<vpc, vstart>>
              ELSE vpc' = "wait" /\ UNCHANGED <<vcur, vstart>>
       ELSE /\ vpc' = "cycle" /\ vstart' = Add(vstart, CycleLen)
            /\ UNCHANGED vcur
  /\ UNCHANGED <<setup, head, syncInfo, running, vlatest, liquid, seed,
                 command, history>>

VolumeWait ==
  /\ vpc = "wait"
  /\ Reached(VolumeEnd)
  /\ vpc' = IF VolumeDraws THEN "seed" ELSE "send"
  /\ UNCHANGED <<setup, head, syncInfo, running, vstart, vcur, vlatest, liquid, seed,
                 command, history>>

\* calcPrevCycleSttEnd: the cycle before the one that vcur lies in
PrevCycleStart == Sub(Sub(vcur, Sub(vcur, Start) % CycleLen), CycleLen)

VolumeSeed ==
  /\ vpc = "seed"
  /\ Seed(PrevCycleStart)
  /\ vpc' = "draw"
  /\ UNCHANGED <<setup, head, syncInfo, running, vstart, vcur, vlatest, liquid,
                 command, history>>

VolumeDraw ==
  /\ vpc = "draw"
  /\ Drawn
  /\ vpc' = "send"
  /\ UNCHANGED <<setup, head, syncInfo, running, vstart, vcur, vlatest, liquid,
                 command, history>>

\* Mutant: the end of the range belongs to it.
SettledRangeClosed == vcur .. VolumeEnd

\* Mutant: the start of the range does not.
SettledRangeOpen == (vcur + 1) .. (VolumeEnd - 1)

\* FindAccountVolumes: start <= height < end
SettledRange == vcur .. (VolumeEnd - 1)

\* sendVolumeRewards; an error is logged and the range is not tried again.
VolumeSend ==
  /\ vpc = "send"
  /\ \/ /\ paid' = [h \in DOMAIN paid |-> IF h \in SettledRange THEN paid[h] + 1 ELSE paid[h]]
        /\ UNCHANGED <<lost, fails>>
     \/ /\ fails < setup.maxFails
        /\ fails' = fails + 1
        /\ lost' = lost \cup SettledRange
        /\ UNCHANGED paid
  /\ IF Quick
       THEN vpc' = "step" /\ vcur' = VolumeEnd /\ UNCHANGED vstart
       ELSE vpc' = "cycle" /\ vstart' = VolumeEnd /\ UNCHANGED vcur
  /\ UNCHANGED <<setup, head, syncInfo, running, vlatest, liquid, seed, command, first,
                 recalced, lsent, crashes>>

----------------------------------------------------------------------------
\* runLiquidDistribute

\* The sample is drawn twice: to know how long to wait, and (archive mode) in
\* ByLiquidity.
LiquidSeed ==
  /\ lpc \in {"seed", "seedAgain"}
  /\ Seed(lstart)
  /\ lpc' = IF lpc = "seed" THEN "draw" ELSE "drawAgain"
  /\ UNCHANGED <<setup, head, syncInfo, running, volume, lstart, sample, command, history>>

LiquidDraw ==
  /\ lpc \in {"draw", "drawAgain"}
  /\ sample' = RandomSample(lstart, seed)
  /\ Drawn
  /\ lpc' = IF lpc = "draw" THEN "waitSample" ELSE "send"
  /\ UNCHANGED <<setup, head, syncInfo, running, volume, lstart, command, history>>

LiquidWait ==
  /\ \/ /\ lpc = "waitSample" /\ Reached(sample)
        /\ lpc' = IF Archive THEN "seedAgain" ELSE "send"
        /\ UNCHANGED lstart
     \/ /\ lpc = "waitEnd" /\ Reached(Add(lstart, CycleLen))
        /\ lpc' = "seed" /\ lstart' = Add(lstart, CycleLen)
  /\ UNCHANGED <<setup, head, syncInfo, running, volume, sample, seed, command, history>>

\* What is kept of liquidity rewards that were sent.  Without an archive the balances
\* of the latest block are read.
Sent(by, cycle, height, given) ==
  [by |-> by, cycle |-> cycle, sample |-> IF Archive THEN height ELSE head,
   given |-> given, head |-> head]

\* sendLiquidRewards, whose error is dropped
LiquidSend ==
  /\ lpc = "send"
  /\ lpc' = "waitEnd"
  /\ \/ /\ lsent' = lsent \cup {Sent("job", lstart, sample, FALSE)}
        /\ UNCHANGED fails
     \/ /\ fails < setup.maxFails
        /\ fails' = fails + 1
        /\ UNCHANGED lsent
  /\ UNCHANGED <<setup, head, syncInfo, running, volume, lstart, sample, seed, command, first,
                 paid, recalced, lost, crashes>>

----------------------------------------------------------------------------
\* calcRewards and CalcRewards: a range, balances from the chain (no --input)

CalcVolumes(c) == c.type \in {"volume", "both"}
CalcLiquids(c) == c.type \in {"liquid", "both"}

\* checkStartEndHeight: the range may lie across the job's cycles.
CheckStartEndHeight(c) ==
  /\ c.start < c.end /\ c.start >= Start
  /\ CalcLiquids(c) \/ ~Quick => Add(c.start, CycleLen) = c.end
  /\ CalcVolumes(c) /\ Quick => (c.end - c.start) % StepLen = 0

\* checkSampleHeight, and the same check of the command line
CheckSampleHeight(c) == c.sample = 0 \/ c.sample \in c.start .. (c.end - 1)

Calc ==
  /\ cpc = "off"
  /\ call' \in setup.calls
  /\ ccur' = call'.start
  /\ cpc' = IF ~(CheckStartEndHeight(call') /\ CheckSampleHeight(call')) THEN "failed"
            ELSE IF CalcVolumes(call') THEN "volume" ELSE "liquid"
  /\ UNCHANGED <<setup, head, syncInfo, running, volume, liquid, seed, history>>

CalcVolumeEnd == IF Quick THEN Add(ccur, StepLen) ELSE call.end

\* calcVolumeRewards: the first error ends the command.
CalcVolumeSend ==
  /\ cpc = "volume" /\ ccur < call.end
  /\ Reached(CalcVolumeEnd)
  /\ \/ /\ recalced' = [h \in DOMAIN recalced |->
                         IF TradeExchanges /= {} /\ h \in ccur .. (CalcVolumeEnd - 1)
                           THEN recalced[h] + 1 ELSE recalced[h]]
        /\ ccur' = CalcVolumeEnd
        /\ UNCHANGED <<cpc, fails>>
     \/ /\ TradeExchanges /= {} /\ fails < setup.maxFails
        /\ fails' = fails + 1
        /\ cpc' = "failed"
        /\ UNCHANGED <<recalced, ccur>>
  /\ UNCHANGED <<setup, head, syncInfo, running, volume, liquid, seed, call, first, paid,
                 lsent, lost, crashes>>

CalcVolumeDone ==
  /\ cpc = "volume" /\ ccur >= call.end
  /\ cpc' = IF CalcLiquids(call) THEN "liquid" ELSE "done"
  /\ UNCHANGED <<setup, head, syncInfo, running, volume, liquid, seed, call, ccur, history>>

\* CalcSampleHeight, which the command's own random source is seeded for
CalcSample ==
  IF call.sample /= 0 THEN call.sample ELSE RandomSample(call.start, Seeded(call.start))

\* CheckStable of a dry run: "please specify '--sample' option".  ByLiquidity draws a
\* sample before it comes here, so it never finds a sample missing.
CheckStable(height) ==
  head < Add(call.end, Stable) => ~(height = 0 /\ Archive)

\* calcLiquidRewards: it waits for the sample that is given, not for the one it draws.
CalcLiquidSend ==
  /\ cpc = "liquid"
  /\ Archive /\ call.sample /= 0 => Reached(call.sample)
  /\ Archive => call.start <= head /\ CalcSample <= head
  /\ \/ /\ LiquidExchanges /= {} => CheckStable(CalcSample)
        /\ lsent' = IF LiquidExchanges = {} THEN lsent ELSE
             lsent \cup {Sent("calcRewards", call.start, CalcSample, call.sample /= 0)}
        /\ cpc' = "done"
        /\ UNCHANGED fails
     \/ /\ LiquidExchanges /= {} /\ fails < setup.maxFails
        /\ fails' = fails + 1
        /\ cpc' = "failed"
        /\ UNCHANGED lsent
  /\ UNCHANGED <<setup, head, syncInfo, running, volume, liquid, seed, call, ccur, first, paid,
                 recalced, lost, crashes>>

----------------------------------------------------------------------------
\* The chain, the syncer and the operator

NewBlock ==
  /\ head < MaxHead
  /\ head' = head + 1
  /\ UNCHANGED <<setup, syncInfo, running, volume, liquid, seed, command, history>>

\* UpdateSyncInfo of the newest block, or late, of an older one
SyncTo ==
  /\ syncInfo' \in {head - SyncStable, syncInfo - 1} \cap Nat
  /\ syncInfo' < syncInfo => head < MaxHead
  /\ UNCHANGED <<setup, head, running, volume, liquid, seed, command, history>>

\* The process is started again and looks for its cycle anew.
Restart ==
  /\ running /\ crashes < setup.maxCrashes
  /\ crashes' = crashes + 1
  /\ running' = FALSE
  /\ vpc' = "off" /\ vcur' = 0 /\ vlatest' = 0
  /\ lpc' = "off" /\ lstart' = 0 /\ sample' = 0
  /\ seed' = [block |-> 0, draws |-> 0]
  /\ UNCHANGED <<setup, head, syncInfo, vstart, command, first, paid, recalced, lsent,
                 lost, fails>>

Volume ==
  \/ VolumeBegin
  \/ VolumeStep
  \/ VolumeWait
  \/ VolumeSeed
  \/ VolumeDraw
  \/ VolumeSend

Liquid ==
  \/ LiquidSeed
  \/ LiquidDraw
  \/ LiquidWait
  \/ LiquidSend

CalcRewards ==
  \/ Calc
  \/ CalcVolumeSend
  \/ CalcVolumeDone
  \/ CalcLiquidSend

Next ==
  \/ Run
  \/ CalcRewards
  \/ Volume
  \/ Liquid
  \/ NewBlock
  \/ SyncTo
  \/ Restart

\* Goroutines run, the chain goes on, and the syncer follows it.
Fairness ==
  /\ WF_vars(Run) /\ WF_vars(Volume) /\ WF_vars(Liquid)
  /\ WF_vars(CalcRewards) /\ WF_vars(NewBlock)
  /\ WF_vars(SyncTo /\ syncInfo' = head - SyncStable)

Spec     == Init /\ [][Next]_vars
FairSpec == Spec /\ Fairness

----------------------------------------------------------------------------
\* Properties

\* The unsigned arithmetic keeps every height in its word, and the sync info never
\* gets ahead of what the syncer may store.
TypeOK ==
  /\ head \in 0 .. MaxHead
  /\ syncInfo \in 0 .. head - SyncStable
  /\ running \in BOOLEAN
  /\ vpc \in {"off", "cycle", "step", "wait", "seed", "draw", "send"}
  /\ {vstart, vcur, vlatest, lstart, sample} \subseteq Height
  /\ lpc \in {"off", "seed", "draw", "waitSample", "seedAgain", "drawAgain", "send", "waitEnd"}
  /\ seed.block \in Height /\ seed.draws \in Nat
  /\ cpc \in {"off", "volume", "liquid", "done", "failed"}
  /\ call \in setup.calls \cup {NoCall} /\ ccur \in Height
  /\ {paid, recalced} \subseteq [0 .. MaxHead -> Nat]
  /\ lost \subseteq Height /\ first \in Height
  /\ crashes \in 0 .. setup.maxCrashes /\ fails \in 0 .. setup.maxFails

\* No height is ever settled twice, restarts included: its volume rewards would be
\* paid twice.  A command settles what it settles once, too.
SettledOnce == \A h \in DOMAIN paid : paid[h] <= 1 /\ recalced[h] <= 1

\* A height below top by what both distances promise, and by the StableHeight that
\* was configured, wherever checkDistributeConfig has put it
Final(h, top) == h + Stable + SyncStable <= top /\ h + setup.stable <= top

\* Rewards are computed from final blocks only: a height that was settled, and the
\* height at which balances were read.  (Of the balances this holds in archive mode,
\* as long as only one goroutine draws, and for a command that is given its sample.)
FromFinalBlocks ==
  /\ \A h \in DOMAIN paid : paid[h] + recalced[h] > 0 => Final(h + 1, head)
  /\ Archive => \A s \in lsent :
       \/ s.by = "job" /\ VolumeDraws
       \/ s.by = "calcRewards" /\ ~s.given
       \/ Final(s.sample, s.head)

\* The volume goroutine leaves no hole behind: what it has passed since it was
\* started first was settled, or was lost to an error or to a restart.  (In quick
\* mode it passes over steps that ended before it read the head.)  A command that ends
\* without an error has settled its whole range and nothing else.
NoHoles ==
  /\ running /\ ~Quick /\ TradeExchanges /= {} =>
       \A h \in first .. (vstart - 1) : paid[h] > 0 \/ h \in lost
  /\ cpc = "done" /\ CalcVolumes(call) /\ TradeExchanges /= {} =>
       {h \in DOMAIN recalced : recalced[h] > 0} = call.start .. (call.end - 1)

\* CalcRandomSampleHeight "base on start": sent again after a restart, or by a command
\* without --sample, the rewards of a cycle are computed from the same height.
SampleBasedOnStart ==
  \A s, t \in {r \in lsent : ~r.given} : s.cycle = t.cycle => s.sample = t.sample

\* It is so in archive mode if the volume goroutine draws no random numbers: the second
\* draw and the draws of other processes see the same seed.
SampleRepeatable == Archive /\ ~VolumeDraws => SampleBasedOnStart

\* The last cycle that ends in time, and the ones before it
Due == {h \in first .. MaxHead :
          h < Start + ((MaxHead - SyncStable - Stable - Start) \div CycleLen) * CycleLen}

\* Every cycle that ends in time is settled in the end, or was lost.
CyclesSettled ==
  setup.enable /\ ~Quick /\ TradeExchanges /= {} =>
    <>[](running /\ \A h \in Due : paid[h] = 1 \/ h \in lost)

\* The liquidity rewards of every cycle that ends in time are sent in the end,
\* unless they failed or a restart came in between; and a command comes to an end.
LiquidSettled ==
  /\ setup.enable /\ LiquidExchanges /= {} =>
       <>[](fails > 0 \/ crashes > 0 \/ \A c \in {h \in Due : (h - Start) % CycleLen = 0} :
                                             \E s \in lsent : s.by = "job" /\ s.cycle = c)
  /\ setup.calls /= {} => <>[](cpc \in {"done", "failed"})
=============================================================================
