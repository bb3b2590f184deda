------------------------- MODULE BlockSyncerProofs -------------------------
(***************************************************************************)
(* Theorems about the block syncer (BlockSyncer), for every configuration, *)
(* every number of workers and every length of the chain.                  *)
(***************************************************************************)
EXTENDS BlockSyncer, SequenceTheorems, FiniteSetTheorems, TLAPS

----------------------------------------------------------------------------
\* The inductive invariant

Blocks == 0 .. MaxHead

\* Blocks that worker w has fetched and its parser has not dealt with
InFlight(w) == Queued(w) \cup adding[w] \cup parsing[w]

Rests(w)    == wpc[w] \in {"idle", "done"} /\ ppc[w] \in {"idle", "done"}
Scanning(w) == wpc[w] \in {"top", "range", "fetch"}

\* The heights that worker w is still to look at
Ahead(w, b) == height[w] <= b /\ (wend[w] > 0 => b < wend[w])

\* What becomes of a block that was fetched
Saved(b)   == OnlySyncAccount \/ b \in stored \cup unsaved
Parsed(b)  == b \in Blocks /\ (parsed[b] > 0 \/ b \in unparsed)
Covered(b) == OnlySyncAccount \/ b \in stored \cup unsaved \cup UnsavedNowAll
Begun(b)   == b \in Blocks /\ (parsed[b] > 0 \/ b \in unparsed \cup UnparsedNowAll)
Safe(b)    == Covered(b) /\ Begun(b)

\* The workers that may be at work in a phase
Live == IF phase = "sync" THEN 1 .. WorkerCount(start, last)
        ELSE IF phase = "check" THEN {CheckWorker}
        ELSE IF phase = "looping" THEN {LoopWorker} ELSE {}

\* Which goroutines there are, and what a worker and its parser owe each other
WorkerShape(w) ==
  /\ w \notin Live => Rests(w)
  /\ ppc[w] \in {"idle", "done"} => InFlight(w) = {} /\ marking[w] = {}
  /\ wpc[w] = "idle" <=> ppc[w] = "idle"
  /\ ppc[w] \in {"idle", "drain", "done"} => chan[w] = <<>>
  /\ ppc[w] \in {"drain", "done"} => wpc[w] = "done"
  /\ \A i \in DOMAIN chan[w] : chan[w][i] = Nil => wpc[w] = "done" /\ i = Len(chan[w])
  /\ wpc[w] = "done" /\ ppc[w] \in {"run", "barrier"} =>
       chan[w] /= <<>> /\ chan[w][Len(chan[w])] = Nil
  /\ wpc[w] = "idle" => count[w] = 0
  /\ marking[w] /= {} => phase = "looping" /\ w = LoopWorker
  /\ OnlySyncAccount => adding[w] = {} /\ marking[w] = {}

ShapeInv ==
  /\ hasSyncToLatest => phase = "looping"
  /\ phase /= "looping" => wpc[LoopWorker] = "idle"
  /\ phase \in {"boot", "dispatch"} => start = SyncStart /\ last = 0
  /\ phase \in {"loop", "looping"} => SyncEnd = 0
  /\ \A w \in Workers : WorkerShape(w)

\* The ranges the workers were given
RangeInv ==
  /\ phase = "sync" =>
       /\ start < last
       /\ active = 1 .. WorkerCount(start, last)
       /\ \A w \in active : wstart[w] = WorkerStart(start, last, w)
       /\ \A w \in active : wend[w] = WorkerEnd(start, last, w)
       /\ \A w \in active : wpc[w] /= "idle"
       /\ SyncEnd = 0 => MinWorkBlocks <= last - start
  /\ phase = "check" =>
       /\ start < last
       /\ wstart[CheckWorker] = start /\ wend[CheckWorker] = last
       /\ wpc[CheckWorker] /= "idle"
  /\ phase = "looping" =>
       /\ wstart[LoopWorker] = last /\ wend[LoopWorker] = 0
       /\ wpc[LoopWorker] /= "idle"

\* How far each worker has got
WorkerScan(w) ==
  /\ wpc[w] /= "idle" => wstart[w] <= height[w] /\ (wend[w] > 0 => height[w] <= wend[w])
  /\ wpc[w] = "done" => wend[w] > 0 /\ height[w] = wend[w]
  /\ wpc[w] \in {"range", "fetch"} =>
       height[w] <= rangeEnd[w] + 1 /\ (wend[w] > 0 => rangeEnd[w] < wend[w])
  /\ wpc[w] = "fetch" => height[w] <= to[w] + 1 /\ to[w] <= rangeEnd[w]
  /\ wpc[w] = "fetch" => known[w] \subseteq stored
  /\ InFlight(w) \cup marking[w] \subseteq wstart[w] .. (height[w] - 1)

ScanInv == \A w \in Workers : WorkerScan(w)

\* Nothing that was fetched gets lost unseen
SafeInv ==
  /\ \A b \in stored \cup unsaved \cup UnsavedNowAll : Begun(b)
  /\ \A w \in Workers : \A b \in marking[w] : b \in stored \cup unsaved
  /\ \A w \in Workers : wpc[w] /= "idle" => \A b \in wstart[w] .. (height[w] - 1) : Safe(b)
  /\ phase \notin {"boot", "dispatch"} => \A b \in Origin .. (start - 1) : Safe(b)
  /\ phase \in {"check", "loop", "looping", "done"} =>
       \A b \in start .. (last - 1) : Saved(b) /\ Parsed(b)
  /\ \A b \in Origin .. syncInfo : b = SyncStart \/ Safe(b)

\* A block of the catch-up range that one AddBlock lost is stored by the check pass: dbFails
\* counts the calls that were given up.
Kept(w, b, n) == b \in stored \cup UnsavedNow(w) \/ dbFails >= n

RepairInv ==
  ~OnlySyncAccount =>
    /\ phase = "sync" =>
         \A w \in Live : \A b \in wstart[w] .. (height[w] - 1) : Kept(w, b, 1)
    /\ phase = "check" =>
         /\ \A b \in start .. (last - 1) : b \in stored \/ dbFails >= 1
         /\ \A b \in start .. (height[CheckWorker] - 1) : Kept(CheckWorker, b, 2)
    /\ phase \in {"loop", "looping", "done"} =>
         \A b \in start .. (last - 1) : b \in stored \/ dbFails >= 2

\* Stable depth
WorkerDepth(w) ==
  /\ latest[w] <= head
  /\ wpc[w] \in {"range", "fetch"} => rangeEnd[w] + Stable <= head
  /\ \A b \in InFlight(w) \cup marking[w] : b + Stable <= head

DepthInv ==
  SyncEnd = 0 =>
    /\ phase \in {"sync", "check"} => last <= head
    /\ \A b \in stored : b + Stable <= head
    /\ \A w \in Workers : WorkerDepth(w)

\* Once
Touched(b) == parsed[b] > 0 \/ b \in stored \/ \E w \in Workers : b \in InFlight(w)

\* What keeps a block whose AddBlock was not lost from being parsed twice: a worker that
\* is still to look at it will find it in the database, its answer of the database is not
\* out of date, and there is one message and one goroutine for it at most.
WorkerOnce(w, b) ==
  /\ Scanning(w) /\ Ahead(w, b) /\ Touched(b) => b \in stored
  /\ wpc[w] = "fetch" /\ height[w] <= b /\ b <= to[w] /\ b \in stored => b \in known[w]
  /\ b \in UnparsedNow(w) => parsed[b] = 0
  /\ \A i, j \in DOMAIN chan[w] : chan[w][i] = b /\ chan[w][j] = b => i = j
  /\ b \in Queued(w) => b \notin parsing[w]

BlockOnce(b) ==
  /\ Touched(b) => b \in stored \cup UnsavedNowAll
  /\ \A w \in Workers : WorkerOnce(w, b)
  /\ \A v, w \in Workers : b \in UnparsedNow(v) /\ b \in UnparsedNow(w) => v = w
  /\ parsed[b] <= 1

OnceInv ==
  ~Overwrite /\ ~OnlySyncAccount => \A b \in Blocks \ unsaved : BlockOnce(b)

\* Behind the sync info.  The heights a dispatch can start from:
Starts == IF SyncStart /= 0 THEN {SyncStart}
          ELSE {CreationHeight} \cup (IF syncInfo /= 0 THEN {syncInfo + 1} ELSE {})

StartInv ==
  /\ SyncEnd /= 0 => syncInfo = 0
  /\ SyncEnd = 0 =>
       /\ syncInfo = 0 \/ Origin <= syncInfo
       /\ SyncStart = 0 /\ syncInfo /= 0 => Stable < head
       /\ phase = "sync" => start \in Starts
       /\ phase = "sync" /\ SyncStart = 0 /\ syncInfo /= 0 => last + Stable <= head
       /\ phase \notin {"boot", "dispatch"} => Origin <= start /\ start <= last

\* Where the next loop worker begins, the blocks that are stored already have no
\* unparsed predecessor.
ResumeInv ==
  SyncEnd = 0 =>
    /\ phase \notin {"boot", "dispatch"} => \A b \in Origin .. (start - 1) : Parsed(b)
    /\ phase \notin {"boot", "dispatch", "looping"} =>
         \A b \in stored : \A c \in last .. b : Parsed(c)
    /\ phase = "looping" =>
         \A b \in stored : b >= height[LoopWorker] => \A c \in last .. b : Parsed(c)
    /\ \A b \in stored : \A f \in Starts :
         f + MinWorkBlocks > LastHeight => \A c \in f .. b : Begun(c)

\* The messages of the loop worker's parser: the one it gets next, and the one after the
\* i-th, a height that is still to be fetched when there is none.
NextMessage == IF chan[LoopWorker] = <<>> THEN height[LoopWorker] ELSE Head(chan[LoopWorker])

Follower(i) == IF i = Len(chan[LoopWorker]) THEN height[LoopWorker] ELSE chan[LoopWorker][i + 1]

\* The loop worker's blocks come in order, without a gap as long as one of them is not
\* parsed, and a batch of the parser is no longer than MaxParseBlocks.
LoopInv ==
  phase = "looping" =>
    /\ \A i, j \in DOMAIN chan[LoopWorker] : i < j => chan[LoopWorker][i] < chan[LoopWorker][j]
    /\ \A i \in DOMAIN chan[LoopWorker] : \A c \in last .. chan[LoopWorker][i] :
         ~Parsed(c) => Follower(i) = chan[LoopWorker][i] + 1
    /\ \A b \in adding[LoopWorker] \cup marking[LoopWorker] :
         \A c \in Origin .. (b - MaxParseBlocks) : Parsed(c)
    /\ ppc[LoopWorker] = "run" => \A b \in parsing[LoopWorker] :
         b < NextMessage /\ (~Parsed(b) => NextMessage - b <= count[LoopWorker])

LagInv == \A b \in Origin .. (syncInfo - MaxParseBlocks) : Parsed(b)

IInv ==
  /\ TypeOK
  /\ ShapeInv
  /\ RangeInv
  /\ ScanInv
  /\ SafeInv
  /\ RepairInv
  /\ DepthInv
  /\ OnceInv
  /\ StartInv
  /\ ResumeInv
  /\ LoopInv
  /\ LagInv

----------------------------------------------------------------------------
\* The configuration

\* What the configuration is assumed to hold.
LEMMA Constants ==
  /\ Stable \in Nat
  /\ JobCount \in Nat /\ JobCount > 0
  /\ MinWorkBlocks \in Nat /\ MinWorkBlocks > 1
  /\ RangeStep \in Nat /\ RangeStep > 0
  /\ ChanSize \in Nat /\ ChanSize > 0 /\ CheckChanSize \in Nat /\ CheckChanSize > 0
  /\ MaxParseBlocks \in Nat /\ MaxParseBlocks > 0
  /\ CreationHeight \in Nat /\ CreationHeight > 0
BY ConstantsAssumption

\* What the command line and the bounds are.
LEMMA SetupFacts ==
  ASSUME setup \in Setups
  PROVE  /\ SyncStart \in Nat /\ SyncEnd \in Nat /\ MaxHead \in Nat
         /\ Overwrite \in BOOLEAN /\ OnlySyncAccount \in BOOLEAN
         /\ setup.firstHead \in Nat /\ setup.firstHead <= MaxHead
         /\ setup.maxCrashes \in Nat /\ setup.maxDBFails \in Nat
<1>1. setup \in SetupType /\ setup.firstHead <= setup.maxHead
  BY ConstantsAssumption
<1> QED
  BY <1>1 DEF SetupType, SyncStart, SyncEnd, MaxHead, Overwrite, OnlySyncAccount

\* The workers' numbers.
LEMMA WorkerSet ==
  /\ CheckWorker \in Workers /\ LoopWorker \in Workers /\ CheckWorker /= LoopWorker
  /\ \A n \in 0 .. JobCount : 1 .. n \subseteq Workers
  /\ CheckWorker \notin 1 .. JobCount /\ LoopWorker \notin 1 .. JobCount
BY Constants DEF CheckWorker, LoopWorker, Workers

\* No step changes the arguments, and the chain only grows.
LEMMA SetupStays ==
  ASSUME [Next]_vars
  PROVE  setup' = setup
BY DEF Next, vars, Syncer, Boot, Dispatch, CheckSync, CheckSyncDone, StartLoop, SetSynced,
       Worker, NextRange, EndSync, FindBlocksInRange, FetchBlock, EndRange,
       Parser, Receive, BatchDone, ParserDone, AddBlock, UpdateSyncInfo, ParseTransactions,
       NewBlock, Crash

\* The head of the chain moves only when a block is mined.
LEMMA HeadStep ==
  ASSUME [Next]_vars
  PROVE  head' = head \/ (NewBlock /\ head < MaxHead /\ head' = head + 1)
BY DEF Next, vars, Syncer, Boot, Dispatch, CheckSync, CheckSyncDone, StartLoop, SetSynced,
       Worker, NextRange, EndSync, FindBlocksInRange, FetchBlock, EndRange,
       Parser, Receive, BatchDone, ParserDone, AddBlock, UpdateSyncInfo, ParseTransactions,
       NewBlock, Crash

\* The definitions that depend on the arguments alone keep their meaning.
LEMMA Frozen ==
  ASSUME setup' = setup
  PROVE  /\ SyncStart' = SyncStart /\ SyncEnd' = SyncEnd /\ Overwrite' = Overwrite
         /\ OnlySyncAccount' = OnlySyncAccount /\ MaxHead' = MaxHead /\ Blocks' = Blocks
         /\ Origin' = Origin
BY DEF SyncStart, SyncEnd, Overwrite, OnlySyncAccount, MaxHead, Blocks, Origin

----------------------------------------------------------------------------
\* How dipatchWork divides the range

\* Division by a positive number, as dipatchWork uses it.
LEMMA DivFacts ==
  ASSUME NEW a \in Nat, NEW b \in Nat, b > 0
  PROVE  a \div b \in Nat /\ b * (a \div b) <= a /\ a < b * (a \div b) + b
BY Z3

\* Products of natural numbers, which the solver does not find when they are nested.
LEMMA Product ==
  ASSUME NEW a \in Nat, NEW b \in Nat
  PROVE  a * b \in Nat
BY Z3

\* A range that ends where it starts
LEMMA EmptyRange ==
  ASSUME NEW s \in Int, NEW l \in Int, l <= s
  PROVE  s .. (l - 1) = {}
OBVIOUS

\* A product grows with its factor.
LEMMA ProductMono ==
  ASSUME NEW a \in Nat, NEW b \in Nat, NEW c \in Nat, a <= b
  PROVE  a * c <= b * c
BY Z3

\* At least one worker, at most one per MinWorkBlocks blocks, and each gets at least
\* one block.
LEMMA Shares ==
  ASSUME NEW s \in Nat, NEW l \in Nat, s < l
  PROVE  /\ BlockCount(s, l) = l - s
         /\ WorkerCount(s, l) \in 1 .. JobCount
         /\ StepCount(s, l) \in Nat /\ StepCount(s, l) > 0
         /\ WorkerCount(s, l) * StepCount(s, l) <= l - s
         /\ MinWorkBlocks <= l - s => MinWorkBlocks <= StepCount(s, l)
<1>1. BlockCount(s, l) = l - s /\ l - s \in Nat /\ l - s > 0
  BY DEF BlockCount
<1> DEFINE c == l - s
           q == c \div MinWorkBlocks
           n == WorkerCount(s, l)
           t == c \div n
<1>2. c \in Nat /\ c > 0
  BY <1>1
<1>3. q \in Nat /\ MinWorkBlocks * q <= c
  BY <1>2, Constants, DivFacts
<1>4. n = IF q > JobCount THEN JobCount ELSE IF q = 0 THEN 1 ELSE q
  BY <1>1 DEF WorkerCount
<1>5. StepCount(s, l) = t
  BY <1>1 DEF StepCount
<1> HIDE DEF c, q, n
<1>6. n \in Nat /\ n >= 1 /\ n <= JobCount
  BY <1>3, <1>4, Constants
<1>7. q = 0 \/ n <= q
  BY <1>3, <1>4, Constants
<1>8. n <= c
  <2>1. CASE q = 0
    BY <1>2, <1>4, <2>1, Constants
  <2>2. CASE q /= 0
    <3>1. 1 * q <= MinWorkBlocks * q
      BY <1>3, Constants, ProductMono, 1 \in Nat
    <3>2. MinWorkBlocks * q \in Nat
      BY <1>3, Constants, Product
    <3> QED
      BY <1>2, <1>3, <1>6, <1>7, <2>2, <3>1, <3>2
  <2> QED
    BY <2>1, <2>2
<1>9. t \in Nat /\ n * t <= c /\ c < n * t + n
  BY <1>2, <1>6, DivFacts
<1>10. t > 0
  <2>1. t = 0 => n * t = 0
    BY <1>6, Z3
  <2> QED
    BY <1>6, <1>8, <1>9, <1>2, <2>1
<1>11. ASSUME MinWorkBlocks <= c PROVE MinWorkBlocks <= t
  <2>1. q > 0
    <3>1. q = 0 => MinWorkBlocks * q + MinWorkBlocks = MinWorkBlocks
      BY Constants, Z3
    <3>2. c < MinWorkBlocks * q + MinWorkBlocks
      BY <1>2, Constants, DivFacts DEF q
    <3> QED
      BY <1>2, <1>3, <1>11, <3>1, <3>2, Constants
  <2>2. n <= q
    BY <1>7, <2>1, <1>3
  <2>3. n * MinWorkBlocks <= c
    <3>1. n * MinWorkBlocks <= q * MinWorkBlocks
      BY <1>3, <1>6, <2>2, Constants, ProductMono
    <3>2. q * MinWorkBlocks = MinWorkBlocks * q
      BY <1>3, Constants, Z3
    <3>3. n * MinWorkBlocks \in Nat /\ q * MinWorkBlocks \in Nat
      BY <1>3, <1>6, Constants, Product
    <3> QED
      BY <1>2, <1>3, <3>1, <3>2, <3>3
  <2>4. SUFFICES ASSUME t + 1 <= MinWorkBlocks PROVE FALSE
    BY <1>9, Constants
  <2>5. (t + 1) * n <= MinWorkBlocks * n
    BY <1>6, <1>9, <2>4, Constants, ProductMono, t + 1 \in Nat
  <2>6. (t + 1) * n = n * t + n /\ MinWorkBlocks * n = n * MinWorkBlocks
    BY <1>6, <1>9, Constants, Z3
  <2>7. n * t \in Nat /\ n * MinWorkBlocks \in Nat
    BY <1>6, <1>9, Constants, Product
  <2> QED
    BY <1>2, <1>6, <1>9, <2>3, <2>5, <2>6, <2>7
<1> QED
  BY <1>1, <1>5, <1>6, <1>9, <1>10, <1>11 DEF c, n

----------------------------------------------------------------------------
\* The types, one group of variables at a time

MainTypes ==
  /\ setup \in Setups
  /\ head \in setup.firstHead .. MaxHead
  /\ phase \in {"boot", "dispatch", "sync", "check", "loop", "looping", "done"}
  /\ start \in Nat /\ last \in Nat
  /\ active \subseteq Workers
  /\ hasSyncToLatest \in BOOLEAN
  /\ crashes \in 0 .. setup.maxCrashes /\ dbFails \in 0 .. setup.maxDBFails

DBTypes ==
  /\ stored \subseteq Blocks
  /\ parsed \in [Blocks -> Nat]
  /\ syncInfo \in Nat
  /\ unsaved \subseteq Blocks /\ unparsed \subseteq Blocks

WorkerTypes ==
  /\ wpc \in [Workers -> {"idle", "top", "range", "fetch", "done"}]
  /\ wstart \in [Workers -> Nat] /\ wend \in [Workers -> Nat]
  /\ height \in [Workers -> Nat] /\ latest \in [Workers -> Nat]
  /\ rangeEnd \in [Workers -> Int] /\ to \in [Workers -> Int]
  /\ known \in [Workers -> SUBSET Blocks]

ChanTypes ==
  /\ chan \in [Workers -> Seq(Blocks \cup {Nil})]
  /\ \A w \in Workers : Len(chan[w]) <= ChanCap(w)

ParserTypes ==
  /\ ppc \in [Workers -> {"idle", "run", "barrier", "drain", "done"}]
  /\ count \in [Workers -> 0 .. MaxParseBlocks - 1]
  /\ adding \in [Workers -> SUBSET Blocks]
  /\ marking \in [Workers -> SUBSET Blocks]
  /\ parsing \in [Workers -> SUBSET Blocks]

\* The type invariant, taken apart; the second half is for the state after a step.
LEMMA TypeParts ==
  /\ TypeOK <=> MainTypes /\ DBTypes /\ WorkerTypes /\ ChanTypes /\ ParserTypes
  /\ TypeOK' <=> MainTypes' /\ DBTypes' /\ WorkerTypes' /\ ChanTypes' /\ ParserTypes'
BY DEF TypeOK, MainTypes, DBTypes, WorkerTypes, ChanTypes, ParserTypes, Blocks

\* A step that leaves a group of variables alone leaves their types alone.
LEMMA SameTypes ==
  ASSUME setup' = setup
  PROVE  /\ MainTypes /\ UNCHANGED <<head, main, crashes, dbFails>> => MainTypes'
         /\ DBTypes /\ UNCHANGED <<db, unsaved, unparsed>> => DBTypes'
         /\ WorkerTypes /\ UNCHANGED wrk => WorkerTypes'
         /\ ChanTypes /\ UNCHANGED chan => ChanTypes'
         /\ ParserTypes /\ UNCHANGED par => ParserTypes'
<1>1. MaxHead' = MaxHead /\ Blocks' = Blocks
  BY Frozen
<1> QED
  BY <1>1 DEF MainTypes, DBTypes, WorkerTypes, ChanTypes, ParserTypes, ChanCap, main, db, wrk, par

\* Every worker gets a stretch of the range that is not empty, and begins where its
\* predecessor ends.
LEMMA Ranges ==
  ASSUME NEW s \in Nat, NEW l \in Nat, s < l, NEW i \in 1 .. WorkerCount(s, l)
  PROVE  /\ WorkerStart(s, l, i) \in Nat /\ WorkerEnd(s, l, i) \in Nat
         /\ s <= WorkerStart(s, l, i)
         /\ WorkerStart(s, l, i) + StepCount(s, l) <= WorkerEnd(s, l, i)
         /\ WorkerEnd(s, l, i) <= l
<1> DEFINE n == WorkerCount(s, l)
           t == StepCount(s, l)
<1>1. t \in Nat /\ n \in Nat /\ n * t <= l - s /\ t > 0
  BY Shares, Constants
<1> HIDE DEF n, t
<1>2. i \in Nat /\ i - 1 \in Nat /\ i <= n
  BY <1>1 DEF n
<1>3. (i - 1) * t \in Nat /\ i * t \in Nat /\ n * t \in Nat
  BY <1>1, <1>2, Product
<1>4. (i - 1) * t + t = i * t
  BY <1>1, <1>2, Z3
<1>5. i * t <= n * t
  BY <1>1, <1>2, ProductMono
<1>6. WorkerStart(s, l, i) = s + (i - 1) * t
  BY DEF WorkerStart, t
<1>7. WorkerEnd(s, l, i) = IF i = n THEN l ELSE s + i * t
  BY DEF WorkerEnd, t, n
<1>8. StepCount(s, l) = t
  BY DEF t
<1> QED
  BY <1>1, <1>3, <1>4, <1>5, <1>6, <1>7, <1>8

\* Starting workers with ranges of heights keeps the types.
LEMMA StartTypes ==
  ASSUME WorkerTypes, ParserTypes, ChanTypes, setup' = setup,
         NEW ws \in SUBSET Workers, NEW s \in [ws -> Nat], NEW e \in [ws -> Nat],
         StartWorkers(ws, s, e)
  PROVE  WorkerTypes' /\ ParserTypes' /\ ChanTypes'
<1>1. WorkerTypes'
  BY Frozen DEF StartWorkers, WorkerTypes
<1>2. ParserTypes'
  BY Frozen DEF StartWorkers, ParserTypes
<1>3. ChanTypes'
  BY SameTypes DEF StartWorkers
<1> QED
  BY <1>1, <1>2, <1>3

\* What lies in a channel, the nil message aside, is a block.
LEMMA TypedQueue ==
  ASSUME ChanTypes, NEW w \in Workers
  PROVE  Queued(w) \subseteq Blocks
BY DEF ChanTypes, Queued

\* Heights are natural numbers.
LEMMA HeadTypes ==
  /\ TypeOK => head \in Nat
  /\ TypeOK' => head' \in Nat
<1>1. TypeOK => head \in Nat
  BY TypeParts, SetupFacts DEF MainTypes
<1>2. TypeOK' => head' \in Nat
  <2>1. TypeOK' => setup' \in Setups /\ head' \in setup'.firstHead .. setup'.maxHead
    BY TypeParts DEF MainTypes, MaxHead
  <2>2. setup' \in Setups => setup'.firstHead \in Nat
    BY ConstantsAssumption DEF SetupType
  <2> QED
    BY <2>1, <2>2
<1> QED
  BY <1>1, <1>2

\* What a worker has fetched are heights.
LEMMA FlightTypes ==
  ASSUME TypeOK, NEW w \in Workers
  PROVE  InFlight(w) \cup marking[w] \subseteq Nat
<1>1. Queued(w) \subseteq Blocks /\ adding[w] \subseteq Blocks /\ parsing[w] \subseteq Blocks
      /\ marking[w] \subseteq Blocks
  BY TypeParts, TypedQueue DEF ParserTypes
<1>2. Blocks \subseteq Nat
  BY TypeParts, SetupFacts DEF MainTypes, Blocks
<1> QED
  BY <1>1, <1>2 DEF InFlight

\* What a parser can receive is a block or nil.
LEMMA ReadableTypes ==
  ASSUME ChanTypes, NEW w \in Workers, Readable(w) /= <<>>
  PROVE  /\ Head(Readable(w)) \in Blocks \cup {Nil}
         /\ Tail(Readable(w)) \in Seq(Blocks \cup {Nil})
         /\ Len(Tail(Readable(w))) <= ChanCap(w)
<1>1. /\ chan[w] \in Seq(Blocks \cup {Nil}) /\ Len(chan[w]) <= ChanCap(w)
      /\ ChanCap(w) \in Nat /\ ChanCap(w) > 0
  BY Constants DEF ChanTypes, ChanCap
<1>2. CASE Readable(w) = <<Nil>>
  <2>1. Head(<<Nil>>) = Nil /\ Tail(<<Nil>>) = <<>> /\ Len(<<>>) = 0
    OBVIOUS
  <2> QED
    BY <1>1, <1>2, <2>1
<1>3. CASE Readable(w) = chan[w]
  BY <1>1, <1>3
<1> QED
  BY <1>2, <1>3 DEF Readable

\* Sending to a channel with room keeps its type and its capacity.
LEMMA SendTypes ==
  ASSUME ChanTypes, setup' = setup, NEW w \in Workers, HasRoom(w),
         NEW m \in Blocks \cup {Nil}, chan' = [chan EXCEPT ![w] = Append(@, m)]
  PROVE  ChanTypes'
<1>1. /\ chan[w] \in Seq(Blocks \cup {Nil}) /\ Len(chan[w]) \in Nat
      /\ chan \in [Workers -> Seq(Blocks \cup {Nil})]
  BY DEF ChanTypes
<1>2. Append(chan[w], m) \in Seq(Blocks \cup {Nil}) /\ Len(Append(chan[w], m)) = Len(chan[w]) + 1
  BY <1>1
<1>3. Len(chan[w]) + 1 <= ChanCap(w)
  BY <1>1, Constants DEF HasRoom, ChanCap
<1>4. Blocks' = Blocks
  BY Frozen
<1> QED
  BY <1>1, <1>2, <1>3, <1>4 DEF ChanTypes, ChanCap

\* Every step keeps the types.
LEMMA TypesStep ==
  ASSUME TypeOK, [Next]_vars
  PROVE  TypeOK'
<1> SUFFICES MainTypes' /\ DBTypes' /\ WorkerTypes' /\ ChanTypes' /\ ParserTypes'
  BY TypeParts
<1>0. setup' = setup /\ Blocks' = Blocks /\ MaxHead' = MaxHead
  BY SetupStays, Frozen
<1>a. MainTypes /\ DBTypes /\ WorkerTypes /\ ChanTypes /\ ParserTypes
  BY TypeParts
<1>b. setup \in Setups /\ MaxHead \in Nat /\ SyncStart \in Nat /\ SyncEnd \in Nat
      /\ setup.firstHead \in Nat /\ setup.maxCrashes \in Nat /\ setup.maxDBFails \in Nat
  BY <1>a, SetupFacts DEF MainTypes
<1>1. CASE Boot
  <2>1. MainTypes'
    BY <1>0, <1>1, <1>a, <1>b DEF Boot, MainTypes, DBFail
  <2>2. DBTypes'
    BY <1>0, <1>1, <1>a, <1>b DEF Boot, DBTypes
  <2> QED
    BY <1>0, <1>1, <1>a, <2>1, <2>2, SameTypes DEF Boot
<1>2. CASE Dispatch
  <2>1. DBTypes' /\ crashes' = crashes /\ hasSyncToLatest' = hasSyncToLatest /\ head' = head
    BY <1>0, <1>2, <1>a, SameTypes DEF Dispatch
  <2>2. dbFails' \in 0 .. setup'.maxDBFails
    BY <1>0, <1>2, <1>a, <1>b DEF Dispatch, DBFail, MainTypes
  <2>3. PICK found \in BOOLEAN : \/ NothingToSync(FirstHeight(found))
                                \/ LeaveToLoop(FirstHeight(found))
                                \/ StartSync(FirstHeight(found))
    BY <1>2 DEF Dispatch
  <2>4. FirstHeight(found) \in Nat /\ LastHeight \in Nat
    BY <1>a, <1>b, Constants DEF FirstHeight, LastHeight, MainTypes, DBTypes
  <2>5. CASE NothingToSync(FirstHeight(found))
    BY <1>0, <1>a, <2>1, <2>2, <2>5, SameTypes DEF NothingToSync, MainTypes
  <2>6. CASE LeaveToLoop(FirstHeight(found))
    BY <1>0, <1>a, <2>1, <2>2, <2>4, <2>6, SameTypes DEF LeaveToLoop, MainTypes
  <2>7. CASE StartSync(FirstHeight(found))
    <3> DEFINE f == FirstHeight(found)
               l == LastHeight
               n == WorkerCount(f, l)
    <3>1. f < l
      BY <2>4, <2>7, Constants DEF StartSync, BlockCount
    <3>0. f \in Nat /\ l \in Nat
      BY <2>4
    <3> HIDE DEF f, l
    <3>2. n \in 0 .. JobCount /\ 1 .. n \subseteq Workers
      <4>1. n \in 1 .. JobCount
        BY <3>0, <3>1, Shares
      <4>2. n \in 0 .. JobCount
        BY <4>1, Constants
      <4> QED
        BY <4>2, WorkerSet
    <3>3. active' = 1 .. n /\ phase' = "sync" /\ start' = f /\ last' = l
          /\ StartWorkers(1 .. n, [w \in 1 .. n |-> WorkerStart(f, l, w)],
                                  [w \in 1 .. n |-> WorkerEnd(f, l, w)])
      BY <2>7 DEF StartSync, f, l
    <3>4. \A w \in 1 .. n : WorkerStart(f, l, w) \in Nat /\ WorkerEnd(f, l, w) \in Nat
      BY <3>0, <3>1, Ranges
    <3> HIDE DEF n
    <3>5. WorkerTypes' /\ ParserTypes' /\ ChanTypes'
      BY <1>0, <1>a, <3>2, <3>3, <3>4, StartTypes
    <3>6. MainTypes'
      BY <1>0, <1>a, <2>1, <2>2, <2>4, <3>2, <3>3 DEF MainTypes, f, l
    <3> QED
      BY <2>1, <3>5, <3>6
  <2> QED
    BY <2>3, <2>5, <2>6, <2>7
<1>3. CASE CheckSync
  <2>1. DBTypes'
    BY <1>0, <1>3, <1>a, SameTypes DEF CheckSync, history
  <2>2. MainTypes'
    BY <1>0, <1>3, <1>a, WorkerSet DEF CheckSync, AfterSync, MainTypes, history
  <2>3. WorkerTypes' /\ ParserTypes' /\ ChanTypes'
    <3>1. CASE OnlySyncAccount
      BY <1>0, <1>3, <1>a, <3>1, SameTypes DEF CheckSync
    <3>2. CASE ~OnlySyncAccount
      <4>1. StartWorkers({CheckWorker}, [w \in {CheckWorker} |-> start],
                                        [w \in {CheckWorker} |-> last])
        BY <1>3, <3>2 DEF CheckSync
      <4>2. start \in Nat /\ last \in Nat
        BY <1>a DEF MainTypes
      <4> QED
        BY <1>0, <1>a, <4>1, <4>2, StartTypes, WorkerSet
    <3> QED
      BY <3>1, <3>2
  <2> QED
    BY <2>1, <2>2, <2>3
<1>4. CASE CheckSyncDone
  <2>1. MainTypes'
    BY <1>0, <1>4, <1>a, <1>b DEF CheckSyncDone, MainTypes, AfterSync, history
  <2> QED
    BY <1>0, <1>4, <1>a, <2>1, SameTypes DEF CheckSyncDone, history
<1>5. CASE StartLoop
  <2>1. DBTypes'
    BY <1>0, <1>5, <1>a, SameTypes DEF StartLoop, history
  <2>2. MainTypes'
    BY <1>0, <1>5, <1>a, WorkerSet DEF StartLoop, MainTypes, history
  <2>3. StartWorkers({LoopWorker}, [w \in {LoopWorker} |-> last], [w \in {LoopWorker} |-> 0])
    BY <1>5 DEF StartLoop, LoopFrom
  <2>4. last \in Nat /\ 0 \in Nat
    BY <1>a DEF MainTypes
  <2>5. WorkerTypes' /\ ParserTypes' /\ ChanTypes'
    BY <1>0, <1>a, <2>3, <2>4, StartTypes, WorkerSet
  <2> QED
    BY <2>1, <2>2, <2>5
<1>6. CASE SetSynced
  <2>1. MainTypes'
    BY <1>0, <1>6, <1>a, <1>b DEF SetSynced, MainTypes, history
  <2> QED
    BY <1>0, <1>6, <1>a, <2>1, SameTypes DEF SetSynced, history
<1>7. ASSUME NEW w \in Workers, NextRange(w) PROVE TypeOK'
  <2>1. WorkerTypes'
    BY <1>0, <1>7, <1>a, <1>b, Constants DEF NextRange, WorkerTypes, MainTypes, Newest, Deepest
  <2> QED
    BY <1>0, <1>7, <1>a, <2>1, TypeParts, SameTypes DEF NextRange, history
<1>8. ASSUME NEW w \in Workers, EndSync(w) PROVE TypeOK'
  <2>1. WorkerTypes'
    BY <1>0, <1>8, <1>a DEF EndSync, WorkerTypes
  <2>2. ChanTypes'
    BY <1>0, <1>8, <1>a, SendTypes DEF EndSync
  <2> QED
    BY <1>0, <1>8, <1>a, <2>1, <2>2, TypeParts, SameTypes DEF EndSync, history
<1>9. ASSUME NEW w \in Workers, FindBlocksInRange(w) PROVE TypeOK'
  <2>1. WorkerTypes'
    <3> DEFINE upto == Least(height[w] + RangeStep - 1, rangeEnd[w])
               found == stored \cap (height[w] .. upto)
    <3>1. height[w] \in Nat /\ rangeEnd[w] \in Int /\ found \subseteq Blocks
      BY <1>a DEF WorkerTypes, DBTypes
    <3>2. upto \in Int
      BY <3>1, Constants DEF Least
    <3>3. \/ UNCHANGED <<height, to, known>> /\ wpc' = [wpc EXCEPT ![w] = "top"]
          \/ /\ height[w] <= rangeEnd[w]
             /\ height' = [height EXCEPT ![w] = upto + 1] /\ UNCHANGED <<wpc, to, known>>
          \/ /\ wpc' = [wpc EXCEPT ![w] = "fetch"] /\ to' = [to EXCEPT ![w] = upto]
             /\ known' = [known EXCEPT ![w] = found] /\ UNCHANGED height
      BY <1>9, <3>1 DEF FindBlocksInRange
    <3>4. UNCHANGED <<wstart, wend, latest, rangeEnd>>
      BY <1>9 DEF FindBlocksInRange
    <3>5. height[w] <= rangeEnd[w] => upto + 1 \in Nat
      BY <3>1, Constants DEF Least
    <3> HIDE DEF upto, found
    <3> QED
      BY <1>0, <1>a, <3>1, <3>2, <3>3, <3>4, <3>5 DEF WorkerTypes
  <2> QED
    BY <1>0, <1>9, <1>a, <2>1, TypeParts, SameTypes DEF FindBlocksInRange, history
<1>10. ASSUME NEW w \in Workers, FetchBlock(w) PROVE TypeOK'
  <2>1. WorkerTypes'
    BY <1>0, <1>10, <1>a DEF FetchBlock, WorkerTypes
  <2>2. ChanTypes'
    <3>1. CASE MustFetch(w)
      <4>1. height[w] \in Blocks
        BY <1>10, <1>a, <1>b, <3>1 DEF FetchBlock, WorkerTypes, Blocks, MainTypes
      <4> QED
        BY <1>0, <1>10, <1>a, <3>1, <4>1, SendTypes DEF FetchBlock
    <3>2. CASE ~MustFetch(w)
      BY <1>0, <1>10, <1>a, <3>2, SameTypes DEF FetchBlock
    <3> QED
      BY <3>1, <3>2
  <2> QED
    BY <1>0, <1>10, <1>a, <2>1, <2>2, TypeParts, SameTypes DEF FetchBlock, history
<1>11. ASSUME NEW w \in Workers, EndRange(w) PROVE TypeOK'
  <2>1. WorkerTypes'
    BY <1>0, <1>11, <1>a DEF EndRange, WorkerTypes
  <2> QED
    BY <1>0, <1>11, <1>a, <2>1, TypeParts, SameTypes DEF EndRange, history
<1>12. ASSUME NEW w \in Workers, Receive(w) PROVE TypeOK'
  <2>1. ChanTypes'
    <3>1. Readable(w) /= <<>> /\ chan' = [chan EXCEPT ![w] = Tail(Readable(w))]
      BY <1>12 DEF Receive
    <3>2. /\ Tail(Readable(w)) \in Seq(Blocks \cup {Nil})
          /\ Len(Tail(Readable(w))) <= ChanCap(w)
      BY <1>a, <3>1, ReadableTypes
    <3> QED
      BY <1>0, <1>a, <3>1, <3>2 DEF ChanTypes, ChanCap
  <2>2. ParserTypes'
    <3>1. /\ count[w] \in Nat /\ count[w] < MaxParseBlocks
          /\ Head(Readable(w)) \in Blocks \cup {Nil}
      BY <1>12, <1>a, Constants, ReadableTypes DEF Receive, ParserTypes
    <3>2. (count[w] + 1) % MaxParseBlocks \in 0 .. MaxParseBlocks - 1
      BY <3>1, Constants
    <3>3. CASE Head(Readable(w)) = Nil
      BY <1>0, <1>12, <1>a, <3>3 DEF Receive, ParserTypes
    <3>4. CASE Head(Readable(w)) /= Nil
      <4>1. Head(Readable(w)) \in Blocks
        BY <3>1, <3>4
      <4>2. /\ count' = [count EXCEPT ![w] = (count[w] + 1) % MaxParseBlocks]
            /\ ppc' = [ppc EXCEPT ![w] = "barrier"] \/ ppc' = [ppc EXCEPT ![w] = "run"]
            /\ adding' = [adding EXCEPT ![w] = adding[w] \cup {Head(Readable(w))}]
               \/ adding' = [adding EXCEPT ![w] = adding[w]]
            /\ parsing' = [parsing EXCEPT ![w] = parsing[w] \cup {Head(Readable(w))}]
            /\ marking' = marking
        BY <1>12, <3>4 DEF Receive
      <4> QED
        BY <1>0, <1>a, <3>2, <4>1, <4>2 DEF ParserTypes
    <3> QED
      BY <3>3, <3>4
  <2> QED
    BY <1>0, <1>12, <1>a, <2>1, <2>2, TypeParts, SameTypes DEF Receive, history
<1>13. ASSUME NEW w \in Workers, BatchDone(w) \/ ParserDone(w) PROVE TypeOK'
  <2>1. ParserTypes'
    BY <1>0, <1>13, <1>a DEF BatchDone, ParserDone, ParserTypes
  <2> QED
    BY <1>0, <1>13, <1>a, <2>1, TypeParts, SameTypes DEF BatchDone, ParserDone, history
<1>15. ASSUME NEW w \in Workers, NEW b \in adding[w], AddBlock(w, b) PROVE TypeOK'
  <2>1. ParserTypes'
    BY <1>0, <1>15, <1>a DEF AddBlock, ParserTypes
  <2>2. DBTypes' /\ MainTypes'
    BY <1>0, <1>15, <1>a, <1>b DEF AddBlock, ParserTypes, DBTypes, MainTypes, DBFail, main
  <2> QED
    BY <1>0, <1>15, <1>a, <2>1, <2>2, TypeParts, SameTypes DEF AddBlock
<1>16. ASSUME NEW w \in Workers, NEW b \in marking[w], UpdateSyncInfo(w, b) PROVE TypeOK'
  <2>1. ParserTypes'
    BY <1>0, <1>16, <1>a DEF UpdateSyncInfo, ParserTypes
  <2>2. DBTypes' /\ MainTypes'
    <3>1. b \in Nat
      BY <1>a, <1>b DEF ParserTypes, Blocks
    <3> QED
      BY <1>0, <1>16, <1>a, <1>b, <3>1 DEF UpdateSyncInfo, DBTypes, MainTypes, DBFail, main
  <2> QED
    BY <1>0, <1>16, <1>a, <2>1, <2>2, TypeParts, SameTypes DEF UpdateSyncInfo
<1>17. ASSUME NEW w \in Workers, NEW b \in parsing[w], ParseTransactions(w, b) PROVE TypeOK'
  <2>1. ParserTypes'
    BY <1>0, <1>17, <1>a DEF ParseTransactions, ParserTypes
  <2>2. DBTypes'
    BY <1>0, <1>17, <1>a DEF ParseTransactions, ParserTypes, DBTypes, history
  <2> QED
    BY <1>0, <1>17, <1>a, <2>1, <2>2, TypeParts, SameTypes DEF ParseTransactions, history
<1>18. CASE NewBlock
  <2>1. MainTypes'
    BY <1>0, <1>18, <1>a, <1>b DEF NewBlock, MainTypes, main, history
  <2> QED
    BY <1>0, <1>18, <1>a, <2>1, SameTypes DEF NewBlock, history
<1>19. CASE Crash
  <2>1. MainTypes'
    <3>1. /\ phase' = "boot" /\ start' = SyncStart /\ last' = 0 /\ active' = {}
          /\ hasSyncToLatest' = FALSE /\ head' = head /\ dbFails' = dbFails
          /\ crashes < setup.maxCrashes /\ crashes' = crashes + 1
      BY <1>19 DEF Crash, Restarted
    <3>2. crashes + 1 \in 0 .. setup.maxCrashes
      BY <1>a, <1>b, <3>1 DEF MainTypes
    <3>3. head' \in setup'.firstHead .. MaxHead' /\ dbFails' \in 0 .. setup'.maxDBFails
          /\ crashes' \in 0 .. setup'.maxCrashes
      BY <1>0, <1>a, <3>1, <3>2 DEF MainTypes
    <3> QED
      BY <1>0, <1>b, <3>1, <3>3 DEF MainTypes
  <2>2. \A w \in Workers : UnsavedNow(w) \subseteq Blocks /\ UnparsedNow(w) \subseteq Blocks
    BY <1>a, TypedQueue DEF UnsavedNow, UnparsedNow, ParserTypes
  <2>3. DBTypes'
    <3>1. UNION {UnsavedNow(w) : w \in Workers} \subseteq Blocks
          /\ UNION {UnparsedNow(w) : w \in Workers} \subseteq Blocks
      BY <2>2, Zenon
    <3>2. UNCHANGED db
      BY <1>19 DEF Crash
    <3>3. unsaved' \subseteq Blocks /\ unparsed' \subseteq Blocks
      <4>1. /\ unsaved' = unsaved \cup UNION {UnsavedNow(w) : w \in Workers}
            /\ unparsed' = unparsed \cup UNION {UnparsedNow(w) : w \in Workers}
        BY <1>19 DEF Crash
      <4> QED
        BY <1>a, <3>1, <4>1, Zenon DEF DBTypes
    <3>4. stored' = stored /\ parsed' = parsed /\ syncInfo' = syncInfo
      BY <3>2 DEF db
    <3> QED
      BY <1>0, <1>a, <3>3, <3>4 DEF DBTypes
  <2>4. WorkerTypes'
    BY <1>0, <1>19 DEF Crash, Restarted, Each, WorkerTypes
  <2>5. ChanTypes'
    BY <1>0, <1>19, Constants DEF Crash, Restarted, Each, ChanTypes, ChanCap
  <2>6. ParserTypes'
    BY <1>0, <1>19, Constants DEF Crash, Restarted, Each, ParserTypes
  <2> QED
    BY <2>1, <2>3, <2>4, <2>5, <2>6
<1>20. CASE UNCHANGED vars
  BY <1>0, <1>20, <1>a, SameTypes DEF vars, history
<1> QED
  BY <1>1, <1>2, <1>3, <1>4, <1>5, <1>6, <1>7, <1>8, <1>9, <1>10, <1>11, <1>12, <1>13,
     <1>15, <1>16, <1>17, <1>18, <1>19, <1>20, TypeParts DEF Next, Syncer, Worker, Parser

----------------------------------------------------------------------------
\* The channels, and what belongs to one worker

QueueOf(c) == {c[i] : i \in DOMAIN c} \ {Nil}

\* What a send does to the blocks of a channel.
LEMMA QueueAppend ==
  ASSUME NEW S, NEW c \in Seq(S), NEW m \in S
  PROVE  /\ QueueOf(Append(c, m)) = QueueOf(c) \cup ({m} \ {Nil})
         /\ Len(Append(c, m)) = Len(c) + 1
         /\ DOMAIN Append(c, m) = 1 .. Len(c) + 1
         /\ \A i \in 1 .. Len(c) : Append(c, m)[i] = c[i]
         /\ Append(c, m)[Len(c) + 1] = m
<1>1. /\ Len(Append(c, m)) = Len(c) + 1
      /\ DOMAIN Append(c, m) = 1 .. Len(c) + 1
      /\ \A i \in 1 .. Len(c) : Append(c, m)[i] = c[i]
      /\ Append(c, m)[Len(c) + 1] = m
      /\ Len(c) \in Nat /\ DOMAIN c = 1 .. Len(c)
  OBVIOUS
<1>2. DOMAIN Append(c, m) = DOMAIN c \cup {Len(c) + 1} /\ Len(c) + 1 \notin DOMAIN c
  BY <1>1
<1>3. {Append(c, m)[i] : i \in DOMAIN Append(c, m)} = {c[i] : i \in DOMAIN c} \cup {m}
  <2>1. \A x : (\E i \in DOMAIN Append(c, m) : Append(c, m)[i] = x)
               <=> (\E i \in DOMAIN c : c[i] = x) \/ x = m
    <3> TAKE x
    <3>1. ASSUME NEW i \in DOMAIN Append(c, m), Append(c, m)[i] = x
          PROVE  (\E j \in DOMAIN c : c[j] = x) \/ x = m
      BY <1>1, <1>2, <3>1, i \in DOMAIN c \/ i = Len(c) + 1
    <3>2. ASSUME NEW i \in DOMAIN c, c[i] = x
          PROVE  \E j \in DOMAIN Append(c, m) : Append(c, m)[j] = x
      BY <1>1, <1>2, <3>2
    <3>3. ASSUME x = m
          PROVE  \E j \in DOMAIN Append(c, m) : Append(c, m)[j] = x
      BY <1>1, <1>2, <3>3
    <3> QED
      BY <3>1, <3>2, <3>3
  <2> QED
    BY <2>1, Zenon
<1> QED
  BY <1>1, <1>3, Zenon DEF QueueOf

\* What a receive does to the blocks of a channel.
LEMMA QueueTail ==
  ASSUME NEW S, NEW c \in Seq(S), c /= <<>>
  PROVE  /\ Head(c) \in S /\ Tail(c) \in Seq(S)
         /\ QueueOf(c) = QueueOf(Tail(c)) \cup ({Head(c)} \ {Nil})
         /\ Len(c) \in Nat \ {0}
         /\ DOMAIN c = 1 .. Len(c)
         /\ Len(Tail(c)) = Len(c) - 1
         /\ DOMAIN Tail(c) = 1 .. Len(c) - 1
         /\ \A i \in 1 .. Len(c) - 1 : Tail(c)[i] = c[i + 1]
         /\ Head(c) = c[1]
<1>1. /\ Head(c) \in S /\ Tail(c) \in Seq(S)
      /\ Len(c) \in Nat \ {0}
      /\ DOMAIN c = 1 .. Len(c)
      /\ Len(Tail(c)) = Len(c) - 1
      /\ DOMAIN Tail(c) = 1 .. Len(c) - 1
      /\ \A i \in 1 .. Len(c) - 1 : Tail(c)[i] = c[i + 1]
      /\ Head(c) = c[1]
  BY EmptySeq, HeadTailProperties
<1>2. \A i \in DOMAIN Tail(c) : i + 1 \in DOMAIN c /\ Tail(c)[i] = c[i + 1]
  BY <1>1
<1>3. \A i \in DOMAIN c : i = 1 \/ (i - 1 \in DOMAIN Tail(c) /\ Tail(c)[i - 1] = c[i])
  <2> SUFFICES ASSUME NEW i \in 1 .. Len(c), i /= 1
               PROVE  i - 1 \in 1 .. Len(c) - 1 /\ Tail(c)[i - 1] = c[i]
    BY <1>1
  <2>1. i - 1 \in 1 .. Len(c) - 1 /\ (i - 1) + 1 = i
    BY <1>1
  <2> QED
    BY <1>1, <2>1
<1>4. 1 \in DOMAIN c
  BY <1>1
<1>5. QueueOf(c) = QueueOf(Tail(c)) \cup ({c[1]} \ {Nil})
  <2>1. \A x : (\E i \in DOMAIN c : c[i] = x)
               <=> (\E i \in DOMAIN Tail(c) : Tail(c)[i] = x) \/ x = c[1]
    BY <1>2, <1>3, <1>4, Zenon
  <2>2. {c[i] : i \in DOMAIN c} = {Tail(c)[i] : i \in DOMAIN Tail(c)} \cup {c[1]}
    BY <2>1, Zenon
  <2> QED
    BY <2>2, Zenon DEF QueueOf
<1> QED
  BY <1>1, <1>5

\* An empty channel holds no block.
LEMMA QueueEmpty == QueueOf(<<>>) = {}
BY DEF QueueOf

\* What belongs to worker w and its parser
Local(w) == <<wpc[w], wstart[w], wend[w], height[w], latest[w], rangeEnd[w], to[w], known[w],
              chan[w], ppc[w], count[w], adding[w], marking[w], parsing[w]>>

\* A step of one worker, its parser or their goroutines leaves the other workers alone.
LEMMA Alone ==
  ASSUME TypeOK, NEW w \in Workers,
         \/ Worker(w) \/ Parser(w)
         \/ \E b \in adding[w] : AddBlock(w, b)
         \/ \E b \in marking[w] : UpdateSyncInfo(w, b)
         \/ \E b \in parsing[w] : ParseTransactions(w, b),
         NEW v \in Workers, v /= w
  PROVE  Local(v)' = Local(v)
<1>1. WorkerTypes /\ ChanTypes /\ ParserTypes
  BY TypeParts
<1>2. CASE NextRange(w)
  BY <1>1, <1>2 DEF Local, NextRange, WorkerTypes, ChanTypes, ParserTypes, par
<1>3. CASE EndSync(w)
  BY <1>1, <1>3 DEF Local, EndSync, WorkerTypes, ChanTypes, ParserTypes, par
<1>4. CASE FindBlocksInRange(w)
  BY <1>1, <1>4 DEF Local, FindBlocksInRange, WorkerTypes, ChanTypes, ParserTypes, par
<1>5. CASE FetchBlock(w)
  BY <1>1, <1>5 DEF Local, FetchBlock, WorkerTypes, ChanTypes, ParserTypes, par
<1>6. CASE EndRange(w)
  BY <1>1, <1>6 DEF Local, EndRange, WorkerTypes, ChanTypes, ParserTypes, par
<1>7. CASE Receive(w)
  BY <1>1, <1>7, SMTT(30) DEF Local, Receive, WorkerTypes, ChanTypes, ParserTypes, wrk
<1>8. CASE BatchDone(w) \/ ParserDone(w)
  BY <1>1, <1>8 DEF Local, BatchDone, ParserDone, WorkerTypes, ChanTypes, ParserTypes, wrk
<1>9. CASE \E b \in adding[w] : AddBlock(w, b)
  BY <1>1, <1>9 DEF Local, AddBlock, WorkerTypes, ChanTypes, ParserTypes, wrk
<1>10. CASE \E b \in marking[w] : UpdateSyncInfo(w, b)
  BY <1>1, <1>10 DEF Local, UpdateSyncInfo, WorkerTypes, ChanTypes, ParserTypes, wrk
<1>11. CASE \E b \in parsing[w] : ParseTransactions(w, b)
  BY <1>1, <1>11 DEF Local, ParseTransactions, WorkerTypes, ChanTypes, ParserTypes, wrk
<1> QED
  BY <1>2, <1>3, <1>4, <1>5, <1>6, <1>7, <1>8, <1>9, <1>10, <1>11 DEF Worker, Parser

\* What a worker and its parser hold is the same when all of their variables are.
LEMMA SameLocal ==
  ASSUME NEW w, setup' = setup, Local(w)' = Local(w)
  PROVE  /\ wpc[w]' = wpc[w] /\ wstart[w]' = wstart[w] /\ wend[w]' = wend[w]
         /\ height[w]' = height[w] /\ latest[w]' = latest[w]
         /\ rangeEnd[w]' = rangeEnd[w] /\ to[w]' = to[w] /\ known[w]' = known[w]
         /\ chan[w]' = chan[w] /\ ppc[w]' = ppc[w] /\ count[w]' = count[w]
         /\ adding[w]' = adding[w] /\ marking[w]' = marking[w] /\ parsing[w]' = parsing[w]
         /\ Queued(w)' = Queued(w) /\ InFlight(w)' = InFlight(w)
         /\ UnsavedNow(w)' = UnsavedNow(w) /\ UnparsedNow(w)' = UnparsedNow(w)
<1>1. /\ wpc[w]' = wpc[w] /\ wstart[w]' = wstart[w] /\ wend[w]' = wend[w]
      /\ height[w]' = height[w] /\ latest[w]' = latest[w]
      /\ rangeEnd[w]' = rangeEnd[w] /\ to[w]' = to[w] /\ known[w]' = known[w]
      /\ chan[w]' = chan[w] /\ ppc[w]' = ppc[w] /\ count[w]' = count[w]
      /\ adding[w]' = adding[w] /\ marking[w]' = marking[w] /\ parsing[w]' = parsing[w]
  BY DEF Local
<1>2. Queued(w)' = Queued(w)
  BY <1>1 DEF Queued
<1> QED
  BY <1>1, <1>2 DEF InFlight, UnsavedNow, UnparsedNow, OnlySyncAccount

----------------------------------------------------------------------------
\* The goroutines that there are: ShapeInv

\* An action of worker w
Step(w) ==
  \/ Worker(w) \/ Parser(w)
  \/ \E b \in adding[w] : AddBlock(w, b)
  \/ \E b \in marking[w] : UpdateSyncInfo(w, b)
  \/ \E b \in parsing[w] : ParseTransactions(w, b)

\* A step of a worker leaves the variables of the syncer goroutine and the chain alone.
LEMMA StepFrame ==
  ASSUME NEW w, Step(w)
  PROVE  UNCHANGED <<setup, head, phase, start, last, active, hasSyncToLatest>>
BY DEF Step, Worker, NextRange, EndSync, FindBlocksInRange, FetchBlock, EndRange, Parser,
       Receive, BatchDone, ParserDone, AddBlock, UpdateSyncInfo, ParseTransactions, main

\* The channel after doSync or syncRange has sent a message.
LEMMA SendEffect ==
  ASSUME ChanTypes, NEW w \in Workers, NEW m \in Blocks \cup {Nil},
         chan' = [chan EXCEPT ![w] = Append(@, m)]
  PROVE  /\ chan[w]' = Append(chan[w], m)
         /\ Queued(w)' = Queued(w) \cup ({m} \ {Nil})
         /\ Len(chan[w]) \in Nat /\ DOMAIN chan[w] = 1 .. Len(chan[w])
         /\ Len(chan[w]') = Len(chan[w]) + 1
         /\ DOMAIN (chan[w]') = 1 .. Len(chan[w]) + 1
         /\ \A i \in 1 .. Len(chan[w]) : chan[w]'[i] = chan[w][i]
         /\ chan[w]'[Len(chan[w]) + 1] = m
<1>1. chan[w] \in Seq(Blocks \cup {Nil}) /\ chan[w]' = Append(chan[w], m)
  BY DEF ChanTypes
<1>2. Queued(w) = QueueOf(chan[w]) /\ Queued(w)' = QueueOf(chan[w]')
  BY DEF Queued, QueueOf
<1> QED
  BY <1>1, <1>2, QueueAppend

\* A parser gets the nil message before it could find its channel closed.
LEMMA NilBeforeClose ==
  ASSUME NEW w \in Workers, WorkerShape(w), Receive(w)
  PROVE  chan[w] /= <<>> /\ Readable(w) = chan[w]
<1>1. wpc[w] = "done" => chan[w] /= <<>>
  BY DEF WorkerShape, Receive
<1>2. Readable(w) /= <<>>
  BY DEF Receive
<1> QED
  BY <1>1, <1>2 DEF Readable

\* The channel, the goroutines and the batch after startParser has taken a message.
LEMMA ReceiveEffect ==
  ASSUME ChanTypes, ParserTypes, NEW w \in Workers, WorkerShape(w), Receive(w)
  PROVE  /\ Head(chan[w]) \in Blocks \cup {Nil}
         /\ chan[w]' = Tail(chan[w])
         /\ Queued(w) = Queued(w)' \cup ({Head(chan[w])} \ {Nil})
         /\ Len(chan[w]) \in Nat \ {0} /\ DOMAIN chan[w] = 1 .. Len(chan[w])
         /\ Len(chan[w]') = Len(chan[w]) - 1
         /\ DOMAIN (chan[w]') = 1 .. Len(chan[w]) - 1
         /\ \A i \in 1 .. Len(chan[w]) - 1 : chan[w]'[i] = chan[w][i + 1]
         /\ Head(chan[w]) = chan[w][1]
         /\ IF Head(chan[w]) = Nil
              THEN /\ ppc[w]' = "drain" /\ count[w]' = count[w]
                   /\ adding[w]' = adding[w] /\ parsing[w]' = parsing[w]
              ELSE /\ adding[w]' = IF OnlySyncAccount THEN adding[w]
                                   ELSE adding[w] \cup {Head(chan[w])}
                   /\ parsing[w]' = parsing[w] \cup {Head(chan[w])}
                   /\ count[w]' = (count[w] + 1) % MaxParseBlocks
                   /\ ppc[w]' = IF count[w] + 1 = MaxParseBlocks THEN "barrier" ELSE "run"
<1>0. chan[w] /= <<>> /\ Readable(w) = chan[w]
  BY NilBeforeClose
<1>1. chan[w] \in Seq(Blocks \cup {Nil}) /\ chan[w] /= <<>> /\ chan[w]' = Tail(chan[w])
  BY <1>0 DEF ChanTypes, Receive
<1>2. Queued(w) = QueueOf(chan[w]) /\ Queued(w)' = QueueOf(chan[w]')
  BY DEF Queued, QueueOf
<1>3. IF Head(chan[w]) = Nil
        THEN /\ ppc[w]' = "drain" /\ count[w]' = count[w]
             /\ adding[w]' = adding[w] /\ parsing[w]' = parsing[w]
        ELSE /\ adding[w]' = IF OnlySyncAccount THEN adding[w]
                             ELSE adding[w] \cup {Head(chan[w])}
             /\ parsing[w]' = parsing[w] \cup {Head(chan[w])}
             /\ count[w]' = (count[w] + 1) % MaxParseBlocks
             /\ ppc[w]' = IF count[w] + 1 = MaxParseBlocks THEN "barrier" ELSE "run"
  BY <1>0 DEF Receive, ParserTypes
<1> QED
  BY <1>1, <1>2, <1>3, QueueTail

\* The shape of a worker that does nothing stays when the phase still lets it work.
LEMMA WorkerShapeStays ==
  ASSUME NEW w, setup' = setup, Local(w)' = Local(w), WorkerShape(w),
         w \in Live => w \in Live' \/ Rests(w), phase = "looping" => phase' = "looping"
  PROVE  WorkerShape(w)'
<1>1. OnlySyncAccount' = OnlySyncAccount
  BY DEF OnlySyncAccount
<1>2. Rests(w)' <=> Rests(w)
  BY SameLocal DEF Rests
<1>3. /\ wpc[w]' = wpc[w] /\ chan[w]' = chan[w] /\ ppc[w]' = ppc[w] /\ count[w]' = count[w]
      /\ adding[w]' = adding[w] /\ marking[w]' = marking[w] /\ InFlight(w)' = InFlight(w)
  BY SameLocal
<1> QED
  BY <1>1, <1>2, <1>3, Zenon DEF WorkerShape, LoopWorker

\* What a worker fetches is a block of the chain.
LEMMA Fetched ==
  ASSUME TypeOK, NEW w \in Workers, FetchBlock(w), MustFetch(w)
  PROVE  height[w] \in Blocks
<1>1. MainTypes /\ WorkerTypes /\ MaxHead \in Nat /\ setup.firstHead \in Nat
  BY TypeParts, SetupFacts DEF MainTypes
<1> QED
  BY <1>1 DEF MainTypes, WorkerTypes, FetchBlock, Blocks

\* A worker's own steps keep its shape.
LEMMA WorkerShapeStep ==
  ASSUME TypeOK, NEW w \in Workers, Step(w), WorkerShape(w),
         hasSyncToLatest => phase = "looping"
  PROVE  WorkerShape(w)'
<1>1. WorkerTypes /\ ChanTypes /\ ParserTypes
  BY TypeParts
<1>2. setup' = setup /\ OnlySyncAccount' = OnlySyncAccount /\ phase' = phase /\ Live' = Live
  BY StepFrame DEF Live, OnlySyncAccount
<1>3. CASE NextRange(w)
  BY <1>1, <1>2, <1>3
  DEF NextRange, WorkerShape, WorkerTypes, par, InFlight, Queued, Rests
<1>4. CASE EndSync(w)
  <2>1. chan' = [chan EXCEPT ![w] = Append(@, Nil)]
    BY <1>4 DEF EndSync
  <2>2. /\ Queued(w)' = Queued(w) \cup ({Nil} \ {Nil})
        /\ Len(chan[w]) \in Nat /\ DOMAIN chan[w] = 1 .. Len(chan[w])
        /\ Len(chan[w]') = Len(chan[w]) + 1
        /\ DOMAIN (chan[w]') = 1 .. Len(chan[w]) + 1
        /\ \A i \in 1 .. Len(chan[w]) : chan[w]'[i] = chan[w][i]
        /\ chan[w]'[Len(chan[w]) + 1] = Nil
    BY <1>1, <2>1, SendEffect, Zenon
  <2>3. wpc[w] = "top" /\ wpc[w]' = "done" /\ UNCHANGED <<ppc, count, adding, marking, parsing>>
    BY <1>1, <1>4 DEF EndSync, WorkerTypes, par
  <2>4. InFlight(w)' = InFlight(w)
    BY <2>2, <2>3 DEF InFlight
  <2>5. ASSUME NEW i \in DOMAIN (chan[w]'), chan[w]'[i] = Nil
        PROVE  i = Len(chan[w]')
    <3> SUFFICES ASSUME i \in 1 .. Len(chan[w]) PROVE FALSE
      BY <2>2
    <3> QED
      BY <2>2, <2>3, <2>5 DEF WorkerShape
  <2>6. chan[w]' /= <<>> /\ chan[w]'[Len(chan[w]')] = Nil
    <3>1. Len(chan[w]') /= 0
      BY <2>2
    <3>2. chan[w]' /= <<>>
      BY <3>1
    <3> QED
      BY <2>2, <3>2
  <2> QED
    BY <1>2, <2>3, <2>4, <2>5, <2>6 DEF WorkerShape, Rests
<1>5. CASE FindBlocksInRange(w)
  BY <1>1, <1>2, <1>5
  DEF FindBlocksInRange, WorkerShape, WorkerTypes, par, InFlight, Queued, Rests
<1>6. CASE FetchBlock(w)
  <2>1. wpc[w] = "fetch" /\ wpc[w]' = "fetch" /\ UNCHANGED <<ppc, count, adding, marking, parsing>>
    BY <1>6 DEF FetchBlock, par
  <2>2. \A i \in DOMAIN (chan[w]') : chan[w]'[i] /= Nil
    <3>1. CASE MustFetch(w)
      <4>1. height[w] \in Blocks /\ chan' = [chan EXCEPT ![w] = Append(@, height[w])]
        BY <1>1, <1>6, <3>1, Fetched DEF FetchBlock
      <4>2. height[w] /= Nil
        BY <1>1 DEF WorkerTypes, Nil
      <4>3. /\ Len(chan[w]) \in Nat /\ DOMAIN chan[w] = 1 .. Len(chan[w])
            /\ DOMAIN (chan[w]') = 1 .. Len(chan[w]) + 1
            /\ \A i \in 1 .. Len(chan[w]) : chan[w]'[i] = chan[w][i]
            /\ chan[w]'[Len(chan[w]) + 1] = height[w]
        BY <1>1, <4>1, SendEffect
      <4> QED
        BY <2>1, <4>2, <4>3 DEF WorkerShape
    <3>2. CASE ~MustFetch(w)
      BY <1>6, <2>1, <3>2 DEF FetchBlock, WorkerShape
    <3> QED
      BY <3>1, <3>2
  <2>3. ppc[w] \notin {"idle", "drain", "done"}
    BY <2>1 DEF WorkerShape
  <2> QED
    BY <1>2, <2>1, <2>2, <2>3 DEF WorkerShape, Rests
<1>7. CASE EndRange(w)
  BY <1>1, <1>2, <1>7
  DEF EndRange, WorkerShape, WorkerTypes, par, InFlight, Queued, Rests
<1>8. CASE Receive(w)
  <2>1. /\ ppc[w] = "run" /\ wpc[w] /= "idle" /\ w \in Live
        /\ UNCHANGED <<wpc, marking>>
    BY <1>8 DEF Receive, WorkerShape, Rests, wrk
  <2>2. ASSUME NEW i \in DOMAIN (chan[w]'), chan[w]'[i] = Nil
        PROVE  wpc[w] = "done" /\ i = Len(chan[w]')
    <3>1. /\ i \in 1 .. Len(chan[w]) - 1 /\ Len(chan[w]) \in Nat \ {0}
          /\ chan[w][i + 1] = Nil /\ DOMAIN chan[w] = 1 .. Len(chan[w])
          /\ Len(chan[w]') = Len(chan[w]) - 1
      BY <1>1, <1>8, <2>2, ReceiveEffect, ZenonT(30)
    <3>2. i + 1 \in DOMAIN chan[w]
      BY <3>1
    <3>3. wpc[w] = "done" /\ i + 1 = Len(chan[w])
      BY <3>1, <3>2 DEF WorkerShape
    <3> QED
      BY <3>1, <3>3
  <2>6. ASSUME Head(chan[w]) /= Nil, wpc[w] = "done"
        PROVE  chan[w]' /= <<>> /\ chan[w]'[Len(chan[w]')] = Nil
    <3>1. /\ Len(chan[w]) \in Nat \ {0} /\ Len(chan[w]') = Len(chan[w]) - 1
          /\ \A i \in 1 .. Len(chan[w]) - 1 : chan[w]'[i] = chan[w][i + 1]
          /\ Head(chan[w]) = chan[w][1]
      BY <1>1, <1>8, ReceiveEffect, ZenonT(30)
    <3>2. chan[w][Len(chan[w])] = Nil
      BY <2>1, <2>6 DEF WorkerShape
    <3>3. Len(chan[w]) - 1 \in 1 .. Len(chan[w]) - 1 /\ (Len(chan[w]) - 1) + 1 = Len(chan[w])
      BY <2>6, <3>1, <3>2
    <3>4. Len(chan[w]') /= 0 /\ chan[w]'[Len(chan[w]')] = chan[w][Len(chan[w])]
      BY <3>1, <3>3
    <3>5. chan[w]' /= <<>>
      BY <3>4
    <3> QED
      BY <3>2, <3>4, <3>5
  <2>3. CASE Head(chan[w]) = Nil
    <3>1. /\ Len(chan[w]) \in Nat \ {0} /\ DOMAIN chan[w] = 1 .. Len(chan[w])
          /\ chan[w][1] = Nil /\ Len(chan[w]') = Len(chan[w]) - 1
          /\ ppc[w]' = "drain" /\ adding[w]' = adding[w]
      BY <1>1, <1>8, <2>3, ReceiveEffect
    <3>2. wpc[w] = "done" /\ 1 = Len(chan[w])
      <4>1. 1 \in DOMAIN chan[w]
        BY <3>1
      <4> QED
        BY <3>1, <4>1, Zenon DEF WorkerShape
    <3>3. chan[w]' = <<>>
      <4>1. /\ chan[w] \in Seq(Blocks \cup {Nil}) /\ chan[w] /= <<>>
            /\ chan[w]' = Tail(chan[w])
        BY <1>1, <1>8, NilBeforeClose, ReceiveEffect DEF ChanTypes
      <4>2. Tail(chan[w]) \in Seq(Blocks \cup {Nil}) /\ Len(Tail(chan[w])) = 0
        BY <3>1, <3>2, <4>1, QueueTail
      <4> QED
        BY <4>1, <4>2, EmptySeq
    <3> QED
      BY <1>2, <2>1, <2>2, <3>1, <3>2, <3>3 DEF WorkerShape, Rests
  <2>4. CASE Head(chan[w]) /= Nil
    <3>1. /\ ppc[w]' \in {"barrier", "run"}
          /\ OnlySyncAccount => adding[w]' = adding[w]
      BY <1>1, <1>8, <2>4, ReceiveEffect
    <3> QED
      BY <1>2, <2>1, <2>2, <2>4, <2>6, <3>1 DEF WorkerShape, Rests
  <2> QED
    BY <2>3, <2>4
<1>9. CASE BatchDone(w)
  BY <1>1, <1>2, <1>9
  DEF BatchDone, WorkerShape, ParserTypes, wrk, InFlight, Queued, Rests
<1>10. CASE ParserDone(w)
  BY <1>1, <1>2, <1>10
  DEF ParserDone, WorkerShape, ParserTypes, wrk, InFlight, Queued, Rests, Quiet
<1>11. ASSUME NEW b \in adding[w], AddBlock(w, b) PROVE WorkerShape(w)'
  <2>1. w \in Live
    BY DEF WorkerShape, Rests, InFlight
  <2>2. hasSyncToLatest => w = LoopWorker
    BY <2>1 DEF Live
  <2>3. ppc[w] \notin {"idle", "done"} /\ ~OnlySyncAccount
    BY DEF WorkerShape, InFlight
  <2> QED
    BY <1>1, <1>2, <1>11, <2>1, <2>2, <2>3 DEF AddBlock, WorkerShape, ParserTypes, wrk
<1>12. ASSUME NEW b \in marking[w], UpdateSyncInfo(w, b) PROVE WorkerShape(w)'
  BY <1>1, <1>2, <1>12
  DEF UpdateSyncInfo, WorkerShape, ParserTypes, wrk, InFlight, Queued, Rests
<1>13. ASSUME NEW b \in parsing[w], ParseTransactions(w, b) PROVE WorkerShape(w)'
  BY <1>1, <1>2, <1>13
  DEF ParseTransactions, WorkerShape, ParserTypes, wrk, InFlight, Queued, Rests
<1> QED
  BY <1>3, <1>4, <1>5, <1>6, <1>7, <1>8, <1>9, <1>10, <1>11, <1>12, <1>13 DEF Step, Worker, Parser

\* A step is one of the syncer goroutine, of the environment or of one worker.
LEMMA StepOrMain ==
  ASSUME [Next]_vars
  PROVE  \/ Boot \/ Dispatch \/ CheckSync \/ CheckSyncDone \/ StartLoop \/ SetSynced
         \/ NewBlock \/ Crash \/ UNCHANGED vars
         \/ \E w \in Workers : Step(w)
BY DEF Next, Syncer, Step

\* What belongs to a worker is the same when no worker does anything.
LEMMA SameVars ==
  ASSUME NEW w, UNCHANGED <<wrk, chan, par>>
  PROVE  Local(w)' = Local(w)
BY DEF Local, wrk, par

\* What dipatchWork starts when it starts workers.
LEMMA StartedRange ==
  ASSUME TypeOK, Dispatch, NEW f, f \in {FirstHeight(TRUE), FirstHeight(FALSE)}, StartSync(f)
  PROVE  /\ f \in Nat /\ LastHeight \in Nat /\ f < LastHeight
         /\ WorkerCount(f, LastHeight) \in 1 .. JobCount
         /\ phase' = "sync" /\ start' = f /\ last' = LastHeight
         /\ Live' = 1 .. WorkerCount(f, LastHeight) /\ active' = Live'
         /\ Live' \subseteq Workers /\ LoopWorker \notin Live' /\ CheckWorker \notin Live'
         /\ SyncEnd = 0 => MinWorkBlocks <= LastHeight - f
         /\ StartWorkers(Live', [w \in Live' |-> WorkerStart(f, LastHeight, w)],
                                [w \in Live' |-> WorkerEnd(f, LastHeight, w)])
<1>1. MainTypes /\ DBTypes /\ SyncStart \in Nat /\ SyncEnd \in Nat /\ setup.firstHead \in Nat
      /\ MaxHead \in Nat
  BY TypeParts, SetupFacts DEF MainTypes
<1>2. f \in Nat /\ LastHeight \in Nat
  BY <1>1, Constants DEF FirstHeight, LastHeight, MainTypes, DBTypes
<1>3. f < LastHeight /\ (SyncEnd = 0 => MinWorkBlocks <= LastHeight - f)
  BY <1>1, <1>2, Constants DEF StartSync, BlockCount
<1>4. /\ phase' = "sync" /\ start' = f /\ last' = LastHeight
      /\ active' = 1 .. WorkerCount(f, LastHeight)
      /\ StartWorkers(active', [w \in active' |-> WorkerStart(f, LastHeight, w)],
                              [w \in active' |-> WorkerEnd(f, LastHeight, w)])
  BY DEF StartSync
<1>5. Live' = 1 .. WorkerCount(start', last')
  BY <1>4 DEF Live, WorkerCount, BlockCount
<1> DEFINE l == LastHeight
           n == WorkerCount(f, l)
<1>6. l \in Nat /\ f < l
  BY <1>2, <1>3
<1> HIDE DEF l
<1>7. n \in 1 .. JobCount
  BY <1>2, <1>6, Shares
<1> HIDE DEF n
<1>8. n \in 0 .. JobCount
  BY <1>7, Constants
<1>9. 1 .. n \subseteq Workers /\ 1 .. n \subseteq 1 .. JobCount
  BY <1>7, <1>8, WorkerSet, Constants
<1>10. Live' = 1 .. n /\ active' = 1 .. n
  BY <1>4, <1>5 DEF n, l
<1>11. Live' \subseteq Workers /\ LoopWorker \notin Live' /\ CheckWorker \notin Live'
  BY <1>9, <1>10, WorkerSet
<1> QED
  BY <1>2, <1>3, <1>4, <1>7, <1>10, <1>11 DEF n, l

\* A worker that is started, and one that is not.
LEMMA StartEffect ==
  ASSUME TypeOK, setup' = setup, NEW ws \in SUBSET Workers, NEW s, NEW e, StartWorkers(ws, s, e),
         NEW w \in Workers
  PROVE  /\ w \notin ws => Local(w)' = Local(w)
         /\ w \in ws =>
              /\ wpc[w]' = "top" /\ wstart[w]' = s[w] /\ wend[w]' = e[w]
              /\ height[w]' = s[w] /\ latest[w]' = e[w] /\ ppc[w]' = "run"
         /\ UNCHANGED <<rangeEnd[w], to[w], known[w], chan[w], count[w], adding[w], marking[w],
                        parsing[w], Queued(w), InFlight(w), UnsavedNow(w), UnparsedNow(w)>>
<1>1. /\ w \notin ws => /\ wpc[w]' = wpc[w] /\ wstart[w]' = wstart[w] /\ wend[w]' = wend[w]
                        /\ height[w]' = height[w] /\ latest[w]' = latest[w]
                        /\ ppc[w]' = ppc[w]
      /\ w \in ws =>
              /\ wpc[w]' = "top" /\ wstart[w]' = s[w] /\ wend[w]' = e[w]
              /\ height[w]' = s[w] /\ latest[w]' = e[w] /\ ppc[w]' = "run"
      /\ UNCHANGED <<rangeEnd, to, known, chan, count, adding, marking, parsing>>
  BY DEF StartWorkers
<1>2. Queued(w)' = Queued(w)
  BY <1>1 DEF Queued
<1> QED
  BY <1>1, <1>2 DEF Local, InFlight, UnsavedNow, UnparsedNow, OnlySyncAccount

\* Workers that are started were at rest before.
LEMMA WorkerShapeStart ==
  ASSUME TypeOK, setup' = setup, NEW ws \in SUBSET Workers, NEW s, NEW e, StartWorkers(ws, s, e),
         NEW w \in Workers, WorkerShape(w), Rests(w), w \in Live' <=> w \in ws
  PROVE  WorkerShape(w)'
<1>1. CASE w \notin ws
  <2>1. Local(w)' = Local(w)
    BY <1>1, StartEffect
  <2>2. marking[w] = {}
    BY DEF WorkerShape, Rests
  <2>3. /\ wpc[w]' = wpc[w] /\ chan[w]' = chan[w] /\ ppc[w]' = ppc[w] /\ count[w]' = count[w]
        /\ adding[w]' = adding[w] /\ marking[w]' = marking[w] /\ InFlight(w)' = InFlight(w)
    BY <2>1, SameLocal
  <2>4. OnlySyncAccount' = OnlySyncAccount
    BY DEF OnlySyncAccount
  <2> QED
    BY <1>1, <2>2, <2>3, <2>4 DEF WorkerShape, Rests
<1>2. CASE w \in ws
  <2>1. InFlight(w) = {} /\ marking[w] = {} /\ chan[w] = <<>> /\ adding[w] = {}
    BY DEF WorkerShape, Rests, InFlight
  <2>2. /\ wpc[w]' = "top" /\ ppc[w]' = "run" /\ marking[w]' = marking[w]
        /\ chan[w]' = chan[w] /\ adding[w]' = adding[w]
    BY <1>2, StartEffect
  <2> QED
    BY <1>2, <2>1, <2>2 DEF WorkerShape
<1> QED
  BY <1>1, <1>2

\* Nothing starts a worker but the syncer.
LEMMA IdleStays ==
  ASSUME NEW w, Step(w), wpc[w] = "idle", WorkerShape(w)
  PROVE  wpc[w]' = "idle"
BY DEF Step, Worker, NextRange, EndSync, FindBlocksInRange, FetchBlock, EndRange, Parser,
       Receive, BatchDone, ParserDone, AddBlock, UpdateSyncInfo, ParseTransactions, wrk

\* Every step keeps ShapeInv.
LEMMA ShapeStep ==
  ASSUME TypeOK, ShapeInv, RangeInv, [Next]_vars
  PROVE  ShapeInv'
<1>0. setup' = setup /\ SyncStart' = SyncStart /\ SyncEnd' = SyncEnd
  BY SetupStays, Frozen
<1>1. CASE Boot
  <2>1. /\ phase = "boot" /\ phase' = "dispatch"
        /\ UNCHANGED <<hasSyncToLatest, start, last, wpc>>
        /\ \A w \in Workers : Local(w)' = Local(w)
    BY <1>1, SameVars DEF Boot, wrk
  <2>2. \A w \in Workers : WorkerShape(w)'
    BY <1>0, <2>1, WorkerShapeStays DEF ShapeInv, Live
  <2> QED
    BY <1>0, <2>1, <2>2 DEF ShapeInv
<1>2. CASE Dispatch
  <2>1. phase = "dispatch" /\ hasSyncToLatest' = hasSyncToLatest /\ Live = {}
    BY <1>2 DEF Dispatch, Live
  <2>2. PICK f \in {FirstHeight(TRUE), FirstHeight(FALSE)} :
          NothingToSync(f) \/ LeaveToLoop(f) \/ StartSync(f)
    BY <1>2 DEF Dispatch
  <2>3. CASE NothingToSync(f) \/ LeaveToLoop(f)
    <3>1. /\ phase' = "done" \/ (phase' = "loop" /\ SyncEnd = 0)
          /\ wpc' = wpc
          /\ \A w \in Workers : Local(w)' = Local(w)
      BY <2>3, SameVars DEF NothingToSync, LeaveToLoop, wrk
    <3>2. \A w \in Workers : WorkerShape(w)'
      BY <1>0, <2>1, <3>1, WorkerShapeStays DEF ShapeInv
    <3> QED
      BY <1>0, <2>1, <3>1, <3>2 DEF ShapeInv
  <2>4. CASE StartSync(f)
    <3>1. phase' = "sync" /\ Live' \subseteq Workers /\ LoopWorker \notin Live'
      BY <1>2, <2>4, StartedRange
    <3>2. PICK s, e : StartWorkers(Live', s, e)
      BY <1>2, <2>4, StartedRange
    <3>3. \A w \in Workers : Rests(w)
      BY <2>1 DEF ShapeInv, WorkerShape
    <3>4. \A w \in Workers : WorkerShape(w)'
      BY <1>0, <3>1, <3>2, <3>3, WorkerShapeStart DEF ShapeInv
    <3>5. wpc[LoopWorker]' = "idle"
      <4>1. Local(LoopWorker)' = Local(LoopWorker)
        BY <1>0, <3>1, <3>2, StartEffect, WorkerSet
      <4> QED
        BY <1>0, <2>1, <4>1, SameLocal DEF ShapeInv
    <3> QED
      BY <1>0, <2>1, <3>1, <3>4, <3>5 DEF ShapeInv
  <2> QED
    BY <2>2, <2>3, <2>4
<1>3. CASE CheckSync
  <2>1. /\ phase = "sync" /\ UNCHANGED <<hasSyncToLatest, start, last>>
        /\ Finished(active) /\ active = Live
    BY <1>3 DEF CheckSync, RangeInv, Live
  <2>2. \A w \in Workers : Rests(w)
    BY <2>1 DEF ShapeInv, WorkerShape, Finished, Rests
  <2>3. CASE OnlySyncAccount
    <3>1. /\ phase' = AfterSync /\ wpc' = wpc
          /\ \A w \in Workers : Local(w)' = Local(w)
      BY <1>3, <2>3, SameVars DEF CheckSync, wrk
    <3>2. \A w \in Workers : WorkerShape(w)'
      BY <1>0, <2>1, <2>2, <3>1, WorkerShapeStays DEF ShapeInv
    <3> QED
      BY <1>0, <2>1, <3>1, <3>2 DEF ShapeInv, AfterSync
  <2>4. CASE ~OnlySyncAccount
    <3>1. /\ phase' = "check"
          /\ StartWorkers({CheckWorker}, [w \in {CheckWorker} |-> start],
                                         [w \in {CheckWorker} |-> last])
      BY <1>3, <2>4 DEF CheckSync
    <3>2. Live' = {CheckWorker}
      BY <3>1 DEF Live
    <3>3. \A w \in Workers : WorkerShape(w)'
      BY <1>0, <2>2, <3>1, <3>2, WorkerShapeStart, WorkerSet DEF ShapeInv
    <3>4. wpc[LoopWorker]' = "idle"
      <4>1. Local(LoopWorker)' = Local(LoopWorker)
        <5>1. PICK ws \in SUBSET Workers : /\ LoopWorker \notin ws
                                           /\ \E s, e : StartWorkers(ws, s, e)
          BY <3>1, WorkerSet
        <5> QED
          BY <1>0, <5>1, StartEffect, WorkerSet
      <4> QED
        BY <1>0, <2>1, <4>1, SameLocal DEF ShapeInv
    <3> QED
      BY <1>0, <2>1, <3>1, <3>3, <3>4 DEF ShapeInv
  <2> QED
    BY <2>3, <2>4
<1>4. CASE CheckSyncDone
  <2>1. /\ phase = "check" /\ phase' = AfterSync /\ wpc' = wpc
        /\ wpc[CheckWorker] = "done" /\ ppc[CheckWorker] = "done"
        /\ UNCHANGED <<hasSyncToLatest, start, last>>
        /\ \A w \in Workers : Local(w)' = Local(w)
    BY <1>4, SameVars DEF CheckSyncDone, wrk, Finished
  <2>2. Live = {CheckWorker} /\ Live' = {} /\ Rests(CheckWorker)
    BY <2>1 DEF Live, Rests, AfterSync
  <2>3. \A w \in Workers : WorkerShape(w)'
    BY <1>0, <2>1, <2>2, WorkerShapeStays DEF ShapeInv
  <2> QED
    BY <1>0, <2>1, <2>3 DEF ShapeInv, AfterSync
<1>5. CASE StartLoop
  <2>1. /\ phase = "loop" /\ phase' = "looping" /\ UNCHANGED <<hasSyncToLatest, start, last>>
        /\ StartWorkers({LoopWorker}, [w \in {LoopWorker} |-> last], [w \in {LoopWorker} |-> 0])
    BY <1>5 DEF StartLoop, LoopFrom
  <2>2. Live = {} /\ Live' = {LoopWorker}
    BY <2>1 DEF Live
  <2>3. \A w \in Workers : Rests(w)
    BY <2>2 DEF ShapeInv, WorkerShape
  <2>4. \A w \in Workers : WorkerShape(w)'
    BY <1>0, <2>1, <2>2, <2>3, WorkerShapeStart, WorkerSet DEF ShapeInv
  <2> QED
    BY <1>0, <2>1, <2>4 DEF ShapeInv
<1>6. CASE SetSynced
  <2>1. /\ phase = "looping" /\ UNCHANGED <<phase, start, last>>
        /\ \A w \in Workers : Local(w)' = Local(w)
    BY <1>6, SameVars DEF SetSynced
  <2>2. \A w \in Workers : WorkerShape(w)'
    BY <1>0, <2>1, WorkerShapeStays DEF ShapeInv, Live
  <2> QED
    BY <1>0, <2>1, <2>2 DEF ShapeInv
<1>7. CASE NewBlock \/ UNCHANGED vars
  <2>1. /\ UNCHANGED <<hasSyncToLatest, phase, start, last, wpc>>
        /\ \A w \in Workers : Local(w)' = Local(w)
    BY <1>7, SameVars DEF NewBlock, vars, main, wrk
  <2>2. \A w \in Workers : WorkerShape(w)'
    BY <1>0, <2>1, WorkerShapeStays DEF ShapeInv, Live
  <2> QED
    BY <1>0, <2>1, <2>2 DEF ShapeInv
<1>8. CASE Crash
  <2>1. /\ phase' = "boot" /\ start' = SyncStart /\ last' = 0 /\ hasSyncToLatest' = FALSE
        /\ wpc' = Each("idle") /\ ppc' = Each("idle") /\ chan' = Each(<<>>)
        /\ count' = Each(0) /\ adding' = Each({}) /\ marking' = Each({})
        /\ parsing' = Each({})
    BY <1>8 DEF Crash, Restarted
  <2>2. \A w \in Workers : WorkerShape(w)'
    BY <2>1 DEF WorkerShape, Each, Live, Rests, InFlight, Queued
  <2> QED
    BY <1>0, <2>1, <2>2, WorkerSet DEF ShapeInv, Each
<1>9. ASSUME NEW w \in Workers, Step(w) PROVE ShapeInv'
  <2>1. UNCHANGED <<phase, start, last, hasSyncToLatest, Live>>
    BY <1>9, StepFrame DEF Live
  <2>2. \A v \in Workers : WorkerShape(v)'
    <3> TAKE v \in Workers
    <3>1. CASE v = w
      BY <1>9, <3>1, WorkerShapeStep DEF ShapeInv
    <3>2. CASE v /= w
      BY <1>0, <1>9, <2>1, <3>2, Alone, WorkerShapeStays DEF ShapeInv, Step
    <3> QED
      BY <3>1, <3>2
  <2>3. wpc[w] = "idle" => wpc[w]' = "idle"
    BY <1>9, IdleStays DEF ShapeInv
  <2>4. phase /= "looping" => wpc[LoopWorker]' = "idle"
    BY <1>9, <2>3, Alone, SameLocal, <1>0, WorkerSet DEF ShapeInv, Step
  <2> QED
    BY <1>0, <2>1, <2>2, <2>4 DEF ShapeInv
<1> QED
  BY <1>1, <1>2, <1>3, <1>4, <1>5, <1>6, <1>7, <1>8, <1>9, StepOrMain

----------------------------------------------------------------------------
\* The ranges of the workers: RangeInv

\* A worker does not change its range.
LEMMA StepKeepsRange ==
  ASSUME TypeOK, NEW w \in Workers, Step(w), NEW v \in Workers
  PROVE  /\ UNCHANGED <<wstart, wend>>
         /\ wpc[v] /= "idle" => wpc[v]' /= "idle"
<1>1. WorkerTypes
  BY TypeParts
<1> QED
  BY <1>1 DEF Step, Worker, NextRange, EndSync, FindBlocksInRange, FetchBlock, EndRange, Parser,
     Receive, BatchDone, ParserDone, AddBlock, UpdateSyncInfo, ParseTransactions, wrk, WorkerTypes

\* A step that leaves phase and ranges alone keeps RangeInv.
LEMMA SameRange ==
  ASSUME RangeInv, setup' = setup,
         UNCHANGED <<phase, start, last, active, wstart, wend>>,
         \A w \in Workers : wpc[w] /= "idle" => wpc[w]' /= "idle",
         phase = "sync" => active \subseteq Workers
  PROVE  RangeInv'
<1>1. SyncEnd' = SyncEnd
  BY Frozen
<1>2. CASE phase = "sync"
  BY <1>1, <1>2 DEF RangeInv, WorkerStart, WorkerEnd, WorkerCount, StepCount, BlockCount
<1>3. CASE phase /= "sync"
  BY <1>1, <1>3, WorkerSet DEF RangeInv
<1> QED
  BY <1>2, <1>3

\* Every step keeps RangeInv.
LEMMA RangesStep ==
  ASSUME TypeOK, ShapeInv, RangeInv, [Next]_vars
  PROVE  RangeInv'
<1>0. setup' = setup /\ SyncStart' = SyncStart /\ SyncEnd' = SyncEnd
  BY SetupStays, Frozen
<1>a. active \subseteq Workers
  BY TypeParts DEF MainTypes
<1>1. CASE Boot \/ CheckSyncDone \/ Crash
  BY <1>1 DEF Boot, CheckSyncDone, Crash, Restarted, AfterSync, RangeInv
<1>2. CASE Dispatch
  <2>2. PICK f \in {FirstHeight(TRUE), FirstHeight(FALSE)} :
          NothingToSync(f) \/ LeaveToLoop(f) \/ StartSync(f)
    BY <1>2 DEF Dispatch
  <2>3. CASE NothingToSync(f) \/ LeaveToLoop(f)
    BY <2>3 DEF NothingToSync, LeaveToLoop, RangeInv
  <2>4. CASE StartSync(f)
    <3> DEFINE l == LastHeight
               ws == Live'
    <3>1. /\ phase' = "sync" /\ start' = f /\ last' = l /\ f < l
          /\ ws = 1 .. WorkerCount(f, l) /\ active' = ws
          /\ SyncEnd = 0 => MinWorkBlocks <= l - f
          /\ ws \subseteq Workers
          /\ StartWorkers(ws, [w \in ws |-> WorkerStart(f, l, w)],
                              [w \in ws |-> WorkerEnd(f, l, w)])
      BY <1>2, <2>4, StartedRange
    <3> HIDE DEF l, ws
    <3>2. \A w \in ws : /\ wstart'[w] = WorkerStart(f, l, w)
                        /\ wend'[w] = WorkerEnd(f, l, w)
                        /\ wpc'[w] = "top"
      BY <3>1 DEF StartWorkers
    <3> QED
      BY <1>0, <3>1, <3>2
      DEF RangeInv, WorkerStart, WorkerEnd, WorkerCount, StepCount, BlockCount
  <2> QED
    BY <2>2, <2>3, <2>4
<1>3. CASE CheckSync
  <2>1. CASE OnlySyncAccount
    BY <1>3, <2>1 DEF CheckSync, AfterSync, RangeInv
  <2>2. CASE ~OnlySyncAccount
    <3>1. /\ phase = "sync" /\ phase' = "check" /\ UNCHANGED <<start, last>>
          /\ wstart'[CheckWorker] = start /\ wend'[CheckWorker] = last
          /\ wpc'[CheckWorker] = "top"
      BY <1>3, <2>2, WorkerSet DEF CheckSync, StartWorkers
    <3> QED
      BY <3>1 DEF RangeInv
  <2> QED
    BY <2>1, <2>2
<1>5. CASE StartLoop
  <2>1. /\ phase' = "looping" /\ UNCHANGED <<start, last>>
        /\ wstart'[LoopWorker] = last /\ wend'[LoopWorker] = 0
        /\ wpc'[LoopWorker] = "top"
    BY <1>5, WorkerSet DEF StartLoop, StartWorkers, LoopFrom
  <2> QED
    BY <2>1 DEF RangeInv
<1>6. CASE SetSynced \/ NewBlock \/ UNCHANGED vars
  <2>1. UNCHANGED <<phase, start, last, active, wstart, wend, wpc>>
    BY <1>6 DEF SetSynced, NewBlock, vars, main, wrk
  <2> QED
    BY <1>0, <1>a, <2>1, SameRange
<1>9. ASSUME NEW w \in Workers, Step(w) PROVE RangeInv'
  <2>1. UNCHANGED <<phase, start, last, active>>
    BY <1>9, StepFrame
  <2> QED
    BY <1>0, <1>9, <1>a, <2>1, SameRange, StepKeepsRange
<1> QED
  BY <1>1, <1>2, <1>3, <1>5, <1>6, <1>9, StepOrMain

----------------------------------------------------------------------------
\* Every height has exactly one worker

\* Every height of the range lies in the share of exactly one worker.
LEMMA OneShare ==
  ASSUME NEW n \in Nat, n > 0, NEW t \in Nat, t > 0, NEW d \in Nat
  PROVE  \E i \in 1 .. n : \A w \in 1 .. n :
           ((w - 1) * t <= d /\ (w = n \/ d < w * t)) <=> w = i
<1> DEFINE q == d \div t
           i == IF q + 1 > n THEN n ELSE q + 1
<1>1. q \in Nat /\ q * t \in Nat /\ q * t <= d /\ d < q * t + t
  <2>1. q \in Nat /\ t * q <= d /\ d < t * q + t
    BY DivFacts
  <2>2. t * q = q * t
    BY <2>1, Z3
  <2> QED
    BY <2>1, <2>2, Product
<1> HIDE DEF q
<1>2. i \in 1 .. n /\ i - 1 \in Nat /\ i - 1 <= q /\ (i < n => i = q + 1)
  BY <1>1
<1> HIDE DEF i
<1>3. (i - 1) * t <= d
  <2>1. (i - 1) * t <= q * t /\ (i - 1) * t \in Nat
    BY <1>1, <1>2, ProductMono, Product
  <2> QED
    BY <1>1, <2>1
<1>4. i < n => d < i * t
  <2>1. (q + 1) * t = q * t + t
    BY <1>1, Z3
  <2> QED
    BY <1>1, <1>2, <2>1
<1>5. ASSUME NEW w \in 1 .. n, w < i PROVE w /= n /\ ~(d < w * t)
  <2>1. w \in Nat /\ w <= i - 1 /\ w /= n
    BY <1>2, <1>5
  <2>2. w * t <= (i - 1) * t /\ w * t \in Nat /\ (i - 1) * t \in Nat
    BY <1>2, <2>1, ProductMono, Product
  <2> QED
    BY <1>3, <2>1, <2>2
<1>6. ASSUME NEW w \in 1 .. n, w > i PROVE ~((w - 1) * t <= d)
  <2>1. w - 1 \in Nat /\ i \in Nat /\ i <= w - 1 /\ i < n
    BY <1>2, <1>6
  <2>2. i * t <= (w - 1) * t /\ i * t \in Nat /\ (w - 1) * t \in Nat
    BY <2>1, ProductMono, Product
  <2> QED
    BY <1>4, <2>1, <2>2
<1>7. \A w \in 1 .. n : ((w - 1) * t <= d /\ (w = n \/ d < w * t)) <=> w = i
  <2> TAKE w \in 1 .. n
  <2>1. CASE w < i
    BY <1>5, <2>1
  <2>2. CASE w > i
    BY <1>6, <2>2
  <2>3. CASE w = i
    BY <1>2, <1>3, <1>4, <2>3
  <2> QED
    BY <1>2, <2>1, <2>2, <2>3
<1> QED
  BY <1>2, <1>7

\* dipatchWork gives every height of the range to exactly one worker.
LEMMA PartitionExact ==
  ASSUME TypeOK, RangeInv
  PROVE  ExactPartition
<1> SUFFICES ASSUME phase = "sync", NEW b \in start .. (last - 1)
             PROVE  Cardinality({w \in active : wstart[w] <= b /\ b < wend[w]}) = 1
  BY DEF ExactPartition
<1>1. /\ start \in Nat /\ last \in Nat /\ start < last
      /\ active = 1 .. WorkerCount(start, last)
      /\ \A w \in active : wstart[w] = WorkerStart(start, last, w)
      /\ \A w \in active : wend[w] = WorkerEnd(start, last, w)
  BY TypeParts DEF MainTypes, RangeInv
<1> DEFINE n == WorkerCount(start, last)
           t == StepCount(start, last)
           d == b - start
<1>2. n \in 1 .. JobCount /\ t \in Nat /\ t > 0 /\ d \in Nat /\ b \in Nat
  BY <1>1, Shares
<1>3. n \in Nat /\ n > 0
  BY <1>2, Constants
<1>4. \A w \in 1 .. n : /\ wstart[w] = start + (w - 1) * t
                        /\ wend[w] = IF w = n THEN last ELSE start + w * t
  BY <1>1 DEF WorkerStart, WorkerEnd
<1> HIDE DEF n, t
<1>5. \A w \in 1 .. n : (w - 1) * t \in Nat /\ w * t \in Nat
  BY <1>2, <1>3, Product, \A w \in 1 .. n : w \in Nat /\ w - 1 \in Nat
<1>6. \A w \in 1 .. n : (wstart[w] <= b /\ b < wend[w])
                           <=> ((w - 1) * t <= d /\ (w = n \/ d < w * t))
  <2> TAKE w \in 1 .. n
  <2>1. wstart[w] <= b <=> (w - 1) * t <= d
    BY <1>1, <1>2, <1>4, <1>5
  <2>2. b < wend[w] <=> (w = n \/ d < w * t)
    BY <1>1, <1>2, <1>4, <1>5
  <2> QED
    BY <2>1, <2>2
<1> HIDE DEF d
<1>7. PICK i \in 1 .. n : \A w \in 1 .. n :
        ((w - 1) * t <= d /\ (w = n \/ d < w * t)) <=> w = i
  BY <1>2, <1>3, OneShare
<1>8. {w \in active : wstart[w] <= b /\ b < wend[w]} = {i}
  BY <1>1, <1>6, <1>7 DEF n
<1> QED
  BY <1>8, FS_Singleton

----------------------------------------------------------------------------
\* How far a worker has got: ScanInv

\* Nothing is taken out of the database or of the records of losses.
LEMMA Grows ==
  ASSUME TypeOK, [Next]_vars
  PROVE  /\ stored \subseteq stored' /\ unsaved \subseteq unsaved' /\ unparsed \subseteq unparsed'
         /\ head \in Nat /\ head' \in Nat /\ head <= head' /\ (NewBlock \/ head' = head)
         /\ Blocks' = Blocks
         /\ \A b \in Blocks : parsed[b] \in Nat /\ parsed'[b] \in Nat /\ parsed[b] <= parsed'[b]
<1>1. stored \subseteq stored' /\ unsaved \subseteq unsaved' /\ unparsed \subseteq unparsed'
  BY DEF Next, vars, Syncer, Boot, Dispatch, CheckSync, CheckSyncDone, StartLoop, SetSynced,
       Worker, NextRange, EndSync, FindBlocksInRange, FetchBlock, EndRange,
       Parser, Receive, BatchDone, ParserDone, AddBlock, UpdateSyncInfo, ParseTransactions,
       NewBlock, Crash, db, history
<1>2. Blocks' = Blocks /\ MainTypes /\ MaxHead \in Nat /\ setup.firstHead \in Nat
  BY SetupStays, Frozen, TypeParts, SetupFacts DEF MainTypes
<1>3. head \in Nat /\ head' \in Nat /\ head <= head' /\ (NewBlock \/ head' = head)
  BY <1>2, HeadStep DEF MainTypes
<1>4. parsed' = parsed \/ \E w \in Workers : \E b \in parsing[w] : ParseTransactions(w, b)
  BY DEF Next, vars, Syncer, Boot, Dispatch, CheckSync, CheckSyncDone, StartLoop, SetSynced,
       Worker, NextRange, EndSync, FindBlocksInRange, FetchBlock, EndRange,
       Parser, Receive, BatchDone, ParserDone, AddBlock, UpdateSyncInfo,
       NewBlock, Crash, db
<1>5. parsed \in [Blocks -> Nat]
  BY TypeParts DEF DBTypes
<1>6. \A b \in Blocks : parsed[b] \in Nat /\ parsed'[b] \in Nat /\ parsed[b] <= parsed'[b]
  <2>1. CASE parsed' = parsed
    BY <1>5, <2>1
  <2>2. ASSUME NEW w \in Workers, NEW b \in parsing[w], ParseTransactions(w, b)
        PROVE  \A c \in Blocks : parsed[c] \in Nat /\ parsed'[c] \in Nat /\ parsed[c] <= parsed'[c]
    BY <1>5, <2>2 DEF ParseTransactions
  <2> QED
    BY <1>4, <2>1, <2>2
<1> QED
  BY <1>1, <1>2, <1>3, <1>6

\* The progress of a worker that does nothing.
LEMMA WorkerScanStays ==
  ASSUME NEW w, setup' = setup, Local(w)' = Local(w), WorkerScan(w), stored \subseteq stored'
  PROVE  WorkerScan(w)'
<1>1. /\ wpc[w]' = wpc[w] /\ wstart[w]' = wstart[w] /\ wend[w]' = wend[w]
      /\ height[w]' = height[w] /\ rangeEnd[w]' = rangeEnd[w] /\ to[w]' = to[w]
      /\ known[w]' = known[w] /\ marking[w]' = marking[w] /\ InFlight(w)' = InFlight(w)
  BY SameLocal
<1> QED
  BY <1>1, Zenon DEF WorkerScan

\* The progress of the workers when some are started.
LEMMA WorkerScanStart ==
  ASSUME TypeOK, setup' = setup, stored \subseteq stored',
         NEW ws \in SUBSET Workers, NEW s, NEW e, StartWorkers(ws, s, e),
         NEW w \in Workers, WorkerScan(w), WorkerShape(w), w \in ws => Rests(w),
         w \in ws => s[w] \in Nat /\ e[w] \in Nat /\ (e[w] > 0 => s[w] <= e[w])
  PROVE  WorkerScan(w)'
<1>1. CASE w \notin ws
  BY <1>1, StartEffect, WorkerScanStays
<1>2. CASE w \in ws
  <2>1. InFlight(w) = {} /\ marking[w] = {}
    BY <1>2 DEF WorkerShape, Rests
  <2>2. /\ wpc[w]' = "top" /\ wstart[w]' = s[w] /\ wend[w]' = e[w] /\ height[w]' = s[w]
        /\ InFlight(w)' = InFlight(w) /\ marking[w]' = marking[w]
    BY <1>2, StartEffect
  <2> QED
    BY <1>2, <2>1, <2>2 DEF WorkerScan
<1> QED
  BY <1>1, <1>2

\* What is in flight in worker w, after a step of its own
LEMMA FlightStep ==
  ASSUME TypeOK, setup' = setup, NEW w \in Workers, Step(w), WorkerShape(w)
  PROVE  /\ InFlight(w)' \cup marking[w]' \subseteq
              InFlight(w) \cup marking[w] \cup {height[w]}
         /\ ~FetchBlock(w) => InFlight(w)' \cup marking[w]' \subseteq InFlight(w) \cup marking[w]
<1>1. WorkerTypes /\ ChanTypes /\ ParserTypes
  BY TypeParts
<1>2. CASE NextRange(w) \/ FindBlocksInRange(w) \/ EndRange(w)
  BY <1>2 DEF NextRange, FindBlocksInRange, EndRange, par, InFlight, Queued
<1>3. CASE EndSync(w)
  <2>1. chan' = [chan EXCEPT ![w] = Append(@, Nil)]
    BY <1>3 DEF EndSync
  <2>2. Queued(w)' = Queued(w) \cup ({Nil} \ {Nil})
    BY <1>1, <2>1, SendEffect
  <2>3. UNCHANGED <<adding, marking, parsing>>
    BY <1>3 DEF EndSync, par
  <2> QED
    BY <2>2, <2>3 DEF InFlight
<1>4. CASE FetchBlock(w)
  <2>1. UNCHANGED <<adding, marking, parsing>>
    BY <1>4 DEF FetchBlock, par
  <2>2. Queued(w)' \subseteq Queued(w) \cup {height[w]}
    <3>1. CASE MustFetch(w)
      <4>1. height[w] \in Blocks /\ chan' = [chan EXCEPT ![w] = Append(@, height[w])]
        BY <1>4, <3>1, Fetched DEF FetchBlock
      <4> QED
        BY <1>1, <4>1, SendEffect
    <3>2. CASE ~MustFetch(w)
      BY <1>4, <3>2 DEF FetchBlock, Queued
    <3> QED
      BY <3>1, <3>2
  <2> QED
    BY <1>4, <2>1, <2>2 DEF InFlight
<1>5. CASE Receive(w)
  <2>1. marking' = marking
    BY <1>5 DEF Receive
  <2>2. InFlight(w)' \subseteq InFlight(w)
    <3>1. Queued(w) = Queued(w)' \cup ({Head(chan[w])} \ {Nil})
      BY <1>1, <1>5, ReceiveEffect
    <3>2. \/ adding[w]' = adding[w] /\ parsing[w]' = parsing[w]
          \/ /\ Head(chan[w]) /= Nil
             /\ adding[w]' \subseteq adding[w] \cup {Head(chan[w])}
             /\ parsing[w]' = parsing[w] \cup {Head(chan[w])}
      BY <1>1, <1>5, ReceiveEffect
    <3> QED
      BY <3>1, <3>2 DEF InFlight
  <2> QED
    BY <2>1, <2>2
<1>6. CASE BatchDone(w) \/ ParserDone(w)
  BY <1>6 DEF BatchDone, ParserDone, InFlight, Queued
<1>7. ASSUME NEW b \in adding[w], AddBlock(w, b)
      PROVE  InFlight(w)' \cup marking[w]' \subseteq InFlight(w) \cup marking[w]
  BY <1>1, <1>7 DEF AddBlock, InFlight, Queued, ParserTypes
<1>8. ASSUME NEW b \in marking[w], UpdateSyncInfo(w, b)
      PROVE  InFlight(w)' \cup marking[w]' \subseteq InFlight(w) \cup marking[w]
  BY <1>1, <1>8 DEF UpdateSyncInfo, InFlight, Queued, ParserTypes
<1>9. ASSUME NEW b \in parsing[w], ParseTransactions(w, b)
      PROVE  InFlight(w)' \cup marking[w]' \subseteq InFlight(w) \cup marking[w]
  BY <1>1, <1>9 DEF ParseTransactions, InFlight, Queued, ParserTypes
<1> QED
  BY <1>2, <1>3, <1>4, <1>5, <1>6, <1>7, <1>8, <1>9 DEF Step, Worker, Parser

\* One query of the database, in the three ways it can go
LEMMA QueryEffect ==
  ASSUME TypeOK, NEW w \in Workers, FindBlocksInRange(w)
  PROVE  \E upto \in Int :
           /\ wpc[w] = "range"
           /\ upto <= rangeEnd[w]
           /\ UNCHANGED <<wstart, wend, latest, rangeEnd, stored>>
           /\ \/ /\ wpc'[w] = "top" /\ UNCHANGED <<height, to, known>>
              \/ /\ height[w] <= upto /\ ~Overwrite
                 /\ height'[w] = upto + 1 /\ UNCHANGED <<wpc, to, known>>
                 /\ height[w] .. upto \subseteq stored
              \/ /\ height[w] <= upto /\ wpc'[w] = "fetch" /\ to'[w] = upto
                 /\ known'[w] = stored \cap (height[w] .. upto) /\ UNCHANGED height
<1> DEFINE upto == Least(height[w] + RangeStep - 1, rangeEnd[w])
           found == stored \cap (height[w] .. upto)
<1>1. height[w] \in Nat /\ rangeEnd[w] \in Int /\ WorkerTypes
  BY TypeParts DEF WorkerTypes
<1>2. upto \in Int /\ upto <= rangeEnd[w] /\ (height[w] <= rangeEnd[w] => height[w] <= upto)
  BY <1>1, Constants DEF Least
<1>3. /\ wpc[w] = "range"
      /\ UNCHANGED <<wstart, wend, latest, rangeEnd, stored>>
      /\ \/ /\ wpc'[w] = "top" /\ UNCHANGED <<height, to, known>>
         \/ /\ height[w] <= rangeEnd[w] /\ ~Overwrite
            /\ Cardinality(found) = upto - height[w] + 1
            /\ height'[w] = upto + 1 /\ UNCHANGED <<wpc, to, known>>
         \/ /\ height[w] <= rangeEnd[w] /\ wpc'[w] = "fetch" /\ to'[w] = upto
            /\ known'[w] = found /\ UNCHANGED height
  BY <1>1 DEF FindBlocksInRange, WorkerTypes, db
<1>4. ASSUME height[w] <= upto, Cardinality(found) = upto - height[w] + 1
      PROVE  height[w] .. upto \subseteq stored
  <2>1. /\ IsFiniteSet(height[w] .. upto)
        /\ Cardinality(height[w] .. upto) = upto - height[w] + 1
    BY <1>1, <1>2, <1>4, FS_Interval
  <2>2. found \subseteq height[w] .. upto
    OBVIOUS
  <2>3. found = height[w] .. upto
    BY <1>4, <2>1, <2>2, FS_Subset
  <2> QED
    BY <2>3
<1> HIDE DEF upto
<1> QED
  BY <1>2, <1>3, <1>4

\* A worker's own steps keep its progress within its range.
LEMMA WorkerScanStep ==
  ASSUME TypeOK, setup' = setup, stored \subseteq stored', NEW w \in Workers, Step(w),
         WorkerScan(w), WorkerShape(w)
  PROVE  WorkerScan(w)'
<1>1. WorkerTypes /\ ParserTypes
  BY TypeParts
<1>2. wstart' = wstart /\ wend' = wend
  BY StepKeepsRange
<1>3. wstart[w] \in Nat /\ wend[w] \in Nat /\ height[w] \in Nat /\ rangeEnd[w] \in Int
      /\ to[w] \in Int /\ latest[w] \in Nat
  BY <1>1 DEF WorkerTypes
<1>4. CASE NextRange(w)
  <2>1. /\ wpc[w] = "top" /\ wpc'[w] = "range" /\ height' = height
        /\ ~(wend[w] > 0 /\ height[w] >= wend[w])
        /\ height[w] + Stable <= Newest(w)
        /\ rangeEnd'[w] = IF wend[w] > 0 /\ Newest(w) - Stable >= wend[w] THEN wend[w] - 1
                                                           ELSE Newest(w) - Stable
    BY <1>1, <1>4 DEF NextRange, RangeOver, WorkerTypes, Deepest
  <2>2. Newest(w) \in Int
    BY <1>3, Grows, TypeParts, SetupFacts DEF Newest, MainTypes
  <2>3. InFlight(w)' \cup marking[w]' \subseteq InFlight(w) \cup marking[w]
    BY <1>4, FlightStep DEF Step, NextRange, FetchBlock
  <2>4. height[w] <= rangeEnd'[w] + 1 /\ (wend[w] > 0 => rangeEnd'[w] < wend[w])
    BY <1>3, <2>1, <2>2, Constants
  <2> QED
    BY <1>2, <2>1, <2>3, <2>4 DEF WorkerScan
<1>5. CASE EndSync(w)
  <2>1. /\ wpc[w] = "top" /\ wpc'[w] = "done" /\ height' = height
        /\ wend[w] > 0 /\ height[w] >= wend[w]
    BY <1>1, <1>5 DEF EndSync, RangeOver, WorkerTypes
  <2>2. InFlight(w)' \cup marking[w]' \subseteq InFlight(w) \cup marking[w]
    BY <1>5, FlightStep DEF EndSync, FetchBlock
  <2>3. height[w] = wend[w]
    BY <1>3, <2>1 DEF WorkerScan
  <2> QED
    BY <1>2, <2>1, <2>2, <2>3 DEF WorkerScan
<1>6. CASE FindBlocksInRange(w)
  <2>1. PICK upto \in Int :
           /\ wpc[w] = "range"
           /\ upto <= rangeEnd[w]
           /\ UNCHANGED <<wstart, wend, latest, rangeEnd, stored>>
           /\ \/ /\ wpc'[w] = "top" /\ UNCHANGED <<height, to, known>>
              \/ /\ height[w] <= upto /\ ~Overwrite
                 /\ height'[w] = upto + 1 /\ UNCHANGED <<wpc, to, known>>
                 /\ height[w] .. upto \subseteq stored
              \/ /\ height[w] <= upto /\ wpc'[w] = "fetch" /\ to'[w] = upto
                 /\ known'[w] = stored \cap (height[w] .. upto) /\ UNCHANGED height
    BY <1>6, QueryEffect
  <2>2. InFlight(w)' \cup marking[w]' \subseteq InFlight(w) \cup marking[w]
    BY <1>6, FlightStep DEF FindBlocksInRange, FetchBlock
  <2>3. height[w] <= height'[w]
    BY <1>3, <2>1
  <2>4. height'[w] \in Int /\ InFlight(w) \cup marking[w] \subseteq wstart[w] .. (height[w] - 1)
    BY <1>3, <2>1 DEF WorkerScan
  <2>5. InFlight(w)' \cup marking[w]' \subseteq wstart[w] .. (height'[w] - 1)
    BY <1>3, <2>2, <2>3, <2>4
  <2>6. /\ wstart[w] <= height[w] /\ (wend[w] > 0 => height[w] <= wend[w])
        /\ height[w] <= rangeEnd[w] + 1 /\ (wend[w] > 0 => rangeEnd[w] < wend[w])
    BY <2>1 DEF WorkerScan
  <2>7. CASE wpc'[w] = "top" /\ UNCHANGED <<height, to, known>>
    BY <1>2, <2>5, <2>6, <2>7 DEF WorkerScan
  <2>8. CASE /\ height[w] <= upto /\ height'[w] = upto + 1 /\ UNCHANGED <<wpc, to, known>>
    <3>1. /\ wpc'[w] = "range" /\ rangeEnd'[w] = rangeEnd[w] /\ height'[w] = upto + 1
          /\ upto <= rangeEnd[w] /\ height[w] <= upto
      BY <2>1, <2>8
    <3>2. /\ wstart[w] <= upto + 1 /\ (wend[w] > 0 => upto + 1 <= wend[w])
          /\ upto + 1 <= rangeEnd[w] + 1
      BY <1>3, <2>6, <3>1
    <3> QED
      BY <1>2, <2>5, <2>6, <3>1, <3>2 DEF WorkerScan
  <2>9. CASE /\ height[w] <= upto /\ wpc'[w] = "fetch" /\ to'[w] = upto
             /\ known'[w] = stored \cap (height[w] .. upto) /\ UNCHANGED height
    BY <1>2, <1>3, <2>1, <2>5, <2>6, <2>9 DEF WorkerScan
  <2> QED
    BY <2>1, <2>7, <2>8, <2>9
<1>7. CASE FetchBlock(w)
  <2>1. /\ wpc[w] = "fetch" /\ height[w] <= to[w] /\ height'[w] = height[w] + 1
        /\ UNCHANGED <<wpc, rangeEnd, to, known>>
    BY <1>1, <1>7 DEF FetchBlock, WorkerTypes
  <2>2. InFlight(w)' \cup marking[w]' \subseteq InFlight(w) \cup marking[w] \cup {height[w]}
    BY <1>7, FlightStep
  <2>3. /\ wstart[w] <= height[w] /\ (wend[w] > 0 => rangeEnd[w] < wend[w])
        /\ to[w] <= rangeEnd[w] /\ known[w] \subseteq stored
        /\ InFlight(w) \cup marking[w] \subseteq wstart[w] .. (height[w] - 1)
    BY <2>1 DEF WorkerScan
  <2>4. InFlight(w)' \cup marking[w]' \subseteq wstart[w] .. (height'[w] - 1)
    BY <1>3, <2>1, <2>2, <2>3
  <2> QED
    BY <1>2, <1>3, <2>1, <2>3, <2>4 DEF WorkerScan
<1>8. CASE EndRange(w)
  <2>1. /\ wpc[w] = "fetch" /\ wpc'[w] = "range" /\ UNCHANGED <<height, rangeEnd>>
    BY <1>1, <1>8 DEF EndRange, WorkerTypes
  <2>2. InFlight(w)' \cup marking[w]' \subseteq InFlight(w) \cup marking[w]
    BY <1>3, <1>8, FlightStep DEF EndRange, FetchBlock
  <2> QED
    BY <1>2, <1>3, <2>1, <2>2 DEF WorkerScan
<1>9. CASE ~Worker(w)
  <2>1. UNCHANGED <<wpc, height, rangeEnd, to, known>>
    BY <1>9 DEF Step, Parser, Receive, BatchDone, ParserDone, AddBlock, UpdateSyncInfo,
       ParseTransactions, wrk
  <2>2. InFlight(w)' \cup marking[w]' \subseteq InFlight(w) \cup marking[w]
    BY <1>9, FlightStep DEF Worker
  <2> QED
    BY <1>2, <2>1, <2>2 DEF WorkerScan
<1> QED
  BY <1>4, <1>5, <1>6, <1>7, <1>8, <1>9 DEF Worker

\* Every step keeps ScanInv.
LEMMA ScanStep ==
  ASSUME TypeOK, ShapeInv, RangeInv, ScanInv, [Next]_vars
  PROVE  ScanInv'
<1>0. setup' = setup /\ stored \subseteq stored'
  BY SetupStays, Grows
<1>a. start \in Nat /\ last \in Nat
  BY TypeParts DEF MainTypes
<1>1. CASE Boot \/ CheckSyncDone \/ SetSynced \/ NewBlock \/ UNCHANGED vars
  <2>1. UNCHANGED <<wrk, chan, par>>
    BY <1>1 DEF Boot, CheckSyncDone, SetSynced, NewBlock, vars
  <2> QED
    BY <1>0, <2>1, SameVars, WorkerScanStays DEF ScanInv
<1>2. CASE Dispatch
  <2>2. PICK f \in {FirstHeight(TRUE), FirstHeight(FALSE)} :
          NothingToSync(f) \/ LeaveToLoop(f) \/ StartSync(f)
    BY <1>2 DEF Dispatch
  <2>3. CASE NothingToSync(f) \/ LeaveToLoop(f)
    <3>1. UNCHANGED <<wrk, chan, par>>
      BY <2>3 DEF NothingToSync, LeaveToLoop
    <3> QED
      BY <1>0, <3>1, SameVars, WorkerScanStays DEF ScanInv
  <2>4. CASE StartSync(f)
    <3> DEFINE l == LastHeight
               ws == Live'
               s == [w \in ws |-> WorkerStart(f, l, w)]
               e == [w \in ws |-> WorkerEnd(f, l, w)]
    <3>1. /\ f \in Nat /\ l \in Nat /\ f < l
          /\ ws = 1 .. WorkerCount(f, l)
          /\ ws \subseteq Workers
          /\ StartWorkers(ws, s, e)
      BY <1>2, <2>4, StartedRange
    <3>2. \A w \in Workers : Rests(w)
      BY <1>2 DEF ShapeInv, WorkerShape, Dispatch, Live
    <3> HIDE DEF l, ws
    <3>3. ASSUME NEW w \in ws
          PROVE  s[w] \in Nat /\ e[w] \in Nat /\ s[w] <= e[w]
      <4>1. w \in 1 .. WorkerCount(f, l) /\ StepCount(f, l) \in Nat
        BY <3>1, Shares
      <4>2. /\ WorkerStart(f, l, w) \in Nat /\ WorkerEnd(f, l, w) \in Nat
            /\ WorkerStart(f, l, w) + StepCount(f, l) <= WorkerEnd(f, l, w)
        BY <3>1, <4>1, Ranges
      <4> QED
        BY <4>1, <4>2
    <3> HIDE DEF s, e
    <3> QED
      BY <1>0, <3>1, <3>2, <3>3, WorkerScanStart DEF ScanInv, ShapeInv
  <2> QED
    BY <2>2, <2>3, <2>4
<1>3. CASE CheckSync
  <2>1. CASE OnlySyncAccount
    <3>1. UNCHANGED <<wrk, chan, par>>
      BY <1>3, <2>1 DEF CheckSync
    <3> QED
      BY <1>0, <3>1, SameVars, WorkerScanStays DEF ScanInv
  <2>2. CASE ~OnlySyncAccount
    <3> DEFINE ws == {CheckWorker}
               s == [w \in ws |-> start]
               e == [w \in ws |-> last]
    <3>1. /\ phase = "sync" /\ StartWorkers(ws, s, e)
      BY <1>3, <2>2 DEF CheckSync
    <3>2. start < last /\ Rests(CheckWorker)
      <4>1. start < last
        BY <3>1 DEF RangeInv
      <4>2. WorkerCount(start, last) \in 1 .. JobCount
        BY <1>a, <4>1, Shares
      <4>3. CheckWorker \notin Live
        BY <3>1, <4>2, WorkerSet, Constants DEF Live
      <4> QED
        BY <4>1, <4>3, WorkerSet DEF ShapeInv, WorkerShape
    <3>3. \A w \in ws : w = CheckWorker /\ w \in Workers /\ s[w] = start /\ e[w] = last
      BY WorkerSet
    <3> HIDE DEF ws, s, e
    <3> QED
      BY <1>0, <1>a, <3>1, <3>2, <3>3, WorkerScanStart DEF ScanInv, ShapeInv
  <2> QED
    BY <2>1, <2>2
<1>4. CASE StartLoop
  <2> DEFINE ws == {LoopWorker}
             s == [w \in ws |-> last]
             e == [w \in ws |-> 0]
  <2>1. StartWorkers(ws, s, e) /\ Rests(LoopWorker)
    BY <1>4, WorkerSet DEF StartLoop, LoopFrom, ShapeInv, WorkerShape, Live
  <2>2. \A w \in ws : w = LoopWorker /\ w \in Workers /\ s[w] = last /\ e[w] = 0
    BY WorkerSet
  <2> HIDE DEF ws, s, e
  <2> QED
    BY <1>0, <1>a, <2>1, <2>2, WorkerScanStart DEF ScanInv, ShapeInv
<1>5. CASE Crash
  BY <1>5 DEF Crash, Restarted, Each, ScanInv, WorkerScan, InFlight, Queued
<1>9. ASSUME NEW w \in Workers, Step(w) PROVE ScanInv'
  <2> SUFFICES ASSUME NEW v \in Workers PROVE WorkerScan(v)'
    BY DEF ScanInv
  <2>1. CASE v = w
    BY <1>0, <1>9, <2>1, WorkerScanStep DEF ScanInv, ShapeInv
  <2>2. CASE v /= w
    BY <1>0, <1>9, <2>2, Alone, WorkerScanStays DEF ScanInv, Step
  <2> QED
    BY <2>1, <2>2
<1> QED
  BY <1>1, <1>2, <1>3, <1>4, <1>5, <1>9, StepOrMain

----------------------------------------------------------------------------
\* The distance to the head: DepthInv

\* The distance to the head does not shrink while a worker does nothing.
LEMMA WorkerDepthStays ==
  ASSUME NEW w \in Workers, TypeOK, TypeOK', setup' = setup, Local(w)' = Local(w), WorkerDepth(w),
         head <= head'
  PROVE  WorkerDepth(w)'
<1>1. /\ wpc[w]' = wpc[w] /\ latest[w]' = latest[w] /\ rangeEnd[w]' = rangeEnd[w]
      /\ marking[w]' = marking[w] /\ InFlight(w)' = InFlight(w)
  BY SameLocal
<1>2. /\ latest[w] \in Nat /\ rangeEnd[w] \in Int /\ head \in Nat /\ head' \in Nat
  BY HeadTypes, TypeParts DEF WorkerTypes
<1>3. \A b \in InFlight(w) \cup marking[w] : b \in Nat
  BY FlightTypes
<1>4. latest[w]' <= head' /\ (wpc[w]' \in {"range", "fetch"} => rangeEnd[w]' + Stable <= head')
  BY <1>1, <1>2, Constants DEF WorkerDepth
<1>5. \A b \in InFlight(w) \cup marking[w] : b + Stable <= head'
  BY <1>2, <1>3, Constants DEF WorkerDepth
<1> QED
  BY <1>1, <1>4, <1>5 DEF WorkerDepth

\* A worker that is started takes the end of its range for a header it has seen.
LEMMA WorkerDepthStart ==
  ASSUME TypeOK, setup' = setup, head' = head, TypeOK',
         NEW ws \in SUBSET Workers, NEW s, NEW e, StartWorkers(ws, s, e),
         NEW w \in Workers, WorkerDepth(w), WorkerShape(w), w \in ws => Rests(w),
         w \in ws => e[w] <= head
  PROVE  WorkerDepth(w)'
<1>0. head \in Nat
  BY HeadTypes
<1>1. CASE w \notin ws
  BY <1>0, <1>1, StartEffect, WorkerDepthStays
<1>2. CASE w \in ws
  <2>1. InFlight(w) = {} /\ marking[w] = {}
    BY <1>2 DEF WorkerShape, Rests
  <2>2. /\ wpc[w]' = "top" /\ latest[w]' = e[w]
        /\ InFlight(w)' = InFlight(w) /\ marking[w]' = marking[w]
    BY <1>2, StartEffect
  <2> QED
    BY <1>2, <2>1, <2>2 DEF WorkerDepth
<1> QED
  BY <1>1, <1>2

\* A worker's own steps fetch only blocks that lie deep enough.
LEMMA WorkerDepthStep ==
  ASSUME TypeOK, setup' = setup, NEW w \in Workers, Step(w), WorkerDepth(w), WorkerScan(w),
         WorkerShape(w)
  PROVE  WorkerDepth(w)'
<1>1. WorkerTypes /\ ParserTypes /\ head \in Nat /\ head' = head
  BY TypeParts, HeadTypes, StepFrame
<1>3. wend[w] \in Nat /\ height[w] \in Nat /\ rangeEnd[w] \in Int
      /\ to[w] \in Int /\ latest[w] \in Nat
  BY <1>1 DEF WorkerTypes
<1>4. CASE NextRange(w)
  <2>1. /\ latest'[w] = Newest(w)
        /\ rangeEnd'[w] = IF wend[w] > 0 /\ Newest(w) - Stable >= wend[w] THEN wend[w] - 1
                                                           ELSE Newest(w) - Stable
    BY <1>1, <1>4 DEF NextRange, WorkerTypes, Deepest
  <2>2. Newest(w) \in Int /\ Newest(w) <= head
    BY <1>1, <1>3 DEF Newest, WorkerDepth
  <2>3. InFlight(w)' \cup marking[w]' \subseteq InFlight(w) \cup marking[w]
    BY <1>4, FlightStep DEF Step, NextRange, FetchBlock
  <2>4. rangeEnd'[w] + Stable <= head
    BY <1>1, <1>3, <2>1, <2>2, Constants
  <2> QED
    BY <1>1, <2>1, <2>2, <2>3, <2>4 DEF WorkerDepth
<1>5. CASE FetchBlock(w)
  <2>1. /\ wpc[w] = "fetch" /\ height[w] <= to[w] /\ UNCHANGED <<wpc, latest, rangeEnd>>
    BY <1>1, <1>5 DEF FetchBlock, WorkerTypes
  <2>2. InFlight(w)' \cup marking[w]' \subseteq InFlight(w) \cup marking[w] \cup {height[w]}
    BY <1>5, FlightStep
  <2>3. height[w] + Stable <= head
    <3>1. to[w] <= rangeEnd[w] /\ rangeEnd[w] + Stable <= head
      BY <2>1 DEF WorkerScan, WorkerDepth
    <3> QED
      BY <1>1, <1>3, <2>1, <3>1, Constants
  <2>4. \A b \in InFlight(w)' \cup marking[w]' : b + Stable <= head
    BY <2>2, <2>3, Zenon DEF WorkerDepth
  <2> QED
    BY <1>1, <2>1, <2>4 DEF WorkerDepth
<1>6. CASE FindBlocksInRange(w)
  <2>1. latest' = latest /\ rangeEnd' = rangeEnd /\ wpc[w] = "range"
    BY <1>6 DEF FindBlocksInRange
  <2>2. InFlight(w)' \cup marking[w]' \subseteq InFlight(w) \cup marking[w]
    BY <1>6, FlightStep DEF FindBlocksInRange, FetchBlock
  <2> QED
    BY <1>1, <2>1, <2>2 DEF WorkerDepth
<1>7. CASE EndSync(w) \/ EndRange(w)
  <2>1. latest' = latest /\ rangeEnd' = rangeEnd
        /\ (wpc'[w] \in {"range", "fetch"} => wpc[w] \in {"range", "fetch"})
    BY <1>1, <1>7 DEF EndSync, EndRange, WorkerTypes
  <2>2. InFlight(w)' \cup marking[w]' \subseteq InFlight(w) \cup marking[w]
    BY <1>3, <1>7, FlightStep DEF EndSync, EndRange, FetchBlock
  <2> QED
    BY <1>1, <2>1, <2>2 DEF WorkerDepth
<1>9. CASE ~Worker(w)
  <2>1. UNCHANGED <<wpc, latest, rangeEnd>>
    BY <1>9 DEF Step, Parser, Receive, BatchDone, ParserDone, AddBlock, UpdateSyncInfo,
       ParseTransactions, wrk
  <2>2. InFlight(w)' \cup marking[w]' \subseteq InFlight(w) \cup marking[w]
    BY <1>9, FlightStep DEF Worker
  <2> QED
    BY <1>1, <2>1, <2>2 DEF WorkerDepth
<1> QED
  BY <1>4, <1>5, <1>6, <1>7, <1>9 DEF Worker

\* Every step keeps DepthInv.
LEMMA DepthStep ==
  ASSUME TypeOK, TypeOK', ShapeInv, RangeInv, ScanInv, DepthInv, [Next]_vars
  PROVE  DepthInv'
<1>0. setup' = setup /\ SyncEnd' = SyncEnd /\ head \in Nat /\ head' \in Nat /\ head <= head'
      /\ (NewBlock \/ head' = head)
  BY SetupStays, Frozen, Grows
<1> SUFFICES ASSUME SyncEnd = 0
             PROVE  /\ phase' \in {"sync", "check"} => last' <= head'
                    /\ \A b \in stored' : b + Stable <= head'
                    /\ \A w \in Workers : WorkerDepth(w)'
  BY <1>0 DEF DepthInv
<1>a. start \in Nat /\ last \in Nat /\ last' \in Nat /\ stored \subseteq Nat
  BY TypeParts, SetupFacts DEF MainTypes, DBTypes, Blocks
<1>b. /\ phase \in {"sync", "check"} => last <= head
      /\ \A b \in stored : b + Stable <= head
      /\ \A w \in Workers : WorkerDepth(w)
  BY DEF DepthInv
<1>1. \A b \in stored' : b + Stable <= head'
  <2>1. \A b \in stored : b + Stable <= head'
    BY <1>0, <1>a, <1>b, Constants
  <2>2. stored' = stored \/ \E w \in Workers : \E b \in adding[w] : stored' = stored \cup {b} /\ head' = head
    BY DEF Next, vars, Syncer, Boot, Dispatch, CheckSync, CheckSyncDone, StartLoop, SetSynced,
       Worker, NextRange, EndSync, FindBlocksInRange, FetchBlock, EndRange,
       Parser, Receive, BatchDone, ParserDone, AddBlock, UpdateSyncInfo, ParseTransactions,
       NewBlock, Crash, db
  <2>3. \A w \in Workers : \A b \in adding[w] : b + Stable <= head
    BY <1>b DEF WorkerDepth, InFlight
  <2> QED
    BY <2>1, <2>2, <2>3
<1>2. phase' \in {"sync", "check"} => last' <= head'
  <2>1. \/ phase' \in {"sync", "check"} => phase \in {"sync", "check"} /\ last' = last
        \/ \E f : StartSync(f) /\ head' = head
    BY ZenonT(30)
       DEF Next, vars, Syncer, Boot, Dispatch, CheckSync, CheckSyncDone, StartLoop, SetSynced,
       Worker, NextRange, EndSync, FindBlocksInRange, FetchBlock, EndRange, AfterSync,
       Parser, Receive, BatchDone, ParserDone, AddBlock, UpdateSyncInfo, ParseTransactions,
       NewBlock, Crash, Restarted, main, NothingToSync, LeaveToLoop
  <2>2. ASSUME NEW f, StartSync(f), head' = head PROVE last' <= head'
    <3>1. last' = LastHeight
      BY <2>2 DEF StartSync
    <3> QED
      BY <1>0, <2>2, <3>1, Constants DEF LastHeight
  <2> QED
    BY <1>0, <1>a, <1>b, <2>1, <2>2
<1>3. ASSUME NEW v \in Workers PROVE WorkerDepth(v)'
  <2>1. CASE UNCHANGED <<wrk, chan, par>>
    BY <1>0, <1>b, <2>1, SameVars, WorkerDepthStays
  <2>2. CASE Dispatch
    <3>2. PICK f \in {FirstHeight(TRUE), FirstHeight(FALSE)} :
            NothingToSync(f) \/ LeaveToLoop(f) \/ StartSync(f)
      BY <2>2 DEF Dispatch
    <3>3. CASE NothingToSync(f) \/ LeaveToLoop(f)
      BY <2>1, <3>3 DEF NothingToSync, LeaveToLoop
    <3>4. CASE StartSync(f)
      <4> DEFINE l == LastHeight
                 ws == Live'
                 s == [w \in ws |-> WorkerStart(f, l, w)]
                 e == [w \in ws |-> WorkerEnd(f, l, w)]
      <4>1. /\ f \in Nat /\ l \in Nat /\ f < l
            /\ ws = 1 .. WorkerCount(f, l)
            /\ ws \subseteq Workers
            /\ StartWorkers(ws, s, e)
        BY <2>2, <3>4, StartedRange
      <4>2. Rests(v)
        BY <2>2 DEF ShapeInv, WorkerShape, Dispatch, Live
      <4>3. l <= head
        BY <1>0, Constants DEF LastHeight
      <4>4. head' = head
        BY <2>2 DEF Dispatch
      <4> HIDE DEF l, ws
      <4>5. ASSUME NEW w \in ws
            PROVE  e[w] <= head
        <5>1. WorkerEnd(f, l, w) \in Nat /\ WorkerEnd(f, l, w) <= l
          BY <4>1, Ranges
        <5> QED
          BY <1>0, <4>1, <4>3, <5>1
      <4> HIDE DEF s, e
      <4> QED
        BY <1>0, <1>b, <4>1, <4>2, <4>4, <4>5, WorkerDepthStart DEF ShapeInv
    <3> QED
      BY <3>2, <3>3, <3>4
  <2>3. CASE CheckSync /\ ~OnlySyncAccount
    <3> DEFINE ws == {CheckWorker}
               s == [w \in ws |-> start]
               e == [w \in ws |-> last]
    <3>1. /\ phase = "sync" /\ StartWorkers(ws, s, e) /\ head' = head
      BY <2>3 DEF CheckSync
    <3>2. Rests(CheckWorker)
      <4>1. start < last
        BY <3>1 DEF RangeInv
      <4>2. WorkerCount(start, last) \in 1 .. JobCount
        BY <1>a, <4>1, Shares
      <4>3. CheckWorker \notin Live
        BY <3>1, <4>2, WorkerSet, Constants DEF Live
      <4> QED
        BY <4>1, <4>3, WorkerSet DEF ShapeInv, WorkerShape
    <3>3. last <= head
      BY <1>b, <3>1
    <3>4. \A w \in ws : w = CheckWorker /\ w \in Workers /\ s[w] = start /\ e[w] = last
      BY WorkerSet
    <3> HIDE DEF ws, s, e
    <3> QED
      BY <1>0, <1>b, <3>1, <3>2, <3>3, <3>4, WorkerDepthStart DEF ShapeInv
  <2>4. CASE StartLoop
    <3> DEFINE ws == {LoopWorker}
               s == [w \in ws |-> last]
               e == [w \in ws |-> 0]
    <3>1. StartWorkers(ws, s, e) /\ Rests(LoopWorker) /\ head' = head
      BY <2>4, WorkerSet DEF StartLoop, LoopFrom, ShapeInv, WorkerShape, Live
    <3>2. \A w \in ws : w = LoopWorker /\ w \in Workers /\ s[w] = last /\ e[w] = 0
      BY WorkerSet
    <3>3. 0 <= head
      BY <1>0
    <3> HIDE DEF ws, s, e
    <3> QED
      BY <1>0, <1>b, <3>1, <3>2, <3>3, WorkerDepthStart DEF ShapeInv
  <2>5. CASE Crash
    BY <1>0, <2>5 DEF Crash, Restarted, Each, WorkerDepth, InFlight, Queued
  <2>6. ASSUME NEW w \in Workers, Step(w) PROVE WorkerDepth(v)'
    <3>1. CASE v = w
      BY <1>0, <1>b, <2>6, <3>1, WorkerDepthStep DEF ScanInv, ShapeInv
    <3>2. CASE v /= w
      BY <1>0, <1>b, <2>6, <3>2, Alone, WorkerDepthStays DEF Step
    <3> QED
      BY <3>1, <3>2
  <2>7. Boot \/ CheckSyncDone \/ SetSynced \/ NewBlock \/ UNCHANGED vars \/ (CheckSync /\ OnlySyncAccount)
        => UNCHANGED <<wrk, chan, par>>
    BY DEF Boot, CheckSyncDone, SetSynced, NewBlock, vars, CheckSync
  <2> QED
    BY <2>1, <2>2, <2>3, <2>4, <2>5, <2>6, <2>7, StepOrMain
<1> QED
  BY <1>1, <1>2, <1>3

\* DepthInv contains the property StableDistance.
LEMMA DepthKept ==
  ASSUME DepthInv
  PROVE  StableDistance
BY DEF DepthInv, StableDistance, WorkerDepth, UnsavedNowAll, UnparsedNowAll, UnsavedNow,
       UnparsedNow, InFlight

----------------------------------------------------------------------------
\* What is fetched flows through the parser

\* A block that one worker holds stays in its hands until it is stored, parsed or lost.
LEMMA OneFlow ==
  ASSUME TypeOK, setup' = setup, NEW w \in Workers, Step(w), WorkerShape(w)
  PROVE  /\ UnsavedNow(w) \subseteq UnsavedNow(w)' \cup stored' \cup unsaved'
         /\ \A b \in UnparsedNow(w) : b \in UnparsedNow(w)' \/ parsed'[b] > 0
         /\ UnsavedNow(w)' \subseteq UnsavedNow(w) \cup UnparsedNow(w)'
         /\ stored' \cup unsaved' \subseteq stored \cup unsaved \cup UnsavedNow(w)
         /\ stored \subseteq stored' /\ unsaved \subseteq unsaved' /\ unparsed' = unparsed
         /\ marking[w]' \subseteq marking[w] \cup stored' \cup unsaved'
         /\ DBFail \/ UnsavedNow(w) \subseteq UnsavedNow(w)' \cup stored'
         /\ UnsavedNow(w) \subseteq UnsavedNow(w)' \cup stored' \cup adding[w]
<1>1. WorkerTypes /\ ChanTypes /\ ParserTypes /\ parsed \in [Blocks -> Nat]
  BY TypeParts DEF DBTypes
<1>2. OnlySyncAccount' = OnlySyncAccount
  BY Frozen
<1>3. CASE NextRange(w) \/ FindBlocksInRange(w) \/ EndRange(w)
  <2>1. UNCHANGED <<stored, unsaved, unparsed, chan, adding, marking, parsing>>
    BY <1>3 DEF NextRange, FindBlocksInRange, EndRange, db, par, history
  <2>2. UNCHANGED <<UnsavedNow(w), UnparsedNow(w)>>
    BY <1>2, <2>1 DEF UnsavedNow, UnparsedNow, Queued
  <2> QED
    BY <2>1, <2>2
<1>4. CASE EndSync(w)
  <2>1. chan' = [chan EXCEPT ![w] = Append(@, Nil)]
    BY <1>4 DEF EndSync
  <2>2. Queued(w)' = Queued(w) \cup ({Nil} \ {Nil})
    BY <1>1, <2>1, SendEffect
  <2>3. UNCHANGED <<stored, unsaved, unparsed, adding, marking, parsing>>
    BY <1>4 DEF EndSync, par, db, history
  <2> QED
    BY <1>2, <2>2, <2>3 DEF UnsavedNow, UnparsedNow
<1>5. CASE FetchBlock(w)
  <2>1. UNCHANGED <<stored, unsaved, unparsed, adding, marking, parsing>>
    BY <1>5 DEF FetchBlock, par, db, history
  <2>2. Queued(w) \subseteq Queued(w)'
    <3>1. CASE MustFetch(w)
      <4>1. height[w] \in Blocks /\ chan' = [chan EXCEPT ![w] = Append(@, height[w])]
        BY <1>5, <3>1, Fetched DEF FetchBlock
      <4> QED
        BY <1>1, <4>1, SendEffect, ZenonT(30)
    <3>2. CASE ~MustFetch(w)
      BY <1>5, <3>2 DEF FetchBlock, Queued
    <3> QED
      BY <3>1, <3>2
  <2> QED
    BY <1>2, <2>1, <2>2 DEF UnsavedNow, UnparsedNow
<1>6. CASE Receive(w)
  <2>1. UNCHANGED <<stored, unsaved, unparsed, marking>>
    BY <1>6 DEF Receive, db, history
  <2>2. Queued(w) = Queued(w)' \cup ({Head(chan[w])} \ {Nil})
    BY <1>1, <1>6, ReceiveEffect
  <2>3. CASE Head(chan[w]) = Nil
    <3>1. adding[w]' = adding[w] /\ parsing[w]' = parsing[w]
      BY <1>1, <1>6, <2>3, ReceiveEffect
    <3> QED
      BY <1>2, <2>1, <2>2, <2>3, <3>1 DEF UnsavedNow, UnparsedNow
  <2>4. CASE Head(chan[w]) /= Nil
    <3>1. /\ adding[w]' = IF OnlySyncAccount THEN adding[w] ELSE adding[w] \cup {Head(chan[w])}
          /\ parsing[w]' = parsing[w] \cup {Head(chan[w])}
      BY <1>1, <1>6, <2>4, ReceiveEffect
    <3> QED
      BY <1>2, <2>1, <2>2, <2>4, <3>1 DEF UnsavedNow, UnparsedNow
  <2> QED
    BY <2>3, <2>4
<1>7. CASE BatchDone(w) \/ ParserDone(w)
  <2>1. UNCHANGED <<stored, unsaved, unparsed, chan, adding, marking, parsing>>
    BY <1>7 DEF BatchDone, ParserDone, db, history
  <2>2. UNCHANGED <<UnsavedNow(w), UnparsedNow(w)>>
    BY <1>2, <2>1 DEF UnsavedNow, UnparsedNow, Queued
  <2> QED
    BY <2>1, <2>2
<1>8. ASSUME NEW b \in adding[w], AddBlock(w, b)
      PROVE  /\ UnsavedNow(w) \subseteq UnsavedNow(w)' \cup stored' \cup unsaved'
             /\ UNCHANGED <<UnparsedNow(w), unparsed>>
             /\ UnsavedNow(w)' \subseteq UnsavedNow(w)
             /\ stored' \cup unsaved' \subseteq stored \cup unsaved \cup UnsavedNow(w)
             /\ stored \subseteq stored' /\ unsaved \subseteq unsaved'
             /\ marking[w]' \subseteq marking[w] \cup stored' \cup unsaved'
             /\ DBFail \/ UnsavedNow(w) \subseteq UnsavedNow(w)' \cup stored'
             /\ UnsavedNow(w) \subseteq UnsavedNow(w)' \cup stored' \cup adding[w]
  <2>1. /\ adding[w]' = adding[w] \ {b} /\ UNCHANGED <<chan, parsing, unparsed>>
        /\ marking[w]' \subseteq marking[w] \cup {b}
        /\ b \in stored' \cup unsaved'
        /\ b \in stored' \/ DBFail
        /\ stored' \subseteq stored \cup {b} /\ unsaved' \subseteq unsaved \cup {b}
        /\ stored \subseteq stored' /\ unsaved \subseteq unsaved'
    BY <1>1, <1>8 DEF AddBlock, ParserTypes
  <2>2. Queued(w)' = Queued(w) /\ ~OnlySyncAccount
    BY <2>1 DEF Queued, WorkerShape
  <2> QED
    BY <1>2, <2>1, <2>2 DEF UnsavedNow, UnparsedNow
<1>9. ASSUME NEW b \in marking[w], UpdateSyncInfo(w, b)
      PROVE  /\ UNCHANGED <<UnsavedNow(w), UnparsedNow(w), stored, unsaved, unparsed>>
             /\ marking[w]' \subseteq marking[w]
  <2>1. UNCHANGED <<chan, adding, parsing, stored, unsaved, unparsed>>
        /\ marking[w]' \subseteq marking[w]
    BY <1>1, <1>9 DEF UpdateSyncInfo, ParserTypes
  <2> QED
    BY <1>2, <2>1 DEF UnsavedNow, UnparsedNow, Queued
<1>10. ASSUME NEW b \in parsing[w], ParseTransactions(w, b)
      PROVE  /\ UNCHANGED <<UnsavedNow(w), stored, unsaved, unparsed, marking>>
             /\ \A c \in UnparsedNow(w) : c \in UnparsedNow(w)' \/ parsed'[c] > 0
  <2>1. /\ UNCHANGED <<chan, adding, marking, stored, unsaved, unparsed>>
        /\ parsing[w]' = parsing[w] \ {b}
    BY <1>1, <1>10 DEF ParseTransactions, ParserTypes, history
  <2>2. parsed'[b] > 0
    BY <1>1, <1>10 DEF ParseTransactions, ParserTypes
  <2>3. Queued(w)' = Queued(w)
    BY <2>1 DEF Queued
  <2> QED
    BY <1>2, <2>1, <2>2, <2>3 DEF UnsavedNow, UnparsedNow
<1> QED
  BY <1>3, <1>4, <1>5, <1>6, <1>7, <1>8, <1>9, <1>10 DEF Step, Worker, Parser

\* No block that was fetched disappears, in any step of the system.
LEMMA Flow ==
  ASSUME TypeOK, ShapeInv, [Next]_vars
  PROVE  /\ UnsavedNowAll \subseteq UnsavedNowAll' \cup stored' \cup unsaved'
         /\ \A b \in UnparsedNowAll : b \in UnparsedNowAll' \cup unparsed' \/ parsed'[b] > 0
         /\ UnsavedNowAll' \subseteq UnsavedNowAll \cup UnparsedNowAll'
         /\ stored' \cup unsaved' \subseteq stored \cup unsaved \cup UnsavedNowAll
<1>0. setup' = setup
  BY SetupStays
<1>1. ASSUME UNCHANGED <<stored, unsaved>>,
             \A w \in Workers : UNCHANGED <<UnsavedNow(w), UnparsedNow(w)>>
      PROVE  /\ UnsavedNowAll' = UnsavedNowAll /\ UnparsedNowAll' = UnparsedNowAll
             /\ stored' = stored /\ unsaved' = unsaved
  BY <1>1, Zenon DEF UnsavedNowAll, UnparsedNowAll
<1>2. CASE UNCHANGED <<wrk, chan, par>> /\ UNCHANGED <<stored, unsaved>>
  BY <1>0, <1>1, <1>2, SameVars, SameLocal
<1>3. CASE (\E ws \in SUBSET Workers : \E s, e : StartWorkers(ws, s, e)) /\ UNCHANGED <<stored, unsaved>>
  BY <1>0, <1>1, <1>3, StartEffect
<1>4. Boot \/ CheckSyncDone \/ SetSynced \/ NewBlock \/ UNCHANGED vars
      => UNCHANGED <<wrk, chan, par>> /\ UNCHANGED <<stored, unsaved>>
  BY DEF Boot, CheckSyncDone, SetSynced, NewBlock, vars, db, history
<1>5. CASE Dispatch
  <2>1. UNCHANGED <<stored, unsaved>>
    BY <1>5 DEF Dispatch, db
  <2>2. PICK f \in {FirstHeight(TRUE), FirstHeight(FALSE)} :
          NothingToSync(f) \/ LeaveToLoop(f) \/ StartSync(f)
    BY <1>5 DEF Dispatch
  <2>3. CASE NothingToSync(f) \/ LeaveToLoop(f)
    BY <1>2, <2>1, <2>3 DEF NothingToSync, LeaveToLoop
  <2>4. CASE StartSync(f)
    BY <1>3, <1>5, <2>1, <2>4, StartedRange
  <2> QED
    BY <2>2, <2>3, <2>4
<1>6. CASE CheckSync
  <2>1. UNCHANGED <<stored, unsaved>>
    BY <1>6 DEF CheckSync, db, history
  <2>2. \/ UNCHANGED <<wrk, chan, par>>
        \/ \E s, e : StartWorkers({CheckWorker}, s, e)
    BY <1>6 DEF CheckSync
  <2>3. {CheckWorker} \in SUBSET Workers
    BY WorkerSet
  <2> QED
    BY <1>2, <1>3, <2>1, <2>2, <2>3
<1>7. CASE StartLoop
  <2>1. UNCHANGED <<stored, unsaved>>
    BY <1>7 DEF StartLoop, db, history
  <2>2. \E s, e : StartWorkers({LoopWorker}, s, e)
    BY <1>7 DEF StartLoop
  <2>3. {LoopWorker} \in SUBSET Workers
    BY WorkerSet
  <2> QED
    BY <1>3, <2>1, <2>2, <2>3
<1>8. CASE Crash
  <2>1. /\ unsaved' = unsaved \cup UnsavedNowAll /\ unparsed' = unparsed \cup UnparsedNowAll
        /\ stored' = stored
    BY <1>8 DEF Crash, UnsavedNowAll, UnparsedNowAll, db
  <2>2. \A w \in Workers : UnsavedNow(w)' = {} /\ UnparsedNow(w)' = {}
    BY <1>8 DEF Crash, Restarted, Each, UnsavedNow, UnparsedNow, Queued
  <2>3. UnsavedNowAll' = {} /\ UnparsedNowAll' = {}
    BY <2>2, Zenon DEF UnsavedNowAll, UnparsedNowAll
  <2> QED
    BY <2>1, <2>3
<1>9. ASSUME NEW w \in Workers, Step(w)
      PROVE  /\ UnsavedNowAll \subseteq UnsavedNowAll' \cup stored' \cup unsaved'
             /\ \A b \in UnparsedNowAll : b \in UnparsedNowAll' \cup unparsed' \/ parsed'[b] > 0
             /\ UnsavedNowAll' \subseteq UnsavedNowAll \cup UnparsedNowAll'
             /\ stored' \cup unsaved' \subseteq stored \cup unsaved \cup UnsavedNowAll
  <2>1. \A v \in Workers \ {w} : UnsavedNow(v)' = UnsavedNow(v) /\ UnparsedNow(v)' = UnparsedNow(v)
    BY <1>0, <1>9, Alone, SameLocal DEF Step
  <2>2. /\ UnsavedNow(w) \subseteq UnsavedNow(w)' \cup stored' \cup unsaved'
        /\ \A b \in UnparsedNow(w) : b \in UnparsedNow(w)' \/ parsed'[b] > 0
        /\ UnsavedNow(w)' \subseteq UnsavedNow(w) \cup UnparsedNow(w)'
        /\ stored' \cup unsaved' \subseteq stored \cup unsaved \cup UnsavedNow(w)
    BY <1>0, <1>9, OneFlow DEF ShapeInv
  <2>3. \A b : b \in UnsavedNowAll <=> \E v \in Workers : b \in UnsavedNow(v)
    BY Zenon DEF UnsavedNowAll
  <2>4. \A b : b \in UnsavedNowAll' <=> \E v \in Workers : b \in UnsavedNow(v)'
    BY Zenon DEF UnsavedNowAll
  <2>5. \A b : b \in UnparsedNowAll <=> \E v \in Workers : b \in UnparsedNow(v)
    BY Zenon DEF UnparsedNowAll
  <2>6. \A b : b \in UnparsedNowAll' <=> \E v \in Workers : b \in UnparsedNow(v)'
    BY Zenon DEF UnparsedNowAll
  <2>7. UnsavedNowAll \subseteq UnsavedNowAll' \cup stored' \cup unsaved'
    BY <2>1, <2>2, <2>3, <2>4
  <2>8. \A b \in UnparsedNowAll : b \in UnparsedNowAll' \cup unparsed' \/ parsed'[b] > 0
    BY <2>1, <2>2, <2>5, <2>6
  <2>9. UnsavedNowAll' \subseteq UnsavedNowAll \cup UnparsedNowAll'
    BY <2>1, <2>2, <2>3, <2>4, <2>6
  <2>10. stored' \cup unsaved' \subseteq stored \cup unsaved \cup UnsavedNowAll
    BY <2>2, <2>3
  <2> QED
    BY <2>7, <2>8, <2>9, <2>10
<1> QED
  BY <1>2, <1>4, <1>5, <1>6, <1>7, <1>8, <1>9, StepOrMain

----------------------------------------------------------------------------
\* Nothing is lost unseen: SafeInv

\* What is known of a block stays true of it.
LEMMA SafeStays ==
  ASSUME TypeOK, ShapeInv, [Next]_vars
  PROVE  \A b : /\ Saved(b) => Saved(b)'
                /\ Parsed(b) => Parsed(b)'
                /\ Begun(b) => Begun(b)'
                /\ Safe(b) => Safe(b)'
<1> TAKE b
<1>0. OnlySyncAccount' = OnlySyncAccount /\ Blocks' = Blocks
  BY SetupStays, Frozen
<1>1. stored \subseteq stored' /\ unsaved \subseteq unsaved' /\ unparsed \subseteq unparsed'
  BY Grows
<1>2. b \in Blocks /\ parsed[b] > 0 => parsed'[b] > 0
  BY Grows
<1>3. Saved(b) => Saved(b)'
  BY <1>0, <1>1 DEF Saved
<1>4. Parsed(b) => Parsed(b)'
  BY <1>0, <1>1, <1>2 DEF Parsed
<1>5. Begun(b) => Begun(b)'
  BY <1>0, <1>1, <1>2, Flow DEF Begun
<1>6. Covered(b) => Covered(b)'
  BY <1>0, <1>1, Flow DEF Covered
<1> QED
  BY <1>3, <1>4, <1>5, <1>6 DEF Safe

\* When all workers have finished, nothing is in flight.
LEMMA AtRest ==
  ASSUME ShapeInv, \A w \in Workers : Rests(w)
  PROVE  UnsavedNowAll = {} /\ UnparsedNowAll = {}
<1>1. \A w \in Workers : UnsavedNow(w) = {} /\ UnparsedNow(w) = {}
  BY DEF ShapeInv, WorkerShape, Rests, InFlight, UnsavedNow, UnparsedNow
<1> QED
  BY <1>1, Zenon DEF UnsavedNowAll, UnparsedNowAll

\* A stored block's transactions are on their way, too.
LEMMA StoredIsSafe ==
  ASSUME SafeInv, NEW b \in stored
  PROVE  Safe(b)
BY DEF SafeInv, Safe, Covered

\* Where a dispatch begins, everything before has been fetched.
LEMMA FirstHeights ==
  ASSUME TypeOK, SafeInv, NEW f \in {FirstHeight(TRUE), FirstHeight(FALSE)}
  PROVE  f \in Nat /\ \A b \in Origin .. (f - 1) : Safe(b)
<1>1. SyncStart \in Nat /\ syncInfo \in Nat /\ f \in Nat
  BY TypeParts, SetupFacts, Constants DEF MainTypes, DBTypes, FirstHeight
<1>2. CASE f = Origin
  BY <1>1, <1>2
<1>3. CASE f /= Origin
  <2>1. SyncStart = 0 /\ f = syncInfo + 1 /\ Origin = CreationHeight
    BY <1>3 DEF Origin, FirstHeight
  <2>2. \A b \in Origin .. syncInfo : b = SyncStart \/ Safe(b)
    BY DEF SafeInv
  <2> QED
    BY <1>1, <2>1, <2>2, Constants
<1> QED
  BY <1>1, <1>2, <1>3

\* Whatever is in flight is a block of the chain.
LEMMA FlightBlocks ==
  ASSUME TypeOK'
  PROVE  UnsavedNowAll' \cup UnparsedNowAll' \subseteq Blocks'
<1>1. \A w \in Workers : UnsavedNow(w)' \subseteq Blocks' /\ UnparsedNow(w)' \subseteq Blocks'
  BY TypeParts DEF UnsavedNow, UnparsedNow, Queued, ChanTypes, ParserTypes
<1> QED
  BY <1>1, Zenon DEF UnsavedNowAll, UnparsedNowAll

\* A height that a worker has passed was stored or is in flight.
LEMMA ScannedIsSafe ==
  ASSUME TypeOK, TypeOK', ShapeInv, ScanInv, SafeInv, [Next]_vars, NEW w \in Workers, Step(w),
         wpc'[w] /= "idle", NEW b \in wstart'[w] .. (height'[w] - 1)
  PROVE  Safe(b)'
<1>0. WorkerTypes /\ ParserTypes /\ ChanTypes /\ setup' = setup /\ Blocks' = Blocks
  BY TypeParts, SetupStays, Frozen
<1>1. wstart' = wstart /\ wstart[w] \in Nat /\ height[w] \in Nat /\ wpc[w] /= "idle"
  BY <1>0, StepKeepsRange, IdleStays DEF WorkerTypes, ShapeInv
<1>2. \A c \in wstart[w] .. (height[w] - 1) : Safe(c)
  BY <1>1 DEF SafeInv
<1>3. \A c \in stored : Safe(c)
  BY StoredIsSafe
<1>4. CASE FindBlocksInRange(w)
  <2>1. PICK upto \in Int :
           \/ height' = height
           \/ height'[w] = upto + 1 /\ height[w] .. upto \subseteq stored
    BY <1>4, QueryEffect
  <2>2. Safe(b)
    <3>1. CASE height' = height
      BY <1>1, <1>2, <3>1
    <3>2. CASE height'[w] = upto + 1 /\ height[w] .. upto \subseteq stored
      <4>1. b \in Int /\ (b \in wstart[w] .. (height[w] - 1) \/ b \in height[w] .. upto)
        BY <1>1, <3>2
      <4> QED
        BY <1>2, <1>3, <3>2, <4>1
    <3> QED
      BY <2>1, <3>1, <3>2
  <2> QED
    BY <2>2, SafeStays
<1>5. CASE FetchBlock(w)
  <2>1. height'[w] = height[w] + 1 /\ wpc[w] = "fetch"
    BY <1>0, <1>5 DEF FetchBlock, WorkerTypes
  <2>2. CASE b /= height[w]
    <3>1. b \in wstart[w] .. (height[w] - 1)
      BY <1>1, <2>1, <2>2
    <3> QED
      BY <1>2, <3>1, SafeStays
  <2>3. CASE b = height[w] /\ MustFetch(w)
    <3>1. b \in Blocks /\ chan' = [chan EXCEPT ![w] = Append(@, b)]
      BY <1>5, <2>3, Fetched DEF FetchBlock
    <3>2. b \in Queued(w)'
      <4>1. Queued(w)' = Queued(w) \cup ({b} \ {Nil})
        BY <1>0, <3>1, SendEffect
      <4> QED
        BY <1>1, <2>3, <4>1 DEF Nil
    <3>3. b \in UnparsedNow(w)' /\ (OnlySyncAccount' \/ b \in UnsavedNow(w)')
      BY <3>2 DEF UnparsedNow, UnsavedNow
    <3> QED
      BY <1>0, <3>1, <3>3 DEF Safe, Covered, Begun, UnparsedNowAll, UnsavedNowAll
  <2>4. CASE b = height[w] /\ ~MustFetch(w)
    <3>1. b \in stored
      BY <2>1, <2>4 DEF MustFetch, ScanInv, WorkerScan
    <3> QED
      BY <1>3, <3>1, SafeStays
  <2> QED
    BY <2>2, <2>3, <2>4
<1>6. CASE ~FindBlocksInRange(w) /\ ~FetchBlock(w)
  <2>1. height' = height
    BY <1>6 DEF Step, Worker, NextRange, EndSync, EndRange, Parser, Receive, BatchDone,
       ParserDone, AddBlock, UpdateSyncInfo, ParseTransactions, wrk
  <2> QED
    BY <1>1, <1>2, <2>1, SafeStays
<1> QED
  BY <1>4, <1>5, <1>6

\* The catch-up range when its workers have finished
LEMMA RangeDone ==
  ASSUME TypeOK, ShapeInv, RangeInv, ScanInv, SafeInv, phase = "sync", Finished(active)
  PROVE  \A b \in start .. (last - 1) : Saved(b) /\ Parsed(b)
<1> TAKE b \in start .. (last - 1)
<1>1. /\ start \in Nat /\ last \in Nat /\ start < last
      /\ active = 1 .. WorkerCount(start, last) /\ active = Live /\ active \subseteq Workers
  BY TypeParts DEF MainTypes, RangeInv, Live
<1>2. \A w \in Workers : Rests(w)
  BY <1>1 DEF ShapeInv, WorkerShape, Finished, Rests
<1>3. Cardinality({w \in active : wstart[w] <= b /\ b < wend[w]}) = 1
  BY PartitionExact DEF ExactPartition
<1>4. PICK w \in active : wstart[w] <= b /\ b < wend[w]
  <2>1. {w \in active : wstart[w] <= b /\ b < wend[w]} /= {}
    BY <1>3, FS_EmptySet
  <2> QED
    BY <2>1
<1>5. wpc[w] = "done" /\ height[w] = wend[w] /\ w \in Workers
  BY <1>1, <1>4 DEF Finished, ScanInv, WorkerScan
<1>6. wstart[w] \in Nat /\ height[w] \in Nat /\ b \in Int
  BY <1>1, <1>5, TypeParts DEF WorkerTypes
<1>7. Safe(b)
  BY <1>4, <1>5, <1>6 DEF SafeInv
<1> QED
  BY <1>2, <1>7, AtRest DEF Safe, Covered, Begun, Saved, Parsed

\* Every step keeps SafeInv.
LEMMA SafeStep ==
  ASSUME TypeOK, TypeOK', ShapeInv, RangeInv, ScanInv, SafeInv, [Next]_vars
  PROVE  SafeInv'
<1>0. setup' = setup /\ SyncStart' = SyncStart /\ SyncEnd' = SyncEnd /\ Origin' = Origin
      /\ Blocks' = Blocks /\ OnlySyncAccount' = OnlySyncAccount
  BY SetupStays, Frozen
<1>a. /\ start \in Nat /\ last \in Nat /\ syncInfo \in Nat /\ SyncStart \in Nat
      /\ Origin \in Nat /\ Origin > 0
  BY TypeParts, SetupFacts, Constants DEF MainTypes, DBTypes, Origin
<1>1. \A b \in stored' \cup unsaved' \cup UnsavedNowAll' : Begun(b)'
  <2> TAKE b \in stored' \cup unsaved' \cup UnsavedNowAll'
  <2>1. CASE b \in stored \cup unsaved \cup UnsavedNowAll
    BY <2>1, SafeStays DEF SafeInv
  <2>2. CASE b \in UnparsedNowAll'
    <3>1. b \in Blocks
      BY <1>0, <2>2, FlightBlocks
    <3> QED
      BY <1>0, <2>2, <3>1 DEF Begun
  <2> QED
    BY <2>1, <2>2, Flow
<1>2. \A w \in Workers : \A b \in marking'[w] : b \in stored' \cup unsaved'
  <2> SUFFICES ASSUME NEW v \in Workers, NEW b \in marking'[v]
               PROVE  b \in stored' \cup unsaved'
    OBVIOUS
  <2>1. stored \subseteq stored' /\ unsaved \subseteq unsaved'
    BY Grows
  <2>2. CASE \E w \in Workers : Step(w)
    <3> PICK w \in Workers : Step(w)
      BY <2>2
    <3>1. CASE v = w
      BY <1>0, <3>1, OneFlow DEF ShapeInv, SafeInv
    <3>2. CASE v /= w
      BY <1>0, <2>1, <3>2, Alone, SameLocal DEF Step, SafeInv
    <3> QED
      BY <3>1, <3>2
  <2>3. CASE ~\E w \in Workers : Step(w)
    <3>1. marking' = marking \/ marking' = Each({})
      BY <2>3, StepOrMain DEF Boot, Dispatch, CheckSync, CheckSyncDone, StartLoop, SetSynced,
         NewBlock, Crash, Restarted, vars, par, NothingToSync, LeaveToLoop, StartSync, StartWorkers
    <3> QED
      BY <2>1, <3>1 DEF Each, SafeInv
  <2> QED
    BY <2>2, <2>3
<1>3. \A w \in Workers : wpc'[w] /= "idle" => \A b \in wstart'[w] .. (height'[w] - 1) : Safe(b)'
  <2> SUFFICES ASSUME NEW v \in Workers, wpc'[v] /= "idle", NEW b \in wstart'[v] .. (height'[v] - 1)
               PROVE  Safe(b)'
    OBVIOUS
  <2>1. CASE Local(v)' = Local(v)
    <3>1. wpc[v] /= "idle" /\ b \in wstart[v] .. (height[v] - 1)
      BY <1>0, <2>1, SameLocal
    <3> QED
      BY <3>1, SafeStays DEF SafeInv
  <2>2. CASE \E w \in Workers : Step(w)
    <3> PICK w \in Workers : Step(w)
      BY <2>2
    <3>1. CASE v = w
      BY <3>1, ScannedIsSafe
    <3>2. CASE v /= w
      BY <2>1, <3>2, Alone DEF Step
    <3> QED
      BY <3>1, <3>2
  <2>3. CASE \E ws \in SUBSET Workers : \E s, e : StartWorkers(ws, s, e)
    <3> PICK ws \in SUBSET Workers : \E s, e : StartWorkers(ws, s, e)
      BY <2>3
    <3>1. CASE v \notin ws
      BY <1>0, <2>1, <3>1, StartEffect
    <3>2. CASE v \in ws
      <4>1. wstart'[v] = height'[v] /\ height'[v] \in Nat
        BY <1>0, <3>2, StartEffect, TypeParts DEF WorkerTypes
      <4> QED
        BY <4>1
    <3> QED
      BY <3>1, <3>2
  <2>4. CASE Crash
    BY <2>4 DEF Crash, Restarted, Each
  <2>5. Boot \/ CheckSyncDone \/ SetSynced \/ NewBlock \/ UNCHANGED vars => UNCHANGED <<wrk, chan, par>>
    BY DEF Boot, CheckSyncDone, SetSynced, NewBlock, vars
  <2>6. Dispatch => \/ UNCHANGED <<wrk, chan, par>>
                    \/ \E ws \in SUBSET Workers : \E s, e : StartWorkers(ws, s, e)
    <3> SUFFICES ASSUME Dispatch
                 PROVE  \/ UNCHANGED <<wrk, chan, par>>
                        \/ \E ws \in SUBSET Workers : \E s, e : StartWorkers(ws, s, e)
      OBVIOUS
    <3>1. PICK f \in {FirstHeight(TRUE), FirstHeight(FALSE)} :
            NothingToSync(f) \/ LeaveToLoop(f) \/ StartSync(f)
      BY DEF Dispatch
    <3>2. NothingToSync(f) \/ LeaveToLoop(f) => UNCHANGED <<wrk, chan, par>>
      BY DEF NothingToSync, LeaveToLoop
    <3> QED
      BY <3>1, <3>2, StartedRange
  <2>7. CheckSync => UNCHANGED <<wrk, chan, par>> \/ \E s, e : StartWorkers({CheckWorker}, s, e)
    BY DEF CheckSync
  <2>8. StartLoop => \E s, e : StartWorkers({LoopWorker}, s, e)
    BY DEF StartLoop
  <2>9. {CheckWorker} \in SUBSET Workers /\ {LoopWorker} \in SUBSET Workers
    BY WorkerSet
  <2> QED
    BY <2>1, <2>2, <2>3, <2>4, <2>5, <2>6, <2>7, <2>8, <2>9, SameVars, StepOrMain
<1>4. phase' \notin {"boot", "dispatch"} => \A b \in Origin .. (start' - 1) : Safe(b)'
  <2> SUFFICES ASSUME phase' \notin {"boot", "dispatch"}, NEW b \in Origin .. (start' - 1)
               PROVE  Safe(b)
    BY SafeStays
  <2>1. CASE Dispatch
    <3>1. PICK f \in {FirstHeight(TRUE), FirstHeight(FALSE)} :
            NothingToSync(f) \/ LeaveToLoop(f) \/ StartSync(f)
      BY <2>1 DEF Dispatch
    <3>2. start' = f \/ start' = SyncStart
      BY <2>1, <3>1 DEF NothingToSync, LeaveToLoop, StartSync, ShapeInv, Dispatch
    <3>3. CASE start' = SyncStart
      BY <1>a, <3>3 DEF Origin
    <3>4. CASE start' = f
      BY <3>4, FirstHeights
    <3> QED
      BY <3>2, <3>3, <3>4
  <2>2. CASE ~Dispatch
    <3>1. start' = start /\ phase \notin {"boot", "dispatch"}
      BY <2>2, StepOrMain, StepFrame DEF Boot, CheckSync, CheckSyncDone, StartLoop, SetSynced,
         NewBlock, Crash, Restarted, vars, main
    <3> QED
      BY <3>1 DEF SafeInv
  <2> QED
    BY <2>1, <2>2
<1>5. phase' \in {"check", "loop", "looping", "done"} =>
        \A b \in start' .. (last' - 1) : Saved(b)' /\ Parsed(b)'
  <2> SUFFICES ASSUME phase' \in {"check", "loop", "looping", "done"},
                      NEW b \in start' .. (last' - 1)
               PROVE  Saved(b) /\ Parsed(b)
    BY SafeStays
  <2>1. CASE Dispatch
    <3>1. PICK f \in {FirstHeight(TRUE), FirstHeight(FALSE)} :
            NothingToSync(f) \/ LeaveToLoop(f) \/ StartSync(f)
      BY <2>1 DEF Dispatch
    <3>2. \/ start' = f /\ last' = f
          \/ start' = SyncStart /\ last' = 0
      BY <2>1, <3>1 DEF NothingToSync, LeaveToLoop, StartSync, ShapeInv, Dispatch
    <3>3. f \in Nat
      BY FirstHeights
    <3> QED
      BY <1>a, <3>2, <3>3
  <2>2. CASE CheckSync
    <3>1. phase = "sync" /\ Finished(active) /\ UNCHANGED <<start, last>>
      BY <2>2 DEF CheckSync
    <3> QED
      BY <3>1, RangeDone
  <2>3. CASE ~Dispatch /\ ~CheckSync
    <3>1. UNCHANGED <<start, last>> /\ phase \in {"check", "loop", "looping", "done"}
      BY <2>3, StepOrMain, StepFrame DEF Boot, CheckSyncDone, StartLoop, SetSynced,
         NewBlock, Crash, Restarted, vars, main
    <3> QED
      BY <3>1 DEF SafeInv
  <2> QED
    BY <2>1, <2>2, <2>3
<1>6. \A b \in Origin .. syncInfo' : b = SyncStart \/ Safe(b)'
  <2> SUFFICES ASSUME NEW b \in Origin .. syncInfo', b /= SyncStart
               PROVE  Safe(b)
    BY SafeStays
  <2>1. CASE syncInfo' = syncInfo
    BY <2>1 DEF SafeInv
  <2>2. CASE syncInfo' = SyncStart /\ SyncStart /= 0
    BY <1>a, <2>2 DEF Origin
  <2>3. ASSUME NEW w \in Workers, NEW m \in marking[w], syncInfo' = m
        PROVE  Safe(b)
    <3>1. w = LoopWorker /\ phase = "looping" /\ wpc[w] /= "idle"
      BY <2>3 DEF ShapeInv, WorkerShape, RangeInv
    <3>2. wstart[w] = last /\ m \in wstart[w] .. (height[w] - 1) /\ height[w] \in Nat
      BY <2>3, <3>1, TypeParts DEF RangeInv, ScanInv, WorkerScan, WorkerTypes
    <3>3. b \in Origin .. (start - 1) \/ b \in start .. (last - 1) \/ b \in last .. (height[w] - 1)
      BY <1>a, <2>3, <3>2
    <3>4. CASE b \in Origin .. (start - 1)
      BY <3>1, <3>4 DEF SafeInv
    <3>5. CASE b \in start .. (last - 1)
      BY <3>1, <3>5 DEF SafeInv, Safe, Saved, Parsed, Covered, Begun
    <3>6. CASE b \in last .. (height[w] - 1)
      BY <3>1, <3>2, <3>6 DEF SafeInv
    <3> QED
      BY <3>3, <3>4, <3>5, <3>6
  <2>4. \/ syncInfo' = syncInfo
        \/ syncInfo' = SyncStart /\ SyncStart /= 0
        \/ \E w \in Workers : \E m \in marking[w] : syncInfo' = m
    BY DEF Next, vars, Syncer, Boot, Dispatch, CheckSync, CheckSyncDone, StartLoop, SetSynced,
       Worker, NextRange, EndSync, FindBlocksInRange, FetchBlock, EndRange,
       Parser, Receive, BatchDone, ParserDone, AddBlock, UpdateSyncInfo, ParseTransactions,
       NewBlock, Crash, db
  <2> QED
    BY <2>1, <2>2, <2>3, <2>4
<1> QED
  BY <1>0, <1>1, <1>2, <1>3, <1>4, <1>5, <1>6 DEF SafeInv

----------------------------------------------------------------------------
\* One lost AddBlock is made good by the check pass: RepairInv

\* No database failure is taken back.
LEMMA FailsGrow ==
  ASSUME TypeOK, [Next]_vars
  PROVE  dbFails \in Nat /\ dbFails' \in Nat /\ dbFails <= dbFails'
<1>1. dbFails \in Nat
  BY TypeParts, SetupFacts DEF MainTypes
<1>2. dbFails' = dbFails \/ dbFails' = dbFails + 1
  BY DEF Next, vars, Syncer, Boot, Dispatch, CheckSync, CheckSyncDone, StartLoop, SetSynced,
       Worker, NextRange, EndSync, FindBlocksInRange, FetchBlock, EndRange,
       Parser, Receive, BatchDone, ParserDone, AddBlock, UpdateSyncInfo, ParseTransactions,
       NewBlock, Crash, DBFail, history
<1> QED
  BY <1>1, <1>2

\* What a step of another worker leaves of it.
LEMMA KeptStays ==
  ASSUME TypeOK, [Next]_vars, NEW w \in Workers, Local(w)' = Local(w), NEW n \in Nat,
         NEW b, Kept(w, b, n)
  PROVE  Kept(w, b, n)'
<1>1. UnsavedNow(w)' = UnsavedNow(w)
  BY SetupStays, SameLocal
<1> QED
  BY <1>1, FailsGrow, Grows DEF Kept

\* A height that worker w passes is in its hands or stored; it loses a block that is not
\* stored only by one more failure.
LEMMA KeptStep ==
  ASSUME TypeOK, TypeOK', ShapeInv, ScanInv, [Next]_vars, ~OnlySyncAccount,
         NEW w \in Workers, Step(w), wpc[w] /= "idle", NEW n \in {1, 2},
         \A c \in wstart[w] .. (height[w] - 1) : Kept(w, c, n),
         \A c \in adding[w] : c \in stored \/ dbFails >= n - 1,
         NEW b \in wstart[w] .. (height'[w] - 1)
  PROVE  Kept(w, b, n)'
<1>0. WorkerTypes /\ ParserTypes /\ ChanTypes /\ setup' = setup /\ ~OnlySyncAccount'
  BY TypeParts, SetupStays, Frozen
<1>1. wstart[w] \in Nat /\ height[w] \in Nat /\ height'[w] \in Nat
  BY <1>0, TypeParts DEF WorkerTypes
<1>2. stored \subseteq stored' /\ dbFails \in Nat /\ dbFails' \in Nat /\ dbFails <= dbFails'
  BY Grows, FailsGrow
<1>3. \A c \in UnsavedNow(w) : \/ c \in UnsavedNow(w)' \cup stored'
                               \/ c \in adding[w] /\ dbFails' = dbFails + 1
  <2>1. /\ DBFail \/ UnsavedNow(w) \subseteq UnsavedNow(w)' \cup stored'
        /\ UnsavedNow(w) \subseteq UnsavedNow(w)' \cup stored' \cup adding[w]
    BY <1>0, OneFlow DEF ShapeInv
  <2> QED
    BY <2>1 DEF DBFail
<1>4. \A c : Kept(w, c, n) => Kept(w, c, n)'
  <2> TAKE c
  <2>1. CASE c \in UnsavedNow(w) /\ c \notin UnsavedNow(w)' \cup stored'
    <3>1. c \in adding[w] /\ dbFails' = dbFails + 1 /\ c \notin stored
      BY <1>2, <1>3, <2>1
    <3>2. dbFails >= n - 1
      BY <3>1
    <3> QED
      BY <1>2, <3>1, <3>2 DEF Kept
  <2>2. CASE ~(c \in UnsavedNow(w) /\ c \notin UnsavedNow(w)' \cup stored')
    BY <1>2, <2>2 DEF Kept
  <2> QED
    BY <2>1, <2>2
<1>5. CASE b \in stored
  BY <1>4, <1>5 DEF Kept
<1>6. CASE b \in wstart[w] .. (height[w] - 1)
  BY <1>4, <1>6
<1>7. CASE b \notin stored /\ b \notin wstart[w] .. (height[w] - 1)
  <2>1. height'[w] > height[w]
    BY <1>1, <1>7
  <2>2. ~FindBlocksInRange(w)
    <3> SUFFICES ASSUME FindBlocksInRange(w) PROVE FALSE
      OBVIOUS
    <3>1. PICK upto \in Int :
             \/ height' = height
             \/ height'[w] = upto + 1 /\ height[w] .. upto \subseteq stored
      BY QueryEffect
    <3>2. height'[w] = upto + 1 /\ height[w] .. upto \subseteq stored
      BY <1>1, <2>1, <3>1
    <3>3. b \in height[w] .. upto
      BY <1>1, <1>7, <3>2
    <3> QED
      BY <1>7, <3>2, <3>3
  <2>3. FetchBlock(w)
    BY <1>1, <2>1, <2>2 DEF Step, Worker, NextRange, EndSync, EndRange, Parser, Receive,
       BatchDone, ParserDone, AddBlock, UpdateSyncInfo, ParseTransactions, wrk
  <2>4. height'[w] = height[w] + 1 /\ wpc[w] = "fetch"
    BY <1>0, <2>3 DEF FetchBlock, WorkerTypes
  <2>5. b = height[w]
    BY <1>1, <1>7, <2>4
  <2>6. MustFetch(w)
    BY <1>7, <2>4, <2>5 DEF MustFetch, ScanInv, WorkerScan
  <2>7. b \in Blocks /\ chan' = [chan EXCEPT ![w] = Append(@, b)]
    BY <2>3, <2>5, <2>6, Fetched DEF FetchBlock
  <2>8. b \in Queued(w)'
    <3>1. Queued(w)' = Queued(w) \cup ({b} \ {Nil})
      BY <1>0, <2>7, SendEffect
    <3> QED
      BY <1>1, <2>5, <3>1 DEF Nil
  <2> QED
    BY <1>0, <2>8 DEF Kept, UnsavedNow
<1> QED
  BY <1>5, <1>6, <1>7

\* The catch-up range when its workers have finished
LEMMA CaughtOnce ==
  ASSUME TypeOK, ShapeInv, RangeInv, ScanInv, RepairInv, ~OnlySyncAccount,
         phase = "sync", Finished(active), NEW b \in start .. (last - 1)
  PROVE  b \in stored \/ dbFails >= 1
<1>1. /\ start \in Nat /\ last \in Nat /\ start < last
      /\ active = 1 .. WorkerCount(start, last) /\ active = Live /\ active \subseteq Workers
  BY TypeParts DEF MainTypes, RangeInv, Live
<1>2. Cardinality({w \in active : wstart[w] <= b /\ b < wend[w]}) = 1
  BY PartitionExact DEF ExactPartition
<1>3. PICK w \in active : wstart[w] <= b /\ b < wend[w]
  <2>1. {w \in active : wstart[w] <= b /\ b < wend[w]} /= {}
    BY <1>2, FS_EmptySet
  <2> QED
    BY <2>1
<1>4. wpc[w] = "done" /\ ppc[w] = "done" /\ height[w] = wend[w] /\ w \in Workers
  BY <1>1, <1>3 DEF Finished, ScanInv, WorkerScan
<1>5. wstart[w] \in Nat /\ height[w] \in Nat /\ b \in Int
  BY <1>1, <1>4, TypeParts DEF WorkerTypes
<1>6. Kept(w, b, 1)
  <2>1. b \in wstart[w] .. (height[w] - 1)
    BY <1>3, <1>4, <1>5
  <2> QED
    BY <1>1, <1>3, <2>1 DEF RepairInv
<1>7. UnsavedNow(w) = {}
  BY <1>4 DEF ShapeInv, WorkerShape, InFlight, UnsavedNow
<1> QED
  BY <1>6, <1>7 DEF Kept

\* Every step keeps RepairInv.
LEMMA RepairStep ==
  ASSUME TypeOK, TypeOK', ShapeInv, RangeInv, ScanInv, RepairInv, [Next]_vars
  PROVE  RepairInv'
<1>0. setup' = setup /\ OnlySyncAccount' = OnlySyncAccount
  BY SetupStays, Frozen
<1> SUFFICES ASSUME ~OnlySyncAccount PROVE RepairInv'
  BY <1>0 DEF RepairInv
<1>a. start \in Nat /\ last \in Nat /\ start' \in Nat /\ last' \in Nat /\ SyncStart \in Nat
  BY TypeParts, SetupFacts DEF MainTypes
<1>b. stored \subseteq stored' /\ dbFails \in Nat /\ dbFails' \in Nat /\ dbFails <= dbFails'
  BY Grows, FailsGrow
<1>c. CheckWorker \in Workers
  BY WorkerSet
\* A step of a worker
<1>1. ASSUME NEW v \in Workers, Step(v) PROVE RepairInv'
  <2>1. /\ UNCHANGED <<phase, start, last>> /\ Live' = Live
        /\ wstart' = wstart
    BY <1>1, StepFrame, StepKeepsRange DEF Live, WorkerCount, BlockCount
  <2>2. ASSUME NEW w \in Workers, wpc[w] /= "idle", NEW n \in {1, 2},
               \A c \in wstart[w] .. (height[w] - 1) : Kept(w, c, n),
               \A c \in adding[w] : c \in stored \/ dbFails >= n - 1,
               NEW b \in wstart[w] .. (height'[w] - 1)
        PROVE  Kept(w, b, n)'
    <3>1. CASE v = w
      BY <1>1, <2>2, <3>1, KeptStep
    <3>2. CASE v /= w
      <4>1. Local(w)' = Local(w)
        BY <1>1, <3>2, Alone DEF Step
      <4>2. height'[w] = height[w]
        BY <1>0, <4>1, SameLocal
      <4>3. Kept(w, b, n) /\ n \in Nat
        BY <2>2, <4>2
      <4> QED
        BY <4>1, <4>3, KeptStays
    <3> QED
      BY <3>1, <3>2
  <2>3. phase = "sync" => \A w \in Live : \A b \in wstart[w] .. (height'[w] - 1) : Kept(w, b, 1)'
    <3> SUFFICES ASSUME phase = "sync", NEW w \in Live, NEW b \in wstart[w] .. (height'[w] - 1)
                 PROVE  Kept(w, b, 1)'
      OBVIOUS
    <3>1. w \in Workers /\ wpc[w] /= "idle"
      BY <1>a, TypeParts DEF RangeInv, Live, MainTypes
    <3>2. \A c \in wstart[w] .. (height[w] - 1) : Kept(w, c, 1)
      BY DEF RepairInv
    <3>3. dbFails >= 1 - 1
      BY <1>b
    <3> QED
      BY <2>2, <3>1, <3>2, <3>3
  <2>4. phase = "check" => \A b \in start .. (height'[CheckWorker] - 1) : Kept(CheckWorker, b, 2)'
    <3> DEFINE w == CheckWorker
    <3> SUFFICES ASSUME phase = "check", NEW b \in start .. (height'[w] - 1)
                 PROVE  Kept(w, b, 2)'
      OBVIOUS
    <3>1. wpc[w] /= "idle" /\ wstart[w] = start /\ wend[w] = last /\ start < last
      BY DEF RangeInv
    <3>2. \A c \in wstart[w] .. (height[w] - 1) : Kept(w, c, 2)
      BY <3>1 DEF RepairInv
    <3>3. \A c \in adding[w] : c \in stored \/ dbFails >= 2 - 1
      <4> TAKE c \in adding[w]
      <4>1. WorkerScan(w) /\ height[w] \in Nat
        BY <1>c, TypeParts DEF ScanInv, WorkerTypes
      <4>2. c \in wstart[w] .. (height[w] - 1) /\ height[w] <= wend[w]
        BY <1>a, <3>1, <4>1 DEF WorkerScan, InFlight
      <4>3. c \in start .. (last - 1)
        BY <1>a, <3>1, <4>1, <4>2
      <4>4. c \in stored \/ dbFails >= 1
        BY <4>3 DEF RepairInv
      <4> QED
        BY <1>b, <4>4
    <3> HIDE DEF w
    <3> QED
      BY <1>c, <2>2, <3>1, <3>2, <3>3 DEF w
  <2>5. phase = "check" => \A b \in start .. (last - 1) : b \in stored' \/ dbFails' >= 1
    BY <1>b DEF RepairInv
  <2>6. phase \in {"loop", "looping", "done"} =>
          \A b \in start .. (last - 1) : b \in stored' \/ dbFails' >= 2
    BY <1>b DEF RepairInv
  <2> QED
    BY <2>1, <2>3, <2>4, <2>5, <2>6 DEF RepairInv, CheckWorker
\* A step of the syncer goroutine or of the environment
<1>2. CASE Dispatch
  <2>1. PICK f \in {FirstHeight(TRUE), FirstHeight(FALSE)} :
          NothingToSync(f) \/ LeaveToLoop(f) \/ StartSync(f)
    BY <1>2 DEF Dispatch
  <2>2. CASE NothingToSync(f) \/ LeaveToLoop(f)
    <3>1. phase' \in {"loop", "done"} /\ (start' = last' \/ (start' = SyncStart /\ last' = 0))
      BY <1>2, <2>2 DEF NothingToSync, LeaveToLoop, ShapeInv, Dispatch
    <3>2. last' <= start'
      BY <1>a, <3>1
    <3>3. start' .. (last' - 1) = {}
      <4>1. start' \in Int /\ last' \in Int
        BY <1>a
      <4> QED
        BY <3>2, <4>1, EmptyRange, Zenon
    <3> QED
      BY <3>1, <3>3 DEF RepairInv
  <2>3. CASE StartSync(f)
    <3>1. /\ phase' = "sync" /\ Live' \subseteq Workers
          /\ \E s, e : StartWorkers(Live', s, e)
      BY <1>2, <2>3, StartedRange
    <3>2. \A w \in Live' : wstart'[w] = height'[w] /\ height'[w] \in Nat
      BY <1>0, <3>1, StartEffect, TypeParts DEF WorkerTypes
    <3>3. \A w \in Live' : wstart'[w] .. (height'[w] - 1) = {}
      BY <3>2
    <3> QED
      BY <3>1, <3>3 DEF RepairInv
  <2> QED
    BY <2>1, <2>2, <2>3
<1>3. CASE CheckSync
  <2>1. /\ phase = "sync" /\ Finished(active) /\ UNCHANGED <<start, last>> /\ phase' = "check"
        /\ \E s, e : StartWorkers({CheckWorker}, s, e) /\ s[CheckWorker] = start
    BY <1>3 DEF CheckSync
  <2>2. \A b \in start .. (last - 1) : b \in stored' \/ dbFails' >= 1
    <3> TAKE b \in start .. (last - 1)
    <3>1. b \in stored \/ dbFails >= 1
      BY <2>1, CaughtOnce
    <3> QED
      BY <1>b, <3>1
  <2>3. height'[CheckWorker] = start
    <3>1. {CheckWorker} \in SUBSET Workers
      BY <1>c
    <3> QED
      BY <1>0, <1>c, <2>1, <3>1, StartEffect
  <2>4. start .. (start - 1) = {}
    BY <1>a
  <2> QED
    BY <2>1, <2>2, <2>3, <2>4 DEF RepairInv, CheckWorker
<1>4. CASE CheckSyncDone
  <2> DEFINE w == CheckWorker
  <2>1. /\ phase = "check" /\ wpc[w] = "done" /\ ppc[w] = "done" /\ UNCHANGED <<start, last>>
        /\ phase' \in {"loop", "done"}
    BY <1>4 DEF CheckSyncDone, Finished, AfterSync
  <2>2. height[w] = last
    BY <1>c, <2>1 DEF RangeInv, ScanInv, WorkerScan
  <2>3. UnsavedNow(w) = {}
    BY <1>c, <2>1 DEF ShapeInv, WorkerShape, InFlight, UnsavedNow
  <2>4. \A b \in start .. (last - 1) : b \in stored \/ dbFails >= 2
    BY <2>1, <2>2, <2>3 DEF RepairInv, Kept
  <2> QED
    BY <1>b, <2>1, <2>4 DEF RepairInv
<1>5. CASE StartLoop \/ SetSynced
  <2>1. phase \in {"loop", "looping"} /\ phase' = "looping" /\ UNCHANGED <<start, last>>
    BY <1>5 DEF StartLoop, SetSynced, ShapeInv
  <2> QED
    BY <1>b, <2>1 DEF RepairInv
<1>6. CASE Boot \/ Crash
  <2>1. phase' \in {"boot", "dispatch"}
    BY <1>6 DEF Boot, Crash, Restarted
  <2> QED
    BY <2>1 DEF RepairInv
<1>7. CASE NewBlock \/ UNCHANGED vars
  <2>1. UNCHANGED <<phase, start, last, wstart, height, stored, dbFails, wrk, chan, par>>
    BY <1>7 DEF NewBlock, vars, main, wrk, db, history
  <2>2. \A w : UnsavedNow(w)' = UnsavedNow(w)
    BY <1>0, <2>1, SameVars, SameLocal
  <2>3. Live' = Live
    BY <2>1 DEF Live, WorkerCount, BlockCount
  <2> QED
    BY <1>0, <2>1, <2>2, <2>3 DEF RepairInv, Kept, CheckWorker
<1> QED
  BY <1>1, <1>2, <1>3, <1>4, <1>5, <1>6, <1>7, StepOrMain

----------------------------------------------------------------------------
\* One worker, one message, one goroutine for a block: OnceInv

\* Two workers are never both to look at a height.
LEMMA OneScanner ==
  ASSUME TypeOK, ShapeInv, RangeInv, ScanInv, NEW v \in Workers, NEW w \in Workers, NEW b \in Nat,
         Scanning(v), Ahead(v, b), Scanning(w), Ahead(w, b)
  PROVE  v = w
<1>1. v \in Live /\ w \in Live
  BY DEF ShapeInv, WorkerShape, Rests, Scanning
<1>2. CASE phase /= "sync"
  BY <1>1, <1>2 DEF Live
<1>3. CASE phase = "sync"
  <2>1. /\ start \in Nat /\ last \in Nat /\ start < last
        /\ active = 1 .. WorkerCount(start, last) /\ active = Live
    BY <1>3, TypeParts DEF MainTypes, RangeInv, Live
  <2>2. ASSUME NEW u \in active, u \in Workers, Scanning(u), Ahead(u, b)
        PROVE  wstart[u] <= b /\ b < wend[u] /\ start <= b /\ b < last
    <3>1. /\ wstart[u] = WorkerStart(start, last, u) /\ wend[u] = WorkerEnd(start, last, u)
          /\ height[u] \in Nat
      BY <1>3, <2>1, <2>2, TypeParts DEF RangeInv, WorkerTypes
    <3>2. /\ wstart[u] \in Nat /\ wend[u] \in Nat /\ start <= wstart[u] /\ wend[u] <= last
          /\ wend[u] > 0
      <4>1. StepCount(start, last) \in Nat /\ StepCount(start, last) > 0
        BY <2>1, Shares
      <4> QED
        BY <2>1, <2>2, <3>1, <4>1, Ranges
    <3>3. wstart[u] <= height[u] /\ height[u] <= b /\ b < wend[u]
      BY <2>2, <3>2 DEF ScanInv, WorkerScan, Scanning, Ahead
    <3> QED
      BY <2>1, <3>1, <3>2, <3>3
  <2>3. b \in start .. (last - 1)
    <3>1. start <= b /\ b < last
      BY <1>1, <2>1, <2>2
    <3> QED
      BY <2>1, <3>1
  <2>4. Cardinality({u \in active : wstart[u] <= b /\ b < wend[u]}) = 1
    BY <1>3, <2>3, PartitionExact DEF ExactPartition
  <2>5. v \in {u \in active : wstart[u] <= b /\ b < wend[u]}
        /\ w \in {u \in active : wstart[u] <= b /\ b < wend[u]}
    BY <1>1, <2>1, <2>2
  <2> HIDE DEF ExactPartition
  <2>6. PICK x : {u \in active : wstart[u] <= b /\ b < wend[u]} = {x}
    <3>1. IsFiniteSet(1 .. WorkerCount(start, last))
      BY <2>1, Shares, FS_Interval, 1 \in Int
    <3>2. IsFiniteSet({u \in active : wstart[u] <= b /\ b < wend[u]})
      BY <2>1, <3>1, FS_Subset
    <3> QED
      BY <2>4, <3>2, FS_Singleton
  <2> QED
    BY <2>5, <2>6
<1> QED
  BY <1>2, <1>3

\* A worker goes only forward.
LEMMA ScanMono ==
  ASSUME TypeOK, NEW w \in Workers, Step(w), NEW b \in Nat
  PROVE  Scanning(w)' /\ Ahead(w, b)' => Scanning(w) /\ Ahead(w, b)
<1>1. WorkerTypes
  BY TypeParts
<1>2. wstart' = wstart /\ wend' = wend /\ height[w] \in Nat
  BY <1>1, StepKeepsRange DEF WorkerTypes
<1>3. CASE FindBlocksInRange(w)
  <2>1. wpc[w] = "range" /\ \E upto \in Int : height' = height \/ (height[w] <= upto /\ height'[w] = upto + 1)
    BY <1>3, QueryEffect
  <2> QED
    BY <1>2, <2>1 DEF Scanning, Ahead
<1>4. CASE FetchBlock(w)
  BY <1>1, <1>2, <1>4 DEF FetchBlock, WorkerTypes, Scanning, Ahead
<1>5. CASE ~FindBlocksInRange(w) /\ ~FetchBlock(w)
  <2>1. height' = height /\ (wpc[w] \notin {"top", "range", "fetch"} => wpc'[w] = wpc[w])
    BY <1>5 DEF Step, Worker, NextRange, EndSync, EndRange, Parser, Receive, BatchDone,
       ParserDone, AddBlock, UpdateSyncInfo, ParseTransactions, wrk
  <2> QED
    BY <1>2, <2>1 DEF Scanning, Ahead
<1> QED
  BY <1>3, <1>4, <1>5

Fetches(w, b) == FetchBlock(w) /\ MustFetch(w) /\ b = height[w]

\* The message and the goroutines of a block, after a step that does not fetch it
LEMMA OneBlock ==
  ASSUME TypeOK, setup' = setup, NEW w \in Workers, Step(w), NEW b \in Blocks, ~Fetches(w, b),
         WorkerShape(w), ~OnlySyncAccount, b \in Nat
  PROVE  /\ b \in Queued(w)' => b \in Queued(w)
         /\ b \in UnparsedNow(w)' => b \in UnparsedNow(w)
         /\ b \in InFlight(w)' => b \in InFlight(w)
         /\ (\A i, j \in DOMAIN chan[w] : chan[w][i] = b /\ chan[w][j] = b => i = j)
            => (\A i, j \in DOMAIN chan'[w] : chan'[w][i] = b /\ chan'[w][j] = b => i = j)
         /\ /\ \A i, j \in DOMAIN chan[w] : chan[w][i] = b /\ chan[w][j] = b => i = j
            /\ b \in Queued(w) => b \notin parsing[w]
            => (b \in Queued(w)' => b \notin parsing[w]')
<1>0. WorkerTypes /\ ChanTypes /\ ParserTypes /\ b /= Nil
  BY TypeParts DEF Nil
<1>1. CASE chan' = chan /\ adding'[w] \subseteq adding[w] /\ parsing'[w] \subseteq parsing[w]
  <2>1. Queued(w)' = Queued(w)
    BY <1>1 DEF Queued
  <2> QED
    BY <1>1, <2>1 DEF UnparsedNow, InFlight
<1>2. ASSUME NEW m \in Blocks \cup {Nil}, m /= b, chan' = [chan EXCEPT ![w] = Append(@, m)],
             UNCHANGED <<adding, parsing>>
      PROVE  /\ b \in Queued(w)' => b \in Queued(w)
             /\ parsing'[w] = parsing[w] /\ adding'[w] = adding[w]
             /\ (\A i, j \in DOMAIN chan[w] : chan[w][i] = b /\ chan[w][j] = b => i = j)
                => (\A i, j \in DOMAIN chan'[w] : chan'[w][i] = b /\ chan'[w][j] = b => i = j)
  <2>1. /\ Queued(w)' = Queued(w) \cup ({m} \ {Nil})
        /\ Len(chan[w]) \in Nat /\ DOMAIN chan[w] = 1 .. Len(chan[w])
        /\ DOMAIN (chan[w]') = 1 .. Len(chan[w]) + 1
        /\ \A i \in 1 .. Len(chan[w]) : chan[w]'[i] = chan[w][i]
        /\ chan[w]'[Len(chan[w]) + 1] = m
    BY <1>0, <1>2, SendEffect
  <2>2. ASSUME \A i, j \in DOMAIN chan[w] : chan[w][i] = b /\ chan[w][j] = b => i = j,
               NEW i \in DOMAIN chan'[w], NEW j \in DOMAIN chan'[w],
               chan'[w][i] = b /\ chan'[w][j] = b
        PROVE  i = j
    <3>1. i \in DOMAIN chan[w] /\ j \in DOMAIN chan[w]
      BY <1>2, <2>1, <2>2
    <3> QED
      BY <2>1, <2>2, <3>1
  <2> QED
    BY <1>2, <2>1, <2>2
<1>3. CASE EndSync(w)
  <2>1. chan' = [chan EXCEPT ![w] = Append(@, Nil)] /\ UNCHANGED <<adding, parsing>>
    BY <1>3 DEF EndSync, par
  <2> QED
    BY <1>0, <1>2, <2>1 DEF UnparsedNow, InFlight
<1>4. CASE FetchBlock(w) /\ MustFetch(w)
  <2>1. /\ chan' = [chan EXCEPT ![w] = Append(@, height[w])] /\ UNCHANGED <<adding, parsing>>
        /\ height[w] \in Blocks /\ height[w] /= b
    BY <1>4, Fetched DEF FetchBlock, par, Fetches
  <2> QED
    BY <1>0, <1>2, <2>1 DEF UnparsedNow, InFlight
<1>5. CASE Receive(w)
  <2> DEFINE m == Head(chan[w])
  <2>1. /\ m \in Blocks \cup {Nil}
        /\ Queued(w) = Queued(w)' \cup ({m} \ {Nil})
        /\ Len(chan[w]) \in Nat \ {0} /\ DOMAIN chan[w] = 1 .. Len(chan[w])
        /\ DOMAIN (chan[w]') = 1 .. Len(chan[w]) - 1
        /\ \A i \in 1 .. Len(chan[w]) - 1 : chan[w]'[i] = chan[w][i + 1]
        /\ m = chan[w][1]
        /\ \/ adding'[w] = adding[w] /\ parsing'[w] = parsing[w] /\ m = Nil
           \/ /\ adding'[w] = adding[w] \cup {m} /\ parsing'[w] = parsing[w] \cup {m}
              /\ m /= Nil
    BY <1>0, <1>5, ReceiveEffect
  <2> HIDE DEF m
  <2>2. ASSUME \A i, j \in DOMAIN chan[w] : chan[w][i] = b /\ chan[w][j] = b => i = j,
               NEW i \in DOMAIN chan'[w], NEW j \in DOMAIN chan'[w],
               chan'[w][i] = b /\ chan'[w][j] = b
        PROVE  i = j
    <3>1. i + 1 \in DOMAIN chan[w] /\ j + 1 \in DOMAIN chan[w] /\ i \in Nat /\ j \in Nat
          /\ chan[w][i + 1] = b /\ chan[w][j + 1] = b
      <4> DEFINE k == Len(chan[w])
      <4>1. k \in Nat /\ i \in 1 .. k - 1 /\ j \in 1 .. k - 1 /\ DOMAIN chan[w] = 1 .. k
        BY <2>1, <2>2
      <4>2. chan[w][i + 1] = b /\ chan[w][j + 1] = b
        BY <2>1, <2>2, <4>1
      <4> HIDE DEF k
      <4> QED
        BY <4>1, <4>2
    <3>2. i + 1 = j + 1
      BY <2>2, <3>1
    <3> QED
      BY <3>1, <3>2
  <2>3. ASSUME \A i, j \in DOMAIN chan[w] : chan[w][i] = b /\ chan[w][j] = b => i = j,
               m = b, b \in Queued(w)'
        PROVE  FALSE
    <3>1. PICK i \in DOMAIN chan'[w] : chan'[w][i] = b
      BY <2>3 DEF Queued
    <3>2. i \in 1 .. Len(chan[w]) - 1 /\ i + 1 \in DOMAIN chan[w] /\ chan[w][i + 1] = b
          /\ 1 \in DOMAIN chan[w] /\ chan[w][1] = b
      BY <2>1, <2>3, <3>1
    <3>3. i + 1 = 1
      BY <2>3, <3>2
    <3> QED
      BY <3>2, <3>3
  <2>4. b \in Queued(w)' => b \in Queued(w)
    BY <2>1
  <2>5. b \in parsing'[w] => b \in parsing[w] \/ m = b
    BY <2>1
  <2>6. m = b => b \in Queued(w)
    BY <1>0, <2>1
  <2>7. b \in adding'[w] => b \in adding[w] \/ m = b
    BY <2>1
  <2> QED
    BY <2>2, <2>3, <2>4, <2>5, <2>6, <2>7 DEF UnparsedNow, InFlight
<1>6. ~EndSync(w) /\ ~(FetchBlock(w) /\ MustFetch(w)) /\ ~Receive(w)
      => chan' = chan /\ adding'[w] \subseteq adding[w] /\ parsing'[w] \subseteq parsing[w]
  BY <1>0 DEF Step, Worker, NextRange, FindBlocksInRange, FetchBlock, EndRange, Parser,
     BatchDone, ParserDone, AddBlock, UpdateSyncInfo, ParseTransactions, par, ParserTypes
<1> QED
  BY <1>1, <1>3, <1>4, <1>5, <1>6

\* What is written into the database by a step of worker w
LEMMA StepWrites ==
  ASSUME TypeOK, NEW w \in Workers, Step(w), NEW b \in Blocks
  PROVE  /\ b \in stored' => b \in stored \/ (b \in adding[w] /\ UNCHANGED wrk)
         /\ parsed'[b] = parsed[b]
            \/ (b \in parsing[w] /\ parsed'[b] = parsed[b] + 1 /\ parsing'[w] = parsing[w] \ {b}
                /\ UNCHANGED chan)
<1>1. ParserTypes /\ parsed \in [Blocks -> Nat]
  BY TypeParts DEF DBTypes
<1>2. CASE \E c \in adding[w] : AddBlock(w, c)
  BY <1>2 DEF AddBlock
<1>3. CASE \E c \in parsing[w] : ParseTransactions(w, c)
  BY <1>1, <1>3 DEF ParseTransactions, ParserTypes
<1>4. CASE /\ ~\E c \in adding[w] : AddBlock(w, c)
           /\ ~\E c \in parsing[w] : ParseTransactions(w, c)
  BY <1>4 DEF Step, Worker, NextRange, EndSync, FindBlocksInRange, FetchBlock, EndRange, Parser,
     Receive, BatchDone, ParserDone, UpdateSyncInfo, db
<1> QED
  BY <1>2, <1>3, <1>4

\* A worker's step keeps what OnceInv says of a block.
LEMMA OnceStepOf ==
  ASSUME TypeOK, TypeOK', ShapeInv, RangeInv, ScanInv, [Next]_vars, setup' = setup,
         ~Overwrite, ~OnlySyncAccount,
         NEW w \in Workers, Step(w), NEW b \in Blocks, b \notin unsaved', BlockOnce(b)
  PROVE  BlockOnce(b)'
<1>0. /\ b \in Nat /\ WorkerTypes /\ ParserTypes /\ ChanTypes /\ WorkerTypes'
      /\ stored \subseteq stored' /\ b \notin unsaved
      /\ parsed[b] \in Nat /\ parsed'[b] \in Nat
  BY TypeParts, SetupFacts, Grows DEF MainTypes, Blocks
<1>1. \A v \in Workers : v /= w =>
        /\ UNCHANGED <<wpc[v], wend[v], height[v], to[v], known[v], chan[v], parsing[v],
                       Queued(v), InFlight(v), UnparsedNow(v)>>
  BY Alone, SameLocal DEF Step
<1>2. \A v \in Workers : Scanning(v)' /\ Ahead(v, b)' => Scanning(v) /\ Ahead(v, b)
  <2> TAKE v \in Workers
  <2>1. CASE v = w
    BY <1>0, <2>1, ScanMono
  <2>2. CASE v /= w
    BY <1>1, <2>2 DEF Scanning, Ahead
  <2> QED
    BY <2>1, <2>2
<1>3. Touched(b)' => b \in stored' \cup UnsavedNowAll' \/ Fetches(w, b)
  <2> SUFFICES ASSUME Touched(b)', ~Fetches(w, b)
               PROVE  b \in stored' \cup UnsavedNowAll'
    OBVIOUS
  <2>1. Touched(b)
    <3>1. \A v \in Workers : b \in InFlight(v)' => b \in InFlight(v)
      BY <1>0, <1>1, OneBlock DEF ShapeInv
    <3>2. b \in stored' => b \in stored \/ b \in InFlight(w)
      BY StepWrites DEF InFlight
    <3>3. parsed'[b] > 0 => parsed[b] > 0 \/ b \in InFlight(w)
      BY <1>0, StepWrites DEF InFlight
    <3> QED
      BY <3>1, <3>2, <3>3 DEF Touched
  <2>2. b \in stored \cup UnsavedNowAll
    BY <2>1 DEF BlockOnce
  <2> QED
    BY <1>0, <2>2, Flow
<1>4. CASE ~Fetches(w, b)
  <2>1. Touched(b)' => Touched(b)
    <3>1. \A v \in Workers : b \in InFlight(v)' => b \in InFlight(v)
      BY <1>0, <1>1, <1>4, OneBlock DEF ShapeInv
    <3>2. b \in stored' => b \in stored \/ b \in InFlight(w)
      BY StepWrites DEF InFlight
    <3>3. parsed'[b] > 0 => parsed[b] > 0 \/ b \in InFlight(w)
      BY <1>0, StepWrites DEF InFlight
    <3> QED
      BY <3>1, <3>2, <3>3 DEF Touched
  <2>2. \A v \in Workers : b \in UnparsedNow(v)' => b \in UnparsedNow(v)
    BY <1>0, <1>1, <1>4, OneBlock DEF ShapeInv
  <2>3. \/ parsed'[b] = parsed[b]
        \/ (parsed[b] = 0 /\ parsed'[b] = 1 /\ \A v \in Workers : b \notin UnparsedNow(v)')
    <3>1. CASE parsed'[b] = parsed[b]
      BY <3>1
    <3>2. CASE /\ b \in parsing[w] /\ parsed'[b] = parsed[b] + 1
               /\ parsing'[w] = parsing[w] \ {b} /\ UNCHANGED chan
      <4>1. b \in UnparsedNow(w)
        BY <3>2 DEF UnparsedNow
      <4>2. parsed[b] = 0 /\ b \notin Queued(w)
        BY <3>2, <4>1 DEF BlockOnce, WorkerOnce
      <4>3. b \notin UnparsedNow(w)'
        BY <3>2, <4>2 DEF UnparsedNow, Queued
      <4>4. \A v \in Workers : v /= w => b \notin UnparsedNow(v)'
        BY <2>2, <4>1 DEF BlockOnce
      <4> QED
        BY <3>2, <4>2, <4>3, <4>4
    <3> QED
      BY <3>1, <3>2, StepWrites
  <2>4. parsed'[b] <= 1
    BY <1>0, <2>3 DEF BlockOnce
  <2>5. \A u, v \in Workers : b \in UnparsedNow(u)' /\ b \in UnparsedNow(v)' => u = v
    BY <2>2 DEF BlockOnce
  <2>6. ASSUME NEW v \in Workers PROVE WorkerOnce(v, b)'
    <3>1. Scanning(v)' /\ Ahead(v, b)' /\ Touched(b)' => b \in stored'
      BY <1>0, <1>2, <2>1 DEF BlockOnce, WorkerOnce
    <3>2. ASSUME wpc'[v] = "fetch", height'[v] <= b, b <= to'[v], b \in stored'
          PROVE  b \in known'[v]
      <4>1. Scanning(v)' /\ Ahead(v, b)'
        <5>1. /\ wend'[v] > 0 => rangeEnd'[v] < wend'[v]
              /\ to'[v] <= rangeEnd'[v]
          BY <3>2, ScanStep DEF ScanInv, WorkerScan
        <5>2. wend'[v] \in Nat /\ rangeEnd'[v] \in Int /\ to'[v] \in Int
          BY <1>0 DEF WorkerTypes
        <5> QED
          BY <1>0, <3>2, <5>1, <5>2 DEF Scanning, Ahead
      <4>2. b \in stored
        <5>1. b \in adding[w] => Touched(b)
          BY DEF Touched, InFlight
        <5> QED
          BY <1>2, <3>2, <4>1, <5>1, StepWrites DEF BlockOnce, WorkerOnce
      <4>3. CASE v /= w
        BY <1>1, <3>2, <4>2, <4>3 DEF BlockOnce, WorkerOnce
      <4>4. CASE v = w /\ FindBlocksInRange(w)
        <5>1. PICK upto \in Int :
                /\ wpc[w] = "range"
                /\ \/ wpc'[w] = "top"
                   \/ wpc' = wpc
                   \/ /\ to'[w] = upto
                      /\ known'[w] = stored \cap (height[w] .. upto) /\ UNCHANGED height
          BY <4>4, QueryEffect
        <5>2. height[w] \in Nat
          BY <1>0 DEF WorkerTypes
        <5> QED
          BY <1>0, <3>2, <4>2, <4>4, <5>1, <5>2
      <4>5. CASE v = w /\ ~FindBlocksInRange(w)
        <5>1. wpc[w] = "fetch" /\ to'[w] = to[w] /\ known'[w] = known[w] /\ height[w] <= height'[w]
          BY <1>0, <3>2, <4>5, SMTT(30)
             DEF Step, Worker, NextRange, EndSync, FetchBlock, EndRange, Parser,
             Receive, BatchDone, ParserDone, AddBlock, UpdateSyncInfo, ParseTransactions, wrk,
             WorkerTypes
        <5>2. height[w] \in Nat /\ height'[w] \in Nat /\ to[w] \in Int
          BY <1>0 DEF WorkerTypes
        <5>3. height[w] <= b /\ b <= to[w]
          BY <1>0, <3>2, <4>5, <5>1, <5>2
        <5> QED
          BY <4>2, <4>5, <5>1, <5>3 DEF BlockOnce, WorkerOnce
      <4> QED
        BY <4>3, <4>4, <4>5
    <3>3. b \in UnparsedNow(v)' => parsed'[b] = 0
      BY <2>2, <2>3 DEF BlockOnce, WorkerOnce
    <3>4. /\ \A i, j \in DOMAIN chan'[v] : chan'[v][i] = b /\ chan'[v][j] = b => i = j
          /\ b \in Queued(v)' => b \notin parsing'[v]
      <4>1. CASE v = w
        BY <1>0, <1>4, <4>1, OneBlock DEF BlockOnce, WorkerOnce, ShapeInv
      <4>2. CASE v /= w
        BY <1>1, <4>2 DEF BlockOnce, WorkerOnce
      <4> QED
        BY <4>1, <4>2
    <3> QED
      BY <3>1, <3>2, <3>3, <3>4 DEF WorkerOnce
  <2> QED
    BY <1>3, <1>4, <2>4, <2>5, <2>6 DEF BlockOnce
<1>5. CASE Fetches(w, b)
  <2>1. /\ wpc[w] = "fetch" /\ height[w] = b /\ b <= to[w] /\ height'[w] = b + 1
        /\ chan' = [chan EXCEPT ![w] = Append(@, b)] /\ b \notin known[w]
        /\ UNCHANGED <<stored, parsed, wpc, to, known, adding, parsing>>
    BY <1>0, <1>5 DEF Fetches, FetchBlock, MustFetch, db, par, WorkerTypes
  <2>2. Scanning(w) /\ Ahead(w, b)
    <3>1. /\ wend[w] > 0 => rangeEnd[w] < wend[w]
          /\ to[w] <= rangeEnd[w]
      BY <2>1 DEF ScanInv, WorkerScan
    <3>2. wend[w] \in Nat /\ rangeEnd[w] \in Int /\ to[w] \in Int
      BY <1>0 DEF WorkerTypes
    <3> QED
      BY <1>0, <2>1, <3>1, <3>2 DEF Scanning, Ahead
  <2>3. b \notin stored
    BY <1>0, <2>1 DEF BlockOnce, WorkerOnce
  <2>4. ~Touched(b)
    BY <2>2, <2>3 DEF BlockOnce, WorkerOnce
  <2>5. parsed[b] = 0 /\ \A v \in Workers : b \notin InFlight(v)
    BY <1>0, <2>4 DEF Touched
  <2>6. /\ Queued(w)' = Queued(w) \cup {b}
        /\ Len(chan[w]) \in Nat /\ DOMAIN chan[w] = 1 .. Len(chan[w])
        /\ DOMAIN (chan[w]') = 1 .. Len(chan[w]) + 1
        /\ \A i \in 1 .. Len(chan[w]) : chan[w]'[i] = chan[w][i]
    <3>1. b /= Nil
      BY <1>0 DEF Nil
    <3> QED
      BY <1>0, <2>1, <3>1, SendEffect, ZenonT(30)
  <2>7. b \in UnsavedNow(w)' /\ b \in UnsavedNowAll'
    BY <2>6, Frozen DEF UnsavedNow, UnsavedNowAll
  <2>8. \A v \in Workers : v /= w => b \notin UnparsedNow(v)'
    BY <1>1, <2>5 DEF UnparsedNow, InFlight
  <2>9. \A i \in DOMAIN chan[w] : chan[w][i] /= b
    BY <1>0, <2>5 DEF InFlight, Queued, Nil
  <2>10. \A i, j \in DOMAIN chan'[w] : chan'[w][i] = b /\ chan'[w][j] = b => i = j
    <3> TAKE i, j \in DOMAIN chan'[w]
    <3> HAVE chan'[w][i] = b /\ chan'[w][j] = b
    <3>1. i \notin 1 .. Len(chan[w]) /\ j \notin 1 .. Len(chan[w])
      BY <2>6, <2>9
    <3> QED
      BY <2>6, <3>1
  <2>11. ASSUME NEW v \in Workers PROVE WorkerOnce(v, b)'
    <3>1. CASE v = w
      <4>1. ~Ahead(w, b)'
        BY <1>0, <2>1 DEF Ahead
      <4>2. b \notin parsing'[w]
        BY <2>1, <2>5 DEF InFlight
      <4>3. ~(height'[w] <= b)
        BY <1>0, <2>1
      <4> QED
        BY <2>1, <2>5, <2>10, <3>1, <4>1, <4>2, <4>3 DEF WorkerOnce
    <3>2. CASE v /= w
      <4>1. ~(Scanning(v)' /\ Ahead(v, b)')
        BY <1>0, <1>2, <2>2, <3>2, OneScanner
      <4>2. b \notin stored' /\ b \notin UnparsedNow(v)' /\ b \notin Queued(v)'
        BY <2>1, <2>3, <2>8, <3>2 DEF UnparsedNow
      <4>3. chan'[v] = chan[v]
        BY <1>1, <3>2
      <4> QED
        BY <4>1, <4>2, <4>3 DEF BlockOnce, WorkerOnce
    <3> QED
      BY <3>1, <3>2
  <2>12. parsed'[b] <= 1
    BY <2>1, <2>5
  <2>13. \A u, v \in Workers : b \in UnparsedNow(u)' /\ b \in UnparsedNow(v)' => u = v
    BY <2>8
  <2> QED
    BY <2>7, <2>11, <2>12, <2>13 DEF BlockOnce
<1> QED
  BY <1>4, <1>5

\* The syncer starts workers only when those before them have finished.
LEMMA StartedAtRest ==
  ASSUME TypeOK, ShapeInv, RangeInv, [Next]_vars
  PROVE  \/ UNCHANGED <<wrk, chan, par, stored, parsed, unsaved>>
         \/ /\ \A w \in Workers : Rests(w)
            /\ UNCHANGED <<stored, parsed, unsaved>>
            /\ \E ws \in SUBSET Workers : \E s, e : StartWorkers(ws, s, e)
         \/ Crash
         \/ \E w \in Workers : Step(w)
<1>1. CASE Boot \/ CheckSyncDone \/ SetSynced \/ NewBlock \/ UNCHANGED vars
  BY <1>1 DEF Boot, CheckSyncDone, SetSynced, NewBlock, vars, db, history
<1>2. CASE Dispatch
  <2>1. UNCHANGED <<stored, parsed, unsaved>> /\ \A w \in Workers : Rests(w)
    BY <1>2 DEF Dispatch, db, ShapeInv, WorkerShape, Live
  <2>2. PICK f \in {FirstHeight(TRUE), FirstHeight(FALSE)} :
          NothingToSync(f) \/ LeaveToLoop(f) \/ StartSync(f)
    BY <1>2 DEF Dispatch
  <2>3. CASE NothingToSync(f) \/ LeaveToLoop(f)
    BY <2>1, <2>3 DEF NothingToSync, LeaveToLoop
  <2>4. CASE StartSync(f)
    BY <1>2, <2>1, <2>4, StartedRange
  <2> QED
    BY <2>2, <2>3, <2>4
<1>3. CASE CheckSync
  <2>1. UNCHANGED <<stored, parsed, unsaved>> /\ phase = "sync" /\ Finished(active) /\ active = Live
    BY <1>3 DEF CheckSync, db, history, RangeInv, Live
  <2>2. \A w \in Workers : Rests(w)
    BY <2>1 DEF ShapeInv, WorkerShape, Finished, Rests
  <2>3. \/ UNCHANGED <<wrk, chan, par>>
        \/ \E s, e : StartWorkers({CheckWorker}, s, e)
    BY <1>3 DEF CheckSync
  <2>4. {CheckWorker} \in SUBSET Workers
    BY WorkerSet
  <2> QED
    BY <2>1, <2>2, <2>3, <2>4
<1>4. CASE StartLoop
  <2>1. UNCHANGED <<stored, parsed, unsaved>> /\ \A w \in Workers : Rests(w)
    BY <1>4 DEF StartLoop, db, history, ShapeInv, WorkerShape, Live
  <2>2. \E s, e : StartWorkers({LoopWorker}, s, e)
    BY <1>4 DEF StartLoop
  <2>3. {LoopWorker} \in SUBSET Workers
    BY WorkerSet
  <2> QED
    BY <2>1, <2>2, <2>3
<1> QED
  BY <1>1, <1>2, <1>3, <1>4, StepOrMain

\* Every step keeps OnceInv.
LEMMA OnceStep ==
  ASSUME TypeOK, TypeOK', ShapeInv, ShapeInv', RangeInv, ScanInv, OnceInv, [Next]_vars
  PROVE  OnceInv'
<1>0. setup' = setup /\ Blocks' = Blocks /\ Overwrite' = Overwrite
      /\ OnlySyncAccount' = OnlySyncAccount /\ unsaved \subseteq unsaved'
  BY SetupStays, Frozen, Grows
<1> SUFFICES ASSUME ~Overwrite, ~OnlySyncAccount, NEW b \in Blocks, b \notin unsaved'
             PROVE  BlockOnce(b)'
  BY <1>0 DEF OnceInv
<1>a. BlockOnce(b) /\ b \notin unsaved
  BY <1>0 DEF OnceInv
<1>1. CASE UNCHANGED <<wrk, chan, par, stored, parsed, unsaved>>
  <2>1. /\ UNCHANGED <<wpc, wend, height, to, known, chan, parsing, stored, parsed>>
        /\ \A w \in Workers : UNCHANGED <<Queued(w), InFlight(w), UnsavedNow(w), UnparsedNow(w)>>
    BY <1>0, <1>1, SameVars, SameLocal DEF wrk, par
  <2>2. UnsavedNowAll' = UnsavedNowAll
    BY <2>1, Zenon DEF UnsavedNowAll
  <2>3. Touched(b)' <=> Touched(b)
    BY <2>1 DEF Touched
  <2>4. \A w \in Workers : WorkerOnce(w, b)'
    BY <1>a, <2>1, <2>3 DEF BlockOnce, WorkerOnce, Scanning, Ahead
  <2> QED
    BY <1>a, <2>1, <2>2, <2>3, <2>4 DEF BlockOnce
<1>2. CASE /\ \A w \in Workers : Rests(w)
           /\ UNCHANGED <<stored, parsed, unsaved>>
           /\ \E ws \in SUBSET Workers : \E s, e : StartWorkers(ws, s, e)
  <2>1. PICK ws \in SUBSET Workers : \E s, e : StartWorkers(ws, s, e)
    BY <1>2
  <2>2. PICK s, e : StartWorkers(ws, s, e)
    BY <2>1
  <2>3. \A w \in Workers : /\ InFlight(w) = {} /\ chan[w] = <<>>
                           /\ InFlight(w)' = InFlight(w) /\ chan'[w] = chan[w]
                           /\ wpc'[w] /= "fetch"
    <3> TAKE w \in Workers
    <3>1. InFlight(w) = {} /\ chan[w] = <<>> /\ wpc[w] /= "fetch"
      BY <1>2 DEF ShapeInv, WorkerShape, Rests
    <3>2. InFlight(w)' = InFlight(w) /\ chan'[w] = chan[w]
      BY <1>0, <2>2, StartEffect
    <3>3. wpc'[w] = "top" \/ wpc'[w] = wpc[w]
      BY <2>2 DEF StartWorkers
    <3> QED
      BY <3>1, <3>2, <3>3
  <2>4. UnsavedNowAll = {}
    BY <1>2, AtRest
  <2>5. Touched(b)' => b \in stored'
    BY <1>2, <1>a, <2>3, <2>4 DEF Touched, BlockOnce
  <2>6. \A w \in Workers : b \notin UnparsedNow(w)' /\ b \notin Queued(w)'
    BY <2>3 DEF UnparsedNow, InFlight
  <2>7. \A w \in Workers : WorkerOnce(w, b)'
    BY <2>3, <2>5, <2>6 DEF WorkerOnce
  <2> QED
    BY <1>2, <1>a, <2>5, <2>6, <2>7 DEF BlockOnce
<1>3. CASE Crash
  <2>1. /\ wpc' = Each("idle") /\ chan' = Each(<<>>) /\ adding' = Each({}) /\ parsing' = Each({})
        /\ unsaved' = unsaved \cup UnsavedNowAll /\ UNCHANGED <<stored, parsed>>
    BY <1>3 DEF Crash, Restarted, db, UnsavedNowAll
  <2>2. \A w \in Workers : InFlight(w)' = {} /\ chan'[w] = <<>> /\ wpc'[w] = "idle"
    BY <2>1 DEF InFlight, Queued, Each
  <2>3. Touched(b)' => b \in stored'
    BY <1>a, <2>1, <2>2 DEF Touched, BlockOnce
  <2>4. \A w \in Workers : b \notin UnparsedNow(w)' /\ b \notin Queued(w)'
    BY <2>2 DEF UnparsedNow, InFlight
  <2>5. \A w \in Workers : WorkerOnce(w, b)'
    BY <2>2, <2>3, <2>4 DEF WorkerOnce
  <2> QED
    BY <1>a, <2>1, <2>3, <2>4, <2>5 DEF BlockOnce
<1>4. ASSUME NEW w \in Workers, Step(w) PROVE BlockOnce(b)'
  BY <1>0, <1>4, <1>a, OnceStepOf
<1> QED
  BY <1>1, <1>2, <1>3, <1>4, StartedAtRest

----------------------------------------------------------------------------
\* Where a restart begins: StartInv

\* Only initConfig and the loop worker's parser set the sync info.
LEMMA SyncInfoSteps ==
  ASSUME [Next]_vars
  PROVE  \/ syncInfo' = syncInfo
         \/ Boot /\ SyncStart /= 0 /\ SyncEnd = 0 /\ syncInfo' = SyncStart
         \/ \E w \in Workers : \E m \in marking[w] : UpdateSyncInfo(w, m) /\ syncInfo' = m
BY DEF Next, vars, Syncer, Boot, Dispatch, CheckSync, CheckSyncDone, StartLoop, SetSynced,
       Worker, NextRange, EndSync, FindBlocksInRange, FetchBlock, EndRange,
       Parser, Receive, BatchDone, ParserDone, AddBlock, UpdateSyncInfo, ParseTransactions,
       NewBlock, Crash, db

\* What the parser of the loop worker writes to the sync info: a block that lies deep
\* enough, behind the heights that were fetched.
LEMMA Marked ==
  ASSUME TypeOK, ShapeInv, RangeInv, ScanInv, DepthInv, NEW w \in Workers, NEW m \in marking[w]
  PROVE  /\ w = LoopWorker /\ phase = "looping" /\ SyncEnd = 0 /\ wpc[w] /= "idle"
         /\ m \in Nat /\ last <= m /\ m < height[w]
         /\ m + Stable <= head
<1>1. w = LoopWorker /\ phase = "looping" /\ SyncEnd = 0
  BY DEF ShapeInv, WorkerShape
<1>2. wpc[w] /= "idle" /\ wstart[w] = last
  BY <1>1 DEF RangeInv
<1>3. m \in wstart[w] .. (height[w] - 1) /\ height[w] \in Nat /\ last \in Nat
  BY TypeParts DEF ScanInv, WorkerScan, WorkerTypes, MainTypes
<1>4. m + Stable <= head
  BY <1>1 DEF DepthInv, WorkerDepth
<1> QED
  BY <1>1, <1>2, <1>3, <1>4

\* A dispatch begins at one of the heights in Starts.
LEMMA FirstIsStart ==
  FirstHeight(TRUE) \in Starts /\ FirstHeight(FALSE) \in Starts
BY DEF FirstHeight, Starts

\* Heights are natural numbers.
LEMMA OriginFacts ==
  ASSUME TypeOK
  PROVE  /\ Origin \in Nat /\ Origin > 0 /\ SyncStart \in Nat /\ SyncEnd \in Nat /\ syncInfo \in Nat
         /\ head \in Nat /\ start \in Nat /\ last \in Nat
         /\ LastHeight \in Nat /\ Starts \subseteq Nat
BY TypeParts, SetupFacts, Constants, HeadTypes DEF MainTypes, DBTypes, Origin, LastHeight, Starts

\* No dispatch begins before the first height.
LEMMA StartsBehindOrigin ==
  ASSUME TypeOK, StartInv, SyncEnd = 0, NEW f \in Starts
  PROVE  Origin <= f
<1>1. syncInfo = 0 \/ Origin <= syncInfo
  BY DEF StartInv
<1> QED
  BY <1>1, OriginFacts DEF Starts, Origin

\* The start and the end of the catch-up range change only in dipatchWork and at a crash.
LEMMA RangeKept ==
  ASSUME [Next]_vars
  PROVE  \/ Dispatch \/ Crash
         \/ UNCHANGED <<start, last>>
BY StepOrMain, StepFrame DEF Boot, CheckSync, CheckSyncDone, StartLoop, SetSynced, AfterSync,
   NewBlock, vars, main

\* Every step keeps StartInv.
LEMMA StartStep ==
  ASSUME TypeOK, TypeOK', ShapeInv, RangeInv, ScanInv, DepthInv, StartInv, [Next]_vars
  PROVE  StartInv'
<1>0. /\ setup' = setup /\ SyncStart' = SyncStart /\ SyncEnd' = SyncEnd /\ Origin' = Origin
      /\ head' \in Nat /\ head <= head'
  BY SetupStays, Frozen, Grows
<1>a. /\ Origin \in Nat /\ Origin > 0 /\ SyncStart \in Nat /\ SyncEnd \in Nat /\ syncInfo \in Nat
      /\ head \in Nat /\ start \in Nat /\ last \in Nat /\ Stable \in Nat /\ LastHeight \in Nat
      /\ SyncStart /= 0 => Origin = SyncStart
  BY OriginFacts, Constants DEF Origin
<1>1. SyncEnd /= 0 => syncInfo' = 0
  BY SyncInfoSteps, Marked DEF StartInv
<1> SUFFICES ASSUME SyncEnd = 0
             PROVE  /\ syncInfo' = 0 \/ Origin <= syncInfo'
                    /\ SyncStart = 0 /\ syncInfo' /= 0 => Stable < head'
                    /\ phase' = "sync" => start' \in Starts'
                    /\ phase' = "sync" /\ SyncStart = 0 /\ syncInfo' /= 0 => last' + Stable <= head'
                    /\ phase' \notin {"boot", "dispatch"} => Origin <= start' /\ start' <= last'
  BY <1>0, <1>1 DEF StartInv
<1>2. \/ syncInfo' = syncInfo
      \/ phase = "boot" /\ SyncStart /= 0 /\ syncInfo' = SyncStart
      \/ /\ \E m \in Nat : syncInfo' = m /\ last <= m /\ m + Stable <= head
         /\ phase = "looping"
  BY SyncInfoSteps, Marked DEF Boot
<1>3. syncInfo' = 0 \/ Origin <= syncInfo'
  BY <1>2, <1>a DEF StartInv
<1>4. SyncStart = 0 /\ syncInfo' /= 0 => Stable < head'
  BY <1>0, <1>2, <1>a DEF StartInv
<1>5. CASE Dispatch
  <2>1. PICK f \in {FirstHeight(TRUE), FirstHeight(FALSE)} :
          NothingToSync(f) \/ LeaveToLoop(f) \/ StartSync(f)
    BY <1>5 DEF Dispatch
  <2>2. f \in Starts /\ f \in Nat /\ Origin <= f
    BY <2>1, FirstIsStart, OriginFacts, StartsBehindOrigin
  <2>3. syncInfo' = syncInfo /\ Starts' = Starts /\ head' = head
    BY <1>0, <1>5 DEF Dispatch, db, Starts
  <2>4. CASE LeaveToLoop(f)
    BY <1>3, <1>4, <2>2, <2>4 DEF LeaveToLoop
  <2>5. CASE StartSync(f)
    <3>1. start' = f /\ last' = LastHeight /\ f < LastHeight
      BY <1>5, <2>5, StartedRange
    <3>2. SyncStart = 0 /\ syncInfo' /= 0 => last' + Stable <= head'
      BY <1>a, <2>3, <3>1 DEF StartInv, LastHeight
    <3> QED
      BY <1>3, <1>4, <1>a, <2>2, <2>3, <3>1, <3>2
  <2> QED
    BY <2>1, <2>4, <2>5 DEF NothingToSync
<1>6. CASE Crash
  <2>1. phase' = "boot"
    BY <1>6 DEF Crash, Restarted
  <2> QED
    BY <1>3, <1>4, <2>1
<1>7. CASE ~Dispatch /\ ~Crash
  <2>1. UNCHANGED <<start, last>>
    BY <1>7, RangeKept
  <2>2. phase' \notin {"boot", "dispatch"} => phase \notin {"boot", "dispatch"}
    BY <1>7, StepOrMain, StepFrame DEF Boot, CheckSync, CheckSyncDone, StartLoop, SetSynced,
       NewBlock, vars, main
  <2>3. phase' = "sync" => phase = "sync"
    BY <1>7, StepOrMain, StepFrame DEF Boot, CheckSync, CheckSyncDone, StartLoop, SetSynced,
       NewBlock, vars, main, AfterSync
  <2>4. phase = "sync" => syncInfo' = syncInfo /\ Starts' = Starts
    BY <1>0, <1>2 DEF Starts
  <2> QED
    BY <1>0, <1>3, <1>4, <1>a, <2>1, <2>2, <2>3, <2>4 DEF StartInv
<1> QED
  BY <1>5, <1>6, <1>7

----------------------------------------------------------------------------
\* What lies before a block that is stored: ResumeInv

\* A block that lies deep enough is no higher than the last height of a dispatch.
LEMMA DeepBelowLast ==
  ASSUME TypeOK, SyncEnd = 0, NEW b \in Nat, b + Stable <= head
  PROVE  b <= LastHeight
BY OriginFacts, Constants DEF LastHeight

\* The worker that holds blocks is at work; its heights end with the range of the phase.
LEMMA Holder ==
  ASSUME TypeOK, ShapeInv, RangeInv, ScanInv, NEW w \in Workers, NEW b \in InFlight(w)
  PROVE  /\ w \in Live /\ wpc[w] /= "idle" /\ wstart[w] \in Nat /\ height[w] \in Nat /\ b \in Nat
         /\ wstart[w] <= b /\ b < height[w]
         /\ phase \in {"sync", "check"} => b < last
         /\ phase \in {"sync", "check", "looping"}
<1>1. w \in Live /\ wpc[w] /= "idle"
  BY DEF ShapeInv, WorkerShape, Rests
<1>2. b \in wstart[w] .. (height[w] - 1) /\ wstart[w] \in Nat /\ height[w] \in Nat /\ wend[w] \in Nat
  BY TypeParts DEF ScanInv, WorkerScan, WorkerTypes
<1>3. phase \in {"sync", "check", "looping"}
  BY <1>1 DEF Live
<1>a. start \in Nat /\ last \in Nat
  BY OriginFacts
<1>4. CASE phase = "sync"
  <2>1. w \in 1 .. WorkerCount(start, last) /\ wend[w] = WorkerEnd(start, last, w) /\ start < last
    BY <1>1, <1>4 DEF Live, RangeInv
  <2>2. wend[w] <= last /\ wend[w] > 0
    <3>1. /\ WorkerStart(start, last, w) \in Nat /\ WorkerEnd(start, last, w) \in Nat
          /\ WorkerStart(start, last, w) + StepCount(start, last) <= WorkerEnd(start, last, w)
          /\ WorkerEnd(start, last, w) <= last
      BY <1>a, <2>1, Ranges
    <3>2. StepCount(start, last) \in Nat /\ StepCount(start, last) > 0
      BY <1>a, <2>1, Shares
    <3> QED
      BY <2>1, <3>1, <3>2
  <2>3. height[w] <= wend[w]
    BY <1>1, <2>2 DEF ScanInv, WorkerScan
  <2> QED
    BY <1>1, <1>2, <1>3, <1>a, <2>2, <2>3
<1>5. CASE phase = "check"
  <2>1. w = CheckWorker /\ wend[w] = last /\ start < last
    BY <1>1, <1>5 DEF Live, RangeInv
  <2>2. height[w] <= wend[w]
    BY <1>1, <1>a, <2>1 DEF ScanInv, WorkerScan
  <2> QED
    BY <1>1, <1>2, <1>3, <1>a, <2>1, <2>2
<1> QED
  BY <1>1, <1>2, <1>3, <1>4, <1>5

\* From the check on, a height that lies below what the worker has seen is safe.
LEMMA BelowIsSafe ==
  ASSUME TypeOK, RangeInv, SafeInv, phase \in {"check", "looping"},
         NEW w \in Live, w \in Workers, wpc[w] /= "idle",
         NEW c \in Nat, Origin <= c, c < height[w]
  PROVE  Begun(c)
<1>1. height[w] \in Nat /\ start \in Nat /\ last \in Nat /\ Origin \in Nat
  BY TypeParts, OriginFacts DEF WorkerTypes
<1>2. wstart[w] = IF phase = "check" THEN start ELSE last
  BY DEF RangeInv, Live
<1>3. CASE c < start
  <2>1. c \in Origin .. (start - 1)
    BY <1>1, <1>3
  <2> QED
    BY <2>1 DEF SafeInv, Safe
<1>4. CASE start <= c /\ c < last
  <2>1. c \in start .. (last - 1)
    BY <1>1, <1>4
  <2> QED
    BY <2>1 DEF SafeInv, Parsed, Begun
<1>5. CASE wstart[w] <= c
  <2>1. c \in wstart[w] .. (height[w] - 1)
    BY <1>1, <1>2, <1>5
  <2> QED
    BY <2>1 DEF SafeInv, Safe
<1> QED
  BY <1>1, <1>2, <1>3, <1>4, <1>5

\* In the catch-up a block that a dispatch would leave to the loop worker has been
\* preceded by all the heights that the dispatch would begin with.
LEMMA CatchUpOrder ==
  ASSUME TypeOK, ShapeInv, RangeInv, ScanInv, SafeInv, DepthInv, StartInv,
         SyncEnd = 0, phase = "sync",
         NEW w \in Workers, NEW b \in InFlight(w), NEW f \in Starts,
         f + MinWorkBlocks > LastHeight, NEW c \in f .. b
  PROVE  Begun(c)
<1>a. /\ start \in Nat /\ last \in Nat /\ start < last /\ f \in Nat /\ b \in Nat /\ c \in Nat
      /\ MinWorkBlocks \in Nat /\ Stable \in Nat /\ head \in Nat /\ LastHeight \in Nat
      /\ w \in 1 .. WorkerCount(start, last)
      /\ wstart[w] = WorkerStart(start, last, w) /\ wend[w] = WorkerEnd(start, last, w)
      /\ MinWorkBlocks <= last - start
  BY OriginFacts, Constants, Holder DEF RangeInv, Live
<1>b. wpc[w] /= "idle" /\ wstart[w] \in Nat /\ height[w] \in Nat /\ wstart[w] <= b /\ b < height[w]
      /\ b < last
  BY Holder
<1> DEFINE t == StepCount(start, last)
           n == WorkerCount(start, last)
<1>c. t \in Nat /\ MinWorkBlocks <= t /\ n \in Nat /\ n * t <= last - start
  BY <1>a, Shares, Constants
<1>d. /\ wend[w] \in Nat /\ wstart[w] + t <= wend[w] /\ wend[w] <= last
  BY <1>a, Ranges
<1>e. height[w] <= wend[w]
  BY <1>b, <1>d, <1>a, <1>c, Constants DEF ScanInv, WorkerScan
<1>1. w = 1 \/ start + t <= wstart[w]
  <2>1. wstart[w] = start + (w - 1) * t
    BY <1>a DEF WorkerStart
  <2>2. ASSUME w /= 1 PROVE 1 * t <= (w - 1) * t
    BY <1>a, <1>c, <2>2, Constants, ProductMono, 1 \in Nat, w - 1 \in Nat, 1 <= w - 1
  <2>3. (w - 1) * t \in Nat
    BY <1>a, <1>c, Constants, Product, w - 1 \in Nat
  <2> HIDE DEF t, n
  <2> QED
    BY <1>a, <1>c, <2>1, <2>2, <2>3
<1>2. w = n \/ wend[w] + t <= last
  <2> SUFFICES ASSUME w /= n PROVE wend[w] + t <= last
    OBVIOUS
  <2>1. wend[w] = start + w * t
    BY <1>a DEF WorkerEnd
  <2>2. (w + 1) * t <= n * t
    BY <1>a, <1>c, ProductMono, w + 1 \in Nat, w + 1 <= n
  <2>3. w * t \in Nat /\ n * t \in Nat /\ (w + 1) * t = w * t + t
    BY <1>a, <1>c, Product, w \in Nat, Z3
  <2> HIDE DEF t, n
  <2> QED
    BY <1>a, <1>c, <2>1, <2>2, <2>3
<1> HIDE DEF t, n
<1>3. b <= LastHeight
  <2>1. b + Stable <= head
    BY DEF DepthInv, WorkerDepth
  <2> QED
    BY <1>a, <2>1, DeepBelowLast
<1>4. wstart[w] <= c
  <2>1. CASE f = start
    <3>1. w = 1
      BY <1>1, <1>3, <1>a, <1>b, <1>c, <2>1
    <3>2. wstart[w] = start
      <4>1. wstart[w] = start + 0 * StepCount(start, last)
        BY <1>a, <3>1 DEF WorkerStart
      <4> QED
        BY <1>a, <1>c, <4>1 DEF t
    <3> QED
      BY <1>a, <2>1, <3>2
  <2>2. CASE f /= start
    <3>1. SyncStart = 0 /\ syncInfo /= 0
      BY <2>2 DEF StartInv, Starts
    <3>2. last + Stable <= head
      BY <3>1 DEF StartInv
    <3>3. last <= LastHeight
      BY <1>a, <3>2, DeepBelowLast
    <3>4. last < f + MinWorkBlocks
      BY <1>a, <3>3
    <3>5. w = n
      BY <1>2, <1>a, <1>b, <1>c, <1>d, <1>e, <3>4
    <3>6. wend[w] = last
      BY <1>a, <3>5 DEF WorkerEnd, n
    <3> QED
      BY <1>a, <1>b, <1>c, <1>d, <3>4, <3>6
  <2> QED
    BY <2>1, <2>2
<1>5. c \in wstart[w] .. (height[w] - 1)
  BY <1>4, <1>a, <1>b
<1> QED
  BY <1>5, <1>b DEF SafeInv, Safe

\* A worker never goes back.
LEMMA HeightGrows ==
  ASSUME TypeOK, NEW w \in Workers, Step(w), NEW v \in Workers
  PROVE  height[v] \in Nat /\ height[v] <= height'[v]
<1>1. WorkerTypes /\ height[v] \in Nat /\ height[w] \in Nat
  BY TypeParts DEF WorkerTypes
<1>2. CASE FindBlocksInRange(w)
  <2>1. \E upto \in Int : height' = height \/ (height[w] <= upto /\ height'[w] = upto + 1)
    BY <1>2, QueryEffect
  <2>2. v /= w => height'[v] = height[v]
    BY Alone, SameLocal, SetupStays, StepFrame DEF Step
  <2> QED
    BY <1>1, <2>1, <2>2
<1>3. CASE FetchBlock(w)
  BY <1>1, <1>3 DEF FetchBlock, WorkerTypes
<1>4. CASE ~FindBlocksInRange(w) /\ ~FetchBlock(w)
  <2>1. height' = height
    BY <1>4 DEF Step, Worker, NextRange, EndSync, EndRange, Parser, Receive, BatchDone,
       ParserDone, AddBlock, UpdateSyncInfo, ParseTransactions, wrk
  <2> QED
    BY <1>1, <2>1
<1> QED
  BY <1>2, <1>3, <1>4

\* A block enters the database by an AddBlock of the parser that holds it.
LEMMA NewlyStored ==
  ASSUME TypeOK, [Next]_vars, NEW b \in stored', b \notin stored
  PROVE  \E w \in Workers : /\ Step(w) /\ b \in InFlight(w)
                            /\ UNCHANGED <<syncInfo, wrk, parsed, unparsed>>
<1>1. \E w \in Workers : \E c \in adding[w] : AddBlock(w, c) /\ stored' = stored \cup {c}
  BY DEF Next, vars, Syncer, Boot, Dispatch, CheckSync, CheckSyncDone, StartLoop, SetSynced,
       Worker, NextRange, EndSync, FindBlocksInRange, FetchBlock, EndRange,
       Parser, Receive, BatchDone, ParserDone, AddBlock, UpdateSyncInfo, ParseTransactions,
       NewBlock, Crash, db
<1>2. PICK w \in Workers : \E c \in adding[w] : AddBlock(w, c) /\ stored' = stored \cup {c}
  BY <1>1
<1>3. b \in adding[w] /\ AddBlock(w, b)
  BY <1>2
<1> QED
  BY <1>3 DEF Step, InFlight, AddBlock

\* When nothing is in flight, what was begun is parsed.
LEMMA BegunAtRest ==
  ASSUME ShapeInv, \A w \in Workers : Rests(w), NEW b, Begun(b)
  PROVE  Parsed(b)
BY AtRest DEF Begun, Parsed

\* What a dispatch finds: everything before its start is parsed, and no stored block
\* lies behind a gap.
LEMMA DispatchResumes ==
  ASSUME TypeOK, ShapeInv, RangeInv, SafeInv, DepthInv, ResumeInv, SyncEnd = 0, Dispatch
  PROVE  /\ \A b \in Origin .. (start' - 1) : Parsed(b)
         /\ \A b \in stored : \A c \in last' .. b : Parsed(c)
<1>1. PICK f \in {FirstHeight(TRUE), FirstHeight(FALSE)} :
        NothingToSync(f) \/ LeaveToLoop(f) \/ StartSync(f)
  BY DEF Dispatch
<1>2. \A w \in Workers : Rests(w)
  BY DEF Dispatch, ShapeInv, WorkerShape, Live
<1>3. start' = f /\ f \in Starts /\ f \in Nat
  BY <1>1, FirstHeights, FirstIsStart DEF NothingToSync, LeaveToLoop, StartSync
<1>4. \A b \in Origin .. (f - 1) : Parsed(b)
  BY <1>2, FirstHeights, BegunAtRest DEF Safe
<1>5. \A b \in stored : b \in Nat /\ b <= LastHeight
  <2> TAKE b \in stored
  <2>1. b \in Nat /\ b + Stable <= head
    BY TypeParts, SetupFacts DEF DBTypes, Blocks, DepthInv, MainTypes
  <2> QED
    BY <2>1, DeepBelowLast
<1>6. CASE LeaveToLoop(f)
  <2>1. last' = f /\ f + MinWorkBlocks > LastHeight
    BY <1>3, <1>6, OriginFacts, Constants DEF LeaveToLoop, BlockCount
  <2>2. \A b \in stored : \A c \in f .. b : Begun(c)
    BY <1>3, <2>1 DEF ResumeInv
  <2> QED
    BY <1>2, <1>3, <1>4, <2>1, <2>2, BegunAtRest
<1>7. CASE StartSync(f)
  <2>1. last' = LastHeight
    BY <1>7 DEF StartSync
  <2>2. ASSUME NEW b \in stored, NEW c \in LastHeight .. b PROVE Parsed(c)
    <3>1. c = b
      BY <1>5, OriginFacts
    <3>2. Begun(b)
      BY DEF SafeInv
    <3> QED
      BY <1>2, <3>1, <3>2, BegunAtRest
  <2> QED
    BY <1>3, <1>4, <2>1, <2>2
<1> QED
  BY <1>1, <1>6, <1>7 DEF NothingToSync

\* A difference that does not wrap.
LEMMA Difference ==
  ASSUME NEW a \in Nat, NEW b \in Nat, a > b
  PROVE  a - b \in Nat
OBVIOUS

\* Every step keeps ResumeInv.
LEMMA ResumeStep ==
  ASSUME TypeOK, TypeOK', ShapeInv, RangeInv, ScanInv, SafeInv, DepthInv, StartInv, ResumeInv,
         [Next]_vars
  PROVE  ResumeInv'
<1>0. /\ setup' = setup /\ SyncStart' = SyncStart /\ SyncEnd' = SyncEnd /\ Origin' = Origin
      /\ head' \in Nat /\ head <= head' /\ (NewBlock \/ head' = head) /\ stored \subseteq stored'
  BY SetupStays, Frozen, Grows
<1>a. /\ Origin \in Nat /\ Origin > 0 /\ head \in Nat /\ start \in Nat /\ last \in Nat
      /\ Stable \in Nat /\ LastHeight \in Nat /\ Starts \subseteq Nat
      /\ stored \subseteq Nat /\ stored' \subseteq Nat
  <2>1. Blocks \subseteq Nat /\ Blocks' = Blocks /\ stored \subseteq Blocks /\ stored' \subseteq Blocks'
    BY <1>0, Frozen, TypeParts, SetupFacts, SMTT(30) DEF MainTypes, DBTypes, Blocks
  <2> QED
    BY <2>1, OriginFacts, Constants
<1> SUFFICES ASSUME SyncEnd = 0
             PROVE  /\ phase' \notin {"boot", "dispatch"} => \A b \in Origin .. (start' - 1) : Parsed(b)'
                    /\ phase' \notin {"boot", "dispatch", "looping"} =>
                         \A b \in stored' : \A c \in last' .. b : Parsed(c)'
                    /\ phase' = "looping" =>
                         \A b \in stored' : b >= height'[LoopWorker] => \A c \in last' .. b : Parsed(c)'
                    /\ \A b \in stored' : \A f \in Starts' :
                         f + MinWorkBlocks > LastHeight' => \A c \in f .. b : Begun(c)'
  BY <1>0 DEF ResumeInv
<1>b. \A c : (Parsed(c) => Parsed(c)') /\ (Begun(c) => Begun(c)')
  BY SafeStays
<1>c. /\ LastHeight = IF head > Stable THEN head - Stable ELSE head
      /\ LastHeight' = IF head' > Stable THEN head' - Stable ELSE head'
      /\ LastHeight' \in Nat
  <2>1. LastHeight = IF head > Stable THEN head - Stable ELSE head
    BY DEF LastHeight
  <2>2. SyncEnd' = 0
    BY <1>0
  <2>3. LastHeight' = IF head' > Stable THEN head' - Stable ELSE head'
    BY <2>2 DEF LastHeight
  <2>4. head' \in Nat /\ Stable \in Nat
    BY <1>0, <1>a
  <2>5. LastHeight' \in Nat
    <3>1. CASE head' > Stable
      <4>1. LastHeight' = head' - Stable
        BY <2>3, <3>1
      <4>2. head' - Stable \in Nat
        BY <2>4, <3>1, Difference
      <4> QED
        BY <4>1, <4>2
    <3>2. CASE ~(head' > Stable)
      BY <2>3, <2>4, <3>2
    <3> QED
      BY <3>1, <3>2
  <2> QED
    BY <2>1, <2>3, <2>5
<1>1. phase' \notin {"boot", "dispatch"} => \A b \in Origin .. (start' - 1) : Parsed(b)'
  <2>1. CASE Dispatch
    BY <1>b, <2>1, DispatchResumes
  <2>2. CASE Crash
    BY <2>2 DEF Crash, Restarted
  <2>3. CASE ~Dispatch /\ ~Crash
    <3>1. start' = start
      BY <2>3, RangeKept
    <3>2. phase' \notin {"boot", "dispatch"} => phase \notin {"boot", "dispatch"}
      BY <2>3, StepOrMain, StepFrame DEF Boot, CheckSync, CheckSyncDone, StartLoop, SetSynced,
         NewBlock, vars, main
    <3> QED
      BY <1>b, <3>1, <3>2 DEF ResumeInv
  <2> QED
    BY <2>1, <2>2, <2>3
<1>2. phase' \notin {"boot", "dispatch", "looping"} =>
        \A b \in stored' : \A c \in last' .. b : Parsed(c)'
  <2> SUFFICES ASSUME phase' \notin {"boot", "dispatch", "looping"}, NEW b \in stored',
                      NEW c \in last' .. b
               PROVE  Parsed(c)
    BY <1>b
  <2>1. CASE Dispatch
    <3>1. stored' = stored
      BY <2>1 DEF Dispatch, db
    <3> QED
      BY <2>1, <3>1, DispatchResumes
  <2>2. CASE Crash
    BY <2>2 DEF Crash, Restarted
  <2>3. CASE ~Dispatch /\ ~Crash
    <3>1. last' = last
      BY <2>3, RangeKept
    <3>2. phase \notin {"boot", "dispatch", "looping"}
      BY <2>3, StepOrMain, StepFrame DEF Boot, CheckSync, CheckSyncDone, StartLoop, SetSynced,
         NewBlock, vars, main
    <3>3. CASE b \in stored
      BY <3>1, <3>2, <3>3 DEF ResumeInv
    <3>4. CASE b \notin stored
      <4>1. PICK w \in Workers : b \in InFlight(w)
        BY <3>4, NewlyStored
      <4>2. b < last
        BY <3>2, <4>1, Holder
      <4> QED
        BY <1>a, <3>1, <4>2
    <3> QED
      BY <3>3, <3>4
  <2> QED
    BY <2>1, <2>2, <2>3
<1>3. phase' = "looping" =>
        \A b \in stored' : b >= height'[LoopWorker] => \A c \in last' .. b : Parsed(c)'
  <2> SUFFICES ASSUME phase' = "looping", NEW b \in stored', b >= height'[LoopWorker],
                      NEW c \in last' .. b
               PROVE  Parsed(c)
    BY <1>b
  <2>0. LoopWorker \in Workers
    BY WorkerSet
  <2>1. CASE StartLoop
    <3>1. last' = last /\ stored' = stored /\ phase = "loop"
      BY <2>1 DEF StartLoop, db
    <3> QED
      BY <3>1 DEF ResumeInv
  <2>2. ASSUME NEW w \in Workers, Step(w) PROVE Parsed(c)
    <3>1. phase = "looping" /\ last' = last
      BY <2>2, StepFrame
    <3>2. height[LoopWorker] \in Nat /\ height[LoopWorker] <= height'[LoopWorker]
      BY <2>0, <2>2, HeightGrows
    <3>3. height'[LoopWorker] \in Nat
      BY <2>0, TypeParts DEF WorkerTypes
    <3>4. CASE b \in stored
      BY <1>a, <3>1, <3>2, <3>3, <3>4 DEF ResumeInv
    <3>5. CASE b \notin stored
      <4>1. PICK v \in Workers : b \in InFlight(v) /\ UNCHANGED wrk
        BY <3>5, NewlyStored
      <4>2. v = LoopWorker /\ b < height[v]
        BY <3>1, <4>1, Holder DEF Live
      <4> QED
        BY <1>a, <3>2, <3>3, <4>2
    <3> QED
      BY <3>4, <3>5
  <2>3. CASE SetSynced \/ NewBlock \/ UNCHANGED vars
    <3>1. UNCHANGED <<phase, stored, last, height>>
      BY <2>3 DEF SetSynced, NewBlock, vars, db, wrk, main
    <3> QED
      BY <3>1 DEF ResumeInv
  <2> QED
    BY <2>1, <2>2, <2>3, StepOrMain DEF Boot, Dispatch, NothingToSync, LeaveToLoop, StartSync,
           CheckSync, CheckSyncDone, AfterSync,
       Crash, Restarted
<1>4. ASSUME NEW b \in stored', NEW f \in Starts', f + MinWorkBlocks > LastHeight',
             NEW c \in f .. b
      PROVE  Begun(c)
  <2>1. CASE b \notin stored
    <3>1. PICK w \in Workers : b \in InFlight(w) /\ syncInfo' = syncInfo /\ Step(w)
      BY <2>1, NewlyStored
    <3>2. f \in Starts /\ head' = head /\ LastHeight' = LastHeight
      BY <1>0, <3>1, StepFrame DEF Starts, LastHeight
    <3>3. CASE phase = "sync"
      BY <1>4, <3>1, <3>2, <3>3, CatchUpOrder
    <3>4. CASE phase \in {"check", "looping"}
      <4>1. w \in Live /\ wpc[w] /= "idle" /\ height[w] \in Nat /\ b \in Nat /\ b < height[w]
        BY <3>1, Holder
      <4>2. Origin <= f /\ f \in Nat
        BY <1>a, <3>2, StartsBehindOrigin
      <4>3. c \in Nat /\ Origin <= c /\ c < height[w]
        BY <1>a, <4>1, <4>2
      <4> QED
        BY <3>1, <3>4, <4>1, <4>3, BelowIsSafe
    <3> QED
      BY <3>1, <3>3, <3>4, Holder
  <2>2. CASE b \in stored /\ f \in Starts
    <3>1. CASE LastHeight <= LastHeight'
      <4>1. f + MinWorkBlocks > LastHeight
        BY <1>4, <1>a, <1>c, <2>2, <3>1, Constants
      <4> QED
        BY <2>2, <4>1 DEF ResumeInv
    <3>2. CASE ~(LastHeight <= LastHeight')
      <4>1. head = Stable
        <5>1. head' = head + 1
          BY <1>c, <3>2, <1>0 DEF NewBlock, LastHeight
        <5> QED
          BY <1>a, <1>c, <3>2, <5>1
      <4>2. b + Stable <= head
        BY <2>2 DEF DepthInv
      <4>3. Origin <= f
        BY <2>2, StartsBehindOrigin
      <4> QED
        BY <1>a, <2>2, <4>1, <4>2, <4>3
    <3> QED
      BY <3>1, <3>2
  <2>3. CASE b \in stored /\ f \notin Starts
    <3>1. PICK m \in marking[LoopWorker] : f = m + 1 /\ phase = "looping" /\ LoopWorker \in Workers
      BY <1>0, <2>3, SyncInfoSteps, Marked DEF Starts
    <3>2. /\ m \in Nat /\ last <= m /\ m < height[LoopWorker] /\ wpc[LoopWorker] /= "idle"
          /\ height[LoopWorker] \in Nat
      BY <3>1, Marked, TypeParts DEF WorkerTypes
    <3>3. CASE b < height[LoopWorker]
      <4>1. c \in Nat /\ Origin <= c /\ c < height[LoopWorker]
        BY <1>a, <2>3, <3>1, <3>2, <3>3 DEF StartInv
      <4>2. LoopWorker \in Live
        BY <3>1 DEF Live
      <4> QED
        BY <3>1, <3>2, <4>1, <4>2, BelowIsSafe
    <3>4. CASE b >= height[LoopWorker]
      <4>1. c \in last .. b
        BY <1>a, <2>3, <3>1, <3>2
      <4> QED
        BY <2>3, <3>1, <3>4, <4>1 DEF ResumeInv, Parsed, Begun
    <3> QED
      BY <1>a, <2>3, <3>2, <3>3, <3>4
  <2> QED
    BY <2>1, <2>2, <2>3
<1> QED
  BY <1>1, <1>2, <1>3, <1>4, <1>b

----------------------------------------------------------------------------
\* The messages of the loop worker: LoopInv

\* The loop worker's range has no end, so its parser gets no nil message.
LEMMA LoopQueue ==
  ASSUME TypeOK, ShapeInv, RangeInv, ScanInv, phase = "looping"
  PROVE  /\ LoopWorker \in Workers
         /\ wstart[LoopWorker] = last /\ wend[LoopWorker] = 0 /\ wpc[LoopWorker] \notin {"idle", "done"}
         /\ last \in Nat /\ height[LoopWorker] \in Nat
         /\ Len(chan[LoopWorker]) \in Nat /\ DOMAIN chan[LoopWorker] = 1 .. Len(chan[LoopWorker])
         /\ \A i \in DOMAIN chan[LoopWorker] :
              /\ chan[LoopWorker][i] \in Nat /\ chan[LoopWorker][i] \in Blocks
              /\ chan[LoopWorker][i] /= Nil
              /\ chan[LoopWorker][i] \in Queued(LoopWorker)
              /\ last <= chan[LoopWorker][i] /\ chan[LoopWorker][i] < height[LoopWorker]
         /\ \A b \in adding[LoopWorker] \cup parsing[LoopWorker] :
              b \in Nat /\ last <= b /\ b < height[LoopWorker]
<1>1. LoopWorker \in Workers
  BY WorkerSet
<1>2. wstart[LoopWorker] = last /\ wend[LoopWorker] = 0 /\ wpc[LoopWorker] \notin {"idle", "done"}
  BY <1>1 DEF RangeInv, ScanInv, WorkerScan
<1>3. last \in Nat /\ height[LoopWorker] \in Nat
  BY <1>1, TypeParts DEF WorkerTypes, MainTypes
<1>4. /\ chan[LoopWorker] \in Seq(Blocks \cup {Nil})
      /\ Blocks \subseteq Nat
  BY <1>1, TypeParts, SetupFacts, SMTT(30) DEF ChanTypes, MainTypes, Blocks
<1>5. /\ Len(chan[LoopWorker]) \in Nat /\ DOMAIN chan[LoopWorker] = 1 .. Len(chan[LoopWorker])
      /\ \A i \in DOMAIN chan[LoopWorker] : chan[LoopWorker][i] \in Blocks \cup {Nil}
  BY <1>4
<1>6. \A i \in DOMAIN chan[LoopWorker] : chan[LoopWorker][i] /= Nil
  BY <1>1, <1>2 DEF ShapeInv, WorkerShape
<1>7. InFlight(LoopWorker) \subseteq last .. (height[LoopWorker] - 1)
  BY <1>1, <1>2 DEF ScanInv, WorkerScan
<1>8. \A i \in DOMAIN chan[LoopWorker] : chan[LoopWorker][i] \in Queued(LoopWorker)
  BY <1>6 DEF Queued
<1>9. \A b \in InFlight(LoopWorker) : b \in Nat /\ last <= b /\ b < height[LoopWorker]
  BY <1>3, <1>7
<1> QED
  BY <1>1, <1>2, <1>3, <1>4, <1>5, <1>6, <1>8, <1>9 DEF InFlight

\* The messages of the loop worker stay in order while it does nothing.
LEMMA LoopStays ==
  ASSUME LoopInv, setup' = setup, Local(LoopWorker)' = Local(LoopWorker), phase = "looping",
         last' = last, \A c : Parsed(c) => Parsed(c)'
  PROVE  LoopInv'
<1>1. /\ height[LoopWorker]' = height[LoopWorker] /\ chan[LoopWorker]' = chan[LoopWorker]
      /\ ppc[LoopWorker]' = ppc[LoopWorker] /\ count[LoopWorker]' = count[LoopWorker]
      /\ adding[LoopWorker]' = adding[LoopWorker] /\ marking[LoopWorker]' = marking[LoopWorker]
      /\ parsing[LoopWorker]' = parsing[LoopWorker]
  BY SameLocal
<1>2. Origin' = Origin
  BY Frozen
<1>3. NextMessage' = NextMessage /\ \A i : Follower(i)' = Follower(i)
  BY <1>1 DEF NextMessage, Follower, LoopWorker
<1> QED
  BY <1>1, <1>2, <1>3 DEF LoopInv, LoopWorker

\* When the loop worker passes over a height that is stored, every block before it has
\* been parsed.
LEMMA PassedOver ==
  ASSUME TypeOK, ShapeInv, RangeInv, ScanInv, ResumeInv, phase = "looping",
         height[LoopWorker] \in stored
  PROVE  \A c \in last .. height[LoopWorker] : Parsed(c)
<1>1. SyncEnd = 0
  BY DEF ShapeInv
<1>2. height[LoopWorker] >= height[LoopWorker]
  BY LoopQueue
<1> QED
  BY <1>1, <1>2 DEF ResumeInv

\* The loop worker passes over heights that are stored.
LEMMA LoopSkips ==
  ASSUME TypeOK, ShapeInv, RangeInv, ScanInv, ResumeInv, LoopInv, phase = "looping", phase' = "looping",
         setup' = setup, last' = last, \A c : Parsed(c) => Parsed(c)',
         UNCHANGED <<chan[LoopWorker], ppc[LoopWorker], count[LoopWorker], adding[LoopWorker],
                     marking[LoopWorker], parsing[LoopWorker]>>,
         height[LoopWorker] \in stored,
         height'[LoopWorker] \in Nat, height[LoopWorker] <= height'[LoopWorker]
  PROVE  LoopInv'
<1> DEFINE L == LoopWorker
<1>1. Origin' = Origin
  BY Frozen
<1>2. \A c \in last .. height[L] : Parsed(c)
  BY PassedOver
<1>3. /\ last \in Nat /\ height[L] \in Nat
      /\ Len(chan[L]) \in Nat /\ DOMAIN chan[L] = 1 .. Len(chan[L])
      /\ \A i \in DOMAIN chan[L] : chan[L][i] \in Nat /\ last <= chan[L][i] /\ chan[L][i] < height[L]
      /\ \A b \in parsing[L] : b \in Nat /\ last <= b /\ b < height[L]
  BY LoopQueue
<1>4. \A i \in DOMAIN chan[L] : \A c \in last .. chan[L][i] : Parsed(c)
  BY <1>2, <1>3
<1>5. \A b \in parsing[L] : Parsed(b)
  BY <1>2, <1>3
<1>6. ppc[L] = "run" => \A b \in parsing[L] : b < NextMessage'
  <2> SUFFICES ASSUME ppc[L] = "run", NEW b \in parsing[L] PROVE b < NextMessage'
    OBVIOUS
  <2>1. b < NextMessage
    BY DEF LoopInv
  <2>2. NextMessage' = IF chan[L] = <<>> THEN height'[L] ELSE Head(chan[L])
    BY DEF NextMessage, LoopWorker
  <2> QED
    BY <1>3, <2>1, <2>2 DEF NextMessage
<1>7. /\ \A i, j \in DOMAIN chan[L] : i < j => chan[L][i] < chan[L][j]
      /\ \A b \in adding[L] \cup marking[L] : \A c \in Origin .. (b - MaxParseBlocks) : Parsed(c)
  BY DEF LoopInv
<1> QED
  BY <1>1, <1>4, <1>5, <1>6, <1>7 DEF LoopInv, LoopWorker

\* The loop worker hands its parser the next height.
LEMMA LoopFetches ==
  ASSUME TypeOK, ShapeInv, RangeInv, ScanInv, LoopInv, phase = "looping", last' = last,
         setup' = setup, \A c : Parsed(c) => Parsed(c)',
         FetchBlock(LoopWorker), MustFetch(LoopWorker)
  PROVE  LoopInv'
<1> DEFINE L == LoopWorker
           h == height[L]
           k == Len(chan[L])
<1>1. Origin' = Origin
  BY Frozen
<1>2. /\ last \in Nat /\ h \in Nat /\ L \in Workers
      /\ k \in Nat /\ DOMAIN chan[L] = 1 .. k
      /\ \A i \in DOMAIN chan[L] : chan[L][i] \in Nat /\ last <= chan[L][i] /\ chan[L][i] < h
  BY LoopQueue
<1>3. height'[L] = h + 1 /\ UNCHANGED <<adding, marking, parsing, ppc, count>>
  BY <1>2, TypeParts DEF FetchBlock, WorkerTypes, par
<1>4. h \in Blocks /\ chan' = [chan EXCEPT ![L] = Append(@, h)]
  BY <1>2, Fetched DEF FetchBlock
<1>5. /\ chan'[L] = Append(chan[L], h)
      /\ Len(chan'[L]) = k + 1
      /\ DOMAIN (chan'[L]) = 1 .. k + 1
      /\ \A i \in 1 .. k : chan'[L][i] = chan[L][i]
      /\ chan'[L][k + 1] = h
  BY <1>2, <1>4, SendEffect, TypeParts
<1> HIDE DEF h, k
<1>6. \A i \in 1 .. k : Follower(i)' = Follower(i)
  <2> SUFFICES ASSUME NEW i \in 1 .. k PROVE Follower(i)' = Follower(i)
    OBVIOUS
  <2>1. Follower(i)' = IF i = k + 1 THEN height'[L] ELSE chan'[L][i + 1]
    BY <1>5 DEF Follower, LoopWorker
  <2>2. Follower(i) = IF i = k THEN h ELSE chan[L][i + 1]
    BY DEF Follower, h, k
  <2>3. i /= k + 1 /\ (i = k \/ i + 1 \in 1 .. k)
    BY <1>2
  <2> QED
    BY <1>5, <2>1, <2>2, <2>3
<1>7. \A i : i = k + 1 => Follower(i)' = h + 1
  <2> SUFFICES ASSUME NEW i, i = k + 1 PROVE Follower(i)' = h + 1
    OBVIOUS
  <2>1. Follower(i)' = IF i = k + 1 THEN height'[L] ELSE chan'[L][i + 1]
    BY <1>5 DEF Follower, LoopWorker
  <2> QED
    BY <1>3, <2>1
<1>8. NextMessage' = NextMessage
  <2>0. chan[L] \in Seq(Blocks \cup {Nil}) /\ h \in Blocks \cup {Nil}
    BY <1>2, <1>4, TypeParts DEF ChanTypes
  <2>1. chan'[L] /= <<>> /\ Head(chan'[L]) = chan'[L][1]
    <3>1. chan'[L] \in Seq(Blocks \cup {Nil})
      BY <1>5, <2>0
    <3>2. chan'[L] /= <<>>
      BY <1>5, <2>0, AppendProperties
    <3> QED
      BY <3>1, <3>2, HeadTailProperties
  <2>2. NextMessage' = chan'[L][1]
    BY <2>1 DEF NextMessage, LoopWorker
  <2>3. CASE k = 0
    <3>1. chan[L] = <<>>
      <4>1. chan[L] \in Seq(Blocks \cup {Nil})
        BY <1>2, TypeParts DEF ChanTypes
      <4> QED
        BY <2>3, <4>1, EmptySeq DEF k
    <3> QED
      BY <1>5, <2>2, <2>3, <3>1 DEF NextMessage, h
  <2>4. CASE k /= 0
    <3>1. 1 \in 1 .. k
      BY <1>2, <2>4
    <3>2. chan[L] /= <<>>
      BY <2>4 DEF k
    <3> QED
      BY <1>5, <2>2, <3>1, <3>2 DEF NextMessage
  <2> QED
    BY <2>3, <2>4
<1>9. \A i, j \in 1 .. k + 1 : i < j => chan'[L][i] < chan'[L][j]
  <2> SUFFICES ASSUME NEW i \in 1 .. k + 1, NEW j \in 1 .. k + 1, i < j
               PROVE  chan'[L][i] < chan'[L][j]
    OBVIOUS
  <2>1. i \in 1 .. k
    BY <1>2
  <2>2. CASE j = k + 1
    BY <1>2, <1>5, <2>1, <2>2
  <2>3. CASE j /= k + 1
    <3>1. j \in 1 .. k
      BY <1>2, <2>3
    <3>2. chan[L][i] < chan[L][j]
      BY <1>2, <2>1, <3>1 DEF LoopInv
    <3> QED
      BY <1>5, <2>1, <3>1, <3>2
  <2> QED
    BY <2>2, <2>3
<1>10. \A i \in 1 .. k + 1 : \A c \in last .. chan'[L][i] :
         ~Parsed(c) => Follower(i)' = chan'[L][i] + 1
  <2> SUFFICES ASSUME NEW i \in 1 .. k + 1, NEW c \in last .. chan'[L][i], ~Parsed(c)
               PROVE  Follower(i)' = chan'[L][i] + 1
    OBVIOUS
  <2>1. CASE i = k + 1
    BY <1>5, <1>7, <2>1
  <2>2. CASE i /= k + 1
    <3>1. i \in 1 .. k
      BY <1>2, <2>2
    <3>2. Follower(i) = chan[L][i] + 1
      BY <1>2, <1>5, <3>1 DEF LoopInv
    <3> QED
      BY <1>5, <1>6, <3>1, <3>2
  <2> QED
    BY <2>1, <2>2
<1>11. /\ \A b \in adding[L] \cup marking[L] : \A c \in Origin .. (b - MaxParseBlocks) : Parsed(c)
       /\ ppc[L] = "run" => \A b \in parsing[L] :
            b < NextMessage /\ (~Parsed(b) => NextMessage - b <= count[L])
  BY DEF LoopInv
<1> QED
  BY <1>1, <1>3, <1>5, <1>8, <1>9, <1>10, <1>11 DEF LoopInv, LoopWorker

\* The loop worker's parser takes the next message.
LEMMA LoopReceives ==
  ASSUME TypeOK, ShapeInv, RangeInv, ScanInv, SafeInv, StartInv, ResumeInv, LoopInv,
         phase = "looping", last' = last, setup' = setup, \A c : Parsed(c) => Parsed(c)',
         Receive(LoopWorker)
  PROVE  LoopInv'
<1> DEFINE L == LoopWorker
           c0 == chan[L]
           k == Len(chan[L])
           m == Head(chan[L])
<1>1. Origin' = Origin /\ SyncEnd = 0 /\ L \in Workers
  BY Frozen, WorkerSet DEF ShapeInv
<1>0. WorkerShape(L)
  BY <1>1 DEF ShapeInv
<1>2. /\ last \in Nat /\ height[L] \in Nat
      /\ k \in Nat /\ DOMAIN chan[L] = 1 .. k
      /\ \A i \in DOMAIN chan[L] :
           /\ chan[L][i] \in Nat /\ chan[L][i] /= Nil
           /\ last <= chan[L][i] /\ chan[L][i] < height[L]
      /\ \A b \in adding[L] \cup parsing[L] : b \in Nat /\ last <= b /\ b < height[L]
      /\ wstart[L] = last /\ wpc[L] /= "idle"
  BY LoopQueue
<1>3. /\ k > 0 /\ m = chan[L][1] /\ chan[L] /= <<>> /\ ppc[L] = "run"
      /\ Len(chan'[L]) = k - 1
      /\ DOMAIN (chan'[L]) = 1 .. k - 1
      /\ \A i \in 1 .. k - 1 : chan'[L][i] = chan[L][i + 1]
  <2>1. /\ m = chan[L][1] /\ k \in Nat \ {0}
        /\ Len(chan'[L]) = k - 1
        /\ DOMAIN (chan'[L]) = 1 .. k - 1
        /\ \A i \in 1 .. k - 1 : chan'[L][i] = chan[L][i + 1]
    BY <1>0, <1>1, ReceiveEffect, TypeParts
  <2>2. chan[L] /= <<>> /\ ppc[L] = "run"
    BY <1>0, <1>1, NilBeforeClose DEF Receive
  <2> HIDE DEF k, m
  <2> QED
    BY <2>1, <2>2
<1>4. m /= Nil /\ m \in Nat /\ last <= m /\ m < height[L] /\ 1 \in 1 .. k
  BY <1>2, <1>3
<1>5. /\ adding'[L] \subseteq adding[L] \cup {m}
      /\ parsing'[L] = parsing[L] \cup {m}
      /\ count'[L] = (count[L] + 1) % MaxParseBlocks
      /\ ppc'[L] = IF count[L] + 1 = MaxParseBlocks THEN "barrier" ELSE "run"
  BY <1>0, <1>1, <1>4, ReceiveEffect, TypeParts
<1>6. height'[L] = height[L] /\ marking' = marking
  BY DEF Receive, wrk
<1>7. count[L] \in Nat /\ count[L] < MaxParseBlocks /\ MaxParseBlocks \in Nat
  BY <1>1, TypeParts, Constants DEF ParserTypes
<1> HIDE DEF k, m
<1>8. \A i \in 1 .. k - 1 : Follower(i)' = Follower(i + 1)
  <2> SUFFICES ASSUME NEW i \in 1 .. k - 1 PROVE Follower(i)' = Follower(i + 1)
    OBVIOUS
  <2>1. Follower(i)' = IF i = k - 1 THEN height'[L] ELSE chan'[L][i + 1]
    BY <1>3 DEF Follower, LoopWorker
  <2>2. Follower(i + 1) = IF i + 1 = k THEN height[L] ELSE chan[L][(i + 1) + 1]
    BY DEF Follower, k
  <2>3. (i = k - 1 <=> i + 1 = k) /\ (i = k - 1 \/ i + 1 \in 1 .. k - 1)
    BY <1>2
  <2> QED
    BY <1>3, <1>6, <2>1, <2>2, <2>3
<1>9. NextMessage = m
  BY <1>3 DEF NextMessage, m
<1>10. NextMessage' = Follower(1) /\ Follower(1) \in Nat /\ m < Follower(1)
  <2>1. CASE k = 1
    <3>1. chan'[L] = <<>>
      <4>1. chan'[L] = Tail(chan[L]) /\ chan[L] \in Seq(Blocks \cup {Nil})
        BY <1>0, <1>1, ReceiveEffect, TypeParts DEF ChanTypes
      <4>2. chan'[L] \in Seq(Blocks \cup {Nil})
        BY <1>3, <4>1
      <4> QED
        BY <1>3, <2>1, <4>2, EmptySeq
    <3>2. NextMessage' = height'[L]
      BY <3>1 DEF NextMessage, LoopWorker
    <3>3. Follower(1) = height[L]
      BY <2>1 DEF Follower, k
    <3> QED
      BY <1>2, <1>4, <1>6, <3>2, <3>3
  <2>2. CASE k /= 1
    <3>1. 1 \in 1 .. k - 1 /\ 2 \in 1 .. k
      BY <1>2, <1>3, <2>2
    <3>2. chan'[L] /= <<>> /\ Head(chan'[L]) = chan'[L][1]
      BY <3>1, <1>3
    <3>3. NextMessage' = chan'[L][1]
      BY <3>2 DEF NextMessage, LoopWorker
    <3>4. chan'[L][1] = chan[L][2]
      BY <1>3, <3>1, 1 + 1 = 2
    <3>5. Follower(1) = chan[L][2]
      BY <2>2, 1 + 1 = 2 DEF Follower, k
    <3>6. chan[L][1] < chan[L][2]
      BY <1>2, <1>4, <3>1 DEF LoopInv
    <3> QED
      BY <1>2, <1>3, <3>1, <3>3, <3>4, <3>5, <3>6
  <2> QED
    BY <2>1, <2>2
\* The order
<1>11. \A i, j \in 1 .. k - 1 : i < j => chan'[L][i] < chan'[L][j]
  <2> SUFFICES ASSUME NEW i \in 1 .. k - 1, NEW j \in 1 .. k - 1, i < j
               PROVE  chan'[L][i] < chan'[L][j]
    OBVIOUS
  <2>1. i + 1 \in 1 .. k /\ j + 1 \in 1 .. k /\ i + 1 < j + 1
    BY <1>2
  <2>2. chan[L][i + 1] < chan[L][j + 1]
    BY <1>2, <2>1 DEF LoopInv
  <2> QED
    BY <1>3, <2>2
<1>12. \A i \in 1 .. k - 1 : \A c \in last .. chan'[L][i] :
         ~Parsed(c) => Follower(i)' = chan'[L][i] + 1
  <2> SUFFICES ASSUME NEW i \in 1 .. k - 1, NEW c \in last .. chan'[L][i], ~Parsed(c)
               PROVE  Follower(i)' = chan'[L][i] + 1
    OBVIOUS
  <2>1. i + 1 \in 1 .. k
    BY <1>2
  <2> QED
    BY <1>2, <1>3, <1>8, <2>1 DEF LoopInv
\* What the new goroutines hold
<1>13. \A c \in Origin .. (m - MaxParseBlocks) : Parsed(c)
  <2> SUFFICES ASSUME NEW c \in Origin .. (m - MaxParseBlocks), ~Parsed(c) PROVE FALSE
    OBVIOUS
  <2>0. /\ start \in Nat /\ Origin \in Nat /\ c \in Nat /\ c <= m - MaxParseBlocks /\ Origin <= c
    BY <1>4, <1>7, OriginFacts, TypeOK
  <2>1. ~(c < start)
    <3>1. c < start => c \in Origin .. (start - 1)
      BY <2>0
    <3> QED
      BY <1>1, <3>1 DEF ResumeInv
  <2>2. ~(c < last)
    <3>1. c < last => c \in start .. (last - 1)
      BY <1>2, <2>0, <2>1
    <3> QED
      BY <3>1 DEF SafeInv
  <2>3. c \in wstart[L] .. (height[L] - 1)
    BY <1>2, <1>4, <1>7, <2>0, <2>2
  <2>4. Begun(c)
    BY <1>1, <1>2, <2>3 DEF SafeInv, Safe
  <2>5. c \in UnparsedNowAll
    BY <2>4 DEF Begun, Parsed
  <2>6. PICK w \in Workers : c \in UnparsedNow(w)
    BY <2>5 DEF UnparsedNowAll
  <2>7. w = L
    <3>1. InFlight(w) /= {}
      BY <2>6 DEF UnparsedNow, InFlight
    <3> QED
      BY <3>1 DEF ShapeInv, WorkerShape, Rests, Live
  <2>8. c \notin Queued(L)
    <3> SUFFICES ASSUME c \in Queued(L) PROVE FALSE
      OBVIOUS
    <3>1. PICK i \in DOMAIN chan[L] : c = chan[L][i]
      BY DEF Queued
    <3>2. i = 1 \/ chan[L][1] < chan[L][i]
      BY <1>2, <1>4, <3>1 DEF LoopInv
    <3> QED
      BY <1>2, <1>3, <1>4, <1>7, <2>0, <3>1, <3>2
  <2>9. c \notin parsing[L]
    <3> SUFFICES ASSUME c \in parsing[L] PROVE FALSE
      OBVIOUS
    <3>1. m - c <= count[L]
      BY <1>3, <1>9 DEF LoopInv
    <3> QED
      BY <1>4, <1>7, <2>0, <3>1
  <2> QED
    BY <2>6, <2>7, <2>8, <2>9 DEF UnparsedNow
<1>14. \A b \in adding'[L] \cup marking'[L] : \A c \in Origin .. (b - MaxParseBlocks) : Parsed(c)
  BY <1>5, <1>6, <1>13 DEF LoopInv
\* The batch
<1>15. ppc'[L] = "run" => \A b \in parsing'[L] :
         b < NextMessage' /\ (~Parsed(b) => NextMessage' - b <= count'[L])
  <2> SUFFICES ASSUME ppc'[L] = "run", NEW b \in parsing'[L]
               PROVE  b < NextMessage' /\ (~Parsed(b) => NextMessage' - b <= count'[L])
    OBVIOUS
  <2>1. count'[L] = count[L] + 1
    BY <1>5, <1>7
  <2>2. b \in Nat /\ last <= b /\ (b = m \/ b < m)
    BY <1>2, <1>3, <1>4, <1>5, <1>9 DEF LoopInv
  <2>3. b < NextMessage'
    BY <1>4, <1>10, <2>2
  <2>4. ASSUME ~Parsed(b) PROVE NextMessage' - b <= count'[L]
    <3>1. b \in last .. m
      BY <1>2, <1>4, <2>2
    <3>2. Follower(1) = m + 1
      BY <1>2, <1>3, <1>4, <2>4, <3>1 DEF LoopInv
    <3>3. m - b <= count[L]
      <4>1. CASE b = m
        BY <1>4, <1>7, <4>1
      <4>2. CASE b /= m
        <5>1. b \in parsing[L]
          BY <1>5, <4>2
        <5> QED
          BY <1>3, <1>9, <2>4, <5>1 DEF LoopInv
      <4> QED
        BY <4>1, <4>2
    <3> QED
      BY <1>4, <1>7, <1>10, <2>1, <2>2, <3>2, <3>3
  <2> QED
    BY <2>3, <2>4
<1>16. \A c : ~Parsed(c)' => ~Parsed(c)
  OBVIOUS
<1>17. \A b : (\A c \in Origin .. (b - MaxParseBlocks) : Parsed(c))
              => (\A c \in Origin .. (b - MaxParseBlocks) : Parsed(c)')
  OBVIOUS
<1> QED
  BY <1>1, <1>3, <1>11, <1>12, <1>14, <1>15, <1>16, <1>17 DEF LoopInv, LoopWorker

\* Every step keeps LoopInv.
LEMMA LoopStep ==
  ASSUME TypeOK, TypeOK', ShapeInv, RangeInv, ScanInv, SafeInv, StartInv, ResumeInv, LoopInv,
         [Next]_vars
  PROVE  LoopInv'
<1>0. setup' = setup /\ Origin' = Origin /\ LoopWorker \in Workers
  BY SetupStays, Frozen, WorkerSet
<1>a. \A c : Parsed(c) => Parsed(c)'
  BY SafeStays
<1> SUFFICES ASSUME phase' = "looping" PROVE LoopInv'
  BY DEF LoopInv
<1>1. CASE StartLoop
  <2>1. Rests(LoopWorker) /\ phase = "loop"
    BY <1>0, <1>1 DEF StartLoop, ShapeInv, WorkerShape, Live
  <2>2. /\ chan[LoopWorker] = <<>>
        /\ adding[LoopWorker] = {} /\ marking[LoopWorker] = {} /\ parsing[LoopWorker] = {}
    BY <1>0, <2>1 DEF ShapeInv, WorkerShape, Rests, InFlight
  <2>3. UNCHANGED <<chan, adding, marking, parsing>>
    BY <1>1 DEF StartLoop, StartWorkers
  <2> QED
    BY <2>2, <2>3 DEF LoopInv, LoopWorker
<1>2. CASE SetSynced \/ NewBlock \/ UNCHANGED vars
  <2>1. UNCHANGED <<phase, last, wrk, chan, par>>
    BY <1>2 DEF SetSynced, NewBlock, vars, main
  <2>2. Local(LoopWorker)' = Local(LoopWorker)
    BY <2>1, SameVars
  <2> QED
    BY <1>0, <1>a, <2>1, <2>2, LoopStays
<1>3. ASSUME NEW w \in Workers, Step(w) PROVE LoopInv'
  <2>1. phase = "looping" /\ last' = last
    BY <1>3, StepFrame
  <2>2. CASE w /= LoopWorker
    <3>1. Local(LoopWorker)' = Local(LoopWorker)
      BY <1>0, <1>3, <2>2, Alone DEF Step
    <3> QED
      BY <1>0, <1>a, <2>1, <3>1, LoopStays
  <2>3. CASE w = LoopWorker
    <3> DEFINE L == LoopWorker
    <3>0. WorkerTypes /\ ParserTypes /\ ChanTypes
      BY TypeParts
    <3>a. /\ wend[L] = 0 /\ height[L] \in Nat
      BY <2>1, LoopQueue
    <3>b. height'[L] \in Nat /\ height[L] <= height'[L]
      BY <1>0, <1>3, <2>3, HeightGrows, TypeParts DEF WorkerTypes
    <3>1. CASE NextRange(L) \/ EndRange(L)
      <4>1. UNCHANGED <<height, chan, par>>
        BY <3>1 DEF NextRange, EndRange
      <4> QED
        BY <1>0, <1>a, <2>1, <4>1 DEF LoopInv, NextMessage, Follower, par
    <3>2. CASE EndSync(L)
      BY <3>2, <3>a DEF EndSync, RangeOver
    <3>3. CASE FindBlocksInRange(L)
      <4>1. UNCHANGED <<chan, par>>
        BY <3>3 DEF FindBlocksInRange
      <4>2. CASE height' = height
        BY <1>0, <1>a, <2>1, <4>1, <4>2 DEF LoopInv, NextMessage, Follower, par
      <4>3. CASE height' /= height
        <5>1. PICK upto \in Int : height[L] <= upto /\ height[L] .. upto \subseteq stored
          BY <1>0, <3>3, <4>3, QueryEffect
        <5>2. height[L] \in stored
          BY <3>a, <5>1
        <5>3. UNCHANGED <<chan[L], ppc[L], count[L], adding[L], marking[L], parsing[L]>>
          BY <4>1 DEF par, LoopWorker
        <5> QED
          BY <1>0, <1>a, <2>1, <3>b, <5>2, <5>3, LoopSkips
      <4> QED
        BY <4>2, <4>3
    <3>4. CASE FetchBlock(L)
      <4>1. CASE MustFetch(L)
        BY <1>0, <1>a, <2>1, <3>4, <4>1, LoopFetches
      <4>2. CASE ~MustFetch(L)
        <5>1. height[L] \in stored
          BY <1>0, <3>4, <4>2 DEF FetchBlock, MustFetch, ScanInv, WorkerScan
        <5>2. UNCHANGED <<chan, par>>
          BY <3>4, <4>2 DEF FetchBlock
        <5>3. UNCHANGED <<chan[L], ppc[L], count[L], adding[L], marking[L], parsing[L]>>
          BY <5>2 DEF par, LoopWorker
        <5> QED
          BY <1>0, <1>a, <2>1, <3>b, <5>1, <5>3, LoopSkips
      <4> QED
        BY <4>1, <4>2
    <3>5. CASE Receive(L)
      BY <1>0, <1>a, <2>1, <3>5, LoopReceives
    <3>6. CASE ~Worker(L) /\ ~Receive(L)
      <4>1. /\ UNCHANGED <<height, chan, count>>
            /\ parsing'[L] \subseteq parsing[L]
            /\ adding'[L] \cup marking'[L] \subseteq adding[L] \cup marking[L]
            /\ ppc'[L] = "run" => ppc[L] = "run" \/ parsing'[L] = {}
        <5>1. CASE BatchDone(L) \/ ParserDone(L)
          BY <1>0, <3>0, <5>1 DEF BatchDone, ParserDone, Quiet, wrk, ParserTypes
        <5>2. CASE \E b \in adding[L] : AddBlock(L, b)
          BY <1>0, <3>0, <5>2 DEF AddBlock, wrk, ParserTypes
        <5>3. CASE \E b \in marking[L] : UpdateSyncInfo(L, b)
          BY <1>0, <3>0, <5>3 DEF UpdateSyncInfo, wrk, ParserTypes
        <5>4. CASE \E b \in parsing[L] : ParseTransactions(L, b)
          BY <1>0, <3>0, <5>4 DEF ParseTransactions, wrk, ParserTypes, history
        <5> QED
          BY <1>3, <2>3, <3>6, <5>1, <5>2, <5>3, <5>4 DEF Step, Parser
      <4>2. NextMessage' = NextMessage /\ \A i : Follower(i)' = Follower(i)
        BY <4>1 DEF NextMessage, Follower
      <4>3. /\ chan'[L] = chan[L] /\ count'[L] = count[L]
        BY <4>1
      <4>4. \A b \in adding'[L] \cup marking'[L] : \A c \in Origin .. (b - MaxParseBlocks) : Parsed(c)
        BY <2>1, <4>1 DEF LoopInv
      <4>5. ppc'[L] = "run" => \A b \in parsing'[L] :
              b < NextMessage /\ (~Parsed(b) => NextMessage - b <= count[L])
        BY <2>1, <4>1 DEF LoopInv
      <4> QED
        BY <1>0, <1>a, <2>1, <4>2, <4>3, <4>4, <4>5 DEF LoopInv, LoopWorker
    <3> QED
      BY <1>3, <2>3, <3>1, <3>2, <3>3, <3>4, <3>5, <3>6 DEF Worker
  <2> QED
    BY <2>2, <2>3
<1> QED
  BY <1>1, <1>2, <1>3, StepOrMain DEF Boot, Dispatch, NothingToSync, LeaveToLoop, StartSync,
     CheckSync, CheckSyncDone, AfterSync, Crash, Restarted

\* Every step keeps LagInv.
LEMMA LagStep ==
  ASSUME TypeOK, TypeOK', ShapeInv, RangeInv, ScanInv, DepthInv, LoopInv, LagInv, [Next]_vars
  PROVE  LagInv'
<1>0. setup' = setup /\ Origin' = Origin
  BY SetupStays, Frozen
<1> SUFFICES ASSUME NEW b \in Origin .. (syncInfo' - MaxParseBlocks) PROVE Parsed(b)
  BY <1>0, SafeStays DEF LagInv
<1>1. CASE syncInfo' = syncInfo
  BY <1>1 DEF LagInv
<1>2. CASE SyncStart /= 0 /\ syncInfo' = SyncStart
  BY <1>2, OriginFacts, Constants DEF Origin
<1>3. ASSUME NEW w \in Workers, NEW m \in marking[w], syncInfo' = m PROVE Parsed(b)
  BY <1>3, Marked DEF LoopInv
<1> QED
  BY <1>1, <1>2, <1>3, SyncInfoSteps

----------------------------------------------------------------------------
\* The theorems

\* The variables have their types when the program starts first.
LEMMA InitTypes ==
  ASSUME Init
  PROVE  TypeOK
<1>1. /\ setup \in Setups /\ SyncStart \in Nat /\ MaxHead \in Nat
      /\ setup.firstHead \in Nat /\ setup.firstHead <= MaxHead
      /\ setup.maxCrashes \in Nat /\ setup.maxDBFails \in Nat
  BY SetupFacts DEF Init
<1>2. MainTypes
  <2>1. head = setup.firstHead /\ phase = "boot" /\ start = SyncStart /\ last = 0 /\ active = {}
        /\ hasSyncToLatest = FALSE /\ crashes = 0 /\ dbFails = 0
    BY DEF Init, Fresh
  <2>2. head \in setup.firstHead .. MaxHead /\ crashes \in 0 .. setup.maxCrashes
        /\ dbFails \in 0 .. setup.maxDBFails
    BY <1>1, <2>1
  <2> QED
    BY <1>1, <2>1, <2>2 DEF MainTypes
<1>3. DBTypes
  BY <1>1 DEF Init, DBTypes, Blocks
<1>4. WorkerTypes
  BY DEF Init, Fresh, Each, WorkerTypes
<1>5. ChanTypes
  <2>1. chan = [w \in Workers |-> <<>>] /\ <<>> \in Seq(Blocks \cup {Nil})
    BY DEF Init, Fresh, Each
  <2>2. \A w \in Workers : Len(chan[w]) = 0 /\ 0 <= ChanCap(w)
    BY <2>1, Constants DEF ChanCap
  <2> QED
    BY <2>1, <2>2 DEF ChanTypes
<1>6. ParserTypes
  <2>1. 0 \in 0 .. MaxParseBlocks - 1
    BY Constants
  <2> QED
    BY <2>1 DEF Init, Fresh, Each, ParserTypes
<1> QED
  BY <1>2, <1>3, <1>4, <1>5, <1>6, TypeParts

\* The inductive invariant holds when the program starts first.
LEMMA InitIInv ==
  ASSUME Init
  PROVE  IInv
<1>1. TypeOK
  BY InitTypes
<1>2. \A w \in Workers : /\ wpc[w] = "idle" /\ ppc[w] = "idle" /\ chan[w] = <<>> /\ count[w] = 0
                         /\ wstart[w] = 0 /\ wend[w] = 0 /\ height[w] = 0 /\ latest[w] = 0
                         /\ adding[w] = {} /\ marking[w] = {} /\ parsing[w] = {}
                         /\ known[w] = {}
  BY DEF Init, Fresh, Each
<1>3. \A w \in Workers : Queued(w) = {} /\ InFlight(w) = {}
                         /\ UnsavedNow(w) = {} /\ UnparsedNow(w) = {}
  BY <1>2 DEF Queued, InFlight, UnsavedNow, UnparsedNow
<1>4. UnsavedNowAll = {} /\ UnparsedNowAll = {}
  BY <1>3, Zenon DEF UnsavedNowAll, UnparsedNowAll
<1>5. /\ phase = "boot" /\ start = SyncStart /\ last = 0 /\ ~hasSyncToLatest
      /\ stored = {} /\ syncInfo = 0 /\ unsaved = {} /\ unparsed = {}
      /\ \A b \in Blocks : parsed[b] = 0
  BY DEF Init, Fresh, Blocks
<1>6. ShapeInv
  BY <1>2, <1>3, <1>5, WorkerSet DEF ShapeInv, WorkerShape, Rests
<1>7. RangeInv
  BY <1>5 DEF RangeInv
<1>8. ScanInv
  BY <1>2, <1>3 DEF ScanInv, WorkerScan
<1>9. SafeInv
  <2>1. Origin \in Nat /\ Origin > 0
    BY SetupFacts, Constants DEF Origin, Init
  <2> QED
    BY <1>2, <1>4, <1>5, <2>1 DEF SafeInv
<1>10. DepthInv
  <2>1. head \in Nat
    BY <1>1, HeadTypes
  <2> QED
    BY <1>2, <1>3, <1>5, <2>1 DEF DepthInv, WorkerDepth
<1>11. OnceInv
  <2>1. \A b \in Blocks : ~Touched(b)
    BY <1>3, <1>5 DEF Touched
  <2>2. \A b \in Blocks : \A w \in Workers : WorkerOnce(w, b)
    BY <1>2, <1>3, <1>5, <2>1 DEF WorkerOnce
  <2> QED
    BY <1>3, <1>5, <2>1, <2>2 DEF OnceInv, BlockOnce
<1>12. StartInv /\ ResumeInv /\ LoopInv /\ RepairInv
  BY <1>5 DEF StartInv, ResumeInv, LoopInv, RepairInv
<1>13. LagInv
  <2>1. Origin \in Nat /\ Origin > 0
    BY <1>1, OriginFacts
  <2> QED
    BY <1>5, <2>1, Constants DEF LagInv
<1> QED
  BY <1>1, <1>6, <1>7, <1>8, <1>9, <1>10, <1>11, <1>12, <1>13 DEF IInv

\* The variables keep their types, and no channel of the syncer holds more messages than its
\* capacity.
THEOREM TypeCorrect == Spec => []TypeOK
<1>1. Init => TypeOK
  BY InitTypes
<1>2. TypeOK /\ [Next]_vars => TypeOK'
  BY TypesStep
<1> QED
  BY <1>1, <1>2, PTL DEF Spec

\* The inductive invariant holds in every behaviour: whatever the goroutines, the chain,
\* the database failures and the crashes do.
THEOREM Inductive == Spec => []IInv
<1>1. Init => IInv
  BY InitIInv
<1>2. IInv /\ [Next]_vars => IInv'
  <2> SUFFICES ASSUME IInv, [Next]_vars PROVE IInv'
    OBVIOUS
  <2>1. TypeOK /\ ShapeInv /\ RangeInv /\ ScanInv /\ SafeInv /\ RepairInv /\ DepthInv
        /\ OnceInv /\ StartInv /\ ResumeInv /\ LoopInv /\ LagInv
    BY DEF IInv
  <2>2. TypeOK'
    BY <2>1, TypesStep
  <2>3. ShapeInv'
    BY <2>1, ShapeStep
  <2>4. RangeInv'
    BY <2>1, RangesStep
  <2>5. ScanInv'
    BY <2>1, <2>2, ScanStep
  <2>6. SafeInv'
    BY <2>1, <2>2, SafeStep
  <2>7. DepthInv'
    BY <2>1, <2>2, DepthStep
  <2>8. OnceInv'
    BY <2>1, <2>2, <2>3, OnceStep
  <2>9. StartInv'
    BY <2>1, <2>2, StartStep
  <2>10. ResumeInv'
    BY <2>1, <2>2, ResumeStep
  <2>11. LoopInv'
    BY <2>1, <2>2, LoopStep
  <2>12. LagInv'
    BY <2>1, <2>2, LagStep
  <2>13. RepairInv'
    BY <2>1, <2>2, RepairStep
  <2> QED
    BY <2>2, <2>3, <2>4, <2>5, <2>6, <2>7, <2>8, <2>9, <2>10, <2>11, <2>12, <2>13 DEF IInv
<1> QED
  BY <1>1, <1>2, PTL DEF Spec

\* dipatchWork hands every height of the catch-up range to exactly one worker.
THEOREM RangesPartitioned == Spec => []ExactPartition
<1>1. IInv => ExactPartition
  BY PartitionExact DEF IInv
<1> QED
  BY <1>1, Inductive, PTL

\* No block is fetched, queued or stored before it lies Stable blocks deep.
THEOREM StableOnly == Spec => []StableDistance
<1>1. IInv => StableDistance
  BY DepthKept DEF IInv
<1> QED
  BY <1>1, Inductive, PTL

\* A restart resumes behind SyncInfo.Number, and no height up to it is missing.
THEOREM RestartsBehindNothing == Spec => []SyncInfoCovers
<1>1. IInv => SyncInfoCovers
  BY DEF IInv, SafeInv, Safe, Covered, SyncInfoCovers
<1> QED
  BY <1>1, Inductive, PTL

\* WaitSyncToLatest returns, and a run with --syncto ends, only when the whole catch-up
\* range is stored, but for a block whose AddBlock was given up, and that not the only write
\* that was, and parsed, but for transactions whose parse a crash cut off.
THEOREM CatchUpComplete == Spec => []CaughtUp
<1>1. IInv => CaughtUp
  <2> SUFFICES ASSUME IInv, hasSyncToLatest \/ phase = "done", NEW b \in start .. (last - 1)
               PROVE  /\ OnlySyncAccount \/ b \in stored \/ (b \in unsaved /\ dbFails > 1)
                      /\ parsed[b] > 0 \/ b \in unparsed
    BY DEF CaughtUp
  <2>1. phase \in {"looping", "done"}
    BY DEF IInv, ShapeInv
  <2>2. Saved(b) /\ Parsed(b)
    BY <2>1 DEF IInv, SafeInv
  <2>3. OnlySyncAccount \/ b \in stored \/ dbFails >= 2
    BY <2>1 DEF IInv, RepairInv
  <2>4. dbFails \in Int
    BY DEF IInv, TypeOK
  <2> QED
    BY <2>2, <2>3, <2>4 DEF Saved, Parsed
<1> QED
  BY <1>1, Inductive, PTL

\* The receipts of a block are applied a second time only when its AddBlock was lost.
THEOREM AppliedOnce == Spec => []ParsedOnce
<1>1. IInv => ParsedOnce
  <2> SUFFICES ASSUME IInv, ~Overwrite, ~OnlySyncAccount,
                      NEW b \in DOMAIN parsed, b \notin unsaved
               PROVE  ~(parsed[b] > 1)
    BY DEF ParsedOnce
  <2>1. b \in Blocks /\ parsed[b] \in Nat
    BY TypeParts DEF IInv, DBTypes
  <2>2. parsed[b] <= 1
    BY <2>1 DEF IInv, OnceInv, BlockOnce
  <2> QED
    BY <2>1, <2>2
<1> QED
  BY <1>1, Inductive, PTL

\* A block that lies MaxParseBlocks behind the sync info has been parsed: the barrier of
\* startParser bounds how far parseBlock runs ahead of parseTransactions.
THEOREM LagBounded == Spec => []ParsedBehindSyncInfo
<1>1. IInv => ParsedBehindSyncInfo
  BY DEF IInv, LagInv, Parsed, ParsedBehindSyncInfo
<1> QED
  BY <1>1, Inductive, PTL
=============================================================================
