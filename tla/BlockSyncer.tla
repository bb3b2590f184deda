---------------------------- MODULE BlockSyncer ----------------------------
(***************************************************************************)
(* The block syncer (src/syncer/sync.go, src/syncer/parse.go): a main      *)
(* goroutine cuts the missing heights into ranges, one worker goroutine    *)
(* per range fetches blocks and hands them over a channel to a parser      *)
(* goroutine, which starts for every block one goroutine that stores the   *)
(* block and advances the sync info and one that parses its transactions.  *)
(* Then a check worker repairs the whole range and a loop worker follows   *)
(* the head of the chain for ever.  The database outlives a crash; nothing *)
(* else does.                                                              *)
(*                                                                         *)
(* A block is its number (only blocks at stable depth are meant to be read,*)
(* so no two hashes share a number), all the transactions of a block are   *)
(* one transaction, and an RPC or query error that the code answers with   *)
(* "sleep and try again" is a step that has not happened yet.              *)
(***************************************************************************)
EXTENDS Integers, Sequences, FiniteSets

CONSTANTS
  Setups,           \* the runs to look at: a set of records, see SetupType
  Stable,           \* Sync.Stable of the configuration
  JobCount,         \* at most this many workers
  MinWorkBlocks,    \* 100 in the code
  RangeStep,        \* 10000 in the code
  ChanSize,         \* 100 in the code
  CheckChanSize,    \* 10 in the code, the channel of the check worker
  MaxParseBlocks,   \* 1000 in the code
  CreationHeight    \* params.GetMinExchangeCreationHeight()

\* How the program is started, and how far its environment is followed.
SetupType ==
  [syncStart : Nat,           \* --syncfrom; 0: read it from the database
   syncEnd : Nat,             \* --syncto (excluded); 0: endless
   overwrite : BOOLEAN,       \* --overwrite
   onlySyncAccount : BOOLEAN, \* the run only collects accounts
   firstHead : Nat,           \* head of the chain when the program starts first
   maxHead : Nat,             \* bound: the chain grows up to here
   maxCrashes : Nat,          \* bound: crashes
   maxDBFails : Nat]          \* bound: database calls whose three tries all fail

ASSUME ConstantsAssumption ==
  /\ Setups \subseteq SetupType
  /\ \A s \in Setups : s.firstHead <= s.maxHead
  /\ Stable \in Nat
  /\ {JobCount, RangeStep, ChanSize, CheckChanSize, MaxParseBlocks,
      CreationHeight} \subseteq Nat \ {0}
  /\ MinWorkBlocks \in Nat \ {0, 1}

CheckWorker == -1
LoopWorker  == 0
Workers     == -1 .. JobCount

Nil == -1                 \* the nil message that ends a parser

VARIABLES
  setup,      \* the arguments, the same at every restart
  \* the chain
  head,       \* number of its latest block
  \* the database, which survives a crash
  stored,     \* numbers in the Blocks collection
  parsed,     \* parsed[b]: how often the transactions of b were parsed and saved
  syncInfo,   \* SyncInfo.Number
  \* the syncer goroutine
  phase, start, last, active, hasSyncToLatest,
  \* the workers
  wpc, wstart, wend, height, latest, rangeEnd, to, known,
  \* the channels, the parsers and their goroutines
  chan, ppc, count, adding, marking, parsing,
  \* history
  crashes, dbFails,
  unsaved,    \* blocks whose AddBlock was lost: tries exhausted, or a crash first
  unparsed    \* blocks whose parse was cut off by a crash

db      == <<stored, parsed, syncInfo>>
main    == <<phase, start, last, active, hasSyncToLatest>>
wrk     == <<wpc, wstart, wend, height, latest, rangeEnd, to, known>>
par     == <<ppc, count, adding, marking, parsing>>
history == <<crashes, dbFails, unsaved, unparsed>>
vars    == <<setup, head, db, main, wrk, chan, par, history>>

SyncStart       == setup.syncStart
SyncEnd         == setup.syncEnd
Overwrite       == setup.overwrite
OnlySyncAccount == setup.onlySyncAccount
MaxHead         == setup.maxHead

Least(a, b) == IF a <= b THEN a ELSE b

----------------------------------------------------------------------------
\* getStartAndLast

\* found: FindLatestSyncInfo returned no error
FirstHeight(found) ==
  IF SyncStart /= 0 THEN SyncStart
  ELSE IF found /\ syncInfo /= 0 THEN syncInfo + 1 ELSE CreationHeight

\* Mutant: the end is taken as the last block and then excluded again.
LastHeightTwiceExcluded ==
  IF SyncEnd /= 0 THEN SyncEnd - 1 ELSE IF head > Stable THEN head - Stable ELSE head

LastHeight ==
  IF SyncEnd /= 0 THEN SyncEnd ELSE IF head > Stable THEN head - Stable ELSE head

\* dipatchWork: how many workers, and the half-open range of each

BlockCount(s, l)  == IF l > s THEN l - s ELSE 1
WorkerCount(s, l) ==
  LET n == BlockCount(s, l) \div MinWorkBlocks
  IN  IF n > JobCount THEN JobCount ELSE IF n = 0 THEN 1 ELSE n
StepCount(s, l) == BlockCount(s, l) \div WorkerCount(s, l)

WorkerStart(s, l, i) == s + (i - 1) * StepCount(s, l)

\* Mutants: ranges that are taken as closed, and a remainder that nobody gets.
WorkerEndClosed(s, l, i) ==
  IF i = WorkerCount(s, l) THEN l ELSE s + i * StepCount(s, l) + 1
WorkerEndNoRest(s, l, i) == s + i * StepCount(s, l)

WorkerEnd(s, l, i) ==
  IF i = WorkerCount(s, l) THEN l ELSE s + i * StepCount(s, l)

----------------------------------------------------------------------------
Each(v) == [w \in Workers |-> v]

\* A process that has just been started: no goroutine but main.
Fresh ==
  /\ phase = "boot" /\ start = SyncStart /\ last = 0 /\ active = {}
  /\ hasSyncToLatest = FALSE
  /\ wpc = Each("idle") /\ wstart = Each(0) /\ wend = Each(0) /\ height = Each(0)
  /\ latest = Each(0) /\ rangeEnd = Each(0) /\ to = Each(0)
  /\ known = Each({}) /\ chan = Each(<<>>)
  /\ ppc = Each("idle") /\ count = Each(0) /\ adding = Each({})
  /\ marking = Each({}) /\ parsing = Each({})

Restarted ==
  /\ phase' = "boot" /\ start' = SyncStart /\ last' = 0 /\ active' = {}
  /\ hasSyncToLatest' = FALSE
  /\ wpc' = Each("idle") /\ wstart' = Each(0) /\ wend' = Each(0)
  /\ height' = Each(0) /\ latest' = Each(0) /\ rangeEnd' = Each(0)
  /\ to' = Each(0)
  /\ known' = Each({}) /\ chan' = Each(<<>>)
  /\ ppc' = Each("idle") /\ count' = Each(0) /\ adding' = Each({})
  /\ marking' = Each({}) /\ parsing' = Each({})

Init ==
  /\ setup \in Setups
  /\ head = setup.firstHead
  /\ stored = {}
  /\ parsed = [b \in 0 .. MaxHead |-> 0]
  /\ syncInfo = 0
  /\ Fresh
  /\ crashes = 0
  /\ dbFails = 0
  /\ unsaved = {}
  /\ unparsed = {}

\* Starts doSync of the workers in ws with range [s[w], e[w]).
StartWorkers(ws, s, e) ==
  /\ wpc' = [w \in Workers |-> IF w \in ws THEN "top" ELSE wpc[w]]
  /\ wstart' = [w \in Workers |-> IF w \in ws THEN s[w] ELSE wstart[w]]
  /\ wend' = [w \in Workers |-> IF w \in ws THEN e[w] ELSE wend[w]]
  /\ height' = [w \in Workers |-> IF w \in ws THEN s[w] ELSE height[w]]
  /\ latest' = [w \in Workers |-> IF w \in ws THEN e[w] ELSE latest[w]]
  /\ ppc' = [w \in Workers |-> IF w \in ws THEN "run" ELSE ppc[w]]
  /\ UNCHANGED <<rangeEnd, to, known, chan, count, adding, marking, parsing>>

----------------------------------------------------------------------------
\* The syncer goroutine

DBFail == dbFails < setup.maxDBFails /\ dbFails' = dbFails + 1

\* initConfig, applyArguments: an explicit start resets the sync info, unless
\* UpdateSyncInfo fails.
Boot ==
  /\ phase = "boot"
  /\ phase' = "dispatch"
  /\ \/ /\ syncInfo' = IF SyncStart /= 0 /\ SyncEnd = 0 THEN SyncStart ELSE syncInfo
        /\ UNCHANGED dbFails
     \/ SyncStart /= 0 /\ SyncEnd = 0 /\ DBFail /\ UNCHANGED syncInfo
  /\ UNCHANGED <<setup, head, stored, parsed, start, last, active, hasSyncToLatest,
                 wrk, chan, par, crashes, unsaved, unparsed>>

\* dipatchWork from height first: no need to sync block
NothingToSync(first) ==
  /\ SyncEnd /= 0 /\ LastHeight <= first
  /\ phase' = "done"
  /\ UNCHANGED <<start, last, active, wrk, chan, par>>

\* Too few blocks are left to the loop worker.
LeaveToLoop(first) ==
  /\ SyncEnd = 0 /\ BlockCount(first, LastHeight) < MinWorkBlocks
  /\ phase' = "loop"
  /\ start' = first
  /\ last' = first
  /\ UNCHANGED <<active, wrk, chan, par>>

\* doWork starts the workers that dipatchWork has appended.
StartSync(first) ==
  /\ SyncEnd /= 0 => LastHeight > first
  /\ SyncEnd = 0 => BlockCount(first, LastHeight) >= MinWorkBlocks
  /\ phase' = "sync"
  /\ start' = first
  /\ last' = LastHeight
  /\ active' = 1 .. WorkerCount(first, LastHeight)
  /\ StartWorkers(active',
                  [w \in active' |-> WorkerStart(first, LastHeight, w)],
                  [w \in active' |-> WorkerEnd(first, LastHeight, w)])

Dispatch ==
  /\ phase = "dispatch"
  /\ \E found \in BOOLEAN :
       /\ IF found THEN UNCHANGED dbFails ELSE SyncStart = 0 /\ DBFail
       /\ \/ NothingToSync(FirstHeight(found))
          \/ LeaveToLoop(FirstHeight(found))
          \/ StartSync(FirstHeight(found))
  /\ UNCHANGED <<setup, head, db, hasSyncToLatest, crashes, unsaved, unparsed>>

\* Mutant: the parsers are not waited for.
FinishedFetching(ws) == \A w \in ws : wpc[w] = "done"

\* wg.Wait(): a worker counts twice, for doSync and for its parser.
Finished(ws) == \A w \in ws : wpc[w] = "done" /\ ppc[w] = "done"

AfterSync == IF SyncEnd = 0 THEN "loop" ELSE "done"

\* doSyncWork: the workers are done; checkSync goes over the range again.
CheckSync ==
  /\ phase = "sync" /\ Finished(active)
  /\ IF OnlySyncAccount
       THEN /\ phase' = AfterSync
            /\ UNCHANGED <<active, wrk, chan, par>>
       ELSE /\ phase' = "check"
            /\ active' = active \cup {CheckWorker}
            /\ StartWorkers({CheckWorker}, [w \in {CheckWorker} |-> start],
                                           [w \in {CheckWorker} |-> last])
  /\ UNCHANGED <<setup, head, db, start, last, hasSyncToLatest, history>>

CheckSyncDone ==
  /\ phase = "check" /\ Finished({CheckWorker})
  /\ phase' = AfterSync
  /\ UNCHANGED <<setup, head, db, start, last, active, hasSyncToLatest, wrk, chan, par,
                 history>>

\* Mutant: the end of the range was excluded, and is forgotten.
LoopFromNext == last + 1

\* doLoopWork: the loop goes on where the range ended.
LoopFrom == last

\* doLoopWork: go loopWorker.doSync(wg) ...
StartLoop ==
  /\ phase = "loop"
  /\ phase' = "looping"
  /\ active' = active \cup {LoopWorker}
  /\ StartWorkers({LoopWorker}, [w \in {LoopWorker} |-> LoopFrom],
                                [w \in {LoopWorker} |-> 0])
  /\ UNCHANGED <<setup, head, db, start, last, hasSyncToLatest, history>>

\* ... and only then hasSyncToLatest = true.
SetSynced ==
  /\ phase = "looping" /\ ~hasSyncToLatest
  /\ hasSyncToLatest' = TRUE
  /\ UNCHANGED <<setup, head, db, phase, start, last, active, wrk, chan, par, history>>

----------------------------------------------------------------------------
\* doSync and syncRange of worker w

ChanCap(w) == IF w = CheckWorker THEN CheckChanSize ELSE ChanSize

HasRoom(w) == Len(chan[w]) < ChanCap(w)

\* The header is asked for only when the cached one does not reach far enough.
Newest(w) == IF height[w] + Stable > latest[w] THEN head ELSE latest[w]

\* Mutant: the newest block counts as stable.
DeepestAtHead(w) == Newest(w)

Deepest(w) == Newest(w) - Stable

\* Mutant: the end of the range is taken for one of its heights.
RangeOverLate(w) == wend[w] > 0 /\ height[w] > wend[w]

\* The half-open range of the worker is finished; the loop worker's never is.
RangeOver(w) == wend[w] > 0 /\ height[w] >= wend[w]

\* doSync: the next stretch of heights that are deep enough.
NextRange(w) ==
  /\ wpc[w] = "top"
  /\ ~RangeOver(w)
  /\ height[w] + Stable <= Newest(w)
  /\ latest' = [latest EXCEPT ![w] = Newest(w)]
  /\ rangeEnd' = [rangeEnd EXCEPT ![w] =
                    IF wend[w] > 0 /\ Deepest(w) >= wend[w] THEN wend[w] - 1
                                                           ELSE Deepest(w)]
  /\ wpc' = [wpc EXCEPT ![w] = "range"]
  /\ UNCHANGED <<setup, head, db, main, wstart, wend, height, to, known, chan, par, history>>

\* doSync: messageChan <- nil, which waits for room, and then the deferred close
\* and wg.Done: a worker that is done has closed its channel.
EndSync(w) ==
  /\ wpc[w] = "top"
  /\ RangeOver(w)
  /\ HasRoom(w)
  /\ chan' = [chan EXCEPT ![w] = Append(@, Nil)]
  /\ wpc' = [wpc EXCEPT ![w] = "done"]
  /\ UNCHANGED <<setup, head, db, main, wstart, wend, height, latest, rangeEnd, to, known,
                 par, history>>

\* syncRange: one query per RangeStep heights; a full answer skips them all.
FindBlocksInRange(w) ==
  LET upto  == Least(height[w] + RangeStep - 1, rangeEnd[w])
      found == stored \cap (height[w] .. upto)
  IN
  /\ wpc[w] = "range"
  /\ IF height[w] > rangeEnd[w]
       THEN /\ wpc' = [wpc EXCEPT ![w] = "top"]
            /\ UNCHANGED <<height, to, known>>
       ELSE IF ~Overwrite /\ Cardinality(found) = upto - height[w] + 1
         THEN /\ height' = [height EXCEPT ![w] = upto + 1]
              /\ UNCHANGED <<wpc, to, known>>
         ELSE /\ wpc' = [wpc EXCEPT ![w] = "fetch"]
              /\ to' = [to EXCEPT ![w] = upto]
              /\ known' = [known EXCEPT ![w] = found]
              /\ UNCHANGED height
  /\ UNCHANGED <<setup, head, db, main, wstart, wend, latest, rangeEnd, chan, par, history>>

MustFetch(w) == Overwrite \/ height[w] \notin known[w]

\* syncRange, inner loop: BlockByNumber, getReceipts and Parse of one height.
\* A block the chain does not have yet is an error that is tried again.
FetchBlock(w) ==
  /\ wpc[w] = "fetch" /\ height[w] <= to[w]
  /\ IF MustFetch(w)
       THEN /\ height[w] <= head
            /\ HasRoom(w)
            /\ chan' = [chan EXCEPT ![w] = Append(@, height[w])]
       ELSE UNCHANGED chan
  /\ height' = [height EXCEPT ![w] = @ + 1]
  /\ UNCHANGED <<setup, head, db, main, wpc, wstart, wend, latest, rangeEnd, to, known, par,
                 history>>

EndRange(w) ==
  /\ wpc[w] = "fetch" /\ height[w] > to[w]
  /\ wpc' = [wpc EXCEPT ![w] = "range"]
  /\ known' = [known EXCEPT ![w] = {}]
  /\ UNCHANGED <<setup, head, db, main, wstart, wend, height, latest, rangeEnd, to, chan, par,
                 history>>

----------------------------------------------------------------------------
\* startParser of worker w, and the goroutines it starts

Quiet(w) == adding[w] = {} /\ marking[w] = {} /\ parsing[w] = {}

\* What a receive finds: a channel that is closed and empty yields nil, too.
Readable(w) == IF chan[w] = <<>> /\ wpc[w] = "done" THEN <<Nil>> ELSE chan[w]

\* A message starts parseBlock and parseTransactions; after MaxParseBlocks of
\* them the parser waits for all it has started.
Receive(w) ==
  /\ ppc[w] = "run"
  /\ Readable(w) /= <<>>
  /\ chan' = [chan EXCEPT ![w] = Tail(Readable(w))]
  /\ LET msg == Head(Readable(w)) IN
     IF msg = Nil
       THEN /\ ppc' = [ppc EXCEPT ![w] = "drain"]
            /\ UNCHANGED <<count, adding, parsing>>
       ELSE /\ adding' = [adding EXCEPT ![w] =
                            IF OnlySyncAccount THEN @ ELSE @ \cup {msg}]
            /\ parsing' = [parsing EXCEPT ![w] = @ \cup {msg}]
            /\ count' = [count EXCEPT ![w] = (@ + 1) % MaxParseBlocks]
            /\ ppc' = [ppc EXCEPT ![w] =
                         IF count[w] + 1 = MaxParseBlocks THEN "barrier" ELSE "run"]
  /\ UNCHANGED <<setup, head, db, main, wrk, marking, history>>

\* Mutant: the parser goes on at once after MaxParseBlocks blocks.
BatchDoneAtOnce(w) ==
  /\ ppc[w] = "barrier"
  /\ ppc' = [ppc EXCEPT ![w] = "run"]
  /\ UNCHANGED <<setup, head, db, main, wrk, chan, count, adding, marking, parsing, history>>

\* wg2.Wait(): between batches, and (deferred) before the parser ends.
BatchDone(w) ==
  /\ ppc[w] = "barrier" /\ Quiet(w)
  /\ ppc' = [ppc EXCEPT ![w] = "run"]
  /\ UNCHANGED <<setup, head, db, main, wrk, chan, count, adding, marking, parsing, history>>

ParserDone(w) ==
  /\ ppc[w] = "drain" /\ Quiet(w)
  /\ ppc' = [ppc EXCEPT ![w] = "done"]
  /\ UNCHANGED <<setup, head, db, main, wrk, chan, count, adding, marking, parsing, history>>

\* parseBlock: TryDoTimes(AddBlock), whose error is dropped; only a loop worker
\* that finds hasSyncToLatest set goes on to the sync info.
AddBlock(w, b) ==
  /\ b \in adding[w]
  /\ adding' = [adding EXCEPT ![w] = @ \ {b}]
  /\ \/ /\ stored' = stored \cup {b}
        /\ UNCHANGED <<dbFails, unsaved>>
     \/ /\ DBFail
        /\ unsaved' = unsaved \cup {b}
        /\ UNCHANGED stored
  /\ marking' = [marking EXCEPT ![w] =
                   IF wend[w] = 0 /\ hasSyncToLatest THEN @ \cup {b} ELSE @]
  /\ UNCHANGED <<setup, head, parsed, syncInfo, main, wrk, chan, ppc, count, parsing,
                 crashes, unparsed>>

\* parseBlock: TryDoTimes(UpdateSyncInfo) sets the number, whatever it was, or
\* fails three times and leaves it.
UpdateSyncInfo(w, b) ==
  /\ b \in marking[w]
  /\ marking' = [marking EXCEPT ![w] = @ \ {b}]
  /\ \/ /\ syncInfo' = b
        /\ UNCHANGED dbFails
     \/ /\ DBFail
        /\ UNCHANGED syncInfo
  /\ UNCHANGED <<setup, head, stored, parsed, main, wrk, chan, ppc, count, adding, parsing,
                 crashes, unsaved, unparsed>>

\* parseTransactions and parseTx: the receipts of the block are applied.
ParseTransactions(w, b) ==
  /\ b \in parsing[w]
  /\ parsing' = [parsing EXCEPT ![w] = @ \ {b}]
  /\ parsed' = [parsed EXCEPT ![b] = @ + 1]
  /\ UNCHANGED <<setup, head, stored, syncInfo, main, wrk, chan, ppc, count, adding, marking,
                 history>>

----------------------------------------------------------------------------
\* The environment

NewBlock ==
  /\ head < MaxHead
  /\ head' = head + 1
  /\ UNCHANGED <<setup, db, main, wrk, chan, par, history>>

\* Blocks a worker has fetched and not dealt with.
Queued(w)      == {chan[w][i] : i \in DOMAIN chan[w]} \ {Nil}
UnsavedNow(w)  == IF OnlySyncAccount THEN {} ELSE Queued(w) \cup adding[w]
UnparsedNow(w) == Queued(w) \cup parsing[w]

\* The process dies and is started again with the same arguments.
Crash ==
  /\ phase /= "boot"
  /\ crashes < setup.maxCrashes
  /\ crashes' = crashes + 1
  /\ unsaved' = unsaved \cup UNION {UnsavedNow(w) : w \in Workers}
  /\ unparsed' = unparsed \cup UNION {UnparsedNow(w) : w \in Workers}
  /\ Restarted
  /\ UNCHANGED <<setup, head, db, dbFails>>

----------------------------------------------------------------------------
Worker(w) ==
  \/ NextRange(w)
  \/ EndSync(w)
  \/ FindBlocksInRange(w)
  \/ FetchBlock(w)
  \/ EndRange(w)

Parser(w) ==
  \/ Receive(w)
  \/ BatchDone(w)
  \/ ParserDone(w)

Syncer ==
  \/ Boot
  \/ Dispatch
  \/ CheckSync
  \/ CheckSyncDone
  \/ StartLoop
  \/ SetSynced

Next ==
  \/ Syncer
  \/ \E w \in Workers : Worker(w) \/ Parser(w)
  \/ \E w \in Workers : \E b \in adding[w] : AddBlock(w, b)
  \/ \E w \in Workers : \E b \in marking[w] : UpdateSyncInfo(w, b)
  \/ \E w \in Workers : \E b \in parsing[w] : ParseTransactions(w, b)
  \/ NewBlock
  \/ Crash

\* Go runs every goroutine that can run, an RPC that is retried for ever
\* succeeds at last, and the chain goes on (up to the bound).
Fairness ==
  /\ WF_vars(Syncer)
  /\ WF_vars(NewBlock)
  /\ \A w \in Workers :
       /\ WF_vars(Worker(w))
       /\ WF_vars(Parser(w))
       /\ WF_vars(\E b \in adding[w] : AddBlock(w, b))
       /\ WF_vars(\E b \in marking[w] : UpdateSyncInfo(w, b))
       /\ WF_vars(\E b \in parsing[w] : ParseTransactions(w, b))

Spec     == Init /\ [][Next]_vars
FairSpec == Spec /\ Fairness

----------------------------------------------------------------------------
\* Properties

\* The variables have their types, and no channel holds more than its capacity.
TypeOK ==
  /\ setup \in Setups
  /\ head \in setup.firstHead .. MaxHead
  /\ stored \subseteq 0 .. MaxHead
  /\ parsed \in [0 .. MaxHead -> Nat]
  /\ syncInfo \in Nat
  /\ phase \in {"boot", "dispatch", "sync", "check", "loop", "looping", "done"}
  /\ start \in Nat /\ last \in Nat
  /\ active \subseteq Workers
  /\ hasSyncToLatest \in BOOLEAN
  /\ wpc \in [Workers -> {"idle", "top", "range", "fetch", "done"}]
  /\ wstart \in [Workers -> Nat] /\ wend \in [Workers -> Nat]
  /\ height \in [Workers -> Nat] /\ latest \in [Workers -> Nat]
  /\ rangeEnd \in [Workers -> Int] /\ to \in [Workers -> Int]
  /\ known \in [Workers -> SUBSET (0 .. MaxHead)]
  /\ chan \in [Workers -> Seq(0 .. MaxHead \cup {Nil})]
  /\ \A w \in Workers : Len(chan[w]) <= ChanCap(w)
  /\ ppc \in [Workers -> {"idle", "run", "barrier", "drain", "done"}]
  /\ count \in [Workers -> 0 .. MaxParseBlocks - 1]
  /\ adding \in [Workers -> SUBSET (0 .. MaxHead)]
  /\ marking \in [Workers -> SUBSET (0 .. MaxHead)]
  /\ parsing \in [Workers -> SUBSET (0 .. MaxHead)]
  /\ crashes \in 0 .. setup.maxCrashes /\ dbFails \in 0 .. setup.maxDBFails
  /\ unsaved \subseteq 0 .. MaxHead /\ unparsed \subseteq 0 .. MaxHead

\* The first height this database was ever meant to hold.
Origin == IF SyncStart /= 0 THEN SyncStart ELSE CreationHeight

UnsavedNowAll  == UNION {UnsavedNow(w) : w \in Workers}
UnparsedNowAll == UNION {UnparsedNow(w) : w \in Workers}

\* Nothing is read from the chain before it lies Stable blocks deep: every block
\* fetched, queued or stored keeps that distance to the head.  (With --syncto
\* doSync takes the end for a header it has seen, and the distance is not kept
\* when that end lies ahead of the chain.)
StableDistance ==
  SyncEnd = 0 =>
    \A b \in stored \cup UnsavedNowAll \cup UnparsedNowAll : b + Stable <= head

\* dipatchWork hands every height of [start, last) to exactly one worker.
ExactPartition ==
  phase = "sync" =>
    \A b \in start .. (last - 1) :
      Cardinality({w \in active : wstart[w] <= b /\ b < wend[w]}) = 1

\* WaitSyncToLatest returns, and a run with --syncto ends, only when the whole
\* catch-up range is in the database and its transactions have been parsed.  A crash
\* in the range, or one AddBlock that is given up, is made good by the next start and
\* the check pass: to lose a block it takes a second write that is given up.
\* (Transactions whose parse a crash cut off after the block was stored are not
\* parsed again.)
CaughtUp ==
  hasSyncToLatest \/ phase = "done" =>
    \A b \in start .. (last - 1) :
      /\ OnlySyncAccount \/ b \in stored \/ (b \in unsaved /\ dbFails > 1)
      /\ parsed[b] > 0 \/ b \in unparsed

\* A restart resumes behind SyncInfo.Number, so no height up to it may be missing
\* that is neither on its way through a parser nor a recorded loss.  (--syncfrom sets
\* the number to the first height, before that block is stored.)
SyncInfoCovers ==
  \A b \in Origin .. syncInfo :
    OnlySyncAccount \/ b = SyncStart \/ b \in stored \cup unsaved \cup UnsavedNowAll

\* The sync info is what the distribution job waits for (waitCycleEnd), but it is
\* set when a block is stored, not when its receipts are in the database.  The barrier
\* of the parser bounds how far it runs ahead: a block that lies MaxParseBlocks behind
\* the sync info has been parsed, or its parse was cut off by a crash.  A job whose
\* StableHeight is smaller than MaxParseBlocks - 1 has no such promise.
ParsedBehindSyncInfo ==
  \A b \in Origin .. (syncInfo - MaxParseBlocks) : parsed[b] > 0 \/ b \in unparsed

\* The receipts of a block are applied to the volumes a second time only after
\* its AddBlock was lost once, or with --overwrite, or in an account-only run,
\* which stores no block.
ParsedOnce ==
  ~Overwrite /\ ~OnlySyncAccount =>
    \A b \in DOMAIN parsed : parsed[b] > 1 => b \in unsaved

\* The syncer goes on for ever: in the end every block that is deep enough is
\* stored and parsed, or a recorded loss.
EverythingSynced ==
  LET due == {b \in Origin .. (MaxHead - Stable) : SyncEnd = 0 \/ b < SyncEnd}
  IN  <>[](\A b \in due : /\ OnlySyncAccount \/ b \in stored \cup unsaved
                          /\ parsed[b] > 0 \/ b \in unparsed \cup unsaved)

\* Once the process is up for good, those who wait in WaitSyncToLatest go on; with
\* --syncto the syncer comes to an end instead, all its goroutines with it.
SyncerSettles ==
  <>[](IF SyncEnd = 0 THEN hasSyncToLatest
       ELSE phase = "done" /\ Finished(active))
=============================================================================
