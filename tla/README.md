# ANYToken-distribution: a TLA+ model

The program follows a blockchain, keeps what it needs of it in MongoDB, and
computes and sends rewards to those who traded on, or gave liquidity to, the
configured exchanges. This directory holds TLA+ modules of its core, TLC
configurations that check them on small instances, and TLAPS proofs that most of what is
checked holds for every value of the constants. Names follow the Go source.

## The system

| part | state it keeps | operations | hard because |
|---|---|---|---|
| block syncer `syncer/sync.go`, `parse.go` | worker ranges, channels, `hasSyncToLatest`; Blocks and SyncInfo in the database | dispatch, fetch, parse, check pass, follow the head | many goroutines, bounded channels, barriers, crashes between database writes |
| receipt parser `syncer/parsereceipt.go`, `exchanges.go` | Accounts, TokenAccounts, VolumeHistory, Volumes, Transactions in the database | one goroutine per transaction applies its logs | concurrent read-modify-write, repeated parses, writes that fail one by one |
| reward arithmetic `mongodb/types.go` | none | sort, divide, divide by weight, divide again | rounding, nil and zero cases, lists changed in place |
| rewards by volume `distributer/byvolume.go`, `option.go` | lists of statistics, steps without volume | load, divide, spread, send | two divisions, an intersection over exchanges |
| rewards by liquidity `distributer/byliquidity.go` | LiquidityBalances (a cache) | read balances, share, send | the chain moves while it is read; restarts with a half-filled cache |
| sending `distributer/sendtx.go`, `dispatchrewards.go`, `option.go` | nonce, output files, reward records | check balance, send, write line, write record | lost replies, crashes, dry and real runs, a shared account |
| distribution job `distributer/distribute.go`, `cmd/distribute/calcrewards.go` | current cycle of two goroutines | wait, sample, settle; settle one range by hand | unsigned arithmetic, polling a value that goes back, one global random source |
| block by timestamp `distributer/util.go` | search interval | wait, stride back, binary search | boundaries; asking for a block that does not exist blocks for ever |
| daily liquidity `worker/updateliquidity.go` | Liquidity records | one record per exchange and day, from where the records end | a day that is left out once is left out for ever; errors look like an empty database |
| database connection `mongodb/dbinit.go` | session and collections as package variables | ping, refresh, close, dial | replaced while in use; a closed session panics |
| import `cmd/distribute/importrewards.go` | reward records | verify a file, write its lines | after a crash, between two runs, with dropped errors |
| configuration `params/` | the stable heights, weights and cycles | check, adjust | read once; other parts rely on it |
| node API, command line, insertaccount, log, build | none of their own | | not modelled |

The parts share the database and the node. The syncer writes Blocks and SyncInfo;
the parser, started by it, writes Accounts and VolumeHistory; the job polls
SyncInfo and calls ByVolume and ByLiquidity, which read VolumeHistory and Accounts
and hand their lists to the sending part. The job itself runs both with
`DryRun: true`, so what it settles is a file and the payment is a later
`sendrewards`. `importrewards` brings the database up to an output file. The daily
worker shares with the job the search for a block, and with all of them the one
database session. `hazards` in PROJECT.json lists where each part can go wrong, with the line.

What makes the parts correct: every stable block is stored and parsed, none is
hidden behind the sync info; every trade counts once; a total is divided without
losing or inventing a unit; no more than the total is sent; a run pays each line
at most once and its records are true; every cycle is settled once, from final
blocks; the search returns the first block of its time; every exchange has one record
for every day.

## Modules

`BlockSyncer`. The syncer goroutine (`phase`), the workers (`wpc`, `height`,
`rangeEnd`, `to`, `known`), a channel and a parser (`ppc`) per worker, and the sets
of `parseBlock` and `parseTransactions` goroutines each parser has started
(`adding`, `marking`, `parsing`). Worker -1 is the check worker and 0 the loop
worker, as in the code; both appear only when the syncer starts them. A database
call that is retried is one action that either works or, maxDBFails times, fails
for good, as `TryDoTimes` does. `Crash` keeps the database and loses the rest.
`unsaved` and `unparsed` are history: what a crash or a given-up write lost.
A worker that ends sends nil and closes its channel; either ends the parser (`EndSync`, `Readable`).

`ReceiptStore`. One goroutine per transaction with a program counter; a log is
its kind, the contract that emitted it, its account and coins. A contract is the configured exchange,
its token, another exchange of the factory, a pair called by a configured router, or
none of these; which logs are taken depends on that and on ScanAllExchange. Reading the
volume of the day and writing it back are two actions, because they are two calls.

`RewardMath`, `DivideRewards`, `FairSplit`. The arithmetic as operators, the one
function all rewards come from as a loop-by-loop state machine, and what it
promises. The second implements the third (`FairSplitSpec`), and the operator computes
the same (`OperatorAgrees`). Sorting is `Enumerate`: the one list of a finite set that is
in the order of `Less`.

`Settlement`, `VolumeRewards`, `LiquidRewards`. Settlement is what the two ways to settle have in
common: exchanges with a list of statistics each, and dispatchRewards, which sends the lists
exchange by exchange (`DispatchRewards`). On top of it and of RewardMath, ByVolume and
ByLiquidity, step by step. Volumes, coin balances and stakes are chosen in Init.
In LiquidRewards the chain moves (`Move`), the job restarts with its cache, and the
shares may come from files (`SharesFromFile`) instead of the chain. What
`EqualShareEqualReward` allows, three units, is what the two divisions can cost: with a total
of 194, equal weights and shares of 24 and 2 on one exchange, 30 and 24 on the other, the two
accounts with 24 get 60 and 57.

`SendRewards`. One job over lists of lines; `FromFile` tells the two callers apart.
`accepted`, `pending`, `mined` and `balance` are the node; a transaction stands for
its hash. Output files are given by name, so a second run empties the first
run's file, as O_TRUNC does; the default names carry a time stamp. An import
(`ImportRewards`, `ImportLine`, `EndImport`) reads such a file between two jobs, after a
crash too; like AddVolumeRewardResult it inserts, or updates what is not empty (`Updated`).

`CycleRunner`. The two goroutines of the job, with `Word` for 2^64, and the command
`calcRewards` as a process of its own (`cpc`, `call`, `ccur`) on the same database.
Heights stand for timestamps too. `seed` is math/rand's global source of the job's
process: `Random` is some function of the last seed and the draws since, which is all the
properties use. Asking for the header of a block that is not there blocks (`Seed`).

`Params`. The checks of the configuration that relate values to each other, and what they
change: with a job, its StableHeight moves into the syncer's (`CheckDistribute`). The setups
of CycleRunner and VolumeRewards satisfy them.

`FindBlock`. The two loops of FindBlockByTimestamp and the binary search, one
action per header request, while the chain grows.

`MongoSession`. The session (`up`, `broken`) and the goroutine that checks it (`check`), as a
component: it says whether a database call may answer, may fail or panics.
`DailyLiquidity` composes it with FindBlock and the worker, and `DayLedger` is what that
composition promises: per exchange a sequence of blocks, one per day, to which steps only
append. The mapping (`Ledger`) reads the records in the order of days from the
exchange's first day on, so a hole, a wrong first day, a wrong block and a record that changes
are all steps the ledger does not have.

Operators whose comment begins with "Mutant" are not part of a model. They are
what a plausible slip in that definition would look like; each property of a passing run
is broken by one of them (PROJECT.json, `mutants`).

How a program is started (arguments, options, configuration) and how far its
environment is followed is a record, `setup`, that Init takes from the constant
`Setups` and no step changes; the MC modules list the setups. So one run covers the
modes of a component, and a property that a mode does not promise names the mode.

## Runs

| run | setups | shows |
|---|---|---|
| sync | endless; a longer catch-up without faults; --syncfrom; account-only; --syncto with --overwrite; an empty range | exact partition, each block once, stable depth, complete when waiters are released or a --syncto run has ended (one AddBlock that is given up is made good by the check pass), nothing hidden behind the sync info, parsing at most a batch behind it; everything synced, waiters released or the run ended at last |
| divideRewards | all lists of up to three shares | refinement, agreement with the operator, the inductive invariant |
| volume | a cycle of two steps; one step with a staker and a scaled limit; percentages without steps, and ones that are refused | the withheld steps, the sent total |
| liquid | archive mode with a restart; an account missing from the list; latest block with an excluded account; share files | shares come from the sample, or the files, whatever moves; the total is sent to the unit |
| send | files with scaling and malformed lines; calculated lists with records, dry and real | once per run, all if it ends well, true records, records restored by an import, with a lost reply, crash or refusal anywhere and a second start |
| cycle | whole cycles with a restart and an error; quick mode with both goroutines drawing; no archive; calcRewards beside a job and alone | once, final, no hole, in the end |
| daily | two exchanges with a failing node; one with a crash; a node without old states; a database outage in each; the search alone, for any timestamp; every chain of up to four blocks | a ledger without holes, every day in the end, the first block of its time |
| receipts | a failed or repeated call; a crash; account-only; no day volumes; scanned exchanges | each trade once and nobody missing from the accounts, whatever fails and however often it is parsed |

Four runs are expected to find a violation. Each shows a place where the code does not
do what a line of the repository says; `findings` quotes both.

| run | the code | the text |
|---|---|---|
| volumeOverpay | an exchange that gets no part keeps its provisional rewards | README.md:128 |
| stakePercent | the stake point is used as the percentage | params/config-example.toml:66-67 |
| cycleRace | the sample depends on the other goroutine, and may then be a height that is not final | distributer/byliquidity.go:151 |
| receiptsLost | concurrent trades are lost from the volume of the day | params/config-example.toml:20 |

Properties that hold are stated so that these do not hide them: SentIsPayable
holds whenever every exchange with accounts gets a part; FromFinalBlocks, of the
sample, and SampleRepeatable while one goroutine draws. Other behaviour that the models have,
and that limits what a property can say:

- with --syncto ahead of the chain, `latest := w.end` lets a worker read blocks less
  than Stable deep (sync.go:331; StableDistance is for endless runs);
- in quick mode steps that ended before the head was read are passed over, in cycles
  reached late too (distribute.go:258; NoHoles and CyclesSettled are for whole cycles);
- before the start height is stable, the current cycle wraps (distribute.go:368; the
  setups start later);
- a second parse, with --overwrite or after a crash, adds to the volume of the day
  again (api.go:271; DayVolumeExact is about the first parse);
- the sync info is advanced when a block is stored, while its transactions may still be
  parsed (parse.go:73). ParsedBehindSyncInfo gives the bound the parser's barrier keeps:
  one batch, which is 1000 blocks. A job is sure of complete volumes only with a
  StableHeight of 999 or more; of the 30 of config-example.toml checkDistributeConfig leaves
  it 1, and it relies on time;
- a dry run of calcRewards without --sample does not wait for the sample it draws, and the check
  that would ask for one comes too late to see it missing (option.go:238;
  FromFinalBlocks is for samples that were given, and for the job);
- a block of the loop worker whose AddBlock is given up, a block in flight behind the sync
  info when the process dies, and the transactions of a block whose parse is cut off are never
  made good (parse.go:52, 69, 75; `unsaved` and `unparsed`, which SyncInfoCovers, EverythingSynced
  and, of transactions, CaughtUp except);
- exchanges created while the program runs are not added to the list (exchanges.go:12), and
  a purchase on a scanned exchange is recorded under the empty token (parsereceipt.go:111);
- an exchange whose creation height the chain does not have yet, or whose requests fail for
  ever, holds up the exchanges behind it (updateliquidity.go:60; EveryDayRecorded is for errors that end);
- the completeness of the account list is worked out and dropped (byliquidity.go:56);
- dust lines are counted as sent and not listed in the output of a real run
  (dispatchrewards.go:105; FinishedPaysAll leaves them out);
- a balance is checked at the latest block while transactions are pending (option.go:433;
  NoTransferReverts is for checks without pending ones).

TypeOK is, inside `IInv`, part of the divideRewards run; in the other modules it is not
checked but proved (`TypeCorrect`, `LiquidTypeCorrect`, `VolumeTypeCorrect`).

### Bounds

Constants and setup fields named Max... or max... bound the environment: how far the
chain grows, how often it fails, how often a job is started. Code limits are scaled down so that they are
reached: channels hold one message instead of 100, a parse batch is two blocks
instead of 1000, a query covers two heights instead of 10000, workers get two blocks
at least. So the run meets a full channel, a barrier in the middle of a range, a
range of several queries and a remainder. One crash and one failed call per setup
are enough for a loss at each point of the code; a second one would only repeat
it. Two exchanges, two accounts and volumes 0, 1 and 3 make every division leave a
remainder in some state, and give an empty list, an empty exchange and a tie. Cycles of
three or four heights, with heads up to three cycles, contain a skipped step
and a restart in each cycle. Two transactions of up to three logs are
the smallest that race. Four blocks, five seconds and days of two seconds give days
without a block, days with several, and three midnights; one outage meets every step of the
session check and of the worker.

Deadlock is not checked: a job ends, a parse ends, and the chain and the clock stop
at their bounds. That nothing stops early is what the liveness properties say.

### Fairness

Weak fairness of every goroutine's steps (Go's scheduler runs what can run), of a call
that the code repeats until it succeeds, and of the chain up to its bound.
Nothing is assumed of crashes, failed calls, restarts by the operator, moved liquidity
or foreign transactions. In CycleRunner the syncer reaches the newest stable block
infinitely often, which is what EverythingSynced shows of it. In DailyLiquidity the clock
runs, the chain goes on, the database server comes back after an outage, and the operator
starts a process that died; without any of these the worker cannot record a day.
SendRewards and ReceiptStore have safety properties only and assume nothing.

## Proofs

Each module of proofs has an inductive invariant in named parts, one lemma for each
part and each group of actions that can disturb it, and theorems that cite them. All of them hold for every
value of the constants that satisfies the assumptions of the module: any number of workers,
accounts, exchanges, files and lines, any length of the chain, and any bound on faults and
restarts. The invariants were checked by TLC on the instances of the runs before they were
proved.

`SumTheorems` has what the others need of sums and divisions. A sum of the library is a fold
over a set; from its definition follow that any element may be taken out (`SumRemove`),
and from that prefix sums, monotony, scaling, and sums over parts and images. Induction over numbers or
subsets is stated for a set instead of a predicate (`NumberInduction`, `SubsetInduction`): the set of those
for which the statement holds is everything.

`DivideRewardsProofs`. The rewards add up to the total, nobody gets more than one unit above the
rounded-down proportion, order is kept and nothing is negative. DivideRewards carries the
prefix sums of shares and of rounded rewards as history (`shareSum`, `floorSum`). `IInv` has
three parts: ShareSumInv (prefix sums, and a positive total share once divided),
FloorSumInv (each prefix of k rounded rewards is at most k rounding errors below its
exact value) and LeftoverInv. The second is the heart: for k = n it says that
fewer than n units are left (LeftoverSmall), hence `avg` is always 0 and `mod` is the
whole rest, and the verify loop then counts the rounded sum plus min(i, mod).
FloorMono gives the order. The properties alone are not inductive, since before the last
loop none of them says anything. With SumTheorems the history is shown to be the sums it
stands for; so the loops implement the abstract split (`ImplementsFairSplit`: initial states
map to initial states, each step to a split or a stutter) and the operator of RewardMath is what
they return (`OperatorIsLoop`).

`SendRewardsProofs`. That a run pays no line twice (`PaidOnce`) comes from order: what the
current run has paid lies before the line it is at, and a run never goes back. On top of that,
what was paid is in the output (`PaymentsAreRecorded`, with one missing payment per fault), a
run that ends well has paid every line (`FinishedIsPaid`), hashes and sums in records are
those of transactions (`RecordsAreTruthful`), no hash disappears (`HashesStay`), and an import
without faults completes the records (`ImportHealed`). `NoRevertedTransfer` follows from an
invariant about money: while nobody was checked against a stale balance, the balance less
the pending amounts covers the rest of the file.

`CycleRunnerProofs`. The argument is one of alignment: cycles and steps are laid out
from the start height on, so two of them are the same or apart; what was settled lies in units
that ended far enough below the head; and a job that is started looks for the first unit that
had not. From this follow `HeightsSettledOnce`, `RewardsFromFinalBlocks` and `NoHolesLeft`;
`SamplesRepeat` needs in addition that seed and draws of one goroutine are adjacent when nobody else
draws, and `NothingWraps` that the liquidity goroutine stays on the cycles too (CycleInv): both
goroutines are where the configuration lays out cycles and steps, and no sum they compute
from there wraps. `TypeCorrect` does not say that: a height that has wrapped still fits the word.
The theorems but `TypeCorrect` have one hypothesis, `StartsInTime`, about the configurations, with two
parts that the code does not check. The job is started when its start height is stable:
otherwise calcCurCycleStart wraps (distribute.go:368), and with a start at 10 and a head at 8
TLC finds a height that is settled twice. And in quick mode some stable height is configured:
with none at all a job that is restarted at the very end of a step settles that
step again, because `start + step < latest` is strict (distribute.go:258). The setups of the
cycle run satisfy both.

`BlockSyncerProofs`. The invariant has twelve parts: types; which worker may be where, and that
a channel is closed behind a nil only (ShapeInv); the ranges of the workers are consecutive and end at `last` (RangeInv), which is
`RangesPartitioned` for any quotient and remainder; a worker has dealt with everything below its
height (ScanInv); what it has fetched is in its channel, with its parser, in the database or a recorded loss
(SafeInv); a height of the catch-up range that is missing has cost a given-up write before the
check pass looks at it, and a second one after that (RepairInv); these two give `CatchUpComplete`; stable depth (DepthInv); nobody else works on a
block that is in flight (OnceInv), which gives `AppliedOnce`; where a dispatch may begin (StartInv) and
what lies behind the sync info there (ResumeInv), for `RestartsBehindNothing`; and that the
blocks of the loop worker come in order, one batch at a time (LoopInv, LagInv), for `LagBounded`.

`ReceiptStoreProofs`. What a goroutine has left behind is done (ProgressInv), a history record
belongs to one log of one transaction (HistoryInv), and a transaction is stored after its last
log (CompleteInv). `TradesCountOnce` is a statement about sums: the records of an account
are a part of its trades, one to one (SumImage).

`DailyLiquidityProofs`. The search alone, for every chain of increasing timestamps, every
average block time and every timestamp: the result is the first block not before the timestamp
and no unknown header is asked for. `IInv` adds `Bracket`: the upper
end is known and not before the timestamp, everything below the lower end is before
it. EarlierIsEarlier shows that a stride never leaves the chain. Then the worker that
starts searches again and again, while the database session comes and goes: the
records of an exchange are consecutive days from its first on (SegmentInv), each with its first
block (FirstBlockInv), and the worker looks for a recorded day or the next one (WorkerInv). So
each of its steps appends to the ledger of DayLedger or leaves it alone (`DailyKeepsLedger`).

`RewardsProofs`, first part. Sorting a finite set gives a list of its elements (EnumerateLists).
SplitRewards gives every share its proportion within a unit (SplitFacts), from the same
argument as above but for sums; CalcRewards and CalcWeightedRewards put two such divisions
together (TwoDivisions). The invariant about the state is small: what the job has read or
cached in archive mode is the sample (SampleInv), and what was computed is sent once
(ResultInv, SentInv). `EqualTreatment` first failed: the bound of two units it was stated with
is exceeded by the example above, which instances as small as the run's do not contain.

`RewardsProofs`, second part. VolumeRewards is proved about in the same module, because it needs
the lemmas on lists and divisions of the first part; the two only share what is in Settlement,
and what each has of its own kind begins with Liquid or Volume. `VolumeIInv` has, besides types,
four parts. QuietInv: while the exchanges are read, noVolumeStartHeights is the set of steps in
which nobody traded on any exchange read so far, and hasNoMissingVolumes says whether it is empty; without the flag an empty
set would be taken for "none read yet". With it follows `NoVolumesAreExact`. ListsInv: a list that is
loaded is empty or pays something, and everybody in it has a reward, whether the cycle was
taken as a whole (SingleCycleFacts) or step by step (StepsFacts). So CalcRewards, called a
second time, divides by the provisional rewards and pays the part without a rest
(CalcRewardsAgain). PartsInv: the parts add up to what is payable, and each list that has a part pays it;
PartsSent: what was sent to an exchange is what its list pays, once. From these follow `PayableIsSent`
and `ServedStaysWithin`, the counterpart of the run volumeOverpay: more than the total is only
sent when an exchange with accounts gets no part.

Only model-checked: all liveness properties (the prover does not do fairness) and, of course,
the four violations.

What the proofs assume of the constants is in the ASSUME of each module, which TLC
evaluates in the runs: amounts are naturals, the sets of accounts and transactions are
finite, lists are sequences, a worker gets at least two blocks (`minWorkBlocks` is
100 in the code), and the word of the unsigned arithmetic is larger than any height.

## Not modelled

The contents of blocks and receipts beyond what the properties use; forks deeper than
Stable; the volume lists ByVolume can read from files; files somebody has edited between a run and
its import; signing and the key store; the spelling checks of the configuration; the formats
of files and records. The command line, the node API, logging and the build scripts keep
no state: flags are constants of the modules, and a remote call that is repeated until it
succeeds is a step that has not happened yet. insertaccount writes the records of
RecordAccounts, one per line. No --nonce is given to a sending run, so it starts with the pending
nonce (sendtx.go:119). A log of a factory with exactly two topics, at which addExchanges would
panic (exchanges.go:16), does not occur: its events have three. The session check is composed with the daily worker only;
in the other modules a database call that fails stands for it.

## Plan

Done: the core modules; calcRewards, share files, importrewards, the daily worker with the
database session, the contracts and token accounts of the parser, the configuration checks,
and the bound between parsing and the sync info; proofs of every safety property that a run
checks.

Next:

1. ParsedBehindSyncInfo and FromFinalBlocks together: which configurations make a job wait
   until the volumes of a cycle are complete;
2. volume lists from input files in VolumeRewards.
