---------------------------- MODULE SendRewards ----------------------------
(***************************************************************************)
(* Sending rewards (src/distributer/sendtx.go, dispatchrewards.go and the  *)
(* output part of option.go): a job goes through its lists of rewards,     *)
(* one per exchange, and for every line asks the node for a nonce, sends a *)
(* transaction, writes a line of output and a database record.  The lists  *)
(* come from files (sendrewards) or from a calculation just made           *)
(* (byliquid, byvolume).                                                   *)
(*                                                                         *)
(* Whatever goes wrong with a transaction ends the job, and the operator   *)
(* may start it again: the chain, the output files and the database are    *)
(* what the runs have in common.  Between two jobs he may import an output *)
(* file into the database (src/cmd/distribute/importrewards.go).  A line   *)
(* is its reward; a transaction stands for its hash.                       *)
(***************************************************************************)
EXTENDS Integers, Sequences, FiniteSets, Functions

CONSTANTS
  Setups,        \* the jobs to look at: a set of records, see IsSetup
  Lists,         \* how many files or exchanges
  Lines,         \* lines in each of them
  Dust,          \* params.GetDustRewardThreshold()
  ScalingNumerator, ScalingDenominator,  \* 0: not given
  MaxRuns,       \* bound: how often the job is started
  MaxFaults      \* bound: crashes, lost replies, refusals, failed writes

Malformed == -1
NoTx      == [nonce |-> -1]

\* The command and its options, what its lists may hold, and its sender.
IsSetup(s) ==
  /\ s.fromFile \in BOOLEAN        \* the lists come from files
  /\ s.rewards \subseteq Nat \cup {Malformed}  \* rewards a line may have
  /\ ~s.fromFile => s.rewards \subseteq Nat    \* only a file has lines to parse
  /\ s.dryRuns \subseteq BOOLEAN   \* the values of --dryrun the operator uses
  /\ s.saveDB \in BOOLEAN          \* --savedb
  /\ s.balance \in Nat             \* reward tokens the sender has at first
  /\ s.totalValue \in Nat          \* --rewards of a calculated list
  /\ s.maxOther \in Nat  \* bound: transactions the sender's account sends elsewhere

ASSUME SendRewardsAssumption ==
  /\ {Lists, Lines} \subseteq Nat \ {0}
  /\ {Dust, ScalingNumerator, ScalingDenominator, MaxRuns, MaxFaults} \subseteq Nat
  /\ \A s \in Setups : IsSetup(s)

VARIABLES
  setup,           \* the command and its options
  reward,          \* reward[f][l]: the lists
  \* the chain, as the node shows it
  accepted,        \* the job's transactions the node has accepted
  pending,         \* PendingNonceAt of the sender
  mined,           \* transactions of the sender up to this nonce are in a block
  balance,         \* reward tokens of the sender at the latest block
  reverted,        \* transfers that failed because the balance was too small
  others,          \* transactions sent elsewhere
  \* the job
  run, dryRun, pc, list, line, nonce, txHash, rewardsSended,
  imports,         \* the import: [dryRun, at: line of the file, faults: at its begin]
  \* what it leaves behind
  output,          \* output[f]: the lines of output file f
  result,          \* result[f][l]: RewardTx of the database record; NoRecord: none
  infos,           \* the DistributeInfo records
  \* history
  faults,
  missed,          \* transactions a fault kept out of the output
  staleCheck       \* a balance was checked while transactions were pending

node    == <<accepted, pending, mined, balance, reverted, others>>
sender  == <<run, dryRun, list, line, nonce, txHash, rewardsSended>>
job     == <<sender, pc, imports>>
records == <<output, result, infos>>
history == <<faults, missed, staleCheck>>
vars    == <<setup, reward, node, job, records, history>>
given   == <<setup, reward, imports>>

FromFile   == setup.fromFile
SaveDB     == setup.saveDB
TotalValue == setup.totalValue

NoRecord == [nonce |-> -2]
NoImport == [dryRun |-> TRUE, at |-> 0, faults |-> 0]
F == 1 .. Lists
L == 1 .. Lines

Init ==
  /\ setup \in Setups
  /\ reward \in [F -> [L -> setup.rewards]]
  /\ accepted = {} /\ pending = 0 /\ mined = 0 /\ others = 0
  /\ balance = setup.balance /\ reverted = {}
  /\ run = 0 /\ dryRun = FALSE /\ pc = "idle" /\ list = 1 /\ line = 1 /\ nonce = 0
  /\ txHash = NoTx /\ rewardsSended = 0 /\ imports = NoImport
  /\ output = [f \in F |-> <<>>]
  /\ result = [f \in F |-> [l \in L |-> NoRecord]]
  /\ infos = {}
  /\ faults = 0 /\ missed = {} /\ staleCheck = FALSE

Fault == faults < MaxFaults /\ faults' = faults + 1

----------------------------------------------------------------------------
\* The rewards of list f as they will be sent: checkSendRewardsFromFile scales
\* those of a file.
Scaled(r) ==
  IF ScalingNumerator = 0 THEN r
  ELSE IF ScalingDenominator = 0 THEN r * ScalingNumerator
  ELSE (r * ScalingNumerator) \div ScalingDenominator

Amount(f, l) == IF FromFile THEN Scaled(reward[f][l]) ELSE reward[f][l]

\* Mutant: the last line instead of the sum of all.
NeededOfLast(f) == IF FromFile THEN Amount(f, Lines) ELSE TotalValue

\* opt.TotalValue when the balance is checked
Needed(f) ==
  IF FromFile THEN SumFunction([l \in L |-> Amount(f, l)]) ELSE TotalValue

Sum(txs) == SumFunction([t \in txs |-> t.amount])

\* getBuildTxArgs, Check, setDefaults: the nonce the job starts with.  (No --nonce is
\* given, which setDefaults would keep: the job starts with the pending one.)
Start ==
  /\ pc = "idle" /\ run < MaxRuns
  /\ run' = run + 1
  /\ dryRun' \in setup.dryRuns
  /\ nonce' = pending
  /\ pc' = "check" /\ list' = 1 /\ line' = 1 /\ txHash' = NoTx /\ rewardsSended' = 0
  /\ UNCHANGED <<given, node, records, history>>

\* Only a file is checked for itself; a calculated list was checked as a whole.
IsChecked(f) == FromFile \/ f = 1

Parses(f) == \A l \in L : reward[f][l] /= Malformed

\* checkSendRewardsFromFile or CheckSenderRewardTokenBalance; a dry run only warns.
Passes(f) == IsChecked(f) => Parses(f) /\ (dryRun \/ balance >= Needed(f))

\* The list is good and its output file is opened, which empties it.
OpenList ==
  /\ pc = "check" /\ Passes(list)
  /\ staleCheck' = (staleCheck \/ (IsChecked(list) /\ mined < pending))
  /\ output' = [output EXCEPT ![list] = <<>>]
  /\ \/ pc' = "line" /\ line' = 1 /\ rewardsSended' = 0 /\ UNCHANGED faults
     \/ \* writeSendRewardTitleLine fails
        ~FromFile /\ Fault /\ pc' = "failed" /\ UNCHANGED <<line, rewardsSended>>
  /\ UNCHANGED <<given, node, run, dryRun, list, nonce, txHash, result, infos, missed>>

\* The list is not good, or its output file cannot be opened.
RejectList ==
  /\ pc = "check"
  /\ \/ ~Passes(list) /\ UNCHANGED faults
     \/ Passes(list) /\ Fault
  /\ pc' = "failed"
  /\ UNCHANGED <<given, node, run, dryRun, list, line, nonce, txHash, rewardsSended, records,
                 missed, staleCheck>>

----------------------------------------------------------------------------
\* One line

NextLine == line' = line + 1

\* Mutant: a reward that is as large as the threshold counts as dust.
IsDustOrEqual(r) == r <= Dust

\* errDustReward
IsDust(r) == r < Dust

SkipLine ==
  /\ pc = "line" /\ line <= Lines
  /\ Amount(list, line) <= 0
  /\ NextLine
  /\ UNCHANGED <<given, node, run, dryRun, pc, list, nonce, txHash, rewardsSended,
                 records, history>>

\* Dust, or a dry run: no transaction.  Only a dry run has output.
NotSent ==
  /\ pc = "line" /\ line <= Lines
  /\ Amount(list, line) > 0
  /\ dryRun \/ IsDust(Amount(list, line))
  /\ rewardsSended' = rewardsSended + Amount(list, line)
  /\ IF dryRun THEN pc' = "write" /\ UNCHANGED line ELSE NextLine /\ UNCHANGED pc
  /\ UNCHANGED <<given, node, run, dryRun, list, nonce, txHash, records, history>>

\* GetAccountNonce: only ahead of our own count, and an error is ignored.
GetAccountNonce ==
  /\ pc = "line" /\ line <= Lines
  /\ ~dryRun /\ Amount(list, line) > 0 /\ ~IsDust(Amount(list, line))
  /\ \/ nonce' = (IF pending > nonce THEN pending ELSE nonce) /\ UNCHANGED faults
     \/ Fault /\ UNCHANGED nonce
  /\ pc' = "send"
  /\ UNCHANGED <<given, node, run, dryRun, list, line, txHash, rewardsSended, records,
                 missed, staleCheck>>

Tx == [nonce |-> nonce, list |-> list, line |-> line, amount |-> Amount(list, line),
       run |-> run]

Accept == accepted' = accepted \cup {Tx} /\ pending' = pending + 1

\* Mutant: the transaction goes out, and its line is never written.
ConfirmedUnwritten ==
  /\ pc' = "save" /\ nonce' = nonce + 1 /\ txHash' = Tx
  /\ rewardsSended' = rewardsSended + Tx.amount
  /\ UNCHANGED <<faults, missed>>

\* Mutant: what was sent is not added up.
ConfirmedUncounted ==
  /\ pc' = "write" /\ nonce' = nonce + 1 /\ txHash' = Tx
  /\ UNCHANGED <<rewardsSended, faults, missed>>

\* The answer is the hash of the transaction.
Confirmed ==
  /\ pc' = "write" /\ nonce' = nonce + 1 /\ txHash' = Tx
  /\ rewardsSended' = rewardsSended + Tx.amount
  /\ UNCHANGED <<faults, missed>>

\* Mutant: a line that failed is tried again.
ReplyLostRetried ==
  /\ Fault
  /\ pc' = "line" /\ missed' = missed \cup {Tx}
  /\ UNCHANGED <<nonce, txHash, rewardsSended>>

\* The transaction was taken, but the answer is lost: the job ends.
ReplyLost ==
  /\ Fault
  /\ pc' = "failed" /\ missed' = missed \cup {Tx}
  /\ UNCHANGED <<nonce, txHash, rewardsSended>>

\* The node refuses it, as it always does when the nonce is used: the job ends.
Refused ==
  /\ nonce < pending \/ faults < MaxFaults
  /\ faults' = IF nonce < pending THEN faults ELSE faults + 1
  /\ pc' = "failed"
  /\ UNCHANGED <<accepted, pending, nonce, txHash, rewardsSended, missed>>

SendTransaction ==
  /\ pc = "send"
  /\ \/ nonce = pending /\ Accept /\ (Confirmed \/ ReplyLost)
     \/ Refused
  /\ UNCHANGED <<given, mined, balance, reverted, others, run, dryRun, list, line, records,
                 staleCheck>>

\* WriteSendRewardResult: the output line first; its error is dropped.
WriteOutput ==
  /\ pc = "write"
  /\ pc' = "save"
  /\ \/ /\ output' = [output EXCEPT ![list] = Append(@, [line |-> line, tx |-> txHash])]
        /\ UNCHANGED <<faults, missed>>
     \/ /\ Fault
        /\ missed' = IF txHash = NoTx THEN missed ELSE missed \cup {txHash}
        /\ UNCHANGED output
  /\ UNCHANGED <<given, node, run, dryRun, list, line, nonce, txHash, rewardsSended,
                 result, infos, staleCheck>>

\* Mutant: the record is overwritten.
UpdatedAlways(old, tx) == tx

\* Mutant: a record that has a hash keeps it.
UpdatedOnce(old, tx) == IF old \notin {NoRecord, NoTx} THEN old ELSE tx

\* getVolumeRewardUpdateItems: an empty hash does not replace one.
Updated(old, tx) == IF old /= NoRecord /\ tx = NoTx THEN old ELSE tx

\* WriteRewardResultToDB: insert, or update what is there; its error is dropped,
\* and a failed look-up turns it into an insert that changes nothing.
WriteRewardResultToDB ==
  /\ pc = "save"
  /\ pc' = "line" /\ txHash' = NoTx
  /\ NextLine
  /\ \/ /\ SaveDB
        /\ result' = [result EXCEPT ![list][line] = Updated(@, txHash)]
        /\ UNCHANGED faults
     \/ SaveDB /\ Fault /\ UNCHANGED result
     \/ ~SaveDB /\ UNCHANGED <<result, faults>>
  /\ UNCHANGED <<given, node, run, dryRun, list, nonce, rewardsSended, output, infos,
                 missed, staleCheck>>

IsThrough == line > Lines

\* The list is through; dispatchRewards records what was sent for the exchange.
EndList ==
  /\ pc = "line" /\ IsThrough
  /\ IF ~FromFile /\ SaveDB /\ rewardsSended > 0
       THEN \/ /\ infos' = infos \cup {[run |-> run, list |-> list, dryRun |-> dryRun,
                                        rewards |-> rewardsSended]}
               /\ UNCHANGED faults
            \/ Fault /\ UNCHANGED infos
       ELSE UNCHANGED <<infos, faults>>
  /\ IF list < Lists
       THEN pc' = "check" /\ list' = list + 1
       ELSE pc' = "finished" /\ UNCHANGED list
  /\ UNCHANGED <<given, node, run, dryRun, line, nonce, txHash, rewardsSended, output,
                 result, missed, staleCheck>>

----------------------------------------------------------------------------
\* importrewards

\* processFile: every line of an output file can be read, so that verifyFile passes.
ImportRewards ==
  /\ pc = "idle"
  /\ \E f \in F, dry \in setup.dryRuns :
       /\ output[f] /= <<>>
       /\ list' = f
       /\ imports' = [dryRun |-> dry, at |-> 1, faults |-> faults]
  /\ pc' = "import"
  /\ UNCHANGED <<setup, reward, node, run, dryRun, line, nonce, txHash, rewardsSended, records,
                 history>>

NextImport == imports' = [imports EXCEPT !.at = @ + 1]

\* processLine, addRewardResultToDB: the record is inserted or updated as by the job,
\* and what goes wrong with it is dropped as well.
ImportLine ==
  /\ pc = "import" /\ imports.at <= Len(output[list])
  /\ LET o == output[list][imports.at] IN
     \/ /\ ~imports.dryRun
        /\ result' = [result EXCEPT ![list][o.line] = Updated(@, o.tx)]
        /\ UNCHANGED faults
     \/ ~imports.dryRun /\ Fault /\ UNCHANGED result
     \/ imports.dryRun /\ UNCHANGED <<result, faults>>
  /\ NextImport
  /\ UNCHANGED <<setup, reward, node, sender, pc, output, infos, missed, staleCheck>>

EndImport ==
  /\ pc = "import" /\ imports.at > Len(output[list])
  /\ pc' = "imported"
  /\ UNCHANGED <<given, node, sender, records, history>>

----------------------------------------------------------------------------
\* The operator and the chain

\* The job is over; it may be started again.
Exit ==
  /\ pc \in {"failed", "finished", "imported"}
  /\ pc' = "idle" /\ imports' = NoImport
  /\ UNCHANGED <<setup, reward, node, sender, records, history>>

Crash ==
  /\ pc \in {"check", "line", "send", "write", "save", "import"}
  /\ Fault
  /\ pc' = "failed" /\ txHash' = NoTx
  /\ missed' = IF pc = "write" /\ txHash /= NoTx THEN missed \cup {txHash} ELSE missed
  /\ UNCHANGED <<given, node, run, dryRun, list, line, nonce, rewardsSended, records,
                 staleCheck>>

\* The next transaction of the sender gets into a block, and its transfer is made
\* or fails.
Mine ==
  /\ mined < pending
  /\ mined' = mined + 1
  /\ LET txs == {t \in accepted : t.nonce = mined} IN
     IF Sum(txs) <= balance
       THEN balance' = balance - Sum(txs) /\ UNCHANGED reverted
       ELSE reverted' = reverted \cup txs /\ UNCHANGED balance
  /\ UNCHANGED <<given, accepted, pending, others, job, records, history>>

\* Somebody else uses the sender's account.
OtherTransaction ==
  /\ others < setup.maxOther
  /\ others' = others + 1 /\ pending' = pending + 1
  /\ UNCHANGED <<given, accepted, mined, balance, reverted, job, records, history>>

Step ==
  \/ Start
  \/ OpenList
  \/ RejectList
  \/ SkipLine
  \/ NotSent
  \/ GetAccountNonce
  \/ SendTransaction
  \/ WriteOutput
  \/ WriteRewardResultToDB
  \/ EndList

Import ==
  \/ ImportRewards
  \/ ImportLine
  \/ EndImport

Next ==
  \/ Step
  \/ Import
  \/ Exit
  \/ Crash
  \/ Mine
  \/ OtherTransaction

Spec == Init /\ [][Next]_vars

----------------------------------------------------------------------------
\* Properties

Txs == {NoTx} \cup accepted

\* The nonces of the node count its transactions, and whatever the job holds or
\* leaves behind is the hash of a transaction the node took.
TypeOK ==
  /\ pending \in Nat /\ mined \in 0 .. pending
  /\ others \in 0 .. setup.maxOther
  /\ balance \in 0 .. setup.balance /\ reverted \subseteq accepted
  /\ Cardinality(accepted) + others = pending
  /\ run \in 0 .. MaxRuns /\ dryRun \in BOOLEAN
  /\ pc \in {"idle", "check", "line", "send", "write", "save", "failed", "finished",
             "import", "imported"}
  /\ list \in F /\ line \in 1 .. Lines + 1 /\ nonce \in Nat
  /\ txHash \in Txs
  /\ rewardsSended \in Nat
  /\ output \in [F -> Seq([line : L, tx : Txs])]
  /\ result \in [F -> [L -> {NoRecord} \cup Txs]]
  /\ faults \in 0 .. MaxFaults
  /\ missed \subseteq accepted

OfRun(r) == {t \in accepted : t.run = r}
Recorded(f) == {output[f][i].tx : i \in DOMAIN output[f]}

\* Each hash belongs to a transaction the node took, for that line and that amount.
HashesTruthful ==
  /\ \A f \in F : \A i \in DOMAIN output[f] :
       LET o == output[f][i] IN
       o.tx /= NoTx => /\ o.tx \in accepted
                       /\ <<o.tx.list, o.tx.line>> = <<f, o.line>>
                       /\ o.tx.amount = Amount(f, o.line)
  /\ \A f \in F, l \in L :
       result[f][l] \notin {NoRecord, NoTx} =>
         /\ result[f][l] \in accepted
         /\ <<result[f][l].list, result[f][l].line>> = <<f, l>>

\* A DistributeInfo of a real run says what was paid for the exchange plus the dust
\* that was not.
InfoIsPaidPlusDust ==
  \A r \in {x \in infos : ~x.dryRun} :
    r.rewards = Sum({t \in OfRun(r.run) : t.list = r.list})
                + SumFunction([l \in {x \in L : Amount(r.list, x) < Dust}
                                 |-> Amount(r.list, l)])

\* Whoever reads the output files or the database later reads what was paid.
RecordsTruthful == HashesTruthful /\ InfoIsPaidPlusDust

\* One start of the job never pays a line twice, lost replies included.
PaidOncePerRun ==
  \A s, t \in accepted : s.run = t.run /\ s.list = t.list /\ s.line = t.line => s = t

\* What the current run paid is in its output files, except what it is about to
\* write and what a fault kept out: at most one payment for each fault.
PaymentsRecorded ==
  /\ \A t \in OfRun(run) :
       \/ t \in Recorded(t.list)
       \/ t \in missed
       \/ pc = "write" /\ t = txHash
  /\ Cardinality(missed) <= faults

\* The lines a real run pays
Payable ==
  {x \in F \X L : Amount(x[1], x[2]) > 0 /\ Amount(x[1], x[2]) >= Dust}

\* A real run that ends without an error has paid every line that is not dust, in
\* full, and nothing else.
FinishedPaysAll ==
  pc = "finished" /\ ~dryRun =>
    {<<t.list, t.line, t.amount>> : t \in OfRun(run)}
      = {<<x[1], x[2], Amount(x[1], x[2])>> : x \in Payable}

\* No transfer fails for want of balance, as long as no file was checked against a
\* balance that pending transactions would still reduce.
NoTransferReverts == FromFile /\ ~staleCheck => reverted = {}

\* A later run, a dry one above all, never takes the transaction hash out of a
\* database record.
HashStays ==
  [][\A f \in F, l \in L :
       result[f][l] \notin {NoRecord, NoTx} => result'[f][l] \notin {NoRecord, NoTx}]_vars

\* "import rewards result to database": when an import came through without a fault,
\* the database has the transaction of every line the last run has paid from this
\* list, whatever was lost or recorded before, except those lost for the output too.
ImportHeals ==
  pc = "imported" /\ ~imports.dryRun /\ faults = imports.faults =>
    \A t \in OfRun(run) : t.list = list => t \in missed \/ result[list][t.line] = t
=============================================================================
