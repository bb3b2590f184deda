------------------------- MODULE SendRewardsProofs -------------------------
(***************************************************************************)
(* What a job that sends rewards keeps true for lists of any length and    *)
(* any number of restarts, crashes and lost replies: one run pays no line  *)
(* twice, every payment is in the output unless a fault kept it out, a run *)
(* that ends without an error has paid every line, and an import brings    *)
(* what the output has into the database.                                  *)
(***************************************************************************)
EXTENDS SendRewards, SumTheorems, SequenceTheorems

TxType == [nonce : Nat, list : F, line : L, amount : Int, run : Nat]
Hashes == {NoTx} \cup TxType
Entry  == [line : L, tx : Hashes]

\* The job, and the line it is at while it sends, writes and saves
Control ==
  /\ setup \in Setups /\ reward \in [F -> [L -> Int]]
  /\ pending \in Nat /\ nonce \in Nat /\ run \in Nat /\ faults \in Nat
  /\ dryRun \in BOOLEAN
  /\ pc \in {"idle", "check", "line", "send", "write", "save", "failed", "finished",
             "import", "imported"}
  /\ list \in F /\ line \in 1 .. Lines + 1
  /\ pc \in {"send", "write", "save"} => line \in L
  /\ imports \in [dryRun : BOOLEAN, at : Nat, faults : Nat]
  /\ pc = "import" => imports.at >= 1

\* Transactions and what the job leaves behind
Data ==
  /\ accepted \subseteq TxType
  /\ missed \subseteq accepted
  /\ txHash \in {NoTx} \cup accepted
  /\ output \in [F -> Seq(Entry)]
  /\ result \in [F -> [L -> {NoRecord} \cup Hashes]]

Types == Control /\ Data

----------------------------------------------------------------------------

\* A reward of a list is an integer, scaled or not.
LEMMA AmountInt ==
  ASSUME Control, NEW f \in F, NEW l \in L
  PROVE  Amount(f, l) \in Int
<1>1. reward[f][l] \in Int
  BY DEF Control
<1>2. \A r \in Int : Scaled(r) \in Int
  <2>1. \A a \in Int, b \in Nat : b > 0 => a \div b \in Int
    BY Z3
  <2>2. ScalingNumerator \in Nat /\ ScalingDenominator \in Nat
    BY SendRewardsAssumption
  <2>3. \A r \in Int : r * ScalingNumerator \in Int
    BY <2>2, Z3
  <2> QED
    BY <2>1, <2>2, <2>3 DEF Scaled
<1> QED
  BY <1>1, <1>2 DEF Amount

\* The constants that bound the lists
LEMMA Bounds == Lists \in Nat /\ Lines \in Nat /\ Lists > 0 /\ Lines > 0 /\ Dust \in Nat
  BY SendRewardsAssumption

\* Lists and lines are numbered, those of the transactions too.
LEMMA Numbers ==
  ASSUME Types
  PROVE  /\ run \in Nat /\ list \in Nat /\ line \in Nat /\ list <= Lists
         /\ \A t \in accepted : t.run \in Nat /\ t.list \in Nat /\ t.line \in Nat
         /\ \A t \in accepted : t.list <= Lists /\ t.line <= Lines
         /\ NoTx \notin accepted /\ NoRecord \notin accepted
<1>1. /\ \A f \in F : f \in Nat /\ f <= Lists
      /\ \A l \in L : l \in Nat /\ l <= Lines
      /\ \A l \in 1 .. Lines + 1 : l \in Nat
  BY Bounds DEF F, L
<1>2. \A t \in accepted : /\ t.nonce \in Nat /\ t.run \in Nat /\ t.list \in F
                         /\ t.line \in L
  BY DEF Types, Data, TxType
<1>3. NoTx \notin accepted /\ NoRecord \notin accepted
  BY <1>2 DEF NoTx, NoRecord
<1> QED
  BY <1>1, <1>2, <1>3 DEF Types, Control

\* The job starts with the right types.
LEMMA TypesInit == Init => Types
<1> SUFFICES ASSUME Init PROVE Types
  OBVIOUS
<1>1. setup \in Setups /\ setup.rewards \subseteq Int
  BY SendRewardsAssumption DEF Init, IsSetup, Malformed
<1>2. reward \in [F -> [L -> Int]]
  BY <1>1 DEF Init
<1>3. 1 \in F /\ 1 \in 1 .. Lines + 1
  BY Bounds DEF F
<1>4. Control
  BY <1>1, <1>2, <1>3 DEF Init, Control, NoImport
<1>5. Data
  BY DEF Init, Data
<1> QED
  BY <1>4, <1>5 DEF Types

\* Every step keeps the job's own types; no line is sent, written or saved that the
\* list does not have.
LEMMA ControlStep == Types /\ [Next]_vars => Control'
<1> SUFFICES ASSUME Types, [Next]_vars PROVE Control'
  OBVIOUS
<1> USE Bounds DEF Types, Control, given, node, records, history, Fault
<1>d. setup.dryRuns \subseteq BOOLEAN
  BY SendRewardsAssumption DEF IsSetup
<1>1. CASE Start
  BY <1>1, <1>d DEF Start, F
<1>2. CASE OpenList
  BY <1>2 DEF OpenList
<1>3. CASE RejectList
  BY <1>3 DEF RejectList
<1>4. CASE SkipLine
  BY <1>4 DEF SkipLine, NextLine
<1>5. CASE NotSent
  BY <1>5 DEF NotSent, NextLine, L
<1>6. CASE GetAccountNonce
  BY <1>6 DEF GetAccountNonce, L
<1>7. CASE SendTransaction
  BY <1>7 DEF SendTransaction, Accept, Confirmed, ReplyLost, Refused
<1>8. CASE WriteOutput
  BY <1>8 DEF WriteOutput
<1>9. CASE WriteRewardResultToDB
  BY <1>9, SMTT(30) DEF WriteRewardResultToDB, NextLine, L
<1>10. CASE EndList
  BY <1>10 DEF EndList, F
<1>11. CASE ImportRewards
  BY <1>11, <1>d DEF ImportRewards
<1>12. CASE ImportLine
  <2>1. /\ imports' = [imports EXCEPT !.at = @ + 1]
        /\ UNCHANGED <<setup, reward, pending, nonce, run, dryRun, pc, list, line>>
    BY <1>12 DEF ImportLine, NextImport, sender
  <2>2. faults' \in Nat
    BY <1>12 DEF ImportLine
  <2> QED
    BY <2>1, <2>2
<1>13. CASE EndImport
  BY <1>13 DEF EndImport, sender
<1>14. CASE Exit
  BY <1>14 DEF Exit, sender, NoImport
<1>15. CASE Crash
  BY <1>15 DEF Crash
<1>16. CASE Mine
  BY <1>16 DEF Mine, job, sender
<1>17. CASE OtherTransaction
  BY <1>17 DEF OtherTransaction, job, sender
<1>18. CASE UNCHANGED vars
  BY <1>18 DEF vars, job, sender
<1> QED
  BY <1>1, <1>2, <1>3, <1>4, <1>5, <1>6, <1>7, <1>8, <1>9, <1>10, <1>11, <1>12,
     <1>13, <1>14, <1>15, <1>16, <1>17, <1>18 DEF Next, Step, Import

\* Every step keeps the types of the transactions, the files and the records.
LEMMA DataStep == Types /\ [Next]_vars => Data'
<1> SUFFICES ASSUME Types, [Next]_vars PROVE Data'
  OBVIOUS
<1> USE DEF Types, Data, given, node, records, history
<1>t. list \in F /\ (pc \in {"send", "write", "save"} => line \in L)
  BY DEF Control
<1>u. \A old, tx \in {NoRecord} \cup Hashes : Updated(old, tx) \in {NoRecord} \cup Hashes
  BY DEF Updated
<1>h. {NoTx} \cup accepted \subseteq Hashes
  BY DEF Hashes
<1>1. CASE Start
  BY <1>1 DEF Start
<1>2. CASE OpenList
  BY <1>2, <1>t DEF OpenList
<1>7. CASE SendTransaction
  <2>1. Tx \in TxType
    BY <1>7, AmountInt DEF SendTransaction, Tx, TxType, Control
  <2>2. CASE nonce = pending /\ Accept /\ (Confirmed \/ ReplyLost)
    BY <1>7, <2>1, <2>2 DEF SendTransaction, Accept, Confirmed, ReplyLost
  <2>3. CASE Refused
    BY <1>7, <2>3 DEF SendTransaction, Refused
  <2> QED
    BY <1>7, <2>2, <2>3 DEF SendTransaction
<1>8. CASE WriteOutput
  <2>1. [line |-> line, tx |-> txHash] \in Entry
    BY <1>8, <1>t, <1>h DEF WriteOutput, Entry
  <2>2. Append(output[list], [line |-> line, tx |-> txHash]) \in Seq(Entry)
    BY <1>t, <2>1
  <2>3. output' \in [F -> Seq(Entry)]
    BY <1>8, <2>2 DEF WriteOutput
  <2>4. missed' \subseteq accepted
    BY <1>8 DEF WriteOutput
  <2> QED
    BY <1>8, <2>3, <2>4 DEF WriteOutput
<1>9. CASE WriteRewardResultToDB
  <2>1. Updated(result[list][line], txHash) \in {NoRecord} \cup Hashes
    BY <1>9, <1>t, <1>u, <1>h DEF WriteRewardResultToDB
  <2>2. result' \in [F -> [L -> {NoRecord} \cup Hashes]]
    BY <1>9, <1>t, <2>1 DEF WriteRewardResultToDB
  <2> QED
    BY <1>9, <2>2 DEF WriteRewardResultToDB
<1>12. CASE ImportLine
  <2>1. imports.at \in Nat /\ imports.at >= 1
    BY <1>12 DEF Control, ImportLine
  <2> DEFINE o == output[list][imports.at]
  <2>2. CASE ~imports.dryRun /\ result' = [result EXCEPT ![list][o.line] = Updated(@, o.tx)]
    <3>1. o \in Entry
      BY <1>12, <1>t, <2>1 DEF ImportLine
    <3>2. o.line \in L /\ Updated(result[list][o.line], o.tx) \in {NoRecord} \cup Hashes
      BY <3>1, <1>t, <1>u DEF Entry
    <3>3. result' \in [F -> [L -> {NoRecord} \cup Hashes]]
      BY <2>2, <3>2
    <3> QED
      BY <1>12, <3>3 DEF ImportLine, sender
  <2>3. CASE UNCHANGED result
    BY <1>12, <2>3 DEF ImportLine, sender
  <2> QED
    BY <1>12, <2>2, <2>3 DEF ImportLine
<1>15. CASE Crash
  BY <1>15 DEF Crash
<1>r. CASE RejectList \/ SkipLine \/ NotSent \/ GetAccountNonce \/ EndList
  BY <1>r DEF RejectList, SkipLine, NotSent, GetAccountNonce, EndList
<1>s. CASE ImportRewards \/ EndImport \/ Exit \/ Mine \/ OtherTransaction \/ UNCHANGED vars
  BY <1>s DEF ImportRewards, EndImport, Exit, Mine, OtherTransaction, vars, job, sender
<1> QED
  BY <1>1, <1>2, <1>7, <1>8, <1>9, <1>12, <1>15, <1>r, <1>s DEF Next, Step, Import

\* Every step keeps the types.
LEMMA TypesStep == Types /\ [Next]_vars => Types'
  BY ControlStep, DataStep DEF Types

----------------------------------------------------------------------------
\* One payment a line

\* Line l of list f comes after the line that t pays.
After(f, l, t) == t.list < f \/ (t.list = f /\ t.line < l)

\* The lines the run has paid are the ones it has been at: the one it is at only
\* while its hash is written and saved.
InOrder ==
  /\ \A t \in accepted : t.run <= run
  /\ pc = "check" => \A t \in OfRun(run) : t.list < list
  /\ pc \in {"line", "send"} => \A t \in OfRun(run) : After(list, line, t)
  /\ pc \in {"write", "save"} => \A t \in OfRun(run) : After(list, line + 1, t)

\* The first start finds nothing paid.
LEMMA InOrderInit == Init => InOrder /\ PaidOncePerRun
  BY DEF Init, InOrder, PaidOncePerRun, OfRun

\* processLine after processLine, and list after list, the job only goes forward.
LEMMA InOrderStep == Types /\ InOrder /\ [Next]_vars => InOrder'
<1> SUFFICES ASSUME Types, InOrder, [Next]_vars PROVE InOrder'
  OBVIOUS
<1> USE DEF InOrder, OfRun, After, given, node, records, history
<1>t. /\ run \in Nat /\ list \in Nat /\ line \in Nat
      /\ \A t \in accepted : t.run \in Nat /\ t.list \in Nat /\ t.line \in Nat
      /\ \A t \in accepted : t.line <= Lines
  BY Numbers
<1>1. CASE Start
  BY <1>1, <1>t DEF Start
<1>2. CASE OpenList
  BY <1>2, <1>t DEF OpenList
<1>4. CASE SkipLine
  BY <1>4, <1>t DEF SkipLine, NextLine
<1>5. CASE NotSent
  BY <1>5, <1>t DEF NotSent, NextLine
<1>6. CASE GetAccountNonce
  BY <1>6, <1>t DEF GetAccountNonce
<1>7. CASE SendTransaction
  <2>1. CASE nonce = pending /\ Accept /\ Confirmed
    BY <1>7, <2>1, <1>t DEF SendTransaction, Accept, Confirmed, Tx
  <2>2. CASE nonce = pending /\ Accept /\ ReplyLost
    BY <1>7, <2>2, <1>t DEF SendTransaction, Accept, ReplyLost, Tx
  <2>3. CASE Refused
    BY <1>7, <2>3, <1>t DEF SendTransaction, Refused
  <2> QED
    BY <1>7, <2>1, <2>2, <2>3 DEF SendTransaction
<1>8. CASE WriteOutput
  BY <1>8, <1>t DEF WriteOutput
<1>9. CASE WriteRewardResultToDB
  BY <1>9, <1>t DEF WriteRewardResultToDB, NextLine
<1>10. CASE EndList
  BY <1>10, <1>t DEF EndList
<1>r. CASE RejectList \/ Crash
  BY <1>r, <1>t DEF RejectList, Crash
<1>s. CASE ImportRewards \/ ImportLine \/ EndImport \/ Exit
  BY <1>s, <1>t DEF ImportRewards, ImportLine, EndImport, Exit, sender
<1>u. CASE Mine \/ OtherTransaction \/ UNCHANGED vars
  BY <1>u, <1>t DEF Mine, OtherTransaction, vars, job, sender
<1> QED
  BY <1>1, <1>2, <1>4, <1>5, <1>6, <1>7, <1>8, <1>9, <1>10, <1>r, <1>s, <1>u
  DEF Next, Step, Import

\* Only SendTransaction makes a transaction, and it makes the one of its line.
LEMMA AcceptedStep ==
  ASSUME Types, [Next]_vars
  PROVE  \/ UNCHANGED accepted
         \/ pc = "send" /\ SendTransaction /\ Accept
<1> USE DEF given, node, records, history
<1>1. CASE SendTransaction
  BY <1>1 DEF SendTransaction, Refused
<1>2. CASE Start \/ OpenList \/ RejectList \/ SkipLine \/ NotSent \/ GetAccountNonce
           \/ WriteOutput \/ WriteRewardResultToDB \/ EndList
  BY <1>2 DEF Start, OpenList, RejectList, SkipLine, NotSent, GetAccountNonce,
              WriteOutput, WriteRewardResultToDB, EndList
<1>3. CASE Import \/ Exit \/ Crash \/ Mine \/ OtherTransaction \/ UNCHANGED vars
  BY <1>3 DEF Import, ImportRewards, ImportLine, EndImport, Exit, Crash, Mine,
              OtherTransaction, vars, job, sender
<1> QED
  BY <1>1, <1>2, <1>3 DEF Next, Step

\* The job never sends a line again, even when the reply to it was lost.
LEMMA PaidOnceStep ==
  Types /\ InOrder /\ PaidOncePerRun /\ [Next]_vars => PaidOncePerRun'
<1> SUFFICES ASSUME Types, InOrder, PaidOncePerRun, [Next]_vars PROVE PaidOncePerRun'
  OBVIOUS
<1>t. /\ list \in Nat /\ line \in Nat
      /\ \A t \in accepted : t.list \in Nat /\ t.line \in Nat
  BY Numbers
<1>1. CASE UNCHANGED accepted
  BY <1>1 DEF PaidOncePerRun
<1>2. CASE pc = "send" /\ Accept
  <2>1. \A t \in accepted : ~(t.run = run /\ t.list = list /\ t.line = line)
    BY <1>2, <1>t DEF InOrder, OfRun, After
  <2>2. Tx.run = run /\ Tx.list = list /\ Tx.line = line
    BY DEF Tx
  <2> QED
    BY <1>2, <2>1, <2>2 DEF Accept, PaidOncePerRun
<1> QED
  BY <1>1, <1>2, AcceptedStep

\* One start of the job never pays a line twice: SendRewardsTransaction is not
\* retried, and the nonce refuses what a concurrent sender would repeat.
THEOREM PaidOnce == Spec => []PaidOncePerRun
<1>1. Init => Types /\ InOrder /\ PaidOncePerRun
  BY TypesInit, InOrderInit
<1>2. Types /\ InOrder /\ PaidOncePerRun /\ [Next]_vars
      => (Types /\ InOrder /\ PaidOncePerRun)'
  BY TypesStep, InOrderStep, PaidOnceStep
<1> QED
  BY <1>1, <1>2, PTL DEF Spec

----------------------------------------------------------------------------
\* Hashes

\* The hash the job holds is that of the line it is at, and a real run has one.
HashAt ==
  /\ pc \notin {"write", "save"} => txHash = NoTx
  /\ pc \in {"write", "save"} /\ txHash # NoTx =>
       txHash.run = run /\ txHash.list = list /\ txHash.line = line
  /\ pc \in {"write", "save"} /\ ~dryRun => txHash # NoTx
  /\ pc = "send" => ~dryRun /\ Amount(list, line) > 0 /\ Amount(list, line) >= Dust

\* Every payment is the line's reward in full, and no dust.
InFull ==
  \A t \in accepted :
    t.amount = Amount(t.list, t.line) /\ t.amount > 0 /\ t.amount >= Dust

\* No step changes the lists or the options.
LEMMA GivenStep ==
  ASSUME [Next]_vars
  PROVE  UNCHANGED <<setup, reward>> /\ \A f, l : Amount(f, l)' = Amount(f, l)
<1> USE DEF given, node, records, history
<1>1. UNCHANGED <<setup, reward>>
  <2>1. CASE Start \/ OpenList \/ RejectList \/ SkipLine \/ NotSent \/ GetAccountNonce
             \/ SendTransaction \/ WriteOutput \/ WriteRewardResultToDB \/ EndList
    BY <2>1 DEF Start, OpenList, RejectList, SkipLine, NotSent, GetAccountNonce,
                SendTransaction, WriteOutput, WriteRewardResultToDB, EndList
  <2>2. CASE Import \/ Exit \/ Crash \/ Mine \/ OtherTransaction \/ UNCHANGED vars
    BY <2>2 DEF Import, ImportRewards, ImportLine, EndImport, Exit, Crash, Mine,
                OtherTransaction, vars
  <2> QED
    BY <2>1, <2>2 DEF Next, Step
<1>2. \A f, l : Amount(f, l)' = Amount(f, l)
  BY <1>1 DEF Amount, FromFile
<1> QED
  BY <1>1, <1>2

\* The first start holds no hash.
LEMMA HashInit == Init => HashAt /\ InFull
  BY DEF Init, HashAt, InFull

\* The hash comes from SendTransaction, and goes with the line.
LEMMA HashAtStep == Types /\ HashAt /\ [Next]_vars => HashAt'
<1> SUFFICES ASSUME Types, HashAt, [Next]_vars PROVE HashAt'
  OBVIOUS
<1> USE GivenStep, Numbers DEF HashAt, given, node, records, history
<1>d. dryRun \in BOOLEAN
  BY DEF Types, Control
<1>1. CASE Start
  BY <1>1 DEF Start
<1>2. CASE OpenList \/ RejectList \/ SkipLine \/ EndList
  BY <1>2 DEF OpenList, RejectList, SkipLine, EndList
<1>5. CASE NotSent
  BY <1>5, <1>d DEF NotSent
<1>6. CASE GetAccountNonce
  <2>1. Amount(list, line) >= Dust
    BY <1>6, AmountInt, Bounds DEF GetAccountNonce, IsDust, Types, Control, L
  <2> QED
    BY <1>6, <2>1 DEF GetAccountNonce
<1>7. CASE SendTransaction
  <2>1. CASE nonce = pending /\ Accept /\ Confirmed
    <3>1. Tx # NoTx
      BY DEF Tx, NoTx, Types, Control
    <3> QED
      BY <1>7, <2>1, <3>1 DEF SendTransaction, Confirmed, Tx
  <2>2. CASE ReplyLost \/ Refused
    BY <1>7, <2>2 DEF SendTransaction, ReplyLost, Refused
  <2> QED
    BY <1>7, <2>1, <2>2 DEF SendTransaction
<1>8. CASE WriteOutput
  BY <1>8 DEF WriteOutput
<1>9. CASE WriteRewardResultToDB \/ Crash
  BY <1>9 DEF WriteRewardResultToDB, Crash
<1>s. CASE ImportRewards \/ ImportLine \/ EndImport \/ Exit
  BY <1>s DEF ImportRewards, ImportLine, EndImport, Exit, sender
<1>u. CASE Mine \/ OtherTransaction \/ UNCHANGED vars
  BY <1>u DEF Mine, OtherTransaction, vars, job, sender
<1> QED
  BY <1>1, <1>2, <1>5, <1>6, <1>7, <1>8, <1>9, <1>s, <1>u DEF Next, Step, Import

\* A transaction is made for the whole reward of a line that is not dust.
LEMMA InFullStep == Types /\ HashAt /\ InFull /\ [Next]_vars => InFull'
<1> SUFFICES ASSUME Types, HashAt, InFull, [Next]_vars PROVE InFull'
  OBVIOUS
<1>1. CASE UNCHANGED accepted
  BY <1>1, GivenStep DEF InFull
<1>2. CASE pc = "send" /\ Accept
  <2>1. Tx.amount = Amount(Tx.list, Tx.line) /\ Tx.amount > 0 /\ Tx.amount >= Dust
    BY <1>2 DEF Tx, HashAt
  <2> QED
    BY <1>2, <2>1, GivenStep DEF Accept, InFull
<1> QED
  BY <1>1, <1>2, AcceptedStep

\* Only OpenList and WriteOutput touch the output files: one empties a file, the
\* other appends to it.
LEMMA OutputStep ==
  ASSUME [Next]_vars
  PROVE  \/ UNCHANGED output
         \/ /\ pc = "check" /\ OpenList
            /\ output' = [output EXCEPT ![list] = <<>>]
         \/ /\ pc = "write" /\ WriteOutput
            /\ output' = [output EXCEPT ![list] = Append(@, [line |-> line, tx |-> txHash])]
<1> USE DEF given, node, records, history
<1>1. CASE OpenList \/ WriteOutput
  BY <1>1 DEF OpenList, WriteOutput
<1>2. CASE Start \/ RejectList \/ SkipLine \/ NotSent \/ GetAccountNonce
           \/ SendTransaction \/ WriteRewardResultToDB \/ EndList
  BY <1>2 DEF Start, RejectList, SkipLine, NotSent, GetAccountNonce,
              SendTransaction, WriteRewardResultToDB, EndList
<1>3. CASE Import \/ Exit \/ Crash \/ Mine \/ OtherTransaction \/ UNCHANGED vars
  BY <1>3 DEF Import, ImportRewards, ImportLine, EndImport, Exit, Crash, Mine,
              OtherTransaction, vars
<1> QED
  BY <1>1, <1>2, <1>3 DEF Next, Step

\* Only WriteRewardResultToDB and an import touch the records, one at a time.
LEMMA ResultStep ==
  ASSUME [Next]_vars
  PROVE  \/ UNCHANGED result
         \/ /\ pc = "save" /\ WriteRewardResultToDB
            /\ result' = [result EXCEPT ![list][line] = Updated(@, txHash)]
         \/ /\ pc = "import" /\ ImportLine /\ imports.at <= Len(output[list])
            /\ result' = [result EXCEPT ![list][output[list][imports.at].line] =
                            Updated(@, output[list][imports.at].tx)]
<1> USE DEF given, node, records, history
<1>1. CASE WriteRewardResultToDB \/ ImportLine
  BY <1>1 DEF WriteRewardResultToDB, ImportLine
<1>2. CASE Start \/ OpenList \/ RejectList \/ SkipLine \/ NotSent \/ GetAccountNonce
           \/ SendTransaction \/ WriteOutput \/ EndList
  BY <1>2 DEF Start, OpenList, RejectList, SkipLine, NotSent, GetAccountNonce,
              SendTransaction, WriteOutput, EndList
<1>3. CASE ImportRewards \/ EndImport \/ Exit \/ Crash \/ Mine \/ OtherTransaction
           \/ UNCHANGED vars
  BY <1>3 DEF ImportRewards, EndImport, Exit, Crash, Mine, OtherTransaction, vars
<1> QED
  BY <1>1, <1>2, <1>3 DEF Next, Step, Import

\* The node forgets no transaction.
LEMMA AcceptedGrows ==
  ASSUME Types, [Next]_vars PROVE accepted \subseteq accepted'
  BY AcceptedStep DEF Accept

\* A line of output f with hash tx is about a payment of that line.
Pays(tx, f, l) ==
  tx \in accepted /\ tx.list = f /\ tx.line = l /\ tx.amount = Amount(f, l)

\* The two parts of HashesTruthful: the output files and the records.
OutputTruthful ==
  \A f \in F : \A i \in DOMAIN output[f] :
    output[f][i].tx # NoTx => Pays(output[f][i].tx, f, output[f][i].line)

ResultTruthful ==
  \A f \in F, l \in L : result[f][l] \notin {NoRecord, NoTx} => Pays(result[f][l], f, l)

\* An output line is written with the hash of its own line.
LEMMA OutputTruthfulStep ==
  ASSUME Types, HashAt, InFull, OutputTruthful, [Next]_vars
  PROVE  OutputTruthful'
<1>1. \A tx, f, l : Pays(tx, f, l) => Pays(tx, f, l)'
  BY AcceptedGrows, GivenStep DEF Pays
<1>t. output \in [F -> Seq(Entry)] /\ list \in F
  BY DEF Types, Control, Data
<1>2. CASE UNCHANGED output
  BY <1>1, <1>2 DEF OutputTruthful
<1>3. CASE output' = [output EXCEPT ![list] = <<>>]
  BY <1>1, <1>3, <1>t DEF OutputTruthful
<1>4. CASE pc = "write" /\ output' = [output EXCEPT ![list] =
                                        Append(@, [line |-> line, tx |-> txHash])]
  <2>1. txHash # NoTx => Pays(txHash, list, line)
    BY <1>4 DEF Pays, HashAt, InFull, Types, Data
  <2> SUFFICES ASSUME NEW f \in F, NEW i \in DOMAIN output'[f], output'[f][i].tx # NoTx
               PROVE  Pays(output'[f][i].tx, f, output'[f][i].line)
    BY <1>1 DEF OutputTruthful, Pays
  <2>2. CASE f # list \/ i \in DOMAIN output[f]
    BY <1>4, <1>t, <2>2 DEF OutputTruthful
  <2>3. CASE f = list /\ i \notin DOMAIN output[f]
    BY <1>4, <1>t, <2>1, <2>3
  <2> QED
    BY <2>2, <2>3
<1> QED
  BY <1>2, <1>3, <1>4, OutputStep

\* An import reads a line of the output file.
LEMMA ImportedLine ==
  ASSUME Types, pc = "import", imports.at <= Len(output[list])
  PROVE  /\ imports.at \in DOMAIN output[list]
         /\ output[list][imports.at].line \in L
         /\ output[list][imports.at].tx \in Hashes
<1>1. imports.at \in Nat /\ imports.at >= 1 /\ list \in F
  BY DEF Types, Control
<1>2. output[list] \in Seq(Entry)
  BY <1>1 DEF Types, Data
<1>3. imports.at \in DOMAIN output[list] /\ output[list][imports.at] \in Entry
  BY <1>1, <1>2
<1> QED
  BY <1>3 DEF Entry

\* A record gets the hash of its own line, from the job or from the output file.
LEMMA ResultTruthfulStep ==
  ASSUME Types, HashAt, InFull, OutputTruthful, ResultTruthful, [Next]_vars
  PROVE  ResultTruthful'
<1>1. \A tx, f, l : Pays(tx, f, l) => Pays(tx, f, l)'
  BY AcceptedGrows, GivenStep DEF Pays
<1>t. result \in [F -> [L -> {NoRecord} \cup Hashes]] /\ list \in F
  BY DEF Types, Control, Data
<1>2. CASE UNCHANGED result
  BY <1>1, <1>2 DEF ResultTruthful
<1>3. CASE pc = "save" /\ result' = [result EXCEPT ![list][line] = Updated(@, txHash)]
  <2>1. txHash # NoTx => Pays(txHash, list, line)
    BY <1>3 DEF Pays, HashAt, InFull, Types, Data
  <2>2. line \in L
    BY <1>3 DEF Types, Control
  <2> QED
    BY <1>1, <1>3, <1>t, <2>1, <2>2 DEF ResultTruthful, Updated
<1>4. CASE /\ pc = "import" /\ imports.at <= Len(output[list])
           /\ result' = [result EXCEPT ![list][output[list][imports.at].line] =
                            Updated(@, output[list][imports.at].tx)]
  <2> DEFINE o == output[list][imports.at]
  <2>1. imports.at \in DOMAIN output[list] /\ o.line \in L
    BY <1>4, ImportedLine
  <2>2. o.tx # NoTx => Pays(o.tx, list, o.line)
    BY <1>t, <2>1 DEF OutputTruthful
  <2>3. result' = [result EXCEPT ![list][o.line] = Updated(@, o.tx)]
    BY <1>4
  <2> HIDE DEF o
  <2> QED
    BY <1>1, <1>t, <2>1, <2>2, <2>3 DEF ResultTruthful, Updated
<1> QED
  BY <1>2, <1>3, <1>4, ResultStep

\* Each hash in an output file or a record is that of a transaction the node took for
\* that line, and in a file for that amount, whatever was lost or run again.
THEOREM HashesAreTruthful == Spec => []HashesTruthful
<1> DEFINE Inv == Types /\ HashAt /\ InFull /\ OutputTruthful /\ ResultTruthful
<1>1. Init => Inv
  BY TypesInit, HashInit DEF Init, OutputTruthful, ResultTruthful
<1>2. Inv /\ [Next]_vars => Inv'
  BY TypesStep, HashAtStep, InFullStep, OutputTruthfulStep, ResultTruthfulStep
<1>3. Inv => HashesTruthful
  BY DEF OutputTruthful, ResultTruthful, HashesTruthful, Pays
<1> QED
  BY <1>1, <1>2, <1>3, PTL DEF Spec

\* No run and no import ever takes the transaction hash out of a record: an empty
\* hash does not replace one in getVolumeRewardUpdateItems.
THEOREM HashesStay == Spec => HashStays
<1> DEFINE Kept == \A f \in F, l \in L :
      result[f][l] \notin {NoRecord, NoTx} => result'[f][l] \notin {NoRecord, NoTx}
<1>1. Types /\ [Next]_vars => Kept
  <2> SUFFICES ASSUME Types, [Next]_vars, NEW f \in F, NEW l \in L,
                      result[f][l] \notin {NoRecord, NoTx}
               PROVE  result'[f][l] \notin {NoRecord, NoTx}
    OBVIOUS
  <2>t. result \in [F -> [L -> {NoRecord} \cup Hashes]]
    BY DEF Types, Data
  <2>u. \A tx \in Hashes : Updated(result[f][l], tx) \notin {NoRecord, NoTx}
    BY DEF Updated, Hashes, TxType, NoTx, NoRecord
  <2>1. \A g, k : \A tx \in Hashes :
          result' = [result EXCEPT ![g][k] = Updated(@, tx)]
            => result'[f][l] \in {result[f][l], Updated(result[f][l], tx)}
    BY <2>t
  <2>2. txHash \in Hashes
    BY DEF Types, Data, Hashes
  <2>3. pc = "import" /\ imports.at <= Len(output[list])
          => output[list][imports.at].tx \in Hashes
    BY ImportedLine
  <2>4. CASE result' = [result EXCEPT ![list][line] = Updated(@, txHash)]
    BY <2>u, <2>1, <2>2, <2>4
  <2>5. CASE /\ pc = "import" /\ imports.at <= Len(output[list])
             /\ result' = [result EXCEPT ![list][output[list][imports.at].line] =
                              Updated(@, output[list][imports.at].tx)]
    <3> DEFINE at == output[list][imports.at].line
               tx == output[list][imports.at].tx
    <3>1. tx \in Hashes
      BY <2>3, <2>5
    <3>2. result' = [result EXCEPT ![list][at] = Updated(@, tx)]
      BY <2>5
    <3> HIDE DEF at, tx
    <3>3. result'[f][l] \in {result[f][l], Updated(result[f][l], tx)}
      BY <2>1, <3>1, <3>2
    <3> QED
      BY <2>u, <3>1, <3>3
  <2> QED
    BY <2>4, <2>5, ResultStep
<1> QED
  BY <1>1, TypesInit, TypesStep, PTL DEF Spec, HashStays

----------------------------------------------------------------------------
\* Payments and output lines

\* The faults that kept a payment out of the output are counted.
MissedCounted == IsFiniteSet(missed) /\ Cardinality(missed) <= faults

\* What the run paid is written, missed or about to be written.
RunRecorded ==
  \A t \in OfRun(run) :
    t \in Recorded(t.list) \/ t \in missed \/ (pc = "write" /\ t = txHash)

\* A step misses at most one payment, by a fault of its own.
LEMMA MissedStep ==
  ASSUME Types, [Next]_vars
  PROVE  \/ UNCHANGED missed /\ faults' \in {faults, faults + 1}
         \/ faults' = faults + 1 /\ \E t : missed' = missed \cup {t}
<1> USE DEF given, node, records, history, Fault
<1>1. CASE SendTransaction
  BY <1>1 DEF SendTransaction, Confirmed, ReplyLost, Refused
<1>2. CASE WriteOutput \/ Crash
  BY <1>2 DEF WriteOutput, Crash
<1>3. CASE Start \/ OpenList \/ RejectList \/ SkipLine \/ NotSent \/ GetAccountNonce
           \/ WriteRewardResultToDB \/ EndList
  BY <1>3 DEF Start, OpenList, RejectList, SkipLine, NotSent, GetAccountNonce,
              WriteRewardResultToDB, EndList
<1>4. CASE Import \/ Exit \/ Mine \/ OtherTransaction \/ UNCHANGED vars
  BY <1>4 DEF Import, ImportRewards, ImportLine, EndImport, Exit, Mine,
              OtherTransaction, vars
<1> QED
  BY <1>1, <1>2, <1>3, <1>4 DEF Next, Step

\* One fault, one payment missed at most.
LEMMA MissedCountedStep ==
  ASSUME Types, MissedCounted, [Next]_vars
  PROVE  MissedCounted'
<1>t. faults \in Nat /\ IsFiniteSet(missed) /\ Cardinality(missed) \in Nat
  BY FS_CardinalityType DEF Types, Control, MissedCounted
<1>1. CASE UNCHANGED missed /\ faults' \in {faults, faults + 1}
  BY <1>1, <1>t DEF MissedCounted
<1>2. CASE faults' = faults + 1 /\ \E t : missed' = missed \cup {t}
  <2> PICK t : missed' = missed \cup {t}
    BY <1>2
  <2>1. IsFiniteSet(missed') /\ Cardinality(missed') <= Cardinality(missed) + 1
    BY <1>t, FS_AddElement
  <2> QED
    BY <1>2, <1>t, <2>1, FS_CardinalityType DEF MissedCounted
<1> QED
  BY <1>1, <1>2, MissedStep

\* A payment is never forgotten: it is in the output of its list until the list is
\* opened by a later run.
LEMMA RunRecordedStep ==
  ASSUME Types, InOrder, HashAt, RunRecorded, [Next]_vars
  PROVE  RunRecorded'
<1> USE DEF RunRecorded, OfRun, Recorded, given, node, records, history
<1>t. /\ output \in [F -> Seq(Entry)] /\ list \in F
      /\ \A t \in accepted : t.list \in F
  BY DEF Types, Control, Data, TxType
<1>1. CASE Start
  <2>1. {t \in accepted' : t.run = run'} = {}
    BY <1>1, Numbers DEF Start, InOrder
  <2> QED
    BY <2>1
<1>2. CASE OpenList
  <2>1. \A t \in OfRun(run) : t.list # list
    BY <1>2, Numbers DEF OpenList, InOrder
  <2> QED
    BY <1>2, <1>t, <2>1 DEF OpenList
<1>7. CASE SendTransaction
  <2>1. CASE nonce = pending /\ Accept /\ Confirmed
    BY <1>7, <2>1 DEF SendTransaction, Accept, Confirmed
  <2>2. CASE nonce = pending /\ Accept /\ ReplyLost
    BY <1>7, <2>2 DEF SendTransaction, Accept, ReplyLost
  <2>3. CASE Refused
    BY <1>7, <2>3 DEF SendTransaction, Refused
  <2> QED
    BY <1>7, <2>1, <2>2, <2>3 DEF SendTransaction
<1>8. CASE WriteOutput
  <2>1. CASE output' = [output EXCEPT ![list] =
                          Append(@, [line |-> line, tx |-> txHash])]
    <3> DEFINE new == Append(output[list], [line |-> line, tx |-> txHash])
    <3>1. /\ \A i \in DOMAIN output[list] : i \in DOMAIN new /\ new[i] = output[list][i]
          /\ Len(new) \in DOMAIN new /\ new[Len(new)].tx = txHash
      BY <1>t
    <3>2. /\ output'[list] = new
          /\ \A f \in F : f # list => output'[f] = output[f]
      BY <1>t, <2>1
    <3> HIDE DEF new
    <3>3. \A f \in F : Recorded(f) \subseteq Recorded(f)'
      BY <3>1, <3>2
    <3>4. txHash # NoTx => txHash.list = list
      BY <1>8 DEF WriteOutput, HashAt
    <3>5. \A f \in F : f = list => txHash \in Recorded(f)'
      BY <3>1, <3>2
    <3>6. UNCHANGED <<accepted, run>> /\ missed \subseteq missed'
      BY <1>8 DEF WriteOutput
    <3> HIDE DEF Recorded
    <3> QED
      BY <1>t, <3>3, <3>4, <3>5, <3>6, Numbers
  <2>2. CASE UNCHANGED output
             /\ missed' = (IF txHash = NoTx THEN missed ELSE missed \cup {txHash})
    BY <1>8, <2>2, Numbers DEF WriteOutput
  <2>3. \/ UNCHANGED output
           /\ missed' = (IF txHash = NoTx THEN missed ELSE missed \cup {txHash})
        \/ output' = [output EXCEPT ![list] = Append(@, [line |-> line, tx |-> txHash])]
    BY <1>8 DEF WriteOutput
  <2> QED
    BY <2>1, <2>2, <2>3
<1>r. CASE RejectList \/ SkipLine \/ NotSent \/ GetAccountNonce \/ EndList
  BY <1>r DEF RejectList, SkipLine, NotSent, GetAccountNonce, EndList
<1>9. CASE WriteRewardResultToDB
  BY <1>9 DEF WriteRewardResultToDB
<1>15. CASE Crash
  BY <1>15, Numbers DEF Crash
<1>s. CASE ImportRewards \/ ImportLine \/ EndImport \/ Exit
  BY <1>s DEF ImportRewards, ImportLine, EndImport, Exit, sender
<1>u. CASE Mine \/ OtherTransaction \/ UNCHANGED vars
  BY <1>u DEF Mine, OtherTransaction, vars, job, sender
<1> QED
  BY <1>1, <1>2, <1>7, <1>8, <1>9, <1>15, <1>r, <1>s, <1>u DEF Next, Step, Import

\* What the current run paid is in its output files, except what it is about to
\* write and at most one payment for each fault (WriteSendRewardResult).
THEOREM PaymentsAreRecorded == Spec => []PaymentsRecorded
<1> DEFINE Inv == Types /\ InOrder /\ HashAt /\ RunRecorded /\ MissedCounted
<1>1. Init => Inv
  BY TypesInit, InOrderInit, HashInit, FS_EmptySet
  DEF Init, RunRecorded, OfRun, MissedCounted
<1>2. Inv /\ [Next]_vars => Inv'
  BY TypesStep, InOrderStep, HashAtStep, RunRecordedStep, MissedCountedStep
<1>3. Inv => PaymentsRecorded
  BY DEF RunRecorded, MissedCounted, PaymentsRecorded
<1> QED
  BY <1>1, <1>2, <1>3, PTL DEF Spec

----------------------------------------------------------------------------
\* A run that ends has paid everything

\* The job has been at line l of list f, and is through with it or holds its hash.
Passed(f, l) ==
  \/ pc = "finished"
  \/ f < list
  \/ f = list /\ pc \in {"line", "send"} /\ l < line
  \/ f = list /\ pc \in {"write", "save"} /\ l <= line

\* A real run has paid every line it passed, unless the line is empty or dust.
AllPaid ==
  ~dryRun /\ pc \in {"check", "line", "send", "write", "save", "finished"} =>
    \A f \in F, l \in L :
      Passed(f, l) /\ Amount(f, l) > 0 /\ Amount(f, l) >= Dust =>
        \E t \in OfRun(run) : t.list = f /\ t.line = l

\* The job passes a line only by paying it or because there is nothing to pay, and
\* ends only after the last line of the last list.
LEMMA AllPaidStep ==
  ASSUME Types, HashAt, AllPaid, [Next]_vars
  PROVE  AllPaid'
<1> USE DEF AllPaid, Passed, OfRun, given, node, records, history
<1>t. /\ list \in Nat /\ line \in Nat /\ list <= Lists /\ Lists \in Nat /\ Lines \in Nat
      /\ Dust \in Nat /\ dryRun \in BOOLEAN
      /\ list \in F /\ (pc \in {"send", "write", "save"} => line \in L)
      /\ \A f \in F : f \in Nat /\ f >= 1 /\ f <= Lists
      /\ \A l \in L : l \in Nat /\ l >= 1 /\ l <= Lines
      /\ \A f \in F, l \in L : Amount(f, l) \in Int
      /\ line >= 1 /\ (line <= Lines => line \in L)
  <2>1. /\ list \in Nat /\ line \in Nat /\ list <= Lists /\ Lists \in Nat /\ Lines \in Nat
        /\ Dust \in Nat
    BY Bounds, Numbers
  <2>2. /\ dryRun \in BOOLEAN /\ list \in F /\ line \in 1 .. Lines + 1
        /\ (pc \in {"send", "write", "save"} => line \in L)
    BY DEF Types, Control
  <2>3. /\ \A f \in F : f \in Nat /\ f >= 1 /\ f <= Lists
        /\ \A l \in L : l \in Nat /\ l >= 1 /\ l <= Lines
    BY <2>1 DEF F, L
  <2>4. line >= 1 /\ (line <= Lines => line \in L)
    BY <2>1, <2>2 DEF L
  <2>5. \A f \in F, l \in L : Amount(f, l) \in Int
    BY AmountInt DEF Types
  <2> QED
    BY <2>1, <2>2, <2>3, <2>4, <2>5
<1>a. \A f, l : Amount(f, l)' = Amount(f, l)
  BY GivenStep
<1>1. CASE Start
  BY <1>1, <1>t DEF Start
<1>2. CASE OpenList
  BY <1>2, <1>t, <1>a DEF OpenList
<1>4. CASE SkipLine
  BY <1>4, <1>t, <1>a DEF SkipLine, NextLine
<1>5. CASE NotSent
  <2>1. CASE dryRun
    BY <1>5, <2>1 DEF NotSent
  <2>2. CASE ~dryRun
    BY <1>5, <2>2, <1>t, <1>a DEF NotSent, NextLine, IsDust
  <2> QED
    BY <2>1, <2>2, <1>t
<1>6. CASE GetAccountNonce
  BY <1>6, <1>t, <1>a DEF GetAccountNonce
<1>7. CASE SendTransaction
  <2>1. CASE nonce = pending /\ Accept /\ Confirmed
    <3>1. /\ pc = "send" /\ pc' = "write" /\ accepted' = accepted \cup {Tx}
          /\ UNCHANGED <<dryRun, list, line, run>>
          /\ Tx.run = run /\ Tx.list = list /\ Tx.line = line
      BY <1>7, <2>1 DEF SendTransaction, Accept, Confirmed, Tx
    <3>2. \A l \in L : l <= line => l < line \/ l = line
      BY <1>t
    <3> QED
      BY <1>a, <3>1, <3>2
  <2>2. CASE ReplyLost \/ Refused
    BY <1>7, <2>2 DEF SendTransaction, ReplyLost, Refused
  <2> QED
    BY <1>7, <2>1, <2>2 DEF SendTransaction
<1>8. CASE WriteOutput
  BY <1>8, <1>a DEF WriteOutput
<1>9. CASE WriteRewardResultToDB
  BY <1>9, <1>a, <1>t DEF WriteRewardResultToDB, NextLine
<1>10. CASE EndList
  <2>1. \A f \in F, l \in L : f <= list => Passed(f, l)
    BY <1>10, <1>t DEF EndList, IsThrough
  <2>2. \A f \in F : (f < list' \/ pc' = "finished") => f <= list
    BY <1>10, <1>t DEF EndList
  <2>3. pc = "line" /\ pc' \in {"check", "finished"} /\ UNCHANGED <<dryRun, accepted, run>>
    BY <1>10 DEF EndList
  <2> QED
    BY <1>a, <2>1, <2>2, <2>3
<1>r. CASE RejectList \/ Crash
  BY <1>r DEF RejectList, Crash
<1>s. CASE ImportRewards \/ ImportLine \/ EndImport \/ Exit
  BY <1>s DEF ImportRewards, ImportLine, EndImport, Exit, sender
<1>u. CASE Mine \/ OtherTransaction \/ UNCHANGED vars
  BY <1>u, <1>a DEF Mine, OtherTransaction, vars, job, sender
<1> QED
  BY <1>1, <1>2, <1>4, <1>5, <1>6, <1>7, <1>8, <1>9, <1>10, <1>r, <1>s, <1>u
  DEF Next, Step, Import

\* A real run that ends without an error has paid every line that is not dust, in
\* full, and nothing else (sendRewardsFromFile, dispatchRewards).
THEOREM FinishedIsPaid == Spec => []FinishedPaysAll
<1> DEFINE Inv == Types /\ HashAt /\ InFull /\ AllPaid
<1>1. Init => Inv
  BY TypesInit, HashInit DEF Init, AllPaid
<1>2. Inv /\ [Next]_vars => Inv'
  BY TypesStep, HashAtStep, InFullStep, AllPaidStep
<1>3. Inv => FinishedPaysAll
  <2> SUFFICES ASSUME Inv, pc = "finished", ~dryRun
               PROVE  {<<t.list, t.line, t.amount>> : t \in OfRun(run)}
                        = {<<x[1], x[2], Amount(x[1], x[2])>> : x \in Payable}
    BY DEF FinishedPaysAll
  <2>1. ASSUME NEW t \in OfRun(run)
        PROVE  \E x \in Payable : <<t.list, t.line, t.amount>>
                                    = <<x[1], x[2], Amount(x[1], x[2])>>
    <3>1. t.list \in F /\ t.line \in L /\ t.amount = Amount(t.list, t.line)
          /\ t.amount > 0 /\ t.amount >= Dust
      BY DEF OfRun, InFull, Types, Data, TxType
    <3>2. <<t.list, t.line>> \in Payable
      BY <3>1 DEF Payable
    <3> QED
      BY <3>1, <3>2
  <2>2. ASSUME NEW x \in Payable
        PROVE  \E t \in OfRun(run) : <<t.list, t.line, t.amount>>
                                       = <<x[1], x[2], Amount(x[1], x[2])>>
    <3>1. /\ x[1] \in F /\ x[2] \in L
          /\ Amount(x[1], x[2]) > 0 /\ Amount(x[1], x[2]) >= Dust
      BY DEF Payable
    <3>2. PICK t \in OfRun(run) : t.list = x[1] /\ t.line = x[2]
      BY <3>1 DEF AllPaid, Passed
    <3>3. t.amount = Amount(x[1], x[2])
      BY <3>2 DEF OfRun, InFull
    <3> QED
      BY <3>2, <3>3
  <2> QED
    BY <2>1, <2>2
<1> QED
  BY <1>1, <1>2, <1>3, PTL DEF Spec

----------------------------------------------------------------------------
\* The import

\* The lines of an output file are those of the list, in its order.
OutputOrdered ==
  /\ \A f \in F : \A i, j \in DOMAIN output[f] :
       i < j => output[f][i].line < output[f][j].line
  /\ pc \in {"line", "send", "write"} =>
       \A i \in DOMAIN output[list] : output[list][i].line < line
  /\ pc = "save" => \A i \in DOMAIN output[list] : output[list][i].line <= line

\* As long as nothing failed, the import has brought every hash it has read into
\* the record of its line.
ImportBrought ==
  /\ pc \in {"import", "imported"} /\ ~imports.dryRun =>
       /\ imports.faults <= faults
       /\ faults = imports.faults =>
            \A i \in DOMAIN output[list] :
              i < imports.at /\ output[list][i].tx # NoTx
                => result[list][output[list][i].line] = output[list][i].tx
  /\ pc = "imported" => imports.at > Len(output[list])

\* A job appends the lines of its list to an empty file, one after the other.
LEMMA OutputOrderedStep ==
  ASSUME Types, OutputOrdered, [Next]_vars
  PROVE  OutputOrdered'
<1> USE DEF OutputOrdered, given, node, records, history
<1>t. /\ output \in [F -> Seq(Entry)] /\ list \in F /\ line \in Nat
      /\ \A f \in F : \A i \in DOMAIN output[f] : output[f][i].line \in Nat
  <2>1. \A f \in F : \A i \in DOMAIN output[f] : output[f][i] \in Entry
    BY DEF Types, Data
  <2>2. \A e \in Entry : e.line \in Nat
    BY Bounds DEF Entry, L
  <2>3. output \in [F -> Seq(Entry)] /\ list \in F /\ line \in Nat
    BY Numbers DEF Types, Control, Data
  <2> QED
    BY <2>1, <2>2, <2>3
<1>2. CASE OpenList
  BY <1>2, <1>t DEF OpenList
<1>8. CASE WriteOutput
  <2>1. CASE output' = [output EXCEPT ![list] =
                          Append(@, [line |-> line, tx |-> txHash])]
    <3> DEFINE new == Append(output[list], [line |-> line, tx |-> txHash])
    <3>1. /\ DOMAIN new = 1 .. Len(output[list]) + 1
          /\ DOMAIN output[list] = 1 .. Len(output[list]) /\ Len(output[list]) \in Nat
          /\ \A i \in DOMAIN output[list] : new[i] = output[list][i]
          /\ new[Len(output[list]) + 1].line = line
      BY <1>t
    <3>2. output'[list] = new /\ \A f \in F : f # list => output'[f] = output[f]
      BY <1>t, <2>1
    <3>3. pc = "write" /\ pc' = "save" /\ UNCHANGED <<list, line>>
      BY <1>8 DEF WriteOutput
    <3> HIDE DEF new
    <3>a. \A i \in DOMAIN output[list] : new[i].line \in Nat /\ new[i].line < line
      BY <1>t, <3>1, <3>3
    <3>b. \A i \in DOMAIN new : i \in DOMAIN output[list] \/ i = Len(output[list]) + 1
      BY <3>1
    <3>4. \A i, j \in DOMAIN new : i < j => new[i].line < new[j].line
      BY <1>t, <3>1, <3>3, <3>a, <3>b
    <3>5. \A i \in DOMAIN new : new[i].line <= line
      BY <1>t, <3>1, <3>a, <3>b
    <3> QED
      BY <3>2, <3>3, <3>4, <3>5
  <2>2. CASE UNCHANGED output
    BY <1>8, <1>t, <2>2 DEF WriteOutput
  <2>3. \/ UNCHANGED output
        \/ output' = [output EXCEPT ![list] = Append(@, [line |-> line, tx |-> txHash])]
    BY <1>8 DEF WriteOutput
  <2> QED
    BY <2>1, <2>2, <2>3
<1>9. CASE WriteRewardResultToDB
  BY <1>9, <1>t DEF WriteRewardResultToDB, NextLine
<1>4. CASE SkipLine \/ NotSent
  BY <1>4, <1>t DEF SkipLine, NotSent, NextLine
<1>7. CASE SendTransaction
  BY <1>7 DEF SendTransaction, Confirmed, ReplyLost, Refused
<1>r. CASE Start \/ RejectList \/ GetAccountNonce \/ EndList \/ Crash
  BY <1>r DEF Start, RejectList, GetAccountNonce, EndList, Crash
<1>s. CASE ImportRewards \/ ImportLine \/ EndImport \/ Exit
  BY <1>s DEF ImportRewards, ImportLine, EndImport, Exit, sender
<1>u. CASE Mine \/ OtherTransaction \/ UNCHANGED vars
  BY <1>u DEF Mine, OtherTransaction, vars, job, sender
<1> QED
  BY <1>2, <1>4, <1>7, <1>8, <1>9, <1>r, <1>s, <1>u DEF Next, Step, Import

\* processLine brings the hash of one line and leaves the records of the others.
LEMMA ImportBroughtStep ==
  ASSUME Types, OutputOrdered, ImportBrought, [Next]_vars
  PROVE  ImportBrought'
<1> USE DEF ImportBrought, given, node, records, history, Fault
<1>t. /\ faults \in Nat /\ list \in F /\ imports.at \in Nat
      /\ imports \in [dryRun : BOOLEAN, at : Nat, faults : Nat]
      /\ output[list] \in Seq(Entry)
      /\ result \in [F -> [L -> {NoRecord} \cup Hashes]]
  BY DEF Types, Control, Data
<1>11. CASE ImportRewards
  <2>1. pc' = "import" /\ imports'.at = 1 /\ imports'.faults = faults /\ faults' = faults
    BY <1>11 DEF ImportRewards
  <2>2. \A i \in DOMAIN output'[list'] : ~(i < 1)
    BY <1>11 DEF ImportRewards, Types, Data
  <2> QED
    BY <1>t, <2>1, <2>2
<1>12. CASE ImportLine
  <2> DEFINE o == output[list][imports.at]
  <2>1. /\ imports.at \in DOMAIN output[list] /\ o.line \in L
        /\ \A i \in DOMAIN output[list] : i \in Nat
    BY <1>12, <1>t, ImportedLine DEF ImportLine
  <2>2. /\ UNCHANGED <<pc, list, output>> /\ pc = "import"
        /\ imports' = [imports EXCEPT !.at = @ + 1]
    BY <1>12 DEF ImportLine, NextImport, sender
  <2>3. /\ imports'.dryRun = imports.dryRun /\ imports'.faults = imports.faults
        /\ imports'.at = imports.at + 1
    BY <1>t, <2>2
  <2>4. CASE result' = [result EXCEPT ![list][o.line] = Updated(@, o.tx)] /\ UNCHANGED faults
    <3>1. \A i \in DOMAIN output[list] : i < imports.at => output[list][i].line < o.line
      BY <1>t, <2>1 DEF OutputOrdered
    <3>2. \A l \in L : l < o.line => result'[list][l] = result[list][l]
      BY <1>t, <2>1, <2>4 DEF L
    <3>3. o.tx # NoTx => result'[list][o.line] = o.tx
      BY <1>t, <2>1, <2>4 DEF Updated
    <3>4. \A i \in DOMAIN output[list] : output[list][i].line \in L
      <4>1. \A i \in DOMAIN output[list] : output[list][i] \in Entry
        BY <1>t
      <4> QED
        BY <4>1 DEF Entry
    <3>5. \A i \in DOMAIN output[list] : i < imports'.at => i < imports.at \/ i = imports.at
      BY <1>t, <2>1, <2>3
    <3> QED
      BY <2>2, <2>3, <2>4, <3>1, <3>2, <3>3, <3>4, <3>5
  <2>5. CASE imports.dryRun
    BY <2>2, <2>3, <2>5
  <2>6. CASE ~imports.dryRun /\ faults' = faults + 1
    <3>1. imports.faults <= faults /\ imports.faults \in Nat
      BY <1>t, <2>2, <2>6
    <3>2. imports'.faults <= faults' /\ faults' # imports'.faults
      BY <1>t, <2>3, <2>6, <3>1
    <3> QED
      BY <2>2, <3>2
  <2> QED
    BY <1>12, <2>4, <2>5, <2>6 DEF ImportLine
<1>13. CASE EndImport
  BY <1>13, <1>t DEF EndImport, sender
<1>1. CASE Start \/ OpenList \/ RejectList \/ SkipLine \/ NotSent \/ GetAccountNonce
  BY <1>1 DEF Start, OpenList, RejectList, SkipLine, NotSent, GetAccountNonce
<1>2. CASE SendTransaction
  BY <1>2 DEF SendTransaction, Confirmed, ReplyLost, Refused
<1>3. CASE WriteOutput \/ WriteRewardResultToDB \/ EndList \/ Exit \/ Crash
  BY <1>3 DEF WriteOutput, WriteRewardResultToDB, EndList, Exit, Crash
<1>u. CASE Mine \/ OtherTransaction \/ UNCHANGED vars
  BY <1>u DEF Mine, OtherTransaction, vars, job, sender
<1> QED
  BY <1>1, <1>2, <1>3, <1>11, <1>12, <1>13, <1>u DEF Next, Step, Import

\* After an import without a fault the database has the transaction of every line the
\* last run has paid from this list, except those its output does not have
\* (importrewards, "import rewards result to database").
THEOREM ImportHealed == Spec => []ImportHeals
<1> DEFINE Inv == /\ Types /\ InOrder /\ HashAt /\ InFull
                  /\ RunRecorded /\ OutputTruthful /\ OutputOrdered /\ ImportBrought
<1>1. Init => Inv
  BY TypesInit, InOrderInit, HashInit
  DEF Init, RunRecorded, OfRun, OutputTruthful, OutputOrdered, ImportBrought
<1>2. Inv /\ [Next]_vars => Inv'
  BY TypesStep, InOrderStep, HashAtStep, InFullStep, RunRecordedStep, OutputTruthfulStep,
     OutputOrderedStep, ImportBroughtStep
<1>3. Inv => ImportHeals
  <2> SUFFICES ASSUME Inv, pc = "imported", ~imports.dryRun, faults = imports.faults,
                      NEW t \in OfRun(run), t.list = list, t \notin missed
               PROVE  result[list][t.line] = t
    BY DEF ImportHeals
  <2>1. t \in Recorded(list)
    BY DEF RunRecorded
  <2>2. PICK i \in DOMAIN output[list] : output[list][i].tx = t
    BY <2>1 DEF Recorded
  <2>3. t # NoTx /\ list \in F /\ output[list] \in Seq(Entry)
    BY Numbers DEF OfRun, Types, Control, Data
  <2>4. output[list][i].line = t.line
    BY <2>2, <2>3 DEF OutputTruthful, Pays
  <2>5. i < imports.at
    BY <2>2, <2>3 DEF ImportBrought, Types, Control
  <2> QED
    BY <2>2, <2>3, <2>4, <2>5 DEF ImportBrought
<1> QED
  BY <1>1, <1>2, <1>3, PTL DEF Spec

----------------------------------------------------------------------------
\* What the records of a distribution say

\* The transactions of a run for a list, and the dust of a list before line n
PaidFor(r, f) == {t \in OfRun(r) : t.list = f}
DustLines(f, n) == {l \in L : l < n /\ Amount(f, l) < Dust}
DustOf(f, n) == SumFunction([l \in DustLines(f, n) |-> Amount(f, l)])

\* The amounts that sums are taken of are natural numbers.
Summable ==
  /\ IsFiniteSet(accepted)
  /\ \A t \in accepted : t.amount \in Nat

\* A calculated list has no unreadable line.
LEMMA CalculatedAmount ==
  ASSUME Types, reward \in [F -> [L -> setup.rewards]], ~FromFile, NEW f \in F, NEW l \in L
  PROVE  Amount(f, l) \in Nat
<1>1. setup.rewards \subseteq Nat
  BY SendRewardsAssumption DEF Types, Control, IsSetup, FromFile
<1> QED
  BY <1>1 DEF Amount

\* The sum of transactions: of none, and of one more.
LEMMA SumOfTxs ==
  ASSUME NEW S, IsFiniteSet(S), \A t \in S : t.amount \in Nat
  PROVE  /\ Sum(S) \in Nat
         /\ \A R \in SUBSET S : Sum(R) \in Nat /\ Sum(R) <= Sum(S)
         /\ \A x : x \notin S /\ x.amount \in Nat => Sum(S \cup {x}) = Sum(S) + x.amount
<1> DEFINE f == [t \in S |-> t.amount]
<1>1. f \in [S -> Nat] /\ f \in [S -> Int]
  OBVIOUS
<1>2. ASSUME NEW R \in SUBSET S
      PROVE  SumFunction([x \in R |-> f[x]]) \in Nat
             /\ SumFunction([x \in R |-> f[x]]) <= SumFunction(f) /\ SumFunction(f) \in Nat
  <2> HIDE DEF f
  <2> QED
    BY <1>1, SumOfPart
<1>3. \A R \in SUBSET S : [x \in R |-> f[x]] = [t \in R |-> t.amount]
  OBVIOUS
<1>4. ASSUME NEW x, x \notin S, x.amount \in Nat
      PROVE  Sum(S \cup {x}) = Sum(S) + x.amount
  <2> DEFINE g == [t \in S \cup {x} |-> t.amount]
  <2>1. g \in [S \cup {x} -> Int] /\ (\A y \in S : g[y] = f[y]) /\ g[x] = x.amount
    BY <1>4
  <2>2. SumFunction(g) = SumFunction(f) + g[x]
    <3>1. \A h \in [S -> Int], k \in [S \cup {x} -> Int] :
            (\A y \in S : k[y] = h[y]) => SumFunction(k) = SumFunction(h) + k[x]
      BY <1>4, SumAdd
    <3> HIDE DEF f, g
    <3> QED
      BY <1>1, <2>1, <3>1
  <2> QED
    BY <2>1, <2>2 DEF Sum
<1> QED
  BY <1>2, <1>3, <1>4 DEF Sum

\* The dust before the next line is the dust before this one, and this one's.
LEMMA DustNext ==
  ASSUME NEW f, NEW n \in L, \A l \in L : Amount(f, l) \in Nat
  PROVE  /\ DustOf(f, n) \in Nat
         /\ DustOf(f, n + 1) = DustOf(f, n) + (IF Amount(f, n) < Dust THEN Amount(f, n) ELSE 0)
<1>b. Lines \in Nat /\ Dust \in Nat /\ n \in Nat /\ \A l \in L : l \in Nat
  BY Bounds DEF L
<1>a. \A l \in L : l < n + 1 <=> l < n \/ l = n
  BY <1>b
<1> DEFINE S == DustLines(f, n)
           h == [l \in S |-> Amount(f, l)]
<1>1. S \in SUBSET L /\ IsFiniteSet(S)
  <2>1. S \in SUBSET L
    BY DEF DustLines
  <2>2. IsFiniteSet(L)
    BY <1>b, FS_Interval DEF L
  <2> QED
    BY <2>1, <2>2, FS_Subset
<1>2. h \in [S -> Nat] /\ h \in [S -> Int] /\ h = [l \in S |-> h[l]]
  BY <1>1
<1>3. SumFunction(h) \in Nat
  <2> HIDE DEF h
  <2> QED
    BY <1>1, <1>2, SumOfPart
<1>4. CASE ~(Amount(f, n) < Dust)
  <2>1. DustLines(f, n + 1) = S
    <3>1. \A l \in L : l < n + 1 /\ Amount(f, l) < Dust <=> l < n /\ Amount(f, l) < Dust
      BY <1>a, <1>4
    <3> QED
      BY <3>1 DEF DustLines
  <2>2. DustOf(f, n + 1) = SumFunction(h)
    BY <2>1 DEF DustOf
  <2> QED
    BY <1>3, <1>4, <2>2 DEF DustOf
<1>5. CASE Amount(f, n) < Dust
  <2> DEFINE g == [l \in S \cup {n} |-> Amount(f, l)]
  <2>1. DustLines(f, n + 1) = S \cup {n} /\ n \notin S
    <3>1. \A l \in L : l < n + 1 /\ Amount(f, l) < Dust
                       <=> l = n \/ (l < n /\ Amount(f, l) < Dust)
      BY <1>a, <1>5
    <3>2. ~(n < n)
      BY <1>b
    <3>3. n \notin S
      BY <3>2 DEF DustLines
    <3>4. DustLines(f, n + 1) = {l \in L : l = n \/ (l < n /\ Amount(f, l) < Dust)}
      BY <3>1 DEF DustLines
    <3>5. @ = S \cup {n}
      BY DEF DustLines
    <3> QED
      BY <3>3, <3>4, <3>5
  <2>2. g \in [S \cup {n} -> Int] /\ (\A y \in S : g[y] = h[y]) /\ g[n] = Amount(f, n)
    BY <1>1
  <2>3. SumFunction(g) = SumFunction(h) + g[n]
    <3> HIDE DEF g, h, S
    <3> QED
      BY <1>1, <1>2, <2>1, <2>2, SumAdd
  <2>4. DustOf(f, n + 1) = SumFunction(g)
    BY <2>1 DEF DustOf
  <2> QED
    BY <1>3, <1>5, <2>2, <2>3, <2>4 DEF DustOf
<1> QED
  BY <1>4, <1>5

\* The lists are what the options say.
ListsGiven == reward \in [F -> [L -> setup.rewards]]

\* rewardsSended of a real run: the payments for the list and the dust it passed.
Counted ==
  ~FromFile /\ ~dryRun /\ pc \in {"line", "send", "write", "save"} =>
    rewardsSended = Sum(PaidFor(run, list)) + DustOf(list, line)

\* A record is made once its list is through: what it counts grows no more.
InfosOfThePast ==
  \A r \in infos :
    /\ r.list \in F /\ r.run \in Nat /\ r.run <= run /\ ~FromFile
    /\ r.run = run /\ pc \in {"check", "line", "send", "write", "save"} => r.list < list

\* What the records say.
InfosCounted ==
  \A r \in {x \in infos : ~x.dryRun} :
    r.rewards = Sum(PaidFor(r.run, r.list)) + DustOf(r.list, Lines + 1)

\* Every step keeps the transactions finite in number and their amounts countable.
LEMMA SummableStep ==
  ASSUME Types, InFull', Summable, [Next]_vars
  PROVE  Summable'
<1>1. Types'
  BY TypesStep
<1>2. \A t \in accepted' : t.amount \in Nat
  BY <1>1, Bounds DEF InFull, Types, Data, TxType
<1>3. IsFiniteSet(accepted')
  BY AcceptedStep, FS_AddElement DEF Accept, Summable
<1> QED
  BY <1>2, <1>3 DEF Summable

\* Only a payment of this run and list changes what is paid for a list; nothing
\* changes the dust.
LEMMA PaidForStep ==
  ASSUME Types, InOrder, [Next]_vars
  PROVE  /\ \A f, n : DustOf(f, n)' = DustOf(f, n)
         /\ UNCHANGED accepted => \A r, f : PaidFor(r, f)' = PaidFor(r, f)
         /\ pc = "send" /\ Accept =>
              /\ \A r, f : r # run \/ f # list => PaidFor(r, f)' = PaidFor(r, f)
              /\ PaidFor(run, list)' = PaidFor(run, list) \cup {Tx}
              /\ Tx \notin PaidFor(run, list)
<1>1. \A f, n : DustOf(f, n)' = DustOf(f, n)
  BY GivenStep DEF DustOf, DustLines, Amount, FromFile
<1>2. UNCHANGED accepted => \A r, f : PaidFor(r, f)' = PaidFor(r, f)
  BY DEF PaidFor, OfRun
<1>3. ASSUME pc = "send", Accept
      PROVE  /\ \A r, f : r # run \/ f # list => PaidFor(r, f)' = PaidFor(r, f)
             /\ UNCHANGED <<run, list>>
             /\ PaidFor(run, list)' = PaidFor(run, list) \cup {Tx}
             /\ Tx \notin PaidFor(run, list)
  <2>1. Tx.run = run /\ Tx.list = list /\ Tx.line = line
    BY DEF Tx
  <2>2. Tx \notin accepted
    BY <1>3, <2>1, Numbers DEF InOrder, OfRun, After
  <2>3. SendTransaction
    BY <1>3, <2>2, AcceptedStep DEF Accept
  <2>4. UNCHANGED <<run, list>>
    BY <2>3 DEF SendTransaction
  <2> QED
    BY <1>3, <2>1, <2>2, <2>4 DEF Accept, PaidFor, OfRun
<1> QED
  BY <1>1, <1>2, <1>3

\* The sum of the payments for a list is a number.
LEMMA PaidForFinite ==
  ASSUME Summable, NEW r, NEW f
  PROVE  IsFiniteSet(PaidFor(r, f)) /\ Sum(PaidFor(r, f)) \in Nat
         /\ \A t \in PaidFor(r, f) : t.amount \in Nat
<1>1. PaidFor(r, f) \in SUBSET accepted
  BY DEF PaidFor, OfRun
<1>2. IsFiniteSet(PaidFor(r, f)) /\ \A t \in PaidFor(r, f) : t.amount \in Nat
  BY <1>1, FS_Subset DEF Summable
<1> QED
  BY <1>2, SumOfTxs

\* Each line adds its payment or its dust to rewardsSended, once.
LEMMA CountedStep ==
  ASSUME Types, InOrder, HashAt, InFull, Summable, ListsGiven, Counted, [Next]_vars
  PROVE  Counted'
<1> SUFFICES ASSUME ~FromFile', ~dryRun', pc' \in {"line", "send", "write", "save"}
             PROVE  rewardsSended' = Sum(PaidFor(run, list))' + DustOf(list, line)'
  BY DEF Counted
<1>f. ~FromFile
  BY GivenStep DEF FromFile
<1>d. /\ \A f, n : DustOf(f, n)' = DustOf(f, n)
      /\ UNCHANGED accepted => \A r, f : PaidFor(r, f)' = PaidFor(r, f)
  BY PaidForStep
<1>t. /\ list \in F /\ line \in Nat /\ line >= 1 /\ (line <= Lines => line \in L)
      /\ (pc \in {"send", "write", "save"} => line \in L)
      /\ dryRun \in BOOLEAN
  BY Bounds DEF Types, Control, L
<1>a. \A l \in L : Amount(list, l) \in Nat
  BY <1>f, <1>t, CalculatedAmount DEF ListsGiven
<1>s. Sum(PaidFor(run, list)) \in Nat
  BY PaidForFinite
<1>n. line \in L =>
        /\ DustOf(list, line) \in Nat
        /\ DustOf(list, line + 1) = DustOf(list, line)
             + (IF Amount(list, line) < Dust THEN Amount(list, line) ELSE 0)
  BY <1>a, DustNext
<1> USE DEF given, node, records, history
<1>2. CASE OpenList
  <2>1. rewardsSended' = 0 /\ line' = 1 /\ UNCHANGED <<run, list, accepted>>
    BY <1>2 DEF OpenList
  <2>2. PaidFor(run, list) = {}
    BY <1>2, Numbers DEF OpenList, InOrder, PaidFor
  <2>3. DustLines(list, 1) = {}
    BY Bounds DEF DustLines, L
  <2>4. Sum({}) = 0 /\ DustOf(list, 1) = 0
    BY <2>3, SumEmpty DEF Sum, DustOf
  <2> QED
    BY <1>d, <2>1, <2>2, <2>4
<1>4. CASE SkipLine
  <2>1. /\ line' = line + 1 /\ line \in L /\ Amount(list, line) = 0 /\ pc = "line"
        /\ UNCHANGED <<run, list, accepted, rewardsSended, dryRun>>
    BY <1>4, <1>a, <1>t DEF SkipLine, NextLine
  <2>2. DustOf(list, line + 1) = DustOf(list, line)
    BY <1>n, <2>1
  <2> QED
    BY <1>d, <1>f, <2>1, <2>2 DEF Counted
<1>5. CASE NotSent
  <2>1. /\ line' = line + 1 /\ line \in L /\ Amount(list, line) < Dust /\ pc = "line"
        /\ rewardsSended' = rewardsSended + Amount(list, line)
        /\ UNCHANGED <<run, list, accepted, dryRun>>
    BY <1>5, <1>t DEF NotSent, NextLine, IsDust
  <2>2. rewardsSended = Sum(PaidFor(run, list)) + DustOf(list, line)
    BY <1>f, <2>1 DEF Counted
  <2>3. DustOf(list, line + 1) = DustOf(list, line) + Amount(list, line)
        /\ DustOf(list, line) \in Nat /\ Amount(list, line) \in Nat
    BY <1>n, <1>a, <2>1
  <2>4. Sum(PaidFor(run, list))' = Sum(PaidFor(run, list))
    BY <1>d, <2>1
  <2>5. DustOf(list, line)' = DustOf(list, line + 1)
    BY <1>d, <2>1
  <2> QED
    BY <1>s, <2>1, <2>2, <2>3, <2>4, <2>5
<1>6. CASE GetAccountNonce \/ WriteOutput
  <2>1. UNCHANGED <<run, list, line, accepted, rewardsSended, dryRun>> /\ pc \in {"line", "write"}
    BY <1>6 DEF GetAccountNonce, WriteOutput
  <2> QED
    BY <1>d, <1>f, <2>1 DEF Counted
<1>7. CASE SendTransaction
  <2>1. CASE nonce = pending /\ Accept /\ Confirmed
    <3>1. /\ pc = "send" /\ Accept /\ rewardsSended' = rewardsSended + Tx.amount
          /\ UNCHANGED <<run, list, line, dryRun>> /\ Tx.amount = Amount(list, line)
      BY <1>7, <2>1 DEF SendTransaction, Confirmed, Tx
    <3>2. /\ PaidFor(run, list)' = PaidFor(run, list) \cup {Tx}
          /\ Tx \notin PaidFor(run, list)
      BY <3>1, PaidForStep
    <3>3. Tx.amount \in Nat /\ line \in L
      BY <1>a, <1>t, <3>1
    <3>4. Sum(PaidFor(run, list) \cup {Tx}) = Sum(PaidFor(run, list)) + Tx.amount
      BY <3>2, <3>3, PaidForFinite, SumOfTxs
    <3>5. Sum(PaidFor(run, list))' = Sum(PaidFor(run, list)) + Tx.amount
      BY <3>2, <3>4 DEF Sum
    <3>6. rewardsSended = Sum(PaidFor(run, list)) + DustOf(list, line)
      BY <1>f, <3>1 DEF Counted
    <3>7. DustOf(list, line) \in Nat /\ DustOf(list, line)' = DustOf(list, line)
      BY <1>d, <1>n, <3>1, <3>3
    <3> QED
      BY <1>s, <3>1, <3>3, <3>5, <3>6, <3>7
  <2>2. CASE ReplyLost \/ Refused
    BY <2>2 DEF ReplyLost, Refused
  <2> QED
    BY <1>7, <2>1, <2>2 DEF SendTransaction
<1>9. CASE WriteRewardResultToDB
  <2>1. /\ line' = line + 1 /\ line \in L /\ pc = "save"
        /\ UNCHANGED <<run, list, accepted, rewardsSended, dryRun>>
    BY <1>9, <1>t DEF WriteRewardResultToDB, NextLine
  <2>2. ~(Amount(list, line) < Dust)
    BY <1>a, <2>1, Bounds DEF HashAt, InFull, Types, Data
  <2>3. DustOf(list, line + 1) = DustOf(list, line)
    BY <1>n, <2>1, <2>2
  <2> QED
    BY <1>d, <1>f, <2>1, <2>3 DEF Counted
<1>r. CASE Start \/ RejectList \/ EndList \/ Crash
  BY <1>r DEF Start, RejectList, EndList, Crash
<1>i. CASE ImportRewards \/ ImportLine \/ EndImport \/ Exit
  BY <1>i DEF ImportRewards, ImportLine, EndImport, Exit
<1>u. CASE Mine \/ OtherTransaction \/ UNCHANGED vars
  <2>1. UNCHANGED <<run, list, line, accepted, rewardsSended, dryRun, pc>>
    BY <1>u DEF Mine, OtherTransaction, vars, job, sender
  <2> QED
    BY <1>d, <1>f, <2>1 DEF Counted
<1> QED
  BY <1>2, <1>4, <1>5, <1>6, <1>7, <1>9, <1>r, <1>i, <1>u DEF Next, Step, Import

\* Only the end of a calculated list makes a record.
LEMMA InfosStep ==
  ASSUME [Next]_vars
  PROVE  \/ UNCHANGED infos
         \/ /\ EndList /\ ~FromFile
            /\ infos' = infos \cup {[run |-> run, list |-> list, dryRun |-> dryRun,
                                     rewards |-> rewardsSended]}
<1> USE DEF given, node, records, history
<1>1. CASE EndList
  BY <1>1 DEF EndList
<1>2. CASE Start \/ OpenList \/ RejectList \/ SkipLine \/ NotSent \/ GetAccountNonce
           \/ SendTransaction \/ WriteOutput \/ WriteRewardResultToDB
  BY <1>2 DEF Start, OpenList, RejectList, SkipLine, NotSent, GetAccountNonce,
              SendTransaction, WriteOutput, WriteRewardResultToDB
<1>3. CASE Import \/ Exit \/ Crash \/ Mine \/ OtherTransaction \/ UNCHANGED vars
  BY <1>3 DEF Import, ImportRewards, ImportLine, EndImport, Exit, Crash, Mine,
              OtherTransaction, vars
<1> QED
  BY <1>1, <1>2, <1>3 DEF Next, Step

\* Where a step leaves the run and the list: it goes on to the next list, starts the
\* next run, or stays; and a job that is over stays over until the next run.
LEMMA ListStep ==
  ASSUME [Next]_vars
  PROVE  \/ run' = run + 1
         \/ EndList /\ run' = run /\ (pc' = "check" => list' = list + 1)
            /\ pc' \in {"check", "finished"} /\ pc = "line"
         \/ run' = run /\ list' = list
            /\ (pc' \in {"check", "line", "send", "write", "save"} =>
                  pc \in {"check", "line", "send", "write", "save"})
         \/ run' = run /\ pc' = "import"
<1> USE DEF given, node, records, history
<1>1. CASE EndList
  BY <1>1 DEF EndList
<1>2. CASE SendTransaction
  BY <1>2 DEF SendTransaction, Confirmed, ReplyLost, Refused
<1>3. CASE Start \/ OpenList \/ RejectList \/ SkipLine \/ NotSent \/ GetAccountNonce
           \/ WriteOutput \/ WriteRewardResultToDB
  BY <1>3 DEF Start, OpenList, RejectList, SkipLine, NotSent, GetAccountNonce,
              WriteOutput, WriteRewardResultToDB
<1>4. CASE Import \/ Exit \/ Crash \/ Mine \/ OtherTransaction \/ UNCHANGED vars
  BY <1>4 DEF Import, ImportRewards, ImportLine, EndImport, Exit, Crash, Mine,
              OtherTransaction, vars, job, sender
<1> QED
  BY <1>1, <1>2, <1>3, <1>4 DEF Next, Step

\* The lists with a record are behind the job.
LEMMA InfosOfThePastStep ==
  ASSUME Types, InfosOfThePast, [Next]_vars
  PROVE  InfosOfThePast'
<1>t. /\ run \in Nat /\ list \in Nat /\ list \in F /\ \A f \in F : f \in Nat
  BY Numbers, Bounds DEF Types, Control, F
<1>f. FromFile' = FromFile
  BY GivenStep DEF FromFile
<1>1. ASSUME NEW r \in infos
      PROVE  /\ r.list \in F /\ r.run \in Nat /\ r.run <= run' /\ ~FromFile'
             /\ r.run = run' /\ pc' \in {"check", "line", "send", "write", "save"}
                  => r.list < list'
  <2>1. /\ r.list \in F /\ r.run \in Nat /\ r.run <= run /\ ~FromFile /\ r.list \in Nat
        /\ r.run = run /\ pc \in {"check", "line", "send", "write", "save"} => r.list < list
    BY <1>1, <1>t DEF InfosOfThePast
  <2> QED
    BY <1>t, <1>f, <2>1, ListStep
<1>2. ASSUME EndList, ~FromFile,
             NEW r, r = [run |-> run, list |-> list, dryRun |-> dryRun,
                         rewards |-> rewardsSended]
      PROVE  /\ r.list \in F /\ r.run \in Nat /\ r.run <= run' /\ ~FromFile'
             /\ r.run = run' /\ pc' \in {"check", "line", "send", "write", "save"}
                  => r.list < list'
  <2>1. run' = run /\ (pc' = "check" => list' = list + 1) /\ pc' \in {"check", "finished"}
    BY <1>2 DEF EndList
  <2> QED
    BY <1>2, <1>t, <1>f, <2>1
<1> QED
  BY <1>1, <1>2, InfosStep DEF InfosOfThePast

\* A record says what its list was paid, and goes on saying so.
LEMMA InfosCountedStep ==
  ASSUME Types, InOrder, Counted, InfosOfThePast, InfosCounted, [Next]_vars
  PROVE  InfosCounted'
<1>d. \A f, n : DustOf(f, n)' = DustOf(f, n)
  BY PaidForStep
<1>1. ASSUME NEW r \in infos, ~r.dryRun
      PROVE  r.rewards = Sum(PaidFor(r.run, r.list)') + DustOf(r.list, Lines + 1)
  <2>1. r.rewards = Sum(PaidFor(r.run, r.list)) + DustOf(r.list, Lines + 1)
    BY <1>1 DEF InfosCounted
  <2>2. pc = "send" => r.run # run \/ r.list # list
    BY Numbers DEF InfosOfThePast
  <2>3. PaidFor(r.run, r.list)' = PaidFor(r.run, r.list)
    BY <2>2, PaidForStep, AcceptedStep
  <2> QED
    BY <2>1, <2>3
<1>2. ASSUME EndList, ~FromFile, ~dryRun,
             NEW r, r = [run |-> run, list |-> list, dryRun |-> dryRun,
                         rewards |-> rewardsSended]
      PROVE  r.rewards = Sum(PaidFor(r.run, r.list)') + DustOf(r.list, Lines + 1)
  <2>1. rewardsSended = Sum(PaidFor(run, list)) + DustOf(list, line)
    BY <1>2 DEF Counted, EndList
  <2>2. line = Lines + 1
    BY <1>2, Bounds DEF EndList, IsThrough, Types, Control
  <2>3. UNCHANGED accepted
    BY <1>2 DEF EndList, node
  <2>4. PaidFor(r.run, r.list)' = PaidFor(r.run, r.list)
    BY <2>3, PaidForStep
  <2> QED
    BY <1>2, <2>1, <2>2, <2>4
<1>3. \A r : Sum(PaidFor(r.run, r.list))' = Sum(PaidFor(r.run, r.list)')
  BY DEF Sum
<1>4. \A r \in infos' : ~r.dryRun =>
        r.rewards = Sum(PaidFor(r.run, r.list)') + DustOf(r.list, Lines + 1)
  <2>1. CASE UNCHANGED infos
    BY <1>1, <2>1
  <2>2. CASE /\ EndList /\ ~FromFile
             /\ infos' = infos \cup {[run |-> run, list |-> list, dryRun |-> dryRun,
                                      rewards |-> rewardsSended]}
    <3> SUFFICES ASSUME NEW r \in infos', ~r.dryRun
                 PROVE  r.rewards = Sum(PaidFor(r.run, r.list)') + DustOf(r.list, Lines + 1)
      OBVIOUS
    <3>1. CASE r \in infos
      BY <1>1, <3>1
    <3>2. CASE r = [run |-> run, list |-> list, dryRun |-> dryRun, rewards |-> rewardsSended]
      BY <1>2, <2>2, <3>2
    <3> QED
      BY <2>2, <3>1, <3>2
  <2> QED
    BY <2>1, <2>2, InfosStep
<1> QED
  BY <1>d, <1>3, <1>4 DEF InfosCounted

\* Whoever reads the output files or the database later reads what was paid: each
\* hash is that of the line's transaction, and a DistributeInfo is the sum of the
\* payments for its exchange and of the dust.
THEOREM RecordsAreTruthful == Spec => []RecordsTruthful
<1> DEFINE Inv == /\ Types /\ InOrder /\ HashAt /\ InFull /\ Summable /\ ListsGiven
                  /\ Counted /\ InfosOfThePast /\ InfosCounted
<1>1. Init => Inv
  BY TypesInit, InOrderInit, HashInit, FS_EmptySet
  DEF Init, Summable, ListsGiven, Counted, InfosOfThePast, InfosCounted
<1>2. Inv /\ [Next]_vars => Inv'
  <2> SUFFICES ASSUME Inv, [Next]_vars PROVE Inv'
    OBVIOUS
  <2>1. Types' /\ InOrder' /\ HashAt' /\ InFull'
    BY TypesStep, InOrderStep, HashAtStep, InFullStep
  <2>2. ListsGiven'
    BY GivenStep DEF ListsGiven
  <2> QED
    BY <2>1, <2>2, SummableStep, CountedStep, InfosOfThePastStep, InfosCountedStep
<1>3. Inv => InfoIsPaidPlusDust
  <2> SUFFICES ASSUME Inv, NEW r \in {x \in infos : ~x.dryRun}
               PROVE  r.rewards = Sum({t \in OfRun(r.run) : t.list = r.list})
                        + SumFunction([l \in {x \in L : Amount(r.list, x) < Dust}
                                         |-> Amount(r.list, l)])
    BY DEF InfoIsPaidPlusDust
  <2>1. r.rewards = Sum(PaidFor(r.run, r.list)) + DustOf(r.list, Lines + 1)
    BY DEF InfosCounted
  <2>2. DustLines(r.list, Lines + 1) = {x \in L : Amount(r.list, x) < Dust}
    <3>1. \A l \in L : l < Lines + 1
      BY Bounds DEF L
    <3> QED
      BY <3>1 DEF DustLines
  <2> QED
    BY <2>1, <2>2 DEF PaidFor, DustOf
<1> QED
  BY <1>1, <1>2, <1>3, HashesAreTruthful, PTL DEF Spec, RecordsTruthful

----------------------------------------------------------------------------
\* The balance

\* The sender's transactions are numbered as the node accepted them.
Numbered ==
  /\ mined \in Nat /\ mined <= pending
  /\ \A t \in accepted : t.nonce < pending
  /\ \A s, t \in accepted : s.nonce = t.nonce => s = t

\* Only a list that can be read is sent.
Readable ==
  FromFile /\ pc \in {"line", "send", "write", "save"} => Parses(list)

\* What is accepted and not yet in a block, and what is left of a list from line n
Waiting == {t \in accepted : t.nonce >= mined}
LinesFrom(n) == {l \in L : l >= n}
Rest(f, n) == SumFunction([l \in LinesFrom(n) |-> Amount(f, l)])

ToPay ==
  IF ~dryRun /\ pc \in {"line", "send"} THEN Rest(list, line)
  ELSE IF ~dryRun /\ pc \in {"write", "save"} THEN Rest(list, line + 1)
  ELSE 0

\* The balance is enough for all that waits and for what is left of the list.
Solvent ==
  /\ balance \in Nat
  /\ FromFile /\ ~staleCheck =>
       reverted = {} /\ Sum(Waiting) + ToPay <= balance

\* What can be read of a file is a natural number, scaled or not.
LEMMA ReadableAmount ==
  ASSUME Types, ListsGiven, NEW f \in F, Parses(f), NEW l \in L
  PROVE  Amount(f, l) \in Nat
<1>1. reward[f][l] \in Nat
  BY SendRewardsAssumption DEF Types, Control, ListsGiven, IsSetup, Parses
<1>2. ScalingNumerator \in Nat /\ ScalingDenominator \in Nat
  BY SendRewardsAssumption
<1>3. \A r \in Nat : r * ScalingNumerator \in Nat
  BY <1>2, Z3
<1>4. \A a, b \in Nat : b > 0 => a \div b \in Nat
  BY Z3
<1> QED
  BY <1>1, <1>2, <1>3, <1>4 DEF Amount, Scaled

\* What is left of a list is this line and what is left after it; all of it is what
\* checkSendRewardsFromFile asks for.
LEMMA RestNext ==
  ASSUME NEW f, \A l \in L : Amount(f, l) \in Nat
  PROVE  /\ \A n \in 1 .. Lines + 1 : Rest(f, n) \in Nat
         /\ \A n \in L : Rest(f, n) = Rest(f, n + 1) + Amount(f, n)
         /\ FromFile => Rest(f, 1) = Needed(f)
<1>b. Lines \in Nat /\ \A l \in L : l \in Nat /\ l >= 1
  BY Bounds DEF L
<1>l. IsFiniteSet(L)
  BY <1>b, FS_Interval DEF L
<1>s. \A n : LinesFrom(n) \in SUBSET L /\ IsFiniteSet(LinesFrom(n))
  <2>1. \A n : LinesFrom(n) \in SUBSET L
    BY DEF LinesFrom
  <2> QED
    BY <2>1, <1>l, FS_Subset
<1>1. ASSUME NEW n \in 1 .. Lines + 1 PROVE Rest(f, n) \in Nat
  <2> DEFINE h == [l \in LinesFrom(n) |-> Amount(f, l)]
  <2>1. h \in [LinesFrom(n) -> Nat]
    BY <1>s
  <2>2. SumFunction(h) \in Nat
    <3> HIDE DEF h
    <3> QED
      BY <1>s, <2>1, SumOfPart
  <2> QED
    BY <2>2 DEF Rest
<1>2. ASSUME NEW n \in L PROVE Rest(f, n) = Rest(f, n + 1) + Amount(f, n)
  <2> DEFINE S == LinesFrom(n + 1)
             h == [l \in S |-> Amount(f, l)]
             g == [l \in S \cup {n} |-> Amount(f, l)]
  <2>1. \A l \in L : l >= n <=> l = n \/ l >= n + 1
    BY <1>b
  <2>2. LinesFrom(n) = S \cup {n}
    BY <2>1 DEF LinesFrom
  <2>3. n \notin S
    <3>1. ~(n >= n + 1)
      BY <1>b
    <3> QED
      BY <3>1 DEF LinesFrom
  <2>4. h \in [S -> Int] /\ g \in [S \cup {n} -> Int] /\ (\A y \in S : g[y] = h[y])
        /\ g[n] = Amount(f, n)
    BY <1>s
  <2>5. SumFunction(g) = SumFunction(h) + g[n]
    <3> HIDE DEF g, h, S
    <3>1. IsFiniteSet(S)
      BY <1>s DEF S
    <3> QED
      BY <2>3, <2>4, <3>1, SumAdd
  <2> QED
    BY <2>2, <2>4, <2>5 DEF Rest
<1>3. FromFile => Rest(f, 1) = Needed(f)
  <2>1. LinesFrom(1) = L
    BY <1>b DEF LinesFrom
  <2> QED
    BY <2>1 DEF Rest, Needed
<1> QED
  BY <1>1, <1>2, <1>3

\* A step numbers at most one transaction more, and never counts back.
LEMMA NumberedStep ==
  ASSUME Types, Numbered, [Next]_vars
  PROVE  Numbered'
<1> USE DEF given, node, records, history
<1>t. /\ pending \in Nat /\ nonce \in Nat /\ mined \in Nat
      /\ \A t \in accepted : t.nonce \in Nat
  BY DEF Types, Control, Data, TxType, Numbered
<1>1. CASE SendTransaction
  <2>1. CASE nonce = pending /\ Accept
    <3>1. Tx.nonce = pending
      BY <2>1 DEF Tx
    <3>2. mined' = mined
      BY <1>1 DEF SendTransaction
    <3> QED
      BY <1>t, <2>1, <3>1, <3>2 DEF Accept, Numbered
  <2>2. CASE Refused
    BY <1>1, <2>2 DEF SendTransaction, Refused, Numbered
  <2> QED
    BY <1>1, <2>1, <2>2 DEF SendTransaction
<1>2. CASE Start \/ OpenList \/ RejectList \/ SkipLine \/ NotSent \/ GetAccountNonce
           \/ WriteOutput \/ WriteRewardResultToDB \/ EndList
  BY <1>2 DEF Start, OpenList, RejectList, SkipLine, NotSent, GetAccountNonce,
              WriteOutput, WriteRewardResultToDB, EndList, Numbered
<1>3. CASE Import \/ Exit \/ Crash \/ UNCHANGED vars
  BY <1>3 DEF Import, ImportRewards, ImportLine, EndImport, Exit, Crash, vars, Numbered
<1>4. CASE Mine
  BY <1>4, <1>t DEF Mine, Numbered
<1>5. CASE OtherTransaction
  BY <1>5, <1>t DEF OtherTransaction, Numbered
<1> QED
  BY <1>1, <1>2, <1>3, <1>4, <1>5 DEF Next, Step

\* A list is opened only when it can be read, and read as it was opened.
LEMMA ReadableStep ==
  ASSUME Readable, [Next]_vars
  PROVE  Readable'
<1>1. /\ FromFile' = FromFile
      /\ \A f : Parses(f)' = Parses(f)
  BY GivenStep DEF FromFile, Parses
<1>2. CASE OpenList
  BY <1>1, <1>2 DEF OpenList, Passes, IsChecked, Readable
<1>3. CASE pc' \in {"line", "send", "write", "save"}
            /\ pc \in {"line", "send", "write", "save"} /\ list' = list
  BY <1>1, <1>3 DEF Readable
<1> USE DEF given, node, records, history
<1>4. CASE SkipLine \/ NotSent \/ GetAccountNonce \/ SendTransaction \/ WriteOutput
           \/ WriteRewardResultToDB
  <2>1. list' = list /\ pc \in {"line", "send", "write", "save"}
    BY <1>4 DEF SkipLine, NotSent, GetAccountNonce, SendTransaction, WriteOutput,
                WriteRewardResultToDB
  <2> QED
    BY <1>3, <2>1 DEF Readable
<1>5. CASE Start \/ RejectList \/ EndList \/ Crash \/ Exit
  BY <1>5 DEF Start, RejectList, EndList, Crash, Exit, Readable
<1>6. CASE Import
  BY <1>6 DEF Import, ImportRewards, ImportLine, EndImport, Readable
<1>7. CASE Mine \/ OtherTransaction \/ UNCHANGED vars
  <2>1. UNCHANGED <<pc, list>>
    BY <1>7 DEF Mine, OtherTransaction, vars, job, sender
  <2> QED
    BY <1>1, <2>1 DEF Readable
<1> QED
  BY <1>2, <1>4, <1>5, <1>6, <1>7 DEF Next, Step

\* A block takes at most one transaction from those that wait.
LEMMA MinedOfWaiting ==
  ASSUME Types, Summable, Numbered, NEW txs, txs = {t \in accepted : t.nonce = mined}
  PROVE  /\ Sum(txs) \in Nat /\ Sum(Waiting) \in Nat
         /\ Sum(Waiting) = Sum({t \in accepted : t.nonce >= mined + 1}) + Sum(txs)
         /\ Sum({t \in accepted : t.nonce >= mined + 1}) \in Nat
<1> DEFINE R == {t \in accepted : t.nonce >= mined + 1}
<1>t. mined \in Nat /\ \A t \in accepted : t.nonce \in Nat
  BY DEF Types, Data, TxType, Numbered
<1>f. \A S \in SUBSET accepted : IsFiniteSet(S) /\ \A t \in S : t.amount \in Nat
  BY FS_Subset DEF Summable
<1>s. \A S \in SUBSET accepted : Sum(S) \in Nat
  BY <1>f, SumOfTxs
<1>1. R \in SUBSET accepted /\ txs \in SUBSET accepted /\ Waiting \in SUBSET accepted
  BY DEF Waiting
<1>2. Waiting = R \cup txs
  BY <1>t DEF Waiting
<1>e. Sum({}) = 0
  BY SumEmpty DEF Sum
<1>3. CASE txs = {}
  <2>1. Waiting = R /\ Sum(R) \in Nat
    BY <1>s, <1>1, <1>2, <1>3
  <2> HIDE DEF R
  <2>2. Sum(Waiting) = Sum(R) + Sum(txs)
    BY <1>3, <1>e, <2>1
  <2>3. Sum(txs) \in Nat
    BY <1>3, <1>e
  <2> QED
    BY <2>1, <2>2, <2>3 DEF R
<1>4. CASE txs # {}
  <2>1. PICK t \in txs : TRUE
    BY <1>4
  <2>2. txs = {t} \cup {} /\ t \notin R /\ t \notin {}
    BY <1>t, <2>1 DEF Numbered
  <2>3. t.amount \in Nat
    BY <1>f, <1>1
  <2>4. Sum(R \cup {t}) = Sum(R) + t.amount
    BY <1>f, <1>1, <2>2, <2>3, SumOfTxs
  <2>5. Sum({} \cup {t}) = Sum({}) + t.amount
    BY <2>2, <2>3, SumOfTxs, FS_EmptySet
  <2>6. txs = {} \cup {t} /\ Waiting = R \cup {t}
    BY <1>2, <2>2
  <2>7. Sum(R) \in Nat
    BY <1>s, <1>1
  <2> HIDE DEF R
  <2>8. Sum(txs) = t.amount /\ Sum(Waiting) = Sum(R) + t.amount
    BY <1>e, <2>3, <2>4, <2>5, <2>6
  <2>9. Sum(txs) \in Nat /\ Sum(Waiting) \in Nat /\ Sum(Waiting) = Sum(R) + Sum(txs)
    BY <2>3, <2>7, <2>8
  <2> QED
    BY <2>7, <2>9 DEF R
<1> QED
  BY <1>3, <1>4

\* Each step leaves the balance enough: the check covers the whole list, a payment
\* moves its amount from what is left to what waits, a block from what waits out of
\* the balance.
LEMMA SolventStep ==
  ASSUME Types, HashAt, Numbered, Readable, Summable, ListsGiven, Solvent, [Next]_vars
  PROVE  Solvent'
<1>g. /\ FromFile' = FromFile /\ \A f, n : Rest(f, n)' = Rest(f, n)
  BY GivenStep DEF FromFile, Rest, Amount
<1>t. /\ list \in F /\ line \in 1 .. Lines + 1 /\ (line <= Lines => line \in L)
      /\ (pc \in {"send", "write", "save"} => line \in L)
      /\ dryRun \in BOOLEAN /\ balance \in Nat
  BY Bounds DEF Types, Control, L, Solvent
<1>w. \A S \in SUBSET accepted : Sum(S) \in Nat
  BY SumOfTxs, FS_Subset DEF Summable
<1>ww. Sum(Waiting) \in Nat
  BY <1>w DEF Waiting
<1>r. FromFile /\ Parses(list) =>
        /\ \A n \in 1 .. Lines + 1 : Rest(list, n) \in Nat
        /\ \A n \in L : Rest(list, n) = Rest(list, n + 1) + Amount(list, n)
        /\ \A n \in L : Amount(list, n) \in Nat
        /\ \A n \in L : n + 1 \in 1 .. Lines + 1
        /\ Rest(list, 1) = Needed(list)
  BY <1>t, ReadableAmount, RestNext, Bounds DEF L
<1>p. ToPay \in Nat \/ ~FromFile
  BY <1>t, <1>r DEF ToPay, Readable
<1> USE DEF given, node, records, history
<1>2. CASE OpenList
  <2>1. UNCHANGED <<balance, accepted, reverted, mined, dryRun, list>>
    BY <1>2 DEF OpenList
  <2> SUFFICES ASSUME FromFile, ~staleCheck'
               PROVE  reverted = {} /\ Sum(Waiting)' + ToPay' <= balance
    BY <1>g, <1>t, <2>1 DEF Solvent
  <2>2. ~staleCheck /\ ~(mined < pending) /\ Parses(list) /\ (dryRun \/ balance >= Needed(list))
        /\ pc' = "line" /\ line' = 1
    BY <1>2 DEF OpenList, IsChecked, Passes
  <2>3. Waiting = {}
    BY <2>2 DEF Waiting, Numbered, Types, Control, Data, TxType
  <2>4. Sum(Waiting)' = 0
    BY <2>1, <2>3, SumEmpty DEF Sum, Waiting
  <2>5. ToPay' = (IF dryRun THEN 0 ELSE Rest(list, 1))
    BY <1>g, <1>t, <2>1, <2>2 DEF ToPay
  <2>6. reverted = {}
    BY <2>2 DEF Solvent
  <2>7. ToPay' \in Nat /\ ToPay' <= balance
    <3>1. Rest(list, 1) \in Nat /\ (dryRun \/ Rest(list, 1) <= balance)
      BY <1>r, <1>t, <2>2, Bounds
    <3>2. CASE dryRun
      BY <1>t, <2>5, <3>2
    <3>3. CASE ~dryRun
      BY <2>5, <3>1, <3>3
    <3> QED
      BY <3>2, <3>3
  <2>8. 0 + ToPay' <= balance
    BY <2>7
  <2> QED
    BY <2>4, <2>6, <2>8
<1>5. CASE SkipLine \/ NotSent \/ GetAccountNonce \/ WriteOutput \/ WriteRewardResultToDB
  <2>1. UNCHANGED <<balance, accepted, reverted, mined, dryRun, list, staleCheck>>
    BY <1>5 DEF SkipLine, NotSent, GetAccountNonce, WriteOutput, WriteRewardResultToDB
  <2>2. Sum(Waiting)' = Sum(Waiting)
    BY <2>1 DEF Sum, Waiting
  <2>3. ASSUME FromFile PROVE ToPay' \in Nat /\ ToPay' <= ToPay
    <3>1. Parses(list)
      BY <1>5, <2>3 DEF SkipLine, NotSent, GetAccountNonce, WriteOutput,
                        WriteRewardResultToDB, Readable
    <3>2. CASE dryRun
      BY <2>1, <3>2 DEF ToPay
    <3>3. CASE ~dryRun
      <4>1. CASE SkipLine \/ NotSent
        <5>1. pc = "line" /\ pc' = "line" /\ line' = line + 1 /\ line \in L
          BY <1>t, <3>3, <4>1 DEF SkipLine, NotSent, NextLine
        <5> QED
          BY <1>g, <1>t, <1>r, <2>1, <2>3, <3>1, <3>3, <5>1 DEF ToPay
      <4>2. CASE GetAccountNonce \/ WriteOutput
        <5>1. /\ line' = line
              /\ \/ pc = "line" /\ pc' = "send"
                 \/ pc = "write" /\ pc' = "save"
          BY <4>2 DEF GetAccountNonce, WriteOutput
        <5> QED
          BY <1>g, <1>t, <1>r, <2>1, <2>3, <3>1, <3>3, <5>1 DEF ToPay
      <4>3. CASE WriteRewardResultToDB
        <5>1. pc = "save" /\ pc' = "line" /\ line' = line + 1
          BY <4>3 DEF WriteRewardResultToDB, NextLine
        <5> QED
          BY <1>g, <1>t, <1>r, <2>1, <2>3, <3>1, <3>3, <5>1 DEF ToPay
      <4> QED
        BY <1>5, <4>1, <4>2, <4>3
    <3> QED
      BY <1>t, <3>2, <3>3
  <2> QED
    BY <1>g, <1>t, <1>p, <1>ww, <2>1, <2>2, <2>3 DEF Solvent
<1>7. CASE SendTransaction
  <2>1. UNCHANGED <<balance, reverted, mined, dryRun, list, line, staleCheck>> /\ pc = "send"
    BY <1>7 DEF SendTransaction
  <2>2. CASE nonce = pending /\ Accept /\ (Confirmed \/ ReplyLost)
    <3>1. Tx.nonce = pending /\ Tx.amount = Amount(list, line) /\ accepted' = accepted \cup {Tx}
      BY <2>2 DEF Tx, Accept
    <3>2. Tx \notin accepted /\ pending \in Nat
      BY <3>1 DEF Numbered, Types, Control
    <3> SUFFICES ASSUME FromFile, ~staleCheck
                 PROVE  Sum(Waiting)' + ToPay' <= balance
      BY <1>g, <1>t, <2>1 DEF Solvent
    <3>3. Parses(list) /\ line \in L
      BY <1>t, <2>1 DEF Readable
    <3>4. Waiting' = Waiting \cup {Tx}
      BY <2>1, <3>1, <3>2 DEF Waiting, Numbered
    <3>5. Sum(Waiting \cup {Tx}) = Sum(Waiting) + Tx.amount
      <4>1. Waiting \in SUBSET accepted /\ Tx \notin Waiting /\ Tx.amount \in Nat
        BY <1>r, <3>1, <3>2, <3>3 DEF Waiting
      <4>2. IsFiniteSet(Waiting) /\ \A t \in Waiting : t.amount \in Nat
        BY <4>1, FS_Subset DEF Summable
      <4> QED
        BY <4>1, <4>2, SumOfTxs
    <3>6. Sum(Waiting)' = Sum(Waiting) + Amount(list, line)
      BY <3>1, <3>4, <3>5 DEF Sum
    <3>7. Sum(Waiting) + ToPay <= balance /\ ~dryRun
      BY <2>1 DEF Solvent, HashAt
    <3>8. ToPay = Rest(list, line + 1) + Amount(list, line)
      BY <1>r, <2>1, <3>3, <3>7 DEF ToPay
    <3>9. ToPay' \in Nat /\ ToPay' <= Rest(list, line + 1)
      BY <1>g, <1>r, <2>1, <2>2, <3>3, <3>7 DEF ToPay, Confirmed, ReplyLost
    <3>10. Rest(list, line + 1) \in Nat /\ Amount(list, line) \in Nat
      BY <1>r, <3>3
    <3> QED
      BY <1>t, <1>ww, <3>6, <3>7, <3>8, <3>9, <3>10
  <2>3. CASE Refused
    <3>1. UNCHANGED accepted /\ pc' = "failed"
      BY <2>3 DEF Refused
    <3>2. Sum(Waiting)' = Sum(Waiting) /\ ToPay' = 0
      BY <2>1, <3>1 DEF Sum, Waiting, ToPay
    <3> QED
      BY <1>g, <1>t, <1>p, <1>ww, <2>1, <3>2 DEF Solvent
  <2> QED
    BY <1>7, <2>2, <2>3 DEF SendTransaction
<1>10. CASE Start \/ RejectList \/ EndList \/ Crash \/ Import \/ Exit
  <2>1. UNCHANGED <<balance, accepted, reverted, mined, staleCheck>>
    BY <1>10 DEF Start, RejectList, EndList, Crash, Exit, Import, ImportRewards, ImportLine,
                 EndImport
  <2>2. pc' \notin {"line", "send", "write", "save"}
    BY <1>10 DEF Start, RejectList, EndList, Crash, Exit, Import, ImportRewards, ImportLine,
                 EndImport
  <2>3. Sum(Waiting)' = Sum(Waiting) /\ ToPay' = 0
    BY <2>1, <2>2 DEF Sum, Waiting, ToPay
  <2> QED
    BY <1>g, <1>t, <1>p, <1>ww, <2>1, <2>3 DEF Solvent
<1>16. CASE Mine
  <2> DEFINE txs == {t \in accepted : t.nonce = mined}
  <2>1. /\ mined' = mined + 1
        /\ UNCHANGED <<accepted, staleCheck, dryRun, pc, list, line>>
        /\ IF Sum(txs) <= balance
             THEN balance' = balance - Sum(txs) /\ UNCHANGED reverted
             ELSE reverted' = reverted \cup txs /\ UNCHANGED balance
    BY <1>16 DEF Mine, job, sender
  <2>2. /\ Sum(txs) \in Nat
        /\ Sum(Waiting) = Sum({t \in accepted : t.nonce >= mined + 1}) + Sum(txs)
        /\ Sum({t \in accepted : t.nonce >= mined + 1}) \in Nat
    BY MinedOfWaiting
  <2>3. Sum(Waiting)' = Sum({t \in accepted : t.nonce >= mined + 1})
    BY <2>1 DEF Sum, Waiting
  <2>4. ToPay' = ToPay
    BY <1>g, <2>1 DEF ToPay
  <2>5. balance' \in Nat
    BY <1>t, <2>1, <2>2
  <2> HIDE DEF txs
  <2> QED
    BY <1>g, <1>t, <1>p, <2>1, <2>2, <2>3, <2>4, <2>5 DEF Solvent
<1>17. CASE OtherTransaction \/ UNCHANGED vars
  <2>1. UNCHANGED <<balance, accepted, reverted, mined, staleCheck, dryRun, pc, list, line>>
    BY <1>17 DEF OtherTransaction, vars, job, sender
  <2>2. Sum(Waiting)' = Sum(Waiting) /\ ToPay' = ToPay
    BY <1>g, <2>1 DEF Sum, Waiting, ToPay
  <2> QED
    BY <1>g, <2>1, <2>2 DEF Solvent
<1> QED
  BY <1>2, <1>5, <1>7, <1>10, <1>16, <1>17 DEF Next, Step

\* No transfer fails for want of balance, as long as no file was checked against a
\* balance that pending transactions would still reduce: the check of a whole file
\* before its first line is sent is enough.
THEOREM NoRevertedTransfer == Spec => []NoTransferReverts
<1> DEFINE Inv == /\ Types /\ HashAt /\ InFull /\ Summable /\ ListsGiven
                  /\ Numbered /\ Readable /\ Solvent
<1>1. Init => Inv
  <2> SUFFICES ASSUME Init PROVE Inv
    OBVIOUS
  <2>1. setup.balance \in Nat
    BY SendRewardsAssumption DEF Init, IsSetup
  <2>2. Waiting = {} /\ ToPay = 0
    BY DEF Init, Waiting, ToPay
  <2>3. Sum(Waiting) = 0
    BY <2>2, SumEmpty DEF Sum
  <2>4. Solvent
    BY <2>1, <2>2, <2>3 DEF Init, Solvent
  <2> QED
    BY <2>4, TypesInit, HashInit, FS_EmptySet DEF Init, Summable, ListsGiven, Numbered, Readable
<1>2. Inv /\ [Next]_vars => Inv'
  <2> SUFFICES ASSUME Inv, [Next]_vars PROVE Inv'
    OBVIOUS
  <2>1. Types' /\ HashAt' /\ InFull'
    BY TypesStep, HashAtStep, InFullStep
  <2>2. ListsGiven'
    BY GivenStep DEF ListsGiven
  <2> QED
    BY <2>1, <2>2, SummableStep, NumberedStep, ReadableStep, SolventStep
<1>3. Inv => NoTransferReverts
  BY DEF Solvent, NoTransferReverts
<1> QED
  BY <1>1, <1>2, <1>3, PTL DEF Spec

----------------------------------------------------------------------------
\* Type correctness

\* What the node counts: every nonce is one of the job's transactions or another's.
NodeCounts ==
  /\ others \in Nat /\ others <= setup.maxOther
  /\ IsFiniteSet(accepted) /\ Cardinality(accepted) + others = pending
  /\ reverted \subseteq accepted /\ balance <= setup.balance

\* What the job counts.
JobCounts == run <= MaxRuns /\ faults <= MaxFaults /\ rewardsSended \in Nat

\* A nonce is used once: by a transaction of the job or by somebody else.
LEMMA NodeCountsStep ==
  ASSUME Types, Summable, Numbered, Solvent, NodeCounts, [Next]_vars
  PROVE  NodeCounts'
<1> USE DEF given, node, records, history
<1>t. /\ pending \in Nat /\ balance \in Nat /\ setup.balance \in Nat /\ setup.maxOther \in Nat
      /\ setup' = setup
  BY GivenStep, SendRewardsAssumption DEF Types, Control, Solvent, IsSetup
<1>1. CASE SendTransaction
  <2>1. UNCHANGED <<others, reverted, balance>>
    BY <1>1 DEF SendTransaction
  <2>2. CASE nonce = pending /\ Accept
    <3>1. Tx \notin accepted
      BY <1>t, <2>2 DEF Numbered, Tx
    <3>2. /\ accepted' = accepted \cup {Tx} /\ pending' = pending + 1
      BY <2>2 DEF Accept
    <3>3. IsFiniteSet(accepted') /\ Cardinality(accepted') = Cardinality(accepted) + 1
      BY <3>1, <3>2, FS_AddElement DEF NodeCounts
    <3> QED
      BY <1>t, <2>1, <3>2, <3>3, FS_CardinalityType DEF NodeCounts
  <2>3. CASE Refused
    BY <1>t, <2>1, <2>3 DEF Refused, NodeCounts
  <2> QED
    BY <1>1, <2>2, <2>3 DEF SendTransaction
<1>2. CASE Start \/ OpenList \/ RejectList \/ SkipLine \/ NotSent \/ GetAccountNonce
           \/ WriteOutput \/ WriteRewardResultToDB \/ EndList
  BY <1>2 DEF Start, OpenList, RejectList, SkipLine, NotSent, GetAccountNonce,
              WriteOutput, WriteRewardResultToDB, EndList, NodeCounts
<1>3. CASE Import \/ Exit \/ Crash \/ UNCHANGED vars
  BY <1>3 DEF Import, ImportRewards, ImportLine, EndImport, Exit, Crash, vars, NodeCounts
<1>4. CASE Mine
  <2> DEFINE txs == {t \in accepted : t.nonce = mined}
  <2>1. Sum(txs) \in Nat /\ txs \subseteq accepted
    BY MinedOfWaiting
  <2>2. /\ UNCHANGED <<accepted, pending, others>>
        /\ IF Sum(txs) <= balance
             THEN balance' = balance - Sum(txs) /\ UNCHANGED reverted
             ELSE reverted' = reverted \cup txs /\ UNCHANGED balance
    BY <1>4 DEF Mine
  <2> HIDE DEF txs
  <2>3. reverted' \subseteq accepted
    BY <2>1, <2>2 DEF NodeCounts
  <2>4. balance' <= setup.balance
    BY <1>t, <2>1, <2>2 DEF NodeCounts
  <2> QED
    BY <1>t, <2>2, <2>3, <2>4 DEF NodeCounts
<1>5. CASE OtherTransaction
  BY <1>5, <1>t, FS_CardinalityType DEF OtherTransaction, NodeCounts
<1> QED
  BY <1>1, <1>2, <1>3, <1>4, <1>5 DEF Next, Step

\* The bounds on the runs and the faults hold, and what is sent is never negative.
LEMMA JobCountsStep ==
  ASSUME Types, HashAt, JobCounts, [Next]_vars
  PROVE  JobCounts'
<1> USE DEF given, node, records, history, Fault, JobCounts
<1>t. /\ run \in Nat /\ faults \in Nat /\ MaxRuns \in Nat /\ MaxFaults \in Nat
  BY SendRewardsAssumption DEF Types, Control
<1>1. CASE Start \/ OpenList \/ RejectList \/ SkipLine \/ GetAccountNonce
           \/ WriteOutput \/ WriteRewardResultToDB \/ EndList
  BY <1>1, <1>t DEF Start, OpenList, RejectList, SkipLine, GetAccountNonce,
                    WriteOutput, WriteRewardResultToDB, EndList
<1>2. CASE NotSent
  <2>1. Amount(list, line) \in Int
    BY <1>2, AmountInt, Bounds DEF NotSent, Types, Control, L
  <2> QED
    BY <1>2, <2>1 DEF NotSent
<1>3. CASE SendTransaction
  <2>1. Tx.amount \in Nat
    <3>1. Amount(list, line) \in Int /\ Amount(list, line) > 0
      BY <1>3, AmountInt DEF SendTransaction, HashAt, Types, Control
    <3> QED
      BY <3>1 DEF Tx
  <2> QED
    BY <1>3, <1>t, <2>1 DEF SendTransaction, Confirmed, ReplyLost, Refused
<1>4. CASE Import \/ Exit \/ Crash \/ Mine \/ OtherTransaction \/ UNCHANGED vars
  BY <1>4, <1>t DEF Import, ImportRewards, ImportLine, EndImport, Exit, Crash, Mine,
                    OtherTransaction, vars, job, sender
<1> QED
  BY <1>1, <1>2, <1>3, <1>4 DEF Next, Step

\* Every variable has its type, the nonces count the transactions, and each hash the
\* job holds or leaves behind is that of a transaction the node took.
THEOREM TypeCorrect == Spec => []TypeOK
<1> DEFINE Inv == /\ Types /\ HashAt /\ InFull /\ Summable /\ ListsGiven
                  /\ Numbered /\ Readable /\ Solvent /\ OutputTruthful /\ ResultTruthful
                  /\ NodeCounts /\ JobCounts
<1>1. Init => Inv
  <2> SUFFICES ASSUME Init PROVE Inv
    OBVIOUS
  <2>1. /\ setup.balance \in Nat /\ setup.maxOther \in Nat
        /\ MaxRuns \in Nat /\ MaxFaults \in Nat
    BY SendRewardsAssumption DEF Init, IsSetup
  <2>2. Waiting = {} /\ ToPay = 0
    BY DEF Init, Waiting, ToPay
  <2>3. Sum(Waiting) = 0
    BY <2>2, SumEmpty DEF Sum
  <2>4. Solvent
    BY <2>1, <2>2, <2>3 DEF Init, Solvent
  <2>5. NodeCounts /\ JobCounts
    BY <2>1, FS_EmptySet DEF Init, NodeCounts, JobCounts
  <2>6. OutputTruthful /\ ResultTruthful
    BY DEF Init, OutputTruthful, ResultTruthful
  <2> QED
    BY <2>4, <2>5, <2>6, TypesInit, HashInit, FS_EmptySet
    DEF Init, Summable, ListsGiven, Numbered, Readable
<1>2. Inv /\ [Next]_vars => Inv'
  <2> SUFFICES ASSUME Inv, [Next]_vars PROVE Inv'
    OBVIOUS
  <2>1. Types' /\ HashAt' /\ InFull' /\ OutputTruthful' /\ ResultTruthful'
    BY TypesStep, HashAtStep, InFullStep, OutputTruthfulStep, ResultTruthfulStep
  <2>2. ListsGiven'
    BY GivenStep DEF ListsGiven
  <2> QED
    BY <2>1, <2>2, SummableStep, NumberedStep, ReadableStep, SolventStep, NodeCountsStep,
       JobCountsStep
<1>3. Inv => TypeOK
  <2> SUFFICES ASSUME Inv PROVE TypeOK
    OBVIOUS
  <2>1. output \in [F -> Seq([line : L, tx : Txs])]
    <3>1. \A f \in F : output[f] \in Seq(Entry)
      BY DEF Types, Data
    <3>2. ASSUME NEW f \in F, NEW i \in 1 .. Len(output[f])
          PROVE  output[f][i] \in [line : L, tx : Txs]
      <4>1. output[f][i] \in Entry /\ i \in DOMAIN output[f]
        BY <3>1
      <4>2. output[f][i].tx \in Txs
        BY <4>1 DEF OutputTruthful, Pays, Txs
      <4> QED
        BY <4>1, <4>2 DEF Entry
    <3>3. ASSUME NEW f \in F PROVE output[f] \in Seq([line : L, tx : Txs])
      <4>1. Len(output[f]) \in Nat /\ output[f] \in [1 .. Len(output[f]) -> Entry]
        BY <3>1, LenProperties
      <4>2. output[f] \in [1 .. Len(output[f]) -> [line : L, tx : Txs]]
        BY <3>2, <4>1
      <4>3. output[f] \in UNION {[1 .. n -> [line : L, tx : Txs]] : n \in Nat}
        BY <4>1, <4>2
      <4> QED
        BY <4>3, SeqDef, Zenon
    <3> QED
      BY <3>3 DEF Types, Data
  <2>2. result \in [F -> [L -> {NoRecord} \cup Txs]]
    <3>1. \A f \in F, l \in L : result[f][l] \in {NoRecord} \cup Txs
      BY DEF ResultTruthful, Pays, Txs
    <3>2. \A f \in F : result[f] \in [L -> {NoRecord} \cup Txs]
      BY <3>1 DEF Types, Data
    <3> QED
      BY <3>2 DEF Types, Data
  <2>3. /\ pending \in Nat /\ mined \in 0 .. pending /\ run \in 0 .. MaxRuns
        /\ faults \in 0 .. MaxFaults /\ others \in 0 .. setup.maxOther
        /\ balance \in 0 .. setup.balance
    BY SendRewardsAssumption
    DEF Types, Control, Numbered, NodeCounts, JobCounts, Solvent, IsSetup
  <2> QED
    BY <2>1, <2>2, <2>3 DEF TypeOK, Types, Control, Data, Txs, NodeCounts, JobCounts
<1> QED
  BY <1>1, <1>2, <1>3, PTL DEF Spec
=============================================================================
