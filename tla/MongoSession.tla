---------------------------- MODULE MongoSession ----------------------------
(***************************************************************************)
(* The one database session that all goroutines share (src/mongodb/        *)
(* dbinit.go) and the goroutine that checks it every minute, refreshes it  *)
(* and at last replaces it.  To be composed with a user of the database:   *)
(* a call succeeds when it MayAnswer, fails when it MayFail, and panics,   *)
(* which ends the process, when it Panics.                                 *)
(*                                                                         *)
(* Of mgo (external) this much is used: a session whose connection was     *)
(* lost returns errors until it is refreshed or replaced, and every use of *)
(* a session that was closed panics.                                       *)
(***************************************************************************)
EXTENDS Integers

CONSTANT MaxOutages     \* bound: how often the server fails

ASSUME MongoSessionAssumption == MaxOutages \in Nat

VARIABLES
  up,           \* the server answers
  broken,       \* the session lost its connection
  check,        \* checkMongoSession: what it does next
  outages

server  == <<up, outages>>
checker == <<broken, check>>
dbVars  == <<server, checker>>

SessionInit ==
  /\ up = TRUE /\ outages = 0
  /\ broken = FALSE /\ check = "sleep"

\* Between session.Close and the end of deinintCollections the collections belong to
\* a session that is closed.
Closed == check \in {"dial", "rebind"}

MayAnswer == up /\ ~broken /\ ~Closed
MayFail   == (broken \/ ~up) /\ ~Closed
Panics    == Closed

----------------------------------------------------------------------------
\* Mutant: no refresh, the session is pinged again as it is.
RefreshNothing ==
  /\ check = "refresh"
  /\ check' = "sleep"
  /\ UNCHANGED <<server, broken>>

\* ensureMongoConnected: six pings that fail, the last of them now
Ping ==
  /\ check \in {"sleep", "pingAgain"}
  /\ check' = CASE up /\ ~broken -> "sleep"
                [] OTHER -> IF check = "sleep" THEN "refresh" ELSE "dial"
  /\ UNCHANGED <<server, broken>>

\* session.Refresh, the collections anew, and then the pings again
Refresh ==
  /\ check = "refresh"
  /\ broken' = FALSE
  /\ check' = "pingAgain"
  /\ UNCHANGED server

\* mongoConnect: the session is closed, and dialled for until the server answers, ...
Dial ==
  /\ check = "dial" /\ up
  /\ broken' = FALSE
  /\ check' = "rebind"
  /\ UNCHANGED server

\* ... and only then are the collections those of the new session.
Rebind ==
  /\ check = "rebind"
  /\ check' = "sleep"
  /\ UNCHANGED <<server, broken>>

CheckMongoSession ==
  \/ Ping
  \/ Refresh
  \/ Dial
  \/ Rebind

\* MongoServerInit of a process that is started
MongoServerInit == up /\ broken' = FALSE /\ check' = "sleep" /\ UNCHANGED server

----------------------------------------------------------------------------
ServerDown ==
  /\ up /\ outages < MaxOutages
  /\ up' = FALSE /\ outages' = outages + 1
  /\ broken' = TRUE
  /\ UNCHANGED check

ServerUp ==
  /\ ~up
  /\ up' = TRUE
  /\ UNCHANGED <<outages, checker>>
=============================================================================
