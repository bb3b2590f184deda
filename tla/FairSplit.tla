----------------------------- MODULE FairSplit -----------------------------
(***************************************************************************)
(* What DivideRewards promises (src/mongodb/types.go): a total is split by *)
(* shares, nothing is lost or added, and nobody is further than one unit   *)
(* from the exact proportion.  If no share is positive there is no answer. *)
(***************************************************************************)
EXTENDS Integers, Functions, FiniteSetsExt

CONSTANTS TotalRewards, Shares, MaxCount, NoAnswer

VARIABLES total, shares, answer

vars == <<total, shares, answer>>

Init ==
  /\ total \in TotalRewards
  /\ \E n \in 0 .. MaxCount : shares \in [1 .. n -> Shares]
  /\ answer = NoAnswer

SumOf(f) == SumFunction(f)

Fair(r) ==
  LET sum == SumOf(shares) IN
  /\ SumOf(r) = total
  /\ \A i \in DOMAIN shares :
       /\ total * shares[i] < (r[i] + 1) * sum
       /\ r[i] * sum <= total * shares[i] + sum

Split ==
  /\ answer = NoAnswer
  /\ SumOf(shares) > 0
  /\ answer' \in {r \in [DOMAIN shares -> 0 .. total] : Fair(r)}
  /\ UNCHANGED <<total, shares>>

Next == Split

Spec == Init /\ [][Next]_vars
=============================================================================
