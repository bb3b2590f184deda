-------------------------- MODULE MCDivideRewards --------------------------
(* Small totals and shares, chosen so that rounding leaves zero, one and   *)
(* several units over, and so that shares of zero and equal shares occur.  *)
EXTENDS DivideRewards

MCTotals == 0 .. 7
MCShares == 0 .. 4
=============================================================================
