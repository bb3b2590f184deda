-------------------------- MODULE MCDailyLiquidity --------------------------
(* Every chain of a few blocks, regular, crowded and sparse, so that the    *)
(* estimated stride of the search is too short, exact and too long; days    *)
(* without a block and days with several.                                   *)
EXTENDS DailyLiquidity

\* The search alone, for any timestamp
Alone == [updateLiquidity |-> FALSE, created |-> <<>>, archive |-> TRUE,
          maxCrashes |-> 0, maxErrors |-> 0]

\* Two exchanges; the second one is older.
Two == [updateLiquidity |-> TRUE, created |-> <<2, 1>>, archive |-> TRUE,
        maxCrashes |-> 0, maxErrors |-> 1]

MCSetups ==
  {Alone, Two,
   [Two EXCEPT !.created = <<1>>, !.maxCrashes = 1, !.maxErrors = 0],
   [Two EXCEPT !.archive = FALSE, !.maxErrors = 0]}
=============================================================================
