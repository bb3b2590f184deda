--------------------------- MODULE MCBlockSyncer ---------------------------
(* Small instances of BlockSyncer: the ways to start it that differ in the   *)
(* branches they take, each with the faults that matter to it.               *)
EXTENDS BlockSyncer

Endless == [syncStart |-> 0, syncEnd |-> 0, overwrite |-> FALSE,
            onlySyncAccount |-> FALSE, firstHead |-> 4, maxHead |-> 5,
            maxCrashes |-> 1, maxDBFails |-> 1]

MCSetups ==
  {Endless,
   [Endless EXCEPT !.firstHead = 7, !.maxHead = 7, !.maxCrashes = 0,
                   !.maxDBFails = 0],
   [Endless EXCEPT !.syncStart = 2],
   [Endless EXCEPT !.onlySyncAccount = TRUE, !.maxDBFails = 0],
   [Endless EXCEPT !.syncStart = 1, !.syncEnd = 5, !.overwrite = TRUE,
                   !.maxCrashes = 0, !.maxDBFails = 0],
   [Endless EXCEPT !.syncStart = 3, !.syncEnd = 3]}
=============================================================================
