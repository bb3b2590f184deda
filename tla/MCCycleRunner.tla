--------------------------- MODULE MCCycleRunner ---------------------------
(* Two or three short cycles of a chain that starts inside the first one.  *)
EXTENDS CycleRunner

WordSize == 2 ^ 6

\* Whole cycles of one exchange, with a restart and a settlement that fails.  The
\* configured distances are those of config-example.toml: the syncer has none.
Whole == [enable |-> TRUE, stable |-> 1, syncStable |-> 0,
          start |-> 2, cycleLen |-> 3, stepLen |-> 3, quick |-> FALSE,
          archive |-> TRUE, weightIsPercentage |-> FALSE, trade |-> <<1>>, liquid |-> <<1>>,
          firstHead |-> 3, maxHead |-> 10, maxCrashes |-> 1, maxFails |-> 1, calls |-> {}]

\* Quick mode, both goroutines at the random source, with a restart
Fast == [Whole EXCEPT !.syncStable = 1, !.cycleLen = 2, !.stepLen = 1,
                      !.quick = TRUE, !.trade = <<1, 1>>, !.liquid = <<1, 0>>, !.firstHead = 4,
                      !.maxHead = 7, !.maxFails = 0]

\* A job without an archive that has liquidity rewards only
Latest == [Whole EXCEPT !.archive = FALSE, !.trade = <<0, 0>>, !.liquid = <<1, 0>>,
                        !.weightIsPercentage = TRUE, !.maxCrashes = 0, !.maxFails = 0]

Call(s, e, at, what) == [start |-> s, end |-> e, sample |-> at, type |-> what]

\* The command beside a job, and without one; two of the calls are refused.
Calls ==
  {[Whole EXCEPT !.maxCrashes = 0, !.maxHead = 8,
                 !.calls = {Call(2, 5, 0, "both"), Call(3, 6, 4, "both"), Call(3, 5, 0, "both")}],
   [Whole EXCEPT !.enable = FALSE, !.stable = 2, !.quick = TRUE, !.stepLen = 1,
                 !.calls = {Call(2, 4, 0, "volume"), Call(3, 6, 5, "liquid"),
                            Call(3, 6, 0, "both"), Call(1, 4, 0, "both")}]}

MCSetups == {Whole, Fast, Latest} \cup Calls
Race     == {[Whole EXCEPT !.syncStable = 1, !.start = 4, !.trade = <<1, 1>>, !.liquid = <<1, 0>>, !.firstHead = 6,
                           !.maxHead = 13, !.maxFails = 0]}
=============================================================================
