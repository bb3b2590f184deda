--------------------------- MODULE MCSendRewards ---------------------------
(* Short lists whose lines are unreadable, empty, dust or worth sending;   *)
(* every combination is an initial state.                                  *)
EXTENDS SendRewards

\* sendrewards with files; scaled by a half, 2 becomes dust and 5 does not.
Files == [fromFile |-> TRUE, rewards |-> {Malformed, 2, 5}, dryRuns |-> {FALSE},
          saveDB |-> FALSE, balance |-> 7, totalValue |-> 0, maxOther |-> 1]

\* byliquid or byvolume with --savedb, dry and real runs mixed
Calculated == [fromFile |-> FALSE, rewards |-> {0, 1, 2}, dryRuns |-> BOOLEAN,
               saveDB |-> TRUE, balance |-> 9, totalValue |-> 9, maxOther |-> 0]

MCSetups == {Files, Calculated}
=============================================================================
