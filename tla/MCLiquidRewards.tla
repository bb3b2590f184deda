-------------------------- MODULE MCLiquidRewards --------------------------
(* Two exchanges and two holders of liquidity.                             *)
EXTENDS LiquidRewards

Archive == [archiveMode |-> TRUE, weights |-> <<1, 1>>, listed |-> {1, 2},
            excluded |-> {}, coins |-> {2, 4}, files |-> <<>>, maxCrashes |-> 1]

\* An account twice, in an order that is not by share, an excluded one and a zero
Files == [Archive EXCEPT !.excluded = {2}, !.weights = <<1, 2>>, !.coins = {2}, !.maxCrashes = 0,
            !.files = << << <<1, 1>>, <<2, 7>>, <<1, 2>> >>, << <<1, 3>>, <<1, 0>> >> >>]

MCSetups ==
  {Archive, Files, [Files EXCEPT !.files = << << <<1, 1>> >> >>],
   [Archive EXCEPT !.archiveMode = FALSE, !.weights = <<1, 2>>,
                   !.excluded = {1}, !.coins = {0, 4}, !.maxCrashes = 0],
   [Archive EXCEPT !.listed = {2}, !.coins = {0, 4}, !.maxCrashes = 0]}
=============================================================================
