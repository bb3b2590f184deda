-------------------------- MODULE MCVolumeRewards --------------------------
(* Two exchanges, two accounts that matter: every combination of small     *)
(* volumes and pool balances is an initial state.                          *)
EXTENDS VolumeRewards

\* A whole cycle of two steps
Whole == [steps |-> 2, cycleSteps |-> 2, useSteps |-> TRUE, totalValue |-> 10,
          weights |-> <<1, 2>>, weightIsPercentage |-> FALSE, stakers |-> {},
          points |-> <<>>, percents |-> <<>>, coins |-> {1, 4}, stakes |-> {0}]

\* One step of two, as in quick mode, with a staker
Quick == [Whole EXCEPT !.steps = 1, !.totalValue = 5, !.weights = <<1, 1>>,
                       !.stakers = {2}, !.points = <<5, 10>>,
                       !.percents = <<50, 100>>, !.coins = {0, 3, 4},
                       !.stakes = {0, 5, 12}]

\* No steps, exchanges weighted by percentage
Percentage == [Whole EXCEPT !.useSteps = FALSE, !.weights = <<40, 60>>,
                            !.weightIsPercentage = TRUE, !.coins = {4}]

\* Percentages that the configuration allows and the option check refuses
NoPercentage == [Percentage EXCEPT !.weights = <<0, 0>>]

MCSetups      == {Whole, Quick, Percentage, NoPercentage}
EmptyPool     == {[Whole EXCEPT !.weights = <<1, 1>>, !.coins = {0, 4}]}
StakedVolumes == {[Quick EXCEPT !.cycleSteps = 1, !.useSteps = FALSE]}
=============================================================================
