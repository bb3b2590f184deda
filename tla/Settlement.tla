----------------------------- MODULE Settlement -----------------------------
(***************************************************************************)
(* What the two ways to settle have in common (src/distributer/option.go,  *)
(* dispatchrewards.go): an option names the exchanges, each exchange gets  *)
(* a list of account statistics, and at last the lists are sent, exchange  *)
(* by exchange.                                                            *)
(***************************************************************************)
EXTENDS RewardMath

CONSTANTS
  Exchanges,        \* how many exchanges: they are 1 .. Exchanges
  Accounts          \* account numbers

ASSUME SettlementAssumption ==
  /\ Exchanges \in Nat \ {0}
  /\ Accounts \subseteq Nat /\ IsFiniteSet(Accounts)

VARIABLES
  setup,        \* the settlement's options
  coin,         \* coin[e]: the coins in the pool of exchange e
  pc, cur,      \* what is done next, and for which exchange
  stats,        \* accountStats: a list per exchange
  sent          \* rewards sent, per exchange

Ex == 1 .. Exchanges

\* The start: nothing is computed and nothing is sent.
NothingSettled ==
  /\ pc = "start" /\ cur = 1
  /\ stats = [e \in Ex |-> <<>>]
  /\ sent = [e \in Ex |-> 0]

\* sendRewards skips what has no positive reward.
Paid(s) == IF s.reward > 0 THEN s.reward ELSE 0
RewardsSended(list) == SumFunction([i \in DOMAIN list |-> Paid(list[i])])

\* dispatchRewards of the next exchange
DispatchRewards ==
  /\ pc = "send"
  /\ sent' = [sent EXCEPT ![cur] = RewardsSended(stats[cur])]
  /\ cur' = cur + 1
  /\ pc' = IF cur = Exchanges THEN "done" ELSE "send"
  /\ UNCHANGED <<setup, coin, stats>>
=============================================================================
