--------------------------- MODULE MCRestingOrders ---------------------------
(***************************************************************************)
(* TLC instances of RestingOrders: what the orders of each run ask for.    *)
(***************************************************************************)
EXTENDS RestingOrders, TLC

CONSTANTS o1, o2

Stop(quantity, trigger) ==
    [side |-> "sell", type |-> "stop", quantity |-> quantity,
     trigger |-> trigger, limit |-> 0]

StopLimit(side, quantity, trigger, limit) ==
    [side |-> side, type |-> "stop_limit", quantity |-> quantity,
     trigger |-> trigger, limit |-> limit]

\* A stop-loss on everything held, and a stop-limit on part of it: two sells of
\* shares held once.
TwoSells == (o1 :> Stop(2, 2)) @@ (o2 :> StopLimit("sell", 1, 2, 2))

\* A market at 3 gaps through the limit of this buy.
OneBuy == o1 :> StopLimit("buy", 1, 2, 2)

SweepsAlike == Permutations(Sweeps)
=============================================================================
