----------------------------- MODULE MCSimLedger -----------------------------
EXTENDS SimLedger, TLC

Order(side, qty, stop, target, verdict, rests) ==
    [side |-> side, qty |-> qty, stop |-> stop, target |-> target,
     verdict |-> verdict, rests |-> rests]

(* Two buys, one off a verdict with a target, one with a stop that may     *)
(* rest; a sell of one share that may rest and as a short has a stop.      *)
MCRequests ==
    { Order("buy", 1, None, 4, 1, FALSE), Order("buy", 2, 2, None, None, TRUE),
      Order("sell", 1, 4, None, None, TRUE) }

CallsAlike == Permutations(Calls)
=============================================================================
