----------------------------- MODULE OrderPricing -----------------------------
(***************************************************************************)
(* Rules 1 and 2 of trading_math/order_pricing.py: when a resting order    *)
(* triggers, and the price it books at.                                    *)
(***************************************************************************)
EXTENDS Naturals

Sides == {"buy", "sell"}
RestingTypes == {"limit", "stop", "stop_limit"}   \* a market order never rests

\* What a client asks for.  A limit order has no trigger and a stop order no
\* limit: 0 stands for the missing price.
Terms == [side : Sides, type : RestingTypes, quantity : Nat \ {0},
          trigger : Nat, limit : Nat]

RestsBelow(side, type) ==
    IF side = "buy" THEN type = "limit" ELSE type # "limit"

Named(terms) == IF terms.type = "limit" THEN terms.limit ELSE terms.trigger

\* Rule 1, inclusive at the boundary.
Triggered(side, type, named, mark) ==
    IF RestsBelow(side, type) THEN mark <= named ELSE mark >= named

\* Rule 2: the worse for the user of the price named and the price observed.
FillPrice(side, named, mark) ==
    IF (side = "buy") = (named >= mark) THEN named ELSE mark
=============================================================================
