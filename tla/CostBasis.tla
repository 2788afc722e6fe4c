------------------------------ MODULE CostBasis ------------------------------
(***************************************************************************)
(* The tax lots of one ticker, reconstructed from its order rows           *)
(* (services/cost_basis_lots.py over trading_math/cost_basis.py).  A row   *)
(* is a record with the fields side, qty, price, pnl and closedAt: rows    *)
(* are numbered in the order of opened_at, and a buy row that closed       *)
(* itself (stop, target, by hand) has closedAt = the number of rows        *)
(* written before it closed, 0 while it is open.  Quantities are shares,   *)
(* prices dollars; the rounding to cents is left out.                      *)
(***************************************************************************)
EXTENDS Integers, Sequences, FiniteSets

LesserOf(a, b) == IF a <= b THEN a ELSE b

(* The sums of the first 0, 1, 2, ... numbers of a sequence, and of all.   *)
Sums(f) ==
    LET upto[i \in {0} \cup DOMAIN f] == IF i = 0 THEN 0 ELSE upto[i - 1] + f[i]
    IN  upto
Total(f) == Sums(f)[Len(f)]

NoLots(rows) == [j \in DOMAIN rows |-> [open |-> 0, realised |-> 0]]

OpenIn(lots) == [j \in DOMAIN lots |-> lots[j].open]

(* Mutant: the newest lots first.                                          *)
TakenNewest(lots, j, q) ==
    LET newer == Total(OpenIn(lots)) - Sums(OpenIn(lots))[j]
    IN  LesserOf(lots[j].open, IF q > newer THEN q - newer ELSE 0)

(* fifo_sell: what a sell of q takes from lot j, after the older lots. *)
Taken(lots, j, q) ==
    LET older == Sums(OpenIn(lots))[j - 1]
    IN  LesserOf(lots[j].open, IF q > older THEN q - older ELSE 0)

(* _apply_sell: row i draws on the open lots, oldest first; what outruns   *)
(* them is logged and dropped.                                             *)
DrawSell(rows, lots, i) ==
    [j \in DOMAIN lots |->
        LET t == Taken(lots, j, rows[i].qty)
        IN  [open     |-> lots[j].open - t,
             realised |-> lots[j].realised + (rows[i].price - rows[j].price) * t]]

OpenLot(rows, lots, i) == [lots EXCEPT ![i].open = rows[i].qty]

(* Mutant: a close that is no row of its own is not an event.              *)
RowsOnly(rows, lots, i) == lots

(* The self-closes stamped after row i: each takes what is left of its lot *)
(* and carries the result recorded on the row.                             *)
SelfClose(rows, lots, i) ==
    [j \in DOMAIN lots |->
        IF rows[j].side = "buy" /\ rows[j].closedAt = i
        THEN [open |-> 0, realised |-> lots[j].realised + rows[j].pnl]
        ELSE lots[j]]

(* Row i, and the self-closes after it.                                    *)
Event(rows, lots, i) ==
    SelfClose(rows,
              IF rows[i].side = "buy" THEN OpenLot(rows, lots, i) ELSE DrawSell(rows, lots, i),
              i)

(* compute_lots_fifo: the events in the order _event_stream sorts them.    *)
LotsAfter(rows) ==
    LET after[i \in 0 .. Len(rows)] ==
            IF i = 0 THEN NoLots(rows) ELSE Event(rows, after[i - 1], i)
    IN  after
Lots(rows) == LotsAfter(rows)[Len(rows)]

OpenOf(rows) == OpenIn(Lots(rows))

OpenQuantity(rows) == Total(OpenOf(rows))

-----------------------------------------------------------------------------
(* The reference: the single shares that are left.  A share is the lot     *)
(* that bought it and its number there; a sell takes the shares that have  *)
(* fewer older ones than it asks for, a self-close what is left of its lot.*)
Older(s, t) == s[1] < t[1] \/ (s[1] = t[1] /\ s[2] < t[2])

OldestGone(shares, q) ==
    {s \in shares : Cardinality({t \in shares : Older(t, s)}) >= q}

SharesAfter(rows) ==
    LET after[i \in 0 .. Len(rows)] ==
            IF i = 0 THEN {}
            ELSE {s \in IF rows[i].side = "buy"
                        THEN after[i - 1] \cup ({i} \X (1 .. rows[i].qty))
                        ELSE OldestGone(after[i - 1], rows[i].qty) :
                      rows[s[1]].closedAt # i}
    IN  after

SharesLeft(rows, j) == Cardinality({s \in SharesAfter(rows)[Len(rows)] : s[1] = j})
=============================================================================
