------------------------------ MODULE SimLedger ------------------------------
(***************************************************************************)
(* The training portfolio of one user in one ticker                        *)
(* (services/sim_engine.py, services/sim_shorts.py): the cash, the shares  *)
(* held, the trade rows that are supposed to explain both, and the short   *)
(* position that deliberately writes no trade row.                         *)
(*                                                                         *)
(* A call of submit() or fill_resting_order() spans several database       *)
(* transactions and a network quote: it copies the portfolio, decides on   *)
(* the copy, stamps the time of its row, and moves shares and cash in one  *)
(* last transaction.  The passes of the sweep and the close by hand fetch  *)
(* their quote inside their transaction.  Routes run these calls in worker *)
(* threads and the tick in another; no transaction locks a row, and each   *)
(* writes what it read, plus or minus, as absolute values.  So every       *)
(* transaction is two steps, the reads it opens with and the writes it     *)
(* commits, and what others commit in between is written over.             *)
(*                                                                         *)
(* The book of resting orders is here a set of requests: how an order is   *)
(* triggered, claimed and retired is module RestingOrders.                 *)
(***************************************************************************)
EXTENDS CostBasis, FiniteSetsExt

CONSTANTS
    Calls,          \* the threads: requests, and the tick that sweeps
    None,           \* no value
    Start,          \* starting_capital
    Prices,         \* the prices a quote may show; even, for the margin
    Requests,       \* orders a client may send, see Request
    Toll,           \* the training toll of one fill
    BorrowFee,      \* the borrow charge of one day
    MaxRows,        \* bound on the trade rows and the short rows begun
    Days,           \* bound on the clock
    Onward          \* bound: may calls begin after a write has been lost?

(* side, shares, the two levels of the bracket, the verdict the order      *)
(* executes, and whether it names a price and so may rest.                 *)
Request == [side : {"buy", "sell"}, qty : Nat \ {0}, stop : Nat \cup {None},
            target : Nat \cup {None}, verdict : Nat \cup {None},
            rests : BOOLEAN]

ASSUME SimAssumption ==
    /\ IsFiniteSet(Calls) /\ Requests \subseteq Request /\ Prices \subseteq Nat
    /\ {Start, Toll, BorrowFee, MaxRows, Days} \subseteq Nat
    /\ None \notin Nat /\ Onward \in BOOLEAN

VARIABLES
    books,          \* has the user a training row in sim_portfolios?
    cash,           \* current_cash
    held, lot,      \* quantity and id of the holding row, 0 when there is none
    trades,         \* sim_trades, in the order of opened_at
    shorts,         \* sim_short_positions, in the order of their ids
    resting,        \* live resting orders
    today, born,    \* the date; the date the portfolio was created
    call,           \* what each thread is doing
    overtaken       \* history: what a commit has written over or filed behind

ledger == <<cash, held, lot, trades, shorts, resting, overtaken>>
vars == <<books, ledger, today, born, call>>

(* req: the order served.  copy: the portfolio as the call last read it.   *)
(* seen: the trade rows older than its time stamp.  mark: the price it     *)
(* fills at, the row it closes by hand or the date it charges.             *)
Idle == [at |-> "idle", req |-> None, copy |-> None, seen |-> << >>, mark |-> None]

Fills == {"buying", "selling", "shorting", "covering"}

(* Bound: past a lost write no call begins, unless Onward.                 *)
MayBegin(c) == call[c] = Idle /\ (overtaken = {} \/ Onward)

(* Bound: no fill begins that could take the books past MaxRows rows.      *)
Room == Len(trades) + Len(shorts) + Cardinality({c \in Calls : call[c].at \in Fills \cup {"asked"}})
            < MaxRows

Portfolio == [cash |-> cash, held |-> held, lot |-> lot, shorts |-> shorts]

InTransaction(c) == call[c].copy # None /\ call[c].at # "asked"

Leave(c) == call' = [call EXCEPT ![c] = Idle]

-----------------------------------------------------------------------------
(* The bracket of a position (trading_math/order_pricing.py).              *)

(* A level averaged over the open shares of the lots that set it, as a     *)
(* fraction; den = 0 when no lot does.                                     *)
Blend(level, open, lots) ==
    LET set == {i \in lots : level[i] # None}
    IN  [num |-> SumFunction([i \in set |-> level[i] * open[i]]),
         den |-> SumFunction([i \in set |-> open[i]])]

(* bracket_is_wrong_side, long: the stop below the entry, the target above *)
LongWrongSide(stop, target, entry) ==
    \/ stop.den > 0 /\ stop.num * entry.den >= entry.num * stop.den
    \/ target.den > 0 /\ target.num * entry.den <= entry.num * target.den

Exact(level) == IF level = None THEN [num |-> 0, den |-> 0]
                                ELSE [num |-> level, den |-> 1]

ShortWrongSide(r, entry) ==
    \/ r.stop # None /\ r.stop <= entry
    \/ r.target # None /\ r.target >= entry

OpenShorts(rows) == {i \in DOMAIN rows : rows[i].open}

(* Mutant: a stop of its own is what makes a lot live.                     *)
LotsWithStop(rows) ==
    {i \in DOMAIN rows : /\ rows[i].side = "buy" /\ rows[i].status = "open"
                         /\ OpenOf(rows)[i] > 0 /\ rows[i].stop # None}

(* evaluate_outcomes' live lots: open buy rows with shares behind them.    *)
LiveLots(rows) ==
    LET open == OpenOf(rows)
    IN  {i \in DOMAIN rows : /\ rows[i].side = "buy"
                             /\ rows[i].status = "open"
                             /\ open[i] > 0}

(* position_bracket with the order being filled as one more lot            *)
BlendsWrongSide(r, entry) ==
    LET n == Len(trades) + 1
        open == OpenOf(trades)
        lots == LiveLots(trades) \cup {n}
        left == [i \in lots |-> IF i = n THEN r.qty ELSE open[i]]
        stop == [i \in lots |-> IF i = n THEN r.stop ELSE trades[i].stop]
        target == [i \in lots |-> IF i = n THEN r.target ELSE trades[i].target]
    IN  LongWrongSide(Blend(stop, left, lots), Blend(target, left, lots),
                      Exact(entry))

-----------------------------------------------------------------------------
(* The portfolio row and the calls.                                        *)

Init ==
    /\ books = FALSE
    /\ cash = 0 /\ held = 0 /\ lot = 0 /\ trades = << >>
    /\ shorts = << >> /\ resting = {} /\ overtaken = {}
    /\ today = 0 /\ born = 0
    /\ call = [c \in Calls |-> Idle]

EnsurePortfolio ==
    /\ books' = TRUE
    /\ cash' = IF books THEN cash ELSE Start
    /\ born' = IF books THEN born ELSE today

VerdictTraded(v) == \E i \in DOMAIN trades : trades[i].verdict = v

Asks(c, r, copy) ==
    call' = [call EXCEPT ![c] = [Idle EXCEPT !.at = "asked", !.req = r, !.copy = copy]]

(* submit() up to its first guards: ensure_portfolio, the copy, and a       *)
(* verdict that already has a trade row (_existing_trade_for_verdict).     *)
Submit(c, r) ==
    /\ MayBegin(c) /\ Room
    /\ r.verdict # None => ~VerdictTraded(r.verdict)
    /\ EnsurePortfolio
    /\ UNCHANGED <<held, lot, trades, shorts, resting, overtaken, today>>
    /\ Asks(c, r, Portfolio')

(* reset_portfolio behind its route's cooldown: every row of the old book  *)
(* goes, then ensure_portfolio runs in a transaction of its own.  The      *)
(* writes of a transaction that has read the old book will find no row, so *)
(* it is over; a call that has yet to open its transaction goes on, with a *)
(* time older than any row of the new book.                                *)
Reset(c) ==
    /\ call[c] = Idle
    /\ books /\ born < today
    /\ books' = FALSE /\ cash' = 0 /\ held' = 0 /\ lot' = 0 /\ trades' = << >>
    /\ shorts' = << >> /\ resting' = {} /\ overtaken' = {}
    /\ call' = [d \in Calls |-> IF d = c THEN [Idle EXCEPT !.at = "creating"]
                              ELSE IF InTransaction(d) THEN Idle
                              ELSE [call[d] EXCEPT !.seen = << >>]]
    /\ UNCHANGED <<today, born>>

CreatePortfolio(c) ==
    /\ call[c].at = "creating"
    /\ EnsurePortfolio
    /\ Leave(c)
    /\ UNCHANGED <<held, lot, trades, shorts, resting, overtaken, today>>

(* A call that writes nothing more: a refusal (no usable quote, the        *)
(* mandate, not enough cash, a bracket on the wrong side), a pass that     *)
(* finds no level hit, a transaction that fails because the holding row    *)
(* came or went under it, a process that dies.                             *)
GiveUp(c) ==
    /\ call[c] # Idle
    /\ Leave(c)
    /\ UNCHANGED <<books, ledger, today, born>>

(* An order that names a price the market has not reached is parked.       *)
RestOrder(c) ==
    /\ call[c].at = "asked" /\ call[c].req.rests
    /\ books
    /\ resting = {}
    /\ resting' = {call[c].req}
    /\ Leave(c)
    /\ UNCHANGED <<books, cash, held, lot, trades, shorts, overtaken, today, born>>

(* The sweep claimed a resting order: fill_resting_order copies the        *)
(* portfolio and checks the mandate again, and asks for no verdict.        *)
FillResting(c, o) ==
    /\ MayBegin(c) /\ Room
    /\ books
    /\ o \in resting
    /\ resting' = resting \ {o}
    /\ Asks(c, [o EXCEPT !.rests = FALSE], Portfolio)
    /\ UNCHANGED <<books, cash, held, lot, trades, shorts, overtaken, today, born>>

(* Cancelled, expired or rejected: the order leaves the book.              *)
Withdraw(o) ==
    /\ o \in resting
    /\ resting' = resting \ {o}
    /\ UNCHANGED <<books, cash, held, lot, trades, shorts, overtaken, today, born, call>>

-----------------------------------------------------------------------------
(* _execute_fill: everything up to its transaction is decided on the copy. *)

Posted(m, q) == (m * q) \div 2              \* sim_shorts.cash_required_for
Collateral(m, q) == m * q + Posted(m, q)    \* sim_shorts.collateral_for

BuyBracketRight(copy, r, m) ==
    /\ ~LongWrongSide(Exact(r.stop), Exact(r.target), Exact(m))
    /\ copy.held > 0 => ~BlendsWrongSide(r, m)

MayBuy(copy, r, m) ==
    /\ BuyBracketRight(copy, r, m)
    /\ OpenShorts(copy.shorts) = {}
    /\ m * r.qty + Toll <= copy.cash

(* The short the copy lists first is the one to cover.                     *)
MayCover(copy, r, m) ==
    /\ BuyBracketRight(copy, r, m)
    /\ \E i \in OpenShorts(copy.shorts) :
        /\ \A j \in OpenShorts(copy.shorts) : i <= j
        /\ r.qty = copy.shorts[i].qty

MaySell(copy, r) == copy.held > 0 /\ r.qty <= copy.held

MayShort(copy, r, m) ==
    /\ copy.held = 0
    /\ ~ShortWrongSide(r, m)
    /\ Posted(m, r.qty) + Toll <= copy.cash

(* The last thing before the transaction is the stamp of opened_at.        *)
Decide(c, m) ==
    /\ call[c].at = "asked"
    /\ LET r == call[c].req
           copy == call[c].copy
           goto(at) == call' = [call EXCEPT ![c] =
               [at |-> at, req |-> r, copy |-> None, seen |-> trades, mark |-> m]]
       IN  \/ r.side = "buy" /\ MayBuy(copy, r, m) /\ goto("buying")
           \/ r.side = "buy" /\ MayCover(copy, r, m) /\ goto("covering")
           \/ r.side = "sell" /\ MaySell(copy, r) /\ goto("selling")
           \/ r.side = "sell" /\ MayShort(copy, r, m) /\ goto("shorting")
    /\ UNCHANGED <<books, ledger, today, born>>

(* The transaction opens: the rows are read again, and a short that is     *)
(* already open, or no longer, ends the fill here.                         *)
OpenFill(c) ==
    /\ call[c].at \in Fills /\ call[c].copy = None
    /\ books
    /\ call[c].at = "shorting" => OpenShorts(shorts) = {}
    /\ call[c].at = "covering" => OpenShorts(shorts) # {}
    /\ call' = [call EXCEPT ![c].copy = Portfolio]
    /\ UNCHANGED <<books, ledger, today, born>>

-----------------------------------------------------------------------------
(* Commits.                                                                *)

Commits(c, at) ==
    /\ call[c].at = at /\ InTransaction(c)
    /\ Leave(c)

(* What others have committed since this transaction read it.              *)
CashOvertaken(c) ==
    IF <<call[c].copy.cash, call[c].copy.shorts>> = <<cash, shorts>> THEN {} ELSE {"cash"}
SharesOvertaken(c) ==
    IF <<call[c].copy.held, call[c].copy.lot, call[c].seen>> = <<held, lot, trades>>
    THEN {} ELSE {"shares"}

(* A value that has not changed is not written.                            *)
WriteCash(c, new) == cash' = IF new = call[c].copy.cash THEN cash ELSE new

(* The holding: an INSERT, which the unique constraint refuses when a row  *)
(* is there, or an UPDATE, which must find its row, or a DELETE, which     *)
(* need not.                                                               *)
AddShares(c, qty) ==
    LET copy == call[c].copy IN
    IF copy.lot = 0
    THEN lot = 0 /\ held' = qty /\ lot' = Len(trades) + 1
    ELSE lot = copy.lot /\ held' = copy.held + qty /\ UNCHANGED lot

(* Mutant: what was sold comes off whatever is there by now.               *)
TakeOffCurrent(c, sold) == held' = held - sold /\ UNCHANGED lot

TakeShares(c, sold) ==
    LET copy == call[c].copy IN
    IF sold = 0 THEN UNCHANGED <<held, lot>>
    ELSE IF sold < copy.held THEN lot = copy.lot /\ held' = copy.held - sold /\ UNCHANGED lot
    ELSE IF lot = copy.lot THEN held' = 0 /\ lot' = 0
    ELSE UNCHANGED <<held, lot>>

(* _retire_orphaned_resting_sells, with `left` shares on the books.        *)
Retired(left) == {o \in resting : o.side = "sell" => o.qty <= left}

(* The trade row of a fill; a sell row stays open for ever.                *)
Row(r, m) == [id |-> Len(trades) + 1, side |-> r.side, qty |-> r.qty, price |-> m,
              stop |-> r.stop, target |-> r.target, verdict |-> r.verdict,
              status |-> "open", closedAt |-> 0, pnl |-> 0]

Known(c) == {call[c].seen[i].id : i \in DOMAIN call[c].seen}

(* Where a time may fall among the rows that is later than those the call  *)
(* has seen: after them, before or after the ones committed since.         *)
Spots(c) == {p \in 0 .. Len(trades) :
                \A j \in DOMAIN trades : j > p => trades[j].id \notin Known(c)}

(* Of the closes stamped between row p and the next, those the call has    *)
(* not seen: they may be older than its row or not.                        *)
UnseenCloses(c, p) ==
    {j \in DOMAIN trades : /\ trades[j].closedAt = p /\ trades[j].status # "open"
                           /\ \A i \in DOMAIN call[c].seen : call[c].seen[i] # trades[j]}

(* A row filed after row p; the closes in `later` come after it.           *)
Filed(row, p, later) ==
    [j \in 1 .. Len(trades) + 1 |->
        IF j = p + 1 THEN row
        ELSE LET i == IF j <= p THEN j ELSE j - 1
             IN  [trades[i] EXCEPT !.closedAt = IF @ > p \/ i \in later THEN @ + 1 ELSE @]]

WriteRow(c) ==
    \E p \in Spots(c) : \E later \in SUBSET UnseenCloses(c, p) :
        trades' = Filed(Row(call[c].req, call[c].mark), p, later)

BookBuy(c) ==
    /\ Commits(c, "buying")
    /\ LET r == call[c].req IN
        /\ WriteCash(c, call[c].copy.cash - call[c].mark * r.qty - Toll)
        /\ AddShares(c, r.qty)
    /\ WriteRow(c)
    /\ overtaken' = overtaken \cup CashOvertaken(c) \cup SharesOvertaken(c)
    /\ UNCHANGED <<books, shorts, resting, today, born>>

(* _apply_sell_row sells what is still there, the row says what was asked. *)
SoldShares(c) == LesserOf(call[c].req.qty, call[c].copy.held)

BookSell(c) ==
    /\ Commits(c, "selling")
    /\ LET sold == SoldShares(c) IN
        /\ WriteCash(c, call[c].copy.cash + call[c].mark * sold - Toll)
        /\ TakeShares(c, sold)
        /\ resting' = Retired(call[c].copy.held - sold)
    /\ WriteRow(c)
    /\ overtaken' = overtaken \cup CashOvertaken(c) \cup SharesOvertaken(c)
    /\ UNCHANGED <<books, shorts, today, born>>

(* _open_short_fill.  No constraint keeps a second open row out.           *)
BookShort(c) ==
    /\ Commits(c, "shorting")
    /\ LET r == call[c].req  m == call[c].mark IN
        /\ WriteCash(c, call[c].copy.cash - Posted(m, r.qty) - Toll)
        /\ shorts' = Append(shorts,
               [open |-> TRUE, qty |-> r.qty, entry |-> m, stop |-> r.stop,
                target |-> r.target, accrued |-> None,
                realised |-> 0, borrowed |-> 0, tolled |-> Toll])
    /\ overtaken' = overtaken \cup CashOvertaken(c)
    /\ UNCHANGED <<books, held, lot, trades, resting, today, born>>

Gain(row, m) == (row.entry - m) * row.qty

(* Mutant: the whole collateral comes back, proceeds and all.              *)
WholeCollateral(row, m, toll) == Collateral(row.entry, row.qty) + Gain(row, m) - toll

(* sim_shorts.cover_short, in full: the posted cash comes back less the    *)
(* loss, and the proceeds were never in the cash.                          *)
ComesBack(row, m, toll) == Posted(row.entry, row.qty) + Gain(row, m) - toll

(* The rows are written by id: one that another has covered meanwhile is   *)
(* covered again.                                                          *)
Cover(c, rows, m, toll) ==
    LET read == call[c].copy.shorts IN
    /\ rows # {}
    /\ WriteCash(c, call[c].copy.cash
           + Total([i \in DOMAIN read |-> IF i \in rows THEN ComesBack(read[i], m, toll) ELSE 0]))
    /\ shorts' = [i \in DOMAIN shorts |->
           IF i \notin rows THEN shorts[i]
           ELSE [shorts[i] EXCEPT !.open = FALSE, !.realised = Gain(read[i], m),
                     !.tolled = IF toll = 0 THEN @ ELSE read[i].tolled + toll]]
    /\ overtaken' = overtaken \cup CashOvertaken(c)

(* find_open_short asks for no order: any row that was open.               *)
BookCover(c) ==
    /\ Commits(c, "covering")
    /\ \E i \in OpenShorts(call[c].copy.shorts) : Cover(c, {i}, call[c].mark, Toll)
    /\ UNCHANGED <<books, held, lot, trades, resting, today, born>>

-----------------------------------------------------------------------------
(* The passes of the sweep over the position, and the close by hand: each  *)
(* reads, waits for a quote, and writes in one transaction.                *)

Begins(c, at, seen, mark) ==
    /\ MayBegin(c) /\ books
    /\ call' = [call EXCEPT ![c] = [at |-> at, req |-> None, copy |-> Portfolio,
                                    seen |-> seen, mark |-> mark]]
    /\ UNCHANGED <<books, ledger, today, born>>

(* The gates before the quote: live lots, shares, a level.                 *)
ReadLots(c) ==
    /\ held > 0
    /\ \E i \in LiveLots(trades) : trades[i].stop # None \/ trades[i].target # None
    /\ Begins(c, "outcomes", trades, None)

ReadForClose(c, i) ==
    /\ i \in DOMAIN trades /\ trades[i].status = "open"
    /\ held > 0
    /\ Begins(c, "closing", trades, i)

(* The two sweeps over the shorts and the borrow of the day read alike.    *)
ReadShorts(c) ==
    /\ OpenShorts(shorts) # {}
    /\ Begins(c, "shorts", << >>, today)

(* Row i of what the call has seen is closed, for sold[i] shares.  The     *)
(* time of the close falls between the reads and the commit.               *)
CloseRows(c, sold, m, status) ==
    LET seen == call[c].seen
        number(row) == CHOOSE i \in DOMAIN sold : seen[i].id = row.id
        ids == {seen[i].id : i \in DOMAIN sold}
        gone == Total([i \in DOMAIN seen |-> IF i \in DOMAIN sold THEN sold[i] ELSE 0])
    IN  /\ \E p \in Spots(c) : trades' = [j \in DOMAIN trades |->
                IF trades[j].id \notin ids THEN trades[j]
                ELSE [trades[j] EXCEPT !.status = status, !.closedAt = p,
                         !.pnl = (m - trades[j].price) * sold[number(trades[j])]]]
        /\ WriteCash(c, call[c].copy.cash + m * gone)
        /\ TakeShares(c, gone)
        /\ resting' = Retired(call[c].copy.held - gone)
        /\ overtaken' = overtaken \cup CashOvertaken(c) \cup SharesOvertaken(c)

LotsLeft(rows, lots) ==
    [i \in DOMAIN rows |-> [open |-> IF i \in lots THEN OpenOf(rows)[i] ELSE 0]]

(* evaluate_outcomes: one bracket for the position, every live lot of it   *)
(* closes, each for what the ledger says is left of it, while there are    *)
(* shares; a bracket on the wrong side of its own entry never fires.       *)
EvaluateOutcomes(c, m) ==
    /\ Commits(c, "outcomes")
    /\ LET seen == call[c].seen
           lots == LiveLots(seen)
           open == OpenOf(seen)
           stop == Blend([i \in lots |-> seen[i].stop], open, lots)
           target == Blend([i \in lots |-> seen[i].target], open, lots)
           entry == Blend([i \in lots |-> seen[i].price], open, lots)
           stopped == stop.den > 0 /\ m * stop.den <= stop.num
           reached == target.den > 0 /\ m * target.den >= target.num
       IN
        /\ ~LongWrongSide(stop, target, entry)
        /\ stopped \/ reached
        /\ CloseRows(c, [i \in lots |-> Taken(LotsLeft(seen, lots), i, call[c].copy.held)],
                     m, IF stopped THEN "lost" ELSE "won")
    /\ UNCHANGED <<books, shorts, today, born>>

(* manual_close: any open row, for the quantity it was written with.       *)
ManualClose(c, m) ==
    /\ Commits(c, "closing")
    /\ LET i == call[c].mark IN
        CloseRows(c, [j \in {i} |-> LesserOf(call[c].seen[i].qty, call[c].copy.held)],
                  m, "closed")
    /\ UNCHANGED <<books, shorts, today, born>>

(* evaluate_short_brackets: the comparison inverts.                        *)
BracketHit(row, m) ==
    /\ ~ShortWrongSide(row, row.entry)
    /\ \/ row.stop # None /\ m >= row.stop
       \/ row.target # None /\ m <= row.target

(* is_margin_breached: what the position is worth over what closing it     *)
(* costs, below 1.30.                                                      *)
MarginBreached(row, m) ==
    10 * (Collateral(row.entry, row.qty) + row.entry * row.qty - m * row.qty)
        < 13 * m * row.qty

EvaluateShortBrackets(c, m) ==
    /\ Commits(c, "shorts")
    /\ Cover(c, {i \in OpenShorts(call[c].copy.shorts) : BracketHit(call[c].copy.shorts[i], m)},
             m, 0)
    /\ UNCHANGED <<books, held, lot, trades, resting, today, born>>

ForceCloseBreachedShorts(c, m) ==
    /\ Commits(c, "shorts")
    /\ Cover(c, {i \in OpenShorts(call[c].copy.shorts) : MarginBreached(call[c].copy.shorts[i], m)},
             m, 0)
    /\ UNCHANGED <<books, held, lot, trades, resting, today, born>>

(* accrue_short_borrow: once a calendar day, the date is the key.          *)
AccrueShortBorrow(c) ==
    /\ Commits(c, "shorts")
    /\ LET read == call[c].copy.shorts
           due == {i \in OpenShorts(read) : read[i].accrued # call[c].mark}
       IN
        /\ due # {}
        /\ WriteCash(c, call[c].copy.cash
               + Total([i \in DOMAIN read |-> IF i \in due THEN -BorrowFee ELSE 0]))
        /\ shorts' = [i \in DOMAIN shorts |->
               IF i \notin due THEN shorts[i]
               ELSE [shorts[i] EXCEPT !.borrowed = read[i].borrowed + BorrowFee,
                                      !.accrued = call[c].mark]]
        /\ overtaken' = overtaken \cup CashOvertaken(c)
    /\ UNCHANGED <<books, held, lot, trades, resting, today, born>>

NextDay ==
    /\ today < Days
    /\ today' = today + 1
    /\ UNCHANGED <<books, ledger, born, call>>

-----------------------------------------------------------------------------
FillStep(c) ==
    \/ \E r \in Requests : Submit(c, r)
    \/ \E o \in resting : FillResting(c, o)
    \/ CreatePortfolio(c) \/ Reset(c) \/ GiveUp(c) \/ RestOrder(c)
    \/ \E m \in Prices : Decide(c, m)
    \/ OpenFill(c)
    \/ BookBuy(c) \/ BookSell(c) \/ BookShort(c) \/ BookCover(c)

PassStep(c) ==
    \/ ReadLots(c) \/ ReadShorts(c)
    \/ \E i \in DOMAIN trades : ReadForClose(c, i)
    \/ \E m \in Prices : \/ EvaluateOutcomes(c, m) \/ ManualClose(c, m)
                         \/ EvaluateShortBrackets(c, m)
                         \/ ForceCloseBreachedShorts(c, m)
    \/ AccrueShortBorrow(c)

Next ==
    \/ \E c \in Calls : FillStep(c) \/ PassStep(c)
    \/ \E o \in resting : Withdraw(o)
    \/ NextDay

Spec == Init /\ [][Next]_vars

-----------------------------------------------------------------------------
(* Properties.                                                             *)

TypeOK ==
    /\ books \in BOOLEAN /\ cash \in Int /\ held \in Nat
    /\ today \in 0 .. Days /\ born \in 0 .. Days
    /\ Len(trades) + Len(shorts) <= MaxRows
    /\ lot \in Nat /\ resting \subseteq Request
    /\ overtaken \subseteq {"cash", "shares"}
    /\ \A i \in DOMAIN trades :
        /\ trades[i].side \in {"buy", "sell"}
        /\ trades[i].status \in {"open", "won", "lost", "closed"}
        /\ trades[i].closedAt \in 0 .. Len(trades)
        /\ (trades[i].closedAt = 0) <=> (trades[i].status = "open")

(* manual_close sells the quantity a row was written with, whatever sells  *)
(* have drawn from it since: from the first close by hand on, the rows and *)
(* the holding may disagree (see the README), and nothing more is claimed. *)
ClosedByHand == \E i \in DOMAIN trades : trades[i].status = "closed"

(* The shares the FIFO lots of the trade rows still hold are the shares of *)
(* the holding row, also when a call books what it decided before others   *)
(* booked: the invariant tests/conftest.py checks after every test and     *)
(* scripts/def110_backfill.py on production.  Claimed until a commit       *)
(* writes the holding over another's, or files a row behind one (see the   *)
(* README).                                                                *)
LotsAgree ==
    "shares" \notin overtaken /\ ~ClosedByHand => OpenQuantity(trades) = held

(* What each row has made and cost so far, by the lots.                    *)
Explained(rows) ==
    LET lots == Lots(rows)
    IN  [i \in DOMAIN rows |-> lots[i].realised - lots[i].open * rows[i].price - Toll]

(* The same of the shorts: an open one keeps its margin from the cash.     *)
ShortsExplained(rows) ==
    [i \in DOMAIN rows |->
        (IF rows[i].open THEN -Posted(rows[i].entry, rows[i].qty) ELSE rows[i].realised)
            - rows[i].borrowed - rows[i].tolled]

(* Every dollar is explained, until a commit writes over another's: the    *)
(* cash is the starting capital, plus what lots and shorts realised, less  *)
(* what the open lots cost, the margin open shorts post, the tolls and the *)
(* borrow.                                                                 *)
CashIsExplained ==
    books /\ overtaken = {} /\ ~ClosedByHand =>
        cash = Start + Total(Explained(trades)) + Total(ShortsExplained(shorts))

(* A stop or a target is the position's, not a lot's: when it fires, and   *)
(* nothing was bought while its quote was fetched, nothing of the position *)
(* is left, in the rows or in the holding.                                 *)
PositionsCloseWhole ==
    [][ (/\ "shares" \notin overtaken' /\ ~ClosedByHand
         /\ \E i \in DOMAIN trades \cap DOMAIN trades' :
              trades[i].status = "open" /\ trades'[i].status \in {"won", "lost"})
        => held' = 0 /\ OpenQuantity(trades)' = 0 ]_vars

(* The lots the screen teaches are the oldest shares first: what is left   *)
(* of each is what taking single shares, the oldest first, leaves of it.   *)
OldestSharesFirst ==
    \A j \in DOMAIN trades : OpenOf(trades)[j] = SharesLeft(trades, j)
=============================================================================
