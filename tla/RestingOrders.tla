---------------------------- MODULE RestingOrders ----------------------------
(***************************************************************************)
(* The resting-order book of one training portfolio in one ticker.         *)
(*                                                                         *)
(* sweep_resting_orders runs from the background tick and from the         *)
(* /evaluate route, so two sweeps overlap; clients submit, cancel and      *)
(* close at any moment.  Each database transaction is one step here if it  *)
(* is a single conditional UPDATE (expiry, reaper, claim, stamps), and two *)
(* steps, a read and a commit, if it reads a row into the ORM, looks at it *)
(* and writes it back: a cancel, a submit, and every change of the         *)
(* holding.                                                                *)
(*                                                                         *)
(* Time is relative: what is left of an order's life, how long ago it was  *)
(* claimed and how late a sweep is, each up to a bound.                    *)
(***************************************************************************)
EXTENDS OrderPricing, Sequences

CONSTANTS
    Orders,    \* order ids
    TermsOf,   \* [Orders -> Terms]
    None,      \* no order
    Sweeps,    \* sweeps that may run at the same time
    Clients,   \* user requests that may be served at the same time
    Marks,     \* prices the market may show
    Shares,    \* shares held at the start
    Shorts,    \* quantities of the short that may be open at the start, 0 for none
    LongOnly,  \* the mandate forbids shorts
    Life,      \* time in force, in ticks
    Stale      \* _STALE_CLAIM_MINUTES, in ticks

ASSUME OrdersAssumption ==
    /\ TermsOf \in [Orders -> Terms]
    /\ None \notin Orders
    /\ Sweeps \cap Clients = {}
    /\ Marks \subseteq Nat \ {0}
    /\ Shares \in Nat /\ Shorts \subseteq Nat
    /\ LongOnly \in BOOLEAN
    /\ Life \in Nat
    /\ Stale \in Nat \ {0}

Live == {"working", "triggered"}
Terminal == {"filled", "cancelled", "expired", "rejected"}
States == {"unplaced"} \cup Live \cup {"filling"} \cup Terminal

VARIABLES
    book,      \* the orders placed, by placed_at
    state,     \* [Orders -> States]
    reason,    \* cancel_reason: none, elapsed, interrupted, refused, orphaned
    timer,     \* of a live order, the ticks until expires_at; of one being filled,
               \* the ticks since claimed_at, up to Stale; otherwise 0
    holding,   \* the sim_holdings row: which one (the order that inserted it, or
               \* None for the one there at the start) and its quantity, 0 if absent
    short,     \* quantity of the open short, 0 if none
    booked,    \* what the ledger did for an order: a sequence of effects and prices
    pushes,    \* notify_triggered pushes sent for an order
    sweep,     \* what each sweep is doing
    client     \* what each client request is doing

orderVars == <<book, state, reason, timer>>
ledgerVars == <<holding, short, booked>>
historyVars == <<pushes>>
vars == <<orderVars, ledgerVars, historyVars, sweep, client>>

Reasons == {"none", "elapsed", "interrupted", "refused", "orphaned"}
Holding == [lot : Orders \cup {None}, quantity : Nat]
Effects == {"buy", "cover", "sell", "short"}

Read == [id : Orders, state : Live \cup {"gone"}]   \* an order as a sweep read it

SweepStates == [pc : {"idle", "reading", "order", "telling", "due", "claimed",
                      "decided", "booking", "booked", "refused"},
                late : 0..Stale, todo : Seq(Read), mark : Nat,
                effect : Effects \cup {"none"}, copy : Holding, orphans : SUBSET Orders]

ClientStates == [pc : {"idle", "submitting", "cancelling", "closing"},
                 order : Orders \cup {None}, sold : Nat, copy : Holding,
                 orphans : SUBSET Orders]

IdleSweep == [pc |-> "idle", late |-> 0, todo |-> <<>>, mark |-> 0,
              effect |-> "none", copy |-> [lot |-> None, quantity |-> 0],
              orphans |-> {}]

IdleClient == [pc |-> "idle", order |-> None, sold |-> 0,
               copy |-> [lot |-> None, quantity |-> 0], orphans |-> {}]

Earlier(m, n) == IF m < n THEN m ELSE n

\* The order a sweep is looking at, as the sweep read it.
At(s) == Head(sweep[s].todo)
Id(s) == At(s).id

SweepStep(s, t) == sweep' = [sweep EXCEPT ![s] = t]
Goto(s, pc) == SweepStep(s, [sweep[s] EXCEPT !.pc = pc])

\* The rest of the sweep's list, with nothing left of the order just done.
NextOrder(s) ==
    SweepStep(s, IF Len(sweep[s].todo) = 1 THEN IdleSweep
                 ELSE [sweep[s] EXCEPT !.pc = "order", !.todo = Tail(@), !.effect = "none",
                                       !.copy = IdleSweep.copy, !.orphans = {}])
-----------------------------------------------------------------------------
(* Shares leave the holding: _apply_sell_row. *)

\* _retire_orphaned_resting_sells: the live sells that what remains no longer
\* covers, as this transaction reads them.
Orphans(remaining) ==
    {o \in Orders : /\ state[o] \in Live
                    /\ TermsOf[o].side = "sell"
                    /\ TermsOf[o].quantity > remaining}

\* A sell takes what it asks for, or what is left.
Sold(quantity, held) == Earlier(quantity, held)

\* The write of a copy less what was sold.  Nothing left: a DELETE, which may
\* find the row gone.  Otherwise an UPDATE, which must find it.
SellWrite(copy, sold) ==
    IF sold = copy.quantity
    THEN holding' = IF holding.lot = copy.lot THEN [lot |-> None, quantity |-> 0]
                    ELSE holding
    ELSE /\ holding.quantity > 0 /\ holding.lot = copy.lot
         /\ holding' = [copy EXCEPT !.quantity = @ - sold]

\* Orders leave the book: retire_values.
Leave(orders, terminal) ==
    /\ state' = [o \in Orders |-> IF o \in orders THEN terminal ELSE state[o]]
    /\ timer' = [o \in Orders |-> IF o \in orders THEN 0 ELSE timer[o]]

Retire(orders) ==
    /\ Leave(orders, "cancelled")
    /\ reason' = [o \in Orders |-> IF o \in orders THEN "orphaned" ELSE reason[o]]
-----------------------------------------------------------------------------
(* A sweep: expire and reap, read the book, then one order at a time. *)

Elapsed(states) == {o \in Orders : state[o] \in states /\ timer[o] = 0}
Stuck == {o \in Orders : state[o] = "filling" /\ timer[o] >= Stale}

\* Mutants of BeginSweep: the reaper does not run; a triggered order never
\* expires.
Swept(s, elapsed, stuck) ==
    /\ sweep[s].pc = "idle"
    /\ state' = [o \in Orders |-> CASE o \in elapsed -> "expired"
                                    [] o \in stuck -> "rejected"
                                    [] OTHER -> state[o]]
    /\ timer' = [o \in Orders |-> IF o \in elapsed \cup stuck THEN 0 ELSE timer[o]]
    /\ \E open \in BOOLEAN :
          SweepStep(s, IF open THEN [IdleSweep EXCEPT !.pc = "reading"] ELSE IdleSweep)
    /\ UNCHANGED <<reason, book, ledgerVars, historyVars, client>>

BeginSweepUnreaped(s) == Swept(s, Elapsed(Live), {})
BeginSweepWorkingOnly(s) == Swept(s, Elapsed({"working"}), Stuck)

\* _expire_elapsed and _reap_stale_claims, two UPDATEs on disjoint states that
\* run first; outside market hours nothing that fills an order follows.
BeginSweep(s) ==
    /\ sweep[s].pc = "idle"
    /\ LET elapsed == Elapsed(Live)
           stuck == Stuck
       IN  /\ state' = [o \in Orders |-> CASE o \in elapsed -> "expired"
                                           [] o \in stuck -> "rejected"
                                           [] OTHER -> state[o]]
           /\ timer' = [o \in Orders |-> IF o \in elapsed \cup stuck THEN 0 ELSE timer[o]]
           /\ reason' = [o \in Orders |-> CASE o \in elapsed -> "elapsed"
                                            [] o \in stuck -> "interrupted"
                                            [] OTHER -> reason[o]]
    /\ \E open \in BOOLEAN :
          SweepStep(s, IF open THEN [IdleSweep EXCEPT !.pc = "reading"] ELSE IdleSweep)
    /\ UNCHANGED <<book, ledgerVars, historyVars, client>>

\* An order that is not live is read as "gone": it keeps its place in the list
\* of a sweep, which passes over it.
Seen(o) == [id |-> o, state |-> IF state[o] \in Live THEN state[o] ELSE "gone"]

\* _live_orders, oldest first, then one quote for the ticker.  A quote that
\* is not fillable aborts the sweep.
ReadBook(s) ==
    /\ sweep[s].pc = "reading"
    /\ \/ SweepStep(s, IdleSweep)
       \/ /\ \E i \in 1..Len(book) : state[book[i]] \in Live
          /\ \E mark \in Marks :
                SweepStep(s, [sweep[s] EXCEPT
                    !.pc = "order", !.mark = mark,
                    !.todo = [i \in 1..Len(book) |-> Seen(book[i])]])
    /\ UNCHANGED <<orderVars, ledgerVars, historyVars, client>>

\* A stop-limit is judged by the phase it was read in: a trigger while
\* working, a limit once triggered.
Fires(type, o, price, mark) == Triggered(TermsOf[o].side, type, price, mark)
LimitFires(o, mark) == Fires("limit", o, TermsOf[o].limit, mark)
OnePhase(r) == FALSE   \* mutant of PhaseTwo, the code before DEF310
PhaseTwo(r) == TermsOf[r.id].type = "stop_limit" /\ r.state = "triggered"
PhaseOne(r) == TermsOf[r.id].type = "stop_limit" /\ r.state = "working"
Due(r, mark) ==
    /\ r.state \in Live
    /\ IF PhaseTwo(r) THEN LimitFires(r.id, mark)
       ELSE Fires(TermsOf[r.id].type, r.id, Named(TermsOf[r.id]), mark)

Wait(s) ==
    /\ sweep[s].pc = "order"
    /\ ~Due(At(s), sweep[s].mark)
    /\ NextOrder(s)
    /\ UNCHANGED <<orderVars, ledgerVars, historyVars, client>>

\* A triggered stop-limit is judged against its limit at the same mark.
Onward(s) == IF LimitFires(Id(s), sweep[s].mark) THEN Goto(s, "due") ELSE NextOrder(s)

\* Mutants of StampTriggered: a push whether or not the row changed; an UPDATE
\* without its WHERE state = 'working'.
Stamped(s, moves) ==
    /\ sweep[s].pc = "order"
    /\ PhaseOne(At(s)) /\ Due(At(s), sweep[s].mark)
    /\ state' = IF moves THEN [state EXCEPT ![Id(s)] = "triggered"] ELSE state
    /\ Goto(s, "telling")
    /\ UNCHANGED <<book, reason, timer, ledgerVars, historyVars, client>>
StampTriggeredPushing(s) == Stamped(s, state[Id(s)] = "working")
StampTriggeredBlind(s) == Stamped(s, TRUE)

\* _stamp_triggered: only the sweep that made the transition goes on to push.
StampTriggered(s) ==
    /\ sweep[s].pc = "order"
    /\ PhaseOne(At(s)) /\ Due(At(s), sweep[s].mark)
    /\ IF state[Id(s)] = "working"
       THEN state' = [state EXCEPT ![Id(s)] = "triggered"] /\ Goto(s, "telling")
       ELSE UNCHANGED state /\ Onward(s)
    /\ UNCHANGED <<book, reason, timer, ledgerVars, historyVars, client>>

\* notify_triggered; a sweep that dies before it never sends the push.
TellTriggered(s) ==
    /\ sweep[s].pc = "telling"
    /\ pushes' = [pushes EXCEPT ![Id(s)] = @ + 1]
    /\ Onward(s)
    /\ UNCHANGED <<orderVars, ledgerVars, client>>

\* Mutant of Claim: the row that was read is taken, not the row that is.
ClaimAsRead(s) ==
    /\ \/ sweep[s].pc = "due"
       \/ sweep[s].pc = "order" /\ ~PhaseOne(At(s)) /\ Due(At(s), sweep[s].mark)
    /\ state' = [state EXCEPT ![Id(s)] = "filling"]
    /\ timer' = [timer EXCEPT ![Id(s)] = sweep[s].late]
    /\ Goto(s, "claimed")
    /\ UNCHANGED <<book, reason, ledgerVars, historyVars, client>>

\* _claim, the conditional UPDATE that is the duplicate guard.  claimed_at is
\* the time the sweep began.
Claim(s) ==
    /\ \/ sweep[s].pc = "due"
       \/ sweep[s].pc = "order" /\ ~PhaseOne(At(s)) /\ Due(At(s), sweep[s].mark)
    /\ LET o == Id(s)
       IN  IF state[o] \in Live
           THEN /\ state' = [state EXCEPT ![o] = "filling"]
                /\ timer' = [timer EXCEPT ![o] = sweep[s].late]
                /\ Goto(s, "claimed")
           ELSE NextOrder(s) /\ UNCHANGED <<state, timer>>
    /\ UNCHANGED <<book, reason, ledgerVars, historyVars, client>>
-----------------------------------------------------------------------------
(* fill_resting_order: decide on a snapshot of the position, then book in a
   transaction of its own. *)

\* A buy against a standing short covers it, whole or not at all; a sell never
\* crosses zero, and with nothing held it opens a short.
Effect(o) ==
    LET q == TermsOf[o].quantity
    IN  CASE TermsOf[o].side = "buy" /\ short = 0 -> "buy"
          [] TermsOf[o].side = "buy" /\ short = q -> "cover"
          [] TermsOf[o].side = "sell" /\ holding.quantity >= q -> "sell"
          [] TermsOf[o].side = "sell" /\ holding.quantity = 0 /\ ~LongOnly -> "short"
          [] OTHER -> "none"

Decide(s) ==
    /\ sweep[s].pc = "claimed"
    /\ Effect(Id(s)) # "none"
    /\ SweepStep(s, [sweep[s] EXCEPT !.pc = "decided", !.effect = Effect(Id(s))])
    /\ UNCHANGED <<orderVars, ledgerVars, historyVars, client>>

OpenBooking(s) ==
    /\ sweep[s].pc = "decided"
    /\ sweep[s].effect = "short" => short = 0
    /\ sweep[s].effect = "cover" => short > 0
    /\ LET q == TermsOf[Id(s)].quantity
           sold == Sold(q, holding.quantity)
       IN  SweepStep(s, [sweep[s] EXCEPT
                 !.pc = "booking",
                 !.copy = holding,
                 !.orphans = IF sweep[s].effect = "sell"
                             THEN Orphans(holding.quantity - sold) ELSE {}])
    /\ UNCHANGED <<orderVars, ledgerVars, historyVars, client>>

\* The write of a copy plus what was bought: an INSERT, which the unique
\* constraint refuses if a row is there, or an UPDATE, which must find its row.
BuyWrite(o, copy) ==
    LET q == TermsOf[o].quantity
    IN  IF copy.quantity = 0
        THEN holding.quantity = 0 /\ holding' = [lot |-> o, quantity |-> q]
        ELSE /\ holding.quantity > 0 /\ holding.lot = copy.lot
             /\ holding' = [copy EXCEPT !.quantity = @ + q]

\* A triggered stop-limit books against its limit.
BookedPrice(o, mark) ==
    LET t == TermsOf[o]
    IN  FillPrice(t.side, IF t.type = "stop_limit" THEN t.limit ELSE Named(t), mark)

\* Commit.  A short or a cover leaves no sim_trades row, and a result without
\* a trade is stamped rejected.
CommitBooking(s) ==
    /\ sweep[s].pc = "booking"
    /\ LET o == Id(s)
           t == sweep[s]
           q == TermsOf[o].quantity
       IN  /\ CASE t.effect = "buy" -> BuyWrite(o, t.copy) /\ UNCHANGED <<short, state, timer, reason>>
                [] t.effect = "sell" -> /\ SellWrite(t.copy, Sold(q, t.copy.quantity))
                                        /\ Retire(t.orphans)
                                        /\ UNCHANGED short
                [] t.effect = "short" -> short' = short + q /\ UNCHANGED <<holding, state, timer, reason>>
                [] OTHER -> short' = 0 /\ UNCHANGED <<holding, state, timer, reason>>
           /\ booked' = [booked EXCEPT ![o] =
                           Append(@, [effect |-> t.effect, price |-> BookedPrice(o, t.mark)])]
           /\ Goto(s, IF t.effect \in {"buy", "sell"} THEN "booked" ELSE "refused")
    /\ UNCHANGED <<book, historyVars, client>>

\* Mutant of Refuse: accepted and trade are not looked at.
RefuseUnseen(s) ==
    /\ sweep[s].pc \in {"claimed", "decided", "booking"}
    /\ Goto(s, "booked")
    /\ UNCHANGED <<orderVars, ledgerVars, historyVars, client>>

\* The floor, a mechanical refusal, a quote that fails, a statement that
\* fails: nothing was booked.
Refuse(s) ==
    /\ sweep[s].pc \in {"claimed", "decided", "booking"}
    /\ Goto(s, "refused")
    /\ UNCHANGED <<orderVars, ledgerVars, historyVars, client>>

\* The stamps write by id, whatever the row has become.
StampFilled(s) ==
    /\ sweep[s].pc = "booked"
    /\ Leave({Id(s)}, "filled")
    /\ NextOrder(s)
    /\ UNCHANGED <<book, reason, ledgerVars, historyVars, client>>

StampRejected(s) ==
    /\ sweep[s].pc = "refused"
    /\ Leave({Id(s)}, "rejected")
    /\ reason' = [reason EXCEPT ![Id(s)] = "refused"]
    /\ NextOrder(s)
    /\ UNCHANGED <<book, ledgerVars, historyVars, client>>

\* A crash, or an exception no sweep catches.
Die(s) ==
    /\ sweep[s].pc # "idle"
    /\ SweepStep(s, IdleSweep)
    /\ UNCHANGED <<orderVars, ledgerVars, historyVars, client>>
-----------------------------------------------------------------------------
(* What users do, each a transaction that reads, then commits. *)

Ask(c, request) == client' = [client EXCEPT ![c] = request]
Working(c, pc) == client[c].pc = pc
Answered(c) == Ask(c, IdleClient)

\* submit of an order that does not trigger at the mark.  Under a long-only
\* mandate the floor refuses a sell of shares not held.
SubmitRead(c, o) ==
    /\ Working(c, "idle")
    /\ state[o] = "unplaced"
    /\ \A d \in Clients : ~(Working(d, "submitting") /\ client[d].order = o)
    /\ \E mark \in Marks : ~Fires(TermsOf[o].type, o, Named(TermsOf[o]), mark)
    /\ LongOnly /\ TermsOf[o].side = "sell" => holding.quantity > 0
    /\ Ask(c, [IdleClient EXCEPT !.pc = "submitting", !.order = o, !.copy = holding])
    /\ UNCHANGED <<orderVars, ledgerVars, historyVars, sweep>>

\* _rest_order: nothing is reserved.
SubmitInsert(c) ==
    /\ Working(c, "submitting")
    /\ LET o == client[c].order
       IN  /\ book' = Append(book, o)
           /\ state' = [state EXCEPT ![o] = "working"]
           /\ timer' = [timer EXCEPT ![o] = Life]
    /\ Answered(c)
    /\ UNCHANGED <<reason, ledgerVars, historyVars, sweep>>

\* cancel_resting_order: the check, on a row read without a lock ...
CancelRead(c, o) ==
    /\ Working(c, "idle")
    /\ state[o] \in Live
    /\ Ask(c, [IdleClient EXCEPT !.pc = "cancelling", !.order = o])
    /\ UNCHANGED <<orderVars, ledgerVars, historyVars, sweep>>

\* ... and the write, by id.
CancelCommit(c) ==
    /\ Working(c, "cancelling")
    /\ Leave({client[c].order}, "cancelled")
    /\ Answered(c)
    /\ UNCHANGED <<book, reason, ledgerVars, pushes, sweep>>

\* Shares sold outside the book: a close by hand or a bracket that hits.
CloseRead(c) ==
    /\ Working(c, "idle")
    /\ \E sold \in 1..holding.quantity :
          Ask(c, [IdleClient EXCEPT !.pc = "closing", !.sold = sold, !.copy = holding,
                                    !.orphans = Orphans(holding.quantity - sold)])
    /\ UNCHANGED <<orderVars, ledgerVars, historyVars, sweep>>

CloseCommit(c) ==
    /\ Working(c, "closing")
    /\ SellWrite(client[c].copy, client[c].sold)
    /\ Retire(client[c].orphans)
    /\ Answered(c)
    /\ UNCHANGED <<book, short, booked, historyVars, sweep>>

\* The request fails, and its transaction with it.
Abandon(c) ==
    /\ ~Working(c, "idle")
    /\ Answered(c)
    /\ UNCHANGED <<orderVars, ledgerVars, historyVars, sweep>>
-----------------------------------------------------------------------------
\* One tick of the clock.
Tick ==
    /\ timer' = [o \in Orders |->
                    CASE state[o] \in Live /\ timer[o] > 0 -> timer[o] - 1
                      [] state[o] = "filling" -> Earlier(timer[o] + 1, Stale)
                      [] OTHER -> timer[o]]
    /\ sweep' = [s \in Sweeps |-> IF sweep[s].pc = "idle" THEN sweep[s]
                                  ELSE [sweep[s] EXCEPT !.late = Earlier(@ + 1, Stale)]]
    /\ UNCHANGED <<book, state, reason, ledgerVars, historyVars, client>>

Init ==
    /\ book = <<>>
    /\ state = [o \in Orders |-> "unplaced"]
    /\ reason = [o \in Orders |-> "none"]
    /\ timer = [o \in Orders |-> 0]
    /\ holding = [lot |-> None, quantity |-> Shares]
    /\ short \in Shorts
    /\ booked = [o \in Orders |-> <<>>]
    /\ pushes = [o \in Orders |-> 0]
    /\ sweep = [s \in Sweeps |-> IdleSweep]
    /\ client = [c \in Clients |-> IdleClient]

\* What a sweep goes on to do by itself.
Proceed(s) ==
    \/ ReadBook(s) \/ Wait(s) \/ StampTriggered(s) \/ TellTriggered(s) \/ Claim(s)
    \/ Decide(s) \/ OpenBooking(s) \/ CommitBooking(s) \/ Refuse(s)
    \/ StampFilled(s) \/ StampRejected(s)

Serve(c) ==
    \/ \E o \in Orders : SubmitRead(c, o) \/ CancelRead(c, o)
    \/ SubmitInsert(c) \/ CancelCommit(c) \/ CloseRead(c) \/ CloseCommit(c) \/ Abandon(c)

Next ==
    \/ \E s \in Sweeps : BeginSweep(s) \/ Proceed(s) \/ Die(s)
    \/ \E c \in Clients : Serve(c)
    \/ Tick

Spec == Init /\ [][Next]_vars

\* Time passes, the background tick keeps starting sweeps, and a sweep that is
\* not killed goes on.  Nothing is assumed of the users.
FairSpec ==
    /\ Spec
    /\ WF_vars(Tick)
    /\ WF_vars(\E s \in Sweeps : BeginSweep(s))
    /\ \A s \in Sweeps : WF_vars(Proceed(s))
-----------------------------------------------------------------------------
\* Every variable has its type.
TypeOK ==
    /\ book \in Seq(Orders)
    /\ state \in [Orders -> States]
    /\ reason \in [Orders -> Reasons]
    /\ timer \in [Orders -> 0..(Life + Stale)]
    /\ holding \in Holding /\ short \in Nat
    /\ booked \in [Orders -> Seq([effect : Effects, price : Nat])]
    /\ pushes \in [Orders -> Nat]
    /\ sweep \in [Sweeps -> SweepStates]
    /\ client \in [Clients -> ClientStates]

\* However sweeps, cancels, closes and the reaper overlap, the ledger moves at
\* most once for an order (rowcount of _claim "IS the claim", and a reaped
\* claim is never retried).
AtMostOneFill == \A o \in Orders : Len(booked[o]) <= 1

\* The book and the ledger agree in the direction that costs money: an order
\* shown filled was booked, and one that was booked can no longer be claimed.
LedgerAgrees ==
    \A o \in Orders :
        /\ state[o] = "filled" => booked[o] # <<>>
        /\ booked[o] # <<>> => state[o] \in Terminal \cup {"filling"}

\* A limit is never broken, whatever phase of a stop-limit each overlapping
\* sweep read and whatever the market did between them (DEF310).
LimitHonoured ==
    \A o \in Orders, i \in 1..2 :
        i <= Len(booked[o]) /\ TermsOf[o].type # "stop" =>
            LET price == booked[o][i].price
            IN  IF TermsOf[o].side = "buy" THEN price <= TermsOf[o].limit
                ELSE price >= TermsOf[o].limit

\* However many sweeps see a stop-limit past its trigger, before and after the
\* transition, the user is told at most once (CR187).
OneTriggerPush == \A o \in Orders : pushes[o] <= 1

\* A step never puts an order back to an earlier stage: claims are not given
\* back, and an order that left the book stays out of it, although the stamps,
\* the cancel and the retirement of orphans write whatever the row has become.
Stage(st) == CASE st = "unplaced" -> 0
               [] st = "working" -> 1
               [] st = "triggered" -> 2
               [] st = "filling" -> 3
               [] OTHER -> 4

NeverBackInTheBook ==
    [][\A o \in Orders : Stage(state[o]) <= Stage(state'[o])]_vars

\* A claim is always settled: by its sweep or, if that died, by the reaper.
ClaimsResolve ==
    \A o \in Orders : state[o] = "filling" ~> state[o] \in Terminal

\* An order leaves the book once its time in force is over, open market or not.
ElapsedOrdersLeave ==
    \A o \in Orders : (state[o] \in Live /\ timer[o] = 0) ~> state[o] \notin Live
=============================================================================
