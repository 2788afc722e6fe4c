------------------------- MODULE RestingOrdersProofs -------------------------
(***************************************************************************)
(* Theorems about RestingOrders, for any number of orders, sweeps and      *)
(* clients, any terms, any marks and any delays.                           *)
(***************************************************************************)
EXTENDS RestingOrders, SequenceTheorems, TLAPS

OrdersType ==
    /\ book \in Seq(Orders)
    /\ state \in [Orders -> States]
    /\ reason \in [Orders -> Reasons]
    /\ timer \in [Orders -> 0..(Life + Stale)]

LedgerType ==
    /\ holding \in Holding /\ short \in Nat
    /\ booked \in [Orders -> Seq([effect : Effects, price : Nat])]

HistoryType == pushes \in [Orders -> Nat]

SweepType == sweep \in [Sweeps -> SweepStates]
ClientType == client \in [Clients -> ClientStates]

LEMMA TypeParts ==
    TypeOK <=> OrdersType /\ LedgerType /\ HistoryType /\ SweepType /\ ClientType
  BY DEF TypeOK, OrdersType, LedgerType, HistoryType, SweepType, ClientType

LEMMA TypePartsNext ==
    (OrdersType /\ LedgerType /\ HistoryType /\ SweepType /\ ClientType)' <=> TypeOK'
  BY DEF TypeOK, OrdersType, LedgerType, HistoryType, SweepType, ClientType

LEMMA SweepStepType ==
    ASSUME SweepType, NEW s \in Sweeps, NEW t \in SweepStates, SweepStep(s, t)
    PROVE  SweepType' /\ sweep'[s] = t
  BY DEF SweepType, SweepStep

LEMMA SameOrders == ASSUME OrdersType, UNCHANGED orderVars PROVE OrdersType'
  BY DEF OrdersType, orderVars

LEMMA SameLedger == ASSUME LedgerType, UNCHANGED ledgerVars PROVE LedgerType'
  BY DEF LedgerType, ledgerVars

LEMMA SameHistory == ASSUME HistoryType, UNCHANGED historyVars PROVE HistoryType'
  BY DEF HistoryType, historyVars

LEMMA SameSweeps == ASSUME SweepType, UNCHANGED sweep PROVE SweepType'
  BY DEF SweepType

LEMMA SameClients == ASSUME ClientType, UNCHANGED client PROVE ClientType'
  BY DEF ClientType
-----------------------------------------------------------------------------
(* What the operators return. *)

LEMMA EarlierType ==
    ASSUME NEW m \in Nat, NEW n \in Nat
    PROVE  Earlier(m, n) \in Nat /\ Earlier(m, n) <= n /\ Earlier(m, n) <= m
  BY DEF Earlier

LEMMA IdleSweepType == IdleSweep \in SweepStates
<1>1. <<>> \in Seq(Read) /\ 0 \in 0..Stale
  BY OrdersAssumption
<1> QED
  BY <1>1 DEF IdleSweep, SweepStates, Holding

LEMMA IdleClientType == IdleClient \in ClientStates
  BY DEF IdleClient, ClientStates, Holding

LEMMA TermsType ==
    ASSUME NEW o \in Orders
    PROVE  /\ TermsOf[o].side \in {"buy", "sell"}
           /\ TermsOf[o].type \in RestingTypes
           /\ TermsOf[o].quantity \in Nat \ {0}
           /\ TermsOf[o].trigger \in Nat /\ TermsOf[o].limit \in Nat
           /\ Named(TermsOf[o]) \in Nat
  BY OrdersAssumption DEF Terms, Sides, Named

\* The order a sweep looks at is an order, and the list is shorter after it.
LEMMA HeadIsRead ==
    ASSUME SweepType, NEW s \in Sweeps, sweep[s].todo # <<>>
    PROVE  /\ At(s) \in Read /\ Id(s) \in Orders
           /\ Len(sweep[s].todo) # 1 =>
                 Tail(sweep[s].todo) \in Seq(Read) /\ Tail(sweep[s].todo) # <<>>
<1>1. sweep[s].todo \in Seq(Read)
  BY DEF SweepType, SweepStates
<1>2. /\ Head(sweep[s].todo) \in Read
      /\ Tail(sweep[s].todo) \in Seq(Read)
      /\ Len(Tail(sweep[s].todo)) = Len(sweep[s].todo) - 1
  BY <1>1, HeadTailProperties
<1>3. Len(sweep[s].todo) \in Nat \ {0} /\ Len(<<>>) = 0
  BY <1>1, EmptySeq
<1>4. Len(sweep[s].todo) # 1 => Len(Tail(sweep[s].todo)) # 0
  BY <1>2, <1>3
<1> QED
  BY <1>2, <1>3, <1>4, Zenon DEF At, Id, Read

LEMMA SeenType ==
    ASSUME OrdersType
    PROVE  /\ [i \in 1..Len(book) |-> Seen(book[i])] \in Seq(Read)
           /\ Len([i \in 1..Len(book) |-> Seen(book[i])]) = Len(book)
<1>1. Len(book) \in Nat /\ \A i \in 1..Len(book) : book[i] \in Orders
  BY LenProperties DEF OrdersType
<1>2. \A i \in 1..Len(book) : Seen(book[i]) \in Read
  BY <1>1 DEF Seen, Read, Live
<1>3. [i \in 1..Len(book) |-> Seen(book[i])] \in [1..Len(book) -> Read]
  BY <1>2
<1> QED
  BY <1>1, <1>3, SeqDef
-----------------------------------------------------------------------------
(* The inductive invariant.  The properties say nothing of what a sweep or a
   request relies on between its read and its commit: that the row it claimed
   has not come back, that nothing was booked for it yet, that the mark it
   carries is past the limit, that no other sweep holds the same order. *)

InHand(s) == sweep[s].pc \in {"claimed", "decided", "booking"}
Telling(s) == sweep[s].pc = "telling"
Reached(o, n) == Stage(state[o]) >= n

SweepInv(s) ==
    LET pc == sweep[s].pc
    IN  /\ pc \notin {"idle", "reading"} => sweep[s].todo # <<>>
        /\ InHand(s) => Reached(Id(s), 3) /\ booked[Id(s)] = <<>>
        /\ pc \in {"booked", "refused"} => Reached(Id(s), 3)
        /\ pc = "booked" => booked[Id(s)] # <<>>
        /\ pc \in {"decided", "booking"} => sweep[s].effect \in Effects
        /\ (pc = "due" \/ InHand(s)) /\ TermsOf[Id(s)].type # "stop" =>
              LimitFires(Id(s), sweep[s].mark)
        /\ Telling(s) => PhaseOne(At(s)) /\ Reached(Id(s), 2) /\ pushes[Id(s)] = 0
        /\ pc = "booking" => \A o \in sweep[s].orphans : Reached(o, 1)

OrderInv(o) ==
    /\ Len(booked[o]) <= 1
    /\ booked[o] # <<>> => Reached(o, 3)
    /\ state[o] = "filled" => booked[o] # <<>>
    /\ pushes[o] <= 1
    /\ ~Reached(o, 2) => pushes[o] = 0
    /\ TermsOf[o].type # "stop" =>
          \A i \in 1..Len(booked[o]) :
              LET price == booked[o][i].price
              IN  IF TermsOf[o].side = "buy" THEN price <= TermsOf[o].limit
                  ELSE price >= TermsOf[o].limit

ClientInv(c) ==
    LET o == client[c].order
    IN  /\ client[c].pc = "submitting" => o \in Orders /\ state[o] = "unplaced"
        /\ client[c].pc = "cancelling" => o \in Orders /\ Reached(o, 1)
        /\ client[c].pc = "closing" =>
              /\ \A p \in client[c].orphans : Reached(p, 1)
              /\ client[c].sold <= client[c].copy.quantity

OneHolder == \A s, t \in Sweeps : s # t /\ InHand(s) /\ InHand(t) => Id(s) # Id(t)
OneTeller == \A s, t \in Sweeps : s # t /\ Telling(s) /\ Telling(t) => Id(s) # Id(t)
OneSubmitter ==
    \A c, d \in Clients : c # d /\ Working(c, "submitting") /\ Working(d, "submitting") =>
        client[c].order # client[d].order

IInv ==
    /\ TypeOK
    /\ \A s \in Sweeps : SweepInv(s)
    /\ \A o \in Orders : OrderInv(o)
    /\ \A c \in Clients : ClientInv(c)
    /\ OneHolder /\ OneTeller /\ OneSubmitter
-----------------------------------------------------------------------------
(* What a step leaves standing for those it is not about. *)

Forward == \A o \in Orders : Stage(state[o]) <= Stage(state'[o])

LEMMA StageFacts ==
    ASSUME NEW st \in States
    PROVE  /\ Stage(st) \in 0..4
           /\ Stage(st) >= 1 <=> st # "unplaced"
           /\ Stage(st) >= 2 <=> st \notin {"unplaced", "working"}
           /\ Stage(st) >= 3 <=> st \in {"filling"} \cup Terminal
  BY DEF Stage, States, Live, Terminal

\* Orders do not move back, so what a sweep knows of its order stands.
LEMMA Stays ==
    ASSUME OrdersType, OrdersType', Forward, NEW o \in Orders, NEW n \in Nat, Reached(o, n)
    PROVE  Reached(o, n)'
<1>1. state[o] \in States /\ state'[o] \in States
  BY DEF OrdersType
<1>2. Stage(state[o]) \in 0..4 /\ Stage(state'[o]) \in 0..4
  BY <1>1, StageFacts
<1>3. Stage(state[o]) <= Stage(state'[o]) /\ Stage(state[o]) >= n
  BY DEF Forward, Reached
<1> QED
  BY <1>2, <1>3 DEF Reached

LEMMA SweepFrame ==
    ASSUME OrdersType, OrdersType', SweepType, Forward, NEW v \in Sweeps, SweepInv(v),
           sweep'[v].pc = sweep[v].pc, sweep'[v].todo = sweep[v].todo,
           sweep'[v].mark = sweep[v].mark, sweep'[v].effect = sweep[v].effect,
           sweep'[v].orphans = sweep[v].orphans,
           InHand(v) => booked'[Id(v)] = booked[Id(v)],
           sweep[v].pc = "booked" => booked'[Id(v)] # <<>>,
           Telling(v) => pushes'[Id(v)] = pushes[Id(v)]
    PROVE  SweepInv(v)'
<1>1. /\ At(v)' = At(v) /\ Id(v)' = Id(v)
      /\ InHand(v)' <=> InHand(v)
      /\ Telling(v)' <=> Telling(v)
  BY DEF At, Id, InHand, Telling
<1>2. ASSUME sweep[v].pc \notin {"idle", "reading"}
      PROVE  Id(v) \in Orders
  BY <1>2, HeadIsRead DEF SweepInv
<1>3. InHand(v) \/ sweep[v].pc \in {"booked", "refused"} => Reached(Id(v), 3)'
  BY <1>1, <1>2, Stays DEF SweepInv, InHand, Reached
<1>4. Telling(v) => Reached(Id(v), 2)'
  BY <1>1, <1>2, Stays DEF SweepInv, Telling, Reached
<1>5. sweep[v].pc = "booking" => \A o \in sweep[v].orphans : Reached(o, 1)'
  BY Stays DEF SweepInv, SweepType, SweepStates
<1>6. PhaseOne(At(v))' <=> PhaseOne(At(v))
  BY <1>1 DEF PhaseOne
<1>7. LimitFires(Id(v), sweep[v].mark)' <=> LimitFires(Id(v), sweep[v].mark)
  BY <1>1 DEF LimitFires, Fires, Triggered
<1> QED
  BY <1>1, <1>3, <1>4, <1>5, <1>6, <1>7 DEF SweepInv

LEMMA OrderFrame ==
    ASSUME OrdersType, OrdersType', Forward, NEW o \in Orders, OrderInv(o),
           booked'[o] = booked[o], pushes'[o] = pushes[o],
           state'[o] = "filled" => state[o] = "filled" \/ booked[o] # <<>>
    PROVE  OrderInv(o)'
<1>1. \A n \in Nat : Reached(o, n) => Reached(o, n)'
  BY Stays
<1>2. state'[o] = "filled" => booked'[o] # <<>>
  BY DEF OrderInv
<1> QED
  BY <1>1, <1>2 DEF OrderInv

LEMMA ClientFrame ==
    ASSUME OrdersType, OrdersType', ClientType, Forward, NEW c \in Clients, ClientInv(c),
           client'[c] = client[c],
           client[c].pc = "submitting" => state'[client[c].order] = state[client[c].order]
    PROVE  ClientInv(c)'
<1>1. client[c].pc = "cancelling" => Reached(client[c].order, 1)'
  BY Stays DEF ClientInv, Reached
<1>2. client[c].pc = "closing" => \A o \in client[c].orphans : Reached(o, 1)'
  BY Stays DEF ClientInv, ClientType, ClientStates
<1> QED
  BY <1>1, <1>2 DEF ClientInv, Reached

\* A step of one sweep, which may change the orders.
LEMMA SweepActs ==
    ASSUME IInv, TypeOK', Forward, NEW s \in Sweeps, NEW t, SweepStep(s, t),
           UNCHANGED client, SweepInv(s)',
           \A o \in Orders : OrderInv(o)',
           \A o \in Orders : state[o] = "unplaced" => state'[o] = "unplaced",
           \A o \in Orders : booked[o] # <<>> => booked'[o] # <<>>,
           \A v \in Sweeps \ {s} :
               InHand(v) => booked'[Id(v)] = booked[Id(v)] /\ (InHand(s)' => Id(s)' # Id(v)),
           \A v \in Sweeps \ {s} :
               Telling(v) => pushes'[Id(v)] = pushes[Id(v)] /\ (Telling(s)' => Id(s)' # Id(v))
    PROVE  IInv'
<1>0. OrdersType'
  BY DEF TypeOK, OrdersType
<1>1. OrdersType /\ OrdersType' /\ SweepType /\ ClientType
  BY <1>0, TypeParts DEF IInv
<1>2. \A v \in Sweeps \ {s} : sweep'[v] = sweep[v]
  BY <1>1 DEF SweepStep, SweepType
<1>3. \A v \in Sweeps \ {s} : Id(v)' = Id(v) /\ (InHand(v)' <=> InHand(v))
                              /\ (Telling(v)' <=> Telling(v))
  BY <1>2 DEF Id, At, InHand, Telling
<1>4. ASSUME NEW v \in Sweeps
      PROVE  SweepInv(v)'
  <2>1. CASE v # s
    <3>1. SweepInv(v)
      BY DEF IInv
    <3>2. sweep[v].pc = "booked" => booked'[Id(v)] # <<>>
      BY <1>1, <3>1, HeadIsRead DEF SweepInv
    <3> QED
      BY <1>1, <1>2, <2>1, <3>1, <3>2, SweepFrame
  <2> QED
    BY <2>1
<1>5. ASSUME NEW c \in Clients
      PROVE  ClientInv(c)'
  BY <1>1, ClientFrame DEF IInv, ClientInv
<1>6. OneHolder'
  BY <1>3 DEF IInv, OneHolder
<1>7. OneTeller'
  BY <1>3 DEF IInv, OneTeller
<1>8. OneSubmitter'
  BY DEF IInv, OneSubmitter, Working
<1> QED
  BY <1>4, <1>5, <1>6, <1>7, <1>8 DEF IInv

\* A step of one sweep that changes nothing but the sweep.
LEMMA SweepLooks ==
    ASSUME IInv, NEW s \in Sweeps, NEW t \in SweepStates, SweepStep(s, t),
           UNCHANGED <<orderVars, ledgerVars, historyVars, client>>, SweepInv(s)',
           InHand(s)' => InHand(s) /\ Id(s)' = Id(s),
           Telling(s)' => Telling(s) /\ Id(s)' = Id(s)
    PROVE  IInv' /\ Forward
<1>1. SweepType'
  BY TypeParts DEF IInv, SweepStep, SweepType
<1>2. TypeOK'
  BY <1>1 DEF IInv, TypeOK, SweepType, orderVars, ledgerVars, historyVars
<1>3. Forward
  <2>1. \A o \in Orders : Stage(state[o]) \in 0..4
    BY StageFacts DEF IInv, TypeOK
  <2> QED
    BY <2>1 DEF Forward, orderVars
<1>4. ASSUME NEW o \in Orders
      PROVE  OrderInv(o)'
  BY DEF IInv, OrderInv, Reached, orderVars, ledgerVars, historyVars
<1>5. \A v \in Sweeps \ {s} : (InHand(v) /\ InHand(s)' => Id(s)' # Id(v))
                              /\ (Telling(v) /\ Telling(s)' => Id(s)' # Id(v))
  BY DEF IInv, OneHolder, OneTeller
<1> QED
  BY <1>2, <1>3, <1>4, <1>5, SweepActs DEF orderVars, ledgerVars, historyVars
-----------------------------------------------------------------------------
(* The steps that only look. *)

LEMMA NextOrderInv ==
    ASSUME SweepType, NEW s \in Sweeps, sweep[s].todo # <<>>, NextOrder(s)
    PROVE  /\ sweep'[s] \in SweepStates /\ SweepInv(s)'
           /\ ~InHand(s)' /\ ~Telling(s)'
           /\ SweepStep(s, sweep'[s])
<1> DEFINE next == [sweep[s] EXCEPT !.pc = "order", !.todo = Tail(@), !.effect = "none",
                                    !.copy = IdleSweep.copy, !.orphans = {}]
<1>1. sweep[s] \in SweepStates /\ IdleSweep \in SweepStates
  BY IdleSweepType DEF SweepType
<1>2. Len(sweep[s].todo) # 1 =>
         next \in SweepStates /\ next.pc = "order" /\ next.todo # <<>>
  BY <1>1, HeadIsRead DEF SweepStates
<1>3. sweep'[s] = IF Len(sweep[s].todo) = 1 THEN IdleSweep ELSE next
  BY DEF NextOrder, SweepStep, SweepType
<1> HIDE DEF next
<1>4. /\ sweep'[s] \in SweepStates
      /\ sweep'[s].pc = "idle" \/ (sweep'[s].pc = "order" /\ sweep'[s].todo # <<>>)
  BY <1>1, <1>2, <1>3 DEF IdleSweep
<1>5. SweepInv(s)' /\ ~InHand(s)' /\ ~Telling(s)'
  BY <1>4 DEF SweepInv, InHand, Telling
<1>6. SweepStep(s, sweep'[s])
  BY DEF NextOrder, SweepStep, SweepType
<1> QED
  BY <1>4, <1>5, <1>6

LEMMA DieInv == ASSUME IInv, NEW s \in Sweeps, Die(s) PROVE IInv' /\ Forward
<1>1. sweep'[s].pc = "idle"
  BY TypeParts DEF Die, SweepStep, IdleSweep, IInv, SweepType
<1>2. SweepInv(s)' /\ ~InHand(s)' /\ ~Telling(s)'
  BY <1>1 DEF SweepInv, InHand, Telling
<1> QED
  BY <1>2, IdleSweepType, SweepLooks DEF Die

LEMMA WaitInv == ASSUME IInv, NEW s \in Sweeps, Wait(s) PROVE IInv' /\ Forward
<1>1. SweepType /\ sweep[s].todo # <<>>
  BY TypeParts DEF Wait, IInv, SweepInv
<1>2. /\ sweep'[s] \in SweepStates /\ SweepInv(s)'
      /\ ~InHand(s)' /\ ~Telling(s)'
      /\ SweepStep(s, sweep'[s])
  BY <1>1, NextOrderInv DEF Wait
<1> QED
  BY <1>2, SweepLooks DEF Wait

LEMMA GotoType ==
    ASSUME SweepType, NEW s \in Sweeps, NEW pc, Goto(s, pc),
           pc \in {"due", "telling", "claimed", "booked", "refused"}
    PROVE  /\ sweep'[s] = [sweep[s] EXCEPT !.pc = pc]
           /\ sweep'[s] \in SweepStates /\ SweepStep(s, sweep'[s])
           /\ sweep'[s].pc = pc /\ sweep'[s].todo = sweep[s].todo
           /\ sweep'[s].mark = sweep[s].mark
           /\ At(s)' = At(s) /\ Id(s)' = Id(s)
<1>1. sweep'[s] = [sweep[s] EXCEPT !.pc = pc]
  BY DEF Goto, SweepStep, SweepType
<1>2. sweep[s] \in SweepStates
  BY DEF SweepType
<1>3. /\ sweep'[s] \in SweepStates
      /\ sweep'[s].pc = pc /\ sweep'[s].todo = sweep[s].todo
      /\ sweep'[s].mark = sweep[s].mark
  BY <1>1, <1>2 DEF SweepStates
<1>4. SweepStep(s, sweep'[s])
  BY <1>1 DEF Goto, SweepStep
<1> QED
  BY <1>1, <1>3, <1>4 DEF At, Id

LEMMA OnwardInv ==
    ASSUME SweepType, NEW s \in Sweeps, sweep[s].todo # <<>>, Onward(s)
    PROVE  /\ sweep'[s] \in SweepStates /\ SweepInv(s)'
           /\ ~InHand(s)' /\ ~Telling(s)'
           /\ SweepStep(s, sweep'[s])
<1>1. CASE LimitFires(Id(s), sweep[s].mark)
  <2>1. /\ sweep'[s] \in SweepStates /\ SweepStep(s, sweep'[s])
        /\ sweep'[s].pc = "due" /\ sweep'[s].todo # <<>>
        /\ LimitFires(Id(s), sweep[s].mark)'
    BY <1>1, GotoType DEF Onward, LimitFires, Fires, Triggered
  <2> QED
    BY <2>1 DEF SweepInv, InHand, Telling
<1>2. CASE ~LimitFires(Id(s), sweep[s].mark)
  BY <1>2, NextOrderInv DEF Onward
<1> QED
  BY <1>1, <1>2

LEMMA ReadBookInv == ASSUME IInv, NEW s \in Sweeps, ReadBook(s) PROVE IInv' /\ Forward
<1>1. SweepType /\ OrdersType
  BY TypeParts DEF IInv
<1>2. CASE SweepStep(s, IdleSweep)
  <2>1. sweep'[s].pc = "idle"
    BY <1>1, <1>2 DEF SweepStep, IdleSweep, SweepType
  <2>2. SweepInv(s)' /\ ~InHand(s)' /\ ~Telling(s)'
    BY <2>1 DEF SweepInv, InHand, Telling
  <2> QED
    BY <1>2, <2>2, IdleSweepType, SweepLooks DEF ReadBook
<1>3. ASSUME \E i \in 1..Len(book) : state[book[i]] \in Live, NEW mark \in Marks,
             SweepStep(s, [sweep[s] EXCEPT
                    !.pc = "order", !.mark = mark,
                    !.todo = [i \in 1..Len(book) |-> Seen(book[i])]])
      PROVE  IInv' /\ Forward
  <2> DEFINE list == [i \in 1..Len(book) |-> Seen(book[i])]
             t == [sweep[s] EXCEPT !.pc = "order", !.mark = mark, !.todo = list]
  <2>1. Len(list) # 0 /\ list \in Seq(Read)
    <3>1. Len(book) \in Nat
      BY <1>1, LenProperties DEF OrdersType
    <3>2. Len(book) # 0
      BY <1>3, <3>1
    <3> QED
      BY <1>1, <3>2, SeenType
  <2>2. list # <<>>
    BY <2>1, EmptySeq
  <2>3. mark \in Nat /\ sweep[s] \in SweepStates
    BY <1>1, OrdersAssumption DEF SweepType
  <2> HIDE DEF list
  <2>4. t \in SweepStates /\ t.pc = "order" /\ t.todo = list
    BY <2>1, <2>3 DEF SweepStates
  <2>5. sweep'[s] = t /\ SweepStep(s, t)
    BY <1>1, <1>3 DEF SweepStep, SweepType, list
  <2> HIDE DEF t
  <2>6. SweepInv(s)' /\ ~InHand(s)' /\ ~Telling(s)'
    BY <2>2, <2>4, <2>5 DEF SweepInv, InHand, Telling
  <2> QED
    BY <2>4, <2>5, <2>6, SweepLooks DEF ReadBook
<1> QED
  BY <1>2, <1>3 DEF ReadBook

LEMMA RefuseInv == ASSUME IInv, NEW s \in Sweeps, Refuse(s) PROVE IInv' /\ Forward
<1>1. SweepType /\ sweep[s].todo # <<>> /\ Reached(Id(s), 3)
  BY TypeParts DEF Refuse, IInv, SweepInv, InHand
<1>2. /\ sweep'[s] \in SweepStates /\ SweepStep(s, sweep'[s])
      /\ sweep'[s].pc = "refused" /\ sweep'[s].todo = sweep[s].todo /\ Id(s)' = Id(s)
  BY <1>1, GotoType DEF Refuse
<1>3. Reached(Id(s), 3)'
  BY <1>1, <1>2 DEF Refuse, Reached, orderVars
<1>4. SweepInv(s)' /\ ~InHand(s)' /\ ~Telling(s)'
  BY <1>1, <1>2, <1>3 DEF SweepInv, InHand, Telling
<1> QED
  BY <1>2, <1>4, SweepLooks DEF Refuse

LEMMA DecideInv == ASSUME IInv, NEW s \in Sweeps, Decide(s) PROVE IInv' /\ Forward
<1> DEFINE t == [sweep[s] EXCEPT !.pc = "decided", !.effect = Effect(Id(s))]
<1>1. SweepType /\ sweep[s] \in SweepStates /\ SweepInv(s) /\ sweep[s].pc = "claimed"
  BY TypeParts DEF Decide, IInv, SweepType
<1>2. Effect(Id(s)) \in Effects
  BY DEF Decide, Effect, Effects
<1>3. /\ t \in SweepStates /\ t.pc = "decided" /\ t.effect \in Effects
      /\ t.todo = sweep[s].todo /\ t.mark = sweep[s].mark
  BY <1>1, <1>2 DEF SweepStates
<1>4. sweep'[s] = t /\ SweepStep(s, t)
  BY <1>1 DEF Decide, SweepStep, SweepType
<1> HIDE DEF t
<1>5. Id(s)' = Id(s) /\ InHand(s)' /\ InHand(s) /\ ~Telling(s)'
  BY <1>1, <1>3, <1>4 DEF Id, At, InHand, Telling
<1>6. SweepInv(s)'
  <2>1. /\ Reached(Id(s), 3)' /\ booked'[Id(s)'] = <<>> /\ sweep'[s].todo # <<>>
    BY <1>1, <1>3, <1>4, <1>5 DEF SweepInv, Decide, Reached, orderVars, ledgerVars
  <2>2. (TermsOf[Id(s)].type # "stop" => LimitFires(Id(s), sweep[s].mark))'
    BY <1>1, <1>3, <1>4, <1>5 DEF SweepInv, LimitFires, Fires, Triggered
  <2> QED
    BY <1>3, <1>4, <1>5, <2>1, <2>2 DEF SweepInv
<1> QED
  BY <1>3, <1>4, <1>5, <1>6, SweepLooks DEF Decide

LEMMA OpenBookingInv == ASSUME IInv, NEW s \in Sweeps, OpenBooking(s) PROVE IInv' /\ Forward
<1> DEFINE q == TermsOf[Id(s)].quantity
           orphans == IF sweep[s].effect = "sell"
                      THEN Orphans(holding.quantity - Sold(q, holding.quantity)) ELSE {}
           t == [sweep[s] EXCEPT !.pc = "booking", !.copy = holding, !.orphans = orphans]
<1>1. /\ SweepType /\ sweep[s] \in SweepStates /\ SweepInv(s) /\ sweep[s].pc = "decided"
      /\ holding \in Holding
  BY TypeParts DEF OpenBooking, IInv, SweepType, LedgerType
<1>2. orphans \subseteq Orders /\ \A o \in orphans : state[o] \in Live
  BY DEF Orphans
<1>3. /\ t \in SweepStates /\ t.pc = "booking" /\ t.effect = sweep[s].effect
      /\ t.todo = sweep[s].todo /\ t.mark = sweep[s].mark /\ t.orphans = orphans
  BY <1>1, <1>2 DEF SweepStates
<1>4. sweep'[s] = t /\ SweepStep(s, t)
  BY <1>1 DEF OpenBooking, SweepStep, SweepType
<1>5. \A o \in orphans : Reached(o, 1)
  BY <1>2, StageFacts DEF Reached, IInv, TypeOK, Live
<1> HIDE DEF t, orphans
<1>6. Id(s)' = Id(s) /\ InHand(s)' /\ InHand(s) /\ ~Telling(s)'
  BY <1>1, <1>3, <1>4 DEF Id, At, InHand, Telling
<1>7. SweepInv(s)'
  <2>1. /\ Reached(Id(s), 3)' /\ booked'[Id(s)'] = <<>> /\ sweep'[s].todo # <<>>
        /\ \A o \in orphans : Reached(o, 1)'
    BY <1>1, <1>3, <1>4, <1>5, <1>6 DEF SweepInv, OpenBooking, Reached, orderVars, ledgerVars
  <2>2. (TermsOf[Id(s)].type # "stop" => LimitFires(Id(s), sweep[s].mark))'
    BY <1>1, <1>3, <1>4, <1>6 DEF SweepInv, LimitFires, Fires, Triggered
  <2>3. sweep[s].effect \in Effects
    BY <1>1 DEF SweepInv
  <2> QED
    BY <1>3, <1>4, <1>6, <2>1, <2>2, <2>3 DEF SweepInv, Reached
<1> QED
  BY <1>3, <1>4, <1>6, <1>7, SweepLooks DEF OpenBooking
-----------------------------------------------------------------------------
(* The steps of a sweep that write. *)

\* Orders that move on, one by one.
LEMMA ForwardBy ==
    ASSUME OrdersType,
           \A o \in Orders : \/ state'[o] = state[o]
                             \/ state[o] = "unplaced" /\ state'[o] = "working"
                             \/ state[o] = "working" /\ state'[o] = "triggered"
                             \/ state[o] \in Live /\ state'[o] = "filling"
                             \/ state'[o] \in Terminal
    PROVE  Forward
<1>1. ASSUME NEW o \in Orders
      PROVE  Stage(state[o]) <= Stage(state'[o])
  <2>1. state[o] \in States
    BY DEF OrdersType
  <2>2. CASE state'[o] = state[o]
    BY <2>1, <2>2, StageFacts
  <2>3. CASE state'[o] # state[o]
    BY <1>1, <2>1, <2>3 DEF Stage, States, Live, Terminal
  <2> QED
    BY <2>2, <2>3
<1> QED
  BY <1>1 DEF Forward

LEMMA TellTriggeredInv == ASSUME IInv, NEW s \in Sweeps, TellTriggered(s) PROVE IInv' /\ Forward
<1> DEFINE o == Id(s)
<1>1. SweepType /\ OrdersType /\ HistoryType /\ SweepInv(s) /\ Telling(s)
  BY TypeParts DEF TellTriggered, IInv, Telling
<1>2. sweep[s].todo # <<>> /\ Reached(o, 2) /\ pushes[o] = 0
  BY <1>1 DEF SweepInv, Telling
<1>3. o \in Orders
  BY <1>1, <1>2, HeadIsRead
<1>4. /\ sweep'[s] \in SweepStates /\ SweepInv(s)' /\ ~InHand(s)' /\ ~Telling(s)'
      /\ SweepStep(s, sweep'[s])
  BY <1>1, <1>2, OnwardInv DEF TellTriggered
<1> HIDE DEF o
<1>5. pushes' = [pushes EXCEPT ![o] = 1]
  BY <1>2 DEF TellTriggered, o
<1>6. TypeOK'
  <2>1. HistoryType'
    BY <1>1, <1>5 DEF HistoryType
  <2>2. OrdersType' /\ LedgerType' /\ ClientType'
    BY TypeParts, SameOrders, SameLedger, SameClients DEF IInv, TellTriggered
  <2> QED
    BY <1>1, <1>4, <2>1, <2>2, SweepStepType, TypePartsNext
<1>7. Forward
  BY <1>1, ForwardBy DEF TellTriggered, orderVars
<1>8. ASSUME NEW p \in Orders
      PROVE  OrderInv(p)'
  <2>1. pushes'[p] = pushes[p] \/ (Reached(p, 2) /\ pushes'[p] = 1)
    BY <1>1, <1>2, <1>5 DEF HistoryType
  <2>2. OrderInv(p)
    BY DEF IInv
  <2> QED
    BY <2>1, <2>2 DEF OrderInv, TellTriggered, Reached, orderVars, ledgerVars
<1>9. \A v \in Sweeps \ {s} : Telling(v) => pushes'[Id(v)] = pushes[Id(v)]
  BY <1>1, <1>5 DEF IInv, OneTeller, o, HistoryType
<1> QED
  BY <1>4, <1>6, <1>7, <1>8, <1>9, SweepActs DEF TellTriggered, orderVars, ledgerVars

LEMMA StampTriggeredInv ==
    ASSUME IInv, NEW s \in Sweeps, StampTriggered(s)
    PROVE  IInv' /\ Forward
<1> DEFINE o == Id(s)
<1>1. SweepType /\ OrdersType /\ sweep[s].todo # <<>> /\ sweep[s].pc = "order"
  BY TypeParts DEF StampTriggered, IInv, SweepInv
<1>2. o \in Orders
  BY <1>1, HeadIsRead
<1>3. CASE state[o] # "working"
  <2>1. Onward(s) /\ UNCHANGED <<orderVars, ledgerVars, historyVars, client>>
    BY <1>3 DEF StampTriggered, orderVars
  <2> QED
    BY <1>1, <2>1, OnwardInv, SweepLooks
<1>4. CASE state[o] = "working"
  <2>1. Goto(s, "telling") /\ PhaseOne(At(s)) /\ state' = [state EXCEPT ![o] = "triggered"]
    BY <1>4 DEF StampTriggered
  <2>2. /\ sweep'[s] \in SweepStates /\ SweepStep(s, sweep'[s])
        /\ sweep'[s].pc = "telling" /\ sweep'[s].todo = sweep[s].todo
        /\ At(s)' = At(s) /\ Id(s)' = Id(s)
    BY <1>1, <2>1, GotoType
  <2>3. /\ Reached(o, 1) /\ ~Reached(o, 2)
        /\ Stage("triggered") = 2
    BY <1>4 DEF Reached, Stage
  <2> HIDE DEF o
  <2>4. TypeOK'
    <3>1. OrdersType'
      BY <1>1, <2>1 DEF OrdersType, StampTriggered, States, Live
    <3>2. LedgerType' /\ HistoryType' /\ ClientType'
      BY TypeParts, SameLedger, SameHistory, SameClients DEF IInv, StampTriggered
    <3> QED
      BY <1>1, <2>2, <3>1, <3>2, SweepStepType, TypePartsNext
  <2>5. Forward
    BY <1>1, <1>4, <2>1, ForwardBy DEF OrdersType
  <2>6. ASSUME NEW p \in Orders
        PROVE  OrderInv(p)'
    <3>1. /\ booked'[p] = booked[p] /\ pushes'[p] = pushes[p]
          /\ state'[p] = "filled" => state[p] = "filled"
      BY <1>1, <2>1 DEF StampTriggered, ledgerVars, historyVars, OrdersType
    <3> QED
      BY <1>1, <2>4, <2>5, <3>1, TypePartsNext, OrderFrame DEF IInv
  <2>7. pushes[o] = 0
    BY <1>2, <2>3 DEF IInv, OrderInv
  <2>8. SweepInv(s)' /\ ~InHand(s)' /\ Telling(s)'
    <3>1. PhaseOne(At(s))' /\ Reached(Id(s), 2)'
      BY <1>1, <1>2, <2>1, <2>2, <2>3 DEF PhaseOne, Reached, OrdersType, o
    <3>2. pushes'[Id(s)'] = 0
      BY <2>2, <2>7 DEF StampTriggered, historyVars, o
    <3> QED
      BY <1>1, <2>2, <3>1, <3>2 DEF SweepInv, InHand, Telling
  <2>9. \A v \in Sweeps \ {s} : Telling(v) => Id(s)' # Id(v)
    BY <2>2, <2>3 DEF IInv, SweepInv, o
  <2> QED
    BY <1>1, <2>1, <2>2, <2>4, <2>5, <2>6, <2>8, <2>9, <1>4, SweepActs
       DEF StampTriggered, ledgerVars, historyVars, OrdersType
<1> QED
  BY <1>3, <1>4

\* What is due is past its limit, in whichever phase it was read.
LEMMA DueIsPastTheLimit ==
    ASSUME NEW r \in Read, NEW mark, Due(r, mark), ~PhaseOne(r), TermsOf[r.id].type # "stop"
    PROVE  LimitFires(r.id, mark)
<1>1. TermsOf[r.id].type \in {"limit", "stop_limit"} /\ r.state \in Live
  BY TermsType DEF Read, RestingTypes, Due
<1>2. CASE TermsOf[r.id].type = "limit"
  BY <1>2 DEF Due, PhaseTwo, LimitFires, Fires, Named, Triggered
<1>3. CASE TermsOf[r.id].type = "stop_limit"
  BY <1>1, <1>3 DEF Due, PhaseOne, PhaseTwo, Live, LimitFires
<1> QED
  BY <1>1, <1>2, <1>3

LEMMA ClaimInv == ASSUME IInv, NEW s \in Sweeps, Claim(s) PROVE IInv' /\ Forward
<1> DEFINE o == Id(s)
<1>1. SweepType /\ OrdersType /\ SweepInv(s) /\ sweep[s].todo # <<>>
  BY TypeParts DEF Claim, IInv, SweepInv
<1>2. o \in Orders /\ At(s) \in Read /\ o = At(s).id
  BY <1>1, HeadIsRead DEF Id
<1>3. CASE state[o] \notin Live
  <2>1. NextOrder(s) /\ UNCHANGED <<orderVars, ledgerVars, historyVars, client>>
    BY <1>3 DEF Claim, orderVars
  <2> QED
    BY <1>1, <2>1, NextOrderInv, SweepLooks
<1>4. CASE state[o] \in Live
  <2>1. /\ Goto(s, "claimed") /\ state' = [state EXCEPT ![o] = "filling"]
        /\ timer' = [timer EXCEPT ![o] = sweep[s].late]
    BY <1>4 DEF Claim
  <2>2. /\ sweep'[s] \in SweepStates /\ SweepStep(s, sweep'[s])
        /\ sweep'[s].pc = "claimed" /\ sweep'[s].todo = sweep[s].todo
        /\ sweep'[s].mark = sweep[s].mark /\ Id(s)' = Id(s)
    BY <1>1, <2>1, GotoType
  <2>3. /\ Reached(o, 1) /\ ~Reached(o, 3)
        /\ Stage("filling") = 3
    BY <1>4 DEF Reached, Stage, Live
  <2>4. TermsOf[o].type # "stop" => LimitFires(o, sweep[s].mark)
    BY <1>1, <1>2, DueIsPastTheLimit DEF Claim, SweepInv
  <2> HIDE DEF o
  <2>5. TypeOK'
    <3>1. sweep[s].late \in 0..(Life + Stale)
      BY <1>1, OrdersAssumption DEF SweepType, SweepStates
    <3>2. OrdersType'
      BY <1>1, <2>1, <3>1 DEF OrdersType, Claim, States
    <3>3. LedgerType' /\ HistoryType' /\ ClientType'
      BY TypeParts, SameLedger, SameHistory, SameClients DEF IInv, Claim
    <3> QED
      BY <1>1, <2>2, <3>2, <3>3, SweepStepType, TypePartsNext
  <2>6. Forward
    BY <1>1, <1>4, <2>1, ForwardBy DEF OrdersType
  <2>7. ASSUME NEW p \in Orders
        PROVE  OrderInv(p)'
    <3>1. /\ booked'[p] = booked[p] /\ pushes'[p] = pushes[p]
          /\ state'[p] = "filled" => state[p] = "filled"
      BY <1>1, <2>1 DEF Claim, ledgerVars, historyVars, OrdersType
    <3> QED
      BY <1>1, <2>5, <2>6, <3>1, TypePartsNext, OrderFrame DEF IInv
  <2>8. booked[o] = <<>>
    BY <1>2, <2>3 DEF IInv, OrderInv
  <2>9. SweepInv(s)' /\ InHand(s)' /\ ~Telling(s)'
    <3>1. Reached(Id(s), 3)'
      BY <1>1, <1>2, <2>1, <2>2, <2>3 DEF Reached, OrdersType, o
    <3>2. booked'[Id(s)'] = <<>>
      BY <2>2, <2>8 DEF Claim, ledgerVars, o
    <3>3. (TermsOf[Id(s)].type # "stop" => LimitFires(Id(s), sweep[s].mark))'
      BY <2>2, <2>4 DEF LimitFires, Fires, Triggered, o
    <3> QED
      BY <1>1, <2>2, <3>1, <3>2, <3>3 DEF SweepInv, InHand, Telling
  <2>10. \A v \in Sweeps \ {s} : InHand(v) => Id(s)' # Id(v)
    BY <2>2, <2>3 DEF IInv, SweepInv, o
  <2> QED
    BY <1>1, <1>4, <2>1, <2>2, <2>5, <2>6, <2>7, <2>9, <2>10, SweepActs
       DEF Claim, ledgerVars, historyVars, OrdersType, Live
<1> QED
  BY <1>3, <1>4

LEMMA LeaveFacts ==
    ASSUME OrdersType, NEW orders, NEW terminal \in Terminal, Leave(orders, terminal)
    PROVE  /\ state' \in [Orders -> States]
           /\ timer' \in [Orders -> 0..(Life + Stale)]
           /\ Forward
           /\ \A o \in Orders : state'[o] = IF o \in orders THEN terminal ELSE state[o]
<1>1. terminal \in States
  BY DEF States
<1>2. 0 \in 0..(Life + Stale)
  BY OrdersAssumption
<1>3. \A o \in Orders : state'[o] = IF o \in orders THEN terminal ELSE state[o]
  BY DEF Leave
<1>4. Forward
  BY <1>3, ForwardBy
<1>5. state' \in [Orders -> States]
  BY <1>1 DEF Leave, OrdersType
<1>6. timer' \in [Orders -> 0..(Life + Stale)]
  BY <1>2 DEF Leave, OrdersType
<1> QED
  BY <1>3, <1>4, <1>5, <1>6

LEMMA RetireFacts ==
    ASSUME OrdersType, NEW orders, Retire(orders), UNCHANGED book
    PROVE  /\ OrdersType' /\ Forward
           /\ \A o \in Orders : state'[o] = IF o \in orders THEN "cancelled" ELSE state[o]
<1>1. reason' \in [Orders -> Reasons]
  BY DEF Retire, OrdersType, Reasons
<1>2. "cancelled" \in Terminal /\ Leave(orders, "cancelled")
  BY DEF Terminal, Retire
<1> QED
  BY <1>1, <1>2, LeaveFacts DEF OrdersType

LEMMA StampFilledInv == ASSUME IInv, NEW s \in Sweeps, StampFilled(s) PROVE IInv' /\ Forward
<1> DEFINE o == Id(s)
<1>1. /\ SweepType /\ OrdersType /\ sweep[s].todo # <<>>
      /\ booked[o] # <<>> /\ Reached(o, 3)
  BY TypeParts DEF StampFilled, IInv, SweepInv
<1>2. o \in Orders
  BY <1>1, HeadIsRead
<1>3. /\ sweep'[s] \in SweepStates /\ SweepInv(s)' /\ ~InHand(s)' /\ ~Telling(s)'
      /\ SweepStep(s, sweep'[s])
  BY <1>1, NextOrderInv DEF StampFilled
<1> HIDE DEF o
<1>4. /\ state' \in [Orders -> States] /\ timer' \in [Orders -> 0..(Life + Stale)]
      /\ Forward
      /\ \A p \in Orders : state'[p] = IF p = o THEN "filled" ELSE state[p]
  BY <1>1, LeaveFacts DEF StampFilled, Terminal, o
<1>5. TypeOK'
  <2>1. OrdersType'
    BY <1>1, <1>4 DEF OrdersType, StampFilled
  <2>2. LedgerType' /\ HistoryType' /\ ClientType'
    BY TypeParts, SameLedger, SameHistory, SameClients DEF IInv, StampFilled
  <2> QED
    BY <1>1, <1>3, <2>1, <2>2, SweepStepType, TypePartsNext
<1>6. ASSUME NEW p \in Orders
      PROVE  OrderInv(p)'
  <2>1. /\ booked'[p] = booked[p] /\ pushes'[p] = pushes[p]
        /\ state'[p] = "filled" => state[p] = "filled" \/ booked[p] # <<>>
    BY <1>1, <1>4 DEF StampFilled, ledgerVars, historyVars
  <2> QED
    BY <1>1, <1>4, <1>5, <2>1, TypePartsNext, OrderFrame DEF IInv
<1>7. \A p \in Orders : state[p] = "unplaced" => state'[p] = "unplaced"
  BY <1>1, <1>4 DEF Reached, Stage
<1> QED
  BY <1>3, <1>4, <1>5, <1>6, <1>7, SweepActs DEF StampFilled, ledgerVars, historyVars

LEMMA StampRejectedInv == ASSUME IInv, NEW s \in Sweeps, StampRejected(s) PROVE IInv' /\ Forward
<1> DEFINE o == Id(s)
<1>1. SweepType /\ OrdersType /\ sweep[s].todo # <<>> /\ Reached(o, 3)
  BY TypeParts DEF StampRejected, IInv, SweepInv
<1>2. o \in Orders
  BY <1>1, HeadIsRead
<1>3. /\ sweep'[s] \in SweepStates /\ SweepInv(s)' /\ ~InHand(s)' /\ ~Telling(s)'
      /\ SweepStep(s, sweep'[s])
  BY <1>1, NextOrderInv DEF StampRejected
<1> HIDE DEF o
<1>4. /\ state' \in [Orders -> States] /\ timer' \in [Orders -> 0..(Life + Stale)]
      /\ Forward
      /\ \A p \in Orders : state'[p] = IF p = o THEN "rejected" ELSE state[p]
  BY <1>1, LeaveFacts DEF StampRejected, Terminal, o
<1>5. TypeOK'
  <2>1. OrdersType'
    BY <1>1, <1>4 DEF OrdersType, StampRejected, Reasons
  <2>2. LedgerType' /\ HistoryType' /\ ClientType'
    BY TypeParts, SameLedger, SameHistory, SameClients DEF IInv, StampRejected
  <2> QED
    BY <1>1, <1>3, <2>1, <2>2, SweepStepType, TypePartsNext
<1>6. ASSUME NEW p \in Orders
      PROVE  OrderInv(p)'
  <2>1. /\ booked'[p] = booked[p] /\ pushes'[p] = pushes[p]
        /\ state'[p] = "filled" => state[p] = "filled"
    BY <1>1, <1>4 DEF StampRejected, ledgerVars, historyVars
  <2> QED
    BY <1>1, <1>4, <1>5, <2>1, TypePartsNext, OrderFrame DEF IInv
<1>7. \A p \in Orders : state[p] = "unplaced" => state'[p] = "unplaced"
  BY <1>1, <1>4 DEF Reached, Stage
<1> QED
  BY <1>3, <1>4, <1>5, <1>6, <1>7, SweepActs DEF StampRejected, ledgerVars, historyVars

\* Expiry and the reaper: only orders in the book or being filled are written.
LEMMA BeginSweepInv == ASSUME IInv, NEW s \in Sweeps, BeginSweep(s) PROVE IInv' /\ Forward
<1>1. SweepType /\ OrdersType
  BY TypeParts DEF IInv
<1>2. ASSUME NEW o \in Orders
      PROVE  state'[o] = state[o]
             \/ (state[o] # "unplaced" /\ state'[o] \in {"expired", "rejected"})
  BY DEF BeginSweep, Elapsed, Stuck, Live
<1>3. Forward
  BY <1>1, <1>2, ForwardBy DEF Terminal
<1>4. /\ sweep'[s] \in SweepStates /\ sweep'[s].pc \in {"idle", "reading"}
      /\ SweepStep(s, sweep'[s])
  <2>1. [IdleSweep EXCEPT !.pc = "reading"] \in SweepStates
    BY IdleSweepType DEF SweepStates
  <2>2. PICK open \in BOOLEAN :
          SweepStep(s, IF open THEN [IdleSweep EXCEPT !.pc = "reading"] ELSE IdleSweep)
    BY DEF BeginSweep
  <2>3. sweep'[s] = IF open THEN [IdleSweep EXCEPT !.pc = "reading"] ELSE IdleSweep
    BY <1>1, <2>2 DEF SweepStep, SweepType
  <2> QED
    BY <2>1, <2>2, <2>3, IdleSweepType DEF IdleSweep
<1>5. SweepInv(s)' /\ ~InHand(s)' /\ ~Telling(s)'
  BY <1>4 DEF SweepInv, InHand, Telling
<1>6. TypeOK'
  <2>1. state' \in [Orders -> States]
    BY <1>1 DEF OrdersType, BeginSweep, States, Terminal
  <2>2. timer' \in [Orders -> 0..(Life + Stale)]
    BY <1>1, OrdersAssumption DEF OrdersType, BeginSweep
  <2>3. reason' \in [Orders -> Reasons]
    BY <1>1 DEF OrdersType, BeginSweep, Reasons
  <2>4. OrdersType'
    BY <1>1, <2>1, <2>2, <2>3 DEF OrdersType, BeginSweep
  <2>5. LedgerType' /\ HistoryType' /\ ClientType'
    BY TypeParts, SameLedger, SameHistory, SameClients DEF IInv, BeginSweep
  <2> QED
    BY <1>1, <1>4, <2>4, <2>5, SweepStepType, TypePartsNext
<1>7. ASSUME NEW p \in Orders
      PROVE  OrderInv(p)'
  <2>1. /\ booked'[p] = booked[p] /\ pushes'[p] = pushes[p]
        /\ state'[p] = "filled" => state[p] = "filled"
    BY <1>2 DEF BeginSweep, ledgerVars, historyVars
  <2> QED
    BY <1>1, <1>3, <1>6, <2>1, TypePartsNext, OrderFrame DEF IInv
<1> QED
  BY <1>2, <1>3, <1>4, <1>5, <1>6, <1>7, SweepActs DEF BeginSweep, ledgerVars, historyVars

\* Rule 2 books no better than Rule 1 let it: what fired its limit books
\* within it.
LEMMA BooksWithinLimit ==
    ASSUME NEW o \in Orders, NEW mark \in Nat,
           TermsOf[o].type # "stop", LimitFires(o, mark)
    PROVE  LET price == BookedPrice(o, mark)
           IN  IF TermsOf[o].side = "buy" THEN price <= TermsOf[o].limit
               ELSE price >= TermsOf[o].limit
<1> DEFINE limit == TermsOf[o].limit
           side == TermsOf[o].side
<1>1. side \in {"buy", "sell"} /\ limit \in Nat
      /\ TermsOf[o].type \in {"limit", "stop_limit"}
  BY TermsType DEF RestingTypes
<1>2. BookedPrice(o, mark) = FillPrice(side, limit, mark)
  BY <1>1 DEF BookedPrice, Named
<1>3. IF side = "buy" THEN mark <= limit ELSE mark >= limit
  BY <1>1 DEF LimitFires, Fires, Triggered, RestsBelow
<1> HIDE DEF limit, side
<1>4. IF side = "buy" THEN FillPrice(side, limit, mark) <= limit
      ELSE FillPrice(side, limit, mark) >= limit
  BY <1>1, <1>3 DEF FillPrice
<1> QED
  BY <1>2, <1>4 DEF limit, side

LEMMA BookedPriceType ==
    ASSUME NEW o \in Orders, NEW mark \in Nat
    PROVE  BookedPrice(o, mark) \in Nat
  BY TermsType DEF BookedPrice, FillPrice

LEMMA BuyWriteType ==
    ASSUME holding \in Holding, NEW o \in Orders, NEW copy \in Holding, BuyWrite(o, copy)
    PROVE  holding' \in Holding
<1>1. TermsOf[o].quantity \in Nat
  BY TermsType
<1> QED
  BY <1>1 DEF BuyWrite, Holding

LEMMA SellWriteType ==
    ASSUME holding \in Holding, NEW copy \in Holding, NEW sold \in Nat,
           sold <= copy.quantity, SellWrite(copy, sold)
    PROVE  holding' \in Holding
<1>1. copy.quantity \in Nat /\ copy.quantity - sold \in Nat
  BY DEF Holding
<1> QED
  BY <1>1 DEF SellWrite, Holding

LEMMA CommitBookingInv == ASSUME IInv, NEW s \in Sweeps, CommitBooking(s) PROVE IInv' /\ Forward
<1> DEFINE o == Id(s)
           t == sweep[s]
           q == TermsOf[o].quantity
           entry == [effect |-> t.effect, price |-> BookedPrice(o, t.mark)]
<1>1. /\ OrdersType /\ LedgerType /\ SweepType /\ t \in SweepStates
      /\ SweepInv(s) /\ t.pc = "booking" /\ InHand(s)
  BY TypeParts DEF CommitBooking, IInv, SweepType, InHand
<1>2. /\ t.todo # <<>> /\ Reached(o, 3) /\ booked[o] = <<>> /\ t.effect \in Effects
      /\ TermsOf[o].type # "stop" => LimitFires(o, t.mark)
      /\ \A p \in t.orphans : Reached(p, 1)
  BY <1>1 DEF SweepInv
<1>3. o \in Orders /\ t.mark \in Nat /\ t.copy \in Holding /\ t.orphans \subseteq Orders
  BY <1>1, <1>2, HeadIsRead DEF SweepStates
<1>4. entry \in [effect : Effects, price : Nat]
  BY <1>2, <1>3, BookedPriceType
<1>5. /\ booked' = [booked EXCEPT ![o] = Append(booked[o], entry)]
      /\ Goto(s, IF t.effect \in {"buy", "sell"} THEN "booked" ELSE "refused")
      /\ UNCHANGED <<book, historyVars, client>>
  BY DEF CommitBooking
<1>6. /\ sweep'[s] \in SweepStates /\ SweepStep(s, sweep'[s])
      /\ sweep'[s].pc \in {"booked", "refused"} /\ sweep'[s].todo = t.todo
      /\ Id(s)' = o
  BY <1>1, <1>5, GotoType
<1>7. /\ OrdersType' /\ Forward
      /\ \A p \in Orders : state'[p] = state[p]
                           \/ (state'[p] = "cancelled" /\ state[p] # "unplaced")
  <2>1. CASE t.effect = "sell"
    <3>1. Retire(t.orphans)
      BY <2>1 DEF CommitBooking
    <3>2. \A p \in t.orphans : state[p] # "unplaced"
      BY <1>2 DEF Reached, Stage
    <3> QED
      BY <1>1, <1>5, <3>1, <3>2, RetireFacts
  <2>2. CASE t.effect # "sell"
    <3>1. UNCHANGED <<state, timer, reason>>
      BY <2>2 DEF CommitBooking
    <3>2. OrdersType'
      BY <1>1, <1>5, <3>1 DEF OrdersType
    <3> QED
      BY <1>1, <3>1, <3>2, ForwardBy
  <2> QED
    BY <2>1, <2>2
<1>8. holding' \in Holding /\ short' \in Nat
  <2>1. holding \in Holding /\ short \in Nat /\ q \in Nat
    BY <1>1, <1>3, TermsType DEF LedgerType
  <2>2. CASE t.effect = "buy"
    BY <1>3, <2>1, <2>2, BuyWriteType DEF CommitBooking
  <2>3. CASE t.effect = "sell"
    <3>1. t.copy.quantity \in Nat
      BY <1>3 DEF Holding
    <3>2. Sold(q, t.copy.quantity) \in Nat /\ Sold(q, t.copy.quantity) <= t.copy.quantity
      BY <2>1, <3>1, EarlierType DEF Sold
    <3>3. SellWrite(t.copy, Sold(q, t.copy.quantity)) /\ UNCHANGED short
      BY <2>3 DEF CommitBooking
    <3> QED
      BY <1>3, <2>1, <3>2, <3>3, SellWriteType
  <2>4. CASE t.effect = "short"
    BY <2>1, <2>4 DEF CommitBooking
  <2>5. CASE t.effect \notin {"buy", "sell", "short"}
    BY <2>1, <2>5 DEF CommitBooking
  <2> QED
    BY <2>2, <2>3, <2>4, <2>5
<1> HIDE DEF o, entry
<1>9. /\ booked'[o] \in Seq([effect : Effects, price : Nat])
      /\ Len(booked'[o]) = 1 /\ booked'[o] # <<>> /\ booked'[o][1] = entry
      /\ \A p \in Orders \ {o} : booked'[p] = booked[p]
  <2>1. booked'[o] = <<entry>>
    BY <1>1, <1>2, <1>3, <1>5 DEF LedgerType
  <2>2. \A p \in Orders \ {o} : booked'[p] = booked[p]
    BY <1>1, <1>5 DEF LedgerType
  <2> QED
    BY <1>4, <2>1, <2>2
<1>10. TypeOK'
  <2>1. booked' \in [Orders -> Seq([effect : Effects, price : Nat])]
    BY <1>1, <1>5, <1>9 DEF LedgerType
  <2>2. LedgerType'
    BY <1>8, <2>1 DEF LedgerType
  <2>3. HistoryType' /\ ClientType'
    BY <1>5, TypeParts, SameHistory, SameClients DEF IInv
  <2> QED
    BY <1>1, <1>6, <1>7, <2>2, <2>3, SweepStepType, TypePartsNext
<1>11. ASSUME NEW p \in Orders
       PROVE  OrderInv(p)'
  <2>1. /\ OrderInv(p) /\ pushes'[p] = pushes[p]
        /\ state'[p] = "filled" => state[p] = "filled"
    BY <1>5, <1>7 DEF IInv, historyVars
  <2>2. CASE p # o
    BY <1>1, <1>7, <1>9, <2>1, <2>2, OrderFrame
  <2>3. CASE p = o
    <3>1. Reached(o, 3)' /\ Reached(o, 2)'
      <4>1. Stage(state[o]) >= 3 /\ Stage(state[o]) <= Stage(state'[o])
        BY <1>2, <1>3, <1>7 DEF Reached, Forward
      <4>2. Stage(state[o]) \in 0..4 /\ Stage(state'[o]) \in 0..4
        BY <1>1, <1>3, <1>7, StageFacts DEF OrdersType
      <4> QED
        BY <1>6, <4>1, <4>2 DEF Reached, o
    <3>2. pushes'[o] <= 1
      BY <2>1, <2>3 DEF OrderInv
    <3>3. TermsOf[o].type # "stop" =>
             LET price == booked'[o][1].price
             IN  IF TermsOf[o].side = "buy" THEN price <= TermsOf[o].limit
                 ELSE price >= TermsOf[o].limit
      BY <1>2, <1>3, <1>9, BooksWithinLimit DEF entry
    <3>4. Len(booked'[p]) = 1 /\ booked'[p] # <<>> /\ booked'[p][1] = entry
      BY <1>9, <2>3, Zenon
    <3>5. TermsOf[p].type # "stop" =>
             \A i \in 1..Len(booked'[p]) :
                LET price == booked'[p][i].price
                IN  IF TermsOf[p].side = "buy" THEN price <= TermsOf[p].limit
                    ELSE price >= TermsOf[p].limit
      <4>1. \A i \in 1..Len(booked'[p]) : i = 1
        BY <3>4
      <4> QED
        BY <1>9, <2>3, <3>3, <3>4, <4>1
    <3>6. Reached(p, 3)' /\ Reached(p, 2)'
      BY <2>3, <3>1, <1>6 DEF Reached, o
    <3>7. pushes'[p] <= 1
      BY <2>3, <3>2
    <3> QED
      BY <3>4, <3>5, <3>6, <3>7 DEF OrderInv
  <2> QED
    BY <2>2, <2>3
<1>12. SweepInv(s)' /\ ~InHand(s)' /\ ~Telling(s)'
  <2>1. Reached(Id(s), 3)'
    BY <1>3, <1>6, <1>9, <1>11 DEF OrderInv, Reached
  <2> QED
    BY <1>2, <1>6, <1>9, <2>1 DEF SweepInv, InHand, Telling
<1>13. \A v \in Sweeps \ {s} : InHand(v) => booked'[Id(v)] = booked[Id(v)]
  <2>1. ASSUME NEW v \in Sweeps \ {s}, InHand(v)
        PROVE  Id(v) \in Orders /\ Id(v) # o
    <3>1. sweep[v].todo # <<>>
      BY <2>1 DEF IInv, SweepInv, InHand
    <3> QED
      BY <1>1, <2>1, <3>1, HeadIsRead DEF IInv, OneHolder, o
  <2> QED
    BY <1>9, <2>1
<1>14. \A p \in Orders : booked[p] # <<>> => booked'[p] # <<>>
  BY <1>9
<1> QED
  BY <1>5, <1>6, <1>7, <1>10, <1>11, <1>12, <1>13, <1>14, SweepActs DEF historyVars

-----------------------------------------------------------------------------
(* The steps of the users' requests. *)

\* A step of one request, which may change the orders and the holding.
LEMMA ClientActs ==
    ASSUME IInv, TypeOK', Forward, NEW c \in Clients, NEW r, Ask(c, r),
           UNCHANGED <<booked, pushes, sweep>>, ClientInv(c)',
           \A o \in Orders : state'[o] = "filled" => state[o] = "filled" \/ booked[o] # <<>>,
           \A d \in Clients \ {c} : Working(d, "submitting") =>
               /\ state'[client[d].order] = state[client[d].order]
               /\ Working(c, "submitting")' => client'[c].order # client[d].order
    PROVE  IInv'
<1>0. OrdersType'
  BY DEF TypeOK, OrdersType
<1>1. OrdersType /\ OrdersType' /\ SweepType /\ ClientType
  BY <1>0, TypeParts DEF IInv
<1>2. \A d \in Clients \ {c} : client'[d] = client[d]
  BY <1>1 DEF Ask, ClientType
<1>3. ASSUME NEW s \in Sweeps
      PROVE  SweepInv(s)'
  <2>1. SweepInv(s)
    BY DEF IInv
  <2>2. sweep[s].pc = "booked" => booked'[Id(s)] # <<>>
    BY <2>1 DEF SweepInv
  <2> QED
    BY <1>1, <2>1, <2>2, SweepFrame
<1>4. ASSUME NEW o \in Orders
      PROVE  OrderInv(o)'
  BY <1>1, OrderFrame DEF IInv
<1>5. ASSUME NEW d \in Clients
      PROVE  ClientInv(d)'
  <2>1. CASE d # c
    BY <1>1, <1>2, <2>1, ClientFrame DEF IInv, Working
  <2> QED
    BY <2>1
<1>6. OneHolder' /\ OneTeller'
  BY DEF IInv, OneHolder, OneTeller, InHand, Telling, Id, At
<1>7. OneSubmitter'
  BY <1>2 DEF IInv, OneSubmitter, Working
<1> QED
  BY <1>3, <1>4, <1>5, <1>6, <1>7 DEF IInv

\* A step of a request that changes nothing but the request.
LEMMA ClientLooks ==
    ASSUME IInv, NEW c \in Clients, NEW r \in ClientStates, Ask(c, r),
           UNCHANGED <<orderVars, ledgerVars, historyVars, sweep>>, ClientInv(c)',
           \A d \in Clients \ {c} : Working(d, "submitting") /\ Working(c, "submitting")' =>
               client'[c].order # client[d].order
    PROVE  IInv' /\ Forward
<1>1. OrdersType /\ ClientType'
  BY TypeParts DEF IInv, Ask, ClientType
<1>2. TypeOK'
  BY <1>1, TypeParts, TypePartsNext, SameOrders, SameLedger, SameHistory, SameSweeps DEF IInv
<1>3. Forward
  BY <1>1, ForwardBy DEF orderVars
<1> QED
  BY <1>2, <1>3, ClientActs DEF orderVars, ledgerVars, historyVars

LEMMA AnsweredInv ==
    ASSUME ClientType, NEW c \in Clients, Answered(c)
    PROVE  /\ client'[c].pc = "idle" /\ ClientType' /\ Ask(c, IdleClient)
           /\ ClientInv(c)' /\ ~Working(c, "submitting")'
<1>1. client'[c].pc = "idle" /\ ClientType' /\ Ask(c, IdleClient)
  BY IdleClientType DEF Answered, Ask, ClientType, IdleClient
<1> QED
  BY <1>1 DEF ClientInv, Working

LEMMA AbandonInv == ASSUME IInv, NEW c \in Clients, Abandon(c) PROVE IInv' /\ Forward
<1>1. ClientType
  BY TypeParts DEF IInv
<1> QED
  BY <1>1, AnsweredInv, IdleClientType, ClientLooks DEF Abandon

LEMMA SubmitReadInv ==
    ASSUME IInv, NEW c \in Clients, NEW o \in Orders, SubmitRead(c, o)
    PROVE  IInv' /\ Forward
<1> DEFINE r == [IdleClient EXCEPT !.pc = "submitting", !.order = o, !.copy = holding]
<1>1. ClientType /\ LedgerType
  BY TypeParts DEF IInv
<1>2. /\ r \in ClientStates /\ r.pc = "submitting" /\ r.order = o
  BY <1>1, IdleClientType DEF ClientStates, IdleClient, LedgerType
<1>3. client'[c] = r /\ Ask(c, r)
  BY <1>1 DEF SubmitRead, Ask, ClientType
<1> HIDE DEF r
<1>4. ClientInv(c)'
  BY <1>2, <1>3 DEF SubmitRead, ClientInv, orderVars
<1>5. \A d \in Clients \ {c} : Working(d, "submitting") => client'[c].order # client[d].order
  BY <1>2, <1>3 DEF SubmitRead
<1> QED
  BY <1>2, <1>3, <1>4, <1>5, ClientLooks DEF SubmitRead

LEMMA CancelReadInv ==
    ASSUME IInv, NEW c \in Clients, NEW o \in Orders, CancelRead(c, o)
    PROVE  IInv' /\ Forward
<1> DEFINE r == [IdleClient EXCEPT !.pc = "cancelling", !.order = o]
<1>1. ClientType /\ OrdersType
  BY TypeParts DEF IInv
<1>2. /\ r \in ClientStates /\ r.pc = "cancelling" /\ r.order = o
  BY IdleClientType DEF ClientStates, IdleClient
<1>3. client'[c] = r /\ Ask(c, r)
  BY <1>1 DEF CancelRead, Ask, ClientType
<1> HIDE DEF r
<1>4. Reached(o, 1)
  BY <1>1, StageFacts DEF CancelRead, Reached, Live, OrdersType
<1>5. ClientInv(c)' /\ ~Working(c, "submitting")'
  BY <1>2, <1>3, <1>4 DEF CancelRead, ClientInv, Working, Reached, orderVars
<1> QED
  BY <1>2, <1>3, <1>5, ClientLooks DEF CancelRead

LEMMA CloseReadInv ==
    ASSUME IInv, NEW c \in Clients, CloseRead(c)
    PROVE  IInv' /\ Forward
<1>1. ClientType /\ OrdersType /\ holding \in Holding
  BY TypeParts DEF IInv, LedgerType
<1>2. PICK sold \in 1..holding.quantity :
          Ask(c, [IdleClient EXCEPT !.pc = "closing", !.sold = sold, !.copy = holding,
                                    !.orphans = Orphans(holding.quantity - sold)])
  BY DEF CloseRead
<1> DEFINE orphans == Orphans(holding.quantity - sold)
           r == [IdleClient EXCEPT !.pc = "closing", !.sold = sold, !.copy = holding,
                                   !.orphans = orphans]
<1>3. orphans \subseteq Orders /\ \A o \in orphans : state[o] \in Live
  BY DEF Orphans
<1>4. \A o \in orphans : Reached(o, 1)
  BY <1>1, <1>3, StageFacts DEF Reached, Live, OrdersType
<1>5. sold \in Nat /\ sold <= holding.quantity
  BY <1>1 DEF Holding
<1>6. /\ r \in ClientStates /\ r.pc = "closing" /\ r.orphans = orphans
      /\ r.sold = sold /\ r.copy = holding
  BY <1>1, <1>3, <1>5, IdleClientType DEF ClientStates, IdleClient
<1>7. client'[c] = r /\ Ask(c, r)
  BY <1>1, <1>2 DEF Ask, ClientType
<1> HIDE DEF r, orphans
<1>8. ClientInv(c)' /\ ~Working(c, "submitting")'
  BY <1>4, <1>5, <1>6, <1>7 DEF CloseRead, ClientInv, Working, Reached, orderVars
<1> QED
  BY <1>6, <1>7, <1>8, ClientLooks DEF CloseRead

LEMMA SubmitInsertInv ==
    ASSUME IInv, NEW c \in Clients, SubmitInsert(c)
    PROVE  IInv' /\ Forward
<1> DEFINE o == client[c].order
<1>1. ClientType /\ OrdersType /\ HistoryType
  BY TypeParts DEF IInv
<1>2. o \in Orders /\ state[o] = "unplaced"
  BY DEF IInv, ClientInv, SubmitInsert, Working
<1>3. /\ ClientType' /\ Ask(c, IdleClient)
      /\ ClientInv(c)' /\ ~Working(c, "submitting")'
  BY <1>1, AnsweredInv DEF SubmitInsert
<1> HIDE DEF o
<1>4. /\ book' = Append(book, o) /\ state' = [state EXCEPT ![o] = "working"]
      /\ timer' = [timer EXCEPT ![o] = Life]
      /\ UNCHANGED <<reason, ledgerVars, historyVars, sweep>>
  BY DEF SubmitInsert, o
<1>5. TypeOK'
  <2>1. book' \in Seq(Orders)
    BY <1>1, <1>2, <1>4, AppendProperties DEF OrdersType
  <2>2. Life \in 0..(Life + Stale)
    BY OrdersAssumption
  <2>3. OrdersType'
    BY <1>1, <1>4, <2>1, <2>2 DEF OrdersType, States, Live
  <2>4. HistoryType'
    BY <1>1, <1>4, SameHistory
  <2>5. LedgerType' /\ SweepType'
    BY <1>4, TypeParts, SameLedger, SameSweeps DEF IInv
  <2> QED
    BY <1>3, <2>3, <2>4, <2>5, TypePartsNext
<1>6. Forward
  BY <1>1, <1>2, <1>4, ForwardBy DEF OrdersType
<1>7. \A p \in Orders : state'[p] = "filled" => state[p] = "filled"
  BY <1>1, <1>4 DEF OrdersType
<1>8. \A d \in Clients \ {c} :
         Working(d, "submitting") => state'[client[d].order] = state[client[d].order]
  <2>1. ASSUME NEW d \in Clients \ {c}, Working(d, "submitting")
        PROVE  client[d].order \in Orders /\ client[d].order # o
    BY <2>1 DEF IInv, ClientInv, OneSubmitter, Working, SubmitInsert, o
  <2> QED
    BY <1>1, <1>4, <2>1 DEF OrdersType
<1> QED
  BY <1>3, <1>4, <1>5, <1>6, <1>7, <1>8, ClientActs DEF ledgerVars, historyVars

LEMMA CancelCommitInv ==
    ASSUME IInv, NEW c \in Clients, CancelCommit(c)
    PROVE  IInv' /\ Forward
<1> DEFINE o == client[c].order
<1>1. ClientType /\ OrdersType /\ HistoryType
  BY TypeParts DEF IInv
<1>2. o \in Orders /\ state[o] # "unplaced"
  BY DEF IInv, ClientInv, CancelCommit, Working, Reached, Stage
<1>3. /\ ClientType' /\ Ask(c, IdleClient)
      /\ ClientInv(c)' /\ ~Working(c, "submitting")'
  BY <1>1, AnsweredInv DEF CancelCommit
<1> HIDE DEF o
<1>4. /\ state' \in [Orders -> States] /\ timer' \in [Orders -> 0..(Life + Stale)]
      /\ Forward
      /\ \A p \in Orders : state'[p] = IF p = o THEN "cancelled" ELSE state[p]
  BY <1>1, LeaveFacts DEF CancelCommit, Terminal, o
<1>5. TypeOK'
  <2>1. OrdersType'
    BY <1>1, <1>4 DEF OrdersType, CancelCommit
  <2>2. HistoryType'
    BY <1>1, <1>2 DEF HistoryType, CancelCommit, o
  <2>3. LedgerType' /\ SweepType'
    BY TypeParts, SameLedger, SameSweeps DEF IInv, CancelCommit
  <2> QED
    BY <1>3, <2>1, <2>2, <2>3, TypePartsNext
<1>6. \A p \in Orders : state'[p] = "filled" => state[p] = "filled"
  BY <1>4
<1>7. \A d \in Clients \ {c} :
         Working(d, "submitting") => state'[client[d].order] = state[client[d].order]
  BY <1>2, <1>4 DEF IInv, ClientInv, Working
<1> QED
  BY <1>3, <1>4, <1>5, <1>6, <1>7, ClientActs DEF CancelCommit, ledgerVars

LEMMA CloseCommitInv ==
    ASSUME IInv, NEW c \in Clients, CloseCommit(c)
    PROVE  IInv' /\ Forward
<1> DEFINE orphans == client[c].orphans
<1>1. ClientType /\ OrdersType /\ LedgerType /\ client[c] \in ClientStates
  BY TypeParts DEF IInv, ClientType
<1>2. /\ \A o \in orphans : Reached(o, 1)
      /\ client[c].sold <= client[c].copy.quantity
      /\ client[c].sold \in Nat /\ client[c].copy \in Holding /\ orphans \subseteq Orders
  BY <1>1 DEF IInv, ClientInv, CloseCommit, Working, ClientStates
<1>3. /\ ClientType' /\ Ask(c, IdleClient)
      /\ ClientInv(c)' /\ ~Working(c, "submitting")'
  BY <1>1, AnsweredInv DEF CloseCommit
<1> HIDE DEF orphans
<1>4. /\ OrdersType' /\ Forward
      /\ \A o \in Orders : state'[o] = IF o \in orphans THEN "cancelled" ELSE state[o]
  BY <1>1, RetireFacts DEF CloseCommit, orphans
<1>5. TypeOK'
  <2>1. holding' \in Holding
    BY <1>1, <1>2, SellWriteType DEF CloseCommit, LedgerType
  <2>2. LedgerType'
    BY <1>1, <2>1 DEF LedgerType, CloseCommit
  <2>3. HistoryType' /\ SweepType'
    BY TypeParts, SameHistory, SameSweeps DEF IInv, CloseCommit
  <2> QED
    BY <1>3, <1>4, <2>2, <2>3, TypePartsNext
<1>6. \A o \in orphans : state[o] # "unplaced"
  BY <1>2 DEF Reached, Stage
<1>7. \A o \in Orders : state'[o] = "filled" => state[o] = "filled"
  BY <1>4
<1>8. \A d \in Clients \ {c} :
         Working(d, "submitting") => state'[client[d].order] = state[client[d].order]
  BY <1>4, <1>6 DEF IInv, ClientInv, Working
<1> QED
  BY <1>3, <1>4, <1>5, <1>7, <1>8, ClientActs DEF CloseCommit, historyVars

LEMMA TickInv == ASSUME IInv, Tick PROVE IInv' /\ Forward
<1>1. OrdersType /\ SweepType
  BY TypeParts DEF IInv
<1>2. OrdersType'
  <2>1. ASSUME NEW o \in Orders
        PROVE  timer'[o] \in 0..(Life + Stale)
    BY <1>1, OrdersAssumption DEF OrdersType, Tick, Earlier
  <2>2. timer' \in [Orders -> 0..(Life + Stale)]
    BY <2>1 DEF Tick
  <2> QED
    BY <1>1, <2>2 DEF OrdersType, Tick
<1>3. ASSUME NEW s \in Sweeps
      PROVE  /\ sweep'[s] \in SweepStates
             /\ sweep'[s].pc = sweep[s].pc /\ sweep'[s].todo = sweep[s].todo
             /\ sweep'[s].mark = sweep[s].mark /\ sweep'[s].effect = sweep[s].effect
             /\ sweep'[s].orphans = sweep[s].orphans
  <2>1. sweep[s] \in SweepStates
    BY <1>1 DEF SweepType
  <2>2. Earlier(sweep[s].late + 1, Stale) \in 0..Stale
    BY <2>1, OrdersAssumption DEF SweepStates, Earlier
  <2>3. sweep'[s] = IF sweep[s].pc = "idle" THEN sweep[s]
                    ELSE [sweep[s] EXCEPT !.late = Earlier(sweep[s].late + 1, Stale)]
    BY DEF Tick
  <2> QED
    BY <2>1, <2>2, <2>3 DEF SweepStates
<1>4. TypeOK'
  <2>1. SweepType'
    BY <1>3 DEF Tick, SweepType
  <2>2. LedgerType' /\ HistoryType' /\ ClientType'
    BY TypeParts, SameLedger, SameHistory, SameClients DEF IInv, Tick
  <2> QED
    BY <1>2, <2>1, <2>2, TypePartsNext
<1>5. Forward
  BY <1>1, ForwardBy DEF Tick
<1>6. ASSUME NEW s \in Sweeps
      PROVE  SweepInv(s)'
  <2>1. SweepInv(s)
    BY DEF IInv
  <2>2. sweep[s].pc = "booked" => booked'[Id(s)] # <<>>
    BY <2>1 DEF SweepInv, Tick, ledgerVars
  <2> QED
    BY <1>1, <1>2, <1>3, <1>5, <2>1, <2>2, SweepFrame DEF Tick, ledgerVars, historyVars
<1>7. ASSUME NEW o \in Orders
      PROVE  OrderInv(o)'
  BY DEF IInv, OrderInv, Reached, Tick, ledgerVars, historyVars
<1>8. ASSUME NEW c \in Clients
      PROVE  ClientInv(c)'
  BY DEF IInv, ClientInv, Reached, Tick
<1>9. OneHolder' /\ OneTeller' /\ OneSubmitter'
  BY <1>3 DEF IInv, OneHolder, OneTeller, OneSubmitter, InHand, Telling, Id, At, Working, Tick
<1> QED
  BY <1>4, <1>5, <1>6, <1>7, <1>8, <1>9 DEF IInv

-----------------------------------------------------------------------------
(* The theorems. *)

LEMMA InitInv == Init => IInv
<1> SUFFICES ASSUME Init PROVE IInv
  OBVIOUS
<1>1. /\ \A s \in Sweeps : sweep[s] = IdleSweep /\ sweep[s].pc = "idle"
      /\ \A c \in Clients : client[c] = IdleClient /\ client[c].pc = "idle"
      /\ \A o \in Orders : state[o] = "unplaced" /\ booked[o] = <<>> /\ pushes[o] = 0
  BY DEF Init, IdleSweep, IdleClient
<1>2. TypeOK
  <2>1. 0 \in 0..(Life + Stale)
    BY OrdersAssumption
  <2>2. OrdersType
    BY <2>1 DEF Init, OrdersType, States, Reasons
  <2>3. LedgerType
    BY OrdersAssumption DEF Init, LedgerType, Holding
  <2>4. HistoryType
    BY DEF Init, HistoryType
  <2>5. SweepType /\ ClientType
    BY IdleSweepType, IdleClientType DEF Init, SweepType, ClientType
  <2> QED
    BY <2>2, <2>3, <2>4, <2>5, TypeParts
<1>3. \A s \in Sweeps : SweepInv(s) /\ ~InHand(s) /\ ~Telling(s)
  BY <1>1 DEF SweepInv, InHand, Telling
<1>4. \A o \in Orders : OrderInv(o)
  BY <1>1 DEF OrderInv, Reached, Stage
<1>5. \A c \in Clients : ClientInv(c) /\ ~Working(c, "submitting")
  BY <1>1 DEF ClientInv, Working
<1> QED
  BY <1>2, <1>3, <1>4, <1>5 DEF IInv, OneHolder, OneTeller, OneSubmitter

LEMMA NextInv == IInv /\ [Next]_vars => IInv' /\ Forward
<1> SUFFICES ASSUME IInv, [Next]_vars PROVE IInv' /\ Forward
  OBVIOUS
<1>1. ASSUME NEW s \in Sweeps, BeginSweep(s) \/ Proceed(s) \/ Die(s)
      PROVE  IInv' /\ Forward
  BY <1>1, BeginSweepInv, DieInv, ReadBookInv, WaitInv, StampTriggeredInv, TellTriggeredInv,
     ClaimInv, DecideInv, OpenBookingInv, CommitBookingInv, RefuseInv, StampFilledInv,
     StampRejectedInv
     DEF Proceed
<1>2. ASSUME NEW c \in Clients, Serve(c)
      PROVE  IInv' /\ Forward
  BY <1>2, SubmitReadInv, CancelReadInv, SubmitInsertInv, CancelCommitInv, CloseReadInv,
     CloseCommitInv, AbandonInv
     DEF Serve
<1>3. CASE Tick
  BY <1>3, TickInv
<1>4. CASE UNCHANGED vars
  <2>1. OrdersType
    BY TypeParts DEF IInv
  <2>2. Forward
    BY <1>4, <2>1, ForwardBy DEF vars, orderVars
  <2>3. TypeOK'
    BY <1>4 DEF IInv, TypeOK, vars, orderVars, ledgerVars, historyVars
  <2>4. \A s \in Sweeps : SweepInv(s)'
    BY <1>4 DEF IInv, SweepInv, InHand, Telling, Reached, Id, At, PhaseOne, LimitFires, Fires,
                Triggered, vars, orderVars, ledgerVars, historyVars
  <2>5. /\ \A o \in Orders : OrderInv(o)'
        /\ \A c \in Clients : ClientInv(c)'
    BY <1>4 DEF IInv, OrderInv, ClientInv, Reached, vars, orderVars, ledgerVars, historyVars
  <2>6. OneHolder' /\ OneTeller' /\ OneSubmitter'
    BY <1>4 DEF IInv, OneHolder, OneTeller, OneSubmitter, InHand, Telling, Id, At, Working, vars
  <2> QED
    BY <2>2, <2>3, <2>4, <2>5, <2>6 DEF IInv
<1> QED
  BY <1>1, <1>2, <1>3, <1>4 DEF Next

LEMMA Inductive == Spec => []IInv
  BY InitInv, NextInv, PTL DEF Spec

\* The types of the book, the ledger and every half-done sweep and request.
THEOREM TypeCorrect == Spec => []TypeOK
<1>1. IInv => TypeOK
  BY DEF IInv
<1> QED
  BY <1>1, Inductive, PTL

\* The claim is the duplicate guard: with any number of sweeps, of crashes and
\* of reaped claims, the ledger moves at most once for an order.
THEOREM OneFillEver == Spec => []AtMostOneFill
<1>1. IInv => AtMostOneFill
  BY DEF IInv, OrderInv, AtMostOneFill
<1> QED
  BY <1>1, Inductive, PTL

\* Shown filled means booked, and booked means never claimable again, however
\* the stamps, the cancels and the retirement of orphans overtake each other.
THEOREM BookAndLedger == Spec => []LedgerAgrees
<1>1. IInv => LedgerAgrees
  <2>1. ASSUME IInv, NEW o \in Orders, booked[o] # <<>>
        PROVE  state[o] \in Terminal \cup {"filling"}
    BY <2>1, StageFacts DEF IInv, TypeOK, OrderInv, Reached
  <2> QED
    BY <2>1 DEF IInv, OrderInv, LedgerAgrees
<1> QED
  BY <1>1, Inductive, PTL

\* No order books beyond its limit, whatever phase a sweep read it in and
\* whatever mark it carries from its read to its commit.
THEOREM LimitsHold == Spec => []LimitHonoured
<1>1. IInv => LimitHonoured
  <2>1. ASSUME IInv, NEW o \in Orders, NEW i \in 1..2, i <= Len(booked[o])
        PROVE  i \in 1..Len(booked[o])
    <3>1. Len(booked[o]) \in Nat
      BY <2>1, LenProperties DEF IInv, TypeOK
    <3> QED
      BY <2>1, <3>1
  <2> QED
    BY <2>1 DEF IInv, OrderInv, LimitHonoured
<1> QED
  BY <1>1, Inductive, PTL

\* The trigger of a stop-limit is told at most once.
THEOREM OnePushEver == Spec => []OneTriggerPush
<1>1. IInv => OneTriggerPush
  BY DEF IInv, OrderInv, OneTriggerPush
<1> QED
  BY <1>1, Inductive, PTL

\* No step of any sweep, request or reaper takes an order back a stage.
THEOREM NoWayBack == Spec => NeverBackInTheBook
<1>1. IInv /\ [Next]_vars => [\A o \in Orders : Stage(state[o]) <= Stage(state'[o])]_vars
  BY NextInv DEF Forward
<1> QED
  BY <1>1, Inductive, PTL DEF Spec, NeverBackInTheBook
=============================================================================
