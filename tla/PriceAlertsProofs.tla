-------------------------- MODULE PriceAlertsProofs --------------------------
(***************************************************************************)
(* Proofs about PriceAlerts, for any number of alerts, clients and         *)
(* evaluators, any cap and any number of faults: the type invariant, that  *)
(* an alert fires once, that a confirmed cancel is final, and that making  *)
(* room for a new alert never closes one of the newest Cap.                *)
(*                                                                         *)
(* The inductive invariant adds what the open transactions rely on: the    *)
(* alert a create inserts is nobody else's and has no status before its    *)
(* commit, the alert of an open cancel has left that state, and an alert   *)
(* about to be closed for room has Cap younger ones.                       *)
(***************************************************************************)
EXTENDS PriceAlerts, FiniteSetTheorems, TLAPS

(* An alert that can still fire has not fired, and none fires twice.       *)
Fires ==
    \A a \in Alerts :
        /\ fires[a] <= 1
        /\ status[a] \in {"none", "active"} => fires[a] = 0

(* A confirmed cancel left a cancelled row.                                *)
Confirmed == \A a \in confirmed : status[a] = "cancelled"

(* Numbers that were not given out have no row.                            *)
Numbered == \A a \in Alerts : a > newest => status[a] = "none"

(* What an open transaction may say of its alert.                          *)
Open(c) ==
    /\ client[c].pc # "idle" => client[c].own \in Alerts
    /\ client[c].pc = "create" => /\ status[client[c].own] = "none"
                                  /\ client[c].own <= newest
    /\ client[c].pc = "cancel" => status[client[c].own] # "none"
    /\ \A a \in client[c].close :
        /\ client[c].pc = "create"
        /\ a = client[c].own \/ status[a] # "none"
        /\ newest - a >= Cap

Opened ==
    /\ \A c \in Clients : Open(c)
    /\ \A c, d \in Clients :
        c # d /\ client[c].pc = "create" /\ client[d].pc = "create"
            => client[c].own # client[d].own

Aimed == \A e \in Evaluators : tick[e].pc = "fire" => tick[e].at \in Alerts

IInv == TypeOK /\ Fires /\ Confirmed /\ Numbered /\ Opened /\ Aimed

-----------------------------------------------------------------------------
(* _enforce_active_cap closes an alert only if Cap numbers above it have   *)
(* been given out.                                                         *)
LEMMA OverflowIsOld ==
    ASSUME NEW n \in Nat, NEW active \in SUBSET (1 .. n), NEW a \in Overflow(active)
    PROVE  n - a >= Cap
<1> DEFINE younger == {b \in active : b > a}
<1>1. a \in 1 .. n /\ Cardinality(younger) >= Cap
  BY DEF Overflow
<1>2. IsFiniteSet((a + 1) .. n) /\ Cardinality((a + 1) .. n) = n - a
  <2>1. /\ IsFiniteSet((a + 1) .. n)
        /\ Cardinality((a + 1) .. n) = IF a + 1 > n THEN 0 ELSE n - (a + 1) + 1
    BY <1>1, FS_Interval
  <2>. QED  BY <2>1, <1>1
<1>3. younger \subseteq (a + 1) .. n
  <2>1. \A b \in active : b > a => b \in (a + 1) .. n
    BY <1>1
  <2>. QED  BY <2>1
<1>4. Cardinality(younger) <= n - a /\ Cardinality(younger) \in Nat
  BY <1>2, <1>3, FS_Subset, FS_CardinalityType
<1>. QED
  BY <1>1, <1>4, CapAssumption

LEMMA InitIInv == Init => IInv
  BY CapAssumption DEF Init, IInv, TypeOK, Fires, Confirmed, Numbered, Opened,
     Open, Aimed, Idle, Waiting, Alerts

-----------------------------------------------------------------------------
(* Steps of an evaluator but Fire, and of the market, move nothing the     *)
(* store's part of the invariant speaks of.                                *)
StoreIInv == Fires /\ Confirmed /\ Numbered /\ Opened

TickType ==
    tick \in [Evaluators ->
                [pc : {"idle", "quote", "alerts", "fire"},
                 todo : SUBSET Alerts,
                 seen : {None, "low", "between", "high"},
                 at : Alerts \cup {None}]]

StoreType ==
    /\ status \in [Alerts -> {"none", "active", "fired", "cancelled"}]
    /\ newest \in 0 .. MaxAlerts
    /\ client \in [Clients -> [pc : {"idle", "create", "cancel"},
                               own : Alerts \cup {None}, close : SUBSET Alerts]]
    /\ fires \in [Alerts -> Nat]
    /\ confirmed \in SUBSET Alerts

MarketType ==
    /\ price \in {"low", "between", "high"} /\ allowed \in BOOLEAN
    /\ trouble \in 0 .. MaxTrouble

LEMMA Parts ==
    IInv <=> StoreType /\ StoreIInv /\ TickType /\ Aimed /\ MarketType
  BY DEF IInv, TypeOK, StoreType, StoreIInv, TickType, MarketType

LEMMA PartsNext ==
    IInv' <=> StoreType' /\ StoreIInv' /\ TickType' /\ Aimed' /\ MarketType'
  BY DEF IInv, TypeOK, StoreType, StoreIInv, TickType, MarketType

LEMMA SameStore ==
    ASSUME StoreType, StoreIInv, UNCHANGED <<rows, client, history>>
    PROVE  StoreType' /\ StoreIInv'
  BY DEF StoreType, StoreIInv, Fires, Confirmed, Numbered, Opened, Open, rows,
     history

LEMMA SameTick ==
    ASSUME TickType, Aimed, UNCHANGED tick PROVE TickType' /\ Aimed'
  BY DEF TickType, Aimed

LEMMA SameMarket ==
    ASSUME MarketType, UNCHANGED <<market, trouble>> PROVE MarketType'
  BY DEF MarketType, market

LEMMA NextAlertType ==
    ASSUME TickType, Aimed, NEW e \in Evaluators, NextAlert(e)
    PROVE  TickType' /\ Aimed'
  BY DEF TickType, Aimed, NextAlert

LEMMA FailType == ASSUME MarketType, Fail, UNCHANGED market PROVE MarketType'
  BY CapAssumption DEF MarketType, Fail, market

LEMMA WaitingType ==
    ASSUME TickType, Aimed, NEW e \in Evaluators,
           tick' = [tick EXCEPT ![e] = Waiting]
    PROVE  TickType' /\ Aimed'
  BY DEF TickType, Aimed, Waiting

-----------------------------------------------------------------------------
(* Every step keeps the invariant.                                         *)
LEMMA CreateKeeps ==
    ASSUME StoreType, StoreIInv, NEW c \in Clients, Create(c)
    PROVE  StoreType' /\ StoreIInv'
<1> USE DEF Create, history
<1> DEFINE n == newest + 1
<1>1. n \in Alerts /\ n \in Nat /\ newest \in Nat /\ Alerts = 1 .. MaxAlerts
  BY CapAssumption DEF StoreType, Alerts
<1>2. status[n] = "none"
  BY <1>1 DEF StoreIInv, Numbered
<1>3. Active \subseteq Alerts /\ Active \cup {n} \in SUBSET (1 .. n)
  BY <1>1 DEF Active, StoreIInv, Numbered
<1>4. \A a \in Overflow(Active \cup {n}) : n - a >= Cap
  BY <1>1, <1>3, OverflowIsOld
<1>5. /\ Overflow(Active \cup {n}) \subseteq Alerts
      /\ \A a \in Overflow(Active \cup {n}) : a = n \/ status[a] # "none"
  BY <1>1, <1>3 DEF Overflow, Active
<1>6. /\ client' = [client EXCEPT ![c] =
             [pc |-> "create", own |-> n, close |-> Overflow(Active \cup {n})]]
      /\ newest' = n
  OBVIOUS
<1> HIDE DEF n
<1>7. StoreType'
  BY <1>1, <1>5, <1>6 DEF StoreType, Alerts
<1>8. Fires' /\ Confirmed'
  BY DEF StoreIInv, Fires, Confirmed
<1>9. Numbered'
  BY <1>1, <1>6 DEF StoreIInv, Numbered, n
<1>10. Open(c)'
  <2> DEFINE old == Overflow(Active \cup {n})
  <2>1. client'[c] = [pc |-> "create", own |-> n, close |-> old]
    BY <1>6 DEF StoreType
  <2>2. status' = status /\ newest' = n
    BY <1>6
  <2>3. \A a \in old : (a = n \/ status[a] # "none") /\ n - a >= Cap
    BY <1>4, <1>5
  <2> HIDE DEF old, Create
  <2>4. client'[c].pc = "create" /\ client'[c].own = n /\ client'[c].close = old
    BY <2>1
  <2>. QED  BY <1>1, <1>2, <2>2, <2>3, <2>4 DEF Open
<1>11. ASSUME NEW d \in Clients, d # c PROVE Open(d)'
  <2>1. client'[d] = client[d] /\ Open(d)
    BY <1>6, <1>11 DEF StoreIInv, Opened, StoreType
  <2>2. client[d].close \subseteq Alerts /\ Cap \in Nat /\ Alerts \subseteq Nat
    BY CapAssumption DEF StoreType, Alerts
  <2>3. newest' = newest + 1 /\ newest \in Nat
    BY <1>1, <1>6 DEF n
  <2> HIDE DEF Create
  <2>4. ASSUME NEW a \in client[d].close PROVE newest' - a >= Cap
    <3>1. newest - a >= Cap /\ a \in Nat
      BY <2>1, <2>2, <2>4 DEF Open
    <3>. QED  BY <2>2, <2>3, <3>1
  <2>5. ASSUME client[d].pc = "create" PROVE client[d].own <= newest'
    <3>1. client[d].own <= newest /\ client[d].own \in Nat
      BY <2>1, <2>2, <2>5 DEF Open
    <3>. QED  BY <2>3, <3>1
  <2>6. status' = status
    BY DEF Create
  <2>. QED  BY <2>1, <2>4, <2>5, <2>6 DEF Open
<1>12. ASSUME NEW d \in Clients, d # c, client[d].pc = "create"
       PROVE  client[d].own # n
  BY <1>1, <1>12 DEF StoreIInv, Opened, Open, Alerts, n
<1>13. Opened'
  <2>1. \A d \in Clients : Open(d)'
    BY <1>10, <1>11
  <2>2. \A b, d \in Clients :
           b # d /\ client'[b].pc = "create" /\ client'[d].pc = "create"
               => client'[b].own # client'[d].own
    BY <1>6, <1>12 DEF StoreIInv, Opened, StoreType
  <2>. QED  BY <2>1, <2>2 DEF Opened
<1>. QED  BY <1>7, <1>8, <1>9, <1>13 DEF StoreIInv

LEMMA CommitCreateKeeps ==
    ASSUME StoreType, StoreIInv, NEW c \in Clients, CommitCreate(c)
    PROVE  StoreType' /\ StoreIInv'
<1> USE DEF CommitCreate
<1>1. /\ client[c].own \in Alerts /\ status[client[c].own] = "none"
      /\ client[c].own <= newest
      /\ \A a \in client[c].close : a = client[c].own \/ status[a] # "none"
  BY DEF StoreIInv, Opened, Open
<1>2. StoreType'
  BY <1>1 DEF StoreType, Idle
<1>3. Fires'
  BY <1>1 DEF StoreIInv, Fires, StoreType
<1>4. Confirmed'
  BY <1>1 DEF StoreIInv, Confirmed, StoreType
<1>5. Numbered'
  <2> SUFFICES ASSUME NEW a \in Alerts, a > newest PROVE status'[a] = "none"
    BY DEF Numbered
  <2>1. status[a] = "none" /\ a # client[c].own
    BY <1>1 DEF StoreIInv, Numbered, StoreType, Alerts
  <2>2. a \notin client[c].close
    BY <1>1, <2>1
  <2>. QED  BY <2>1, <2>2
<1>6. ASSUME NEW d \in Clients PROVE Open(d)'
  <2>1. CASE d = c
    BY <2>1 DEF Open, Idle, StoreType
  <2>2. CASE d # c
    <3>1. client'[d] = client[d] /\ Open(d)
      BY <2>2 DEF StoreIInv, Opened, StoreType
    <3>2. client[d].pc = "create" => status'[client[d].own] = "none"
      BY <1>1, <2>2, <3>1 DEF StoreIInv, Opened, Open
    <3>3. client[d].pc = "cancel" => status'[client[d].own] # "none"
      BY <3>1 DEF Open
    <3>4. \A a \in client[d].close : a = client[d].own \/ status'[a] # "none"
      BY <3>1 DEF Open, StoreType
    <3>. QED  BY <3>1, <3>2, <3>3, <3>4 DEF Open
  <2>. QED  BY <2>1, <2>2
<1>7. Opened'
  BY <1>6 DEF StoreIInv, Opened, StoreType, Idle
<1>. QED  BY <1>2, <1>3, <1>4, <1>5, <1>7 DEF StoreIInv

LEMMA CancelKeeps ==
    ASSUME StoreType, StoreIInv, NEW c \in Clients, NEW a \in Alerts, Cancel(c, a)
    PROVE  StoreType' /\ StoreIInv'
<1> USE DEF Cancel, rows, history
<1>1. StoreType'
  BY DEF StoreType
<1>2. Fires' /\ Confirmed' /\ Numbered'
  BY DEF StoreIInv, Fires, Confirmed, Numbered
<1>3. Opened'
  BY DEF StoreIInv, Opened, Open, StoreType
<1>. QED  BY <1>1, <1>2, <1>3 DEF StoreIInv

LEMMA CommitCancelKeeps ==
    ASSUME StoreType, StoreIInv, NEW c \in Clients, CommitCancel(c)
    PROVE  StoreType' /\ StoreIInv'
<1> USE DEF CommitCancel
<1>1. client[c].own \in Alerts /\ status[client[c].own] # "none"
  BY DEF StoreIInv, Opened, Open
<1>2. StoreType'
  BY <1>1 DEF StoreType, Idle
<1>3. Fires'
  BY <1>1 DEF StoreIInv, Fires, StoreType
<1>4. Confirmed'
  BY <1>1 DEF StoreIInv, Confirmed, StoreType
<1>5. Numbered'
  BY <1>1 DEF StoreIInv, Numbered, StoreType
<1>6. ASSUME NEW d \in Clients PROVE Open(d)'
  <2>1. CASE d = c
    BY <2>1 DEF Open, Idle, StoreType
  <2>2. CASE d # c
    BY <1>1, <2>2 DEF StoreIInv, Opened, Open, StoreType
  <2>. QED  BY <2>1, <2>2
<1>7. Opened'
  BY <1>6 DEF StoreIInv, Opened, StoreType, Idle
<1>. QED  BY <1>2, <1>3, <1>4, <1>5, <1>7 DEF StoreIInv

LEMMA RollBackKeeps ==
    ASSUME StoreType, StoreIInv, NEW c \in Clients, RollBack(c)
    PROVE  StoreType' /\ StoreIInv'
<1> USE DEF RollBack, rows, history
<1>1. StoreType'
  BY DEF StoreType, Idle
<1>2. Fires' /\ Confirmed' /\ Numbered'
  BY DEF StoreIInv, Fires, Confirmed, Numbered
<1>3. Opened'
  BY DEF StoreIInv, Opened, Open, StoreType, Idle
<1>. QED  BY <1>1, <1>2, <1>3 DEF StoreIInv

LEMMA FireKeeps ==
    ASSUME StoreType, StoreIInv, TickType, Aimed, NEW e \in Evaluators, Fire(e)
    PROVE  StoreType' /\ StoreIInv' /\ TickType' /\ Aimed'
<1>1. TickType' /\ Aimed'
  BY NextAlertType DEF Fire
<1>2. CASE status[tick[e].at] # "active"
  BY <1>1, <1>2, SameStore DEF Fire, rows, history
<1>3. CASE status[tick[e].at] = "active"
  <2> DEFINE a == tick[e].at
  <2>1. /\ a \in Alerts /\ status[a] = "active"
        /\ status' = [status EXCEPT ![a] = "fired"]
        /\ fires' = [fires EXCEPT ![a] = @ + 1]
        /\ UNCHANGED <<newest, client, confirmed>>
    BY <1>3 DEF Fire, Aimed
  <2> HIDE DEF a
  <2>2. StoreType'
    BY <2>1 DEF StoreType
  <2>3. Fires'
    BY <2>1 DEF StoreIInv, Fires, StoreType
  <2>4. Confirmed'
    BY <2>1 DEF StoreIInv, Confirmed, StoreType
  <2>5. Numbered'
    BY <2>1 DEF StoreIInv, Numbered, StoreType
  <2>6. Opened'
    BY <2>1 DEF StoreIInv, Opened, Open, StoreType
  <2>. QED  BY <1>1, <2>2, <2>3, <2>4, <2>5, <2>6 DEF StoreIInv
<1>. QED  BY <1>2, <1>3

LEMMA QuietTickType ==
    ASSUME TickType, Aimed, NEW e \in Evaluators,
           \/ BeginTick(e) \/ Quote(e) \/ NoQuote(e)
           \/ \E a \in Alerts : Examine(e, a)
           \/ Error(e) \/ EndTick(e) \/ Die(e), MarketType
    PROVE  TickType' /\ Aimed'
<1>1. CASE BeginTick(e)
  BY <1>1 DEF BeginTick, TickType, Aimed, Active
<1>2. CASE Quote(e)
  BY <1>2 DEF Quote, TickType, Aimed, MarketType
<1>3. CASE NoQuote(e) \/ EndTick(e) \/ Die(e)
  BY <1>3, WaitingType DEF NoQuote, EndTick, Die
<1>4. ASSUME NEW a \in Alerts, Examine(e, a) PROVE TickType' /\ Aimed'
  <2> DEFINE fire == Breached(a, tick[e].seen) /\ allowed
             left == tick[e].todo \ {a}
  <2>1. tick' = [tick EXCEPT ![e].pc = IF fire THEN "fire" ELSE "alerts",
                             ![e].todo = left,
                             ![e].at = IF fire THEN a ELSE None]
    BY <1>4 DEF Examine
  <2>2. left \in SUBSET Alerts
    BY DEF TickType
  <2> HIDE DEF fire, left
  <2>3. CASE fire
    <3> DEFINE new == [tick[e] EXCEPT !.pc = "fire", !.todo = left, !.at = a]
    <3>1. tick' = [tick EXCEPT ![e] = new]
      BY <2>1, <2>3
    <3>2. /\ new \in [pc : {"idle", "quote", "alerts", "fire"}, todo : SUBSET Alerts,
                    seen : {None, "low", "between", "high"},
                    at : Alerts \cup {None}]
          /\ new.pc = "fire" /\ new.at = a
      BY <2>2 DEF TickType
    <3> HIDE DEF new
    <3>3. TickType'
      BY <3>1, <3>2 DEF TickType
    <3>4. Aimed'
      BY <3>1, <3>2 DEF Aimed, TickType
    <3>. QED  BY <3>3, <3>4
  <2>4. CASE ~fire
    <3> DEFINE new == [tick[e] EXCEPT !.pc = "alerts", !.todo = left, !.at = None]
    <3>1. tick' = [tick EXCEPT ![e] = new]
      BY <2>1, <2>4
    <3>2. /\ new \in [pc : {"idle", "quote", "alerts", "fire"}, todo : SUBSET Alerts,
                    seen : {None, "low", "between", "high"},
                    at : Alerts \cup {None}]
          /\ new.pc = "alerts" /\ new.at = None
      BY <2>2 DEF TickType
    <3> HIDE DEF new
    <3>3. TickType'
      BY <3>1, <3>2 DEF TickType
    <3>4. Aimed'
      BY <3>1, <3>2 DEF Aimed, TickType
    <3>. QED  BY <3>3, <3>4
  <2>. QED  BY <2>3, <2>4
<1>5. CASE Error(e)
  BY <1>5, NextAlertType DEF Error
<1>. QED  BY <1>1, <1>2, <1>3, <1>4, <1>5

LEMMA Step == IInv /\ [Next]_vars => IInv'
<1> SUFFICES ASSUME StoreType, StoreIInv, TickType, Aimed, MarketType,
                    [Next]_vars
             PROVE  StoreType' /\ StoreIInv' /\ TickType' /\ Aimed' /\ MarketType'
  BY Parts, PartsNext
<1>1. ASSUME NEW c \in Clients, ClientStep(c)
      PROVE  StoreType' /\ StoreIInv' /\ UNCHANGED <<tick, market, trouble>>
  <2>1. StoreType' /\ StoreIInv'
    BY <1>1, CreateKeeps, CommitCreateKeeps, CancelKeeps, CommitCancelKeeps,
       RollBackKeeps DEF ClientStep
  <2>2. UNCHANGED <<tick, market, trouble>>
    BY <1>1 DEF ClientStep, Create, CommitCreate, Cancel, CommitCancel, RollBack
  <2>. QED  BY <2>1, <2>2
<1>2. ASSUME NEW e \in Evaluators, Fire(e)
      PROVE  /\ StoreType' /\ StoreIInv' /\ TickType' /\ Aimed'
             /\ UNCHANGED <<market, trouble>>
  BY <1>2, FireKeeps DEF Fire
<1>3. ASSUME NEW e \in Evaluators,
             \/ BeginTick(e) \/ Quote(e) \/ NoQuote(e)
             \/ \E a \in Alerts : Examine(e, a)
             \/ Error(e) \/ EndTick(e) \/ Die(e)
      PROVE  StoreType' /\ StoreIInv' /\ TickType' /\ Aimed' /\ MarketType'
  <2>1. TickType' /\ Aimed'
    BY <1>3, QuietTickType
  <2>2. UNCHANGED <<rows, client, history, market>>
    BY <1>3 DEF BeginTick, Quote, NoQuote, Examine, Error, EndTick, Die
  <2>3. Fail \/ UNCHANGED trouble
    BY <1>3 DEF BeginTick, Quote, NoQuote, Examine, Error, EndTick, Die
  <2>4. MarketType'
    BY <2>2, <2>3, FailType, SameMarket
  <2>. QED  BY <2>1, <2>2, <2>4, SameStore
<1>4. ASSUME Market \/ EditMandate
      PROVE  MarketType' /\ UNCHANGED <<rows, client, history, tick>>
  BY <1>4 DEF Market, EditMandate, MarketType, rows, history
<1>5. CASE UNCHANGED vars
  BY <1>5, SameStore, SameTick, SameMarket DEF vars
<1>6. CASE Next
  BY <1>1, <1>2, <1>3, <1>4, <1>6, SameStore, SameTick, SameMarket
     DEF Next, Evaluate
<1>. QED  BY <1>5, <1>6

LEMMA Inductive == Spec => []IInv
  BY InitIInv, Step, PTL DEF Spec

-----------------------------------------------------------------------------
(* The rows, transactions and evaluators stay well-formed whatever the     *)
(* number of clients, evaluators and alerts.                               *)
THEOREM TypeCorrect == Spec => []TypeOK
<1>1. IInv => TypeOK
  BY DEF IInv
<1>. QED  BY <1>1, Inductive, PTL

(* _fire_alert's conditional UPDATE is enough: however many evaluators     *)
(* work from however old a list, and whatever the clients cancel or close  *)
(* meanwhile, no alert fires twice.                                        *)
THEOREM FiresOnceHolds == Spec => []FiresOnce
<1>1. IInv => FiresOnce
  BY DEF IInv, Fires, FiresOnce
<1>. QED  BY <1>1, Inductive, PTL

(* After a cancel was confirmed no evaluator that listed the alert before  *)
(* fires it.                                                               *)
THEOREM CancelIsFinal == Spec => CancelledNeverFires
<1>1. ASSUME IInv, [Next]_vars, NEW a \in confirmed PROVE fires'[a] = fires[a]
  <2>1. status[a] = "cancelled" /\ a \in Alerts
    BY <1>1 DEF IInv, Confirmed, TypeOK
  <2>2. ASSUME NEW e \in Evaluators, Fire(e) PROVE fires'[a] = fires[a]
    BY <2>1, <2>2, <1>1 DEF Fire, IInv, TypeOK
  <2>3. \/ \E e \in Evaluators : Fire(e)
        \/ UNCHANGED fires
    BY <1>1 DEF Next, ClientStep, Evaluate, Create, CommitCreate, Cancel,
       CommitCancel, RollBack, BeginTick, Quote, NoQuote, Examine, Error,
       EndTick, Die, Market, EditMandate, history, vars
  <2>. QED  BY <2>2, <2>3
<1>2. IInv /\ [Next]_vars => [\A a \in confirmed : fires'[a] = fires[a]]_vars
  BY <1>1
<1>. QED  BY <1>2, Inductive, PTL DEF Spec, CancelledNeverFires

(* A create that makes room works from a list read before its commit; yet  *)
(* it never closes one of the newest Cap alerts.                           *)
THEOREM NewestAreKept == Spec => NewestSurvive
<1>1. ASSUME IInv, [Next]_vars, NEW a \in Alerts,
             status'[a] = "cancelled", a \notin confirmed'
      PROVE  status[a] = "cancelled" \/ newest - a >= Cap
  <2>1. ASSUME NEW c \in Clients, CommitCreate(c)
        PROVE  status[a] = "cancelled" \/ newest - a >= Cap
    BY <1>1, <2>1 DEF CommitCreate, IInv, Opened, Open, TypeOK
  <2>2. ASSUME NEW c \in Clients, CommitCancel(c)
        PROVE  status[a] = "cancelled"
    BY <1>1, <2>2 DEF CommitCancel, IInv, TypeOK
  <2>3. ASSUME NEW e \in Evaluators, Fire(e)
        PROVE  status[a] = "cancelled"
    BY <1>1, <2>3 DEF Fire, IInv, Aimed, TypeOK
  <2>4. \/ \E c \in Clients : CommitCreate(c) \/ CommitCancel(c)
        \/ \E e \in Evaluators : Fire(e)
        \/ UNCHANGED status
    BY <1>1 DEF Next, ClientStep, Evaluate, Create, Cancel, RollBack,
       BeginTick, Quote, NoQuote, Examine, Error, EndTick, Die, Market,
       EditMandate, rows, vars
  <2>. QED  BY <1>1, <2>1, <2>2, <2>3, <2>4
<1>2. IInv /\ [Next]_vars =>
        [\A a \in Alerts : status'[a] = "cancelled" /\ a \notin confirmed'
            => status[a] = "cancelled" \/ newest - a >= Cap]_vars
  BY <1>1
<1>. QED  BY <1>2, Inductive, PTL DEF Spec, NewestSurvive
=============================================================================
