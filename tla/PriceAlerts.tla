----------------------------- MODULE PriceAlerts -----------------------------
(***************************************************************************)
(* The price alerts of one user on one ticker                              *)
(* (services/price_alert_store.py, services/price_alert_evaluator.py): the *)
(* user creates and cancels them in worker threads, an evaluator fires     *)
(* them on a five-minute tick and hands each to notify().                  *)
(*                                                                         *)
(* A create and a cancel read rows without a lock and write them by id     *)
(* when they commit; the evaluator works from a list and a quote it read   *)
(* before a call to a language model for every alert.  Two processes can   *)
(* run side by side (a deployment, Cloud Run), each with its evaluator.    *)
(***************************************************************************)
EXTENDS Naturals, FiniteSets

CONSTANTS
    MaxAlerts,      \* bound on the alerts created; they are numbered in
                    \* the order of created_at
    Cap,            \* MAX_ACTIVE_ALERTS_PER_USER
    MaxTrouble,     \* bound on quotes that fail, fires that raise, restarts
    Clients,        \* worker threads that serve the user's requests
    Evaluators,
    Above,          \* alerts that watch the upper level; the others the lower
    None

Alerts == 1 .. MaxAlerts

ASSUME CapAssumption == MaxAlerts \in Nat /\ Cap \in Nat /\ MaxTrouble \in Nat

VARIABLES
    status,         \* none, active, fired or cancelled
    newest,         \* the number of the last alert that was inserted
    price,          \* the market: low, between or high
    allowed,        \* does the mandate let this ticker's alerts fire?
    client,         \* the transaction each client has open
    tick,           \* what each evaluator is doing
    trouble,        \* counts them
    fires,          \* history: how often an alert was fired
    confirmed       \* history: alerts whose cancel was answered with 200

history == <<fires, confirmed>>
rows == <<status, newest>>
market == <<price, allowed>>
vars == <<rows, market, client, tick, trouble, history>>

Idle == [pc |-> "idle", own |-> None, close |-> {}]
Waiting == [pc |-> "idle", todo |-> {}, seen |-> None, at |-> None]

Init ==
    /\ status = [a \in Alerts |-> "none"] /\ newest = 0
    /\ price \in {"low", "between", "high"} /\ allowed \in BOOLEAN
    /\ client = [c \in Clients |-> Idle]
    /\ tick = [e \in Evaluators |-> Waiting]
    /\ trouble = 0
    /\ fires = [a \in Alerts |-> 0] /\ confirmed = {}

Active == {a \in Alerts : status[a] = "active"}

-----------------------------------------------------------------------------
(* The store.                                                              *)

OverflowNewest(active) ==                                         \* mutant
    {a \in active : Cardinality({b \in active : b < a}) >= Cap}

(* _enforce_active_cap: all but the newest Cap of the active alerts.       *)
Overflow(active) == {a \in active : Cardinality({b \in active : b > a}) >= Cap}

(* create: the insert, and the read of what is active besides.             *)
Create(c) ==
    /\ client[c] = Idle
    /\ newest < MaxAlerts
    /\ newest' = newest + 1
    /\ client' = [client EXCEPT ![c] =
           [pc |-> "create", own |-> newest',
            close |-> Overflow(Active \cup {newest'})]]
    /\ UNCHANGED <<status, market, tick, trouble, history>>

(* Its commit closes the overflow by id, whatever the rows have become.    *)
CommitCreate(c) ==
    /\ client[c].pc = "create"
    /\ status' = [a \in Alerts |->
           IF a \in client[c].close THEN "cancelled"
           ELSE IF a = client[c].own THEN "active" ELSE status[a]]
    /\ client' = [client EXCEPT ![c] = Idle]
    /\ UNCHANGED <<newest, market, tick, trouble, fires, confirmed>>

(* cancel: only an alert that was read as active; the others are a 409.    *)
Cancel(c, a) ==
    /\ client[c] = Idle
    /\ status[a] = "active"
    /\ client' = [client EXCEPT ![c] = [pc |-> "cancel", own |-> a, close |-> {}]]
    /\ UNCHANGED <<rows, market, tick, trouble, history>>

(* Its commit writes the row by id.                                        *)
CommitCancel(c) ==
    /\ client[c].pc = "cancel"
    /\ status' = [status EXCEPT ![client[c].own] = "cancelled"]
    /\ confirmed' = confirmed \cup {client[c].own}
    /\ client' = [client EXCEPT ![c] = Idle]
    /\ UNCHANGED <<newest, market, tick, trouble, fires>>

-----------------------------------------------------------------------------
(* The evaluator.                                                          *)

Breached(a, p) == IF a \in Above THEN p = "high" ELSE p = "low"

Fail == trouble < MaxTrouble /\ trouble' = trouble + 1
NextAlert(e) == tick' = [tick EXCEPT ![e].pc = "alerts", ![e].at = None]

(* evaluate_price_alerts: the active alerts, read once.                    *)
BeginTick(e) ==
    /\ tick[e].pc = "idle"
    /\ Active # {}
    /\ tick' = [tick EXCEPT ![e].pc = "quote", ![e].todo = Active]
    /\ UNCHANGED <<rows, market, client, trouble, history>>

(* One quote for the ticker, or none: then the next tick tries again.      *)
Quote(e) ==
    /\ tick[e].pc = "quote"
    /\ tick' = [tick EXCEPT ![e].pc = "alerts", ![e].seen = price]
    /\ UNCHANGED <<rows, market, client, trouble, history>>

NoQuote(e) ==
    /\ tick[e].pc = "quote"
    /\ tick' = [tick EXCEPT ![e] = Waiting]
    /\ Fail
    /\ UNCHANGED <<rows, market, client, history>>

(* Not past its level, or the mandate forbids it: left for another tick.   *)
Examine(e, a) ==
    /\ tick[e].pc = "alerts" /\ a \in tick[e].todo
    /\ LET fire == Breached(a, tick[e].seen) /\ allowed IN
        tick' = [tick EXCEPT ![e].pc = IF fire THEN "fire" ELSE "alerts",
                             ![e].todo = @ \ {a},
                             ![e].at = IF fire THEN a ELSE None]
    /\ UNCHANGED <<rows, market, client, trouble, history>>

(* The language model is asked between Examine and Fire; its failure is    *)
(* answered with a template.                                               *)
FireAsRead(e) ==                                                  \* mutant
    /\ tick[e].pc = "fire"
    /\ status' = [status EXCEPT ![tick[e].at] = "fired"]
    /\ fires' = [fires EXCEPT ![tick[e].at] = @ + 1]
    /\ NextAlert(e)
    /\ UNCHANGED <<newest, market, client, trouble, confirmed>>

FireUnlessFired(e) ==                                             \* mutant
    /\ tick[e].pc = "fire"
    /\ IF status[tick[e].at] # "fired"
       THEN /\ status' = [status EXCEPT ![tick[e].at] = "fired"]
            /\ fires' = [fires EXCEPT ![tick[e].at] = @ + 1]
       ELSE UNCHANGED <<status, fires>>
    /\ NextAlert(e)
    /\ UNCHANGED <<newest, market, client, trouble, confirmed>>

(* _fire_alert: UPDATE ... WHERE status = 'active', and who changed the    *)
(* row goes on to notify(), once: nothing repeats it.                      *)
Fire(e) ==
    /\ tick[e].pc = "fire"
    /\ IF status[tick[e].at] = "active"
       THEN /\ status' = [status EXCEPT ![tick[e].at] = "fired"]
            /\ fires' = [fires EXCEPT ![tick[e].at] = @ + 1]
       ELSE UNCHANGED <<status, fires>>
    /\ NextAlert(e)
    /\ UNCHANGED <<newest, market, client, trouble, confirmed>>

(* The UPDATE raised: counted, and on to the next alert.                   *)
Error(e) ==
    /\ tick[e].pc = "fire"
    /\ NextAlert(e)
    /\ Fail
    /\ UNCHANGED <<rows, market, client, history>>

EndLoop(e) ==                                                     \* mutant
    /\ tick[e].pc = "alerts" /\ tick[e].todo = {}
    /\ tick' = [tick EXCEPT ![e].pc = "ended"]
    /\ UNCHANGED <<rows, market, client, trouble, history>>

(* Five minutes of sleep, and the next tick.                               *)
EndTick(e) ==
    /\ tick[e].pc = "alerts" /\ tick[e].todo = {}
    /\ tick' = [tick EXCEPT ![e] = Waiting]
    /\ UNCHANGED <<rows, market, client, trouble, history>>

-----------------------------------------------------------------------------
Die(e) ==
    /\ tick[e] # Waiting
    /\ tick' = [tick EXCEPT ![e] = Waiting]
    /\ Fail
    /\ UNCHANGED <<rows, market, client, history>>

(* A request that raises or whose process dies is rolled back.             *)
RollBack(c) ==
    /\ client[c] # Idle
    /\ client' = [client EXCEPT ![c] = Idle]
    /\ UNCHANGED <<rows, market, tick, trouble, history>>

Market ==
    /\ price' \in {"low", "between", "high"}
    /\ UNCHANGED <<rows, allowed, client, tick, trouble, history>>

EditMandate ==
    /\ allowed' = ~allowed
    /\ UNCHANGED <<rows, price, client, tick, trouble, history>>

ClientStep(c) ==
    \/ Create(c) \/ CommitCreate(c)
    \/ \E a \in Alerts : Cancel(c, a)
    \/ CommitCancel(c) \/ RollBack(c)

Evaluate(e) ==
    \/ BeginTick(e) \/ Quote(e)
    \/ \E a \in Alerts : Examine(e, a)
    \/ Fire(e) \/ EndTick(e)

Next ==
    \/ \E c \in Clients : ClientStep(c)
    \/ \E e \in Evaluators : Evaluate(e) \/ NoQuote(e) \/ Error(e) \/ Die(e)
    \/ Market \/ EditMandate

Spec == Init /\ [][Next]_vars

(* The tick loop runs for ever and starts its work first.                  *)
Fairness == \A e \in Evaluators : WF_vars(Evaluate(e))

FairSpec == Spec /\ Fairness

-----------------------------------------------------------------------------
(* Properties.                                                             *)

TypeOK ==
    /\ status \in [Alerts -> {"none", "active", "fired", "cancelled"}]
    /\ newest \in 0 .. MaxAlerts
    /\ price \in {"low", "between", "high"} /\ allowed \in BOOLEAN
    /\ client \in [Clients -> [pc : {"idle", "create", "cancel"},
                               own : Alerts \cup {None}, close : SUBSET Alerts]]
    /\ tick \in [Evaluators ->
                   [pc : {"idle", "quote", "alerts", "fire"},
                    todo : SUBSET Alerts,
                    seen : {None, "low", "between", "high"},
                    at : Alerts \cup {None}]]
    /\ trouble \in 0 .. MaxTrouble
    /\ fires \in [Alerts -> Nat]
    /\ confirmed \in SUBSET Alerts

(* However many evaluators work from however old a list, and whoever       *)
(* cancels meanwhile, an alert fires once.                                 *)
FiresOnce == \A a \in Alerts : fires[a] <= 1

(* What the user was told is cancelled does not fire any more.             *)
CancelledNeverFires ==
    [][\A a \in confirmed : fires'[a] = fires[a]]_vars

(* "Oldest auto-close past that": only a cancel of its own ends one of the *)
(* newest Cap alerts, never the room that another one needed.              *)
NewestSurvive ==
    [][\A a \in Alerts : status'[a] = "cancelled" /\ a \notin confirmed'
           => status[a] = "cancelled" \/ newest - a >= Cap]_vars

(* An alert whose level stays breached, under a mandate that goes on       *)
(* allowing it, does not stay active.                                      *)
BreachedAlertsEnd ==
    \A a \in Alerts :
        <>[](Breached(a, price) /\ allowed)
            => (status[a] = "active" ~> status[a] # "active")
=============================================================================
