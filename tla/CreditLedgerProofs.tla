-------------------------- MODULE CreditLedgerProofs --------------------------
(***************************************************************************)
(* Theorems about CreditLedger, for any number of accounts, workers and    *)
(* events, any prices and any clock bound.                                 *)
(***************************************************************************)
EXTENDS CreditLedger, TLAPS

-----------------------------------------------------------------------------
(* The rules of CreditPlans take rows to rows. *)

LEMMA EffectivePlanType ==
    ASSUME NEW r \in Row, NEW t \in Clock
    PROVE  EffectivePlan(r, t) \in Plans
  BY DEF EffectivePlan, Row, Plans

LEMMA EnsuredType ==
    ASSUME NEW r \in Row, NEW t \in Clock
    PROVE  Ensured(r, t) \in Row
<1> DEFINE eff == EffectivePlan(r, t)
<1>1. eff \in Plans
  BY EffectivePlanType
<1>2. Allowance[eff] \in Nat /\ MonthOf[t] \in Nat
  BY <1>1, PricesAreNumbers, ClockAssumption
<1> HIDE DEF eff
<1>3. [r EXCEPT !.balance = Allowance[eff], !.period = MonthOf[t], !.tag = eff] \in Row
  BY <1>1, <1>2 DEF Row
<1> QED
  BY <1>3 DEF Ensured, Regranted, eff

LEMMA PriceType ==
    ASSUME NEW r \in Row, NEW t \in Clock, NEW turn \in Turns
    PROVE  Price(turn, r, t) \in Nat /\ Price(turn, r, t) \in Credits
  BY EffectivePlanType, PricesAreNumbers DEF Price, Credits

LEMMA ChargedType ==
    ASSUME NEW r \in Row, NEW t \in Clock, NEW turn \in Turns
    PROVE  Charged(turn, r, t) \in Row
<1> DEFINE e == Ensured(r, t)
           price == Price(turn, e, t)
<1>1. e \in Row
  BY EnsuredType
<1>2. price \in Nat
  BY <1>1, PriceType
<1>3. t + WinzipWait \in Nat
  BY PricesAreNumbers, ClockAssumption DEF Clock
<1>4. CASE CanPay(turn, r, t)
  <2>1. e.balance - price \in Nat
    BY <1>1, <1>2, <1>4 DEF CanPay, Row
  <2>2. [e EXCEPT !.balance = e.balance - price] \in Row
    BY <1>1, <2>1 DEF Row
  <2> QED
    BY <1>4, <2>2 DEF Charged
<1>5. CASE ~CanPay(turn, r, t)
  <2>1. [e EXCEPT !.balance = price, !.cooldown = t + WinzipWait] \in Row
    BY <1>1, <1>2, <1>3 DEF Row
  <2> QED
    BY <1>1, <1>5, <2>1 DEF Charged
<1> QED
  BY <1>4, <1>5

LEMMA CreditedType ==
    ASSUME NEW r \in Row, NEW n \in Int
    PROVE  Credited(r, n) \in Row
<1>1. Clamp(r.balance + n) \in Nat
  BY DEF Clamp, Row
<1> QED
  BY <1>1 DEF Credited, Row

LEMMA SubscribedType ==
    ASSUME NEW r \in Row, NEW plan \in Plans, NEW t \in Clock
    PROVE  Subscribed(r, plan, t) \in Row
<1> DEFINE planned == [r EXCEPT !.plan = plan]
           eff == EffectivePlan(planned, t)
<1>1. planned \in Row
  BY DEF Row
<1>2. eff \in Plans
  BY <1>1, EffectivePlanType
<1>3. /\ Allowance[eff] \in Nat
      /\ MonthOf[t] \in Nat
  BY <1>2, PricesAreNumbers, ClockAssumption
<1> HIDE DEF eff
<1>4. \A b \in Nat : [planned EXCEPT !.balance = b, !.period = MonthOf[t], !.tag = eff] \in Row
  BY <1>1, <1>2, <1>3 DEF Row
<1>5. r.balance \in Nat
  BY DEF Row
<1> QED
  BY <1>3, <1>4, <1>5 DEF Subscribed, eff

LEMMA OnBasePlanType ==
    ASSUME NEW r \in Row
    PROVE  OnBasePlan(r) \in Row
  BY DEF OnBasePlan, Row, Plans

LEMMA MergedType ==
    ASSUME NEW src \in Row, NEW dst \in Row, NEW t \in Clock
    PROVE  Merged(src, dst, t) \in Row
<1> DEFINE plan == IF Rank[src.plan] > Rank[dst.plan] THEN src.plan ELSE dst.plan
           carried == [dst EXCEPT !.plan = plan, !.balance = src.balance + dst.balance]
<1>0. plan \in Plans /\ src.balance + dst.balance \in Nat
  BY DEF Row
<1> HIDE DEF plan
<1>1. carried \in Row
  BY <1>0 DEF Row
<1>2. EffectivePlan(carried, t) \in Plans
  BY <1>1, EffectivePlanType
<1>3. MonthOf[t] \in Nat
  BY ClockAssumption
<1> HIDE DEF carried
<1>4. [carried EXCEPT !.period = MonthOf[t], !.tag = EffectivePlan(carried, t)] \in Row
  BY <1>1, <1>2, <1>3 DEF Row
<1> QED
  BY <1>4 DEF Merged, carried, plan

LEMMA NewRowType ==
    ASSUME NEW n \in Nat
    PROVE  NewRow(n) \in Row
  BY DEF NewRow, Row, Plans, NoPlan
-----------------------------------------------------------------------------
(* The inductive invariant.  LockedCopiesAreFresh alone is not inductive: a
   commit must be known to write only a row it has locked, and a delivery to
   own its event. *)

WorkerInv(w) == FreshCopy(w) /\ Purpose(w)

IInv == TypeOK /\ (\A w \in Workers : WorkerInv(w)) /\ OneDeliveryPerEvent

\* A worker keeps its invariant through a step of another one that leaves
\* the rows it has locked, and its event, alone.
LEMMA Frame ==
    ASSUME TypeOK, NEW v \in Workers, WorkerInv(v), tx'[v] = tx[v],
           \A u \in Users : lock[u] = v =>
               lock'[u] = v /\ row'[u] = row[u] /\ (u \in live => u \in live'),
           tx[v].event \in Events \ processed => tx[v].event \notin processed'
    PROVE  WorkerInv(v)'
<1>1. Purpose(v)'
  BY DEF WorkerInv, Purpose
<1>2. tx[v].pc = "locked" => tx[v].user \in Users
  BY DEF WorkerInv, Purpose
<1>3. tx[v].op = "merge" => tx[v].orphan \in Users
  BY UsersAssumption DEF WorkerInv, Purpose
<1>4. FreshCopy(v)'
  BY <1>2, <1>3 DEF WorkerInv, FreshCopy, Reread
<1> QED
  BY <1>1, <1>4 DEF WorkerInv

LEMMA IdleTxType == IdleTx \in Tx
  BY NewRowType DEF IdleTx, Tx, Ops, Turns

LEMMA IdleWorker ==
    ASSUME NEW w \in Workers, tx'[w] = IdleTx
    PROVE  WorkerInv(w)'
  BY DEF WorkerInv, FreshCopy, Purpose, IdleTx, Turns, Webhooks, Kinds,
         SubscribeKind, RevokeKind, PackKind, IgnoredKind

\* How a step of w moves the locks: it takes a free one, or frees its own.
LEMMA LockType ==
    ASSUME TypeOK, NEW w \in Workers,
           \/ UNCHANGED lock
           \/ Release(w)
           \/ \E u \in Users : Free(u) /\ lock' = [lock EXCEPT ![u] = w]
    PROVE  /\ lock' \in [Users -> Workers \cup {NoWorker}]
           /\ \A v \in Workers \ {w}, u \in Users : lock[u] = v => lock'[u] = v
  BY WorkersAssumption DEF TypeOK, Release, Free

\* A step of w that commits no event and touches no row keeps IInv once w's
\* own part is shown.
LEMMA QuietStep ==
    ASSUME IInv, NEW w \in Workers, NEW t \in Tx, tx' = [tx EXCEPT ![w] = t],
           \/ UNCHANGED lock
           \/ Release(w)
           \/ \E u \in Users : Free(u) /\ lock' = [lock EXCEPT ![u] = w],
           UNCHANGED <<row, live, alias, processed, now>>,
           requests' \in 0..MaxRequests, dropped' \subseteq Workers,
           WorkerInv(w)',
           t.event # None => \A v \in Workers \ {w} : tx[v].event # t.event
    PROVE  IInv'
<1>1. tx' \in [Workers -> Tx] /\ tx'[w] = t /\ \A v \in Workers \ {w} : tx'[v] = tx[v]
  BY DEF IInv, TypeOK
<1>2. TypeOK'
  BY <1>1, LockType DEF IInv, TypeOK, AccountsTypeOK
<1>3. \A v \in Workers \ {w} : WorkerInv(v)'
  BY <1>1, LockType, Frame DEF IInv, Free
<1>4. OneDeliveryPerEvent'
  BY <1>1 DEF IInv, OneDeliveryPerEvent
<1> QED
  BY <1>2, <1>3, <1>4 DEF IInv
-----------------------------------------------------------------------------
(* Steps that write no row. *)

LEMMA LoadedType ==
    ASSUME TypeOK, NEW op \in Ops, NEW u \in Users, NEW orphan \in Users \cup {None},
           NEW event \in Events \cup {None}, NEW amount \in Int, NEW regrant \in BOOLEAN
    PROVE  Loaded(op, u, orphan, event, amount, regrant) \in Tx
  BY DEF TypeOK, AccountsTypeOK, Tx, Loaded

\* What a transaction just loaded must satisfy to have a purpose.
Purposeful(t) ==
    /\ t.pc = "loaded"
    /\ t.user \in Users
    /\ t.op \in {"credit", "refund"} => t.amount \in Credits
    /\ t.lowers => t.op = RevokeKind
    /\ t.op = "merge" => <<t.orphan, t.user>> \in ClaimPairs
    /\ t.op \notin Webhooks => t.event = None
    /\ t.op \in Webhooks =>
          /\ t.event \in Events \ processed
          /\ t.op = EventOf[t.event].kind /\ t.op # IgnoredKind
          /\ t.amount = EventOf[t.event].amount
    /\ t.event # None => \A v \in Workers : tx[v].event # t.event

LEMMA LoadStep ==
    ASSUME IInv, NEW w \in Workers, NEW t \in Tx, Load(w, t), Purposeful(t),
           requests' \in 0..MaxRequests
    PROVE  IInv'
<1>1. tx' = [tx EXCEPT ![w] = t] /\ tx'[w] = t
  BY DEF Load, IInv, TypeOK
<1>2. WorkerInv(w)'
  <2>1. FreshCopy(w)'
    BY <1>1 DEF FreshCopy, Purposeful
  <2>2. Purpose(w)'
    BY <1>1 DEF Purpose, Load, Purposeful
  <2> QED
    BY <2>1, <2>2 DEF WorkerInv
<1>3. UNCHANGED <<row, live, alias, processed, now, lock, dropped>> /\ dropped' \subseteq Workers
  BY DEF Load, IInv, TypeOK
<1>4. t.event # None => \A v \in Workers \ {w} : tx[v].event # t.event
  BY DEF Purposeful
<1> QED
  BY <1>1, <1>2, <1>3, <1>4, QuietStep

LEMMA RequestType ==
    ASSUME TypeOK, Request
    PROVE  requests' \in 0..MaxRequests
  BY WorkersAssumption DEF TypeOK, Request

LEMMA BeginStep ==
    ASSUME IInv, NEW w \in Workers, NEW u \in Users,
           \/ BeginTouch(w, u)
           \/ \E n \in Grants : BeginCredit(w, u, n)
           \/ \E o \in Users : <<o, u>> \in ClaimPairs /\ BeginMerge(w, o, u)
    PROVE  IInv'
<1>0. TypeOK
  BY DEF IInv
<1>a. /\ {"touch", "credit", "merge"} \subseteq Ops
      /\ {"touch", "credit", "merge"} \cap Webhooks = {}
  BY DEF Ops, Turns, Webhooks, Kinds, SubscribeKind, RevokeKind, PackKind, IgnoredKind
<1>b. /\ None \in Users \cup {None} /\ None \in Events \cup {None}
      /\ 0 \in Int /\ TRUE \in BOOLEAN /\ FALSE \in BOOLEAN
  OBVIOUS
<1>1. CASE BeginTouch(w, u)
  <2> DEFINE t == Loaded("touch", u, None, None, 0, TRUE)
  <2>1. t \in Tx
    BY <1>0, <1>a, <1>b, LoadedType
  <2>2. Load(w, t) /\ requests' \in 0..MaxRequests
    BY <1>0, <1>1, RequestType DEF BeginTouch
  <2>3. Purposeful(t)
    BY <1>a DEF Purposeful, Loaded
  <2> HIDE DEF t
  <2> QED
    BY <2>1, <2>2, <2>3, LoadStep
<1>2. ASSUME NEW n \in Grants, BeginCredit(w, u, n) PROVE IInv'
  <2> DEFINE t == Loaded("credit", u, None, None, n, FALSE)
  <2>0. n \in Int /\ n \in Credits
    BY UsersAssumption DEF Credits
  <2>1. t \in Tx
    BY <1>0, <1>a, <1>b, <2>0, LoadedType
  <2>2. Load(w, t) /\ requests' \in 0..MaxRequests
    BY <1>0, <1>2, RequestType DEF BeginCredit
  <2>3. Purposeful(t)
    BY <1>a, <2>0 DEF Purposeful, Loaded
  <2> HIDE DEF t
  <2> QED
    BY <2>1, <2>2, <2>3, LoadStep
<1>3. ASSUME NEW o \in Users, <<o, u>> \in ClaimPairs, BeginMerge(w, o, u) PROVE IInv'
  <2> DEFINE t == Loaded("merge", u, o, None, 0, FALSE)
  <2>1. t \in Tx
    BY <1>0, <1>a, <1>b, LoadedType
  <2>2. Load(w, t) /\ requests' \in 0..MaxRequests
    BY <1>0, <1>3, RequestType DEF BeginMerge
  <2>3. Purposeful(t)
    BY <1>3, <1>a DEF Purposeful, Loaded
  <2> HIDE DEF t
  <2> QED
    BY <2>1, <2>2, <2>3, LoadStep
<1> QED
  BY <1>1, <1>2, <1>3

LEMMA DeliverStep ==
    ASSUME IInv, NEW w \in Workers, NEW e \in Events, Deliver(w, e)
    PROVE  IInv'
<1> DEFINE kind == EventOf[e].kind
           u == Survivor[MaxHops][EventOf[e].user]
           regrant == \/ kind = RevokeKind /\ Due(OnBasePlan(row[u]), now)
                      \/ kind = PackKind /\ Due(row[u], now)
           t == Loaded(kind, u, None, e, EventOf[e].amount, regrant)
<1>1. kind \in Kinds /\ EventOf[e].amount \in Nat
  BY UsersAssumption
<1>2. kind \in Ops /\ kind \in Webhooks /\ kind \notin {"credit", "refund", "merge"}
  BY <1>1 DEF Ops, Webhooks, Kinds, SubscribeKind, RevokeKind, PackKind, IgnoredKind
<1>3. regrant \in BOOLEAN
  BY DEF Due, Rolled
<1>4. u \in Users /\ Load(w, t)
  BY DEF Deliver
<1>5. requests' \in 0..MaxRequests /\ TypeOK
  BY DEF Deliver, IInv, TypeOK
<1>6. e \notin processed /\ (\A v \in Workers : tx[v].event # e) /\ kind # IgnoredKind
  BY DEF Deliver, Unclaimed
<1>7. Purposeful(t)
  <2> HIDE DEF u, regrant
  <2> QED
    BY <1>1, <1>2, <1>4, <1>6 DEF Purposeful, Loaded
<1> HIDE DEF kind, u, regrant
<1>8. t \in Tx
  <2>1. EventOf[e].amount \in Int /\ e \in Events \cup {None} /\ None \in Users \cup {None}
    BY <1>1
  <2> QED
    BY <1>2, <1>3, <1>4, <1>5, <2>1, LoadedType
<1> HIDE DEF t
<1> QED
  BY <1>4, <1>5, <1>7, <1>8, LoadStep

\* A worker that gives up what it was doing.
LEMMA EndStep ==
    ASSUME IInv, NEW w \in Workers, End(w), UNCHANGED lock \/ Release(w),
           UNCHANGED <<row, live, alias, processed, now>>,
           requests' \in 0..MaxRequests, dropped' \subseteq Workers
    PROVE  IInv'
<1>1. tx' = [tx EXCEPT ![w] = IdleTx] /\ tx'[w] = IdleTx /\ IdleTx.event = None
  BY DEF End, IInv, TypeOK, IdleTx
<1>2. WorkerInv(w)'
  BY <1>1, IdleWorker
<1> QED
  BY <1>1, <1>2, IdleTxType, QuietStep

LEMMA FailTurnStep ==
    ASSUME IInv, NEW w \in Workers, FailTurn(w)
    PROVE  IInv'
<1> DEFINE t == [tx[w] EXCEPT !.pc = "failed"]
<1>1. tx' = [tx EXCEPT ![w] = t] /\ tx'[w] = t /\ t \in Tx
  BY DEF FailTurn, IInv, TypeOK, Tx
<1>2. tx[w].op \in Turns /\ Purpose(w)
  BY DEF FailTurn, IInv, WorkerInv, Purpose
<1>3. t.op = tx[w].op /\ t.event = tx[w].event /\ t.pc = "failed"
  BY DEF IInv, TypeOK, Tx
<1>4. WorkerInv(w)'
  <2>1. FreshCopy(w)'
    BY <1>1, <1>3 DEF FreshCopy
  <2>2. Purpose(w)'
    BY <1>1, <1>2 DEF Purpose, FailTurn, Turns, Webhooks, Kinds, SubscribeKind,
         RevokeKind, PackKind, IgnoredKind, IInv, TypeOK, Tx
  <2> QED
    BY <2>1, <2>2 DEF WorkerInv
<1>5. t.event # None => \A v \in Workers \ {w} : tx[v].event # t.event
  BY <1>3 DEF IInv, OneDeliveryPerEvent
<1>6. UNCHANGED <<row, live, alias, processed, now, lock, requests, dropped>>
  BY DEF FailTurn
<1>7. requests' \in 0..MaxRequests /\ dropped' \subseteq Workers
  BY <1>6 DEF IInv, TypeOK
<1> HIDE DEF t
<1> QED
  BY <1>1, <1>4, <1>5, <1>6, <1>7, QuietStep
-----------------------------------------------------------------------------
(* Steps that take a lock. *)

\* A worker that takes the free lock of a row and reads that row.
LEMMA LockStep ==
    ASSUME IInv, NEW w \in Workers, NEW u \in Users, Free(u), NEW t \in Tx,
           tx' = [tx EXCEPT ![w] = t], lock' = [lock EXCEPT ![u] = w],
           UNCHANGED <<row, live, alias, processed, now, dropped>>,
           requests' \in 0..MaxRequests, WorkerInv(w)',
           t.event = tx[w].event \/ t.event = None
    PROVE  IInv'
<1>1. t.event # None => \A v \in Workers \ {w} : tx[v].event # t.event
  BY DEF IInv, OneDeliveryPerEvent
<1>2. dropped' \subseteq Workers
  BY DEF IInv, TypeOK
<1> QED
  BY <1>1, <1>2, QuietStep

LEMMA BeginSpendStep ==
    ASSUME IInv, NEW w \in Workers, NEW u \in Users, NEW turn \in Turns,
           BeginSpend(w, u, turn)
    PROVE  IInv'
<1> DEFINE t == [pc |-> "locked", op |-> turn, user |-> u, orphan |-> None,
                 event |-> None, amount |-> 0, regrant |-> TRUE, lowers |-> FALSE,
                 copy |-> row[u], source |-> row[u]]
<1>1. t \in Tx
  BY DEF Tx, Ops, IInv, TypeOK, AccountsTypeOK
<1>2. tx' = [tx EXCEPT ![w] = t] /\ tx'[w] = t
  BY DEF BeginSpend, IInv, TypeOK
<1>3. lock' = [lock EXCEPT ![u] = w] /\ lock'[u] = w /\ u \in live /\ Free(u)
  BY DEF BeginSpend, IInv, TypeOK
<1>4. UNCHANGED <<row, live, alias, processed, now, dropped>>
  BY DEF BeginSpend
<1>5. requests' \in 0..MaxRequests
  BY RequestType DEF BeginSpend, IInv
<1>6. turn \notin {"merge", "credit", "refund", RevokeKind} /\ turn \notin Webhooks
  BY DEF Turns, Webhooks, Kinds, SubscribeKind, RevokeKind, PackKind, IgnoredKind
<1>7. WorkerInv(w)'
  <2>1. FreshCopy(w)'
    BY <1>2, <1>3, <1>4, <1>6 DEF FreshCopy, Reread
  <2>2. Purpose(w)'
    BY <1>2, <1>6 DEF Purpose
  <2> QED
    BY <2>1, <2>2 DEF WorkerInv
<1>8. t.event = None
  OBVIOUS
<1> HIDE DEF t
<1> QED
  BY <1>1, <1>2, <1>3, <1>4, <1>5, <1>7, <1>8, LockStep

LEMMA BeginRefundStep ==
    ASSUME IInv, NEW w \in Workers, BeginRefund(w)
    PROVE  IInv'
<1> DEFINE u == tx[w].user
           t == [tx[w] EXCEPT !.pc = "locked", !.op = "refund", !.copy = row[u]]
<1>0. tx[w] \in Tx /\ TypeOK /\ Purpose(w)
  BY DEF IInv, TypeOK, WorkerInv
<1>1. u \in Users /\ u \in live /\ tx[w].amount \in Credits /\ tx[w].event = None
  BY <1>0 DEF BeginRefund, Purpose, Turns, Webhooks, Kinds, SubscribeKind,
       RevokeKind, PackKind, IgnoredKind
<1>1a. tx[w].lowers = FALSE
  BY <1>0 DEF BeginRefund, Purpose, Turns, RevokeKind, Tx
<1>2. t \in Tx
  BY <1>0, <1>1 DEF Tx, Ops, TypeOK, AccountsTypeOK
<1>3. tx' = [tx EXCEPT ![w] = t] /\ tx'[w] = t
  BY DEF BeginRefund, IInv, TypeOK
<1>4. lock' = [lock EXCEPT ![u] = w] /\ lock'[u] = w /\ Free(u)
  BY <1>1 DEF BeginRefund, IInv, TypeOK
<1>5. UNCHANGED <<row, live, alias, processed, now, dropped>>
  BY DEF BeginRefund
<1>6. requests' \in 0..MaxRequests
  BY <1>0 DEF BeginRefund, TypeOK
<1>7. /\ t.pc = "locked" /\ t.op = "refund" /\ t.copy = row[u] /\ t.user = u
      /\ t.amount = tx[w].amount /\ t.event = None /\ t.lowers = FALSE
  BY <1>0, <1>1, <1>1a DEF Tx
<1>8. "refund" \notin Webhooks \cup Turns /\ "refund" # RevokeKind
  BY DEF Turns, Webhooks, Kinds, SubscribeKind, RevokeKind, PackKind, IgnoredKind
<1> HIDE DEF t
<1>9. WorkerInv(w)'
  <2>1. FreshCopy(w)'
    BY <1>1, <1>3, <1>4, <1>5, <1>7, <1>8 DEF FreshCopy, Reread
  <2>2. Purpose(w)'
    BY <1>1, <1>3, <1>7, <1>8 DEF Purpose
  <2> QED
    BY <2>1, <2>2 DEF WorkerInv
<1> QED
  BY <1>1, <1>2, <1>3, <1>4, <1>5, <1>6, <1>7, <1>9, LockStep

LEMMA LockRowStep ==
    ASSUME IInv, NEW w \in Workers, LockRow(w)
    PROVE  IInv'
<1> DEFINE u == tx[w].user
           t == [tx[w] EXCEPT !.pc = "locked", !.copy = Reread(w)]
<1>0. tx[w] \in Tx /\ TypeOK /\ Purpose(w) /\ FreshCopy(w)
  BY DEF IInv, TypeOK, WorkerInv
<1>1. tx[w].pc \in {"loaded", "source"}
  BY DEF LockRow
<1>2. u \in Users /\ u \in live /\ Free(u)
  BY <1>0, <1>1 DEF LockRow, Purpose
<1>3. Reread(w) \in Row
  BY <1>0, <1>2, OnBasePlanType DEF Reread, TypeOK, AccountsTypeOK
<1>4. t \in Tx
  BY <1>0, <1>3 DEF Tx
<1>5. tx' = [tx EXCEPT ![w] = t] /\ tx'[w] = t
  BY <1>0 DEF LockRow, TypeOK
<1>6. lock' = [lock EXCEPT ![u] = w] /\ lock'[u] = w /\ Free(u)
  BY <1>0, <1>2 DEF LockRow, TypeOK
<1>7. UNCHANGED <<row, live, alias, processed, now, dropped>>
  BY DEF LockRow
<1>8. requests' \in 0..MaxRequests
  BY <1>0 DEF LockRow, TypeOK
<1>9. /\ t.pc = "locked" /\ t.copy = Reread(w) /\ t.user = u
      /\ t.op = tx[w].op /\ t.amount = tx[w].amount /\ t.event = tx[w].event
      /\ t.orphan = tx[w].orphan /\ t.source = tx[w].source
      /\ t.lowers = tx[w].lowers
  BY <1>0 DEF Tx
<1> HIDE DEF t
<1>10. WorkerInv(w)'
  <2>1. Reread(w)' = Reread(w)
    BY <1>5, <1>7, <1>9 DEF Reread
  <2>2. ASSUME tx[w].op = "merge"
        PROVE  /\ tx[w].orphan \in live' /\ lock'[tx[w].orphan] = w
               /\ tx[w].source = row'[tx[w].orphan]
    <3>1. tx[w].pc = "source" /\ tx[w].orphan \in Users
      BY <1>0, <2>2, UsersAssumption DEF LockRow, Purpose
    <3> QED
      BY <1>0, <1>6, <1>7, <2>2, <3>1 DEF FreshCopy, Free, TypeOK
  <2>3. FreshCopy(w)'
    BY <1>2, <1>5, <1>6, <1>7, <1>9, <2>1, <2>2 DEF FreshCopy
  <2>4. Purpose(w)'
    BY <1>0, <1>1, <1>5, <1>7, <1>9 DEF Purpose
  <2> QED
    BY <2>3, <2>4 DEF WorkerInv
<1> QED
  BY <1>2, <1>4, <1>5, <1>6, <1>7, <1>8, <1>9, <1>10, LockStep

LEMMA LockOrphanStep ==
    ASSUME IInv, NEW w \in Workers, LockOrphan(w)
    PROVE  IInv'
<1> DEFINE u == tx[w].orphan
           t == [tx[w] EXCEPT !.pc = "source", !.source = row[u]]
<1>0. tx[w] \in Tx /\ TypeOK /\ Purpose(w)
  BY DEF IInv, TypeOK, WorkerInv
<1>1. tx[w].pc = "loaded" /\ tx[w].op = "merge"
  BY DEF LockOrphan
<1>2. u \in Users /\ u \in live /\ Free(u)
  BY <1>0, <1>1, UsersAssumption DEF LockOrphan, Purpose
<1>4. t \in Tx
  BY <1>0, <1>2 DEF Tx, TypeOK, AccountsTypeOK
<1>5. tx' = [tx EXCEPT ![w] = t] /\ tx'[w] = t
  BY <1>0 DEF LockOrphan, TypeOK
<1>6. lock' = [lock EXCEPT ![u] = w] /\ lock'[u] = w
  BY <1>0, <1>2 DEF LockOrphan, TypeOK
<1>7. UNCHANGED <<row, live, alias, processed, now, dropped>>
  BY DEF LockOrphan
<1>8. requests' \in 0..MaxRequests
  BY <1>0 DEF LockOrphan, TypeOK
<1>9. /\ t.pc = "source" /\ t.source = row[u] /\ t.user = tx[w].user
      /\ t.op = tx[w].op /\ t.amount = tx[w].amount /\ t.event = tx[w].event
      /\ t.orphan = u /\ t.lowers = tx[w].lowers
  BY <1>0 DEF Tx
<1>10. "merge" \notin Webhooks \cup Turns
  BY DEF Turns, Webhooks, Kinds, SubscribeKind, RevokeKind, PackKind, IgnoredKind
<1> HIDE DEF t
<1>11. WorkerInv(w)'
  <2>1. FreshCopy(w)'
    BY <1>2, <1>5, <1>6, <1>7, <1>9 DEF FreshCopy
  <2>2. Purpose(w)'
    BY <1>0, <1>1, <1>5, <1>7, <1>9, <1>10 DEF Purpose
  <2> QED
    BY <2>1, <2>2 DEF WorkerInv
<1> QED
  BY <1>2, <1>4, <1>5, <1>6, <1>7, <1>8, <1>9, <1>11, LockStep

-----------------------------------------------------------------------------
(* Steps that write a row or commit an event. *)

\* A locked transaction: its own copy is the committed row (a revoke's with
\* the plan it has flushed), and a claim holds both rows.
LEMMA LockedFacts ==
    ASSUME IInv, NEW w \in Workers, tx[w].pc = "locked"
    PROVE  /\ tx[w] \in Tx
           /\ tx[w].user \in Users /\ tx[w].user \in live
           /\ lock[tx[w].user] = w
           /\ tx[w].copy = Reread(w)
           /\ tx[w].op = "merge" =>
                 /\ tx[w].orphan \in Users /\ tx[w].orphan \in live
                 /\ tx[w].orphan # tx[w].user
                 /\ lock[tx[w].orphan] = w
                 /\ tx[w].source = row[tx[w].orphan]
<1>1. FreshCopy(w) /\ Purpose(w) /\ tx[w] \in Tx
  BY DEF IInv, WorkerInv, TypeOK
<1>2. tx[w].user \in Users
  BY <1>1 DEF Purpose
<1>3. /\ tx[w].user \in live /\ lock[tx[w].user] = w
      /\ tx[w].copy = Reread(w)
  BY <1>1 DEF FreshCopy
<1>4. ASSUME tx[w].op = "merge"
      PROVE  /\ tx[w].orphan \in Users /\ tx[w].orphan # tx[w].user
             /\ tx[w].orphan \in live /\ lock[tx[w].orphan] = w
             /\ tx[w].source = row[tx[w].orphan]
  <2>1. <<tx[w].orphan, tx[w].user>> \in ClaimPairs
    BY <1>1, <1>4 DEF Purpose
  <2>2. tx[w].orphan \in Users /\ tx[w].orphan # tx[w].user
    BY <2>1, UsersAssumption
  <2> QED
    BY <1>1, <1>4, <2>2 DEF FreshCopy
<1> QED
  BY <1>1, <1>2, <1>3, <1>4

LEMMA WrittenType ==
    ASSUME IInv, NEW w \in Workers, tx[w].pc = "locked"
    PROVE  Written(w) \in Row
<1>1. /\ tx[w].copy \in Row /\ tx[w].source \in Row /\ tx[w].amount \in Int
      /\ now \in Clock
  BY DEF IInv, TypeOK, AccountsTypeOK, Tx
<1>2. tx[w].op = SubscribeKind => EventOf[tx[w].event].plan \in Plans
  BY UsersAssumption DEF IInv, WorkerInv, Purpose, Webhooks, Kinds
<1>3. Ensured(tx[w].copy, now) \in Row
  BY <1>1, EnsuredType
<1>4. Credited(IF tx[w].regrant THEN Ensured(tx[w].copy, now) ELSE tx[w].copy,
               tx[w].amount) \in Row
  BY <1>1, <1>3, CreditedType
<1>5. Credited(tx[w].copy, tx[w].amount) \in Row
  BY <1>1, CreditedType
<1>6. tx[w].op = SubscribeKind =>
         Subscribed(tx[w].copy, EventOf[tx[w].event].plan, now) \in Row
  BY <1>1, <1>2, SubscribedType
<1>7. tx[w].op \in Turns => Charged(tx[w].op, tx[w].copy, now) \in Row
  BY <1>1, ChargedType
<1>8. Merged(tx[w].source, tx[w].copy, now) \in Row
  BY <1>1, MergedType
<1> QED
  BY <1>3, <1>4, <1>5, <1>6, <1>7, <1>8 DEF Written

\* What a commit leaves its worker with.
LEMMA AfterCommitFacts ==
    ASSUME IInv, NEW w \in Workers, tx[w].pc = "locked", tx'[w] = AfterCommit(w)
    PROVE  /\ AfterCommit(w) \in Tx /\ AfterCommit(w).event = None
           /\ WorkerInv(w)'
<1> DEFINE t == tx[w]
           running == [t EXCEPT !.pc = "running",
                                !.amount = Price(t.op, Ensured(t.copy, now), now)]
<1>0. t \in Tx /\ now \in Clock /\ t.user \in Users
  BY LockedFacts DEF IInv, TypeOK, AccountsTypeOK
<1>1. CASE t.op \in Turns /\ CanPay(t.op, t.copy, now)
  <2>0. Ensured(t.copy, now) \in Row
    BY <1>0, EnsuredType DEF Tx
  <2>1. Price(t.op, Ensured(t.copy, now), now) \in Nat \cap Credits
    BY <1>0, <1>1, <2>0, PriceType
  <2>2. AfterCommit(w) = running
    BY <1>1 DEF AfterCommit
  <2>3. t.op \notin Webhooks \cup {"credit", "refund", "merge"} /\ t.event = None
    BY <1>1 DEF IInv, WorkerInv, Purpose, Turns, Webhooks, Kinds, SubscribeKind,
         RevokeKind, PackKind, IgnoredKind
  <2>4. /\ running \in Tx /\ running.pc = "running" /\ running.op = t.op
        /\ running.user = t.user /\ running.event = None /\ running.amount \in Credits
        /\ running.lowers = t.lowers
    <3> DEFINE price == Price(t.op, Ensured(t.copy, now), now)
    <3>1. price \in Nat /\ price \in Credits
      BY <2>1
    <3> HIDE DEF t, price
    <3> DEFINE q == [t EXCEPT !.pc = "running"]
    <3>2. /\ q \in Tx /\ q.pc = "running" /\ q.op = t.op
          /\ q.user = t.user /\ q.event = t.event /\ q.lowers = t.lowers
      BY <1>0 DEF Tx
    <3>3. running = [q EXCEPT !.amount = price]
      BY DEF price
    <3> HIDE DEF q, running
    <3>4. /\ [q EXCEPT !.amount = price] \in Tx
          /\ [q EXCEPT !.amount = price].amount = price
      BY <3>1, <3>2 DEF Tx
    <3>5. /\ [q EXCEPT !.amount = price].pc = q.pc
          /\ [q EXCEPT !.amount = price].op = q.op
          /\ [q EXCEPT !.amount = price].user = q.user
          /\ [q EXCEPT !.amount = price].event = q.event
          /\ [q EXCEPT !.amount = price].lowers = q.lowers
      BY <3>1, <3>2 DEF Tx
    <3>6. /\ running \in Tx /\ running.amount = price /\ running.pc = q.pc
          /\ running.op = q.op /\ running.user = q.user /\ running.event = q.event
          /\ running.lowers = q.lowers
      BY <3>3, <3>4, <3>5, Zenon
    <3> QED
      BY <2>3, <3>1, <3>2, <3>6
  <2> HIDE DEF running
  <2>5. FreshCopy(w)'
    BY <2>2, <2>3, <2>4 DEF FreshCopy
  <2>6. Purpose(w)'
    <3>1. t.lowers = FALSE
      BY <1>0, <1>1 DEF IInv, WorkerInv, Purpose, Turns, RevokeKind, Tx
    <3> QED
      BY <1>0, <1>1, <2>2, <2>3, <2>4, <3>1 DEF Purpose
  <2> QED
    BY <2>2, <2>4, <2>5, <2>6 DEF WorkerInv
<1>2. CASE ~(t.op \in Turns /\ CanPay(t.op, t.copy, now))
  <2>1. AfterCommit(w) = IdleTx
    BY <1>2 DEF AfterCommit
  <2>2. IdleTx.event = None
    BY DEF IdleTx
  <2> QED
    BY <2>1, <2>2, IdleWorker, IdleTxType
<1> QED
  BY <1>1, <1>2

LEMMA CommitStep ==
    ASSUME IInv, NEW w \in Workers, Commit(w)
    PROVE  IInv'
<1> DEFINE t == tx[w]
<1>0. tx[w].pc = "locked" /\ TypeOK
  BY DEF Commit, IInv
<1>1. tx' = [tx EXCEPT ![w] = AfterCommit(w)] /\ tx'[w] = AfterCommit(w)
  BY <1>0 DEF Commit, TypeOK
<1>2. /\ AfterCommit(w) \in Tx /\ AfterCommit(w).event = None
      /\ WorkerInv(w)'
  BY <1>0, <1>1, AfterCommitFacts
<1>3. \A v \in Workers \ {w} : tx'[v] = tx[v]
  BY <1>1 DEF IInv, TypeOK
<1>4. /\ lock' \in [Users -> Workers \cup {NoWorker}]
      /\ \A v \in Workers \ {w}, u \in Users : lock[u] = v => lock'[u] = v
  BY <1>0, LockType DEF Commit
<1>5. TypeOK'
  <2>1. row' \in [Users -> Row]
    BY <1>0, WrittenType DEF Commit, TypeOK, AccountsTypeOK
  <2>2. tx' \in [Workers -> Tx]
    BY <1>0, <1>1, <1>2 DEF TypeOK
  <2>3. processed' \subseteq Events
    BY <1>0 DEF Commit, TypeOK, AccountsTypeOK, IInv, WorkerInv, Purpose
  <2>4. live' \subseteq Users /\ alias' \in [Users -> Users \cup {None}]
    BY <1>0, LockedFacts DEF Commit, TypeOK, AccountsTypeOK
  <2>5. UNCHANGED <<now, requests, dropped>>
    BY DEF Commit
  <2> QED
    BY <1>0, <1>4, <2>1, <2>2, <2>3, <2>4, <2>5 DEF TypeOK, AccountsTypeOK
<1>6. ASSUME NEW v \in Workers \ {w} PROVE WorkerInv(v)'
  <2>1. \A u \in Users : lock[u] = v =>
           lock'[u] = v /\ row'[u] = row[u] /\ (u \in live => u \in live')
    BY <1>0, <1>4, LockedFacts DEF Commit, TypeOK, AccountsTypeOK
  <2>2. tx[v].event \in Events \ processed => tx[v].event \notin processed'
    BY <1>0, UsersAssumption DEF Commit, IInv, OneDeliveryPerEvent
  <2>3. WorkerInv(v) /\ tx'[v] = tx[v]
    BY <1>3 DEF IInv
  <2> QED
    BY <1>0, <2>1, <2>2, <2>3, Frame
<1>7. OneDeliveryPerEvent'
  BY <1>1, <1>2, <1>3 DEF IInv, OneDeliveryPerEvent
<1> QED
  BY <1>2, <1>5, <1>6, <1>7 DEF IInv

LEMMA DeliverIgnoredStep ==
    ASSUME IInv, NEW w \in Workers, NEW e \in Events, DeliverIgnored(w, e)
    PROVE  IInv'
<1>1. /\ UNCHANGED <<row, live, alias, now, lock, tx, requests, dropped>>
      /\ processed' = processed \cup {e}
      /\ \A v \in Workers : tx[v].event # e
  BY DEF DeliverIgnored, Unclaimed
<1>2. TypeOK'
  BY <1>1 DEF IInv, TypeOK, AccountsTypeOK
<1>3. \A v \in Workers : WorkerInv(v)'
  BY <1>1, Frame DEF IInv
<1>4. OneDeliveryPerEvent'
  BY <1>1 DEF IInv, OneDeliveryPerEvent
<1> QED
  BY <1>2, <1>3, <1>4 DEF IInv

LEMMA CommitRevokeStep ==
    ASSUME IInv, NEW w \in Workers, CommitRevoke(w)
    PROVE  IInv'
<1>0. TypeOK /\ tx[w].op = RevokeKind /\ tx[w].op \in Webhooks
  BY DEF CommitRevoke, IInv, Webhooks, Kinds
<1>1. tx' = [tx EXCEPT ![w] = IdleTx] /\ tx'[w] = IdleTx /\ IdleTx.event = None
  BY <1>0 DEF CommitRevoke, End, TypeOK, IdleTx
<1>2. \A v \in Workers \ {w} : tx'[v] = tx[v]
  BY <1>0, <1>1 DEF TypeOK
<1>3. tx[w].user \in Users /\ tx[w].event \in Events
  BY <1>0 DEF CommitRevoke, IInv, WorkerInv, Purpose
<1>4. /\ row' \in [Users -> Row]
      /\ \A u \in Users : row'[u] = row[u] \/ lock[u] = NoWorker
  BY <1>0, <1>3, OnBasePlanType DEF CommitRevoke, Free, TypeOK, AccountsTypeOK
<1>5. /\ UNCHANGED <<live, alias, now, lock, requests, dropped>>
      /\ processed' = processed \cup {tx[w].event}
  BY DEF CommitRevoke
<1>6. TypeOK'
  BY <1>0, <1>1, <1>3, <1>4, <1>5, IdleTxType DEF TypeOK, AccountsTypeOK
<1>7. ASSUME NEW v \in Workers \ {w} PROVE WorkerInv(v)'
  <2>1. \A u \in Users : lock[u] = v =>
           lock'[u] = v /\ row'[u] = row[u] /\ (u \in live => u \in live')
    BY <1>4, <1>5, WorkersAssumption
  <2>2. tx[v].event \in Events \ processed => tx[v].event \notin processed'
    BY <1>5, UsersAssumption DEF IInv, OneDeliveryPerEvent
  <2>3. WorkerInv(v) /\ tx'[v] = tx[v]
    BY <1>2 DEF IInv
  <2> QED
    BY <1>0, <2>1, <2>2, <2>3, Frame
<1>8. OneDeliveryPerEvent'
  BY <1>1, <1>2 DEF IInv, OneDeliveryPerEvent
<1> QED
  BY <1>1, <1>6, <1>7, <1>8, IdleWorker DEF IInv

LEMMA PlanEditsType ==
    ASSUME NEW r \in Row, now \in Clock
    PROVE  PlanEdits(r) \subseteq Row
<1>1. now + TrialLength \in Nat
  BY PricesAreNumbers, ClockAssumption DEF Clock
<1>2. \A p \in Plans : [r EXCEPT !.plan = p] \in Row
  BY DEF Row
<1>3. [r EXCEPT !.plan = "trial_trader", !.trialEnds = now + TrialLength] \in Row
  BY <1>1 DEF Row, Plans
<1>4. [r EXCEPT !.plan = "floor_pass", !.trialEnds = 0] \in Row
  BY DEF Row, Plans
<1>5. [r EXCEPT !.trialEnds = now + TrialLength] \in Row
  BY <1>1 DEF Row
<1> QED
  BY <1>2, <1>3, <1>4, <1>5 DEF PlanEdits

LEMMA EditPlanStep ==
    ASSUME IInv, NEW u \in Users, EditPlanColumns(u)
    PROVE  IInv'
<1>0. TypeOK /\ now \in Clock /\ row[u] \in Row
  BY DEF IInv, TypeOK, AccountsTypeOK
<1>1. PICK r \in PlanEdits(row[u]) : Rewrite(u, r)
  BY DEF EditPlanColumns, EditPlan
<1>2. r \in Row
  BY <1>0, PlanEditsType
<1>3. row' = [row EXCEPT ![u] = r] /\ UNCHANGED <<live, alias, now, processed, lock, tx, dropped>>
  BY <1>1 DEF Rewrite, EditPlanColumns, EditPlan
<1>4. requests' \in 0..MaxRequests
  BY <1>0, RequestType DEF EditPlanColumns
<1>5. TypeOK'
  BY <1>0, <1>2, <1>3, <1>4 DEF TypeOK, AccountsTypeOK
<1>6. \A v \in Workers : \A x \in Users : lock[x] = v => x # u
  BY WorkersAssumption DEF EditPlanColumns, Free
<1>7. ASSUME NEW v \in Workers PROVE WorkerInv(v)'
  <2>1. \A x \in Users : lock[x] = v =>
           lock'[x] = v /\ row'[x] = row[x] /\ (x \in live => x \in live')
    BY <1>0, <1>3, <1>6 DEF TypeOK, AccountsTypeOK
  <2>2. WorkerInv(v) /\ tx'[v] = tx[v]
    BY <1>3 DEF IInv
  <2> QED
    BY <1>0, <1>3, <2>1, <2>2, Frame
<1>8. OneDeliveryPerEvent'
  BY <1>3 DEF IInv, OneDeliveryPerEvent
<1> QED
  BY <1>5, <1>7, <1>8 DEF IInv

LEMMA PassTimeStep ==
    ASSUME IInv, PassTime
    PROVE  IInv'
<1>1. /\ UNCHANGED <<row, live, alias, processed, lock, tx, requests, dropped>>
      /\ now' \in Clock
  BY ClockAssumption DEF PassTime, Tick, Clock, IInv, TypeOK, AccountsTypeOK
<1>2. TypeOK'
  BY <1>1 DEF IInv, TypeOK, AccountsTypeOK
<1>3. \A v \in Workers : WorkerInv(v)'
  BY <1>1, Frame DEF IInv
<1>4. OneDeliveryPerEvent'
  BY <1>1 DEF IInv, OneDeliveryPerEvent
<1> QED
  BY <1>2, <1>3, <1>4 DEF IInv

-----------------------------------------------------------------------------
LEMMA InitIInv == Init => IInv
<1> SUFFICES ASSUME Init PROVE IInv
  OBVIOUS
<1>1. row \in [Users -> Row]
  <2>1. NewRow(0) \in Row /\ NewRow(TrialLength) \in Row
    BY NewRowType, PricesAreNumbers
  <2>2. TrialRow \in Row
    <3> DEFINE r == [NewRow(TrialLength) EXCEPT !.plan = "trial_trader"]
    <3>1. r \in Row
      BY <2>1 DEF Row, Plans
    <3> HIDE DEF r
    <3>2. 0 \in Clock
      BY ClockAssumption DEF Clock
    <3> DEFINE eff == EffectivePlan(r, 0)
    <3>3. eff \in Plans /\ Allowance[eff] \in Nat /\ MonthOf[0] \in Nat
      BY <3>1, <3>2, EffectivePlanType, PricesAreNumbers, ClockAssumption
    <3> HIDE DEF eff
    <3>4. [r EXCEPT !.balance = Allowance[eff], !.period = MonthOf[0], !.tag = eff] \in Row
      BY <3>1, <3>3 DEF Row
    <3> QED
      BY <3>4 DEF TrialRow, Regranted, r, eff
  <2> QED
    BY <2>1, <2>2 DEF Init, AccountsInit
<1>2. AccountsTypeOK
  BY <1>1, ClockAssumption DEF Init, AccountsInit, AccountsTypeOK, Clock
<1>3. TypeOK
  BY <1>2, IdleTxType, WorkersAssumption DEF Init, TypeOK
<1>4. \A w \in Workers : tx[w] = IdleTx
  BY DEF Init
<1>5. \A w \in Workers : WorkerInv(w)
  BY <1>4 DEF WorkerInv, FreshCopy, Purpose, IdleTx, Turns, Webhooks, Kinds,
       SubscribeKind, RevokeKind, PackKind, IgnoredKind
<1>6. OneDeliveryPerEvent
  BY <1>4 DEF OneDeliveryPerEvent, IdleTx
<1> QED
  BY <1>3, <1>5, <1>6 DEF IInv

LEMMA WorkStep ==
    ASSUME IInv, NEW w \in Workers, Work(w) \/ FailTurn(w) \/ EndTurn(w) \/ Abort(w)
    PROVE  IInv'
<1>0. TypeOK /\ requests \in 0..MaxRequests /\ dropped \subseteq Workers
  BY DEF IInv, TypeOK
<1>1. CASE DropRefund(w)
  <2>1. dropped' \subseteq Workers /\ requests' \in 0..MaxRequests
    BY <1>0, <1>1 DEF DropRefund
  <2>2. End(w) /\ UNCHANGED lock /\ UNCHANGED <<row, live, alias, processed, now>>
    BY <1>1 DEF DropRefund
  <2> QED
    BY <2>1, <2>2, EndStep
<1>2. CASE RowGone(w) \/ DeadlockVictim(w)
  BY <1>0, <1>2, EndStep DEF RowGone, DeadlockVictim
<1>3. CASE StaleRevoke(w) \/ EndTurn(w)
  BY <1>0, <1>3, EndStep DEF StaleRevoke, EndTurn
<1>4. CASE Abort(w)
  BY <1>0, <1>4, RequestType, EndStep DEF Abort
<1> QED
  BY <1>1, <1>2, <1>3, <1>4, FailTurnStep, BeginRefundStep, LockRowStep,
     LockOrphanStep, CommitStep, CommitRevokeStep DEF Work

LEMMA NextIInv == IInv /\ [Next]_vars => IInv'
<1> SUFFICES ASSUME IInv, [Next]_vars PROVE IInv'
  OBVIOUS
<1>1. CASE UNCHANGED vars
  <2>1. UNCHANGED <<row, live, alias, processed, now, lock, tx, requests, dropped>>
    BY <1>1 DEF vars
  <2>2. TypeOK' /\ OneDeliveryPerEvent'
    BY <2>1 DEF IInv, TypeOK, AccountsTypeOK, OneDeliveryPerEvent
  <2>3. \A v \in Workers : WorkerInv(v)'
    BY <2>1, Frame DEF IInv
  <2> QED
    BY <2>2, <2>3 DEF IInv
<1>2. ASSUME NEW w \in Workers, Begin(w) PROVE IInv'
  <2>1. ASSUME NEW c \in ClaimPairs, BeginMerge(w, c[1], c[2]) PROVE IInv'
    <3>1. c[1] \in Users /\ c[2] \in Users /\ c = <<c[1], c[2]>>
      BY UsersAssumption DEF BeginMerge
    <3> QED
      BY <2>1, <3>1, BeginStep
  <2> QED
    BY <1>2, <2>1, BeginStep, BeginSpendStep DEF Begin
<1> QED
  BY <1>1, <1>2, WorkStep, DeliverStep, DeliverIgnoredStep, EditPlanStep,
     PassTimeStep DEF Next

\* In every reachable state every variable has its type: no balance is ever
\* negative, whatever debits, refunds and negative adjustments interleave.
THEOREM TypeCorrect == Spec => []TypeOK
<1>1. IInv => TypeOK
  BY DEF IInv
<1> QED
  BY InitIInv, NextIInv, <1>1, PTL DEF Spec

\* Whoever is about to write a balance holds the row's lock and an exact copy
\* of the committed row: no debit, grant, refund or carry is a lost update.
THEOREM FreshUnderLock == Spec => []LockedCopiesAreFresh
<1>1. IInv => LockedCopiesAreFresh
  BY DEF IInv, WorkerInv, LockedCopiesAreFresh
<1> QED
  BY InitIInv, NextIInv, <1>1, PTL DEF Spec

-----------------------------------------------------------------------------
(* The ledger implements CreditAccounts: a transaction takes effect, all of
   it, at its commit. *)

LEMMA SilentSteps ==
    ASSUME NEW w \in Workers,
           \/ Begin(w) \/ FailTurn(w) \/ EndTurn(w) \/ Abort(w)
           \/ BeginRefund(w) \/ DropRefund(w) \/ LockRow(w) \/ LockOrphan(w)
           \/ RowGone(w) \/ DeadlockVictim(w) \/ StaleRevoke(w)
           \/ \E e \in Events : Deliver(w, e)
    PROVE  UNCHANGED accountVars
<1>1. ASSUME NEW t, Load(w, t) PROVE UNCHANGED accountVars
  BY <1>1 DEF Load, accountVars
<1>2. CASE Begin(w)
  <2>1. ASSUME NEW u \in Users, NEW turn \in Turns, BeginSpend(w, u, turn)
        PROVE UNCHANGED accountVars
    BY <2>1 DEF BeginSpend, accountVars
  <2> QED
    BY <1>1, <1>2, <2>1 DEF Begin, BeginTouch, BeginCredit, BeginMerge
<1>3. ASSUME NEW e \in Events, Deliver(w, e) PROVE UNCHANGED accountVars
  BY <1>1, <1>3 DEF Deliver
<1>4. CASE FailTurn(w) \/ EndTurn(w) \/ Abort(w)
  BY <1>4 DEF FailTurn, EndTurn, Abort, accountVars
<1>5. CASE \/ BeginRefund(w) \/ DropRefund(w) \/ LockRow(w) \/ LockOrphan(w)
           \/ RowGone(w) \/ DeadlockVictim(w) \/ StaleRevoke(w)
  BY <1>5 DEF BeginRefund, DropRefund, LockRow, LockOrphan, RowGone,
     DeadlockVictim, StaleRevoke, accountVars
<1> QED
  BY <1>2, <1>3, <1>4, <1>5

\* The kinds of operation are told apart by their names.
LEMMA OpsDiffer ==
    /\ {"touch", "credit", "refund", "merge"} \cap (Turns \cup Webhooks) = {}
    /\ Turns \cap Webhooks = {}
    /\ SubscribeKind # RevokeKind /\ SubscribeKind # PackKind /\ RevokeKind # PackKind
    /\ {SubscribeKind, RevokeKind, PackKind} \subseteq Webhooks
    /\ Ops = {"touch", "credit", "refund", "merge"} \cup Turns \cup Webhooks
  BY DEF Ops, Turns, Webhooks, Kinds, SubscribeKind, RevokeKind, PackKind, IgnoredKind

\* Only a revoke reads back a plan write of its own.
LEMMA PlainReread ==
    ASSUME IInv, NEW w \in Workers, tx[w].op # RevokeKind
    PROVE  Reread(w) = row[tx[w].user]
  BY DEF IInv, WorkerInv, Purpose, Reread

\* A webhook that commits its row under the lock.
LEMMA WebhookCommit ==
    ASSUME IInv, NEW w \in Workers, Commit(w), tx[w].op \in Webhooks
    PROVE  Apply(tx[w].event, tx[w].user)
<1> DEFINE t == tx[w]
           e == t.event
           r == row[t.user]
<1>0. t.pc = "locked"
  BY DEF Commit
<1>1. /\ t.user \in live /\ t.copy = Reread(w)
      /\ e \in Events \ processed /\ t.op = EventOf[e].kind /\ t.op # IgnoredKind
      /\ t.amount = EventOf[e].amount /\ t.op \in Kinds
  BY <1>0, LockedFacts DEF IInv, WorkerInv, Purpose, Webhooks
<1>2. Written(w) \in Outcomes(e, r)
  <2>1. CASE t.op = SubscribeKind
    <3>1. Written(w) = Subscribed(r, EventOf[e].plan, now)
      BY <1>1, <2>1, OpsDiffer, PlainReread DEF Written
    <3>2. Outcomes(e, r) = {Subscribed(r, EventOf[e].plan, now)}
      BY <1>1, <2>1, OpsDiffer DEF Outcomes
    <3> QED
      BY <3>1, <3>2
  <2>2. CASE t.op = PackKind
    <3>1. Written(w) = Credited(IF t.regrant THEN Ensured(r, now) ELSE r, EventOf[e].amount)
      BY <1>1, <2>2, OpsDiffer, PlainReread DEF Written
    <3>2. Outcomes(e, r) = {Credited(Ensured(r, now), EventOf[e].amount),
                            Credited(r, EventOf[e].amount)}
      BY <1>1, <2>2, OpsDiffer DEF Outcomes
    <3> QED
      BY <3>1, <3>2
  <2>3. CASE t.op = RevokeKind
    <3>1. Written(w) \in {Revoked(r, now), Ensured(r, now)}
      BY <1>1, <2>3, OpsDiffer DEF Written, Reread, Revoked
    <3>2. Outcomes(e, r) = {Revoked(r, now), OnBasePlan(r), Ensured(r, now)}
      BY <1>1, <2>3, OpsDiffer DEF Outcomes
    <3> QED
      BY <3>1, <3>2
  <2> QED
    BY <1>1, <2>1, <2>2, <2>3 DEF Kinds
<1>3. /\ row' = [row EXCEPT ![t.user] = Written(w)]
      /\ processed' = processed \cup {e}
      /\ UNCHANGED <<live, alias, now>>
  BY OpsDiffer DEF Commit
<1> QED
  BY <1>1, <1>2, <1>3 DEF Apply, Rewrite

LEMMA CommitSimulates ==
    ASSUME IInv, NEW w \in Workers, Commit(w)
    PROVE  AccountsNext
<1> DEFINE t == tx[w]
           u == t.user
<1>0. t.pc = "locked" /\ t \in Tx /\ t.op \in Ops
  BY DEF Commit, IInv, TypeOK, Tx
<1>1. u \in Users /\ u \in live /\ t.copy = Reread(w)
  BY <1>0, LockedFacts
<1>2. row' = [row EXCEPT ![u] = Written(w)] /\ now' = now
  BY DEF Commit
<1>3. t.op \notin Webhooks => processed' = processed
  BY DEF Commit
<1>4. t.op # "merge" => UNCHANGED <<live, alias>>
  BY DEF Commit
<1>5. CASE t.op \in Webhooks
  <2>1. t.event \in Events
    BY <1>5 DEF IInv, WorkerInv, Purpose
  <2> QED
    BY <1>1, <1>5, <2>1, WebhookCommit DEF AccountsNext
<1>6. CASE t.op = "touch"
  <2>1. Written(w) = Ensured(row[u], now)
    BY <1>1, <1>6, OpsDiffer, PlainReread DEF Written
  <2>2. Touch(u)
    BY <1>1, <1>2, <1>3, <1>4, <1>6, <2>1, OpsDiffer DEF Touch, Rewrite
  <2> QED
    BY <1>1, <2>2 DEF AccountsNext
<1>7. CASE t.op \in Turns
  <2>1. Written(w) = Charged(t.op, row[u], now)
    BY <1>1, <1>7, OpsDiffer, PlainReread DEF Written
  <2>2. Charge(u, t.op)
    BY <1>1, <1>2, <1>3, <1>4, <1>7, <2>1, OpsDiffer DEF Charge, Rewrite
  <2> QED
    BY <1>1, <1>7, <2>2 DEF AccountsNext
<1>8. CASE t.op \in {"credit", "refund"}
  <2>1. Written(w) = Credited(row[u], t.amount)
    BY <1>1, <1>8, OpsDiffer, PlainReread DEF Written
  <2>2. Credit(u, t.amount) /\ t.amount \in Credits
    BY <1>1, <1>2, <1>3, <1>4, <1>8, <2>1, OpsDiffer
       DEF Credit, Rewrite, IInv, WorkerInv, Purpose
  <2> QED
    BY <1>1, <2>2 DEF AccountsNext
<1>9. CASE t.op = "merge"
  <2>1. /\ t.orphan \in live /\ t.orphan # u /\ t.source = row[t.orphan]
        /\ <<t.orphan, u>> \in ClaimPairs
    BY <1>0, <1>9, LockedFacts DEF IInv, WorkerInv, Purpose
  <2>2. Written(w) = Merged(row[t.orphan], row[u], now)
    BY <1>1, <1>9, <2>1, OpsDiffer, PlainReread DEF Written
  <2>3. Merge(t.orphan, u)
    BY <1>1, <1>2, <1>3, <1>9, <2>1, <2>2, OpsDiffer DEF Merge, Commit
  <2> QED
    BY <2>1, <2>3 DEF AccountsNext
<1> QED
  BY <1>0, <1>5, <1>6, <1>7, <1>8, <1>9, OpsDiffer

LEMMA CommitRevokeSimulates ==
    ASSUME IInv, NEW w \in Workers, CommitRevoke(w)
    PROVE  AccountsNext
<1> DEFINE u == tx[w].user
           e == tx[w].event
<1>1. /\ u \in Users /\ e \in Events \ processed
      /\ EventOf[e].kind = RevokeKind
  BY OpsDiffer DEF CommitRevoke, IInv, WorkerInv, Purpose
<1>2. processed' = processed \cup {e} /\ UNCHANGED <<live, alias, now>>
  BY DEF CommitRevoke
<1>3. CASE UNCHANGED row
  BY <1>1, <1>2, <1>3 DEF AccountsNext, Ignore
<1>4. CASE u \in live /\ row' = [row EXCEPT ![u] = OnBasePlan(@)]
  <2>1. OnBasePlan(row[u]) \in Outcomes(e, row[u])
    BY <1>1, OpsDiffer DEF Outcomes
  <2>2. row' = [row EXCEPT ![u] = OnBasePlan(row[u])]
    BY <1>4
  <2>3. Apply(e, u)
    BY <1>1, <1>2, <1>4, <2>1, <2>2 DEF Apply, Rewrite
  <2> QED
    BY <1>1, <2>3 DEF AccountsNext
<1> QED
  BY <1>3, <1>4 DEF CommitRevoke

LEMMA NextSimulates == IInv /\ [Next]_vars => [AccountsNext]_accountVars
<1> SUFFICES ASSUME IInv, [Next]_vars PROVE [AccountsNext]_accountVars
  OBVIOUS
<1>1. CASE UNCHANGED vars
  BY <1>1 DEF vars, accountVars
<1>2. ASSUME NEW w \in Workers, NEW e \in Events, DeliverIgnored(w, e)
      PROVE  AccountsNext
  BY <1>2 DEF DeliverIgnored, Unclaimed, AccountsNext, Ignore
<1>3. ASSUME NEW u \in Users, EditPlanColumns(u) PROVE AccountsNext
  BY <1>3 DEF EditPlanColumns, AccountsNext
<1>4. CASE PassTime
  BY <1>4 DEF PassTime, AccountsNext
<1> QED
  BY <1>1, <1>2, <1>3, <1>4, SilentSteps, CommitSimulates, CommitRevokeSimulates
     DEF Next, Work

\* Interleaved, aborted and retried transactions have no effect that the
\* operations would not have had one after the other, each on the committed
\* row, and each RevenueCat event has its effect at most once.
THEOREM ImplementsAccounts == Spec => AccountsSpec
<1>1. Init => AccountsInit
  BY DEF Init
<1> QED
  BY InitIInv, NextIInv, NextSimulates, <1>1, PTL DEF Spec, AccountsSpec

=============================================================================
