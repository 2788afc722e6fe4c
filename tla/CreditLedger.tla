----------------------------- MODULE CreditLedger -----------------------------
(***************************************************************************)
(* The credit ledger as the backend runs it: request handlers (workers)    *)
(* whose database transactions interleave at READ COMMITTED.  A worker     *)
(* loads a row without a lock, or with SELECT ... FOR UPDATE; whoever      *)
(* writes a balance goes through _lock_user_row, which waits for the row   *)
(* lock and reads the row again under it.  Locks and the unique index on   *)
(* revenuecat_events.event_id are held until commit or rollback.           *)
(*                                                                         *)
(* Each transaction is at most: a load, one lock step per row, a commit.   *)
(* The clock may tick and other workers may run between any two of them.   *)
(***************************************************************************)
EXTENDS CreditAccounts

CONSTANTS
    Workers,     \* concurrent request handlers
    NoWorker,    \* not a worker
    MaxRequests  \* bound: client requests, admin edits and aborts in a run

ASSUME WorkersAssumption == NoWorker \notin Workers /\ MaxRequests \in Nat

VARIABLES
    lock,     \* [Users -> Workers \cup {NoWorker}]: row locks
    tx,       \* [Workers -> Tx]: what each worker is doing
    requests, \* requests, admin edits and aborts so far
    dropped   \* refunds that found no row and gave nothing back

vars == <<row, live, alias, processed, now, lock, tx, requests, dropped>>

Ops == {"touch", "credit", "refund", "merge"} \cup Turns \cup Kinds
Webhooks == Kinds

\* pc: "idle"; "loaded", the row read without a lock; "source", a claim that
\* holds the orphan's lock; "locked", every lock held and every row re-read;
\* "running", a turn paid for and being answered; "failed", the same turn
\* when its stream has failed and a refund is owed.
Tx == [pc : {"idle", "loaded", "source", "locked", "running", "failed"},
       op : Ops,
       user : Users \cup {None}, \* the row written
       orphan : Users \cup {None},
       event : Events \cup {None}, 
       amount : Int,              \* credits to add, or what the turn cost
       regrant : BOOLEAN,         \* the pre-lock check found a re-grant due
       lowers : BOOLEAN,          \* a revoke that found a plan to take away
       copy : Row,                \* the row as this transaction sees it
       source : Row]              \* the orphan's row, likewise

IdleTx ==
    [pc |-> "idle", op |-> "touch", user |-> None, orphan |-> None,
     event |-> None, amount |-> 0, regrant |-> FALSE, lowers |-> FALSE,
     copy |-> NewRow(0), source |-> NewRow(0)]

Idle(w) == tx[w].pc = "idle"
Free(u) == lock[u] = NoWorker

\* The row locks of w are released when its transaction ends.
Release(w) == lock' = [u \in Users |-> IF lock[u] = w THEN NoWorker ELSE lock[u]]

Request == requests < MaxRequests /\ requests' = requests + 1

End(w) == tx' = [tx EXCEPT ![w] = IdleTx]
-----------------------------------------------------------------------------
(* Loads without a lock. *)

Loaded(op, u, orphan, event, amount, regrant) ==
    [pc |-> "loaded", op |-> op, user |-> u, orphan |-> orphan,
     event |-> event, amount |-> amount, regrant |-> regrant,
     lowers |-> op = RevokeKind /\ row[u].plan # "floor_pass",
     copy |-> row[u],
     source |-> IF orphan = None THEN row[u] ELSE row[orphan]]

Load(w, t) ==
    /\ Idle(w)
    /\ t.user \in live
    /\ tx' = [tx EXCEPT ![w] = t]
    /\ UNCHANGED <<row, live, alias, processed, now, lock, dropped>>

\* balance_for: the early-out of _ensure_period ends here, with no write.
BeginTouch(w, u) ==
    /\ Request
    /\ Due(row[u], now)
    /\ Load(w, Loaded("touch", u, None, None, 0, TRUE))

\* A streak milestone's reward or an admin's adjustment.
BeginCredit(w, u, n) ==
    /\ Request
    /\ Load(w, Loaded("credit", u, None, None, n, FALSE))

\* POST /v1/auth/merge, after the recorded adoption has been found.
BeginMerge(w, orphan, u) ==
    /\ Request
    /\ orphan \in live
    /\ Load(w, Loaded("merge", u, orphan, None, 0, FALSE))

\* Mutants of Unclaimed: only open deliveries are compared; an event of an
\* account that was claimed is not followed to its adopter.
NotInFlight(e) == \A v \in Workers : tx[v].event # e
UnclaimedUnfollowed(e) == NotInFlight(e) /\ e \notin processed /\ EventOf[e].user \in live

\* The dedup row goes in first: a committed one makes this delivery a
\* duplicate (200, nothing done) and an uncommitted one makes it wait.
Unclaimed(e) ==
    /\ e \notin processed
    /\ \A v \in Workers : tx[v].event # e

Deliver(w, e) ==
    /\ Unclaimed(e)
    /\ EventOf[e].kind # IgnoredKind
    /\ LET u == Survivor[MaxHops][EventOf[e].user]
           kind == EventOf[e].kind
       IN  /\ u \in Users
           /\ Load(w, Loaded(kind, u, None, e, EventOf[e].amount,
                             \/ kind = RevokeKind /\ Due(OnBasePlan(row[u]), now)
                             \/ kind = PackKind /\ Due(row[u], now)))
    /\ UNCHANGED requests

DeliverIgnored(w, e) ==
    /\ Idle(w)
    /\ Unclaimed(e)
    /\ EventOf[e].kind = IgnoredKind
    /\ processed' = processed \cup {e}
    /\ UNCHANGED <<row, live, alias, now, lock, tx, requests, dropped>>
-----------------------------------------------------------------------------
(* Loads with a lock: spend and refund. *)

BeginSpend(w, u, turn) ==
    /\ Request
    /\ Idle(w)
    /\ u \in live
    /\ Free(u)
    /\ lock' = [lock EXCEPT ![u] = w]
    /\ tx' = [tx EXCEPT ![w] =
                [pc |-> "locked", op |-> turn, user |-> u, orphan |-> None,
                 event |-> None, amount |-> 0, regrant |-> TRUE, lowers |-> FALSE,
                 copy |-> row[u], source |-> row[u]]]
    /\ UNCHANGED <<row, live, alias, processed, now, dropped>>

\* The stream failed; the handler still holds the user id it was charged to.
FailTurn(w) ==
    /\ tx[w].pc = "running"
    /\ tx' = [tx EXCEPT ![w].pc = "failed"]
    /\ UNCHANGED <<row, live, alias, processed, now, lock, requests, dropped>>

\* Answered, abandoned by its client, or lost with the process.
EndTurn(w) ==
    /\ tx[w].pc = "running"
    /\ End(w)
    /\ UNCHANGED <<row, live, alias, processed, now, lock, requests, dropped>>

BeginRefund(w) ==
    /\ tx[w].pc = "failed"
    /\ tx[w].user \in live
    /\ Free(tx[w].user)
    /\ lock' = [lock EXCEPT ![tx[w].user] = w]
    /\ tx' = [tx EXCEPT ![w].pc = "locked", ![w].op = "refund",
                        ![w].copy = row[tx[w].user]]
    /\ UNCHANGED <<row, live, alias, processed, now, requests, dropped>>

\* refund() of an account that a claim has deleted returns without a word.
DropRefund(w) ==
    /\ tx[w].pc = "failed"
    /\ tx[w].user \notin live
    /\ End(w)
    /\ dropped' = dropped \cup {w}
    /\ UNCHANGED <<row, live, alias, processed, now, lock, requests>>
-----------------------------------------------------------------------------
(* _lock_user_row: flush, wait for the lock, read the row again. *)

\* A revoke that found no re-grant due never locks.
Locks(w) == tx[w].op # RevokeKind \/ tx[w].regrant

\* A revoke that found a plan to take away has flushed that write and reads it
\* back.  One that found the base plan has changed no column: it flushes
\* nothing, and what it reads may be a plan committed since it looked.
Reread(w) == IF tx[w].lowers THEN OnBasePlan(row[tx[w].user])
             ELSE row[tx[w].user]

\* Mutant of LockRow: FOR UPDATE without populate_existing.
LockRowUnread(w) ==
    /\ \/ tx[w].pc = "loaded" /\ tx[w].op # "merge" /\ Locks(w)
       \/ tx[w].pc = "source"
    /\ tx[w].user \in live
    /\ Free(tx[w].user)
    /\ lock' = [lock EXCEPT ![tx[w].user] = w]
    /\ tx' = [tx EXCEPT ![w].pc = "locked"]
    /\ UNCHANGED <<row, live, alias, processed, now, requests, dropped>>

LockRow(w) ==
    /\ \/ tx[w].pc = "loaded" /\ tx[w].op # "merge" /\ Locks(w)
       \/ tx[w].pc = "source"
    /\ tx[w].user \in live
    /\ Free(tx[w].user)
    /\ lock' = [lock EXCEPT ![tx[w].user] = w]
    /\ tx' = [tx EXCEPT ![w].pc = "locked", ![w].copy = Reread(w)]
    /\ UNCHANGED <<row, live, alias, processed, now, requests, dropped>>

\* Mutant of LockOrphan: the orphan's balance is the one loaded before.
LockOrphanUnread(w) ==
    /\ tx[w].pc = "loaded" /\ tx[w].op = "merge"
    /\ tx[w].orphan \in live
    /\ Free(tx[w].orphan)
    /\ lock' = [lock EXCEPT ![tx[w].orphan] = w]
    /\ tx' = [tx EXCEPT ![w].pc = "source"]
    /\ UNCHANGED <<row, live, alias, processed, now, requests, dropped>>

LockOrphan(w) ==
    /\ tx[w].pc = "loaded" /\ tx[w].op = "merge"
    /\ tx[w].orphan \in live
    /\ Free(tx[w].orphan)
    /\ lock' = [lock EXCEPT ![tx[w].orphan] = w]
    /\ tx' = [tx EXCEPT ![w].pc = "source", ![w].source = row[tx[w].orphan]]
    /\ UNCHANGED <<row, live, alias, processed, now, requests, dropped>>

\* The row to lock is gone: LookupError, everything rolls back.  RevenueCat
\* sees a 500 and delivers the event again.
RowGone(w) ==
    /\ \/ tx[w].pc \in {"loaded", "source"} /\ Locks(w) /\ tx[w].user \notin live
       \/ tx[w].pc = "loaded" /\ tx[w].op = "merge" /\ tx[w].orphan \notin live
    /\ End(w)
    /\ Release(w)
    /\ UNCHANGED <<row, live, alias, processed, now, requests, dropped>>

\* Two claims in opposite directions wait for each other's first lock:
\* Postgres rolls one of them back.
DeadlockVictim(w) ==
    /\ tx[w].pc = "source"
    /\ \E v \in Workers : /\ tx[v].pc = "source"
                          /\ lock[tx[w].user] = v
                          /\ lock[tx[v].user] = w
    /\ End(w)
    /\ Release(w)
    /\ UNCHANGED <<row, live, alias, processed, now, requests, dropped>>

\* A crash, a lost connection, a statement that fails.
Abort(w) ==
    /\ Request
    /\ tx[w].pc \in {"loaded", "source", "locked"}
    /\ End(w)
    /\ Release(w)
    /\ UNCHANGED <<row, live, alias, processed, now, dropped>>
-----------------------------------------------------------------------------
(* Commits. *)

\* The row a locked transaction writes, computed from its own copy.
Written(w) ==
    LET t == tx[w]
    IN  CASE t.op = "touch" -> Ensured(t.copy, now)
          [] t.op \in Turns -> Charged(t.op, t.copy, now)
          [] t.op \in {"credit", "refund"} -> Credited(t.copy, t.amount)
          [] t.op = SubscribeKind -> Subscribed(t.copy, EventOf[t.event].plan, now)
          [] t.op = PackKind ->
                Credited(IF t.regrant THEN Ensured(t.copy, now) ELSE t.copy, t.amount)
          [] t.op = RevokeKind -> Ensured(t.copy, now)
          [] OTHER -> Merged(t.source, t.copy, now)

\* A turn that could be paid for starts running at the price it cost; every
\* other worker is done.
AfterCommit(w) ==
    LET t == tx[w]
    IN  IF t.op \in Turns /\ CanPay(t.op, t.copy, now)
        THEN [t EXCEPT !.pc = "running",
                       !.amount = Price(t.op, Ensured(t.copy, now), now)]
        ELSE IdleTx

\* Mutant of Commit: a turn keeps its row locked while it is answered.
CommitHoldingTurn(w) ==
    /\ tx[w].pc = "locked"
    /\ row' = [row EXCEPT ![tx[w].user] = Written(w)]
    /\ tx' = [tx EXCEPT ![w] = AfterCommit(w)]
    /\ IF AfterCommit(w).pc = "running" THEN UNCHANGED lock ELSE Release(w)
    /\ processed' = IF tx[w].op \in Webhooks THEN processed \cup {tx[w].event}
                    ELSE processed
    /\ IF tx[w].op = "merge"
       THEN /\ live' = live \ {tx[w].orphan}
            /\ alias' = [alias EXCEPT ![tx[w].orphan] = tx[w].user]
       ELSE UNCHANGED <<live, alias>>
    /\ UNCHANGED <<now, requests, dropped>>

Commit(w) ==
    /\ tx[w].pc = "locked"
    /\ row' = [row EXCEPT ![tx[w].user] = Written(w)]
    /\ tx' = [tx EXCEPT ![w] = AfterCommit(w)]
    /\ Release(w)
    /\ processed' = IF tx[w].op \in Webhooks THEN processed \cup {tx[w].event}
                    ELSE processed
    /\ IF tx[w].op = "merge"
       THEN /\ live' = live \ {tx[w].orphan}
            /\ alias' = [alias EXCEPT ![tx[w].orphan] = tx[w].user]
       ELSE UNCHANGED <<live, alias>>
    /\ UNCHANGED <<now, requests, dropped>>

\* A revoke that found no re-grant due.  Already on the base plan, it writes
\* only its dedup and audit rows; otherwise the plan column is updated at
\* commit, waiting for whoever holds the row.
CommitRevoke(w) ==
    /\ tx[w].pc = "loaded" /\ tx[w].op = RevokeKind /\ ~tx[w].regrant
    /\ \/ ~tx[w].lowers /\ UNCHANGED row
       \/ /\ tx[w].lowers
          /\ tx[w].user \in live
          /\ Free(tx[w].user)
          /\ row' = [row EXCEPT ![tx[w].user] = OnBasePlan(@)]
    /\ processed' = processed \cup {tx[w].event}
    /\ End(w)
    /\ UNCHANGED <<live, alias, now, lock, requests, dropped>>

\* The UPDATE of that plan column matches no row: StaleDataError, rollback.
StaleRevoke(w) ==
    /\ tx[w].pc = "loaded" /\ tx[w].op = RevokeKind /\ ~tx[w].regrant
    /\ tx[w].lowers
    /\ tx[w].user \notin live
    /\ End(w)
    /\ UNCHANGED <<row, live, alias, processed, now, lock, requests, dropped>>
-----------------------------------------------------------------------------
(* The rest of the world. *)

\* One UPDATE of plan and trial columns; it waits for the row lock.
EditPlanColumns(u) ==
    /\ Request
    /\ Free(u)
    /\ EditPlan(u)
    /\ UNCHANGED <<lock, tx, dropped>>

PassTime == Tick /\ UNCHANGED <<lock, tx, requests, dropped>>

Init ==
    /\ AccountsInit
    /\ lock = [u \in Users |-> NoWorker]
    /\ tx = [w \in Workers |-> IdleTx]
    /\ requests = 0
    /\ dropped = {}

Begin(w) ==
    \/ \E u \in Users :
          \/ BeginTouch(w, u)
          \/ \E n \in Grants : BeginCredit(w, u, n)
          \/ \E turn \in Turns : BeginSpend(w, u, turn)
    \/ \E c \in ClaimPairs : BeginMerge(w, c[1], c[2])

\* What a worker does unprompted once a request or a delivery reached it.
Work(w) ==
    \/ BeginRefund(w) \/ DropRefund(w)
    \/ LockRow(w) \/ LockOrphan(w) \/ RowGone(w) \/ DeadlockVictim(w)
    \/ Commit(w) \/ CommitRevoke(w) \/ StaleRevoke(w)

Next ==
    \/ \E w \in Workers :
          \/ Begin(w) \/ Work(w)
          \/ FailTurn(w) \/ EndTurn(w) \/ Abort(w)
          \/ \E e \in Events : Deliver(w, e) \/ DeliverIgnored(w, e)
    \/ \E u \in Users : EditPlanColumns(u)
    \/ PassTime

Spec == Init /\ [][Next]_vars

\* A worker that has been given something to do does it, a stream ends, and
\* RevenueCat delivers an event until it is acknowledged.
Fairness ==
    /\ \A w \in Workers : WF_vars(Work(w)) /\ WF_vars(EndTurn(w) \/ FailTurn(w))
    /\ \A e \in Events : WF_vars(\E w \in Workers : Deliver(w, e) \/ DeliverIgnored(w, e))

FairSpec == Spec /\ Fairness
-----------------------------------------------------------------------------
\* Type invariant.
TypeOK ==
    /\ AccountsTypeOK
    /\ lock \in [Users -> Workers \cup {NoWorker}]
    /\ tx \in [Workers -> Tx]
    /\ requests \in 0..MaxRequests
    /\ dropped \subseteq Workers

\* A transaction that is about to write a balance holds the lock of the row
\* it read it from, and its copy is that row: what _lock_user_row's flush,
\* FOR UPDATE and populate_existing are for.  The copy of a revoke that lowers
\* the plan differs by that write, which it has flushed.
FreshCopy(w) ==
    /\ tx[w].pc = "locked" =>
          /\ tx[w].user \in live /\ lock[tx[w].user] = w
          /\ tx[w].copy = Reread(w)
    /\ tx[w].op = "merge" /\ tx[w].pc \in {"source", "locked"} =>
          /\ tx[w].orphan \in live /\ lock[tx[w].orphan] = w
          /\ tx[w].source = row[tx[w].orphan]

LockedCopiesAreFresh == \A w \in Workers : FreshCopy(w)

\* What a transaction's fields say, given what it is for: a delivery owns an
\* event that nobody has committed, a claim has a recorded adoption, and the
\* amounts are the ones somebody asked for or paid.
Purpose(w) ==
    LET t == tx[w]
    IN  /\ t.pc = "idle" => t.op = "touch" /\ t.event = None
        /\ t.pc # "idle" => t.user \in Users
        /\ t.pc \in {"running", "failed"} => t.op \in Turns /\ t.amount \in Credits
        /\ t.pc = "source" => t.op = "merge"
        /\ t.op \in {"credit", "refund"} => t.amount \in Credits
        /\ t.lowers => t.op = RevokeKind
        /\ t.op = "merge" => <<t.orphan, t.user>> \in ClaimPairs
        /\ t.op \notin Webhooks => t.event = None
        /\ t.op \in Webhooks =>
              /\ t.pc \in {"loaded", "locked"}
              /\ t.event \in Events \ processed
              /\ t.op = EventOf[t.event].kind /\ t.op # IgnoredKind
              /\ t.amount = EventOf[t.event].amount

\* The unique index: no two open deliveries of one event.
OneDeliveryPerEvent ==
    \A v, w \in Workers : v # w /\ tx[v].event # None => tx[v].event # tx[w].event

\* Every event a store purchase or lapse produced takes effect in the end,
\* whatever claims, lock waits and rolled back deliveries come in between.
EventsLand == \A e \in Events : <>(e \in processed)

\* A turn that was charged and failed is settled: its worker gets to refund.
FailedTurnsSettle == \A w \in Workers : tx[w].pc = "failed" ~> tx[w].pc = "idle"

\* one_on_one.py: "never let a provider blip silently eat a turn the user
\* never got".  No refund of a failed turn comes to nothing.
RefundsReachAnAccount == dropped = {}
=============================================================================
