------------------------------- MODULE Turns -------------------------------
(***************************************************************************)
(* The turns of 1-on-1 and Brief (api/one_on_one.py send_message,          *)
(* api/brief.py brief_message): a rate limiter for each surface, a cap on  *)
(* the streams a user has open on both, a charge before the stream and a   *)
(* refund after one that failed, in one process that may be restarted.     *)
(*                                                                         *)
(* Handlers and generators run on one event loop, so what one does between *)
(* two awaits is one step.  A 1-on-1 spends and refunds on the loop; Brief *)
(* awaits a worker thread for both.                                        *)
(***************************************************************************)
EXTENDS RateLimit, FiniteSets

CONSTANTS
    Users,          \* whose turns are followed; of the other keys the
                    \* limiters only see requests
    MaxTurns,       \* bound on the turns that get a slot
    MaxConcurrent,  \* agent_stream_max_concurrent_per_user
    Price,          \* one_on_one_cost(), brief_cost()
    None

TurnIds == 1 .. MaxTurns
Surfaces == {"one_on_one", "brief"}

ASSUME TurnsAssumption ==
    /\ Users \subseteq Keys
    /\ MaxTurns \in Nat /\ MaxConcurrent \in Nat \ {0} /\ Price \in Nat \ {0}

VARIABLES
    hits,           \* the limiter of each surface
    counts,         \* ConcurrencyLimiter._counts
    turn,           \* where each turn is, whose it is and on which surface
    paid, given,    \* credits taken for a turn, and given back
    recent          \* history: ages of what was admitted within a window,
                    \* for the keys the limiter has not forgotten

vars == <<hits, counts, turn, paid, given, recent>>
limits == <<hits, recent>>
money == <<paid, given>>

NoTurn == [pc |-> "free", user |-> None, surface |-> None]

(* Turns that were given a slot and have not released it; the generator of *)
(* a dropped one never ran, and never will.                                *)
Open == {"spending", "ready", "streaming", "failing"}
Holding == Open \cup {"dropped"}

Turn == [pc : {"free", "refunding", "kept", "over"} \cup Holding, user : Users \cup {None},
         surface : Surfaces \cup {None}]

Init ==
    /\ hits = [s \in Surfaces |-> NoHits]
    /\ counts = [u \in Users |-> 0]
    /\ turn = [t \in TurnIds |-> NoTurn]
    /\ paid = [t \in TurnIds |-> 0] /\ given = [t \in TurnIds |-> 0]
    /\ recent = [s \in Surfaces |-> [u \in Keys |-> <<>>]]

Goto(t, pc) == turn' = [turn EXCEPT ![t].pc = pc]

(* The end of a turn: its charge is kept, or it failed one way or another. *)
Over(how) == [NoTurn EXCEPT !.pc = how]
End(t, how) == turn' = [turn EXCEPT ![t] = Over(how)]

ReleaseAll(u) == counts' = [counts EXCEPT ![u] = 0]               \* mutant

(* ConcurrencyLimiter.acquire and release.                                 *)
Acquire(u) == counts[u] < MaxConcurrent /\ counts' = [counts EXCEPT ![u] = @ + 1]
Release(u) == counts' = [counts EXCEPT ![u] = IF @ = 0 THEN 0 ELSE @ - 1]

-----------------------------------------------------------------------------
(* RateLimiter.check, over budget: 429 with a Retry-After.                 *)
Knock(s, u) ==
    /\ Refuses(hits[s], u)
    /\ hits' = [hits EXCEPT ![s] = Seen(@, u)]
    /\ UNCHANGED <<counts, turn, money, recent>>

Admit(s, u) ==
    /\ ~Refuses(hits[s], u)
    /\ hits' = [hits EXCEPT ![s] = Hit(@, u)]
    /\ recent' = [recent EXCEPT ![s] = [k \in Keys |->
           IF k \notin Tracked(hits'[s]) THEN <<>>
           ELSE IF k = u THEN Append(@[k], 0) ELSE @[k]]]

(* Admitted by the rate limiter, and then sent away without a trace: no    *)
(* such session, no free slot, or a 1-on-1 whose spend raised.             *)
TurnAway(s, u) ==
    /\ Admit(s, u)
    /\ UNCHANGED <<counts, turn, money>>

(* A slot, then the charge: at once, or by a thread that is awaited.       *)
Accept(t, s, u) ==
    /\ turn[t] = NoTurn /\ \A i \in 1 .. t - 1 : turn[i] # NoTurn
    /\ Admit(s, u)
    /\ Acquire(u)
    /\ IF s = "one_on_one"
       THEN /\ paid' = [paid EXCEPT ![t] = Price]
            /\ turn' = [turn EXCEPT ![t] = [pc |-> "ready", user |-> u, surface |-> s]]
       ELSE /\ turn' = [turn EXCEPT ![t] = [pc |-> "spending", user |-> u, surface |-> s]]
            /\ UNCHANGED paid
    /\ UNCHANGED given

Spent(t) ==
    /\ turn[t].pc = "spending"
    /\ paid' = [paid EXCEPT ![t] = Price]
    /\ Goto(t, "ready")
    /\ UNCHANGED <<limits, counts, given>>

UnpaidKeepsSlot(t) ==                                             \* mutant
    /\ turn[t].pc = "spending"
    /\ End(t, "over")
    /\ UNCHANGED <<limits, counts, money>>

UnpaidRefunded(t) ==                                              \* mutant
    /\ turn[t].pc = "spending"
    /\ Release(turn[t].user)
    /\ given' = [given EXCEPT ![t] = Price]
    /\ End(t, "over")
    /\ UNCHANGED <<limits, paid>>

(* spend() raised: 402, or whatever a database can raise.                  *)
Unpaid(t) ==
    /\ turn[t].pc = "spending"
    /\ Release(turn[t].user)
    /\ End(t, "over")
    /\ UNCHANGED <<limits, money>>

Start(t) ==
    /\ turn[t].pc = "ready"
    /\ Goto(t, "streaming")
    /\ UNCHANGED <<limits, counts, money>>

(* The client went away before the generator took its first step: its      *)
(* finally never runs.                                                     *)
Drop(t) ==
    /\ turn[t].pc = "ready"
    /\ Goto(t, "dropped")
    /\ UNCHANGED <<limits, counts, money>>

(* The stream ends with a reply, or with a client that hangs up.           *)
Close(t) ==
    /\ turn[t].pc = "streaming"
    /\ Release(turn[t].user)
    /\ End(t, "kept")
    /\ UNCHANGED <<limits, money>>

(* It raises, or the provider reports an error: the error frame is sent,   *)
(* to a client that may be gone.                                           *)
Fail(t) ==
    /\ turn[t].pc = "streaming"
    /\ Goto(t, "failing")
    /\ UNCHANGED <<limits, counts, money>>

GiveBack(t) == given' = [given EXCEPT ![t] = Price]

(* finally: the slot, then the refund, which is best effort.               *)
CloseFailed(t) ==
    /\ turn[t].pc = "failing"
    /\ Release(turn[t].user)
    /\ IF turn[t].surface = "one_on_one"
       THEN End(t, "over") /\ (GiveBack(t) \/ UNCHANGED given)
       ELSE Goto(t, "refunding") /\ UNCHANGED given
    /\ UNCHANGED <<limits, paid>>

CloseRefunded(t) ==
    /\ turn[t].pc = "refunding"
    /\ GiveBack(t) \/ UNCHANGED given
    /\ End(t, "over")
    /\ UNCHANGED <<limits, counts, paid>>

-----------------------------------------------------------------------------
(* A restart: the limiters and the streams are gone, what was committed    *)
(* stays (a spend that commits as the process dies is Spent, Restart).     *)
Restart ==
    /\ hits' = [s \in Surfaces |-> NoHits]
    /\ recent' = [s \in Surfaces |-> [u \in Keys |-> <<>>]]
    /\ counts' = [u \in Users |-> 0]
    /\ turn' = [t \in TurnIds |->
           IF turn[t].pc \in Holding \cup {"refunding"}
           THEN Over("over") ELSE turn[t]]
    /\ UNCHANGED money

Tick ==
    /\ hits' = [s \in Surfaces |-> Later(hits[s])]
    /\ recent' = [s \in Surfaces |-> [k \in Keys |-> Within(Aged(recent[s][k], 1), Window)]]
    /\ UNCHANGED <<counts, turn, money>>

Progress(t) ==
    \/ Spent(t) \/ Unpaid(t)
    \/ Start(t) \/ Drop(t)
    \/ Close(t) \/ Fail(t) \/ CloseFailed(t) \/ CloseRefunded(t)

Next ==
    \/ \E s \in Surfaces, k \in Keys : Knock(s, k) \/ TurnAway(s, k)
    \/ \E s \in Surfaces, u \in Users, t \in TurnIds : Accept(t, s, u)
    \/ \E t \in TurnIds : Progress(t)
    \/ Restart \/ Tick

Spec == Init /\ [][Next]_vars

(* Every call a turn makes returns or times out, and the loop runs.        *)
FairSpec == Spec /\ \A t \in TurnIds : WF_vars(Progress(t))

-----------------------------------------------------------------------------
(* Properties.                                                             *)

TypeOK ==
    /\ hits \in [Surfaces -> Limiters]
    /\ \A s \in Surfaces : /\ Len(hits[s].order) <= MaxKeys
                           /\ IsInjective(hits[s].order)
                           /\ \A k \in Keys : Len(hits[s].ages[k]) <= PerMinute
    /\ counts \in [Users -> 0 .. MaxConcurrent]
    /\ turn \in [TurnIds -> Turn]
    /\ paid \in [TurnIds -> {0, Price}] /\ given \in [TurnIds -> {0, Price}]
    /\ recent \in [Surfaces -> [Keys -> Seq(0 .. Window)]]

(* The counter is the number of the user's turns that hold a slot, through *)
(* refusals, failures, hang-ups and restarts.                              *)
SlotsAreHeld ==
    \A u \in Users :
        counts[u] = Cardinality({t \in TurnIds : turn[t].user = u /\ turn[t].pc \in Holding})

(* As long as the limiter remembers a user, no window of its length, both  *)
(* ends included, holds more than PerMinute admitted requests; and a       *)
(* client that waits as long as it is told is admitted.                    *)
Pace ==
    \A s \in Surfaces, u \in Keys :
        LET w == Trim(hits[s].ages[u]) IN
            /\ Len(recent[s][u]) <= PerMinute
            /\ Full(w) => ~Full(Trim(Aged(w, Second * RetryAfter(w))))

(* A turn is charged once; its charge is kept for a reply or a client that *)
(* left, or given back once and whole, never both.                         *)
Charge == INSTANCE RoomCharge WITH
    Runs <- TurnIds, Prices <- {Price}, taken <- paid, back <- given,
    earned <- {t \in TurnIds : turn[t].pc = "kept"}
ChargeSpec == Charge!Spec

(* A user at the cap gets below it again; only streams that were dropped   *)
(* before they began can keep a user out, until a restart.                 *)
SlotsComeBack ==
    \A u \in Users :
        counts[u] = MaxConcurrent ~>
            \/ counts[u] < MaxConcurrent
            \/ Cardinality({t \in TurnIds : turn[t].user = u /\ turn[t].pc = "dropped"})
                   = MaxConcurrent
=============================================================================
