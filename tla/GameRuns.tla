------------------------------ MODULE GameRuns ------------------------------
(***************************************************************************)
(* The runs of the games: entry into a field, duels paired in its lock     *)
(* window, orders queued to the open and the sweep that drains them, the   *)
(* daily mark that ends a book below zero, the restart that forfeits a     *)
(* run, and the pass that scores a field when its period is over and posts *)
(* career points.  A run is a pair <<player, field>>, which the table      *)
(* keeps unique.  Everything that happens between two transactions of the  *)
(* code is a step of its own, and so is the wait for a row that another    *)
(* transaction has written and not committed.  A change made in memory is  *)
(* written, and its row held, only at a later flush: autoflush is off.     *)
(*                                                                         *)
(* Left out: cash, positions and prices (SimLedger has a portfolio's),     *)
(* demand-gated lobbies (their entry window is a field's), ranks, titles   *)
(* and weights (a result is a number of points), the settlement of what a  *)
(* scored run still holds, notices.                                        *)
(***************************************************************************)
EXTENDS Integers, FiniteSets, FiniteSetsExt, TLC

CONSTANTS
    Desks,          \* the Index Desk of the house, at most one in a field
    Fields,
    Cadence,        \* [Fields -> cadences]: a player holds one live run in each
    Ending,         \* bound: the others stay open for entries
    Runs,           \* the pairs <<player, field>> that may be entered
    Played,         \* the runs that are traded, marked or abandoned
    Returns,        \* per run: what it may be worth at its close, None when void
    Opening,        \* the points a player has from earlier periods
    Stipend, DuelPoints, Debit,
    MaxMoves,       \* bound: requests, restarts and marks below zero
    MaxTrouble,     \* bound: crashes, failed passes, missing quotes
    None

Player(e) == e[1]
Field(e) == e[2]
Reasons == {"run_close", "finish_stipend", "duel_result", "forfeit_debit"}
Live == {"entered", "active"}
Settled == {"finished", "void", "forfeit"}
ScorableLive == Live                          \* mutant: a bust run is forgotten
Scorable == Live \cup {"bust"}

ASSUME GamesAssumption ==
    /\ Played \subseteq Runs /\ Ending \subseteq Fields
    /\ IsFiniteSet(Runs)
    /\ None \notin Int \cup Runs \cup {"queue", "cancel", "trade", "owed", "first", "again"}
    /\ Cadence \in [Fields -> STRING]
    /\ \A e \in Runs : e = <<Player(e), Field(e)>> /\ Field(e) \in Fields
    /\ \A d, e \in Runs : {Player(d), Player(e)} \subseteq Desks /\ Field(d) = Field(e) => d = e
    /\ \A e \in Runs : Returns[e] \subseteq Int \cup {None}
    /\ {Opening, Stipend, DuelPoints, Debit, MaxMoves, MaxTrouble} \subseteq Nat

VARIABLES
    stage,        \* where the clock has each field
    closed,       \* the fields whose row says closed
    entry,        \* game_entries
    points,       \* career_events: per run and reason, None or the delta
    duels,        \* game_duels
    order,        \* the run's row of game_queued_orders
    request,      \* the player's request between its check and its write
    restart,      \* commit_restart: how far it is, and the total it has summed
    fill,         \* the bookkeeping a filled trade is still owed
    marked,       \* the runs whose mark was below zero, not written yet
    drain,        \* the sweep over the queued orders
    pass,         \* the scoring pass over one field
    moves,        \* count of requests, restarts and marks
    trouble,      \* count of bounded accidents
    overwritten,  \* history: runs settled, then written by one who read them before
    stale         \* history: players debited on a total that had fallen meanwhile

vars == <<stage, closed, entry, points, duels, order, request, restart, fill,
          marked, drain, pass, moves, trouble, overwritten, stale>>

States == {"none", "bust"} \cup Live \cup Settled
Unposted == [r \in Reasons |-> None]
Resting == [todo |-> {}, at |-> None, pc |-> "idle"]
NoRestart == [pc |-> "none", total |-> 0]
NoPass == [field |-> None, result |-> <<>>, stipend |-> {}, todo |-> {}, at |-> None,
           sum |-> None, wrote |-> <<>>, held |-> {}, seen |-> None]

Init ==
    /\ stage = [f \in Fields |-> "open"]
    /\ closed = {}
    /\ entry = [e \in Runs |-> [state |-> "none", busted |-> FALSE, traded |-> FALSE,
                                scored |-> FALSE]]
    /\ points = [e \in Runs |-> Unposted]
    /\ duels = {}
    /\ order = [e \in Runs |-> "none"]
    /\ request = [e \in Runs |-> None]
    /\ restart = [e \in Runs |-> NoRestart]
    /\ fill = [e \in Runs |-> None]
    /\ marked = {}
    /\ drain = Resting
    /\ pass = NoPass
    /\ moves = 0
    /\ trouble = 0
    /\ overwritten = {}
    /\ stale = {}

-----------------------------------------------------------------------------
(* The career ledger *)

IsLive(e) == entry[e].state \in Live
Value(delta) == IF delta = None THEN 0 ELSE delta
Worth(row) == SumFunctionOnSet([r \in Reasons |-> Value(row[r])], Reasons)

\* career_points_total: the sum over the player's committed rows.
Total(p) ==
    Opening + SumFunctionOnSet([e \in Runs |-> Worth(points[e])], {e \in Runs : Player(e) = p})

\* A debit takes what is there, as far as the transaction can see.
Clamped(delta, total) == IF delta < 0 THEN Max({delta, -total}) ELSE delta

\* A second row for one run and reason is not written.
Post(row, reason, delta, total) ==
    IF row[reason] # None THEN row ELSE [row EXCEPT ![reason] = Clamped(delta, total)]

\* The row of game_entries is held by the pass from the flush that writes it to
\* its commit.  The other writers flush and commit in one step of the model: all
\* they can do between the two is keep others waiting.
Held(e) == e \in pass.held

\* A run's state written by a transaction that read it some time ago.
Write(e, state) ==
    /\ entry' = [entry EXCEPT ![e].state = state]
    /\ overwritten' = IF entry[e].state \in Settled THEN overwritten \cup {e} ELSE overwritten

-----------------------------------------------------------------------------
(* The period: entries, the lock window, the clock *)

\* The clock moves a field on: nothing but its own timestamps says where it is.
PassTime(f) ==
    /\ f \in Ending /\ stage[f] # "over"
    /\ stage' = [stage EXCEPT ![f] = CASE @ = "open" -> "locked"
                                       [] @ = "locked" -> "live"
                                       [] @ = "live" -> "over"]
    /\ UNCHANGED <<moves, closed, entry, points, duels, order, request, restart, fill, marked,
                   drain, pass, trouble, overwritten, stale>>

\* enter_field: a human while entries are open, the desk in the lock window.
Enter(e) ==
    /\ entry[e].state = "none"
    /\ stage[Field(e)] = (IF Player(e) \in Desks THEN "locked" ELSE "open")
    /\ \A d \in Runs : Player(d) = Player(e) /\ Cadence[Field(d)] = Cadence[Field(e)] => ~IsLive(d)
    /\ entry' = [entry EXCEPT ![e].state = "entered"]
    /\ UNCHANGED <<moves, stage, closed, points, duels, order, request, restart, fill, marked,
                   drain, pass, trouble, overwritten, stale>>

FinishedBefore(e) ==
    \E d \in Runs \ {e} : Player(d) = Player(e) /\ entry[d].state = "finished"
InLiveDuel(e) ==
    \E d \in duels : /\ d.state = "live" /\ Cadence[Field(d.a)] = Cadence[Field(e)]
                     /\ Player(e) \in {Player(d.a), Player(d.b)}
UnpairedAny(f) ==                             \* mutant: desks are paired like humans
    {e \in Runs : Field(e) = f /\ IsLive(e) /\ \A d \in duels : e \notin {d.a, d.b}}
Unpaired(f) ==
    {e \in Runs : /\ Field(e) = f /\ IsLive(e) /\ Player(e) \notin Desks
                  /\ \A d \in duels : e \notin {d.a, d.b}}
DeskOf(f) == {e \in Runs : Field(e) = f /\ IsLive(e) /\ Player(e) \in Desks}

\* Pairs of distinct runs that leave at most one over; by age in the code.
Pairings(waiting) ==
    {m \in SUBSET (waiting \X waiting) :
        /\ \A x \in m : x[1] # x[2]
        /\ \A x, y \in m : x # y => {x[1], x[2]} \cap {y[1], y[2]} = {}
        /\ Cardinality(waiting) - 2 * Cardinality(m) \in {0, 1}}

Free(f) == {e \in Unpaired(f) : ~InLiveDuel(e)}
FirstRuns(f) == IF DeskOf(f) = {} THEN {} ELSE {e \in Free(f) : ~FinishedBefore(e)}
NewDuel(kind, e, d) == [kind |-> kind, a |-> e, b |-> d, state |-> "live"]

\* pair_field: those who never finished a run meet the desk, if there is one,
\* the others each other.
PairField(f) ==
    /\ stage[f] = "locked"
    /\ \E m \in Pairings(Free(f) \ FirstRuns(f)) :
          /\ FirstRuns(f) \cup m # {}
          /\ duels' = duels
                \cup {NewDuel("first_run", x[1], x[2]) : x \in FirstRuns(f) \X DeskOf(f)}
                \cup {NewDuel("auto", x[1], x[2]) : x \in m}
    /\ UNCHANGED <<moves, stage, closed, entry, points, order, request, restart, fill, marked,
                   drain, pass, trouble, overwritten, stale>>

-----------------------------------------------------------------------------
(* Requests on a run: each checks that the run is live, then acts *)

Move == moves < MaxMoves /\ moves' = moves + 1

\* submit_trade, cancel_queued_order: the check, in a transaction of its own,
\* and what the cancel reads of the order.
Ask(e, what) ==
    /\ e \in Played /\ IsLive(e) /\ request[e] = None
    /\ CASE what = "queue" -> order[e] = "none"
         [] what = "cancel" -> order[e] = "queued"
         [] what = "trade" -> fill[e] = None
    /\ request' = [request EXCEPT ![e] = what]
    /\ Move
    /\ UNCHANGED <<stage, closed, entry, points, duels, order, restart, fill, marked,
                   drain, pass, trouble, overwritten, stale>>

\* The market is closed: the order waits for the open.
Queue(e) ==
    /\ request[e] = "queue"
    /\ request' = [request EXCEPT ![e] = None]
    /\ order' = [order EXCEPT ![e] = "queued"]
    /\ UNCHANGED <<moves, stage, closed, entry, points, duels, restart, fill, marked,
                   drain, pass, trouble, overwritten, stale>>

\* Nothing on the row is compared again: a fill in between is overwritten.
Cancel(e) ==
    /\ request[e] = "cancel"
    /\ request' = [request EXCEPT ![e] = None]
    /\ order' = [order EXCEPT ![e] = "cancelled"]
    /\ UNCHANGED <<moves, stage, closed, entry, points, duels, restart, fill, marked,
                   drain, pass, trouble, overwritten, stale>>

\* The market is open: the trade fills or is refused.
Trade(e) ==
    /\ request[e] = "trade" /\ fill[e] = None
    /\ request' = [request EXCEPT ![e] = None]
    /\ \E accepted \in BOOLEAN :
          fill' = IF accepted THEN [fill EXCEPT ![e] = "owed"] ELSE fill
    /\ UNCHANGED <<moves, stage, closed, entry, points, duels, order, restart, marked,
                   drain, pass, trouble, overwritten, stale>>

\* _record_fill reads the run, and makes an entered run active.
ReadFill(e) ==
    /\ fill[e] = "owed"
    /\ fill' = [fill EXCEPT ![e] = IF entry[e].state = "entered" THEN "first" ELSE "again"]
    /\ UNCHANGED <<moves, stage, closed, entry, points, duels, order, request, restart, marked,
                   drain, pass, trouble, overwritten, stale>>

RecordFill(e) ==
    /\ fill[e] \in {"first", "again"} /\ ~Held(e)
    /\ fill' = [fill EXCEPT ![e] = None]
    /\ entry' = [entry EXCEPT ![e].traded = TRUE,
                              ![e].state = IF fill[e] = "first" THEN "active" ELSE @]
    /\ overwritten' = IF fill[e] = "first" /\ entry[e].state \in Settled
                      THEN overwritten \cup {e} ELSE overwritten
    /\ UNCHANGED <<moves, stage, closed, points, duels, order, request, restart, marked,
                   drain, pass, trouble, stale>>

\* commit_restart reads the run, then sums the player's points, and only then
\* writes the run.
ReadRestart(e) ==
    /\ e \in Played /\ Player(e) \notin Desks /\ IsLive(e) /\ restart[e].pc = "none"
    /\ restart' = [restart EXCEPT ![e].pc = "read"]
    /\ Move
    /\ UNCHANGED <<stage, closed, entry, points, duels, order, request, fill, marked,
                   drain, pass, trouble, overwritten, stale>>

SumRestart(e) ==
    /\ restart[e].pc = "read"
    /\ restart' = [restart EXCEPT ![e] = [pc |-> "summed", total |-> Total(Player(e))]]
    /\ UNCHANGED <<moves, stage, closed, entry, points, duels, order, request, fill, marked,
                   drain, pass, trouble, overwritten, stale>>

\* Forfeit, cancelled order and debit are one commit; it may have waited for the
\* run's row since the points were summed.
CommitRestart(e) ==
    /\ restart[e].pc = "summed" /\ ~Held(e)
    /\ restart' = [restart EXCEPT ![e] = NoRestart]
    /\ Write(e, "forfeit")
    /\ order' = [order EXCEPT ![e] = IF @ = "queued" THEN "cancelled" ELSE @]
    /\ points' = [points EXCEPT ![e] = Post(@, "forfeit_debit", -Debit, restart[e].total)]
    /\ stale' = IF Total(Player(e)) < restart[e].total THEN stale \cup {Player(e)} ELSE stale
    /\ UNCHANGED <<moves, stage, closed, duels, request, fill, marked, drain, pass, trouble>>

\* run_game_nav_snapshot_tick, _mark_run_bust: the book is below zero.
Mark(e) ==
    /\ e \in Played \ marked /\ IsLive(e) /\ ~entry[e].busted
    /\ marked' = marked \cup {e}
    /\ Move
    /\ UNCHANGED <<stage, closed, entry, points, duels, order, request, restart, fill,
                   drain, pass, trouble, overwritten, stale>>

Bust(e) ==
    /\ e \in marked /\ ~Held(e)
    /\ marked' = marked \ {e}
    /\ entry' = [entry EXCEPT ![e].state = "bust", ![e].busted = TRUE]
    /\ overwritten' = IF entry[e].state \in Settled THEN overwritten \cup {e} ELSE overwritten
    /\ UNCHANGED <<moves, stage, closed, points, duels, order, request, restart, fill,
                   drain, pass, trouble, stale>>

-----------------------------------------------------------------------------
(* process_queued_orders: one sweep at a time, an order after the other *)

BeginDrain ==
    /\ drain.pc = "idle"
    /\ {e \in Runs : order[e] = "queued"} # {}
    /\ drain' = [todo |-> {e \in Runs : order[e] = "queued"}, at |-> None, pc |-> "next"]
    /\ UNCHANGED <<moves, stage, closed, entry, points, duels, order, request, restart, fill,
                   marked, pass, trouble, overwritten, stale>>

\* The sweep goes on when the last fill is on the run's row.
Ready == drain.pc = "next" /\ (drain.at # None => fill[drain.at] = None)

EndDrain ==
    /\ Ready /\ drain.todo = {}
    /\ drain' = Resting
    /\ UNCHANGED <<moves, stage, closed, entry, points, duels, order, request, restart, fill,
                   marked, pass, trouble, overwritten, stale>>

\* mutant: an order of a run that ended meanwhile is only passed over.
DropUnstamped(e) ==
    /\ order' = order
    /\ drain' = [drain EXCEPT !.todo = @ \ {e}, !.at = None]

\* An order of a run that ended meanwhile is cancelled.
Drop(e) ==
    /\ order' = [order EXCEPT ![e] = IF @ = "queued" THEN "cancelled" ELSE @]
    /\ drain' = [drain EXCEPT !.todo = @ \ {e}, !.at = None]

Look(e) ==
    /\ Ready /\ e \in drain.todo
    /\ IF IsLive(e)
       THEN drain' = [todo |-> drain.todo \ {e}, at |-> e, pc |-> "fill"] /\ order' = order
       ELSE Drop(e)
    /\ UNCHANGED <<moves, stage, closed, entry, points, duels, request, restart, fill, marked,
                   pass, trouble, overwritten, stale>>

\* The trade commits or is refused; nothing is looked at again before it.
FillOrder ==
    /\ drain.pc = "fill"
    /\ \E verdict \in {"accepted", "refused"} : drain' = [drain EXCEPT !.pc = verdict]
    /\ UNCHANGED <<moves, stage, closed, entry, points, duels, order, request, restart, fill,
                   marked, pass, trouble, overwritten, stale>>

\* No quote, or the fill or the stamp raises: the order stays queued.
Defer ==
    /\ drain.pc \in {"fill", "accepted", "refused"} /\ trouble < MaxTrouble
    /\ trouble' = trouble + 1
    /\ drain' = [drain EXCEPT !.pc = "next", !.at = None]
    /\ UNCHANGED <<moves, stage, closed, entry, points, duels, order, request, restart, fill,
                   marked, pass, overwritten, stale>>

\* The order is stamped if it still waits, and only then is the fill recorded.
Stamp ==
    LET e == drain.at IN
    /\ drain.pc \in {"accepted", "refused"} /\ fill[e] = None
    /\ IF order[e] # "queued" THEN order' = order /\ fill' = fill
       ELSE IF drain.pc = "accepted"
       THEN order' = [order EXCEPT ![e] = "filled"] /\ fill' = [fill EXCEPT ![e] = "owed"]
       ELSE order' = [order EXCEPT ![e] = "cancelled"] /\ fill' = fill
    /\ drain' = [drain EXCEPT !.pc = "next"]
    /\ UNCHANGED <<moves, stage, closed, entry, points, duels, request, restart, marked, pass,
                   trouble, overwritten, stale>>

-----------------------------------------------------------------------------
(* run_scoring_pass: read everything, then write a field in one transaction *)

\* A map with one more entry.
With(map, key, value) ==
    [k \in DOMAIN map \cup {key} |-> IF k = key THEN value ELSE map[k]]

\* Phase 1 reads what each run is worth, and whether it earns the stipend.
ReadField(f) ==
    LET pending == {e \in Runs : Field(e) = f /\ entry[e].state \in Scorable /\ ~entry[e].scored}
    IN  /\ pass = NoPass /\ stage[f] = "over" /\ f \notin closed
        /\ \E worth \in {w \in [pending -> UNION {Returns[e] : e \in pending}] :
                           \A e \in pending : w[e] \in Returns[e]} :
              pass' = [NoPass EXCEPT !.field = f, !.result = worth, !.todo = pending,
                         !.stipend = {e \in pending : entry[e].traded /\ ~entry[e].busted}]
        /\ UNCHANGED <<moves, stage, closed, entry, points, duels, order, request, restart, fill,
                       marked, drain, trouble, overwritten, stale>>

\* Phase 2 skips a run that was settled since.
ReadRun(e) ==
    /\ e \in pass.todo /\ pass.at = None
    /\ pass' = [pass EXCEPT !.todo = @ \ {e}, !.sum = None,
                            !.at = IF entry[e].state \in Scorable /\ ~entry[e].scored
                                   THEN e ELSE None]
    /\ UNCHANGED <<moves, stage, closed, entry, points, duels, order, request, restart, fill,
                   marked, drain, trouble, overwritten, stale>>

\* A result below zero is a debit: post_career_event sums the player's points
\* before it flushes the run.
Debited(e) == pass.result[e] # None /\ pass.result[e] < 0

SumRun ==
    /\ pass.at # None /\ Debited(pass.at) /\ pass.sum = None
    /\ pass' = [pass EXCEPT !.sum = Total(Player(pass.at))]
    /\ UNCHANGED <<moves, stage, closed, entry, points, duels, order, request, restart, fill,
                   marked, drain, trouble, overwritten, stale>>

\* _apply_score: the state, the result and the stipend, not committed yet.  What
\* posts a row to the ledger flushes, and with it all that was scored before; a
\* void run without a stipend posts none and waits for a later flush.
Flushes(e) == pass.result[e] # None \/ e \in pass.stipend

Score ==
    LET e == pass.at
        scored == With(pass.wrote, e, IF Debited(e) THEN pass.sum ELSE 0)
    IN  /\ e # None /\ (Debited(e) => pass.sum # None)
        /\ pass' = [pass EXCEPT !.at = None, !.sum = None, !.wrote = scored,
                                !.held = IF Flushes(e) THEN DOMAIN scored ELSE @]
        /\ UNCHANGED <<moves, stage, closed, entry, points, duels, order, request, restart, fill,
                       marked, drain, trouble, overwritten, stale>>

Finishes(e) == e \in DOMAIN pass.wrote /\ pass.result[e] # None

\* The run's rows in the ledger as the pass has posted them.
Posted(e) ==
    LET close == IF pass.result[e] = None THEN points[e]
                 ELSE Post(points[e], "run_close", pass.result[e], pass.wrote[e])
    IN  IF e \in pass.stipend THEN Post(close, "finish_stipend", Stipend, 0) ELSE close

\* settle_duel: void unless both sides finished, a tie pays nothing.
Outcome(d) ==
    [d EXCEPT !.state = IF Finishes(d.a) /\ Finishes(d.b) THEN "settled" ELSE "void"]
Decided(d) == Finishes(d.a) /\ Finishes(d.b) /\ pass.result[d.a] # pass.result[d.b]
DuelDelta(d, e) ==
    LET other == IF e = d.a THEN d.b ELSE d.a
    IN  IF pass.result[e] > pass.result[other] THEN DuelPoints ELSE -DuelPoints

\* The duels of the field, those that post points, and the runs they post to.
Ours == {d \in duels : Field(d.a) = pass.field /\ d.state = "live"}
Posting == {d \in Ours : Decided(d)}
Sides == UNION {{d.a, d.b} : d \in Posting}

\* mutant: the clamp does not see what the transaction posted before.
SeenCommitted(e) == pass.seen[e]

\* What the transaction sees of a player: the committed rows as it summed them,
\* and its own.
Seen(e) == pass.seen[e] - Worth(points[e]) + Worth(Posted(e))

\* The duels are settled when every run is scored: each side's points are
\* summed, then the row is posted, which flushes.
JudgeDuels ==
    /\ pass # NoPass /\ pass.todo = {} /\ pass.at = None /\ pass.seen = None
    /\ pass' = [pass EXCEPT
          !.seen = [e \in Runs |-> IF e \in Sides THEN Total(Player(e)) ELSE 0],
          !.held = IF Sides # {} THEN DOMAIN pass.wrote ELSE @]
    /\ UNCHANGED <<moves, stage, closed, entry, points, duels, order, request, restart, fill,
                   marked, drain, trouble, overwritten, stale>>

\* What the commit makes of a run's row; by names the duel that is posted.
RowAfter(e, by) ==
    IF e \in Sides THEN Post(Posted(e), "duel_result", DuelDelta(by[e], e), Seen(e))
    ELSE IF e \in DOMAIN pass.wrote THEN Posted(e) ELSE points[e]

\* The runs whose player has fewer points than a debit was computed on.
Outdated ==
    {e \in DOMAIN pass.wrote : Debited(e) /\ Total(Player(e)) < pass.wrote[e]}
    \cup {e \in Sides : Total(Player(e)) < pass.seen[e]}

\* The closed field and the commit.  A desk in several duels is posted the
\* first of them.
CloseField ==
    LET scored == DOMAIN pass.wrote IN
    /\ pass.seen # None
    /\ \E by \in [Sides -> Posting] :
          /\ \A e \in Sides : e \in {by[e].a, by[e].b}
          /\ points' = [e \in Runs |-> RowAfter(e, by)]
    /\ entry' = [e \in Runs |->
          IF e \in scored
          THEN [entry[e] EXCEPT !.state = IF Finishes(e) THEN "finished" ELSE "void",
                                !.scored = TRUE]
          ELSE entry[e]]
    /\ overwritten' = overwritten \cup {e \in scored : entry[e].state \in Settled}
    /\ stale' = stale \cup {Player(e) : e \in Outdated}
    /\ duels' = (duels \ Ours) \cup {Outcome(d) : d \in Ours}
    /\ closed' = closed \cup {pass.field}
    /\ pass' = NoPass
    /\ UNCHANGED <<moves, stage, order, request, restart, fill, marked, drain, trouble>>

\* Something raises: the transaction is rolled back, a later tick starts again.
PassFails ==
    /\ pass # NoPass /\ trouble < MaxTrouble
    /\ trouble' = trouble + 1
    /\ pass' = NoPass
    /\ UNCHANGED <<moves, stage, closed, entry, points, duels, order, request, restart, fill,
                   marked, drain, overwritten, stale>>

\* The process dies: what it was about to write is lost.
Crash ==
    /\ trouble < MaxTrouble
    /\ trouble' = trouble + 1
    /\ request' = [e \in Runs |-> None]
    /\ restart' = [e \in Runs |-> NoRestart]
    /\ fill' = [e \in Runs |-> None]
    /\ marked' = {}
    /\ drain' = Resting
    /\ pass' = NoPass
    /\ UNCHANGED <<moves, stage, closed, entry, points, duels, order, overwritten, stale>>

-----------------------------------------------------------------------------
Requests(e) == Queue(e) \/ Cancel(e) \/ Trade(e)
Bookkeeping(e) == ReadFill(e) \/ RecordFill(e) \/ Bust(e)
Forfeiture(e) == SumRestart(e) \/ CommitRestart(e)
Draining == BeginDrain \/ EndDrain \/ (\E e \in Runs : Look(e)) \/ FillOrder \/ Stamp
Scoring ==
    \/ \E f \in Fields : ReadField(f)
    \/ \E e \in Runs : ReadRun(e)
    \/ SumRun \/ Score \/ JudgeDuels \/ CloseField

Next ==
    \/ \E f \in Fields : PassTime(f) \/ PairField(f)
    \/ \E e \in Runs :
          \/ Enter(e) \/ ReadRestart(e) \/ Mark(e)
          \/ \E what \in {"queue", "cancel", "trade"} : Ask(e, what)
          \/ Requests(e) \/ Bookkeeping(e) \/ Forfeiture(e)
    \/ Draining \/ Defer
    \/ Scoring \/ PassFails
    \/ Crash

Spec == Init /\ [][Next]_vars

\* Time passes, the ticks come round, and what a request or a tick has begun
\* goes on; nobody has to enter, trade or give up.
FairSpec ==
    /\ Spec
    /\ WF_vars(\E f \in Fields : PassTime(f))
    /\ WF_vars(\E e \in Played : Requests(e) \/ Bookkeeping(e) \/ Forfeiture(e))
    /\ WF_vars(Draining)
    /\ WF_vars(Scoring)

-----------------------------------------------------------------------------
(* Properties *)

TypeOK ==
    /\ stage \in [Fields -> {"open", "locked", "live", "over"}]
    /\ closed \subseteq Fields
    /\ entry \in [Runs -> [state : States, busted : BOOLEAN, traded : BOOLEAN, scored : BOOLEAN]]
    /\ \A e \in Runs : /\ DOMAIN points[e] = Reasons
                       /\ \A r \in Reasons : points[e][r] = None \/ points[e][r] \in Int
    /\ \A d \in duels : /\ {d.a, d.b} \subseteq Runs /\ d.a # d.b
                        /\ d.state \in {"live", "settled", "void"}
                        /\ Player(d.a) \notin Desks
                        /\ d.kind = (IF Player(d.b) \in Desks THEN "first_run" ELSE "auto")
    /\ order \in [Runs -> {"none", "queued", "filled", "cancelled"}]
    /\ request \in [Runs -> {None, "queue", "cancel", "trade"}]
    /\ fill \in [Runs -> {None, "owed", "first", "again"}]
    /\ \A e \in Runs : restart[e].pc \in {"none", "read", "summed"} /\ restart[e].total \in Int
    /\ marked \subseteq Runs /\ overwritten \subseteq Runs
    /\ drain.todo \subseteq Runs /\ drain.pc \in {"idle", "next", "fill", "accepted", "refused"}
    /\ drain.pc \in {"fill", "accepted", "refused"} => drain.at \in Runs
    /\ DOMAIN pass.wrote \subseteq Runs /\ pass.todo \cap DOMAIN pass.wrote = {}
    /\ pass.held \subseteq DOMAIN pass.wrote
    /\ moves \in 0 .. MaxMoves /\ trouble \in 0 .. MaxTrouble

\* A run that the table shows as finished or forfeited has its row in the
\* career ledger, an abandoned run is charged for that and for nothing else, and
\* no run is left without a result in a closed field (a run whose settled state
\* was written over by a transaction that had read it before excepted).
ResultsArePaid ==
    /\ \A e \in Runs :
          /\ entry[e].state = "finished" => points[e].run_close # None
          /\ entry[e].state = "forfeit" => points[e].forfeit_debit # None
          /\ entry[e].state = "none" => points[e] = Unposted
          /\ e \notin overwritten =>
                /\ points[e].run_close # None => entry[e].state = "finished"
                /\ points[e].duel_result # None => entry[e].state = "finished"
                /\ points[e].finish_stipend # None => entry[e].state \in {"finished", "void"}
                /\ points[e].forfeit_debit # None => entry[e].state = "forfeit"
                /\ Field(e) \in closed => entry[e].state \in Settled \cup {"none"}
    /\ \A d \in duels : d.state = "live" => Field(d.a) \notin closed

\* "the running sum can never go below zero": true of every player none of whose
\* debits was computed on a total that had fallen before the debit committed.
ClampHolds == \A e \in Runs : Player(e) \notin stale => Total(Player(e)) >= 0

\* Every run that is entered ends when its period does, and every queued order is
\* filled or cancelled, also one that was queued behind a restart's back: in the
\* end (moves and accidents are bounded) nothing of either is left.
EverythingEnds ==
    <>[]( /\ \A e \in Runs : IsLive(e) /\ Field(e) \in Ending => e \in overwritten
          /\ \A e \in Runs : order[e] # "queued" )
=============================================================================
