------------------------------ MODULE RoomRuns ------------------------------
(***************************************************************************)
(* The life of Room runs: RoomRunner in room_runner.py.                    *)
(*                                                                         *)
(* A run is charged, gets a pump (an asyncio task on the one event loop)   *)
(* and a row, and ends with a verdict or a refund.  The process may be     *)
(* stopped or die at any step; memory is lost, rows stay, and the next     *)
(* boot sweeps up what it finds.  A stretch of code without an await runs  *)
(* alone on the loop (Alone), but a crash can cut it anywhere.             *)
(***************************************************************************)
EXTENDS Naturals, Sequences, FiniteSets

CONSTANTS
    Runs,       \* run ids
    Keys,       \* (user, ticker) pairs
    None,       \* no key, no run
    Prices,     \* what a Room may cost: base, or base and the live-data surcharge
    Faults,     \* which best-effort steps may fail: "refund", "write", "journal"
    Crashes,    \* the process may die, and a stopping one does not wait for its pumps
    Backtests,  \* the backtest harness convenes Rooms too
    Overruns    \* a Room may take longer than the dedup window

ASSUME RoomAssumption ==
    /\ None \notin Runs \cup Keys
    /\ Prices \subseteq Nat \ {0} /\ Prices # {}
    /\ Faults \subseteq {"refund", "write", "journal"}
    /\ {Crashes, Backtests, Overruns} \subseteq BOOLEAN

MaxAutoRetries == 1
Bound == MaxAutoRetries + 2   \* attempts and journal entries are counted up to here

VARIABLES
    row,       \* room_runs
    key,       \* the user and ticker of a run, None until it is started
    index,     \* runs in backtest_run_index
    paid,      \* credits spent on a run
    given,     \* credits refunded for it
    journal,   \* its Decision Journal entries, by what they report
    phase,     \* of the process
    pump,      \* what the task of a run is doing, and what it holds in memory
    active,    \* _active_by_key
    pending,   \* _pending_retry
    owed,      \* refunds the startup sweep still has to make
    retrying,  \* runs whose CIO step is being asked again
    attempts,  \* how often run() began for a run
    lost       \* runs whose refund failed or died with the process

disk == <<row, key, index, paid, given, journal>>
memory == <<phase, pump, active, pending, owed, retrying>>
history == <<attempts, lost>>
vars == <<disk, memory, history>>

Verdicts == {"none", "real", "outage", "incomplete"}
Shaped == {"outage", "incomplete"}   \* is_outage_shaped_verdict
Row == [status : {"absent", "running", "completed", "failed"}, verdict : Verdicts,
        basis : {"live", "asof"},    \* the data its verdict rests on
        cost : Nat, refunded : BOOLEAN, retries : Nat, interrupted : BOOLEAN,
        age : 0..2,                  \* since it started or finished, see Older
        snapshot : BOOLEAN]          \* cio_context_snapshot is there
NoRow == [status |-> "absent", verdict |-> "none", basis |-> "live", cost |-> 0,
          refunded |-> FALSE, retries |-> 0, interrupted |-> FALSE, age |-> 0,
          snapshot |-> FALSE]

\* Stages of a pump that no other task of the loop can interrupt.
Sync == {"indexed", "owing", "flagging", "failing", "noting", "ending"}
Stages == Sync \cup {"none", "spawned", "setup", "desks", "raised", "giving",
                     "stamping", "returned", "abandoning"}
Pump == [at : Stages, cost : Nat, basis : {"live", "asof"}, journals : BOOLEAN]
NoPump == [at |-> "none", cost |-> 0, basis |-> "live", journals |-> TRUE]

Entries == {"running", "failed"} \cup Verdicts

TypeOK ==
    /\ row \in [Runs -> Row]
    /\ key \in [Runs -> Keys \cup {None}]
    /\ index \subseteq Runs
    /\ paid \in [Runs -> Nat] /\ given \in [Runs -> Nat]
    /\ journal \in [Runs -> Seq(Entries)]
    /\ phase \in {"down", "sweeping", "resuming", "serving", "stopping"}
    /\ pump \in [Runs -> Pump]
    /\ active \in [Keys -> Runs \cup {None}]
    /\ pending \subseteq Runs /\ owed \subseteq Runs
    /\ retrying \in [Runs -> Nat]
    /\ attempts \in [Runs -> Nat] /\ lost \subseteq Runs

Init ==
    /\ row = [r \in Runs |-> NoRow]
    /\ key = [r \in Runs |-> None]
    /\ index = {}
    /\ paid = [r \in Runs |-> 0] /\ given = [r \in Runs |-> 0]
    /\ journal = [r \in Runs |-> <<>>]
    /\ phase = "down"
    /\ pump = [r \in Runs |-> NoPump]
    /\ active = [k \in Keys |-> None]
    /\ pending = {} /\ owed = {}
    /\ retrying = [r \in Runs |-> 0]
    /\ attempts = [r \in Runs |-> 0] /\ lost = {}

-----------------------------------------------------------------------------
At(r, stage) == pump[r].at = stage
Alive(r) == ~At(r, "none")
Goto(r, stage) == pump' = [pump EXCEPT ![r].at = stage]
SetRow(r, new) == row' = [row EXCEPT ![r] = new]

\* The loop is free for any task, and it is running.
Alone == \E r \in Runs : pump[r].at \in Sync
Looping == phase \in {"resuming", "serving", "stopping"} /\ ~Alone

\* _persist_run of the RoomRun a pump holds: every column but the retry
\* counter and the interrupted mark.
Persisted(r, status, verdict, refunded, snapshot) ==
    [row[r] EXCEPT !.status = status, !.verdict = verdict, !.basis = pump[r].basis,
                   !.cost = pump[r].cost, !.refunded = refunded, !.snapshot = snapshot]

\* refund(): exactly what it is given, or it raises and the credits are lost.
GiveBack(r, amount, done, failed) ==
    \/ /\ given' = [given EXCEPT ![r] = @ + amount]
       /\ lost' = lost
       /\ Goto(r, done)
    \/ /\ "refund" \in Faults
       /\ given' = given
       /\ lost' = lost \cup {r}
       /\ Goto(r, failed)

-----------------------------------------------------------------------------
(* Starting a run: start_run.  It has no await, so its dedup check, its    *)
(* charge and its registration are one step of the loop.                   *)

\* _find_active_run: what the table says is in flight.
InFlight(k) == {r \in Runs : /\ key[r] = k /\ row[r].status = "running"
                             /\ ~row[r].interrupted /\ row[r].age = 0}
\* _find_recent_completed_run.
Recent(k) == {r \in Runs : /\ key[r] = k /\ row[r].status = "completed"
                           /\ row[r].verdict # "none" /\ row[r].age < 2}

AttachedByTable(k) == InFlight(k) # {} \/ Recent(k) # {}   \* mutant of Attached
\* Both dedup tiers: the user is shown a run there is instead of a new one.
Attached(k) == active[k] # None \/ InFlight(k) # {} \/ Recent(k) # {}

Fresh(r) == key[r] = None

StartRun(r, k) ==
    /\ phase = "serving" /\ ~Alone
    /\ Fresh(r) /\ ~Attached(k)
    /\ \E price \in Prices :
          /\ paid' = [paid EXCEPT ![r] = price]
          /\ pump' = [pump EXCEPT ![r] = [NoPump EXCEPT !.at = "spawned", !.cost = price]]
    /\ key' = [key EXCEPT ![r] = k]
    /\ active' = [active EXCEPT ![k] = r]
    /\ UNCHANGED <<row, index, given, journal, phase, pending, owed, retrying, history>>

\* A backtest: its index row first, which is unique, no dedup and no entry in
\* the map of active runs.
IndexBacktest(r, k) ==
    /\ Backtests /\ phase = "serving" /\ ~Alone
    /\ Fresh(r) /\ ~\E q \in index : key[q] = k
    /\ index' = index \cup {r}
    /\ key' = [key EXCEPT ![r] = k]
    /\ pump' = [pump EXCEPT ![r] = [NoPump EXCEPT !.at = "indexed", !.basis = "asof",
                                                   !.journals = FALSE]]
    /\ UNCHANGED <<row, paid, given, journal, phase, active, pending, owed, retrying,
                   history>>

\* Then its charge, or the index row is taken back.
ChargeBacktest(r) ==
    /\ At(r, "indexed")
    /\ \/ \E price \in Prices :
             /\ paid' = [paid EXCEPT ![r] = price]
             /\ pump' = [pump EXCEPT ![r].at = "spawned", ![r].cost = price]
             /\ UNCHANGED <<index, key>>
       \/ /\ index' = index \ {r}
          /\ key' = [key EXCEPT ![r] = None]
          /\ pump' = [pump EXCEPT ![r] = NoPump]
          /\ paid' = paid
    /\ UNCHANGED <<row, given, journal, phase, active, pending, owed, retrying, history>>

-----------------------------------------------------------------------------
(* The pump: run() and what surrounds it. *)

Raise(r, stage) ==
    /\ Looping /\ At(r, stage) /\ Goto(r, "raised")
    /\ UNCHANGED <<disk, phase, active, pending, owed, retrying, history>>

\* The row is written first.  Reading the plan, or that write, may raise.
Begin(r) ==
    /\ Looping /\ At(r, "spawned")
    /\ SetRow(r, [Persisted(r, "running", "none", FALSE, FALSE) EXCEPT !.age = 0])
    /\ Goto(r, "setup")
    /\ attempts' = [attempts EXCEPT ![r] = IF @ < Bound THEN @ + 1 ELSE @]
    /\ UNCHANGED <<key, index, paid, given, journal, phase, active, pending, owed,
                   retrying, lost>>

SetUp(r) ==
    /\ Looping /\ At(r, "setup") /\ Goto(r, "desks")
    /\ UNCHANGED <<disk, phase, active, pending, owed, retrying, history>>

\* The desks have spoken.  A verdict with the shape of an outage is owed back.
Complete(r, verdict) ==
    /\ Looping /\ At(r, "desks")
    /\ SetRow(r, [Persisted(r, "completed", verdict, FALSE, FALSE) EXCEPT !.age = 0])
    /\ Goto(r, IF verdict \in Shaped THEN "owing" ELSE "ending")
    /\ UNCHANGED <<key, index, paid, given, journal, phase, active, pending, owed,
                   retrying, history>>

FlagUnpaid(r) ==   \* mutant of RefundOutage: the flag goes by the verdict's shape
    /\ At(r, "owing")
    /\ \/ given' = [given EXCEPT ![r] = @ + pump[r].cost] /\ lost' = lost
       \/ "refund" \in Faults /\ given' = given /\ lost' = lost \cup {r}
    /\ Goto(r, "flagging")
    /\ UNCHANGED <<row, key, index, paid, journal, phase, active, pending, owed, retrying,
                   attempts>>

RefundOutage(r) ==
    /\ At(r, "owing") /\ GiveBack(r, pump[r].cost, "flagging", "ending")
    /\ UNCHANGED <<row, key, index, paid, journal, phase, active, pending, owed, retrying,
                   attempts>>

\* The refund is recorded, with what the CIO needs to be asked again unless it
\* cannot be encoded.  Both writes may fail; neither may raise.
FlagOutage(r) ==
    /\ At(r, "flagging")
    /\ \/ \E kept \in {FALSE, row[r].verdict = "outage"} :
             SetRow(r, Persisted(r, "completed", row[r].verdict, TRUE, kept))
       \/ "write" \in Faults /\ row' = row
    /\ Goto(r, "ending")
    /\ UNCHANGED <<key, index, paid, given, journal, phase, active, pending, owed,
                   retrying, history>>

\* except Exception: the row fails, then the refund, then its flag.  If the
\* write raises, the exception reaches the pump.
Fail(r) ==
    /\ Looping /\ At(r, "desks")
    /\ \/ /\ SetRow(r, Persisted(r, "failed", "none", FALSE, FALSE))
          /\ Goto(r, "failing")
       \/ "write" \in Faults /\ row' = row /\ Goto(r, "raised")
    /\ UNCHANGED <<key, index, paid, given, journal, phase, active, pending, owed,
                   retrying, history>>

RefundFailed(r) ==
    /\ At(r, "failing") /\ GiveBack(r, pump[r].cost, "noting", "ending")
    /\ UNCHANGED <<row, key, index, paid, journal, phase, active, pending, owed, retrying,
                   attempts>>

FlagFailed(r) ==
    /\ At(r, "noting")
    /\ \/ SetRow(r, Persisted(r, "failed", "none", TRUE, FALSE)) /\ Goto(r, "ending")
       \/ "write" \in Faults /\ row' = row /\ Goto(r, "raised")
    /\ UNCHANGED <<key, index, paid, given, journal, phase, active, pending, owed,
                   retrying, history>>

-----------------------------------------------------------------------------
(* _fail_stranded_run, in a thread of its own: fail the row if it is       *)
(* running, refund it, record the refund.                                  *)

Backstop(r) ==
    /\ At(r, "raised")
    /\ \/ /\ row[r].status = "running"
          /\ SetRow(r, [row[r] EXCEPT !.status = "failed"])
          /\ Goto(r, IF row[r].refunded THEN "returned" ELSE "giving")
       \/ /\ row[r].status # "running" \/ "write" \in Faults
          /\ row' = row
          /\ Goto(r, "returned")
    /\ UNCHANGED <<key, index, paid, given, journal, phase, active, pending, owed,
                   retrying, history>>

BackstopRefund(r) ==
    /\ At(r, "giving") /\ GiveBack(r, row[r].cost, "stamping", "returned")
    /\ UNCHANGED <<row, key, index, paid, journal, phase, active, pending, owed, retrying,
                   attempts>>

BackstopFlag(r) ==
    /\ At(r, "stamping")
    /\ \/ SetRow(r, [row[r] EXCEPT !.refunded = TRUE])
       \/ "write" \in Faults /\ row' = row
    /\ Goto(r, "returned")
    /\ UNCHANGED <<key, index, paid, given, journal, phase, active, pending, owed,
                   retrying, history>>

-----------------------------------------------------------------------------
(* finally: the pump gives up its key and reports to the journal.          *)

Reported(r) == IF row[r].status = "completed" THEN row[r].verdict ELSE row[r].status

\* The key goes whoever holds it now.  A backtest has none.
Released(r) ==
    IF pump[r].journals THEN [active EXCEPT ![key[r]] = None] ELSE active

Journalled(r) ==
    journal' = [journal EXCEPT ![r] = IF row[r].status = "absent" \/ Len(@) = Bound THEN @
                                      ELSE Append(@, Reported(r))]

\* Three attempts of one entry, taken as one that works or does not.  Nothing
\* is reported while the process stops.
End(r) ==
    /\ At(r, "ending") \/ (Looping /\ At(r, "returned"))
    /\ active' = Released(r)
    /\ pump' = [pump EXCEPT ![r] = NoPump]
    /\ IF pump[r].journals /\ phase # "stopping"
       THEN Journalled(r) \/ ("journal" \in Faults /\ journal' = journal)
       ELSE journal' = journal
    /\ UNCHANGED <<row, key, index, paid, given, phase, pending, owed, retrying, history>>

-----------------------------------------------------------------------------
(* Stopping and dying. *)

Stop ==
    /\ phase = "serving" /\ ~Alone
    /\ phase' = "stopping"
    /\ retrying' = [r \in Runs |-> 0]
    /\ UNCHANGED <<disk, pump, active, pending, owed, history>>

CancelJournalling(r) ==   \* mutant of Cancel: finally reports what it finds
    /\ phase = "stopping" /\ ~Alone
    /\ pump[r].at \in {"spawned", "setup", "desks"}
    /\ row' = [row EXCEPT ![r].interrupted = At(r, "desks") \/ @]
    /\ active' = Released(r)
    /\ pump' = [pump EXCEPT ![r] = NoPump]
    /\ IF pump[r].journals THEN Journalled(r) ELSE journal' = journal
    /\ UNCHANGED <<key, index, paid, given, phase, pending, owed, retrying, history>>

\* cancel_pumps_for_shutdown and the teardown of the loop.  Only a run inside
\* run()'s try marks its row, if the write succeeds.
Cancel(r) ==
    /\ phase = "stopping" /\ ~Alone
    /\ pump[r].at \in {"spawned", "setup", "desks"}
    /\ \/ At(r, "desks") /\ row' = [row EXCEPT ![r].interrupted = TRUE]
       \/ (~At(r, "desks") \/ "write" \in Faults) /\ row' = row
    /\ active' = Released(r)
    /\ pump' = [pump EXCEPT ![r] = NoPump]
    /\ UNCHANGED <<key, index, paid, given, journal, phase, pending, owed, retrying,
                   history>>

\* Memory is gone.  A refund that was still to be made is not made.
Die ==
    /\ phase # "down"
    /\ Crashes \/ (phase = "stopping" /\ \A r \in Runs : ~Alive(r))
    /\ phase' = "down"
    /\ pump' = [r \in Runs |-> NoPump]
    /\ active' = [k \in Keys |-> None]
    /\ pending' = {} /\ owed' = {}
    /\ retrying' = [r \in Runs |-> 0]
    /\ lost' = lost \cup owed
                    \cup {r \in Runs : pump[r].at \in {"owing", "failing", "giving",
                                                       "abandoning"}}
    /\ UNCHANGED <<disk, attempts>>

-----------------------------------------------------------------------------
(* Booting: _sweep_stuck_runs when the runner is built, then               *)
(* resume_pending_retries, then requests.                                  *)

StuckMarked == {r \in Runs : row[r].status = "running" /\ row[r].interrupted}   \* mutant
\* Marked at a shutdown, or running for longer than the dedup window.
Stuck == {r \in Runs : row[r].status = "running" /\ (row[r].interrupted \/ row[r].age > 0)}
Again == {r \in Stuck : row[r].retries < MaxAutoRetries}

ClaimedUncounted(r) == [row[r] EXCEPT !.age = 0, !.verdict = "none", !.interrupted = FALSE]

\* A stuck row is claimed for one more attempt, or fails.
Claimed(r) == [row[r] EXCEPT !.retries = @ + 1, !.age = 0, !.verdict = "none",
                             !.interrupted = FALSE]

OwedAtBoot == {r \in Stuck \ Again : row[r].cost > 0}

\* If the transaction fails, the list in memory may have been filled already.
Boot ==
    /\ phase = "down"
    /\ \/ /\ row' = [r \in Runs |-> CASE r \in Again -> Claimed(r)
                                      [] r \in Stuck \ Again -> [row[r] EXCEPT !.status = "failed"]
                                      [] OTHER -> row[r]]
          /\ pending' = Again
          /\ owed' = OwedAtBoot
       \/ /\ "write" \in Faults
          /\ row' = row /\ owed' = {}
          /\ pending' \in {{}, Again}
    /\ phase' = "sweeping"
    /\ UNCHANGED <<key, index, paid, given, journal, pump, active, retrying, history>>

SweepRefund(r) ==
    /\ phase = "sweeping" /\ r \in owed
    /\ \/ given' = [given EXCEPT ![r] = @ + row[r].cost] /\ lost' = lost
       \/ "refund" \in Faults /\ given' = given /\ lost' = lost \cup {r}
    /\ owed' = owed \ {r}
    /\ UNCHANGED <<row, key, index, paid, journal, phase, pump, active, pending, retrying,
                   attempts>>

Swept ==
    /\ phase = "sweeping" /\ owed = {}
    /\ phase' = "resuming"
    /\ UNCHANGED <<disk, pump, active, pending, owed, retrying, history>>

\* _respawn_run_from_row: the pump carries the row's charge, and no as-of
\* context.
AtBasePrice(r) == CHOOSE p \in Prices : \A q \in Prices : p <= q   \* mutant of Carried
Carried(r) == row[r].cost

Respawn(r) ==
    /\ phase = "resuming" /\ Looping /\ r \in pending
    /\ ~\E q \in Runs : At(q, "abandoning")
    /\ pump' = [pump EXCEPT ![r] = [NoPump EXCEPT !.at = "spawned", !.cost = Carried(r)]]
    /\ active' = [active EXCEPT ![key[r]] = r]
    /\ pending' = pending \ {r}
    /\ UNCHANGED <<disk, phase, owed, retrying, history>>

\* The portfolio cannot be read: fail and refund instead.
Abandon(r) ==
    /\ phase = "resuming" /\ Looping /\ r \in pending
    /\ ~\E q \in Runs : At(q, "abandoning")
    /\ row' = [row EXCEPT ![r].status = "failed"]
    /\ pump' = [pump EXCEPT ![r] = [NoPump EXCEPT !.at = "abandoning"]]
    /\ pending' = pending \ {r}
    /\ UNCHANGED <<key, index, paid, given, journal, phase, active, owed, retrying, history>>

RefundAbandoned(r) ==
    /\ At(r, "abandoning")
    /\ \/ given' = [given EXCEPT ![r] = @ + row[r].cost] /\ lost' = lost
       \/ "refund" \in Faults /\ given' = given /\ lost' = lost \cup {r}
    /\ pump' = [pump EXCEPT ![r] = NoPump]
    /\ UNCHANGED <<row, key, index, paid, journal, phase, active, pending, owed, retrying,
                   attempts>>

\* Anything else that raises: a warning, and the row stays claimed.
Forget(r) ==
    /\ "write" \in Faults /\ phase = "resuming" /\ Looping /\ r \in pending
    /\ ~\E q \in Runs : At(q, "abandoning")
    /\ pending' = pending \ {r}
    /\ UNCHANGED <<disk, phase, pump, active, owed, retrying, history>>

Serve ==
    /\ phase = "resuming" /\ Looping /\ pending = {}
    /\ ~\E q \in Runs : At(q, "abandoning")
    /\ phase' = "serving"
    /\ UNCHANGED <<disk, pump, active, pending, owed, retrying, history>>

-----------------------------------------------------------------------------
(* retry_cio_step: the CIO of a refunded outage is asked again, for free.  *)

\* cio_retry_eligible.
Eligible(r) ==
    /\ row[r].status = "completed" /\ row[r].verdict = "outage"
    /\ row[r].snapshot /\ row[r].age = 0

Unguarded(r) == retrying[r] < 2    \* mutant of NotRetrying
NotRetrying(r) == retrying[r] = 0

AskAgain(r) ==
    /\ phase = "serving" /\ ~Alone
    /\ NotRetrying(r) /\ Eligible(r)
    /\ retrying' = [retrying EXCEPT ![r] = @ + 1]
    /\ UNCHANGED <<disk, phase, pump, active, pending, owed, history>>

\* The outage verdict of a journal entry is replaced; an entry that never was
\* is written now.
Rewritten(r) ==
    [journal EXCEPT ![r] = IF @ = <<>> THEN <<"real">>
                           ELSE [i \in DOMAIN @ |-> "real"]]

\* The step works on the run it read: it writes back that outage, or a verdict.
Answer(r) ==
    /\ phase = "serving" /\ ~Alone /\ retrying[r] > 0
    /\ \/ /\ SetRow(r, [row[r] EXCEPT !.verdict = "outage", !.snapshot = TRUE])
          /\ journal' = journal
       \/ /\ SetRow(r, [row[r] EXCEPT !.verdict = "real", !.snapshot = FALSE])
          /\ journal' = Rewritten(r) \/ ("journal" \in Faults /\ journal' = journal)
    /\ retrying' = [retrying EXCEPT ![r] = @ - 1]
    /\ UNCHANGED <<key, index, paid, given, phase, pump, active, pending, owed, history>>

\* The client is gone, or the step raised.
DropRetry(r) ==
    /\ phase = "serving" /\ ~Alone /\ retrying[r] > 0
    /\ retrying' = [retrying EXCEPT ![r] = @ - 1]
    /\ UNCHANGED <<disk, phase, pump, active, pending, owed, history>>

-----------------------------------------------------------------------------
\* Time.  A running row is past room_dedup_running_minutes at 1; a completed
\* one is past the retry's age at 1 and past the dedup window at 2.
Older(r) ==
    /\ row[r].status \in {"running", "completed"} /\ row[r].age < 2
    /\ Overruns \/ ~Alive(r)
    /\ row' = [row EXCEPT ![r].age = @ + 1]
    /\ UNCHANGED <<key, index, paid, given, journal, memory, history>>

PumpStep(r) ==
    \/ Begin(r) \/ SetUp(r) \/ Fail(r)
    \/ \E v \in Verdicts \ {"none"} : Complete(r, v)
    \/ RefundOutage(r) \/ FlagOutage(r) \/ RefundFailed(r) \/ FlagFailed(r)
    \/ \E stage \in {"spawned", "setup"} : Raise(r, stage)
    \/ Backstop(r) \/ BackstopRefund(r) \/ BackstopFlag(r)
    \/ End(r) \/ ChargeBacktest(r)

BootStep == Boot \/ Swept \/ Serve \/ \E r \in Runs : SweepRefund(r)

ResumeStep(r) == Respawn(r) \/ Abandon(r) \/ RefundAbandoned(r) \/ Forget(r)

Next ==
    \/ \E r \in Runs, k \in Keys : StartRun(r, k) \/ IndexBacktest(r, k)
    \/ \E r \in Runs :
          \/ PumpStep(r) \/ Cancel(r) \/ ResumeStep(r)
          \/ AskAgain(r) \/ Answer(r) \/ DropRetry(r) \/ Older(r)
    \/ BootStep \/ Stop \/ Die

Spec == Init /\ [][Next]_vars

\* The loop runs its tasks, time passes, and the service is started again
\* whenever it is down and stopped again some day: the sweep runs at a boot
\* only, so a promise about stuck rows needs one.
FairSpec ==
    /\ Spec
    /\ \A r \in Runs : /\ WF_vars(PumpStep(r)) /\ WF_vars(ResumeStep(r))
                       /\ WF_vars(Older(r)) /\ WF_vars(Cancel(r))
    /\ WF_vars(BootStep)
    /\ WF_vars(Stop) /\ WF_vars(Die)

-----------------------------------------------------------------------------
(* Properties. *)

\* The charge of a run is earned by a verdict or given back in full, once,
\* through every crash, retry, sweep and backstop: the code keeps five refund
\* sites apart by row status and memory alone.
Charge == INSTANCE RoomCharge WITH
    taken <- paid, back <- given,
    earned <- {r \in Runs : /\ paid[r] > 0 /\ given[r] = 0
                            /\ row[r].status = "completed" /\ row[r].verdict = "real"}
ChargeSpec == Charge!Spec

\* A row never claims a refund the ledger did not see (run_was_refunded reads
\* refund_recorded); and whichever path failed the row (desks, backstop, sweep,
\* respawn), the user has the credits back, unless a refund raised or the process
\* died before it.
RefundsAreTold ==
    \A r \in Runs :
        /\ row[r].refunded => given[r] = paid[r] /\ paid[r] > 0
        /\ /\ row[r].status = "failed" /\ r \notin lost \cup owed
           /\ pump[r].at \notin {"failing", "giving", "abandoning"}
           => given[r] = paid[r]

\* A row marked interrupted is executed by nobody, so the next boot may claim it
\* at any age; and a Room that keeps dying is executed once and retried once,
\* however often the process comes back.
RetriedOnce ==
    \A r \in Runs : /\ row[r].interrupted /\ row[r].status = "running" => ~Alive(r)
                    /\ attempts[r] <= 1 + MaxAutoRetries

\* A Room has at most one journal entry, of how it ended, although entries have
\* no key to find duplicates by and two closures may write them.
JournalledOnce ==
    \A r \in Runs : journal[r] = <<>> \/ (Len(journal[r]) = 1 /\ journal[r][1] # "running")

\* A user is never charged for a second Room on a ticker while one is under way,
\* in memory but not yet in the table or the other way round; unless boots have
\* tried two Rooms of the key again: the first to end gives up the other's key.
TwoTried(k) ==
    \E p, q \in Runs : /\ p # q /\ key[p] = k /\ key[q] = k
                       /\ row[p].retries > 0 /\ row[q].retries > 0

OneRoomPerKey ==
    [][\A r \in Runs : (paid'[r] # paid[r] /\ r \notin index) =>
          \/ TwoTried(key'[r])
          \/ ~\E q \in Runs : key[q] = key'[r] /\ Alive(q) /\ pump[q].journals]_vars

\* A verdict of the CIO stays: no retry that is still under way, sweep or
\* backstop takes it away again.
VerdictStays ==
    [][\A r \in Runs : row[r].status = "completed" /\ row[r].verdict = "real" =>
          row'[r].status = "completed" /\ row'[r].verdict = "real"]_vars

\* Every Room that has a row ends, in spite of crashes at any step.
RoomsEnd == \A r \in Runs : row[r].status = "running" ~> row[r].status \in {"completed", "failed"}
=============================================================================
