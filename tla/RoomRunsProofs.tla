--------------------------- MODULE RoomRunsProofs ---------------------------
(***************************************************************************)
(* Proofs about RoomRuns, for any number of Rooms, any prices and any      *)
(* faults: the rows tell the truth about refunds, a verdict stays, and the *)
(* runner implements the charge of RoomCharge.  As long as the writes of   *)
(* the rows succeed, also: a Room is tried again once, has one entry in    *)
(* the journal, and no second Room is charged on its key.                  *)
(*                                                                         *)
(* The process may stop or die at any step, so what a pump, the sweep or a *)
(* retry goes by is stated of the row, the ledger and what they hold in    *)
(* memory together: that is IInv.  Life adds what restarts leave of a run. *)
(***************************************************************************)
EXTENDS RoomRuns, TLAPS

(* The charge of a run is held, or has been given back.                    *)
Taken(r) == paid[r] > 0 /\ given[r] = 0
Returned(r) == paid[r] > 0 /\ given[r] = paid[r]

Unstarted(r) == row[r] = NoRow /\ paid[r] = 0 /\ given[r] = 0

(* What the row alone says about the money.                                *)
RowInv(r) ==
    /\ row[r].status = "absent" => given[r] = 0
    /\ row[r].status = "running" => Taken(r) /\ row[r].cost = paid[r]
    /\ row[r].refunded => Returned(r)
    /\ row[r].snapshot => row[r].status = "completed" /\ row[r].refunded

(* What the pump knows: its cost is the charge, and its stage says how far *)
(* the row and the refund are.                                             *)
PumpInv(r) ==
    /\ key[r] = None => Unstarted(r) /\ At(r, "none")
    /\ At(r, "indexed") => Unstarted(r)
    /\ pump[r].at \notin {"none", "indexed", "abandoning"}
          => pump[r].cost = paid[r] /\ paid[r] > 0
    /\ At(r, "spawned") => row[r].status \in {"absent", "running"}
    /\ pump[r].at \in {"setup", "desks"} => row[r].status = "running"
    /\ pump[r].at \in {"owing", "flagging"}
          => row[r].status = "completed" /\ row[r].verdict \in Shaped
    /\ pump[r].at \in {"failing", "noting", "giving", "stamping", "abandoning"}
          => row[r].status = "failed"
    /\ pump[r].at \in {"giving", "abandoning"} => row[r].cost = paid[r]
    /\ pump[r].at \in {"owing", "failing", "giving", "abandoning"} => Taken(r)
    /\ pump[r].at \in {"flagging", "noting", "stamping"} => Returned(r)
    /\ row[r].status = "completed" => pump[r].at \in {"none", "owing", "flagging", "ending"}
    /\ At(r, "ending") => row[r].status \in {"completed", "failed"}

(* What the sweep, the resume and a CIO retry have in hand.                *)
QueueInv(r) ==
    /\ r \in pending => row[r].status = "running" /\ At(r, "none")
    /\ r \in owed => /\ row[r].status = "failed" /\ At(r, "none")
                     /\ Taken(r) /\ row[r].cost = paid[r]
    /\ retrying[r] > 0 => /\ row[r].status = "completed" /\ row[r].verdict = "outage"
                          /\ row[r].snapshot /\ At(r, "none") /\ retrying[r] = 1

(* The second half of RefundsAreTold.                                      *)
Told(r) ==
    /\ row[r].status = "failed" /\ r \notin lost \cup owed
    /\ pump[r].at \notin {"failing", "giving", "abandoning"}
    => given[r] = paid[r]

RunInv(r) == RowInv(r) /\ PumpInv(r) /\ QueueInv(r) /\ Told(r)

PhaseInv ==
    /\ phase \in {"down", "sweeping"} => \A r \in Runs : At(r, "none")
    /\ phase # "sweeping" => owed = {}

IInv == TypeOK /\ PhaseInv /\ \A r \in Runs : RunInv(r)
-----------------------------------------------------------------------------
(* Types *)

LEMMA PersistedType ==
    ASSUME TypeOK, NEW r \in Runs,
           NEW status \in {"absent", "running", "completed", "failed"},
           NEW verdict \in Verdicts, NEW refunded \in BOOLEAN, NEW snapshot \in BOOLEAN
    PROVE  Persisted(r, status, verdict, refunded, snapshot) \in Row
<1>1. row[r] \in Row /\ pump[r].basis \in {"live", "asof"} /\ pump[r].cost \in Nat
  BY DEF TypeOK, Pump
<1>. QED  BY <1>1 DEF Persisted, Row

LEMMA NoPumpType == NoPump \in Pump /\ NoPump.at = "none"
  BY DEF NoPump, Pump, Stages, Sync

LEMMA NoRowType ==
    /\ NoRow \in Row
    /\ NoRow.status = "absent" /\ NoRow.refunded = FALSE /\ NoRow.snapshot = FALSE
  BY DEF NoRow, Row, Verdicts

LEMMA GotoType ==
    ASSUME TypeOK, NEW r \in Runs, NEW stage \in Stages, Goto(r, stage)
    PROVE  /\ pump' \in [Runs -> Pump]
           /\ pump'[r].at = stage /\ pump'[r].cost = pump[r].cost
           /\ \A q \in Runs \ {r} : pump'[q] = pump[q]
  BY DEF Goto, TypeOK, Pump

LEMMA SetRowType ==
    ASSUME TypeOK, NEW r \in Runs, NEW new \in Row, SetRow(r, new)
    PROVE  /\ row' \in [Runs -> Row] /\ row'[r] = new
           /\ \A q \in Runs \ {r} : row'[q] = row[q]
  BY DEF SetRow, TypeOK

LEMMA GiveBackType ==
    ASSUME TypeOK, NEW r \in Runs, NEW amount \in Nat, NEW done \in Stages,
           NEW failed \in Stages, GiveBack(r, amount, done, failed)
    PROVE  /\ given' \in [Runs -> Nat] /\ lost' \subseteq Runs
           /\ pump' \in [Runs -> Pump] /\ pump'[r].cost = pump[r].cost
           /\ \/ given'[r] = given[r] + amount /\ lost' = lost /\ pump'[r].at = done
              \/ given' = given /\ lost' = lost \cup {r} /\ pump'[r].at = failed
           /\ \A q \in Runs \ {r} : pump'[q] = pump[q] /\ given'[q] = given[q]
<1>1. PICK stage \in {done, failed} :
         /\ Goto(r, stage)
         /\ \/ given' = [given EXCEPT ![r] = @ + amount] /\ lost' = lost /\ stage = done
            \/ given' = given /\ lost' = lost \cup {r} /\ stage = failed
  BY DEF GiveBack
<1>2. /\ pump' \in [Runs -> Pump]
      /\ pump'[r].at = stage /\ pump'[r].cost = pump[r].cost
      /\ \A q \in Runs \ {r} : pump'[q] = pump[q]
  BY <1>1, GotoType
<1>3. given \in [Runs -> Nat] /\ lost \subseteq Runs
  BY DEF TypeOK
<1>. QED  BY <1>1, <1>2, <1>3

LEMMA InitType == Init => TypeOK
<1> SUFFICES ASSUME Init PROVE TypeOK
  OBVIOUS
<1>1. journal \in [Runs -> Seq(Entries)]
  BY DEF Init
<1>. QED  BY <1>1, NoPumpType, NoRowType DEF Init, TypeOK

LEMMA JournalledType ==
    ASSUME TypeOK, NEW r \in Runs, Journalled(r)
    PROVE  journal' \in [Runs -> Seq(Entries)]
<1>1. row[r].status # "absent" => Reported(r) \in Entries
  BY DEF Reported, TypeOK, Row, Entries, Verdicts
<1>2. journal[r] \in Seq(Entries) /\ journal \in [Runs -> Seq(Entries)]
  BY DEF TypeOK
<1>3. row[r].status # "absent" => Append(journal[r], Reported(r)) \in Seq(Entries)
  BY <1>1, <1>2
<1>. QED  BY <1>2, <1>3 DEF Journalled

LEMMA RewrittenType ==
    ASSUME TypeOK, NEW r \in Runs, journal' = Rewritten(r)
    PROVE  journal' \in [Runs -> Seq(Entries)]
<1>1. "real" \in Entries
  BY DEF Entries, Verdicts
<1>2. journal[r] \in Seq(Entries) /\ journal \in [Runs -> Seq(Entries)]
  BY DEF TypeOK
<1>3. <<"real">> \in Seq(Entries)
  BY <1>1
<1>4. [i \in DOMAIN journal[r] |-> "real"] \in Seq(Entries)
  BY <1>1, <1>2
<1>. QED  BY <1>2, <1>3, <1>4 DEF Rewritten

(* Starting a Room.                                                        *)
LEMMA StartType ==
    ASSUME TypeOK, NEW r \in Runs,
           \/ \E k \in Keys : StartRun(r, k) \/ IndexBacktest(r, k)
           \/ ChargeBacktest(r)
    PROVE  TypeOK'
<1>1. ASSUME NEW k \in Keys, StartRun(r, k) PROVE TypeOK'
  <2>1. PICK price \in Prices :
           /\ paid' = [paid EXCEPT ![r] = price]
           /\ pump' = [pump EXCEPT ![r] = [NoPump EXCEPT !.at = "spawned", !.cost = price]]
    BY <1>1 DEF StartRun
  <2>2. [NoPump EXCEPT !.at = "spawned", !.cost = price] \in Pump
    BY RoomAssumption DEF NoPump, Pump, Stages, Sync
  <2>. QED  BY <1>1, <2>1, <2>2, RoomAssumption DEF StartRun, TypeOK, history
<1>2. ASSUME NEW k \in Keys, IndexBacktest(r, k) PROVE TypeOK'
  <2>1. [NoPump EXCEPT !.at = "indexed", !.basis = "asof", !.journals = FALSE] \in Pump
    BY DEF NoPump, Pump, Stages, Sync
  <2>. QED  BY <1>2, <2>1 DEF IndexBacktest, TypeOK, history
<1>3. ASSUME ChargeBacktest(r) PROVE TypeOK'
  <2>1. paid \in [Runs -> Nat] /\ pump \in [Runs -> Pump] /\ pump[r] \in Pump
    BY DEF TypeOK
  <2>2. ASSUME NEW price \in Prices, paid' = [paid EXCEPT ![r] = price],
               pump' = [pump EXCEPT ![r].at = "spawned", ![r].cost = price]
        PROVE  paid' \in [Runs -> Nat] /\ pump' \in [Runs -> Pump]
    <3>1. price \in Nat
      BY RoomAssumption
    <3>2. [[pump[r] EXCEPT !.at = "spawned"] EXCEPT !.cost = price] \in Pump
      BY <2>1, <3>1 DEF Pump, Stages
    <3>3. pump' = [pump EXCEPT ![r] = [[pump[r] EXCEPT !.at = "spawned"] EXCEPT !.cost = price]]
      BY <2>1, <2>2
    <3>. QED  BY <2>1, <2>2, <3>1, <3>2, <3>3
  <2>3. ASSUME pump' = [pump EXCEPT ![r] = NoPump], paid' = paid
        PROVE  paid' \in [Runs -> Nat] /\ pump' \in [Runs -> Pump]
    BY <2>1, <2>3, NoPumpType
  <2>4. paid' \in [Runs -> Nat] /\ pump' \in [Runs -> Pump]
    BY <1>3, <2>2, <2>3 DEF ChargeBacktest
  <2>. QED  BY <1>3, <2>4 DEF ChargeBacktest, TypeOK, history
<1>. QED  BY <1>1, <1>2, <1>3

(* What a pump does to its own row and stage.                              *)
LEMMA PumpType ==
    ASSUME TypeOK, NEW r \in Runs,
           \/ Begin(r) \/ SetUp(r) \/ Fail(r)
           \/ \E v \in Verdicts \ {"none"} : Complete(r, v)
           \/ FlagOutage(r) \/ FlagFailed(r)
           \/ \E stage \in {"spawned", "setup"} : Raise(r, stage)
           \/ Backstop(r) \/ BackstopFlag(r)
    PROVE  TypeOK'
<1>1. PICK stage \in Stages : Goto(r, stage)
  BY DEF Begin, SetUp, Fail, Complete, FlagOutage, FlagFailed, Raise, Backstop,
         BackstopFlag, Stages, Sync
<1>2. pump' \in [Runs -> Pump]
  BY <1>1, GotoType
<1>3. row' \in [Runs -> Row]
  <2>1. row[r] \in Row /\ row \in [Runs -> Row]
    BY DEF TypeOK
  <2>2. \A v \in Verdicts, a, b \in BOOLEAN :
           /\ Persisted(r, "running", v, a, b) \in Row
           /\ Persisted(r, "completed", v, a, b) \in Row
           /\ Persisted(r, "failed", v, a, b) \in Row
    BY PersistedType
  <2>3. "none" \in Verdicts /\ row[r].verdict \in Verdicts
    BY <2>1 DEF Row, Verdicts
  <2>4. \A x \in Row : [x EXCEPT !.age = 0] \in Row
    BY DEF Row
  <2>5. [row[r] EXCEPT !.status = "failed"] \in Row /\ [row[r] EXCEPT !.refunded = TRUE] \in Row
    BY <2>1 DEF Row
  <2>6. row' = row \/ \E new \in Row : SetRow(r, new)
    <3>1. CASE Begin(r)
      BY <2>2, <2>3, <2>4, <3>1 DEF Begin
    <3>2. ASSUME NEW v \in Verdicts, Complete(r, v) PROVE \E new \in Row : SetRow(r, new)
      BY <2>2, <2>4, <3>2 DEF Complete
    <3>3. CASE Fail(r) \/ FlagFailed(r)
      BY <2>2, <2>3, <3>3 DEF Fail, FlagFailed
    <3>4. CASE FlagOutage(r)
      BY <2>2, <2>3, <3>4 DEF FlagOutage
    <3>5. CASE Backstop(r) \/ BackstopFlag(r)
      BY <2>5, <3>5 DEF Backstop, BackstopFlag
    <3>6. CASE SetUp(r) \/ \E s \in {"spawned", "setup"} : Raise(r, s)
      BY <3>6 DEF SetUp, Raise, disk
    <3>. QED  BY <3>1, <3>2, <3>3, <3>4, <3>5, <3>6
  <2>. QED  BY <2>1, <2>6, SetRowType
<1>4. attempts' \in [Runs -> Nat]
  <2>1. attempts \in [Runs -> Nat] /\ attempts[r] \in Nat /\ attempts[r] + 1 \in Nat
    BY DEF TypeOK
  <2>2. CASE Begin(r)
    BY <2>1, <2>2 DEF Begin
  <2>3. CASE ~Begin(r)
    <3>1. attempts' = attempts
      BY <2>3 DEF SetUp, Fail, Complete, FlagOutage, FlagFailed, Raise, Backstop,
                  BackstopFlag, history
    <3>. QED  BY <2>1, <3>1
  <2>. QED  BY <2>2, <2>3
<1>5. UNCHANGED <<key, index, paid, given, journal, phase, active, pending, owed, retrying,
                  lost>>
  BY DEF Begin, SetUp, Fail, Complete, FlagOutage, FlagFailed, Raise, Backstop,
         BackstopFlag, history, disk
<1>. QED  BY <1>2, <1>3, <1>4, <1>5 DEF TypeOK

LEMMA RefundType ==
    ASSUME TypeOK, NEW r \in Runs, RefundOutage(r) \/ RefundFailed(r) \/ BackstopRefund(r)
    PROVE  TypeOK'
<1>1. pump[r].cost \in Nat /\ row[r].cost \in Nat
  BY DEF TypeOK, Pump, Row
<1>2. PICK amount \in Nat, done \in Stages, failed \in Stages : GiveBack(r, amount, done, failed)
  BY <1>1 DEF RefundOutage, RefundFailed, BackstopRefund, Stages, Sync
<1>3. given' \in [Runs -> Nat] /\ lost' \subseteq Runs /\ pump' \in [Runs -> Pump]
  BY <1>2, GiveBackType
<1>. QED  BY <1>3 DEF RefundOutage, RefundFailed, BackstopRefund, TypeOK

LEMMA EndType ==
    ASSUME TypeOK, NEW r \in Runs, End(r) \/ Cancel(r)
    PROVE  TypeOK'
<1>1. active' \in [Keys -> Runs \cup {None}] /\ pump' \in [Runs -> Pump]
  BY NoPumpType DEF End, Cancel, Released, TypeOK
<1>2. journal' \in [Runs -> Seq(Entries)]
  BY JournalledType DEF End, Cancel, TypeOK
<1>3. row' \in [Runs -> Row]
  <2>1. [row[r] EXCEPT !.interrupted = TRUE] \in Row /\ row \in [Runs -> Row]
    BY DEF TypeOK, Row
  <2>2. row' = row \/ row' = [row EXCEPT ![r] = [row[r] EXCEPT !.interrupted = TRUE]]
    BY <2>1 DEF End, Cancel
  <2>. QED  BY <2>1, <2>2
<1>. QED  BY <1>1, <1>2, <1>3 DEF End, Cancel, TypeOK, history

LEMMA ProcessType ==
    ASSUME TypeOK, Stop \/ Die \/ Boot \/ Swept \/ Serve
    PROVE  TypeOK'
<1>1. CASE Stop
  BY <1>1 DEF Stop, TypeOK, disk, history
<1>2. CASE Die
  BY <1>2, NoPumpType DEF Die, TypeOK, disk
<1>3. CASE Boot
  <2>1. row' \in [Runs -> Row]
    <3>1. row \in [Runs -> Row]
      BY DEF TypeOK
    <3>2. ASSUME NEW x \in Row
          PROVE  /\ [x EXCEPT !.status = "failed"] \in Row
                 /\ [x EXCEPT !.retries = @ + 1, !.age = 0, !.verdict = "none",
                              !.interrupted = FALSE] \in Row
      <4>1. x.retries + 1 \in Nat /\ 0 \in 0..2 /\ "none" \in Verdicts
        BY DEF Row, Verdicts
      <4>2. [x EXCEPT !.status = "failed"] \in Row
        BY DEF Row
      <4>3. [x EXCEPT !.retries = @ + 1, !.age = 0] \in Row
        BY <4>1 DEF Row
      <4>. QED  BY <4>1, <4>2, <4>3 DEF Row
    <3>3. \A r \in Runs : Claimed(r) \in Row /\ [row[r] EXCEPT !.status = "failed"] \in Row
      BY <3>1, <3>2 DEF Claimed
    <3>. QED  BY <1>3, <3>1, <3>3 DEF Boot
  <2>2. pending' \subseteq Runs /\ owed' \subseteq Runs
    BY <1>3 DEF Boot, Again, Stuck, OwedAtBoot
  <2>. QED  BY <1>3, <2>1, <2>2 DEF Boot, TypeOK, history
<1>4. CASE Swept
  BY <1>4 DEF Swept, TypeOK, disk, history
<1>5. CASE Serve
  BY <1>5 DEF Serve, TypeOK, disk, history
<1>. QED  BY <1>1, <1>2, <1>3, <1>4, <1>5

LEMMA ResumeType ==
    ASSUME TypeOK, NEW r \in Runs, SweepRefund(r) \/ ResumeStep(r)
    PROVE  TypeOK'
<1>1. /\ row[r] \in Row /\ row \in [Runs -> Row] /\ given \in [Runs -> Nat]
      /\ pump \in [Runs -> Pump] /\ given[r] \in Nat
  BY DEF TypeOK
<1>2. CASE SweepRefund(r) \/ RefundAbandoned(r)
  <2>1. row[r].cost \in Nat
    BY <1>1 DEF Row
  <2>2. given' \in [Runs -> Nat] /\ lost' \subseteq Runs
    <3>1. given[r] + row[r].cost \in Nat /\ lost \cup {r} \subseteq Runs
      BY <1>1, <2>1 DEF TypeOK
    <3>. QED  BY <1>1, <1>2, <3>1 DEF SweepRefund, RefundAbandoned
  <2>3. pump' \in [Runs -> Pump]
    BY <1>1, <1>2, NoPumpType DEF SweepRefund, RefundAbandoned
  <2>. QED  BY <1>2, <2>2, <2>3 DEF SweepRefund, RefundAbandoned, TypeOK
<1>3. CASE Respawn(r)
  <2>1. [NoPump EXCEPT !.at = "spawned", !.cost = Carried(r)] \in Pump
    BY <1>1 DEF NoPump, Pump, Stages, Carried, Row
  <2>. QED  BY <1>1, <1>3, <2>1 DEF Respawn, TypeOK, disk, history
<1>4. CASE Abandon(r)
  <2>1. [NoPump EXCEPT !.at = "abandoning"] \in Pump
    BY DEF NoPump, Pump, Stages
  <2>2. [row[r] EXCEPT !.status = "failed"] \in Row
    BY <1>1 DEF Row
  <2>3. row' = [row EXCEPT ![r] = [row[r] EXCEPT !.status = "failed"]]
    BY <1>1, <1>4 DEF Abandon
  <2>. QED  BY <1>1, <1>4, <2>1, <2>2, <2>3 DEF Abandon, TypeOK, history
<1>5. CASE Forget(r)
  BY <1>5 DEF Forget, TypeOK, disk, history
<1>. QED  BY <1>2, <1>3, <1>4, <1>5 DEF ResumeStep

LEMMA RetryType ==
    ASSUME TypeOK, NEW r \in Runs, AskAgain(r) \/ Answer(r) \/ DropRetry(r) \/ Older(r)
    PROVE  TypeOK'
<1>1. /\ row[r] \in Row /\ row \in [Runs -> Row]
      /\ retrying \in [Runs -> Nat] /\ retrying[r] \in Nat
  BY DEF TypeOK
<1>2. CASE AskAgain(r)
  BY <1>1, <1>2 DEF AskAgain, TypeOK, disk, history
<1>3. CASE DropRetry(r)
  <2>1. retrying[r] - 1 \in Nat
    BY <1>1, <1>3 DEF DropRetry
  <2>. QED  BY <1>1, <1>3, <2>1 DEF DropRetry, TypeOK, disk, history
<1>4. CASE Answer(r)
  <2>1. retrying[r] - 1 \in Nat
    BY <1>1, <1>4 DEF Answer
  <2>2. /\ [row[r] EXCEPT !.verdict = "outage", !.snapshot = TRUE] \in Row
        /\ [row[r] EXCEPT !.verdict = "real", !.snapshot = FALSE] \in Row
    BY <1>1 DEF Row, Verdicts
  <2>3. row' \in [Runs -> Row]
    BY <1>1, <1>4, <2>2 DEF Answer, SetRow
  <2>4. journal' \in [Runs -> Seq(Entries)]
    BY <1>4, RewrittenType DEF Answer, TypeOK
  <2>5. retrying' \in [Runs -> Nat]
    BY <1>1, <1>4, <2>1 DEF Answer
  <2>. QED  BY <1>4, <2>3, <2>4, <2>5 DEF Answer, TypeOK, history
<1>5. CASE Older(r)
  <2>1. [row[r] EXCEPT !.age = @ + 1] \in Row
    BY <1>1, <1>5 DEF Older, Row
  <2>2. row' = [row EXCEPT ![r] = [row[r] EXCEPT !.age = @ + 1]]
    BY <1>1, <1>5 DEF Older
  <2>. QED  BY <1>1, <1>5, <2>1, <2>2 DEF Older, TypeOK, memory, history
<1>. QED  BY <1>2, <1>3, <1>4, <1>5

LEMMA NextType ==
    ASSUME TypeOK, Next
    PROVE  TypeOK'
<1>1. ASSUME NEW r \in Runs, PumpStep(r) PROVE TypeOK'
  BY <1>1, StartType, PumpType, RefundType, EndType DEF PumpStep
<1>. QED  BY <1>1, StartType, EndType, ResumeType, RetryType, ProcessType DEF Next, BootStep
-----------------------------------------------------------------------------
(* The invariant of a run holds as long as nothing of the run changes.     *)

Same(q) ==
    /\ row'[q] = row[q] /\ key'[q] = key[q]
    /\ paid'[q] = paid[q] /\ given'[q] = given[q]
    /\ pump'[q] = pump[q] /\ retrying'[q] = retrying[q]
    /\ q \in pending' => q \in pending
    /\ q \in owed' <=> q \in owed
    /\ lost \subseteq lost'

LEMMA Frame ==
    ASSUME NEW q \in Runs, RunInv(q), Same(q)
    PROVE  RunInv(q)'
<1>1. RowInv(q)'
  BY DEF Same, RunInv, RowInv, Taken, Returned
<1>2. PumpInv(q)'
  BY DEF Same, RunInv, PumpInv, Unstarted, At, Taken, Returned
<1>3. QueueInv(q)'
  BY DEF Same, RunInv, QueueInv, At, Taken
<1>4. Told(q)'
  BY DEF Same, RunInv, Told
<1>. QED  BY <1>1, <1>2, <1>3, <1>4 DEF RunInv

LEMMA PhaseFrame ==
    ASSUME PhaseInv, phase' = phase, owed' = owed,
           pump' = pump \/ phase \notin {"down", "sweeping"}
    PROVE  PhaseInv'
  BY DEF PhaseInv, At

LEMMA Busy ==
    ASSUME PhaseInv, NEW r \in Runs, ~At(r, "none")
    PROVE  phase \notin {"down", "sweeping"} /\ owed = {}
  BY DEF PhaseInv

(* Before anything was started.                                            *)
LEMMA InitInv == Init => PhaseInv /\ \A r \in Runs : RunInv(r)
<1> SUFFICES ASSUME Init, NEW r \in Runs PROVE PhaseInv /\ RunInv(r)
  BY DEF Init, PhaseInv
<1>1. /\ row[r] = NoRow /\ row[r].status = "absent" /\ row[r].refunded = FALSE
      /\ row[r].snapshot = FALSE
      /\ paid[r] = 0 /\ given[r] = 0 /\ pump[r].at = "none" /\ retrying[r] = 0
      /\ pending = {} /\ owed = {} /\ key[r] = None
  BY NoRowType, NoPumpType DEF Init
<1>2. PhaseInv
  BY NoPumpType DEF Init, PhaseInv, At
<1>3. RowInv(r) /\ QueueInv(r) /\ Told(r)
  BY <1>1 DEF RowInv, QueueInv, Told, At
<1>4. PumpInv(r)
  BY <1>1 DEF PumpInv, At, Unstarted
<1>. QED  BY <1>2, <1>3, <1>4 DEF RunInv
-----------------------------------------------------------------------------
(* Starting a Room *)

LEMMA Constants ==
    /\ \A k \in Keys : k # None
    /\ \A price \in Prices : price \in Nat /\ price > 0
  BY RoomAssumption

LEMMA StartInv ==
    ASSUME IInv, NEW r \in Runs,
           \/ \E k \in Keys : StartRun(r, k) \/ IndexBacktest(r, k)
           \/ ChargeBacktest(r)
    PROVE  PhaseInv' /\ \A q \in Runs : RunInv(q)'
<1>1. /\ TypeOK /\ PhaseInv /\ RunInv(r) /\ \A q \in Runs : RunInv(q)
  BY DEF IInv
<1>2. /\ row[r] = NoRow /\ paid[r] = 0 /\ given[r] = 0
      /\ At(r, "none") \/ At(r, "indexed")
  BY <1>1 DEF StartRun, IndexBacktest, ChargeBacktest, Fresh, RunInv, PumpInv, Unstarted
<1>3. \A q \in Runs \ {r} : Same(q)
  BY <1>1 DEF StartRun, IndexBacktest, ChargeBacktest, TypeOK, Same, history
<1>4. PhaseInv'
  <2>1. phase \notin {"down", "sweeping"} /\ phase' = phase /\ owed' = owed
    BY <1>1, Busy DEF StartRun, IndexBacktest, ChargeBacktest, At
  <2>. QED  BY <1>1, <2>1, PhaseFrame
<1>5. r \notin owed /\ r \notin pending /\ retrying[r] = 0
  BY <1>1, <1>2, NoRowType DEF RunInv, QueueInv, TypeOK
<1>6. /\ row'[r] = NoRow /\ given'[r] = 0
      /\ r \notin owed' /\ r \notin pending' /\ retrying'[r] = 0
  BY <1>2, <1>5 DEF StartRun, IndexBacktest, ChargeBacktest
<1>7. \/ /\ pump'[r].at = "spawned" /\ pump'[r].cost = paid'[r]
         /\ paid'[r] \in Nat /\ paid'[r] > 0 /\ key'[r] # None
      \/ pump'[r].at = "indexed" /\ paid'[r] = 0 /\ key'[r] # None
      \/ pump'[r].at = "none" /\ paid'[r] = 0 /\ key'[r] = None
  <2>1. ASSUME NEW k \in Keys, StartRun(r, k)
        PROVE  /\ pump'[r].at = "spawned" /\ pump'[r].cost = paid'[r]
               /\ paid'[r] \in Nat /\ paid'[r] > 0 /\ key'[r] # None
    <3>1. PICK price \in Prices :
             /\ paid' = [paid EXCEPT ![r] = price]
             /\ pump' = [pump EXCEPT ![r] = [NoPump EXCEPT !.at = "spawned", !.cost = price]]
      BY <2>1 DEF StartRun
    <3>2. paid'[r] = price /\ key'[r] = k
      BY <1>1, <2>1, <3>1 DEF StartRun, TypeOK
    <3>3. pump'[r].at = "spawned" /\ pump'[r].cost = price
      BY <1>1, <3>1 DEF TypeOK, NoPump
    <3>. QED  BY <3>2, <3>3, Constants
  <2>2. ASSUME NEW k \in Keys, IndexBacktest(r, k)
        PROVE  pump'[r].at = "indexed" /\ paid'[r] = 0 /\ key'[r] # None
    BY <1>1, <1>2, <2>2, Constants DEF IndexBacktest, TypeOK, NoPump
  <2>3. CASE ChargeBacktest(r)
    <3>1. /\ pump \in [Runs -> Pump] /\ pump[r] \in Pump /\ paid \in [Runs -> Nat]
          /\ key \in [Runs -> Keys \cup {None}]
      BY <1>1 DEF TypeOK
    <3>2. key[r] # None
      BY <1>1, <2>3 DEF RunInv, PumpInv, ChargeBacktest, At
    <3>3. ASSUME NEW price \in Prices,
                 pump' = [pump EXCEPT ![r].at = "spawned", ![r].cost = price]
          PROVE  pump'[r].at = "spawned" /\ pump'[r].cost = price
      BY <3>1, <3>3 DEF Pump
    <3>. QED  BY <1>2, <2>3, <3>1, <3>2, <3>3, NoPumpType, Constants DEF ChargeBacktest
  <2>. QED  BY <2>1, <2>2, <2>3
<1>8. RunInv(r)'
  <2>1. RowInv(r)' /\ QueueInv(r)' /\ Told(r)'
    BY <1>6, NoRowType DEF RowInv, QueueInv, Told, At
  <2>2. PumpInv(r)'
    BY <1>6, <1>7, NoRowType DEF PumpInv, At, Unstarted
  <2>. QED  BY <2>1, <2>2 DEF RunInv
<1>. QED  BY <1>1, <1>3, <1>4, <1>8, Frame
-----------------------------------------------------------------------------
(* The pump *)

(* A step of one pump concerns nobody else's run.                          *)
LEMMA PumpFrame ==
    ASSUME IInv, NEW r \in Runs, NEW stage \in Stages, Goto(r, stage), ~At(r, "none"),
           row' = row \/ \E new \in Row : SetRow(r, new),
           \A q \in Runs \ {r} : given'[q] = given[q],
           lost \subseteq lost',
           UNCHANGED <<key, paid, phase, pending, owed, retrying>>
    PROVE  /\ PhaseInv'
           /\ \A q \in Runs \ {r} : RunInv(q)'
           /\ pump'[r].at = stage /\ pump'[r].cost = pump[r].cost
           /\ key'[r] # None /\ r \notin pending' /\ r \notin owed' /\ retrying'[r] = 0
<1>1. /\ TypeOK /\ PhaseInv /\ RunInv(r) /\ \A q \in Runs : RunInv(q)
  BY DEF IInv
<1>2. /\ pump'[r].at = stage /\ pump'[r].cost = pump[r].cost
      /\ \A q \in Runs \ {r} : pump'[q] = pump[q]
  BY <1>1, GotoType
<1>3. \A q \in Runs \ {r} : row'[q] = row[q]
  BY <1>1, SetRowType
<1>4. \A q \in Runs \ {r} : Same(q)
  BY <1>2, <1>3 DEF Same
<1>5. PhaseInv'
  BY <1>1, Busy, PhaseFrame
<1>6. key[r] # None /\ r \notin pending /\ r \notin owed /\ retrying[r] \in Nat /\ ~(retrying[r] > 0)
  BY <1>1 DEF RunInv, PumpInv, QueueInv, TypeOK
<1>. QED  BY <1>1, <1>2, <1>4, <1>5, <1>6, Frame

(* The row of a Room that begins, or that has its verdict.                 *)
Renewed(r, status, v) == [Persisted(r, status, v, FALSE, FALSE) EXCEPT !.age = 0]

LEMMA RenewedType ==
    ASSUME TypeOK, NEW r \in Runs, NEW status \in {"running", "completed"},
           NEW v \in Verdicts
    PROVE  /\ Renewed(r, status, v) \in Row
           /\ Renewed(r, status, v).status = status /\ Renewed(r, status, v).verdict = v
           /\ Renewed(r, status, v).refunded = FALSE
           /\ Renewed(r, status, v).snapshot = FALSE
           /\ Renewed(r, status, v).cost = pump[r].cost
<1> DEFINE old == Persisted(r, status, v, FALSE, FALSE)
<1>1. row[r] \in Row /\ pump[r] \in Pump
  BY DEF TypeOK
<1>2. /\ old \in Row /\ old.status = status /\ old.verdict = v
      /\ old.refunded = FALSE /\ old.snapshot = FALSE /\ old.cost = pump[r].cost
  BY <1>1 DEF Persisted, Row, Pump
<1> HIDE DEF old
<1>3. [old EXCEPT !.age = 0] \in Row
  BY <1>2 DEF Row
<1>. QED  BY <1>2, <1>3 DEF Row, Renewed, old

(* The steps that write the row of a run and pass on to the next stage.    *)
LEMMA WriteInv ==
    ASSUME IInv, NEW r \in Runs,
           \/ Begin(r) \/ SetUp(r) \/ Fail(r)
           \/ \E v \in Verdicts \ {"none"} : Complete(r, v)
           \/ FlagOutage(r) \/ FlagFailed(r)
           \/ \E s \in {"spawned", "setup"} : Raise(r, s)
           \/ Backstop(r) \/ BackstopFlag(r)
    PROVE  PhaseInv' /\ \A q \in Runs : RunInv(q)'
<1>1. /\ TypeOK /\ RunInv(r) /\ row[r] \in Row /\ pump[r] \in Pump
      /\ paid[r] \in Nat /\ given[r] \in Nat
  BY DEF IInv, TypeOK
<1>2. row[r].verdict \in Verdicts /\ "none" \in Verdicts
  BY <1>1 DEF Row, Verdicts
<1>3. UNCHANGED <<key, paid, given, lost, phase, pending, owed, retrying>>
  BY DEF Begin, SetUp, Fail, Complete, FlagOutage, FlagFailed, Raise, Backstop,
         BackstopFlag, history, disk
<1>4. /\ paid'[r] = paid[r] /\ given'[r] = given[r]
      /\ \A q \in Runs \ {r} : given'[q] = given[q]
      /\ lost \subseteq lost'
  BY <1>3
<1>5. ~At(r, "none")
  BY DEF Begin, SetUp, Fail, Complete, FlagOutage, FlagFailed, Raise, Backstop,
         BackstopFlag, At
<1> DEFINE Moved(stage) == stage \in Stages /\ Goto(r, stage)
           Wrote(new) == new \in Row /\ SetRow(r, new)
           Framed(stage) ==
              /\ PhaseInv'
              /\ \A q \in Runs \ {r} : RunInv(q)'
              /\ pump'[r].at = stage /\ pump'[r].cost = pump[r].cost
              /\ key'[r] # None /\ r \notin pending' /\ r \notin owed' /\ retrying'[r] = 0
<1>6. ASSUME NEW stage, NEW new, Moved(stage), Wrote(new)
      PROVE  Framed(stage) /\ row'[r] = new
  BY <1>1, <1>3, <1>4, <1>5, <1>6, PumpFrame, SetRowType
<1>7. ASSUME NEW stage, Moved(stage), row' = row
      PROVE  Framed(stage) /\ row'[r] = row[r]
  BY <1>1, <1>3, <1>4, <1>5, <1>7, PumpFrame
<1> HIDE DEF Moved, Wrote
<1> DEFINE Good == RowInv(r)' /\ PumpInv(r)' /\ QueueInv(r)' /\ Told(r)'
<1>8. ASSUME Good, NEW stage, Framed(stage)
      PROVE  PhaseInv' /\ \A q \in Runs : RunInv(q)'
  BY <1>8 DEF RunInv
<1>9. CASE Begin(r)
  <2> DEFINE new == Renewed(r, "running", "none")
  <2>1. /\ new \in Row /\ new.status = "running" /\ new.verdict = "none"
        /\ new.refunded = FALSE /\ new.snapshot = FALSE /\ new.cost = pump[r].cost
    BY <1>1, <1>2, RenewedType
  <2>2. Moved("setup") /\ Wrote(new)
    BY <1>9, <2>1 DEF Moved, Wrote, Begin, Stages, Renewed
  <2>3. Framed("setup") /\ row'[r] = new
    BY <1>6, <2>2
  <2>4. Taken(r) /\ pump[r].cost = paid[r]
    BY <1>1, <1>9 DEF RunInv, PumpInv, RowInv, Taken, Begin, At
  <2> HIDE DEF new
  <2>5. Good
    BY <1>4, <2>1, <2>3, <2>4 DEF RowInv, PumpInv, QueueInv, Told, At, Taken
  <2>. QED  BY <1>8, <2>3, <2>5
<1>10. CASE SetUp(r)
  <2>1. Moved("desks") /\ row' = row
    BY <1>10 DEF Moved, SetUp, Stages, disk
  <2>2. Framed("desks") /\ row'[r] = row[r]
    BY <1>7, <2>1
  <2>3. row[r].status = "running" /\ RowInv(r) /\ pump[r].cost = paid[r] /\ paid[r] > 0
    BY <1>1, <1>10 DEF RunInv, PumpInv, SetUp, At
  <2>4. Good
    BY <1>4, <2>2, <2>3 DEF RowInv, PumpInv, QueueInv, Told, At, Taken, Returned
  <2>. QED  BY <1>8, <2>2, <2>4
<1>11. ASSUME NEW v \in Verdicts \ {"none"}, Complete(r, v)
       PROVE  PhaseInv' /\ \A q \in Runs : RunInv(q)'
  <2> DEFINE new == Renewed(r, "completed", v)
             next == IF v \in Shaped THEN "owing" ELSE "ending"
  <2>1. /\ new \in Row /\ new.status = "completed" /\ new.verdict = v
        /\ new.refunded = FALSE /\ new.snapshot = FALSE /\ new.cost = pump[r].cost
    BY <1>1, <1>2, RenewedType
  <2>2. Moved(next) /\ Wrote(new)
    BY <1>11, <2>1 DEF Moved, Wrote, Complete, Stages, Sync, Renewed
  <2>3. Framed(next) /\ row'[r] = new
    BY <1>6, <2>2
  <2>4. Taken(r) /\ pump[r].cost = paid[r]
    BY <1>1, <1>11 DEF RunInv, PumpInv, RowInv, Taken, Complete, At
  <2> HIDE DEF new
  <2>5. Good
    BY <1>4, <2>1, <2>3, <2>4 DEF RowInv, PumpInv, QueueInv, Told, At, Taken
  <2>. QED  BY <1>8, <2>3, <2>5
<1>12. CASE Fail(r)
  <2>1. /\ row[r].status = "running" /\ Taken(r) /\ row[r].cost = paid[r]
        /\ pump[r].cost = paid[r] /\ RowInv(r)
    BY <1>1, <1>12 DEF RunInv, PumpInv, RowInv, Taken, Fail, At
  <2>2. CASE row' = row /\ Goto(r, "raised")
    <3>1. Framed("raised") /\ row'[r] = row[r]
      BY <1>7, <2>2 DEF Moved, Stages
    <3>2. Good
      BY <1>4, <2>1, <3>1 DEF RowInv, PumpInv, QueueInv, Told, At, Taken, Returned
    <3>. QED  BY <1>8, <3>1, <3>2
  <2>3. CASE SetRow(r, Persisted(r, "failed", "none", FALSE, FALSE)) /\ Goto(r, "failing")
    <3> DEFINE new == Persisted(r, "failed", "none", FALSE, FALSE)
    <3>1. /\ new \in Row /\ new.status = "failed"
          /\ new.refunded = FALSE /\ new.snapshot = FALSE /\ new.cost = pump[r].cost
      BY <1>1, <1>2 DEF Persisted, Row, Pump
    <3> HIDE DEF new
    <3>2. Framed("failing") /\ row'[r] = new
      BY <1>6, <2>3, <3>1 DEF Moved, Wrote, Stages, Sync, new
    <3>3. Good
      BY <1>4, <2>1, <3>1, <3>2 DEF RowInv, PumpInv, QueueInv, Told, At, Taken
    <3>. QED  BY <1>8, <3>2, <3>3
  <2>. QED  BY <1>12, <2>2, <2>3 DEF Fail
<1>13. CASE FlagOutage(r)
  <2>1. /\ row[r].status = "completed" /\ row[r].verdict \in Shaped /\ Returned(r)
        /\ pump[r].cost = paid[r] /\ RowInv(r)
    BY <1>1, <1>13 DEF RunInv, PumpInv, FlagOutage, At
  <2>2. Goto(r, "ending")
    BY <1>13 DEF FlagOutage
  <2>3. CASE row' = row
    <3>1. Framed("ending") /\ row'[r] = row[r]
      BY <1>7, <2>2, <2>3 DEF Moved, Stages, Sync
    <3>2. Good
      BY <1>4, <2>1, <3>1 DEF RowInv, PumpInv, QueueInv, Told, At, Returned, Taken
    <3>. QED  BY <1>8, <3>1, <3>2
  <2>4. ASSUME NEW kept \in BOOLEAN,
               SetRow(r, Persisted(r, "completed", row[r].verdict, TRUE, kept))
        PROVE  PhaseInv' /\ \A q \in Runs : RunInv(q)'
    <3> DEFINE new == Persisted(r, "completed", row[r].verdict, TRUE, kept)
    <3>1. /\ new \in Row /\ new.status = "completed" /\ new.verdict = row[r].verdict
          /\ new.refunded = TRUE /\ new.cost = pump[r].cost
      BY <1>1, <1>2 DEF Persisted, Row, Pump
    <3> HIDE DEF new
    <3>2. Framed("ending") /\ row'[r] = new
      BY <1>6, <2>2, <2>4, <3>1 DEF Moved, Wrote, Stages, Sync, new
    <3>3. Good
      BY <1>4, <2>1, <3>1, <3>2 DEF RowInv, PumpInv, QueueInv, Told, At, Returned
    <3>. QED  BY <1>8, <3>2, <3>3
  <2>. QED  BY <1>13, <2>3, <2>4 DEF FlagOutage
<1>14. CASE FlagFailed(r)
  <2>1. /\ row[r].status = "failed" /\ Returned(r) /\ pump[r].cost = paid[r] /\ RowInv(r)
    BY <1>1, <1>14 DEF RunInv, PumpInv, FlagFailed, At
  <2>2. CASE row' = row /\ Goto(r, "raised")
    <3>1. Framed("raised") /\ row'[r] = row[r]
      BY <1>7, <2>2 DEF Moved, Stages
    <3>2. Good
      BY <1>4, <2>1, <3>1 DEF RowInv, PumpInv, QueueInv, Told, At, Returned, Taken
    <3>. QED  BY <1>8, <3>1, <3>2
  <2>3. CASE SetRow(r, Persisted(r, "failed", "none", TRUE, FALSE)) /\ Goto(r, "ending")
    <3> DEFINE new == Persisted(r, "failed", "none", TRUE, FALSE)
    <3>1. /\ new \in Row /\ new.status = "failed"
          /\ new.refunded = TRUE /\ new.snapshot = FALSE /\ new.cost = pump[r].cost
      BY <1>1, <1>2 DEF Persisted, Row, Pump
    <3> HIDE DEF new
    <3>2. Framed("ending") /\ row'[r] = new
      BY <1>6, <2>3, <3>1 DEF Moved, Wrote, Stages, Sync, new
    <3>3. Good
      BY <1>4, <2>1, <3>1, <3>2 DEF RowInv, PumpInv, QueueInv, Told, At, Returned
    <3>. QED  BY <1>8, <3>2, <3>3
  <2>. QED  BY <1>14, <2>2, <2>3 DEF FlagFailed
<1>15. ASSUME NEW s \in {"spawned", "setup"}, Raise(r, s)
       PROVE  PhaseInv' /\ \A q \in Runs : RunInv(q)'
  <2>1. Framed("raised") /\ row'[r] = row[r]
    BY <1>7, <1>15 DEF Moved, Stages, Raise, disk
  <2>2. /\ row[r].status \in {"absent", "running"} /\ RowInv(r)
        /\ pump[r].cost = paid[r] /\ paid[r] > 0
    BY <1>1, <1>15 DEF RunInv, PumpInv, Raise, At
  <2>3. Good
    BY <1>4, <2>1, <2>2 DEF RowInv, PumpInv, QueueInv, Told, At, Returned, Taken
  <2>. QED  BY <1>8, <2>1, <2>3
<1>16. CASE Backstop(r)
  <2>1. /\ row[r].status # "completed" /\ RowInv(r) /\ Told(r)
        /\ pump[r].cost = paid[r] /\ paid[r] > 0 /\ r \notin owed
    BY <1>1, <1>16 DEF RunInv, PumpInv, Backstop, At, QueueInv
  <2>2. CASE row' = row /\ Goto(r, "returned")
    <3>1. Framed("returned") /\ row'[r] = row[r]
      BY <1>7, <2>2 DEF Moved, Stages
    <3>2. Good
      BY <1>3, <1>4, <1>16, <2>1, <3>1
         DEF RowInv, PumpInv, QueueInv, Told, At, Returned, Taken, Backstop
    <3>. QED  BY <1>8, <3>1, <3>2
  <2>3. CASE /\ row[r].status = "running" /\ SetRow(r, [row[r] EXCEPT !.status = "failed"])
             /\ Goto(r, IF row[r].refunded THEN "returned" ELSE "giving")
    <3> DEFINE new == [row[r] EXCEPT !.status = "failed"]
    <3>1. /\ new \in Row /\ new.status = "failed" /\ new.refunded = row[r].refunded
          /\ new.snapshot = row[r].snapshot /\ new.cost = row[r].cost
      BY <1>1 DEF Row
    <3>2. ~row[r].refunded /\ ~row[r].snapshot /\ Taken(r) /\ row[r].cost = paid[r]
      BY <1>1, <2>1, <2>3 DEF RowInv, Taken, Returned
    <3> HIDE DEF new
    <3>3. Framed("giving") /\ row'[r] = new
      BY <1>6, <2>3, <3>1, <3>2 DEF Moved, Wrote, Stages, Sync, new
    <3>4. Good
      BY <1>4, <2>1, <3>1, <3>2, <3>3 DEF RowInv, PumpInv, QueueInv, Told, At, Taken
    <3>. QED  BY <1>8, <3>3, <3>4
  <2>. QED  BY <1>16, <2>2, <2>3 DEF Backstop
<1>17. CASE BackstopFlag(r)
  <2>1. /\ row[r].status = "failed" /\ Returned(r) /\ pump[r].cost = paid[r] /\ RowInv(r)
    BY <1>1, <1>17 DEF RunInv, PumpInv, BackstopFlag, At
  <2>2. Goto(r, "returned")
    BY <1>17 DEF BackstopFlag
  <2>3. CASE row' = row
    <3>1. Framed("returned") /\ row'[r] = row[r]
      BY <1>7, <2>2, <2>3 DEF Moved, Stages
    <3>2. Good
      BY <1>4, <2>1, <3>1 DEF RowInv, PumpInv, QueueInv, Told, At, Returned, Taken
    <3>. QED  BY <1>8, <3>1, <3>2
  <2>4. CASE SetRow(r, [row[r] EXCEPT !.refunded = TRUE])
    <3> DEFINE new == [row[r] EXCEPT !.refunded = TRUE]
    <3>1. /\ new \in Row /\ new.status = "failed" /\ new.refunded = TRUE
          /\ new.snapshot = row[r].snapshot /\ new.cost = row[r].cost
      BY <1>1, <2>1 DEF Row
    <3> HIDE DEF new
    <3>2. Framed("returned") /\ row'[r] = new
      BY <1>6, <2>2, <2>4, <3>1 DEF Moved, Wrote, Stages, new
    <3>3. Good
      BY <1>4, <2>1, <3>1, <3>2 DEF RowInv, PumpInv, QueueInv, Told, At, Returned
    <3>. QED  BY <1>8, <3>2, <3>3
  <2>. QED  BY <1>17, <2>2, <2>3, <2>4 DEF BackstopFlag
<1>. QED  BY <1>9, <1>10, <1>11, <1>12, <1>13, <1>14, <1>15, <1>16, <1>17

(* The three refunds a pump makes: the charge is held until then.          *)
LEMMA RefundInv ==
    ASSUME IInv, NEW r \in Runs, RefundOutage(r) \/ RefundFailed(r) \/ BackstopRefund(r)
    PROVE  /\ PhaseInv' /\ \A q \in Runs : RunInv(q)'
           /\ Taken(r)
           /\ given' \in {given, [given EXCEPT ![r] = paid[r]]}
           /\ UNCHANGED <<row, paid>>
<1>1. /\ TypeOK /\ RunInv(r) /\ paid[r] \in Nat /\ given \in [Runs -> Nat]
  BY DEF IInv, TypeOK
<1>2. UNCHANGED <<row, key, paid, phase, pending, owed, retrying>>
  BY DEF RefundOutage, RefundFailed, BackstopRefund
<1>3. Taken(r) /\ RowInv(r) /\ pump[r].cost = paid[r] /\ ~At(r, "none")
  BY <1>1 DEF RunInv, PumpInv, RefundOutage, RefundFailed, BackstopRefund, At
<1>4. ~row[r].refunded /\ ~row[r].snapshot
  BY <1>1, <1>3 DEF RowInv, Taken, Returned
<1> DEFINE Made(done) == /\ given' = [given EXCEPT ![r] = paid[r]] /\ lost' = lost
                         /\ Goto(r, done)
           Failed(failed) == given' = given /\ lost' = lost \cup {r} /\ Goto(r, failed)
           Framed(stage) ==
              /\ PhaseInv'
              /\ \A q \in Runs \ {r} : RunInv(q)'
              /\ pump'[r].at = stage /\ pump'[r].cost = pump[r].cost
              /\ key'[r] # None /\ r \notin pending' /\ r \notin owed' /\ retrying'[r] = 0
<1>5. ASSUME NEW stage \in Stages, Made(stage) \/ Failed(stage)
      PROVE  Framed(stage)
  <2>1. \A q \in Runs \ {r} : given'[q] = given[q]
    BY <1>1, <1>5
  <2>. QED  BY <1>2, <1>3, <1>5, <2>1, PumpFrame
<1>6. given[r] + paid[r] = paid[r]
  BY <1>1, <1>3 DEF Taken
<1>7. ASSUME NEW stage \in {"flagging", "noting", "stamping"}, Made(stage),
             row[r].status = (IF stage = "flagging" THEN "completed" ELSE "failed"),
             stage = "flagging" => row[r].verdict \in Shaped
      PROVE  PhaseInv' /\ \A q \in Runs : RunInv(q)'
  <2>1. Framed(stage)
    BY <1>5, <1>7 DEF Stages, Sync
  <2>2. given'[r] = paid[r] /\ paid'[r] = paid[r] /\ row'[r] = row[r]
    BY <1>1, <1>2, <1>7
  <2>3. RowInv(r)' /\ PumpInv(r)' /\ QueueInv(r)' /\ Told(r)'
    BY <1>3, <1>4, <1>7, <2>1, <2>2 DEF RowInv, PumpInv, QueueInv, Told, At, Taken, Returned
  <2>. QED  BY <2>1, <2>3 DEF RunInv
<1>8. ASSUME NEW stage \in {"ending", "returned"}, Failed(stage),
             \/ stage = "ending" /\ row[r].status \in {"completed", "failed"}
             \/ row[r].status = "failed"
      PROVE  PhaseInv' /\ \A q \in Runs : RunInv(q)'
  <2>1. Framed(stage)
    BY <1>5, <1>8 DEF Stages, Sync
  <2>2. given'[r] = given[r] /\ paid'[r] = paid[r] /\ row'[r] = row[r] /\ r \in lost'
    BY <1>1, <1>2, <1>8
  <2>3. RowInv(r)' /\ PumpInv(r)' /\ QueueInv(r)' /\ Told(r)'
    BY <1>3, <1>4, <1>8, <2>1, <2>2 DEF RowInv, PumpInv, QueueInv, Told, At, Taken, Returned
  <2>. QED  BY <2>1, <2>3 DEF RunInv
<1>9. CASE RefundOutage(r)
  <2>1. row[r].status = "completed" /\ row[r].verdict \in Shaped
    BY <1>1, <1>9 DEF RunInv, PumpInv, RefundOutage, At
  <2>2. Made("flagging") \/ Failed("ending")
    BY <1>1, <1>3, <1>6, <1>9 DEF RefundOutage, GiveBack
  <2>. QED  BY <1>2, <1>3, <1>7, <1>8, <2>1, <2>2
<1>10. CASE RefundFailed(r)
  <2>1. row[r].status = "failed"
    BY <1>1, <1>10 DEF RunInv, PumpInv, RefundFailed, At
  <2>2. Made("noting") \/ Failed("ending")
    BY <1>1, <1>3, <1>6, <1>10 DEF RefundFailed, GiveBack
  <2>. QED  BY <1>2, <1>3, <1>7, <1>8, <2>1, <2>2
<1>11. CASE BackstopRefund(r)
  <2>1. row[r].status = "failed" /\ row[r].cost = paid[r]
    BY <1>1, <1>11 DEF RunInv, PumpInv, BackstopRefund, At
  <2>2. Made("stamping") \/ Failed("returned")
    BY <1>1, <1>3, <1>6, <1>11, <2>1 DEF BackstopRefund, GiveBack
  <2>. QED  BY <1>2, <1>3, <1>7, <1>8, <2>1, <2>2
<1>. QED  BY <1>9, <1>10, <1>11

(* The end of a pump, its own or by a shutdown.                            *)
LEMMA EndInv ==
    ASSUME IInv, NEW r \in Runs, End(r) \/ Cancel(r)
    PROVE  PhaseInv' /\ \A q \in Runs : RunInv(q)'
<1>1. /\ TypeOK /\ PhaseInv /\ RunInv(r) /\ \A q \in Runs : RunInv(q)
      /\ row[r] \in Row
  BY DEF IInv, TypeOK
<1>2. UNCHANGED <<key, paid, given, phase, pending, owed, retrying, lost>>
  BY DEF End, Cancel, history
<1>3. /\ pump'[r].at = "none"
      /\ \A q \in Runs \ {r} : pump'[q] = pump[q]
  BY <1>1, NoPumpType DEF End, Cancel, TypeOK
<1>4. /\ row'[r].status = row[r].status /\ row'[r].verdict = row[r].verdict
      /\ row'[r].refunded = row[r].refunded /\ row'[r].snapshot = row[r].snapshot
      /\ row'[r].cost = row[r].cost
      /\ \A q \in Runs \ {r} : row'[q] = row[q]
  BY <1>1 DEF End, Cancel, TypeOK, Row
<1>5. ~At(r, "none") /\ ~At(r, "indexed")
      /\ pump[r].at \notin {"failing", "giving", "abandoning"}
  BY DEF End, Cancel, At
<1>6. PhaseInv'
  <2>1. phase' = phase /\ owed' = owed /\ phase \notin {"down", "sweeping"}
    BY <1>1, <1>2, <1>5, Busy
  <2>. QED  BY <1>1, <2>1, PhaseFrame
<1>7. \A q \in Runs \ {r} : Same(q)
  BY <1>2, <1>3, <1>4 DEF Same
<1>8. /\ key[r] # None /\ r \notin owed /\ ~(retrying[r] > 0) /\ r \notin pending
      /\ RowInv(r) /\ Told(r)
  BY <1>1, <1>5 DEF RunInv, PumpInv, QueueInv
<1>9. RunInv(r)'
  <2>1. RowInv(r)'
    BY <1>2, <1>4, <1>8 DEF RowInv, Taken, Returned
  <2>2. PumpInv(r)' /\ QueueInv(r)' /\ Told(r)'
    BY <1>2, <1>3, <1>4, <1>5, <1>8 DEF PumpInv, QueueInv, Told, At
  <2>. QED  BY <2>1, <2>2 DEF RunInv
<1>. QED  BY <1>1, <1>6, <1>7, <1>9, Frame
-----------------------------------------------------------------------------
(* The next boot *)

LEMMA SweepRefundInv ==
    ASSUME IInv, NEW r \in Runs, SweepRefund(r)
    PROVE  /\ PhaseInv' /\ \A q \in Runs : RunInv(q)'
           /\ Taken(r)
           /\ given' \in {given, [given EXCEPT ![r] = paid[r]]}
<1>1. /\ TypeOK /\ PhaseInv /\ RunInv(r) /\ \A q \in Runs : RunInv(q)
      /\ paid[r] \in Nat /\ given \in [Runs -> Nat]
  BY DEF IInv, TypeOK
<1>2. /\ row[r].status = "failed" /\ At(r, "none") /\ Taken(r) /\ row[r].cost = paid[r]
      /\ RowInv(r) /\ QueueInv(r) /\ PumpInv(r)
  BY <1>1 DEF RunInv, QueueInv, SweepRefund
<1>3. UNCHANGED <<row, key, paid, phase, pump, pending, retrying>> /\ r \notin owed'
  BY DEF SweepRefund
<1>4. given[r] + row[r].cost = paid[r]
  BY <1>1, <1>2 DEF Taken
<1>5. \/ given' = [given EXCEPT ![r] = paid[r]] /\ lost' = lost
      \/ given' = given /\ lost' = lost \cup {r}
  BY <1>1, <1>4 DEF SweepRefund
<1>6. \A q \in Runs \ {r} : Same(q)
  BY <1>1, <1>3, <1>5 DEF SweepRefund, Same
<1>7. PhaseInv'
  BY <1>1, <1>3 DEF PhaseInv, SweepRefund, At
<1>8. given'[r] = paid[r] \/ (given'[r] = 0 /\ r \in lost')
  BY <1>1, <1>2, <1>5 DEF Taken
<1>9. ~row[r].refunded /\ ~row[r].snapshot /\ key[r] # None /\ r \notin pending /\ ~(retrying[r] > 0)
  BY <1>1, <1>2, NoRowType DEF RowInv, Taken, Returned, PumpInv, QueueInv, Unstarted
<1>10. RunInv(r)'
  <2>1. RowInv(r)' /\ PumpInv(r)' /\ QueueInv(r)'
    BY <1>2, <1>3, <1>9 DEF RowInv, PumpInv, QueueInv, At
  <2>2. Told(r)'
    BY <1>3, <1>8 DEF Told
  <2>. QED  BY <2>1, <2>2 DEF RunInv
<1>11. given' \in {given, [given EXCEPT ![r] = paid[r]]}
  BY <1>5
<1>. QED  BY <1>1, <1>2, <1>6, <1>7, <1>10, <1>11, Frame

LEMMA RefundAbandonedInv ==
    ASSUME IInv, NEW r \in Runs, RefundAbandoned(r)
    PROVE  /\ PhaseInv' /\ \A q \in Runs : RunInv(q)'
           /\ Taken(r)
           /\ given' \in {given, [given EXCEPT ![r] = paid[r]]}
<1>1. /\ TypeOK /\ PhaseInv /\ RunInv(r) /\ \A q \in Runs : RunInv(q)
      /\ paid[r] \in Nat /\ given \in [Runs -> Nat] /\ pump \in [Runs -> Pump]
  BY DEF IInv, TypeOK
<1>2. /\ row[r].status = "failed" /\ Taken(r) /\ row[r].cost = paid[r]
      /\ RowInv(r) /\ key[r] # None /\ r \notin pending /\ r \notin owed /\ ~(retrying[r] > 0)
      /\ ~At(r, "none")
  BY <1>1 DEF RunInv, PumpInv, QueueInv, RefundAbandoned, At
<1>3. UNCHANGED <<row, key, paid, phase, pending, owed, retrying>>
  BY DEF RefundAbandoned
<1>4. given[r] + row[r].cost = paid[r]
  BY <1>1, <1>2 DEF Taken
<1>5. \/ given' = [given EXCEPT ![r] = paid[r]] /\ lost' = lost
      \/ given' = given /\ lost' = lost \cup {r}
  BY <1>1, <1>4 DEF RefundAbandoned
<1>6. pump'[r].at = "none" /\ \A q \in Runs \ {r} : pump'[q] = pump[q]
  BY <1>1, NoPumpType DEF RefundAbandoned
<1>7. \A q \in Runs \ {r} : Same(q)
  BY <1>1, <1>3, <1>5, <1>6 DEF Same
<1>8. PhaseInv'
  BY <1>1, <1>2, <1>3, Busy, PhaseFrame
<1>9. given'[r] = paid[r] \/ (given'[r] = 0 /\ r \in lost')
  BY <1>1, <1>2, <1>5 DEF Taken
<1>10. ~row[r].refunded /\ ~row[r].snapshot
  BY <1>1, <1>2 DEF RowInv, Taken, Returned
<1>11. RunInv(r)'
  <2>1. RowInv(r)' /\ PumpInv(r)' /\ QueueInv(r)'
    BY <1>2, <1>3, <1>6, <1>10 DEF RowInv, PumpInv, QueueInv, At
  <2>2. Told(r)'
    BY <1>3, <1>9 DEF Told
  <2>. QED  BY <2>1, <2>2 DEF RunInv
<1>12. given' \in {given, [given EXCEPT ![r] = paid[r]]}
  BY <1>5
<1>. QED  BY <1>1, <1>2, <1>7, <1>8, <1>11, <1>12, Frame

LEMMA ResumeInv ==
    ASSUME IInv, NEW r \in Runs, Respawn(r) \/ Abandon(r) \/ Forget(r)
    PROVE  PhaseInv' /\ \A q \in Runs : RunInv(q)'
<1>1. /\ TypeOK /\ PhaseInv /\ RunInv(r) /\ \A q \in Runs : RunInv(q)
      /\ row \in [Runs -> Row] /\ row[r] \in Row /\ pump \in [Runs -> Pump]
  BY DEF IInv, TypeOK
<1>2. /\ row[r].status = "running" /\ At(r, "none") /\ Taken(r) /\ row[r].cost = paid[r]
      /\ RowInv(r) /\ PumpInv(r) /\ QueueInv(r)
  BY <1>1 DEF RunInv, RowInv, QueueInv, Respawn, Abandon, Forget
<1>3. /\ key[r] # None /\ r \notin owed /\ ~(retrying[r] > 0)
      /\ ~row[r].refunded /\ ~row[r].snapshot
  BY <1>1, <1>2, NoRowType DEF RowInv, Taken, Returned, PumpInv, QueueInv, Unstarted
<1>4. /\ UNCHANGED <<key, paid, given, phase, owed, retrying, lost>>
      /\ pending' = pending \ {r}
      /\ phase = "resuming"
  BY DEF Respawn, Abandon, Forget, disk, history
<1>5. /\ \A q \in Runs \ {r} : row'[q] = row[q] /\ pump'[q] = pump[q]
      /\ row'[r].refunded = row[r].refunded /\ row'[r].snapshot = row[r].snapshot
      /\ row'[r].cost = row[r].cost
      /\ \/ /\ row'[r].status = "running" /\ pump'[r].at = "spawned" /\ pump'[r].cost = paid[r]
         \/ row'[r].status = "failed" /\ pump'[r].at = "abandoning"
         \/ row'[r].status = "running" /\ pump'[r].at = "none"
  <2>1. CASE Respawn(r)
    <3> DEFINE new == [NoPump EXCEPT !.at = "spawned", !.cost = Carried(r)]
    <3>1. new.at = "spawned" /\ new.cost = paid[r]
      BY <1>2 DEF NoPump, Carried
    <3>2. row' = row /\ pump' = [pump EXCEPT ![r] = new]
      BY <2>1 DEF Respawn, disk
    <3> HIDE DEF new
    <3>. QED  BY <1>1, <1>2, <3>1, <3>2
  <2>2. CASE Abandon(r)
    <3> DEFINE new == [NoPump EXCEPT !.at = "abandoning"]
    <3>1. new.at = "abandoning"
      BY DEF NoPump
    <3>2. pump' = [pump EXCEPT ![r] = new] /\ row' = [row EXCEPT ![r].status = "failed"]
      BY <2>2 DEF Abandon
    <3> HIDE DEF new
    <3>. QED  BY <1>1, <3>1, <3>2 DEF Row
  <2>3. CASE Forget(r)
    BY <1>2, <2>3 DEF Forget, disk, At
  <2>. QED  BY <2>1, <2>2, <2>3
<1>6. \A q \in Runs \ {r} : Same(q)
  BY <1>4, <1>5 DEF Same
<1>7. PhaseInv'
  BY <1>1, <1>4, PhaseFrame
<1>8. RunInv(r)'
  <2>1. RowInv(r)'
    BY <1>2, <1>3, <1>4, <1>5 DEF RowInv, Taken
  <2>2. PumpInv(r)'
    BY <1>2, <1>3, <1>4, <1>5 DEF PumpInv, At, Taken
  <2>3. QueueInv(r)' /\ Told(r)'
    BY <1>2, <1>3, <1>4, <1>5 DEF QueueInv, At, Told
  <2>. QED  BY <2>1, <2>2, <2>3 DEF RunInv
<1>. QED  BY <1>1, <1>6, <1>7, <1>8, Frame

LEMMA RetryInv ==
    ASSUME IInv, NEW r \in Runs, AskAgain(r) \/ Answer(r) \/ DropRetry(r) \/ Older(r)
    PROVE  PhaseInv' /\ \A q \in Runs : RunInv(q)'
<1>1. /\ TypeOK /\ PhaseInv /\ RunInv(r) /\ \A q \in Runs : RunInv(q)
      /\ row \in [Runs -> Row] /\ row[r] \in Row
      /\ retrying \in [Runs -> Nat] /\ retrying[r] \in Nat
  BY DEF IInv, TypeOK
<1>2. UNCHANGED <<key, paid, given, phase, pump, pending, owed, lost>>
  BY DEF AskAgain, Answer, DropRetry, Older, disk, memory, history
<1>3. /\ row'[r].status = row[r].status /\ row'[r].cost = row[r].cost
      /\ row'[r].refunded = row[r].refunded
      /\ row'[r].snapshot => row[r].snapshot
      /\ \A q \in Runs \ {r} : row'[q] = row[q] /\ retrying'[q] = retrying[q]
  <2>1. ASSUME NEW verdict, NEW snapshot, snapshot = FALSE \/ row[r].snapshot,
               SetRow(r, [row[r] EXCEPT !.verdict = verdict, !.snapshot = snapshot])
        PROVE  /\ row'[r].status = row[r].status /\ row'[r].cost = row[r].cost
               /\ row'[r].refunded = row[r].refunded
               /\ row'[r].snapshot => row[r].snapshot
               /\ \A q \in Runs \ {r} : row'[q] = row[q]
    BY <1>1, <2>1 DEF SetRow, Row
  <2>2. CASE Answer(r)
    <3>1. row[r].snapshot
      BY <1>1, <2>2 DEF Answer, RunInv, QueueInv
    <3>. QED  BY <1>1, <2>1, <2>2, <3>1 DEF Answer
  <2>3. CASE AskAgain(r) \/ DropRetry(r)
    BY <1>1, <2>3 DEF AskAgain, DropRetry, disk
  <2>4. CASE Older(r)
    BY <1>1, <2>4 DEF Older, Row, memory
  <2>. QED  BY <2>2, <2>3, <2>4
<1>4. PhaseInv'
  BY <1>1, <1>2, PhaseFrame
<1>5. \A q \in Runs \ {r} : Same(q)
  BY <1>2, <1>3 DEF Same
<1>6. RowInv(r)' /\ Told(r)'
  BY <1>1, <1>2, <1>3 DEF RunInv, RowInv, Told, Taken, Returned
<1>7. PumpInv(r)'
  <2>1. row[r] = NoRow => row' = row
    BY <1>1, NoRowType DEF AskAgain, Answer, DropRetry, Older, disk, RunInv, QueueInv
  <2>2. pump[r].at \in {"owing", "flagging"} => row' = row \/ row'[r].verdict = row[r].verdict
    <3>1. CASE Older(r)
      BY <1>1, <3>1 DEF Older, Row
    <3>2. CASE ~Older(r)
      BY <3>2 DEF AskAgain, Answer, DropRetry, disk, Alone, Sync
    <3>. QED  BY <3>1, <3>2
  <2>. QED  BY <1>1, <1>2, <1>3, <2>1, <2>2
            DEF RunInv, PumpInv, At, Unstarted, Taken, Returned
<1>8. QueueInv(r)'
  <2>1. CASE Answer(r) \/ DropRetry(r)
    <3>1. retrying[r] = 1
      BY <1>1, <2>1 DEF RunInv, QueueInv, Answer, DropRetry
    <3>2. retrying'[r] = 0
      BY <1>1, <2>1, <3>1 DEF Answer, DropRetry
    <3>. QED  BY <1>1, <1>2, <1>3, <3>2 DEF RunInv, QueueInv, At, Taken
  <2>2. CASE AskAgain(r)
    <3>1. /\ row[r].status = "completed" /\ row[r].verdict = "outage" /\ row[r].snapshot
          /\ row' = row /\ retrying'[r] = 1
      BY <1>1, <2>2 DEF AskAgain, Eligible, NotRetrying, disk
    <3>2. At(r, "none")
      BY <1>1, <2>2, <3>1 DEF AskAgain, Alone, Sync, RunInv, PumpInv, At
    <3>. QED  BY <1>1, <1>2, <3>1, <3>2 DEF RunInv, QueueInv, At, Taken
  <2>3. CASE Older(r)
    <3>1. /\ row'[r].verdict = row[r].verdict /\ row'[r].snapshot = row[r].snapshot
          /\ retrying' = retrying
      BY <1>1, <2>3 DEF Older, Row, memory
    <3>. QED  BY <1>1, <1>2, <1>3, <3>1 DEF RunInv, QueueInv, At, Taken
  <2>. QED  BY <2>1, <2>2, <2>3
<1>. QED  BY <1>1, <1>4, <1>5, <1>6, <1>7, <1>8, Frame DEF RunInv
-----------------------------------------------------------------------------
(* The process *)

LEMMA BootInv ==
    ASSUME IInv, Boot
    PROVE  PhaseInv' /\ \A q \in Runs : RunInv(q)'
<1>1. /\ TypeOK /\ PhaseInv /\ \A q \in Runs : RunInv(q)
      /\ row \in [Runs -> Row]
  BY DEF IInv, TypeOK
<1>2. /\ UNCHANGED <<key, paid, given, pump, retrying, lost>>
      /\ phase' = "sweeping" /\ phase = "down" /\ owed = {}
      /\ \A q \in Runs : At(q, "none")
  BY <1>1 DEF Boot, PhaseInv, history
<1>3. PhaseInv'
  BY <1>2 DEF PhaseInv, At
<1>4. ASSUME NEW q \in Runs PROVE RunInv(q)'
  <2>1. /\ RunInv(q) /\ row[q] \in Row /\ paid[q] \in Nat /\ RowInv(q) /\ PumpInv(q)
        /\ QueueInv(q) /\ Told(q)
    BY <1>1 DEF RunInv, TypeOK
  <2>2. CASE row' = row /\ owed' = {} /\ pending' \in {{}, Again}
    <3>1. q \in pending' => row[q].status = "running"
      BY <2>2 DEF Again, Stuck
    <3>. QED  BY <1>2, <2>1, <2>2, <3>1
              DEF RunInv, RowInv, PumpInv, QueueInv, Told, Taken, Returned, At, Unstarted
  <2>3. CASE /\ row' = [r \in Runs |-> CASE r \in Again -> Claimed(r)
                                        [] r \in Stuck \ Again -> [row[r] EXCEPT !.status = "failed"]
                                        [] OTHER -> row[r]]
             /\ pending' = Again /\ owed' = OwedAtBoot
    <3>1. CASE q \in Again
      <4>1. row[q].status = "running"
        BY <3>1 DEF Again, Stuck
      <4>2. row'[q] = Claimed(q)
        BY <2>3, <3>1
      <4>3. /\ row'[q].status = "running" /\ row'[q].cost = row[q].cost
            /\ row'[q].refunded = row[q].refunded /\ row'[q].snapshot = row[q].snapshot
        BY <2>1, <4>1, <4>2 DEF Claimed, Row
      <4>4. q \notin owed' /\ ~(retrying[q] > 0) /\ key[q] # None
        BY <2>1, <2>3, <3>1, <4>1, NoRowType DEF OwedAtBoot, QueueInv, PumpInv, Unstarted
      <4>. QED  BY <1>2, <2>1, <4>1, <4>3, <4>4
                DEF RunInv, RowInv, PumpInv, QueueInv, Told, Taken, Returned, At
    <3>2. CASE q \in Stuck \ Again
      <4>1. row[q].status = "running" /\ Taken(q) /\ row[q].cost = paid[q]
        BY <2>1, <3>2 DEF Stuck, RowInv, Taken
      <4>2. row'[q] = [row[q] EXCEPT !.status = "failed"]
        BY <2>3, <3>2
      <4>3. /\ row'[q].status = "failed" /\ row'[q].cost = row[q].cost
            /\ row'[q].refunded = row[q].refunded /\ row'[q].snapshot = row[q].snapshot
        BY <2>1, <4>2 DEF Row
      <4>4. /\ q \in owed' /\ q \notin pending' /\ ~(retrying[q] > 0) /\ key[q] # None
            /\ ~row[q].refunded /\ ~row[q].snapshot
        BY <2>1, <2>3, <3>2, <4>1, NoRowType
           DEF OwedAtBoot, QueueInv, PumpInv, Unstarted, RowInv, Taken, Returned
      <4>. QED  BY <1>2, <2>1, <4>1, <4>3, <4>4
                DEF RunInv, RowInv, PumpInv, QueueInv, Told, Taken, At
    <3>3. CASE q \notin Stuck
      <4>1. row'[q] = row[q] /\ q \notin pending' /\ q \notin owed'
        BY <2>3, <3>3 DEF Again, OwedAtBoot
      <4>. QED  BY <1>2, <2>1, <4>1
                DEF RunInv, RowInv, PumpInv, QueueInv, Told, Taken, Returned, At, Unstarted
    <3>. QED  BY <3>1, <3>2, <3>3
  <2>. QED  BY <2>2, <2>3 DEF Boot
<1>. QED  BY <1>3, <1>4

LEMMA ProcessInv ==
    ASSUME IInv, Stop \/ Die \/ Swept \/ Serve
    PROVE  PhaseInv' /\ \A q \in Runs : RunInv(q)'
<1>1. TypeOK /\ PhaseInv /\ \A q \in Runs : RunInv(q)
  BY DEF IInv
<1>2. CASE Stop
  <2>1. /\ UNCHANGED <<row, key, paid, given, pump, pending, owed, lost>>
        /\ \A q \in Runs : retrying'[q] = 0
        /\ phase' = "stopping" /\ owed = {}
    BY <1>1, <1>2 DEF Stop, disk, history, PhaseInv
  <2>2. PhaseInv'
    BY <2>1 DEF PhaseInv
  <2>3. ASSUME NEW q \in Runs PROVE RunInv(q)'
    BY <1>1, <2>1 DEF RunInv, RowInv, PumpInv, QueueInv, Told, Taken, Returned, At, Unstarted
  <2>. QED  BY <2>2, <2>3
<1>3. CASE Die
  <2>1. /\ UNCHANGED <<row, key, paid, given>>
        /\ \A q \in Runs : retrying'[q] = 0 /\ pump'[q].at = "none"
        /\ phase' = "down" /\ owed' = {} /\ pending' = {}
        /\ lost' = lost \cup owed \cup {r \in Runs : pump[r].at \in {"owing", "failing", "giving",
                                                                     "abandoning"}}
    BY <1>3, NoPumpType DEF Die, disk
  <2>2. PhaseInv'
    BY <2>1 DEF PhaseInv, At
  <2>3. ASSUME NEW q \in Runs PROVE RunInv(q)'
    <3>1. RunInv(q)
      BY <1>1
    <3>2. RowInv(q)' /\ PumpInv(q)' /\ QueueInv(q)'
      BY <2>1, <3>1 DEF RunInv, RowInv, PumpInv, QueueInv, Taken, Returned, At, Unstarted
    <3>3. Told(q)'
      BY <2>1, <3>1 DEF RunInv, Told
    <3>. QED  BY <3>2, <3>3 DEF RunInv
  <2>. QED  BY <2>2, <2>3
<1>4. CASE Swept \/ Serve
  <2>1. /\ UNCHANGED <<row, key, paid, given, pump, pending, owed, retrying, lost>>
        /\ phase' \in {"resuming", "serving"} /\ owed = {}
    BY <1>1, <1>4 DEF Swept, Serve, disk, history, PhaseInv
  <2>2. PhaseInv'
    BY <2>1 DEF PhaseInv
  <2>3. \A q \in Runs : Same(q)
    BY <2>1 DEF Same
  <2>. QED  BY <1>1, <2>2, <2>3, Frame
<1>. QED  BY <1>2, <1>3, <1>4
-----------------------------------------------------------------------------
(* All steps together *)

LEMMA StepInv == IInv /\ [Next]_vars => IInv'
<1> SUFFICES ASSUME IInv, [Next]_vars PROVE IInv'
  OBVIOUS
<1>1. TypeOK /\ PhaseInv /\ \A q \in Runs : RunInv(q)
  BY DEF IInv
<1>2. CASE UNCHANGED vars
  <2>1. UNCHANGED <<row, key, index, paid, given, journal, phase, pump, active, pending, owed,
                    retrying, attempts, lost>>
    BY <1>2 DEF vars, disk, memory, history
  <2>2. TypeOK'
    BY <1>1, <2>1 DEF TypeOK
  <2>3. PhaseInv'
    BY <1>1, <2>1, PhaseFrame
  <2>4. \A q \in Runs : Same(q)
    BY <2>1 DEF Same
  <2>. QED  BY <1>1, <2>2, <2>3, <2>4, Frame DEF IInv
<1>3. CASE Next
  <2>1. TypeOK'
    BY <1>1, <1>3, NextType
  <2>2. PhaseInv' /\ \A q \in Runs : RunInv(q)'
    <3>1. ASSUME NEW r \in Runs, PumpStep(r) PROVE PhaseInv' /\ \A q \in Runs : RunInv(q)'
      BY <3>1, StartInv, WriteInv, RefundInv, EndInv DEF PumpStep
    <3>2. ASSUME NEW r \in Runs, ResumeStep(r) PROVE PhaseInv' /\ \A q \in Runs : RunInv(q)'
      BY <3>2, ResumeInv, RefundAbandonedInv DEF ResumeStep
    <3>3. ASSUME BootStep PROVE PhaseInv' /\ \A q \in Runs : RunInv(q)'
      BY <3>3, BootInv, ProcessInv, SweepRefundInv DEF BootStep
    <3>. QED  BY <1>3, <3>1, <3>2, <3>3, StartInv, EndInv, RetryInv, ProcessInv DEF Next
  <2>. QED  BY <2>1, <2>2 DEF IInv
<1>. QED  BY <1>2, <1>3

LEMMA Invariance == Spec => []IInv
<1>1. Init => IInv
  BY InitType, InitInv DEF IInv
<1>. QED  BY <1>1, StepInv, PTL DEF Spec
-----------------------------------------------------------------------------
(* The theorems *)

(* The tables and the memory of the runner are well typed.                 *)
THEOREM TypeCorrect == Spec => []TypeOK
<1>1. IInv => TypeOK
  BY DEF IInv
<1>. QED  BY <1>1, Invariance, PTL

(* No row claims a refund that the ledger did not see, and a failed Room   *)
(* has been refunded unless its refund raised or died with the process.    *)
THEOREM RefundsTold == Spec => []RefundsAreTold
<1>1. IInv => RefundsAreTold
  BY DEF IInv, RunInv, RowInv, Returned, Told, RefundsAreTold
<1>. QED  BY <1>1, Invariance, PTL

(* The run has a verdict of the CIO.                                       *)
Final(q) == row[q].status = "completed" /\ row[q].verdict = "real"

(* A step that writes one row: the others keep their verdicts.             *)
LEMMA OneRow ==
    ASSUME TypeOK, NEW r \in Runs, NEW new \in Row, SetRow(r, new),
           new.status # "completed" \/ new.verdict # "real" \/ Final(r),
           Final(r) => new.status = "completed" /\ new.verdict = "real"
    PROVE  \A q \in Runs : Final(q)' <=> Final(q)
  BY SetRowType DEF Final

(* Only two steps give a run its verdict, and none takes it.               *)
LEMMA FinalStep ==
    ASSUME IInv, Next
    PROVE  \/ \A q \in Runs : Final(q)' <=> Final(q)
           \/ \E r \in Runs :
                 /\ Complete(r, "real") \/ Answer(r)
                 /\ ~Final(r)
                 /\ \A q \in Runs : Final(q)' <=> Final(q) \/ q = r
<1> DEFINE Same0 == \A q \in Runs : Final(q)' <=> Final(q)
           Gains(r) == /\ ~Final(r)
                       /\ \A q \in Runs : Final(q)' <=> Final(q) \/ q = r
<1>1. TypeOK /\ \A r \in Runs : RunInv(r) /\ row[r] \in Row
  BY DEF IInv, TypeOK
<1>2. row' = row => Same0
  BY DEF Final
<1>3. ASSUME NEW r \in Runs, PumpStep(r)
      PROVE  Same0 \/ (Complete(r, "real") /\ Gains(r))
  <2>1. row[r].verdict \in Verdicts /\ "none" \in Verdicts /\ pump[r] \in Pump
    BY <1>1 DEF Row, Verdicts, TypeOK
  <2>2. CASE Begin(r)
    <3>1. ~Final(r)
      BY <1>1, <2>2 DEF RunInv, PumpInv, Begin, At, Final
    <3> DEFINE new == Renewed(r, "running", "none")
    <3>2. new \in Row /\ new.status = "running"
      BY <1>1, <2>1, RenewedType
    <3>3. SetRow(r, new)
      BY <2>2 DEF Begin, Renewed
    <3> HIDE DEF new
    <3>. QED  BY <1>1, <3>1, <3>2, <3>3, OneRow
  <2>3. ASSUME NEW v \in Verdicts \ {"none"}, Complete(r, v)
        PROVE  Same0 \/ (Complete(r, "real") /\ Gains(r))
    <3>1. ~Final(r)
      BY <1>1, <2>3 DEF RunInv, PumpInv, Complete, At, Final
    <3> DEFINE new == Renewed(r, "completed", v)
    <3>2. new \in Row /\ new.status = "completed" /\ new.verdict = v
      BY <1>1, <2>1, RenewedType
    <3>3. SetRow(r, new)
      BY <2>3 DEF Complete, Renewed
    <3> HIDE DEF new
    <3>4. CASE v # "real"
      BY <1>1, <3>1, <3>2, <3>3, <3>4, OneRow
    <3>5. CASE v = "real"
      BY <1>1, <2>3, <3>1, <3>2, <3>3, <3>5, SetRowType DEF Final
    <3>. QED  BY <3>4, <3>5
  <2>4. CASE Fail(r) \/ FlagFailed(r)
    <3>1. ~Final(r)
      BY <1>1, <2>4 DEF RunInv, PumpInv, Fail, FlagFailed, At, Final
    <3>2. ASSUME NEW flag \in BOOLEAN, SetRow(r, Persisted(r, "failed", "none", flag, FALSE))
          PROVE  Same0
      <4> DEFINE new == Persisted(r, "failed", "none", flag, FALSE)
      <4>1. new \in Row /\ new.status = "failed"
        BY <1>1, <2>1 DEF Persisted, Row, Pump
      <4> HIDE DEF new
      <4>. QED  BY <1>1, <3>1, <3>2, <4>1, OneRow DEF new
    <3>. QED  BY <1>2, <2>4, <3>2 DEF Fail, FlagFailed
  <2>5. CASE FlagOutage(r)
    <3>1. row[r].status = "completed" /\ row[r].verdict \in Shaped
      BY <1>1, <2>5 DEF RunInv, PumpInv, FlagOutage, At
    <3>2. ASSUME NEW kept \in BOOLEAN,
                 SetRow(r, Persisted(r, "completed", row[r].verdict, TRUE, kept))
          PROVE  Same0
      <4> DEFINE new == Persisted(r, "completed", row[r].verdict, TRUE, kept)
      <4>1. new \in Row /\ new.status = "completed" /\ new.verdict = row[r].verdict
        BY <1>1, <2>1 DEF Persisted, Row, Pump
      <4>2. SetRow(r, new)
        BY <3>2
      <4> HIDE DEF new
      <4>. QED  BY <1>1, <3>1, <4>1, <4>2, OneRow DEF Final
    <3>. QED  BY <1>2, <2>5, <3>2 DEF FlagOutage
  <2>6. CASE Backstop(r) \/ BackstopFlag(r)
    <3>1. ~Final(r)
      BY <1>1, <2>6 DEF RunInv, PumpInv, Backstop, BackstopFlag, At, Final
    <3>2. ASSUME NEW new \in Row, SetRow(r, new), new.status = "failed"
          PROVE  Same0
      BY <1>1, <3>1, <3>2, OneRow
    <3>3. CASE Backstop(r)
      <4>1. [row[r] EXCEPT !.status = "failed"] \in Row
        BY <1>1 DEF Row
      <4>2. [row[r] EXCEPT !.status = "failed"].status = "failed"
        BY <1>1 DEF Row
      <4>. QED  BY <1>2, <3>2, <3>3, <4>1, <4>2 DEF Backstop
    <3>4. CASE BackstopFlag(r)
      <4>1. row[r].status = "failed"
        BY <1>1, <3>4 DEF RunInv, PumpInv, BackstopFlag, At
      <4>2. /\ [row[r] EXCEPT !.refunded = TRUE] \in Row
            /\ [row[r] EXCEPT !.refunded = TRUE].status = "failed"
        BY <1>1, <4>1 DEF Row
      <4>. QED  BY <1>2, <3>2, <3>4, <4>2 DEF BackstopFlag
    <3>. QED  BY <2>6, <3>3, <3>4
  <2>7. CASE \/ SetUp(r) \/ RefundOutage(r) \/ RefundFailed(r) \/ BackstopRefund(r) \/ End(r)
             \/ ChargeBacktest(r) \/ \E s \in {"spawned", "setup"} : Raise(r, s)
    BY <1>2, <2>7 DEF SetUp, RefundOutage, RefundFailed, BackstopRefund, End, ChargeBacktest,
                      Raise, disk
  <2>. QED  BY <1>3, <2>2, <2>3, <2>4, <2>5, <2>6, <2>7 DEF PumpStep
<1>4. ASSUME NEW r \in Runs, Cancel(r) \/ Older(r)
      PROVE  Same0
  <2>1. /\ row'[r].status = row[r].status /\ row'[r].verdict = row[r].verdict
        /\ \A q \in Runs \ {r} : row'[q] = row[q]
    <3>1. row \in [Runs -> Row] /\ row[r] \in Row
      BY <1>1 DEF TypeOK
    <3>2. CASE Cancel(r)
      BY <3>1, <3>2 DEF Cancel, Row
    <3>3. CASE Older(r)
      BY <3>1, <3>3 DEF Older, Row
    <3>. QED  BY <1>4, <3>2, <3>3
  <2>. QED  BY <2>1 DEF Final
<1>5. ASSUME NEW r \in Runs, Answer(r)
      PROVE  Same0 \/ Gains(r)
  <2>1. row[r].verdict = "outage" /\ row[r].status = "completed"
    BY <1>1, <1>5 DEF Answer, RunInv, QueueInv
  <2>2. CASE SetRow(r, [row[r] EXCEPT !.verdict = "outage", !.snapshot = TRUE])
    BY <1>1, <2>1, <2>2 DEF SetRow, Final, TypeOK, Row
  <2>3. CASE SetRow(r, [row[r] EXCEPT !.verdict = "real", !.snapshot = FALSE])
    BY <1>1, <2>1, <2>3 DEF SetRow, Final, TypeOK, Row
  <2>. QED  BY <1>5, <2>2, <2>3 DEF Answer
<1>6. ASSUME NEW r \in Runs, ResumeStep(r)
      PROVE  Same0
  <2>1. CASE Abandon(r)
    <3>1. row[r].status = "running"
      BY <1>1, <2>1 DEF Abandon, RunInv, QueueInv
    <3>. QED  BY <1>1, <2>1, <3>1 DEF Abandon, Final, TypeOK, Row
  <2>2. CASE ~Abandon(r)
    BY <1>2, <1>6, <2>2 DEF ResumeStep, Respawn, RefundAbandoned, Forget, disk
  <2>. QED  BY <2>1, <2>2
<1>7. ASSUME BootStep
      PROVE  Same0
  <2>1. CASE Boot
    <3>1. ASSUME NEW q \in Runs PROVE Final(q)' <=> Final(q)
      <4>1. CASE row' = row
        BY <4>1 DEF Final
      <4>2. CASE row' = [r \in Runs |-> CASE r \in Again -> Claimed(r)
                                          [] r \in Stuck \ Again -> [row[r] EXCEPT !.status = "failed"]
                                          [] OTHER -> row[r]]
        <5>1. CASE q \in Stuck
          <6>1. row[q].status = "running" /\ row[q] \in Row
            BY <1>1, <5>1 DEF Stuck
          <6>2. row'[q] = Claimed(q) \/ row'[q] = [row[q] EXCEPT !.status = "failed"]
            BY <4>2, <5>1
          <6>3. row'[q].status # "completed"
            BY <6>1, <6>2 DEF Claimed, Row
          <6>. QED  BY <6>1, <6>3 DEF Final
        <5>2. CASE q \notin Stuck
          BY <4>2, <5>2 DEF Again, Final
        <5>. QED  BY <5>1, <5>2
      <4>. QED  BY <2>1, <4>1, <4>2 DEF Boot
    <3>. QED  BY <3>1
  <2>2. CASE ~Boot
    BY <1>2, <1>7, <2>2 DEF BootStep, Swept, Serve, SweepRefund, disk
  <2>. QED  BY <2>1, <2>2
<1>8. CASE \/ \E r \in Runs, k \in Keys : StartRun(r, k) \/ IndexBacktest(r, k)
           \/ \E r \in Runs : AskAgain(r) \/ DropRetry(r)
           \/ Stop \/ Die
  BY <1>2, <1>8 DEF StartRun, IndexBacktest, AskAgain, DropRetry, Stop, Die, disk
<1>. QED  BY <1>3, <1>4, <1>5, <1>6, <1>7, <1>8 DEF Next

(* No retry, sweep or backstop takes a verdict away.                       *)
THEOREM VerdictsStay == Spec => VerdictStays
<1>1. IInv /\ [Next]_vars =>
        [\A r \in Runs : row[r].status = "completed" /\ row[r].verdict = "real" =>
            row'[r].status = "completed" /\ row'[r].verdict = "real"]_vars
  BY FinalStep DEF Final
<1>. QED  BY <1>1, Invariance, PTL DEF Spec, VerdictStays

(* What a step does to the money: nothing, a charge, or one refund of a    *)
(* charge that is still held and that no verdict has earned.               *)
Charges(r) ==
    /\ paid[r] = 0 /\ given[r] = 0 /\ ~Final(r)
    /\ \E price \in Prices : paid' = [paid EXCEPT ![r] = price]
    /\ UNCHANGED <<given, row>>

Refunds(r) ==
    /\ Taken(r) /\ ~Final(r)
    /\ given' = [given EXCEPT ![r] = paid[r]]
    /\ UNCHANGED <<paid, row>>

LEMMA MoneyStep ==
    ASSUME IInv, Next
    PROVE  UNCHANGED <<paid, given>> \/ \E r \in Runs : Charges(r) \/ Refunds(r)
<1> DEFINE Goal == UNCHANGED <<paid, given>> \/ \E r \in Runs : Charges(r) \/ Refunds(r)
<1>1. \A r \in Runs : RunInv(r)
  BY DEF IInv
<1>2. ASSUME NEW r \in Runs,
             (\E k \in Keys : StartRun(r, k) \/ IndexBacktest(r, k)) \/ ChargeBacktest(r)
      PROVE  Goal
  <2>1. paid[r] = 0 /\ given[r] = 0 /\ ~Final(r)
    BY <1>1, <1>2, NoRowType
       DEF StartRun, IndexBacktest, ChargeBacktest, Fresh, RunInv, PumpInv, Unstarted, Final
  <2>. QED  BY <1>2, <2>1 DEF StartRun, IndexBacktest, ChargeBacktest, Charges
<1>3. ASSUME NEW r \in Runs,
             \/ RefundOutage(r) \/ RefundFailed(r) \/ BackstopRefund(r)
             \/ SweepRefund(r) \/ RefundAbandoned(r)
      PROVE  Goal
  <2>1. Taken(r) /\ given' \in {given, [given EXCEPT ![r] = paid[r]]}
    BY <1>3, RefundInv, SweepRefundInv, RefundAbandonedInv
  <2>2. ~Final(r)
    BY <1>1, <1>3 DEF RefundOutage, RefundFailed, BackstopRefund, SweepRefund, RefundAbandoned,
                      RunInv, PumpInv, QueueInv, At, Shaped, Final
  <2>3. UNCHANGED <<paid, row>>
    BY <1>3 DEF RefundOutage, RefundFailed, BackstopRefund, SweepRefund, RefundAbandoned
  <2>. QED  BY <2>1, <2>2, <2>3 DEF Refunds
<1>4. ASSUME NEW r \in Runs, PumpStep(r) \/ ResumeStep(r) \/ BootStep
      PROVE  Goal
  <2>1. CASE PumpStep(r)
    <3>1. CASE \/ Begin(r) \/ SetUp(r) \/ Fail(r) \/ End(r)
               \/ \E v \in Verdicts \ {"none"} : Complete(r, v)
               \/ FlagOutage(r) \/ FlagFailed(r)
               \/ \E s \in {"spawned", "setup"} : Raise(r, s)
               \/ Backstop(r) \/ BackstopFlag(r)
      BY <3>1 DEF Begin, SetUp, Fail, End, Complete, FlagOutage, FlagFailed, Raise, Backstop,
                  BackstopFlag, disk
    <3>. QED  BY <1>2, <1>3, <2>1, <3>1 DEF PumpStep
  <2>2. CASE ResumeStep(r)
    <3>1. CASE Respawn(r) \/ Abandon(r) \/ Forget(r)
      BY <3>1 DEF Respawn, Abandon, Forget, disk
    <3>. QED  BY <1>3, <2>2, <3>1 DEF ResumeStep
  <2>3. CASE BootStep
    <3>1. CASE Boot \/ Swept \/ Serve
      BY <3>1 DEF Boot, Swept, Serve, disk
    <3>. QED  BY <1>3, <2>3, <3>1 DEF BootStep
  <2>. QED  BY <1>4, <2>1, <2>2, <2>3
<1>5. ASSUME NEW r \in Runs,
             Cancel(r) \/ AskAgain(r) \/ Answer(r) \/ DropRetry(r) \/ Older(r) \/ Stop \/ Die
      PROVE  Goal
  BY <1>5 DEF Cancel, AskAgain, Answer, DropRetry, Older, Stop, Die, disk
<1>6. CASE Runs = {}
  <2>1. BootStep \/ Stop \/ Die
    BY <1>6 DEF Next
  <2>. QED  BY <1>6, <2>1 DEF BootStep, Boot, Swept, Serve, Stop, Die, disk
<1>. QED  BY <1>2, <1>4, <1>5, <1>6 DEF Next

Earned ==
    {r \in Runs : /\ paid[r] > 0 /\ given[r] = 0
                  /\ row[r].status = "completed" /\ row[r].verdict = "real"}

LEMMA EarnedFinal ==
    /\ Earned = {r \in Runs : Taken(r) /\ Final(r)}
    /\ Earned' = {r \in Runs : Taken(r)' /\ Final(r)'}
  BY DEF Earned, Taken, Final

LEMMA ChargeStep ==
    ASSUME IInv, Next
    PROVE  Charge!Next \/ UNCHANGED <<paid, given, Earned>>
<1>1. /\ TypeOK /\ \A r \in Runs : RunInv(r)
      /\ paid \in [Runs -> Nat] /\ given \in [Runs -> Nat]
  BY DEF IInv, TypeOK
<1>2. ASSUME NEW r \in Runs, Charges(r)
      PROVE  Charge!Next
  <2>1. Earned' = Earned
    BY <1>1, <1>2, EarnedFinal DEF Charges, Taken, Final
  <2>2. Charge!Charge(r)
    BY <1>2, <2>1 DEF Charges, Charge!Charge, Earned
  <2>. QED  BY <2>2 DEF Charge!Next
<1>3. ASSUME NEW r \in Runs, Refunds(r)
      PROVE  Charge!Next
  <2>1. Earned' = Earned /\ r \notin Earned
    BY <1>1, <1>3, EarnedFinal DEF Refunds, Taken, Final
  <2>2. Charge!GiveBack(r)
    BY <1>3, <2>1 DEF Refunds, Taken, Charge!GiveBack, Charge!Held, Earned
  <2>. QED  BY <2>2 DEF Charge!Next
<1>4. CASE UNCHANGED <<paid, given>>
  <2>1. \A q \in Runs : Taken(q)' <=> Taken(q)
    BY <1>4 DEF Taken
  <2>2. CASE \A q \in Runs : Final(q)' <=> Final(q)
    <3>1. Earned' = Earned
      BY <2>1, <2>2, EarnedFinal
    <3>. QED  BY <1>4, <3>1
  <2>3. ASSUME NEW r \in Runs, Complete(r, "real"), ~Final(r),
               \A q \in Runs : Final(q)' <=> Final(q) \/ q = r
        PROVE  Charge!Next
    <3>1. Taken(r)
      BY <1>1, <2>3 DEF RunInv, RowInv, PumpInv, Complete, At
    <3>2. Earned' = Earned \cup {r} /\ r \notin Earned
      BY <2>1, <2>3, <3>1, EarnedFinal
    <3>3. Charge!Earn(r)
      BY <1>4, <3>1, <3>2 DEF Taken, Charge!Earn, Charge!Held, Earned
    <3>. QED  BY <3>3 DEF Charge!Next
  <2>4. ASSUME NEW r \in Runs, Answer(r), ~Final(r),
               \A q \in Runs : Final(q)' <=> Final(q) \/ q = r
        PROVE  UNCHANGED <<paid, given, Earned>>
    <3>1. ~Taken(r)
      BY <1>1, <2>4 DEF RunInv, RowInv, QueueInv, Answer, Taken, Returned
    <3>2. Earned' = Earned
      BY <2>1, <2>4, <3>1, EarnedFinal
    <3>. QED  BY <1>4, <3>2
  <2>. QED  BY <2>2, <2>3, <2>4, FinalStep
<1>. QED  BY <1>2, <1>3, <1>4, MoneyStep

(* The runner implements the abstract charge: through every crash, retry,  *)
(* sweep and backstop a Room is charged once, and its charge is earned by  *)
(* a verdict or given back once and whole.                                 *)
THEOREM RoomsImplementCharge == Spec => ChargeSpec
<1>1. Init => Charge!Init
  BY NoRowType DEF Init, Charge!Init
<1>2. IInv /\ [Next]_vars => [Charge!Next]_(Charge!vars)
  <2>1. ASSUME UNCHANGED vars PROVE UNCHANGED <<paid, given, Earned>>
    BY <2>1 DEF vars, disk, Earned
  <2>2. UNCHANGED <<paid, given, Earned>> => UNCHANGED Charge!vars
    BY DEF Charge!vars, Earned
  <2>. QED  BY <2>1, <2>2, ChargeStep
<1>. QED  BY <1>1, <1>2, Invariance, PTL DEF Spec, ChargeSpec, Charge!Spec

-----------------------------------------------------------------------------
(* Restarts: a write that fails in the middle of the sweep leaves rows     *)
(* that are not counted and runs them all the same; that is why the        *)
(* theorems assume that writes succeed.                                    *)

(* Attempts are counted on the row: a sweep counts before it starts again. *)
RetryLife(r) ==
    /\ row[r].status = "absent" => /\ row[r].retries = 0 /\ ~row[r].interrupted
                                   /\ attempts[r] = 0
    /\ row[r].retries <= MaxAutoRetries
    /\ attempts[r] <= row[r].retries + 1
    /\ r \in pending \/ At(r, "spawned") => attempts[r] <= row[r].retries
    /\ Alive(r) \/ r \in pending => ~row[r].interrupted
    /\ r \in pending => row[r].retries > 0
    /\ Alive(r) /\ phase = "resuming" => row[r].retries > 0

(* Only a Room that has ended for good has a journal entry.                *)
JournalLife(r) ==
    /\ journal[r] # <<>> => /\ Len(journal[r]) = 1 /\ journal[r][1] # "running"
                            /\ row[r].status \in {"completed", "failed"} /\ At(r, "none")
    /\ At(r, "returned") => row[r].status \in {"absent", "failed"}

(* A pump holds its key, unless boots have tried two Rooms of the key.     *)
KeyLife(r) ==
    /\ At(r, "indexed") => r \in index /\ ~pump[r].journals
    /\ At(r, "abandoning") => phase = "resuming"
    /\ Alive(r) /\ pump[r].journals /\ ~At(r, "abandoning")
          => active[key[r]] = r \/ TwoTried(key[r])

Life == \A r \in Runs : RetryLife(r) /\ JournalLife(r) /\ KeyLife(r)

-----------------------------------------------------------------------------
(* What most steps leave alone.                                            *)

(* The counters of a row, and where its pump may not be all of a sudden.   *)
QuietRun(q) ==
    /\ row'[q].retries = row[q].retries /\ row'[q].interrupted = row[q].interrupted
    /\ row'[q].status = "absent" => row[q].status = "absent"
    /\ At(q, "spawned")' => At(q, "spawned")
    /\ Alive(q)' => Alive(q)
    /\ attempts'[q] = attempts[q]
    /\ q \in pending' => q \in pending
    /\ phase' = "resuming" => phase = "resuming" \/ ~Alive(q)'

LEMMA QuietRetry ==
    ASSUME NEW q \in Runs, RetryLife(q), QuietRun(q)
    PROVE  RetryLife(q)'
  BY DEF RetryLife, QuietRun, At, Alive

(* The journal, and what is in the row once the pump is gone.              *)
QuietJournal(q) ==
    /\ journal'[q] = journal[q]
    /\ At(q, "none") =>
          /\ At(q, "none")'
          /\ row[q].status \in {"completed", "failed"}
                => row'[q].status \in {"completed", "failed"}
    /\ At(q, "returned")' => row'[q].status \in {"absent", "failed"}

LEMMA QuietEntry ==
    ASSUME NEW q \in Runs, JournalLife(q), QuietJournal(q)
    PROVE  JournalLife(q)'
  BY DEF JournalLife, QuietJournal, At

(* The keys, and who is under way on them.                                 *)
QuietKeys ==
    /\ key' = key /\ active' = active /\ index \subseteq index'
    /\ phase' = phase \/ \A q \in Runs : ~At(q, "abandoning")'
    /\ \A q \in Runs :
          /\ row'[q].retries >= row[q].retries
          /\ Alive(q)' => Alive(q) /\ pump'[q].journals = pump[q].journals
          /\ At(q, "indexed")' => At(q, "indexed")
          /\ Alive(q)' => (At(q, "abandoning")' <=> At(q, "abandoning"))

LEMMA TriedStays ==
    ASSUME TypeOK, TypeOK', NEW k,
           \A q \in Runs : /\ key[q] = k /\ row[q].retries > 0 => key'[q] = k
                           /\ row'[q].retries >= row[q].retries
    PROVE  TwoTried(k) => TwoTried(k)'
<1>1. \A q \in Runs : row[q].retries \in Nat /\ row'[q].retries \in Nat
  BY DEF TypeOK, Row
<1>. QED  BY <1>1 DEF TwoTried

LEMMA QuietHold ==
    ASSUME TypeOK, TypeOK', QuietKeys, \A q \in Runs : KeyLife(q), NEW q \in Runs
    PROVE  KeyLife(q)'
<1>1. TwoTried(key[q]) => TwoTried(key[q])'
  BY TriedStays DEF QuietKeys
<1>. QED  BY <1>1 DEF QuietKeys, KeyLife, At, Alive, TwoTried

Quiet == QuietKeys /\ \A q \in Runs : QuietRun(q) /\ QuietJournal(q)

LEMMA QuietLife ==
    ASSUME TypeOK, TypeOK', Life, Quiet
    PROVE  Life'
  BY QuietRetry, QuietEntry, QuietHold DEF Life, Quiet
-----------------------------------------------------------------------------
(* The pump *)

LEMMA GotoPump ==
    ASSUME TypeOK, NEW r \in Runs, NEW stage, Goto(r, stage)
    PROVE  /\ pump'[r].at = stage /\ pump'[r].journals = pump[r].journals
           /\ \A q \in Runs \ {r} : pump'[q] = pump[q]
  BY DEF Goto, TypeOK, Pump

(* A write of other columns than the counters.                             *)
Counted(r, new) ==
    /\ new \in Row /\ new.status # "absent"
    /\ new.retries = row[r].retries /\ new.interrupted = row[r].interrupted

LEMMA PersistedCounted ==
    ASSUME TypeOK, NEW r \in Runs, NEW status \in {"running", "completed", "failed"},
           NEW verdict \in Verdicts, NEW refunded \in BOOLEAN, NEW snapshot \in BOOLEAN
    PROVE  /\ Counted(r, Persisted(r, status, verdict, refunded, snapshot))
           /\ Persisted(r, status, verdict, refunded, snapshot).status = status
<1>1. row[r] \in Row /\ Persisted(r, status, verdict, refunded, snapshot) \in Row
  BY PersistedType DEF TypeOK
<1>. QED  BY <1>1 DEF Counted, Persisted, Row

LEMMA RenewedCounted ==
    ASSUME TypeOK, NEW r \in Runs, NEW status \in {"running", "completed"},
           NEW v \in Verdicts
    PROVE  Counted(r, Renewed(r, status, v)) /\ Renewed(r, status, v).status = status
<1> DEFINE old == Persisted(r, status, v, FALSE, FALSE)
<1>1. Counted(r, old) /\ old.status = status
  BY PersistedCounted
<1>2. Renewed(r, status, v) \in Row /\ Renewed(r, status, v) = [old EXCEPT !.age = 0]
  BY RenewedType DEF Renewed
<1> HIDE DEF old
<1>. QED  BY <1>1, <1>2 DEF Counted, Row

(* A pump passes on to its next stage, and nothing else moves.             *)
Moves(r) ==
    /\ \E stage \in Stages \ {"none", "spawned", "indexed", "abandoning"} :
          /\ Goto(r, stage)
          /\ stage = "returned" => row'[r].status \in {"absent", "failed"}
    /\ pump[r].at \notin {"none", "indexed", "abandoning"}
    /\ row' = row \/ \E new : Counted(r, new) /\ SetRow(r, new)
    /\ UNCHANGED <<key, index, journal, phase, active, pending>>

LEMMA MovesQuiet ==
    ASSUME TypeOK, NEW r \in Runs, Moves(r), NEW q \in Runs, JournalLife(q)
    PROVE  /\ QuietKeys /\ QuietJournal(q)
           /\ attempts' = attempts => QuietRun(q)
<1>1. PICK stage \in Stages \ {"none", "spawned", "indexed", "abandoning"} :
          /\ Goto(r, stage)
          /\ stage = "returned" => row'[r].status \in {"absent", "failed"}
  BY DEF Moves
<1>2. /\ pump'[r].at = stage /\ pump'[r].journals = pump[r].journals
      /\ \A p \in Runs \ {r} : pump'[p] = pump[p]
  BY <1>1, GotoPump
<1>3. /\ \A p \in Runs \ {r} : row'[p] = row[p]
      /\ row'[r].retries = row[r].retries /\ row'[r].interrupted = row[r].interrupted
      /\ row'[r].status = "absent" => row[r].status = "absent"
  BY SetRowType DEF Moves, Counted
<1>4. \A p \in Runs : row[p].retries \in Nat
  BY DEF TypeOK, Row
<1>5. QuietKeys
  BY <1>1, <1>2, <1>3, <1>4 DEF QuietKeys, Moves, At, Alive
<1>6. QuietJournal(q)
  BY <1>1, <1>2, <1>3 DEF QuietJournal, Moves, JournalLife, At
<1>7. attempts' = attempts => QuietRun(q)
  BY <1>1, <1>2, <1>3 DEF QuietRun, Moves, At, Alive
<1>. QED  BY <1>5, <1>6, <1>7

(* The steps of a pump between its row and its end.                        *)
LEMMA PumpMoves ==
    ASSUME IInv, NEW r \in Runs, "write" \notin Faults,
           \/ Begin(r) \/ SetUp(r) \/ Fail(r)
           \/ \E v \in Verdicts \ {"none"} : Complete(r, v)
           \/ RefundOutage(r) \/ FlagOutage(r) \/ RefundFailed(r) \/ FlagFailed(r)
           \/ \E stage \in {"spawned", "setup"} : Raise(r, stage)
           \/ Backstop(r) \/ BackstopRefund(r) \/ BackstopFlag(r)
    PROVE  Moves(r)
<1>1. /\ TypeOK /\ RunInv(r) /\ row[r] \in Row /\ row[r].verdict \in Verdicts
      /\ "none" \in Verdicts
  BY DEF IInv, TypeOK, Row, Verdicts
<1>2. row[r].status \in {"running", "completed", "failed"}
         => /\ Counted(r, [row[r] EXCEPT !.status = "failed"])
            /\ Counted(r, [row[r] EXCEPT !.refunded = TRUE])
            /\ [row[r] EXCEPT !.status = "failed"].status = "failed"
  BY <1>1 DEF Counted, Row
<1> DEFINE Later == Stages \ {"none", "spawned", "indexed", "abandoning"}
           Quietly == /\ pump[r].at \notin {"none", "indexed", "abandoning"}
                      /\ UNCHANGED <<key, index, journal, phase, active, pending>>
<1>3. ASSUME Quietly, NEW stage \in Later \ {"returned"}, Goto(r, stage),
             row' = row \/ \E new : Counted(r, new) /\ SetRow(r, new)
      PROVE  Moves(r)
  BY <1>3 DEF Moves
<1>4. CASE Begin(r)
  <2>1. Counted(r, Renewed(r, "running", "none"))
    BY <1>1, RenewedCounted
  <2>2. SetRow(r, Renewed(r, "running", "none")) /\ Goto(r, "setup") /\ Quietly
    BY <1>4 DEF Begin, Renewed, At
  <2>. QED  BY <1>3, <2>1, <2>2 DEF Stages
<1>5. CASE SetUp(r) \/ \E stage \in {"spawned", "setup"} : Raise(r, stage)
  <2>1. Quietly /\ row' = row /\ (Goto(r, "desks") \/ Goto(r, "raised"))
    BY <1>5 DEF SetUp, Raise, At, disk
  <2>. QED  BY <1>3, <2>1 DEF Stages
<1>6. ASSUME NEW v \in Verdicts \ {"none"}, Complete(r, v) PROVE Moves(r)
  <2>1. Counted(r, Renewed(r, "completed", v))
    BY <1>1, RenewedCounted
  <2>2. /\ SetRow(r, Renewed(r, "completed", v)) /\ Quietly
        /\ Goto(r, "owing") \/ Goto(r, "ending")
    BY <1>6 DEF Complete, Renewed, At
  <2>. QED  BY <1>3, <2>1, <2>2 DEF Stages, Sync
<1>7. CASE Fail(r)
  <2>1. Counted(r, Persisted(r, "failed", "none", FALSE, FALSE))
    BY <1>1, PersistedCounted
  <2>2. /\ SetRow(r, Persisted(r, "failed", "none", FALSE, FALSE)) /\ Goto(r, "failing")
        /\ Quietly
    BY <1>7 DEF Fail, At
  <2>. QED  BY <1>3, <2>1, <2>2 DEF Stages, Sync
<1>8. CASE RefundOutage(r) \/ RefundFailed(r)
  <2>1. /\ Quietly /\ row' = row
        /\ Goto(r, "flagging") \/ Goto(r, "noting") \/ Goto(r, "ending")
    BY <1>8 DEF RefundOutage, RefundFailed, GiveBack, At
  <2>. QED  BY <1>3, <2>1 DEF Stages, Sync
<1>9. CASE FlagOutage(r)
  <2>1. \A kept \in BOOLEAN : Counted(r, Persisted(r, "completed", row[r].verdict, TRUE, kept))
    BY <1>1, PersistedCounted
  <2>2. /\ \E kept \in BOOLEAN :
             SetRow(r, Persisted(r, "completed", row[r].verdict, TRUE, kept))
        /\ Goto(r, "ending") /\ Quietly
    BY <1>9 DEF FlagOutage, At
  <2>. QED  BY <1>3, <2>1, <2>2 DEF Stages, Sync
<1>10. CASE FlagFailed(r)
  <2>1. Counted(r, Persisted(r, "failed", "none", TRUE, FALSE))
    BY <1>1, PersistedCounted
  <2>2. /\ SetRow(r, Persisted(r, "failed", "none", TRUE, FALSE)) /\ Goto(r, "ending")
        /\ Quietly
    BY <1>10 DEF FlagFailed, At
  <2>. QED  BY <1>3, <2>1, <2>2 DEF Stages, Sync
<1>11. CASE Backstop(r)
  <2>1. /\ Quietly
        /\ \/ /\ row[r].status = "running"
              /\ SetRow(r, [row[r] EXCEPT !.status = "failed"])
              /\ Goto(r, "returned") \/ Goto(r, "giving")
           \/ row[r].status # "running" /\ row' = row /\ Goto(r, "returned")
    BY <1>11 DEF Backstop, At
  <2>2. row[r].status # "running" => row[r].status \in {"absent", "failed"}
    BY <1>1, <1>11 DEF RunInv, PumpInv, Backstop, At, Row
  <2>3. row[r].status = "running" =>
           /\ Counted(r, [row[r] EXCEPT !.status = "failed"])
           /\ row'[r].status = "failed"
    BY <1>1, <1>2, <2>1, SetRowType DEF Counted
  <2>. QED  BY <2>1, <2>2, <2>3 DEF Moves, Stages
<1>12. CASE BackstopRefund(r) \/ BackstopFlag(r)
  <2>1. row[r].status = "failed"
    BY <1>1, <1>12 DEF RunInv, PumpInv, BackstopRefund, BackstopFlag, At
  <2>2. /\ Quietly
        /\ \/ row' = row /\ (Goto(r, "stamping") \/ Goto(r, "returned"))
           \/ SetRow(r, [row[r] EXCEPT !.refunded = TRUE]) /\ Goto(r, "returned")
    BY <1>12 DEF BackstopRefund, BackstopFlag, GiveBack, At
  <2>3. SetRow(r, [row[r] EXCEPT !.refunded = TRUE]) => row'[r].status = "failed"
    BY <1>1, <2>1 DEF SetRow, TypeOK, Row
  <2>. QED  BY <1>2, <2>1, <2>2, <2>3 DEF Moves, Stages
<1>. QED  BY <1>4, <1>5, <1>6, <1>7, <1>8, <1>9, <1>10, <1>11, <1>12

(* What a step that is about another run leaves of this one.               *)
Untouched(q) ==
    /\ row'[q] = row[q] /\ pump'[q] = pump[q]
    /\ attempts'[q] = attempts[q] /\ journal'[q] = journal[q]
    /\ q \in pending' => q \in pending
    /\ phase' = "resuming" => phase = "resuming" \/ ~Alive(q)'

LEMMA UntouchedLife ==
    ASSUME NEW q \in Runs, Untouched(q), RetryLife(q), JournalLife(q)
    PROVE  RetryLife(q)' /\ JournalLife(q)'
  BY QuietRetry, QuietEntry DEF Untouched, QuietRun, QuietJournal, JournalLife, At, Alive

(* The run begins: its row is there from now on, and the attempt counts.   *)
LEMMA BeginLife ==
    ASSUME IInv, TypeOK', Life, NEW r \in Runs, Begin(r), "write" \notin Faults
    PROVE  Life'
<1>1. /\ TypeOK /\ row[r] \in Row /\ attempts \in [Runs -> Nat] /\ attempts[r] \in Nat
      /\ RetryLife(r) /\ "none" \in Verdicts
  BY DEF IInv, TypeOK, Life, Verdicts
<1>2. Moves(r)
  BY PumpMoves
<1>3. \A q \in Runs : QuietKeys /\ QuietJournal(q)
  BY <1>1, <1>2, MovesQuiet DEF Life
<1>4. \A q \in Runs : JournalLife(q)' /\ KeyLife(q)'
  BY <1>1, <1>3, QuietEntry, QuietHold DEF Life
<1>5. /\ Counted(r, Renewed(r, "running", "none")) /\ SetRow(r, Renewed(r, "running", "none"))
      /\ Goto(r, "setup")
  BY <1>1, RenewedCounted DEF Begin, Renewed
<1>6. /\ row'[r].status # "absent" /\ row'[r].retries = row[r].retries
      /\ row'[r].interrupted = row[r].interrupted /\ pump'[r].at = "setup"
      /\ \A q \in Runs \ {r} : row'[q] = row[q] /\ pump'[q] = pump[q]
  BY <1>1, <1>5, SetRowType, GotoPump DEF Counted
<1>7. attempts'[r] <= row[r].retries + 1
  BY <1>1, <1>6 DEF Begin, RetryLife, Bound, MaxAutoRetries, Row, At
<1>8. RetryLife(r)'
  <2>1. phase' = phase /\ pending' = pending /\ Alive(r) /\ r \notin pending
    BY <1>1 DEF Begin, At, Alive, IInv, RunInv, QueueInv
  <2>. QED  BY <1>1, <1>6, <1>7, <2>1 DEF RetryLife, At, Alive
<1>9. ASSUME NEW q \in Runs \ {r} PROVE RetryLife(q)'
  <2>1. attempts'[q] = attempts[q] /\ phase' = phase /\ pending' = pending
        /\ journal' = journal
    BY <1>1 DEF Begin
  <2>. QED  BY <1>6, <2>1, UntouchedLife DEF Untouched, Life
<1>. QED  BY <1>4, <1>8, <1>9 DEF Life

-----------------------------------------------------------------------------
(* Starting a Room *)

LEMMA FreshRun ==
    ASSUME IInv, Life, NEW r \in Runs, key[r] = None \/ At(r, "indexed")
    PROVE  /\ row[r] = NoRow /\ row[r].retries = 0 /\ ~row[r].interrupted
           /\ row[r].status = "absent" /\ attempts[r] = 0 /\ journal[r] = <<>>
           /\ r \notin pending
<1>1. row[r] = NoRow
  BY DEF IInv, RunInv, PumpInv, Unstarted
<1>2. row[r].status = "absent"
  BY <1>1 DEF NoRow
<1>. QED  BY <1>1, <1>2 DEF Life, RetryLife, JournalLife, IInv, RunInv, QueueInv

(* Other keys stay as they are when a run takes or leaves its own.         *)
LEMMA OthersHold ==
    ASSUME IInv, TypeOK', Life, NEW r \in Runs, row[r].retries = 0,
           row' = row, phase' = phase, index \ {r} \subseteq index',
           NEW q \in Runs \ {r}, pump'[q] = pump[q],
           \A p \in Runs \ {r} : key'[p] = key[p],
           Alive(q) => active'[key[q]] = active[key[q]] \/ active[key[q]] = None
    PROVE  KeyLife(q)'
<1>1. TypeOK /\ KeyLife(q)
  BY DEF IInv, Life
<1>2. key[q] = None => ~Alive(q)
  BY DEF IInv, RunInv, PumpInv, Alive
<1>3. \A p \in Runs : row[p].retries \in Nat
  BY <1>1 DEF TypeOK, Row
<1>4. TwoTried(key[q]) => TwoTried(key[q])'
  BY <1>1, <1>3, TriedStays
<1>. QED  BY <1>1, <1>2, <1>4, RoomAssumption DEF KeyLife, Alive, At

LEMMA StartLife ==
    ASSUME IInv, TypeOK', Life, NEW r \in Runs, NEW k \in Keys, StartRun(r, k)
    PROVE  Life'
<1>1. /\ TypeOK /\ row[r].retries = 0 /\ ~row[r].interrupted /\ row[r].status = "absent"
      /\ attempts[r] = 0 /\ journal[r] = <<>> /\ r \notin pending
  BY FreshRun DEF StartRun, Fresh, IInv
<1>2. /\ UNCHANGED <<row, index, journal, phase, pending, attempts>>
      /\ phase = "serving"
      /\ key' = [key EXCEPT ![r] = k] /\ active' = [active EXCEPT ![k] = r]
      /\ active[k] = None
      /\ \A q \in Runs \ {r} : pump'[q] = pump[q]
      /\ \E price : pump'[r] = [NoPump EXCEPT !.at = "spawned", !.cost = price]
  BY <1>1 DEF StartRun, Attached, history, TypeOK
<1>3. pump'[r].at = "spawned"
  BY <1>2 DEF NoPump
<1>4. /\ key'[r] = k /\ active'[k] = r
      /\ \A q \in Runs \ {r} : key'[q] = key[q]
      /\ \A j \in Keys : active'[j] = active[j] \/ active[j] = None
  BY <1>1, <1>2 DEF TypeOK
<1>5. RetryLife(r)' /\ JournalLife(r)' /\ KeyLife(r)'
  BY <1>1, <1>2, <1>3, <1>4 DEF RetryLife, JournalLife, KeyLife, At, Alive, MaxAutoRetries
<1>6. ASSUME NEW q \in Runs \ {r} PROVE RetryLife(q)' /\ JournalLife(q)' /\ KeyLife(q)'
  <2>1. Untouched(q) /\ RetryLife(q) /\ JournalLife(q)
    BY <1>2 DEF Untouched, Life
  <2>2. Alive(q) => key[q] \in Keys
    BY DEF IInv, RunInv, PumpInv, TypeOK, Alive
  <2>3. KeyLife(q)'
    BY <1>1, <1>2, <1>4, <2>2, OthersHold
  <2>. QED  BY <2>1, <2>3, UntouchedLife
<1>. QED  BY <1>5, <1>6 DEF Life

LEMMA BacktestLife ==
    ASSUME IInv, TypeOK', Life, NEW r \in Runs,
           (\E k \in Keys : IndexBacktest(r, k)) \/ ChargeBacktest(r)
    PROVE  Life'
<1>1. /\ TypeOK /\ row[r].retries = 0 /\ ~row[r].interrupted /\ row[r].status = "absent"
      /\ attempts[r] = 0 /\ journal[r] = <<>> /\ r \notin pending
  BY FreshRun DEF IndexBacktest, ChargeBacktest, Fresh, IInv
<1>2. /\ UNCHANGED <<row, active, journal, phase, pending, attempts>>
      /\ index \ {r} \subseteq index'
      /\ \A q \in Runs \ {r} : pump'[q] = pump[q] /\ key'[q] = key[q]
  BY <1>1 DEF IndexBacktest, ChargeBacktest, history, TypeOK
<1>3. Alive(r)' => ~pump'[r].journals /\ (phase # "resuming" \/ Alive(r))
  <2>1. CASE \E k \in Keys : IndexBacktest(r, k)
    <3>1. /\ pump'[r] = [NoPump EXCEPT !.at = "indexed", !.basis = "asof", !.journals = FALSE]
          /\ phase = "serving"
      BY <1>1, <2>1 DEF IndexBacktest, TypeOK
    <3>. QED  BY <3>1 DEF NoPump
  <2>2. CASE ChargeBacktest(r)
    <3>1. \/ \E price : pump'[r] = [pump[r] EXCEPT !.at = "spawned", !.cost = price]
          \/ pump'[r] = NoPump
      BY <1>1, <2>2 DEF ChargeBacktest, TypeOK
    <3>2. At(r, "indexed") /\ ~pump[r].journals
      BY <2>2 DEF ChargeBacktest, Life, KeyLife
    <3>. QED  BY <1>1, <3>1, <3>2, NoPumpType DEF TypeOK, Pump, At, Alive
  <2>. QED  BY <2>1, <2>2
<1>4. \/ ~Alive(r)'
      \/ At(r, "indexed")' /\ r \in index'
      \/ At(r, "spawned")' /\ Alive(r) /\ index' = index
  <2>1. CASE \E k \in Keys : IndexBacktest(r, k)
    BY <1>1, <2>1 DEF IndexBacktest, TypeOK, NoPump, At
  <2>2. CASE ChargeBacktest(r)
    BY <1>1, <2>2, NoPumpType DEF ChargeBacktest, TypeOK, Pump, At, Alive
  <2>. QED  BY <2>1, <2>2
<1>5. RetryLife(r)' /\ JournalLife(r)' /\ KeyLife(r)'
  <2>1. RetryLife(r) /\ JournalLife(r) /\ KeyLife(r)
    BY DEF Life
  <2>2. RetryLife(r)'
    BY <1>1, <1>2, <1>3, <2>1 DEF RetryLife, At, Alive, MaxAutoRetries
  <2>3. JournalLife(r)' /\ KeyLife(r)'
    BY <1>1, <1>2, <1>3, <1>4, <2>1 DEF JournalLife, KeyLife, At, Alive
  <2>. QED  BY <2>2, <2>3
<1>6. ASSUME NEW q \in Runs \ {r} PROVE RetryLife(q)' /\ JournalLife(q)' /\ KeyLife(q)'
  <2>1. Untouched(q) /\ RetryLife(q) /\ JournalLife(q)
    BY <1>2 DEF Untouched, Life
  <2>2. KeyLife(q)'
    BY <1>1, <1>2, OthersHold
  <2>. QED  BY <2>1, <2>2, UntouchedLife
<1>. QED  BY <1>5, <1>6 DEF Life
-----------------------------------------------------------------------------
(* Ending *)

(* A pump that ends gives up a key: its own, or one that two Rooms share   *)
(* because boots have tried both again.                                    *)
LEMMA EndLife ==
    ASSUME IInv, TypeOK', Life, NEW r \in Runs, End(r) \/ Cancel(r)
    PROVE  Life'
<1>1. /\ TypeOK /\ RunInv(r) /\ RetryLife(r) /\ JournalLife(r) /\ KeyLife(r)
      /\ row[r] \in Row
  BY DEF IInv, Life, TypeOK
<1>2. /\ Alive(r) /\ ~At(r, "abandoning")
      /\ pump' = [pump EXCEPT ![r] = NoPump] /\ active' = Released(r)
      /\ UNCHANGED <<key, index, phase, pending, attempts>>
  BY DEF End, Cancel, At, Alive, history
<1>3. /\ ~Alive(r)' /\ \A q \in Runs \ {r} : pump'[q] = pump[q]
      /\ ~At(r, "none") /\ journal[r] = <<>> /\ r \notin pending
      /\ key[r] \in Keys
  BY <1>1, <1>2, NoPumpType DEF TypeOK, At, Alive, JournalLife, RunInv, QueueInv, PumpInv
<1>4. /\ row'[r].retries = row[r].retries
      /\ row'[r].status = "absent" => row[r].status = "absent" /\ row' = row
      /\ row'[r].status = row[r].status
      /\ \A q \in Runs \ {r} : row'[q] = row[q]
  <2>1. row' = row \/ row' = [row EXCEPT ![r] = [row[r] EXCEPT !.interrupted = TRUE]]
    BY <1>1 DEF End, Cancel, TypeOK
  <2>2. At(r, "desks") => row[r].status = "running"
    BY <1>1 DEF RunInv, PumpInv, At
  <2>3. row' = row \/ At(r, "desks")
    BY DEF End, Cancel
  <2>. QED  BY <1>1, <2>1, <2>2, <2>3 DEF TypeOK, Row
<1>5. RetryLife(r)'
  BY <1>1, <1>2, <1>3, <1>4 DEF RetryLife, At, Alive
<1>6. JournalLife(r)'
  <2>1. CASE journal' = journal
    BY <1>3, <2>1 DEF JournalLife, At, Alive
  <2>2. CASE End(r) /\ Journalled(r) /\ row' = row
    <3>1. row[r].status # "absent" => journal'[r] = Append(<<>>, Reported(r))
      BY <1>1, <1>3, <2>2 DEF Journalled, TypeOK, Bound, MaxAutoRetries
    <3>2. row[r].status = "absent" => journal'[r] = <<>>
      BY <1>1, <1>3, <2>2 DEF Journalled, TypeOK
    <3>3. row[r].status \in {"absent", "completed", "failed"}
      BY <1>1, <2>2 DEF End, RunInv, PumpInv, JournalLife
    <3>4. row[r].status # "absent" => Reported(r) # "running"
      BY <1>1, <3>3 DEF Reported, Row, Verdicts
    <3>5. row[r].status # "absent" => /\ Len(Append(<<>>, Reported(r))) = 1
                                      /\ Append(<<>>, Reported(r))[1] = Reported(r)
      <4>1. row[r].status # "absent" => Reported(r) \in Entries
        BY <1>1 DEF Reported, Row, Entries
      <4>. QED  BY <4>1
    <3>. QED  BY <1>3, <2>2, <3>1, <3>2, <3>3, <3>4, <3>5 DEF JournalLife, At, Alive
  <2>. QED  BY <2>1, <2>2 DEF End, Cancel
<1>7. KeyLife(r)'
  BY <1>3 DEF KeyLife, At, Alive
<1>8. ASSUME NEW q \in Runs \ {r} PROVE RetryLife(q)' /\ JournalLife(q)' /\ KeyLife(q)'
  <2>1. journal'[q] = journal[q]
    BY <1>1 DEF End, Cancel, Journalled, TypeOK
  <2>2. Untouched(q) /\ RetryLife(q) /\ JournalLife(q) /\ KeyLife(q)
    BY <1>2, <1>3, <1>4, <2>1 DEF Untouched, Life
  <2>3. \A p \in Runs : row'[p].retries >= row[p].retries
    <3>1. \A p \in Runs : row[p].retries \in Nat
      BY <1>1 DEF TypeOK, Row
    <3>. QED  BY <1>4, <3>1
  <2>4. TwoTried(key[q]) => TwoTried(key[q])'
    BY <1>1, <1>2, <2>3, TriedStays
  <2>5. Alive(q) => \/ active'[key[q]] = active[key[q]]
                    \/ pump[r].journals /\ key[q] = key[r]
    <3>1. Alive(q) => key[q] \in Keys
      BY DEF IInv, RunInv, PumpInv, TypeOK, Alive
    <3>. QED  BY <1>1, <1>2, <1>3, <3>1 DEF Released, TypeOK
  <2>6. active[key[q]] = q /\ pump[r].journals /\ key[q] = key[r] => TwoTried(key[q])
    BY <1>1, <1>2 DEF KeyLife
  <2>7. KeyLife(q)'
    BY <1>2, <1>3, <2>2, <2>4, <2>5, <2>6 DEF KeyLife, At, Alive
  <2>. QED  BY <2>2, <2>7, UntouchedLife
<1>. QED  BY <1>5, <1>6, <1>7, <1>8 DEF Life

-----------------------------------------------------------------------------
(* Booting *)

LEMMA BootLife ==
    ASSUME IInv, TypeOK', Life, Boot, "write" \notin Faults
    PROVE  Life'
<1>1. /\ TypeOK /\ PhaseInv /\ \A q \in Runs : At(q, "none") /\ row[q] \in Row
  BY DEF IInv, PhaseInv, Boot, TypeOK
<1>2. /\ \A q \in Runs : row'[q] = CASE q \in Again -> Claimed(q)
                                    [] q \in Stuck \ Again -> [row[q] EXCEPT !.status = "failed"]
                                    [] OTHER -> row[q]
      /\ pending' = Again /\ phase' = "sweeping"
      /\ UNCHANGED <<key, index, journal, pump, active, attempts>>
  BY DEF Boot, history
<1>3. ASSUME NEW q \in Runs
      PROVE  /\ q \in Again => /\ row'[q].retries = row[q].retries + 1
                               /\ row[q].retries < MaxAutoRetries
                               /\ ~row'[q].interrupted /\ row'[q].status = "running"
                               /\ row[q].status = "running"
             /\ q \notin Again => /\ row'[q].retries = row[q].retries
                                  /\ row'[q].interrupted = row[q].interrupted
                                  /\ row'[q] = row[q] \/ row'[q].status = "failed"
  <2>1. CASE q \in Again
    BY <1>1, <1>2, <2>1 DEF Claimed, Row, Again, Stuck
  <2>2. CASE q \in Stuck \ Again
    <3>1. row'[q] = [row[q] EXCEPT !.status = "failed"]
      BY <1>2, <2>2
    <3>. QED  BY <1>1, <2>2, <3>1 DEF Row
  <2>3. CASE q \notin Stuck
    <3>1. row'[q] = row[q] /\ q \notin Again
      BY <1>2, <2>3 DEF Again
    <3>. QED  BY <3>1
  <2>. QED  BY <2>1, <2>2, <2>3 DEF Again
<1>4. \A q \in Runs : row[q].retries \in Nat /\ attempts[q] \in Nat
  BY <1>1 DEF TypeOK, Row
<1>5. ASSUME NEW q \in Runs PROVE RetryLife(q)'
  <2>1. RetryLife(q)
    BY DEF Life
  <2>. QED  BY <1>1, <1>2, <1>3, <1>4, <2>1 DEF RetryLife, At, Alive, MaxAutoRetries
<1>6. ASSUME NEW q \in Runs PROVE JournalLife(q)'
  <2>1. QuietJournal(q)
    BY <1>1, <1>2, <1>3 DEF QuietJournal, At
  <2>. QED  BY <2>1, QuietEntry DEF Life
<1>7. ASSUME NEW q \in Runs PROVE KeyLife(q)'
  BY <1>1, <1>2 DEF KeyLife, At, Alive
<1>. QED  BY <1>5, <1>6, <1>7 DEF Life

(* A claimed run is tried again, or given up: its own journal is empty.    *)
LEMMA ResumeLife ==
    ASSUME IInv, TypeOK', Life, NEW r \in Runs, Respawn(r) \/ Abandon(r)
    PROVE  Life'
<1>1. /\ TypeOK /\ RetryLife(r) /\ JournalLife(r) /\ row[r] \in Row
      /\ row[r].status = "running" /\ r \in pending /\ phase = "resuming"
  BY DEF IInv, RunInv, QueueInv, Life, TypeOK, Respawn, Abandon
<1>2. /\ UNCHANGED <<key, index, journal, phase, attempts>>
      /\ pending' = pending \ {r}
      /\ \A q \in Runs \ {r} : pump'[q] = pump[q] /\ row'[q] = row[q]
      /\ row'[r].retries = row[r].retries /\ row'[r].interrupted = row[r].interrupted
      /\ row'[r].status # "absent"
  <2>1. row' = row \/ row' = [row EXCEPT ![r] = [row[r] EXCEPT !.status = "failed"]]
    BY <1>1 DEF Respawn, Abandon, TypeOK, disk
  <2>2. /\ UNCHANGED <<key, index, journal, phase, attempts>>
        /\ pending' = pending \ {r}
        /\ \A q \in Runs \ {r} : pump'[q] = pump[q]
    BY <1>1 DEF Respawn, Abandon, TypeOK, disk, history
  <2>3. /\ \A q \in Runs \ {r} : row'[q] = row[q]
        /\ row'[r] = row[r] \/ row'[r] = [row[r] EXCEPT !.status = "failed"]
    BY <1>1, <2>1 DEF TypeOK
  <2>4. /\ row'[r].retries = row[r].retries /\ row'[r].interrupted = row[r].interrupted
        /\ row'[r].status # "absent"
    BY <1>1, <2>3 DEF Row
  <2>. QED  BY <2>2, <2>3, <2>4
<1>3. key[r] \in Keys /\ journal[r] = <<>>
  BY <1>1, NoRowType DEF JournalLife, IInv, RunInv, PumpInv, Unstarted, TypeOK
<1>4. \/ At(r, "spawned")' /\ active' = [active EXCEPT ![key[r]] = r]
      \/ At(r, "abandoning")' /\ active' = active
  <2>1. CASE Respawn(r)
    BY <1>1, <2>1 DEF Respawn, NoPump, At, TypeOK
  <2>2. CASE Abandon(r)
    BY <1>1, <2>2 DEF Abandon, NoPump, At, TypeOK
  <2>. QED  BY <2>1, <2>2
<1>5. RetryLife(r)'
  BY <1>1, <1>2, <1>4 DEF RetryLife, At, Alive
<1>6. JournalLife(r)'
  BY <1>2, <1>3, <1>4 DEF JournalLife, At
<1>7. KeyLife(r)'
  BY <1>1, <1>2, <1>3, <1>4 DEF KeyLife, At, Alive, TypeOK
<1>8. ASSUME NEW q \in Runs \ {r} PROVE RetryLife(q)' /\ JournalLife(q)' /\ KeyLife(q)'
  <2>1. Untouched(q) /\ RetryLife(q) /\ JournalLife(q) /\ KeyLife(q)
    BY <1>2 DEF Untouched, Life
  <2>2. TwoTried(key[q]) => TwoTried(key[q])'
    <3>1. \A p \in Runs : row[p].retries \in Nat
      BY <1>1 DEF TypeOK, Row
    <3>2. \A p \in Runs : row'[p].retries >= row[p].retries
      BY <1>2, <3>1
    <3>. QED  BY <1>1, <1>2, <3>2, TriedStays
  <2>3. Alive(q) => \/ active'[key[q]] = active[key[q]]
                    \/ key[q] = key[r] /\ TwoTried(key[q])
    <3>1. Alive(q) => key[q] \in Keys
      BY DEF IInv, RunInv, PumpInv, TypeOK, Alive
    <3>2. Alive(q) => row[q].retries > 0
      BY <1>1, <2>1 DEF RetryLife
    <3>3. row[r].retries > 0
      BY <1>1 DEF RetryLife
    <3>. QED  BY <1>1, <1>3, <1>4, <3>1, <3>2, <3>3 DEF TypeOK, TwoTried
  <2>4. KeyLife(q)'
    BY <1>2, <2>1, <2>2, <2>3 DEF KeyLife, At, Alive
  <2>. QED  BY <2>1, <2>4, UntouchedLife
<1>. QED  BY <1>5, <1>6, <1>7, <1>8 DEF Life

-----------------------------------------------------------------------------
(* Everything else *)

(* No pump begins, nothing is claimed and no row counts.                   *)
Still ==
    /\ \A q \in Runs : /\ row'[q].retries = row[q].retries
                       /\ row'[q].interrupted = row[q].interrupted
                       /\ row'[q].status = row[q].status
    /\ pump' = pump \/ \E r \in Runs : pump' = [pump EXCEPT ![r] = NoPump]
    /\ phase' = phase \/ \A q \in Runs : ~At(q, "abandoning")'
    /\ phase' = "resuming" => phase = "resuming" \/ \A q \in Runs : ~Alive(q)'
    /\ UNCHANGED <<key, index, active, pending, attempts>>

LEMMA StillQuiet ==
    ASSUME TypeOK, Life, Still
    PROVE  /\ QuietKeys
           /\ \A q \in Runs : /\ QuietRun(q)
                              /\ journal'[q] = journal[q] => QuietJournal(q)
<1>1. \A q \in Runs : row[q].retries \in Nat /\ JournalLife(q)
  BY DEF TypeOK, Row, Life
<1>2. \A q \in Runs : pump'[q] = pump[q] \/ At(q, "none")'
  BY NoPumpType DEF Still, TypeOK, At
<1>3. QuietKeys
  BY <1>1, <1>2 DEF QuietKeys, Still, At, Alive
<1>4. ASSUME NEW q \in Runs PROVE QuietRun(q)
  BY <1>2 DEF QuietRun, Still, At, Alive
<1>5. ASSUME NEW q \in Runs, journal'[q] = journal[q] PROVE QuietJournal(q)
  BY <1>1, <1>2, <1>5 DEF QuietJournal, JournalLife, Still, At
<1>. QED  BY <1>3, <1>4, <1>5

LEMMA StillLife ==
    ASSUME TypeOK, TypeOK', Life, Still, journal' = journal
    PROVE  Life'
<1>1. /\ QuietKeys
      /\ \A q \in Runs : /\ QuietRun(q)
                         /\ journal'[q] = journal[q] => QuietJournal(q)
  BY StillQuiet
<1>2. Quiet
  BY <1>1 DEF Quiet
<1>. QED  BY <1>2, QuietLife

LEMMA ProcessLife ==
    ASSUME IInv, TypeOK', Life, Stop \/ Die \/ Swept \/ Serve
    PROVE  Life'
<1>1. TypeOK /\ PhaseInv /\ \A q \in Runs : KeyLife(q)
  BY DEF IInv, Life
<1>2. CASE Stop \/ Swept \/ Serve
  <2>1. UNCHANGED <<row, key, index, journal, pump, active, pending, attempts>>
    BY <1>2 DEF Stop, Swept, Serve, disk, history
  <2>2. \A q \in Runs : ~At(q, "abandoning")'
    BY <1>1, <1>2, <2>1 DEF Stop, Swept, Serve, KeyLife, PhaseInv, At
  <2>3. phase' = "resuming" => phase = "resuming" \/ \A q \in Runs : ~Alive(q)'
    BY <1>1, <1>2, <2>1 DEF Stop, Swept, Serve, PhaseInv, At, Alive
  <2>. QED  BY <1>1, <2>1, <2>2, <2>3, StillLife DEF Still
<1>3. CASE Die
  <2>1. /\ \A q \in Runs : At(q, "none")'
        /\ UNCHANGED <<row, journal, attempts>> /\ phase' = "down" /\ pending' = {}
    BY <1>3, NoPumpType DEF Die, disk, At
  <2>2. \A q \in Runs : QuietRun(q) /\ QuietJournal(q)
    BY <2>1 DEF QuietRun, QuietJournal, At, Alive
  <2>3. \A q \in Runs : KeyLife(q)'
    BY <2>1 DEF KeyLife, At, Alive
  <2>. QED  BY <2>2, <2>3, QuietRetry, QuietEntry DEF Life
<1>. QED  BY <1>2, <1>3

(* A retry that was answered rewrites the one entry there is, or makes it. *)
LEMMA RetryLives ==
    ASSUME IInv, TypeOK', Life, NEW r \in Runs,
           AskAgain(r) \/ Answer(r) \/ DropRetry(r) \/ Older(r)
    PROVE  Life'
<1>1. TypeOK /\ row[r] \in Row /\ JournalLife(r)
  BY DEF IInv, TypeOK, Life
<1>2. Still
  <2>1. UNCHANGED <<key, index, phase, pump, active, pending, attempts>>
    BY DEF AskAgain, Answer, DropRetry, Older, disk, memory, history
  <2>2. \/ row' = row
        \/ \E v \in Verdicts, kept \in BOOLEAN :
              row' = [row EXCEPT ![r] = [row[r] EXCEPT !.verdict = v, !.snapshot = kept]]
        \/ row' = [row EXCEPT ![r] = [row[r] EXCEPT !.age = row[r].age + 1]]
    BY <1>1 DEF AskAgain, Answer, DropRetry, Older, SetRow, disk, TypeOK, Verdicts
  <2>3. \A q \in Runs : /\ row'[q].retries = row[q].retries
                        /\ row'[q].interrupted = row[q].interrupted
                        /\ row'[q].status = row[q].status
    <3>1. ASSUME NEW v, NEW kept,
                 row' = [row EXCEPT ![r] = [row[r] EXCEPT !.verdict = v, !.snapshot = kept]]
          PROVE  \A q \in Runs : /\ row'[q].retries = row[q].retries
                                 /\ row'[q].interrupted = row[q].interrupted
                                 /\ row'[q].status = row[q].status
      BY <1>1, <3>1 DEF TypeOK, Row
    <3>2. ASSUME NEW age, row' = [row EXCEPT ![r] = [row[r] EXCEPT !.age = age]]
          PROVE  \A q \in Runs : /\ row'[q].retries = row[q].retries
                                 /\ row'[q].interrupted = row[q].interrupted
                                 /\ row'[q].status = row[q].status
      BY <1>1, <3>2 DEF TypeOK, Row
    <3>. QED  BY <2>2, <3>1, <3>2
  <2>. QED  BY <2>1, <2>3 DEF Still
<1>3. CASE journal' = journal
  BY <1>1, <1>2, <1>3, StillLife
<1>4. CASE Answer(r) /\ journal' = Rewritten(r)
  <2>1. row[r].status = "completed" /\ At(r, "none")
    BY <1>4 DEF Answer, IInv, RunInv, QueueInv
  <2>2. /\ \A q \in Runs \ {r} : journal'[q] = journal[q]
        /\ journal'[r] = IF journal[r] = <<>> THEN <<"real">>
                         ELSE [i \in DOMAIN journal[r] |-> "real"]
    BY <1>1, <1>4 DEF Rewritten, TypeOK
  <2>3. Len(journal'[r]) = 1 /\ journal'[r][1] = "real"
    <3>1. CASE journal[r] = <<>>
      BY <2>2, <3>1
    <3>2. CASE journal[r] # <<>>
      <4>1. Len(journal[r]) = 1 /\ journal[r] \in Seq(Entries)
        BY <1>1, <3>2 DEF JournalLife, TypeOK
      <4>2. DOMAIN journal[r] = 1 .. 1
        BY <4>1
      <4>3. journal'[r] = [i \in 1 .. 1 |-> "real"]
        BY <2>2, <3>2, <4>2
      <4>. QED  BY <4>3
    <3>. QED  BY <3>1, <3>2
  <2>4. JournalLife(r)'
    <3>1. row'[r].status = "completed" /\ At(r, "none")'
      BY <1>2, <1>4, <2>1 DEF Still, Answer, At
    <3>. QED  BY <2>3, <3>1 DEF JournalLife, At
  <2>5. /\ QuietKeys
        /\ \A q \in Runs : /\ QuietRun(q)
                           /\ journal'[q] = journal[q] => QuietJournal(q)
    BY <1>1, <1>2, StillQuiet
  <2>6. \A q \in Runs \ {r} : JournalLife(q)'
    BY <2>2, <2>5, QuietEntry DEF Life
  <2>7. \A q \in Runs : RetryLife(q)' /\ KeyLife(q)'
    BY <1>1, <2>5, QuietRetry, QuietHold DEF Life
  <2>. QED  BY <2>4, <2>6, <2>7 DEF Life
<1>. QED  BY <1>3, <1>4 DEF AskAgain, Answer, DropRetry, Older, disk

-----------------------------------------------------------------------------
LEMMA LifeStep ==
    ASSUME IInv, IInv', Life, [Next]_vars, "write" \notin Faults
    PROVE  Life'
<1>1. TypeOK /\ TypeOK'
  BY DEF IInv
<1>2. CASE UNCHANGED vars
  <2>1. Still /\ journal' = journal
    BY <1>2 DEF Still, vars, disk, memory, history
  <2>. QED  BY <1>1, <2>1, StillLife
<1>3. ASSUME NEW r \in Runs, PumpStep(r) PROVE Life'
  <2>1. CASE Begin(r)
    BY <1>1, <2>1, BeginLife
  <2>2. CASE End(r)
    BY <1>1, <2>2, EndLife
  <2>3. CASE ChargeBacktest(r)
    BY <1>1, <2>3, BacktestLife
  <2>4. CASE ~(Begin(r) \/ End(r) \/ ChargeBacktest(r))
    <3>1. Moves(r)
      BY <1>3, <2>4, PumpMoves DEF PumpStep
    <3>2. attempts' = attempts
      BY <1>3, <2>4 DEF PumpStep, SetUp, Fail, Complete, RefundOutage, FlagOutage,
         RefundFailed, FlagFailed, Raise, Backstop, BackstopRefund, BackstopFlag, history
    <3>3. \A q \in Runs : QuietKeys /\ QuietRun(q) /\ QuietJournal(q)
      BY <1>1, <3>1, <3>2, MovesQuiet DEF Life
    <3>. QED  BY <1>1, <3>3, QuietLife DEF Quiet
  <2>. QED  BY <2>1, <2>2, <2>3, <2>4
<1>4. ASSUME NEW r \in Runs, SweepRefund(r) \/ RefundAbandoned(r) PROVE Life'
  <2>1. Still /\ journal' = journal
    BY <1>4 DEF Still, SweepRefund, RefundAbandoned
  <2>. QED  BY <1>1, <2>1, StillLife
<1>5. ASSUME NEW r \in Runs, ResumeStep(r) PROVE Life'
  BY <1>1, <1>4, <1>5, ResumeLife DEF ResumeStep, Forget
<1>6. ASSUME BootStep PROVE Life'
  BY <1>1, <1>4, <1>6, BootLife, ProcessLife DEF BootStep
<1>7. ASSUME NEW r \in Runs, NEW k \in Keys, StartRun(r, k) \/ IndexBacktest(r, k)
      PROVE  Life'
  BY <1>1, <1>7, StartLife, BacktestLife
<1>8. ASSUME NEW r \in Runs, Cancel(r) \/ AskAgain(r) \/ Answer(r) \/ DropRetry(r) \/ Older(r)
      PROVE  Life'
  BY <1>1, <1>8, EndLife, RetryLives
<1>9. CASE Stop \/ Die
  BY <1>1, <1>9, ProcessLife
<1>. QED  BY <1>2, <1>3, <1>5, <1>6, <1>7, <1>8, <1>9 DEF Next

LEMMA LifeInit == Init => Life
<1> SUFFICES ASSUME Init, NEW r \in Runs PROVE RetryLife(r) /\ JournalLife(r) /\ KeyLife(r)
  BY DEF Life
<1>1. /\ row[r].status = "absent" /\ row[r].retries = 0 /\ ~row[r].interrupted
      /\ At(r, "none") /\ attempts[r] = 0 /\ journal[r] = <<>> /\ r \notin pending
  BY NoPumpType DEF Init, NoRow, At
<1>. QED  BY <1>1 DEF RetryLife, JournalLife, KeyLife, At, Alive, MaxAutoRetries

LEMMA Lives == ASSUME "write" \notin Faults PROVE Spec => [](IInv /\ Life)
<1>1. Init => Life
  BY LifeInit
<1>2. IInv /\ IInv' /\ Life /\ [Next]_vars => Life'
  BY LifeStep
<1>. QED  BY <1>1, <1>2, Invariance, PTL DEF Spec

-----------------------------------------------------------------------------
(* The theorems                                                            *)

(* As long as writes succeed, a Room is tried again once, through any      *)
(* number of crashes, and a row marked interrupted is executed by nobody.  *)
THEOREM TriedAgainOnce == ASSUME "write" \notin Faults PROVE Spec => []RetriedOnce
<1>1. IInv /\ Life => RetriedOnce
  <2> SUFFICES ASSUME IInv, Life, NEW r \in Runs
               PROVE  /\ row[r].interrupted /\ row[r].status = "running" => ~Alive(r)
                      /\ attempts[r] <= 1 + MaxAutoRetries
    BY DEF RetriedOnce
  <2>1. RetryLife(r) /\ row[r].retries \in Nat /\ attempts[r] \in Nat
    BY DEF Life, IInv, TypeOK, Row
  <2>. QED  BY <2>1 DEF RetryLife, MaxAutoRetries
<1>. QED  BY <1>1, Lives, PTL

(* A Room is reported to the journal once, of how it ended, although two   *)
(* closures may write the entry.                                           *)
THEOREM ReportedOnce == ASSUME "write" \notin Faults PROVE Spec => []JournalledOnce
<1>1. IInv /\ Life => JournalledOnce
  BY DEF Life, JournalLife, JournalledOnce
<1>. QED  BY <1>1, Lives, PTL

(* Nobody is charged for a second Room on a key while one is under way.    *)
THEOREM NoSecondRoom == ASSUME "write" \notin Faults PROVE Spec => OneRoomPerKey
<1> DEFINE Second(r) == \/ TwoTried(key'[r])
                        \/ ~\E q \in Runs : key[q] = key'[r] /\ Alive(q) /\ pump[q].journals
<1>1. ASSUME IInv, Life, Next, NEW r \in Runs, paid'[r] # paid[r], r \notin index
      PROVE  Second(r)
  <2>1. PICK s \in Runs, k \in Keys : StartRun(s, k)
    <3>1. ASSUME NEW s \in Runs, ChargeBacktest(s) PROVE FALSE
      <4>1. s \in index
        BY <1>1, <3>1 DEF ChargeBacktest, Life, KeyLife
      <4>2. r # s => paid'[r] = paid[r]
        BY <1>1, <3>1 DEF ChargeBacktest, IInv, TypeOK
      <4>. QED  BY <1>1, <4>1, <4>2
    <3>2. \A s \in Runs : PumpStep(s) /\ ~ChargeBacktest(s) => paid' = paid
      BY DEF PumpStep, Begin, SetUp, Fail, Complete, RefundOutage, FlagOutage, RefundFailed,
         FlagFailed, Raise, Backstop, BackstopRefund, BackstopFlag, End, disk
    <3>3. \A s \in Runs : Cancel(s) \/ ResumeStep(s) \/ AskAgain(s) \/ Answer(s)
                          \/ DropRetry(s) \/ Older(s) => paid' = paid
      BY DEF Cancel, ResumeStep, Respawn, Abandon, RefundAbandoned, Forget, AskAgain,
         Answer, DropRetry, Older, disk
    <3>4. BootStep \/ Stop \/ Die => paid' = paid
      BY DEF BootStep, Boot, Swept, Serve, SweepRefund, Stop, Die, disk
    <3>5. \A s \in Runs, k \in Keys : IndexBacktest(s, k) => paid' = paid
      BY DEF IndexBacktest
    <3>. QED  BY <1>1, <3>1, <3>2, <3>3, <3>4, <3>5 DEF Next
  <2>2. /\ active[k] = None /\ key'[r] = k /\ phase = "serving"
    BY <1>1, <2>1 DEF StartRun, Attached, IInv, TypeOK
  <2>3. ASSUME NEW q \in Runs, key[q] = k, Alive(q), pump[q].journals PROVE TwoTried(k)
    BY <1>1, <2>2, <2>3, RoomAssumption DEF Life, KeyLife, At
  <2>. QED  BY <2>2, <2>3
<1>2. IInv /\ Life /\ [Next]_vars =>
         [\A r \in Runs : (paid'[r] # paid[r] /\ r \notin index) => Second(r)]_vars
  BY <1>1
<1>3. [][\A r \in Runs : (paid'[r] # paid[r] /\ r \notin index) => Second(r)]_vars
         <=> OneRoomPerKey
  BY PTL DEF OneRoomPerKey
<1>. QED  BY <1>2, <1>3, Lives, PTL DEF Spec
=============================================================================
