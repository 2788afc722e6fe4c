----------------------------- MODULE TurnsProofs -----------------------------
(***************************************************************************)
(* Proofs about Turns, for any number of turns and users, any cap and any  *)
(* rate: the slot counter is the number of turns that hold a slot, the     *)
(* turns implement the abstract charge of RoomCharge, and no key is        *)
(* admitted above its rate.                                                *)
(*                                                                         *)
(* The slots and the money do not depend on what the limiters let through, *)
(* so the three invariants are proved one by one.                          *)
(***************************************************************************)
EXTENDS Turns, FiniteSetTheorems, WellFoundedInduction, TLAPS

SlotType ==
    /\ counts \in [Users -> Nat]
    /\ turn \in [TurnIds -> Turn]
    /\ \A t \in TurnIds : turn[t].pc \in Holding => turn[t].user \in Users

HeldBy(u) == {t \in TurnIds : turn[t].user = u /\ turn[t].pc \in Holding}

(* Where a turn is tells what has been taken for it and given back.        *)
Charged(t) ==
    /\ paid[t] \in {0, Price} /\ given[t] \in {0, paid[t]}
    /\ turn[t].pc \in {"free", "spending"} => paid[t] = 0
    /\ turn[t].pc \in {"ready", "streaming", "failing", "dropped", "refunding", "kept"}
           => paid[t] = Price /\ given[t] = 0

MoneyType ==
    /\ paid \in [TurnIds -> {0, Price}] /\ given \in [TurnIds -> {0, Price}]
    /\ turn \in [TurnIds -> Turn]
    /\ \A t \in TurnIds : Charged(t)

LEMMA PcValues ==
    /\ Open = {"spending", "ready", "streaming", "failing"}
    /\ Holding = {"spending", "ready", "streaming", "failing", "dropped"}
  BY DEF Open, Holding

LEMMA FiniteTurns == IsFiniteSet(TurnIds)
  BY FS_Interval, TurnsAssumption DEF TurnIds

LEMMA FiniteHeld == ASSUME NEW u PROVE IsFiniteSet(HeldBy(u))
  BY FiniteTurns, FS_Subset DEF HeldBy

-----------------------------------------------------------------------------
(* How one turn's step moves the slots.                                    *)

(* A turn that takes a slot.                                               *)
LEMMA TakeSlot ==
    ASSUME SlotType, SlotsAreHeld, NEW t \in TurnIds, NEW u \in Users,
           turn[t].pc \notin Holding, NEW r \in Turn, r.user = u, r.pc \in Holding,
           turn' = [turn EXCEPT ![t] = r],
           counts' = [counts EXCEPT ![u] = @ + 1]
    PROVE  SlotType' /\ SlotsAreHeld'
<1>1. SlotType'
  BY DEF SlotType
<1>2. ASSUME NEW v \in Users PROVE counts'[v] = Cardinality(HeldBy(v)')
  <2>1. CASE v = u
    <3>1. HeldBy(v)' = HeldBy(v) \cup {t} /\ t \notin HeldBy(v)
      BY <2>1 DEF HeldBy, SlotType
    <3>2. Cardinality(HeldBy(v)') = Cardinality(HeldBy(v)) + 1
      BY <3>1, FiniteHeld, FS_AddElement
    <3>. QED  BY <2>1, <3>2 DEF SlotsAreHeld, HeldBy, SlotType
  <2>2. CASE v # u
    <3>1. HeldBy(v)' = HeldBy(v)
      BY <2>2 DEF HeldBy, SlotType
    <3>. QED  BY <2>2, <3>1 DEF SlotsAreHeld, HeldBy, SlotType
  <2>. QED  BY <2>1, <2>2
<1>3. SlotsAreHeld'
  BY <1>2 DEF SlotsAreHeld, HeldBy
<1>. QED  BY <1>1, <1>3

(* A turn that releases its slot: the counter is not 0, so it goes down.   *)
LEMMA GiveSlot ==
    ASSUME SlotType, SlotsAreHeld, NEW t \in TurnIds, turn[t].pc \in Holding,
           NEW r \in Turn, r.pc \notin Holding,
           turn' = [turn EXCEPT ![t] = r], Release(turn[t].user)
    PROVE  SlotType' /\ SlotsAreHeld'
<1> DEFINE u == turn[t].user
<1>1. u \in Users /\ counts' = [counts EXCEPT ![u] = IF @ = 0 THEN 0 ELSE @ - 1]
  BY DEF SlotType, Release
<1> HIDE DEF u
<1>2. t \in HeldBy(u)
  BY DEF HeldBy, u
<1>3. IsFiniteSet(HeldBy(u)) /\ Cardinality(HeldBy(u)) \in Nat
  BY FiniteHeld, FS_CardinalityType
<1>4. counts[u] = Cardinality(HeldBy(u)) /\ counts[u] # 0
  <2>1. counts[u] = Cardinality(HeldBy(u))
    BY <1>1 DEF SlotsAreHeld, HeldBy
  <2>2. Cardinality(HeldBy(u)) # 0
    BY <1>2, <1>3, FS_EmptySet
  <2>. QED  BY <2>1, <2>2
<1>5. SlotType'
  BY <1>1, <1>3, <1>4 DEF SlotType
<1>6. ASSUME NEW v \in Users PROVE counts'[v] = Cardinality(HeldBy(v)')
  <2>1. CASE v = u
    <3>1. HeldBy(v)' = HeldBy(v) \ {t}
      BY <2>1 DEF HeldBy, SlotType
    <3>2. Cardinality(HeldBy(v)') = Cardinality(HeldBy(v)) - 1
      BY <1>2, <1>3, <2>1, <3>1, FS_RemoveElement
    <3>. QED  BY <1>1, <1>4, <2>1, <3>2 DEF SlotType
  <2>2. CASE v # u
    <3>1. HeldBy(v)' = HeldBy(v)
      BY <2>2 DEF HeldBy, SlotType, u
    <3>. QED  BY <1>1, <2>2, <3>1 DEF SlotsAreHeld, HeldBy, SlotType
  <2>. QED  BY <2>1, <2>2
<1>7. SlotsAreHeld'
  BY <1>6 DEF SlotsAreHeld, HeldBy
<1>. QED  BY <1>5, <1>7

(* A turn that goes on as it was, with or without a slot.                  *)
LEMMA SameSlot ==
    ASSUME SlotType, SlotsAreHeld, NEW t \in TurnIds, NEW r \in Turn,
           r.user = turn[t].user \/ r.pc \notin Holding,
           (r.pc \in Holding) <=> (turn[t].pc \in Holding),
           turn' = [turn EXCEPT ![t] = r], UNCHANGED counts
    PROVE  SlotType' /\ SlotsAreHeld'
<1>1. SlotType'
  BY DEF SlotType
<1>2. ASSUME NEW v \in Users PROVE HeldBy(v)' = HeldBy(v)
  BY DEF HeldBy, SlotType
<1>3. SlotsAreHeld'
  BY <1>2 DEF SlotsAreHeld, HeldBy
<1>. QED  BY <1>1, <1>3

LEMMA MovedTurn ==
    ASSUME turn \in [TurnIds -> Turn], NEW t \in TurnIds, NEW pc, Goto(t, pc),
           pc \in {"free", "refunding", "kept", "over"} \cup Holding
    PROVE  \E r \in Turn : /\ turn' = [turn EXCEPT ![t] = r]
                           /\ r.pc = pc /\ r.user = turn[t].user
<1> DEFINE r == [turn[t] EXCEPT !.pc = pc]
<1>1. r \in Turn /\ r.pc = pc /\ r.user = turn[t].user
  BY DEF Turn
<1>2. turn' = [turn EXCEPT ![t] = r]
  BY DEF Goto
<1>. QED  BY <1>1, <1>2

LEMMA OverTurn ==
    ASSUME NEW how \in {"over", "kept"}
    PROVE  Over(how) \in Turn /\ Over(how).pc = how /\ how \notin Holding
  BY PcValues DEF Over, NoTurn, Turn

-----------------------------------------------------------------------------
(* The slots, action by action.                                            *)

SlotInv == SlotType /\ SlotsAreHeld

LEMMA InitSlots == Init => SlotInv
<1> SUFFICES ASSUME Init PROVE SlotInv
  OBVIOUS
<1>1. SlotType
  BY PcValues DEF Init, SlotType, NoTurn, Turn
<1>2. ASSUME NEW u \in Users PROVE HeldBy(u) = {}
  BY PcValues DEF Init, HeldBy, NoTurn
<1>3. SlotsAreHeld
  BY <1>2, FS_EmptySet DEF Init, SlotsAreHeld, HeldBy
<1>. QED  BY <1>1, <1>3 DEF SlotInv

LEMMA AcceptSlots ==
    ASSUME SlotInv, NEW t \in TurnIds, NEW s \in Surfaces, NEW u \in Users,
           Accept(t, s, u)
    PROVE  SlotInv'
<1>1. turn[t].pc \notin Holding
  BY PcValues DEF Accept, NoTurn
<1>2. counts' = [counts EXCEPT ![u] = @ + 1]
  BY DEF Accept, Acquire
<1>3. PICK r \in Turn : /\ turn' = [turn EXCEPT ![t] = r]
                        /\ r.user = u /\ r.pc \in Holding
  <2>1. CASE s = "one_on_one"
    <3> DEFINE r == [pc |-> "ready", user |-> u, surface |-> s]
    <3>1. r \in Turn /\ r.user = u /\ r.pc \in Holding
      BY PcValues DEF Turn
    <3>2. turn' = [turn EXCEPT ![t] = r]
      BY <2>1 DEF Accept
    <3>. QED  BY <3>1, <3>2
  <2>2. CASE s # "one_on_one"
    <3> DEFINE r == [pc |-> "spending", user |-> u, surface |-> s]
    <3>1. r \in Turn /\ r.user = u /\ r.pc \in Holding
      BY PcValues DEF Turn
    <3>2. turn' = [turn EXCEPT ![t] = r]
      BY <2>2 DEF Accept
    <3>. QED  BY <3>1, <3>2
  <2>. QED  BY <2>1, <2>2
<1>. QED  BY <1>1, <1>2, <1>3, TakeSlot DEF SlotInv

(* Between two awaits a turn may move on without touching the counter.     *)
LEMMA MoveSlots ==
    ASSUME SlotInv, NEW t \in TurnIds,
           Spent(t) \/ Start(t) \/ Drop(t) \/ Fail(t)
    PROVE  SlotInv'
<1>1. PICK pc \in Holding : Goto(t, pc) /\ turn[t].pc \in Holding
  BY PcValues DEF Spent, Start, Drop, Fail
<1>2. PICK r \in Turn : /\ turn' = [turn EXCEPT ![t] = r]
                        /\ r.pc = pc /\ r.user = turn[t].user
  BY <1>1, MovedTurn DEF SlotInv, SlotType
<1>3. UNCHANGED counts
  BY DEF Spent, Start, Drop, Fail
<1>. QED  BY <1>1, <1>2, <1>3, SameSlot DEF SlotInv

LEMMA EndSlots ==
    ASSUME SlotInv, NEW t \in TurnIds,
           Unpaid(t) \/ Close(t) \/ CloseFailed(t)
    PROVE  SlotInv'
<1>1. turn[t].pc \in Holding /\ Release(turn[t].user)
  BY PcValues DEF Unpaid, Close, CloseFailed
<1>2. PICK r \in Turn : turn' = [turn EXCEPT ![t] = r] /\ r.pc \notin Holding
  <2>1. CASE End(t, "over") \/ End(t, "kept")
    BY <2>1, OverTurn DEF End
  <2>2. CASE Goto(t, "refunding")
    <3>1. "refunding" \notin Holding
      BY PcValues
    <3>. QED  BY <2>2, <3>1, MovedTurn DEF SlotInv, SlotType
  <2>. QED  BY <2>1, <2>2 DEF Unpaid, Close, CloseFailed
<1>. QED  BY <1>1, <1>2, GiveSlot DEF SlotInv

LEMMA RefundedSlots ==
    ASSUME SlotInv, NEW t \in TurnIds, CloseRefunded(t)
    PROVE  SlotInv'
<1>1. turn[t].pc \notin Holding /\ UNCHANGED counts
  BY PcValues DEF CloseRefunded
<1>2. Over("over") \in Turn /\ Over("over").pc \notin Holding
  BY OverTurn
<1>3. turn' = [turn EXCEPT ![t] = Over("over")]
  BY DEF CloseRefunded, End
<1>. QED  BY <1>1, <1>2, <1>3, SameSlot DEF SlotInv

LEMMA RestartSlots == ASSUME SlotInv, Restart PROVE SlotInv'
<1>1. Over("over") \in Turn /\ Over("over").pc \notin Holding
  BY OverTurn
<1>2. \A t \in TurnIds : turn'[t] \in Turn /\ turn'[t].pc \notin Holding
  BY <1>1 DEF Restart, SlotInv, SlotType
<1>3. SlotType'
  BY <1>2 DEF Restart, SlotType
<1>4. ASSUME NEW u \in Users PROVE HeldBy(u)' = {}
  BY <1>2 DEF HeldBy
<1>5. SlotsAreHeld'
  BY <1>4, FS_EmptySet DEF Restart, SlotsAreHeld, HeldBy
<1>. QED  BY <1>3, <1>5 DEF SlotInv

LEMMA QuietSlots == ASSUME SlotInv, UNCHANGED <<counts, turn>> PROVE SlotInv'
  BY DEF SlotInv, SlotType, SlotsAreHeld

LEMMA NextSlots == SlotInv /\ [Next]_vars => SlotInv'
<1> SUFFICES ASSUME SlotInv, [Next]_vars PROVE SlotInv'
  OBVIOUS
<1>1. CASE \E s \in Surfaces, k \in Keys : Knock(s, k) \/ TurnAway(s, k)
  BY <1>1, QuietSlots DEF Knock, TurnAway
<1>2. CASE \E s \in Surfaces, u \in Users, t \in TurnIds : Accept(t, s, u)
  BY <1>2, AcceptSlots
<1>3. CASE \E t \in TurnIds : Progress(t)
  BY <1>3, MoveSlots, EndSlots, RefundedSlots DEF Progress
<1>4. CASE Restart
  BY <1>4, RestartSlots
<1>5. CASE Tick
  BY <1>5, QuietSlots DEF Tick
<1>6. CASE UNCHANGED vars
  BY <1>6, QuietSlots DEF vars
<1>. QED  BY <1>1, <1>2, <1>3, <1>4, <1>5, <1>6 DEF Next

(* acquire and release are paired on every path of both handlers: the      *)
(* counter is the number of turns that hold a slot, so no release takes a  *)
(* slot from another turn and only dropped turns can keep one.             *)
THEOREM SlotsAreHeldHolds == Spec => []SlotsAreHeld
<1>1. SlotInv => SlotsAreHeld
  BY DEF SlotInv
<1>. QED  BY <1>1, InitSlots, NextSlots, PTL DEF Spec

-----------------------------------------------------------------------------
(* The money.                                                              *)

LEMMA InitMoney == Init => MoneyType
  BY PcValues DEF Init, MoneyType, Charged, NoTurn, Turn

(* A step of one turn is a step of its charge, or moves no money.          *)
LEMMA OneCharge ==
    ASSUME MoneyType, NEW t \in TurnIds, NEW r \in Turn, NEW p, NEW g,
           turn' = [turn EXCEPT ![t] = r],
           paid' = [paid EXCEPT ![t] = p], given' = [given EXCEPT ![t] = g],
           p \in {0, Price}, g \in {0, p},
           r.pc \in {"free", "spending"} => p = 0,
           r.pc \in {"ready", "streaming", "failing", "dropped", "refunding", "kept"}
               => p = Price /\ g = 0
    PROVE  MoneyType'
<1>1. ASSUME NEW i \in TurnIds PROVE Charged(i)'
  BY TurnsAssumption DEF MoneyType, Charged
<1>2. g \in {0, Price}
  OBVIOUS
<1>. QED  BY <1>1, <1>2 DEF MoneyType

Kept == {t \in TurnIds : turn[t].pc = "kept"}

ChargeNext == Charge!Next \/ UNCHANGED <<paid, given, Kept>>

LEMMA TakenIsCharge ==
    ASSUME MoneyType, NEW t \in TurnIds, turn[t].pc \in {"free", "spending"},
           NEW r \in Turn, turn' = [turn EXCEPT ![t] = r],
           r.pc = "ready", paid' = [paid EXCEPT ![t] = Price], UNCHANGED given
    PROVE  MoneyType' /\ ChargeNext
<1>1. paid[t] = 0 /\ given[t] = 0
  BY DEF MoneyType, Charged
<1>2. given' = [given EXCEPT ![t] = 0]
  BY <1>1 DEF MoneyType
<1>3. MoneyType'
  BY <1>2, OneCharge
<1>4. Kept' = Kept
  BY DEF Kept, MoneyType
<1>5. Charge!Charge(t)
  BY <1>1, <1>4 DEF Charge!Charge, Kept
<1>. QED  BY <1>3, <1>5 DEF ChargeNext, Charge!Next

LEMMA GivenIsCharge ==
    ASSUME MoneyType, NEW t \in TurnIds, turn[t].pc \in {"failing", "refunding"},
           NEW r \in Turn, turn' = [turn EXCEPT ![t] = r],
           r.pc = "over", UNCHANGED paid, GiveBack(t) \/ UNCHANGED given
    PROVE  MoneyType' /\ ChargeNext
<1>1. paid[t] = Price /\ given[t] = 0
  BY DEF MoneyType, Charged
<1>2. paid' = [paid EXCEPT ![t] = Price]
  BY <1>1 DEF MoneyType
<1>3. Kept' = Kept
  BY DEF Kept, MoneyType
<1>4. CASE GiveBack(t)
  <2>1. given' = [given EXCEPT ![t] = Price]
    BY <1>4 DEF GiveBack
  <2>2. MoneyType'
    BY <1>2, <2>1, OneCharge
  <2>3. Charge!GiveBack(t)
    BY <1>1, <1>3, <2>1, TurnsAssumption
       DEF Charge!GiveBack, Charge!Held, Kept
  <2>. QED  BY <2>2, <2>3 DEF ChargeNext, Charge!Next
<1>5. CASE UNCHANGED given
  <2>1. given' = [given EXCEPT ![t] = 0]
    BY <1>1, <1>5 DEF MoneyType
  <2>2. MoneyType'
    BY <1>2, <2>1, OneCharge
  <2>. QED  BY <1>3, <1>5, <2>2 DEF ChargeNext
<1>. QED  BY <1>4, <1>5

LEMMA KeptIsCharge ==
    ASSUME MoneyType, NEW t \in TurnIds, Close(t)
    PROVE  MoneyType' /\ ChargeNext
<1>1. paid[t] = Price /\ given[t] = 0 /\ turn[t].pc = "streaming"
  BY DEF MoneyType, Charged, Close
<1>2. /\ turn' = [turn EXCEPT ![t] = Over("kept")]
      /\ Over("kept") \in Turn /\ Over("kept").pc = "kept"
      /\ UNCHANGED <<paid, given>>
  BY OverTurn DEF Close, End, money
<1>3. /\ paid' = [paid EXCEPT ![t] = Price]
      /\ given' = [given EXCEPT ![t] = 0]
  BY <1>1, <1>2 DEF MoneyType
<1>4. MoneyType'
  BY <1>2, <1>3, OneCharge
<1>5. Kept' = Kept \cup {t} /\ t \notin Kept
  BY <1>1, <1>2 DEF Kept, MoneyType
<1>6. Charge!Earn(t)
  BY <1>1, <1>2, <1>5, TurnsAssumption DEF Charge!Earn, Charge!Held, Kept
<1>. QED  BY <1>4, <1>6 DEF ChargeNext, Charge!Next

(* A step that moves no money and ends no turn well.                       *)
LEMMA QuietMoney ==
    ASSUME MoneyType, NEW t \in TurnIds, NEW r \in Turn,
           turn' = [turn EXCEPT ![t] = r], UNCHANGED <<paid, given>>,
           r.pc # "kept", turn[t].pc # "kept",
           r.pc \in {"free", "spending"} => turn[t].pc \in {"free", "spending"},
           r.pc \in {"ready", "streaming", "failing", "dropped", "refunding"}
               => turn[t].pc \in {"ready", "streaming", "failing", "refunding"}
    PROVE  MoneyType' /\ ChargeNext
<1>1. Charged(t)
  BY DEF MoneyType
<1>2. /\ paid' = [paid EXCEPT ![t] = paid[t]]
      /\ given' = [given EXCEPT ![t] = given[t]]
  BY DEF MoneyType
<1>3. MoneyType'
  BY <1>1, <1>2, OneCharge DEF Charged
<1>4. Kept' = Kept
  BY DEF Kept, MoneyType
<1>. QED  BY <1>3, <1>4 DEF ChargeNext

LEMMA SameMoney ==
    ASSUME MoneyType, UNCHANGED <<turn, paid, given>>
    PROVE  MoneyType' /\ ChargeNext
<1>1. MoneyType' /\ Kept' = Kept
  BY DEF MoneyType, Charged, Kept
<1>. QED  BY <1>1 DEF ChargeNext

LEMMA AcceptMoney ==
    ASSUME MoneyType, NEW t \in TurnIds, NEW s \in Surfaces, NEW u \in Users,
           Accept(t, s, u)
    PROVE  MoneyType' /\ ChargeNext
<1>1. turn[t].pc = "free" /\ UNCHANGED given
  BY DEF Accept, NoTurn
<1>2. CASE s = "one_on_one"
  <2> DEFINE r == [pc |-> "ready", user |-> u, surface |-> s]
  <2>1. /\ r \in Turn /\ r.pc = "ready"
        /\ turn' = [turn EXCEPT ![t] = r]
        /\ paid' = [paid EXCEPT ![t] = Price]
    BY <1>2, PcValues DEF Accept, Turn
  <2> HIDE DEF r
  <2>. QED  BY <1>1, <2>1, TakenIsCharge
<1>3. CASE s # "one_on_one"
  <2> DEFINE r == [pc |-> "spending", user |-> u, surface |-> s]
  <2>1. /\ r \in Turn /\ r.pc = "spending"
        /\ turn' = [turn EXCEPT ![t] = r]
        /\ UNCHANGED paid
    BY <1>3, PcValues DEF Accept, Turn
  <2> HIDE DEF r
  <2>. QED  BY <1>1, <2>1, QuietMoney
<1>. QED  BY <1>2, <1>3

LEMMA ProgressMoney ==
    ASSUME MoneyType, NEW t \in TurnIds, Progress(t)
    PROVE  MoneyType' /\ ChargeNext
<1> USE DEF MoneyType, money
<1>1. CASE Spent(t)
  <2>1. PICK r \in Turn : turn' = [turn EXCEPT ![t] = r] /\ r.pc = "ready"
    BY <1>1, MovedTurn, PcValues DEF Spent
  <2>. QED  BY <1>1, <2>1, TakenIsCharge DEF Spent
<1>2. CASE Unpaid(t)
  BY <1>2, OverTurn, QuietMoney DEF Unpaid, End
<1>3. CASE Start(t) \/ Drop(t) \/ Fail(t)
  <2>1. PICK pc \in {"streaming", "dropped", "failing"} : Goto(t, pc)
    BY <1>3 DEF Start, Drop, Fail
  <2>2. PICK r \in Turn : turn' = [turn EXCEPT ![t] = r] /\ r.pc = pc
    BY <2>1, MovedTurn, PcValues
  <2>3. turn[t].pc \in {"ready", "streaming"} /\ UNCHANGED <<paid, given>>
    BY <1>3 DEF Start, Drop, Fail
  <2>. QED  BY <2>1, <2>2, <2>3, QuietMoney
<1>4. CASE Close(t)
  BY <1>4, KeptIsCharge
<1>5. CASE CloseFailed(t)
  <2>1. CASE turn[t].surface = "one_on_one"
    BY <1>5, <2>1, OverTurn, GivenIsCharge DEF CloseFailed, End
  <2>2. CASE turn[t].surface # "one_on_one"
    <3>1. Goto(t, "refunding") /\ UNCHANGED <<paid, given>> /\ turn[t].pc = "failing"
      BY <1>5, <2>2 DEF CloseFailed
    <3>2. PICK r \in Turn : turn' = [turn EXCEPT ![t] = r] /\ r.pc = "refunding"
      BY <3>1, MovedTurn
    <3>. QED  BY <3>1, <3>2, QuietMoney
  <2>. QED  BY <2>1, <2>2
<1>6. CASE CloseRefunded(t)
  BY <1>6, OverTurn, GivenIsCharge DEF CloseRefunded, End
<1>. QED  BY <1>1, <1>2, <1>3, <1>4, <1>5, <1>6 DEF Progress

LEMMA RestartMoney == ASSUME MoneyType, Restart PROVE MoneyType' /\ ChargeNext
<1>1. Over("over") \in Turn /\ Over("over").pc = "over"
  BY OverTurn
<1>2. UNCHANGED <<paid, given>>
  BY DEF Restart, money
<1>3. \A t \in TurnIds : turn'[t] = Over("over") \/ turn'[t] = turn[t]
  BY DEF Restart
<1>4. turn' \in [TurnIds -> Turn]
  BY <1>1 DEF Restart, MoneyType
<1>5. ASSUME NEW t \in TurnIds PROVE Charged(t)'
  BY <1>1, <1>2, <1>3 DEF MoneyType, Charged
<1>6. Kept' = Kept
  BY <1>1, PcValues DEF Kept, Restart
<1>. QED  BY <1>2, <1>4, <1>5, <1>6 DEF MoneyType, ChargeNext

LEMMA NextMoney == MoneyType /\ [Next]_vars => MoneyType' /\ ChargeNext
<1> SUFFICES ASSUME MoneyType, [Next]_vars PROVE MoneyType' /\ ChargeNext
  OBVIOUS
<1>1. CASE \E s \in Surfaces, k \in Keys : Knock(s, k) \/ TurnAway(s, k)
  BY <1>1, SameMoney DEF Knock, TurnAway, money
<1>2. CASE \E s \in Surfaces, u \in Users, t \in TurnIds : Accept(t, s, u)
  BY <1>2, AcceptMoney
<1>3. CASE \E t \in TurnIds : Progress(t)
  BY <1>3, ProgressMoney
<1>4. CASE Restart
  BY <1>4, RestartMoney
<1>5. CASE Tick \/ UNCHANGED vars
  BY <1>5, SameMoney DEF Tick, vars, money
<1>. QED  BY <1>1, <1>2, <1>3, <1>4, <1>5 DEF Next

(* Both handlers implement the abstract charge: a turn is charged once and *)
(* its charge is kept, or given back once and whole, on every path of      *)
(* their refusals, failures, hang-ups and restarts.                        *)
THEOREM TurnsImplementCharge == Spec => ChargeSpec
<1>1. Init => Charge!Init
  BY PcValues DEF Init, Charge!Init, NoTurn
<1>2. MoneyType /\ [Next]_vars => [Charge!Next]_(Charge!vars)
  BY NextMoney DEF ChargeNext, Charge!vars, Kept
<1>. QED
  BY <1>1, <1>2, InitMoney, NextMoney, PTL DEF Spec, ChargeSpec, Charge!Spec
-----------------------------------------------------------------------------
(* What a limiter remembers of one key.                                    *)

Descends(w) == \A i \in 1 .. Len(w) : \A j \in i .. Len(w) : w[i] >= w[j]

\* A set of numbers with a member has a least one.
LEMMA Least ==
    ASSUME NEW S \in SUBSET Nat, S # {}
    PROVE  \E n \in S : \A m \in S : n <= m
<1>1. PICK n \in S : \A m \in S : <<m, n>> \notin OpToRel(<, Nat)
  BY NatLessThanWellFounded, WFMin
<1>2. ASSUME NEW m \in S PROVE n <= m
  <2>1. m \in Nat /\ n \in Nat /\ <<m, n>> \notin OpToRel(<, Nat)
    BY <1>1
  <2>2. ~(m < n)
    BY <2>1 DEF OpToRel
  <2>3. m \in Nat /\ n \in Nat
    BY <1>1
  <2>. QED  BY <2>2, <2>3
<1>. QED  BY <1>1, <1>2

EntriesIn(s, T) == \A i \in 1 .. Len(s) : s[i] \in T

LEMMA SeqWithin ==
    ASSUME NEW S, NEW T, NEW s \in Seq(S), EntriesIn(s, T)
    PROVE  s \in Seq(T)
<1>1. PICK v : v = [i \in 1 .. Len(s) |-> s[i]]
  OBVIOUS
<1>2. v \in Seq(T) /\ v \in Seq(S) /\ Len(v) = Len(s) /\ \A i \in 1 .. Len(s) : v[i] = s[i]
  BY <1>1 DEF EntriesIn
<1>3. s = v
  BY <1>2
<1>. QED  BY <1>2, <1>3

(* n entries are popped.                                                   *)
Pops(w, limit, n) ==
    /\ n \in 0 .. Len(w)
    /\ \A i \in 1 .. n : w[i] > limit
    /\ n < Len(w) => w[n + 1] <= limit

LEMMA PoppedIs ==
    ASSUME NEW w \in Seq(Nat), NEW limit \in Nat
    PROVE  Pops(w, limit, Popped(w, limit))
<1> DEFINE S == {n \in 0 .. Len(w) : n < Len(w) => w[n + 1] <= limit}
<1>1. Len(w) \in Nat /\ Len(w) \in S /\ S \in SUBSET Nat
  OBVIOUS
<1>2. PICK n \in S : \A m \in S : n <= m
  <2>1. S # {}
    BY <1>1
  <2> HIDE DEF S
  <2>. QED  BY <1>1, <2>1, Least
<1>3. ASSUME NEW i \in 1 .. n PROVE w[i] > limit
  <2>1. i - 1 \in 0 .. Len(w) /\ i - 1 < Len(w) /\ i - 1 < n /\ i \in 1 .. Len(w)
    BY <1>1, <1>2
  <2>2. i - 1 \notin S
    BY <1>2, <2>1
  <2>3. ~(w[(i - 1) + 1] <= limit)
    BY <2>1, <2>2
  <2>4. (i - 1) + 1 = i
    BY <2>1
  <2>5. w[i] \in Nat
    BY <2>1
  <2>. QED  BY <2>3, <2>4, <2>5
<1>4. Pops(w, limit, n)
  BY <1>2, <1>3 DEF Pops
<1>. QED  BY <1>4 DEF Pops, Popped

LEMMA PopsOnce ==
    ASSUME NEW w \in Seq(Nat), NEW limit \in Nat, NEW n, Pops(w, limit, n),
           NEW m, Pops(w, limit, m)
    PROVE  n = m
<1>1. Len(w) \in Nat /\ n \in 0 .. Len(w) /\ m \in 0 .. Len(w)
  BY DEF Pops
<1>2. ASSUME NEW a \in 0 .. Len(w), NEW b \in 0 .. Len(w), a < b, Pops(w, limit, a), Pops(w, limit, b)
      PROVE  FALSE
  <2>1. a < Len(w) /\ a + 1 \in 1 .. b /\ a + 1 \in 1 .. Len(w)
    BY <1>1, <1>2
  <2>2. w[a + 1] <= limit /\ w[a + 1] > limit
    BY <1>2, <2>1 DEF Pops
  <2>3. w[a + 1] \in Nat
    BY <2>1
  <2>. QED  BY <2>2, <2>3
<1>3. ~(n < m) /\ ~(m < n)
  BY <1>1, <1>2
<1>. QED  BY <1>1, <1>3

\* What Trim leaves, from the number of entries it pops.
LEMMA TrimIs ==
    ASSUME NEW w \in Seq(Nat), NEW n, Pops(w, Window, n)
    PROVE  /\ Trim(w) \in Seq(Nat) /\ Len(Trim(w)) = Len(w) - n
           /\ \A i \in 1 .. Len(w) - n : Trim(w)[i] = w[n + i]
<1>1. Window \in Nat
  BY RateAssumption
<1>2. Popped(w, Window) = n
  BY <1>1, PoppedIs, PopsOnce
<1>3. n \in 0 .. Len(w)
  BY DEF Pops
<1>4. Trim(w) = SubSeq(w, n + 1, Len(w))
  BY <1>2 DEF Trim, Within
<1>5. \A i \in 1 .. Len(w) - n : (n + 1) + i - 1 = n + i
  BY <1>3
<1>. QED  BY <1>3, <1>4, <1>5

LEMMA TrimType ==
    ASSUME NEW w \in Seq(Nat)
    PROVE  /\ Trim(w) \in Seq(Nat) /\ Len(Trim(w)) <= Len(w)
           /\ \E n : Pops(w, Window, n)
<1>1. Window \in Nat
  BY RateAssumption
<1>2. PICK n : n = Popped(w, Window)
  OBVIOUS
<1>3. Pops(w, Window, n)
  BY <1>1, <1>2, PoppedIs
<1>4. n \in 0 .. Len(w)
  BY <1>3 DEF Pops
<1>. QED  BY <1>3, <1>4, TrimIs

\* Nothing is popped from a sequence whose first entry is within the window.
LEMMA TrimNothing ==
    ASSUME NEW w \in Seq(Nat), Len(w) # 0 => w[1] <= Window
    PROVE  Trim(w) = w
<1>1. Pops(w, Window, 0)
  BY DEF Pops
<1>2. Trim(w) \in Seq(Nat) /\ Len(Trim(w)) = Len(w) - 0 /\ \A i \in 1 .. Len(w) - 0 : Trim(w)[i] = w[0 + i]
  BY <1>1, TrimIs
<1>3. Len(Trim(w)) = Len(w) /\ \A i \in 1 .. Len(w) : Trim(w)[i] = w[i]
  BY <1>2
<1>. QED  BY <1>2, <1>3

\* The oldest entry that is left is within the window, so with those before the
\* younger ones all are.
LEMMA TrimFresh ==
    ASSUME NEW w \in Seq(Nat)
    PROVE  /\ Len(Trim(w)) # 0 => Trim(w)[1] <= Window
           /\ Descends(w) => Descends(Trim(w)) /\ Trim(w) \in Seq(0 .. Window)
<1>1. PICK n : Pops(w, Window, n)
  BY TrimType
<1>2. /\ Len(w) \in Nat /\ n \in 0 .. Len(w)
      /\ n < Len(w) => w[n + 1] <= Window
  BY <1>1 DEF Pops
<1>0. PICK v : v = Trim(w)
  OBVIOUS
<1>3. v \in Seq(Nat) /\ Len(v) = Len(w) - n /\ \A i \in 1 .. Len(w) - n : v[i] = w[n + i]
  BY <1>0, <1>1, TrimIs
<1>4. Len(v) # 0 => v[1] <= Window
  <2> SUFFICES ASSUME Len(v) # 0 PROVE v[1] <= Window
    OBVIOUS
  <2>1. n < Len(w) /\ 1 \in 1 .. Len(w) - n
    BY <1>2, <1>3
  <2>. QED  BY <1>2, <1>3, <2>1
<1>5. ASSUME Descends(w) PROVE Descends(v) /\ v \in Seq(0 .. Window)
  <2>1. ASSUME NEW i \in 1 .. Len(v), NEW j \in i .. Len(v) PROVE v[i] >= v[j]
    <3>1. n + i \in 1 .. Len(w) /\ n + j \in n + i .. Len(w)
      BY <1>2, <1>3
    <3>2. w[n + i] >= w[n + j]
      BY <1>5, <3>1 DEF Descends
    <3>3. i \in 1 .. Len(w) - n /\ j \in 1 .. Len(w) - n
      BY <1>2, <1>3
    <3>. QED  BY <1>3, <3>2, <3>3
  <2>2. Descends(v)
    BY <2>1 DEF Descends
  <2>3. ASSUME NEW j \in 1 .. Len(v) PROVE v[j] \in 0 .. Window
    <3>1. 1 \in 1 .. Len(v) /\ j \in 1 .. Len(v) /\ Len(v) # 0
      BY <1>3
    <3>2. v[1] >= v[j] /\ v[1] <= Window /\ v[1] \in Nat /\ v[j] \in Nat
      BY <1>3, <1>4, <2>1, <3>1
    <3>3. Window \in Nat
      BY RateAssumption
    <3>. QED  BY <3>2, <3>3
  <2>4. v \in Seq(0 .. Window)
    <3>1. EntriesIn(v, 0 .. Window)
      BY <2>3 DEF EntriesIn
    <3>. QED  BY <1>3, <3>1, SeqWithin
  <2>. QED  BY <2>2, <2>4
<1>. QED  BY <1>0, <1>4, <1>5

LEMMA AgedIs ==
    ASSUME NEW w \in Seq(Nat)
    PROVE  /\ Aged(w, 1) \in Seq(Ages) /\ Aged(w, 1) \in Seq(Nat) /\ Len(Aged(w, 1)) = Len(w)
           /\ \A i \in 1 .. Len(w) :
                 Aged(w, 1)[i] = IF w[i] + 1 > Window THEN Window + 1 ELSE w[i] + 1
           /\ Descends(w) => Descends(Aged(w, 1))
<1>1. Window \in Nat /\ Len(w) \in Nat /\ DOMAIN w = 1 .. Len(w)
  BY RateAssumption
<1>2. PICK v : v = Aged(w, 1)
  OBVIOUS
<1>3. v = [i \in 1 .. Len(w) |-> IF w[i] + 1 > Window THEN Window + 1 ELSE w[i] + 1]
  BY <1>1, <1>2 DEF Aged
<1>4. \A i \in 1 .. Len(w) : w[i] \in Nat /\ v[i] \in 0 .. Window + 1 /\ v[i] \in Nat
  BY <1>1, <1>3
<1>5. v \in Seq(Ages) /\ v \in Seq(Nat) /\ Len(v) = Len(w)
  BY <1>1, <1>3, <1>4 DEF Ages
<1>6. ASSUME Descends(w) PROVE Descends(v)
  <2>1. ASSUME NEW i \in 1 .. Len(w), NEW j \in i .. Len(w) PROVE v[i] >= v[j]
    <3>1. w[i] >= w[j] /\ j \in 1 .. Len(w)
      BY <1>1, <1>6 DEF Descends
    <3>2. w[i] \in Nat /\ w[j] \in Nat
      BY <1>4, <3>1
    <3>3. /\ v[i] = IF w[i] + 1 > Window THEN Window + 1 ELSE w[i] + 1
          /\ v[j] = IF w[j] + 1 > Window THEN Window + 1 ELSE w[j] + 1
      BY <1>3, <3>1
    <3>. QED  BY <1>1, <3>1, <3>2, <3>3
  <2>. QED  BY <1>5, <2>1 DEF Descends
<1>. QED  BY <1>2, <1>3, <1>5, <1>6

LEMMA SameSeq ==
    ASSUME NEW S, NEW v \in Seq(S), NEW w \in Seq(S), Len(v) = Len(w),
           \A i \in 1 .. Len(v) : v[i] = w[i]
    PROVE  v = w
  OBVIOUS

\* What is old today is old tomorrow: trimming now and tomorrow leaves what
\* trimming tomorrow leaves.
LEMMA TrimAged ==
    ASSUME NEW w \in Seq(Nat)
    PROVE  Trim(Aged(Trim(w), 1)) = Trim(Aged(w, 1))
<1>1. PICK n : Pops(w, Window, n)
  BY TrimType
<1>2. PICK v : v = Trim(w)
  OBVIOUS
<1>3. v \in Seq(Nat) /\ Len(v) = Len(w) - n /\ \A i \in 1 .. Len(w) - n : v[i] = w[n + i]
  BY <1>1, <1>2, TrimIs
<1>4. PICK x : x = Aged(w, 1)
  OBVIOUS
<1>5. /\ x \in Seq(Nat) /\ Len(x) = Len(w)
      /\ \A i \in 1 .. Len(w) : x[i] = IF w[i] + 1 > Window THEN Window + 1 ELSE w[i] + 1
  BY <1>4, AgedIs
<1>6. PICK y : y = Aged(v, 1)
  OBVIOUS
<1>7. /\ y \in Seq(Nat) /\ Len(y) = Len(v)
      /\ \A i \in 1 .. Len(v) : y[i] = IF v[i] + 1 > Window THEN Window + 1 ELSE v[i] + 1
  BY <1>3, <1>6, AgedIs
<1>8. PICK m : Pops(y, Window, m)
  BY <1>7, TrimType
<1>9. /\ Len(w) \in Nat /\ n \in 0 .. Len(w) /\ Len(y) = Len(w) - n /\ m \in 0 .. Len(w) - n
      /\ Window \in Nat
  BY <1>1, <1>3, <1>7, <1>8, RateAssumption DEF Pops
<1>10. ASSUME NEW i \in 1 .. Len(w) - n PROVE y[i] = x[n + i]
  <2>1. i \in 1 .. Len(v) /\ n + i \in 1 .. Len(w)
    BY <1>3, <1>9
  <2>. QED  BY <1>3, <1>5, <1>7, <2>1
<1>11. Pops(x, Window, n + m)
  <2>1. n + m \in 0 .. Len(x)
    BY <1>5, <1>9
  <2>2. ASSUME NEW i \in 1 .. n + m PROVE x[i] > Window
    <3>1. CASE i \in 1 .. n
      <4>1. w[i] > Window /\ w[i] \in Nat /\ i \in 1 .. Len(w)
        BY <1>1, <1>9, <3>1 DEF Pops
      <4>. QED  BY <1>5, <1>9, <4>1
    <3>2. CASE i \notin 1 .. n
      <4>1. PICK j : j = i - n
        OBVIOUS
      <4>2. j \in 1 .. m /\ j \in 1 .. Len(w) - n /\ i = n + j
        BY <1>9, <3>2, <4>1
      <4>3. y[j] > Window
        BY <1>8, <4>2 DEF Pops
      <4>. QED  BY <1>10, <4>2, <4>3
    <3>. QED  BY <3>1, <3>2
  <2>3. ASSUME n + m < Len(x) PROVE x[(n + m) + 1] <= Window
    <3>1. m < Len(y) /\ m + 1 \in 1 .. Len(w) - n /\ (n + m) + 1 = n + (m + 1)
      BY <1>5, <1>9, <2>3
    <3>2. y[m + 1] <= Window
      BY <1>8, <3>1 DEF Pops
    <3>. QED  BY <1>10, <3>1, <3>2
  <2>. QED  BY <2>1, <2>2, <2>3 DEF Pops
<1>12. /\ Trim(x) \in Seq(Nat) /\ Len(Trim(x)) = Len(w) - (n + m)
       /\ \A i \in 1 .. Len(w) - (n + m) : Trim(x)[i] = x[(n + m) + i]
  BY <1>5, <1>11, TrimIs
<1>13. /\ Trim(y) \in Seq(Nat) /\ Len(Trim(y)) = (Len(w) - n) - m
       /\ \A i \in 1 .. (Len(w) - n) - m : Trim(y)[i] = y[m + i]
  <2>1. /\ Trim(y) \in Seq(Nat) /\ Len(Trim(y)) = Len(y) - m
        /\ \A i \in 1 .. Len(y) - m : Trim(y)[i] = y[m + i]
    BY <1>7, <1>8, TrimIs
  <2>. QED  BY <1>9, <2>1
<1>14. ASSUME NEW i \in 1 .. (Len(w) - n) - m PROVE Trim(y)[i] = Trim(x)[i]
  <2>1. m + i \in 1 .. Len(w) - n /\ i \in 1 .. Len(w) - (n + m) /\ n + (m + i) = (n + m) + i
    BY <1>9
  <2>. QED  BY <1>10, <1>12, <1>13, <2>1
<1>15. Trim(y) = Trim(x)
  <2>1. Len(Trim(y)) = Len(Trim(x))
    BY <1>9, <1>12, <1>13
  <2>2. \A i \in 1 .. Len(Trim(y)) : Trim(y)[i] = Trim(x)[i]
    BY <1>13, <1>14
  <2>. QED  BY <1>12, <1>13, <2>1, <2>2, SameSeq
<1>. QED  BY <1>2, <1>4, <1>6, <1>15

(* What the limiter keeps of a key, and what the history has of it.        *)
Remembers(a, r) ==
    /\ a \in Seq(Ages) /\ Len(a) <= PerMinute /\ Descends(a)
    /\ r = Trim(a)

LEMMA AgesAreNat == Ages \subseteq Nat /\ 0 \in Ages /\ Window \in Nat /\ PerMinute \in Nat \ {0}
  BY RateAssumption DEF Ages

LEMMA Remembered ==
    ASSUME NEW a, NEW r, Remembers(a, r)
    PROVE  /\ a \in Seq(Nat) /\ r \in Seq(0 .. Window) /\ Len(r) <= PerMinute
           /\ Remembers(Trim(a), r)
           /\ Len(r) < PerMinute => Remembers(Append(Trim(a), 0), Append(r, 0))
           /\ Remembers(Aged(a, 1), Trim(Aged(r, 1)))
<1>1. a \in Seq(Nat) /\ Len(a) \in Nat
  <2>1. a \in Seq(Ages)
    BY DEF Remembers
  <2>2. \A i \in 1 .. Len(a) : a[i] \in Ages
    BY <2>1
  <2>3. EntriesIn(a, Nat)
    BY <2>2, AgesAreNat DEF EntriesIn
  <2>. QED  BY <2>1, <2>3, SeqWithin
<1>2. /\ Len(a) <= PerMinute /\ Descends(a) /\ r = Trim(a) /\ a \in Seq(Ages)
  BY DEF Remembers
<1>3. /\ r \in Seq(Nat) /\ Len(r) <= Len(a) /\ Descends(r) /\ r \in Seq(0 .. Window)
      /\ Len(r) # 0 => r[1] <= Window
  BY <1>1, <1>2, TrimType, TrimFresh
<1>4. Len(r) <= PerMinute /\ Len(r) \in Nat
  BY <1>1, <1>2, <1>3, AgesAreNat
<1>5. r \in Seq(Ages)
  <2>1. EntriesIn(r, Ages)
    BY <1>3, AgesAreNat DEF EntriesIn, Ages
  <2>. QED  BY <1>3, <2>1, SeqWithin
<1>6. Remembers(Trim(a), r)
  <2>1. Trim(r) = r
    BY <1>3, TrimNothing
  <2>. QED  BY <1>2, <1>3, <1>4, <1>5, <2>1 DEF Remembers
<1>7. ASSUME Len(r) < PerMinute PROVE Remembers(Append(r, 0), Append(r, 0))
  <2>1. PICK b : b = Append(r, 0)
    OBVIOUS
  <2>2. /\ b \in Seq(Ages) /\ b \in Seq(Nat) /\ Len(b) = Len(r) + 1
        /\ b[Len(r) + 1] = 0 /\ \A i \in 1 .. Len(r) : b[i] = r[i]
    BY <1>3, <1>5, <2>1, AgesAreNat
  <2>3. ASSUME NEW i \in 1 .. Len(b), NEW j \in i .. Len(b) PROVE b[i] >= b[j]
    <3>1. b[i] \in Nat
      BY <2>2
    <3>2. CASE j = Len(r) + 1
      BY <2>2, <3>1, <3>2
    <3>3. CASE j # Len(r) + 1
      <4>1. i \in 1 .. Len(r) /\ j \in i .. Len(r) /\ j \in 1 .. Len(r)
        BY <1>4, <2>2, <3>3
      <4>2. r[i] >= r[j]
        BY <1>3, <4>1 DEF Descends
      <4>. QED  BY <2>2, <4>1, <4>2
    <3>. QED  BY <3>2, <3>3
  <2>4. b[1] <= Window
    <3>1. CASE Len(r) = 0
      BY <2>2, <3>1, AgesAreNat
    <3>2. CASE Len(r) # 0
      <4>1. 1 \in 1 .. Len(r)
        BY <1>4, <3>2
      <4>. QED  BY <1>3, <2>2, <3>2, <4>1
    <3>. QED  BY <3>1, <3>2
  <2>5. Trim(b) = b
    BY <2>2, <2>4, TrimNothing
  <2>6. Len(b) <= PerMinute
    BY <1>4, <1>7, <2>2, AgesAreNat
  <2>. QED  BY <2>1, <2>2, <2>3, <2>5, <2>6 DEF Remembers, Descends
<1>8. Remembers(Aged(a, 1), Trim(Aged(r, 1)))
  <2>1. /\ Aged(a, 1) \in Seq(Ages) /\ Len(Aged(a, 1)) = Len(a) /\ Descends(Aged(a, 1))
    BY <1>1, <1>2, AgedIs
  <2>2. Trim(Aged(r, 1)) = Trim(Aged(a, 1))
    BY <1>1, <1>2, TrimAged
  <2>. QED  BY <1>2, <2>1, <2>2 DEF Remembers
<1>. QED  BY <1>1, <1>2, <1>3, <1>4, <1>6, <1>7, <1>8

-----------------------------------------------------------------------------
(* The keys a limiter tracks.                                              *)

Distinct(o) ==
    /\ o \in Seq(Keys)
    /\ \A i, j \in 1 .. Len(o) : o[i] = o[j] => i = j

LEMMA KeysOf ==
    ASSUME NEW o \in Seq(Keys)
    PROVE  ToSet(o) = {o[i] : i \in 1 .. Len(o)} /\ DOMAIN o = 1 .. Len(o) /\ Len(o) \in Nat
  BY DEF ToSet

LEMMA DistinctIsInjective == ASSUME NEW o, Distinct(o) PROVE IsInjective(o)
<1>1. o \in Seq(Keys) /\ DOMAIN o = 1 .. Len(o)
  BY KeysOf DEF Distinct
<1>. QED  BY <1>1 DEF Distinct, IsInjective

LEMMA WithoutIs ==
    ASSUME NEW o, Distinct(o), NEW k \in Keys
    PROVE  /\ Distinct(Without(o, k)) /\ k \notin ToSet(Without(o, k))
           /\ \A x \in Keys : x # k => (x \in ToSet(Without(o, k)) <=> x \in ToSet(o))
           /\ Len(Without(o, k)) <= Len(o)
           /\ k \in ToSet(o) => Len(Without(o, k)) < Len(o)
<1>1. o \in Seq(Keys) /\ Len(o) \in Nat /\ DOMAIN o = 1 .. Len(o)
      /\ ToSet(o) = {o[i] : i \in 1 .. Len(o)}
  BY KeysOf DEF Distinct
<1>2. CASE k \notin ToSet(o)
  <2>1. Without(o, k) = o
    BY <1>2 DEF Without
  <2>. QED  BY <1>1, <1>2, <2>1
<1>3. CASE k \in ToSet(o)
  <2>1. PICK p : p = CHOOSE i \in DOMAIN o : o[i] = k
    OBVIOUS
  <2>2. p \in 1 .. Len(o) /\ o[p] = k
    BY <1>1, <1>3, <2>1
  <2>3. PICK a : a = SubSeq(o, 1, p - 1)
    OBVIOUS
  <2>4. PICK b : b = SubSeq(o, p + 1, Len(o))
    OBVIOUS
  <2>5. a \in Seq(Keys) /\ Len(a) = p - 1 /\ \A j \in 1 .. p - 1 : a[j] = o[j]
    BY <1>1, <2>2, <2>3
  <2>6. b \in Seq(Keys) /\ Len(b) = Len(o) - p /\ \A j \in 1 .. Len(o) - p : b[j] = o[p + j]
    <3>1. \A j \in 1 .. Len(o) - p : (p + 1) + j - 1 = p + j
      BY <2>2
    <3>2. /\ p + 1 \in Nat /\ Len(o) - (p + 1) + 1 = Len(o) - p
          /\ p + 1 <= Len(o) + 1 /\ p + 1 >= 1
      BY <1>1, <2>2
    <3>3. PICK q : q = p + 1
      OBVIOUS
    <3>4. \A j \in q .. Len(o) : o[j] \in Keys
      BY <1>1, <3>2, <3>3
    <3>5. b \in Seq(Keys) /\ Len(b) = IF q <= Len(o) THEN Len(o) - q + 1 ELSE 0
      BY <1>1, <2>4, <3>2, <3>3, <3>4
    <3>6. Len(b) = Len(o) - p
      BY <1>1, <2>2, <3>3, <3>5
    <3>7. \A j \in 1 .. Len(o) - p : b[j] = o[q + j - 1]
      BY <1>1, <2>2, <2>4, <3>3
    <3>. QED  BY <3>1, <3>3, <3>5, <3>6, <3>7
  <2>7. PICK v : v = a \o b
    OBVIOUS
  <2>8. v \in Seq(Keys) /\ Len(v) = Len(o) - 1
    <3>0. a \in Seq(Keys) /\ b \in Seq(Keys)
      BY <2>5, <2>6
    <3>1. v \in Seq(Keys) /\ Len(v) = Len(a) + Len(b)
      BY <2>7, <3>0
    <3>. QED  BY <1>1, <2>2, <2>5, <2>6, <3>1
  <2>9. ASSUME NEW j \in 1 .. Len(o) - 1 PROVE v[j] = o[IF j < p THEN j ELSE j + 1]
    <3>1. CASE j < p
      <4>1. j \in 1 .. Len(a)
        BY <2>2, <2>5, <3>1
      <4>. QED  BY <2>5, <2>6, <2>7, <3>1, <4>1
    <3>2. CASE ~(j < p)
      <4>1. j - Len(a) \in 1 .. Len(b) /\ ~(j <= Len(a)) /\ p + (j - Len(a)) = j + 1
        BY <1>1, <2>2, <2>5, <2>6, <3>2
      <4>2. v[j] = b[j - Len(a)]
        BY <2>5, <2>6, <2>7, <4>1
      <4>. QED  BY <2>6, <3>2, <4>1, <4>2
    <3>. QED  BY <3>1, <3>2
  <2>10. Without(o, k) = v
    BY <1>3, <2>1, <2>3, <2>4, <2>7 DEF Without, RemoveAt
  <2>11. ASSUME NEW i \in 1 .. Len(v), NEW j \in 1 .. Len(v), v[i] = v[j] PROVE i = j
    <3>1. PICK x : x = IF i < p THEN i ELSE i + 1
      OBVIOUS
    <3>2. PICK y : y = IF j < p THEN j ELSE j + 1
      OBVIOUS
    <3>3. x \in 1 .. Len(o) /\ y \in 1 .. Len(o) /\ o[x] = o[y]
      BY <1>1, <2>2, <2>8, <2>9, <2>11, <3>1, <3>2
    <3>4. x = y
      BY <3>3 DEF Distinct
    <3>. QED  BY <2>2, <2>8, <3>1, <3>2, <3>4
  <2>12. Distinct(v)
    BY <2>8, <2>11 DEF Distinct
  <2>13. ToSet(v) = {v[i] : i \in 1 .. Len(v)}
    BY <2>8, KeysOf
  <2>14. ASSUME NEW i \in 1 .. Len(v) PROVE v[i] # k /\ v[i] \in ToSet(o)
    <3>1. PICK x : x = IF i < p THEN i ELSE i + 1
      OBVIOUS
    <3>2. x \in 1 .. Len(o) /\ x # p /\ v[i] = o[x]
      BY <1>1, <2>2, <2>8, <2>9, <3>1
    <3>3. o[x] # o[p]
      BY <2>2, <3>2 DEF Distinct
    <3>. QED  BY <1>1, <2>2, <3>2, <3>3
  <2>15. ASSUME NEW x \in ToSet(o), x # k PROVE x \in ToSet(v)
    <3>1. PICK i \in 1 .. Len(o) : x = o[i]
      BY <1>1
    <3>2. i # p
      BY <2>2, <2>15, <3>1
    <3>3. PICK j : j = IF i < p THEN i ELSE i - 1
      OBVIOUS
    <3>4. j \in 1 .. Len(o) - 1 /\ i = IF j < p THEN j ELSE j + 1
      BY <1>1, <2>2, <3>2, <3>3
    <3>5. v[j] = x /\ j \in 1 .. Len(v)
      BY <2>8, <2>9, <3>1, <3>4
    <3>. QED  BY <2>13, <3>5
  <2>16. k \notin ToSet(v) /\ \A x \in Keys : x # k => (x \in ToSet(v) <=> x \in ToSet(o))
    BY <2>13, <2>14, <2>15
  <2>17. Len(v) < Len(o)
    BY <1>1, <2>8
  <2>18. Len(v) <= Len(o)
    BY <1>1, <2>8
  <2>. QED  BY <2>10, <2>12, <2>16, <2>17, <2>18
<1>. QED  BY <1>2, <1>3

LEMMA AppendIs ==
    ASSUME NEW o, Distinct(o), NEW k \in Keys, k \notin ToSet(o)
    PROVE  /\ Distinct(Append(o, k)) /\ Len(Append(o, k)) = Len(o) + 1
           /\ Append(o, k)[Len(o) + 1] = k
           /\ \A x \in Keys : x \in ToSet(Append(o, k)) <=> x = k \/ x \in ToSet(o)
<1>1. o \in Seq(Keys) /\ Len(o) \in Nat /\ ToSet(o) = {o[i] : i \in 1 .. Len(o)}
  BY KeysOf DEF Distinct
<1>2. PICK v : v = Append(o, k)
  OBVIOUS
<1>3. /\ v \in Seq(Keys) /\ Len(v) = Len(o) + 1 /\ v[Len(o) + 1] = k
      /\ \A i \in 1 .. Len(o) : v[i] = o[i]
  BY <1>1, <1>2
<1>4. ToSet(v) = {v[i] : i \in 1 .. Len(v)}
  BY <1>3, KeysOf
<1>5. ASSUME NEW i \in 1 .. Len(v), NEW j \in 1 .. Len(v), v[i] = v[j] PROVE i = j
  <2>1. CASE i \in 1 .. Len(o) /\ j \in 1 .. Len(o)
    BY <1>3, <1>5, <2>1 DEF Distinct
  <2>2. CASE i \in 1 .. Len(o) /\ j \notin 1 .. Len(o)
    <3>1. j = Len(o) + 1 /\ v[i] \in ToSet(o)
      BY <1>1, <1>3, <2>2
    <3>. QED  BY <1>3, <1>5, <3>1
  <2>3. CASE i \notin 1 .. Len(o) /\ j \in 1 .. Len(o)
    <3>1. i = Len(o) + 1 /\ v[j] \in ToSet(o)
      BY <1>1, <1>3, <2>3
    <3>. QED  BY <1>3, <1>5, <3>1
  <2>4. CASE i \notin 1 .. Len(o) /\ j \notin 1 .. Len(o)
    BY <1>1, <1>3, <2>4
  <2>. QED  BY <2>1, <2>2, <2>3, <2>4
<1>6. Distinct(v)
  BY <1>3, <1>5 DEF Distinct
<1>7. ASSUME NEW x \in Keys PROVE x \in ToSet(v) <=> x = k \/ x \in ToSet(o)
  <2>1. Len(o) + 1 \in 1 .. Len(v) /\ 1 .. Len(o) \subseteq 1 .. Len(v)
    BY <1>1, <1>3
  <2>2. \A i \in 1 .. Len(v) : i \in 1 .. Len(o) \/ i = Len(o) + 1
    BY <1>1, <1>3
  <2>3. k \in ToSet(v)
    BY <1>3, <1>4, <2>1
  <2>4. ASSUME NEW y \in ToSet(o) PROVE y \in ToSet(v)
    <3>1. PICK i \in 1 .. Len(o) : y = o[i]
      BY <1>1
    <3>. QED  BY <1>3, <1>4, <2>1, <3>1
  <2>5. ASSUME NEW y \in ToSet(v) PROVE y = k \/ y \in ToSet(o)
    <3>1. PICK i \in 1 .. Len(v) : y = v[i]
      BY <1>4
    <3>. QED  BY <1>1, <1>3, <2>2, <3>1
  <2>. QED  BY <2>3, <2>4, <2>5
<1>. QED  BY <1>2, <1>3, <1>6, <1>7

\* The last n keys.
LEMMA LastKeysAre ==
    ASSUME NEW o, Distinct(o), NEW n \in Nat \ {0}, Len(o) > n
    PROVE  LET v == SubSeq(o, Len(o) - n + 1, Len(o)) IN
           /\ Distinct(v) /\ Len(v) = n
           /\ \A x \in ToSet(v) : x \in ToSet(o)
           /\ o[Len(o)] \in ToSet(v)
<1>1. o \in Seq(Keys) /\ Len(o) \in Nat /\ ToSet(o) = {o[i] : i \in 1 .. Len(o)}
  BY KeysOf DEF Distinct
<1>2. PICK v : v = SubSeq(o, Len(o) - n + 1, Len(o))
  OBVIOUS
<1>3. PICK d : d = Len(o) - n
  OBVIOUS
<1>4. d \in Nat /\ Len(o) = d + n /\ \A i \in 1 .. n : (d + 1) + i - 1 = d + i /\ d + i \in 1 .. Len(o)
  BY <1>1, <1>3
<1>5. v \in Seq(Keys) /\ Len(v) = n /\ \A i \in 1 .. n : v[i] = o[d + i]
  <2>1. v = SubSeq(o, d + 1, Len(o))
    BY <1>2, <1>3
  <2>. QED  BY <1>1, <1>4, <2>1
<1>6. ToSet(v) = {v[i] : i \in 1 .. Len(v)}
  BY <1>5, KeysOf
<1>7. ASSUME NEW i \in 1 .. Len(v), NEW j \in 1 .. Len(v), v[i] = v[j] PROVE i = j
  <2>1. o[d + i] = o[d + j] /\ d + i \in 1 .. Len(o) /\ d + j \in 1 .. Len(o)
    BY <1>4, <1>5, <1>7
  <2>2. d + i = d + j
    BY <2>1 DEF Distinct
  <2>. QED  BY <1>4, <2>2
<1>8. Distinct(v)
  BY <1>5, <1>7 DEF Distinct
<1>9. ASSUME NEW x \in ToSet(v) PROVE x \in ToSet(o)
  <2>1. PICK i \in 1 .. Len(v) : x = v[i]
    BY <1>6
  <2>2. i \in 1 .. n /\ d + i \in 1 .. Len(o) /\ x = o[d + i]
    BY <1>4, <1>5, <2>1
  <2>. QED  BY <1>1, <2>2
<1>10. o[Len(o)] \in ToSet(v)
  <2>1. n \in 1 .. Len(v) /\ n \in 1 .. n /\ v[n] = o[Len(o)]
    BY <1>4, <1>5
  <2>. QED  BY <1>6, <2>1
<1>. QED  BY <1>2, <1>5, <1>8, <1>9, <1>10

-----------------------------------------------------------------------------
(* One limiter and what the history has of it.                             *)

Tidy(l) ==
    /\ l \in Limiters /\ Distinct(l.order) /\ Len(l.order) <= MaxKeys
    /\ \A k \in Keys : k \notin Tracked(l) => l.ages[k] = <<>>

Rows(l, r) ==
    /\ Tidy(l) /\ r \in [Keys -> Seq(0 .. Window)]
    /\ \A k \in Keys : Remembers(l.ages[k], r[k])

LEMMA NothingRemembered == Trim(<<>>) = <<>> /\ Remembers(<<>>, <<>>)
<1>1. PICK e : e = <<>>
  OBVIOUS
<1>2. e \in Seq(Nat) /\ Len(e) = 0 /\ e \in Seq(Ages)
  BY <1>1
<1>3. Trim(e) = e
  BY <1>2, TrimNothing
<1>4. Remembers(e, e)
  BY <1>2, <1>3, AgesAreNat DEF Remembers, Descends
<1>. QED  BY <1>1, <1>3, <1>4

LEMMA NoRows == Rows(NoHits, [k \in Keys |-> <<>>])
<1>1. NoHits \in Limiters /\ NoHits.order = <<>> /\ NoHits.ages = [k \in Keys |-> <<>>]
  BY DEF NoHits, Limiters
<1>2. Distinct(NoHits.order) /\ Len(NoHits.order) <= MaxKeys
  BY <1>1, RateAssumption DEF Distinct
<1>3. Tidy(NoHits)
  BY <1>1, <1>2 DEF Tidy
<1>. QED  BY <1>1, <1>3, NothingRemembered DEF Rows

LEMMA SeenIs ==
    ASSUME NEW l \in Limiters, NEW k \in Keys
    PROVE  /\ Seen(l, k).order = Append(Without(l.order, k), k)
           /\ Seen(l, k).ages = [l.ages EXCEPT ![k] = Trim(l.ages[k])]
  BY DEF Seen, Limiters

\* A limiter as its two fields, the only thing the rest needs of a record.
LEMMA LimiterIs ==
    ASSUME NEW o \in Seq(Keys), NEW a \in [Keys -> Seq(Ages)]
    PROVE  [order |-> o, ages |-> a] \in Limiters
  BY DEF Limiters

\* What is seen of k is trimmed, and k is the last key seen.
LEMMA SeenTidy ==
    ASSUME NEW l, Tidy(l), NEW k \in Keys, Trim(l.ages[k]) \in Seq(Ages)
    PROVE  /\ Seen(l, k) \in Limiters /\ Distinct(Seen(l, k).order)
           /\ Len(Seen(l, k).order) <= MaxKeys + 1
           /\ k \in Tracked(l) => Len(Seen(l, k).order) <= MaxKeys
           /\ Seen(l, k).order[Len(Seen(l, k).order)] = k /\ Len(Seen(l, k).order) # 0
           /\ \A x \in Keys : x \in Tracked(Seen(l, k)) <=> x = k \/ x \in Tracked(l)
           /\ Seen(l, k).ages = [l.ages EXCEPT ![k] = Trim(l.ages[k])]
<1>1. l \in Limiters /\ Distinct(l.order) /\ Len(l.order) <= MaxKeys /\ MaxKeys \in Nat \ {0}
  BY RateAssumption DEF Tidy
<1>2. PICK o : o = l.order
  OBVIOUS
<1>3. PICK v : v = Without(o, k)
  OBVIOUS
<1>4. /\ Distinct(v) /\ k \notin ToSet(v)
      /\ \A x \in Keys : x # k => (x \in ToSet(v) <=> x \in ToSet(o))
      /\ Len(v) <= Len(o) /\ (k \in ToSet(o) => Len(v) < Len(o))
  BY <1>1, <1>2, <1>3, WithoutIs
<1>5. PICK q : q = Append(v, k)
  OBVIOUS
<1>6. /\ Distinct(q) /\ Len(q) = Len(v) + 1 /\ q[Len(v) + 1] = k
      /\ \A x \in Keys : x \in ToSet(q) <=> x = k \/ x \in ToSet(v)
  BY <1>4, <1>5, AppendIs
<1>7. PICK n : n = Seen(l, k)
  OBVIOUS
<1>8. n.order = q /\ n.ages = [l.ages EXCEPT ![k] = Trim(l.ages[k])]
  BY <1>1, <1>2, <1>3, <1>5, <1>7, SeenIs
<1>9. q \in Seq(Keys) /\ Len(v) \in Nat /\ Len(o) \in Nat
  BY <1>1, <1>2, <1>4, <1>6, KeysOf DEF Distinct
<1>10. n \in Limiters
  <2>1. l.ages \in [Keys -> Seq(Ages)]
    BY <1>1 DEF Limiters
  <2>2. PICK a : a = [l.ages EXCEPT ![k] = Trim(l.ages[k])]
    OBVIOUS
  <2>3. a \in [Keys -> Seq(Ages)]
    BY <2>1, <2>2
  <2>4. n = [order |-> n.order, ages |-> n.ages]
    BY <1>1, <1>7 DEF Seen, Limiters
  <2>. QED  BY <1>8, <1>9, <2>2, <2>3, <2>4, LimiterIs
<1>11. Len(q) <= MaxKeys + 1 /\ Len(q) # 0 /\ q[Len(q)] = k
  BY <1>1, <1>2, <1>4, <1>6, <1>9
<1>12. k \in ToSet(o) => Len(q) <= MaxKeys
  BY <1>1, <1>2, <1>4, <1>6, <1>9
<1>13. \A x \in Keys : x \in ToSet(q) <=> x = k \/ x \in ToSet(o)
  BY <1>4, <1>6
<1>. QED  BY <1>2, <1>6, <1>7, <1>8, <1>10, <1>11, <1>12, <1>13 DEF Tracked

\* A key that is refused was tracked: its window is not empty.
LEMMA KnockRows ==
    ASSUME NEW l, NEW r, Rows(l, r), NEW k \in Keys, Refuses(l, k)
    PROVE  Rows(Seen(l, k), r)
<1>1. Tidy(l) /\ r \in [Keys -> Seq(0 .. Window)] /\ \A x \in Keys : Remembers(l.ages[x], r[x])
  BY DEF Rows
<1>2. k \in Tracked(l)
  <2>1. Len(Trim(l.ages[k])) >= PerMinute
    BY DEF Refuses, Full
  <2>2. l.ages[k] # <<>>
    BY <2>1, NothingRemembered, RateAssumption
  <2>. QED  BY <1>1, <2>2 DEF Tidy
<1>3. Remembers(Trim(l.ages[k]), r[k])
  BY <1>1, Remembered
<1>4. Trim(l.ages[k]) \in Seq(Ages)
  BY <1>3 DEF Remembers
<1>5. PICK n : n = Seen(l, k)
  OBVIOUS
<1>6. /\ n \in Limiters /\ Distinct(n.order) /\ Len(n.order) <= MaxKeys
      /\ \A x \in Keys : x \in Tracked(n) <=> x = k \/ x \in Tracked(l)
      /\ n.ages = [l.ages EXCEPT ![k] = Trim(l.ages[k])]
  BY <1>1, <1>2, <1>4, <1>5, SeenTidy
<1>7. l.ages \in [Keys -> Seq(Ages)]
  BY <1>1 DEF Tidy, Limiters
<1>8. \A x \in Keys : n.ages[x] = IF x = k THEN Trim(l.ages[k]) ELSE l.ages[x]
  BY <1>6, <1>7
<1>9. ASSUME NEW x \in Keys PROVE Remembers(n.ages[x], r[x])
  BY <1>1, <1>3, <1>8
<1>10. ASSUME NEW x \in Keys, x \notin Tracked(n) PROVE n.ages[x] = <<>>
  BY <1>1, <1>6, <1>8, <1>10 DEF Tidy
<1>11. Tidy(n)
  BY <1>6, <1>10 DEF Tidy
<1>. QED  BY <1>1, <1>5, <1>9, <1>11 DEF Rows

\* Over budget or not, what Evict keeps is as it was, and the last key is kept.
LEMMA EvictIs ==
    ASSUME NEW l \in Limiters, Distinct(l.order), Len(l.order) # 0
    PROVE  /\ Evict(l) \in Limiters /\ Distinct(Evict(l).order) /\ Len(Evict(l).order) <= MaxKeys
           /\ l.order[Len(l.order)] \in Tracked(Evict(l))
           /\ \A x \in Tracked(Evict(l)) : x \in Tracked(l)
           /\ \A x \in Keys : Evict(l).ages[x] =
                  IF x \in Tracked(Evict(l)) THEN l.ages[x] ELSE <<>>
<1>1. MaxKeys \in Nat \ {0} /\ Len(l.order) \in Nat /\ l.order \in Seq(Keys)
  BY RateAssumption, KeysOf DEF Distinct
<1>2. PICK o : o = IF Len(l.order) > MaxKeys
                   THEN SubSeq(l.order, Len(l.order) - MaxKeys + 1, Len(l.order))
                   ELSE l.order
  OBVIOUS
<1>3. /\ Distinct(o) /\ Len(o) <= MaxKeys /\ l.order[Len(l.order)] \in ToSet(o)
      /\ \A x \in ToSet(o) : x \in ToSet(l.order)
  <2>1. CASE Len(l.order) > MaxKeys
    BY <1>1, <1>2, <2>1, LastKeysAre
  <2>2. CASE ~(Len(l.order) > MaxKeys)
    <3>1. o = l.order
      BY <1>2, <2>2
    <3>2. Len(o) <= MaxKeys /\ Len(o) \in 1 .. Len(o)
      BY <1>1, <2>2, <3>1
    <3>3. o[Len(o)] \in ToSet(o)
      BY <1>1, <3>1, <3>2, KeysOf
    <3>. QED  BY <3>1, <3>2, <3>3
  <2>. QED  BY <2>1, <2>2
<1>4. PICK a : a = [k \in Keys |-> IF k \in ToSet(o) THEN l.ages[k] ELSE <<>>]
  OBVIOUS
<1>5. l.ages \in [Keys -> Seq(Ages)] /\ <<>> \in Seq(Ages)
  BY DEF Limiters
<1>6. a \in [Keys -> Seq(Ages)] /\ \A x \in Keys : a[x] = IF x \in ToSet(o) THEN l.ages[x] ELSE <<>>
  BY <1>4, <1>5
<1>7. PICK n : n = Evict(l)
  OBVIOUS
<1>8. n = [order |-> o, ages |-> a]
  BY <1>2, <1>4, <1>7 DEF Evict
<1>9. n.order = o /\ n.ages = a /\ n \in Limiters
  <2>1. o \in Seq(Keys)
    BY <1>3 DEF Distinct
  <2>. QED  BY <1>6, <1>8, <2>1, LimiterIs
<1>. QED  BY <1>3, <1>6, <1>7, <1>9 DEF Tracked

\* What an admission does to the history.
Admitted(l, r, u) ==
    [k \in Keys |-> IF k \notin Tracked(l) THEN <<>> ELSE IF k = u THEN Append(r[k], 0) ELSE r[k]]

LEMMA HitRows ==
    ASSUME NEW l, NEW r, Rows(l, r), NEW u \in Keys, ~Refuses(l, u)
    PROVE  Rows(Hit(l, u), Admitted(Hit(l, u), r, u))
<1>1. Tidy(l) /\ r \in [Keys -> Seq(0 .. Window)] /\ \A x \in Keys : Remembers(l.ages[x], r[x])
  BY DEF Rows
<1>2. r[u] = Trim(l.ages[u]) /\ Remembers(Trim(l.ages[u]), r[u])
  BY <1>1, Remembered DEF Remembers
<1>3. Trim(l.ages[u]) \in Seq(Ages)
  BY <1>2 DEF Remembers
<1>4. Len(r[u]) < PerMinute
  <2>1. ~(Len(r[u]) >= PerMinute)
    BY <1>2 DEF Refuses, Full
  <2>2. Len(r[u]) \in Nat /\ PerMinute \in Nat
    BY <1>1, RateAssumption
  <2>. QED  BY <2>1, <2>2
<1>5. Remembers(Append(Trim(l.ages[u]), 0), Append(r[u], 0))
  BY <1>1, <1>4, Remembered
<1>6. PICK s : s = Seen(l, u)
  OBVIOUS
<1>7. /\ s \in Limiters /\ Distinct(s.order) /\ Len(s.order) # 0
      /\ s.order[Len(s.order)] = u
      /\ s.ages = [l.ages EXCEPT ![u] = Trim(l.ages[u])]
      /\ \A x \in Keys : x \in Tracked(s) <=> x = u \/ x \in Tracked(l)
  BY <1>1, <1>3, <1>6, SeenTidy
<1>8. l.ages \in [Keys -> Seq(Ages)]
  BY <1>1 DEF Tidy, Limiters
<1>9. PICK a : a = [s.ages EXCEPT ![u] = Append(s.ages[u], 0)]
  OBVIOUS
<1>10. \A x \in Keys : a[x] = IF x = u THEN Append(Trim(l.ages[u]), 0) ELSE l.ages[x]
  BY <1>7, <1>8, <1>9
<1>11. a \in [Keys -> Seq(Ages)]
  <2>1. Append(Trim(l.ages[u]), 0) \in Seq(Ages)
    BY <1>5 DEF Remembers
  <2>2. s.ages[u] = Trim(l.ages[u]) /\ s.ages \in [Keys -> Seq(Ages)]
    BY <1>3, <1>7, <1>8
  <2>. QED  BY <1>9, <2>1, <2>2
<1>12. PICK m : m = [s EXCEPT !.ages[u] = Append(@, 0)]
  OBVIOUS
<1>13. m = [order |-> s.order, ages |-> a]
  BY <1>7, <1>9, <1>12 DEF Limiters
<1>14. m \in Limiters /\ m.order = s.order /\ m.ages = a
  <2>1. s.order \in Seq(Keys)
    BY <1>7 DEF Distinct
  <2>. QED  BY <1>11, <1>13, <2>1, LimiterIs
<1>15. PICK n : n = Hit(l, u)
  OBVIOUS
<1>16. n = Evict(m)
  BY <1>6, <1>12, <1>15 DEF Hit
<1>17. /\ n \in Limiters /\ Distinct(n.order) /\ Len(n.order) <= MaxKeys
       /\ u \in Tracked(n)
       /\ \A x \in Keys : n.ages[x] = IF x \in Tracked(n) THEN m.ages[x] ELSE <<>>
  BY <1>7, <1>14, <1>16, EvictIs
<1>18. Tidy(n)
  BY <1>17 DEF Tidy
<1>19. PICK q : q = Admitted(n, r, u)
  OBVIOUS
<1>20. \A x \in Keys : q[x] = IF x \notin Tracked(n) THEN <<>>
                              ELSE IF x = u THEN Append(r[u], 0) ELSE r[x]
  BY <1>19 DEF Admitted
<1>21. ASSUME NEW x \in Keys PROVE Remembers(n.ages[x], q[x])
  <2>1. CASE x \notin Tracked(n)
    BY <1>17, <1>20, <2>1, NothingRemembered
  <2>2. CASE x \in Tracked(n) /\ x = u
    BY <1>5, <1>10, <1>14, <1>17, <1>20, <2>2
  <2>3. CASE x \in Tracked(n) /\ x # u
    BY <1>1, <1>10, <1>14, <1>17, <1>20, <2>3
  <2>. QED  BY <2>1, <2>2, <2>3
<1>22. q \in [Keys -> Seq(0 .. Window)]
  <2>1. \A x \in Keys : q[x] \in Seq(0 .. Window)
    BY <1>21, Remembered
  <2>. QED  BY <1>19, <2>1 DEF Admitted
<1>. QED  BY <1>15, <1>18, <1>19, <1>21, <1>22 DEF Rows

LEMMA TickRows ==
    ASSUME NEW l, NEW r, Rows(l, r)
    PROVE  Rows(Later(l), [k \in Keys |-> Within(Aged(r[k], 1), Window)])
<1>1. Tidy(l) /\ r \in [Keys -> Seq(0 .. Window)] /\ \A x \in Keys : Remembers(l.ages[x], r[x])
  BY DEF Rows
<1>2. l \in Limiters /\ l.order \in Seq(Keys)
  BY <1>1 DEF Tidy, Limiters
<1>3. ASSUME NEW k \in Keys PROVE Remembers(Aged(l.ages[k], 1), Trim(Aged(r[k], 1)))
  BY <1>1, Remembered
<1>4. PICK a : a = [k \in Keys |-> Aged(l.ages[k], 1)]
  OBVIOUS
<1>5. a \in [Keys -> Seq(Ages)]
  <2>1. \A k \in Keys : Aged(l.ages[k], 1) \in Seq(Ages)
    BY <1>3 DEF Remembers
  <2>. QED  BY <1>4, <2>1
<1>6. PICK n : n = Later(l)
  OBVIOUS
<1>7. n = [order |-> l.order, ages |-> a]
  BY <1>2, <1>4, <1>6 DEF Later, Limiters
<1>8. n \in Limiters /\ n.order = l.order /\ n.ages = a
  BY <1>2, <1>5, <1>7, LimiterIs
<1>9. PICK q : q = [k \in Keys |-> Within(Aged(r[k], 1), Window)]
  OBVIOUS
<1>10. ASSUME NEW x \in Keys PROVE Remembers(n.ages[x], q[x])
  <2>1. n.ages[x] = Aged(l.ages[x], 1) /\ q[x] = Trim(Aged(r[x], 1))
    BY <1>4, <1>8, <1>9 DEF Trim
  <2>. QED  BY <1>3, <2>1
<1>11. q \in [Keys -> Seq(0 .. Window)]
  <2>1. \A x \in Keys : q[x] \in Seq(0 .. Window)
    BY <1>10, Remembered
  <2>. QED  BY <1>9, <2>1
<1>12. ASSUME NEW x \in Keys, x \notin Tracked(n) PROVE n.ages[x] = <<>>
  <2>1. l.ages[x] = <<>>
    BY <1>1, <1>8, <1>12 DEF Tidy, Tracked
  <2>2. Aged(<<>>, 1) = <<>>
    BY DEF Aged
  <2>. QED  BY <1>4, <1>8, <2>1, <2>2
<1>13. Tidy(n)
  BY <1>1, <1>8, <1>12 DEF Tidy
<1>. QED  BY <1>6, <1>9, <1>10, <1>11, <1>13 DEF Rows

-----------------------------------------------------------------------------
(* The limiters of both surfaces, action by action.                        *)

RateInv ==
    /\ hits \in [Surfaces -> Limiters] /\ recent \in [Surfaces -> [Keys -> Seq(0 .. Window)]]
    /\ \A s \in Surfaces : Rows(hits[s], recent[s])

\* One surface moves.
LEMMA OneSurface ==
    ASSUME RateInv, NEW s \in Surfaces, NEW l, NEW r, Rows(l, r),
           hits' = [hits EXCEPT ![s] = l], recent' = [recent EXCEPT ![s] = r]
    PROVE  RateInv'
<1>1. l \in Limiters /\ r \in [Keys -> Seq(0 .. Window)]
  BY DEF Rows, Tidy
<1>2. ASSUME NEW x \in Surfaces PROVE Rows(hits'[x], recent'[x])
  BY DEF RateInv
<1>. QED  BY <1>1, <1>2 DEF RateInv

LEMMA InitRates == Init => RateInv
<1> SUFFICES ASSUME Init PROVE RateInv
  OBVIOUS
<1>1. PICK e : e = [k \in Keys |-> <<>>]
  OBVIOUS
<1>2. /\ hits = [s \in Surfaces |-> NoHits] /\ recent = [s \in Surfaces |-> e]
      /\ Rows(NoHits, e)
  BY <1>1, NoRows DEF Init
<1>3. NoHits \in Limiters /\ e \in [Keys -> Seq(0 .. Window)]
  BY <1>2 DEF Rows, Tidy
<1>. QED  BY <1>2, <1>3 DEF RateInv

LEMMA KnockRates ==
    ASSUME RateInv, NEW s \in Surfaces, NEW k \in Keys, Knock(s, k)
    PROVE  RateInv'
<1>1. Rows(hits[s], recent[s]) /\ Refuses(hits[s], k)
  BY DEF RateInv, Knock
<1>2. Rows(Seen(hits[s], k), recent[s])
  BY <1>1, KnockRows
<1>3. hits' = [hits EXCEPT ![s] = Seen(hits[s], k)]
  BY DEF Knock
<1>4. recent' = [recent EXCEPT ![s] = recent[s]]
  BY DEF RateInv, Knock
<1>. QED  BY <1>2, <1>3, <1>4, OneSurface

LEMMA AdmitRates ==
    ASSUME RateInv, NEW s \in Surfaces, NEW u \in Keys, Admit(s, u)
    PROVE  RateInv'
<1>1. Rows(hits[s], recent[s]) /\ ~Refuses(hits[s], u)
  BY DEF RateInv, Admit
<1>2. PICK l : l = Hit(hits[s], u)
  OBVIOUS
<1>3. PICK r : r = Admitted(l, recent[s], u)
  OBVIOUS
<1>4. Rows(l, r)
  BY <1>1, <1>2, <1>3, HitRows
<1>5. hits' = [hits EXCEPT ![s] = l] /\ hits'[s] = l
  BY <1>2 DEF RateInv, Admit
<1>6. recent' = [recent EXCEPT ![s] = r]
  BY <1>3, <1>5 DEF Admit, Admitted
<1>. QED  BY <1>4, <1>5, <1>6, OneSurface

LEMMA RestartRates == ASSUME Restart PROVE RateInv'
<1>1. PICK e : e = [k \in Keys |-> <<>>]
  OBVIOUS
<1>2. /\ hits' = [s \in Surfaces |-> NoHits] /\ recent' = [s \in Surfaces |-> e]
      /\ Rows(NoHits, e)
  BY <1>1, NoRows DEF Restart
<1>3. NoHits \in Limiters /\ e \in [Keys -> Seq(0 .. Window)]
  BY <1>2 DEF Rows, Tidy
<1>. QED  BY <1>2, <1>3 DEF RateInv

LEMMA TickRates == ASSUME RateInv, Tick PROVE RateInv'
<1> DEFINE q(s) == [k \in Keys |-> Within(Aged(recent[s][k], 1), Window)]
<1>1. hits' = [s \in Surfaces |-> Later(hits[s])] /\ recent' = [s \in Surfaces |-> q(s)]
  BY DEF Tick
<1>2. ASSUME NEW s \in Surfaces PROVE Rows(Later(hits[s]), q(s))
  BY TickRows DEF RateInv
<1> HIDE DEF q
<1>3. \A s \in Surfaces : Later(hits[s]) \in Limiters /\ q(s) \in [Keys -> Seq(0 .. Window)]
  BY <1>2 DEF Rows, Tidy
<1>. QED  BY <1>1, <1>2, <1>3 DEF RateInv

LEMMA QuietRates == ASSUME RateInv, UNCHANGED limits PROVE RateInv'
<1>1. hits' = hits /\ recent' = recent
  BY DEF limits
<1>. QED  BY <1>1 DEF RateInv

LEMMA NextRates == RateInv /\ [Next]_vars => RateInv'
<1> SUFFICES ASSUME RateInv, [Next]_vars PROVE RateInv'
  OBVIOUS
<1>1. CASE \E s \in Surfaces, k \in Keys : Knock(s, k) \/ TurnAway(s, k)
  BY <1>1, KnockRates, AdmitRates DEF TurnAway
<1>2. CASE \E s \in Surfaces, u \in Users, t \in TurnIds : Accept(t, s, u)
  <2>1. PICK s \in Surfaces, u \in Users : Admit(s, u)
    BY <1>2 DEF Accept
  <2>. QED  BY <2>1, AdmitRates, TurnsAssumption
<1>3. CASE \E t \in TurnIds : Progress(t)
  <2>1. PICK t \in TurnIds : Progress(t)
    BY <1>3
  <2>2. UNCHANGED limits
    BY <2>1 DEF Progress, Spent, Unpaid, Start, Drop, Close, Fail, CloseFailed, CloseRefunded
  <2>. QED  BY <2>2, QuietRates
<1>4. CASE Restart
  BY <1>4, RestartRates
<1>5. CASE Tick
  BY <1>5, TickRates
<1>6. CASE UNCHANGED vars
  BY <1>6, QuietRates DEF vars, limits
<1>. QED  BY <1>1, <1>2, <1>3, <1>4, <1>5, <1>6 DEF Next

-----------------------------------------------------------------------------
(* Waiting as long as Retry-After says.                                    *)

LEMMA LongEnough ==
    ASSUME NEW d \in Nat
    PROVE  /\ d \div Second + 1 \in Nat
           /\ Second * (d \div Second + 1) \in Nat /\ Second * (d \div Second + 1) > d
<1>1. Second \in Nat \ {0}
  BY RateAssumption
<1>. QED  BY <1>1

LEMMA FirstIs ==
    ASSUME NEW T, NEW w \in Seq(T), 1 \in 1 .. Len(w)
    PROVE  w[1] \in T /\ Head(w) = w[1]
<1>1. w # <<>>
  OBVIOUS
<1>. QED  BY <1>1

LEMMA WaitedOut ==
    ASSUME NEW w \in Seq(0 .. Window), Len(w) <= PerMinute, Full(w)
    PROVE  ~Full(Trim(Aged(w, Second * RetryAfter(w))))
<1>1. Window \in Nat /\ PerMinute \in Nat \ {0}
  BY RateAssumption
<1>2. Len(w) = PerMinute /\ DOMAIN w = 1 .. Len(w) /\ 1 \in 1 .. Len(w)
  BY <1>1 DEF Full
<1>3. w[1] \in 0 .. Window /\ Head(w) = w[1]
  BY <1>2, FirstIs
<1>4. PICK d \in Nat : d = Window - w[1]
  BY <1>1, <1>3
<1>5. PICK n : n = Second * RetryAfter(w)
  OBVIOUS
<1>6. n \in Nat /\ n > d
  BY <1>3, <1>4, <1>5, LongEnough DEF RetryAfter
<1>7. PICK z : z = Aged(w, n)
  OBVIOUS
<1>8. z = [i \in 1 .. Len(w) |-> IF w[i] + n > Window THEN Window + 1 ELSE w[i] + n]
  BY <1>2, <1>7 DEF Aged
<1>9. \A i \in 1 .. Len(w) : w[i] \in Nat /\ z[i] \in Nat
  BY <1>1, <1>6, <1>8
<1>10. z \in Seq(Nat) /\ Len(z) = Len(w)
  BY <1>1, <1>2, <1>8, <1>9
<1>11. z[1] > Window
  <2>1. w[1] + n > Window
    BY <1>1, <1>3, <1>4, <1>6
  <2>2. z[1] = Window + 1
    BY <1>2, <1>8, <2>1
  <2>. QED  BY <1>1, <2>2
<1>12. PICK m : Pops(z, Window, m)
  BY <1>10, TrimType
<1>13. m \in 0 .. PerMinute /\ m # 0
  <2>1. m \in 0 .. PerMinute
    BY <1>2, <1>10, <1>12 DEF Pops
  <2>2. CASE m = 0
    <3>1. 0 + 1 = 1 /\ 0 < Len(z)
      BY <1>2, <1>10
    <3>2. z[0 + 1] <= Window
      BY <1>12, <2>2, <3>1 DEF Pops
    <3>3. z[1] \in Nat /\ z[1] <= Window
      BY <1>2, <1>9, <3>1, <3>2
    <3>. QED  BY <1>1, <1>11, <3>3
  <2>. QED  BY <2>1, <2>2
<1>14. Len(Trim(z)) = PerMinute - m
  <2>1. Len(Trim(z)) = Len(z) - m
    BY <1>10, <1>12, TrimIs
  <2>. QED  BY <1>2, <1>10, <2>1
<1>15. ~Full(Trim(z))
  BY <1>1, <1>13, <1>14 DEF Full
<1>. QED  BY <1>5, <1>7, <1>15

(* A key is admitted no more than PerMinute times in any window of its     *)
(* length, the ends included, as long as the limiter remembers it, and a   *)
(* client that waits for Retry-After is let in: for every rate, window and *)
(* number of tracked keys.                                                 *)
THEOREM PaceHolds == Spec => []Pace
<1>1. RateInv => Pace
  <2> SUFFICES ASSUME RateInv, NEW s \in Surfaces, NEW u \in Keys
               PROVE  LET w == Trim(hits[s].ages[u]) IN
                          /\ Len(recent[s][u]) <= PerMinute
                          /\ Full(w) => ~Full(Trim(Aged(w, Second * RetryAfter(w))))
    BY DEF Pace
  <2>1. PICK w : w = Trim(hits[s].ages[u])
    OBVIOUS
  <2>2. Remembers(hits[s].ages[u], recent[s][u])
    BY DEF RateInv, Rows
  <2>3. w \in Seq(0 .. Window) /\ Len(w) <= PerMinute /\ w = recent[s][u]
    BY <2>1, <2>2, Remembered DEF Remembers
  <2>. QED  BY <2>1, <2>3, WaitedOut
<1>. QED  BY <1>1, InitRates, NextRates, PTL DEF Spec

-----------------------------------------------------------------------------
(* The types.                                                              *)

Capped == counts \in [Users -> 0 .. MaxConcurrent]

LEMMA NextCapped == SlotType /\ Capped /\ [Next]_vars => Capped'
<1> SUFFICES ASSUME SlotType, Capped, [Next]_vars PROVE Capped'
  OBVIOUS
<1>1. MaxConcurrent \in Nat \ {0}
  BY TurnsAssumption
<1>2. ASSUME NEW u \in Users, Acquire(u) PROVE Capped'
  <2>1. counts[u] + 1 \in 0 .. MaxConcurrent /\ counts' = [counts EXCEPT ![u] = counts[u] + 1]
    BY <1>1, <1>2 DEF Acquire, Capped
  <2>. QED  BY <2>1 DEF Capped
<1>3. ASSUME NEW u \in Users, Release(u) PROVE Capped'
  <2>1. PICK n : n = IF counts[u] = 0 THEN 0 ELSE counts[u] - 1
    OBVIOUS
  <2>2. n \in 0 .. MaxConcurrent /\ counts' = [counts EXCEPT ![u] = n]
    BY <1>1, <1>3, <2>1 DEF Release, Capped
  <2>. QED  BY <2>2 DEF Capped
<1>4. CASE UNCHANGED counts
  BY <1>4 DEF Capped
<1>5. CASE \E s \in Surfaces, k \in Keys : Knock(s, k) \/ TurnAway(s, k)
  BY <1>4, <1>5 DEF Knock, TurnAway
<1>6. CASE \E s \in Surfaces, u \in Users, t \in TurnIds : Accept(t, s, u)
  BY <1>2, <1>6 DEF Accept
<1>7. ASSUME NEW t \in TurnIds, Progress(t) PROVE Capped'
  <2>1. CASE Spent(t) \/ Start(t) \/ Drop(t) \/ Fail(t) \/ CloseRefunded(t)
    BY <1>4, <2>1 DEF Spent, Start, Drop, Fail, CloseRefunded
  <2>2. CASE Unpaid(t) \/ Close(t) \/ CloseFailed(t)
    <3>1. Release(turn[t].user) /\ turn[t].pc \in Holding
      BY <2>2, PcValues DEF Unpaid, Close, CloseFailed
    <3>. QED  BY <1>3, <3>1 DEF SlotType
  <2>. QED  BY <1>7, <2>1, <2>2 DEF Progress
<1>8. CASE Restart
  BY <1>1, <1>8 DEF Restart, Capped
<1>9. CASE Tick \/ UNCHANGED vars
  BY <1>4, <1>9 DEF Tick, vars
<1>. QED  BY <1>5, <1>6, <1>7, <1>8, <1>9 DEF Next

(* The limiters keep their bounds on every path: no more tracked keys than *)
(* MAX_TRACKED_KEYS, each once, no more entries of a key than its rate, no *)
(* more slots of a user than the cap.                                      *)
THEOREM TypeCorrect == Spec => []TypeOK
<1>1. Init => Capped
  BY TurnsAssumption DEF Init, Capped
<1>2. RateInv /\ SlotInv /\ MoneyType /\ Capped => TypeOK
  <2> SUFFICES ASSUME RateInv, SlotInv, MoneyType, Capped PROVE TypeOK
    OBVIOUS
  <2>1. ASSUME NEW s \in Surfaces
        PROVE  /\ Len(hits[s].order) <= MaxKeys /\ IsInjective(hits[s].order)
               /\ \A k \in Keys : Len(hits[s].ages[k]) <= PerMinute
    <3>1. Tidy(hits[s]) /\ \A k \in Keys : Remembers(hits[s].ages[k], recent[s][k])
      BY DEF RateInv, Rows
    <3>. QED  BY <3>1, DistinctIsInjective DEF Tidy, Remembers
  <2>. QED  BY <2>1 DEF TypeOK, RateInv, Capped, SlotInv, SlotType, MoneyType
<1>. QED  BY <1>1, <1>2, InitRates, NextRates, InitSlots, NextSlots, InitMoney, NextMoney,
             NextCapped, PTL DEF Spec, SlotInv

=============================================================================
