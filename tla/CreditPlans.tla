----------------------------- MODULE CreditPlans -----------------------------
(***************************************************************************)
(* The billing fields of a `users` row and the pure rules that rewrite     *)
(* them: entitlement of a plan under a trial, the monthly allowance, the   *)
(* price of a turn, a subscription grant and the carry of an account       *)
(* merge.  credit_service.py and entitlements.py compute each of them from *)
(* one row (a merge: two) and the clock, and so do the operators here.     *)
(* The modules that use them decide on WHICH row: a committed one, or the  *)
(* copy a transaction has read.                                            *)
(***************************************************************************)
EXTENDS Integers

CONSTANTS
    Allowance,    \* credits a plan is granted each month
    RoomPrice,    \* price of a Room, by effective plan
    ChatPrice,    \* price of a 1-on-1 or a Brief turn
    Winzip,       \* GTM_FUNNEL = "winzip": the soft wall is armed
    WinzipWait,   \* length of the soft wall's cooldown, in clock ticks
    TrialLength,  \* length of a trial, in clock ticks
    MaxClock,     \* bound: the last tick
    MonthOf       \* the calendar month, numbered from 1, of a tick

Plans == {"floor_pass", "trial_trader", "trader", "floor_manager"}
NoPlan == "none"        \* credits_plan_at_grant IS NULL
Clock == 0..MaxClock

ASSUME PricesAreNumbers ==
    /\ Allowance \in [Plans -> Nat]
    /\ RoomPrice \in [Plans -> Nat]
    /\ ChatPrice \in Nat
    /\ WinzipWait \in Nat
    /\ TrialLength \in Nat
    /\ Winzip \in BOOLEAN
ASSUME ClockAssumption ==
    /\ MaxClock \in Nat
    /\ MonthOf \in [Clock -> Nat \ {0}]

\* period 0 is a NULL credits_period_start, trialEnds 0 a NULL
\* trial_expires_at, cooldown 0 a NULL room_cooldown_until.
Row == [plan : Plans, balance : Nat, period : Nat,
        tag : Plans \cup {NoPlan}, trialEnds : Nat, cooldown : Nat]

Rank == [p \in Plans |-> CASE p = "floor_pass"   -> 0
                           [] p = "trial_trader" -> 1
                           [] p = "trader"       -> 2
                           [] OTHER              -> 3]

\* An active trial lifts a lesser plan to trial_trader; an expired one
\* leaves a stored trial_trader on the base plan.
EffectivePlan(r, now) ==
    IF r.trialEnds > now
    THEN IF Rank[r.plan] < Rank["trial_trader"] THEN "trial_trader" ELSE r.plan
    ELSE IF r.plan = "trial_trader" THEN "floor_pass" ELSE r.plan

Rolled(r, now) == r.period < MonthOf[now]
Due(r, now) == Rolled(r, now) \/ r.tag # EffectivePlan(r, now)

Regranted(r, now) ==
    [r EXCEPT !.balance = Allowance[EffectivePlan(r, now)],
              !.period = MonthOf[now],
              !.tag = EffectivePlan(r, now)]

Ensured(r, now) == IF Due(r, now) THEN Regranted(r, now) ELSE r
-----------------------------------------------------------------------------
Turns == {"room", "chat"}

Price(turn, r, now) ==
    IF turn = "room" THEN RoomPrice[EffectivePlan(r, now)] ELSE ChatPrice

SoftWalled(turn, r, now) ==
    Winzip /\ turn = "room" /\ EffectivePlan(r, now) = "floor_pass"

CanPay(turn, r, now) ==
    LET e == Ensured(r, now)
    IN  /\ ~(SoftWalled(turn, e, now) /\ e.cooldown > now)
        /\ e.balance >= Price(turn, e, now)

\* The row after spend(): debited, topped up to one Room behind a cooldown
\* (the winzip soft wall), or only re-granted (402, the hard wall).
Charged(turn, r, now) ==
    LET e == Ensured(r, now)
        price == Price(turn, e, now)
    IN  IF CanPay(turn, r, now)
        THEN [e EXCEPT !.balance = e.balance - price]
        ELSE IF SoftWalled(turn, e, now) /\ e.cooldown <= now
             THEN [e EXCEPT !.balance = price, !.cooldown = now + WinzipWait]
             ELSE e

Clamp(n) == IF n < 0 THEN 0 ELSE n

\* A refund, a streak reward or an admin adjustment (clamped at zero).
Credited(r, n) == [r EXCEPT !.balance = Clamp(r.balance + n)]

\* INITIAL_PURCHASE / RENEWAL / PRODUCT_CHANGE: a fresh allowance only in a
\* new month or when the tier grants more than this month already did.
Subscribed(r, plan, now) ==
    LET planned == [r EXCEPT !.plan = plan]
        eff == EffectivePlan(planned, now)
        already == IF r.tag = NoPlan THEN Allowance["floor_pass"] ELSE Allowance[r.tag]
        granted == Rolled(r, now) \/ Allowance[eff] > already
    IN  [planned EXCEPT !.balance = IF granted THEN Allowance[eff] ELSE r.balance,
                        !.period = MonthOf[now],
                        !.tag = eff]

OnBasePlan(r) == [r EXCEPT !.plan = "floor_pass"]
Revoked(r, now) == Ensured(OnBasePlan(r), now)

\* An account claim: the higher plan wins, the credits add up, and the
\* window is stamped with the current month.
Merged(src, dst, now) ==
    LET plan == IF Rank[src.plan] > Rank[dst.plan] THEN src.plan ELSE dst.plan
        carried == [dst EXCEPT !.plan = plan, !.balance = src.balance + dst.balance]
    IN  [carried EXCEPT !.period = MonthOf[now], !.tag = EffectivePlan(carried, now)]
=============================================================================
