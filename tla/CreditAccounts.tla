---------------------------- MODULE CreditAccounts ----------------------------
(***************************************************************************)
(* What the credit ledger promises: every billing operation takes effect   *)
(* on the committed row in one indivisible step, as if there were neither  *)
(* transactions nor row locks, and a RevenueCat event takes effect once.   *)
(* CreditLedger, which has the transactions, implements this module.       *)
(***************************************************************************)
EXTENDS CreditPlans

CONSTANTS
    Users,       \* accounts
    None,        \* neither an account nor an event
    Events,      \* RevenueCat event ids
    EventOf,     \* the event an id names: kind, user, plan, amount
    Grants,      \* amounts of streak rewards and admin adjustments
    ClaimPairs   \* <<orphan, adopter>> pairs with a recorded adoption

SubscribeKind == "subscribe"   \* INITIAL_PURCHASE, RENEWAL, PRODUCT_CHANGE
RevokeKind == "revoke"         \* CANCELLATION, EXPIRATION, BILLING_ISSUE
PackKind == "pack"             \* NON_RENEWING_PURCHASE
IgnoredKind == "ignored"       \* any other type: recorded, acted on by nothing
Kinds == {SubscribeKind, RevokeKind, PackKind, IgnoredKind}

ASSUME UsersAssumption ==
    /\ None \notin Users \cup Events
    /\ EventOf \in [Events -> [kind : Kinds, user : Users, plan : Plans, amount : Nat]]
    /\ Grants \subseteq Int
    /\ ClaimPairs \subseteq Users \X Users
    /\ \A c \in ClaimPairs : c[1] # c[2]

VARIABLES
    row,         \* [Users -> Row]: the committed rows
    live,        \* the users whose row exists (a claim deletes the orphan's)
    alias,       \* account_adoption_merged audit rows: orphan -> adopter
    processed,   \* committed revenuecat_events rows
    now          \* the clock

accountVars == <<row, live, alias, processed, now>>

MaxHops == 5

\* _load_user: the user itself, or the account its claims lead to.
Survivor[hops \in 0..MaxHops] ==
    [u \in Users |-> IF u \in live THEN u
                     ELSE IF hops = 0 \/ alias[u] = None THEN None
                          ELSE Survivor[hops - 1][alias[u]]]

NewRow(trialEnds) ==
    [plan |-> "floor_pass", balance |-> 0, period |-> 0, tag |-> NoPlan,
     trialEnds |-> trialEnds, cooldown |-> 0]

\* An account an admin put on a trial, its allowance already granted.
TrialRow == Regranted([NewRow(TrialLength) EXCEPT !.plan = "trial_trader"], 0)

AccountsInit ==
    /\ now = 0
    /\ row \in [Users -> {NewRow(0), NewRow(TrialLength), TrialRow}]
    /\ live = Users
    /\ alias = [u \in Users |-> None]
    /\ processed = {}

AccountsTypeOK ==
    /\ row \in [Users -> Row]
    /\ live \subseteq Users
    /\ alias \in [Users -> Users \cup {None}]
    /\ processed \subseteq Events
    /\ now \in Clock
-----------------------------------------------------------------------------
Rewrite(u, r) == /\ u \in live
                 /\ row' = [row EXCEPT ![u] = r]
                 /\ UNCHANGED <<live, alias, now>>

Touch(u) == Rewrite(u, Ensured(row[u], now)) /\ UNCHANGED processed

Charge(u, turn) == Rewrite(u, Charged(turn, row[u], now)) /\ UNCHANGED processed

\* A reward, an adjustment, or the refund of a turn at the price it cost.
Credits == Grants \cup {ChatPrice} \cup {RoomPrice[p] : p \in Plans}

Credit(u, n) == Rewrite(u, Credited(row[u], n)) /\ UNCHANGED processed

\* What an event does to the row of the account it resolves to.  A pack
\* normally finds its window current; when the month turns between the check
\* and the lock it stacks on the row as it stands.  A revoke normally
\* re-grants at once; when the effective plan was seen not to change it only
\* lowers the stored plan; and when the base plan was seen it lowers nothing,
\* so a plan bought since stays and gets what it is due.
Outcomes(e, r) ==
    LET ev == EventOf[e]
    IN  CASE ev.kind = SubscribeKind -> {Subscribed(r, ev.plan, now)}
          [] ev.kind = PackKind -> {Credited(Ensured(r, now), ev.amount), Credited(r, ev.amount)}
          [] ev.kind = RevokeKind -> {Revoked(r, now), OnBasePlan(r), Ensured(r, now)}
          [] OTHER -> {}

Apply(e, u) ==
    /\ e \notin processed
    /\ processed' = processed \cup {e}
    /\ \E r \in Outcomes(e, row[u]) : Rewrite(u, r)

\* Recorded and nothing more: a type nobody acts on, or a revoke that found
\* the base plan already in place.
Ignore(e) ==
    /\ EventOf[e].kind \in {IgnoredKind, RevokeKind}
    /\ e \notin processed
    /\ processed' = processed \cup {e}
    /\ UNCHANGED <<row, live, alias, now>>

Merge(src, dst) ==
    /\ {src, dst} \subseteq live
    /\ src # dst
    /\ row' = [row EXCEPT ![dst] = Merged(row[src], row[dst], now)]
    /\ live' = live \ {src}
    /\ alias' = [alias EXCEPT ![src] = dst]
    /\ UNCHANGED <<processed, now>>

\* Writes of the plan and trial columns that do not look at the balance:
\* an admin's plan change, trial grant and trial revocation, and the first
\* claim of an account, which starts its trial.
PlanEdits(r) ==
    {[r EXCEPT !.plan = p] : p \in Plans} \cup
    {[r EXCEPT !.plan = "trial_trader", !.trialEnds = now + TrialLength],
     [r EXCEPT !.plan = "floor_pass", !.trialEnds = 0],
     [r EXCEPT !.trialEnds = now + TrialLength]}

EditPlan(u) == (\E r \in PlanEdits(row[u]) : Rewrite(u, r)) /\ UNCHANGED processed

Tick ==
    /\ now < MaxClock
    /\ now' = now + 1
    /\ UNCHANGED <<row, live, alias, processed>>

AccountsNext ==
    \/ \E u \in Users :
          \/ Touch(u)
          \/ \E turn \in Turns : Charge(u, turn)
          \/ \E n \in Credits : Credit(u, n)
          \/ \E e \in Events : Apply(e, u)
          \/ EditPlan(u)
    \/ \E e \in Events : Ignore(e)
    \/ \E c \in ClaimPairs : Merge(c[1], c[2])
    \/ Tick

AccountsSpec == AccountsInit /\ [][AccountsNext]_accountVars
=============================================================================
