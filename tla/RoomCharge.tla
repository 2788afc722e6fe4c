----------------------------- MODULE RoomCharge -----------------------------
(***************************************************************************)
(* What a Room promises about money, whatever crashes, restarts, retries   *)
(* and refunds happen underneath: a run is charged once; the charge is     *)
(* either earned by a verdict or given back, never both, and what is given *)
(* back is exactly what was taken, once.                                   *)
(***************************************************************************)
EXTENDS Naturals

CONSTANTS Runs, Prices

VARIABLES
    taken,   \* credits charged for a run, 0 before the charge
    back,    \* credits given back for it
    earned   \* runs whose verdict made the charge final

vars == <<taken, back, earned>>

Init ==
    /\ taken = [r \in Runs |-> 0]
    /\ back = [r \in Runs |-> 0]
    /\ earned = {}

\* A run that is charged and neither earned nor given back.
Held(r) == taken[r] > 0 /\ back[r] = 0 /\ r \notin earned

Charge(r) ==
    /\ taken[r] = 0
    /\ \E price \in Prices : taken' = [taken EXCEPT ![r] = price]
    /\ UNCHANGED <<back, earned>>

GiveBack(r) ==
    /\ Held(r)
    /\ back' = [back EXCEPT ![r] = taken[r]]
    /\ UNCHANGED <<taken, earned>>

Earn(r) ==
    /\ Held(r)
    /\ earned' = earned \cup {r}
    /\ UNCHANGED <<taken, back>>

Next == \E r \in Runs : Charge(r) \/ GiveBack(r) \/ Earn(r)

Spec == Init /\ [][Next]_vars
=============================================================================
