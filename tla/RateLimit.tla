------------------------------ MODULE RateLimit ------------------------------
(***************************************************************************)
(* The sliding-window rate limiter of services/rate_limit.py: for every    *)
(* key the times of its admitted requests, the keys in the order in which  *)
(* they were last seen, and no more than MaxKeys of them.                  *)
(*                                                                         *)
(* Only differences between a stored time and now matter, so a stored time *)
(* is its age, in ticks; ages stop one tick after the window, where the    *)
(* next check drops them.  A tick is a fraction of a second, because       *)
(* Retry-After is given in whole seconds.                                  *)
(***************************************************************************)
EXTENDS Naturals, Sequences, SequencesExt

CONSTANTS
    Keys,
    PerMinute,      \* requests admitted within a window
    Window,         \* its length in ticks
    Second,         \* ticks in a second
    MaxKeys         \* MAX_TRACKED_KEYS

ASSUME RateAssumption ==
    /\ PerMinute \in Nat \ {0} /\ MaxKeys \in Nat \ {0}
    /\ Window \in Nat \ {0} /\ Second \in Nat \ {0}

Ages == 0 .. Window + 1

Aged(w, ticks) ==
    [i \in DOMAIN w |-> IF w[i] + ticks > Window THEN Window + 1 ELSE w[i] + ticks]

NoHits == [order |-> <<>>, ages |-> [k \in Keys |-> <<>>]]
Limiters == [order : Seq(Keys), ages : [Keys -> Seq(Ages)]]

Tracked(l) == ToSet(l.order)

(* How many entries the loop pops off the left: the first one that is not  *)
(* older than the limit ends it.                                           *)
Popped(w, limit) ==
    CHOOSE n \in 0 .. Len(w) : /\ \A i \in 1 .. n : w[i] > limit
                               /\ n < Len(w) => w[n + 1] <= limit

Within(w, limit) == SubSeq(w, Popped(w, limit) + 1, Len(w))

TrimTight(w) == Within(w, Window - 1)                             \* mutant

(* An entry that is exactly as old as the window stays.                    *)
Trim(w) == Within(w, Window)

Full(w) == Len(w) >= PerMinute

(* The Retry-After header, in seconds.                                     *)
RetryAfter(w) == (Window - Head(w)) \div Second + 1

Refuses(l, k) == Full(Trim(l.ages[k]))

(* The keys without k.                                                     *)
Without(order, k) ==
    IF k \in ToSet(order) THEN RemoveAt(order, CHOOSE i \in DOMAIN order : order[i] = k)
                          ELSE order

Seen(l, k) ==
    [l EXCEPT !.order = Append(Without(@, k), k),
              !.ages[k] = Trim(@)]

EvictNothing(l) == l                                              \* mutant

(* Over budget, the keys that were not seen for longest are forgotten.     *)
Evict(l) ==
    LET order == IF Len(l.order) > MaxKeys
                 THEN SubSeq(l.order, Len(l.order) - MaxKeys + 1, Len(l.order))
                 ELSE l.order
    IN  [order |-> order,
         ages |-> [k \in Keys |-> IF k \in ToSet(order) THEN l.ages[k] ELSE <<>>]]

Hit(l, k) == LET seen == Seen(l, k) IN Evict([seen EXCEPT !.ages[k] = Append(@, 0)])

Later(l) == [l EXCEPT !.ages = [k \in Keys |-> Aged(l.ages[k], 1)]]
=============================================================================
