---------------------------- MODULE AccountMerge ----------------------------
(***************************************************************************)
(* The claim of a guest account by a signed-in user, as far as the games   *)
(* go: MergeService.execute gives the guest's runs, queued orders, career  *)
(* rows and duels to the user, a table at a time, in one transaction that  *)
(* sees at each statement what the others have committed by then.  Around  *)
(* it run those who write the same rows: requests that were authenticated  *)
(* before, the pairing of duels, and the pass that scores a field with the *)
(* owners it has read.                                                     *)
(*                                                                         *)
(* A row is a table and a run: a run has at most one row in each.  What a  *)
(* row says beside the account it names is left out, and so are the tables *)
(* of the merge that no other part of this project writes.                 *)
(***************************************************************************)
EXTENDS Integers, Sequences, TLC

CONSTANTS
    Guest, User,    \* the two accounts of the claim
    Rivals,         \* other players
    Fields,
    Cadence,        \* [Fields -> cadences]: a player holds one live run in each
    Starts,         \* [Fields -> Nat]: their order within the cadence
    Period,         \* [Fields -> periods]: an account has one stipend in each
    Runs,           \* the pairs <<player, field>> that may be entered
    Eligible,       \* the runs with enough trades for the stipend
    Requests,       \* bound: the <<player, "forfeit" or "queue", run>> asked for
    MaxMoves,       \* bound: requests on a run, attempts to claim, transactions lost
    None

Players == {Guest, User} \cup Rivals
Field(r) == r[2]
Reasons == {"run_close", "finish_stipend", "duel_result", "forfeit_debit"}
Tables == {"entry", "order", "side_a", "side_b", "winner"} \cup Reasons
Rows == Tables \X Runs

ASSUME MergeAssumption ==
    /\ Guest # User /\ {Guest, User} \cap Rivals = {} /\ None \notin Players \cup Runs
    /\ Runs \subseteq Players \X Fields /\ Eligible \subseteq Runs
    /\ Requests \subseteq Players \X {"forfeit", "queue"} \X Runs
    /\ MaxMoves \in Nat

VARIABLES
    stage,      \* where the clock has each field
    closed,     \* the fields that are scored
    state,      \* game_entries.state of each run
    owner,      \* per table and run, the account the row names, None without a row
    rival,      \* the run on side b of the duel of a run
    settled,    \* the duels that are over, by the run on side a
    request,    \* a player's request between its check and its write
    pairing,    \* the duel that is about to be inserted
    pass,       \* the scoring pass over one field
    claim,      \* the merge's transaction
    late,       \* history: rows that came to name the guest behind the merge
    moves

vars == <<stage, closed, state, owner, rival, settled, request, pairing, pass, claim,
          late, moves>>

NoPass == [field |-> None, todo |-> {}, at |-> None, scored |-> <<>>, held |-> {},
           rows |-> {}, duels |-> None, judged |-> <<>>, took |-> {}]
NoClaim == [pc |-> "none", did |-> 0, skip |-> {}, claimed |-> {}, moved |-> {},
            dropped |-> {}]

Init ==
    /\ stage = [f \in Fields |-> "announced"]
    /\ closed = {}
    /\ state = [r \in Runs |-> "none"]
    /\ owner = [t \in Tables |-> [r \in Runs |-> None]]
    /\ rival = [r \in Runs |-> None]
    /\ settled = {}
    /\ request = [p \in Players |-> None]
    /\ pairing = None
    /\ pass = NoPass
    /\ claim = NoClaim
    /\ late = {}
    /\ moves = 0

-----------------------------------------------------------------------------
(* Rows and who holds them *)

StatementsSwapped == <<"duels", "entries", "orders", "career">>   \* mutant
\* The statements of the merge on these tables, in order.
Statements == <<"entries", "orders", "career", "duels">>
CoversSides(s) == CASE s = "entries" -> {"entry"}              \* mutant
                    [] s = "orders" -> {"order"}
                    [] s = "career" -> Reasons
                    [] s = "duels" -> {"side_a", "side_b"}
Covers(s) == CASE s = "entries" -> {"entry"}
               [] s = "orders" -> {"order"}
               [] s = "career" -> Reasons
               [] s = "duels" -> {"side_a", "side_b", "winner"}

\* The tables the merge is done with: it does not look at them again.
Passed == UNION {Covers(Statements[i]) : i \in 1..claim.did}

Owned(t, p) == {r \in Runs : owner[t][r] = p}

\* Rows are written: table, run and account.  What names the guest now is not
\* seen by a merge that has passed the table.
Put(rows) ==
    /\ owner' = [t \in Tables |-> [r \in Runs |->
                    IF \E p \in Players : <<t, r, p>> \in rows
                    THEN CHOOSE p \in Players : <<t, r, p>> \in rows ELSE owner[t][r]]]
    /\ late' = late \cup {k \in Passed \X Runs : <<k[1], k[2], Guest>> \in rows}

\* A map with one more entry.
With(map, key, value) ==
    [k \in DOMAIN map \cup {key} |-> IF k = key THEN value ELSE map[k]]

\* A row written by an open transaction is held until that ends.
HeldByClaim(t, r) == <<t, r>> \in claim.moved \cup claim.dropped
HeldByPass(r) == r \in pass.held

\* post_career_event: a run has one row for a reason.
Posted(reason, r, p) == IF owner[reason][r] = None THEN {<<reason, r, p>>} ELSE {}
StipendsOf(p) == {Period[Field(r)] : r \in Owned("finish_stipend", p)}

-----------------------------------------------------------------------------
(* The clock, the requests and the pairing *)

\* The fields of a cadence accept entries in turn.
PassTime(f) ==
    /\ stage[f] # "over"
    /\ stage[f] = "announced" =>
          \A g \in Fields : Cadence[g] = Cadence[f] /\ Starts[g] < Starts[f]
                             => stage[g] \in {"locked", "over"}
    /\ stage' = [stage EXCEPT ![f] = CASE @ = "announced" -> "open"
                                       [] @ = "open" -> "locked"
                                       [] @ = "locked" -> "over"]
    /\ UNCHANGED <<closed, state, owner, rival, settled, request, pairing, pass, claim,
                   late, moves>>

Move == moves < MaxMoves /\ moves' = moves + 1

\* The account is the one the request came with; a deleted one sends none.
MayAsk(p) == request[p] = None /\ (p = Guest => claim.pc # "done")

\* enter_field: the field accepts entries and the account has no live run.
AskEntry(r) ==
    LET p == r[1] IN
    /\ MayAsk(p) /\ state[r] = "none" /\ stage[Field(r)] = "open"
    /\ \A d \in Owned("entry", p) : Cadence[Field(d)] = Cadence[Field(r)] => state[d] # "live"
    /\ request' = [request EXCEPT ![p] = <<"enter", r>>]
    /\ UNCHANGED <<stage, closed, state, owner, rival, settled, pairing, pass, claim,
                   late, moves>>

\* commit_restart, submit_trade: the account's own run, still live.
Ask(p, what, r) ==
    /\ MayAsk(p) /\ owner["entry"][r] = p /\ state[r] = "live"
    /\ what = "queue" => owner["order"][r] = None
    /\ request' = [request EXCEPT ![p] = <<what, r>>]
    /\ Move
    /\ UNCHANGED <<stage, closed, state, owner, rival, settled, pairing, pass, claim,
                   late>>

\* An insert waits for the transaction that gives the user a run in this field,
\* and is refused when the account has one.
Enter(p) ==
    /\ request[p] # None /\ request[p][1] = "enter"
    /\ LET r == request[p][2] IN
          /\ p = User => \A d \in Runs : <<"entry", d>> \in claim.moved => Field(d) # Field(r)
          /\ IF \E d \in Owned("entry", p) : Field(d) = Field(r)
             THEN UNCHANGED <<state, owner, late>>
             ELSE /\ state' = [state EXCEPT ![r] = "live"]
                  /\ Put({<<"entry", r, p>>})
    /\ request' = [request EXCEPT ![p] = None]
    /\ UNCHANGED <<stage, closed, rival, settled, pairing, pass, claim, moves>>

\* The market is closed: the order waits for the open.
Queue(p) ==
    /\ request[p] # None /\ request[p][1] = "queue"
    /\ Put({<<"order", request[p][2], p>>})
    /\ request' = [request EXCEPT ![p] = None]
    /\ UNCHANGED <<stage, closed, state, rival, settled, pairing, pass, claim, moves>>

\* The forfeit and its debit; a run that was deleted meanwhile fails the request.
Forfeit(p) ==
    /\ request[p] # None /\ request[p][1] = "forfeit"
    /\ LET r == request[p][2] IN
          /\ ~HeldByClaim("entry", r) /\ ~HeldByPass(r)
          /\ IF state[r] = "dropped"
             THEN UNCHANGED <<state, owner, late>>
             ELSE /\ state' = [state EXCEPT ![r] = "forfeit"]
                  /\ Put(Posted("forfeit_debit", r, p))
    /\ request' = [request EXCEPT ![p] = None]
    /\ UNCHANGED <<stage, closed, rival, settled, pairing, pass, claim, moves>>

InADuel == {r \in Runs : rival[r] # None} \cup {rival[r] : r \in Runs}

\* pair_field reads the runs with their accounts, which must exist, then inserts
\* the duel.
ReadPair(a, b) ==
    /\ pairing = None
    /\ claim.pc = "done" => Guest \notin {owner["entry"][a], owner["entry"][b]}
    /\ a # b /\ Field(a) = Field(b) /\ stage[Field(a)] = "locked"
    /\ state[a] = "live" /\ state[b] = "live" /\ {a, b} \cap InADuel = {}
    /\ pairing' = [a |-> a, b |-> b, side_a |-> owner["entry"][a], side_b |-> owner["entry"][b]]
    /\ UNCHANGED <<stage, closed, state, owner, rival, settled, request, pass, claim,
                   late, moves>>

InsertDuel ==
    /\ pairing # None
    /\ LET a == pairing.a IN
          /\ rival' = [rival EXCEPT ![a] = pairing.b]
          /\ Put({<<"side_a", a, pairing.side_a>>, <<"side_b", a, pairing.side_b>>})
    /\ pairing' = None
    /\ UNCHANGED <<stage, closed, state, settled, request, pass, claim, moves>>

-----------------------------------------------------------------------------
(* The scoring pass: one transaction, an entry at a time, then the duels.     *)
(* What it has scored is written with the next flush.                        *)

BeginPass(f) ==
    /\ pass.field = None /\ stage[f] = "over" /\ f \notin closed
    /\ pass' = [NoPass EXCEPT !.field = f,
                              !.todo = {r \in Runs : Field(r) = f /\ state[r] = "live"}]
    /\ UNCHANGED <<stage, closed, state, owner, rival, settled, request, pairing, claim,
                   late, moves>>

\* The entry is read again, with its account, if it can still be scored.
ReadEntry(r) ==
    /\ r \in pass.todo /\ pass.at = None
    /\ \E result \in {"finished", "void"} :
          pass' = [pass EXCEPT !.todo = @ \ {r},
                               !.at = IF state[r] # "live" THEN None
                                      ELSE [run |-> r, owner |-> owner["entry"][r],
                                            result |-> result]]
    /\ UNCHANGED <<stage, closed, state, owner, rival, settled, request, pairing, claim,
                   late, moves>>

\* A void run closes at nothing but may earn the stipend of its period: none if
\* the account has one; the insert waits for the transaction that is giving it one.
PostsFor(r, p, result) ==
    (IF result = "void" THEN {} ELSE Posted("run_close", r, p))
        \cup (IF r \notin Eligible \/ Period[Field(r)] \in StipendsOf(p) THEN {}
              ELSE Posted("finish_stipend", r, p))
Posts == PostsFor(pass.at.run, pass.at.owner, pass.at.result)
AwaitsStipend(r, p) ==
    /\ p = User /\ r \in Eligible /\ Period[Field(r)] \notin StipendsOf(p)
    /\ \E d \in Runs : /\ <<"finish_stipend", d>> \in claim.moved
                       /\ Period[Field(d)] = Period[Field(r)]

\* _apply_score: what posts to the ledger flushes first; a run that posts
\* nothing is left to a later flush.
Scored == pass.at # None /\ pass.at.run \in DOMAIN pass.scored
ScoreEntry ==
    /\ pass.at # None /\ ~Scored
    /\ pass' = [pass EXCEPT !.scored = With(@, pass.at.run, pass.at.result),
                            !.at = IF Posts = {} THEN None ELSE @]
    /\ UNCHANGED <<stage, closed, state, owner, rival, settled, request, pairing, claim,
                   late, moves>>

\* The post, once its run is written, to the account that was read.
PostEntry ==
    /\ Scored /\ HeldByPass(pass.at.run) /\ ~AwaitsStipend(pass.at.run, pass.at.owner)
    /\ pass' = [pass EXCEPT !.at = None, !.rows = @ \cup Posts]
    /\ UNCHANGED <<stage, closed, state, owner, rival, settled, request, pairing, claim,
                   late, moves>>

\* settle_field_duels reads the live duels of the field, with their accounts.
ReadDuels ==
    /\ pass.field # None /\ pass.todo = {} /\ pass.at = None /\ pass.duels = None
    /\ pass' = [pass EXCEPT !.duels =
                   [a \in {r \in Runs \ settled : rival[r] # None /\ Field(r) = pass.field} |->
                       [a |-> owner["side_a"][a], b |-> owner["side_b"][a]]]]
    /\ UNCHANGED <<stage, closed, state, owner, rival, settled, request, pairing, claim,
                   late, moves>>

Outcome(r) == IF r \in DOMAIN pass.scored THEN pass.scored[r] ELSE state[r]

\* No winner when a side has no result or both have the same.
Winners(a) ==
    {"none"} \cup (IF Outcome(a) = "finished" /\ Outcome(rival[a]) = "finished"
                   THEN {"a", "b"} ELSE {})
\* The winner and the points go to the accounts that were read.
DuelRows(a) ==
    IF pass.judged[a] = "none" THEN {}
    ELSE {<<"winner", a, pass.duels[a][pass.judged[a]]>>}
            \cup Posted("duel_result", a, pass.duels[a].a)
            \cup Posted("duel_result", rival[a], pass.duels[a].b)

\* What is scored or judged and not written.  A flush is due when a duel posts
\* its points, and at the commit; it writes the duels, then the runs.
Unwritten == DOMAIN pass.scored \ pass.held
Judged == pass.duels # None /\ DOMAIN pass.judged = DOMAIN pass.duels
DuelsDue == Judged \/ \E a \in DOMAIN pass.judged \ pass.took : pass.judged[a] # "none"
RunsDue == Scored \/ /\ pass.duels # None /\ pass.took = DOMAIN pass.judged
                     /\ pass.took # {} \/ Judged

\* settle_duel, a duel after the other.
JudgeDuel(a) ==
    /\ pass.duels # None /\ a \in DOMAIN pass.duels \ DOMAIN pass.judged
    /\ ~DuelsDue /\ (pass.took = {} \/ Unwritten = {})
    /\ \E won \in Winners(a) : pass' = [pass EXCEPT !.judged = With(@, a, won)]
    /\ UNCHANGED <<stage, closed, state, owner, rival, settled, request, pairing, claim,
                   late, moves>>

\* A duel, a run or a stipend is in the hands of the merge.
AwaitsDuel ==
    DuelsDue /\ \E a \in DOMAIN pass.judged \ pass.took, t \in Covers("duels") : HeldByClaim(t, a)
AwaitsRun == RunsDue /\ \E r \in Unwritten : HeldByClaim("entry", r)
AwaitsClaim ==
    \/ AwaitsDuel \/ AwaitsRun
    \/ /\ Scored /\ HeldByPass(pass.at.run)
       /\ AwaitsStipend(pass.at.run, pass.at.owner)

WriteDuels ==
    /\ DuelsDue /\ DOMAIN pass.judged \ pass.took # {} /\ ~AwaitsDuel
    /\ pass' = [pass EXCEPT !.took = DOMAIN pass.judged]
    /\ UNCHANGED <<stage, closed, state, owner, rival, settled, request, pairing, claim,
                   late, moves>>

\* An entry deleted meanwhile fails the pass.
WriteRuns ==
    /\ RunsDue /\ Unwritten # {} /\ ~AwaitsRun
    /\ pass' = IF \E r \in Unwritten : state[r] = "dropped" THEN NoPass
               ELSE [pass EXCEPT !.held = DOMAIN pass.scored]
    /\ UNCHANGED <<stage, closed, state, owner, rival, settled, request, pairing, claim,
                   late, moves>>

\* All is written and the pass commits.
ClosePass ==
    /\ Judged /\ pass.took = DOMAIN pass.duels /\ Unwritten = {}
    /\ Put(pass.rows \cup UNION {DuelRows(a) : a \in DOMAIN pass.duels})
    /\ state' = [r \in Runs |-> Outcome(r)]
    /\ settled' = settled \cup DOMAIN pass.duels
    /\ closed' = closed \cup {pass.field}
    /\ pass' = NoPass
    /\ UNCHANGED <<stage, rival, request, pairing, claim, moves>>

LosePass ==
    /\ pass.field # None /\ Move
    /\ pass' = NoPass
    /\ UNCHANGED <<stage, closed, state, owner, rival, settled, request, pairing, claim,
                   late>>

-----------------------------------------------------------------------------
(* MergeService.execute *)

Open == claim.pc \in {"open", "career"}

\* A statement of the merge on the rows that name the guest as it sees them.
Turn(s) == claim.pc = "open" /\ claim.did < Len(Statements) /\ Statements[claim.did + 1] = s
Done(moved, dropped) ==
    [claim EXCEPT !.pc = "open", !.did = @ + 1, !.moved = @ \cup moved,
                  !.dropped = @ \cup dropped]
Failed == NoClaim
OfGuest(tables) == {k \in tables \X Runs : owner[k[1]][k[2]] = Guest}

\* A stipend of a period the user was seen to have one for is not moved.
ConflictingAll(k) == k[1] = "finish_stipend"                     \* mutant
Conflicting(k) == k[1] = "finish_stipend" /\ Period[Field(k[2])] \in claim.claimed
OnlyStipends == {k \in OfGuest({"finish_stipend"}) : ~Conflicting(k)}   \* mutant
Moving == {k \in OfGuest(Reasons) : ~Conflicting(k)}

PeriodsOf(rows) == {Period[Field(k[2])] : k \in {x \in rows : x[1] = "finish_stipend"}}

\* An entry, a duel or a stipend is in the hands of the pass.
AwaitsPass ==
    \/ Turn("entries") /\ \E r \in Owned("entry", Guest) : HeldByPass(r)
    \/ Turn("duels") /\ \E k \in OfGuest(Covers("duels")) : k[2] \in pass.took
    \/ /\ claim.pc = "career"
       /\ PeriodsOf(Moving) \cap PeriodsOf({x \in pass.rows : x[3] = User}) # {}

\* The fields of the user's runs are read before the guest's runs are moved.
BeginClaim ==
    /\ claim.pc = "none"
    /\ claim' = [NoClaim EXCEPT !.pc = "open", !.skip = {Field(r) : r \in Owned("entry", User)}]
    /\ Move
    /\ UNCHANGED <<stage, closed, state, owner, rival, settled, request, pairing, pass,
                   late>>

\* _rekey_skipping_conflicts: a run in a field of the user's is deleted, which
\* the foreign key of its career rows refuses; one in a field the user entered
\* since fails on the unique constraint.
MoveEntries ==
    LET mine == Owned("entry", Guest)
        kept == {r \in mine : Field(r) \notin claim.skip}
    IN  /\ Turn("entries") /\ ~AwaitsPass
        /\ claim' = IF \E r \in kept, d \in Owned("entry", User) : Field(d) = Field(r)
                    THEN Failed
                    ELSE IF \E r \in mine \ kept, t \in Reasons : owner[t][r] # None
                    THEN [NoClaim EXCEPT !.pc = "refused"]
                    ELSE Done({"entry"} \X kept, {"entry"} \X (mine \ kept))
        /\ UNCHANGED <<stage, closed, state, owner, rival, settled, request, pairing, pass,
                       late, moves>>

\* _rekey_all
MoveOrders ==
    /\ Turn("orders")
    /\ claim' = Done(OfGuest({"order"}), {})
    /\ UNCHANGED <<stage, closed, state, owner, rival, settled, request, pairing, pass,
                   late, moves>>

\* _rekey_career_events: the periods the user has a stipend for are read, the
\* guest's stipends of these are deleted and the rest is moved.
ReadClaimed ==
    /\ Turn("career")
    /\ claim' = [claim EXCEPT !.pc = "career", !.claimed = StipendsOf(User)]
    /\ UNCHANGED <<stage, closed, state, owner, rival, settled, request, pairing, pass,
                   late, moves>>

\* The update waits for a stipend the pass is giving the user in a period, and
\* fails on one it gave since.
MoveCareer ==
    /\ claim.pc = "career" /\ ~AwaitsPass
    /\ claim' = IF PeriodsOf(Moving) \cap StipendsOf(User) # {} THEN Failed
                ELSE Done(Moving, {k \in OfGuest(Reasons) : Conflicting(k)})
    /\ UNCHANGED <<stage, closed, state, owner, rival, settled, request, pairing, pass,
                   late, moves>>

\* _rekey_game_duels: both sides, and the winner.
MoveDuels ==
    /\ Turn("duels") /\ ~AwaitsPass
    /\ claim' = Done(OfGuest(Covers("duels")), {})
    /\ UNCHANGED <<stage, closed, state, owner, rival, settled, request, pairing, pass,
                   late, moves>>

\* The guest is deleted and the transaction commits.
Finish ==
    /\ claim.pc = "open" /\ claim.did = Len(Statements)
    /\ claim' = [NoClaim EXCEPT !.pc = "done", !.did = claim.did]
    /\ owner' = [t \in Tables |-> [r \in Runs |->
                    IF <<t, r>> \in claim.moved THEN User
                    ELSE IF <<t, r>> \in claim.dropped THEN None ELSE owner[t][r]]]
    /\ state' = [r \in Runs |-> IF <<"entry", r>> \in claim.dropped THEN "dropped" ELSE state[r]]
    /\ UNCHANGED <<stage, closed, rival, settled, request, pairing, pass, late, moves>>

\* The database ends one of two transactions that wait for each other.
BreakDeadlock ==
    /\ AwaitsPass /\ AwaitsClaim
    /\ \/ claim' = NoClaim /\ pass' = pass
       \/ pass' = NoPass /\ claim' = claim
    /\ UNCHANGED <<stage, closed, state, owner, rival, settled, request, pairing,
                   late, moves>>

LoseClaim ==
    /\ Open /\ Move
    /\ claim' = NoClaim
    /\ UNCHANGED <<stage, closed, state, owner, rival, settled, request, pairing, pass,
                   late>>

-----------------------------------------------------------------------------

PassStep ==
    \/ \E r \in Runs : ReadEntry(r) \/ JudgeDuel(r)
    \/ ScoreEntry \/ PostEntry \/ ReadDuels \/ WriteDuels \/ WriteRuns \/ ClosePass
ClaimStep ==
    MoveEntries \/ MoveOrders \/ ReadClaimed \/ MoveCareer \/ MoveDuels \/ Finish

Next ==
    \/ \E f \in Fields : PassTime(f) \/ BeginPass(f)
    \/ \E r \in Runs : AskEntry(r)
    \/ \E x \in Requests : Ask(x[1], x[2], x[3])
    \/ \E p \in Players : Enter(p) \/ Queue(p) \/ Forfeit(p)
    \/ \E a, b \in Runs : ReadPair(a, b)
    \/ InsertDuel
    \/ PassStep \/ LosePass
    \/ BeginClaim \/ ClaimStep \/ LoseClaim
    \/ BreakDeadlock

Spec == Init /\ [][Next]_vars

-----------------------------------------------------------------------------
(* Properties *)

\* When the guest is deleted, nothing names the guest but what somebody wrote
\* behind the merge: in a table it had passed, with an account read before.
NothingLeftBehind ==
    claim.pc = "done" => OfGuest(Tables) \subseteq late

\* The career is never deleted, only given over; the one exception is a stipend
\* of the guest's for a period in which the user has one.
CareerKept ==
    [][\A t \in Reasons, r \in Runs :
          owner[t][r] # None /\ owner'[t][r] = None
             => /\ t = "finish_stipend"
                /\ \E d \in Runs : /\ owner'["finish_stipend"][d] = User
                                   /\ Period[Field(d)] = Period[Field(r)]]_vars

\* The accounts of a duel are those whose runs it compares, and who won is one
\* of the two, but for what was written behind the merge.
DuelsFollow ==
    LET Follows(side, a, r) ==
            \/ owner["entry"][r] \in {owner[side][a], None}
            \/ {<<side, a>>, <<"entry", r>>} \cap late # {}
    IN  \A a \in {r \in Runs : rival[r] # None} :
            /\ Follows("side_a", a, a) /\ Follows("side_b", a, rival[a])
            /\ \/ owner["winner"][a] \in {owner["side_a"][a], owner["side_b"][a], None}
               \/ <<"winner", a>> \in late

\* A claim and a scoring pass take entries before duels: they wait for each other
\* only over a stipend, or over a run the pass has posted nothing for, which it
\* writes after the run's duel.
OneOrder ==
    AwaitsPass /\ AwaitsClaim =>
        \/ claim.pc = "career"
        \/ /\ Turn("duels") /\ pass.duels # None
           /\ \E r \in Unwritten : HeldByClaim("entry", r) /\ ~\E x \in pass.rows : x[2] = r

=============================================================================
