------------------------- MODULE AccountMergeProofs -------------------------
(***************************************************************************)
(* Proofs about AccountMerge, for any number of players, fields and runs:  *)
(* what a claim leaves behind was written behind it, it deletes no career  *)
(* row but a stipend the user has too, and a duel keeps naming the two     *)
(* accounts whose runs it compares.                                        *)
(***************************************************************************)
EXTENDS AccountMerge, TLAPS

Periods == {Period[f] : f \in Fields}

Sides == {"side_a", "side_b", "winner"}

OwnerOK == owner \in [Tables -> [Runs -> Players \cup {None}]]

ClaimOK ==
    /\ claim \in [pc : {"none", "open", "career", "refused", "done"}, did : 0..4,
                  skip : SUBSET Fields, claimed : SUBSET Periods,
                  moved : SUBSET Rows, dropped : SUBSET Rows]
    /\ claim.pc = "career" => claim.did = 2
    /\ claim.did = 0 => claim.moved = {} /\ claim.dropped = {}
    /\ claim.pc = "done" => claim.did = 4 /\ claim.moved = {} /\ claim.dropped = {}
    /\ claim.did < 4 => \A k \in claim.moved \cup claim.dropped : k[1] \notin Sides

\* Of the tables it has passed, the merge has every row that names the guest.
Seen ==
    \A t \in Passed, r \in Runs :
        owner[t][r] = Guest => <<t, r>> \in late \cup claim.moved \cup claim.dropped

\* The career rows a merge holds name the guest until it commits.
FromGuest ==
    \A k \in claim.moved \cup claim.dropped :
        k[1] \in Reasons => owner[k[1]][k[2]] = Guest

HasStipend(period) ==
    \E d \in Runs : owner["finish_stipend"][d] = User /\ Period[Field(d)] = period

Twins ==
    /\ claim.pc = "career" => \A period \in claim.claimed : HasStipend(period)
    /\ \A k \in claim.dropped :
          k[1] \in Reasons => k[1] = "finish_stipend" /\ HasStipend(Period[Field(k[2])])

\* What the pass is about to post is not there yet.
PassOK ==
    /\ DOMAIN pass = {"field", "todo", "at", "scored", "held", "rows", "duels", "judged",
                      "took"}
    /\ pass.at # None => pass.at.run \in Runs
    /\ \A x \in pass.rows : /\ x[1] \in {"run_close", "finish_stipend"} /\ x[2] \in Runs
                            /\ owner[x[1]][x[2]] = None

\* The pass holds the runs it has posted for, and takes no duel before it is
\* through with the runs.
Ordered ==
    /\ pass.held \subseteq DOMAIN pass.scored
    /\ \A x \in pass.rows : x[2] \in pass.held
    /\ DOMAIN pass.judged # {} \/ pass.took # {} => pass.duels # None
    /\ pass.duels # None => pass.at = None /\ pass.todo = {}

IInv == OwnerOK /\ ClaimOK /\ Seen /\ FromGuest /\ Twins /\ PassOK

NewOnly(rows) ==
    \A t \in Reasons, r \in Runs, p \in Players : <<t, r, p>> \in rows => owner[t][r] = None

-----------------------------------------------------------------------------
(* What a write does to the rows *)

\* A write changes the rows it names and no others.
LEMMA PutWrites ==
    ASSUME OwnerOK, NEW rows, Put(rows)
    PROVE  /\ OwnerOK'
           /\ \A t \in Tables, r \in Runs :
                 \/ owner'[t][r] = owner[t][r] /\ \A p \in Players : <<t, r, p>> \notin rows
                 \/ \E p \in Players : <<t, r, p>> \in rows /\ owner'[t][r] = p
<1>1. ASSUME NEW t \in Tables, NEW r \in Runs
      PROVE  /\ owner'[t][r] \in Players \cup {None}
             /\ \/ owner'[t][r] = owner[t][r] /\ \A p \in Players : <<t, r, p>> \notin rows
                \/ \E p \in Players : <<t, r, p>> \in rows /\ owner'[t][r] = p
  <2>1. owner'[t][r] = IF \E p \in Players : <<t, r, p>> \in rows
                       THEN CHOOSE p \in Players : <<t, r, p>> \in rows ELSE owner[t][r]
    BY <1>1 DEF Put
  <2>2. CASE \E p \in Players : <<t, r, p>> \in rows
    <3>1. PICK p \in Players : p = CHOOSE q \in Players : <<t, r, q>> \in rows
      BY <2>2
    <3>2. <<t, r, owner'[t][r]>> \in rows /\ owner'[t][r] \in Players
      BY <2>1, <2>2
    <3> QED BY <3>2
  <2>3. CASE ~\E p \in Players : <<t, r, p>> \in rows
    BY <2>1, <2>3, <1>1 DEF OwnerOK
  <2> QED BY <2>2, <2>3
<1>2. OwnerOK'
  BY <1>1 DEF Put, OwnerOK
<1> QED BY <1>1, <1>2

\* What the four statements cover.
LEMMA Covered ==
    /\ Covers(Statements[1]) = {"entry"}
    /\ Covers(Statements[2]) = {"order"}
    /\ Covers(Statements[3]) = Reasons
    /\ Covers(Statements[4]) = {"side_a", "side_b", "winner"}
    /\ Len(Statements) = 4
  BY DEF Covers, Statements

\* The merge passes tables only.
LEMMA PassedAreTables ==
    ASSUME ClaimOK
    PROVE  Passed \subseteq Tables
<1> SUFFICES ASSUME NEW i \in 1..claim.did
             PROVE  Covers(Statements[i]) \subseteq Tables
  BY DEF Passed
<1>1. i \in 1..4
  BY DEF ClaimOK
<1> QED BY <1>1, Covered DEF Tables, Reasons

\* A row written behind the merge is recorded as such.
LEMMA PutSeen ==
    ASSUME IInv, NEW rows, Put(rows), UNCHANGED claim
    PROVE  Seen'
<1>1. Passed' = Passed
  BY DEF Passed
<1>2. ASSUME NEW t \in Passed, NEW r \in Runs, owner'[t][r] = Guest
      PROVE  <<t, r>> \in late' \cup claim.moved \cup claim.dropped
  <2>1. t \in Tables
    BY PassedAreTables DEF IInv
  <2>2. CASE owner'[t][r] = owner[t][r]
    <3>1. <<t, r>> \in late \cup claim.moved \cup claim.dropped
      BY <1>2, <2>2 DEF IInv, Seen
    <3> QED BY <3>1 DEF Put
  <2>3. CASE \E p \in Players : <<t, r, p>> \in rows /\ owner'[t][r] = p
    <3>1. <<t, r, Guest>> \in rows
      BY <1>2, <2>3
    <3>2. <<t, r>> \in Passed \X Runs /\ <<t, r>>[1] = t /\ <<t, r>>[2] = r
      OBVIOUS
    <3> QED BY <3>1, <3>2 DEF Put
  <2> QED BY <2>1, <2>2, <2>3, PutWrites DEF IInv
<1> QED BY <1>1, <1>2 DEF Seen

\* New career rows leave the ones that are there alone.
LEMMA PutCareer ==
    ASSUME IInv, NEW rows, Put(rows), NewOnly(rows)
    PROVE  \A t \in Reasons, r \in Runs : owner[t][r] # None => owner'[t][r] = owner[t][r]
<1> SUFFICES ASSUME NEW t \in Reasons, NEW r \in Runs, owner[t][r] # None
             PROVE  owner'[t][r] = owner[t][r]
  OBVIOUS
<1>1. \A p \in Players : <<t, r, p>> \notin rows
  BY DEF NewOnly
<1>2. t \in Tables
  BY DEF Tables
<1> QED BY <1>1, <1>2, PutWrites DEF IInv

\* With the claim left alone, a write of new career rows keeps what it holds.
LEMMA PutHeld ==
    ASSUME IInv, MergeAssumption, NEW rows, Put(rows), NewOnly(rows), UNCHANGED claim
    PROVE  FromGuest' /\ Twins'
<1>1. Guest # None /\ User # None
  BY MergeAssumption DEF MergeAssumption, Players
<1>2. \A t \in Reasons, r \in Runs : owner[t][r] # None => owner'[t][r] = owner[t][r]
  BY PutCareer
<1>3. ASSUME NEW period, HasStipend(period)
      PROVE  HasStipend(period)'
  <2>1. PICK d \in Runs : owner["finish_stipend"][d] = User /\ Period[Field(d)] = period
    BY <1>3 DEF HasStipend
  <2>2. owner'["finish_stipend"][d] = User
    BY <1>1, <1>2, <2>1 DEF Reasons
  <2> QED BY <2>1, <2>2 DEF HasStipend
<1>4. Twins'
  BY <1>3 DEF IInv, Twins
<1>5. ASSUME NEW k \in claim.moved \cup claim.dropped, k[1] \in Reasons
      PROVE  owner'[k[1]][k[2]] = Guest
  <2>1. k \in Tables \X Runs
    BY <1>5 DEF IInv, ClaimOK, Rows
  <2>2. owner[k[1]][k[2]] = Guest
    BY <1>5 DEF IInv, FromGuest
  <2> QED BY <1>1, <1>2, <1>5, <2>1, <2>2
<1> QED BY <1>4, <1>5 DEF FromGuest

\* A write outside the tables of the pass keeps what the pass is about to post.
LEMMA PutPass ==
    ASSUME IInv, NEW rows, Put(rows), UNCHANGED pass,
           \A t \in {"run_close", "finish_stipend"}, r \in Runs, p \in Players :
              <<t, r, p>> \notin rows
    PROVE  PassOK'
<1>1. \A t \in {"run_close", "finish_stipend"}, r \in Runs : owner'[t][r] = owner[t][r]
  <2> SUFFICES ASSUME NEW t \in {"run_close", "finish_stipend"}, NEW r \in Runs
               PROVE  owner'[t][r] = owner[t][r]
    OBVIOUS
  <2>1. t \in Tables
    BY DEF Tables, Reasons
  <2> QED BY <2>1, PutWrites DEF IInv
<1> QED BY <1>1 DEF IInv, PassOK

-----------------------------------------------------------------------------
(* What the steps of the claim do *)

\* The fields of a claim.
LEMMA ClaimShape ==
    ASSUME ClaimOK
    PROVE  DOMAIN claim = {"pc", "did", "skip", "claimed", "moved", "dropped"}
  BY DEF ClaimOK

\* A rolled-back claim holds nothing and has passed nothing.
LEMMA LetGo ==
    ASSUME IInv, claim' \in {NoClaim, [NoClaim EXCEPT !.pc = "refused"]},
           UNCHANGED owner
    PROVE  ClaimOK' /\ Seen' /\ FromGuest' /\ Twins'
<1>1. /\ claim'.pc \in {"none", "refused"} /\ claim'.did = 0
      /\ claim'.moved = {} /\ claim'.dropped = {}
  BY DEF NoClaim
<1>2. ClaimOK'
  BY <1>1 DEF ClaimOK, NoClaim
<1>3. Passed' = {}
  BY <1>1 DEF Passed
<1>4. Seen'
  BY <1>3 DEF Seen
<1>5. FromGuest' /\ Twins'
  BY <1>1 DEF FromGuest, Twins
<1> QED BY <1>2, <1>4, <1>5

\* A statement takes every row that names the guest in the tables it covers.
LEMMA Statement ==
    ASSUME IInv, UNCHANGED <<owner, late>>,
           NEW m, NEW d, claim' = Done(m, d),
           claim.did \in 0..3, m \subseteq Rows, d \subseteq Rows,
           OfGuest(Covers(Statements[claim.did + 1])) \subseteq m \cup d,
           \A k \in m \cup d : owner[k[1]][k[2]] = Guest,
           \A k \in d : k[1] \in Reasons =>
               k[1] = "finish_stipend" /\ HasStipend(Period[Field(k[2])]),
           claim.did < 3 => \A k \in m \cup d : k[1] \notin Sides
    PROVE  ClaimOK' /\ Seen' /\ FromGuest' /\ Twins'
<1>1. /\ claim'.pc = "open" /\ claim'.did = claim.did + 1
      /\ claim'.moved = claim.moved \cup m /\ claim'.dropped = claim.dropped \cup d
      /\ claim'.skip = claim.skip /\ claim'.claimed = claim.claimed
  BY ClaimShape DEF IInv, ClaimOK, Done
<1>2. ClaimOK'
  <2>1. claim' = [pc |-> "open", did |-> claim.did + 1, skip |-> claim.skip,
                  claimed |-> claim.claimed, moved |-> claim.moved \cup m,
                  dropped |-> claim.dropped \cup d]
    BY DEF IInv, ClaimOK, Done
  <2>2. /\ claim.skip \in SUBSET Fields /\ claim.claimed \in SUBSET Periods
        /\ claim.moved \cup m \in SUBSET Rows /\ claim.dropped \cup d \in SUBSET Rows
        /\ claim.did + 1 \in 0..4
    BY DEF IInv, ClaimOK
  <2>3. claim'.did < 4 => \A k \in claim'.moved \cup claim'.dropped : k[1] \notin Sides
    BY <1>1 DEF IInv, ClaimOK
  <2> QED BY <1>1, <2>1, <2>2, <2>3 DEF ClaimOK
<1>3. ASSUME NEW t \in Passed', NEW r \in Runs, owner[t][r] = Guest
      PROVE  <<t, r>> \in late \cup claim'.moved \cup claim'.dropped
  <2>1. PICK i \in 1..(claim.did + 1) : t \in Covers(Statements[i])
    BY <1>1, <1>3 DEF Passed
  <2>2. CASE i \in 1..claim.did
    <3>1. t \in Passed
      BY <2>1, <2>2 DEF Passed
    <3> QED BY <1>1, <1>3, <3>1 DEF IInv, Seen
  <2>3. CASE i = claim.did + 1
    <3>1. <<t, r>> \in OfGuest(Covers(Statements[claim.did + 1]))
      BY <1>3, <2>1, <2>3 DEF OfGuest
    <3> QED BY <1>1, <3>1
  <2> QED BY <2>1, <2>2, <2>3 DEF IInv, ClaimOK
<1>4. Seen'
  BY <1>3 DEF Seen
<1>5. FromGuest'
  BY <1>1 DEF IInv, FromGuest
<1>6. Twins'
  BY <1>1 DEF IInv, Twins, HasStipend
<1> QED BY <1>2, <1>4, <1>5, <1>6

\* _rekey_skipping_conflicts keeps the invariant: kept or deleted, it has every run.
LEMMA MoveEntriesKeeps ==
    ASSUME IInv, MoveEntries
    PROVE  IInv'
<1> DEFINE mine == Owned("entry", Guest)
           kept == {r \in mine : Field(r) \notin claim.skip}
<1>1. UNCHANGED <<owner, late, pass>>
  BY DEF MoveEntries
<1>2. OwnerOK' /\ PassOK'
  BY <1>1 DEF IInv, OwnerOK, PassOK
<1>3. CASE claim' \in {NoClaim, [NoClaim EXCEPT !.pc = "refused"]}
  BY <1>1, <1>2, <1>3, LetGo DEF IInv
<1>4. CASE claim' = Done({"entry"} \X kept, {"entry"} \X (mine \ kept))
  <2>1. claim.did \in 0..3 /\ Statements[claim.did + 1] = "entries"
    BY DEF MoveEntries, Turn, IInv, ClaimOK, Statements
  <2>2. Covers(Statements[claim.did + 1]) = {"entry"}
    BY <2>1 DEF Covers
  <2>3. mine \subseteq Runs /\ kept \subseteq mine /\ \A r \in mine : owner["entry"][r] = Guest
    BY DEF Owned
  <2>4. OfGuest({"entry"}) \subseteq ({"entry"} \X kept) \cup ({"entry"} \X (mine \ kept))
    BY DEF OfGuest, Owned
  <2>5. {"entry"} \X kept \subseteq Rows /\ {"entry"} \X (mine \ kept) \subseteq Rows
    BY <2>3 DEF Rows, Tables
  <2>6. \A k \in ({"entry"} \X kept) \cup ({"entry"} \X (mine \ kept)) :
            owner[k[1]][k[2]] = Guest /\ k[1] \notin Reasons /\ k[1] \notin Sides
    BY <2>3 DEF Reasons, Sides
  <2> HIDE DEF mine, kept
  <2>7. ClaimOK' /\ Seen' /\ FromGuest' /\ Twins'
    BY <1>1, <1>4, <2>1, <2>2, <2>4, <2>5, <2>6, Statement
  <2> QED BY <1>2, <2>7 DEF IInv
<1> QED BY <1>3, <1>4 DEF MoveEntries, Failed

\* _rekey_all keeps it.
LEMMA MoveOrdersKeeps ==
    ASSUME IInv, MoveOrders
    PROVE  IInv'
<1> DEFINE mine == OfGuest({"order"})
<1>1. UNCHANGED <<owner, late, pass>> /\ claim' = Done(mine, {})
  BY DEF MoveOrders
<1>2. OwnerOK' /\ PassOK'
  BY <1>1 DEF IInv, OwnerOK, PassOK
<1>3. claim.did \in 0..3 /\ Statements[claim.did + 1] = "orders"
  BY DEF MoveOrders, Turn, IInv, ClaimOK, Statements
<1>4. Covers("orders") = {"order"}
  BY DEF Covers
<1>5. mine \subseteq Rows /\ \A k \in mine : owner[k[1]][k[2]] = Guest /\ k[1] \notin Sides
  BY DEF OfGuest, Rows, Tables, Sides
<1>6. OfGuest(Covers("orders")) = mine
  BY <1>4
<1> HIDE DEF mine
<1>7. ClaimOK' /\ Seen' /\ FromGuest' /\ Twins'
  BY <1>1, <1>3, <1>5, <1>6, Statement
<1> QED BY <1>2, <1>7 DEF IInv

\* _rekey_game_duels keeps it.
LEMMA MoveDuelsKeeps ==
    ASSUME IInv, MoveDuels
    PROVE  IInv'
<1>1. UNCHANGED <<owner, late, pass>> /\ claim' = Done(OfGuest(Covers("duels")), {})
  BY DEF MoveDuels
<1>2. OwnerOK' /\ PassOK'
  BY <1>1 DEF IInv, OwnerOK, PassOK
<1>3. claim.did = 3 /\ Statements[claim.did + 1] = "duels"
  BY DEF MoveDuels, Turn, IInv, ClaimOK, Statements
<1>4. /\ OfGuest(Covers("duels")) \subseteq Rows
      /\ \A k \in OfGuest(Covers("duels")) : owner[k[1]][k[2]] = Guest
  BY DEF OfGuest, Rows, Tables, Covers
<1>5. ClaimOK' /\ Seen' /\ FromGuest' /\ Twins'
  BY <1>1, <1>3, <1>4, Statement
<1> QED BY <1>2, <1>5 DEF IInv

\* The periods that are read are periods the user has a stipend for.
LEMMA ReadClaimedKeeps ==
    ASSUME MergeAssumption, IInv, ReadClaimed
    PROVE  IInv'
<1>1. /\ UNCHANGED <<owner, late, pass>>
      /\ claim' = [claim EXCEPT !.pc = "career", !.claimed = StipendsOf(User)]
  BY DEF ReadClaimed
<1>2. OwnerOK' /\ PassOK'
  BY <1>1 DEF IInv, OwnerOK, PassOK
<1>3. claim.did = 2
  BY DEF ReadClaimed, Turn, IInv, ClaimOK, Statements
<1>4. StipendsOf(User) \subseteq Periods
  BY DEF StipendsOf, Owned, Periods, Field, MergeAssumption
<1>5. /\ claim'.pc = "career" /\ claim'.did = claim.did /\ claim'.moved = claim.moved
      /\ claim'.dropped = claim.dropped /\ claim'.claimed = StipendsOf(User)
      /\ claim'.skip = claim.skip
  BY <1>1, ClaimShape DEF IInv, ClaimOK
<1>6. ClaimOK'
  BY <1>1, <1>3, <1>4, <1>5 DEF IInv, ClaimOK
<1>7. Seen' /\ FromGuest'
  BY <1>1, <1>5 DEF IInv, Seen, FromGuest, Passed
<1>8. \A period \in StipendsOf(User) : HasStipend(period)
  BY DEF StipendsOf, Owned, HasStipend
<1>9. Twins'
  BY <1>1, <1>5, <1>8 DEF IInv, Twins, HasStipend
<1> QED BY <1>2, <1>6, <1>7, <1>9 DEF IInv

\* _rekey_career_events keeps it: what it deletes has a twin.
LEMMA MoveCareerKeeps ==
    ASSUME IInv, MoveCareer
    PROVE  IInv'
<1> DEFINE gone == {k \in OfGuest(Reasons) : Conflicting(k)}
<1>1. UNCHANGED <<owner, late, pass>>
  BY DEF MoveCareer
<1>2. OwnerOK' /\ PassOK'
  BY <1>1 DEF IInv, OwnerOK, PassOK
<1>3. CASE claim' = NoClaim
  BY <1>1, <1>2, <1>3, LetGo DEF IInv
<1>4. CASE claim' = Done(Moving, gone)
  <2>1. claim.pc = "career" /\ claim.did = 2
    BY DEF MoveCareer, IInv, ClaimOK
  <2>2. Covers(Statements[claim.did + 1]) = Reasons
    BY <2>1, Covered
  <2>3. OfGuest(Reasons) \subseteq Moving \cup gone
    BY DEF Moving
  <2>4. /\ OfGuest(Reasons) \subseteq Rows
        /\ \A k \in OfGuest(Reasons) : owner[k[1]][k[2]] = Guest /\ k[1] \notin Sides
    BY DEF OfGuest, Rows, Tables, Reasons, Sides
  <2>5. Moving \subseteq OfGuest(Reasons) /\ gone \subseteq OfGuest(Reasons)
    BY DEF Moving
  <2>6. \A k \in gone : k[1] = "finish_stipend" /\ HasStipend(Period[Field(k[2])])
    BY <2>1 DEF IInv, Twins, Conflicting
  <2> HIDE DEF gone
  <2>7. ClaimOK' /\ Seen' /\ FromGuest' /\ Twins'
    BY <1>1, <1>4, <2>1, <2>2, <2>3, <2>4, <2>5, <2>6, Statement
  <2> QED BY <1>2, <2>7 DEF IInv
<1> QED BY <1>3, <1>4 DEF MoveCareer, Failed

\* The commit leaves nothing that the merge has passed and nobody wrote since.
LEMMA FinishKeeps ==
    ASSUME MergeAssumption, IInv, Finish
    PROVE  IInv'
<1>1. User # Guest /\ None # Guest /\ User \in Players /\ None \notin Players
  BY MergeAssumption DEF MergeAssumption, Players
<1>2. /\ UNCHANGED <<late, pass>> /\ claim' = [NoClaim EXCEPT !.pc = "done", !.did = claim.did]
      /\ claim.did = 4
  BY Covered DEF Finish
<1>3. \A t \in Tables, r \in Runs :
          owner'[t][r] = IF <<t, r>> \in claim.moved THEN User
                         ELSE IF <<t, r>> \in claim.dropped THEN None ELSE owner[t][r]
  BY DEF Finish
<1>4. OwnerOK'
  BY <1>1, <1>3 DEF Finish, IInv, OwnerOK
<1>5. /\ claim'.pc = "done" /\ claim'.did = 4 /\ claim'.moved = {} /\ claim'.dropped = {}
      /\ claim'.skip = {} /\ claim'.claimed = {}
  BY <1>2 DEF NoClaim
<1>6. ClaimOK'
  <2>1. claim' = [pc |-> "done", did |-> 4, skip |-> {}, claimed |-> {}, moved |-> {},
                  dropped |-> {}]
    BY <1>2 DEF NoClaim
  <2> QED BY <2>1 DEF ClaimOK
<1>7. FromGuest' /\ Twins'
  BY <1>5 DEF FromGuest, Twins
<1>8. Passed' = Passed
  BY <1>2, <1>5 DEF Passed
<1>9. ASSUME NEW t \in Passed, NEW r \in Runs, owner'[t][r] = Guest
      PROVE  <<t, r>> \in late
  <2>1. t \in Tables
    BY PassedAreTables DEF IInv
  <2> QED BY <1>1, <1>3, <1>9, <2>1 DEF IInv, Seen
<1>10. Seen'
  BY <1>2, <1>8, <1>9 DEF Seen
<1>11. ASSUME NEW x \in pass.rows
       PROVE  owner'[x[1]][x[2]] = None
  <2>1. /\ x[1] \in Reasons /\ x[1] \in Tables /\ x[2] \in Runs
        /\ owner[x[1]][x[2]] = None
    BY <1>11 DEF IInv, PassOK, Reasons, Tables
  <2>2. <<x[1], x[2]>> \notin claim.moved
    BY <1>1, <2>1 DEF IInv, FromGuest
  <2> QED BY <1>3, <2>1, <2>2
<1>12. PassOK'
  BY <1>2, <1>11 DEF IInv, PassOK
<1> QED BY <1>4, <1>6, <1>7, <1>10, <1>12 DEF IInv

-----------------------------------------------------------------------------
(* The other steps *)

\* A step that leaves the rows and the claim alone keeps it.
LEMMA RowsUntouched ==
    ASSUME IInv, UNCHANGED <<owner, claim, late>>, PassOK'
    PROVE  IInv'
BY DEF IInv, OwnerOK, ClaimOK, Seen, Passed, FromGuest, Twins, HasStipend

\* The rows the pass is about to post stay new while nothing is written.
LEMMA Unread ==
    ASSUME IInv, UNCHANGED <<owner, pass>>
    PROVE  PassOK'
BY DEF IInv, PassOK

\* A claim that ends without its commit.
LEMMA ClaimLost ==
    ASSUME IInv, claim' = NoClaim, UNCHANGED <<owner, pass>>
    PROVE  IInv'
<1>1. OwnerOK' /\ PassOK'
  BY Unread DEF IInv, OwnerOK
<1> QED BY <1>1, LetGo DEF IInv

\* A pass that has ended posts nothing.
LEMMA PassEnded ==
    ASSUME pass' = NoPass
    PROVE  PassOK'
BY DEF PassOK, NoPass

\* A claim begins with nothing in its hands.
LEMMA BeginClaimKeeps ==
    ASSUME MergeAssumption, IInv, BeginClaim
    PROVE  IInv'
<1>1. UNCHANGED <<owner, pass>>
  BY DEF BeginClaim
<1>2. OwnerOK' /\ PassOK'
  BY <1>1, Unread DEF IInv, OwnerOK
<1>3. claim' = [pc |-> "open", did |-> 0, skip |-> {Field(r) : r \in Owned("entry", User)},
                claimed |-> {}, moved |-> {}, dropped |-> {}]
  BY DEF BeginClaim, NoClaim
<1>4. {Field(r) : r \in Owned("entry", User)} \subseteq Fields
  BY DEF MergeAssumption, Owned, Field
<1>5. ClaimOK'
  BY <1>3, <1>4 DEF ClaimOK
<1>6. Passed' = {}
  BY <1>3 DEF Passed
<1>7. Seen' /\ FromGuest' /\ Twins'
  BY <1>3, <1>6 DEF Seen, FromGuest, Twins
<1> QED BY <1>2, <1>5, <1>7 DEF IInv

\* A request or the pairing writes rows that the pass does not post.
LEMMA WriteKeeps ==
    ASSUME IInv, MergeAssumption, NEW rows, Put(rows), NewOnly(rows),
           UNCHANGED <<claim, pass>>,
           \A t \in {"run_close", "finish_stipend"}, r \in Runs, p \in Players :
              <<t, r, p>> \notin rows
    PROVE  IInv'
<1>1. OwnerOK'
  BY PutWrites DEF IInv
<1>2. ClaimOK'
  BY DEF IInv, ClaimOK
<1> QED BY <1>1, <1>2, PutSeen, PutHeld, PutPass DEF IInv

\* post_career_event writes only what is not there.
LEMMA PostedIsNew ==
    ASSUME NEW reason, NEW q, NEW a
    PROVE  \A t, r, p : <<t, r, p>> \in Posted(reason, q, a)
                           => t = reason /\ r = q /\ owner[t][r] = None
BY DEF Posted

\* The requests write no career row over another.
LEMMA RequestKeeps ==
    ASSUME MergeAssumption, IInv, NEW q \in Players, Enter(q) \/ Queue(q) \/ Forfeit(q)
    PROVE  IInv' /\ (UNCHANGED owner \/ \E rows : Put(rows) /\ NewOnly(rows))
<1>1. UNCHANGED <<claim, pass>>
  BY DEF Enter, Queue, Forfeit
<1>2. CASE UNCHANGED <<owner, late>>
  BY <1>1, <1>2, RowsUntouched, Unread
<1>3. ASSUME NEW rows, Put(rows), NewOnly(rows),
             \A t \in {"run_close", "finish_stipend"}, r \in Runs, p \in Players :
                <<t, r, p>> \notin rows
      PROVE  IInv' /\ \E x : Put(x) /\ NewOnly(x)
  BY <1>1, <1>3, WriteKeeps
<1>4. ASSUME NEW r, Put({<<"entry", r, q>>})
      PROVE  IInv' /\ \E x : Put(x) /\ NewOnly(x)
  BY <1>3, <1>4 DEF NewOnly, Reasons
<1>5. ASSUME NEW r, Put({<<"order", r, q>>})
      PROVE  IInv' /\ \E x : Put(x) /\ NewOnly(x)
  BY <1>3, <1>5 DEF NewOnly, Reasons
<1>6. ASSUME NEW r, Put(Posted("forfeit_debit", r, q))
      PROVE  IInv' /\ \E x : Put(x) /\ NewOnly(x)
  <2>1. \A t, d, p : <<t, d, p>> \in Posted("forfeit_debit", r, q)
                        => t = "forfeit_debit" /\ owner[t][d] = None
    BY PostedIsNew
  <2> QED BY <1>3, <1>6, <2>1 DEF NewOnly
<1>7. \/ UNCHANGED <<owner, late>>
      \/ \E r : Put({<<"entry", r, q>>}) \/ Put({<<"order", r, q>>})
                \/ Put(Posted("forfeit_debit", r, q))
  BY DEF Enter, Queue, Forfeit
<1> QED BY <1>2, <1>4, <1>5, <1>6, <1>7

\* Nor does the pairing.
LEMMA InsertDuelKeeps ==
    ASSUME MergeAssumption, IInv, InsertDuel
    PROVE  IInv' /\ \E rows : Put(rows) /\ NewOnly(rows)
<1> DEFINE rows == {<<"side_a", pairing.a, pairing.side_a>>, <<"side_b", pairing.a, pairing.side_b>>}
<1>1. Put(rows) /\ UNCHANGED <<claim, pass>>
  BY DEF InsertDuel
<1>2. \A t, r, p : <<t, r, p>> \in rows => t \in {"side_a", "side_b"}
  OBVIOUS
<1> HIDE DEF rows
<1>3. NewOnly(rows)
  BY <1>2 DEF NewOnly, Reasons
<1> QED BY <1>1, <1>2, <1>3, WriteKeeps

\* What _apply_score adds to the pass is not there yet.
LEMMA PostEntryKeeps ==
    ASSUME IInv, PostEntry
    PROVE  PassOK'
<1> DEFINE q == pass.at.run
<1>1. pass.at # None /\ q \in Runs /\ UNCHANGED owner
  BY DEF PostEntry, Scored, IInv, PassOK
<1>2. \A x \in Posts : /\ x[1] \in {"run_close", "finish_stipend"} /\ x[2] = q
                       /\ owner[x[1]][x[2]] = None
  BY DEF Posts, PostsFor, Posted
<1>3. /\ DOMAIN pass' = DOMAIN pass /\ pass'.at = None
      /\ pass'.rows = pass.rows \cup Posts
  BY DEF PostEntry, IInv, PassOK
<1> HIDE DEF q
<1> QED BY <1>1, <1>2, <1>3 DEF IInv, PassOK

\* What the other steps of the pass before its commit change.
LEMMA Scoring ==
    ASSUME IInv, (\E r \in Runs : ReadEntry(r) \/ JudgeDuel(r)) \/ ScoreEntry \/ ReadDuels
                 \/ WriteDuels \/ WriteRuns
    PROVE  /\ PassOK'
           /\ UNCHANGED <<owner, late, rival, settled, state, request, pairing, claim>>
           /\ pass' = NoPass \/ pass'.rows = pass.rows
<1>1. UNCHANGED <<owner, late, rival, settled, state, request, pairing, claim>>
  BY DEF ReadEntry, JudgeDuel, ScoreEntry, ReadDuels, WriteDuels, WriteRuns
<1>2. ASSUME DOMAIN pass' = DOMAIN pass, pass'.rows = pass.rows,
             pass'.at # None => pass'.at.run \in Runs
      PROVE  PassOK'
  BY <1>1, <1>2 DEF IInv, PassOK
<1>3. ASSUME NEW r \in Runs, ReadEntry(r)
      PROVE  PassOK' /\ pass'.rows = pass.rows
  <2>1. DOMAIN pass' = DOMAIN pass /\ pass'.rows = pass.rows
    BY <1>3 DEF ReadEntry, IInv, PassOK
  <2>2. PICK result \in {"finished", "void"} :
            pass'.at = IF state[r] # "live" THEN None
                       ELSE [run |-> r, owner |-> owner["entry"][r], result |-> result]
    BY <1>3 DEF ReadEntry, IInv, PassOK
  <2>3. pass'.at # None => pass'.at.run = r
    BY <2>2
  <2> QED BY <1>2, <2>1, <2>3
<1>4. ASSUME NEW r \in Runs, JudgeDuel(r)
      PROVE  PassOK' /\ pass'.rows = pass.rows
  <2>1. DOMAIN pass' = DOMAIN pass /\ pass'.rows = pass.rows /\ pass'.at = pass.at
    BY <1>4 DEF JudgeDuel, IInv, PassOK
  <2> QED BY <1>2, <2>1 DEF IInv, PassOK
<1>5. CASE ScoreEntry
  <2>1. /\ DOMAIN pass' = DOMAIN pass /\ pass'.rows = pass.rows
        /\ pass'.at \in {None, pass.at}
    BY <1>5 DEF ScoreEntry, IInv, PassOK
  <2>2. PassOK'
    BY <1>2, <2>1 DEF IInv, PassOK
  <2> QED BY <1>1, <2>1, <2>2
<1>6. CASE ReadDuels \/ WriteDuels
  <2>1. DOMAIN pass' = DOMAIN pass /\ pass'.rows = pass.rows /\ pass'.at = pass.at
    BY <1>6 DEF ReadDuels, WriteDuels, IInv, PassOK
  <2>2. PassOK'
    BY <1>2, <2>1 DEF IInv, PassOK
  <2> QED BY <1>1, <2>1, <2>2
<1>7. CASE WriteRuns
  <2>1. CASE pass' = NoPass
    BY <1>1, <2>1, PassEnded
  <2>2. CASE pass' = [pass EXCEPT !.held = DOMAIN pass.scored]
    <3>1. DOMAIN pass' = DOMAIN pass /\ pass'.rows = pass.rows /\ pass'.at = pass.at
      BY <2>2 DEF IInv, PassOK
    <3>2. PassOK'
      BY <1>2, <3>1 DEF IInv, PassOK
    <3> QED BY <1>1, <3>1, <3>2
  <2> QED BY <1>7, <2>1, <2>2 DEF WriteRuns
<1> QED BY <1>1, <1>3, <1>4, <1>5, <1>6, <1>7

\* What the pass writes when it commits is new to the career.
LEMMA ClosePassKeeps ==
    ASSUME MergeAssumption, IInv, ClosePass
    PROVE  IInv' /\ \E rows : Put(rows) /\ NewOnly(rows)
<1>1. Put(pass.rows \cup UNION {DuelRows(a) : a \in DOMAIN pass.duels})
  BY DEF ClosePass
<1> DEFINE duels == UNION {DuelRows(a) : a \in DOMAIN pass.duels}
<1>2. pass' = NoPass /\ UNCHANGED claim
  BY DEF ClosePass
<1>3. ASSUME NEW t \in Reasons, NEW r \in Runs, NEW p \in Players, <<t, r, p>> \in duels
      PROVE  owner[t][r] = None
  <2>1. PICK a \in DOMAIN pass.duels : <<t, r, p>> \in DuelRows(a)
    BY <1>3
  <2>2. t # "winner"
    BY DEF Reasons
  <2>3. \/ <<t, r, p>> \in Posted("duel_result", a, pass.duels[a].a)
        \/ <<t, r, p>> \in Posted("duel_result", rival[a], pass.duels[a].b)
    BY <2>1, <2>2 DEF DuelRows
  <2> QED BY <2>3, PostedIsNew
<1>4. \A t \in Reasons, r \in Runs, p \in Players :
          <<t, r, p>> \in pass.rows => owner[t][r] = None
  BY DEF IInv, PassOK
<1> HIDE DEF duels
<1>5. NewOnly(pass.rows \cup duels)
  BY <1>3, <1>4 DEF NewOnly
<1>6. Put(pass.rows \cup duels)
  BY <1>1 DEF duels
<1>7. OwnerOK' /\ ClaimOK'
  BY <1>2, <1>6, PutWrites DEF IInv, ClaimOK
<1> QED BY <1>2, <1>5, <1>6, <1>7, PutSeen, PutHeld, PassEnded DEF IInv

-----------------------------------------------------------------------------
(* Every step *)

\* No career row goes but a stipend the user has too.
CareerStep ==
    \A t \in Reasons, r \in Runs :
        owner[t][r] # None /\ owner'[t][r] = None
            => t = "finish_stipend" /\ HasStipend(Period[Field(r)])'

\* A step that writes no row keeps the career.
LEMMA UntouchedCareer ==
    ASSUME UNCHANGED owner
    PROVE  CareerStep
BY DEF CareerStep

\* So does one that writes new career rows only.
LEMMA WriteCareer ==
    ASSUME IInv, \E rows : Put(rows) /\ NewOnly(rows)
    PROVE  CareerStep
BY PutCareer DEF CareerStep

\* The commit of a claim deletes stipends that have a twin, which stays the user's.
LEMMA FinishCareer ==
    ASSUME MergeAssumption, IInv, Finish
    PROVE  CareerStep
<1>1. User # Guest /\ None # User /\ None # Guest
  BY MergeAssumption DEF MergeAssumption, Players
<1>2. \A t \in Reasons, r \in Runs :
          owner'[t][r] = IF <<t, r>> \in claim.moved THEN User
                         ELSE IF <<t, r>> \in claim.dropped THEN None ELSE owner[t][r]
  BY DEF Finish, Tables
<1> SUFFICES ASSUME NEW t \in Reasons, NEW r \in Runs,
                    owner[t][r] # None, owner'[t][r] = None
             PROVE  t = "finish_stipend" /\ HasStipend(Period[Field(r)])'
  BY DEF CareerStep
<1>3. <<t, r>> \in claim.dropped
  BY <1>1, <1>2
<1>4. t = "finish_stipend" /\ HasStipend(Period[Field(r)])
  BY <1>3 DEF IInv, Twins
<1>5. PICK d \in Runs :
          owner["finish_stipend"][d] = User /\ Period[Field(d)] = Period[Field(r)]
  BY <1>4 DEF HasStipend
<1>6. <<"finish_stipend", d>> \notin claim.dropped /\ "finish_stipend" \in Reasons
  BY <1>1, <1>5 DEF IInv, FromGuest, Reasons
<1>7. owner'["finish_stipend"][d] = User
  BY <1>2, <1>5, <1>6
<1> QED BY <1>4, <1>5, <1>7 DEF HasStipend

\* The first state satisfies the invariant.
LEMMA InitHolds ==
    ASSUME MergeAssumption, Init
    PROVE  IInv
<1>1. None # Guest
  BY MergeAssumption DEF MergeAssumption, Players
<1>2. OwnerOK
  BY DEF Init, OwnerOK
<1>3. ClaimOK
  BY DEF Init, ClaimOK, NoClaim
<1>4. Passed = {}
  BY DEF Init, Passed, NoClaim
<1>5. Seen /\ FromGuest /\ Twins
  BY <1>4 DEF Init, Seen, FromGuest, Twins, NoClaim
<1>6. PassOK
  BY DEF Init, PassOK, NoPass
<1> QED BY <1>2, <1>3, <1>5, <1>6 DEF IInv

\* Every step keeps it and the career.
LEMMA StepKeeps ==
    ASSUME MergeAssumption, IInv, [Next]_vars
    PROVE  IInv' /\ CareerStep
<1>1. ASSUME UNCHANGED <<owner, claim, late, pass>>
      PROVE  IInv' /\ CareerStep
  BY <1>1, RowsUntouched, Unread, UntouchedCareer
<1>2. ASSUME UNCHANGED <<owner, claim, late>>, PassOK'
      PROVE  IInv' /\ CareerStep
  BY <1>2, RowsUntouched, UntouchedCareer
<1>3. ASSUME NEW f \in Fields, PassTime(f)
      PROVE  IInv' /\ CareerStep
  BY <1>1, <1>3 DEF PassTime
<1>4. ASSUME NEW f \in Fields, BeginPass(f)
      PROVE  IInv' /\ CareerStep
  <2>1. PassOK'
    BY <1>4 DEF BeginPass, PassOK, NoPass
  <2> QED BY <1>2, <1>4, <2>1 DEF BeginPass
<1>5. ASSUME NEW r \in Runs, AskEntry(r)
      PROVE  IInv' /\ CareerStep
  BY <1>1, <1>5 DEF AskEntry
<1>6. ASSUME NEW x \in Requests, Ask(x[1], x[2], x[3])
      PROVE  IInv' /\ CareerStep
  BY <1>1, <1>6 DEF Ask
<1>7. ASSUME NEW p \in Players, Enter(p) \/ Queue(p) \/ Forfeit(p)
      PROVE  IInv' /\ CareerStep
  <2>1. IInv' /\ (UNCHANGED owner \/ \E rows : Put(rows) /\ NewOnly(rows))
    BY <1>7, RequestKeeps
  <2> QED BY <2>1, UntouchedCareer, WriteCareer
<1>8. ASSUME NEW a \in Runs, NEW b \in Runs, ReadPair(a, b)
      PROVE  IInv' /\ CareerStep
  BY <1>1, <1>8 DEF ReadPair
<1>9. CASE InsertDuel
  BY <1>9, InsertDuelKeeps, WriteCareer
<1>11. CASE PostEntry
  BY <1>2, <1>11, PostEntryKeeps DEF PostEntry
<1>12. CASE (\E r \in Runs : ReadEntry(r) \/ JudgeDuel(r)) \/ ScoreEntry \/ ReadDuels
            \/ WriteDuels \/ WriteRuns
  BY <1>2, <1>12, Scoring
<1>13. CASE ClosePass
  BY <1>13, ClosePassKeeps, WriteCareer
<1>14. CASE LosePass
  BY <1>2, <1>14, PassEnded DEF LosePass
<1>15. CASE BeginClaim
  BY <1>15, BeginClaimKeeps, UntouchedCareer DEF BeginClaim
<1>16. CASE MoveEntries
  BY <1>16, MoveEntriesKeeps, UntouchedCareer DEF MoveEntries
<1>17. CASE MoveOrders
  BY <1>17, MoveOrdersKeeps, UntouchedCareer DEF MoveOrders
<1>18. CASE ReadClaimed
  BY <1>18, ReadClaimedKeeps, UntouchedCareer DEF ReadClaimed
<1>19. CASE MoveCareer
  BY <1>19, MoveCareerKeeps, UntouchedCareer DEF MoveCareer
<1>20. CASE MoveDuels
  BY <1>20, MoveDuelsKeeps, UntouchedCareer DEF MoveDuels
<1>21. CASE Finish
  BY <1>21, FinishKeeps, FinishCareer
<1>22. CASE LoseClaim
  BY <1>22, ClaimLost, UntouchedCareer DEF LoseClaim
<1>23. CASE BreakDeadlock
  <2>1. CASE claim' = NoClaim /\ pass' = pass
    BY <1>23, <2>1, ClaimLost, UntouchedCareer DEF BreakDeadlock
  <2>2. CASE pass' = NoPass /\ claim' = claim
    BY <1>2, <1>23, <2>2, PassEnded DEF BreakDeadlock
  <2> QED BY <1>23, <2>1, <2>2 DEF BreakDeadlock
<1>24. CASE UNCHANGED vars
  BY <1>1, <1>24 DEF vars
<1> QED
  BY <1>3, <1>4, <1>5, <1>6, <1>7, <1>8, <1>9, <1>11, <1>12, <1>13, <1>14, <1>15,
     <1>16, <1>17, <1>18, <1>19, <1>20, <1>21, <1>22, <1>23, <1>24
     DEF Next, PassStep, ClaimStep

-----------------------------------------------------------------------------
(* Theorems *)

\* The strengthening holds throughout: what the merge has passed it holds, what
\* it holds is the guest's, and every stipend it drops has a twin of the user's.
THEOREM Inductive == Spec => []IInv
<1>1. Init => IInv
  BY InitHolds, MergeAssumption
<1>2. IInv /\ [Next]_vars => IInv'
  BY StepKeeps, MergeAssumption
<1> QED BY <1>1, <1>2, PTL DEF Spec

\* A claim that commits has left nothing behind: whatever names the deleted guest
\* (MergeService.execute: entries, orders, career rows, duels) was written in a
\* table the claim had passed, by somebody who had read the account before.
THEOREM NothingStays == Spec => []NothingLeftBehind
<1>1. ASSUME IInv
      PROVE  NothingLeftBehind
  <2> SUFFICES ASSUME claim.pc = "done"
               PROVE  OfGuest(Tables) \subseteq late
    BY DEF NothingLeftBehind
  <2>1. claim.did = 4 /\ claim.moved = {} /\ claim.dropped = {}
    BY <1>1 DEF IInv, ClaimOK
  <2>2. Tables \subseteq Passed
    BY <2>1, Covered DEF Passed, Tables
  <2> QED BY <1>1, <2>1, <2>2 DEF OfGuest, IInv, Seen
<1> QED BY <1>1, Inductive, PTL

\* What the pass has written follows its order throughout.
THEOREM OrderKept == Spec => []Ordered
<1>1. Init => Ordered
  BY DEF Init, NoPass, Ordered
<1>2. IInv /\ Ordered /\ [Next]_vars => Ordered'
  <2> SUFFICES ASSUME IInv, Ordered, [Next]_vars
               PROVE  Ordered'
    OBVIOUS
  <2>1. CASE pass' = NoPass
    BY <2>1 DEF NoPass, Ordered
  <2>2. CASE pass' = pass
    BY <2>2 DEF Ordered
  <2>3. ASSUME NEW f \in Fields, BeginPass(f)
        PROVE  Ordered'
    BY <2>3 DEF BeginPass, NoPass, Ordered
  <2>4. ASSUME NEW r \in Runs, ReadEntry(r)
        PROVE  Ordered'
    <3>1. /\ pass'.held = pass.held /\ pass'.scored = pass.scored /\ pass'.rows = pass.rows
          /\ pass'.judged = pass.judged /\ pass'.took = pass.took /\ pass'.duels = pass.duels
      BY <2>4 DEF ReadEntry, IInv, PassOK
    <3>2. pass.duels = None
      BY <2>4 DEF ReadEntry, Ordered
    <3> QED BY <3>1, <3>2 DEF Ordered
  <2>5. CASE ScoreEntry
    <3>1. /\ pass'.held = pass.held /\ pass'.rows = pass.rows /\ pass'.duels = pass.duels
          /\ pass'.judged = pass.judged /\ pass'.took = pass.took
          /\ pass'.scored = With(pass.scored, pass.at.run, pass.at.result)
      BY <2>5 DEF ScoreEntry, IInv, PassOK
    <3>2. pass.duels = None
      BY <2>5 DEF ScoreEntry, Ordered
    <3>3. DOMAIN pass.scored \subseteq DOMAIN pass'.scored
      BY <3>1 DEF With
    <3> QED BY <3>1, <3>2, <3>3 DEF Ordered
  <2>6. CASE PostEntry
    <3>1. /\ pass'.held = pass.held /\ pass'.scored = pass.scored /\ pass'.duels = pass.duels
          /\ pass'.judged = pass.judged /\ pass'.took = pass.took
          /\ pass'.rows = pass.rows \cup Posts
      BY <2>6 DEF PostEntry, IInv, PassOK
    <3>2. pass.duels = None /\ pass.at.run \in pass.held
      BY <2>6 DEF PostEntry, Scored, HeldByPass, Ordered
    <3>3. \A x \in Posts : x[2] = pass.at.run
      BY DEF Posts, PostsFor, Posted
    <3> QED BY <3>1, <3>2, <3>3 DEF Ordered
  <2>7. CASE ReadDuels
    <3>1. /\ pass'.held = pass.held /\ pass'.scored = pass.scored /\ pass'.rows = pass.rows
          /\ pass'.judged = pass.judged /\ pass'.took = pass.took
          /\ pass'.at = pass.at /\ pass'.todo = pass.todo
      BY <2>7 DEF ReadDuels, IInv, PassOK
    <3>2. /\ pass.at = None /\ pass.todo = {} /\ pass.duels = None
          /\ DOMAIN pass.judged = {} /\ pass.took = {}
      BY <2>7 DEF ReadDuels, Ordered
    <3> QED BY <3>1, <3>2 DEF Ordered
  <2>8. ASSUME NEW a \in Runs, JudgeDuel(a)
        PROVE  Ordered'
    <3>1. /\ pass'.held = pass.held /\ pass'.scored = pass.scored /\ pass'.rows = pass.rows
          /\ pass'.duels = pass.duels /\ pass'.took = pass.took
          /\ pass'.at = pass.at /\ pass'.todo = pass.todo
      BY <2>8 DEF JudgeDuel, IInv, PassOK
    <3>2. pass.duels # None
      BY <2>8 DEF JudgeDuel
    <3> QED BY <3>1, <3>2 DEF Ordered
  <2>9. CASE WriteDuels
    <3>1. /\ pass'.held = pass.held /\ pass'.scored = pass.scored /\ pass'.rows = pass.rows
          /\ pass'.duels = pass.duels /\ pass'.judged = pass.judged
          /\ pass'.at = pass.at /\ pass'.todo = pass.todo
      BY <2>9 DEF WriteDuels, IInv, PassOK
    <3>2. pass.duels # None
      BY <2>9 DEF WriteDuels, Ordered
    <3> QED BY <3>1, <3>2 DEF Ordered
  <2>10. CASE WriteRuns
    <3>1. CASE pass' = [pass EXCEPT !.held = DOMAIN pass.scored]
      <4>1. /\ pass'.held = DOMAIN pass.scored /\ pass'.scored = pass.scored
            /\ pass'.rows = pass.rows /\ pass'.duels = pass.duels
            /\ pass'.judged = pass.judged /\ pass'.took = pass.took
            /\ pass'.at = pass.at /\ pass'.todo = pass.todo
        BY <3>1 DEF IInv, PassOK
      <4> QED BY <4>1 DEF Ordered
    <3> QED BY <2>1, <2>10, <3>1 DEF WriteRuns
  <2>11. CASE ClosePass \/ LosePass \/ BreakDeadlock
    BY <2>1, <2>2, <2>11 DEF ClosePass, LosePass, BreakDeadlock
  <2>12. CASE \/ \E f \in Fields : PassTime(f)
              \/ \E r \in Runs : AskEntry(r)
              \/ \E x \in Requests : Ask(x[1], x[2], x[3])
              \/ \E p \in Players : Enter(p) \/ Queue(p) \/ Forfeit(p)
              \/ \E a, b \in Runs : ReadPair(a, b)
              \/ InsertDuel \/ BeginClaim \/ ClaimStep \/ LoseClaim \/ UNCHANGED vars
    BY <2>2, <2>12
       DEF PassTime, AskEntry, Ask, Enter, Queue, Forfeit, ReadPair, InsertDuel, BeginClaim,
           ClaimStep, MoveEntries, MoveOrders, ReadClaimed, MoveCareer, MoveDuels, Finish,
           LoseClaim, vars
  <2> QED BY <2>3, <2>4, <2>5, <2>6, <2>7, <2>8, <2>9, <2>10, <2>11, <2>12
          DEF Next, PassStep
<1> QED BY <1>1, <1>2, Inductive, PTL DEF Spec

\* The order of locks of MergeService.execute and the scoring pass: they wait for
\* each other only when the claim is at its career rows, over a stipend, or at the
\* duels, over a run the pass has posted nothing for and writes after its duel.
THEOREM OneWait == Spec => []OneOrder
<1>1. ASSUME IInv, Ordered
      PROVE  OneOrder
  <2> SUFFICES ASSUME AwaitsPass, AwaitsClaim, claim.pc # "career"
               PROVE  /\ Turn("duels") /\ pass.duels # None
                      /\ \E r \in Unwritten : HeldByClaim("entry", r)
                                              /\ ~\E x \in pass.rows : x[2] = r
    BY DEF OneOrder
  <2>1. ~Turn("entries")
    <3> SUFFICES ASSUME Turn("entries")
                 PROVE  FALSE
      OBVIOUS
    <3>1. claim.did = 0
      BY <1>1 DEF Turn, Statements, IInv, ClaimOK
    <3>2. claim.moved = {} /\ claim.dropped = {}
      BY <1>1, <3>1 DEF IInv, ClaimOK
    <3> QED BY <3>2 DEF AwaitsClaim, AwaitsDuel, AwaitsRun, AwaitsStipend, HeldByClaim
  <2>2. Turn("duels") /\ pass.took # {}
    BY <2>1 DEF AwaitsPass
  <2>3. pass.duels # None /\ pass.at = None
    BY <1>1, <2>2 DEF Ordered
  <2>4. claim.did = 3
    BY <1>1, <2>2 DEF Turn, Statements, IInv, ClaimOK
  <2>5. ~AwaitsDuel
    <3>1. \A k \in claim.moved \cup claim.dropped : k[1] \notin Sides
      BY <1>1, <2>4 DEF IInv, ClaimOK
    <3>2. Covers("duels") = Sides
      BY DEF Covers, Sides
    <3> QED BY <3>1, <3>2 DEF AwaitsDuel, HeldByClaim
  <2>6. AwaitsRun
    BY <2>3, <2>5 DEF AwaitsClaim, Scored
  <2>7. PICK r \in Unwritten : HeldByClaim("entry", r)
    BY <2>6 DEF AwaitsRun
  <2>8. ~\E x \in pass.rows : x[2] = r
    BY <1>1, <2>7 DEF Ordered, Unwritten
  <2> QED BY <2>2, <2>3, <2>7, <2>8
<1> QED BY <1>1, Inductive, OrderKept, PTL

\* No step deletes a career row (_rekey_career_events included) but the commit of
\* a claim, and that one only stipends for a period the user has a stipend for.
THEOREM CareerStays == Spec => CareerKept
<1>1. IInv /\ [Next]_vars => [CareerStep]_vars
  BY StepKeeps, MergeAssumption
<1>2. CareerStep => \A t \in Reasons, r \in Runs :
          owner[t][r] # None /\ owner'[t][r] = None
             => /\ t = "finish_stipend"
                /\ \E d \in Runs : /\ owner'["finish_stipend"][d] = User
                                   /\ Period[Field(d)] = Period[Field(r)]
  BY DEF CareerStep, HasStipend
<1> QED BY <1>1, <1>2, Inductive, PTL DEF Spec, CareerKept

-----------------------------------------------------------------------------
(* Duels follow their runs.                                                *)

Begun(r) == state[r] # "none"

\* A run that nobody has entered names nobody, a live one names its owner.
RunsOK ==
    /\ state \in [Runs -> {"none", "live", "forfeit", "finished", "void", "dropped"}]
    /\ rival \in [Runs -> Runs \cup {None}] /\ settled \subseteq Runs
    /\ \A r \in Runs : /\ ~Begun(r) => owner["entry"][r] = None
                       /\ state[r] = "live" => owner["entry"][r] # None

\* Who asks to enter a run is the only one who may, and nobody has.
Asked ==
    /\ request \in [Players -> ({"enter", "forfeit", "queue"} \X Runs) \cup {None}]
    /\ \A p \in Players : request[p] # None =>
          IF request[p][1] = "enter" THEN request[p][2][1] = p /\ ~Begun(request[p][2])
                                     ELSE Begun(request[p][2])

\* The pass scores runs that were entered.
ScoresOK ==
    /\ pass.at # None => Begun(pass.at.run) /\ pass.at.result \in {"finished", "void"}
    /\ \A r \in DOMAIN pass.scored : /\ r \in Runs /\ Begun(r)
                                     /\ pass.scored[r] \in {"finished", "void"}

\* An account read for a run is the run's still, or the guest's and deleted.
Deleted(p) == p = Guest /\ claim.pc = "done"
Current(p, r) ==
    owner["entry"][r] \in {p, None} \/ <<"entry", r>> \in late \/ Deleted(p)

PairingOK ==
    pairing # None =>
        /\ pairing.a \in Runs /\ pairing.b \in Runs
        /\ Begun(pairing.a) /\ Begun(pairing.b)
        /\ rival[pairing.a] = None
        /\ pairing.side_a \in Players /\ pairing.side_b \in Players
        /\ Current(pairing.side_a, pairing.a) /\ Current(pairing.side_b, pairing.b)

SideFollows(side, a, r) ==
    \/ owner["entry"][r] \in {owner[side][a], None}
    \/ {<<side, a>>, <<"entry", r>>} \cap late # {}
WinnerIsASide(a) ==
    \/ owner["winner"][a] \in {owner["side_a"][a], owner["side_b"][a], None}
    \/ <<"winner", a>> \in late

\* DuelsFollow for one run, and its rows: none without a duel, no winner before
\* the duel is settled.
DuelOK(a) ==
    IF rival[a] = None THEN \A t \in {"side_a", "side_b", "winner"} : owner[t][a] = None
    ELSE /\ Begun(a) /\ Begun(rival[a])
         /\ SideFollows("side_a", a, a) /\ SideFollows("side_b", a, rival[a])
         /\ owner["winner"][a] # None => a \in settled
         /\ WinnerIsASide(a)
DuelsOK == \A a \in Runs : DuelOK(a)

\* The duels the pass has read are not settled by anybody else, and name the
\* accounts it has read.
DuelsRead ==
    pass.duels # None => \A a \in DOMAIN pass.duels :
        /\ a \in DOMAIN pass.judged => pass.judged[a] \in {"none", "a", "b"}
        /\ a \in Runs \ settled /\ rival[a] # None
        /\ pass.duels[a].a = owner["side_a"][a] \/ Deleted(pass.duels[a].a)
        /\ pass.duels[a].b = owner["side_b"][a] \/ Deleted(pass.duels[a].b)

\* What the merge holds is the guest's until it commits; with a winner it has
\* the side that won.
HoldsOK ==
    /\ \A k \in claim.moved \cup claim.dropped :
          k[1] # "order" => owner[k[1]][k[2]] = Guest
    /\ \A k \in claim.dropped : k[1] \in {"entry"} \cup Reasons
    /\ \A a \in Runs : <<"winner", a>> \in claim.moved =>
          \/ <<"winner", a>> \in late
          \/ \E t \in {"side_a", "side_b"} : owner[t][a] = Guest /\ <<t, a>> \in claim.moved

DInv == RunsOK /\ Asked /\ ScoresOK /\ PairingOK /\ DuelsOK /\ DuelsRead /\ HoldsOK

-----------------------------------------------------------------------------
(* Steps that write no row                                                 *)

\* Where no row, run or duel changes, each part rests on its own variable.
LEMMA QuietParts ==
    ASSUME DInv, UNCHANGED <<owner, late, rival, settled, state>>,
           claim.pc = "done" => claim'.pc = "done"
    PROVE  /\ RunsOK' /\ DuelsOK'
           /\ request' = request => Asked'
           /\ pairing' = pairing => PairingOK'
           /\ pass'.at = pass.at /\ pass'.scored = pass.scored => ScoresOK'
           /\ pass'.duels = pass.duels /\ pass'.judged = pass.judged => DuelsRead'
           /\ claim' = claim => HoldsOK'
<1>1. RunsOK'
  BY DEF DInv, RunsOK, Begun
<1>2. DuelsOK'
  BY DEF DInv, DuelsOK, DuelOK, Begun, SideFollows, WinnerIsASide
<1>3. request' = request => Asked'
  BY DEF DInv, Asked, Begun
<1>4. pairing' = pairing => PairingOK'
  BY DEF DInv, PairingOK, Begun, Current, Deleted
<1>5. pass'.at = pass.at /\ pass'.scored = pass.scored => ScoresOK'
  BY DEF DInv, ScoresOK, Begun
<1>6. pass'.duels = pass.duels /\ pass'.judged = pass.judged => DuelsRead'
  BY DEF DInv, DuelsRead, Deleted
<1>7. claim' = claim => HoldsOK'
  BY DEF DInv, HoldsOK
<1> QED BY <1>1, <1>2, <1>3, <1>4, <1>5, <1>6, <1>7

LEMMA AskKeeps ==
    ASSUME MergeAssumption, IInv, DInv,
           \/ \E r \in Runs : AskEntry(r)
           \/ \E x \in Requests : Ask(x[1], x[2], x[3])
    PROVE  DInv'
<1>1. /\ UNCHANGED <<owner, late, rival, settled, state, pairing, pass, claim>>
  BY DEF AskEntry, Ask
<1>2. PICK p \in Players, what \in {"enter", "forfeit", "queue"}, r \in Runs :
          /\ request' = [request EXCEPT ![p] = <<what, r>>]
          /\ what = "enter" => r[1] = p /\ ~Begun(r)
          /\ what # "enter" => Begun(r)
  <2>1. ASSUME NEW r \in Runs, AskEntry(r)
        PROVE  r[1] \in Players /\ request' = [request EXCEPT ![r[1]] = <<"enter", r>>] /\ ~Begun(r)
    BY <2>1, MergeAssumption DEF AskEntry, MergeAssumption, Begun
  <2>2. ASSUME NEW x \in Requests, Ask(x[1], x[2], x[3])
        PROVE  /\ x[1] \in Players /\ x[2] \in {"forfeit", "queue"} /\ x[3] \in Runs
               /\ request' = [request EXCEPT ![x[1]] = <<x[2], x[3]>>] /\ Begun(x[3])
    BY <2>2, MergeAssumption DEF Ask, MergeAssumption, Begun
  <2> QED BY <2>1, <2>2
<1>3. request' \in [Players -> ({"enter", "forfeit", "queue"} \X Runs) \cup {None}]
  BY <1>2 DEF DInv, Asked
<1>4. Asked'
  BY <1>1, <1>2, <1>3 DEF DInv, Asked, Begun
<1> QED BY <1>1, <1>4, QuietParts DEF DInv

LEMMA ReadPairKeeps ==
    ASSUME MergeAssumption, IInv, DInv, NEW a \in Runs, NEW b \in Runs, ReadPair(a, b)
    PROVE  DInv'
<1>1. UNCHANGED <<owner, late, rival, settled, state, request, pass, claim>>
  BY DEF ReadPair
<1>2. pairing' = [a |-> a, b |-> b, side_a |-> owner["entry"][a], side_b |-> owner["entry"][b]]
  BY DEF ReadPair
<1>3. Begun(a) /\ Begun(b) /\ rival[a] = None
  BY DEF ReadPair, Begun, InADuel
<1>4. owner["entry"][a] \in Players /\ owner["entry"][b] \in Players
  BY DEF ReadPair, DInv, RunsOK, IInv, OwnerOK, Tables
<1>5. PairingOK'
  BY <1>1, <1>2, <1>3, <1>4 DEF PairingOK, Current, Begun
<1> QED BY <1>1, <1>5, QuietParts DEF DInv

LEMMA ReadEntryKeeps ==
    ASSUME IInv, DInv, NEW r \in Runs, ReadEntry(r)
    PROVE  DInv'
<1>1. UNCHANGED <<owner, late, rival, settled, state, request, pairing, claim>>
  BY DEF ReadEntry
<1>2. /\ pass'.scored = pass.scored
      /\ pass'.duels = pass.duels /\ pass'.judged = pass.judged
      /\ pass'.at # None =>
            /\ pass'.at.run = r /\ state[r] = "live"
            /\ pass'.at.result \in {"finished", "void"}
  BY DEF ReadEntry, IInv, PassOK
<1>3. ScoresOK'
  BY <1>1, <1>2 DEF DInv, ScoresOK, Begun
<1> QED BY <1>1, <1>2, <1>3, QuietParts DEF DInv

LEMMA NoPassParts ==
    ASSUME pass'.at = None, pass'.duels = None, pass'.scored = <<>>
    PROVE  ScoresOK' /\ DuelsRead'
<1>1. DOMAIN pass'.scored = {}
  OBVIOUS
<1> QED BY <1>1 DEF ScoresOK, DuelsRead

LEMMA ScoreKeeps ==
    ASSUME IInv, DInv, ScoreEntry
    PROVE  DInv'
<1> DEFINE r == pass.at.run
<1>1. UNCHANGED <<owner, late, rival, settled, state, request, pairing, claim>>
  BY DEF ScoreEntry
<1>2. /\ pass'.at \in {None, pass.at}
      /\ pass'.duels = pass.duels /\ pass'.judged = pass.judged
      /\ pass'.scored = With(pass.scored, r, pass.at.result)
  BY DEF ScoreEntry, IInv, PassOK
<1>3. r \in Runs /\ Begun(r) /\ pass.at.result \in {"finished", "void"}
  BY DEF ScoreEntry, IInv, PassOK, DInv, ScoresOK
<1> HIDE DEF r
<1>4. \A q \in DOMAIN pass'.scored :
          \/ q \in DOMAIN pass.scored /\ pass'.scored[q] = pass.scored[q]
          \/ q = r /\ pass'.scored[q] = pass.at.result
  BY <1>2 DEF With
<1>5. ScoresOK'
  BY <1>1, <1>2, <1>3, <1>4 DEF DInv, ScoresOK, Begun
<1> QED BY <1>1, <1>2, <1>5, QuietParts DEF DInv

\* Posts and writes of the pass leave what it has scored and judged alone.
LEMMA WrittenKeeps ==
    ASSUME IInv, DInv, PostEntry \/ WriteRuns \/ WriteDuels
    PROVE  DInv'
<1>1. UNCHANGED <<owner, late, rival, settled, state, request, pairing, claim>>
  BY DEF PostEntry, WriteRuns, WriteDuels
<1>2. CASE pass' = NoPass
  <2>1. pass'.at = None /\ pass'.duels = None /\ pass'.scored = <<>>
    BY <1>2 DEF NoPass
  <2> QED BY <1>1, <2>1, NoPassParts, QuietParts DEF DInv
<1>3. CASE PostEntry
  <2>1. /\ pass'.scored = pass.scored /\ pass'.at = None
        /\ pass'.duels = pass.duels /\ pass'.judged = pass.judged
    BY <1>3 DEF PostEntry, IInv, PassOK
  <2>2. ScoresOK'
    BY <1>1, <2>1 DEF DInv, ScoresOK, Begun
  <2> QED BY <1>1, <2>1, <2>2, QuietParts DEF DInv
<1>4. CASE WriteDuels \/ pass' = [pass EXCEPT !.held = DOMAIN pass.scored]
  <2>1. /\ pass'.scored = pass.scored /\ pass'.at = pass.at
        /\ pass'.duels = pass.duels /\ pass'.judged = pass.judged
    BY <1>4 DEF WriteDuels, IInv, PassOK
  <2> QED BY <1>1, <2>1, QuietParts DEF DInv
<1> QED BY <1>2, <1>3, <1>4 DEF WriteRuns

LEMMA JudgeDuelKeeps ==
    ASSUME IInv, DInv, NEW d \in Runs, JudgeDuel(d)
    PROVE  DInv'
<1>1. UNCHANGED <<owner, late, rival, settled, state, request, pairing, claim>>
  BY DEF JudgeDuel
<1>2. PICK won \in {"none", "a", "b"} : pass' = [pass EXCEPT !.judged = With(@, d, won)]
  BY DEF JudgeDuel, Winners
<1>3. /\ pass'.scored = pass.scored /\ pass'.at = pass.at /\ pass'.duels = pass.duels
      /\ pass'.judged = With(pass.judged, d, won)
  BY <1>2 DEF IInv, PassOK
<1>4. \A a \in DOMAIN pass'.judged : \/ a \in DOMAIN pass.judged
                                         /\ pass'.judged[a] = pass.judged[a]
                                    \/ pass'.judged[a] = won
  BY <1>3 DEF With
<1>5. DuelsRead'
  BY <1>1, <1>3, <1>4 DEF DInv, DuelsRead, Deleted
<1> QED BY <1>1, <1>3, <1>5, QuietParts DEF DInv

LEMMA ReadDuelsKeeps ==
    ASSUME IInv, Ordered, DInv, ReadDuels
    PROVE  DInv'
<1>1. UNCHANGED <<owner, late, rival, settled, state, request, pairing, claim>>
  BY DEF ReadDuels
<1>2. /\ pass'.scored = pass.scored /\ pass'.at = pass.at /\ pass'.judged = pass.judged
      /\ pass'.duels = [a \in {r \in Runs \ settled : rival[r] # None /\ Field(r) = pass.field} |->
                          [a |-> owner["side_a"][a], b |-> owner["side_b"][a]]]
  BY DEF ReadDuels, IInv, PassOK
<1>3. DOMAIN pass'.judged = {}
  BY <1>2 DEF ReadDuels, Ordered
<1>4. DuelsRead'
  BY <1>1, <1>2, <1>3 DEF DuelsRead
<1> QED BY <1>1, <1>2, <1>4, QuietParts DEF DInv

-----------------------------------------------------------------------------
(* Steps of the merge                                                      *)

LEMMA HoldNothing ==
    ASSUME claim'.moved = {}, claim'.dropped = {}
    PROVE  HoldsOK'
BY DEF HoldsOK

\* A statement adds rows that name the guest; with winners it adds sides.
LEMMA HoldMore ==
    ASSUME IInv, DInv, UNCHANGED <<owner, late>>, NEW m, NEW d, claim' = Done(m, d),
           \A k \in m \cup d : owner[k[1]][k[2]] = Guest,
           \A k \in d : k[1] \in {"entry"} \cup Reasons,
           \A a \in Runs : <<"winner", a>> \in m =>
               \/ <<"winner", a>> \in late
               \/ \E t \in {"side_a", "side_b"} : owner[t][a] = Guest /\ <<t, a>> \in m
    PROVE  HoldsOK'
<1>1. claim'.moved = claim.moved \cup m /\ claim'.dropped = claim.dropped \cup d
  BY ClaimShape DEF IInv, ClaimOK, Done
<1> QED BY <1>1 DEF DInv, HoldsOK

LEMMA ClaimStepKeeps ==
    ASSUME MergeAssumption, IInv, DInv,
           \/ BeginClaim \/ MoveEntries \/ MoveOrders \/ ReadClaimed \/ MoveCareer
           \/ MoveDuels \/ LoseClaim
    PROVE  DInv'
<1>1. UNCHANGED <<owner, late, rival, settled, state, request, pairing, pass>>
  BY DEF BeginClaim, MoveEntries, MoveOrders, ReadClaimed, MoveCareer, MoveDuels, LoseClaim
<1>2. claim.pc # "done"
  BY DEF BeginClaim, MoveEntries, MoveOrders, ReadClaimed, MoveCareer, MoveDuels, LoseClaim,
         Turn, Open
<1>3. CASE claim'.moved = {} /\ claim'.dropped = {}
  BY <1>1, <1>2, <1>3, QuietParts, HoldNothing DEF DInv
<1>4. CASE \/ claim' = NoClaim \/ claim' = [NoClaim EXCEPT !.pc = "refused"] \/ BeginClaim
  <2>1. claim'.moved = {} /\ claim'.dropped = {}
    <3>1. CASE claim' = NoClaim
      BY <3>1 DEF NoClaim
    <3>2. CASE claim' = [NoClaim EXCEPT !.pc = "refused"]
      BY <3>2 DEF NoClaim
    <3>3. CASE BeginClaim
      BY <3>3 DEF NoClaim, BeginClaim
    <3> QED BY <1>4, <3>1, <3>2, <3>3
  <2> QED BY <1>3, <2>1
<1>5. CASE ReadClaimed
  <2>1. claim'.moved = claim.moved /\ claim'.dropped = claim.dropped
    BY <1>5, ClaimShape DEF ReadClaimed, IInv, ClaimOK
  <2>2. HoldsOK'
    BY <1>1, <2>1 DEF DInv, HoldsOK
  <2> QED BY <1>1, <1>2, <2>2, QuietParts DEF DInv
<1>6. ASSUME NEW kept, NEW gone, claim' = Done({"entry"} \X kept, {"entry"} \X gone),
             kept \cup gone \subseteq Owned("entry", Guest)
      PROVE  HoldsOK'
  <2>1. \A k \in ({"entry"} \X kept) \cup ({"entry"} \X gone) :
            k[1] = "entry" /\ owner[k[1]][k[2]] = Guest
    BY <1>6 DEF Owned
  <2>2. \A a : <<"winner", a>> \notin {"entry"} \X kept
    OBVIOUS
  <2> DEFINE m == {"entry"} \X kept
             d == {"entry"} \X gone
  <2>3. claim' = Done(m, d)
    BY <1>6
  <2> HIDE DEF m, d
  <2> QED BY <1>1, <2>1, <2>2, <2>3, HoldMore DEF m, d
<1>7. CASE MoveEntries
  <2> DEFINE mine == Owned("entry", Guest)
             kept == {r \in mine : Field(r) \notin claim.skip}
  <2>1. \/ claim' = NoClaim \/ claim' = [NoClaim EXCEPT !.pc = "refused"]
        \/ claim' = Done({"entry"} \X kept, {"entry"} \X (mine \ kept))
    BY <1>7 DEF MoveEntries, Failed
  <2>2. kept \cup (mine \ kept) \subseteq Owned("entry", Guest)
    OBVIOUS
  <2> HIDE DEF mine, kept
  <2>3. CASE claim' = Done({"entry"} \X kept, {"entry"} \X (mine \ kept))
    BY <1>1, <1>2, <1>6, <2>2, <2>3, QuietParts DEF DInv
  <2> QED BY <1>4, <2>1, <2>3
<1>8. ASSUME NEW tables, "winner" \notin tables, NEW m, NEW d, m \cup d \subseteq OfGuest(tables),
             claim' = Done(m, d), \A k \in d : k[1] \in Reasons
      PROVE  DInv'
  <2>1. \A k \in m \cup d : owner[k[1]][k[2]] = Guest /\ k \in tables \X Runs
    BY <1>8 DEF OfGuest
  <2>2. \A a : <<"winner", a>> \notin m
    BY <1>8, <2>1
  <2>3. HoldsOK'
    BY <1>1, <1>8, <2>1, <2>2, HoldMore
  <2> QED BY <1>1, <1>2, <2>3, QuietParts DEF DInv
<1>9. CASE MoveOrders
  BY <1>8, <1>9 DEF MoveOrders
<1>10. CASE MoveCareer
  <2>1. \/ claim' = NoClaim
        \/ claim' = Done(Moving, {k \in OfGuest(Reasons) : Conflicting(k)})
    BY <1>10 DEF MoveCareer, Failed
  <2> DEFINE gone == {k \in OfGuest(Reasons) : Conflicting(k)}
  <2>2. Moving \cup gone \subseteq OfGuest(Reasons) /\ \A k \in gone : k[1] \in Reasons
    BY DEF Moving, OfGuest
  <2>3. "winner" \notin Reasons
    BY DEF Reasons
  <2> HIDE DEF gone
  <2>4. CASE claim' = Done(Moving, gone)
    BY <1>8, <2>2, <2>3, <2>4
  <2> QED BY <1>4, <2>1, <2>4 DEF gone
<1>11. CASE MoveDuels
  <2> DEFINE m == OfGuest(Covers("duels"))
  <2>1. claim' = Done(m, {})
    BY <1>11 DEF MoveDuels
  <2>2. \A k \in m : owner[k[1]][k[2]] = Guest
    BY DEF OfGuest
  <2>3. ASSUME NEW a \in Runs, <<"winner", a>> \in m, <<"winner", a>> \notin late
        PROVE  \E t \in {"side_a", "side_b"} : owner[t][a] = Guest /\ <<t, a>> \in m
    <3>1. owner["winner"][a] = Guest /\ Guest # None
      BY <2>2, <2>3, MergeAssumption DEF MergeAssumption, Players
    <3>2. \E t \in {"side_a", "side_b"} : owner[t][a] = Guest
      BY <2>3, <3>1 DEF DInv, DuelsOK, DuelOK, WinnerIsASide
    <3>3. ASSUME NEW t \in {"side_a", "side_b"}, owner[t][a] = Guest PROVE <<t, a>> \in m
      BY <3>3 DEF OfGuest, Covers
    <3> QED BY <3>2, <3>3
  <2> HIDE DEF m
  <2>4. HoldsOK'
    BY <1>1, <2>1, <2>2, <2>3, HoldMore
  <2> QED BY <1>1, <1>2, <2>4, QuietParts DEF DInv
<1> QED BY <1>4, <1>5, <1>7, <1>9, <1>10, <1>11 DEF LoseClaim

-----------------------------------------------------------------------------
(* Steps that write rows beside the merge                                  *)

\* Entered runs keep their owner, duels their sides, winners stay.
OnlyAdds ==
    /\ late \subseteq late'
    /\ \A r \in Runs : Begun(r) => Begun(r)' /\ owner'["entry"][r] = owner["entry"][r]
    /\ \A a \in Runs : rival[a] # None =>
          /\ rival'[a] = rival[a]
          /\ owner'["side_a"][a] = owner["side_a"][a] /\ owner'["side_b"][a] = owner["side_b"][a]
    /\ \A a \in Runs : owner["winner"][a] # None => owner'["winner"][a] = owner["winner"][a]

LEMMA PutLeaves ==
    ASSUME IInv, NEW rows, Put(rows), NEW t \in Tables,
           \A r \in Runs, p \in Players : <<t, r, p>> \notin rows
    PROVE  \A r \in Runs : owner'[t][r] = owner[t][r]
  BY PutWrites DEF IInv

LEMMA WriteParts ==
    ASSUME MergeAssumption, IInv, IInv', DInv, OnlyAdds, UNCHANGED claim
    PROVE  /\ pairing' = pairing /\ rival'[pairing.a] = rival[pairing.a] => PairingOK'
           /\ pass' = pass => ScoresOK'
           /\ pass' = pass /\ settled' = settled => DuelsRead'
           /\ HoldsOK'
           /\ \A a \in Runs : rival[a] # None /\ settled \subseteq settled'
                              /\ owner'["winner"][a] = owner["winner"][a] => DuelOK(a)'
<1>1. ASSUME NEW p, NEW r \in Runs, Begun(r), Current(p, r)
      PROVE  Current(p, r)'
  BY <1>1 DEF OnlyAdds, Current, Deleted
<1>2. pairing' = pairing /\ rival'[pairing.a] = rival[pairing.a] => PairingOK'
  BY <1>1 DEF DInv, PairingOK, OnlyAdds
<1>3. pass' = pass => ScoresOK'
  BY DEF DInv, ScoresOK, OnlyAdds, IInv, PassOK
<1>4. pass' = pass /\ settled' = settled => DuelsRead'
  BY DEF DInv, DuelsRead, OnlyAdds, Deleted
<1>5. None # Guest
  BY MergeAssumption DEF MergeAssumption, Players
<1>6. HoldsOK'
  <2>1. ASSUME NEW k \in claim.moved \cup claim.dropped, k[1] # "order"
        PROVE  owner'[k[1]][k[2]] = Guest
    <3>1. k[1] \in Tables /\ k[2] \in Runs /\ owner[k[1]][k[2]] = Guest
      BY <2>1 DEF IInv, ClaimOK, Rows, DInv, HoldsOK
    <3>2. CASE k[1] = "entry"
      BY <1>5, <3>1, <3>2 DEF OnlyAdds, DInv, RunsOK
    <3>3. CASE k[1] \in {"side_a", "side_b"}
      BY <1>5, <3>1, <3>3 DEF OnlyAdds, DInv, DuelsOK, DuelOK
    <3>4. CASE k[1] = "winner"
      BY <1>5, <3>1, <3>4 DEF OnlyAdds
    <3>5. CASE k[1] \in Reasons
      BY <2>1, <3>5 DEF IInv, FromGuest
    <3> QED BY <2>1, <3>1, <3>2, <3>3, <3>4, <3>5 DEF Tables
  <2>2. ASSUME NEW a \in Runs, NEW t \in {"side_a", "side_b"}, owner[t][a] = Guest
        PROVE  owner'[t][a] = Guest
    BY <1>5, <2>2 DEF OnlyAdds, DInv, DuelsOK, DuelOK
  <2>3. ASSUME NEW a \in Runs, <<"winner", a>> \in claim.moved
        PROVE  \/ <<"winner", a>> \in late'
               \/ \E t \in {"side_a", "side_b"} : owner'[t][a] = Guest /\ <<t, a>> \in claim.moved
    BY <2>2, <2>3 DEF OnlyAdds, DInv, HoldsOK
  <2> QED BY <2>1, <2>3 DEF DInv, HoldsOK
<1>7. ASSUME NEW a \in Runs, rival[a] # None, settled \subseteq settled',
             owner'["winner"][a] = owner["winner"][a]
      PROVE  DuelOK(a)'
  <2>1. /\ DuelOK(a) /\ rival'[a] = rival[a] /\ rival[a] \in Runs
        /\ owner'["side_a"][a] = owner["side_a"][a] /\ owner'["side_b"][a] = owner["side_b"][a]
    BY <1>7 DEF OnlyAdds, DInv, DuelsOK, RunsOK
  <2>2. /\ owner'["entry"][a] = owner["entry"][a] /\ Begun(a)'
        /\ owner'["entry"][rival[a]] = owner["entry"][rival[a]] /\ Begun(rival[a])'
    BY <1>7, <2>1 DEF OnlyAdds, DuelOK
  <2> QED BY <1>7, <2>1, <2>2 DEF OnlyAdds, DuelOK, SideFollows, WinnerIsASide, Begun
<1> QED BY <1>2, <1>3, <1>4, <1>6, <1>7

\* What leaves sides, winners and duels alone leaves the runs without a duel so.
LEMMA NoNewDuel ==
    ASSUME MergeAssumption, IInv, IInv', DInv, OnlyAdds,
           UNCHANGED <<claim, rival, settled, pairing, pass>>,
           \A t \in {"side_a", "side_b", "winner"}, r \in Runs : owner'[t][r] = owner[t][r]
    PROVE  PairingOK' /\ ScoresOK' /\ DuelsOK' /\ DuelsRead' /\ HoldsOK'
<1>1. ASSUME NEW a \in Runs PROVE DuelOK(a)'
  <2>1. CASE rival[a] = None
    BY <2>1 DEF DInv, DuelsOK, DuelOK
  <2>2. CASE rival[a] # None
    BY <2>2, WriteParts
  <2> QED BY <2>1, <2>2
<1> QED BY <1>1, WriteParts DEF DuelsOK

LEMMA RequestDone ==
    ASSUME DInv, NEW p \in Players, request' = [request EXCEPT ![p] = None],
           \A q \in Players \ {p} : request[q] # None =>
               (state'[request[q][2]] = "none" <=> state[request[q][2]] = "none")
    PROVE  Asked'
<1>1. request' \in [Players -> ({"enter", "forfeit", "queue"} \X Runs) \cup {None}]
  BY DEF DInv, Asked
<1>2. /\ \A q \in Players \ {p} : request'[q] = request[q]
      /\ request'[p] = None
  BY DEF DInv, Asked
<1> QED BY <1>1, <1>2 DEF DInv, Asked, Begun

LEMMA EnterKeeps ==
    ASSUME MergeAssumption, IInv, IInv', DInv, NEW p \in Players, Enter(p)
    PROVE  DInv'
<1> DEFINE r == request[p][2]
<1>1. r \in Runs /\ r[1] = p /\ ~Begun(r)
  BY DEF Enter, DInv, Asked
<1>2. /\ UNCHANGED <<rival, settled, pairing, pass, claim>>
      /\ request' = [request EXCEPT ![p] = None]
  BY DEF Enter
<1>3. p # None
  BY MergeAssumption DEF MergeAssumption
<1> HIDE DEF r
<1>4. CASE UNCHANGED <<state, owner, late>>
  <2>1. Asked'
    BY <1>2, <1>4, RequestDone
  <2> QED BY <1>2, <1>4, <2>1, QuietParts DEF DInv
<1>5. CASE state' = [state EXCEPT ![r] = "live"] /\ Put({<<"entry", r, p>>})
  <2>1. \A t \in {"side_a", "side_b", "winner"}, q \in Runs : owner'[t][q] = owner[t][q]
    BY <1>5, PutLeaves DEF Tables
  <2> DEFINE rows == {<<"entry", r, p>>}
  <2>2. \A q \in Runs, o \in Players : <<"entry", q, o>> \in rows <=> q = r /\ o = p
    OBVIOUS
  <2>3. Put(rows) /\ "entry" \in Tables
    BY <1>5 DEF Tables
  <2> HIDE DEF rows
  <2>4. /\ \A q \in Runs \ {r} : owner'["entry"][q] = owner["entry"][q]
        /\ owner'["entry"][r] = p
    <3>1. ASSUME NEW q \in Runs \ {r} PROVE owner'["entry"][q] = owner["entry"][q]
      BY <2>2, <2>3, PutWrites DEF IInv
    <3>2. <<"entry", r, p>> \in rows
      BY <1>1, <2>2
    <3>3. PICK o \in Players : <<"entry", r, o>> \in rows /\ owner'["entry"][r] = o
      BY <1>1, <2>3, <3>2, PutWrites DEF IInv
    <3> QED BY <1>1, <2>2, <3>1, <3>3
  <2>5. /\ state' \in [Runs -> {"none", "live", "forfeit", "finished", "void", "dropped"}]
        /\ state'[r] = "live" /\ \A q \in Runs \ {r} : state'[q] = state[q]
    BY <1>1, <1>5 DEF DInv, RunsOK
  <2>6. RunsOK'
    BY <1>2, <1>3, <2>4, <2>5 DEF DInv, RunsOK, Begun
  <2>7. OnlyAdds
    BY <1>1, <1>2, <1>5, <2>1, <2>4, <2>5 DEF OnlyAdds, Begun, Put
  <2>8. ASSUME NEW q \in Players \ {p}, request[q] # None
        PROVE  state'[request[q][2]] = "none" <=> state[request[q][2]] = "none"
    <3>1. request[q][2] \in Runs
      BY <2>8 DEF DInv, Asked
    <3>2. request[q][2] # r \/ Begun(request[q][2])
      BY <1>1, <2>8 DEF DInv, Asked
    <3> QED BY <1>1, <2>5, <3>1, <3>2 DEF Begun
  <2>9. Asked'
    BY <1>2, <2>8, RequestDone
  <2> QED BY <1>2, <2>1, <2>6, <2>7, <2>9, NoNewDuel DEF DInv
<1> QED BY <1>4, <1>5 DEF Enter, r

\* A queued order or a forfeit: a run that was entered, and stays so.
LEMMA OrderKeeps ==
    ASSUME MergeAssumption, IInv, IInv', DInv, NEW p \in Players, Queue(p) \/ Forfeit(p)
    PROVE  DInv'
<1> DEFINE r == request[p][2]
<1>1. r \in Runs /\ Begun(r)
  BY DEF Queue, Forfeit, DInv, Asked
<1>2. /\ UNCHANGED <<rival, settled, pairing, pass, claim>>
      /\ request' = [request EXCEPT ![p] = None]
  BY DEF Queue, Forfeit
<1> HIDE DEF r
<1>3. CASE UNCHANGED <<state, owner, late>>
  <2>1. Asked'
    BY <1>2, <1>3, RequestDone
  <2> QED BY <1>2, <1>3, <2>1, QuietParts DEF DInv
<1>4. ASSUME NEW rows, Put(rows), state' \in {state, [state EXCEPT ![r] = "forfeit"]},
             \A t \in {"entry", "side_a", "side_b", "winner"}, q \in Runs, o \in Players :
                 <<t, q, o>> \notin rows
      PROVE  DInv'
  <2>1. \A t \in {"entry", "side_a", "side_b", "winner"}, q \in Runs : owner'[t][q] = owner[t][q]
    BY <1>4, PutLeaves DEF Tables
  <2>2. /\ state' \in [Runs -> {"none", "live", "forfeit", "finished", "void", "dropped"}]
        /\ \A q \in Runs : state'[q] = state[q] \/ (q = r /\ state'[q] = "forfeit")
    BY <1>1, <1>4 DEF DInv, RunsOK
  <2>3. \A q \in Runs : Begun(q)' <=> Begun(q)
    BY <1>1, <2>2 DEF Begun
  <2>4. RunsOK'
    BY <1>2, <2>1, <2>2, <2>3 DEF DInv, RunsOK
  <2>5. OnlyAdds
    BY <1>2, <1>4, <2>1, <2>3 DEF OnlyAdds, Put
  <2>6. \A q \in Players : request[q] # None => request[q][2] \in Runs
    BY DEF DInv, Asked
  <2>7. Asked'
    BY <1>2, <2>3, <2>6, RequestDone DEF Begun
  <2> QED BY <1>2, <2>1, <2>4, <2>5, <2>7, NoNewDuel DEF DInv
<1>5. CASE Queue(p)
  <2>1. Put({<<"order", r, p>>}) /\ state' = state
    BY <1>5 DEF Queue, r
  <2> QED BY <1>4, <2>1
<1>6. CASE Forfeit(p)
  <2>1. \/ UNCHANGED <<state, owner, late>>
        \/ Put(Posted("forfeit_debit", r, p)) /\ state' = [state EXCEPT ![r] = "forfeit"]
    BY <1>6 DEF Forfeit, r
  <2>2. \A t, q, o : <<t, q, o>> \in Posted("forfeit_debit", r, p) => t = "forfeit_debit"
    BY PostedIsNew
  <2> QED BY <1>3, <1>4, <2>1, <2>2
<1> QED BY <1>5, <1>6

LEMMA InsertDuelFollows ==
    ASSUME MergeAssumption, IInv, IInv', DInv, InsertDuel
    PROVE  DInv'
<1>1. PICK a \in Runs, b \in Runs, p \in Players, q \in Players :
          /\ pairing.a = a /\ pairing.b = b /\ pairing.side_a = p /\ pairing.side_b = q
          /\ rival[a] = None /\ Begun(a) /\ Begun(b) /\ Current(p, a) /\ Current(q, b)
  BY DEF InsertDuel, DInv, PairingOK
<1> DEFINE rows == {<<"side_a", a, p>>, <<"side_b", a, q>>}
<1>2. /\ UNCHANGED <<state, settled, request, pass, claim>> /\ pairing' = None
      /\ rival' = [rival EXCEPT ![a] = b] /\ Put(rows)
  BY <1>1 DEF InsertDuel
<1>3. None \notin Runs
  BY MergeAssumption DEF MergeAssumption
<1>4. /\ rival' \in [Runs -> Runs \cup {None}] /\ rival'[a] = b
      /\ \A d \in Runs \ {a} : rival'[d] = rival[d]
  BY <1>1, <1>2 DEF DInv, RunsOK
<1>5. \A t \in {"entry", "winner"}, d \in Runs : owner'[t][d] = owner[t][d]
  <2>1. \A t \in {"entry", "winner"}, d \in Runs, o \in Players : <<t, d, o>> \notin rows
    OBVIOUS
  <2> HIDE DEF rows
  <2> QED BY <1>2, <2>1, PutLeaves DEF Tables
<1>6. \A t \in {"side_a", "side_b"}, d \in Runs \ {a} : owner'[t][d] = owner[t][d]
  <2>1. \A t \in {"side_a", "side_b"}, d \in Runs \ {a}, o \in Players : <<t, d, o>> \notin rows
    OBVIOUS
  <2> HIDE DEF rows
  <2> QED BY <1>2, <2>1, PutWrites DEF Tables, IInv
<1>7. owner'["side_a"][a] = p /\ owner'["side_b"][a] = q
  <2>1. /\ \A o : <<"side_a", a, o>> \in rows <=> o = p
        /\ \A o : <<"side_b", a, o>> \in rows <=> o = q
    OBVIOUS
  <2> HIDE DEF rows
  <2>2. {"side_a", "side_b"} \subseteq Tables
    BY DEF Tables
  <2>3. PICK o \in Players : <<"side_a", a, o>> \in rows /\ owner'["side_a"][a] = o
    BY <1>1, <1>2, <2>1, <2>2, PutWrites DEF IInv
  <2>4. PICK z \in Players : <<"side_b", a, z>> \in rows /\ owner'["side_b"][a] = z
    BY <1>1, <1>2, <2>1, <2>2, PutWrites DEF IInv
  <2> QED BY <2>1, <2>3, <2>4
<1>8. late \subseteq late'
  BY <1>2 DEF Put
<1>9. ASSUME Deleted(p) PROVE <<"side_a", a>> \in late'
  <2>1. "side_a" \in Passed
    BY <1>9, Covered DEF Deleted, Passed, IInv, ClaimOK
  <2>2. <<"side_a", a, Guest>> \in rows /\ <<"side_a", a>> \in Passed \X Runs
    BY <1>1, <1>9, <2>1 DEF Deleted
  <2>3. <<"side_a", a>>[1] = "side_a" /\ <<"side_a", a>>[2] = a
    OBVIOUS
  <2> HIDE DEF rows
  <2> QED BY <1>2, <2>2, <2>3 DEF Put
<1>10. ASSUME Deleted(q) PROVE <<"side_b", a>> \in late'
  <2>1. "side_b" \in Passed
    BY <1>10, Covered DEF Deleted, Passed, IInv, ClaimOK
  <2>2. <<"side_b", a, Guest>> \in rows /\ <<"side_b", a>> \in Passed \X Runs
    BY <1>1, <1>10, <2>1 DEF Deleted
  <2>3. <<"side_b", a>>[1] = "side_b" /\ <<"side_b", a>>[2] = a
    OBVIOUS
  <2> HIDE DEF rows
  <2> QED BY <1>2, <2>2, <2>3 DEF Put
<1> HIDE DEF rows
<1>11. SideFollows("side_a", a, a)' /\ SideFollows("side_b", a, b)'
  BY <1>1, <1>5, <1>7, <1>8, <1>9, <1>10 DEF SideFollows, Current
<1>12. DuelOK(a)'
  BY <1>1, <1>2, <1>3, <1>4, <1>5, <1>11 DEF DInv, DuelsOK, DuelOK, Begun, WinnerIsASide
<1>13. OnlyAdds
  BY <1>1, <1>2, <1>4, <1>5, <1>6, <1>8 DEF OnlyAdds, Begun
<1>14. ASSUME NEW d \in Runs \ {a} PROVE DuelOK(d)'
  <2>1. CASE rival[d] = None
    BY <1>4, <1>5, <1>6, <2>1 DEF DInv, DuelsOK, DuelOK
  <2>2. CASE rival[d] # None
    BY <1>2, <1>5, <1>13, <2>2, WriteParts
  <2> QED BY <2>1, <2>2
<1>15. RunsOK'
  BY <1>2, <1>4, <1>5 DEF DInv, RunsOK, Begun
<1>16. Asked'
  BY <1>2 DEF DInv, Asked, Begun
<1>17. PairingOK'
  BY <1>2 DEF PairingOK
<1>18. ScoresOK' /\ DuelsRead' /\ HoldsOK'
  BY <1>2, <1>13, WriteParts
<1> QED BY <1>12, <1>14, <1>15, <1>16, <1>17, <1>18 DEF DInv, DuelsOK

\* The winner the pass writes is an account it has read.
LEMMA ClosePassFollows ==
    ASSUME MergeAssumption, IInv, IInv', DInv, ClosePass
    PROVE  DInv'
<1>1. Put(pass.rows \cup UNION {DuelRows(a) : a \in DOMAIN pass.duels})
  BY DEF ClosePass
<1> DEFINE rows == pass.rows \cup UNION {DuelRows(a) : a \in DOMAIN pass.duels}
<1>2. /\ pass.duels # None /\ pass' = NoPass /\ UNCHANGED <<rival, request, pairing, claim>>
      /\ settled' = settled \cup DOMAIN pass.duels
      /\ state' = [r \in Runs |-> Outcome(r)]
  BY DEF ClosePass, Judged
<1>3. ASSUME NEW t \in Tables, NEW r \in Runs, NEW p \in Players, <<t, r, p>> \in rows,
             t \notin {"run_close", "finish_stipend", "duel_result"}
      PROVE  /\ t = "winner" /\ r \in DOMAIN pass.duels
             /\ p = pass.duels[r].a \/ p = pass.duels[r].b
  <2>1. <<t, r, p>> \notin pass.rows
    BY <1>3 DEF IInv, PassOK
  <2>2. PICK a \in DOMAIN pass.duels : <<t, r, p>> \in DuelRows(a)
    BY <1>3, <2>1
  <2>3. <<t, r, p>> = <<"winner", a, pass.duels[a][pass.judged[a]]>> /\ pass.judged[a] # "none"
    <3>1. /\ <<t, r, p>> \notin Posted("duel_result", a, pass.duels[a].a)
          /\ <<t, r, p>> \notin Posted("duel_result", rival[a], pass.duels[a].b)
      BY <1>3, PostedIsNew
    <3> QED BY <2>2, <3>1 DEF DuelRows
  <2>4. pass.judged[a] \in {"a", "b"}
    BY <1>2, <2>3 DEF ClosePass, Judged, DInv, DuelsRead
  <2> QED BY <2>2, <2>3, <2>4
<1>4. Put(rows)
  BY <1>1
<1> HIDE DEF rows
<1>5. \A t \in {"entry", "side_a", "side_b"}, r \in Runs : owner'[t][r] = owner[t][r]
  <2> SUFFICES ASSUME NEW t \in {"entry", "side_a", "side_b"}
               PROVE  \A r \in Runs : owner'[t][r] = owner[t][r]
    OBVIOUS
  <2>1. t \in Tables
    BY DEF Tables
  <2>2. \A r \in Runs, p \in Players : <<t, r, p>> \notin rows
    BY <1>3, <2>1
  <2> QED BY <1>4, <2>1, <2>2, PutLeaves
<1>6. \A r \in Runs : \/ owner'["winner"][r] = owner["winner"][r]
                      \/ /\ r \in DOMAIN pass.duels /\ owner'["winner"][r] \in Players
                         /\ \/ owner'["winner"][r] = pass.duels[r].a
                            \/ owner'["winner"][r] = pass.duels[r].b
                         /\ <<"winner", r, owner'["winner"][r]>> \in rows
  <2> SUFFICES ASSUME NEW r \in Runs, owner'["winner"][r] # owner["winner"][r]
               PROVE  /\ r \in DOMAIN pass.duels /\ owner'["winner"][r] \in Players
                      /\ \/ owner'["winner"][r] = pass.duels[r].a
                         \/ owner'["winner"][r] = pass.duels[r].b
                      /\ <<"winner", r, owner'["winner"][r]>> \in rows
    OBVIOUS
  <2>1. "winner" \in Tables \ {"run_close", "finish_stipend", "duel_result"}
    BY DEF Tables
  <2>2. PICK p \in Players : <<"winner", r, p>> \in rows /\ owner'["winner"][r] = p
    BY <1>4, <2>1, PutWrites DEF IInv
  <2> QED BY <1>3, <2>1, <2>2
<1>7. \A r \in DOMAIN pass.duels : r \in Runs \ settled /\ rival[r] # None
  BY <1>2 DEF DInv, DuelsRead
<1>8. \A r \in Runs : owner["winner"][r] # None => owner'["winner"][r] = owner["winner"][r]
  BY <1>6, <1>7 DEF DInv, DuelsOK, DuelOK
<1>9. \A r \in Runs : \/ state'[r] = state[r]
                      \/ Begun(r) /\ state'[r] \in {"finished", "void"}
  BY <1>2 DEF Outcome, DInv, ScoresOK
<1>10. \A r \in Runs : Begun(r)' <=> Begun(r)
  BY <1>9 DEF Begun
<1>11. OnlyAdds
  BY <1>2, <1>4, <1>5, <1>8, <1>10 DEF OnlyAdds, Put
<1>12. ASSUME NEW a \in Runs PROVE DuelOK(a)'
  <2>1. CASE rival[a] = None
    BY <1>2, <1>5, <1>6, <1>7, <2>1 DEF DInv, DuelsOK, DuelOK
  <2>2. CASE rival[a] # None /\ owner'["winner"][a] = owner["winner"][a]
    BY <1>2, <1>11, <2>2, WriteParts
  <2>3. CASE rival[a] # None /\ owner'["winner"][a] # owner["winner"][a]
    <3> DEFINE p == owner'["winner"][a]
    <3>1. /\ a \in DOMAIN pass.duels /\ p \in Players /\ <<"winner", a, p>> \in rows
          /\ p = pass.duels[a].a \/ p = pass.duels[a].b
      BY <1>6, <2>3
    <3>2. p = owner["side_a"][a] \/ p = owner["side_b"][a] \/ Deleted(p)
      BY <1>2, <3>1 DEF DInv, DuelsRead
    <3>3. ASSUME Deleted(p) PROVE <<"winner", a>> \in late'
      <4>1. "winner" \in Passed
        BY <3>3, Covered DEF Deleted, Passed, IInv, ClaimOK
      <4>2. <<"winner", a>> \in Passed \X Runs /\ <<"winner", a, Guest>> \in rows
        BY <3>1, <3>3, <4>1 DEF Deleted
      <4>3. <<"winner", a>>[1] = "winner" /\ <<"winner", a>>[2] = a
        OBVIOUS
      <4> QED BY <1>4, <4>2, <4>3 DEF Put
    <3>4. WinnerIsASide(a)'
      BY <1>5, <3>2, <3>3 DEF WinnerIsASide
    <3>5. /\ DuelOK(a) /\ rival[a] \in Runs /\ rival' = rival
      BY <1>2, <2>3 DEF DInv, DuelsOK, RunsOK
    <3>6. a \in settled'
      BY <1>2, <3>1
    <3>7. SideFollows("side_a", a, a)' /\ SideFollows("side_b", a, rival[a])'
      BY <1>5, <1>11, <2>3, <3>5 DEF DuelOK, SideFollows, OnlyAdds
    <3> QED BY <1>10, <2>3, <3>4, <3>5, <3>6, <3>7 DEF DuelOK
  <2> QED BY <2>1, <2>2, <2>3
<1>13. RunsOK'
  <2>1. state' \in [Runs -> {"none", "live", "forfeit", "finished", "void", "dropped"}]
    BY <1>2, <1>9 DEF DInv, RunsOK
  <2>2. settled' \subseteq Runs
    BY <1>2, <1>7 DEF DInv, RunsOK
  <2> QED BY <1>2, <1>5, <1>9, <1>10, <2>1, <2>2 DEF DInv, RunsOK
<1>14. Asked'
  BY <1>2, <1>10 DEF DInv, Asked
<1>15. ScoresOK' /\ DuelsRead'
  <2>1. pass'.at = None /\ pass'.duels = None /\ pass'.scored = <<>>
    BY <1>2 DEF NoPass
  <2> QED BY <2>1, NoPassParts
<1> QED BY <1>2, <1>11, <1>12, <1>13, <1>14, <1>15, WriteParts DEF DInv, DuelsOK

-----------------------------------------------------------------------------
(* The commit of the merge                                                 *)

LEMMA FinishFollows ==
    ASSUME MergeAssumption, IInv, DInv, Finish
    PROVE  DInv'
<1>1. User # Guest /\ None # Guest /\ None # User
  BY MergeAssumption DEF MergeAssumption, Players
<1>2. /\ UNCHANGED <<rival, settled, request, pairing, pass, late>>
      /\ claim' = [NoClaim EXCEPT !.pc = "done", !.did = claim.did] /\ claim.did = 4
  BY Covered DEF Finish
<1>3. claim'.pc = "done" /\ claim'.moved = {} /\ claim'.dropped = {}
  BY <1>2 DEF NoClaim
<1>4. \A t \in Tables, r \in Runs :
          owner'[t][r] = IF <<t, r>> \in claim.moved THEN User
                         ELSE IF <<t, r>> \in claim.dropped THEN None ELSE owner[t][r]
  BY DEF Finish
<1>5. \A r \in Runs : state'[r] = IF <<"entry", r>> \in claim.dropped THEN "dropped" ELSE state[r]
  BY DEF Finish
<1>6. \A t \in Tables, r \in Runs :
          t # "order" /\ owner[t][r] # Guest => owner'[t][r] = owner[t][r]
  <2> SUFFICES ASSUME NEW t \in Tables, NEW r \in Runs, t # "order", owner[t][r] # Guest
               PROVE  owner'[t][r] = owner[t][r]
    OBVIOUS
  <2>1. <<t, r>>[1] = t /\ <<t, r>>[2] = r
    OBVIOUS
  <2>2. <<t, r>> \notin claim.moved \cup claim.dropped
    BY <2>1 DEF DInv, HoldsOK
  <2> QED BY <1>4, <2>2
<1>7. \A t \in Tables, r \in Runs : owner[t][r] = Guest =>
          \/ <<t, r>> \in late
          \/ owner'[t][r] = User
          \/ owner'[t][r] = None /\ t \in {"entry"} \cup Reasons
  <2> SUFFICES ASSUME NEW t \in Tables, NEW r \in Runs, owner[t][r] = Guest,
                      <<t, r>> \notin late
               PROVE  \/ owner'[t][r] = User
                      \/ owner'[t][r] = None /\ t \in {"entry"} \cup Reasons
    OBVIOUS
  <2>1. t \in Passed
    BY <1>2, Covered DEF Passed, Tables
  <2>2. <<t, r>> \in claim.moved \cup claim.dropped
    BY <2>1 DEF IInv, Seen
  <2>3. <<t, r>>[1] = t
    OBVIOUS
  <2> QED BY <1>4, <2>2, <2>3 DEF DInv, HoldsOK
<1>8. \A r \in Runs : Begun(r)' <=> Begun(r)
  <2> SUFFICES ASSUME NEW r \in Runs, <<"entry", r>> \in claim.dropped PROVE Begun(r)
    BY <1>5 DEF Begun
  <2>1. <<"entry", r>>[1] = "entry" /\ <<"entry", r>>[2] = r
    OBVIOUS
  <2>2. owner["entry"][r] = Guest
    BY <2>1 DEF DInv, HoldsOK
  <2> QED BY <1>1, <2>2 DEF DInv, RunsOK
<1>9. RunsOK'
  <2>1. state' \in [Runs -> {"none", "live", "forfeit", "finished", "void", "dropped"}]
    BY DEF Finish, DInv, RunsOK
  <2>2. ASSUME NEW r \in Runs, ~Begun(r)' PROVE owner'["entry"][r] = None
    BY <1>1, <1>6, <1>8, <2>2 DEF DInv, RunsOK, Tables
  <2>3. ASSUME NEW r \in Runs, state'[r] = "live" PROVE owner'["entry"][r] # None
    <3>1. <<"entry", r>> \notin claim.dropped /\ state[r] = "live"
      BY <1>5, <2>3
    <3> QED BY <1>1, <1>4, <3>1 DEF DInv, RunsOK, Tables
  <2> QED BY <1>2, <2>1, <2>2, <2>3 DEF DInv, RunsOK
<1>10. Asked'
  BY <1>2, <1>8 DEF DInv, Asked
<1>11. ScoresOK'
  BY <1>2, <1>8 DEF DInv, ScoresOK, IInv, PassOK
<1>12. ASSUME NEW p, NEW r \in Runs, Current(p, r)
       PROVE  Current(p, r)'
  <2>1. "entry" \in Tables
    BY DEF Tables
  <2>2. CASE owner["entry"][r] # Guest
    BY <1>2, <1>3, <1>6, <1>12, <2>1, <2>2 DEF Current, Deleted
  <2>3. CASE owner["entry"][r] = Guest
    BY <1>1, <1>2, <1>3, <1>7, <1>12, <2>1, <2>3 DEF Current, Deleted
  <2> QED BY <2>2, <2>3
<1>13. PairingOK'
  BY <1>2, <1>8, <1>12 DEF DInv, PairingOK
<1>14. DuelsRead'
  <2>1. ASSUME NEW t \in {"side_a", "side_b"}, NEW a \in Runs, NEW p,
               p = owner[t][a] \/ Deleted(p)
        PROVE  p = owner'[t][a] \/ Deleted(p)'
    BY <1>3, <1>6, <2>1 DEF Deleted, Tables
  <2> QED BY <1>2, <2>1 DEF DInv, DuelsRead
<1>15. HoldsOK'
  BY <1>3, HoldNothing
<1>16. ASSUME NEW side \in {"side_a", "side_b"}, NEW a \in Runs, NEW r \in Runs,
              SideFollows(side, a, r)
       PROVE  SideFollows(side, a, r)'
  <2>1. side \in Tables /\ "entry" \in Tables /\ side \notin {"entry"} \cup Reasons
        /\ side # "order"
    BY DEF Tables, Reasons
  <2>2. CASE owner["entry"][r] # Guest /\ owner[side][a] # Guest
    BY <1>2, <1>6, <1>16, <2>1, <2>2 DEF SideFollows
  <2>3. CASE owner["entry"][r] # Guest /\ owner[side][a] = Guest
    BY <1>1, <1>2, <1>6, <1>16, <2>1, <2>3 DEF SideFollows
  <2>4. CASE owner["entry"][r] = Guest /\ owner[side][a] # Guest
    BY <1>1, <1>2, <1>16, <2>4 DEF SideFollows
  <2>5. CASE owner["entry"][r] = Guest /\ owner[side][a] = Guest
    <3>1. <<"entry", r>> \in late \/ owner'["entry"][r] \in {User, None}
      BY <1>7, <2>1, <2>5
    <3>2. <<side, a>> \in late \/ owner'[side][a] = User
      BY <1>7, <2>1, <2>5
    <3> QED BY <1>2, <3>1, <3>2 DEF SideFollows
  <2> QED BY <2>2, <2>3, <2>4, <2>5
<1>17. ASSUME NEW a \in Runs, WinnerIsASide(a)
       PROVE  WinnerIsASide(a)'
  <2> SUFFICES ASSUME <<"winner", a>> \notin late
               PROVE  owner'["winner"][a] \in {owner'["side_a"][a], owner'["side_b"][a], None}
    BY <1>2 DEF WinnerIsASide
  <2>1. /\ {"winner", "side_a", "side_b"} \subseteq Tables \ {"order"}
        /\ "winner" \notin {"entry"} \cup Reasons
    BY DEF Tables, Reasons
  <2>2. CASE owner["winner"][a] # Guest
    BY <1>6, <1>17, <2>1, <2>2 DEF WinnerIsASide
  <2>3. CASE owner["winner"][a] = Guest
    <3>1. "winner" \in Passed
      BY <1>2, Covered DEF Passed
    <3>2. <<"winner", a>> \in claim.moved \cup claim.dropped /\ <<"winner", a>>[1] = "winner"
      BY <2>3, <3>1 DEF IInv, Seen
    <3>3. <<"winner", a>> \in claim.moved
      BY <2>1, <3>2 DEF DInv, HoldsOK
    <3>4. PICK t \in {"side_a", "side_b"} : <<t, a>> \in claim.moved
      BY <3>3 DEF DInv, HoldsOK
    <3>5. owner'["winner"][a] = User /\ owner'[t][a] = User
      BY <1>4, <2>1, <3>3, <3>4
    <3> QED BY <3>5
  <2> QED BY <2>2, <2>3
<1>18. ASSUME NEW a \in Runs PROVE DuelOK(a)'
  <2>1. CASE rival[a] = None
    BY <1>1, <1>2, <1>6, <2>1 DEF DInv, DuelsOK, DuelOK, Tables
  <2>2. CASE rival[a] # None
    <3>1. PICK b \in Runs : b = rival[a] /\ DuelOK(a)
      BY <2>2 DEF DInv, DuelsOK, RunsOK
    <3>2. SideFollows("side_a", a, a)' /\ SideFollows("side_b", a, b)'
      BY <1>16, <2>2, <3>1 DEF DuelOK
    <3>3. owner'["winner"][a] # None => owner["winner"][a] # None
      BY <1>1, <1>6 DEF Tables
    <3> QED BY <1>2, <1>8, <1>17, <2>2, <3>1, <3>2, <3>3 DEF DuelOK
  <2> QED BY <2>1, <2>2
<1> QED BY <1>9, <1>10, <1>11, <1>13, <1>14, <1>15, <1>18 DEF DInv, DuelsOK

-----------------------------------------------------------------------------
(* Every step                                                              *)

LEMMA InitFollows == ASSUME MergeAssumption, Init PROVE DInv
<1>1. RunsOK /\ DuelsOK
  BY DEF Init, RunsOK, Begun, DuelsOK, DuelOK, Tables
<1>2. Asked /\ PairingOK
  BY DEF Init, Asked, PairingOK
<1>3. pass.at = None /\ pass.duels = None /\ DOMAIN pass.scored = {}
  BY DEF Init, NoPass
<1>4. claim.moved = {} /\ claim.dropped = {}
  BY DEF Init, NoClaim
<1> QED BY <1>1, <1>2, <1>3, <1>4 DEF DInv, ScoresOK, DuelsRead, HoldsOK

LEMMA StepFollows ==
    ASSUME MergeAssumption, IInv, Ordered, DInv, [Next]_vars
    PROVE  DInv'
<1>1. IInv'
  BY StepKeeps
<1>2. ASSUME UNCHANGED <<owner, late, rival, settled, state, request, pairing, claim, pass>>
      PROVE  DInv'
  BY <1>2, QuietParts DEF DInv
<1>3. ASSUME NEW f \in Fields, PassTime(f)
      PROVE  DInv'
  BY <1>2, <1>3 DEF PassTime
<1>4. ASSUME UNCHANGED <<owner, late, rival, settled, state, request, pairing, claim>>,
             pass'.at = None, pass'.duels = None, pass'.scored = <<>>
      PROVE  DInv'
  BY <1>4, NoPassParts, QuietParts DEF DInv
<1>5. ASSUME NEW f \in Fields, BeginPass(f)
      PROVE  DInv'
  <2>1. pass'.at = None /\ pass'.duels = None /\ pass'.scored = <<>>
    BY <1>5 DEF BeginPass, NoPass
  <2> QED BY <1>4, <1>5, <2>1 DEF BeginPass
<1>6. ASSUME pass' = NoPass,
             UNCHANGED <<owner, late, rival, settled, state, request, pairing, claim>>
      PROVE  DInv'
  <2>1. pass'.at = None /\ pass'.duels = None /\ pass'.scored = <<>>
    BY <1>6 DEF NoPass
  <2> QED BY <1>4, <1>6, <2>1
<1>7. CASE BreakDeadlock
  <2>1. UNCHANGED <<owner, late, rival, settled, state, request, pairing>>
    BY <1>7 DEF BreakDeadlock
  <2>2. CASE claim' = NoClaim /\ pass' = pass
    <3>1. claim'.moved = {} /\ claim'.dropped = {}
      BY <2>2 DEF NoClaim
    <3>2. claim.pc # "done"
      BY <1>7 DEF BreakDeadlock, AwaitsPass, Turn
    <3> QED BY <2>1, <2>2, <3>1, <3>2, HoldNothing, QuietParts DEF DInv
  <2>3. CASE pass' = NoPass /\ claim' = claim
    BY <1>6, <2>1, <2>3
  <2> QED BY <1>7, <2>2, <2>3 DEF BreakDeadlock
<1>8. CASE LosePass
  BY <1>6, <1>8 DEF LosePass
<1>9. CASE UNCHANGED vars
  BY <1>2, <1>9 DEF vars
<1>10. ASSUME NEW p \in Players, Enter(p) \/ Queue(p) \/ Forfeit(p)
       PROVE  DInv'
  BY <1>1, <1>10, EnterKeeps, OrderKeeps
<1>11. CASE InsertDuel
  BY <1>1, <1>11, InsertDuelFollows
<1>12. CASE ClosePass
  BY <1>1, <1>12, ClosePassFollows
<1>13. CASE Finish
  BY <1>13, FinishFollows
<1>14. CASE \/ \E r \in Runs : ReadEntry(r) \/ JudgeDuel(r)
            \/ ScoreEntry \/ ReadDuels \/ PostEntry \/ WriteRuns \/ WriteDuels
  BY <1>14, ReadEntryKeeps, JudgeDuelKeeps, ScoreKeeps, ReadDuelsKeeps, WrittenKeeps
<1>15. CASE BeginClaim \/ MoveEntries \/ MoveOrders \/ ReadClaimed \/ MoveCareer
            \/ MoveDuels \/ LoseClaim
  BY <1>15, ClaimStepKeeps
<1>16. CASE \/ \E r \in Runs : AskEntry(r)
            \/ \E x \in Requests : Ask(x[1], x[2], x[3])
  BY <1>16, AskKeeps
<1>17. CASE \E a, b \in Runs : ReadPair(a, b)
  BY <1>17, ReadPairKeeps
<1> QED
  BY <1>3, <1>5, <1>7, <1>8, <1>9, <1>10, <1>11, <1>12, <1>13, <1>14, <1>15, <1>16, <1>17
     DEF Next, PassStep, ClaimStep

\* _rekey_game_duels and the writers beside it: a duel names the accounts whose
\* runs it compares, and its winner is one of the two, but for rows written with
\* the guest's account after the merge had passed their table.
THEOREM DuelsStay == Spec => []DuelsFollow
<1>1. Init => DInv
  BY InitFollows, MergeAssumption
<1>2. IInv /\ Ordered /\ DInv /\ [Next]_vars => DInv'
  BY StepFollows, MergeAssumption
<1>3. DInv => DuelsFollow
  BY DEF DInv, DuelsOK, DuelOK, SideFollows, WinnerIsASide, DuelsFollow
<1> QED BY <1>1, <1>2, <1>3, Inductive, OrderKept, PTL DEF Spec

=============================================================================
