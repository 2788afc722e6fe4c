---------------------------- MODULE GameRunsProofs ----------------------------
(***************************************************************************)
(* Proofs about GameRuns, for any number of players, fields and runs:      *)
(* results and career points agree, and no total goes below zero but where *)
(* a debit was computed on points that were gone when it committed.        *)
(***************************************************************************)
EXTENDS GameRuns, FiniteSetTheorems, WellFoundedInduction, TLAPS

Deltas == Int \cup {None}
Rows == [Reasons -> Deltas]

StageOK ==
    /\ stage \in [Fields -> {"open", "locked", "live", "over"}]
    /\ closed \subseteq Fields /\ \A f \in closed : stage[f] = "over"

EntryOK ==
    entry \in [Runs -> [state : States, busted : BOOLEAN, traded : BOOLEAN, scored : BOOLEAN]]

PointsOK == points \in [Runs -> Rows]

DuelsOK ==
    /\ duels \subseteq [kind : {"first_run", "auto"}, a : Runs, b : Runs,
                        state : {"live", "settled", "void"}]
    /\ \A d \in duels : /\ d.a # d.b /\ Player(d.a) \notin Desks
                        /\ d.kind = (IF Player(d.b) \in Desks THEN "first_run" ELSE "auto")

RequestsOK ==
    /\ order \in [Runs -> {"none", "queued", "filled", "cancelled"}]
    /\ request \in [Runs -> {None, "queue", "cancel", "trade"}]
    /\ fill \in [Runs -> {None, "owed", "first", "again"}]
    /\ marked \subseteq Runs /\ overwritten \subseteq Runs

RestartOK == restart \in [Runs -> [pc : {"none", "read", "summed"}, total : Int]]

\* Nothing is asked, owed or on its way for a run that nobody has entered.
EnteredOK ==
    \A e \in Runs : entry[e].state = "none" =>
        /\ order[e] = "none" /\ request[e] = None /\ fill[e] = None
        /\ e \notin marked /\ restart[e].pc = "none"

DrainOK ==
    /\ drain \in [todo : SUBSET Runs, at : Runs \cup {None},
                  pc : {"idle", "next", "fill", "accepted", "refused"}]
    /\ drain.pc \in {"fill", "accepted", "refused"} => drain.at \in Runs

BoundsOK == moves \in 0 .. MaxMoves /\ trouble \in 0 .. MaxTrouble

Pending == pass.todo \cup DOMAIN pass.wrote \cup ({pass.at} \ {None})

PassFields == {"field", "result", "stipend", "todo", "at", "sum", "wrote", "held", "seen"}

\* What the pass holds is among what it scored; the duels come after all of it.
PassOK ==
    /\ DOMAIN pass = PassFields
    /\ pass # NoPass => pass.field \in Fields /\ stage[pass.field] = "over"
    /\ Pending \subseteq Runs /\ pass.todo \cap DOMAIN pass.wrote = {} /\ pass.at \notin pass.todo
    /\ \A e \in Pending : /\ Field(e) = pass.field /\ entry[e].state # "none"
                          /\ pass.result[e] \in Deltas
    /\ pass.sum \in Deltas /\ pass.held \subseteq DOMAIN pass.wrote
    /\ \A e \in DOMAIN pass.wrote : pass.wrote[e] \in Int
    /\ pass.seen # None => pass.todo = {} /\ pass.at = None /\ pass.seen \in [Runs -> Int]

\* The runs of a field under scoring that the pass is done with have a result.
Remaining ==
    pass # NoPass => \A e \in Runs :
        Field(e) = pass.field /\ e \notin overwritten /\ entry[e].state \notin Settled \cup {"none"}
            => e \in Pending

ScoredOK ==
    \A e \in Runs : entry[e].scored => e \in overwritten \/ entry[e].state \in {"finished", "void"}

Typed == /\ StageOK /\ EntryOK /\ PointsOK /\ DuelsOK /\ RequestsOK /\ RestartOK /\ DrainOK
         /\ BoundsOK /\ PassOK

IInv == Typed /\ EnteredOK /\ Remaining /\ ScoredOK /\ ResultsArePaid /\ ClampHolds

-----------------------------------------------------------------------------
(* Induction, and sums over finite sets *)

\* Every set of numbers that holds 0 and with n also n + 1 is Nat.
LEMMA Numbers ==
    ASSUME NEW G, 0 \in G, \A n \in Nat : n \in G => n + 1 \in G
    PROVE  Nat \subseteq G
<1> SUFFICES ASSUME Nat \ G # {} PROVE FALSE
  OBVIOUS
<1>1. PICK n \in Nat \ G : \A y \in Nat \ G : <<y, n>> \notin OpToRel(<, Nat)
  BY NatLessThanWellFounded, WFMin
<1>2. n - 1 \in Nat \ G
  <2>1. n \in Nat /\ n # 0 /\ n \notin G
    BY <1>1
  <2> QED BY <2>1
<1>3. <<n - 1, n>> \notin OpToRel(<, Nat)
  BY <1>1, <1>2
<1>4. ~(n - 1 < n)
  BY <1>2, <1>3 DEF OpToRel
<1>5. n \in Nat
  BY <1>1
<1> QED BY <1>4, <1>5

\* A collection with the empty set, and a set when it has all that lack one of
\* its elements, has every subset of a finite set.
LEMMA Subsets ==
    ASSUME NEW S, IsFiniteSet(S), NEW G, {} \in G,
           \A s \in SUBSET S : s # {} /\ (\A x \in s : s \ {x} \in G) => s \in G
    PROVE  SUBSET S \subseteq G
<1> DEFINE N == {n \in Nat : \A s \in SUBSET S : Cardinality(s) = n => s \in G}
<1>1. \A s \in SUBSET S : IsFiniteSet(s) /\ Cardinality(s) \in Nat
  BY FS_Subset, FS_CardinalityType
<1>2. 0 \in N
  BY <1>1, FS_EmptySet
<1>3. ASSUME NEW n \in Nat, n \in N PROVE n + 1 \in N
  <2> SUFFICES ASSUME NEW s \in SUBSET S, Cardinality(s) = n + 1 PROVE s \in G
    OBVIOUS
  <2>1. s # {}
    BY FS_EmptySet
  <2>2. ASSUME NEW x \in s PROVE s \ {x} \in G
    <3>1. Cardinality(s \ {x}) = n /\ s \ {x} \in SUBSET S
      BY <1>1, FS_RemoveElement
    <3> QED BY <1>3, <3>1
  <2> QED BY <2>1, <2>2
<1> HIDE DEF N
<1>4. Nat \subseteq N
  BY <1>2, <1>3, Numbers
<1> QED BY <1>1, <1>4 DEF N

-----------------------------------------------------------------------------
(* Sums over finite sets *)

AnyOf(s) == CHOOSE x \in s : TRUE

\* What the fold of SumFunctionOnSet goes by.
FoldsBy(g, f, S) ==
    g = [s \in SUBSET S |-> IF s = {} THEN 0 ELSE f[AnyOf(s)] + g[s \ {AnyOf(s)}]]

LEMMA SumIsFold ==
    ASSUME NEW f, NEW S
    PROVE  SumFunctionOnSet(f, S) = (CHOOSE g : FoldsBy(g, f, S))[S]
  BY DEF SumFunctionOnSet, FoldFunctionOnSet, MapThenFoldSet, AnyOf, FoldsBy

\* There is such a function, built up from the small subsets.
LEMMA FoldExists ==
    ASSUME NEW f, NEW S, IsFiniteSet(S)
    PROVE  \E g : FoldsBy(g, f, S)
<1> DEFINE Upto(n) == {s \in SUBSET S : Cardinality(s) <= n}
           Step(g, s) == IF s = {} THEN 0 ELSE f[AnyOf(s)] + g[s \ {AnyOf(s)}]
           N == {n \in Nat : \E g : g = [s \in Upto(n) |-> Step(g, s)]}
<1>1. \A s \in SUBSET S : IsFiniteSet(s) /\ Cardinality(s) \in Nat
  BY FS_Subset, FS_CardinalityType
<1>2. ASSUME NEW n \in Nat, NEW s \in Upto(n + 1), s # {}
      PROVE  s \ {AnyOf(s)} \in Upto(n)
  <2>1. AnyOf(s) \in s
    BY <1>2 DEF AnyOf
  <2>2. Cardinality(s \ {AnyOf(s)}) = Cardinality(s) - 1
    BY <1>1, <2>1, FS_RemoveElement
  <2> QED BY <1>1, <2>2
<1>3. 0 \in N
  <2>1. \A s \in Upto(0) : s = {}
    BY <1>1, FS_EmptySet
  <2>2. \A g : [s \in Upto(0) |-> Step(g, s)] = [s \in Upto(0) |-> 0]
    BY <2>1
  <2>3. [u \in Upto(0) |-> 0] = [u \in Upto(0) |-> Step([s \in Upto(0) |-> 0], u)]
    BY <2>2
  <2> QED BY <2>3
<1>4. ASSUME NEW n \in Nat, n \in N PROVE n + 1 \in N
  <2>1. PICK g : g = [s \in Upto(n) |-> Step(g, s)]
    BY <1>4
  <2> DEFINE h == [s \in Upto(n + 1) |-> Step(g, s)]
  <2>2. \A s \in Upto(n) : s \in Upto(n + 1) /\ h[s] = g[s]
    <3>1. \A s \in Upto(n) : s \in Upto(n + 1)
      BY <1>1
    <3>2. \A s \in Upto(n) : g[s] = Step(g, s)
      BY <2>1
    <3> QED BY <3>1, <3>2
  <2>3. \A s \in Upto(n + 1) : Step(g, s) = Step(h, s)
    BY <1>2, <2>2
  <2>4. h = [s \in Upto(n + 1) |-> Step(h, s)]
    BY <2>3
  <2> HIDE DEF h
  <2>5. \E i : i = [s \in Upto(n + 1) |-> Step(i, s)]
    BY <2>4
  <2> HIDE DEF Upto, Step
  <2> QED BY <2>5
<1> HIDE DEF N
<1>5. Nat \subseteq N
  BY <1>3, <1>4, Numbers
<1>6. Cardinality(S) \in Nat
  BY <1>1
<1>7. PICK g : g = [s \in Upto(Cardinality(S)) |-> Step(g, s)]
  BY <1>5, <1>6 DEF N
<1>8. Upto(Cardinality(S)) = SUBSET S
  BY FS_Subset
<1>9. FoldsBy(g, f, S)
  BY <1>7, <1>8 DEF FoldsBy
<1> QED BY <1>9

LEMMA FoldChosen ==
    ASSUME NEW f, NEW S, IsFiniteSet(S)
    PROVE  FoldsBy(CHOOSE g : FoldsBy(g, f, S), f, S)
  BY FoldExists

\* FoldsBy over a set and over a part of it agree on the part.
LEMMA FoldsAgree ==
    ASSUME NEW f, NEW S, IsFiniteSet(S), NEW R \in SUBSET S,
           NEW g, FoldsBy(g, f, S), NEW h, FoldsBy(h, f, R)
    PROVE  g[R] = h[R]
<1> DEFINE G == {s \in SUBSET R : g[s] = h[s]}
<1>1. IsFiniteSet(R)
  BY FS_Subset
<1>2. /\ g[{}] = 0 /\ h[{}] = 0
      /\ \A s \in SUBSET R : s # {} => /\ g[s] = f[AnyOf(s)] + g[s \ {AnyOf(s)}]
                                       /\ h[s] = f[AnyOf(s)] + h[s \ {AnyOf(s)}]
  <2>1. \A s \in SUBSET S : g[s] = IF s = {} THEN 0 ELSE f[AnyOf(s)] + g[s \ {AnyOf(s)}]
    BY DEF FoldsBy
  <2>2. \A s \in SUBSET R : h[s] = IF s = {} THEN 0 ELSE f[AnyOf(s)] + h[s \ {AnyOf(s)}]
    BY DEF FoldsBy
  <2> QED BY <2>1, <2>2
<1>3. ASSUME NEW s \in SUBSET R, s # {}, \A x \in s : s \ {x} \in G
      PROVE  s \in G
  <2>1. AnyOf(s) \in s
    BY <1>3 DEF AnyOf
  <2> QED BY <1>2, <1>3, <2>1
<1>4. {} \in G
  BY <1>2
<1> HIDE DEF G
<1>5. SUBSET R \subseteq G
  BY <1>1, <1>3, <1>4, Subsets
<1> QED BY <1>5 DEF G

LEMMA SumEmpty ==
    ASSUME NEW f
    PROVE  SumFunctionOnSet(f, {}) = 0
<1>1. IsFiniteSet({})
  BY FS_EmptySet
<1> DEFINE g == CHOOSE g : FoldsBy(g, f, {})
<1>2. FoldsBy(g, f, {})
  BY <1>1, FoldChosen
<1>3. g[{}] = 0
  BY <1>2 DEF FoldsBy
<1> QED BY <1>3, SumIsFold

\* A sum is one of its terms and the rest.
LEMMA SumAny ==
    ASSUME NEW f, NEW S, IsFiniteSet(S), S # {}
    PROVE  AnyOf(S) \in S /\ SumFunctionOnSet(f, S) = f[AnyOf(S)] + SumFunctionOnSet(f, S \ {AnyOf(S)})
<1> DEFINE R == S \ {AnyOf(S)}
           g == CHOOSE g : FoldsBy(g, f, S)
           h == CHOOSE h : FoldsBy(h, f, R)
<1>1. AnyOf(S) \in S
  BY DEF AnyOf
<1>2. IsFiniteSet(R)
  BY FS_Subset
<1>3. FoldsBy(g, f, S) /\ FoldsBy(h, f, R)
  BY <1>2, FoldChosen
<1>4. g[S] = f[AnyOf(S)] + g[R]
  BY <1>3 DEF FoldsBy
<1>5. SumFunctionOnSet(f, S) = g[S] /\ SumFunctionOnSet(f, R) = h[R]
  BY SumIsFold
<1> HIDE DEF g, h
<1>6. g[R] = h[R]
  BY <1>3, FoldsAgree
<1> QED BY <1>1, <1>4, <1>5, <1>6

LEMMA SumType ==
    ASSUME NEW S, IsFiniteSet(S), NEW f, \A x \in S : f[x] \in Int
    PROVE  SumFunctionOnSet(f, S) \in Int
<1> DEFINE G == {s \in SUBSET S : SumFunctionOnSet(f, s) \in Int}
<1>1. {} \in G
  BY SumEmpty
<1>2. ASSUME NEW s \in SUBSET S, s # {}, \A x \in s : s \ {x} \in G
      PROVE  s \in G
  <2>1. IsFiniteSet(s)
    BY FS_Subset
  <2>2. AnyOf(s) \in s /\ SumFunctionOnSet(f, s) = f[AnyOf(s)] + SumFunctionOnSet(f, s \ {AnyOf(s)})
    BY <1>2, <2>1, SumAny
  <2> QED BY <1>2, <2>2
<1> HIDE DEF G
<1>3. SUBSET S \subseteq G
  BY <1>1, <1>2, Subsets
<1> QED BY <1>3 DEF G

\* Which term is taken out does not matter.
LEMMA SumRemove ==
    ASSUME NEW S, IsFiniteSet(S), NEW f, \A x \in S : f[x] \in Int, NEW y \in S
    PROVE  SumFunctionOnSet(f, S) = f[y] + SumFunctionOnSet(f, S \ {y})
<1> DEFINE Sum(s) == SumFunctionOnSet(f, s)
           G == {s \in SUBSET S : \A x \in s : Sum(s) = f[x] + Sum(s \ {x})}
<1>1. {} \in G
  OBVIOUS
<1>2. \A s \in SUBSET S : IsFiniteSet(s) /\ Sum(s) \in Int
  BY FS_Subset, SumType
<1>3. ASSUME NEW s \in SUBSET S, s # {}, \A x \in s : s \ {x} \in G
      PROVE  s \in G
  <2>1. PICK c \in s : Sum(s) = f[c] + Sum(s \ {c})
    <3>1. IsFiniteSet(s)
      BY <1>2
    <3>2. AnyOf(s) \in s /\ Sum(s) = f[AnyOf(s)] + Sum(s \ {AnyOf(s)})
      BY <1>3, <3>1, SumAny
    <3> QED BY <3>2
  <2> SUFFICES ASSUME NEW x \in s PROVE Sum(s) = f[x] + Sum(s \ {x})
    OBVIOUS
  <2>2. CASE x = c
    BY <2>1, <2>2
  <2>3. CASE x # c
    <3>1. Sum(s \ {c}) = f[x] + Sum((s \ {c}) \ {x})
      BY <1>3, <2>3
    <3>2. Sum(s \ {x}) = f[c] + Sum((s \ {x}) \ {c})
      BY <1>3, <2>3
    <3>3. Sum((s \ {c}) \ {x}) = Sum((s \ {x}) \ {c})
      <4>1. (s \ {c}) \ {x} = (s \ {x}) \ {c}
        OBVIOUS
      <4> QED BY <4>1
    <3>4. f[x] \in Int /\ f[c] \in Int /\ Sum((s \ {c}) \ {x}) \in Int
      BY <1>2
    <3> HIDE DEF Sum
    <3> QED BY <2>1, <3>1, <3>2, <3>3, <3>4
  <2> QED BY <2>2, <2>3
<1> HIDE DEF G
<1>4. SUBSET S \subseteq G
  BY <1>1, <1>3, Subsets
<1> QED BY <1>4 DEF G

\* A sum is that of its terms.
LEMMA SumSame ==
    ASSUME NEW S, IsFiniteSet(S), NEW f, NEW g, \A x \in S : f[x] = g[x]
    PROVE  SumFunctionOnSet(f, S) = SumFunctionOnSet(g, S)
<1> DEFINE G == {s \in SUBSET S : SumFunctionOnSet(f, s) = SumFunctionOnSet(g, s)}
<1>1. {} \in G
  BY SumEmpty
<1>2. ASSUME NEW s \in SUBSET S, s # {}, \A x \in s : s \ {x} \in G
      PROVE  s \in G
  <2>1. IsFiniteSet(s)
    BY FS_Subset
  <2>2. /\ AnyOf(s) \in s /\ SumFunctionOnSet(f, s) = f[AnyOf(s)] + SumFunctionOnSet(f, s \ {AnyOf(s)})
        /\ SumFunctionOnSet(g, s) = g[AnyOf(s)] + SumFunctionOnSet(g, s \ {AnyOf(s)})
    BY <1>2, <2>1, SumAny
  <2> QED BY <1>2, <2>2
<1> HIDE DEF G
<1>3. SUBSET S \subseteq G
  BY <1>1, <1>2, Subsets
<1> QED BY <1>3 DEF G

\* A sum of zeros.
LEMMA SumZero ==
    ASSUME NEW S, IsFiniteSet(S), NEW f, \A x \in S : f[x] = 0
    PROVE  SumFunctionOnSet(f, S) = 0
<1> DEFINE G == {s \in SUBSET S : SumFunctionOnSet(f, s) = 0}
<1>1. {} \in G
  BY SumEmpty
<1>2. ASSUME NEW s \in SUBSET S, s # {}, \A x \in s : s \ {x} \in G
      PROVE  s \in G
  <2>1. IsFiniteSet(s)
    BY FS_Subset
  <2>2. AnyOf(s) \in s /\ SumFunctionOnSet(f, s) = f[AnyOf(s)] + SumFunctionOnSet(f, s \ {AnyOf(s)})
    BY <1>2, <2>1, SumAny
  <2> QED BY <1>2, <2>2
<1> HIDE DEF G
<1>3. SUBSET S \subseteq G
  BY <1>1, <1>2, Subsets
<1>4. S \in G
  BY <1>3
<1> QED BY <1>4 DEF G


\* A term that changes changes the sum by as much.
LEMMA SumChange ==
    ASSUME NEW S, IsFiniteSet(S), NEW y \in S,
           NEW f, \A x \in S : f[x] \in Int,
           NEW g, \A x \in S : g[x] \in Int,
           \A x \in S \ {y} : f[x] = g[x]
    PROVE  SumFunctionOnSet(g, S) = SumFunctionOnSet(f, S) + g[y] - f[y]
<1>1. IsFiniteSet(S \ {y})
  BY FS_Subset
<1>2. SumFunctionOnSet(f, S) = f[y] + SumFunctionOnSet(f, S \ {y})
  BY SumRemove
<1>3. SumFunctionOnSet(g, S) = g[y] + SumFunctionOnSet(g, S \ {y})
  BY SumRemove
<1>4. SumFunctionOnSet(f, S \ {y}) = SumFunctionOnSet(g, S \ {y})
  BY <1>1, SumSame
<1>5. SumFunctionOnSet(f, S \ {y}) \in Int
  BY <1>1, SumType
<1> QED BY <1>2, <1>3, <1>4, <1>5

-----------------------------------------------------------------------------
(* The career ledger *)

LEMMA ReasonsFinite == IsFiniteSet(Reasons)
<1>1. IsFiniteSet({"run_close"})
  BY FS_Singleton
<1>2. IsFiniteSet({"run_close"} \cup {"finish_stipend"})
  BY <1>1, FS_AddElement
<1>3. IsFiniteSet({"run_close"} \cup {"finish_stipend"} \cup {"duel_result"})
  BY <1>2, FS_AddElement
<1>4. IsFiniteSet(({"run_close"} \cup {"finish_stipend"} \cup {"duel_result"}) \cup {"forfeit_debit"})
  BY <1>3, FS_AddElement
<1>5. Reasons = {"run_close"} \cup {"finish_stipend"} \cup {"duel_result"} \cup {"forfeit_debit"}
  BY DEF Reasons
<1> QED BY <1>4, <1>5

LEMMA WorthType ==
    ASSUME NEW row \in Rows, None \notin Int
    PROVE  Worth(row) \in Int
<1>1. IsFiniteSet(Reasons)
  BY ReasonsFinite
<1>2. \A r \in Reasons : [q \in Reasons |-> Value(row[q])][r] \in Int
  BY DEF Rows, Deltas, Value
<1> QED BY <1>1, <1>2, SumType DEF Worth

LEMMA WorthChange ==
    ASSUME NEW row \in Rows, None \notin Int, NEW r \in Reasons, NEW delta \in Deltas
    PROVE  /\ [row EXCEPT ![r] = delta] \in Rows
           /\ Worth([row EXCEPT ![r] = delta]) = Worth(row) + Value(delta) - Value(row[r])
<1> DEFINE new == [row EXCEPT ![r] = delta]
           f == [q \in Reasons |-> Value(row[q])]
           g == [q \in Reasons |-> Value(new[q])]
<1>1. IsFiniteSet(Reasons)
  BY ReasonsFinite
<1>2. new \in Rows /\ new[r] = delta /\ \A q \in Reasons \ {r} : new[q] = row[q]
  BY DEF Rows
<1> HIDE DEF new
<1>3. /\ \A q \in Reasons : f[q] \in Int /\ g[q] \in Int
      /\ \A q \in Reasons \ {r} : f[q] = g[q]
      /\ f[r] = Value(row[r]) /\ g[r] = Value(delta)
  BY <1>2 DEF Rows, Deltas, Value
<1>4. Worth(row) = SumFunctionOnSet(f, Reasons) /\ Worth(new) = SumFunctionOnSet(g, Reasons)
  BY DEF Worth
<1> HIDE DEF f, g
<1>5. Worth(new) = Worth(row) + g[r] - f[r]
  BY <1>1, <1>3, <1>4, SumChange
<1> QED BY <1>2, <1>3, <1>5 DEF new

\* A debit takes no more than the total it was given.
LEMMA ClampedType ==
    ASSUME NEW delta \in Int, NEW total \in Int
    PROVE  /\ Clamped(delta, total) \in Int
           /\ Clamped(delta, total) >= 0 \/ Clamped(delta, total) >= -total
           /\ delta >= 0 => Clamped(delta, total) >= 0
<1>1. CASE delta < 0
  <2>1. \E x \in {delta, -total} : \A y \in {delta, -total} : x >= y
    OBVIOUS
  <2>2. /\ Max({delta, -total}) \in {delta, -total}
        /\ \A y \in {delta, -total} : Max({delta, -total}) >= y
    BY <2>1 DEF Max
  <2> QED BY <1>1, <2>2 DEF Clamped
<1>2. CASE ~(delta < 0)
  BY <1>2 DEF Clamped
<1> QED BY <1>1, <1>2

\* post_career_event adds one row, or none, and takes no more than it may.
LEMMA PostWrites ==
    ASSUME NEW row \in Rows, None \notin Int, NEW reason \in Reasons, NEW delta \in Int,
           NEW total \in Int, NEW new, new = Post(row, reason, delta, total)
    PROVE  /\ new \in Rows /\ new[reason] # None
           /\ \A r \in Reasons : row[r] # None \/ r # reason => new[r] = row[r]
           /\ Worth(new) \in Int /\ Worth(row) \in Int
           /\ Worth(new) >= Worth(row) \/ Worth(new) >= Worth(row) - total
           /\ delta >= 0 => Worth(new) >= Worth(row)
<1>1. Worth(row) \in Int
  BY WorthType
<1>2. CASE row[reason] # None
  BY <1>1, <1>2 DEF Post
<1>3. CASE row[reason] = None
  <2> DEFINE c == Clamped(delta, total)
  <2>1. c \in Int /\ (c >= 0 \/ c >= -total) /\ (delta >= 0 => c >= 0)
    BY ClampedType
  <2>2. new = [row EXCEPT ![reason] = c]
    BY <1>3 DEF Post
  <2> HIDE DEF c
  <2>3. c \in Deltas
    BY <2>1 DEF Deltas
  <2>4. new \in Rows /\ Worth(new) = Worth(row) + Value(c) - Value(row[reason])
    BY <2>2, <2>3, WorthChange
  <2>5. Value(c) = c /\ Value(row[reason]) = 0
    BY <1>3, <2>1 DEF Value
  <2>6. new[reason] = c /\ \A r \in Reasons \ {reason} : new[r] = row[r]
    BY <2>2 DEF Rows
  <2> QED BY <1>1, <1>3, <2>1, <2>4, <2>5, <2>6
<1> QED BY <1>2, <1>3

\* The total of a player on a table of points.
TotalIn(P, p) ==
    Opening + SumFunctionOnSet([e \in Runs |-> Worth(P[e])], {e \in Runs : Player(e) = p})

LEMMA TotalType ==
    ASSUME GamesAssumption, NEW P \in [Runs -> Rows], NEW p
    PROVE  TotalIn(P, p) \in Int
<1> DEFINE S == {e \in Runs : Player(e) = p}
           f == [e \in Runs |-> Worth(P[e])]
<1>1. IsFiniteSet(S) /\ Opening \in Int
  BY FS_Subset DEF GamesAssumption
<1>2. \A e \in S : f[e] \in Int
  BY WorthType DEF GamesAssumption
<1> HIDE DEF f, S
<1>3. SumFunctionOnSet(f, S) \in Int
  BY <1>1, <1>2, SumType
<1> QED BY <1>1, <1>3 DEF TotalIn, f, S

LEMMA TotalSame ==
    ASSUME GamesAssumption, NEW P, NEW Q, NEW p,
           \A e \in Runs : Player(e) = p => P[e] = Q[e]
    PROVE  TotalIn(P, p) = TotalIn(Q, p)
<1> DEFINE S == {e \in Runs : Player(e) = p}
           f == [e \in Runs |-> Worth(P[e])]
           g == [e \in Runs |-> Worth(Q[e])]
<1>1. IsFiniteSet(S)
  BY FS_Subset DEF GamesAssumption
<1>2. \A e \in S : f[e] = g[e]
  OBVIOUS
<1> HIDE DEF f, g, S
<1>3. SumFunctionOnSet(f, S) = SumFunctionOnSet(g, S)
  BY <1>1, <1>2, SumSame
<1> QED BY <1>3 DEF TotalIn, f, g, S

\* What one run of a player gains the player gains.
LEMMA TotalChange ==
    ASSUME GamesAssumption, NEW P \in [Runs -> Rows], NEW Q \in [Runs -> Rows], NEW e \in Runs,
           \A d \in Runs \ {e} : Player(d) = Player(e) => P[d] = Q[d]
    PROVE  /\ TotalIn(P, Player(e)) \in Int
           /\ Worth(P[e]) \in Int /\ Worth(Q[e]) \in Int
           /\ TotalIn(Q, Player(e)) = TotalIn(P, Player(e)) + Worth(Q[e]) - Worth(P[e])
<1> DEFINE S == {d \in Runs : Player(d) = Player(e)}
           f == [d \in Runs |-> Worth(P[d])]
           g == [d \in Runs |-> Worth(Q[d])]
<1>1. IsFiniteSet(S) /\ e \in S /\ Opening \in Int
  BY FS_Subset DEF GamesAssumption
<1>2. \A d \in S : f[d] \in Int /\ g[d] \in Int
  BY WorthType DEF GamesAssumption
<1>3. \A d \in S \ {e} : f[d] = g[d]
  OBVIOUS
<1>4. f[e] = Worth(P[e]) /\ g[e] = Worth(Q[e])
  OBVIOUS
<1> HIDE DEF f, g, S
<1>5. SumFunctionOnSet(g, S) = SumFunctionOnSet(f, S) + g[e] - f[e]
  BY <1>1, <1>2, <1>3, SumChange
<1>6. SumFunctionOnSet(f, S) \in Int
  BY <1>1, <1>2, SumType
<1>7. /\ TotalIn(P, Player(e)) = Opening + SumFunctionOnSet(f, S)
      /\ TotalIn(Q, Player(e)) = Opening + SumFunctionOnSet(g, S)
  BY DEF TotalIn, f, g, S
<1> QED BY <1>1, <1>2, <1>4, <1>5, <1>6, <1>7

-----------------------------------------------------------------------------
(* Steps that leave the runs, the points and the duels alone *)

\* Where none of these changes, each part rests on its own variables.
LEMMA Quiet ==
    ASSUME IInv, UNCHANGED <<stage, closed, entry, points, duels, overwritten, stale>>
    PROVE  /\ StageOK' /\ EntryOK' /\ PointsOK' /\ DuelsOK' /\ ScoredOK'
           /\ ResultsArePaid' /\ ClampHolds'
           /\ <<order, request, fill, marked>>' = <<order, request, fill, marked>> => RequestsOK'
           /\ restart' = restart => RestartOK'
           /\ <<order, request, fill, marked, restart>>' = <<order, request, fill, marked, restart>>
                 => EnteredOK'
           /\ drain' = drain => DrainOK'
           /\ <<moves, trouble>>' = <<moves, trouble>> => BoundsOK'
           /\ pass' = pass => PassOK' /\ Remaining'
<1>1. StageOK' /\ EntryOK' /\ PointsOK' /\ DuelsOK' /\ ScoredOK'
  BY DEF IInv, Typed, StageOK, EntryOK, PointsOK, DuelsOK, ScoredOK
<1>2. ResultsArePaid'
  BY DEF IInv, ResultsArePaid
<1>3. ClampHolds'
  BY DEF IInv, ClampHolds, Total
<1>4. <<order, request, fill, marked>>' = <<order, request, fill, marked>> => RequestsOK'
  BY DEF IInv, Typed, RequestsOK
<1>5. restart' = restart => RestartOK'
  BY DEF IInv, Typed, RestartOK
<1>6. drain' = drain => DrainOK'
  BY DEF IInv, Typed, DrainOK
<1>7. <<moves, trouble>>' = <<moves, trouble>> => BoundsOK'
  BY DEF IInv, Typed, BoundsOK
<1>8. ASSUME pass' = pass
      PROVE  PassOK' /\ Remaining'
  <2>1. Pending' = Pending
    BY <1>8 DEF Pending
  <2>2. PassOK'
    BY <1>8, <2>1 DEF IInv, Typed, PassOK
  <2>3. Remaining'
    BY <1>8, <2>1 DEF IInv, Remaining
  <2> QED BY <2>2, <2>3
<1>9. <<order, request, fill, marked, restart>>' = <<order, request, fill, marked, restart>>
         => EnteredOK'
  BY DEF IInv, EnteredOK
<1> QED BY <1>1, <1>2, <1>3, <1>4, <1>5, <1>6, <1>7, <1>8, <1>9

\* A pass that has not begun, or is gone.
LEMMA NoPassOK ==
    ASSUME pass' = NoPass
    PROVE  PassOK' /\ Remaining'
<1>1. /\ pass'.todo = {} /\ pass'.at = None /\ DOMAIN pass'.wrote = {}
      /\ pass'.sum = None /\ pass'.held = {} /\ pass'.seen = None
      /\ DOMAIN pass' = PassFields
  BY DEF NoPass, PassFields
<1>2. Pending' = {}
  BY <1>1 DEF Pending
<1> QED BY <1>1, <1>2 DEF PassOK, Remaining, Deltas

LEMMA MoveBounds ==
    ASSUME GamesAssumption, IInv, Move, trouble' = trouble
    PROVE  BoundsOK'
  BY DEF Move, IInv, Typed, BoundsOK, GamesAssumption

\* Requests and the trades they lead to.
LEMMA RequestKeeps ==
    ASSUME GamesAssumption, IInv, NEW e \in Runs,
           \/ \E what \in {"queue", "cancel", "trade"} : Ask(e, what)
           \/ Requests(e) \/ ReadFill(e)
    PROVE  IInv'
<1>1. UNCHANGED <<stage, closed, entry, points, duels, overwritten, stale, restart, drain, pass,
                  trouble, marked>>
  BY DEF Ask, Requests, Queue, Cancel, Trade, ReadFill
<1>2. RequestsOK'
  BY DEF Ask, Requests, Queue, Cancel, Trade, ReadFill, IInv, Typed, RequestsOK
<1>3. EnteredOK'
  <2>1. entry[e].state # "none"
    <3>1. CASE \E what \in {"queue", "cancel", "trade"} : Ask(e, what)
      BY <3>1 DEF Ask, IsLive, Live
    <3>2. CASE Requests(e) \/ ReadFill(e)
      BY <3>2 DEF Requests, Queue, Cancel, Trade, ReadFill, IInv, EnteredOK, GamesAssumption
    <3> QED BY <3>1, <3>2
  <2>2. \A d \in Runs \ {e} :
            order'[d] = order[d] /\ request'[d] = request[d] /\ fill'[d] = fill[d]
    BY DEF Ask, Requests, Queue, Cancel, Trade, ReadFill, IInv, Typed, RequestsOK
  <2> QED BY <1>1, <2>1, <2>2 DEF IInv, EnteredOK
<1>4. BoundsOK'
  <2>1. Move \/ moves' = moves
    BY DEF Ask, Requests, Queue, Cancel, Trade, ReadFill
  <2> QED BY <1>1, <2>1, MoveBounds, Quiet
<1> QED BY <1>1, <1>2, <1>3, <1>4, Quiet DEF IInv, Typed

LEMMA MarkKeeps ==
    ASSUME GamesAssumption, IInv, NEW e \in Runs, Mark(e)
    PROVE  IInv'
<1>1. UNCHANGED <<stage, closed, entry, points, duels, overwritten, stale, restart, drain, pass,
                  trouble, order, request, fill>>
  BY DEF Mark
<1>2. RequestsOK' /\ BoundsOK' /\ EnteredOK'
  BY <1>1, MoveBounds DEF Mark, IsLive, Live, IInv, Typed, RequestsOK, EnteredOK
<1> QED BY <1>1, <1>2, Quiet DEF IInv, Typed

\* A restart up to its commit.
LEMMA RestartKeeps ==
    ASSUME GamesAssumption, IInv, NEW e \in Runs, ReadRestart(e) \/ SumRestart(e)
    PROVE  IInv'
<1>1. UNCHANGED <<stage, closed, entry, points, duels, overwritten, stale, drain, pass,
                  trouble, order, request, fill, marked>>
  BY DEF ReadRestart, SumRestart
<1>2. BoundsOK'
  <2>1. Move \/ moves' = moves
    BY DEF ReadRestart, SumRestart
  <2> QED BY <1>1, <2>1, MoveBounds, Quiet
<1>3. Total(Player(e)) \in Int
  <2>1. Total(Player(e)) = TotalIn(points, Player(e))
    BY DEF Total, TotalIn
  <2> QED BY <2>1, TotalType DEF IInv, Typed, PointsOK
<1>4. entry[e].state # "none"
  BY DEF ReadRestart, SumRestart, IsLive, Live, IInv, EnteredOK
<1>5. PICK new \in [pc : {"none", "read", "summed"}, total : Int] :
          restart' = [restart EXCEPT ![e] = new]
  <2>1. CASE ReadRestart(e)
    <3> DEFINE new == [restart[e] EXCEPT !.pc = "read"]
    <3>1. restart[e] \in [pc : {"none", "read", "summed"}, total : Int]
      BY DEF IInv, Typed, RestartOK
    <3>2. new \in [pc : {"none", "read", "summed"}, total : Int] /\ new.pc = "read"
      BY <3>1
    <3>3. restart' = [restart EXCEPT ![e] = new]
      BY <2>1 DEF ReadRestart
    <3> HIDE DEF new
    <3> QED BY <3>2, <3>3
  <2>2. CASE SumRestart(e)
    BY <1>3, <2>2 DEF SumRestart
  <2> QED BY <2>1, <2>2
<1>6. RestartOK' /\ EnteredOK'
  BY <1>1, <1>4, <1>5 DEF IInv, Typed, RestartOK, EnteredOK
<1> QED BY <1>1, <1>2, <1>6, Quiet DEF IInv, Typed

\* process_queued_orders.
LEMMA DrainKeeps ==
    ASSUME GamesAssumption, IInv, Draining \/ Defer
    PROVE  IInv'
<1>1. UNCHANGED <<stage, closed, entry, points, duels, overwritten, stale, pass, restart,
                  request, marked, moves>>
  BY DEF Draining, Defer, BeginDrain, EndDrain, Look, FillOrder, Stamp
<1>2. DrainOK'
  <2>1. CASE BeginDrain \/ EndDrain
    <3>1. PICK todo \in SUBSET Runs, pc \in {"idle", "next"} :
              drain' = [todo |-> todo, at |-> None, pc |-> pc]
      BY <2>1 DEF BeginDrain, EndDrain, Resting
    <3> QED BY <3>1 DEF DrainOK
  <2>2. ASSUME NEW e \in Runs, Look(e) PROVE DrainOK'
    <3>1. drain.todo \ {e} \in SUBSET Runs /\ drain.pc = "next"
      BY <2>2 DEF Look, Ready, IInv, Typed, DrainOK
    <3>2. \/ drain' = [todo |-> drain.todo \ {e}, at |-> e, pc |-> "fill"]
          \/ drain' = [drain EXCEPT !.todo = @ \ {e}, !.at = None]
      BY <2>2 DEF Look, Drop
    <3>3. CASE drain' = [todo |-> drain.todo \ {e}, at |-> e, pc |-> "fill"]
      BY <3>1, <3>3 DEF DrainOK
    <3>4. CASE drain' = [drain EXCEPT !.todo = @ \ {e}, !.at = None]
      BY <3>1, <3>4 DEF IInv, Typed, DrainOK
    <3> QED BY <3>2, <3>3, <3>4
  <2>3. CASE FillOrder \/ Stamp \/ Defer
    BY <2>3 DEF FillOrder, Stamp, Defer, IInv, Typed, DrainOK
  <2> QED BY <2>1, <2>2, <2>3 DEF Draining
<1>3. RequestsOK'
  <2>1. CASE Draining /\ ~Stamp
    <3>1. CASE BeginDrain \/ EndDrain \/ FillOrder
      BY <3>1 DEF BeginDrain, EndDrain, FillOrder, IInv, Typed, RequestsOK
    <3>2. ASSUME NEW e \in Runs, Look(e) PROVE RequestsOK'
      BY <3>2 DEF Look, Drop, IInv, Typed, RequestsOK
    <3> QED BY <2>1, <3>1, <3>2 DEF Draining
  <2>2. CASE Stamp
    BY <2>2 DEF Stamp, IInv, Typed, RequestsOK, DrainOK
  <2>3. CASE Defer
    BY <2>3 DEF Defer, IInv, Typed, RequestsOK
  <2> QED BY <2>1, <2>2, <2>3
<1>4. BoundsOK'
  BY DEF Draining, Defer, BeginDrain, EndDrain, Look, FillOrder, Stamp, IInv, Typed, BoundsOK,
         GamesAssumption
<1>6. EnteredOK'
  <2>1. \A d \in Runs : order[d] = "none" => order'[d] = "none" /\ fill'[d] = fill[d]
    <3>1. CASE Stamp
      BY <3>1 DEF Stamp, IInv, Typed, RequestsOK, DrainOK
    <3>2. ASSUME NEW e \in Runs, Look(e)
          PROVE  \A d \in Runs : order[d] = "none" => order'[d] = "none" /\ fill'[d] = fill[d]
      BY <3>2 DEF Look, Drop, IInv, Typed, RequestsOK
    <3> QED BY <3>1, <3>2 DEF Draining, Defer, BeginDrain, EndDrain, FillOrder
  <2> QED BY <1>1, <2>1 DEF IInv, EnteredOK
<1> QED BY <1>1, <1>2, <1>3, <1>4, <1>6, Quiet DEF IInv, Typed

LEMMA AccidentKeeps ==
    ASSUME GamesAssumption, IInv, PassFails \/ Crash
    PROVE  IInv'
<1>1. UNCHANGED <<stage, closed, entry, points, duels, overwritten, stale, moves, order>>
  BY DEF PassFails, Crash
<1>2. pass' = NoPass /\ BoundsOK'
  BY DEF PassFails, Crash, IInv, Typed, BoundsOK, GamesAssumption
<1>3. RequestsOK' /\ DrainOK' /\ RestartOK'
  <2>1. CASE PassFails
    BY <2>1, <1>1 DEF PassFails, IInv, Typed, RequestsOK, DrainOK, RestartOK
  <2>2. CASE Crash
    <3>1. RequestsOK' /\ DrainOK'
      BY <2>2, <1>1 DEF Crash, IInv, Typed, RequestsOK, DrainOK, Resting
    <3>2. RestartOK'
      BY <2>2, <1>1 DEF Crash, RestartOK, NoRestart
    <3> QED BY <3>1, <3>2
  <2> QED BY <2>1, <2>2
<1>4. EnteredOK'
  BY <1>1 DEF PassFails, Crash, NoRestart, IInv, EnteredOK
<1> QED BY <1>1, <1>2, <1>3, <1>4, NoPassOK, Quiet DEF IInv, Typed

-----------------------------------------------------------------------------
(* The clock, entries and duels *)

LEMMA PassTimeKeeps ==
    ASSUME GamesAssumption, IInv, NEW f \in Fields, PassTime(f)
    PROVE  IInv'
<1>1. UNCHANGED <<closed, entry, points, duels, overwritten, stale, pass, restart, drain,
                  order, request, fill, marked, moves, trouble>>
  BY DEF PassTime
<1>2. StageOK'
  BY DEF PassTime, IInv, Typed, StageOK
<1>3. \A g \in Fields : stage[g] = "over" => stage'[g] = "over"
  BY DEF PassTime, IInv, Typed, StageOK
<1>5. Pending' = Pending
  BY <1>1 DEF Pending
<1>6. PassOK' /\ Remaining'
  BY <1>1, <1>3, <1>5 DEF IInv, Typed, PassOK, Remaining
<1>7. EntryOK' /\ PointsOK' /\ DuelsOK' /\ RequestsOK' /\ RestartOK' /\ DrainOK' /\ BoundsOK'
  BY <1>1 DEF IInv, Typed, EntryOK, PointsOK, DuelsOK, RequestsOK, RestartOK, DrainOK, BoundsOK
<1>8. EnteredOK' /\ ScoredOK' /\ ResultsArePaid' /\ ClampHolds'
  BY <1>1 DEF IInv, EnteredOK, ScoredOK, ResultsArePaid, ClampHolds, Total
<1> QED BY <1>2, <1>6, <1>7, <1>8 DEF IInv, Typed

LEMMA PairKeeps ==
    ASSUME GamesAssumption, IInv, NEW f \in Fields, PairField(f)
    PROVE  IInv'
<1>1. UNCHANGED <<stage, closed, entry, points, overwritten, stale, pass, restart, drain,
                  order, request, fill, marked, moves, trouble>>
  BY DEF PairField
<1>2. PICK m \in Pairings(Free(f) \ FirstRuns(f)) :
          duels' = duels
             \cup {NewDuel("first_run", x[1], x[2]) : x \in FirstRuns(f) \X DeskOf(f)}
             \cup {NewDuel("auto", x[1], x[2]) : x \in m}
  BY DEF PairField
<1>3. /\ \A e \in Free(f) : e \in Runs /\ Field(e) = f /\ Player(e) \notin Desks
      /\ \A e \in DeskOf(f) : e \in Runs /\ Player(e) \in Desks
      /\ FirstRuns(f) \subseteq Free(f)
  BY DEF Free, FirstRuns, Unpaired, DeskOf
<1>4. \A x \in m : x[1] \in Free(f) /\ x[2] \in Free(f) /\ x[1] # x[2]
  BY DEF Pairings
<1>5. ASSUME NEW d \in duels', d \notin duels
      PROVE  /\ d \in [kind : {"first_run", "auto"}, a : Runs, b : Runs,
                       state : {"live", "settled", "void"}]
             /\ d.a # d.b /\ Player(d.a) \notin Desks /\ Field(d.a) = f
             /\ d.kind = (IF Player(d.b) \in Desks THEN "first_run" ELSE "auto")
  <2>1. CASE \E x \in FirstRuns(f) \X DeskOf(f) : d = NewDuel("first_run", x[1], x[2])
    BY <1>3, <2>1 DEF NewDuel
  <2>2. CASE \E x \in m : d = NewDuel("auto", x[1], x[2])
    BY <1>3, <1>4, <2>2 DEF NewDuel
  <2> QED BY <1>2, <1>5, <2>1, <2>2
<1>6. DuelsOK'
  BY <1>5 DEF IInv, Typed, DuelsOK
<1>7. ResultsArePaid'
  <2>1. f \notin closed
    BY DEF PairField, IInv, Typed, StageOK
  <2>2. \A d \in duels' : d.state = "live" => Field(d.a) \notin closed
    BY <1>5, <2>1 DEF IInv, ResultsArePaid
  <2> QED BY <1>1, <2>2 DEF IInv, ResultsArePaid
<1>9. Pending' = Pending
  BY <1>1 DEF Pending
<1>10. PassOK' /\ Remaining'
  BY <1>1, <1>9 DEF IInv, Typed, PassOK, Remaining
<1>11. StageOK' /\ EntryOK' /\ PointsOK' /\ RequestsOK' /\ RestartOK' /\ DrainOK' /\ BoundsOK'
  BY <1>1 DEF IInv, Typed, StageOK, EntryOK, PointsOK, RequestsOK, RestartOK, DrainOK, BoundsOK
<1>12. EnteredOK' /\ ScoredOK' /\ ClampHolds'
  BY <1>1 DEF IInv, EnteredOK, ScoredOK, ClampHolds, Total
<1> QED BY <1>6, <1>7, <1>10, <1>11, <1>12 DEF IInv, Typed

-----------------------------------------------------------------------------
(* Writes to the row of a run *)

\* A settled run that is written becomes one of the overwritten.
WritesRun(e) ==
    /\ \A d \in Runs \ {e} : entry'[d] = entry[d]
    /\ entry'[e].scored = entry[e].scored
    /\ entry'[e].state # "none" \/ entry'[e].state = entry[e].state
    /\ overwritten \subseteq overwritten' /\ overwritten' \subseteq Runs
    /\ \/ entry'[e].state = entry[e].state
       \/ entry[e].state \in Settled /\ e \in overwritten'
       \/ entry[e].state \in Live \cup {"bust"}
       \/ entry[e].state = "none" /\ stage[Field(e)] # "over"

LEMMA RunWritten ==
    ASSUME GamesAssumption, IInv, NEW e \in Runs, EntryOK', WritesRun(e),
           UNCHANGED <<stage, pass>>
    PROVE  /\ ScoredOK' /\ Remaining'
           /\ \A d \in Runs : entry[d].state # "none" => entry'[d].state # "none"
<1>1. Pending' = Pending
  BY DEF Pending
<1>2. \A d \in Runs : entry[d].state # "none" => entry'[d].state # "none"
  BY DEF WritesRun
<1>3. entry[e].state \in States
  BY DEF IInv, Typed, EntryOK
<1>4. ScoredOK'
  BY <1>3 DEF WritesRun, IInv, ScoredOK, Settled, Live
<1>5. ASSUME pass # NoPass, NEW d \in Runs, Field(d) = pass.field, d \notin overwritten',
             entry'[d].state \notin Settled \cup {"none"}
      PROVE  d \in Pending
  <2>1. stage[Field(d)] = "over" /\ d \notin overwritten
    BY <1>5 DEF IInv, Typed, PassOK, WritesRun
  <2>2. entry[d].state \notin Settled \cup {"none"}
    BY <1>5, <2>1 DEF WritesRun, Settled, Live
  <2> QED BY <1>5, <2>1, <2>2 DEF IInv, Remaining
<1>6. Remaining'
  BY <1>1, <1>5 DEF Remaining
<1> QED BY <1>2, <1>4, <1>6

LEMMA PassKeptOK ==
    ASSUME IInv, UNCHANGED <<stage, pass>>,
           \A d \in Runs : entry[d].state # "none" => entry'[d].state # "none"
    PROVE  PassOK'
<1>1. Pending' = Pending
  BY DEF Pending
<1> QED BY <1>1 DEF IInv, Typed, PassOK

\* entry, first fill, bust: the career stays as it is.
LEMMA WriteKeeps ==
    ASSUME GamesAssumption, IInv, NEW e \in Runs, EntryOK', WritesRun(e), RequestsOK',
           EnteredOK',
           UNCHANGED <<stage, closed, points, duels, stale, pass, restart, drain, moves, trouble>>,
           entry'[e].state = entry[e].state \/ entry'[e].state \in Live \cup {"bust"}
    PROVE  IInv'
<1>1. /\ ScoredOK' /\ Remaining'
      /\ \A d \in Runs : entry[d].state # "none" => entry'[d].state # "none"
  BY RunWritten
<1>2. PassOK'
  BY <1>1, PassKeptOK
<1>3. RestartOK'
  BY DEF IInv, Typed, RestartOK
<1>4. StageOK' /\ PointsOK' /\ DuelsOK' /\ DrainOK' /\ BoundsOK'
  BY DEF IInv, Typed, StageOK, PointsOK, DuelsOK, DrainOK, BoundsOK
<1>5. ClampHolds'
  BY DEF IInv, ClampHolds, Total
<1>6. ResultsArePaid'
  <2>1. \A d \in duels' : d.state = "live" => Field(d.a) \notin closed
    BY DEF IInv, ResultsArePaid
  <2>2. ASSUME NEW d \in Runs
        PROVE  /\ entry'[d].state = "finished" => points[d].run_close # None
               /\ entry'[d].state = "forfeit" => points[d].forfeit_debit # None
               /\ entry'[d].state = "none" => points[d] = Unposted
               /\ d \notin overwritten' =>
                     /\ points[d].run_close # None => entry'[d].state = "finished"
                     /\ points[d].duel_result # None => entry'[d].state = "finished"
                     /\ points[d].finish_stipend # None => entry'[d].state \in {"finished", "void"}
                     /\ points[d].forfeit_debit # None => entry'[d].state = "forfeit"
                     /\ Field(d) \in closed => entry'[d].state \in Settled \cup {"none"}
    <3>1. CASE entry'[d].state = entry[d].state
      BY <3>1 DEF IInv, ResultsArePaid, WritesRun
    <3>2. CASE entry'[d].state # entry[d].state
      <4>1. d = e /\ entry'[e].state \in Live \cup {"bust"}
        BY <3>2 DEF WritesRun
      <4>2. CASE entry[e].state = "none" /\ stage[Field(e)] # "over"
        <5>1. points[e] = Unposted /\ Field(e) \notin closed
          BY <4>2 DEF IInv, ResultsArePaid, Typed, StageOK
        <5>2. \A r \in Reasons : points[e][r] = None
          BY <5>1 DEF Unposted
        <5> QED BY <4>1, <5>1, <5>2 DEF Live, Reasons
      <4>3. CASE entry[e].state \in Live \cup {"bust"}
        BY <4>1, <4>3 DEF IInv, ResultsArePaid, Live, Settled, WritesRun
      <4>4. CASE e \in overwritten'
        BY <4>1, <4>4 DEF Live
      <4> QED BY <3>2, <4>1, <4>2, <4>3, <4>4 DEF WritesRun
    <3> QED BY <3>1, <3>2
  <2> QED BY <2>1, <2>2 DEF ResultsArePaid
<1> QED BY <1>1, <1>2, <1>3, <1>4, <1>5, <1>6 DEF IInv, Typed

LEMMA EnterKeeps ==
    ASSUME GamesAssumption, IInv, NEW e \in Runs, Enter(e)
    PROVE  IInv'
<1>1. UNCHANGED <<stage, closed, points, duels, stale, pass, restart, drain, moves, trouble,
                  order, request, fill, marked, overwritten>>
  BY DEF Enter
<1>2. EntryOK' /\ RequestsOK'
  BY <1>1 DEF Enter, IInv, Typed, EntryOK, RequestsOK, States, Live
<1>3. WritesRun(e) /\ entry'[e].state \in Live
  BY <1>1 DEF Enter, WritesRun, IInv, Typed, EntryOK, RequestsOK, Live
<1>4. EnteredOK'
  BY <1>1, <1>3 DEF WritesRun, Live, IInv, EnteredOK
<1> QED BY <1>1, <1>2, <1>3, <1>4, WriteKeeps

LEMMA FillKeeps ==
    ASSUME GamesAssumption, IInv, NEW e \in Runs, RecordFill(e) \/ Bust(e)
    PROVE  IInv'
<1>1. UNCHANGED <<stage, closed, points, duels, stale, pass, restart, drain, moves, trouble,
                  order, request>>
  BY DEF RecordFill, Bust
<1>2. PICK new \in [state : States, busted : BOOLEAN, traded : BOOLEAN, scored : BOOLEAN] :
          /\ entry' = [entry EXCEPT ![e] = new] /\ new.scored = entry[e].scored
          /\ new.state \in {entry[e].state, "active", "bust"}
  <2>1. entry[e] \in [state : States, busted : BOOLEAN, traded : BOOLEAN, scored : BOOLEAN]
    BY DEF IInv, Typed, EntryOK
  <2>2. CASE RecordFill(e)
    <3> DEFINE new == [entry[e] EXCEPT !.traded = TRUE,
                                       !.state = IF fill[e] = "first" THEN "active" ELSE @]
    <3>1. entry' = [entry EXCEPT ![e] = new]
      BY <2>2 DEF RecordFill
    <3>2. /\ new \in [state : States, busted : BOOLEAN, traded : BOOLEAN, scored : BOOLEAN]
          /\ new.scored = entry[e].scored /\ new.state \in {entry[e].state, "active", "bust"}
      BY <2>1 DEF States, Live
    <3> HIDE DEF new
    <3> QED BY <3>1, <3>2
  <2>3. CASE Bust(e)
    <3> DEFINE new == [entry[e] EXCEPT !.state = "bust", !.busted = TRUE]
    <3>1. entry' = [entry EXCEPT ![e] = new]
      BY <2>3 DEF Bust
    <3>2. /\ new \in [state : States, busted : BOOLEAN, traded : BOOLEAN, scored : BOOLEAN]
          /\ new.scored = entry[e].scored /\ new.state \in {entry[e].state, "active", "bust"}
      BY <2>1 DEF States, Live
    <3> HIDE DEF new
    <3> QED BY <3>1, <3>2
  <2> QED BY <2>2, <2>3
<1>3. EntryOK' /\ entry'[e] = new /\ \A d \in Runs \ {e} : entry'[d] = entry[d]
  BY <1>2 DEF IInv, Typed, EntryOK
<1>4. entry[e].state # "none"
  BY DEF RecordFill, Bust, IInv, EnteredOK, GamesAssumption
<1>5. entry[e].state \in Settled => entry'[e].state = entry[e].state \/ e \in overwritten'
  BY <1>3 DEF RecordFill, Bust, IInv, Typed, EntryOK
<1>6. /\ overwritten \subseteq overwritten' /\ overwritten' \subseteq Runs /\ RequestsOK'
  <2>1. CASE RecordFill(e)
    <3>1. fill' = [fill EXCEPT ![e] = None] /\ marked' = marked
          /\ overwritten' \in {overwritten, overwritten \cup {e}}
      BY <2>1 DEF RecordFill
    <3> QED BY <1>1, <3>1 DEF IInv, Typed, RequestsOK
  <2>2. CASE Bust(e)
    <3>1. fill' = fill /\ marked' = marked \ {e}
          /\ overwritten' \in {overwritten, overwritten \cup {e}}
      BY <2>2 DEF Bust
    <3> QED BY <1>1, <3>1 DEF IInv, Typed, RequestsOK
  <2> QED BY <2>1, <2>2
<1>7. WritesRun(e)
  <2>1. /\ \A d \in Runs \ {e} : entry'[d] = entry[d]
        /\ entry'[e].scored = entry[e].scored
        /\ entry'[e].state # "none" \/ entry'[e].state = entry[e].state
    BY <1>2, <1>3, <1>4
  <2>2. entry[e].state \in States
    BY DEF IInv, Typed, EntryOK
  <2> QED BY <1>4, <1>5, <1>6, <2>1, <2>2 DEF WritesRun, States, Live, Settled
<1>8. \A d \in Runs \ {e} : fill'[d] = fill[d] /\ (d \in marked' => d \in marked)
  BY DEF RecordFill, Bust, IInv, Typed, RequestsOK
<1>9. EnteredOK'
  BY <1>1, <1>3, <1>4, <1>7, <1>8 DEF WritesRun, IInv, EnteredOK
<1>10. entry'[e].state = entry[e].state \/ entry'[e].state \in Live \cup {"bust"}
  BY <1>2, <1>3 DEF Live
<1> QED BY <1>1, <1>3, <1>6, <1>7, <1>9, <1>10, WriteKeeps

\* The total of a player who is not in stale can bear what the step writes.
LEMMA TotalIsIn ==
    ASSUME GamesAssumption, IInv, NEW p
    PROVE  Total(p) = TotalIn(points, p) /\ Total(p) \in Int
<1>1. Total(p) = TotalIn(points, p)
  BY DEF Total, TotalIn
<1> QED BY <1>1, TotalType DEF IInv, Typed, PointsOK

\* The forfeit and its debit.
LEMMA CommitKeeps ==
    ASSUME GamesAssumption, IInv, NEW e \in Runs, CommitRestart(e)
    PROVE  IInv'
<1> DEFINE new == Post(points[e], "forfeit_debit", -Debit, restart[e].total)
<1>1. UNCHANGED <<stage, closed, duels, request, fill, marked, drain, pass, moves, trouble>>
  BY DEF CommitRestart
<1>2. /\ points[e] \in Rows /\ None \notin Int /\ restart[e].total \in Int /\ -Debit \in Int
      /\ "forfeit_debit" \in Reasons
  BY DEF IInv, Typed, PointsOK, RestartOK, GamesAssumption, Reasons
<1>3. /\ new \in Rows /\ new["forfeit_debit"] # None
      /\ \A r \in Reasons : points[e][r] # None \/ r # "forfeit_debit" => new[r] = points[e][r]
      /\ Worth(new) \in Int /\ Worth(points[e]) \in Int
      /\ Worth(new) >= Worth(points[e]) \/ Worth(new) >= Worth(points[e]) - restart[e].total
  <2> HIDE DEF new
  <2>1. new = Post(points[e], "forfeit_debit", -Debit, restart[e].total)
    BY DEF new
  <2> QED BY <1>2, <2>1, PostWrites
<1>4. points' = [points EXCEPT ![e] = new]
  BY DEF CommitRestart
<1> HIDE DEF new
<1>5. PointsOK' /\ points'[e] = new /\ \A d \in Runs \ {e} : points'[d] = points[d]
  BY <1>3, <1>4 DEF IInv, Typed, PointsOK
<1>6. entry[e].state # "none"
  BY DEF CommitRestart, IInv, EnteredOK
<1>7. EntryOK' /\ entry'[e] = [entry[e] EXCEPT !.state = "forfeit"]
      /\ \A d \in Runs \ {e} : entry'[d] = entry[d]
  BY DEF CommitRestart, Write, IInv, Typed, EntryOK, States, Settled
<1>8. /\ overwritten \subseteq overwritten' /\ overwritten' \subseteq Runs
      /\ entry[e].state \in Settled => e \in overwritten'
  BY DEF CommitRestart, Write, IInv, Typed, RequestsOK
<1>9. entry'[e].state = "forfeit" /\ entry'[e].scored = entry[e].scored
      /\ entry[e].state \in States
  BY <1>7 DEF IInv, Typed, EntryOK
<1>10. WritesRun(e)
  BY <1>6, <1>7, <1>8, <1>9 DEF WritesRun, States
<1>11. /\ ScoredOK' /\ Remaining'
       /\ \A d \in Runs : entry[d].state # "none" => entry'[d].state # "none"
  BY <1>1, <1>7, <1>10, RunWritten
<1>12. RestartOK' /\ restart'[e].pc = "none" /\ \A d \in Runs \ {e} : restart'[d] = restart[d]
  BY DEF CommitRestart, NoRestart, IInv, Typed, RestartOK
<1>13. PassOK'
  BY <1>1, <1>11, PassKeptOK
<1>14. RequestsOK' /\ \A d \in Runs : order[d] = "none" => order'[d] = "none"
  BY <1>1, <1>8 DEF CommitRestart, IInv, Typed, RequestsOK
<1>15. EnteredOK'
  BY <1>1, <1>7, <1>9, <1>12, <1>14 DEF IInv, EnteredOK
<1>16. StageOK' /\ DuelsOK' /\ DrainOK' /\ BoundsOK'
  BY <1>1 DEF IInv, Typed, StageOK, DuelsOK, DrainOK, BoundsOK
<1>17. ResultsArePaid'
  <2>1. \A d \in duels' : d.state = "live" => Field(d.a) \notin closed'
    BY <1>1 DEF IInv, ResultsArePaid
  <2>2. /\ entry[e].state \notin Settled =>
               /\ points[e]["run_close"] = None /\ points[e]["duel_result"] = None
               /\ points[e]["finish_stipend"] = None
        \/ e \in overwritten'
    BY <1>8 DEF IInv, ResultsArePaid, Settled
  <2>3. /\ entry'[e].state = "forfeit" => points'[e]["forfeit_debit"] # None
        /\ e \notin overwritten' =>
              /\ points'[e]["run_close"] = None /\ points'[e]["duel_result"] = None
              /\ points'[e]["finish_stipend"] = None
    BY <1>3, <1>5, <1>8, <2>2 DEF Reasons
  <2> QED BY <1>1, <1>5, <1>7, <1>8, <1>9, <2>1, <2>3 DEF IInv, ResultsArePaid, Settled
<1>18. ClampHolds'
  <2> SUFFICES ASSUME NEW d \in Runs, Player(d) \notin stale' PROVE TotalIn(points', Player(d)) >= 0
    BY DEF ClampHolds, Total, TotalIn
  <2>1. stale' = IF Total(Player(e)) < restart[e].total THEN stale \cup {Player(e)} ELSE stale
    BY DEF CommitRestart
  <2>2. TotalIn(points, Player(d)) >= 0
    BY <2>1, TotalIsIn DEF IInv, ClampHolds
  <2>3. CASE Player(d) # Player(e)
    <3>1. TotalIn(points, Player(d)) = TotalIn(points', Player(d))
      BY <1>5, <2>3, TotalSame
    <3> QED BY <2>2, <3>1
  <2>4. CASE Player(d) = Player(e)
    <3>1. TotalIn(points, Player(e)) >= restart[e].total /\ TotalIn(points, Player(e)) \in Int
      BY <1>2, <2>1, <2>4, TotalIsIn
    <3>2. TotalIn(points', Player(e)) = TotalIn(points, Player(e)) + Worth(new) - Worth(points[e])
      <4>1. points \in [Runs -> Rows] /\ points' \in [Runs -> Rows]
        BY <1>5 DEF IInv, Typed, PointsOK
      <4>2. \A x \in Runs \ {e} : Player(x) = Player(e) => points[x] = points'[x]
        BY <1>5
      <4> HIDE DEF new
      <4> QED BY <1>5, <4>1, <4>2, TotalChange
    <3> QED BY <1>2, <1>3, <2>2, <2>4, <3>1, <3>2
  <2> QED BY <2>3, <2>4
<1> QED BY <1>5, <1>7, <1>11, <1>12, <1>13, <1>14, <1>15, <1>16, <1>17, <1>18 DEF IInv, Typed

-----------------------------------------------------------------------------
(* The scoring pass *)

LEMMA ReadFieldKeeps ==
    ASSUME GamesAssumption, IInv, NEW f \in Fields, ReadField(f)
    PROVE  IInv'
<1> DEFINE pending == {e \in Runs : /\ Field(e) = f /\ entry[e].state \in Scorable
                                    /\ ~entry[e].scored}
<1>1. UNCHANGED <<stage, closed, entry, points, duels, overwritten, stale, order, request, fill,
                  marked, restart, drain, moves, trouble>>
  BY DEF ReadField
<1>2. PICK worth : /\ \A e \in pending : worth[e] \in Returns[e]
                   /\ pass' = [NoPass EXCEPT !.field = f, !.result = worth, !.todo = pending,
                                 !.stipend = {e \in pending : entry[e].traded /\ ~entry[e].busted}]
  BY DEF ReadField
<1>3. /\ pass'.field = f /\ pass'.result = worth /\ pass'.todo = pending /\ pass'.at = None
      /\ DOMAIN pass'.wrote = {} /\ pass'.sum = None /\ pass'.held = {} /\ pass'.seen = None
      /\ DOMAIN pass' = PassFields
  BY <1>2 DEF NoPass, PassFields
<1>4. Pending' = pending
  BY <1>3 DEF Pending
<1>5. stage[f] = "over"
  BY DEF ReadField
<1>6. \A e \in pending : /\ e \in Runs /\ Field(e) = f /\ entry[e].state # "none"
                         /\ worth[e] \in Deltas
  BY <1>2 DEF GamesAssumption, Scorable, Live, Deltas
<1>7. PassOK'
  BY <1>1, <1>3, <1>4, <1>5, <1>6 DEF PassOK, Deltas, GamesAssumption
<1> HIDE DEF pending
<1>8. ASSUME NEW e \in Runs, Field(e) = f, e \notin overwritten,
             entry[e].state \notin Settled \cup {"none"}
      PROVE  e \in pending
  <2>1. entry[e].state \in Scorable
    <3>1. entry[e].state \in States
      BY DEF IInv, Typed, EntryOK
    <3> QED BY <1>8, <3>1 DEF States, Scorable, Settled
  <2>2. ~entry[e].scored
    BY <1>8 DEF IInv, ScoredOK, Settled
  <2> QED BY <1>8, <2>1, <2>2 DEF pending
<1>9. Remaining'
  BY <1>1, <1>3, <1>4, <1>8 DEF Remaining
<1> QED BY <1>1, <1>7, <1>9, Quiet DEF IInv, Typed

LEMMA ReadRunKeeps ==
    ASSUME GamesAssumption, IInv, NEW e \in Runs, ReadRun(e)
    PROVE  IInv'
<1>1. UNCHANGED <<stage, closed, entry, points, duels, overwritten, stale, order, request, fill,
                  marked, restart, drain, moves, trouble>>
  BY DEF ReadRun
<1>2. DOMAIN pass = PassFields
  BY DEF IInv, Typed, PassOK
<1>3. PICK at \in {e, None} :
          /\ pass' = [pass EXCEPT !.todo = @ \ {e}, !.sum = None, !.at = at]
          /\ at = e <=> entry[e].state \in Scorable /\ ~entry[e].scored
  BY DEF ReadRun, GamesAssumption
<1>4. /\ pass'.field = pass.field /\ pass'.result = pass.result /\ pass'.wrote = pass.wrote
      /\ pass'.todo = pass.todo \ {e} /\ pass'.at = at /\ pass'.sum = None
      /\ pass'.held = pass.held /\ pass'.seen = pass.seen /\ DOMAIN pass' = PassFields
  BY <1>2, <1>3 DEF PassFields
<1>5. e \in pass.todo /\ pass.at = None /\ pass # NoPass
  BY DEF ReadRun, NoPass
<1>6. Pending' \subseteq Pending /\ Pending \ {e} \subseteq Pending' /\ (at = e => e \in Pending')
  BY <1>4, <1>5 DEF Pending, GamesAssumption
<1>7. pass.seen = None
  BY <1>5 DEF IInv, Typed, PassOK
<1>8. PassOK'
  BY <1>1, <1>3, <1>4, <1>5, <1>6, <1>7 DEF IInv, Typed, PassOK, Deltas, GamesAssumption
<1>9. e \notin overwritten /\ entry[e].state \notin Settled \cup {"none"} => e \in Pending'
  BY <1>3, <1>6 DEF IInv, ScoredOK, Typed, EntryOK, States, Scorable, Settled
<1>10. Remaining'
  BY <1>1, <1>4, <1>5, <1>6, <1>9 DEF IInv, Remaining
<1> QED BY <1>1, <1>8, <1>10, Quiet DEF IInv, Typed

LEMMA TotalIsNumber ==
    ASSUME GamesAssumption, IInv, NEW p
    PROVE  Total(p) \in Int
  BY TotalIsIn

\* The total a debit is clamped against.
LEMMA SumKeeps ==
    ASSUME GamesAssumption, IInv, SumRun
    PROVE  IInv'
<1>1. UNCHANGED <<stage, closed, entry, points, duels, overwritten, stale, order, request, fill,
                  marked, restart, drain, moves, trouble>>
  BY DEF SumRun
<1>2. PICK n \in Int : pass' = [pass EXCEPT !.sum = n]
  BY TotalIsNumber DEF SumRun
<1>3. DOMAIN pass = PassFields
  BY DEF IInv, Typed, PassOK
<1>4. /\ pass'.field = pass.field /\ pass'.result = pass.result /\ pass'.todo = pass.todo
      /\ pass'.at = pass.at /\ pass'.sum = n /\ pass'.wrote = pass.wrote
      /\ pass'.held = pass.held /\ pass'.seen = pass.seen /\ DOMAIN pass' = PassFields
  BY <1>2, <1>3 DEF PassFields
<1>5. Pending' = Pending
  BY <1>4 DEF Pending
<1>6. pass # NoPass
  BY DEF SumRun, NoPass
<1>7. PassOK'
  BY <1>1, <1>4, <1>5, <1>6 DEF IInv, Typed, PassOK, Deltas
<1>8. Remaining'
  BY <1>1, <1>4, <1>5, <1>6 DEF IInv, Remaining
<1> QED BY <1>1, <1>7, <1>8, Quiet DEF IInv, Typed

\* _apply_score.
LEMMA ScoreKeeps ==
    ASSUME GamesAssumption, IInv, Score, NEW e, e = pass.at
    PROVE  IInv'
<1> DEFINE n == IF Debited(e) THEN pass.sum ELSE 0
           scored == With(pass.wrote, e, n)
<1>1. UNCHANGED <<stage, closed, entry, points, duels, overwritten, stale, order, request, fill,
                  marked, restart, drain, moves, trouble>>
  BY DEF Score
<1>2. DOMAIN pass = PassFields
  BY DEF IInv, Typed, PassOK
<1>3. e # None /\ (Debited(e) => pass.sum # None)
  BY DEF Score
<1>4. n \in Int
  BY <1>3 DEF IInv, Typed, PassOK, Deltas
<1>5. PICK held \in {pass.held, DOMAIN scored} :
          pass' = [pass EXCEPT !.at = None, !.sum = None, !.wrote = scored, !.held = held]
  BY DEF Score
<1> HIDE DEF n
<1>6. /\ DOMAIN scored = DOMAIN pass.wrote \cup {e} /\ scored[e] = n
      /\ \A d \in DOMAIN pass.wrote \ {e} : scored[d] = pass.wrote[d]
  BY DEF With
<1> HIDE DEF scored
<1>7. /\ pass'.field = pass.field /\ pass'.result = pass.result /\ pass'.todo = pass.todo
      /\ pass'.at = None /\ pass'.sum = None /\ pass'.wrote = scored
      /\ pass'.held = held /\ pass'.seen = pass.seen /\ DOMAIN pass' = PassFields
  BY <1>2, <1>5 DEF PassFields
<1>8. e \in Pending /\ e \in Runs /\ e \notin pass.todo /\ pass # NoPass
  BY <1>3 DEF Pending, IInv, Typed, PassOK, NoPass
<1>9. Pending' = Pending
  BY <1>3, <1>6, <1>7 DEF Pending
<1>10. /\ held \subseteq DOMAIN scored /\ pass.seen = None
       /\ \A d \in DOMAIN scored : scored[d] \in Int
  BY <1>3, <1>4, <1>6 DEF IInv, Typed, PassOK
<1>11. PassOK'
  <2>1. /\ pass'.field \in Fields /\ stage'[pass'.field] = "over"
        /\ Pending' \subseteq Runs /\ pass'.todo \cap DOMAIN pass'.wrote = {}
        /\ pass'.at \notin pass'.todo
    BY <1>1, <1>6, <1>7, <1>8, <1>9 DEF IInv, Typed, PassOK, Pending, GamesAssumption
  <2>2. \A d \in Pending' : /\ Field(d) = pass'.field /\ entry'[d].state # "none"
                            /\ pass'.result[d] \in Deltas
    BY <1>1, <1>7, <1>9 DEF IInv, Typed, PassOK
  <2> QED BY <1>7, <1>10, <2>1, <2>2 DEF PassOK, Deltas
<1>12. Remaining'
  BY <1>1, <1>7, <1>8, <1>9 DEF IInv, Remaining
<1> QED BY <1>1, <1>11, <1>12, Quiet DEF IInv, Typed

LEMMA JudgeKeeps ==
    ASSUME GamesAssumption, IInv, JudgeDuels
    PROVE  IInv'
<1> DEFINE seen == [e \in Runs |-> IF e \in Sides THEN Total(Player(e)) ELSE 0]
<1>1. UNCHANGED <<stage, closed, entry, points, duels, overwritten, stale, order, request, fill,
                  marked, restart, drain, moves, trouble>>
  BY DEF JudgeDuels
<1>2. DOMAIN pass = PassFields
  BY DEF IInv, Typed, PassOK
<1>3. PICK held \in {pass.held, DOMAIN pass.wrote} :
          pass' = [pass EXCEPT !.seen = seen, !.held = held]
  BY DEF JudgeDuels
<1>4. seen \in [Runs -> Int]
  BY TotalIsNumber
<1> HIDE DEF seen
<1>5. /\ pass'.field = pass.field /\ pass'.result = pass.result /\ pass'.todo = pass.todo
      /\ pass'.at = pass.at /\ pass'.sum = pass.sum /\ pass'.wrote = pass.wrote
      /\ pass'.held = held /\ pass'.seen = seen /\ DOMAIN pass' = PassFields
  BY <1>2, <1>3 DEF PassFields
<1>6. Pending' = Pending
  BY <1>5 DEF Pending
<1>7. pass # NoPass /\ pass.todo = {} /\ pass.at = None
  BY DEF JudgeDuels
<1>8. PassOK'
  BY <1>1, <1>4, <1>5, <1>6, <1>7 DEF IInv, Typed, PassOK
<1>9. Remaining'
  BY <1>1, <1>5, <1>6, <1>7 DEF IInv, Remaining
<1> QED BY <1>1, <1>8, <1>9, Quiet DEF IInv, Typed

\* What a scored run's row has become before the duels.
LEMMA PostedRow ==
    ASSUME GamesAssumption, IInv, NEW e \in DOMAIN pass.wrote, NEW row, row = Posted(e)
    PROVE  /\ e \in Runs /\ row \in Rows
           /\ Worth(row) \in Int /\ Worth(points[e]) \in Int /\ Total(Player(e)) \in Int
           /\ pass.result[e] # None => row["run_close"] # None
           /\ pass.result[e] = None => row["run_close"] = points[e]["run_close"]
           /\ \A r \in {"duel_result", "forfeit_debit"} : row[r] = points[e][r]
           /\ Worth(row) < Worth(points[e])
                 => Debited(e) /\ Worth(row) >= Worth(points[e]) - pass.wrote[e]
<1> DEFINE close == IF pass.result[e] = None THEN points[e]
                    ELSE Post(points[e], "run_close", pass.result[e], pass.wrote[e])
<1>1. e \in Pending
  BY DEF Pending
<1>2. /\ e \in Runs /\ points[e] \in Rows /\ None \notin Int /\ pass.wrote[e] \in Int
      /\ Stipend \in Int /\ Stipend >= 0 /\ 0 \in Int /\ pass.result[e] \in Deltas
      /\ "run_close" \in Reasons /\ "finish_stipend" \in Reasons
  BY <1>1 DEF IInv, Typed, PointsOK, PassOK, GamesAssumption, Reasons
<1>3. Total(Player(e)) \in Int
  BY TotalIsNumber
<1>4. /\ close \in Rows /\ Worth(close) \in Int /\ Worth(points[e]) \in Int
      /\ \A r \in Reasons : points[e][r] # None \/ r # "run_close" => close[r] = points[e][r]
      /\ pass.result[e] # None => close["run_close"] # None
      /\ pass.result[e] = None => close = points[e]
      /\ Worth(close) < Worth(points[e])
            => Debited(e) /\ Worth(close) >= Worth(points[e]) - pass.wrote[e]
  <2>1. CASE pass.result[e] = None
    BY <1>2, <2>1, WorthType
  <2>2. CASE pass.result[e] # None
    <3>1. pass.result[e] \in Int
          /\ close = Post(points[e], "run_close", pass.result[e], pass.wrote[e])
      BY <1>2, <2>2 DEF Deltas
    <3> HIDE DEF close
    <3>2. /\ close \in Rows /\ close["run_close"] # None
          /\ \A r \in Reasons : points[e][r] # None \/ r # "run_close" => close[r] = points[e][r]
          /\ Worth(close) \in Int /\ Worth(points[e]) \in Int
          /\ Worth(close) >= Worth(points[e]) \/ Worth(close) >= Worth(points[e]) - pass.wrote[e]
          /\ pass.result[e] >= 0 => Worth(close) >= Worth(points[e])
      BY <1>2, <3>1, PostWrites
    <3>3. ASSUME Worth(close) < Worth(points[e])
          PROVE  Debited(e) /\ Worth(close) >= Worth(points[e]) - pass.wrote[e]
      BY <1>2, <2>2, <3>1, <3>2, <3>3 DEF Debited
    <3> QED BY <2>2, <3>2, <3>3
  <2> QED BY <2>1, <2>2
<1>5. row = IF e \in pass.stipend THEN Post(close, "finish_stipend", Stipend, 0) ELSE close
  BY DEF Posted
<1> HIDE DEF close
<1>6. /\ row \in Rows /\ Worth(row) \in Int /\ Worth(row) >= Worth(close)
      /\ \A r \in Reasons : close[r] # None \/ r # "finish_stipend" => row[r] = close[r]
  <2>1. CASE e \in pass.stipend
    BY <1>2, <1>4, <1>5, <2>1, PostWrites
  <2>2. CASE e \notin pass.stipend
    BY <1>4, <1>5, <2>2
  <2> QED BY <2>1, <2>2
<1>7. /\ \A r \in {"duel_result", "forfeit_debit"} : row[r] = points[e][r]
      /\ pass.result[e] # None => row["run_close"] # None
      /\ pass.result[e] = None => row["run_close"] = points[e]["run_close"]
  BY <1>4, <1>6 DEF Reasons
<1>8. Worth(row) < Worth(points[e])
         => Debited(e) /\ Worth(row) >= Worth(points[e]) - pass.wrote[e]
  <2>1. Worth(row) < Worth(points[e]) => Worth(close) < Worth(points[e])
    BY <1>4, <1>6
  <2>2. Worth(close) >= Worth(points[e]) - pass.wrote[e]
           => Worth(row) >= Worth(points[e]) - pass.wrote[e]
    BY <1>2, <1>4, <1>6
  <2> QED BY <1>4, <2>1, <2>2
<1> QED BY <1>2, <1>3, <1>4, <1>6, <1>7, <1>8

\* settle_duel and the commit: what a scored run's row becomes.
LEMMA ClosedRow ==
    ASSUME GamesAssumption, IInv, pass.seen # None, NEW e \in DOMAIN pass.wrote, NEW new,
           \/ new = Posted(e) /\ e \notin Sides
           \/ /\ e \in Sides
              /\ \E delta \in Int : new = Post(Posted(e), "duel_result", delta, Seen(e))
    PROVE  /\ e \in Runs /\ new \in Rows /\ Worth(new) \in Int
           /\ pass.result[e] # None => new["run_close"] # None
           /\ pass.result[e] = None => new["run_close"] = points[e]["run_close"]
           /\ new["forfeit_debit"] = points[e]["forfeit_debit"]
           /\ e \notin Sides => new["duel_result"] = points[e]["duel_result"]
           /\ Player(e) \notin stale /\ e \notin Outdated
                 => Total(Player(e)) + Worth(new) - Worth(points[e]) >= 0
<1> DEFINE row == Posted(e)
           total == Total(Player(e))
           before == Worth(points[e])
<1>1. /\ e \in Runs /\ row \in Rows
      /\ Worth(row) \in Int /\ before \in Int /\ total \in Int
      /\ pass.result[e] # None => row["run_close"] # None
      /\ pass.result[e] = None => row["run_close"] = points[e]["run_close"]
      /\ \A r \in {"duel_result", "forfeit_debit"} : row[r] = points[e][r]
      /\ Worth(row) < before => Debited(e) /\ Worth(row) >= before - pass.wrote[e]
  BY PostedRow
<1>2. /\ None \notin Int /\ "duel_result" \in Reasons /\ "run_close" \in Reasons
      /\ "forfeit_debit" \in Reasons /\ pass.wrote[e] \in Int /\ pass.seen[e] \in Int
  BY <1>1 DEF IInv, Typed, PassOK, GamesAssumption, Reasons
<1>3. Seen(e) = pass.seen[e] - before + Worth(row)
  BY DEF Seen
<1>4. Player(e) \notin stale => total >= 0
  BY <1>1 DEF IInv, ClampHolds
<1>5. e \notin Outdated =>
         /\ Debited(e) => ~(total < pass.wrote[e])
         /\ e \in Sides => ~(total < pass.seen[e])
  BY DEF Outdated
<1> HIDE DEF row, total, before
<1>6. Player(e) \notin stale /\ e \notin Outdated => total + Worth(row) - before >= 0
  BY <1>1, <1>2, <1>4, <1>5
<1>7. /\ new \in Rows /\ Worth(new) \in Int
      /\ \A r \in Reasons : r # "duel_result" => new[r] = row[r]
      /\ e \notin Sides => new = row
      /\ \/ Worth(new) >= Worth(row)
         \/ e \in Sides /\ Worth(new) >= Worth(row) - Seen(e)
  <2>1. CASE new = row /\ e \notin Sides
    BY <1>1, <2>1
  <2>2. ASSUME NEW delta \in Int, new = Post(row, "duel_result", delta, Seen(e)), e \in Sides
        PROVE  /\ new \in Rows /\ Worth(new) \in Int
               /\ \A r \in Reasons : r # "duel_result" => new[r] = row[r]
               /\ Worth(new) >= Worth(row) \/ Worth(new) >= Worth(row) - Seen(e)
    <3>1. Seen(e) \in Int
      BY <1>1, <1>2, <1>3
    <3> QED BY <1>1, <1>2, <2>2, <3>1, PostWrites
  <2> QED BY <2>1, <2>2 DEF row
<1>8. Player(e) \notin stale /\ e \notin Outdated => total + Worth(new) - before >= 0
  BY <1>1, <1>2, <1>3, <1>5, <1>6, <1>7
<1> QED BY <1>1, <1>2, <1>7, <1>8 DEF row, total, before

LEMMA CloseKeeps ==
    ASSUME GamesAssumption, IInv, CloseField, NEW f, f = pass.field
    PROVE  IInv'
<1> DEFINE scored == DOMAIN pass.wrote
           Entries == [state : States, busted : BOOLEAN, traded : BOOLEAN, scored : BOOLEAN]
<1>1. UNCHANGED <<stage, order, request, restart, fill, marked, drain, moves, trouble>>
  BY DEF CloseField
<1>2. /\ pass.seen # None /\ pass # NoPass /\ Pending = scored /\ scored \subseteq Runs
      /\ \A e \in scored : Field(e) = f /\ entry[e].state # "none"
      /\ f \in Fields /\ stage[f] = "over"
  <2>1. pass.seen # None
    BY DEF CloseField
  <2>2. NoPass.seen = None
    BY DEF NoPass
  <2>3. pass # NoPass
    BY <2>1, <2>2
  <2> QED BY <2>1, <2>3 DEF IInv, Typed, PassOK, Pending
<1>3. PICK by : points' = [e \in Runs |-> RowAfter(e, by)]
  BY DEF CloseField
<1>4. /\ entry' = [e \in Runs |->
              IF e \in scored
              THEN [entry[e] EXCEPT !.state = IF Finishes(e) THEN "finished" ELSE "void",
                                    !.scored = TRUE]
              ELSE entry[e]]
      /\ overwritten' = overwritten \cup {e \in scored : entry[e].state \in Settled}
      /\ stale' = stale \cup {Player(e) : e \in Outdated}
      /\ duels' = (duels \ Ours) \cup {Outcome(d) : d \in Ours}
      /\ closed' = closed \cup {f} /\ pass' = NoPass
  BY DEF CloseField
<1>5. \A e \in Sides : e \in scored /\ Finishes(e)
  BY DEF Sides, Posting, Decided, Finishes
<1>6. ASSUME NEW e \in scored
      PROVE  /\ points'[e] \in Rows /\ Worth(points'[e]) \in Int
             /\ pass.result[e] # None => points'[e]["run_close"] # None
             /\ pass.result[e] = None => points'[e]["run_close"] = points[e]["run_close"]
             /\ points'[e]["forfeit_debit"] = points[e]["forfeit_debit"]
             /\ e \notin Sides => points'[e]["duel_result"] = points[e]["duel_result"]
             /\ Player(e) \notin stale /\ e \notin Outdated
                   => Total(Player(e)) + Worth(points'[e]) - Worth(points[e]) >= 0
  <2>1. CASE e \in Sides
    <3>1. DuelDelta(by[e], e) \in Int
      BY DEF DuelDelta, GamesAssumption
    <3>2. points'[e] = Post(Posted(e), "duel_result", DuelDelta(by[e], e), Seen(e))
      BY <1>2, <1>3, <2>1 DEF RowAfter
    <3> QED BY <1>2, <2>1, <3>1, <3>2, ClosedRow
  <2>2. CASE e \notin Sides
    <3>1. points'[e] = Posted(e)
      BY <1>2, <1>3, <2>2 DEF RowAfter
    <3> QED BY <1>2, <2>2, <3>1, ClosedRow
  <2> QED BY <2>1, <2>2
<1>7. \A e \in Runs \ scored : points'[e] = points[e] /\ entry'[e] = entry[e]
  BY <1>3, <1>4, <1>5 DEF RowAfter
<1>8. PointsOK'
  <2>1. \A e \in Runs : points'[e] \in Rows
    BY <1>6, <1>7 DEF IInv, Typed, PointsOK
  <2>2. points' = [e \in Runs |-> points'[e]]
    BY <1>3
  <2> QED BY <2>1, <2>2 DEF PointsOK
<1>9. /\ EntryOK'
      /\ \A e \in scored : /\ entry'[e].state = (IF pass.result[e] # None THEN "finished" ELSE "void")
                           /\ entry'[e].scored = TRUE
  <2>1. \A e \in Runs : entry[e] \in Entries
    BY DEF IInv, Typed, EntryOK
  <2>2. ASSUME NEW e \in scored
        PROVE  /\ entry'[e].state = (IF pass.result[e] # None THEN "finished" ELSE "void")
               /\ entry'[e].scored = TRUE /\ entry'[e] \in Entries
    <3> DEFINE state == IF pass.result[e] # None THEN "finished" ELSE "void"
    <3>1. state \in States
      BY DEF States, Settled
    <3>2. entry'[e] = [entry[e] EXCEPT !.state = state, !.scored = TRUE]
      BY <1>2, <1>4 DEF Finishes
    <3>3. entry[e] \in Entries
      BY <1>2, <2>1
    <3> HIDE DEF state
    <3>4. entry'[e].state = state /\ entry'[e].scored = TRUE /\ entry'[e] \in Entries
      BY <3>1, <3>2, <3>3
    <3> QED BY <3>4 DEF state
  <2>3. \A e \in Runs : entry'[e] \in Entries
    BY <1>7, <2>1, <2>2
  <2>4. entry' = [e \in Runs |-> entry'[e]]
    BY <1>4
  <2> QED BY <2>2, <2>3, <2>4 DEF EntryOK
<1>10. DuelsOK' /\ \A d \in duels' : d.state = "live" => d \in duels \ Ours
  <2>1. ASSUME NEW d \in Ours
        PROVE  /\ Outcome(d) \in [kind : {"first_run", "auto"}, a : Runs, b : Runs,
                                  state : {"live", "settled", "void"}]
               /\ Outcome(d).a = d.a /\ Outcome(d).b = d.b /\ Outcome(d).kind = d.kind
               /\ Outcome(d).state # "live"
    <3>1. d \in [kind : {"first_run", "auto"}, a : Runs, b : Runs,
                 state : {"live", "settled", "void"}]
      BY DEF Ours, IInv, Typed, DuelsOK
    <3> QED BY <3>1 DEF Outcome
  <2>2. \A d \in duels' : d \in duels \ Ours \/ \E o \in Ours : d = Outcome(o)
    BY <1>4
  <2>3. Ours \subseteq duels
    BY DEF Ours
  <2> QED BY <2>1, <2>2, <2>3 DEF IInv, Typed, DuelsOK
<1>11. StageOK' /\ RequestsOK'
  BY <1>1, <1>2, <1>4 DEF IInv, Typed, StageOK, RequestsOK
<1>12. RestartOK' /\ DrainOK' /\ BoundsOK'
  BY <1>1 DEF IInv, Typed, RestartOK, DrainOK, BoundsOK
<1>13. EnteredOK'
  BY <1>1, <1>7, <1>9 DEF IInv, EnteredOK
<1>14. ScoredOK'
  BY <1>4, <1>7, <1>9 DEF IInv, ScoredOK
<1>15. PassOK' /\ Remaining'
  BY <1>4, NoPassOK
<1>16. ResultsArePaid'
  <2>1. \A d \in duels' : d.state = "live" => Field(d.a) \notin closed'
    BY <1>4, <1>10 DEF Ours, IInv, ResultsArePaid
  <2>2. ASSUME NEW e \in scored
        PROVE  /\ entry'[e].state \in {"finished", "void"}
               /\ entry'[e].state = "finished" => points'[e]["run_close"] # None
               /\ e \notin overwritten' =>
                     /\ points'[e]["run_close"] # None => entry'[e].state = "finished"
                     /\ points'[e]["duel_result"] # None => entry'[e].state = "finished"
                     /\ points'[e]["forfeit_debit"] = None
    <3>1. /\ entry'[e].state \in {"finished", "void"}
          /\ entry'[e].state = "finished" => points'[e]["run_close"] # None
      BY <1>6, <1>9
    <3>2. ASSUME e \notin overwritten'
          PROVE  /\ points[e]["run_close"] = None /\ points[e]["duel_result"] = None
                 /\ points[e]["forfeit_debit"] = None
      BY <1>2, <1>4, <3>2 DEF IInv, ResultsArePaid, Settled
    <3>3. ASSUME e \notin overwritten', entry'[e].state # "finished"
          PROVE  points'[e]["run_close"] = None /\ points'[e]["duel_result"] = None
      <4>1. pass.result[e] = None /\ e \notin Sides
        BY <1>5, <1>9, <3>3 DEF Finishes
      <4> QED BY <1>6, <3>2, <3>3, <4>1
    <3>4. e \notin overwritten' => points'[e]["forfeit_debit"] = None
      BY <1>6, <3>2
    <3> QED BY <3>1, <3>3, <3>4
  <2>3. ASSUME NEW e \in Runs \ scored, Field(e) = f, e \notin overwritten
        PROVE  entry[e].state \in Settled \cup {"none"}
    BY <1>2, <2>3 DEF IInv, Remaining
  <2>4. ASSUME NEW e \in Runs
        PROVE  /\ entry'[e].state = "finished" => points'[e].run_close # None
               /\ entry'[e].state = "forfeit" => points'[e].forfeit_debit # None
               /\ entry'[e].state = "none" => points'[e] = Unposted
               /\ e \notin overwritten' =>
                     /\ points'[e].run_close # None => entry'[e].state = "finished"
                     /\ points'[e].duel_result # None => entry'[e].state = "finished"
                     /\ points'[e].finish_stipend # None => entry'[e].state \in {"finished", "void"}
                     /\ points'[e].forfeit_debit # None => entry'[e].state = "forfeit"
                     /\ Field(e) \in closed' => entry'[e].state \in Settled \cup {"none"}
    <3>1. CASE e \in scored
      BY <2>2, <3>1 DEF Settled
    <3>2. CASE e \notin scored
      BY <1>4, <1>7, <2>3, <3>2 DEF IInv, ResultsArePaid
    <3> QED BY <3>1, <3>2
  <2> QED BY <2>1, <2>4 DEF ResultsArePaid
<1>17. ClampHolds'
  <2> SUFFICES ASSUME NEW d \in Runs, Player(d) \notin stale' PROVE TotalIn(points', Player(d)) >= 0
    BY DEF ClampHolds, Total, TotalIn
  <2>1. points \in [Runs -> Rows] /\ points' \in [Runs -> Rows]
    BY <1>8 DEF IInv, Typed, PointsOK
  <2>2. Total(Player(d)) = TotalIn(points, Player(d)) /\ Player(d) \notin stale
        /\ Total(Player(d)) >= 0
    BY <1>4, TotalIsIn DEF IInv, ClampHolds
  <2>3. CASE \A e \in scored : Player(e) # Player(d)
    <3>1. \A e \in Runs : Player(e) = Player(d) => points[e] = points'[e]
      BY <1>7, <2>3
    <3> QED BY <2>2, <3>1, TotalSame
  <2>4. ASSUME NEW e \in scored, Player(e) = Player(d)
        PROVE  TotalIn(points', Player(d)) >= 0
    <3>1. \A x \in Runs \ {e} : Player(x) = Player(e) => points[x] = points'[x]
      BY <1>2, <1>7 DEF GamesAssumption
    <3>2. /\ TotalIn(points, Player(e)) \in Int
          /\ Worth(points[e]) \in Int /\ Worth(points'[e]) \in Int
          /\ TotalIn(points', Player(e))
                = TotalIn(points, Player(e)) + Worth(points'[e]) - Worth(points[e])
      BY <1>2, <2>1, <3>1, TotalChange
    <3>3. e \notin Outdated
      BY <1>4, <2>4
    <3> QED BY <1>6, <2>2, <2>4, <3>2, <3>3
  <2> QED BY <2>3, <2>4
<1> QED BY <1>8, <1>9, <1>10, <1>11, <1>12, <1>13, <1>14, <1>15, <1>16, <1>17 DEF IInv, Typed

-----------------------------------------------------------------------------
(* The invariant and what it says *)

LEMMA Starts ==
    ASSUME GamesAssumption, Init
    PROVE  IInv
<1>1. \A e \in Runs : points[e] = Unposted /\ entry[e].state = "none" /\ ~entry[e].scored
  BY DEF Init
<1>2. Unposted \in Rows /\ \A r \in Reasons : Unposted[r] = None
  BY DEF Unposted, Rows, Deltas
<1>3. StageOK /\ EntryOK /\ PointsOK /\ DuelsOK
  BY <1>2 DEF Init, StageOK, EntryOK, States, PointsOK, DuelsOK
<1>4. RequestsOK /\ RestartOK /\ DrainOK /\ BoundsOK /\ EnteredOK
  BY DEF Init, RequestsOK, RestartOK, NoRestart, DrainOK, Resting, BoundsOK, EnteredOK,
         GamesAssumption
<1>5. PassOK /\ Remaining
  <2>1. /\ pass = NoPass /\ pass.todo = {} /\ pass.at = None /\ DOMAIN pass.wrote = {}
        /\ pass.sum = None /\ pass.held = {} /\ pass.seen = None /\ DOMAIN pass = PassFields
    BY DEF Init, NoPass, PassFields
  <2>2. Pending = {}
    BY <2>1 DEF Pending
  <2> QED BY <2>1, <2>2 DEF PassOK, Remaining, Deltas
<1>6. ScoredOK
  BY <1>1 DEF ScoredOK
<1>7. ResultsArePaid
  BY <1>1, <1>2 DEF ResultsArePaid, Reasons, Init
<1>8. ClampHolds
  <2>1. Worth(Unposted) = 0
    <3>1. \A r \in Reasons : [q \in Reasons |-> Value(Unposted[q])][r] = 0
      BY <1>2 DEF Value
    <3> QED BY <3>1, ReasonsFinite, SumZero DEF Worth
  <2>2. ASSUME NEW p PROVE Total(p) >= 0
    <3> DEFINE S == {e \in Runs : Player(e) = p}
               w == [e \in Runs |-> Worth(points[e])]
    <3>1. IsFiniteSet(S) /\ \A e \in S : w[e] = 0
      BY <1>1, <2>1, FS_Subset DEF GamesAssumption
    <3> HIDE DEF S, w
    <3>2. SumFunctionOnSet(w, S) = 0
      BY <3>1, SumZero
    <3> QED BY <3>2 DEF Total, S, w, GamesAssumption
  <2> QED BY <2>2 DEF ClampHolds
<1> QED BY <1>3, <1>4, <1>5, <1>6, <1>7, <1>8 DEF IInv, Typed

LEMMA Step ==
    ASSUME GamesAssumption, IInv, [Next]_vars
    PROVE  IInv'
<1>1. ASSUME NEW f \in Fields, PassTime(f) \/ PairField(f) PROVE IInv'
  BY <1>1, PassTimeKeeps, PairKeeps
<1>2. ASSUME NEW e \in Runs,
             \/ \E what \in {"queue", "cancel", "trade"} : Ask(e, what)
             \/ Requests(e) \/ Bookkeeping(e)
      PROVE  IInv'
  BY <1>2, RequestKeeps, FillKeeps DEF Bookkeeping
<1>3. ASSUME NEW e \in Runs, Enter(e) \/ ReadRestart(e) \/ Mark(e) \/ Forfeiture(e) PROVE IInv'
  BY <1>3, EnterKeeps, RestartKeeps, MarkKeeps, CommitKeeps DEF Forfeiture
<1>4. CASE Draining \/ Defer
  BY <1>4, DrainKeeps
<1>5. CASE Scoring
  BY <1>5, ReadFieldKeeps, ReadRunKeeps, SumKeeps, ScoreKeeps, JudgeKeeps, CloseKeeps
     DEF Scoring
<1>6. CASE PassFails \/ Crash
  BY <1>6, AccidentKeeps
<1>7. CASE UNCHANGED vars
  <2>1. /\ UNCHANGED <<stage, closed, entry, points, duels, overwritten, stale>>
        /\ UNCHANGED <<order, request, fill, marked, restart, drain, moves, trouble, pass>>
    BY <1>7 DEF vars
  <2> QED BY <2>1, Quiet DEF IInv, Typed
<1> QED BY <1>1, <1>2, <1>3, <1>4, <1>5, <1>6, <1>7 DEF Next

LEMMA Invariant == Spec => []IInv
<1>1. Init => IInv
  BY Starts, GamesAssumption
<1>2. IInv /\ [Next]_vars => IInv'
  BY Step, GamesAssumption
<1> QED BY <1>1, <1>2, PTL DEF Spec

\* Every variable has its type: the pass holds only rows it has scored, a duel is between two runs of which the first is not a desk's, and the
\* sweep that fills an order knows which.
THEOREM TypeCorrect == Spec => []TypeOK
<1>1. IInv => TypeOK
  <2> SUFFICES ASSUME IInv PROVE TypeOK
    OBVIOUS
  <2>1. \A e \in Runs : /\ DOMAIN points[e] = Reasons
                        /\ \A r \in Reasons : points[e][r] = None \/ points[e][r] \in Int
    BY DEF IInv, Typed, PointsOK, Rows, Deltas
  <2>2. \A d \in duels : /\ {d.a, d.b} \subseteq Runs /\ d.a # d.b
                         /\ d.state \in {"live", "settled", "void"}
                         /\ Player(d.a) \notin Desks
                         /\ d.kind = (IF Player(d.b) \in Desks THEN "first_run" ELSE "auto")
    BY DEF IInv, Typed, DuelsOK
  <2>3. \A e \in Runs : restart[e].pc \in {"none", "read", "summed"} /\ restart[e].total \in Int
    BY DEF IInv, Typed, RestartOK
  <2>4. /\ DOMAIN pass.wrote \subseteq Runs /\ pass.todo \cap DOMAIN pass.wrote = {}
        /\ pass.held \subseteq DOMAIN pass.wrote
    BY DEF IInv, Typed, PassOK, Pending
  <2>5. /\ drain.todo \subseteq Runs /\ drain.pc \in {"idle", "next", "fill", "accepted", "refused"}
        /\ drain.pc \in {"fill", "accepted", "refused"} => drain.at \in Runs
    BY DEF IInv, Typed, DrainOK
  <2>6. StageOK /\ EntryOK /\ RequestsOK /\ BoundsOK
    BY DEF IInv, Typed
  <2> QED BY <2>1, <2>2, <2>3, <2>4, <2>5, <2>6 DEF TypeOK, StageOK, EntryOK, RequestsOK, BoundsOK
<1> QED BY <1>1, Invariant, PTL

\* A run that the table shows as finished or forfeited has its row in the career
\* ledger, and no row of the ledger is without its result, whatever requests,
\* marks, restarts, crashes and passes came between (run_scoring_pass,
\* commit_restart).
THEOREM ResultsPaid == Spec => []ResultsArePaid
<1>1. IInv => ResultsArePaid
  BY DEF IInv
<1> QED BY <1>1, Invariant, PTL

\* post_career_event's clamp: the points of a player never sum to less than zero,
\* but where a debit was computed on a total that had fallen before it committed.
THEOREM TotalsHold == Spec => []ClampHolds
<1>1. IInv => ClampHolds
  BY DEF IInv
<1> QED BY <1>1, Invariant, PTL

=============================================================================
