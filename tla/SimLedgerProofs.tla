--------------------------- MODULE SimLedgerProofs ---------------------------
(***************************************************************************)
(* Proofs about SimLedger, for any number of threads, any orders, prices   *)
(* and fees: the lots that the order rows explain are the shares of the    *)
(* holding row and the cash is explained to the dollar, until a commit     *)
(* writes over what another has committed (or files its row behind one),   *)
(* the oldest of the shares bought go first, and a stop or a target leaves *)
(* nothing of the position.                                                *)
(*                                                                         *)
(* Lots and totals are computed by recursion along the rows, so the first  *)
(* half is about that recursion: what one more row, and a close stamped    *)
(* after the last one, make of the lots, and which single shares a lot     *)
(* holds.                                                                  *)
(***************************************************************************)
EXTENDS SimLedger, FiniteSetTheorems, SequenceTheorems, WellFoundedInduction, TLAPS

(* The row of a trade, and what the reconstruction keeps of it.            *)
Rows == [id : Nat, side : {"buy", "sell"}, qty : Nat \ {0}, price : Nat,
         stop : Nat \cup {None}, target : Nat \cup {None}, verdict : Nat \cup {None},
         status : {"open", "won", "lost", "closed"}, closedAt : Nat, pnl : Int]
LotT == [open : Nat, realised : Int]

-----------------------------------------------------------------------------
(* Recursion along 1 .. n                                                  *)

\* Every set of numbers that holds 0 and with n also n + 1 is Nat.
LEMMA Numbers ==
    ASSUME NEW G, 0 \in G, \A n \in Nat : n \in G => n + 1 \in G
    PROVE  Nat \subseteq G
<1> SUFFICES ASSUME Nat \ G # {} PROVE FALSE
  OBVIOUS
<1>1. PICK n \in Nat \ G : \A y \in Nat \ G : <<y, n>> \notin OpToRel(<, Nat)
  BY NatLessThanWellFounded, WFMin
<1>2. n - 1 \in Nat \ G
  <2>1. n \in Nat /\ n # 0 /\ n \notin G
    BY <1>1
  <2> QED BY <2>1
<1>3. <<n - 1, n>> \notin OpToRel(<, Nat)
  BY <1>1, <1>2
<1>4. ~(n - 1 < n)
  BY <1>2, <1>3 DEF OpToRel
<1>5. n \in Nat
  BY <1>1
<1> QED BY <1>4, <1>5

\* The same, up to a number.
LEMMA UpTo ==
    ASSUME NEW n \in Nat, NEW G, 0 \in G,
           \A i \in 1 .. n : i - 1 \in G => i \in G
    PROVE  0 .. n \subseteq G
<1> DEFINE H == {i \in Nat : i <= n => i \in G}
<1>1. 0 \in H
  OBVIOUS
<1>2. ASSUME NEW i \in Nat, i \in H PROVE i + 1 \in H
  <2>1. SUFFICES ASSUME i + 1 <= n PROVE i + 1 \in G
    OBVIOUS
  <2>2. i + 1 \in 1 .. n /\ (i + 1) - 1 = i /\ i \in G
    BY <1>2, <2>1
  <2> QED BY <2>2
<1> HIDE DEF H
<1>3. Nat \subseteq H
  BY <1>1, <1>2, Numbers
<1> QED BY <1>3 DEF H

(* v, and then F[i] of the value before.                                   *)
StepsIn(F, n, V, v) == v \in V /\ F \in [1 .. n -> [V -> V]]

\* A value for 0 and a step from each value to the next define a function.
LEMMA Recursion ==
    ASSUME NEW n \in Nat, NEW V, NEW v, NEW F, StepsIn(F, n, V, v)
    PROVE  \E g \in [0 .. n -> V] : g[0] = v /\ \A i \in 1 .. n : g[i] = F[i][g[i - 1]]
<1> DEFINE Step(g, i) == IF i = 0 THEN v ELSE F[i][g[i - 1]]
           Goes(k) == \E g \in [0 .. k -> V] : \A i \in 0 .. k : g[i] = Step(g, i)
           G == {k \in 0 .. n : Goes(k)}
<1> USE DEF StepsIn
<1>1. 0 \in G
  <2> DEFINE g == [i \in 0 .. 0 |-> v]
  <2>1. g \in [0 .. 0 -> V] /\ \A i \in 0 .. 0 : g[i] = Step(g, i)
    OBVIOUS
  <2> HIDE DEF g
  <2> QED BY <2>1
<1>2. ASSUME NEW k \in 1 .. n, k - 1 \in G PROVE k \in G
  <2>1. PICK g \in [0 .. k - 1 -> V] : \A i \in 0 .. k - 1 : g[i] = Step(g, i)
    BY <1>2
  <2> DEFINE h == [i \in 0 .. k |-> Step(g, i)]
  <2>2. \A i \in 0 .. k - 1 : h[i] = g[i]
    BY <2>1
  <2>3. ASSUME NEW i \in 0 .. k PROVE h[i] = Step(h, i) /\ h[i] \in V
    <3>1. CASE i = 0
      BY <3>1
    <3>2. CASE i # 0
      <4>1. i \in 1 .. n /\ i - 1 \in 0 .. k - 1
        BY <3>2
      <4>2. g[i - 1] = h[i - 1] /\ g[i - 1] \in V
        BY <2>2, <4>1
      <4>3. F[i][g[i - 1]] \in V
        BY <4>1, <4>2
      <4>4. h[i] = F[i][g[i - 1]]
        BY <3>2
      <4> HIDE DEF h
      <4> QED BY <3>2, <4>2, <4>3, <4>4
    <3> QED BY <3>1, <3>2
  <2>4. h \in [0 .. k -> V]
    BY <2>3
  <2> HIDE DEF h
  <2> QED BY <2>3, <2>4
<1> HIDE DEF G
<1>3. 0 .. n \subseteq G
  BY <1>1, <1>2, UpTo
<1>4. PICK g \in [0 .. n -> V] : \A i \in 0 .. n : g[i] = Step(g, i)
  BY <1>3 DEF G
<1>5. g[0] = v /\ \A i \in 1 .. n : g[i] = F[i][g[i - 1]]
  BY <1>4
<1> QED BY <1>5

-----------------------------------------------------------------------------
(* Sums of the first numbers of a sequence                                 *)

\* A sum is the one before it and one number more.
LEMMA SumsAre ==
    ASSUME NEW n \in Nat, NEW f, DOMAIN f = 1 .. n, \A i \in 1 .. n : f[i] \in Int
    PROVE  /\ Sums(f) \in [0 .. n -> Int]
           /\ Sums(f)[0] = 0
           /\ \A i \in 1 .. n : Sums(f)[i] = Sums(f)[i - 1] + f[i]
<1> DEFINE F == [i \in 1 .. n |-> [w \in Int |-> w + f[i]]]
           Goes(g) == g = [i \in 0 .. n |-> IF i = 0 THEN 0 ELSE g[i - 1] + f[i]]
<1>1. StepsIn(F, n, Int, 0)
  BY DEF StepsIn
<1>2. PICK g \in [0 .. n -> Int] : g[0] = 0 /\ \A i \in 1 .. n : g[i] = F[i][g[i - 1]]
  <2> HIDE DEF F
  <2> QED BY <1>1, Recursion
<1>3. \A i \in 1 .. n : F[i][g[i - 1]] = g[i - 1] + f[i]
  OBVIOUS
<1>4. Goes(g)
  <2>1. g[0] = 0 /\ \A i \in 1 .. n : g[i] = g[i - 1] + f[i]
    BY <1>2, <1>3
  <2>2. \A i \in 0 .. n : g[i] = IF i = 0 THEN 0 ELSE g[i - 1] + f[i]
    BY <2>1
  <2> HIDE DEF F
  <2> QED BY <2>2
<1>5. Sums(f) = CHOOSE h : Goes(h)
  <2>1. {0} \cup DOMAIN f = 0 .. n
    OBVIOUS
  <2> QED BY <2>1 DEF Sums
<1>6. Goes(Sums(f))
  <2> HIDE DEF Goes
  <2> QED BY <1>4, <1>5
<1> DEFINE S == Sums(f)
           G == {i \in 0 .. n : S[i] \in Int}
<1>7. S[0] = 0 /\ \A i \in 1 .. n : S[i] = S[i - 1] + f[i]
  BY <1>6
<1> HIDE DEF S
<1>8. 0 \in G /\ \A i \in 1 .. n : i - 1 \in G => i \in G
  BY <1>7
<1> HIDE DEF G
<1>9. 0 .. n \subseteq G
  BY <1>8, UpTo
<1>10. S \in [0 .. n -> Int]
  BY <1>6, <1>9 DEF G, S
<1> QED BY <1>7, <1>10 DEF S

LEMMA TotalIs ==
    ASSUME NEW n \in Nat, NEW f, DOMAIN f = 1 .. n
    PROVE  Total(f) = Sums(f)[n]
<1>1. Len(f) = n
  OBVIOUS
<1> QED BY <1>1 DEF Total

\* Numbers that start alike have the same sums there.
LEMMA SumsAgree ==
    ASSUME NEW n \in Nat, NEW f, DOMAIN f = 1 .. n, \A i \in 1 .. n : f[i] \in Int,
           NEW k \in 0 .. n,
           NEW g, DOMAIN g = 1 .. k, \A i \in 1 .. k : g[i] = f[i]
    PROVE  \A i \in 0 .. k : Sums(g)[i] = Sums(f)[i]
<1> DEFINE G == {i \in 0 .. k : Sums(g)[i] = Sums(f)[i]}
<1>1. Sums(f)[0] = 0 /\ \A i \in 1 .. n : Sums(f)[i] = Sums(f)[i - 1] + f[i]
  BY SumsAre
<1>2. Sums(g)[0] = 0 /\ \A i \in 1 .. k : Sums(g)[i] = Sums(g)[i - 1] + g[i]
  <2>1. k \in Nat /\ \A i \in 1 .. k : g[i] \in Int
    OBVIOUS
  <2> QED BY <2>1, SumsAre
<1>3. 0 \in G /\ \A i \in 1 .. k : i - 1 \in G => i \in G
  BY <1>1, <1>2
<1> HIDE DEF G
<1>4. 0 .. k \subseteq G
  <2>1. k \in Nat
    OBVIOUS
  <2> QED BY <1>3, <2>1, UpTo
<1> QED BY <1>4 DEF G

LEMMA Distribute ==
    ASSUME NEW m \in Int, NEW a \in Int, NEW b \in Int
    PROVE  m * (a + b) = m * a + m * b
  OBVIOUS

(* g is f + m * h.                                                         *)
Combined(n, g, f, m, h) ==
    /\ n \in Nat /\ m \in Int
    /\ DOMAIN f = 1 .. n /\ \A i \in 1 .. n : f[i] \in Int
    /\ DOMAIN h = 1 .. n /\ \A i \in 1 .. n : h[i] \in Int
    /\ DOMAIN g = 1 .. n /\ \A i \in 1 .. n : g[i] = f[i] + m * h[i]

LEMMA SumsLinear ==
    ASSUME NEW n, NEW m, NEW f, NEW h, NEW g, Combined(n, g, f, m, h)
    PROVE  \A i \in 0 .. n : Sums(g)[i] = Sums(f)[i] + m * Sums(h)[i]
<1> USE DEF Combined
<1> DEFINE G == {i \in 0 .. n : Sums(g)[i] = Sums(f)[i] + m * Sums(h)[i]}
<1>1. /\ Sums(f) \in [0 .. n -> Int]
      /\ Sums(f)[0] = 0 /\ \A i \in 1 .. n : Sums(f)[i] = Sums(f)[i - 1] + f[i]
  BY SumsAre
<1>2. /\ Sums(h) \in [0 .. n -> Int]
      /\ Sums(h)[0] = 0 /\ \A i \in 1 .. n : Sums(h)[i] = Sums(h)[i - 1] + h[i]
  BY SumsAre
<1>3. \A i \in 1 .. n : m * h[i] \in Int
  OBVIOUS
<1>4. \A i \in 1 .. n : g[i] \in Int
  BY <1>3
<1>5. Sums(g)[0] = 0 /\ \A i \in 1 .. n : Sums(g)[i] = Sums(g)[i - 1] + g[i]
  BY <1>4, SumsAre
<1>6. 0 \in G
  <2>1. m * 0 = 0
    OBVIOUS
  <2>2. m * Sums(h)[0] = 0
    BY <1>2, <2>1
  <2> QED BY <1>1, <1>5, <2>2
<1>7. ASSUME NEW i \in 1 .. n, i - 1 \in G PROVE i \in G
  <2>1. Sums(g)[i] = (Sums(f)[i - 1] + m * Sums(h)[i - 1]) + (f[i] + m * h[i])
    BY <1>5, <1>7
  <2>2. m * (Sums(h)[i - 1] + h[i]) = m * Sums(h)[i - 1] + m * h[i]
    <3>1. Sums(h)[i - 1] \in Int /\ h[i] \in Int
      BY <1>2
    <3> QED BY <3>1, Distribute
  <2>3. Sums(f)[i] = Sums(f)[i - 1] + f[i] /\ Sums(h)[i] = Sums(h)[i - 1] + h[i]
    BY <1>1, <1>2
  <2>4. Sums(f)[i - 1] \in Int /\ m * Sums(h)[i - 1] \in Int /\ f[i] \in Int /\ m * h[i] \in Int
    <3>1. Sums(f)[i - 1] \in Int /\ Sums(h)[i - 1] \in Int
      BY <1>1, <1>2
    <3> QED BY <1>3, <3>1
  <2>5. Sums(g)[i] = Sums(f)[i] + m * Sums(h)[i]
    BY <2>1, <2>2, <2>3, <2>4
  <2> QED BY <2>5
<1> HIDE DEF G
<1>8. 0 .. n \subseteq G
  BY <1>6, <1>7, UpTo
<1> QED BY <1>8 DEF G

\* The sums of numbers that are not negative grow.
LEMMA SumsGrow ==
    ASSUME NEW n \in Nat, NEW f, DOMAIN f = 1 .. n, \A i \in 1 .. n : f[i] \in Nat
    PROVE  /\ \A i \in 0 .. n : Sums(f)[i] \in Nat /\ Sums(f)[i] <= Sums(f)[n]
           /\ \A i \in 1 .. n : f[i] <= Sums(f)[n]
<1>1. /\ Sums(f)[0] = 0 /\ \A i \in 1 .. n : Sums(f)[i] = Sums(f)[i - 1] + f[i]
  <2>1. \A i \in 1 .. n : f[i] \in Int
    OBVIOUS
  <2> QED BY <2>1, SumsAre
<1> DEFINE S == Sums(f)
           G == {i \in 0 .. n : S[i] \in Nat}
           H == {i \in 0 .. n : S[n - i] <= S[n]}
<1> HIDE DEF S
<1>2. 0 \in G /\ \A i \in 1 .. n : i - 1 \in G => i \in G
  BY <1>1 DEF S
<1>3. 0 .. n \subseteq G
  <2> HIDE DEF G
  <2> QED BY <1>2, UpTo
<1>4. \A i \in 0 .. n : S[i] \in Nat
  BY <1>3
<1>5. 0 \in H
  BY <1>4
<1>6. ASSUME NEW i \in 1 .. n, i - 1 \in H PROVE i \in H
  <2>1. S[(n - i) + 1] = S[n - i] + f[(n - i) + 1]
    <3>1. (n - i) + 1 \in 1 .. n /\ ((n - i) + 1) - 1 = n - i
      OBVIOUS
    <3> QED BY <1>1, <3>1 DEF S
  <2>2. n - (i - 1) = (n - i) + 1
    OBVIOUS
  <2>3. S[(n - i) + 1] <= S[n]
    BY <1>6, <2>2
  <2>4. S[n - i] \in Nat /\ f[(n - i) + 1] \in Nat /\ S[n] \in Nat
    BY <1>4
  <2> QED BY <2>1, <2>3, <2>4
<1>7. 0 .. n \subseteq H
  <2> HIDE DEF H
  <2> QED BY <1>5, <1>6, UpTo
<1>8. ASSUME NEW i \in 0 .. n PROVE S[i] <= S[n]
  <2>1. n - i \in H
    BY <1>7
  <2> QED BY <2>1
<1>9. \A i \in 1 .. n : f[i] <= S[n]
  <2> SUFFICES ASSUME NEW i \in 1 .. n PROVE f[i] <= S[n]
    OBVIOUS
  <2>1. S[i] = S[i - 1] + f[i]
    BY <1>1 DEF S
  <2>2. S[i] <= S[n] /\ S[i - 1] \in Nat /\ f[i] \in Nat /\ S[n] \in Nat /\ S[i] \in Nat
    BY <1>4, <1>8
  <2> QED BY <2>1, <2>2
<1> QED BY <1>4, <1>8, <1>9 DEF S

-----------------------------------------------------------------------------
(* The lots of rows                                                        *)

\* What a sell takes from the lots up to one: all it asks for, or all there is.
LEMMA TakenSums ==
    ASSUME NEW n \in Nat, NEW lots \in [1 .. n -> LotT], NEW q \in Nat,
           NEW t, t = [j \in 1 .. n |-> Taken(lots, j, q)]
    PROVE  /\ \A j \in 1 .. n : t[j] \in Nat /\ t[j] <= lots[j].open
           /\ \A k \in 0 .. n : Sums(t)[k] = LesserOf(q, Sums(OpenIn(lots))[k])
<1> DEFINE f == OpenIn(lots)
           S == Sums(f)
           T == Sums(t)
<1>1. DOMAIN f = 1 .. n /\ \A i \in 1 .. n : f[i] \in Nat /\ f[i] = lots[i].open
  BY DEF OpenIn, LotT
<1> HIDE DEF f
<1>2. \A i \in 0 .. n : S[i] \in Nat
  BY <1>1, SumsGrow
<1>3. S[0] = 0 /\ \A i \in 1 .. n : S[i] = S[i - 1] + f[i]
  <2>1. \A i \in 1 .. n : f[i] \in Int
    BY <1>1
  <2> QED BY <1>1, <2>1, SumsAre
<1>4. \A j \in 1 .. n : t[j] = LesserOf(f[j], IF q > S[j - 1] THEN q - S[j - 1] ELSE 0)
  BY <1>1 DEF Taken, f
<1> HIDE DEF S
<1>5. \A j \in 1 .. n : t[j] \in Nat /\ t[j] <= f[j]
  <2> SUFFICES ASSUME NEW j \in 1 .. n PROVE t[j] \in Nat /\ t[j] <= f[j]
    OBVIOUS
  <2>1. S[j - 1] \in Nat /\ f[j] \in Nat
    BY <1>1, <1>2
  <2> QED BY <1>4, <2>1 DEF LesserOf
<1>6. T[0] = 0 /\ \A i \in 1 .. n : T[i] = T[i - 1] + t[i]
  <2>1. DOMAIN t = 1 .. n /\ \A i \in 1 .. n : t[i] \in Int
    BY <1>5
  <2> QED BY <2>1, SumsAre
<1> HIDE DEF T
<1> DEFINE G == {k \in 0 .. n : T[k] = LesserOf(q, S[k])}
<1>7. 0 \in G
  BY <1>3, <1>6 DEF LesserOf
<1>8. ASSUME NEW i \in 1 .. n, i - 1 \in G PROVE i \in G
  <2>1. S[i - 1] \in Nat /\ f[i] \in Nat /\ S[i] = S[i - 1] + f[i] /\ T[i] = T[i - 1] + t[i]
    BY <1>1, <1>2, <1>3, <1>6
  <2>2. T[i - 1] = LesserOf(q, S[i - 1])
    BY <1>8
  <2>3. t[i] = LesserOf(f[i], IF q > S[i - 1] THEN q - S[i - 1] ELSE 0)
    BY <1>4
  <2>4. T[i] = LesserOf(q, S[i])
    BY <2>1, <2>2, <2>3 DEF LesserOf
  <2> QED BY <2>4
<1> HIDE DEF G
<1>9. 0 .. n \subseteq G
  BY <1>7, <1>8, UpTo
<1> QED BY <1>1, <1>5, <1>9 DEF G, S, T, f

(* The lots after row i, before the self-closes.                           *)
Moved(rows, lots, i) ==
    IF rows[i].side = "buy" THEN OpenLot(rows, lots, i) ELSE DrawSell(rows, lots, i)

\* A buy opens its lot, with the shares it was written with.
LEMMA BuyMoves ==
    ASSUME NEW n \in Nat, NEW rows \in [1 .. n -> Rows], NEW lots \in [1 .. n -> LotT],
           NEW i \in 1 .. n, rows[i].side = "buy"
    PROVE  /\ Moved(rows, lots, i) \in [1 .. n -> LotT]
           /\ \A j \in 1 .. n : /\ Moved(rows, lots, i)[j].realised = lots[j].realised
                                /\ Moved(rows, lots, i)[j].open =
                                       IF j = i THEN rows[i].qty ELSE lots[j].open
<1>1. Moved(rows, lots, i) = [lots EXCEPT ![i].open = rows[i].qty]
  BY DEF Moved, OpenLot
<1>2. rows[i].qty \in Nat
  BY DEF Rows
<1> QED BY <1>1, <1>2 DEF LotT

\* A sell takes from each lot no more than there is.
LEMMA SellMoves ==
    ASSUME NEW n \in Nat, NEW rows \in [1 .. n -> Rows], NEW lots \in [1 .. n -> LotT],
           NEW i \in 1 .. n, rows[i].side # "buy"
    PROVE  /\ Moved(rows, lots, i) \in [1 .. n -> LotT]
           /\ \A j \in 1 .. n :
                /\ Taken(lots, j, rows[i].qty) \in 0 .. lots[j].open
                /\ Moved(rows, lots, i)[j].open = lots[j].open - Taken(lots, j, rows[i].qty)
                /\ Moved(rows, lots, i)[j].realised = lots[j].realised
                       + (rows[i].price - rows[j].price) * Taken(lots, j, rows[i].qty)
<1> DEFINE q == rows[i].qty
           t == [j \in 1 .. n |-> Taken(lots, j, q)]
<1>1. q \in Nat /\ rows[i].price \in Int /\ \A j \in 1 .. n : rows[j].price \in Int
  BY DEF Rows
<1>2. \A j \in 1 .. n : t[j] \in Nat /\ t[j] <= lots[j].open
  <2> HIDE DEF q
  <2> QED BY <1>1, TakenSums
<1>3. Moved(rows, lots, i) =
          [j \in 1 .. n |-> [open     |-> lots[j].open - t[j],
                             realised |-> lots[j].realised + (rows[i].price - rows[j].price) * t[j]]]
  BY DEF Moved, DrawSell
<1>4. ASSUME NEW j \in 1 .. n
      PROVE  /\ lots[j].open - t[j] \in Nat
             /\ lots[j].realised + (rows[i].price - rows[j].price) * t[j] \in Int
  <2>1. lots[j].open \in Nat /\ lots[j].realised \in Int
    BY DEF LotT
  <2>2. (rows[i].price - rows[j].price) \in Int /\ t[j] \in Int
    BY <1>1, <1>2
  <2>3. (rows[i].price - rows[j].price) * t[j] \in Int
    <3> HIDE DEF t
    <3> QED BY <2>2
  <2> HIDE DEF t
  <2> QED BY <1>2, <2>1, <2>3
<1>5. Moved(rows, lots, i) \in [1 .. n -> LotT]
  <2> HIDE DEF t
  <2> QED BY <1>3, <1>4 DEF LotT
<1>6. \A j \in 1 .. n : t[j] = Taken(lots, j, q) /\ t[j] \in 0 .. lots[j].open
  BY <1>2 DEF LotT
<1> HIDE DEF t
<1> QED BY <1>3, <1>5, <1>6

\* What a row and the closes after it make of a lot.
LEMMA EventAt ==
    ASSUME NEW n \in Nat, NEW rows \in [1 .. n -> Rows], NEW lots \in [1 .. n -> LotT],
           NEW i \in 1 .. n
    PROVE  /\ Moved(rows, lots, i) \in [1 .. n -> LotT]
           /\ Event(rows, lots, i) \in [1 .. n -> LotT]
           /\ \A j \in 1 .. n :
                /\ rows[j].side = "buy" /\ rows[j].closedAt = i =>
                     /\ Event(rows, lots, i)[j].open = 0
                     /\ Event(rows, lots, i)[j].realised
                            = Moved(rows, lots, i)[j].realised + rows[j].pnl
                /\ ~(rows[j].side = "buy" /\ rows[j].closedAt = i) =>
                     Event(rows, lots, i)[j] = Moved(rows, lots, i)[j]
<1> DEFINE M == Moved(rows, lots, i)
<1>1. M \in [1 .. n -> LotT]
  BY BuyMoves, SellMoves
<1>2. Event(rows, lots, i) = SelfClose(rows, M, i)
  BY DEF Event, Moved
<1> HIDE DEF M
<1>3. SelfClose(rows, M, i) =
          [j \in 1 .. n |-> IF rows[j].side = "buy" /\ rows[j].closedAt = i
                            THEN [open |-> 0, realised |-> M[j].realised + rows[j].pnl]
                            ELSE M[j]]
  BY <1>1 DEF SelfClose
<1>4. ASSUME NEW j \in 1 .. n
      PROVE  [open |-> 0, realised |-> M[j].realised + rows[j].pnl] \in LotT /\ M[j] \in LotT
  BY <1>1 DEF LotT, Rows
<1>5. Event(rows, lots, i) \in [1 .. n -> LotT]
  BY <1>2, <1>3, <1>4
<1> QED BY <1>1, <1>2, <1>3, <1>5 DEF M

\* The lots go from row to row.
LEMMA LotsGo ==
    ASSUME NEW n \in Nat, NEW rows \in [1 .. n -> Rows]
    PROVE  /\ LotsAfter(rows) \in [0 .. n -> [1 .. n -> LotT]]
           /\ LotsAfter(rows)[0] = [j \in 1 .. n |-> [open |-> 0, realised |-> 0]]
           /\ \A i \in 1 .. n : LotsAfter(rows)[i] = Event(rows, LotsAfter(rows)[i - 1], i)
           /\ Lots(rows) = LotsAfter(rows)[n]
<1> DEFINE V == [1 .. n -> LotT]
           v == NoLots(rows)
           F == [i \in 1 .. n |-> [w \in V |-> Event(rows, w, i)]]
           Goes(g) == g = [i \in 0 .. n |-> IF i = 0 THEN v ELSE Event(rows, g[i - 1], i)]
<1>1. v = [j \in 1 .. n |-> [open |-> 0, realised |-> 0]] /\ v \in V
  BY DEF NoLots, LotT
<1>2. \A i \in 1 .. n : \A w \in V : Event(rows, w, i) \in V
  BY EventAt
<1>3. StepsIn(F, n, V, v)
  <2> HIDE DEF V, v
  <2> QED BY <1>1, <1>2 DEF StepsIn
<1>4. PICK g \in [0 .. n -> V] : g[0] = v /\ \A i \in 1 .. n : g[i] = F[i][g[i - 1]]
  <2> HIDE DEF F, V, v
  <2> QED BY <1>3, Recursion
<1>5. \A i \in 1 .. n : g[i] = Event(rows, g[i - 1], i)
  <2> SUFFICES ASSUME NEW i \in 1 .. n PROVE g[i] = Event(rows, g[i - 1], i)
    OBVIOUS
  <2> HIDE DEF V, v
  <2>1. i - 1 \in 0 .. n
    OBVIOUS
  <2>2. g[i - 1] \in V
    BY <2>1
  <2>3. F[i][g[i - 1]] = Event(rows, g[i - 1], i)
    BY <2>2
  <2> QED BY <1>4, <2>3
<1>6. Goes(g)
  <2> HIDE DEF F, V, v
  <2>1. \A i \in 0 .. n : g[i] = IF i = 0 THEN v ELSE Event(rows, g[i - 1], i)
    BY <1>4, <1>5
  <2> QED BY <2>1
<1>7. Len(rows) = n
  OBVIOUS
<1>8. LotsAfter(rows) = CHOOSE h : Goes(h)
  BY <1>7 DEF LotsAfter
<1> DEFINE A == LotsAfter(rows)
<1>9. Goes(A)
  <2> HIDE DEF Goes
  <2> QED BY <1>6, <1>8
<1> HIDE DEF A
<1>10. A[0] = v /\ \A i \in 1 .. n : A[i] = Event(rows, A[i - 1], i)
  <2> HIDE DEF v
  <2> QED BY <1>9
<1> DEFINE G == {i \in 0 .. n : A[i] \in V}
<1>11. 0 \in G /\ \A i \in 1 .. n : i - 1 \in G => i \in G
  <2> HIDE DEF V, v
  <2> QED BY <1>1, <1>2, <1>10
<1> HIDE DEF G
<1>12. 0 .. n \subseteq G
  BY <1>11, UpTo
<1>13. A \in [0 .. n -> V]
  <2> HIDE DEF V, v
  <2> QED BY <1>9, <1>12 DEF G
<1> QED BY <1>1, <1>7, <1>10, <1>13 DEF A, Lots

(* The rows of a book: a buy that closed itself did so after it was        *)
(* written.                                                                *)
Booked(rows, n) ==
    /\ n \in Nat
    /\ rows \in [1 .. n -> Rows]
    /\ \A j \in 1 .. n : /\ (rows[j].closedAt = 0) <=> (rows[j].status = "open")
                         /\ rows[j].closedAt # 0 => rows[j].closedAt \in j .. n

\* A lot is empty before its row, after its close, and when its row is a sell.
LEMMA EmptyLots ==
    ASSUME NEW n, NEW rows, Booked(rows, n)
    PROVE  \A i \in 0 .. n : \A j \in 1 .. n :
              /\ j > i => LotsAfter(rows)[i][j].open = 0 /\ LotsAfter(rows)[i][j].realised = 0
              /\ rows[j].side # "buy" => LotsAfter(rows)[i][j].open = 0
              /\ rows[j].closedAt \in 1 .. i /\ rows[j].side = "buy"
                     => LotsAfter(rows)[i][j].open = 0
<1> DEFINE A == LotsAfter(rows)
           Good(i, j) ==
              /\ j > i => A[i][j].open = 0 /\ A[i][j].realised = 0
              /\ rows[j].side # "buy" => A[i][j].open = 0
              /\ rows[j].closedAt \in 1 .. i /\ rows[j].side = "buy" => A[i][j].open = 0
           G == {i \in 0 .. n : \A j \in 1 .. n : Good(i, j)}
<1>1. n \in Nat /\ rows \in [1 .. n -> Rows]
  BY DEF Booked
<1>2. /\ A \in [0 .. n -> [1 .. n -> LotT]]
      /\ A[0] = [j \in 1 .. n |-> [open |-> 0, realised |-> 0]]
      /\ \A i \in 1 .. n : A[i] = Event(rows, A[i - 1], i)
  BY <1>1, LotsGo
<1> HIDE DEF A
<1>3. 0 \in G
  BY <1>1, <1>2
<1>4. ASSUME NEW i \in 1 .. n, i - 1 \in G PROVE i \in G
  <2> DEFINE L == A[i - 1]
             M == Moved(rows, L, i)
             E == Event(rows, L, i)
  <2>1. L \in [1 .. n -> LotT] /\ A[i] = E
    <3>1. i - 1 \in 0 .. n
      BY <1>1
    <3> QED BY <1>2, <3>1
  <2> SUFFICES ASSUME NEW j \in 1 .. n PROVE Good(i, j)
    BY <1>1
  <2>2. Good(i - 1, j)
    BY <1>4
  <2> HIDE DEF L
  <2>3. /\ M \in [1 .. n -> LotT] /\ E \in [1 .. n -> LotT]
        /\ rows[j].side = "buy" /\ rows[j].closedAt = i => E[j].open = 0
        /\ ~(rows[j].side = "buy" /\ rows[j].closedAt = i) => E[j] = M[j]
    BY <1>1, <2>1, EventAt
  <2>4. /\ L[j].open \in Nat /\ L[j].realised \in Int
        /\ M[j].open \in Nat
    BY <2>1, <2>3 DEF LotT
  <2>5. CASE rows[i].side = "buy"
    <3>1. /\ M[j].realised = L[j].realised
          /\ M[j].open = IF j = i THEN rows[i].qty ELSE L[j].open
      BY <1>1, <2>1, <2>5, BuyMoves
    <3>2. rows[j].closedAt # 0 => rows[j].closedAt >= j /\ rows[j].closedAt \in Nat
      BY DEF Booked
    <3> HIDE DEF E, M
    <3> QED BY <1>1, <2>1, <2>2, <2>3, <2>4, <2>5, <3>1, <3>2 DEF L
  <2>6. CASE rows[i].side # "buy"
    <3> DEFINE t == Taken(L, j, rows[i].qty)
    <3>1. /\ t \in 0 .. L[j].open
          /\ M[j].open = L[j].open - t
          /\ M[j].realised = L[j].realised + (rows[i].price - rows[j].price) * t
      BY <1>1, <2>1, <2>6, SellMoves
    <3> HIDE DEF E, M, t
    <3>2. L[j].open = 0 => M[j].open = 0 /\ M[j].realised = L[j].realised
      <4> SUFFICES ASSUME L[j].open = 0 PROVE M[j].open = 0 /\ M[j].realised = L[j].realised
        OBVIOUS
      <4>1. t = 0
        BY <3>1
      <4>2. (rows[i].price - rows[j].price) * 0 = 0
        BY <1>1 DEF Rows
      <4> QED BY <2>4, <3>1, <4>1, <4>2
    <3>3. rows[j].closedAt # 0 => rows[j].closedAt >= j /\ rows[j].closedAt \in Nat
      BY DEF Booked
    <3> QED BY <1>1, <2>1, <2>2, <2>3, <2>4, <2>6, <3>2, <3>3 DEF L
  <2> QED BY <2>5, <2>6
<1> HIDE DEF G
<1>5. 0 .. n \subseteq G
  BY <1>1, <1>3, <1>4, UpTo
<1> QED BY <1>5 DEF G, A

-----------------------------------------------------------------------------
(* Single shares                                                           *)

(* What is left of a lot: the youngest of its shares.                      *)
Block(j, a, b) == {<<j, k>> : k \in a .. b}

LEMMA BlockSize ==
    ASSUME NEW j, NEW a \in Int, NEW b \in Int
    PROVE  IsFiniteSet(Block(j, a, b)) /\ Cardinality(Block(j, a, b)) = Cardinality(a .. b)
<1> DEFINE f == [k \in a .. b |-> <<j, k>>]
<1>1. f \in [a .. b -> Block(j, a, b)]
  BY DEF Block
<1>2. \A x \in Block(j, a, b) : \E k \in a .. b : f[k] = x
  BY DEF Block
<1>3. \A k, l \in a .. b : f[k] = f[l] => k = l
  OBVIOUS
<1> HIDE DEF f
<1>4. f \in Bijection(a .. b, Block(j, a, b))
  BY <1>1, <1>2, <1>3 DEF Bijection, Injection, Surjection, IsInjective
<1>5. ExistsBijection(a .. b, Block(j, a, b))
  BY <1>4 DEF ExistsBijection
<1>6. IsFiniteSet(a .. b)
  BY FS_Interval
<1> QED BY <1>5, <1>6, FS_Bijection

(* shares are what lots leave of the shares that n rows bought.            *)
Aligned(shares, n, rows, lots) ==
    /\ n \in Nat /\ rows \in [1 .. n -> Rows] /\ lots \in [1 .. n -> LotT]
    /\ shares \subseteq (1 .. n) \X Int
    /\ \A j \in 1 .. n : \A k \in Int :
          <<j, k>> \in shares <=> k \in rows[j].qty - lots[j].open + 1 .. rows[j].qty

(* The shares of the first m lots.                                         *)
UpToLot(shares, m) == {s \in shares : s[1] <= m}

LEMMA UpToLotSize ==
    ASSUME NEW shares, NEW n, NEW rows, NEW lots, Aligned(shares, n, rows, lots)
    PROVE  \A m \in 0 .. n : /\ IsFiniteSet(UpToLot(shares, m))
                             /\ Cardinality(UpToLot(shares, m)) = Sums(OpenIn(lots))[m]
<1> DEFINE S == Sums(OpenIn(lots))
           G == {m \in 0 .. n : /\ IsFiniteSet(UpToLot(shares, m))
                                /\ Cardinality(UpToLot(shares, m)) = S[m]}
<1>1. /\ n \in Nat /\ shares \subseteq (1 .. n) \X Int
      /\ \A j \in 1 .. n : lots[j].open \in Nat /\ rows[j].qty \in Nat
      /\ DOMAIN OpenIn(lots) = 1 .. n /\ \A i \in 1 .. n : OpenIn(lots)[i] = lots[i].open
  BY DEF Aligned, OpenIn, LotT, Rows
<1>2. S[0] = 0 /\ (\A i \in 1 .. n : S[i] = S[i - 1] + lots[i].open)
  <2>1. \A i \in 1 .. n : OpenIn(lots)[i] \in Int
    BY <1>1
  <2>2. PICK f : f = OpenIn(lots)
    OBVIOUS
  <2>3. Sums(f)[0] = 0 /\ \A i \in 1 .. n : Sums(f)[i] = Sums(f)[i - 1] + f[i]
    BY <1>1, <2>1, <2>2, SumsAre
  <2> QED BY <1>1, <2>2, <2>3
<1> HIDE DEF S
<1>3. 0 \in G
  <2>1. UpToLot(shares, 0) = {}
    BY <1>1 DEF UpToLot
  <2>2. IsFiniteSet(UpToLot(shares, 0)) /\ Cardinality(UpToLot(shares, 0)) = S[0]
    BY <1>2, <2>1, FS_EmptySet
  <2> QED BY <1>1, <2>2
<1>4. ASSUME NEW m \in 1 .. n, m - 1 \in G PROVE m \in G
  <2> DEFINE a == rows[m].qty - lots[m].open + 1
             B == Block(m, a, rows[m].qty)
             U == UpToLot(shares, m - 1)
  <2>1. rows[m].qty \in Int /\ lots[m].open \in Nat /\ a \in Int /\ m \in Int
    BY <1>1
  <2>2. IsFiniteSet(B) /\ Cardinality(B) = lots[m].open
    <3>1. a > rows[m].qty => lots[m].open = 0
      BY <2>1
    <3>2. rows[m].qty - a + 1 = lots[m].open
      BY <2>1
    <3> HIDE DEF a
    <3>3. Cardinality(a .. rows[m].qty) = IF a > rows[m].qty THEN 0 ELSE rows[m].qty - a + 1
      BY <2>1, FS_Interval
    <3>4. Cardinality(a .. rows[m].qty) = lots[m].open
      BY <3>1, <3>2, <3>3
    <3> QED BY <2>1, <3>4, BlockSize
  <2>3. UpToLot(shares, m) = U \cup B
    <3>1. ASSUME NEW s \in UpToLot(shares, m) PROVE s \in U \cup B
      <4>1. s \in shares /\ s[1] <= m /\ s = <<s[1], s[2]>> /\ s[1] \in 1 .. n /\ s[2] \in Int
        BY <1>1 DEF UpToLot
      <4>2. CASE s[1] = m
        BY <4>1, <4>2 DEF Aligned, Block
      <4>3. CASE s[1] # m
        BY <2>1, <4>1, <4>3 DEF UpToLot
      <4> QED BY <4>2, <4>3
    <3>2. ASSUME NEW s \in U PROVE s \in UpToLot(shares, m)
      <4>1. s \in shares /\ s[1] <= m - 1 /\ s[1] \in 1 .. n
        BY <1>1 DEF UpToLot
      <4> QED BY <2>1, <4>1 DEF UpToLot
    <3>3. ASSUME NEW s \in B PROVE s \in UpToLot(shares, m)
      <4>1. PICK k \in a .. rows[m].qty : s = <<m, k>>
        BY DEF Block
      <4>2. k \in Int /\ <<m, k>> \in shares
        BY <2>1, <4>1 DEF Aligned
      <4> QED BY <2>1, <4>1, <4>2 DEF UpToLot
    <3> QED BY <3>1, <3>2, <3>3
  <2>4. U \cap B = {}
    <3>1. ASSUME NEW s \in U, s \in B PROVE FALSE
      <4>1. s[1] = m /\ s[1] <= m - 1
        BY <3>1 DEF UpToLot, Block
      <4> QED BY <2>1, <4>1
    <3> QED BY <3>1
  <2>5. IsFiniteSet(U) /\ Cardinality(U) = S[m - 1]
    BY <1>4
  <2> HIDE DEF U, B
  <2>6. IsFiniteSet(U \cup B) /\ Cardinality(U \cup B) = Cardinality(U) + Cardinality(B) - 0
    BY <2>2, <2>4, <2>5, FS_Union, FS_EmptySet
  <2>7. Cardinality(U) \in Nat /\ Cardinality(B) \in Nat
    BY <2>2, <2>5, FS_CardinalityType
  <2>8. m \in 0 .. n /\ S[m] = S[m - 1] + lots[m].open
    BY <1>1, <1>2
  <2>9. Cardinality(U \cup B) = S[m]
    BY <2>2, <2>5, <2>6, <2>7, <2>8
  <2> QED BY <2>3, <2>6, <2>8, <2>9
<1> HIDE DEF G
<1>5. 0 .. n \subseteq G
  BY <1>1, <1>3, <1>4, UpTo
<1> QED BY <1>5 DEF G, S

\* How many shares are older than one.
LEMMA OlderCount ==
    ASSUME NEW shares, NEW n, NEW rows, NEW lots, Aligned(shares, n, rows, lots),
           NEW j \in 1 .. n, NEW k \in Int, <<j, k>> \in shares
    PROVE  Cardinality({t \in shares : Older(t, <<j, k>>)}) =
               Sums(OpenIn(lots))[j - 1] + (k - (rows[j].qty - lots[j].open + 1))
<1> DEFINE a == rows[j].qty - lots[j].open + 1
           B == Block(j, a, k - 1)
           U == UpToLot(shares, j - 1)
           T == {t \in shares : Older(t, <<j, k>>)}
<1>1. /\ n \in Nat /\ shares \subseteq (1 .. n) \X Int /\ j \in Int
      /\ lots[j].open \in Nat /\ rows[j].qty \in Nat /\ a \in Int /\ k - 1 \in Int
      /\ k \in a .. rows[j].qty
  <2>1. /\ n \in Nat /\ shares \subseteq (1 .. n) \X Int
        /\ rows[j] \in Rows /\ lots[j] \in LotT /\ k \in a .. rows[j].qty
    BY DEF Aligned
  <2>2. lots[j].open \in Nat
    BY <2>1 DEF LotT
  <2>3. rows[j].qty \in Nat
    BY <2>1 DEF Rows
  <2>4. j \in Int
    BY <2>1
  <2>5. a \in Int /\ k - 1 \in Int
    BY <2>2, <2>3
  <2> QED BY <2>1, <2>2, <2>3, <2>4, <2>5
<1>2. IsFiniteSet(B) /\ Cardinality(B) = k - a
  <2>1. Cardinality(a .. k - 1) = k - a
    BY <1>1, FS_Interval
  <2> HIDE DEF a
  <2> QED BY <1>1, <2>1, BlockSize
<1>3. T = U \cup B
  <2>1. ASSUME NEW t \in T PROVE t \in U \cup B
    <3>1. t \in shares /\ t = <<t[1], t[2]>> /\ t[1] \in 1 .. n /\ t[2] \in Int
          /\ (t[1] < j \/ (t[1] = j /\ t[2] < k))
      BY <1>1 DEF Older
    <3>2. CASE t[1] < j
      BY <1>1, <3>1, <3>2 DEF UpToLot
    <3>3. CASE t[1] = j /\ t[2] < k
      <4>1. t[2] \in a .. rows[j].qty
        BY <3>1, <3>3 DEF Aligned
      <4>2. t[2] \in a .. k - 1
        BY <1>1, <3>1, <3>3, <4>1
      <4> QED BY <3>1, <3>3, <4>2 DEF Block
    <3> QED BY <3>1, <3>2, <3>3
  <2>2. ASSUME NEW t \in U PROVE t \in T
    <3>1. t \in shares /\ t[1] <= j - 1 /\ t[1] \in 1 .. n
      BY <1>1 DEF UpToLot
    <3> QED BY <1>1, <3>1 DEF Older
  <2>3. ASSUME NEW t \in B PROVE t \in T
    <3>1. PICK x \in a .. k - 1 : t = <<j, x>>
      BY DEF Block
    <3>2. x \in Int /\ x \in a .. rows[j].qty /\ x < k
      BY <1>1, <3>1
    <3>3. <<j, x>> \in shares
      BY <3>2 DEF Aligned
    <3> QED BY <3>1, <3>2, <3>3 DEF Older
  <2> QED BY <2>1, <2>2, <2>3
<1>4. U \cap B = {}
  <2>1. ASSUME NEW s \in U, s \in B PROVE FALSE
    <3>1. s[1] = j /\ s[1] <= j - 1
      BY <2>1 DEF UpToLot, Block
    <3> QED BY <1>1, <3>1
  <2> QED BY <2>1
<1>5. IsFiniteSet(U) /\ Cardinality(U) = Sums(OpenIn(lots))[j - 1]
  <2>1. j - 1 \in 0 .. n
    BY <1>1
  <2> QED BY <2>1, UpToLotSize
<1> HIDE DEF U, B
<1>6. Cardinality(U \cup B) = Cardinality(U) + Cardinality(B) - 0
  BY <1>2, <1>4, <1>5, FS_Union, FS_EmptySet
<1>7. Cardinality(U) \in Nat /\ Cardinality(B) \in Nat
  BY <1>2, <1>5, FS_CardinalityType
<1>8. Cardinality(U \cup B) = Sums(OpenIn(lots))[j - 1] + (k - a)
  <2> HIDE DEF a
  <2> QED BY <1>2, <1>5, <1>6, <1>7
<1> QED BY <1>3, <1>8

(* What a row and the closes after it leave of the shares.                 *)
SharesMoved(rows, shares, i) ==
    IF rows[i].side = "buy" THEN shares \cup ({i} \X (1 .. rows[i].qty))
                            ELSE OldestGone(shares, rows[i].qty)

SharesEvent(rows, shares, i) == {s \in SharesMoved(rows, shares, i) : rows[s[1]].closedAt # i}

\* The shares go from row to row.
LEMMA SharesGo ==
    ASSUME NEW n \in Nat, NEW rows \in [1 .. n -> Rows]
    PROVE  /\ SharesAfter(rows)[0] = {}
           /\ \A i \in 1 .. n :
                 SharesAfter(rows)[i] = SharesEvent(rows, SharesAfter(rows)[i - 1], i)
<1> DEFINE V == SUBSET ((1 .. n) \X Int)
           F == [i \in 1 .. n |-> [w \in V |-> SharesEvent(rows, w, i)]]
           Goes(g) == g = [i \in 0 .. n |-> IF i = 0 THEN {} ELSE SharesEvent(rows, g[i - 1], i)]
<1>1. ASSUME NEW i \in 1 .. n, NEW w \in V PROVE SharesEvent(rows, w, i) \in V
  <2>1. {i} \X (1 .. rows[i].qty) \subseteq (1 .. n) \X Int
    OBVIOUS
  <2>2. OldestGone(w, rows[i].qty) \subseteq w
    BY DEF OldestGone
  <2>3. SharesMoved(rows, w, i) \subseteq (1 .. n) \X Int
    BY <2>1, <2>2 DEF SharesMoved
  <2> QED BY <2>3 DEF SharesEvent
<1>2. StepsIn(F, n, V, {})
  <2>1. {} \in V
    OBVIOUS
  <2> HIDE DEF V
  <2> QED BY <1>1, <2>1 DEF StepsIn
<1>3. PICK g \in [0 .. n -> V] : g[0] = {} /\ \A i \in 1 .. n : g[i] = F[i][g[i - 1]]
  <2> HIDE DEF F, V
  <2> QED BY <1>2, Recursion
<1>4. \A i \in 1 .. n : g[i] = SharesEvent(rows, g[i - 1], i)
  <2> SUFFICES ASSUME NEW i \in 1 .. n PROVE g[i] = SharesEvent(rows, g[i - 1], i)
    OBVIOUS
  <2> HIDE DEF V
  <2>1. i - 1 \in 0 .. n
    OBVIOUS
  <2>2. g[i - 1] \in V
    BY <2>1
  <2>3. F[i][g[i - 1]] = SharesEvent(rows, g[i - 1], i)
    BY <2>2
  <2> QED BY <1>3, <2>3
<1>5. Goes(g)
  <2> HIDE DEF F, V
  <2>1. \A i \in 0 .. n : g[i] = IF i = 0 THEN {} ELSE SharesEvent(rows, g[i - 1], i)
    BY <1>3, <1>4
  <2> QED BY <2>1
<1>6. Len(rows) = n
  OBVIOUS
<1>7. SharesAfter(rows) = CHOOSE h : Goes(h)
  BY <1>6 DEF SharesAfter, SharesEvent, SharesMoved
<1> DEFINE A == SharesAfter(rows)
<1>8. Goes(A)
  <2> HIDE DEF Goes
  <2> QED BY <1>5, <1>7
<1> HIDE DEF A
<1>9. A[0] = {} /\ \A i \in 1 .. n : A[i] = SharesEvent(rows, A[i - 1], i)
  <2>1. \A i \in 0 .. n : A[i] = IF i = 0 THEN {} ELSE SharesEvent(rows, A[i - 1], i)
    BY <1>8, Zenon
  <2>2. 0 \in 0 .. n /\ \A i \in 1 .. n : i \in 0 .. n /\ i # 0
    OBVIOUS
  <2> QED BY <2>1, <2>2, Zenon
<1> QED BY <1>9 DEF A

LEMMA BuyShares ==
    ASSUME NEW shares, NEW n, NEW rows, NEW lots, Aligned(shares, n, rows, lots),
           NEW i \in 1 .. n, rows[i].side = "buy", lots[i].open = 0
    PROVE  Aligned(SharesMoved(rows, shares, i), n, rows, Moved(rows, lots, i))
<1> DEFINE N == SharesMoved(rows, shares, i)
           M == Moved(rows, lots, i)
<1>1. /\ n \in Nat /\ rows \in [1 .. n -> Rows] /\ lots \in [1 .. n -> LotT]
      /\ shares \subseteq (1 .. n) \X Int
  BY DEF Aligned
<1>2. /\ M \in [1 .. n -> LotT]
      /\ \A j \in 1 .. n : M[j].open = IF j = i THEN rows[i].qty ELSE lots[j].open
  BY <1>1, BuyMoves
<1> HIDE DEF M
<1>3. N = shares \cup ({i} \X (1 .. rows[i].qty))
  BY DEF SharesMoved
<1> HIDE DEF N
<1>4. N \subseteq (1 .. n) \X Int
  BY <1>1, <1>3
<1>5. ASSUME NEW j \in 1 .. n, NEW k \in Int
      PROVE  <<j, k>> \in N <=> k \in rows[j].qty - M[j].open + 1 .. rows[j].qty
  <2>1. <<j, k>> \in shares <=> k \in rows[j].qty - lots[j].open + 1 .. rows[j].qty
    BY DEF Aligned
  <2>2. <<j, k>> \in N <=> <<j, k>> \in shares \/ (j = i /\ k \in 1 .. rows[i].qty)
    BY <1>3
  <2>3. rows[j].qty \in Nat /\ rows[i].qty \in Nat
    BY <1>1 DEF Rows
  <2>4. CASE j = i
    BY <1>2, <2>1, <2>2, <2>3, <2>4
  <2>5. CASE j # i
    BY <1>2, <2>1, <2>2, <2>5
  <2> QED BY <2>4, <2>5
<1> QED BY <1>1, <1>2, <1>4, <1>5 DEF Aligned, N, M

\* Of a lot with s shares before it, a sell of q leaves the youngest.
LEMMA YoungestStay ==
    ASSUME NEW qty \in Nat, NEW open \in Nat, NEW s \in Nat, NEW q \in Nat, NEW left,
           left = open - LesserOf(open, IF q > s THEN q - s ELSE 0),
           NEW k \in qty - open + 1 .. qty
    PROVE  s + (k - (qty - open + 1)) >= q <=> k \in qty - left + 1 .. qty
<1>1. CASE q <= s
  BY <1>1 DEF LesserOf
<1>2. CASE q > s /\ open <= q - s
  BY <1>2 DEF LesserOf
<1>3. CASE q > s /\ open > q - s
  BY <1>3 DEF LesserOf
<1> QED BY <1>1, <1>2, <1>3

LEMMA SellShares ==
    ASSUME NEW shares, NEW n, NEW rows, NEW lots, Aligned(shares, n, rows, lots),
           NEW i \in 1 .. n, rows[i].side # "buy"
    PROVE  Aligned(SharesMoved(rows, shares, i), n, rows, Moved(rows, lots, i))
<1> DEFINE N == SharesMoved(rows, shares, i)
           M == Moved(rows, lots, i)
           q == rows[i].qty
           S == Sums(OpenIn(lots))
<1>1. /\ n \in Nat /\ rows \in [1 .. n -> Rows] /\ lots \in [1 .. n -> LotT]
      /\ shares \subseteq (1 .. n) \X Int /\ q \in Nat
  BY DEF Aligned, Rows
<1>2. /\ M \in [1 .. n -> LotT]
      /\ \A j \in 1 .. n : M[j].open = lots[j].open - Taken(lots, j, q)
  BY <1>1, SellMoves
<1> HIDE DEF M
<1>3. N = {s \in shares : Cardinality({t \in shares : Older(t, s)}) >= q}
  BY DEF SharesMoved, OldestGone
<1> HIDE DEF N, q
<1>4. \A j \in 1 .. n : Taken(lots, j, q) = LesserOf(lots[j].open, IF q > S[j - 1] THEN q - S[j - 1] ELSE 0)
  BY DEF Taken
<1>5. ASSUME NEW j \in 1 .. n PROVE S[j - 1] \in Nat
  <2>1. DOMAIN OpenIn(lots) = 1 .. n /\ \A x \in 1 .. n : OpenIn(lots)[x] \in Nat
    BY <1>1 DEF OpenIn, LotT
  <2>2. PICK f : f = OpenIn(lots)
    OBVIOUS
  <2>3. \A x \in 0 .. n : Sums(f)[x] \in Nat
    BY <1>1, <2>1, <2>2, SumsGrow
  <2>4. j - 1 \in 0 .. n
    BY <1>1
  <2> QED BY <2>2, <2>3, <2>4
<1> HIDE DEF S
<1>6. ASSUME NEW j \in 1 .. n, NEW k \in Int
      PROVE  <<j, k>> \in N <=> k \in rows[j].qty - M[j].open + 1 .. rows[j].qty
  <2>1. <<j, k>> \in shares <=> k \in rows[j].qty - lots[j].open + 1 .. rows[j].qty
    BY DEF Aligned
  <2>2. rows[j].qty \in Nat /\ lots[j].open \in Nat /\ S[j - 1] \in Nat
    BY <1>1, <1>5 DEF Rows, LotT
  <2>3. M[j].open = lots[j].open - LesserOf(lots[j].open, IF q > S[j - 1] THEN q - S[j - 1] ELSE 0)
    BY <1>2, <1>4
  <2>4. CASE <<j, k>> \in shares
    <3>1. Cardinality({t \in shares : Older(t, <<j, k>>)}) =
              S[j - 1] + (k - (rows[j].qty - lots[j].open + 1))
      BY <2>4, OlderCount DEF S
    <3>2. <<j, k>> \in N <=> S[j - 1] + (k - (rows[j].qty - lots[j].open + 1)) >= q
      BY <1>3, <2>4, <3>1
    <3>3. k \in rows[j].qty - lots[j].open + 1 .. rows[j].qty
      BY <2>1, <2>4
    <3>4. S[j - 1] + (k - (rows[j].qty - lots[j].open + 1)) >= q
             <=> k \in rows[j].qty - M[j].open + 1 .. rows[j].qty
      <4>1. PICK open, qty, s, left : /\ open = lots[j].open /\ qty = rows[j].qty
                                      /\ s = S[j - 1] /\ left = M[j].open
        OBVIOUS
      <4>2. /\ qty \in Nat /\ open \in Nat /\ s \in Nat /\ k \in qty - open + 1 .. qty
            /\ left = open - LesserOf(open, IF q > s THEN q - s ELSE 0)
        BY <2>2, <2>3, <3>3, <4>1
      <4>3. s + (k - (qty - open + 1)) >= q <=> k \in qty - left + 1 .. qty
        BY <1>1, <4>2, YoungestStay
      <4> QED BY <4>1, <4>3
    <3> QED BY <3>2, <3>4
  <2>5. CASE <<j, k>> \notin shares
    <3>1. <<j, k>> \notin N
      BY <1>3, <2>5
    <3> QED BY <1>1, <2>1, <2>2, <2>3, <2>5, <3>1 DEF LesserOf
  <2> QED BY <2>4, <2>5
<1>7. N \subseteq (1 .. n) \X Int
  BY <1>1, <1>3
<1> QED BY <1>1, <1>2, <1>6, <1>7 DEF Aligned, N, M

LEMMA SharesAligned ==
    ASSUME NEW n, NEW rows, Booked(rows, n)
    PROVE  Aligned(SharesAfter(rows)[n], n, rows, Lots(rows))
<1> DEFINE A == LotsAfter(rows)
           H == SharesAfter(rows)
           G == {i \in 0 .. n : Aligned(H[i], n, rows, A[i])}
<1>1. n \in Nat /\ rows \in [1 .. n -> Rows]
  BY DEF Booked
<1>2. /\ A \in [0 .. n -> [1 .. n -> LotT]]
      /\ A[0] = [j \in 1 .. n |-> [open |-> 0, realised |-> 0]]
      /\ \A i \in 1 .. n : A[i] = Event(rows, A[i - 1], i)
      /\ Lots(rows) = A[n]
  BY <1>1, LotsGo
<1>3. H[0] = {} /\ \A i \in 1 .. n : H[i] = SharesEvent(rows, H[i - 1], i)
  BY <1>1, SharesGo
<1>4. \A i \in 0 .. n : \A j \in 1 .. n : /\ j > i => A[i][j].open = 0
                                          /\ rows[j].side # "buy" => A[i][j].open = 0
  BY EmptyLots
<1> HIDE DEF A, H
<1>5. Aligned(H[0], n, rows, A[0])
  <2>1. A[0] \in [1 .. n -> LotT] /\ \A j \in 1 .. n : A[0][j].open = 0 /\ rows[j].qty \in Nat
    BY <1>1, <1>2 DEF LotT, Rows
  <2>2. \A j \in 1 .. n : \A k \in Int : k \notin rows[j].qty - A[0][j].open + 1 .. rows[j].qty
    BY <2>1
  <2> QED BY <1>1, <1>3, <2>1, <2>2 DEF Aligned
<1>6. ASSUME NEW i \in 1 .. n, Aligned(H[i - 1], n, rows, A[i - 1])
      PROVE  Aligned(H[i], n, rows, A[i])
  <2> DEFINE L == A[i - 1]
             M == Moved(rows, L, i)
             E == A[i]
             N == SharesMoved(rows, H[i - 1], i)
  <2>1. L \in [1 .. n -> LotT] /\ E = Event(rows, L, i) /\ L[i].open = 0
    <3>1. i - 1 \in 0 .. n /\ i > i - 1
      BY <1>1
    <3> QED BY <1>2, <1>4, <3>1
  <2>2. Aligned(N, n, rows, M)
    <3>1. CASE rows[i].side = "buy"
      BY <1>6, <2>1, <3>1, BuyShares
    <3>2. CASE rows[i].side # "buy"
      BY <1>6, <3>2, SellShares
    <3> QED BY <3>1, <3>2
  <2>3. H[i] = {s \in N : rows[s[1]].closedAt # i}
    BY <1>3 DEF SharesEvent
  <2> HIDE DEF L, N
  <2>4. /\ E \in [1 .. n -> LotT]
        /\ \A j \in 1 .. n :
             /\ rows[j].side = "buy" /\ rows[j].closedAt = i => E[j].open = 0
             /\ ~(rows[j].side = "buy" /\ rows[j].closedAt = i) => E[j] = M[j]
    <3>1. E = Event(rows, L, i)
      BY <2>1
    <3> HIDE DEF E, M
    <3> QED BY <1>1, <2>1, <3>1, EventAt DEF M
  <2>5. \A j \in 1 .. n : rows[j].side # "buy" => E[j].open = 0
    <3>1. i \in 0 .. n
      BY <1>1
    <3> QED BY <1>4, <3>1
  <2> HIDE DEF M, E
  <2>6. N \subseteq (1 .. n) \X Int
    BY <2>2 DEF Aligned
  <2>7. ASSUME NEW j \in 1 .. n, NEW k \in Int
        PROVE  <<j, k>> \in H[i] <=> k \in rows[j].qty - E[j].open + 1 .. rows[j].qty
    <3>1. <<j, k>> \in N <=> k \in rows[j].qty - M[j].open + 1 .. rows[j].qty
      BY <2>2 DEF Aligned
    <3>2. <<j, k>> \in H[i] <=> <<j, k>> \in N /\ rows[j].closedAt # i
      BY <2>3
    <3>3. rows[j].qty \in Nat
      BY <1>1 DEF Rows
    <3>4. CASE rows[j].closedAt = i
      <4>1. E[j].open = 0
        BY <2>4, <2>5, <3>4
      <4> QED BY <3>2, <3>3, <3>4, <4>1
    <3>5. CASE rows[j].closedAt # i
      BY <2>4, <3>1, <3>2, <3>5
    <3> QED BY <3>4, <3>5
  <2>8. H[i] \subseteq (1 .. n) \X Int
    BY <2>3, <2>6
  <2> QED BY <1>1, <2>4, <2>7, <2>8 DEF Aligned, E
<1>7. 0 \in G /\ \A i \in 1 .. n : i - 1 \in G => i \in G
  BY <1>1, <1>5, <1>6
<1> HIDE DEF G
<1>8. 0 .. n \subseteq G
  BY <1>1, <1>7, UpTo
<1>9. n \in G
  BY <1>1, <1>8
<1> QED BY <1>2, <1>9 DEF G, A, H

\* The lots hold what the single shares leave of them.
LEMMA SharesAreLots ==
    ASSUME NEW n, NEW rows, Booked(rows, n), NEW j \in 1 .. n
    PROVE  OpenOf(rows)[j] = SharesLeft(rows, j)
<1> DEFINE H == SharesAfter(rows)[n]
           L == Lots(rows)
           a == rows[j].qty - L[j].open + 1
           b == rows[j].qty
<1>1. Aligned(H, n, rows, L)
  BY SharesAligned
<1>2. /\ n \in Nat /\ rows \in [1 .. n -> Rows] /\ L \in [1 .. n -> LotT] /\ Len(rows) = n
      /\ H \subseteq (1 .. n) \X Int
  BY <1>1 DEF Aligned
<1> HIDE DEF H, L
<1>3. L[j].open \in Nat /\ a \in Int /\ b \in Int /\ b - a + 1 = L[j].open /\ (a > b => L[j].open = 0)
  <2>1. L[j].open \in Nat /\ rows[j].qty \in Nat
    BY <1>2 DEF LotT, Rows
  <2> QED BY <2>1
<1>4. \A k \in Int : <<j, k>> \in H <=> k \in a .. b
  BY <1>1 DEF Aligned
<1> HIDE DEF a, b
<1>5. {s \in H : s[1] = j} = Block(j, a, b)
  <2>1. ASSUME NEW s \in H, s[1] = j PROVE s \in Block(j, a, b)
    <3>1. s = <<j, s[2]>> /\ s[2] \in Int
      BY <1>2, <2>1
    <3>2. s[2] \in a .. b
      BY <1>4, <3>1
    <3> QED BY <3>1, <3>2 DEF Block
  <2>2. ASSUME NEW s \in Block(j, a, b) PROVE s \in H /\ s[1] = j
    <3>1. PICK k \in a .. b : s = <<j, k>>
      BY DEF Block
    <3>2. k \in Int
      BY <1>3
    <3> QED BY <1>4, <3>1, <3>2
  <2> QED BY <2>1, <2>2
<1>6. Cardinality(Block(j, a, b)) = L[j].open
  <2>1. Cardinality(a .. b) = IF a > b THEN 0 ELSE b - a + 1
    BY <1>3, FS_Interval
  <2>2. Cardinality(Block(j, a, b)) = Cardinality(a .. b)
    BY <1>3, BlockSize
  <2> QED BY <1>3, <2>1, <2>2
<1>7. OpenOf(rows)[j] = L[j].open
  BY <1>2 DEF OpenOf, OpenIn, L
<1>8. SharesLeft(rows, j) = Cardinality({s \in H : s[1] = j})
  BY <1>2 DEF SharesLeft, H
<1> QED BY <1>5, <1>6, <1>7, <1>8

-----------------------------------------------------------------------------
(* One more row                                                            *)

LEMMA SameLot ==
    ASSUME NEW a \in LotT, NEW b \in LotT, a.open = b.open, a.realised = b.realised
    PROVE  a = b
  BY DEF LotT

(* The lots with one more, empty.                                          *)
More(lots, n) == [j \in 1 .. n + 1 |-> IF j = n + 1 THEN [open |-> 0, realised |-> 0] ELSE lots[j]]

\* A sell takes from lots what it takes when there is one more that is empty.
LEMMA TakenMore ==
    ASSUME NEW n \in Nat, NEW lots \in [1 .. n -> LotT], NEW q \in Nat
    PROVE  /\ More(lots, n) \in [1 .. n + 1 -> LotT]
           /\ \A j \in 1 .. n : Taken(More(lots, n), j, q) = Taken(lots, j, q)
           /\ Taken(More(lots, n), n + 1, q) = 0
<1> DEFINE L == More(lots, n)
           f == OpenIn(lots)
           g == OpenIn(L)
<1>1. L \in [1 .. n + 1 -> LotT]
  BY DEF More, LotT
<1>2. L[n + 1].open = 0 /\ \A j \in 1 .. n : L[j] = lots[j]
  BY DEF More
<1> HIDE DEF L
<1>3. DOMAIN f = 1 .. n /\ \A i \in 1 .. n : f[i] = lots[i].open /\ f[i] \in Int
  BY DEF OpenIn, LotT
<1>4. DOMAIN g = 1 .. n + 1 /\ \A i \in 1 .. n + 1 : g[i] = L[i].open /\ g[i] \in Nat
  BY <1>1 DEF OpenIn, LotT
<1> HIDE DEF f, g
<1>5. \A i \in 0 .. n : Sums(f)[i] = Sums(g)[i]
  <2>1. PICK m : m = n + 1
    OBVIOUS
  <2>2. m \in Nat /\ n \in 0 .. m /\ DOMAIN g = 1 .. m /\ \A i \in 1 .. m : g[i] \in Int
    BY <1>4, <2>1
  <2>3. \A i \in 1 .. n : f[i] = g[i]
    BY <1>2, <1>3, <1>4
  <2> QED BY <1>3, <2>2, <2>3, SumsAgree
<1>6. \A j \in 1 .. n : Taken(L, j, q) = Taken(lots, j, q)
  BY <1>2, <1>5 DEF Taken, f, g
<1>7. Taken(L, n + 1, q) = 0
  <2> DEFINE t == [j \in 1 .. n + 1 |-> Taken(L, j, q)]
  <2>1. n + 1 \in Nat
    OBVIOUS
  <2>2. \A j \in 1 .. n + 1 : t[j] \in Nat /\ t[j] <= L[j].open
    <3> DEFINE k == n + 1
    <3>1. k \in Nat /\ L \in [1 .. k -> LotT] /\ t = [j \in 1 .. k |-> Taken(L, j, q)]
      BY <1>1
    <3> HIDE DEF t, k
    <3>2. \A j \in 1 .. k : t[j] \in Nat /\ t[j] <= L[j].open
      BY <3>1, TakenSums
    <3> QED BY <3>2 DEF k
  <2>3. t[n + 1] \in Nat /\ t[n + 1] <= 0
    <3> HIDE DEF t
    <3> QED BY <1>2, <2>2
  <2>4. t[n + 1] = 0
    <3> HIDE DEF t
    <3> QED BY <2>3
  <2> QED BY <2>4
<1> QED BY <1>1, <1>6, <1>7 DEF L

\* An event that is there without the last row does the same with it.
LEMMA EventMore ==
    ASSUME NEW n, NEW rows, Booked(rows, n), NEW lots \in [1 .. n -> LotT],
           NEW more \in [1 .. n + 1 -> Rows], \A j \in 1 .. n : more[j] = rows[j],
           more[n + 1].closedAt = 0, NEW i \in 1 .. n
    PROVE  Event(more, More(lots, n), i) = More(Event(rows, lots, i), n)
<1> DEFINE L == More(lots, n)
           m == n + 1
<1>1. n \in Nat /\ m \in Nat /\ rows \in [1 .. n -> Rows] /\ more \in [1 .. m -> Rows]
      /\ i \in 1 .. m /\ L \in [1 .. m -> LotT] /\ more[i] = rows[i] /\ rows[i].qty \in Nat
  <2>1. n \in Nat /\ rows \in [1 .. n -> Rows]
    BY DEF Booked
  <2>2. L \in [1 .. n + 1 -> LotT]
    BY <2>1 DEF More, LotT
  <2>3. rows[i] \in Rows
    BY <2>1
  <2>4. rows[i].qty \in Nat
    BY <2>3 DEF Rows
  <2> HIDE DEF L
  <2> QED BY <2>1, <2>2, <2>4
<1>2. L[m] = [open |-> 0, realised |-> 0] /\ (\A j \in 1 .. n : L[j] = lots[j])
  BY <1>1 DEF More
<1>3. (\A j \in 1 .. n : Taken(L, j, rows[i].qty) = Taken(lots, j, rows[i].qty))
      /\ Taken(L, m, rows[i].qty) = 0
  BY <1>1, TakenMore
<1> HIDE DEF L
<1> DEFINE M == Moved(rows, lots, i)
           N == Moved(more, L, i)
<1>4. M \in [1 .. n -> LotT] /\ N \in [1 .. m -> LotT]
  <2>1. M \in [1 .. n -> LotT]
    BY <1>1, EventAt
  <2> HIDE DEF m
  <2> QED BY <1>1, <2>1, EventAt
<1>5. more[i].side = "buy" =>
          \A j \in 1 .. m : /\ N[j].realised = L[j].realised
                            /\ N[j].open = IF j = i THEN more[i].qty ELSE L[j].open
  <2> HIDE DEF m
  <2> QED BY <1>1, BuyMoves
<1>6. more[i].side # "buy" =>
          \A j \in 1 .. m :
             /\ N[j].open = L[j].open - Taken(L, j, more[i].qty)
             /\ N[j].realised = L[j].realised
                    + (more[i].price - more[j].price) * Taken(L, j, more[i].qty)
  <2> HIDE DEF m
  <2> QED BY <1>1, SellMoves
<1>7. ASSUME NEW j \in 1 .. n PROVE N[j] = M[j]
  <2>1. j \in 1 .. m /\ more[j] = rows[j] /\ L[j] = lots[j]
    BY <1>1, <1>2
  <2>2. CASE rows[i].side = "buy"
    <3>1. M[j].realised = lots[j].realised /\ M[j].open = IF j = i THEN rows[i].qty ELSE lots[j].open
      BY <1>1, <2>2, BuyMoves
    <3>2. N[j].realised = L[j].realised /\ N[j].open = IF j = i THEN more[i].qty ELSE L[j].open
      BY <1>1, <1>5, <2>1, <2>2
    <3>3. N[j] \in LotT /\ M[j] \in LotT
      BY <1>4, <2>1
    <3> HIDE DEF M, N
    <3>4. N[j].open = M[j].open /\ N[j].realised = M[j].realised
      BY <1>1, <2>1, <3>1, <3>2
    <3> QED BY <3>3, <3>4, SameLot
  <2>3. CASE rows[i].side # "buy"
    <3> DEFINE q == rows[i].qty
    <3>1. /\ M[j].open = lots[j].open - Taken(lots, j, q)
          /\ M[j].realised = lots[j].realised + (rows[i].price - rows[j].price) * Taken(lots, j, q)
      BY <1>1, <2>3, SellMoves
    <3>2. /\ N[j].open = L[j].open - Taken(L, j, more[i].qty)
          /\ N[j].realised = L[j].realised + (more[i].price - more[j].price) * Taken(L, j, more[i].qty)
      BY <1>1, <1>6, <2>1, <2>3
    <3>3. N[j] \in LotT /\ M[j] \in LotT
      BY <1>4, <2>1
    <3>4. N[j].open = M[j].open /\ N[j].realised = M[j].realised
      <4> HIDE DEF M, N
      <4> QED BY <1>1, <1>3, <2>1, <3>1, <3>2
    <3> HIDE DEF M, N
    <3> QED BY <3>3, <3>4, SameLot
  <2> QED BY <2>2, <2>3
<1>8. N[m] = [open |-> 0, realised |-> 0]
  <2>1. m \in 1 .. m /\ m # i
    BY <1>1
  <2>2. CASE rows[i].side = "buy"
    <3>1. N[m].realised = L[m].realised /\ N[m].open = IF m = i THEN more[i].qty ELSE L[m].open
      BY <1>1, <1>5, <2>1, <2>2
    <3>2. N[m] \in LotT
      BY <1>4, <2>1
    <3> HIDE DEF N, m
    <3> QED BY <1>2, <2>1, <3>1, <3>2 DEF LotT
  <2>3. CASE rows[i].side # "buy"
    <3>1. /\ N[m].open = L[m].open - Taken(L, m, more[i].qty)
          /\ N[m].realised = L[m].realised + (more[i].price - more[m].price) * Taken(L, m, more[i].qty)
      BY <1>1, <1>6, <2>1, <2>3
    <3>2. N[m] \in LotT
      BY <1>4, <2>1
    <3>3. (more[i].price - more[m].price) * 0 = 0
      <4>1. more[i] \in Rows /\ more[m] \in Rows
        BY <1>1, <2>1
      <4>2. more[i].price \in Int /\ more[m].price \in Int
        BY <4>1 DEF Rows
      <4> QED BY <4>2
    <3> HIDE DEF N, m
    <3>4. N[m].open = 0 /\ N[m].realised = 0
      BY <1>1, <1>2, <1>3, <3>1, <3>3
    <3> QED BY <3>2, <3>4 DEF LotT
  <2> QED BY <2>2, <2>3
<1> DEFINE E == Event(rows, lots, i)
           H == Event(more, L, i)
<1>9. /\ E \in [1 .. n -> LotT]
      /\ \A j \in 1 .. n :
           /\ rows[j].side = "buy" /\ rows[j].closedAt = i =>
                E[j].open = 0 /\ E[j].realised = M[j].realised + rows[j].pnl
           /\ ~(rows[j].side = "buy" /\ rows[j].closedAt = i) => E[j] = M[j]
  BY <1>1, EventAt
<1>10. /\ H \in [1 .. m -> LotT]
      /\ \A j \in 1 .. m :
           /\ more[j].side = "buy" /\ more[j].closedAt = i =>
                H[j].open = 0 /\ H[j].realised = N[j].realised + more[j].pnl
           /\ ~(more[j].side = "buy" /\ more[j].closedAt = i) => H[j] = N[j]
  <2> HIDE DEF m
  <2> QED BY <1>1, EventAt
<1> HIDE DEF E, H, M, N
<1>11. ASSUME NEW j \in 1 .. n PROVE H[j] = E[j]
  <2>1. j \in 1 .. m /\ more[j] = rows[j] /\ N[j] = M[j]
    BY <1>1, <1>7
  <2>2. E[j] \in LotT /\ H[j] \in LotT
    BY <1>9, <1>10, <2>1
  <2> QED BY <1>9, <1>10, <2>1, <2>2 DEF LotT
<1>12. H[m] = [open |-> 0, realised |-> 0]
  <2>1. m \in 1 .. m /\ more[m].closedAt # i
    BY <1>1
  <2> QED BY <1>8, <1>10, <2>1
<1>13. H = More(E, n)
  <2>1. More(E, n) = [j \in 1 .. m |-> IF j = m THEN [open |-> 0, realised |-> 0] ELSE E[j]]
    BY DEF More
  <2>2. ASSUME NEW j \in 1 .. m
        PROVE  H[j] = IF j = m THEN [open |-> 0, realised |-> 0] ELSE E[j]
    <3>1. j = m \/ j \in 1 .. n
      BY <1>1
    <3> HIDE DEF m
    <3> QED BY <1>11, <1>12, <3>1
  <2> HIDE DEF m
  <2> QED BY <1>10, <2>1, <2>2
<1> QED BY <1>13 DEF H, E, L

\* The lots before the last row do not know of it.
LEMMA LotsMore ==
    ASSUME NEW n, NEW rows, Booked(rows, n),
           NEW more \in [1 .. n + 1 -> Rows], \A j \in 1 .. n : more[j] = rows[j],
           more[n + 1].closedAt = 0
    PROVE  Lots(more) = Event(more, More(Lots(rows), n), n + 1)
<1> DEFINE m == n + 1
           A == LotsAfter(rows)
           B == LotsAfter(more)
<1>1. n \in Nat /\ m \in Nat /\ rows \in [1 .. n -> Rows] /\ more \in [1 .. m -> Rows]
  BY DEF Booked
<1>2. /\ A \in [0 .. n -> [1 .. n -> LotT]]
      /\ A[0] = [j \in 1 .. n |-> [open |-> 0, realised |-> 0]]
      /\ \A i \in 1 .. n : A[i] = Event(rows, A[i - 1], i)
      /\ Lots(rows) = A[n]
  BY <1>1, LotsGo
<1>3. /\ B[0] = [j \in 1 .. m |-> [open |-> 0, realised |-> 0]]
      /\ \A i \in 1 .. m : B[i] = Event(more, B[i - 1], i)
      /\ Lots(more) = B[m]
  <2> HIDE DEF m
  <2> QED BY <1>1, LotsGo
<1> HIDE DEF A, B
<1> DEFINE G == {i \in 0 .. n : B[i] = More(A[i], n)}
<1>4. 0 \in G
  <2> DEFINE E == A[0]
  <2>1. More(E, n) = [j \in 1 .. m |-> IF j = m THEN [open |-> 0, realised |-> 0] ELSE E[j]]
    BY DEF More
  <2>2. ASSUME NEW j \in 1 .. m
        PROVE  [open |-> 0, realised |-> 0] =
                   IF j = m THEN [open |-> 0, realised |-> 0] ELSE E[j]
    <3>1. j = m \/ j \in 1 .. n
      BY <1>1
    <3> HIDE DEF m
    <3> QED BY <1>2, <3>1
  <2> HIDE DEF E, m
  <2>3. B[0] = More(E, n)
    BY <1>3, <2>1, <2>2
  <2> QED BY <1>1, <2>3 DEF E
<1>5. ASSUME NEW i \in 1 .. n, i - 1 \in G PROVE i \in G
  <2> DEFINE L == A[i - 1]
  <2>1. i - 1 \in 0 .. n /\ i \in 1 .. m
    BY <1>1
  <2>2. L \in [1 .. n -> LotT] /\ B[i - 1] = More(L, n)
    BY <1>2, <1>5, <2>1
  <2>3. A[i] = Event(rows, L, i) /\ B[i] = Event(more, More(L, n), i)
    BY <1>2, <1>3, <2>1, <2>2
  <2> HIDE DEF L
  <2>4. Event(more, More(L, n), i) = More(Event(rows, L, i), n)
    BY <2>2, EventMore
  <2>5. B[i] = More(A[i], n)
    BY <2>3, <2>4
  <2> QED BY <2>5
<1> HIDE DEF G
<1>6. 0 .. n \subseteq G
  BY <1>1, <1>4, <1>5, UpTo
<1>7. B[n] = More(A[n], n)
  BY <1>1, <1>6 DEF G
<1>8. m - 1 = n /\ m \in 1 .. m
  BY <1>1
<1>9. B[m] = Event(more, B[m - 1], m)
  BY <1>3, <1>8
<1> QED BY <1>2, <1>3, <1>7, <1>8, <1>9

-----------------------------------------------------------------------------
(* Totals                                                                  *)

LEMMA TotalType ==
    ASSUME NEW n \in Nat, NEW f, DOMAIN f = 1 .. n, \A i \in 1 .. n : f[i] \in Int
    PROVE  Total(f) \in Int
<1>1. Sums(f)[n] \in Int
  <2>1. n \in 0 .. n
    OBVIOUS
  <2> QED BY <2>1, SumsAre
<1> QED BY <1>1, TotalIs

(* g is f and one number more.                                             *)
Longer(n, g, f) ==
    /\ n \in Nat /\ DOMAIN f = 1 .. n /\ DOMAIN g = 1 .. n + 1
    /\ \A i \in 1 .. n + 1 : g[i] \in Int
    /\ \A i \in 1 .. n : g[i] = f[i]

LEMMA TotalMore ==
    ASSUME NEW n, NEW f, NEW g, Longer(n, g, f)
    PROVE  Total(g) = Total(f) + g[n + 1]
<1> USE DEF Longer
<1>1. PICK m : m = n + 1
  OBVIOUS
<1>2. /\ m \in Nat /\ n \in 0 .. m /\ m \in 1 .. m /\ m - 1 = n
      /\ DOMAIN g = 1 .. m /\ \A i \in 1 .. m : g[i] \in Int
  BY <1>1
<1>3. \A i \in 1 .. n : f[i] = g[i]
  OBVIOUS
<1>4. Sums(f)[n] = Sums(g)[n]
  <2>1. \A i \in 0 .. n : Sums(f)[i] = Sums(g)[i]
    BY <1>2, <1>3, SumsAgree
  <2> QED BY <2>1
<1>5. Sums(g)[m] = Sums(g)[m - 1] + g[m]
  BY <1>2, SumsAre
<1>6. Total(f) = Sums(f)[n]
  BY TotalIs
<1>7. Total(g) = Sums(g)[m]
  BY <1>2, TotalIs
<1> QED BY <1>1, <1>2, <1>4, <1>5, <1>6, <1>7

LEMMA TotalLinear ==
    ASSUME NEW n, NEW m, NEW f, NEW h, NEW g, Combined(n, g, f, m, h)
    PROVE  Total(g) = Total(f) + m * Total(h)
<1>1. \A i \in 0 .. n : Sums(g)[i] = Sums(f)[i] + m * Sums(h)[i]
  BY SumsLinear
<1>2. Total(f) = Sums(f)[n] /\ Total(h) = Sums(h)[n] /\ Total(g) = Sums(g)[n]
  BY TotalIs DEF Combined
<1>3. n \in 0 .. n
  BY DEF Combined
<1> QED BY <1>1, <1>2, <1>3

(* What rows are worth when the lots are these.                            *)
WorthOf(rows, lots) ==
    [i \in DOMAIN rows |-> lots[i].realised - lots[i].open * rows[i].price - Toll]

LEMMA ExplainedIs == ASSUME NEW rows PROVE Explained(rows) = WorthOf(rows, Lots(rows))
  BY DEF Explained, WorthOf

LEMMA WorthType ==
    ASSUME NEW n \in Nat, NEW rows \in [1 .. n -> Rows], NEW lots \in [1 .. n -> LotT]
    PROVE  /\ DOMAIN WorthOf(rows, lots) = 1 .. n
           /\ \A i \in 1 .. n : /\ WorthOf(rows, lots)[i] \in Int
                                /\ WorthOf(rows, lots)[i]
                                     = lots[i].realised - lots[i].open * rows[i].price - Toll
           /\ DOMAIN OpenIn(lots) = 1 .. n
           /\ \A i \in 1 .. n : OpenIn(lots)[i] \in Nat /\ OpenIn(lots)[i] = lots[i].open
<1>1. DOMAIN WorthOf(rows, lots) = 1 .. n
      /\ \A i \in 1 .. n : WorthOf(rows, lots)[i]
             = lots[i].realised - lots[i].open * rows[i].price - Toll
  BY DEF WorthOf
<1>2. ASSUME NEW i \in 1 .. n
      PROVE  lots[i].realised - lots[i].open * rows[i].price - Toll \in Int
  <2>1. lots[i].realised \in Int /\ lots[i].open \in Int
    BY DEF LotT
  <2>2. rows[i].price \in Int
    BY DEF Rows
  <2>3. lots[i].open * rows[i].price \in Int
    BY <2>1, <2>2
  <2> QED BY <2>1, <2>3, SimAssumption
<1>3. DOMAIN OpenIn(lots) = 1 .. n
      /\ \A i \in 1 .. n : OpenIn(lots)[i] \in Nat /\ OpenIn(lots)[i] = lots[i].open
  BY DEF OpenIn, LotT
<1> QED BY <1>1, <1>2, <1>3

LEMMA LotsType ==
    ASSUME NEW n \in Nat, NEW rows \in [1 .. n -> Rows]
    PROVE  /\ Lots(rows) \in [1 .. n -> LotT]
           /\ OpenQuantity(rows) = Total(OpenIn(Lots(rows)))
           /\ OpenQuantity(rows) \in Nat
           /\ Total(Explained(rows)) \in Int
<1>1. Lots(rows) \in [1 .. n -> LotT]
  <2>1. n \in 0 .. n
    OBVIOUS
  <2>2. LotsAfter(rows) \in [0 .. n -> [1 .. n -> LotT]] /\ Lots(rows) = LotsAfter(rows)[n]
    BY LotsGo
  <2> QED BY <2>1, <2>2
<1>2. OpenQuantity(rows) = Total(OpenIn(Lots(rows)))
  BY DEF OpenQuantity, OpenOf
<1> DEFINE f == OpenIn(Lots(rows))
           w == WorthOf(rows, Lots(rows))
<1>3. /\ DOMAIN f = 1 .. n /\ \A i \in 1 .. n : f[i] \in Nat
      /\ DOMAIN w = 1 .. n /\ \A i \in 1 .. n : w[i] \in Int
  BY <1>1, WorthType
<1> HIDE DEF f, w
<1>4. Total(f) \in Nat
  <2>1. n \in 0 .. n
    OBVIOUS
  <2>2. Sums(f)[n] \in Nat
    BY <1>3, <2>1, SumsGrow
  <2> QED BY <1>3, <2>2, TotalIs
<1>5. Total(w) \in Int
  BY <1>3, TotalType
<1> QED BY <1>1, <1>2, <1>4, <1>5, ExplainedIs DEF f, w

\* The lots with one more, empty: the same open, and one more toll.
LEMMA MoreTotals ==
    ASSUME NEW n, NEW rows, Booked(rows, n),
           NEW more \in [1 .. n + 1 -> Rows], \A j \in 1 .. n : more[j] = rows[j]
    PROVE  /\ More(Lots(rows), n) \in [1 .. n + 1 -> LotT]
           /\ Total(OpenIn(More(Lots(rows), n))) = OpenQuantity(rows)
           /\ Total(WorthOf(more, More(Lots(rows), n))) = Total(Explained(rows)) - Toll
<1> DEFINE L == Lots(rows)
           K == More(L, n)
           m == n + 1
           f == OpenIn(L)
           g == OpenIn(K)
           v == WorthOf(rows, L)
           w == WorthOf(more, K)
<1>1. n \in Nat /\ m \in Nat /\ m \in 1 .. m /\ rows \in [1 .. n -> Rows] /\ more \in [1 .. m -> Rows]
  BY DEF Booked
<1>2. L \in [1 .. n -> LotT] /\ OpenQuantity(rows) = Total(f) /\ Explained(rows) = v
  BY <1>1, LotsType, ExplainedIs
<1>3. K \in [1 .. m -> LotT] /\ K[m].open = 0 /\ K[m].realised = 0 /\ \A j \in 1 .. n : K[j] = L[j]
  <2> HIDE DEF L
  <2> QED BY <1>1, <1>2 DEF More, LotT
<1>4. /\ DOMAIN f = 1 .. n /\ (\A i \in 1 .. n : f[i] = L[i].open)
      /\ DOMAIN v = 1 .. n
      /\ (\A i \in 1 .. n : v[i] = L[i].realised - L[i].open * rows[i].price - Toll /\ v[i] \in Int)
  <2> HIDE DEF L
  <2> QED BY <1>1, <1>2, WorthType
<1>5. /\ DOMAIN g = 1 .. m /\ (\A i \in 1 .. m : g[i] = K[i].open /\ g[i] \in Int)
      /\ DOMAIN w = 1 .. m
      /\ (\A i \in 1 .. m : w[i] = K[i].realised - K[i].open * more[i].price - Toll /\ w[i] \in Int)
  <2> HIDE DEF K, m
  <2>1. \A i \in 1 .. m : OpenIn(K)[i] \in Int
    BY <1>1, <1>3, WorthType
  <2> QED BY <1>1, <1>3, <2>1, WorthType
<1>6. \A i \in 1 .. n : i \in 1 .. m /\ g[i] = f[i] /\ w[i] = v[i]
  <2> SUFFICES ASSUME NEW i \in 1 .. n PROVE i \in 1 .. m /\ g[i] = f[i] /\ w[i] = v[i]
    OBVIOUS
  <2>1. i \in 1 .. m
    BY <1>1
  <2> HIDE DEF f, g, v, w, K, L, m
  <2> QED BY <1>3, <1>4, <1>5, <2>1
<1>7. g[m] = 0 /\ w[m] = 0 - Toll
  <2>1. more[m].price \in Int
    BY <1>1 DEF Rows
  <2>2. 0 * more[m].price = 0
    BY <2>1
  <2> HIDE DEF f, g, v, w, K, L, m
  <2> QED BY <1>1, <1>3, <1>5, <2>2, SimAssumption
<1>8. Total(g) = Total(f) + g[m] /\ Total(w) = Total(v) + w[m]
  <2> HIDE DEF f, g, v, w
  <2>1. Longer(n, g, f) /\ Longer(n, w, v)
    BY <1>1, <1>4, <1>5, <1>6 DEF Longer
  <2> QED BY <2>1, TotalMore
<1>9. Total(f) \in Int /\ Total(v) \in Int
  <2>1. \A i \in 1 .. n : f[i] \in Int
    <3> HIDE DEF L
    <3> QED BY <1>2, <1>4 DEF LotT
  <2> HIDE DEF f, v
  <2> QED BY <1>1, <1>4, <2>1, TotalType
<1> HIDE DEF f, g, v, w
<1> QED BY <1>2, <1>3, <1>7, <1>8, <1>9, SimAssumption DEF g, w

\* The event of the row that was appended closes nothing.
LEMMA LastEvent ==
    ASSUME NEW n, NEW rows, Booked(rows, n),
           NEW more \in [1 .. n + 1 -> Rows], \A j \in 1 .. n : more[j] = rows[j],
           more[n + 1].closedAt = 0,
           NEW K, K = More(Lots(rows), n)
    PROVE  /\ Lots(more) \in [1 .. n + 1 -> LotT]
           /\ \A j \in 1 .. n + 1 : Lots(more)[j] = Moved(more, K, n + 1)[j]
<1> DEFINE m == n + 1
<1>1. n \in Nat /\ m \in Nat /\ m \in 1 .. m /\ rows \in [1 .. n -> Rows] /\ more \in [1 .. m -> Rows]
  BY DEF Booked
<1>2. K \in [1 .. m -> LotT]
  BY MoreTotals
<1>3. Lots(more) = Event(more, K, m)
  BY LotsMore
<1>4. \A j \in 1 .. m : more[j].closedAt # m
  <2> SUFFICES ASSUME NEW j \in 1 .. m PROVE more[j].closedAt # m
    OBVIOUS
  <2>1. CASE j = m
    BY <1>1, <2>1
  <2>2. CASE j # m
    <3>1. j \in 1 .. n
      BY <1>1, <2>2
    <3>2. rows[j].closedAt # 0 => rows[j].closedAt \in j .. n
      BY <3>1 DEF Booked
    <3> QED BY <1>1, <3>1, <3>2
  <2> QED BY <2>1, <2>2
<1> HIDE DEF m
<1>5. /\ Event(more, K, m) \in [1 .. m -> LotT]
      /\ \A j \in 1 .. m : ~(more[j].side = "buy" /\ more[j].closedAt = m)
              => Event(more, K, m)[j] = Moved(more, K, m)[j]
  BY <1>1, <1>2, EventAt
<1> QED BY <1>3, <1>4, <1>5 DEF m

\* A buy row adds its shares, at its price.
LEMMA BuyAppended ==
    ASSUME NEW n, NEW rows, Booked(rows, n),
           NEW more \in [1 .. n + 1 -> Rows], \A j \in 1 .. n : more[j] = rows[j],
           more[n + 1].closedAt = 0, more[n + 1].side = "buy"
    PROVE  /\ OpenQuantity(more) = OpenQuantity(rows) + more[n + 1].qty
           /\ Total(Explained(more)) = Total(Explained(rows))
                  - more[n + 1].price * more[n + 1].qty - Toll
<1> DEFINE m == n + 1
           q == more[m].qty
           p == more[m].price
<1>1. /\ n \in Nat /\ m \in Nat /\ m \in 1 .. m
      /\ rows \in [1 .. n -> Rows] /\ more \in [1 .. m -> Rows] /\ q \in Nat /\ p \in Nat
  <2>1. n \in Nat /\ m \in 1 .. m /\ rows \in [1 .. n -> Rows]
    BY DEF Booked
  <2>2. more[m] \in Rows
    BY <2>1
  <2>3. q \in Nat /\ p \in Nat
    BY <2>2 DEF Rows
  <2> QED BY <2>1, <2>3
<1>2. PICK K : K = More(Lots(rows), n)
  OBVIOUS
<1>3. K \in [1 .. m -> LotT] /\ Total(OpenIn(K)) = OpenQuantity(rows)
      /\ Total(WorthOf(more, K)) = Total(Explained(rows)) - Toll
      /\ K[m].open = 0
  <2>1. K[m].open = 0
    BY <1>1, <1>2 DEF More
  <2> QED BY <1>2, <2>1, MoreTotals
<1> DEFINE N == Lots(more)
           f == OpenIn(K)
           g == OpenIn(N)
           h == [j \in 1 .. m |-> IF j = m THEN q ELSE 0]
           v == WorthOf(more, K)
           w == WorthOf(more, N)
<1>4. N \in [1 .. m -> LotT] /\ \A j \in 1 .. m : N[j] = Moved(more, K, m)[j]
  BY <1>2, LastEvent
<1> HIDE DEF m
<1>5. \A j \in 1 .. m : N[j].realised = K[j].realised /\ N[j].open = IF j = m THEN q ELSE K[j].open
  <2>1. more[m].side = "buy"
    BY DEF m
  <2>2. \A j \in 1 .. m : /\ Moved(more, K, m)[j].realised = K[j].realised
                          /\ Moved(more, K, m)[j].open = IF j = m THEN more[m].qty ELSE K[j].open
    BY <1>1, <1>3, <2>1, BuyMoves
  <2> QED BY <1>4, <2>2
<1>6. /\ DOMAIN f = 1 .. m /\ (\A i \in 1 .. m : f[i] = K[i].open /\ f[i] \in Nat)
      /\ DOMAIN v = 1 .. m
      /\ (\A i \in 1 .. m : v[i] = K[i].realised - K[i].open * more[i].price - Toll /\ v[i] \in Int)
  BY <1>1, <1>3, WorthType
<1>7. /\ DOMAIN g = 1 .. m /\ (\A i \in 1 .. m : g[i] = N[i].open /\ g[i] \in Nat)
      /\ DOMAIN w = 1 .. m
      /\ (\A i \in 1 .. m : w[i] = N[i].realised - N[i].open * more[i].price - Toll /\ w[i] \in Int)
  <2> HIDE DEF N
  <2> QED BY <1>1, <1>4, WorthType
<1>8. DOMAIN h = 1 .. m /\ (\A i \in 1 .. m : h[i] \in Int) /\ Total(h) = q
  <2>1. DOMAIN h = 1 .. m /\ \A i \in 1 .. m : h[i] \in Int
    BY <1>1
  <2> DEFINE z == [j \in 1 .. n |-> 0]
  <2>2. \A i \in 1 .. n : h[i] = z[i]
    BY <1>1 DEF m
  <2>3. DOMAIN z = 1 .. n /\ \A i \in 1 .. n : z[i] \in Int /\ z[i] = z[i] + 1 * z[i]
    OBVIOUS
  <2>4. h[m] = q
    BY <1>1
  <2> HIDE DEF h, z
  <2>5. Total(z) = 0
    <3>1. Combined(n, z, z, 1, z)
      BY <1>1, <2>3 DEF Combined
    <3>2. Total(z) = Total(z) + 1 * Total(z)
      BY <3>1, TotalLinear
    <3>3. Total(z) \in Int
      BY <1>1, <2>3, TotalType
    <3> QED BY <3>2, <3>3
  <2>6. Longer(n, h, z)
    BY <1>1, <2>1, <2>2, <2>3 DEF Longer, m
  <2>7. Total(h) = Total(z) + h[m]
    BY <2>6, TotalMore DEF m
  <2> QED BY <1>1, <2>1, <2>4, <2>5, <2>7
<1>9. ASSUME NEW i \in 1 .. m PROVE g[i] = f[i] + 1 * h[i] /\ w[i] = v[i] + (0 - p) * h[i]
  <2>1. K[i].open \in Int /\ K[i].realised \in Int
    BY <1>3 DEF LotT
  <2>2. more[i].price \in Int
    BY <1>1 DEF Rows
  <2>3. CASE i = m
    <3>1. N[i].open = q /\ N[i].realised = K[i].realised /\ K[i].open = 0 /\ h[i] = q
      BY <1>3, <1>5, <2>3
    <3>2. 0 * more[i].price = 0 /\ q * p + (0 - p) * q = 0 /\ 1 * q = q /\ q * p \in Int /\ (0 - p) * q \in Int
      <4> HIDE DEF q, p
      <4> QED BY <1>1, <2>2
    <3>3. more[i].price = p
      BY <2>3
    <3> HIDE DEF f, g, h, v, w, N, q, p
    <3>4. w[i] = K[i].realised - q * p - Toll /\ v[i] = K[i].realised - 0 * p - Toll
      BY <1>6, <1>7, <3>1, <3>3
    <3>5. w[i] = v[i] + (0 - p) * h[i]
      <4>1. Toll \in Int
        BY SimAssumption
      <4>2. PICK a \in Int : a = q * p
        BY <3>2
      <4>3. PICK b \in Int : b = (0 - p) * q
        BY <3>2
      <4>4. a + b = 0 /\ 0 * p = 0
        BY <3>2, <3>3, <4>2, <4>3
      <4>5. w[i] = K[i].realised - a - Toll /\ v[i] = K[i].realised - 0 - Toll
        BY <3>4, <4>2, <4>4
      <4>6. (0 - p) * h[i] = b
        BY <3>1, <4>3
      <4> QED BY <2>1, <4>1, <4>4, <4>5, <4>6
    <3>6. g[i] = f[i] + 1 * h[i]
      <4>1. g[i] = q /\ f[i] = 0 /\ q \in Nat
        BY <1>1, <1>6, <1>7, <3>1 DEF q
      <4> QED BY <3>1, <4>1
    <3> QED BY <3>5, <3>6
  <2>4. CASE i # m
    <3>1. N[i].open = K[i].open /\ N[i].realised = K[i].realised /\ h[i] = 0
      BY <1>5, <2>4
    <3>2. (0 - p) * 0 = 0 /\ 1 * 0 = 0
      <4> HIDE DEF p
      <4> QED BY <1>1
    <3> HIDE DEF f, g, h, v, w, N, p
    <3> QED BY <1>6, <1>7, <3>1, <3>2
  <2> QED BY <2>3, <2>4
<1> HIDE DEF f, g, h, v, w, q, p, N
<1>10. Total(g) = Total(f) + 1 * Total(h) /\ Total(w) = Total(v) + (0 - p) * Total(h)
  <2>1. \A i \in 1 .. m : f[i] \in Int
    BY <1>6
  <2>2. Combined(m, g, f, 1, h)
    BY <1>1, <1>6, <1>7, <1>8, <1>9, <2>1 DEF Combined
  <2>3. PICK r : r = 0 - p
    OBVIOUS
  <2>4. r \in Int /\ \A i \in 1 .. m : w[i] = v[i] + r * h[i]
    BY <1>1, <1>9, <2>3
  <2>5. Combined(m, w, v, r, h)
    BY <1>1, <1>6, <1>7, <1>8, <2>4 DEF Combined
  <2> QED BY <2>2, <2>3, <2>5, TotalLinear
<1>11. (0 - p) * q = 0 - p * q /\ 1 * q = q /\ p * q \in Int
  BY <1>1
<1>12. Total(v) \in Int
  BY <1>1, <1>6, TotalType
<1>13. OpenQuantity(more) = Total(g) /\ Total(Explained(more)) = Total(w)
       /\ OpenQuantity(rows) = Total(f) /\ OpenQuantity(rows) \in Int
       /\ Total(v) = Total(Explained(rows)) - Toll /\ Total(Explained(rows)) \in Int
  <2>1. Total(Explained(rows)) \in Int /\ OpenQuantity(rows) \in Int
    BY <1>1, LotsType
  <2> QED BY <1>1, <1>3, <2>1, LotsType, ExplainedIs DEF f, g, v, w, N
<1>14. OpenQuantity(more) = OpenQuantity(rows) + q
  BY <1>8, <1>10, <1>11, <1>13
<1>15. Total(Explained(more)) = Total(Explained(rows)) - p * q - Toll
  BY <1>8, <1>10, <1>11, <1>12, <1>13, SimAssumption
<1> QED BY <1>14, <1>15 DEF p, q, m

LEMMA SoldWorth ==
    ASSUME NEW a \in Int, NEW b \in Int, NEW c \in Int, NEW p \in Int, NEW t \in Int
    PROVE  (a + (p - c) * t) - (b - t) * c = (a - b * c) + p * t
  OBVIOUS

\* A sell row takes its shares from the lots, as many as there are, at its price.
LEMMA SellAppended ==
    ASSUME NEW n, NEW rows, Booked(rows, n),
           NEW more \in [1 .. n + 1 -> Rows], \A j \in 1 .. n : more[j] = rows[j],
           more[n + 1].closedAt = 0, more[n + 1].side # "buy"
    PROVE  LET s == LesserOf(more[n + 1].qty, OpenQuantity(rows))
           IN  /\ OpenQuantity(more) = OpenQuantity(rows) - s
               /\ Total(Explained(more)) = Total(Explained(rows)) + more[n + 1].price * s - Toll
<1> PICK s : s = LesserOf(more[n + 1].qty, OpenQuantity(rows))
  OBVIOUS
<1> SUFFICES /\ OpenQuantity(more) = OpenQuantity(rows) - s
             /\ Total(Explained(more)) = Total(Explained(rows)) + more[n + 1].price * s - Toll
  OBVIOUS
<1> DEFINE m == n + 1
           q == more[m].qty
           p == more[m].price
<1>1. /\ n \in Nat /\ m \in Nat /\ m \in 1 .. m
      /\ rows \in [1 .. n -> Rows] /\ more \in [1 .. m -> Rows] /\ q \in Nat /\ p \in Nat
  <2>1. n \in Nat /\ m \in 1 .. m /\ rows \in [1 .. n -> Rows]
    BY DEF Booked
  <2>2. more[m] \in Rows
    BY <2>1
  <2>3. q \in Nat /\ p \in Nat
    BY <2>2 DEF Rows
  <2> QED BY <2>1, <2>3
<1>2. PICK K : K = More(Lots(rows), n)
  OBVIOUS
<1>3. K \in [1 .. m -> LotT] /\ Total(OpenIn(K)) = OpenQuantity(rows)
      /\ Total(WorthOf(more, K)) = Total(Explained(rows)) - Toll
  BY <1>2, MoreTotals
<1> DEFINE N == Lots(more)
           t == [j \in 1 .. m |-> Taken(K, j, q)]
           f == OpenIn(K)
           g == OpenIn(N)
           v == WorthOf(more, K)
           w == WorthOf(more, N)
<1>4. N \in [1 .. m -> LotT] /\ \A j \in 1 .. m : N[j] = Moved(more, K, m)[j]
  BY <1>2, LastEvent
<1>5. OpenQuantity(rows) \in Int /\ Total(Explained(rows)) \in Int
  BY <1>1, LotsType
<1>6. more[m].side # "buy" /\ s = LesserOf(q, OpenQuantity(rows))
  OBVIOUS
<1> HIDE DEF m
<1>7. \A j \in 1 .. m : /\ N[j].open = K[j].open - t[j]
                        /\ N[j].realised = K[j].realised + (p - more[j].price) * t[j]
                        /\ t[j] \in Int
  <2>1. \A j \in 1 .. m :
           /\ Taken(K, j, q) \in 0 .. K[j].open
           /\ Moved(more, K, m)[j].open = K[j].open - Taken(K, j, q)
           /\ Moved(more, K, m)[j].realised = K[j].realised
                  + (p - more[j].price) * Taken(K, j, q)
    BY <1>1, <1>3, <1>6, SellMoves
  <2> HIDE DEF q, p
  <2>2. \A j \in 1 .. m : t[j] = Taken(K, j, q)
    OBVIOUS
  <2> HIDE DEF t, N
  <2> QED BY <1>4, <2>1, <2>2
<1>8. /\ DOMAIN f = 1 .. m /\ (\A i \in 1 .. m : f[i] = K[i].open /\ f[i] \in Nat)
      /\ DOMAIN v = 1 .. m
      /\ (\A i \in 1 .. m : v[i] = K[i].realised - K[i].open * more[i].price - Toll /\ v[i] \in Int)
  BY <1>1, <1>3, WorthType
<1>9. /\ DOMAIN g = 1 .. m /\ (\A i \in 1 .. m : g[i] = N[i].open /\ g[i] \in Nat)
      /\ DOMAIN w = 1 .. m
      /\ (\A i \in 1 .. m : w[i] = N[i].realised - N[i].open * more[i].price - Toll /\ w[i] \in Int)
  <2> HIDE DEF N
  <2> QED BY <1>1, <1>4, WorthType
<1>10. DOMAIN t = 1 .. m /\ Total(t) = s
  <2>1. DOMAIN t = 1 .. m
    OBVIOUS
  <2>2. PICK u : u = t
    OBVIOUS
  <2>3. u = [j \in 1 .. m |-> Taken(K, j, q)]
    BY <2>2
  <2> HIDE DEF q, t
  <2>4. \A k \in 0 .. m : Sums(u)[k] = LesserOf(q, Sums(f)[k])
    BY <1>1, <1>3, <2>3, TakenSums
  <2>5. m \in 0 .. m /\ Total(t) = Sums(t)[m] /\ Total(f) = Sums(f)[m]
    <3> HIDE DEF f
    <3> QED BY <1>1, <1>8, <2>1, TotalIs
  <2> QED BY <1>3, <1>6, <2>1, <2>2, <2>4, <2>5
<1>11. ASSUME NEW i \in 1 .. m PROVE g[i] = f[i] + (0 - 1) * t[i] /\ w[i] = v[i] + p * t[i]
  <2>1. K[i].open \in Int /\ K[i].realised \in Int
    BY <1>3 DEF LotT
  <2>2. more[i].price \in Int
    BY <1>1 DEF Rows
  <2>3. t[i] \in Int
    BY <1>7
  <2> HIDE DEF f, g, t, v, w, N, q, p
  <2>4. w[i] = N[i].realised - N[i].open * more[i].price - Toll
        /\ v[i] = K[i].realised - K[i].open * more[i].price - Toll
    BY <1>8, <1>9
  <2>5. (K[i].realised + (p - more[i].price) * t[i]) - (K[i].open - t[i]) * more[i].price
            = (K[i].realised - K[i].open * more[i].price) + p * t[i]
    BY <1>1, <2>1, <2>2, <2>3, SoldWorth
  <2>6. K[i].open * more[i].price \in Int /\ p * t[i] \in Int
    BY <1>1, <2>1, <2>2, <2>3
  <2>7. w[i] = v[i] + p * t[i]
    <3>1. w[i] = ((K[i].realised + (p - more[i].price) * t[i]) - (K[i].open - t[i]) * more[i].price) - Toll
      BY <1>7, <2>4
    <3>2. w[i] = ((K[i].realised - K[i].open * more[i].price) + p * t[i]) - Toll
      BY <2>5, <3>1
    <3> QED BY <2>1, <2>4, <2>6, <3>2, SimAssumption
  <2>8. g[i] = f[i] + (0 - 1) * t[i]
    BY <1>7, <1>8, <1>9, <2>1, <2>3
  <2> QED BY <2>7, <2>8
<1> HIDE DEF f, g, t, v, w, q, p, N
<1>12. Total(g) = Total(f) + (0 - 1) * Total(t) /\ Total(w) = Total(v) + p * Total(t)
  <2>1. \A i \in 1 .. m : t[i] \in Int
    BY <1>7
  <2>2. PICK r : r = 0 - 1
    OBVIOUS
  <2>3. r \in Int /\ \A i \in 1 .. m : g[i] = f[i] + r * t[i]
    BY <1>11, <2>2
  <2>4. Combined(m, g, f, r, t)
    BY <1>1, <1>8, <1>9, <1>10, <2>1, <2>3 DEF Combined
  <2>5. p \in Int /\ (\A i \in 1 .. m : v[i] \in Int) /\ \A i \in 1 .. m : w[i] = v[i] + p * t[i]
    BY <1>1, <1>8, <1>11
  <2>6. Combined(m, w, v, p, t)
    BY <1>1, <1>8, <1>9, <1>10, <2>1, <2>5 DEF Combined
  <2> QED BY <2>2, <2>4, <2>6, TotalLinear
<1>13. /\ OpenQuantity(more) = Total(g) /\ Total(Explained(more)) = Total(w)
       /\ OpenQuantity(rows) = Total(f) /\ Total(v) = Total(Explained(rows)) - Toll
  BY <1>1, <1>3, LotsType, ExplainedIs DEF f, g, v, w, N
<1>14. s \in Int /\ p * s \in Int
  <2>1. s \in Int
    BY <1>1, <1>5, <1>6 DEF LesserOf
  <2> QED BY <1>1, <2>1
<1>15. OpenQuantity(more) = OpenQuantity(rows) - s
  BY <1>5, <1>10, <1>12, <1>13, <1>14
<1>16. Total(Explained(more)) = Total(Explained(rows)) + p * s - Toll
  BY <1>5, <1>10, <1>12, <1>13, <1>14, SimAssumption
<1> QED BY <1>15, <1>16 DEF p, m

-----------------------------------------------------------------------------
(* Closes stamped after the last row                                       *)

(* Some open buys of rows close themselves after the last one.             *)
Closing(rows, n, lots, closed) ==
    /\ Booked(rows, n) /\ n # 0
    /\ lots \subseteq {j \in 1 .. n : rows[j].side = "buy" /\ rows[j].closedAt = 0}
    /\ closed \in [1 .. n -> Rows]
    /\ \A j \in 1 .. n : /\ closed[j].side = rows[j].side
                         /\ closed[j].qty = rows[j].qty
                         /\ closed[j].price = rows[j].price
    /\ \A j \in lots : closed[j].closedAt = n
    /\ \A j \in (1 .. n) \ lots : closed[j] = rows[j]

LEMMA MovedSame ==
    ASSUME NEW n, NEW rows, NEW lots, NEW closed, Closing(rows, n, lots, closed),
           NEW L \in [1 .. n -> LotT], NEW i \in 1 .. n
    PROVE  Moved(closed, L, i) = Moved(rows, L, i)
<1>1. \A j \in 1 .. n : /\ closed[j].side = rows[j].side
                        /\ closed[j].qty = rows[j].qty
                        /\ closed[j].price = rows[j].price
  BY DEF Closing
<1>2. OpenLot(closed, L, i) = OpenLot(rows, L, i)
  BY <1>1 DEF OpenLot
<1>3. DrawSell(closed, L, i) = DrawSell(rows, L, i)
  BY <1>1 DEF DrawSell
<1> QED BY <1>1, <1>2, <1>3 DEF Moved

\* Such a close empties the lot, for the result on its row, and no other.
LEMMA ClosedLots ==
    ASSUME NEW n, NEW rows, NEW lots, NEW closed, Closing(rows, n, lots, closed)
    PROVE  \A j \in 1 .. n :
              /\ j \in lots => /\ Lots(closed)[j].open = 0
                               /\ Lots(closed)[j].realised = Lots(rows)[j].realised + closed[j].pnl
              /\ j \notin lots => Lots(closed)[j] = Lots(rows)[j]
<1> DEFINE A == LotsAfter(rows)
           B == LotsAfter(closed)
           G == {i \in 0 .. n : i < n => B[i] = A[i]}
<1>1. /\ n \in Nat /\ n # 0 /\ n \in 1 .. n /\ n - 1 \in 0 .. n
      /\ rows \in [1 .. n -> Rows] /\ closed \in [1 .. n -> Rows]
  BY DEF Closing, Booked
<1>2. /\ A \in [0 .. n -> [1 .. n -> LotT]]
      /\ A[0] = [j \in 1 .. n |-> [open |-> 0, realised |-> 0]]
      /\ \A i \in 1 .. n : A[i] = Event(rows, A[i - 1], i)
      /\ Lots(rows) = A[n]
  BY <1>1, LotsGo
<1>3. /\ B[0] = [j \in 1 .. n |-> [open |-> 0, realised |-> 0]]
      /\ \A i \in 1 .. n : B[i] = Event(closed, B[i - 1], i)
      /\ Lots(closed) = B[n]
  BY <1>1, LotsGo
<1> HIDE DEF A, B
<1>4. 0 \in G
  BY <1>1, <1>2, <1>3
<1>5. ASSUME NEW i \in 1 .. n, i - 1 \in G PROVE i \in G
  <2> SUFFICES ASSUME i < n PROVE B[i] = A[i]
    BY <1>1
  <2> DEFINE L == A[i - 1]
             M == Moved(rows, L, i)
             E == Event(rows, L, i)
             H == Event(closed, L, i)
  <2>1. L \in [1 .. n -> LotT] /\ B[i - 1] = L
    <3>1. i - 1 \in 0 .. n /\ i - 1 < n
      BY <1>1
    <3> QED BY <1>2, <1>5, <3>1
  <2>2. A[i] = E /\ B[i] = H
    BY <1>2, <1>3, <2>1
  <2> HIDE DEF L
  <2>3. M = Moved(closed, L, i)
    BY <2>1, MovedSame
  <2>4. /\ E \in [1 .. n -> LotT]
        /\ \A j \in 1 .. n :
             /\ rows[j].side = "buy" /\ rows[j].closedAt = i =>
                  E[j].open = 0 /\ E[j].realised = M[j].realised + rows[j].pnl
             /\ ~(rows[j].side = "buy" /\ rows[j].closedAt = i) => E[j] = M[j]
    BY <1>1, <2>1, EventAt
  <2>5. /\ H \in [1 .. n -> LotT]
        /\ \A j \in 1 .. n :
             /\ closed[j].side = "buy" /\ closed[j].closedAt = i =>
                  H[j].open = 0 /\ H[j].realised = M[j].realised + closed[j].pnl
             /\ ~(closed[j].side = "buy" /\ closed[j].closedAt = i) => H[j] = M[j]
    BY <1>1, <2>1, <2>3, EventAt
  <2> HIDE DEF E, H, M
  <2>6. ASSUME NEW j \in 1 .. n PROVE H[j] = E[j]
    <3>1. CASE j \in lots
      <4>1. rows[j].closedAt = 0 /\ closed[j].closedAt = n
        BY <3>1 DEF Closing
      <4> QED BY <1>1, <2>4, <2>5, <4>1
    <3>2. CASE j \notin lots
      <4>1. closed[j] = rows[j]
        BY <3>2 DEF Closing
      <4>2. H[j] \in LotT /\ E[j] \in LotT
        BY <2>4, <2>5
      <4>3. \/ H[j] = M[j] /\ E[j] = M[j]
            \/ H[j].open = E[j].open /\ H[j].realised = E[j].realised
        BY <2>4, <2>5, <4>1
      <4> QED BY <4>2, <4>3, SameLot
    <3> QED BY <3>1, <3>2
  <2>7. H \in [1 .. n -> LotT] /\ E \in [1 .. n -> LotT]
    BY <2>4, <2>5
  <2>8. H = E
    <3>1. H = [j \in 1 .. n |-> H[j]] /\ E = [j \in 1 .. n |-> E[j]]
      BY <2>7
    <3>2. [j \in 1 .. n |-> H[j]] = [j \in 1 .. n |-> E[j]]
      BY <2>6
    <3> QED BY <3>1, <3>2
  <2> QED BY <2>2, <2>8
<1> HIDE DEF G
<1>6. 0 .. n \subseteq G
  BY <1>1, <1>4, <1>5, UpTo
<1> DEFINE L == A[n - 1]
           M == Moved(rows, L, n)
           E == Event(rows, L, n)
           H == Event(closed, L, n)
<1>7. L \in [1 .. n -> LotT] /\ B[n - 1] = L
  <2>1. n - 1 < n
    BY <1>1
  <2> QED BY <1>1, <1>2, <1>6, <2>1 DEF G
<1>8. Lots(rows) = E /\ Lots(closed) = H
  BY <1>1, <1>2, <1>3, <1>7
<1> HIDE DEF L
<1>9. M = Moved(closed, L, n)
  BY <1>1, <1>7, MovedSame
<1>10. /\ E \in [1 .. n -> LotT]
       /\ \A j \in 1 .. n :
            /\ rows[j].side = "buy" /\ rows[j].closedAt = n =>
                 E[j].open = 0 /\ E[j].realised = M[j].realised + rows[j].pnl
            /\ ~(rows[j].side = "buy" /\ rows[j].closedAt = n) => E[j] = M[j]
  BY <1>1, <1>7, EventAt
<1>11. /\ H \in [1 .. n -> LotT]
       /\ \A j \in 1 .. n :
            /\ closed[j].side = "buy" /\ closed[j].closedAt = n =>
                 H[j].open = 0 /\ H[j].realised = M[j].realised + closed[j].pnl
            /\ ~(closed[j].side = "buy" /\ closed[j].closedAt = n) => H[j] = M[j]
  BY <1>1, <1>7, <1>9, EventAt
<1> HIDE DEF E, H, M
<1>12. ASSUME NEW j \in 1 .. n
       PROVE  /\ j \in lots => H[j].open = 0 /\ H[j].realised = E[j].realised + closed[j].pnl
              /\ j \notin lots => H[j] = E[j]
  <2>1. CASE j \in lots
    <3>1. /\ rows[j].side = "buy" /\ rows[j].closedAt = 0
          /\ closed[j].side = rows[j].side /\ closed[j].closedAt = n
      BY <2>1 DEF Closing
    <3> QED BY <1>1, <1>10, <1>11, <2>1, <3>1
  <2>2. CASE j \notin lots
    <3>1. closed[j] = rows[j]
      BY <2>2 DEF Closing
    <3>2. H[j] \in LotT /\ E[j] \in LotT
      BY <1>10, <1>11
    <3>3. \/ H[j] = M[j] /\ E[j] = M[j]
          \/ H[j].open = E[j].open /\ H[j].realised = E[j].realised
      BY <1>10, <1>11, <3>1
    <3> QED BY <2>2, <3>2, <3>3, SameLot
  <2> QED BY <2>1, <2>2
<1> QED BY <1>8, <1>12

LEMMA ClosedWorth ==
    ASSUME NEW a \in Int, NEW b \in Int, NEW c \in Int, NEW m \in Int
    PROVE  (a + (m - c) * b) - 0 * c = (a - b * c) + m * b
  OBVIOUS

\* All lots that have shares close at m: nothing is left, and the shares are paid.
LEMMA AllClosed ==
    ASSUME NEW n, NEW rows, NEW lots, NEW closed, Closing(rows, n, lots, closed),
           \A j \in (1 .. n) \ lots : Lots(rows)[j].open = 0,
           NEW m \in Int,
           \A j \in lots : closed[j].pnl = (m - rows[j].price) * Lots(rows)[j].open
    PROVE  /\ OpenQuantity(closed) = 0
           /\ Total(Explained(closed)) = Total(Explained(rows)) + m * OpenQuantity(rows)
<1> DEFINE L == Lots(rows)
           N == Lots(closed)
           f == OpenIn(L)
           g == OpenIn(N)
           v == WorthOf(rows, L)
           w == WorthOf(closed, N)
<1>1. n \in Nat /\ rows \in [1 .. n -> Rows] /\ closed \in [1 .. n -> Rows]
  BY DEF Closing, Booked
<1>2. /\ L \in [1 .. n -> LotT] /\ N \in [1 .. n -> LotT]
      /\ OpenQuantity(rows) = Total(f) /\ Explained(rows) = v
      /\ OpenQuantity(closed) = Total(g) /\ Explained(closed) = w
  BY <1>1, LotsType, ExplainedIs
<1>3. \A j \in 1 .. n : /\ j \in lots => N[j].open = 0 /\ N[j].realised = L[j].realised + closed[j].pnl
                        /\ j \notin lots => N[j] = L[j]
  BY ClosedLots
<1>4. \A j \in 1 .. n : /\ j \in lots => closed[j].pnl = (m - rows[j].price) * L[j].open
                        /\ j \notin lots => L[j].open = 0
                        /\ closed[j].price = rows[j].price
  BY DEF Closing
<1>5. /\ DOMAIN f = 1 .. n /\ (\A i \in 1 .. n : f[i] = L[i].open /\ f[i] \in Nat)
      /\ DOMAIN v = 1 .. n
      /\ (\A i \in 1 .. n : v[i] = L[i].realised - L[i].open * rows[i].price - Toll /\ v[i] \in Int)
  <2> HIDE DEF L
  <2> QED BY <1>1, <1>2, WorthType
<1>6. /\ DOMAIN g = 1 .. n /\ (\A i \in 1 .. n : g[i] = N[i].open /\ g[i] \in Nat)
      /\ DOMAIN w = 1 .. n
      /\ (\A i \in 1 .. n : w[i] = N[i].realised - N[i].open * closed[i].price - Toll /\ w[i] \in Int)
  <2> HIDE DEF N
  <2> QED BY <1>1, <1>2, WorthType
<1>7. ASSUME NEW i \in 1 .. n PROVE g[i] = f[i] + (0 - 1) * f[i] /\ w[i] = v[i] + m * f[i]
  <2> DEFINE a == L[i].realised
             b == L[i].open
             c == rows[i].price
  <2>1. a \in Int /\ b \in Int
    <3> HIDE DEF L
    <3> QED BY <1>2 DEF LotT
  <2>2. c \in Int
    BY <1>1 DEF Rows
  <2>3. N[i].open = 0 /\ N[i].realised = a + (m - c) * b
    <3>1. CASE i \in lots
      BY <1>3, <1>4, <3>1
    <3>2. CASE i \notin lots
      <4>1. N[i] = L[i] /\ b = 0
        BY <1>3, <1>4, <3>2
      <4> HIDE DEF L, N, c
      <4>2. (m - c) * 0 = 0
        BY <2>2
      <4>3. N[i].open = 0 /\ N[i].realised = L[i].realised
        BY <4>1
      <4>4. a + 0 = a
        BY <2>1
      <4> QED BY <4>1, <4>2, <4>3, <4>4
    <3> QED BY <3>1, <3>2
  <2>4. w[i] = N[i].realised - N[i].open * c - Toll /\ v[i] = a - b * c - Toll
        /\ g[i] = N[i].open /\ f[i] = b
    BY <1>4, <1>5, <1>6
  <2> HIDE DEF a, b, c, f, g, v, w, L, N
  <2>5. (a + (m - c) * b) - 0 * c = (a - b * c) + m * b
    BY <2>1, <2>2, ClosedWorth
  <2>6. b * c \in Int /\ m * b \in Int
    BY <2>1, <2>2
  <2>7. w[i] = ((a - b * c) + m * b) - Toll
    BY <2>3, <2>4, <2>5
  <2>8. w[i] = v[i] + m * f[i]
    BY <2>1, <2>4, <2>6, <2>7, SimAssumption
  <2>9. g[i] = f[i] + (0 - 1) * f[i]
    BY <2>1, <2>3, <2>4
  <2> QED BY <2>8, <2>9
<1> HIDE DEF f, g, v, w, L, N
<1>8. Total(g) = Total(f) + (0 - 1) * Total(f) /\ Total(w) = Total(v) + m * Total(f)
  <2>1. \A i \in 1 .. n : f[i] \in Int
    BY <1>5
  <2>2. PICK r : r = 0 - 1
    OBVIOUS
  <2>3. r \in Int /\ \A i \in 1 .. n : g[i] = f[i] + r * f[i]
    BY <1>7, <2>2
  <2>4. Combined(n, g, f, r, f)
    BY <1>1, <1>5, <1>6, <2>1, <2>3 DEF Combined
  <2>5. Combined(n, w, v, m, f)
    BY <1>1, <1>5, <1>6, <1>7, <2>1 DEF Combined
  <2> QED BY <2>2, <2>4, <2>5, TotalLinear
<1>9. Total(f) \in Int
  <2>1. \A i \in 1 .. n : f[i] \in Int
    BY <1>5
  <2> QED BY <1>1, <1>5, <2>1, TotalType
<1> QED BY <1>2, <1>8, <1>9

\* What a holding of as many shares takes from the lots is what is there.
LEMMA TakenAll ==
    ASSUME NEW n \in Nat, NEW lots \in [1 .. n -> LotT],
           NEW q, q = Total(OpenIn(lots)),
           NEW t, t = [j \in 1 .. n |-> Taken(lots, j, q)]
    PROVE  Total(t) = q /\ \A j \in 1 .. n : t[j] = lots[j].open
<1> DEFINE f == OpenIn(lots)
           S == Sums(f)
<1>1. DOMAIN f = 1 .. n /\ \A i \in 1 .. n : f[i] \in Nat /\ f[i] \in Int /\ f[i] = lots[i].open
  BY DEF OpenIn, LotT
<1> HIDE DEF f
<1>2. /\ \A i \in 0 .. n : S[i] \in Nat /\ S[i] <= S[n]
      /\ \A i \in 1 .. n : S[i] = S[i - 1] + f[i]
  BY <1>1, SumsGrow, SumsAre
<1>3. q = S[n] /\ n \in 0 .. n
  BY <1>1, TotalIs DEF f
<1>4. \A j \in 1 .. n : t[j] = LesserOf(f[j], IF q > S[j - 1] THEN q - S[j - 1] ELSE 0)
  BY <1>1 DEF Taken, f
<1>5. \A k \in 0 .. n : Sums(t)[k] = LesserOf(q, S[k])
  <2>1. q \in Nat
    BY <1>2, <1>3
  <2> QED BY <2>1, TakenSums DEF f
<1> HIDE DEF S
<1>6. Sums(t)[n] = q
  BY <1>2, <1>3, <1>5 DEF LesserOf
<1>7. Total(t) = q
  <2>1. DOMAIN t = 1 .. n
    OBVIOUS
  <2> QED BY <1>6, <2>1, TotalIs
<1>8. ASSUME NEW j \in 1 .. n PROVE t[j] = f[j]
  <2>1. /\ S[j - 1] \in Nat /\ f[j] \in Nat /\ S[j] = S[j - 1] + f[j] /\ S[j] \in Nat
        /\ S[j] <= q /\ q \in Nat
    BY <1>1, <1>2, <1>3
  <2>2. t[j] = LesserOf(f[j], IF q > S[j - 1] THEN q - S[j - 1] ELSE 0)
    BY <1>4
  <2> QED BY <2>1, <2>2 DEF LesserOf
<1> QED BY <1>1, <1>7, <1>8

-----------------------------------------------------------------------------
(* The inductive invariant                                                 *)

ShortT == [open : BOOLEAN, qty : Nat, entry : Nat, stop : Nat \cup {None},
           target : Nat \cup {None}, accrued : Nat \cup {None},
           realised : Int, borrowed : Nat, tolled : Nat]

(* A copy of the portfolio: shares stand in a holding row.                 *)
Copies == {k \in [cash : Int, held : Nat, lot : Nat, shorts : Seq(ShortT)] :
              k.lot = 0 => k.held = 0}

Steps == {"idle", "creating", "asked", "outcomes", "closing", "shorts"} \cup Fills
CallsT == [at : Steps, req : Request \cup {None}, copy : Copies \cup {None},
           seen : Seq(Rows), mark : Nat \cup {None}]

(* The threads that may still begin a row.                                 *)
Acting == {c \in Calls : call[c].at \in Fills \cup {"asked"}}

BooksTyped ==
    /\ books \in BOOLEAN /\ cash \in Int /\ held \in Nat /\ lot \in Nat
    /\ today \in 0 .. Days /\ born \in 0 .. Days
    /\ resting \subseteq Request /\ overtaken \subseteq {"cash", "shares"}
    /\ trades \in Seq(Rows) /\ Booked(trades, Len(trades))
    /\ shorts \in Seq(ShortT)
    /\ lot = 0 => held = 0

(* What a thread goes by.                                                  *)
Acts(k) ==
    /\ Booked(k.seen, Len(k.seen))
    /\ k.at \in Fills \cup {"asked"} => k.req \in Request
    /\ k.at \in Fills => k.mark \in Nat
    /\ k.at = "buying" => k.req.side = "buy"
    /\ k.at = "selling" => k.req.side = "sell"
    /\ k.at = "closing" /\ k.copy # None => k.mark \in DOMAIN k.seen

CallsTyped ==
    /\ call \in [Calls -> CallsT]
    /\ \A c \in Calls : Acts(call[c])

(* There is room for a row of every thread that may begin one.             *)
Fits == Len(trades) + Len(shorts) + Cardinality(Acting) <= MaxRows

(* Rows are numbered in the order they were filed, while none is filed     *)
(* behind another.                                                         *)
Numbered == "shares" \notin overtaken => \A i \in DOMAIN trades : trades[i].id = i

(* Without a portfolio there is nothing on the books, and nobody at them.  *)
Emptied ==
    ~books => /\ trades = << >> /\ shorts = << >> /\ held = 0 /\ overtaken = {}
              /\ \A c \in Calls : ~InTransaction(c)

Accounts == LotsAgree /\ CashIsExplained

IInv == BooksTyped /\ CallsTyped /\ Fits /\ Numbered /\ Emptied /\ Accounts

LEMMA Counts ==
    ASSUME NEW S \in SUBSET Calls
    PROVE  IsFiniteSet(S) /\ Cardinality(S) \in Nat
<1>1. IsFiniteSet(S)
  BY SimAssumption, FS_Subset
<1> QED BY <1>1, FS_CardinalityType

LEMMA Fewer ==
    ASSUME NEW S \in SUBSET Calls, NEW T \in SUBSET S
    PROVE  Cardinality(T) <= Cardinality(S)
  BY Counts, FS_Subset

LEMMA Sizes ==
    ASSUME BooksTyped
    PROVE  /\ Len(trades) \in Nat /\ Len(shorts) \in Nat /\ MaxRows \in Nat /\ Days \in Nat
           /\ DOMAIN trades = 1 .. Len(trades)
  BY SimAssumption DEF BooksTyped

\* A call begins only when there is room for its row.
LEMMA StartFits ==
    ASSUME IInv, NEW c \in Calls, Room, call[c] = Idle,
           \A d \in Calls \ {c} : call'[d] = call[d], UNCHANGED <<trades, shorts>>
    PROVE  Fits'
<1>1. Acting \in SUBSET Calls /\ c \notin Acting /\ Acting \cup {c} \in SUBSET Calls
  BY DEF Acting, Idle, Fills
<1>2. Acting' \in SUBSET (Acting \cup {c})
  BY DEF Acting
<1>3. Cardinality(Acting \cup {c}) = Cardinality(Acting) + 1 /\ Cardinality(Acting) \in Nat
  BY <1>1, Counts, FS_AddElement
<1>4. Cardinality(Acting') <= Cardinality(Acting \cup {c}) /\ Cardinality(Acting') \in Nat
  <2>1. Acting' \in SUBSET Calls
    BY <1>1, <1>2
  <2> QED BY <1>1, <1>2, <2>1, Fewer, Counts
<1>5. Len(trades) + Len(shorts) + Cardinality(Acting) < MaxRows
  BY DEF Room, Acting
<1>6. Len(trades) \in Nat /\ Len(shorts) \in Nat /\ MaxRows \in Nat
  BY Sizes DEF IInv
<1>7. Len(trades) + Len(shorts) + Cardinality(Acting') <= MaxRows
  BY <1>3, <1>4, <1>5, <1>6
<1> QED BY <1>7 DEF Fits

LEMMA RestFits ==
    ASSUME IInv, Acting' \in SUBSET Acting, Len(trades') \in Nat, Len(shorts') \in Nat,
           Len(trades') + Len(shorts') <= Len(trades) + Len(shorts)
    PROVE  Fits'
<1>1. Acting \in SUBSET Calls /\ Acting' \in SUBSET Calls
  BY DEF Acting
<1>2. /\ Cardinality(Acting') <= Cardinality(Acting)
      /\ Cardinality(Acting) \in Nat /\ Cardinality(Acting') \in Nat
  BY <1>1, Fewer, Counts
<1>3. /\ Len(trades) \in Nat /\ Len(shorts) \in Nat /\ MaxRows \in Nat
      /\ Len(trades) + Len(shorts) + Cardinality(Acting) <= MaxRows
  BY Sizes DEF IInv, Fits
<1>4. Len(trades') + Len(shorts') + Cardinality(Acting') <= MaxRows
  BY <1>2, <1>3
<1> QED BY <1>4 DEF Fits

\* A thread that is done with its fill has begun a row at most.
LEMMA RowFits ==
    ASSUME IInv, NEW c \in Acting, Acting' \in SUBSET (Acting \ {c}),
           Len(trades') \in Nat, Len(shorts') \in Nat,
           Len(trades') + Len(shorts') <= Len(trades) + Len(shorts) + 1
    PROVE  Fits'
<1>1. Acting \in SUBSET Calls /\ Acting' \in SUBSET Calls /\ Acting \ {c} \in SUBSET Calls
  BY DEF Acting
<1>2. /\ Cardinality(Acting') <= Cardinality(Acting \ {c})
      /\ Cardinality(Acting \ {c}) = Cardinality(Acting) - 1
      /\ Cardinality(Acting) \in Nat /\ Cardinality(Acting') \in Nat
  BY <1>1, Fewer, Counts, FS_RemoveElement
<1>3. /\ Len(trades) \in Nat /\ Len(shorts) \in Nat /\ MaxRows \in Nat
      /\ Len(trades) + Len(shorts) + Cardinality(Acting) <= MaxRows
  BY Sizes DEF IInv, Fits
<1>4. Len(trades') + Len(shorts') + Cardinality(Acting') <= MaxRows
  BY <1>2, <1>3
<1> QED BY <1>4 DEF Fits

LEMMA EmptyBook == << >> \in Seq(Rows) /\ Booked(<< >>, Len(<< >>)) /\ << >> \in Seq(ShortT)
<1>1. Len(<< >>) = 0 /\ << >> \in [1 .. 0 -> Rows] /\ << >> \in Seq(Rows) /\ << >> \in Seq(ShortT)
  OBVIOUS
<1>2. Booked(<< >>, 0)
  BY <1>1 DEF Booked
<1> QED BY <1>1, <1>2

LEMMA IdleType == Idle \in CallsT /\ Acts(Idle) /\ Idle.at = "idle" /\ Idle.copy = None
<1>1. Idle \in CallsT /\ Idle.at = "idle" /\ Idle.copy = None /\ Idle.seen = << >>
  BY EmptyBook DEF Idle, CallsT, Steps
<1> QED BY <1>1, EmptyBook DEF Acts, Fills

\* One thread goes on.
LEMMA CallGoes ==
    ASSUME CallsTyped, NEW c \in Calls, NEW new \in CallsT, Acts(new),
           call' = [call EXCEPT ![c] = new]
    PROVE  CallsTyped' /\ call'[c] = new /\ \A d \in Calls \ {c} : call'[d] = call[d]
<1>1. call' \in [Calls -> CallsT] /\ call'[c] = new /\ \A d \in Calls \ {c} : call'[d] = call[d]
  BY DEF CallsTyped
<1>2. ASSUME NEW d \in Calls PROVE Acts(call'[d])
  <2>1. CASE d = c
    BY <1>1, <2>1
  <2>2. CASE d # c
    BY <1>1, <2>2 DEF CallsTyped
  <2> QED BY <2>1, <2>2
<1> QED BY <1>1, <1>2 DEF CallsTyped

LEMMA CallLeaves ==
    ASSUME CallsTyped, NEW c \in Calls, Leave(c)
    PROVE  /\ CallsTyped' /\ Acting' \in SUBSET (Acting \ {c})
           /\ call'[c] = Idle /\ \A d \in Calls \ {c} : call'[d] = call[d]
<1>1. CallsTyped' /\ call'[c] = Idle /\ \A d \in Calls \ {c} : call'[d] = call[d]
  BY IdleType, CallGoes DEF Leave
<1> QED BY <1>1, IdleType DEF Acting, Fills

\* The books stay as they are while a thread goes on.
LEMMA SameBooks ==
    ASSUME IInv, UNCHANGED <<books, cash, held, lot, trades, shorts, overtaken, today, born>>,
           resting' \subseteq Request, CallsTyped', Fits', NEW c \in Calls,
           \A d \in Calls \ {c} : call'[d] = call[d],
           books \/ call'[c].copy = None \/ call'[c].at = "asked"
    PROVE  IInv'
<1>1. BooksTyped'
  BY DEF IInv, BooksTyped
<1>2. Numbered' /\ Accounts'
  BY DEF IInv, Numbered, Accounts, LotsAgree, CashIsExplained, ClosedByHand
<1>3. Emptied'
  <2> SUFFICES ASSUME ~books, NEW d \in Calls PROVE ~InTransaction(d)'
    BY DEF IInv, Emptied
  <2>1. CASE d = c
    BY <2>1 DEF InTransaction
  <2>2. CASE d # c
    BY <2>2 DEF InTransaction, IInv, Emptied
  <2> QED BY <2>1, <2>2
<1> QED BY <1>1, <1>2, <1>3 DEF IInv

LEMMA NoRows == OpenQuantity(<< >>) = 0 /\ Total(Explained(<< >>)) = 0
<1> DEFINE rows == << >>
           f == OpenIn(Lots(rows))
           w == WorthOf(rows, Lots(rows))
<1>1. 0 \in Nat /\ rows \in [1 .. 0 -> Rows]
  OBVIOUS
<1>2. Lots(rows) \in [1 .. 0 -> LotT] /\ OpenQuantity(rows) = Total(f) /\ Explained(rows) = w
  BY <1>1, LotsType, ExplainedIs
<1>3. DOMAIN f = 1 .. 0 /\ DOMAIN w = 1 .. 0
  BY <1>1, <1>2, WorthType
<1> HIDE DEF f, w
<1>4. \A i \in 1 .. 0 : f[i] \in Int /\ w[i] \in Int
  OBVIOUS
<1>5. Sums(f)[0] = 0 /\ Sums(w)[0] = 0
  BY <1>1, <1>3, <1>4, SumsAre
<1>6. Total(f) = Sums(f)[0] /\ Total(w) = Sums(w)[0]
  BY <1>1, <1>3, TotalIs
<1> QED BY <1>2, <1>5, <1>6

-----------------------------------------------------------------------------
(* What the short rows explain                                             *)

Worth(x) ==
    (IF x.open THEN -Posted(x.entry, x.qty) ELSE x.realised) - x.borrowed - x.tolled

LEMMA PostedType ==
    ASSUME NEW m \in Nat, NEW q \in Nat
    PROVE  Posted(m, q) \in Nat
<1>1. PICK k \in Nat : k = m * q
  OBVIOUS
<1>2. k \div 2 \in Nat
  OBVIOUS
<1> QED BY <1>1, <1>2 DEF Posted

LEMMA WorthIs ==
    ASSUME NEW x \in ShortT
    PROVE  Worth(x) \in Int
<1>1. x.qty \in Nat /\ x.entry \in Nat /\ x.realised \in Int /\ x.borrowed \in Int /\ x.tolled \in Int
  BY DEF ShortT
<1>2. PICK p \in Int : p = Posted(x.entry, x.qty)
  <2>1. Posted(x.entry, x.qty) \in Nat
    BY <1>1, PostedType
  <2> QED BY <2>1
<1>3. PICK k \in Int : k = IF x.open THEN -p ELSE x.realised
  BY <1>1
<1> QED BY <1>1, <1>2, <1>3 DEF Worth

LEMMA ShortsAre ==
    ASSUME NEW n \in Nat, NEW s \in [1 .. n -> ShortT]
    PROVE  /\ DOMAIN ShortsExplained(s) = 1 .. n
           /\ \A i \in 1 .. n : /\ ShortsExplained(s)[i] \in Int
                                /\ ShortsExplained(s)[i] = Worth(s[i])
           /\ Total(ShortsExplained(s)) \in Int
<1>1. ShortsExplained(s) = [i \in 1 .. n |-> Worth(s[i])]
  BY DEF ShortsExplained, Worth
<1>2. \A i \in 1 .. n : Worth(s[i]) \in Int
  BY WorthIs
<1>3. /\ DOMAIN ShortsExplained(s) = 1 .. n
      /\ \A i \in 1 .. n : /\ ShortsExplained(s)[i] \in Int
                           /\ ShortsExplained(s)[i] = Worth(s[i])
  BY <1>1, <1>2
<1>4. Total(ShortsExplained(s)) \in Int
  BY <1>3, TotalType
<1> QED BY <1>3, <1>4

LEMMA NoShorts == Total(ShortsExplained(<< >>)) = 0
<1> DEFINE s == << >>
           w == ShortsExplained(s)
<1>1. 0 \in Nat /\ s \in [1 .. 0 -> ShortT]
  OBVIOUS
<1>2. DOMAIN w = 1 .. 0
  BY <1>1, ShortsAre
<1> HIDE DEF w
<1>3. \A i \in 1 .. 0 : w[i] \in Int
  OBVIOUS
<1>4. Sums(w)[0] = 0 /\ Total(w) = Sums(w)[0]
  BY <1>1, <1>2, <1>3, SumsAre, TotalIs
<1> QED BY <1>4 DEF w

LEMMA SeqIsFunction ==
    ASSUME NEW S, NEW s \in Seq(S)
    PROVE  Len(s) \in Nat /\ s \in [1 .. Len(s) -> S] /\ DOMAIN s = 1 .. Len(s)
  OBVIOUS

LEMMA FunctionIsSeq ==
    ASSUME NEW S, NEW n \in Nat, NEW f \in [1 .. n -> S]
    PROVE  f \in Seq(S) /\ Len(f) = n
  OBVIOUS

LEMMA Appended ==
    ASSUME NEW S, NEW s \in Seq(S), NEW x \in S
    PROVE  /\ Append(s, x) \in Seq(S) /\ Len(Append(s, x)) = Len(s) + 1
           /\ Append(s, x)[Len(s) + 1] = x
           /\ \A j \in 1 .. Len(s) : Append(s, x)[j] = s[j]
  OBVIOUS

\* A short row more adds what it is worth.
LEMMA ShortBegun ==
    ASSUME NEW n \in Nat, NEW s \in [1 .. n -> ShortT], NEW x \in ShortT,
           NEW g \in [1 .. n + 1 -> ShortT], \A i \in 1 .. n : g[i] = s[i], g[n + 1] = x
    PROVE  Total(ShortsExplained(g)) = Total(ShortsExplained(s)) + Worth(x)
<1>1. PICK v : v = ShortsExplained(s)
  OBVIOUS
<1>2. PICK w : w = ShortsExplained(g)
  OBVIOUS
<1>3. DOMAIN v = 1 .. n /\ \A i \in 1 .. n : v[i] = Worth(s[i])
  BY <1>1, ShortsAre
<1>4. /\ n + 1 \in Nat /\ DOMAIN w = 1 .. n + 1
      /\ \A i \in 1 .. n + 1 : w[i] \in Int /\ w[i] = Worth(g[i])
  <2>1. PICK m \in Nat : m = n + 1
    OBVIOUS
  <2>2. g \in [1 .. m -> ShortT]
    BY <2>1
  <2>3. DOMAIN w = 1 .. m /\ \A i \in 1 .. m : w[i] \in Int /\ w[i] = Worth(g[i])
    BY <1>2, <2>2, ShortsAre
  <2> QED BY <2>1, <2>3
<1>5. n + 1 \in 1 .. n + 1 /\ \A i \in 1 .. n : i \in 1 .. n + 1
  OBVIOUS
<1>6. \A i \in 1 .. n : w[i] = v[i]
  BY <1>3, <1>4, <1>5
<1>7. Total(w) = Total(v) + w[n + 1]
  BY <1>3, <1>4, <1>6, TotalMore DEF Longer
<1>8. w[n + 1] = Worth(x)
  BY <1>4, <1>5
<1> QED BY <1>1, <1>2, <1>7, <1>8

\* Rows that change add what they change by.
LEMMA ShortsChange ==
    ASSUME NEW n \in Nat, NEW s \in [1 .. n -> ShortT], NEW g \in [1 .. n -> ShortT],
           NEW d, DOMAIN d = 1 .. n,
           \A i \in 1 .. n : d[i] \in Int /\ Worth(g[i]) = Worth(s[i]) + d[i]
    PROVE  Total(d) \in Int /\ Total(ShortsExplained(g)) = Total(ShortsExplained(s)) + Total(d)
<1>1. PICK v : v = ShortsExplained(s)
  OBVIOUS
<1>2. PICK w : w = ShortsExplained(g)
  OBVIOUS
<1>3. DOMAIN v = 1 .. n /\ \A i \in 1 .. n : v[i] \in Int /\ v[i] = Worth(s[i])
  BY <1>1, ShortsAre
<1>4. DOMAIN w = 1 .. n /\ \A i \in 1 .. n : w[i] \in Int /\ w[i] = Worth(g[i])
  BY <1>2, ShortsAre
<1>5. \A i \in 1 .. n : w[i] = v[i] + 1 * d[i]
  BY <1>3, <1>4
<1>6. Combined(n, w, v, 1, d)
  BY <1>3, <1>4, <1>5 DEF Combined
<1>7. Total(w) = Total(v) + 1 * Total(d)
  BY <1>6, TotalLinear
<1>8. Total(d) \in Int
  BY TotalType
<1> QED BY <1>1, <1>2, <1>7, <1>8

-----------------------------------------------------------------------------
(* The steps that leave the books alone                                    *)

LEMMA InitInv == Init => IInv
<1> SUFFICES ASSUME Init PROVE IInv
  OBVIOUS
<1> USE DEF Init
<1>1. BooksTyped
  <2>1. today \in 0 .. Days /\ born \in 0 .. Days
    BY SimAssumption
  <2>2. books \in BOOLEAN
    BY Zenon
  <2>3. cash \in Int /\ held \in Nat /\ lot \in Nat /\ resting \subseteq Request
        /\ overtaken \subseteq {"cash", "shares"} /\ (lot = 0 => held = 0)
    OBVIOUS
  <2>4. trades \in Seq(Rows) /\ Booked(trades, Len(trades)) /\ shorts \in Seq(ShortT)
    BY EmptyBook
  <2> QED BY <2>1, <2>2, <2>3, <2>4 DEF BooksTyped
<1>2. CallsTyped
  BY IdleType DEF CallsTyped
<1>3. Fits
  <2>1. Acting = {}
    BY IdleType DEF Acting, Fills
  <2>2. Cardinality({}) = 0 /\ Len(<< >>) = 0
    BY FS_EmptySet
  <2> QED BY <2>1, <2>2, SimAssumption DEF Fits
<1>4. Numbered
  <2>1. DOMAIN trades = {}
    OBVIOUS
  <2> QED BY <2>1 DEF Numbered
<1>5. Emptied
  BY IdleType DEF Emptied, InTransaction
<1>6. Accounts
  <2>1. LotsAgree
    BY NoRows DEF LotsAgree
  <2>2. CashIsExplained
    BY DEF CashIsExplained
  <2> QED BY <2>1, <2>2 DEF Accounts
<1> QED BY <1>1, <1>2, <1>3, <1>4, <1>5, <1>6 DEF IInv

\* A new portfolio starts with the capital and nothing else.
LEMMA Ensured ==
    ASSUME IInv, EnsurePortfolio, UNCHANGED <<held, lot, trades, shorts, resting, overtaken, today>>
    PROVE  BooksTyped' /\ Numbered' /\ Emptied' /\ Accounts' /\ books'
<1>1. Start \in Int
  BY SimAssumption
<1>2. books' = TRUE /\ cash' \in Int /\ born' \in 0 .. Days
  BY <1>1 DEF IInv, BooksTyped, EnsurePortfolio
<1>3. BooksTyped'
  BY <1>2 DEF IInv, BooksTyped
<1>4. Numbered' /\ Emptied' /\ LotsAgree'
  BY <1>2 DEF IInv, Numbered, Emptied, Accounts, LotsAgree, ClosedByHand
<1>5. CashIsExplained'
  <2>1. CASE books
    BY <2>1 DEF EnsurePortfolio, IInv, Accounts, CashIsExplained, ClosedByHand
  <2>2. CASE ~books
    <3>1. trades' = << >> /\ shorts' = << >> /\ cash' = Start
      BY <2>2 DEF EnsurePortfolio, IInv, Emptied
    <3> QED BY <1>1, <3>1, NoRows, NoShorts DEF CashIsExplained
  <2> QED BY <2>1, <2>2
<1> QED BY <1>2, <1>3, <1>4, <1>5 DEF Accounts

LEMMA CopyType ==
    ASSUME BooksTyped
    PROVE  Portfolio \in Copies
  BY DEF Portfolio, Copies, BooksTyped

LEMMA SubmitInv ==
    ASSUME IInv, NEW c \in Calls, NEW r \in Requests, Submit(c, r)
    PROVE  IInv'
<1> USE DEF Submit
<1>1. r \in Request
  BY SimAssumption
<1>2. BooksTyped' /\ Numbered' /\ Emptied' /\ Accounts' /\ books'
  BY Ensured
<1> DEFINE new == [Idle EXCEPT !.at = "asked", !.req = r, !.copy = Portfolio']
<1>3. Portfolio' \in Copies
  BY <1>2 DEF Portfolio, Copies, BooksTyped
<1>4. new \in CallsT /\ Acts(new)
  BY <1>1, <1>3, EmptyBook DEF Idle, CallsT, Steps, Fills, Acts
<1>5. CallsTyped' /\ \A d \in Calls \ {c} : call'[d] = call[d]
  BY <1>4, CallGoes DEF IInv, Asks
<1>6. Fits'
  BY <1>5, StartFits DEF MayBegin
<1> QED BY <1>2, <1>5, <1>6 DEF IInv

LEMMA CreateInv ==
    ASSUME IInv, NEW c \in Calls, CreatePortfolio(c)
    PROVE  IInv'
<1> USE DEF CreatePortfolio
<1>1. BooksTyped' /\ Numbered' /\ Emptied' /\ Accounts' /\ books'
  BY Ensured
<1>2. CallsTyped' /\ Acting' \in SUBSET Acting
  BY CallLeaves DEF IInv
<1>3. Fits'
  BY <1>2, Sizes, RestFits DEF IInv
<1> QED BY <1>1, <1>2, <1>3 DEF IInv

LEMMA ResetInv ==
    ASSUME IInv, NEW c \in Calls, Reset(c)
    PROVE  IInv'
<1> USE DEF Reset
<1>1. BooksTyped'
  <2>1. today' \in 0 .. Days /\ born' \in 0 .. Days
    BY DEF IInv, BooksTyped
  <2>2. books' \in BOOLEAN
    BY Zenon
  <2>3. cash' \in Int /\ held' \in Nat /\ lot' \in Nat /\ resting' \subseteq Request
        /\ overtaken' \subseteq {"cash", "shares"} /\ (lot' = 0 => held' = 0)
    OBVIOUS
  <2>4. trades' \in Seq(Rows) /\ Booked(trades', Len(trades')) /\ shorts' \in Seq(ShortT)
    BY EmptyBook
  <2> QED BY <2>1, <2>2, <2>3, <2>4 DEF BooksTyped
<1>2. ASSUME NEW d \in Calls
      PROVE  /\ call'[d] \in CallsT /\ Acts(call'[d])
             /\ call'[d].copy = None \/ call'[d].at = "asked"
             /\ call'[d].at \in Fills \cup {"asked"} => call[d].at \in Fills \cup {"asked"}
  <2>1. call[d] \in CallsT /\ Acts(call[d])
    BY DEF IInv, CallsTyped
  <2>2. CASE d = c
    <3> DEFINE new == [Idle EXCEPT !.at = "creating"]
    <3>1. new \in CallsT /\ new.at = "creating" /\ new.seen = << >> /\ new.copy = None
      BY EmptyBook DEF Idle, CallsT, Steps
    <3>2. call'[d] = new
      BY <2>2
    <3> HIDE DEF new
    <3> QED BY <3>1, <3>2, EmptyBook DEF Acts, Fills
  <2>3. CASE d # c /\ InTransaction(d)
    <3>1. call'[d] = Idle
      BY <2>3
    <3> QED BY <3>1, IdleType DEF Fills
  <2>4. CASE d # c /\ ~InTransaction(d)
    <3> DEFINE new == [call[d] EXCEPT !.seen = << >>]
    <3>1. /\ new \in CallsT /\ new.at = call[d].at /\ new.seen = << >> /\ new.copy = call[d].copy
          /\ new.req = call[d].req /\ new.mark = call[d].mark
      BY <2>1, EmptyBook DEF CallsT
    <3>2. call'[d] = new
      BY <2>4
    <3> HIDE DEF new
    <3>3. new.copy = None \/ new.at = "asked"
      BY <2>4, <3>1 DEF InTransaction
    <3>4. Acts(new)
      BY <2>1, <3>1, <3>3, EmptyBook DEF Acts
    <3> QED BY <3>1, <3>2, <3>3, <3>4
  <2> QED BY <2>2, <2>3, <2>4
<1>3. CallsTyped'
  <2>1. call' = [d \in Calls |-> call'[d]]
    OBVIOUS
  <2> QED BY <1>2, <2>1 DEF CallsTyped
<1>4. Acting' \in SUBSET Acting
  BY <1>2 DEF Acting
<1>5. Fits'
  <2>1. Len(trades') = 0 /\ Len(shorts') = 0
    OBVIOUS
  <2> QED BY <1>4, <2>1, Sizes, RestFits DEF IInv
<1>6. Numbered' /\ Emptied'
  <2>1. DOMAIN trades' = {}
    OBVIOUS
  <2>2. \A d \in Calls : ~InTransaction(d)'
    BY <1>2 DEF InTransaction
  <2> QED BY <2>1, <2>2 DEF Numbered, Emptied
<1>7. Accounts'
  <2>1. LotsAgree'
    BY NoRows DEF LotsAgree
  <2>2. CashIsExplained'
    BY DEF CashIsExplained
  <2> QED BY <2>1, <2>2 DEF Accounts
<1> QED BY <1>1, <1>3, <1>5, <1>6, <1>7 DEF IInv

LEMMA LeaveInv ==
    ASSUME IInv, NEW c \in Calls, GiveUp(c) \/ RestOrder(c)
    PROVE  IInv'
<1>1. /\ UNCHANGED <<books, cash, held, lot, trades, shorts, overtaken, today, born>> /\ Leave(c)
      /\ resting' = resting \/ (call[c].at = "asked" /\ resting' = {call[c].req})
  BY DEF GiveUp, RestOrder, ledger
<1>2. resting' \subseteq Request
  BY <1>1 DEF IInv, BooksTyped, CallsTyped, Acts
<1>3. /\ CallsTyped' /\ Acting' \in SUBSET Acting
      /\ call'[c] = Idle /\ \A d \in Calls \ {c} : call'[d] = call[d]
  BY <1>1, CallLeaves DEF IInv
<1>4. Fits'
  BY <1>1, <1>3, Sizes, RestFits DEF IInv
<1> QED BY <1>1, <1>2, <1>3, <1>4, IdleType, SameBooks

LEMMA FillInv ==
    ASSUME IInv, NEW c \in Calls, NEW o \in resting, FillResting(c, o)
    PROVE  IInv'
<1> USE DEF FillResting
<1> DEFINE r == [o EXCEPT !.rests = FALSE]
           new == [Idle EXCEPT !.at = "asked", !.req = r, !.copy = Portfolio]
<1>1. r \in Request
  <2>1. o \in Request
    BY DEF IInv, BooksTyped
  <2> QED BY <2>1 DEF Request
<1>2. call' = [call EXCEPT ![c] = new]
  BY DEF Asks
<1> HIDE DEF r
<1>3. new \in CallsT /\ Acts(new)
  BY <1>1, CopyType, EmptyBook DEF Idle, CallsT, Steps, Fills, Acts, IInv
<1> HIDE DEF new
<1>4. CallsTyped' /\ call'[c] = new /\ \A d \in Calls \ {c} : call'[d] = call[d]
  BY <1>2, <1>3, CallGoes DEF IInv
<1>5. Fits'
  BY <1>4, StartFits DEF MayBegin
<1>6. resting' \subseteq Request
  BY DEF IInv, BooksTyped
<1> QED BY <1>4, <1>5, <1>6, SameBooks

LEMMA DecideInv ==
    ASSUME IInv, NEW c \in Calls, NEW m \in Prices, Decide(c, m)
    PROVE  IInv'
<1>1. PICK at \in Fills :
          /\ call' = [call EXCEPT ![c] =
                 [at |-> at, req |-> call[c].req, copy |-> None, seen |-> trades, mark |-> m]]
          /\ at = "buying" => call[c].req.side = "buy"
          /\ at = "selling" => call[c].req.side = "sell"
  BY DEF Decide, Fills
<1>2. /\ m \in Nat /\ c \in Acting /\ call[c].req \in Request
      /\ trades \in Seq(Rows) /\ Booked(trades, Len(trades))
  BY SimAssumption DEF Decide, Acting, Acts, IInv, CallsTyped, BooksTyped
<1> DEFINE new == [at |-> at, req |-> call[c].req, copy |-> None, seen |-> trades, mark |-> m]
<1>3. /\ new \in CallsT /\ new.at = at /\ new.mark = m /\ new.req = call[c].req
      /\ new.seen = trades /\ new.copy = None
  BY <1>2 DEF CallsT, Steps
<1> HIDE DEF new
<1>4. Acts(new)
  BY <1>1, <1>2, <1>3 DEF Acts, Fills
<1>5. CallsTyped' /\ call'[c] = new /\ \A d \in Calls \ {c} : call'[d] = call[d]
  BY <1>1, <1>3, <1>4, CallGoes DEF IInv, new
<1>6. Acting' \in SUBSET Acting
  BY <1>2, <1>5 DEF Acting
<1>7. UNCHANGED <<books, cash, held, lot, trades, shorts, overtaken, resting, today, born>>
  BY DEF Decide, ledger
<1>8. Fits' /\ resting' \subseteq Request
  BY <1>6, <1>7, Sizes, RestFits DEF IInv, BooksTyped
<1> QED BY <1>3, <1>5, <1>7, <1>8, SameBooks

LEMMA OpenInv ==
    ASSUME IInv, NEW c \in Calls, OpenFill(c)
    PROVE  IInv'
<1> DEFINE new == [call[c] EXCEPT !.copy = Portfolio]
<1>1. call[c] \in CallsT /\ Acts(call[c]) /\ call[c].at \in Fills /\ books
  BY DEF OpenFill, IInv, CallsTyped
<1>2. /\ new \in CallsT /\ new.at = call[c].at /\ new.mark = call[c].mark
      /\ new.req = call[c].req /\ new.seen = call[c].seen
  BY <1>1, CopyType DEF CallsT, IInv
<1>3. call' = [call EXCEPT ![c] = new]
  BY DEF OpenFill, IInv, CallsTyped
<1> HIDE DEF new
<1>4. Acts(new)
  BY <1>1, <1>2 DEF Acts, Fills
<1>5. CallsTyped' /\ call'[c] = new /\ \A d \in Calls \ {c} : call'[d] = call[d]
  BY <1>2, <1>3, <1>4, CallGoes DEF IInv
<1>6. Acting' \in SUBSET Acting
  BY <1>1, <1>5 DEF Acting
<1>7. UNCHANGED <<books, cash, held, lot, trades, shorts, overtaken, resting, today, born>>
  BY DEF OpenFill, ledger
<1>8. Fits' /\ resting' \subseteq Request
  BY <1>6, <1>7, Sizes, RestFits DEF IInv, BooksTyped
<1> QED BY <1>1, <1>5, <1>7, <1>8, SameBooks

\* A pass, or a close by hand, reads.
LEMMA BeginInv ==
    ASSUME IInv, NEW c \in Calls, NEW at \in {"outcomes", "closing", "shorts"},
           NEW seen \in Seq(Rows), Booked(seen, Len(seen)), NEW mark \in Nat \cup {None},
           at = "closing" => mark \in DOMAIN seen, Begins(c, at, seen, mark)
    PROVE  IInv'
<1> DEFINE new == [at |-> at, req |-> None, copy |-> Portfolio, seen |-> seen, mark |-> mark]
<1>1. /\ new \in CallsT /\ new.at = at /\ new.mark = mark /\ new.seen = seen
  BY CopyType DEF CallsT, Steps, IInv
<1>2. call' = [call EXCEPT ![c] = new] /\ books
  BY DEF Begins
<1> HIDE DEF new
<1>3. Acts(new)
  BY <1>1 DEF Acts, Fills
<1>4. CallsTyped' /\ call'[c] = new /\ \A d \in Calls \ {c} : call'[d] = call[d]
  BY <1>1, <1>2, <1>3, CallGoes DEF IInv
<1>5. Acting' \in SUBSET Acting
  BY <1>1, <1>4 DEF Acting, Fills
<1>6. UNCHANGED <<books, cash, held, lot, trades, shorts, overtaken, resting, today, born>>
  BY DEF Begins, ledger
<1>7. Fits' /\ resting' \subseteq Request
  BY <1>5, <1>6, Sizes, RestFits DEF IInv, BooksTyped
<1> QED BY <1>2, <1>4, <1>6, <1>7, SameBooks

LEMMA ReadInv ==
    ASSUME IInv, NEW c \in Calls,
           ReadLots(c) \/ ReadShorts(c) \/ \E i \in DOMAIN trades : ReadForClose(c, i)
    PROVE  IInv'
<1>1. trades \in Seq(Rows) /\ Booked(trades, Len(trades)) /\ today \in Nat /\ DOMAIN trades \in SUBSET Nat
  BY SimAssumption DEF IInv, BooksTyped
<1>2. CASE ReadLots(c)
  BY <1>1, <1>2, BeginInv DEF ReadLots
<1>3. CASE ReadShorts(c)
  BY <1>1, <1>3, EmptyBook, BeginInv DEF ReadShorts
<1>4. CASE \E i \in DOMAIN trades : ReadForClose(c, i)
  BY <1>1, <1>4, BeginInv DEF ReadForClose
<1> QED BY <1>2, <1>3, <1>4

\* Steps of no thread.
LEMMA IdleInv ==
    ASSUME IInv, (\E o \in resting : Withdraw(o)) \/ NextDay \/ UNCHANGED vars
    PROVE  IInv'
<1>1. /\ UNCHANGED <<books, cash, held, lot, trades, shorts, overtaken, born, call>>
      /\ resting' \subseteq resting /\ today' \in 0 .. Days
  BY Sizes DEF Withdraw, NextDay, vars, ledger, IInv, BooksTyped
<1>2. BooksTyped'
  BY <1>1 DEF IInv, BooksTyped
<1>3. Numbered' /\ Accounts'
  BY <1>1 DEF IInv, Numbered, Accounts, LotsAgree, CashIsExplained, ClosedByHand
<1>4. CallsTyped' /\ Acting' = Acting
  BY <1>1 DEF IInv, CallsTyped, Acting
<1>5. Fits'
  BY <1>1, <1>4 DEF IInv, Fits
<1>6. Emptied'
  BY <1>1 DEF IInv, Emptied, InTransaction
<1> QED BY <1>2, <1>3, <1>4, <1>5, <1>6 DEF IInv

-----------------------------------------------------------------------------
(* Commits                                                                 *)

\* A commit ends a call that has read a portfolio.
LEMMA CommitEnds ==
    ASSUME IInv, NEW c \in Calls, NEW at, Commits(c, at)
    PROVE  /\ books /\ call[c].at = at /\ call[c] \in CallsT /\ Acts(call[c])
           /\ call[c].copy \in Copies
           /\ call[c].seen \in Seq(Rows) /\ Booked(call[c].seen, Len(call[c].seen))
           /\ CallsTyped' /\ Acting' \in SUBSET (Acting \ {c}) /\ Acting' \in SUBSET Acting
<1>1. Leave(c) /\ InTransaction(c) /\ call[c].at = at
  BY DEF Commits
<1>2. books
  BY <1>1 DEF IInv, Emptied
<1>3. call[c] \in CallsT /\ Acts(call[c])
  BY DEF IInv, CallsTyped
<1>4. call[c].copy \in Copies /\ call[c].seen \in Seq(Rows)
  BY <1>1, <1>3 DEF InTransaction, CallsT
<1>5. CallsTyped' /\ Acting' \in SUBSET (Acting \ {c})
  BY <1>1, CallLeaves DEF IInv
<1> QED BY <1>1, <1>2, <1>3, <1>4, <1>5 DEF Acts

\* Nobody has committed since the transaction read.
LEMMA SharesFresh ==
    ASSUME NEW c, SharesOvertaken(c) = {}
    PROVE  call[c].copy.held = held /\ call[c].copy.lot = lot /\ call[c].seen = trades
  BY DEF SharesOvertaken

LEMMA CashFresh ==
    ASSUME NEW c, CashOvertaken(c) = {}
    PROVE  call[c].copy.cash = cash /\ call[c].copy.shorts = shorts
  BY DEF CashOvertaken

LEMMA Overtakes ==
    ASSUME NEW c
    PROVE  CashOvertaken(c) \in {{}, {"cash"}} /\ SharesOvertaken(c) \in {{}, {"shares"}}
  BY DEF CashOvertaken, SharesOvertaken

LEMMA CashWritten ==
    ASSUME BooksTyped, NEW c, NEW new \in Int, WriteCash(c, new)
    PROVE  cash' \in Int /\ (CashOvertaken(c) = {} => cash' = new)
  BY CashFresh DEF WriteCash, BooksTyped

LEMMA SharesAdded ==
    ASSUME BooksTyped, NEW c, call[c].copy \in Copies, NEW q \in Nat, AddShares(c, q)
    PROVE  /\ held' \in Nat /\ lot' \in Nat /\ (lot' = 0 => held' = 0)
           /\ SharesOvertaken(c) = {} => held' = held + q
<1>1. /\ held \in Nat /\ lot \in Nat /\ (lot = 0 => held = 0) /\ Len(trades) \in Nat
      /\ call[c].copy.held \in Nat /\ call[c].copy.lot \in Nat
  BY Sizes DEF BooksTyped, Copies
<1>2. CASE call[c].copy.lot = 0
  <2>1. held' = q /\ lot' = Len(trades) + 1 /\ lot = 0
    BY <1>2 DEF AddShares
  <2> QED BY <1>1, <2>1
<1>3. CASE call[c].copy.lot # 0
  <2>1. held' = call[c].copy.held + q /\ lot' = lot /\ lot = call[c].copy.lot
    BY <1>3 DEF AddShares
  <2> QED BY <1>1, <1>3, <2>1, SharesFresh
<1> QED BY <1>2, <1>3

LEMMA SharesTaken ==
    ASSUME BooksTyped, NEW c, call[c].copy \in Copies, NEW s \in Nat, TakeShares(c, s),
           s <= call[c].copy.held
    PROVE  /\ held' \in Nat /\ lot' \in Nat /\ (lot' = 0 => held' = 0)
           /\ SharesOvertaken(c) = {} => held' = held - s
<1>1. /\ held \in Nat /\ lot \in Nat /\ (lot = 0 => held = 0)
      /\ call[c].copy.held \in Nat /\ call[c].copy.lot \in Nat
      /\ (call[c].copy.lot = 0 => call[c].copy.held = 0)
  BY DEF BooksTyped, Copies
<1>2. CASE s = 0
  <2>1. held' = held /\ lot' = lot
    BY <1>2 DEF TakeShares
  <2> QED BY <1>1, <1>2, <2>1
<1>3. CASE s # 0 /\ s < call[c].copy.held
  <2>1. held' = call[c].copy.held - s /\ lot' = lot /\ lot = call[c].copy.lot
    BY <1>3 DEF TakeShares
  <2> QED BY <1>1, <1>3, <2>1, SharesFresh
<1>4. CASE s # 0 /\ ~(s < call[c].copy.held)
  <2>1. s = call[c].copy.held
    BY <1>1, <1>4
  <2>2. CASE lot = call[c].copy.lot
    <3>1. held' = 0 /\ lot' = 0
      BY <1>4, <2>2 DEF TakeShares
    <3> QED BY <1>1, <2>1, <3>1, SharesFresh
  <2>3. CASE lot # call[c].copy.lot
    <3>1. held' = held /\ lot' = lot
      BY <1>4, <2>3 DEF TakeShares
    <3> QED BY <1>1, <2>3, <3>1, SharesFresh
  <2> QED BY <2>2, <2>3
<1> QED BY <1>2, <1>3, <1>4

\* What is left to show of a commit that writes trade rows.
LEMMA TradeSide ==
    ASSUME IInv, NEW c \in Calls, NEW at, Commits(c, at),
           UNCHANGED <<books, shorts, today, born>>, resting' \subseteq resting,
           overtaken' = overtaken \cup CashOvertaken(c) \cup SharesOvertaken(c),
           cash' \in Int, held' \in Nat, lot' \in Nat, lot' = 0 => held' = 0,
           trades' \in Seq(Rows), Booked(trades', Len(trades')), Fits',
           "shares" \notin overtaken /\ SharesOvertaken(c) = {}
               => /\ \A i \in DOMAIN trades' : trades'[i].id = i
                  /\ ~ClosedByHand' => OpenQuantity(trades') = held',
           overtaken = {} /\ CashOvertaken(c) = {} /\ SharesOvertaken(c) = {} /\ ~ClosedByHand'
               => cash' = Start + Total(Explained(trades')) + Total(ShortsExplained(shorts))
    PROVE  IInv'
<1>1. books /\ CallsTyped'
  BY CommitEnds
<1>2. BooksTyped'
  BY Overtakes DEF IInv, BooksTyped
<1>3. Numbered' /\ Emptied'
  <2>1. "shares" \notin overtaken' => "shares" \notin overtaken /\ SharesOvertaken(c) = {}
    BY Overtakes
  <2> QED BY <1>1, <2>1 DEF Numbered, Emptied
<1>4. LotsAgree'
  <2>1. "shares" \notin overtaken' => "shares" \notin overtaken /\ SharesOvertaken(c) = {}
    BY Overtakes
  <2> QED BY <2>1 DEF LotsAgree
<1>5. CashIsExplained'
  <2>1. overtaken' = {} => overtaken = {} /\ CashOvertaken(c) = {} /\ SharesOvertaken(c) = {}
    OBVIOUS
  <2> QED BY <2>1 DEF CashIsExplained
<1> QED BY <1>1, <1>2, <1>3, <1>4, <1>5 DEF IInv, Accounts

\* And of one that writes short rows.
LEMMA ShortSide ==
    ASSUME IInv, NEW c \in Calls, NEW at, Commits(c, at),
           UNCHANGED <<books, held, lot, trades, resting, today, born>>,
           overtaken' = overtaken \cup CashOvertaken(c),
           cash' \in Int, shorts' \in Seq(ShortT), Fits',
           NEW d \in Int,
           CashOvertaken(c) = {} =>
               /\ cash' = cash + d
               /\ Total(ShortsExplained(shorts')) = Total(ShortsExplained(shorts)) + d
    PROVE  IInv'
<1>1. books /\ CallsTyped'
  BY CommitEnds
<1>2. BooksTyped'
  BY Overtakes DEF IInv, BooksTyped
<1>3. Numbered' /\ Emptied'
  <2>1. "shares" \notin overtaken' => "shares" \notin overtaken
    OBVIOUS
  <2> QED BY <1>1, <2>1 DEF IInv, Numbered, Emptied
<1>4. LotsAgree'
  BY DEF IInv, Accounts, LotsAgree, ClosedByHand
<1>5. CashIsExplained'
  <2> SUFFICES ASSUME overtaken' = {}, ~ClosedByHand'
               PROVE  cash' = Start + Total(Explained(trades')) + Total(ShortsExplained(shorts'))
    BY DEF CashIsExplained
  <2>1. overtaken = {} /\ CashOvertaken(c) = {} /\ ~ClosedByHand
    BY DEF ClosedByHand
  <2>2. cash = Start + Total(Explained(trades)) + Total(ShortsExplained(shorts))
    BY <1>1, <2>1 DEF IInv, Accounts, CashIsExplained
  <2>3. Start \in Int /\ Total(Explained(trades)) \in Int /\ Total(ShortsExplained(shorts)) \in Int
    <3>1. Total(ShortsExplained(shorts)) \in Int
      BY SeqIsFunction, ShortsAre DEF IInv, BooksTyped
    <3> QED BY <3>1, SimAssumption, LotsType DEF IInv, BooksTyped, Booked
  <2> QED BY <2>1, <2>2, <2>3
<1> QED BY <1>1, <1>2, <1>3, <1>4, <1>5 DEF IInv, Accounts

-----------------------------------------------------------------------------
(* Fills of the trade rows                                                 *)

LEMMA RowType ==
    ASSUME NEW r \in Request, NEW m \in Nat, Len(trades) \in Nat
    PROVE  /\ Row(r, m) \in Rows /\ Row(r, m).id = Len(trades) + 1
           /\ Row(r, m).side = r.side /\ Row(r, m).qty = r.qty /\ Row(r, m).price = m
           /\ Row(r, m).status = "open" /\ Row(r, m).closedAt = 0
           /\ r.qty \in Nat /\ r.side \in {"buy", "sell"}
  BY DEF Row, Rows, Request

(* A row whose close falls later among the rows.                           *)
Restamped(x, a) == [x EXCEPT !.closedAt = a]

LEMMA RestampedIs ==
    ASSUME NEW x \in Rows, NEW a \in Nat
    PROVE  /\ Restamped(x, a) \in Rows /\ Restamped(x, a).closedAt = a
           /\ Restamped(x, a).status = x.status
           /\ a = x.closedAt => Restamped(x, a) = x
  BY DEF Restamped, Rows

(* The rows are those of n trades and one more, filed after p of them.     *)
Files(new, n, row, p, later) ==
    /\ Booked(trades, n) /\ row \in Rows /\ row.closedAt = 0 /\ row.status = "open"
    /\ p \in 0 .. n /\ \A j \in later : j \in 1 .. n /\ trades[j].status # "open"
    /\ new = Filed(row, p, later)

AtTheEnd(n, p, later) == p = n /\ later = {}

\* A row may be filed anywhere among the others.
LEMMA FiledRows ==
    ASSUME NEW new, NEW n, NEW row, NEW p, NEW later, Files(new, n, row, p, later)
    PROVE  /\ Booked(new, n + 1)
           /\ AtTheEnd(n, p, later) => new[n + 1] = row /\ \A j \in 1 .. n : new[j] = trades[j]
<1> USE DEF Files, AtTheEnd
<1>1. n \in Nat /\ trades \in [1 .. n -> Rows] /\ Len(trades) = n /\ p \in Nat /\ p <= n
  BY DEF Booked
<1> DEFINE old(j) == IF j <= p THEN j ELSE j - 1
           at(i) == IF trades[i].closedAt > p \/ i \in later
                    THEN trades[i].closedAt + 1 ELSE trades[i].closedAt
<1>2. new = [j \in 1 .. n + 1 |-> IF j = p + 1 THEN row ELSE Restamped(trades[old(j)], at(old(j)))]
  BY <1>1 DEF Filed, Restamped
<1>3. ASSUME NEW j \in 1 .. n + 1, j # p + 1
      PROVE  /\ old(j) \in 1 .. n /\ trades[old(j)] \in Rows /\ at(old(j)) \in Nat
             /\ new[j] = Restamped(trades[old(j)], at(old(j)))
             /\ new[j] \in Rows
             /\ (new[j].closedAt = 0) <=> (new[j].status = "open")
             /\ new[j].closedAt # 0 => new[j].closedAt \in j .. n + 1
             /\ p = n /\ later = {} => new[j] = trades[j]
  <2>1. PICK i : i = old(j)
    OBVIOUS
  <2>2. i \in 1 .. n /\ (j <= p => i = j) /\ (j > p => i = j - 1 /\ i > p - 1 /\ i >= p + 1)
    BY <1>1, <1>3, <2>1
  <2>3. PICK x \in Rows : x = trades[i]
    BY <1>1, <2>2
  <2>4. x.closedAt \in Nat
    BY DEF Rows
  <2>5. /\ (x.closedAt = 0) <=> (x.status = "open")
        /\ x.closedAt # 0 => x.closedAt \in i .. n
    BY <2>2, <2>3 DEF Booked
  <2>6. PICK a : a = at(i)
    OBVIOUS
  <2>7. a = IF x.closedAt > p \/ i \in later THEN x.closedAt + 1 ELSE x.closedAt
    BY <2>3, <2>6
  <2>8. i \in later => x.status # "open"
    BY <2>3
  <2>9. a \in Nat
    BY <2>4, <2>7
  <2>10. new[j] = Restamped(x, a)
    BY <1>2, <1>3, <2>1, <2>3, <2>6
  <2>11. new[j] \in Rows /\ new[j].closedAt = a /\ new[j].status = x.status
         /\ (a = x.closedAt => new[j] = x)
    <3>1. /\ Restamped(x, a) \in Rows /\ Restamped(x, a).closedAt = a
          /\ Restamped(x, a).status = x.status
          /\ a = x.closedAt => Restamped(x, a) = x
      <4> HIDE DEF Files, AtTheEnd
      <4> QED BY <2>9, RestampedIs
    <3> HIDE DEF Files, AtTheEnd
    <3> QED BY <2>10, <3>1
  <2>12. (a = 0) <=> (x.closedAt = 0)
    BY <1>1, <2>4, <2>5, <2>7, <2>8
  <2>13. a # 0 => a \in j .. n + 1
    <3> SUFFICES ASSUME a # 0 PROVE a \in j .. n + 1
      OBVIOUS
    <3>1. x.closedAt \in i .. n
      BY <2>5, <2>12
    <3> QED BY <1>1, <2>2, <2>7, <3>1
  <2>14. p = n /\ later = {} => new[j] = trades[j]
    <3> SUFFICES ASSUME p = n, later = {} PROVE new[j] = trades[j]
      OBVIOUS
    <3>1. j <= p
      BY <1>1, <1>3
    <3>2. i = j /\ a = x.closedAt
      BY <1>1, <2>2, <2>4, <2>5, <2>7, <3>1
    <3> QED BY <2>3, <2>11, <3>2
  <2> HIDE DEF old, at
  <2>15. old(j) \in 1 .. n /\ trades[old(j)] \in Rows /\ at(old(j)) \in Nat
    BY <2>1, <2>2, <2>3, <2>6, <2>9
  <2>16. new[j] = Restamped(trades[old(j)], at(old(j)))
    BY <2>1, <2>3, <2>6, <2>10
  <2> QED BY <2>5, <2>11, <2>12, <2>13, <2>14, <2>15, <2>16
<1>4. p + 1 \in 1 .. n + 1 /\ new[p + 1] = row
  BY <1>1, <1>2
<1>5. DOMAIN new = 1 .. n + 1
  BY <1>2
<1> HIDE DEF old, at
<1>6. \A j \in 1 .. n + 1 : new[j] \in Rows
  BY <1>3, <1>4
<1>7. new \in [1 .. n + 1 -> Rows]
  <2>1. new = [j \in 1 .. n + 1 |-> new[j]]
    BY <1>2
  <2> QED BY <1>6, <2>1
<1>8. \A j \in 1 .. n + 1 : /\ (new[j].closedAt = 0) <=> (new[j].status = "open")
                            /\ new[j].closedAt # 0 => new[j].closedAt \in j .. n + 1
  BY <1>3, <1>4
<1>9. ASSUME p = n, later = {} PROVE new[n + 1] = row /\ \A j \in 1 .. n : new[j] = trades[j]
  <2>1. ASSUME NEW j \in 1 .. n PROVE new[j] = trades[j]
    <3>1. j \in 1 .. n + 1 /\ j # p + 1
      BY <1>1, <1>9
    <3> QED BY <1>3, <1>9, <3>1
  <2> QED BY <1>4, <1>9, <2>1
<1> QED BY <1>1, <1>7, <1>8, <1>9 DEF Booked

\* When nothing was committed since a call took its time, its row comes last.
LEMMA LastSpot ==
    ASSUME BooksTyped, NEW c, call[c].seen = trades
    PROVE  /\ \A p \in Spots(c) : p = Len(trades)
           /\ \A p : UnseenCloses(c, p) = {}
<1>1. DOMAIN trades = 1 .. Len(trades) /\ Len(trades) \in Nat
  BY Sizes
<1>2. \A j \in DOMAIN trades : trades[j].id \in Known(c)
  BY DEF Known
<1>3. ASSUME NEW p \in Spots(c) PROVE p = Len(trades)
  <2>1. PICK n \in Nat : n = Len(trades)
    BY <1>1
  <2>2. p \in 0 .. n /\ \A j \in 1 .. n : ~(j > p)
    <3>1. p \in 0 .. Len(trades) /\ \A j \in DOMAIN trades : ~(j > p)
      BY <1>2 DEF Spots
    <3> QED BY <1>1, <2>1, <3>1
  <2> QED BY <2>1, <2>2
<1>4. \A p : UnseenCloses(c, p) = {}
  BY DEF UnseenCloses
<1> QED BY <1>3, <1>4

LEMMA RowWritten ==
    ASSUME IInv, NEW c \in Acting, NEW at, Commits(c, at), at \in {"buying", "selling"},
           WriteRow(c), UNCHANGED shorts,
           NEW r, r = call[c].req, NEW m, m = call[c].mark, NEW n, n = Len(trades)
    PROVE  /\ r \in Request /\ m \in Nat /\ n \in Nat /\ Row(r, m).closedAt = 0
           /\ Row(r, m).side = r.side /\ Row(r, m).qty = r.qty /\ Row(r, m).price = m
           /\ trades' \in Seq(Rows) /\ trades' \in [1 .. n + 1 -> Rows]
           /\ Booked(trades', Len(trades')) /\ Fits'
           /\ SharesOvertaken(c) = {} =>
                 /\ trades'[n + 1] = Row(r, m) /\ \A j \in 1 .. n : trades'[j] = trades[j]
                 /\ ClosedByHand => ClosedByHand'
                 /\ "shares" \notin overtaken => \A i \in DOMAIN trades' : trades'[i].id = i
<1>1. Acts(call[c]) /\ call[c].at = at /\ Acting' \in SUBSET (Acting \ {c})
  BY CommitEnds DEF Acting
<1>2. r \in Request /\ m \in Nat
  BY <1>1 DEF Acts, Fills
<1>3. n \in Nat /\ Booked(trades, n) /\ DOMAIN trades = 1 .. n /\ Len(shorts) \in Nat
  BY Sizes DEF IInv, BooksTyped
<1>4. PICK row : row = Row(r, m)
  OBVIOUS
<1>5. /\ row \in Rows /\ row.id = n + 1 /\ row.side = r.side /\ row.qty = r.qty /\ row.price = m
      /\ row.status = "open" /\ row.closedAt = 0
  BY <1>2, <1>3, <1>4, RowType
<1>6. PICK p \in Spots(c) : \E later \in SUBSET UnseenCloses(c, p) : trades' = Filed(row, p, later)
  BY <1>4 DEF WriteRow
<1>7. PICK later \in SUBSET UnseenCloses(c, p) : trades' = Filed(row, p, later)
  BY <1>6
<1>8. p \in 0 .. n /\ \A j \in later : j \in 1 .. n /\ trades[j].status # "open"
  BY <1>3 DEF Spots, UnseenCloses
<1>9. PICK new : new = trades'
  OBVIOUS
<1>10. /\ Booked(new, n + 1)
       /\ AtTheEnd(n, p, later) => new[n + 1] = row /\ \A j \in 1 .. n : new[j] = trades[j]
  <2>1. Files(new, n, row, p, later)
    BY <1>3, <1>5, <1>7, <1>8, <1>9 DEF Files
  <2> QED BY <2>1, FiledRows
<1>11. new \in [1 .. n + 1 -> Rows] /\ new \in Seq(Rows) /\ Len(new) = n + 1
  <2>1. new \in [1 .. n + 1 -> Rows] /\ n + 1 \in Nat
    BY <1>3, <1>10 DEF Booked
  <2> QED BY <2>1, FunctionIsSeq
<1>12. Fits'
  BY <1>1, <1>3, <1>9, <1>11, RowFits
<1>13. ASSUME SharesOvertaken(c) = {}
       PROVE  /\ new[n + 1] = row /\ \A j \in 1 .. n : new[j] = trades[j]
              /\ ClosedByHand => ClosedByHand'
              /\ "shares" \notin overtaken => \A i \in DOMAIN new : new[i].id = i
  <2>1. call[c].seen = trades
    BY <1>13, SharesFresh
  <2>2. p = n /\ UnseenCloses(c, p) = {}
    BY <2>1, LastSpot DEF IInv
  <2>3. AtTheEnd(n, p, later)
    BY <2>2 DEF AtTheEnd
  <2>4. new[n + 1] = row /\ \A j \in 1 .. n : new[j] = trades[j]
    BY <1>10, <2>3
  <2>5. ClosedByHand => ClosedByHand'
    <3> SUFFICES ASSUME NEW i \in DOMAIN trades, trades[i].status = "closed" PROVE ClosedByHand'
      BY DEF ClosedByHand
    <3>1. i \in DOMAIN trades' /\ trades'[i].status = "closed"
      BY <1>3, <1>9, <1>11, <2>4
    <3> QED BY <3>1 DEF ClosedByHand
  <2>6. "shares" \notin overtaken => \A i \in DOMAIN new : new[i].id = i
    <3> SUFFICES ASSUME "shares" \notin overtaken, NEW i \in 1 .. n + 1 PROVE new[i].id = i
      BY <1>11
    <3>1. CASE i = n + 1
      BY <1>5, <2>4, <3>1
    <3>2. CASE i # n + 1
      <4>1. i \in 1 .. n
        BY <1>3, <3>2
      <4> QED BY <1>3, <2>4, <4>1 DEF IInv, Numbered
    <3> QED BY <3>1, <3>2
  <2> QED BY <2>4, <2>5, <2>6
<1>14. trades' \in Seq(Rows) /\ trades' \in [1 .. n + 1 -> Rows] /\ Booked(trades', Len(trades'))
  BY <1>9, <1>10, <1>11
<1>15. SharesOvertaken(c) = {} =>
          /\ trades'[n + 1] = Row(r, m) /\ \A j \in 1 .. n : trades'[j] = trades[j]
          /\ ClosedByHand => ClosedByHand'
          /\ "shares" \notin overtaken => \A i \in DOMAIN trades' : trades'[i].id = i
  BY <1>4, <1>9, <1>13
<1>16. /\ Row(r, m).closedAt = 0
       /\ Row(r, m).side = r.side /\ Row(r, m).qty = r.qty /\ Row(r, m).price = m
  BY <1>4, <1>5
<1> QED BY <1>2, <1>3, <1>12, <1>14, <1>15, <1>16

\* What the three figures are while nothing has been overtaken.
LEMMA FiguresAre ==
    ASSUME IInv
    PROVE  /\ Start \in Int /\ Toll \in Nat /\ cash \in Int /\ held \in Nat
           /\ OpenQuantity(trades) \in Nat /\ Total(Explained(trades)) \in Int
           /\ Total(ShortsExplained(shorts)) \in Int
           /\ "shares" \notin overtaken /\ ~ClosedByHand => OpenQuantity(trades) = held
           /\ books /\ overtaken = {} /\ ~ClosedByHand =>
                 cash = Start + Total(Explained(trades)) + Total(ShortsExplained(shorts))
<1>1. Start \in Int /\ Toll \in Nat /\ cash \in Int /\ held \in Nat
  BY SimAssumption DEF IInv, BooksTyped
<1>2. OpenQuantity(trades) \in Nat /\ Total(Explained(trades)) \in Int
  BY LotsType DEF IInv, BooksTyped, Booked
<1>3. Total(ShortsExplained(shorts)) \in Int
  BY SeqIsFunction, ShortsAre DEF IInv, BooksTyped
<1> QED BY <1>1, <1>2, <1>3 DEF IInv, Accounts, LotsAgree, CashIsExplained

LEMMA BuyInv ==
    ASSUME IInv, NEW c \in Calls, BookBuy(c)
    PROVE  IInv'
<1> DEFINE r == call[c].req
           m == call[c].mark
           n == Len(trades)
<1>1. /\ Commits(c, "buying") /\ WriteCash(c, call[c].copy.cash - m * r.qty - Toll)
      /\ AddShares(c, r.qty) /\ WriteRow(c)
      /\ overtaken' = overtaken \cup CashOvertaken(c) \cup SharesOvertaken(c)
      /\ UNCHANGED <<books, shorts, resting, today, born>>
  BY DEF BookBuy
<1>2. books /\ call[c].at = "buying" /\ call[c].copy \in Copies /\ r.side = "buy" /\ c \in Acting
  BY <1>1, CommitEnds DEF Acts, Acting, Fills
<1>3. /\ r \in Request /\ m \in Nat /\ n \in Nat /\ Row(r, m).closedAt = 0
      /\ Row(r, m).side = r.side /\ Row(r, m).qty = r.qty /\ Row(r, m).price = m
      /\ trades' \in Seq(Rows) /\ trades' \in [1 .. n + 1 -> Rows]
      /\ Booked(trades', Len(trades')) /\ Fits'
      /\ SharesOvertaken(c) = {} =>
            /\ trades'[n + 1] = Row(r, m) /\ \A j \in 1 .. n : trades'[j] = trades[j]
            /\ ClosedByHand => ClosedByHand'
            /\ "shares" \notin overtaken => \A i \in DOMAIN trades' : trades'[i].id = i
  BY <1>1, <1>2, RowWritten
<1> HIDE DEF r, m, n
<1>4. r.qty \in Nat /\ call[c].copy.cash \in Int
  BY <1>2, <1>3 DEF Request, Copies
<1>5. m * r.qty \in Nat
  BY <1>3, <1>4
<1>6. cash' \in Int /\ (CashOvertaken(c) = {} => cash' = cash - m * r.qty - Toll)
  <2>1. PICK new \in Int : new = call[c].copy.cash - m * r.qty - Toll
    BY <1>4, <1>5, SimAssumption
  <2> QED BY <1>1, <2>1, CashWritten, CashFresh DEF IInv
<1>7. /\ held' \in Nat /\ lot' \in Nat /\ (lot' = 0 => held' = 0)
      /\ SharesOvertaken(c) = {} => held' = held + r.qty
  BY <1>1, <1>2, <1>4, SharesAdded DEF IInv
<1>8. ASSUME SharesOvertaken(c) = {}
      PROVE  /\ OpenQuantity(trades') = OpenQuantity(trades) + r.qty
             /\ Total(Explained(trades')) = Total(Explained(trades)) - m * r.qty - Toll
  <2>1. PICK more : more = trades'
    OBVIOUS
  <2>2. /\ more \in [1 .. n + 1 -> Rows] /\ (\A j \in 1 .. n : more[j] = trades[j])
        /\ more[n + 1].closedAt = 0 /\ more[n + 1].side = "buy"
        /\ more[n + 1].qty = r.qty /\ more[n + 1].price = m
    BY <1>2, <1>3, <1>8, <2>1
  <2>3. Booked(trades, n)
    BY DEF IInv, BooksTyped, n
  <2> QED BY <2>1, <2>2, <2>3, BuyAppended
<1>9. "shares" \notin overtaken /\ SharesOvertaken(c) = {} /\ ~ClosedByHand'
          => OpenQuantity(trades') = held'
  BY <1>3, <1>7, <1>8, FiguresAre
<1>10. overtaken = {} /\ CashOvertaken(c) = {} /\ SharesOvertaken(c) = {} /\ ~ClosedByHand'
          => cash' = Start + Total(Explained(trades')) + Total(ShortsExplained(shorts))
  BY <1>2, <1>3, <1>5, <1>6, <1>8, FiguresAre
<1> QED BY <1>1, <1>3, <1>6, <1>7, <1>9, <1>10, TradeSide

LEMMA SellInv ==
    ASSUME IInv, NEW c \in Calls, BookSell(c)
    PROVE  IInv'
<1> DEFINE r == call[c].req
           m == call[c].mark
           n == Len(trades)
<1>1. PICK s : s = LesserOf(r.qty, call[c].copy.held)
  OBVIOUS
<1>2. /\ Commits(c, "selling") /\ WriteCash(c, call[c].copy.cash + m * s - Toll)
      /\ TakeShares(c, s) /\ WriteRow(c) /\ resting' \subseteq resting
      /\ overtaken' = overtaken \cup CashOvertaken(c) \cup SharesOvertaken(c)
      /\ UNCHANGED <<books, shorts, today, born>>
  BY <1>1 DEF BookSell, SoldShares, Retired
<1>3. books /\ call[c].at = "selling" /\ call[c].copy \in Copies /\ r.side = "sell" /\ c \in Acting
  BY <1>2, CommitEnds DEF Acts, Acting, Fills
<1>4. /\ r \in Request /\ m \in Nat /\ n \in Nat /\ Row(r, m).closedAt = 0
      /\ Row(r, m).side = r.side /\ Row(r, m).qty = r.qty /\ Row(r, m).price = m
      /\ trades' \in Seq(Rows) /\ trades' \in [1 .. n + 1 -> Rows]
      /\ Booked(trades', Len(trades')) /\ Fits'
      /\ SharesOvertaken(c) = {} =>
            /\ trades'[n + 1] = Row(r, m) /\ \A j \in 1 .. n : trades'[j] = trades[j]
            /\ ClosedByHand => ClosedByHand'
            /\ "shares" \notin overtaken => \A i \in DOMAIN trades' : trades'[i].id = i
  BY <1>2, <1>3, RowWritten
<1> HIDE DEF r, m, n
<1>5. r.qty \in Nat /\ call[c].copy.cash \in Int /\ call[c].copy.held \in Nat
  BY <1>3, <1>4 DEF Request, Copies
<1>6. s \in Nat /\ s <= call[c].copy.held
  BY <1>1, <1>5 DEF LesserOf
<1>7. m * s \in Nat
  BY <1>4, <1>6
<1>8. cash' \in Int /\ (CashOvertaken(c) = {} => cash' = cash + m * s - Toll)
  <2>1. PICK new \in Int : new = call[c].copy.cash + m * s - Toll
    BY <1>5, <1>7, SimAssumption
  <2> QED BY <1>2, <2>1, CashWritten, CashFresh DEF IInv
<1>9. /\ held' \in Nat /\ lot' \in Nat /\ (lot' = 0 => held' = 0)
      /\ SharesOvertaken(c) = {} => held' = held - s
  BY <1>2, <1>3, <1>6, SharesTaken DEF IInv
<1>10. ASSUME SharesOvertaken(c) = {}, OpenQuantity(trades) = held
       PROVE  /\ OpenQuantity(trades') = OpenQuantity(trades) - s
              /\ Total(Explained(trades')) = Total(Explained(trades)) + m * s - Toll
  <2>1. PICK more : more = trades'
    OBVIOUS
  <2>2. /\ more \in [1 .. n + 1 -> Rows] /\ (\A j \in 1 .. n : more[j] = trades[j])
        /\ more[n + 1].closedAt = 0 /\ more[n + 1].side # "buy"
        /\ more[n + 1].qty = r.qty /\ more[n + 1].price = m
    BY <1>3, <1>4, <1>10, <2>1
  <2>3. Booked(trades, n)
    BY DEF IInv, BooksTyped, n
  <2>4. s = LesserOf(more[n + 1].qty, OpenQuantity(trades))
    <3>1. s = LesserOf(r.qty, held)
      BY <1>1, <1>10, SharesFresh DEF r
    <3> QED BY <1>10, <2>2, <3>1
  <2>5. /\ OpenQuantity(more)
             = OpenQuantity(trades) - LesserOf(more[n + 1].qty, OpenQuantity(trades))
        /\ Total(Explained(more)) = Total(Explained(trades))
             + more[n + 1].price * LesserOf(more[n + 1].qty, OpenQuantity(trades)) - Toll
    BY <2>2, <2>3, SellAppended
  <2> QED BY <2>1, <2>2, <2>4, <2>5
<1>11. "shares" \notin overtaken /\ SharesOvertaken(c) = {} /\ ~ClosedByHand'
          => OpenQuantity(trades') = held'
  BY <1>4, <1>9, <1>10, FiguresAre
<1>12. overtaken = {} /\ CashOvertaken(c) = {} /\ SharesOvertaken(c) = {} /\ ~ClosedByHand'
          => cash' = Start + Total(Explained(trades')) + Total(ShortsExplained(shorts))
  <2> SUFFICES ASSUME overtaken = {}, CashOvertaken(c) = {}, SharesOvertaken(c) = {}, ~ClosedByHand'
               PROVE  cash' = Start + Total(Explained(trades')) + Total(ShortsExplained(shorts))
    OBVIOUS
  <2>1. ~ClosedByHand /\ "shares" \notin overtaken
    BY <1>4
  <2>2. OpenQuantity(trades) = held
    BY <2>1, FiguresAre
  <2> QED BY <1>3, <1>7, <1>8, <1>10, <2>1, <2>2, FiguresAre
<1> QED BY <1>2, <1>4, <1>8, <1>9, <1>11, <1>12, TradeSide

-----------------------------------------------------------------------------
(* The short rows                                                          *)

(* A row x that is covered, for what z says of it.                         *)
CoveredRow(x, z, m, toll) ==
    [x EXCEPT !.open = FALSE, !.realised = Gain(z, m),
              !.tolled = IF toll = 0 THEN @ ELSE z.tolled + toll]

LEMMA CoverWorth ==
    ASSUME NEW x \in ShortT, NEW z \in ShortT, NEW m \in Nat, NEW toll \in Nat
    PROVE  /\ CoveredRow(x, z, m, toll) \in ShortT /\ ComesBack(z, m, toll) \in Int
           /\ x = z /\ x.open =>
                 Worth(CoveredRow(x, z, m, toll)) = Worth(x) + ComesBack(z, m, toll)
<1>1. /\ z.qty \in Nat /\ z.entry \in Nat /\ x.borrowed \in Int /\ x.tolled \in Nat /\ z.tolled \in Nat
  BY DEF ShortT
<1>2. PICK gain \in Int : gain = Gain(z, m)
  <2>1. z.entry - m \in Int
    BY <1>1
  <2>2. (z.entry - m) * z.qty \in Int
    BY <1>1, <2>1
  <2> QED BY <2>2 DEF Gain
<1>3. PICK p \in Nat : p = Posted(z.entry, z.qty)
  BY <1>1, PostedType
<1>4. PICK t \in Nat : t = IF toll = 0 THEN x.tolled ELSE z.tolled + toll
  BY <1>1
<1>5. ComesBack(z, m, toll) = p + gain - toll
  BY <1>2, <1>3 DEF ComesBack
<1>6. PICK y : y = CoveredRow(x, z, m, toll)
  OBVIOUS
<1>7. y = [x EXCEPT !.open = FALSE, !.realised = gain, !.tolled = t]
  BY <1>2, <1>4, <1>6 DEF CoveredRow
<1>8. /\ y \in ShortT /\ y.open = FALSE /\ y.realised = gain /\ y.tolled = t
      /\ y.borrowed = x.borrowed
  BY <1>7 DEF ShortT
<1>9. ASSUME x = z, x.open PROVE Worth(y) = Worth(x) + ComesBack(z, m, toll)
  <2>1. Worth(y) = gain - x.borrowed - t
    BY <1>8 DEF Worth
  <2>2. Worth(x) = 0 - p - x.borrowed - x.tolled
    BY <1>3, <1>9 DEF Worth
  <2>3. t = x.tolled + toll
    BY <1>1, <1>4, <1>9
  <2> QED BY <1>1, <1>5, <2>1, <2>2, <2>3
<1> QED BY <1>5, <1>6, <1>8, <1>9

\* The cover of some of the rows that were open.
LEMMA CoverInv ==
    ASSUME IInv, NEW c \in Calls, NEW at, Commits(c, at), NEW m \in Nat, NEW toll \in Nat,
           NEW rows, rows \subseteq OpenShorts(call[c].copy.shorts), Cover(c, rows, m, toll),
           UNCHANGED <<books, held, lot, trades, resting, today, born>>
    PROVE  IInv'
<1>1. PICK read : read = call[c].copy.shorts
  OBVIOUS
<1>2. PICK d : d = [i \in DOMAIN read |-> IF i \in rows THEN ComesBack(read[i], m, toll) ELSE 0]
  OBVIOUS
<1>3. PICK n : n = Len(shorts)
  OBVIOUS
<1>4. /\ WriteCash(c, call[c].copy.cash + Total(d))
      /\ shorts' = [i \in DOMAIN shorts |->
             IF i \notin rows THEN shorts[i] ELSE CoveredRow(shorts[i], read[i], m, toll)]
      /\ overtaken' = overtaken \cup CashOvertaken(c)
  BY <1>1, <1>2 DEF Cover, CoveredRow
<1>5. /\ call[c].copy.cash \in Int /\ read \in Seq(ShortT) /\ Acting' \in SUBSET Acting
  BY <1>1, CommitEnds DEF Copies
<1>6. /\ n \in Nat /\ shorts \in [1 .. n -> ShortT] /\ DOMAIN shorts = 1 .. n /\ Len(trades) \in Nat
  BY <1>3, SeqIsFunction, Sizes DEF IInv, BooksTyped
<1>7. \A i \in rows : i \in DOMAIN read /\ read[i] \in ShortT /\ read[i].open
  BY <1>1, <1>5 DEF OpenShorts
<1>8. shorts' \in [1 .. n -> ShortT] /\ shorts' \in Seq(ShortT) /\ Len(shorts') = n
  <2>1. ASSUME NEW i \in 1 .. n
        PROVE  (IF i \notin rows THEN shorts[i] ELSE CoveredRow(shorts[i], read[i], m, toll)) \in ShortT
    BY <1>6, <1>7, CoverWorth
  <2>2. shorts' \in [1 .. n -> ShortT]
    BY <1>4, <1>6, <2>1
  <2> QED BY <1>6, <2>2, FunctionIsSeq
<1>9. Fits'
  BY <1>3, <1>5, <1>6, <1>8, RestFits
<1>10. Total(d) \in Int
  <2>1. PICK k \in Nat : k = Len(read) /\ DOMAIN read = 1 .. k
    BY <1>5
  <2>2. DOMAIN d = 1 .. k
    BY <1>2, <2>1
  <2>3. \A i \in 1 .. k : d[i] \in Int
    BY <1>2, <1>7, <2>1, CoverWorth
  <2> QED BY <2>2, <2>3, TotalType
<1>11. cash' \in Int /\ (CashOvertaken(c) = {} => cash' = cash + Total(d))
  <2>1. PICK new \in Int : new = call[c].copy.cash + Total(d)
    BY <1>5, <1>10
  <2> QED BY <1>4, <2>1, CashWritten, CashFresh DEF IInv
<1>12. ASSUME CashOvertaken(c) = {}
       PROVE  Total(ShortsExplained(shorts')) = Total(ShortsExplained(shorts)) + Total(d)
  <2>1. read = shorts
    BY <1>1, <1>12, CashFresh
  <2>2. PICK g \in [1 .. n -> ShortT] : g = shorts'
    BY <1>8
  <2>3. DOMAIN d = 1 .. n
    BY <1>2, <1>6, <2>1
  <2>4. ASSUME NEW i \in 1 .. n PROVE d[i] \in Int /\ Worth(g[i]) = Worth(shorts[i]) + d[i]
    <3>1. shorts[i] \in ShortT /\ Worth(shorts[i]) \in Int
      BY <1>6, WorthIs
    <3>2. CASE i \in rows
      <4>1. g[i] = CoveredRow(shorts[i], shorts[i], m, toll) /\ d[i] = ComesBack(shorts[i], m, toll)
        BY <1>2, <1>4, <1>6, <2>1, <2>2, <3>2
      <4>2. shorts[i].open
        BY <1>7, <2>1, <3>2
      <4>3. PICK x \in ShortT : x = shorts[i]
        BY <3>1
      <4>4. /\ ComesBack(x, m, toll) \in Int
            /\ Worth(CoveredRow(x, x, m, toll)) = Worth(x) + ComesBack(x, m, toll)
        BY <4>2, <4>3, CoverWorth
      <4> QED BY <4>1, <4>3, <4>4
    <3>3. CASE i \notin rows
      <4>1. g[i] = shorts[i] /\ d[i] = 0
        BY <1>2, <1>4, <1>6, <2>1, <2>2, <3>3
      <4> QED BY <3>1, <4>1
    <3> QED BY <3>2, <3>3
  <2>5. Total(ShortsExplained(g)) = Total(ShortsExplained(shorts)) + Total(d)
    BY <1>6, <2>3, <2>4, ShortsChange
  <2> QED BY <2>2, <2>5
<1> QED BY <1>4, <1>8, <1>9, <1>10, <1>11, <1>12, ShortSide

LEMMA CoversInv ==
    ASSUME IInv, NEW c \in Calls,
           \/ BookCover(c)
           \/ \E m \in Prices : EvaluateShortBrackets(c, m) \/ ForceCloseBreachedShorts(c, m)
    PROVE  IInv'
<1>1. CASE BookCover(c)
  <2>1. /\ Commits(c, "covering") /\ UNCHANGED <<books, held, lot, trades, resting, today, born>>
    BY <1>1 DEF BookCover
  <2>2. PICK i \in OpenShorts(call[c].copy.shorts) : Cover(c, {i}, call[c].mark, Toll)
    BY <1>1 DEF BookCover
  <2>3. call[c].mark \in Nat /\ Toll \in Nat
    BY <2>1, CommitEnds, SimAssumption DEF Acts, Fills
  <2>4. {i} \subseteq OpenShorts(call[c].copy.shorts)
    BY <2>2
  <2> QED BY <2>1, <2>2, <2>3, <2>4, CoverInv
<1>2. ASSUME NEW m \in Prices, EvaluateShortBrackets(c, m) \/ ForceCloseBreachedShorts(c, m)
      PROVE  IInv'
  <2>1. Commits(c, "shorts") /\ UNCHANGED <<books, held, lot, trades, resting, today, born>>
    BY <1>2 DEF EvaluateShortBrackets, ForceCloseBreachedShorts
  <2>2. PICK rows : rows \subseteq OpenShorts(call[c].copy.shorts) /\ Cover(c, rows, m, 0)
    BY <1>2 DEF EvaluateShortBrackets, ForceCloseBreachedShorts
  <2>3. m \in Nat /\ 0 \in Nat
    BY SimAssumption
  <2> QED BY <2>1, <2>2, <2>3, CoverInv
<1> QED BY <1>1, <1>2

LEMMA ShortInv ==
    ASSUME IInv, NEW c \in Calls, BookShort(c)
    PROVE  IInv'
<1>1. /\ Commits(c, "shorting") /\ overtaken' = overtaken \cup CashOvertaken(c)
      /\ UNCHANGED <<books, held, lot, trades, resting, today, born>>
  BY DEF BookShort
<1>2. PICK r \in Request : r = call[c].req
  BY <1>1, CommitEnds DEF Acts, Fills
<1>3. PICK m \in Nat : m = call[c].mark
  BY <1>1, CommitEnds DEF Acts, Fills
<1>4. PICK x : x = [open |-> TRUE, qty |-> r.qty, entry |-> m, stop |-> r.stop,
                    target |-> r.target, accrued |-> None,
                    realised |-> 0, borrowed |-> 0, tolled |-> Toll]
  OBVIOUS
<1>5. WriteCash(c, call[c].copy.cash - Posted(m, r.qty) - Toll) /\ shorts' = Append(shorts, x)
  BY <1>2, <1>3, <1>4 DEF BookShort
<1>6. /\ r.qty \in Nat /\ r.stop \in Nat \cup {None} /\ r.target \in Nat \cup {None}
      /\ Toll \in Nat
  BY SimAssumption DEF Request
<1>7. /\ x \in ShortT /\ x.open /\ x.entry = m /\ x.qty = r.qty /\ x.borrowed = 0 /\ x.tolled = Toll
  BY <1>4, <1>6 DEF ShortT
<1>8. PICK p \in Nat : p = Posted(m, r.qty)
  BY <1>6, PostedType
<1>9. Worth(x) = 0 - p - Toll /\ 0 - p - Toll \in Int
  BY <1>6, <1>7, <1>8 DEF Worth
<1>10. PICK n \in Nat : n = Len(shorts) /\ shorts \in [1 .. n -> ShortT]
  BY SeqIsFunction DEF IInv, BooksTyped
<1>11. /\ shorts' \in Seq(ShortT) /\ Len(shorts') = n + 1 /\ shorts' \in [1 .. n + 1 -> ShortT]
       /\ shorts'[n + 1] = x /\ \A i \in 1 .. n : shorts'[i] = shorts[i]
  <2>1. shorts \in Seq(ShortT)
    BY DEF IInv, BooksTyped
  <2>2. PICK g : g = shorts'
    OBVIOUS
  <2>3. /\ g \in Seq(ShortT) /\ Len(g) = n + 1 /\ g[n + 1] = x
        /\ \A i \in 1 .. n : g[i] = shorts[i]
    BY <1>5, <1>7, <1>10, <2>1, <2>2, Appended
  <2>4. g \in [1 .. n + 1 -> ShortT]
    <3>1. g \in [1 .. Len(g) -> ShortT]
      BY <2>3, SeqIsFunction
    <3> QED BY <2>3, <3>1
  <2> QED BY <2>2, <2>3, <2>4
<1>12. Fits'
  <2>1. c \in Acting /\ Acting' \in SUBSET (Acting \ {c}) /\ Len(trades) \in Nat
    BY <1>1, CommitEnds, Sizes DEF Acting, Fills, IInv
  <2> QED BY <1>1, <1>10, <1>11, <2>1, RowFits
<1>13. cash' \in Int /\ (CashOvertaken(c) = {} => cash' = cash + (0 - p - Toll))
  <2>1. call[c].copy.cash \in Int
    BY <1>1, CommitEnds DEF Copies
  <2>2. PICK new \in Int : new = call[c].copy.cash - p - Toll
    BY <1>6, <2>1
  <2>3. cash' \in Int /\ (CashOvertaken(c) = {} => cash' = new)
    BY <1>5, <1>8, <2>2, CashWritten DEF IInv
  <2> QED BY <1>6, <2>1, <2>2, <2>3, CashFresh
<1>14. Total(ShortsExplained(shorts')) = Total(ShortsExplained(shorts)) + (0 - p - Toll)
  <2>1. PICK g \in [1 .. n + 1 -> ShortT] : g = shorts'
    BY <1>11
  <2>2. g[n + 1] = x /\ \A i \in 1 .. n : g[i] = shorts[i]
    BY <1>11, <2>1
  <2>3. Total(ShortsExplained(g)) = Total(ShortsExplained(shorts)) + Worth(x)
    BY <1>7, <1>10, <2>2, ShortBegun
  <2> QED BY <1>9, <2>1, <2>3
<1> QED BY <1>1, <1>9, <1>11, <1>12, <1>13, <1>14, ShortSide

(* A row x that is charged the borrow of a day, on top of what z says.     *)
ChargedRow(x, z, day) == [x EXCEPT !.borrowed = z.borrowed + BorrowFee, !.accrued = day]

LEMMA ChargeWorth ==
    ASSUME NEW x \in ShortT, NEW z \in ShortT, NEW day \in Nat \cup {None}
    PROVE  /\ ChargedRow(x, z, day) \in ShortT /\ -BorrowFee \in Int
           /\ x = z => Worth(ChargedRow(x, z, day)) = Worth(x) + (-BorrowFee)
<1>1. BorrowFee \in Nat /\ z.borrowed \in Nat /\ x.tolled \in Int
  BY SimAssumption DEF ShortT
<1>2. PICK b \in Nat : b = z.borrowed + BorrowFee
  BY <1>1
<1>3. PICK y : y = ChargedRow(x, z, day)
  OBVIOUS
<1>4. y = [x EXCEPT !.borrowed = b, !.accrued = day]
  BY <1>2, <1>3 DEF ChargedRow
<1>5. /\ y \in ShortT /\ y.borrowed = b /\ y.tolled = x.tolled /\ y.open = x.open
      /\ y.entry = x.entry /\ y.qty = x.qty /\ y.realised = x.realised
  BY <1>4 DEF ShortT
<1>6. PICK k \in Int : k = IF x.open THEN -Posted(x.entry, x.qty) ELSE x.realised
  <2>1. x.entry \in Nat /\ x.qty \in Nat /\ x.realised \in Int
    BY DEF ShortT
  <2>2. Posted(x.entry, x.qty) \in Nat
    BY <2>1, PostedType
  <2> QED BY <2>1, <2>2
<1>7. Worth(y) = k - b - x.tolled /\ Worth(x) = k - x.borrowed - x.tolled
  BY <1>5, <1>6 DEF Worth
<1>8. x = z => Worth(y) = Worth(x) + (-BorrowFee)
  BY <1>1, <1>2, <1>7
<1> QED BY <1>1, <1>3, <1>5, <1>8

LEMMA AccrueInv ==
    ASSUME IInv, NEW c \in Calls, AccrueShortBorrow(c)
    PROVE  IInv'
<1>1. PICK read : read = call[c].copy.shorts
  OBVIOUS
<1>2. PICK due : due = {i \in OpenShorts(read) : read[i].accrued # call[c].mark}
  OBVIOUS
<1>3. PICK d : d = [i \in DOMAIN read |-> IF i \in due THEN -BorrowFee ELSE 0]
  OBVIOUS
<1>4. PICK n : n = Len(shorts)
  OBVIOUS
<1>5. PICK day : day = call[c].mark
  OBVIOUS
<1>6. /\ Commits(c, "shorts") /\ WriteCash(c, call[c].copy.cash + Total(d))
      /\ shorts' = [i \in DOMAIN shorts |->
             IF i \notin due THEN shorts[i] ELSE ChargedRow(shorts[i], read[i], day)]
      /\ overtaken' = overtaken \cup CashOvertaken(c)
      /\ UNCHANGED <<books, held, lot, trades, resting, today, born>>
  BY <1>1, <1>2, <1>3, <1>5 DEF AccrueShortBorrow, ChargedRow
<1>7. /\ call[c].copy.cash \in Int /\ read \in Seq(ShortT) /\ Acting' \in SUBSET Acting
      /\ day \in Nat \cup {None}
  BY <1>1, <1>5, <1>6, CommitEnds DEF Copies, CallsT
<1>8. /\ n \in Nat /\ shorts \in [1 .. n -> ShortT] /\ DOMAIN shorts = 1 .. n /\ Len(trades) \in Nat
  BY <1>4, SeqIsFunction, Sizes DEF IInv, BooksTyped
<1>9. \A i \in due : i \in DOMAIN read /\ read[i] \in ShortT
  BY <1>2, <1>7 DEF OpenShorts
<1>10. shorts' \in [1 .. n -> ShortT] /\ shorts' \in Seq(ShortT) /\ Len(shorts') = n
  <2>1. ASSUME NEW i \in 1 .. n
        PROVE  (IF i \notin due THEN shorts[i] ELSE ChargedRow(shorts[i], read[i], day)) \in ShortT
    BY <1>7, <1>8, <1>9, ChargeWorth
  <2>2. shorts' \in [1 .. n -> ShortT]
    BY <1>6, <1>8, <2>1
  <2> QED BY <1>8, <2>2, FunctionIsSeq
<1>11. Fits'
  BY <1>4, <1>6, <1>7, <1>8, <1>10, RestFits
<1>12. Total(d) \in Int
  <2>1. PICK k \in Nat : k = Len(read) /\ DOMAIN read = 1 .. k
    BY <1>7
  <2>2. DOMAIN d = 1 .. k /\ \A i \in 1 .. k : d[i] \in Int
    BY <1>3, <2>1, SimAssumption
  <2> QED BY <2>2, TotalType
<1>13. cash' \in Int /\ (CashOvertaken(c) = {} => cash' = cash + Total(d))
  <2>1. PICK new \in Int : new = call[c].copy.cash + Total(d)
    BY <1>7, <1>12
  <2> QED BY <1>6, <2>1, CashWritten, CashFresh DEF IInv
<1>14. ASSUME CashOvertaken(c) = {}
       PROVE  Total(ShortsExplained(shorts')) = Total(ShortsExplained(shorts)) + Total(d)
  <2>1. read = shorts
    BY <1>1, <1>14, CashFresh
  <2>2. PICK g \in [1 .. n -> ShortT] : g = shorts'
    BY <1>10
  <2>3. DOMAIN d = 1 .. n
    BY <1>3, <1>8, <2>1
  <2>4. ASSUME NEW i \in 1 .. n PROVE d[i] \in Int /\ Worth(g[i]) = Worth(shorts[i]) + d[i]
    <3>1. shorts[i] \in ShortT /\ Worth(shorts[i]) \in Int
      BY <1>8, WorthIs
    <3>2. CASE i \in due
      <4>1. g[i] = ChargedRow(shorts[i], shorts[i], day) /\ d[i] = -BorrowFee
        BY <1>3, <1>6, <1>8, <2>1, <2>2, <3>2
      <4> QED BY <1>7, <3>1, <4>1, ChargeWorth
    <3>3. CASE i \notin due
      <4>1. g[i] = shorts[i] /\ d[i] = 0
        BY <1>3, <1>6, <1>8, <2>1, <2>2, <3>3
      <4> QED BY <3>1, <4>1
    <3> QED BY <3>2, <3>3
  <2>5. Total(ShortsExplained(g)) = Total(ShortsExplained(shorts)) + Total(d)
    BY <1>8, <2>3, <2>4, ShortsChange
  <2> QED BY <2>2, <2>5
<1> QED BY <1>6, <1>10, <1>11, <1>12, <1>13, <1>14, ShortSide

-----------------------------------------------------------------------------
(* Closes                                                                  *)

(* A row that closed itself.                                               *)
ClosedRow(row, status, n, pnl) ==
    [row EXCEPT !.status = status, !.closedAt = n, !.pnl = pnl]

RowClosed(x, row, status, n, pnl) ==
    /\ x \in Rows /\ x.status = status /\ x.closedAt = n /\ x.pnl = pnl
    /\ x.side = row.side /\ x.qty = row.qty /\ x.price = row.price /\ x.id = row.id

LEMMA ClosedRowIs ==
    ASSUME NEW row \in Rows, NEW status \in {"won", "lost", "closed"}, NEW n \in Nat, NEW pnl \in Int
    PROVE  RowClosed(ClosedRow(row, status, n, pnl), row, status, n, pnl)
  BY DEF ClosedRow, RowClosed, Rows

(* The rows that a close of some of those seen writes, and what it sells.  *)
Ids(seen, sold) == {seen[i].id : i \in DOMAIN sold}
NumberOf(seen, sold, row) == CHOOSE i \in DOMAIN sold : seen[i].id = row.id
Sales(seen, sold) == [i \in DOMAIN seen |-> IF i \in DOMAIN sold THEN sold[i] ELSE 0]

CloseAt(seen, sold, m, status, p, row) ==
    IF row.id \notin Ids(seen, sold) THEN row
    ELSE ClosedRow(row, status, p, (m - row.price) * sold[NumberOf(seen, sold, row)])

LEMMA CloseRowsIs ==
    ASSUME NEW c, NEW sold, NEW m, NEW status, CloseRows(c, sold, m, status),
           NEW seen, seen = call[c].seen
    PROVE  /\ \E p \in Spots(c) :
                 trades' = [j \in DOMAIN trades |-> CloseAt(seen, sold, m, status, p, trades[j])]
           /\ WriteCash(c, call[c].copy.cash + m * Total(Sales(seen, sold)))
           /\ TakeShares(c, Total(Sales(seen, sold)))
           /\ resting' \subseteq resting
           /\ overtaken' = overtaken \cup CashOvertaken(c) \cup SharesOvertaken(c)
<1>1. \E p \in Spots(c) :
          trades' = [j \in DOMAIN trades |-> CloseAt(seen, sold, m, status, p, trades[j])]
  <2>1. \E p \in Spots(c) :
          trades' = [j \in DOMAIN trades |-> CloseAt(call[c].seen, sold, m, status, p, trades[j])]
    BY ZenonT(30) DEF CloseRows, CloseAt, Ids, NumberOf, ClosedRow
  <2> QED BY <2>1
<1>2. /\ WriteCash(c, call[c].copy.cash + m * Total(Sales(seen, sold)))
      /\ TakeShares(c, Total(Sales(seen, sold)))
      /\ resting' \subseteq resting
      /\ overtaken' = overtaken \cup CashOvertaken(c) \cup SharesOvertaken(c)
  BY DEF CloseRows, Sales, Retired
<1> QED BY <1>1, <1>2

(* What is sold are some shares of rows the call has seen.                 *)
Sells(seen, sold) ==
    /\ seen \in Seq(Rows) /\ DOMAIN sold \subseteq DOMAIN seen
    /\ \A i \in DOMAIN sold : sold[i] \in Nat

\* What is written where `row` stood: the row itself, or its close.
Closes(x, row, ids, status, p) ==
    /\ x \in Rows /\ x.id = row.id
    /\ \/ x = row
       \/ row.id \in ids /\ x.status = status /\ x.closedAt = p

\* A closed row is one the call has seen, and its close comes after it.
LEMMA CloseAtIs ==
    ASSUME NEW seen, NEW sold, Sells(seen, sold), NEW row \in Rows, NEW m \in Nat, NEW p \in Nat,
           NEW status \in {"won", "lost", "closed"}, NEW x, x = CloseAt(seen, sold, m, status, p, row)
    PROVE  Closes(x, row, Ids(seen, sold), status, p)
<1>1. CASE row.id \notin Ids(seen, sold)
  BY <1>1 DEF CloseAt, Closes
<1>2. CASE row.id \in Ids(seen, sold)
  <2>1. PICK k : k = NumberOf(seen, sold, row)
    OBVIOUS
  <2>2. k \in DOMAIN sold
    <3>1. \E i \in DOMAIN sold : seen[i].id = row.id
      BY <1>2 DEF Ids
    <3> QED BY <2>1, <3>1 DEF NumberOf
  <2>3. PICK gain \in Int : gain = (m - row.price) * sold[k]
    <3>1. sold[k] \in Int /\ m - row.price \in Int
      BY <2>2 DEF Sells, Rows
    <3> QED BY <3>1
  <2>4. x = ClosedRow(row, status, p, gain)
    BY <1>2, <2>1, <2>3 DEF CloseAt
  <2>5. RowClosed(x, row, status, p, gain)
    BY <2>4, ClosedRowIs
  <2> QED BY <1>2, <2>5 DEF RowClosed, Closes
<1> QED BY <1>1, <1>2

Own(rows, sold) ==
    DOMAIN sold \subseteq DOMAIN rows /\ \A i \in DOMAIN rows : rows[i].id = i

\* Row j of such a close.
Shut(rows, sold, m, status, p, j) ==
    IF j \notin DOMAIN sold THEN rows[j]
    ELSE ClosedRow(rows[j], status, p, (m - rows[j].price) * sold[j])

\* When the rows seen are the rows there are, each closes for its own shares.
LEMMA CloseAtOwn ==
    ASSUME NEW n, Booked(trades, n), NEW sold, Own(trades, sold),
           NEW m, NEW p, NEW status, NEW j \in 1 .. n
    PROVE  CloseAt(trades, sold, m, status, p, trades[j]) = Shut(trades, sold, m, status, p, j)
<1>1. DOMAIN trades = 1 .. n /\ trades[j].id = j /\ \A i \in DOMAIN sold : trades[i].id = i
  BY DEF Booked, Own
<1>2. trades[j].id \in Ids(trades, sold) <=> j \in DOMAIN sold
  BY <1>1 DEF Ids
<1>3. ASSUME j \in DOMAIN sold PROVE NumberOf(trades, sold, trades[j]) = j
  <2>1. \E i \in DOMAIN sold : trades[i].id = trades[j].id
    BY <1>3
  <2>2. PICK k : k = NumberOf(trades, sold, trades[j])
    OBVIOUS
  <2>3. k \in DOMAIN sold /\ trades[k].id = trades[j].id
    BY <2>1, <2>2 DEF NumberOf
  <2> QED BY <1>1, <2>2, <2>3
<1> QED BY <1>2, <1>3 DEF CloseAt, Shut

(* What a close of rows leaves of the books; for a call that nobody has    *)
(* overtaken, to the figure.                                               *)
ClosedBooks(c, n, sold, m, status, gone) ==
    /\ trades' \in Seq(Rows) /\ trades' \in [1 .. n -> Rows] /\ Booked(trades', Len(trades'))
    /\ Len(trades') = n /\ Fits'
    /\ cash' \in Int /\ held' \in Nat /\ lot' \in Nat /\ (lot' = 0 => held' = 0)
    /\ resting' \subseteq resting
    /\ overtaken' = overtaken \cup CashOvertaken(c) \cup SharesOvertaken(c)
    /\ CashOvertaken(c) = {} => cash' = cash + m * gone
    /\ SharesOvertaken(c) = {} => held' = held - gone
    /\ SharesOvertaken(c) = {} /\ "shares" \notin overtaken =>
          /\ \A i \in DOMAIN trades' : trades'[i].id = i
          /\ trades' = [j \in 1 .. n |->
                 IF j \notin DOMAIN sold THEN trades[j]
                 ELSE ClosedRow(trades[j], status, n, (m - trades[j].price) * sold[j])]

LEMMA RowsGo ==
    ASSUME IInv, NEW c \in Calls, NEW at, Commits(c, at), UNCHANGED shorts,
           NEW m \in Nat, NEW status \in {"won", "lost", "closed"},
           NEW seen, seen = call[c].seen, NEW sold, Sells(seen, sold),
           NEW gone \in Nat, gone = Total(Sales(seen, sold)), gone <= call[c].copy.held,
           NEW n, n = Len(trades), CloseRows(c, sold, m, status)
    PROVE  ClosedBooks(c, n, sold, m, status, gone)
<1>1. PICK p \in Spots(c) :
          trades' = [j \in DOMAIN trades |-> CloseAt(seen, sold, m, status, p, trades[j])]
  BY CloseRowsIs
<1>2. /\ WriteCash(c, call[c].copy.cash + m * gone) /\ TakeShares(c, gone)
      /\ resting' \subseteq resting
      /\ overtaken' = overtaken \cup CashOvertaken(c) \cup SharesOvertaken(c)
  BY CloseRowsIs
<1>3. call[c].copy \in Copies /\ call[c].copy.cash \in Int /\ Acting' \in SUBSET Acting
  BY CommitEnds DEF Copies
<1>4. /\ n \in Nat /\ Booked(trades, n) /\ DOMAIN trades = 1 .. n /\ trades \in [1 .. n -> Rows]
      /\ Len(shorts) \in Nat
  BY Sizes DEF IInv, BooksTyped, Booked
<1>5. p \in 0 .. n /\ p \in Nat /\ \A j \in 1 .. n : j > p => trades[j].id \notin Ids(seen, sold)
  <2>1. Ids(seen, sold) \subseteq Known(c)
    BY DEF Ids, Known, Sells
  <2> QED BY <1>4, <2>1 DEF Spots
<1>6. PICK closed : closed = trades'
  OBVIOUS
<1>7. ASSUME NEW j \in 1 .. n
      PROVE  /\ closed[j] \in Rows /\ closed[j].id = trades[j].id
             /\ (closed[j].closedAt = 0) <=> (closed[j].status = "open")
             /\ closed[j].closedAt # 0 => closed[j].closedAt \in j .. n
  <2>1. PICK row \in Rows : row = trades[j]
    BY <1>4
  <2>2. /\ (row.closedAt = 0) <=> (row.status = "open")
        /\ row.closedAt # 0 => row.closedAt \in j .. n
    BY <1>4, <2>1 DEF Booked
  <2>3. closed[j] = CloseAt(seen, sold, m, status, p, row)
    BY <1>1, <1>4, <1>6, <2>1
  <2>4. /\ closed[j] \in Rows /\ closed[j].id = row.id
        /\ \/ closed[j] = row
           \/ row.id \in Ids(seen, sold) /\ closed[j].status = status /\ closed[j].closedAt = p
    <3>1. PICK x : x = closed[j]
      OBVIOUS
    <3>2. p \in Nat /\ x = CloseAt(seen, sold, m, status, p, row)
      BY <1>5, <2>3, <3>1
    <3>3. Closes(x, row, Ids(seen, sold), status, p)
      BY <3>2, CloseAtIs
    <3> QED BY <3>1, <3>3 DEF Closes
  <2>5. CASE closed[j] = row
    BY <2>1, <2>2, <2>4, <2>5
  <2>6. CASE row.id \in Ids(seen, sold) /\ closed[j].status = status /\ closed[j].closedAt = p
    <3>1. ~(j > p)
      BY <1>5, <2>1, <2>6
    <3>2. p \in j .. n /\ p # 0
      BY <1>4, <1>5, <3>1
    <3> QED BY <2>1, <2>4, <2>6, <3>2
  <2> QED BY <2>4, <2>5, <2>6
<1>8. closed \in [1 .. n -> Rows]
  <2>1. closed = [j \in 1 .. n |-> closed[j]]
    BY <1>1, <1>4, <1>6
  <2> QED BY <1>7, <2>1
<1>9. closed \in Seq(Rows) /\ Len(closed) = n
  BY <1>4, <1>8, FunctionIsSeq
<1>10. Booked(closed, n)
  BY <1>4, <1>7, <1>8 DEF Booked
<1>11. Fits'
  BY <1>3, <1>4, <1>6, <1>9, RestFits
<1>12. cash' \in Int /\ (CashOvertaken(c) = {} => cash' = cash + m * gone)
  <2>1. PICK new \in Int : new = call[c].copy.cash + m * gone
    <3>1. m * gone \in Int
      OBVIOUS
    <3> QED BY <1>3, <3>1
  <2> QED BY <1>2, <2>1, CashWritten, CashFresh DEF IInv
<1>13. /\ held' \in Nat /\ lot' \in Nat /\ (lot' = 0 => held' = 0)
       /\ SharesOvertaken(c) = {} => held' = held - gone
  BY <1>2, <1>3, SharesTaken DEF IInv
<1>14. ASSUME SharesOvertaken(c) = {}, "shares" \notin overtaken
       PROVE  /\ \A i \in DOMAIN closed : closed[i].id = i
              /\ closed = [j \in 1 .. n |->
                     IF j \notin DOMAIN sold THEN trades[j]
                     ELSE ClosedRow(trades[j], status, n, (m - trades[j].price) * sold[j])]
  <2>1. seen = trades
    BY <1>14, SharesFresh
  <2>2. p = n
    BY <2>1, LastSpot DEF IInv
  <2>3. \A i \in DOMAIN trades : trades[i].id = i
    BY <1>14 DEF IInv, Numbered
  <2>4. \A i \in DOMAIN closed : closed[i].id = i
    BY <1>4, <1>7, <1>8, <2>3
  <2>5. Own(trades, sold)
    BY <2>1, <2>3 DEF Sells, Own
  <2>6. ASSUME NEW j \in 1 .. n
        PROVE  CloseAt(trades, sold, m, status, n, trades[j]) = Shut(trades, sold, m, status, n, j)
    BY <1>4, <2>5, CloseAtOwn
  <2>7. closed = [j \in 1 .. n |-> CloseAt(trades, sold, m, status, n, trades[j])]
    BY <1>1, <1>4, <1>6, <2>1, <2>2
  <2>8. closed = [j \in 1 .. n |-> Shut(trades, sold, m, status, n, j)]
    BY <2>6, <2>7
  <2> QED BY <2>4, <2>8 DEF Shut
<1>15. /\ trades' \in Seq(Rows) /\ trades' \in [1 .. n -> Rows] /\ Booked(trades', Len(trades'))
       /\ Len(trades') = n
  BY <1>6, <1>8, <1>9, <1>10
<1>16. SharesOvertaken(c) = {} /\ "shares" \notin overtaken =>
          /\ \A i \in DOMAIN trades' : trades'[i].id = i
          /\ trades' = [j \in 1 .. n |->
                 IF j \notin DOMAIN sold THEN trades[j]
                 ELSE ClosedRow(trades[j], status, n, (m - trades[j].price) * sold[j])]
  BY <1>6, <1>14
<1> QED BY <1>2, <1>11, <1>12, <1>13, <1>15, <1>16 DEF ClosedBooks

\* One row alone sells what it sells.
LEMMA OneSale ==
    ASSUME NEW n \in Nat, NEW i \in 1 .. n, NEW q \in Nat,
           NEW h, h = [j \in 1 .. n |-> IF j = i THEN q ELSE 0]
    PROVE  Total(h) = q
<1>1. DOMAIN h = 1 .. n /\ \A j \in 1 .. n : h[j] \in Int
  OBVIOUS
<1>2. /\ Sums(h) \in [0 .. n -> Int] /\ Sums(h)[0] = 0
      /\ \A j \in 1 .. n : Sums(h)[j] = Sums(h)[j - 1] + h[j]
  BY <1>1, SumsAre
<1> DEFINE G == {k \in 0 .. n : Sums(h)[k] = IF k < i THEN 0 ELSE q}
<1>3. 0 \in G
  BY <1>2
<1>4. ASSUME NEW k \in 1 .. n, k - 1 \in G PROVE k \in G
  <2>1. Sums(h)[k - 1] = IF k - 1 < i THEN 0 ELSE q
    BY <1>4
  <2>2. Sums(h)[k] = Sums(h)[k - 1] + h[k] /\ h[k] = IF k = i THEN q ELSE 0
    BY <1>2
  <2>3. Sums(h)[k] = IF k < i THEN 0 ELSE q
    BY <2>1, <2>2
  <2> QED BY <2>3
<1> HIDE DEF G
<1>5. 0 .. n \subseteq G
  BY <1>3, <1>4, UpTo
<1>6. Sums(h)[n] = q
  BY <1>5 DEF G
<1> QED BY <1>1, <1>6, TotalIs

LEMMA ManualInv ==
    ASSUME IInv, NEW c \in Calls, NEW m \in Prices, ManualClose(c, m)
    PROVE  /\ IInv'
           /\ "shares" \notin overtaken' =>
                 \A j \in DOMAIN trades :
                    trades[j].status = "open" => trades'[j].status \in {"open", "closed"}
<1>1. PICK seen : seen = call[c].seen
  OBVIOUS
<1>2. PICK i : i = call[c].mark
  OBVIOUS
<1>3. PICK q : q = LesserOf(seen[i].qty, call[c].copy.held)
  OBVIOUS
<1>4. PICK sold : sold = [j \in {i} |-> q]
  OBVIOUS
<1>5. PICK n : n = Len(trades)
  OBVIOUS
<1>6. /\ Commits(c, "closing") /\ CloseRows(c, sold, m, "closed")
      /\ UNCHANGED <<books, shorts, today, born>>
  BY <1>1, <1>2, <1>3, <1>4 DEF ManualClose
<1>7. seen \in Seq(Rows) /\ i \in DOMAIN seen /\ call[c].copy.held \in Nat
  <2>1. call[c].copy # None
    BY <1>6 DEF Commits, InTransaction
  <2> QED BY <1>1, <1>2, <1>6, <2>1, CommitEnds DEF Acts, Copies
<1>8. PICK k \in Nat : k = Len(seen) /\ DOMAIN seen = 1 .. k /\ i \in 1 .. k
  BY <1>7, SeqIsFunction
<1>9. q \in Nat /\ q <= call[c].copy.held
  <2>1. PICK row \in Rows : row = seen[i]
    BY <1>7
  <2>2. row.qty \in Nat
    BY DEF Rows
  <2> QED BY <1>3, <1>7, <2>1, <2>2 DEF LesserOf
<1>10. Sells(seen, sold) /\ DOMAIN sold = {i} /\ sold[i] = q
  BY <1>4, <1>7, <1>9 DEF Sells
<1>11. q = Total(Sales(seen, sold))
  <2>1. Sales(seen, sold) = [j \in 1 .. k |-> IF j = i THEN q ELSE 0]
    BY <1>4, <1>8, <1>10 DEF Sales
  <2>2. PICK h : h = Sales(seen, sold)
    OBVIOUS
  <2>3. h = [j \in 1 .. k |-> IF j = i THEN q ELSE 0]
    BY <2>1, <2>2
  <2>4. k \in Nat /\ i \in 1 .. k /\ q \in Nat
    BY <1>8, <1>9
  <2>5. Total(h) = q
    BY ONLY <2>3, <2>4, OneSale
  <2> QED BY <2>2, <2>5
<1>12. m \in Nat /\ "closed" \in {"won", "lost", "closed"}
  BY SimAssumption
<1>13. ClosedBooks(c, n, sold, m, "closed", q)
  BY <1>1, <1>5, <1>6, <1>9, <1>10, <1>11, <1>12, RowsGo
<1>14. n \in Nat /\ trades \in [1 .. n -> Rows] /\ DOMAIN trades = 1 .. n
  BY <1>5, Sizes DEF IInv, BooksTyped, Booked
<1>15. ASSUME SharesOvertaken(c) = {}, "shares" \notin overtaken
       PROVE  /\ ClosedByHand'
              /\ \A j \in DOMAIN trades :
                    trades[j].status = "open" => trades'[j].status \in {"open", "closed"}
  <2>1. PICK closed : closed = trades'
    OBVIOUS
  <2>2. closed = [j \in 1 .. n |->
                IF j \notin {i} THEN trades[j]
                ELSE ClosedRow(trades[j], "closed", n, (m - trades[j].price) * sold[j])]
    BY <1>10, <1>13, <1>15, <2>1 DEF ClosedBooks
  <2>3. i \in 1 .. n
    BY <1>1, <1>7, <1>14, <1>15, SharesFresh
  <2>4. closed[i].status = "closed"
    BY <1>14, <2>2, <2>3 DEF ClosedRow, Rows
  <2>5. ClosedByHand'
    BY <2>1, <2>2, <2>3, <2>4 DEF ClosedByHand
  <2>6. \A j \in 1 .. n : j # i => closed[j] = trades[j]
    BY <2>2
  <2> QED BY <1>14, <2>1, <2>4, <2>5, <2>6
<1>16. IInv'
  <2>1. /\ cash' \in Int /\ held' \in Nat /\ lot' \in Nat /\ (lot' = 0 => held' = 0)
        /\ resting' \subseteq resting
        /\ overtaken' = overtaken \cup CashOvertaken(c) \cup SharesOvertaken(c)
        /\ trades' \in Seq(Rows) /\ Booked(trades', Len(trades')) /\ Fits'
    BY <1>13 DEF ClosedBooks
  <2>2. "shares" \notin overtaken /\ SharesOvertaken(c) = {}
            => (\A j \in DOMAIN trades' : trades'[j].id = j) /\ ClosedByHand'
    BY <1>13, <1>15 DEF ClosedBooks
  <2> QED BY <1>6, <2>1, <2>2, TradeSide
<1>17. "shares" \notin overtaken' => "shares" \notin overtaken /\ SharesOvertaken(c) = {}
  BY <1>13, Overtakes DEF ClosedBooks
<1> QED BY <1>15, <1>16, <1>17

(* t is what a sell of q takes from the lots.                              *)
Takes(n, t, lots, q) ==
    /\ n \in Nat /\ lots \in [1 .. n -> LotT]
    /\ t = [j \in 1 .. n |-> Taken(lots, j, q)]

LEMMA TakesSums ==
    ASSUME NEW n, NEW t, NEW lots, NEW q \in Nat, Takes(n, t, lots, q)
    PROVE  /\ \A j \in 1 .. n : t[j] \in Nat
           /\ \A k \in 0 .. n : Sums(t)[k] = LesserOf(q, Sums(OpenIn(lots))[k])
<1>1. n \in Nat /\ lots \in [1 .. n -> LotT] /\ t = [j \in 1 .. n |-> Taken(lots, j, q)]
  BY DEF Takes
<1> QED BY <1>1, TakenSums

LEMMA TakesAll ==
    ASSUME NEW n, NEW t, NEW lots, NEW q, Takes(n, t, lots, q), q = Total(OpenIn(lots))
    PROVE  Total(t) = q /\ \A j \in 1 .. n : t[j] = lots[j].open
<1>1. n \in Nat /\ lots \in [1 .. n -> LotT] /\ t = [j \in 1 .. n |-> Taken(lots, j, q)]
  BY DEF Takes
<1> QED BY <1>1, TakenAll

\* What a sweep has before it: the live lots, and what it takes of each.
Sweeps(n, rows, lots, left, K, t) ==
    /\ lots = LiveLots(rows) /\ K \in [1 .. n -> LotT] /\ Takes(n, t, K, left)
    /\ \A j \in 1 .. n : K[j].open = IF j \in lots THEN Lots(rows)[j].open ELSE 0

Swept(n, rows, lots, left, t) ==
    /\ lots \subseteq {j \in 1 .. n : rows[j].side = "buy" /\ rows[j].closedAt = 0
                                      /\ rows[j].status = "open"}
    /\ \A j \in (1 .. n) \ lots : Lots(rows)[j].open = 0
    /\ \A j \in 1 .. n : t[j] \in Nat
    /\ Total(t) \in Nat /\ Total(t) <= left
    /\ left = OpenQuantity(rows) =>
          Total(t) = left /\ \A j \in 1 .. n : t[j] = Lots(rows)[j].open

\* The sweep closes every lot that has shares: what each sells, and what is left.
LEMMA LotsSold ==
    ASSUME NEW n, NEW rows, Booked(rows, n), NEW lots, NEW left \in Nat, NEW K, NEW t,
           Sweeps(n, rows, lots, left, K, t)
    PROVE  Swept(n, rows, lots, left, t)
<1> USE DEF Sweeps, Swept
<1> DEFINE L == Lots(rows)
<1>1. n \in Nat /\ rows \in [1 .. n -> Rows] /\ L \in [1 .. n -> LotT]
  BY LotsType DEF Booked
<1>2. OpenOf(rows) = [j \in 1 .. n |-> L[j].open]
  BY <1>1 DEF OpenOf, OpenIn
<1>3. /\ lots \subseteq {j \in 1 .. n : rows[j].side = "buy" /\ rows[j].status = "open"}
      /\ \A j \in (1 .. n) \ lots : rows[j].side # "buy" \/ rows[j].status # "open" \/ ~(L[j].open > 0)
  <2> HIDE DEF L
  <2> QED BY <1>1, <1>2 DEF LiveLots
<1>4. lots \subseteq {j \in 1 .. n : rows[j].side = "buy" /\ rows[j].closedAt = 0
                                     /\ rows[j].status = "open"}
  BY <1>3 DEF Booked
<1>5. L = LotsAfter(rows)[n]
  BY <1>1, LotsGo
<1>6. ASSUME NEW j \in (1 .. n) \ lots PROVE L[j].open = 0
  <2>1. CASE rows[j].side # "buy"
    BY <1>1, <1>5, <2>1, EmptyLots
  <2>2. CASE rows[j].side = "buy" /\ rows[j].status # "open"
    <3>1. rows[j].closedAt # 0 /\ rows[j].closedAt \in j .. n
      BY <2>2 DEF Booked
    <3>2. rows[j].closedAt \in 1 .. n /\ n \in 0 .. n
      BY <1>1, <3>1
    <3> QED BY <1>1, <1>5, <2>2, <3>2, EmptyLots
  <2>3. CASE ~(L[j].open > 0)
    <3>1. L[j].open \in Nat
      BY <1>1 DEF LotT
    <3> HIDE DEF L
    <3> QED BY <2>3, <3>1
  <2> QED BY <1>3, <2>1, <2>2, <2>3
<1> HIDE DEF L
<1>7. /\ \A j \in 1 .. n : t[j] \in Nat
      /\ \A k \in 0 .. n : Sums(t)[k] = LesserOf(left, Sums(OpenIn(K))[k])
  BY <1>1, TakesSums
<1>8. Total(t) = LesserOf(left, Sums(OpenIn(K))[n])
  <2>1. DOMAIN t = 1 .. n /\ n \in 0 .. n
    BY <1>1 DEF Takes
  <2>2. Total(t) = Sums(t)[n]
    BY <1>1, <2>1, TotalIs
  <2>3. Sums(t)[n] = LesserOf(left, Sums(OpenIn(K))[n])
    BY <1>7, <2>1
  <2> QED BY <2>2, <2>3
<1>9. Sums(OpenIn(K))[n] \in Nat
  <2>1. DOMAIN OpenIn(K) = 1 .. n /\ \A j \in 1 .. n : OpenIn(K)[j] \in Nat
    BY <1>7 DEF OpenIn, LotT
  <2>2. n \in 0 .. n
    BY <1>1
  <2> QED BY <1>1, <2>1, <2>2, SumsGrow
<1>10. Total(t) \in Nat /\ Total(t) <= left
  BY <1>8, <1>9 DEF LesserOf
<1>11. ASSUME left = OpenQuantity(rows)
       PROVE  Total(t) = left /\ \A j \in 1 .. n : t[j] = L[j].open
  <2>1. \A j \in 1 .. n : K[j].open = L[j].open
    BY <1>6 DEF L
  <2>2. OpenIn(K) = OpenIn(L)
    BY <1>1, <2>1 DEF OpenIn
  <2>3. left = Total(OpenIn(K))
    BY <1>1, <1>11, <2>2, LotsType DEF L
  <2>4. Total(t) = left /\ \A j \in 1 .. n : t[j] = K[j].open
    BY <1>1, <2>3, TakesAll
  <2> QED BY <2>1, <2>4
<1> QED BY <1>4, <1>6, <1>7, <1>10, <1>11 DEF L

(* The rows after the sweep has closed the lots at m.                      *)
Written(closed, n, rows, lots, status, m, t) ==
    /\ Booked(rows, n) /\ n # 0 /\ m \in Int /\ status \in {"won", "lost"}
    /\ \A j \in lots : j \in 1 .. n /\ rows[j].side = "buy" /\ rows[j].closedAt = 0
    /\ \A j \in 1 .. n : t[j] \in Nat
    /\ closed = [j \in 1 .. n |->
           IF j \notin lots THEN rows[j]
           ELSE ClosedRow(rows[j], status, n, (m - rows[j].price) * t[j])]

LEMMA RowsClose ==
    ASSUME NEW closed, NEW n, NEW rows, NEW lots, NEW status, NEW m, NEW t,
           Written(closed, n, rows, lots, status, m, t)
    PROVE  /\ Booked(closed, n) /\ Closing(rows, n, lots, closed)
           /\ \A j \in lots : closed[j].pnl = (m - rows[j].price) * t[j]
                              /\ closed[j].status = status
<1>1. /\ n \in Nat /\ rows \in [1 .. n -> Rows] /\ Booked(rows, n) /\ n # 0 /\ m \in Int
      /\ status \in {"won", "lost"} /\ \A j \in 1 .. n : t[j] \in Nat
      /\ \A j \in lots : j \in 1 .. n /\ rows[j].side = "buy" /\ rows[j].closedAt = 0
  BY DEF Booked, Written
<1>2. ASSUME NEW j \in lots
      PROVE  RowClosed(closed[j], rows[j], status, n, (m - rows[j].price) * t[j])
  <2>1. j \in 1 .. n /\ rows[j] \in Rows
    BY <1>1
  <2>2. rows[j].price \in Int /\ t[j] \in Int
    BY <1>1, <2>1 DEF Rows
  <2>3. PICK gain : gain = (m - rows[j].price) * t[j]
    OBVIOUS
  <2>4. gain \in Int
    <3>1. m - rows[j].price \in Int
      BY <1>1, <2>2
    <3> QED BY <2>2, <2>3, <3>1
  <2>5. closed[j] = ClosedRow(rows[j], status, n, gain)
    BY <2>1, <2>3 DEF Written
  <2>6. RowClosed(closed[j], rows[j], status, n, gain)
    BY <1>1, <2>1, <2>4, <2>5, ClosedRowIs
  <2> QED BY <2>3, <2>6
<1>3. ASSUME NEW j \in (1 .. n) \ lots PROVE closed[j] = rows[j]
  BY <1>3 DEF Written
<1>4. \A j \in 1 .. n : closed[j] \in Rows
  BY <1>1, <1>2, <1>3 DEF RowClosed
<1>5. closed \in [1 .. n -> Rows]
  BY <1>4 DEF Written
<1>6. Booked(closed, n)
  <2> SUFFICES ASSUME NEW j \in 1 .. n
               PROVE  /\ (closed[j].closedAt = 0) <=> (closed[j].status = "open")
                      /\ closed[j].closedAt # 0 => closed[j].closedAt \in j .. n
    BY <1>1, <1>5 DEF Booked
  <2>1. CASE j \in lots
    <3>1. closed[j].closedAt = n /\ closed[j].status = status
      BY <1>2, <2>1 DEF RowClosed
    <3> QED BY <1>1, <3>1
  <2>2. CASE j \notin lots
    BY <1>1, <1>3, <2>2 DEF Booked
  <2> QED BY <2>1, <2>2
<1>7. \A j \in 1 .. n : /\ closed[j].side = rows[j].side
                        /\ closed[j].qty = rows[j].qty
                        /\ closed[j].price = rows[j].price
  BY <1>2, <1>3 DEF RowClosed
<1>8. \A j \in lots : closed[j].closedAt = n
  BY <1>2 DEF RowClosed
<1>9. lots \subseteq {j \in 1 .. n : rows[j].side = "buy" /\ rows[j].closedAt = 0}
  BY <1>1
<1>10. Closing(rows, n, lots, closed)
  BY <1>1, <1>3, <1>5, <1>7, <1>8, <1>9 DEF Closing
<1>11. \A j \in lots : closed[j].pnl = (m - rows[j].price) * t[j] /\ closed[j].status = status
  BY <1>2 DEF RowClosed
<1> QED BY <1>6, <1>10, <1>11

\* What the live lots sell, of as many shares as are held.
LEMMA LotsTaken ==
    ASSUME NEW n, NEW rows, Booked(rows, n), NEW lots, lots = LiveLots(rows), NEW left \in Nat,
           NEW sold, sold = [i \in lots |-> Taken(LotsLeft(rows, lots), i, left)]
    PROVE  /\ lots \subseteq {j \in 1 .. n : rows[j].side = "buy" /\ rows[j].closedAt = 0
                                             /\ rows[j].status = "open"}
           /\ \A j \in (1 .. n) \ lots : Lots(rows)[j].open = 0
           /\ \A j \in lots : sold[j] \in Nat
           /\ \A j \in 1 .. n : Sales(rows, sold)[j] \in Nat
           /\ Total(Sales(rows, sold)) \in Nat /\ Total(Sales(rows, sold)) <= left
           /\ left = OpenQuantity(rows) =>
                 /\ Total(Sales(rows, sold)) = left
                 /\ \A j \in lots : sold[j] = Lots(rows)[j].open
<1> DEFINE L == Lots(rows)
           K == [j \in 1 .. n |-> [open |-> IF j \in lots THEN L[j].open ELSE 0, realised |-> 0]]
           t == [j \in 1 .. n |-> Taken(K, j, left)]
<1>1. n \in Nat /\ rows \in [1 .. n -> Rows] /\ L \in [1 .. n -> LotT]
  BY LotsType DEF Booked
<1>2. LotsLeft(rows, lots) = [j \in 1 .. n |-> [open |-> IF j \in lots THEN L[j].open ELSE 0]]
  BY <1>1 DEF LotsLeft, OpenOf, OpenIn
<1>3. OpenIn(LotsLeft(rows, lots)) = OpenIn(K)
  <2> HIDE DEF L
  <2> QED BY <1>2 DEF OpenIn
<1>4. ASSUME NEW j \in 1 .. n PROVE Taken(LotsLeft(rows, lots), j, left) = t[j]
  <2>1. LotsLeft(rows, lots)[j].open = K[j].open
    <3> HIDE DEF L
    <3> QED BY <1>2
  <2> QED BY <1>3, <2>1 DEF Taken
<1>5. K \in [1 .. n -> LotT] /\ \A j \in 1 .. n : K[j].open = IF j \in lots THEN L[j].open ELSE 0
  <2>1. \A j \in 1 .. n : L[j].open \in Nat
    BY <1>1 DEF LotT
  <2> HIDE DEF L
  <2>2. \A j \in 1 .. n : K[j] \in LotT
    BY <2>1 DEF LotT
  <2> QED BY <2>2
<1>6. Takes(n, t, K, left)
  BY <1>1, <1>5 DEF Takes
<1> HIDE DEF K
<1>7. /\ lots \subseteq {j \in 1 .. n : rows[j].side = "buy" /\ rows[j].closedAt = 0
                                        /\ rows[j].status = "open"}
      /\ \A j \in (1 .. n) \ lots : L[j].open = 0
      /\ \A j \in 1 .. n : t[j] \in Nat
      /\ Total(t) \in Nat /\ Total(t) <= left
      /\ left = OpenQuantity(rows) =>
            Total(t) = left /\ \A j \in 1 .. n : t[j] = L[j].open
  <2>1. Sweeps(n, rows, lots, left, K, t)
    BY <1>5, <1>6 DEF Sweeps
  <2>2. Swept(n, rows, lots, left, t)
    <3> HIDE DEF t
    <3> QED BY <2>1, LotsSold
  <2> HIDE DEF t
  <2> QED BY <2>2 DEF Swept
<1>8. ASSUME NEW j \in (1 .. n) \ lots PROVE t[j] = 0
  <2>1. K[j].open = 0 /\ t[j] \in Nat
    BY <1>5, <1>7, <1>8
  <2>2. PICK older : older = Sums(OpenIn(K))[j - 1]
    OBVIOUS
  <2>3. older \in Nat
    <3>1. PICK f : f = OpenIn(K)
      OBVIOUS
    <3>2. n \in Nat /\ DOMAIN f = 1 .. n /\ \A i \in 1 .. n : f[i] \in Nat
      BY <1>1, <1>5, <3>1 DEF OpenIn, LotT
    <3>3. j - 1 \in 0 .. n
      BY <1>1, <1>8
    <3>4. Sums(f)[j - 1] \in Nat
      BY <3>2, <3>3, SumsGrow
    <3> QED BY <2>2, <3>1, <3>4
  <2>4. PICK b : b = IF left > older THEN left - older ELSE 0
    OBVIOUS
  <2>5. b \in Nat
    BY <2>3, <2>4
  <2>6. t[j] = LesserOf(0, b)
    BY <1>8, <2>1, <2>2, <2>4 DEF Taken
  <2> QED BY <2>5, <2>6 DEF LesserOf
<1> HIDE DEF t
<1>9. Sales(rows, sold) = t
  <2>1. DOMAIN rows = 1 .. n /\ DOMAIN t = 1 .. n /\ DOMAIN sold = lots
    BY <1>1 DEF t
  <2>2. ASSUME NEW j \in 1 .. n PROVE (IF j \in DOMAIN sold THEN sold[j] ELSE 0) = t[j]
    BY <1>4, <1>8, <2>1
  <2>3. t = [j \in 1 .. n |-> t[j]]
    BY DEF t
  <2> QED BY <2>1, <2>2, <2>3 DEF Sales
<1>10. \A j \in lots : j \in 1 .. n /\ sold[j] = t[j]
  BY <1>4, <1>7
<1> QED BY <1>7, <1>9, <1>10

LEMMA OutcomesInv ==
    ASSUME IInv, NEW c \in Calls, NEW m \in Prices, EvaluateOutcomes(c, m)
    PROVE  /\ IInv'
           /\ "shares" \notin overtaken' /\ ~ClosedByHand => held' = 0 /\ OpenQuantity(trades') = 0
<1>1. PICK seen : seen = call[c].seen
  OBVIOUS
<1>2. PICK lots : lots = LiveLots(seen)
  OBVIOUS
<1>3. PICK sold : sold = [i \in lots |-> Taken(LotsLeft(seen, lots), i, call[c].copy.held)]
  OBVIOUS
<1>4. PICK n : n = Len(trades)
  OBVIOUS
<1>5. /\ Commits(c, "outcomes") /\ UNCHANGED <<books, shorts, today, born>>
      /\ \E status \in {"won", "lost"} : CloseRows(c, sold, m, status)
  BY <1>1, <1>2, <1>3 DEF EvaluateOutcomes
<1>6. PICK status \in {"won", "lost"} : CloseRows(c, sold, m, status)
  BY <1>5
<1>7. PICK k : k = Len(seen)
  OBVIOUS
<1>8. /\ books /\ seen \in Seq(Rows) /\ Booked(seen, k) /\ call[c].copy.held \in Nat
      /\ m \in Nat /\ k \in Nat
  BY <1>1, <1>5, <1>7, CommitEnds, SimAssumption DEF Copies, Booked
<1>9. PICK gone : gone = Total(Sales(seen, sold))
  OBVIOUS
<1>10. /\ lots \subseteq {j \in 1 .. k : seen[j].side = "buy" /\ seen[j].closedAt = 0
                                         /\ seen[j].status = "open"}
       /\ \A j \in (1 .. k) \ lots : Lots(seen)[j].open = 0
       /\ \A j \in lots : sold[j] \in Nat
       /\ \A j \in 1 .. k : Sales(seen, sold)[j] \in Nat
       /\ gone \in Nat /\ gone <= call[c].copy.held
       /\ call[c].copy.held = OpenQuantity(seen) =>
             gone = call[c].copy.held /\ \A j \in lots : sold[j] = Lots(seen)[j].open
  <2>1. PICK left : left = call[c].copy.held
    OBVIOUS
  <2>2. /\ Booked(seen, k) /\ lots = LiveLots(seen) /\ left \in Nat
        /\ sold = [i \in lots |-> Taken(LotsLeft(seen, lots), i, left)]
    BY <1>2, <1>3, <1>8, <2>1
  <2>3. /\ lots \subseteq {j \in 1 .. k : seen[j].side = "buy" /\ seen[j].closedAt = 0
                                          /\ seen[j].status = "open"}
        /\ \A j \in (1 .. k) \ lots : Lots(seen)[j].open = 0
        /\ \A j \in lots : sold[j] \in Nat
        /\ \A j \in 1 .. k : Sales(seen, sold)[j] \in Nat
        /\ Total(Sales(seen, sold)) \in Nat /\ Total(Sales(seen, sold)) <= left
        /\ left = OpenQuantity(seen) =>
              /\ Total(Sales(seen, sold)) = left
              /\ \A j \in lots : sold[j] = Lots(seen)[j].open
    BY ONLY <2>2, LotsTaken
  <2> QED BY <1>9, <2>1, <2>3
<1>11. DOMAIN sold = lots /\ Sells(seen, sold)
  <2>1. DOMAIN sold = lots /\ DOMAIN seen = 1 .. k
    BY <1>3, <1>8 DEF Booked
  <2> QED BY <1>8, <1>10, <2>1 DEF Sells
<1>12. ClosedBooks(c, n, sold, m, status, gone)
  <2>1. status \in {"won", "lost", "closed"}
    OBVIOUS
  <2> QED BY <1>1, <1>4, <1>5, <1>6, <1>8, <1>9, <1>10, <1>11, <2>1, RowsGo
<1>13. n \in Nat /\ trades \in [1 .. n -> Rows] /\ DOMAIN trades = 1 .. n /\ Booked(trades, n)
  BY <1>4, Sizes DEF IInv, BooksTyped, Booked
<1>14. ASSUME SharesOvertaken(c) = {}, "shares" \notin overtaken
       PROVE  /\ ClosedByHand => ClosedByHand'
              /\ ~ClosedByHand => /\ held' = 0 /\ OpenQuantity(trades') = 0
                                  /\ gone = OpenQuantity(trades)
                                  /\ Total(Explained(trades'))
                                        = Total(Explained(trades)) + m * gone
  <2>1. seen = trades /\ call[c].copy.held = held /\ k = n
    BY <1>1, <1>4, <1>7, <1>14, SharesFresh
  <2>2. PICK closed : closed = trades'
    OBVIOUS
  <2>3. closed = [j \in 1 .. n |->
              IF j \notin lots THEN trades[j]
              ELSE ClosedRow(trades[j], status, n, (m - trades[j].price) * sold[j])]
    BY <1>11, <1>12, <1>14, <2>2 DEF ClosedBooks
  <2>4. ClosedByHand => ClosedByHand'
    <3> SUFFICES ASSUME NEW i \in DOMAIN trades, trades[i].status = "closed" PROVE ClosedByHand'
      BY DEF ClosedByHand
    <3>1. i \in 1 .. n /\ i \notin lots
      BY <1>10, <1>13, <2>1
    <3>2. i \in DOMAIN closed /\ closed[i].status = "closed"
      BY <2>3, <3>1
    <3> QED BY <2>2, <3>2 DEF ClosedByHand
  <2>5. ASSUME ~ClosedByHand
        PROVE  /\ held' = 0 /\ OpenQuantity(trades') = 0 /\ gone = OpenQuantity(trades)
               /\ Total(Explained(trades')) = Total(Explained(trades)) + m * gone
    <3>1. OpenQuantity(trades) = held /\ held \in Nat
      BY <1>14, <2>5, FiguresAre
    <3>2. gone = held /\ \A j \in lots : sold[j] = Lots(trades)[j].open
      BY <1>10, <2>1, <3>1
    <3>3. held' = 0
      <4>1. held' = held - gone
        BY <1>12, <1>14 DEF ClosedBooks
      <4> QED BY <3>1, <3>2, <4>1
    <3>4. PICK t : t = Sales(seen, sold)
      OBVIOUS
    <3>5. \A j \in lots : j \in 1 .. n /\ t[j] = sold[j]
      <4>1. \A j \in lots : j \in 1 .. n
        BY <1>10, <2>1
      <4> QED BY <1>11, <1>13, <2>1, <3>4, <4>1 DEF Sales
    <3>6. CASE n = 0
      <4>1. trades' = trades
        <5>1. lots = {}
          BY <1>10, <2>1, <3>6
        <5> QED BY <1>13, <2>2, <2>3, <5>1
      <4>2. OpenQuantity(trades) = 0
        <5>1. PICK rows \in Seq(Rows) : rows = trades
          BY DEF IInv, BooksTyped
        <5>2. rows = << >>
          BY <1>4, <3>6, <5>1, EmptySeq
        <5>3. trades = << >>
          BY <5>1, <5>2
        <5> QED BY <5>3, NoRows
      <4>3. Total(Explained(trades)) \in Int
        BY FiguresAre
      <4> QED BY <1>8, <3>1, <3>2, <3>3, <4>1, <4>2, <4>3
    <3>7. CASE n # 0
      <4>1. Written(closed, n, trades, lots, status, m, t)
        <5>1. \A j \in lots : j \in 1 .. n /\ trades[j].side = "buy" /\ trades[j].closedAt = 0
          BY <1>10, <2>1
        <5>2. \A j \in 1 .. n : t[j] \in Nat
          BY <1>10, <2>1, <3>4
        <5>3. closed = [j \in 1 .. n |->
                  IF j \notin lots THEN trades[j]
                  ELSE ClosedRow(trades[j], status, n, (m - trades[j].price) * t[j])]
          BY <2>3, <3>5
        <5> QED BY <1>8, <1>13, <3>7, <5>1, <5>2, <5>3 DEF Written
      <4>2. /\ Closing(trades, n, lots, closed)
            /\ \A j \in lots : closed[j].pnl = (m - trades[j].price) * t[j]
        BY <4>1, RowsClose
      <4>3. \A j \in lots : closed[j].pnl = (m - trades[j].price) * Lots(trades)[j].open
        BY <3>2, <3>5, <4>2
      <4>4. \A j \in (1 .. n) \ lots : Lots(trades)[j].open = 0
        BY <1>10, <2>1
      <4>5. m \in Int
        BY <1>8
      <4>6. /\ OpenQuantity(closed) = 0
            /\ Total(Explained(closed)) = Total(Explained(trades)) + m * OpenQuantity(trades)
        BY <4>2, <4>3, <4>4, <4>5, AllClosed
      <4> QED BY <2>2, <3>1, <3>2, <3>3, <4>6
    <3> QED BY <3>6, <3>7
  <2> QED BY <2>4, <2>5
<1>15. /\ cash' \in Int /\ held' \in Nat /\ lot' \in Nat /\ (lot' = 0 => held' = 0)
       /\ resting' \subseteq resting
       /\ overtaken' = overtaken \cup CashOvertaken(c) \cup SharesOvertaken(c)
       /\ trades' \in Seq(Rows) /\ Booked(trades', Len(trades')) /\ Fits'
       /\ CashOvertaken(c) = {} => cash' = cash + m * gone
  BY <1>12 DEF ClosedBooks
<1>16. "shares" \notin overtaken /\ SharesOvertaken(c) = {}
           => /\ \A i \in DOMAIN trades' : trades'[i].id = i
              /\ ~ClosedByHand' => OpenQuantity(trades') = held'
  BY <1>12, <1>14 DEF ClosedBooks
<1>17. overtaken = {} /\ CashOvertaken(c) = {} /\ SharesOvertaken(c) = {} /\ ~ClosedByHand'
           => cash' = Start + Total(Explained(trades')) + Total(ShortsExplained(shorts))
  <2> SUFFICES ASSUME overtaken = {}, CashOvertaken(c) = {}, SharesOvertaken(c) = {}, ~ClosedByHand'
               PROVE  cash' = Start + Total(Explained(trades')) + Total(ShortsExplained(shorts))
    OBVIOUS
  <2>1. "shares" \notin overtaken /\ ~ClosedByHand
    BY <1>14
  <2>2. Total(Explained(trades')) = Total(Explained(trades)) + m * gone /\ cash' = cash + m * gone
    BY <1>14, <1>15, <2>1
  <2>3. PICK x \in Int : x = m * gone
    BY <1>8, <1>10
  <2> QED BY <1>8, <2>1, <2>2, <2>3, FiguresAre
<1>18. IInv'
  BY <1>5, <1>15, <1>16, <1>17, TradeSide
<1>19. "shares" \notin overtaken' => "shares" \notin overtaken /\ SharesOvertaken(c) = {}
  BY <1>15, Overtakes
<1> QED BY <1>14, <1>18, <1>19

\* What TypeOK says of the rows.
LEMMA RowsTyped ==
    ASSUME NEW rows, rows \in Seq(Rows), Booked(rows, Len(rows))
    PROVE  \A i \in DOMAIN rows :
              /\ rows[i].side \in {"buy", "sell"}
              /\ rows[i].status \in {"open", "won", "lost", "closed"}
              /\ rows[i].closedAt \in 0 .. Len(rows)
              /\ (rows[i].closedAt = 0) <=> (rows[i].status = "open")
<1> SUFFICES ASSUME NEW i \in DOMAIN rows
             PROVE  /\ rows[i].side \in {"buy", "sell"}
                    /\ rows[i].status \in {"open", "won", "lost", "closed"}
                    /\ rows[i].closedAt \in 0 .. Len(rows)
                    /\ (rows[i].closedAt = 0) <=> (rows[i].status = "open")
  OBVIOUS
<1>1. i \in 1 .. Len(rows) /\ Len(rows) \in Nat /\ rows[i] \in Rows
  OBVIOUS
<1>2. rows[i].closedAt \in Nat /\ rows[i].closedAt # 0 => rows[i].closedAt \in i .. Len(rows)
  BY <1>1 DEF Booked
<1>3. rows[i].closedAt \in 0 .. Len(rows)
  BY <1>1, <1>2 DEF Rows
<1> QED BY <1>1, <1>3 DEF Booked, Rows

-----------------------------------------------------------------------------
(* The steps and the theorems                                              *)

LEMMA StepInv == IInv /\ [Next]_vars => IInv'
<1> SUFFICES ASSUME IInv, [Next]_vars PROVE IInv'
  OBVIOUS
<1>1. CASE UNCHANGED vars
  BY <1>1, IdleInv
<1>2. ASSUME NEW c \in Calls, FillStep(c) PROVE IInv'
  <2>1. ASSUME NEW r \in Requests, Submit(c, r) PROVE IInv'
    BY <2>1, SubmitInv
  <2>2. ASSUME NEW o \in resting, FillResting(c, o) PROVE IInv'
    BY <2>2, FillInv
  <2>3. CASE CreatePortfolio(c)
    BY <2>3, CreateInv
  <2>4. CASE Reset(c)
    BY <2>4, ResetInv
  <2>5. CASE GiveUp(c) \/ RestOrder(c)
    BY <2>5, LeaveInv
  <2>6. ASSUME NEW m \in Prices, Decide(c, m) PROVE IInv'
    BY <2>6, DecideInv
  <2>7. CASE OpenFill(c)
    BY <2>7, OpenInv
  <2>8. CASE BookBuy(c)
    BY <2>8, BuyInv
  <2>9. CASE BookSell(c)
    BY <2>9, SellInv
  <2>10. CASE BookShort(c)
    BY <2>10, ShortInv
  <2>11. CASE BookCover(c)
    BY <2>11, CoversInv
  <2> QED BY <1>2, <2>1, <2>2, <2>3, <2>4, <2>5, <2>6, <2>7, <2>8, <2>9, <2>10, <2>11 DEF FillStep
<1>3. ASSUME NEW c \in Calls, PassStep(c) PROVE IInv'
  <2>1. CASE ReadLots(c) \/ ReadShorts(c) \/ \E i \in DOMAIN trades : ReadForClose(c, i)
    BY <2>1, ReadInv
  <2>2. ASSUME NEW m \in Prices, EvaluateOutcomes(c, m) PROVE IInv'
    BY <2>2, OutcomesInv
  <2>3. ASSUME NEW m \in Prices, ManualClose(c, m) PROVE IInv'
    BY <2>3, ManualInv
  <2>4. CASE \E m \in Prices : EvaluateShortBrackets(c, m) \/ ForceCloseBreachedShorts(c, m)
    BY <2>4, CoversInv
  <2>5. CASE AccrueShortBorrow(c)
    BY <2>5, AccrueInv
  <2> QED BY <1>3, <2>1, <2>2, <2>3, <2>4, <2>5 DEF PassStep
<1>4. CASE (\E o \in resting : Withdraw(o)) \/ NextDay
  BY <1>4, IdleInv
<1> QED BY <1>1, <1>2, <1>3, <1>4 DEF Next

LEMMA Invariance == Spec => []IInv
<1>1. Init => IInv
  BY InitInv
<1> QED BY <1>1, StepInv, PTL DEF Spec

\* Every variable keeps its type, whatever a commit writes over: the shares held
\* never fall below zero, every close comes after its row, and no thread takes the
\* books past their bound.
THEOREM TypeCorrect == Spec => []TypeOK
<1>1. IInv => TypeOK
  <2> SUFFICES ASSUME IInv PROVE TypeOK
    OBVIOUS
  <2>1. Len(trades) + Len(shorts) <= MaxRows
    <3>1. Acting \in SUBSET Calls
      BY DEF Acting
    <3>2. Cardinality(Acting) \in Nat
      BY <3>1, Counts
    <3> QED BY <3>2, Sizes DEF IInv, Fits
  <2>2. \A i \in DOMAIN trades :
            /\ trades[i].side \in {"buy", "sell"}
            /\ trades[i].status \in {"open", "won", "lost", "closed"}
            /\ trades[i].closedAt \in 0 .. Len(trades)
            /\ (trades[i].closedAt = 0) <=> (trades[i].status = "open")
    BY RowsTyped DEF IInv, BooksTyped
  <2> QED BY <2>1, <2>2 DEF TypeOK, IInv, BooksTyped
<1> QED BY <1>1, Invariance, PTL

\* The shares the lots of the order rows still hold are the shares of the holding
\* row (the invariant of tests/conftest.py and scripts/def110_backfill.py), until a
\* commit writes the holding over another's or files its row behind one, and as long
\* as no row was closed by hand: so these are the only ways for them to part.
THEOREM LotsAreHeld == Spec => []LotsAgree
<1>1. IInv => LotsAgree
  BY DEF IInv, Accounts
<1> QED BY <1>1, Invariance, PTL

\* The cash is the starting capital and what rows, shorts, tolls and borrow
\* explain of it, to the dollar, until a commit writes over another's.
THEOREM CashAccounted == Spec => []CashIsExplained
<1>1. IInv => CashIsExplained
  BY DEF IInv, Accounts
<1> QED BY <1>1, Invariance, PTL

\* The lots are the oldest shares first, in whatever order the rows and their closes
\* were filed: what is left of each lot is what taking single shares, the oldest
\* first, leaves of it (compute_lots_fifo).
THEOREM OldestGoFirst == Spec => []OldestSharesFirst
<1>1. IInv => OldestSharesFirst
  <2> SUFFICES ASSUME IInv, NEW j \in DOMAIN trades
               PROVE  OpenOf(trades)[j] = SharesLeft(trades, j)
    BY DEF OldestSharesFirst
  <2>1. PICK n : n = Len(trades)
    OBVIOUS
  <2>2. Booked(trades, n)
    BY <2>1 DEF IInv, BooksTyped
  <2>3. j \in 1 .. n
    BY <2>2 DEF Booked
  <2> QED BY <2>2, <2>3, SharesAreLots
<1> QED BY <1>1, Invariance, PTL

\* What PositionsCloseWhole says of one step.
Fired ==
    /\ "shares" \notin overtaken' /\ ~ClosedByHand
    /\ \E i \in DOMAIN trades \cap DOMAIN trades' :
          trades[i].status = "open" /\ trades'[i].status \in {"won", "lost"}

LEMMA WholeStep == IInv /\ [Next]_vars => (Fired => held' = 0 /\ OpenQuantity(trades') = 0)
<1> SUFFICES ASSUME IInv, [Next]_vars, "shares" \notin overtaken', ~ClosedByHand,
                    NEW i \in DOMAIN trades \cap DOMAIN trades',
                    trades[i].status = "open", trades'[i].status \in {"won", "lost"}
             PROVE  held' = 0 /\ OpenQuantity(trades') = 0
  BY DEF Fired
<1>1. trades'[i].status # trades[i].status /\ trades'[i].status # "closed"
  OBVIOUS
<1>2. CASE trades' = trades
  BY <1>1, <1>2
<1>3. ASSUME NEW c \in Calls, NEW at \in {"buying", "selling"}, Commits(c, at), WriteRow(c),
             UNCHANGED shorts, SharesOvertaken(c) = {}
      PROVE  FALSE
  <2>1. c \in Acting
    BY <1>3, CommitEnds DEF Acting, Fills
  <2>2. PICK n : n = Len(trades)
    OBVIOUS
  <2>3. \A j \in 1 .. n : trades'[j] = trades[j]
    BY <1>3, <2>1, <2>2, RowWritten
  <2>4. i \in 1 .. n
    BY <2>2 DEF IInv, BooksTyped
  <2> QED BY <1>1, <2>3, <2>4
<1>4. ASSUME NEW c \in Calls, BookBuy(c) \/ BookSell(c) PROVE FALSE
  <2>1. SharesOvertaken(c) = {}
    BY <1>4, Overtakes DEF BookBuy, BookSell
  <2>2. CASE BookBuy(c)
    BY <1>3, <2>1, <2>2 DEF BookBuy
  <2>3. CASE BookSell(c)
    BY <1>3, <2>1, <2>3 DEF BookSell
  <2> QED BY <1>4, <2>2, <2>3
<1>5. ASSUME NEW c \in Calls, Reset(c) PROVE FALSE
  <2>1. DOMAIN trades' = {}
    BY <1>5 DEF Reset
  <2> QED BY <2>1
<1>6. ASSUME NEW c \in Calls, FillStep(c) PROVE held' = 0 /\ OpenQuantity(trades') = 0
  <2>1. CASE BookBuy(c) \/ BookSell(c)
    BY <1>4, <2>1
  <2>2. CASE Reset(c)
    BY <1>5, <2>2
  <2>3. CASE trades' = trades
    BY <1>2, <2>3
  <2> QED BY <1>6, <2>1, <2>2, <2>3
          DEF FillStep, Submit, FillResting, CreatePortfolio, GiveUp, RestOrder, Decide,
              OpenFill, BookShort, BookCover, ledger
<1>7. ASSUME NEW c \in Calls, PassStep(c) PROVE held' = 0 /\ OpenQuantity(trades') = 0
  <2>1. ASSUME NEW m \in Prices, EvaluateOutcomes(c, m) PROVE held' = 0 /\ OpenQuantity(trades') = 0
    BY <2>1, OutcomesInv
  <2>2. ASSUME NEW m \in Prices, ManualClose(c, m) PROVE FALSE
    BY <1>1, <2>2, ManualInv
  <2>3. CASE trades' = trades
    BY <1>2, <2>3
  <2> QED BY <1>7, <2>1, <2>2, <2>3
          DEF PassStep, ReadLots, ReadShorts, ReadForClose, Begins, ledger,
              EvaluateShortBrackets, ForceCloseBreachedShorts, AccrueShortBorrow
<1>8. CASE (\E o \in resting : Withdraw(o)) \/ NextDay \/ UNCHANGED vars
  <2>1. trades' = trades
    BY <1>8 DEF Withdraw, NextDay, vars, ledger
  <2> QED BY <1>2, <2>1
<1> QED BY <1>6, <1>7, <1>8 DEF Next

\* A stop or a target that fires leaves nothing of the position, in the lots or in
\* the holding (evaluate_outcomes), when nothing was bought or sold while its quote
\* was fetched and no row was closed by hand.
THEOREM FiringClosesAll == Spec => PositionsCloseWhole
<1>1. IInv /\ [Next]_vars =>
        [ (/\ "shares" \notin overtaken' /\ ~ClosedByHand
           /\ \E i \in DOMAIN trades \cap DOMAIN trades' :
                trades[i].status = "open" /\ trades'[i].status \in {"won", "lost"})
          => held' = 0 /\ OpenQuantity(trades)' = 0 ]_vars
  BY WholeStep DEF Fired
<1> QED BY <1>1, Invariance, PTL DEF Spec, PositionsCloseWhole

=============================================================================
