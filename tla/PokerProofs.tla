------------------------------ MODULE PokerProofs ---------------------------
(***************************************************************************)
(* A showdown, for any number of seats, any bets and any hands; and the    *)
(* poker table, for any number of players, seats, streets, hands and       *)
(* debits: whoever the hand waits for can move it on, the chips the ledger *)
(* took are accounted for, and the hands that are compared matched their   *)
(* bets.                                                                   *)
(*                                                                         *)
(* The table's part follows a handler.  Well(t) is what every table a      *)
(* handler makes satisfies, Outcome(t) where a step of the betting leads,  *)
(* Published(t, done) what the end of a handler makes of its table, and    *)
(* PublishKeeps the one argument for every handler that ends that way.     *)
(* Then there is a lemma for each action, and its conclusion is always     *)
(* PokerInv' /\ LevelShown.                                                *)
(***************************************************************************)
EXTENDS PokerTable, PokerShowdown, SumFacts

-----------------------------------------------------------------------------
(* A showdown.                                                             *)

LEMMA SeatsAreFinite == IsFiniteSet(Seats) /\ Seats \subseteq Nat /\ Seats # {}
<1>1. IsFiniteSet(0 .. NumSeats - 1)
  BY NumSeatsAssumption, FS_Interval
<1> QED
  BY <1>1, NumSeatsAssumption DEF Seats

\* As many members of a finite set of numbers as one likes are the lowest ones.
LEMMA Lowest ==
    ASSUME NEW W, IsFiniteSet(W), W \subseteq Nat, NEW r \in 0 .. Cardinality(W)
    PROVE  Cardinality({i \in W : Cardinality({j \in W : j < i}) < r}) = r
<1> DEFINE n == Cardinality(W)
<1> DEFINE rank == [i \in W |-> Cardinality({j \in W : j < i})]
<1> DEFINE low == {i \in W : rank[i] < r}
<1>1. n \in Nat
  BY FS_CardinalityType
<1>2. \A i \in W : rank[i] \in 0 .. n - 1
  <2> TAKE i \in W
  <2>1. {j \in W : j < i} \subseteq W \ {i}
    OBVIOUS
  <2>2. IsFiniteSet(W \ {i}) /\ Cardinality(W \ {i}) = n - 1
    BY FS_RemoveElement
  <2>3. IsFiniteSet({j \in W : j < i}) /\ Cardinality({j \in W : j < i}) <= n - 1
    BY <2>1, <2>2, FS_Subset
  <2>4. Cardinality({j \in W : j < i}) \in Nat
    BY <2>3, FS_CardinalityType
  <2> QED
    BY <1>1, <2>3, <2>4
<1>3. \A i, k \in W : i < k => rank[i] < rank[k]
  <2> TAKE i, k \in W
  <2> SUFFICES ASSUME i < k PROVE rank[i] < rank[k]
    OBVIOUS
  <2> DEFINE A == {j \in W : j < i}
  <2> DEFINE B == {j \in W : j < k}
  <2>0. \A j \in W : (j < i => j < k) /\ ~ (i < i)
    OBVIOUS
  <2>1. A \cup {i} \subseteq B /\ i \notin A
    BY <2>0, Zenon
  <2>2. IsFiniteSet(A) /\ IsFiniteSet(B)
    <3>1. A \subseteq W /\ B \subseteq W
      OBVIOUS
    <3> HIDE DEF A, B
    <3> QED
      BY <3>1, FS_Subset
  <2> HIDE DEF A, B
  <2>3. Cardinality(A \cup {i}) = Cardinality(A) + 1
    BY <2>1, <2>2, FS_AddElement
  <2>4. Cardinality(A \cup {i}) <= Cardinality(B)
    BY <2>1, <2>2, FS_Subset
  <2>5. Cardinality(A) \in Nat /\ Cardinality(B) \in Nat
    BY <2>2, FS_CardinalityType
  <2>6. Cardinality(A) < Cardinality(B)
    BY <2>3, <2>4, <2>5
  <2> QED
    BY <2>6 DEF A, B
<1>4. \A i, k \in W : rank[i] = rank[k] => i = k
  <2> TAKE i, k \in W
  <2>1. i \in Nat /\ k \in Nat /\ (i < k \/ k < i \/ i = k)
    OBVIOUS
  <2>2. rank[i] \in Int /\ rank[k] \in Int
    BY <1>2
  <2>3. (i < k => rank[i] < rank[k]) /\ (k < i => rank[k] < rank[i])
    BY <1>3
  <2> HIDE DEF rank
  <2> QED
    BY <2>1, <2>2, <2>3
<1>5. DOMAIN rank = W
  OBVIOUS
<1>6. rank = [i \in W |-> rank[i]]
  OBVIOUS
<1>7. low \subseteq W
  OBVIOUS
<1> HIDE DEF rank
<1>8. rank \in [W -> 0 .. n - 1]
  BY <1>2, <1>5, <1>6
<1>9. rank \in Injection(W, 0 .. n - 1)
  BY <1>4, <1>5, <1>8 DEF Injection, IsInjective
<1>10. IsFiniteSet(0 .. n - 1) /\ Cardinality(0 .. n - 1) = n
  <2>1. 0 \in Int /\ n - 1 \in Int
    BY <1>1
  <2>2. /\ IsFiniteSet(0 .. n - 1)
        /\ Cardinality(0 .. n - 1) = IF 0 > n - 1 THEN 0 ELSE n - 1 - 0 + 1
    BY <2>1, FS_Interval
  <2> HIDE DEF n
  <2> QED
    BY <1>1, <2>2
<1>11. rank \in Surjection(W, 0 .. n - 1)
  BY <1>9, <1>10, FS_Injection
<1>12. \A v \in 0 .. n - 1 : \E i \in W : rank[i] = v
  BY <1>11 DEF Surjection
<1> DEFINE place == [i \in low |-> rank[i]]
<1>13. place \in [low -> 0 .. r - 1]
  <2>1. \A i \in low : rank[i] \in 0 .. r - 1
    <3> TAKE i \in low
    <3>1. rank[i] \in Nat /\ rank[i] < r /\ r \in Nat
      BY <1>1, <1>2
    <3> QED
      BY <3>1
  <2> QED
    BY <2>1
<1>14. place \in Bijection(low, 0 .. r - 1)
  <2>1. \A v \in 0 .. r - 1 : \E i \in low : place[i] = v
    BY <1>1, <1>12
  <2>2. \A a, b \in DOMAIN place : place[a] = place[b] => a = b
    BY <1>4, <1>7
  <2> HIDE DEF place
  <2> QED
    BY <1>13, <2>1, <2>2 DEF Bijection, Injection, Surjection, IsInjective
<1>15. IsFiniteSet(low)
  BY <1>7, FS_Subset
<1>16. Cardinality(0 .. r - 1) = Cardinality(low)
  <2> HIDE DEF place, low
  <2>1. ExistsBijection(low, 0 .. r - 1)
    BY <1>14 DEF ExistsBijection
  <2> QED
    BY <1>15, <2>1, FS_Bijection
<1>17. Cardinality(0 .. r - 1) = r
  BY <1>1, FS_Interval
<1>18. low = {i \in W : Cardinality({j \in W : j < i}) < r}
  BY DEF rank
<1> QED
  BY <1>16, <1>17, <1>18

\* What i gets when W splits a: equal parts and the odd chips one by one.
Part(W, a, i) ==
    IF i \in W
    THEN a \div Cardinality(W)
         + (IF Cardinality({j \in W : j < i}) < a % Cardinality(W) THEN 1 ELSE 0)
    ELSE 0

\* What is split is shared out whole.
LEMMA SplitAddsUp ==
    ASSUME NEW S, IsFiniteSet(S), NEW W \in SUBSET S, W # {}, S \subseteq Nat, NEW a \in Nat, NEW f,
           \A i \in S : f[i] = Part(W, a, i)
    PROVE  /\ SumFunctionOnSet(f, S) = a
           /\ \A i \in S : f[i] \in Nat
<1>1. IsFiniteSet(W) /\ W \subseteq Nat
  BY FS_Subset
<1>2. Cardinality(W) \in Nat \ {0}
  BY <1>1, FS_CardinalityType, FS_EmptySet
<1>3. PICK q \in Nat, r \in 0 .. Cardinality(W) - 1 :
        q = a \div Cardinality(W) /\ r = a % Cardinality(W) /\ a = q * Cardinality(W) + r
  BY <1>2, Quotient
<1>4. r \in 0 .. Cardinality(W)
  BY <1>2
<1> DEFINE odd == {i \in W : Cardinality({j \in W : j < i}) < r}
<1>5. /\ odd \in SUBSET W
      /\ \A i \in S : f[i] = IF i \in W THEN q + (IF i \in odd THEN 1 ELSE 0) ELSE 0
  BY <1>3 DEF Part
<1>6. Cardinality(odd) = r
  BY <1>1, <1>4, Lowest
<1> DEFINE equal == [i \in S |-> IF i \in W THEN q ELSE 0]
<1> DEFINE extra == [i \in S |-> IF i \in odd THEN 1 ELSE 0]
<1> HIDE DEF odd
<1>7. /\ \A i \in S : equal[i] = IF i \in W THEN q ELSE 0
      /\ \A i \in S : extra[i] = IF i \in odd THEN 1 ELSE 0
  OBVIOUS
<1>8. /\ \A i \in S : equal[i] \in Int
      /\ \A i \in S : extra[i] \in Int
      /\ \A i \in S : f[i] = equal[i] + extra[i]
      /\ \A i \in S : f[i] \in Nat
  BY <1>5, <1>7
<1> HIDE DEF equal, extra
<1>9. q \in Int /\ 1 \in Int /\ odd \in SUBSET S
  BY <1>5
<1>10. SumFunctionOnSet(equal, S) = q * Cardinality(W)
  BY <1>7, <1>9, SumOfEqual
<1>11. SumFunctionOnSet(extra, S) = 1 * Cardinality(odd)
  BY <1>7, <1>9, SumOfEqual
<1>12. SumFunctionOnSet(f, S) = SumFunctionOnSet(equal, S) + SumFunctionOnSet(extra, S)
  BY <1>8, SumOfPlus
<1>13. 1 * r = r
  OBVIOUS
<1> QED
  BY <1>3, <1>6, <1>8, <1>10, <1>11, <1>12, <1>13

\* Of some hands one is the best.
LEMMA WinnersExist ==
    ASSUME NEW S, IsFiniteSet(S), S # {}, NEW st, \A i \in S : st[i] \in Int
    PROVE  Winners(st, S) # {} /\ Winners(st, S) \subseteq S
<1> DEFINE good == {T \in SUBSET S : T # {} => \E i \in T : \A j \in T : st[j] <= st[i]}
<1>1. {} \in good
  OBVIOUS
<1>2. ASSUME NEW T \in SUBSET S, NEW z \in S \ T, T \in good PROVE T \cup {z} \in good
  <2>1. CASE T = {}
    <3>1. st[z] <= st[z]
      OBVIOUS
    <3> QED
      BY <2>1, <3>1
  <2>2. CASE T # {}
    <3>1. PICK i \in T : \A j \in T : st[j] <= st[i]
      BY <1>2, <2>2
    <3>2. \E k \in T \cup {z} : \A j \in T \cup {z} : st[j] <= st[k]
      <4>1. CASE st[z] <= st[i]
        BY <3>1, <4>1
      <4>2. CASE ~(st[z] <= st[i])
        BY <3>1, <4>2
      <4> QED
        BY <4>1, <4>2
    <3> QED
      BY <3>2
  <2> QED
    BY <2>1, <2>2
<1> HIDE DEF good
<1>3. S \in good
  BY <1>1, <1>2, SubsetInduction
<1>4. \E i \in S : \A j \in S : st[j] <= st[i]
  BY <1>3 DEF good
<1> QED
  BY <1>4 DEF Winners

\* What the seats put in according to c, of each no more than a.
SumUpTo(c, a) == SumFunctionOnSet([j \in Seats |-> AtMost(c[j], a)], Seats)

Deepest(c, k) == Max({c[i] : i \in k})

\* The levels above sh up to which the pot is not shared out yet.
LevelsLeft(c, sh) == {l \in Levels(c) : l > sh}

\* The inductive invariant of a showdown, as a relation of its five variables: the
\* layers up to sh are paid out, to the contenders, and to each of them at most
\* (to the best hand: exactly) what it matched.
Fair(c, k, st, sh, cr) ==
    /\ c \in [Seats -> Nat] /\ st \in [Seats -> Int] /\ cr \in [Seats -> Nat]
    /\ k \subseteq Seats /\ k # {}
    /\ sh \in Levels(c) \cup {0}
    /\ SumFunctionOnSet(cr, Seats) = SumUpTo(c, AtMost(sh, Deepest(c, k)))
    /\ \A i \in Seats \ k : cr[i] = 0
    /\ \A i \in k : cr[i] <= SumUpTo(c, AtMost(sh, c[i]))
    /\ \A i \in k : Winners(st, k) = {i} => cr[i] = SumUpTo(c, AtMost(sh, c[i]))

\* The levels of the bets are positive numbers, one for every bet.
LEMMA LevelsOfBets ==
    ASSUME NEW c \in [Seats -> Nat]
    PROVE  /\ IsFiniteSet(Levels(c)) /\ Levels(c) \subseteq Nat
           /\ \A i \in Seats : c[i] \in Levels(c) \/ c[i] = 0
<1>1. IsFiniteSet({c[i] : i \in Seats})
  BY SeatsAreFinite, FiniteImage
<1>2. Levels(c) \subseteq {c[i] : i \in Seats}
  BY DEF Levels
<1>3. IsFiniteSet(Levels(c))
  BY <1>1, <1>2, FS_Subset
<1>4. Levels(c) \subseteq Nat /\ \A i \in Seats : c[i] \in Levels(c) \/ c[i] = 0
  BY DEF Levels
<1> QED
  BY <1>3, <1>4

\* The deepest bet of those still in the hand.
LEMMA DeepestIsDeepest ==
    ASSUME NEW c \in [Seats -> Nat], NEW k \in SUBSET Seats, k # {}
    PROVE  /\ Deepest(c, k) \in Nat
           /\ \A i \in k : c[i] <= Deepest(c, k)
           /\ \E i \in k : c[i] = Deepest(c, k)
<1> DEFINE bets == {c[i] : i \in k}
<1>1. IsFiniteSet(k)
  BY SeatsAreFinite, FS_Subset
<1>2. IsFiniteSet(bets)
  BY <1>1, FiniteImage
<1>3. bets # {} /\ bets \subseteq Int /\ bets \subseteq Nat
  OBVIOUS
<1> HIDE DEF bets
<1>4. Max(bets) \in bets /\ \A x \in bets : x <= Max(bets)
  BY <1>2, <1>3, Extremes
<1>5. Deepest(c, k) = Max(bets)
  BY DEF Deepest, bets
<1> QED
  BY <1>3, <1>4, <1>5 DEF bets

\* The layer between sh and the next level: who is in it and what it is worth.
LEMMA NextLayer ==
    ASSUME NEW c \in [Seats -> Nat], NEW sh \in Levels(c) \cup {0}, LevelsLeft(c, sh) # {}
    PROVE  LET level == Min(LevelsLeft(c, sh))
           IN  /\ level \in Levels(c) /\ level \in Nat /\ sh \in Nat /\ sh < level
               /\ \A i \in Seats : c[i] <= sh \/ c[i] >= level
               /\ Layer(c, level).contributors = {i \in Seats : c[i] >= level}
               /\ Layer(c, level).amount \in Nat
               /\ SumUpTo(c, level) = SumUpTo(c, sh) + Layer(c, level).amount
<1> DEFINE left == LevelsLeft(c, sh)
<1> DEFINE level == Min(left)
<1> DEFINE below == {l \in Levels(c) : l < level} \cup {0}
<1> DEFINE contributors == {i \in Seats : c[i] >= level}
<1>1. /\ IsFiniteSet(Levels(c)) /\ Levels(c) \subseteq Nat
      /\ \A i \in Seats : c[i] \in Levels(c) \/ c[i] = 0
  BY LevelsOfBets
<1>2. left \subseteq Levels(c) /\ left # {} /\ \A l \in Levels(c) : l > sh <=> l \in left
  BY DEF LevelsLeft
<1> HIDE DEF left
<1>3. IsFiniteSet(left) /\ left \subseteq Int
  BY <1>1, <1>2, FS_Subset
<1>4. level \in left /\ \A l \in left : level <= l
  BY <1>2, <1>3, Extremes
<1> HIDE DEF level
<1>5. level \in Levels(c) /\ level \in Nat /\ sh \in Nat /\ sh < level
  BY <1>1, <1>2, <1>4
<1>6. \A i \in Seats : c[i] <= sh \/ c[i] >= level
  BY <1>1, <1>2, <1>4, <1>5
<1>7. Max(below) = sh
  <2>1. sh \in below
    BY <1>5
  <2>2. \A l \in below : l <= sh
    BY <1>1, <1>2, <1>4, <1>5
  <2>3. below \subseteq Int /\ below # {}
    BY <1>1
  <2>4. IsFiniteSet(below)
    <3>1. IsFiniteSet({l \in Levels(c) : l < level})
      BY <1>1, FS_Subset
    <3> QED
      BY <3>1, FS_AddElement
  <2> HIDE DEF below
  <2>5. Max(below) \in below /\ sh <= Max(below)
    BY <2>1, <2>3, <2>4, Extremes
  <2>6. Max(below) <= sh /\ Max(below) \in Int
    BY <2>2, <2>3, <2>5
  <2> QED
    BY <1>5, <2>5, <2>6
<1>8. /\ Layer(c, level).contributors = contributors
      /\ Layer(c, level).amount = (level - sh) * Cardinality(contributors)
  BY <1>7 DEF Layer
<1>9. IsFiniteSet(Seats) /\ contributors \in SUBSET Seats
  BY SeatsAreFinite
<1>10. Cardinality(contributors) \in Nat
  <2> HIDE DEF contributors
  <2> QED
    BY <1>9, FS_Subset, FS_CardinalityType
<1>11. level - sh \in Nat
  BY <1>5
<1>12. (level - sh) * Cardinality(contributors) \in Nat
  <2>1. \A m, n \in Nat : m * n \in Nat
    OBVIOUS
  <2> QED
    BY <1>10, <1>11, <2>1, Zenon
<1>13. SumUpTo(c, level) = SumUpTo(c, sh) + (level - sh) * Cardinality(contributors)
  <2> DEFINE f == [j \in Seats |-> AtMost(c[j], sh)]
  <2> DEFINE g == [j \in Seats |-> IF j \in contributors THEN level - sh ELSE 0]
  <2> DEFINE h == [j \in Seats |-> AtMost(c[j], level)]
  <2>1. \A j \in Seats : f[j] \in Int /\ g[j] \in Int /\ h[j] = f[j] + g[j]
    BY <1>5, <1>6 DEF AtMost
  <2>2. \A j \in Seats : g[j] = IF j \in contributors THEN level - sh ELSE 0
    OBVIOUS
  <2>3. level - sh \in Int
    BY <1>11
  <2> HIDE DEF f, g, h, contributors
  <2>4. SumFunctionOnSet(h, Seats) = SumFunctionOnSet(f, Seats) + SumFunctionOnSet(g, Seats)
    BY <1>9, <2>1, SumOfPlus
  <2>5. SumFunctionOnSet(g, Seats) = (level - sh) * Cardinality(contributors)
    BY <1>9, <2>2, <2>3, SumOfEqual
  <2> QED
    BY <2>4, <2>5 DEF SumUpTo, f, h
<1> QED
  BY <1>5, <1>6, <1>8, <1>12, <1>13 DEF level, left

\* What the contenders get of a layer: all of it if one of them is in it.
LayerIsShared(c, k, st, level) ==
    LET sharing == Layer(c, level).contributors \cap k
        share == [i \in Seats |-> Share(c, k, st, level, i)]
    IN  /\ \A i \in Seats : share[i] \in Nat
        /\ \A i \in Seats \ sharing : share[i] = 0
        /\ sharing = {} => SumFunctionOnSet(share, Seats) = 0
        /\ sharing # {} => SumFunctionOnSet(share, Seats) = Layer(c, level).amount
        /\ \A i \in Seats : share[i] <= Layer(c, level).amount
        /\ \A i \in Seats : Winners(st, sharing) = {i} => share[i] = Layer(c, level).amount

\* A layer is shared among the seats in it that won it, or among all of them.
LEMMA SharesOfLayer ==
    ASSUME NEW c, NEW k \in SUBSET Seats, NEW st \in [Seats -> Int], NEW level,
           Layer(c, level).contributors \subseteq Seats, Layer(c, level).amount \in Nat
    PROVE  LayerIsShared(c, k, st, level)
<1> DEFINE sharing == Layer(c, level).contributors \cap k
<1> DEFINE share == [i \in Seats |-> Share(c, k, st, level, i)]
<1> DEFINE a == Layer(c, level).amount
<1> DEFINE W == Winners(st, sharing)
<1>0. IsFiniteSet(Seats) /\ Seats \subseteq Nat
  BY SeatsAreFinite
<1>1. sharing \subseteq Seats /\ IsFiniteSet(sharing)
  BY <1>0, FS_Subset
<1>2. a \in Nat
  OBVIOUS
<1>3. \A i \in Seats : share[i] = Part(W, a, i)
  BY Zenon DEF Share, Part
<1>4. W \subseteq sharing /\ \A i \in Seats \ W : Part(W, a, i) = 0
  BY DEF Winners, Part
<1> HIDE DEF share, a, W, sharing
<1>5. CASE sharing = {}
  <2>1. \A i \in Seats : share[i] = 0
    BY <1>3, <1>4, <1>5
  <2>2. SumFunctionOnSet(share, Seats) = 0
    BY <1>0, <2>1, SumOfZeros
  <2>3. \A i \in Seats : W # {i}
    BY <1>4, <1>5
  <2>4. /\ \A i \in Seats : share[i] \in Nat /\ share[i] <= a
        /\ \A i \in Seats \ sharing : share[i] = 0
    BY <1>2, <2>1
  <2> QED
    BY <1>5, <2>2, <2>3, <2>4 DEF LayerIsShared, share, a, W, sharing
<1>6. CASE sharing # {}
  <2>1. \A i \in sharing : st[i] \in Int
    BY <1>1
  <2>2. W # {}
    BY <1>1, <1>6, <2>1, WinnersExist DEF W
  <2>3. W \in SUBSET Seats
    BY <1>1, <1>4
  <2>4. SumFunctionOnSet(share, Seats) = a /\ \A i \in Seats : share[i] \in Nat
    BY <1>0, <1>2, <1>3, <2>2, <2>3, SplitAddsUp
  <2>5. \A i \in Seats \ sharing : share[i] = 0
    BY <1>3, <1>4
  <2>6. \A i \in Seats : share[i] <= a
    BY <1>0, <2>4, SumIsAtLeastEach
  <2>7. \A i \in Seats : W = {i} => share[i] = a
    <3> TAKE i \in Seats
    <3> SUFFICES ASSUME W = {i} PROVE share[i] = a
      OBVIOUS
    <3>1. \A x \in Seats : x # i => share[x] = 0
      BY <1>3, <1>4
    <3>2. share[i] \in Int
      BY <2>4
    <3> QED
      BY <1>0, <2>4, <3>1, <3>2, SumOfOnly
  <2> QED
    BY <1>6, <2>4, <2>5, <2>6, <2>7 DEF LayerIsShared, share, a, W, sharing
<1> QED
  BY <1>5, <1>6

LEMMA AtMostIsNat == \A a, b \in Nat : AtMost(a, b) \in Nat
  BY DEF AtMost

LEMMA SumUpToIsNat ==
    ASSUME NEW c \in [Seats -> Nat], NEW a \in Nat
    PROVE  SumUpTo(c, a) \in Nat
<1> DEFINE f == [j \in Seats |-> AtMost(c[j], a)]
<1>1. \A j \in Seats : f[j] \in Nat
  BY DEF AtMost
<1> HIDE DEF f
<1>2. SumFunctionOnSet(f, Seats) \in Nat
  BY <1>1, SeatsAreFinite, SumIsNat
<1> QED
  BY <1>2 DEF SumUpTo, f

\* Paying out one more layer keeps a showdown fair.
LEMMA LayerKeepsItFair ==
    ASSUME NEW c, NEW k, NEW st, NEW sh, NEW cr, Fair(c, k, st, sh, cr),
           LevelsLeft(c, sh) # {}
    PROVE  LET level == Min(LevelsLeft(c, sh))
           IN  Fair(c, k, st, level,
                    [i \in Seats |-> cr[i] + Share(c, k, st, level, i)])
<1> DEFINE level == Min(LevelsLeft(c, sh))
<1> DEFINE amount == Layer(c, level).amount
<1> DEFINE sharing == Layer(c, level).contributors \cap k
<1> DEFINE share == [i \in Seats |-> Share(c, k, st, level, i)]
<1> DEFINE paid == [i \in Seats |-> cr[i] + Share(c, k, st, level, i)]
<1> DEFINE deepest == Deepest(c, k)
<1>1. /\ c \in [Seats -> Nat] /\ st \in [Seats -> Int] /\ cr \in [Seats -> Nat]
      /\ k \in SUBSET Seats /\ k # {}
      /\ sh \in Levels(c) \cup {0}
  BY DEF Fair
<1>2. /\ SumFunctionOnSet(cr, Seats) = SumUpTo(c, AtMost(sh, deepest))
      /\ \A i \in Seats \ k : cr[i] = 0
      /\ \A i \in k : cr[i] <= SumUpTo(c, AtMost(sh, c[i]))
      /\ \A i \in k : Winners(st, k) = {i} => cr[i] = SumUpTo(c, AtMost(sh, c[i]))
  BY DEF Fair
<1>3. /\ level \in Levels(c) /\ level \in Nat /\ sh \in Nat /\ sh < level
      /\ \A i \in Seats : c[i] <= sh \/ c[i] >= level
      /\ Layer(c, level).contributors = {i \in Seats : c[i] >= level}
      /\ amount \in Nat
      /\ SumUpTo(c, level) = SumUpTo(c, sh) + amount
  BY <1>1, NextLayer
<1>4. deepest \in Nat /\ (\A i \in k : c[i] <= deepest) /\ \E i \in k : c[i] = deepest
  BY <1>1, DeepestIsDeepest
<1>5. \A i \in k : (i \in sharing <=> c[i] >= level) /\ c[i] \in Nat
  BY <1>1, <1>3
<1> HIDE DEF level
<1>6. /\ \A i \in Seats : share[i] \in Nat
      /\ \A i \in Seats \ sharing : share[i] = 0
      /\ sharing = {} => SumFunctionOnSet(share, Seats) = 0
      /\ sharing # {} => SumFunctionOnSet(share, Seats) = amount
      /\ \A i \in Seats : share[i] <= amount
      /\ \A i \in Seats : Winners(st, sharing) = {i} => share[i] = amount
  <2>1. Layer(c, level).contributors \subseteq Seats
    BY <1>3
  <2>2. Layer(c, level).amount \in Nat
    BY <1>3
  <2>3. k \in SUBSET Seats /\ st \in [Seats -> Int]
    BY <1>1
  <2>4. LayerIsShared(c, k, st, level)
    BY <2>1, <2>2, <2>3, SharesOfLayer
  <2> QED
    BY <2>4 DEF LayerIsShared
<1>7. \A i \in Seats : paid[i] = cr[i] + share[i]
  OBVIOUS
<1>8. sharing \subseteq k
  OBVIOUS
<1>17. DOMAIN paid = Seats /\ paid = [i \in Seats |-> paid[i]]
  OBVIOUS
<1> HIDE DEF amount, sharing, share, paid, deepest
<1>18. SumUpTo(c, sh) \in Nat /\ SumUpTo(c, level) \in Nat
  BY <1>1, <1>3, SumUpToIsNat
\* What a contender can have won, before and after this layer.
<1>9. \A i \in k \ sharing : c[i] <= sh /\ AtMost(sh, c[i]) = c[i] /\ AtMost(level, c[i]) = c[i]
  BY <1>1, <1>3, <1>5 DEF AtMost
<1>10. \A i \in sharing : AtMost(sh, c[i]) = sh /\ AtMost(level, c[i]) = level
  BY <1>3, <1>5, <1>8 DEF AtMost
<1>11. paid \in [Seats -> Nat]
  <2>1. \A i \in Seats : paid[i] \in Nat
    BY <1>1, <1>6, <1>7
  <2> QED
    BY <1>17, <2>1
<1>12. SumFunctionOnSet(paid, Seats)
         = SumFunctionOnSet(cr, Seats) + SumFunctionOnSet(share, Seats)
  <2>1. /\ \A i \in Seats : cr[i] \in Int
        /\ \A i \in Seats : share[i] \in Int
    BY <1>1, <1>6
  <2> QED
    BY <1>7, <2>1, SeatsAreFinite, SumOfPlus
<1>13. SumFunctionOnSet(paid, Seats) = SumUpTo(c, AtMost(level, deepest))
  <2>1. CASE sharing = {}
    <3>1. \A i \in k : c[i] <= sh
      BY <1>9, <2>1
    <3>2. deepest <= sh
      BY <1>4, <3>1
    <3>3. AtMost(sh, deepest) = deepest /\ AtMost(level, deepest) = deepest
      BY <1>3, <1>4, <3>2 DEF AtMost
    <3>4. SumUpTo(c, deepest) \in Nat
      BY <1>1, <1>4, SumUpToIsNat
    <3> QED
      BY <1>2, <1>6, <1>12, <2>1, <3>3, <3>4
  <2>2. CASE sharing # {}
    <3>1. PICK i \in sharing : TRUE
      BY <2>2
    <3>2. level <= deepest
      BY <1>3, <1>4, <1>5, <1>8, <3>1
    <3>3. AtMost(sh, deepest) = sh /\ AtMost(level, deepest) = level
      BY <1>3, <1>4, <3>2 DEF AtMost
    <3> QED
      BY <1>2, <1>3, <1>6, <1>12, <2>2, <3>3
  <2> QED
    BY <2>1, <2>2
<1>14. \A i \in Seats \ k : paid[i] = 0
  BY <1>2, <1>6, <1>7, <1>8
<1>15. \A i \in k : paid[i] <= SumUpTo(c, AtMost(level, c[i]))
  <2> TAKE i \in k
  <2>1. i \in Seats /\ cr[i] \in Nat /\ share[i] \in Nat
    BY <1>1, <1>6
  <2>2. CASE i \in sharing
    <3>1. cr[i] <= SumUpTo(c, sh) /\ share[i] <= amount /\ paid[i] = cr[i] + share[i]
      BY <1>2, <1>6, <1>7, <1>10, <2>1, <2>2
    <3>2. SumUpTo(c, AtMost(level, c[i])) = SumUpTo(c, sh) + amount
      BY <1>3, <1>10, <2>2
    <3> QED
      BY <1>3, <1>18, <2>1, <3>1, <3>2
  <2>3. CASE i \notin sharing
    <3>1. cr[i] <= SumUpTo(c, AtMost(level, c[i])) /\ share[i] = 0 /\ paid[i] = cr[i] + share[i]
      BY <1>2, <1>6, <1>7, <1>9, <2>1, <2>3
    <3> QED
      BY <2>1, <3>1
  <2> QED
    BY <2>2, <2>3
<1>16. \A i \in k : Winners(st, k) = {i} => paid[i] = SumUpTo(c, AtMost(level, c[i]))
  <2> TAKE i \in k
  <2> SUFFICES ASSUME Winners(st, k) = {i}
               PROVE  paid[i] = SumUpTo(c, AtMost(level, c[i]))
    OBVIOUS
  <2>1. i \in Seats /\ cr[i] \in Nat /\ share[i] \in Nat
    BY <1>1, <1>6
  <2>2. CASE i \in sharing
    <3>1. Winners(st, sharing) = {i}
      <4>1. i \in Winners(st, sharing)
        BY <1>8, <2>2 DEF Winners
      <4>2. ASSUME NEW j \in Winners(st, sharing) PROVE j = i
        <5>1. j \in k /\ st[i] <= st[j]
          BY <1>8, <2>2, <4>2 DEF Winners
        <5>2. \A l \in k : st[l] <= st[i]
          BY DEF Winners
        <5>3. \A l \in k : st[l] \in Int
          BY <1>1
        <5>4. \A l \in k : st[l] <= st[j]
          BY <5>1, <5>2, <5>3
        <5> QED
          BY <5>1, <5>4 DEF Winners
      <4> QED
        BY <4>1, <4>2
    <3>2. cr[i] = SumUpTo(c, sh) /\ share[i] = amount /\ paid[i] = cr[i] + share[i]
      BY <1>2, <1>6, <1>7, <1>10, <2>1, <2>2, <3>1
    <3> QED
      BY <1>3, <1>10, <2>2, <3>2
  <2>3. CASE i \notin sharing
    <3>1. cr[i] = SumUpTo(c, AtMost(level, c[i])) /\ share[i] = 0 /\ paid[i] = cr[i] + share[i]
      BY <1>2, <1>6, <1>7, <1>9, <2>1, <2>3
    <3> QED
      BY <2>1, <3>1
  <2> QED
    BY <2>2, <2>3
<1>19. Fair(c, k, st, level, paid)
  BY <1>1, <1>3, <1>11, <1>13, <1>14, <1>15, <1>16 DEF Fair, deepest
<1> QED
  BY <1>19 DEF level, paid

ShowdownInv == Fair(committed, contenders, strength, shared, credits)

\* Every step of a showdown keeps the relation of the five variables.
THEOREM ShowdownInvariant == ShowdownSpec => []ShowdownInv
<1>1. ShowdownInit => ShowdownInv
  <2> SUFFICES ASSUME ShowdownInit PROVE ShowdownInv
    OBVIOUS
  <2>1. /\ committed \in [Seats -> Nat] /\ strength \in [Seats -> Int]
        /\ contenders \in SUBSET Seats /\ contenders # {}
        /\ shared = 0 /\ credits = [i \in Seats |-> 0]
    BY ShowdownAssumption DEF ShowdownInit
  <2>2. credits \in [Seats -> Nat] /\ \A i \in Seats : credits[i] = 0
    BY <2>1
  <2>3. \A a \in Nat : AtMost(0, a) = 0 /\ AtMost(a, 0) = 0
    BY DEF AtMost
  <2>4. Deepest(committed, contenders) \in Nat
    BY <2>1, DeepestIsDeepest
  <2>5. SumUpTo(committed, 0) = 0
    <3> DEFINE f == [j \in Seats |-> AtMost(committed[j], 0)]
    <3>1. \A j \in Seats : f[j] = 0
      BY <2>1, <2>3
    <3> HIDE DEF f
    <3>2. SumFunctionOnSet(f, Seats) = 0
      BY <3>1, SeatsAreFinite, SumOfZeros
    <3> QED
      BY <3>2 DEF SumUpTo, f
  <2>6. SumFunctionOnSet(credits, Seats) = 0
    BY <2>2, SeatsAreFinite, SumOfZeros
  <2>7. \A i \in contenders : AtMost(0, committed[i]) = 0 /\ credits[i] = 0
    BY <2>1, <2>2, <2>3
  <2> QED
    BY <2>1, <2>2, <2>3, <2>4, <2>5, <2>6, <2>7 DEF ShowdownInv, Fair
<1>2. ShowdownInv /\ [ShowdownNext]_showdownVars => ShowdownInv'
  <2> SUFFICES ASSUME ShowdownInv, [ShowdownNext]_showdownVars PROVE ShowdownInv'
    OBVIOUS
  <2>1. CASE AwardLayer
    <3>1. /\ LevelsLeft(committed, shared) # {}
          /\ shared' = Min(LevelsLeft(committed, shared))
          /\ credits' = [i \in Seats |-> credits[i]
               + Share(committed, contenders, strength, Min(LevelsLeft(committed, shared)), i)]
          /\ UNCHANGED <<committed, contenders, strength>>
      BY <2>1 DEF AwardLayer, LevelsLeft
    <3>2. Fair(committed, contenders, strength, shared', credits')
      BY <3>1, LayerKeepsItFair DEF ShowdownInv
    <3> QED
      BY <3>1, <3>2 DEF ShowdownInv
  <2>2. CASE UNCHANGED showdownVars
    BY <2>2 DEF ShowdownInv, showdownVars
  <2> QED
    BY <2>1, <2>2 DEF ShowdownNext
<1> QED
  BY <1>1, <1>2, PTL DEF ShowdownSpec

\* credits_from_awards: what the layers pay out is all that the contenders matched,
\* a seat gets no more than it matched, and the one best hand gets all of that.
THEOREM ShowdownIsAlwaysFair == ShowdownSpec => []ShowdownIsFair
<1>1. ShowdownInv => ShowdownIsFair
  <2> SUFFICES ASSUME ShowdownInv, SharedOut
               PROVE  /\ Total(credits) = UpTo(Max({committed[i] : i \in contenders}))
                      /\ \A i \in Seats :
                           /\ credits[i] <= (IF i \in contenders THEN Matched(i) ELSE 0)
                           /\ Winners(strength, contenders) = {i} => credits[i] = Matched(i)
    BY DEF ShowdownIsFair, PotIsSharedOut, BestHandTakesWhatItMatched
  <2> DEFINE deepest == Deepest(committed, contenders)
  <2>1. /\ committed \in [Seats -> Nat] /\ strength \in [Seats -> Int]
        /\ credits \in [Seats -> Nat]
        /\ contenders \in SUBSET Seats /\ contenders # {}
        /\ shared \in Levels(committed) \cup {0}
        /\ SumFunctionOnSet(credits, Seats) = SumUpTo(committed, AtMost(shared, deepest))
    BY DEF ShowdownInv, Fair
  <2>2. /\ \A i \in Seats \ contenders : credits[i] = 0
        /\ \A i \in contenders : credits[i] <= SumUpTo(committed, AtMost(shared, committed[i]))
        /\ \A i \in contenders : Winners(strength, contenders) = {i} =>
              credits[i] = SumUpTo(committed, AtMost(shared, committed[i]))
    BY DEF ShowdownInv, Fair
  <2>3. shared \in Nat /\ \A i \in Seats : committed[i] <= shared
    <3>1. Levels(committed) \subseteq Nat
      BY <2>1, LevelsOfBets
    <3>2. \A l \in Levels(committed) : ~ (l > shared)
      BY DEF SharedOut
    <3>3. \A i \in Seats : committed[i] \in Levels(committed) \/ committed[i] = 0
      BY <2>1, LevelsOfBets
    <3> QED
      BY <2>1, <3>1, <3>2, <3>3
  <2>4. \A a \in Nat : a <= shared => AtMost(shared, a) = a
    BY <2>3 DEF AtMost
  <2>5. deepest \in Nat /\ \E i \in contenders : committed[i] = deepest
    BY <2>1, DeepestIsDeepest
  <2> HIDE DEF deepest
  <2>6. AtMost(shared, deepest) = deepest
    BY <2>1, <2>3, <2>4, <2>5
  <2>7. \A i \in Seats : AtMost(shared, committed[i]) = committed[i]
    BY <2>1, <2>3, <2>4
  <2>8. \A a : UpTo(a) = SumUpTo(committed, a)
    BY DEF UpTo, SumUpTo, SumFunction
  <2>9. Total(credits) = SumFunctionOnSet(credits, Seats)
    BY SumOfValues DEF Total
  <2>10. Total(credits) = UpTo(deepest)
    BY <2>1, <2>6, <2>8, <2>9
  <2>11. ASSUME NEW i \in Seats
         PROVE  /\ credits[i] <= (IF i \in contenders THEN Matched(i) ELSE 0)
                /\ Winners(strength, contenders) = {i} => credits[i] = Matched(i)
    <3>1. i \in contenders => credits[i] <= Matched(i)
      BY <2>2, <2>7, <2>8 DEF Matched
    <3>2. i \notin contenders => credits[i] <= 0
      BY <2>2
    <3>3. Winners(strength, contenders) = {i} => i \in contenders
      BY DEF Winners
    <3>4. Winners(strength, contenders) = {i} => credits[i] = Matched(i)
      BY <2>2, <2>7, <2>8, <3>3 DEF Matched
    <3> QED
      BY <3>1, <3>2, <3>4
  <2>12. Total(credits) = UpTo(Max({committed[i] : i \in contenders}))
    BY <2>10 DEF deepest, Deepest
  <2> QED
    BY <2>11, <2>12
<1> QED
  BY <1>1, ShowdownInvariant, PTL

-----------------------------------------------------------------------------
(* The table, between two steps and inside one.                            *)

SeatStates ==
    [user : Players \cup {None}, stack : Int, dealt : BOOLEAN, folded : BOOLEAN,
     all_in : BOOLEAN, acted : BOOLEAN, leaving : BOOLEAN, auto : BOOLEAN,
     committed : Nat, street : Nat, pending : Pendings \cup {None},
     missed : 0 .. MaxMissedActions]

Dues == [user : Players, credit : Nat]

SeatOrNone == Seats \cup {None}

Tables ==
    [phase : Phases, hand : 0 .. MaxHands, dealer : SeatOrNone, big : SeatOrNone,
     active : SeatOrNone, bet : Nat, min_raise : Nat, blinds : Nat, countdown : SeatOrNone,
     settling : BOOLEAN, due : SUBSET Dues, reveal : BOOLEAN, seat : [Seats -> SeatStates]]

\* What holds of every table a handler makes, whatever went wrong before.
Well(t) ==
    /\ t \in Tables /\ IsFiniteSet(t.due)
    /\ \A i \in Seats :
          /\ t.seat[i].street <= t.bet /\ t.seat[i].street <= t.seat[i].committed
          /\ t.seat[i].pending # None =>
                t.seat[i].street + t.seat[i].pending.amount <= t.seat[i].pending.target
          /\ t.dealer = None \/ t.seat[i].user = None => ~t.seat[i].dealt
          /\ t.hand = 0 => t.seat[i].pending = None
    /\ \A i, j \in Seats : i # j /\ t.seat[i].user # None => t.seat[i].user # t.seat[j].user
    /\ t.phase = "PostingBlinds" => t.big \in Seats
    /\ t.hand = 0 => t.phase = "Waiting"

Vacant(t) == \A i \in Seats : t.seat[i].user = None => t.seat[i] = EmptySeat

Quiet(t) == \A i \in Seats : t.seat[i].pending = None

\* Nothing is to be settled.
Even(t) == t.due = {} /\ ~t.reveal

\* Before this street, nobody put in more than a seat that can still bet.
Levelled(t) ==
    \A i \in Actionable(t), j \in Seats :
        t.seat[j].committed - t.seat[j].street <= t.seat[i].committed - t.seat[i].street

AllMatched(t) ==
    \A i \in Actionable(t), j \in Seats : t.seat[j].committed <= t.seat[i].committed

\* At least two seats are in the hand.
Contested(t) == \E i, j \in Active(t) : i # j

Playing(t) ==
    /\ ActionPhase(t) /\ ~t.settling /\ Even(t)
    /\ \A i \in Seats : t.seat[i].committed > 0 => t.seat[i].dealt

Betting(t) ==
    /\ Playing(t) /\ Levelled(t) /\ Contested(t)
    /\ t.active \in Actionable(t)
    /\ \A i \in Seats : t.seat[i].pending # None => i = t.active

Posting(t) ==
    /\ t.phase = "PostingBlinds" /\ ~t.settling /\ Even(t)
    /\ \A i \in Seats :
          /\ t.seat[i].committed = t.seat[i].street
          /\ t.seat[i].committed > 0 \/ t.seat[i].pending # None => i \in Active(t)
          /\ t.seat[i].pending # None => t.seat[i].committed = 0

Idle(t) == t.phase \in {"Waiting", "Showdown"} /\ Quiet(t) /\ Even(t)

Commits == [req : Nat, seat : Seats, amount : Nat \ {0}, hand : Hands,
            st : {"asked", "debited", "failed"}]

Payouts == [hand : Hands, due : SUBSET Dues, st : {"asked", "done", "failed"}]

Books == [taken : Nat, strayed : Nat, pot : Nat, paid : Nat, unpaid : Nat, settled : Nat,
          cut : BOOLEAN]

Blank == [taken |-> 0, strayed |-> 0, pot |-> 0, paid |-> 0, unpaid |-> 0, settled |-> 0,
          cut |-> FALSE]

\* What the debits of a set took for hand h.
DebitedBy(c, h) == IF c.hand = h /\ c.st = "debited" THEN c.amount ELSE 0

Debited(set, h) == SumFunction([c \in set |-> DebitedBy(c, h)])

\* What the payouts of a set are about to pay for hand h.
AskedBy(p, h) == IF p.hand = h /\ p.st = "asked" THEN Sum(p.due) ELSE 0

Asked(set, h) == SumFunction([p \in set |-> AskedBy(p, h)])

Typed ==
    /\ Well(table) /\ Even(table)
    /\ commits \subseteq Commits /\ IsFiniteSet(commits)
    /\ payouts \subseteq Payouts /\ IsFiniteSet(payouts)
    /\ \A p \in payouts : IsFiniteSet(p.due)
    /\ books \in [Hands -> Books] /\ oddities \in Nat
    /\ \A c \in commits : c.hand <= table.hand
    /\ \A p \in payouts : p.hand <= table.hand
    /\ \A h \in Hands : h > table.hand => books[h] = Blank

Tracked ==
    /\ \A i \in Seats : table.seat[i].pending # None => \E c \in commits : c.seat = i
    /\ \A c \in commits : /\ c.hand = table.hand /\ Awaited(table, c)
                          /\ c.amount = table.seat[c.seat].pending.amount
    /\ \A c, d \in commits : c.seat = d.seat => c = d
    /\ table.phase = "PostingBlinds" => table.blinds > 0 /\ table.blinds = Cardinality(commits)

Turned ==
    /\ Vacant(table)
    /\ Betting(table) \/ Posting(table) \/ Idle(table)
    /\ ActionPhase(table) =>
          table.countdown = IF table.seat[table.active].pending = None THEN table.active ELSE None

Settling ==
    /\ \A p \in payouts : p.hand = table.hand /\ table.settling /\ table.phase = "Showdown"
    /\ \A p, q \in payouts : p = q
    /\ InHand(table) => LET b == books[table.hand]
                        IN  b.pot = 0 /\ b.settled = 0 /\ b.paid = 0 /\ b.unpaid = 0

Present ==
    table.hand > 0 =>
        LET b == books[table.hand] IN
        /\ b.taken = b.strayed + Debited(commits, table.hand) + IF InHand(table) THEN Pot(table) ELSE b.pot
        /\ b.settled <= b.pot
        /\ b.settled = b.paid + b.unpaid + Asked(payouts, table.hand)

Past ==
    \A h \in Hands : h < table.hand /\ Whole(h) =>
        /\ \A c \in commits : c.hand # h
        /\ \A p \in payouts : p.hand # h
        /\ books[h].taken = books[h].strayed + books[h].pot
        /\ books[h].settled = books[h].paid + books[h].unpaid
        /\ books[h].settled <= books[h].pot

PokerInv == Typed /\ (Whole(table.hand) => Tracked /\ Turned /\ Settling /\ Present) /\ Past

\* A street is neither the start nor the end of a hand.
LEMMA PhaseFacts ==
    /\ \A p \in Range(Streets) : p \in Phases /\ p \notin {"Waiting", "PostingBlinds", "Showdown"}
    /\ "PreFlop" \in Range(Streets)
    /\ "Waiting" \in Phases /\ "PostingBlinds" \in Phases /\ "Showdown" \in Phases
<1>1. Range(Streets) \subseteq {"PreFlop", "Flop", "Turn", "River"}
  BY PokerAssumption DEF Range
<1>2. "PreFlop" \in Range(Streets)
  <2>1. Streets \in Seq({"PreFlop", "Flop", "Turn", "River"}) /\ Len(Streets) >= 2
        /\ Head(Streets) = "PreFlop"
    BY PokerAssumption
  <2>2. 1 \in DOMAIN Streets /\ Streets[1] = "PreFlop"
    BY <2>1
  <2> QED
    BY <2>2 DEF Range
<1> QED
  BY <1>1, <1>2 DEF Phases

\* There is a street after every one but the River.
LEMMA NextStreet ==
    ASSUME NEW phase \in Range(Streets), phase # "River"
    PROVE  LET at == {k \in 1 .. Len(Streets) : Streets[k] = phase}
           IN  at # {} /\ Streets[Max(at) + 1] \in Range(Streets)
<1> DEFINE n == Len(Streets)
<1> DEFINE at == {k \in 1 .. n : Streets[k] = phase}
<1>1. n \in Nat /\ n >= 2 /\ DOMAIN Streets = 1 .. n /\ Streets[n] = "River"
  BY PokerAssumption DEF Last
<1>2. at # {} /\ at \subseteq 1 .. n /\ at \subseteq Int
  BY <1>1 DEF Range
<1>3. IsFiniteSet(at)
  <2>1. IsFiniteSet(1 .. n)
    BY <1>1, FS_Interval
  <2> QED
    BY <1>2, <2>1, FS_Subset
<1>4. Max(at) \in at
  <2> HIDE DEF at
  <2> QED
    BY <1>2, <1>3, Extremes
<1>5. Max(at) \in 1 .. n /\ Max(at) # n
  BY <1>1, <1>4
<1>6. Max(at) + 1 \in DOMAIN Streets
  <2> DEFINE m == Max(at)
  <2>1. m \in 1 .. n /\ m # n
    BY <1>5
  <2> HIDE DEF m, at
  <2> QED
    BY <1>1, <2>1 DEF m
<1>7. Streets[Max(at) + 1] \in Range(Streets)
  <2> HIDE DEF at
  <2> QED
    BY <1>6 DEF Range
<1> QED
  BY <1>2, <1>7

\* Going round the table, some seat of a set comes first.
LEMMA NextAfterIsOne ==
    ASSUME NEW start \in Seats, NEW among \in SUBSET Seats
    PROVE  /\ among # {} => NextAfter(start, among) \in among
           /\ (\E j \in among : j # start) => NextAfter(start, among) # start
<1> DEFINE far == [i \in Seats |-> (i - start - 1) % NumSeats]
<1>0. NumSeats \in Nat /\ NumSeats >= 2 /\ Seats = 0 .. NumSeats - 1
  BY NumSeatsAssumption DEF Seats
<1>1. \A i \in Seats : far[i] \in 0 .. NumSeats - 1
  <2> TAKE i \in Seats
  <2>1. i - start - 1 \in Int
    BY <1>0
  <2>2. \A m \in Int : m % NumSeats \in 0 .. NumSeats - 1
    BY <1>0, SMTT(30)
  <2> QED
    BY <2>1, <2>2
<1>2. far[start] = NumSeats - 1 /\ \A i \in Seats : i # start => far[i] < NumSeats - 1
  <2>1. \A m \in 0 .. NumSeats - 2 : m % NumSeats = m
    BY <1>0, SMTT(30)
  <2>2. \A m \in Int : m < 0 /\ m >= - NumSeats => m % NumSeats = m + NumSeats
    BY <1>0, SMTT(30)
  <2>3. start - start - 1 = -1 /\ start \in Int
    BY <1>0
  <2>4. far[start] = NumSeats - 1
    BY <1>0, <2>2, <2>3
  <2>5. ASSUME NEW i \in Seats, i # start PROVE far[i] < NumSeats - 1
    <3> DEFINE m == i - start - 1
    <3>1. m \in Int /\ m # -1 /\ m >= - NumSeats /\ m <= NumSeats - 2
      BY <1>0, <2>5
    <3>2. far[i] = m % NumSeats
      OBVIOUS
    <3> HIDE DEF m
    <3>3. CASE m >= 0
      BY <1>0, <2>1, <3>1, <3>2, <3>3
    <3>4. CASE m < 0
      BY <1>0, <2>2, <3>1, <3>2, <3>4
    <3> QED
      BY <3>1, <3>3, <3>4
  <2> QED
    BY <2>4, <2>5
<1>3. among # {} => NextAfter(start, among) = CHOOSE i \in among : \A j \in among : far[i] <= far[j]
  <2>1. \A i \in among : far[i] = (i - start - 1) % NumSeats
    OBVIOUS
  <2> QED
    BY <2>1 DEF NextAfter
<1> HIDE DEF far
<1>4. among # {} => \E i \in among : \A j \in among : far[i] <= far[j]
  <2> SUFFICES ASSUME among # {} PROVE \E i \in among : \A j \in among : far[i] <= far[j]
    OBVIOUS
  <2> DEFINE distances == {far[i] : i \in among}
  <2>1. distances # {} /\ distances \subseteq Int /\ distances \subseteq 0 .. NumSeats - 1
    BY <1>1
  <2>2. IsFiniteSet(distances)
    <3>1. IsFiniteSet(0 .. NumSeats - 1)
      BY <1>0, FS_Interval
    <3> HIDE DEF distances
    <3> QED
      BY <2>1, <3>1, FS_Subset
  <2>3. Min(distances) \in distances /\ \A x \in distances : Min(distances) <= x
    <3> HIDE DEF distances
    <3> QED
      BY <2>1, <2>2, Extremes
  <2>4. PICK i \in among : far[i] = Min(distances)
    BY <2>3
  <2>5. \A j \in among : far[i] <= far[j]
    BY <2>3, <2>4
  <2> QED
    BY <2>5
<1>5. ASSUME among # {} PROVE NextAfter(start, among) \in among /\ \A j \in among : far[NextAfter(start, among)] <= far[j]
  BY <1>3, <1>4, <1>5
<1>6. ASSUME NEW j \in among, j # start PROVE NextAfter(start, among) # start
  <2>1. far[NextAfter(start, among)] <= far[j]
    BY <1>5, <1>6
  <2>2. far[j] < NumSeats - 1 /\ far[start] = NumSeats - 1 /\ far[j] \in Int
    BY <1>1, <1>2, <1>6
  <2> QED
    BY <1>0, <2>1, <2>2
<1> QED
  BY <1>5, <1>6

\* Who is in a hand.
LEMMA ActiveFacts ==
    ASSUME NEW t
    PROVE  /\ Active(t) \in SUBSET Seats /\ IsFiniteSet(Active(t))
           /\ Actionable(t) \in SUBSET Active(t) /\ IsFiniteSet(Actionable(t))
           /\ Cardinality(Active(t)) \in Nat /\ Cardinality(Actionable(t)) \in Nat
           /\ Active(t) # {} /\ Cardinality(Active(t)) # 1 => \E i, j \in Active(t) : i # j
           /\ (\E i, j \in Active(t) : i # j) => Cardinality(Active(t)) > 1
           /\ Cardinality(Active(t)) = 1 =>
                 Max(Active(t)) \in Active(t) /\ Active(t) = {Max(Active(t))}
           /\ Cardinality(Actionable(t)) > 1 => Actionable(t) # {}
<1>1. Active(t) \in SUBSET Seats /\ Actionable(t) \in SUBSET Active(t)
  BY DEF Active, Actionable
<1>2. IsFiniteSet(Active(t)) /\ IsFiniteSet(Actionable(t))
  BY <1>1, SeatsAreFinite, FS_Subset
<1>3. Cardinality(Active(t)) \in Nat /\ Cardinality(Actionable(t)) \in Nat
  BY <1>2, FS_CardinalityType
<1>4. \A S : IsFiniteSet(S) => (Cardinality(S) = 0 <=> S = {}) /\ (Cardinality(S) = 1 <=> \E x : S = {x})
  BY FS_EmptySet, FS_Singleton
<1>5. Active(t) # {} /\ Cardinality(Active(t)) # 1 => \E i, j \in Active(t) : i # j
  BY <1>2, <1>4
<1>6. (\E i, j \in Active(t) : i # j) => Cardinality(Active(t)) > 1
  <2> SUFFICES ASSUME NEW i \in Active(t), NEW j \in Active(t), i # j
               PROVE  Cardinality(Active(t)) > 1
    OBVIOUS
  <2>1. Cardinality(Active(t)) # 0 /\ Cardinality(Active(t)) # 1
    BY <1>2, <1>4
  <2> QED
    BY <1>3, <2>1
<1>7. Cardinality(Active(t)) = 1 => Max(Active(t)) \in Active(t) /\ Active(t) = {Max(Active(t))}
  <2> SUFFICES ASSUME Cardinality(Active(t)) = 1
               PROVE  Max(Active(t)) \in Active(t) /\ Active(t) = {Max(Active(t))}
    OBVIOUS
  <2>1. PICK x : Active(t) = {x}
    BY <1>2, <1>4
  <2>2. Active(t) # {} /\ Active(t) \subseteq Int
    <3>1. Seats \subseteq Nat
      BY SeatsAreFinite
    <3>2. x \in Seats
      BY <1>1, <2>1
    <3>3. x \in Int
      BY <3>1, <3>2
    <3> QED
      BY <2>1, <3>3, Zenon
  <2>3. Max(Active(t)) \in Active(t)
    BY <1>2, <2>2, Extremes
  <2> QED
    BY <2>1, <2>3
<1>8. Cardinality(Actionable(t)) > 1 => Actionable(t) # {}
  BY <1>2, <1>4
<1> QED
  BY <1>1, <1>2, <1>3, <1>5, <1>6, <1>7, <1>8

LEMMA NextAfterNobody == \A start : NextAfter(start, {}) = None
  BY DEF NextAfter

-----------------------------------------------------------------------------
(* What is credited comes from the pot.                                    *)

\* Nothing is paid out yet.
LEMMA NothingSharedIsFair ==
    ASSUME NEW c \in [Seats -> Nat], NEW k \in SUBSET Seats, k # {}, NEW st \in [Seats -> Int],
           NEW cr \in [Seats -> Nat], \A i \in Seats : cr[i] = 0
    PROVE  Fair(c, k, st, 0, cr)
<1>1. \A a \in Nat : AtMost(0, a) = 0 /\ AtMost(a, 0) = 0
  BY DEF AtMost
<1>2. Deepest(c, k) \in Nat
  BY DeepestIsDeepest
<1>3. SumUpTo(c, 0) = 0
  <2> DEFINE f == [j \in Seats |-> AtMost(c[j], 0)]
  <2>1. \A j \in Seats : f[j] = 0
    BY <1>1
  <2> HIDE DEF f
  <2>2. SumFunctionOnSet(f, Seats) = 0
    BY <2>1, SeatsAreFinite, SumOfZeros
  <2> QED
    BY <2>2 DEF SumUpTo, f
<1>4. SumFunctionOnSet(cr, Seats) = 0
  BY SeatsAreFinite, SumOfZeros
<1>5. \A i \in k : AtMost(0, c[i]) = 0 /\ cr[i] = 0
  BY <1>1
<1> QED
  BY <1>1, <1>2, <1>3, <1>4, <1>5 DEF Fair

\* Every level ends the layer above the level below it.
LEMMA LevelBelow ==
    ASSUME NEW c \in [Seats -> Nat], NEW level \in Levels(c)
    PROVE  LET prev == Max({l \in Levels(c) : l < level} \cup {0})
           IN  /\ prev \in Levels(c) \cup {0} /\ prev \in Nat /\ prev < level
               /\ \A l \in Levels(c) : l <= level <=> l <= prev \/ l = level
               /\ LevelsLeft(c, prev) # {} /\ Min(LevelsLeft(c, prev)) = level
<1> DEFINE below == {l \in Levels(c) : l < level} \cup {0}
<1> DEFINE prev == Max(below)
<1>1. IsFiniteSet(Levels(c)) /\ Levels(c) \subseteq Nat /\ 0 \notin Levels(c)
  BY LevelsOfBets DEF Levels
<1>2. level \in Nat /\ level > 0
  BY <1>1
<1>3. IsFiniteSet(below)
  <2>1. below \subseteq Levels(c) \cup {0}
    OBVIOUS
  <2>2. IsFiniteSet(Levels(c) \cup {0})
    BY <1>1, FS_AddElement
  <2> QED
    BY <2>1, <2>2, FS_Subset
<1>4. below # {} /\ below \subseteq Int
  BY <1>1
<1>5. prev \in below /\ \A l \in below : l <= prev
  <2> HIDE DEF below
  <2> QED
    BY <1>3, <1>4, Extremes
<1>6. \A l \in below : l \in Nat /\ l < level
  BY <1>1, <1>2
<1>7. \A l \in Levels(c) : l < level => l \in below
  OBVIOUS
<1>7a. below \subseteq Levels(c) \cup {0}
  OBVIOUS
<1> HIDE DEF below, prev
<1>8. prev \in Nat /\ prev < level
  BY <1>5, <1>6
<1>9. \A l \in Levels(c) : l <= level <=> l <= prev \/ l = level
  <2> TAKE l \in Levels(c)
  <2>1. l \in Nat
    BY <1>1
  <2>2. l < level => l <= prev
    BY <1>5, <1>7
  <2> QED
    BY <1>2, <1>8, <2>1, <2>2
<1> DEFINE left == LevelsLeft(c, prev)
<1>10. left \subseteq Levels(c) /\ level \in left /\ \A l \in left : l \in Nat /\ l > prev /\ l \in Levels(c)
  BY <1>1, <1>8 DEF LevelsLeft
<1>11. IsFiniteSet(left) /\ left \subseteq Int /\ left # {}
  BY <1>1, <1>10, FS_Subset
<1> HIDE DEF left
<1>12. Min(left) \in left /\ \A l \in left : Min(left) <= l
  BY <1>11, Extremes
<1>13. Min(left) = level
  <2>1. Min(left) \in Nat /\ Min(left) <= level /\ Min(left) > prev /\ Min(left) \in Levels(c)
    BY <1>10, <1>12
  <2> QED
    BY <1>2, <1>8, <1>9, <2>1
<1> QED
  BY <1>5, <1>7a, <1>8, <1>9, <1>11, <1>13 DEF prev, below, left

\* What the layers up to level sh pay.
PaidUpTo(c, k, st, sh) ==
    [i \in Seats |-> SumFunctionOnSet([l \in Levels(c) |-> Share(c, k, st, l, i)],
                                      {l \in Levels(c) : l <= sh})]

LEMMA SharesAreNat ==
    ASSUME NEW c \in [Seats -> Nat], NEW k \in SUBSET Seats, NEW st \in [Seats -> Int],
           NEW l \in Levels(c), NEW i \in Seats
    PROVE  Share(c, k, st, l, i) \in Nat
<1> DEFINE prev == Max({m \in Levels(c) : m < l} \cup {0})
<1>1. prev \in Levels(c) \cup {0} /\ LevelsLeft(c, prev) # {} /\ Min(LevelsLeft(c, prev)) = l
  BY LevelBelow
<1> HIDE DEF prev
<1>2. Layer(c, l).contributors = {j \in Seats : c[j] >= l} /\ Layer(c, l).amount \in Nat
  BY <1>1, NextLayer
<1>3. Layer(c, l).contributors \subseteq Seats
  BY <1>2
<1>4. LayerIsShared(c, k, st, l)
  BY <1>2, <1>3, SharesOfLayer
<1> QED
  BY <1>4 DEF LayerIsShared

\* Paying the layers one by one keeps the showdown fair at each of them.
LEMMA PaidUpToIsFair ==
    ASSUME NEW c \in [Seats -> Nat], NEW k \in SUBSET Seats, k # {}, NEW st \in [Seats -> Int],
           NEW top \in Levels(c) \cup {0}
    PROVE  Fair(c, k, st, top, PaidUpTo(c, k, st, top))
<1> DEFINE all == Levels(c) \cup {0}
<1> DEFINE Bad == {sh \in all : ~ Fair(c, k, st, sh, PaidUpTo(c, k, st, sh))}
<1>1. SUFFICES ASSUME Bad # {} PROVE FALSE
  OBVIOUS
<1>2. IsFiniteSet(Levels(c)) /\ Levels(c) \subseteq Nat /\ 0 \notin Levels(c)
  BY LevelsOfBets DEF Levels
<1>3. IsFiniteSet(all) /\ all \subseteq Nat
  BY <1>2, FS_AddElement
<1>4. Bad \subseteq all
  OBVIOUS
<1> HIDE DEF Bad, all
<1>5. IsFiniteSet(Bad) /\ Bad \subseteq Int
  <2>1. IsFiniteSet(Bad)
    BY <1>3, <1>4, FS_Subset
  <2> QED
    BY <1>3, <1>4, <2>1
<1>6. Min(Bad) \in Bad /\ \A sh \in Bad : Min(Bad) <= sh
  BY <1>1, <1>5, Extremes
<1>7. PICK sh \in Bad : \A m \in Bad : sh <= m
  BY <1>6
<1>8. sh \in all /\ ~ Fair(c, k, st, sh, PaidUpTo(c, k, st, sh))
  BY <1>7 DEF Bad
<1>9. sh # 0
  <2> SUFFICES ASSUME sh = 0 PROVE FALSE
    OBVIOUS
  <2>1. {l \in Levels(c) : l <= 0} = {}
    BY <1>2
  <2>2. \A i \in Seats : PaidUpTo(c, k, st, 0)[i] = 0
    BY <2>1, SumOfNone DEF PaidUpTo
  <2>3. PaidUpTo(c, k, st, 0) \in [Seats -> Nat]
    BY <2>2 DEF PaidUpTo
  <2>4. Fair(c, k, st, 0, PaidUpTo(c, k, st, 0))
    BY <2>2, <2>3, NothingSharedIsFair
  <2> QED
    BY <1>8, <2>4
<1>10. sh \in Levels(c) /\ sh \in Nat
  BY <1>2, <1>8, <1>9 DEF all
<1> DEFINE prev == Max({l \in Levels(c) : l < sh} \cup {0})
<1>11. /\ prev \in Levels(c) \cup {0} /\ prev \in Nat /\ prev < sh
       /\ \A l \in Levels(c) : l <= sh <=> l <= prev \/ l = sh
       /\ LevelsLeft(c, prev) # {} /\ Min(LevelsLeft(c, prev)) = sh
  BY <1>10, LevelBelow
<1> HIDE DEF prev
<1>12. Fair(c, k, st, prev, PaidUpTo(c, k, st, prev))
  <2>1. prev \in all /\ prev \notin Bad
    BY <1>7, <1>10, <1>11 DEF all
  <2> QED
    BY <2>1 DEF Bad
<1> DEFINE next == [i \in Seats |-> PaidUpTo(c, k, st, prev)[i] + Share(c, k, st, sh, i)]
<1>13. Fair(c, k, st, sh, next)
  BY <1>11, <1>12, LayerKeepsItFair
<1>14. \A i \in Seats : PaidUpTo(c, k, st, sh)[i] = next[i]
  <2> TAKE i \in Seats
  <2> DEFINE f == [l \in Levels(c) |-> Share(c, k, st, l, i)]
  <2> DEFINE low == {l \in Levels(c) : l <= prev}
  <2>1. {l \in Levels(c) : l <= sh} = low \cup {sh} /\ low \subseteq Levels(c)
    BY <1>10, <1>11
  <2>2. sh \notin low
    BY <1>10, <1>11
  <2>3. \A l \in Levels(c) : f[l] \in Int /\ f[l] = Share(c, k, st, l, i)
    BY SharesAreNat
  <2>4. PaidUpTo(c, k, st, sh)[i] = SumFunctionOnSet(f, low \cup {sh})
    BY <2>1 DEF PaidUpTo
  <2>5. PaidUpTo(c, k, st, prev)[i] = SumFunctionOnSet(f, low)
    BY DEF PaidUpTo
  <2> HIDE DEF f, low
  <2>6. IsFiniteSet(low)
    BY <1>2, <2>1, FS_Subset
  <2>7. SumFunctionOnSet(f, low \cup {sh}) = f[sh] + SumFunctionOnSet(f, low)
    BY <1>10, <2>1, <2>2, <2>3, <2>6, SumAdd
  <2>8. SumFunctionOnSet(f, low) \in Int
    BY <2>1, <2>3, <2>6, SumType
  <2>9. f[sh] \in Int /\ f[sh] = Share(c, k, st, sh, i)
    BY <1>10, <2>3
  <2>10. next[i] = PaidUpTo(c, k, st, prev)[i] + Share(c, k, st, sh, i)
    OBVIOUS
  <2> HIDE DEF next
  <2> QED
    BY <2>4, <2>5, <2>7, <2>8, <2>9, <2>10
<1>15. PaidUpTo(c, k, st, sh) = next
  <2>1. PaidUpTo(c, k, st, sh) = [i \in Seats |-> PaidUpTo(c, k, st, sh)[i]]
    BY DEF PaidUpTo
  <2> QED
    BY <1>14, <2>1
<1> QED
  BY <1>8, <1>13, <1>15

\* calculate_pot_awards never gives away more than the pot.
LEMMA CreditsComeFromThePot ==
    ASSUME NEW c \in [Seats -> Nat], NEW k \in SUBSET Seats, NEW st \in [Seats -> Int]
    PROVE  /\ Credits(c, k, st) \in [Seats -> Nat]
           /\ k # {} => SumFunctionOnSet(Credits(c, k, st), Seats) <= SumFunctionOnSet(c, Seats)
<1>1. IsFiniteSet(Levels(c)) /\ Levels(c) \subseteq Nat
  BY LevelsOfBets
<1>2. \A i \in Seats : Credits(c, k, st)[i]
        = SumFunctionOnSet([l \in Levels(c) |-> Share(c, k, st, l, i)], Levels(c))
  BY DEF Credits, SumFunction
<1>3. \A i \in Seats : Credits(c, k, st)[i] \in Nat
  <2> TAKE i \in Seats
  <2> DEFINE f == [l \in Levels(c) |-> Share(c, k, st, l, i)]
  <2>1. \A l \in Levels(c) : f[l] \in Nat
    BY SharesAreNat
  <2> HIDE DEF f
  <2>2. SumFunctionOnSet(f, Levels(c)) \in Nat
    BY <1>1, <2>1, SumIsNat
  <2> QED
    BY <1>2, <2>2 DEF f
<1>4. Credits(c, k, st) \in [Seats -> Nat]
  BY <1>3 DEF Credits
<1>5. ASSUME k # {}
      PROVE  SumFunctionOnSet(Credits(c, k, st), Seats) <= SumFunctionOnSet(c, Seats)
  <2> DEFINE all == Levels(c) \cup {0}
  <2> DEFINE top == Max(all)
  <2>1. IsFiniteSet(all) /\ all \subseteq Int /\ all # {}
    BY <1>1, FS_AddElement
  <2>2. Levels(c) \subseteq all
    OBVIOUS
  <2> HIDE DEF all
  <2>3. top \in all /\ \A l \in all : l <= top
    BY <2>1, Extremes
  <2>4. top \in Levels(c) \cup {0}
    BY <2>3 DEF all
  <2>5. {l \in Levels(c) : l <= top} = Levels(c)
    BY <2>2, <2>3
  <2> HIDE DEF top
  <2>6. Credits(c, k, st) = PaidUpTo(c, k, st, top)
    BY <2>5 DEF Credits, PaidUpTo, SumFunction
  <2>7. Fair(c, k, st, top, PaidUpTo(c, k, st, top))
    BY <1>5, <2>4, PaidUpToIsFair
  <2> DEFINE a == AtMost(top, Deepest(c, k))
  <2>8. SumFunctionOnSet(Credits(c, k, st), Seats) = SumUpTo(c, a)
    BY <2>6, <2>7 DEF Fair
  <2>9. a \in Nat
    BY <1>1, <1>5, <2>4, DeepestIsDeepest, AtMostIsNat
  <2> DEFINE f == [j \in Seats |-> AtMost(c[j], a)]
  <2>10. SumUpTo(c, a) = SumFunctionOnSet(f, Seats)
    BY DEF SumUpTo
  <2> HIDE DEF a
  <2>11. /\ \A j \in Seats : f[j] \in Int
         /\ \A j \in Seats : c[j] \in Int
         /\ \A j \in Seats : f[j] <= c[j]
    BY <2>9 DEF AtMost
  <2> HIDE DEF f
  <2>12. SumFunctionOnSet(f, Seats) <= SumFunctionOnSet(c, Seats)
    BY <2>11, SeatsAreFinite, SumAtMost
  <2> QED
    BY <2>8, <2>10, <2>12
<1> QED
  BY <1>4, <1>5

-----------------------------------------------------------------------------
(* The end of a hand.                                                      *)

\* What the end of a hand and the way there leave alone.
Kept(t, u) ==
    /\ u.hand = t.hand /\ u.dealer = t.dealer /\ u.big = t.big /\ u.blinds = t.blinds
    /\ \A i \in Seats :
          /\ u.seat[i].user = t.seat[i].user /\ u.seat[i].dealt = t.seat[i].dealt
          /\ u.seat[i].all_in = t.seat[i].all_in
          /\ u.seat[i].committed = t.seat[i].committed
          /\ u.seat[i].pending = t.seat[i].pending
          /\ u.seat[i].street <= t.seat[i].street
          /\ u.seat[i].street <= u.bet

\* The same table for all that Well says of its seats.
LEMMA KeptIsWell ==
    ASSUME NEW t, Well(t), NEW u \in Tables, IsFiniteSet(u.due), Kept(t, u),
           u.phase = "PostingBlinds" => t.phase = "PostingBlinds",
           t.hand # 0 \/ u.phase = t.phase
    PROVE  Well(u)
<1>1. ASSUME NEW i \in Seats
      PROVE  /\ u.seat[i].street <= u.bet /\ u.seat[i].street <= u.seat[i].committed
             /\ u.seat[i].pending # None =>
                   u.seat[i].street + u.seat[i].pending.amount <= u.seat[i].pending.target
             /\ u.dealer = None \/ u.seat[i].user = None => ~u.seat[i].dealt
  <2>1. /\ u.seat[i].street \in Nat /\ t.seat[i].street \in Nat /\ t.seat[i].committed \in Nat
        /\ t.seat[i].pending # None =>
              t.seat[i].pending.amount \in Nat /\ t.seat[i].pending.target \in Nat
    BY DEF Well, Tables, SeatStates, Pendings
  <2>2. /\ t.seat[i].street <= t.seat[i].committed
        /\ t.seat[i].pending # None =>
              t.seat[i].street + t.seat[i].pending.amount <= t.seat[i].pending.target
        /\ t.dealer = None \/ t.seat[i].user = None => ~t.seat[i].dealt
    BY DEF Well
  <2>3. /\ u.dealer = t.dealer /\ u.seat[i].user = t.seat[i].user
        /\ u.seat[i].dealt = t.seat[i].dealt /\ u.seat[i].committed = t.seat[i].committed
        /\ u.seat[i].pending = t.seat[i].pending /\ u.seat[i].street <= t.seat[i].street
        /\ u.seat[i].street <= u.bet
    BY DEF Kept
  <2> QED
    BY <2>1, <2>2, <2>3
<1>2. \A i, j \in Seats : i # j /\ u.seat[i].user # None => u.seat[i].user # u.seat[j].user
  BY DEF Well, Kept
<1>3. u.phase = "PostingBlinds" => u.big \in Seats
  BY DEF Well, Kept
<1>4. u.hand = 0 => u.phase = "Waiting" /\ \A i \in Seats : u.seat[i].pending = None
  BY DEF Well, Kept
<1> QED
  BY <1>1, <1>2, <1>3, <1>4 DEF Well

LEMMA KeptIsTransitive ==
    ASSUME NEW t \in Tables, NEW u \in Tables, NEW v \in Tables, Kept(t, u), Kept(u, v)
    PROVE  Kept(t, v)
<1>1. \A i \in Seats : t.seat[i].street \in Nat /\ u.seat[i].street \in Nat /\ v.seat[i].street \in Nat
  BY DEF Tables, SeatStates
<1>2. ASSUME NEW i \in Seats PROVE v.seat[i].street <= t.seat[i].street
  <2>1. v.seat[i].street <= u.seat[i].street /\ u.seat[i].street <= t.seat[i].street
    BY DEF Kept
  <2> QED
    BY <1>1, <2>1
<1> QED
  BY <1>2 DEF Kept

\* The pot is the sum of what the seats put in.
LEMMA PotIsSum ==
    ASSUME NEW t \in Tables
    PROVE  /\ Committed(t) \in [Seats -> Nat]
           /\ Pot(t) = SumFunctionOnSet(Committed(t), Seats) /\ Pot(t) \in Nat
<1>1. Committed(t) \in [Seats -> Nat]
  BY DEF Committed, Tables, SeatStates
<1>2. Pot(t) = SumFunctionOnSet(Committed(t), Seats)
  BY SumOfValues DEF Pot, Total
<1>3. SumFunctionOnSet(Committed(t), Seats) \in Nat
  BY <1>1, SeatsAreFinite, SumIsNat
<1> QED
  BY <1>1, <1>2, <1>3

LEMMA SamePot ==
    ASSUME NEW t, NEW u, \A i \in Seats : u.seat[i].committed = t.seat[i].committed
    PROVE  Pot(u) = Pot(t)
<1>1. Committed(u) = Committed(t)
  BY DEF Committed
<1> QED
  BY <1>1 DEF Pot

LEMMA SumOfDues ==
    ASSUME NEW due \in SUBSET Dues, IsFiniteSet(due)
    PROVE  Sum(due) \in Nat
<1> DEFINE g == [s \in due |-> s.credit]
<1>1. \A s \in due : g[s] \in Nat
  BY DEF Dues
<1>2. Sum(due) = SumFunctionOnSet(g, due)
  BY DEF Sum, SumFunction
<1> HIDE DEF g
<1> QED
  BY <1>1, <1>2, SumIsNat

LEMMA SumOfNoDues == Sum({}) = 0
<1>1. Sum({}) = SumFunctionOnSet([s \in {} |-> s.credit], {})
  BY DEF Sum, SumFunction
<1> QED
  BY <1>1, SumOfNone

\* What is settled is no more than what is credited: no seat is named twice.
LEMMA SettlementsAddUp ==
    ASSUME NEW t, Well(t), NEW credit \in [Seats -> Nat]
    PROVE  /\ Settlements(t, credit) \in SUBSET Dues /\ IsFiniteSet(Settlements(t, credit))
           /\ Sum(Settlements(t, credit)) <= SumFunctionOnSet(credit, Seats)
<1> DEFINE J == {j \in Seats : t.seat[j].user # None /\ t.seat[j].committed > 0}
<1> DEFINE f == [i \in Seats |-> [user |-> t.seat[i].user, credit |-> credit[i]]]
<1> DEFINE due == {f[i] : i \in J}
<1>1. Settlements(t, credit) = due
  BY DEF Settlements
<1>2. IsFiniteSet(J) /\ J \in SUBSET Seats
  BY SeatsAreFinite, FS_Subset
<1>3. \A i \in J : f[i] \in Dues
  <2>1. \A i \in Seats : t.seat[i].user \in Players \cup {None}
    BY DEF Well, Tables, SeatStates
  <2> QED
    BY <2>1 DEF Dues
<1>4. \A i, j \in J : f[i] = f[j] => i = j
  BY DEF Well
<1>5. \A i \in J : f[i].credit = credit[i] /\ credit[i] \in Nat
  OBVIOUS
<1> HIDE DEF J, f
<1>6. IsFiniteSet(due) /\ due \in SUBSET Dues
  BY <1>2, <1>3, FiniteImage
<1> DEFINE g == [s \in due |-> s.credit]
<1>7. Sum(due) = SumFunctionOnSet(g, due)
  BY DEF Sum, SumFunction
<1>8. \A i \in J : g[f[i]] = credit[i] /\ g[f[i]] \in Int
  BY <1>5
<1> DEFINE h == [x \in J |-> g[f[x]]]
<1>9. /\ \A x \in J : h[x] \in Int
      /\ \A x \in J : h[x] = credit[x]
  BY <1>8
<1> HIDE DEF g
<1>10. SumFunctionOnSet(g, due) = SumFunctionOnSet(h, J)
  BY <1>2, <1>4, <1>8, SumOfImage
<1> HIDE DEF h
<1>11. SumFunctionOnSet(h, J) = SumFunctionOnSet(credit, J)
  BY <1>2, <1>9, SumSame
<1>12. SumFunctionOnSet(credit, J) <= SumFunctionOnSet(credit, Seats)
  BY <1>2, SeatsAreFinite, SumOfPart
<1> QED
  BY <1>1, <1>6, <1>7, <1>10, <1>11, <1>12

\* A hand that ends with settlements.
LEMMA FinishFacts ==
    ASSUME NEW t, Well(t), t.hand # 0, NEW credit \in [Seats -> Nat]
    PROVE  LET u == Finish(t, credit)
           IN  /\ Well(u) /\ Kept(t, u) /\ u.seat = t.seat
               /\ u.phase = "Showdown" /\ u.reveal = t.reveal
               /\ u.settling = (u.due # {})
               /\ Sum(u.due) <= SumFunctionOnSet(credit, Seats)
<1> DEFINE due == Settlements(t, credit)
<1> DEFINE u == Finish(t, credit)
<1>1. due \in SUBSET Dues /\ IsFiniteSet(due) /\ Sum(due) <= SumFunctionOnSet(credit, Seats)
  BY SettlementsAddUp
<1>2. u = [t EXCEPT !.phase = "Showdown", !.active = None, !.countdown = None,
                    !.due = due, !.settling = due # {}]
  BY DEF Finish
<1> HIDE DEF due, u
<1>3. t \in Tables
  BY DEF Well
<1>4. u \in Tables
  BY <1>1, <1>2, <1>3, PhaseFacts DEF Tables, SeatOrNone
<1>5. /\ u.phase = "Showdown" /\ u.due = due /\ u.settling = (due # {}) /\ u.reveal = t.reveal
      /\ u.seat = t.seat /\ u.hand = t.hand /\ u.dealer = t.dealer /\ u.big = t.big
      /\ u.blinds = t.blinds /\ u.bet = t.bet
  BY <1>2, <1>3 DEF Tables
<1>6. Kept(t, u)
  <2>1. \A i \in Seats : t.seat[i].street \in Nat /\ t.seat[i].street <= t.bet
    BY DEF Well, Tables, SeatStates
  <2> QED
    BY <1>5, <2>1 DEF Kept
<1>7. Well(u)
  BY <1>1, <1>4, <1>5, <1>6, KeptIsWell
<1> QED
  BY <1>1, <1>5, <1>6, <1>7 DEF u

\* A hand that everybody else folded.
LEMMA FoldFacts ==
    ASSUME NEW t, Well(t), t.hand # 0, NEW winner \in Seats
    PROVE  LET u == finish_by_fold(t, winner)
           IN  /\ Well(u) /\ Kept(t, u) /\ u.seat = t.seat
               /\ u.phase = "Showdown" /\ u.reveal = t.reveal
               /\ u.settling = (u.due # {}) /\ Sum(u.due) <= Pot(u)
<1> DEFINE credit == [i \in Seats |-> IF i = winner THEN Pot(t) ELSE 0]
<1> DEFINE u == finish_by_fold(t, winner)
<1>1. Pot(t) \in Nat
  BY PotIsSum DEF Well
<1>2. credit \in [Seats -> Nat] /\ credit[winner] = Pot(t) /\ \A i \in Seats : i # winner => credit[i] = 0
  BY <1>1
<1>3. u = Finish(t, credit)
  BY DEF finish_by_fold
<1> HIDE DEF credit, u
<1>4. SumFunctionOnSet(credit, Seats) = Pot(t)
  <2>1. credit[winner] \in Int
    BY <1>1, <1>2
  <2>2. SumFunctionOnSet(credit, Seats) = credit[winner]
    BY <1>2, <2>1, SeatsAreFinite, SumOfOnly
  <2> QED
    BY <1>2, <2>2
<1>5. /\ Well(u) /\ Kept(t, u) /\ u.seat = t.seat /\ u.phase = "Showdown" /\ u.reveal = t.reveal
      /\ u.settling = (u.due # {}) /\ Sum(u.due) <= Pot(t)
  BY <1>2, <1>3, <1>4, FinishFacts
<1>6. Pot(u) = Pot(t)
  BY <1>5, SamePot
<1> QED
  BY <1>5, <1>6 DEF u

\* A hand whose hands are to be compared.
LEMMA ShowdownFacts ==
    ASSUME NEW t, Well(t), t.hand # 0
    PROVE  LET u == finish_showdown(t)
           IN  /\ Well(u) /\ Kept(t, u) /\ u.seat = t.seat /\ u.phase = "Showdown"
               /\ u.reveal = TRUE /\ u.due = t.due /\ u.settling = t.settling
<1> DEFINE u == finish_showdown(t)
<1>1. u = [t EXCEPT !.phase = "Showdown", !.active = None, !.countdown = None, !.reveal = TRUE]
  BY DEF finish_showdown
<1> HIDE DEF u
<1>3. t \in Tables /\ IsFiniteSet(t.due)
  BY DEF Well
<1>4. u \in Tables
  BY <1>1, <1>3, PhaseFacts DEF Tables, SeatOrNone
<1>5. /\ u.phase = "Showdown" /\ u.due = t.due /\ u.settling = t.settling /\ u.reveal = TRUE
      /\ u.seat = t.seat /\ u.hand = t.hand /\ u.dealer = t.dealer /\ u.big = t.big
      /\ u.blinds = t.blinds /\ u.bet = t.bet
  BY <1>1, <1>3 DEF Tables
<1>6. Kept(t, u)
  <2>1. \A i \in Seats : t.seat[i].street \in Nat /\ t.seat[i].street <= t.bet
    BY DEF Well, Tables, SeatStates
  <2> QED
    BY <1>5, <2>1 DEF Kept
<1>7. Well(u)
  BY <1>3, <1>4, <1>5, <1>6, KeptIsWell
<1> QED
  BY <1>5, <1>6, <1>7 DEF u

\* A hand that nobody is in any more.
LEMMA AbandonedFacts ==
    ASSUME NEW t, Well(t), t.hand # 0
    PROVE  LET u == Abandoned(t)
           IN  /\ Well(u) /\ Kept(t, u) /\ u.seat = t.seat /\ u.phase = "Waiting"
               /\ u.reveal = t.reveal /\ u.due = t.due /\ u.settling = t.settling
<1> DEFINE u == Abandoned(t)
<1>1. u = [t EXCEPT !.phase = "Waiting", !.active = None, !.countdown = None]
  BY DEF Abandoned
<1> HIDE DEF u
<1>3. t \in Tables /\ IsFiniteSet(t.due)
  BY DEF Well
<1>4. u \in Tables
  BY <1>1, <1>3, PhaseFacts DEF Tables, SeatOrNone
<1>5. /\ u.phase = "Waiting" /\ u.due = t.due /\ u.settling = t.settling /\ u.reveal = t.reveal
      /\ u.seat = t.seat /\ u.hand = t.hand /\ u.dealer = t.dealer /\ u.big = t.big
      /\ u.blinds = t.blinds /\ u.bet = t.bet
  BY <1>1, <1>3 DEF Tables
<1>6. Kept(t, u)
  <2>1. \A i \in Seats : t.seat[i].street \in Nat /\ t.seat[i].street <= t.bet
    BY DEF Well, Tables, SeatStates
  <2> QED
    BY <1>5, <2>1 DEF Kept
<1>7. Well(u)
  BY <1>3, <1>4, <1>5, <1>6, KeptIsWell
<1> QED
  BY <1>5, <1>6, <1>7 DEF u

-----------------------------------------------------------------------------
(* The betting goes on.                                                    *)

\* A hand that a handler has just ended: to be compared, or won by the last one left.
Over(t) ==
    /\ t.phase = "Showdown" /\ t.settling = (t.due # {})
    /\ \/ t.reveal /\ t.due = {} /\ Active(t) # {} /\ AllMatched(t)
       \/ ~t.reveal /\ Cardinality(Active(t)) = 1 /\ Sum(t.due) <= Pot(t)

\* Where a step of the betting leads.
Outcome(t) == Vacant(t) /\ (Betting(t) \/ Over(t))

\* Whatever is about the seats only depends on the seats.
LEMMA SameSeats ==
    ASSUME NEW t, NEW u, u.seat = t.seat
    PROVE  /\ Active(u) = Active(t) /\ Actionable(u) = Actionable(t)
           /\ Vacant(t) => Vacant(u)
           /\ Levelled(t) => Levelled(u)
           /\ AllMatched(t) => AllMatched(u)
           /\ Contested(t) => Contested(u)
           /\ Quiet(t) => Quiet(u)
<1>1. Active(u) = Active(t)
  BY DEF Active
<1>2. Actionable(u) = Actionable(t)
  BY <1>1 DEF Actionable
<1> QED
  BY <1>1, <1>2 DEF Vacant, Levelled, AllMatched, Contested, Quiet

\* Another street, another seat on turn.
LEMMA NewPhaseFacts ==
    ASSUME NEW t, Well(t), t.hand # 0, NEW p \in Range(Streets), NEW u,
           u = [t EXCEPT !.phase = p]
    PROVE  /\ Well(u) /\ Kept(t, u) /\ u.seat = t.seat /\ u.phase = p /\ u.active = t.active
           /\ u.reveal = t.reveal /\ u.due = t.due /\ u.settling = t.settling
<1>3. t \in Tables /\ IsFiniteSet(t.due)
  BY DEF Well
<1>4. u \in Tables
  BY <1>3, PhaseFacts DEF Tables
<1>5. /\ u.phase = p /\ u.due = t.due /\ u.settling = t.settling /\ u.reveal = t.reveal
      /\ u.seat = t.seat /\ u.hand = t.hand /\ u.dealer = t.dealer /\ u.big = t.big
      /\ u.blinds = t.blinds /\ u.bet = t.bet /\ u.active = t.active
  BY <1>3 DEF Tables
<1>6. Kept(t, u)
  <2>1. \A i \in Seats : t.seat[i].street \in Nat /\ t.seat[i].street <= t.bet
    BY DEF Well, Tables, SeatStates
  <2> QED
    BY <1>5, <2>1 DEF Kept
<1>7. Well(u)
  BY <1>3, <1>4, <1>5, <1>6, PhaseFacts, KeptIsWell
<1> QED
  BY <1>5, <1>6, <1>7

LEMMA NewTurnFacts ==
    ASSUME NEW t, Well(t), t.hand # 0, NEW a \in SeatOrNone, NEW u,
           u = [t EXCEPT !.active = a]
    PROVE  /\ Well(u) /\ Kept(t, u) /\ u.seat = t.seat /\ u.phase = t.phase /\ u.active = a
           /\ u.reveal = t.reveal /\ u.due = t.due /\ u.settling = t.settling
<1>3. t \in Tables /\ IsFiniteSet(t.due)
  BY DEF Well
<1>4. u \in Tables
  BY <1>3 DEF Tables
<1>5. /\ u.phase = t.phase /\ u.due = t.due /\ u.settling = t.settling /\ u.reveal = t.reveal
      /\ u.seat = t.seat /\ u.hand = t.hand /\ u.dealer = t.dealer /\ u.big = t.big
      /\ u.blinds = t.blinds /\ u.bet = t.bet /\ u.active = a
  BY <1>3 DEF Tables
<1>6. Kept(t, u)
  <2>1. \A i \in Seats : t.seat[i].street \in Nat /\ t.seat[i].street <= t.bet
    BY DEF Well, Tables, SeatStates
  <2> QED
    BY <1>5, <2>1 DEF Kept
<1>7. Well(u)
  BY <1>3, <1>4, <1>5, <1>6, KeptIsWell
<1> QED
  BY <1>5, <1>6, <1>7

\* A street without bets.
Cleared(t) ==
    [t EXCEPT !.bet = 0, !.min_raise = BigBlind,
              !.seat = [i \in Seats |-> [t.seat[i] EXCEPT !.acted = FALSE, !.street = 0]]]

LEMMA BigBlindIsNat == BigBlind \in Nat
  BY PokerAssumption DEF BigBlind

\* A seat is what its fields are.
LEMMA SeatByFields ==
    ASSUME NEW r \in SeatStates, NEW s \in SeatStates,
           r.user = s.user, r.stack = s.stack, r.dealt = s.dealt, r.folded = s.folded,
           r.all_in = s.all_in, r.acted = s.acted, r.leaving = s.leaving, r.auto = s.auto,
           r.committed = s.committed, r.street = s.street, r.pending = s.pending,
           r.missed = s.missed
    PROVE  r = s
  BY DEF SeatStates

LEMMA EmptySeatFields ==
    /\ EmptySeat \in SeatStates /\ EmptySeat.user = None /\ EmptySeat.stack = 0
    /\ EmptySeat.dealt = FALSE /\ EmptySeat.folded = FALSE /\ EmptySeat.all_in = FALSE
    /\ EmptySeat.acted = FALSE /\ EmptySeat.leaving = FALSE /\ EmptySeat.auto = FALSE
    /\ EmptySeat.committed = 0 /\ EmptySeat.street = 0 /\ EmptySeat.pending = None
    /\ EmptySeat.missed = 0
  BY PokerAssumption DEF EmptySeat, SeatStates

\* advance_street clears the street of every seat.
LEMMA ClearedFacts ==
    ASSUME NEW t, Well(t), t.hand # 0
    PROVE  LET u == Cleared(t)
           IN  /\ Well(u) /\ Kept(t, u) /\ u.phase = t.phase /\ u.active = t.active
               /\ u.reveal = t.reveal /\ u.due = t.due /\ u.settling = t.settling
               /\ \A i \in Seats : u.seat[i].street = 0
               /\ Active(u) = Active(t) /\ Actionable(u) = Actionable(t)
               /\ Vacant(t) => Vacant(u)
<1> DEFINE seat == [i \in Seats |-> [t.seat[i] EXCEPT !.acted = FALSE, !.street = 0]]
<1> DEFINE u == Cleared(t)
<1>1. u = [t EXCEPT !.bet = 0, !.min_raise = BigBlind, !.seat = seat]
  BY DEF Cleared
<1>2. t \in Tables /\ IsFiniteSet(t.due) /\ \A i \in Seats : t.seat[i] \in SeatStates
  BY DEF Well, Tables
<1>3. seat \in [Seats -> SeatStates]
  BY <1>2 DEF SeatStates
<1>4. \A i \in Seats :
        /\ seat[i].street = 0 /\ seat[i].user = t.seat[i].user /\ seat[i].dealt = t.seat[i].dealt
        /\ seat[i].all_in = t.seat[i].all_in /\ seat[i].committed = t.seat[i].committed
        /\ seat[i].pending = t.seat[i].pending /\ seat[i].folded = t.seat[i].folded
  BY <1>2 DEF SeatStates
<1>5. \A i \in Seats : t.seat[i] = EmptySeat => seat[i] = EmptySeat
  <2> DEFINE e == [EmptySeat EXCEPT !.acted = FALSE, !.street = 0]
  <2>1. /\ e \in SeatStates /\ e.acted = FALSE /\ e.street = 0
        /\ e.user = EmptySeat.user /\ e.stack = EmptySeat.stack /\ e.dealt = EmptySeat.dealt
        /\ e.folded = EmptySeat.folded /\ e.all_in = EmptySeat.all_in
        /\ e.leaving = EmptySeat.leaving /\ e.auto = EmptySeat.auto
        /\ e.committed = EmptySeat.committed /\ e.pending = EmptySeat.pending
        /\ e.missed = EmptySeat.missed
    BY EmptySeatFields DEF SeatStates
  <2>2. e = EmptySeat
    <3> HIDE DEF e
    <3> QED
      BY <2>1, EmptySeatFields, SeatByFields
  <2> QED
    BY <2>2
<1> HIDE DEF seat, u
<1>6. u \in Tables
  BY <1>1, <1>2, <1>3, BigBlindIsNat DEF Tables
<1>7. /\ u.phase = t.phase /\ u.due = t.due /\ u.settling = t.settling /\ u.reveal = t.reveal
      /\ u.seat = seat /\ u.hand = t.hand /\ u.dealer = t.dealer /\ u.big = t.big
      /\ u.blinds = t.blinds /\ u.bet = 0 /\ u.active = t.active
  BY <1>1, <1>2 DEF Tables
<1>8. Kept(t, u)
  <2>1. \A i \in Seats : t.seat[i].street \in Nat
    BY <1>2 DEF SeatStates
  <2>2. \A i \in Seats : u.seat[i].street <= t.seat[i].street /\ u.seat[i].street <= u.bet
    BY <1>4, <1>7, <2>1
  <2> QED
    BY <1>4, <1>7, <2>2 DEF Kept
<1>9. Well(u)
  BY <1>2, <1>6, <1>7, <1>8, KeptIsWell
<1>10. Active(u) = Active(t) /\ Actionable(u) = Actionable(t)
  <2>1. Active(u) = Active(t)
    BY <1>4, <1>7 DEF Active
  <2> QED
    BY <1>4, <1>7, <2>1, ActiveFacts DEF Actionable
<1>11. Vacant(t) => Vacant(u)
  BY <1>4, <1>5, <1>7 DEF Vacant
<1>12. \A i \in Seats : u.seat[i].street = 0
  BY <1>4, <1>7
<1> QED
  BY <1>7, <1>8, <1>9, <1>10, <1>11, <1>12 DEF u

\* The first seat that can bet after the dealer's, if there is one.
LEMMA FirstAfterDealer ==
    ASSUME NEW t, Well(t)
    PROVE  /\ NextAfter(t.dealer, Actionable(t)) \in SeatOrNone
           /\ Actionable(t) # {} => NextAfter(t.dealer, Actionable(t)) \in Actionable(t)
<1>1. CASE Actionable(t) = {}
  BY <1>1, NextAfterNobody DEF SeatOrNone
<1>2. CASE Actionable(t) # {}
  <2>1. PICK i \in Actionable(t) : TRUE
    BY <1>2
  <2>2. i \in Seats /\ t.seat[i].dealt
    BY <2>1, ActiveFacts DEF Actionable, Active
  <2>3. t.dealer \in Seats
    BY <2>2 DEF Well, Tables, SeatOrNone
  <2>4. NextAfter(t.dealer, Actionable(t)) \in Actionable(t)
    BY <1>2, <2>3, NextAfterIsOne, ActiveFacts
  <2> QED
    BY <2>4, ActiveFacts DEF SeatOrNone
<1> QED
  BY <1>1, <1>2

\* advance_street, from a street that is level and quiet.
LEMMA AdvanceStreetFacts ==
    ASSUME NEW t, Well(t), t.hand # 0
    PROVE  LET u == advance_street(t)
           IN  /\ Well(u) /\ Kept(t, u)
               /\ (Playing(t) /\ Vacant(t) /\ AllMatched(t) /\ Quiet(t) /\ Contested(t)
                     /\ ~RunsOut(t)) => Outcome(u)
<1> DEFINE u == advance_street(t)
<1> DEFINE at == {k \in 1 .. Len(Streets) : Streets[k] = t.phase}
<1> DEFINE clear == Cleared(t)
<1> DEFINE next == [clear EXCEPT !.phase = Streets[Max(at) + 1]]
<1> DEFINE moved == [next EXCEPT !.active = NextAfter(t.dealer, Actionable(next))]
<1>1. u = CASE t.phase = "River" -> finish_showdown(clear)
            [] at = {} -> clear
            [] OTHER -> IF RunsOut(next) THEN finish_showdown(next) ELSE moved
  BY DEF advance_street, Cleared
<1>2. /\ Well(clear) /\ Kept(t, clear) /\ clear.phase = t.phase
      /\ clear.reveal = t.reveal /\ clear.due = t.due /\ clear.settling = t.settling
      /\ \A i \in Seats : clear.seat[i].street = 0
      /\ Active(clear) = Active(t) /\ Actionable(clear) = Actionable(t)
      /\ Vacant(t) => Vacant(clear)
  BY ClearedFacts
<1>3. clear.hand # 0 /\ clear.dealer = t.dealer
  BY <1>2 DEF Kept
<1>4. \A v : Well(v) => v \in Tables
  BY DEF Well
<1>5. AllMatched(t) => AllMatched(clear)
  BY <1>2, ActiveFacts DEF AllMatched, Kept
<1>6. Contested(t) => Active(t) # {}
  BY DEF Contested
<1> HIDE DEF u, clear
<1>7. ASSUME NEW v, Well(v), Kept(t, v), v.hand # 0, v.seat = clear.seat,
             v.due = t.due, v.settling = t.settling
      PROVE  LET w == finish_showdown(v)
             IN  /\ Well(w) /\ Kept(t, w)
                 /\ (Playing(t) /\ Vacant(t) /\ AllMatched(t) /\ Contested(t)) => Outcome(w)
  <2> DEFINE w == finish_showdown(v)
  <2>1. /\ Well(w) /\ Kept(v, w) /\ w.seat = clear.seat /\ w.phase = "Showdown" /\ w.reveal = TRUE
        /\ w.due = t.due /\ w.settling = t.settling
    BY <1>7, ShowdownFacts
  <2> HIDE DEF w
  <2>2. Kept(t, w)
    BY <1>4, <1>7, <2>1, KeptIsTransitive
  <2>3. ASSUME Playing(t), Vacant(t), AllMatched(t), Contested(t) PROVE Outcome(w)
    <3>1. Vacant(w) /\ AllMatched(w) /\ Active(w) # {}
      BY <1>2, <1>5, <1>6, <2>1, <2>3, SameSeats
    <3>2. w.due = {} /\ w.settling = FALSE
      <4>1. t.due = {} /\ ~t.settling /\ t.settling \in BOOLEAN
        BY <1>4, <2>3 DEF Playing, Even, Tables
      <4> QED
        BY <2>1, <4>1
    <3> QED
      BY <2>1, <3>1, <3>2 DEF Outcome, Over
  <2> QED
    BY <2>1, <2>2, <2>3 DEF w
<1>8. CASE t.phase = "River"
  <2>1. at # {}
    <3>1. Len(Streets) \in 1 .. Len(Streets) /\ Streets[Len(Streets)] = "River"
      BY PokerAssumption DEF Last
    <3> QED
      BY <1>8, <3>1
  <2>2. u = finish_showdown(clear)
    BY <1>1, <1>8, <2>1
  <2> QED
    BY <1>2, <1>3, <1>7, <2>2 DEF u
<1>9. CASE t.phase # "River" /\ at = {}
  <2>1. u = clear
    BY <1>1, <1>9
  <2>2. ~Playing(t)
    <3> SUFFICES ASSUME Playing(t) PROVE FALSE
      OBVIOUS
    <3>1. t.phase \in Range(Streets)
      BY DEF Playing, ActionPhase
    <3> QED
      BY <1>9, <3>1, NextStreet
  <2> QED
    BY <1>2, <2>1, <2>2 DEF u
<1>10. CASE t.phase # "River" /\ at # {}
  <2>1. t.phase \in Range(Streets)
    BY <1>10, PokerAssumption DEF Range
  <2> DEFINE p == Streets[Max(at) + 1]
  <2>2. p \in Range(Streets)
    BY <1>10, <2>1, NextStreet
  <2>3. next = [clear EXCEPT !.phase = p]
    OBVIOUS
  <2>4. u = IF RunsOut(next) THEN finish_showdown(next) ELSE moved
    BY <1>1, <1>10
  <2> HIDE DEF p, at, next
  <2>5. /\ Well(next) /\ Kept(clear, next) /\ next.seat = clear.seat /\ next.phase = p
        /\ next.reveal = t.reveal /\ next.due = t.due /\ next.settling = t.settling
    BY <1>2, <1>3, <2>2, <2>3, NewPhaseFacts
  <2>6. Kept(t, next) /\ next.hand # 0 /\ next.dealer = t.dealer
    <3>1. Kept(t, next)
      BY <1>2, <1>4, <2>5, KeptIsTransitive
    <3> QED
      BY <3>1 DEF Kept
  <2>7. Active(next) = Active(t) /\ Actionable(next) = Actionable(t)
    BY <1>2, <2>5, SameSeats
  <2>8. CASE RunsOut(next)
    BY <1>7, <2>4, <2>5, <2>6, <2>8 DEF u
  <2>9. CASE ~RunsOut(next)
    <3> DEFINE a == NextAfter(next.dealer, Actionable(next))
    <3>1. a \in SeatOrNone /\ (Actionable(next) # {} => a \in Actionable(next))
      BY <2>5, FirstAfterDealer
    <3>2. u = [next EXCEPT !.active = a]
      BY <2>4, <2>6, <2>9
    <3> HIDE DEF a
    <3>3. /\ Well(u) /\ Kept(next, u) /\ u.seat = next.seat /\ u.phase = p /\ u.active = a
          /\ u.reveal = t.reveal /\ u.due = t.due /\ u.settling = t.settling
      BY <2>5, <2>6, <3>1, <3>2, NewTurnFacts
    <3>4. Kept(t, u)
      BY <1>4, <2>5, <2>6, <3>3, KeptIsTransitive
    <3>5. ASSUME Playing(t), Vacant(t), AllMatched(t), Quiet(t), Contested(t) PROVE Outcome(u)
      <4>1. u.seat = clear.seat
        BY <2>5, <3>3
      <4>2. Vacant(u) /\ AllMatched(u) /\ Active(u) = Active(t) /\ Actionable(u) = Actionable(t)
        BY <1>2, <1>5, <3>5, <4>1, SameSeats
      <4>3. Levelled(u)
        <5>1. \A i \in Seats : u.seat[i].street = 0 /\ u.seat[i].committed \in Nat
          BY <1>2, <1>4, <4>1 DEF Tables, SeatStates
        <5>2. \A i \in Actionable(u) : i \in Seats
          BY ActiveFacts
        <5> QED
          BY <4>2, <5>1, <5>2 DEF Levelled, AllMatched
      <4>4. Contested(u)
        BY <3>5, <4>2 DEF Contested
      <4>5. u.active \in Actionable(u)
        <5>1. Cardinality(Active(next)) > 1
          BY <2>7, <3>5, ActiveFacts DEF Contested
        <5>2. Cardinality(Actionable(next)) \in Nat /\ ~(Cardinality(Actionable(next)) <= 1)
          BY <2>9, <5>1, ActiveFacts DEF RunsOut
        <5>3. Actionable(next) # {}
          BY <5>2, ActiveFacts
        <5> QED
          BY <2>7, <3>1, <3>3, <4>2, <5>3
      <4>6. Playing(u)
        <5>1. ActionPhase(u)
          BY <2>2, <3>3 DEF ActionPhase
        <5> QED
          BY <3>3, <3>4, <3>5, <5>1 DEF Playing, Even, Kept
      <4>7. \A i \in Seats : u.seat[i].pending = None
        BY <3>4, <3>5 DEF Kept, Quiet
      <4> QED
        BY <4>2, <4>3, <4>4, <4>5, <4>6, <4>7 DEF Outcome, Betting
    <3> QED
      BY <3>3, <3>4, <3>5 DEF u
  <2> QED
    BY <2>8, <2>9
<1> QED
  BY <1>8, <1>9, <1>10

\* Bets that nobody has to answer any more are level.
LEMMA CompleteIsMatched ==
    ASSUME NEW t, Well(t), Levelled(t), StreetComplete(t)
    PROVE  AllMatched(t)
<1> SUFFICES ASSUME NEW i \in Actionable(t), NEW j \in Seats
             PROVE  t.seat[j].committed <= t.seat[i].committed
  BY DEF AllMatched
<1>1. i \in Seats /\ i \in Active(t) /\ ~t.seat[i].all_in
  BY ActiveFacts DEF Actionable
<1>2. /\ t.seat[i].committed \in Nat /\ t.seat[j].committed \in Nat
      /\ t.seat[i].street \in Nat /\ t.seat[j].street \in Nat /\ t.bet \in Nat
  BY <1>1 DEF Well, Tables, SeatStates
<1>3. t.seat[i].street >= t.bet
  BY <1>1 DEF StreetComplete
<1>4. t.seat[j].street <= t.bet
  BY DEF Well
<1>5. t.seat[j].committed - t.seat[j].street <= t.seat[i].committed - t.seat[i].street
  BY DEF Levelled
<1> QED
  BY <1>2, <1>3, <1>4, <1>5

\* A hand won by the last one left.
LEMMA LastOneWins ==
    ASSUME NEW t, Well(t), t.hand # 0, Cardinality(Active(t)) = 1
    PROVE  LET u == finish_by_fold(t, Max(Active(t)))
           IN  Well(u) /\ Kept(t, u) /\ (Even(t) /\ Vacant(t) => Vacant(u) /\ Over(u))
<1> DEFINE u == finish_by_fold(t, Max(Active(t)))
<1>1. Max(Active(t)) \in Seats
  BY ActiveFacts
<1>2. /\ Well(u) /\ Kept(t, u) /\ u.seat = t.seat /\ u.phase = "Showdown" /\ u.reveal = t.reveal
      /\ u.settling = (u.due # {}) /\ Sum(u.due) <= Pot(u)
  BY <1>1, FoldFacts
<1> HIDE DEF u
<1>3. ASSUME Even(t), Vacant(t) PROVE Vacant(u) /\ Over(u)
  <2>1. Vacant(u) /\ Active(u) = Active(t)
    BY <1>2, <1>3, SameSeats
  <2>2. ~u.reveal
    BY <1>2, <1>3 DEF Even
  <2> QED
    BY <1>2, <2>1, <2>2 DEF Over
<1> QED
  BY <1>2, <1>3 DEF u

\* advance_after_action: wherever the turn goes, the hand is bet on or over.
LEMMA AdvancedFacts ==
    ASSUME NEW t, Well(t), t.hand # 0, NEW i \in Seats
    PROVE  LET u == Advanced(t, i)
           IN  /\ Well(u) /\ Kept(t, u)
               /\ (Playing(t) /\ Vacant(t) /\ Levelled(t) /\ Quiet(t) /\ Active(t) # {})
                     => Outcome(u)
<1> DEFINE u == Advanced(t, i)
<1> DEFINE Start == Playing(t) /\ Vacant(t) /\ Levelled(t) /\ Quiet(t) /\ Active(t) # {}
<1>0. Active(t) = {} => Cardinality(Active(t)) = 0
  BY FS_EmptySet
<1>1. CASE Cardinality(Active(t)) = 1
  <2>1. Active(t) # {}
    BY <1>0, <1>1
  <2>2. u = finish_by_fold(t, Max(Active(t)))
    BY <1>1, <2>1 DEF Advanced
  <2> HIDE DEF u
  <2>3. Well(u) /\ Kept(t, u) /\ (Even(t) /\ Vacant(t) => Vacant(u) /\ Over(u))
    BY <1>1, <2>2, LastOneWins
  <2> QED
    BY <2>3 DEF u, Outcome, Playing
<1>2. CASE Active(t) = {}
  <2>1. u = Abandoned(t)
    BY <1>0, <1>2 DEF Advanced
  <2> HIDE DEF u
  <2>2. Well(u) /\ Kept(t, u)
    BY <2>1, AbandonedFacts
  <2> QED
    BY <1>2, <2>2 DEF u
<1>3. CASE Active(t) # {} /\ Cardinality(Active(t)) # 1 /\ StreetComplete(t)
  <2>1. u = IF RunsOut(t) THEN finish_showdown(t) ELSE advance_street(t)
    BY <1>3 DEF Advanced
  <2> HIDE DEF u
  <2>2. Contested(t)
    BY <1>3, ActiveFacts DEF Contested
  <2>3. Levelled(t) => AllMatched(t)
    BY <1>3, CompleteIsMatched
  <2>4. CASE RunsOut(t)
    <3>1. /\ Well(u) /\ Kept(t, u) /\ u.seat = t.seat /\ u.phase = "Showdown"
          /\ u.reveal = TRUE /\ u.due = t.due /\ u.settling = t.settling
      BY <2>1, <2>4, ShowdownFacts
    <3>2. ASSUME Start PROVE Outcome(u)
      <4>1. Vacant(u) /\ AllMatched(u) /\ Active(u) # {}
        BY <1>3, <2>3, <3>1, <3>2, SameSeats
      <4>2. u.due = {} /\ u.settling = FALSE
        <5>1. t.due = {} /\ ~t.settling /\ t.settling \in BOOLEAN
          BY <3>2 DEF Playing, Even, Well, Tables
        <5> QED
          BY <3>1, <5>1
      <4> QED
        BY <3>1, <4>1, <4>2 DEF Outcome, Over
    <3> QED
      BY <3>1, <3>2 DEF u
  <2>5. CASE ~RunsOut(t)
    <3>1. /\ Well(u) /\ Kept(t, u)
          /\ (Playing(t) /\ Vacant(t) /\ AllMatched(t) /\ Quiet(t) /\ Contested(t)
                /\ ~RunsOut(t)) => Outcome(u)
      BY <2>1, <2>5, AdvanceStreetFacts
    <3> QED
      BY <2>2, <2>3, <2>5, <3>1 DEF u
  <2> QED
    BY <2>4, <2>5
<1>4. CASE Active(t) # {} /\ Cardinality(Active(t)) # 1 /\ ~StreetComplete(t)
  <2> DEFINE a == NextAfter(i, Actionable(t))
  <2>1. u = [t EXCEPT !.active = a]
    BY <1>4 DEF Advanced
  <2>2. Actionable(t) # {}
    <3>1. PICK j \in Active(t) : ~t.seat[j].all_in
      BY <1>4 DEF StreetComplete
    <3> QED
      BY <3>1 DEF Actionable
  <2>3. a \in Actionable(t) /\ a \in SeatOrNone
    <3>1. Actionable(t) \in SUBSET Seats
      BY ActiveFacts
    <3>2. a \in Actionable(t)
      BY <2>2, <3>1, NextAfterIsOne
    <3> QED
      BY <3>1, <3>2 DEF SeatOrNone
  <2> HIDE DEF u, a
  <2>4. /\ Well(u) /\ Kept(t, u) /\ u.seat = t.seat /\ u.phase = t.phase /\ u.active = a
        /\ u.reveal = t.reveal /\ u.due = t.due /\ u.settling = t.settling
    BY <2>1, <2>3, NewTurnFacts
  <2>5. ASSUME Start PROVE Outcome(u)
    <3>1. /\ Vacant(u) /\ Levelled(u) /\ Quiet(u)
          /\ Active(u) = Active(t) /\ Actionable(u) = Actionable(t)
      BY <2>4, <2>5, SameSeats
    <3>2. Contested(u)
      BY <1>4, <3>1, ActiveFacts DEF Contested
    <3>3. Playing(u)
      BY <2>4, <2>5 DEF Playing, ActionPhase, Even
    <3>4. u.active \in Actionable(u) /\ \A j \in Seats : u.seat[j].pending = None
      BY <2>3, <2>4, <3>1 DEF Quiet
    <3> QED
      BY <3>1, <3>2, <3>3, <3>4 DEF Outcome, Betting
  <2> QED
    BY <2>4, <2>5 DEF u
<1> QED
  BY <1>1, <1>2, <1>3, <1>4

\* Op(x), with x evaluated once, is Op(x).
LEMMA OneChoice == \A r : (CHOOSE x \in {r} : TRUE) = r
  OBVIOUS

LEMMA AdvanceAfterAction == \A t, i : advance_after_action(t, i) = Advanced(t, i)
<1> TAKE t, i
<1>1. advance_after_action(t, i) = CHOOSE r \in {Advanced(y, i) : y \in {t}} : TRUE
  BY DEF advance_after_action, With
<1>2. {Advanced(y, i) : y \in {t}} = {Advanced(t, i)}
  OBVIOUS
<1> QED
  BY <1>1, <1>2, OneChoice

\* The table when the blinds are in.
Ready(t) == [t EXCEPT !.bet = Max({t.seat[i].street : i \in Seats}), !.min_raise = BigBlind]

\* finish_blind_posting sets the bet.
LEMMA ReadyFacts ==
    ASSUME NEW t, Well(t), t.hand # 0
    PROVE  LET u == Ready(t)
           IN  /\ Well(u) /\ Kept(t, u) /\ u.seat = t.seat /\ u.phase = t.phase
               /\ u.reveal = t.reveal /\ u.due = t.due /\ u.settling = t.settling
<1> DEFINE f == [i \in Seats |-> t.seat[i].street]
<1> DEFINE S == {f[i] : i \in Seats}
<1> DEFINE u == Ready(t)
<1>1. u = [t EXCEPT !.bet = Max(S), !.min_raise = BigBlind]
  BY DEF Ready
<1>2. t \in Tables /\ IsFiniteSet(t.due) /\ \A i \in Seats : t.seat[i].street \in Nat
  BY DEF Well, Tables, SeatStates
<1>3. IsFiniteSet(S)
  <2> HIDE DEF f
  <2> QED
    BY SeatsAreFinite, FiniteImage
<1>4. S # {} /\ S \subseteq Nat /\ \A i \in Seats : t.seat[i].street \in S
  BY <1>2, SeatsAreFinite
<1> HIDE DEF S, u, f
<1>5. Max(S) \in Nat /\ \A i \in Seats : t.seat[i].street <= Max(S)
  <2>1. S \subseteq Int
    BY <1>4
  <2>2. Max(S) \in S /\ \A x \in S : x <= Max(S)
    BY <1>3, <1>4, <2>1, Extremes
  <2> QED
    BY <1>4, <2>2
<1>6. u \in Tables
  BY <1>1, <1>2, <1>5, BigBlindIsNat DEF Tables
<1>7. /\ u.phase = t.phase /\ u.due = t.due /\ u.settling = t.settling /\ u.reveal = t.reveal
      /\ u.seat = t.seat /\ u.hand = t.hand /\ u.dealer = t.dealer /\ u.big = t.big
      /\ u.blinds = t.blinds /\ u.bet = Max(S)
  BY <1>1, <1>2 DEF Tables
<1>8. Kept(t, u)
  BY <1>2, <1>5, <1>7 DEF Kept
<1>9. Well(u)
  BY <1>2, <1>6, <1>7, <1>8, KeptIsWell
<1> QED
  BY <1>7, <1>8, <1>9 DEF u

\* A hand that never came to betting, and in which nothing was put in.
Stillborn(t) == t.phase = "Waiting" /\ Vacant(t) /\ Idle(t) /\ ~t.settling /\ Pot(t) = 0

\* finish_blind_posting opens the street, ends the hand or abandons it.
LEMMA BlindPostingFacts ==
    ASSUME NEW t, Well(t), t.hand # 0, t.phase = "PostingBlinds"
    PROVE  LET u == finish_blind_posting(t)
           IN  /\ Well(u) /\ Kept(t, u)
               /\ Posting(t) /\ Vacant(t) /\ Quiet(t) => Outcome(u) \/ Stillborn(u)
<1> DEFINE u == finish_blind_posting(t)
<1> DEFINE ready == Ready(t)
<1> DEFINE a == NextAfter(t.big, Actionable(t))
<1> DEFINE mid == [ready EXCEPT !.phase = "PreFlop"]
<1> DEFINE open == [mid EXCEPT !.active = a]
<1> DEFINE Start == Posting(t) /\ Vacant(t) /\ Quiet(t)
<1>0. Active(t) = {} => Cardinality(Active(t)) = 0
  BY FS_EmptySet
<1>1. /\ Well(ready) /\ Kept(t, ready) /\ ready.seat = t.seat /\ ready.phase = t.phase
      /\ ready.reveal = t.reveal /\ ready.due = t.due /\ ready.settling = t.settling
  BY ReadyFacts
<1>2. u = CASE Cardinality(Active(t)) = 1 -> finish_by_fold(ready, Max(Active(t)))
            [] Active(t) = {} -> Abandoned(ready)
            [] OTHER -> IF open.active = None /\ StreetComplete(open)
                        THEN finish_showdown(open) ELSE open
  <2>1. open = [ready EXCEPT !.phase = "PreFlop", !.active = a]
    OBVIOUS
  <2> QED
    BY <2>1 DEF finish_blind_posting, Ready
<1>3. Active(ready) = Active(t) /\ Actionable(ready) = Actionable(t)
  BY <1>1, SameSeats
<1>4. ready.hand # 0 /\ \A v : Well(v) => v \in Tables
  BY <1>1 DEF Kept, Well
<1>5. Posting(t) => Even(ready) /\ ready.settling = FALSE
  <2>1. t.settling \in BOOLEAN
    BY DEF Well, Tables
  <2> QED
    BY <1>1, <2>1 DEF Posting, Even
<1> HIDE DEF u, ready
<1>6. CASE Cardinality(Active(t)) = 1
  <2>1. u = finish_by_fold(ready, Max(Active(ready)))
    BY <1>0, <1>2, <1>3, <1>6
  <2>2. Well(u) /\ Kept(ready, u) /\ (Even(ready) /\ Vacant(ready) => Vacant(u) /\ Over(u))
    BY <1>1, <1>3, <1>4, <1>6, <2>1, LastOneWins
  <2>3. Kept(t, u)
    BY <1>1, <1>4, <2>2, KeptIsTransitive
  <2>4. ASSUME Start PROVE Outcome(u)
    BY <1>1, <1>5, <2>2, <2>4, SameSeats DEF Outcome
  <2> QED
    BY <2>2, <2>3, <2>4 DEF u
<1>7. CASE Active(t) = {}
  <2>1. u = Abandoned(ready)
    BY <1>0, <1>2, <1>7
  <2>2. /\ Well(u) /\ Kept(ready, u) /\ u.seat = ready.seat /\ u.phase = "Waiting"
        /\ u.reveal = ready.reveal /\ u.due = ready.due /\ u.settling = ready.settling
    BY <1>1, <1>4, <2>1, AbandonedFacts
  <2>3. Kept(t, u)
    BY <1>1, <1>4, <2>2, KeptIsTransitive
  <2>4. ASSUME Start PROVE Stillborn(u)
    <3>1. u.seat = t.seat
      BY <1>1, <2>2
    <3>2. Vacant(u) /\ Quiet(u)
      BY <2>4, <3>1, SameSeats
    <3>3. \A i \in Seats : u.seat[i].committed = 0
      <4>1. \A i \in Seats : t.seat[i].committed \in Nat /\ ~(t.seat[i].committed > 0)
        BY <1>7, <2>4 DEF Posting, Well, Tables, SeatStates
      <4> QED
        BY <3>1, <4>1
    <3>4. Pot(u) = 0
      <4> DEFINE c == Committed(u)
      <4>1. \A i \in Seats : c[i] = 0
        BY <3>3 DEF Committed
      <4>2. Pot(u) = SumFunctionOnSet(c, Seats)
        BY <1>4, <2>2, PotIsSum
      <4> HIDE DEF c
      <4> QED
        BY <4>1, <4>2, SeatsAreFinite, SumOfZeros
    <3>5. Even(u) /\ ~u.settling
      BY <1>5, <2>2, <2>4 DEF Even
    <3> QED
      BY <2>2, <3>2, <3>4, <3>5 DEF Stillborn, Idle
  <2> QED
    BY <2>2, <2>3, <2>4 DEF u
<1>8. CASE Active(t) # {} /\ Cardinality(Active(t)) # 1
  <2>1. u = IF open.active = None /\ StreetComplete(open) THEN finish_showdown(open) ELSE open
    BY <1>2, <1>8
  <2>2. /\ a \in SeatOrNone /\ (a = None => Actionable(t) = {})
        /\ (Actionable(t) # {} => a \in Actionable(t))
    <3>1. t.big \in Seats /\ None \notin Seats
      BY PokerAssumption DEF Well
    <3>2. Actionable(t) \in SUBSET Seats
      BY ActiveFacts
    <3>3. Actionable(t) # {} => a \in Actionable(t)
      BY <3>1, <3>2, NextAfterIsOne
    <3>4. Actionable(t) = {} => a = None
      BY NextAfterNobody
    <3> QED
      BY <3>1, <3>2, <3>3, <3>4 DEF SeatOrNone
  <2> HIDE DEF a
  <2>3. /\ Well(mid) /\ Kept(ready, mid) /\ mid.seat = ready.seat /\ mid.phase = "PreFlop"
        /\ mid.reveal = ready.reveal /\ mid.due = ready.due /\ mid.settling = ready.settling
    BY <1>1, <1>4, PhaseFacts, NewPhaseFacts
  <2>4. mid.hand # 0
    BY <1>4, <2>3 DEF Kept
  <2> HIDE DEF mid
  <2>5. /\ Well(open) /\ Kept(mid, open) /\ open.seat = mid.seat /\ open.phase = "PreFlop"
        /\ open.active = a /\ open.reveal = mid.reveal /\ open.due = mid.due
        /\ open.settling = mid.settling
    BY <2>2, <2>3, <2>4, NewTurnFacts
  <2> HIDE DEF open
  <2>6. Kept(t, open) /\ open.hand # 0 /\ open.seat = t.seat
    <3>1. Kept(t, mid)
      BY <1>1, <1>4, <2>3, KeptIsTransitive
    <3>2. Kept(t, open)
      BY <1>4, <2>3, <2>5, <3>1, KeptIsTransitive
    <3> QED
      BY <1>1, <2>3, <2>5, <3>2 DEF Kept
  <2>7. /\ Active(open) = Active(t) /\ Actionable(open) = Actionable(t)
        /\ Vacant(t) => Vacant(open)
    BY <2>6, SameSeats
  <2>8. Posting(t) => Even(open) /\ open.settling = FALSE
    BY <1>5, <2>3, <2>5 DEF Even
  <2>9. CASE open.active = None
    <3>1. Actionable(open) = {}
      BY <2>2, <2>5, <2>7, <2>9
    <3>2. StreetComplete(open)
      BY <1>8, <2>7, <3>1 DEF StreetComplete, Actionable
    <3>3. u = finish_showdown(open)
      BY <2>1, <2>9, <3>2
    <3>4. /\ Well(u) /\ Kept(open, u) /\ u.seat = open.seat /\ u.phase = "Showdown"
          /\ u.reveal = TRUE /\ u.due = open.due /\ u.settling = open.settling
      BY <2>5, <2>6, <3>3, ShowdownFacts
    <3>5. Kept(t, u)
      BY <1>4, <2>5, <2>6, <3>4, KeptIsTransitive
    <3>6. Active(u) = Active(t) /\ Actionable(u) = {} /\ (Vacant(t) => Vacant(u))
      BY <2>7, <3>1, <3>4, SameSeats
    <3>7. AllMatched(u)
      BY <3>6 DEF AllMatched
    <3>8. ASSUME Start PROVE Outcome(u)
      BY <1>8, <2>8, <3>4, <3>6, <3>7, <3>8 DEF Outcome, Over, Even
    <3> QED
      BY <3>4, <3>5, <3>8 DEF u
  <2>10. CASE open.active # None
    <3>1. u = open
      BY <2>1, <2>10
    <3>2. ASSUME Start PROVE Outcome(u)
      <4>1. Playing(u)
        <5>1. ActionPhase(u)
          BY <2>5, <3>1, PhaseFacts DEF ActionPhase
        <5>2. \A i \in Seats : u.seat[i].committed > 0 => u.seat[i].dealt
          BY <2>6, <3>1, <3>2 DEF Posting, Active
        <5> QED
          BY <2>8, <3>1, <3>2, <5>1, <5>2 DEF Playing
      <4>2. Levelled(u)
        <5>1. \A i \in Seats : u.seat[i].committed \in Nat /\ u.seat[i].committed = u.seat[i].street
          BY <2>6, <3>1, <3>2 DEF Posting, Well, Tables, SeatStates
        <5>2. \A i \in Actionable(u) : i \in Seats
          BY ActiveFacts
        <5>3. \A i \in Seats : u.seat[i].committed - u.seat[i].street = 0
          BY <5>1
        <5> QED
          BY <5>2, <5>3 DEF Levelled
      <4>3. Contested(u)
        BY <1>8, <2>7, <3>1, ActiveFacts DEF Contested
      <4>4. u.active \in Actionable(u)
        <5>1. a # None
          BY <2>5, <2>10
        <5>2. Actionable(t) # {}
          BY <5>1, NextAfterNobody DEF a
        <5> QED
          BY <2>2, <2>5, <2>7, <3>1, <5>2
      <4>5. \A i \in Seats : u.seat[i].pending = None
        BY <2>6, <3>1, <3>2 DEF Quiet
      <4>6. Vacant(u)
        BY <2>7, <3>1, <3>2
      <4> QED
        BY <4>1, <4>2, <4>3, <4>4, <4>5, <4>6 DEF Outcome, Betting
    <3> QED
      BY <2>5, <2>6, <3>1, <3>2 DEF u
  <2> QED
    BY <2>9, <2>10
<1> QED
  BY <1>6, <1>7, <1>8

\* A table on which only seat i and the countdown changed.
Acts(t, i, s, c) == [t EXCEPT !.countdown = c, !.seat = [t.seat EXCEPT ![i] = s]]

LEMMA ActsFields ==
    ASSUME NEW t \in Tables, NEW i \in Seats, NEW s \in SeatStates, NEW c \in SeatOrNone, NEW u,
           u = Acts(t, i, s, c)
    PROVE  /\ u \in Tables /\ u.seat[i] = s /\ \A j \in Seats : j # i => u.seat[j] = t.seat[j]
           /\ u.phase = t.phase /\ u.hand = t.hand /\ u.dealer = t.dealer /\ u.big = t.big
           /\ u.active = t.active /\ u.bet = t.bet /\ u.min_raise = t.min_raise
           /\ u.blinds = t.blinds /\ u.countdown = c /\ u.settling = t.settling
           /\ u.due = t.due /\ u.reveal = t.reveal
<1> DEFINE seat == [t.seat EXCEPT ![i] = s]
<1>1. t.seat \in [Seats -> SeatStates]
  BY DEF Tables
<1>2. seat \in [Seats -> SeatStates] /\ seat[i] = s /\ \A j \in Seats : j # i => seat[j] = t.seat[j]
  BY <1>1
<1>3. u = [t EXCEPT !.countdown = c, !.seat = seat]
  BY DEF Acts
<1> HIDE DEF seat
<1>4. u \in Tables
  BY <1>2, <1>3 DEF Tables
<1>5. /\ u.seat = seat /\ u.phase = t.phase /\ u.hand = t.hand /\ u.dealer = t.dealer
      /\ u.big = t.big /\ u.active = t.active /\ u.bet = t.bet /\ u.min_raise = t.min_raise
      /\ u.blinds = t.blinds /\ u.countdown = c /\ u.settling = t.settling
      /\ u.due = t.due /\ u.reveal = t.reveal
  BY <1>3 DEF Tables
<1> QED
  BY <1>2, <1>4, <1>5

\* Seat i does something that costs no chips: at most it is no longer in the hand.
LEMMA ActsFacts ==
    ASSUME NEW t, Well(t), NEW i \in Seats, NEW s \in SeatStates, NEW c \in SeatOrNone, NEW u,
           u = Acts(t, i, s, c),
           s.user = t.seat[i].user, s.dealt = t.seat[i].dealt, s.all_in = t.seat[i].all_in,
           s.committed = t.seat[i].committed, s.pending = t.seat[i].pending,
           s.street = t.seat[i].street
    PROVE  /\ Well(u) /\ Kept(t, u)
           /\ Active(t) \ {i} \subseteq Active(u)
           /\ Vacant(t) /\ s.user # None => Vacant(u)
           /\ Quiet(t) => Quiet(u)
           /\ Playing(t) => Playing(u)
           /\ (t.seat[i].folded => s.folded) =>
                 /\ Active(u) \subseteq Active(t) /\ Actionable(u) \subseteq Actionable(t)
                 /\ Levelled(t) => Levelled(u)
           /\ t.seat[i].folded = s.folded => Active(u) = Active(t) /\ Actionable(u) = Actionable(t)
<1>0. t \in Tables
  BY DEF Well
<1>1. /\ u \in Tables /\ u.seat[i] = s /\ \A j \in Seats : j # i => u.seat[j] = t.seat[j]
      /\ u.phase = t.phase /\ u.hand = t.hand /\ u.dealer = t.dealer /\ u.big = t.big
      /\ u.active = t.active /\ u.bet = t.bet
      /\ u.blinds = t.blinds /\ u.settling = t.settling
      /\ u.due = t.due /\ u.reveal = t.reveal
  BY <1>0, ActsFields
<1>2. \A j \in Seats :
        /\ u.seat[j].user = t.seat[j].user /\ u.seat[j].dealt = t.seat[j].dealt
        /\ u.seat[j].all_in = t.seat[j].all_in /\ u.seat[j].committed = t.seat[j].committed
        /\ u.seat[j].pending = t.seat[j].pending /\ u.seat[j].street = t.seat[j].street
  BY <1>1
<1>3. Kept(t, u)
  <2>1. \A j \in Seats : t.seat[j].street \in Nat /\ t.seat[j].street <= t.bet
    BY DEF Well, Tables, SeatStates
  <2> QED
    BY <1>1, <1>2, <2>1 DEF Kept
<1>4. Well(u)
  <2>1. IsFiniteSet(u.due)
    BY <1>1 DEF Well
  <2> QED
    BY <1>1, <1>3, <2>1, KeptIsWell
<1>5. Active(t) \ {i} \subseteq Active(u)
  BY <1>1 DEF Active
<1>6. Vacant(t) /\ s.user # None => Vacant(u)
  BY <1>1 DEF Vacant
<1>7. Quiet(t) => Quiet(u)
  BY <1>2 DEF Quiet
<1>8. Playing(t) => Playing(u)
  BY <1>1, <1>2 DEF Playing, ActionPhase, Even
<1>9. ASSUME t.seat[i].folded => s.folded
      PROVE  /\ Active(u) \subseteq Active(t) /\ Actionable(u) \subseteq Actionable(t)
             /\ Levelled(t) => Levelled(u)
  <2>1. \A j \in Seats : t.seat[j].folded => u.seat[j].folded
    BY <1>1, <1>9
  <2>2. Active(u) \subseteq Active(t)
    BY <1>2, <2>1 DEF Active
  <2>3. Actionable(u) \subseteq Actionable(t)
    <3>1. Active(u) \subseteq Seats
      BY ActiveFacts
    <3> QED
      BY <1>2, <2>2, <3>1 DEF Actionable
  <2>4. \A j \in Actionable(u) : j \in Seats
    BY ActiveFacts
  <2> QED
    BY <1>2, <2>2, <2>3, <2>4 DEF Levelled
<1>10. ASSUME t.seat[i].folded = s.folded
       PROVE  Active(u) = Active(t) /\ Actionable(u) = Actionable(t)
  <2>1. \A j \in Seats : t.seat[j].folded = u.seat[j].folded
    BY <1>1, <1>10
  <2>2. Active(u) = Active(t)
    BY <1>2, <2>1 DEF Active
  <2> QED
    BY <1>2, <2>2, ActiveFacts DEF Actionable
<1> QED
  BY <1>3, <1>4, <1>5, <1>6, <1>7, <1>8, <1>9, <1>10

\* Seat i acts, and the turn moves on.
LEMMA ActsAndAdvances ==
    ASSUME NEW t, Well(t), t.hand # 0, NEW i \in Seats, NEW s \in SeatStates,
           NEW c \in SeatOrNone, NEW v, v = Acts(t, i, s, c),
           s.user = t.seat[i].user, s.dealt = t.seat[i].dealt, s.all_in = t.seat[i].all_in,
           s.committed = t.seat[i].committed, s.pending = t.seat[i].pending,
           s.street = t.seat[i].street
    PROVE  LET u == advance_after_action(v, i)
           IN  /\ Well(u) /\ Kept(t, u)
               /\ (Betting(t) /\ Vacant(t) /\ t.active = i /\ t.seat[i].pending = None
                    => Outcome(u))
<1> DEFINE u == advance_after_action(v, i)
<1>1. /\ Well(v) /\ Kept(t, v)
      /\ Active(t) \ {i} \subseteq Active(v)
      /\ Vacant(t) /\ s.user # None => Vacant(v)
      /\ Quiet(t) => Quiet(v)
      /\ Playing(t) => Playing(v)
      /\ (t.seat[i].folded => s.folded) => (Levelled(t) => Levelled(v))
  BY ActsFacts
<1>2. v.hand # 0 /\ \A x : Well(x) => x \in Tables
  BY <1>1 DEF Kept, Well
<1>3. u = Advanced(v, i)
  BY AdvanceAfterAction
<1> HIDE DEF u
<1>4. /\ Well(u) /\ Kept(v, u)
      /\ (Playing(v) /\ Vacant(v) /\ Levelled(v) /\ Quiet(v) /\ Active(v) # {}) => Outcome(u)
  BY <1>1, <1>2, <1>3, AdvancedFacts
<1>5. Kept(t, u)
  BY <1>1, <1>2, <1>4, KeptIsTransitive
<1>6. ASSUME Betting(t), Vacant(t), t.active = i, t.seat[i].pending = None
      PROVE  Outcome(u)
  <2>1. Playing(t) /\ Levelled(t) /\ Contested(t) /\ i \in Actionable(t)
    BY <1>6 DEF Betting
  <2>2. Quiet(t)
    BY <1>6 DEF Betting, Quiet
  <2>3. t.seat[i].user # None /\ ~t.seat[i].folded
    BY <2>1, ActiveFacts DEF Actionable, Active
  <2>4. Active(v) # {}
    BY <1>1, <2>1 DEF Contested
  <2> QED
    BY <1>1, <1>4, <1>6, <2>1, <2>2, <2>3, <2>4
<1> QED
  BY <1>4, <1>5, <1>6 DEF u

\* A table that differs in nothing the states of a hand are about.
LEMMA SameTable ==
    ASSUME NEW t, NEW u, u.seat = t.seat, u.phase = t.phase, u.active = t.active,
           u.due = t.due, u.reveal = t.reveal, u.settling = t.settling
    PROVE  /\ Betting(t) => Betting(u)
           /\ Over(t) => Over(u)
           /\ Outcome(t) => Outcome(u)
           /\ Posting(t) => Posting(u)
           /\ Idle(t) => Idle(u)
           /\ Pot(u) = Pot(t)
<1>1. /\ Active(u) = Active(t) /\ Actionable(u) = Actionable(t)
      /\ Vacant(t) => Vacant(u)
      /\ Levelled(t) => Levelled(u)
      /\ AllMatched(t) => AllMatched(u)
      /\ Contested(t) => Contested(u)
      /\ Quiet(t) => Quiet(u)
  BY SameSeats
<1>2. Pot(u) = Pot(t)
  BY SamePot
<1>3. Betting(t) => Betting(u)
  BY <1>1 DEF Betting, Playing, ActionPhase, Even
<1>4. Over(t) => Over(u)
  BY <1>1, <1>2 DEF Over
<1>5. Posting(t) => Posting(u)
  BY <1>1 DEF Posting, Even
<1>6. Idle(t) => Idle(u)
  BY <1>1 DEF Idle, Even
<1> QED
  BY <1>1, <1>2, <1>3, <1>4, <1>5, <1>6 DEF Outcome

-----------------------------------------------------------------------------
(* Automatic turns and the clock.                                          *)

LEMMA KeptIsReflexive == ASSUME NEW t, Well(t) PROVE Kept(t, t)
<1>1. \A i \in Seats : t.seat[i].street \in Nat /\ t.seat[i].street <= t.bet
  BY DEF Well, Tables, SeatStates
<1> QED
  BY <1>1 DEF Kept

\* What automatic turns make of a table t.
PlayedOn(t, u) ==
    /\ Well(u) /\ Kept(t, u)
    /\ Outcome(t) => Outcome(u)
    /\ ~PlaysItself(t) => u = t

\* One pass of the automatic turns keeps what a step of the betting promises.
LEMMA AutoPlayFacts == ASSUME NEW t, Well(t) PROVE PlayedOn(t, AutoPlay(t))
<1> DEFINE u == AutoPlay(t)
<1>1. CASE ~PlaysItself(t)
  BY <1>1, KeptIsReflexive DEF AutoPlay, PlayedOn
<1>2. CASE PlaysItself(t)
  <2> DEFINE i == t.active
  <2> DEFINE s == [t.seat[i] EXCEPT !.folded = ToCall(t, i) # 0, !.acted = TRUE]
  <2> DEFINE clear == [t EXCEPT !.countdown = None]
  <2> DEFINE v == ChecksOrFolds(clear, i)
  <2>1. t \in Tables
    BY DEF Well
  <2>2. i \in Seats /\ t.hand # 0 /\ t.seat[i].pending = None /\ ActionPhase(t)
    <3>1. t.active # None /\ ActionPhase(t) /\ t.seat[i].pending = None
      BY <1>2 DEF PlaysItself, CanAct
    <3>2. t.active \in Seats
      BY <2>1, <3>1 DEF Tables, SeatOrNone
    <3>3. t.phase # "Waiting"
      BY <3>1, PhaseFacts DEF ActionPhase
    <3> QED
      BY <3>1, <3>2, <3>3 DEF Well
  <2>3. u = advance_after_action(v, i)
    BY <1>2 DEF AutoPlay
  <2>4. t.seat \in [Seats -> SeatStates] /\ t.seat[i] \in SeatStates
    BY <2>1, <2>2 DEF Tables
  <2>5. /\ s \in SeatStates /\ s.user = t.seat[i].user /\ s.dealt = t.seat[i].dealt
        /\ s.all_in = t.seat[i].all_in /\ s.committed = t.seat[i].committed
        /\ s.pending = t.seat[i].pending /\ s.street = t.seat[i].street
    BY <2>4 DEF SeatStates
  <2>6. v = Acts(t, i, s, None)
    <3>1. ToCall(clear, i) = ToCall(t, i)
      BY <2>1 DEF ToCall, Tables
    <3>2. v = [clear EXCEPT !.seat[i].folded = ToCall(t, i) # 0, !.seat[i].acted = TRUE]
      BY <3>1 DEF ChecksOrFolds
    <3>3. clear \in Tables /\ clear.seat = t.seat
      BY <2>1 DEF Tables, SeatOrNone
    <3>4. [clear EXCEPT !.seat = [t.seat EXCEPT ![i] = s]] = Acts(t, i, s, None)
      <4> HIDE DEF s, i
      <4> QED
        BY <2>1 DEF Acts, Tables
    <3> HIDE DEF clear, i
    <3>5. v = [clear EXCEPT !.seat = [clear.seat EXCEPT ![i] =
                  [clear.seat[i] EXCEPT !.folded = ToCall(t, i) # 0, !.acted = TRUE]]]
      BY <2>2, <3>2, <3>3 DEF Tables
    <3> QED
      BY <3>3, <3>4, <3>5
  <2>7. None \in SeatOrNone
    BY DEF SeatOrNone
  <2> HIDE DEF u, v, s, i
  <2>8. /\ Well(u) /\ Kept(t, u)
        /\ (Betting(t) /\ Vacant(t) /\ t.active = i /\ t.seat[i].pending = None => Outcome(u))
    BY <2>2, <2>3, <2>5, <2>6, <2>7, ActsAndAdvances
  <2>9. Outcome(t) => Outcome(u)
    <3>1. ~Over(t)
      BY <2>2, PhaseFacts DEF Over, ActionPhase
    <3> QED
      BY <2>2, <2>8, <3>1 DEF Outcome, i
  <2> QED
    BY <1>2, <2>8, <2>9 DEF PlayedOn, u
<1> QED
  BY <1>1, <1>2

\* The first n passes of the loop of apply_auto_check_folds.
Passes(after, t, n) ==
    after = [k \in 0 .. n |-> IF k = 0 THEN t ELSE With(after[k - 1], AutoPlay)]

LEMMA OnePass == \A t : With(t, AutoPlay) = AutoPlay(t)
<1> TAKE t
<1>1. With(t, AutoPlay) = CHOOSE r \in {AutoPlay(y) : y \in {t}} : TRUE
  BY DEF With
<1>2. {AutoPlay(y) : y \in {t}} = {AutoPlay(t)}
  OBVIOUS
<1> QED
  BY <1>1, <1>2, OneChoice

\* The loop of apply_auto_check_folds has as many passes as it says.
LEMMA PassesExist == ASSUME NEW t, NEW n \in Nat PROVE \E after : Passes(after, t, n)
<1> DEFINE Bad == {m \in 0 .. n : ~ \E after : Passes(after, t, m)}
<1>1. SUFFICES ASSUME Bad # {} PROVE FALSE
  OBVIOUS
<1>2. Bad \subseteq 0 .. n
  OBVIOUS
<1>3. IsFiniteSet(Bad) /\ Bad \subseteq Int
  <2>1. IsFiniteSet(0 .. n)
    BY FS_Interval
  <2>2. IsFiniteSet(Bad)
    BY <1>2, <2>1, FS_Subset
  <2> QED
    BY <1>2, <2>2
<1> HIDE DEF Bad
<1>4. PICK m \in Bad : \A k \in Bad : m <= k
  BY <1>1, <1>3, Extremes
<1>5. m \in 0 .. n /\ ~ \E after : Passes(after, t, m)
  BY <1>4 DEF Bad
<1>6. m # 0
  <2> SUFFICES ASSUME m = 0 PROVE FALSE
    OBVIOUS
  <2> DEFINE after == [k \in 0 .. 0 |-> t]
  <2>1. after = [k \in 0 .. 0 |-> IF k = 0 THEN t ELSE With(after[k - 1], AutoPlay)]
    OBVIOUS
  <2>2. Passes(after, t, 0)
    BY <2>1 DEF Passes
  <2> QED
    BY <1>5, <2>2
<1>7. m - 1 \in 0 .. n /\ m - 1 \notin Bad
  BY <1>4, <1>5, <1>6
<1>8. PICK f : Passes(f, t, m - 1)
  BY <1>7 DEF Bad
<1> DEFINE g == [k \in 0 .. m |-> IF k = m THEN With(f[m - 1], AutoPlay) ELSE f[k]]
<1>9. \A k \in 0 .. m : g[k] = IF k = 0 THEN t ELSE With(g[k - 1], AutoPlay)
  <2> TAKE k \in 0 .. m
  <2>1. m \in Nat /\ k \in Nat
    BY <1>5
  <2>2. CASE k = m
    <3>1. k # 0 /\ k - 1 \in 0 .. m /\ k - 1 # m /\ k - 1 = m - 1
      BY <1>6, <2>1, <2>2
    <3>2. g[k - 1] = f[m - 1]
      BY <3>1
    <3>3. g[k] = With(f[m - 1], AutoPlay)
      BY <2>2
    <3> QED
      BY <3>1, <3>2, <3>3
  <2>3. CASE k # m
    <3>1. k \in 0 .. m - 1
      BY <2>1, <2>3
    <3>2. g[k] = f[k] /\ f[k] = IF k = 0 THEN t ELSE With(f[k - 1], AutoPlay)
      BY <1>8, <2>3, <3>1 DEF Passes
    <3>3. k # 0 => k - 1 \in 0 .. m /\ k - 1 # m
      BY <2>1, <3>1
    <3>4. k # 0 => g[k - 1] = f[k - 1]
      BY <3>3
    <3> QED
      BY <3>2, <3>4
  <2> QED
    BY <2>2, <2>3
<1>10. g = [k \in 0 .. m |-> g[k]]
  OBVIOUS
<1> HIDE DEF g
<1>11. Passes(g, t, m)
  BY <1>9, <1>10 DEF Passes
<1> QED
  BY <1>5, <1>11

\* So do all its passes.
LEMMA AutoFacts ==
    ASSUME NEW t, Well(t)
    PROVE  PlayedOn(t, apply_auto_check_folds(t))
<1> DEFINE n == 4 * NumSeats
<1>0. n \in Nat
  BY NumSeatsAssumption
<1> DEFINE f == CHOOSE after : Passes(after, t, n)
<1>1. Passes(f, t, n)
  BY <1>0, PassesExist
<1>2. apply_auto_check_folds(t) = f[n]
  BY DEF apply_auto_check_folds, Passes
<1> HIDE DEF f, n
<1>3. \A k \in 0 .. n : f[k] = IF k = 0 THEN t ELSE AutoPlay(f[k - 1])
  <2> TAKE k \in 0 .. n
  <2>1. f[k] = IF k = 0 THEN t ELSE With(f[k - 1], AutoPlay)
    BY <1>1 DEF Passes
  <2> QED
    BY <2>1, OnePass
<1> DEFINE Bad == {k \in 0 .. n : ~ PlayedOn(t, f[k])}
<1>4. SUFFICES ASSUME Bad # {} PROVE FALSE
  <2>1. n \in 0 .. n
    BY <1>0
  <2> QED
    BY <1>2, <2>1
<1>5. Bad \subseteq 0 .. n
  OBVIOUS
<1> HIDE DEF Bad
<1>6. IsFiniteSet(Bad) /\ Bad \subseteq Int
  <2>1. IsFiniteSet(0 .. n)
    BY <1>0, FS_Interval
  <2>2. IsFiniteSet(Bad)
    BY <1>5, <2>1, FS_Subset
  <2> QED
    BY <1>5, <2>2
<1>7. PICK k \in Bad : \A j \in Bad : k <= j
  BY <1>4, <1>6, Extremes
<1>8. k \in 0 .. n /\ ~ PlayedOn(t, f[k])
  BY <1>7 DEF Bad
<1>9. k # 0
  <2>1. PlayedOn(t, t)
    BY KeptIsReflexive DEF PlayedOn
  <2>2. k = 0 => f[k] = t
    BY <1>3, <1>8
  <2> QED
    BY <1>8, <2>1, <2>2
<1>10. k - 1 \in 0 .. n /\ k - 1 \notin Bad
  BY <1>0, <1>7, <1>8, <1>9
<1> DEFINE v == f[k - 1]
<1>11. PlayedOn(t, v) /\ f[k] = AutoPlay(v)
  BY <1>3, <1>8, <1>9, <1>10 DEF Bad
<1> HIDE DEF v
<1>12. PlayedOn(v, AutoPlay(v))
  BY <1>11, AutoPlayFacts DEF PlayedOn
<1>13. PlayedOn(t, f[k])
  <2>1. t \in Tables /\ v \in Tables /\ f[k] \in Tables
    BY <1>11, <1>12 DEF PlayedOn, Well
  <2>2. Kept(t, f[k])
    BY <1>11, <1>12, <2>1, KeptIsTransitive DEF PlayedOn
  <2> QED
    BY <1>11, <1>12, <2>2 DEF PlayedOn
<1> QED
  BY <1>8, <1>13

\* Nothing the states of a hand are about changed.
SameButClock(t, u) ==
    /\ u.seat = t.seat /\ u.phase = t.phase /\ u.active = t.active
    /\ u.due = t.due /\ u.reveal = t.reveal /\ u.settling = t.settling

\* The end of a handler: after it the clock runs exactly for a seat without a debit.
LEMMA ClockedFacts ==
    ASSUME NEW t, Well(t)
    PROVE  LET u == Clocked(t)
           IN  /\ Well(u) /\ Kept(t, u)
               /\ Outcome(t) => Outcome(u)
               /\ ~PlaysItself(t) => SameButClock(t, u)
               /\ Betting(u) =>
                     u.countdown = IF u.seat[u.active].pending = None THEN u.active ELSE None
<1> DEFINE v == apply_auto_check_folds(t)
<1> DEFINE c == IF ActionPhase(v) /\ v.active # None /\ CanAct(v, v.active) THEN v.active ELSE None
<1> DEFINE u == Clocked(t)
<1>1. u = [v EXCEPT !.countdown = c]
  <2>1. With(t, apply_auto_check_folds) = v
    <3>1. With(t, apply_auto_check_folds)
            = CHOOSE r \in {apply_auto_check_folds(y) : y \in {t}} : TRUE
      BY DEF With
    <3>2. {apply_auto_check_folds(y) : y \in {t}} = {v}
      OBVIOUS
    <3> QED
      BY <3>1, <3>2, OneChoice
  <2> HIDE DEF v
  <2>2. With(v, start_action_countdown_if_needed) = start_action_countdown_if_needed(v)
    <3>1. With(v, start_action_countdown_if_needed)
            = CHOOSE r \in {start_action_countdown_if_needed(y) : y \in {v}} : TRUE
      BY DEF With
    <3>2. {start_action_countdown_if_needed(y) : y \in {v}} = {start_action_countdown_if_needed(v)}
      OBVIOUS
    <3> QED
      BY <3>1, <3>2, OneChoice
  <2>3. u = start_action_countdown_if_needed(v)
    BY <2>1, <2>2 DEF Clocked
  <2> QED
    BY <2>3 DEF start_action_countdown_if_needed
<1>2. PlayedOn(t, v)
  BY AutoFacts
<1> HIDE DEF v, u
<1>3. Well(v) /\ Kept(t, v) /\ (Outcome(t) => Outcome(v)) /\ (~PlaysItself(t) => v = t)
  BY <1>2 DEF PlayedOn
<1>4. v \in Tables /\ c \in SeatOrNone /\ t \in Tables
  BY <1>3 DEF Well, Tables, SeatOrNone
<1>5. u \in Tables
  <2> HIDE DEF c
  <2> QED
    BY <1>1, <1>4 DEF Tables
<1>6. /\ u.seat = v.seat /\ u.phase = v.phase /\ u.active = v.active /\ u.due = v.due
      /\ u.reveal = v.reveal /\ u.settling = v.settling /\ u.countdown = c
      /\ u.hand = v.hand /\ u.dealer = v.dealer /\ u.big = v.big /\ u.blinds = v.blinds
      /\ u.bet = v.bet
  <2> HIDE DEF c
  <2> QED
    BY <1>1, <1>4 DEF Tables
<1>7. Kept(v, u)
  <2>1. Kept(v, v)
    BY <1>3, KeptIsReflexive
  <2> QED
    BY <1>6, <2>1 DEF Kept
<1>8. Well(u)
  <2>1. IsFiniteSet(u.due)
    BY <1>3, <1>6 DEF Well
  <2> QED
    BY <1>3, <1>5, <1>6, <1>7, <2>1, KeptIsWell
<1>9. Kept(t, u)
  BY <1>3, <1>4, <1>5, <1>7, KeptIsTransitive
<1>10. Outcome(t) => Outcome(u)
  BY <1>3, <1>6, SameTable
<1>11. ~PlaysItself(t) => SameButClock(t, u)
  BY <1>3, <1>6 DEF SameButClock
<1>12. ASSUME Betting(u)
       PROVE  u.countdown = IF u.seat[u.active].pending = None THEN u.active ELSE None
  <2>1. u.active \in Actionable(u) /\ ActionPhase(u)
    BY <1>12 DEF Betting, Playing
  <2>2. u.active \in Seats /\ u.seat[u.active].dealt /\ ~u.seat[u.active].folded
        /\ ~u.seat[u.active].all_in
    BY <2>1, ActiveFacts DEF Actionable, Active
  <2>3. u.active # None
    BY <2>2, PokerAssumption
  <2>4. ActionPhase(v) /\ v.active # None
    BY <1>6, <2>1, <2>3 DEF ActionPhase
  <2>5. CanAct(v, v.active) <=> u.seat[u.active].pending = None
    BY <1>6, <2>2 DEF CanAct
  <2> QED
    BY <1>6, <2>4, <2>5
<1> QED
  BY <1>8, <1>9, <1>10, <1>11, <1>12 DEF u

\* A hand whose settlements are known.
Settled(t) ==
    /\ t.phase = "Showdown" /\ ~t.reveal /\ t.settling = (t.due # {})
    /\ Sum(t.due) <= Pot(t)
    /\ Cardinality(Active(t)) > 1 => AllMatched(t)

LEMMA StrengthsAreNumbers == \A st \in Strengths : st \in [Seats -> Int]
  BY NumSeatsAssumption DEF Strengths

\* The hands are compared: what is credited comes from the pot.
LEMMA ShownFacts ==
    ASSUME NEW t, Well(t), t.hand # 0, NEW st \in Strengths
    PROVE  LET u == Shown(t, st)
           IN  /\ Well(u) /\ Kept(t, u) /\ ~u.reveal /\ u.phase = "Showdown"
               /\ Vacant(t) => Vacant(u)
               /\ Over(t) /\ t.reveal => Settled(u)
<1> DEFINE credit == Credits(Committed(t), Active(t), st)
<1> DEFINE v == Finish(t, credit)
<1> DEFINE u == Shown(t, st)
<1>1. u = [v EXCEPT !.reveal = FALSE]
  BY DEF Shown
<1>2. t \in Tables /\ Committed(t) \in [Seats -> Nat] /\ Pot(t) = SumFunctionOnSet(Committed(t), Seats)
  BY PotIsSum DEF Well
<1>3. /\ credit \in [Seats -> Nat]
      /\ Active(t) # {} => SumFunctionOnSet(credit, Seats) <= Pot(t)
  <2>1. Active(t) \in SUBSET Seats /\ st \in [Seats -> Int]
    BY ActiveFacts, StrengthsAreNumbers
  <2> QED
    BY <1>2, <2>1, CreditsComeFromThePot
<1> HIDE DEF credit
<1>4. /\ Well(v) /\ Kept(t, v) /\ v.seat = t.seat /\ v.phase = "Showdown"
      /\ v.settling = (v.due # {}) /\ Sum(v.due) <= SumFunctionOnSet(credit, Seats)
  BY <1>3, FinishFacts
<1> HIDE DEF v, u
<1>5. v \in Tables /\ IsFiniteSet(v.due) /\ v.due \in SUBSET Dues
  BY <1>4 DEF Well, Tables
<1>6. u \in Tables
  BY <1>1, <1>5 DEF Tables
<1>7. /\ u.seat = t.seat /\ u.phase = "Showdown" /\ u.reveal = FALSE /\ u.due = v.due
      /\ u.settling = v.settling /\ u.hand = v.hand /\ u.dealer = v.dealer
      /\ u.big = v.big /\ u.blinds = v.blinds /\ u.bet = v.bet
  BY <1>1, <1>4, <1>5 DEF Tables
<1>8. Kept(t, u)
  BY <1>4, <1>7 DEF Kept
<1>9. Well(u)
  BY <1>5, <1>6, <1>7, <1>8, KeptIsWell
<1>10. Vacant(t) => Vacant(u)
  BY <1>7, SameSeats
<1>11. ASSUME Over(t), t.reveal PROVE Settled(u)
  <2>1. Active(t) # {} /\ AllMatched(t)
    BY <1>11 DEF Over
  <2>2. AllMatched(u)
    BY <1>7, <2>1, SameSeats
  <2>3. Pot(u) = Pot(t)
    BY <1>7, SamePot
  <2>4. Sum(v.due) \in Nat /\ SumFunctionOnSet(credit, Seats) \in Nat /\ Pot(t) \in Nat
    BY <1>2, <1>3, <1>5, SumOfDues, PotIsSum, SeatsAreFinite, SumIsNat
  <2>5. Sum(u.due) <= Pot(u)
    BY <1>3, <1>4, <1>7, <2>1, <2>3, <2>4
  <2> QED
    BY <1>4, <1>7, <2>2, <2>5 DEF Settled
<1> QED
  BY <1>7, <1>8, <1>9, <1>10, <1>11 DEF u

\* The table a handler publishes, with its settlements.
Published(t, done) ==
    /\ Well(done) /\ ~done.reveal /\ Kept(t, done)
    /\ done.due # {} => done.hand # 0
    /\ Outcome(t) => Vacant(done) /\ (Betting(done) \/ Settled(done))
    /\ ~PlaysItself(t) /\ ~t.reveal => SameButClock(t, done)
    /\ Betting(done) =>
          done.countdown = IF done.seat[done.active].pending = None THEN done.active ELSE None

\* Publish makes a table of this kind, a payout of what is due, and its books.
LEMMA PublishFacts ==
    ASSUME NEW t, Well(t), t.hand = 0 => Even(t), Publish(t)
    PROVE  \E done :
             /\ Published(t, done)
             /\ table' = [done EXCEPT !.due = {}]
             /\ payouts' = payouts \union
                  (IF done.due = {} THEN {}
                   ELSE {[hand |-> done.hand, due |-> done.due, st |-> "asked"]})
             /\ books' = Closed(done)
<1> DEFINE played == Clocked(t)
<1>1. /\ Well(played) /\ Kept(t, played)
      /\ Outcome(t) => Outcome(played)
      /\ ~PlaysItself(t) => SameButClock(t, played)
      /\ Betting(played) =>
            played.countdown = IF played.seat[played.active].pending = None
                               THEN played.active ELSE None
  BY ClockedFacts
<1>2. PICK done \in IF played.reveal THEN {Shown(played, st) : st \in Strengths} ELSE {played} :
        /\ table' = [done EXCEPT !.due = {}]
        /\ payouts' = payouts \union
             (IF done.due = {} THEN {}
              ELSE {[hand |-> done.hand, due |-> done.due, st |-> "asked"]})
        /\ books' = Closed(done)
  BY DEF Publish
<1> HIDE DEF played
<1>3. played.hand = t.hand
  BY <1>1 DEF Kept
<1>4. t.hand = 0 => ~PlaysItself(t)
  BY PhaseFacts DEF Well, PlaysItself, ActionPhase
<1>5. Published(t, done)
  <2>1. CASE ~played.reveal
    <3>1. done = played
      BY <1>2, <2>1
    <3>2. done.due # {} => done.hand # 0
      BY <1>1, <1>3, <1>4, <3>1 DEF SameButClock, Even
    <3>3. Over(played) => Settled(played)
      <4>1. Cardinality(Active(played)) = 1 => ~ (Cardinality(Active(played)) > 1)
        OBVIOUS
      <4> QED
        BY <2>1, <4>1 DEF Over, Settled
    <3> QED
      BY <1>1, <2>1, <3>1, <3>2, <3>3 DEF Published, Outcome
  <2>2. CASE played.reveal
    <3>1. PICK st \in Strengths : done = Shown(played, st)
      BY <1>2, <2>2
    <3>2. played.hand # 0
      BY <1>1, <1>3, <1>4, <2>2 DEF SameButClock, Even
    <3>3. /\ Well(done) /\ Kept(played, done) /\ ~done.reveal /\ done.phase = "Showdown"
          /\ Vacant(played) => Vacant(done)
          /\ Over(played) /\ played.reveal => Settled(done)
      BY <1>1, <3>1, <3>2, ShownFacts
    <3>4. Kept(t, done) /\ done.hand # 0
      <4>1. t \in Tables /\ played \in Tables /\ done \in Tables
        BY <1>1, <3>3 DEF Well
      <4>2. Kept(t, done)
        BY <1>1, <3>3, <4>1, KeptIsTransitive
      <4> QED
        BY <1>3, <3>2, <4>2 DEF Kept
    <3>5. ~Betting(played) /\ ~Betting(done)
      <4>1. ~Betting(done)
        BY <3>3, PhaseFacts DEF Betting, Playing, ActionPhase
      <4> QED
        BY <2>2, <4>1 DEF Betting, Playing, Even
    <3>6. PlaysItself(t) \/ t.reveal
      BY <1>1, <2>2 DEF SameButClock
    <3> QED
      BY <1>1, <2>2, <3>3, <3>4, <3>5, <3>6 DEF Published, Outcome
  <2> QED
    BY <2>1, <2>2
<1> QED
  BY <1>2, <1>5

LEMMA NoneDebited == \A h : Debited({}, h) = 0 /\ Asked({}, h) = 0
<1> TAKE h
<1>1. Debited({}, h) = SumFunctionOnSet([c \in {} |-> DebitedBy(c, h)], {})
  BY DEF Debited, SumFunction
<1>2. Asked({}, h) = SumFunctionOnSet([p \in {} |-> AskedBy(p, h)], {})
  BY DEF Asked, SumFunction
<1> QED
  BY <1>1, <1>2, SumOfNone

\* What a set of debits took is a number of chips.
LEMMA DebitedIsNat ==
    ASSUME NEW set \in SUBSET Commits, IsFiniteSet(set), NEW h
    PROVE  Debited(set, h) \in Nat /\ \A c \in set : DebitedBy(c, h) \in Nat
<1> DEFINE f == [c \in set |-> DebitedBy(c, h)]
<1>1. \A c \in set : f[c] \in Nat /\ DebitedBy(c, h) \in Nat
  BY DEF DebitedBy, Commits
<1>2. Debited(set, h) = SumFunctionOnSet(f, set)
  BY DEF Debited, SumFunction
<1> HIDE DEF f
<1> QED
  BY <1>1, <1>2, SumIsNat

\* One debit more, or less.
LEMMA DebitedAdd ==
    ASSUME NEW set \in SUBSET Commits, IsFiniteSet(set), NEW c \in Commits, c \notin set, NEW h
    PROVE  Debited(set \cup {c}, h) = Debited(set, h) + DebitedBy(c, h)
<1> DEFINE f == [d \in set |-> DebitedBy(d, h)]
<1> DEFINE g == [d \in set \cup {c} |-> DebitedBy(d, h)]
<1>1. \A d \in set \cup {c} : DebitedBy(d, h) \in Int
  BY DEF DebitedBy, Commits
<1>2. Debited(set, h) = SumFunctionOnSet(f, set) /\ Debited(set \cup {c}, h) = SumFunctionOnSet(g, set \cup {c})
  BY DEF Debited, SumFunction
<1>3. /\ \A d \in set \cup {c} : g[d] \in Int
      /\ \A d \in set : f[d] \in Int
      /\ \A d \in set : f[d] = g[d]
      /\ g[c] = DebitedBy(c, h)
  BY <1>1
<1> HIDE DEF f, g
<1>4. SumFunctionOnSet(g, set \cup {c}) = g[c] + SumFunctionOnSet(g, set)
  BY <1>3, SumAdd
<1>5. SumFunctionOnSet(f, set) = SumFunctionOnSet(g, set)
  BY <1>3, SumSame
<1>6. SumFunctionOnSet(f, set) \in Int
  BY <1>3, SumType
<1>7. g[c] \in Int
  BY <1>3
<1> QED
  BY <1>2, <1>3, <1>4, <1>5, <1>6, <1>7

LEMMA DebitedRemove ==
    ASSUME NEW set \in SUBSET Commits, IsFiniteSet(set), NEW c \in set, NEW h
    PROVE  Debited(set, h) = Debited(set \ {c}, h) + DebitedBy(c, h)
<1> DEFINE rest == set \ {c}
<1>1. rest \in SUBSET Commits /\ c \in Commits /\ c \notin rest /\ rest \cup {c} = set
  OBVIOUS
<1>2. IsFiniteSet(rest)
  BY FS_RemoveElement
<1> HIDE DEF rest
<1>3. Debited(rest \cup {c}, h) = Debited(rest, h) + DebitedBy(c, h)
  BY <1>1, <1>2, DebitedAdd
<1> QED
  BY <1>1, <1>3 DEF rest

LEMMA AskedOfOne ==
    ASSUME NEW p \in Payouts, IsFiniteSet(p.due), NEW h
    PROVE  Asked({p}, h) = AskedBy(p, h)
<1> DEFINE f == [q \in {p} |-> AskedBy(q, h)]
<1>1. Asked({p}, h) = SumFunctionOnSet(f, {p})
  BY DEF Asked, SumFunction
<1>2. f[p] = AskedBy(p, h) /\ f[p] \in Int
  <2>1. p.due \in SUBSET Dues
    BY DEF Payouts
  <2>2. Sum(p.due) \in Nat
    BY <2>1, SumOfDues
  <2> QED
    BY <2>2 DEF AskedBy
<1>3. IsFiniteSet({p}) /\ p \in {p} /\ \A x \in {p} : x # p => f[x] = 0
  BY FS_Singleton
<1> HIDE DEF f
<1>4. SumFunctionOnSet(f, {p}) = f[p]
  BY <1>2, <1>3, SumOfOnly
<1> QED
  BY <1>1, <1>2, <1>4

-----------------------------------------------------------------------------
(* The end of a handler.                                                   *)

\* What publishing does to the books and the payouts, and what it leaves alone.
LEMMA PublishedBooks ==
    ASSUME Typed, NEW done, Well(done), ~done.reveal, done.hand = table.hand,
           done.due # {} => done.hand # 0,
           table' = [done EXCEPT !.due = {}],
           payouts' = payouts \union
              (IF done.due = {} THEN {}
               ELSE {[hand |-> done.hand, due |-> done.due, st |-> "asked"]}),
           books' = Closed(done)
    PROVE  /\ Well(table') /\ Even(table') /\ table'.hand = table.hand
           /\ table'.seat = done.seat /\ table'.phase = done.phase
           /\ table'.active = done.active /\ table'.settling = done.settling
           /\ table'.countdown = done.countdown /\ table'.blinds = done.blinds
           /\ payouts' \subseteq Payouts /\ IsFiniteSet(payouts')
           /\ \A p \in payouts' : IsFiniteSet(p.due) /\ (p \in payouts \/ p.hand = table.hand)
           /\ books' \in [Hands -> Books]
           /\ \A h \in Hands : h # table.hand => books'[h] = books[h]
           /\ \A h \in Hands : books[h].cut => books'[h].cut
           /\ (done.phase = "Showdown" /\ (table.phase # "Showdown" \/ done.due # {})) =>
                 /\ table.hand \in Hands
                 /\ books'[table.hand].pot = Pot(done)
                 /\ books'[table.hand].settled = books[table.hand].settled + Sum(done.due)
                 /\ books'[table.hand].cut = (books[table.hand].cut
                       \/ \E i \in Seats : done.seat[i].pending # None)
                 /\ books'[table.hand].taken = books[table.hand].taken
                 /\ books'[table.hand].strayed = books[table.hand].strayed
                 /\ books'[table.hand].paid = books[table.hand].paid
                 /\ books'[table.hand].unpaid = books[table.hand].unpaid
           /\ ~(done.phase = "Showdown" /\ (table.phase # "Showdown" \/ done.due # {})) =>
                 books' = books
<1> DEFINE h0 == table.hand
<1> DEFINE Ends == done.phase = "Showdown" /\ (table.phase # "Showdown" \/ done.due # {})
<1>1. done \in Tables /\ IsFiniteSet(done.due) /\ done.due \in SUBSET Dues
  BY DEF Well, Tables
<1>2. table' \in Tables
  BY <1>1 DEF Tables
<1>3. /\ table'.seat = done.seat /\ table'.phase = done.phase
      /\ table'.active = done.active /\ table'.settling = done.settling
      /\ table'.countdown = done.countdown /\ table'.blinds = done.blinds
      /\ table'.due = {} /\ table'.reveal = done.reveal /\ table'.hand = done.hand
      /\ table'.dealer = done.dealer /\ table'.big = done.big /\ table'.bet = done.bet
  BY <1>1 DEF Tables
<1>4. Well(table')
  <2>1. IsFiniteSet({})
    BY FS_EmptySet
  <2>2. Kept(done, table')
    <3>1. Kept(done, done)
      BY KeptIsReflexive
    <3> QED
      BY <1>3, <3>1 DEF Kept
  <2> QED
    BY <1>2, <1>3, <2>1, <2>2, KeptIsWell
<1>5. Even(table')
  BY <1>3 DEF Even
<1>6. h0 \in 0 .. MaxHands /\ (h0 # 0 => h0 \in Hands)
  BY <1>1, PokerAssumption DEF Tables, Hands
<1>7. /\ payouts' \subseteq Payouts /\ IsFiniteSet(payouts')
      /\ \A p \in payouts' : IsFiniteSet(p.due) /\ (p \in payouts \/ p.hand = h0)
  <2>0. payouts \subseteq Payouts /\ IsFiniteSet(payouts) /\ \A p \in payouts : IsFiniteSet(p.due)
    BY DEF Typed
  <2>1. CASE done.due = {}
    BY <2>0, <2>1
  <2>2. CASE done.due # {}
    <3> DEFINE p == [hand |-> done.hand, due |-> done.due, st |-> "asked"]
    <3>1. p \in Payouts /\ p.due = done.due /\ p.hand = h0
      BY <1>1, <1>6, <2>2 DEF Payouts
    <3>2. payouts' = payouts \cup {p}
      BY <2>2
    <3> HIDE DEF p
    <3>3. IsFiniteSet(payouts \cup {p})
      BY <2>0, FS_AddElement
    <3> QED
      BY <1>1, <2>0, <3>1, <3>2, <3>3
  <2> QED
    BY <2>1, <2>2
<1>8. books \in [Hands -> Books]
  BY DEF Typed
<1>9. CASE Ends
  <2>1. h0 # 0
    BY <1>9 DEF Well
  <2>2. h0 \in Hands
    BY <1>6, <2>1
  <2> DEFINE b == books[h0]
  <2> DEFINE n == [b EXCEPT !.pot = Pot(done), !.settled = b.settled + Sum(done.due),
                            !.cut = b.cut \/ \E i \in Seats : done.seat[i].pending # None]
  <2>3. books' = [books EXCEPT ![h0] = n]
    BY <1>9 DEF Closed
  <2>4. Pot(done) \in Nat /\ Sum(done.due) \in Nat
    BY <1>1, PotIsSum, SumOfDues
  <2>5. b \in Books
    BY <1>8, <2>2
  <2>6. /\ n \in Books /\ n.pot = Pot(done) /\ n.settled = b.settled + Sum(done.due)
        /\ n.cut = (b.cut \/ \E i \in Seats : done.seat[i].pending # None)
        /\ n.taken = b.taken /\ n.strayed = b.strayed /\ n.paid = b.paid /\ n.unpaid = b.unpaid
    <3> DEFINE x == Pot(done)
    <3> DEFINE y == b.settled + Sum(done.due)
    <3> DEFINE k == b.cut \/ \E i \in Seats : done.seat[i].pending # None
    <3>1. x \in Nat /\ y \in Nat /\ k \in BOOLEAN
      BY <2>4, <2>5 DEF Books
    <3>2. n = [b EXCEPT !.pot = x, !.settled = y, !.cut = k]
      OBVIOUS
    <3> HIDE DEF x, y, k, n, b
    <3>3. /\ n \in Books /\ n.pot = x /\ n.settled = y /\ n.cut = k
          /\ n.taken = b.taken /\ n.strayed = b.strayed /\ n.paid = b.paid /\ n.unpaid = b.unpaid
      BY <2>5, <3>1, <3>2 DEF Books
    <3> QED
      BY <3>3 DEF x, y, k
  <2> HIDE DEF n
  <2>7. /\ books' \in [Hands -> Books] /\ books'[h0] = n
        /\ \A h \in Hands : h # h0 => books'[h] = books[h]
    BY <1>8, <2>2, <2>3, <2>6
  <2>8. \A h \in Hands : books[h].cut => books'[h].cut
    BY <2>6, <2>7
  <2> QED
    BY <1>3, <1>4, <1>5, <1>7, <1>9, <2>2, <2>6, <2>7, <2>8
<1>10. CASE ~Ends
  <2>1. books' = books
    BY <1>10 DEF Closed
  <2> QED
    BY <1>3, <1>4, <1>5, <1>7, <1>8, <1>10, <2>1
<1> QED
  BY <1>9, <1>10

\* What a handler owes to the rest of the step, with the debits cs then under way: the
\* debits are those the table waits for, and the chips of the hand are on the table.
Handled(t, cs) ==
    /\ Vacant(t)
    /\ \A i \in Seats : t.seat[i].pending # None => \E c \in cs : c.seat = i
    /\ \A c \in cs : Awaited(t, c) /\ c.amount = t.seat[c.seat].pending.amount
    /\ IF InHand(table)
       THEN /\ \/ Outcome(t)
               \/ Stillborn(t)
               \/ Posting(t) /\ t.blinds > 0 /\ t.blinds = Cardinality(cs)
            /\ books[table.hand].taken
                 = books[table.hand].strayed + Debited(cs, table.hand) + Pot(t)
       ELSE Idle(t) /\ t.phase = table.phase /\ t.settling = table.settling

\* A hand that is whole after a step was whole before it.
LEMMA WholeBefore ==
    ASSUME Typed, \A h \in Hands : books[h].cut => books'[h].cut, NEW n \in 0 .. MaxHands, Whole(n)'
    PROVE  Whole(n)
<1>1. \A g \in 1 .. n : g \in Hands
  BY PokerAssumption DEF Hands
<1> QED
  BY <1>1 DEF Whole

\* The past does not change with the books of the hand that is played.
LEMMA PastKept ==
    ASSUME Typed, Past, table.hand' = table.hand, commits' \subseteq commits,
           \A p \in payouts' : p \in payouts \/ p.hand = table.hand,
           \A h \in Hands : h # table.hand => books'[h] = books[h],
           \A h \in Hands : books[h].cut => books'[h].cut
    PROVE  Past'
<1> SUFFICES ASSUME NEW h \in Hands, h < table.hand, Whole(h)'
             PROVE  /\ \A c \in commits' : c.hand # h
                    /\ \A p \in payouts' : p.hand # h
                    /\ books'[h].taken = books'[h].strayed + books'[h].pot
                    /\ books'[h].settled = books'[h].paid + books'[h].unpaid
                    /\ books'[h].settled <= books'[h].pot
  BY DEF Past
<1>1. h \in 0 .. MaxHands /\ h # table.hand
  BY PokerAssumption DEF Hands, Typed, Well, Tables
<1>2. Whole(h)
  BY <1>1, WholeBefore
<1> QED
  BY <1>1, <1>2 DEF Past

\* The one argument for the handlers that end with Publish: what they owe is Handled.
LEMMA PublishKeeps ==
    ASSUME PokerInv, NEW t, Well(t), t.hand = table.hand, t.hand = 0 => Even(t), Publish(t),
           commits' \subseteq commits, oddities' \in Nat,
           Whole(table.hand) => Handled(t, commits')
    PROVE  /\ PokerInv'
           /\ (Whole(table.hand) /\ ActionPhase(table) /\ table'.phase = "Showdown"
                 /\ Cardinality(Active(table')) > 1) => AllMatched(table')
<1> DEFINE h0 == table.hand
<1>0. Typed /\ Past /\ (Whole(h0) => Tracked /\ Turned /\ Settling /\ Present)
  BY DEF PokerInv
<1>1. PICK done :
        /\ Published(t, done)
        /\ table' = [done EXCEPT !.due = {}]
        /\ payouts' = payouts \union
             (IF done.due = {} THEN {}
              ELSE {[hand |-> done.hand, due |-> done.due, st |-> "asked"]})
        /\ books' = Closed(done)
  BY PublishFacts
<1>2. /\ Well(done) /\ ~done.reveal /\ Kept(t, done)
      /\ done.due # {} => done.hand # 0
      /\ Outcome(t) => Vacant(done) /\ (Betting(done) \/ Settled(done))
      /\ ~PlaysItself(t) /\ ~t.reveal => SameButClock(t, done)
      /\ Betting(done) =>
            done.countdown = IF done.seat[done.active].pending = None THEN done.active ELSE None
  BY <1>1 DEF Published
<1>3. done.hand = h0 /\ done.blinds = t.blinds
  BY <1>2 DEF Kept
<1> DEFINE Ends == done.phase = "Showdown" /\ (table.phase # "Showdown" \/ done.due # {})
<1>4. /\ Well(table') /\ Even(table') /\ table'.hand = h0
      /\ table'.seat = done.seat /\ table'.phase = done.phase
      /\ table'.active = done.active /\ table'.settling = done.settling
      /\ table'.countdown = done.countdown /\ table'.blinds = done.blinds
      /\ payouts' \subseteq Payouts /\ IsFiniteSet(payouts')
      /\ \A p \in payouts' : IsFiniteSet(p.due) /\ (p \in payouts \/ p.hand = h0)
      /\ books' \in [Hands -> Books]
      /\ \A h \in Hands : h # h0 => books'[h] = books[h]
      /\ \A h \in Hands : books[h].cut => books'[h].cut
      /\ Ends =>
            /\ h0 \in Hands
            /\ books'[h0].pot = Pot(done)
            /\ books'[h0].settled = books[h0].settled + Sum(done.due)
            /\ books'[h0].cut = (books[h0].cut \/ \E i \in Seats : done.seat[i].pending # None)
            /\ books'[h0].taken = books[h0].taken
            /\ books'[h0].strayed = books[h0].strayed
            /\ books'[h0].paid = books[h0].paid
            /\ books'[h0].unpaid = books[h0].unpaid
      /\ ~Ends => books' = books
  BY <1>0, <1>1, <1>2, <1>3, PublishedBooks
<1>5. h0 \in 0 .. MaxHands /\ h0 \in Int
  BY <1>0, PokerAssumption DEF Typed, Well, Tables
<1>6. /\ commits \subseteq Commits /\ IsFiniteSet(commits) /\ commits' \subseteq Commits
      /\ IsFiniteSet(commits')
  BY <1>0, FS_Subset DEF Typed
<1>7. Typed'
  <2>1. /\ \A c \in commits' : c.hand <= table'.hand
        /\ \A p \in payouts' : p.hand <= table'.hand
    BY <1>0, <1>4, <1>5 DEF Typed
  <2>2. \A h \in Hands : h > table'.hand => books'[h] = Blank
    BY <1>0, <1>4, <1>5 DEF Typed, Hands
  <2> QED
    BY <1>4, <1>6, <2>1, <2>2 DEF Typed
<1>8. Past'
  BY <1>0, <1>4, PastKept
<1>9. Pot(table') = Pot(done) /\ Pot(done) = Pot(t) /\ Pot(t) \in Nat
  <2>1. Pot(done) = Pot(t)
    BY <1>2, SamePot DEF Kept
  <2> QED
    BY <1>4, <2>1, SamePot, PotIsSum DEF Well
<1>10. ASSUME Whole(h0)
       PROVE  /\ Handled(t, commits')
              /\ \A c \in commits' : c.hand = h0 /\ Awaited(table', c)
                                     /\ c.amount = table'.seat[c.seat].pending.amount
              /\ \A i \in Seats : table'.seat[i].pending # None => \E c \in commits' : c.seat = i
              /\ \A c, d \in commits' : c.seat = d.seat => c = d
              /\ Quiet(done) => commits' = {}
              /\ \A i \in Seats : done.seat[i].pending = t.seat[i].pending
  <2>1. Handled(t, commits') /\ Tracked
    BY <1>0, <1>10
  <2>2. \A i \in Seats : table'.seat[i].pending = t.seat[i].pending
                         /\ done.seat[i].pending = t.seat[i].pending
    BY <1>2, <1>4 DEF Kept
  <2>3. \A c \in commits' : c.seat \in Seats
    BY <1>6 DEF Commits
  <2>4. \A c \in commits' : Awaited(table', c) /\ c.amount = table'.seat[c.seat].pending.amount
    BY <2>1, <2>2, <2>3 DEF Handled, Awaited
  <2>5. Quiet(done) => commits' = {}
    BY <1>4, <2>3, <2>4 DEF Quiet, Awaited
  <2> QED
    BY <2>1, <2>2, <2>4, <2>5 DEF Handled, Tracked
<1>11. ASSUME Whole(h0), ~InHand(table)
       PROVE  /\ Tracked' /\ Turned' /\ Settling' /\ Present' /\ ~ActionPhase(table)
  <2>1. Vacant(t) /\ Idle(t) /\ t.phase = table.phase /\ t.settling = table.settling
    BY <1>10, <1>11 DEF Handled
  <2>2. ~PlaysItself(t) /\ ~t.reveal /\ t.due = {}
    BY <2>1, PhaseFacts DEF Idle, Even, PlaysItself, ActionPhase
  <2>3. SameButClock(t, done)
    BY <1>2, <2>2
  <2>4. done.due = {} /\ done.phase = table.phase /\ done.settling = table.settling /\ ~Ends
    BY <2>1, <2>2, <2>3 DEF SameButClock
  <2>5. books' = books /\ payouts' = payouts
    BY <1>1, <1>4, <2>4
  <2>6. table'.phase = table.phase /\ table'.settling = table.settling /\ table'.hand = table.hand
    BY <1>4, <2>4
  <2>7. Idle(table') /\ Vacant(table') /\ Quiet(done)
    <3>1. Quiet(done) /\ Vacant(done)
      BY <2>1, <2>3, SameSeats DEF Idle, SameButClock
    <3> QED
      BY <1>4, <2>1, <2>6, <3>1, SameSeats DEF Idle
  <2>8. ~InHand(table') /\ ~ActionPhase(table') /\ table'.phase # "PostingBlinds" /\ ~ActionPhase(table)
    BY <1>11, <2>6 DEF InHand, ActionPhase
  <2>9. commits' = {} /\ commits = {}
    <3>1. Tracked /\ Turned
      BY <1>0, <1>11
    <3>2. Idle(table)
      BY <1>11, <3>1 DEF Turned, Betting, Playing, Posting, InHand
    <3>3. \A c \in commits : c.seat \in Seats
      BY <1>6 DEF Commits
    <3>4. commits = {}
      BY <3>1, <3>2, <3>3 DEF Tracked, Idle, Quiet, Awaited
    <3> QED
      BY <3>4
  <2>10. Tracked'
    BY <1>10, <1>11, <2>8, <2>9, <1>4 DEF Tracked
  <2>11. Turned'
    BY <2>7, <2>8 DEF Turned
  <2>12. Settling'
    <3>1. Settling
      BY <1>0, <1>11
    <3> QED
      BY <2>5, <2>6, <2>8, <3>1 DEF Settling
  <2>13. Present'
    <3>1. Present
      BY <1>0, <1>11
    <3>2. commits' = commits
      BY <2>9
    <3> QED
      BY <1>11, <2>5, <2>6, <2>8, <3>1, <3>2 DEF Present
  <2> QED
    BY <2>8, <2>10, <2>11, <2>12, <2>13
<1>12. ASSUME Whole(h0), InHand(table)
       PROVE  /\ h0 \in Hands /\ h0 # 0 /\ payouts = {}
              /\ books[h0] \in Books
              /\ books[h0].pot = 0 /\ books[h0].settled = 0 /\ books[h0].paid = 0 /\ books[h0].unpaid = 0
              /\ books[h0].taken = books[h0].strayed + Debited(commits', h0) + Pot(t)
              /\ table.phase # "Showdown" /\ table.phase # "Waiting"
  <2>1. Settling /\ Handled(t, commits')
    BY <1>0, <1>10, <1>12
  <2>2. table.phase # "Showdown" /\ table.phase # "Waiting"
    BY <1>12, PhaseFacts DEF InHand, ActionPhase
  <2>3. h0 # 0
    BY <1>0, <2>2 DEF Typed, Well
  <2>4. h0 \in Hands
    BY <1>5, <2>3 DEF Hands
  <2>5. payouts = {}
    BY <2>1, <2>2 DEF Settling
  <2>6. books[h0] \in Books
    BY <1>0, <2>4 DEF Typed
  <2> QED
    BY <1>12, <2>1, <2>2, <2>3, <2>4, <2>5, <2>6 DEF Settling, Handled
\* The hand goes on, or comes to nothing: no books are closed.
<1>13. ASSUME Whole(h0), InHand(table), ~Ends, done.due = {}, Vacant(done),
              \/ Betting(done)
              \/ Posting(done) /\ done.blinds > 0 /\ done.blinds = Cardinality(commits')
              \/ Idle(done) /\ Pot(t) = 0
       PROVE  Tracked' /\ Turned' /\ Settling' /\ Present'
  <2>1. books' = books /\ payouts' = {} /\ table'.due = {}
    BY <1>1, <1>4, <1>12, <1>13 DEF Even
  <2>2. /\ table'.due = done.due /\ table'.reveal = done.reveal
    BY <1>1, <1>2, <1>13, <2>1 DEF Well, Tables
  <2>3. /\ Betting(done) => Betting(table')
        /\ Posting(done) => Posting(table')
        /\ Idle(done) => Idle(table')
    BY <1>4, <2>2, SameTable
  <2>4. Vacant(table')
    BY <1>4, <1>13, SameSeats
  <2>5. table'.phase = "PostingBlinds" =>
           table'.blinds > 0 /\ table'.blinds = Cardinality(commits')
    BY <1>4, <1>13, PhaseFacts DEF Betting, Playing, ActionPhase, Idle
  <2>6. Tracked'
    BY <1>4, <1>10, <1>13, <2>5 DEF Tracked
  <2>7. Turned'
    <3>1. ActionPhase(table') => Betting(done)
      BY <1>4, <1>13, PhaseFacts DEF Posting, Idle, ActionPhase
    <3>2. ActionPhase(table') =>
            table'.countdown = IF table'.seat[table'.active].pending = None
                               THEN table'.active ELSE None
      BY <1>2, <1>4, <3>1
    <3> QED
      BY <1>13, <2>3, <2>4, <3>2 DEF Turned
  <2>8. Settling'
    BY <1>4, <1>12, <1>13, <2>1 DEF Settling
  <2>9. Present'
    <3>1. InHand(table') \/ Pot(t) = 0
      BY <1>4, <1>13, PhaseFacts DEF InHand, Betting, Playing, ActionPhase, Posting
    <3>2. Asked(payouts', h0) = 0
      BY <2>1, NoneDebited
    <3>3. books'[h0].taken = books'[h0].strayed + Debited(commits', h0)
            + IF InHand(table') THEN Pot(table') ELSE books'[h0].pot
      BY <1>9, <1>12, <1>13, <2>1, <3>1
    <3>4. books'[h0].settled <= books'[h0].pot /\ books'[h0].settled = 0
          /\ books'[h0].paid = 0 /\ books'[h0].unpaid = 0
      BY <1>12, <1>13, <2>1
    <3>5. books'[h0].settled = books'[h0].paid + books'[h0].unpaid + Asked(payouts', h0)
      BY <3>2, <3>4
    <3> QED
      BY <1>4, <3>3, <3>4, <3>5 DEF Present
  <2> QED
    BY <2>6, <2>7, <2>8, <2>9
\* The hand is over.
<1>14. ASSUME Whole(h0), InHand(table), Vacant(done), Settled(done), ~books'[h0].cut
       PROVE  Tracked' /\ Turned' /\ Settling' /\ Present'
  <2>1. Ends /\ done.phase = "Showdown" /\ done.settling = (done.due # {}) /\ Sum(done.due) <= Pot(done)
    BY <1>12, <1>14 DEF Settled
  <2>2. Quiet(done)
    BY <1>4, <1>14, <2>1 DEF Quiet
  <2>3. commits' = {} /\ Quiet(table') /\ Vacant(table')
    BY <1>4, <1>10, <1>14, <2>2, SameSeats
  <2>4. Idle(table') /\ ~InHand(table') /\ ~ActionPhase(table') /\ table'.phase = "Showdown"
        /\ table'.settling = (done.due # {})
    BY <1>4, <2>1, <2>3, PhaseFacts DEF Idle, InHand, ActionPhase
  <2>5. Tracked'
    BY <1>4, <1>10, <1>14, <2>3, <2>4 DEF Tracked
  <2>6. Turned'
    BY <2>3, <2>4 DEF Turned
  <2> DEFINE p == [hand |-> h0, due |-> done.due, st |-> "asked"]
  <2>7. payouts' = IF done.due = {} THEN {} ELSE {p}
    BY <1>1, <1>3, <1>12, <1>14
  <2>8. Settling'
    <3>1. p.hand = h0 /\ (payouts' = {} \/ (payouts' = {p} /\ done.due # {}))
      BY <2>7
    <3> HIDE DEF p
    <3>2. \A q \in payouts' : q = p /\ q.hand = h0 /\ done.due # {}
      BY <3>1
    <3>3. \A q \in payouts' : q.hand = table'.hand /\ table'.settling /\ table'.phase = "Showdown"
      BY <1>4, <2>4, <3>2
    <3>4. \A q, r \in payouts' : q = r
      BY <3>2
    <3> QED
      BY <2>4, <3>3, <3>4 DEF Settling
  <2>9. done.due \in SUBSET Dues /\ IsFiniteSet(done.due)
    BY <1>2 DEF Well, Tables
  <2>10. Asked(payouts', h0) = Sum(done.due) /\ Sum(done.due) \in Nat
    <3>1. CASE done.due = {}
      BY <2>7, <3>1, NoneDebited, SumOfNoDues
    <3>2. CASE done.due # {}
      <4>1. p \in Payouts /\ p.due = done.due /\ p.hand = h0 /\ p.st = "asked"
        BY <1>12, <1>14, <2>9 DEF Payouts
      <4>2. payouts' = {p}
        BY <2>7, <3>2
      <4> HIDE DEF p
      <4>3. Asked({p}, h0) = AskedBy(p, h0)
        BY <2>9, <4>1, AskedOfOne
      <4>4. AskedBy(p, h0) = Sum(done.due)
        BY <4>1 DEF AskedBy
      <4> QED
        BY <2>9, <4>2, <4>3, <4>4, SumOfDues
    <3> QED
      BY <3>1, <3>2
  <2>11. Present'
    <3>1. /\ books[h0].settled = 0 /\ books[h0].paid = 0 /\ books[h0].unpaid = 0
          /\ books[h0].taken = books[h0].strayed + Debited(commits', h0) + Pot(t)
      BY <1>12, <1>14
    <3>2. /\ books'[h0].pot = Pot(t) /\ books'[h0].settled = Sum(done.due)
          /\ books'[h0].taken = books[h0].taken /\ books'[h0].strayed = books[h0].strayed
          /\ books'[h0].paid = 0 /\ books'[h0].unpaid = 0
      BY <1>4, <1>9, <2>1, <2>10, <3>1
    <3>3. books'[h0].taken = books'[h0].strayed + Debited(commits', h0) + books'[h0].pot
      BY <3>1, <3>2
    <3>4. books'[h0].settled <= books'[h0].pot
      BY <1>9, <2>1, <3>2
    <3>5. books'[h0].settled = books'[h0].paid + books'[h0].unpaid + Asked(payouts', h0)
      BY <2>10, <3>2
    <3> QED
      BY <1>4, <2>4, <3>3, <3>4, <3>5 DEF Present
  <2> QED
    BY <2>5, <2>6, <2>8, <2>11
<1>15. ASSUME Whole(h0), InHand(table)
       PROVE  /\ ~books'[h0].cut => Tracked' /\ Turned' /\ Settling' /\ Present'
              /\ table'.phase = "Showdown" /\ Cardinality(Active(table')) > 1 => AllMatched(table')
  <2>1. Vacant(t)
    BY <1>10, <1>15 DEF Handled
  <2>2. CASE Outcome(t)
    <3>1. Vacant(done) /\ (Betting(done) \/ Settled(done))
      BY <1>2, <2>2
    <3>2. CASE Betting(done)
      <4>1. ~Ends /\ done.due = {} /\ done.phase # "Showdown"
        BY <3>2, PhaseFacts DEF Betting, Playing, ActionPhase, Even
      <4> QED
        BY <1>4, <1>13, <1>15, <3>1, <3>2, <4>1
    <3>3. CASE Settled(done)
      <4>1. Active(table') = Active(done) /\ (AllMatched(done) => AllMatched(table'))
        BY <1>4, SameSeats
      <4>2. Cardinality(Active(table')) > 1 => AllMatched(table')
        BY <3>3, <4>1 DEF Settled
      <4> QED
        BY <1>14, <1>15, <3>1, <3>3, <4>2
    <3> QED
      BY <3>1, <3>2, <3>3
  <2>3. CASE Stillborn(t)
    <3>1. ~PlaysItself(t) /\ ~t.reveal /\ t.due = {} /\ t.phase = "Waiting" /\ Idle(t) /\ Pot(t) = 0
      BY <2>3, PhaseFacts DEF Stillborn, Idle, Even, PlaysItself, ActionPhase
    <3>2. SameButClock(t, done)
      BY <1>2, <3>1
    <3>3. Idle(done) /\ Vacant(done) /\ done.due = {} /\ done.phase = "Waiting"
      BY <2>1, <3>1, <3>2, SameTable, SameSeats DEF SameButClock
    <3> QED
      BY <1>4, <1>13, <1>15, <3>1, <3>3
  <2>4. CASE Posting(t) /\ t.blinds > 0 /\ t.blinds = Cardinality(commits')
    <3>1. ~PlaysItself(t) /\ ~t.reveal /\ t.due = {} /\ t.phase = "PostingBlinds"
      BY <2>4, PhaseFacts DEF Posting, Even, PlaysItself, ActionPhase
    <3>2. SameButClock(t, done)
      BY <1>2, <3>1
    <3>3. Posting(done) /\ Vacant(done) /\ done.due = {} /\ done.phase = "PostingBlinds"
      BY <2>1, <2>4, <3>1, <3>2, SameTable, SameSeats DEF SameButClock
    <3> QED
      BY <1>3, <1>4, <1>13, <1>15, <2>4, <3>1, <3>3
  <2> QED
    BY <1>10, <1>15, <2>2, <2>3, <2>4 DEF Handled
<1>16. ASSUME Whole(h0)' PROVE Tracked' /\ Turned' /\ Settling' /\ Present'
  <2>1. Whole(h0)
    BY <1>0, <1>4, <1>5, <1>16, WholeBefore
  <2>2. CASE InHand(table)
    <3>1. h0 \in 1 .. h0
      BY <1>5, <1>12, <2>1, <2>2
    <3>2. table'.hand = h0
      BY <1>4
    <3>3. \A g \in 1 .. table'.hand : ~books'[g].cut
      BY <1>16 DEF Whole
    <3>4. ~books'[h0].cut
      BY <3>1, <3>2, <3>3
    <3> QED
      BY <1>15, <2>1, <2>2, <3>4
  <2> QED
    BY <1>11, <2>1, <2>2
<1>17. (Whole(table.hand))' = Whole(h0)'
  BY <1>4 DEF Whole
<1>18. PokerInv'
  BY <1>7, <1>8, <1>16, <1>17 DEF PokerInv
<1>19. ActionPhase(table) => InHand(table)
  BY DEF InHand
<1> QED
  BY <1>15, <1>18, <1>19

-----------------------------------------------------------------------------
(* One lemma for each action: turns that cost no chips.                    *)

\* The hands compared at the end of this step matched their bets.
LevelShown ==
    (Whole(table.hand) /\ ActionPhase(table) /\ table'.phase = "Showdown"
       /\ Cardinality(Active(table')) > 1) => AllMatched(table')

\* What is known of the table between two steps.
LEMMA Between ==
    ASSUME PokerInv
    PROVE  /\ Well(table) /\ Even(table) /\ table \in Tables
           /\ table.hand \in 0 .. MaxHands /\ table.hand \in Int
           /\ ActionPhase(table) \/ table.phase = "PostingBlinds" => table.hand # 0
           /\ Whole(table.hand) =>
                 /\ Tracked /\ Turned /\ Settling /\ Present /\ Vacant(table)
                 /\ ActionPhase(table) => Betting(table) /\ InHand(table)
                 /\ table.phase = "PostingBlinds" => Posting(table) /\ InHand(table)
                 /\ ~InHand(table) => Idle(table)
           /\ \A c \in commits : c \in Commits /\ c.seat \in Seats
<1>1. Typed /\ (Whole(table.hand) => Tracked /\ Turned /\ Settling /\ Present)
  BY DEF PokerInv
<1>2. Well(table) /\ Even(table) /\ table \in Tables
  BY <1>1 DEF Typed, Well
<1>3. table.hand \in 0 .. MaxHands /\ table.hand \in Int
  BY <1>2, PokerAssumption DEF Tables
<1>4. ActionPhase(table) \/ table.phase = "PostingBlinds" => table.hand # 0
  BY <1>2, PhaseFacts DEF Well, ActionPhase
<1>5. ASSUME Whole(table.hand)
      PROVE  /\ Vacant(table)
             /\ ActionPhase(table) => Betting(table) /\ InHand(table)
             /\ table.phase = "PostingBlinds" => Posting(table) /\ InHand(table)
             /\ ~InHand(table) => Idle(table)
  <2>1. Turned
    BY <1>1, <1>5
  <2> QED
    BY <2>1, PhaseFacts DEF Turned, InHand, ActionPhase, Posting, Idle, Betting, Playing
<1>6. \A c \in commits : c \in Commits /\ c.seat \in Seats
  BY <1>1 DEF Typed, Commits
<1> QED
  BY <1>1, <1>2, <1>3, <1>4, <1>5, <1>6

\* A handler that asked for no debit and saw none answered: what it owes is where the
\* hand stands.
LEMMA KeptIsHandled ==
    ASSUME PokerInv, Whole(table.hand), NEW t,
           \A i \in Seats : t.seat[i].pending = table.seat[i].pending,
           InHand(table) => Pot(t) = Pot(table), Vacant(t),
           IF InHand(table)
           THEN \/ Outcome(t) \/ Stillborn(t)
                \/ Posting(t) /\ t.blinds = table.blinds /\ table.phase = "PostingBlinds"
           ELSE Idle(t) /\ t.phase = table.phase /\ t.settling = table.settling
    PROVE  Handled(t, commits)
<1>1. Tracked /\ Present /\ (InHand(table) => table.hand # 0) /\ table.hand \in 0 .. MaxHands
      /\ \A c \in commits : c.seat \in Seats
  BY Between DEF InHand
<1>2. \A i \in Seats : t.seat[i].pending # None => \E c \in commits : c.seat = i
  BY <1>1 DEF Tracked
<1>3. \A c \in commits : Awaited(t, c) /\ c.amount = t.seat[c.seat].pending.amount
  BY <1>1 DEF Tracked, Awaited
<1>4. ASSUME InHand(table)
      PROVE  books[table.hand].taken
               = books[table.hand].strayed + Debited(commits, table.hand) + Pot(t)
  <2>1. table.hand > 0
    BY <1>1, <1>4, PokerAssumption
  <2> QED
    BY <1>1, <1>4, <2>1 DEF Present
<1>5. table.phase = "PostingBlinds" => table.blinds > 0 /\ table.blinds = Cardinality(commits)
  BY <1>1 DEF Tracked
<1> QED
  BY <1>2, <1>3, <1>4, <1>5 DEF Handled

\* The turn of seat i, used for something that costs no chips, whatever else of the seat
\* changes.
LEMMA TurnKeeps ==
    ASSUME PokerInv, NEW i \in Seats, NEW s \in SeatStates, NEW v, v = Acts(table, i, s, None),
           s.user = table.seat[i].user, s.dealt = table.seat[i].dealt,
           s.all_in = table.seat[i].all_in, s.committed = table.seat[i].committed,
           s.pending = table.seat[i].pending, s.street = table.seat[i].street,
           ActionPhase(table), table.active = i,
           Whole(table.hand) => table.seat[i].pending = None, Plays(v, i)
    PROVE  PokerInv' /\ LevelShown
<1> DEFINE t == advance_after_action(v, i)
<1>1. Publish(t) /\ commits' = commits /\ oddities' = oddities
  BY DEF Plays
<1>2. Well(table) /\ table.hand # 0 /\ Typed
  BY Between DEF PokerInv
<1>3. Well(t) /\ Kept(table, t)
      /\ (Betting(table) /\ Vacant(table) /\ table.active = i /\ table.seat[i].pending = None
            => Outcome(t))
  BY <1>2, ActsAndAdvances DEF SeatOrNone
<1> HIDE DEF t
<1>4. t.hand = table.hand /\ oddities' \in Nat
  BY <1>1, <1>2, <1>3 DEF Kept, Typed
<1>5. ASSUME Whole(table.hand) PROVE Handled(t, commits')
  <2>1. Betting(table) /\ Vacant(table) /\ InHand(table) /\ table.seat[i].pending = None
    BY <1>5, Between
  <2>2. Outcome(t) /\ Vacant(t) /\ Pot(t) = Pot(table)
        /\ \A j \in Seats : t.seat[j].pending = table.seat[j].pending
    BY <1>3, <2>1, SamePot DEF Outcome, Kept
  <2> QED
    BY <1>1, <1>5, <2>1, <2>2, KeptIsHandled
<1> QED
  BY <1>1, <1>2, <1>3, <1>4, <1>5, PublishKeeps DEF LevelShown

LEMMA NoneMissed == 0 \in 0 .. MaxMissedActions /\ MaxMissedActions \in Nat \ {0}
<1>1. MaxMissedActions \in Nat \ {0}
  BY PokerAssumption
<1> QED
  BY <1>1

\* A free check.
LEMMA CheckKeeps ==
    ASSUME PokerInv, NEW u \in Players, check(u)
    PROVE  PokerInv' /\ LevelShown
<1>1. PICK i \in Seats : /\ OnTurn(u, i)
                         /\ Plays([Manual(i) EXCEPT !.seat[i].acted = TRUE], i)
  BY DEF check
<1> DEFINE s == [table.seat[i] EXCEPT !.missed = 0, !.acted = TRUE]
<1>2. table \in Tables /\ table.seat[i] \in SeatStates
  BY Between DEF Tables
<1>3. /\ s \in SeatStates /\ s.user = table.seat[i].user /\ s.dealt = table.seat[i].dealt
      /\ s.all_in = table.seat[i].all_in /\ s.committed = table.seat[i].committed
      /\ s.pending = table.seat[i].pending /\ s.street = table.seat[i].street
  BY <1>2, NoneMissed DEF SeatStates
<1>4. [Manual(i) EXCEPT !.seat[i].acted = TRUE] = Acts(table, i, s, None)
  BY <1>2 DEF Manual, Acts, Tables
<1> HIDE DEF s
<1>5. ActionPhase(table) /\ table.active = i /\ table.seat[i].pending = None
  BY <1>1 DEF OnTurn, CanAct
<1> QED
  BY <1>1, <1>3, <1>4, <1>5, TurnKeeps

\* A fold.
LEMMA FoldKeeps ==
    ASSUME PokerInv, NEW u \in Players, fold(u)
    PROVE  PokerInv' /\ LevelShown
<1>1. PICK i \in Seats :
        /\ OnTurn(u, i)
        /\ Plays([Manual(i) EXCEPT !.seat[i].acted = TRUE, !.seat[i].folded = TRUE], i)
  BY DEF fold
<1> DEFINE s == [table.seat[i] EXCEPT !.missed = 0, !.acted = TRUE, !.folded = TRUE]
<1>2. table \in Tables /\ table.seat[i] \in SeatStates
  BY Between DEF Tables
<1>3. /\ s \in SeatStates /\ s.user = table.seat[i].user /\ s.dealt = table.seat[i].dealt
      /\ s.all_in = table.seat[i].all_in /\ s.committed = table.seat[i].committed
      /\ s.pending = table.seat[i].pending /\ s.street = table.seat[i].street
  BY <1>2, NoneMissed DEF SeatStates
<1>4. [Manual(i) EXCEPT !.seat[i].acted = TRUE, !.seat[i].folded = TRUE] = Acts(table, i, s, None)
  BY <1>2 DEF Manual, Acts, Tables
<1> HIDE DEF s
<1>5. ActionPhase(table) /\ table.active = i /\ table.seat[i].pending = None
  BY <1>1 DEF OnTurn, CanAct
<1> QED
  BY <1>1, <1>3, <1>4, <1>5, TurnKeeps

\* The clock acts for the seat on turn.
LEMMA TimeoutKeeps ==
    ASSUME PokerInv, ActionTimeout
    PROVE  PokerInv' /\ LevelShown
<1> DEFINE i == table.active
<1> DEFINE missed == AtMost(table.seat[i].missed + 1, MaxMissedActions)
<1> DEFINE l == table.seat[i].leaving \/ missed = MaxMissedActions
<1> DEFINE k == ToCall(table, i) # 0
<1> DEFINE s == [table.seat[i] EXCEPT !.missed = missed, !.leaving = l,
                                      !.folded = k, !.acted = TRUE]
<1>1. ActionPhase(table) /\ table.countdown # None /\ i = table.countdown
      /\ Plays(TimesOut(table, i), i)
  BY DEF ActionTimeout
<1>2. table \in Tables /\ i \in Seats /\ table.seat[i] \in SeatStates
  <2>1. table \in Tables
    BY Between
  <2>2. i \in Seats
    BY <1>1, <2>1 DEF Tables, SeatOrNone
  <2> QED
    BY <2>1, <2>2 DEF Tables
<1>3. missed \in 0 .. MaxMissedActions
  BY <1>2, NoneMissed DEF SeatStates, AtMost
<1>4. l \in BOOLEAN /\ k \in BOOLEAN
  BY <1>2 DEF SeatStates
<1>5. TimesOut(table, i) = Acts(table, i, s, None)
  <2> DEFINE w == [table EXCEPT !.countdown = None, !.seat[i].missed = missed,
                                !.seat[i].leaving = @ \/ missed = MaxMissedActions]
  <2>1. w = Acts(table, i, [table.seat[i] EXCEPT !.missed = missed, !.leaving = l], None)
    <3> HIDE DEF missed
    <3> QED
      BY <1>2 DEF Acts, Tables, SeatStates
  <2>2. TimesOut(table, i) = [w EXCEPT !.seat[i].folded = ToCall(w, i) # 0, !.seat[i].acted = TRUE]
    BY DEF TimesOut, ChecksOrFolds
  <2> DEFINE r == [table.seat[i] EXCEPT !.missed = missed, !.leaving = l]
  <2>3. r \in SeatStates /\ r.street = table.seat[i].street
    <3> HIDE DEF missed, l
    <3> QED
      BY <1>2, <1>3, <1>4 DEF SeatStates
  <2>4. w.seat[i] = r /\ w.bet = table.bet /\ w \in Tables
    <3>1. w = Acts(table, i, r, None)
      BY <2>1
    <3> HIDE DEF r, w
    <3>2. w.seat[i] = r /\ w.bet = table.bet /\ w \in Tables
      BY <1>2, <2>3, <3>1, ActsFields DEF SeatOrNone
    <3> QED
      BY <3>2
  <2>5. (ToCall(w, i) # 0) = k
    <3> HIDE DEF r, w
    <3> QED
      BY <2>3, <2>4 DEF ToCall
  <2> HIDE DEF w, missed, l, k
  <2>6. TimesOut(table, i) = [w EXCEPT !.seat[i].folded = k, !.seat[i].acted = TRUE]
    BY <2>2, <2>5
  <2> HIDE DEF i
  <2>7. [w EXCEPT !.seat[i].folded = k, !.seat[i].acted = TRUE] = Acts(table, i, s, None)
    BY <1>2, <2>1 DEF Acts, Tables
  <2> QED
    BY <2>6, <2>7
<1>6. /\ s \in SeatStates /\ s.user = table.seat[i].user /\ s.dealt = table.seat[i].dealt
      /\ s.all_in = table.seat[i].all_in /\ s.committed = table.seat[i].committed
      /\ s.pending = table.seat[i].pending /\ s.street = table.seat[i].street
  <2> HIDE DEF missed, l, k
  <2> QED
    BY <1>2, <1>3, <1>4 DEF SeatStates
<1>7. Whole(table.hand) => table.seat[i].pending = None
  <2> SUFFICES ASSUME Whole(table.hand) PROVE table.seat[i].pending = None
    OBVIOUS
  <2>1. table.countdown = IF table.seat[i].pending = None THEN table.active ELSE None
    BY <1>1, Between DEF Turned
  <2> QED
    BY <1>1, <2>1
<1> HIDE DEF s, i
<1>8. table.active = i
  BY DEF i
<1> QED
  BY <1>1, <1>2, <1>5, <1>6, <1>7, <1>8, TurnKeeps

\* A change of a seat that the hand does not look at.
LEMMA SwitchKeeps ==
    ASSUME PokerInv, NEW u \in Players, toggle_auto_check_fold(u)
    PROVE  PokerInv' /\ LevelShown
<1>1. PICK i \in SeatOf(table, u) :
        /\ oddities' = oddities + 1
        /\ Publish([table EXCEPT !.seat[i].auto = ~@])
        /\ commits' = commits
  BY DEF toggle_auto_check_fold, Oddity
<1>2. table \in Tables /\ i \in Seats /\ table.seat[i] \in SeatStates /\ table.seat[i].user = u
      /\ Well(table) /\ Even(table) /\ oddities' \in Nat
  BY <1>1, Between DEF Tables, SeatOf, PokerInv, Typed
<1> DEFINE k == ~table.seat[i].auto
<1> DEFINE s == [table.seat[i] EXCEPT !.auto = k]
<1> DEFINE t == [table EXCEPT !.seat[i].auto = ~@]
<1>3. /\ s \in SeatStates /\ s.user = table.seat[i].user /\ s.dealt = table.seat[i].dealt
      /\ s.all_in = table.seat[i].all_in /\ s.committed = table.seat[i].committed
      /\ s.pending = table.seat[i].pending /\ s.street = table.seat[i].street
      /\ s.folded = table.seat[i].folded
  <2>1. k \in BOOLEAN
    BY <1>2 DEF SeatStates
  <2> HIDE DEF k
  <2> QED
    BY <1>2, <2>1 DEF SeatStates
<1>4. t = Acts(table, i, s, table.countdown)
  BY <1>2 DEF Acts, Tables
<1> HIDE DEF s, k, t
<1>5. table.countdown \in SeatOrNone
  BY <1>2 DEF Tables
<1>6. /\ t.phase = table.phase /\ t.active = table.active /\ t.due = table.due
      /\ t.reveal = table.reveal /\ t.settling = table.settling /\ t.blinds = table.blinds
      /\ t.hand = table.hand
  BY <1>2, <1>3, <1>4, <1>5, ActsFields
<1>7. /\ Well(t) /\ Kept(table, t)
      /\ Vacant(table) /\ s.user # None => Vacant(t)
      /\ Quiet(table) => Quiet(t)
      /\ Playing(table) => Playing(t)
      /\ Active(t) = Active(table) /\ Actionable(t) = Actionable(table)
      /\ Levelled(table) => Levelled(t)
  <2>1. /\ Well(t) /\ Kept(table, t)
        /\ Vacant(table) /\ s.user # None => Vacant(t)
        /\ Quiet(table) => Quiet(t)
        /\ Playing(table) => Playing(t)
        /\ (table.seat[i].folded => s.folded) => (Levelled(table) => Levelled(t))
        /\ table.seat[i].folded = s.folded =>
              Active(t) = Active(table) /\ Actionable(t) = Actionable(table)
    BY <1>2, <1>3, <1>4, <1>5, ActsFacts
  <2> QED
    BY <1>3, <2>1
<1>8. \A j \in Seats : /\ t.seat[j].pending = table.seat[j].pending
                       /\ t.seat[j].committed = table.seat[j].committed
  BY <1>7 DEF Kept
<1>9. s.user # None
  BY <1>2, <1>3, PokerAssumption
<1>10. ASSUME Whole(table.hand) PROVE Handled(t, commits')
  <2>1. Vacant(t) /\ Pot(t) = Pot(table)
    BY <1>7, <1>8, <1>9, <1>10, Between, SamePot
  <2>2. CASE ActionPhase(table)
    <3>1. Betting(table) /\ InHand(table)
      BY <1>10, <2>2, Between
    <3>2. Betting(t)
      BY <1>6, <1>7, <1>8, <3>1 DEF Betting, Contested
    <3> QED
      BY <1>1, <1>8, <1>10, <2>1, <3>1, <3>2, KeptIsHandled DEF Outcome
  <2>3. CASE table.phase = "PostingBlinds"
    <3>1. Posting(table) /\ InHand(table)
      BY <1>10, <2>3, Between
    <3>2. \A j \in Seats : t.seat[j].street = table.seat[j].street
      <4>1. \A j \in Seats : j # i => t.seat[j] = table.seat[j]
        BY <1>2, <1>3, <1>4, <1>5, ActsFields
      <4>2. t.seat[i] = s
        BY <1>2, <1>3, <1>4, <1>5, ActsFields
      <4> QED
        BY <1>3, <4>1, <4>2
    <3>3. Posting(t)
      BY <1>6, <1>7, <1>8, <3>1, <3>2 DEF Posting, Even
    <3> QED
      BY <1>1, <1>6, <1>8, <1>10, <2>1, <2>3, <3>1, <3>3, KeptIsHandled
  <2>4. CASE ~InHand(table)
    <3>1. Idle(table)
      BY <1>10, <2>4, Between
    <3>2. Idle(t)
      BY <1>6, <1>7, <3>1 DEF Idle, Even
    <3> QED
      BY <1>1, <1>6, <1>8, <1>10, <2>1, <2>4, <3>2, KeptIsHandled
  <2> QED
    BY <2>2, <2>3, <2>4 DEF InHand
<1>11. Publish(t) /\ (t.hand = 0 => Even(t))
  BY <1>1, <1>2, <1>6 DEF t, Even
<1> QED
  BY <1>1, <1>2, <1>6, <1>7, <1>10, <1>11, PublishKeeps DEF LevelShown

-----------------------------------------------------------------------------
(* Getting up.                                                             *)

\* Emptied seats leave the rest of the table as it is.
LEMMA RemovedFacts ==
    ASSUME NEW t, Well(t), NEW gone \in SUBSET Seats, NEW u, u = Removed(t, gone)
    PROVE  /\ Well(u)
           /\ u.phase = t.phase /\ u.hand = t.hand /\ u.big = t.big /\ u.active = t.active
           /\ u.bet = t.bet /\ u.min_raise = t.min_raise /\ u.blinds = t.blinds
           /\ u.countdown = t.countdown /\ u.settling = t.settling /\ u.due = t.due
           /\ u.reveal = t.reveal
           /\ \A j \in Seats : u.seat[j] = IF j \in gone THEN EmptySeat ELSE t.seat[j]
           /\ Vacant(t) => Vacant(u)
           /\ Quiet(t) => Quiet(u)
           /\ Active(u) = Active(t) \ gone /\ Actionable(u) = Actionable(t) \ gone
           /\ Levelled(t) => Levelled(u)
<1> DEFINE seat == [j \in Seats |-> IF j \in gone THEN EmptySeat ELSE t.seat[j]]
<1> DEFINE d == IF gone # {} /\ \A j \in Seats : seat[j].user = None THEN None ELSE t.dealer
<1>1. t \in Tables /\ t.seat \in [Seats -> SeatStates] /\ t.dealer \in SeatOrNone
  BY DEF Well, Tables
<1>2. seat \in [Seats -> SeatStates]
  BY <1>1, EmptySeatFields
<1>3. d \in SeatOrNone
  BY <1>1 DEF SeatOrNone
<1>4. d = t.dealer \/ \A j \in Seats : seat[j].user = None
  OBVIOUS
<1>5. u = [t EXCEPT !.seat = seat, !.dealer = d]
  BY DEF Removed
<1>6. \A j \in Seats : seat[j] = IF j \in gone THEN EmptySeat ELSE t.seat[j]
  OBVIOUS
<1> HIDE DEF seat, d
<1>7. /\ u \in Tables /\ u.seat = seat /\ u.dealer = d
      /\ u.phase = t.phase /\ u.hand = t.hand /\ u.big = t.big /\ u.active = t.active
      /\ u.bet = t.bet /\ u.min_raise = t.min_raise /\ u.blinds = t.blinds
      /\ u.countdown = t.countdown /\ u.settling = t.settling /\ u.due = t.due
      /\ u.reveal = t.reveal
  BY <1>1, <1>2, <1>3, <1>5 DEF Tables
<1>8. \A j \in Seats : u.seat[j] = IF j \in gone THEN EmptySeat ELSE t.seat[j]
  BY <1>6, <1>7
<1>9. Active(u) = Active(t) \ gone /\ Actionable(u) = Actionable(t) \ gone
  <2>1. Active(u) = Active(t) \ gone
    BY <1>8, EmptySeatFields DEF Active
  <2>2. Active(t) \subseteq Seats
    BY DEF Active
  <2> QED
    BY <1>8, <2>1, <2>2 DEF Actionable
<1>10. Well(u)
  <2>1. ASSUME NEW j \in Seats
        PROVE  /\ u.seat[j].street <= u.bet /\ u.seat[j].street <= u.seat[j].committed
               /\ u.seat[j].pending # None =>
                     u.seat[j].street + u.seat[j].pending.amount <= u.seat[j].pending.target
               /\ u.seat[j].user = None => ~u.seat[j].dealt
               /\ u.hand = 0 => u.seat[j].pending = None
    <3>1. CASE j \in gone
      <4>1. u.seat[j] = EmptySeat /\ u.bet \in Nat
        BY <1>7, <1>8, <2>1, <3>1 DEF Tables
      <4> QED
        BY <4>1, EmptySeatFields
    <3>2. CASE j \notin gone
      <4>1. u.seat[j] = t.seat[j]
        BY <1>8, <2>1, <3>2
      <4> QED
        BY <1>7, <2>1, <4>1 DEF Well
    <3> QED
      BY <3>1, <3>2
  <2>2. ASSUME NEW j \in Seats, u.dealer = None PROVE ~u.seat[j].dealt
    <3>1. CASE u.seat[j].user = None
      BY <2>1, <3>1
    <3>2. CASE u.seat[j].user # None
      <4>1. u.dealer = t.dealer /\ u.seat[j] = t.seat[j]
        BY <1>4, <1>6, <1>7, <3>2, EmptySeatFields
      <4> QED
        BY <2>2, <4>1 DEF Well
    <3> QED
      BY <3>1, <3>2
  <2>3. \A i, j \in Seats : i # j /\ u.seat[i].user # None => u.seat[i].user # u.seat[j].user
    <3> SUFFICES ASSUME NEW i \in Seats, NEW j \in Seats, i # j, u.seat[i].user # None
                 PROVE  u.seat[i].user # u.seat[j].user
      OBVIOUS
    <3>1. u.seat[i] = t.seat[i]
      BY <1>8, EmptySeatFields
    <3>2. u.seat[j] = t.seat[j] \/ u.seat[j].user = None
      BY <1>8, EmptySeatFields
    <3> QED
      BY <3>1, <3>2 DEF Well
  <2>4. /\ IsFiniteSet(u.due)
        /\ u.phase = "PostingBlinds" => u.big \in Seats
        /\ u.hand = 0 => u.phase = "Waiting"
    BY <1>7 DEF Well
  <2>5. u \in Tables
    BY <1>7
  <2> QED
    BY <2>1, <2>2, <2>3, <2>4, <2>5 DEF Well
<1>11. Vacant(t) => Vacant(u)
  BY <1>8 DEF Vacant
<1>12. Quiet(t) => Quiet(u)
  BY <1>8, EmptySeatFields DEF Quiet
<1>13. ASSUME Levelled(t) PROVE Levelled(u)
  <2> SUFFICES ASSUME NEW i \in Actionable(u), NEW j \in Seats
               PROVE  u.seat[j].committed - u.seat[j].street
                        <= u.seat[i].committed - u.seat[i].street
    BY DEF Levelled
  <2>1. i \in Actionable(t) /\ i \notin gone /\ i \in Seats
    BY <1>9 DEF Actionable, Active
  <2>2. u.seat[i] = t.seat[i]
    BY <1>8, <2>1
  <2>3. CASE j \notin gone
    BY <1>8, <1>13, <2>1, <2>2, <2>3 DEF Levelled
  <2>4. CASE j \in gone
    <3>1. u.seat[j].committed = 0 /\ u.seat[j].street = 0
      BY <1>8, <2>4, EmptySeatFields
    <3>2. t.seat[i].street <= t.seat[i].committed /\ t.seat[i].street \in Nat /\ t.seat[i].committed \in Nat
      BY <1>1, <2>1 DEF Well, SeatStates
    <3> QED
      BY <2>2, <3>1, <3>2
  <2> QED
    BY <2>3, <2>4
<1> QED
  BY <1>7, <1>8, <1>9, <1>10, <1>11, <1>12, <1>13

\* A seat that nobody deals chips to any more keeps its pot.
LEMMA RemovedPot ==
    ASSUME NEW t, NEW u, NEW gone \in SUBSET Seats,
           \A j \in Seats : u.seat[j] = IF j \in gone THEN EmptySeat ELSE t.seat[j],
           \A j \in gone : t.seat[j].committed = 0
    PROVE  Pot(u) = Pot(t)
<1>1. \A j \in Seats : u.seat[j].committed = t.seat[j].committed
  BY EmptySeatFields
<1> QED
  BY <1>1, SamePot

\* Getting up outside a hand, or before the next one: the seat is emptied.
LEMMA EmptiedKeeps ==
    ASSUME PokerInv, NEW i \in Seats, table.seat[i].pending = None, ~InThisHand(table, i),
           table.phase # "PostingBlinds", Publish(Removed(table, {i})),
           commits' = commits, oddities' = oddities
    PROVE  PokerInv' /\ LevelShown
<1> DEFINE t == Removed(table, {i})
<1>1. Well(table) /\ Even(table) /\ table \in Tables /\ oddities' \in Nat /\ {i} \in SUBSET Seats
  BY Between DEF PokerInv, Typed
<1>2. /\ Well(t)
      /\ t.phase = table.phase /\ t.hand = table.hand /\ t.active = table.active
      /\ t.settling = table.settling /\ t.due = table.due /\ t.reveal = table.reveal
      /\ t.blinds = table.blinds
      /\ \A j \in Seats : t.seat[j] = IF j \in {i} THEN EmptySeat ELSE table.seat[j]
      /\ Vacant(table) => Vacant(t)
      /\ Quiet(table) => Quiet(t)
      /\ Active(t) = Active(table) \ {i} /\ Actionable(t) = Actionable(table) \ {i}
      /\ Levelled(table) => Levelled(t)
  <2> HIDE DEF t
  <2>1. t = Removed(table, {i})
    BY DEF t
  <2> QED
    BY <1>1, <2>1, RemovedFacts
<1> HIDE DEF t
<1>3. \A j \in Seats : t.seat[j].pending = table.seat[j].pending
  BY <1>2, EmptySeatFields
<1>4. ASSUME Whole(table.hand) PROVE Handled(t, commits')
  <2>1. Vacant(t)
    BY <1>2, <1>4, Between
  <2>2. CASE ActionPhase(table)
    <3>1. Betting(table) /\ InHand(table)
      BY <1>4, <2>2, Between
    <3>2. ~table.seat[i].dealt /\ i \notin Active(table) /\ table.seat[i].committed = 0
      BY <1>1, <2>2, <3>1 DEF InThisHand, Active, Betting, Playing, Tables, SeatStates
    <3>3. Active(t) = Active(table) /\ Actionable(t) = Actionable(table)
      BY <1>2, <3>2 DEF Actionable
    <3>4. Playing(t)
      BY <1>2, <3>1, EmptySeatFields DEF Playing, Betting, ActionPhase, Even
    <3>5. Betting(t)
      BY <1>2, <1>3, <3>1, <3>3, <3>4 DEF Betting, Contested
    <3>6. Pot(t) = Pot(table)
      BY <1>1, <1>2, <3>2, RemovedPot
    <3> QED
      BY <1>1, <1>3, <1>4, <2>1, <3>1, <3>5, <3>6, KeptIsHandled DEF Outcome
  <2>3. CASE ~ActionPhase(table)
    <3>1. ~InHand(table)
      BY <2>3 DEF InHand
    <3>2. Idle(table)
      BY <1>4, <3>1, Between
    <3>3. Idle(t)
      BY <1>2, <3>2 DEF Idle, Even
    <3> QED
      BY <1>2, <1>3, <1>4, <2>1, <3>1, <3>3, KeptIsHandled
  <2> QED
    BY <2>2, <2>3
<1>5. Publish(t) /\ (t.hand = 0 => Even(t))
  BY <1>1, <1>2 DEF t, Even
<1> QED
  BY <1>1, <1>2, <1>4, <1>5, PublishKeeps DEF LevelShown

\* Getting up in a hand: the seat folds and is emptied when the hand is over.
LEMMA FoldedKeeps ==
    ASSUME PokerInv, NEW i \in Seats, table.seat[i].pending = None, InThisHand(table, i),
           Publish(FoldsAndLeaves(table, i)), commits' = commits, oddities' = oddities
    PROVE  PokerInv' /\ LevelShown
<1> DEFINE s == [table.seat[i] EXCEPT !.folded = TRUE, !.acted = TRUE, !.leaving = TRUE]
<1> DEFINE gone == [table EXCEPT !.seat[i].folded = TRUE, !.seat[i].acted = TRUE,
                                 !.seat[i].leaving = TRUE]
<1> DEFINE t == FoldsAndLeaves(table, i)
<1>1. /\ Well(table) /\ Even(table) /\ table \in Tables /\ oddities' \in Nat
      /\ ActionPhase(table) /\ table.hand # 0 /\ table.seat[i] \in SeatStates
      /\ table.countdown \in SeatOrNone /\ table.seat[i].dealt
  BY Between DEF PokerInv, Typed, InThisHand, Tables
<1>2. gone = Acts(table, i, s, table.countdown)
  BY <1>1 DEF Acts, Tables
<1>3. /\ s \in SeatStates /\ s.user = table.seat[i].user /\ s.dealt = table.seat[i].dealt
      /\ s.all_in = table.seat[i].all_in /\ s.committed = table.seat[i].committed
      /\ s.pending = table.seat[i].pending /\ s.street = table.seat[i].street
  BY <1>1 DEF SeatStates
<1>11. s.folded
  BY <1>1 DEF SeatStates
<1>4. t = CASE table.active = i -> advance_after_action(gone, i)
            [] table.active # i /\ Cardinality(Active(gone)) = 1 ->
                  finish_by_fold(gone, Max(Active(gone)))
            [] OTHER -> gone
  BY DEF FoldsAndLeaves
<1> HIDE DEF s, gone, t
<1>5. /\ Well(gone) /\ Kept(table, gone)
      /\ Active(table) \ {i} \subseteq Active(gone)
      /\ Vacant(table) /\ s.user # None => Vacant(gone)
      /\ Playing(table) => Playing(gone)
      /\ Active(gone) \subseteq Active(table)
      /\ Levelled(table) => Levelled(gone)
  <2>0. Well(table) /\ table.countdown \in SeatOrNone
    BY <1>1
  <2>1. Well(gone) /\ Kept(table, gone)
    BY <2>0, <1>2, <1>3, ActsFacts
  <2>2. Active(table) \ {i} \subseteq Active(gone)
    BY <2>0, <1>2, <1>3, ActsFacts
  <2>3. Vacant(table) /\ s.user # None => Vacant(gone)
    BY <2>0, <1>2, <1>3, ActsFacts
  <2>4. Playing(table) => Playing(gone)
    BY <2>0, <1>2, <1>3, ActsFacts
  <2>5. Active(gone) \subseteq Active(table)
    BY <2>0, <1>2, <1>3, <1>11, ActsFacts
  <2>6. Levelled(table) => Levelled(gone)
    BY <2>0, <1>2, <1>3, <1>11, ActsFacts
  <2> QED
    BY <2>1, <2>2, <2>3, <2>4, <2>5, <2>6
<1>6. /\ gone.active = table.active /\ gone.hand = table.hand /\ gone.phase = table.phase
      /\ \A j \in Seats : j # i => gone.seat[j] = table.seat[j]
      /\ gone.settling = table.settling /\ gone.due = table.due /\ gone.reveal = table.reveal
  BY <1>1, <1>2, <1>3, ActsFields
<1>7. s.user # None
  BY <1>1, <1>3 DEF Well
<1>8. Well(t) /\ Kept(table, t) /\ (Whole(table.hand) => Outcome(t))
  <2>0. Whole(table.hand) => Betting(table) /\ Vacant(table) /\ Vacant(gone)
    BY <1>1, <1>5, <1>7, Between
  <2>1. CASE table.active = i
    <3>1. t = advance_after_action(gone, i)
      BY <1>4, <2>1
    <3>2. /\ Well(t) /\ Kept(table, t)
          /\ (Betting(table) /\ Vacant(table) /\ table.active = i /\ table.seat[i].pending = None
                => Outcome(t))
      BY <1>1, <1>2, <1>3, <3>1, ActsAndAdvances
    <3> QED
      BY <2>0, <2>1, <3>2
  <2>2. CASE table.active # i /\ Cardinality(Active(gone)) = 1
    <3>1. t = finish_by_fold(gone, Max(Active(gone)))
      BY <1>4, <2>2
    <3>2. Well(t) /\ Kept(gone, t) /\ (Even(gone) /\ Vacant(gone) => Vacant(t) /\ Over(t))
      BY <1>1, <1>5, <1>6, <2>2, <3>1, LastOneWins
    <3>3. Kept(table, t)
      BY <1>1, <1>5, <3>2, KeptIsTransitive DEF Well
    <3> QED
      BY <1>1, <1>6, <2>0, <3>2, <3>3 DEF Outcome, Even
  <2>3. CASE table.active # i /\ Cardinality(Active(gone)) # 1
    <3>1. t = gone
      BY <1>4, <2>3
    <3>2. ASSUME Whole(table.hand) PROVE Betting(gone)
      <4>1. Betting(table) /\ table.active \in Actionable(table)
        BY <2>0, <3>2 DEF Betting
      <4>2. table.active \in Active(gone) /\ table.active \in Actionable(gone)
        BY <1>5, <1>6, <2>3, <4>1 DEF Actionable, Active
      <4>3. Contested(gone)
        BY <2>3, <4>2, ActiveFacts DEF Contested
      <4>4. \A j \in Seats : gone.seat[j].pending = table.seat[j].pending
        BY <1>5 DEF Kept
      <4> QED
        BY <1>5, <1>6, <4>1, <4>2, <4>3, <4>4 DEF Betting
    <3> QED
      BY <1>5, <2>0, <3>1, <3>2 DEF Outcome
  <2> QED
    BY <2>1, <2>2, <2>3
<1>9. ASSUME Whole(table.hand) PROVE Handled(t, commits')
  <2>1. Outcome(t) /\ Vacant(t) /\ Pot(t) = Pot(table) /\ InHand(table)
        /\ \A j \in Seats : t.seat[j].pending = table.seat[j].pending
    BY <1>1, <1>8, <1>9, SamePot DEF Outcome, Kept, InHand
  <2> QED
    BY <1>9, <2>1, KeptIsHandled
<1>10. Publish(t) /\ t.hand = table.hand
  BY <1>8 DEF t, Kept
<1> QED
  BY <1>1, <1>8, <1>9, <1>10, PublishKeeps DEF LevelShown

\* leave and kick_inactive_user, in a hand or outside one.
LEMMA GetsUpKeeps ==
    ASSUME PokerInv, NEW u \in Players, leave(u) \/ kick_inactive_user(u)
    PROVE  PokerInv' /\ LevelShown
<1>1. PICK i \in Seats :
        /\ table.seat[i].pending = None
        /\ InThisHand(table, i) \/ table.phase # "PostingBlinds"
        /\ GetsUp(i)
  BY DEF leave, kick_inactive_user, SeatOf
<1>2. CASE InThisHand(table, i)
  BY <1>1, <1>2, FoldedKeeps DEF GetsUp
<1>3. CASE ~InThisHand(table, i)
  BY <1>1, <1>3, EmptiedKeeps DEF GetsUp
<1> QED
  BY <1>2, <1>3

-----------------------------------------------------------------------------
(* A debit is answered.                                                    *)

\* The pot changes by what one seat puts in.
LEMMA PotChanged ==
    ASSUME NEW t \in Tables, NEW u \in Tables, NEW i \in Seats,
           \A j \in Seats : j # i => u.seat[j].committed = t.seat[j].committed
    PROVE  Pot(u) = Pot(t) + (u.seat[i].committed - t.seat[i].committed)
<1> DEFINE f == Committed(t)
<1> DEFINE g == Committed(u)
<1>1. /\ f \in [Seats -> Nat] /\ g \in [Seats -> Nat]
      /\ Pot(t) = SumFunctionOnSet(f, Seats) /\ Pot(u) = SumFunctionOnSet(g, Seats)
  BY PotIsSum
<1>2. \A j \in Seats : f[j] = t.seat[j].committed /\ g[j] = u.seat[j].committed
  BY DEF Committed
<1> HIDE DEF f, g
<1>3. \A j \in Seats : f[j] \in Int
  BY <1>1
<1>4. g[i] \in Int
  BY <1>1
<1>5. \A j \in Seats : j # i => g[j] = f[j]
  BY <1>2
<1>6. SumFunctionOnSet(g, Seats) = SumFunctionOnSet(f, Seats) + (g[i] - f[i])
  <2>1. IsFiniteSet(Seats)
    BY SeatsAreFinite
  <2> QED
    BY <1>3, <1>4, <1>5, <2>1, SumOfChanged
<1> QED
  BY <1>1, <1>2, <1>6

\* The table with the chips of seat i on it.
Placed(t, i) ==
    LET pending == t.seat[i].pending
        raised == pending.target > t.bet
        raise == AtLeast(pending.raise, pending.target - t.bet)
        full == raised /\ raise >= t.min_raise
        seat == [j \in Seats |->
                   IF j = i
                   THEN [t.seat[i] EXCEPT !.pending = None,
                            !.stack = @ - pending.amount,
                            !.committed = @ + pending.amount,
                            !.street = @ + pending.amount,
                            !.all_in = @ \/ t.seat[i].stack = pending.amount,
                            !.acted = ~pending.blind]
                   ELSE [t.seat[j] EXCEPT !.acted =
                            @ /\ ~(full /\ ActionPhase(t) /\ t.seat[j].dealt
                                        /\ ~t.seat[j].folded)]]
    IN  [t EXCEPT !.seat = seat,
                  !.bet = IF raised THEN pending.target ELSE @,
                  !.min_raise = IF full THEN raise ELSE @]

\* Chips that arrive: the seat has put them in, and nobody left the hand.
LEMMA PlacedFacts ==
    ASSUME NEW t, Well(t), NEW i \in Seats, t.seat[i].pending # None, NEW u, u = Placed(t, i)
    PROVE  /\ Well(u)
           /\ u.phase = t.phase /\ u.hand = t.hand /\ u.active = t.active
           /\ u.blinds = t.blinds /\ u.settling = t.settling /\ u.due = t.due
           /\ u.reveal = t.reveal
           /\ \A j \in Seats :
                /\ u.seat[j].user = t.seat[j].user /\ u.seat[j].dealt = t.seat[j].dealt
                /\ u.seat[j].folded = t.seat[j].folded
                /\ t.seat[j].all_in => u.seat[j].all_in
                /\ u.seat[j].committed - u.seat[j].street = t.seat[j].committed - t.seat[j].street
                /\ j # i => /\ u.seat[j].pending = t.seat[j].pending
                            /\ u.seat[j].committed = t.seat[j].committed
                            /\ u.seat[j].street = t.seat[j].street
           /\ u.seat[i].pending = None
           /\ u.seat[i].committed = t.seat[i].committed + t.seat[i].pending.amount
           /\ u.seat[i].street = t.seat[i].street + t.seat[i].pending.amount
           /\ Active(u) = Active(t) /\ Actionable(u) \subseteq Actionable(t)
           /\ Vacant(t) => Vacant(u)
           /\ Levelled(t) => Levelled(u)
           /\ Pot(u) = Pot(t) + t.seat[i].pending.amount
<1> DEFINE p == t.seat[i].pending
<1> DEFINE raised == p.target > t.bet
<1> DEFINE raise == AtLeast(p.raise, p.target - t.bet)
<1> DEFINE full == raised /\ raise >= t.min_raise
<1> DEFINE all == t.seat[i].all_in \/ t.seat[i].stack = p.amount
<1> DEFINE k == ~p.blind
<1> DEFINE acted(j) == t.seat[j].acted /\ ~(full /\ ActionPhase(t) /\ t.seat[j].dealt
                                                 /\ ~t.seat[j].folded)
<1> DEFINE mine == [t.seat[i] EXCEPT !.pending = None,
                            !.stack = @ - p.amount,
                            !.committed = @ + p.amount,
                            !.street = @ + p.amount,
                            !.all_in = all,
                            !.acted = k]
<1> DEFINE seat == [j \in Seats |-> IF j = i THEN mine
                                    ELSE [t.seat[j] EXCEPT !.acted = acted(j)]]
<1> DEFINE bet == IF raised THEN p.target ELSE t.bet
<1> DEFINE least == IF full THEN raise ELSE t.min_raise
<1>1. /\ t \in Tables /\ t.seat \in [Seats -> SeatStates] /\ t.seat[i] \in SeatStates
      /\ t.bet \in Nat /\ t.min_raise \in Nat
  BY DEF Well, Tables
<1>2. p \in Pendings
  BY <1>1 DEF SeatStates
<1>3. /\ p.amount \in Nat \ {0} /\ p.target \in Nat /\ p.raise \in Nat /\ p.blind \in BOOLEAN
      /\ t.seat[i].street + p.amount <= p.target
  BY <1>2 DEF Pendings, Well
<1>4. u = [t EXCEPT !.seat = seat, !.bet = bet, !.min_raise = least]
  <2>1. u = [t EXCEPT !.seat = [j \in Seats |->
                   IF j = i
                   THEN [t.seat[i] EXCEPT !.pending = None,
                            !.stack = @ - p.amount,
                            !.committed = @ + p.amount,
                            !.street = @ + p.amount,
                            !.all_in = @ \/ t.seat[i].stack = p.amount,
                            !.acted = ~p.blind]
                   ELSE [t.seat[j] EXCEPT !.acted =
                            @ /\ ~(full /\ ActionPhase(t) /\ t.seat[j].dealt
                                        /\ ~t.seat[j].folded)]],
                  !.bet = IF raised THEN p.target ELSE @,
                  !.min_raise = IF full THEN raise ELSE @]
    BY DEF Placed
  <2> QED
    BY <1>1, <2>1 DEF Tables, SeatStates
<1>5. bet \in Nat /\ t.bet <= bet /\ t.seat[i].street + p.amount <= bet
  <2>1. t.seat[i].street \in Nat
    BY <1>1 DEF SeatStates
  <2> HIDE DEF p
  <2> QED
    BY <1>1, <1>3, <2>1
<1>6. least \in Nat
  <2> HIDE DEF p
  <2> QED
    BY <1>1, <1>3 DEF AtLeast
<1>7. all \in BOOLEAN /\ k \in BOOLEAN /\ (t.seat[i].all_in => all)
  <2> HIDE DEF p
  <2> QED
    BY <1>1, <1>3 DEF SeatStates
<1>8. \A j \in Seats : acted(j) \in BOOLEAN
  OBVIOUS
<1> HIDE DEF all, k, bet, least
<1>9. /\ mine \in SeatStates /\ mine.user = t.seat[i].user /\ mine.dealt = t.seat[i].dealt
      /\ mine.folded = t.seat[i].folded /\ mine.all_in = all /\ mine.pending = None
      /\ mine.committed = t.seat[i].committed + p.amount
      /\ mine.street = t.seat[i].street + p.amount
  <2> HIDE DEF p
  <2>1. /\ t.seat[i].stack - p.amount \in Int /\ t.seat[i].committed + p.amount \in Nat
        /\ t.seat[i].street + p.amount \in Nat
    BY <1>1, <1>3 DEF SeatStates
  <2>2. mine \in SeatStates
    BY <1>1, <1>7, <2>1 DEF SeatStates
  <2> QED
    BY <1>1, <2>2 DEF SeatStates
<1>10. ASSUME NEW j \in Seats, j # i
       PROVE  /\ seat[j] \in SeatStates
              /\ seat[j].user = t.seat[j].user /\ seat[j].dealt = t.seat[j].dealt
              /\ seat[j].folded = t.seat[j].folded /\ seat[j].all_in = t.seat[j].all_in
              /\ seat[j].pending = t.seat[j].pending
              /\ seat[j].committed = t.seat[j].committed /\ seat[j].street = t.seat[j].street
              /\ t.seat[j] = EmptySeat => seat[j] = EmptySeat
  <2> DEFINE a == acted(j)
  <2> DEFINE other == [t.seat[j] EXCEPT !.acted = a]
  <2>1. a \in BOOLEAN /\ (a => t.seat[j].acted) /\ t.seat[j] \in SeatStates
    BY <1>1
  <2>2. seat[j] = other
    BY <1>10
  <2> HIDE DEF a, seat
  <2>3. /\ other \in SeatStates
        /\ other.user = t.seat[j].user /\ other.dealt = t.seat[j].dealt
        /\ other.folded = t.seat[j].folded /\ other.all_in = t.seat[j].all_in
        /\ other.pending = t.seat[j].pending
        /\ other.committed = t.seat[j].committed /\ other.street = t.seat[j].street
        /\ other.stack = t.seat[j].stack /\ other.leaving = t.seat[j].leaving
        /\ other.auto = t.seat[j].auto /\ other.missed = t.seat[j].missed
        /\ other.acted = a
    BY <2>1 DEF SeatStates
  <2> HIDE DEF other
  <2>4. t.seat[j] = EmptySeat => other = EmptySeat
    <3> SUFFICES ASSUME t.seat[j] = EmptySeat PROVE other = EmptySeat
      OBVIOUS
    <3>1. other.acted = FALSE
      BY <2>1, <2>3, EmptySeatFields
    <3> QED
      BY <2>3, <3>1, SeatByFields, EmptySeatFields
  <2> QED
    BY <2>2, <2>3, <2>4
<1>11. seat[i] = mine /\ seat \in [Seats -> SeatStates]
  <2>1. seat[i] = mine
    OBVIOUS
  <2>2. \A j \in Seats : seat[j] \in SeatStates
    BY <1>9, <1>10, <2>1
  <2> HIDE DEF mine, acted
  <2> QED
    BY <2>1, <2>2
<1> HIDE DEF mine, seat, acted, full, raise, raised
<1>12. /\ u \in Tables /\ u.seat = seat /\ u.bet = bet /\ u.phase = t.phase /\ u.hand = t.hand
       /\ u.active = t.active /\ u.dealer = t.dealer /\ u.big = t.big /\ u.blinds = t.blinds
       /\ u.settling = t.settling /\ u.due = t.due /\ u.reveal = t.reveal
  BY <1>1, <1>4, <1>5, <1>6, <1>11 DEF Tables
<1>13. \A j \in Seats :
         /\ u.seat[j].user = t.seat[j].user /\ u.seat[j].dealt = t.seat[j].dealt
         /\ u.seat[j].folded = t.seat[j].folded
         /\ t.seat[j].all_in => u.seat[j].all_in
         /\ j # i => /\ u.seat[j].pending = t.seat[j].pending
                     /\ u.seat[j].committed = t.seat[j].committed
                     /\ u.seat[j].street = t.seat[j].street
  BY <1>7, <1>9, <1>10, <1>11, <1>12
<1>14. /\ u.seat[i].pending = None
       /\ u.seat[i].committed = t.seat[i].committed + p.amount
       /\ u.seat[i].street = t.seat[i].street + p.amount
  BY <1>9, <1>11, <1>12
<1> HIDE DEF p
<1>15. \A j \in Seats : /\ t.seat[j].street \in Nat /\ t.seat[j].committed \in Nat
                        /\ t.seat[j].street <= t.seat[j].committed /\ t.seat[j].street <= t.bet
  BY <1>1 DEF SeatStates, Well
<1>16. \A j \in Seats :
         /\ u.seat[j].committed - u.seat[j].street = t.seat[j].committed - t.seat[j].street
         /\ u.seat[j].street <= u.bet /\ u.seat[j].street <= u.seat[j].committed
  <2> TAKE j \in Seats
  <2>1. CASE j = i
    BY <1>3, <1>5, <1>12, <1>14, <1>15, <2>1
  <2>2. CASE j # i
    BY <1>1, <1>5, <1>12, <1>13, <1>15, <2>2
  <2> QED
    BY <2>1, <2>2
<1>17. Active(u) = Active(t) /\ Actionable(u) \subseteq Actionable(t)
  <2>1. Active(u) = Active(t)
    BY <1>13 DEF Active
  <2>2. Active(t) \subseteq Seats
    BY DEF Active
  <2> QED
    BY <1>13, <2>1, <2>2 DEF Actionable
<1>18. Well(u)
  <2>1. \A j \in Seats :
          /\ u.seat[j].pending # None =>
                u.seat[j].street + u.seat[j].pending.amount <= u.seat[j].pending.target
          /\ u.dealer = None \/ u.seat[j].user = None => ~u.seat[j].dealt
          /\ u.hand = 0 => u.seat[j].pending = None
    BY <1>12, <1>13, <1>14 DEF Well
  <2>2. \A j, l \in Seats : j # l /\ u.seat[j].user # None => u.seat[j].user # u.seat[l].user
    BY <1>13 DEF Well
  <2>3. IsFiniteSet(u.due) /\ (u.phase = "PostingBlinds" => u.big \in Seats)
        /\ (u.hand = 0 => u.phase = "Waiting")
    BY <1>12 DEF Well
  <2> QED
    BY <1>12, <1>16, <2>1, <2>2, <2>3 DEF Well
<1>19. ASSUME Vacant(t) PROVE Vacant(u)
  <2> SUFFICES ASSUME NEW j \in Seats, u.seat[j].user = None PROVE u.seat[j] = EmptySeat
    BY DEF Vacant
  <2>1. t.seat[j] = EmptySeat
    BY <1>13, <1>19 DEF Vacant
  <2>2. j # i
    BY <2>1, EmptySeatFields
  <2> QED
    BY <1>10, <1>12, <2>1, <2>2
<1>20. ASSUME Levelled(t) PROVE Levelled(u)
  <2> SUFFICES ASSUME NEW l \in Actionable(u), NEW j \in Seats
               PROVE  u.seat[j].committed - u.seat[j].street
                        <= u.seat[l].committed - u.seat[l].street
    BY DEF Levelled
  <2>1. l \in Actionable(t) /\ l \in Seats
    BY <1>17 DEF Actionable, Active
  <2>2. t.seat[j].committed - t.seat[j].street <= t.seat[l].committed - t.seat[l].street
    BY <1>20, <2>1 DEF Levelled
  <2> QED
    BY <1>16, <2>1, <2>2
<1>21. Pot(u) = Pot(t) + p.amount
  <2>1. Pot(u) = Pot(t) + (u.seat[i].committed - t.seat[i].committed)
    BY <1>1, <1>12, <1>13, PotChanged
  <2>2. Pot(t) \in Nat
    BY <1>1, PotIsSum
  <2> QED
    BY <1>3, <1>14, <1>15, <2>1, <2>2
<1> QED
  BY <1>12, <1>13, <1>14, <1>16, <1>17, <1>18, <1>19, <1>20, <1>21 DEF p

\* u is the table t without the debit of seat i, which may be folded, and with b blinds
\* to come.
Opened(t, i, s, b, u) ==
    /\ Well(u)
    /\ u.phase = t.phase /\ u.hand = t.hand /\ u.active = t.active
    /\ u.blinds = b /\ u.settling = t.settling /\ u.due = t.due
    /\ u.reveal = t.reveal
    /\ u.seat[i] = s /\ \A j \in Seats : j # i => u.seat[j] = t.seat[j]
    /\ Pot(u) = Pot(t)
    /\ Vacant(t) /\ s.user # None => Vacant(u)
    /\ s.folded = t.seat[i].folded =>
          /\ Active(u) = Active(t) /\ Actionable(u) = Actionable(t)
          /\ Levelled(t) => Levelled(u)

\* A debit that is dropped, and its seat perhaps folded.
LEMMA OpenedFacts ==
    ASSUME NEW t, Well(t), NEW i \in Seats, NEW s \in SeatStates, NEW b \in Nat,
           s.user = t.seat[i].user, s.dealt = t.seat[i].dealt, s.all_in = t.seat[i].all_in,
           s.committed = t.seat[i].committed, s.street = t.seat[i].street, s.pending = None,
           NEW u, u = [t EXCEPT !.blinds = b, !.seat = [t.seat EXCEPT ![i] = s]]
    PROVE  Opened(t, i, s, b, u)
<1>1. t \in Tables /\ t.seat \in [Seats -> SeatStates]
  BY DEF Well, Tables
<1>2. /\ u \in Tables
      /\ u.phase = t.phase /\ u.hand = t.hand /\ u.active = t.active
      /\ u.blinds = b /\ u.settling = t.settling /\ u.due = t.due
      /\ u.reveal = t.reveal /\ u.bet = t.bet /\ u.dealer = t.dealer /\ u.big = t.big
      /\ u.seat[i] = s /\ \A j \in Seats : j # i => u.seat[j] = t.seat[j]
  BY <1>1 DEF Tables
<1>3. \A j \in Seats :
        /\ u.seat[j].user = t.seat[j].user /\ u.seat[j].dealt = t.seat[j].dealt
        /\ u.seat[j].all_in = t.seat[j].all_in /\ u.seat[j].committed = t.seat[j].committed
        /\ u.seat[j].street = t.seat[j].street
        /\ u.seat[j].pending = None \/ u.seat[j].pending = t.seat[j].pending
  BY <1>2
<1>4. Well(u)
  <2>1. \A j \in Seats :
          /\ u.seat[j].street <= u.bet /\ u.seat[j].street <= u.seat[j].committed
          /\ u.dealer = None \/ u.seat[j].user = None => ~u.seat[j].dealt
          /\ u.hand = 0 => u.seat[j].pending = None
          /\ u.seat[j].pending # None =>
                u.seat[j].street + u.seat[j].pending.amount <= u.seat[j].pending.target
    BY <1>2, <1>3 DEF Well
  <2>2. \A j, l \in Seats : j # l /\ u.seat[j].user # None => u.seat[j].user # u.seat[l].user
    BY <1>3 DEF Well
  <2>3. IsFiniteSet(u.due) /\ (u.phase = "PostingBlinds" => u.big \in Seats)
        /\ (u.hand = 0 => u.phase = "Waiting")
    BY <1>2 DEF Well
  <2> QED
    BY <1>2, <2>1, <2>2, <2>3 DEF Well
<1>5. Pot(u) = Pot(t)
  BY <1>3, SamePot
<1>6. Vacant(t) /\ s.user # None => Vacant(u)
  BY <1>2 DEF Vacant
<1>7. ASSUME s.folded = t.seat[i].folded
      PROVE  /\ Active(u) = Active(t) /\ Actionable(u) = Actionable(t)
             /\ Levelled(t) => Levelled(u)
  <2>1. \A j \in Seats : u.seat[j].folded = t.seat[j].folded
    BY <1>2, <1>7
  <2>2. Active(u) = Active(t)
    BY <1>3, <2>1 DEF Active
  <2>3. Actionable(u) = Actionable(t) /\ Actionable(t) \subseteq Seats
    BY <1>3, <2>2 DEF Actionable, Active
  <2>4. Levelled(t) => Levelled(u)
    BY <1>3, <2>3 DEF Levelled
  <2> QED
    BY <2>2, <2>3, <2>4
<1> QED
  BY <1>2, <1>4, <1>5, <1>6, <1>7 DEF Opened

\* What a debit that is answered leaves to the rest of the step.
LEMMA AnsweredIsHandled ==
    ASSUME PokerInv, Whole(table.hand), NEW c \in commits, commits' = commits \ {c}, NEW t,
           t.seat[c.seat].pending = None,
           \A j \in Seats : j # c.seat => t.seat[j].pending = table.seat[j].pending,
           Pot(t) = Pot(table) + (IF c.st = "debited" THEN c.amount ELSE 0), Vacant(t),
           \/ Outcome(t) \/ Stillborn(t)
           \/ Posting(t) /\ t.blinds > 0 /\ t.blinds = Cardinality(commits) - 1
    PROVE  Handled(t, commits')
<1>1. /\ Tracked /\ Present /\ table.hand \in Int /\ Typed
      /\ \A d \in commits : d \in Commits /\ d.seat \in Seats
      /\ (InHand(table) => table.hand # 0) /\ table.hand \in 0 .. MaxHands
  BY Between DEF InHand, PokerInv
<1>2. InHand(table)
  <2> SUFFICES ASSUME ~InHand(table) PROVE FALSE
    OBVIOUS
  <2>1. Idle(table)
    BY Between
  <2> QED
    BY <1>1, <2>1 DEF Tracked, Awaited, Idle, Quiet
<1>3. \A d \in commits' : d \in commits /\ d.seat # c.seat
  BY <1>1 DEF Tracked
<1>4. \A i \in Seats : t.seat[i].pending # None => \E d \in commits' : d.seat = i
  <2> SUFFICES ASSUME NEW i \in Seats, t.seat[i].pending # None PROVE \E d \in commits' : d.seat = i
    OBVIOUS
  <2>1. i # c.seat /\ table.seat[i].pending # None
    OBVIOUS
  <2>2. PICK d \in commits : d.seat = i
    BY <1>1, <2>1 DEF Tracked
  <2> QED
    BY <2>1, <2>2
<1>5. \A d \in commits' : Awaited(t, d) /\ d.amount = t.seat[d.seat].pending.amount
  <2> SUFFICES ASSUME NEW d \in commits' PROVE Awaited(t, d) /\ d.amount = t.seat[d.seat].pending.amount
    OBVIOUS
  <2>1. d \in commits /\ t.seat[d.seat].pending = table.seat[d.seat].pending
    BY <1>1, <1>3
  <2> QED
    BY <1>1, <2>1 DEF Tracked, Awaited
<1>6. IsFiniteSet(commits) /\ commits \in SUBSET Commits
  BY <1>1 DEF Typed
<1>7. Cardinality(commits') = Cardinality(commits) - 1
  BY <1>6, FS_RemoveElement
<1>8. books[table.hand].taken
        = books[table.hand].strayed + Debited(commits', table.hand) + Pot(t)
  <2>1. table.hand > 0 /\ table.hand \in Hands
    BY <1>1, <1>2, PokerAssumption DEF Hands
  <2>2. books[table.hand].taken
          = books[table.hand].strayed + Debited(commits, table.hand) + Pot(table)
    BY <1>1, <1>2, <2>1 DEF Present
  <2>3. Debited(commits, table.hand) = Debited(commits', table.hand) + DebitedBy(c, table.hand)
    BY <1>6, DebitedRemove
  <2>4. DebitedBy(c, table.hand) = IF c.st = "debited" THEN c.amount ELSE 0
    BY <1>1 DEF Tracked, DebitedBy
  <2>5. Debited(commits', table.hand) \in Nat
    <3>1. commits' \in SUBSET Commits /\ IsFiniteSet(commits')
      BY <1>6, FS_RemoveElement
    <3> QED
      BY <3>1, DebitedIsNat
  <2>6. Pot(table) \in Nat /\ books[table.hand].strayed \in Nat /\ c.amount \in Nat
    BY <1>1, <2>1, Between, PotIsSum DEF Commits, Typed, Books
  <2> QED
    BY <2>2, <2>3, <2>4, <2>5, <2>6
<1> QED
  BY <1>2, <1>4, <1>5, <1>7, <1>8 DEF Handled

LEMMA FinishedPosting == \A t : With(t, finish_blind_posting) = finish_blind_posting(t)
<1> TAKE t
<1>1. {finish_blind_posting(y) : y \in {t}} = {finish_blind_posting(t)}
  OBVIOUS
<1> QED
  BY <1>1, OneChoice DEF With

\* A blind that is answered: one fewer is missing, and the last one opens the street.
BlindAnswered(u) == IF u.blinds = 0 THEN finish_blind_posting(u) ELSE u

\* In the middle of a hand, seat i has no other debit and everybody else none on a
\* street.
LEMMA AwaitedFacts ==
    ASSUME PokerInv, Whole(table.hand), NEW c \in commits
    PROVE  /\ c.seat \in Seats /\ table.seat[c.seat].pending # None
           /\ c.amount = table.seat[c.seat].pending.amount /\ c.amount \in Nat \ {0}
           /\ Awaited(table, c)
           /\ ActionPhase(table) \/ table.phase = "PostingBlinds"
           /\ ActionPhase(table) =>
                 /\ Betting(table) /\ c.seat = table.active
                 /\ \A j \in Seats : j # c.seat => table.seat[j].pending = None
           /\ table.phase = "PostingBlinds" =>
                 /\ Posting(table) /\ table.blinds = Cardinality(commits) /\ table.blinds > 0
                 /\ c.seat \in Active(table) /\ table.seat[c.seat].committed = 0
                 /\ table.seat[c.seat].street = 0
                 /\ table.blinds = 1 =>
                       \A j \in Seats : j # c.seat => table.seat[j].pending = None
<1>1. /\ Tracked /\ c \in Commits /\ c.seat \in Seats /\ Typed
      /\ \A d \in commits : d.seat \in Seats
  BY Between DEF PokerInv
<1>2. /\ table.seat[c.seat].pending # None /\ Awaited(table, c)
      /\ c.amount = table.seat[c.seat].pending.amount /\ c.amount \in Nat \ {0}
  BY <1>1 DEF Tracked, Awaited, Commits
<1>3. ActionPhase(table) \/ table.phase = "PostingBlinds"
  BY <1>1, <1>2, Between DEF InHand, Idle, Quiet
<1>4. ASSUME ActionPhase(table)
      PROVE  /\ Betting(table) /\ c.seat = table.active
             /\ \A j \in Seats : j # c.seat => table.seat[j].pending = None
  <2>1. Betting(table)
    BY <1>4, Between
  <2> QED
    BY <1>1, <1>2, <2>1 DEF Betting
<1>5. ASSUME table.phase = "PostingBlinds"
      PROVE  /\ Posting(table) /\ table.blinds = Cardinality(commits) /\ table.blinds > 0
             /\ c.seat \in Active(table) /\ table.seat[c.seat].committed = 0
             /\ table.seat[c.seat].street = 0
             /\ table.blinds = 1 =>
                   \A j \in Seats : j # c.seat => table.seat[j].pending = None
  <2>1. Posting(table)
    BY <1>5, Between
  <2>2. table.blinds = Cardinality(commits) /\ table.blinds > 0
    BY <1>1, <1>5 DEF Tracked
  <2>3. c.seat \in Active(table) /\ table.seat[c.seat].committed = 0 /\ table.seat[c.seat].street = 0
    BY <1>1, <1>2, <2>1 DEF Posting
  <2>4. ASSUME table.blinds = 1, NEW j \in Seats, j # c.seat, table.seat[j].pending # None
        PROVE  FALSE
    <3>1. PICK d \in commits : d.seat = j
      BY <1>1, <2>4 DEF Tracked
    <3>2. IsFiniteSet(commits) /\ Cardinality(commits) = 1
      BY <1>1, <2>2, <2>4 DEF Typed
    <3>3. PICK x : commits = {x}
      BY <3>2, FS_Singleton
    <3> QED
      BY <2>4, <3>1, <3>3
  <2> QED
    BY <2>1, <2>2, <2>3, <2>4
<1> QED
  BY <1>1, <1>2, <1>3, <1>4, <1>5

\* What an answered debit makes of the table.
Answers(c, u) ==
    /\ Well(u) /\ u.hand = table.hand
    /\ Whole(table.hand) =>
          /\ Vacant(u) /\ u.seat[c.seat].pending = None
          /\ \A j \in Seats : j # c.seat => u.seat[j].pending = table.seat[j].pending
          /\ Pot(u) = Pot(table) + (IF c.st = "debited" THEN c.amount ELSE 0)
          /\ \/ Outcome(u) \/ Stillborn(u)
             \/ Posting(u) /\ u.blinds > 0 /\ u.blinds = Cardinality(commits) - 1

\* A blind that is answered, up to the opening of the street.
LEMMA BlindAnswers ==
    ASSUME PokerInv, NEW c \in commits, NEW v, Well(v), v.hand = table.hand, v.hand # 0,
           v.phase = "PostingBlinds", v.blinds = AtLeast(table.blinds - 1, 0),
           Whole(table.hand) =>
              /\ table.phase = "PostingBlinds"
              /\ Posting(v) /\ Vacant(v) /\ v.seat[c.seat].pending = None
              /\ \A j \in Seats : j # c.seat => v.seat[j].pending = table.seat[j].pending
              /\ Pot(v) = Pot(table) + (IF c.st = "debited" THEN c.amount ELSE 0)
    PROVE  Answers(c, BlindAnswered(v))
<1> DEFINE u == BlindAnswered(v)
<1>1. CASE v.blinds = 0
  <2>1. u = finish_blind_posting(v)
    BY <1>1 DEF BlindAnswered
  <2>2. /\ Well(u) /\ Kept(v, u)
        /\ Posting(v) /\ Vacant(v) /\ Quiet(v) => Outcome(u) \/ Stillborn(u)
    BY <2>1, BlindPostingFacts
  <2> HIDE DEF u
  <2>3. ASSUME Whole(table.hand)
        PROVE  /\ Vacant(u) /\ u.seat[c.seat].pending = None
               /\ \A j \in Seats : j # c.seat => u.seat[j].pending = table.seat[j].pending
               /\ Pot(u) = Pot(table) + (IF c.st = "debited" THEN c.amount ELSE 0)
               /\ Outcome(u) \/ Stillborn(u)
    <3>1. table.blinds = Cardinality(commits) /\ table.blinds > 0 /\ c.seat \in Seats
          /\ (table.blinds = 1 => \A j \in Seats : j # c.seat => table.seat[j].pending = None)
      BY <2>3, AwaitedFacts
    <3>2. table.blinds \in Nat
      BY Between DEF Tables
    <3>3. table.blinds = 1
      BY <1>1, <3>1, <3>2 DEF AtLeast
    <3>4. Quiet(v)
      BY <2>3, <3>1, <3>3 DEF Quiet
    <3>5. Outcome(u) \/ Stillborn(u)
      BY <2>2, <2>3, <3>4
    <3>6. Pot(u) = Pot(v)
      BY <2>2, SamePot DEF Kept
    <3>7. \A j \in Seats : u.seat[j].pending = v.seat[j].pending
      BY <2>2 DEF Kept
    <3> QED
      BY <2>3, <3>1, <3>5, <3>6, <3>7 DEF Outcome, Stillborn
  <2> QED
    BY <2>2, <2>3 DEF Answers, Kept, u
<1>2. CASE v.blinds # 0
  <2>1. u = v
    BY <1>2 DEF BlindAnswered
  <2>2. ASSUME Whole(table.hand) PROVE v.blinds > 0 /\ v.blinds = Cardinality(commits) - 1
    <3>1. table.blinds = Cardinality(commits) /\ table.blinds > 0
      BY <2>2, AwaitedFacts
    <3>2. table.blinds \in Nat
      BY Between DEF Tables
    <3> QED
      BY <1>2, <3>1, <3>2 DEF AtLeast
  <2> QED
    BY <2>1, <2>2 DEF Answers
<1> QED
  BY <1>1, <1>2

\* apply_commit_success, on a street and while blinds are posted.
LEMMA LandedAnswers ==
    ASSUME PokerInv, NEW c \in commits, Awaited(table, c), c.st = "debited"
    PROVE  Answers(c, CommitLanded(table, c))
<1> DEFINE i == c.seat
<1> DEFINE v == Placed(table, i)
<1> DEFINE b == AtLeast(table.blinds - 1, 0)
<1> DEFINE w == [v EXCEPT !.blinds = AtLeast(@ - 1, 0)]
<1> DEFINE u == CommitLanded(table, c)
<1>1. /\ Well(table) /\ table \in Tables /\ i \in Seats /\ table.seat[i].pending # None
      /\ table.hand # 0 /\ table.blinds \in Nat
  <2>1. Well(table) /\ table \in Tables /\ i \in Seats /\ table.seat[i].pending # None
    BY Between DEF Awaited
  <2> QED
    BY <2>1 DEF Well, Tables
<1>2. u = CASE table.phase # "PostingBlinds" -> advance_after_action(v, i)
            [] table.phase = "PostingBlinds" /\ w.blinds = 0 -> With(w, finish_blind_posting)
            [] OTHER -> w
  BY DEF CommitLanded, Placed
<1> HIDE DEF v, w, u
<1>3. /\ Well(v)
      /\ v.phase = table.phase /\ v.hand = table.hand /\ v.active = table.active
      /\ v.blinds = table.blinds /\ v.settling = table.settling /\ v.due = table.due
      /\ v.reveal = table.reveal
      /\ \A j \in Seats :
           /\ v.seat[j].user = table.seat[j].user /\ v.seat[j].dealt = table.seat[j].dealt
           /\ v.seat[j].folded = table.seat[j].folded
           /\ j # i => /\ v.seat[j].pending = table.seat[j].pending
                       /\ v.seat[j].committed = table.seat[j].committed
                       /\ v.seat[j].street = table.seat[j].street
      /\ v.seat[i].pending = None
      /\ v.seat[i].committed = table.seat[i].committed + table.seat[i].pending.amount
      /\ v.seat[i].street = table.seat[i].street + table.seat[i].pending.amount
      /\ Active(v) = Active(table) /\ Actionable(v) \subseteq Actionable(table)
      /\ Vacant(table) => Vacant(v)
      /\ Levelled(table) => Levelled(v)
      /\ Pot(v) = Pot(table) + table.seat[i].pending.amount
  <2>1. v = Placed(table, i)
    BY DEF v
  <2> QED
    BY <1>1, <2>1, PlacedFacts
<1>4. CASE table.phase # "PostingBlinds"
  <2>1. u = Advanced(v, i)
    BY <1>2, <1>4, AdvanceAfterAction
  <2>2. /\ Well(u) /\ Kept(v, u)
        /\ (Playing(v) /\ Vacant(v) /\ Levelled(v) /\ Quiet(v) /\ Active(v) # {}) => Outcome(u)
    BY <1>1, <1>3, <2>1, AdvancedFacts
  <2>3. ASSUME Whole(table.hand)
        PROVE  /\ Outcome(u) /\ Vacant(u) /\ u.seat[i].pending = None
               /\ \A j \in Seats : j # i => u.seat[j].pending = table.seat[j].pending
               /\ Pot(u) = Pot(table) + c.amount
    <3>1. /\ Betting(table) /\ i = table.active /\ c.amount = table.seat[i].pending.amount
          /\ \A j \in Seats : j # i => table.seat[j].pending = None
      BY <1>4, <2>3, AwaitedFacts
    <3>2. Playing(v)
      <4>1. table.seat[i].dealt
        BY <3>1 DEF Betting, Actionable, Active
      <4> QED
        BY <1>3, <3>1, <4>1 DEF Betting, Playing, ActionPhase, Even
    <3>3. Quiet(v)
      BY <1>3, <3>1 DEF Quiet
    <3>4. Vacant(v) /\ Levelled(v) /\ Active(v) # {}
      BY <1>3, <2>3, <3>1, Between DEF Betting, Contested
    <3>5. Pot(u) = Pot(v)
      BY <2>2, SamePot DEF Kept
    <3>6. \A j \in Seats : u.seat[j].pending = v.seat[j].pending
      BY <2>2 DEF Kept
    <3> QED
      BY <1>1, <1>3, <2>2, <3>1, <3>2, <3>3, <3>4, <3>5, <3>6 DEF Outcome
  <2>4. u.hand = table.hand
    BY <1>3, <2>2 DEF Kept
  <2> QED
    BY <2>2, <2>3, <2>4 DEF Answers, u
<1>5. CASE table.phase = "PostingBlinds"
  <2>1. u = BlindAnswered(w)
    BY <1>2, <1>5, FinishedPosting DEF BlindAnswered
  <2>2. b \in Nat
    BY <1>1 DEF AtLeast
  <2> HIDE DEF b
  <2>3. v \in Tables /\ v.seat \in [Seats -> SeatStates] /\ v.seat[i] \in SeatStates
    BY <1>1, <1>3 DEF Well, Tables
  <2>4. w = [v EXCEPT !.blinds = b, !.seat = [v.seat EXCEPT ![i] = v.seat[i]]]
    <3>1. w = [v EXCEPT !.blinds = b]
      BY <1>3, <2>3 DEF w, b, Tables
    <3>2. [v.seat EXCEPT ![i] = v.seat[i]] = v.seat
      BY <2>3
    <3>3. [v EXCEPT !.blinds = b, !.seat = v.seat] = [v EXCEPT !.blinds = b]
      BY <2>3 DEF Tables
    <3> QED
      BY <3>1, <3>2, <3>3
  <2> DEFINE s == v.seat[i]
  <2>5. /\ s \in SeatStates /\ s.pending = None /\ s = v.seat[i]
        /\ w = [v EXCEPT !.blinds = b, !.seat = [v.seat EXCEPT ![i] = s]]
    BY <1>3, <2>3, <2>4
  <2> HIDE DEF s
  <2>6. /\ Well(w)
        /\ w.phase = v.phase /\ w.hand = v.hand
        /\ w.blinds = b /\ w.settling = v.settling /\ w.due = v.due /\ w.reveal = v.reveal
        /\ w.seat[i] = s /\ \A j \in Seats : j # i => w.seat[j] = v.seat[j]
        /\ Pot(w) = Pot(v)
        /\ s.folded = v.seat[i].folded => Active(w) = Active(v)
    <3>1. /\ s.user = v.seat[i].user /\ s.dealt = v.seat[i].dealt /\ s.all_in = v.seat[i].all_in
          /\ s.committed = v.seat[i].committed /\ s.street = v.seat[i].street
      BY <2>5
    <3>2. Well(v) /\ i \in Seats
      BY <1>1, <1>3
    <3>4. s \in SeatStates /\ s.pending = None
          /\ w = [v EXCEPT !.blinds = b, !.seat = [v.seat EXCEPT ![i] = s]]
      BY <2>5
    <3>3. Opened(v, i, s, b, w)
      BY <2>2, <3>4, <3>1, <3>2, OpenedFacts
    <3> QED
      BY <3>3 DEF Opened
  <2>7. ASSUME Whole(table.hand)
        PROVE  /\ Posting(w) /\ Vacant(w) /\ w.seat[i].pending = None
               /\ \A j \in Seats : j # i => w.seat[j].pending = table.seat[j].pending
               /\ Pot(w) = Pot(table) + c.amount
    <3>1. /\ Posting(table) /\ i \in Active(table) /\ table.seat[i].committed = 0
          /\ table.seat[i].street = 0 /\ c.amount = table.seat[i].pending.amount
      BY <1>5, <2>7, AwaitedFacts
    <3>2. \A j \in Seats : w.seat[j] = v.seat[j]
      BY <2>5, <2>6
    <3>3. w.seat[i].committed = w.seat[i].street /\ w.seat[i].pending = None
      BY <1>1, <1>3, <3>1, <3>2
    <3>4. Active(w) = Active(table)
      BY <1>3, <2>5, <2>6
    <3>5. \A j \in Seats :
            /\ w.seat[j].committed = w.seat[j].street
            /\ w.seat[j].committed > 0 \/ w.seat[j].pending # None => j \in Active(w)
            /\ w.seat[j].pending # None => w.seat[j].committed = 0
      <4> TAKE j \in Seats
      <4>1. CASE j = i
        BY <3>1, <3>3, <3>4, <4>1
      <4>2. CASE j # i
        <5>1. /\ w.seat[j].committed = table.seat[j].committed
              /\ w.seat[j].street = table.seat[j].street
              /\ w.seat[j].pending = table.seat[j].pending
          BY <1>3, <3>2, <4>2
        <5> QED
          BY <3>1, <3>4, <5>1 DEF Posting
      <4> QED
        BY <4>1, <4>2
    <3>6. Posting(w)
      BY <1>3, <2>6, <3>1, <3>5 DEF Posting, Even
    <3>7. Vacant(w)
      BY <1>3, <2>7, <3>2, Between DEF Vacant
    <3>8. \A j \in Seats : j # i => w.seat[j].pending = table.seat[j].pending
      BY <1>3, <3>2
    <3> QED
      BY <1>3, <2>6, <3>1, <3>3, <3>6, <3>7, <3>8
  <2>8. /\ w.hand = table.hand /\ w.hand # 0 /\ w.phase = "PostingBlinds"
        /\ w.blinds = AtLeast(table.blinds - 1, 0)
    BY <1>1, <1>3, <1>5, <2>6 DEF b
  <2>9. Answers(c, BlindAnswered(w))
    BY <1>5, <2>6, <2>7, <2>8, BlindAnswers
  <2> QED
    BY <2>1, <2>9 DEF u
<1> QED
  BY <1>4, <1>5

\* apply_commit_failure, on a street and while blinds are posted.
LEMMA FailedAnswers ==
    ASSUME PokerInv, NEW c \in commits, Awaited(table, c), c.st # "debited"
    PROVE  Answers(c, CommitFailed(table, c))
<1> DEFINE i == c.seat
<1> DEFINE b == AtLeast(table.blinds - 1, 0)
<1> DEFINE open == [table EXCEPT !.seat[c.seat].pending = None]
<1> DEFINE folded == [open EXCEPT !.seat[c.seat].folded = TRUE, !.blinds = AtLeast(@ - 1, 0)]
<1> DEFINE u == CommitFailed(table, c)
<1>1. /\ Well(table) /\ Even(table) /\ table \in Tables /\ i \in Seats
      /\ table.seat[i].pending # None /\ table.seat[i] \in SeatStates
      /\ table.hand # 0 /\ table.blinds \in Nat
  <2>1. Well(table) /\ Even(table) /\ table \in Tables /\ i \in Seats /\ table.seat[i].pending # None
    BY Between DEF Awaited
  <2> QED
    BY <2>1 DEF Well, Tables
<1>2. u = CASE table.phase # "PostingBlinds" -> open
            [] table.phase = "PostingBlinds" /\ folded.blinds = 0 -> With(folded, finish_blind_posting)
            [] OTHER -> folded
  BY DEF CommitFailed
<1>3. Whole(table.hand) => Vacant(table) /\ table.seat[i].user # None
  BY <1>1, Between, EmptySeatFields DEF Vacant
<1>4. b \in Nat
  BY <1>1 DEF AtLeast
<1>5. CASE table.phase # "PostingBlinds"
  <2> DEFINE s == [table.seat[i] EXCEPT !.pending = None]
  <2>1. open = [table EXCEPT !.blinds = table.blinds, !.seat = [table.seat EXCEPT ![i] = s]]
    BY <1>1 DEF Tables
  <2>2. /\ s \in SeatStates /\ s.pending = None
        /\ s.user = table.seat[i].user /\ s.dealt = table.seat[i].dealt
        /\ s.all_in = table.seat[i].all_in /\ s.folded = table.seat[i].folded
        /\ s.committed = table.seat[i].committed /\ s.street = table.seat[i].street
    BY <1>1 DEF SeatStates
  <2>3. u = open
    BY <1>2, <1>5
  <2> HIDE DEF s, open, u, folded
  <2>4. Opened(table, i, s, table.blinds, u)
    <3> HIDE DEF i
    <3> QED
      BY <1>1, <2>1, <2>2, <2>3, OpenedFacts
  <2>5. /\ Well(u) /\ u.phase = table.phase /\ u.hand = table.hand /\ u.active = table.active
        /\ u.settling = table.settling /\ u.due = table.due /\ u.reveal = table.reveal
        /\ u.seat[i] = s /\ \A j \in Seats : j # i => u.seat[j] = table.seat[j]
        /\ Pot(u) = Pot(table)
        /\ Vacant(table) /\ s.user # None => Vacant(u)
        /\ Active(u) = Active(table) /\ Actionable(u) = Actionable(table)
        /\ Levelled(table) => Levelled(u)
    BY <2>2, <2>4 DEF Opened
  <2>6. ASSUME Whole(table.hand)
        PROVE  /\ Vacant(u) /\ u.seat[c.seat].pending = None
               /\ \A j \in Seats : j # c.seat => u.seat[j].pending = table.seat[j].pending
               /\ Pot(u) = Pot(table) /\ Outcome(u)
    <3>1. /\ Betting(table) /\ \A j \in Seats : j # i => table.seat[j].pending = None
      BY <1>5, <2>6, AwaitedFacts
    <3>2. \A j \in Seats : u.seat[j].committed = table.seat[j].committed
                           /\ u.seat[j].dealt = table.seat[j].dealt
      BY <2>2, <2>5
    <3>3. Playing(u)
      BY <2>5, <3>1, <3>2 DEF Playing, Betting, ActionPhase, Even
    <3>4. \A j \in Seats : u.seat[j].pending = None
      BY <2>2, <2>5, <3>1
    <3>5. Betting(u)
      BY <2>5, <3>1, <3>3, <3>4 DEF Betting, Contested
    <3>6. Vacant(u)
      BY <1>3, <2>2, <2>5, <2>6
    <3> QED
      BY <2>2, <2>5, <3>5, <3>6 DEF Outcome
  <2>7. Pot(table) \in Nat
    BY <1>1, PotIsSum
  <2> QED
    BY <2>5, <2>6, <2>7 DEF Answers, u
<1>6. CASE table.phase = "PostingBlinds"
  <2> DEFINE s == [table.seat[i] EXCEPT !.pending = None, !.folded = TRUE]
  <2>1. folded = [table EXCEPT !.blinds = b, !.seat = [table.seat EXCEPT ![i] = s]]
    <3> HIDE DEF b
    <3>1. folded = [open EXCEPT !.seat[c.seat].folded = TRUE, !.blinds = b]
      BY <1>1 DEF b, Tables
    <3> QED
      BY <1>1, <3>1 DEF Tables
  <2>2. /\ s \in SeatStates /\ s.pending = None
        /\ s.user = table.seat[i].user /\ s.dealt = table.seat[i].dealt
        /\ s.all_in = table.seat[i].all_in
        /\ s.committed = table.seat[i].committed /\ s.street = table.seat[i].street
    BY <1>1 DEF SeatStates
  <2>3. u = BlindAnswered(folded)
    <3> HIDE DEF folded, open
    <3> QED
      BY <1>2, <1>6, FinishedPosting DEF BlindAnswered
  <2> HIDE DEF s, open, u, folded, b
  <2>4. Opened(table, i, s, b, folded)
    <3> HIDE DEF i
    <3> QED
      BY <1>1, <1>4, <2>1, <2>2, OpenedFacts
  <2>5. /\ Well(folded) /\ folded.phase = table.phase /\ folded.hand = table.hand
        /\ folded.blinds = b /\ folded.settling = table.settling
        /\ folded.due = table.due /\ folded.reveal = table.reveal
        /\ folded.seat[i] = s /\ \A j \in Seats : j # i => folded.seat[j] = table.seat[j]
        /\ Pot(folded) = Pot(table)
        /\ Vacant(table) /\ s.user # None => Vacant(folded)
    BY <2>4 DEF Opened
  <2>6. ASSUME Whole(table.hand)
        PROVE  /\ Posting(folded) /\ Vacant(folded) /\ folded.seat[c.seat].pending = None
               /\ \A j \in Seats : j # c.seat => folded.seat[j].pending = table.seat[j].pending
               /\ Pot(folded) = Pot(table)
    <3>1. Posting(table) /\ table.seat[i].committed = 0 /\ table.seat[i].street = 0
      BY <1>6, <2>6, AwaitedFacts
    <3>2. \A j \in Seats :
            /\ folded.seat[j].committed = folded.seat[j].street
            /\ folded.seat[j].committed > 0 \/ folded.seat[j].pending # None => j \in Active(folded)
            /\ folded.seat[j].pending # None => folded.seat[j].committed = 0
      <4> TAKE j \in Seats
      <4>1. CASE j = i
        <5>1. folded.seat[j].committed = 0 /\ folded.seat[j].street = 0 /\ folded.seat[j].pending = None
          BY <2>2, <2>5, <3>1, <4>1
        <5> QED
          BY <5>1
      <4>2. CASE j # i
        <5>1. folded.seat[j] = table.seat[j]
          BY <2>5, <4>2
        <5>2. j \in Active(table) => j \in Active(folded)
          BY <5>1 DEF Active
        <5> QED
          BY <3>1, <5>1, <5>2 DEF Posting
      <4> QED
        BY <4>1, <4>2
    <3>3. Posting(folded)
      BY <2>5, <3>1, <3>2 DEF Posting, Even
    <3>4. Vacant(folded)
      BY <1>3, <2>2, <2>5, <2>6
    <3> QED
      BY <2>2, <2>5, <3>3, <3>4
  <2>7. Pot(table) \in Nat
    BY <1>1, PotIsSum
  <2>8. /\ folded.hand # 0 /\ folded.phase = "PostingBlinds"
        /\ folded.blinds = AtLeast(table.blinds - 1, 0)
    BY <1>1, <1>6, <2>5 DEF b
  <2>9. Answers(c, BlindAnswered(folded))
    BY <1>6, <2>5, <2>6, <2>7, <2>8, BlindAnswers
  <2> QED
    BY <2>3, <2>9 DEF u
<1> QED
  BY <1>5, <1>6

\* The answer to a debit, awaited or not.
LEMMA AnsweredKeeps ==
    ASSUME PokerInv, NEW c \in commits, CommitAnswered(c)
    PROVE  PokerInv' /\ LevelShown
<1> DEFINE t == CASE ~Awaited(table, c) -> table
                  [] Awaited(table, c) /\ c.st = "debited" -> CommitLanded(table, c)
                  [] OTHER -> CommitFailed(table, c)
<1>1. /\ Publish(t) /\ commits' = commits \ {c} /\ oddities' = oddities
      /\ Well(table) /\ Even(table) /\ oddities' \in Nat /\ commits' \subseteq commits
  BY Between DEF CommitAnswered, PokerInv, Typed
<1>2. CASE ~Awaited(table, c)
  <2>1. t = table
    BY <1>2
  <2>2. ~Whole(table.hand)
    BY <1>2, Between DEF Tracked
  <2> HIDE DEF t
  <2> QED
    BY <1>1, <2>1, <2>2, PublishKeeps DEF LevelShown
<1>3. CASE Awaited(table, c)
  <2>1. Answers(c, t)
    <3>1. CASE c.st = "debited"
      <4>1. t = CommitLanded(table, c)
        BY <1>3, <3>1
      <4> QED
        BY <1>3, <3>1, <4>1, LandedAnswers
    <3>2. CASE c.st # "debited"
      <4>1. t = CommitFailed(table, c)
        BY <1>3, <3>2
      <4> QED
        BY <1>3, <3>2, <4>1, FailedAnswers
    <3> QED
      BY <3>1, <3>2
  <2> HIDE DEF t
  <2>2. table.hand # 0
    BY <1>1, <1>3, Between DEF Awaited, Well
  <2>3. Well(t) /\ t.hand = table.hand
    BY <2>1 DEF Answers
  <2>4. ASSUME Whole(table.hand) PROVE Handled(t, commits')
    BY <1>1, <2>1, <2>4, AnsweredIsHandled DEF Answers
  <2> QED
    BY <1>1, <2>2, <2>3, <2>4, PublishKeeps DEF LevelShown
<1> QED
  BY <1>2, <1>3

-----------------------------------------------------------------------------
(* Sitting down, and another balance.                                      *)

\* The table where somebody sat down or has another balance: the hand is the same.
Seated(t, u) ==
    /\ Well(u) /\ u.hand = t.hand /\ u.phase = t.phase /\ u.settling = t.settling
    /\ u.blinds = t.blinds /\ u.active = t.active /\ u.countdown = t.countdown
    /\ u.due = t.due /\ u.reveal = t.reveal
    /\ \A j \in Seats : u.seat[j].pending = t.seat[j].pending
    /\ Pot(u) = Pot(t)
    /\ Vacant(t) => Vacant(u)
    /\ Betting(t) => Betting(u)
    /\ Posting(t) => Posting(u)
    /\ Idle(t) => Idle(u)

\* A new player takes an empty seat, or a seat has other chips behind.
LEMMA SeatedFacts ==
    ASSUME NEW t, Well(t), NEW i \in Seats, NEW s \in SeatStates,
           s.user # None,
           s.user = t.seat[i].user
             \/ (t.seat[i].user = None /\ \A j \in Seats : t.seat[j].user # s.user),
           s.dealt = t.seat[i].dealt, s.folded = t.seat[i].folded, s.all_in = t.seat[i].all_in,
           s.committed = t.seat[i].committed, s.street = t.seat[i].street,
           s.pending = t.seat[i].pending,
           t.seat[i].user = None => ~t.seat[i].dealt,
           NEW u, u = [t EXCEPT !.seat = [t.seat EXCEPT ![i] = s]]
    PROVE  Seated(t, u)
<1>1. t \in Tables /\ t.seat \in [Seats -> SeatStates]
  BY DEF Well, Tables
<1>2. /\ u \in Tables
      /\ u.phase = t.phase /\ u.hand = t.hand /\ u.active = t.active
      /\ u.blinds = t.blinds /\ u.settling = t.settling /\ u.due = t.due
      /\ u.reveal = t.reveal /\ u.bet = t.bet /\ u.dealer = t.dealer /\ u.big = t.big
      /\ u.countdown = t.countdown
      /\ u.seat[i] = s /\ \A j \in Seats : j # i => u.seat[j] = t.seat[j]
  BY <1>1 DEF Tables
<1>3. \A j \in Seats :
        /\ u.seat[j].dealt = t.seat[j].dealt /\ u.seat[j].folded = t.seat[j].folded
        /\ u.seat[j].all_in = t.seat[j].all_in /\ u.seat[j].committed = t.seat[j].committed
        /\ u.seat[j].street = t.seat[j].street /\ u.seat[j].pending = t.seat[j].pending
        /\ u.seat[j].user = t.seat[j].user \/ ~u.seat[j].dealt
        /\ u.seat[j].user = None => u.seat[j] = t.seat[j]
  BY <1>2
<1>4. Well(u)
  <2>1. \A j \in Seats :
          /\ u.seat[j].street <= u.bet /\ u.seat[j].street <= u.seat[j].committed
          /\ u.dealer = None \/ u.seat[j].user = None => ~u.seat[j].dealt
          /\ u.hand = 0 => u.seat[j].pending = None
          /\ u.seat[j].pending # None =>
                u.seat[j].street + u.seat[j].pending.amount <= u.seat[j].pending.target
    BY <1>2, <1>3 DEF Well
  <2>2. ASSUME NEW j \in Seats, NEW l \in Seats, j # l, u.seat[j].user # None
        PROVE  u.seat[j].user # u.seat[l].user
    <3>1. \A a, b \in Seats : a # b /\ t.seat[a].user # None => t.seat[a].user # t.seat[b].user
      BY DEF Well
    <3>2. CASE j = i
      <4>1. u.seat[j].user = s.user /\ u.seat[l].user = t.seat[l].user
        BY <1>2, <2>2, <3>2
      <4> QED
        BY <2>2, <3>1, <3>2, <4>1
    <3>3. CASE j # i /\ l = i
      <4>1. u.seat[l].user = s.user /\ u.seat[j].user = t.seat[j].user
        BY <1>2, <2>2, <3>3
      <4> QED
        BY <2>2, <3>1, <3>3, <4>1
    <3>4. CASE j # i /\ l # i
      <4>1. u.seat[l].user = t.seat[l].user /\ u.seat[j].user = t.seat[j].user
        BY <1>2, <2>2, <3>4
      <4> QED
        BY <2>2, <3>1, <3>4, <4>1
    <3> QED
      BY <3>2, <3>3, <3>4
  <2>3. IsFiniteSet(u.due) /\ (u.phase = "PostingBlinds" => u.big \in Seats)
        /\ (u.hand = 0 => u.phase = "Waiting")
    BY <1>2 DEF Well
  <2> QED
    BY <1>2, <2>1, <2>2, <2>3 DEF Well
<1>5. Pot(u) = Pot(t)
  BY <1>3, SamePot
<1>6. Vacant(t) => Vacant(u)
  BY <1>3 DEF Vacant
<1>7. Active(u) = Active(t)
  <2>1. \A j \in Seats : j \in Active(u) <=> j \in Active(t)
    <3> TAKE j \in Seats
    <3>1. CASE t.seat[j].dealt
      <4>1. u.seat[j].user = t.seat[j].user
        BY <1>3, <3>1
      <4> QED
        BY <1>3, <4>1 DEF Active
    <3>2. CASE ~t.seat[j].dealt
      BY <1>3, <3>2 DEF Active
    <3> QED
      BY <3>1, <3>2
  <2> QED
    BY <2>1 DEF Active
<1>8. Actionable(u) = Actionable(t) /\ Actionable(t) \subseteq Seats
  BY <1>3, <1>7 DEF Actionable, Active
<1>9. Betting(t) => Betting(u)
  <2>1. Levelled(t) => Levelled(u)
    BY <1>3, <1>8 DEF Levelled
  <2>2. Playing(t) => Playing(u)
    BY <1>2, <1>3 DEF Playing, ActionPhase, Even
  <2>3. Contested(t) => Contested(u)
    BY <1>7 DEF Contested
  <2> QED
    BY <1>2, <1>3, <1>8, <2>1, <2>2, <2>3 DEF Betting
<1>10. Posting(t) => Posting(u)
  BY <1>2, <1>3, <1>7 DEF Posting, Even
<1>11. Idle(t) => Idle(u)
  BY <1>2, <1>3 DEF Idle, Quiet, Even
<1> QED
  BY <1>2, <1>3, <1>4, <1>5, <1>6, <1>9, <1>10, <1>11 DEF Seated

\* Only a step from a street to a showdown compares hands.
LEMMA NobodyShows ==
    ASSUME table'.phase # "Showdown" \/ ~ActionPhase(table)
    PROVE  LevelShown
BY DEF LevelShown

\* A step that leaves the hand, its debits and its books alone.
LEMMA SeatedKeeps ==
    ASSUME PokerInv, Well(table'), table'.hand = table.hand, Even(table'),
           commits' = commits, payouts' = payouts, books' = books, oddities' \in Nat,
           Whole(table.hand) =>
              /\ table'.phase = table.phase /\ table'.settling = table.settling
              /\ Vacant(table')
              /\ ~InHand(table) => Idle(table')
              /\ InHand(table) => Seated(table, table')
    PROVE  PokerInv'
<1>1. Typed /\ Past /\ (Whole(table.hand) => Tracked /\ Turned /\ Settling /\ Present)
  BY DEF PokerInv
<1>2. Typed'
  BY <1>1 DEF Typed
<1>3. \A h : Whole(h)' = Whole(h)
  BY DEF Whole
<1>4. (Whole(table.hand))' = Whole(table.hand)
  BY DEF Whole
<1>5. Past'
  BY <1>1, <1>3 DEF Past
<1>6. ASSUME Whole(table.hand) PROVE Tracked' /\ Turned' /\ Settling' /\ Present'
  <2>1. \A c \in commits : c.seat \in Seats
    BY Between
  <2>2. InHand(table') <=> InHand(table)
    BY <1>6 DEF InHand, ActionPhase
  <2>3. CASE InHand(table)
    <3>1. Seated(table, table')
      BY <1>6, <2>3
    <3>2. Tracked'
      BY <1>1, <1>6, <2>1, <3>1 DEF Tracked, Seated, Awaited
    <3>3. Turned'
      <4>1. ActionPhase(table') => ActionPhase(table)
        BY <3>1 DEF Seated, ActionPhase
      <4>2. ActionPhase(table) => table.active \in Seats
        BY <1>6, Between DEF Betting, Actionable, Active
      <4>3. Betting(table') \/ Posting(table') \/ Idle(table')
        BY <1>1, <1>6, <3>1 DEF Turned, Seated
      <4>4. ActionPhase(table') =>
              table'.countdown = IF table'.seat[table'.active].pending = None
                                 THEN table'.active ELSE None
        BY <1>1, <1>6, <3>1, <4>1, <4>2 DEF Turned, Seated
      <4> QED
        BY <1>6, <4>3, <4>4 DEF Turned
    <3>4. Settling'
      BY <1>1, <1>6, <2>2 DEF Settling
    <3>5. Present'
      <4>1. Pot(table') = Pot(table)
        BY <3>1 DEF Seated
      <4> QED
        BY <1>1, <1>6, <2>2, <4>1 DEF Present
    <3> QED
      BY <3>2, <3>3, <3>4, <3>5
  <2>4. CASE ~InHand(table)
    <3>1. Idle(table') /\ Idle(table)
      BY <1>6, <2>4, Between
    <3>2. commits = {}
      BY <1>1, <1>6, <2>1, <3>1 DEF Tracked, Awaited, Idle, Quiet
    <3>3. ~ActionPhase(table') /\ table'.phase # "PostingBlinds"
      BY <2>2, <2>4 DEF InHand
    <3>4. Tracked'
      BY <3>1, <3>2, <3>3 DEF Tracked, Idle, Quiet
    <3>5. Turned'
      BY <1>6, <3>1, <3>3 DEF Turned
    <3>6. Settling'
      BY <1>1, <1>6, <2>2, <2>4 DEF Settling
    <3>7. Present'
      BY <1>1, <1>6, <2>2, <2>4 DEF Present
    <3> QED
      BY <3>4, <3>5, <3>6, <3>7
  <2> QED
    BY <2>3, <2>4
<1> QED
  BY <1>2, <1>4, <1>5, <1>6 DEF PokerInv

\* A step that only seats somebody or corrects a stack.
LEMMA OneSeatKeeps ==
    ASSUME PokerInv, Seated(table, table'), commits' = commits, payouts' = payouts,
           books' = books, oddities' \in Nat
    PROVE  PokerInv' /\ LevelShown
<1>1. Well(table') /\ table'.hand = table.hand /\ table'.phase = table.phase
      /\ table'.settling = table.settling /\ Even(table')
      /\ (Vacant(table) => Vacant(table')) /\ (Idle(table) => Idle(table'))
  BY Between DEF Seated, Even
<1>2. ActionPhase(table) => table'.phase # "Showdown"
  BY <1>1, PhaseFacts DEF ActionPhase
<1> QED
  BY <1>1, <1>2, Between, SeatedKeeps, NobodyShows

\* sit.
LEMMA SitKeeps ==
    ASSUME PokerInv, NEW u \in Players, Sit(u)
    PROVE  PokerInv' /\ LevelShown
<1> DEFINE free == {i \in Seats : table.seat[i].user = None}
<1> DEFINE away == {v \in Players : SeatOf(table, v) = {}}
<1> DEFINE i == Min(free)
<1>1. /\ away # {} /\ u = Min(away) /\ free # {}
      /\ table' = [table EXCEPT !.seat[i].user = u, !.seat[i].stack = StartingStack]
      /\ commits' = commits /\ payouts' = payouts /\ books' = books /\ oddities' = oddities
  BY DEF Sit
<1>2. i \in free
  <2>1. free \subseteq Int /\ IsFiniteSet(free)
    <3>1. free \subseteq Seats /\ Seats \subseteq Nat /\ IsFiniteSet(Seats)
      BY SeatsAreFinite
    <3> HIDE DEF free
    <3>2. IsFiniteSet(free)
      BY <3>1, FS_Subset
    <3>3. Nat \subseteq Int
      OBVIOUS
    <3> QED
      BY <3>1, <3>2, <3>3
  <2> HIDE DEF free
  <2> QED
    BY <1>1, <2>1, Extremes
<1>3. u \in away
  <2>1. away \subseteq Nat
    BY PokerAssumption
  <2>2. Min(away) \in away
    <3> HIDE DEF away
    <3> QED
      BY <1>1, <2>1, LeastNumber
  <2> QED
    BY <1>1, <2>2
<1> HIDE DEF i
<1>4. i \in Seats /\ table.seat[i].user = None /\ \A j \in Seats : table.seat[j].user # u
  BY <1>2, <1>3 DEF SeatOf
<1>5. Well(table) /\ table \in Tables /\ table.seat[i] \in SeatStates /\ u # None
      /\ StartingStack \in Int /\ oddities' \in Nat
  <2>1. Well(table) /\ table \in Tables /\ table.seat[i] \in SeatStates
    BY <1>4, Between DEF Tables
  <2>2. oddities' \in Nat
    BY <1>1 DEF PokerInv, Typed
  <2>3. u # None /\ StartingStack \in Int
    BY PokerAssumption
  <2> QED
    BY <2>1, <2>2, <2>3
<1> DEFINE s == [table.seat[i] EXCEPT !.user = u, !.stack = StartingStack]
<1>6. table' = [table EXCEPT !.seat = [table.seat EXCEPT ![i] = s]]
  BY <1>1, <1>4, <1>5 DEF Tables
<1>7. /\ s \in SeatStates /\ s.user = u /\ s.dealt = table.seat[i].dealt
      /\ s.folded = table.seat[i].folded /\ s.all_in = table.seat[i].all_in
      /\ s.committed = table.seat[i].committed /\ s.street = table.seat[i].street
      /\ s.pending = table.seat[i].pending
  BY <1>5 DEF SeatStates
<1>8. table.seat[i].user = None => ~table.seat[i].dealt
  BY <1>4, <1>5 DEF Well
<1> HIDE DEF s
<1>9. Seated(table, table')
  BY <1>4, <1>5, <1>6, <1>7, <1>8, SeatedFacts
<1> QED
  BY <1>1, <1>5, <1>9, OneSeatKeeps

\* sync_balance.
LEMMA SyncKeeps ==
    ASSUME PokerInv, NEW u \in Players, NEW balance \in 0 .. StartingStack - 1,
           SyncBalance(u, balance)
    PROVE  PokerInv' /\ LevelShown
<1>1. PICK i \in SeatOf(table, u) :
        /\ table' = [table EXCEPT !.seat[i].stack = balance]
        /\ oddities' = oddities + 1
        /\ commits' = commits /\ payouts' = payouts /\ books' = books
  BY DEF SyncBalance, Oddity
<1>2. i \in Seats /\ table.seat[i].user = u
  BY DEF SeatOf
<1>3. Well(table) /\ table \in Tables /\ table.seat[i] \in SeatStates /\ u # None
      /\ balance \in Int /\ oddities' \in Nat
  <2>1. Well(table) /\ table \in Tables /\ table.seat[i] \in SeatStates
    BY <1>2, Between DEF Tables
  <2>2. oddities' \in Nat
    BY <1>1 DEF PokerInv, Typed
  <2>3. u # None /\ balance \in Int
    BY PokerAssumption
  <2> QED
    BY <2>1, <2>2, <2>3
<1> DEFINE s == [table.seat[i] EXCEPT !.stack = balance]
<1>4. table' = [table EXCEPT !.seat = [table.seat EXCEPT ![i] = s]]
  BY <1>1, <1>2, <1>3 DEF Tables
<1>5. /\ s \in SeatStates /\ s.user = u /\ s.dealt = table.seat[i].dealt
      /\ s.folded = table.seat[i].folded /\ s.all_in = table.seat[i].all_in
      /\ s.committed = table.seat[i].committed /\ s.street = table.seat[i].street
      /\ s.pending = table.seat[i].pending
  BY <1>2, <1>3 DEF SeatStates
<1>6. table.seat[i].user = None => ~table.seat[i].dealt
  BY <1>2, <1>3
<1> HIDE DEF s
<1>7. Seated(table, table')
  BY <1>2, <1>3, <1>4, <1>5, <1>6, SeatedFacts
<1> QED
  BY <1>1, <1>3, <1>7, OneSeatKeeps

-----------------------------------------------------------------------------
(* The next hand is dealt.                                                 *)

\* There is always a number that no debit of the seat has.
LEMMA FreshIsNat ==
    ASSUME IsFiniteSet(commits), NEW i
    PROVE  FreshRequest(i) \in Nat
<1> DEFINE n == Cardinality(commits)
<1> DEFINE mine == {d \in commits : d.seat = i}
<1> DEFINE taken == {c.req : c \in mine}
<1> DEFINE free == (1 .. n + 1) \ taken
<1>1. n \in Nat
  BY FS_CardinalityType
<1>2. IsFiniteSet(mine) /\ Cardinality(mine) <= n
  BY FS_Subset
<1>3. IsFiniteSet(taken) /\ Cardinality(taken) <= Cardinality(mine)
  <2> DEFINE g == [c \in mine |-> c.req]
  <2>1. g \in [mine -> taken] /\ \A r \in taken : \E c \in mine : g[c] = r
    OBVIOUS
  <2> HIDE DEF g, taken, mine
  <2>2. g \in Surjection(mine, taken)
    BY <2>1 DEF Surjection
  <2> QED
    BY <1>2, <2>2, FS_Surjection
<1>4. IsFiniteSet(1 .. n + 1) /\ Cardinality(1 .. n + 1) = n + 1
  <2>1. 1 \in Int /\ n + 1 \in Int
    BY <1>1
  <2> HIDE DEF n
  <2> QED
    BY <1>1, <2>1, FS_Interval
<1>5. free # {}
  <2> SUFFICES ASSUME free = {} PROVE FALSE
    OBVIOUS
  <2>1. (1 .. n + 1) \subseteq taken
    OBVIOUS
  <2> HIDE DEF taken, n
  <2>2. Cardinality(1 .. n + 1) <= Cardinality(taken)
    BY <1>3, <2>1, FS_Subset
  <2>3. Cardinality(mine) \in Nat /\ Cardinality(taken) \in Nat
    BY <1>2, <1>3, FS_CardinalityType
  <2> HIDE DEF mine
  <2> QED
    BY <1>1, <1>2, <1>3, <1>4, <2>2, <2>3
<1>6. free \subseteq Nat
  BY <1>1
<1>7. Min(free) \in free
  <2> HIDE DEF free
  <2> QED
    BY <1>5, <1>6, LeastNumber
<1>8. FreshRequest(i) = Min(free)
  BY DEF FreshRequest
<1> HIDE DEF free
<1> QED
  BY <1>6, <1>7, <1>8

\* u is the table t that waits for the debit p of seat i.
Waits(t, i, p, u) ==
    /\ u \in Tables
    /\ u.phase = t.phase /\ u.hand = t.hand /\ u.dealer = t.dealer /\ u.big = t.big
    /\ u.active = t.active /\ u.bet = t.bet /\ u.min_raise = t.min_raise
    /\ u.blinds = t.blinds /\ u.countdown = t.countdown /\ u.settling = t.settling
    /\ u.due = t.due /\ u.reveal = t.reveal
    /\ u.seat[i].pending = p /\ \A j \in Seats : j # i => u.seat[j] = t.seat[j]
    /\ LET s == t.seat[i]
           r == u.seat[i]
       IN  /\ r.user = s.user /\ r.stack = s.stack /\ r.dealt = s.dealt /\ r.folded = s.folded
           /\ r.all_in = s.all_in /\ r.acted = s.acted /\ r.leaving = s.leaving
           /\ r.auto = s.auto /\ r.committed = s.committed /\ r.street = s.street
           /\ r.missed = s.missed

\* set_pending_commit.
LEMMA WaitsFacts ==
    ASSUME NEW t \in Tables, NEW i \in Seats, NEW p \in Pendings, NEW u,
           u = [t EXCEPT !.seat[i].pending = p]
    PROVE  Waits(t, i, p, u)
<1> DEFINE s == [t.seat[i] EXCEPT !.pending = p]
<1>1. t.seat \in [Seats -> SeatStates] /\ t.seat[i] \in SeatStates
  BY DEF Tables
<1>2. s \in SeatStates
  BY <1>1 DEF SeatStates
<1>3. /\ s.pending = p
      /\ s.user = t.seat[i].user /\ s.stack = t.seat[i].stack /\ s.dealt = t.seat[i].dealt
      /\ s.folded = t.seat[i].folded /\ s.all_in = t.seat[i].all_in
      /\ s.acted = t.seat[i].acted /\ s.leaving = t.seat[i].leaving
      /\ s.auto = t.seat[i].auto /\ s.committed = t.seat[i].committed
      /\ s.street = t.seat[i].street /\ s.missed = t.seat[i].missed
  BY <1>1 DEF SeatStates
<1>4. u = [t EXCEPT !.seat = [t.seat EXCEPT ![i] = s]]
  BY <1>1 DEF Tables
<1> HIDE DEF s
<1>5. /\ u \in Tables
      /\ u.phase = t.phase /\ u.hand = t.hand /\ u.dealer = t.dealer /\ u.big = t.big
      /\ u.active = t.active /\ u.bet = t.bet /\ u.min_raise = t.min_raise
      /\ u.blinds = t.blinds /\ u.countdown = t.countdown /\ u.settling = t.settling
      /\ u.due = t.due /\ u.reveal = t.reveal
      /\ u.seat[i] = s /\ \A j \in Seats : j # i => u.seat[j] = t.seat[j]
  BY <1>1, <1>2, <1>4 DEF Tables
<1> QED
  BY <1>3, <1>5 DEF Waits

\* The seats a hand starts from: the two blinds are two of the seats dealt.
LEMMA BlindsFacts ==
    ASSUME NEW k, Well(k), NEW u, ~(Cardinality(Playable(k)) < 2)
    PROVE  LET playable == Playable(k)
               mine == SeatOf(k, u) \intersect playable
               dealer == IF k.dealer # None THEN NextAfter(k.dealer, playable)
                         ELSE IF mine # {} THEN Max(mine) ELSE Min(playable)
               next == NextAfter(dealer, playable)
               small == IF Cardinality(playable) = 2 THEN dealer ELSE next
               big == NextAfter(small, playable)
           IN  /\ dealer \in playable /\ small \in playable /\ big \in playable /\ small # big
<1> DEFINE playable == Playable(k)
<1> DEFINE mine == SeatOf(k, u) \intersect playable
<1> DEFINE dealer == IF k.dealer # None THEN NextAfter(k.dealer, playable)
                     ELSE IF mine # {} THEN Max(mine) ELSE Min(playable)
<1> DEFINE next == NextAfter(dealer, playable)
<1> DEFINE small == IF Cardinality(playable) = 2 THEN dealer ELSE next
<1> DEFINE big == NextAfter(small, playable)
<1>1. playable \subseteq Seats /\ IsFiniteSet(playable) /\ playable \subseteq Int
  <2>1. playable \subseteq Seats /\ Seats \subseteq Nat /\ IsFiniteSet(Seats)
    BY SeatsAreFinite DEF Playable
  <2>2. IsFiniteSet(playable)
    <3> HIDE DEF playable
    <3> QED
      BY <2>1, FS_Subset
  <2>3. Nat \subseteq Int
    OBVIOUS
  <2> QED
    BY <2>1, <2>2, <2>3
<1>2. \A i : playable # {i} /\ playable # {}
  <2> SUFFICES ASSUME NEW i, playable = {i} \/ playable = {} PROVE FALSE
    OBVIOUS
  <2>1. Cardinality(playable) = 1 \/ Cardinality(playable) = 0
    BY FS_Singleton, FS_EmptySet
  <2> QED
    BY <2>1
<1> HIDE DEF playable
<1>3. \A i \in playable : \E j \in playable : j # i
  BY <1>2
<1>4. \A i \in playable : NextAfter(i, playable) \in playable /\ NextAfter(i, playable) # i
  BY <1>1, <1>2, <1>3, NextAfterIsOne
<1>5. dealer \in playable
  <2>1. CASE k.dealer # None
    <3>1. k.dealer \in Seats
      BY <2>1 DEF Well, Tables, SeatOrNone
    <3>2. NextAfter(k.dealer, playable) \in playable
      BY <1>1, <1>2, <3>1, NextAfterIsOne
    <3> QED
      BY <2>1, <3>2
  <2>2. CASE k.dealer = None /\ mine # {}
    <3>1. mine \subseteq playable /\ mine \subseteq Int /\ IsFiniteSet(mine)
      BY <1>1, FS_Subset
    <3>2. Max(mine) \in mine
      <4> HIDE DEF mine
      <4> QED
        BY <2>2, <3>1, Extremes
    <3> QED
      BY <2>2, <3>1, <3>2
  <2>3. CASE k.dealer = None /\ mine = {}
    <3>1. Min(playable) \in playable
      BY <1>1, <1>2, Extremes
    <3> QED
      BY <2>3, <3>1
  <2> QED
    BY <2>1, <2>2, <2>3
<1> HIDE DEF dealer
<1>6. small \in playable
  BY <1>4, <1>5
<1> HIDE DEF small
<1>7. big \in playable /\ big # small
  BY <1>4, <1>6
<1> QED
  BY <1>5, <1>6, <1>7 DEF playable, dealer, small

\* The table of a hand that is dealt, before the blinds are asked for.
DealtTable(k, dealer, big) ==
    [k EXCEPT
       !.seat = [i \in Seats |->
           [k.seat[i] EXCEPT !.dealt = i \in Playable(k), !.folded = FALSE,
              !.all_in = FALSE, !.acted = FALSE, !.leaving = FALSE,
              !.committed = 0, !.street = 0, !.pending = None]],
       !.bet = 0, !.min_raise = BigBlind, !.countdown = None, !.active = None,
       !.dealer = dealer, !.big = big, !.phase = "PostingBlinds",
       !.hand = @ + 1, !.blinds = 2]

\* The fields of the table that is dealt.
LEMMA DealtTableFields ==
    ASSUME NEW k, Well(k), k.hand < MaxHands, NEW dealer \in Seats, NEW big \in Seats,
           NEW t, t = DealtTable(k, dealer, big)
    PROVE  /\ t \in Tables /\ t.phase = "PostingBlinds" /\ t.hand = k.hand + 1 /\ t.hand # 0
           /\ t.dealer = dealer /\ t.big = big /\ t.blinds = 2 /\ t.bet = 0
           /\ t.settling = k.settling /\ t.due = k.due /\ t.reveal = k.reveal
           /\ \A j \in Seats :
                /\ t.seat[j].user = k.seat[j].user /\ t.seat[j].dealt = (j \in Playable(k))
                /\ ~t.seat[j].folded /\ t.seat[j].committed = 0 /\ t.seat[j].street = 0
                /\ t.seat[j].pending = None
                /\ k.seat[j] = EmptySeat => t.seat[j] = EmptySeat
<1>1. /\ k \in Tables /\ k.seat \in [Seats -> SeatStates] /\ k.hand \in 0 .. MaxHands
      /\ MaxHands \in Nat
  BY PokerAssumption DEF Well, Tables
<1>2. k.hand + 1 \in 0 .. MaxHands /\ k.hand + 1 # 0
  BY <1>1
<1> DEFINE n == k.hand + 1
<1> DEFINE d(j) == j \in Playable(k)
<1> DEFINE s(j) == [k.seat[j] EXCEPT !.dealt = d(j), !.folded = FALSE,
              !.all_in = FALSE, !.acted = FALSE, !.leaving = FALSE,
              !.committed = 0, !.street = 0, !.pending = None]
<1> DEFINE seat == [j \in Seats |-> s(j)]
<1>3. t = [k EXCEPT !.seat = seat, !.bet = 0, !.min_raise = BigBlind, !.countdown = None,
                    !.active = None, !.dealer = dealer, !.big = big,
                    !.phase = "PostingBlinds", !.hand = n, !.blinds = 2]
  BY <1>1 DEF DealtTable, Tables
<1>4. ASSUME NEW j \in Seats
      PROVE  /\ s(j) \in SeatStates /\ s(j).user = k.seat[j].user /\ s(j).dealt = d(j)
             /\ s(j).folded = FALSE /\ s(j).committed = 0 /\ s(j).street = 0
             /\ s(j).pending = None
             /\ k.seat[j] = EmptySeat => s(j) = EmptySeat
  <2> DEFINE b == d(j)
  <2> DEFINE r == [k.seat[j] EXCEPT !.dealt = b, !.folded = FALSE,
              !.all_in = FALSE, !.acted = FALSE, !.leaving = FALSE,
              !.committed = 0, !.street = 0, !.pending = None]
  <2>1. b \in BOOLEAN /\ k.seat[j] \in SeatStates /\ (k.seat[j] = EmptySeat => b = FALSE)
    BY <1>1, EmptySeatFields DEF Playable
  <2>2. s(j) = r
    OBVIOUS
  <2> HIDE DEF b, s
  <2>3. r \in SeatStates
    BY <2>1 DEF SeatStates
  <2>4. /\ r.user = k.seat[j].user /\ r.dealt = b
        /\ r.folded = FALSE /\ r.committed = 0 /\ r.street = 0 /\ r.pending = None
        /\ r.stack = k.seat[j].stack /\ r.all_in = FALSE /\ r.acted = FALSE
        /\ r.leaving = FALSE /\ r.auto = k.seat[j].auto /\ r.missed = k.seat[j].missed
    BY <2>1 DEF SeatStates
  <2> HIDE DEF r
  <2>5. ASSUME k.seat[j] = EmptySeat PROVE r = EmptySeat
    <3>1. r.dealt = FALSE
      BY <2>1, <2>4, <2>5
    <3> QED
      BY <2>3, <2>4, <2>5, <3>1, SeatByFields, EmptySeatFields
  <2> QED
    BY <2>2, <2>3, <2>4, <2>5 DEF b
<1>5. seat \in [Seats -> SeatStates] /\ \A j \in Seats : seat[j] = s(j)
  <2> HIDE DEF s
  <2> QED
    BY <1>4
<1> HIDE DEF s, seat, n
<1>6. /\ t \in Tables /\ t.phase = "PostingBlinds" /\ t.hand = n
      /\ t.dealer = dealer /\ t.big = big /\ t.blinds = 2 /\ t.bet = 0
      /\ t.settling = k.settling /\ t.due = k.due /\ t.reveal = k.reveal /\ t.seat = seat
  <2>1. n \in 0 .. MaxHands /\ "PostingBlinds" \in Phases /\ BigBlind \in Nat
        /\ None \in SeatOrNone /\ dealer \in SeatOrNone /\ big \in SeatOrNone
    BY <1>2, PhaseFacts, BigBlindIsNat DEF n, SeatOrNone
  <2>2. t.seat = seat /\ t.bet = 0 /\ t.min_raise = BigBlind /\ t.countdown = None
        /\ t.active = None /\ t.dealer = dealer /\ t.big = big
        /\ t.phase = "PostingBlinds" /\ t.hand = n /\ t.blinds = 2
        /\ t.settling = k.settling /\ t.due = k.due /\ t.reveal = k.reveal
    BY <1>1, <1>3 DEF Tables
  <2> DEFINE half == [k EXCEPT !.seat = seat, !.bet = 0, !.min_raise = BigBlind,
                              !.countdown = None, !.active = None, !.dealer = dealer]
  <2>3. half \in Tables
    BY <1>1, <1>5, <2>1 DEF Tables
  <2>4. t = [half EXCEPT !.big = big, !.phase = "PostingBlinds", !.hand = n, !.blinds = 2]
    BY <1>1, <1>3 DEF Tables
  <2> HIDE DEF half
  <2> DEFINE most == [half EXCEPT !.big = big, !.phase = "PostingBlinds"]
  <2>6. most \in Tables
    BY <2>1, <2>3 DEF Tables
  <2>7. t = [most EXCEPT !.hand = n, !.blinds = 2]
    BY <2>3, <2>4 DEF Tables
  <2> HIDE DEF most
  <2>8. \A m \in 0 .. MaxHands, b \in Nat : [most EXCEPT !.hand = m, !.blinds = b] \in Tables
    BY <2>6 DEF Tables
  <2>9. n \in 0 .. MaxHands /\ 2 \in Nat
    BY <2>1
  <2>5. t \in Tables
    BY <2>7, <2>8, <2>9
  <2> QED
    BY <2>2, <2>5
<1>7. \A j \in Seats :
        /\ t.seat[j].user = k.seat[j].user /\ t.seat[j].dealt = (j \in Playable(k))
        /\ ~t.seat[j].folded /\ t.seat[j].committed = 0 /\ t.seat[j].street = 0
        /\ t.seat[j].pending = None
        /\ k.seat[j] = EmptySeat => t.seat[j] = EmptySeat
  BY <1>4, <1>5, <1>6
<1> QED
  BY <1>2, <1>6, <1>7 DEF n

\* The table u waits for the two blinds of the hand after the table k.
BlindsAsked(k, small, big, p, q, u) ==
    /\ Well(u) /\ u.phase = "PostingBlinds" /\ u.hand = k.hand + 1 /\ u.blinds = 2
    /\ u.settling = k.settling /\ u.due = k.due /\ u.reveal = k.reveal
    /\ u.seat[small].pending = p /\ u.seat[big].pending = q
    /\ \A j \in Seats : j # small /\ j # big => u.seat[j].pending = None
    /\ \A j \in Seats : u.seat[j].committed = 0 /\ u.seat[j].street = 0
    /\ {small, big} \subseteq Active(u)
    /\ Vacant(k) => Vacant(u)
    /\ Pot(u) = 0

\* The table that is dealt, with its two debits, is one that waits for the blinds.
LEMMA BlindsAskedFacts ==
    ASSUME NEW k, Well(k), k.hand < MaxHands, NEW dealer \in Seats,
           NEW small \in Playable(k), NEW big \in Playable(k), small # big,
           NEW p \in Pendings, NEW q \in Pendings, p.amount <= p.target, q.amount <= q.target,
           NEW t, t = DealtTable(k, dealer, big), NEW w, Waits(t, small, p, w),
           NEW u, Waits(w, big, q, u)
    PROVE  BlindsAsked(k, small, big, p, q, u)
<1>1. big \in Seats /\ small \in Seats /\ p # None /\ q # None
  BY PokerAssumption DEF Playable
<1>2. /\ t \in Tables /\ t.phase = "PostingBlinds" /\ t.hand = k.hand + 1 /\ t.hand # 0
      /\ t.dealer = dealer /\ t.big = big /\ t.blinds = 2 /\ t.bet = 0
      /\ t.settling = k.settling /\ t.due = k.due /\ t.reveal = k.reveal
      /\ \A j \in Seats :
           /\ t.seat[j].user = k.seat[j].user /\ t.seat[j].dealt = (j \in Playable(k))
           /\ ~t.seat[j].folded /\ t.seat[j].committed = 0 /\ t.seat[j].street = 0
           /\ t.seat[j].pending = None
           /\ k.seat[j] = EmptySeat => t.seat[j] = EmptySeat
  BY <1>1, DealtTableFields
<1>3. /\ u \in Tables /\ u.phase = "PostingBlinds" /\ u.hand = k.hand + 1 /\ u.hand # 0
      /\ u.dealer = dealer /\ u.big = big /\ u.blinds = 2 /\ u.bet = 0
      /\ u.settling = k.settling /\ u.due = k.due /\ u.reveal = k.reveal
  BY <1>2 DEF Waits
<1>4. /\ u.seat[small].pending = p /\ u.seat[big].pending = q
      /\ \A j \in Seats : j # small /\ j # big => u.seat[j] = t.seat[j]
  BY <1>1 DEF Waits
<1>5. \A j \in Seats :
        /\ u.seat[j].user = t.seat[j].user /\ u.seat[j].dealt = t.seat[j].dealt
        /\ u.seat[j].folded = t.seat[j].folded /\ u.seat[j].committed = t.seat[j].committed
        /\ u.seat[j].street = t.seat[j].street
  <2> TAKE j \in Seats
  <2>1. CASE j = small
    BY <1>1, <2>1 DEF Waits
  <2>2. CASE j = big
    BY <1>1, <2>2 DEF Waits
  <2>3. CASE j # small /\ j # big
    BY <1>4, <2>3
  <2> QED
    BY <2>1, <2>2, <2>3
<1>6. \A j \in Seats : /\ u.seat[j].committed = 0 /\ u.seat[j].street = 0
                       /\ u.seat[j].user = k.seat[j].user /\ ~u.seat[j].folded
                       /\ u.seat[j].dealt = (j \in Playable(k))
  BY <1>2, <1>5
<1>7. Well(u)
  <2>1. ASSUME NEW j \in Seats
        PROVE  /\ u.seat[j].street <= u.bet /\ u.seat[j].street <= u.seat[j].committed
               /\ u.dealer = None \/ u.seat[j].user = None => ~u.seat[j].dealt
               /\ u.hand = 0 => u.seat[j].pending = None
    <3>1. u.dealer # None
      BY <1>3, PokerAssumption
    <3>2. u.seat[j].user = None => j \notin Playable(k)
      BY <1>6 DEF Playable
    <3>3. u.seat[j].user = None => ~u.seat[j].dealt
      BY <1>6, <3>2
    <3>4. u.seat[j].street <= u.bet /\ u.seat[j].street <= u.seat[j].committed
      BY <1>3, <1>6
    <3> QED
      BY <1>3, <3>1, <3>3, <3>4
  <2>2. ASSUME NEW j \in Seats, u.seat[j].pending # None
        PROVE  u.seat[j].street + u.seat[j].pending.amount <= u.seat[j].pending.target
    <3>1. CASE j = small
      BY <1>4, <1>6, <3>1 DEF Pendings
    <3>2. CASE j = big
      BY <1>4, <1>6, <3>2 DEF Pendings
    <3>3. CASE j # small /\ j # big
      BY <1>2, <1>4, <2>2, <3>3
    <3> QED
      BY <3>1, <3>2, <3>3
  <2>3. \A j, l \in Seats : j # l /\ u.seat[j].user # None => u.seat[j].user # u.seat[l].user
    BY <1>6 DEF Well
  <2>4. IsFiniteSet(u.due) /\ u.big \in Seats
    BY <1>1, <1>3 DEF Well
  <2> QED
    BY <1>3, <2>1, <2>2, <2>3, <2>4 DEF Well
<1>8. {small, big} \subseteq Active(u)
  BY <1>1, <1>6 DEF Active, Playable
<1>9. ASSUME Vacant(k) PROVE Vacant(u)
  <2> SUFFICES ASSUME NEW j \in Seats, u.seat[j].user = None PROVE u.seat[j] = EmptySeat
    BY DEF Vacant
  <2>1. j # small /\ j # big
    BY <1>6 DEF Playable
  <2>2. k.seat[j] = EmptySeat
    BY <1>6, <1>9 DEF Vacant
  <2> QED
    BY <1>2, <1>4, <2>1, <2>2
<1>10. Pot(u) = 0
  <2> DEFINE f == Committed(u)
  <2>1. \A j \in Seats : f[j] = 0
    BY <1>6 DEF Committed
  <2>2. Pot(u) = SumFunctionOnSet(f, Seats)
    BY <1>3, PotIsSum
  <2> HIDE DEF f
  <2>3. IsFiniteSet(Seats)
    BY SeatsAreFinite
  <2> QED
    BY <2>1, <2>2, <2>3, SumOfZeros
<1>11. \A j \in Seats : j # small /\ j # big => u.seat[j].pending = None
  BY <1>2, <1>4
<1> QED
  BY <1>3, <1>4, <1>6, <1>7, <1>8, <1>9, <1>10, <1>11 DEF BlindsAsked

LEMMA TwoElements ==
    ASSUME NEW r, NEW s
    PROVE  IsFiniteSet({r, s}) /\ (r # s => Cardinality({r, s}) = 2)
<1>1. IsFiniteSet({r}) /\ Cardinality({r}) = 1
  BY FS_Singleton
<1>2. {r, s} = {r} \cup {s}
  OBVIOUS
<1>3. r # s => s \notin {r}
  OBVIOUS
<1>4. IsFiniteSet({r} \cup {s}) /\ (s \notin {r} => Cardinality({r} \cup {s}) = Cardinality({r}) + 1)
  BY <1>1, FS_AddElement
<1> QED
  BY <1>1, <1>2, <1>3, <1>4

\* The hand starts with the requests of two seats and the table that waits for them.
LEMMA DealtKeeps ==
    ASSUME PokerInv, table.phase \in {"Waiting", "Showdown"}, ~table.settling,
           \A i \in Seats : table.seat[i].pending = None,
           NEW k, Well(k), k.hand = table.hand, k.settling = table.settling,
           k.due = table.due, k.reveal = table.reveal, Vacant(table) => Vacant(k),
           table.hand < MaxHands,
           NEW small \in Seats, NEW big \in Seats, small # big,
           NEW p \in Pendings, NEW q \in Pendings,
           BlindsAsked(k, small, big, p, q, table'),
           NEW r \in Commits, NEW s \in Commits, commits' = commits \cup {r, s},
           r.seat = small, s.seat = big, r.hand = table.hand + 1, s.hand = table.hand + 1,
           r.req = p.req, s.req = q.req, r.amount = p.amount, s.amount = q.amount,
           r.st = "asked", s.st = "asked",
           payouts' = payouts, books' = books, oddities' = oddities
    PROVE  PokerInv' /\ LevelShown
<1>1. /\ Typed /\ Past /\ Well(table) /\ Even(table) /\ table.hand \in 0 .. MaxHands
      /\ MaxHands \in Nat
  BY Between, PokerAssumption DEF PokerInv
<1> DEFINE n == table.hand + 1
<1>2. n \in Hands /\ table.hand < n /\ n > 0
  BY <1>1 DEF Hands
<1>3. /\ Well(table') /\ table'.phase = "PostingBlinds" /\ table'.hand = n /\ table'.blinds = 2
      /\ ~table'.settling /\ Even(table')
      /\ table'.seat[small].pending = p /\ table'.seat[big].pending = q
      /\ \A j \in Seats : j # small /\ j # big => table'.seat[j].pending = None
      /\ \A j \in Seats : table'.seat[j].committed = 0 /\ table'.seat[j].street = 0
      /\ {small, big} \subseteq Active(table')
      /\ Vacant(table) => Vacant(table')
      /\ Pot(table') = 0
  BY <1>1 DEF BlindsAsked, Even
<1>4. ~ActionPhase(table) /\ table.phase # "PostingBlinds" /\ ~InHand(table)
  BY PhaseFacts DEF ActionPhase, InHand
<1> HIDE DEF n
<1>5. r.hand = n /\ s.hand = n
  BY DEF n
<1>6. Typed'
  <2>1. commits' \subseteq Commits /\ IsFiniteSet(commits')
    <3>1. IsFiniteSet({r, s}) /\ IsFiniteSet(commits) /\ commits \subseteq Commits
      BY <1>1, TwoElements DEF Typed
    <3> QED
      BY <3>1, FS_Union
  <2>2. \A c \in commits' : c.hand <= n
    <3> SUFFICES ASSUME NEW c \in commits' PROVE c.hand <= n
      OBVIOUS
    <3>1. CASE c \in commits
      <4>1. c.hand <= table.hand /\ c.hand \in Int /\ table.hand \in Int
        BY <1>1, <3>1, PokerAssumption DEF Typed, Commits, Hands
      <4> QED
        BY <1>2, <4>1 DEF Hands
    <3>2. CASE c \in {r, s}
      BY <1>2, <1>5, <3>2 DEF Hands
    <3> QED
      BY <3>1, <3>2
  <2>3. \A c \in payouts' : c.hand <= n
    <3> SUFFICES ASSUME NEW c \in payouts PROVE c.hand <= n
      OBVIOUS
    <3>1. c.hand <= table.hand /\ c.hand \in Int /\ table.hand \in Int
      BY <1>1, PokerAssumption DEF Typed, Payouts, Hands
    <3> QED
      BY <1>2, <3>1 DEF Hands
  <2>4. \A h \in Hands : h > n => books'[h] = Blank
    <3> SUFFICES ASSUME NEW h \in Hands, h > n PROVE books[h] = Blank
      OBVIOUS
    <3>1. h > table.hand
      BY <1>1, <1>2 DEF Hands
    <3> QED
      BY <1>1, <3>1 DEF Typed
  <2> QED
    BY <1>1, <1>3, <2>1, <2>2, <2>3, <2>4 DEF Typed
<1>7. books[n] = Blank
  BY <1>1, <1>2 DEF Typed
<1>8. ASSUME Whole(table.hand)
      PROVE  /\ commits = {} /\ payouts = {} /\ Vacant(table)
             /\ table.hand > 0 =>
                   /\ books[table.hand].taken = books[table.hand].strayed + books[table.hand].pot
                   /\ books[table.hand].settled = books[table.hand].paid + books[table.hand].unpaid
                   /\ books[table.hand].settled <= books[table.hand].pot
  <2>1. Tracked /\ Settling /\ Present /\ Vacant(table) /\ \A c \in commits : c.seat \in Seats
    BY <1>8, Between
  <2>2. commits = {} /\ payouts = {}
    BY <2>1 DEF Tracked, Awaited, Settling
  <2>3. Debited(commits, table.hand) = 0 /\ Asked(payouts, table.hand) = 0
    BY <2>2, NoneDebited
  <2>4. ASSUME table.hand > 0
        PROVE  /\ books[table.hand].taken = books[table.hand].strayed + books[table.hand].pot
               /\ books[table.hand].settled = books[table.hand].paid + books[table.hand].unpaid
               /\ books[table.hand].settled <= books[table.hand].pot
    <3>1. books[table.hand] \in Books
      BY <1>1, <2>4 DEF Typed, Hands
    <3>2. /\ books[table.hand].taken
               = books[table.hand].strayed + Debited(commits, table.hand) + books[table.hand].pot
          /\ books[table.hand].settled
               = books[table.hand].paid + books[table.hand].unpaid + Asked(payouts, table.hand)
          /\ books[table.hand].settled <= books[table.hand].pot
      BY <1>4, <2>1, <2>4 DEF Present
    <3> QED
      BY <2>3, <3>1, <3>2 DEF Books
  <2> QED
    BY <2>1, <2>2, <2>4
<1>9. Past'
  <2> SUFFICES ASSUME NEW h \in Hands, h < n, Whole(h)
               PROVE  /\ \A c \in commits' : c.hand # h
                      /\ \A c \in payouts : c.hand # h
                      /\ books[h].taken = books[h].strayed + books[h].pot
                      /\ books[h].settled = books[h].paid + books[h].unpaid
                      /\ books[h].settled <= books[h].pot
    BY <1>3 DEF Past, Whole
  <2>1. r.hand # h /\ s.hand # h
    BY <1>2, <1>5 DEF Hands
  <2>2. CASE h < table.hand
    <3>1. \A c \in commits : c.hand # h
      BY <1>1, <2>2 DEF Past
    <3>2. \A c \in commits' : c.hand # h
      BY <2>1, <3>1
    <3> QED
      BY <1>1, <2>2, <3>2 DEF Past
  <2>3. CASE h = table.hand
    <3>1. Whole(table.hand) /\ table.hand > 0
      BY <1>1, <2>3 DEF Hands
    <3> QED
      BY <1>8, <2>1, <2>3, <3>1
  <2>4. h < table.hand \/ h = table.hand
    BY <1>1 DEF Hands, n
  <2> QED
    BY <2>2, <2>3, <2>4
<1>10. Whole(n) => Whole(table.hand)
  <2>1. \A g \in 1 .. table.hand : g \in 1 .. n
    BY <1>1, <1>2 DEF Hands
  <2> QED
    BY <2>1 DEF Whole
<1>11. ASSUME Whole(n) PROVE Tracked' /\ Turned' /\ Settling' /\ Present'
  <2>1. commits' = {r, s} /\ payouts' = {} /\ Vacant(table') /\ r # s
    BY <1>3, <1>8, <1>10, <1>11
  <2>2. Cardinality(commits') = 2 /\ IsFiniteSet(commits')
    <3>1. Cardinality({r, s}) = 2 /\ IsFiniteSet({r, s})
      BY <2>1, TwoElements
    <3> QED
      BY <2>1, <3>1
  <2>3. p # None /\ q # None
    BY PokerAssumption
  <2>4. ~ActionPhase(table') /\ InHand(table')
    BY <1>3, PhaseFacts DEF ActionPhase, InHand
  <2>5. Tracked'
    <3>1. \A j \in Seats : table'.seat[j].pending # None => \E c \in commits' : c.seat = j
      BY <1>3, <2>1
    <3>2. \A c \in commits' : /\ c.hand = table'.hand /\ Awaited(table', c)
                              /\ c.amount = table'.seat[c.seat].pending.amount
      BY <1>3, <1>5, <2>1, <2>3 DEF Awaited
    <3>3. \A c, d \in commits' : c.seat = d.seat => c = d
      BY <2>1
    <3> QED
      BY <1>3, <2>2, <3>1, <3>2, <3>3 DEF Tracked
  <2>6. Posting(table')
    <3>1. \A j \in Seats : table'.seat[j].pending # None => j \in Active(table')
      BY <1>3
    <3> QED
      BY <1>3, <3>1 DEF Posting
  <2>7. Turned'
    BY <2>1, <2>4, <2>6 DEF Turned
  <2>8. Settling'
    BY <1>3, <1>7, <2>1 DEF Settling, Blank
  <2>9. Present'
    <3>1. Asked(payouts', n) = 0
      BY <2>1, NoneDebited
    <3>2. Debited(commits', n) = 0
      <4> DEFINE f == [c \in commits' |-> DebitedBy(c, n)]
      <4>1. Debited(commits', n) = SumFunctionOnSet(f, commits')
        BY DEF Debited, SumFunction
      <4>2. \A c \in commits' : f[c] = 0
        BY <2>1 DEF DebitedBy
      <4>3. IsFiniteSet(commits')
        BY <2>2
      <4> HIDE DEF f
      <4> QED
        BY <4>1, <4>2, <4>3, SumOfZeros
    <3>3. books'[n] = Blank
      BY <1>7
    <3> QED
      BY <1>3, <2>4, <3>1, <3>2, <3>3 DEF Present, Blank
  <2> QED
    BY <2>5, <2>7, <2>8, <2>9
<1>12. (Whole(table.hand))' = Whole(n)
  BY <1>3 DEF Whole
<1>13. PokerInv'
  BY <1>6, <1>9, <1>11, <1>12 DEF PokerInv
<1> QED
  BY <1>4, <1>13, NobodyShows

\* start_hand, with enough players or without.
LEMMA StartKeeps ==
    ASSUME PokerInv, NEW u \in Players, start_hand(u)
    PROVE  PokerInv' /\ LevelShown
<1> DEFINE k == Removed(table, Leaving(table))
<1> DEFINE playable == Playable(k)
<1> DEFINE mine == SeatOf(k, u) \intersect playable
<1> DEFINE dealer == IF k.dealer # None THEN NextAfter(k.dealer, playable)
                     ELSE IF mine # {} THEN Max(mine) ELSE Min(playable)
<1> DEFINE next == NextAfter(dealer, playable)
<1> DEFINE small == IF Cardinality(playable) = 2 THEN dealer ELSE next
<1> DEFINE big == NextAfter(small, playable)
<1> DEFINE blind == [i \in Seats |-> AtMost(IF i = small THEN SmallBlind ELSE BigBlind,
                                            k.seat[i].stack)]
<1> DEFINE t == DealtTable(k, dealer, big)
<1> DEFINE a == blind[small]
<1> DEFINE b == blind[big]
<1> DEFINE w == WithPending(t, small, TRUE, a, a, a)
<1>1. /\ ~table.settling /\ table.phase \in {"Waiting", "Showdown"}
      /\ \A i \in Seats : table.seat[i].pending = None
      /\ table.hand < MaxHands
      /\ payouts' = payouts /\ books' = books /\ oddities' = oddities
  BY DEF start_hand
<1>2. IF Cardinality(playable) < 2
      THEN table' = k /\ commits' = commits
      ELSE /\ table' = WithPending(w, big, TRUE, b, b, b)
           /\ commits' = commits \union {Request(t, small, a), Request(t, big, b)}
  BY DEF start_hand, DealtTable
<1>3. Well(table) /\ Even(table) /\ Typed /\ Leaving(table) \in SUBSET Seats
      /\ oddities' \in Nat
  BY <1>1, Between DEF PokerInv, Leaving, Typed
<1>4. /\ Well(k)
      /\ k.phase = table.phase /\ k.hand = table.hand
      /\ k.settling = table.settling /\ k.due = table.due /\ k.reveal = table.reveal
      /\ Vacant(table) => Vacant(k)
      /\ Quiet(table) => Quiet(k)
  <2> HIDE DEF k
  <2>1. k = Removed(table, Leaving(table))
    BY DEF k
  <2> QED
    BY <1>3, <2>1, RemovedFacts
<1> HIDE DEF k
<1>5. CASE Cardinality(playable) < 2
  <2>1. table' = k /\ commits' = commits
    BY <1>2, <1>5
  <2>2. ~InHand(table) /\ ~ActionPhase(table)
    BY <1>1, PhaseFacts DEF InHand, ActionPhase
  <2>3. Well(table') /\ table'.hand = table.hand /\ Even(table')
        /\ table'.phase = table.phase /\ table'.settling = table.settling
        /\ (Vacant(table) => Vacant(table')) /\ Idle(table')
    BY <1>1, <1>3, <1>4, <2>1 DEF Even, Idle, Quiet
  <2> QED
    BY <1>1, <1>3, <2>1, <2>2, <2>3, Between, SeatedKeeps, NobodyShows
<1>6. CASE ~(Cardinality(playable) < 2)
  <2>1. dealer \in playable /\ small \in playable /\ big \in playable /\ small # big
    BY <1>4, <1>6, BlindsFacts
  <2>2. /\ table' = WithPending(w, big, TRUE, b, b, b)
        /\ commits' = commits \union {Request(t, small, a), Request(t, big, b)}
    BY <1>2, <1>6
  <2>3. \A i \in playable : i \in Seats /\ k.seat[i].stack \in Nat \ {0}
    <3>1. \A i \in Seats : k.seat[i].stack \in Int
      BY <1>4 DEF Well, Tables, SeatStates
    <3> QED
      BY <3>1 DEF Playable
  <2> HIDE DEF playable, dealer, small, big
  <2>4. SmallBlind \in Nat \ {0} /\ BigBlind \in Nat \ {0}
    <3>1. SmallBlind \in Nat \ {0}
      BY PokerAssumption
    <3> QED
      BY <3>1 DEF BigBlind
  <2>5. \A i \in playable : blind[i] \in Nat \ {0}
    BY <2>3, <2>4 DEF AtMost
  <2>6. a \in Nat \ {0} /\ b \in Nat \ {0}
    BY <2>1, <2>5
  <2> DEFINE f == FreshRequest(small)
  <2> DEFINE g == FreshRequest(big)
  <2>7. f \in Nat /\ g \in Nat
    BY <1>3, FreshIsNat DEF Typed
  <2> DEFINE p == [req |-> f, blind |-> TRUE, amount |-> a, target |-> a, raise |-> a]
  <2> DEFINE q == [req |-> g, blind |-> TRUE, amount |-> b, target |-> b, raise |-> b]
  <2> HIDE DEF blind, a, b, f, g
  <2>8. /\ p \in Pendings /\ p.amount = a /\ p.target = a /\ p.req = f
        /\ q \in Pendings /\ q.amount = b /\ q.target = b /\ q.req = g
        /\ a <= a /\ b <= b
    BY <2>6, <2>7 DEF Pendings
  <2>9. w = [t EXCEPT !.seat[small].pending = p] /\ table' = [w EXCEPT !.seat[big].pending = q]
    BY <2>2 DEF WithPending, f, g
  <2> HIDE DEF p, q, t, w
  <2>10. dealer \in Seats /\ small \in Seats /\ big \in Seats
         /\ small \in Playable(k) /\ big \in Playable(k)
    BY <2>1, <2>3 DEF playable
  <2>11. t \in Tables /\ t.hand = table.hand + 1 /\ t = DealtTable(k, dealer, big)
    <3>1. t = DealtTable(k, dealer, big)
      BY DEF t
    <3> QED
      BY <1>1, <1>4, <2>10, <3>1, DealtTableFields
  <2>12. Waits(t, small, p, w)
    BY <2>8, <2>9, <2>10, <2>11, WaitsFacts
  <2>13. Waits(w, big, q, table')
    <3>1. w \in Tables
      BY <2>12 DEF Waits
    <3> QED
      BY <2>8, <2>9, <2>10, <3>1, WaitsFacts
  <2>14. k.hand < MaxHands /\ p.amount <= p.target /\ q.amount <= q.target /\ small # big
    BY <1>1, <1>4, <2>1, <2>8
  <2>15. BlindsAsked(k, small, big, p, q, table')
    BY <1>4, <2>8, <2>10, <2>11, <2>12, <2>13, <2>14, BlindsAskedFacts
  <2> DEFINE r == Request(t, small, a)
  <2> DEFINE s == Request(t, big, b)
  <2>16. table.hand + 1 \in Hands
    <3>1. table.hand \in 0 .. MaxHands /\ MaxHands \in Nat
      BY Between, PokerAssumption
    <3> QED
      BY <1>1, <3>1 DEF Hands
  <2>17. /\ r = [req |-> f, seat |-> small, amount |-> a, hand |-> table.hand + 1, st |-> "asked"]
         /\ s = [req |-> g, seat |-> big, amount |-> b, hand |-> table.hand + 1, st |-> "asked"]
    BY <2>11 DEF Request, f, g
  <2> HIDE DEF r, s
  <2>18. /\ r \in Commits /\ s \in Commits
         /\ r.seat = small /\ s.seat = big /\ r.hand = table.hand + 1 /\ s.hand = table.hand + 1
         /\ r.req = f /\ s.req = g /\ r.amount = a /\ s.amount = b
         /\ r.st = "asked" /\ s.st = "asked"
    BY <2>6, <2>7, <2>10, <2>16, <2>17 DEF Commits
  <2>19. commits' = commits \cup {r, s}
    BY <2>2 DEF r, s
  <2>20. /\ r.req = p.req /\ s.req = q.req /\ r.amount = p.amount /\ s.amount = q.amount
    BY <2>8, <2>18
  <2> QED
    BY <1>1, <1>4, <2>8, <2>10, <2>14, <2>15, <2>18, <2>19, <2>20, DealtKeeps
<1> QED
  BY <1>5, <1>6

-----------------------------------------------------------------------------
(* Chips are asked for.                                                    *)

\* Waiting for a debit changes nothing else of a hand.
LEMMA WaitsIsWell ==
    ASSUME NEW t, Well(t), t.hand # 0, NEW i \in Seats, NEW p \in Pendings,
           t.seat[i].street + p.amount <= p.target, NEW u, Waits(t, i, p, u)
    PROVE  /\ Well(u)
           /\ Active(u) = Active(t) /\ Actionable(u) = Actionable(t)
           /\ Playing(t) => Playing(u)
           /\ Levelled(t) => Levelled(u)
           /\ Contested(t) => Contested(u)
           /\ Vacant(t) /\ t.seat[i].user # None => Vacant(u)
           /\ Pot(u) = Pot(t)
<1>1. /\ u \in Tables
      /\ u.phase = t.phase /\ u.hand = t.hand /\ u.dealer = t.dealer /\ u.big = t.big
      /\ u.bet = t.bet /\ u.settling = t.settling /\ u.due = t.due /\ u.reveal = t.reveal
      /\ u.seat[i].pending = p /\ \A j \in Seats : j # i => u.seat[j] = t.seat[j]
  BY DEF Waits
<1>2. \A j \in Seats :
        /\ u.seat[j].user = t.seat[j].user /\ u.seat[j].dealt = t.seat[j].dealt
        /\ u.seat[j].folded = t.seat[j].folded /\ u.seat[j].all_in = t.seat[j].all_in
        /\ u.seat[j].committed = t.seat[j].committed /\ u.seat[j].street = t.seat[j].street
  BY DEF Waits
<1>3. Well(u)
  <2>1. \A j \in Seats :
          /\ u.seat[j].street <= u.bet /\ u.seat[j].street <= u.seat[j].committed
          /\ u.dealer = None \/ u.seat[j].user = None => ~u.seat[j].dealt
    BY <1>1, <1>2 DEF Well
  <2>2. \A j \in Seats :
          u.seat[j].pending # None =>
             u.seat[j].street + u.seat[j].pending.amount <= u.seat[j].pending.target
    <3> TAKE j \in Seats
    <3>1. CASE j = i
      BY <1>1, <1>2, <3>1
    <3>2. CASE j # i
      BY <1>1, <3>2 DEF Well
    <3> QED
      BY <3>1, <3>2
  <2>3. \A j, k \in Seats : j # k /\ u.seat[j].user # None => u.seat[j].user # u.seat[k].user
    BY <1>2 DEF Well
  <2>4. IsFiniteSet(u.due) /\ (u.phase = "PostingBlinds" => u.big \in Seats) /\ u.hand # 0
    BY <1>1 DEF Well
  <2> QED
    BY <1>1, <2>1, <2>2, <2>3, <2>4 DEF Well
<1>4. Active(u) = Active(t)
  BY <1>2 DEF Active
<1>5. Actionable(u) = Actionable(t) /\ Actionable(t) \subseteq Seats
  BY <1>2, <1>4 DEF Actionable, Active
<1>6. Playing(t) => Playing(u)
  BY <1>1, <1>2 DEF Playing, ActionPhase, Even
<1>7. Levelled(t) => Levelled(u)
  BY <1>2, <1>5 DEF Levelled
<1>8. Contested(t) => Contested(u)
  BY <1>4 DEF Contested
<1>9. Vacant(t) /\ t.seat[i].user # None => Vacant(u)
  BY <1>1, <1>2 DEF Vacant
<1>10. Pot(u) = Pot(t)
  BY <1>2, SamePot
<1> QED
  BY <1>3, <1>4, <1>5, <1>6, <1>7, <1>8, <1>9, <1>10

\* The table of a hand that waits for one debit, and the debit.
LEMMA OneDebitKeeps ==
    ASSUME PokerInv, ActionPhase(table), NEW i \in Seats, table.active = i,
           Well(table'), table'.hand = table.hand, table'.phase = table.phase,
           Even(table'), NEW r \in Commits, commits' = commits \cup {r},
           r.seat = i, r.hand = table.hand, r.st = "asked",
           payouts' = payouts, books' = books, oddities' = oddities,
           Whole(table.hand) =>
              /\ table.seat[i].pending = None
              /\ Vacant(table') /\ Betting(table') /\ table'.active = i /\ table'.countdown = None
              /\ table'.seat[i].pending # None
              /\ table'.seat[i].pending.req = r.req
              /\ table'.seat[i].pending.amount = r.amount
              /\ \A j \in Seats : j # i => table'.seat[j].pending = table.seat[j].pending
              /\ Pot(table') = Pot(table)
    PROVE  PokerInv' /\ LevelShown
<1>1. /\ Typed /\ Past /\ Well(table) /\ table.hand \in 0 .. MaxHands /\ table.hand # 0
      /\ (Whole(table.hand) => Tracked /\ Turned /\ Settling /\ Present)
  BY Between DEF PokerInv
<1>2. table.hand \in Hands /\ table.hand > 0
  BY <1>1, PokerAssumption DEF Hands
<1>3. Typed'
  <2>1. commits' \subseteq Commits /\ IsFiniteSet(commits')
    BY <1>1, FS_AddElement DEF Typed
  <2>2. \A c \in commits' : c.hand <= table.hand
    BY <1>1, <1>2 DEF Typed, Hands
  <2> QED
    BY <1>1, <2>1, <2>2 DEF Typed
<1>4. \A h : Whole(h)' = Whole(h)
  BY DEF Whole
<1>5. (Whole(table.hand))' = Whole(table.hand)
  BY DEF Whole
<1>6. Past'
  <2> SUFFICES ASSUME NEW h \in Hands, h < table.hand, Whole(h)
               PROVE  /\ \A c \in commits' : c.hand # h
                      /\ \A p \in payouts : p.hand # h
                      /\ books[h].taken = books[h].strayed + books[h].pot
                      /\ books[h].settled = books[h].paid + books[h].unpaid
                      /\ books[h].settled <= books[h].pot
    BY <1>4 DEF Past
  <2>1. r.hand # h
    BY <1>2 DEF Hands
  <2> QED
    BY <1>1, <2>1 DEF Past
<1>7. ASSUME Whole(table.hand) PROVE Tracked' /\ Turned' /\ Settling' /\ Present'
  <2>1. Tracked /\ Settling /\ Present /\ Betting(table) /\ InHand(table)
        /\ \A c \in commits : c.seat \in Seats
    BY <1>7, Between
  <2>2. \A j \in Seats : table.seat[j].pending = None
    BY <1>7, <2>1 DEF Betting
  <2>3. commits = {} /\ payouts = {}
    <3>1. commits = {}
      BY <2>1, <2>2 DEF Tracked, Awaited
    <3>2. table.phase # "Showdown"
      BY PhaseFacts DEF ActionPhase
    <3> QED
      BY <2>1, <3>1, <3>2 DEF Settling
  <2>4. commits' = {r} /\ payouts' = {}
    BY <2>3
  <2>5. ActionPhase(table') /\ InHand(table') /\ table'.phase # "PostingBlinds"
    BY PhaseFacts DEF ActionPhase, InHand
  <2>6. Tracked'
    BY <1>7, <2>2, <2>4, <2>5 DEF Tracked, Awaited
  <2>7. Turned'
    BY <1>7 DEF Turned
  <2>8. Settling'
    BY <2>1, <2>4 DEF Settling
  <2>9. Present'
    <3>1. Debited(commits', table.hand) = 0 /\ Debited(commits, table.hand) = 0
      <4>1. Debited(commits, table.hand) = 0
        BY <2>3, NoneDebited
      <4>2. DebitedBy(r, table.hand) = 0
        BY DEF DebitedBy
      <4>3. commits \in SUBSET Commits /\ IsFiniteSet(commits) /\ r \notin commits
        BY <1>1, <2>3 DEF Typed
      <4>4. Debited(commits \cup {r}, table.hand) = Debited(commits, table.hand) + DebitedBy(r, table.hand)
        BY <4>3, DebitedAdd
      <4> QED
        BY <4>1, <4>2, <4>4
    <3> QED
      BY <1>7, <2>1, <2>5, <3>1 DEF Present
  <2> QED
    BY <2>6, <2>7, <2>8, <2>9
<1>8. PokerInv'
  BY <1>3, <1>5, <1>6, <1>7 DEF PokerInv
<1>9. table'.phase # "Showdown"
  BY PhaseFacts DEF ActionPhase
<1> QED
  BY <1>8, <1>9, NobodyShows

\* Chips are asked for by the seat on turn.
LEMMA AskKeeps ==
    ASSUME PokerInv, NEW i \in Seats, ActionPhase(table), table.active = i, CanAct(table, i),
           NEW amount \in Nat \ {0}, NEW target \in Nat, NEW raise \in Nat,
           table.seat[i].street + amount <= target, Asks(i, amount, target, raise)
    PROVE  PokerInv' /\ LevelShown
<1> DEFINE s == [table.seat[i] EXCEPT !.missed = 0]
<1> DEFINE v == Manual(i)
<1> DEFINE f == FreshRequest(i)
<1> DEFINE p == [req |-> f, blind |-> FALSE, amount |-> amount, target |-> target,
                 raise |-> raise]
<1> DEFINE w == WithPending(v, i, FALSE, amount, target, raise)
<1> DEFINE r == Request(table, i, amount)
<1>1. /\ table' = Clocked(w) /\ commits' = commits \cup {r}
      /\ payouts' = payouts /\ books' = books /\ oddities' = oddities
  BY DEF Asks
<1>2. /\ Well(table) /\ Even(table) /\ table \in Tables /\ table.hand # 0
      /\ table.seat[i] \in SeatStates /\ table.hand \in Hands
  <2>1. Well(table) /\ Even(table) /\ table \in Tables /\ table.hand # 0 /\ table.hand \in 0 .. MaxHands
    BY Between
  <2> QED
    BY <2>1, PokerAssumption DEF Tables, Hands
<1>3. f \in Nat
  BY FreshIsNat DEF PokerInv, Typed
<1>4. /\ s \in SeatStates
      /\ s.user = table.seat[i].user /\ s.dealt = table.seat[i].dealt
      /\ s.all_in = table.seat[i].all_in /\ s.folded = table.seat[i].folded
      /\ s.committed = table.seat[i].committed /\ s.pending = table.seat[i].pending
      /\ s.street = table.seat[i].street
  <2>1. 0 \in 0 .. MaxMissedActions
    BY PokerAssumption
  <2> QED
    BY <1>2, <2>1 DEF SeatStates
<1>5. v = Acts(table, i, s, None)
  BY <1>2 DEF Manual, Acts, Tables
<1>6. w = [v EXCEPT !.seat[i].pending = p]
  BY DEF WithPending
<1> HIDE DEF s, v, f
<1>7. p \in Pendings /\ p.amount = amount /\ p.target = target /\ p.req = f /\ p # None
  <2>1. p \in Pendings /\ p.amount = amount /\ p.target = target /\ p.req = f
    BY <1>3 DEF Pendings
  <2> HIDE DEF p
  <2>2. None \notin Pendings
    BY PokerAssumption
  <2> QED
    BY <2>1, <2>2
<1>8. /\ r \in Commits /\ r.seat = i /\ r.hand = table.hand /\ r.st = "asked"
      /\ r.req = f /\ r.amount = amount
  BY <1>2, <1>3 DEF Request, Commits, f
<1> HIDE DEF p, w, r
<1>9. /\ Well(v) /\ Kept(table, v)
      /\ Vacant(table) /\ s.user # None => Vacant(v)
      /\ Playing(table) => Playing(v)
      /\ Active(v) = Active(table) /\ Actionable(v) = Actionable(table)
      /\ Levelled(table) => Levelled(v)
  <2>1. None \in SeatOrNone
    BY DEF SeatOrNone
  <2> QED
    BY <1>2, <1>4, <1>5, <2>1, ActsFacts
<1>10. /\ v \in Tables /\ v.phase = table.phase /\ v.active = i /\ v.hand = table.hand
       /\ v.countdown = None /\ v.due = table.due /\ v.reveal = table.reveal
       /\ v.seat[i] = s /\ \A j \in Seats : j # i => v.seat[j] = table.seat[j]
  <2>1. None \in SeatOrNone
    BY DEF SeatOrNone
  <2> QED
    BY <1>2, <1>4, <1>5, <2>1, ActsFields
<1>11. Waits(v, i, p, w)
  BY <1>6, <1>7, <1>10, WaitsFacts
<1>12. v.seat[i].street + p.amount <= p.target /\ v.hand # 0
  BY <1>2, <1>4, <1>7, <1>10
<1>13. /\ Well(w) /\ Active(w) = Active(v) /\ Actionable(w) = Actionable(v)
       /\ Playing(v) => Playing(w)
       /\ Levelled(v) => Levelled(w)
       /\ Contested(v) => Contested(w)
       /\ Vacant(v) /\ v.seat[i].user # None => Vacant(w)
       /\ Pot(w) = Pot(v)
  BY <1>7, <1>9, <1>11, <1>12, WaitsIsWell
<1>14. /\ w.phase = table.phase /\ w.active = i /\ w.hand = table.hand /\ w.due = table.due
       /\ w.reveal = table.reveal /\ w.seat[i].pending = p
       /\ \A j \in Seats : j # i => w.seat[j] = table.seat[j]
  BY <1>10, <1>11 DEF Waits
<1>15. ~PlaysItself(w)
  BY <1>7, <1>14 DEF PlaysItself, CanAct
<1>16. /\ Well(table') /\ Kept(w, table') /\ SameButClock(w, table')
       /\ Betting(table') =>
             table'.countdown = IF table'.seat[table'.active].pending = None
                                THEN table'.active ELSE None
  BY <1>1, <1>13, <1>15, ClockedFacts
<1>17. /\ table'.hand = table.hand /\ table'.phase = table.phase /\ table'.active = i
       /\ Even(table') /\ table'.seat = w.seat
  BY <1>2, <1>14, <1>16 DEF Kept, SameButClock, Even
<1>18. ASSUME Whole(table.hand)
       PROVE  /\ table.seat[i].pending = None
              /\ Vacant(table') /\ Betting(table') /\ table'.active = i
              /\ table'.countdown = None
              /\ table'.seat[i].pending # None
              /\ table'.seat[i].pending.req = r.req
              /\ table'.seat[i].pending.amount = r.amount
              /\ \A j \in Seats : j # i => table'.seat[j].pending = table.seat[j].pending
              /\ Pot(table') = Pot(table)
  <2>1. table.seat[i].pending = None
    BY DEF CanAct
  <2>2. Betting(table) /\ Vacant(table)
    BY <1>18, Between
  <2>3. \A j \in Seats : j # i => w.seat[j].pending = None
    BY <1>14, <2>2 DEF Betting
  <2>4. Betting(w)
    BY <1>9, <1>13, <1>14, <2>2, <2>3 DEF Betting, Contested
  <2>5. i \in Active(table) /\ table.seat[i].user # None
    BY <2>2 DEF Betting, Actionable, Active
  <2>6. Vacant(w)
    BY <1>4, <1>9, <1>10, <1>13, <2>2, <2>5
  <2>7. Betting(table') /\ Vacant(table')
    BY <1>16, <1>17, <2>4, <2>6, SameTable, SameSeats DEF SameButClock
  <2>8. table'.seat[i].pending = p
    BY <1>14, <1>17
  <2>9. table'.countdown = None
    BY <1>7, <1>16, <1>17, <2>7, <2>8
  <2>10. Pot(table') = Pot(table)
    <3>1. Pot(table') = Pot(w)
      BY <1>16, SamePot DEF Kept
    <3>2. Pot(v) = Pot(table)
      BY <1>9, SamePot DEF Kept
    <3> QED
      BY <1>13, <3>1, <3>2
  <2>11. \A j \in Seats : j # i => table'.seat[j].pending = table.seat[j].pending
    BY <1>14, <1>17
  <2> QED
    BY <1>7, <1>8, <1>17, <2>1, <2>7, <2>8, <2>9, <2>10, <2>11
<1> QED
  BY <1>1, <1>8, <1>16, <1>17, <1>18, OneDebitKeeps

\* call, all_in and bet_or_raise ask for chips, and for no more than their target.
LEMMA CallKeeps ==
    ASSUME PokerInv, NEW u \in Players,
           call(u) \/ all_in(u) \/ \E by \in Raises : bet_or_raise(u, by)
    PROVE  PokerInv' /\ LevelShown
<1>1. Well(table) /\ table \in Tables /\ table.bet \in Nat
      /\ \A i \in Seats : /\ table.seat[i].street \in Nat /\ table.seat[i].stack \in Int
                          /\ table.seat[i].street <= table.bet
  <2>1. Well(table) /\ table \in Tables
    BY Between
  <2> QED
    BY <2>1 DEF Well, Tables, SeatStates
<1>2. CASE call(u)
  <2>1. PICK i \in Seats :
          LET amount == AtMost(ToCall(table, i), table.seat[i].stack) IN
          /\ OnTurn(u, i) /\ ToCall(table, i) # 0 /\ amount > 0
          /\ Asks(i, amount, table.seat[i].street + amount, 0)
    BY <1>2 DEF call
  <2> DEFINE amount == AtMost(ToCall(table, i), table.seat[i].stack)
  <2>2. amount \in Int /\ amount > 0
    BY <1>1, <2>1 DEF AtMost, ToCall
  <2> HIDE DEF amount
  <2>3. /\ amount \in Nat \ {0} /\ table.seat[i].street + amount \in Nat /\ 0 \in Nat
        /\ table.seat[i].street + amount <= table.seat[i].street + amount
    BY <1>1, <2>2
  <2>4. Asks(i, amount, table.seat[i].street + amount, 0)
    BY <2>1 DEF amount
  <2>5. ActionPhase(table) /\ table.active = i /\ CanAct(table, i)
    BY <2>1 DEF OnTurn
  <2> DEFINE target == table.seat[i].street + amount
  <2>6. target \in Nat /\ table.seat[i].street + amount <= target /\ Asks(i, amount, target, 0)
    BY <2>3, <2>4
  <2> HIDE DEF target
  <2> QED
    BY <2>3, <2>5, <2>6, AskKeeps
<1>3. CASE all_in(u)
  <2>1. PICK i \in Seats :
          LET target == table.seat[i].street + table.seat[i].stack IN
          /\ OnTurn(u, i) /\ table.seat[i].stack > 0
          /\ Asks(i, table.seat[i].stack, target, AtLeast(target - table.bet, 0))
    BY <1>3 DEF all_in
  <2> DEFINE amount == table.seat[i].stack
  <2> DEFINE target == table.seat[i].street + table.seat[i].stack
  <2> DEFINE raise == AtLeast(target - table.bet, 0)
  <2>2. Asks(i, amount, target, raise)
    BY <2>1
  <2>3. /\ amount \in Nat \ {0} /\ target \in Nat /\ raise \in Nat
        /\ table.seat[i].street + amount <= target
    BY <1>1, <2>1 DEF AtLeast
  <2>5. ActionPhase(table) /\ table.active = i /\ CanAct(table, i)
    BY <2>1 DEF OnTurn
  <2> HIDE DEF amount, target, raise
  <2> QED
    BY <2>2, <2>3, <2>5, AskKeeps
<1>4. ASSUME NEW by \in Raises, bet_or_raise(u, by) PROVE PokerInv' /\ LevelShown
  <2>1. PICK i \in Seats :
          LET raise_by == AtLeast(AtLeast(by, table.min_raise), BigBlind)
              max_target == table.seat[i].street + table.seat[i].stack
              target == AtMost(table.bet + raise_by, max_target)
          IN  /\ OnTurn(u, i) /\ table.seat[i].stack > 0
              /\ Asks(i, target - table.seat[i].street, target, AtLeast(target - table.bet, 0))
    BY <1>4 DEF bet_or_raise
  <2> DEFINE raise_by == AtLeast(AtLeast(by, table.min_raise), BigBlind)
  <2> DEFINE max_target == table.seat[i].street + table.seat[i].stack
  <2> DEFINE target == AtMost(table.bet + raise_by, max_target)
  <2> DEFINE amount == target - table.seat[i].street
  <2> DEFINE raise == AtLeast(target - table.bet, 0)
  <2>2. Asks(i, amount, target, raise)
    BY <2>1
  <2>3. raise_by \in Nat /\ raise_by > 0
    <3>1. by \in Nat /\ table.min_raise \in Nat /\ BigBlind \in Nat /\ BigBlind > 0
      <4>1. SmallBlind \in Nat \ {0}
        BY PokerAssumption
      <4>2. BigBlind \in Nat /\ BigBlind > 0
        BY <4>1 DEF BigBlind
      <4>3. by \in Nat
        BY PokerAssumption
      <4> QED
        BY <1>1, <4>2, <4>3 DEF Tables
    <3> QED
      BY <3>1 DEF AtLeast
  <2> HIDE DEF raise_by
  <2>4. target \in Nat /\ target > table.seat[i].street
    BY <1>1, <2>1, <2>3 DEF AtMost
  <2> HIDE DEF target
  <2>5. /\ amount \in Nat \ {0} /\ target \in Nat /\ raise \in Nat
        /\ table.seat[i].street + amount <= target
    BY <1>1, <2>4 DEF AtLeast
  <2>6. ActionPhase(table) /\ table.active = i /\ CanAct(table, i)
    BY <2>1 DEF OnTurn
  <2> HIDE DEF amount, raise
  <2> QED
    BY <2>2, <2>5, <2>6, AskKeeps
<1> QED
  BY <1>2, <1>3, <1>4

-----------------------------------------------------------------------------
(* The wallet, and the payouts.                                            *)

LEMMA SamePhaseShowsNothing ==
    ASSUME table'.phase = table.phase
    PROVE  LevelShown
BY PhaseFacts, NobodyShows DEF ActionPhase

\* Hands whose books kept their mark are as whole as they were.
LEMMA WholeAsBefore ==
    ASSUME PokerInv, \A h \in Hands : books'[h].cut = books[h].cut, NEW h \in 0 .. MaxHands
    PROVE  Whole(h)' = Whole(h)
<1>1. \A g \in 1 .. h : g \in Hands
  BY PokerAssumption DEF Hands
<1> QED
  BY <1>1 DEF Whole

\* The wallet answers a debit: what was taken is on its way to the table, or strayed.
LEMMA WalletKeeps ==
    ASSUME PokerInv, NEW c \in commits, c.st = "asked", NEW st \in {"debited", "failed"},
           commits' = Answer(c, st), table' = table, payouts' = payouts, oddities' \in Nat,
           NEW a \in Nat, NEW b \in Nat, a = b + (IF st = "debited" THEN c.amount ELSE 0),
           books' \in [Hands -> Books], \A h \in Hands : h # c.hand => books'[h] = books[h],
           books'[c.hand].taken = books[c.hand].taken + a,
           books'[c.hand].strayed = books[c.hand].strayed + b,
           books'[c.hand].pot = books[c.hand].pot,
           books'[c.hand].paid = books[c.hand].paid,
           books'[c.hand].unpaid = books[c.hand].unpaid,
           books'[c.hand].settled = books[c.hand].settled,
           books'[c.hand].cut = books[c.hand].cut
    PROVE  PokerInv' /\ LevelShown
<1> DEFINE d == [c EXCEPT !.st = st]
<1> DEFINE rest == commits \ {c}
<1>1. /\ Typed /\ Past /\ c \in Commits /\ table.hand \in 0 .. MaxHands
      /\ commits \subseteq Commits /\ IsFiniteSet(commits) /\ c.hand <= table.hand
      /\ MaxHands \in Nat
  BY Between, PokerAssumption DEF PokerInv, Typed
<1>2. /\ d \in Commits /\ d.req = c.req /\ d.seat = c.seat /\ d.amount = c.amount
      /\ d.hand = c.hand /\ d.st = st /\ c.hand \in Hands /\ c.amount \in Nat
  BY <1>1 DEF Commits
<1>3. commits' = rest \cup {d} /\ rest \in SUBSET Commits /\ IsFiniteSet(rest)
  BY <1>1, FS_RemoveElement DEF Answer
<1> HIDE DEF d
<1>4. \A h \in Hands : books'[h].cut = books[h].cut
  <2> TAKE h \in Hands
  <2> QED
    OBVIOUS
<1>5. Typed'
  <2>1. commits' \subseteq Commits /\ IsFiniteSet(commits')
    BY <1>2, <1>3, FS_AddElement
  <2>2. \A e \in commits' : e.hand <= table.hand
    BY <1>1, <1>2, <1>3 DEF Typed
  <2>3. \A h \in Hands : h > table.hand => books'[h] = Blank
    <3> SUFFICES ASSUME NEW h \in Hands, h > table.hand PROVE books'[h] = Blank
      OBVIOUS
    <3>1. h # c.hand
      BY <1>1, <1>2 DEF Hands
    <3> QED
      BY <1>1, <3>1 DEF Typed
  <2> QED
    BY <1>1, <2>1, <2>2, <2>3 DEF Typed
<1>6. Past'
  <2> SUFFICES ASSUME NEW h \in Hands, h < table.hand, Whole(h)'
               PROVE  /\ \A e \in commits' : e.hand # h
                      /\ \A p \in payouts' : p.hand # h
                      /\ books'[h].taken = books'[h].strayed + books'[h].pot
                      /\ books'[h].settled = books'[h].paid + books'[h].unpaid
                      /\ books'[h].settled <= books'[h].pot
    BY DEF Past
  <2>1. Whole(h)
    <3>1. h \in 0 .. MaxHands
      BY <1>1 DEF Hands
    <3> QED
      BY <1>4, <3>1, WholeAsBefore
  <2>2. /\ \A e \in commits : e.hand # h
        /\ \A p \in payouts : p.hand # h
        /\ books[h].taken = books[h].strayed + books[h].pot
        /\ books[h].settled = books[h].paid + books[h].unpaid
        /\ books[h].settled <= books[h].pot
    BY <1>1, <2>1 DEF Past
  <2>3. books'[h] = books[h] /\ d.hand # h
    BY <1>2, <2>2
  <2> QED
    BY <1>3, <2>2, <2>3
<1>7. (Whole(table.hand))' = Whole(table.hand)
  <2>1. Whole(table.hand)' = Whole(table.hand)
    BY <1>1, <1>4, WholeAsBefore
  <2> QED
    BY <2>1 DEF Whole
<1>8. ASSUME Whole(table.hand) PROVE Tracked' /\ Turned' /\ Settling' /\ Present'
  <2>1. Tracked /\ Turned /\ Settling /\ Present
    BY <1>8, Between
  <2>2. c.hand = table.hand /\ Awaited(table, c) /\ c.amount = table.seat[c.seat].pending.amount
        /\ \A e \in commits : e.seat = c.seat => e = c
    BY <2>1 DEF Tracked
  <2>3. d \notin rest
    BY <1>2, <2>2
  <2>4. Cardinality(commits') = Cardinality(commits)
    <3>1. Cardinality(rest) = Cardinality(commits) - 1 /\ Cardinality(commits) \in Nat
      BY <1>1, FS_RemoveElement, FS_CardinalityType
    <3>2. Cardinality(rest \cup {d}) = Cardinality(rest) + 1
      BY <1>3, <2>3, FS_AddElement
    <3> QED
      BY <1>3, <3>1, <3>2
  <2>5. Tracked'
    <3>1. \A i \in Seats : table.seat[i].pending # None => \E e \in commits' : e.seat = i
      <4> SUFFICES ASSUME NEW i \in Seats, table.seat[i].pending # None
                   PROVE  \E e \in commits' : e.seat = i
        OBVIOUS
      <4>1. PICK e \in commits : e.seat = i
        BY <2>1 DEF Tracked
      <4> QED
        BY <1>2, <1>3, <4>1
    <3>2. \A e \in commits' : /\ e.hand = table.hand /\ Awaited(table, e)
                              /\ e.amount = table.seat[e.seat].pending.amount
      BY <1>2, <1>3, <2>1, <2>2 DEF Tracked, Awaited
    <3>3. \A e, f \in commits' : e.seat = f.seat => e = f
      BY <1>2, <1>3, <2>1, <2>2 DEF Tracked
    <3> QED
      BY <2>1, <2>4, <3>1, <3>2, <3>3 DEF Tracked, Awaited
  <2>6. Turned'
    BY <2>1 DEF Turned
  <2>7. Settling'
    BY <2>1, <2>2 DEF Settling
  <2>8. Present'
    <3> SUFFICES ASSUME table.hand > 0
                 PROVE  LET x == books'[table.hand] IN
                        /\ x.taken = x.strayed + Debited(commits', table.hand)
                                       + IF InHand(table) THEN Pot(table) ELSE x.pot
                        /\ x.settled <= x.pot
                        /\ x.settled = x.paid + x.unpaid + Asked(payouts, table.hand)
      BY DEF Present
    <3> DEFINE n == Debited(rest, table.hand)
    <3> DEFINE m == IF InHand(table) THEN Pot(table) ELSE books[table.hand].pot
    <3>1. Debited(commits, table.hand) = n + DebitedBy(c, table.hand)
      BY <1>1, DebitedRemove
    <3>2. Debited(commits', table.hand) = n + DebitedBy(d, table.hand)
      BY <1>2, <1>3, <2>3, DebitedAdd
    <3>3. n \in Nat
      BY <1>3, DebitedIsNat
    <3>4. m \in Nat
      <4>1. books[table.hand].pot \in Nat /\ Pot(table) \in Nat
        <5>1. books[table.hand] \in Books
          BY <1>1, <1>2, <2>2 DEF Typed
        <5>2. Pot(table) \in Nat
          BY Between, PotIsSum
        <5> QED
          BY <5>1, <5>2 DEF Books
      <4> QED
        BY <4>1
    <3> DEFINE taken == books[table.hand].taken
    <3> DEFINE strayed == books[table.hand].strayed
    <3>5. taken \in Nat /\ strayed \in Nat
      <4>1. books[table.hand] \in Books
        BY <1>1, <1>2, <2>2 DEF Typed
      <4> QED
        BY <4>1 DEF Books
    <3>6. taken = strayed + Debited(commits, table.hand) + m
      BY <2>1 DEF Present
    <3>7. /\ books'[table.hand].taken = taken + a /\ books'[table.hand].strayed = strayed + b
          /\ books'[table.hand].pot = books[table.hand].pot
      BY <2>2
    <3>8. DebitedBy(c, table.hand) = 0
      BY DEF DebitedBy
    <3>9. DebitedBy(d, table.hand) = IF st = "debited" THEN c.amount ELSE 0
      BY <1>2, <2>2 DEF DebitedBy
    <3> HIDE DEF n, m, taken, strayed
    <3>10. taken + a = strayed + b + Debited(commits', table.hand) + m
      <4>1. DebitedBy(d, table.hand) \in Nat /\ a = b + DebitedBy(d, table.hand)
        BY <1>2, <3>9
      <4> QED
        BY <3>1, <3>2, <3>3, <3>4, <3>5, <3>6, <3>8, <4>1
    <3>11. /\ books[table.hand].settled <= books[table.hand].pot
           /\ books[table.hand].settled
                = books[table.hand].paid + books[table.hand].unpaid + Asked(payouts, table.hand)
      BY <2>1 DEF Present
    <3>12. m = IF InHand(table) THEN Pot(table) ELSE books'[table.hand].pot
      BY <3>7 DEF m
    <3> QED
      BY <2>2, <3>7, <3>10, <3>11, <3>12
  <2> QED
    BY <2>5, <2>6, <2>7, <2>8
<1>9. PokerInv'
  BY <1>5, <1>6, <1>7, <1>8 DEF PokerInv
<1> QED
  BY <1>9, SamePhaseShowsNothing

\* apply_move, with its answer or without.
LEMMA DebitKeeps ==
    ASSUME PokerInv, NEW c \in commits, Debit(c) \/ Refuse(c)
    PROVE  PokerInv' /\ LevelShown
<1>1. /\ c.st = "asked" /\ table' = table /\ payouts' = payouts
  BY DEF Debit, Refuse
<1>2. /\ books \in [Hands -> Books] /\ c.hand \in Hands /\ c.amount \in Nat /\ oddities \in Nat
      /\ books[c.hand] \in Books
  BY DEF PokerInv, Typed, Commits
<1>3. oddities' \in Nat
  BY <1>2 DEF Debit, Refuse, Oddity
<1>4. CASE /\ commits' = Answer(c, "debited")
           /\ books' = [books EXCEPT ![c.hand].taken = @ + c.amount]
  <2> DEFINE x == [books[c.hand] EXCEPT !.taken = @ + c.amount]
  <2>1. /\ x \in Books /\ x.taken = books[c.hand].taken + c.amount
        /\ x.strayed = books[c.hand].strayed /\ x.pot = books[c.hand].pot
        /\ x.paid = books[c.hand].paid /\ x.unpaid = books[c.hand].unpaid
        /\ x.settled = books[c.hand].settled /\ x.cut = books[c.hand].cut
        /\ books[c.hand].strayed = books[c.hand].strayed + 0
    BY <1>2 DEF Books
  <2>2. books' = [books EXCEPT ![c.hand] = x]
    BY <1>2, <1>4
  <2> HIDE DEF x
  <2>3. /\ books' \in [Hands -> Books] /\ books'[c.hand] = x
        /\ \A h \in Hands : h # c.hand => books'[h] = books[h]
    BY <1>2, <2>1, <2>2
  <2>4. 0 \in Nat /\ c.amount = 0 + (IF "debited" = "debited" THEN c.amount ELSE 0)
    BY <1>2
  <2> QED
    BY <1>1, <1>2, <1>3, <1>4, <2>1, <2>3, <2>4, WalletKeeps
<1>5. CASE /\ commits' = Answer(c, "failed")
           /\ books' = [books EXCEPT ![c.hand].taken = @ + c.amount,
                                     ![c.hand].strayed = @ + c.amount]
  <2> DEFINE x == [books[c.hand] EXCEPT !.taken = @ + c.amount, !.strayed = @ + c.amount]
  <2>1. /\ x \in Books /\ x.taken = books[c.hand].taken + c.amount
        /\ x.strayed = books[c.hand].strayed + c.amount /\ x.pot = books[c.hand].pot
        /\ x.paid = books[c.hand].paid /\ x.unpaid = books[c.hand].unpaid
        /\ x.settled = books[c.hand].settled /\ x.cut = books[c.hand].cut
    <3> DEFINE n == books[c.hand].taken + c.amount
    <3> DEFINE m == books[c.hand].strayed + c.amount
    <3>1. n \in Nat /\ m \in Nat
      BY <1>2 DEF Books
    <3>2. x = [books[c.hand] EXCEPT !.taken = n, !.strayed = m]
      BY <1>2 DEF Books
    <3> HIDE DEF n, m, x
    <3>3. /\ x \in Books /\ x.taken = n /\ x.strayed = m /\ x.pot = books[c.hand].pot
          /\ x.paid = books[c.hand].paid /\ x.unpaid = books[c.hand].unpaid
          /\ x.settled = books[c.hand].settled /\ x.cut = books[c.hand].cut
      BY <1>2, <3>1, <3>2 DEF Books
    <3> QED
      BY <3>3 DEF n, m
  <2>2. books' = [books EXCEPT ![c.hand] = x]
    BY <1>2, <1>5
  <2> HIDE DEF x
  <2>3. /\ books' \in [Hands -> Books] /\ books'[c.hand] = x
        /\ \A h \in Hands : h # c.hand => books'[h] = books[h]
    BY <1>2, <2>1, <2>2
  <2>4. c.amount = c.amount + (IF "failed" = "debited" THEN c.amount ELSE 0)
    BY <1>2
  <2>5. /\ books'[c.hand].taken = books[c.hand].taken + c.amount
        /\ books'[c.hand].strayed = books[c.hand].strayed + c.amount
        /\ books'[c.hand].pot = books[c.hand].pot
        /\ books'[c.hand].paid = books[c.hand].paid
        /\ books'[c.hand].unpaid = books[c.hand].unpaid
        /\ books'[c.hand].settled = books[c.hand].settled
        /\ books'[c.hand].cut = books[c.hand].cut
    BY <2>1, <2>3
  <2>6. "failed" \in {"debited", "failed"} /\ c.amount \in Nat /\ commits' = Answer(c, "failed")
        /\ books' \in [Hands -> Books] /\ \A h \in Hands : h # c.hand => books'[h] = books[h]
    BY <1>2, <1>5, <2>3
  <2> QED
    BY <1>1, <1>3, <2>4, <2>5, <2>6, WalletKeeps
<1>6. CASE commits' = Answer(c, "failed") /\ books' = books
  <2>1. 0 \in Nat /\ 0 = 0 + (IF "failed" = "debited" THEN c.amount ELSE 0)
        /\ books[c.hand].taken = books[c.hand].taken + 0
        /\ books[c.hand].strayed = books[c.hand].strayed + 0
    BY <1>2 DEF Books
  <2> QED
    BY <1>1, <1>2, <1>3, <1>6, <2>1, WalletKeeps
<1> QED
  BY <1>4, <1>5, <1>6 DEF Debit, Refuse

\* Some of the settlements of a payout fail: the two parts are the whole.
LEMMA DuesAddUp ==
    ASSUME NEW due \in SUBSET Dues, IsFiniteSet(due), NEW failing \in SUBSET due
    PROVE  /\ Sum(due) = Sum(due \ failing) + Sum(failing)
           /\ Sum(due \ failing) \in Nat /\ Sum(failing) \in Nat
<1> DEFINE f == [s \in due |-> s.credit]
<1> DEFINE kept == due \ failing
<1>1. \A s \in due : f[s] = s.credit /\ f[s] \in Int
  BY DEF Dues
<1>2. IsFiniteSet(failing) /\ IsFiniteSet(kept)
  BY FS_Subset
<1>3. Sum(due) = SumFunctionOnSet(f, due)
  BY DEF Sum, SumFunction
<1> HIDE DEF f
<1>4. Sum(failing) = SumFunctionOnSet(f, failing)
  <2> DEFINE g == [s \in failing |-> s.credit]
  <2>1. Sum(failing) = SumFunctionOnSet(g, failing)
    BY DEF Sum, SumFunction
  <2>2. \A s \in failing : f[s] \in Int /\ f[s] = g[s]
    BY <1>1
  <2> HIDE DEF g
  <2> QED
    BY <1>2, <2>1, <2>2, SumSame
<1>5. Sum(kept) = SumFunctionOnSet(f, kept)
  <2> DEFINE g == [s \in kept |-> s.credit]
  <2>1. Sum(kept) = SumFunctionOnSet(g, kept)
    BY DEF Sum, SumFunction
  <2>2. \A s \in kept : f[s] \in Int /\ f[s] = g[s]
    BY <1>1
  <2> HIDE DEF g, kept
  <2> QED
    BY <1>2, <2>1, <2>2, SumSame
<1>6. SumFunctionOnSet(f, due) = SumFunctionOnSet(f, failing) + SumFunctionOnSet(f, kept)
  BY <1>1, SumOfSplit
<1>7. Sum(failing) \in Nat /\ Sum(kept) \in Nat
  <2>1. failing \in SUBSET Dues /\ kept \in SUBSET Dues
    OBVIOUS
  <2> HIDE DEF kept
  <2> QED
    BY <1>2, <2>1, SumOfDues
<1> HIDE DEF kept
<1>8. Sum(due) = Sum(kept) + Sum(failing)
  BY <1>3, <1>4, <1>5, <1>6, <1>7
<1> QED
  BY <1>7, <1>8 DEF kept

\* The task pays some of the settlements: the others are reported as failed.
LEMMA PersistKeeps ==
    ASSUME PokerInv, NEW p \in payouts, Persist(p)
    PROVE  PokerInv' /\ LevelShown
<1>1. PICK failing \in SUBSET p.due :
        /\ p.st = "asked"
        /\ oddities' = oddities + Cardinality(failing)
        /\ payouts' = (payouts \ {p}) \union
                        {[p EXCEPT !.st = IF failing = {} THEN "done" ELSE "failed"]}
        /\ books' = [books EXCEPT ![p.hand].paid = @ + Sum(p.due \ failing),
                                  ![p.hand].unpaid = @ + Sum(failing)]
        /\ table' = table /\ commits' = commits
  BY DEF Persist
<1> DEFINE st == IF failing = {} THEN "done" ELSE "failed"
<1> DEFINE q == [p EXCEPT !.st = st]
<1> DEFINE n == Sum(p.due \ failing)
<1> DEFINE m == Sum(failing)
<1>2. /\ Typed /\ Past /\ table.hand \in 0 .. MaxHands /\ MaxHands \in Nat
      /\ p \in Payouts /\ IsFiniteSet(p.due) /\ IsFiniteSet(payouts) /\ payouts \subseteq Payouts
      /\ p.hand <= table.hand
  BY Between, PokerAssumption DEF PokerInv, Typed
<1>3. /\ p.hand \in Hands /\ p.due \in SUBSET Dues
      /\ q \in Payouts /\ q.hand = p.hand /\ q.due = p.due /\ q.st # "asked"
  BY <1>2 DEF Payouts
<1>4. n \in Nat /\ m \in Nat /\ Sum(p.due) = n + m
  <2>1. /\ Sum(p.due) = Sum(p.due \ failing) + Sum(failing)
        /\ Sum(p.due \ failing) \in Nat /\ Sum(failing) \in Nat
    BY <1>2, <1>3, DuesAddUp
  <2> QED
    BY <2>1
<1>5. payouts' = (payouts \ {p}) \cup {q}
  BY <1>1
<1> HIDE DEF st, q
<1> DEFINE x == books'[p.hand]
<1>6. /\ books' \in [Hands -> Books] /\ \A h \in Hands : h # p.hand => books'[h] = books[h]
      /\ x.paid = books[p.hand].paid + n /\ x.unpaid = books[p.hand].unpaid + m
      /\ x.taken = books[p.hand].taken /\ x.strayed = books[p.hand].strayed
      /\ x.pot = books[p.hand].pot /\ x.settled = books[p.hand].settled
      /\ x.cut = books[p.hand].cut
  <2> DEFINE k == books[p.hand].paid + n
  <2> DEFINE l == books[p.hand].unpaid + m
  <2> DEFINE y == [books[p.hand] EXCEPT !.paid = k, !.unpaid = l]
  <2>1. books \in [Hands -> Books] /\ books[p.hand] \in Books
    BY <1>2, <1>3 DEF Typed
  <2>2. k \in Nat /\ l \in Nat
    BY <1>4, <2>1 DEF Books
  <2> HIDE DEF n, m
  <2>3. books' = [books EXCEPT ![p.hand] = y]
    <3>1. books' = [books EXCEPT ![p.hand].paid = @ + n, ![p.hand].unpaid = @ + m]
      BY <1>1 DEF n, m
    <3>2. y = [[books[p.hand] EXCEPT !.paid = @ + n] EXCEPT !.unpaid = @ + m]
      BY <2>1 DEF Books
    <3> HIDE DEF y
    <3> QED
      BY <1>3, <2>1, <3>1, <3>2
  <2> HIDE DEF k, l
  <2>4. /\ y \in Books /\ y.paid = k /\ y.unpaid = l
        /\ y.taken = books[p.hand].taken /\ y.strayed = books[p.hand].strayed
        /\ y.pot = books[p.hand].pot /\ y.settled = books[p.hand].settled
        /\ y.cut = books[p.hand].cut
    BY <2>1, <2>2 DEF Books
  <2> HIDE DEF y
  <2>5. /\ books' \in [Hands -> Books] /\ books'[p.hand] = y
        /\ \A h \in Hands : h # p.hand => books'[h] = books[h]
    BY <1>3, <2>1, <2>3, <2>4
  <2> QED
    BY <2>4, <2>5 DEF k, l
<1> HIDE DEF n, m, x
<1>7. \A h \in Hands : books'[h].cut = books[h].cut
  BY <1>6 DEF x
<1>8. Typed'
  <2>1. payouts' \subseteq Payouts /\ IsFiniteSet(payouts')
    BY <1>2, <1>3, <1>5, FS_RemoveElement, FS_AddElement
  <2>2. \A r \in payouts' : IsFiniteSet(r.due) /\ r.hand <= table.hand
    BY <1>2, <1>3, <1>5 DEF Typed
  <2>3. \A h \in Hands : h > table.hand => books'[h] = Blank
    <3> SUFFICES ASSUME NEW h \in Hands, h > table.hand PROVE books'[h] = Blank
      OBVIOUS
    <3>1. h # p.hand
      BY <1>2, <1>3 DEF Hands
    <3> QED
      BY <1>2, <1>6, <3>1 DEF Typed
  <2>4. oddities' \in Nat
    <3>1. IsFiniteSet(failing)
      BY <1>2, FS_Subset
    <3>2. Cardinality(failing) \in Nat
      BY <3>1, FS_CardinalityType
    <3> QED
      BY <1>1, <1>2, <3>2 DEF Typed
  <2> QED
    BY <1>1, <1>2, <1>6, <2>1, <2>2, <2>3, <2>4 DEF Typed
<1>9. Past'
  <2> SUFFICES ASSUME NEW h \in Hands, h < table.hand, Whole(h)'
               PROVE  /\ \A e \in commits : e.hand # h
                      /\ \A r \in payouts' : r.hand # h
                      /\ books'[h].taken = books'[h].strayed + books'[h].pot
                      /\ books'[h].settled = books'[h].paid + books'[h].unpaid
                      /\ books'[h].settled <= books'[h].pot
    BY <1>1 DEF Past
  <2>1. Whole(h)
    <3>1. h \in 0 .. MaxHands
      BY <1>2 DEF Hands
    <3> QED
      BY <1>7, <3>1, WholeAsBefore
  <2>2. /\ \A e \in commits : e.hand # h
        /\ \A r \in payouts : r.hand # h
        /\ books[h].taken = books[h].strayed + books[h].pot
        /\ books[h].settled = books[h].paid + books[h].unpaid
        /\ books[h].settled <= books[h].pot
    BY <1>2, <2>1 DEF Past
  <2>3. books'[h] = books[h] /\ q.hand # h
    BY <1>3, <1>6, <2>2
  <2> QED
    BY <1>5, <2>2, <2>3
<1>10. (Whole(table.hand))' = Whole(table.hand)
  <2>1. \A g \in 1 .. table.hand : g \in Hands
    BY <1>2 DEF Hands
  <2> QED
    BY <1>1, <1>7, <2>1 DEF Whole
<1>11. ASSUME Whole(table.hand) PROVE Tracked' /\ Turned' /\ Settling' /\ Present'
  <2>1. Tracked /\ Turned /\ Settling /\ Present
    BY <1>11, Between
  <2>2. /\ p.hand = table.hand /\ table.settling /\ table.phase = "Showdown"
        /\ payouts = {p} /\ ~InHand(table)
    <3>1. p.hand = table.hand /\ table.settling /\ table.phase = "Showdown" /\ payouts = {p}
      BY <2>1 DEF Settling
    <3> QED
      BY <3>1, PhaseFacts DEF InHand, ActionPhase
  <2>3. payouts' = {q}
    BY <1>5, <2>2
  <2>4. Tracked'
    BY <1>1, <2>1 DEF Tracked, Awaited
  <2>5. Turned'
    BY <1>1, <2>1 DEF Turned
  <2>6. Settling'
    BY <1>1, <1>3, <2>2, <2>3 DEF Settling
  <2>7. Present'
    <3> SUFFICES ASSUME table.hand > 0
                 PROVE  /\ x.taken = x.strayed + Debited(commits, table.hand) + x.pot
                        /\ x.settled <= x.pot
                        /\ x.settled = x.paid + x.unpaid + Asked(payouts', table.hand)
      BY <1>1, <2>2 DEF Present, x
    <3> DEFINE y == books[table.hand]
    <3>1. /\ y.taken = y.strayed + Debited(commits, table.hand) + y.pot
          /\ y.settled <= y.pot
          /\ y.settled = y.paid + y.unpaid + Asked(payouts, table.hand)
      BY <2>1, <2>2 DEF Present
    <3>2. Asked(payouts', table.hand) = 0
      <4>1. Asked({q}, table.hand) = AskedBy(q, table.hand)
        BY <1>2, <1>3, AskedOfOne
      <4> QED
        BY <1>3, <2>3, <4>1 DEF AskedBy
    <3>3. Asked(payouts, table.hand) = n + m
      <4>1. Asked({p}, table.hand) = AskedBy(p, table.hand)
        BY <1>2, <1>3, AskedOfOne
      <4> QED
        BY <1>1, <1>4, <2>2, <4>1 DEF AskedBy
    <3>4. y.paid \in Nat /\ y.unpaid \in Nat
      BY <1>2, <1>3, <2>2 DEF Typed, Books
    <3>5. /\ x.paid = y.paid + n /\ x.unpaid = y.unpaid + m /\ x.settled = y.settled
          /\ x.taken = y.taken /\ x.strayed = y.strayed /\ x.pot = y.pot
      BY <1>6, <2>2
    <3> HIDE DEF y
    <3> QED
      BY <1>4, <3>1, <3>2, <3>3, <3>4, <3>5
  <2> QED
    BY <2>4, <2>5, <2>6, <2>7
<1>12. PokerInv'
  BY <1>1, <1>8, <1>9, <1>10, <1>11 DEF PokerInv
<1> QED
  BY <1>1, <1>12, SamePhaseShowsNothing

\* The table after the report of a payout: the same hand, over and settled.
Reported(t, u) ==
    /\ Well(u) /\ u.phase = t.phase /\ u.hand = t.hand /\ u.due = t.due /\ u.reveal = t.reveal
    /\ Vacant(t) => Vacant(u)
    /\ Quiet(t) => Quiet(u)

\* complete_settlements and settlement_failed.
LEMMA ReportedFacts ==
    ASSUME NEW t, Well(t), NEW due \in SUBSET Dues, IsFiniteSet(due)
    PROVE  /\ Reported(t, Completed(t, due))
           /\ Reported(t, settlement_failed(t))
<1>1. t \in Tables /\ t.seat \in [Seats -> SeatStates]
  BY DEF Well, Tables
<1>2. Reported(t, settlement_failed(t))
  <2> DEFINE u == settlement_failed(t)
  <2>1. /\ u \in Tables /\ u.phase = t.phase /\ u.hand = t.hand /\ u.due = t.due
        /\ u.reveal = t.reveal /\ u.seat = t.seat /\ u.bet = t.bet /\ u.dealer = t.dealer
        /\ u.big = t.big
    BY <1>1 DEF settlement_failed, Tables
  <2> HIDE DEF u
  <2>2. Well(u)
    BY <2>1 DEF Well
  <2>3. Reported(t, u)
    BY <2>1, <2>2 DEF Reported, Vacant, Quiet
  <2> QED
    BY <2>3 DEF u
<1>3. Reported(t, Completed(t, due))
  <2> DEFINE won(u) == Sum({s \in due : s.user = u})
  <2> DEFINE seat == [i \in Seats |->
                        [t.seat[i] EXCEPT !.stack = @ + won(t.seat[i].user)]]
  <2> DEFINE v == [t EXCEPT !.seat = seat]
  <2> DEFINE w == Removed(v, Leaving(t))
  <2> DEFINE u == Completed(t, due)
  <2>1. \A k : won(k) \in Nat
    <3> TAKE k
    <3> DEFINE mine == {s \in due : s.user = k}
    <3>1. mine \in SUBSET Dues /\ IsFiniteSet(mine)
      BY FS_Subset
    <3> HIDE DEF mine
    <3>2. Sum(mine) \in Nat
      BY <3>1, SumOfDues
    <3> QED
      BY <3>2 DEF mine
  <2>2. won(None) = 0
    <3>1. {s \in due : s.user = None} = {}
      BY PokerAssumption DEF Dues
    <3> QED
      BY <3>1, SumOfNoDues
  <2>3. u = [w EXCEPT !.settling = FALSE]
    BY DEF Completed
  <2> HIDE DEF won, w, u
  <2>4. \A i \in Seats :
          /\ seat[i] \in SeatStates
          /\ seat[i].user = t.seat[i].user /\ seat[i].dealt = t.seat[i].dealt
          /\ seat[i].street = t.seat[i].street /\ seat[i].committed = t.seat[i].committed
          /\ seat[i].pending = t.seat[i].pending
          /\ t.seat[i] = EmptySeat => seat[i] = EmptySeat
    <3> TAKE i \in Seats
    <3> DEFINE k == t.seat[i].stack + won(t.seat[i].user)
    <3> DEFINE r == [t.seat[i] EXCEPT !.stack = k]
    <3>1. k \in Int /\ t.seat[i] \in SeatStates
      BY <1>1, <2>1 DEF SeatStates
    <3>2. seat[i] = r
      BY <3>1 DEF SeatStates
    <3> HIDE DEF k, seat
    <3>3. /\ r \in SeatStates
          /\ r.user = t.seat[i].user /\ r.dealt = t.seat[i].dealt
          /\ r.street = t.seat[i].street /\ r.committed = t.seat[i].committed
          /\ r.pending = t.seat[i].pending
      BY <3>1 DEF SeatStates
    <3>4. t.seat[i] = EmptySeat => r = EmptySeat
      <4> SUFFICES ASSUME t.seat[i] = EmptySeat PROVE r = EmptySeat
        OBVIOUS
      <4>1. k = 0
        BY <2>2, EmptySeatFields DEF k
      <4>2. r = [EmptySeat EXCEPT !.stack = 0]
        BY <4>1
      <4>3. r.stack = 0 /\ r.folded = FALSE /\ r.all_in = FALSE /\ r.acted = FALSE
            /\ r.leaving = FALSE /\ r.auto = FALSE /\ r.missed = 0
            /\ r.user = None /\ r.dealt = FALSE /\ r.committed = 0 /\ r.street = 0
            /\ r.pending = None
        BY <4>2 DEF EmptySeat
      <4> HIDE DEF r
      <4> QED
        BY <3>3, <4>3, EmptySeatFields, SeatByFields
    <3> QED
      BY <3>2, <3>3, <3>4
  <2>5. seat \in [Seats -> SeatStates]
    <3>1. seat = [i \in Seats |-> seat[i]]
      OBVIOUS
    <3> HIDE DEF seat
    <3> QED
      BY <2>4, <3>1
  <2> HIDE DEF seat
  <2>6. /\ v \in Tables /\ v.seat = seat /\ v.phase = t.phase /\ v.hand = t.hand /\ v.due = t.due
        /\ v.reveal = t.reveal /\ v.bet = t.bet /\ v.dealer = t.dealer /\ v.big = t.big
    BY <1>1, <2>5 DEF Tables
  <2> HIDE DEF v
  <2>7. Well(v)
    BY <2>4, <2>6 DEF Well
  <2>8. (Vacant(t) => Vacant(v)) /\ (Quiet(t) => Quiet(v))
    BY <2>4, <2>6 DEF Vacant, Quiet
  <2>9. /\ Well(w) /\ w.phase = v.phase /\ w.hand = v.hand /\ w.due = v.due
        /\ w.reveal = v.reveal
        /\ Vacant(v) => Vacant(w)
        /\ Quiet(v) => Quiet(w)
    <3>1. w = Removed(v, Leaving(t)) /\ Leaving(t) \in SUBSET Seats
      BY DEF w, Leaving
    <3> QED
      BY <2>7, <3>1, RemovedFacts
  <2>10. /\ u \in Tables /\ u.phase = w.phase /\ u.hand = w.hand /\ u.due = w.due
         /\ u.reveal = w.reveal /\ u.seat = w.seat /\ u.bet = w.bet /\ u.dealer = w.dealer
         /\ u.big = w.big
    <3>1. w \in Tables
      BY <2>9 DEF Well
    <3> QED
      BY <2>3, <3>1 DEF Tables
  <2>11. Well(u)
    BY <2>9, <2>10 DEF Well
  <2>12. Reported(t, u)
    BY <2>6, <2>8, <2>9, <2>10, <2>11 DEF Reported, Vacant, Quiet
  <2> QED
    BY <2>12 DEF u
<1> QED
  BY <1>2, <1>3

\* A payout is reported: the next hand may be dealt.
LEMMA ReportKeeps ==
    ASSUME PokerInv, NEW p \in payouts, Report(p)
    PROVE  PokerInv' /\ LevelShown
<1>1. /\ p.st # "asked" /\ payouts' = payouts \ {p}
      /\ table' = IF p.st = "done" THEN Completed(table, p.due) ELSE settlement_failed(table)
      /\ commits' = commits /\ books' = books /\ oddities' = oddities
  BY DEF Report
<1>2. /\ Typed /\ Past /\ Well(table) /\ Even(table) /\ p \in Payouts /\ IsFiniteSet(p.due)
      /\ p.due \in SUBSET Dues
  BY Between DEF PokerInv, Typed, Payouts
<1>3. Reported(table, table')
  BY <1>1, <1>2, ReportedFacts
<1>4. /\ Well(table') /\ table'.hand = table.hand /\ table'.phase = table.phase /\ Even(table')
  BY <1>2, <1>3 DEF Reported, Even
<1>5. Typed'
  <2>1. payouts' \subseteq payouts /\ IsFiniteSet(payouts')
    BY <1>1, <1>2, FS_RemoveElement DEF Typed
  <2> QED
    BY <1>1, <1>2, <1>4, <2>1 DEF Typed
<1>6. \A h : Whole(h)' = Whole(h)
  BY <1>1 DEF Whole
<1>7. (Whole(table.hand))' = Whole(table.hand)
  BY <1>1, <1>4 DEF Whole
<1>8. Past'
  BY <1>1, <1>2, <1>4, <1>6 DEF Past
<1>9. ASSUME Whole(table.hand) PROVE Tracked' /\ Turned' /\ Settling' /\ Present'
  <2>1. Tracked /\ Turned /\ Settling /\ Present /\ Vacant(table)
        /\ \A c \in commits : c.seat \in Seats
    BY <1>9, Between
  <2>2. payouts = {p} /\ payouts' = {} /\ table.phase = "Showdown"
    BY <1>1, <2>1 DEF Settling
  <2>3. ~InHand(table) /\ ~InHand(table') /\ ~ActionPhase(table')
    BY <1>4, <2>2, PhaseFacts DEF InHand, ActionPhase
  <2>4. Idle(table)
    BY <1>9, <2>3, Between
  <2>5. Idle(table') /\ Vacant(table')
    BY <1>3, <1>4, <2>1, <2>4 DEF Reported, Idle
  <2>6. commits = {}
    BY <2>1, <2>4 DEF Tracked, Awaited, Idle, Quiet
  <2>7. Tracked'
    BY <1>1, <1>4, <2>2, <2>5, <2>6 DEF Tracked, Idle, Quiet
  <2>8. Turned'
    BY <2>3, <2>5 DEF Turned
  <2>9. Settling'
    BY <2>2, <2>3 DEF Settling
  <2>10. Present'
    <3>1. Asked(payouts, table.hand) = 0 /\ Asked(payouts', table.hand) = 0
      <4>1. Asked({p}, table.hand) = AskedBy(p, table.hand)
        BY <1>2, AskedOfOne
      <4>2. AskedBy(p, table.hand) = 0
        BY <1>1 DEF AskedBy
      <4> QED
        BY <2>2, <4>1, <4>2, NoneDebited
    <3> QED
      BY <1>1, <1>4, <2>1, <2>3, <3>1 DEF Present
  <2> QED
    BY <2>7, <2>8, <2>9, <2>10
<1>10. PokerInv'
  BY <1>5, <1>7, <1>8, <1>9 DEF PokerInv
<1> QED
  BY <1>4, <1>10, SamePhaseShowsNothing

-----------------------------------------------------------------------------
(* The theorems.                                                           *)

\* An empty table.
LEMMA PokerStarts == ASSUME Init PROVE PokerInv
<1>1. /\ table = [phase |-> "Waiting", hand |-> 0, dealer |-> None, big |-> None,
                  active |-> None, bet |-> 0, min_raise |-> BigBlind, blinds |-> 0,
                  countdown |-> None, settling |-> FALSE, due |-> {}, reveal |-> FALSE,
                  seat |-> [i \in Seats |-> EmptySeat]]
      /\ commits = {} /\ payouts = {} /\ oddities = 0
      /\ books = [h \in Hands |-> Blank]
  BY DEF Init, Blank
<1>2. /\ table.phase = "Waiting" /\ table.hand = 0 /\ table.due = {} /\ ~table.reveal
      /\ table.bet = 0
      /\ \A i \in Seats : table.seat[i] = EmptySeat
  BY <1>1
<1>3. table \in Tables
  <2>1. [i \in Seats |-> EmptySeat] \in [Seats -> SeatStates]
    BY EmptySeatFields
  <2>2. BigBlind \in Nat /\ "Waiting" \in Phases /\ 0 \in 0 .. MaxHands /\ None \in SeatOrNone
    BY BigBlindIsNat, PhaseFacts, PokerAssumption DEF SeatOrNone
  <2> DEFINE seat == [i \in Seats |-> EmptySeat]
  <2> HIDE DEF seat
  <2>3. seat \in [Seats -> SeatStates]
    BY <2>1 DEF seat
  <2>4. table = [phase |-> "Waiting", hand |-> 0, dealer |-> None, big |-> None,
                 active |-> None, bet |-> 0, min_raise |-> BigBlind, blinds |-> 0,
                 countdown |-> None, settling |-> FALSE, due |-> {}, reveal |-> FALSE,
                 seat |-> seat]
    BY <1>1 DEF seat
  <2>5. table.due \subseteq Dues
    BY <1>2
  <2> QED
    BY <2>2, <2>3, <2>4, <2>5 DEF Tables
<1>4. \A i \in Seats :
        /\ table.seat[i].user = None /\ table.seat[i].street = 0
        /\ table.seat[i].committed = 0 /\ table.seat[i].pending = None
        /\ ~table.seat[i].dealt
  BY <1>2, EmptySeatFields
<1>5. Well(table) /\ Even(table)
  BY <1>2, <1>3, <1>4, FS_EmptySet DEF Well, Even
<1>6. Typed
  <2>1. Blank \in Books
    BY DEF Blank, Books
  <2>2. books \in [Hands -> Books] /\ \A h \in Hands : books[h] = Blank
    BY <1>1, <2>1
  <2>3. commits = {} /\ payouts = {} /\ oddities = 0 /\ IsFiniteSet({})
    BY <1>1, FS_EmptySet
  <2> QED
    BY <1>5, <2>2, <2>3 DEF Typed
<1>7. ~ActionPhase(table) /\ table.phase # "PostingBlinds" /\ ~InHand(table)
  BY <1>2, PhaseFacts DEF ActionPhase, InHand
<1>8. commits = {} /\ payouts = {}
  BY <1>1
<1>9. Idle(table) /\ Vacant(table)
  BY <1>2, <1>4, <1>5 DEF Idle, Quiet, Vacant
<1>10. Tracked
  BY <1>4, <1>7, <1>8 DEF Tracked
<1>11. Turned /\ Settling /\ Present
  BY <1>2, <1>7, <1>8, <1>9 DEF Turned, Settling, Present
<1>12. Past
  <2>1. \A h \in Hands : ~(h < table.hand)
    BY <1>2, PokerAssumption DEF Hands
  <2> QED
    BY <2>1 DEF Past
<1> QED
  BY <1>6, <1>10, <1>11, <1>12 DEF PokerInv

\* Every step of the table keeps the invariant, and shows only hands that are level.
LEMMA PokerSteps == ASSUME PokerInv, Next PROVE PokerInv' /\ LevelShown
<1>1. ASSUME NEW u \in Players, Play(u) PROVE PokerInv' /\ LevelShown
  <2>1. CASE Sit(u)
    BY <2>1, SitKeeps
  <2>2. CASE leave(u)
    BY <2>2, GetsUpKeeps
  <2>3. CASE kick_inactive_user(u)
    BY <2>3, GetsUpKeeps
  <2>4. CASE start_hand(u)
    BY <2>4, StartKeeps
  <2>5. CASE check(u)
    BY <2>5, CheckKeeps
  <2>6. CASE call(u)
    BY <2>6, CallKeeps
  <2>7. CASE all_in(u)
    BY <2>7, CallKeeps
  <2>8. CASE fold(u)
    BY <2>8, FoldKeeps
  <2>9. CASE toggle_auto_check_fold(u)
    BY <2>9, SwitchKeeps
  <2>10. CASE \E by \in Raises : bet_or_raise(u, by)
    BY <2>10, CallKeeps
  <2>11. CASE \E balance \in 0 .. StartingStack - 1 : SyncBalance(u, balance)
    BY <2>11, SyncKeeps
  <2> QED
    BY <1>1, <2>1, <2>2, <2>3, <2>4, <2>5, <2>6, <2>7, <2>8, <2>9, <2>10, <2>11 DEF Play
<1>2. CASE ActionTimeout
  BY <1>2, TimeoutKeeps
<1>3. ASSUME NEW c \in commits, Debit(c) \/ Refuse(c) PROVE PokerInv' /\ LevelShown
  BY <1>3, DebitKeeps
<1>4. ASSUME NEW c \in commits, CommitAnswered(c) PROVE PokerInv' /\ LevelShown
  BY <1>4, AnsweredKeeps
<1>5. ASSUME NEW p \in payouts, Persist(p) PROVE PokerInv' /\ LevelShown
  BY <1>5, PersistKeeps
<1>6. ASSUME NEW p \in payouts, Report(p) PROVE PokerInv' /\ LevelShown
  BY <1>6, ReportKeeps
<1> QED
  BY <1>1, <1>2, <1>3, <1>4, <1>5, <1>6 DEF Next, CommitTask, PayoutTask

\* Types whatever went wrong; and as long as no hand ended under a debit, every debit
\* awaited by the seat that asked for it, a turn that is somebody's, a pot settled once,
\* and books that balance for the hand that is played and for those before it (the
\* handlers of poker/svc.rs, with their debits and payouts).
THEOREM PokerInvariant == PokerSpec => []PokerInv
<1>1. Init => PokerInv
  BY PokerStarts
<1>2. PokerInv /\ [Next]_vars => PokerInv'
  <2> SUFFICES ASSUME PokerInv, [Next]_vars PROVE PokerInv'
    OBVIOUS
  <2>1. CASE Next
    BY <2>1, PokerSteps
  <2>2. CASE UNCHANGED vars
    BY <2>2 DEF vars, PokerInv, Typed, Whole, Tracked, Turned, Settling, Present, Past
  <2> QED
    BY <2>1, <2>2
<1> QED
  BY <1>1, <1>2, PTL DEF PokerSpec

\* The invariant names somebody the hand waits for.
LEMMA TurnIsSomebodys == ASSUME PokerInv PROVE SomebodyIsOnTurn
<1> SUFFICES ASSUME Whole(table.hand)
             PROVE  /\ ActionPhase(table) =>
                          /\ table.active \in Actionable(table)
                          /\ \/ table.countdown = table.active
                             \/ \E c \in commits : c.seat = table.active /\ Awaited(table, c)
                    /\ table.phase = "PostingBlinds" =>
                          /\ table.blinds > 0
                          /\ table.blinds = Cardinality({c \in commits : Awaited(table, c)})
  BY DEF SomebodyIsOnTurn
<1>1. Tracked /\ Turned /\ (ActionPhase(table) => Betting(table))
  BY Between
<1>2. ASSUME ActionPhase(table)
      PROVE  /\ table.active \in Actionable(table)
             /\ \/ table.countdown = table.active
                \/ \E c \in commits : c.seat = table.active /\ Awaited(table, c)
  <2>1. table.active \in Actionable(table) /\ table.active \in Seats
    BY <1>1, <1>2 DEF Betting, Actionable, Active
  <2>2. CASE table.seat[table.active].pending = None
    BY <1>1, <1>2, <2>1, <2>2 DEF Turned
  <2>3. CASE table.seat[table.active].pending # None
    BY <1>1, <2>1, <2>3 DEF Tracked
  <2> QED
    BY <2>1, <2>2, <2>3
<1>3. {c \in commits : Awaited(table, c)} = commits
  BY <1>1 DEF Tracked
<1>4. table.phase = "PostingBlinds" => table.blinds > 0 /\ table.blinds = Cardinality(commits)
  BY <1>1 DEF Tracked
<1> QED
  BY <1>2, <1>3, <1>4

\* The invariant balances the books of every hand.
LEMMA ChipsAddUp == ASSUME PokerInv PROVE ChipsAreAccounted
<1>1. Typed /\ Past /\ (Whole(table.hand) => Present /\ Vacant(table))
      /\ Well(table) /\ Even(table) /\ table \in Tables /\ table.hand \in 0 .. MaxHands
      /\ MaxHands \in Nat
  BY Between, PokerAssumption DEF PokerInv
<1>2. \A h \in 1 .. table.hand : h \in Hands
  BY <1>1 DEF Hands
<1>3. TypeOK
  <2>1. \A i \in Seats : table.seat[i] \in SeatStates
    BY <1>1 DEF Tables
  <2>2. \A i \in Seats :
          /\ table.seat[i].user \in Players \union {None}
          /\ Whole(table.hand) /\ table.seat[i].user = None => table.seat[i] = EmptySeat
          /\ table.seat[i].missed \in 0 .. MaxMissedActions
    BY <1>1, <2>1 DEF SeatStates, Vacant
  <2>3. {table.dealer, table.big, table.active, table.countdown} \subseteq Seats \union {None}
    BY <1>1 DEF Tables, SeatOrNone
  <2>4. table.phase \in Phases
    BY <1>1 DEF Tables
  <2>5. \A p \in payouts : p.hand \in Hands /\ p.st \in {"asked", "done", "failed"}
    BY <1>1 DEF Typed, Payouts
  <2>6. \A i, j \in Seats : i # j /\ table.seat[i].user # None
                               => table.seat[i].user # table.seat[j].user
    BY <1>1 DEF Well
  <2>7. commits \subseteq [req : Nat, seat : Seats, amount : Nat \ {0}, hand : Hands,
                           st : {"asked", "debited", "failed"}]
    BY <1>1 DEF Typed, Commits
  <2> QED
    BY <1>1, <2>2, <2>3, <2>4, <2>5, <2>6, <2>7 DEF TypeOK, Even
<1>4. \A h : SumFunction([c \in commits |-> IF c.hand = h /\ c.st = "debited" THEN c.amount ELSE 0])
               = Debited(commits, h)
  BY DEF Debited, DebitedBy
<1>5. \A h : SumFunction([p \in payouts |-> IF p.hand = h /\ p.st = "asked" THEN Sum(p.due) ELSE 0])
               = Asked(payouts, h)
  BY DEF Asked, AskedBy
<1>6. ASSUME NEW h \in 1 .. table.hand, Whole(h)
      PROVE  /\ books[h].taken = books[h].strayed + Debited(commits, h)
                  + (IF h = table.hand /\ InHand(table) THEN Pot(table) ELSE books[h].pot)
             /\ books[h].settled <= books[h].pot
             /\ books[h].settled = books[h].paid + books[h].unpaid + Asked(payouts, h)
  <2>1. CASE h = table.hand
    <3>1. Present /\ table.hand > 0
      BY <1>1, <1>6, <2>1
    <3> QED
      BY <2>1, <3>1 DEF Present
  <2>2. CASE h # table.hand
    <3>1. h < table.hand /\ h \in Hands
      BY <1>1, <1>2, <2>2
    <3>2. /\ \A c \in commits : c.hand # h
          /\ \A p \in payouts : p.hand # h
          /\ books[h].taken = books[h].strayed + books[h].pot
          /\ books[h].settled = books[h].paid + books[h].unpaid
          /\ books[h].settled <= books[h].pot
      BY <1>1, <1>6, <3>1 DEF Past
    <3>3. Debited(commits, h) = 0
      <4> DEFINE f == [c \in commits |-> DebitedBy(c, h)]
      <4>1. Debited(commits, h) = SumFunctionOnSet(f, commits)
        BY DEF Debited, SumFunction
      <4>2. IsFiniteSet(commits) /\ \A c \in commits : f[c] = 0
        BY <1>1, <3>2 DEF Typed, DebitedBy
      <4> HIDE DEF f
      <4> QED
        BY <4>1, <4>2, SumOfZeros
    <3>4. Asked(payouts, h) = 0
      <4> DEFINE f == [p \in payouts |-> AskedBy(p, h)]
      <4>1. Asked(payouts, h) = SumFunctionOnSet(f, payouts)
        BY DEF Asked, SumFunction
      <4>2. IsFiniteSet(payouts) /\ \A p \in payouts : f[p] = 0
        BY <1>1, <3>2 DEF Typed, AskedBy
      <4> HIDE DEF f
      <4> QED
        BY <4>1, <4>2, SumOfZeros
    <3>5. books[h] \in Books
      BY <1>1, <3>1 DEF Typed
    <3> QED
      BY <2>2, <3>2, <3>3, <3>4, <3>5 DEF Books
  <2> QED
    BY <2>1, <2>2
<1>7. ChipsAreOnTheTable
  BY <1>4, <1>6 DEF ChipsAreOnTheTable
<1>8. SettlementsComeFromThePot
  BY <1>5, <1>6 DEF SettlementsComeFromThePot
<1> QED
  BY <1>3, <1>7, <1>8 DEF ChipsAreAccounted

\* A hand never waits for nobody: on a street somebody is on turn whose debit is under
\* way or whose clock runs, and blinds that are missing have debits under way
\* (advance_after_action, finish_blind_posting, start_action_countdown_if_needed).
THEOREM SomebodyAlwaysOnTurn == PokerSpec => []SomebodyIsOnTurn
<1>1. PokerInv => SomebodyIsOnTurn
  BY TurnIsSomebodys
<1> QED
  BY <1>1, PokerInvariant, PTL

\* Every chip the ledger took for a hand is in a debit under way, strayed, on the table or
\* in the pot of the hand, and what is settled comes from that pot (apply_commit_success,
\* persist_settlements_task).
THEOREM ChipsAlwaysAccounted == PokerSpec => []ChipsAreAccounted
<1>1. PokerInv => ChipsAreAccounted
  BY ChipsAddUp
<1> QED
  BY <1>1, PokerInvariant, PTL

\* Hands are compared only among seats that are all in or have put in as much as anyone
\* (street_complete, should_runout_to_showdown and every handler that ends a street).
THEOREM ContendersAlwaysMatch == PokerSpec => ContendersMatchTheBet
<1> DEFINE Meets ==
      \A h \in Hands :
         (h = table.hand /\ Whole(h) /\ ActionPhase(table) /\ table'.phase = "Showdown"
            /\ Cardinality(Active(table')) > 1) =>
         \A i \in Actionable(table'), j \in Seats :
             table'.seat[i].committed >= table'.seat[j].committed
<1>1. PokerInv /\ [Next]_vars => [Meets]_vars
  <2> SUFFICES ASSUME PokerInv, Next PROVE Meets
    OBVIOUS
  <2>1. PokerInv' /\ LevelShown
    BY PokerSteps
  <2>2. ASSUME AllMatched(table')
        PROVE  \A i \in Actionable(table'), j \in Seats :
                  table'.seat[i].committed >= table'.seat[j].committed
    <3> TAKE i \in Actionable(table'), j \in Seats
    <3>1. table'.seat[j].committed <= table'.seat[i].committed
      BY <2>2 DEF AllMatched
    <3> QED
      BY <3>1
  <2> QED
    BY <2>1, <2>2 DEF LevelShown
<1> QED
  BY <1>1, PokerInvariant, PTL DEF PokerSpec, ContendersMatchTheBet

=============================================================================
