------------------------------ MODULE SumFacts ------------------------------
(***************************************************************************)
(* Facts about finite sums.  The models add up with SumFunctionOnSet and   *)
(* MapThenSumSet of the community modules, recursive functions over the    *)
(* subsets of the set that is summed.  That such a function exists, that   *)
(* it is the only one, and that the order of the summands is immaterial    *)
(* are proved here once, each by a minimal set on which it fails; and the  *)
(* same of an iteration that takes the members in an order of its own.     *)
(***************************************************************************)
EXTENDS Integers, Sequences, FiniteSetsExt, Functions, FiniteSetTheorems, SequenceTheorems,
    WellFoundedInduction, TLAPS

Chosen(s) == CHOOSE x \in s : TRUE

\* The recursive function both operators apply to the whole set.
IsSum(g, f, S) ==
    g = [s \in SUBSET S |-> IF s = {} THEN 0 ELSE f[Chosen(s)] + g[s \ {Chosen(s)}]]

-----------------------------------------------------------------------------
(* Induction over the subsets of a finite set.                             *)

\* A family of subsets of a finite set has a minimal member.
LEMMA MinimalSubset ==
    ASSUME NEW S, IsFiniteSet(S), NEW family, family \subseteq SUBSET S, family # {}
    PROVE  \E T \in family : \A U \in family : U \subseteq T => U = T
<1>1. FiniteSubsetsOf(S) = SUBSET S
  BY FS_FiniteSubsetsOfFinite
<1>2. IsWellFoundedOn(StrictSubsetOrdering(S), SUBSET S)
  BY <1>1, FS_StrictSubsetOrderingWellFounded
<1>3. PICK T \in family : \A U \in family : ~ (<<U, T>> \in StrictSubsetOrdering(S))
  BY <1>2, WFMin
<1>4. \A U \in family : U \subseteq T => U = T
  BY <1>3 DEF StrictSubsetOrdering
<1> QED
  BY <1>4

LEMMA ChosenIsMember == \A s : s # {} => Chosen(s) \in s
  BY DEF Chosen

LEMMA SumStep ==
    ASSUME NEW g, NEW f, NEW S, IsSum(g, f, S), NEW s \in SUBSET S
    PROVE  g[s] = IF s = {} THEN 0 ELSE f[Chosen(s)] + g[s \ {Chosen(s)}]
  BY DEF IsSum

\* Two such functions agree where both are defined.
LEMMA SumIsUnique ==
    ASSUME NEW S, IsFiniteSet(S), NEW f, NEW g, NEW h, NEW R,
           IsSum(g, f, S), IsSum(h, f, R), NEW T \in SUBSET S, T \in SUBSET R
    PROVE  g[T] = h[T]
<1> DEFINE Bad == {s \in SUBSET T : g[s] # h[s]}
<1>1. SUFFICES ASSUME Bad # {} PROVE FALSE
  OBVIOUS
<1>2. IsFiniteSet(T)
  BY FS_Subset
<1>3. Bad \subseteq SUBSET T
  OBVIOUS
<1> HIDE DEF Bad
<1>b. PICK s \in Bad : \A U \in Bad : U \subseteq s => U = s
  BY <1>1, <1>2, <1>3, MinimalSubset
<1> USE DEF Bad
<1>4. s \in SUBSET S /\ s \in SUBSET R /\ s \in SUBSET T
  OBVIOUS
<1>5. /\ g[s] = IF s = {} THEN 0 ELSE f[Chosen(s)] + g[s \ {Chosen(s)}]
      /\ h[s] = IF s = {} THEN 0 ELSE f[Chosen(s)] + h[s \ {Chosen(s)}]
  BY <1>4, SumStep
<1>6. s # {}
  BY <1>5
<1>7. Chosen(s) \in s
  BY <1>6, ChosenIsMember
<1>8. s \ {Chosen(s)} \notin Bad
  BY <1>b, <1>7
<1>9. g[s \ {Chosen(s)}] = h[s \ {Chosen(s)}]
  BY <1>8, <1>4
<1> QED
  BY <1>5, <1>6, <1>9

\* There is such a function for every finite set.
LEMMA SumExists ==
    ASSUME NEW S, IsFiniteSet(S), NEW f
    PROVE  \E g : IsSum(g, f, S)
<1> DEFINE Bad == {s \in SUBSET S : ~ \E g : IsSum(g, f, s)}
<1> DEFINE G(s) == CHOOSE g : IsSum(g, f, s)
<1>1. SUFFICES ASSUME Bad # {} PROVE FALSE
  OBVIOUS
<1>0. Bad \subseteq SUBSET S
  OBVIOUS
<1> HIDE DEF Bad
<1>2. PICK T \in Bad : \A U \in Bad : U \subseteq T => U = T
  BY <1>0, <1>1, MinimalSubset
<1> USE DEF Bad
<1>3. ASSUME NEW s \in SUBSET T, s # T PROVE IsSum(G(s), f, s)
  BY <1>2, <1>3
<1>4. IsFiniteSet(T)
  BY FS_Subset
<1> DEFINE c == Chosen(T)
<1> DEFINE h == [s \in SUBSET T |->
                   IF s # T THEN G(s)[s]
                   ELSE IF s = {} THEN 0 ELSE f[c] + G(T \ {c})[T \ {c}]]
<1> HIDE DEF G
<1>5. ASSUME NEW s \in SUBSET T
      PROVE  h[s] = IF s = {} THEN 0 ELSE f[Chosen(s)] + h[s \ {Chosen(s)}]
  <2>1. CASE s = {} /\ s # T
    <3>1. G(s)[s] = 0
      BY <2>1, <1>3, SumStep
    <3> QED
      BY <2>1, <3>1
  <2>2. CASE s = {} /\ s = T
    BY <2>2
  <2>3. CASE s # {} /\ s = T
    <3>1. c \in T
      BY <2>3, ChosenIsMember
    <3>2. h[T \ {c}] = G(T \ {c})[T \ {c}]
      BY <3>1
    <3>3. h[T] = f[c] + G(T \ {c})[T \ {c}]
      BY <2>3
    <3> QED
      BY <3>2, <3>3, <2>3
  <2>4. CASE s # {} /\ s # T
    <3> DEFINE d == Chosen(s)
    <3>1. d \in s
      BY <2>4, ChosenIsMember
    <3> HIDE DEF d
    <3>2. IsSum(G(s), f, s) /\ IsSum(G(s \ {d}), f, s \ {d})
      BY <1>3, <2>4, <3>1
    <3>3. h[s] = G(s)[s] /\ h[s \ {d}] = G(s \ {d})[s \ {d}]
      BY <2>4, <3>1
    <3>4. G(s)[s] = f[d] + G(s)[s \ {d}]
      BY <3>2, <2>4, SumStep DEF d
    <3>5. IsFiniteSet(s)
      BY <1>4, FS_Subset
    <3>6. G(s)[s \ {d}] = G(s \ {d})[s \ {d}]
      BY <3>2, <3>5, SumIsUnique
    <3> QED
      BY <3>3, <3>4, <3>6, <2>4 DEF d
  <2> QED
    BY <2>1, <2>2, <2>3, <2>4
<1>6. IsSum(h, f, T)
  <2> DEFINE k == [s \in SUBSET T |-> IF s = {} THEN 0 ELSE f[Chosen(s)] + h[s \ {Chosen(s)}]]
  <2>1. \A s \in SUBSET T : h[s] = k[s]
    BY <1>5
  <2>2. h = k
    BY <2>1
  <2> QED
    BY <2>2 DEF IsSum
<1> QED
  BY <1>2, <1>6

-----------------------------------------------------------------------------
(* Sums.                                                                   *)

LEMMA SumIsSum ==
    ASSUME NEW S, IsFiniteSet(S), NEW f
    PROVE  \E g : IsSum(g, f, S) /\ SumFunctionOnSet(f, S) = g[S]
<1>1. SumFunctionOnSet(f, S) = (CHOOSE g : IsSum(g, f, S))[S]
  BY DEF SumFunctionOnSet, FoldFunctionOnSet, MapThenFoldSet, IsSum, Chosen
<1>2. IsSum(CHOOSE g : IsSum(g, f, S), f, S)
  BY SumExists
<1> QED
  BY <1>1, <1>2

\* Any function that satisfies the recursion computes the sum: what makes a
\* MapThenSumSet a SumFunctionOnSet.
LEMMA SumOfIteration ==
    ASSUME NEW S, IsFiniteSet(S), NEW f, NEW g, IsSum(g, f, S)
    PROVE  g[S] = SumFunctionOnSet(f, S)
<1>1. PICK h : IsSum(h, f, S) /\ SumFunctionOnSet(f, S) = h[S]
  BY SumIsSum
<1>2. g[S] = h[S]
  BY <1>1, SumIsUnique
<1> QED
  BY <1>1, <1>2

\* MapThenSumSet of a function's values is the sum of the function.
LEMMA SumOfValues ==
    ASSUME NEW S, NEW f
    PROVE  MapThenSumSet(LAMBDA x : f[x], S) = SumFunctionOnSet(f, S)
  BY DEF SumFunctionOnSet, FoldFunctionOnSet, MapThenFoldSet, MapThenSumSet

LEMMA SumOfNone == ASSUME NEW f PROVE SumFunctionOnSet(f, {}) = 0
<1>1. IsFiniteSet({})
  BY FS_EmptySet
<1>2. PICK g : IsSum(g, f, {}) /\ SumFunctionOnSet(f, {}) = g[{}]
  BY <1>1, SumIsSum
<1> QED
  BY <1>2, SumStep

LEMMA SumByChosen ==
    ASSUME NEW S, IsFiniteSet(S), S # {}, NEW f
    PROVE  SumFunctionOnSet(f, S) = f[Chosen(S)] + SumFunctionOnSet(f, S \ {Chosen(S)})
<1> DEFINE c == Chosen(S)
<1>1. c \in S
  BY ChosenIsMember
<1>2. PICK g : IsSum(g, f, S) /\ SumFunctionOnSet(f, S) = g[S]
  BY SumIsSum
<1>3. IsFiniteSet(S \ {c})
  BY FS_Subset
<1>4. PICK h : IsSum(h, f, S \ {c}) /\ SumFunctionOnSet(f, S \ {c}) = h[S \ {c}]
  BY <1>3, SumIsSum
<1>5. g[S \ {c}] = h[S \ {c}]
  BY <1>2, <1>4, SumIsUnique
<1>6. g[S] = f[c] + g[S \ {c}]
  BY <1>2, SumStep
<1> QED
  BY <1>2, <1>4, <1>5, <1>6

LEMMA SumType ==
    ASSUME NEW S, IsFiniteSet(S), NEW f, \A x \in S : f[x] \in Int
    PROVE  SumFunctionOnSet(f, S) \in Int
<1> DEFINE Bad == {s \in SUBSET S : SumFunctionOnSet(f, s) \notin Int}
<1>1. SUFFICES ASSUME Bad # {} PROVE FALSE
  OBVIOUS
<1>0. Bad \subseteq SUBSET S
  OBVIOUS
<1> HIDE DEF Bad
<1>2. PICK s \in Bad : \A U \in Bad : U \subseteq s => U = s
  BY <1>0, <1>1, MinimalSubset
<1> USE DEF Bad
<1>3. s # {}
  BY SumOfNone
<1>4. Chosen(s) \in s
  BY <1>3, ChosenIsMember
<1>5. s \ {Chosen(s)} \notin Bad /\ s \ {Chosen(s)} \in SUBSET S
  BY <1>2, <1>4
<1>6. SumFunctionOnSet(f, s \ {Chosen(s)}) \in Int
  BY <1>5
<1>7. IsFiniteSet(s)
  BY FS_Subset
<1>8. SumFunctionOnSet(f, s) = f[Chosen(s)] + SumFunctionOnSet(f, s \ {Chosen(s)})
  BY <1>3, <1>7, SumByChosen
<1>9. f[Chosen(s)] \in Int
  BY <1>4
<1> QED
  BY <1>6, <1>8, <1>9

\* Any summand can be taken out first.
LEMMA SumRemove ==
    ASSUME NEW S, IsFiniteSet(S), NEW f, \A x \in S : f[x] \in Int, NEW y \in S
    PROVE  SumFunctionOnSet(f, S) = f[y] + SumFunctionOnSet(f, S \ {y})
<1> DEFINE Sum(s) == SumFunctionOnSet(f, s)
<1> DEFINE Bad == {s \in SUBSET S : \E z \in s : Sum(s) # f[z] + Sum(s \ {z})}
<1>0. \A s \in SUBSET S : IsFiniteSet(s) /\ Sum(s) \in Int
  <2> TAKE s \in SUBSET S
  <2>1. IsFiniteSet(s)
    BY FS_Subset
  <2>2. \A x \in s : f[x] \in Int
    OBVIOUS
  <2> QED
    BY <2>1, <2>2, SumType
<1>a. \A s \in SUBSET S : s # {} => Sum(s) = f[Chosen(s)] + Sum(s \ {Chosen(s)})
  BY <1>0, SumByChosen
<1> HIDE DEF Sum
<1>1. ASSUME Bad # {} PROVE FALSE
  <2>0. Bad \subseteq SUBSET S
    OBVIOUS
  <2> HIDE DEF Bad
  <2>1. PICK s \in Bad : \A U \in Bad : U \subseteq s => U = s
    BY <1>1, <2>0, MinimalSubset
  <2> USE DEF Bad
  <2>2. PICK z \in s : Sum(s) # f[z] + Sum(s \ {z})
    OBVIOUS
  <2> DEFINE c == Chosen(s)
  <2>3. c \in s
    BY <2>2, ChosenIsMember
  <2>4. Sum(s) = f[c] + Sum(s \ {c})
    BY <2>2, <1>a
  <2> HIDE DEF c
  <2>5. z # c
    BY <2>2, <2>4
  <2>6. s \ {c} \notin Bad /\ s \ {z} \notin Bad
    BY <2>1, <2>3
  <2>7. Sum(s \ {c}) = f[z] + Sum((s \ {c}) \ {z})
    BY <2>6, <2>5, <2>2
  <2>8. Sum(s \ {z}) = f[c] + Sum((s \ {z}) \ {c})
    BY <2>6, <2>5, <2>3
  <2>9. (s \ {z}) \ {c} = (s \ {c}) \ {z}
    OBVIOUS
  <2>10. Sum((s \ {z}) \ {c}) \in Int
    BY <1>0
  <2>11. f[z] \in Int /\ f[c] \in Int
    BY <2>3, <2>2
  <2>12. Sum(s) = f[c] + (f[z] + Sum((s \ {z}) \ {c}))
    BY <2>4, <2>7, <2>9
  <2>13. f[z] + Sum(s \ {z}) = f[z] + (f[c] + Sum((s \ {z}) \ {c}))
    BY <2>8
  <2> HIDE DEF Bad
  <2>14. f[z] + Sum(s \ {z}) = Sum(s)
    BY <2>10, <2>11, <2>12, <2>13
  <2> QED
    BY <2>2, <2>14
<1> QED
  BY <1>1 DEF Sum

LEMMA SumAdd ==
    ASSUME NEW S, IsFiniteSet(S), NEW f, NEW y, y \notin S,
           \A x \in S \cup {y} : f[x] \in Int
    PROVE  SumFunctionOnSet(f, S \cup {y}) = f[y] + SumFunctionOnSet(f, S)
<1>1. IsFiniteSet(S \cup {y})
  BY FS_AddElement
<1>2. (S \cup {y}) \ {y} = S
  OBVIOUS
<1>3. y \in S \cup {y}
  OBVIOUS
<1> QED
  BY <1>1, <1>2, <1>3, SumRemove

-----------------------------------------------------------------------------
(* Comparing sums.                                                         *)

\* Induction over a finite set, a member at a time.
LEMMA SubsetInduction ==
    ASSUME NEW S, IsFiniteSet(S), NEW good, {} \in good,
           \A T \in SUBSET S : \A x \in S \ T : T \in good => T \cup {x} \in good
    PROVE  S \in good
<1> DEFINE Bad == {T \in SUBSET S : T \notin good}
<1>1. SUFFICES ASSUME Bad # {} PROVE FALSE
  OBVIOUS
<1>2. Bad \subseteq SUBSET S
  OBVIOUS
<1> HIDE DEF Bad
<1>3. PICK T \in Bad : \A U \in Bad : U \subseteq T => U = T
  BY <1>1, <1>2, MinimalSubset
<1> USE DEF Bad
<1>4. PICK x \in T : TRUE
  OBVIOUS
<1>5. T \ {x} \notin Bad
  BY <1>3
<1>6. T \ {x} \in good /\ T \ {x} \in SUBSET S /\ x \in S \ (T \ {x})
  BY <1>5
<1>7. (T \ {x}) \cup {x} = T
  OBVIOUS
<1> QED
  BY <1>6, <1>7

LEMMA SumSame ==
    ASSUME NEW S, IsFiniteSet(S), NEW f, NEW g,
           \A x \in S : f[x] \in Int, \A x \in S : f[x] = g[x]
    PROVE  SumFunctionOnSet(f, S) = SumFunctionOnSet(g, S)
<1> DEFINE good == {T \in SUBSET S : SumFunctionOnSet(f, T) = SumFunctionOnSet(g, T)}
<1>1. {} \in good
  BY SumOfNone
<1>2. ASSUME NEW T \in SUBSET S, NEW x \in S \ T, T \in good PROVE T \cup {x} \in good
  <2>1. IsFiniteSet(T)
    BY FS_Subset
  <2>2. /\ \A z \in T \cup {x} : f[z] \in Int
        /\ \A z \in T \cup {x} : g[z] \in Int
    OBVIOUS
  <2>3. SumFunctionOnSet(f, T \cup {x}) = f[x] + SumFunctionOnSet(f, T)
    BY <2>1, <2>2, SumAdd
  <2>4. SumFunctionOnSet(g, T \cup {x}) = g[x] + SumFunctionOnSet(g, T)
    BY <2>1, <2>2, SumAdd
  <2> QED
    BY <2>3, <2>4, <1>2
<1> HIDE DEF good
<1>3. S \in good
  BY <1>1, <1>2, SubsetInduction
<1> QED
  BY <1>3 DEF good

LEMMA SumAtMost ==
    ASSUME NEW S, IsFiniteSet(S), NEW f, NEW g,
           \A x \in S : f[x] \in Int, \A x \in S : g[x] \in Int,
           \A x \in S : f[x] <= g[x]
    PROVE  SumFunctionOnSet(f, S) <= SumFunctionOnSet(g, S)
<1> DEFINE good == {T \in SUBSET S : SumFunctionOnSet(f, T) <= SumFunctionOnSet(g, T)}
<1>1. {} \in good
  <2>1. SumFunctionOnSet(f, {}) = 0 /\ SumFunctionOnSet(g, {}) = 0
    BY SumOfNone
  <2> QED
    BY <2>1
<1>2. ASSUME NEW T \in SUBSET S, NEW x \in S \ T, T \in good PROVE T \cup {x} \in good
  <2>1. IsFiniteSet(T)
    BY FS_Subset
  <2>2. /\ \A z \in T \cup {x} : f[z] \in Int
        /\ \A z \in T \cup {x} : g[z] \in Int
        /\ \A z \in T : f[z] \in Int
        /\ \A z \in T : g[z] \in Int
        /\ f[x] <= g[x]
    OBVIOUS
  <2>3. SumFunctionOnSet(f, T \cup {x}) = f[x] + SumFunctionOnSet(f, T)
    BY <2>1, <2>2, SumAdd
  <2>4. SumFunctionOnSet(g, T \cup {x}) = g[x] + SumFunctionOnSet(g, T)
    BY <2>1, <2>2, SumAdd
  <2>5. SumFunctionOnSet(f, T) \in Int /\ SumFunctionOnSet(g, T) \in Int
    BY <2>1, <2>2, SumType
  <2>6. SumFunctionOnSet(f, T) <= SumFunctionOnSet(g, T)
    BY <1>2
  <2>7. f[x] \in Int /\ g[x] \in Int
    OBVIOUS
  <2> HIDE DEF good
  <2>8. SumFunctionOnSet(f, T \cup {x}) <= SumFunctionOnSet(g, T \cup {x})
    BY <2>2, <2>3, <2>4, <2>5, <2>6, <2>7
  <2> QED
    BY <2>8 DEF good
<1> HIDE DEF good
<1>3. S \in good
  BY <1>1, <1>2, SubsetInduction
<1> QED
  BY <1>3 DEF good

LEMMA SumOfPlus ==
    ASSUME NEW S, IsFiniteSet(S), NEW f, NEW g, NEW h,
           \A x \in S : f[x] \in Int, \A x \in S : g[x] \in Int,
           \A x \in S : h[x] = f[x] + g[x]
    PROVE  SumFunctionOnSet(h, S) = SumFunctionOnSet(f, S) + SumFunctionOnSet(g, S)
<1> DEFINE good == {T \in SUBSET S :
      SumFunctionOnSet(h, T) = SumFunctionOnSet(f, T) + SumFunctionOnSet(g, T)}
<1>1. {} \in good
  <2>1. SumFunctionOnSet(f, {}) = 0 /\ SumFunctionOnSet(g, {}) = 0
    BY SumOfNone
  <2>2. SumFunctionOnSet(h, {}) = 0
    BY SumOfNone
  <2> QED
    BY <2>1, <2>2
<1>2. ASSUME NEW T \in SUBSET S, NEW x \in S \ T, T \in good PROVE T \cup {x} \in good
  <2>1. IsFiniteSet(T)
    BY FS_Subset
  <2>2. /\ \A z \in T \cup {x} : f[z] \in Int
        /\ \A z \in T \cup {x} : g[z] \in Int
        /\ \A z \in T \cup {x} : h[z] \in Int
        /\ \A z \in T : f[z] \in Int
        /\ \A z \in T : g[z] \in Int
    OBVIOUS
  <2>3. SumFunctionOnSet(f, T \cup {x}) = f[x] + SumFunctionOnSet(f, T)
    BY <2>1, <2>2, SumAdd
  <2>4. SumFunctionOnSet(g, T \cup {x}) = g[x] + SumFunctionOnSet(g, T)
    BY <2>1, <2>2, SumAdd
  <2>5. SumFunctionOnSet(h, T \cup {x}) = h[x] + SumFunctionOnSet(h, T)
    BY <2>1, <2>2, SumAdd
  <2>6. SumFunctionOnSet(f, T) \in Int /\ SumFunctionOnSet(g, T) \in Int
    BY <2>1, <2>2, SumType
  <2>7. SumFunctionOnSet(h, T) = SumFunctionOnSet(f, T) + SumFunctionOnSet(g, T)
    BY <1>2
  <2>8. f[x] \in Int /\ g[x] \in Int /\ h[x] = f[x] + g[x]
    OBVIOUS
  <2> HIDE DEF good
  <2>9. SumFunctionOnSet(h, T \cup {x})
          = SumFunctionOnSet(f, T \cup {x}) + SumFunctionOnSet(g, T \cup {x})
    BY <2>3, <2>4, <2>5, <2>6, <2>7, <2>8
  <2> QED
    BY <2>9 DEF good
<1> HIDE DEF good
<1>3. S \in good
  BY <1>1, <1>2, SubsetInduction
<1> QED
  BY <1>3 DEF good

\* Amounts that are all zero, all but one zero, none of them negative.
LEMMA SumOfZeros ==
    ASSUME NEW S, IsFiniteSet(S), NEW f, \A x \in S : f[x] = 0
    PROVE  SumFunctionOnSet(f, S) = 0
<1>0. \A x \in S : f[x] \in Int
  OBVIOUS
<1>1. SumFunctionOnSet(f, S) = SumFunctionOnSet(f, S) + SumFunctionOnSet(f, S)
  BY <1>0, SumOfPlus
<1>2. SumFunctionOnSet(f, S) \in Int
  BY <1>0, SumType
<1>3. \A n \in Int : n = n + n => n = 0
  OBVIOUS
<1> QED
  BY <1>1, <1>2, <1>3, Zenon

LEMMA SumIsNat ==
    ASSUME NEW S, IsFiniteSet(S), NEW f, \A x \in S : f[x] \in Nat
    PROVE  SumFunctionOnSet(f, S) \in Nat
<1> DEFINE zeros == [x \in S |-> 0]
<1>1. SumFunctionOnSet(zeros, S) = 0
  BY SumOfZeros
<1>2. /\ \A x \in S : zeros[x] \in Int
      /\ \A x \in S : f[x] \in Int
      /\ \A x \in S : zeros[x] <= f[x]
  OBVIOUS
<1> HIDE DEF zeros
<1>3. SumFunctionOnSet(zeros, S) <= SumFunctionOnSet(f, S)
  BY <1>2, SumAtMost
<1>4. SumFunctionOnSet(f, S) \in Int
  BY <1>2, SumType
<1> QED
  BY <1>1, <1>3, <1>4

LEMMA SumOfOnly ==
    ASSUME NEW S, IsFiniteSet(S), NEW f, NEW y \in S, f[y] \in Int,
           \A x \in S : x # y => f[x] = 0
    PROVE  SumFunctionOnSet(f, S) = f[y]
<1>1. \A x \in S : f[x] \in Int
  OBVIOUS
<1>2. SumFunctionOnSet(f, S) = f[y] + SumFunctionOnSet(f, S \ {y})
  BY <1>1, SumRemove
<1>3. IsFiniteSet(S \ {y})
  BY FS_Subset
<1>4. \A x \in S \ {y} : f[x] = 0
  OBVIOUS
<1>5. SumFunctionOnSet(f, S \ {y}) = 0
  BY <1>3, <1>4, SumOfZeros
<1> QED
  BY <1>2, <1>5

\* One amount changes.
LEMMA SumOfChanged ==
    ASSUME NEW S, IsFiniteSet(S), NEW f, NEW g, NEW y \in S,
           \A x \in S : f[x] \in Int, g[y] \in Int,
           \A x \in S : x # y => g[x] = f[x]
    PROVE  SumFunctionOnSet(g, S) = SumFunctionOnSet(f, S) + (g[y] - f[y])
<1>1. \A x \in S : g[x] \in Int
  OBVIOUS
<1>2. SumFunctionOnSet(f, S) = f[y] + SumFunctionOnSet(f, S \ {y})
  BY SumRemove
<1>3. SumFunctionOnSet(g, S) = g[y] + SumFunctionOnSet(g, S \ {y})
  BY <1>1, SumRemove
<1>4. IsFiniteSet(S \ {y})
  BY FS_Subset
<1>5. /\ \A x \in S \ {y} : f[x] \in Int
      /\ \A x \in S \ {y} : f[x] = g[x]
  OBVIOUS
<1>6. SumFunctionOnSet(f, S \ {y}) = SumFunctionOnSet(g, S \ {y})
  BY <1>4, <1>5, SumSame
<1>7. SumFunctionOnSet(f, S \ {y}) \in Int
  BY <1>4, <1>5, SumType
<1>8. f[y] \in Int /\ g[y] \in Int
  OBVIOUS
<1> QED
  BY <1>2, <1>3, <1>6, <1>7, <1>8

\* No amount is more than the sum of all.
LEMMA SumIsAtLeastEach ==
    ASSUME NEW S, IsFiniteSet(S), NEW f, \A x \in S : f[x] \in Nat, NEW y \in S
    PROVE  f[y] <= SumFunctionOnSet(f, S)
<1>1. \A x \in S : f[x] \in Int
  OBVIOUS
<1>2. SumFunctionOnSet(f, S) = f[y] + SumFunctionOnSet(f, S \ {y})
  BY <1>1, SumRemove
<1>3. IsFiniteSet(S \ {y})
  BY FS_Subset
<1>4. \A x \in S \ {y} : f[x] \in Nat
  OBVIOUS
<1>5. SumFunctionOnSet(f, S \ {y}) \in Nat
  BY <1>3, <1>4, SumIsNat
<1>6. f[y] \in Nat
  OBVIOUS
<1> QED
  BY <1>2, <1>5, <1>6

\* Equal amounts for some, nothing for the others.
LEMMA SumOfEqual ==
    ASSUME NEW S, IsFiniteSet(S), NEW W \in SUBSET S, NEW k \in Int, NEW f,
           \A x \in S : f[x] = IF x \in W THEN k ELSE 0
    PROVE  SumFunctionOnSet(f, S) = k * Cardinality(W)
<1> DEFINE good == {T \in SUBSET S : SumFunctionOnSet(f, T) = k * Cardinality(T \cap W)}
<1>1. {} \in good
  <2>1. SumFunctionOnSet(f, {}) = 0
    BY SumOfNone
  <2>2. {} \cap W = {} /\ Cardinality({}) = 0
    BY FS_EmptySet
  <2>3. k * 0 = 0
    OBVIOUS
  <2> QED
    BY <2>1, <2>2, <2>3
<1>2. ASSUME NEW T \in SUBSET S, NEW x \in S \ T, T \in good PROVE T \cup {x} \in good
  <2>1. IsFiniteSet(T) /\ IsFiniteSet(T \cap W)
    BY FS_Subset
  <2>2. \A z \in T \cup {x} : f[z] \in Int
    OBVIOUS
  <2>3. SumFunctionOnSet(f, T \cup {x}) = f[x] + SumFunctionOnSet(f, T)
    BY <2>1, <2>2, SumAdd
  <2>4. SumFunctionOnSet(f, T) = k * Cardinality(T \cap W)
    BY <1>2
  <2>5. Cardinality(T \cap W) \in Nat
    BY <2>1, FS_CardinalityType
  <2>6. CASE x \in W
    <3>1. (T \cup {x}) \cap W = (T \cap W) \cup {x}
      BY <2>6
    <3>2. Cardinality((T \cap W) \cup {x}) = Cardinality(T \cap W) + 1
      BY <2>1, FS_AddElement
    <3>3. f[x] = k
      BY <2>6
    <3> DEFINE n == Cardinality(T \cap W)
    <3>4. k * (n + 1) = k + k * n
      <4> HIDE DEF n
      <4>1. \A m \in Nat : k * (m + 1) = k + k * m
        OBVIOUS
      <4>2. n \in Nat
        BY <2>5 DEF n
      <4> QED
        BY <4>1, <4>2
    <3>5. SumFunctionOnSet(f, T \cup {x}) = k * Cardinality((T \cup {x}) \cap W)
      BY <2>3, <2>4, <3>1, <3>2, <3>3, <3>4
    <3> QED
      BY <3>5
  <2>7. CASE x \notin W
    <3>1. (T \cup {x}) \cap W = T \cap W
      BY <2>7
    <3>2. f[x] = 0
      BY <2>7
    <3>3. k * Cardinality(T \cap W) \in Int
      BY <2>5
    <3>4. 0 + k * Cardinality(T \cap W) = k * Cardinality(T \cap W)
      BY <3>3
    <3>5. SumFunctionOnSet(f, T \cup {x}) = 0 + k * Cardinality(T \cap W)
      BY <2>3, <2>4, <3>2
    <3>6. SumFunctionOnSet(f, T \cup {x}) = k * Cardinality((T \cup {x}) \cap W)
      BY <3>1, <3>4, <3>5
    <3> QED
      BY <3>6
  <2> QED
    BY <2>6, <2>7
<1> HIDE DEF good
<1>3. S \in good
  BY <1>1, <1>2, SubsetInduction
<1>4. S \cap W = W
  OBVIOUS
<1> QED
  BY <1>3, <1>4 DEF good

-----------------------------------------------------------------------------
(* Sums of queues.                                                         *)

LEMMA SumOfQueue ==
    ASSUME NEW s \in Seq(Int)
    PROVE  /\ DOMAIN s = 1 .. Len(s) /\ IsFiniteSet(DOMAIN s)
           /\ SumFunctionOnSet(s, DOMAIN s) \in Int
<1>1. DOMAIN s = 1 .. Len(s) /\ Len(s) \in Nat /\ \A i \in DOMAIN s : s[i] \in Int
  OBVIOUS
<1>2. IsFiniteSet(1 .. Len(s))
  BY <1>1, FS_Interval
<1> QED
  BY <1>1, <1>2, SumType

LEMMA SumOfEmptyQueue == SumFunctionOnSet(<<>>, DOMAIN <<>>) = 0
<1>1. DOMAIN <<>> = {}
  OBVIOUS
<1> QED
  BY <1>1, SumOfNone

LEMMA SumOfAppend ==
    ASSUME NEW s \in Seq(Int), NEW v \in Int
    PROVE  SumFunctionOnSet(Append(s, v), DOMAIN Append(s, v))
             = SumFunctionOnSet(s, DOMAIN s) + v
<1> DEFINE n == Len(s)
<1> DEFINE t == Append(s, v)
<1>1. n \in Nat /\ DOMAIN s = 1 .. n /\ DOMAIN t = 1 .. n + 1
  OBVIOUS
<1>2. t[n + 1] = v /\ \A i \in 1 .. n : t[i] = s[i] /\ s[i] \in Int
  OBVIOUS
<1>3. IsFiniteSet(1 .. n)
  BY <1>1, FS_Interval
<1>4. 1 .. n + 1 = (1 .. n) \cup {n + 1} /\ n + 1 \notin 1 .. n
  BY <1>1
<1> HIDE DEF n, t
<1>5. \A i \in (1 .. n) \cup {n + 1} : t[i] \in Int
  BY <1>2
<1>6. SumFunctionOnSet(t, (1 .. n) \cup {n + 1}) = t[n + 1] + SumFunctionOnSet(t, 1 .. n)
  BY <1>3, <1>4, <1>5, SumAdd
<1>7. /\ \A i \in 1 .. n : s[i] \in Int
      /\ \A i \in 1 .. n : s[i] = t[i]
  BY <1>2
<1>8. SumFunctionOnSet(s, 1 .. n) = SumFunctionOnSet(t, 1 .. n)
  BY <1>3, <1>7, SumSame
<1>9. SumFunctionOnSet(s, 1 .. n) \in Int
  BY <1>3, <1>7, SumType
<1>10. SumFunctionOnSet(t, 1 .. n + 1) = v + SumFunctionOnSet(s, 1 .. n)
  BY <1>2, <1>4, <1>6, <1>8
<1>11. v + SumFunctionOnSet(s, 1 .. n) = SumFunctionOnSet(s, 1 .. n) + v
  BY <1>9
<1> QED
  BY <1>1, <1>10, <1>11 DEF t

LEMMA SumOfTail ==
    ASSUME NEW s \in Seq(Int), s # <<>>
    PROVE  SumFunctionOnSet(s, DOMAIN s)
             = Head(s) + SumFunctionOnSet(Tail(s), DOMAIN Tail(s))
<1> DEFINE n == Len(s) - 1
<1> DEFINE t == Tail(s)
<1> DEFINE after(T) == {i + 1 : i \in T}
<1>1. n \in Nat /\ DOMAIN s = 1 .. n + 1 /\ DOMAIN t = 1 .. n
  OBVIOUS
<1>2. Head(s) = s[1] /\ \A i \in 1 .. n : t[i] = s[i + 1]
  OBVIOUS
<1>3. \A i \in 1 .. n + 1 : s[i] \in Int
  OBVIOUS
<1>4. IsFiniteSet(1 .. n) /\ IsFiniteSet(2 .. n + 1) /\ IsFiniteSet(1 .. n + 1)
  BY <1>1, FS_Interval
<1> HIDE DEF n, t
<1> DEFINE good == {T \in SUBSET (1 .. n) :
      SumFunctionOnSet(t, T) = SumFunctionOnSet(s, after(T))}
<1>5. {} \in good
  <2>1. after({}) = {}
    OBVIOUS
  <2>2. SumFunctionOnSet(t, {}) = 0 /\ SumFunctionOnSet(s, {}) = 0
    BY SumOfNone
  <2> QED
    BY <2>1, <2>2
<1>6. ASSUME NEW T \in SUBSET (1 .. n), NEW x \in (1 .. n) \ T, T \in good
      PROVE  T \cup {x} \in good
  <2>1. after(T \cup {x}) = after(T) \cup {x + 1} /\ x + 1 \notin after(T)
    BY <1>1
  <2>2. after(T) \subseteq 2 .. n + 1 /\ x + 1 \in 2 .. n + 1
    BY <1>1
  <2>3. IsFiniteSet(T) /\ IsFiniteSet(after(T))
    BY <1>4, <2>2, FS_Subset
  <2>4. /\ \A z \in T \cup {x} : t[z] \in Int
        /\ \A z \in after(T) \cup {x + 1} : s[z] \in Int
        /\ t[x] = s[x + 1]
    BY <1>1, <1>2, <1>3, <2>2
  <2>a. SumFunctionOnSet(t, T) = SumFunctionOnSet(s, after(T))
    BY <1>6
  <2>5. T \cup {x} \in SUBSET (1 .. n)
    OBVIOUS
  <2> HIDE DEF after
  <2>6. SumFunctionOnSet(t, T \cup {x}) = t[x] + SumFunctionOnSet(t, T)
    BY <2>3, <2>4, SumAdd
  <2>7. SumFunctionOnSet(s, after(T) \cup {x + 1}) = s[x + 1] + SumFunctionOnSet(s, after(T))
    BY <2>1, <2>3, <2>4, SumAdd
  <2>8. SumFunctionOnSet(t, T \cup {x}) = SumFunctionOnSet(s, after(T \cup {x}))
    BY <2>1, <2>4, <2>6, <2>7, <2>a
  <2> QED
    BY <2>5, <2>8
<1> HIDE DEF good
<1>7. 1 .. n \in good
  BY <1>4, <1>5, <1>6, SubsetInduction
<1>8. after(1 .. n) = (1 .. n + 1) \ {1}
  <2>1. ASSUME NEW i \in (1 .. n + 1) \ {1} PROVE i \in after(1 .. n)
    <3>1. i - 1 \in 1 .. n /\ i = (i - 1) + 1
      BY <1>1
    <3> QED
      BY <3>1
  <2> QED
    BY <1>1, <2>1
<1>9. SumFunctionOnSet(t, 1 .. n) = SumFunctionOnSet(s, (1 .. n + 1) \ {1})
  BY <1>7, <1>8 DEF good
<1>10. 1 \in 1 .. n + 1
  BY <1>1
<1>11. SumFunctionOnSet(s, 1 .. n + 1) = s[1] + SumFunctionOnSet(s, (1 .. n + 1) \ {1})
  BY <1>3, <1>4, <1>10, SumRemove
<1> QED
  BY <1>1, <1>2, <1>9, <1>11 DEF t

\* Summands of at most m add up to at most m for each.
LEMMA SumOfQueueIsBounded ==
    ASSUME NEW m \in Int, NEW s \in Seq(Int), \A i \in DOMAIN s : s[i] <= m
    PROVE  SumFunctionOnSet(s, DOMAIN s) <= m * Len(s)
<1> DEFINE most == [i \in DOMAIN s |-> m]
<1>1. IsFiniteSet(DOMAIN s) /\ DOMAIN s = 1 .. Len(s)
  BY SumOfQueue
<1>2. /\ \A i \in DOMAIN s : s[i] \in Int
      /\ \A i \in DOMAIN s : most[i] \in Int
      /\ \A i \in DOMAIN s : s[i] <= most[i]
      /\ \A i \in DOMAIN s : most[i] = IF i \in DOMAIN s THEN m ELSE 0
  OBVIOUS
<1> HIDE DEF most
<1>3. SumFunctionOnSet(s, DOMAIN s) <= SumFunctionOnSet(most, DOMAIN s)
  BY <1>1, <1>2, SumAtMost
<1>4. SumFunctionOnSet(most, DOMAIN s) = m * Cardinality(DOMAIN s)
  BY <1>1, <1>2, SumOfEqual
<1>5. Len(s) \in Nat
  OBVIOUS
<1>6. \A n \in Nat : Cardinality(1 .. n) = n
  BY FS_Interval
<1>7. Cardinality(1 .. Len(s)) = Len(s)
  BY <1>5, <1>6
<1> QED
  BY <1>1, <1>3, <1>4, <1>7

LEMMA SumOfNatQueue ==
    ASSUME NEW s \in Seq(Nat)
    PROVE  s \in Seq(Int) /\ SumFunctionOnSet(s, DOMAIN s) \in Nat
<1>1. s \in Seq(Int) /\ \A i \in DOMAIN s : s[i] \in Nat
  OBVIOUS
<1>2. IsFiniteSet(DOMAIN s)
  BY <1>1, SumOfQueue
<1> QED
  BY <1>1, <1>2, SumIsNat

LEMMA SeqOfMore ==
    ASSUME NEW A, NEW B, A \subseteq B, NEW s \in Seq(A)
    PROVE  s \in Seq(B)
<1>1. Len(s) \in Nat /\ \A i \in 1 .. Len(s) : s[i] \in B
  OBVIOUS
<1>2. s = [i \in 1 .. Len(s) |-> s[i]]
  OBVIOUS
<1> QED
  BY <1>1, <1>2, IsASeq

-----------------------------------------------------------------------------
(* Division.                                                               *)

\* A number is its quotient and its remainder, and nothing else.
LEMMA Quotient ==
    ASSUME NEW m \in Nat \ {0}, NEW n \in Nat
    PROVE  \E q \in Nat, r \in 0 .. m - 1 : q = n \div m /\ r = n % m /\ n = q * m + r
<1>1. PICK q \in Nat : q = n \div m
  BY SMTT(30)
<1>2. PICK r \in 0 .. m - 1 : r = n % m
  BY SMTT(30)
<1>3. n % m = n - m * (n \div m)
  BY SMTT(30)
<1>4. r = n - m * q
  BY <1>1, <1>2, <1>3
<1>5. m * q \in Nat /\ m * q = q * m
  OBVIOUS
<1>6. n = q * m + r
  BY <1>4, <1>5
<1> QED
  BY <1>1, <1>2, <1>6, Zenon

-----------------------------------------------------------------------------
(* The least and the greatest.                                             *)

\* A finite set of numbers has a greatest and a least member.
LEMMA Extremes ==
    ASSUME NEW S, IsFiniteSet(S), S # {}, S \subseteq Int
    PROVE  /\ Max(S) \in S /\ \A x \in S : x <= Max(S)
           /\ Min(S) \in S /\ \A x \in S : Min(S) <= x
<1> DEFINE good == {T \in SUBSET S : T # {} =>
      (\E x \in T : \A y \in T : y <= x) /\ (\E x \in T : \A y \in T : x <= y)}
<1>1. {} \in good
  OBVIOUS
<1>2. ASSUME NEW T \in SUBSET S, NEW z \in S \ T, T \in good PROVE T \cup {z} \in good
  <2>1. CASE T = {}
    BY <2>1
  <2>2. CASE T # {}
    <3>1. PICK x \in T : \A y \in T : y <= x
      BY <1>2, <2>2
    <3>2. PICK w \in T : \A y \in T : w <= y
      BY <1>2, <2>2
    <3>3. \E v \in T \cup {z} : \A y \in T \cup {z} : y <= v
      <4>1. CASE z <= x
        BY <3>1, <4>1
      <4>2. CASE ~(z <= x)
        BY <3>1, <4>2
      <4> QED
        BY <4>1, <4>2
    <3>4. \E v \in T \cup {z} : \A y \in T \cup {z} : v <= y
      <4>1. CASE w <= z
        BY <3>2, <4>1
      <4>2. CASE ~(w <= z)
        BY <3>2, <4>2
      <4> QED
        BY <4>1, <4>2
    <3> QED
      BY <3>3, <3>4
  <2> QED
    BY <2>1, <2>2
<1> HIDE DEF good
<1>3. S \in good
  BY <1>1, <1>2, SubsetInduction
<1>4. (\E x \in S : \A y \in S : x >= y) /\ (\E x \in S : \A y \in S : x =< y)
  BY <1>3 DEF good
<1>5. Max(S) \in S /\ \A y \in S : Max(S) >= y
  BY <1>4 DEF Max
<1>6. Min(S) \in S /\ \A y \in S : Min(S) =< y
  BY <1>4 DEF Min
<1> QED
  BY <1>5, <1>6

\* Some number of a set is the least.
LEMMA LeastNumber ==
    ASSUME NEW S, S # {}, S \subseteq Nat
    PROVE  Min(S) \in S
<1>1. PICK w : w \in S
  OBVIOUS
<1> DEFINE low == {v \in S : v <= w}
<1>2. w \in low /\ low \subseteq S /\ low \subseteq Int /\ low \subseteq 0 .. w /\ w \in Nat
  <2>1. w \in Nat /\ w <= w
    BY <1>1
  <2>2. \A v \in low : v \in S /\ v \in Nat /\ v <= w
    OBVIOUS
  <2>3. \A v \in low : v \in Int /\ v \in 0 .. w
    BY <2>1, <2>2
  <2>4. w \in low
    BY <1>1, <2>1
  <2> QED
    BY <2>1, <2>2, <2>3, <2>4
<1>3. IsFiniteSet(low)
  <2>1. IsFiniteSet(0 .. w)
    BY <1>2, FS_Interval
  <2> HIDE DEF low
  <2> QED
    BY <1>2, <2>1, FS_Subset
<1>4. Min(low) \in low /\ \A x \in low : Min(low) <= x
  <2> HIDE DEF low
  <2> QED
    BY <1>2, <1>3, Extremes
<1>5. ASSUME NEW x \in S PROVE Min(low) <= x
  <2>1. CASE x <= w
    BY <1>4, <1>5, <2>1
  <2>2. CASE ~(x <= w)
    <3>1. Min(low) \in Nat /\ Min(low) <= w /\ x \in Nat
      BY <1>4, <1>5
    <3> QED
      BY <1>2, <2>2, <3>1
  <2> QED
    BY <2>1, <2>2
<1>6. \E v \in S : \A x \in S : v <= x
  BY <1>2, <1>4, <1>5
<1> QED
  BY <1>6 DEF Min

-----------------------------------------------------------------------------
(* Images and parts.                                                       *)

\* A function has finitely many values on a finite set.
LEMMA FiniteImage ==
    ASSUME NEW S, IsFiniteSet(S), NEW f
    PROVE  IsFiniteSet({f[x] : x \in S})
<1> DEFINE g == [x \in S |-> f[x]]
<1> DEFINE T == {f[x] : x \in S}
<1>1. g \in [S -> T] /\ \A t \in T : \E x \in S : g[x] = t
  OBVIOUS
<1> HIDE DEF g, T
<1>2. g \in Surjection(S, T)
  BY <1>1 DEF Surjection
<1>3. IsFiniteSet(T)
  BY <1>2, FS_Surjection
<1> QED
  BY <1>3 DEF T

\* A sum over names is a sum over what they name.
LEMMA SumOfImage ==
    ASSUME NEW S, IsFiniteSet(S), NEW f, NEW g,
           \A x \in S : g[f[x]] \in Int,
           \A x, y \in S : f[x] = f[y] => x = y
    PROVE  SumFunctionOnSet(g, {f[x] : x \in S}) = SumFunctionOnSet([x \in S |-> g[f[x]]], S)
<1> DEFINE h == [x \in S |-> g[f[x]]]
<1> DEFINE image(T) == {f[x] : x \in T}
<1> DEFINE good == {T \in SUBSET S : SumFunctionOnSet(g, image(T)) = SumFunctionOnSet(h, T)}
<1>1. {} \in good
  <2>1. image({}) = {}
    OBVIOUS
  <2> QED
    BY <2>1, SumOfNone
<1>2. ASSUME NEW T \in SUBSET S, NEW z \in S \ T, T \in good PROVE T \cup {z} \in good
  <2>1. image(T \cup {z}) = image(T) \cup {f[z]} /\ f[z] \notin image(T)
    OBVIOUS
  <2>2. IsFiniteSet(T)
    BY FS_Subset
  <2>3. IsFiniteSet(image(T))
    BY <2>2, FiniteImage
  <2>4. \A y \in image(T) \cup {f[z]} : g[y] \in Int
    OBVIOUS
  <2>5. \A x \in T \cup {z} : h[x] \in Int
    OBVIOUS
  <2>6. h[z] = g[f[z]] /\ z \notin T /\ T \cup {z} \in SUBSET S
    OBVIOUS
  <2>7. SumFunctionOnSet(g, image(T)) = SumFunctionOnSet(h, T)
    BY <1>2
  <2> HIDE DEF h, image
  <2>8. SumFunctionOnSet(g, image(T) \cup {f[z]}) = g[f[z]] + SumFunctionOnSet(g, image(T))
    BY <2>1, <2>3, <2>4, SumAdd
  <2>9. SumFunctionOnSet(h, T \cup {z}) = h[z] + SumFunctionOnSet(h, T)
    BY <2>2, <2>5, <2>6, SumAdd
  <2>10. SumFunctionOnSet(g, image(T \cup {z})) = SumFunctionOnSet(h, T \cup {z})
    BY <2>1, <2>6, <2>7, <2>8, <2>9
  <2> QED
    BY <2>6, <2>10
<1> HIDE DEF good
<1>3. S \in good
  BY <1>1, <1>2, SubsetInduction
<1> QED
  BY <1>3 DEF good

\* A part of a sum of natural numbers is at most the whole.
LEMMA SumOfPart ==
    ASSUME NEW S, IsFiniteSet(S), NEW T \in SUBSET S, NEW f, \A x \in S : f[x] \in Nat
    PROVE  SumFunctionOnSet(f, T) <= SumFunctionOnSet(f, S)
<1> DEFINE good == {U \in SUBSET S : SumFunctionOnSet(f, U \cap T) <= SumFunctionOnSet(f, U)}
<1>1. {} \in good
  <2>1. {} \cap T = {} /\ SumFunctionOnSet(f, {}) = 0
    BY SumOfNone
  <2> QED
    BY <2>1
<1>2. ASSUME NEW U \in SUBSET S, NEW z \in S \ U, U \in good PROVE U \cup {z} \in good
  <2>1. IsFiniteSet(U) /\ IsFiniteSet(U \cap T)
    BY FS_Subset
  <2>2. /\ \A x \in U \cup {z} : f[x] \in Int
        /\ \A x \in (U \cap T) \cup {z} : f[x] \in Int
        /\ \A x \in U : f[x] \in Int
        /\ \A x \in U \cap T : f[x] \in Int
        /\ z \notin U /\ z \notin U \cap T /\ f[z] \in Nat
    OBVIOUS
  <2>3. SumFunctionOnSet(f, U \cup {z}) = f[z] + SumFunctionOnSet(f, U)
    BY <2>1, <2>2, SumAdd
  <2>4. SumFunctionOnSet(f, (U \cap T) \cup {z}) = f[z] + SumFunctionOnSet(f, U \cap T)
    BY <2>1, <2>2, SumAdd
  <2>5. SumFunctionOnSet(f, U) \in Int /\ SumFunctionOnSet(f, U \cap T) \in Int
    BY <2>1, <2>2, SumType
  <2>6. SumFunctionOnSet(f, U \cap T) <= SumFunctionOnSet(f, U)
    BY <1>2
  <2>7. CASE z \in T
    <3>1. (U \cup {z}) \cap T = (U \cap T) \cup {z}
      BY <2>7
    <3>2. SumFunctionOnSet(f, (U \cup {z}) \cap T) = SumFunctionOnSet(f, (U \cap T) \cup {z})
      BY <3>1, Zenon
    <3>3. SumFunctionOnSet(f, (U \cup {z}) \cap T) <= SumFunctionOnSet(f, U \cup {z})
      BY <2>2, <2>3, <2>4, <2>5, <2>6, <3>2
    <3> QED
      BY <2>2, <3>3
  <2>8. CASE z \notin T
    <3>1. (U \cup {z}) \cap T = U \cap T
      BY <2>8
    <3>2. SumFunctionOnSet(f, (U \cup {z}) \cap T) = SumFunctionOnSet(f, U \cap T)
      BY <3>1, Zenon
    <3>3. SumFunctionOnSet(f, (U \cup {z}) \cap T) <= SumFunctionOnSet(f, U \cup {z})
      BY <2>2, <2>3, <2>5, <2>6, <3>2
    <3> QED
      BY <2>2, <3>3
  <2> QED
    BY <2>7, <2>8
<1> HIDE DEF good
<1>3. S \in good
  BY <1>1, <1>2, SubsetInduction
<1>4. S \cap T = T
  OBVIOUS
<1> QED
  BY <1>3, <1>4 DEF good

\* The parts of a sum.
LEMMA SumOfSplit ==
    ASSUME NEW S, IsFiniteSet(S), NEW T \in SUBSET S, NEW f, \A x \in S : f[x] \in Int
    PROVE  SumFunctionOnSet(f, S) = SumFunctionOnSet(f, T) + SumFunctionOnSet(f, S \ T)
<1> DEFINE good == {U \in SUBSET S :
      SumFunctionOnSet(f, U) = SumFunctionOnSet(f, U \cap T) + SumFunctionOnSet(f, U \ T)}
<1>1. {} \in good
  <2>1. {} \cap T = {} /\ {} \ T = {} /\ SumFunctionOnSet(f, {}) = 0
    BY SumOfNone
  <2> QED
    BY <2>1
<1>2. ASSUME NEW U \in SUBSET S, NEW z \in S \ U, U \in good PROVE U \cup {z} \in good
  <2>1. IsFiniteSet(U) /\ IsFiniteSet(U \cap T) /\ IsFiniteSet(U \ T)
    BY FS_Subset
  <2>2. /\ \A x \in U \cup {z} : f[x] \in Int
        /\ \A x \in (U \cap T) \cup {z} : f[x] \in Int
        /\ \A x \in (U \ T) \cup {z} : f[x] \in Int
        /\ \A x \in U \cap T : f[x] \in Int
        /\ \A x \in U \ T : f[x] \in Int
        /\ z \notin U /\ z \notin U \cap T /\ z \notin U \ T /\ f[z] \in Int
    OBVIOUS
  <2>3. SumFunctionOnSet(f, U \cup {z}) = f[z] + SumFunctionOnSet(f, U)
    BY <2>1, <2>2, SumAdd
  <2>4. SumFunctionOnSet(f, (U \cap T) \cup {z}) = f[z] + SumFunctionOnSet(f, U \cap T)
    BY <2>1, <2>2, SumAdd
  <2>5. SumFunctionOnSet(f, (U \ T) \cup {z}) = f[z] + SumFunctionOnSet(f, U \ T)
    BY <2>1, <2>2, SumAdd
  <2>6. SumFunctionOnSet(f, U \cap T) \in Int /\ SumFunctionOnSet(f, U \ T) \in Int
    BY <2>1, <2>2, SumType
  <2>7. SumFunctionOnSet(f, U) = SumFunctionOnSet(f, U \cap T) + SumFunctionOnSet(f, U \ T)
    BY <1>2
  <2>8. CASE z \in T
    <3>1. (U \cup {z}) \cap T = (U \cap T) \cup {z} /\ (U \cup {z}) \ T = U \ T
      BY <2>8
    <3>2. /\ SumFunctionOnSet(f, (U \cup {z}) \cap T) = SumFunctionOnSet(f, (U \cap T) \cup {z})
          /\ SumFunctionOnSet(f, (U \cup {z}) \ T) = SumFunctionOnSet(f, U \ T)
      BY <3>1, Zenon
    <3>3. SumFunctionOnSet(f, U \cup {z})
            = SumFunctionOnSet(f, (U \cup {z}) \cap T) + SumFunctionOnSet(f, (U \cup {z}) \ T)
      BY <2>2, <2>3, <2>4, <2>6, <2>7, <3>2
    <3> QED
      BY <2>2, <3>3
  <2>9. CASE z \notin T
    <3>1. (U \cup {z}) \cap T = U \cap T /\ (U \cup {z}) \ T = (U \ T) \cup {z}
      BY <2>9
    <3>2. /\ SumFunctionOnSet(f, (U \cup {z}) \cap T) = SumFunctionOnSet(f, U \cap T)
          /\ SumFunctionOnSet(f, (U \cup {z}) \ T) = SumFunctionOnSet(f, (U \ T) \cup {z})
      BY <3>1, Zenon
    <3>3. SumFunctionOnSet(f, U \cup {z})
            = SumFunctionOnSet(f, (U \cup {z}) \cap T) + SumFunctionOnSet(f, (U \cup {z}) \ T)
      BY <2>2, <2>3, <2>5, <2>6, <2>7, <3>2
    <3> QED
      BY <2>2, <3>3
  <2> QED
    BY <2>8, <2>9
<1> HIDE DEF good
<1>3. S \in good
  BY <1>1, <1>2, SubsetInduction
<1>4. S \cap T = T
  OBVIOUS
<1> QED
  BY <1>3, <1>4 DEF good

-----------------------------------------------------------------------------
(* Iteration over a finite set, member by member.                          *)

\* The recursive function of a fold that takes pick[s] from s last.
IsIteration(g, first, step, pick, S) ==
    g = [s \in SUBSET S |-> IF s = {} THEN first ELSE step[<<pick[s], g[s \ {pick[s]}]>>]]

LEMMA IterationStep ==
    ASSUME NEW g, NEW first, NEW step, NEW pick, NEW S, IsIteration(g, first, step, pick, S),
           NEW s \in SUBSET S
    PROVE  g[s] = IF s = {} THEN first ELSE step[<<pick[s], g[s \ {pick[s]}]>>]
  BY DEF IsIteration

LEMMA IterationIsUnique ==
    ASSUME NEW S, IsFiniteSet(S), NEW first, NEW step, NEW pick,
           \A s \in SUBSET S : s # {} => pick[s] \in s,
           NEW g, NEW h, NEW R, IsIteration(g, first, step, pick, S),
           IsIteration(h, first, step, pick, R), NEW T \in SUBSET S, T \in SUBSET R
    PROVE  g[T] = h[T]
<1> DEFINE Bad == {s \in SUBSET T : g[s] # h[s]}
<1>1. SUFFICES ASSUME Bad # {} PROVE FALSE
  OBVIOUS
<1>2. IsFiniteSet(T)
  BY FS_Subset
<1>3. Bad \subseteq SUBSET T
  OBVIOUS
<1> HIDE DEF Bad
<1>b. PICK s \in Bad : \A U \in Bad : U \subseteq s => U = s
  BY <1>1, <1>2, <1>3, MinimalSubset
<1> USE DEF Bad
<1>4. s \in SUBSET S /\ s \in SUBSET R /\ s \in SUBSET T
  OBVIOUS
<1>5. /\ g[s] = IF s = {} THEN first ELSE step[<<pick[s], g[s \ {pick[s]}]>>]
      /\ h[s] = IF s = {} THEN first ELSE step[<<pick[s], h[s \ {pick[s]}]>>]
  BY <1>4, IterationStep
<1>6. s # {}
  BY <1>5
<1>7. pick[s] \in s
  BY <1>4, <1>6
<1>8. s \ {pick[s]} \notin Bad
  BY <1>b, <1>7
<1>9. g[s \ {pick[s]}] = h[s \ {pick[s]}]
  BY <1>8, <1>4
<1> QED
  BY <1>5, <1>6, <1>9

LEMMA IterationExists ==
    ASSUME NEW S, IsFiniteSet(S), NEW first, NEW step, NEW pick,
           \A s \in SUBSET S : s # {} => pick[s] \in s
    PROVE  \E g : IsIteration(g, first, step, pick, S)
<1> DEFINE It(g, s) == IsIteration(g, first, step, pick, s)
<1> DEFINE Bad == {s \in SUBSET S : ~ \E g : It(g, s)}
<1> DEFINE G(s) == CHOOSE g : It(g, s)
<1>1. SUFFICES ASSUME Bad # {} PROVE FALSE
  OBVIOUS
<1>0. Bad \subseteq SUBSET S
  OBVIOUS
<1> HIDE DEF Bad
<1>2. PICK T \in Bad : \A U \in Bad : U \subseteq T => U = T
  BY <1>0, <1>1, MinimalSubset
<1> USE DEF Bad
<1>a. T \in SUBSET S
  BY <1>0, <1>2
<1> HIDE DEF It
<1>3. ASSUME NEW s \in SUBSET T, s # T PROVE It(G(s), s)
  BY <1>2, <1>3, <1>a
<1>4. IsFiniteSet(T)
  BY <1>a, FS_Subset
<1> HIDE DEF Bad
<1> DEFINE c == pick[T]
<1> DEFINE h == [s \in SUBSET T |->
                   IF s # T THEN G(s)[s]
                   ELSE IF s = {} THEN first ELSE step[<<c, G(T \ {c})[T \ {c}]>>]]
<1> HIDE DEF G
<1>5. ASSUME NEW s \in SUBSET T
      PROVE  h[s] = IF s = {} THEN first ELSE step[<<pick[s], h[s \ {pick[s]}]>>]
  <2>0. s \in SUBSET S
    BY <1>a
  <2>1. CASE s = {} /\ s # T
    <3>1. IsIteration(G(s), first, step, pick, s)
      BY <2>1, <1>3 DEF It
    <3>2. G(s)[s] = first
      BY <2>1, <3>1, IterationStep
    <3> QED
      BY <2>1, <3>2
  <2>2. CASE s = {} /\ s = T
    BY <2>2
  <2>3. CASE s # {} /\ s = T
    <3>1. c \in T
      BY <2>3, <1>a
    <3>2. h[T \ {c}] = G(T \ {c})[T \ {c}]
      BY <3>1
    <3>3. h[T] = step[<<c, G(T \ {c})[T \ {c}]>>]
      BY <2>3
    <3> QED
      BY <3>2, <3>3, <2>3
  <2>4. CASE s # {} /\ s # T
    <3> DEFINE d == pick[s]
    <3>1. d \in s
      BY <2>4, <2>0
    <3> HIDE DEF d
    <3>2. /\ IsIteration(G(s), first, step, pick, s)
          /\ IsIteration(G(s \ {d}), first, step, pick, s \ {d})
      BY <1>3, <2>4, <3>1 DEF It
    <3>3. h[s] = G(s)[s] /\ h[s \ {d}] = G(s \ {d})[s \ {d}]
      BY <2>4, <3>1
    <3>4. G(s)[s] = step[<<d, G(s)[s \ {d}]>>]
      BY <3>2, <2>4, IterationStep DEF d
    <3>5. IsFiniteSet(s) /\ \A t \in SUBSET s : t # {} => pick[t] \in t
      BY <1>4, <2>0, FS_Subset
    <3>6. G(s)[s \ {d}] = G(s \ {d})[s \ {d}]
      BY <3>2, <3>5, IterationIsUnique
    <3> QED
      BY <3>3, <3>4, <3>6, <2>4 DEF d
  <2> QED
    BY <2>1, <2>2, <2>3, <2>4
<1>6. It(h, T)
  <2> DEFINE k == [s \in SUBSET T |-> IF s = {} THEN first ELSE step[<<pick[s], h[s \ {pick[s]}]>>]]
  <2>1. \A s \in SUBSET T : h[s] = k[s]
    BY <1>5
  <2>2. h = k
    BY <2>1
  <2> HIDE DEF h
  <2> QED
    BY <2>2 DEF It, IsIteration
<1> HIDE DEF h
<1>7. ~ \E g : It(g, T)
  BY <1>2 DEF Bad
<1> QED
  BY <1>6, <1>7

\* A property kept by taking in the member picked holds of the whole set.
LEMMA PickInduction ==
    ASSUME NEW S, IsFiniteSet(S), NEW pick, \A s \in SUBSET S : s # {} => pick[s] \in s,
           NEW good, {} \in good,
           \A s \in SUBSET S : s # {} /\ s \ {pick[s]} \in good => s \in good
    PROVE  S \in good
<1> DEFINE Bad == {s \in SUBSET S : s \notin good}
<1>1. SUFFICES ASSUME Bad # {} PROVE FALSE
  OBVIOUS
<1>2. Bad \subseteq SUBSET S
  OBVIOUS
<1> HIDE DEF Bad
<1>3. PICK s \in Bad : \A U \in Bad : U \subseteq s => U = s
  BY <1>1, <1>2, MinimalSubset
<1> USE DEF Bad
<1>4. s \in SUBSET S /\ s \notin good /\ s # {}
  OBVIOUS
<1>5. pick[s] \in s
  BY <1>4
<1>6. s \ {pick[s]} \notin Bad
  BY <1>3, <1>5
<1>7. s \ {pick[s]} \in good
  BY <1>4, <1>6
<1> QED
  BY <1>4, <1>7

\* The values stay in a set that every step stays in.
LEMMA IterationType ==
    ASSUME NEW S, IsFiniteSet(S), NEW first, NEW step, NEW pick,
           \A s \in SUBSET S : s # {} => pick[s] \in s,
           NEW g, IsIteration(g, first, step, pick, S),
           NEW B, first \in B, \A x \in S : \A y \in B : step[<<x, y>>] \in B
    PROVE  \A s \in SUBSET S : g[s] \in B
<1> DEFINE good == {s \in SUBSET S : g[s] \in B}
<1> SUFFICES ASSUME NEW T \in SUBSET S PROVE T \in good
  OBVIOUS
<1>1. IsFiniteSet(T) /\ \A s \in SUBSET T : s # {} => pick[s] \in s
  BY FS_Subset
<1>2. {} \in good
  <2>1. {} \in SUBSET S
    OBVIOUS
  <2>2. g[{}] = first
    BY <2>1, IterationStep
  <2> QED
    BY <2>1, <2>2
<1>3. ASSUME NEW s \in SUBSET T, s # {}, s \ {pick[s]} \in good PROVE s \in good
  <2>1. s \in SUBSET S /\ pick[s] \in S /\ g[s \ {pick[s]}] \in B
    BY <1>3
  <2>2. g[s] = step[<<pick[s], g[s \ {pick[s]}]>>]
    BY <1>3, <2>1, IterationStep
  <2> QED
    BY <2>1, <2>2
<1> HIDE DEF good
<1> QED
  BY <1>1, <1>2, <1>3, PickInduction

=============================================================================
