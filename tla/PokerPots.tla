----------------------------- MODULE PokerPots -----------------------------
(***************************************************************************)
(* side_pots, calculate_pot_awards and credits_from_awards of the poker    *)
(* table (late-ssh/src/app/lobby/house/poker/svc.rs): how a pot is cut     *)
(* into layers and the layers shared out.  The five best cards of a seat   *)
(* are abstracted to a number, its strength.                               *)
(***************************************************************************)
EXTENDS Integers, FiniteSets, FiniteSetsExt, Functions

CONSTANT NumSeats       \* MAX_SEATS

ASSUME NumSeatsAssumption == NumSeats \in Nat /\ NumSeats >= 2

Seats == 0 .. NumSeats - 1

AtMost(a, b) == IF a < b THEN a ELSE b

Total(amount) == MapThenSumSet(LAMBDA i : amount[i], Seats)

\* The distinct amounts put in; each ends a layer of the pot.
Levels(committed) == {committed[i] : i \in Seats} \ {0}

Layer(committed, level) ==
    LET below == {l \in Levels(committed) : l < level} \union {0}
        contributors == {i \in Seats : committed[i] >= level}
    IN  [amount |-> (level - Max(below)) * Cardinality(contributors),
         contributors |-> contributors]

Winners(strength, eligible) ==
    {i \in eligible : \A j \in eligible : strength[j] <= strength[i]}

\* Mutant: every contender is eligible for every layer.
ShareOfAll(committed, contenders, strength, level, i) ==
    LET layer == Layer(committed, level)
        winners == Winners(strength, contenders)
    IN  IF i \in winners
        THEN layer.amount \div Cardinality(winners)
             + (IF Cardinality({j \in winners : j < i}) < layer.amount % Cardinality(winners)
                THEN 1 ELSE 0)
        ELSE 0

\* What seat i gets of the layer that ends at level: the best hands among the
\* contributors who have not folded split it, the lowest seats take the odd chips.
Share(committed, contenders, strength, level, i) ==
    LET layer == Layer(committed, level)
        winners == Winners(strength, layer.contributors \intersect contenders)
    IN  IF i \in winners
        THEN layer.amount \div Cardinality(winners)
             + (IF Cardinality({j \in winners : j < i}) < layer.amount % Cardinality(winners)
                THEN 1 ELSE 0)
        ELSE 0

\* The credit of every seat at a showdown.
Credits(committed, contenders, strength) ==
    [i \in Seats |->
        SumFunction([l \in Levels(committed) |-> Share(committed, contenders, strength, l, i)])]

=============================================================================
