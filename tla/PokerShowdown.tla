--------------------------- MODULE PokerShowdown ---------------------------
(* One showdown, layer by layer: the loop of credits_from_awards.           *)
EXTENDS PokerPots

CONSTANTS
    MaxCommit,      \* bound: chips one seat put in
    MaxStrength     \* bound: how many different hands there are

ASSUME ShowdownAssumption == MaxCommit \in Nat /\ MaxStrength \in Nat

VARIABLES
    committed,      \* chips every seat put in
    contenders,     \* seats that have not folded
    strength,
    shared,         \* the level up to which the pot has been shared out
    credits

showdownVars == <<committed, contenders, strength, shared, credits>>

\* A contender without chips in the pot (dealt in, nobody bet) is possible.
ShowdownInit ==
    /\ committed \in [Seats -> 0 .. MaxCommit]
    /\ contenders \in (SUBSET Seats) \ {{}}
    /\ strength \in [Seats -> 1 .. MaxStrength]
    /\ shared = 0
    /\ credits = [i \in Seats |-> 0]

AwardLayer ==
    LET left == {l \in Levels(committed) : l > shared} IN
    /\ left # {}
    /\ shared' = Min(left)
    /\ credits' = [i \in Seats |->
                     credits[i] + Share(committed, contenders, strength, Min(left), i)]
    /\ UNCHANGED <<committed, contenders, strength>>

ShowdownNext == AwardLayer

ShowdownSpec == ShowdownInit /\ [][ShowdownNext]_showdownVars

SharedOut == {l \in Levels(committed) : l > shared} = {}

\* What the seats put in, of each no more than `amount`.
UpTo(amount) == SumFunction([j \in Seats |-> AtMost(committed[j], amount)])

\* What seat i can win: from every seat no more than it put in itself.
Matched(i) == UpTo(committed[i])

\* The layers are a way of computing this: every chip is paid out except the ones
\* a folded seat put in above every contender.
PotIsSharedOut ==
    LET deepest == Max({committed[i] : i \in contenders})
    IN  SharedOut => Total(credits) = UpTo(deepest)

\* Nobody wins from a seat more than they put in against it, and the hand that
\* beats every other wins all of that.
BestHandTakesWhatItMatched ==
    SharedOut =>
        \A i \in Seats :
            /\ credits[i] <= (IF i \in contenders THEN Matched(i) ELSE 0)
            /\ Winners(strength, contenders) = {i} => credits[i] = Matched(i)

\* The layers share out what the bets say: all of it, to those who matched it.
ShowdownIsFair == PotIsSharedOut /\ BestHandTakesWhatItMatched

=============================================================================
