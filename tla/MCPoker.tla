------------------------------ MODULE MCPoker ------------------------------
(***************************************************************************)
(* A table of three seats: three players, or two of them heads-up.  Both   *)
(* are checked for safety; that hands end is checked heads-up.  Beside it  *)
(* the showdown on its own, for stakes and folds that one hand of the      *)
(* table does not reach.  The two have no variables in common, so a        *)
(* behaviour moves one of them.                                            *)
(***************************************************************************)
EXTENDS PokerTable, PokerShowdown

CONSTANT HeadsUp        \* the two players who play without the third

\* Flop and Turn are left like the River, for one more round.
MCStreets == <<"PreFlop", "River">>

VARIABLE seated     \* the players who come to this table; none at a showdown

\* A showdown that is not looked at.
ShowdownRests ==
    /\ committed = [s \in Seats |-> 0] /\ contenders = Seats
    /\ strength = [s \in Seats |-> 1]
    /\ shared = 0 /\ credits = [s \in Seats |-> 0]

MCInit ==
    /\ Init
    /\ \/ seated \in {Players, HeadsUp} /\ ShowdownRests
       \/ seated = {} /\ ShowdownInit

MCNext ==
    /\ UNCHANGED seated
    /\ \/ /\ seated # {} /\ UNCHANGED showdownVars
          /\ \/ \E u \in seated : Play(u)
             \/ ActionTimeout
             \/ CommitTask
             \/ PayoutTask
       \/ seated = {} /\ ShowdownNext /\ UNCHANGED vars

\* The runtime runs every spawned task, and the sleep of a countdown ends.
Fairness ==
    /\ WF_vars(seated = HeadsUp /\ ActionTimeout)
    /\ WF_vars(seated = HeadsUp /\ CommitTask)
    /\ WF_vars(seated = HeadsUp /\ PayoutTask)

MCSpec == MCInit /\ [][MCNext]_<<seated, vars, showdownVars>> /\ Fairness

\* A hand that is dealt ends and its pot is settled, whatever the players do or leave
\* undone: blinds are answered, turns time out, and a failed payout ends the wait too.
HandEnds ==
    (seated = HeadsUp /\ HandUnderWay) ~> ~HandUnderWay
=============================================================================
