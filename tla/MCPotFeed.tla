----------------------------- MODULE MCPotFeed -----------------------------
(***************************************************************************)
(* What the pods know of the pot.  The listener of one process twice: with *)
(* PotService behind it and two statements to each refresh, and with two   *)
(* plain domains behind it, whose signals are recorded.  And what a pod    *)
(* works out itself, with the code's numbers: when the pot is drawn and    *)
(* who wins it.  These share no variable, so a behaviour moves one of them. *)
(***************************************************************************)
EXTENDS PotFeed, PgFanout, PotSchedule, PotDraw

MCChannelsOf(d) == {"pot_changed"}
MCNamed(d) == IF d = "pot" THEN {"pot_changed"} ELSE {"shop_changed"}

VARIABLE part    \* what moves in this behaviour

\* A draw that is not looked at.
DrawRests ==
    /\ holders = [h \in Indices |-> 0] /\ roll = 0 /\ result = "none"
    /\ holder = 1 /\ walked = 0

MCInit ==
    /\ Init /\ FanInit /\ ScheduleInit
    /\ \/ part \in {"feed", "fanout", "schedule"} /\ DrawRests
       \/ part = "draw" /\ DrawInit

MCNext ==
    /\ UNCHANGED part
    /\ \/ part = "feed" /\ Next /\ UNCHANGED <<fanVars, scheduleVars, drawVars>>
       \/ part = "fanout" /\ FanNext /\ UNCHANGED <<vars, scheduleVars, drawVars>>
       \/ part = "schedule" /\ ScheduleNext /\ UNCHANGED <<vars, fanVars, drawVars>>
       \/ part = "draw" /\ DrawNext /\ UNCHANGED <<vars, fanVars, scheduleVars>>

Runs(A) == part = "feed" /\ A

\* The listener reconnects, and the worker and the sweeper go on with what they
\* have begun and come back.
Fairness ==
    /\ WF_vars(Runs(OpenFirst))
    /\ \A r \in Replicas :
           /\ WF_vars(Runs(Listens(r)))
           /\ WF_vars(Runs(WorkerTakes(r) \/ Refreshes(r, "worker")))
           /\ WF_vars(Runs(SweeperTurns(r) \/ Refreshes(r, "sweeper")))

MCSpec == MCInit /\ [][MCNext]_<<part, vars, fanVars, scheduleVars, drawVars>> /\ Fairness
=============================================================================
