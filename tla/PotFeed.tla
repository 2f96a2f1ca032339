------------------------------ MODULE PotFeed ------------------------------
(***************************************************************************)
(* How every replica's pot badge and the winner's banner follow the pots   *)
(* table: transactions commit with their pot_changed notification, the     *)
(* process listener hands it to PotService's notify worker, and the worker *)
(* and the sweeper both run PotService::refresh, two statements and a      *)
(* publication into the shared snapshot.                                   *)
(*                                                                         *)
(* The transactions themselves are module Pot; here each is the one commit *)
(* it has been shown to be.                                                *)
(***************************************************************************)
EXTENDS PgListener

CONSTANTS
    MaxPots,        \* bound: pots
    MaxBuys,        \* bound: buys, over all pots
    MaxFaults       \* bound: failed reads, dropped connections, restarts

PotIds == 1 .. MaxPots
Readers == {"worker", "sweeper"}    \* the two tasks that call refresh
Changes == {"bought", "drawn", "rolled"}

ASSUME FeedAssumption ==
    /\ MaxPots \in Nat \ {0}
    /\ MaxBuys \in Nat
    /\ MaxFaults \in Nat
    /\ Domains = {"pot"}
    /\ ChannelsOf("pot") = {"pot_changed"}

VARIABLES
    open,       \* the open pot, 0 before the first sweep of the deployment
    sold,       \* tickets of each pot
    drawn,      \* the pots that were drawn
    notified,   \* commits that notified so far
    snapshot,   \* each replica's published PotSnapshot
    task,       \* where each replica's worker and sweeper are in refresh
    won,        \* PotEvent::Won broadcasts in each replica, by pot
    faults      \* faults so far

table == <<open, sold, drawn, notified>>
vars == <<listener, table, snapshot, task, won, faults>>

\* PotSnapshot::default and a snapshot of a pot.
NoSnapshot == [pot |-> 0, tickets |-> 0]

\* A task between refreshes.  Two auxiliary fields serve the properties: `seen`,
\* how many notified commits the worker's last find_open saw, and `failed`,
\* whether its last refresh gave up.
AtRest == [pc |-> "rest", signal |-> Resync, pot |-> 0, tickets |-> 0, seen |-> 0, failed |-> FALSE]

Init ==
    /\ ListenerInit
    /\ open = 0
    /\ sold = [p \in PotIds |-> 0]
    /\ drawn = {}
    /\ notified = 0
    /\ snapshot = [r \in Replicas |-> NoSnapshot]
    /\ task = [r \in Replicas |-> [t \in Readers |-> AtRest]]
    /\ won = [r \in Replicas |-> [p \in PotIds |-> 0]]
    /\ faults = 0

-----------------------------------------------------------------------------
(* Commits *)

\* notify_changed: the payload names the pot that was open.
Announced(change) ==
    /\ Broadcast([channel |-> "pot_changed", change |-> change, pot |-> open])
    /\ notified' = notified + 1

\* settle_due opens the first pot, and notifies nobody.
OpenFirst ==
    /\ open = 0
    /\ open' = 1
    /\ UNCHANGED <<link, inbox, wire, sold, drawn, notified, snapshot, task, won, faults>>

\* Tickets sold so far, which MaxBuys bounds.
SoldSoFar ==
    LET total[p \in 0 .. MaxPots] == IF p = 0 THEN 0 ELSE sold[p] + total[p - 1]
    IN  total[MaxPots]

\* buy, with its notification in the same transaction.
Buy ==
    /\ open # 0
    /\ SoldSoFar < MaxBuys
    /\ sold' = [sold EXCEPT ![open] = @ + 1]
    /\ Announced("bought")
    /\ UNCHANGED <<link, inbox, open, drawn, snapshot, task, won, faults>>

\* settle_due settles the open pot and opens the next.
Settle ==
    /\ open \in 1 .. MaxPots - 1
    /\ open' = open + 1
    /\ drawn' = IF sold[open] > 0 THEN drawn \cup {open} ELSE drawn
    /\ Announced(IF sold[open] > 0 THEN "drawn" ELSE "rolled")
    /\ UNCHANGED <<link, inbox, sold, snapshot, task, won, faults>>

-----------------------------------------------------------------------------
(* PotService::refresh, in the notify worker and in the sweeper *)

UnchangedOutside == UNCHANGED <<link, wire, table, faults>>

\* start_notify_worker takes the next signal.
WorkerTakes(r) ==
    /\ task[r]["worker"].pc = "rest"
    /\ inbox[r]["pot"] # <<>>
    /\ task' = [task EXCEPT ![r]["worker"] =
           [@ EXCEPT !.pc = "find", !.signal = Head(inbox[r]["pot"])]]
    /\ inbox' = [inbox EXCEPT ![r]["pot"] = Tail(@)]
    /\ UnchangedOutside /\ UNCHANGED <<snapshot, won>>

\* Mutant: sweep without its trailing refresh.
SweeperTurnsNoRefresh(r) == FALSE /\ UNCHANGED vars

\* sweep comes to its trailing refresh, every minute.
SweeperTurns(r) ==
    /\ task[r]["sweeper"].pc = "rest"
    /\ task' = [task EXCEPT ![r]["sweeper"].pc = "find"]
    /\ UnchangedOutside /\ UNCHANGED <<inbox, snapshot, won>>

\* refresh, first statement: find_open.
Find(r, t) ==
    /\ task[r][t].pc = "find"
    /\ task' = [task EXCEPT ![r][t] =
           [@ EXCEPT !.pc = IF open = 0 THEN "publish" ELSE "holders", !.pot = open, !.tickets = 0,
                     !.seen = IF t = "worker" THEN notified ELSE 0]]
    /\ UnchangedOutside /\ UNCHANGED <<inbox, snapshot, won>>

\* Mutant: the tickets of whichever pot is open by now.
HoldersOfOpen(r, t) ==
    /\ task[r][t].pc = "holders"
    /\ task' = [task EXCEPT ![r][t] = [@ EXCEPT !.pc = "publish", !.tickets = sold[open]]]
    /\ UnchangedOutside /\ UNCHANGED <<inbox, snapshot, won>>

\* refresh, second statement: holders of the pot the first one found.
Holders(r, t) ==
    /\ task[r][t].pc = "holders"
    /\ task' = [task EXCEPT ![r][t] =
           [@ EXCEPT !.pc = "publish", !.tickets = sold[task[r][t].pot]]]
    /\ UnchangedOutside /\ UNCHANGED <<inbox, snapshot, won>>

\* What the worker does after its re-read, whether that worked or not: a drawn
\* pot's payload becomes PotEvent::Won.
Won(r, t) ==
    LET signal == task[r][t].signal
    IN  IF t = "worker" /\ signal.kind = "notify" /\ signal.message.change = "drawn"
        THEN won' = [won EXCEPT ![r][signal.message.pot] = @ + 1]
        ELSE UNCHANGED won

\* The task as it goes back to rest.
Rested(r, t, gaveUp) ==
    [AtRest EXCEPT !.seen = task[r][t].seen, !.failed = gaveUp /\ t = "worker"]

\* The answer arrived: send_replace.
Publish(r, t) ==
    /\ task[r][t].pc = "publish"
    /\ snapshot' = [snapshot EXCEPT ![r] = [pot |-> task[r][t].pot, tickets |-> task[r][t].tickets]]
    /\ Won(r, t)
    /\ task' = [task EXCEPT ![r][t] = Rested(r, t, FALSE)]
    /\ UnchangedOutside /\ UNCHANGED inbox

\* Mutant: a resync whose read fails is given up like any other.
ReadFailsNoRetry(r, t) ==
    /\ task[r][t].pc \in {"find", "holders"}
    /\ faults < MaxFaults
    /\ faults' = faults + 1
    /\ Won(r, t)
    /\ task' = [task EXCEPT ![r][t] = Rested(r, t, task[r][t].signal.kind = "notify")]
    /\ UNCHANGED <<listener, table, snapshot>>

\* Mutant: a notification is retried as well, its banner included.
ReadFailsRetriesAll(r, t) ==
    /\ task[r][t].pc \in {"find", "holders"}
    /\ faults < MaxFaults
    /\ faults' = faults + 1
    /\ IF t = "worker"
       THEN task' = [task EXCEPT ![r][t].pc = "find"] /\ Won(r, t)
       ELSE task' = [task EXCEPT ![r][t] = Rested(r, t, TRUE)] /\ UNCHANGED won
    /\ UNCHANGED <<listener, table, snapshot>>

\* A statement of the refresh fails: a resync retries until it lands
\* (read_until_ok), a notification and a sweep log it and go on.
ReadFails(r, t) ==
    /\ task[r][t].pc \in {"find", "holders"}
    /\ faults < MaxFaults
    /\ faults' = faults + 1
    /\ IF t = "worker" /\ task[r][t].signal.kind = "resync"
       THEN task' = [task EXCEPT ![r][t].pc = "find"] /\ UNCHANGED won
       ELSE task' = [task EXCEPT ![r][t] = Rested(r, t, TRUE)] /\ Won(r, t)
    /\ UNCHANGED <<listener, table, snapshot>>

-----------------------------------------------------------------------------
(* The process *)

Listens(r) == ListenerStep(r) /\ UNCHANGED <<table, snapshot, task, won, faults>>

Drop(r) ==
    /\ faults < MaxFaults
    /\ faults' = faults + 1
    /\ Disconnect(r)
    /\ UNCHANGED <<table, snapshot, task, won>>

\* The replica restarts with empty queues and no snapshot.
Restart(r) ==
    /\ faults < MaxFaults
    /\ faults' = faults + 1
    /\ link' = [link EXCEPT ![r] = "down"]
    /\ wire' = [wire EXCEPT ![r] = <<>>]
    /\ inbox' = [inbox EXCEPT ![r] = [d \in Domains |-> <<>>]]
    /\ snapshot' = [snapshot EXCEPT ![r] = NoSnapshot]
    /\ task' = [task EXCEPT ![r] = [t \in Readers |-> AtRest]]
    /\ UNCHANGED <<table, won>>

Refreshes(r, t) == Find(r, t) \/ Holders(r, t) \/ Publish(r, t)

Next ==
    \/ OpenFirst \/ Buy \/ Settle
    \/ \E r \in Replicas : WorkerTakes(r) \/ SweeperTurns(r) \/ Listens(r) \/ Drop(r) \/ Restart(r)
    \/ \E r \in Replicas, t \in Readers : Refreshes(r, t) \/ ReadFails(r, t)

Spec == Init /\ [][Next]_vars

\* The tasks of a live process keep running and the connection comes back; faults
\* are bounded and have no fairness, nor has anybody to buy.
FairSpec ==
    /\ Spec
    /\ WF_vars(OpenFirst)
    /\ \A r \in Replicas :
           /\ WF_vars(Listens(r))
           /\ WF_vars(WorkerTakes(r) \/ Refreshes(r, "worker"))
           /\ WF_vars(SweeperTurns(r) \/ Refreshes(r, "sweeper"))

-----------------------------------------------------------------------------
(* Properties *)

Messages == [channel : {"pot_changed"}, change : Changes, pot : PotIds]
Signals == {Resync} \cup {Notify(message) : message \in Messages}

TaskStates == [pc : {"rest", "find", "holders", "publish"}, signal : Signals,
               pot : {0} \cup PotIds, tickets : Nat, seen : Nat, failed : BOOLEAN]

TypeOK ==
    /\ link \in [Replicas -> {"down", "connected", "listening", "live"}]
    /\ wire \in [Replicas -> Seq(Messages)]
    /\ inbox \in [Replicas -> [Domains -> Seq(Signals)]]
    /\ open \in {0} \cup PotIds
    /\ sold \in [PotIds -> Nat]
    /\ drawn \subseteq PotIds
    /\ notified \in Nat
    /\ snapshot \in [Replicas -> [pot : {0} \cup PotIds, tickets : Nat]]
    /\ task \in [Replicas -> [Readers -> TaskStates]]
    /\ won \in [Replicas -> [PotIds -> Nat]]
    /\ faults \in 0 .. MaxFaults

Fresh(r) == snapshot[r] = [pot |-> open, tickets |-> IF open = 0 THEN 0 ELSE sold[open]]

\* A badge only ever shows a state its pot was really in, although the snapshot is
\* made of two statements with draws and buys between them and published late:
\* never more tickets than the pot sold, nor a pot that is not open yet.
BadgeIsHonest ==
    \A r \in Replicas : /\ snapshot[r].pot <= open
                        /\ snapshot[r].pot = 0 => snapshot[r].tickets = 0
                        /\ snapshot[r].pot # 0 => snapshot[r].tickets <= sold[snapshot[r].pot]

\* A live replica with nothing left to do has heard of every notified commit: the
\* worker's last read came after it, unless that read failed, which start_
\* notify_worker accepts for a notification and not for a resync.
EveryCommitIsHeard ==
    \A r \in Replicas :
        (link[r] = "live" /\ wire[r] = <<>> /\ inbox[r]["pot"] = <<>> /\ task[r]["worker"].pc = "rest")
        => task[r]["worker"].seen = notified \/ task[r]["worker"].failed

\* A replica broadcasts a win at most once, and only for a pot that was drawn.
WinIsToldOnce ==
    \A r \in Replicas, p \in PotIds : won[r][p] <= 1 /\ (won[r][p] = 1 => p \in drawn)

\* Once the buying stops every badge comes to show the open pot and its tickets
\* and stays so, although late answers overwrite newer ones, notified re-reads
\* fail and are not retried, and the first opening notifies nobody.
BadgesConverge == <>[](\A r \in Replicas : Fresh(r))

\* PotEvent::Won "reaches the winner whichever replica they are on": every replica
\* tells of every drawn pot, also one whose listener was reconnecting.
WinReachesEveryReplica ==
    \A r \in Replicas, p \in PotIds : p \in drawn ~> won[r][p] = 1
=============================================================================
