-------------------------------- MODULE Pot --------------------------------
(***************************************************************************)
(* The weekly pot as the replicas run it against one Postgres: every /pot  *)
(* buy is a transaction on a pooled connection (PotService::buy), every    *)
(* replica sweeps (PotService::sweep: settle_due, then claim_reminder), and*)
(* each statement of a transaction is a step of its own.                   *)
(*                                                                         *)
(* Postgres is modelled at READ COMMITTED, the level the code runs at: a   *)
(* SELECT ... FOR UPDATE takes its snapshot when it starts, waits for the  *)
(* row it saw, then re-evaluates its WHERE on the row as it now is and     *)
(* never looks at rows that appeared meanwhile; what a transaction writes  *)
(* is seen by others at COMMIT; locks are held to the end of the           *)
(* transaction; a dropped transaction rolls back.                          *)
(***************************************************************************)
EXTENDS PotMath

CONSTANTS
    Buyers,             \* connections that run a buy
    Sweepers,           \* the sweeper tasks, one per replica
    MaxPots,            \* bound: rows of `pots`
    MaxClock,           \* bound: the last hour of the horizon
    MaxFaults,          \* bound: failing statements, dropped connections, crashes
    TicketPrice,        \* POT_TICKET_PRICE
    MaxTicketsPerDay,   \* POT_MAX_TICKETS_PER_DAY
    ChipFloor,          \* CHIP_FLOOR
    InitialChips,       \* balance of each account at the start
    ReminderLead,       \* POT_REMINDER_LEAD_SECS, in hours
    Spends,             \* amounts other services debit meanwhile
    None

Workers == Buyers \cup Sweepers
PotIds == 1 .. MaxPots
Counts == 1 .. MaxTicketsPerDay    \* the composer's parse lets only these through

ASSUME PotAssumption ==
    /\ Buyers \cap Sweepers = {}
    /\ MaxPots \in Nat \ {0}
    /\ MaxClock \in Nat
    /\ MaxFaults \in Nat
    /\ TicketPrice \in Nat \ {0, 1}
    /\ MaxTicketsPerDay \in Nat \ {0}
    /\ ChipFloor \in Nat
    /\ InitialChips \in Nat
    /\ ReminderLead \in Nat
    /\ Spends \subseteq Nat
    /\ Days = 0 .. DayOf(MaxClock)
    /\ None \notin Users \cup Workers \cup PotIds

VARIABLES
    pots,       \* the `pots` table
    tickets,    \* `pot_tickets`: pot -> user -> UTC day of `created` -> tickets
    balance,    \* `user_chips`
    paidIn,     \* `chip_ledger`: what PotTicket rows of a pot took from a user
    paidOut,    \* `chip_ledger`: what PotWon rows of a pot gave a user
    advisory,   \* holder of the pot_changed advisory lock
    rowLock,    \* holder of each pot's row lock
    chipLock,   \* holder of each user's user_chips row lock
    pc,         \* the statement each worker runs next
    tx,         \* what each worker's transaction or sweep has in hand
    lounge,     \* #lounge lines posted, by kind and pot
    clock,      \* the time everywhere
    faults      \* faults so far

tables == <<pots, tickets, balance, paidIn, paidOut>>
locks == <<advisory, rowLock, chipLock>>
vars == <<tables, locks, pc, tx, lounge, clock, faults>>

\* A row id not written yet.
NoRow == [status |-> "none", draws_at |-> 0, reminded |-> FALSE,
          winner |-> None, ticket_count |-> 0, payout |-> 0]

OpenRow(draws_at) == [NoRow EXCEPT !.status = "open", !.draws_at = draws_at]

OpenPots == {p \in PotIds : pots[p].status = "open"}

\* The one row `SELECT ... WHERE status = 'open'` returns (query_opt), if any.
TheOpenPot == IF OpenPots = {} THEN None ELSE CHOOSE p \in OpenPots : TRUE

\* The id the next INSERT INTO pots gets.
FreshIds == {p \in PotIds : pots[p] = NoRow /\ \A q \in 1 .. p - 1 : pots[q] # NoRow}

NoTx == [user |-> None, count |-> 0, day |-> 0, now |-> 0, pot |-> None,
         hat |-> {}, winner |-> None]

Init ==
    /\ pots = [p \in PotIds |-> NoRow]
    /\ tickets = [p \in PotIds |-> [u \in Users |-> [d \in Days |-> 0]]]
    /\ balance = [u \in Users |-> InitialChips]
    /\ paidIn = [p \in PotIds |-> [u \in Users |-> 0]]
    /\ paidOut = [p \in PotIds |-> [u \in Users |-> 0]]
    /\ advisory = None
    /\ rowLock = [p \in PotIds |-> None]
    /\ chipLock = [u \in Users |-> None]
    /\ pc = [w \in Workers |-> "idle"]
    /\ tx = [w \in Workers |-> NoTx]
    /\ lounge = [line \in {"drawn", "closing"} |-> [p \in PotIds |-> 0]]
    /\ clock = 0
    /\ faults = 0

-----------------------------------------------------------------------------
(* Transactions *)

Goto(w, label) == pc' = [pc EXCEPT ![w] = label]

\* COMMIT and ROLLBACK both give every lock back.
ReleaseLocks(w) ==
    /\ advisory' = IF advisory = w THEN None ELSE advisory
    /\ rowLock' = [p \in PotIds |-> IF rowLock[p] = w THEN None ELSE rowLock[p]]
    /\ chipLock' = [u \in Users |-> IF chipLock[u] = w THEN None ELSE chipLock[u]]

\* An early return drops the transaction.
RollbackTo(w, label) ==
    /\ ReleaseLocks(w)
    /\ Goto(w, label)
    /\ tx' = [tx EXCEPT ![w] = NoTx]
    /\ UNCHANGED tables

-----------------------------------------------------------------------------
(* PotService::buy *)

\* BEGIN fixes current_timestamp, hence the UTC day, for the transaction.
BuyBegin(b, u, n) ==
    /\ pc[b] = "idle"
    /\ Goto(b, "buy_select")
    /\ tx' = [tx EXCEPT ![b] = [NoTx EXCEPT !.user = u, !.count = n, !.day = DayOf(clock)]]
    /\ UNCHANGED <<tables, locks, lounge, clock, faults>>

\* lock_open_for_buy: the statement's snapshot.
BuySelect(b) ==
    /\ pc[b] = "buy_select"
    /\ IF TheOpenPot = None
       THEN RollbackTo(b, "idle")
       ELSE /\ tx' = [tx EXCEPT ![b].pot = TheOpenPot]
            /\ Goto(b, "buy_lock")
            /\ UNCHANGED <<tables, locks>>
    /\ UNCHANGED <<lounge, clock, faults>>

\* Mutant: a plain SELECT, without FOR UPDATE.
BuyLockNoForUpdate(b) ==
    /\ pc[b] = "buy_lock"
    /\ IF pots[tx[b].pot].status # "open"
       THEN RollbackTo(b, "idle")
       ELSE /\ Goto(b, "buy_insert")
            /\ UNCHANGED <<tables, tx, locks>>
    /\ UNCHANGED <<lounge, clock, faults>>

\* Mutant: the row is locked by its id, so nothing re-evaluates its status.
BuyLockById(b) ==
    /\ pc[b] = "buy_lock"
    /\ rowLock[tx[b].pot] = None
    /\ rowLock' = [rowLock EXCEPT ![tx[b].pot] = b]
    /\ Goto(b, "buy_insert")
    /\ UNCHANGED <<tables, tx, advisory, chipLock, lounge, clock, faults>>

\* lock_open_for_buy: the row lock, and WHERE again on the row as it now is.
BuyLock(b) ==
    /\ pc[b] = "buy_lock"
    /\ rowLock[tx[b].pot] = None
    /\ IF pots[tx[b].pot].status # "open"
       THEN RollbackTo(b, "idle")
       ELSE /\ rowLock' = [rowLock EXCEPT ![tx[b].pot] = b]
            /\ Goto(b, "buy_insert")
            /\ UNCHANGED <<tables, tx, advisory, chipLock>>
    /\ UNCHANGED <<lounge, clock, faults>>

\* buy_in_tx: the daily cap in the INSERT's WHERE.
BuyInsert(b) ==
    /\ pc[b] = "buy_insert"
    /\ IF tickets[tx[b].pot][tx[b].user][tx[b].day] + tx[b].count > MaxTicketsPerDay
       THEN RollbackTo(b, "idle")
       ELSE /\ Goto(b, "buy_debit")
            /\ UNCHANGED <<tables, locks, tx>>
    /\ UNCHANGED <<lounge, clock, faults>>

Price(b) == tx[b].count * TicketPrice

\* Mutant: the balance is read and compared first, and debited at the end.
BuyDebitCheckThenAct(b) ==
    /\ pc[b] = "buy_debit"
    /\ IF balance[tx[b].user] - Price(b) < ChipFloor
       THEN RollbackTo(b, "idle")
       ELSE /\ Goto(b, "buy_commit")
            /\ UNCHANGED <<tables, tx, locks>>
    /\ UNCHANGED <<lounge, clock, faults>>

\* UserChips::apply(PotTicket): a debit guarded by the chip floor, which waits
\* for another transaction's uncommitted change of the balance.
BuyDebit(b) ==
    /\ pc[b] = "buy_debit"
    /\ chipLock[tx[b].user] = None
    /\ IF balance[tx[b].user] - Price(b) < ChipFloor
       THEN RollbackTo(b, "idle")
       ELSE /\ chipLock' = [chipLock EXCEPT ![tx[b].user] = b]
            /\ Goto(b, "buy_commit")
            /\ UNCHANGED <<tables, tx, advisory, rowLock>>
    /\ UNCHANGED <<lounge, clock, faults>>

\* Mutant: the price of one ticket is charged, whatever the count.
BuyWritesOnePrice(b) ==
    LET p == tx[b].pot  u == tx[b].user
    IN  /\ tickets' = [tickets EXCEPT ![p][u][tx[b].day] = @ + tx[b].count]
        /\ balance' = [balance EXCEPT ![u] = @ - TicketPrice]
        /\ paidIn' = [paidIn EXCEPT ![p][u] = @ + TicketPrice]
        /\ UNCHANGED <<pots, paidOut>>

\* What COMMIT of a buy writes: the ticket row, the debit, its ledger row.
BuyWrites(b) ==
    LET p == tx[b].pot  u == tx[b].user
    IN  /\ tickets' = [tickets EXCEPT ![p][u][tx[b].day] = @ + tx[b].count]
        /\ balance' = [balance EXCEPT ![u] = @ - Price(b)]
        /\ paidIn' = [paidIn EXCEPT ![p][u] = @ + Price(b)]
        /\ UNCHANGED <<pots, paidOut>>

\* COMMIT lands, and its acknowledgement reaches the process.
BuyCommit(b) ==
    /\ pc[b] = "buy_commit"
    /\ BuyWrites(b)
    /\ ReleaseLocks(b)
    /\ Goto(b, "idle")
    /\ tx' = [tx EXCEPT ![b] = NoTx]
    /\ UNCHANGED <<lounge, clock, faults>>

\* COMMIT lands, but the connection is lost before its acknowledgement: the
\* process sees an error.
BuyCommitUnacknowledged(b) ==
    /\ pc[b] = "buy_commit"
    /\ faults < MaxFaults
    /\ faults' = faults + 1
    /\ BuyWrites(b)
    /\ ReleaseLocks(b)
    /\ Goto(b, "idle")
    /\ tx' = [tx EXCEPT ![b] = NoTx]
    /\ UNCHANGED <<lounge, clock>>

\* A statement of the transaction errors: `?` returns, the transaction rolls
\* back, and buy_task answers that nothing was charged.
BuyFail(b) ==
    /\ pc[b] # "idle"
    /\ faults < MaxFaults
    /\ faults' = faults + 1
    /\ RollbackTo(b, "idle")
    /\ UNCHANGED <<lounge, clock>>

-----------------------------------------------------------------------------
(* PotService::sweep *)

\* settle_due reads the wall clock before it has a connection or a lock.
SettleBegin(s) ==
    /\ pc[s] = "idle"
    /\ Goto(s, "settle_advisory")
    /\ tx' = [tx EXCEPT ![s] = [NoTx EXCEPT !.now = clock]]
    /\ UNCHANGED <<tables, locks, lounge, clock, faults>>

\* Mutant: lock_open without its advisory lock.
SettleNoAdvisory(s) ==
    /\ pc[s] = "settle_advisory"
    /\ Goto(s, "settle_select")
    /\ UNCHANGED <<tables, locks, tx, lounge, clock, faults>>

\* lock_open: pg_advisory_xact_lock.
SettleAdvisory(s) ==
    /\ pc[s] = "settle_advisory"
    /\ advisory = None
    /\ advisory' = s
    /\ Goto(s, "settle_select")
    /\ UNCHANGED <<tables, rowLock, chipLock, tx, lounge, clock, faults>>

\* lock_open: the snapshot of its second statement.
SettleSelect(s) ==
    /\ pc[s] = "settle_select"
    /\ tx' = [tx EXCEPT ![s].pot = TheOpenPot]
    /\ Goto(s, IF TheOpenPot = None THEN "open_first" ELSE "settle_lock")
    /\ UNCHANGED <<tables, locks, lounge, clock, faults>>

\* Mutant: lock_open without FOR UPDATE.
SettleLockNoForUpdate(s) ==
    /\ pc[s] = "settle_lock"
    /\ IF pots[tx[s].pot].status = "open" /\ pots[tx[s].pot].draws_at > tx[s].now
       THEN RollbackTo(s, "claim_begin")
       ELSE /\ Goto(s, IF pots[tx[s].pot].status = "open" THEN "settle_holders" ELSE "open_first")
            /\ UNCHANGED <<tables, tx, locks>>
    /\ UNCHANGED <<lounge, clock, faults>>

\* lock_open: the row lock and the re-evaluated WHERE, which would answer no row
\* for a pot settled meanwhile; then settle_due's check of the hour.
SettleLock(s) ==
    /\ pc[s] = "settle_lock"
    /\ rowLock[tx[s].pot] = None
    /\ IF pots[tx[s].pot].status = "open" /\ pots[tx[s].pot].draws_at > tx[s].now
       THEN RollbackTo(s, "claim_begin")
       ELSE /\ rowLock' = [rowLock EXCEPT ![tx[s].pot] = s]
            /\ Goto(s, IF pots[tx[s].pot].status = "open" THEN "settle_holders" ELSE "open_first")
            /\ UNCHANGED <<tables, tx, advisory, chipLock>>
    /\ UNCHANGED <<lounge, clock, faults>>

\* PotTicket::holders.
SettleHolders(s) ==
    /\ pc[s] = "settle_holders"
    /\ tx' = [tx EXCEPT ![s].hat = Hat(tickets[tx[s].pot])]
    /\ Goto(s, IF tx'[s].hat = {} THEN "settle_roll" ELSE "settle_draw")
    /\ UNCHANGED <<tables, locks, lounge, clock, faults>>

\* The `status = 'open'` that both settling UPDATEs are guarded by; without it
\* settle_due answers that another replica settled the pot.
StillOpen(s) == pots[tx[s].pot].status = "open"

\* draw_from_seed pulls a ticket; settle_drawn_in_tx and the PotWon credit,
\* which waits for the winner's user_chips row.
SettleDraw(s, ticket) ==
    /\ pc[s] = "settle_draw"
    /\ ticket \in tx[s].hat
    /\ IF StillOpen(s)
       THEN /\ chipLock[HolderOf(ticket)] = None
            /\ chipLock' = [chipLock EXCEPT ![HolderOf(ticket)] = s]
            /\ tx' = [tx EXCEPT ![s].winner = HolderOf(ticket)]
            /\ Goto(s, "settle_commit")
            /\ UNCHANGED <<tables, advisory, rowLock>>
       ELSE RollbackTo(s, "claim_begin")
    /\ UNCHANGED <<lounge, clock, faults>>

\* settle_rolled_in_tx: nobody bought in.
SettleRoll(s) ==
    /\ pc[s] = "settle_roll"
    /\ IF StillOpen(s)
       THEN Goto(s, "settle_commit") /\ UNCHANGED <<tables, locks, tx>>
       ELSE RollbackTo(s, "claim_begin")
    /\ UNCHANGED <<lounge, clock, faults>>

TotalOf(s) == Cardinality(tx[s].hat)
PayoutOf(s) == PayoutFor(TotalOf(s) * TicketPrice)

\* The settled row: drawn with its numbers, or rolled with none.
SettledRow(s) ==
    [pots[tx[s].pot] EXCEPT
        !.status = IF tx[s].winner = None THEN "rolled" ELSE "drawn",
        !.winner = tx[s].winner,
        !.ticket_count = TotalOf(s),
        !.payout = IF tx[s].winner = None THEN 0 ELSE PayoutOf(s)]

\* Mutant: the winner is paid and the status transition forgotten.
SettleWritesNoTransition(s) ==
    LET p == tx[s].pot  u == tx[s].winner
    IN  /\ balance' = IF u = None THEN balance ELSE [balance EXCEPT ![u] = @ + PayoutOf(s)]
        /\ paidOut' = IF u = None THEN paidOut ELSE [paidOut EXCEPT ![p][u] = @ + PayoutOf(s)]
        /\ UNCHANGED <<pots, tickets, paidIn>>

\* COMMIT of a settlement: the settled row, the successor, the winner's credit
\* and its ledger row.
SettleWrites(s) ==
    LET p == tx[s].pot  u == tx[s].winner
    IN  /\ \E q \in FreshIds :
               pots' = [pots EXCEPT ![p] = SettledRow(s), ![q] = OpenRow(NextDrawAt(tx[s].now))]
        /\ balance' = IF u = None THEN balance ELSE [balance EXCEPT ![u] = @ + PayoutOf(s)]
        /\ paidOut' = IF u = None THEN paidOut ELSE [paidOut EXCEPT ![p][u] = @ + PayoutOf(s)]
        /\ UNCHANGED <<tickets, paidIn>>

\* The acknowledged COMMIT; the sweep goes on to announce a drawn pot.
SettleCommit(s) ==
    /\ pc[s] = "settle_commit"
    /\ SettleWrites(s)
    /\ ReleaseLocks(s)
    /\ Goto(s, IF tx[s].winner = None THEN "claim_begin" ELSE "announce")
    /\ tx' = [tx EXCEPT ![s] = IF tx[s].winner = None THEN NoTx ELSE [NoTx EXCEPT !.pot = tx[s].pot]]
    /\ UNCHANGED <<lounge, clock, faults>>

\* COMMIT lands and its acknowledgement does not: sweep logs a failed draw and
\* goes on to the reminder.
SettleCommitUnacknowledged(s) ==
    /\ pc[s] = "settle_commit"
    /\ faults < MaxFaults
    /\ faults' = faults + 1
    /\ SettleWrites(s)
    /\ ReleaseLocks(s)
    /\ Goto(s, "claim_begin")
    /\ tx' = [tx EXCEPT ![s] = NoTx]
    /\ UNCHANGED <<lounge, clock>>

\* No pot was open: settle_due opens one, commits and settles nothing.
OpenFirst(s) ==
    /\ pc[s] = "open_first"
    /\ \E q \in FreshIds : pots' = [pots EXCEPT ![q] = OpenRow(NextDrawAt(tx[s].now))]
    /\ ReleaseLocks(s)
    /\ Goto(s, "claim_begin")
    /\ tx' = [tx EXCEPT ![s] = NoTx]
    /\ UNCHANGED <<tickets, balance, paidIn, paidOut, lounge, clock, faults>>

\* announce_settlement, after the transaction.
Announce(s) ==
    /\ pc[s] = "announce"
    /\ lounge' = [lounge EXCEPT !["drawn"][tx[s].pot] = @ + 1]
    /\ Goto(s, "claim_begin")
    /\ tx' = [tx EXCEPT ![s] = NoTx]
    /\ UNCHANGED <<tables, locks, clock, faults>>

\* claim_reminder reads the wall clock before it has a connection.
ClaimBegin(s) ==
    /\ pc[s] = "claim_begin"
    /\ Goto(s, "claim_search")
    /\ tx' = [tx EXCEPT ![s] = [NoTx EXCEPT !.now = clock]]
    /\ UNCHANGED <<tables, locks, lounge, clock, faults>>

\* The pots a claim_reminder statement given this hour would update.
Remindable(now) ==
    {p \in OpenPots : /\ ~pots[p].reminded
                      /\ pots[p].draws_at > now
                      /\ pots[p].draws_at <= now + ReminderLead
                      /\ Hat(tickets[p]) # {}}

\* claim_reminder: the snapshot its UPDATE searches.  The sweep ends when the
\* statement finds no row.
ClaimSearch(s) ==
    /\ pc[s] = "claim_search"
    /\ LET found == Remindable(tx[s].now)
       IN  IF found = {}
           THEN Goto(s, "idle") /\ tx' = [tx EXCEPT ![s] = NoTx]
           ELSE /\ Goto(s, "claim_update")
                /\ tx' = [tx EXCEPT ![s].pot = CHOOSE p \in found : TRUE]
    /\ UNCHANGED <<tables, locks, lounge, clock, faults>>

\* Mutant: the claim's guard without `reminded_at IS NULL`.
ClaimedAgain(s) == pots[tx[s].pot].status = "open"

\* Mutant: the claim's guard without `status = 'open'`.
ClaimedSettled(s) == ~pots[tx[s].pot].reminded

\* claim_reminder: the UPDATE gets the row and re-evaluates its WHERE on it.
Claimed(s) == pots[tx[s].pot].status = "open" /\ ~pots[tx[s].pot].reminded

ClaimUpdate(s) ==
    /\ pc[s] = "claim_update"
    /\ rowLock[tx[s].pot] = None
    /\ IF Claimed(s)
       THEN /\ pots' = [pots EXCEPT ![tx[s].pot].reminded = TRUE]
            /\ Goto(s, "claim_post")
            /\ UNCHANGED <<tx, tickets, balance, paidIn, paidOut>>
       ELSE /\ Goto(s, "idle")
            /\ tx' = [tx EXCEPT ![s] = NoTx]
            /\ UNCHANGED tables
    /\ UNCHANGED <<locks, lounge, clock, faults>>

\* The UPDATE lands and its acknowledgement does not: the sweep counts a failed
\* reminder (PotReminderOutcome::Failed) and posts nothing.
ClaimUnacknowledged(s) ==
    /\ pc[s] = "claim_update"
    /\ rowLock[tx[s].pot] = None
    /\ Claimed(s)
    /\ faults < MaxFaults
    /\ faults' = faults + 1
    /\ pots' = [pots EXCEPT ![tx[s].pot].reminded = TRUE]
    /\ Goto(s, "idle")
    /\ tx' = [tx EXCEPT ![s] = NoTx]
    /\ UNCHANGED <<tickets, balance, paidIn, paidOut, locks, lounge, clock>>

\* announce_reminder.
ClaimPost(s) ==
    /\ pc[s] = "claim_post"
    /\ lounge' = [lounge EXCEPT !["closing"][tx[s].pot] = @ + 1]
    /\ Goto(s, "idle")
    /\ tx' = [tx EXCEPT ![s] = NoTx]
    /\ UNCHANGED <<tables, locks, clock, faults>>

\* A statement of settle_due errors: sweep logs it and goes on to the reminder.
SettleStatements == {"settle_advisory", "settle_select", "settle_lock", "settle_holders",
                     "settle_draw", "settle_roll", "settle_commit", "open_first"}

\* Mutant: a session-level advisory lock, which a rollback does not release.
SettleFailKeepsAdvisory(s) ==
    /\ pc[s] \in SettleStatements
    /\ faults < MaxFaults
    /\ faults' = faults + 1
    /\ Goto(s, "claim_begin")
    /\ tx' = [tx EXCEPT ![s] = NoTx]
    /\ rowLock' = [p \in PotIds |-> IF rowLock[p] = s THEN None ELSE rowLock[p]]
    /\ chipLock' = [u \in Users |-> IF chipLock[u] = s THEN None ELSE chipLock[u]]
    /\ UNCHANGED <<tables, advisory, lounge, clock>>

SettleFail(s) ==
    /\ pc[s] \in SettleStatements
    /\ faults < MaxFaults
    /\ faults' = faults + 1
    /\ RollbackTo(s, "claim_begin")
    /\ UNCHANGED <<lounge, clock>>

\* The replica dies and comes back: whatever its sweep held in memory is gone,
\* its open transaction rolls back, and the fresh process sweeps from the start.
\* A claim_reminder that errors before its UPDATE lands ends the sweep alike.
Crash(s) ==
    /\ pc[s] # "idle"
    /\ faults < MaxFaults
    /\ faults' = faults + 1
    /\ RollbackTo(s, "idle")
    /\ UNCHANGED <<lounge, clock>>

-----------------------------------------------------------------------------
(* The rest of the system *)

\* Another service debits chips (UserChips::apply with floor 0).
OtherDebit(u, amount) ==
    /\ chipLock[u] = None
    /\ balance[u] - amount >= 0
    /\ balance' = [balance EXCEPT ![u] = @ - amount]
    /\ UNCHANGED <<pots, tickets, paidIn, paidOut, locks, pc, tx, lounge, clock, faults>>

Tick ==
    /\ clock < MaxClock
    /\ clock' = clock + 1
    /\ UNCHANGED <<tables, locks, pc, tx, lounge, faults>>

BuyBegins(b) == \E u \in Users, n \in Counts : BuyBegin(b, u, n)

BuyProgress(b) == BuySelect(b) \/ BuyLock(b) \/ BuyInsert(b) \/ BuyDebit(b) \/ BuyCommit(b)

BuyFault(b) == BuyCommitUnacknowledged(b) \/ BuyFail(b)

SweepProgress(s) ==
    \/ SettleBegin(s)
    \/ SettleAdvisory(s)
    \/ SettleSelect(s)
    \/ SettleLock(s)
    \/ SettleHolders(s)
    \/ \E ticket \in tx[s].hat : SettleDraw(s, ticket)
    \/ SettleRoll(s)
    \/ SettleCommit(s)
    \/ OpenFirst(s)
    \/ Announce(s)
    \/ ClaimBegin(s)
    \/ ClaimSearch(s)
    \/ ClaimUpdate(s)
    \/ ClaimPost(s)

SweepFault(s) ==
    SettleCommitUnacknowledged(s) \/ ClaimUnacknowledged(s) \/ SettleFail(s) \/ Crash(s)

Next ==
    \/ \E b \in Buyers : BuyBegins(b) \/ BuyProgress(b) \/ BuyFault(b)
    \/ \E s \in Sweepers : SweepProgress(s) \/ SweepFault(s)
    \/ \E u \in Users, amount \in Spends : OtherDebit(u, amount)
    \/ Tick

Spec == Init /\ [][Next]_vars

\* Tasks keep running, and Postgres grants each lock to its waiters in turn.
\* Faults are bounded by MaxFaults and have no fairness.
FairSpec ==
    /\ Spec
    /\ \A b \in Buyers : SF_vars(BuyProgress(b))
    /\ \A s \in Sweepers : SF_vars(SweepProgress(s))

-----------------------------------------------------------------------------
(* Properties *)

\* The tables as the atomic raffle's state.
Atomic == INSTANCE Raffle WITH pots <- pots, tickets <- tickets, balance <- balance, clock <- clock

\* The transactions, with their locks, snapshots, failures and lost
\* acknowledgements, are serialisable: every commit is one atomic operation of
\* the raffle, whose conditions (pot open, room under the cap, chips above the
\* floor, every ticket in the hat, hour come) hold at the commit itself and not
\* only when the transaction checked them.
ImplementsRaffle == Atomic!Spec

Settled(p) == pots[p].status \in {"drawn", "rolled"}

PotRows == [status : {"none", "open", "drawn", "rolled"}, draws_at : Nat, reminded : BOOLEAN,
            winner : Users \cup {None}, ticket_count : Nat, payout : Nat]

Transactions == [user : Users \cup {None}, count : Counts \cup {0}, day : Days, now : Nat,
                 pot : PotIds \cup {None}, hat : SUBSET ((Users \X Days) \X Counts),
                 winner : Users \cup {None}]

BuyLabels == {"idle", "buy_select", "buy_lock", "buy_insert", "buy_debit", "buy_commit"}

SweepLabels == {"idle", "announce", "claim_begin", "claim_search", "claim_update", "claim_post"}
               \cup SettleStatements

TypeOK ==
    /\ pots \in [PotIds -> PotRows]
    /\ tickets \in [PotIds -> [Users -> [Days -> Nat]]]
    /\ balance \in [Users -> Int]
    /\ paidIn \in [PotIds -> [Users -> Nat]]
    /\ paidOut \in [PotIds -> [Users -> Nat]]
    /\ advisory \in Sweepers \cup {None}
    /\ rowLock \in [PotIds -> Workers \cup {None}]
    /\ chipLock \in [Users -> Workers \cup {None}]
    /\ pc \in [Workers -> BuyLabels \cup SweepLabels]
    /\ tx \in [Workers -> Transactions]
    /\ lounge \in [{"drawn", "closing"} -> [PotIds -> Nat]]
    /\ clock \in 0 .. MaxClock
    /\ faults \in 0 .. MaxFaults

\* Exactly one pot is open from the first sweep on: settling one pot and opening
\* the next are one transaction.  The model does not enforce the partial unique
\* index pots_single_open, so this also says that no replica's INSERT ever dies
\* on it, which is what the advisory lock of lock_open is for.
ExactlyOneOpenPot ==
    (\E p \in PotIds : pots[p] # NoRow) => \E p \in PotIds : OpenPots = {p}

\* The daily cap is exact: concurrent buys of one player, on any replicas and on
\* either side of midnight, never add up to more than MaxTicketsPerDay tickets
\* of one pot on one UTC day.
DailyCapIsExact ==
    \A p \in PotIds, u \in Users, d \in Days : tickets[p][u][d] <= MaxTicketsPerDay

\* A settled pot's record counts every ticket anyone was charged for: no buy is
\* missed by the draw that was running beside it, and none lands after it.
SettledPotCountsEveryTicket ==
    \A p \in PotIds : Settled(p) => pots[p].ticket_count = Cardinality(Hat(tickets[p]))

\* A pot pays its winner exactly once, exactly four fifths of what its tickets
\* took in, and nobody else anything, however many replicas sweep and fail.
PotPaysOnce ==
    \A p \in PotIds, u \in Users :
        paidOut[p][u] = IF pots[p].status = "drawn" /\ pots[p].winner = u
                        THEN PayoutFor(pots[p].ticket_count * TicketPrice) ELSE 0

\* Who was charged holds tickets and who holds tickets was charged, at the
\* ticket price: refused, failed and crashed buys leave neither half behind.
ChargedExactlyForTickets ==
    \A p \in PotIds, u \in Users : paidIn[p][u] = TicketPrice * UserTotal(tickets[p], u)

\* Pots draw at strictly increasing draw hours, although settle_due computes the
\* successor's hour from a clock read before it waited for its locks.
DrawHoursIncrease ==
    \A p, q \in PotIds : p < q /\ pots[q] # NoRow => pots[p].draws_at < pots[q].draws_at

\* #lounge hears of a pot's draw at most once and only of a drawn one, and gets
\* at most one last call for it, whatever fails between a claim and its line.
LoungeHearsOnce ==
    \A p \in PotIds : /\ lounge["drawn"][p] <= 1
                      /\ lounge["drawn"][p] = 1 => pots[p].status = "drawn"
                      /\ lounge["closing"][p] <= 1

\* Draws follow each other, whatever clock a late sweep read, and the lounge hears
\* of each at most once.
DrawsAreOrderly == DrawHoursIncrease /\ LoungeHearsOnce

\* A buy never takes its buyer below the chip floor, whatever other services
\* spend between the guard of the debit and the COMMIT.
BuyRespectsChipFloor ==
    [][\A p \in PotIds, u \in Users : paidIn'[p][u] > paidIn[p][u] => balance'[u] >= ChipFloor]_vars

\* A settled row is final: nothing rewrites who won, how much, or on how many
\* tickets, nor reopens the pot.
SettledIsFinal == [][\A p \in PotIds : Settled(p) => pots'[p] = pots[p]]_vars

\* A pot whose hour has come is settled, although sweeps stall behind buys and
\* other replicas' sweeps, fail part way and die.
DuePotIsSettled ==
    \A p \in PotIds : (pots[p].status = "open" /\ pots[p].draws_at <= clock) ~> Settled(p)

\* No buy waits for ever: transactions take the pot row before a chip row, the
\* advisory lock before both, and give all of them back on every path.
EveryBuyEnds == \A b \in Buyers : pc[b] # "idle" ~> pc[b] = "idle"

\* Nothing about the pot waits for ever: no draw that is due and no buy.
PotKeepsMoving == DuePotIsSettled /\ EveryBuyEnds

\* What buy_task tells a buyer whose buy failed: "Buying tickets failed, nothing
\* was charged".
FailedBuyIsUncharged ==
    [][\A b \in Buyers : BuyFail(b) \/ BuyCommitUnacknowledged(b) => paidIn' = paidIn]_vars
=============================================================================
