------------------------------- MODULE Raffle -------------------------------
(***************************************************************************)
(* What the weekly pot promises: a raffle whose operations are atomic.     *)
(* A buy finds the open pot, the day's room under the cap and the chips    *)
(* above the floor all at the instant its tickets appear; a draw sees every*)
(* ticket of the pot it settles, pays one of them and opens the next pot,  *)
(* all at once.  There are no locks, snapshots, replicas or faults here;   *)
(* module Pot is shown to implement this specification.                    *)
(***************************************************************************)
EXTENDS PotMath

CONSTANTS MaxPots, MaxClock, TicketPrice, MaxTicketsPerDay, ChipFloor, Spends, InitialChips, None

PotIds == 1 .. MaxPots

VARIABLES
    pots,       \* every pot's status, draw hour, reminder stamp and settlement
    tickets,    \* pot -> user -> day -> tickets bought
    balance,    \* chips of each user
    clock

vars == <<pots, tickets, balance, clock>>

Unused == [status |-> "none", draws_at |-> 0, reminded |-> FALSE,
           winner |-> None, ticket_count |-> 0, payout |-> 0]

Opened(hour) == [Unused EXCEPT !.status = "open", !.draws_at = hour]

IsOpen(p) == pots[p].status = "open"

IsNext(p) == pots[p] = Unused /\ \A q \in 1 .. p - 1 : pots[q] # Unused

Init ==
    /\ pots = [p \in PotIds |-> Unused]
    /\ tickets = [p \in PotIds |-> [u \in Users |-> [d \in Days |-> 0]]]
    /\ balance = [u \in Users |-> InitialChips]
    /\ clock = 0

\* The first pot opens, on a clock read at some earlier hour.
Open(q, now) ==
    /\ \A p \in PotIds : ~IsOpen(p)
    /\ IsNext(q)
    /\ now <= clock
    /\ pots' = [pots EXCEPT ![q] = Opened(NextDrawAt(now))]
    /\ UNCHANGED <<tickets, balance, clock>>

\* A player buys n tickets of the open pot on the account of day d, today or the
\* day the buy began.
Buy(p, u, d, n) ==
    /\ IsOpen(p)
    /\ d <= DayOf(clock)
    /\ tickets[p][u][d] + n <= MaxTicketsPerDay
    /\ balance[u] - n * TicketPrice >= ChipFloor
    /\ tickets' = [tickets EXCEPT ![p][u][d] = @ + n]
    /\ balance' = [balance EXCEPT ![u] = @ - n * TicketPrice]
    /\ UNCHANGED <<pots, clock>>

\* The hour has come and somebody holds a ticket: pull one of all the tickets
\* there are, pay four fifths of what they cost, open the next pot.
Draw(p, q, now, ticket) ==
    LET total  == Cardinality(Hat(tickets[p]))
        payout == PayoutFor(total * TicketPrice)
    IN  /\ IsOpen(p)
        /\ IsNext(q)
        /\ now <= clock
        /\ pots[p].draws_at <= now
        /\ ticket \in Hat(tickets[p])
        /\ pots' = [pots EXCEPT
               ![p] = [pots[p] EXCEPT !.status = "drawn", !.winner = HolderOf(ticket),
                                      !.ticket_count = total, !.payout = payout],
               ![q] = Opened(NextDrawAt(now))]
        /\ balance' = [balance EXCEPT ![HolderOf(ticket)] = @ + payout]
        /\ UNCHANGED <<tickets, clock>>

\* The hour has come and nobody bought in.
Roll(p, q, now) ==
    /\ IsOpen(p)
    /\ IsNext(q)
    /\ now <= clock
    /\ pots[p].draws_at <= now
    /\ Hat(tickets[p]) = {}
    /\ pots' = [pots EXCEPT ![p] = [pots[p] EXCEPT !.status = "rolled"],
                            ![q] = Opened(NextDrawAt(now))]
    /\ UNCHANGED <<tickets, balance, clock>>

\* The last call is claimed, once, for an open pot somebody bought into.
Remind(p) ==
    /\ IsOpen(p)
    /\ ~pots[p].reminded
    /\ Hat(tickets[p]) # {}
    /\ pots' = [pots EXCEPT ![p].reminded = TRUE]
    /\ UNCHANGED <<tickets, balance, clock>>

Spend(u, amount) ==
    /\ balance[u] >= amount
    /\ balance' = [balance EXCEPT ![u] = @ - amount]
    /\ UNCHANGED <<pots, tickets, clock>>

Tick ==
    /\ clock < MaxClock
    /\ clock' = clock + 1
    /\ UNCHANGED <<pots, tickets, balance>>

Next ==
    \/ \E q \in PotIds, now \in 0 .. MaxClock : Open(q, now)
    \/ \E p \in PotIds, u \in Users, d \in Days, n \in 1 .. MaxTicketsPerDay : Buy(p, u, d, n)
    \/ \E p, q \in PotIds, now \in 0 .. MaxClock :
           \E ticket \in Hat(tickets[p]) : Draw(p, q, now, ticket)
    \/ \E p, q \in PotIds, now \in 0 .. MaxClock : Roll(p, q, now)
    \/ \E p \in PotIds : Remind(p)
    \/ \E u \in Users, amount \in Spends : Spend(u, amount)
    \/ Tick

Spec == Init /\ [][Next]_vars
=============================================================================
