------------------------------ MODULE PotDraw ------------------------------
(***************************************************************************)
(* draw_from_seed (late-core/src/models/pot.rs): the walk over the holders,*)
(* in user id order, that turns a roll into the winning ticket.  The seed  *)
(* and its xorshift mix are abstracted to the roll they produce, any value *)
(* below the ticket total.                                                 *)
(***************************************************************************)
EXTENDS Integers, FiniteSetsExt

CONSTANTS
    NumHolders,     \* length of the `holders` slice
    MaxTickets      \* bound: tickets of one holder

ASSUME HoldersAssumption == NumHolders \in Nat /\ MaxTickets \in Nat

Indices == 1 .. NumHolders

VARIABLES
    holders,    \* tickets of each holder, in user id order
    roll,       \* mix(seed) % total_tickets
    holder,          \* the holder the loop looks at next
    walked,     \* tickets of the holders before holder
    result      \* "walking", "none" (nobody bought in) or "drawn" (holder holder wins)

drawVars == <<holders, roll, holder, walked, result>>

TotalTickets == MapThenSumSet(LAMBDA h : holders[h], Indices)

\* `SUM(count) ... GROUP BY user_id` has no row for a user without tickets; the
\* walk is started on any slice, zero holdings included.
DrawInit ==
    /\ holders \in [Indices -> 0 .. MaxTickets]
    /\ \/ TotalTickets = 0 /\ roll = 0 /\ result = "none"
       \/ TotalTickets > 0 /\ roll \in 0 .. TotalTickets - 1 /\ result = "walking"
    /\ holder = 1
    /\ walked = 0

\* Mutant: `<=` for `<`, so the first holder wins on one roll too many.
WalkInclusive ==
    /\ result = "walking"
    /\ holder <= NumHolders
    /\ walked' = walked + holders[holder]
    /\ IF roll <= walked'
       THEN result' = "drawn" /\ holder' = holder
       ELSE result' = result /\ holder' = holder + 1
    /\ UNCHANGED <<holders, roll>>

\* One iteration of the loop.
Walk ==
    /\ result = "walking"
    /\ holder <= NumHolders
    /\ walked' = walked + holders[holder]
    /\ IF roll < walked'
       THEN result' = "drawn" /\ holder' = holder
       ELSE result' = result /\ holder' = holder + 1
    /\ UNCHANGED <<holders, roll>>

DrawNext == Walk

DrawSpec == DrawInit /\ [][DrawNext]_drawVars

\* The tickets of the first h holders, laid end to end: holder h owns the rolls
\* from the sum before it up to its own.
Before(h) == MapThenSumSet(LAMBDA k : holders[k], 1 .. h - 1)

Owns(h, r) == Before(h) <= r /\ r < Before(h) + holders[h]

\* The draw is fair: whatever the roll, the winner is the holder who owns that
\* ticket when the holdings are laid end to end, so each holder wins on exactly
\* as many rolls as they hold tickets, and a holder of none never wins.
WinnerOwnsTheRoll ==
    result = "drawn" => Owns(holder, roll)

\* The `unreachable!` after the loop is unreachable: the walk returns before it
\* runs out of holders.
WalkCoversEveryTicket == result = "walking" => holder <= NumHolders

\* Every ticket in the hat has one owner, and the roll finds that one.
DrawIsFair == WinnerOwnsTheRoll /\ WalkCoversEveryTicket

=============================================================================
