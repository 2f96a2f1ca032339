------------------------------ MODULE PotMath ------------------------------
(***************************************************************************)
(* The pure functions of the weekly pot (late-core/src/models/pot.rs): the *)
(* payout split, the draw calendar and the view of `pot_tickets` that the  *)
(* draw and the daily cap are computed from.                               *)
(*                                                                         *)
(* Time is counted in hours since a Monday 00:00 UTC.  The code's numbers  *)
(* are HoursPerDay = 24, DaysPerWeek = 7, DrawHour = 21, DrawWeekday = 0   *)
(* (Monday); they are parameters so that a short week can be checked       *)
(* together with everything else.                                          *)
(***************************************************************************)
EXTENDS Integers, FiniteSets

CONSTANTS
    HoursPerDay,    \* hours in a UTC day
    DaysPerWeek,    \* days in a week
    DrawHour,       \* POT_DRAW_HOUR_UTC
    DrawWeekday,    \* POT_DRAW_WEEKDAY, days from Monday
    Users,          \* the accounts
    Days            \* the UTC days of the horizon

ASSUME CalendarAssumption ==
    /\ HoursPerDay \in Nat \ {0}
    /\ DaysPerWeek \in Nat \ {0}
    /\ DrawHour \in 0 .. HoursPerDay - 1
    /\ DrawWeekday \in 0 .. DaysPerWeek - 1

ASSUME UsersAssumption == IsFiniteSet(Users)

ASSUME DaysAssumption == IsFiniteSet(Days) /\ Days \subseteq Nat

\* What the winner takes: four fifths of what the tickets paid in, floored.
PayoutFor(size) == (4 * size) \div 5

\* The UTC date of an hour.
DayOf(hour) == hour \div HoursPerDay

\* Mutant: `>=` for `>`, so a pot settled at its own hour draws again then.
NextDrawAtNotStrict(now) ==
    LET today      == DayOf(now) * HoursPerDay + DrawHour
        candidate  == IF today >= now THEN today ELSE today + HoursPerDay
        daysAhead  == (DrawWeekday - (DayOf(candidate) % DaysPerWeek)) % DaysPerWeek
    IN  candidate + daysAhead * HoursPerDay

\* The first DrawWeekday at DrawHour strictly after `now`.
NextDrawAt(now) ==
    LET today      == DayOf(now) * HoursPerDay + DrawHour
        candidate  == IF today > now THEN today ELSE today + HoursPerDay
        daysAhead  == (DrawWeekday - (DayOf(candidate) % DaysPerWeek)) % DaysPerWeek
    IN  candidate + daysAhead * HoursPerDay

\* `bought` is one pot's slice of pot_tickets: the tickets each user bought on
\* each day.  The hat holds one element per ticket, so that a ticket total is a
\* cardinality and pulling a ticket is choosing an element.
Hat(bought) ==
    UNION { {<<u, d>>} \X (1 .. bought[u][d]) : u \in Users, d \in Days }

HolderOf(ticket) == ticket[1][1]

\* One player's whole holding (PotTicket::user_total).
UserTotal(bought, u) == Cardinality({t \in Hat(bought) : HolderOf(t) = u})
=============================================================================
