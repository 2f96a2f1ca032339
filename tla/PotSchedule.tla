---------------------------- MODULE PotSchedule ----------------------------
(***************************************************************************)
(* The draw calendar on its own, with the code's numbers: the wall clock   *)
(* runs hour by hour and next_draw_at is read at every hour.  The reference*)
(* definition is the set of draw instants of the calendar.                 *)
(***************************************************************************)
EXTENDS PotMath

CONSTANT Horizon    \* bound: the last hour looked at

ASSUME HorizonAssumption == Horizon \in Nat

VARIABLES
    now,        \* Utc::now()
    draws_at    \* the hour a pot opened at `now` is given

scheduleVars == <<now, draws_at>>

ScheduleInit == now = 0 /\ draws_at = NextDrawAt(0)

Tick ==
    /\ now < Horizon
    /\ now' = now + 1
    /\ draws_at' = NextDrawAt(now')

ScheduleNext == Tick

ScheduleSpec == ScheduleInit /\ [][ScheduleNext]_scheduleVars

DrawInstants ==
    {h \in 0 .. Horizon + HoursPerDay * DaysPerWeek :
        /\ h % HoursPerDay = DrawHour
        /\ DayOf(h) % DaysPerWeek = DrawWeekday}

\* next_draw_at answers the first draw instant strictly after `now`: never the
\* current instant, never a skipped week, for each hour of the week including
\* the draw hour itself and the hours around midnight on either side of it.
NextDrawIsFirstInstantAfterNow ==
    /\ draws_at \in DrawInstants
    /\ draws_at > now
    /\ \A h \in DrawInstants : h > now => draws_at <= h
=============================================================================
