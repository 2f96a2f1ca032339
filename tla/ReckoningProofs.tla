-------------------------- MODULE ReckoningProofs ---------------------------
(***************************************************************************)
(* The weekly draw, for any calendar, horizon, number of holders and       *)
(* tickets: the next draw is the first draw instant after now, and the     *)
(* walk over the ticket holders gives each of them as many of the rolls as *)
(* tickets.  Online time, for any users, pods and clock: no moment is lost *)
(* or counted twice.                                                       *)
(***************************************************************************)
EXTENDS PotSchedule, PotDraw, OnlineTime, SumFacts

-----------------------------------------------------------------------------
(* The draw calendar *)

LEMMA Division ==
    ASSUME NEW m \in Nat \ {0}, NEW q \in Nat, NEW r \in 0 .. m - 1
    PROVE  (q * m + r) \div m = q /\ (q * m + r) % m = r
<1> DEFINE n == q * m + r
<1>1. n \in Nat /\ q * m \in Nat
  OBVIOUS
<1>2. PICK d \in Nat, s \in 0 .. m - 1 : d = n \div m /\ s = n % m /\ n = d * m + s
  <2> HIDE DEF n
  <2> QED
    BY <1>1, Quotient
<1>3. d \in Nat /\ s \in 0 .. m - 1 /\ q * m + r = d * m + s
  BY <1>2
<1> HIDE DEF n
<1>4. ~ (d < q)
  <2> SUFFICES ASSUME d < q PROVE FALSE
    OBVIOUS
  <2> DEFINE k == q - d - 1
  <2>1. k \in Nat /\ q = d + 1 + k
    BY <1>3
  <2> HIDE DEF k
  <2>2. q * m = d * m + m + k * m /\ k * m \in Nat /\ d * m \in Nat
    BY <1>3, <2>1
  <2> QED
    BY <1>3, <2>2
<1>5. ~ (q < d)
  <2> SUFFICES ASSUME q < d PROVE FALSE
    OBVIOUS
  <2> DEFINE k == d - q - 1
  <2>1. k \in Nat /\ d = q + 1 + k
    BY <1>3
  <2> HIDE DEF k
  <2>2. d * m = q * m + m + k * m /\ k * m \in Nat /\ q * m \in Nat
    BY <1>3, <2>1
  <2> QED
    BY <1>3, <2>2
<1>6. d = q
  BY <1>3, <1>4, <1>5
<1>7. s = r
  <2>1. q * m \in Nat
    BY <1>1
  <2> QED
    BY <1>3, <1>6, <2>1
<1> QED
  BY <1>2, <1>6, <1>7 DEF n

\* Multiples of a positive number are in the order of their factors.
LEMMA Multiples ==
    ASSUME NEW m \in Nat \ {0}, NEW p \in Nat, NEW q \in Nat
    PROVE  /\ p * m \in Nat
           /\ p <= q => p * m <= q * m
           /\ p < q => p * m + m <= q * m
<1>1. ASSUME p <= q PROVE p * m <= q * m
  <2>1. q - p \in Nat /\ q * m = p * m + (q - p) * m
    BY <1>1
  <2>2. (q - p) * m \in Nat /\ p * m \in Nat
    BY <2>1
  <2> QED
    BY <2>1, <2>2
<1>2. ASSUME p < q PROVE p * m + m <= q * m
  <2> DEFINE k == q - p - 1
  <2>1. k \in Nat /\ q = p + 1 + k
    BY <1>2
  <2> HIDE DEF k
  <2>2. k * m \in Nat /\ p * m \in Nat /\ q * m = p * m + m + k * m
    BY <2>1
  <2> QED
    BY <2>2
<1> QED
  BY <1>1, <1>2

\* The days from a day to the next one that is a given day of the week: no fewer
\* days will do.
LEMMA DaysAhead ==
    ASSUME NEW D \in Nat \ {0}, NEW W \in 0 .. D - 1, NEW e \in Nat
    PROVE  LET ahead == (W - (e % D)) % D
           IN  /\ ahead \in 0 .. D - 1
               /\ (e + ahead) % D = W
               /\ \A d \in Nat : d >= e /\ d % D = W => d >= e + ahead
<1>1. PICK q \in Nat, s \in 0 .. D - 1 : s = e % D /\ e = q * D + s
  BY Quotient
<1> DEFINE ahead == (W - s) % D
<1>2. W >= s => ahead = W - s
  <2> SUFFICES ASSUME W >= s PROVE ahead = W - s
    OBVIOUS
  <2>1. W - s \in 0 .. D - 1
    BY <1>1
  <2>2. (0 * D + (W - s)) % D = W - s
    BY <2>1, Division
  <2>3. 0 * D + (W - s) = W - s
    BY <2>1
  <2> QED
    BY <2>2, <2>3
<1>3. W < s => ahead = W - s + D
  <2> SUFFICES ASSUME W < s PROVE ahead = W - s + D
    OBVIOUS
  <2> DEFINE x == W - s
  <2>1. x \in Int /\ x + D \in 0 .. D - 1 /\ x < 0
    BY <1>1
  <2> HIDE DEF x
  <2>2. x % D = x + D
    BY <2>1, SMTT(30)
  <2> QED
    BY <2>2 DEF x
<1>4. q * D \in Nat /\ (q + 1) * D = q * D + D
  BY <1>1
<1>5. CASE W >= s
  <2>1. ahead = W - s /\ ahead \in 0 .. D - 1
    BY <1>1, <1>2, <1>5
  <2>2. e + ahead = q * D + W
    BY <1>1, <1>4, <2>1
  <2>a. (q * D + W) % D = W
    BY Division
  <2>3. (e + ahead) % D = W
    BY <2>2, <2>a, Zenon
  <2>4. ASSUME NEW d \in Nat, d >= e, d % D = W PROVE d >= e + ahead
    <3>1. PICK p \in Nat : d = p * D + W
      BY <2>4, Quotient
    <3>2. p >= q
      <4> SUFFICES ASSUME p < q PROVE FALSE
        BY <1>1, <3>1
      <4>1. p * D + D <= q * D /\ p * D \in Nat
        BY <1>1, <3>1, Multiples
      <4> QED
        BY <1>1, <1>4, <2>4, <3>1, <4>1
    <3>3. p * D >= q * D /\ p * D \in Nat
      BY <1>1, <3>1, <3>2, Multiples
    <3> QED
      BY <1>1, <1>4, <2>2, <3>1, <3>3
  <2> QED
    BY <1>1, <2>1, <2>3, <2>4
<1>6. CASE W < s
  <2>1. ahead = W - s + D /\ ahead \in 0 .. D - 1
    BY <1>1, <1>3, <1>6
  <2>2. e + ahead = (q + 1) * D + W /\ q + 1 \in Nat
    BY <1>1, <1>4, <2>1
  <2>a. ((q + 1) * D + W) % D = W
    BY <2>2, Division
  <2>3. (e + ahead) % D = W
    BY <2>2, <2>a, Zenon
  <2>4. ASSUME NEW d \in Nat, d >= e, d % D = W PROVE d >= e + ahead
    <3>1. PICK p \in Nat : d = p * D + W
      BY <2>4, Quotient
    <3>2. p > q
      <4> SUFFICES ASSUME p <= q PROVE FALSE
        BY <1>1, <3>1
      <4>1. p * D <= q * D /\ p * D \in Nat
        BY <1>1, <3>1, Multiples
      <4> QED
        BY <1>1, <1>4, <1>6, <2>4, <3>1, <4>1
    <3>3. p * D >= q * D + D /\ p * D \in Nat
      BY <1>1, <3>1, <3>2, Multiples
    <3> QED
      BY <1>1, <1>4, <2>2, <3>1, <3>3
  <2> QED
    BY <1>1, <2>1, <2>3, <2>4
<1> QED
  BY <1>1, <1>5, <1>6

\* next_draw_at is the first draw instant after `hour`, and less than a week and a
\* day away.
LEMMA NextDraw ==
    ASSUME NEW hour \in Nat
    PROVE  /\ NextDrawAt(hour) \in Nat /\ NextDrawAt(hour) > hour
           /\ NextDrawAt(hour) <= hour + HoursPerDay * DaysPerWeek
           /\ NextDrawAt(hour) % HoursPerDay = DrawHour
           /\ DayOf(NextDrawAt(hour)) % DaysPerWeek = DrawWeekday
           /\ \A h \in Nat :
                h > hour /\ h % HoursPerDay = DrawHour /\ DayOf(h) % DaysPerWeek = DrawWeekday
                  => NextDrawAt(hour) <= h
<1> DEFINE H == HoursPerDay
<1> DEFINE D == DaysPerWeek
<1> DEFINE day == DayOf(hour)
<1> DEFINE today == day * H + DrawHour
<1> DEFINE e == IF today > hour THEN day ELSE day + 1
<1> DEFINE candidate == IF today > hour THEN today ELSE today + H
<1> DEFINE ahead == (DrawWeekday - (e % D)) % D
<1>1. H \in Nat \ {0} /\ D \in Nat \ {0} /\ DrawHour \in 0 .. H - 1 /\ DrawWeekday \in 0 .. D - 1
  BY CalendarAssumption
<1>2. PICK f \in 0 .. H - 1 : day \in Nat /\ hour = day * H + f
  BY <1>1, Quotient DEF DayOf
<1>3. e \in Nat /\ candidate = e * H + DrawHour
  <2>1. (day + 1) * H = day * H + H /\ day * H \in Nat
    BY <1>1, <1>2
  <2> HIDE DEF day, H
  <2> QED
    BY <1>1, <1>2, <2>1
<1>4. DayOf(candidate) = e
  <2> HIDE DEF e, H, candidate
  <2> QED
    BY <1>1, <1>3, Division DEF DayOf, H
<1>5. NextDrawAt(hour) = candidate + ahead * H
  <2> HIDE DEF e
  <2> QED
    BY <1>4 DEF NextDrawAt
<1>6. candidate > hour /\ candidate <= hour + H
  <2> DEFINE b == day * H
  <2>a. \A m, n \in Nat : m * n \in Nat
    OBVIOUS
  <2>1. b \in Nat /\ f \in 0 .. H - 1 /\ hour = b + f /\ today = b + DrawHour
    BY <1>1, <1>2, <2>a
  <2> HIDE DEF b, today, H
  <2> QED
    BY <1>1, <2>1
<1>7. /\ ahead \in 0 .. D - 1
      /\ (e + ahead) % D = DrawWeekday
      /\ \A d \in Nat : d >= e /\ d % D = DrawWeekday => d >= e + ahead
  <2> HIDE DEF e, D
  <2> QED
    BY <1>1, <1>3, DaysAhead
<1>8. ASSUME NEW h \in Nat, h > hour, h % H = DrawHour PROVE DayOf(h) \in Nat /\ DayOf(h) >= e /\ h = DayOf(h) * H + DrawHour
  <2> DEFINE d == DayOf(h)
  <2>1. d \in Nat /\ h = d * H + DrawHour
    <3> HIDE DEF H
    <3>1. PICK q \in Nat, r \in 0 .. H - 1 : q = h \div H /\ r = h % H /\ h = q * H + r
      BY <1>1, <1>8, Quotient
    <3>2. q = d
      BY <3>1 DEF DayOf, H
    <3> HIDE DEF d
    <3> QED
      BY <1>8, <3>1, <3>2
  <2> DEFINE b == day * H
  <2>a. \A m, n \in Nat : m * n \in Nat
    OBVIOUS
  <2>2. b \in Nat /\ f \in 0 .. H - 1 /\ hour = b + f /\ today = b + DrawHour
    BY <1>1, <1>2, <2>a
  <2> HIDE DEF d, H
  <2>3. d >= day
    <3> SUFFICES ASSUME d < day PROVE FALSE
      BY <1>2, <2>1
    <3> HIDE DEF day
    <3>1. d * H + H <= day * H /\ d * H \in Nat
      BY <1>1, <1>2, <2>1, Multiples
    <3> QED
      BY <1>1, <1>8, <2>1, <2>2, <3>1
  <2>4. today > hour \/ d # day
    <3> SUFFICES ASSUME d = day PROVE today > hour
      OBVIOUS
    <3> QED
      BY <1>8, <2>1
  <2>5. d >= e
    <3> HIDE DEF day, today, b
    <3> QED
      BY <1>2, <2>1, <2>3, <2>4
  <2> QED
    BY <2>1, <2>5 DEF d, H
<1> HIDE DEF candidate, e, ahead, today, day, H, D
<1>9. candidate + ahead * H = (e + ahead) * H + DrawHour /\ ahead * H \in Nat /\ e + ahead \in Nat
  <2>1. ahead \in Nat /\ (e + ahead) * H = e * H + ahead * H /\ e * H \in Nat /\ ahead * H \in Nat
    BY <1>1, <1>3, <1>7
  <2> QED
    BY <1>1, <1>3, <2>1
<1> DEFINE next == (e + ahead) * H + DrawHour
<1>10. NextDrawAt(hour) = next
  BY <1>5, <1>9 DEF H
<1>11. next \in Nat /\ next > hour
  <2>1. next = candidate + ahead * H /\ candidate \in Nat
    BY <1>1, <1>3, <1>9
  <2> HIDE DEF next
  <2> QED
    BY <1>6, <1>9, <2>1
<1>12. next <= hour + H * D
  <2>1. ahead * H + H <= D * H
    BY <1>1, <1>7, Multiples
  <2>2. D * H = H * D /\ H * D \in Nat
    BY <1>1
  <2>3. candidate \in Nat
    BY <1>1, <1>3
  <2>4. next = candidate + ahead * H
    BY <1>9
  <2> HIDE DEF next
  <2> QED
    BY <1>1, <1>6, <1>9, <2>1, <2>2, <2>3, <2>4
<1>13. next % H = DrawHour /\ next \div H = e + ahead
  BY <1>1, <1>9, Division
<1>14. ASSUME NEW h \in Nat, h > hour, h % H = DrawHour, DayOf(h) % D = DrawWeekday PROVE next <= h
  <2> DEFINE d == DayOf(h)
  <2>1. d \in Nat /\ d >= e /\ h = d * H + DrawHour
    BY <1>8, <1>14
  <2>2. d >= e + ahead
    BY <1>7, <1>14, <2>1
  <2> HIDE DEF d
  <2>3. (e + ahead) * H <= d * H /\ (e + ahead) * H \in Nat /\ d * H \in Nat
    BY <1>1, <1>9, <2>1, <2>2, Multiples
  <2> QED
    BY <1>1, <2>1, <2>3
<1> HIDE DEF next
<1> QED
  BY <1>7, <1>10, <1>11, <1>12, <1>13, <1>14 DEF DayOf, H, D

ScheduleInv == now \in 0 .. Horizon /\ draws_at = NextDrawAt(now)

THEOREM ScheduleInvariant == ScheduleSpec => []ScheduleInv
<1>1. ScheduleInit => ScheduleInv
  BY HorizonAssumption DEF ScheduleInit, ScheduleInv
<1>2. ScheduleInv /\ [ScheduleNext]_scheduleVars => ScheduleInv'
  BY HorizonAssumption DEF ScheduleInv, ScheduleNext, Tick, scheduleVars
<1> QED
  BY <1>1, <1>2, PTL DEF ScheduleSpec

\* For a day of any number of hours, a week of any number of days and any draw hour and
\* weekday in them: the draw a pot is given is the first instant of the calendar after
\* its opening.
THEOREM NextDrawIsAlwaysFirst == ScheduleSpec => []NextDrawIsFirstInstantAfterNow
<1>1. ScheduleInv => NextDrawIsFirstInstantAfterNow
  <2> SUFFICES ASSUME ScheduleInv PROVE NextDrawIsFirstInstantAfterNow
    OBVIOUS
  <2>1. now \in Nat /\ now <= Horizon /\ draws_at = NextDrawAt(now)
    BY HorizonAssumption DEF ScheduleInv
  <2>2. /\ draws_at \in Nat /\ draws_at > now /\ draws_at <= now + HoursPerDay * DaysPerWeek
        /\ draws_at % HoursPerDay = DrawHour /\ DayOf(draws_at) % DaysPerWeek = DrawWeekday
        /\ \A h \in Nat :
             h > now /\ h % HoursPerDay = DrawHour /\ DayOf(h) % DaysPerWeek = DrawWeekday
               => draws_at <= h
    BY <2>1, NextDraw
  <2>3. HoursPerDay * DaysPerWeek \in Nat
    BY CalendarAssumption
  <2>4. draws_at \in 0 .. Horizon + HoursPerDay * DaysPerWeek
    BY <2>1, <2>2, <2>3, HorizonAssumption
  <2>5. DrawInstants \subseteq Nat
    BY <2>3, HorizonAssumption DEF DrawInstants
  <2>6. draws_at \in DrawInstants
    BY <2>2, <2>4 DEF DrawInstants
  <2>7. \A h \in DrawInstants : h % HoursPerDay = DrawHour /\ DayOf(h) % DaysPerWeek = DrawWeekday
    BY DEF DrawInstants
  <2> QED
    BY <2>2, <2>5, <2>6, <2>7 DEF NextDrawIsFirstInstantAfterNow
<1> QED
  BY <1>1, ScheduleInvariant, PTL

-----------------------------------------------------------------------------
(* The walk over the holders *)

LEMMA BeforeAsSum ==
    ASSUME NEW h
    PROVE  Before(h) = SumFunctionOnSet(holders, 1 .. h - 1)
  BY SumOfValues DEF Before

LEMMA SumsAfter ==
    /\ \A h : Before(h)' = SumFunctionOnSet(holders', 1 .. h - 1)
    /\ TotalTickets = SumFunctionOnSet(holders, Indices)
    /\ TotalTickets' = SumFunctionOnSet(holders', Indices)
  BY DEF Before, TotalTickets, MapThenSumSet, SumFunctionOnSet, FoldFunctionOnSet, MapThenFoldSet

LEMMA BeforeGrows ==
    ASSUME holders \in [Indices -> Nat], NEW h \in Indices
    PROVE  Before(h) \in Nat /\ Before(h + 1) = Before(h) + holders[h]
<1>1. h \in Nat /\ h >= 1 /\ 1 .. h - 1 \subseteq Indices
  BY HoldersAssumption DEF Indices
<1>2. 1 .. (h + 1) - 1 = (1 .. h - 1) \cup {h} /\ h \notin 1 .. h - 1
  BY <1>1
<1>3. IsFiniteSet(1 .. h - 1)
  BY <1>1, FS_Interval
<1>4. \A k \in (1 .. h - 1) \cup {h} : holders[k] \in Nat
  BY <1>1
<1>5. SumFunctionOnSet(holders, (1 .. h - 1) \cup {h}) = holders[h] + SumFunctionOnSet(holders, 1 .. h - 1)
  BY <1>2, <1>3, <1>4, SumAdd
<1>6. SumFunctionOnSet(holders, 1 .. h - 1) \in Nat
  BY <1>3, <1>4, SumIsNat
<1>7. Before(h) = SumFunctionOnSet(holders, 1 .. h - 1) /\ Before(h + 1) = SumFunctionOnSet(holders, 1 .. (h + 1) - 1)
  BY BeforeAsSum
<1>8. Before(h + 1) = holders[h] + Before(h)
  BY <1>2, <1>5, <1>7
<1>9. holders[h] \in Nat /\ Before(h) \in Nat
  BY <1>6, <1>7
<1> QED
  BY <1>8, <1>9

\* While it walks, the walk has passed the tickets of the holders before, and the roll
\* is still ahead.
WalkInv ==
    /\ holders \in [Indices -> Nat] /\ roll \in Nat /\ result \in {"none", "walking", "drawn"}
    /\ result = "walking" =>
          /\ holder \in Indices
          /\ walked = Before(holder) /\ walked <= roll /\ roll < TotalTickets
    /\ result = "drawn" => holder \in Indices /\ Owns(holder, roll)

LEMMA TotalIsBeforeNobody == TotalTickets = Before(NumHolders + 1)
<1>1. Indices = 1 .. (NumHolders + 1) - 1
  BY HoldersAssumption DEF Indices
<1> QED
  BY <1>1, SumOfValues DEF TotalTickets, Before

THEOREM WalkInvariant == DrawSpec => []WalkInv
<1>1. DrawInit => WalkInv
  <2> SUFFICES ASSUME DrawInit PROVE WalkInv
    OBVIOUS
  <2>1. holders \in [Indices -> Nat]
    BY HoldersAssumption DEF DrawInit
  <2>2. IsFiniteSet(Indices)
    BY HoldersAssumption, FS_Interval DEF Indices
  <2>3. TotalTickets = SumFunctionOnSet(holders, Indices)
    BY SumOfValues DEF TotalTickets
  <2>4. TotalTickets \in Nat
    BY <2>1, <2>2, <2>3, SumIsNat
  <2>5. Before(1) = 0
    <3>1. 1 .. 1 - 1 = {}
      OBVIOUS
    <3> QED
      BY <3>1, BeforeAsSum, SumOfNone
  <2>6. TotalTickets > 0 => 1 \in Indices
    <3> SUFFICES ASSUME 1 \notin Indices PROVE TotalTickets = 0
      BY <2>4
    <3>1. Indices = {}
      BY HoldersAssumption DEF Indices
    <3> QED
      BY <2>3, <3>1, SumOfNone
  <2> QED
    BY <2>1, <2>4, <2>5, <2>6 DEF DrawInit, WalkInv
<1>2. WalkInv /\ [DrawNext]_drawVars => WalkInv'
  <2> SUFFICES ASSUME WalkInv, [DrawNext]_drawVars PROVE WalkInv'
    OBVIOUS
  <2>0. UNCHANGED holders => (\A h : Before(h)' = Before(h)) /\ TotalTickets' = TotalTickets
    BY SumsAfter, BeforeAsSum
  <2>1. CASE UNCHANGED drawVars
    <3>1. Before(holder)' = Before(holder) /\ TotalTickets' = TotalTickets
      <4>1. holder' = holder /\ holders' = holders
        BY <2>1 DEF drawVars
      <4> QED
        BY <2>0, <4>1, SumsAfter, BeforeAsSum
    <3> QED
      BY <2>1, <3>1 DEF drawVars, WalkInv, Owns
  <2>2. CASE Walk
    <3>0. /\ holders \in [Indices -> Nat] /\ roll \in Nat /\ holder \in Indices
          /\ walked = Before(holder) /\ walked <= roll /\ roll < TotalTickets
          /\ holders' = holders /\ roll' = roll /\ walked' = walked + holders[holder]
          /\ IF roll < walked' THEN result' = "drawn" /\ holder' = holder
                               ELSE result' = "walking" /\ holder' = holder + 1
      BY <2>2 DEF Walk, WalkInv
    <3>1. Before(holder) \in Nat /\ Before(holder + 1) = Before(holder) + holders[holder]
      BY <3>0, BeforeGrows
    <3>3. TotalTickets' = TotalTickets
      BY <2>0, <3>0
    <3>4. CASE roll < walked'
      <4>1. Owns(holder, roll)
        BY <3>0, <3>1, <3>4 DEF Owns
      <4>2. Owns(holder, roll)'
        BY <2>0, <3>0, <3>4, <4>1 DEF Owns
      <4> QED
        BY <3>0, <3>4, <4>2 DEF WalkInv
    <3>5. CASE ~ (roll < walked')
      <4>1. walked' = Before(holder + 1) /\ walked' \in Nat /\ walked' <= roll
        BY <3>0, <3>1, <3>5
      <4>2. holder # NumHolders
        <5> SUFFICES ASSUME holder = NumHolders PROVE FALSE
          OBVIOUS
        <5> QED
          BY <3>0, <4>1, TotalIsBeforeNobody
      <4>3. holder + 1 \in Indices
        BY <3>0, <4>2, HoldersAssumption DEF Indices
      <4>4. (walked = Before(holder))'
        BY <2>0, <3>0, <3>5, <4>1
      <4> QED
        BY <3>0, <3>3, <3>5, <4>1, <4>3, <4>4 DEF WalkInv
    <3> QED
      BY <3>4, <3>5
  <2> QED
    BY <2>1, <2>2 DEF DrawNext
<1> QED
  BY <1>1, <1>2, PTL DEF DrawSpec

\* For any number of holders and any holdings: whatever the roll, the winner owns it,
\* and the walk never runs out of holders.
THEOREM DrawIsAlwaysFair == DrawSpec => []DrawIsFair
<1>1. WalkInv => DrawIsFair
  BY HoldersAssumption DEF WalkInv, DrawIsFair, WinnerOwnsTheRoll, WalkCoversEveryTicket, Indices
<1> QED
  BY <1>1, WalkInvariant, PTL

-----------------------------------------------------------------------------
(* Online time *)

Spans == [start : Int, end : Int]

\* A finite set of things that start has one that starts last.
LEMMA LatestIsLast ==
    ASSUME NEW S, IsFiniteSet(S), S # {}, \A x \in S : x.start \in Int
    PROVE  Latest(S) \in S /\ \A x \in S : x.start <= Latest(S).start
<1> DEFINE f == [x \in S |-> x.start]
<1> DEFINE T == {f[x] : x \in S}
<1>1. IsFiniteSet(T)
  BY FiniteImage
<1>2. T # {} /\ T \subseteq Int
  OBVIOUS
<1>3. \E m \in T : \A t \in T : t <= m
  <2> HIDE DEF T
  <2> QED
    BY <1>1, <1>2, Extremes
<1>4. PICK x \in S : \A t \in T : t <= f[x]
  BY <1>3
<1>5. \A y \in S : y.start <= x.start
  BY <1>4
<1> QED
  BY <1>5 DEF Latest

LEMMA LatestOfParts ==
    ASSUME NEW S, IsFiniteSet(S), \A x \in S : x.start \in Int
    PROVE  \A s \in SUBSET S : s # {} => /\ Latest(s) \in s
                                         /\ [t \in SUBSET S |-> Latest(t)][s] \in s
<1> TAKE s \in SUBSET S
<1> SUFFICES ASSUME s # {} PROVE Latest(s) \in s /\ [t \in SUBSET S |-> Latest(t)][s] = Latest(s)
  OBVIOUS
<1>1. IsFiniteSet(s) /\ \A x \in s : x.start \in Int
  BY FS_Subset
<1> QED
  BY <1>1, LatestIsLast

-----------------------------------------------------------------------------
(* The merge loop.                                                         *)

IsMerge(g, S) ==
    g = [s \in SUBSET S |-> IF s = {} THEN {} ELSE MergeInto(Latest(s), g[s \ {Latest(s)}])]

LEMMA MergeIsSpans ==
    ASSUME NEW x \in Spans, NEW M \in SUBSET Spans, IsFiniteSet(M)
    PROVE  MergeInto(x, M) \in SUBSET Spans /\ IsFiniteSet(MergeInto(x, M))
<1>1. CASE M # {} /\ x.start <= Latest(M).end
  <2>1. \A y \in M : y.start \in Int
    BY DEF Spans
  <2>2. Latest(M) \in M
    BY <1>1, <2>1, LatestIsLast
  <2> DEFINE joined == [Latest(M) EXCEPT !.end = Later(@, x.end)]
  <2>3. joined \in Spans
    BY <2>2 DEF Spans, Later
  <2>4. MergeInto(x, M) = (M \ {Latest(M)}) \cup {joined}
    BY <1>1 DEF MergeInto
  <2> HIDE DEF joined
  <2>5. IsFiniteSet(M \ {Latest(M)})
    BY FS_RemoveElement
  <2>6. IsFiniteSet((M \ {Latest(M)}) \cup {joined})
    BY <2>5, FS_AddElement
  <2> QED
    BY <2>3, <2>4, <2>6
<1>2. CASE ~(M # {} /\ x.start <= Latest(M).end)
  <2>1. MergeInto(x, M) = M \cup {x}
    BY <1>2 DEF MergeInto
  <2>2. IsFiniteSet(M \cup {x})
    BY FS_AddElement
  <2> QED
    BY <2>1, <2>2
<1> QED
  BY <1>1, <1>2

LEMMA MergeIterates ==
    ASSUME NEW S, IsFiniteSet(S), S \in SUBSET Spans
    PROVE  \E g : IsMerge(g, S) /\ InTimeOrder(MergeInto, {}, S) = g[S]
<1> DEFINE B == {M \in SUBSET Spans : IsFiniteSet(M)}
<1> DEFINE step == [x \in Spans \X B |-> MergeInto(x[1], x[2])]
<1> DEFINE pick == [s \in SUBSET S |-> Latest(s)]
<1>1. \A x \in S : x.start \in Int
  BY DEF Spans
<1>2. \A s \in SUBSET S : s # {} => Latest(s) \in s /\ pick[s] \in s
  BY <1>1, LatestOfParts
<1>3. \A x \in S : \A y \in B : step[<<x, y>>] = MergeInto(x, y)
  OBVIOUS
<1>4. \A s \in SUBSET S : pick[s] = Latest(s)
  OBVIOUS
<1>5. \A x \in S : \A y \in B : MergeInto(x, y) \in B
  BY MergeIsSpans
<1>6. {} \in B
  BY FS_EmptySet
<1> HIDE DEF step, pick, B
<1>7. PICK h : IsIteration(h, {}, step, pick, S)
  BY <1>2, IterationExists
<1>8. \A s \in SUBSET S : h[s] \in B
  <2>1. \A x \in S : \A y \in B : step[<<x, y>>] \in B
    BY <1>3, <1>5
  <2> QED
    BY <1>2, <1>6, <1>7, <2>1, IterationType
<1>9. IsMerge(h, S)
  <2> DEFINE k == [s \in SUBSET S |-> IF s = {} THEN {} ELSE MergeInto(Latest(s), h[s \ {Latest(s)}])]
  <2> DEFINE k2 == [s \in SUBSET S |-> IF s = {} THEN {} ELSE step[<<pick[s], h[s \ {pick[s]}]>>]]
  <2>1. ASSUME NEW s \in SUBSET S PROVE k[s] = k2[s]
    <3>1. CASE s = {}
      BY <3>1
    <3>2. CASE s # {}
      <4>1. Latest(s) \in S /\ s \ {Latest(s)} \in SUBSET S /\ pick[s] = Latest(s)
        BY <1>2, <1>4, <3>2
      <4>2. step[<<Latest(s), h[s \ {Latest(s)}]>>] = MergeInto(Latest(s), h[s \ {Latest(s)}])
        BY <1>3, <1>8, <4>1
      <4> QED
        BY <3>2, <4>1, <4>2
    <3> QED
      BY <3>1, <3>2
  <2>2. k = k2
    BY <2>1
  <2>3. h = k2
    BY <1>7 DEF IsIteration
  <2> QED
    BY <2>2, <2>3 DEF IsMerge
<1> DEFINE g == CHOOSE g : IsMerge(g, S)
<1>10. IsMerge(g, S)
  BY <1>9
<1>11. InTimeOrder(MergeInto, {}, S) = g[S]
  BY DEF InTimeOrder, MapThenFoldSet, IsMerge
<1> HIDE DEF g
<1> QED
  BY <1>10, <1>11

\* Spans of some length, and those that neither overlap nor touch.
Proper(S) == S \in SUBSET Spans /\ IsFiniteSet(S) /\ \A x \in S : x.start < x.end
Apart(S) == \A x, y \in S : x = y \/ x.end < y.start \/ y.end < x.start
Covered(S) == UNION {Moments(x) : x \in S}

LEMMA SpanFacts ==
    ASSUME NEW S, Proper(S)
    PROVE  \A x \in S : x \in Spans /\ x.start \in Int /\ x.end \in Int /\ x.start < x.end
  BY DEF Proper, Spans

\* A span that starts no earlier than those merged so far is joined to the last of
\* them or stands apart from all.
LEMMA MergeOne ==
    ASSUME NEW M, Proper(M), Apart(M),
           NEW x \in Spans, x.start < x.end, \A y \in M : y.start <= x.start
    PROVE  /\ Proper(MergeInto(x, M)) /\ Apart(MergeInto(x, M))
           /\ Covered(MergeInto(x, M)) = Covered(M) \cup Moments(x)
           /\ \A y \in MergeInto(x, M) : y.start <= x.start
<1>0. x.start \in Int /\ x.end \in Int
  BY DEF Spans
<1>1. \A y \in M : y \in Spans /\ y.start \in Int /\ y.end \in Int /\ y.start < y.end
  BY SpanFacts
<1>2. MergeInto(x, M) \in SUBSET Spans /\ IsFiniteSet(MergeInto(x, M))
  BY MergeIsSpans DEF Proper
<1>3. CASE M # {} /\ x.start <= Latest(M).end
  <2> DEFINE last == Latest(M)
  <2> DEFINE joined == [last EXCEPT !.end = Later(@, x.end)]
  <2>1. last \in M /\ \A y \in M : y.start <= last.start
    BY <1>1, <1>3, LatestIsLast DEF Proper
  <2>2. MergeInto(x, M) = (M \ {last}) \cup {joined}
    BY <1>3 DEF MergeInto
  <2>3. /\ joined.start = last.start /\ joined.end = Later(last.end, x.end)
        /\ last.start \in Int /\ last.end \in Int /\ last.start < last.end
        /\ last.start <= x.start /\ x.start <= last.end
    BY <1>1, <1>3, <2>1 DEF Spans
  <2> HIDE DEF joined, last
  <2>4. joined.start < joined.end /\ joined.start <= x.start /\ joined.end \in Int
    BY <1>0, <2>3 DEF Later
  <2>5. Moments(joined) = Moments(last) \cup Moments(x)
    <3>1. \A t \in Int : joined.start <= t /\ t <= joined.end - 1 <=>
                             \/ last.start <= t /\ t <= last.end - 1
                             \/ x.start <= t /\ t <= x.end - 1
      BY <1>0, <2>3 DEF Later
    <3>2. /\ Moments(joined) = {t \in Int : joined.start <= t /\ t <= joined.end - 1}
          /\ Moments(last) = {t \in Int : last.start <= t /\ t <= last.end - 1}
          /\ Moments(x) = {t \in Int : x.start <= t /\ t <= x.end - 1}
      BY <1>0, <2>3, <2>4 DEF Moments
    <3> QED
      BY <3>1, <3>2
  <2>6. \A y \in M \ {last} : y.end < joined.start
    <3> TAKE y \in M \ {last}
    <3>1. y # last /\ y.start <= last.start /\ (y.end < last.start \/ last.end < y.start)
      BY <2>1 DEF Apart
    <3> QED
      BY <1>1, <2>3, <3>1
  <2>7. Proper(MergeInto(x, M))
    BY <1>1, <1>2, <2>2, <2>4 DEF Proper
  <2>8. Apart(MergeInto(x, M))
    <3> SUFFICES ASSUME NEW y \in MergeInto(x, M), NEW z \in MergeInto(x, M)
                 PROVE  y = z \/ y.end < z.start \/ z.end < y.start
      BY DEF Apart
    <3> QED
      BY <2>2, <2>6 DEF Apart
  <2>9. Covered(MergeInto(x, M)) = Covered(M) \cup Moments(x)
    <3>1. Covered(MergeInto(x, M)) = Covered(M \ {last}) \cup Moments(joined)
      BY <2>2, Zenon DEF Covered
    <3>2. Covered(M) = Covered(M \ {last}) \cup Moments(last)
      BY <2>1, Zenon DEF Covered
    <3> QED
      BY <2>5, <3>1, <3>2
  <2>10. \A y \in MergeInto(x, M) : y.start <= x.start
    BY <2>2, <2>4
  <2> QED
    BY <2>7, <2>8, <2>9, <2>10
<1>4. CASE ~(M # {} /\ x.start <= Latest(M).end)
  <2>1. MergeInto(x, M) = M \cup {x}
    BY <1>4 DEF MergeInto
  <2>2. \A y \in M : y.end < x.start
    <3> TAKE y \in M
    <3> DEFINE last == Latest(M)
    <3>1. last \in M /\ y.start <= last.start
      BY <1>1, LatestIsLast DEF Proper
    <3>2. last.end < x.start /\ last.start < last.end
      BY <1>0, <1>1, <1>4, <3>1
    <3>3. y = last \/ y.end < last.start \/ last.end < y.start
      BY <3>1 DEF Apart
    <3> HIDE DEF last
    <3>4. /\ y.start \in Int /\ y.end \in Int /\ y.start < y.end
          /\ last.start \in Int /\ last.end \in Int
      BY <1>1, <3>1
    <3> QED
      BY <1>0, <3>1, <3>2, <3>3, <3>4
  <2>3. Proper(MergeInto(x, M))
    BY <1>1, <1>2, <2>1 DEF Proper
  <2>4. Apart(MergeInto(x, M))
    BY <2>1, <2>2 DEF Apart
  <2>5. Covered(MergeInto(x, M)) = Covered(M) \cup Moments(x)
    BY <2>1, Zenon DEF Covered
  <2>6. \A y \in MergeInto(x, M) : y.start <= x.start
    BY <1>0, <2>1
  <2> QED
    BY <2>3, <2>4, <2>5, <2>6
<1> QED
  BY <1>3, <1>4

\* The loop: what it returns is apart and covers the same moments.
LEMMA MergeAll ==
    ASSUME NEW S, Proper(S)
    PROVE  LET merged == InTimeOrder(MergeInto, {}, S)
           IN  Proper(merged) /\ Apart(merged) /\ Covered(merged) = Covered(S)
<1>0. IsFiniteSet(S) /\ S \in SUBSET Spans
  BY DEF Proper
<1>1. PICK g : IsMerge(g, S) /\ InTimeOrder(MergeInto, {}, S) = g[S]
  BY <1>0, MergeIterates
<1>a. /\ g[{}] = {}
      /\ \A s \in SUBSET S : s # {} => g[s] = MergeInto(Latest(s), g[s \ {Latest(s)}])
  BY <1>1 DEF IsMerge
<1> DEFINE pick == [s \in SUBSET S |-> Latest(s)]
<1>2. \A x \in S : x \in Spans /\ x.start \in Int /\ x.end \in Int /\ x.start < x.end
  BY SpanFacts
<1>3. \A s \in SUBSET S : s # {} => Latest(s) \in s /\ pick[s] \in s /\ pick[s] = Latest(s)
  BY <1>0, <1>2, LatestOfParts
<1> HIDE DEF pick
<1> DEFINE good == {s \in SUBSET S : /\ Proper(g[s]) /\ Apart(g[s]) /\ Covered(g[s]) = Covered(s)
                                     /\ \A y \in g[s] : \E z \in s : y.start <= z.start}
<1>4. {} \in good
  BY <1>a, FS_EmptySet DEF Proper, Apart, Covered
<1>5. ASSUME NEW s \in SUBSET S, s # {}, s \ {pick[s]} \in good PROVE s \in good
  <2> DEFINE x == Latest(s)
  <2> DEFINE M == g[s \ {x}]
  <2>1. x \in s /\ pick[s] = x
    BY <1>3, <1>5
  <2>2. /\ Proper(M) /\ Apart(M) /\ Covered(M) = Covered(s \ {x})
        /\ \A y \in M : \E z \in s \ {x} : y.start <= z.start
    BY <1>5, <2>1
  <2>3. x \in Spans /\ x.start < x.end /\ x.start \in Int
    BY <1>2, <2>1
  <2>4. \A z \in s : z.start <= x.start /\ z.start \in Int
    <3>1. IsFiniteSet(s)
      BY <1>0, FS_Subset
    <3>2. \A z \in s : z.start \in Int
      BY <1>2
    <3> QED
      BY <1>5, <3>1, <3>2, LatestIsLast
  <2>5. g[s] = MergeInto(x, M)
    BY <1>a, <1>5
  <2>6. \A y \in M : y.start \in Int
    BY <2>2, SpanFacts
  <2> HIDE DEF x, M
  <2>7. \A y \in M : y.start <= x.start
    BY <2>2, <2>3, <2>4, <2>6
  <2>8. /\ Proper(g[s]) /\ Apart(g[s]) /\ Covered(g[s]) = Covered(M) \cup Moments(x)
        /\ \A y \in g[s] : y.start <= x.start
    BY <2>2, <2>3, <2>5, <2>7, MergeOne
  <2>9. Covered(s) = Covered(s \ {x}) \cup Moments(x)
    BY <2>1, Zenon DEF Covered
  <2> QED
    BY <2>1, <2>2, <2>8, <2>9
<1> HIDE DEF good
<1>6. S \in good
  BY <1>0, <1>3, <1>4, <1>5, PickInduction
<1> QED
  BY <1>1, <1>6 DEF good

-----------------------------------------------------------------------------
(* What is new of a span.                                                  *)

LEMMA MomentsAreFinite ==
    ASSUME NEW x, x.start \in Int, x.end \in Int, x.start < x.end
    PROVE  IsFiniteSet(Moments(x)) /\ Cardinality(Moments(x)) = x.end - x.start
<1>1. x.end - 1 \in Int /\ ~(x.start > x.end - 1) /\ (x.end - 1) - x.start + 1 = x.end - x.start
  OBVIOUS
<1>2. /\ IsFiniteSet(x.start .. x.end - 1)
      /\ Cardinality(x.start .. x.end - 1) = IF x.start > x.end - 1 THEN 0 ELSE (x.end - 1) - x.start + 1
  BY <1>1, FS_Interval
<1> QED
  BY <1>1, <1>2 DEF Moments

LEMMA CoveredIsFinite ==
    ASSUME NEW S, IsFiniteSet(S),
           \A x \in S : x.start \in Int /\ x.end \in Int /\ x.start < x.end
    PROVE  IsFiniteSet(Covered(S))
<1> DEFINE good == {T \in SUBSET S : IsFiniteSet(Covered(T))}
<1>1. {} \in good
  <2>1. Covered({}) = {}
    BY DEF Covered
  <2> QED
    BY <2>1, FS_EmptySet
<1>2. ASSUME NEW T \in SUBSET S, NEW z \in S \ T, T \in good PROVE T \cup {z} \in good
  <2>1. Covered(T \cup {z}) = Covered(T) \cup Moments(z)
    BY Zenon DEF Covered
  <2>2. IsFiniteSet(Moments(z))
    BY MomentsAreFinite
  <2>3. IsFiniteSet(Covered(T) \cup Moments(z))
    BY <1>2, <2>2, FS_Union
  <2> QED
    BY <2>1, <2>3
<1> HIDE DEF good
<1>3. S \in good
  BY <1>1, <1>2, SubsetInduction
<1> QED
  BY <1>3 DEF good

\* Spans that are apart have no moment in common.
LEMMA ApartIsDisjoint ==
    ASSUME NEW S, Proper(S), Apart(S), NEW x \in S, NEW y \in S, x # y
    PROVE  Moments(x) \cap Moments(y) = {}
<1>1. /\ x.start \in Int /\ x.end \in Int /\ y.start \in Int /\ y.end \in Int
      /\ x.end < y.start \/ y.end < x.start
  BY SpanFacts DEF Apart
<1> QED
  BY <1>1 DEF Moments

\* uncounted_milliseconds counts the moments that no counted span has.
LEMMA UncountedIsNew ==
    ASSUME NEW S, Proper(S), Apart(S),
           NEW x, x.start \in Int, x.end \in Int, x.start < x.end
    PROVE  uncounted(x, S) = Cardinality(Moments(x) \ Covered(S))
<1> DEFINE f == [o \in S |-> Cardinality(Moments(x) \cap Moments(o))]
<1> DEFINE shared(T) == Moments(x) \cap Covered(T)
<1> DEFINE good == {T \in SUBSET S : SumFunctionOnSet(f, T) = Cardinality(shared(T))}
<1>0. IsFiniteSet(S) /\ IsFiniteSet(Moments(x)) /\ Cardinality(Moments(x)) = x.end - x.start
  BY MomentsAreFinite DEF Proper
<1>1. \A o \in S : f[o] \in Int /\ IsFiniteSet(Moments(x) \cap Moments(o))
  <2> TAKE o \in S
  <2>1. IsFiniteSet(Moments(x) \cap Moments(o))
    BY <1>0, FS_Intersection
  <2> QED
    BY <2>1, FS_CardinalityType
<1>2. {} \in good
  <2>1. shared({}) = {}
    BY DEF Covered
  <2> QED
    BY <2>1, SumOfNone, FS_EmptySet
<1>3. ASSUME NEW T \in SUBSET S, NEW z \in S \ T, T \in good PROVE T \cup {z} \in good
  <2>1. IsFiniteSet(T) /\ z \notin T /\ \A o \in T \cup {z} : f[o] \in Int
    BY <1>0, <1>1, FS_Subset
  <2>2. SumFunctionOnSet(f, T \cup {z}) = f[z] + SumFunctionOnSet(f, T)
    <3> HIDE DEF f
    <3> QED
      BY <2>1, SumAdd
  <2>3. shared(T \cup {z}) = shared(T) \cup (Moments(x) \cap Moments(z))
    BY Zenon DEF Covered
  <2>4. shared(T) \cap (Moments(x) \cap Moments(z)) = {}
    <3>1. \A y \in T : Moments(y) \cap Moments(z) = {}
      BY ApartIsDisjoint
    <3> QED
      BY <3>1 DEF Covered
  <2>5. IsFiniteSet(shared(T))
    BY <1>0, FS_Intersection
  <2>6. SumFunctionOnSet(f, T) = Cardinality(shared(T))
    BY <1>3
  <2>7. f[z] = Cardinality(Moments(x) \cap Moments(z)) /\ IsFiniteSet(Moments(x) \cap Moments(z))
    BY <1>1
  <2> HIDE DEF shared, f
  <2>8. Cardinality(shared(T) \cup (Moments(x) \cap Moments(z)))
          = Cardinality(shared(T)) + Cardinality(Moments(x) \cap Moments(z)) - Cardinality({})
    BY <2>4, <2>5, <2>7, FS_Union
  <2>9. Cardinality({}) = 0 /\ Cardinality(shared(T)) \in Nat /\ Cardinality(Moments(x) \cap Moments(z)) \in Nat
    BY <2>5, <2>7, FS_EmptySet, FS_CardinalityType
  <2>10. Cardinality(shared(T \cup {z})) = Cardinality(shared(T) \cup (Moments(x) \cap Moments(z)))
    BY <2>3
  <2>11. Cardinality(shared(T \cup {z})) = f[z] + Cardinality(shared(T))
    BY <2>7, <2>8, <2>9, <2>10
  <2> QED
    BY <2>2, <2>6, <2>11
<1> HIDE DEF good
<1>4. S \in good
  BY <1>0, <1>2, <1>3, SubsetInduction
<1>5. SumFunctionOnSet(f, S) = Cardinality(Moments(x) \cap Covered(S))
  BY <1>4 DEF good
<1>6. SumFunction(f) = SumFunctionOnSet(f, S)
  BY DEF SumFunction
<1>7. uncounted(x, S) = x.end - x.start - SumFunction(f)
  BY DEF uncounted
<1>8. Cardinality(Moments(x) \ Covered(S)) = Cardinality(Moments(x)) - Cardinality(Moments(x) \cap Covered(S))
  BY <1>0, FS_Difference
<1> HIDE DEF f
<1> QED
  BY <1>0, <1>5, <1>6, <1>7, <1>8

-----------------------------------------------------------------------------
(* One increment, and all of a batch.                                      *)

Increments == [user : Members, month : Months, start : Int, end : Int]
RowTypes == [total : Int, monthly : [Months -> Int], counted : SUBSET Spans]

\* A row in order: its spans are apart and its months add up.
GoodRow(row) ==
    /\ row \in RowTypes /\ Proper(row.counted) /\ Apart(row.counted)
    /\ SumFunction(row.monthly) = row.total

LEMMA MonthsAreFinite == IsFiniteSet(Months)
<1>1. MaxTime \div MonthLen \in Int
  BY BoundsAssumption
<1> QED
  BY <1>1, FS_Interval DEF Months

LEMMA CreditOne ==
    ASSUME NEW row, GoodRow(row), NEW inc \in Increments, inc.start < inc.end
    PROVE  LET credited == CreditTime(inc, row)
           IN  /\ GoodRow(credited)
               /\ Covered(credited.counted) = Covered(row.counted) \cup Moments(inc)
               /\ credited.total = row.total + Cardinality(Moments(inc) \ Covered(row.counted))
<1> DEFINE credit == uncounted(inc, row.counted)
<1> DEFINE span == [start |-> inc.start, end |-> inc.end]
<1> DEFINE credited == CreditTime(inc, row)
<1>0. /\ inc.start \in Int /\ inc.end \in Int /\ inc.month \in Months
      /\ row.total \in Int /\ row.monthly \in [Months -> Int] /\ row.counted \in SUBSET Spans
      /\ Proper(row.counted) /\ Apart(row.counted) /\ SumFunction(row.monthly) = row.total
  BY DEF Increments, GoodRow, RowTypes
<1>1. credit = Cardinality(Moments(inc) \ Covered(row.counted))
  BY <1>0, UncountedIsNew
<1>2. credit \in Int
  <2>1. IsFiniteSet(Moments(inc))
    BY <1>0, MomentsAreFinite
  <2>2. IsFiniteSet(Moments(inc) \ Covered(row.counted))
    BY <2>1, FS_Difference
  <2>3. Cardinality(Moments(inc) \ Covered(row.counted)) \in Int
    BY <2>2, FS_CardinalityType
  <2> QED
    BY <1>1, <2>3
<1>3. /\ credited.total = row.total + credit
      /\ credited.monthly = [row.monthly EXCEPT ![inc.month] = @ + credit]
      /\ credited.counted = InTimeOrder(MergeInto, {}, row.counted \cup {span})
      /\ credited = [total |-> credited.total, monthly |-> credited.monthly, counted |-> credited.counted]
  BY DEF CreditTime, add_counted_span
<1>4. span \in Spans /\ span.start < span.end /\ Moments(span) = Moments(inc)
  BY <1>0 DEF Spans, Moments
<1> HIDE DEF span, credit, credited
<1>5. Proper(row.counted \cup {span})
  <2>1. IsFiniteSet(row.counted \cup {span})
    BY <1>0, FS_AddElement DEF Proper
  <2> QED
    BY <1>0, <1>4, <2>1 DEF Proper
<1>6. /\ Proper(credited.counted) /\ Apart(credited.counted)
      /\ Covered(credited.counted) = Covered(row.counted \cup {span})
  BY <1>3, <1>5, MergeAll
<1>7. Covered(row.counted \cup {span}) = Covered(row.counted) \cup Moments(inc)
  BY <1>4, Zenon DEF Covered
<1>8. credited.monthly \in [Months -> Int] /\ credited.total \in Int
  BY <1>0, <1>2, <1>3
<1>9. SumFunction(credited.monthly) = credited.total
  <2> DEFINE f == row.monthly
  <2> DEFINE g == credited.monthly
  <2>1. DOMAIN f = Months /\ DOMAIN g = Months
    BY <1>0, <1>8
  <2>2. /\ \A m \in Months : f[m] \in Int /\ g[m] \in Int
        /\ \A m \in Months : m # inc.month => g[m] = f[m]
        /\ g[inc.month] = f[inc.month] + credit
    BY <1>0, <1>2, <1>3, <1>8
  <2> HIDE DEF f, g
  <2>a. inc.month \in Months /\ g[inc.month] \in Int
    BY <1>0, <2>2
  <2>3. SumFunctionOnSet(g, Months) = SumFunctionOnSet(f, Months) + (g[inc.month] - f[inc.month])
    BY <2>2, <2>a, MonthsAreFinite, SumOfChanged
  <2>4. SumFunctionOnSet(f, Months) = row.total /\ SumFunction(g) = SumFunctionOnSet(g, Months)
    BY <1>0, <2>1 DEF SumFunction, f
  <2>5. SumFunction(g) = row.total + credit
    BY <1>0, <1>2, <2>2, <2>3, <2>4
  <2> QED
    BY <1>3, <2>5 DEF g
<1>10. credited \in RowTypes
  <2>1. credited.counted \in SUBSET Spans
    BY <1>6 DEF Proper
  <2> QED
    BY <1>3, <1>8, <2>1 DEF RowTypes
<1>11. GoodRow(credited)
  BY <1>6, <1>9, <1>10 DEF GoodRow
<1> QED
  BY <1>1, <1>3, <1>6, <1>7, <1>11 DEF credited

\* A user's part of a batch.
Batch(S) == S \in SUBSET Increments /\ IsFiniteSet(S) /\ \A x \in S : x.start < x.end

LEMMA BatchFacts ==
    ASSUME NEW S, Batch(S)
    PROVE  \A x \in S : x \in Increments /\ x.start \in Int /\ x.end \in Int /\ x.start < x.end
  BY DEF Batch, Increments

IsCredit(g, row, S) ==
    g = [s \in SUBSET S |-> IF s = {} THEN row ELSE CreditTime(Latest(s), g[s \ {Latest(s)}])]

LEMMA CreditIterates ==
    ASSUME NEW row, GoodRow(row), NEW S, Batch(S)
    PROVE  \E g : /\ IsCredit(g, row, S) /\ InTimeOrder(CreditTime, row, S) = g[S]
                  /\ \A s \in SUBSET S : GoodRow(g[s])
<1> DEFINE B == {r \in RowTypes : GoodRow(r)}
<1> DEFINE step == [x \in S \X B |-> CreditTime(x[1], x[2])]
<1> DEFINE pick == [s \in SUBSET S |-> Latest(s)]
<1>0. IsFiniteSet(S)
  BY DEF Batch
<1>1. \A x \in S : x \in Increments /\ x.start \in Int /\ x.end \in Int /\ x.start < x.end
  BY BatchFacts
<1>2. \A s \in SUBSET S : s # {} => Latest(s) \in s /\ pick[s] \in s
  BY <1>0, <1>1, LatestOfParts
<1>3. \A x \in S : \A y \in B : step[<<x, y>>] = CreditTime(x, y)
  OBVIOUS
<1>4. \A s \in SUBSET S : pick[s] = Latest(s)
  OBVIOUS
<1>5. \A x \in S : \A y \in B : CreditTime(x, y) \in B
  <2> TAKE x \in S
  <2> TAKE y \in B
  <2>1. GoodRow(CreditTime(x, y))
    BY <1>1, CreditOne
  <2> QED
    BY <2>1 DEF GoodRow
<1>6. row \in B
  BY DEF GoodRow
<1> HIDE DEF step, pick
<1>7. PICK h : IsIteration(h, row, step, pick, S)
  BY <1>0, <1>2, IterationExists
<1>8. \A s \in SUBSET S : h[s] \in B
  <2>1. \A x \in S : \A y \in B : step[<<x, y>>] \in B
    BY <1>3, <1>5
  <2> HIDE DEF B
  <2> QED
    BY <1>0, <1>2, <1>6, <1>7, <2>1, IterationType
<1> HIDE DEF B
<1>9. IsCredit(h, row, S)
  <2> DEFINE k == [s \in SUBSET S |-> IF s = {} THEN row ELSE CreditTime(Latest(s), h[s \ {Latest(s)}])]
  <2> DEFINE k2 == [s \in SUBSET S |-> IF s = {} THEN row ELSE step[<<pick[s], h[s \ {pick[s]}]>>]]
  <2>1. ASSUME NEW s \in SUBSET S PROVE k[s] = k2[s]
    <3>1. CASE s = {}
      BY <3>1
    <3>2. CASE s # {}
      <4>1. Latest(s) \in S /\ s \ {Latest(s)} \in SUBSET S /\ pick[s] = Latest(s)
        BY <1>2, <1>4, <3>2
      <4>2. step[<<Latest(s), h[s \ {Latest(s)}]>>] = CreditTime(Latest(s), h[s \ {Latest(s)}])
        BY <1>3, <1>8, <4>1
      <4> QED
        BY <3>2, <4>1, <4>2
    <3> QED
      BY <3>1, <3>2
  <2>2. k = k2
    BY <2>1
  <2>3. h = k2
    BY <1>7 DEF IsIteration
  <2> QED
    BY <2>2, <2>3 DEF IsCredit
<1> DEFINE g == CHOOSE g : IsCredit(g, row, S)
<1>10. IsCredit(g, row, S)
  BY <1>9
<1>11. InTimeOrder(CreditTime, row, S) = g[S]
  BY DEF InTimeOrder, MapThenFoldSet, IsCredit
<1> HIDE DEF g
<1>12. \A s \in SUBSET S : GoodRow(g[s])
  <2> DEFINE k == [s \in SUBSET S |-> IF s = {} THEN row ELSE CreditTime(Latest(s), g[s \ {Latest(s)}])]
  <2> DEFINE good == {s \in SUBSET S : GoodRow(g[s])}
  <2>1. \A s \in SUBSET S : g[s] = IF s = {} THEN row ELSE CreditTime(Latest(s), g[s \ {Latest(s)}])
    BY <1>10 DEF IsCredit
  <2>2. {} \in good
    BY <2>1
  <2>3. ASSUME NEW s \in SUBSET S, s # {}, s \ {pick[s]} \in good PROVE s \in good
    <3>1. Latest(s) \in S /\ pick[s] = Latest(s) /\ GoodRow(g[s \ {Latest(s)}])
      BY <1>2, <1>4, <2>3
    <3>2. GoodRow(CreditTime(Latest(s), g[s \ {Latest(s)}]))
      BY <1>1, <3>1, CreditOne
    <3> QED
      BY <2>1, <2>3, <3>2
  <2> HIDE DEF good
  <2>4. ASSUME NEW T \in SUBSET S PROVE T \in good
    <3>1. IsFiniteSet(T) /\ \A s \in SUBSET T : s # {} => pick[s] \in s
      BY <1>0, <1>2, FS_Subset
    <3>2. \A s \in SUBSET T : s # {} /\ s \ {pick[s]} \in good => s \in good
      BY <2>3
    <3> QED
      BY <2>2, <3>1, <3>2, PickInduction
  <2> QED
    BY <2>4 DEF good
<1> QED
  BY <1>10, <1>11, <1>12

\* A batch credits the moments no counted span had, however its increments overlap.
LEMMA CreditAll ==
    ASSUME NEW row, GoodRow(row), NEW S, Batch(S)
    PROVE  LET credited == InTimeOrder(CreditTime, row, S)
           IN  /\ GoodRow(credited)
               /\ Covered(credited.counted) = Covered(row.counted) \cup Covered(S)
               /\ credited.total = row.total + Cardinality(Covered(S) \ Covered(row.counted))
<1>1. PICK g : /\ IsCredit(g, row, S) /\ InTimeOrder(CreditTime, row, S) = g[S]
               /\ \A s \in SUBSET S : GoodRow(g[s])
  BY CreditIterates
<1>2. \A s \in SUBSET S : g[s] = IF s = {} THEN row ELSE CreditTime(Latest(s), g[s \ {Latest(s)}])
  BY <1>1 DEF IsCredit
<1>3. IsFiniteSet(S) /\ \A x \in S : x \in Increments /\ x.start \in Int /\ x.end \in Int /\ x.start < x.end
  BY BatchFacts DEF Batch
<1> DEFINE pick == [s \in SUBSET S |-> Latest(s)]
<1>4. \A s \in SUBSET S : s # {} => Latest(s) \in s /\ pick[s] \in s /\ pick[s] = Latest(s)
  BY <1>3, LatestOfParts
<1> HIDE DEF pick
<1> DEFINE had == Covered(row.counted)
<1> DEFINE good == {s \in SUBSET S :
      /\ Covered(g[s].counted) = had \cup Covered(s)
      /\ g[s].total = row.total + Cardinality(Covered(s) \ had)}
<1> HIDE DEF had
<1>5. {} \in good
  <2>1. Covered({}) = {}
    BY DEF Covered
  <2>2. g[{}] = row /\ row.total \in Int
    BY <1>2 DEF GoodRow, RowTypes
  <2>3. Cardinality(Covered({}) \ had) = 0
    BY <2>1, FS_EmptySet
  <2> QED
    BY <2>1, <2>2, <2>3 DEF had
<1>6. ASSUME NEW s \in SUBSET S, s # {}, s \ {pick[s]} \in good PROVE s \in good
  <2> DEFINE x == Latest(s)
  <2> DEFINE r == g[s \ {x}]
  <2> DEFINE before == Covered(s \ {x})
  <2>1. x \in s /\ pick[s] = x
    BY <1>4, <1>6
  <2>2. GoodRow(r)
    BY <1>1
  <2>3. Covered(r.counted) = had \cup before /\ r.total = row.total + Cardinality(before \ had)
    BY <1>6, <2>1
  <2>4. g[s] = CreditTime(x, r)
    BY <1>2, <1>6
  <2>5. x \in Increments /\ x.start \in Int /\ x.end \in Int /\ x.start < x.end
    BY <1>3, <2>1
  <2>6. Covered(s) = before \cup Moments(x)
    BY <2>1, Zenon DEF Covered
  <2>7. IsFiniteSet(before) /\ IsFiniteSet(Moments(x))
    <3>1. IsFiniteSet(s \ {x}) /\ \A y \in s \ {x} : y.start \in Int /\ y.end \in Int /\ y.start < y.end
      BY <1>3, FS_Subset
    <3> QED
      BY <2>5, <3>1, CoveredIsFinite, MomentsAreFinite
  <2> HIDE DEF x, r, before
  <2>8. /\ Covered(g[s].counted) = Covered(r.counted) \cup Moments(x)
        /\ g[s].total = r.total + Cardinality(Moments(x) \ Covered(r.counted))
    BY <2>2, <2>4, <2>5, CreditOne
  <2>9. Covered(s) \ had = (before \ had) \cup (Moments(x) \ (had \cup before))
    BY <2>6
  <2>10. IsFiniteSet(before \ had) /\ IsFiniteSet(Moments(x) \ (had \cup before))
    BY <2>7, FS_Difference
  <2>11. (before \ had) \cap (Moments(x) \ (had \cup before)) = {}
    OBVIOUS
  <2>12. Cardinality((before \ had) \cup (Moments(x) \ (had \cup before)))
           = Cardinality(before \ had) + Cardinality(Moments(x) \ (had \cup before)) - Cardinality({})
    BY <2>10, <2>11, FS_Union
  <2>13. Cardinality({}) = 0 /\ Cardinality(before \ had) \in Int
         /\ Cardinality(Moments(x) \ (had \cup before)) \in Int /\ row.total \in Int
    BY <2>10, FS_EmptySet, FS_CardinalityType DEF GoodRow, RowTypes
  <2>14. Cardinality(Covered(s) \ had) = Cardinality((before \ had) \cup (Moments(x) \ (had \cup before)))
    BY <2>9
  <2>15. Cardinality(Moments(x) \ Covered(r.counted)) = Cardinality(Moments(x) \ (had \cup before))
    BY <2>3
  <2>16. g[s].total = row.total + Cardinality(Covered(s) \ had)
    BY <2>3, <2>8, <2>12, <2>13, <2>14, <2>15
  <2>17. Covered(g[s].counted) = had \cup Covered(s)
    BY <2>3, <2>6, <2>8
  <2> QED
    BY <2>16, <2>17
<1> HIDE DEF good
<1>7. S \in good
  BY <1>3, <1>4, <1>5, <1>6, PickInduction
<1> QED
  BY <1>1, <1>7 DEF good, had

\* All that fold_online_time_credits does to a row.  It forgets only moments from
\* before keep_from.
LEMMA FoldedRow ==
    ASSUME NEW row, GoodRow(row), NEW S, Batch(S), NEW keep_from \in Int
    PROVE  LET folded == Folded(row, S, keep_from)
           IN  /\ GoodRow(folded)
               /\ Covered(folded.counted) \subseteq Covered(row.counted) \cup Covered(S)
               /\ \A t \in Covered(row.counted) \cup Covered(S) :
                      t >= keep_from => t \in Covered(folded.counted)
               /\ folded.total = row.total + Cardinality(Covered(S) \ Covered(row.counted))
<1> DEFINE credited == InTimeOrder(CreditTime, row, S)
<1> DEFINE kept == {span \in credited.counted : span.end >= keep_from}
<1>1. /\ GoodRow(credited)
      /\ Covered(credited.counted) = Covered(row.counted) \cup Covered(S)
      /\ credited.total = row.total + Cardinality(Covered(S) \ Covered(row.counted))
  BY CreditAll
<1> HIDE DEF credited
<1>2. /\ credited \in RowTypes /\ Proper(credited.counted) /\ Apart(credited.counted)
      /\ SumFunction(credited.monthly) = credited.total
  BY <1>1 DEF GoodRow
<1>3. Folded(row, S, keep_from) = [credited EXCEPT !.counted = kept]
  BY DEF Folded, Retained, credited
<1>4. kept \subseteq credited.counted
  OBVIOUS
<1>5. Proper(kept) /\ Apart(kept)
  <2>1. IsFiniteSet(kept)
    BY <1>2, <1>4, FS_Subset DEF Proper
  <2> QED
    BY <1>2, <1>4, <2>1 DEF Proper, Apart
<1>6. /\ [credited EXCEPT !.counted = kept] \in RowTypes
      /\ [credited EXCEPT !.counted = kept].counted = kept
      /\ [credited EXCEPT !.counted = kept].monthly = credited.monthly
      /\ [credited EXCEPT !.counted = kept].total = credited.total
  BY <1>2, <1>5 DEF RowTypes, Proper
<1>7. Covered(kept) \subseteq Covered(credited.counted)
  BY <1>4, Zenon DEF Covered
<1>8. ASSUME NEW t \in Covered(credited.counted), t >= keep_from PROVE t \in Covered(kept)
  <2>1. PICK span \in credited.counted : t \in Moments(span)
    BY DEF Covered
  <2>2. span.start \in Int /\ span.end \in Int
    BY <1>2, SpanFacts
  <2>3. t \in Int /\ t <= span.end - 1
    BY <2>1, <2>2 DEF Moments
  <2>4. span \in kept
    BY <1>8, <2>2, <2>3
  <2> QED
    BY <2>1, <2>4 DEF Covered
<1> HIDE DEF kept
<1> QED
  BY <1>1, <1>2, <1>3, <1>5, <1>6, <1>7, <1>8 DEF GoodRow

-----------------------------------------------------------------------------
(* The invariant of the tracker and the rows.                              *)

IncrementsOf(incs, u) == {inc \in incs : inc.user = u}

\* A user's open interval on a pod.
Open(p, u) == IF u \in Online(p) THEN active_since[p][u] .. wall - 1 ELSE {}

TimeTypes ==
    /\ wall \in Nat /\ wall <= MaxTime
    /\ active_since \in [Pods -> [Members -> Nat \cup {Never}]]
    /\ \A p \in Pods : \A u \in Members : active_since[p][u] <= wall
    /\ unbatched \in [Pods -> SUBSET Increments] /\ in_flight \in [Pods -> SUBSET Increments]
    /\ flush \in [Pods -> [at : {"idle", "prepared", "submitted", "confirmed"}, retry : BOOLEAN, now : Nat]]
    /\ db \in [Members -> RowTypes] /\ live \in SUBSET Members
    /\ seen \in [Pods -> [Members -> SUBSET Int]]
    /\ reported \in [Members -> SUBSET Int] /\ horizon \in [Members -> Int]

\* What a pod has in hand for a user can be folded into a row.
BatchesAreProper ==
    \A p \in Pods : \A u \in Members :
        Batch(IncrementsOf(unbatched[p], u)) /\ Batch(IncrementsOf(in_flight[p], u))

\* A row against the history of what was reported for its user.
RowIsExact(u) ==
    /\ GoodRow(db[u]) /\ IsFiniteSet(reported[u])
    /\ db[u].total >= Cardinality(reported[u])
    /\ db[u].total = Cardinality(reported[u]) \/ u \in overdue
    /\ Covered(db[u].counted) \subseteq reported[u]
    /\ \A t \in reported[u] : t >= horizon[u] => t \in Covered(db[u].counted)

\* All that is held of a user's time on a pod, place by place.
Held(p, u) ==
    reported[u] \cup Covered(IncrementsOf(in_flight[p], u))
        \cup Covered(IncrementsOf(unbatched[p], u)) \cup Open(p, u)

TimeIsHeld == \A p \in Pods : \A u \in live : seen[p][u] \subseteq Held(p, u)

TimeInv ==
    /\ TimeTypes /\ BatchesAreProper
    /\ \A u \in Members : RowIsExact(u)
    /\ TimeIsHeld

-----------------------------------------------------------------------------
(* Increments.                                                             *)

LEMMA MonthsOfTimes ==
    ASSUME NEW t \in Nat, t <= MaxTime
    PROVE  t \div MonthLen \in Months
<1>1. PICK q \in Nat, r \in 0 .. MonthLen - 1 :
          q = t \div MonthLen /\ r = t % MonthLen /\ t = q * MonthLen + r
  BY BoundsAssumption, Quotient
<1>2. PICK q2 \in Nat, r2 \in 0 .. MonthLen - 1 :
          q2 = MaxTime \div MonthLen /\ r2 = MaxTime % MonthLen /\ MaxTime = q2 * MonthLen + r2
  BY BoundsAssumption, Quotient
<1>3. q <= q2
  <2>1. SUFFICES ASSUME q >= q2 + 1 PROVE FALSE
    OBVIOUS
  <2>2. PICK k \in Nat : q = q2 + 1 + k
    <3>1. q - (q2 + 1) \in Nat /\ q = q2 + 1 + (q - (q2 + 1))
      BY <2>1
    <3> QED
      BY <3>1
  <2>3. q * MonthLen = q2 * MonthLen + MonthLen + k * MonthLen
    BY <2>2, BoundsAssumption
  <2>4. k * MonthLen \in Nat /\ q2 * MonthLen \in Nat /\ q * MonthLen \in Nat
    BY BoundsAssumption
  <2> HIDE <2>2
  <2> QED
    BY <1>1, <1>2, <2>3, <2>4, BoundsAssumption
<1> QED
  BY <1>1, <1>2, <1>3 DEF Months

\* An interval that is closed now is one increment of its user, or none.
LEMMA IntervalIsBatch ==
    ASSUME wall \in Nat, wall <= MaxTime, NEW u \in Members, NEW since \in Nat
    PROVE  /\ Batch(add_interval({}, u, since))
           /\ \A inc \in add_interval({}, u, since) : inc.user = u
           /\ Covered(add_interval({}, u, since)) = since .. wall - 1
<1>1. CASE wall <= since
  <2>1. add_interval({}, u, since) = {}
    BY <1>1 DEF add_interval
  <2>2. since .. wall - 1 = {}
    BY <1>1
  <2> QED
    BY <2>1, <2>2, FS_EmptySet DEF Batch, Covered
<1>2. CASE ~(wall <= since)
  <2> DEFINE inc == [user |-> u, month |-> since \div MonthLen, start |-> since, end |-> wall]
  <2>1. add_interval({}, u, since) = {inc}
    BY <1>2 DEF add_interval
  <2>2. since \div MonthLen \in Months
    BY <1>2, MonthsOfTimes, BoundsAssumption
  <2>3. inc \in Increments /\ inc.start < inc.end /\ inc.user = u
    BY <1>2, <2>2 DEF Increments
  <2>4. Moments(inc) = since .. wall - 1
    BY DEF Moments
  <2>5. Covered({inc}) = Moments(inc)
    BY DEF Covered
  <2> HIDE DEF inc
  <2>6. IsFiniteSet({inc})
    BY FS_Singleton
  <2> QED
    BY <2>1, <2>3, <2>4, <2>5, <2>6 DEF Batch
<1> QED
  BY <1>1, <1>2

LEMMA AddIntervalAdds ==
    ASSUME NEW incs, NEW u, NEW since
    PROVE  add_interval(incs, u, since) = incs \cup add_interval({}, u, since)
  BY DEF add_interval

LEMMA BatchOfBoth ==
    ASSUME NEW S, NEW T, Batch(S), Batch(T)
    PROVE  Batch(S \cup T)
<1>1. IsFiniteSet(S \cup T)
  BY FS_Union DEF Batch
<1> QED
  BY <1>1 DEF Batch

LEMMA MomentsOfIsCovered ==
    ASSUME NEW incs, NEW u
    PROVE  MomentsOf(incs, u) = Covered(IncrementsOf(incs, u))
  BY DEF MomentsOf, Covered, IncrementsOf

LEMMA CoveredOfBoth ==
    ASSUME NEW S, NEW T
    PROVE  Covered(S \cup T) = Covered(S) \cup Covered(T)
  BY Zenon DEF Covered

LEMMA IncrementsOfBoth ==
    ASSUME NEW S, NEW T, NEW u
    PROVE  IncrementsOf(S \cup T, u) = IncrementsOf(S, u) \cup IncrementsOf(T, u)
  BY DEF IncrementsOf

\* NoTimeIsLost, place by place.
LEMMA HeldOfUser ==
    ASSUME live \in SUBSET Members, TimeIsHeld
    PROVE  NoTimeIsLost
<1> SUFFICES ASSUME NEW p \in Pods, NEW u \in live
             PROVE  seen[p][u] \subseteq reported[u] \cup MomentsOf(in_flight[p] \cup unbatched[p], u)
                        \cup (IF u \in Online(p) THEN active_since[p][u] .. wall - 1 ELSE {})
  BY DEF NoTimeIsLost
<1>1. MomentsOf(in_flight[p] \cup unbatched[p], u)
        = Covered(IncrementsOf(in_flight[p], u)) \cup Covered(IncrementsOf(unbatched[p], u))
  BY MomentsOfIsCovered, IncrementsOfBoth, CoveredOfBoth
<1>2. seen[p][u] \subseteq Held(p, u)
  BY DEF TimeIsHeld
<1> QED
  BY <1>1, <1>2 DEF Held, Open

-----------------------------------------------------------------------------
(* A pod notes, batches and submits.                                       *)

LEMMA RowsStay ==
    ASSUME \A u \in Members : RowIsExact(u), UNCHANGED <<db, reported, horizon, overdue>>
    PROVE  (\A u \in Members : RowIsExact(u))'
  BY DEF RowIsExact

LEMMA NoBatch == Batch({}) /\ Covered({}) = {} /\ \A u : IncrementsOf({}, u) = {}
<1>1. IsFiniteSet({})
  BY FS_EmptySet
<1> QED
  BY <1>1 DEF Batch, Covered, IncrementsOf

LEMMA NoRowIsGood == GoodRow(NoRow)
<1>1. NoRow \in RowTypes /\ NoRow.counted = {} /\ NoRow.total = 0 /\ NoRow.monthly = [m \in Months |-> 0]
  BY DEF NoRow, RowTypes
<1>2. SumFunction([m \in Months |-> 0]) = 0
  <2> DEFINE f == [m \in Months |-> 0]
  <2>1. \A m \in Months : f[m] = 0
    OBVIOUS
  <2>2. DOMAIN f = Months
    OBVIOUS
  <2> HIDE DEF f
  <2>3. SumFunctionOnSet(f, Months) = 0
    BY <2>1, MonthsAreFinite, SumOfZeros
  <2> QED
    BY <2>2, <2>3 DEF SumFunction, f
<1>3. Proper({}) /\ Apart({})
  BY FS_EmptySet DEF Proper, Apart
<1> QED
  BY <1>1, <1>2, <1>3 DEF GoodRow

LEMMA TimeStarts == TimeInit => TimeInv
<1> SUFFICES ASSUME TimeInit PROVE TimeInv
  OBVIOUS
<1>1. NoRow \in RowTypes
  BY NoRowIsGood DEF GoodRow
<1>2. TimeTypes
  BY <1>1, BoundsAssumption DEF TimeInit, TimeTypes, NotFlushing, Never
<1>3. BatchesAreProper
  BY NoBatch DEF TimeInit, BatchesAreProper
<1>4. ASSUME NEW u \in Members PROVE RowIsExact(u)
  <2>1. db[u] = NoRow /\ reported[u] = {} /\ NoRow.counted = {} /\ NoRow.total = 0
    BY DEF TimeInit, NoRow
  <2>2. IsFiniteSet({}) /\ Cardinality({}) = 0
    BY FS_EmptySet
  <2> QED
    BY <2>1, <2>2, NoBatch, NoRowIsGood DEF RowIsExact
<1>5. TimeIsHeld
  BY DEF TimeInit, TimeIsHeld
<1> QED
  BY <1>2, <1>3, <1>4, <1>5 DEF TimeInv

LEMMA ConnectedHolds ==
    ASSUME TimeInv, NEW p \in Pods, NEW u \in Members, Connected(p, u)
    PROVE  TimeInv'
<1>1. TimeTypes'
  BY DEF TimeInv, TimeTypes, Connected, history, Never
<1>2. BatchesAreProper'
  BY DEF TimeInv, BatchesAreProper, Connected
<1>3. (\A x \in Members : RowIsExact(x))'
  BY RowsStay DEF TimeInv, Connected, history
<1>4. TimeIsHeld'
  <2> SUFFICES ASSUME NEW q \in Pods, NEW x \in live PROVE seen[q][x] \subseteq Held(q, x)'
    BY DEF TimeIsHeld, Connected, history
  <2>1. x \in Members /\ seen[q][x] \subseteq Held(q, x)
    BY DEF TimeInv, TimeIsHeld, TimeTypes
  <2>2. Open(q, x) \subseteq Open(q, x)'
    BY <2>1 DEF TimeInv, TimeTypes, Connected, Open, Online
  <2> QED
    BY <2>1, <2>2 DEF Held, Connected, history
<1> QED
  BY <1>1, <1>2, <1>3, <1>4 DEF TimeInv

LEMMA DisconnectedHolds ==
    ASSUME TimeInv, NEW p \in Pods, NEW u \in Members, Disconnected(p, u)
    PROVE  TimeInv'
<1> DEFINE since == active_since[p][u]
<1> DEFINE closed == add_interval({}, u, since)
<1>0. wall \in Nat /\ wall <= MaxTime /\ since \in Nat /\ since # Never
  BY DEF TimeInv, TimeTypes, Disconnected, Never
<1>1. PICK new : new = closed
  OBVIOUS
<1>2. Batch(new) /\ (\A inc \in new : inc.user = u) /\ Covered(new) = since .. wall - 1
  BY <1>0, <1>1, IntervalIsBatch
<1>3. unbatched' = [unbatched EXCEPT ![p] = unbatched[p] \cup new]
  <2>1. add_interval(unbatched[p], u, since) = unbatched[p] \cup new
    BY <1>1 DEF add_interval
  <2>2. unbatched' = [unbatched EXCEPT ![p] = add_interval(unbatched[p], u, since)]
    BY DEF Disconnected
  <2> QED
    BY <2>1, <2>2
<1>4. active_since' = [active_since EXCEPT ![p][u] = Never]
      /\ UNCHANGED <<wall, in_flight, flush, db, live, spent, seen, reported, horizon, overdue>>
  BY DEF Disconnected, history
<1>5. TimeTypes'
  <2>1. new \in SUBSET Increments
    BY <1>2 DEF Batch
  <2> QED
    BY <1>3, <1>4, <2>1 DEF TimeInv, TimeTypes, Never
<1> HIDE DEF since, closed
<1>6. ASSUME NEW q \in Pods, NEW x \in Members
      PROVE  IncrementsOf(unbatched'[q], x)
               = IF q = p /\ x = u THEN IncrementsOf(unbatched[q], x) \cup new ELSE IncrementsOf(unbatched[q], x)
  <2>1. unbatched'[q] = IF q = p THEN unbatched[p] \cup new ELSE unbatched[q]
    BY <1>3 DEF TimeInv, TimeTypes
  <2> QED
    BY <1>2, <2>1 DEF IncrementsOf
<1>7. BatchesAreProper'
  <2> SUFFICES ASSUME NEW q \in Pods, NEW x \in Members
               PROVE  Batch(IncrementsOf(unbatched'[q], x)) /\ Batch(IncrementsOf(in_flight'[q], x))
    BY DEF BatchesAreProper
  <2>1. Batch(IncrementsOf(unbatched[q], x)) /\ Batch(IncrementsOf(in_flight[q], x))
    BY DEF TimeInv, BatchesAreProper
  <2>2. Batch(IncrementsOf(unbatched[q], x) \cup new)
    BY <1>2, <2>1, BatchOfBoth
  <2> QED
    BY <1>4, <1>6, <2>1, <2>2
<1>8. (\A x \in Members : RowIsExact(x))'
  BY <1>4, RowsStay DEF TimeInv
<1>9. TimeIsHeld'
  <2> SUFFICES ASSUME NEW q \in Pods, NEW x \in live PROVE seen[q][x] \subseteq Held(q, x)'
    BY <1>4 DEF TimeIsHeld
  <2>1. x \in Members /\ seen[q][x] \subseteq Held(q, x)
    BY DEF TimeInv, TimeIsHeld, TimeTypes
  <2>2. Covered(IncrementsOf(unbatched'[q], x))
          = IF q = p /\ x = u THEN Covered(IncrementsOf(unbatched[q], x)) \cup Covered(new)
            ELSE Covered(IncrementsOf(unbatched[q], x))
    BY <1>6, <2>1, CoveredOfBoth
  <2>3. Open(q, x) \subseteq IF q = p /\ x = u THEN Covered(new) ELSE Open(q, x)'
    BY <1>2, <1>4, <2>1 DEF TimeInv, TimeTypes, Open, Online, since
  <2> QED
    BY <1>4, <2>1, <2>2, <2>3 DEF Held
<1> QED
  BY <1>5, <1>7, <1>8, <1>9 DEF TimeInv

FlushTypes ==
    [Pods -> [at : {"idle", "prepared", "submitted", "confirmed"}, retry : BOOLEAN, now : Nat]]

\* Where a flush is says nothing about what is counted.
LEMMA OnlyFlushMoves ==
    ASSUME TimeInv, flush' \in FlushTypes,
           UNCHANGED <<wall, active_since, unbatched, in_flight, db, live, seen, reported, horizon, overdue>>
    PROVE  TimeInv'
<1>1. TimeTypes'
  BY DEF TimeInv, TimeTypes, FlushTypes
<1>2. BatchesAreProper'
  BY DEF TimeInv, BatchesAreProper
<1>3. (\A x \in Members : RowIsExact(x))'
  BY RowsStay DEF TimeInv
<1>4. TimeIsHeld'
  BY DEF TimeInv, TimeIsHeld, Held, Open, Online
<1> QED
  BY <1>1, <1>2, <1>3, <1>4 DEF TimeInv

\* A checkpoint moves what is unbatched and what is open into the batch.
LEMMA CheckpointHolds ==
    ASSUME TimeInv, NEW p \in Pods, Checkpoint(p), in_flight[p] = {},
           UNCHANGED <<wall, db, live, seen, reported, horizon, overdue>>,
           flush' \in FlushTypes
    PROVE  TimeInv'
<1> DEFINE closing == [x \in Members |-> IF x \in Online(p) THEN add_interval({}, x, active_since[p][x]) ELSE {}]
<1>0. wall \in Nat /\ wall <= MaxTime /\ \A x \in Members : x \in Online(p) => active_since[p][x] \in Nat
  BY DEF TimeInv, TimeTypes, Never, Online
<1>1. PICK new : new = closing
  OBVIOUS
<1>2. ASSUME NEW x \in Members
      PROVE  Batch(new[x]) /\ (\A inc \in new[x] : inc.user = x) /\ Covered(new[x]) = Open(p, x)
  <2>1. CASE x \in Online(p)
    <3>1. new[x] = add_interval({}, x, active_since[p][x]) /\ Open(p, x) = active_since[p][x] .. wall - 1
      BY <1>1, <2>1 DEF Open
    <3> QED
      BY <1>0, <2>1, <3>1, IntervalIsBatch
  <2>2. CASE x \notin Online(p)
    <3>1. new[x] = {} /\ Open(p, x) = {}
      BY <1>1, <2>2 DEF Open
    <3> QED
      BY <3>1, NoBatch
  <2> QED
    BY <2>1, <2>2
<1>3. in_flight' = [in_flight EXCEPT ![p] = unbatched[p] \cup UNION {new[x] : x \in Members}]
  <2>1. UNION {add_interval({}, x, active_since[p][x]) : x \in Online(p)} = UNION {new[x] : x \in Members}
    BY <1>1 DEF Online
  <2> QED
    BY <2>1 DEF Checkpoint
<1>4. /\ active_since' = [active_since EXCEPT ![p] = [x \in Members |-> IF x \in Online(p) THEN wall ELSE Never]]
      /\ unbatched' = [unbatched EXCEPT ![p] = {}]
  BY DEF Checkpoint
<1> HIDE DEF closing
<1>5. TimeTypes'
  <2>1. UNION {new[x] : x \in Members} \in SUBSET Increments
    BY <1>2 DEF Batch
  <2>2. in_flight' \in [Pods -> SUBSET Increments] /\ unbatched' \in [Pods -> SUBSET Increments]
    BY <1>3, <1>4, <2>1 DEF TimeInv, TimeTypes
  <2>3. active_since' \in [Pods -> [Members -> Nat \cup {Never}]]
    BY <1>0, <1>4 DEF TimeInv, TimeTypes
  <2>4. \A q \in Pods : \A x \in Members : active_since'[q][x] <= wall
    BY <1>0, <1>4 DEF TimeInv, TimeTypes, Never
  <2> QED
    BY <2>2, <2>3, <2>4 DEF TimeInv, TimeTypes, FlushTypes
<1>6. ASSUME NEW q \in Pods, NEW x \in Members
      PROVE  IF q = p
             THEN /\ IncrementsOf(in_flight'[q], x) = IncrementsOf(unbatched[q], x) \cup new[x]
                  /\ IncrementsOf(unbatched'[q], x) = {} /\ IncrementsOf(in_flight[q], x) = {}
             ELSE in_flight'[q] = in_flight[q] /\ unbatched'[q] = unbatched[q]
  <2>1. CASE q = p
    <3>1. in_flight'[q] = unbatched[q] \cup UNION {new[y] : y \in Members} /\ unbatched'[q] = {}
      BY <1>3, <1>4, <2>1 DEF TimeInv, TimeTypes
    <3>2. IncrementsOf(UNION {new[y] : y \in Members}, x) = new[x]
      BY <1>2 DEF IncrementsOf
    <3>3. IncrementsOf(in_flight'[q], x) = IncrementsOf(unbatched[q], x) \cup IncrementsOf(UNION {new[y] : y \in Members}, x)
      BY <3>1 DEF IncrementsOf
    <3> QED
      BY <2>1, <3>1, <3>2, <3>3, NoBatch
  <2>2. CASE q # p
    BY <1>3, <1>4, <2>2 DEF TimeInv, TimeTypes
  <2> QED
    BY <2>1, <2>2
<1>7. BatchesAreProper'
  <2> SUFFICES ASSUME NEW q \in Pods, NEW x \in Members
               PROVE  Batch(IncrementsOf(unbatched'[q], x)) /\ Batch(IncrementsOf(in_flight'[q], x))
    BY DEF BatchesAreProper
  <2>1. Batch(IncrementsOf(unbatched[q], x)) /\ Batch(IncrementsOf(in_flight[q], x))
    BY DEF TimeInv, BatchesAreProper
  <2>2. Batch(IncrementsOf(unbatched[q], x) \cup new[x])
    BY <1>2, <2>1, BatchOfBoth
  <2> QED
    BY <1>6, <2>1, <2>2, NoBatch
<1>8. (\A x \in Members : RowIsExact(x))'
  BY RowsStay DEF TimeInv
<1>9. TimeIsHeld'
  <2> SUFFICES ASSUME NEW q \in Pods, NEW x \in live PROVE seen[q][x] \subseteq Held(q, x)'
    BY DEF TimeIsHeld
  <2>1. x \in Members /\ seen[q][x] \subseteq Held(q, x)
    BY DEF TimeInv, TimeIsHeld, TimeTypes
  <2>2. CASE q = p
    <3>1. Covered(IncrementsOf(in_flight'[q], x)) = Covered(IncrementsOf(unbatched[q], x)) \cup Open(q, x)
      BY <1>2, <1>6, <2>1, <2>2, CoveredOfBoth
    <3>2. Covered(IncrementsOf(in_flight[q], x)) = {}
      BY <1>6, <2>1, <2>2, NoBatch
    <3> QED
      BY <2>1, <3>1, <3>2 DEF Held
  <2>3. CASE q # p
    <3>1. in_flight'[q] = in_flight[q] /\ unbatched'[q] = unbatched[q]
      BY <1>6, <2>1, <2>3
    <3>2. active_since'[q] = active_since[q]
      BY <1>4, <2>3 DEF TimeInv, TimeTypes
    <3> QED
      BY <2>1, <3>1, <3>2 DEF Held, Open, Online
  <2> QED
    BY <2>2, <2>3
<1> QED
  BY <1>5, <1>7, <1>8, <1>9 DEF TimeInv

LEMMA BeginBatchHolds ==
    ASSUME TimeInv, NEW p \in Pods, BeginBatch(p)
    PROVE  TimeInv'
<1>1. flush' \in FlushTypes
  <2>1. PICK stage \in [at : {"idle", "prepared", "submitted", "confirmed"}, retry : BOOLEAN, now : Nat] :
            flush' = [flush EXCEPT ![p] = stage]
    BY DEF BeginBatch, NotFlushing
  <2> QED
    BY <2>1 DEF TimeInv, TimeTypes, FlushTypes
<1>2. UNCHANGED <<wall, db, live, seen, reported, horizon, overdue>>
  BY DEF BeginBatch, history
<1>3. CASE UNCHANGED tracker
  BY <1>1, <1>2, <1>3, OnlyFlushMoves DEF tracker
<1>4. CASE in_flight[p] = {} /\ Checkpoint(p)
  BY <1>1, <1>2, <1>4, CheckpointHolds
<1> QED
  BY <1>3, <1>4 DEF BeginBatch

LEMMA SubmitHolds ==
    ASSUME TimeInv, NEW p \in Pods, Submit(p)
    PROVE  TimeInv'
<1>1. flush' \in FlushTypes
  BY DEF TimeInv, TimeTypes, FlushTypes, Submit
<1> QED
  BY <1>1, OnlyFlushMoves DEF Submit, tracker, history

LEMMA FlushFailsHolds ==
    ASSUME TimeInv, NEW p \in Pods, FlushFails(p)
    PROVE  TimeInv'
<1>1. flush' \in FlushTypes
  BY DEF TimeInv, TimeTypes, FlushTypes, FlushFails, NotFlushing
<1> QED
  BY <1>1, OnlyFlushMoves DEF FlushFails, tracker, history

-----------------------------------------------------------------------------
(* The transaction.                                                        *)

\* One user's row through a commit: S is the user's part of the batch.
LEMMA RowCredited ==
    ASSUME NEW row, GoodRow(row), NEW S, Batch(S), NEW R \in SUBSET Int, IsFiniteSet(R),
           NEW from \in Int, NEW edge \in Int, row.total >= Cardinality(R),
           Covered(row.counted) \subseteq R,
           \A t \in R : t >= edge => t \in Covered(row.counted)
    PROVE  LET folded == Folded(row, S, from)
               moments == R \cup Covered(S)
           IN  /\ GoodRow(folded) /\ moments \in SUBSET Int /\ IsFiniteSet(moments)
               /\ folded.total >= Cardinality(moments)
               /\ \/ folded.total = Cardinality(moments)
                  \/ row.total # Cardinality(R)
                  \/ \E t \in Covered(S) \cap R : t < edge
               /\ Covered(folded.counted) \subseteq moments
               /\ \A t \in moments : t >= Later(edge, from) => t \in Covered(folded.counted)
<1> DEFINE folded == Folded(row, S, from)
<1> DEFINE had == Covered(row.counted)
<1> DEFINE fresh == Covered(S)
<1>1. /\ GoodRow(folded) /\ Covered(folded.counted) \subseteq had \cup fresh
      /\ \A t \in had \cup fresh : t >= from => t \in Covered(folded.counted)
      /\ folded.total = row.total + Cardinality(fresh \ had)
  BY FoldedRow
<1>2. IsFiniteSet(fresh) /\ fresh \in SUBSET Int
  <2>1. IsFiniteSet(S) /\ \A x \in S : x.start \in Int /\ x.end \in Int /\ x.start < x.end
    BY BatchFacts DEF Batch
  <2>2. \A x \in S : Moments(x) \subseteq Int
    BY <2>1 DEF Moments
  <2> QED
    BY <2>1, <2>2, CoveredIsFinite DEF Covered
<1> HIDE DEF folded, had, fresh
<1>3. row.total \in Int
  BY DEF GoodRow, RowTypes
<1>4. IsFiniteSet(R \cup fresh) /\ R \cup fresh \in SUBSET Int
  BY <1>2, FS_Union
\* New to the history is new to the row; the rest of what is new to the row is late.
<1>5. Cardinality(R \cup fresh) = Cardinality(R) + Cardinality(fresh \ R)
  <2>1. IsFiniteSet(fresh \ R) /\ R \cap (fresh \ R) = {} /\ R \cup fresh = R \cup (fresh \ R)
    BY <1>2, FS_Difference
  <2>2. Cardinality(R \cup (fresh \ R)) = Cardinality(R) + Cardinality(fresh \ R) - Cardinality({})
    BY <2>1, FS_Union
  <2>3. Cardinality({}) = 0 /\ Cardinality(R) \in Nat /\ Cardinality(fresh \ R) \in Nat
    BY <2>1, FS_EmptySet, FS_CardinalityType
  <2>4. Cardinality(R \cup fresh) = Cardinality(R \cup (fresh \ R))
    BY <2>1
  <2> QED
    BY <2>2, <2>3, <2>4
<1>6. Cardinality(fresh \ R) <= Cardinality(fresh \ had)
  <2>1. fresh \ R \subseteq fresh \ had /\ IsFiniteSet(fresh \ had)
    BY <1>2, FS_Difference DEF had
  <2> QED
    BY <2>1, FS_Subset
<1>7. ASSUME \A t \in fresh \cap R : ~(t < edge) PROVE Cardinality(fresh \ had) = Cardinality(fresh \ R)
  <2>1. fresh \ had = fresh \ R
    <3>1. ASSUME NEW t \in fresh \cap R PROVE t \in had
      <4>1. t \in R /\ t \in Int /\ ~(t < edge)
        BY <1>7
      <4>2. t >= edge
        BY <4>1
      <4> QED
        BY <4>1, <4>2 DEF had
    <3>2. had \subseteq R
      BY DEF had
    <3> QED
      BY <3>1, <3>2
  <2> QED
    BY <2>1
<1>8. Cardinality(R) \in Nat /\ Cardinality(fresh \ R) \in Nat /\ Cardinality(fresh \ had) \in Nat
  BY <1>2, FS_Difference, FS_CardinalityType
<1>9. folded.total >= Cardinality(R \cup fresh)
  BY <1>1, <1>3, <1>5, <1>6, <1>8
<1>10. folded.total = Cardinality(R \cup fresh) \/ row.total # Cardinality(R) \/ \E t \in fresh \cap R : t < edge
  BY <1>1, <1>3, <1>5, <1>7, <1>8
<1>11. Covered(folded.counted) \subseteq R \cup fresh
  BY <1>1 DEF had
<1>12. \A t \in R \cup fresh : t >= Later(edge, from) => t \in Covered(folded.counted)
  <2> SUFFICES ASSUME NEW t \in R \cup fresh, t >= Later(edge, from) PROVE t \in Covered(folded.counted)
    OBVIOUS
  <2>1. t \in Int /\ t >= edge /\ t >= from
    BY <1>2 DEF Later
  <2>2. t \in had \cup fresh
    BY <2>1 DEF had
  <2> QED
    BY <1>1, <2>1, <2>2
<1> QED
  BY <1>1, <1>4, <1>9, <1>10, <1>11, <1>12 DEF folded, fresh

\* What the transaction does to one user's row and history.
LEMMA CommitOfUser ==
    ASSUME TimeInv, NEW p \in Pods, CommitBatch(p), NEW u \in Members,
           NEW S, S = IncrementsOf(in_flight[p], u), NEW from, from = flush[p].now - Keep
    PROVE  \/ /\ u \in live /\ S # {}
              /\ db'[u] = Folded(db[u], S, from)
              /\ reported'[u] = reported[u] \cup Covered(S)
              /\ horizon'[u] = Later(horizon[u], from)
              /\ u \in overdue \/ (\E t \in Covered(S) \cap reported[u] : t < horizon[u]) => u \in overdue'
           \/ /\ u \notin live \/ S = {}
              /\ db'[u] = db[u] /\ reported'[u] = reported[u] /\ horizon'[u] = horizon[u]
              /\ u \in overdue => u \in overdue'
<1> DEFINE written == {x \in live : {inc \in in_flight[p] : inc.user = x} # {}}
<1>0. /\ {inc \in in_flight[p] : inc.user = u} = S /\ MomentsOf(in_flight[p], u) = Covered(S)
      /\ live \subseteq Members
  BY MomentsOfIsCovered DEF IncrementsOf, TimeInv, TimeTypes
<1>1. /\ db' = [x \in Members |-> IF x \in written
                  THEN Folded(db[x], {inc \in in_flight[p] : inc.user = x}, flush[p].now - Keep) ELSE db[x]]
      /\ reported' = [x \in Members |-> IF x \in written THEN reported[x] \cup MomentsOf(in_flight[p], x) ELSE reported[x]]
      /\ horizon' = [x \in Members |-> IF x \in written THEN Later(horizon[x], flush[p].now - Keep) ELSE horizon[x]]
      /\ overdue' = overdue \cup {x \in written : \E t \in MomentsOf(in_flight[p], x) \cap reported[x] : t < horizon[x]}
  BY DEF CommitBatch
<1>2. CASE u \in written
  <2>1. u \in live /\ S # {}
    BY <1>0, <1>2
  <2>2. db'[u] = Folded(db[u], S, from)
    BY <1>0, <1>1, <1>2
  <2>3. reported'[u] = reported[u] \cup Covered(S) /\ horizon'[u] = Later(horizon[u], from)
    BY <1>0, <1>1, <1>2
  <2>4. u \in overdue \/ (\E t \in Covered(S) \cap reported[u] : t < horizon[u]) => u \in overdue'
    BY <1>0, <1>1, <1>2
  <2> QED
    BY <2>1, <2>2, <2>3, <2>4
<1>3. CASE u \notin written
  <2>1. u \notin live \/ S = {}
    BY <1>0, <1>3
  <2> QED
    BY <1>1, <1>3, <2>1
<1> QED
  BY <1>2, <1>3

LEMMA RowAfterCommit ==
    ASSUME TimeInv, NEW p \in Pods, CommitBatch(p), NEW u \in Members
    PROVE  /\ RowIsExact(u)' /\ db'[u] \in RowTypes
           /\ reported'[u] \in SUBSET Int /\ horizon'[u] \in Int
           /\ reported[u] \subseteq reported'[u]
           /\ u \in live => Covered(IncrementsOf(in_flight[p], u)) \subseteq reported'[u]
<1>1. PICK S : S = IncrementsOf(in_flight[p], u)
  OBVIOUS
<1>2. PICK from \in Int : from = flush[p].now - Keep
  BY BoundsAssumption DEF TimeInv, TimeTypes
<1>3. PICK row : row = db[u]
  OBVIOUS
<1>4. PICK R : R = reported[u]
  OBVIOUS
<1>5. PICK edge : edge = horizon[u]
  OBVIOUS
<1>6. /\ Batch(S) /\ GoodRow(row) /\ R \in SUBSET Int /\ IsFiniteSet(R) /\ edge \in Int
      /\ row.total >= Cardinality(R)
      /\ row.total = Cardinality(R) \/ u \in overdue
      /\ Covered(row.counted) \subseteq R
      /\ \A t \in R : t >= edge => t \in Covered(row.counted)
  BY <1>1, <1>3, <1>4, <1>5 DEF TimeInv, BatchesAreProper, RowIsExact, TimeTypes
<1>7. CASE /\ u \in live /\ S # {}
           /\ db'[u] = Folded(db[u], S, from)
           /\ reported'[u] = reported[u] \cup Covered(S)
           /\ horizon'[u] = Later(horizon[u], from)
           /\ u \in overdue \/ (\E t \in Covered(S) \cap reported[u] : t < horizon[u]) => u \in overdue'
  <2>1. PICK new : new = Folded(row, S, from)
    OBVIOUS
  <2>2. PICK M : M = R \cup Covered(S)
    OBVIOUS
  <2>3. /\ GoodRow(new) /\ M \in SUBSET Int /\ IsFiniteSet(M)
        /\ new.total >= Cardinality(M)
        /\ new.total = Cardinality(M) \/ row.total # Cardinality(R) \/ \E t \in Covered(S) \cap R : t < edge
        /\ Covered(new.counted) \subseteq M
        /\ \A t \in M : t >= Later(edge, from) => t \in Covered(new.counted)
    <3>1. LET folded == Folded(row, S, from)
              moments == R \cup Covered(S)
          IN  /\ GoodRow(folded) /\ moments \in SUBSET Int /\ IsFiniteSet(moments)
              /\ folded.total >= Cardinality(moments)
              /\ \/ folded.total = Cardinality(moments)
                 \/ row.total # Cardinality(R)
                 \/ \E t \in Covered(S) \cap R : t < edge
              /\ Covered(folded.counted) \subseteq moments
              /\ \A t \in moments : t >= Later(edge, from) => t \in Covered(folded.counted)
      BY <1>6, RowCredited
    <3> QED
      BY <2>1, <2>2, <3>1
  <2>4. db'[u] = new /\ reported'[u] = M /\ horizon'[u] = Later(edge, from)
    BY <1>3, <1>4, <1>5, <1>7, <2>1, <2>2
  <2>5. new.total = Cardinality(M) \/ u \in overdue'
    BY <1>4, <1>5, <1>6, <1>7, <2>3
  <2>6. RowIsExact(u)'
    BY <2>3, <2>4, <2>5 DEF RowIsExact
  <2>7. Later(edge, from) \in Int /\ new \in RowTypes
    BY <1>6, <2>3 DEF Later, GoodRow
  <2> QED
    BY <1>1, <1>4, <2>2, <2>3, <2>4, <2>6, <2>7
<1>8. CASE /\ u \notin live \/ S = {}
           /\ db'[u] = db[u] /\ reported'[u] = reported[u] /\ horizon'[u] = horizon[u]
           /\ u \in overdue => u \in overdue'
  <2>0. db'[u] = row /\ reported'[u] = R /\ horizon'[u] = edge
    BY <1>3, <1>4, <1>5, <1>8
  <2>a. row.total = Cardinality(R) \/ u \in overdue'
    BY <1>6, <1>8
  <2>1. RowIsExact(u)'
    BY <1>6, <2>0, <2>a DEF RowIsExact
  <2>2. row \in RowTypes
    BY <1>6 DEF GoodRow
  <2> QED
    BY <1>1, <1>3, <1>4, <1>5, <1>6, <1>8, <2>1, <2>2, NoBatch
<1> QED
  BY <1>1, <1>2, <1>7, <1>8, CommitOfUser

\* Confirmed or not, what the batch held is now reported.
LEMMA CommitHolds ==
    ASSUME TimeInv, NEW p \in Pods, CommitBatch(p), flush' \in FlushTypes,
           in_flight' = in_flight \/ in_flight' = [in_flight EXCEPT ![p] = {}]
    PROVE  TimeInv'
<1>1. UNCHANGED <<wall, active_since, unbatched, live, seen>>
  BY DEF CommitBatch
<1>2. (\A u \in Members : RowIsExact(u))'
  BY RowAfterCommit
<1>3. ASSUME NEW q \in Pods, NEW u \in Members
      PROVE  \/ in_flight'[q] = in_flight[q]
             \/ q = p /\ in_flight'[q] = {}
  BY DEF TimeInv, TimeTypes
<1>4. TimeTypes'
  <2>1. db' \in [Members -> RowTypes] /\ reported' \in [Members -> SUBSET Int] /\ horizon' \in [Members -> Int]
    <3>1. \A u \in Members : db'[u] \in RowTypes /\ reported'[u] \in SUBSET Int /\ horizon'[u] \in Int
      BY RowAfterCommit
    <3>2. /\ db' = [u \in Members |-> db'[u]] /\ reported' = [u \in Members |-> reported'[u]]
          /\ horizon' = [u \in Members |-> horizon'[u]]
      BY DEF CommitBatch
    <3> QED
      BY <3>1, <3>2
  <2>2. in_flight' \in [Pods -> SUBSET Increments]
    BY DEF TimeInv, TimeTypes
  <2> QED
    BY <1>1, <2>1, <2>2 DEF TimeInv, TimeTypes, FlushTypes
<1>5. BatchesAreProper'
  <2> SUFFICES ASSUME NEW q \in Pods, NEW u \in Members
               PROVE  Batch(IncrementsOf(unbatched'[q], u)) /\ Batch(IncrementsOf(in_flight'[q], u))
    BY DEF BatchesAreProper
  <2>1. Batch(IncrementsOf(unbatched[q], u)) /\ Batch(IncrementsOf(in_flight[q], u))
    BY DEF TimeInv, BatchesAreProper
  <2> QED
    BY <1>1, <1>3, <2>1, NoBatch
<1>6. TimeIsHeld'
  <2> SUFFICES ASSUME NEW q \in Pods, NEW u \in live PROVE seen[q][u] \subseteq Held(q, u)'
    BY <1>1 DEF TimeIsHeld
  <2>1. u \in Members /\ seen[q][u] \subseteq Held(q, u)
    BY DEF TimeInv, TimeIsHeld, TimeTypes
  <2>2. reported[u] \subseteq reported'[u] /\ Covered(IncrementsOf(in_flight[p], u)) \subseteq reported'[u]
    BY <2>1, RowAfterCommit
  <2>3. Open(q, u)' = Open(q, u)
    BY <1>1 DEF Open, Online
  <2> QED
    BY <1>1, <1>3, <2>1, <2>2, <2>3 DEF Held
<1> QED
  BY <1>2, <1>4, <1>5, <1>6 DEF TimeInv

LEMMA CommitConfirmedHolds ==
    ASSUME TimeInv, NEW p \in Pods, CommitConfirmed(p)
    PROVE  TimeInv'
<1>1. flush' \in FlushTypes
  <2>1. PICK stage \in [at : {"idle", "prepared", "submitted", "confirmed"}, retry : BOOLEAN, now : Nat] :
            flush' = [flush EXCEPT ![p] = stage]
    <3>1. flush' = [flush EXCEPT ![p] = IF flush[p].retry THEN [NotFlushing EXCEPT !.at = "confirmed"] ELSE NotFlushing]
      BY DEF CommitConfirmed
    <3>2. (IF flush[p].retry THEN [NotFlushing EXCEPT !.at = "confirmed"] ELSE NotFlushing)
            \in [at : {"idle", "prepared", "submitted", "confirmed"}, retry : BOOLEAN, now : Nat]
      BY DEF NotFlushing
    <3> QED
      BY <3>1, <3>2
  <2> QED
    BY <2>1 DEF TimeInv, TimeTypes, FlushTypes
<1> QED
  BY <1>1, CommitHolds DEF CommitConfirmed

LEMMA CommitUnconfirmedHolds ==
    ASSUME TimeInv, NEW p \in Pods, CommitUnconfirmed(p)
    PROVE  TimeInv'
<1>1. flush' \in FlushTypes
  BY DEF TimeInv, TimeTypes, FlushTypes, CommitUnconfirmed, NotFlushing
<1> QED
  BY <1>1, CommitHolds DEF CommitUnconfirmed

-----------------------------------------------------------------------------
(* The world.                                                              *)

LEMMA DeleteAccountHolds ==
    ASSUME TimeInv, NEW u \in Members, DeleteAccount(u)
    PROVE  TimeInv'
<1>1. /\ live' = live \ {u} /\ db' = [db EXCEPT ![u] = NoRow]
      /\ reported' = [reported EXCEPT ![u] = {}] /\ horizon' = [horizon EXCEPT ![u] = Never]
      /\ UNCHANGED <<wall, active_since, unbatched, in_flight, flush, spent, seen, overdue>>
  BY DEF DeleteAccount, tracker
<1>2. TimeTypes'
  <2>1. NoRow \in RowTypes
    BY NoRowIsGood DEF GoodRow
  <2> QED
    BY <1>1, <2>1 DEF TimeInv, TimeTypes, Never
<1>3. BatchesAreProper'
  BY <1>1 DEF TimeInv, BatchesAreProper
<1>4. ASSUME NEW x \in Members PROVE RowIsExact(x)'
  <2>1. CASE x = u
    <3>1. db'[x] = NoRow /\ reported'[x] = {} /\ NoRow.counted = {} /\ NoRow.total = 0
      BY <1>1, <2>1 DEF TimeInv, TimeTypes, NoRow
    <3>2. IsFiniteSet({}) /\ Cardinality({}) = 0
      BY FS_EmptySet
    <3> QED
      BY <3>1, <3>2, NoBatch, NoRowIsGood DEF RowIsExact
  <2>2. CASE x # u
    <3>1. db'[x] = db[x] /\ reported'[x] = reported[x] /\ horizon'[x] = horizon[x] /\ overdue' = overdue
      BY <1>1, <2>2 DEF TimeInv, TimeTypes
    <3> QED
      BY <3>1 DEF RowIsExact, TimeInv
  <2> QED
    BY <2>1, <2>2
<1>5. TimeIsHeld'
  <2> SUFFICES ASSUME NEW q \in Pods, NEW x \in live, x # u PROVE seen[q][x] \subseteq Held(q, x)'
    BY <1>1 DEF TimeIsHeld
  <2>1. x \in Members /\ seen[q][x] \subseteq Held(q, x)
    BY DEF TimeInv, TimeIsHeld, TimeTypes
  <2>2. reported'[x] = reported[x] /\ Open(q, x)' = Open(q, x)
    BY <1>1, <2>1 DEF TimeInv, TimeTypes, Open, Online
  <2> QED
    BY <1>1, <2>1, <2>2 DEF Held
<1> QED
  BY <1>2, <1>3, <1>4, <1>5 DEF TimeInv

LEMMA CrashHolds ==
    ASSUME TimeInv, NEW p \in Pods, Crash(p)
    PROVE  TimeInv'
<1>1. TimeTypes'
  BY DEF TimeInv, TimeTypes, Crash, NotFlushing, Never
<1>2. ASSUME NEW q \in Pods
      PROVE  \/ in_flight'[q] = in_flight[q] /\ unbatched'[q] = unbatched[q] /\ seen'[q] = seen[q]
                /\ active_since'[q] = active_since[q]
             \/ in_flight'[q] = {} /\ unbatched'[q] = {} /\ seen'[q] = [u \in Members |-> {}]
  BY DEF TimeInv, TimeTypes, Crash
<1>3. BatchesAreProper'
  <2> SUFFICES ASSUME NEW q \in Pods, NEW u \in Members
               PROVE  Batch(IncrementsOf(unbatched'[q], u)) /\ Batch(IncrementsOf(in_flight'[q], u))
    BY DEF BatchesAreProper
  <2>1. Batch(IncrementsOf(unbatched[q], u)) /\ Batch(IncrementsOf(in_flight[q], u))
    BY DEF TimeInv, BatchesAreProper
  <2> QED
    BY <1>2, <2>1, NoBatch
<1>4. (\A u \in Members : RowIsExact(u))'
  BY RowsStay DEF TimeInv, Crash
<1>5. TimeIsHeld'
  <2> SUFFICES ASSUME NEW q \in Pods, NEW u \in live PROVE seen'[q][u] \subseteq Held(q, u)'
    BY DEF TimeIsHeld, Crash
  <2>1. u \in Members /\ seen[q][u] \subseteq Held(q, u)
    BY DEF TimeInv, TimeIsHeld, TimeTypes
  <2>2. reported' = reported /\ wall' = wall
    BY DEF Crash
  <2> QED
    BY <1>2, <2>1, <2>2 DEF Held, Open, Online
<1> QED
  BY <1>1, <1>3, <1>4, <1>5 DEF TimeInv

LEMMA TimePassesHolds ==
    ASSUME TimeInv, TimePasses
    PROVE  TimeInv'
<1>1. /\ wall < MaxTime /\ wall' = wall + 1
      /\ seen' = [p \in Pods |-> [u \in Members |-> IF u \in Online(p) THEN seen[p][u] \cup {wall} ELSE seen[p][u]]]
      /\ UNCHANGED <<active_since, unbatched, in_flight, flush, db, live, spent, reported, horizon, overdue>>
  BY DEF TimePasses, tracker
<1>2. wall \in Nat /\ wall' \in Nat /\ wall' <= MaxTime
  BY <1>1, BoundsAssumption DEF TimeInv, TimeTypes
<1>3. TimeTypes'
  <2>1. \A p \in Pods : \A u \in Members : active_since[p][u] <= wall'
    <3>1. \A p \in Pods : \A u \in Members : active_since[p][u] \in Int /\ active_since[p][u] <= wall
      BY DEF TimeInv, TimeTypes, Never
    <3> QED
      BY <1>1, <1>2, <3>1
  <2> QED
    BY <1>1, <1>2, <2>1 DEF TimeInv, TimeTypes
<1>4. BatchesAreProper'
  BY <1>1 DEF TimeInv, BatchesAreProper
<1>5. (\A u \in Members : RowIsExact(u))'
  BY <1>1, RowsStay DEF TimeInv
<1>6. TimeIsHeld'
  <2> SUFFICES ASSUME NEW q \in Pods, NEW u \in live PROVE seen'[q][u] \subseteq Held(q, u)'
    BY <1>1 DEF TimeIsHeld
  <2>1. u \in Members /\ seen[q][u] \subseteq Held(q, u)
    BY DEF TimeInv, TimeIsHeld, TimeTypes
  <2>2. CASE u \in Online(q)
    <3>1. active_since[q][u] \in Nat /\ active_since[q][u] <= wall
      BY <2>1, <2>2 DEF TimeInv, TimeTypes, Online, Never
    <3>2. Open(q, u)' = Open(q, u) \cup {wall}
      <4>1. Open(q, u) = active_since[q][u] .. wall - 1
        BY <2>2 DEF Open
      <4>2. Open(q, u)' = active_since[q][u] .. wall
        BY <1>1, <1>2, <2>2 DEF Open, Online
      <4>3. active_since[q][u] .. wall = (active_since[q][u] .. wall - 1) \cup {wall}
        BY <1>2, <3>1
      <4> QED
        BY <4>1, <4>2, <4>3
    <3>3. seen'[q][u] = seen[q][u] \cup {wall}
      BY <1>1, <2>1, <2>2
    <3> QED
      BY <1>1, <2>1, <3>2, <3>3 DEF Held
  <2>3. CASE u \notin Online(q)
    <3>1. Open(q, u)' = Open(q, u) /\ seen'[q][u] = seen[q][u]
      BY <1>1, <2>1, <2>3 DEF Open, Online
    <3> QED
      BY <1>1, <2>1, <3>1 DEF Held
  <2> QED
    BY <2>2, <2>3
<1> QED
  BY <1>3, <1>4, <1>5, <1>6 DEF TimeInv

LEMMA TimeStutters ==
    ASSUME TimeInv, UNCHANGED timeVars
    PROVE  TimeInv'
<1>1. TimeTypes'
  BY DEF TimeInv, TimeTypes, timeVars
<1>2. BatchesAreProper'
  BY DEF TimeInv, BatchesAreProper, timeVars
<1>3. (\A u \in Members : RowIsExact(u))'
  BY RowsStay DEF TimeInv, timeVars
<1>4. TimeIsHeld'
  BY DEF TimeInv, TimeIsHeld, Held, Open, Online, timeVars
<1> QED
  BY <1>1, <1>2, <1>3, <1>4 DEF TimeInv

\* Rows in order are spans apart, whose moments are the ones counted.
LEMMA TimeIsExact == TimeInv => LateTimeIsExact
<1> SUFFICES ASSUME TimeInv PROVE LateTimeIsExact
  OBVIOUS
<1>1. \A u \in Members : CountedMoments(u) = Covered(db[u].counted)
  BY DEF CountedMoments, Covered
<1>2. MomentCountsOnce
  BY DEF MomentCountsOnce, TimeInv, RowIsExact
<1>3. CountedSpansCoverTheDay
  <2> SUFFICES ASSUME NEW u \in Members
               PROVE  /\ \A span, other \in db[u].counted :
                             span = other \/ span.end < other.start \/ other.end < span.start
                      /\ CountedMoments(u) \subseteq reported[u]
                      /\ {t \in reported[u] : t >= horizon[u]} \subseteq CountedMoments(u)
    BY DEF CountedSpansCoverTheDay
  <2>1. Apart(db[u].counted)
    BY DEF TimeInv, RowIsExact, GoodRow
  <2>2. /\ Covered(db[u].counted) \subseteq reported[u]
        /\ \A t \in reported[u] : t >= horizon[u] => t \in Covered(db[u].counted)
    BY DEF TimeInv, RowIsExact
  <2> QED
    BY <1>1, <2>1, <2>2 DEF Apart
<1>4. MonthsAddUp
  BY DEF MonthsAddUp, TimeInv, RowIsExact, GoodRow
<1>5. NoTimeIsLost
  BY HeldOfUser DEF TimeInv, TimeTypes
<1> QED
  BY <1>2, <1>3, <1>4, <1>5 DEF LateTimeIsExact

\* Late Time is exact on every pod and row, through overlapping reports of two
\* pods, lost answers, retries, crashes and deleted accounts.
THEOREM LateTimeAlwaysExact == TimeSpec => []LateTimeIsExact
<1>1. TimeInv /\ [TimeNext]_timeVars => TimeInv'
  <2> SUFFICES ASSUME TimeInv, [TimeNext]_timeVars PROVE TimeInv'
    OBVIOUS
  <2>1. ASSUME NEW p \in Pods, NEW u \in Members, Connected(p, u) \/ Disconnected(p, u) PROVE TimeInv'
    BY <2>1, ConnectedHolds, DisconnectedHolds
  <2>2. ASSUME NEW p \in Pods, BeginBatch(p) \/ Submit(p) \/ FlushFails(p) PROVE TimeInv'
    BY <2>2, BeginBatchHolds, SubmitHolds, FlushFailsHolds
  <2>3. ASSUME NEW p \in Pods, CommitConfirmed(p) \/ CommitUnconfirmed(p) \/ Crash(p) PROVE TimeInv'
    BY <2>3, CommitConfirmedHolds, CommitUnconfirmedHolds, CrashHolds
  <2>4. ASSUME NEW u \in Members, DeleteAccount(u) PROVE TimeInv'
    BY <2>4, DeleteAccountHolds
  <2>5. CASE TimePasses
    BY <2>5, TimePassesHolds
  <2>6. CASE UNCHANGED timeVars
    BY <2>6, TimeStutters
  <2> QED
    BY <2>1, <2>2, <2>3, <2>4, <2>5, <2>6 DEF TimeNext
<1> QED
  BY <1>1, TimeStarts, TimeIsExact, PTL DEF TimeSpec

=============================================================================
