----------------------------- MODULE PotProofs -----------------------------
(***************************************************************************)
(* Proofs about module Pot.  The inductive invariant IInv of module PotInv *)
(* holds initially (InitInv) and is kept by every action (one lemma each,  *)
(* gathered in NextInv); the safety properties follow from it.  Steps of   *)
(* other workers are dealt with once, by the frame lemmas: they respect the*)
(* locks a worker holds.  Two further invariants rest on it: OrderInv, on  *)
(* the order of draws and of what the lounge hears, and the charge for the *)
(* tickets somebody holds, which counts the hat (InHat, BoughtTickets).    *)
(***************************************************************************)
EXTENDS PotInv, FiniteSetTheorems, TLAPS

\* The UTC date of an hour is the day whose hours contain it.
LEMMA DayOfType ==
    ASSUME NEW h \in Nat
    PROVE  /\ DayOf(h) \in Nat
           /\ DayOf(h) * HoursPerDay <= h
           /\ h < DayOf(h) * HoursPerDay + HoursPerDay
  BY CalendarAssumption, SMTT(30) DEF DayOf

\* Dates do not go back while the clock goes forward: a buy's `current_date` is
\* never after the day of its COMMIT.
LEMMA DayOfMonotone ==
    ASSUME NEW g \in Nat, NEW h \in Nat, g <= h
    PROVE  DayOf(g) <= DayOf(h)
<1> DEFINE dg == DayOf(g)
           dh == DayOf(h)
<1>1. dg \in Nat /\ dh \in Nat /\ dg * HoursPerDay <= g /\ h < dh * HoursPerDay + HoursPerDay
  BY DayOfType
<1> HIDE DEF dg, dh
<1>2. ASSUME dg > dh PROVE FALSE
  <2> DEFINE k == dg - dh - 1
  <2>1. k \in Nat /\ dg = dh + 1 + k
    BY <1>1, <1>2
  <2> HIDE DEF k
  <2>2. dg * HoursPerDay = dh * HoursPerDay + HoursPerDay + k * HoursPerDay
    BY <1>1, <2>1, CalendarAssumption
  <2>3. k * HoursPerDay \in Nat /\ dh * HoursPerDay \in Nat
    BY <1>1, <2>1, CalendarAssumption
  <2> QED BY <1>1, <2>2, <2>3, CalendarAssumption
<1> QED BY <1>1, <1>2 DEF dg, dh

\* Every hour of the horizon falls on one of the modelled days.
LEMMA TodayInHorizon ==
    ASSUME clock \in 0 .. MaxClock
    PROVE  DayOf(clock) \in Days
  BY DayOfType, DayOfMonotone, PotAssumption

\* next_draw_at is strictly later than the clock it was given.
LEMMA NextDrawAtLater ==
    ASSUME NEW now \in Nat
    PROVE  NextDrawAt(now) \in Nat /\ NextDrawAt(now) > now
<1> DEFINE today     == DayOf(now) * HoursPerDay + DrawHour
           candidate == IF today > now THEN today ELSE today + HoursPerDay
           ahead     == (DrawWeekday - (DayOf(candidate) % DaysPerWeek)) % DaysPerWeek
<1>0. /\ DayOf(now) * HoursPerDay \in Nat
      /\ now < DayOf(now) * HoursPerDay + HoursPerDay
  BY DayOfType, CalendarAssumption
<1>1. today \in Nat /\ today + HoursPerDay > now
  BY <1>0, CalendarAssumption
<1>2. candidate \in Nat /\ candidate > now
  BY <1>1, CalendarAssumption
<1>3. DayOf(candidate) \in Nat
  BY <1>2, DayOfType
<1> HIDE DEF candidate
<1>4. ahead \in Nat
  BY <1>3, CalendarAssumption
<1> HIDE DEF ahead
<1>5. ahead * HoursPerDay \in Nat
  BY <1>4, CalendarAssumption
<1>6. NextDrawAt(now) = candidate + ahead * HoursPerDay
  BY DEF NextDrawAt, candidate, ahead
<1> QED BY <1>2, <1>5, <1>6

\* Under the daily cap a pot's tickets are a finite set, empty exactly when
\* `holders` sums to zero.
LEMMA HatFinite ==
    ASSUME NEW t \in [Users -> [Days -> Nat]],
           \A u \in Users, d \in Days : t[u][d] <= MaxTicketsPerDay
    PROVE  /\ Hat(t) \in SUBSET ((Users \X Days) \X Counts)
           /\ IsFiniteSet(Hat(t))
           /\ Cardinality(Hat(t)) \in Nat
           /\ Hat(t) = {} <=> Cardinality(Hat(t)) = 0
<1>1. Hat(t) \in SUBSET ((Users \X Days) \X Counts)
  <2> SUFFICES ASSUME NEW x \in Hat(t)
               PROVE  x \in (Users \X Days) \X Counts
    OBVIOUS
  <2>1. PICK u \in Users, d \in Days : x \in {<<u, d>>} \X (1 .. t[u][d])
    BY DEF Hat
  <2>a. t[u][d] \in Nat /\ t[u][d] <= MaxTicketsPerDay /\ MaxTicketsPerDay \in Nat
    BY PotAssumption
  <2>2. 1 .. t[u][d] \subseteq Counts
    BY <2>a DEF Counts
  <2> QED BY <2>1, <2>2
<1>2. IsFiniteSet((Users \X Days) \X Counts)
  <2>1. IsFiniteSet(Users \X Days)
    BY FS_Product, UsersAssumption, DaysAssumption
  <2>2. IsFiniteSet(Counts)
    BY FS_Interval, PotAssumption DEF Counts
  <2> QED BY <2>1, <2>2, FS_Product
<1>3. IsFiniteSet(Hat(t))
  BY <1>1, <1>2, FS_Subset
<1> QED BY <1>1, <1>3, FS_CardinalityType, FS_EmptySet

\* A connection without a transaction is well typed.
LEMMA NoTxType == NoTx \in Transactions
<1>1. 0 \in Days
  BY PotAssumption, DayOfType
<1> QED BY <1>1 DEF NoTx, Transactions

\* A row not written yet is well typed.
LEMMA NoRowType == NoRow \in PotRows
  BY DEF NoRow, PotRows

\* The empty database, before any sweep, satisfies the inductive invariant.
LEMMA InitInv == Init => IInv
<1> SUFFICES ASSUME Init PROVE IInv
  OBVIOUS
<1>1. TypeOK
  BY NoTxType, NoRowType, PotAssumption DEF Init, TypeOK, BuyLabels, Workers
<1>2. ASSUME NEW b \in Buyers PROVE BuyInv(b)
  BY DEF Init, BuyInv, BuyLabels, BuyHoldsRow, Workers
<1>3. ASSUME NEW s \in Sweepers PROVE SweepInv(s)
  BY DEF Init, SweepInv, SweepLabels, SettleStatements, SettleHoldsAdvisory, SettleHoldsRow,
         SettleHasHat, SweepNamesPot, Workers, NoTx
<1>4. TablesInv
  <2>1. OpenPots = {}
    BY DEF Init, OpenPots, NoRow
  <2>2. DailyCapIsExact /\ PotPaysOnce
    BY PotAssumption DEF Init, DailyCapIsExact, PotPaysOnce, NoRow
  <2> QED BY <2>1, <2>2 DEF Init, TablesInv, PotInvOf, NoRow
<1> QED BY <1>1, <1>2, <1>3, <1>4 DEF IInv

\* `SELECT ... WHERE status = 'open'` answers an open row, or none if there is none.
LEMMA TheOpenPotType ==
    /\ TheOpenPot \in OpenPots \cup {None}
    /\ TheOpenPot = None => OpenPots = {}
  BY PotAssumption DEF TheOpenPot, OpenPots

\* A step that writes no table keeps what is known of the tables.
LEMMA TablesFrame ==
    ASSUME TablesInv, UNCHANGED tables
    PROVE  TablesInv'
  BY DEF TablesInv, PotInvOf, OpenPots, DailyCapIsExact, PotPaysOnce, tables

\* A buy is not disturbed by a step of somebody else that respects its row lock
\* and its chip lock: this is what FOR UPDATE gives lock_open_for_buy.
LEMMA BuyerFrame ==
    ASSUME IInv, NEW c \in Buyers, pc'[c] = pc[c], tx'[c] = tx[c],
           \A p \in PotIds : rowLock[p] = c /\ pots[p].status = "open" =>
               /\ rowLock'[p] = c
               /\ pots'[p].status = pots[p].status
               /\ tickets'[p] = tickets[p],
           \A u \in Users : chipLock[u] = c => chipLock'[u] = c /\ balance'[u] = balance[u],
           clock' \in Nat, clock <= clock'
    PROVE  BuyInv(c)'
<1>1. /\ BuyInv(c)
      /\ clock \in Nat
      /\ tx[c] \in Transactions
  BY PotAssumption DEF IInv, TypeOK, Workers
<1>2. tx[c].day \in Nat
  BY <1>1, DaysAssumption DEF Transactions
<1>3. tx[c].day <= DayOf(clock) => tx[c].day <= DayOf(clock')
  BY <1>1, <1>2, DayOfType, DayOfMonotone
<1> QED BY <1>1, <1>3 DEF BuyInv, BuyHoldsRow

\* A sweep is not disturbed by a step of somebody else that respects the advisory
\* lock and its row and chip locks: this is what lock_open is for.
LEMMA SweeperFrame ==
    ASSUME IInv, NEW r \in Sweepers, pc'[r] = pc[r], tx'[r] = tx[r],
           advisory = r =>
               /\ advisory' = r
               /\ \A p \in PotIds : pots'[p].status = "open" <=> pots[p].status = "open",
           \A p \in PotIds : advisory = r /\ rowLock[p] = r =>
               /\ rowLock'[p] = r
               /\ pots'[p].draws_at = pots[p].draws_at
               /\ tickets'[p] = tickets[p],
           \A u \in Users : chipLock[u] = r => chipLock'[u] = r,
           \A p \in PotIds : Hat(tickets[p]) # {} => Hat(tickets'[p]) # {},
           clock' \in Nat, clock <= clock'
    PROVE  SweepInv(r)'
<1>1. /\ SweepInv(r)
      /\ clock \in Nat
      /\ tx[r] \in Transactions
  BY PotAssumption DEF IInv, TypeOK, Workers
<1>2. tx[r].now \in Nat /\ tx[r].now <= clock'
  BY <1>1 DEF Transactions, SweepInv
<1>3. (pc[r] = "open_first" => OpenPots = {}) => (pc'[r] = "open_first" => OpenPots' = {})
  BY <1>1 DEF SweepInv, OpenPots, SettleHoldsAdvisory, SettleStatements
<1> QED BY <1>1, <1>2, <1>3
    DEF SweepInv, SettleHoldsAdvisory, SettleHoldsRow, SettleHasHat, SettleStatements, SweepNamesPot,
        Transactions

\* A buyer with no transaction depends on nothing.
LEMMA IdleBuyer ==
    ASSUME NEW b \in Buyers, pc'[b] = "idle"
    PROVE  BuyInv(b)'
  BY DEF BuyInv, BuyLabels, BuyHoldsRow

\* A sweep that holds no lock and names no pot depends only on its clock reading.
LEMMA UnlockedSweeper ==
    ASSUME NEW s \in Sweepers, pc'[s] \in {"idle", "claim_begin"}, tx'[s].now <= clock'
    PROVE  SweepInv(s)'
  BY DEF SweepInv, SweepLabels, SettleHoldsAdvisory, SettleHoldsRow, SettleHasHat, SettleStatements,
         SweepNamesPot

\* A step of one worker that writes no table and touches only its own locks
\* disturbs no other worker.
LEMMA OthersFrame ==
    ASSUME IInv, NEW w \in Workers,
           \A v \in Workers \ {w} : pc'[v] = pc[v] /\ tx'[v] = tx[v],
           \A v \in Workers \ {w} : advisory = v => advisory' = v,
           \A v \in Workers \ {w}, p \in PotIds : rowLock[p] = v => rowLock'[p] = v,
           \A v \in Workers \ {w}, u \in Users : chipLock[u] = v => chipLock'[u] = v,
           UNCHANGED <<tables, clock>>
    PROVE  /\ TablesInv'
           /\ \A c \in Buyers \ {w} : BuyInv(c)'
           /\ \A r \in Sweepers \ {w} : SweepInv(r)'
<1>0. /\ clock \in Nat /\ clock' = clock
      /\ pots' = pots /\ tickets' = tickets /\ balance' = balance
  BY PotAssumption DEF IInv, TypeOK, tables
<1>1. ASSUME NEW c \in Buyers \ {w} PROVE BuyInv(c)'
  <2>1. pc'[c] = pc[c] /\ tx'[c] = tx[c]
    BY DEF Workers
  <2>2. \A p \in PotIds : rowLock[p] = c => rowLock'[p] = c
    BY DEF Workers
  <2>3. \A u \in Users : chipLock[u] = c => chipLock'[u] = c
    BY DEF Workers
  <2> QED BY <1>0, <2>1, <2>2, <2>3, BuyerFrame
<1>2. ASSUME NEW r \in Sweepers \ {w} PROVE SweepInv(r)'
  <2>1. pc'[r] = pc[r] /\ tx'[r] = tx[r] /\ (advisory = r => advisory' = r)
    BY DEF Workers
  <2>2. \A p \in PotIds : rowLock[p] = r => rowLock'[p] = r
    BY DEF Workers
  <2>3. \A u \in Users : chipLock[u] = r => chipLock'[u] = r
    BY DEF Workers
  <2> QED BY <1>0, <2>1, <2>2, <2>3, SweeperFrame
<1>3. TablesInv'
  BY TablesFrame DEF IInv
<1> QED BY <1>1, <1>2, <1>3

\* Dropping a transaction on any early return or error keeps the invariant.
LEMMA RollbackInv ==
    ASSUME IInv, NEW w \in Workers, NEW label \in {"idle", "claim_begin"}, RollbackTo(w, label),
           w \in Buyers => label = "idle",
           UNCHANGED <<lounge, clock>>, faults' \in 0 .. MaxFaults
    PROVE  IInv'
<1> USE DEF RollbackTo, ReleaseLocks, Goto
<1>0. /\ TypeOK
      /\ clock \in Nat /\ clock' = clock
      /\ NoTx.now = 0
  BY PotAssumption DEF IInv, TypeOK, NoTx
<1>1. TypeOK'
  BY <1>0, NoTxType, PotAssumption DEF TypeOK, tables, BuyLabels, SweepLabels, SettleStatements
<1>2. /\ TablesInv'
      /\ \A c \in Buyers \ {w} : BuyInv(c)'
      /\ \A r \in Sweepers \ {w} : SweepInv(r)'
  BY <1>0, OthersFrame DEF TypeOK
<1>3. w \in Buyers => BuyInv(w)'
  BY <1>0, IdleBuyer DEF TypeOK
<1>4. w \in Sweepers => SweepInv(w)'
  BY <1>0, UnlockedSweeper DEF TypeOK
<1> QED BY <1>1, <1>2, <1>3, <1>4 DEF IInv

\* BEGIN of a buy keeps the invariant.
LEMMA BuyBeginInv ==
    ASSUME IInv, NEW b \in Buyers, NEW u \in Users, NEW n \in Counts, BuyBegin(b, u, n)
    PROVE  IInv'
<1> USE DEF BuyBegin, Goto, tables, locks
<1>0. TypeOK /\ b \in Workers /\ clock' = clock
  BY DEF IInv, Workers
<1>1. TypeOK'
  BY <1>0, NoTxType, TodayInHorizon DEF TypeOK, BuyLabels, Transactions, NoTx
<1>2. /\ TablesInv'
      /\ \A c \in Buyers \ {b} : BuyInv(c)'
      /\ \A r \in Sweepers \ {b} : SweepInv(r)'
  BY <1>0, PotAssumption, OthersFrame DEF TypeOK, Workers
<1>3. BuyInv(b)'
  BY <1>0, PotAssumption, DayOfType DEF IInv, TypeOK, BuyInv, BuyLabels, BuyHoldsRow, Transactions, NoTx
<1> QED BY <1>1, <1>2, <1>3, PotAssumption DEF IInv

\* settle_due's reading of the clock keeps the invariant.
LEMMA SettleBeginInv ==
    ASSUME IInv, NEW s \in Sweepers, SettleBegin(s)
    PROVE  IInv'
<1> USE DEF SettleBegin, Goto, tables, locks
<1>0. TypeOK /\ s \in Workers /\ clock' = clock
  BY DEF IInv, Workers
<1>1. TypeOK'
  <2>1. [NoTx EXCEPT !.now = clock] \in Transactions
    <3>1. clock \in Nat
      BY <1>0, PotAssumption DEF TypeOK
    <3> QED BY <3>1, NoTxType DEF Transactions
  <2> QED BY <2>1, <1>0 DEF TypeOK, SweepLabels, SettleStatements
<1>2. /\ TablesInv'
      /\ \A c \in Buyers \ {s} : BuyInv(c)'
      /\ \A r \in Sweepers \ {s} : SweepInv(r)'
  BY <1>0, PotAssumption, OthersFrame DEF TypeOK, Workers
<1>3. SweepInv(s)'
  BY <1>0, PotAssumption DEF IInv, TypeOK, SweepInv, SweepLabels, SettleStatements, SettleHoldsAdvisory, SettleHoldsRow, SettleHasHat,
         SweepNamesPot, Transactions, NoTx
<1> QED BY <1>1, <1>2, <1>3, PotAssumption DEF IInv

\* pg_advisory_xact_lock in lock_open keeps the invariant.
LEMMA SettleAdvisoryInv ==
    ASSUME IInv, NEW s \in Sweepers, SettleAdvisory(s)
    PROVE  IInv'
<1> USE DEF SettleAdvisory, Goto, tables, locks
<1>0. TypeOK /\ s \in Workers /\ clock' = clock
  BY DEF IInv, Workers
<1>1. TypeOK'
  BY <1>0 DEF TypeOK, SweepLabels, SettleStatements, Transactions
<1>2. /\ TablesInv'
      /\ \A c \in Buyers \ {s} : BuyInv(c)'
      /\ \A r \in Sweepers \ {s} : SweepInv(r)'
  BY <1>0, PotAssumption, OthersFrame DEF TypeOK, Workers
<1>3. SweepInv(s)'
  BY <1>0, PotAssumption DEF IInv, TypeOK, SweepInv, SweepLabels, SettleStatements, SettleHoldsAdvisory, SettleHoldsRow, SettleHasHat,
         SweepNamesPot, Transactions
<1> QED BY <1>1, <1>2, <1>3, PotAssumption DEF IInv

\* settle_rolled_in_tx keeps the invariant.
LEMMA SettleRollInv ==
    ASSUME IInv, NEW s \in Sweepers, SettleRoll(s)
    PROVE  IInv'
<1> USE DEF Goto, tables, locks
<1>a. StillOpen(s)
  BY DEF IInv, SweepInv, SettleRoll, StillOpen, SettleHoldsRow
<1>b. /\ pc[s] = "settle_roll" /\ pc' = [pc EXCEPT ![s] = "settle_commit"]
      /\ UNCHANGED <<tables, locks, tx, lounge, clock, faults>>
  BY <1>a DEF SettleRoll
<1>0. TypeOK /\ s \in Workers /\ clock' = clock
  BY <1>b DEF IInv, Workers
<1>1. TypeOK'
  BY <1>0, <1>b DEF TypeOK, SweepLabels, SettleStatements, Transactions
<1>2. /\ TablesInv'
      /\ \A c \in Buyers \ {s} : BuyInv(c)'
      /\ \A r \in Sweepers \ {s} : SweepInv(r)'
  BY <1>0, <1>b, PotAssumption, OthersFrame DEF TypeOK, Workers
<1>3. SweepInv(s)'
  BY <1>0, <1>b, PotAssumption DEF IInv, TypeOK, SweepInv, SweepLabels, SettleStatements, SettleHoldsAdvisory, SettleHoldsRow, SettleHasHat,
         SweepNamesPot, Transactions
<1> QED BY <1>1, <1>2, <1>3, PotAssumption DEF IInv

\* announce_settlement keeps the invariant.
LEMMA AnnounceInv ==
    ASSUME IInv, NEW s \in Sweepers, Announce(s)
    PROVE  IInv'
<1> USE DEF Announce, Goto, tables, locks
<1>0. TypeOK /\ s \in Workers /\ clock' = clock
  BY DEF IInv, Workers
<1>1. TypeOK'
  <2>1. lounge' \in [{"drawn", "closing"} -> [PotIds -> Nat]]
    <3>1. tx[s].pot \in PotIds
      BY DEF IInv, SweepInv, SweepNamesPot
    <3>2. lounge \in [{"drawn", "closing"} -> [PotIds -> Nat]]
      BY <1>0 DEF TypeOK
    <3> QED BY <3>1, <3>2
  <2> QED BY <2>1, <1>0, NoTxType DEF TypeOK, SweepLabels
<1>2. /\ TablesInv'
      /\ \A c \in Buyers \ {s} : BuyInv(c)'
      /\ \A r \in Sweepers \ {s} : SweepInv(r)'
  BY <1>0, PotAssumption, OthersFrame DEF TypeOK, Workers
<1>3. SweepInv(s)'
  BY <1>0, PotAssumption DEF IInv, TypeOK, SweepInv, SweepLabels, SettleStatements, SettleHoldsAdvisory, SettleHoldsRow, SettleHasHat,
         SweepNamesPot, Transactions, NoTx
<1> QED BY <1>1, <1>2, <1>3, PotAssumption DEF IInv

\* announce_reminder keeps the invariant.
LEMMA ClaimPostInv ==
    ASSUME IInv, NEW s \in Sweepers, ClaimPost(s)
    PROVE  IInv'
<1> USE DEF ClaimPost, Goto, tables, locks
<1>0. TypeOK /\ s \in Workers /\ clock' = clock
  BY DEF IInv, Workers
<1>1. TypeOK'
  <2>1. lounge' \in [{"drawn", "closing"} -> [PotIds -> Nat]]
    <3>1. tx[s].pot \in PotIds
      BY DEF IInv, SweepInv, SweepNamesPot
    <3>2. lounge \in [{"drawn", "closing"} -> [PotIds -> Nat]]
      BY <1>0 DEF TypeOK
    <3> QED BY <3>1, <3>2
  <2> QED BY <2>1, <1>0, NoTxType DEF TypeOK, SweepLabels
<1>2. /\ TablesInv'
      /\ \A c \in Buyers \ {s} : BuyInv(c)'
      /\ \A r \in Sweepers \ {s} : SweepInv(r)'
  BY <1>0, PotAssumption, OthersFrame DEF TypeOK, Workers
<1>3. SweepInv(s)'
  BY <1>0, PotAssumption DEF IInv, TypeOK, SweepInv, SweepLabels, SettleStatements, SettleHoldsAdvisory, SettleHoldsRow, SettleHasHat,
         SweepNamesPot, Transactions, NoTx
<1> QED BY <1>1, <1>2, <1>3, PotAssumption DEF IInv

\* The snapshot of lock_open_for_buy keeps the invariant.
LEMMA BuySelectInv ==
    ASSUME IInv, NEW b \in Buyers, BuySelect(b)
    PROVE  IInv'
<1> USE DEF BuySelect
<1>0. TypeOK /\ b \in Workers /\ clock' = clock
  BY DEF IInv, Workers
<1>1. CASE TheOpenPot = None
  <2>1. RollbackTo(b, "idle") /\ UNCHANGED <<lounge, clock, faults>>
    BY <1>1
  <2> QED BY <2>1, <1>0, PotAssumption, RollbackInv DEF TypeOK
<1>2. CASE ~(TheOpenPot = None)
  <2> USE DEF Goto, tables, locks
  <2>0. TheOpenPot \in PotIds
    BY <1>2, TheOpenPotType DEF OpenPots
  <2>1. TypeOK'
    <3>1. tx[b] \in Transactions
      BY <1>0 DEF TypeOK
    <3>2. [tx[b] EXCEPT !.pot = TheOpenPot] \in Transactions
      BY <3>1, <2>0 DEF Transactions
    <3> QED BY <1>0, <1>2, <3>2 DEF TypeOK, BuyLabels
  <2>2. /\ TablesInv'
        /\ \A c \in Buyers \ {b} : BuyInv(c)'
        /\ \A r \in Sweepers \ {b} : SweepInv(r)'
    BY <1>0, <1>2, PotAssumption, OthersFrame DEF TypeOK, Workers
  <2>3. BuyInv(b)'
    <3>1. BuyInv(b) /\ tx[b] \in Transactions
      BY <1>0 DEF IInv, TypeOK
    <3>2. /\ pc'[b] = "buy_lock" /\ tx'[b].pot = TheOpenPot
          /\ tx'[b].user = tx[b].user /\ tx'[b].count = tx[b].count /\ tx'[b].day = tx[b].day
      BY <1>0, <1>2, <3>1 DEF TypeOK, Transactions
    <3> QED BY <1>0, <2>0, <3>1, <3>2 DEF BuyInv, BuyLabels, BuyHoldsRow
  <2> QED BY <2>1, <2>2, <2>3, PotAssumption DEF IInv
<1> QED BY <1>1, <1>2

\* The row lock and re-check of lock_open_for_buy keep the invariant.
LEMMA BuyLockInv ==
    ASSUME IInv, NEW b \in Buyers, BuyLock(b)
    PROVE  IInv'
<1> USE DEF BuyLock
<1>0. TypeOK /\ b \in Workers /\ clock' = clock
  BY DEF IInv, Workers
<1>1. CASE pots[tx[b].pot].status # "open"
  <2>1. RollbackTo(b, "idle") /\ UNCHANGED <<lounge, clock, faults>>
    BY <1>1
  <2> QED BY <2>1, <1>0, PotAssumption, RollbackInv DEF TypeOK
<1>2. CASE ~(pots[tx[b].pot].status # "open")
  <2> USE DEF Goto, tables, locks
  <2>1. TypeOK'
    BY <1>0, <1>2 DEF TypeOK, BuyLabels, Transactions
  <2>2. /\ TablesInv'
        /\ \A c \in Buyers \ {b} : BuyInv(c)'
        /\ \A r \in Sweepers \ {b} : SweepInv(r)'
    BY <1>0, <1>2, PotAssumption, OthersFrame DEF TypeOK, Workers
  <2>3. BuyInv(b)'
    BY <1>0, <1>2, PotAssumption DEF IInv, TypeOK, BuyInv, BuyLabels, BuyHoldsRow,
           Transactions
  <2> QED BY <2>1, <2>2, <2>3, PotAssumption DEF IInv
<1> QED BY <1>1, <1>2

\* The capped INSERT of buy_in_tx keeps the invariant.
LEMMA BuyInsertInv ==
    ASSUME IInv, NEW b \in Buyers, BuyInsert(b)
    PROVE  IInv'
<1> USE DEF BuyInsert
<1>0. TypeOK /\ b \in Workers /\ clock' = clock
  BY DEF IInv, Workers
<1>1. CASE tickets[tx[b].pot][tx[b].user][tx[b].day] + tx[b].count > MaxTicketsPerDay
  <2>1. RollbackTo(b, "idle") /\ UNCHANGED <<lounge, clock, faults>>
    BY <1>1
  <2> QED BY <2>1, <1>0, PotAssumption, RollbackInv DEF TypeOK
<1>2. CASE ~(tickets[tx[b].pot][tx[b].user][tx[b].day] + tx[b].count > MaxTicketsPerDay)
  <2> USE DEF Goto, tables, locks
  <2>1. TypeOK'
    BY <1>0, <1>2 DEF TypeOK, BuyLabels, Transactions
  <2>2. /\ TablesInv'
        /\ \A c \in Buyers \ {b} : BuyInv(c)'
        /\ \A r \in Sweepers \ {b} : SweepInv(r)'
    BY <1>0, <1>2, PotAssumption, OthersFrame DEF TypeOK, Workers
  <2>3. BuyInv(b)'
    <3>1. BuyInv(b) /\ tx[b] \in Transactions
      BY <1>0 DEF IInv, TypeOK
    <3>2. /\ tx[b].pot \in PotIds /\ tx[b].user \in Users /\ tx[b].day \in Days
          /\ tx[b].count \in Nat
      BY <3>1, PotAssumption DEF BuyInv, BuyHoldsRow, Transactions, Counts
    <3>3. tickets[tx[b].pot][tx[b].user][tx[b].day] \in Nat
      BY <1>0, <3>2 DEF TypeOK
    <3>4. tickets[tx[b].pot][tx[b].user][tx[b].day] + tx[b].count <= MaxTicketsPerDay
      BY <1>2, <3>2, <3>3, PotAssumption
    <3>5. pc'[b] = "buy_debit"
      BY <1>0, <1>2 DEF TypeOK
    <3> QED BY <1>0, <1>2, <3>1, <3>4, <3>5 DEF BuyInv, BuyLabels, BuyHoldsRow
  <2> QED BY <2>1, <2>2, <2>3, PotAssumption DEF IInv
<1> QED BY <1>1, <1>2

\* The guarded debit of UserChips::apply keeps the invariant.
LEMMA BuyDebitInv ==
    ASSUME IInv, NEW b \in Buyers, BuyDebit(b)
    PROVE  IInv'
<1> USE DEF BuyDebit
<1>0. TypeOK /\ b \in Workers /\ clock' = clock
  BY DEF IInv, Workers
<1>1. CASE balance[tx[b].user] - Price(b) < ChipFloor
  <2>1. RollbackTo(b, "idle") /\ UNCHANGED <<lounge, clock, faults>>
    BY <1>1
  <2> QED BY <2>1, <1>0, PotAssumption, RollbackInv DEF TypeOK
<1>2. CASE ~(balance[tx[b].user] - Price(b) < ChipFloor)
  <2> USE DEF Goto, Price, tables, locks
  <2>1. TypeOK'
    BY <1>0, <1>2 DEF TypeOK, BuyLabels, Transactions
  <2>2. /\ TablesInv'
        /\ \A c \in Buyers \ {b} : BuyInv(c)'
        /\ \A r \in Sweepers \ {b} : SweepInv(r)'
    BY <1>0, <1>2, PotAssumption, OthersFrame DEF TypeOK, Workers
  <2>3. BuyInv(b)'
    <3>1. BuyInv(b) /\ tx[b].user \in Users /\ tx[b].count \in Nat
      BY <1>0, PotAssumption DEF IInv, BuyInv, Counts
    <3>2. balance[tx[b].user] \in Int /\ tx[b].count * TicketPrice \in Nat
      BY <1>0, <3>1, PotAssumption DEF TypeOK
    <3>3. balance[tx[b].user] - tx[b].count * TicketPrice >= ChipFloor
      BY <1>2, <3>2, PotAssumption
    <3>4. pc'[b] = "buy_commit" /\ chipLock'[tx[b].user] = b
      BY <1>0, <1>2, <3>1 DEF TypeOK
    <3> QED BY <1>0, <1>2, <3>1, <3>3, <3>4 DEF BuyInv, BuyLabels, BuyHoldsRow
  <2> QED BY <2>1, <2>2, <2>3, PotAssumption DEF IInv
<1> QED BY <1>1, <1>2

\* The row lock of lock_open and the check of the hour keep the invariant.
LEMMA SettleLockInv ==
    ASSUME IInv, NEW s \in Sweepers, SettleLock(s)
    PROVE  IInv'
<1> USE DEF SettleLock
<1>0. TypeOK /\ s \in Workers /\ clock' = clock
  BY DEF IInv, Workers
<1>1. CASE pots[tx[s].pot].status = "open" /\ pots[tx[s].pot].draws_at > tx[s].now
  <2>1. RollbackTo(s, "claim_begin") /\ UNCHANGED <<lounge, clock, faults>>
    BY <1>1
  <2> QED BY <2>1, <1>0, PotAssumption, RollbackInv DEF TypeOK
<1>2. CASE ~(pots[tx[s].pot].status = "open" /\ pots[tx[s].pot].draws_at > tx[s].now)
  <2> USE DEF Goto, tables, locks
  <2>1. TypeOK'
    BY <1>0, <1>2 DEF TypeOK, SweepLabels, SettleStatements, Transactions
  <2>2. /\ TablesInv'
        /\ \A c \in Buyers \ {s} : BuyInv(c)'
        /\ \A r \in Sweepers \ {s} : SweepInv(r)'
    BY <1>0, <1>2, PotAssumption, OthersFrame DEF TypeOK, Workers
  <2>3. SweepInv(s)'
    <3>1. /\ SweepInv(s) /\ tx[s] \in Transactions
          /\ tx[s].pot \in PotIds /\ pots[tx[s].pot].status = "open"
      BY <1>0 DEF IInv, TypeOK, SweepInv, SweepNamesPot
    <3>2. pots[tx[s].pot].draws_at \in Nat /\ tx[s].now \in Nat
      BY <1>0, <3>1 DEF TypeOK, PotRows, Transactions
    <3>3. pots[tx[s].pot].draws_at <= tx[s].now
      BY <1>2, <3>1, <3>2
    <3>4. pc'[s] = "settle_holders" /\ rowLock'[tx[s].pot] = s
      BY <1>0, <1>2, <3>1 DEF TypeOK
    <3> QED BY <1>0, <1>2, <3>1, <3>3, <3>4
        DEF SweepInv, SweepLabels, SettleStatements, SettleHoldsAdvisory, SettleHoldsRow,
            SettleHasHat, SweepNamesPot
  <2> QED BY <2>1, <2>2, <2>3, PotAssumption DEF IInv
<1> QED BY <1>1, <1>2

\* A buy that errors keeps the invariant.
LEMMA BuyFailInv ==
    ASSUME IInv, NEW b \in Buyers, BuyFail(b)
    PROVE  IInv'
<1>1. b \in Workers /\ faults' \in 0 .. MaxFaults
  BY PotAssumption DEF IInv, TypeOK, Workers, BuyFail
<1>2. RollbackTo(b, "idle") /\ UNCHANGED <<lounge, clock>>
  BY DEF BuyFail
<1> QED BY <1>1, <1>2, PotAssumption, RollbackInv

\* A settlement that errors keeps the invariant.
LEMMA SettleFailInv ==
    ASSUME IInv, NEW s \in Sweepers, SettleFail(s)
    PROVE  IInv'
<1>1. s \in Workers /\ faults' \in 0 .. MaxFaults
  BY PotAssumption DEF IInv, TypeOK, Workers, SettleFail
<1>2. RollbackTo(s, "claim_begin") /\ UNCHANGED <<lounge, clock>>
  BY DEF SettleFail
<1> QED BY <1>1, <1>2, PotAssumption, RollbackInv

\* A replica that dies in a sweep keeps the invariant.
LEMMA CrashInv ==
    ASSUME IInv, NEW s \in Sweepers, Crash(s)
    PROVE  IInv'
<1>1. s \in Workers /\ faults' \in 0 .. MaxFaults
  BY PotAssumption DEF IInv, TypeOK, Workers, Crash
<1>2. RollbackTo(s, "idle") /\ UNCHANGED <<lounge, clock>>
  BY DEF Crash
<1> QED BY <1>1, <1>2, PotAssumption, RollbackInv

\* The snapshot of lock_open keeps the invariant: when it finds no open pot, the
\* advisory lock keeps it so.
LEMMA SettleSelectInv ==
    ASSUME IInv, NEW s \in Sweepers, SettleSelect(s)
    PROVE  IInv'
<1> USE DEF SettleSelect, Goto, tables, locks
<1>0. TypeOK /\ s \in Workers /\ clock' = clock /\ tx[s] \in Transactions
  BY DEF IInv, TypeOK, Workers
<1>a. TheOpenPot \in PotIds \cup {None} /\ (TheOpenPot # None => pots[TheOpenPot].status = "open")
  BY TheOpenPotType DEF OpenPots
<1>1. TypeOK'
  <2>1. [tx[s] EXCEPT !.pot = TheOpenPot] \in Transactions
    BY <1>0, <1>a DEF Transactions
  <2> QED BY <2>1, <1>0 DEF TypeOK, SweepLabels, SettleStatements
<1>2. /\ TablesInv'
      /\ \A c \in Buyers \ {s} : BuyInv(c)'
      /\ \A r \in Sweepers \ {s} : SweepInv(r)'
  BY <1>0, PotAssumption, OthersFrame DEF TypeOK, Workers
<1>3. SweepInv(s)'
  <2>1. /\ tx'[s].pot = TheOpenPot /\ tx'[s].now = tx[s].now /\ tx'[s].winner = tx[s].winner
        /\ pc'[s] = IF TheOpenPot = None THEN "open_first" ELSE "settle_lock"
    BY <1>0 DEF TypeOK, Transactions
  <2>2. TheOpenPot = None => OpenPots' = {}
    BY TheOpenPotType DEF OpenPots
  <2>3. SweepInv(s)
    BY DEF IInv
  <2> QED BY <1>0, <1>a, <2>1, <2>2, <2>3
      DEF SweepInv, SweepLabels, SettleStatements, SettleHoldsAdvisory, SettleHoldsRow,
          SettleHasHat, SweepNamesPot
<1> QED BY <1>1, <1>2, <1>3, PotAssumption DEF IInv

\* PotTicket::holders, read under the row lock, keeps the invariant.
LEMMA SettleHoldersInv ==
    ASSUME IInv, NEW s \in Sweepers, SettleHolders(s)
    PROVE  IInv'
<1> USE DEF SettleHolders, Goto, tables, locks
<1>0. TypeOK /\ s \in Workers /\ clock' = clock /\ tx[s] \in Transactions
  BY DEF IInv, TypeOK, Workers
<1>a. SweepInv(s) /\ tx[s].pot \in PotIds
  BY DEF IInv, SweepInv, SweepNamesPot, SettleHoldsRow
<1>b. Hat(tickets[tx[s].pot]) \in SUBSET ((Users \X Days) \X Counts)
  BY <1>0, <1>a, HatFinite DEF IInv, TypeOK, TablesInv, DailyCapIsExact
<1>1. TypeOK'
  <2>1. [tx[s] EXCEPT !.hat = Hat(tickets[tx[s].pot])] \in Transactions
    BY <1>0, <1>b DEF Transactions
  <2> QED BY <2>1, <1>0 DEF TypeOK, SweepLabels, SettleStatements
<1>2. /\ TablesInv'
      /\ \A c \in Buyers \ {s} : BuyInv(c)'
      /\ \A r \in Sweepers \ {s} : SweepInv(r)'
  BY <1>0, PotAssumption, OthersFrame DEF TypeOK, Workers
<1>3. SweepInv(s)'
  <2>1. /\ tx'[s].pot = tx[s].pot /\ tx'[s].now = tx[s].now /\ tx'[s].winner = tx[s].winner
        /\ tx'[s].hat = Hat(tickets[tx[s].pot])
    BY <1>0 DEF TypeOK, Transactions
  <2>2. pc'[s] = IF Hat(tickets[tx[s].pot]) = {} THEN "settle_roll" ELSE "settle_draw"
    BY <1>0, <2>1 DEF TypeOK
  <2> QED BY <1>0, <1>a, <2>1, <2>2
      DEF SweepInv, SweepLabels, SettleStatements, SettleHoldsAdvisory, SettleHoldsRow,
          SettleHasHat, SweepNamesPot
<1> QED BY <1>1, <1>2, <1>3, PotAssumption DEF IInv

\* Pulling a ticket and locking the winner's chips keeps the invariant.
LEMMA SettleDrawInv ==
    ASSUME IInv, NEW s \in Sweepers, NEW ticket \in tx[s].hat, SettleDraw(s, ticket)
    PROVE  IInv'
<1> USE DEF Goto, tables, locks
<1>a. SweepInv(s) /\ pc[s] = "settle_draw"
  BY DEF IInv, SettleDraw
<1>c. StillOpen(s)
  BY <1>a DEF SweepInv, StillOpen, SettleHoldsRow
<1>d. /\ chipLock[HolderOf(ticket)] = None
      /\ chipLock' = [chipLock EXCEPT ![HolderOf(ticket)] = s]
      /\ tx' = [tx EXCEPT ![s].winner = HolderOf(ticket)]
      /\ pc' = [pc EXCEPT ![s] = "settle_commit"]
      /\ UNCHANGED <<tables, advisory, rowLock, lounge, clock, faults>>
  BY <1>c DEF SettleDraw
<1>0. TypeOK /\ s \in Workers /\ clock' = clock /\ tx[s] \in Transactions
  BY <1>d DEF IInv, TypeOK, Workers
<1>b. HolderOf(ticket) \in Users
  BY <1>0 DEF Transactions, HolderOf
<1>1. TypeOK'
  <2>1. [tx[s] EXCEPT !.winner = HolderOf(ticket)] \in Transactions
    BY <1>0, <1>b DEF Transactions
  <2> QED BY <2>1, <1>0, <1>b, <1>d DEF TypeOK, SweepLabels, SettleStatements
<1>2. /\ TablesInv'
      /\ \A c \in Buyers \ {s} : BuyInv(c)'
      /\ \A r \in Sweepers \ {s} : SweepInv(r)'
  BY <1>0, <1>d, PotAssumption, OthersFrame DEF TypeOK, Workers
<1>3. SweepInv(s)'
  <2>1. /\ tx'[s].pot = tx[s].pot /\ tx'[s].now = tx[s].now /\ tx'[s].hat = tx[s].hat
        /\ tx'[s].winner = HolderOf(ticket) /\ pc'[s] = "settle_commit"
    BY <1>0, <1>d DEF TypeOK, Transactions
  <2>2. chipLock'[HolderOf(ticket)] = s /\ HolderOf(ticket) # None
    BY <1>0, <1>b, <1>d, PotAssumption DEF TypeOK
  <2> QED BY <1>0, <1>a, <1>d, <2>1, <2>2
      DEF SweepInv, SweepLabels, SettleStatements, SettleHoldsAdvisory, SettleHoldsRow,
          SettleHasHat, SweepNamesPot
<1> QED BY <1>1, <1>2, <1>3, PotAssumption DEF IInv

\* claim_reminder's reading of the clock keeps the invariant.
LEMMA ClaimBeginInv ==
    ASSUME IInv, NEW s \in Sweepers, ClaimBegin(s)
    PROVE  IInv'
<1> USE DEF ClaimBegin, Goto, tables, locks
<1>0. TypeOK /\ s \in Workers /\ clock' = clock
  BY DEF IInv, Workers
<1>1. TypeOK'
  <2>1. [NoTx EXCEPT !.now = clock] \in Transactions
    <3>1. clock \in Nat
      BY <1>0, PotAssumption DEF TypeOK
    <3> QED BY <3>1, NoTxType DEF Transactions
  <2> QED BY <2>1, <1>0 DEF TypeOK, SweepLabels
<1>2. /\ TablesInv'
      /\ \A c \in Buyers \ {s} : BuyInv(c)'
      /\ \A r \in Sweepers \ {s} : SweepInv(r)'
  BY <1>0, PotAssumption, OthersFrame DEF TypeOK, Workers
<1>3. SweepInv(s)'
  BY <1>0, PotAssumption DEF IInv, TypeOK, SweepInv, SweepLabels, SettleStatements,
     SettleHoldsAdvisory, SettleHoldsRow, SettleHasHat, SweepNamesPot, Transactions, NoTx
<1> QED BY <1>1, <1>2, <1>3, PotAssumption DEF IInv

\* The search of claim_reminder keeps the invariant.
LEMMA ClaimSearchInv ==
    ASSUME IInv, NEW s \in Sweepers, ClaimSearch(s)
    PROVE  IInv'
<1> USE DEF ClaimSearch, Goto, tables, locks
<1>0. TypeOK /\ s \in Workers /\ clock' = clock /\ tx[s] \in Transactions /\ SweepInv(s)
  BY DEF IInv, TypeOK, Workers
<1> DEFINE found == Remindable(tx[s].now)
           p == CHOOSE q \in found : TRUE
<1>a. found # {} => p \in PotIds /\ Hat(tickets[p]) # {}
  BY DEF Remindable, OpenPots
<1> HIDE DEF p, found
<1>b. CASE found = {}
  <2>1. pc' = [pc EXCEPT ![s] = "idle"] /\ tx' = [tx EXCEPT ![s] = NoTx]
    BY <1>b DEF found
  <2>2. TypeOK'
    BY <2>1, <1>0, NoTxType DEF TypeOK, SweepLabels
  <2>3. /\ TablesInv'
        /\ \A c \in Buyers \ {s} : BuyInv(c)'
        /\ \A r \in Sweepers \ {s} : SweepInv(r)'
    BY <2>1, <1>0, PotAssumption, OthersFrame DEF TypeOK, Workers
  <2>4. SweepInv(s)'
    <3>1. pc'[s] = "idle" /\ tx'[s].now = 0
      BY <2>1, <1>0 DEF TypeOK, NoTx
    <3> QED BY <3>1, <1>0, PotAssumption, UnlockedSweeper DEF TypeOK
  <2> QED BY <2>2, <2>3, <2>4, PotAssumption DEF IInv
<1>c. CASE found # {}
  <2>1. pc' = [pc EXCEPT ![s] = "claim_update"] /\ tx' = [tx EXCEPT ![s].pot = p]
    BY <1>c DEF p, found
  <2>2. TypeOK'
    <3>1. [tx[s] EXCEPT !.pot = p] \in Transactions
      BY <1>0, <1>a, <1>c DEF Transactions
    <3> QED BY <3>1, <2>1, <1>0 DEF TypeOK, SweepLabels
  <2>3. /\ TablesInv'
        /\ \A c \in Buyers \ {s} : BuyInv(c)'
        /\ \A r \in Sweepers \ {s} : SweepInv(r)'
    BY <2>1, <1>0, PotAssumption, OthersFrame DEF TypeOK, Workers
  <2>4. SweepInv(s)'
    <3>1. tx'[s].pot = p /\ tx'[s].now = tx[s].now /\ pc'[s] = "claim_update"
      BY <2>1, <1>0 DEF TypeOK, Transactions
    <3> QED BY <1>0, <1>a, <1>c, <3>1
        DEF SweepInv, SweepLabels, SettleStatements, SettleHoldsAdvisory, SettleHoldsRow,
            SettleHasHat, SweepNamesPot
  <2> QED BY <2>2, <2>3, <2>4, PotAssumption DEF IInv
<1> QED BY <1>b, <1>c

\* Time passing keeps the invariant.
LEMMA TickInv ==
    ASSUME IInv, Tick
    PROVE  IInv'
<1> USE DEF Tick, tables, locks
<1>0. TypeOK /\ clock \in Nat /\ clock' \in Nat /\ clock <= clock' /\ clock' \in 0 .. MaxClock
  BY PotAssumption DEF IInv, TypeOK
<1>1. TypeOK'
  BY <1>0 DEF TypeOK
<1>2. ASSUME NEW c \in Buyers PROVE BuyInv(c)'
  BY <1>0, BuyerFrame
<1>3. ASSUME NEW r \in Sweepers PROVE SweepInv(r)'
  BY <1>0, SweeperFrame
<1> QED BY <1>1, <1>2, <1>3, TablesFrame DEF IInv

\* Another service's debit keeps the invariant: it waits for the chip lock.
LEMMA OtherDebitInv ==
    ASSUME IInv, NEW u \in Users, NEW amount \in Spends, OtherDebit(u, amount)
    PROVE  IInv'
<1> USE DEF OtherDebit, locks
<1>0. TypeOK /\ clock \in Nat /\ clock' = clock /\ amount \in Int
  BY PotAssumption DEF IInv, TypeOK
<1>1. TypeOK'
  BY <1>0 DEF TypeOK
<1>2. ASSUME NEW c \in Buyers PROVE BuyInv(c)'
  <2>1. \A v \in Users : chipLock[v] = c => balance'[v] = balance[v]
    BY <1>0, PotAssumption DEF TypeOK, Workers
  <2> QED BY <1>0, <2>1, BuyerFrame
<1>3. ASSUME NEW r \in Sweepers PROVE SweepInv(r)'
  BY <1>0, SweeperFrame
<1>4. TablesInv'
  BY DEF IInv, TablesInv, PotInvOf, OpenPots, DailyCapIsExact, PotPaysOnce
<1> QED BY <1>1, <1>2, <1>3, <1>4 DEF IInv

\* More tickets bought, a larger hat.
LEMMA HatMonotone ==
    ASSUME NEW t \in [Users -> [Days -> Nat]], NEW t2 \in [Users -> [Days -> Nat]],
           \A u \in Users, d \in Days : t[u][d] <= t2[u][d]
    PROVE  Hat(t) \subseteq Hat(t2)
<1> SUFFICES ASSUME NEW x \in Hat(t) PROVE x \in Hat(t2)
  OBVIOUS
<1>1. PICK u \in Users, d \in Days : x \in {<<u, d>>} \X (1 .. t[u][d])
  BY DEF Hat
<1>2. t[u][d] \in Nat /\ t2[u][d] \in Nat /\ t[u][d] <= t2[u][d]
  OBVIOUS
<1>3. 1 .. t[u][d] \subseteq 1 .. t2[u][d]
  BY <1>2
<1>4. x \in {<<u, d>>} \X (1 .. t2[u][d])
  BY <1>1, <1>3
<1> DEFINE S == {{<<v, e>>} \X (1 .. t2[v][e]) : v \in Users, e \in Days}
<1>5. {<<u, d>>} \X (1 .. t2[u][d]) \in S
  OBVIOUS
<1> HIDE DEF S
<1>6. x \in UNION S
  BY <1>4, <1>5
<1> QED BY <1>6 DEF Hat, S

\* A stamped row is well typed.
LEMMA StampType ==
    ASSUME NEW row \in PotRows
    PROVE  [row EXCEPT !.reminded = TRUE] \in PotRows
  BY DEF PotRows

\* Stamping an unlocked open row keeps the invariant.
LEMMA ReminderStampInv ==
    ASSUME IInv, NEW s \in Sweepers, pc[s] = "claim_update", Claimed(s),
           pots' = [pots EXCEPT ![tx[s].pot].reminded = TRUE],
           \A v \in Workers \ {s} : pc'[v] = pc[v] /\ tx'[v] = tx[v],
           TypeOK', SweepInv(s)',
           UNCHANGED <<tickets, balance, paidIn, paidOut, locks, clock>>
    PROVE  IInv'
<1> USE DEF locks
<1>a. TypeOK /\ tx[s].pot \in PotIds
  BY DEF IInv, SweepInv, SweepNamesPot
<1>b. clock \in Nat /\ clock' = clock
  BY <1>a, PotAssumption DEF TypeOK
<1>c. pots[tx[s].pot] \in PotRows
  BY <1>a DEF TypeOK
<1>0. /\ TypeOK /\ clock \in Nat /\ clock' = clock
      /\ tx[s].pot \in PotIds
      /\ pots[tx[s].pot] \in PotRows
  BY <1>a, <1>b, <1>c
<1>1. \A p \in PotIds : /\ pots'[p].status = pots[p].status
                        /\ pots'[p].draws_at = pots[p].draws_at
                        /\ pots'[p].winner = pots[p].winner
                        /\ pots'[p].ticket_count = pots[p].ticket_count
                        /\ pots'[p].payout = pots[p].payout
                        /\ pots[p].status # "open" => pots'[p] = pots[p]
  BY <1>0 DEF TypeOK, PotRows, Claimed
<1>2. ASSUME NEW c \in Buyers PROVE BuyInv(c)'
  <2>1. pc'[c] = pc[c] /\ tx'[c] = tx[c]
    BY PotAssumption DEF Workers
  <2> QED BY <1>0, <1>1, <2>1, BuyerFrame
<1>3. ASSUME NEW r \in Sweepers \ {s} PROVE SweepInv(r)'
  <2>1. pc'[r] = pc[r] /\ tx'[r] = tx[r]
    BY DEF Workers
  <2> QED BY <1>0, <1>1, <2>1, SweeperFrame
<1>4. TablesInv'
  <2>1. TablesInv
    BY DEF IInv
  <2>2. OpenPots' = OpenPots
    BY <1>1 DEF OpenPots
  <2>3. \A p \in PotIds : PotInvOf(p)'
    BY <1>1, <2>1 DEF TablesInv, PotInvOf, NoRow
  <2>4. DailyCapIsExact' /\ PotPaysOnce'
    BY <1>1, <2>1 DEF TablesInv, DailyCapIsExact, PotPaysOnce
  <2>5. \A p \in PotIds : pots'[p] # NoRow => pots[p] # NoRow
    BY <1>1 DEF Claimed, NoRow
  <2> QED BY <2>1, <2>2, <2>3, <2>4, <2>5 DEF TablesInv
<1> QED BY <1>2, <1>3, <1>4 DEF IInv

\* The UPDATE of claim_reminder keeps the invariant.
LEMMA ClaimUpdateInv ==
    ASSUME IInv, NEW s \in Sweepers, ClaimUpdate(s)
    PROVE  IInv'
<1> USE DEF ClaimUpdate, Goto, locks
<1>0. TypeOK /\ s \in Workers /\ clock' = clock /\ SweepInv(s)
  BY DEF IInv, Workers
<1>a. tx[s].pot \in PotIds
  BY <1>0 DEF SweepInv, SweepNamesPot
<1>1. CASE Claimed(s)
  <2>1. [pots[tx[s].pot] EXCEPT !.reminded = TRUE] \in PotRows
    BY <1>0, <1>a, StampType DEF TypeOK
  <2>2. TypeOK'
    BY <1>0, <1>1, <2>1 DEF TypeOK, SweepLabels
  <2>3. SweepInv(s)'
    <3>1. pc'[s] = "claim_post" /\ tx'[s] = tx[s]
      BY <1>0, <1>1 DEF TypeOK
    <3> QED BY <1>0, <1>a, <3>1
        DEF SweepInv, SweepLabels, SettleStatements, SettleHoldsAdvisory, SettleHoldsRow,
            SettleHasHat, SweepNamesPot
  <2>4. \A v \in Workers \ {s} : pc'[v] = pc[v] /\ tx'[v] = tx[v]
    BY <1>0, <1>1 DEF TypeOK
  <2> QED BY <1>1, <2>2, <2>3, <2>4, ReminderStampInv
<1>2. CASE ~Claimed(s)
  <2>1. pc' = [pc EXCEPT ![s] = "idle"] /\ tx' = [tx EXCEPT ![s] = NoTx] /\ UNCHANGED tables
    BY <1>2
  <2>2. TypeOK'
    BY <1>0, <2>1, NoTxType DEF TypeOK, SweepLabels, tables
  <2>3. /\ TablesInv'
        /\ \A c \in Buyers \ {s} : BuyInv(c)'
        /\ \A r \in Sweepers \ {s} : SweepInv(r)'
    BY <1>0, <2>1, PotAssumption, OthersFrame DEF TypeOK, Workers
  <2>4. SweepInv(s)'
    <3>1. pc'[s] = "idle" /\ tx'[s].now = 0
      BY <1>0, <2>1 DEF TypeOK, NoTx
    <3> QED BY <1>0, <3>1, PotAssumption, UnlockedSweeper DEF TypeOK
  <2> QED BY <2>2, <2>3, <2>4, PotAssumption DEF IInv
<1> QED BY <1>1, <1>2

\* An UPDATE of claim_reminder that lands unacknowledged keeps the invariant.
LEMMA ClaimUnacknowledgedInv ==
    ASSUME IInv, NEW s \in Sweepers, ClaimUnacknowledged(s)
    PROVE  IInv'
<1> USE DEF ClaimUnacknowledged, Goto, locks
<1>0. TypeOK /\ s \in Workers /\ clock' = clock /\ SweepInv(s)
  BY DEF IInv, Workers
<1>a. tx[s].pot \in PotIds
  BY <1>0 DEF SweepInv, SweepNamesPot
<1>1. [pots[tx[s].pot] EXCEPT !.reminded = TRUE] \in PotRows
  BY <1>0, <1>a, StampType DEF TypeOK
<1>2. TypeOK'
  <2>1. faults' \in 0 .. MaxFaults
    BY <1>0, PotAssumption DEF TypeOK
  <2>2. pots' \in [PotIds -> PotRows]
    BY <1>0, <1>1 DEF TypeOK
  <2>3. pc' \in [Workers -> BuyLabels \cup SweepLabels] /\ tx' \in [Workers -> Transactions]
    BY <1>0, NoTxType DEF TypeOK, SweepLabels
  <2> QED BY <1>0, <2>1, <2>2, <2>3 DEF TypeOK
<1>3. SweepInv(s)'
  <2>1. pc'[s] = "idle" /\ tx'[s].now = 0
    BY <1>0 DEF TypeOK, NoTx
  <2> QED BY <1>0, <2>1, PotAssumption, UnlockedSweeper DEF TypeOK
<1>4. \A v \in Workers \ {s} : pc'[v] = pc[v] /\ tx'[v] = tx[v]
  BY <1>0 DEF TypeOK
<1> QED BY <1>2, <1>3, <1>4, ReminderStampInv

\* What COMMIT of a buy writes keeps the invariant: the cap and the floor checked
\* earlier still hold, under the locks taken with those checks.
LEMMA BuyWritesInv ==
    ASSUME IInv, NEW b \in Buyers, pc[b] = "buy_commit", BuyWrites(b), ReleaseLocks(b),
           Goto(b, "idle"), tx' = [tx EXCEPT ![b] = NoTx],
           UNCHANGED <<lounge, clock>>, faults' \in 0 .. MaxFaults
    PROVE  IInv'
<1> USE DEF ReleaseLocks, Goto
<1> DEFINE p == tx[b].pot
           u == tx[b].user
           d == tx[b].day
           n == tx[b].count
<1>0. /\ TypeOK /\ b \in Workers /\ BuyInv(b) /\ TablesInv
      /\ clock \in Nat /\ clock' = clock
  BY PotAssumption DEF IInv, TypeOK, Workers
<1>a. p \in PotIds /\ u \in Users /\ n \in Counts /\ d \in Days
  BY <1>0 DEF BuyInv, BuyHoldsRow, TypeOK, Transactions
<1>b. /\ rowLock[p] = b /\ pots[p].status = "open" /\ chipLock[u] = b
      /\ tickets[p][u][d] + n <= MaxTicketsPerDay
  BY <1>0 DEF BuyInv, BuyHoldsRow
<1>c. n \in Nat /\ n > 0 /\ Price(b) \in Nat
  BY <1>a, PotAssumption DEF Counts, Price
<1>d. /\ tickets' = [tickets EXCEPT ![p][u][d] = @ + n]
      /\ balance' = [balance EXCEPT ![u] = @ - Price(b)]
      /\ paidIn' = [paidIn EXCEPT ![p][u] = @ + Price(b)]
      /\ pots' = pots /\ paidOut' = paidOut
  BY DEF BuyWrites
<1> HIDE DEF p, u, d, n
<1>e. tickets' \in [PotIds -> [Users -> [Days -> Nat]]]
  BY <1>0, <1>a, <1>c, <1>d DEF TypeOK
<1>1. TypeOK'
  <2>1. balance' \in [Users -> Int] /\ paidIn' \in [PotIds -> [Users -> Nat]]
    BY <1>0, <1>a, <1>c, <1>d DEF TypeOK
  <2>2. pc' \in [Workers -> BuyLabels \cup SweepLabels] /\ tx' \in [Workers -> Transactions]
    BY <1>0, NoTxType DEF TypeOK, BuyLabels
  <2> QED BY <1>0, <1>d, <1>e, <2>1, <2>2 DEF TypeOK
<1>2. \A v \in Workers \ {b} : pc'[v] = pc[v] /\ tx'[v] = tx[v]
  BY <1>0 DEF TypeOK
<1>3. ASSUME NEW c \in Buyers PROVE BuyInv(c)'
  <2>1. CASE c = b
    BY <2>1, <1>0, IdleBuyer DEF TypeOK
  <2>2. CASE c # b
    <3>1. pc'[c] = pc[c] /\ tx'[c] = tx[c]
      BY <2>2, <1>2 DEF Workers
    <3>2. \A q \in PotIds : rowLock[q] = c => rowLock'[q] = c /\ tickets'[q] = tickets[q]
      BY <2>2, <1>0, <1>a, <1>b, <1>d DEF TypeOK
    <3>3. \A v \in Users : chipLock[v] = c => chipLock'[v] = c /\ balance'[v] = balance[v]
      BY <2>2, <1>0, <1>a, <1>b, <1>d DEF TypeOK
    <3> QED BY <3>1, <3>2, <3>3, <1>0, <1>d, BuyerFrame
  <2> QED BY <2>1, <2>2
<1>4. ASSUME NEW r \in Sweepers PROVE SweepInv(r)'
  <2>0. r # b /\ r \in Workers
    BY PotAssumption DEF Workers
  <2>1. pc'[r] = pc[r] /\ tx'[r] = tx[r]
    BY <2>0, <1>2
  <2>2. \A q \in PotIds : rowLock[q] = r => rowLock'[q] = r /\ tickets'[q] = tickets[q]
    BY <2>0, <1>0, <1>a, <1>b, <1>d DEF TypeOK
  <2>3. \A v \in Users : chipLock[v] = r => chipLock'[v] = r
    BY <2>0
  <2>4. \A q \in PotIds : Hat(tickets[q]) \subseteq Hat(tickets'[q])
    <3> SUFFICES ASSUME NEW q \in PotIds PROVE Hat(tickets[q]) \subseteq Hat(tickets'[q])
      OBVIOUS
    <3>1. \A v \in Users, e \in Days : tickets[q][v][e] <= tickets'[q][v][e]
      BY <1>0, <1>a, <1>c, <1>d DEF TypeOK
    <3> QED BY <1>0, <1>e, <3>1, HatMonotone DEF TypeOK
  <2>5. advisory = r => advisory' = r
    BY <2>0
  <2>6. \A q \in PotIds : Hat(tickets[q]) # {} => Hat(tickets'[q]) # {}
    BY <2>4
  <2> HIDE DEF ReleaseLocks, Goto
  <2> QED BY <2>1, <2>2, <2>3, <2>5, <2>6, <1>0, <1>d, SweeperFrame
<1>5. TablesInv'
  <2>1. OpenPots' = OpenPots
    BY <1>d DEF OpenPots
  <2>2. \A q \in PotIds : q # p => tickets'[q] = tickets[q]
    BY <1>0, <1>a, <1>d DEF TypeOK
  <2>3. \A q \in PotIds : PotInvOf(q)'
    BY <1>0, <1>b, <1>d, <2>2 DEF TablesInv, PotInvOf
  <2>4. DailyCapIsExact'
    BY <1>0, <1>a, <1>b, <1>d DEF TablesInv, DailyCapIsExact, TypeOK
  <2>5. PotPaysOnce'
    BY <1>0, <1>d DEF TablesInv, PotPaysOnce
  <2> QED BY <1>0, <1>d, <2>1, <2>3, <2>4, <2>5 DEF TablesInv
<1> QED BY <1>1, <1>3, <1>4, <1>5 DEF IInv

\* A freshly opened row is well typed, open and empty.
LEMMA OpenRowType ==
    ASSUME NEW now \in Nat
    PROVE  /\ OpenRow(NextDrawAt(now)) \in PotRows
           /\ OpenRow(NextDrawAt(now)).status = "open"
           /\ OpenRow(NextDrawAt(now)).draws_at = NextDrawAt(now)
           /\ OpenRow(NextDrawAt(now)).winner = None
           /\ OpenRow(NextDrawAt(now)).ticket_count = 0
           /\ OpenRow(NextDrawAt(now)).payout = 0
  BY NextDrawAtLater, NoRowType DEF OpenRow, NoRow, PotRows

\* payout_for yields a natural number of chips.
LEMMA PayoutType ==
    ASSUME NEW total \in Nat
    PROVE  PayoutFor(total * TicketPrice) \in Nat
<1>1. total * TicketPrice \in Nat
  BY PotAssumption
<1> QED BY <1>1 DEF PayoutFor

\* Opening the first pot keeps the invariant: no other replica can have opened
\* one since, for want of the advisory lock.
LEMMA OpenFirstInv ==
    ASSUME IInv, NEW s \in Sweepers, OpenFirst(s)
    PROVE  IInv'
<1> USE DEF ReleaseLocks, Goto
<1>0. /\ TypeOK /\ s \in Workers /\ SweepInv(s) /\ TablesInv /\ pc[s] = "open_first"
      /\ clock \in Nat /\ clock' = clock /\ tx[s].now \in Nat
  BY PotAssumption DEF IInv, TypeOK, Workers, OpenFirst, Transactions
<1>a. advisory = s /\ OpenPots = {}
  BY <1>0 DEF SweepInv, SettleHoldsAdvisory, SettleStatements
<1>b. PICK q \in FreshIds : pots' = [pots EXCEPT ![q] = OpenRow(NextDrawAt(tx[s].now))]
  BY DEF OpenFirst
<1>c. q \in PotIds /\ pots[q] = NoRow
  BY DEF FreshIds
<1>d. /\ tickets' = tickets /\ balance' = balance /\ paidIn' = paidIn /\ paidOut' = paidOut
      /\ ReleaseLocks(s) /\ Goto(s, "claim_begin") /\ tx' = [tx EXCEPT ![s] = NoTx]
      /\ lounge' = lounge /\ faults' = faults
  BY DEF OpenFirst
<1>e. pots' \in [PotIds -> PotRows]
  BY <1>0, <1>b, <1>c, OpenRowType DEF TypeOK
<1>f. /\ pots'[q] = OpenRow(NextDrawAt(tx[s].now)) /\ pots'[q].status = "open"
      /\ \A p \in PotIds : p # q => pots'[p] = pots[p]
  BY <1>0, <1>b, <1>c, OpenRowType DEF TypeOK
<1>1. TypeOK'
  <2>1. pc' \in [Workers -> BuyLabels \cup SweepLabels] /\ tx' \in [Workers -> Transactions]
    BY <1>0, <1>d, NoTxType DEF TypeOK, SweepLabels
  <2> QED BY <1>0, <1>d, <1>e, <2>1 DEF TypeOK
<1>2. \A v \in Workers \ {s} : pc'[v] = pc[v] /\ tx'[v] = tx[v]
  BY <1>0, <1>d DEF TypeOK
<1>3. ASSUME NEW c \in Buyers PROVE BuyInv(c)'
  <2>0. c # s /\ c \in Workers
    BY PotAssumption DEF Workers
  <2>1. pc'[c] = pc[c] /\ tx'[c] = tx[c]
    BY <2>0, <1>2
  <2>2. \A p \in PotIds : rowLock[p] = c /\ pots[p].status = "open" =>
            rowLock'[p] = c /\ pots'[p].status = pots[p].status
    BY <2>0, <1>a DEF OpenPots
  <2>3. \A u \in Users : chipLock[u] = c => chipLock'[u] = c
    BY <2>0, <1>d
  <2> HIDE DEF ReleaseLocks, Goto
  <2> QED BY <2>1, <2>2, <2>3, <1>0, <1>d, BuyerFrame
<1>4. ASSUME NEW r \in Sweepers PROVE SweepInv(r)'
  <2>1. CASE r = s
    <3>1. pc'[s] = "claim_begin" /\ tx'[s].now = 0
      BY <1>0, <1>d DEF TypeOK, NoTx
    <3> QED BY <2>1, <3>1, <1>0, UnlockedSweeper
  <2>2. CASE r # s
    <3>1. pc'[r] = pc[r] /\ tx'[r] = tx[r]
      BY <2>2, <1>2 DEF Workers
    <3>2. advisory # r
      BY <2>2, <1>a
    <3>3. \A u \in Users : chipLock[u] = r => chipLock'[u] = r
      BY <2>2, <1>d
    <3> HIDE DEF ReleaseLocks, Goto
    <3> QED BY <3>1, <3>2, <3>3, <1>0, <1>d, SweeperFrame
  <2> QED BY <2>1, <2>2
<1>5. TablesInv'
  <2>1. OpenPots' = {q}
    BY <1>a, <1>c, <1>f DEF OpenPots
  <2>2. \A p \in PotIds : PotInvOf(p)'
    BY <1>0, <1>b, <1>c, <1>d, <1>f, OpenRowType DEF TablesInv, PotInvOf
  <2>3. DailyCapIsExact'
    BY <1>0, <1>d DEF TablesInv, DailyCapIsExact
  <2>4. PotPaysOnce'
    BY <1>0, <1>c, <1>d, <1>f DEF TablesInv, PotPaysOnce, NoRow
  <2> QED BY <2>1, <2>2, <2>3, <2>4 DEF TablesInv
<1> QED BY <1>1, <1>3, <1>4, <1>5 DEF IInv

\* What COMMIT of a settlement writes keeps the invariant: the settled row, its
\* one successor and the winner's credit.
LEMMA SettleWritesInv ==
    ASSUME IInv, NEW s \in Sweepers, pc[s] = "settle_commit", SettleWrites(s), ReleaseLocks(s),
           NEW label \in {"claim_begin", "announce"}, Goto(s, label),
           NEW row \in Transactions, tx' = [tx EXCEPT ![s] = row], row.now = 0,
           label = "announce" => row.pot \in PotIds,
           UNCHANGED <<lounge, clock>>, faults' \in 0 .. MaxFaults
    PROVE  IInv'
<1> USE DEF ReleaseLocks, Goto
<1> DEFINE p == tx[s].pot
           u == tx[s].winner
<1>0. /\ TypeOK /\ s \in Workers /\ SweepInv(s) /\ TablesInv
      /\ tx[s] \in Transactions
      /\ clock \in Nat /\ clock' = clock
  BY PotAssumption DEF IInv, TypeOK, Workers
<1>a. /\ p \in PotIds /\ u \in Users \cup {None} /\ tx[s].now \in Nat
      /\ advisory = s /\ rowLock[p] = s /\ pots[p].status = "open" /\ pots[p] \in PotRows
      /\ tx[s].hat = Hat(tickets[p])
      /\ u # None => chipLock[u] = s
  <2>1. p \in PotIds /\ u \in Users \cup {None} /\ tx[s].now \in Nat
    BY <1>0 DEF SweepInv, SweepNamesPot, SettleHoldsRow, Transactions
  <2>2. pots[p] \in PotRows
    BY <1>0, <2>1 DEF TypeOK
  <2> QED BY <1>0, <2>1, <2>2
      DEF SweepInv, SettleHoldsAdvisory, SettleStatements, SettleHoldsRow, SettleHasHat
<1>b. TotalOf(s) \in Nat /\ TotalOf(s) = Cardinality(Hat(tickets[p])) /\ PayoutOf(s) \in Nat
  BY <1>0, <1>a, HatFinite, PayoutType DEF TypeOK, TotalOf, PayoutOf, TablesInv, DailyCapIsExact
<1>c. PICK q \in FreshIds :
          pots' = [pots EXCEPT ![p] = SettledRow(s), ![q] = OpenRow(NextDrawAt(tx[s].now))]
  BY DEF SettleWrites
<1>d. q \in PotIds /\ pots[q] = NoRow /\ q # p
  BY <1>a DEF FreshIds, NoRow
<1>e. /\ balance' = IF u = None THEN balance ELSE [balance EXCEPT ![u] = @ + PayoutOf(s)]
      /\ paidOut' = IF u = None THEN paidOut ELSE [paidOut EXCEPT ![p][u] = @ + PayoutOf(s)]
      /\ tickets' = tickets /\ paidIn' = paidIn
  BY DEF SettleWrites
<1>f. /\ SettledRow(s) \in PotRows
      /\ SettledRow(s).status = IF u = None THEN "rolled" ELSE "drawn"
      /\ SettledRow(s).winner = u
      /\ SettledRow(s).ticket_count = TotalOf(s)
  <2> DEFINE st  == IF u = None THEN "rolled" ELSE "drawn"
             pay == IF u = None THEN 0 ELSE PayoutOf(s)
             old == pots[p]
             n   == TotalOf(s)
             new == SettledRow(s)
  <2>1. st \in {"drawn", "rolled"} /\ pay \in Nat /\ n \in Nat
    BY <1>b
  <2>2. new = [old EXCEPT !.status = st, !.winner = u, !.ticket_count = n, !.payout = pay]
    BY DEF SettledRow
  <2>3. old \in PotRows /\ u \in Users \cup {None}
    BY <1>a
  <2> HIDE DEF st, pay, old, n, new, u
  <2>4. new \in PotRows /\ new.status = st /\ new.winner = u /\ new.ticket_count = n
    BY <2>1, <2>2, <2>3 DEF PotRows
  <2> QED BY <2>4 DEF st, n, new, u
<1> HIDE DEF p, u
<1>g. /\ pots'[p] = SettledRow(s) /\ pots'[q] = OpenRow(NextDrawAt(tx[s].now))
      /\ \A o \in PotIds : o \notin {p, q} => pots'[o] = pots[o]
      /\ pots' \in [PotIds -> PotRows]
  BY <1>0, <1>a, <1>c, <1>d, <1>f, OpenRowType DEF TypeOK
<1>h. OpenPots = {p}
  BY <1>0, <1>a DEF TablesInv, OpenPots
<1>1. TypeOK'
  <2>1. pc' \in [Workers -> BuyLabels \cup SweepLabels] /\ tx' \in [Workers -> Transactions]
    BY <1>0 DEF TypeOK, SweepLabels
  <2>2. balance' \in [Users -> Int]
    BY <1>0, <1>a, <1>b, <1>e DEF TypeOK
  <2>3. paidOut' \in [PotIds -> [Users -> Nat]]
    BY <1>0, <1>a, <1>b, <1>e DEF TypeOK
  <2> QED BY <1>0, <1>e, <1>g, <2>1, <2>2, <2>3 DEF TypeOK
<1>2. \A v \in Workers \ {s} : pc'[v] = pc[v] /\ tx'[v] = tx[v]
  BY <1>0 DEF TypeOK
<1>3. ASSUME NEW c \in Buyers PROVE BuyInv(c)'
  <2>0. c # s /\ c \in Workers
    BY PotAssumption DEF Workers
  <2>1. pc'[c] = pc[c] /\ tx'[c] = tx[c]
    BY <2>0, <1>2
  <2>2. \A o \in PotIds : ~(rowLock[o] = c /\ pots[o].status = "open")
    BY <2>0, <1>a, <1>h DEF OpenPots
  <2>3. \A v \in Users : chipLock[v] = c => chipLock'[v] = c /\ balance'[v] = balance[v]
    BY <2>0, <1>0, <1>a, <1>e DEF TypeOK
  <2> HIDE DEF ReleaseLocks, Goto
  <2> QED BY <2>1, <2>2, <2>3, <1>0, <1>e, BuyerFrame
<1>4. ASSUME NEW r \in Sweepers PROVE SweepInv(r)'
  <2>1. CASE r = s
    <3>1. pc'[s] = label /\ tx'[s] = row
      BY <1>0 DEF TypeOK
    <3> QED BY <2>1, <3>1, <1>0
        DEF SweepInv, SweepLabels, SettleHoldsAdvisory, SettleHoldsRow, SettleHasHat,
            SettleStatements, SweepNamesPot
  <2>2. CASE r # s
    <3>1. pc'[r] = pc[r] /\ tx'[r] = tx[r]
      BY <2>2, <1>2 DEF Workers
    <3>2. advisory # r
      BY <2>2, <1>a
    <3>3. \A v \in Users : chipLock[v] = r => chipLock'[v] = r
      BY <2>2
    <3> HIDE DEF ReleaseLocks, Goto
    <3> QED BY <3>1, <3>2, <3>3, <1>0, <1>e, SweeperFrame
  <2> QED BY <2>1, <2>2
<1>5. TablesInv'
  <2>0. pots'[p].status # "open" /\ pots'[q].status = "open"
    BY <1>a, <1>f, <1>g, OpenRowType
  <2>1. OpenPots' = {q}
    BY <1>a, <1>d, <1>g, <1>h, <2>0 DEF OpenPots
  <2>2. \A o \in PotIds : PotInvOf(o)'
    <3> SUFFICES ASSUME NEW o \in PotIds PROVE PotInvOf(o)'
      OBVIOUS
    <3>1. CASE o = p
      BY <3>1, <1>b, <1>e, <1>f, <1>g DEF PotInvOf
    <3>2. CASE o = q
      BY <3>2, <1>a, <1>g, OpenRowType DEF PotInvOf
    <3>3. CASE o \notin {p, q}
      BY <3>3, <1>0, <1>e, <1>g DEF TablesInv, PotInvOf
    <3> QED BY <3>1, <3>2, <3>3
  <2>3. DailyCapIsExact'
    BY <1>0, <1>e DEF TablesInv, DailyCapIsExact
  <2>4. PotPaysOnce'
    <3> SUFFICES ASSUME NEW o \in PotIds, NEW v \in Users
                 PROVE  paidOut'[o][v] = IF pots'[o].status = "drawn" /\ pots'[o].winner = v
                                         THEN PayoutFor(pots'[o].ticket_count * TicketPrice) ELSE 0
      BY DEF PotPaysOnce
    <3>0. paidOut[o][v] = IF pots[o].status = "drawn" /\ pots[o].winner = v
                          THEN PayoutFor(pots[o].ticket_count * TicketPrice) ELSE 0
      BY <1>0 DEF TablesInv, PotPaysOnce
    <3>1. CASE o = p
      <4>1. paidOut'[p][v] = IF u = v THEN PayoutOf(s) ELSE 0
        BY <3>0, <3>1, <1>0, <1>a, <1>b, <1>e, PotAssumption DEF TypeOK
      <4> QED BY <4>1, <3>1, <1>a, <1>f, <1>g, PotAssumption DEF PayoutOf
    <3>2. CASE o = q
      <4>1. paidOut'[q][v] = 0
        BY <3>0, <3>2, <1>0, <1>a, <1>d, <1>e DEF TypeOK, NoRow
      <4> QED BY <4>1, <3>2, <2>0
    <3>3. CASE o \notin {p, q}
      BY <3>0, <3>3, <1>0, <1>a, <1>e, <1>g DEF TypeOK
    <3> QED BY <3>1, <3>2, <3>3
  <2> QED BY <2>1, <2>2, <2>3, <2>4 DEF TablesInv
<1> QED BY <1>1, <1>3, <1>4, <1>5 DEF IInv

\* COMMIT of a buy keeps the invariant, acknowledged or not.
LEMMA BuyCommitInv ==
    ASSUME IInv, NEW b \in Buyers, BuyCommit(b) \/ BuyCommitUnacknowledged(b)
    PROVE  IInv'
<1>1. faults' \in 0 .. MaxFaults
  BY PotAssumption DEF IInv, TypeOK, BuyCommit, BuyCommitUnacknowledged
<1> QED BY <1>1, BuyWritesInv DEF BuyCommit, BuyCommitUnacknowledged

\* COMMIT of a settlement keeps the invariant, acknowledged or not.
LEMMA SettleCommitInv ==
    ASSUME IInv, NEW s \in Sweepers, SettleCommit(s) \/ SettleCommitUnacknowledged(s)
    PROVE  IInv'
<1>1. faults' \in 0 .. MaxFaults
  BY PotAssumption DEF IInv, TypeOK, SettleCommit, SettleCommitUnacknowledged
<1>2. tx[s].pot \in PotIds
  BY DEF IInv, SweepInv, SweepNamesPot, SettleHoldsRow, SettleCommit, SettleCommitUnacknowledged
<1> DEFINE row == [NoTx EXCEPT !.pot = tx[s].pot]
<1>3. row \in Transactions /\ row.now = 0 /\ row.pot \in PotIds /\ NoTx.now = 0
  BY <1>2, NoTxType DEF Transactions, NoTx
<1>4. CASE SettleCommit(s) /\ tx[s].winner # None
  <2>1. /\ pc[s] = "settle_commit" /\ SettleWrites(s) /\ ReleaseLocks(s) /\ Goto(s, "announce")
        /\ tx' = [tx EXCEPT ![s] = row] /\ UNCHANGED <<lounge, clock>>
    BY <1>4 DEF SettleCommit
  <2> QED BY <1>1, <1>3, <2>1, SettleWritesInv
<1>5. CASE SettleCommitUnacknowledged(s) \/ (SettleCommit(s) /\ tx[s].winner = None)
  <2>1. /\ pc[s] = "settle_commit" /\ SettleWrites(s) /\ ReleaseLocks(s) /\ Goto(s, "claim_begin")
        /\ tx' = [tx EXCEPT ![s] = NoTx] /\ UNCHANGED <<lounge, clock>>
    BY <1>5 DEF SettleCommit, SettleCommitUnacknowledged
  <2> QED BY <1>1, <1>3, <2>1, NoTxType, SettleWritesInv
<1> QED BY <1>4, <1>5

\* Every step of every replica keeps the invariant.
LEMMA NextInv == IInv /\ [Next]_vars => IInv'
<1> SUFFICES ASSUME IInv, [Next]_vars PROVE IInv'
  OBVIOUS
<1>1. ASSUME NEW b \in Buyers, BuyBegins(b) \/ BuyProgress(b) \/ BuyFault(b)
      PROVE  IInv'
  <2>1. CASE BuyBegins(b)
    BY <2>1, BuyBeginInv DEF BuyBegins
  <2>2. CASE BuyProgress(b)
    BY <2>2, BuySelectInv, BuyLockInv, BuyInsertInv, BuyDebitInv, BuyCommitInv DEF BuyProgress
  <2>3. CASE BuyFault(b)
    BY <2>3, BuyCommitInv, BuyFailInv DEF BuyFault
  <2> QED BY <1>1, <2>1, <2>2, <2>3
<1>2. ASSUME NEW s \in Sweepers, SweepProgress(s) \/ SweepFault(s)
      PROVE  IInv'
  <2>1. CASE \E ticket \in tx[s].hat : SettleDraw(s, ticket)
    BY <2>1, SettleDrawInv
  <2>2. CASE SettleBegin(s) \/ SettleAdvisory(s) \/ SettleSelect(s) \/ SettleLock(s)
             \/ SettleHolders(s) \/ SettleRoll(s) \/ SettleCommit(s) \/ OpenFirst(s)
    BY <2>2, SettleBeginInv, SettleAdvisoryInv, SettleSelectInv, SettleLockInv,
       SettleHoldersInv, SettleRollInv, SettleCommitInv, OpenFirstInv
  <2>3. CASE Announce(s) \/ ClaimBegin(s) \/ ClaimSearch(s) \/ ClaimUpdate(s) \/ ClaimPost(s)
    BY <2>3, AnnounceInv, ClaimBeginInv, ClaimSearchInv, ClaimUpdateInv, ClaimPostInv
  <2>4. CASE SweepFault(s)
    BY <2>4, SettleCommitInv, ClaimUnacknowledgedInv, SettleFailInv, CrashInv DEF SweepFault
  <2> QED BY <1>2, <2>1, <2>2, <2>3, <2>4 DEF SweepProgress
<1>3. ASSUME NEW u \in Users, NEW amount \in Spends, OtherDebit(u, amount)
      PROVE  IInv'
  BY <1>3, OtherDebitInv
<1>4. CASE Tick
  BY <1>4, TickInv
<1>5. CASE UNCHANGED vars
  <2> USE <1>5 DEF vars, tables, locks
  <2>0. clock \in Nat /\ clock' = clock
    BY PotAssumption DEF IInv, TypeOK
  <2>1. TypeOK'
    BY DEF IInv, TypeOK
  <2>2. ASSUME NEW b \in Buyers PROVE BuyInv(b)'
    BY <2>0, BuyerFrame
  <2>3. ASSUME NEW s \in Sweepers PROVE SweepInv(s)'
    BY <2>0, SweeperFrame
  <2>4. TablesInv'
    BY TablesFrame DEF IInv
  <2> QED BY <2>1, <2>2, <2>3, <2>4 DEF IInv
<1> QED BY <1>1, <1>2, <1>3, <1>4, <1>5 DEF Next

\* The inductive invariant holds of every reachable state, for any number of
\* replicas, buyers, accounts and faults, and any calendar, price and cap.
THEOREM Invariance == Spec => []IInv
  BY InitInv, NextInv, PTL DEF Spec

\* The variables keep their types: tables, locks, transactions and clock.
THEOREM TypeCorrect == Spec => []TypeOK
<1>1. IInv => TypeOK
  BY DEF IInv
<1> QED BY <1>1, Invariance, PTL

\* From the first sweep on exactly one pot is open, without help of the partial
\* unique index: no replica's INSERT INTO pots ever meets it.
THEOREM OneOpenPot == Spec => []ExactlyOneOpenPot
<1>1. IInv => ExactlyOneOpenPot
  <2> SUFFICES ASSUME IInv, \E p \in PotIds : pots[p] # NoRow
               PROVE  \E p \in PotIds : OpenPots = {p}
    BY DEF ExactlyOneOpenPot
  <2>1. PICK p \in OpenPots : TRUE
    BY DEF IInv, TablesInv
  <2>2. p \in PotIds /\ OpenPots = {p}
    BY DEF IInv, TablesInv, OpenPots
  <2> QED BY <2>2
<1> QED BY <1>1, Invariance, PTL

\* No interleaving of buys and midnights takes a player beyond the daily cap that
\* buy_in_tx enforces.
THEOREM DailyCap == Spec => []DailyCapIsExact
<1>1. IInv => DailyCapIsExact
  BY DEF IInv, TablesInv
<1> QED BY <1>1, Invariance, PTL

\* settle_due's ticket_count is the number of tickets sold: a buy that runs beside
\* a draw is either counted or refused.
THEOREM EveryTicketCounted == Spec => []SettledPotCountsEveryTicket
<1>1. IInv => SettledPotCountsEveryTicket
  BY DEF IInv, TablesInv, PotInvOf, SettledPotCountsEveryTicket, Settled
<1> QED BY <1>1, Invariance, PTL

\* A drawn pot pays its winner, once and exactly payout_for of what it took, and
\* no pot pays anybody else.
THEOREM PaysOnce == Spec => []PotPaysOnce
<1>1. IInv => PotPaysOnce
  BY DEF IInv, TablesInv
<1> QED BY <1>1, Invariance, PTL

\* No step rewrites a settled row: COMMIT of a settlement writes the row it holds
\* open and a fresh one, and the reminder stamps only an open row.
LEMMA SettledStaysStep ==
    ASSUME IInv, [Next]_vars, NEW p \in PotIds, Settled(p)
    PROVE  pots'[p] = pots[p]
<1>0. pots[p].status # "open" /\ pots[p] # NoRow /\ pots \in [PotIds -> PotRows]
  BY DEF Settled, NoRow, IInv, TypeOK
<1>1. ASSUME NEW b \in Buyers, BuyBegins(b) \/ BuyProgress(b) \/ BuyFault(b)
      PROVE  pots' = pots
  BY <1>1 DEF BuyBegins, BuyBegin, BuyProgress, BuySelect, BuyLock, BuyInsert, BuyDebit, BuyCommit,
              BuyFault, BuyCommitUnacknowledged, BuyFail, BuyWrites, RollbackTo, tables
<1>2. ASSUME NEW s \in Sweepers, SettleCommit(s) \/ SettleCommitUnacknowledged(s)
      PROVE  pots'[p] = pots[p]
  <2>1. tx[s].pot # p
    BY <1>0, <1>2 DEF IInv, SweepInv, SettleHoldsRow, SettleCommit, SettleCommitUnacknowledged
  <2>2. PICK q \in FreshIds :
            pots' = [pots EXCEPT ![tx[s].pot] = SettledRow(s), ![q] = OpenRow(NextDrawAt(tx[s].now))]
    BY <1>2 DEF SettleCommit, SettleCommitUnacknowledged, SettleWrites
  <2>3. q # p
    BY <1>0 DEF FreshIds
  <2> QED BY <1>0, <2>1, <2>2, <2>3
<1>3. ASSUME NEW s \in Sweepers, OpenFirst(s)
      PROVE  pots'[p] = pots[p]
  <2>1. PICK q \in FreshIds : pots' = [pots EXCEPT ![q] = OpenRow(NextDrawAt(tx[s].now))]
    BY <1>3 DEF OpenFirst
  <2>2. q # p
    BY <1>0 DEF FreshIds
  <2> QED BY <1>0, <2>1, <2>2
<1>4. ASSUME NEW s \in Sweepers, ClaimUpdate(s) \/ ClaimUnacknowledged(s)
      PROVE  pots'[p] = pots[p]
  BY <1>0, <1>4 DEF ClaimUpdate, ClaimUnacknowledged, Claimed, tables
<1>5. ASSUME NEW s \in Sweepers, SettleFail(s) \/ Crash(s)
      PROVE  pots' = pots
  BY <1>5 DEF SettleFail, Crash, RollbackTo, tables
<1>6. ASSUME NEW s \in Sweepers, SweepProgress(s),
             ~SettleCommit(s), ~OpenFirst(s), ~ClaimUpdate(s)
      PROVE  pots' = pots
  BY <1>6 DEF SweepProgress, SettleBegin, SettleAdvisory, SettleSelect, SettleLock, SettleHolders,
              SettleDraw, SettleRoll, Announce, ClaimBegin, ClaimSearch, ClaimPost, RollbackTo, tables
<1>7. ASSUME Tick \/ UNCHANGED vars \/ \E u \in Users, amount \in Spends : OtherDebit(u, amount)
      PROVE  pots' = pots
  BY <1>7 DEF Tick, OtherDebit, vars, tables
<1> QED BY <1>1, <1>2, <1>3, <1>4, <1>5, <1>6, <1>7 DEF Next, SweepFault

\* A settled pot is never rewritten or reopened.
THEOREM SettledRowsAreFinal == Spec => SettledIsFinal
<1>1. IInv /\ [Next]_vars => [\A p \in PotIds : Settled(p) => pots'[p] = pots[p]]_vars
  BY SettledStaysStep
<1> QED BY <1>1, Invariance, PTL DEF Spec, SettledIsFinal

\* The only step that charges for tickets is COMMIT of a buy, whose chip lock has
\* kept the balance its guard saw.
LEMMA FloorStep ==
    ASSUME IInv, [Next]_vars, NEW p \in PotIds, NEW u \in Users, paidIn'[p][u] > paidIn[p][u]
    PROVE  balance'[u] >= ChipFloor
<1>0. TypeOK /\ paidIn[p][u] \in Nat
  BY DEF IInv, TypeOK
<1>1. ASSUME NEW b \in Buyers, BuyCommit(b) \/ BuyCommitUnacknowledged(b)
      PROVE  balance'[u] >= ChipFloor
  <2>1. /\ BuyWrites(b) /\ BuyInv(b) /\ pc[b] = "buy_commit" /\ tx[b] \in Transactions
    BY <1>1 DEF IInv, TypeOK, Workers, BuyCommit, BuyCommitUnacknowledged
  <2>2. tx[b].user = u
    BY <1>0, <2>1 DEF BuyWrites, TypeOK
  <2>3. balance'[u] = balance[u] - tx[b].count * TicketPrice
    BY <1>0, <2>1, <2>2 DEF BuyWrites, Price, TypeOK
  <2> QED BY <2>1, <2>2, <2>3 DEF BuyInv
<1>2. ASSUME NEW b \in Buyers, BuyBegins(b) \/ BuyProgress(b) \/ BuyFault(b),
             ~BuyCommit(b), ~BuyCommitUnacknowledged(b)
      PROVE  paidIn' = paidIn
  BY <1>2 DEF BuyBegins, BuyBegin, BuyProgress, BuySelect, BuyLock, BuyInsert, BuyDebit,
              BuyFault, BuyFail, RollbackTo, tables
<1>3. ASSUME NEW s \in Sweepers, SweepProgress(s)
      PROVE  paidIn' = paidIn
  BY <1>3 DEF SweepProgress, SettleBegin, SettleAdvisory, SettleSelect, SettleLock, SettleHolders,
              SettleDraw, SettleRoll, SettleCommit, SettleWrites, OpenFirst, Announce, ClaimBegin, ClaimSearch,
              ClaimUpdate, ClaimPost, RollbackTo, tables
<1>4. ASSUME NEW s \in Sweepers, SweepFault(s)
      PROVE  paidIn' = paidIn
  BY <1>4 DEF SweepFault, SettleCommitUnacknowledged, SettleWrites, ClaimUnacknowledged, SettleFail,
              Crash, RollbackTo, tables
<1>5. ASSUME Tick \/ UNCHANGED vars \/ \E v \in Users, amount \in Spends : OtherDebit(v, amount)
      PROVE  paidIn' = paidIn
  BY <1>5 DEF Tick, OtherDebit, vars, tables
<1>6. ASSUME paidIn' = paidIn PROVE FALSE
  BY <1>0, <1>6
<1> QED BY <1>1, <1>2, <1>3, <1>4, <1>5, <1>6 DEF Next

\* A buy never takes its buyer below the chip floor.
THEOREM ChipFloorRespected == Spec => BuyRespectsChipFloor
<1>1. IInv /\ [Next]_vars =>
          [\A p \in PotIds, u \in Users : paidIn'[p][u] > paidIn[p][u] => balance'[u] >= ChipFloor]_vars
  BY FloorStep
<1> QED BY <1>1, Invariance, PTL DEF Spec, BuyRespectsChipFloor

-----------------------------------------------------------------------------
(* The order of draws and what the lounge hears of them *)

\* What changes `pots`: COMMIT of a settlement, the first pot, a reminder's stamp.
LEMMA PotsStep ==
    ASSUME [Next]_vars
    PROVE  \/ pots' = pots
           \/ \E s \in Sweepers : \/ SettleCommit(s) \/ SettleCommitUnacknowledged(s) \/ OpenFirst(s)
                                  \/ ClaimUpdate(s) \/ ClaimUnacknowledged(s)
<1>1. ASSUME NEW b \in Buyers, BuyBegins(b) \/ BuyProgress(b) \/ BuyFault(b)
      PROVE  pots' = pots
  BY <1>1 DEF BuyBegins, BuyBegin, BuyProgress, BuySelect, BuyLock, BuyInsert, BuyDebit, BuyCommit,
              BuyFault, BuyCommitUnacknowledged, BuyFail, BuyWrites, RollbackTo, tables
<1>2. ASSUME NEW s \in Sweepers, SettleFail(s) \/ Crash(s)
      PROVE  pots' = pots
  BY <1>2 DEF SettleFail, Crash, RollbackTo, tables
<1>3. ASSUME NEW s \in Sweepers, SweepProgress(s), ~SettleCommit(s), ~OpenFirst(s), ~ClaimUpdate(s)
      PROVE  pots' = pots
  BY <1>3 DEF SweepProgress, SettleBegin, SettleAdvisory, SettleSelect, SettleLock, SettleHolders,
              SettleDraw, SettleRoll, Announce, ClaimBegin, ClaimSearch, ClaimPost, RollbackTo, tables
<1>4. ASSUME Tick \/ UNCHANGED vars \/ \E u \in Users, amount \in Spends : OtherDebit(u, amount)
      PROVE  pots' = pots
  BY <1>4 DEF Tick, OtherDebit, vars, tables
<1> QED BY <1>1, <1>2, <1>3, <1>4 DEF Next, SweepFault

\* What COMMIT of a settlement makes of the rows: its pot settled, the first
\* unwritten row open, to be drawn after everything before it.
LEMMA SettledAndNext ==
    ASSUME IInv, NEW s \in Sweepers, SettleCommit(s) \/ SettleCommitUnacknowledged(s)
    PROVE  \E q \in FreshIds :
              /\ tx[s].pot \in PotIds /\ q \in PotIds /\ q # tx[s].pot
              /\ pots[tx[s].pot].status = "open" /\ pots[tx[s].pot] \in PotRows
              /\ pots[tx[s].pot].draws_at <= tx[s].now /\ tx[s].now \in Nat
              /\ pots' = [pots EXCEPT ![tx[s].pot] = SettledRow(s), ![q] = OpenRow(NextDrawAt(tx[s].now))]
              /\ pots'[tx[s].pot] = SettledRow(s) /\ pots'[q] = OpenRow(NextDrawAt(tx[s].now))
              /\ \A r \in PotIds : r # q /\ r # tx[s].pot => pots'[r] = pots[r]
              /\ SettledRow(s).draws_at = pots[tx[s].pot].draws_at
              /\ SettledRow(s).reminded = pots[tx[s].pot].reminded
              /\ SettledRow(s).status = IF tx[s].winner = None THEN "rolled" ELSE "drawn"
<1>0. /\ TypeOK /\ SweepInv(s) /\ pc[s] = "settle_commit" /\ SettleWrites(s) /\ s \in Workers
      /\ tx[s] \in Transactions
  BY DEF IInv, TypeOK, Workers, SettleCommit, SettleCommitUnacknowledged
<1>1. PICK q \in FreshIds :
          pots' = [pots EXCEPT ![tx[s].pot] = SettledRow(s), ![q] = OpenRow(NextDrawAt(tx[s].now))]
  BY <1>0 DEF SettleWrites
<1>2. /\ tx[s].pot \in PotIds /\ pots[tx[s].pot].status = "open"
      /\ pots[tx[s].pot].draws_at <= tx[s].now /\ tx[s].now \in Nat
  BY <1>0 DEF SweepInv, SweepNamesPot, SettleHoldsRow, Transactions
<1>3. q \in PotIds /\ q # tx[s].pot /\ pots[tx[s].pot] \in PotRows
  BY <1>0, <1>2 DEF FreshIds, NoRow, TypeOK
<1>4. /\ SettledRow(s).draws_at = pots[tx[s].pot].draws_at
      /\ SettledRow(s).reminded = pots[tx[s].pot].reminded
      /\ SettledRow(s).status = IF tx[s].winner = None THEN "rolled" ELSE "drawn"
  BY <1>3 DEF SettledRow, PotRows
<1>5. /\ pots'[tx[s].pot] = SettledRow(s) /\ pots'[q] = OpenRow(NextDrawAt(tx[s].now))
      /\ \A r \in PotIds : r # q /\ r # tx[s].pot => pots'[r] = pots[r]
  <2> HIDE DEF SettledRow, OpenRow
  <2> QED BY <1>0, <1>1, <1>2, <1>3 DEF TypeOK
<1> QED BY <1>1, <1>2, <1>3, <1>4, <1>5

\* What a reminder's stamp makes of the rows.
LEMMA StampedRows ==
    ASSUME IInv, NEW s \in Sweepers, ClaimUpdate(s) \/ ClaimUnacknowledged(s)
    PROVE  \/ pots' = pots
           \/ /\ tx[s].pot \in PotIds /\ pots[tx[s].pot].status = "open" /\ ~pots[tx[s].pot].reminded
              /\ pots'[tx[s].pot].reminded
              /\ \A r \in PotIds : /\ pots'[r].status = pots[r].status
                                   /\ pots'[r].draws_at = pots[r].draws_at
                                   /\ r # tx[s].pot => pots'[r] = pots[r]
<1>0. TypeOK /\ SweepInv(s) /\ pc[s] = "claim_update"
  BY DEF IInv, ClaimUpdate, ClaimUnacknowledged
<1>1. tx[s].pot \in PotIds /\ pots[tx[s].pot] \in PotRows
  BY <1>0 DEF SweepInv, SweepNamesPot, TypeOK
<1>2. CASE Claimed(s) /\ pots' = [pots EXCEPT ![tx[s].pot].reminded = TRUE]
  BY <1>0, <1>1, <1>2 DEF TypeOK, Claimed, PotRows
<1>3. CASE pots' = pots
  BY <1>3
<1> QED BY <1>2, <1>3 DEF ClaimUpdate, ClaimUnacknowledged, tables

\* Draw hours go up from row to row.
LEMMA RowsFollowStep ==
    ASSUME IInv, RowsFollow, [Next]_vars
    PROVE  RowsFollow'
<1>0. TypeOK /\ TablesInv /\ PotIds \subseteq Nat
  BY DEF IInv, PotIds
<1>n. \A p \in PotIds : pots[p].status = "none" => pots[p] = NoRow
  BY <1>0 DEF TablesInv, PotInvOf
<1>1. CASE pots' = pots
  BY <1>1 DEF RowsFollow
<1>2. ASSUME NEW s \in Sweepers, SettleCommit(s) \/ SettleCommitUnacknowledged(s)
      PROVE  RowsFollow'
  <2> DEFINE o == tx[s].pot
  <2>1. PICK q \in FreshIds :
              /\ o \in PotIds /\ q \in PotIds /\ q # o
              /\ pots[o].status = "open" /\ pots[o] \in PotRows
              /\ pots[o].draws_at <= tx[s].now /\ tx[s].now \in Nat
              /\ pots'[o] = SettledRow(s) /\ pots'[q] = OpenRow(NextDrawAt(tx[s].now))
              /\ \A r \in PotIds : r # q /\ r # o => pots'[r] = pots[r]
              /\ SettledRow(s).draws_at = pots[o].draws_at
              /\ SettledRow(s).status = IF tx[s].winner = None THEN "rolled" ELSE "drawn"
    BY <1>2, SettledAndNext
  <2> HIDE DEF o
  <2>2. pots[q] = NoRow /\ \A r \in 1 .. q - 1 : pots[r] # NoRow
    BY DEF FreshIds
  <2>3. \A r \in PotIds : r < q => r \in 1 .. q - 1
    BY <2>1 DEF PotIds
  <2>4. \A r \in PotIds : q < r => pots[r] = NoRow
    BY <2>1, <2>2 DEF RowsFollow
  <2>5. \A r \in PotIds : o < r => pots[r] = NoRow
    BY <2>1 DEF RowsFollow
  <2>6. \A r \in PotIds : r # o => pots[r].status # "open"
    BY <1>0, <2>1 DEF TablesInv, OpenPots
  <2>7. o < q /\ \A r \in PotIds : r < q /\ r # o => r < o
    <3>1. pots[o] # NoRow
      BY <2>1 DEF NoRow
    <3>2. o < q
      BY <1>0, <2>1, <2>4, <3>1
    <3>3. \A r \in PotIds : r < q /\ r # o => r < o
      BY <1>0, <2>1, <2>2, <2>3, <2>5
    <3> QED BY <3>2, <3>3
  <2>8. /\ OpenRow(NextDrawAt(tx[s].now)).draws_at = NextDrawAt(tx[s].now)
        /\ NextDrawAt(tx[s].now) \in Nat /\ NextDrawAt(tx[s].now) > tx[s].now
        /\ pots[o].draws_at \in Nat
    BY <2>1, NextDrawAtLater DEF OpenRow, NoRow, PotRows
  <2>9. pots'[o] # NoRow /\ pots'[o].status # "open" /\ pots'[o].draws_at = pots[o].draws_at
    BY <2>1 DEF NoRow
  <2> SUFFICES ASSUME NEW p \in PotIds, NEW r \in PotIds, p < r, pots'[r] # NoRow
               PROVE  pots'[p] # NoRow /\ pots'[p].status # "open" /\ pots'[p].draws_at < pots'[r].draws_at
    BY DEF RowsFollow
  <2>10. CASE r = q
    <3>1. CASE p = o
      BY <2>1, <2>8, <2>9, <2>10, <3>1
    <3>2. CASE p # o
      <4>1. p < o /\ pots'[p] = pots[p] /\ pots[p] # NoRow /\ pots[p].status # "open"
        BY <1>0, <2>1, <2>2, <2>3, <2>6, <2>7, <2>10, <3>2
      <4>2. pots[p].draws_at < pots[o].draws_at /\ pots[p].draws_at \in Nat
        BY <1>0, <2>1, <4>1 DEF RowsFollow, NoRow, TypeOK, PotRows
      <4> QED BY <2>1, <2>8, <2>10, <4>1, <4>2
    <3> QED BY <3>1, <3>2
  <2>11. CASE r # q
    <3>1. r < q /\ p # q
      <4>1. ~(q < r)
        BY <1>0, <2>1, <2>4, <2>7, <2>11
      <4> QED BY <1>0, <2>1, <2>11, <4>1
    <3>2. pots[r] # NoRow /\ pots'[r].draws_at = pots[r].draws_at
      BY <2>1, <2>9, <2>11 DEF NoRow
    <3>3. pots[p] # NoRow /\ pots[p].status # "open" /\ pots[p].draws_at < pots[r].draws_at
      BY <3>2 DEF RowsFollow
    <3>4. pots'[p] = pots[p]
      BY <2>1, <3>1, <3>3
    <3> QED BY <3>2, <3>3, <3>4
  <2> QED BY <2>10, <2>11
<1>3. ASSUME NEW s \in Sweepers, OpenFirst(s)
      PROVE  RowsFollow'
  <2>1. PICK q \in FreshIds : pots' = [pots EXCEPT ![q] = OpenRow(NextDrawAt(tx[s].now))]
    BY <1>3 DEF OpenFirst
  <2>2. \A p \in PotIds : pots[p] = NoRow
    <3>1. OpenPots = {}
      BY <1>3 DEF OpenFirst, IInv, SweepInv
    <3> QED BY <1>0, <3>1 DEF TablesInv
  <2>3. q \in PotIds /\ \A r \in 1 .. q - 1 : pots[r] # NoRow
    BY <2>1 DEF FreshIds
  <2>4. \A p \in PotIds : ~(p < q)
    BY <2>2, <2>3 DEF PotIds
  <2>5. \A p \in PotIds : p # q => pots'[p] = NoRow
    BY <1>0, <2>1, <2>2 DEF TypeOK
  <2> QED BY <2>4, <2>5 DEF RowsFollow
<1>4. ASSUME NEW s \in Sweepers, ClaimUpdate(s) \/ ClaimUnacknowledged(s), pots' # pots
      PROVE  RowsFollow'
  <2>1. /\ pots[tx[s].pot].status = "open" /\ tx[s].pot \in PotIds
        /\ \A r \in PotIds : /\ pots'[r].status = pots[r].status
                             /\ pots'[r].draws_at = pots[r].draws_at
                             /\ r # tx[s].pot => pots'[r] = pots[r]
    BY <1>4, StampedRows
  <2>2. \A r \in PotIds : (pots'[r] = NoRow) <=> (pots[r] = NoRow)
    BY <2>1 DEF NoRow
  <2> QED BY <2>1, <2>2 DEF RowsFollow
<1> QED BY <1>1, <1>2, <1>3, <1>4, PotsStep

\* Nothing drawn or reminded is undone, so who tells nothing new leaves the lines
\* as they are.
LEMMA LinesFrame ==
    ASSUME IInv, OrderInv, RowsFollow', lounge' = lounge,
           \A p \in PotIds : /\ pots[p].status = "drawn" => pots'[p].status = "drawn"
                             /\ pots[p].reminded => pots'[p].reminded,
           \A s \in Sweepers : pc'[s] \in {"announce", "claim_post"} => pc'[s] = pc[s] /\ tx'[s] = tx[s]
    PROVE  OrderInv'
<1>1. \A p \in PotIds : PotLines(p)'
  BY DEF OrderInv, PotLines
<1>2. \A s \in Sweepers : pc[s] \in {"announce", "claim_post"} => tx[s].pot \in PotIds
  BY DEF IInv, SweepInv, SweepNamesPot
<1>3. \A s \in Sweepers : TellsOnce(s)'
  BY <1>2 DEF OrderInv, TellsOnce
<1>4. TellersDiffer'
  BY DEF OrderInv, TellersDiffer
<1> QED BY <1>1, <1>3, <1>4 DEF OrderInv

\* What is drawn stays drawn and what is reminded stays so.
LEMMA ToldStaysTrue ==
    ASSUME IInv, [Next]_vars, NEW p \in PotIds
    PROVE  /\ pots[p].status = "drawn" => pots'[p].status = "drawn"
           /\ pots[p].reminded => pots'[p].reminded
<1>1. pots[p].status = "drawn" => pots'[p].status = "drawn"
  BY SettledStaysStep DEF Settled
<1>2. ASSUME pots[p].reminded PROVE pots'[p].reminded
  <2>1. CASE pots' = pots
    BY <1>2, <2>1
  <2>2. ASSUME NEW s \in Sweepers, SettleCommit(s) \/ SettleCommitUnacknowledged(s)
        PROVE  pots'[p].reminded
    <3>1. PICK q \in FreshIds :
              /\ pots'[tx[s].pot] = SettledRow(s)
              /\ \A r \in PotIds : r # q /\ r # tx[s].pot => pots'[r] = pots[r]
              /\ SettledRow(s).reminded = pots[tx[s].pot].reminded
      BY <2>2, SettledAndNext
    <3>2. p # q
      BY <1>2 DEF FreshIds, NoRow
    <3> QED BY <1>2, <3>1, <3>2
  <2>3. ASSUME NEW s \in Sweepers, OpenFirst(s)
        PROVE  pots'[p].reminded
    <3>1. PICK q \in FreshIds : pots' = [pots EXCEPT ![q] = OpenRow(NextDrawAt(tx[s].now))]
      BY <2>3 DEF OpenFirst
    <3>2. p # q
      BY <1>2 DEF FreshIds, NoRow
    <3> QED BY <1>2, <3>1, <3>2 DEF IInv, TypeOK
  <2>4. ASSUME NEW s \in Sweepers, ClaimUpdate(s) \/ ClaimUnacknowledged(s), pots' # pots
        PROVE  pots'[p].reminded
    BY <1>2, <2>4, StampedRows
  <2> QED BY <2>1, <2>2, <2>3, <2>4, PotsStep
<1> QED BY <1>1, <1>2

\* A step in which worker w goes to a statement that posts no line.
LEMMA QuietStep ==
    ASSUME IInv, OrderInv, [Next]_vars, lounge' = lounge, NEW w \in Workers,
           \A v \in Workers \ {w} : pc'[v] = pc[v] /\ tx'[v] = tx[v],
           pc'[w] \notin {"announce", "claim_post"}
    PROVE  OrderInv'
<1>1. RowsFollow'
  BY RowsFollowStep DEF OrderInv
<1>2. \A s \in Sweepers : pc'[s] \in {"announce", "claim_post"} => pc'[s] = pc[s] /\ tx'[s] = tx[s]
  BY DEF Workers
<1> QED BY <1>1, <1>2, ToldStaysTrue, LinesFrame

\* A buy's step posts no line.
LEMMA BuyIsQuiet ==
    ASSUME IInv, OrderInv, [Next]_vars, NEW b \in Buyers, BuyBegins(b) \/ BuyProgress(b) \/ BuyFault(b)
    PROVE  OrderInv'
<1>0. b \in Workers /\ pc \in [Workers -> BuyLabels \cup SweepLabels] /\ tx \in [Workers -> Transactions]
  BY DEF IInv, TypeOK, Workers
<1>1. lounge' = lounge
  BY DEF BuyBegins, BuyBegin, BuyProgress, BuySelect, BuyLock, BuyInsert, BuyDebit, BuyCommit,
         BuyFault, BuyCommitUnacknowledged, BuyFail
<1>2. \E label \in BuyLabels : pc' = [pc EXCEPT ![b] = label]
  BY DEF BuyBegins, BuyBegin, BuyProgress, BuySelect, BuyLock, BuyInsert, BuyDebit, BuyCommit,
         BuyFault, BuyCommitUnacknowledged, BuyFail, RollbackTo, Goto, BuyLabels
<1>3. tx' = tx \/ \E t : tx' = [tx EXCEPT ![b] = t]
  BY DEF BuyBegins, BuyBegin, BuyProgress, BuySelect, BuyLock, BuyInsert, BuyDebit, BuyCommit,
         BuyFault, BuyCommitUnacknowledged, BuyFail, RollbackTo
<1>4. \A v \in Workers \ {b} : pc'[v] = pc[v] /\ tx'[v] = tx[v]
  BY <1>0, <1>2, <1>3
<1>5. pc'[b] \notin {"announce", "claim_post"}
  BY <1>0, <1>2 DEF BuyLabels
<1> QED BY <1>0, <1>1, <1>4, <1>5, QuietStep

\* So do most steps of a sweep.
LEMMA SweepIsQuiet ==
    ASSUME IInv, OrderInv, [Next]_vars, NEW s \in Sweepers, SweepProgress(s) \/ SweepFault(s),
           ~SettleCommit(s), ~Announce(s), ~ClaimUpdate(s), ~ClaimPost(s)
    PROVE  OrderInv'
<1>0. s \in Workers /\ pc \in [Workers -> BuyLabels \cup SweepLabels] /\ tx \in [Workers -> Transactions]
  BY DEF IInv, TypeOK, Workers
<1> USE DEF SweepProgress, SettleBegin, SettleAdvisory, SettleSelect, SettleLock, SettleHolders,
        SettleDraw, SettleRoll, OpenFirst, ClaimBegin, ClaimSearch, SweepFault, SettleCommitUnacknowledged,
        ClaimUnacknowledged, SettleFail, Crash, RollbackTo
<1>1. lounge' = lounge
  OBVIOUS
<1>2. \E label \in SweepLabels \ {"announce", "claim_post"} : pc' = [pc EXCEPT ![s] = label]
  BY DEF Goto, SweepLabels, SettleStatements
<1>3. tx' = tx \/ \E t : tx' = [tx EXCEPT ![s] = t]
  OBVIOUS
<1>4. \A v \in Workers \ {s} : pc'[v] = pc[v] /\ tx'[v] = tx[v]
  BY <1>0, <1>2, <1>3
<1>5. pc'[s] \notin {"announce", "claim_post"}
  BY <1>0, <1>2
<1> HIDE DEF SweepProgress, SettleBegin, SettleAdvisory, SettleSelect, SettleLock, SettleHolders,
        SettleDraw, SettleRoll, OpenFirst, ClaimBegin, ClaimSearch, SweepFault, SettleCommitUnacknowledged,
        ClaimUnacknowledged, SettleFail, Crash, RollbackTo
<1> QED BY <1>0, <1>1, <1>4, <1>5, QuietStep

\* COMMIT of a drawn pot makes this sweep the one that announces it.
LEMMA SettleCommitTells ==
    ASSUME IInv, OrderInv, [Next]_vars, NEW s \in Sweepers, SettleCommit(s)
    PROVE  OrderInv'
<1>0. /\ s \in Workers /\ pc \in [Workers -> BuyLabels \cup SweepLabels] /\ tx \in [Workers -> Transactions]
      /\ lounge' = lounge
  BY DEF IInv, TypeOK, Workers, SettleCommit
<1>1. CASE tx[s].winner = None
  <2>1. pc' = [pc EXCEPT ![s] = "claim_begin"] /\ tx' = [tx EXCEPT ![s] = NoTx]
    BY <1>1 DEF SettleCommit, Goto
  <2>2. \A v \in Workers \ {s} : pc'[v] = pc[v] /\ tx'[v] = tx[v]
    BY <1>0, <2>1
  <2>3. pc'[s] \notin {"announce", "claim_post"}
    BY <1>0, <2>1
  <2> QED BY <1>0, <2>2, <2>3, QuietStep
<1>2. CASE tx[s].winner # None
  <2> DEFINE o == tx[s].pot
  <2>1. pc' = [pc EXCEPT ![s] = "announce"] /\ tx' = [tx EXCEPT ![s] = [NoTx EXCEPT !.pot = o]]
    BY <1>2 DEF SettleCommit, Goto
  <2>2. \A v \in Workers \ {s} : pc'[v] = pc[v] /\ tx'[v] = tx[v]
    BY <1>0, <2>1
  <2>3. pc'[s] = "announce" /\ tx'[s].pot = o
    BY <1>0, <2>1 DEF NoTx
  <2>4. /\ o \in PotIds /\ pots[o].status = "open" /\ pots'[o].status = "drawn"
    BY <1>2, SettledAndNext
  <2>5. lounge["drawn"][o] = 0
    BY <2>4 DEF OrderInv, PotLines
  <2>6. RowsFollow'
    BY RowsFollowStep DEF OrderInv
  <2>7. \A p \in PotIds : PotLines(p)'
    BY <1>0, ToldStaysTrue DEF OrderInv, PotLines
  <2>8. ASSUME NEW r \in Sweepers PROVE TellsOnce(r)'
    <3>1. CASE r = s
      BY <1>0, <2>3, <2>4, <2>5, <3>1 DEF TellsOnce
    <3>2. CASE r # s
      <4>1. pc'[r] = pc[r] /\ tx'[r] = tx[r]
        BY <2>2, <3>2 DEF Workers
      <4>2. pc[r] \in {"announce", "claim_post"} => tx[r].pot \in PotIds
        BY DEF IInv, SweepInv, SweepNamesPot
      <4> QED BY <1>0, <4>1, <4>2, ToldStaysTrue DEF OrderInv, TellsOnce
    <3> QED BY <3>1, <3>2
  <2>9. ASSUME NEW r \in Sweepers, r # s, pc'[r] = "announce"
        PROVE  tx'[r].pot # o
    <3>1. pc'[r] = pc[r] /\ tx'[r] = tx[r]
      BY <2>2, <2>9 DEF Workers
    <3> QED BY <2>4, <2>9, <3>1 DEF OrderInv, TellsOnce
  <2>10. TellersDiffer'
    <3> SUFFICES ASSUME NEW r1 \in Sweepers, NEW r2 \in Sweepers, r1 # r2, pc'[r1] = pc'[r2],
                        pc'[r1] \in {"announce", "claim_post"}
                 PROVE  tx'[r1].pot # tx'[r2].pot
      BY DEF TellersDiffer
    <3>1. CASE r1 # s /\ r2 # s
      BY <2>2, <3>1 DEF OrderInv, TellersDiffer, Workers
    <3>2. CASE r1 = s
      BY <2>3, <2>9, <3>2
    <3>3. CASE r2 = s
      BY <2>3, <2>9, <3>3
    <3> QED BY <3>1, <3>2, <3>3
  <2> QED BY <2>6, <2>7, <2>8, <2>10 DEF OrderInv
<1> QED BY <1>1, <1>2

\* The stamp makes this sweep the one that posts the last call.
LEMMA ClaimUpdateTells ==
    ASSUME IInv, OrderInv, [Next]_vars, NEW s \in Sweepers, ClaimUpdate(s)
    PROVE  OrderInv'
<1>0. /\ s \in Workers /\ pc \in [Workers -> BuyLabels \cup SweepLabels] /\ tx \in [Workers -> Transactions]
      /\ lounge' = lounge /\ tx[s].pot \in PotIds /\ pots[tx[s].pot] \in PotRows
      /\ pots \in [PotIds -> PotRows]
  BY DEF IInv, TypeOK, Workers, ClaimUpdate, SweepInv, SweepNamesPot
<1>1. CASE ~Claimed(s)
  <2>1. pc' = [pc EXCEPT ![s] = "idle"] /\ tx' = [tx EXCEPT ![s] = NoTx]
    BY <1>1 DEF ClaimUpdate, Goto
  <2>2. \A v \in Workers \ {s} : pc'[v] = pc[v] /\ tx'[v] = tx[v]
    BY <1>0, <2>1
  <2>3. pc'[s] \notin {"announce", "claim_post"}
    BY <1>0, <2>1
  <2> QED BY <1>0, <2>2, <2>3, QuietStep
<1>2. CASE Claimed(s)
  <2> DEFINE o == tx[s].pot
  <2>1. pc' = [pc EXCEPT ![s] = "claim_post"] /\ tx' = tx
    BY <1>2 DEF ClaimUpdate, Goto
  <2>2. \A v \in Workers \ {s} : pc'[v] = pc[v] /\ tx'[v] = tx[v]
    BY <1>0, <2>1
  <2>3. pc'[s] = "claim_post" /\ tx'[s].pot = o
    BY <1>0, <2>1
  <2>4. ~pots[o].reminded /\ pots'[o].reminded
    BY <1>0, <1>2 DEF ClaimUpdate, Claimed, PotRows
  <2>5. lounge["closing"][o] = 0
    BY <1>0, <2>4 DEF OrderInv, PotLines
  <2>6. RowsFollow'
    BY RowsFollowStep DEF OrderInv
  <2>7. \A p \in PotIds : PotLines(p)'
    BY <1>0, ToldStaysTrue DEF OrderInv, PotLines
  <2>8. ASSUME NEW r \in Sweepers PROVE TellsOnce(r)'
    <3>1. CASE r = s
      BY <1>0, <2>3, <2>4, <2>5, <3>1 DEF TellsOnce
    <3>2. CASE r # s
      <4>1. pc'[r] = pc[r] /\ tx'[r] = tx[r]
        BY <2>2, <3>2 DEF Workers
      <4>2. pc[r] \in {"announce", "claim_post"} => tx[r].pot \in PotIds
        BY DEF IInv, SweepInv, SweepNamesPot
      <4> QED BY <1>0, <4>1, <4>2, ToldStaysTrue DEF OrderInv, TellsOnce
    <3> QED BY <3>1, <3>2
  <2>9. ASSUME NEW r \in Sweepers, r # s, pc'[r] = "claim_post"
        PROVE  tx'[r].pot # o
    <3>1. pc'[r] = pc[r] /\ tx'[r] = tx[r]
      BY <2>2, <2>9 DEF Workers
    <3> QED BY <2>4, <2>9, <3>1 DEF OrderInv, TellsOnce
  <2>10. TellersDiffer'
    <3> SUFFICES ASSUME NEW r1 \in Sweepers, NEW r2 \in Sweepers, r1 # r2, pc'[r1] = pc'[r2],
                        pc'[r1] \in {"announce", "claim_post"}
                 PROVE  tx'[r1].pot # tx'[r2].pot
      BY DEF TellersDiffer
    <3>1. CASE r1 # s /\ r2 # s
      BY <2>2, <3>1 DEF OrderInv, TellersDiffer, Workers
    <3>2. CASE r1 = s
      BY <2>3, <2>9, <3>2
    <3>3. CASE r2 = s
      BY <2>3, <2>9, <3>3
    <3> QED BY <3>1, <3>2, <3>3
  <2> QED BY <2>6, <2>7, <2>8, <2>10 DEF OrderInv
<1> QED BY <1>1, <1>2

\* The line is posted by the only sweep that had it to post.
LEMMA PostingTellsOnce ==
    ASSUME IInv, OrderInv, [Next]_vars, NEW s \in Sweepers, Announce(s) \/ ClaimPost(s)
    PROVE  OrderInv'
<1>0. /\ s \in Workers /\ pc \in [Workers -> BuyLabels \cup SweepLabels] /\ tx \in [Workers -> Transactions]
      /\ tx[s].pot \in PotIds /\ lounge \in [{"drawn", "closing"} -> [PotIds -> Nat]] /\ pots' = pots
  BY DEF IInv, TypeOK, Workers, Announce, ClaimPost, SweepInv, SweepNamesPot, tables
<1> DEFINE o == tx[s].pot
<1>1. RowsFollow'
  BY RowsFollowStep DEF OrderInv
<1>2. /\ \A v \in Workers \ {s} : pc'[v] = pc[v] /\ tx'[v] = tx[v]
      /\ pc'[s] \notin {"announce", "claim_post"}
  BY <1>0 DEF Announce, ClaimPost, Goto
<1>3. TellersDiffer'
  BY <1>2 DEF OrderInv, TellersDiffer, Workers
<1>4. CASE Announce(s)
  <2>1. pc[s] = "announce" /\ pots[o].status = "drawn" /\ lounge["drawn"][o] = 0
    BY <1>4 DEF Announce, OrderInv, TellsOnce
  <2>2. /\ lounge'["drawn"][o] = 1 /\ lounge'["closing"] = lounge["closing"]
        /\ \A p \in PotIds : p # o => lounge'["drawn"][p] = lounge["drawn"][p]
    BY <1>0, <1>4, <2>1 DEF Announce
  <2>3. \A p \in PotIds : PotLines(p)'
    BY <1>0, <2>1, <2>2 DEF OrderInv, PotLines
  <2>4. ASSUME NEW r \in Sweepers PROVE TellsOnce(r)'
    <3>1. CASE r = s
      BY <1>2, <3>1 DEF TellsOnce
    <3>2. CASE r # s
      <4>1. pc'[r] = pc[r] /\ tx'[r] = tx[r]
        BY <1>2, <3>2 DEF Workers
      <4>2. pc[r] = "announce" => tx[r].pot \in PotIds /\ tx[r].pot # o
        BY <2>1, <3>2 DEF IInv, SweepInv, SweepNamesPot, OrderInv, TellersDiffer
      <4> QED BY <1>0, <2>2, <4>1, <4>2 DEF OrderInv, TellsOnce
    <3> QED BY <3>1, <3>2
  <2> QED BY <1>1, <1>3, <2>3, <2>4 DEF OrderInv
<1>5. CASE ClaimPost(s)
  <2>1. pc[s] = "claim_post" /\ pots[o].reminded /\ lounge["closing"][o] = 0
    BY <1>5 DEF ClaimPost, OrderInv, TellsOnce
  <2>2. /\ lounge'["closing"][o] = 1 /\ lounge'["drawn"] = lounge["drawn"]
        /\ \A p \in PotIds : p # o => lounge'["closing"][p] = lounge["closing"][p]
    BY <1>0, <1>5, <2>1 DEF ClaimPost
  <2>3. \A p \in PotIds : PotLines(p)'
    BY <1>0, <2>1, <2>2 DEF OrderInv, PotLines
  <2>4. ASSUME NEW r \in Sweepers PROVE TellsOnce(r)'
    <3>1. CASE r = s
      BY <1>2, <3>1 DEF TellsOnce
    <3>2. CASE r # s
      <4>1. pc'[r] = pc[r] /\ tx'[r] = tx[r]
        BY <1>2, <3>2 DEF Workers
      <4>2. pc[r] = "claim_post" => tx[r].pot \in PotIds /\ tx[r].pot # o
        BY <2>1, <3>2 DEF IInv, SweepInv, SweepNamesPot, OrderInv, TellersDiffer
      <4> QED BY <1>0, <2>2, <4>1, <4>2 DEF OrderInv, TellsOnce
    <3> QED BY <3>1, <3>2
  <2> QED BY <1>1, <1>3, <2>3, <2>4 DEF OrderInv
<1> QED BY <1>4, <1>5

\* The order of draws and lines is kept by every step.
LEMMA OrderStep == IInv /\ OrderInv /\ [Next]_vars => OrderInv'
<1> SUFFICES ASSUME IInv, OrderInv, [Next]_vars PROVE OrderInv'
  OBVIOUS
<1>1. ASSUME NEW b \in Buyers, BuyBegins(b) \/ BuyProgress(b) \/ BuyFault(b) PROVE OrderInv'
  BY <1>1, BuyIsQuiet
<1>2. ASSUME NEW s \in Sweepers, SweepProgress(s) \/ SweepFault(s) PROVE OrderInv'
  BY <1>2, SweepIsQuiet, SettleCommitTells, ClaimUpdateTells, PostingTellsOnce
<1>3. ASSUME Tick \/ UNCHANGED vars \/ \E u \in Users, amount \in Spends : OtherDebit(u, amount)
      PROVE  OrderInv'
  <2>1. lounge' = lounge /\ pots' = pots /\ pc' = pc /\ tx' = tx
    BY <1>3 DEF Tick, OtherDebit, vars, tables
  <2> QED BY <2>1, RowsFollowStep, LinesFrame DEF OrderInv
<1> QED BY <1>1, <1>2, <1>3 DEF Next

\* Nothing is posted and no row is written at first.
LEMMA OrderInit == Init => OrderInv
  BY DEF Init, OrderInv, RowsFollow, PotLines, TellsOnce, TellersDiffer, Workers, NoRow

\* Pots are drawn at hours that go up, and the lounge hears of each draw and each
\* last call at most once, whatever sweeps fail, race or die between a claim and
\* its line.
THEOREM OrderlyDraws == Spec => []DrawsAreOrderly
<1>1. IInv /\ OrderInv => DrawsAreOrderly
  <2> SUFFICES ASSUME IInv, OrderInv PROVE DrawHoursIncrease /\ LoungeHearsOnce
    BY DEF DrawsAreOrderly
  <2>1. DrawHoursIncrease
    BY DEF OrderInv, RowsFollow, DrawHoursIncrease
  <2>2. LoungeHearsOnce
    BY DEF OrderInv, PotLines, LoungeHearsOnce
  <2> QED BY <2>1, <2>2
<1> QED BY <1>1, Invariance, OrderInit, OrderStep, PTL DEF Spec

-----------------------------------------------------------------------------
(* Tickets and what was charged for them *)

\* A ticket in the hat is one of those somebody bought on some day.
LEMMA InHat ==
    ASSUME NEW t, NEW x
    PROVE  x \in Hat(t) <=> \E u \in Users, d \in Days : \E k \in 1 .. t[u][d] : x = <<<<u, d>>, k>>
<1> DEFINE S == {{<<u, d>>} \X (1 .. t[u][d]) : u \in Users, d \in Days}
<1>1. ASSUME x \in Hat(t)
      PROVE  \E u \in Users, d \in Days : \E k \in 1 .. t[u][d] : x = <<<<u, d>>, k>>
  <2>1. PICK u \in Users, d \in Days : x \in {<<u, d>>} \X (1 .. t[u][d])
    BY <1>1 DEF Hat
  <2>2. PICK k \in 1 .. t[u][d] : x = <<<<u, d>>, k>>
    BY <2>1
  <2> QED BY <2>2
<1>2. ASSUME NEW u \in Users, NEW d \in Days, NEW k \in 1 .. t[u][d], x = <<<<u, d>>, k>>
      PROVE  x \in Hat(t)
  <2>1. x \in {<<u, d>>} \X (1 .. t[u][d])
    BY <1>2
  <2>2. {<<u, d>>} \X (1 .. t[u][d]) \in S
    OBVIOUS
  <2> HIDE DEF S
  <2>3. x \in UNION S
    BY <2>1, <2>2
  <2> QED BY <2>3 DEF Hat, S
<1> QED BY <1>1, <1>2

\* The upsert of a buy: n more tickets on one user's row of one day.
Bought(t, t2, u, d, n) ==
    /\ u \in Users /\ d \in Days /\ n \in Nat
    /\ t \in [Users -> [Days -> Nat]] /\ t2 \in [Users -> [Days -> Nat]]
    /\ t2[u][d] = t[u][d] + n
    /\ \A v \in Users, e \in Days : t[v][e] <= MaxTicketsPerDay /\ (v # u \/ e # d => t2[v][e] = t[v][e])

\* What a buy adds to the holdings: its count to the buyer's, nothing to others'.
LEMMA BoughtTickets ==
    ASSUME NEW t, NEW t2, NEW u, NEW d, NEW n, Bought(t, t2, u, d, n)
    PROVE  /\ UserTotal(t, u) \in Nat /\ UserTotal(t2, u) = UserTotal(t, u) + n
           /\ \A v \in Users : v # u => UserTotal(t2, v) = UserTotal(t, v)
<1> DEFINE m == t[u][d]
           Held(s, v) == {x \in Hat(s) : HolderOf(x) = v}
           New == {<<u, d>>} \X (m + 1 .. m + n)
<1>0. /\ m \in Nat /\ u \in Users /\ d \in Days /\ n \in Nat /\ t \in [Users -> [Days -> Nat]]
      /\ \A v \in Users, e \in Days : t[v][e] <= MaxTicketsPerDay
  BY DEF Bought
<1>1. /\ t2 \in [Users -> [Days -> Nat]] /\ t2[u][d] = m + n
      /\ \A v \in Users, e \in Days : v # u \/ e # d => t2[v][e] = t[v][e]
  BY DEF Bought
<1> HIDE DEF m
<1>h. /\ \A x : x \in Hat(t) <=> \E v \in Users, e \in Days : \E k \in 1 .. t[v][e] : x = <<<<v, e>>, k>>
      /\ \A x : x \in Hat(t2) <=> \E v \in Users, e \in Days : \E k \in 1 .. t2[v][e] : x = <<<<v, e>>, k>>
  BY InHat
<1>2. \A v \in Users : v # u => Held(t2, v) = Held(t, v)
  <2> SUFFICES ASSUME NEW v \in Users, v # u, NEW x, HolderOf(x) = v
               PROVE  x \in Hat(t2) <=> x \in Hat(t)
    OBVIOUS
  <2>1. ASSUME NEW w \in Users, NEW e \in Days, NEW k, x = <<<<w, e>>, k>>
        PROVE  w = v /\ t2[w][e] = t[w][e]
    BY <1>1, <2>1 DEF HolderOf
  <2> QED BY <1>h, <2>1
<1>3. Held(t2, u) = Held(t, u) \cup New
  <2>1. ASSUME NEW x \in Held(t2, u) PROVE x \in Held(t, u) \cup New
    <3>1. PICK v \in Users, e \in Days, k \in Int : k \in 1 .. t2[v][e] /\ x = <<<<v, e>>, k>>
      BY <1>h, <2>1
    <3>2. v = u
      BY <2>1, <3>1 DEF HolderOf
    <3>3. CASE e # d
      BY <1>1, <1>h, <2>1, <3>1, <3>2, <3>3
    <3>4. CASE e = d /\ k <= m
      <4>1. k \in 1 .. t[v][e]
        BY <1>0, <1>1, <3>1, <3>2, <3>4 DEF m
      <4> QED BY <1>h, <2>1, <3>1, <4>1
    <3>5. CASE e = d /\ k > m
      <4>1. k \in m + 1 .. m + n
        BY <1>0, <1>1, <3>1, <3>2, <3>5
      <4> QED BY <3>1, <3>2, <3>5, <4>1
    <3>6. k \in Int
      BY <1>1, <3>1
    <3> QED BY <1>0, <3>3, <3>4, <3>5, <3>6
  <2>2. ASSUME NEW x \in Held(t, u) PROVE x \in Held(t2, u)
    <3>1. PICK v \in Users, e \in Days, k \in Int : k \in 1 .. t[v][e] /\ x = <<<<v, e>>, k>>
      BY <1>h, <2>2
    <3>2. t[v][e] \in Nat /\ t2[v][e] \in Nat /\ t[v][e] <= t2[v][e]
      BY <1>0, <1>1 DEF m
    <3>3. k \in 1 .. t2[v][e]
      BY <3>1, <3>2
    <3> QED BY <1>h, <2>2, <3>1, <3>3
  <2>3. ASSUME NEW x \in New PROVE x \in Held(t2, u)
    <3>1. PICK k \in m + 1 .. m + n : x = <<<<u, d>>, k>>
      BY <2>3
    <3>2. k \in 1 .. t2[u][d]
      BY <1>0, <1>1, <3>1
    <3>3. HolderOf(x) = u
      BY <3>1 DEF HolderOf
    <3> QED BY <1>0, <1>h, <3>1, <3>2, <3>3
  <2> QED BY <2>1, <2>2, <2>3
<1>4. Held(t, u) \cap New = {}
  <2> SUFFICES ASSUME NEW x \in Held(t, u), x \in New PROVE FALSE
    OBVIOUS
  <2>1. PICK k \in m + 1 .. m + n : x = <<<<u, d>>, k>>
    OBVIOUS
  <2>2. PICK v \in Users, e \in Days, j \in Int : j \in 1 .. t[v][e] /\ x = <<<<v, e>>, j>>
    BY <1>h
  <2>3. v = u /\ e = d /\ j = k
    BY <2>1, <2>2
  <2>4. k \in 1 .. m
    BY <2>2, <2>3 DEF m
  <2> QED BY <1>0, <2>1, <2>4
<1>5. IsFiniteSet(Held(t, u)) /\ Cardinality(Held(t, u)) \in Nat
  <2>1. IsFiniteSet(Hat(t))
    BY <1>0, HatFinite
  <2>2. Held(t, u) \subseteq Hat(t)
    OBVIOUS
  <2> HIDE DEF Held
  <2> QED BY <2>1, <2>2, FS_Subset, FS_CardinalityType
<1>6. IsFiniteSet(New) /\ Cardinality(New) = n
  <2>1. IsFiniteSet({<<u, d>>}) /\ Cardinality({<<u, d>>}) = 1
    BY FS_Singleton
  <2>2. IsFiniteSet(m + 1 .. m + n) /\ Cardinality(m + 1 .. m + n) = n
    <3> DEFINE a == m + 1
               b == m + n
    <3>1. a \in Int /\ b \in Int /\ (IF a > b THEN 0 ELSE b - a + 1) = n
      BY <1>0
    <3> HIDE DEF a, b
    <3>2. IsFiniteSet(a .. b) /\ Cardinality(a .. b) = n
      BY <3>1, FS_Interval
    <3> QED BY <3>2 DEF a, b
  <2> DEFINE I == m + 1 .. m + n
             One == {<<u, d>>}
  <2>3. IsFiniteSet(I) /\ Cardinality(I) = n /\ IsFiniteSet(One) /\ Cardinality(One) = 1
    BY <2>1, <2>2
  <2> HIDE DEF I, One
  <2>4. IsFiniteSet(One \X I) /\ Cardinality(One \X I) = 1 * n
    BY <1>0, <2>3, FS_Product
  <2> QED BY <1>0, <2>4 DEF I, One
<1>7. Cardinality(Held(t, u) \cup New) = Cardinality(Held(t, u)) + n
  <2> HIDE DEF Held, New
  <2>1. Cardinality(Held(t, u) \cup New) =
            Cardinality(Held(t, u)) + Cardinality(New) - Cardinality(Held(t, u) \cap New)
    BY <1>5, <1>6, FS_Union
  <2>2. Cardinality(Held(t, u) \cap New) = 0
    BY <1>4, FS_EmptySet
  <2> QED BY <1>0, <1>5, <1>6, <2>1, <2>2
<1> QED BY <1>2, <1>3, <1>5, <1>7 DEF UserTotal

\* Only COMMIT of a buy writes tickets or charges for them.
LEMMA ChargeStep ==
    ASSUME [Next]_vars
    PROVE  \/ tickets' = tickets /\ paidIn' = paidIn
           \/ \E b \in Buyers : BuyCommit(b) \/ BuyCommitUnacknowledged(b)
<1>1. ASSUME NEW b \in Buyers, BuyBegins(b) \/ BuyProgress(b) \/ BuyFault(b),
             ~BuyCommit(b), ~BuyCommitUnacknowledged(b)
      PROVE  tickets' = tickets /\ paidIn' = paidIn
  BY <1>1 DEF BuyBegins, BuyBegin, BuyProgress, BuySelect, BuyLock, BuyInsert, BuyDebit,
              BuyFault, BuyFail, RollbackTo, tables
<1>2. ASSUME NEW s \in Sweepers, SweepProgress(s)
      PROVE  tickets' = tickets /\ paidIn' = paidIn
  BY <1>2 DEF SweepProgress, SettleBegin, SettleAdvisory, SettleSelect, SettleLock, SettleHolders,
              SettleDraw, SettleRoll, SettleCommit, SettleWrites, OpenFirst, Announce, ClaimBegin, ClaimSearch,
              ClaimUpdate, ClaimPost, RollbackTo, tables
<1>3. ASSUME NEW s \in Sweepers, SweepFault(s)
      PROVE  tickets' = tickets /\ paidIn' = paidIn
  BY <1>3 DEF SweepFault, SettleCommitUnacknowledged, SettleWrites, ClaimUnacknowledged, SettleFail,
              Crash, RollbackTo, tables
<1>4. ASSUME Tick \/ UNCHANGED vars \/ \E v \in Users, amount \in Spends : OtherDebit(v, amount)
      PROVE  tickets' = tickets /\ paidIn' = paidIn
  BY <1>4 DEF Tick, OtherDebit, vars, tables
<1> QED BY <1>1, <1>2, <1>3, <1>4 DEF Next

\* The charge of a buy is the price of the tickets it adds.
LEMMA ChargedStep ==
    IInv /\ ChargedExactlyForTickets /\ [Next]_vars => ChargedExactlyForTickets'
<1> SUFFICES ASSUME IInv, ChargedExactlyForTickets, [Next]_vars PROVE ChargedExactlyForTickets'
  OBVIOUS
<1>1. CASE tickets' = tickets /\ paidIn' = paidIn
  BY <1>1 DEF ChargedExactlyForTickets
<1>2. ASSUME NEW b \in Buyers, BuyCommit(b) \/ BuyCommitUnacknowledged(b)
      PROVE  ChargedExactlyForTickets'
  <2> DEFINE p == tx[b].pot
             u == tx[b].user
             d == tx[b].day
             n == tx[b].count
  <2>0. /\ TypeOK /\ BuyInv(b) /\ pc[b] = "buy_commit" /\ BuyWrites(b) /\ b \in Workers
        /\ tx[b] \in Transactions /\ DailyCapIsExact
    BY <1>2 DEF IInv, TypeOK, TablesInv, Workers, BuyCommit, BuyCommitUnacknowledged
  <2>1. p \in PotIds /\ u \in Users /\ d \in Days /\ n \in Nat /\ TicketPrice \in Nat
    BY <2>0, PotAssumption DEF BuyInv, BuyHoldsRow, Transactions, Counts
  <2>2. /\ tickets' = [tickets EXCEPT ![p][u][d] = @ + n]
        /\ paidIn' = [paidIn EXCEPT ![p][u] = @ + n * TicketPrice]
    BY <2>0 DEF BuyWrites, Price
  <2> HIDE DEF p, u, d, n
  <2>3. /\ tickets[p] \in [Users -> [Days -> Nat]] /\ \A v \in Users, e \in Days : tickets[p][v][e] <= MaxTicketsPerDay
        /\ tickets'[p] = [tickets[p] EXCEPT ![u][d] = @ + n]
        /\ \A q \in PotIds : q # p => tickets'[q] = tickets[q]
    BY <2>0, <2>1, <2>2 DEF TypeOK, DailyCapIsExact
  <2>4. /\ UserTotal(tickets[p], u) \in Nat /\ UserTotal(tickets'[p], u) = UserTotal(tickets[p], u) + n
        /\ \A v \in Users : v # u => UserTotal(tickets'[p], v) = UserTotal(tickets[p], v)
    <3> DEFINE t == tickets[p]
               t2 == tickets'[p]
    <3>1. Bought(t, t2, u, d, n)
      BY <2>1, <2>3 DEF Bought
    <3> HIDE DEF t, t2
    <3>2. /\ UserTotal(t, u) \in Nat /\ UserTotal(t2, u) = UserTotal(t, u) + n
          /\ \A v \in Users : v # u => UserTotal(t2, v) = UserTotal(t, v)
      BY <3>1, BoughtTickets
    <3> QED BY <3>2 DEF t, t2
  <2>5. /\ paidIn'[p][u] = paidIn[p][u] + n * TicketPrice
        /\ \A q \in PotIds, v \in Users : q # p \/ v # u => paidIn'[q][v] = paidIn[q][v]
    BY <2>0, <2>1, <2>2 DEF TypeOK
  <2>6. \A a, x, y \in Nat : a * x + y * a = a * (x + y)
    OBVIOUS
  <2>7. paidIn'[p][u] = TicketPrice * UserTotal(tickets'[p], u)
    <3>1. paidIn[p][u] = TicketPrice * UserTotal(tickets[p], u)
      BY <2>1 DEF ChargedExactlyForTickets
    <3> QED BY <2>1, <2>4, <2>5, <2>6, <3>1, Zenon
  <2>8. ASSUME NEW q \in PotIds, NEW v \in Users, q # p \/ v # u
        PROVE  paidIn'[q][v] = TicketPrice * UserTotal(tickets'[q], v)
    <3>1. UserTotal(tickets'[q], v) = UserTotal(tickets[q], v)
      BY <2>3, <2>4, <2>8
    <3> QED BY <2>5, <2>8, <3>1 DEF ChargedExactlyForTickets
  <2> QED BY <2>7, <2>8 DEF ChargedExactlyForTickets
<1> QED BY <1>1, <1>2, ChargeStep

\* Nobody holds or pays anything at first.
LEMMA ChargedInit == Init => ChargedExactlyForTickets
<1> SUFFICES ASSUME Init, NEW p \in PotIds, NEW u \in Users
             PROVE  paidIn[p][u] = TicketPrice * UserTotal(tickets[p], u)
  BY DEF ChargedExactlyForTickets
<1>1. \A v \in Users, d \in Days : tickets[p][v][d] = 0
  BY DEF Init
<1>2. Hat(tickets[p]) = {}
  BY <1>1, InHat
<1>3. UserTotal(tickets[p], u) = 0
  BY <1>2, FS_EmptySet DEF UserTotal
<1> QED BY <1>3, PotAssumption DEF Init

\* Whoever was charged holds the tickets, and the other way round, at the ticket
\* price: no refused, failed or unacknowledged buy leaves one half behind.
THEOREM ChargedForTickets == Spec => []ChargedExactlyForTickets
  BY Invariance, ChargedInit, ChargedStep, PTL DEF Spec

-----------------------------------------------------------------------------
(* Module Pot implements module Raffle: each COMMIT of a buy, a settlement  *)
(* or a first opening, and each reminder stamp, is one atomic operation of  *)
(* the raffle, and every other statement is a stutter.  The inductive       *)
(* invariant IInv supplies what the locks keep true between the statement   *)
(* that checked a condition and the COMMIT that relies on it.               *)

\* The empty database is the raffle's initial state.
LEMMA InitRefines == Init => Atomic!Init
  BY DEF Init, Atomic!Init, NoRow, Atomic!Unused, PotIds, Atomic!PotIds

\* The id INSERT INTO pots takes is the raffle's next pot.
LEMMA FreshIsNext ==
    ASSUME NEW q \in FreshIds
    PROVE  q \in Atomic!PotIds /\ Atomic!IsNext(q)
  BY DEF FreshIds, Atomic!IsNext, NoRow, Atomic!Unused, PotIds, Atomic!PotIds

\* The instance's calendar, hat and payout are those of module Pot.
LEMMA SameMath ==
    /\ \A hour : Atomic!DayOf(hour) = DayOf(hour)
    /\ \A now : Atomic!NextDrawAt(now) = NextDrawAt(now)
    /\ \A bought : Atomic!Hat(bought) = Hat(bought)
    /\ \A ticket : Atomic!HolderOf(ticket) = HolderOf(ticket)
    /\ \A size : Atomic!PayoutFor(size) = PayoutFor(size)
  BY DEF DayOf, Atomic!DayOf, NextDrawAt, Atomic!NextDrawAt, Hat, Atomic!Hat,
         HolderOf, Atomic!HolderOf, PayoutFor, Atomic!PayoutFor

\* The instance counts tickets as module Pot does.
LEMMA SameCardinality == \A S : Atomic!Cardinality(S) = Cardinality(S)
  BY DEF Cardinality, Atomic!Cardinality

\* open_in_tx writes the row the raffle opens.
LEMMA SameOpenRow == \A now : Atomic!Opened(Atomic!NextDrawAt(now)) = OpenRow(NextDrawAt(now))
  BY SameMath DEF OpenRow, Atomic!Opened, NoRow, Atomic!Unused

\* COMMIT of PotService::buy is the raffle's Buy: its conditions hold when the
\* tickets appear.
LEMMA BuyRefines ==
    ASSUME IInv, NEW b \in Buyers, BuyCommit(b) \/ BuyCommitUnacknowledged(b)
    PROVE  Atomic!Next
<1> DEFINE p == tx[b].pot
           u == tx[b].user
           d == tx[b].day
           n == tx[b].count
<1>1. /\ pc[b] = "buy_commit" /\ BuyWrites(b) /\ clock' = clock
      /\ TypeOK /\ BuyInv(b) /\ tx[b] \in Transactions
  BY DEF BuyCommit, BuyCommitUnacknowledged, IInv, TypeOK, Workers
<1>2. /\ p \in PotIds /\ u \in Users /\ d \in Days /\ n \in Counts
      /\ d <= DayOf(clock) /\ pots[p].status = "open"
      /\ tickets[p][u][d] + n <= MaxTicketsPerDay
      /\ balance[u] - n * TicketPrice >= ChipFloor
  BY <1>1 DEF BuyInv, BuyHoldsRow, Transactions
<1>3. Atomic!Buy(p, u, d, n)
  BY <1>1, <1>2, SameMath DEF Atomic!Buy, Atomic!IsOpen, BuyWrites, Price
<1> HIDE DEF p, u, d, n
<1> QED BY <1>2, <1>3 DEF Atomic!Next, Atomic!PotIds, PotIds, Counts

\* settle_due's first opening is the raffle's Open.
LEMMA OpenRefines ==
    ASSUME IInv, NEW s \in Sweepers, OpenFirst(s)
    PROVE  Atomic!Next
<1> DEFINE now == tx[s].now
<1>1. /\ OpenPots = {} /\ now \in 0 .. MaxClock /\ now <= clock
  <2>1. SweepInv(s) /\ tx[s] \in Transactions /\ clock \in 0 .. MaxClock /\ pc[s] = "open_first"
    BY DEF IInv, TypeOK, Workers, OpenFirst
  <2> QED BY <2>1, PotAssumption DEF SweepInv, Transactions
<1>2. PICK q \in FreshIds : pots' = [pots EXCEPT ![q] = OpenRow(NextDrawAt(now))]
  BY DEF OpenFirst
<1>3. UNCHANGED <<tickets, balance, clock>>
  BY DEF OpenFirst
<1>4. \A p \in Atomic!PotIds : ~Atomic!IsOpen(p)
  BY <1>1 DEF OpenPots, Atomic!IsOpen, PotIds, Atomic!PotIds
<1> HIDE DEF now
<1>5. Atomic!Open(q, now)
  BY <1>1, <1>2, <1>3, <1>4, FreshIsNext, SameOpenRow DEF Atomic!Open
<1> QED BY <1>1, <1>5, FreshIsNext DEF Atomic!Next

\* COMMIT of settle_due is the raffle's Draw or Roll, over all the tickets there
\* are at that instant.
LEMMA SettleRefines ==
    ASSUME IInv, NEW s \in Sweepers, SettleCommit(s) \/ SettleCommitUnacknowledged(s)
    PROVE  Atomic!Next
<1> DEFINE p   == tx[s].pot
           u   == tx[s].winner
           now == tx[s].now
<1>0. /\ pc[s] = "settle_commit" /\ SettleWrites(s) /\ clock' = clock
      /\ TypeOK /\ SweepInv(s) /\ TablesInv /\ tx[s] \in Transactions
  BY DEF SettleCommit, SettleCommitUnacknowledged, IInv, TypeOK, Workers
<1>1. /\ p \in PotIds /\ u \in Users \cup {None} /\ now \in Nat /\ now <= clock
      /\ now \in 0 .. MaxClock
  <2>1. p \in PotIds /\ now \in Nat /\ now <= clock /\ u \in Users \cup {None}
    BY <1>0 DEF SweepInv, SweepNamesPot, SettleHoldsRow, Transactions
  <2> QED BY <1>0, <2>1, PotAssumption DEF TypeOK
<1>2. /\ pots[p].status = "open" /\ pots[p].draws_at <= now /\ pots[p] \in PotRows
      /\ tx[s].hat = Hat(tickets[p])
  BY <1>0, <1>1 DEF SweepInv, SettleHoldsRow, SettleHasHat, TypeOK
<1>3. PICK q \in FreshIds :
          pots' = [pots EXCEPT ![p] = SettledRow(s), ![q] = OpenRow(NextDrawAt(now))]
  BY <1>0 DEF SettleWrites
<1>4. q \in Atomic!PotIds /\ Atomic!IsNext(q) /\ p \in Atomic!PotIds
  BY <1>1, FreshIsNext DEF PotIds, Atomic!PotIds
<1>5. CASE u = None
  <2>1. tx[s].hat = {} /\ UNCHANGED <<tickets, balance>>
    BY <1>0, <1>5 DEF SweepInv, SettleWrites
  <2>2. TotalOf(s) = 0
    BY <2>1, FS_EmptySet DEF TotalOf
  <2>3. SettledRow(s) = [pots[p] EXCEPT !.status = "rolled"]
    <3> DEFINE row == pots[p]
    <3>1. /\ row \in PotRows /\ row.winner = None /\ row.ticket_count = 0 /\ row.payout = 0
      BY <1>0, <1>1, <1>2 DEF TablesInv, PotInvOf
    <3>2. SettledRow(s) = [row EXCEPT !.status = "rolled", !.winner = None,
                                      !.ticket_count = 0, !.payout = 0]
      BY <1>5, <2>2 DEF SettledRow
    <3> HIDE DEF row
    <3>3. SettledRow(s) = [row EXCEPT !.status = "rolled"]
      BY <3>1, <3>2 DEF PotRows
    <3> QED BY <3>3 DEF row
  <2>4. Atomic!Roll(p, q, now)
    BY <1>0, <1>1, <1>2, <1>3, <1>4, <2>1, <2>3, SameOpenRow, SameMath DEF Atomic!Roll, Atomic!IsOpen
  <2> HIDE DEF p, now
  <2> QED BY <1>1, <1>4, <2>4 DEF Atomic!Next
<1>6. CASE u # None
  <2>1. PICK ticket \in Hat(tickets[p]) : HolderOf(ticket) = u
    BY <1>0, <1>2, <1>6 DEF SweepInv
  <2> DEFINE total  == Cardinality(Hat(tickets[p]))
             payout == PayoutFor(total * TicketPrice)
  <2>2. total = TotalOf(s) /\ payout = PayoutOf(s)
    BY <1>2 DEF TotalOf, PayoutOf
  <2>3. SettledRow(s) = [pots[p] EXCEPT !.status = "drawn", !.winner = u,
                                        !.ticket_count = total, !.payout = payout]
    BY <1>6, <2>2 DEF SettledRow
  <2>4. balance' = [balance EXCEPT ![u] = @ + payout] /\ tickets' = tickets
    BY <1>0, <1>6, <2>2 DEF SettleWrites
  <2>a. /\ Atomic!HolderOf(ticket) = u /\ Atomic!Hat(tickets[p]) = Hat(tickets[p])
        /\ Atomic!PayoutFor(Cardinality(Atomic!Hat(tickets[p])) * TicketPrice) = payout
        /\ Atomic!Opened(Atomic!NextDrawAt(now)) = OpenRow(NextDrawAt(now))
    BY <2>1, SameMath, SameOpenRow
  <2>b. pots' = [pots EXCEPT
            ![p] = [pots[p] EXCEPT
                !.status = "drawn", !.winner = Atomic!HolderOf(ticket),
                !.ticket_count = Cardinality(Atomic!Hat(tickets[p])),
                !.payout = Atomic!PayoutFor(Cardinality(Atomic!Hat(tickets[p])) * TicketPrice)],
            ![q] = Atomic!Opened(Atomic!NextDrawAt(now))]
    BY <1>3, <2>3, <2>a, Zenon
  <2>c. balance' = [balance EXCEPT ![Atomic!HolderOf(ticket)] =
            @ + Atomic!PayoutFor(Cardinality(Atomic!Hat(tickets[p])) * TicketPrice)]
    BY <2>4, <2>a
  <2>d. /\ Atomic!IsOpen(p) /\ Atomic!IsNext(q) /\ now <= clock /\ pots[p].draws_at <= now
        /\ ticket \in Atomic!Hat(tickets[p]) /\ UNCHANGED <<tickets, clock>>
    BY <1>0, <1>1, <1>2, <1>4, <2>1, <2>4, <2>a DEF Atomic!IsOpen
  <2> HIDE DEF p, now
  <2>5. Atomic!Draw(p, q, now, ticket)
    BY <2>b, <2>c, <2>d, SameCardinality DEF Atomic!Draw
  <2> QED BY <1>1, <1>4, <2>1, <2>5, SameMath DEF Atomic!Next
<1> QED BY <1>5, <1>6

\* The stamp of claim_reminder is the raffle's Remind.
LEMMA RemindRefines ==
    ASSUME IInv, NEW s \in Sweepers, pc[s] = "claim_update", Claimed(s),
           pots' = [pots EXCEPT ![tx[s].pot].reminded = TRUE],
           UNCHANGED <<tickets, balance, clock>>
    PROVE  Atomic!Next
<1> DEFINE p == tx[s].pot
<1>1. p \in PotIds /\ Hat(tickets[p]) # {}
  BY DEF IInv, SweepInv, SweepNamesPot
<1>2. Atomic!Remind(p)
  BY <1>1, SameMath DEF Atomic!Remind, Atomic!IsOpen, Claimed
<1> HIDE DEF p
<1> QED BY <1>1, <1>2 DEF Atomic!Next, PotIds, Atomic!PotIds

\* Every step of every replica is a step of the raffle or leaves its state alone.
LEMMA StepRefines == IInv /\ [Next]_vars => [Atomic!Next]_(Atomic!vars)
<1> SUFFICES ASSUME IInv, [Next]_vars PROVE Atomic!Next \/ UNCHANGED Atomic!vars
  OBVIOUS
<1> USE DEF Atomic!vars, tables
<1>1. ASSUME NEW b \in Buyers, BuyBegins(b) \/ BuyProgress(b) \/ BuyFault(b)
      PROVE  Atomic!Next \/ UNCHANGED Atomic!vars
  <2>1. CASE BuyCommit(b) \/ BuyCommitUnacknowledged(b)
    BY <2>1, BuyRefines
  <2>2. CASE BuyBegins(b) \/ BuySelect(b) \/ BuyLock(b) \/ BuyInsert(b) \/ BuyDebit(b) \/ BuyFail(b)
    BY <2>2 DEF BuyBegins, BuyBegin, BuySelect, BuyLock, BuyInsert, BuyDebit, BuyFail, RollbackTo
  <2> QED BY <1>1, <2>1, <2>2 DEF BuyProgress, BuyFault
<1>2. ASSUME NEW s \in Sweepers, SweepProgress(s) \/ SweepFault(s)
      PROVE  Atomic!Next \/ UNCHANGED Atomic!vars
  <2>1. CASE SettleCommit(s) \/ SettleCommitUnacknowledged(s)
    BY <2>1, SettleRefines
  <2>2. CASE OpenFirst(s)
    BY <2>2, OpenRefines
  <2>3. CASE ClaimUnacknowledged(s) \/ (ClaimUpdate(s) /\ Claimed(s))
    BY <2>3, RemindRefines DEF ClaimUnacknowledged, ClaimUpdate
  <2>4. CASE ClaimUpdate(s) /\ ~Claimed(s)
    BY <2>4 DEF ClaimUpdate
  <2>5. CASE SettleFail(s) \/ Crash(s)
    BY <2>5 DEF SettleFail, Crash, RollbackTo
  <2>6. CASE SettleBegin(s) \/ SettleAdvisory(s) \/ SettleSelect(s) \/ SettleLock(s)
             \/ SettleHolders(s) \/ SettleRoll(s) \/ Announce(s) \/ ClaimBegin(s)
             \/ ClaimSearch(s) \/ ClaimPost(s)
             \/ \E ticket \in tx[s].hat : SettleDraw(s, ticket)
    BY <2>6 DEF SettleBegin, SettleAdvisory, SettleSelect, SettleLock, SettleHolders, SettleRoll,
                Announce, ClaimBegin, ClaimSearch, ClaimPost, SettleDraw, RollbackTo
  <2> QED BY <1>2, <2>1, <2>2, <2>3, <2>4, <2>5, <2>6 DEF SweepProgress, SweepFault
<1>3. ASSUME NEW u \in Users, NEW amount \in Spends, OtherDebit(u, amount)
      PROVE  Atomic!Next
  <2>1. balance[u] \in Int /\ amount \in Int
    BY PotAssumption DEF IInv, TypeOK
  <2>2. Atomic!Spend(u, amount)
    BY <1>3, <2>1 DEF OtherDebit, Atomic!Spend
  <2> QED BY <2>2 DEF Atomic!Next
<1>4. CASE Tick
  BY <1>4 DEF Tick, Atomic!Tick, Atomic!Next
<1>5. CASE UNCHANGED vars
  BY <1>5 DEF vars
<1> QED BY <1>1, <1>2, <1>3, <1>4, <1>5 DEF Next

\* The locked, interleaved, failing transactions implement the atomic raffle.
THEOREM Refinement == Spec => ImplementsRaffle
<1>1. Init => Atomic!Init
  BY InitRefines
<1>2. IInv /\ [Next]_vars => [Atomic!Next]_(Atomic!vars)
  BY StepRefines
<1> QED BY <1>1, <1>2, Invariance, PTL DEF Spec, ImplementsRaffle, Atomic!Spec

=============================================================================
