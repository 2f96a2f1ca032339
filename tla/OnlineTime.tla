----------------------------- MODULE OnlineTime -----------------------------
(***************************************************************************)
(* Late Time: every pod notes when its users are connected, checkpoints it *)
(* every few minutes in a batch of wall-clock spans, and keeps the batch   *)
(* until Postgres confirms it.  During a deploy two pods hold sessions of  *)
(* one user and report the same moments.  The database credits the part of *)
(* a span outside the user's counted spans (app/leaderboard/svc.rs,        *)
(* late-core models/leaderboard.rs).                                       *)
(*                                                                         *)
(* A moment t is the unit of time from t to t + 1.  A transaction is one   *)
(* step: it locks the rows of all its users before it reads them.          *)
(***************************************************************************)
EXTENDS Integers, FiniteSets, Folds, Functions

CONSTANTS
    Members, Pods,
    Keep,       \* how long a counted span is kept: a day
    MonthLen,   \* a month begins every MonthLen
    MaxTime,    \* bound on the clock
    MaxTimeFaults,  \* bound: statements that fail, acknowledgements that are lost
    MaxCrashes  \* bound: pods killed

ASSUME BoundsAssumption ==
    /\ Keep \in Nat /\ MonthLen \in Nat \ {0} /\ MaxTime \in Nat
    /\ MaxTimeFaults \in Nat /\ MaxCrashes \in Nat

VARIABLES
    wall,          \* the wall clock
    active_since,  \* per pod and user: since when, or Never
    unbatched,     \* per pod: closed increments not yet in a batch
    in_flight,     \* per pod: the batch not yet confirmed; {} is none
    flush,         \* per pod: where the flush under flush_lock is
    db,            \* per user: the rows of user_online_time and its months
    live,          \* accounts that exist
    spent,         \* faults and crashes so far
    seen,          \* history: moments a user was on a pod since it started
    reported,      \* history: moments in committed batches, per user
    horizon,       \* history: per user, spans that ended before it may be forgotten
    overdue        \* history: users of whom a batch repeated a moment from before that

timeVars == <<wall, active_since, unbatched, in_flight, flush, db, live, spent, seen, reported,
          horizon, overdue>>
history == <<seen, reported, horizon, overdue>>
tracker == <<active_since, unbatched, in_flight>>

Never == -1
Months == 0 .. MaxTime \div MonthLen
Moments(span) == span.start .. span.end - 1
MomentsOf(incs, u) == UNION {Moments(inc) : inc \in {i \in incs : i.user = u}}

NotFlushing == [at |-> "idle", retry |-> FALSE, now |-> 0]
NoRow == [total |-> 0, monthly |-> [m \in Months |-> 0], counted |-> {}]

TimeInit ==
    /\ wall = 0
    /\ active_since = [p \in Pods |-> [u \in Members |-> Never]]
    /\ unbatched = [p \in Pods |-> {}] /\ in_flight = [p \in Pods |-> {}]
    /\ flush = [p \in Pods |-> NotFlushing]
    /\ db = [u \in Members |-> NoRow] /\ live = Members
    /\ spent = [faults |-> 0, crashes |-> 0]
    /\ seen = [p \in Pods |-> [u \in Members |-> {}]]
    /\ reported = [u \in Members |-> {}] /\ horizon = [u \in Members |-> Never] /\ overdue = {}

-----------------------------------------------------------------------------
(* OnlineTimeTracker *)

\* The first connection of a user on a pod.
Connected(p, u) ==
    /\ active_since[p][u] = Never /\ u \in live
    /\ active_since' = [active_since EXCEPT ![p][u] = wall]
    /\ UNCHANGED <<wall, unbatched, in_flight, flush, db, live, spent, history>>

\* add_interval.
add_interval(incs, u, since) ==
    IF wall <= since THEN incs
    ELSE incs \cup {[user |-> u, month |-> since \div MonthLen, start |-> since, end |-> wall]}

\* Mutant: only users who are still connected are reported.
DisconnectedUncounted(p, u) ==
    /\ active_since[p][u] # Never
    /\ active_since' = [active_since EXCEPT ![p][u] = Never]
    /\ UNCHANGED <<wall, unbatched, in_flight, flush, db, live, spent, history>>

\* The last connection of a user leaves the pod.
Disconnected(p, u) ==
    /\ active_since[p][u] # Never
    /\ active_since' = [active_since EXCEPT ![p][u] = Never]
    /\ unbatched' = [unbatched EXCEPT ![p] = add_interval(@, u, active_since[p][u])]
    /\ UNCHANGED <<wall, in_flight, flush, db, live, spent, history>>

Online(p) == {u \in Members : active_since[p][u] # Never}

\* Checkpoint every active user and take what is unbatched.
Checkpoint(p) ==
    /\ active_since' = [active_since EXCEPT ![p] = [u \in Members |-> IF u \in Online(p) THEN wall ELSE Never]]
    /\ in_flight' = [in_flight EXCEPT ![p] =
           unbatched[p] \cup UNION {add_interval({}, u, active_since[p][u]) : u \in Online(p)}]
    /\ unbatched' = [unbatched EXCEPT ![p] = {}]

\* begin_batch: the unconfirmed batch again, or a new one unless it is empty.
\* A retry that was confirmed is followed by one more batch.
BeginBatch(p) ==
    /\ flush[p].at \in {"idle", "confirmed"}
    /\ \/ /\ in_flight[p] # {} /\ UNCHANGED tracker
          /\ flush' = [flush EXCEPT ![p] = [NotFlushing EXCEPT !.at = "prepared", !.retry = flush[p].at = "idle"]]
       \/ /\ in_flight[p] = {} /\ Checkpoint(p)
          /\ flush' = [flush EXCEPT ![p] = IF in_flight'[p] = {} THEN NotFlushing ELSE [NotFlushing EXCEPT !.at = "prepared"]]
    /\ UNCHANGED <<wall, db, live, spent, history>>

\* apply_online_time_batch starts with a connection and the time.
Submit(p) ==
    /\ flush[p].at = "prepared"
    /\ flush' = [flush EXCEPT ![p].at = "submitted", ![p].now = wall]
    /\ UNCHANGED <<wall, tracker, db, live, spent, history>>

Fault == spent.faults < MaxTimeFaults /\ spent' = [spent EXCEPT !.faults = @ + 1]

\* No connection, or a statement fails: the batch is kept for the next flush.
FlushFails(p) ==
    /\ flush[p].at \in {"prepared", "submitted"} /\ Fault
    /\ flush' = [flush EXCEPT ![p] = NotFlushing]
    /\ UNCHANGED <<wall, tracker, db, live, history>>

-----------------------------------------------------------------------------
(* fold_online_time_credits *)

\* A row's counted spans are a set: whoever reads them adds them up or sorts them.
\* Mutant: only counted spans that begin no later than the new one are taken off.
uncounted_from(span, counted) ==
    span.end - span.start
    - SumFunction([other \in {o \in counted : o.start <= span.start} |->
                      Cardinality(Moments(span) \cap Moments(other))])

\* uncounted_milliseconds: the length less the overlap with each counted span.
uncounted(span, counted) ==
    span.end - span.start
    - SumFunction([other \in counted |-> Cardinality(Moments(span) \cap Moments(other))])

Later(a, b) == IF a > b THEN a ELSE b

\* A loop over spans or increments sorted by their start.
Latest(spans) == CHOOSE span \in spans : \A other \in spans : other.start <= span.start
InTimeOrder(step(_, _), first, spans) == MapThenFoldSet(step, first, LAMBDA span : span, Latest, spans)

\* The merge loop of add_counted_span.
MergeInto(span, merged) ==
    IF merged # {} /\ span.start <= Latest(merged).end
    THEN (merged \ {Latest(merged)}) \cup {[Latest(merged) EXCEPT !.end = Later(@, span.end)]}
    ELSE merged \cup {span}

\* add_counted_span.
add_counted_span(counted, span) == InTimeOrder(MergeInto, {}, counted \cup {span})

\* One increment: what is new of it is credited, and it joins the counted spans.
CreditTime(inc, row) ==
    LET credit == uncounted(inc, row.counted)
    IN  [total   |-> row.total + credit,
         monthly |-> [row.monthly EXCEPT ![inc.month] = @ + credit],
         counted |-> add_counted_span(row.counted, [start |-> inc.start, end |-> inc.end])]

Retained(row, keep_from) == [row EXCEPT !.counted = {span \in @ : span.end >= keep_from}]

\* A user's part of a batch, in time order.
Folded(row, incs, keep_from) ==
    Retained(InTimeOrder(CreditTime, row, incs), keep_from)

\* The transaction over the users that still exist.
CommitBatch(p) ==
    LET incs(u) == {inc \in in_flight[p] : inc.user = u}
        written == {u \in live : incs(u) # {}}
        keep_from == flush[p].now - Keep
    IN  /\ db' = [u \in Members |-> IF u \in written THEN Folded(db[u], incs(u), keep_from) ELSE db[u]]
        /\ reported' = [u \in Members |->
               IF u \in written THEN reported[u] \cup MomentsOf(in_flight[p], u) ELSE reported[u]]
        /\ horizon' = [u \in Members |-> IF u \in written THEN Later(horizon[u], keep_from) ELSE horizon[u]]
        /\ overdue' = overdue \cup {u \in written : \E t \in MomentsOf(in_flight[p], u) \cap reported[u] : t < horizon[u]}
        /\ UNCHANGED <<wall, active_since, unbatched, live, seen>>

\* Committed and acknowledged; a retry goes on with a second batch.
CommitConfirmed(p) ==
    /\ flush[p].at = "submitted" /\ CommitBatch(p)
    /\ in_flight' = [in_flight EXCEPT ![p] = {}]
    /\ flush' = [flush EXCEPT ![p] = IF flush[p].retry THEN [NotFlushing EXCEPT !.at = "confirmed"] ELSE NotFlushing]
    /\ UNCHANGED spent

\* Committed, but the answer is lost: the flush fails and the batch stays.
CommitUnconfirmed(p) ==
    /\ flush[p].at = "submitted" /\ CommitBatch(p) /\ Fault
    /\ flush' = [flush EXCEPT ![p] = NotFlushing]
    /\ UNCHANGED in_flight

-----------------------------------------------------------------------------
(* The world *)

\* Deleting the account takes its rows with it.
DeleteAccount(u) ==
    /\ u \in live /\ live' = live \ {u}
    /\ db' = [db EXCEPT ![u] = NoRow]
    /\ reported' = [reported EXCEPT ![u] = {}] /\ horizon' = [horizon EXCEPT ![u] = Never]
    /\ UNCHANGED <<wall, tracker, flush, spent, seen, overdue>>

\* A pod is killed, its unflushed time with it, and a fresh one takes its place.
Crash(p) ==
    /\ spent.crashes < MaxCrashes /\ spent' = [spent EXCEPT !.crashes = @ + 1]
    /\ active_since' = [active_since EXCEPT ![p] = [u \in Members |-> Never]]
    /\ unbatched' = [unbatched EXCEPT ![p] = {}] /\ in_flight' = [in_flight EXCEPT ![p] = {}]
    /\ flush' = [flush EXCEPT ![p] = NotFlushing]
    /\ seen' = [seen EXCEPT ![p] = [u \in Members |-> {}]]
    /\ UNCHANGED <<wall, db, live, reported, horizon, overdue>>

TimePasses ==
    /\ wall < MaxTime /\ wall' = wall + 1
    /\ seen' = [p \in Pods |-> [u \in Members |-> IF u \in Online(p) THEN seen[p][u] \cup {wall} ELSE seen[p][u]]]
    /\ UNCHANGED <<tracker, flush, db, live, spent, reported, horizon, overdue>>

TimeNext ==
    \/ \E p \in Pods, u \in Members : Connected(p, u) \/ Disconnected(p, u)
    \/ \E p \in Pods : BeginBatch(p) \/ Submit(p) \/ FlushFails(p) \/ CommitConfirmed(p)
                       \/ CommitUnconfirmed(p) \/ Crash(p)
    \/ \E u \in Members : DeleteAccount(u)
    \/ TimePasses

TimeSpec == TimeInit /\ [][TimeNext]_timeVars

-----------------------------------------------------------------------------
(* Properties *)

CountedMoments(u) == UNION {Moments(span) : span \in db[u].counted}

\* Credits never add up to more than the wall clock: whatever two pods report of
\* the same moment, in whatever order, retried or not, a user's total is the
\* number of distinct moments in committed batches.  Only a batch that repeats
\* a moment from before what the row still remembers may count it again.
MomentCountsOnce ==
    \A u \in Members :
        /\ db[u].total >= Cardinality(reported[u])
        /\ db[u].total = Cardinality(reported[u]) \/ u \in overdue

\* The row deduplicates what it promises to: its spans are apart, hold only moments
\* that were credited, and all of them from the horizon on.
CountedSpansCoverTheDay ==
    \A u \in Members :
        /\ \A span, other \in db[u].counted :
               span = other \/ span.end < other.start \/ other.end < span.start
        /\ CountedMoments(u) \subseteq reported[u]
        /\ {t \in reported[u] : t >= horizon[u]} \subseteq CountedMoments(u)

\* The months of a user add up to the all-time total.
MonthsAddUp ==
    \A u \in Members : SumFunction(db[u].monthly) = db[u].total

\* While a pod runs it forgets nothing: each moment a living user spent on it is
\* in the database, in its unconfirmed batch, unbatched, or in the open interval.
NoTimeIsLost ==
    \A p \in Pods : \A u \in live : seen[p][u] \subseteq
        reported[u] \cup MomentsOf(in_flight[p] \cup unbatched[p], u)
        \cup (IF u \in Online(p) THEN active_since[p][u] .. wall - 1 ELSE {})

\* Late Time is exact: no moment is lost before it is counted, none counted twice.
LateTimeIsExact ==
    MomentCountsOnce /\ CountedSpansCoverTheDay /\ MonthsAddUp /\ NoTimeIsLost

\* Time spent here is counted in the end, unless the pod or the account goes: of no
\* moment does any part stay uncounted for good.
TimeIsCounted ==
    \A t \in 0 .. MaxTime - 1 :
        []<>(\A p \in Pods : \A u \in live : t \in seen[p][u] => t \in reported[u])

=============================================================================
