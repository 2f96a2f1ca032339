--------------------------- MODULE TerminalProbe ---------------------------
(***************************************************************************)
(* terminal_probe.rs: the render loop follows a pass with a status query,  *)
(* and the SSH data handler sees the terminal's replies, which carry no    *)
(* tag.  Replies come back in order, late, or never (a reply split across  *)
(* two reads is taken for input).                                          *)
(***************************************************************************)
EXTENDS Integers, Sequences

CONSTANTS
    Interval,      \* PROBE_INTERVAL
    LargeGap,      \* LARGE_FRAME_PROBE_GAP
    Timeout,       \* PROBE_TIMEOUT
    MaxStreak,     \* MAX_UNANSWERED_STREAK
    MaxDelay,      \* the slowest terminal considered
    MaxClock, MaxLost  \* bounds: the clock, and replies that never come

ASSUME DurationsAssumption == Interval \in Nat /\ Timeout \in Nat /\ LargeGap \in Nat /\ MaxDelay \in Nat

\* "A terminal slower than both together is beyond what this probe prices."
ASSUME DelayAssumption == MaxDelay < Timeout + Interval

VARIABLES
    clock,
    state,      \* ProbeState
    prober,     \* the render loop: "between" passes, "expired", or "claimed" a query
    queries,    \* queries the terminal has yet to answer, by the clock they left
    tally,      \* answered and lost, as ProbeTally counts them
    asked,      \* queries that left
    mismatched, \* a reply was credited to another query
    missing     \* replies that were lost on the way

probeVars == <<clock, state, prober, queries, tally, asked, mismatched, missing>>

Never == -1
Idle(due, last, streak) == [kind |-> "idle", due |-> due, last |-> last, streak |-> streak]
InFlight(sent_at, streak) == [kind |-> "in_flight", due |-> sent_at, last |-> Never, streak |-> streak]
Retired == [kind |-> "retired", due |-> 0, last |-> Never, streak |-> 0]

ProbeInit ==
    /\ clock = 0 /\ prober = "between" /\ queries = <<>>
    /\ state = Idle(0, Never, 0)
    /\ tally = [answered |-> 0, lost |-> 0]
    /\ asked = 0 /\ mismatched = FALSE /\ missing = 0

\* Mutant: a lost probe is followed at once by the next.
ExpiredAtOnce(streak) == IF streak >= MaxStreak THEN Retired ELSE Idle(clock, Never, streak)

\* The state after a probe is given up.
Expired(streak) == IF streak >= MaxStreak THEN Retired ELSE Idle(clock + Interval, Never, streak)

\* drive_terminal_probe begins with `expire`.
Expire ==
    /\ prober = "between" /\ prober' = "expired"
    /\ IF state.kind = "in_flight" /\ clock >= state.due + Timeout
       THEN /\ state' = Expired(state.streak + 1)
            /\ tally' = [tally EXCEPT !.lost = @ + 1]
       ELSE UNCHANGED <<state, tally>>
    /\ UNCHANGED <<clock, queries, asked, mismatched, missing>>

\* A pass behind a large backlog may probe sooner after an answered probe.
Due(large) ==
    \/ clock >= state.due
    \/ large /\ state.last # Never /\ clock >= state.last + LargeGap

\* try_start claims the slot.
Start(large) ==
    /\ prober = "expired"
    /\ IF state.kind = "idle" /\ Due(large)
       THEN prober' = "claimed" /\ state' = InFlight(clock, state.streak)
       ELSE prober' = "between" /\ UNCHANGED state
    /\ UNCHANGED <<clock, queries, tally, asked, mismatched, missing>>

\* The query leaves.
SendQuery ==
    /\ prober = "claimed" /\ prober' = "between"
    /\ queries' = Append(queries, clock)
    /\ asked' = asked + 1
    /\ UNCHANGED <<clock, state, tally, mismatched, missing>>

\* The handle was busy or closed: `cancel`.
Cancel ==
    /\ prober = "claimed" /\ prober' = "between"
    /\ state' = IF state.kind = "in_flight" THEN Idle(clock + Interval, Never, state.streak) ELSE state
    /\ UNCHANGED <<clock, queries, tally, asked, mismatched, missing>>

\* The oldest query's reply arrives: `answered`, whichever probe is waiting.
Answered ==
    /\ queries # <<>> /\ queries' = Tail(queries)
    /\ IF state.kind = "in_flight"
       THEN /\ state' = Idle(clock + Interval, state.due, 0)
            /\ tally' = [tally EXCEPT !.answered = @ + 1]
            /\ mismatched' = (mismatched \/ state.due # Head(queries))
       ELSE UNCHANGED <<state, tally, mismatched>>
    /\ UNCHANGED <<clock, prober, asked, missing>>

\* The terminal never answers, or its reply is taken for input.
LoseReply ==
    /\ queries # <<>> /\ queries' = Tail(queries)
    /\ missing < MaxLost /\ missing' = missing + 1
    /\ UNCHANGED <<clock, state, prober, tally, asked, mismatched>>

\* No reply is later than MaxDelay, and a pass takes no time.
ProbeTick ==
    /\ clock < MaxClock /\ prober = "between"
    /\ queries # <<>> => clock < Head(queries) + MaxDelay
    /\ clock' = clock + 1
    /\ UNCHANGED <<state, prober, queries, tally, asked, mismatched, missing>>

ProbeNext == Expire \/ (\E large \in BOOLEAN : Start(large)) \/ SendQuery \/ Cancel \/ Answered \/ LoseReply \/ ProbeTick

ProbeSpec == ProbeInit /\ [][ProbeNext]_probeVars

\* A round trip is only ever measured between a query and its own reply: a reply
\* to a probe already given up on lands on nothing.
ReplyMeetsItsQuery == ~mismatched

\* Every query that left is answered, lost, or the one in flight: the session's
\* summary counts each once.
QueriesAreAccounted ==
    asked = tally.answered + tally.lost
            + (IF state.kind = "in_flight" /\ prober # "claimed" THEN 1 ELSE 0)

\* The latency summary is true: every query counts once, with its own reply.
ProbesAreMatched == ReplyMeetsItsQuery /\ QueriesAreAccounted

=============================================================================
