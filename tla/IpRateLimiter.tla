--------------------------- MODULE IpRateLimiter ---------------------------
(***************************************************************************)
(* late-core/src/rate_limit.rs for one address.  `allow` and `cleanup`     *)
(* read the clock before they take the lock, so tasks may enter the queue  *)
(* of attempts in another order than their timestamps, up to MaxDelay      *)
(* behind the clock; Instant::duration_since is zero for a later instant.  *)
(***************************************************************************)
EXTENDS Integers, Sequences, FiniteSets

CONSTANTS
    Tasks,        \* connections being admitted, one call each
    MaxAttempts,  \* IpRateLimiter::max_attempts, not the unlimited 0
    Window,       \* IpRateLimiter::window
    MaxDelay,     \* bound: ticks between a clock read and its lock
    MaxClock      \* bound on the clock

ASSUME LimiterAssumption ==
    /\ MaxAttempts \in Nat \ {0} /\ Window \in Nat
    /\ MaxDelay \in Nat /\ MaxClock \in Nat

VARIABLES
    clock,
    read,         \* read[t]: the clock task t read before the lock, -1 before
    decided,      \* decided[t]: when `allow` let task t through, -1 if it has not
    done,         \* tasks that have their answer
    attempts      \* the VecDeque of the address

limiterVars == <<clock, read, decided, done, attempts>>

LimiterInit ==
    /\ clock = 0
    /\ read = [t \in Tasks |-> -1]
    /\ decided = [t \in Tasks |-> -1]
    /\ done = {}
    /\ attempts = <<>>

\* Mutant: the attempt at the edge of the window is forgotten.
ExpiredAtEdge(now, first) == now - first >= Window

\* The negation of now.duration_since(*first) <= self.window.
Expired(now, first) == now - first > Window

\* pop_front while the front has expired.
Pruned(now) ==
    LET kept == {i \in 1 .. Len(attempts) : ~Expired(now, attempts[i])}
    IN  IF kept = {} THEN <<>>
        ELSE SubSeq(attempts, CHOOSE i \in kept : \A j \in kept : i <= j, Len(attempts))

ReadClock(t) ==
    /\ t \notin done /\ read[t] = -1
    /\ read' = [read EXCEPT ![t] = clock]
    /\ UNCHANGED <<clock, decided, done, attempts>>

Allow(t) ==
    /\ t \notin done /\ read[t] # -1
    /\ done' = done \cup {t}
    /\ LET kept == Pruned(read[t])
       IN  \/ /\ Len(kept) >= MaxAttempts
              /\ attempts' = kept
              /\ UNCHANGED decided
           \/ /\ Len(kept) < MaxAttempts
              /\ attempts' = Append(kept, read[t])
              /\ decided' = [decided EXCEPT ![t] = clock]
    /\ UNCHANGED <<clock, read>>

\* The periodic sweep, on a clock read at most MaxDelay ago.
Cleanup(now) ==
    /\ clock - MaxDelay <= now
    /\ attempts' = Pruned(now)
    /\ UNCHANGED <<clock, read, decided, done>>

Tick ==
    /\ clock < MaxClock
    /\ \A t \in Tasks \ done : read[t] = -1 \/ clock - read[t] < MaxDelay
    /\ clock' = clock + 1
    /\ UNCHANGED <<read, decided, done, attempts>>

LimiterNext ==
    \/ \E t \in Tasks : ReadClock(t) \/ Allow(t)
    \/ \E now \in 0 .. clock : Cleanup(now)
    \/ Tick

LimiterSpec == LimiterInit /\ [][LimiterNext]_limiterVars

\* However calls and sweeps overtake each other, no stretch of Window - MaxDelay
\* lets more than MaxAttempts attempts through.
WindowIsBounded ==
    \A from \in 0 .. clock :
        Cardinality({t \in Tasks : decided[t] \in from .. from + Window - MaxDelay}) <= MaxAttempts

\* An attempt is turned away only when MaxAttempts others were let through
\* recently: an entry that lost its place in the queue's time order cannot hold
\* an address back past Window + MaxDelay.
RefusalIsEarned ==
    \A t \in done' \ done : decided'[t] = -1 =>
        Cardinality({s \in Tasks : decided[s] # -1 /\ clock - decided[s] <= Window + MaxDelay})
            >= MaxAttempts

\* No step of the limiter lets more through than it may or turns anybody away for
\* less.
LimiterCounts == [][WindowIsBounded' /\ RefusalIsEarned]_limiterVars

=============================================================================
