---------------------------- MODULE Connections ----------------------------
(***************************************************************************)
(* What a connection of one pod holds and how it gives it back: the per-IP *)
(* slot and the global permit of admission (ssh.rs), the roster of active  *)
(* users that SSH and IRC connections share, the session-token registry,   *)
(* the IRC registry and the online-time tracker fed by the roster.  Every  *)
(* map has a lock of its own, so each lock section is a step, and the      *)
(* steps of connections, of dropped handlers, of spawned clean-up tasks    *)
(* and of account deletions interleave.                                    *)
(*                                                                         *)
(* A connection is used once and stands for its own session token.  What   *)
(* the rate limiter answers is any answer here; IpRateLimiter models it.   *)
(* A Terminate message only makes a connection end, which it may do at any *)
(* time, so it is not a step of its own.                                   *)
(***************************************************************************)
EXTENDS Integers, FiniteSets

CONSTANTS
    SshConns,       \* SSH connections, each accepted at most once
    IrcConns,       \* IRC connections, likewise
    Ips,            \* peer addresses
    Users,          \* accounts
    MaxConnsPerIp,  \* config.max_conns_per_ip
    ConnLimit,      \* permits of State::conn_limit
    MaxIrcPerUser,  \* config.irc.max_conns_per_user
    MaxDeletions,   \* bound: accounts deleted in a run
    None

ASSUME LimitsAssumption ==
    /\ MaxConnsPerIp \in Nat /\ ConnLimit \in Nat
    /\ MaxIrcPerUser \in Nat /\ MaxDeletions \in Nat

ASSUME ConnsAssumption ==
    /\ IsFiniteSet(SshConns) /\ IsFiniteSet(IrcConns) /\ SshConns \cap IrcConns = {}
    /\ None \notin Ips /\ None \notin Users

Conns == SshConns \cup IrcConns

VARIABLES
    at,             \* at[c]: where connection c's task is
    ip,             \* ip[c]: the peer address of an SSH connection
    user,           \* user[c]: the account it authenticated as
    counted,        \* SSH connections with active_user_incremented
    tokens,         \* SSH connections whose handler has a session_token
    app,            \* SSH connections whose handler built an App
    loop,           \* loop[c]: the render loop, which shares the App
    conn_counts,    \* State::conn_counts, 0 for no entry
    permits,        \* permits left in State::conn_limit
    roster,         \* State::active_users, count 0 for no entry
    online,         \* users in the tracker's active_since
    registry,       \* tokens in the SessionRegistry
    unregistering,  \* tokens a spawned task is about to unregister
    irc,            \* irc[u]: connections in the IrcRegistry
    accounts,       \* rows of the users table
    deleting        \* accounts do_delete_account has yet to take off the roster

held == <<at, ip, user, counted, tokens, app, loop>>
admission == <<conn_counts, permits>>
presence == <<roster, online>>
sessions == <<registry, unregistering>>
people == <<accounts, deleting>>
connVars == <<held, admission, presence, sessions, irc, people>>

Absent == [count |-> 0, sessions |-> {}]

ConnInit ==
    /\ at = [c \in Conns |-> "new"]
    /\ ip = [c \in Conns |-> None]
    /\ user = [c \in Conns |-> None]
    /\ counted = {} /\ tokens = {} /\ app = {}
    /\ loop = [c \in SshConns |-> "none"]
    /\ conn_counts = [i \in Ips |-> 0]
    /\ permits = ConnLimit
    /\ roster = [u \in Users |-> Absent]
    /\ online = {}
    /\ registry = {} /\ unregistering = {}
    /\ irc = [u \in Users |-> {}]
    /\ accounts = Users /\ deleting = {}

Moves(c, from, to) == at[c] = from /\ at' = [at EXCEPT ![c] = to]

-----------------------------------------------------------------------------
(* Server::admit *)

\* The limiter refuses, or the header before it is unreadable: nothing is held.
Refused(c) ==
    /\ Moves(c, "new", "gone")
    /\ UNCHANGED <<ip, user, counted, tokens, app, loop, admission, presence, sessions, irc, people>>

\* Under the conn_counts lock: one more connection of this address, or none.
TakeSlot(c, i) ==
    /\ at[c] = "new"
    /\ ip' = [ip EXCEPT ![c] = i]
    /\ \/ /\ conn_counts[i] >= MaxConnsPerIp
          /\ at' = [at EXCEPT ![c] = "gone"]
          /\ UNCHANGED conn_counts
       \/ /\ conn_counts[i] < MaxConnsPerIp
          /\ at' = [at EXCEPT ![c] = "slotted"]
          /\ conn_counts' = [conn_counts EXCEPT ![i] = @ + 1]
    /\ UNCHANGED <<user, counted, tokens, app, loop, permits, presence, sessions, irc, people>>

\* try_acquire_owned, which never waits.
TakePermit(c) ==
    /\ at[c] = "slotted"
    /\ \/ permits > 0 /\ permits' = permits - 1 /\ at' = [at EXCEPT ![c] = "open"]
       \/ permits = 0 /\ UNCHANGED permits /\ at' = [at EXCEPT ![c] = "refused"]
    /\ UNCHANGED <<ip, user, counted, tokens, app, loop, conn_counts, presence, sessions, irc, people>>

\* release_per_ip_slot: an entry is removed, never left at zero.
Released(counts, i) == [counts EXCEPT ![i] = IF @ <= 1 THEN 0 ELSE @ - 1]

\* Mutant: the slot of a connection turned away is kept.
KeepSlot(c) ==
    /\ Moves(c, "refused", "gone")
    /\ UNCHANGED <<ip, user, counted, tokens, app, loop, admission, presence, sessions, irc, people>>

\* The arm of admit that found no permit.
GiveSlotBack(c) ==
    /\ Moves(c, "refused", "gone")
    /\ conn_counts' = Released(conn_counts, ip[c])
    /\ UNCHANGED <<ip, user, counted, tokens, app, loop, permits, presence, sessions, irc, people>>

-----------------------------------------------------------------------------
(* The roster, as SSH and IRC connections change it *)

\* Mutant: a new connection replaces the user's entry.
EntersAlone(u, listed) ==
    /\ roster' = [roster EXCEPT ![u] = [count |-> 1, sessions |-> listed]]
    /\ online' = online \cup {u}

\* One more connection of u; the tracker hears of the first.
Enters(u, listed) ==
    /\ roster' = [roster EXCEPT ![u] = [count |-> @.count + 1, sessions |-> @.sessions \cup listed]]
    /\ online' = IF roster[u].count = 0 THEN online \cup {u} ELSE online

\* One less; the tracker hears of the last.  Without an entry nothing happens.
Leaves(u, token) ==
    /\ roster' = [roster EXCEPT ![u] =
                     IF @.count <= 1 THEN Absent
                     ELSE [count |-> @.count - 1, sessions |-> @.sessions \ {token}]]
    /\ online' = IF roster[u].count = 1 THEN online \ {u} ELSE online

-----------------------------------------------------------------------------
(* ClientHandler's callbacks: russh runs one at a time, to its end *)

\* auth_publickey up to ensure_user: the account is read here and used after
\* the awaits that follow.
Lookup(c, u) ==
    /\ Moves(c, "open", "authenticating")
    /\ user[c] = None /\ u \in accounts
    /\ user' = [user EXCEPT ![c] = u]
    /\ UNCHANGED <<ip, counted, tokens, app, loop, admission, presence, sessions, irc, people>>

\* The rest of auth_publickey.
Authenticate(c) ==
    /\ Moves(c, "authenticating", "open")
    /\ c \notin counted /\ counted' = counted \cup {c}
    /\ Enters(user[c], {})
    /\ UNCHANGED <<ip, user, tokens, app, loop, admission, sessions, irc, people>>

\* ensure_cli_session registers the handler's token once.
EnsureCliSession(c) ==
    /\ user[c] # None
    /\ tokens' = tokens \cup {c}
    /\ registry' = IF c \in tokens THEN registry ELSE registry \cup {c}

\* exec_request for the CLI's token.
ServeToken(c) ==
    /\ at[c] = "open"
    /\ EnsureCliSession(c)
    /\ UNCHANGED <<at, ip, user, counted, app, loop, admission, presence, unregistering, irc, people>>

\* pty_request, first await.
RequestPty(c) ==
    /\ Moves(c, "open", "tracking")
    /\ EnsureCliSession(c)
    /\ UNCHANGED <<ip, user, counted, app, loop, admission, presence, unregistering, irc, people>>

\* Mutant: the handler unregisters its token whether or not an App has it.
DropHandlerAlways(c) ==
    /\ at' = [at EXCEPT ![c] = "leaving"]
    /\ unregistering' = IF c \in tokens THEN unregistering \cup {c} ELSE unregistering

\* Drop for ClientHandler begins: without an App, which would do it, the
\* handler has its token unregistered.
DropHandler(c) ==
    /\ at' = [at EXCEPT ![c] = "leaving"]
    /\ unregistering' = IF c \in tokens \ app THEN unregistering \cup {c} ELSE unregistering

\* track_active_session_token, then the session's receiver is taken: a second
\* pty finds it gone and its error ends the connection.
TrackToken(c) ==
    /\ at[c] = "tracking"
    /\ roster' = IF roster[user[c]].count = 0 THEN roster
                 ELSE [roster EXCEPT ![user[c]] = [count |-> @.count, sessions |-> @.sessions \cup {c}]]
    /\ \/ c \in app /\ DropHandler(c)
       \/ c \notin app /\ at' = [at EXCEPT ![c] = "building"] /\ UNCHANGED unregistering
    /\ UNCHANGED <<ip, user, counted, tokens, app, loop, admission, online, registry, irc, people>>

\* The session loads and pty_request keeps its App.
BuildApp(c) ==
    /\ Moves(c, "building", "open")
    /\ app' = app \cup {c}
    /\ UNCHANGED <<ip, user, counted, tokens, loop, admission, presence, sessions, irc, people>>

\* App::new fails: the error ends the connection.
BuildFails(c) ==
    /\ at[c] = "building"
    /\ DropHandler(c)
    /\ UNCHANGED <<ip, user, counted, tokens, app, loop, admission, presence, registry, irc, people>>

\* shell_request spawns the render loop.
RequestShell(c) ==
    /\ at[c] = "open" /\ c \in app /\ loop[c] = "none"
    /\ loop' = [loop EXCEPT ![c] = "runs"]
    /\ UNCHANGED <<at, ip, user, counted, tokens, app, admission, presence, sessions, irc, people>>

\* The client hangs up, is refused, told to leave, or the transport fails.
Hangup(c) ==
    /\ at[c] = "open"
    /\ DropHandler(c)
    /\ UNCHANGED <<ip, user, counted, tokens, app, loop, admission, presence, registry, irc, people>>

-----------------------------------------------------------------------------
(* The rest of Drop for ClientHandler, Drop for App and what they spawn *)

\* The roster's lock section of Drop.
LeaveRoster(c) ==
    /\ Moves(c, "leaving", "releasing")
    /\ IF c \in counted THEN Leaves(user[c], c) ELSE UNCHANGED presence
    /\ UNCHANGED <<ip, user, counted, tokens, app, loop, admission, sessions, irc, people>>

\* The last statement of Drop.
ReleaseSlot(c) ==
    /\ Moves(c, "releasing", "emptied")
    /\ conn_counts' = Released(conn_counts, ip[c])
    /\ UNCHANGED <<ip, user, counted, tokens, app, loop, permits, presence, sessions, irc, people>>

\* Drop for App, when its last owner lets go.
DropApp(c) == unregistering' = unregistering \cup {c}

\* The handler's fields go after Drop: its permit and its share of the App.
DropFields(c) ==
    /\ Moves(c, "emptied", "gone")
    /\ permits' = permits + 1
    /\ IF c \in app /\ loop[c] # "runs" THEN DropApp(c) ELSE UNCHANGED unregistering
    /\ UNCHANGED <<ip, user, counted, tokens, app, loop, conn_counts, presence, registry, irc, people>>

\* The render loop ends (quit, stall, or a frame it cannot send).
EndLoop(c) ==
    /\ loop[c] = "runs"
    /\ loop' = [loop EXCEPT ![c] = "ended"]
    /\ IF at[c] = "gone" THEN DropApp(c) ELSE UNCHANGED unregistering
    /\ UNCHANGED <<at, ip, user, counted, tokens, app, admission, presence, registry, irc, people>>

\* The spawned SessionRegistry::unregister.
Unregister(c) ==
    /\ c \in unregistering
    /\ unregistering' = unregistering \ {c}
    /\ registry' = registry \ {c}
    /\ UNCHANGED <<held, admission, presence, irc, people>>

-----------------------------------------------------------------------------
(* ircd::conn::handle *)

\* register: the token's account is read, and awaits follow.
IrcLookup(c, u) ==
    /\ Moves(c, "new", "authenticating")
    /\ u \in accounts
    /\ user' = [user EXCEPT ![c] = u]
    /\ UNCHANGED <<ip, counted, tokens, app, loop, admission, presence, sessions, irc, people>>

\* IrcRegistry::try_register.
IrcRegister(c) ==
    /\ at[c] = "authenticating"
    /\ \/ /\ Cardinality(irc[user[c]]) >= MaxIrcPerUser
          /\ at' = [at EXCEPT ![c] = "gone"]
          /\ UNCHANGED irc
       \/ /\ Cardinality(irc[user[c]]) < MaxIrcPerUser
          /\ at' = [at EXCEPT ![c] = "registered"]
          /\ irc' = [irc EXCEPT ![user[c]] = @ \cup {c}]
    /\ UNCHANGED <<ip, user, counted, tokens, app, loop, admission, presence, sessions, people>>

\* track_active_irc_user.
IrcTrack(c) ==
    /\ Moves(c, "registered", "open")
    /\ Enters(user[c], {c})
    /\ UNCHANGED <<ip, user, counted, tokens, app, loop, admission, sessions, irc, people>>

\* The welcome fails or the session ends: either way out unregisters first.
IrcUnregister(c) ==
    /\ Moves(c, "open", "leaving")
    /\ irc' = [irc EXCEPT ![user[c]] = @ \ {c}]
    /\ UNCHANGED <<ip, user, counted, tokens, app, loop, admission, presence, sessions, people>>

\* untrack_active_irc_user.
IrcUntrack(c) ==
    /\ Moves(c, "leaving", "gone")
    /\ Leaves(user[c], c)
    /\ UNCHANGED <<ip, user, counted, tokens, app, loop, admission, sessions, irc, people>>

-----------------------------------------------------------------------------
(* do_delete_account, and do_link_account for the abandoned account *)

\* The row goes first; the live sessions are told meanwhile.
DeleteAccount(u) ==
    /\ u \in accounts
    /\ Cardinality(Users \ accounts) < MaxDeletions
    /\ accounts' = accounts \ {u}
    /\ deleting' = deleting \cup {u}
    /\ UNCHANGED <<held, admission, presence, sessions, irc>>

\* users.remove(&user_id), whoever still holds a connection.
Unlist(u) ==
    /\ u \in deleting
    /\ deleting' = deleting \ {u}
    /\ roster' = [roster EXCEPT ![u] = Absent]
    /\ UNCHANGED <<held, admission, online, sessions, irc, accounts>>

-----------------------------------------------------------------------------
\* Every connection is done and nothing is left to run.
Stopped ==
    /\ \A c \in Conns : at[c] = "gone"
    /\ \A c \in SshConns : loop[c] # "runs"
    /\ unregistering = {} /\ deleting = {}
    /\ UNCHANGED connVars

Callback(c) ==
    \/ Authenticate(c) \/ TrackToken(c) \/ BuildApp(c) \/ BuildFails(c)

DropStep(c) == LeaveRoster(c) \/ ReleaseSlot(c) \/ DropFields(c)

SshStep(c) ==
    \/ Refused(c) \/ (\E i \in Ips : TakeSlot(c, i)) \/ TakePermit(c) \/ GiveSlotBack(c)
    \/ (\E u \in Users : Lookup(c, u)) \/ ServeToken(c) \/ RequestPty(c) \/ RequestShell(c)
    \/ Hangup(c) \/ Callback(c) \/ DropStep(c) \/ EndLoop(c) \/ Unregister(c)

IrcStep(c) ==
    \/ \E u \in Users : IrcLookup(c, u)
    \/ Refused(c) \/ IrcRegister(c) \/ IrcTrack(c) \/ IrcUnregister(c) \/ IrcUntrack(c)

ConnNext ==
    \/ \E c \in SshConns : SshStep(c)
    \/ \E c \in IrcConns : IrcStep(c)
    \/ \E u \in Users : DeleteAccount(u) \/ Unlist(u)
    \/ Stopped

ConnSpec == ConnInit /\ [][ConnNext]_connVars

-----------------------------------------------------------------------------
(* Properties *)

SshPlaces == {"new", "slotted", "refused", "open", "authenticating", "tracking", "building",
              "leaving", "releasing", "emptied", "gone"}

IrcPlaces == {"new", "authenticating", "registered", "open", "leaving", "gone"}

TypeOK ==
    /\ at \in [Conns -> SshPlaces \cup IrcPlaces]
    /\ \A c \in SshConns : at[c] \in SshPlaces
    /\ \A c \in IrcConns : at[c] \in IrcPlaces
    /\ ip \in [Conns -> Ips \cup {None}]
    /\ user \in [Conns -> Users \cup {None}]
    /\ counted \subseteq SshConns /\ tokens \subseteq SshConns /\ app \subseteq tokens
    /\ loop \in [SshConns -> {"none", "runs", "ended"}]
    /\ conn_counts \in [Ips -> Nat] /\ permits \in Nat
    /\ roster \in [Users -> [count : Nat, sessions : SUBSET Conns]]
    /\ online \subseteq Users
    /\ registry \subseteq SshConns /\ unregistering \subseteq SshConns
    /\ irc \in [Users -> SUBSET IrcConns]
    /\ accounts \subseteq Users /\ deleting \subseteq Users

SlotHolders(i) ==
    {c \in SshConns : ip[c] = i /\ at[c] \notin {"new", "emptied", "gone"}}

PermitHolders == {c \in SshConns : at[c] \notin {"new", "slotted", "refused", "gone"}}

\* Admission's books balance at every step: an address is charged for exactly the
\* connections that took a slot and have not given it back (a connection turned
\* away at the global limit and one being dropped included), and the semaphore is
\* short of exactly the permits handlers hold.  A release too few locks an
\* address out for good; one too many lifts its limit.
AdmissionBalances ==
    /\ \A i \in Ips : conn_counts[i] = Cardinality(SlotHolders(i))
    /\ permits + Cardinality(PermitHolders) = ConnLimit

\* The connections that entered the roster as u and have not left it.
Present(u) ==
    {c \in counted : user[c] = u /\ at[c] \notin {"releasing", "emptied", "gone"}}
    \cup {c \in IrcConns : user[c] = u /\ at[c] \in {"open", "leaving"}}

\* connection_count of an account is the number of its connections over SSH and
\* IRC together, so the roster forgets a user exactly when the last one leaves.
\* An account whose deletion took it off the roster can only be undercounted: no
\* entry outlives its connections.
RosterCountsConnections ==
    \A u \in Users :
        /\ roster[u].count <= Cardinality(Present(u))
        /\ u \in accounts \cup deleting => roster[u].count = Cardinality(Present(u))

\* A session listed under a user belongs to a connection of that user which is
\* still there, and unless that connection is being dropped a message sent to it
\* finds it: an SSH token is in the session registry, an IRC one in the IRC
\* registry.
ListedSessionsAnswer ==
    \A u \in Users : \A c \in roster[u].sessions :
        /\ c \in Present(u)
        /\ at[c] # "leaving" => c \in registry \cup irc[u]

\* A session's token stays registered for as long as its App has an owner, the
\* handler or the render loop, and no longer: whichever lets go last has the
\* token unregistered, exactly one of the two Drop implementations doing it.
RegistryTracksSessions ==
    \A c \in tokens :
        IF c \in app /\ (at[c] # "gone" \/ loop[c] = "runs")
        THEN c \in registry /\ c \notin unregistering
        ELSE c \in registry => at[c] # "gone" \/ c \in unregistering

\* Everyone on the roster accrues online time, and of the accounts that still
\* exist only they do.
TrackerCoversRoster ==
    \A u \in Users :
        /\ roster[u].count > 0 => u \in online
        /\ u \in (accounts \cup deleting) \cap online => roster[u].count > 0

\* The maps that say who is here agree with the connections there are, and with
\* each other, whatever path a connection enters or leaves by.
PresenceAgrees == TypeOK /\ RosterCountsConnections /\ TrackerCoversRoster

\* Whoever looks a session up reaches it: a session is registered while it lives,
\* and none is listed that is not.
SessionsAreReachable == RegistryTracksSessions /\ ListedSessionsAnswer

=============================================================================
