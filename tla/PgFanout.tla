------------------------------ MODULE PgFanout ------------------------------
(***************************************************************************)
(* The listeners of the replicas under writers that commit notifications   *)
(* and domain workers that drain their queues.  Auxiliary variables record *)
(* what was committed and what each worker was handed.                     *)
(***************************************************************************)
EXTENDS Naturals, Sequences

CONSTANTS
    Processes,      \* the replicas
    Subscribers,    \* the domains of each
    Named(_),       \* the channels a domain names in its CHANNELS
    Channels,       \* the channels written to
    MaxCommits,     \* bound: notifications committed
    MaxDrops        \* bound: dropped connections

VARIABLES
    fanLink, fanWire, fanInbox,    \* the listener of each process
    sent,       \* auxiliary: every committed notification, in commit order
    taken,      \* auxiliary: every signal a domain's worker took
    covered,    \* auxiliary: how much of `sent` precedes a domain's last Resync
    drops       \* dropped connections so far

fanVars == <<fanLink, fanWire, fanInbox, sent, taken, covered, drops>>

Listener == INSTANCE PgListener WITH
    Replicas <- Processes, Domains <- Subscribers, ChannelsOf <- Named,
    link <- fanLink, wire <- fanWire, inbox <- fanInbox

FanInit ==
    /\ Listener!ListenerInit
    /\ sent = <<>>
    /\ taken = [r \in Processes |-> [d \in Subscribers |-> <<>>]]
    /\ covered = [r \in Processes |-> [d \in Subscribers |-> 0]]
    /\ drops = 0

\* A transaction anywhere commits a notification.
Commit(channel) ==
    /\ Len(sent) < MaxCommits
    /\ LET message == [channel |-> channel, id |-> Len(sent) + 1]
       IN  sent' = Append(sent, message) /\ Listener!Broadcast(message)
    /\ UNCHANGED <<fanLink, fanInbox, taken, covered, drops>>

Reconnect(r) ==
    /\ Listener!Connect(r) \/ Listener!ListenTakesEffect(r)
    /\ UNCHANGED <<sent, taken, covered, drops>>

Announce(r) ==
    /\ Listener!ListenAnnounced(r)
    /\ covered' = [covered EXCEPT ![r] = [d \in Subscribers |->
                       IF fanInbox'[r][d] # fanInbox[r][d] THEN Len(sent) ELSE covered[r][d]]]
    /\ UNCHANGED <<sent, taken, drops>>

Deliver(r) ==
    /\ Listener!Route(r)
    /\ UNCHANGED <<sent, taken, covered, drops>>

\* A domain's worker takes its next signal.
Take(r, d) ==
    /\ fanInbox[r][d] # <<>>
    /\ taken' = [taken EXCEPT ![r][d] = Append(@, Head(fanInbox[r][d]))]
    /\ fanInbox' = [fanInbox EXCEPT ![r][d] = Tail(@)]
    /\ UNCHANGED <<fanLink, fanWire, sent, covered, drops>>

FanDrop(r) ==
    /\ drops < MaxDrops
    /\ drops' = drops + 1
    /\ Listener!Disconnect(r)
    /\ UNCHANGED <<sent, taken, covered>>

FanNext ==
    \/ \E channel \in Channels : Commit(channel)
    \/ \E r \in Processes : Reconnect(r) \/ Announce(r) \/ Deliver(r) \/ FanDrop(r)
    \/ \E r \in Processes, d \in Subscribers : Take(r, d)

FanSpec == FanInit /\ [][FanNext]_fanVars

-----------------------------------------------------------------------------
(* Properties *)

\* Everything a domain was ever handed, taken or not.
Handed(r, d) == taken[r][d] \o fanInbox[r][d]

\* The places of the notifications among it.
Notices(r, d) == {i \in DOMAIN Handed(r, d) : Handed(r, d)[i].kind = "notify"}

\* While the LISTEN is live, every notification committed on a domain's channels
\* is under way to it, was handed to it, or was committed before its last Resync
\* was queued: a write in the gap of a reconnection, or between connecting and
\* LISTEN, is always followed by a re-read.
GapIsResynced ==
    \A r \in Processes, d \in Subscribers : fanLink[r] = "live" =>
        \A n \in DOMAIN sent : sent[n].channel \in Named(d) =>
            \/ n <= covered[r][d]
            \/ \E k \in DOMAIN fanWire[r] : fanWire[r][k] = sent[n]
            \/ \E i \in DOMAIN Handed(r, d) : Handed(r, d)[i] = Listener!Notify(sent[n])

\* A domain is handed notifications in commit order, none twice and none of a
\* channel it did not ask for, across any number of reconnections; what is still
\* under way comes after it, in the same order.
HandedInCommitOrder ==
    \A r \in Processes, d \in Subscribers :
        /\ \A i, j \in Notices(r, d) : i < j => Handed(r, d)[i].message.id < Handed(r, d)[j].message.id
        /\ \A i \in Notices(r, d) : /\ Handed(r, d)[i].message.channel \in Named(d)
                                    /\ \A k \in DOMAIN fanWire[r] : Handed(r, d)[i].message.id < fanWire[r][k].id
        /\ \A k, l \in DOMAIN fanWire[r] : k < l => fanWire[r][k].id < fanWire[r][l].id

\* What a listener does not hand over it makes up for, and what it hands over is in
\* order.
ListenerLosesNothing == GapIsResynced /\ HandedInCommitOrder

=============================================================================
