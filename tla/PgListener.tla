----------------------------- MODULE PgListener -----------------------------
(***************************************************************************)
(* The one LISTEN connection each process holds (late-ssh/src/             *)
(* pg_listener.rs): it reconnects for ever, tells every subscribed domain  *)
(* to re-read once its LISTEN is live, and routes each notification to the *)
(* domains that asked for its channel.  This module has the listener's own *)
(* state and steps; PgFanout and PotFeed compose it with what writes and   *)
(* what reads.                                                             *)
(***************************************************************************)
EXTENDS Naturals, Sequences

CONSTANTS
    Replicas,       \* the processes
    Domains,        \* the subscribers of a process
    ChannelsOf(_)   \* the channels each domain names in its CHANNELS

VARIABLES
    link,       \* how far a process's LISTEN connection is
    wire,       \* notifications Postgres has sent a process and it has not read
    inbox       \* each domain's unbounded queue of signals

listener == <<link, wire, inbox>>

Resync == [kind |-> "resync"]
Notify(message) == [kind |-> "notify", message |-> message]

ListenerInit ==
    /\ link = [r \in Replicas |-> "down"]
    /\ wire = [r \in Replicas |-> <<>>]
    /\ inbox = [r \in Replicas |-> [d \in Domains |-> <<>>]]

\* The session is registered with Postgres.
Listening(r) == link[r] \in {"listening", "live"}

\* A committed pg_notify goes to every session that listens at that moment.
Broadcast(message) ==
    wire' = [r \in Replicas |-> IF Listening(r) THEN Append(wire[r], message) ELSE wire[r]]

\* start: five seconds later the loop connects again.
Connect(r) ==
    /\ link[r] = "down"
    /\ link' = [link EXCEPT ![r] = "connected"]
    /\ UNCHANGED <<wire, inbox>>

\* Postgres runs the LISTEN statements; the process has not heard so yet.
ListenTakesEffect(r) ==
    /\ link[r] = "connected"
    /\ link' = [link EXCEPT ![r] = "listening"]
    /\ UNCHANGED <<wire, inbox>>

\* Mutant: no Resync for a domain that has signals waiting anyway.
ListenCoalesced(r) ==
    /\ link[r] = "listening"
    /\ link' = [link EXCEPT ![r] = "live"]
    /\ inbox' = [inbox EXCEPT ![r] = [d \in Domains |->
                     IF inbox[r][d] = <<>> THEN <<Resync>> ELSE inbox[r][d]]]
    /\ UNCHANGED wire

\* listen_once: LISTEN has answered, every domain gets a Resync.
ListenAnnounced(r) ==
    /\ link[r] = "listening"
    /\ link' = [link EXCEPT ![r] = "live"]
    /\ inbox' = [inbox EXCEPT ![r] = [d \in Domains |-> Append(inbox[r][d], Resync)]]
    /\ UNCHANGED wire

\* route: to each domain that asked for the channel, also while the answer to
\* LISTEN is still awaited.
Route(r) ==
    /\ Listening(r)
    /\ wire[r] # <<>>
    /\ LET message == Head(wire[r])
       IN  inbox' = [inbox EXCEPT ![r] = [d \in Domains |->
                         IF message.channel \in ChannelsOf(d)
                         THEN Append(inbox[r][d], Notify(message)) ELSE inbox[r][d]]]
    /\ wire' = [wire EXCEPT ![r] = Tail(wire[r])]
    /\ UNCHANGED link

\* The connection drops, with whatever it had not delivered.
Disconnect(r) ==
    /\ link[r] # "down"
    /\ link' = [link EXCEPT ![r] = "down"]
    /\ wire' = [wire EXCEPT ![r] = <<>>]
    /\ UNCHANGED inbox

ListenerStep(r) == Connect(r) \/ ListenTakesEffect(r) \/ ListenAnnounced(r) \/ Route(r)
=============================================================================
