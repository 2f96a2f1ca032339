------------------------- MODULE ConnectionsProofs -------------------------
(***************************************************************************)
(* Proofs about module Connections, for any number of connections,         *)
(* addresses and users and any limits: admission's books balance, the      *)
(* roster counts the connections there are, and whoever looks a session up *)
(* reaches it.  Then module IpRateLimiter, for any limits: it errs on      *)
(* neither side by more than the delay of a lock.                          *)
(***************************************************************************)
EXTENDS Connections, IpRateLimiter, SumFacts

\* Where a handler being dropped is.
Dropping == {"leaving", "releasing", "emptied", "gone"}

\* What an SSH connection's own place says of what it holds.  Everything a drop
\* has to undo is known by then: the address of a slot, the account of a roster
\* entry or a token, the token of an App.
SshLocal(c) ==
    /\ at[c] \notin {"new", "gone"} => ip[c] \in Ips
    /\ at[c] \in {"new", "slotted", "refused"} => user[c] = None
    /\ at[c] = "authenticating" => user[c] # None
    /\ at[c] \in {"open", "tracking", "building"} /\ user[c] # None => c \in counted
    /\ at[c] \in {"tracking", "building"} => c \in tokens
    /\ c \in counted \cup tokens => user[c] # None
    /\ loop[c] = "runs" => c \in app

\* A token is registered while its handler serves; once the handler is being
\* dropped without an App, a token still registered is about to be taken out.
TokenIsKept(c) ==
    /\ c \in registry \cup unregistering => c \in tokens
    /\ c \in tokens /\ at[c] \notin Dropping => c \in registry /\ c \notin unregistering
    /\ c \in tokens \ app /\ at[c] \in Dropping /\ c \in registry => c \in unregistering

\* An IRC connection has its account from the lookup on, and is in the IRC
\* registry between registering and leaving.
IrcLocal(c) ==
    /\ at[c] \notin {"new", "gone"} => user[c] # None
    /\ at[c] \in {"registered", "open"} => c \in irc[user[c]]

\* What every connection knows of itself.
Local ==
    /\ \A c \in SshConns : SshLocal(c) /\ TokenIsKept(c)
    /\ \A c \in IrcConns : IrcLocal(c)

\* The inductive invariant.
ConnInv ==
    /\ TypeOK
    /\ Local
    /\ accounts \cap deleting = {}
    /\ AdmissionBalances
    /\ RosterCountsConnections /\ TrackerCoversRoster
    /\ RegistryTracksSessions /\ ListedSessionsAnswer

-----------------------------------------------------------------------------
(* Types and what connections know of themselves *)

\* The state variables a connection's own step leaves alone, spelled out.
USE DEF admission, presence, sessions, people

\* A step of an SSH connection keeps the types.
LEMMA SshType ==
    ASSUME TypeOK, Local, NEW c \in SshConns, SshStep(c)
    PROVE  TypeOK'
<1> USE LimitsAssumption, ConnsAssumption DEF TypeOK, Conns, SshPlaces, IrcPlaces
<1>0. SshLocal(c) /\ c \in Conns
  BY DEF Local
<1>1. CASE Refused(c)
  BY <1>0, <1>1, SMTT(30) DEF Refused, Moves, SshLocal
<1>2. CASE TakePermit(c)
  BY <1>0, <1>2, SMTT(30) DEF TakePermit, SshLocal
<1>3. CASE GiveSlotBack(c)
  BY <1>0, <1>3, SMTT(30) DEF GiveSlotBack, Moves, Released, SshLocal
<1>4. CASE ServeToken(c)
  BY <1>0, <1>4, SMTT(30) DEF ServeToken, EnsureCliSession, SshLocal
<1>5. CASE RequestPty(c)
  BY <1>0, <1>5, SMTT(30) DEF RequestPty, Moves, EnsureCliSession, SshLocal
<1>6. CASE RequestShell(c)
  BY <1>0, <1>6, SMTT(30) DEF RequestShell, SshLocal
<1>7. CASE Hangup(c)
  BY <1>0, <1>7, SMTT(30) DEF Hangup, DropHandler, SshLocal
<1>8. CASE Authenticate(c)
  BY <1>0, <1>8, SMTT(30) DEF Authenticate, Moves, Enters, SshLocal
<1>9. CASE TrackToken(c)
  BY <1>0, <1>9, SMTT(30) DEF TrackToken, DropHandler, SshLocal
<1>10. CASE BuildApp(c)
  BY <1>0, <1>10, SMTT(30) DEF BuildApp, Moves, SshLocal
<1>11. CASE BuildFails(c)
  BY <1>0, <1>11, SMTT(30) DEF BuildFails, DropHandler, SshLocal
<1>12. CASE LeaveRoster(c)
  BY <1>0, <1>12, SMTT(30) DEF LeaveRoster, Moves, Leaves, Absent, SshLocal
<1>13. CASE ReleaseSlot(c)
  BY <1>0, <1>13, SMTT(30) DEF ReleaseSlot, Moves, Released, SshLocal
<1>14. CASE DropFields(c)
  BY <1>0, <1>14, SMTT(30) DEF DropFields, Moves, DropApp, SshLocal
<1>15. CASE EndLoop(c)
  BY <1>0, <1>15, SMTT(30) DEF EndLoop, DropApp, SshLocal
<1>16. CASE Unregister(c)
  BY <1>0, <1>16, SMTT(30) DEF Unregister, held, Dropping, SshLocal
<1>17. ASSUME NEW i \in Ips, TakeSlot(c, i) PROVE TypeOK'
  BY <1>0, <1>17, SMTT(30) DEF TakeSlot
<1>18. ASSUME NEW u \in Users, Lookup(c, u) PROVE TypeOK'
  BY <1>0, <1>18, SMTT(30) DEF Lookup, Moves
<1> QED
  BY <1>1, <1>2, <1>3, <1>4, <1>5, <1>6, <1>7, <1>8, <1>9, <1>10, <1>11, <1>12, <1>13, <1>14, <1>15, <1>16, <1>17, <1>18, Zenon DEF SshStep, Callback, DropStep

\* A step of an SSH connection keeps what every connection knows of itself.
LEMMA SshKeepsLocal ==
    ASSUME TypeOK, Local, RegistryTracksSessions, NEW c \in SshConns, SshStep(c)
    PROVE  Local'
<1> USE ConnsAssumption DEF TypeOK, Conns, SshPlaces, IrcPlaces, Dropping
<1>0. /\ c \in Conns /\ c \notin IrcConns
      /\ \A d \in SshConns : SshLocal(d) /\ TokenIsKept(d)
      /\ \A d \in IrcConns : IrcLocal(d)
      /\ RegistryTracksSessions
  BY DEF Local
<1>1. CASE Refused(c)
  BY <1>0, <1>1, SMTT(30) DEF Refused, Moves, Local, SshLocal, TokenIsKept, IrcLocal
<1>2. CASE TakePermit(c)
  BY <1>0, <1>2, SMTT(30) DEF TakePermit, Local, SshLocal, TokenIsKept, IrcLocal
<1>3. CASE GiveSlotBack(c)
  BY <1>0, <1>3, SMTT(30) DEF GiveSlotBack, Moves, Local, SshLocal, TokenIsKept, IrcLocal
<1>4. CASE ServeToken(c)
  BY <1>0, <1>4, SMTT(30) DEF ServeToken, EnsureCliSession, Local, SshLocal, TokenIsKept, IrcLocal
<1>5. CASE RequestPty(c)
  BY <1>0, <1>5, SMTT(30) DEF RequestPty, Moves, EnsureCliSession, Local, SshLocal, TokenIsKept, IrcLocal
<1>6. CASE RequestShell(c)
  BY <1>0, <1>6, SMTT(30) DEF RequestShell, Local, SshLocal, TokenIsKept, IrcLocal
<1>7. CASE Hangup(c)
  BY <1>0, <1>7, SMTT(30) DEF Hangup, DropHandler, Local, SshLocal, TokenIsKept, IrcLocal
<1>8. CASE Authenticate(c)
  BY <1>0, <1>8, SMTT(30) DEF Authenticate, Moves, Local, SshLocal, TokenIsKept, IrcLocal
<1>9. CASE TrackToken(c)
  BY <1>0, <1>9, SMTT(30) DEF TrackToken, DropHandler, Local, SshLocal, TokenIsKept, IrcLocal
<1>10. CASE BuildApp(c)
  BY <1>0, <1>10, SMTT(30) DEF BuildApp, Moves, Local, SshLocal, TokenIsKept, IrcLocal
<1>11. CASE BuildFails(c)
  BY <1>0, <1>11, SMTT(30) DEF BuildFails, DropHandler, Local, SshLocal, TokenIsKept, IrcLocal
<1>12. CASE LeaveRoster(c)
  BY <1>0, <1>12, SMTT(30) DEF LeaveRoster, Moves, Local, SshLocal, TokenIsKept, IrcLocal
<1>13. CASE ReleaseSlot(c)
  BY <1>0, <1>13, SMTT(30) DEF ReleaseSlot, Moves, Local, SshLocal, TokenIsKept, IrcLocal
<1>14. CASE DropFields(c)
  BY <1>0, <1>14, SMTT(30) DEF DropFields, Moves, DropApp, Local, SshLocal, TokenIsKept, IrcLocal
<1>15. CASE EndLoop(c)
  BY <1>0, <1>15, SMTT(30) DEF EndLoop, DropApp, Local, SshLocal, TokenIsKept, IrcLocal
<1>16. CASE Unregister(c)
  BY <1>0, <1>16, SMTT(30) DEF Unregister, held, RegistryTracksSessions, Local, SshLocal, TokenIsKept, IrcLocal
<1>17. ASSUME NEW i \in Ips, TakeSlot(c, i) PROVE Local'
  BY <1>0, <1>17, SMTT(30) DEF TakeSlot, Local, SshLocal, TokenIsKept, IrcLocal
<1>18. ASSUME NEW u \in Users, Lookup(c, u) PROVE Local'
  BY <1>0, <1>18, SMTT(30) DEF Lookup, Moves, Local, SshLocal, TokenIsKept, IrcLocal
<1> QED
  BY <1>1, <1>2, <1>3, <1>4, <1>5, <1>6, <1>7, <1>8, <1>9, <1>10, <1>11, <1>12, <1>13, <1>14, <1>15, <1>16, <1>17, <1>18, Zenon DEF SshStep, Callback, DropStep
\* A step of an IRC connection keeps both.
LEMMA IrcKeepsLocal ==
    ASSUME TypeOK, Local, NEW c \in IrcConns, IrcStep(c)
    PROVE  TypeOK' /\ Local'
<1> USE ConnsAssumption DEF TypeOK, Conns, SshPlaces, IrcPlaces, Dropping, Local, SshLocal, TokenIsKept, IrcLocal
<1>0. /\ c \in Conns /\ c \notin SshConns
      /\ \A d \in SshConns : SshLocal(d) /\ TokenIsKept(d)
      /\ \A d \in IrcConns : IrcLocal(d)
  OBVIOUS
<1>1. ASSUME NEW u \in Users, IrcLookup(c, u) PROVE TypeOK' /\ Local'
  BY <1>0, <1>1, SMTT(30) DEF IrcLookup, Moves
<1>2. CASE Refused(c)
  BY <1>0, <1>2, SMTT(30) DEF Refused, Moves
<1>3. CASE IrcRegister(c)
  BY <1>0, <1>3, SMTT(30) DEF IrcRegister
<1>4. CASE IrcTrack(c)
  BY <1>0, <1>4, SMTT(30) DEF IrcTrack, Moves, Enters
<1>5. CASE IrcUnregister(c)
  BY <1>0, <1>5, SMTT(30) DEF IrcUnregister, Moves
<1>6. CASE IrcUntrack(c)
  BY <1>0, <1>6, SMTT(30) DEF IrcUntrack, Moves, Leaves, Absent
<1> QED
  BY <1>1, <1>2, <1>3, <1>4, <1>5, <1>6, Zenon DEF IrcStep

\* The deletion of an account changes what no connection holds.
LEMMA DeletionKeepsLocal ==
    ASSUME TypeOK, Local, NEW u \in Users, DeleteAccount(u) \/ Unlist(u)
    PROVE  TypeOK' /\ Local'
  BY SMTT(30) DEF DeleteAccount, Unlist, Absent, held, TypeOK, Conns, SshPlaces, IrcPlaces, Dropping,
                  Local, SshLocal, TokenIsKept, IrcLocal
-----------------------------------------------------------------------------
(* The session registry *)

\* A step of an SSH connection keeps the registry in step with the sessions.
LEMMA SshKeepsRegistry ==
    ASSUME TypeOK, Local, RegistryTracksSessions, NEW c \in SshConns, SshStep(c)
    PROVE  RegistryTracksSessions'
<1> USE ConnsAssumption DEF TypeOK, Conns, SshPlaces, Dropping
<1>0. /\ c \in Conns
      /\ \A d \in SshConns : SshLocal(d) /\ TokenIsKept(d)
      /\ RegistryTracksSessions
  BY DEF Local
<1>1. CASE Refused(c)
  BY <1>0, <1>1, SMTT(30) DEF Refused, Moves, RegistryTracksSessions, SshLocal, TokenIsKept
<1>2. CASE TakePermit(c)
  BY <1>0, <1>2, SMTT(30) DEF TakePermit, RegistryTracksSessions, SshLocal, TokenIsKept
<1>3. CASE GiveSlotBack(c)
  BY <1>0, <1>3, SMTT(30) DEF GiveSlotBack, Moves, RegistryTracksSessions, SshLocal, TokenIsKept
<1>4. CASE ServeToken(c)
  BY <1>0, <1>4, SMTT(30) DEF ServeToken, EnsureCliSession, RegistryTracksSessions, SshLocal, TokenIsKept
<1>5. CASE RequestPty(c)
  BY <1>0, <1>5, SMTT(30) DEF RequestPty, Moves, EnsureCliSession, RegistryTracksSessions, SshLocal, TokenIsKept
<1>6. CASE RequestShell(c)
  BY <1>0, <1>6, SMTT(30) DEF RequestShell, RegistryTracksSessions, SshLocal, TokenIsKept
<1>7. CASE Hangup(c)
  BY <1>0, <1>7, SMTT(30) DEF Hangup, DropHandler, RegistryTracksSessions, SshLocal, TokenIsKept
<1>8. CASE Authenticate(c)
  BY <1>0, <1>8, SMTT(30) DEF Authenticate, Moves, RegistryTracksSessions, SshLocal, TokenIsKept
<1>9. CASE TrackToken(c)
  BY <1>0, <1>9, SMTT(30) DEF TrackToken, DropHandler, RegistryTracksSessions, SshLocal, TokenIsKept
<1>10. CASE BuildApp(c)
  BY <1>0, <1>10, SMTT(30) DEF BuildApp, Moves, RegistryTracksSessions, SshLocal, TokenIsKept
<1>11. CASE BuildFails(c)
  BY <1>0, <1>11, SMTT(30) DEF BuildFails, DropHandler, RegistryTracksSessions, SshLocal, TokenIsKept
<1>12. CASE LeaveRoster(c)
  BY <1>0, <1>12, SMTT(30) DEF LeaveRoster, Moves, RegistryTracksSessions, SshLocal, TokenIsKept
<1>13. CASE ReleaseSlot(c)
  BY <1>0, <1>13, SMTT(30) DEF ReleaseSlot, Moves, RegistryTracksSessions, SshLocal, TokenIsKept
<1>14. CASE DropFields(c)
  BY <1>0, <1>14, SMTT(30) DEF DropFields, Moves, DropApp, RegistryTracksSessions, SshLocal, TokenIsKept
<1>15. CASE EndLoop(c)
  BY <1>0, <1>15, SMTT(30) DEF EndLoop, DropApp, RegistryTracksSessions, SshLocal, TokenIsKept
<1>16. CASE Unregister(c)
  BY <1>0, <1>16, SMTT(30) DEF Unregister, held, RegistryTracksSessions, SshLocal, TokenIsKept
<1>17. ASSUME NEW i \in Ips, TakeSlot(c, i) PROVE RegistryTracksSessions'
  BY <1>0, <1>17, SMTT(30) DEF TakeSlot, RegistryTracksSessions, SshLocal, TokenIsKept
<1>18. ASSUME NEW u \in Users, Lookup(c, u) PROVE RegistryTracksSessions'
  BY <1>0, <1>18, SMTT(30) DEF Lookup, Moves, RegistryTracksSessions, SshLocal, TokenIsKept
<1> QED
  BY <1>1, <1>2, <1>3, <1>4, <1>5, <1>6, <1>7, <1>8, <1>9, <1>10, <1>11, <1>12, <1>13, <1>14, <1>15, <1>16, <1>17, <1>18, Zenon DEF SshStep, Callback, DropStep
-----------------------------------------------------------------------------
(* Who is present *)

\* The step takes nobody in or out.
NobodyMoves == \A u \in Users : Present(u)' = Present(u)

\* The step makes c, who was not there, one of the connections of u.
Joins(c, u) ==
    /\ c \notin Present(u) /\ Present(u)' = Present(u) \cup {c}
    /\ \A v \in Users \ {u} : Present(v)' = Present(v)

\* The step takes c away from the connections of u.
Parts(c, u) ==
    /\ c \in Present(u) /\ Present(u)' = Present(u) \ {c}
    /\ \A v \in Users \ {u} : Present(v)' = Present(v)

\* A user has finitely many connections, each one with its own.
LEMMA PresentIsFinite ==
    ASSUME TypeOK, NEW u \in Users
    PROVE  IsFiniteSet(Present(u)) /\ Cardinality(Present(u)) \in Nat
<1>1. IsFiniteSet(SshConns \cup IrcConns)
  BY FS_Union, ConnsAssumption
<1>2. Present(u) \subseteq SshConns \cup IrcConns
  BY DEF Present, TypeOK
<1> QED BY <1>1, <1>2, FS_Subset, FS_CardinalityType

\* A connection that enters the roster as it becomes present keeps the count
\* exact, and the tracker has heard of its user.
LEMMA EnteringKeepsCount ==
    ASSUME TypeOK, RosterCountsConnections, TrackerCoversRoster,
           NEW u \in Users, NEW c, NEW listed, Joins(c, u), Enters(u, listed), UNCHANGED people
    PROVE  RosterCountsConnections' /\ TrackerCoversRoster'
<1>1. /\ IsFiniteSet(Present(u)) /\ Cardinality(Present(u)) \in Nat
      /\ Cardinality(Present(u)') = Cardinality(Present(u)) + 1
  BY PresentIsFinite, FS_AddElement DEF Joins
<1>2. \A v \in Users \ {u} : Cardinality(Present(v)') = Cardinality(Present(v))
  BY DEF Joins
<1>3. roster'[u].count = roster[u].count + 1 /\ \A v \in Users \ {u} : roster'[v] = roster[v]
  BY SMT DEF Enters, TypeOK
<1>4. RosterCountsConnections'
  BY <1>1, <1>2, <1>3, SMT DEF RosterCountsConnections, TypeOK
<1>5. TrackerCoversRoster'
  BY <1>3, SMT DEF TrackerCoversRoster, Enters, TypeOK
<1> QED BY <1>4, <1>5

\* A connection that leaves the roster as it goes keeps the count exact, and the
\* tracker has heard of the last.
LEMMA LeavingKeepsCount ==
    ASSUME TypeOK, RosterCountsConnections, TrackerCoversRoster,
           NEW u \in Users, NEW c, Parts(c, u), Leaves(u, c), UNCHANGED people
    PROVE  RosterCountsConnections' /\ TrackerCoversRoster'
<1>1. /\ IsFiniteSet(Present(u)) /\ Cardinality(Present(u)) \in Nat \ {0}
      /\ Cardinality(Present(u)') = Cardinality(Present(u)) - 1
  BY PresentIsFinite, FS_RemoveElement, FS_EmptySet DEF Parts
<1>2. \A v \in Users \ {u} : Cardinality(Present(v)') = Cardinality(Present(v))
  BY DEF Parts
<1>3. /\ roster'[u].count = IF roster[u].count <= 1 THEN 0 ELSE roster[u].count - 1
      /\ \A v \in Users \ {u} : roster'[v] = roster[v]
  BY SMT DEF Leaves, Absent, TypeOK
<1>4. RosterCountsConnections'
  <2>1. /\ roster[u].count \in Nat /\ roster[u].count <= Cardinality(Present(u))
        /\ u \in accounts \cup deleting => roster[u].count = Cardinality(Present(u))
    BY DEF RosterCountsConnections, TypeOK
  <2>2. /\ roster'[u].count <= Cardinality(Present(u)')
        /\ u \in accounts \cup deleting => roster'[u].count = Cardinality(Present(u)')
    BY <1>1, <1>3, <2>1, SMT
  <2>3. ASSUME NEW v \in Users \ {u}
        PROVE  /\ roster'[v].count <= Cardinality(Present(v)')
               /\ v \in accounts \cup deleting => roster'[v].count = Cardinality(Present(v)')
    BY <1>2, <1>3, <2>3, SMT DEF RosterCountsConnections
  <2> QED BY <2>2, <2>3, SMT DEF RosterCountsConnections
<1>5. TrackerCoversRoster'
  BY <1>3, SMT DEF TrackerCoversRoster, Leaves, TypeOK
<1> QED BY <1>4, <1>5

\* Where nobody moves, no count and no account changes, both stay as they are.
LEMMA NobodyMovesKeepsCount ==
    ASSUME TypeOK, RosterCountsConnections, TrackerCoversRoster, NobodyMoves,
           \A u \in Users : roster'[u].count = roster[u].count,
           UNCHANGED <<online, people>>
    PROVE  RosterCountsConnections' /\ TrackerCoversRoster'
<1>1. \A v \in Users : Cardinality(Present(v)') = Cardinality(Present(v))
  BY DEF NobodyMoves
<1> QED BY <1>1, SMT DEF RosterCountsConnections, TrackerCoversRoster
\* What a step of connection c does to the roster and to who is present: nothing,
\* or c enters it, or c leaves it.
RosterMoves(c) ==
    /\ UNCHANGED people
    /\ \/ /\ NobodyMoves /\ UNCHANGED online
          /\ \A u \in Users : roster'[u].count = roster[u].count
       \/ \E u \in Users : Joins(c, u) /\ \E listed : Enters(u, listed)
       \/ \E u \in Users : Parts(c, u) /\ Leaves(u, c)

\* Whichever it does, the roster goes on counting the connections.
LEMMA RosterMovesKeepsCount ==
    ASSUME TypeOK, RosterCountsConnections, TrackerCoversRoster, NEW c, RosterMoves(c)
    PROVE  RosterCountsConnections' /\ TrackerCoversRoster'
<1>1. CASE /\ NobodyMoves /\ UNCHANGED <<online, people>>
           /\ \A u \in Users : roster'[u].count = roster[u].count
  BY <1>1, NobodyMovesKeepsCount
<1>2. ASSUME NEW u \in Users, NEW listed, Joins(c, u), Enters(u, listed), UNCHANGED people
      PROVE  RosterCountsConnections' /\ TrackerCoversRoster'
  BY <1>2, EnteringKeepsCount
<1>3. ASSUME NEW u \in Users, Parts(c, u), Leaves(u, c), UNCHANGED people
      PROVE  RosterCountsConnections' /\ TrackerCoversRoster'
  BY <1>3, LeavingKeepsCount
<1> QED BY <1>1, <1>2, <1>3 DEF RosterMoves

\* Entering the roster on becoming present is such a move, and so is leaving it.
LEMMA EntersOrLeaves ==
    ASSUME NEW c, NEW u \in Users, UNCHANGED people
    PROVE  /\ \A listed : Joins(c, u) /\ Enters(u, listed) => RosterMoves(c)
           /\ Parts(c, u) /\ Leaves(u, c) => RosterMoves(c)
  BY Zenon DEF RosterMoves

\* A connection is counted in the roster once, from its authentication to the
\* roster section of its handler's drop.
LEMMA SshMovesRoster ==
    ASSUME TypeOK, Local, NEW c \in SshConns, SshStep(c)
    PROVE  RosterMoves(c)
<1> USE ConnsAssumption DEF TypeOK, Conns, SshPlaces, IrcPlaces, NobodyMoves, Present
<1>0. c \in Conns /\ c \notin IrcConns /\ SshLocal(c)
  BY DEF Local
<1>1. CASE Refused(c)
  BY <1>0, <1>1, SMTT(30) DEF Refused, Moves, RosterMoves, SshLocal
<1>2. CASE TakePermit(c)
  BY <1>0, <1>2, SMTT(30) DEF TakePermit, RosterMoves, SshLocal
<1>3. CASE GiveSlotBack(c)
  BY <1>0, <1>3, SMTT(30) DEF GiveSlotBack, Moves, RosterMoves, SshLocal
<1>4. CASE ServeToken(c)
  BY <1>0, <1>4, SMTT(30) DEF ServeToken, EnsureCliSession, RosterMoves, SshLocal
<1>5. CASE RequestPty(c)
  BY <1>0, <1>5, SMTT(30) DEF RequestPty, Moves, EnsureCliSession, RosterMoves, SshLocal
<1>6. CASE RequestShell(c)
  BY <1>0, <1>6, SMTT(30) DEF RequestShell, RosterMoves, SshLocal
<1>7. CASE Hangup(c)
  BY <1>0, <1>7, SMTT(30) DEF Hangup, DropHandler, RosterMoves, SshLocal
<1>8. CASE Authenticate(c)
  <2>1. user[c] \in Users /\ Joins(c, user[c])
    BY <1>0, <1>8, SMTT(30) DEF Authenticate, Moves, SshLocal, Joins
  <2>2. Enters(user[c], {}) /\ UNCHANGED people
    BY <1>8 DEF Authenticate
  <2> HIDE DEF Present, TypeOK
  <2> QED BY <2>1, <2>2, EntersOrLeaves
<1>9. CASE TrackToken(c)
  <2>1. NobodyMoves
    BY <1>0, <1>9, SMTT(30) DEF TrackToken, DropHandler, SshLocal
  <2>2. user[c] \in Users
    BY <1>0, <1>9 DEF TrackToken, SshLocal
  <2>3. ASSUME NEW u \in Users PROVE roster'[u].count = roster[u].count
    BY <1>9, <2>2, SMTT(30) DEF TrackToken
  <2> QED BY <1>9, <2>1, <2>3 DEF RosterMoves, TrackToken
<1>10. CASE BuildApp(c)
  BY <1>0, <1>10, SMTT(30) DEF BuildApp, Moves, RosterMoves, SshLocal
<1>11. CASE BuildFails(c)
  BY <1>0, <1>11, SMTT(30) DEF BuildFails, DropHandler, RosterMoves, SshLocal
<1>12. CASE LeaveRoster(c)
  <2>1. CASE c \in counted
    <3>1. user[c] \in Users /\ Parts(c, user[c])
      BY <1>0, <1>12, <2>1, SMTT(30) DEF LeaveRoster, Moves, SshLocal, Parts
    <3>2. Leaves(user[c], c) /\ UNCHANGED people
      BY <1>12, <2>1 DEF LeaveRoster
    <3> HIDE DEF Present, TypeOK
    <3> QED BY <3>1, <3>2, EntersOrLeaves
  <2>2. CASE c \notin counted
    BY <1>0, <1>12, <2>2, SMTT(30) DEF LeaveRoster, Moves, RosterMoves
  <2> QED BY <2>1, <2>2
<1>13. CASE ReleaseSlot(c)
  BY <1>0, <1>13, SMTT(30) DEF ReleaseSlot, Moves, RosterMoves, SshLocal
<1>14. CASE DropFields(c)
  BY <1>0, <1>14, SMTT(30) DEF DropFields, Moves, DropApp, RosterMoves, SshLocal
<1>15. CASE EndLoop(c)
  BY <1>0, <1>15, SMTT(30) DEF EndLoop, DropApp, RosterMoves, SshLocal
<1>16. CASE Unregister(c)
  BY <1>0, <1>16, SMTT(30) DEF Unregister, held, RosterMoves, SshLocal
<1>17. ASSUME NEW i \in Ips, TakeSlot(c, i) PROVE RosterMoves(c)
  BY <1>0, <1>17, SMTT(30) DEF TakeSlot, RosterMoves, SshLocal
<1>18. ASSUME NEW u \in Users, Lookup(c, u) PROVE RosterMoves(c)
  BY <1>0, <1>18, SMTT(30) DEF Lookup, Moves, RosterMoves, SshLocal
<1> QED
  BY <1>1, <1>2, <1>3, <1>4, <1>5, <1>6, <1>7, <1>8, <1>9, <1>10, <1>11, <1>12, <1>13, <1>14, <1>15, <1>16, <1>17, <1>18, Zenon DEF SshStep, Callback, DropStep
\* The same of an IRC connection, which is present from track_active_irc_user to
\* untrack_active_irc_user.
LEMMA IrcMovesRoster ==
    ASSUME TypeOK, Local, NEW c \in IrcConns, IrcStep(c)
    PROVE  RosterMoves(c)
<1> USE ConnsAssumption DEF TypeOK, Conns, SshPlaces, IrcPlaces, NobodyMoves, Present
<1>0. c \in Conns /\ c \notin SshConns /\ IrcLocal(c)
  BY DEF Local
<1>1. ASSUME NEW u \in Users, IrcLookup(c, u) PROVE RosterMoves(c)
  BY <1>0, <1>1, SMTT(30) DEF IrcLookup, Moves, RosterMoves
<1>2. CASE Refused(c)
  BY <1>0, <1>2, SMTT(30) DEF Refused, Moves, RosterMoves
<1>3. CASE IrcRegister(c)
  BY <1>0, <1>3, SMTT(30) DEF IrcRegister, RosterMoves
<1>4. CASE IrcTrack(c)
  <2>1. user[c] \in Users /\ Joins(c, user[c])
    BY <1>0, <1>4, SMTT(30) DEF IrcTrack, Moves, IrcLocal, Joins
  <2>2. Enters(user[c], {c}) /\ UNCHANGED people
    BY <1>4 DEF IrcTrack
  <2> HIDE DEF Present, TypeOK
  <2> QED BY <2>1, <2>2, EntersOrLeaves
<1>5. CASE IrcUnregister(c)
  BY <1>0, <1>5, SMTT(30) DEF IrcUnregister, Moves, RosterMoves
<1>6. CASE IrcUntrack(c)
  <2>1. user[c] \in Users /\ Parts(c, user[c])
    BY <1>0, <1>6, SMTT(30) DEF IrcUntrack, Moves, IrcLocal, Parts
  <2>2. Leaves(user[c], c) /\ UNCHANGED people
    BY <1>6 DEF IrcUntrack
  <2> HIDE DEF Present, TypeOK
  <2> QED BY <2>1, <2>2, EntersOrLeaves
<1> QED
  BY <1>1, <1>2, <1>3, <1>4, <1>5, <1>6, Zenon DEF IrcStep

\* A deletion takes the row away first and the roster's entry later; between the
\* two the count is still exact, and after them there is no entry to be wrong.
LEMMA DeletionKeepsCount ==
    ASSUME TypeOK, accounts \cap deleting = {}, RosterCountsConnections, TrackerCoversRoster,
           NEW u \in Users, DeleteAccount(u) \/ Unlist(u)
    PROVE  RosterCountsConnections' /\ TrackerCoversRoster' /\ (accounts \cap deleting = {})'
<1>1. \A v \in Users : Present(v)' = Present(v) /\ Cardinality(Present(v)) \in Nat
  BY PresentIsFinite DEF DeleteAccount, Unlist, held, Present
<1>2. CASE DeleteAccount(u)
  BY <1>1, <1>2, SMTT(30) DEF DeleteAccount, RosterCountsConnections, TrackerCoversRoster, TypeOK
<1>3. CASE Unlist(u)
  BY <1>1, <1>3, SMTT(30) DEF Unlist, Absent, RosterCountsConnections, TrackerCoversRoster, TypeOK
<1> QED BY <1>2, <1>3
-----------------------------------------------------------------------------
(* The sessions listed in the roster *)

\* A step of an SSH connection lists only a session that answers, and takes no
\* listed one out of reach.
LEMMA SshKeepsListed ==
    ASSUME TypeOK, Local, ListedSessionsAnswer, NEW c \in SshConns, SshStep(c)
    PROVE  ListedSessionsAnswer'
<1> USE ConnsAssumption DEF TypeOK, Conns, SshPlaces, IrcPlaces, Present, ListedSessionsAnswer
<1>0. /\ c \in Conns /\ c \notin IrcConns
      /\ \A d \in SshConns : SshLocal(d) /\ TokenIsKept(d)
      /\ ListedSessionsAnswer
  BY DEF Local
<1>1. CASE Refused(c)
  BY <1>0, <1>1, SMTT(30) DEF Refused, Moves, SshLocal
<1>2. CASE TakePermit(c)
  BY <1>0, <1>2, SMTT(30) DEF TakePermit, SshLocal
<1>3. CASE GiveSlotBack(c)
  BY <1>0, <1>3, SMTT(30) DEF GiveSlotBack, Moves, SshLocal
<1>4. CASE ServeToken(c)
  BY <1>0, <1>4, SMTT(30) DEF ServeToken, EnsureCliSession, SshLocal
<1>5. CASE RequestPty(c)
  BY <1>0, <1>5, SMTT(30) DEF RequestPty, Moves, EnsureCliSession, SshLocal
<1>6. CASE RequestShell(c)
  BY <1>0, <1>6, SMTT(30) DEF RequestShell, SshLocal
<1>7. CASE Hangup(c)
  BY <1>0, <1>7, SMTT(30) DEF Hangup, DropHandler, SshLocal
<1>8. CASE Authenticate(c)
  BY <1>0, <1>8, SMTT(30) DEF Authenticate, Moves, Enters, SshLocal
<1>9. CASE TrackToken(c)
  <2>1. user[c] \in Users /\ c \in counted /\ c \in tokens
    BY <1>0, <1>9 DEF TrackToken, SshLocal
  <2>2. ASSUME NEW u \in Users, NEW d \in roster'[u].sessions
        PROVE  d \in roster[u].sessions \/ (u = user[c] /\ d = c)
    <3>1. CASE roster[user[c]].count = 0
      BY <1>9, <2>2, <3>1 DEF TrackToken
    <3>2. CASE roster[user[c]].count # 0
      BY <1>9, <2>1, <2>2, <3>2, SMT DEF TrackToken
    <3> QED BY <3>1, <3>2
  <2>3. c \in registry
    BY <1>0, <1>9, <2>1 DEF TrackToken, TokenIsKept, Dropping
  <2>4. /\ at' = [at EXCEPT ![c] = at'[c]] /\ at[c] = "tracking" /\ at'[c] \in {"leaving", "building"}
        /\ UNCHANGED <<user, counted, registry, irc>>
    BY <1>0, <1>9 DEF TrackToken, DropHandler
  <2> QED BY <1>0, <2>1, <2>2, <2>3, <2>4, SMTT(30)
<1>10. CASE BuildApp(c)
  BY <1>0, <1>10, SMTT(30) DEF BuildApp, Moves, SshLocal
<1>11. CASE BuildFails(c)
  BY <1>0, <1>11, SMTT(30) DEF BuildFails, DropHandler, SshLocal
<1>12. CASE LeaveRoster(c)
  BY <1>0, <1>12, SMTT(30) DEF LeaveRoster, Moves, Leaves, Absent, SshLocal
<1>13. CASE ReleaseSlot(c)
  BY <1>0, <1>13, SMTT(30) DEF ReleaseSlot, Moves, SshLocal
<1>14. CASE DropFields(c)
  BY <1>0, <1>14, SMTT(30) DEF DropFields, Moves, DropApp, SshLocal
<1>15. CASE EndLoop(c)
  BY <1>0, <1>15, SMTT(30) DEF EndLoop, DropApp, SshLocal
<1>16. CASE Unregister(c)
  BY <1>0, <1>16, SMTT(30) DEF Unregister, held, TokenIsKept, Dropping, SshLocal
<1>17. ASSUME NEW i \in Ips, TakeSlot(c, i) PROVE ListedSessionsAnswer'
  BY <1>0, <1>17, SMTT(30) DEF TakeSlot, SshLocal
<1>18. ASSUME NEW u \in Users, Lookup(c, u) PROVE ListedSessionsAnswer'
  BY <1>0, <1>18, SMTT(30) DEF Lookup, Moves, SshLocal
<1> QED
  BY <1>1, <1>2, <1>3, <1>4, <1>5, <1>6, <1>7, <1>8, <1>9, <1>10, <1>11, <1>12, <1>13, <1>14, <1>15, <1>16, <1>17, <1>18, Zenon DEF SshStep, Callback, DropStep
\* An IRC connection is listed from when it enters the roster, in the IRC registry
\* by then, and is out of the roster before it is gone.
LEMMA IrcKeepsSessions ==
    ASSUME TypeOK, Local, RegistryTracksSessions, ListedSessionsAnswer, NEW c \in IrcConns, IrcStep(c)
    PROVE  RegistryTracksSessions' /\ ListedSessionsAnswer'
<1> USE ConnsAssumption DEF TypeOK, Conns, SshPlaces, IrcPlaces, Present, ListedSessionsAnswer, RegistryTracksSessions
<1>0. /\ c \in Conns /\ c \notin SshConns /\ IrcLocal(c)
      /\ RegistryTracksSessions /\ ListedSessionsAnswer
  BY DEF Local
<1>1. ASSUME NEW u \in Users, IrcLookup(c, u) PROVE RegistryTracksSessions' /\ ListedSessionsAnswer'
  BY <1>0, <1>1, SMTT(30) DEF IrcLookup, Moves
<1>2. CASE Refused(c)
  BY <1>0, <1>2, SMTT(30) DEF Refused, Moves
<1>3. CASE IrcRegister(c)
  BY <1>0, <1>3, SMTT(30) DEF IrcRegister, IrcLocal
<1>4. CASE IrcTrack(c)
  BY <1>0, <1>4, SMTT(30) DEF IrcTrack, Moves, Enters, IrcLocal
<1>5. CASE IrcUnregister(c)
  BY <1>0, <1>5, SMTT(30) DEF IrcUnregister, Moves, IrcLocal
<1>6. CASE IrcUntrack(c)
  BY <1>0, <1>6, SMTT(30) DEF IrcUntrack, Moves, Leaves, Absent, IrcLocal
<1> QED
  BY <1>1, <1>2, <1>3, <1>4, <1>5, <1>6, Zenon DEF IrcStep

\* Taking an account off the roster lists nothing.
LEMMA DeletionKeepsSessions ==
    ASSUME TypeOK, RegistryTracksSessions, ListedSessionsAnswer, NEW u \in Users, DeleteAccount(u) \/ Unlist(u)
    PROVE  RegistryTracksSessions' /\ ListedSessionsAnswer'
  BY SMTT(30) DEF DeleteAccount, Unlist, Absent, held, TypeOK, Present, RegistryTracksSessions, ListedSessionsAnswer

-----------------------------------------------------------------------------
(* Admission *)

\* What a step of connection c does to the slots: nothing, or it takes the slot it
\* did not have, or it gives back the one it had.
SlotMoves(c) ==
    \/ /\ \A i \in Ips : SlotHolders(i)' = SlotHolders(i)
       /\ UNCHANGED conn_counts
    \/ \E i \in Ips :
          /\ \A j \in Ips \ {i} : SlotHolders(j)' = SlotHolders(j)
          /\ \/ /\ c \notin SlotHolders(i) /\ SlotHolders(i)' = SlotHolders(i) \cup {c}
                /\ conn_counts' = [conn_counts EXCEPT ![i] = @ + 1]
             \/ /\ c \in SlotHolders(i) /\ SlotHolders(i)' = SlotHolders(i) \ {c}
                /\ conn_counts' = Released(conn_counts, i)

\* The same of the global permits.
PermitMoves(c) ==
    \/ PermitHolders' = PermitHolders /\ UNCHANGED permits
    \/ c \notin PermitHolders /\ PermitHolders' = PermitHolders \cup {c} /\ permits' = permits - 1
    \/ c \in PermitHolders /\ PermitHolders' = PermitHolders \ {c} /\ permits' = permits + 1

\* Slots and permits are held by finitely many connections.
LEMMA HoldersAreFinite ==
    /\ IsFiniteSet(PermitHolders) /\ Cardinality(PermitHolders) \in Nat
    /\ \A i \in Ips : IsFiniteSet(SlotHolders(i)) /\ Cardinality(SlotHolders(i)) \in Nat
  BY ConnsAssumption, FS_Subset, FS_CardinalityType DEF PermitHolders, SlotHolders

\* Moving one slot with its count and one permit with the semaphore keeps the
\* books balanced; the release of a held slot never finds a count of zero.
LEMMA MovesBalance ==
    ASSUME TypeOK, AdmissionBalances, NEW c, SlotMoves(c), PermitMoves(c)
    PROVE  AdmissionBalances'
<1>1. ASSUME NEW i \in Ips PROVE conn_counts'[i] = Cardinality(SlotHolders(i)')
  <2>0. conn_counts[i] = Cardinality(SlotHolders(i)) /\ conn_counts \in [Ips -> Nat]
    BY DEF AdmissionBalances, TypeOK
  <2>1. CASE SlotHolders(i)' = SlotHolders(i) /\ conn_counts'[i] = conn_counts[i]
    BY <2>0, <2>1
  <2>2. CASE /\ c \notin SlotHolders(i) /\ SlotHolders(i)' = SlotHolders(i) \cup {c}
             /\ conn_counts' = [conn_counts EXCEPT ![i] = @ + 1]
    <3>1. Cardinality(SlotHolders(i)') = Cardinality(SlotHolders(i)) + 1
      BY <2>2, HoldersAreFinite, FS_AddElement
    <3> QED BY <2>0, <2>2, <3>1
  <2>3. CASE /\ c \in SlotHolders(i) /\ SlotHolders(i)' = SlotHolders(i) \ {c}
             /\ conn_counts' = Released(conn_counts, i)
    <3>1. /\ Cardinality(SlotHolders(i)') = Cardinality(SlotHolders(i)) - 1
          /\ Cardinality(SlotHolders(i)) \in Nat \ {0}
      BY <2>3, HoldersAreFinite, FS_RemoveElement, FS_EmptySet
    <3> QED BY <2>0, <2>3, <3>1 DEF Released
  <2> QED BY <2>0, <2>1, <2>2, <2>3 DEF SlotMoves, Released
<1>2. permits' + Cardinality(PermitHolders') = ConnLimit
  <2>0. /\ permits + Cardinality(PermitHolders) = ConnLimit /\ permits \in Nat
        /\ IsFiniteSet(PermitHolders) /\ Cardinality(PermitHolders) \in Nat
    BY HoldersAreFinite DEF AdmissionBalances, TypeOK
  <2>1. CASE PermitHolders' = PermitHolders /\ UNCHANGED permits
    BY <2>0, <2>1
  <2>2. CASE c \notin PermitHolders /\ PermitHolders' = PermitHolders \cup {c} /\ permits' = permits - 1
    <3>1. Cardinality(PermitHolders') = Cardinality(PermitHolders) + 1
      BY <2>0, <2>2, FS_AddElement
    <3> QED BY <2>0, <2>2, <3>1, LimitsAssumption
  <2>3. CASE c \in PermitHolders /\ PermitHolders' = PermitHolders \ {c} /\ permits' = permits + 1
    <3>1. Cardinality(PermitHolders') = Cardinality(PermitHolders) - 1
      BY <2>0, <2>3, FS_RemoveElement
    <3> QED BY <2>0, <2>3, <3>1, LimitsAssumption
  <2> QED BY <2>1, <2>2, <2>3 DEF PermitMoves
<1> QED BY <1>1, <1>2 DEF AdmissionBalances
\* A connection takes a slot and a permit once each and gives back what it took.
LEMMA SshMovesSlots ==
    ASSUME TypeOK, Local, NEW c \in SshConns, SshStep(c)
    PROVE  SlotMoves(c) /\ PermitMoves(c)
<1> USE ConnsAssumption DEF TypeOK, Conns, SshPlaces, SlotMoves, PermitMoves, SlotHolders, PermitHolders
<1>0. c \in Conns /\ SshLocal(c)
  BY DEF Local
<1>1. CASE Refused(c)
  BY <1>0, <1>1, SMTT(30) DEF Refused, Moves, SshLocal
<1>2. CASE TakePermit(c)
  BY <1>0, <1>2, SMTT(30) DEF TakePermit, SshLocal
<1>3. CASE GiveSlotBack(c)
  BY <1>0, <1>3, SMTT(30) DEF GiveSlotBack, Moves, SshLocal
<1>4. CASE ServeToken(c)
  BY <1>0, <1>4, SMTT(30) DEF ServeToken, EnsureCliSession, SshLocal
<1>5. CASE RequestPty(c)
  BY <1>0, <1>5, SMTT(30) DEF RequestPty, Moves, EnsureCliSession, SshLocal
<1>6. CASE RequestShell(c)
  BY <1>0, <1>6, SMTT(30) DEF RequestShell, SshLocal
<1>7. CASE Hangup(c)
  BY <1>0, <1>7, SMTT(30) DEF Hangup, DropHandler, SshLocal
<1>8. CASE Authenticate(c)
  BY <1>0, <1>8, SMTT(30) DEF Authenticate, Moves, SshLocal
<1>9. CASE TrackToken(c)
  BY <1>0, <1>9, SMTT(30) DEF TrackToken, DropHandler, SshLocal
<1>10. CASE BuildApp(c)
  BY <1>0, <1>10, SMTT(30) DEF BuildApp, Moves, SshLocal
<1>11. CASE BuildFails(c)
  BY <1>0, <1>11, SMTT(30) DEF BuildFails, DropHandler, SshLocal
<1>12. CASE LeaveRoster(c)
  BY <1>0, <1>12, SMTT(30) DEF LeaveRoster, Moves, SshLocal
<1>13. CASE ReleaseSlot(c)
  BY <1>0, <1>13, SMTT(30) DEF ReleaseSlot, Moves, SshLocal
<1>14. CASE DropFields(c)
  BY <1>0, <1>14, SMTT(30) DEF DropFields, Moves, DropApp, SshLocal
<1>15. CASE EndLoop(c)
  BY <1>0, <1>15, SMTT(30) DEF EndLoop, DropApp, SshLocal
<1>16. CASE Unregister(c)
  BY <1>0, <1>16, SMTT(30) DEF Unregister, held, SshLocal
<1>17. ASSUME NEW i \in Ips, TakeSlot(c, i) PROVE SlotMoves(c) /\ PermitMoves(c)
  BY <1>0, <1>17, SMTT(30) DEF TakeSlot, SshLocal
<1>18. ASSUME NEW u \in Users, Lookup(c, u) PROVE SlotMoves(c) /\ PermitMoves(c)
  BY <1>0, <1>18, SMTT(30) DEF Lookup, Moves, SshLocal
<1> QED
  BY <1>1, <1>2, <1>3, <1>4, <1>5, <1>6, <1>7, <1>8, <1>9, <1>10, <1>11, <1>12, <1>13, <1>14, <1>15, <1>16, <1>17, <1>18, Zenon DEF SshStep, Callback, DropStep
\* IRC connections have no part in admission.
LEMMA IrcMovesNoSlot ==
    ASSUME TypeOK, NEW c \in IrcConns, IrcStep(c)
    PROVE  /\ \A i \in Ips : SlotHolders(i)' = SlotHolders(i)
           /\ PermitHolders' = PermitHolders
           /\ UNCHANGED admission
<1>1. \A d \in SshConns : at'[d] = at[d] /\ ip'[d] = ip[d]
  BY ConnsAssumption, SMT DEF IrcStep, IrcLookup, Refused, IrcRegister, IrcTrack, IrcUnregister, IrcUntrack,
     Moves, TypeOK, Conns
<1>2. UNCHANGED admission
  BY Zenon DEF IrcStep, IrcLookup, Refused, IrcRegister, IrcTrack, IrcUnregister, IrcUntrack
<1> QED BY <1>1, <1>2, Zenon DEF SlotHolders, PermitHolders

-----------------------------------------------------------------------------
(* The theorems *)

\* A pod that has just started satisfies the invariant.
LEMMA ConnInitInv == ConnInit => ConnInv
<1> SUFFICES ASSUME ConnInit PROVE ConnInv
  OBVIOUS
<1>1. TypeOK
  BY LimitsAssumption DEF ConnInit, TypeOK, Conns, SshPlaces, IrcPlaces, Absent
<1>2. Local
  BY DEF ConnInit, Local, SshLocal, TokenIsKept, IrcLocal, Conns
<1>3. AdmissionBalances
  <2>1. PermitHolders = {} /\ \A i \in Ips : SlotHolders(i) = {}
    BY DEF ConnInit, PermitHolders, SlotHolders, Conns
  <2> QED BY <2>1, FS_EmptySet, LimitsAssumption DEF ConnInit, AdmissionBalances
<1>4. RosterCountsConnections /\ TrackerCoversRoster
  <2>1. \A u \in Users : Present(u) = {} /\ roster[u].count = 0
    BY SMT DEF ConnInit, Present, Absent, Conns
  <2> QED BY <2>1, FS_EmptySet, SMT DEF ConnInit, RosterCountsConnections, TrackerCoversRoster
<1>5. RegistryTracksSessions /\ ListedSessionsAnswer
  BY DEF ConnInit, RegistryTracksSessions, ListedSessionsAnswer, Absent
<1> QED BY <1>1, <1>2, <1>3, <1>4, <1>5 DEF ConnInv, ConnInit

\* Every step keeps it.
LEMMA ConnNextInv == ConnInv /\ [ConnNext]_connVars => ConnInv'
<1> SUFFICES ASSUME ConnInv, [ConnNext]_connVars PROVE ConnInv'
  OBVIOUS
<1>0. /\ TypeOK /\ Local /\ accounts \cap deleting = {} /\ AdmissionBalances
      /\ RosterCountsConnections /\ TrackerCoversRoster
      /\ RegistryTracksSessions /\ ListedSessionsAnswer
  BY DEF ConnInv
<1>1. ASSUME NEW c \in SshConns, SshStep(c) PROVE ConnInv'
  <2>1. TypeOK' /\ Local'
    BY <1>0, <1>1, SshType, SshKeepsLocal
  <2>2. RosterMoves(c)
    BY <1>0, <1>1, SshMovesRoster
  <2>3. RosterCountsConnections' /\ TrackerCoversRoster'
    BY <1>0, <2>2, RosterMovesKeepsCount
  <2>4. AdmissionBalances'
    BY <1>0, <1>1, SshMovesSlots, MovesBalance
  <2>5. RegistryTracksSessions' /\ ListedSessionsAnswer'
    BY <1>0, <1>1, SshKeepsRegistry, SshKeepsListed
  <2>6. (accounts \cap deleting = {})'
    BY <1>0, <2>2 DEF RosterMoves
  <2> QED BY <2>1, <2>3, <2>4, <2>5, <2>6 DEF ConnInv
<1>2. ASSUME NEW c \in IrcConns, IrcStep(c) PROVE ConnInv'
  <2>1. TypeOK' /\ Local'
    BY <1>0, <1>2, IrcKeepsLocal
  <2>2. RosterMoves(c)
    BY <1>0, <1>2, IrcMovesRoster
  <2>3. RosterCountsConnections' /\ TrackerCoversRoster'
    BY <1>0, <2>2, RosterMovesKeepsCount
  <2>4. AdmissionBalances'
    BY <1>0, <1>2, IrcMovesNoSlot DEF AdmissionBalances
  <2>5. RegistryTracksSessions' /\ ListedSessionsAnswer'
    BY <1>0, <1>2, IrcKeepsSessions
  <2>6. (accounts \cap deleting = {})'
    BY <1>0, <2>2 DEF RosterMoves
  <2> QED BY <2>1, <2>3, <2>4, <2>5, <2>6 DEF ConnInv
<1>3. ASSUME NEW u \in Users, DeleteAccount(u) \/ Unlist(u) PROVE ConnInv'
  <2>1. TypeOK' /\ Local'
    BY <1>0, <1>3, DeletionKeepsLocal
  <2>2. RosterCountsConnections' /\ TrackerCoversRoster' /\ (accounts \cap deleting = {})'
    BY <1>0, <1>3, DeletionKeepsCount
  <2>3. RegistryTracksSessions' /\ ListedSessionsAnswer'
    BY <1>0, <1>3, DeletionKeepsSessions
  <2>4. AdmissionBalances'
    BY <1>0, <1>3 DEF DeleteAccount, Unlist, held, AdmissionBalances, SlotHolders, PermitHolders
  <2> QED BY <2>1, <2>2, <2>3, <2>4 DEF ConnInv
<1>4. CASE UNCHANGED connVars
  <2>0. /\ UNCHANGED <<at, ip, user, counted, tokens, app, loop, conn_counts, permits>>
        /\ UNCHANGED <<roster, online, registry, unregistering, irc, accounts, deleting>>
    BY <1>4, Zenon DEF connVars, held
  <2>1. TypeOK' /\ Local'
    BY <1>0, <2>0 DEF TypeOK, Local, SshLocal, TokenIsKept, IrcLocal
  <2>2. AdmissionBalances'
    BY <1>0, <2>0 DEF AdmissionBalances, SlotHolders, PermitHolders
  <2>3. /\ RosterCountsConnections' /\ TrackerCoversRoster' /\ (accounts \cap deleting = {})'
        /\ RegistryTracksSessions' /\ ListedSessionsAnswer'
    BY <1>0, <2>0 DEF RosterCountsConnections, TrackerCoversRoster, RegistryTracksSessions,
       ListedSessionsAnswer, Present
  <2> QED BY <2>1, <2>2, <2>3 DEF ConnInv
<1> QED
  BY <1>1, <1>2, <1>3, <1>4 DEF ConnNext, Stopped

\* The invariant holds of every behaviour.
THEOREM ConnInvariant == ConnSpec => []ConnInv
  BY ConnInitInv, ConnNextInv, PTL DEF ConnSpec

\* Server::admit and Drop for ClientHandler balance: an address is charged for
\* exactly the connections that hold one of its slots, and the semaphore is short
\* of exactly the permits that are held, at every step of any number of
\* connections.
THEOREM AdmissionAlwaysBalances == ConnSpec => []AdmissionBalances
<1>1. ConnInv => AdmissionBalances
  BY DEF ConnInv
<1> QED BY <1>1, ConnInvariant, PTL

\* The roster that SSH and IRC connections share counts the connections there
\* are, and the online-time tracker covers it, whatever accounts are deleted.
THEOREM PresenceAlwaysAgrees == ConnSpec => []PresenceAgrees
<1>1. ConnInv => PresenceAgrees
  BY DEF ConnInv, PresenceAgrees
<1> QED BY <1>1, ConnInvariant, PTL

\* A session is registered for as long as its App has an owner, and every session
\* the roster lists answers: exactly one of the two Drop implementations gives the
\* token back, in whichever order the handler and the render loop end.
THEOREM SessionsAlwaysReachable == ConnSpec => []SessionsAreReachable
<1>1. ConnInv => SessionsAreReachable
  BY DEF ConnInv, SessionsAreReachable
<1> QED BY <1>1, ConnInvariant, PTL

-----------------------------------------------------------------------------
(* The rate limiter.                                                       *)

\* What is known of each call: `decided` is set once the call has its answer, no
\* earlier than the clock it read and no more than MaxDelay later.
CallsAreTimely ==
    \A t \in Tasks :
        /\ read[t] <= clock /\ decided[t] <= clock
        /\ t \notin done => decided[t] = -1 /\ (read[t] = -1 \/ clock - read[t] <= MaxDelay)
        /\ decided[t] # -1 => /\ read[t] # -1 /\ read[t] <= decided[t]
                              /\ decided[t] - read[t] <= MaxDelay

\* who[i] is the call that put the i-th entry into the queue: they are different
\* calls, let through in the order of the queue, and every call let through so
\* recently that no clock under way can have expired it is one of them.
Remembers(queue, who) ==
    /\ who \in [1 .. Len(queue) -> Tasks]
    /\ \A i, j \in 1 .. Len(queue) : who[i] = who[j] => i = j
    /\ \A i \in 1 .. Len(queue) : decided[who[i]] # -1 /\ read[who[i]] = queue[i]
    /\ \A i, j \in 1 .. Len(queue) : i <= j => decided[who[i]] <= decided[who[j]]
    /\ \A t \in Tasks : decided[t] # -1 /\ clock - decided[t] <= Window - MaxDelay =>
           \E i \in 1 .. Len(queue) : who[i] = t

\* The oldest of them has not expired.
FrontIsFresh(now, queue, who) == 1 <= Len(queue) => now - read[who[1]] <= Window

LimiterTypes ==
    /\ clock \in Nat
    /\ read \in [Tasks -> Nat \cup {-1}] /\ decided \in [Tasks -> Nat \cup {-1}]
    /\ done \in SUBSET Tasks /\ IsFiniteSet(done)
    /\ attempts \in Seq(Nat)

\* The inductive invariant.
LimiterInv ==
    /\ LimiterTypes
    /\ CallsAreTimely
    /\ Len(attempts) <= MaxAttempts
    /\ \E who : Remembers(attempts, who)

\* What pop_front leaves is the queue without its first n entries, all of them
\* expired, up to the first that is not.
LEMMA PrunedIsATail ==
    ASSUME LimiterTypes, NEW now \in Nat
    PROVE  \E n \in 0 .. Len(attempts) :
               /\ Pruned(now) \in Seq(Nat)
               /\ Len(Pruned(now)) = Len(attempts) - n
               /\ \A i \in 1 .. Len(attempts) - n : Pruned(now)[i] = attempts[i + n]
               /\ \A i \in 1 .. n : Expired(now, attempts[i])
               /\ n < Len(attempts) => ~Expired(now, attempts[n + 1])
<1> DEFINE kept == {i \in 1 .. Len(attempts) : ~Expired(now, attempts[i])}
<1>0. attempts \in Seq(Nat) /\ Len(attempts) \in Nat
  BY DEF LimiterTypes
<1>1. CASE kept = {}
  <2>1. Pruned(now) = <<>>
    BY <1>1 DEF Pruned
  <2>2. \A i \in 1 .. Len(attempts) : Expired(now, attempts[i])
    BY <1>1
  <2>3. Len(attempts) \in 0 .. Len(attempts) /\ Len(attempts) - Len(attempts) = 0
    BY <1>0
  <2> WITNESS Len(attempts) \in 0 .. Len(attempts)
  <2>4. \A i \in 1 .. 0 : FALSE
    OBVIOUS
  <2> QED
    BY <1>0, <2>1, <2>2, <2>3, <2>4
<1>2. CASE kept # {}
  <2> DEFINE k == CHOOSE i \in kept : \A j \in kept : i <= j
  <2>1. k \in kept /\ \A j \in kept : k <= j
    <3>1. IsFiniteSet(kept) /\ kept \subseteq Int
      <4>1. IsFiniteSet(1 .. Len(attempts))
        BY <1>0, FS_Interval
      <4> QED
        BY <4>1, FS_Subset
    <3> HIDE DEF kept
    <3>2. \E i \in kept : \A j \in kept : i <= j
      BY <1>2, <3>1, Extremes
    <3> QED
      BY <3>2
  <2>2. Pruned(now) = SubSeq(attempts, k, Len(attempts))
    BY <1>2 DEF Pruned
  <2> HIDE DEF k
  <2>3. k \in 1 .. Len(attempts)
    BY <2>1
  <2>n. PICK n \in 0 .. Len(attempts) : k = n + 1 /\ n < Len(attempts)
    <3>1. k - 1 \in 0 .. Len(attempts) /\ k = (k - 1) + 1 /\ k - 1 < Len(attempts)
      BY <1>0, <2>3
    <3> QED
      BY <3>1
  <2>4. /\ SubSeq(attempts, k, Len(attempts)) \in Seq(Nat)
        /\ Len(SubSeq(attempts, k, Len(attempts))) = Len(attempts) - n
        /\ \A i \in 1 .. Len(attempts) - n :
               SubSeq(attempts, k, Len(attempts))[i] = attempts[i + n]
    BY <1>0, <2>3, <2>n
  <2>5. \A i \in 1 .. n : Expired(now, attempts[i])
    <3>1. \A i \in 1 .. n : i \in 1 .. Len(attempts) /\ ~(k <= i)
      BY <1>0, <2>n
    <3> QED
      BY <2>1, <3>1
  <2>6. ~Expired(now, attempts[n + 1])
    BY <2>1, <2>n
  <2> QED
    BY <2>2, <2>4, <2>5, <2>6
<1> QED
  BY <1>1, <1>2

\* Whatever clock the queue is pruned by, what is left is remembered: a call let
\* through recently read its clock too late to have expired.
LEMMA PruningRemembers ==
    ASSUME LimiterInv, NEW now \in Nat, now <= clock
    PROVE  /\ Pruned(now) \in Seq(Nat) /\ Len(Pruned(now)) <= Len(attempts)
           /\ \E who : Remembers(Pruned(now), who) /\ FrontIsFresh(now, Pruned(now), who)
<1>0. LimiterTypes /\ CallsAreTimely
  BY DEF LimiterInv
<1>1. PICK n \in 0 .. Len(attempts) :
               /\ Pruned(now) \in Seq(Nat)
               /\ Len(Pruned(now)) = Len(attempts) - n
               /\ \A i \in 1 .. Len(attempts) - n : Pruned(now)[i] = attempts[i + n]
               /\ \A i \in 1 .. n : Expired(now, attempts[i])
               /\ n < Len(attempts) => ~Expired(now, attempts[n + 1])
  BY <1>0, PrunedIsATail
<1>2. PICK old : Remembers(attempts, old)
  BY DEF LimiterInv
<1> DEFINE L == Len(attempts)
<1> DEFINE m == Len(Pruned(now))
<1> DEFINE who == [i \in 1 .. m |-> old[i + n]]
<1>3. L \in Nat /\ m = L - n /\ n \in Nat /\ m \in Nat
  BY <1>0, <1>1 DEF LimiterTypes
<1> HIDE DEF m, L
<1>4. \A i \in 1 .. m : i + n \in 1 .. L
  BY <1>1, <1>3 DEF L
<1>5. \A i \in 1 .. m : who[i] = old[i + n]
  OBVIOUS
<1>6. /\ old \in [1 .. L -> Tasks]
      /\ \A i, j \in 1 .. L : old[i] = old[j] => i = j
      /\ \A i \in 1 .. L : decided[old[i]] # -1 /\ read[old[i]] = attempts[i]
      /\ \A i, j \in 1 .. L : i <= j => decided[old[i]] <= decided[old[j]]
      /\ \A t \in Tasks : decided[t] # -1 /\ clock - decided[t] <= Window - MaxDelay =>
             \E i \in 1 .. L : old[i] = t
  BY <1>2 DEF Remembers, L
<1>7. who \in [1 .. m -> Tasks]
  BY <1>4, <1>6
<1> HIDE DEF who
<1>8. \A i, j \in 1 .. m : who[i] = who[j] => i = j
  <2> TAKE i, j \in 1 .. m
  <2>1. old[i + n] = old[j + n] => i + n = j + n
    BY <1>4, <1>6
  <2> QED
    BY <1>3, <1>5, <2>1
<1>9. \A i \in 1 .. m : decided[who[i]] # -1 /\ read[who[i]] = Pruned(now)[i]
  <2>1. \A i \in 1 .. m : Pruned(now)[i] = attempts[i + n]
    BY <1>1, <1>3 DEF L
  <2> QED
    BY <1>4, <1>5, <1>6, <2>1
<1>10. \A i, j \in 1 .. m : i <= j => decided[who[i]] <= decided[who[j]]
  <2> TAKE i, j \in 1 .. m
  <2>1. i <= j => i + n <= j + n
    BY <1>3
  <2> QED
    BY <1>4, <1>5, <1>6, <2>1
<1>11. ASSUME NEW t \in Tasks, decided[t] # -1, clock - decided[t] <= Window - MaxDelay
       PROVE  \E i \in 1 .. m : who[i] = t
  <2>1. PICK i \in 1 .. L : old[i] = t
    BY <1>6, <1>11
  <2>2. read[t] = attempts[i] /\ read[t] \in Int /\ decided[t] \in Int
    BY <1>0, <1>6, <2>1 DEF LimiterTypes
  <2>3. decided[t] - read[t] <= MaxDelay
    BY <1>0, <1>11 DEF CallsAreTimely
  <2>4. ~Expired(now, attempts[i])
    BY <1>0, <1>11, <2>2, <2>3, LimiterAssumption DEF Expired, LimiterTypes
  <2>5. ~(i <= n)
    <3>1. i <= n => i \in 1 .. n
      BY <1>3
    <3> QED
      BY <1>1, <2>4, <3>1
  <2>6. i - n \in 1 .. m /\ (i - n) + n = i
    BY <1>3, <2>5
  <2> QED
    BY <1>5, <2>1, <2>6
<1>12. 1 <= m => now - read[who[1]] <= Window
  <2>1. SUFFICES ASSUME 1 <= m PROVE now - read[who[1]] <= Window
    OBVIOUS
  <2>2. n < Len(attempts) /\ 1 \in 1 .. m /\ n + 1 = 1 + n
    BY <1>3, <2>1 DEF L
  <2>3. attempts[n + 1] = read[who[1]]
    BY <1>4, <1>5, <1>6, <2>2
  <2>4. read[who[1]] \in Int
    BY <1>0, <1>7, <2>2 DEF LimiterTypes
  <2> QED
    BY <1>1, <2>2, <2>3, <2>4, LimiterAssumption DEF Expired
<1>13. Remembers(Pruned(now), who)
  BY <1>7, <1>8, <1>9, <1>10, <1>11 DEF m, Remembers
<1>14. m <= L
  BY <1>3
<1> QED
  BY <1>1, <1>12, <1>13, <1>14 DEF m, L, FrontIsFresh

LEMMA LimiterInitInv == LimiterInit => LimiterInv
<1> SUFFICES ASSUME LimiterInit PROVE LimiterInv
  OBVIOUS
<1>1. LimiterTypes /\ Len(attempts) = 0
  BY FS_EmptySet DEF LimiterInit, LimiterTypes
<1>2. CallsAreTimely
  BY DEF LimiterInit, CallsAreTimely
<1>3. Remembers(attempts, [i \in 1 .. Len(attempts) |-> CHOOSE t \in Tasks : TRUE])
  BY <1>1 DEF LimiterInit, Remembers
<1> QED
  BY <1>1, <1>2, <1>3, LimiterAssumption DEF LimiterInv

\* The calls that read the clock, and those that do not write.
LEMMA ReadClockKeeps ==
    ASSUME LimiterInv, NEW t \in Tasks, ReadClock(t) PROVE LimiterInv'
<1>1. LimiterTypes' /\ CallsAreTimely'
  BY LimiterAssumption DEF LimiterInv, LimiterTypes, CallsAreTimely, ReadClock
<1>2. PICK who : Remembers(attempts, who)
  BY DEF LimiterInv
<1>3. \A s \in Tasks : decided[s] # -1 => s # t
  BY DEF LimiterInv, CallsAreTimely, ReadClock
<1>4. \A s \in Tasks : decided[s] # -1 => read'[s] = read[s]
  BY <1>3 DEF LimiterInv, LimiterTypes, ReadClock
<1>5. Remembers(attempts, who)'
  BY <1>2, <1>4 DEF Remembers, ReadClock
<1> QED
  BY <1>1, <1>5 DEF LimiterInv, ReadClock

LEMMA TickKeeps ==
    ASSUME LimiterInv, Tick PROVE LimiterInv'
<1>1. LimiterTypes' /\ CallsAreTimely'
  BY LimiterAssumption DEF LimiterInv, LimiterTypes, CallsAreTimely, Tick
<1>2. PICK who : Remembers(attempts, who)
  BY DEF LimiterInv
<1>3. \A s \in Tasks : clock' - decided[s] <= Window - MaxDelay => clock - decided[s] <= Window - MaxDelay
  BY LimiterAssumption DEF LimiterInv, LimiterTypes, Tick
<1>4. Remembers(attempts, who)'
  BY <1>2, <1>3 DEF Remembers, Tick
<1> QED
  BY <1>1, <1>4 DEF LimiterInv, Tick

LEMMA CleanupKeeps ==
    ASSUME LimiterInv, NEW now \in 0 .. clock, Cleanup(now) PROVE LimiterInv'
<1>0. now \in Nat /\ now <= clock /\ clock \in Nat
  BY DEF LimiterInv, LimiterTypes
<1>c. \E who : Remembers(Pruned(now), who) /\ FrontIsFresh(now, Pruned(now), who)
  BY <1>0, PruningRemembers
<1>1. PICK who : Remembers(Pruned(now), who)
  BY <1>c
<1>a. Pruned(now) \in Seq(Nat) /\ Len(Pruned(now)) <= Len(attempts)
  BY <1>0, PruningRemembers
<1>2. attempts' = Pruned(now) /\ UNCHANGED <<clock, read, decided, done>>
  BY DEF Cleanup
<1>3. Remembers(attempts, who)'
  BY <1>1, <1>2 DEF Remembers
<1>4. LimiterTypes' /\ CallsAreTimely'
  BY <1>a, <1>2 DEF LimiterInv, LimiterTypes, CallsAreTimely
<1>5. Len(attempts') <= MaxAttempts
  BY <1>a, <1>2, LimiterAssumption DEF LimiterInv, LimiterTypes
<1> QED
  BY <1>3, <1>4, <1>5 DEF LimiterInv

LEMMA AllowKeeps ==
    ASSUME LimiterInv, NEW t \in Tasks, Allow(t) PROVE LimiterInv'
<1>0. /\ LimiterTypes /\ CallsAreTimely /\ t \notin done /\ read[t] # -1 /\ decided[t] = -1
      /\ read[t] \in Nat /\ read[t] <= clock /\ clock \in Nat /\ clock - read[t] <= MaxDelay
  BY DEF LimiterInv, LimiterTypes, CallsAreTimely, Allow
<1> DEFINE kept == Pruned(read[t])
<1>c. \E who : Remembers(kept, who) /\ FrontIsFresh(read[t], kept, who)
  BY <1>0, PruningRemembers
<1>1. PICK who : Remembers(kept, who)
  BY <1>c
<1>a. kept \in Seq(Nat) /\ Len(kept) <= Len(attempts) /\ Len(kept) \in Nat
  BY <1>0, PruningRemembers
<1>b. /\ who \in [1 .. Len(kept) -> Tasks]
      /\ \A i, j \in 1 .. Len(kept) : who[i] = who[j] => i = j
      /\ \A i \in 1 .. Len(kept) : decided[who[i]] # -1 /\ read[who[i]] = kept[i]
      /\ \A i, j \in 1 .. Len(kept) : i <= j => decided[who[i]] <= decided[who[j]]
      /\ \A s \in Tasks : decided[s] # -1 /\ clock - decided[s] <= Window - MaxDelay =>
             \E i \in 1 .. Len(kept) : who[i] = s
  BY <1>1 DEF Remembers
<1>2. done' = done \cup {t} /\ clock' = clock /\ read' = read /\ IsFiniteSet(done')
  <2>1. IsFiniteSet(done)
    BY <1>0 DEF LimiterTypes
  <2> QED
    BY <2>1, FS_AddElement DEF Allow
<1>3. CASE attempts' = kept /\ decided' = decided
  <2>1. Remembers(attempts, who)'
    BY <1>1, <1>2, <1>3 DEF Remembers
  <2>2. LimiterTypes' /\ CallsAreTimely'
    BY <1>0, <1>a, <1>2, <1>3 DEF LimiterTypes, CallsAreTimely
  <2>3. Len(attempts') <= MaxAttempts
    BY <1>0, <1>a, <1>3, LimiterAssumption DEF LimiterInv, LimiterTypes
  <2> QED
    BY <2>1, <2>2, <2>3 DEF LimiterInv
<1>4. CASE /\ Len(kept) < MaxAttempts
           /\ attempts' = Append(kept, read[t])
           /\ decided' = [decided EXCEPT ![t] = clock]
  <2> DEFINE m == Len(kept)
  <2> DEFINE more == [i \in 1 .. m + 1 |-> IF i = m + 1 THEN t ELSE who[i]]
  <2>1. /\ attempts' \in Seq(Nat) /\ Len(attempts') = m + 1 /\ m \in Nat
        /\ attempts'[m + 1] = read[t] /\ \A i \in 1 .. m : attempts'[i] = kept[i]
    BY <1>0, <1>a, <1>4
  <2>2. /\ decided'[t] = clock
        /\ \A s \in Tasks : s # t => decided'[s] = decided[s]
    BY <1>0, <1>4 DEF LimiterTypes
  <2>3. LimiterTypes' /\ CallsAreTimely'
    <3>1. LimiterTypes'
      BY <1>0, <1>2, <1>4, <2>1 DEF LimiterTypes
    <3> HIDE DEF kept
    <3>2. CallsAreTimely'
      BY <1>0, <1>2, <2>2 DEF LimiterTypes, CallsAreTimely
    <3> QED
      BY <3>1, <3>2
  <2>4. Len(attempts') <= MaxAttempts
    BY <1>4, <2>1, LimiterAssumption
  <2>5. \A i \in 1 .. m : who[i] \in Tasks /\ who[i] # t
    BY <1>0, <1>b
  <2>6. \A i \in 1 .. m : i \in 1 .. m + 1 /\ i # m + 1
    BY <2>1
  <2>7. m + 1 \in 1 .. m + 1 /\ \A i \in 1 .. m + 1 : i = m + 1 \/ i \in 1 .. m
    BY <2>1
  <2>8. more[m + 1] = t /\ \A i \in 1 .. m : more[i] = who[i]
    BY <2>6, <2>7
  <2>9. more \in [1 .. m + 1 -> Tasks]
    BY <2>5, <2>7
  <2> HIDE DEF m, more, kept
  <2>10. \A i, j \in 1 .. m + 1 : more[i] = more[j] => i = j
    BY <1>b, <2>5, <2>7, <2>8 DEF m
  <2>11. \A i \in 1 .. m + 1 : decided'[more[i]] # -1 /\ read'[more[i]] = attempts'[i]
    <3>1. ASSUME NEW i \in 1 .. m PROVE decided'[more[i]] # -1 /\ read'[more[i]] = attempts'[i]
      BY <1>b, <1>2, <2>1, <2>2, <2>5, <2>8 DEF m
    <3>2. decided'[more[m + 1]] # -1 /\ read'[more[m + 1]] = attempts'[m + 1]
      BY <1>0, <1>2, <2>1, <2>2, <2>8
    <3> QED
      BY <2>7, <3>1, <3>2
  <2>12. \A i \in 1 .. m + 1 : decided'[more[i]] \in Int /\ decided'[more[i]] <= clock
    BY <1>0, <2>2, <2>3, <2>9, <1>2 DEF LimiterTypes, CallsAreTimely
  <2>13. \A i, j \in 1 .. m + 1 : i <= j => decided'[more[i]] <= decided'[more[j]]
    <3> TAKE i, j \in 1 .. m + 1
    <3>1. CASE j = m + 1
      BY <2>2, <2>8, <2>12, <3>1
    <3>2. CASE j \in 1 .. m /\ i \in 1 .. m
      BY <1>b, <2>2, <2>5, <2>8, <3>2 DEF m
    <3>3. CASE j \in 1 .. m /\ i = m + 1
      BY <2>1, <3>3
    <3> QED
      BY <2>7, <3>1, <3>2, <3>3
  <2>14. ASSUME NEW s \in Tasks, decided'[s] # -1, clock' - decided'[s] <= Window - MaxDelay
         PROVE  \E i \in 1 .. m + 1 : more[i] = s
    <3>1. CASE s = t
      BY <2>7, <2>8, <3>1
    <3>2. CASE s # t
      <4>1. PICK i \in 1 .. m : who[i] = s
        BY <1>b, <1>2, <2>2, <2>14, <3>2 DEF m
      <4> QED
        BY <2>6, <2>8, <4>1
    <3> QED
      BY <3>1, <3>2
  <2>15. \A s \in Tasks : decided'[s] # -1 /\ clock' - decided'[s] <= Window - MaxDelay =>
             \E i \in 1 .. m + 1 : more[i] = s
    BY <2>14
  <2>16. 1 .. m + 1 = 1 .. Len(attempts')
    BY <2>1
  <2>17. \E w : /\ w \in [1 .. Len(attempts') -> Tasks]
                /\ \A i, j \in 1 .. Len(attempts') : w[i] = w[j] => i = j
                /\ \A i \in 1 .. Len(attempts') : decided'[w[i]] # -1 /\ read'[w[i]] = attempts'[i]
                /\ \A i, j \in 1 .. Len(attempts') : i <= j => decided'[w[i]] <= decided'[w[j]]
                /\ \A s \in Tasks : decided'[s] # -1 /\ clock' - decided'[s] <= Window - MaxDelay =>
                       \E i \in 1 .. Len(attempts') : w[i] = s
    <3>1. /\ more \in [1 .. Len(attempts') -> Tasks]
          /\ \A i, j \in 1 .. Len(attempts') : more[i] = more[j] => i = j
          /\ \A i \in 1 .. Len(attempts') : decided'[more[i]] # -1 /\ read'[more[i]] = attempts'[i]
      BY <2>9, <2>10, <2>11, <2>16, Zenon
    <3>2. \A i, j \in 1 .. Len(attempts') : i <= j => decided'[more[i]] <= decided'[more[j]]
      BY <2>13, <2>16, Zenon
    <3>3. \A s \in Tasks : decided'[s] # -1 /\ clock' - decided'[s] <= Window - MaxDelay =>
             \E i \in 1 .. Len(attempts') : more[i] = s
      BY <2>15, <2>16, Zenon
    <3> WITNESS more
    <3> QED
      BY <3>1, <3>2, <3>3
  <2>18. \E w : Remembers(attempts, w)'
    BY <2>17 DEF Remembers
  <2> QED
    BY <2>3, <2>4, <2>18 DEF LimiterInv
<1> QED
  BY <1>3, <1>4 DEF Allow

LEMMA LimiterNextInv == LimiterInv /\ [LimiterNext]_limiterVars => LimiterInv'
<1> SUFFICES ASSUME LimiterInv, [LimiterNext]_limiterVars PROVE LimiterInv'
  OBVIOUS
<1>1. ASSUME NEW t \in Tasks, ReadClock(t) PROVE LimiterInv'
  BY <1>1, ReadClockKeeps
<1>2. ASSUME NEW t \in Tasks, Allow(t) PROVE LimiterInv'
  BY <1>2, AllowKeeps
<1>3. ASSUME NEW now \in 0 .. clock, Cleanup(now) PROVE LimiterInv'
  BY <1>3, CleanupKeeps
<1>4. CASE Tick
  BY <1>4, TickKeeps
<1>5. CASE UNCHANGED limiterVars
  <2>1. UNCHANGED <<clock, read, decided, done, attempts>>
    BY <1>5 DEF limiterVars
  <2>2. PICK who : Remembers(attempts, who)
    BY DEF LimiterInv
  <2>3. Remembers(attempts, who)'
    BY <2>1, <2>2 DEF Remembers
  <2> QED
    BY <2>1, <2>3 DEF LimiterInv, LimiterTypes, CallsAreTimely
<1> QED
  BY <1>1, <1>2, <1>3, <1>4, <1>5 DEF LimiterNext

\* As many numbers as members of a set, at least, when they name different members.
LEMMA NamedMembers ==
    ASSUME NEW S, IsFiniteSet(S), NEW n \in Nat, NEW w, 
           \A i \in 1 .. n : w[i] \in S,
           \A i, j \in 1 .. n : w[i] = w[j] => i = j
    PROVE  n <= Cardinality(S)
<1> DEFINE f == [i \in 1 .. n |-> w[i]]
<1>1. f \in [1 .. n -> S] /\ \A i, j \in 1 .. n : f[i] = f[j] => i = j
  OBVIOUS
<1> HIDE DEF f
<1>2. f \in Injection(1 .. n, S)
  BY <1>1 DEF Injection, IsInjective
<1>3. IsFiniteSet(1 .. n) /\ Cardinality(1 .. n) = n
  BY FS_Interval
<1>4. Cardinality(1 .. n) <= Cardinality(S)
  BY <1>2, FS_Injection
<1> QED
  BY <1>3, <1>4

\* No more members than numbers that name them all.
LEMMA AllNamed ==
    ASSUME NEW S, NEW n \in Nat, NEW w, \A s \in S : \E i \in 1 .. n : w[i] = s
    PROVE  IsFiniteSet(S) /\ Cardinality(S) <= n
<1> DEFINE T == {w[i] : i \in 1 .. n}
<1> DEFINE f == [i \in 1 .. n |-> w[i]]
<1>1. f \in [1 .. n -> T] /\ \A t \in T : \E i \in 1 .. n : f[i] = t
  OBVIOUS
<1>2. S \subseteq T
  OBVIOUS
<1> HIDE DEF f, T
<1>3. f \in Surjection(1 .. n, T)
  BY <1>1 DEF Surjection
<1>4. IsFiniteSet(1 .. n) /\ Cardinality(1 .. n) = n
  BY FS_Interval
<1>5. IsFiniteSet(T) /\ Cardinality(T) <= n
  BY <1>3, <1>4, FS_Surjection
<1>6. IsFiniteSet(S) /\ Cardinality(S) <= Cardinality(T)
  BY <1>2, <1>5, FS_Subset
<1>7. Cardinality(S) \in Nat /\ Cardinality(T) \in Nat
  BY <1>5, <1>6, FS_CardinalityType
<1> QED
  BY <1>5, <1>6, <1>7

\* A stretch that ends now holds only recent calls; one that ended before holds
\* what it held.
LEMMA WindowStaysBounded ==
    ASSUME LimiterInv, LimiterInv', WindowIsBounded, [LimiterNext]_limiterVars
    PROVE  WindowIsBounded'
<1> SUFFICES ASSUME NEW from \in 0 .. clock'
             PROVE  Cardinality({t \in Tasks : decided'[t] \in from .. from + Window - MaxDelay}) <= MaxAttempts
  BY DEF WindowIsBounded
<1> DEFINE S == {t \in Tasks : decided'[t] \in from .. from + Window - MaxDelay}
<1>0. clock \in Nat /\ clock' \in Nat /\ from \in Nat /\ \A t \in Tasks : decided'[t] \in Nat \cup {-1} /\ decided[t] \in Nat \cup {-1}
  BY DEF LimiterInv, LimiterTypes
<1>1. CASE clock' <= from + Window - MaxDelay
  <2>1. \A t \in S : decided'[t] # -1 /\ clock' - decided'[t] <= Window - MaxDelay
    BY <1>0, <1>1, LimiterAssumption
  <2>2. S \in SUBSET Tasks
    OBVIOUS
  <2> HIDE DEF S
  <2>3. PICK who : Remembers(attempts, who)'
    BY DEF LimiterInv
  <2>4. \A t \in S : \E i \in 1 .. Len(attempts') : who[i] = t
    BY <2>1, <2>2, <2>3 DEF Remembers
  <2>5. Len(attempts') \in Nat /\ Len(attempts') <= MaxAttempts
    BY DEF LimiterInv, LimiterTypes
  <2>6. IsFiniteSet(S) /\ Cardinality(S) <= Len(attempts')
    BY <2>4, <2>5, AllNamed
  <2>7. Cardinality(S) \in Nat
    BY <2>6, FS_CardinalityType
  <2>8. Cardinality(S) <= MaxAttempts
    BY <2>5, <2>6, <2>7, LimiterAssumption
  <2> QED
    BY <2>8 DEF S
<1>2. CASE ~(clock' <= from + Window - MaxDelay)
  <2>1. decided' = decided \/ \E t \in Tasks : decided' = [decided EXCEPT ![t] = clock] /\ clock' = clock /\ decided[t] = -1
    BY DEF LimiterNext, limiterVars, ReadClock, Allow, Cleanup, Tick, LimiterInv, CallsAreTimely
  <2>2. S = {t \in Tasks : decided[t] \in from .. from + Window - MaxDelay}
    <3>1. CASE decided' = decided
      BY <3>1
    <3>2. ASSUME NEW t \in Tasks, decided' = [decided EXCEPT ![t] = clock],
                 clock' = clock, decided[t] = -1
          PROVE  S = {s \in Tasks : decided[s] \in from .. from + Window - MaxDelay}
      <4>1. /\ decided'[t] = clock /\ \A s \in Tasks : s # t => decided'[s] = decided[s]
        BY <3>2 DEF LimiterInv, LimiterTypes
      <4>2. /\ clock \notin from .. from + Window - MaxDelay
            /\ -1 \notin from .. from + Window - MaxDelay
        BY <1>0, <1>2, <3>2, LimiterAssumption
      <4>3. \A s \in Tasks : decided'[s] \in from .. from + Window - MaxDelay
                                <=> decided[s] \in from .. from + Window - MaxDelay
        BY <3>2, <4>1, <4>2
      <4> QED
        BY <4>3
    <3> QED
      BY <2>1, <3>1, <3>2
  <2>3. CASE from \in 0 .. clock
    BY <2>2, <2>3 DEF WindowIsBounded
  <2>4. CASE ~(from \in 0 .. clock)
    <3>1. S = {}
      BY <1>0, <2>2, <2>4 DEF LimiterInv, CallsAreTimely
    <3> QED
      BY <3>1, FS_EmptySet, LimiterAssumption
  <2> QED
    BY <2>3, <2>4
<1> QED
  BY <1>1, <1>2

\* Whoever is turned away is so by a full queue, whose front entry has not expired
\* and whose other entries were let through after it.
LEMMA RefusalsAreEarned ==
    ASSUME LimiterInv, LimiterInv', [LimiterNext]_limiterVars
    PROVE  RefusalIsEarned
<1> SUFFICES ASSUME NEW t \in done' \ done, decided'[t] = -1
             PROVE  Cardinality({s \in Tasks : decided[s] # -1 /\ clock - decided[s] <= Window + MaxDelay})
                        >= MaxAttempts
  BY DEF RefusalIsEarned
<1>1. t \in Tasks /\ Allow(t)
  BY DEF LimiterNext, limiterVars, ReadClock, Allow, Cleanup, Tick, LimiterInv, LimiterTypes
<1>2. /\ LimiterTypes /\ CallsAreTimely /\ t \notin done /\ read[t] # -1
      /\ read[t] \in Nat /\ read[t] <= clock /\ clock \in Nat /\ clock - read[t] <= MaxDelay
  BY <1>1 DEF LimiterInv, LimiterTypes, CallsAreTimely, Allow
<1> DEFINE kept == Pruned(read[t])
<1>3. kept \in Seq(Nat) /\ Len(kept) \in Nat /\ Len(kept) >= MaxAttempts
  <2>1. decided' = [decided EXCEPT ![t] = clock] => decided'[t] = clock
    BY <1>1, <1>2 DEF LimiterTypes
  <2>2. kept \in Seq(Nat)
    BY <1>2, PruningRemembers
  <2> QED
    BY <1>1, <1>2, <2>1, <2>2 DEF Allow
<1>4. \E who : Remembers(kept, who) /\ FrontIsFresh(read[t], kept, who)
  BY <1>2, PruningRemembers
<1>5. PICK who : Remembers(kept, who) /\ FrontIsFresh(read[t], kept, who)
  BY <1>4
<1> DEFINE S == {s \in Tasks : decided[s] # -1 /\ clock - decided[s] <= Window + MaxDelay}
<1>6. IsFiniteSet(S)
  <2>1. S \subseteq done /\ IsFiniteSet(done)
    BY <1>2 DEF CallsAreTimely, LimiterTypes
  <2> QED
    BY <2>1, FS_Subset
<1>7. \A i \in 1 .. MaxAttempts : i \in 1 .. Len(kept)
  BY <1>3, LimiterAssumption
<1>8. \A i \in 1 .. MaxAttempts : who[i] \in S
  <2> TAKE i \in 1 .. MaxAttempts
  <2>1. 1 \in 1 .. Len(kept) /\ i \in 1 .. Len(kept) /\ 1 <= i /\ 1 <= Len(kept)
    BY <1>3, <1>7, LimiterAssumption
  <2>2. /\ who[1] \in Tasks /\ who[i] \in Tasks
        /\ decided[who[1]] # -1 /\ decided[who[i]] # -1 /\ decided[who[1]] <= decided[who[i]]
        /\ read[t] - read[who[1]] <= Window
    BY <1>5, <2>1 DEF Remembers, FrontIsFresh
  <2>3. read[who[1]] <= decided[who[1]]
    BY <1>2, <2>2 DEF CallsAreTimely
  <2>4. read[who[1]] \in Int /\ decided[who[1]] \in Int /\ decided[who[i]] \in Int
    BY <1>2, <2>2 DEF LimiterTypes
  <2>5. clock - decided[who[i]] <= Window + MaxDelay
    BY <1>2, <2>2, <2>3, <2>4, LimiterAssumption
  <2> QED
    BY <2>2, <2>5
<1>9. \A i, j \in 1 .. MaxAttempts : who[i] = who[j] => i = j
  BY <1>5, <1>7 DEF Remembers
<1> HIDE DEF S
<1>10. MaxAttempts <= Cardinality(S)
  BY <1>6, <1>8, <1>9, NamedMembers, LimiterAssumption
<1>11. Cardinality(S) \in Nat
  BY <1>6, FS_CardinalityType
<1>12. Cardinality(S) >= MaxAttempts
  BY <1>10, <1>11, LimiterAssumption
<1> QED
  BY <1>12 DEF S

\* IpRateLimiter counts: however calls and sweeps overtake each other between
\* reading the clock and taking the lock, no stretch of the window less that delay
\* lets more through than it may, and nobody is turned away unless that many were
\* let through in the window and that delay.
THEOREM LimiterAlwaysCounts == LimiterSpec => LimiterCounts
<1>1. LimiterInit => LimiterInv /\ WindowIsBounded
  <2> SUFFICES ASSUME LimiterInit PROVE LimiterInv /\ WindowIsBounded
    OBVIOUS
  <2>1. \A from \in 0 .. clock : {t \in Tasks : decided[t] \in from .. from + Window - MaxDelay} = {}
    BY LimiterAssumption DEF LimiterInit
  <2>2. WindowIsBounded
    BY <2>1, FS_EmptySet, LimiterAssumption DEF WindowIsBounded
  <2> QED
    BY <2>2, LimiterInitInv
<1>2. LimiterInv /\ WindowIsBounded /\ [LimiterNext]_limiterVars
         => (LimiterInv /\ WindowIsBounded)' /\ WindowIsBounded' /\ RefusalIsEarned
  BY LimiterNextInv, WindowStaysBounded, RefusalsAreEarned
<1>3. LimiterInv /\ WindowIsBounded /\ [LimiterNext]_limiterVars
         => (LimiterInv /\ WindowIsBounded)' /\ [WindowIsBounded' /\ RefusalIsEarned]_limiterVars
  BY <1>2
<1> QED
  BY <1>1, <1>3, PTL DEF LimiterSpec, LimiterCounts
=============================================================================
