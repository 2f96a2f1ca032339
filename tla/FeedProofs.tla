----------------------------- MODULE FeedProofs -----------------------------
(***************************************************************************)
(* Proofs about PgFanout, for any number of processes, domains, channels,  *)
(* commits and dropped connections: what the listener does not hand over   *)
(* is made up for by a Resync, and what it hands over keeps the order of   *)
(* the commits; and about PotFeed, for any number of replicas, pots, buys  *)
(* and faults: a badge never shows what was not so, a live replica with    *)
(* nothing left to do has heard of every commit, and a win is told at most *)
(* once.                                                                   *)
(***************************************************************************)
EXTENDS PotFeed, PgFanout, SequenceTheorems, TLAPS

-----------------------------------------------------------------------------
(* The listener and its subscribers.                                       *)

FanMessages == [channel : Channels, id : Nat]
FanSignals == {Listener!Resync} \cup {Listener!Notify(message) : message \in FanMessages}

FanTypeOK ==
    /\ fanLink \in [Processes -> {"down", "connected", "listening", "live"}]
    /\ fanWire \in [Processes -> Seq(FanMessages)]
    /\ fanInbox \in [Processes -> [Subscribers -> Seq(FanSignals)]]
    /\ sent \in Seq(FanMessages)
    /\ taken \in [Processes -> [Subscribers -> Seq(FanSignals)]]
    /\ covered \in [Processes -> [Subscribers -> Nat]]

\* What was handed over (h), then what is on the wire (s), in commit order, and
\* nothing that is not committed yet: numbers go up to `top`.
InOrder(h, s, top, channels) ==
    /\ \A i, j \in 1 .. Len(h) : i < j /\ h[i].kind = "notify" /\ h[j].kind = "notify"
           => h[i].message.id < h[j].message.id
    /\ \A i \in 1 .. Len(h) : h[i].kind = "notify" =>
           /\ h[i].message.channel \in channels
           /\ h[i].message.id <= top
           /\ \A k \in 1 .. Len(s) : h[i].message.id < s[k].id
    /\ \A k, l \in 1 .. Len(s) : k < l => s[k].id < s[l].id
    /\ \A k \in 1 .. Len(s) : s[k].id <= top

Has(s, x) == \E i \in 1 .. Len(s) : s[i] = x

\* No gap for one domain: of what was committed (all), what its last Resync (c)
\* does not cover is on the wire or handed over.
NoGap(state, c, h, s, all, channels) ==
    state = "live" => \A n \in 1 .. Len(all) : all[n].channel \in channels =>
                          n <= c \/ Has(s, all[n]) \/ Has(h, Listener!Notify(all[n]))

\* One domain of one process.
FanOK(r, d) ==
    /\ NoGap(fanLink[r], covered[r][d], Handed(r, d), fanWire[r], sent, Named(d))
    /\ InOrder(Handed(r, d), fanWire[r], Len(sent), Named(d))

\* The inductive invariant of the fan-out: HandedInCommitOrder needs that numbers
\* already handed over or under way are of the past, so that the next one is larger.
FanInv == FanTypeOK /\ \A r \in Processes, d \in Subscribers : FanOK(r, d)

-----------------------------------------------------------------------------
(* Sequences *)

\* What Append adds, by place and by element.
LEMMA AppendFacts ==
    ASSUME NEW S, NEW s \in Seq(S), NEW x \in S
    PROVE  /\ Append(s, x) \in Seq(S) /\ Len(s) \in Nat
           /\ Len(Append(s, x)) = Len(s) + 1 /\ Append(s, x)[Len(s) + 1] = x
           /\ \A i \in 1 .. Len(s) : Append(s, x)[i] = s[i]
           /\ \A i \in 1 .. Len(Append(s, x)) : i \in 1 .. Len(s) \/ i = Len(s) + 1
           /\ Has(Append(s, x), x) /\ \A y : Has(s, y) => Has(Append(s, x), y)
<1> DEFINE t == Append(s, x)
<1>1. /\ t \in Seq(S) /\ Len(s) \in Nat /\ Len(t) = Len(s) + 1 /\ t[Len(s) + 1] = x
      /\ \A i \in 1 .. Len(s) : t[i] = s[i]
  BY AppendProperties
<1> HIDE DEF t
<1>2. \A i \in 1 .. Len(t) : i \in 1 .. Len(s) \/ i = Len(s) + 1
  BY <1>1
<1>3. Has(t, x)
  BY <1>1 DEF Has
<1>4. \A y : Has(s, y) => Has(t, y)
  BY <1>1 DEF Has
<1> QED BY <1>1, <1>2, <1>3, <1>4 DEF t

\* What Head and Tail leave of a sequence.
LEMMA TailFacts ==
    ASSUME NEW S, NEW s \in Seq(S), s # <<>>
    PROVE  /\ Head(s) = s[1] /\ Head(s) \in S /\ 1 \in 1 .. Len(s) /\ Tail(s) \in Seq(S)
           /\ \A k \in 1 .. Len(Tail(s)) :
                  k \in Nat /\ k + 1 \in 1 .. Len(s) /\ 1 < k + 1 /\ Tail(s)[k] = s[k + 1]
           /\ \A y : Has(s, y) => y = Head(s) \/ Has(Tail(s), y)
<1> DEFINE t == Tail(s)
<1>1. /\ Head(s) = s[1] /\ Head(s) \in S /\ Len(s) \in Nat /\ Len(s) > 0 /\ t \in Seq(S)
      /\ Len(t) = Len(s) - 1 /\ \A k \in 1 .. Len(t) : t[k] = s[k + 1]
  BY HeadTailProperties
<1> HIDE DEF t
<1>2. 1 \in 1 .. Len(s) /\ \A k \in 1 .. Len(t) : k \in Nat /\ k + 1 \in 1 .. Len(s) /\ 1 < k + 1
  BY <1>1
<1>3. ASSUME NEW y, Has(s, y), y # Head(s) PROVE Has(t, y)
  <2>1. PICK i \in 1 .. Len(s) : s[i] = y
    BY <1>3 DEF Has
  <2>2. i # 1 /\ i - 1 \in 1 .. Len(t) /\ (i - 1) + 1 = i
    BY <1>1, <1>3, <2>1
  <2> QED BY <1>1, <2>1, <2>2 DEF Has
<1> QED BY <1>1, <1>2, <1>3 DEF t

\* A worker that takes its next signal leaves what was handed over the same.
LEMMA TakeKeeps ==
    ASSUME NEW S, NEW t \in Seq(S), NEW b \in Seq(S), b # <<>>
    PROVE  Append(t, Head(b)) \o Tail(b) = t \o b
<1>1. Head(b) \in S /\ Tail(b) \in Seq(S) /\ <<Head(b)>> \in Seq(S) /\ b = <<Head(b)>> \o Tail(b)
  BY HeadTailProperties
<1>2. Append(t, Head(b)) = t \o <<Head(b)>>
  BY <1>1, AppendIsConcat
<1>3. (t \o <<Head(b)>>) \o Tail(b) = t \o (<<Head(b)>> \o Tail(b))
  BY <1>1, ConcatAssociative
<1> QED BY <1>1, <1>2, <1>3

\* A signal queued is a signal handed over.
LEMMA QueueHands ==
    ASSUME NEW S, NEW t \in Seq(S), NEW b \in Seq(S), NEW x \in S
    PROVE  t \o Append(b, x) = Append(t \o b, x)
<1>1. <<x>> \in Seq(S) /\ t \o b \in Seq(S)
  BY ConcatProperties
<1>2. Append(b, x) = b \o <<x>> /\ Append(t \o b, x) = (t \o b) \o <<x>>
  BY <1>1, AppendIsConcat
<1>3. (t \o b) \o <<x>> = t \o (b \o <<x>>)
  BY <1>1, ConcatAssociative
<1> QED BY <1>2, <1>3

-----------------------------------------------------------------------------
(* Order *)

\* A commit is numbered after everything handed over or under way.
LEMMA OrderCommitted ==
    ASSUME NEW h \in Seq(FanSignals), NEW s \in Seq(FanMessages), NEW top \in Nat, NEW C,
           InOrder(h, s, top, C), NEW m \in FanMessages, m.id = top + 1
    PROVE  InOrder(h, s, top + 1, C) /\ InOrder(h, Append(s, m), top + 1, C)
<1> DEFINE s2 == Append(s, m)
<1>1. /\ Len(s) \in Nat /\ Len(s2) = Len(s) + 1 /\ s2[Len(s) + 1] = m
      /\ \A i \in 1 .. Len(s) : s2[i] = s[i]
      /\ \A i \in 1 .. Len(s2) : i \in 1 .. Len(s) \/ i = Len(s) + 1
  BY AppendFacts
<1> HIDE DEF s2
<1>2. /\ \A k \in 1 .. Len(s) : s[k].id \in Nat /\ s[k].id <= top
      /\ \A i \in 1 .. Len(h) : h[i].kind = "notify" => h[i].message.id \in Nat /\ h[i].message.id <= top
  <2>1. \A k \in 1 .. Len(s) : s[k] \in FanMessages
    BY ElementOfSeq
  <2>2. \A i \in 1 .. Len(h) : h[i] \in FanSignals
    BY ElementOfSeq
  <2>3. \A g \in FanSignals : g.kind = "notify" => g.message \in FanMessages
    BY DEF FanSignals, Listener!Resync, Listener!Notify
  <2>4. \A g \in FanMessages : g.id \in Nat
    BY DEF FanMessages
  <2> QED BY <2>1, <2>2, <2>3, <2>4 DEF InOrder
<1>3. /\ \A k \in 1 .. Len(s) : s[k].id <= top + 1 /\ s[k].id < m.id
      /\ \A i \in 1 .. Len(h) : h[i].kind = "notify" => h[i].message.id <= top + 1 /\ h[i].message.id < m.id
  BY <1>2
<1>4. InOrder(h, s, top + 1, C)
  BY <1>3 DEF InOrder
<1>5. InOrder(h, s2, top + 1, C)
  <2>1. /\ \A i, j \in 1 .. Len(h) : i < j /\ h[i].kind = "notify" /\ h[j].kind = "notify"
               => h[i].message.id < h[j].message.id
        /\ \A i \in 1 .. Len(h) : h[i].kind = "notify" =>
               h[i].message.channel \in C /\ h[i].message.id <= top + 1
    BY <1>3 DEF InOrder
  <2>2. ASSUME NEW i \in 1 .. Len(h), h[i].kind = "notify", NEW k \in 1 .. Len(s2)
        PROVE  h[i].message.id < s2[k].id
    BY <1>1, <1>3, <2>2 DEF InOrder
  <2>3. ASSUME NEW k \in 1 .. Len(s2), NEW l \in 1 .. Len(s2), k < l
        PROVE  s2[k].id < s2[l].id
    <3>1. k \in 1 .. Len(s)
      BY <1>1, <2>3
    <3> QED BY <1>1, <1>3, <2>3, <3>1 DEF InOrder
  <2>4. \A k \in 1 .. Len(s2) : s2[k].id <= top + 1
    BY <1>1, <1>3
  <2> QED BY <2>1, <2>2, <2>3, <2>4 DEF InOrder
<1> QED BY <1>4, <1>5 DEF s2

\* route hands over the first of the wire, or drops it for a domain that did not
\* ask for its channel.
LEMMA OrderRouted ==
    ASSUME NEW h \in Seq(FanSignals), NEW s \in Seq(FanMessages), NEW top \in Nat, NEW C,
           InOrder(h, s, top, C), s # <<>>
    PROVE  /\ InOrder(h, Tail(s), top, C)
           /\ Head(s).channel \in C => InOrder(Append(h, Listener!Notify(Head(s))), Tail(s), top, C)
<1> DEFINE s2 == Tail(s)
           x  == Listener!Notify(Head(s))
           h2 == Append(h, x)
<1>1. /\ Head(s) = s[1] /\ Head(s) \in FanMessages /\ 1 \in 1 .. Len(s)
      /\ \A k \in 1 .. Len(s2) : k \in Nat /\ k + 1 \in 1 .. Len(s) /\ 1 < k + 1 /\ s2[k] = s[k + 1]
  BY TailFacts
<1>2. x \in FanSignals /\ x.message = s[1]
  BY <1>1 DEF FanSignals, Listener!Notify
<1>3. /\ Len(h) \in Nat /\ Len(h2) = Len(h) + 1 /\ h2[Len(h) + 1] = x
      /\ \A i \in 1 .. Len(h) : h2[i] = h[i]
      /\ \A i \in 1 .. Len(h2) : i \in 1 .. Len(h) \/ i = Len(h) + 1
  BY <1>2, AppendFacts
<1> HIDE DEF s2, x, h2
<1>4. /\ \A k, l \in 1 .. Len(s2) : k < l => s2[k].id < s2[l].id
      /\ \A k \in 1 .. Len(s2) : s2[k].id <= top /\ s[1].id < s2[k].id
  <2>1. ASSUME NEW k \in 1 .. Len(s2), NEW l \in 1 .. Len(s2), k < l PROVE s2[k].id < s2[l].id
    <3>1. k + 1 < l + 1
      BY <1>1, <2>1
    <3> QED BY <1>1, <3>1 DEF InOrder
  <2>2. ASSUME NEW k \in 1 .. Len(s2) PROVE s2[k].id <= top /\ s[1].id < s2[k].id
    BY <1>1 DEF InOrder
  <2> QED BY <2>1, <2>2
<1>5. /\ \A i \in 1 .. Len(h) : h[i].kind = "notify" =>
             /\ h[i].message.channel \in C /\ h[i].message.id <= top /\ h[i].message.id < s[1].id
             /\ \A k \in 1 .. Len(s2) : h[i].message.id < s2[k].id
      /\ s[1].id <= top
  BY <1>1 DEF InOrder
<1>6. InOrder(h, s2, top, C)
  BY <1>4, <1>5 DEF InOrder
<1>7. ASSUME Head(s).channel \in C PROVE InOrder(h2, s2, top, C)
  <2>1. ASSUME NEW i \in 1 .. Len(h2), NEW j \in 1 .. Len(h2),
               i < j, h2[i].kind = "notify", h2[j].kind = "notify"
        PROVE  h2[i].message.id < h2[j].message.id
    <3>1. i \in 1 .. Len(h)
      BY <1>3, <2>1
    <3>2. CASE j \in 1 .. Len(h)
      BY <1>3, <2>1, <3>1, <3>2 DEF InOrder
    <3>3. CASE j = Len(h) + 1
      BY <1>2, <1>3, <1>5, <2>1, <3>1, <3>3
    <3> QED BY <1>3, <3>2, <3>3
  <2>2. ASSUME NEW i \in 1 .. Len(h2), h2[i].kind = "notify"
        PROVE  /\ h2[i].message.channel \in C /\ h2[i].message.id <= top
               /\ \A k \in 1 .. Len(s2) : h2[i].message.id < s2[k].id
    <3>1. CASE i \in 1 .. Len(h)
      BY <1>3, <1>5, <2>2, <3>1
    <3>2. CASE i = Len(h) + 1
      BY <1>1, <1>2, <1>3, <1>4, <1>5, <1>7, <3>2
    <3> QED BY <1>3, <3>1, <3>2
  <2> QED BY <1>4, <2>1, <2>2 DEF InOrder
<1> QED BY <1>6, <1>7 DEF s2, h2, x

\* A Resync has no number.
LEMMA OrderResynced ==
    ASSUME NEW h \in Seq(FanSignals), NEW s, NEW top, NEW C, InOrder(h, s, top, C)
    PROVE  InOrder(Append(h, Listener!Resync), s, top, C)
<1> DEFINE h2 == Append(h, Listener!Resync)
<1>1. Listener!Resync \in FanSignals /\ Listener!Resync.kind # "notify"
  BY DEF FanSignals, Listener!Resync
<1>2. /\ h2[Len(h) + 1] = Listener!Resync /\ \A i \in 1 .. Len(h) : h2[i] = h[i]
      /\ \A i \in 1 .. Len(h2) : i \in 1 .. Len(h) \/ i = Len(h) + 1
  BY <1>1, AppendFacts
<1> HIDE DEF h2
<1>3. \A i \in 1 .. Len(h2) : h2[i].kind = "notify" => i \in 1 .. Len(h) /\ h2[i] = h[i]
  BY <1>1, <1>2
<1>4. InOrder(h2, s, top, C)
  BY <1>3 DEF InOrder
<1> QED BY <1>4 DEF h2

\* A dropped connection takes the wire with it.
LEMMA OrderLost ==
    ASSUME NEW h, NEW s, NEW top, NEW C, InOrder(h, s, top, C)
    PROVE  InOrder(h, <<>>, top, C)
<1>1. 1 .. Len(<<>>) = {}
  OBVIOUS
<1> QED BY <1>1 DEF InOrder
-----------------------------------------------------------------------------
(* The steps *)

\* The sequences of one domain of one process.
LEMMA FanSeqs ==
    ASSUME FanTypeOK, NEW r \in Processes, NEW d \in Subscribers
    PROVE  /\ fanWire[r] \in Seq(FanMessages) /\ sent \in Seq(FanMessages) /\ Len(sent) \in Nat
           /\ fanInbox[r][d] \in Seq(FanSignals) /\ taken[r][d] \in Seq(FanSignals)
           /\ Handed(r, d) \in Seq(FanSignals)
           /\ DOMAIN fanWire[r] = 1 .. Len(fanWire[r]) /\ DOMAIN sent = 1 .. Len(sent)
           /\ DOMAIN Handed(r, d) = 1 .. Len(Handed(r, d))
<1>1. /\ fanWire[r] \in Seq(FanMessages) /\ sent \in Seq(FanMessages)
      /\ fanInbox[r][d] \in Seq(FanSignals) /\ taken[r][d] \in Seq(FanSignals)
  BY DEF FanTypeOK
<1>2. Handed(r, d) \in Seq(FanSignals)
  BY <1>1, ConcatProperties DEF Handed
<1> QED BY <1>1, <1>2, LenProperties

\* A commit reaches every session that listens, and a live one does.
LEMMA CommitFan ==
    ASSUME FanInv, NEW channel \in Channels, Commit(channel)
    PROVE  FanInv'
<1> DEFINE m == [channel |-> channel, id |-> Len(sent) + 1]
<1>0. /\ FanTypeOK /\ sent \in Seq(FanMessages) /\ Len(sent) \in Nat
      /\ UNCHANGED <<fanLink, fanInbox, taken, covered>>
  BY LenProperties DEF FanInv, FanTypeOK, Commit
<1>1. m \in FanMessages /\ m.id = Len(sent) + 1
  BY <1>0 DEF FanMessages
<1>2. sent' = Append(sent, m) /\ Listener!Broadcast(m)
  BY DEF Commit
<1> HIDE DEF m
<1>3. /\ sent' \in Seq(FanMessages) /\ Len(sent') = Len(sent) + 1 /\ sent'[Len(sent) + 1] = m
      /\ \A n \in 1 .. Len(sent) : sent'[n] = sent[n]
      /\ \A n \in 1 .. Len(sent') : n \in 1 .. Len(sent) \/ n = Len(sent) + 1
  BY <1>0, <1>1, <1>2, AppendFacts
<1>4. \A r \in Processes : /\ fanWire[r] \in Seq(FanMessages) /\ Append(fanWire[r], m) \in Seq(FanMessages)
                          /\ fanWire'[r] = IF Listener!Listening(r) THEN Append(fanWire[r], m) ELSE fanWire[r]
  <2>1. \A r \in Processes : fanWire[r] \in Seq(FanMessages)
    BY <1>0 DEF FanTypeOK
  <2> QED BY <1>1, <1>2, <2>1, AppendFacts DEF Listener!Broadcast
<1>5. FanTypeOK'
  <2>1. fanWire' \in [Processes -> Seq(FanMessages)]
    BY <1>2, <1>4 DEF Listener!Broadcast
  <2> QED BY <1>0, <1>3, <2>1 DEF FanTypeOK
<1>6. ASSUME NEW r \in Processes, NEW d \in Subscribers PROVE FanOK(r, d)'
  <2> DEFINE h == Handed(r, d)
             C == Named(d)
             top == Len(sent)
  <2>1. /\ h \in Seq(FanSignals) /\ fanWire[r] \in Seq(FanMessages) /\ top \in Nat /\ FanOK(r, d)
        /\ Handed(r, d)' = h /\ fanLink'[r] = fanLink[r] /\ covered'[r][d] = covered[r][d]
        /\ Len(sent') = top + 1 /\ m.id = top + 1
    BY <1>0, <1>1, <1>3, FanSeqs DEF FanInv, Handed
  <2>2. InOrder(h, fanWire[r], top, C) /\ NoGap(fanLink[r], covered[r][d], h, fanWire[r], sent, C)
    BY <2>1 DEF FanOK
  <2> HIDE DEF h, C, top
  <2>3. InOrder(h, fanWire[r], top + 1, C) /\ InOrder(h, Append(fanWire[r], m), top + 1, C)
    BY <1>1, <2>1, <2>2, OrderCommitted
  <2>4. InOrder(h, fanWire'[r], top + 1, C)
    BY <1>4, <2>3
  <2>5. NoGap(fanLink[r], covered[r][d], h, fanWire'[r], sent', C)
    <3> SUFFICES ASSUME fanLink[r] = "live", NEW n \in 1 .. Len(sent'), sent'[n].channel \in C
                 PROVE  n <= covered[r][d] \/ Has(fanWire'[r], sent'[n]) \/ Has(h, Listener!Notify(sent'[n]))
      BY DEF NoGap
    <3>1. fanWire'[r] = Append(fanWire[r], m)
      BY <1>4 DEF Listener!Listening
    <3>2. Has(fanWire'[r], m) /\ \A y : Has(fanWire[r], y) => Has(fanWire'[r], y)
      BY <1>1, <1>4, <3>1, AppendFacts
    <3>3. CASE n \in 1 .. Len(sent)
      BY <1>3, <2>2, <3>2, <3>3 DEF NoGap
    <3>4. CASE n = Len(sent) + 1
      BY <1>3, <3>2, <3>4
    <3> QED BY <1>3, <3>3, <3>4
  <2> QED BY <2>1, <2>4, <2>5 DEF FanOK, C
<1> QED BY <1>5, <1>6 DEF FanInv

\* A step of one process leaves the others alone.
LEMMA OneProcess ==
    ASSUME FanInv, NEW r \in Processes, FanTypeOK', sent' = sent,
           \A q \in Processes : q # r => /\ fanLink'[q] = fanLink[q] /\ fanWire'[q] = fanWire[q] /\ fanInbox'[q] = fanInbox[q]
                                        /\ taken'[q] = taken[q] /\ covered'[q] = covered[q],
           \A d \in Subscribers : FanOK(r, d)'
    PROVE  FanInv'
<1>1. ASSUME NEW q \in Processes, NEW d \in Subscribers, q # r PROVE FanOK(q, d)'
  <2>1. FanOK(q, d)
    BY DEF FanInv
  <2>2. Handed(q, d)' = Handed(q, d)
    BY <1>1 DEF Handed
  <2> QED BY <1>1, <2>1, <2>2 DEF FanOK
<1> QED BY <1>1 DEF FanInv

\* A session on its way up, or gone down, is not live.
LEMMA LinkFan ==
    ASSUME FanInv, NEW r \in Processes, Reconnect(r) \/ FanDrop(r)
    PROVE  FanInv'
<1>0. FanTypeOK /\ UNCHANGED <<fanInbox, sent, taken, covered>>
  BY DEF FanInv, Reconnect, Listener!Connect, Listener!ListenTakesEffect, FanDrop, Listener!Disconnect
<1>1. /\ fanLink' \in [Processes -> {"down", "connected", "listening", "live"}] /\ fanLink'[r] # "live"
      /\ \A q \in Processes : q # r => fanLink'[q] = fanLink[q]
  BY <1>0 DEF FanTypeOK, Reconnect, Listener!Connect, Listener!ListenTakesEffect, FanDrop, Listener!Disconnect
<1>2. /\ fanWire' \in [Processes -> Seq(FanMessages)] /\ \A q \in Processes : q # r => fanWire'[q] = fanWire[q]
      /\ fanWire'[r] = fanWire[r] \/ fanWire'[r] = <<>>
  <2>1. fanWire \in [Processes -> Seq(FanMessages)] /\ <<>> \in Seq(FanMessages)
    BY <1>0 DEF FanTypeOK
  <2> QED BY <2>1 DEF Reconnect, Listener!Connect, Listener!ListenTakesEffect, FanDrop, Listener!Disconnect
<1>3. FanTypeOK'
  BY <1>0, <1>1, <1>2 DEF FanTypeOK
<1>4. ASSUME NEW d \in Subscribers PROVE FanOK(r, d)'
  <2>1. InOrder(Handed(r, d), fanWire[r], Len(sent), Named(d))
    BY DEF FanInv, FanOK
  <2>2. InOrder(Handed(r, d), <<>>, Len(sent), Named(d))
    BY <2>1, OrderLost
  <2>3. Handed(r, d)' = Handed(r, d)
    BY <1>0 DEF Handed
  <2> QED BY <1>0, <1>1, <1>2, <2>1, <2>2, <2>3 DEF FanOK, NoGap
<1> QED BY <1>0, <1>1, <1>2, <1>3, <1>4, OneProcess

\* When the answer to LISTEN arrives, the Resync covers everything committed so far.
LEMMA AnnounceFan ==
    ASSUME FanInv, NEW r \in Processes, Announce(r)
    PROVE  FanInv'
<1>0. FanTypeOK /\ UNCHANGED <<fanWire, sent, taken>> /\ Listener!Resync \in FanSignals
  BY DEF FanInv, Announce, Listener!ListenAnnounced, FanSignals
<1>1. /\ fanLink' \in [Processes -> {"down", "connected", "listening", "live"}]
      /\ \A q \in Processes : q # r => fanLink'[q] = fanLink[q]
  BY <1>0 DEF FanTypeOK, Announce, Listener!ListenAnnounced
<1>2. \A d \in Subscribers : /\ fanInbox[r][d] \in Seq(FanSignals) /\ Append(fanInbox[r][d], Listener!Resync) \in Seq(FanSignals)
                         /\ Append(fanInbox[r][d], Listener!Resync) # fanInbox[r][d]
  <2> SUFFICES ASSUME NEW d \in Subscribers
               PROVE  /\ fanInbox[r][d] \in Seq(FanSignals) /\ Append(fanInbox[r][d], Listener!Resync) \in Seq(FanSignals)
                      /\ Append(fanInbox[r][d], Listener!Resync) # fanInbox[r][d]
    OBVIOUS
  <2>1. fanInbox[r][d] \in Seq(FanSignals)
    BY <1>0 DEF FanTypeOK
  <2>2. /\ Append(fanInbox[r][d], Listener!Resync) \in Seq(FanSignals) /\ Len(fanInbox[r][d]) \in Nat
        /\ Len(Append(fanInbox[r][d], Listener!Resync)) = Len(fanInbox[r][d]) + 1
    BY <1>0, <2>1, AppendFacts
  <2>3. \A n \in Nat : n + 1 # n
    OBVIOUS
  <2> QED BY <2>1, <2>2, <2>3
<1>3. /\ fanInbox' \in [Processes -> [Subscribers -> Seq(FanSignals)]]
      /\ \A q \in Processes : q # r => fanInbox'[q] = fanInbox[q]
      /\ \A d \in Subscribers : fanInbox'[r][d] = Append(fanInbox[r][d], Listener!Resync)
  BY <1>0, <1>2 DEF FanTypeOK, Announce, Listener!ListenAnnounced
<1>4. /\ covered' \in [Processes -> [Subscribers -> Nat]]
      /\ \A q \in Processes : q # r => covered'[q] = covered[q]
      /\ \A d \in Subscribers : covered'[r][d] = Len(sent)
  <2>1. Len(sent) \in Nat /\ covered \in [Processes -> [Subscribers -> Nat]]
    BY <1>0, LenProperties DEF FanTypeOK
  <2>2. \A d \in Subscribers : fanInbox'[r][d] # fanInbox[r][d]
    BY <1>2, <1>3
  <2> QED BY <2>1, <2>2 DEF Announce
<1>5. FanTypeOK'
  BY <1>0, <1>1, <1>3, <1>4 DEF FanTypeOK
<1>6. ASSUME NEW d \in Subscribers PROVE FanOK(r, d)'
  <2>1. /\ taken[r][d] \in Seq(FanSignals) /\ Handed(r, d) \in Seq(FanSignals) /\ Len(sent) \in Nat
        /\ InOrder(Handed(r, d), fanWire[r], Len(sent), Named(d))
    BY <1>0, FanSeqs DEF FanInv, FanOK
  <2>2. Handed(r, d)' = Append(Handed(r, d), Listener!Resync)
    <3> DEFINE t == taken[r][d]
               b == fanInbox[r][d]
               x == Listener!Resync
    <3>1. t \in Seq(FanSignals) /\ b \in Seq(FanSignals) /\ x \in FanSignals
      BY <1>0, <1>2, <2>1
    <3> HIDE DEF t, b, x
    <3>2. t \o Append(b, x) = Append(t \o b, x)
      BY <3>1, QueueHands
    <3> QED BY <1>0, <1>3, <3>2 DEF Handed, t, b, x
  <2>3. InOrder(Append(Handed(r, d), Listener!Resync), fanWire[r], Len(sent), Named(d))
    BY <2>1, OrderResynced
  <2>4. NoGap(fanLink'[r], covered'[r][d], Handed(r, d)', fanWire[r], sent, Named(d))
    <3>1. \A n \in 1 .. Len(sent) : n <= covered'[r][d]
      BY <1>4, <2>1
    <3> QED BY <3>1 DEF NoGap
  <2> QED BY <1>0, <2>2, <2>3, <2>4 DEF FanOK
<1> QED BY <1>0, <1>1, <1>3, <1>4, <1>5, <1>6, OneProcess

\* route takes the first notification off the wire, to whoever asked for it.
LEMMA DeliverFan ==
    ASSUME FanInv, NEW r \in Processes, Deliver(r)
    PROVE  FanInv'
<1> DEFINE m == Head(fanWire[r])
<1>0. FanTypeOK /\ UNCHANGED <<fanLink, sent, taken, covered>>
  BY DEF FanInv, Deliver, Listener!Route
<1>1. fanWire[r] \in Seq(FanMessages) /\ fanWire[r] # <<>>
  BY <1>0 DEF FanTypeOK, Deliver, Listener!Route
<1>2. /\ m \in FanMessages /\ Tail(fanWire[r]) \in Seq(FanMessages)
      /\ \A y : Has(fanWire[r], y) => y = m \/ Has(Tail(fanWire[r]), y)
  BY <1>1, TailFacts
<1>3. Listener!Notify(m) \in FanSignals
  BY <1>2 DEF FanSignals
<1>4. /\ fanInbox' = [fanInbox EXCEPT ![r] = [d \in Subscribers |->
                      IF m.channel \in Named(d) THEN Append(fanInbox[r][d], Listener!Notify(m)) ELSE fanInbox[r][d]]]
      /\ fanWire' = [fanWire EXCEPT ![r] = Tail(fanWire[r])]
  BY DEF Deliver, Listener!Route
<1> HIDE DEF m
<1>5. /\ fanWire' \in [Processes -> Seq(FanMessages)] /\ fanWire'[r] = Tail(fanWire[r])
      /\ \A q \in Processes : q # r => fanWire'[q] = fanWire[q]
  BY <1>0, <1>2, <1>4 DEF FanTypeOK
<1>6. \A d \in Subscribers : fanInbox[r][d] \in Seq(FanSignals) /\ Append(fanInbox[r][d], Listener!Notify(m)) \in Seq(FanSignals)
  <2>1. \A d \in Subscribers : fanInbox[r][d] \in Seq(FanSignals)
    BY <1>0 DEF FanTypeOK
  <2> QED BY <1>3, <2>1, AppendFacts
<1>7. /\ fanInbox' \in [Processes -> [Subscribers -> Seq(FanSignals)]]
      /\ \A q \in Processes : q # r => fanInbox'[q] = fanInbox[q]
      /\ \A d \in Subscribers : fanInbox'[r][d] = IF m.channel \in Named(d)
                                           THEN Append(fanInbox[r][d], Listener!Notify(m)) ELSE fanInbox[r][d]
  BY <1>0, <1>4, <1>6 DEF FanTypeOK
<1>8. FanTypeOK'
  BY <1>0, <1>5, <1>7 DEF FanTypeOK
<1>9. ASSUME NEW d \in Subscribers PROVE FanOK(r, d)'
  <2> DEFINE h == Handed(r, d)
             C == Named(d)
             s == fanWire[r]
  <2>1. /\ taken[r][d] \in Seq(FanSignals) /\ h \in Seq(FanSignals) /\ Len(sent) \in Nat
        /\ InOrder(h, s, Len(sent), C) /\ NoGap(fanLink[r], covered[r][d], h, s, sent, C)
    BY <1>0, FanSeqs DEF FanInv, FanOK
  <2>2. Handed(r, d)' = IF m.channel \in C THEN Append(h, Listener!Notify(m)) ELSE h
    <3> DEFINE t == taken[r][d]
               b == fanInbox[r][d]
               x == Listener!Notify(m)
    <3>1. t \in Seq(FanSignals) /\ b \in Seq(FanSignals) /\ x \in FanSignals
      BY <1>3, <1>6, <2>1
    <3> HIDE DEF t, b, x
    <3>2. t \o Append(b, x) = Append(t \o b, x)
      BY <3>1, QueueHands
    <3> QED BY <1>0, <1>7, <3>2 DEF Handed, t, b, x
  <2> HIDE DEF h, C
  <2>3. /\ InOrder(h, Tail(s), Len(sent), C)
        /\ m.channel \in C => InOrder(Append(h, Listener!Notify(m)), Tail(s), Len(sent), C)
    <3> DEFINE top == Len(sent)
    <3>1. s \in Seq(FanMessages) /\ s # <<>> /\ top \in Nat /\ InOrder(h, s, top, C)
      BY <1>1, <2>1
    <3> HIDE DEF s, top
    <3>2. /\ InOrder(h, Tail(s), top, C)
          /\ Head(s).channel \in C => InOrder(Append(h, Listener!Notify(Head(s))), Tail(s), top, C)
      BY <2>1, <3>1, OrderRouted
    <3> QED BY <3>2 DEF m, s, top
  <2>4. NoGap(fanLink[r], covered[r][d], Handed(r, d)', Tail(s), sent, C)
    <3> SUFFICES ASSUME fanLink[r] = "live", NEW n \in 1 .. Len(sent), sent[n].channel \in C
                 PROVE  n <= covered[r][d] \/ Has(Tail(s), sent[n]) \/ Has(Handed(r, d)', Listener!Notify(sent[n]))
      BY DEF NoGap
    <3>1. n <= covered[r][d] \/ Has(s, sent[n]) \/ Has(h, Listener!Notify(sent[n]))
      BY <2>1 DEF NoGap
    <3>2. Has(Append(h, Listener!Notify(m)), Listener!Notify(m)) /\ \A y : Has(h, y) => Has(Append(h, Listener!Notify(m)), y)
      BY <1>3, <2>1, AppendFacts
    <3>3. CASE Has(s, sent[n])
      <4>1. sent[n] = m \/ Has(Tail(s), sent[n])
        BY <1>2, <3>3
      <4> QED BY <2>2, <3>2, <4>1
    <3>4. CASE Has(h, Listener!Notify(sent[n]))
      BY <2>2, <3>2, <3>4
    <3> QED BY <3>1, <3>3, <3>4
  <2>5. InOrder(Handed(r, d)', fanWire'[r], Len(sent'), C)
    BY <1>0, <1>5, <2>2, <2>3
  <2>6. NoGap(fanLink'[r], covered'[r][d], Handed(r, d)', fanWire'[r], sent', C)
    BY <1>0, <1>5, <2>4
  <2> QED BY <2>5, <2>6 DEF FanOK, C
<1> QED BY <1>0, <1>5, <1>7, <1>8, <1>9, OneProcess

\* A worker's take moves a signal without changing what was handed over.
LEMMA TakeFan ==
    ASSUME FanInv, NEW r \in Processes, NEW d \in Subscribers, Take(r, d)
    PROVE  FanInv'
<1>0. FanTypeOK /\ UNCHANGED <<fanLink, fanWire, sent, covered>>
  BY DEF FanInv, Take
<1>1. fanInbox[r][d] \in Seq(FanSignals) /\ fanInbox[r][d] # <<>> /\ taken[r][d] \in Seq(FanSignals)
  BY <1>0 DEF FanTypeOK, Take
<1>2. Tail(fanInbox[r][d]) \in Seq(FanSignals) /\ Head(fanInbox[r][d]) \in FanSignals
  BY <1>1, TailFacts
<1>3. Append(taken[r][d], Head(fanInbox[r][d])) \in Seq(FanSignals)
  BY <1>1, <1>2, AppendFacts
<1>4. /\ fanInbox' = [fanInbox EXCEPT ![r][d] = Tail(fanInbox[r][d])]
      /\ taken' = [taken EXCEPT ![r][d] = Append(taken[r][d], Head(fanInbox[r][d]))]
  BY <1>0 DEF Take, FanTypeOK
<1>5. /\ fanInbox' \in [Processes -> [Subscribers -> Seq(FanSignals)]]
      /\ taken' \in [Processes -> [Subscribers -> Seq(FanSignals)]]
      /\ \A q \in Processes : q # r => fanInbox'[q] = fanInbox[q] /\ taken'[q] = taken[q]
      /\ fanInbox'[r][d] = Tail(fanInbox[r][d]) /\ taken'[r][d] = Append(taken[r][d], Head(fanInbox[r][d]))
      /\ \A e \in Subscribers : e # d => fanInbox'[r][e] = fanInbox[r][e] /\ taken'[r][e] = taken[r][e]
  BY <1>0, <1>2, <1>3, <1>4 DEF FanTypeOK
<1>6. FanTypeOK'
  BY <1>0, <1>5 DEF FanTypeOK
<1>7. ASSUME NEW e \in Subscribers PROVE FanOK(r, e)'
  <2>1. Handed(r, e)' = Handed(r, e)
    <3>1. Append(taken[r][d], Head(fanInbox[r][d])) \o Tail(fanInbox[r][d]) = taken[r][d] \o fanInbox[r][d]
      BY <1>1, TakeKeeps
    <3> QED BY <1>5, <3>1 DEF Handed
  <2> QED BY <1>0, <2>1 DEF FanInv, FanOK
<1> QED BY <1>0, <1>5, <1>6, <1>7, OneProcess

\* Every step keeps the invariant.
LEMMA FanStays == FanInv /\ [FanNext]_fanVars => FanInv'
<1> SUFFICES ASSUME FanInv, [FanNext]_fanVars PROVE FanInv'
  OBVIOUS
<1>1. ASSUME NEW channel \in Channels, Commit(channel) PROVE FanInv'
  BY <1>1, CommitFan
<1>2. ASSUME NEW r \in Processes, Reconnect(r) \/ Announce(r) \/ Deliver(r) \/ FanDrop(r) PROVE FanInv'
  BY <1>2, LinkFan, AnnounceFan, DeliverFan
<1>3. ASSUME NEW r \in Processes, NEW d \in Subscribers, Take(r, d) PROVE FanInv'
  BY <1>3, TakeFan
<1>4. CASE UNCHANGED fanVars
  BY <1>4 DEF fanVars, FanInv, FanTypeOK, FanOK, Handed
<1> QED BY <1>1, <1>2, <1>3, <1>4 DEF FanNext

\* Nothing was committed, sent or handed over at first.
LEMMA FanHoldsFirst == FanInit => FanInv
<1> SUFFICES ASSUME FanInit PROVE FanInv
  OBVIOUS
<1>1. FanTypeOK
  <2>1. <<>> \in Seq(FanMessages) /\ <<>> \in Seq(FanSignals)
    OBVIOUS
  <2> QED BY <2>1 DEF FanTypeOK, FanInit, Listener!ListenerInit
<1>2. ASSUME NEW r \in Processes, NEW d \in Subscribers PROVE FanOK(r, d)
  <2>1. Handed(r, d) = <<>> \o <<>> /\ fanWire[r] = <<>> /\ fanLink[r] = "down"
    BY DEF FanInit, Listener!ListenerInit, Handed
  <2>2. <<>> \in Seq(FanSignals)
    OBVIOUS
  <2>3. Handed(r, d) = <<>>
    BY <2>1, <2>2, ConcatEmptySeq
  <2>4. 1 .. Len(<<>>) = {}
    OBVIOUS
  <2> QED BY <2>1, <2>3, <2>4 DEF FanOK, NoGap, InOrder
<1> QED BY <1>1, <1>2 DEF FanInv

\* The invariant of the fan-out holds of every reachable state.
THEOREM FanInvariance == FanSpec => []FanInv
  BY FanHoldsFirst, FanStays, PTL DEF FanSpec

\* The listener loses nothing: each committed notification of a domain's channels
\* is under way, handed over or followed by a Resync while the LISTEN is live, and
\* hand-overs keep the order of commits through any number of reconnections.
THEOREM ListenerNeverLoses == FanSpec => []ListenerLosesNothing
<1>1. FanInv => ListenerLosesNothing
  <2> SUFFICES ASSUME FanInv, NEW r \in Processes, NEW d \in Subscribers
               PROVE  /\ fanLink[r] = "live" =>
                             \A n \in DOMAIN sent : sent[n].channel \in Named(d) =>
                                 \/ n <= covered[r][d]
                                 \/ \E k \in DOMAIN fanWire[r] : fanWire[r][k] = sent[n]
                                 \/ \E i \in DOMAIN Handed(r, d) : Handed(r, d)[i] = Listener!Notify(sent[n])
                      /\ \A i, j \in Notices(r, d) :
                             i < j => Handed(r, d)[i].message.id < Handed(r, d)[j].message.id
                      /\ \A i \in Notices(r, d) :
                             /\ Handed(r, d)[i].message.channel \in Named(d)
                             /\ \A k \in DOMAIN fanWire[r] : Handed(r, d)[i].message.id < fanWire[r][k].id
                      /\ \A k, l \in DOMAIN fanWire[r] : k < l => fanWire[r][k].id < fanWire[r][l].id
    BY DEF ListenerLosesNothing, GapIsResynced, HandedInCommitOrder
  <2>1. /\ DOMAIN fanWire[r] = 1 .. Len(fanWire[r]) /\ DOMAIN sent = 1 .. Len(sent)
        /\ DOMAIN Handed(r, d) = 1 .. Len(Handed(r, d)) /\ FanOK(r, d)
    BY FanSeqs DEF FanInv
  <2>2. fanLink[r] = "live" =>
            \A n \in DOMAIN sent : sent[n].channel \in Named(d) =>
                \/ n <= covered[r][d]
                \/ \E k \in DOMAIN fanWire[r] : fanWire[r][k] = sent[n]
                \/ \E i \in DOMAIN Handed(r, d) : Handed(r, d)[i] = Listener!Notify(sent[n])
    BY <2>1 DEF FanOK, NoGap, Has
  <2>3. /\ \A i, j \in Notices(r, d) : i < j => Handed(r, d)[i].message.id < Handed(r, d)[j].message.id
        /\ \A i \in Notices(r, d) :
               /\ Handed(r, d)[i].message.channel \in Named(d)
               /\ \A k \in DOMAIN fanWire[r] : Handed(r, d)[i].message.id < fanWire[r][k].id
        /\ \A k, l \in DOMAIN fanWire[r] : k < l => fanWire[r][k].id < fanWire[r][l].id
    BY <2>1 DEF FanOK, InOrder, Notices
  <2> QED BY <2>2, <2>3
<1> QED BY <1>1, FanInvariance, PTL

-----------------------------------------------------------------------------
(* The badge and the winner's banner.                                      *)

\* What a refresh has in hand between its statements was so when it read it, and
\* pots only gain tickets.
Honest(r, t) ==
    task[r][t].pc \in {"holders", "publish"} =>
        /\ task[r][t].pot <= open
        /\ task[r][t].pc = "holders" => task[r][t].pot # 0 /\ task[r][t].tickets = 0
        /\ task[r][t].pot = 0 => task[r][t].tickets = 0
        /\ task[r][t].pot # 0 => task[r][t].tickets <= sold[task[r][t].pot]

\* Behind a live connection, a commit the worker has not read since is under way,
\* in its queue, or about to be read.
Hears(r) ==
    (link[r] = "live" /\ wire[r] = <<>> /\ inbox[r]["pot"] = <<>> /\ task[r]["worker"].pc # "find")
    => \/ task[r]["worker"].seen = notified
       \/ task[r]["worker"].pc = "rest" /\ task[r]["worker"].failed

\* The inductive invariant of the feed.
FeedInv ==
    /\ TypeOK
    /\ BadgeIsHonest
    /\ \A r \in Replicas, t \in Readers : Honest(r, t)
    /\ \A r \in Replicas : Hears(r)

\* The messages of the three kinds of commit are well typed.
LEMMA MessageType ==
    ASSUME NEW change \in Changes, NEW p \in PotIds
    PROVE  [channel |-> "pot_changed", change |-> change, pot |-> p] \in Messages
  BY DEF Messages

\* A task between refreshes is well typed.
LEMMA AtRestType == AtRest \in TaskStates
  BY DEF AtRest, TaskStates, Signals

\* A process that has just started satisfies the invariant.
LEMMA FeedInit == Init => FeedInv
<1> SUFFICES ASSUME Init PROVE FeedInv
  OBVIOUS
<1>1. TypeOK
  BY AtRestType, FeedAssumption DEF Init, ListenerInit, TypeOK, NoSnapshot
<1>2. BadgeIsHonest
  <2>1. open = 0 /\ \A r \in Replicas : snapshot[r].pot = 0 /\ snapshot[r].tickets = 0
    BY DEF Init, NoSnapshot
  <2>2. ASSUME NEW r \in Replicas PROVE snapshot[r].pot <= open
    BY <2>1
  <2> QED BY <2>1, <2>2, Zenon DEF BadgeIsHonest
<1>3. ASSUME NEW r \in Replicas, NEW t \in Readers PROVE Honest(r, t)
  BY DEF Init, Honest, AtRest
<1>4. ASSUME NEW r \in Replicas PROVE Hears(r)
  BY DEF Init, ListenerInit, Hears
<1> QED BY <1>1, <1>2, <1>3, <1>4 DEF FeedInv

\* A commit that opens, sells or settles keeps the invariant: what a refresh has
\* read stays true of its pot, and live connections get the notification.
LEMMA CommitInv ==
    ASSUME FeedInv, OpenFirst \/ Buy \/ Settle
    PROVE  FeedInv'
<1>0. /\ TypeOK /\ open \in Nat /\ "worker" \in Readers
      /\ open' \in {0} \cup PotIds /\ open' \in Nat /\ open <= open'
      /\ sold' \in [PotIds -> Nat] /\ \A p \in PotIds : sold[p] <= sold'[p]
      /\ drawn' \subseteq PotIds /\ notified' \in Nat
      /\ UNCHANGED <<link, inbox, snapshot, task, won, faults>>
  <2>0. /\ TypeOK /\ open \in Nat /\ open \in {0} \cup PotIds /\ sold \in [PotIds -> Nat]
        /\ drawn \subseteq PotIds /\ notified \in Nat
    BY FeedAssumption DEF FeedInv, TypeOK, PotIds
  <2>w. "worker" \in Readers
    BY DEF Readers
  <2>1. CASE OpenFirst
    <3>1. /\ open = 0 /\ open' = 1
          /\ UNCHANGED <<link, inbox, sold, drawn, notified, snapshot, task, won, faults>>
      BY <2>1 DEF OpenFirst
    <3>2. 1 \in PotIds
      BY FeedAssumption DEF PotIds
    <3> QED BY <2>0, <2>w, <3>1, <3>2
  <2>2. CASE Buy
    <3>1. /\ open # 0 /\ sold' = [sold EXCEPT ![open] = @ + 1] /\ notified' = notified + 1
          /\ UNCHANGED <<link, inbox, open, drawn, snapshot, task, won, faults>>
      BY <2>2 DEF Buy, Announced
    <3>2. open \in PotIds
      BY <2>0, <3>1
    <3>3. sold' \in [PotIds -> Nat] /\ \A p \in PotIds : sold[p] <= sold'[p]
      BY <2>0, <3>1, <3>2
    <3> QED BY <2>0, <2>w, <3>1, <3>3
  <2>3. CASE Settle
    <3>1. /\ open \in 1 .. MaxPots - 1 /\ open' = open + 1 /\ notified' = notified + 1
          /\ drawn' \subseteq drawn \cup {open}
          /\ UNCHANGED <<link, inbox, sold, snapshot, task, won, faults>>
      BY <2>3 DEF Settle, Announced
    <3>2. open \in PotIds /\ open' \in PotIds /\ open' \in Nat /\ open <= open'
      BY <3>1, FeedAssumption DEF PotIds
    <3> QED BY <2>0, <2>w, <3>1, <3>2
  <2> QED BY <2>1, <2>2, <2>3
<1>1. \/ UNCHANGED <<wire, notified>>
      \/ \E message \in Messages : Broadcast(message)
  <2>1. CASE OpenFirst
    BY <2>1 DEF OpenFirst
  <2>2. CASE Buy \/ Settle
    <3>1. open \in PotIds
      BY <1>0, <2>2, FeedAssumption DEF Buy, Settle, TypeOK, PotIds
    <3>2. PICK change \in Changes : Announced(change)
      BY <2>2 DEF Buy, Settle, Changes
    <3> QED BY <3>1, <3>2, MessageType DEF Announced
  <2> QED BY <2>1, <2>2
<1>2. wire' \in [Replicas -> Seq(Messages)]
  <2>1. wire \in [Replicas -> Seq(Messages)]
    BY <1>0 DEF TypeOK
  <2>2. ASSUME NEW message \in Messages, Broadcast(message) PROVE wire' \in [Replicas -> Seq(Messages)]
    <3>1. \A r \in Replicas : Append(wire[r], message) \in Seq(Messages)
      BY <2>1, AppendProperties
    <3> QED BY <2>1, <2>2, <3>1 DEF Broadcast
  <2> QED BY <1>1, <2>1, <2>2
<1>3. TypeOK'
  BY <1>0, <1>2 DEF TypeOK
<1>4. BadgeIsHonest'
  <2> SUFFICES ASSUME NEW r \in Replicas
               PROVE  /\ snapshot[r].pot <= open'
                      /\ snapshot[r].pot = 0 => snapshot[r].tickets = 0
                      /\ snapshot[r].pot # 0 => snapshot[r].tickets <= sold'[snapshot[r].pot]
    BY <1>0 DEF BadgeIsHonest
  <2>1. snapshot[r].pot \in {0} \cup PotIds /\ snapshot[r].tickets \in Nat
    BY <1>0 DEF TypeOK
  <2>2. snapshot[r].pot \in Nat /\ snapshot[r].pot <= open
    BY <2>1 DEF FeedInv, BadgeIsHonest, PotIds
  <2>3. snapshot[r].pot # 0 => /\ snapshot[r].tickets <= sold[snapshot[r].pot]
                               /\ sold[snapshot[r].pot] \in Nat /\ sold'[snapshot[r].pot] \in Nat
    BY <2>1, <1>0 DEF FeedInv, BadgeIsHonest, TypeOK
  <2>4. snapshot[r].pot = 0 => snapshot[r].tickets = 0
    BY DEF FeedInv, BadgeIsHonest
  <2> QED BY <2>1, <2>2, <2>3, <2>4, <1>0
<1>5. ASSUME NEW r \in Replicas, NEW t \in Readers PROVE Honest(r, t)'
  <2>1. task[r][t].pot \in {0} \cup PotIds /\ task[r][t].tickets \in Nat
    BY <1>0 DEF TypeOK, TaskStates
  <2>2. task[r][t].pot \in Nat /\ Honest(r, t)
    BY <2>1 DEF FeedInv, PotIds
  <2>3. task[r][t].pot # 0 => /\ sold[task[r][t].pot] \in Nat /\ sold'[task[r][t].pot] \in Nat
                              /\ sold[task[r][t].pot] <= sold'[task[r][t].pot]
    BY <2>1, <1>0 DEF TypeOK
  <2> QED BY <2>1, <2>2, <2>3, <1>0 DEF Honest
<1>6. ASSUME NEW r \in Replicas PROVE Hears(r)'
  <2>1. CASE UNCHANGED <<wire, notified>>
    BY <2>1, <1>0 DEF FeedInv, Hears
  <2>2. CASE \E message \in Messages : Broadcast(message)
    <3>1. link[r] = "live" => wire'[r] # <<>>
      <4>1. PICK message \in Messages : Broadcast(message)
        BY <2>2
      <4>2. Append(wire[r], message) # <<>>
        <5>1. wire[r] \in Seq(Messages)
          BY <1>0 DEF TypeOK
        <5> QED BY <5>1, AppendProperties
      <4> QED BY <4>1, <4>2 DEF Broadcast, Listening
    <3> QED BY <3>1, <1>0 DEF Hears
  <2> QED BY <2>1, <2>2, <1>1
<1> QED BY <1>3, <1>4, <1>5, <1>6 DEF FeedInv

\* A step of one task of one replica that leaves the table and the connections
\* alone need only be looked at where it happens.
LEMMA OneTask ==
    ASSUME FeedInv, NEW r \in Replicas, NEW t \in Readers, NEW st \in TaskStates,
           task' = [task EXCEPT ![r][t] = st],
           UNCHANGED <<link, wire, table>>,
           inbox' \in [Replicas -> [Domains -> Seq(Signals)]],
           \A q \in Replicas : q # r => inbox'[q] = inbox[q],
           snapshot' \in [Replicas -> [pot : {0} \cup PotIds, tickets : Nat]],
           won' \in [Replicas -> [PotIds -> Nat]], faults' \in 0 .. MaxFaults,
           BadgeIsHonest', Honest(r, t)', Hears(r)'
    PROVE  FeedInv'
<1> USE DEF table
<1>0. TypeOK
  BY DEF FeedInv
<1>1. TypeOK'
  BY <1>0 DEF TypeOK
<1>2. \A q \in Replicas, v \in Readers : (q # r \/ v # t) => task'[q][v] = task[q][v]
  BY <1>0 DEF TypeOK
<1>3. ASSUME NEW q \in Replicas, NEW v \in Readers PROVE Honest(q, v)'
  <2>1. CASE q = r /\ v = t
    BY <2>1
  <2>2. CASE q # r \/ v # t
    BY <2>2, <1>2 DEF FeedInv, Honest
  <2> QED BY <2>1, <2>2
<1>4. ASSUME NEW q \in Replicas PROVE Hears(q)'
  <2>1. CASE q = r
    BY <2>1
  <2>2. CASE q # r
    BY <2>2, <1>2 DEF FeedInv, Hears, Readers
  <2> QED BY <2>1, <2>2
<1> QED BY <1>1, <1>3, <1>4 DEF FeedInv

\* What is known of one task and its replica.
LEMMA TaskFacts ==
    ASSUME FeedInv, NEW r \in Replicas, NEW t \in Readers
    PROVE  /\ TypeOK /\ BadgeIsHonest /\ Honest(r, t) /\ Hears(r)
           /\ task[r][t] \in TaskStates
           /\ task[r]["worker"] \in TaskStates
           /\ notified \in Nat /\ open \in {0} \cup PotIds /\ open \in Nat
           /\ faults \in 0 .. MaxFaults
           /\ task[r][t].pot \in {0} \cup PotIds /\ task[r][t].tickets \in Nat
           /\ task[r][t].seen \in Nat /\ task[r][t].signal \in Signals
<1>1. TypeOK /\ BadgeIsHonest /\ Honest(r, t) /\ Hears(r)
  BY DEF FeedInv
<1>2. task[r][t] \in TaskStates /\ task[r]["worker"] \in TaskStates
  BY <1>1 DEF TypeOK, Readers
<1>3. notified \in Nat /\ open \in {0} \cup PotIds /\ faults \in 0 .. MaxFaults
  BY <1>1 DEF TypeOK
<1>4. open \in Nat
  BY <1>3 DEF PotIds
<1>5. /\ task[r][t].pot \in {0} \cup PotIds /\ task[r][t].tickets \in Nat
      /\ task[r][t].seen \in Nat /\ task[r][t].signal \in Signals
  BY <1>2 DEF TaskStates
<1> QED BY <1>1, <1>2, <1>3, <1>4, <1>5

\* The honesty of the badges rests on the tables and the snapshots alone.
LEMMA BadgeFrame ==
    ASSUME BadgeIsHonest, UNCHANGED <<open, sold, snapshot>>
    PROVE  BadgeIsHonest'
  BY DEF BadgeIsHonest

\* Taking a signal keeps the invariant: the worker goes to read.
LEMMA WorkerTakesInv ==
    ASSUME FeedInv, NEW r \in Replicas, WorkerTakes(r)
    PROVE  FeedInv'
<1> USE DEF UnchangedOutside
<1> DEFINE st == [task[r]["worker"] EXCEPT !.pc = "find", !.signal = Head(inbox[r]["pot"])]
<1>0. "worker" \in Readers /\ "pot" \in Domains
  BY FeedAssumption DEF Readers
<1>1. TypeOK /\ BadgeIsHonest /\ task[r]["worker"] \in TaskStates /\ faults \in 0 .. MaxFaults
  BY <1>0, TaskFacts
<1>2. inbox[r]["pot"] \in Seq(Signals) /\ inbox[r]["pot"] # <<>>
  BY <1>0, <1>1 DEF TypeOK, WorkerTakes
<1>3. Head(inbox[r]["pot"]) \in Signals /\ Tail(inbox[r]["pot"]) \in Seq(Signals)
  BY <1>2, HeadTailProperties
<1>4. st \in TaskStates /\ st.pc = "find"
  BY <1>1, <1>3 DEF TaskStates
<1> HIDE DEF st
<1>5. task' = [task EXCEPT ![r]["worker"] = st]
  BY <1>0, <1>1 DEF WorkerTakes, st, TypeOK
<1>6. /\ inbox' \in [Replicas -> [Domains -> Seq(Signals)]]
      /\ \A q \in Replicas : q # r => inbox'[q] = inbox[q]
  BY <1>0, <1>1, <1>3 DEF WorkerTakes, TypeOK
<1>7. task'[r]["worker"] = st
  BY <1>0, <1>1, <1>5 DEF TypeOK
<1>8. Honest(r, "worker")' /\ Hears(r)'
  BY <1>4, <1>7 DEF Honest, Hears
<1>9. UNCHANGED <<link, wire, table, snapshot, won, faults>>
  BY DEF WorkerTakes
<1>a. BadgeIsHonest'
  BY <1>1, <1>9, BadgeFrame DEF table
<1>b. /\ snapshot' \in [Replicas -> [pot : {0} \cup PotIds, tickets : Nat]]
      /\ won' \in [Replicas -> [PotIds -> Nat]] /\ faults' \in 0 .. MaxFaults
  BY <1>1, <1>9 DEF TypeOK
<1> QED BY <1>0, <1>4, <1>5, <1>6, <1>8, <1>9, <1>a, <1>b, OneTask

\* Starting the sweep's refresh keeps the invariant.
LEMMA SweeperTurnsInv ==
    ASSUME FeedInv, NEW r \in Replicas, SweeperTurns(r)
    PROVE  FeedInv'
<1> USE DEF UnchangedOutside
<1> DEFINE st == [task[r]["sweeper"] EXCEPT !.pc = "find"]
<1>0. "sweeper" \in Readers /\ "worker" \in Readers
  BY DEF Readers
<1>1. TypeOK /\ BadgeIsHonest /\ Hears(r) /\ task[r]["sweeper"] \in TaskStates /\ faults \in 0 .. MaxFaults
  BY <1>0, TaskFacts
<1>4. st \in TaskStates /\ st.pc = "find"
  BY <1>1 DEF TaskStates
<1> HIDE DEF st
<1>5. task' = [task EXCEPT ![r]["sweeper"] = st]
  BY <1>0, <1>1 DEF SweeperTurns, st, TypeOK
<1>7. task'[r]["sweeper"] = st /\ task'[r]["worker"] = task[r]["worker"]
  BY <1>0, <1>1, <1>5 DEF TypeOK
<1>9. UNCHANGED <<link, wire, inbox, table, snapshot, won, faults>>
  BY DEF SweeperTurns
<1>8. Honest(r, "sweeper")' /\ Hears(r)'
  BY <1>1, <1>4, <1>7, <1>9 DEF Honest, Hears, table
<1>a. BadgeIsHonest'
  BY <1>1, <1>9, BadgeFrame DEF table
<1>b. /\ snapshot' \in [Replicas -> [pot : {0} \cup PotIds, tickets : Nat]]
      /\ won' \in [Replicas -> [PotIds -> Nat]] /\ faults' \in 0 .. MaxFaults
      /\ inbox' \in [Replicas -> [Domains -> Seq(Signals)]]
      /\ \A q \in Replicas : q # r => inbox'[q] = inbox[q]
  BY <1>1, <1>9 DEF TypeOK
<1> QED BY <1>0, <1>4, <1>5, <1>8, <1>9, <1>a, <1>b, OneTask

\* find_open keeps the invariant: it sees every commit so far.
LEMMA FindInv ==
    ASSUME FeedInv, NEW r \in Replicas, NEW t \in Readers, Find(r, t)
    PROVE  FeedInv'
<1> USE DEF UnchangedOutside
<1> DEFINE st == [task[r][t] EXCEPT !.pc = IF open = 0 THEN "publish" ELSE "holders",
                                    !.pot = open, !.tickets = 0,
                                    !.seen = IF t = "worker" THEN notified ELSE 0]
<1>1. /\ TypeOK /\ BadgeIsHonest /\ Hears(r) /\ task[r][t] \in TaskStates
      /\ notified \in Nat /\ open \in {0} \cup PotIds /\ open \in Nat /\ faults \in 0 .. MaxFaults
  BY TaskFacts
<1>4. /\ st \in TaskStates /\ st.pc = IF open = 0 THEN "publish" ELSE "holders"
      /\ st.pot = open /\ st.tickets = 0 /\ (t = "worker" => st.seen = notified)
  BY <1>1 DEF TaskStates
<1> HIDE DEF st
<1>5. task' = [task EXCEPT ![r][t] = st]
  BY <1>1 DEF Find, st, TypeOK
<1>7. task'[r][t] = st /\ (t # "worker" => task'[r]["worker"] = task[r]["worker"])
  BY <1>1, <1>5 DEF TypeOK, Readers
<1>9. UNCHANGED <<link, wire, inbox, table, snapshot, won, faults>>
  BY DEF Find
<1>8. Honest(r, t)' /\ Hears(r)'
  <2>1. open # 0 => sold[open] \in Nat
    BY <1>1 DEF TypeOK
  <2>2. Honest(r, t)'
    BY <1>1, <1>4, <1>7, <1>9, <2>1 DEF Honest, table
  <2>3. Hears(r)'
    BY <1>1, <1>4, <1>7, <1>9 DEF Hears, table
  <2> QED BY <2>2, <2>3
<1>a. BadgeIsHonest'
  BY <1>1, <1>9, BadgeFrame DEF table
<1>b. /\ snapshot' \in [Replicas -> [pot : {0} \cup PotIds, tickets : Nat]]
      /\ won' \in [Replicas -> [PotIds -> Nat]] /\ faults' \in 0 .. MaxFaults
      /\ inbox' \in [Replicas -> [Domains -> Seq(Signals)]]
      /\ \A q \in Replicas : q # r => inbox'[q] = inbox[q]
  BY <1>1, <1>9 DEF TypeOK
<1> QED BY <1>4, <1>5, <1>8, <1>9, <1>a, <1>b, OneTask

\* holders keeps the invariant: it counts tickets of the pot find_open found.
LEMMA HoldersInv ==
    ASSUME FeedInv, NEW r \in Replicas, NEW t \in Readers, Holders(r, t)
    PROVE  FeedInv'
<1> USE DEF UnchangedOutside
<1> DEFINE st == [task[r][t] EXCEPT !.pc = "publish", !.tickets = sold[task[r][t].pot]]
<1>1. /\ TypeOK /\ BadgeIsHonest /\ Hears(r) /\ Honest(r, t) /\ task[r][t] \in TaskStates
      /\ open \in Nat /\ faults \in 0 .. MaxFaults /\ task[r][t].pot \in {0} \cup PotIds
  BY TaskFacts
<1>2. task[r][t].pot # 0 /\ task[r][t].pot <= open /\ task[r][t].pc = "holders"
  BY <1>1 DEF Holders, Honest
<1>3. task[r][t].pot \in PotIds /\ sold[task[r][t].pot] \in Nat
  BY <1>1, <1>2 DEF TypeOK
<1>4. /\ st \in TaskStates /\ st.pc = "publish" /\ st.pot = task[r][t].pot
      /\ st.tickets = sold[task[r][t].pot] /\ st.seen = task[r][t].seen
  BY <1>1, <1>3 DEF TaskStates
<1> HIDE DEF st
<1>5. task' = [task EXCEPT ![r][t] = st]
  BY <1>1 DEF Holders, st, TypeOK
<1>7. task'[r][t] = st /\ (t # "worker" => task'[r]["worker"] = task[r]["worker"])
  BY <1>1, <1>5 DEF TypeOK, Readers
<1>9. UNCHANGED <<link, wire, inbox, table, snapshot, won, faults>>
  BY DEF Holders
<1>8. Honest(r, t)' /\ Hears(r)'
  <2>2. Honest(r, t)'
    BY <1>2, <1>3, <1>4, <1>7, <1>9 DEF Honest, table
  <2>3. Hears(r)'
    BY <1>1, <1>2, <1>4, <1>7, <1>9 DEF Hears, table
  <2> QED BY <2>2, <2>3
<1>a. BadgeIsHonest'
  BY <1>1, <1>9, BadgeFrame DEF table
<1>b. /\ snapshot' \in [Replicas -> [pot : {0} \cup PotIds, tickets : Nat]]
      /\ won' \in [Replicas -> [PotIds -> Nat]] /\ faults' \in 0 .. MaxFaults
      /\ inbox' \in [Replicas -> [Domains -> Seq(Signals)]]
      /\ \A q \in Replicas : q # r => inbox'[q] = inbox[q]
  BY <1>1, <1>9 DEF TypeOK
<1> QED BY <1>4, <1>5, <1>8, <1>9, <1>a, <1>b, OneTask

\* What the worker broadcasts after its re-read is well typed.
LEMMA WonType ==
    ASSUME FeedInv, NEW r \in Replicas, NEW t \in Readers, Won(r, t)
    PROVE  won' \in [Replicas -> [PotIds -> Nat]]
<1>1. won \in [Replicas -> [PotIds -> Nat]] /\ task[r][t].signal \in Signals
  BY TaskFacts DEF FeedInv, TypeOK
<1>2. ASSUME task[r][t].signal.kind = "notify" PROVE task[r][t].signal.message.pot \in PotIds
  <2>1. PICK message \in Messages : task[r][t].signal = Notify(message)
    BY <1>1, <1>2 DEF Signals, Resync
  <2> QED BY <2>1 DEF Notify, Messages
<1> QED BY <1>1, <1>2 DEF Won

\* A task that goes back to rest is well typed and keeps what it has seen.
LEMMA RestedFacts ==
    ASSUME FeedInv, NEW r \in Replicas, NEW t \in Readers, NEW gaveUp \in BOOLEAN
    PROVE  /\ Rested(r, t, gaveUp) \in TaskStates
           /\ Rested(r, t, gaveUp).pc = "rest"
           /\ Rested(r, t, gaveUp).seen = task[r][t].seen
           /\ Rested(r, t, gaveUp).failed = (gaveUp /\ t = "worker")
<1> DEFINE f == gaveUp /\ t = "worker"
           n == task[r][t].seen
<1>1. f \in BOOLEAN /\ n \in Nat
  BY TaskFacts
<1>2. Rested(r, t, gaveUp) = [AtRest EXCEPT !.seen = n, !.failed = f]
  BY DEF Rested
<1> HIDE DEF f, n
<1>3. /\ [AtRest EXCEPT !.seen = n, !.failed = f] \in TaskStates
      /\ [AtRest EXCEPT !.seen = n, !.failed = f].pc = "rest"
      /\ [AtRest EXCEPT !.seen = n, !.failed = f].seen = n
      /\ [AtRest EXCEPT !.seen = n, !.failed = f].failed = f
  BY <1>1, AtRestType DEF AtRest, TaskStates
<1> QED BY <1>2, <1>3 DEF f, n

\* send_replace keeps the invariant: what is published was so when it was read.
LEMMA PublishInv ==
    ASSUME FeedInv, NEW r \in Replicas, NEW t \in Readers, Publish(r, t)
    PROVE  FeedInv'
<1> USE DEF UnchangedOutside
<1> DEFINE st == Rested(r, t, FALSE)
           shown == [pot |-> task[r][t].pot, tickets |-> task[r][t].tickets]
<1>1. /\ TypeOK /\ BadgeIsHonest /\ Hears(r) /\ Honest(r, t) /\ faults \in 0 .. MaxFaults
      /\ task[r][t].pot \in {0} \cup PotIds /\ task[r][t].tickets \in Nat
      /\ task[r][t].pc = "publish"
  BY TaskFacts DEF Publish
<1>4. /\ st \in TaskStates /\ st.pc = "rest" /\ st.seen = task[r][t].seen /\ st.failed = FALSE
  BY RestedFacts
<1> HIDE DEF st
<1>5. task' = [task EXCEPT ![r][t] = st]
  BY DEF Publish, st
<1>7. task'[r][t] = st /\ (t # "worker" => task'[r]["worker"] = task[r]["worker"])
  BY <1>1, <1>5 DEF TypeOK, Readers
<1>9. UNCHANGED <<link, wire, inbox, table, faults>>
  BY DEF Publish
<1>8. Honest(r, t)' /\ Hears(r)'
  <2>2. Honest(r, t)'
    BY <1>4, <1>7 DEF Honest
  <2>3. Hears(r)'
    BY <1>1, <1>4, <1>7, <1>9 DEF Hears, table
  <2> QED BY <2>2, <2>3
<1>a. snapshot' = [snapshot EXCEPT ![r] = shown]
  BY DEF Publish
<1>b. BadgeIsHonest'
  <2>1. /\ shown.pot <= open
        /\ shown.pot = 0 => shown.tickets = 0
        /\ shown.pot # 0 => shown.tickets <= sold[shown.pot]
    BY <1>1 DEF Honest
  <2> HIDE DEF shown
  <2>2. \A q \in Replicas : snapshot'[q] = IF q = r THEN shown ELSE snapshot[q]
    BY <1>1, <1>a DEF TypeOK
  <2> QED BY <1>1, <1>9, <2>1, <2>2 DEF BadgeIsHonest, table
<1>c. /\ snapshot' \in [Replicas -> [pot : {0} \cup PotIds, tickets : Nat]]
      /\ faults' \in 0 .. MaxFaults
      /\ inbox' \in [Replicas -> [Domains -> Seq(Signals)]]
      /\ \A q \in Replicas : q # r => inbox'[q] = inbox[q]
  BY <1>1, <1>9, <1>a DEF TypeOK
<1>d. won' \in [Replicas -> [PotIds -> Nat]]
  BY WonType DEF Publish
<1> QED BY <1>4, <1>5, <1>8, <1>9, <1>b, <1>c, <1>d, OneTask

\* A failed read keeps the invariant: a resync starts over, anything else is
\* recorded as given up.
LEMMA ReadFailsInv ==
    ASSUME FeedInv, NEW r \in Replicas, NEW t \in Readers, ReadFails(r, t)
    PROVE  FeedInv'
<1> DEFINE again == [task[r][t] EXCEPT !.pc = "find"]
           st    == IF t = "worker" /\ task[r][t].signal.kind = "resync" THEN again
                    ELSE Rested(r, t, TRUE)
<1>1. /\ TypeOK /\ BadgeIsHonest /\ Hears(r) /\ task[r][t] \in TaskStates
      /\ faults \in 0 .. MaxFaults /\ faults' \in 0 .. MaxFaults
  BY TaskFacts, FeedAssumption DEF ReadFails
<1>2. again \in TaskStates /\ again.pc = "find"
  BY <1>1 DEF TaskStates
<1>3. /\ Rested(r, t, TRUE) \in TaskStates /\ Rested(r, t, TRUE).pc = "rest"
      /\ Rested(r, t, TRUE).failed = (t = "worker")
  BY RestedFacts
<1>5. task' = [task EXCEPT ![r][t] = st]
  BY <1>1 DEF ReadFails, TypeOK
<1> HIDE DEF again
<1>4. st \in TaskStates /\ st.pc \in {"find", "rest"} /\ (t = "worker" => st.pc = "find" \/ st.failed)
  BY <1>2, <1>3
<1> HIDE DEF st
<1>7. task'[r][t] = st /\ (t # "worker" => task'[r]["worker"] = task[r]["worker"])
  BY <1>1, <1>5 DEF TypeOK, Readers
<1>9. UNCHANGED <<link, wire, inbox, table, snapshot>>
  BY DEF ReadFails, listener
<1>8. Honest(r, t)' /\ Hears(r)'
  <2>2. Honest(r, t)'
    BY <1>4, <1>7 DEF Honest
  <2>3. Hears(r)'
    BY <1>1, <1>4, <1>7, <1>9 DEF Hears, table
  <2> QED BY <2>2, <2>3
<1>a. BadgeIsHonest'
  BY <1>1, <1>9, BadgeFrame DEF table
<1>b. /\ snapshot' \in [Replicas -> [pot : {0} \cup PotIds, tickets : Nat]]
      /\ inbox' \in [Replicas -> [Domains -> Seq(Signals)]]
      /\ \A q \in Replicas : q # r => inbox'[q] = inbox[q]
  BY <1>1, <1>9 DEF TypeOK
<1>c. won' \in [Replicas -> [PotIds -> Nat]]
  <2>1. CASE UNCHANGED won
    BY <2>1, <1>1 DEF TypeOK
  <2>2. CASE Won(r, t)
    BY <2>2, WonType
  <2> QED BY <2>1, <2>2 DEF ReadFails
<1> QED BY <1>1, <1>4, <1>5, <1>8, <1>9, <1>a, <1>b, <1>c, OneTask

\* The listener's steps keep the invariant: going live queues a Resync, and a
\* routed notification is queued before it leaves the wire.
LEMMA ListensInv ==
    ASSUME FeedInv, NEW r \in Replicas, Listens(r)
    PROVE  FeedInv'
<1> USE DEF table
<1>0. /\ TypeOK /\ BadgeIsHonest /\ "pot" \in Domains
      /\ UNCHANGED <<open, sold, drawn, notified, snapshot, task, won, faults>>
  BY FeedAssumption DEF FeedInv, Listens
<1>1. /\ link \in [Replicas -> {"down", "connected", "listening", "live"}]
      /\ wire \in [Replicas -> Seq(Messages)]
      /\ inbox \in [Replicas -> [Domains -> Seq(Signals)]]
  BY <1>0 DEF TypeOK
<1>2. \A d \in Domains : inbox[r][d] \in Seq(Signals)
  BY <1>1
<1>3. /\ link' \in [Replicas -> {"down", "connected", "listening", "live"}]
      /\ wire' \in [Replicas -> Seq(Messages)]
      /\ inbox' \in [Replicas -> [Domains -> Seq(Signals)]]
      /\ \A q \in Replicas : q # r => link'[q] = link[q] /\ wire'[q] = wire[q] /\ inbox'[q] = inbox[q]
      /\ Hears(r)'
  <2>1. CASE Connect(r) \/ ListenTakesEffect(r)
    <3>1. /\ link' \in [Replicas -> {"down", "connected", "listening", "live"}]
          /\ link'[r] # "live"
          /\ \A q \in Replicas : q # r => link'[q] = link[q]
          /\ UNCHANGED <<wire, inbox>>
      BY <2>1, <1>1 DEF Connect, ListenTakesEffect
    <3> QED BY <3>1, <1>1 DEF Hears
  <2>2. CASE ListenAnnounced(r)
    <3>1. \A d \in Domains : /\ Append(inbox[r][d], Resync) \in Seq(Signals)
                             /\ Append(inbox[r][d], Resync) # <<>>
      <4>1. Resync \in Signals
        BY DEF Signals
      <4> QED BY <1>2, <4>1, AppendProperties
    <3>2. inbox'[r]["pot"] # <<>>
      BY <2>2, <3>1, <1>0, <1>1 DEF ListenAnnounced
    <3>3. /\ link' \in [Replicas -> {"down", "connected", "listening", "live"}]
          /\ wire' = wire
          /\ inbox' \in [Replicas -> [Domains -> Seq(Signals)]]
          /\ \A q \in Replicas : q # r => link'[q] = link[q] /\ inbox'[q] = inbox[q]
      BY <2>2, <3>1, <1>1 DEF ListenAnnounced
    <3> QED BY <3>2, <3>3, <1>1 DEF Hears
  <2>3. CASE Route(r)
    <3> DEFINE message == Head(wire[r])
    <3>1. wire[r] \in Seq(Messages) /\ wire[r] # <<>>
      BY <2>3, <1>1 DEF Route
    <3>2. message \in Messages /\ Tail(wire[r]) \in Seq(Messages)
      BY <3>1, HeadTailProperties
    <3>3. message.channel = "pot_changed" /\ Notify(message) \in Signals
      BY <3>2 DEF Messages, Signals
    <3> HIDE DEF message
    <3>4. \A d \in Domains : /\ Append(inbox[r][d], Notify(message)) \in Seq(Signals)
                             /\ Append(inbox[r][d], Notify(message)) # <<>>
      BY <1>2, <3>3, AppendProperties
    <3>5. inbox' = [inbox EXCEPT ![r] = [d \in Domains |->
                       IF message.channel \in ChannelsOf(d)
                       THEN Append(inbox[r][d], Notify(message)) ELSE inbox[r][d]]]
      BY <2>3 DEF Route, message
    <3>6. inbox'[r]["pot"] # <<>>
      BY <3>3, <3>4, <3>5, <1>0, <1>1, FeedAssumption
    <3>7. /\ inbox' \in [Replicas -> [Domains -> Seq(Signals)]]
          /\ \A q \in Replicas : q # r => inbox'[q] = inbox[q]
      BY <3>4, <3>5, <1>1
    <3>8. /\ link' = link
          /\ wire' \in [Replicas -> Seq(Messages)]
          /\ \A q \in Replicas : q # r => wire'[q] = wire[q]
      BY <2>3, <3>2, <1>1 DEF Route
    <3> QED BY <3>6, <3>7, <3>8, <1>1 DEF Hears
  <2> QED BY <2>1, <2>2, <2>3 DEF Listens, ListenerStep
<1>4. TypeOK'
  BY <1>0, <1>3 DEF TypeOK
<1>5. BadgeIsHonest'
  BY <1>0, BadgeFrame
<1>6. \A q \in Replicas, t \in Readers : Honest(q, t)'
  BY <1>0 DEF FeedInv, Honest
<1>7. ASSUME NEW q \in Replicas PROVE Hears(q)'
  <2>1. CASE q = r
    BY <2>1, <1>3
  <2>2. CASE q # r
    BY <2>2, <1>0, <1>3 DEF FeedInv, Hears
  <2> QED BY <2>1, <2>2
<1> QED BY <1>4, <1>5, <1>6, <1>7 DEF FeedInv

\* What a replica loses with its connection or its process keeps the invariant:
\* it is not live, and a fresh process shows no pot.
LEMMA LossInv ==
    ASSUME FeedInv, NEW r \in Replicas,
           faults' \in 0 .. MaxFaults,
           UNCHANGED <<open, sold, drawn, notified, won>>,
           link' = [link EXCEPT ![r] = "down"],
           wire' = [wire EXCEPT ![r] = <<>>],
           inbox' = inbox \/ inbox' = [inbox EXCEPT ![r] = [d \in Domains |-> <<>>]],
           snapshot' = snapshot \/ snapshot' = [snapshot EXCEPT ![r] = NoSnapshot],
           task' = task \/ task' = [task EXCEPT ![r] = [t \in Readers |-> AtRest]]
    PROVE  FeedInv'
<1>0. TypeOK /\ BadgeIsHonest
  BY DEF FeedInv
<1>o. open \in Nat
  BY <1>0, FeedAssumption DEF TypeOK, PotIds
<1>1. /\ link' \in [Replicas -> {"down", "connected", "listening", "live"}]
      /\ wire' \in [Replicas -> Seq(Messages)]
      /\ link'[r] = "down"
      /\ \A q \in Replicas : q # r => link'[q] = link[q] /\ wire'[q] = wire[q]
  <2>1. <<>> \in Seq(Messages)
    OBVIOUS
  <2> QED BY <1>0, <2>1 DEF TypeOK
<1>2. /\ inbox' \in [Replicas -> [Domains -> Seq(Signals)]]
      /\ \A q \in Replicas : q # r => inbox'[q] = inbox[q]
  <2>1. [d \in Domains |-> <<>>] \in [Domains -> Seq(Signals)]
    OBVIOUS
  <2>2. inbox \in [Replicas -> [Domains -> Seq(Signals)]]
    BY <1>0 DEF TypeOK
  <2>3. CASE inbox' = inbox
    BY <2>2, <2>3
  <2>4. CASE inbox' = [inbox EXCEPT ![r] = [d \in Domains |-> <<>>]]
    BY <2>1, <2>2, <2>4
  <2> QED BY <2>3, <2>4
<1>3. /\ task' \in [Replicas -> [Readers -> TaskStates]]
      /\ \A q \in Replicas : q # r => task'[q] = task[q]
      /\ task'[r] = task[r] \/ task'[r] = [t \in Readers |-> AtRest]
  <2>1. [t \in Readers |-> AtRest] \in [Readers -> TaskStates]
    BY AtRestType
  <2>2. task \in [Replicas -> [Readers -> TaskStates]]
    BY <1>0 DEF TypeOK
  <2>3. CASE task' = task
    BY <2>2, <2>3
  <2>4. CASE task' = [task EXCEPT ![r] = [t \in Readers |-> AtRest]]
    BY <2>1, <2>2, <2>4
  <2> QED BY <2>3, <2>4
<1>4. /\ snapshot' \in [Replicas -> [pot : {0} \cup PotIds, tickets : Nat]]
      /\ \A q \in Replicas : snapshot'[q] = snapshot[q] \/ snapshot'[q] = NoSnapshot
  <2>1. NoSnapshot \in [pot : {0} \cup PotIds, tickets : Nat]
    BY DEF NoSnapshot
  <2>2. snapshot \in [Replicas -> [pot : {0} \cup PotIds, tickets : Nat]]
    BY <1>0 DEF TypeOK
  <2>3. CASE snapshot' = snapshot
    BY <2>2, <2>3
  <2>4. CASE snapshot' = [snapshot EXCEPT ![r] = NoSnapshot]
    BY <2>1, <2>2, <2>4
  <2> QED BY <2>3, <2>4
<1>5. TypeOK'
  BY <1>0, <1>1, <1>2, <1>3, <1>4 DEF TypeOK
<1>6. BadgeIsHonest'
  <2> SUFFICES ASSUME NEW q \in Replicas
               PROVE  /\ snapshot'[q].pot <= open
                      /\ snapshot'[q].pot = 0 => snapshot'[q].tickets = 0
                      /\ snapshot'[q].pot # 0 => snapshot'[q].tickets <= sold[snapshot'[q].pot]
    BY DEF BadgeIsHonest
  <2>1. CASE snapshot'[q] = snapshot[q]
    BY <2>1, <1>0 DEF BadgeIsHonest
  <2>2. CASE snapshot'[q] = NoSnapshot
    BY <2>2, <1>o DEF NoSnapshot
  <2> QED BY <2>1, <2>2, <1>4
<1>7. ASSUME NEW q \in Replicas, NEW t \in Readers PROVE Honest(q, t)'
  <2>1. CASE task'[q] = task[q]
    BY <2>1 DEF FeedInv, Honest
  <2>2. CASE task'[q] = [v \in Readers |-> AtRest]
    BY <2>2 DEF Honest, AtRest
  <2> QED BY <2>1, <2>2, <1>3
<1>8. ASSUME NEW q \in Replicas PROVE Hears(q)'
  <2>1. CASE q = r
    BY <2>1, <1>1 DEF Hears
  <2>2. CASE q # r
    BY <2>2, <1>1, <1>2, <1>3 DEF FeedInv, Hears
  <2> QED BY <2>1, <2>2
<1> QED BY <1>5, <1>6, <1>7, <1>8 DEF FeedInv

\* A dropped connection is such a loss.
LEMMA DropInv ==
    ASSUME FeedInv, NEW r \in Replicas, Drop(r)
    PROVE  FeedInv'
<1>1. faults \in 0 .. MaxFaults
  BY DEF FeedInv, TypeOK
<1>2. faults' \in 0 .. MaxFaults
  BY <1>1, FeedAssumption DEF Drop
<1>3. /\ UNCHANGED <<open, sold, drawn, notified, won>>
      /\ link' = [link EXCEPT ![r] = "down"]
      /\ wire' = [wire EXCEPT ![r] = <<>>]
      /\ inbox' = inbox /\ snapshot' = snapshot /\ task' = task
  BY DEF Drop, Disconnect, table
<1> QED BY <1>2, <1>3, LossInv

\* A restart is such a loss.
LEMMA RestartInv ==
    ASSUME FeedInv, NEW r \in Replicas, Restart(r)
    PROVE  FeedInv'
<1>1. faults \in 0 .. MaxFaults
  BY DEF FeedInv, TypeOK
<1>2. faults' \in 0 .. MaxFaults
  BY <1>1, FeedAssumption DEF Restart
<1>3. /\ UNCHANGED <<open, sold, drawn, notified, won>>
      /\ link' = [link EXCEPT ![r] = "down"]
      /\ wire' = [wire EXCEPT ![r] = <<>>]
      /\ inbox' = [inbox EXCEPT ![r] = [d \in Domains |-> <<>>]]
      /\ snapshot' = [snapshot EXCEPT ![r] = NoSnapshot]
      /\ task' = [task EXCEPT ![r] = [t \in Readers |-> AtRest]]
  BY DEF Restart, table
<1> QED BY <1>2, <1>3, LossInv

\* Every step of the feed keeps the invariant.
LEMMA FeedNext == FeedInv /\ [Next]_vars => FeedInv'
<1> SUFFICES ASSUME FeedInv, [Next]_vars PROVE FeedInv'
  OBVIOUS
<1>1. CASE OpenFirst \/ Buy \/ Settle
  BY <1>1, CommitInv
<1>2. ASSUME NEW r \in Replicas,
             WorkerTakes(r) \/ SweeperTurns(r) \/ Listens(r) \/ Drop(r) \/ Restart(r)
      PROVE  FeedInv'
  BY <1>2, WorkerTakesInv, SweeperTurnsInv, ListensInv, DropInv, RestartInv
<1>3. ASSUME NEW r \in Replicas, NEW t \in Readers, Refreshes(r, t) \/ ReadFails(r, t)
      PROVE  FeedInv'
  BY <1>3, FindInv, HoldersInv, PublishInv, ReadFailsInv DEF Refreshes
<1>4. CASE UNCHANGED vars
  <2> USE <1>4 DEF vars, listener, table
  <2>1. TypeOK'
    BY DEF FeedInv, TypeOK
  <2>2. BadgeIsHonest'
    BY BadgeFrame DEF FeedInv
  <2>3. \A r \in Replicas, t \in Readers : Honest(r, t)'
    BY DEF FeedInv, Honest
  <2>4. \A r \in Replicas : Hears(r)'
    BY DEF FeedInv, Hears
  <2> QED BY <2>1, <2>2, <2>3, <2>4 DEF FeedInv
<1> QED BY <1>1, <1>2, <1>3, <1>4 DEF Next

\* The invariant of the feed holds of every reachable state.
THEOREM FeedInvariance == Spec => []FeedInv
  BY FeedInit, FeedNext, PTL DEF Spec

\* A badge never shows tickets its pot did not sell nor a pot not open yet, however
\* refresh's two statements interleave with commits and with the other task.
THEOREM HonestBadges == Spec => []BadgeIsHonest
<1>1. FeedInv => BadgeIsHonest
  BY DEF FeedInv
<1> QED BY <1>1, FeedInvariance, PTL

\* A live, idle replica has heard of every commit, through any number of dropped
\* connections: Resync after LISTEN closes the gap.
THEOREM CommitsAreHeard == Spec => []EveryCommitIsHeard
<1>1. FeedInv => EveryCommitIsHeard
  BY DEF FeedInv, EveryCommitIsHeard, Hears
<1> QED BY <1>1, FeedInvariance, PTL

-----------------------------------------------------------------------------
(* The news of a win on its way through a replica *)

Tells(message, p) == message.change = "drawn" /\ message.pot = p
SignalTells(signal, p) == signal.kind = "notify" /\ Tells(signal.message, p)

\* One pot's win is in one place at a time: told (w times), in the worker's hand (g),
\* in its queue (q), or on the wire (s).
OneNews(w, g, q, s, p) ==
    /\ w \in {0, 1}
    /\ w = 1 => ~SignalTells(g, p)
    /\ \A i \in 1 .. Len(q) : SignalTells(q[i], p) =>
           /\ w = 0 /\ ~SignalTells(g, p)
           /\ \A j \in 1 .. Len(q) : SignalTells(q[j], p) => i = j
    /\ \A i \in 1 .. Len(s) : Tells(s[i], p) =>
           /\ w = 0 /\ ~SignalTells(g, p)
           /\ \A j \in 1 .. Len(q) : ~SignalTells(q[j], p)
           /\ \A j \in 1 .. Len(s) : Tells(s[j], p) => i = j

\* It is nowhere yet.
NoNews(w, g, q, s, p) ==
    /\ w = 0
    /\ ~SignalTells(g, p)
    /\ \A i \in 1 .. Len(q) : ~SignalTells(q[i], p)
    /\ \A i \in 1 .. Len(s) : ~Tells(s[i], p)

\* How much of the news of p replica r has.
Spread(r, p) ==
    /\ OneNews(won[r][p], task[r]["worker"].signal, inbox[r]["pot"], wire[r], p)
    /\ p \notin drawn => NoNews(won[r][p], task[r]["worker"].signal, inbox[r]["pot"], wire[r], p)

\* Only pots before the open one were drawn, a worker at rest holds no signal, and
\* the news of each win travels through a replica once.
WinsInv ==
    /\ \A p \in drawn : p < open
    /\ \A r \in Replicas : task[r]["worker"].pc = "rest" => task[r]["worker"].signal = Resync
    /\ \A r \in Replicas, p \in PotIds : Spread(r, p)

\* A notification of something else is no news.
LEMMA OtherSent ==
    ASSUME NEW w, NEW g, NEW q, NEW s \in Seq(Messages), NEW p, NEW m \in Messages, ~Tells(m, p)
    PROVE  /\ OneNews(w, g, q, s, p) => OneNews(w, g, q, Append(s, m), p)
           /\ NoNews(w, g, q, s, p) => NoNews(w, g, q, Append(s, m), p)
<1> DEFINE s2 == Append(s, m)
<1>1. /\ Len(s) \in Nat /\ Len(s2) = Len(s) + 1 /\ s2[Len(s) + 1] = m
      /\ \A i \in 1 .. Len(s) : s2[i] = s[i]
  BY AppendProperties
<1> HIDE DEF s2
<1>2. \A i \in 1 .. Len(s2) : Tells(s2[i], p) => i \in 1 .. Len(s) /\ s2[i] = s[i]
  BY <1>1
<1>3. OneNews(w, g, q, s, p) => OneNews(w, g, q, s2, p)
  BY <1>2 DEF OneNews
<1>4. NoNews(w, g, q, s, p) => NoNews(w, g, q, s2, p)
  BY <1>2 DEF NoNews
<1> QED BY <1>3, <1>4 DEF s2

\* The draw sends the news where there was none.
LEMMA NewsSent ==
    ASSUME NEW w, NEW g, NEW q, NEW s \in Seq(Messages), NEW p, NEW m \in Messages,
           NoNews(w, g, q, s, p)
    PROVE  OneNews(w, g, q, Append(s, m), p)
<1> DEFINE s2 == Append(s, m)
<1>1. /\ Len(s) \in Nat /\ Len(s2) = Len(s) + 1
      /\ \A i \in 1 .. Len(s) : s2[i] = s[i]
  BY AppendProperties
<1> HIDE DEF s2
<1>2. \A i \in 1 .. Len(s2) : Tells(s2[i], p) => i = Len(s2)
  BY <1>1 DEF NoNews
<1>3. OneNews(w, g, q, s2, p)
  BY <1>2 DEF OneNews, NoNews
<1> QED BY <1>3 DEF s2

\* route moves the news from the wire to the queue.
LEMMA NewsRouted ==
    ASSUME NEW w, NEW g, NEW q \in Seq(Signals), NEW s \in Seq(Messages), NEW p, s # <<>>
    PROVE  /\ OneNews(w, g, q, s, p) => OneNews(w, g, Append(q, Notify(Head(s))), Tail(s), p)
           /\ NoNews(w, g, q, s, p) => NoNews(w, g, Append(q, Notify(Head(s))), Tail(s), p)
<1> DEFINE q2 == Append(q, Notify(Head(s)))
           s2 == Tail(s)
<1>1. /\ Head(s) \in Messages /\ Head(s) = s[1] /\ Len(s) \in Nat /\ Len(s) > 0 /\ Len(s2) = Len(s) - 1
      /\ \A i \in 1 .. Len(s2) : s2[i] = s[i + 1]
  BY HeadTailProperties
<1>2. Notify(Head(s)) \in Signals /\ (SignalTells(Notify(Head(s)), p) <=> Tells(s[1], p))
  BY <1>1 DEF Signals, Notify, SignalTells
<1>3. /\ Len(q) \in Nat /\ Len(q2) = Len(q) + 1 /\ q2[Len(q) + 1] = Notify(Head(s))
      /\ \A i \in 1 .. Len(q) : q2[i] = q[i]
  BY <1>2, AppendProperties
<1>4. Len(s2) \in Nat /\ Len(q2) \in Nat
  BY <1>1, <1>3
<1> HIDE DEF s2, q2
<1>5. \A i \in 1 .. Len(s2) : i + 1 \in 1 .. Len(s) /\ i + 1 # 1 /\ s2[i] = s[i + 1]
  BY <1>1, <1>4
<1>6. \A i \in 1 .. Len(q2) : \/ i \in 1 .. Len(q) /\ q2[i] = q[i]
                              \/ i = Len(q) + 1 /\ (SignalTells(q2[i], p) <=> Tells(s[1], p))
  BY <1>2, <1>3
<1>7. 1 \in 1 .. Len(s)
  BY <1>1
<1>8. ASSUME OneNews(w, g, q, s, p) PROVE OneNews(w, g, q2, s2, p)
  <2>1. w \in {0, 1} /\ (w = 1 => ~SignalTells(g, p))
    BY <1>8 DEF OneNews
  <2>2. ASSUME NEW i \in 1 .. Len(q2), SignalTells(q2[i], p)
        PROVE  /\ w = 0 /\ ~SignalTells(g, p)
               /\ \A j \in 1 .. Len(q2) : SignalTells(q2[j], p) => i = j
    BY <1>6, <1>7, <1>8, <2>2 DEF OneNews
  <2>3. ASSUME NEW i \in 1 .. Len(s2), Tells(s2[i], p)
        PROVE  /\ w = 0 /\ ~SignalTells(g, p)
               /\ \A j \in 1 .. Len(q2) : ~SignalTells(q2[j], p)
               /\ \A j \in 1 .. Len(s2) : Tells(s2[j], p) => i = j
    <3>1. i + 1 \in 1 .. Len(s) /\ Tells(s[i + 1], p) /\ i \in Nat
      BY <1>4, <1>5, <2>3
    <3>2. ~Tells(s[1], p)
      BY <1>5, <1>7, <1>8, <3>1 DEF OneNews
    <3>3. w = 0 /\ ~SignalTells(g, p) /\ \A j \in 1 .. Len(q) : ~SignalTells(q[j], p)
      BY <1>8, <3>1 DEF OneNews
    <3>4. ASSUME NEW j \in 1 .. Len(s2), Tells(s2[j], p) PROVE i = j
      <4>1. j + 1 \in 1 .. Len(s) /\ Tells(s[j + 1], p) /\ j \in Nat
        BY <1>4, <1>5, <3>4
      <4>2. i + 1 = j + 1
        BY <1>8, <3>1, <4>1 DEF OneNews
      <4> QED BY <3>1, <4>1, <4>2
    <3> QED BY <1>6, <3>2, <3>3, <3>4
  <2> QED BY <2>1, <2>2, <2>3 DEF OneNews
<1>9. NoNews(w, g, q, s, p) => NoNews(w, g, q2, s2, p)
  BY <1>5, <1>6, <1>7 DEF NoNews
<1> QED BY <1>8, <1>9 DEF q2, s2

\* The worker takes it from its queue.
LEMMA NewsTaken ==
    ASSUME NEW w, NEW g, NEW q \in Seq(Signals), NEW s, NEW p, q # <<>>, ~SignalTells(g, p)
    PROVE  /\ OneNews(w, g, q, s, p) => OneNews(w, Head(q), Tail(q), s, p)
           /\ NoNews(w, g, q, s, p) => NoNews(w, Head(q), Tail(q), s, p)
<1> DEFINE q2 == Tail(q)
<1>1. /\ Head(q) = q[1] /\ Len(q) \in Nat /\ Len(q) > 0 /\ Len(q2) = Len(q) - 1
      /\ \A i \in 1 .. Len(q2) : q2[i] = q[i + 1]
  BY HeadTailProperties
<1>2. 1 \in 1 .. Len(q) /\ Len(q2) \in Nat
  BY <1>1
<1> HIDE DEF q2
<1>3. \A i \in 1 .. Len(q2) : i \in Nat /\ i + 1 \in 1 .. Len(q) /\ i + 1 # 1 /\ q2[i] = q[i + 1]
  BY <1>1, <1>2
<1>4. ASSUME OneNews(w, g, q, s, p) PROVE OneNews(w, Head(q), q2, s, p)
  <2>1. w \in {0, 1} /\ (w = 1 => ~SignalTells(q[1], p))
    BY <1>2, <1>4 DEF OneNews
  <2>2. ASSUME NEW i \in 1 .. Len(q2), SignalTells(q2[i], p)
        PROVE  /\ w = 0 /\ ~SignalTells(q[1], p)
               /\ \A j \in 1 .. Len(q2) : SignalTells(q2[j], p) => i = j
    <3>1. i + 1 \in 1 .. Len(q) /\ SignalTells(q[i + 1], p) /\ i \in Nat /\ i + 1 # 1
      BY <1>3, <2>2
    <3>2. w = 0 /\ ~SignalTells(q[1], p)
      BY <1>2, <1>4, <3>1 DEF OneNews
    <3>3. ASSUME NEW j \in 1 .. Len(q2), SignalTells(q2[j], p) PROVE i = j
      <4>1. j + 1 \in 1 .. Len(q) /\ SignalTells(q[j + 1], p) /\ j \in Nat
        BY <1>3, <3>3
      <4>2. i + 1 = j + 1
        BY <1>4, <3>1, <4>1 DEF OneNews
      <4> QED BY <3>1, <4>1, <4>2
    <3> QED BY <3>2, <3>3
  <2>3. ASSUME NEW i \in 1 .. Len(s), Tells(s[i], p)
        PROVE  /\ w = 0 /\ ~SignalTells(q[1], p)
               /\ \A j \in 1 .. Len(q2) : ~SignalTells(q2[j], p)
               /\ \A j \in 1 .. Len(s) : Tells(s[j], p) => i = j
    BY <1>2, <1>3, <1>4, <2>3 DEF OneNews
  <2> QED BY <1>1, <2>1, <2>2, <2>3 DEF OneNews
<1>5. NoNews(w, g, q, s, p) => NoNews(w, Head(q), q2, s, p)
  BY <1>1, <1>2, <1>3 DEF NoNews
<1> QED BY <1>4, <1>5 DEF q2

\* The worker tells it and goes back to rest.
LEMMA NewsTold ==
    ASSUME NEW w, NEW g, NEW q, NEW s, NEW p
    PROVE  /\ OneNews(w, g, q, s, p) =>
                  OneNews(IF SignalTells(g, p) THEN w + 1 ELSE w, Resync, q, s, p)
           /\ NoNews(w, g, q, s, p) =>
                  NoNews(IF SignalTells(g, p) THEN w + 1 ELSE w, Resync, q, s, p)
<1>1. ~SignalTells(Resync, p)
  BY DEF SignalTells, Resync
<1>2. CASE SignalTells(g, p)
  BY <1>1, <1>2 DEF OneNews, NoNews
<1>3. CASE ~SignalTells(g, p)
  BY <1>1, <1>3 DEF OneNews, NoNews
<1> QED BY <1>2, <1>3

\* A Resync in the queue is no news.
LEMMA ResyncIsNoNews ==
    ASSUME NEW w, NEW g, NEW q \in Seq(Signals), NEW s, NEW p
    PROVE  /\ OneNews(w, g, q, s, p) => OneNews(w, g, Append(q, Resync), s, p)
           /\ NoNews(w, g, q, s, p) => NoNews(w, g, Append(q, Resync), s, p)
<1> DEFINE q2 == Append(q, Resync)
<1>0. Resync \in Signals /\ ~SignalTells(Resync, p)
  BY DEF SignalTells, Resync, Signals
<1>1. /\ Len(q) \in Nat /\ Len(q2) = Len(q) + 1 /\ q2[Len(q) + 1] = Resync
      /\ \A i \in 1 .. Len(q) : q2[i] = q[i]
  BY <1>0, AppendProperties
<1> HIDE DEF q2
<1>2. \A i \in 1 .. Len(q2) : SignalTells(q2[i], p) => i \in 1 .. Len(q) /\ q2[i] = q[i]
  BY <1>0, <1>1
<1>3. \A i \in 1 .. Len(q) : i \in 1 .. Len(q2) /\ q2[i] = q[i]
  BY <1>1
<1>4. OneNews(w, g, q, s, p) => OneNews(w, g, q2, s, p)
  BY <1>2 DEF OneNews
<1>5. NoNews(w, g, q, s, p) => NoNews(w, g, q2, s, p)
  BY <1>2 DEF NoNews
<1> QED BY <1>4, <1>5 DEF q2

\* A dropped connection may lose it, a restart too.
LEMMA NewsLost ==
    ASSUME NEW w, NEW g, NEW q, NEW s, NEW p
    PROVE  /\ OneNews(w, g, q, s, p) => OneNews(w, g, q, <<>>, p) /\ OneNews(w, Resync, <<>>, <<>>, p)
           /\ NoNews(w, g, q, s, p) => NoNews(w, g, q, <<>>, p) /\ NoNews(w, Resync, <<>>, <<>>, p)
<1>1. ~SignalTells(Resync, p) /\ 1 .. Len(<<>>) = {}
  BY DEF SignalTells, Resync
<1> QED BY <1>1 DEF OneNews, NoNews

\* A step that leaves the pots alone, and where each replica's part of the news is
\* kept or gone, keeps the invariant.
LEMMA SpreadKept ==
    ASSUME WinsInv, UNCHANGED <<open, drawn>>,
           \A r \in Replicas : task'[r]["worker"].pc = "rest" => task'[r]["worker"].signal = Resync,
           \A r \in Replicas, p \in PotIds :
               /\ OneNews(won[r][p], task[r]["worker"].signal, inbox[r]["pot"], wire[r], p) =>
                      OneNews(won'[r][p], task'[r]["worker"].signal, inbox'[r]["pot"], wire'[r], p)
               /\ NoNews(won[r][p], task[r]["worker"].signal, inbox[r]["pot"], wire[r], p) =>
                      NoNews(won'[r][p], task'[r]["worker"].signal, inbox'[r]["pot"], wire'[r], p)
    PROVE  WinsInv'
  BY DEF WinsInv, Spread

\* A buy is no news; a draw is, of the pot that was open.
LEMMA CommitWins ==
    ASSUME FeedInv, WinsInv, OpenFirst \/ Buy \/ Settle
    PROVE  WinsInv'
<1>0. /\ open \in Nat /\ drawn \subseteq PotIds /\ wire \in [Replicas -> Seq(Messages)] /\ PotIds \subseteq Nat
      /\ UNCHANGED <<inbox, task, won>>
  BY FeedAssumption DEF FeedInv, TypeOK, PotIds, OpenFirst, Buy, Settle
<1>1. CASE OpenFirst
  <2>1. open = 0 /\ open' = 1 /\ wire' = wire /\ drawn' = drawn
    BY <1>1 DEF OpenFirst
  <2>2. ASSUME NEW p \in drawn PROVE p < open'
    <3>1. p < open /\ p \in Nat
      BY <1>0 DEF WinsInv
    <3> QED BY <2>1, <3>1
  <2> QED BY <1>0, <2>1, <2>2 DEF WinsInv, Spread
<1>2. ASSUME NEW change \in Changes, Announced(change), open \in PotIds, open' = open \/ open' = open + 1,
             IF change = "drawn" THEN drawn' = drawn \cup {open} /\ open' = open + 1 ELSE drawn' = drawn
      PROVE  WinsInv'
  <2> DEFINE m == [channel |-> "pot_changed", change |-> change, pot |-> open]
  <2>1. m \in Messages /\ m.change = change /\ m.pot = open
    BY <1>2, MessageType
  <2>2. \A r \in Replicas : wire'[r] = wire[r] \/ wire'[r] = Append(wire[r], m)
    BY <1>0, <1>2 DEF Announced, Broadcast
  <2> HIDE DEF m
  <2>3. ASSUME NEW p \in drawn' PROVE p < open'
    <3>1. p \in drawn => p < open /\ p \in Nat
      BY <1>0 DEF WinsInv
    <3>2. CASE p \in drawn
      BY <1>0, <1>2, <3>1, <3>2
    <3>3. CASE p \notin drawn
      <4>1. p = open /\ open' = open + 1
        BY <1>2, <3>3
      <4> QED BY <1>0, <4>1
    <3> QED BY <3>2, <3>3
  <2>4. ASSUME NEW r \in Replicas, NEW p \in PotIds PROVE Spread(r, p)'
    <3> DEFINE w == won[r][p]
               g == task[r]["worker"].signal
               q == inbox[r]["pot"]
    <3>0. /\ wire[r] \in Seq(Messages) /\ Spread(r, p)
          /\ won'[r][p] = w /\ task'[r]["worker"].signal = g /\ inbox'[r]["pot"] = q
      BY <1>0 DEF WinsInv
    <3>1. /\ OneNews(w, g, q, wire[r], p)
          /\ p \notin drawn => NoNews(w, g, q, wire[r], p)
      BY <3>0 DEF Spread
    <3>2. Spread(r, p)' <=> /\ OneNews(w, g, q, wire'[r], p)
                            /\ p \notin drawn' => NoNews(w, g, q, wire'[r], p)
      BY <3>0 DEF Spread
    <3> HIDE DEF w, g, q
    <3>3. CASE ~Tells(m, p)
      <4>1. drawn \subseteq drawn'
        BY <1>2
      <4>2. /\ OneNews(w, g, q, Append(wire[r], m), p)
            /\ p \notin drawn => NoNews(w, g, q, Append(wire[r], m), p)
        BY <2>1, <3>0, <3>1, <3>3, OtherSent
      <4> QED BY <2>2, <3>1, <3>2, <4>1, <4>2
    <3>4. CASE Tells(m, p)
      <4>1. change = "drawn" /\ p = open
        BY <2>1, <3>4 DEF Tells
      <4>2. p \notin drawn /\ p \in drawn'
        BY <1>0, <1>2, <4>1 DEF WinsInv
      <4>3. OneNews(w, g, q, Append(wire[r], m), p)
        BY <2>1, <3>0, <3>1, <4>2, NewsSent
      <4> QED BY <2>2, <3>1, <3>2, <4>2, <4>3
    <3> QED BY <3>3, <3>4
  <2> QED BY <1>0, <2>3, <2>4 DEF WinsInv
<1>3. CASE Buy
  <2>1. open \in PotIds /\ Announced("bought") /\ open' = open /\ drawn' = drawn /\ "bought" \in Changes
    BY <1>3, FeedAssumption DEF Buy, FeedInv, TypeOK, PotIds, Changes
  <2> QED BY <1>2, <2>1
<1>4. CASE Settle
  <2>1. open \in PotIds /\ open' = open + 1 /\ "drawn" \in Changes /\ "rolled" \in Changes
    BY <1>4, FeedAssumption DEF Settle, PotIds, Changes
  <2>2. \/ Announced("drawn") /\ drawn' = drawn \cup {open}
        \/ Announced("rolled") /\ drawn' = drawn
    BY <1>4 DEF Settle
  <2> QED BY <1>2, <2>1, <2>2
<1> QED BY <1>1, <1>3, <1>4

\* Taking a signal, and every step of a refresh.
LEMMA TaskWins ==
    ASSUME FeedInv, WinsInv, NEW r \in Replicas,
           \/ WorkerTakes(r) \/ SweeperTurns(r)
           \/ \E t \in Readers : Find(r, t) \/ Holders(r, t) \/ Publish(r, t) \/ ReadFails(r, t)
    PROVE  WinsInv'
<1>0. /\ task \in [Replicas -> [Readers -> TaskStates]] /\ "worker" \in Readers /\ "sweeper" \in Readers
      /\ inbox \in [Replicas -> [Domains -> Seq(Signals)]] /\ "pot" \in Domains
      /\ won \in [Replicas -> [PotIds -> Nat]] /\ inbox[r]["pot"] \in Seq(Signals)
      /\ task[r]["worker"].signal \in Signals
  BY FeedAssumption DEF FeedInv, TypeOK, Readers, TaskStates
<1>1. UNCHANGED <<open, drawn, wire>>
  BY DEF WorkerTakes, SweeperTurns, Find, Holders, Publish, ReadFails, UnchangedOutside, table, listener
<1> DEFINE g == task[r]["worker"].signal
<1>2. CASE WorkerTakes(r)
  <2>1. /\ task[r]["worker"].pc = "rest" /\ inbox[r]["pot"] # <<>> /\ won' = won
        /\ task'[r]["worker"].signal = Head(inbox[r]["pot"]) /\ task'[r]["worker"].pc = "find"
        /\ inbox'[r]["pot"] = Tail(inbox[r]["pot"])
        /\ \A q \in Replicas : q # r => task'[q] = task[q] /\ inbox'[q] = inbox[q]
    BY <1>0, <1>2 DEF WorkerTakes, TaskStates
  <2>2. \A p \in PotIds : ~SignalTells(g, p)
    BY <2>1 DEF WinsInv, SignalTells, Resync
  <2>3. ASSUME NEW q \in Replicas, NEW p \in PotIds
        PROVE  /\ OneNews(won[q][p], task[q]["worker"].signal, inbox[q]["pot"], wire[q], p) =>
                      OneNews(won'[q][p], task'[q]["worker"].signal, inbox'[q]["pot"], wire'[q], p)
               /\ NoNews(won[q][p], task[q]["worker"].signal, inbox[q]["pot"], wire[q], p) =>
                      NoNews(won'[q][p], task'[q]["worker"].signal, inbox'[q]["pot"], wire'[q], p)
    <3>1. CASE q # r
      BY <1>1, <2>1, <3>1
    <3>2. CASE q = r
      <4>1. ~SignalTells(g, p)
        BY <2>2
      <4>2. /\ OneNews(won[r][p], g, inbox[r]["pot"], wire[r], p) =>
                   OneNews(won[r][p], Head(inbox[r]["pot"]), Tail(inbox[r]["pot"]), wire[r], p)
            /\ NoNews(won[r][p], g, inbox[r]["pot"], wire[r], p) =>
                   NoNews(won[r][p], Head(inbox[r]["pot"]), Tail(inbox[r]["pot"]), wire[r], p)
        <5> HIDE DEF g
        <5> QED BY <1>0, <2>1, <4>1, NewsTaken
      <4> QED BY <1>1, <2>1, <3>2, <4>2
    <3> QED BY <3>1, <3>2
  <2>4. \A q \in Replicas : task'[q]["worker"].pc = "rest" => task'[q]["worker"].signal = Resync
    BY <2>1 DEF WinsInv
  <2> QED BY <1>1, <2>3, <2>4, SpreadKept
<1>3. ASSUME won' = won, inbox' = inbox, \A q \in Replicas : q # r => task'[q] = task[q],
             task'[r]["worker"].signal = g, task'[r]["worker"].pc = "rest" => task[r]["worker"].pc = "rest"
      PROVE  WinsInv'
  <2>1. \A q \in Replicas : task'[q]["worker"].signal = task[q]["worker"].signal
    BY <1>3
  <2>2. \A q \in Replicas : task'[q]["worker"].pc = "rest" => task'[q]["worker"].signal = Resync
    BY <1>3, <2>1 DEF WinsInv
  <2> QED BY <1>1, <1>3, <2>1, <2>2 DEF WinsInv, Spread
<1>4. CASE SweeperTurns(r)
  <2>1. /\ won' = won /\ inbox' = inbox /\ \A q \in Replicas : q # r => task'[q] = task[q]
        /\ task'[r]["worker"] = task[r]["worker"]
    BY <1>0, <1>4 DEF SweeperTurns
  <2> QED BY <1>3, <2>1
<1>s. ASSUME NEW t \in Readers, NEW st, task' = [task EXCEPT ![r][t] = st], st.pc # "rest",
             st.signal = task[r][t].signal, won' = won, inbox' = inbox
      PROVE  WinsInv'
  <2>1. task'[r][t] = st /\ (t # "worker" => task'[r]["worker"] = task[r]["worker"])
    BY <1>0, <1>s
  <2>2. \A q \in Replicas : q # r => task'[q] = task[q]
    BY <1>0, <1>s
  <2> QED BY <1>3, <1>s, <2>1, <2>2
<1>5. ASSUME NEW t \in Readers, Find(r, t) \/ Holders(r, t) PROVE WinsInv'
  <2> DEFINE found   == [task[r][t] EXCEPT !.pc = IF open = 0 THEN "publish" ELSE "holders",
                                           !.pot = open, !.tickets = 0,
                                           !.seen = IF t = "worker" THEN notified ELSE 0]
             counted == [task[r][t] EXCEPT !.pc = "publish", !.tickets = sold[task[r][t].pot]]
  <2>1. task[r][t] \in TaskStates
    BY <1>0
  <2>2. found.pc # "rest" /\ found.signal = task[r][t].signal
    BY <2>1 DEF TaskStates
  <2>3. counted.pc # "rest" /\ counted.signal = task[r][t].signal
    BY <2>1 DEF TaskStates
  <2>4. CASE Find(r, t)
    <3>1. task' = [task EXCEPT ![r][t] = found] /\ won' = won /\ inbox' = inbox
      BY <1>0, <2>4 DEF Find
    <3> HIDE DEF found
    <3> QED BY <1>s, <2>2, <3>1
  <2>5. CASE Holders(r, t)
    <3>1. task' = [task EXCEPT ![r][t] = counted] /\ won' = won /\ inbox' = inbox
      BY <1>0, <2>5 DEF Holders
    <3> HIDE DEF counted
    <3> QED BY <1>s, <2>3, <3>1
  <2> QED BY <1>5, <2>4, <2>5
<1>6. ASSUME NEW t \in Readers, inbox' = inbox, Won(r, t),
             NEW gaveUp, task' = [task EXCEPT ![r][t] = Rested(r, t, gaveUp)]
      PROVE  WinsInv'
  <2>1. CASE t = "sweeper"
    <3>1. won' = won /\ task'[r]["worker"] = task[r]["worker"] /\ \A q \in Replicas : q # r => task'[q] = task[q]
      BY <1>0, <1>6, <2>1 DEF Won
    <3> QED BY <1>3, <1>6, <3>1
  <2>2. CASE t = "worker"
    <3>1. /\ task'[r]["worker"].signal = Resync /\ \A q \in Replicas : q # r => task'[q] = task[q]
      BY <1>0, <1>6, <2>2 DEF Rested, AtRest
    <3>2. \A p \in PotIds : won'[r][p] = IF SignalTells(g, p) THEN won[r][p] + 1 ELSE won[r][p]
      BY <1>0, <1>6, <2>2 DEF Won, SignalTells, Tells
    <3>3. \A q \in Replicas : q # r => won'[q] = won[q]
      BY <1>0, <1>6, <2>2 DEF Won
    <3>4. ASSUME NEW q \in Replicas, NEW p \in PotIds
          PROVE  /\ OneNews(won[q][p], task[q]["worker"].signal, inbox[q]["pot"], wire[q], p) =>
                        OneNews(won'[q][p], task'[q]["worker"].signal, inbox'[q]["pot"], wire'[q], p)
                 /\ NoNews(won[q][p], task[q]["worker"].signal, inbox[q]["pot"], wire[q], p) =>
                        NoNews(won'[q][p], task'[q]["worker"].signal, inbox'[q]["pot"], wire'[q], p)
      <4>1. CASE q # r
        BY <1>1, <1>6, <3>1, <3>3, <4>1
      <4>2. CASE q = r
        <5>1. /\ OneNews(won[r][p], g, inbox[r]["pot"], wire[r], p) =>
                     OneNews(IF SignalTells(g, p) THEN won[r][p] + 1 ELSE won[r][p], Resync, inbox[r]["pot"], wire[r], p)
              /\ NoNews(won[r][p], g, inbox[r]["pot"], wire[r], p) =>
                     NoNews(IF SignalTells(g, p) THEN won[r][p] + 1 ELSE won[r][p], Resync, inbox[r]["pot"], wire[r], p)
          BY NewsTold
        <5> QED BY <1>1, <1>6, <3>1, <3>2, <4>2, <5>1
      <4> QED BY <4>1, <4>2
    <3>5. \A q \in Replicas : task'[q]["worker"].pc = "rest" => task'[q]["worker"].signal = Resync
      BY <3>1 DEF WinsInv
    <3> QED BY <1>1, <3>4, <3>5, SpreadKept
  <2> QED BY <2>1, <2>2 DEF Readers
<1>7. ASSUME NEW t \in Readers, Publish(r, t) PROVE WinsInv'
  BY <1>6, <1>7 DEF Publish
<1>8. ASSUME NEW t \in Readers, ReadFails(r, t) PROVE WinsInv'
  <2>1. CASE t = "worker" /\ task[r][t].signal.kind = "resync"
    <3> DEFINE again == [task[r][t] EXCEPT !.pc = "find"]
    <3>1. again.pc # "rest" /\ again.signal = task[r][t].signal
      BY <1>0 DEF TaskStates
    <3>2. task' = [task EXCEPT ![r][t] = again] /\ won' = won /\ inbox' = inbox
      BY <1>0, <1>8, <2>1 DEF ReadFails, listener
    <3> HIDE DEF again
    <3> QED BY <1>s, <3>1, <3>2
  <2>2. CASE ~(t = "worker" /\ task[r][t].signal.kind = "resync")
    <3>1. inbox' = inbox /\ Won(r, t) /\ task' = [task EXCEPT ![r][t] = Rested(r, t, TRUE)]
      BY <1>8, <2>2 DEF ReadFails, listener
    <3> QED BY <1>6, <3>1
  <2> QED BY <2>1, <2>2
<1> QED BY <1>2, <1>4, <1>5, <1>7, <1>8

\* The listener's steps: a Resync is queued, a notification moves on.
LEMMA ListensWins ==
    ASSUME FeedInv, WinsInv, NEW r \in Replicas, Listens(r)
    PROVE  WinsInv'
<1>0. /\ wire \in [Replicas -> Seq(Messages)] /\ wire[r] \in Seq(Messages) /\ "pot" \in Domains
      /\ inbox \in [Replicas -> [Domains -> Seq(Signals)]] /\ inbox[r]["pot"] \in Seq(Signals)
  BY FeedAssumption DEF FeedInv, TypeOK
<1>1. UNCHANGED <<open, drawn, task, won>> /\ ListenerStep(r)
  BY DEF Listens, table
<1>2. \A q \in Replicas : task'[q]["worker"].pc = "rest" => task'[q]["worker"].signal = Resync
  BY <1>1 DEF WinsInv
<1>3. ASSUME NEW q \in Replicas, NEW p \in PotIds
      PROVE  /\ OneNews(won[q][p], task[q]["worker"].signal, inbox[q]["pot"], wire[q], p) =>
                    OneNews(won'[q][p], task'[q]["worker"].signal, inbox'[q]["pot"], wire'[q], p)
             /\ NoNews(won[q][p], task[q]["worker"].signal, inbox[q]["pot"], wire[q], p) =>
                    NoNews(won'[q][p], task'[q]["worker"].signal, inbox'[q]["pot"], wire'[q], p)
  <2>1. CASE inbox'[q]["pot"] = inbox[q]["pot"] /\ wire'[q] = wire[q]
    BY <1>1, <2>1
  <2>2. CASE q = r /\ ListenAnnounced(r)
    <3>1. inbox'[r]["pot"] = Append(inbox[r]["pot"], Resync) /\ wire'[r] = wire[r]
      BY <1>0, <2>2 DEF ListenAnnounced
    <3> QED BY <1>0, <1>1, <2>2, <3>1, ResyncIsNoNews
  <2>3. CASE q = r /\ Route(r)
    <3>1. wire[r] # <<>> /\ wire'[r] = Tail(wire[r])
      BY <1>0, <2>3 DEF Route
    <3>2. Head(wire[r]) \in Messages
      BY <1>0, <3>1, HeadTailProperties
    <3>3. inbox'[r]["pot"] = Append(inbox[r]["pot"], Notify(Head(wire[r])))
      BY <1>0, <2>3, <3>2, FeedAssumption DEF Route, Messages
    <3> QED BY <1>0, <1>1, <2>3, <3>1, <3>3, NewsRouted
  <2>4. Connect(r) \/ ListenTakesEffect(r) \/ q # r => inbox'[q]["pot"] = inbox[q]["pot"] /\ wire'[q] = wire[q]
    BY <1>0, <1>1 DEF ListenerStep, Connect, ListenTakesEffect, ListenAnnounced, Route
  <2> QED BY <1>1, <2>1, <2>2, <2>3, <2>4 DEF ListenerStep
<1> QED BY <1>1, <1>2, <1>3, SpreadKept

\* A dropped connection and a restart only lose news.
LEMMA LossWins ==
    ASSUME FeedInv, WinsInv, NEW r \in Replicas, Drop(r) \/ Restart(r)
    PROVE  WinsInv'
<1>0. /\ wire \in [Replicas -> Seq(Messages)] /\ "pot" \in Domains /\ "worker" \in Readers
      /\ inbox \in [Replicas -> [Domains -> Seq(Signals)]] /\ task \in [Replicas -> [Readers -> TaskStates]]
  BY FeedAssumption DEF FeedInv, TypeOK, Readers
<1>1. UNCHANGED <<open, drawn, won>>
  BY DEF Drop, Restart, table
<1>2. /\ wire'[r] = <<>>
      /\ \/ task'[r]["worker"] = task[r]["worker"] /\ inbox'[r]["pot"] = inbox[r]["pot"]
         \/ task'[r]["worker"] = AtRest /\ inbox'[r]["pot"] = <<>>
      /\ \A q \in Replicas : q # r => wire'[q] = wire[q] /\ task'[q] = task[q] /\ inbox'[q] = inbox[q]
  <2>1. CASE Drop(r)
    BY <1>0, <2>1 DEF Drop, Disconnect
  <2>2. CASE Restart(r)
    BY <1>0, <2>2 DEF Restart
  <2> QED BY <2>1, <2>2
<1>3. AtRest.signal = Resync
  BY DEF AtRest
<1>4. \A q \in Replicas : task'[q]["worker"].pc = "rest" => task'[q]["worker"].signal = Resync
  BY <1>2, <1>3 DEF WinsInv
<1>5. ASSUME NEW q \in Replicas, NEW p \in PotIds
      PROVE  /\ OneNews(won[q][p], task[q]["worker"].signal, inbox[q]["pot"], wire[q], p) =>
                    OneNews(won'[q][p], task'[q]["worker"].signal, inbox'[q]["pot"], wire'[q], p)
             /\ NoNews(won[q][p], task[q]["worker"].signal, inbox[q]["pot"], wire[q], p) =>
                    NoNews(won'[q][p], task'[q]["worker"].signal, inbox'[q]["pot"], wire'[q], p)
  <2>1. CASE q # r
    BY <1>1, <1>2, <2>1
  <2>2. CASE q = r
    <3> DEFINE w == won[r][p]
               g == task[r]["worker"].signal
               b == inbox[r]["pot"]
               s == wire[r]
    <3>1. /\ OneNews(w, g, b, s, p) => OneNews(w, g, b, <<>>, p) /\ OneNews(w, Resync, <<>>, <<>>, p)
          /\ NoNews(w, g, b, s, p) => NoNews(w, g, b, <<>>, p) /\ NoNews(w, Resync, <<>>, <<>>, p)
      <4> HIDE DEF w, g, b, s
      <4> QED BY NewsLost
    <3> QED BY <1>1, <1>2, <1>3, <2>2, <3>1
  <2> QED BY <2>1, <2>2
<1> QED BY <1>1, <1>4, <1>5, SpreadKept

\* Every step keeps the news of a win in one place.
LEMMA WinsNext == FeedInv /\ WinsInv /\ [Next]_vars => WinsInv'
<1> SUFFICES ASSUME FeedInv, WinsInv, [Next]_vars PROVE WinsInv'
  OBVIOUS
<1>1. CASE OpenFirst \/ Buy \/ Settle
  BY <1>1, CommitWins
<1>2. ASSUME NEW r \in Replicas, WorkerTakes(r) \/ SweeperTurns(r) PROVE WinsInv'
  BY <1>2, TaskWins
<1>3. ASSUME NEW r \in Replicas, Listens(r) PROVE WinsInv'
  BY <1>3, ListensWins
<1>4. ASSUME NEW r \in Replicas, Drop(r) \/ Restart(r) PROVE WinsInv'
  BY <1>4, LossWins
<1>5. ASSUME NEW r \in Replicas, NEW t \in Readers, Refreshes(r, t) \/ ReadFails(r, t) PROVE WinsInv'
  BY <1>5, TaskWins DEF Refreshes
<1>6. CASE UNCHANGED vars
  BY <1>6 DEF vars, listener, table, WinsInv, Spread
<1> QED BY <1>1, <1>2, <1>3, <1>4, <1>5, <1>6 DEF Next

\* At first there is no news anywhere.
LEMMA WinsInit == Init => WinsInv
<1> SUFFICES ASSUME Init PROVE WinsInv
  OBVIOUS
<1>1. /\ drawn = {} /\ "pot" \in Domains
      /\ \A r \in Replicas : task[r]["worker"] = AtRest /\ inbox[r]["pot"] = <<>> /\ wire[r] = <<>>
      /\ \A r \in Replicas, p \in PotIds : won[r][p] = 0
  BY FeedAssumption DEF Init, ListenerInit, Readers
<1>2. AtRest.signal = Resync /\ 1 .. Len(<<>>) = {} /\ \A p : ~SignalTells(Resync, p)
  BY DEF AtRest, SignalTells, Resync
<1>3. \A r \in Replicas, p \in PotIds : Spread(r, p)
  BY <1>1, <1>2 DEF Spread, OneNews, NoNews
<1> QED BY <1>1, <1>2, <1>3 DEF WinsInv

\* A replica tells of a win at most once and only of a pot that was drawn: neither a
\* retried re-read nor a reconnection repeats PotEvent::Won.
THEOREM WinsAreToldOnce == Spec => []WinIsToldOnce
<1>1. FeedInv /\ WinsInv => WinIsToldOnce
  <2> SUFFICES ASSUME WinsInv, NEW r \in Replicas, NEW p \in PotIds
               PROVE  won[r][p] <= 1 /\ (won[r][p] = 1 => p \in drawn)
    BY DEF WinIsToldOnce
  <2>1. won[r][p] \in {0, 1} /\ (p \notin drawn => won[r][p] = 0)
    BY DEF WinsInv, Spread, OneNews, NoNews
  <2> QED BY <2>1
<1> QED BY <1>1, FeedInvariance, WinsInit, WinsNext, PTL DEF Spec

=============================================================================
