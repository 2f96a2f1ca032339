---------------------------- MODULE WalletProofs ----------------------------
(***************************************************************************)
(* The books of ChipLedger for every set of users and workers and every    *)
(* amount, and the payouts of GamePayout for any number of granters and    *)
(* events and any cooldown.  A transaction in flight has written nothing   *)
(* yet: what makes its COMMIT safe is what it knows about rows it has      *)
(* locked, that it is part way through one of the operations, and that     *)
(* what it wrote so far is entered on both sides.  A claim is paid once,   *)
(* with all its rows or none, and two cooldown payouts keep their          *)
(* distance.                                                               *)
(***************************************************************************)
EXTENDS ChipLedger, GamePayout, SequenceTheorems, FiniteSetTheorems, TLAPS

-----------------------------------------------------------------------------
(* The ledger.                                                             *)

Dos == {"ensure", "debit", "credit", "grant", "restore", "commit"}

Statements == [do : Dos, user : Users \cup {NoOne}, amount : Nat, floor : Nat, owes : Int]

Sums == [Users -> Int]

Transactions ==
    [todo : Seq(Statements), delta : Sums, written : Sums, stipends : Sums, granted : Sums,
     lifted : SUBSET Users, owes : Int, born : SUBSET Users]

LedgerTypeOK ==
    /\ rows \in SUBSET Users /\ balance \in Sums /\ ledger \in Sums /\ stipends \in Sums
    /\ granted \in Sums /\ lifted \in SUBSET Users /\ in_transit \in Int
    /\ locked \in [Users -> Workers \cup {NoOne}]
    /\ tx \in [Workers -> Transactions]

\* What is left of an operation, read from its end: it closes with COMMIT, before
\* which there is one statement of its own or a gift's two, and only ensures
\* come earlier.  The two halves of a gift owe each other.
Script(s) ==
    LET n == Len(s)
    IN  /\ n >= 1 => s[n] = Commit
        /\ n >= 2 => s[n - 1].do # "commit"
        /\ n >= 3 => /\ s[n - 2].owes + s[n - 1].owes = 0
                     /\ \/ s[n - 2] = Commit /\ s[n - 1].do = "grant"
                        \/ /\ s[n - 2].do = "debit" /\ s[n - 2].floor = Floor
                           /\ s[n - 1].do = "credit"
        /\ \A i \in 1 .. n - 3 : s[i].do = "ensure"
        /\ \A i \in 1 .. n : s[i].do \notin {"debit", "credit"} => s[i].owes = 0

\* A transaction owes only between a gift's debit and its credit.
OwesInsideAGift(t) ==
    IF Len(t.todo) = 2 THEN t.owes + t.todo[1].owes = 0 ELSE t.owes = 0

\* What is entered on the balance is entered as what it is; a floor restore may
\* leave some of it out.
TxBalances(t) ==
    \A u \in Users :
        /\ t.written[u] + t.granted[u] <= t.delta[u]
        /\ u \notin t.lifted => t.written[u] + t.granted[u] = t.delta[u]

\* The stipend is for a row this transaction made.
StipendIsForBirth(t) == \A u \in Users : t.stipends[u] = 0 \/ (t.stipends[u] = 1 /\ u \in t.born)

\* What a transaction wrote is under its lock, and a row it made is not there
\* for others.
WritesAreLocked(w) ==
    \A u \in Users :
        /\ tx[w].delta[u] # 0 => locked[u] = w
        /\ u \in tx[w].born => locked[u] = w /\ u \notin rows

\* A transaction that runs on keeps those it debits above the floor; one that
\* debits to zero has that one statement and credits nobody.
KeepsFloor(w) == \A u \in Users : tx[w].delta[u] < 0 => Seen(w, u) >= Floor
CreditsNobody(w) == \A u \in Users : tx[w].delta[u] <= 0
Solvent(w) ==
    /\ Len(tx[w].todo) = 1 => KeepsFloor(w) \/ CreditsNobody(w)
    /\ Len(tx[w].todo) # 1 => KeepsFloor(w)
    /\ Len(tx[w].todo) = 2 /\ tx[w].todo[1].do = "debit" => tx[w].delta = None

TxOK(w) ==
    /\ Script(tx[w].todo) /\ OwesInsideAGift(tx[w]) /\ TxBalances(tx[w]) /\ StipendIsForBirth(tx[w])
    /\ WritesAreLocked(w) /\ Solvent(w)

\* The stipend on the books is for a row that exists.
StipendsAreForRows == \A u \in Users : stipends[u] = 0 \/ (stipends[u] = 1 /\ u \in rows)

LedgerInv ==
    /\ LedgerTypeOK
    /\ GiftsArriveWhole /\ LedgerExplainsBalance /\ StipendsAreForRows
    /\ \A w \in Workers : TxOK(w)

-----------------------------------------------------------------------------
(* Scripts *)

\* What is left after a statement is what followed it.
LEMMA TailOfScript ==
    ASSUME NEW s \in Seq(Statements), s # <<>>
    PROVE  /\ Len(s) \in Nat /\ Len(s) \in Nat \ {0} /\ Head(s) = s[1] /\ s[1] \in Statements
           /\ Tail(s) \in Seq(Statements) /\ Len(Tail(s)) = Len(s) - 1
           /\ \A i \in 1 .. Len(s) - 1 : Tail(s)[i] = s[i + 1]
  <1>1. /\ Tail(s) \in Seq(Statements) /\ Len(Tail(s)) = Len(s) - 1
        /\ \A i \in 1 .. Len(Tail(s)) : Tail(s)[i] = s[i + 1]
    BY HeadTailProperties
  <1>2. Len(s) \in Nat \ {0} /\ Head(s) = s[1] /\ s[1] \in Statements
    BY EmptySeq, SMTT(20)
  <1>. QED
    BY <1>1, <1>2

\* An operation stays one from statement to statement.
LEMMA ScriptGoesOn ==
    ASSUME NEW s \in Seq(Statements), s # <<>>, Script(s)
    PROVE  Script(Tail(s))
  <1>. DEFINE n == Len(s)
              r == Tail(s)
  <1>1. /\ n \in Nat \ {0} /\ Len(r) = n - 1
        /\ \A i \in 1 .. n - 1 : r[i] = s[i + 1]
    BY TailOfScript
  <1>2. n - 1 >= 1 => r[n - 1] = Commit
    BY <1>1 DEF Script
  <1>3. n - 1 >= 2 => r[n - 2].do # "commit"
    BY <1>1 DEF Script
  <1>4. n - 1 >= 3 => /\ r[n - 3].owes + r[n - 2].owes = 0
                      /\ \/ r[n - 3] = Commit /\ r[n - 2].do = "grant"
                         \/ /\ r[n - 3].do = "debit" /\ r[n - 3].floor = Floor
                            /\ r[n - 2].do = "credit"
    <2>. SUFFICES ASSUME n - 1 >= 3
                  PROVE  r[n - 3] = s[n - 2] /\ r[n - 2] = s[n - 1]
      BY <1>1 DEF Script
    <2>. QED
      BY <1>1
  <1>5. \A i \in 1 .. n - 4 : r[i].do = "ensure"
    BY <1>1 DEF Script
  <1>6. \A i \in 1 .. n - 1 : r[i].do \notin {"debit", "credit"} => r[i].owes = 0
    BY <1>1 DEF Script
  <1>. HIDE DEF n, r
  <1>7. Len(r) = n - 1 /\ n - 1 - 1 = n - 2 /\ n - 1 - 2 = n - 3 /\ n - 1 - 3 = n - 4
    BY <1>1
  <1>8. Script(r)
    BY <1>2, <1>3, <1>4, <1>5, <1>6, <1>7, Zenon DEF Script
  <1>. QED
    BY <1>8 DEF r

\* The lengths that matter.
LEMMA SmallLengths ==
    /\ \A n \in Nat \ {0} : n >= 4 \/ n = 1 \/ n = 2 \/ n = 3
    /\ \A n \in Nat : n >= 4 => n \notin {1, 2, 3} /\ n \notin {1, 3} /\ n \notin {2, 3} /\ n >= 2 /\ n # 3
    /\ \A n \in Nat : n >= 2 => n # 1
    /\ \A n \in {1, 3} : n # 2
    /\ \A n \in Nat : n >= 2 => n = 2 \/ n = 3 \/ n >= 4
    /\ \A n \in Nat : n >= 4 => n # 2 /\ n - 1 # 2
  OBVIOUS

\* The statement before COMMIT, a gift's debit and the ensures: where each may stand.
LEMMA PlacesInAScript ==
    ASSUME NEW s \in Seq(Statements), s # <<>>, Script(s)
    PROVE  /\ s[1].do = "commit" => Len(s) \in {1, 3}
           /\ s[1].do # "commit" => Len(s) >= 2
           /\ s[1].do \notin {"ensure", "commit"} => Len(s) \in {2, 3}
           /\ s[1].do \notin {"ensure", "commit", "debit"} => Len(s) = 2
           /\ Len(s) = 3 => s[2].do \in {"grant", "credit"} /\ s[1].owes + s[2].owes = 0
           /\ Len(s) = 3 /\ s[1].do = "debit" => s[1].floor = Floor
           /\ s[1].do \notin {"debit", "credit"} => s[1].owes = 0
  <1>1. Len(s) \in Nat \ {0}
    BY TailOfScript
  <1>2. CASE Len(s) >= 4
    <2>1. s[1].do = "ensure"
      BY <1>1, <1>2 DEF Script
    <2>2. s[1].owes = 0
      BY <1>1, <2>1 DEF Script
    <2>3. Len(s) \notin {1, 2, 3} /\ Len(s) >= 2 /\ Len(s) # 3
      BY <1>1, <1>2, SmallLengths, Zenon
    <2>. QED
      BY <2>1, <2>2, <2>3, Zenon
  <1>c. Commit.do = "commit" /\ Commit.owes = 0
    BY DEF Commit, Stmt
  <1>o. s[1].do \notin {"debit", "credit"} => s[1].owes = 0
    BY <1>1 DEF Script
  <1>3. CASE Len(s) = 1
    BY <1>3, <1>c, <1>o DEF Script
  <1>4. CASE Len(s) = 2
    <2>1. s[1].do # "commit"
      BY <1>4 DEF Script
    <2>. QED
      BY <1>4, <1>o, <2>1
  <1>5. CASE Len(s) = 3
    <2>1. /\ s[1].owes + s[2].owes = 0
          /\ \/ s[1] = Commit /\ s[2].do = "grant"
             \/ s[1].do = "debit" /\ s[1].floor = Floor /\ s[2].do = "credit"
      BY <1>5 DEF Script
    <2>2. Len(s) \in {1, 3} /\ Len(s) \in {2, 3} /\ Len(s) >= 2
      BY <1>5
    <2>3. CASE s[1] = Commit /\ s[2].do = "grant"
      <3>1. s[1].do = "commit"
        BY <1>c, <2>3, Zenon
      <3>. QED
        BY <2>1, <2>2, <2>3, <3>1, <1>o, Zenon
    <2>4. CASE s[1].do = "debit" /\ s[1].floor = Floor /\ s[2].do = "credit"
      BY <2>1, <2>2, <2>4, Zenon
    <2>. QED
      BY <2>1, <2>3, <2>4, Zenon
  <1>6. Len(s) >= 4 \/ Len(s) = 1 \/ Len(s) = 2 \/ Len(s) = 3
    BY <1>1, SmallLengths, Zenon
  <1>. QED
    BY <1>2, <1>3, <1>4, <1>5, <1>6, Zenon
-----------------------------------------------------------------------------
(* Steps of one transaction *)

\* A step of w that changes nothing committed and takes no lock from another
\* leaves the other transactions as sound as they were.
LEMMA OthersStand ==
    ASSUME LedgerInv, NEW w \in Workers, UNCHANGED committed,
           \A x \in Workers \ {w} : tx'[x] = tx[x],
           \A u \in Users : locked[u] \in Workers \ {w} => locked'[u] = locked[u]
    PROVE  \A x \in Workers \ {w} : TxOK(x)'
  <1>. TAKE x \in Workers \ {w}
  <1>1. TxOK(x)
    BY DEF LedgerInv
  <1>2. tx'[x] = tx[x] /\ rows' = rows /\ balance' = balance
    BY DEF committed
  <1>3. WritesAreLocked(x)'
    BY <1>1, <1>2 DEF TxOK, WritesAreLocked
  <1>4. Solvent(x)'
    BY <1>1, <1>2 DEF TxOK, Solvent, KeepsFloor, CreditsNobody, Seen
  <1>. QED
    BY <1>1, <1>2, <1>3, <1>4, Zenon DEF TxOK

\* A statement that adds n to what w writes for u, under u's lock: what it must
\* see to for the transaction to stay sound.
LEMMA Entry ==
    ASSUME LedgerInv, NEW w \in Workers, NEW u \in Users, NEW t \in Transactions, NEW n \in Int,
           tx[w].todo # <<>>, tx[w].todo[1].do # "commit",
           Free(w, u), Take(w, u), tx' = [tx EXCEPT ![w] = t], UNCHANGED committed,
           t.todo = Tail(tx[w].todo), t.delta = Add(tx[w].delta, u, n),
           TxBalances(t), StipendIsForBirth(t), OwesInsideAGift(t),
           t.born = tx[w].born \/ (t.born = tx[w].born \cup {u} /\ u \notin rows),
           n >= 0 \/ (tx[w].todo[1].do = "debit" /\ Seen(w, u) + n >= tx[w].todo[1].floor)
    PROVE  LedgerInv'
  <1>. DEFINE s == tx[w].todo
              old == tx[w].delta
  <1>t. /\ LedgerTypeOK /\ TxOK(w) /\ tx[w] \in Transactions /\ s \in Seq(Statements) /\ old \in Sums
        /\ balance \in Sums /\ NoOne \notin Workers /\ Floor \in Nat
    BY ChipsAssumption DEF LedgerInv, LedgerTypeOK, Transactions
  <1>n. tx'[w] = t /\ rows' = rows /\ balance' = balance
    BY <1>t DEF committed, LedgerTypeOK
  <1>1. LedgerTypeOK'
    BY <1>t DEF LedgerTypeOK, committed, Take
  <1>2. GiftsArriveWhole' /\ LedgerExplainsBalance' /\ StipendsAreForRows'
    BY DEF LedgerInv, GiftsArriveWhole, LedgerExplainsBalance, StipendsAreForRows, committed
  <1>3. locked' = [locked EXCEPT ![u] = w] /\ locked'[u] = w /\ \A v \in Users \ {u} : locked'[v] = locked[v]
    BY <1>t DEF Take, LedgerTypeOK
  <1>4. \A x \in Workers \ {w} : TxOK(x)'
    <2>1. \A x \in Workers \ {w} : tx'[x] = tx[x]
      BY <1>t DEF LedgerTypeOK
    <2>2. \A v \in Users : locked[v] \in Workers \ {w} => locked'[v] = locked[v]
      BY <1>t, <1>3 DEF Free
    <2>. QED
      BY <2>1, <2>2, OthersStand
  <1>5. Script(t.todo)
    BY <1>t, ScriptGoesOn DEF TxOK
  <1>6. \A v \in Users : t.delta[v] = IF v = u THEN old[u] + n ELSE old[v]
    BY <1>t DEF Add, Sums
  <1>7. WritesAreLocked(w)'
    <2>. SUFFICES ASSUME NEW v \in Users
                  PROVE  /\ t.delta[v] # 0 => locked'[v] = w
                         /\ v \in t.born => locked'[v] = w /\ v \notin rows
      BY <1>n DEF WritesAreLocked
    <2>1. CASE v = u
      BY <1>t, <1>3, <2>1 DEF TxOK, WritesAreLocked
    <2>2. CASE v # u
      BY <1>t, <1>3, <1>6, <2>2 DEF TxOK, WritesAreLocked
    <2>. QED
      BY <2>1, <2>2
  <1>8. Solvent(w)'
    <2>1. /\ Len(s) \in Nat /\ Len(t.todo) = Len(s) - 1 /\ Len(s) >= 2
          /\ \A i \in 1 .. Len(s) - 1 : t.todo[i] = s[i + 1]
      BY <1>t, TailOfScript, PlacesInAScript DEF TxOK
    <2>2. \A v \in Users : old[v] < 0 => balance[v] + old[v] >= Floor
      <3>1. Len(s) # 1
        BY <2>1, SmallLengths, Zenon
      <3>. QED
        BY <1>t, <3>1 DEF TxOK, Solvent, KeepsFloor, Seen
    <2>3. ~(Len(t.todo) = 2 /\ t.todo[1].do = "debit")
      <3>1. Len(t.todo) = 2 => Len(s) = 3 /\ t.todo[1] = s[2]
        BY <2>1
      <3>2. Len(s) = 3 => s[2].do \in {"grant", "credit"}
        BY <1>t, PlacesInAScript DEF TxOK
      <3>. QED
        BY <3>1, <3>2
    <2>4. CASE n >= 0
      <3>1. \A v \in Users : t.delta[v] < 0 => balance[v] + t.delta[v] >= Floor
        <4>. TAKE v \in Users
        <4>1. old[v] \in Int /\ balance[v] \in Int
          BY <1>t DEF Sums
        <4>2. t.delta[v] = old[v] + n \/ t.delta[v] = old[v]
          BY <1>6, Zenon
        <4>3. old[v] < 0 => balance[v] + old[v] >= Floor
          BY <2>2
        <4>. QED
          BY <1>t, <2>4, <4>1, <4>2, <4>3
      <3>. QED
        BY <1>n, <2>3, <3>1 DEF Solvent, KeepsFloor, Seen
    <2>5. CASE n < 0 /\ Len(s) = 3
      <3>1. s[1].floor = Floor
        BY <1>t, <2>5, PlacesInAScript DEF TxOK
      <3>2. balance[u] + old[u] + n >= Floor
        BY <2>5, <3>1 DEF Seen
      <3>3. \A v \in Users : t.delta[v] < 0 => balance[v] + t.delta[v] >= Floor
        BY <1>t, <1>6, <2>2, <3>2 DEF Sums
      <3>. QED
        BY <1>n, <2>3, <3>3 DEF Solvent, KeepsFloor, Seen
    <2>6. CASE n < 0 /\ Len(s) = 2
      <3>1. old = None
        BY <1>t, <2>6 DEF TxOK, Solvent
      <3>2. \A v \in Users : t.delta[v] <= 0
        BY <1>6, <2>6, <3>1 DEF None
      <3>3. Len(t.todo) = 1
        BY <2>1, <2>6
      <3>. QED
        BY <1>n, <2>3, <3>2, <3>3, Zenon DEF Solvent, CreditsNobody
    <2>7. n < 0 => Len(s) \in {2, 3}
      <3>1. n < 0 => s[1].do = "debit"
        OBVIOUS
      <3>. QED
        BY <1>t, <3>1, PlacesInAScript DEF TxOK
    <2>. QED
      BY <2>4, <2>5, <2>6, <2>7
  <1>9. TxOK(w)'
    BY <1>n, <1>5, <1>7, <1>8, Zenon DEF TxOK
  <1>. QED
    BY <1>1, <1>2, <1>4, <1>9 DEF LedgerInv
\* A transaction that has nothing yet.
LEMMA FreshTx ==
    ASSUME NEW s \in Seq(Statements)
    PROVE  /\ NoTx \in Transactions /\ [NoTx EXCEPT !.todo = s] \in Transactions
           /\ [NoTx EXCEPT !.todo = s].todo = s /\ [NoTx EXCEPT !.todo = s].owes = 0
           /\ [NoTx EXCEPT !.todo = s].delta = None /\ [NoTx EXCEPT !.todo = s].written = None
           /\ [NoTx EXCEPT !.todo = s].stipends = None /\ [NoTx EXCEPT !.todo = s].granted = None
           /\ [NoTx EXCEPT !.todo = s].lifted = {} /\ [NoTx EXCEPT !.todo = s].born = {}
           /\ None \in Sums
  <1>1. None \in Sums
    BY DEF None, Sums
  <1>2. <<>> \in Seq(Statements) /\ {} \in SUBSET Users /\ 0 \in Int
    OBVIOUS
  <1>3. NoTx \in Transactions
    BY <1>1, <1>2, Zenon DEF NoTx, Transactions
  <1>4. [NoTx EXCEPT !.todo = s] \in Transactions
    BY <1>3, Zenon DEF Transactions
  <1>6. /\ [NoTx EXCEPT !.todo = s].todo = s /\ [NoTx EXCEPT !.todo = s].owes = 0
        /\ [NoTx EXCEPT !.todo = s].delta = None /\ [NoTx EXCEPT !.todo = s].written = None
        /\ [NoTx EXCEPT !.todo = s].stipends = None /\ [NoTx EXCEPT !.todo = s].granted = None
        /\ [NoTx EXCEPT !.todo = s].lifted = {} /\ [NoTx EXCEPT !.todo = s].born = {}
    BY DEF NoTx
  <1>. QED
    BY <1>1, <1>3, <1>4, <1>6, Zenon

\* A transaction that begins, with an operation to run or with what is left of one
\* after a COMMIT, is sound.
LEMMA FreshIsSound ==
    ASSUME LedgerTypeOK', NEW w \in Workers, NEW s \in Seq(Statements), Script(s),
           Len(s) = 2 => s[1].owes = 0,
           tx'[w].todo = s, tx'[w] = [NoTx EXCEPT !.todo = s] \/ tx'[w] = NoTx
    PROVE  TxOK(w)'
  <1>1. /\ tx'[w].todo = s /\ tx'[w].owes = 0 /\ tx'[w].delta = None /\ tx'[w].written = None
        /\ tx'[w].stipends = None /\ tx'[w].granted = None /\ tx'[w].lifted = {}
        /\ tx'[w].born = {}
    BY SMTT(30) DEF NoTx
  <1>2. OwesInsideAGift(tx'[w])
    BY <1>1 DEF OwesInsideAGift
  <1>3. TxBalances(tx'[w]) /\ StipendIsForBirth(tx'[w])
    BY <1>1 DEF TxBalances, StipendIsForBirth, None
  <1>4. WritesAreLocked(w)' /\ Solvent(w)'
    BY <1>1 DEF WritesAreLocked, Solvent, KeepsFloor, None
  <1>. QED
    BY <1>1, <1>2, <1>3, <1>4, Zenon DEF TxOK

\* Dropping a transaction gives its locks back and leaves nothing of it.
LEMMA DoneIsSound ==
    ASSUME LedgerInv, NEW w \in Workers, Done(w), UNCHANGED committed
    PROVE  LedgerInv'
  <1>t. LedgerTypeOK /\ <<>> \in Seq(Statements)
    BY DEF LedgerInv
  <1>1. LedgerTypeOK'
    <2>1. NoTx \in Transactions
      BY <1>t, FreshTx
    <2>2. locked' \in [Users -> Workers \cup {NoOne}]
      BY <1>t DEF Done, LedgerTypeOK
    <2>3. tx' \in [Workers -> Transactions]
      BY <1>t, <2>1 DEF Done, LedgerTypeOK
    <2>. QED
      BY <1>t, <2>2, <2>3 DEF LedgerTypeOK, committed
  <1>2. GiftsArriveWhole' /\ LedgerExplainsBalance' /\ StipendsAreForRows'
    BY DEF LedgerInv, GiftsArriveWhole, LedgerExplainsBalance, StipendsAreForRows, committed
  <1>3. \A x \in Workers \ {w} : TxOK(x)'
    <2>1. \A x \in Workers \ {w} : tx'[x] = tx[x]
      BY <1>t DEF Done, LedgerTypeOK
    <2>2. \A v \in Users : locked[v] \in Workers \ {w} => locked'[v] = locked[v]
      BY <1>t DEF Done, LedgerTypeOK
    <2>. QED
      BY <2>1, <2>2, OthersStand
  <1>4. tx'[w] = NoTx /\ tx'[w].todo = <<>>
    BY <1>t DEF Done, LedgerTypeOK, NoTx
  <1>5. Script(<<>>) /\ Len(<<>>) # 2
    BY DEF Script
  <1>6. TxOK(w)'
    BY <1>t, <1>1, <1>4, <1>5, FreshIsSound, Zenon
  <1>. QED
    BY <1>1, <1>2, <1>3, <1>6 DEF LedgerInv

\* COMMIT lands a sound transaction: the others hold their own rows, so nothing
\* they read moves, and what lands was entered on both sides.
LEMMA CommitIsSound ==
    ASSUME LedgerInv, NEW w \in Workers, CommitTx(w)
    PROVE  LedgerInv'
  <1>. DEFINE t == tx[w]
              s == tx[w].todo
  <1>t. /\ LedgerTypeOK /\ TxOK(w) /\ t \in Transactions /\ s \in Seq(Statements) /\ s # <<>>
        /\ t.delta \in Sums /\ t.written \in Sums /\ t.stipends \in Sums /\ t.granted \in Sums
        /\ t.lifted \in SUBSET Users /\ t.born \in SUBSET Users
    BY DEF LedgerInv, LedgerTypeOK, Transactions, CommitTx, Runs
  <1>s. /\ Head(s) = s[1] /\ s[1].do = "commit" /\ Tail(s) \in Seq(Statements)
        /\ Len(s) \in {1, 3} /\ Len(Tail(s)) = Len(s) - 1 /\ s[1].owes = 0
        /\ \A i \in 1 .. Len(s) - 1 : Tail(s)[i] = s[i + 1]
    <2>1. /\ Head(s) = s[1] /\ Tail(s) \in Seq(Statements) /\ Len(Tail(s)) = Len(s) - 1
          /\ \A i \in 1 .. Len(s) - 1 : Tail(s)[i] = s[i + 1]
      BY <1>t, TailOfScript
    <2>2. s[1].do = "commit"
      BY <2>1 DEF CommitTx, Runs
    <2>3. Len(s) \in {1, 3} /\ s[1].owes = 0
      BY <1>t, <2>2, PlacesInAScript DEF TxOK
    <2>. QED
      BY <2>1, <2>2, <2>3
  <1>1. LedgerTypeOK'
    <2>1. [NoTx EXCEPT !.todo = Tail(s)] \in Transactions
      BY <1>t, <1>s, FreshTx
    <2>2. tx' \in [Workers -> Transactions]
      BY <1>t, <2>1 DEF CommitTx, LedgerTypeOK
    <2>3. /\ rows' \in SUBSET Users /\ balance' \in Sums /\ ledger' \in Sums /\ stipends' \in Sums
          /\ granted' \in Sums /\ lifted' \in SUBSET Users
      BY <1>t, SMTT(30) DEF CommitTx, LedgerTypeOK, Seen, Sums
    <2>4. in_transit' \in Int
      BY <1>t DEF CommitTx, LedgerTypeOK, Transactions
    <2>5. locked' \in [Users -> Workers \cup {NoOne}]
      BY <1>t DEF CommitTx, LedgerTypeOK
    <2>. QED
      BY <2>2, <2>3, <2>4, <2>5 DEF LedgerTypeOK
  <1>2. GiftsArriveWhole'
    <2>1. t.owes = 0
      <3>1. Len(s) # 2
        BY <1>s, SmallLengths, Zenon
      <3>. QED
        BY <1>t, <3>1, Zenon DEF TxOK, OwesInsideAGift
    <2>. QED
      BY <2>1 DEF CommitTx, LedgerInv, GiftsArriveWhole
  <1>3. LedgerExplainsBalance'
    <2>. SUFFICES ASSUME NEW u \in Users
                  PROVE  /\ ledger'[u] + granted'[u] <= balance'[u]
                         /\ u \notin lifted' => ledger'[u] + granted'[u] = balance'[u]
      BY DEF LedgerExplainsBalance
    <2>1. /\ balance'[u] = balance[u] + t.delta[u] /\ ledger'[u] = ledger[u] + t.written[u]
          /\ granted'[u] = granted[u] + t.granted[u] /\ lifted' = lifted \cup t.lifted
      BY DEF CommitTx, Seen
    <2>2. /\ t.written[u] + t.granted[u] <= t.delta[u]
          /\ u \notin t.lifted => t.written[u] + t.granted[u] = t.delta[u]
      BY <1>t DEF TxOK, TxBalances
    <2>3. /\ ledger[u] + granted[u] <= balance[u]
          /\ u \notin lifted => ledger[u] + granted[u] = balance[u]
      BY DEF LedgerInv, LedgerExplainsBalance
    <2>4. /\ t.written[u] \in Int /\ t.granted[u] \in Int /\ t.delta[u] \in Int
          /\ ledger[u] \in Int /\ granted[u] \in Int /\ balance[u] \in Int
      BY <1>t DEF LedgerTypeOK, Sums
    <2>. QED
      BY <2>1, <2>2, <2>3, <2>4
  <1>4. StipendsAreForRows'
    <2>. SUFFICES ASSUME NEW u \in Users
                  PROVE  stipends'[u] = 0 \/ (stipends'[u] = 1 /\ u \in rows')
      BY DEF StipendsAreForRows
    <2>1. stipends'[u] = stipends[u] + t.stipends[u] /\ rows' = rows \cup t.born
      BY DEF CommitTx
    <2>2. t.stipends[u] = 0 \/ (t.stipends[u] = 1 /\ u \in t.born)
      BY <1>t DEF TxOK, StipendIsForBirth
    <2>3. u \in t.born => u \notin rows
      BY <1>t DEF TxOK, WritesAreLocked
    <2>4. stipends[u] = 0 \/ (stipends[u] = 1 /\ u \in rows)
      BY DEF LedgerInv, StipendsAreForRows
    <2>. QED
      BY <2>1, <2>2, <2>3, <2>4
  <1>5. ASSUME NEW x \in Workers \ {w}
        PROVE  TxOK(x)'
    <2>1. TxOK(x) /\ tx'[x] = tx[x]
      BY <1>t DEF LedgerInv, CommitTx, LedgerTypeOK
    <2>2. ASSUME NEW u \in Users, locked[u] = x
          PROVE  locked'[u] = x /\ balance'[u] = balance[u] /\ (u \in rows' => u \in rows)
      <3>1. locked'[u] = x
        BY <2>2 DEF CommitTx
      <3>2. t.delta[u] = 0 /\ u \notin t.born
        BY <1>t, <2>2 DEF TxOK, WritesAreLocked
      <3>3. balance[u] \in Int
        BY <1>t DEF LedgerTypeOK, Sums
      <3>. QED
        BY <3>1, <3>2, <3>3 DEF CommitTx, Seen
    <2>3. WritesAreLocked(x)'
      BY <2>1, <2>2 DEF TxOK, WritesAreLocked
    <2>4. KeepsFloor(x) => KeepsFloor(x)'
      <3>. SUFFICES ASSUME KeepsFloor(x), NEW u \in Users, tx'[x].delta[u] < 0
                    PROVE  balance'[u] + tx'[x].delta[u] >= Floor
        BY DEF KeepsFloor, Seen
      <3>0. tx[x].delta[u] \in Int
        BY <1>t DEF LedgerTypeOK, Transactions, Sums
      <3>1. locked[u] = x
        BY <2>1, <3>0 DEF TxOK, WritesAreLocked
      <3>. QED
        BY <2>1, <2>2, <3>1 DEF KeepsFloor, Seen
    <2>5. Solvent(x)'
      BY <2>1, <2>4, Zenon DEF TxOK, Solvent, CreditsNobody
    <2>. QED
      BY <2>1, <2>3, <2>5, Zenon DEF TxOK
  <1>6. TxOK(w)'
    <2>1. tx'[w] = [NoTx EXCEPT !.todo = Tail(s)] /\ tx'[w].todo = Tail(s)
      BY <1>t, <1>s, FreshTx DEF CommitTx, LedgerTypeOK
    <2>2. Script(Tail(s))
      BY <1>t, ScriptGoesOn DEF TxOK
    <2>3. Len(Tail(s)) = 2 => Tail(s)[1].owes = 0
      <3>. SUFFICES ASSUME Len(s) = 3
                    PROVE  s[2].owes = 0
        BY <1>s
      <3>1. s[1].owes + s[2].owes = 0
        BY <1>t, PlacesInAScript DEF TxOK
      <3>2. s[2].owes \in Int
        <4>1. s[2] \in Statements
          BY <1>t
        <4>. QED
          BY <4>1 DEF Statements
      <3>. QED
        BY <1>s, <3>1, <3>2
    <2>. QED
      BY <1>1, <1>s, <2>1, <2>2, <2>3, FreshIsSound
  <1>. QED
    BY <1>1, <1>2, <1>3, <1>4, <1>5, <1>6, Zenon DEF LedgerInv
\* A statement and its COMMIT, and what the statement constructors give.
LEMMA OneStatement ==
    ASSUME NEW a \in Statements, a.do # "commit", a.owes = 0
    PROVE  <<a, Commit>> \in Seq(Statements) /\ Script(<<a, Commit>>) /\ <<a, Commit>>[1].owes = 0
  <1>1. Commit \in Statements /\ Commit.do = "commit" /\ Commit.owes = 0
    BY DEF Commit, Stmt, Statements, Dos
  <1>. DEFINE s == <<a, Commit>>
  <1>2. s \in Seq(Statements) /\ Len(s) = 2 /\ s[1] = a /\ s[2] = Commit
    BY <1>1
  <1>. HIDE DEF s
  <1>3. Script(s)
    BY <1>1, <1>2 DEF Script
  <1>. QED
    BY <1>2, <1>3 DEF s

\* Every operation is a script.
LEMMA OperationsAreScripts ==
    ASSUME LedgerTypeOK, NEW op \in Operations
    PROVE  op \in Seq(Statements) /\ Script(op) /\ (Len(op) = 2 => op[1].owes = 0)
  <1>c. Commit \in Statements /\ Commit.do = "commit" /\ Commit.owes = 0
    BY DEF Commit, Stmt, Statements, Dos
  <1>e. \A u \in Users : Ensure(u) \in Statements /\ Ensure(u).do = "ensure" /\ Ensure(u).owes = 0
    BY DEF Ensure, Stmt, Statements, Dos
  <1>a. Amounts \subseteq Nat /\ Floor \in Nat /\ 0 \in Nat /\ \A a \in Amounts : Share[a] \in Nat
    BY ChipsAssumption
  <1>1. ASSUME NEW u \in Users, op = <<Ensure(u), Commit>>
        PROVE  op \in Seq(Statements) /\ Script(op) /\ op[1].owes = 0
    BY <1>1, <1>e, OneStatement
  <1>2. ASSUME NEW u \in Users, NEW a \in Amounts, op = <<Credit(u, a), Commit>>
        PROVE  op \in Seq(Statements) /\ Script(op) /\ op[1].owes = 0
    <2>1. Credit(u, a) \in Statements /\ Credit(u, a).do = "credit" /\ Credit(u, a).owes = 0
      BY <1>a DEF Credit, Stmt, Statements, Dos
    <2>. QED
      BY <1>2, <2>1, OneStatement
  <1>3. ASSUME NEW u \in Users, NEW a \in Amounts, NEW f \in {0, Floor}, op = <<Debit(u, a, f), Commit>>
        PROVE  op \in Seq(Statements) /\ Script(op) /\ op[1].owes = 0
    <2>1. Debit(u, a, f) \in Statements /\ Debit(u, a, f).do = "debit" /\ Debit(u, a, f).owes = 0
      BY <1>a DEF Debit, Stmt, Statements, Dos
    <2>. QED
      BY <1>3, <2>1, OneStatement
  <1>4. ASSUME NEW u \in rows, op = <<Restore(u), Commit>>
        PROVE  op \in Seq(Statements) /\ Script(op) /\ op[1].owes = 0
    <2>1. Restore(u) \in Statements /\ Restore(u).do = "restore" /\ Restore(u).owes = 0
      BY DEF Restore, Stmt, Statements, Dos, LedgerTypeOK
    <2>. QED
      BY <1>4, <2>1, OneStatement
  <1>5. ASSUME NEW u \in Users, NEW a \in Amounts, op = <<Ensure(u), Commit, Grant(u, a), Commit>>
        PROVE  op \in Seq(Statements) /\ Script(op) /\ Len(op) # 2
    <2>1. Grant(u, a) \in Statements /\ Grant(u, a).do = "grant" /\ Grant(u, a).owes = 0
      BY <1>a DEF Grant, Stmt, Statements, Dos
    <2>2. /\ op \in Seq(Statements) /\ Len(op) = 4 /\ op[1] = Ensure(u) /\ op[2] = Commit
          /\ op[3] = Grant(u, a) /\ op[4] = Commit
      BY <1>5, <1>c, <1>e, <2>1
    <2>3. Script(op)
      BY <1>c, <1>e, <2>1, <2>2 DEF Script
    <2>. QED
      BY <2>2, <2>3
  <1>6. ASSUME NEW p \in Users, NEW q \in Users, NEW a \in Amounts, NEW share \in Nat,
               op = transfer_gift(p, q, a, share)
        PROVE  op \in Seq(Statements) /\ Script(op) /\ Len(op) # 2
    <2>. DEFINE d == Stmt("debit", p, a, Floor, share)
                c == Stmt("credit", q, share, 0, -share)
    <2>1. /\ d \in Statements /\ d.do = "debit" /\ d.floor = Floor /\ d.owes = share
          /\ c \in Statements /\ c.do = "credit" /\ c.owes = -share
      BY <1>a DEF Stmt, Statements, Dos
    <2>2. /\ op \in Seq(Statements) /\ Len(op) = 5 /\ op[1] = Ensure(p) /\ op[2] = Ensure(q)
          /\ op[3] = d /\ op[4] = c /\ op[5] = Commit
      <3>. HIDE DEF d, c
      <3>1. op = <<Ensure(p), Ensure(q), d, c, Commit>>
        BY <1>6 DEF transfer_gift, d, c
      <3>. QED
        BY <1>c, <1>e, <2>1, <3>1
    <2>. HIDE DEF d, c
    <2>3. Script(op)
      BY <1>c, <1>e, <2>1, <2>2 DEF Script
    <2>. QED
      BY <2>2, <2>3
  <1>7. \/ \E u \in Users : op = <<Ensure(u), Commit>>
        \/ \E u \in Users, a \in Amounts : op = <<Credit(u, a), Commit>>
        \/ \E u \in Users, a \in Amounts, f \in {0, Floor} : op = <<Debit(u, a, f), Commit>>
        \/ \E u \in Users, a \in Amounts : op = <<Ensure(u), Commit, Grant(u, a), Commit>>
        \/ \E u \in rows : op = <<Restore(u), Commit>>
        \/ \E p \in Users \X Users, a \in Amounts :
              op = transfer_gift(p[1], p[2], a, a) \/ op = transfer_gift(p[1], p[2], a, Share[a])
    BY SMTT(30) DEF Operations, Pairs
  <1>. QED
    BY <1>1, <1>2, <1>3, <1>4, <1>5, <1>6, <1>7, <1>a

\* An operation begins.
LEMMA BeginIsSound ==
    ASSUME LedgerInv, NEW w \in Workers, NEW op \in Operations, Begin(w, op)
    PROVE  LedgerInv'
  <1>t. /\ LedgerTypeOK /\ op \in Seq(Statements) /\ Script(op) /\ (Len(op) = 2 => op[1].owes = 0)
        /\ UNCHANGED committed /\ locked' = locked
    BY OperationsAreScripts DEF LedgerInv, Begin
  <1>1. LedgerTypeOK'
    <2>1. [NoTx EXCEPT !.todo = op] \in Transactions
      BY <1>t, FreshTx
    <2>2. tx' \in [Workers -> Transactions]
      BY <1>t, <2>1 DEF Begin, LedgerTypeOK
    <2>. QED
      BY <1>t, <2>2 DEF LedgerTypeOK, committed
  <1>2. GiftsArriveWhole' /\ LedgerExplainsBalance' /\ StipendsAreForRows'
    BY <1>t DEF LedgerInv, GiftsArriveWhole, LedgerExplainsBalance, StipendsAreForRows, committed
  <1>3. \A x \in Workers \ {w} : TxOK(x)'
    <2>1. \A x \in Workers \ {w} : tx'[x] = tx[x]
      BY <1>t DEF Begin, LedgerTypeOK
    <2>. QED
      BY <1>t, <2>1, OthersStand
  <1>4. tx'[w] = [NoTx EXCEPT !.todo = op] /\ tx'[w].todo = op
    BY <1>t, FreshTx DEF Begin, LedgerTypeOK
  <1>5. TxOK(w)'
    BY <1>t, <1>1, <1>4, FreshIsSound
  <1>. QED
    BY <1>1, <1>2, <1>3, <1>5 DEF LedgerInv
-----------------------------------------------------------------------------
(* Statements *)

\* What a statement knows of the transaction it runs in.
LEMMA Running ==
    ASSUME LedgerInv, NEW w \in Workers, NEW do, Runs(w, do)
    PROVE  /\ tx[w] \in Transactions /\ tx[w].todo \in Seq(Statements) /\ tx[w].todo # <<>>
           /\ Head(tx[w].todo) = tx[w].todo[1] /\ tx[w].todo[1] \in Statements /\ tx[w].todo[1].do = do
           /\ Tail(tx[w].todo) \in Seq(Statements)
           /\ tx[w].delta \in Sums /\ tx[w].written \in Sums /\ tx[w].stipends \in Sums
           /\ tx[w].granted \in Sums /\ tx[w].lifted \in SUBSET Users /\ tx[w].owes \in Int
           /\ tx[w].born \in SUBSET Users /\ TxOK(w) /\ balance \in Sums
  <1>1. tx[w] \in Transactions /\ tx[w].todo # <<>> /\ Head(tx[w].todo).do = do /\ TxOK(w) /\ balance \in Sums
    BY DEF LedgerInv, LedgerTypeOK, Runs
  <1>2. /\ tx[w].todo \in Seq(Statements)
        /\ tx[w].delta \in Sums /\ tx[w].written \in Sums /\ tx[w].stipends \in Sums
        /\ tx[w].granted \in Sums /\ tx[w].lifted \in SUBSET Users /\ tx[w].owes \in Int
        /\ tx[w].born \in SUBSET Users
    BY <1>1 DEF Transactions
  <1>. QED
    BY <1>1, <1>2, TailOfScript

\* Adding to a sum.
LEMMA AddIs ==
    ASSUME NEW f \in Sums, NEW u \in Users, NEW n \in Int
    PROVE  Add(f, u, n) \in Sums /\ \A v \in Users : Add(f, u, n)[v] = IF v = u THEN f[v] + n ELSE f[v]
  BY DEF Add, Sums

\* Who has run a statement owes what the rest will pay.
LEMMA OwesGoesOn ==
    ASSUME LedgerInv, NEW w \in Workers, NEW t \in Transactions, tx[w].todo # <<>>,
           tx[w].todo[1].do # "commit", t.todo = Tail(tx[w].todo),
           \/ t.owes = tx[w].owes + tx[w].todo[1].owes
           \/ t.owes = tx[w].owes /\ tx[w].todo[1].do \notin {"debit", "credit"}
    PROVE  OwesInsideAGift(t)
  <1>. DEFINE s == tx[w].todo
  <1>t. /\ TxOK(w) /\ s \in Seq(Statements) /\ Script(s) /\ OwesInsideAGift(tx[w]) /\ tx[w].owes \in Int
    BY DEF LedgerInv, LedgerTypeOK, Transactions, TxOK
  <1>1. /\ Len(s) \in Nat /\ Len(t.todo) = Len(s) - 1 /\ Len(s) >= 2
        /\ \A i \in 1 .. Len(s) - 1 : t.todo[i] = s[i + 1]
    BY <1>t, TailOfScript, PlacesInAScript
  <1>2. s[1] \in Statements /\ s[1].owes \in Int
    <2>1. s[1] \in Statements
      BY <1>t, TailOfScript
    <2>. QED
      BY <2>1 DEF Statements
  <1>3. t.owes = tx[w].owes + s[1].owes
    <2>1. s[1].do \notin {"debit", "credit"} => s[1].owes = 0
      BY <1>t, PlacesInAScript
    <2>. QED
      BY <1>t, <1>2, <2>1
  <1>4. CASE Len(s) = 2
    <2>1. t.owes = 0
      BY <1>t, <1>3, <1>4 DEF OwesInsideAGift
    <2>2. Len(t.todo) # 2
      BY <1>1, <1>4
    <2>. QED
      BY <2>1, <2>2, Zenon DEF OwesInsideAGift
  <1>5. CASE Len(s) = 3
    <2>1. tx[w].owes = 0
      BY <1>t, <1>5 DEF OwesInsideAGift
    <2>2. Len(t.todo) = 2 /\ t.todo[1] = s[2]
      BY <1>1, <1>5
    <2>3. s[1].owes + s[2].owes = 0
      BY <1>t, <1>5, PlacesInAScript
    <2>4. t.owes = s[1].owes
      BY <1>2, <1>3, <2>1
    <2>. QED
      BY <2>2, <2>3, <2>4, Zenon DEF OwesInsideAGift
  <1>6. CASE Len(s) >= 4
    <2>1. Len(s) # 2 /\ Len(t.todo) # 2
      BY <1>1, <1>6, SmallLengths, Zenon
    <2>2. tx[w].owes = 0
      BY <1>t, <2>1, Zenon DEF OwesInsideAGift
    <2>3. s[1].do = "ensure"
      BY <1>t, <1>1, <1>6 DEF Script
    <2>4. s[1].owes = 0
      BY <1>t, <2>3, PlacesInAScript
    <2>5. t.owes = 0
      BY <1>3, <2>2, <2>4
    <2>. QED
      BY <2>1, <2>5, Zenon DEF OwesInsideAGift
  <1>7. Len(s) = 2 \/ Len(s) = 3 \/ Len(s) >= 4
    BY <1>1, SmallLengths, Zenon
  <1>. QED
    BY <1>4, <1>5, <1>6, <1>7, Zenon

\* A statement with its ledger row: a debit, a credit, a floor restore.
LEMMA WriteIsSound ==
    ASSUME LedgerInv, NEW w \in Workers, NEW u \in Users, NEW n \in Int, NEW do \in Dos \ {"commit"},
           Runs(w, do), Free(w, u), Take(w, u), Write(w, u, n), UNCHANGED committed,
           n >= 0 \/ (do = "debit" /\ Seen(w, u) + n >= tx[w].todo[1].floor)
    PROVE  LedgerInv'
  <1>. DEFINE old == tx[w]
              born == IF Exists(w, u) THEN old.born ELSE old.born \cup {u}
              t == [old EXCEPT !.todo = Tail(old.todo), !.delta = Add(old.delta, u, n),
                               !.written = Add(old.written, u, n),
                               !.owes = old.owes + Head(old.todo).owes, !.born = born]
  <1>t. /\ old \in Transactions /\ old.todo \in Seq(Statements) /\ old.todo # <<>>
        /\ Head(old.todo) = old.todo[1] /\ old.todo[1] \in Statements /\ old.todo[1].do = do
        /\ Tail(old.todo) \in Seq(Statements)
        /\ old.delta \in Sums /\ old.written \in Sums /\ old.stipends \in Sums
        /\ old.granted \in Sums /\ old.lifted \in SUBSET Users /\ old.owes \in Int
        /\ old.born \in SUBSET Users /\ TxOK(w) /\ balance \in Sums
    BY Running
  <1>1. tx' = [tx EXCEPT ![w] = t]
    BY DEF Write
  <1>2. /\ born \in SUBSET Users /\ old.born \subseteq born
        /\ born = old.born \/ (born = old.born \cup {u} /\ u \notin rows)
    BY <1>t DEF Exists
  <1>3. /\ Add(old.delta, u, n) \in Sums /\ Add(old.written, u, n) \in Sums
        /\ \A v \in Users : Add(old.delta, u, n)[v] = IF v = u THEN old.delta[v] + n ELSE old.delta[v]
        /\ \A v \in Users : Add(old.written, u, n)[v] = IF v = u THEN old.written[v] + n ELSE old.written[v]
    <2>1. old.delta \in Sums /\ old.written \in Sums
      BY <1>t
    <2>. HIDE DEF old
    <2>. QED
      BY <2>1, AddIs
  <1>4. old.owes + Head(old.todo).owes \in Int
    BY <1>t DEF Statements
  <1>. HIDE DEF born
  <1>5. t \in Transactions
    BY <1>t, <1>2, <1>3, <1>4, Zenon DEF Transactions
  <1>6. /\ t.todo = Tail(old.todo) /\ t.delta = Add(old.delta, u, n) /\ t.written = Add(old.written, u, n)
        /\ t.owes = old.owes + old.todo[1].owes /\ t.born = born
        /\ t.stipends = old.stipends /\ t.granted = old.granted /\ t.lifted = old.lifted
    BY <1>t DEF Transactions
  <1>. HIDE DEF t
  <1>7. TxBalances(t)
    <2>. SUFFICES ASSUME NEW v \in Users
                  PROVE  /\ t.written[v] + t.granted[v] <= t.delta[v]
                         /\ v \notin t.lifted => t.written[v] + t.granted[v] = t.delta[v]
      BY DEF TxBalances
    <2>1. /\ old.written[v] + old.granted[v] <= old.delta[v]
          /\ v \notin old.lifted => old.written[v] + old.granted[v] = old.delta[v]
      BY <1>t DEF TxOK, TxBalances
    <2>2. /\ old.written[v] \in Int /\ old.granted[v] \in Int /\ old.delta[v] \in Int
      BY <1>t DEF Sums
    <2>3. \/ t.delta[v] = old.delta[v] + n /\ t.written[v] = old.written[v] + n
          \/ t.delta[v] = old.delta[v] /\ t.written[v] = old.written[v]
      BY <1>3, <1>6, Zenon
    <2>. QED
      BY <1>6, <2>1, <2>2, <2>3
  <1>8. StipendIsForBirth(t)
    BY <1>t, <1>2, <1>6 DEF TxOK, StipendIsForBirth
  <1>9. OwesInsideAGift(t)
    BY <1>t, <1>5, <1>6, OwesGoesOn
  <1>10. tx[w].todo[1].do # "commit"
    BY <1>t
  <1>. QED
    BY <1>t, <1>1, <1>2, <1>5, <1>6, <1>7, <1>8, <1>9, <1>10, Entry
\* ensure_in.
LEMMA EnsureIsSound ==
    ASSUME LedgerInv, NEW w \in Workers, NEW u \in Users, EnsureStmt(w, u)
    PROVE  LedgerInv'
  <1>. DEFINE old == tx[w]
  <1>t. /\ old \in Transactions /\ old.todo \in Seq(Statements) /\ old.todo # <<>>
        /\ Head(old.todo) = old.todo[1] /\ old.todo[1] \in Statements /\ old.todo[1].do = "ensure"
        /\ Tail(old.todo) \in Seq(Statements)
        /\ old.delta \in Sums /\ old.written \in Sums /\ old.stipends \in Sums
        /\ old.granted \in Sums /\ old.lifted \in SUBSET Users /\ old.owes \in Int
        /\ old.born \in SUBSET Users /\ TxOK(w) /\ balance \in Sums
    BY Running DEF EnsureStmt
  <1>c. /\ UNCHANGED committed /\ LedgerTypeOK /\ Initial \in Int /\ Initial >= 0
        /\ tx[w].todo[1].do # "commit" /\ tx[w].todo[1].do \notin {"debit", "credit"}
    BY <1>t, ChipsAssumption DEF EnsureStmt, LedgerInv
  <1>1. CASE Exists(w, u) /\ Skip(w) /\ UNCHANGED locked
    <2>. DEFINE t == [old EXCEPT !.todo = Tail(old.todo)]
    <2>1. tx' = [tx EXCEPT ![w] = t]
      BY <1>1 DEF Skip
    <2>2. t \in Transactions
      BY <1>t, Zenon DEF Transactions
    <2>3. /\ t.todo = Tail(old.todo) /\ t.delta = old.delta /\ t.written = old.written
          /\ t.owes = old.owes /\ t.born = old.born
          /\ t.stipends = old.stipends /\ t.granted = old.granted /\ t.lifted = old.lifted
      BY <1>t DEF Transactions
    <2>. HIDE DEF t
    <2>4. tx'[w] = t /\ rows' = rows /\ balance' = balance /\ locked' = locked
          /\ \A x \in Workers \ {w} : tx'[x] = tx[x]
      BY <1>c, <1>1, <2>1 DEF LedgerTypeOK, committed
    <2>5. LedgerTypeOK'
      BY <1>c, <1>1, <2>1, <2>2 DEF LedgerTypeOK, committed
    <2>6. GiftsArriveWhole' /\ LedgerExplainsBalance' /\ StipendsAreForRows'
      BY <1>c DEF LedgerInv, GiftsArriveWhole, LedgerExplainsBalance, StipendsAreForRows, committed
    <2>7. \A x \in Workers \ {w} : TxOK(x)'
      BY <1>c, <2>4, OthersStand
    <2>8. Script(t.todo)
      BY <1>t, <2>3, ScriptGoesOn DEF TxOK
    <2>9. OwesInsideAGift(t)
      BY <1>t, <1>c, <2>2, <2>3, OwesGoesOn
    <2>10. TxBalances(t) /\ StipendIsForBirth(t)
      BY <1>t, <2>3 DEF TxOK, TxBalances, StipendIsForBirth
    <2>11. WritesAreLocked(w)'
      BY <1>t, <2>3, <2>4 DEF TxOK, WritesAreLocked
    <2>12. KeepsFloor(w)'
      <3>1. Len(old.todo) \in Nat /\ Len(old.todo) >= 2
        BY <1>t, <1>c, TailOfScript, PlacesInAScript DEF TxOK
      <3>2. Len(old.todo) # 1
        BY <3>1, SmallLengths, Zenon
      <3>. QED
        BY <1>t, <2>3, <2>4, <3>2 DEF TxOK, Solvent, KeepsFloor, Seen
    <2>13. ~(Len(t.todo) = 2 /\ t.todo[1].do = "debit")
      <3>1. Len(t.todo) = 2 => Len(old.todo) = 3 /\ t.todo[1] = old.todo[2]
        BY <1>t, <2>3, TailOfScript
      <3>2. Len(old.todo) = 3 => old.todo[2].do \in {"grant", "credit"}
        BY <1>t, PlacesInAScript DEF TxOK
      <3>. QED
        BY <3>1, <3>2
    <2>14. TxOK(w)'
      BY <2>4, <2>8, <2>9, <2>10, <2>11, <2>12, <2>13, Zenon DEF TxOK, Solvent
    <2>. QED
      BY <2>5, <2>6, <2>7, <2>14 DEF LedgerInv
  <1>2. CASE ~Exists(w, u) /\ ~(Skip(w) /\ Exists(w, u))
    <2>. DEFINE t == [old EXCEPT !.todo = Tail(old.todo), !.delta = Add(old.delta, u, Initial),
                                 !.written = Add(old.written, u, Initial),
                                 !.stipends = Add(old.stipends, u, 1), !.born = old.born \cup {u}]
    <2>1. tx' = [tx EXCEPT ![w] = t] /\ Free(w, u) /\ Take(w, u)
      BY <1>2, Zenon DEF EnsureStmt
    <2>2. u \notin old.born /\ u \notin rows
      BY <1>2 DEF Exists
    <2>3. /\ Add(old.delta, u, Initial) \in Sums /\ Add(old.written, u, Initial) \in Sums
          /\ Add(old.stipends, u, 1) \in Sums
          /\ \A v \in Users : Add(old.delta, u, Initial)[v] = IF v = u THEN old.delta[v] + Initial ELSE old.delta[v]
          /\ \A v \in Users : Add(old.written, u, Initial)[v] = IF v = u THEN old.written[v] + Initial ELSE old.written[v]
          /\ \A v \in Users : Add(old.stipends, u, 1)[v] = IF v = u THEN old.stipends[v] + 1 ELSE old.stipends[v]
      <3>1. old.delta \in Sums /\ old.written \in Sums /\ old.stipends \in Sums /\ Initial \in Int
        BY <1>t, <1>c
      <3>. HIDE DEF old
      <3>2. /\ Add(old.delta, u, Initial) \in Sums
            /\ \A v \in Users : Add(old.delta, u, Initial)[v] = IF v = u THEN old.delta[v] + Initial ELSE old.delta[v]
        BY <3>1, AddIs
      <3>3. /\ Add(old.written, u, Initial) \in Sums
            /\ \A v \in Users : Add(old.written, u, Initial)[v] = IF v = u THEN old.written[v] + Initial ELSE old.written[v]
        BY <3>1, AddIs
      <3>4. /\ Add(old.stipends, u, 1) \in Sums
            /\ \A v \in Users : Add(old.stipends, u, 1)[v] = IF v = u THEN old.stipends[v] + 1 ELSE old.stipends[v]
        BY <3>1, AddIs
      <3>. QED
        BY <3>2, <3>3, <3>4, Zenon
    <2>4. t \in Transactions
      <3>1. old.born \cup {u} \in SUBSET Users
        BY <1>t
      <3>. QED
        BY <1>t, <2>3, <3>1, Zenon DEF Transactions
    <2>5. /\ t.todo = Tail(old.todo) /\ t.delta = Add(old.delta, u, Initial)
          /\ t.written = Add(old.written, u, Initial)
          /\ t.stipends = Add(old.stipends, u, 1) /\ t.born = old.born \cup {u}
          /\ t.owes = old.owes /\ t.granted = old.granted /\ t.lifted = old.lifted
      BY <1>t DEF Transactions
    <2>. HIDE DEF t
    <2>6. TxBalances(t)
      <3>. SUFFICES ASSUME NEW v \in Users
                    PROVE  /\ t.written[v] + t.granted[v] <= t.delta[v]
                           /\ v \notin t.lifted => t.written[v] + t.granted[v] = t.delta[v]
        BY DEF TxBalances
      <3>1. /\ old.written[v] + old.granted[v] <= old.delta[v]
            /\ v \notin old.lifted => old.written[v] + old.granted[v] = old.delta[v]
        BY <1>t DEF TxOK, TxBalances
      <3>2. /\ old.written[v] \in Int /\ old.granted[v] \in Int /\ old.delta[v] \in Int
        BY <1>t DEF Sums
      <3>3. \/ t.delta[v] = old.delta[v] + Initial /\ t.written[v] = old.written[v] + Initial
            \/ t.delta[v] = old.delta[v] /\ t.written[v] = old.written[v]
        BY <2>3, <2>5, Zenon
      <3>. QED
        BY <1>c, <2>5, <3>1, <3>2, <3>3
    <2>7. StipendIsForBirth(t)
      <3>. SUFFICES ASSUME NEW v \in Users
                    PROVE  t.stipends[v] = 0 \/ (t.stipends[v] = 1 /\ v \in t.born)
        BY DEF StipendIsForBirth
      <3>1. old.stipends[v] = 0 \/ (old.stipends[v] = 1 /\ v \in old.born)
        BY <1>t DEF TxOK, StipendIsForBirth
      <3>2. CASE v = u
        BY <2>2, <2>3, <2>5, <3>1, <3>2
      <3>3. CASE v # u
        BY <2>3, <2>5, <3>1, <3>3
      <3>. QED
        BY <3>2, <3>3
    <2>8. OwesInsideAGift(t)
      BY <1>t, <1>c, <2>4, <2>5, OwesGoesOn
    <2>. QED
      BY <1>t, <1>c, <2>1, <2>2, <2>4, <2>5, <2>6, <2>7, <2>8, Entry
  <1>. QED
    BY <1>1, <1>2, Zenon DEF EnsureStmt

\* A debit.
LEMMA DebitIsSound ==
    ASSUME LedgerInv, NEW w \in Workers, NEW u \in Users, DebitStmt(w, u)
    PROVE  LedgerInv'
  <1>. DEFINE amount == Head(tx[w].todo).amount
              floor == Head(tx[w].todo).floor
  <1>c. UNCHANGED committed /\ Runs(w, "debit") /\ "debit" \in Dos \ {"commit"}
    BY DEF DebitStmt, Dos
  <1>t. /\ Head(tx[w].todo) = tx[w].todo[1] /\ tx[w].todo[1] \in Statements
        /\ tx[w].delta \in Sums /\ balance \in Sums
    BY <1>c, Running
  <1>n. amount \in Nat /\ -amount \in Int /\ floor \in Nat /\ Seen(w, u) \in Int
    BY <1>t DEF Statements, Seen, Sums
  <1>1. CASE /\ Exists(w, u) /\ Free(w, u) /\ Covers(w, u, amount, floor)
             /\ Take(w, u) /\ Write(w, u, -amount)
    <2>1. Seen(w, u) + (-amount) >= tx[w].todo[1].floor
      BY <1>1, <1>n, <1>t DEF Covers
    <2>. QED
      BY <1>1, <1>c, <1>n, <2>1, WriteIsSound
  <1>2. CASE Done(w)
    BY <1>2, <1>c, DoneIsSound
  <1>. QED
    BY <1>1, <1>2, Zenon DEF DebitStmt

\* A credit.
LEMMA CreditIsSound ==
    ASSUME LedgerInv, NEW w \in Workers, NEW u \in Users, CreditStmt(w, u)
    PROVE  LedgerInv'
  <1>c. /\ UNCHANGED committed /\ Runs(w, "credit") /\ "credit" \in Dos \ {"commit"}
        /\ Free(w, u) /\ Take(w, u) /\ Write(w, u, Head(tx[w].todo).amount)
    BY DEF CreditStmt, Dos
  <1>t. Head(tx[w].todo) = tx[w].todo[1] /\ tx[w].todo[1] \in Statements
    BY <1>c, Running
  <1>n. Head(tx[w].todo).amount \in Int /\ Head(tx[w].todo).amount >= 0
    BY <1>t DEF Statements
  <1>. QED
    BY <1>c, <1>n, WriteIsSound
\* An update of the balance that the ledger has in part: admin_grant's, and a floor
\* restore.
LEMMA PartlyWrittenIsSound ==
    ASSUME LedgerInv, NEW w \in Workers, NEW u \in Users, NEW n \in Nat, NEW t \in Transactions,
           NEW row \in Nat, NEW grant \in Nat, row + grant <= n, row + grant = n \/ u \in t.lifted,
           NEW do \in {"grant", "restore"}, Runs(w, do), Free(w, u), Take(w, u),
           tx' = [tx EXCEPT ![w] = t], UNCHANGED committed,
           t.todo = Tail(tx[w].todo), t.delta = Add(tx[w].delta, u, n),
           t.written = Add(tx[w].written, u, row) \/ (row = 0 /\ t.written = tx[w].written),
           t.granted = Add(tx[w].granted, u, grant) \/ (grant = 0 /\ t.granted = tx[w].granted),
           t.owes = tx[w].owes, t.born = tx[w].born, t.stipends = tx[w].stipends,
           tx[w].lifted \subseteq t.lifted
    PROVE  LedgerInv'
  <1>. DEFINE old == tx[w]
  <1>t. /\ old.todo # <<>> /\ old.todo[1].do = do /\ TxOK(w)
        /\ old.delta \in Sums /\ old.written \in Sums /\ old.granted \in Sums
    BY Running
  <1>1. /\ \A v \in Users : Add(old.delta, u, n)[v] = IF v = u THEN old.delta[v] + n ELSE old.delta[v]
        /\ \A v \in Users : Add(old.written, u, row)[v] = IF v = u THEN old.written[v] + row ELSE old.written[v]
        /\ \A v \in Users : Add(old.granted, u, grant)[v] = IF v = u THEN old.granted[v] + grant ELSE old.granted[v]
    <2>. HIDE DEF old
    <2>0. n \in Int /\ row \in Int /\ grant \in Int
      OBVIOUS
    <2>1. \A v \in Users : Add(old.delta, u, n)[v] = IF v = u THEN old.delta[v] + n ELSE old.delta[v]
      BY <1>t, <2>0, AddIs
    <2>2. \A v \in Users : Add(old.written, u, row)[v] = IF v = u THEN old.written[v] + row ELSE old.written[v]
      BY <1>t, <2>0, AddIs
    <2>3. \A v \in Users : Add(old.granted, u, grant)[v] = IF v = u THEN old.granted[v] + grant ELSE old.granted[v]
      BY <1>t, <2>0, AddIs
    <2>. QED
      BY <2>1, <2>2, <2>3, Zenon
  <1>w. ASSUME NEW v \in Users
        PROVE  t.written[v] = IF v = u THEN old.written[v] + row ELSE old.written[v]
    <2>1. CASE t.written = Add(old.written, u, row)
      BY <1>1, <2>1, Zenon
    <2>2. CASE row = 0 /\ t.written = old.written
      <3>1. old.written[v] \in Int
        BY <1>t DEF Sums
      <3>. QED
        BY <2>2, <3>1
    <2>. QED
      BY <2>1, <2>2, Zenon
  <1>g. ASSUME NEW v \in Users
        PROVE  t.granted[v] = IF v = u THEN old.granted[v] + grant ELSE old.granted[v]
    <2>1. CASE t.granted = Add(old.granted, u, grant)
      BY <1>1, <2>1, Zenon
    <2>2. CASE grant = 0 /\ t.granted = old.granted
      <3>1. old.granted[v] \in Int
        BY <1>t DEF Sums
      <3>. QED
        BY <2>2, <3>1
    <2>. QED
      BY <2>1, <2>2, Zenon
  <1>2. TxBalances(t)
    <2>. SUFFICES ASSUME NEW v \in Users
                  PROVE  /\ t.written[v] + t.granted[v] <= t.delta[v]
                         /\ v \notin t.lifted => t.written[v] + t.granted[v] = t.delta[v]
      BY DEF TxBalances
    <2>1. /\ old.written[v] + old.granted[v] <= old.delta[v]
          /\ v \notin old.lifted => old.written[v] + old.granted[v] = old.delta[v]
      BY <1>t DEF TxOK, TxBalances
    <2>2. /\ old.written[v] \in Int /\ old.granted[v] \in Int /\ old.delta[v] \in Int
      BY <1>t DEF Sums
    <2>3. CASE v = u
      <3>1. t.delta[v] = old.delta[v] + n
        BY <1>1, <2>3, Zenon
      <3>2. t.written[v] = old.written[v] + row /\ t.granted[v] = old.granted[v] + grant
        BY <1>w, <1>g, <2>3, Zenon
      <3>3. v \notin t.lifted => v \notin old.lifted /\ row + grant = n
        BY <2>3, Zenon
      <3>4. row + grant <= n /\ row \in Nat /\ grant \in Nat /\ n \in Nat
        OBVIOUS
      <3>5. t.written[v] + t.granted[v] <= t.delta[v]
        BY <2>1, <2>2, <3>1, <3>2, <3>4
      <3>6. ASSUME v \notin t.lifted PROVE t.written[v] + t.granted[v] = t.delta[v]
        <4>1. old.written[v] + old.granted[v] = old.delta[v] /\ row + grant = n
          BY <2>1, <3>3, <3>6, Zenon
        <4>2. t.delta[v] = old.written[v] + old.granted[v] + (row + grant)
          BY <3>1, <4>1, Zenon
        <4>. HIDE DEF old
        <4>. QED
          BY <2>2, <3>2, <3>4, <4>2
      <3>. QED
        BY <3>5, <3>6, Zenon
    <2>4. CASE v # u
      <3>1. t.delta[v] = old.delta[v]
        BY <1>1, <2>4, Zenon
      <3>2. t.written[v] = old.written[v] /\ t.granted[v] = old.granted[v]
        BY <1>w, <1>g, <2>4, Zenon
      <3>. QED
        BY <2>1, <3>1, <3>2
    <2>. QED
      BY <2>3, <2>4
  <1>3. StipendIsForBirth(t)
    BY <1>t DEF TxOK, StipendIsForBirth
  <1>4. tx[w].todo[1].do # "commit" /\ tx[w].todo[1].do \notin {"debit", "credit"} /\ n \in Int /\ n >= 0
    BY <1>t
  <1>5. OwesInsideAGift(t)
    BY <1>t, <1>4, OwesGoesOn
  <1>. QED
    BY <1>t, <1>2, <1>3, <1>4, <1>5, Entry

\* admin_grant.
LEMMA GrantIsSound ==
    ASSUME LedgerInv, NEW w \in Workers, NEW u \in Users, GrantStmt(w, u)
    PROVE  LedgerInv'
  <1>. DEFINE old == tx[w]
              n == Head(old.todo).amount
              t == [old EXCEPT !.todo = Tail(old.todo), !.delta = Add(old.delta, u, n),
                               !.granted = Add(old.granted, u, n)]
  <1>c. /\ UNCHANGED committed /\ Runs(w, "grant") /\ Free(w, u) /\ Take(w, u)
        /\ tx' = [tx EXCEPT ![w] = t]
    BY DEF GrantStmt
  <1>t. /\ old \in Transactions /\ Tail(old.todo) \in Seq(Statements)
        /\ Head(old.todo) \in Statements /\ old.delta \in Sums /\ old.granted \in Sums
    BY <1>c, Running
  <1>n. n \in Nat /\ n \in Int
    BY <1>t DEF Statements
  <1>1. Add(old.delta, u, n) \in Sums /\ Add(old.granted, u, n) \in Sums
    <2>. HIDE DEF old, n
    <2>. QED
      BY <1>t, <1>n, AddIs
  <1>2. t \in Transactions
    <2>. HIDE DEF n
    <2>. QED
      BY <1>t, <1>1, Zenon DEF Transactions
  <1>3. /\ t.todo = Tail(old.todo) /\ t.delta = Add(old.delta, u, n) /\ t.written = old.written
        /\ t.owes = old.owes /\ t.born = old.born /\ t.stipends = old.stipends
        /\ t.granted = Add(old.granted, u, n) /\ t.lifted = old.lifted
    <2>. HIDE DEF n
    <2>. QED
      BY <1>t DEF Transactions
  <1>. HIDE DEF t, n
  <1>4. 0 \in Nat /\ 0 + n <= n /\ 0 + n = n
    BY <1>n
  <1>. QED
    BY <1>c, <1>n, <1>2, <1>3, <1>4, PartlyWrittenIsSound

\* restore_floor, with its ledger row or without.
LEMMA RestoreIsSound ==
    ASSUME LedgerInv, NEW w \in Workers, NEW u \in Users, RestoreStmt(w, u)
    PROVE  LedgerInv'
  <1>. DEFINE old == tx[w]
              n == Max({Floor - Seen(w, u), 0})
              up == IF n > 0 THEN old.lifted \cup {u} ELSE old.lifted
              t(row) == [old EXCEPT !.todo = Tail(old.todo), !.delta = Add(old.delta, u, n),
                                    !.written = Add(old.written, u, row), !.lifted = up]
  <1>c. /\ UNCHANGED committed /\ Runs(w, "restore") /\ Free(w, u) /\ Take(w, u)
        /\ \E row \in {0, n} : tx' = [tx EXCEPT ![w] = t(row)]
    BY DEF RestoreStmt
  <1>t. /\ old \in Transactions /\ Tail(old.todo) \in Seq(Statements)
        /\ old.delta \in Sums /\ old.written \in Sums /\ old.lifted \in SUBSET Users /\ balance \in Sums
    BY <1>c, Running
  <1>n. n \in Nat /\ n \in Int /\ n >= 0
    <2>1. Floor - Seen(w, u) \in Int
      BY <1>t, ChipsAssumption DEF Seen, Sums
    <2>. DEFINE S == {Floor - Seen(w, u), 0}
    <2>2. \E x \in S : \A y \in S : x >= y
      BY <2>1
    <2>3. n \in S /\ \A y \in S : n >= y
      BY <2>2, Zenon DEF Max
    <2>. QED
      BY <2>1, <2>3
  <1>. HIDE DEF n
  <1>u. /\ up \in SUBSET Users /\ old.lifted \subseteq up /\ (n > 0 => u \in up)
    BY <1>t
  <1>. HIDE DEF up
  <1>. PICK row \in {0, n} : tx' = [tx EXCEPT ![w] = t(row)]
    BY <1>c
  <1>r. row \in Nat /\ row \in Int /\ row + 0 <= n /\ (row + 0 = n \/ n > 0)
    BY <1>n
  <1>1. Add(old.delta, u, n) \in Sums /\ Add(old.written, u, row) \in Sums
    <2>. HIDE DEF old
    <2>. QED
      BY <1>t, <1>n, <1>r, AddIs
  <1>2. t(row) \in Transactions
    BY <1>t, <1>u, <1>1, Zenon DEF Transactions
  <1>3. /\ t(row).todo = Tail(old.todo) /\ t(row).delta = Add(old.delta, u, n)
        /\ t(row).written = Add(old.written, u, row) /\ t(row).lifted = up
        /\ t(row).owes = old.owes /\ t(row).born = old.born /\ t(row).stipends = old.stipends
        /\ t(row).granted = old.granted
    BY <1>t DEF Transactions
  <1>4. tx' = [tx EXCEPT ![w] = t(row)] /\ 0 \in Nat /\ "restore" \in {"grant", "restore"}
    OBVIOUS
  <1>. HIDE DEF t
  <1>. QED
    BY <1>c, <1>n, <1>r, <1>u, <1>2, <1>3, <1>4, PartlyWrittenIsSound

-----------------------------------------------------------------------------
(* Theorems *)

\* Nothing is on the books at first.
LEMMA InitIsSound == LedgerInit => LedgerInv
  <1>. SUFFICES ASSUME LedgerInit PROVE LedgerInv
    OBVIOUS
  <1>0. None \in Sums /\ <<>> \in Seq(Statements) /\ {} \in SUBSET Users /\ 0 \in Int
    BY DEF None, Sums
  <1>1. NoTx \in Transactions
    BY <1>0, Zenon DEF NoTx, Transactions
  <1>2. LedgerTypeOK
    BY <1>0, <1>1 DEF LedgerInit, LedgerTypeOK
  <1>3. GiftsArriveWhole /\ LedgerExplainsBalance /\ StipendsAreForRows
    BY DEF LedgerInit, GiftsArriveWhole, LedgerExplainsBalance, StipendsAreForRows, None
  <1>4. ASSUME NEW w \in Workers
        PROVE  TxOK(w)
    <2>1. /\ tx[w].todo = <<>> /\ tx[w].owes = 0 /\ tx[w].delta = None /\ tx[w].written = None
          /\ tx[w].stipends = None /\ tx[w].granted = None /\ tx[w].lifted = {}
          /\ tx[w].born = {}
      BY DEF LedgerInit, NoTx
    <2>2. Script(tx[w].todo) /\ OwesInsideAGift(tx[w])
      BY <2>1 DEF Script, OwesInsideAGift
    <2>3. TxBalances(tx[w]) /\ StipendIsForBirth(tx[w])
      BY <2>1 DEF TxBalances, StipendIsForBirth, None
    <2>4. WritesAreLocked(w) /\ Solvent(w)
      BY <2>1 DEF WritesAreLocked, Solvent, KeepsFloor, None
    <2>. QED
      BY <2>2, <2>3, <2>4 DEF TxOK
  <1>. QED
    BY <1>2, <1>3, <1>4 DEF LedgerInv

\* Every step keeps the books.
LEMMA NextIsSound == LedgerInv /\ [LedgerNext]_ledgerVars => LedgerInv'
  <1>. SUFFICES ASSUME LedgerInv, [LedgerNext]_ledgerVars PROVE LedgerInv'
    OBVIOUS
  <1>1. ASSUME NEW w \in Workers, NEW u \in Users,
               EnsureStmt(w, u) \/ DebitStmt(w, u) \/ CreditStmt(w, u) \/ GrantStmt(w, u) \/ RestoreStmt(w, u)
        PROVE  LedgerInv'
    BY <1>1, EnsureIsSound, DebitIsSound, CreditIsSound, GrantIsSound, RestoreIsSound, Zenon
  <1>2. ASSUME NEW w \in Workers, CommitTx(w)
        PROVE  LedgerInv'
    BY <1>2, CommitIsSound
  <1>3. ASSUME NEW w \in Workers, Deadlocked(w) \/ Fail(w)
        PROVE  LedgerInv'
    <2>1. Done(w) /\ UNCHANGED committed
      BY <1>3, Zenon DEF Deadlocked, Fail
    <2>. QED
      BY <2>1, DoneIsSound
  <1>4. ASSUME NEW w \in Workers, NEW op \in Operations, Begin(w, op)
        PROVE  LedgerInv'
    BY <1>4, BeginIsSound
  <1>5. CASE UNCHANGED ledgerVars
    <2>1. /\ rows' = rows /\ balance' = balance /\ ledger' = ledger /\ stipends' = stipends
          /\ granted' = granted /\ lifted' = lifted /\ in_transit' = in_transit
          /\ locked' = locked /\ tx' = tx
      BY <1>5 DEF ledgerVars
    <2>. QED
      BY <2>1, SMTT(30) DEF LedgerInv, LedgerTypeOK, GiftsArriveWhole, LedgerExplainsBalance, StipendsAreForRows,
                   TxOK, WritesAreLocked, Solvent, KeepsFloor, CreditsNobody, Seen
  <1>. QED
    BY <1>1, <1>2, <1>3, <1>4, <1>5, Zenon DEF LedgerNext, Statement, Rest

\* The books of the wallet stay as LedgerInv says they are.
THEOREM LedgerInvariant == LedgerSpec => []LedgerInv
  BY InitIsSound, NextIsSound, PTL DEF LedgerSpec

\* Gifts arrive whole, the stipend is paid once, and a balance that no floor restore
\* has raised is its ledger's sum and the grants of admins, for any users, workers,
\* amounts and number of failed and deadlocked transactions.
THEOREM ChipsAreAlwaysExplained == LedgerSpec => []ChipsAreExplained
  <1>1. LedgerInv => ChipsAreExplained
    BY DEF LedgerInv, StipendsAreForRows, ChipsAreExplained, StipendOnce
  <1>. QED
    BY <1>1, LedgerInvariant, PTL

\* A COMMIT that moves chips from one user to another leaves the giver the floor.
THEOREM GivingAlwaysKeepsTheFloor == LedgerSpec => GivingKeepsTheFloor
  <1>1. ASSUME LedgerInv, [LedgerNext]_ledgerVars, NEW w \in Workers, NEW u \in Users,
               Runs(w, "commit"), tx'[w] # tx[w], tx[w].delta[u] < 0,
               NEW v \in Users, tx[w].delta[v] > 0
        PROVE  balance'[u] >= Floor
    <2>. DEFINE s == tx[w].todo
    <2>t. /\ LedgerTypeOK /\ TxOK(w) /\ s \in Seq(Statements) /\ s # <<>> /\ s[1].do = "commit"
          /\ Head(s) = s[1] /\ tx[w].delta \in Sums /\ balance \in Sums
      BY <1>1, Running DEF LedgerInv
    <2>1. CommitTx(w) \/ balance' = balance
      <3>1. ASSUME NEW x \in Workers, CommitTx(x)
            PROVE  x = w
        <4>1. x # w => tx'[w] = tx[w]
          BY <2>t, <3>1 DEF CommitTx, LedgerTypeOK
        <4>. QED
          BY <1>1, <4>1
      <3>2. ASSUME NEW x \in Workers, NEW y \in Users,
                   EnsureStmt(x, y) \/ DebitStmt(x, y) \/ CreditStmt(x, y) \/ GrantStmt(x, y) \/ RestoreStmt(x, y)
            PROVE  balance' = balance
        BY <3>2 DEF EnsureStmt, DebitStmt, CreditStmt, GrantStmt, RestoreStmt, committed
      <3>3. ASSUME NEW x \in Workers, NEW op, Begin(x, op) \/ Deadlocked(x) \/ Fail(x)
            PROVE  balance' = balance
        BY <3>3 DEF Begin, Deadlocked, Fail, committed
      <3>4. CASE UNCHANGED ledgerVars
        BY <3>4 DEF ledgerVars
      <3>. QED
        BY <1>1, <3>1, <3>2, <3>3, <3>4, Zenon DEF LedgerNext, Statement, Rest
    <2>2. KeepsFloor(w)
      <3>1. Len(s) \in {1, 3} /\ ~CreditsNobody(w)
        BY <1>1, <2>t, PlacesInAScript DEF TxOK, CreditsNobody, Sums
      <3>. QED
        BY <2>t, <3>1, Zenon DEF TxOK, Solvent
    <2>3. balance[u] \in Int /\ tx[w].delta[u] \in Int /\ Floor \in Int
      BY <2>t, ChipsAssumption DEF Sums
    <2>4. balance[u] + tx[w].delta[u] >= Floor
      BY <1>1, <2>2 DEF KeepsFloor, Seen
    <2>5. CASE CommitTx(w)
      BY <2>4, <2>5 DEF CommitTx, Seen
    <2>6. CASE balance' = balance
      BY <1>1, <2>3, <2>4, <2>6
    <2>. QED
      BY <2>1, <2>5, <2>6
  <1>2. LedgerInv /\ [LedgerNext]_ledgerVars =>
          [\A w \in Workers, u \in Users :
              /\ Runs(w, "commit") /\ tx'[w] # tx[w]
              /\ tx[w].delta[u] < 0 /\ \E v \in Users : tx[w].delta[v] > 0
              => balance'[u] >= Floor]_ledgerVars
    BY <1>1, Zenon
  <1>. QED
    BY <1>2, LedgerInvariant, PTL DEF LedgerSpec, GivingKeepsTheFloor

-----------------------------------------------------------------------------
(* Game payouts.                                                           *)

Kinds == {"period", "cooldown", "run", "pair"}

GateSet ==
    {Cooldown} \cup {Unique("per_event", event) : event \in Events}
    \cup {Unique("pair_day", PairDay[event]) : event \in Events}

Keys ==
    ({"per_event"} \X Events) \cup ({"pair_day"} \X {PairDay[event] : event \in Events})
    \cup ({"cooldown"} \X Nat)

Rows == [key : Keys, created : Nat, grant : Nat]

Steps == {"idle", "insert_or_skip", "lock", "gates", "insert", "credit", "commit"}

GrantStates == [at : Steps, gates : Seq(GateSet), next : Nat, rows : SUBSET Rows, grant : Nat]

PayoutTypeOK ==
    /\ clock \in Nat /\ grants \in Nat /\ paid \in Nat
    /\ grant_tx \in [Granters -> GrantStates]
    /\ claims \subseteq Rows /\ payout_rows \subseteq Nat

\* A cooldown gate is the last one, and a second gate follows the event's.
WellGated(g) ==
    /\ Len(g) \in {1, 2}
    /\ Len(g) = 1 => g[1].kind \in {"per_event", "cooldown"}
    /\ Len(g) = 2 => g[1].kind = "per_event" /\ g[2].kind \in {"pair_day", "cooldown"}

HasCooldown(t) == t.gates[Len(t.gates)].kind = "cooldown"

\* The rows a transaction has written so far are those of the gates behind it.
WroteItsRows(t) ==
    /\ t.at \in {"idle", "lock", "gates", "insert_or_skip"} => t.rows = {}
    /\ t.at # "idle" => WellGated(t.gates)
    /\ t.at = "insert_or_skip" => Len(t.gates) = 1 /\ t.gates[1].kind = "per_event"
    /\ t.at \in {"lock", "insert_or_skip"} => t.next = 1
    /\ t.at \in {"gates", "insert"} => t.next \in 1 .. Len(t.gates)
    /\ t.at = "insert" /\ t.next = 1 => t.rows = {}
    /\ t.at = "insert" /\ t.next = 2 => \E row \in t.rows : t.rows = {row} /\ row.key[1] = "per_event"
    /\ t.at \in {"credit", "commit"} => t.rows # {}
    /\ t.at \in {"credit", "commit"} /\ (\E row \in t.rows : row.key[1] = "pair_day")
       => \E row \in t.rows : row.key[1] = "per_event"
    /\ \A row \in t.rows : /\ row.grant = t.grant /\ row.created <= clock
                           /\ row.key[1] = "cooldown" => HasCooldown(t)

\* Rows that are not committed have keys of their own: nobody else's row has one,
\* committed or not.
KeysAreFree ==
    \A w \in Granters : \A r \in grant_tx[w].rows :
        /\ ~Claimed(r.key)
        /\ \A v \in Granters : \A s \in grant_tx[v].rows : s.key = r.key => v = w /\ s = r

\* No two grants have one number, and a number is paid when its grant commits.
GrantsAreFresh ==
    /\ \A w \in Granters : grant_tx[w].at # "idle" =>
          /\ grant_tx[w].grant <= grants /\ grant_tx[w].grant \notin payout_rows
          /\ \A v \in Granters \ {w} : grant_tx[v].at # "idle" => grant_tx[v].grant # grant_tx[w].grant
    /\ \A g \in payout_rows : g <= grants
    /\ IsFiniteSet(payout_rows) /\ paid = Cardinality(payout_rows)

\* Who reads gates, inserts behind them or has a cooldown to keep holds the lock.
GatesAreLocked ==
    \A w \in Granters :
        \/ grant_tx[w].at \in {"gates", "insert"}
        \/ grant_tx[w].at \in {"credit", "commit"} /\ HasCooldown(grant_tx[w])
        => advisory = w

CooldownRows(S) == {row \in S : row.key[1] = "cooldown"}

\* A transaction past its cooldown gate is a window after every cooldown paid.
PastTheCooldown ==
    \A w \in Granters : grant_tx[w].at \in {"insert", "credit", "commit"} /\ HasCooldown(grant_tx[w]) =>
        \A r \in CooldownRows(claims) :
            /\ r.created + Window <= clock
            /\ \A s \in CooldownRows(grant_tx[w].rows) : r.created + Window <= s.created

\* Each key is claimed by one row.
OneRowPerKey == \A r, s \in claims : r.key = s.key => r = s

PayoutInv ==
    /\ PayoutTypeOK
    /\ \A w \in Granters : WroteItsRows(grant_tx[w])
    /\ KeysAreFree /\ GrantsAreFresh /\ GatesAreLocked /\ PastTheCooldown
    /\ OneRowPerKey /\ CooldownKeepsDistance /\ AllOrNothing

-----------------------------------------------------------------------------
(* Gates and rows *)

\* A pair is a sequence of its two elements.
LEMMA PairShape ==
    ASSUME NEW S, NEW a \in S, NEW b \in S
    PROVE  <<a, b>> \in Seq(S) /\ Len(<<a, b>>) = 2 /\ <<a, b>>[1] = a /\ <<a, b>>[2] = b
  OBVIOUS

\* The gates a grant meets are of the shapes the invariant speaks of.
LEMMA GatesShape ==
    ASSUME NEW kind \in Kinds, NEW event \in Events
    PROVE  /\ Gates(kind, event) \in Seq(GateSet) /\ WellGated(Gates(kind, event))
           /\ kind = "period" => Len(Gates(kind, event)) = 1 /\ Gates(kind, event)[1].kind = "per_event"
<1>1. /\ Unique("per_event", event) \in GateSet /\ Unique("per_event", event).kind = "per_event"
      /\ Unique("pair_day", PairDay[event]) \in GateSet /\ Unique("pair_day", PairDay[event]).kind = "pair_day"
      /\ Cooldown \in GateSet /\ Cooldown.kind = "cooldown"
  BY DEF GateSet, Unique, Cooldown
<1>2. CASE kind = "pair"
  <2>1. Gates(kind, event) = <<Unique("per_event", event), Unique("pair_day", PairDay[event])>>
    BY <1>2 DEF Gates
  <2>2. /\ Gates(kind, event) \in Seq(GateSet) /\ Len(Gates(kind, event)) = 2
        /\ Gates(kind, event)[1].kind = "per_event" /\ Gates(kind, event)[2].kind = "pair_day"
    BY <1>1, <2>1, PairShape
  <2> QED BY <1>2, <2>2 DEF WellGated
<1>3. CASE kind = "run"
  <2>1. Gates(kind, event) = <<Unique("per_event", event), Cooldown>>
    BY <1>3 DEF Gates
  <2>2. /\ Gates(kind, event) \in Seq(GateSet) /\ Len(Gates(kind, event)) = 2
        /\ Gates(kind, event)[1].kind = "per_event" /\ Gates(kind, event)[2].kind = "cooldown"
    BY <1>1, <2>1, PairShape
  <2> QED BY <1>3, <2>2 DEF WellGated
<1>4. CASE kind = "period"
  <2>1. Gates(kind, event) = <<Unique("per_event", event)>>
    BY <1>4 DEF Gates
  <2> QED BY <1>1, <2>1, SMT DEF WellGated
<1>5. CASE kind = "cooldown"
  <2>1. Gates(kind, event) = <<Cooldown>>
    BY <1>5 DEF Gates
  <2> QED BY <1>1, <1>5, <2>1, SMT DEF WellGated
<1> QED BY <1>2, <1>3, <1>4, <1>5 DEF Kinds

\* There is one gate of kind "cooldown".
LEMMA CooldownGate == \A gate \in GateSet : gate.kind = "cooldown" => gate.gate = "cooldown"
<1>1. Cooldown.gate = "cooldown"
  BY DEF Cooldown
<1>2. \A event \in Events : /\ Unique("per_event", event).kind # "cooldown"
                            /\ Unique("pair_day", PairDay[event]).kind # "cooldown"
  BY DEF Unique
<1> QED BY <1>1, <1>2, Zenon DEF GateSet

\* The row a gate writes is well typed, and its kind is the gate's.
LEMMA RowShape ==
    ASSUME clock \in Nat, NEW gate \in GateSet, NEW grant \in Nat
    PROVE  /\ RowOf(gate, grant) \in Rows /\ RowOf(gate, grant).key = KeyOf(gate)
           /\ RowOf(gate, grant).key[1] = gate.kind
           /\ RowOf(gate, grant).created = clock /\ RowOf(gate, grant).grant = grant
  BY SMTT(30) DEF GateSet, RowOf, KeyOf, Keys, Rows, Unique, Cooldown

\* Between transactions a granter is typed, and holds nothing.
LEMMA IdleShape == Idle \in GrantStates /\ Idle.at = "idle" /\ Idle.rows = {}
  BY DEF Idle, GrantStates, Steps

-----------------------------------------------------------------------------
(* Steps that write no row *)

\* A database without claims satisfies the invariant.
LEMMA PayoutInitInv == PayoutInit => PayoutInv
<1> SUFFICES ASSUME PayoutInit PROVE PayoutInv
  OBVIOUS
<1>1. \A w \in Granters : grant_tx[w] = Idle /\ grant_tx[w].at = "idle" /\ grant_tx[w].rows = {}
  BY IdleShape DEF PayoutInit
<1>2. PayoutTypeOK
  BY IdleShape DEF PayoutInit, PayoutTypeOK
<1>3. \A w \in Granters : WroteItsRows(grant_tx[w])
  BY <1>1 DEF WroteItsRows
<1>4. GrantsAreFresh
  BY <1>1, FS_EmptySet DEF PayoutInit, GrantsAreFresh
<1>5. KeysAreFree /\ GatesAreLocked /\ PastTheCooldown
  BY <1>1 DEF KeysAreFree, GatesAreLocked, PastTheCooldown
<1>6. OneRowPerKey /\ CooldownKeepsDistance /\ AllOrNothing
  BY DEF PayoutInit, OneRowPerKey, CooldownKeepsDistance, AllOrNothing
<1> QED BY <1>2, <1>3, <1>4, <1>5, <1>6 DEF PayoutInv

\* A transaction that ends without committing leaves the others as they were, and
\* what it wrote is gone.
LEMMA RollbackInv ==
    ASSUME PayoutInv, NEW w \in Granters, Ended(w), UNCHANGED <<clock, claims, payout_rows, paid, grants>>
    PROVE  PayoutInv'
<1>0. /\ PayoutTypeOK /\ \A v \in Granters : WroteItsRows(grant_tx[v])
      /\ KeysAreFree /\ GrantsAreFresh /\ GatesAreLocked /\ PastTheCooldown
      /\ OneRowPerKey /\ CooldownKeepsDistance /\ AllOrNothing
  BY DEF PayoutInv
<1>1. /\ grant_tx'[w] = Idle /\ grant_tx'[w].at = "idle" /\ grant_tx'[w].rows = {}
      /\ \A v \in Granters \ {w} : grant_tx'[v] = grant_tx[v]
      /\ \A v \in Granters \ {w} : advisory = v => advisory' = v
  BY <1>0, IdleShape DEF Ended, PayoutTypeOK
<1>2. PayoutTypeOK'
  BY <1>0, IdleShape DEF Ended, PayoutTypeOK
<1>3. \A v \in Granters : WroteItsRows(grant_tx[v])'
  BY <1>0, <1>1, SMT DEF WroteItsRows, HasCooldown
<1>4. KeysAreFree'
  BY <1>0, <1>1, SMT DEF KeysAreFree, Claimed
<1>5. GrantsAreFresh'
  BY <1>0, <1>1, SMT DEF GrantsAreFresh
<1>6. GatesAreLocked' /\ PastTheCooldown'
  BY <1>0, <1>1, SMT DEF GatesAreLocked, PastTheCooldown, HasCooldown, CooldownRows
<1>7. OneRowPerKey' /\ CooldownKeepsDistance' /\ AllOrNothing'
  BY <1>0 DEF OneRowPerKey, CooldownKeepsDistance, AllOrNothing
<1> QED BY <1>2, <1>3, <1>4, <1>5, <1>6, <1>7 DEF PayoutInv

\* A transaction that goes on without writing a row keeps its gates, its rows and
\* its number; the invariant asks of it that it is where its rows and its lock
\* allow, and past its cooldown only when nobody was paid within the window.
LEMMA ProgressInv ==
    ASSUME PayoutInv, NEW w \in Granters, NEW to \in GrantStates,
           grant_tx' = [grant_tx EXCEPT ![w] = to],
           to.gates = grant_tx[w].gates, to.rows = grant_tx[w].rows, to.grant = grant_tx[w].grant,
           to.at # "idle", grant_tx[w].at # "idle", WroteItsRows(to),
           to.at \in {"gates", "insert"} \/ (to.at \in {"credit", "commit"} /\ HasCooldown(to)) => advisory' = w,
           \A v \in Granters \ {w} : advisory = v => advisory' = v,
           to.at \in {"insert", "credit", "commit"} /\ HasCooldown(to) =>
               \/ grant_tx[w].at \in {"insert", "credit", "commit"}
               \/ to.rows = {} /\ \A r \in CooldownRows(claims) : r.created + Window <= clock,
           UNCHANGED <<clock, claims, payout_rows, paid, grants>>
    PROVE  PayoutInv'
<1>0. /\ PayoutTypeOK /\ \A v \in Granters : WroteItsRows(grant_tx[v])
      /\ KeysAreFree /\ GrantsAreFresh /\ GatesAreLocked /\ PastTheCooldown
      /\ OneRowPerKey /\ CooldownKeepsDistance /\ AllOrNothing
  BY DEF PayoutInv
<1>1. grant_tx'[w] = to /\ \A v \in Granters \ {w} : grant_tx'[v] = grant_tx[v]
  BY <1>0 DEF PayoutTypeOK
<1>r. \A v \in Granters : grant_tx'[v].rows = grant_tx[v].rows
  BY <1>1
<1>2. PayoutTypeOK'
  BY <1>0 DEF PayoutTypeOK
<1>3. \A v \in Granters : WroteItsRows(grant_tx[v])'
  BY <1>0, <1>1, SMT DEF WroteItsRows, HasCooldown
<1>4. KeysAreFree'
  BY <1>0, <1>r, SMT DEF KeysAreFree, Claimed
<1>5. GrantsAreFresh'
  BY <1>0, <1>1, SMT DEF GrantsAreFresh
<1>6. GatesAreLocked'
  BY <1>0, <1>1, SMT DEF GatesAreLocked, HasCooldown
<1>7. PastTheCooldown'
  BY <1>0, <1>1, SMT DEF PastTheCooldown, HasCooldown, CooldownRows
<1>8. OneRowPerKey' /\ CooldownKeepsDistance' /\ AllOrNothing'
  BY <1>0 DEF OneRowPerKey, CooldownKeepsDistance, AllOrNothing
<1> QED BY <1>2, <1>3, <1>4, <1>5, <1>6, <1>7, <1>8 DEF PayoutInv

\* The lock is taken by a transaction that has written nothing.
LEMMA LockInv == ASSUME PayoutInv, NEW w \in Granters, lock_payout(w) PROVE PayoutInv'
<1> DEFINE t == grant_tx[w]
           to == [t EXCEPT !.at = "gates"]
<1>0. /\ t \in GrantStates /\ WroteItsRows(t) /\ t.at = "lock" /\ advisory \notin Granters
      /\ advisory' = w /\ grant_tx' = [grant_tx EXCEPT ![w] = to]
      /\ UNCHANGED <<clock, claims, payout_rows, paid, grants>>
  BY NoOneAssumption DEF PayoutInv, PayoutTypeOK, lock_payout, payoutTables
<1>1. /\ to \in GrantStates /\ to.at = "gates" /\ to.gates = t.gates /\ to.rows = t.rows
      /\ to.grant = t.grant /\ to.next = t.next
  BY <1>0 DEF GrantStates, Steps
<1>2. WroteItsRows(to)
  BY <1>0, <1>1 DEF WroteItsRows, HasCooldown, WellGated
<1> HIDE DEF to
<1> QED BY <1>0, <1>1, <1>2, ProgressInv

\* The credit waits for the user's row and nothing else.
LEMMA CreditInv == ASSUME PayoutInv, NEW w \in Granters, CreditGrant(w) PROVE PayoutInv'
<1> DEFINE t == grant_tx[w]
           to == [t EXCEPT !.at = "commit"]
<1>0. /\ t \in GrantStates /\ WroteItsRows(t) /\ t.at = "credit" /\ GatesAreLocked
      /\ grant_tx' = [grant_tx EXCEPT ![w] = to]
      /\ UNCHANGED <<advisory, clock, claims, payout_rows, paid, grants>>
  BY DEF PayoutInv, PayoutTypeOK, CreditGrant, payoutTables
<1>1. /\ to \in GrantStates /\ to.at = "commit" /\ to.gates = t.gates /\ to.rows = t.rows
      /\ to.grant = t.grant /\ to.next = t.next
  BY <1>0 DEF GrantStates, Steps
<1>2. WroteItsRows(to) /\ (HasCooldown(to) => advisory = w)
  BY <1>0, <1>1 DEF WroteItsRows, HasCooldown, WellGated, GatesAreLocked
<1> HIDE DEF to
<1> QED BY <1>0, <1>1, <1>2, ProgressInv

\* A gate that is read refuses, or is passed; the cooldown's is the last, so a
\* transaction that goes on to insert has just read that nobody was paid within
\* the window, and holds the lock under which anybody would be.
LEMMA CheckGateInv == ASSUME PayoutInv, NEW w \in Granters, CheckGate(w) PROVE PayoutInv'
<1> DEFINE t == grant_tx[w]
           gate == t.gates[t.next]
           last == t.next = Len(t.gates)
           step == IF last THEN "insert" ELSE "gates"
           next == IF last THEN 1 ELSE t.next + 1
           to == [t EXCEPT !.at = step, !.next = next]
<1>0. /\ PayoutTypeOK /\ t \in GrantStates /\ WroteItsRows(t) /\ t.at = "gates" /\ GatesAreLocked
      /\ UNCHANGED <<clock, claims, payout_rows, paid, grants>>
  BY DEF PayoutInv, PayoutTypeOK, CheckGate, payoutTables
<1>1. CASE Blocked(gate)
  BY <1>0, <1>1, RollbackInv DEF CheckGate
<1>2. CASE ~Blocked(gate)
  <2>0. grant_tx' = [grant_tx EXCEPT ![w] = to] /\ UNCHANGED advisory
    BY <1>2, Zenon DEF CheckGate
  <2>1. /\ to \in GrantStates /\ to.gates = t.gates /\ to.rows = t.rows /\ to.grant = t.grant
        /\ to.at = step /\ to.next = next
    <3>1. step \in Steps /\ next \in Nat
      BY <1>0 DEF GrantStates, Steps
    <3> HIDE DEF step, next, last
    <3>2. to \in GrantStates
      BY <1>0, <3>1, Zenon DEF GrantStates
    <3> QED BY <1>0, <3>1, <3>2, SMT DEF GrantStates
  <2>2. WroteItsRows(to) /\ advisory = w
    BY <1>0, <2>1, SMT DEF WroteItsRows, HasCooldown, WellGated, GatesAreLocked
  <2>3. ASSUME to.at = "insert", HasCooldown(to), NEW r \in CooldownRows(claims)
        PROVE  r.created + Window <= clock
    <3>1. gate.kind = "cooldown" /\ gate \in GateSet
      BY <1>0, <2>1, <2>3, SMT DEF HasCooldown, WroteItsRows, WellGated, GrantStates
    <3>2. gate.gate = "cooldown"
      BY <3>1, CooldownGate
    <3>3. ~(r.created > clock - Window)
      BY <1>2, <2>3, <3>1, <3>2 DEF Blocked, CooldownRows
    <3> QED BY <1>0, <2>3, <3>3, WindowAssumption DEF PayoutTypeOK, Rows, CooldownRows
  <2> HIDE DEF to
  <2>4. to.at \notin {"idle", "credit", "commit"} /\ to.rows = {}
    BY <1>0, <2>1 DEF WroteItsRows
  <2> QED BY <1>0, <2>0, <2>1, <2>2, <2>3, <2>4, ProgressInv
<1> QED BY <1>1, <1>2
\* A grant begins with a number of its own and nothing written.
LEMMA BeginInv ==
    ASSUME PayoutInv, NEW w \in Granters, NEW kind \in Kinds, NEW event \in Events, BeginGrant(w, kind, event)
    PROVE  PayoutInv'
<1> DEFINE to == [at |-> IF kind = "period" THEN "insert_or_skip" ELSE "lock",
                  gates |-> Gates(kind, event), next |-> 1, rows |-> {}, grant |-> grants + 1]
<1>0. /\ PayoutTypeOK /\ \A v \in Granters : WroteItsRows(grant_tx[v])
      /\ KeysAreFree /\ GrantsAreFresh /\ GatesAreLocked /\ PastTheCooldown
      /\ OneRowPerKey /\ CooldownKeepsDistance /\ AllOrNothing
      /\ UNCHANGED <<advisory, clock, claims, payout_rows, paid>> /\ grants' = grants + 1
      /\ grant_tx' = [grant_tx EXCEPT ![w] = to]
  BY DEF PayoutInv, BeginGrant, payoutTables
<1>g. Gates(kind, event) \in Seq(GateSet)
  BY GatesShape
<1>1. to \in GrantStates /\ to.at \in {"lock", "insert_or_skip"} /\ to.rows = {} /\ to.grant = grants + 1
  <2>1. (IF kind = "period" THEN "insert_or_skip" ELSE "lock") \in Steps /\ grants + 1 \in Nat
    BY <1>0 DEF Steps, PayoutTypeOK
  <2> QED BY <1>g, <2>1 DEF GrantStates
<1>2. WroteItsRows(to)
  BY GatesShape, <1>1, SMT DEF WroteItsRows
<1> HIDE DEF to
<1>3. grant_tx'[w] = to /\ \A v \in Granters \ {w} : grant_tx'[v] = grant_tx[v]
  BY <1>0 DEF PayoutTypeOK
<1>4. PayoutTypeOK'
  BY <1>0, <1>1 DEF PayoutTypeOK
<1>5. \A v \in Granters : WroteItsRows(grant_tx[v])'
  BY <1>0, <1>2, <1>3, SMT DEF WroteItsRows, HasCooldown
<1>6. KeysAreFree'
  BY <1>0, <1>1, <1>3, SMT DEF KeysAreFree, Claimed
<1>7. GrantsAreFresh'
  BY <1>0, <1>1, <1>3, SMT DEF GrantsAreFresh, PayoutTypeOK, GrantStates
<1>8. GatesAreLocked' /\ PastTheCooldown'
  BY <1>0, <1>1, <1>3, SMT DEF GatesAreLocked, PastTheCooldown, HasCooldown, CooldownRows
<1>9. OneRowPerKey' /\ CooldownKeepsDistance' /\ AllOrNothing'
  BY <1>0 DEF OneRowPerKey, CooldownKeepsDistance, AllOrNothing
<1> QED BY <1>4, <1>5, <1>6, <1>7, <1>8, <1>9 DEF PayoutInv

\* Time only takes transactions further from what was paid before.
LEMMA TickInv == ASSUME PayoutInv, ClockTick PROVE PayoutInv'
<1>0. /\ PayoutTypeOK /\ \A v \in Granters : WroteItsRows(grant_tx[v])
      /\ KeysAreFree /\ GrantsAreFresh /\ GatesAreLocked /\ PastTheCooldown
      /\ OneRowPerKey /\ CooldownKeepsDistance /\ AllOrNothing
      /\ UNCHANGED <<grant_tx, advisory, claims, payout_rows, paid, grants>> /\ clock' = clock + 1
  BY DEF PayoutInv, ClockTick, payoutTables
<1>1. PayoutTypeOK' /\ KeysAreFree' /\ GrantsAreFresh' /\ GatesAreLocked'
  BY <1>0 DEF PayoutTypeOK, KeysAreFree, Claimed, GrantsAreFresh, GatesAreLocked, HasCooldown
<1>2. ASSUME NEW v \in Granters PROVE WroteItsRows(grant_tx[v])'
  <2>1. \A row \in grant_tx[v].rows : row.created \in Nat
    BY <1>0 DEF PayoutTypeOK, GrantStates, Rows
  <2> QED BY <1>0, <2>1, SMT DEF WroteItsRows, HasCooldown, PayoutTypeOK
<1>3. PastTheCooldown'
  <2>1. \A row \in claims : row.created \in Nat
    BY <1>0 DEF PayoutTypeOK, Rows
  <2> QED BY <1>0, <2>1, WindowAssumption, SMT DEF PastTheCooldown, HasCooldown, CooldownRows, PayoutTypeOK
<1>4. OneRowPerKey' /\ CooldownKeepsDistance' /\ AllOrNothing'
  BY <1>0 DEF OneRowPerKey, CooldownKeepsDistance, AllOrNothing
<1> QED BY <1>1, <1>2, <1>3, <1>4 DEF PayoutInv

-----------------------------------------------------------------------------
(* Steps that write *)

\* A row written by a transaction that waited for its key is the only one with it.
LEMMA WriteInv ==
    ASSUME PayoutInv, NEW w \in Granters, NEW to \in GrantStates, NEW row \in Rows,
           grant_tx' = [grant_tx EXCEPT ![w] = to],
           to.gates = grant_tx[w].gates, to.rows = grant_tx[w].rows \cup {row}, to.grant = grant_tx[w].grant,
           to.at \in {"insert", "credit"}, grant_tx[w].at \in {"insert", "insert_or_skip"}, WroteItsRows(to),
           row.created = clock, ~Claimed(row.key), ~Uncommitted(w, row.key),
           \A r \in grant_tx[w].rows : r.key # row.key,
           to.at = "insert" \/ HasCooldown(to) => grant_tx[w].at = "insert",
           UNCHANGED <<advisory, clock, claims, payout_rows, paid, grants>>
    PROVE  PayoutInv'
<1>0. /\ PayoutTypeOK /\ \A v \in Granters : WroteItsRows(grant_tx[v])
      /\ KeysAreFree /\ GrantsAreFresh /\ GatesAreLocked /\ PastTheCooldown
      /\ OneRowPerKey /\ CooldownKeepsDistance /\ AllOrNothing
  BY DEF PayoutInv
<1>1. grant_tx'[w] = to /\ \A v \in Granters \ {w} : grant_tx'[v] = grant_tx[v]
  BY <1>0 DEF PayoutTypeOK
<1>2. PayoutTypeOK'
  BY <1>0 DEF PayoutTypeOK
<1>3. \A v \in Granters : WroteItsRows(grant_tx[v])'
  BY <1>0, <1>1, SMT DEF WroteItsRows, HasCooldown
<1>4. KeysAreFree'
  BY <1>0, <1>1, SMT DEF KeysAreFree, Claimed, Uncommitted
<1>5. GrantsAreFresh'
  BY <1>0, <1>1, SMT DEF GrantsAreFresh
<1>6. GatesAreLocked'
  BY <1>0, <1>1, SMT DEF GatesAreLocked, HasCooldown
<1>7. PastTheCooldown'
  BY <1>0, <1>1, SMT DEF PastTheCooldown, HasCooldown, CooldownRows
<1>8. OneRowPerKey' /\ CooldownKeepsDistance' /\ AllOrNothing'
  BY <1>0 DEF OneRowPerKey, CooldownKeepsDistance, AllOrNothing
<1> QED BY <1>2, <1>3, <1>4, <1>5, <1>6, <1>7, <1>8 DEF PayoutInv

\* Everything a grant wrote lands together, with its number and its chips: the
\* keys are new, the number is new, and a cooldown's row is a window after the
\* others.  Nobody else can be past a cooldown gate meanwhile.
LEMMA CommitInv == ASSUME PayoutInv, NEW w \in Granters, CommitGrant(w) PROVE PayoutInv'
<1> DEFINE t == grant_tx[w]
<1>0. /\ PayoutTypeOK /\ \A v \in Granters : WroteItsRows(grant_tx[v])
      /\ KeysAreFree /\ GrantsAreFresh /\ GatesAreLocked /\ PastTheCooldown
      /\ OneRowPerKey /\ CooldownKeepsDistance /\ AllOrNothing
      /\ t \in GrantStates /\ WroteItsRows(t) /\ t.at = "commit" /\ Ended(w)
      /\ claims' = claims \cup t.rows /\ payout_rows' = payout_rows \cup {t.grant} /\ paid' = paid + 1
      /\ UNCHANGED <<clock, grants>>
  BY DEF PayoutInv, PayoutTypeOK, CommitGrant
<1>1. /\ grant_tx'[w] = Idle /\ grant_tx'[w].at = "idle" /\ grant_tx'[w].rows = {}
      /\ \A v \in Granters \ {w} : grant_tx'[v] = grant_tx[v]
      /\ \A v \in Granters \ {w} : advisory = v => advisory' = v
  BY <1>0, IdleShape DEF Ended, PayoutTypeOK
<1>t. /\ t.rows \subseteq Rows /\ t.grant \in Nat /\ t.rows # {}
      /\ \A row \in t.rows : row.grant = t.grant /\ row.created <= clock
  BY <1>0 DEF GrantStates, WroteItsRows
<1>2. PayoutTypeOK'
  <2>1. grant_tx' \in [Granters -> GrantStates]
    BY <1>0, IdleShape DEF Ended, PayoutTypeOK
  <2>2. claims' \subseteq Rows
    BY <1>0, <1>t, Zenon DEF PayoutTypeOK
  <2>3. payout_rows' \subseteq Nat /\ clock' \in Nat /\ grants' \in Nat /\ paid' \in Nat
    <3>1. payout_rows \subseteq Nat /\ clock \in Nat /\ grants \in Nat /\ paid \in Nat
      BY <1>0 DEF PayoutTypeOK
    <3>2. payout_rows' \subseteq Nat
      BY <1>0, <1>t, <3>1, Zenon
    <3> QED BY <1>0, <3>1, <3>2, SMT
  <2> QED BY <2>1, <2>2, <2>3 DEF PayoutTypeOK
<1>3. \A v \in Granters : WroteItsRows(grant_tx[v])'
  BY <1>0, <1>1, SMT DEF WroteItsRows, HasCooldown
<1>4. KeysAreFree'
  BY <1>0, <1>1, SMT DEF KeysAreFree, Claimed
<1>5. GrantsAreFresh'
  <2>1. t.grant \notin payout_rows /\ t.grant <= grants /\ IsFiniteSet(payout_rows) /\ paid = Cardinality(payout_rows)
    BY <1>0 DEF GrantsAreFresh
  <2>2. IsFiniteSet(payout_rows') /\ paid' = Cardinality(payout_rows')
    BY <1>0, <2>1, FS_AddElement
  <2> QED BY <1>0, <1>1, <2>1, <2>2, SMT DEF GrantsAreFresh
<1>6. GatesAreLocked'
  BY <1>0, <1>1, SMT DEF GatesAreLocked, HasCooldown
<1>c. ASSUME NEW s \in CooldownRows(t.rows) PROVE HasCooldown(t) /\ advisory = w
  BY <1>0 DEF WroteItsRows, CooldownRows, GatesAreLocked
<1>7. PastTheCooldown'
  <2> SUFFICES ASSUME NEW v \in Granters \ {w}, grant_tx[v].at \in {"insert", "credit", "commit"},
                      HasCooldown(grant_tx[v]), NEW r \in CooldownRows(claims')
               PROVE  /\ r.created + Window <= clock
                      /\ \A s \in CooldownRows(grant_tx[v].rows) : r.created + Window <= s.created
    BY <1>0, <1>1, SMT DEF PastTheCooldown, HasCooldown, CooldownRows
  <2>1. advisory = v
    BY <1>0 DEF GatesAreLocked
  <2>2. r \in CooldownRows(claims)
    BY <1>0, <1>c, <2>1 DEF CooldownRows
  <2> QED BY <1>0, <2>2 DEF PastTheCooldown
<1>8. OneRowPerKey'
  BY <1>0, SMT DEF OneRowPerKey, KeysAreFree, Claimed
<1>9. CooldownKeepsDistance'
  <2>1. ASSUME NEW r \in CooldownRows(claims), NEW s \in CooldownRows(t.rows)
        PROVE  r.created + Window <= s.created
    BY <1>0, <1>c DEF PastTheCooldown
  <2>2. \A r \in claims' : r.created \in Nat
    BY <1>2 DEF PayoutTypeOK, Rows
  <2> QED BY <1>0, <1>t, <2>1, <2>2, WindowAssumption, SMT DEF CooldownKeepsDistance, CooldownRows
<1>10. AllOrNothing'
  <2>1. {row.grant : row \in claims'} = payout_rows'
    BY <1>0, <1>t DEF AllOrNothing
  <2>2. ASSUME NEW r \in claims', r.key[1] = "pair_day"
        PROVE  \E s \in claims' : s.grant = r.grant /\ s.key[1] = "per_event"
    BY <1>0, <1>t, <2>2, SMT DEF AllOrNothing, WroteItsRows
  <2> QED BY <2>1, <2>2, Zenon DEF AllOrNothing
<1> QED BY <1>2, <1>3, <1>4, <1>5, <1>6, <1>7, <1>8, <1>9, <1>10 DEF PayoutInv
\* grant_multi's inserts, each after the uncommitted row with its key, if any, is
\* decided.
LEMMA InsertRowInv == ASSUME PayoutInv, NEW w \in Granters, InsertRow(w) PROVE PayoutInv'
<1> DEFINE t == grant_tx[w]
           gate == t.gates[t.next]
           row == RowOf(gate, t.grant)
           last == t.next = Len(t.gates)
           step == IF last THEN "credit" ELSE "insert"
           to == [t EXCEPT !.at = step, !.next = t.next + 1, !.rows = t.rows \cup {row}]
<1>0. /\ PayoutTypeOK /\ t \in GrantStates /\ WroteItsRows(t) /\ t.at = "insert"
      /\ ~Uncommitted(w, row.key) /\ UNCHANGED <<clock, claims, payout_rows, paid, grants>>
  BY DEF PayoutInv, PayoutTypeOK, InsertRow, payoutTables
<1>1. CASE Claimed(row.key)
  BY <1>0, <1>1, RollbackInv DEF InsertRow
<1>2. CASE ~Claimed(row.key)
  <2>0. grant_tx' = [grant_tx EXCEPT ![w] = to] /\ UNCHANGED advisory
    BY <1>2, Zenon DEF InsertRow
  <2>1. gate \in GateSet /\ t.grant \in Nat /\ t.rows \subseteq Rows /\ t.next \in Nat
    BY <1>0 DEF WroteItsRows, GrantStates
  <2>2. /\ row \in Rows /\ row.key[1] = gate.kind /\ row.created = clock /\ row.grant = t.grant
    BY <1>0, <2>1, RowShape DEF PayoutTypeOK
  <2>3. /\ to \in GrantStates /\ to.gates = t.gates /\ to.rows = t.rows \cup {row} /\ to.grant = t.grant
        /\ to.at = step /\ to.next = t.next + 1
    <3>1. step \in Steps /\ t.next + 1 \in Nat /\ t.rows \cup {row} \in SUBSET Rows
      BY <2>1, <2>2 DEF Steps
    <3> HIDE DEF step, row, last
    <3>2. to \in GrantStates
      BY <1>0, <3>1, Zenon DEF GrantStates
    <3> QED BY <1>0, <3>1, <3>2, SMT DEF GrantStates
  <2> HIDE DEF to, row
  <2>4. /\ WellGated(t.gates) /\ t.next \in 1 .. Len(t.gates)
        /\ t.next = 1 => t.rows = {}
        /\ t.next = 2 => \E r \in t.rows : t.rows = {r} /\ r.key[1] = "per_event"
        /\ \A r \in t.rows : r.grant = t.grant /\ r.created <= clock
    BY <1>0 DEF WroteItsRows
  <2>5. \A r \in t.rows : r.key # row.key
    BY <2>2, <2>4, SMT DEF WellGated
  <2>6. WroteItsRows(to)
    <3>1. CASE t.next = 1 /\ last
      BY <1>0, <2>2, <2>3, <2>4, <3>1, SMT DEF WroteItsRows, WellGated, HasCooldown, PayoutTypeOK
    <3>2. CASE t.next = 1 /\ ~last
      BY <1>0, <2>2, <2>3, <2>4, <3>2, SMT DEF WroteItsRows, WellGated, HasCooldown, PayoutTypeOK
    <3>3. CASE t.next = 2
      BY <1>0, <2>2, <2>3, <2>4, <3>3, SMT DEF WroteItsRows, WellGated, HasCooldown, PayoutTypeOK
    <3>4. t.next = 1 \/ t.next = 2
      <4>1. t.next \in Nat /\ 1 <= t.next /\ t.next <= Len(t.gates) /\ Len(t.gates) \in {1, 2}
        BY <2>1, <2>4, SMT DEF WellGated
      <4>2. \A n \in Nat : \A m \in {1, 2} : 1 <= n /\ n <= m => n = 1 \/ n = 2
        BY SMT
      <4> QED BY <4>1, <4>2, Zenon
    <3> QED BY <3>1, <3>2, <3>3, <3>4, Zenon
  <2> HIDE DEF step
  <2> QED
    <3>1. to.at \in {"insert", "credit"}
      BY <2>3 DEF step
    <3> QED BY <1>0, <1>2, <2>0, <2>2, <2>3, <2>5, <2>6, <3>1, WriteInv
<1> QED BY <1>1, <1>2

\* grant_period's one statement, likewise.
LEMMA InsertOrSkipInv == ASSUME PayoutInv, NEW w \in Granters, InsertOrSkip(w) PROVE PayoutInv'
<1> DEFINE t == grant_tx[w]
           gate == t.gates[1]
           row == RowOf(gate, t.grant)
           to == [t EXCEPT !.at = "credit", !.rows = {row}]
<1>0. /\ PayoutTypeOK /\ t \in GrantStates /\ WroteItsRows(t) /\ t.at = "insert_or_skip"
      /\ ~Uncommitted(w, row.key) /\ UNCHANGED <<clock, claims, payout_rows, paid, grants>>
  BY DEF PayoutInv, PayoutTypeOK, InsertOrSkip, payoutTables
<1>1. CASE Claimed(row.key)
  BY <1>0, <1>1, RollbackInv DEF InsertOrSkip
<1>2. CASE ~Claimed(row.key)
  <2>0. grant_tx' = [grant_tx EXCEPT ![w] = to] /\ UNCHANGED advisory
    BY <1>2, Zenon DEF InsertOrSkip
  <2>1. gate \in GateSet /\ t.grant \in Nat /\ t.rows = {} /\ Len(t.gates) = 1 /\ gate.kind = "per_event"
    BY <1>0 DEF WroteItsRows, WellGated, GrantStates
  <2>2. /\ row \in Rows /\ row.key[1] = "per_event" /\ row.created = clock /\ row.grant = t.grant
    BY <1>0, <2>1, RowShape DEF PayoutTypeOK
  <2>3. /\ to \in GrantStates /\ to.gates = t.gates /\ to.rows = t.rows \cup {row} /\ to.grant = t.grant
        /\ to.at = "credit" /\ to.next = t.next
    <3>1. "credit" \in Steps /\ {row} \in SUBSET Rows
      BY <2>2 DEF Steps
    <3> HIDE DEF row
    <3>2. to \in GrantStates
      BY <1>0, <3>1, Zenon DEF GrantStates
    <3> QED BY <1>0, <2>1, <3>1, <3>2, SMT DEF GrantStates
  <2> HIDE DEF to, row
  <2>4. WroteItsRows(to)
    BY <1>0, <2>1, <2>2, <2>3, SMT DEF WroteItsRows, HasCooldown, PayoutTypeOK
  <2>5. ~HasCooldown(to)
    BY <2>1, <2>3 DEF HasCooldown
  <2> QED BY <1>0, <1>2, <2>0, <2>1, <2>2, <2>3, <2>4, <2>5, WriteInv
<1> QED BY <1>1, <1>2
-----------------------------------------------------------------------------
(* The theorems *)

\* Every step keeps the invariant.
LEMMA PayoutNextInv == PayoutInv /\ [PayoutNext]_payoutVars => PayoutInv'
<1> SUFFICES ASSUME PayoutInv, [PayoutNext]_payoutVars PROVE PayoutInv'
  OBVIOUS
<1>1. ASSUME NEW w \in Granters, NEW kind \in Kinds, NEW event \in Events, BeginGrant(w, kind, event)
      PROVE  PayoutInv'
  BY <1>1, BeginInv
<1>2. ASSUME NEW w \in Granters, GrantStep(w) PROVE PayoutInv'
  BY <1>2, LockInv, CheckGateInv, InsertRowInv, InsertOrSkipInv, CreditInv, CommitInv DEF GrantStep
<1>3. ASSUME NEW w \in Granters, Abort(w) PROVE PayoutInv'
  BY <1>3, RollbackInv DEF Abort, payoutTables
<1>4. CASE ClockTick
  BY <1>4, TickInv
<1>5. CASE UNCHANGED payoutVars
  BY <1>5 DEF payoutVars, PayoutInv, PayoutTypeOK, WroteItsRows, HasCooldown, KeysAreFree, Claimed,
     GrantsAreFresh, GatesAreLocked, PastTheCooldown, CooldownRows, OneRowPerKey, CooldownKeepsDistance,
     AllOrNothing
<1> QED
  BY <1>1, <1>2, <1>3, <1>4, <1>5 DEF PayoutNext, AllGranted, Kinds

\* The invariant holds of every behaviour.
THEOREM PayoutInvariant == PayoutSpec => []PayoutInv
  BY PayoutInitInv, PayoutNextInv, PTL DEF PayoutSpec

\* However grant_period, grant_cooldown and grant_multi race, retry and lose their
\* connections, an event and a pair's day are paid once, each claim with its ledger
\* row and its chips, a two-gate grant with both its rows.
THEOREM ClaimsAlwaysPayOnce == PayoutSpec => []ClaimsPayOnce
<1>1. PayoutInv => ClaimsPayOnce
  <2> SUFFICES ASSUME PayoutInv PROVE PaidOncePerKey
    BY DEF PayoutInv, ClaimsPayOnce
  <2>1. \A row \in claims : RowsOf(row.key) = {row}
    BY DEF PayoutInv, OneRowPerKey, RowsOf
  <2>2. paid = Cardinality({row.grant : row \in claims})
    BY DEF PayoutInv, AllOrNothing, GrantsAreFresh
  <2> QED BY <2>1, <2>2 DEF PaidOncePerKey
<1> QED BY <1>1, PayoutInvariant, PTL

\* Two payouts behind the cooldown gate are a window apart, although the gate is
\* read, the row is written and the transaction commits at different moments.
THEOREM CooldownAlwaysKeepsDistance == PayoutSpec => []CooldownKeepsDistance
<1>1. PayoutInv => CooldownKeepsDistance
  BY DEF PayoutInv
<1> QED BY <1>1, PayoutInvariant, PTL

=============================================================================
