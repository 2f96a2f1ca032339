----------------------------- MODULE ChipLedger -----------------------------
(***************************************************************************)
(* The chip wallet (late-core models/chips.rs): a statement that changes a *)
(* balance also writes its ledger row, except an admin's grant; a floor    *)
(* restore may lose its row on the way.  A gift or a gild is a transaction *)
(* of several statements; each write locks the user's row until the        *)
(* transaction ends, a statement waits for a locked row and then reads it  *)
(* anew, and Postgres breaks a cycle of waits by failing one.              *)
(***************************************************************************)
EXTENDS Integers, Sequences, FiniteSetsExt

CONSTANTS
    Users, Workers, NoOne,
    Initial,        \* INITIAL_CHIP_BALANCE
    Floor,          \* CHIP_FLOOR
    Amounts,        \* amounts of moves and gifts
    Share,          \* what an author gets of a gild's price
    MaxOps, MaxFaults  \* bounds: operations begun, transactions lost

ASSUME ChipsAssumption ==
    /\ NoOne \notin Workers /\ Initial \in Nat /\ Floor \in 0 .. Initial
    /\ Amounts \subseteq Nat \ {0} /\ MaxOps \in Nat /\ MaxFaults \in Nat
    /\ \A price \in Amounts : Share[price] \in 1 .. price - 1

VARIABLES
    rows,       \* users with a committed row of user_chips
    balance,    \* committed balance, 0 without a row
    ledger,     \* committed sum of the ledger's deltas, per user
    stipends,   \* committed InitialBalance rows, per user
    granted,    \* committed admin grants, per user
    lifted,     \* history: users a committed floor restore has raised
    in_transit, \* what committed gifts owe their recipients and have not paid
    locked,     \* who holds a user's row
    tx,         \* per worker: what it has left to do and has written
    ops, faults

ledgerVars == <<rows, balance, ledger, stipends, granted, lifted, in_transit, locked, tx, ops, faults>>
committed == <<rows, balance, ledger, stipends, granted, lifted, in_transit>>

None == [u \in Users |-> 0]

\* Statements: ensure_in, a floor-guarded debit, a crediting upsert, an update
\* without a ledger row, the floor restore, and the end of the transaction.
Stmt(do, u, amount, floor, owes) == [do |-> do, user |-> u, amount |-> amount, floor |-> floor, owes |-> owes]
Ensure(u) == Stmt("ensure", u, 0, 0, 0)
Debit(u, amount, floor) == Stmt("debit", u, amount, floor, 0)
Credit(u, amount) == Stmt("credit", u, amount, 0, 0)
Grant(u, amount) == Stmt("grant", u, amount, 0, 0)
Restore(u) == Stmt("restore", u, 0, 0, 0)
Commit == Stmt("commit", NoOne, 0, 0, 0)

NoTx == [todo |-> <<>>, delta |-> None, written |-> None, stipends |-> None, granted |-> None,
         lifted |-> {}, owes |-> 0, born |-> {}]

LedgerInit ==
    /\ rows = {} /\ balance = None /\ ledger = None /\ stipends = None
    /\ granted = None /\ lifted = {} /\ in_transit = 0
    /\ locked = [u \in Users |-> NoOne]
    /\ tx = [w \in Workers |-> NoTx]
    /\ ops = 0 /\ faults = 0

-----------------------------------------------------------------------------
(* Operations, as the statements they run *)

\* Mutant: a gift's debit is a statement of its own.
transfer_giftSplit(s, r, price, share) ==
    <<Ensure(s), Ensure(r), Stmt("debit", s, price, Floor, share), Commit,
      Stmt("credit", r, share, 0, -share), Commit>>

\* transfer_gift and transfer_gild.
transfer_gift(s, r, price, share) ==
    <<Ensure(s), Ensure(r), Stmt("debit", s, price, Floor, share), Stmt("credit", r, share, 0, -share), Commit>>

\* Nobody gifts or gilds themselves.
Pairs == {p \in Users \X Users : p[1] # p[2]}

\* apply on its own, ensure at login, restore_floor: one statement each;
\* admin_grant runs two outside a transaction.  Floors are restored for players a
\* house table has debited, who have a row.
Operations ==
    {<<Ensure(u), Commit>> : u \in Users}
    \cup {<<Credit(u, a), Commit>> : u \in Users, a \in Amounts}
    \cup {<<Debit(u, a, f), Commit>> : u \in Users, a \in Amounts, f \in {0, Floor}}
    \cup {<<Ensure(u), Commit, Grant(u, a), Commit>> : u \in Users, a \in Amounts}
    \cup {<<Restore(u), Commit>> : u \in rows}
    \cup {transfer_gift(p[1], p[2], a, a) : p \in Pairs, a \in Amounts}
    \cup {transfer_gift(p[1], p[2], a, Share[a]) : p \in Pairs, a \in Amounts}

Begin(w, op) ==
    /\ tx[w] = NoTx /\ ops < MaxOps
    /\ ops' = ops + 1
    /\ tx' = [tx EXCEPT ![w] = [NoTx EXCEPT !.todo = op]]
    /\ UNCHANGED <<committed, locked, faults>>

-----------------------------------------------------------------------------
(* Statements *)

Runs(w, do) == tx[w].todo # <<>> /\ Head(tx[w].todo).do = do

\* The row a statement of w sees, its own writes included.
Exists(w, u) == u \in rows \cup tx[w].born
Seen(w, u) == balance[u] + tx[w].delta[u]

Free(w, u) == locked[u] \in {NoOne, w}

Take(w, u) == locked' = [locked EXCEPT ![u] = w]

\* n more on one user's entry.
Add(f, u, n) == [f EXCEPT ![u] = @ + n]

\* The statement writes amount to the user's balance and to the ledger.
Write(w, u, amount) ==
    LET t == tx[w]
    IN  tx' = [tx EXCEPT ![w] = [t EXCEPT !.todo = Tail(t.todo), !.delta = Add(t.delta, u, amount),
                                          !.written = Add(t.written, u, amount),
                                          !.owes = t.owes + Head(t.todo).owes,
                                          !.born = IF Exists(w, u) THEN t.born ELSE t.born \cup {u}]]

Skip(w) == tx' = [tx EXCEPT ![w] = [tx[w] EXCEPT !.todo = Tail(tx[w].todo)]]

Done(w) ==
    /\ tx' = [tx EXCEPT ![w] = NoTx]
    /\ locked' = [u \in Users |-> IF locked[u] = w THEN NoOne ELSE locked[u]]

\* ensure_in: the insert waits for another's uncommitted row, and pays the stipend
\* only if there is none.
EnsureStmt(w, u) ==
    LET t == tx[w]
    IN  /\ Runs(w, "ensure") /\ u = Head(t.todo).user
        /\ \/ Exists(w, u) /\ Skip(w) /\ UNCHANGED locked
           \/ /\ ~Exists(w, u) /\ Free(w, u) /\ Take(w, u)
              /\ tx' = [tx EXCEPT ![w] = [t EXCEPT !.todo = Tail(t.todo), !.delta = Add(t.delta, u, Initial),
                                                   !.written = Add(t.written, u, Initial),
                                                   !.stipends = Add(t.stipends, u, 1),
                                                   !.born = t.born \cup {u}]]
        /\ UNCHANGED <<committed, ops, faults>>

Covers(w, u, amount, floor) == Seen(w, u) - amount >= floor

\* Mutant: a debit that is not covered leaves its transaction open.
DebitStmtOpen(w, u) ==
    LET amount == Head(tx[w].todo).amount
    IN  /\ Runs(w, "debit") /\ u = Head(tx[w].todo).user
        /\ IF Exists(w, u) /\ Free(w, u) /\ Covers(w, u, amount, Head(tx[w].todo).floor)
           THEN Take(w, u) /\ Write(w, u, -amount)
           ELSE UNCHANGED <<tx, locked>>
        /\ UNCHANGED <<committed, ops, faults>>

\* Mutant: a debit checks the balance without locking the row.
DebitStmtUnlocked(w, u) ==
    LET amount == Head(tx[w].todo).amount
    IN  /\ Runs(w, "debit") /\ u = Head(tx[w].todo).user
        /\ IF Exists(w, u) /\ Covers(w, u, amount, Head(tx[w].todo).floor)
           THEN Write(w, u, -amount) /\ UNCHANGED locked
           ELSE Done(w)
        /\ UNCHANGED <<committed, ops, faults>>

\* A debit waits for the row and checks it afterwards; one that cannot be covered
\* returns None, and its caller drops the transaction.
DebitStmt(w, u) ==
    LET amount == Head(tx[w].todo).amount
    IN  /\ Runs(w, "debit") /\ u = Head(tx[w].todo).user
        /\ \/ /\ Exists(w, u) /\ Free(w, u) /\ Covers(w, u, amount, Head(tx[w].todo).floor)
              /\ Take(w, u) /\ Write(w, u, -amount)
           \/ /\ ~Exists(w, u) \/ (Free(w, u) /\ ~Covers(w, u, amount, Head(tx[w].todo).floor))
              /\ Done(w)
        /\ UNCHANGED <<committed, ops, faults>>

\* A credit upserts: a missing row starts at the credited amount.
CreditStmt(w, u) ==
    /\ Runs(w, "credit") /\ u = Head(tx[w].todo).user
    /\ Free(w, u) /\ Take(w, u)
    /\ Write(w, u, Head(tx[w].todo).amount)
    /\ UNCHANGED <<committed, ops, faults>>

\* admin_grant's update.
GrantStmt(w, u) ==
    LET t == tx[w]
    IN  /\ Runs(w, "grant") /\ u = Head(t.todo).user
        /\ Free(w, u) /\ Take(w, u)
        /\ tx' = [tx EXCEPT ![w] = [t EXCEPT !.todo = Tail(t.todo),
                                             !.delta = Add(t.delta, u, Head(t.todo).amount),
                                             !.granted = Add(t.granted, u, Head(t.todo).amount)]]
        /\ UNCHANGED <<committed, ops, faults>>

\* restore_floor: one statement raises the row, and reads what it held with FOR
\* UPDATE to write the difference to the ledger.  The statement does not say which
\* comes first.  Its main query returns the raised row, so Postgres raises it
\* first; it does not return to FOR UPDATE a row this statement has updated, the
\* difference is then zero and no ledger row is written.
RestoreStmt(w, u) ==
    LET t == tx[w]
        up == Max({Floor - Seen(w, u), 0})
    IN  /\ Runs(w, "restore") /\ u = Head(t.todo).user
        /\ Free(w, u) /\ Take(w, u)
        /\ \E row \in {0, up} :
               tx' = [tx EXCEPT ![w] = [t EXCEPT !.todo = Tail(t.todo), !.delta = Add(t.delta, u, up),
                                                 !.written = Add(t.written, u, row),
                                                 !.lifted = IF up > 0 THEN t.lifted \cup {u} ELSE t.lifted]]
        /\ UNCHANGED <<committed, ops, faults>>

\* The writes land together.
CommitTx(w) ==
    LET t == tx[w]
    IN  /\ Runs(w, "commit")
        /\ rows' = rows \cup t.born
        /\ balance' = [u \in Users |-> Seen(w, u)]
        /\ ledger' = [u \in Users |-> ledger[u] + t.written[u]]
        /\ stipends' = [u \in Users |-> stipends[u] + t.stipends[u]]
        /\ granted' = [u \in Users |-> granted[u] + t.granted[u]]
        /\ lifted' = lifted \cup t.lifted
        /\ in_transit' = in_transit + t.owes
        /\ tx' = [tx EXCEPT ![w] = [NoTx EXCEPT !.todo = Tail(t.todo)]]
        /\ locked' = [u \in Users |-> IF locked[u] = w THEN NoOne ELSE locked[u]]
        /\ UNCHANGED <<ops, faults>>

\* A statement fails or the connection is lost.
Fail(w) ==
    /\ tx[w] # NoTx /\ faults < MaxFaults /\ faults' = faults + 1
    /\ Done(w)
    /\ UNCHANGED <<committed, ops>>

\* Who w waits for.
Waits(w) ==
    IF tx[w].todo = <<>> \/ Runs(w, "commit") \/ (Runs(w, "ensure") /\ Exists(w, Head(tx[w].todo).user))
    THEN NoOne
    ELSE IF locked[Head(tx[w].todo).user] = w THEN NoOne ELSE locked[Head(tx[w].todo).user]

\* Postgres's deadlock detector fails one of two who wait for each other.
Deadlocked(w) ==
    /\ Waits(w) # NoOne /\ Waits(Waits(w)) = w
    /\ Done(w)
    /\ UNCHANGED <<committed, ops, faults>>

Statement(w) ==
    \/ \E u \in Users : EnsureStmt(w, u) \/ DebitStmt(w, u) \/ CreditStmt(w, u) \/ GrantStmt(w, u)
                        \/ RestoreStmt(w, u)
    \/ CommitTx(w) \/ Deadlocked(w)

Rest == ops = MaxOps /\ (\A w \in Workers : tx[w] = NoTx) /\ UNCHANGED ledgerVars

LedgerNext == (\E w \in Workers : (\E op \in Operations : Begin(w, op)) \/ Statement(w) \/ Fail(w)) \/ Rest

LedgerSpec == LedgerInit /\ [][LedgerNext]_ledgerVars

-----------------------------------------------------------------------------
(* Properties *)

\* What leaves a sender in a gift or a gild reaches the other side whole, or
\* nothing left: whatever fails between the debit and the credit.
GiftsArriveWhole == in_transit = 0

\* Everyone is paid the starting stipend at most once, however many logins, gifts
\* and grants meet a user without a row at the same time.
StipendOnce == \A u \in Users : stipends[u] <= 1

\* A balance is its ledger's sum plus what admins granted, unless a floor restore
\* has raised it; and nobody's ledger claims more than the balance holds.  Nothing a
\* failed or deadlocked transaction had written stays in one and not the other.
LedgerExplainsBalance ==
    \A u \in Users :
        /\ ledger[u] + granted[u] <= balance[u]
        /\ u \notin lifted => ledger[u] + granted[u] = balance[u]

\* Chips come from somewhere and arrive: whatever fails between two statements and
\* whoever waits for whose row.
ChipsAreExplained == GiftsArriveWhole /\ StipendOnce /\ LedgerExplainsBalance

\* The admin's grant "is the one balance change with no ledger row" (chips.rs:765):
\* everybody's balance, floor restores included, is its ledger's sum plus grants.
\* A restore that raises the row before it reads it leaves no row either.
GrantIsTheOneUnwrittenChange ==
    \A u \in Users : balance[u] = ledger[u] + granted[u]

\* A gift that keeps the floor when it is checked keeps it when it lands: no
\* transaction takes a user who gives below the floor, whoever spends meanwhile.
GivingKeepsTheFloor ==
    [][\A w \in Workers, u \in Users :
          /\ Runs(w, "commit") /\ tx'[w] # tx[w]
          /\ tx[w].delta[u] < 0 /\ \E v \in Users : tx[w].delta[v] > 0
          => balance'[u] >= Floor]_ledgerVars

\* No operation waits for ever; two gifts that cross cost one of them its
\* transaction.
OperationEnds == \A w \in Workers : tx[w] # NoTx ~> tx[w] = NoTx

=============================================================================
