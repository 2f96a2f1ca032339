----------------------------- MODULE GamePayout -----------------------------
(***************************************************************************)
(* game_payout.rs for one (user, game, payout_kind): replicas land the     *)
(* same milestone at the same time, retry it, and lose their connection    *)
(* half way.  The claims table decides who is paid.  A transaction sees    *)
(* committed claims only, an insert waits for an uncommitted row with its  *)
(* key, and a row of user_chips stays locked until its transaction ends.   *)
(*                                                                         *)
(* The paths are grant_period ("period", keyed by event), grant_cooldown   *)
(* ("cooldown"), and grant_multi as chips/svc.rs calls it: event and       *)
(* cooldown ("run"), event and pair day ("pair").  Every grant is worth    *)
(* one.                                                                    *)
(***************************************************************************)
EXTENDS Integers, FiniteSets, Sequences

CONSTANTS
    Granters,     \* connections that grant
    Events,      \* what is paid for: a run, a match
    PairDay,     \* the opponent and posting day of an event
    Window,      \* the cooldown
    MaxClock,    \* bound on the clock
    MaxGrants,   \* bound on grants begun
    MaxAborts    \* bound on transactions lost

ASSUME WindowAssumption == Window \in Nat \ {0} /\ MaxClock \in Nat /\ MaxGrants \in Nat /\ MaxAborts \in Nat

VARIABLES
    clock,      \* clock_timestamp()
    grant_tx,   \* per worker: its transaction
    advisory,   \* who holds the advisory lock of lock_payout, or Unlocked
    chips_row,  \* who has the user's row of user_chips locked, or Unlocked
    claims,     \* committed rows of game_payout_claims
    payout_rows, \* committed ledger rows, by grant
    paid,       \* the committed balance
    grants, aborts

payoutVars == <<clock, grant_tx, advisory, chips_row, claims, payout_rows, paid, grants, aborts>>
payoutTables == <<claims, payout_rows, paid>>

CONSTANT Unlocked
ASSUME NoOneAssumption == Unlocked \notin Granters

Unique(kind, key) == [gate |-> "unique", kind |-> kind, key |-> key]
Cooldown == [gate |-> "cooldown", kind |-> "cooldown", key |-> "now"]

\* The gates of a grant, in the order grant_multi meets them.
Gates(kind, event) ==
    CASE kind = "pair" -> <<Unique("per_event", event), Unique("pair_day", PairDay[event])>>
      [] kind = "run" -> <<Unique("per_event", event), Cooldown>>
      [] kind = "period" -> <<Unique("per_event", event)>>
      [] kind = "cooldown" -> <<Cooldown>>

Idle == [at |-> "idle", gates |-> <<>>, next |-> 0, rows |-> {}, grant |-> 0]

PayoutInit ==
    /\ clock = 0
    /\ grant_tx = [w \in Granters |-> Idle]
    /\ advisory = Unlocked /\ chips_row = Unlocked
    /\ claims = {} /\ payout_rows = {} /\ paid = 0
    /\ grants = 0 /\ aborts = 0

\* The key of the row a gate writes: a cooldown's is the moment.
KeyOf(gate) == IF gate.gate = "unique" THEN <<gate.kind, gate.key>> ELSE <<gate.kind, clock>>

RowOf(gate, grant) == [key |-> KeyOf(gate), created |-> clock, grant |-> grant]

Uncommitted(w, key) == \E v \in Granters \ {w} : \E row \in grant_tx[v].rows : row.key = key

Claimed(key) == \E row \in claims : row.key = key

\* A gate refuses.
Blocked(gate) ==
    IF gate.gate = "unique" THEN Claimed(KeyOf(gate))
    ELSE \E row \in claims : row.key[1] = gate.kind /\ row.created > clock - Window

-----------------------------------------------------------------------------
\* A caller starts a grant: grant_period in a statement of its own, the others in
\* a transaction that first takes the lock.
BeginGrant(w, kind, event) ==
    /\ grant_tx[w].at = "idle" /\ grants < MaxGrants
    /\ grants' = grants + 1
    /\ grant_tx' = [grant_tx EXCEPT ![w] = [at |-> IF kind = "period" THEN "insert_or_skip" ELSE "lock",
                                 gates |-> Gates(kind, event), next |-> 1, rows |-> {}, grant |-> grants + 1]]
    /\ UNCHANGED <<clock, advisory, chips_row, payoutTables, aborts>>

\* Mutant: the transaction does not wait for the lock.
lock_payoutNone(w) ==
    /\ grant_tx[w].at = "lock"
    /\ grant_tx' = [grant_tx EXCEPT ![w].at = "gates"]
    /\ UNCHANGED <<clock, advisory, chips_row, payoutTables, grants, aborts>>

\* lock_payout.
lock_payout(w) ==
    /\ grant_tx[w].at = "lock" /\ advisory = Unlocked
    /\ advisory' = w
    /\ grant_tx' = [grant_tx EXCEPT ![w].at = "gates"]
    /\ UNCHANGED <<clock, chips_row, payoutTables, grants, aborts>>

\* The transaction is over, and with it what it wrote and locked.
Ended(w) ==
    /\ grant_tx' = [grant_tx EXCEPT ![w] = Idle]
    /\ advisory' = IF advisory = w THEN Unlocked ELSE advisory
    /\ chips_row' = IF chips_row = w THEN Unlocked ELSE chips_row

\* One gate is read: a refusal rolls back, the last one passed starts the inserts.
\* grant_cooldown does both in one statement, which reads before it writes.
CheckGate(w) ==
    LET t == grant_tx[w]
        gate == t.gates[t.next]
        last == t.next = Len(t.gates)
    IN  /\ t.at = "gates"
        /\ IF Blocked(gate) THEN Ended(w)
           ELSE /\ grant_tx' = [grant_tx EXCEPT ![w] =
                       [t EXCEPT !.at = IF last THEN "insert" ELSE "gates", !.next = IF last THEN 1 ELSE t.next + 1]]
                /\ UNCHANGED <<advisory, chips_row>>
        /\ UNCHANGED <<clock, payoutTables, grants, aborts>>

\* A claim row is inserted once no uncommitted row has its key.  One committed
\* meanwhile is an error that aborts the transaction.
InsertRow(w) ==
    LET t == grant_tx[w]
        row == RowOf(t.gates[t.next], t.grant)
        last == t.next = Len(t.gates)
    IN  /\ t.at = "insert" /\ ~Uncommitted(w, row.key)
        /\ IF Claimed(row.key) THEN Ended(w)
           ELSE /\ grant_tx' = [grant_tx EXCEPT ![w] =
                       [t EXCEPT !.at = IF last THEN "credit" ELSE "insert", !.next = t.next + 1,
                                 !.rows = t.rows \cup {row}]]
                /\ UNCHANGED <<advisory, chips_row>>
        /\ UNCHANGED <<clock, payoutTables, grants, aborts>>

\* Mutant: the credit does not ask whether the claim was inserted.
InsertOrSkipPaying(w) ==
    LET row == RowOf(grant_tx[w].gates[1], grant_tx[w].grant)
    IN  /\ grant_tx[w].at = "insert_or_skip" /\ ~Uncommitted(w, row.key)
        /\ grant_tx' = [grant_tx EXCEPT ![w].rows = IF Claimed(row.key) THEN {} ELSE {row}, ![w].at = "credit"]
        /\ UNCHANGED <<clock, advisory, chips_row, payoutTables, grants, aborts>>

\* grant_period's ON CONFLICT DO NOTHING: nothing inserted, nothing credited.
InsertOrSkip(w) ==
    LET t == grant_tx[w]
        row == RowOf(t.gates[1], t.grant)
    IN  /\ t.at = "insert_or_skip" /\ ~Uncommitted(w, row.key)
        /\ IF Claimed(row.key) THEN Ended(w)
           ELSE /\ grant_tx' = [grant_tx EXCEPT ![w] = [t EXCEPT !.at = "credit", !.rows = {row}]]
                /\ UNCHANGED <<advisory, chips_row>>
        /\ UNCHANGED <<clock, payoutTables, grants, aborts>>

\* The upsert of user_chips and the ledger row.
CreditGrant(w) ==
    /\ grant_tx[w].at = "credit" /\ chips_row = Unlocked
    /\ chips_row' = w
    /\ grant_tx' = [grant_tx EXCEPT ![w].at = "commit"]
    /\ UNCHANGED <<clock, advisory, payoutTables, grants, aborts>>

CommitGrant(w) ==
    /\ grant_tx[w].at = "commit"
    /\ claims' = claims \cup grant_tx[w].rows
    /\ payout_rows' = payout_rows \cup {grant_tx[w].grant}
    /\ paid' = paid + 1
    /\ Ended(w)
    /\ UNCHANGED <<clock, grants, aborts>>

\* A statement fails or the connection is lost.
Abort(w) ==
    /\ grant_tx[w].at # "idle" /\ aborts < MaxAborts
    /\ aborts' = aborts + 1
    /\ Ended(w)
    /\ UNCHANGED <<clock, payoutTables, grants>>

ClockTick == clock < MaxClock /\ clock' = clock + 1
        /\ UNCHANGED <<grant_tx, advisory, chips_row, payoutTables, grants, aborts>>

GrantStep(w) == lock_payout(w) \/ CheckGate(w) \/ InsertRow(w) \/ InsertOrSkip(w) \/ CreditGrant(w) \/ CommitGrant(w)

AllGranted == grants = MaxGrants /\ clock = MaxClock /\ (\A w \in Granters : grant_tx[w] = Idle) /\ UNCHANGED payoutVars

PayoutNext ==
    \/ \E w \in Granters, kind \in {"period", "cooldown", "run", "pair"}, event \in Events : BeginGrant(w, kind, event)
    \/ \E w \in Granters : GrantStep(w) \/ Abort(w)
    \/ ClockTick \/ AllGranted

PayoutSpec == PayoutInit /\ [][PayoutNext]_payoutVars

-----------------------------------------------------------------------------
(* Properties *)

\* Rows of one key.
RowsOf(key) == {row \in claims : row.key = key}

\* An event is paid once, and so is a pair's day, whichever paths and replicas
\* raced for it; and the money is there exactly as often: one ledger row and one
\* credit per paid grant.
PaidOncePerKey ==
    /\ \A row \in claims : row.key[1] # "cooldown" => RowsOf(row.key) = {row}
    /\ paid = Cardinality({row.grant : row \in claims})

\* Two cooldown payouts are never closer than the window, although the gate and
\* the insert read the clock at different moments.
CooldownKeepsDistance ==
    \A r, s \in {row \in claims : row.key[1] = "cooldown"} :
        r.grant # s.grant => r.created - s.created >= Window \/ s.created - r.created >= Window

\* A grant behind two gates lands with both claims and its ledger row, or leaves
\* no trace.
AllOrNothing ==
    /\ {row.grant : row \in claims} = payout_rows
    /\ \A r \in claims : r.key[1] = "pair_day" => \E s \in claims : s.grant = r.grant /\ s.key[1] = "per_event"

\* A claim and its chips are one: paid once, with all its rows or none.
ClaimsPayOnce == PaidOncePerKey /\ AllOrNothing

\* No grant waits for ever: the locks are taken in one order by every path.
GrantEnds == \A w \in Granters : grant_tx[w].at # "idle" ~> grant_tx[w].at = "idle"

=============================================================================
