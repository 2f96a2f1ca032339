------------------------------- MODULE PotInv -------------------------------
(***************************************************************************)
(* The inductive invariant behind the safety properties of module Pot: at  *)
(* each statement of a transaction, which locks it holds and which of its  *)
(* earlier checks those locks keep true.                                   *)
(***************************************************************************)
EXTENDS Pot

\* The statements between which a buy holds the pot's row.
BuyHoldsRow == {"buy_insert", "buy_debit", "buy_commit"}

\* The statements between which a sweep holds the advisory lock, and the row.
SettleHoldsAdvisory == SettleStatements \ {"settle_advisory"}
SettleHoldsRow == {"settle_holders", "settle_draw", "settle_roll", "settle_commit"}
SettleHasHat == {"settle_draw", "settle_roll", "settle_commit"}
SweepNamesPot == SettleHoldsRow \cup {"settle_lock", "announce", "claim_update", "claim_post"}

\* A buy that holds the row of its pot keeps it open, so the room it found under
\* the cap stays until COMMIT; once it also holds the buyer's chip row, so do the
\* chips it found above the floor.
BuyInv(b) ==
    /\ pc[b] \in BuyLabels
    /\ pc[b] # "idle" =>
           tx[b].user \in Users /\ tx[b].count \in Counts /\ tx[b].day <= DayOf(clock)
    /\ pc[b] \in {"buy_lock"} \cup BuyHoldsRow => tx[b].pot \in PotIds
    /\ pc[b] \in BuyHoldsRow =>
           rowLock[tx[b].pot] = b /\ pots[tx[b].pot].status = "open"
    /\ pc[b] \in {"buy_debit", "buy_commit"} =>
           tickets[tx[b].pot][tx[b].user][tx[b].day] + tx[b].count <= MaxTicketsPerDay
    /\ pc[b] = "buy_commit" =>
           /\ chipLock[tx[b].user] = b
           /\ balance[tx[b].user] - tx[b].count * TicketPrice >= ChipFloor

\* The advisory lock keeps the pot a sweep saw open from being settled by another
\* sweep, and no pot from being opened once it saw none; the row lock keeps the
\* hat it read complete.
SweepInv(s) ==
    /\ pc[s] \in SweepLabels
    /\ tx[s].now <= clock
    /\ pc[s] \in SettleHoldsAdvisory => advisory = s
    /\ pc[s] \in SweepNamesPot => tx[s].pot \in PotIds
    /\ pc[s] \in SettleHoldsRow \cup {"settle_lock"} => pots[tx[s].pot].status = "open"
    /\ pc[s] \in SettleHoldsRow =>
           rowLock[tx[s].pot] = s /\ pots[tx[s].pot].draws_at <= tx[s].now
    /\ pc[s] \in SettleHasHat => tx[s].hat = Hat(tickets[tx[s].pot])
    /\ pc[s] = "settle_roll" => tx[s].hat = {}
    /\ pc[s] \in SettleStatements \ {"settle_commit"} => tx[s].winner = None
    /\ pc[s] = "settle_commit" =>
           IF tx[s].winner = None
           THEN tx[s].hat = {}
           ELSE chipLock[tx[s].winner] = s /\ \E t \in tx[s].hat : HolderOf(t) = tx[s].winner
    /\ pc[s] = "open_first" => OpenPots = {}
    /\ pc[s] = "claim_update" => Hat(tickets[tx[s].pot]) # {}

\* The tables: one open pot, no ticket beyond the cap, settled rows whose numbers
\* are those of their tickets.
PotInvOf(p) ==
    /\ pots[p].status = "none" => pots[p] = NoRow
    /\ pots[p].status = "open" => pots[p].winner = None /\ pots[p].ticket_count = 0
                                  /\ pots[p].payout = 0
    /\ pots[p].status \in {"drawn", "rolled"} =>
           pots[p].ticket_count = Cardinality(Hat(tickets[p]))

TablesInv ==
    /\ \A p \in PotIds : PotInvOf(p)
    /\ \A p, q \in OpenPots : p = q
    /\ (\E p \in PotIds : pots[p] # NoRow) => OpenPots # {}
    /\ DailyCapIsExact
    /\ PotPaysOnce

\* The whole of it.
IInv ==
    /\ TypeOK
    /\ \A b \in Buyers : BuyInv(b)
    /\ \A s \in Sweepers : SweepInv(s)
    /\ TablesInv

-----------------------------------------------------------------------------
(* What DrawsAreOrderly needs beyond it *)

\* Rows are written in the order of their ids, the open one last, each to be drawn
\* later than the one before.
RowsFollow ==
    \A p, q \in PotIds :
        p < q /\ pots[q] # NoRow =>
            pots[p] # NoRow /\ pots[p].status # "open" /\ pots[p].draws_at < pots[q].draws_at

\* A line is posted after what it tells, and once: whoever is about to post one is
\* the only one who will, and nobody has.
PotLines(p) ==
    /\ lounge["drawn"][p] \in {0, 1} /\ (lounge["drawn"][p] = 1 => pots[p].status = "drawn")
    /\ lounge["closing"][p] \in {0, 1} /\ (lounge["closing"][p] = 1 => pots[p].reminded)

TellsOnce(s) ==
    /\ pc[s] = "announce" => pots[tx[s].pot].status = "drawn" /\ lounge["drawn"][tx[s].pot] = 0
    /\ pc[s] = "claim_post" => pots[tx[s].pot].reminded /\ lounge["closing"][tx[s].pot] = 0

TellersDiffer ==
    \A s, r \in Sweepers :
        s # r /\ pc[s] = pc[r] /\ pc[s] \in {"announce", "claim_post"} => tx[s].pot # tx[r].pot

OrderInv ==
    /\ RowsFollow
    /\ \A p \in PotIds : PotLines(p)
    /\ \A s \in Sweepers : TellsOnce(s)
    /\ TellersDiffer
=============================================================================
