------------------------------ MODULE MCWallet ------------------------------
(***************************************************************************)
(* What the database keeps for a user: the operations of the chip wallet,  *)
(* the payouts for games, and the time spent online.  A payout's credit is *)
(* the last statement of its transaction and waits for one row, which      *)
(* GamePayout has as chips_row; no module writes another's variables, so a *)
(* behaviour moves one of them.                                            *)
(***************************************************************************)
EXTENDS ChipLedger, GamePayout, OnlineTime, TLC

CONSTANTS e1, e2, day

\* Two events against one opponent on one day.
MCPairDay == (e1 :> day) @@ (e2 :> day)

\* gild_author_share, rounded down.
MCShare == [price \in Amounts |-> price \div 2]

VARIABLE part    \* what moves in this behaviour

Init == part \in {"wallet", "payouts", "time"} /\ LedgerInit /\ PayoutInit /\ TimeInit

Next ==
    /\ UNCHANGED part
    /\ \/ part = "wallet" /\ LedgerNext /\ UNCHANGED <<payoutVars, timeVars>>
       \/ part = "payouts" /\ PayoutNext /\ UNCHANGED <<ledgerVars, timeVars>>
       \/ part = "time" /\ TimeNext /\ UNCHANGED <<ledgerVars, payoutVars>>

\* A running statement ends once nothing it waits for is locked.  Weak fairness
\* stands for Postgres's lock queue because operations are bounded: no lock can
\* be taken away from a waiter for ever.  The timer of a pod keeps flushing.
Fairness ==
    /\ \A w \in Workers : WF_ledgerVars(part = "wallet" /\ Statement(w))
    /\ \A w \in Granters : WF_payoutVars(part = "payouts" /\ GrantStep(w))
    /\ \A p \in Pods : WF_timeVars(part = "time" /\ (BeginBatch(p) \/ Submit(p)
                                                       \/ CommitConfirmed(p)))

Spec == Init /\ [][Next]_<<part, ledgerVars, payoutVars, timeVars>> /\ Fairness

\* No transaction on the wallet waits for ever, and no payout.
TransactionsEnd == OperationEnds /\ GrantEnds
=============================================================================
