------------------------------- MODULE MCPot -------------------------------
(* Module Pot with two buys and two sweeps. *)
EXTENDS PotInv, TLC

CONSTANTS MaxBusy    \* bound: transactions and sweeps under way at one time

MCDays == 0 .. MaxClock

Busy == {w \in Workers : pc[w] # "idle"}

AtMostMaxBusy == Cardinality(Busy) <= MaxBusy

Symmetry == Permutations(Buyers) \cup Permutations(Sweepers)
=============================================================================
