---------------------------- MODULE MCTransactions ----------------------------
(* An instance of Transactions for TLC: a node with the key of alice, a peer   *)
(* with that of carol, and orders of every type, some of them nonsense.        *)
EXTENDS Transactions

MCBook    == [alice |-> "A", carol |-> "C"]
MCAmounts == {-1, 5}
==============================================================================
