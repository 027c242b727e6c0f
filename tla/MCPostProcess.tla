---------------------------- MODULE MCPostProcess ----------------------------
(* Instances of PostProcess for TLC: two users with a wallet each and the   *)
(* Ledger System with its pool and burn wallets.                            *)
EXTENDS PostProcess

WalletSet == {"ann", "bob", "pool", "burn"}
UserSet   == {"Ann", "Bob", "Ledger System"}
OwnerMap  == [w \in WalletSet |-> CASE w = "ann" -> "Ann" [] w = "bob" -> "Bob"
                                    [] OTHER -> "Ledger System"]
Funds     == [w \in WalletSet |-> CASE w = "ann" -> 8 [] w = "pool" -> 3 [] OTHER -> 0]

Entry(type, from, to, amount, fee) ==
    [type |-> type, from |-> from, to |-> to, amount |-> amount, fee |-> fee]

\* One transaction of every type; "lost" goes to an address nobody has, "poor"
\* spends what bob may not have.
TxMap ==
    [ mint     |-> Entry("mint", "none", "bob", 1, 1),
      burn     |-> Entry("burn", "ann", "none", 1, 1),
      transfer |-> Entry("transfer", "ann", "bob", 1, 1),
      stake    |-> Entry("stake", "ann", "pool", 1, 1),
      unstake  |-> Entry("unstake", "ann", "ann", 1, 1),
      reward   |-> Entry("reward", "none", "bob", 2, 1),
      slash    |-> Entry("slash", "ann", "none", 1, 1),
      fund     |-> Entry("pool", "none", "pool", 1, 1),
      lost     |-> Entry("transfer", "ann", "none", 1, 1),
      poor     |-> Entry("transfer", "bob", "ann", 1, 1) ]
TxSet   == DOMAIN TxMap

\* Bodies are ordered by type as filter_valid_txs orders them.
SteadyBodies  == { <<"mint", "transfer">>, <<"burn", "transfer", "stake">>,
                   <<"unstake", "reward">>, <<"slash">> }
CrashBodies   == { <<"mint", "transfer">>, <<"transfer", "poor">>, <<"burn", "unstake", "fund">>, <<"slash">> }
=============================================================================
