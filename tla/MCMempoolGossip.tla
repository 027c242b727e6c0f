--------------------------- MODULE MCMempoolGossip ---------------------------
(* Instances of MempoolGossip for TLC.                                      *)
EXTENDS MempoolGossip

Place(type, from, to, what) == [type |-> type, from |-> from, to |-> to, what |-> what]

Score == [plain |-> 1, urgent |-> 2]

\* The first node's batch skips an unknown sender and ends at an unknown
\* receiver; both batches sign for ann, with the same nonce unless the one has
\* met the other.
SteadyBatches ==
    [ one |-> << Place("transfer", "eve", "ann", "plain"),
                 Place("transfer", "ann", "bob", "plain"),
                 Place("transfer", "ann", "eve", "plain") >>,
      two |-> << Place("stake", "ann", NoSender, "urgent"),
                 Place("reward", NoSender, "ann", "plain") >> ]
SteadyNodes == [one |-> "n1", two |-> "n2"]
SteadyOpening == [ann |-> 0]
==============================================================================
