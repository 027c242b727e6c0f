------------------------------- MODULE TxRules -------------------------------
(***************************************************************************)
(* A transaction and the three sets of rules it meets, each written apart  *)
(* from the others: those of its maker (lib_transaction/tx_validation.py,  *)
(* asked again of every transaction of a candidate block), those of the    *)
(* mempool (mempool_config.py), and those asked before it is broadcast     *)
(* (mempool_validation.py).                                                *)
(*                                                                         *)
(* An address, a signature or a hash that is there is well-formed: the     *)
(* first two come from keys, and the hash stands for the fields it is      *)
(* computed from. Amounts are whole, fees are a class of FEE_DEFAULTS.     *)
(***************************************************************************)
EXTENDS Integers, Sequences, FiniteSets

CONSTANTS
    None,           \* Python's None
    MaxPool, MaxPerAccount, MaxNonceGap  \* limits of MempoolConfig

Types  == {"transfer", "mint", "burn", "pool", "stake", "unstake", "reward", "slash",
           "contract_call", "contract_deploy", "governance"}
Signed == {"transfer", "stake", "unstake", "burn"}  \* USER_SIGNED_TX_TYPES
Issued == {"mint", "reward", "pool"}                \* from nobody
Moved  == {"transfer", "stake", "unstake"}          \* from one account to another

MaxFee      == [slow |-> 20, standard |-> 40, fast |-> 80, urgent |-> 200]
PriorityFee == [slow |-> 1,  standard |-> 2,  fast |-> 5,  urgent |-> 10]

GasLimit == 21000   \* DEFAULT_GAS_LIMIT: templates hold none
MinGas   == 21000
MaxGas   == 30000000
MinPriorityFee == 1

There(x) == x # None

\* The hash stands for the canonical fields: no time, no signature, no status.
CanonicalFields == {"type", "from", "to", "nonce", "amount", "fee"}
Hash(tx) == [f \in CanonicalFields |-> tx[f]]

------------------------------------------------------------------------------
\* Rules of the maker

Structure(tx) ==
    /\ tx.type \in Issued =>
        ~There(tx.from) /\ There(tx.to) /\ ~There(tx.nonce) /\ ~There(tx.signature)
    /\ tx.type = "burn" => There(tx.from) /\ ~There(tx.to) /\ There(tx.nonce)
    /\ tx.type = "slash" =>
        There(tx.from) /\ ~There(tx.to) /\ ~There(tx.nonce) /\ ~There(tx.signature)
    /\ tx.type \in Moved =>
        There(tx.from) /\ There(tx.to) /\ There(tx.nonce) /\ There(tx.signature)
    /\ tx.type = "transfer" => tx.from # tx.to
    /\ tx.type \notin Issued \cup Moved \cup {"burn", "slash"} =>
        There(tx.from) /\ There(tx.nonce) /\ There(tx.signature)

GasFees(tx) ==
    /\ MaxFee[tx.fee] > 0
    /\ PriorityFee[tx.fee] \in 0..MaxFee[tx.fee]
    /\ GasLimit >= MinGas

\* Of the schema's rules, the ones a value of the right type can break.
Fields(tx) ==
    /\ tx.amount >= 0
    /\ There(tx.nonce) => tx.nonce >= 0

Valid(tx) == tx.type \in Types /\ Structure(tx) /\ GasFees(tx) /\ Fields(tx)

------------------------------------------------------------------------------
\* Rules of the mempool

\* Faulty: every type needs a receiver.
PoolFormatReceiver(tx) == There(tx.to) /\ (tx.type \in Moved => There(tx.nonce))

\* No word on "pool" and on contracts.
PoolFormat(tx) ==
    /\ tx.type \in Moved => There(tx.from) /\ There(tx.to) /\ There(tx.nonce)
    /\ tx.type = "burn" => There(tx.from) /\ There(tx.nonce)
    /\ tx.type = "slash" => There(tx.from)
    /\ tx.type \in {"mint", "reward"} => There(tx.to)

FeePolicy(tx) ==
    /\ PriorityFee[tx.fee] >= MinPriorityFee
    /\ GasLimit \in MinGas..MaxGas

\* pool: the transactions that are there; None counts as an account.
Room(tx, pool) ==
    /\ Len(pool) < MaxPool
    /\ Cardinality({i \in DOMAIN pool : pool[i].from = tx.from}) < MaxPerAccount

PendingNonces(a, pool) == {pool[i].nonce : i \in {j \in DOMAIN pool : pool[j].from = a}}

\* The state of an account has no "next_nonce": the gap is counted from 0.
NonceInSequence(tx, pool) ==
    There(tx.nonce) =>
        /\ tx.nonce \in 0..MaxNonceGap
        /\ tx.nonce \notin PendingNonces(tx.from, pool)

PoolAccepts(tx, pool) ==
    PoolFormat(tx) /\ FeePolicy(tx) /\ Room(tx, pool) /\ NonceInSequence(tx, pool)

\* Asked of what is broadcast, with an empty pool.
MayBroadcast(tx) == PoolAccepts(tx, << >>)
==============================================================================
