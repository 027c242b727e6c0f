---------------------------- MODULE Transactions ----------------------------
(***************************************************************************)
(* The transaction records of one node, from an order to a confirmation:   *)
(* create_signed_tx (lib_transaction/tx_submittal.py), the record store    *)
(* and its index (tx_index_service.py), submission to the mempool, and the *)
(* confirmation that post-processing writes.                               *)
(*                                                                         *)
(* A record and its index entry are two writes, and the process can stop   *)
(* between them (job). What was made is in memory until it is submitted;   *)
(* records, index, queue and blocks are on disk. Peers send transactions   *)
(* this node has no record of. MempoolGossip has the queues and nonces of  *)
(* several nodes, and PostProcess the money.                               *)
(***************************************************************************)
EXTENDS TxRules, SequencesExt

CONSTANTS
    Book,       \* the address book: name of a wallet to its address
    Unknown,    \* a name the book does not have
    Pool,       \* address of the staking pool
    Keys,       \* addresses this node has the private key of
    PeerKeys,   \* addresses a peer has it of
    Amounts, Fees, Nonces, \* what orders may ask for
    MaxOrders,  \* bound: transactions made or heard of
    MaxBlocks,  \* bound: blocks
    MaxFaults   \* bound: stops of the process, records deleted by hand

ASSUME TransactionsAssumption ==
    /\ Unknown \notin DOMAIN Book
    /\ None \notin {Unknown, Pool} \cup DOMAIN Book \cup Range(Book)
    /\ Fees \subseteq DOMAIN MaxFee
    /\ Nonces \subseteq Nat
    /\ {MaxPool, MaxPerAccount, MaxNonceGap, MaxOrders, MaxBlocks, MaxFaults} \subseteq Nat

VARIABLES
    records,   \* record by hash
    index,     \* entry by hash
    made,      \* in memory: made and not yet submitted
    queue,     \* the mempool of the node
    blocks,    \* transactions of the blocks, in order
    settled,   \* blocks that are post-processed
    at,        \* in memory: transactions of the next block already confirmed
    job,       \* the operation whose first write is done, at most one
    cut,       \* history: operations cut off and not made good since
    orders, faults

vars == <<records, index, made, queue, blocks, settled, at, job, cut, orders, faults>>

IndexFields == {"type", "from", "to", "nonce", "amount", "fee", "block", "status"}
Entry(rec)  == [f \in IndexFields |-> rec[f]]

Idle == job = {}

Put(f, h, v)  == [x \in DOMAIN f \cup {h} |-> IF x = h THEN v ELSE f[x]]
Dropped(f, h) == [x \in DOMAIN f \ {h} |-> f[x]]

Init ==
    /\ records = << >> /\ index = << >>
    /\ made = {} /\ queue = << >>
    /\ blocks = << >> /\ settled = 0 /\ at = 0
    /\ job = {} /\ cut = {} /\ orders = 0 /\ faults = 0

------------------------------------------------------------------------------
\* Making a transaction

Names == DOMAIN Book \cup {Unknown}
Orders == [type : Types, from : Names \cup {None}, to : Names \cup {None},
           nonce : Nonces \cup {None}, amount : Amounts, fee : Fees]

Resolve(name) == IF name \in DOMAIN Book THEN Book[name] ELSE None

\* A stake goes to the pool whatever the order says, and what is unstaked
\* returns to the sender unless the order names another.
Receiver(o) ==
    CASE o.type = "stake" -> Pool
      [] o.type = "unstake" /\ o.to = None -> Resolve(o.from)
      [] OTHER -> Resolve(o.to)

\* Names must be known, except the receiver of an "unstake": that one is left
\* to the rules.
Resolved(o) ==
    /\ There(o.from) => There(Resolve(o.from))
    /\ There(o.to) /\ o.type \notin {"stake", "unstake"} => There(Resolve(o.to))

CreateSignedTx(o) ==
    [type |-> o.type, from |-> Resolve(o.from), to |-> Receiver(o), nonce |-> o.nonce,
     amount |-> o.amount, fee |-> o.fee,
     signature |-> IF o.type \in Signed THEN "signed" ELSE None]

Creatable(o, keys) ==
    /\ Resolved(o)
    /\ o.type \in Signed <=> There(o.nonce)
    /\ o.type \in Signed => Resolve(o.from) \in keys
    /\ Valid(CreateSignedTx(o))

\* What a holder of keys can make.
Creations(keys) == {CreateSignedTx(o) : o \in {x \in Orders : Creatable(x, keys)}}
Own    == Creations(Keys)
Theirs == Creations(PeerKeys)

Fresh(tx) == [type |-> tx.type, from |-> tx.from, to |-> tx.to, nonce |-> tx.nonce,
              amount |-> tx.amount, fee |-> tx.fee, signature |-> tx.signature,
              block |-> None, status |-> "pending"]

\* The record first. System orders with the same content have the same hash:
\* the record of the first is overwritten.
Make(tx) ==
    /\ Idle /\ orders < MaxOrders
    /\ records' = Put(records, Hash(tx), Fresh(tx))
    /\ job' = {[op |-> "make", hash |-> Hash(tx)]}
    /\ orders' = orders + 1
    /\ UNCHANGED <<index, made, queue, blocks, settled, at, cut, faults>>

\* Then its entry; the call returns the transaction.
MakeEntry ==
    \E j \in job :
        /\ j.op = "make"
        /\ index' = Put(index, j.hash, Entry(records[j.hash]))
        /\ made' = made \cup {records[j.hash]}
        /\ cut' = {c \in cut : c.hash # j.hash}
        /\ job' = {}
        /\ UNCHANGED <<records, queue, blocks, settled, at, orders, faults>>

------------------------------------------------------------------------------
\* The mempool and the blocks

Queue(tx) == queue' = Append(queue, tx)

\* What is refused is raised to the client, who drops it.
Submit(tx) ==
    /\ Idle /\ tx \in made
    /\ made' = made \ {tx}
    /\ IF PoolAccepts(tx, queue) THEN Queue(tx) ELSE UNCHANGED queue
    /\ UNCHANGED <<records, index, blocks, settled, at, job, cut, orders, faults>>

\* A transaction a peer made; one that is refused is dropped.
HandleNetworkTx(tx) ==
    /\ Idle /\ orders < MaxOrders
    /\ \A i \in DOMAIN queue : Hash(queue[i]) # Hash(tx)
    /\ PoolAccepts(tx, queue)
    /\ Queue(Fresh(tx))
    /\ orders' = orders + 1
    /\ UNCHANGED <<records, index, made, blocks, settled, at, job, cut, faults>>

\* The proposer takes everything (in an order of its own, see MempoolGossip): a
\* transaction that breaks the maker's rules keeps it from ever proposing. What
\* it took is lost if the block is not stored.
Propose ==
    /\ Idle /\ queue # << >> /\ Len(blocks) < MaxBlocks
    /\ \A i \in DOMAIN queue : Valid(queue[i])
    /\ queue' = << >>
    /\ blocks' \in {Append(blocks, queue), blocks}
    /\ UNCHANGED <<records, index, made, settled, at, job, cut, orders, faults>>

------------------------------------------------------------------------------
\* Confirmation: transaction by transaction, record first

Body == blocks[settled + 1]
Next1 == Hash(Body[at + 1])
Confirming == Idle /\ settled < Len(blocks) /\ at < Len(Body)

Confirmed(rec, n) == [rec EXCEPT !.status = "confirmed", !.block = n]

\* Faulty: the number of the block does not reach the entry.
ConfirmedEntryStatus(entry, n) == [entry EXCEPT !.status = "confirmed"]

\* Of what changes, the fields of the index.
ConfirmedEntry(entry, n) == [entry EXCEPT !.status = "confirmed", !.block = n]

Update ==
    /\ Confirming /\ Next1 \in DOMAIN records
    /\ records' = [records EXCEPT ![Next1] = Confirmed(@, settled + 1)]
    /\ job' = {[op |-> "update", hash |-> Next1]}
    /\ UNCHANGED <<index, made, queue, blocks, settled, at, cut, orders, faults>>

\* Without a record there is nothing to do.
UpdateNone ==
    /\ Confirming /\ Next1 \notin DOMAIN records
    /\ at' = at + 1
    /\ UNCHANGED <<records, index, made, queue, blocks, settled, job, cut, orders, faults>>

\* The entry must be there.
UpdateEntry ==
    \E j \in job :
        /\ j.op = "update" /\ j.hash \in DOMAIN index
        /\ index' = [index EXCEPT ![j.hash] = ConfirmedEntry(@, settled + 1)]
        /\ cut' = {c \in cut : c.hash # j.hash}
        /\ at' = at + 1
        /\ job' = {}
        /\ UNCHANGED <<records, made, queue, blocks, settled, orders, faults>>

\* It is not: the assertion ends this round of post-processing.
UpdateFails ==
    \E j \in job :
        /\ j.op = "update" /\ j.hash \notin DOMAIN index
        /\ cut' = cut \cup {j}
        /\ at' = 0
        /\ job' = {}
        /\ UNCHANGED <<records, index, made, queue, blocks, settled, orders, faults>>

Settle ==
    /\ Idle /\ settled < Len(blocks) /\ at = Len(Body)
    /\ settled' = settled + 1
    /\ at' = 0
    /\ UNCHANGED <<records, index, made, queue, blocks, job, cut, orders, faults>>

------------------------------------------------------------------------------
\* Maintenance, and the end of the process

\* Faulty: the entry goes first.
DeleteEntryFirst(h) ==
    /\ Idle /\ faults < MaxFaults /\ h \in DOMAIN records
    /\ index' = Dropped(index, h)
    /\ job' = {[op |-> "delete", hash |-> h]}
    /\ faults' = faults + 1
    /\ UNCHANGED <<records, made, queue, blocks, settled, at, cut, orders>>

Delete(h) ==
    /\ Idle /\ faults < MaxFaults /\ h \in DOMAIN records
    /\ records' = Dropped(records, h)
    /\ job' = {[op |-> "delete", hash |-> h]}
    /\ faults' = faults + 1
    /\ UNCHANGED <<index, made, queue, blocks, settled, at, cut, orders>>

DeleteEntry ==
    \E j \in job :
        /\ j.op = "delete"
        /\ index' = Dropped(index, j.hash)
        /\ cut' = {c \in cut : c.hash # j.hash}
        /\ job' = {}
        /\ UNCHANGED <<records, made, queue, blocks, settled, at, orders, faults>>

\* One write, of everything.
RebuildIndex ==
    /\ Idle
    /\ index' = [h \in DOMAIN records |-> Entry(records[h])]
    /\ cut' = {}
    /\ UNCHANGED <<records, made, queue, blocks, settled, at, job, orders, faults>>

\* Post-processing starts the block again.
Crash ==
    /\ faults < MaxFaults
    /\ made' = {} /\ at' = 0 /\ job' = {}
    /\ cut' = cut \cup job
    /\ faults' = faults + 1
    /\ UNCHANGED <<records, index, queue, blocks, settled, orders>>

Next ==
    \/ \E tx \in Own : Make(tx)
    \/ \E tx \in Theirs : HandleNetworkTx(tx)
    \/ MakeEntry
    \/ \E tx \in made : Submit(tx)
    \/ Propose
    \/ Update \/ UpdateNone \/ UpdateEntry \/ UpdateFails \/ Settle
    \/ \E h \in DOMAIN records : Delete(h)
    \/ DeleteEntry \/ RebuildIndex \/ Crash

Spec == Init /\ [][Next]_vars

------------------------------------------------------------------------------
(***************************************************************************)
(* Properties.                                                             *)
(***************************************************************************)
\* The three sets of rules agree: what create_signed_tx returns is never refused
\* by the mempool for its form or its fees, and what is in the mempool is
\* broadcast to the peers and never keeps the proposer from a valid candidate block.
PassesOn ==
    /\ \A tx \in made : PoolFormat(tx) /\ FeePolicy(tx)
    /\ \A i \in DOMAIN queue : MayBroadcast(queue[i]) /\ Valid(queue[i])

\* update_index_entry asserts that the entry is there, and post-processing can
\* not get past a block whose transaction has a record and no entry: that needs
\* a making that was cut off, and no other operation leaves it behind.
ConfirmNeverStuck ==
    \A b \in settled + 1 .. Len(blocks) : \A i \in DOMAIN blocks[b] :
        LET h == Hash(blocks[b][i]) IN
        Idle /\ h \in DOMAIN records /\ h \notin DOMAIN index =>
            \E c \in cut : c.hash = h /\ c.op = "make"

\* A record is kept under the hash of what it holds, and its entry shows it as
\* it is, unless an operation on it is under way or was cut off.
IndexTrue ==
    /\ \A h \in DOMAIN records : Hash(records[h]) = h
    /\ \A h \in DOMAIN records \cup DOMAIN index :
        (\A c \in job \cup cut : c.hash # h) =>
            /\ h \in DOMAIN records /\ h \in DOMAIN index
            /\ index[h] = Entry(records[h])
==============================================================================
