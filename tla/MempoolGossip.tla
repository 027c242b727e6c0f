---------------------------- MODULE MempoolGossip ----------------------------
(***************************************************************************)
(* Transactions from the order of a client to a block: batches             *)
(* (lib_transaction/tx_submittal.py), nonces (lib_nonce), the mempool of   *)
(* each node (lib_mempool) and the gossip between the nodes of a process   *)
(* (lib_network/net_node.py, loopback_adapter.py).                         *)
(*                                                                         *)
(* Everything runs in one event loop: an action is what happens between    *)
(* two suspension points. A broadcast is one task per peer (sends), and a  *)
(* delivery starts another one that admits (arrivals); a client sleeps     *)
(* between making a transaction and submitting it.                         *)
(*                                                                         *)
(* Abstractions: the hash of a transaction is injective in its canonical   *)
(* fields, and is the transaction here; those fields hold no time, so two  *)
(* system orders with the same content are one transaction. The queue and  *)
(* its copy on disk are one variable: every change is saved in the same    *)
(* step. What the content of an order must be, and the format, gas and     *)
(* size checks of a mempool, are left out (TxRules has them): they depend  *)
(* on the transaction alone, so what one node admits passes them at every  *)
(* other node and before every broadcast. A client holds the key of every  *)
(* address in its book.                                                    *)
(***************************************************************************)
EXTENDS Integers, Sequences, Bags, SequencesExt, FiniteSetsExt

CONSTANTS
    Nodes, Late, First, \* nodes; those whose adapter comes late; the one post-processing reads
    Senders,            \* addresses with a wallet
    NoSender, NoNonce,  \* None
    Book,               \* addresses in the address book
    Pool,               \* that of "Ledger System_pool"
    Clients, ClientNode, Batch, \* batches of orders, and where they are given
    Priority,           \* score of an order's content
    Opening,            \* nonce of each sender at the start
    MaxPool, MaxPerAccount, MaxNonceGap, \* limits of MempoolConfig
    SettleFirst,        \* batches start only when the node's blocks are settled
    MaxBlocks,          \* bound: blocks, over all nodes
    MaxExpiries         \* bound: sweeps that find something too old, over all nodes

Signed   == {"transfer", "stake", "unstake", "burn"}  \* USER_SIGNED_TX_TYPES
Sent     == Signed \cup {"slash"}                      \* must have a sender
Received == {"transfer", "stake", "unstake", "mint", "reward", "pool"}  \* a receiver
Counted  == {"transfer", "stake", "burn", "slash"}    \* add to sender_tx_counts

ASSUME GossipAssumption ==
    /\ Late \subseteq Nodes /\ First \in Nodes
    /\ NoSender \notin Senders /\ NoNonce \notin Nat
    /\ ClientNode \in [Clients -> Nodes]
    /\ Opening \in [Senders -> Nat]
    /\ {MaxPool, MaxPerAccount, MaxNonceGap, MaxBlocks, MaxExpiries} \subseteq Nat

VARIABLES
    registry,  \* LOOPBACK_REGISTRY
    queue,     \* tx_queue of each node
    sends,     \* tasks of a broadcast that have not run
    arrivals,  \* tasks of handle_network_tx that have not run
    included,  \* what the proposer of each node took for its blocks, a body each
    settled,   \* how many bodies of First are post-processed
    pending, confirmed, \* transaction records of First, by status
    nonce,     \* canonical nonce in the wallet of each sender
    client,    \* the run of each batch
    heard,     \* history: what each node ever admitted
    owed,      \* history: who was there when a node admitted what
    expiries   \* history: sweeps so far

vars == <<registry, queue, sends, arrivals, included, settled, pending, confirmed, nonce,
          client, heard, owed, expiries>>
chainVars == <<included, settled, pending, confirmed, nonce>>

Tx(type, from, n, what) == [type |-> type, from |-> from, nonce |-> n, what |-> what]

------------------------------------------------------------------------------
\* Admission

Of(n, a)            == {i \in DOMAIN queue[n] : queue[n][i].from = a}
PendingNonces(n, a) == {queue[n][i].nonce : i \in Of(n, a)} \ {NoNonce}

\* Known to the pool by its hash; asked only of what comes from a peer.
Known(n, tx) == tx \in ToSet(queue[n])

\* Faulty: only the newest transaction of the pool is looked at.
NonceTakenNewest(n, tx) ==
    /\ tx.nonce # NoNonce /\ tx.from # NoSender /\ queue[n] # <<>>
    /\ LET last == Last(queue[n]) IN last.from = tx.from /\ last.nonce = tx.nonce

NonceTaken(n, tx) ==
    tx.nonce # NoNonce /\ tx.from # NoSender /\ tx.nonce \in PendingNonces(n, tx.from)

\* account_state has no "next_nonce", so the account's nonce counts as 0: none
\* is too low, and the gap is measured from 0.
WithinLimits(n, tx) ==
    /\ Len(queue[n]) < MaxPool
    /\ Cardinality(Of(n, tx.from)) < MaxPerAccount
    /\ tx.nonce # NoNonce => tx.nonce <= MaxNonceGap

Admissible(n, tx) == ~NonceTaken(n, tx) /\ WithinLimits(n, tx)

\* Faulty: only the nodes that started first are told.
PeersAtStart(n) == registry \ ({n} \cup Late)

Peers(n) == registry \ {n}

\* A broadcast: one task for every peer registered now.
Broadcast(n, tx) == SetToBag({[from |-> n, to |-> p, tx |-> tx] : p \in Peers(n)})

\* Appended, saved and broadcast.
Admit(n, tx) ==
    /\ queue' = [queue EXCEPT ![n] = Append(@, tx)]
    /\ heard' = [heard EXCEPT ![n] = @ \cup {tx}]
    /\ owed' = owed \cup (registry \X {tx})
    /\ sends' = sends (+) Broadcast(n, tx)

------------------------------------------------------------------------------
\* A client submits a batch

Idle == [pc |-> "idle", at |-> 1, next |-> [a \in {} |-> 0], tx |-> NoSender, error |-> "none"]

Order(c) == Batch[c][client[c].at]
Busy(n)  == {c \in Clients : ClientNode[c] = n /\ client[c].pc \in {"ready", "made"}}
IsSigned(o) == o.type \in Signed

Init ==
    /\ registry = Nodes \ Late
    /\ queue = [n \in Nodes |-> <<>>]
    /\ sends = EmptyBag
    /\ arrivals = EmptyBag
    /\ included = [n \in Nodes |-> <<>>]
    /\ settled = 0
    /\ pending = {}
    /\ confirmed = {}
    /\ nonce = Opening
    /\ client = [c \in Clients |-> Idle]
    /\ heard = [n \in Nodes |-> {}]
    /\ owed = {}
    /\ expiries = 0

\* get_pending_nonces: of all that is pending here, whoever sent it.
AllPendingNonces(n) == {queue[n][i].nonce : i \in DOMAIN queue[n]} \ {NoNonce}

\* calculate_next_nonce
NextNonce(n, a) ==
    LET waiting == AllPendingNonces(n) IN
    IF waiting = {} THEN nonce[a]
    ELSE Max({nonce[a], Max(waiting) + 1})

\* The nonces of a batch are read once, before its first transaction.
StartBatch(c) ==
    LET n == ClientNode[c]
        signers == {o.from : o \in {p \in ToSet(Batch[c]) : IsSigned(p)}} \cap Book
    IN
    /\ client[c].pc = "idle"
    /\ n \in registry
    /\ Busy(n) = {}
    /\ SettleFirst => settled = Len(included[First])
    /\ client' = [client EXCEPT ![c] =
         [@ EXCEPT !.pc = "ready", !.next = [a \in signers |-> NextNonce(n, a)]]]
    /\ UNCHANGED <<registry, queue, sends, arrivals, chainVars, heard, owed, expiries>>

More(c) == client[c].pc = "ready" /\ client[c].at <= Len(Batch[c])

\* The sends of the transaction submitted last are awaited.
SendsDone(c) ==
    ~\E m \in BagToSet(sends) : m.from = ClientNode[c] /\ m.tx = client[c].tx

\* Only a sender that is named can be looked for.
Skips(o) == IsSigned(o) /\ o.from # NoSender /\ o.from \notin Book

SkipOrder(c) ==
    /\ More(c) /\ SendsDone(c) /\ Skips(Order(c))
    /\ client' = [client EXCEPT ![c].at = @ + 1]
    /\ UNCHANGED <<registry, queue, sends, arrivals, chainVars, heard, owed, expiries>>

\* A stake goes to the pool whatever the order says, and what is unstaked
\* returns to the sender unless the order names another.
Receiver(o) ==
    CASE o.type = "stake" -> Pool
      [] o.type = "unstake" /\ o.to = NoSender -> o.from
      [] OTHER -> o.to

\* Addresses must resolve, and validate_structure_by_type asks for both ends
\* by the type; a signed order without a sender has no nonce either.
Makeable(o) ==
    /\ {o.from, Receiver(o)} \ {NoSender} \subseteq Book
    /\ o.type \in Sent \cup Received
    /\ o.from # NoSender <=> o.type \in Sent
    /\ Receiver(o) # NoSender <=> o.type \in Received
    /\ o.type = "transfer" => o.from # Receiver(o)

OrderFails(c) ==
    /\ More(c) /\ SendsDone(c) /\ ~Skips(Order(c)) /\ ~Makeable(Order(c))
    /\ client' = [client EXCEPT ![c].pc = "failed", ![c].error = "order"]
    /\ UNCHANGED <<registry, queue, sends, arrivals, chainVars, heard, owed, expiries>>

\* create_signed_tx saves the record, as pending, before the client sleeps.
MakeTx(c) ==
    LET o  == Order(c)
        tx == Tx(o.type, o.from, IF IsSigned(o) THEN client[c].next[o.from] ELSE NoNonce, o.what)
    IN
    /\ More(c) /\ SendsDone(c) /\ ~Skips(o) /\ Makeable(o)
    /\ client' = [client EXCEPT ![c] =
         [@ EXCEPT !.pc = "made", !.tx = tx,
                   !.next = [a \in DOMAIN @ |-> IF IsSigned(o) /\ a = o.from THEN @[a] + 1 ELSE @[a]]]]
    /\ IF ClientNode[c] = First
       THEN pending' = pending \cup {tx} /\ confirmed' = confirmed \ {tx}
       ELSE UNCHANGED <<pending, confirmed>>
    /\ UNCHANGED <<registry, queue, sends, arrivals, included, settled, nonce, heard, owed, expiries>>

SubmitTx(c) ==
    LET n == ClientNode[c] IN
    /\ client[c].pc = "made"
    /\ Admissible(n, client[c].tx)
    /\ Admit(n, client[c].tx)
    /\ client' = [client EXCEPT ![c].pc = "ready", ![c].at = @ + 1]
    /\ UNCHANGED <<registry, arrivals, chainVars, expiries>>

\* ValueError: the rest of the batch is not submitted.
SubmitFails(c) ==
    LET n == ClientNode[c] IN
    /\ client[c].pc = "made"
    /\ ~Admissible(n, client[c].tx)
    /\ client' = [client EXCEPT ![c].pc = "failed",
         ![c].error = IF NonceTaken(n, client[c].tx) THEN "nonce" ELSE "limits"]
    /\ UNCHANGED <<registry, queue, sends, arrivals, chainVars, heard, owed, expiries>>

BatchEnds(c) ==
    /\ client[c].pc = "ready" /\ ~More(c) /\ SendsDone(c)
    /\ client' = [client EXCEPT ![c].pc = "done"]
    /\ UNCHANGED <<registry, queue, sends, arrivals, chainVars, heard, owed, expiries>>

------------------------------------------------------------------------------
\* The network and the nodes

\* handle_incoming_message: a task of the receiver's mempool.
Handed(m) == SetToBag({[at |-> m.to, tx |-> m.tx]})

\* The receiver is looked up when the task runs; without one nothing is kept.
Send(m) ==
    /\ sends' = sends (-) SetToBag({m})
    /\ arrivals' = IF m.to \in registry THEN arrivals (+) Handed(m) ELSE arrivals
    /\ UNCHANGED <<registry, queue, chainVars, client, heard, owed, expiries>>

\* Faulty: what is known is sent on as well; only what is admitted is.
ArriveAndForward(m) ==
    /\ arrivals' = arrivals (-) SetToBag({m})
    /\ IF ~Known(m.at, m.tx) /\ Admissible(m.at, m.tx)
       THEN Admit(m.at, m.tx)
       ELSE /\ sends' = sends (+) Broadcast(m.at, m.tx)
            /\ UNCHANGED <<queue, heard, owed>>
    /\ UNCHANGED <<registry, chainVars, client, expiries>>

\* handle_network_tx: known or refused transactions end here.
Arrive(m) ==
    /\ arrivals' = arrivals (-) SetToBag({m})
    /\ IF ~Known(m.at, m.tx) /\ Admissible(m.at, m.tx)
       THEN Admit(m.at, m.tx)
       ELSE UNCHANGED <<queue, sends, heard, owed>>
    /\ UNCHANGED <<registry, chainVars, client, expiries>>

\* A score is the fee times a boost that shrinks with the time since some node
\* first queued the transaction: it orders equals by the clock, which no queue
\* knows, and leaves different fees in their order.
Scored(q, order) ==
    \A i, j \in DOMAIN q : i < j => Priority[q[order[i]].what] >= Priority[q[order[j]].what]

\* get_pending_transactions: the queue by score, highest first.
ByPriority(q) ==
    {[i \in DOMAIN q |-> q[order[i]]] : order \in {p \in Permutations(DOMAIN q) : Scored(q, p)}}

\* remove_transaction goes by the hash: of equal transactions none remains, and
\* the others move up.
Removed(q, taken) ==
    LET kept == {i \in DOMAIN q : q[i] \notin taken}
        Rank(i) == Cardinality({j \in kept : j <= i})
    IN [k \in 1..Cardinality(kept) |-> q[CHOOSE i \in kept : Rank(i) = k]]

\* build_candidate_block takes what is pending and removes it again, one by one.
Propose(n) ==
    /\ Cardinality({b \in Nodes \X (1..MaxBlocks) : b[2] \in DOMAIN included[b[1]]}) < MaxBlocks
    /\ \E body \in ByPriority(queue[n]) :
         /\ included' = [included EXCEPT ![n] = Append(@, body)]
         /\ queue' = [queue EXCEPT ![n] = Removed(@, ToSet(body))]
    /\ UNCHANGED <<registry, sends, arrivals, settled, pending, confirmed, nonce, client, heard, owed, expiries>>

\* Post-processing of the next block of First: confirmed transactions are
\* skipped, an unstake does not advance its sender's nonce although it used
\* one, and only what First has a record of is confirmed.
Settle ==
    LET body == included[First][settled + 1]
        counted(a) == {i \in DOMAIN body : body[i].from = a /\ body[i].type \in Counted
                                          /\ body[i] \notin confirmed}
    IN
    /\ settled < Len(included[First])
    /\ settled' = settled + 1
    /\ pending' = pending \ ToSet(body)
    /\ confirmed' = confirmed \cup (pending \cap ToSet(body))
    /\ nonce' = [a \in Senders |-> nonce[a] + Cardinality(counted(a))]
    /\ UNCHANGED <<registry, queue, sends, arrivals, included, client, heard, owed, expiries>>

\* The queue is in order of arrival: what is too old is a prefix, and goes by
\* its hash.
CleanupExpired(n) ==
    /\ expiries < MaxExpiries
    /\ expiries' = expiries + 1
    /\ \E k \in 1..Len(queue[n]) :
         queue' = [queue EXCEPT ![n] = Removed(@, ToSet(SubSeq(@, 1, k)))]
    /\ UNCHANGED <<registry, sends, arrivals, chainVars, client, heard, owed>>

StartNode(n) ==
    /\ n \in Late /\ n \notin registry
    /\ registry' = registry \cup {n}
    /\ UNCHANGED <<queue, sends, arrivals, chainVars, client, heard, owed, expiries>>

------------------------------------------------------------------------------
ClientStep(c) == \/ StartBatch(c) \/ SkipOrder(c) \/ OrderFails(c) \/ MakeTx(c)
                 \/ SubmitTx(c) \/ SubmitFails(c) \/ BatchEnds(c)

NetworkStep == \/ \E m \in BagToSet(sends) : Send(m)
               \/ \E m \in BagToSet(arrivals) : Arrive(m)

Next == \/ \E c \in Clients : ClientStep(c)
        \/ NetworkStep
        \/ Settle
        \/ \E n \in Nodes : Propose(n) \/ CleanupExpired(n) \/ StartNode(n)

Spec == Init /\ [][Next]_vars

\* The event loop runs every task that is ready; clients, proposers and late
\* nodes may pause.
FairSpec ==
    /\ Spec
    /\ \A n \in Nodes, p \in Nodes :
         /\ WF_vars(\E m \in BagToSet(sends) : m.from = n /\ m.to = p /\ Send(m))
         /\ WF_vars(\E m \in BagToSet(arrivals) : m.at = p /\ Arrive(m))

------------------------------------------------------------------------------
\* Properties

\* However submissions, deliveries, removals and proposals interleave, a pool
\* never holds two transactions of one sender with the same nonce
\* (the checks of submit_tx and validate_nonce_sequence).
NonceOnce ==
    \A n \in Nodes : \A i, j \in DOMAIN queue[n] :
        /\ i # j
        /\ queue[n][i].from = queue[n][j].from /\ queue[n][i].from # NoSender
        /\ queue[n][i].nonce # NoNonce
        => queue[n][i].nonce # queue[n][j].nonce

\* Gossip ends: receivers forward what they admit to everyone, the sender
\* included, yet no transaction, with a nonce or without, goes round for ever.
GossipEnds == <>[](sends = EmptyBag /\ arrivals = EmptyBag)

SameNonce(s, t) == s.from = t.from /\ s.nonce = t.nonce /\ t.nonce # NoNonce

\* What any node admits reaches every node registered at that moment, or that
\* node has met another transaction of the same sender and nonce: a
\* message is sent once, nobody asks for what was missed, and pools forget, yet
\* nothing is lost in between (handle_network_tx, LoopbackAdapter.broadcast).
HeardByAll ==
    <>[](\A o \in owed :
            LET n == o[1]
                t == o[2]
            IN t \in heard[n] \/ \E s \in heard[n] : SameNonce(s, t))
=============================================================================
