------------------------- MODULE MempoolGossip_proofs -------------------------
(***************************************************************************)
(* Proofs about MempoolGossip, for any nodes, batches, limits and          *)
(* openings: no pool ever holds two transactions of one sender with the    *)
(* same nonce.                                                             *)
(*                                                                         *)
(* Admission compares a transaction with the whole pool, and both happen   *)
(* in one step of the event loop. What is left to show is that removals,   *)
(* which renumber a pool, never put one transaction at two places.         *)
(***************************************************************************)
EXTENDS MempoolGossip, FiniteSetTheorems, TLAPS

Pools == \A n \in Nodes : queue[n] \in Seq(Range(queue[n]))

IInv == queue \in [Nodes -> Range(queue)] /\ Pools /\ NonceOnce

------------------------------------------------------------------------------
\* Removals.

\* The k-th of a finite set of positions is one of them, and no two are the same.
LEMMA RankFacts ==
    ASSUME NEW n \in Nat, NEW kept \in SUBSET (1..n)
    PROVE  /\ Cardinality(kept) \in Nat
           /\ \A k \in 1..Cardinality(kept) :
                 \E i \in kept : Cardinality({j \in kept : j <= i}) = k
<1> DEFINE Upto(i) == {j \in kept : j <= i}
           rank == [i \in kept |-> Cardinality(Upto(i))]
<1>1. IsFiniteSet(kept) /\ Cardinality(kept) \in Nat /\ kept \subseteq Int
  <2>1. IsFiniteSet(1..n)
    BY FS_Interval
  <2>2. IsFiniteSet(kept)
    BY <2>1, FS_Subset
  <2> QED
    BY <2>2, FS_CardinalityType
<1>2. \A i \in kept : IsFiniteSet(Upto(i)) /\ Cardinality(Upto(i)) \in Nat
  BY <1>1, FS_Subset, FS_CardinalityType
<1>3. ASSUME NEW i \in kept PROVE Cardinality(Upto(i)) \in 1..Cardinality(kept)
  <2>1. Cardinality(Upto(i)) <= Cardinality(kept)
    BY <1>1, FS_Subset
  <2>2. i \in Upto(i)
    OBVIOUS
  <2>3. Cardinality(Upto(i)) # 0
    BY <1>2, <2>2, FS_EmptySet
  <2> QED
    BY <1>1, <1>2, <2>1, <2>3
<1>4. ASSUME NEW i \in kept, NEW j \in kept, i < j
      PROVE  Cardinality(Upto(i)) # Cardinality(Upto(j))
  <2>1. i \in Int /\ j \in Int
    BY <1>1
  <2>2. ASSUME NEW x \in Upto(i) PROVE x \in Upto(j)
    <3>1. x \in kept /\ x \in Int /\ x <= i
      BY <1>1
    <3>2. x <= j
      BY <1>4, <2>1, <3>1
    <3> QED
      BY <3>1, <3>2
  <2>3. j \in Upto(j) /\ j \notin Upto(i)
    BY <1>4, <2>1
  <2> HIDE DEF Upto
  <2>4. Upto(i) \in SUBSET Upto(j) /\ Upto(i) # Upto(j)
    BY <2>2, <2>3
  <2>5. Cardinality(Upto(i)) = Cardinality(Upto(j)) => Upto(i) = Upto(j)
    BY <1>2, <2>4, FS_Subset
  <2> QED
    BY <2>4, <2>5
<1>5. rank \in Injection(kept, 1..Cardinality(kept))
  <2>1. rank \in [kept -> 1..Cardinality(kept)]
    BY <1>3
  <2>2. ASSUME NEW i \in kept, NEW j \in kept, rank[i] = rank[j] PROVE i = j
    <3>1. rank[i] = Cardinality(Upto(i)) /\ rank[j] = Cardinality(Upto(j))
      OBVIOUS
    <3>2. i < j \/ j < i \/ i = j
      BY <1>1
    <3> HIDE DEF rank, Upto
    <3> QED
      BY <1>4, <2>2, <3>1, <3>2
  <2> HIDE DEF rank
  <2> QED
    BY <2>1, <2>2 DEF Injection, IsInjective
<1>6. rank \in Surjection(kept, 1..Cardinality(kept))
  <2> HIDE DEF rank
  <2>1. IsFiniteSet(1..Cardinality(kept)) /\ Cardinality(1..Cardinality(kept)) = Cardinality(kept)
    BY <1>1, FS_Interval
  <2> QED
    BY <1>5, <2>1, FS_Injection
<1>7. ASSUME NEW k \in 1..Cardinality(kept)
      PROVE  \E i \in kept : Cardinality({j \in kept : j <= i}) = k
  <2>1. PICK i \in kept : rank[i] = k
    <3> HIDE DEF rank
    <3> QED
      BY <1>6 DEF Surjection
  <2> QED
    BY <2>1
<1> QED
  BY <1>1, <1>7

\* What is left of a sequence: every place has one of its own in it.
LEMMA RemovedFacts ==
    ASSUME NEW q, q \in Seq(Range(q)), NEW taken
    PROVE  /\ Removed(q, taken) \in Seq(Range(Removed(q, taken)))
           /\ \E at \in [DOMAIN Removed(q, taken) -> DOMAIN q] :
                 /\ \A k \in DOMAIN Removed(q, taken) : Removed(q, taken)[k] = q[at[k]]
                 /\ \A k, l \in DOMAIN Removed(q, taken) : k # l => at[k] # at[l]
<1> DEFINE kept == {i \in DOMAIN q : q[i] \notin taken}
           N == Cardinality(kept)
           Rank(i) == Cardinality({j \in kept : j <= i})
           at == [k \in 1..N |-> CHOOSE i \in kept : Rank(i) = k]
           r == Removed(q, taken)
<1>1. DOMAIN q = 1..Len(q) /\ Len(q) \in Nat
  OBVIOUS
<1>2. N \in Nat /\ \A k \in 1..N : \E i \in kept : Rank(i) = k
  <2>1. kept \in SUBSET (1..Len(q))
    BY <1>1
  <2> HIDE DEF kept
  <2> QED
    BY <1>1, <2>1, RankFacts
<1>3. \A k \in 1..N : at[k] \in kept /\ Rank(at[k]) = k
  <2> HIDE DEF kept, Rank, N
  <2> QED
    BY <1>2
<1>4. r = [k \in 1..N |-> q[at[k]]]
  BY DEF Removed
<1> HIDE DEF Rank, at, N
<1>5. at \in [1..N -> DOMAIN q]
  BY <1>3 DEF at
<1> HIDE DEF kept
<1>6. \A k, l \in 1..N : k # l => at[k] # at[l]
  BY <1>3
<1> HIDE DEF r
<1>7. r \in Seq(Range(r))
  BY <1>2, <1>4 DEF Range
<1>8. DOMAIN r = 1..N /\ \A k \in 1..N : r[k] = q[at[k]]
  BY <1>4
<1> QED
  BY <1>5, <1>6, <1>7, <1>8 DEF r

------------------------------------------------------------------------------
\* The invariant.

LEMMA InitPools == Init => IInv
<1> SUFFICES ASSUME Init PROVE IInv
  OBVIOUS
<1>1. \A n \in Nodes : queue[n] = << >>
  BY DEF Init
<1>2. queue \in [Nodes -> Range(queue)]
  BY DEF Init, Range
<1>3. Pools
  <2>1. \A S : << >> \in Seq(S)
    OBVIOUS
  <2> QED
    BY <1>1, <2>1 DEF Pools
<1>4. NonceOnce
  BY <1>1 DEF NonceOnce
<1> QED
  BY <1>2, <1>3, <1>4 DEF IInv

\* One pool changes, and is as it should be.
LEMMA OnePool ==
    ASSUME IInv, NEW n \in Nodes, NEW q, queue' = [queue EXCEPT ![n] = q],
           q \in Seq(Range(q)),
           \A i, j \in DOMAIN q :
               /\ i # j
               /\ q[i].from = q[j].from /\ q[i].from # NoSender
               /\ q[i].nonce # NoNonce
               => q[i].nonce # q[j].nonce
    PROVE  IInv'
<1>1. /\ DOMAIN queue' = Nodes /\ queue' = [m \in Nodes |-> queue'[m]]
      /\ queue'[n] = q /\ \A m \in Nodes : m # n => queue'[m] = queue[m]
  BY DEF IInv
<1>2. queue' \in [Nodes -> Range(queue')]
  BY <1>1 DEF Range
<1>3. Pools'
  BY <1>1 DEF IInv, Pools
<1>4. NonceOnce'
  BY <1>1 DEF IInv, NonceOnce
<1> QED
  BY <1>2, <1>3, <1>4 DEF IInv

\* What is admitted has a nonce of its own.
LEMMA AdmitPools ==
    ASSUME IInv, NEW n \in Nodes, NEW tx, Admissible(n, tx), Admit(n, tx)
    PROVE  IInv'
<1> DEFINE q == Append(queue[n], tx)
<1>1. queue[n] \in Seq(Range(queue[n]))
  BY DEF IInv, Pools
<1>2. queue' = [queue EXCEPT ![n] = q]
  BY DEF Admit
<1>3. /\ DOMAIN q = DOMAIN queue[n] \cup {Len(queue[n]) + 1}
      /\ Len(queue[n]) + 1 \notin DOMAIN queue[n]
      /\ q[Len(queue[n]) + 1] = tx
      /\ \A i \in DOMAIN queue[n] : q[i] = queue[n][i]
  BY <1>1
<1>4. q \in Seq(Range(q))
  <2>1. q \in Seq(Range(queue[n]) \cup {tx})
    BY <1>1
  <2>2. Range(queue[n]) \cup {tx} = Range(q)
    BY <1>3 DEF Range
  <2> QED
    BY <2>1, <2>2
<1>5. \A i \in DOMAIN queue[n] :
         queue[n][i].from = tx.from /\ tx.from # NoSender /\ tx.nonce # NoNonce
            => queue[n][i].nonce # tx.nonce
  BY DEF Admissible, NonceTaken, PendingNonces, Of
<1> HIDE DEF q
<1>6. \A i, j \in DOMAIN q :
         /\ i # j
         /\ q[i].from = q[j].from /\ q[i].from # NoSender
         /\ q[i].nonce # NoNonce
         => q[i].nonce # q[j].nonce
  BY <1>3, <1>5 DEF IInv, NonceOnce
<1> QED
  BY <1>2, <1>4, <1>6, OnePool

LEMMA RemovePools ==
    ASSUME IInv, NEW n \in Nodes, NEW taken,
           queue' = [queue EXCEPT ![n] = Removed(queue[n], taken)]
    PROVE  IInv'
<1> DEFINE q == Removed(queue[n], taken)
<1>1. queue[n] \in Seq(Range(queue[n]))
  BY DEF IInv, Pools
<1>2. q \in Seq(Range(q))
  BY <1>1, RemovedFacts
<1>3. PICK at \in [DOMAIN q -> DOMAIN queue[n]] :
         /\ \A k \in DOMAIN q : q[k] = queue[n][at[k]]
         /\ \A k, l \in DOMAIN q : k # l => at[k] # at[l]
  BY <1>1, RemovedFacts
<1> HIDE DEF q
<1>4. \A i, j \in DOMAIN q :
         /\ i # j
         /\ q[i].from = q[j].from /\ q[i].from # NoSender
         /\ q[i].nonce # NoNonce
         => q[i].nonce # q[j].nonce
  <2> SUFFICES ASSUME NEW i \in DOMAIN q, NEW j \in DOMAIN q, i # j,
                      q[i].from = q[j].from, q[i].from # NoSender, q[i].nonce # NoNonce
               PROVE  q[i].nonce # q[j].nonce
    OBVIOUS
  <2>1. q[i] = queue[n][at[i]] /\ q[j] = queue[n][at[j]] /\ at[i] # at[j]
        /\ at[i] \in DOMAIN queue[n] /\ at[j] \in DOMAIN queue[n]
    BY <1>3
  <2> QED
    BY <2>1 DEF IInv, NonceOnce
<1>5. queue' = [queue EXCEPT ![n] = q]
  BY DEF q
<1> QED
  BY <1>2, <1>4, <1>5, OnePool

LEMMA SamePools == IInv /\ UNCHANGED queue => IInv'
  BY DEF IInv, Pools, NonceOnce

LEMMA NextPools ==
    ASSUME IInv, [Next]_vars
    PROVE  IInv'
<1>1. ASSUME NEW c \in Clients, ClientStep(c) PROVE IInv'
  <2>1. CASE SubmitTx(c)
    <3>1. /\ Admissible(ClientNode[c], client[c].tx)
          /\ Admit(ClientNode[c], client[c].tx)
          /\ ClientNode[c] \in Nodes
      BY <2>1, GossipAssumption DEF SubmitTx
    <3> QED
      BY <3>1, AdmitPools
  <2>2. CASE \/ StartBatch(c) \/ SkipOrder(c) \/ OrderFails(c) \/ MakeTx(c)
             \/ SubmitFails(c) \/ BatchEnds(c)
    BY <2>2, SamePools DEF StartBatch, SkipOrder, OrderFails, MakeTx, SubmitFails, BatchEnds
  <2> QED
    BY <1>1, <2>1, <2>2 DEF ClientStep
<1>2. ASSUME NEW m \in BagToSet(sends), Send(m) PROVE IInv'
  BY <1>2, SamePools DEF Send
<1>3. ASSUME NEW m \in BagToSet(arrivals), Arrive(m) PROVE IInv'
  <2>1. CASE UNCHANGED queue
    BY <2>1, SamePools
  <2>2. CASE Admissible(m.at, m.tx) /\ Admit(m.at, m.tx) /\ m.at \in Nodes
    BY <2>2, AdmitPools
  <2>3. CASE Admit(m.at, m.tx) /\ m.at \notin Nodes
    <3>1. queue' = queue
      BY <2>3 DEF Admit, IInv
    <3> QED
      BY <3>1, SamePools
  <2> QED
    BY <1>3, <2>1, <2>2, <2>3 DEF Arrive
<1>4. CASE Settle
  BY <1>4, SamePools DEF Settle
<1>5. ASSUME NEW n \in Nodes, Propose(n) PROVE IInv'
  BY <1>5, RemovePools DEF Propose
<1>6. ASSUME NEW n \in Nodes, CleanupExpired(n) PROVE IInv'
  BY <1>6, RemovePools DEF CleanupExpired
<1>7. ASSUME NEW n \in Nodes, StartNode(n) PROVE IInv'
  BY <1>7, SamePools DEF StartNode
<1>8. CASE UNCHANGED vars
  BY <1>8, SamePools DEF vars
<1> QED
  BY <1>1, <1>2, <1>3, <1>4, <1>5, <1>6, <1>7, <1>8 DEF Next, NetworkStep

\* However submissions, deliveries, removals and proposals interleave at any number of
\* nodes, a pool never holds two transactions of one sender with the same nonce.
THEOREM NonceOnceTheorem == Spec => []NonceOnce
<1>1. IInv /\ [Next]_vars => IInv'
  BY NextPools
<1>2. IInv => NonceOnce
  BY DEF IInv
<1> QED
  BY InitPools, <1>1, <1>2, PTL DEF Spec
==============================================================================
