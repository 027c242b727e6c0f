-------------------------- MODULE Transactions_proofs --------------------------
(***************************************************************************)
(* Proofs about Transactions, for any orders, address books, keys and      *)
(* bounds, and a process that stops anywhere: the sets of rules agree, the *)
(* index tells what the records say, and confirmation gets stuck only at a *)
(* transaction whose making was cut off.                                   *)
(*                                                                         *)
(* The invariant says what the write that is still to come relies on, and  *)
(* that a record and its entry always agree on the fields they are hashed  *)
(* by, even where an operation was cut off: this is why repeating one      *)
(* makes the damage good.                                                  *)
(***************************************************************************)
EXTENDS Transactions, FiniteSetTheorems, TLAPS

RecordFields == CanonicalFields \cup {"signature", "block", "status"}

\* What there is to submit, and to queue.
Sent == {Fresh(tx) : tx \in Own \cup Theirs}

RecordsOK == \A h \in DOMAIN records :
                /\ DOMAIN records[h] = RecordFields
                /\ Hash(records[h]) = h

EntriesOK == \A h \in DOMAIN index :
                /\ DOMAIN index[h] = IndexFields
                /\ \A f \in CanonicalFields : index[h][f] = h[f]

JobOK ==
    /\ \A j, k \in job : j = k
    /\ \A j \in job :
          /\ j.op \in {"make", "update", "delete"}
          /\ j.op = "make" => j.hash \in DOMAIN records /\ records[j.hash] \in Sent
          /\ j.op = "update" =>
                /\ j.hash \in DOMAIN records
                /\ records[j.hash].status = "confirmed"
                /\ records[j.hash].block = settled + 1
          /\ j.op = "delete" => j.hash \notin DOMAIN records

\* Whatever no operation is to blame for is as it should be.
Agree == \A h \in DOMAIN records \cup DOMAIN index :
            (\A c \in job \cup cut : c.hash # h) =>
                /\ h \in DOMAIN records /\ h \in DOMAIN index
                /\ index[h] = Entry(records[h])

\* Only a making leaves a record without an entry.
MissingIsMade == \A h \in DOMAIN records \ DOMAIN index :
                    \E c \in job \cup cut : c.hash = h /\ c.op = "make"

IndexInv == RecordsOK /\ EntriesOK /\ JobOK /\ Agree /\ MissingIsMade

QueueOK == \A i \in DOMAIN queue : MayBroadcast(queue[i])

IInv == IndexInv /\ made \subseteq Sent /\ queue \in Seq(Sent) /\ QueueOK

------------------------------------------------------------------------------
\* The rules.

\* What the maker's rules pass, the mempool's rules of form and fees pass.
LEMMA RulesAgree ==
    ASSUME NEW tx, Valid(tx), tx.fee \in DOMAIN MaxFee
    PROVE  PoolFormat(tx) /\ FeePolicy(tx)
<1>1. PoolFormat(tx)
  BY DEF PoolFormat, Valid, Structure, Moved, Issued
<1>2. tx.fee \in {"slow", "standard", "fast", "urgent"}
  BY DEF MaxFee
<1>3. PriorityFee[tx.fee] >= 1
  BY <1>2 DEF PriorityFee
<1>4. GasLimit \in MinGas..MaxGas
  <2>1. GasLimit = MinGas /\ MinGas \in Int
    BY SMT DEF GasLimit, MinGas
  <2>2. MaxGas \in Int /\ MinGas <= MaxGas
    BY SMT DEF MinGas, MaxGas
  <2> QED
    BY <2>1, <2>2
<1>5. PriorityFee[tx.fee] >= MinPriorityFee
  BY <1>3 DEF MinPriorityFee
<1> QED
  BY <1>1, <1>4, <1>5 DEF FeePolicy

LEMMA FreshFields ==
    ASSUME NEW tx
    PROVE  /\ DOMAIN Fresh(tx) = RecordFields
           /\ \A f \in CanonicalFields \cup {"signature"} : Fresh(tx)[f] = tx[f]
           /\ Hash(Fresh(tx)) = Hash(tx)
<1>1. DOMAIN Fresh(tx) = RecordFields
  BY DEF Fresh, RecordFields, CanonicalFields
<1>2. \A f \in CanonicalFields \cup {"signature"} : Fresh(tx)[f] = tx[f]
  BY DEF Fresh, CanonicalFields
<1> QED
  BY <1>1, <1>2 DEF Hash

\* Whatever holder of keys made it.
LEMMA SentIsValid ==
    ASSUME NEW r \in Sent
    PROVE  Valid(r) /\ r.fee \in DOMAIN MaxFee
<1>1. PICK tx \in Own \cup Theirs : r = Fresh(tx)
  BY DEF Sent
<1>2. PICK o \in Orders : tx = CreateSignedTx(o) /\ Valid(tx)
  BY <1>1 DEF Own, Theirs, Creations, Creatable
<1>3. o.fee \in Fees
  BY DEF Orders
<1>4. tx.fee \in DOMAIN MaxFee
  BY <1>2, <1>3, TransactionsAssumption DEF CreateSignedTx
<1>5. /\ r.type = tx.type /\ r.from = tx.from /\ r.to = tx.to /\ r.nonce = tx.nonce
      /\ r.amount = tx.amount /\ r.fee = tx.fee /\ r.signature = tx.signature
  BY <1>1 DEF Fresh
<1>6. Valid(r)
  BY <1>2, <1>5 DEF Valid, Structure, GasFees, Fields
<1> QED
  BY <1>4, <1>5, <1>6

\* What a mempool admits may be broadcast: with an empty pool there is no less
\* room, and no nonce in the way.
LEMMA AdmittedPasses ==
    ASSUME queue \in Seq(Sent), NEW tx, PoolAccepts(tx, queue)
    PROVE  MayBroadcast(tx)
<1> DEFINE mine == {i \in DOMAIN queue : queue[i].from = tx.from}
<1>1. IsFiniteSet(mine)
  <2>1. DOMAIN queue = 1..Len(queue) /\ Len(queue) \in Nat
    OBVIOUS
  <2>2. IsFiniteSet(1..Len(queue))
    BY <2>1, FS_Interval
  <2> QED
    BY <2>1, <2>2, FS_Subset
<1>2. Cardinality(mine) \in Nat
  BY <1>1, FS_CardinalityType
<1>3. Cardinality(mine) < MaxPerAccount /\ Len(queue) < MaxPool
  BY DEF PoolAccepts, Room
<1>4. 0 < MaxPerAccount /\ 0 < MaxPool
  BY <1>2, <1>3, TransactionsAssumption
<1>5. DOMAIN << >> = {} /\ Len(<< >>) = 0
  OBVIOUS
<1>6. {i \in DOMAIN << >> : << >>[i].from = tx.from} = {}
  BY <1>5
<1>7. Room(tx, << >>)
  BY <1>4, <1>5, <1>6, FS_EmptySet DEF Room
<1>8. NonceInSequence(tx, << >>)
  BY <1>5 DEF PoolAccepts, NonceInSequence, PendingNonces
<1> QED
  BY <1>7, <1>8 DEF PoolAccepts, MayBroadcast

------------------------------------------------------------------------------
\* Records and entries.

LEMMA DroppedFacts ==
    ASSUME NEW f, NEW h
    PROVE  /\ DOMAIN Dropped(f, h) = DOMAIN f \ {h}
           /\ \A x \in DOMAIN f : x # h => Dropped(f, h)[x] = f[x]
  BY DEF Dropped

LEMMA EntryFacts ==
    ASSUME NEW rec
    PROVE  /\ DOMAIN Entry(rec) = IndexFields
           /\ \A f \in CanonicalFields : Entry(rec)[f] = Hash(rec)[f]
<1>1. CanonicalFields \subseteq IndexFields
  BY DEF CanonicalFields, IndexFields
<1> QED
  BY <1>1 DEF Entry, Hash

\* A record is confirmed under the hash it had.
LEMMA ConfirmedFacts ==
    ASSUME NEW rec, NEW n, DOMAIN rec = RecordFields
    PROVE  /\ DOMAIN Confirmed(rec, n) = RecordFields
           /\ Hash(Confirmed(rec, n)) = Hash(rec)
           /\ Confirmed(rec, n).status = "confirmed"
           /\ Confirmed(rec, n).block = n
<1>1. \A f \in CanonicalFields : f # "status" /\ f # "block"
  BY DEF CanonicalFields
<1>2. CanonicalFields \subseteq RecordFields /\ "status" \in RecordFields /\ "block" \in RecordFields
  BY DEF RecordFields
<1>3. \A f \in CanonicalFields : Confirmed(rec, n)[f] = rec[f]
  BY <1>1, <1>2 DEF Confirmed
<1> QED
  BY <1>2, <1>3 DEF Confirmed, Hash

\* Confirming an entry, whatever it said before, makes it that of the record.
LEMMA ConfirmedEntryFacts ==
    ASSUME NEW entry, NEW rec, NEW n,
           DOMAIN entry = IndexFields,
           \A f \in CanonicalFields : entry[f] = Hash(rec)[f],
           rec.status = "confirmed", rec.block = n
    PROVE  ConfirmedEntry(entry, n) = Entry(rec)
<1>1. \A f \in CanonicalFields : f # "status" /\ f # "block"
  BY DEF CanonicalFields
<1>2. IndexFields = CanonicalFields \cup {"status", "block"}
  BY DEF CanonicalFields, IndexFields
<1>3. \A f \in CanonicalFields : entry[f] = rec[f]
  BY DEF Hash
<1>4. \A f \in IndexFields : ConfirmedEntry(entry, n)[f] = rec[f]
  BY <1>1, <1>2, <1>3 DEF ConfirmedEntry
<1>5. ConfirmedEntry(entry, n) = [f \in IndexFields |-> ConfirmedEntry(entry, n)[f]]
  BY DEF ConfirmedEntry
<1> QED
  BY <1>4, <1>5 DEF Entry

------------------------------------------------------------------------------
\* The index: one lemma for each operation.

LEMMA InitIndex == Init => IndexInv
  BY DEF Init, IndexInv, RecordsOK, EntriesOK, JobOK, Agree, MissingIsMade

LEMMA MakeIndex ==
    ASSUME IndexInv, NEW tx \in Own, Make(tx)
    PROVE  IndexInv'
<1> DEFINE h == Hash(tx)
<1>1. /\ DOMAIN records' = DOMAIN records \cup {h}
      /\ records'[h] = Fresh(tx)
      /\ \A x \in DOMAIN records : x # h => records'[x] = records[x]
  BY DEF Make, Put
<1>2. /\ DOMAIN Fresh(tx) = RecordFields
      /\ Hash(Fresh(tx)) = h
      /\ Fresh(tx) \in Sent
  BY FreshFields DEF Sent
<1> DEFINE j == [op |-> "make", hash |-> h]
<1>3. job = {} /\ job' = {j} /\ index' = index /\ cut' = cut
  BY DEF Make, Idle
<1>j. j.op = "make" /\ j.hash = h
  OBVIOUS
<1> HIDE DEF h, j
<1>4. RecordsOK'
  BY <1>1, <1>2 DEF IndexInv, RecordsOK
<1>5. EntriesOK'
  BY <1>3 DEF IndexInv, EntriesOK
<1>6. JobOK'
  BY <1>1, <1>2, <1>3, <1>j DEF JobOK
<1>7. Agree'
  <2> SUFFICES ASSUME NEW x \in DOMAIN records' \cup DOMAIN index',
                      \A c \in job' \cup cut' : c.hash # x
               PROVE  /\ x \in DOMAIN records' /\ x \in DOMAIN index'
                      /\ index'[x] = Entry(records'[x])
    BY DEF Agree, Entry
  <2>1. x # h
    BY <1>3, <1>j
  <2>2. \A c \in job \cup cut : c.hash # x
    BY <1>3
  <2> QED
    BY <1>1, <1>3, <2>1, <2>2 DEF IndexInv, Agree
<1>8. MissingIsMade'
  <2> SUFFICES ASSUME NEW x \in DOMAIN records' \ DOMAIN index'
               PROVE  \E c \in job' \cup cut' : c.hash = x /\ c.op = "make"
    BY DEF MissingIsMade
  <2>1. CASE x = h
    BY <1>3, <1>j, <2>1
  <2>2. CASE x # h
    BY <1>1, <1>3, <2>2 DEF IndexInv, MissingIsMade
  <2> QED
    BY <2>1, <2>2
<1> QED
  BY <1>4, <1>5, <1>6, <1>7, <1>8 DEF IndexInv

LEMMA MakeEntryIndex == ASSUME IndexInv, MakeEntry PROVE IndexInv'
<1>1. PICK j \in job : /\ j.op = "make"
                       /\ index' = Put(index, j.hash, Entry(records[j.hash]))
                       /\ cut' = {c \in cut : c.hash # j.hash}
                       /\ job' = {}
  BY DEF MakeEntry
<1>2. \A k \in job : k = j
  BY DEF IndexInv, JobOK
<1>3. j.hash \in DOMAIN records /\ records' = records
  BY <1>1 DEF IndexInv, JobOK, MakeEntry
<1>4. /\ DOMAIN index' = DOMAIN index \cup {j.hash}
      /\ index'[j.hash] = Entry(records[j.hash])
      /\ \A x \in DOMAIN index : x # j.hash => index'[x] = index[x]
  BY <1>1 DEF Put
<1>5. RecordsOK'
  BY <1>3 DEF IndexInv, RecordsOK
<1>6. EntriesOK'
  <2>1. Hash(records[j.hash]) = j.hash
    BY <1>3 DEF IndexInv, RecordsOK
  <2>2. /\ DOMAIN index'[j.hash] = IndexFields
        /\ \A f \in CanonicalFields : index'[j.hash][f] = j.hash[f]
    BY <1>4, <2>1, EntryFacts
  <2> QED
    BY <1>4, <2>2 DEF IndexInv, EntriesOK
<1>7. JobOK'
  BY <1>1 DEF JobOK
<1>8. Agree'
  BY <1>1, <1>2, <1>3, <1>4 DEF IndexInv, Agree
<1>9. MissingIsMade'
  BY <1>1, <1>2, <1>3, <1>4 DEF IndexInv, MissingIsMade
<1> QED
  BY <1>5, <1>6, <1>7, <1>8, <1>9 DEF IndexInv

LEMMA UpdateIndex == ASSUME IndexInv, Update PROVE IndexInv'
<1> DEFINE h == Next1
           j == [op |-> "update", hash |-> h]
<1>1. /\ job = {} /\ h \in DOMAIN records
      /\ records' = [records EXCEPT ![h] = Confirmed(@, settled + 1)]
      /\ job' = {j}
      /\ index' = index /\ cut' = cut /\ settled' = settled
  BY DEF Update, Confirming, Idle
<1>j. j.op = "update" /\ j.hash = h
  OBVIOUS
<1> HIDE DEF h, j
<1>2. /\ DOMAIN records' = DOMAIN records
      /\ records'[h] = Confirmed(records[h], settled + 1)
      /\ \A x \in DOMAIN records : x # h => records'[x] = records[x]
  BY <1>1
<1>3. DOMAIN records[h] = RecordFields /\ Hash(records[h]) = h
  BY <1>1 DEF IndexInv, RecordsOK
<1>4. /\ DOMAIN records'[h] = RecordFields
      /\ Hash(records'[h]) = h
      /\ records'[h].status = "confirmed"
      /\ records'[h].block = settled + 1
  BY <1>2, <1>3, ConfirmedFacts
<1>5. RecordsOK'
  BY <1>2, <1>4 DEF IndexInv, RecordsOK
<1>6. EntriesOK'
  BY <1>1 DEF IndexInv, EntriesOK
<1>7. JobOK'
  BY <1>1, <1>2, <1>4, <1>j DEF JobOK
<1>8. Agree'
  <2> SUFFICES ASSUME NEW x \in DOMAIN records' \cup DOMAIN index',
                      \A c \in job' \cup cut' : c.hash # x
               PROVE  /\ x \in DOMAIN records' /\ x \in DOMAIN index'
                      /\ index'[x] = Entry(records'[x])
    BY DEF Agree, Entry
  <2>1. x # h /\ \A c \in job \cup cut : c.hash # x
    BY <1>1, <1>j
  <2> QED
    BY <1>1, <1>2, <2>1 DEF IndexInv, Agree
<1>9. MissingIsMade'
  BY <1>1, <1>2 DEF IndexInv, MissingIsMade
<1> QED
  BY <1>5, <1>6, <1>7, <1>8, <1>9 DEF IndexInv

LEMMA UpdateEntryIndex == ASSUME IndexInv, UpdateEntry PROVE IndexInv'
<1>1. PICK j \in job : /\ j.op = "update" /\ j.hash \in DOMAIN index
                       /\ index' = [index EXCEPT ![j.hash] = ConfirmedEntry(@, settled + 1)]
                       /\ cut' = {c \in cut : c.hash # j.hash}
                       /\ job' = {}
  BY DEF UpdateEntry
<1>2. \A k \in job : k = j
  BY DEF IndexInv, JobOK
<1>3. /\ j.hash \in DOMAIN records /\ records' = records
      /\ records[j.hash].status = "confirmed"
      /\ records[j.hash].block = settled + 1
  BY <1>1 DEF IndexInv, JobOK, UpdateEntry
<1>4. Hash(records[j.hash]) = j.hash
  BY <1>3 DEF IndexInv, RecordsOK
<1>5. /\ DOMAIN index' = DOMAIN index
      /\ index'[j.hash] = ConfirmedEntry(index[j.hash], settled + 1)
      /\ \A x \in DOMAIN index : x # j.hash => index'[x] = index[x]
  BY <1>1
<1>6. index'[j.hash] = Entry(records[j.hash])
  BY <1>1, <1>3, <1>4, <1>5, ConfirmedEntryFacts DEF IndexInv, EntriesOK
<1>7. RecordsOK'
  BY <1>3 DEF IndexInv, RecordsOK
<1>8. EntriesOK'
  <2>1. /\ DOMAIN index'[j.hash] = IndexFields
        /\ \A f \in CanonicalFields : index'[j.hash][f] = j.hash[f]
    BY <1>4, <1>6, EntryFacts
  <2> QED
    BY <1>5, <2>1 DEF IndexInv, EntriesOK
<1>9. JobOK'
  BY <1>1 DEF JobOK
<1>10. Agree'
  BY <1>1, <1>2, <1>3, <1>5, <1>6 DEF IndexInv, Agree
<1>11. MissingIsMade'
  BY <1>1, <1>2, <1>3, <1>5 DEF IndexInv, MissingIsMade
<1> QED
  BY <1>7, <1>8, <1>9, <1>10, <1>11 DEF IndexInv

LEMMA UpdateFailsIndex == ASSUME IndexInv, UpdateFails PROVE IndexInv'
<1>1. PICK j \in job : cut' = cut \cup {j} /\ job' = {}
  BY DEF UpdateFails
<1>2. \A k \in job : k = j
  BY DEF IndexInv, JobOK
<1>3. records' = records /\ index' = index
  BY DEF UpdateFails
<1>4. RecordsOK' /\ EntriesOK'
  BY <1>3 DEF IndexInv, RecordsOK, EntriesOK
<1>5. JobOK'
  BY <1>1 DEF JobOK
<1>6. Agree' /\ MissingIsMade'
  BY <1>1, <1>2, <1>3 DEF IndexInv, Agree, MissingIsMade
<1> QED
  BY <1>4, <1>5, <1>6 DEF IndexInv

LEMMA DeleteIndex ==
    ASSUME IndexInv, NEW h, Delete(h)
    PROVE  IndexInv'
<1> DEFINE j == [op |-> "delete", hash |-> h]
<1>1. /\ job = {} /\ job' = {j}
      /\ index' = index /\ cut' = cut
  BY DEF Delete, Idle
<1>j. j.op = "delete" /\ j.hash = h
  OBVIOUS
<1> HIDE DEF j
<1>2. /\ DOMAIN records' = DOMAIN records \ {h}
      /\ \A x \in DOMAIN records : x # h => records'[x] = records[x]
  BY DroppedFacts DEF Delete
<1>3. RecordsOK' /\ EntriesOK'
  BY <1>1, <1>2 DEF IndexInv, RecordsOK, EntriesOK
<1>4. JobOK'
  BY <1>1, <1>2, <1>j DEF JobOK
<1>5. Agree'
  <2> SUFFICES ASSUME NEW x \in DOMAIN records' \cup DOMAIN index',
                      \A c \in job' \cup cut' : c.hash # x
               PROVE  /\ x \in DOMAIN records' /\ x \in DOMAIN index'
                      /\ index'[x] = Entry(records'[x])
    BY DEF Agree, Entry
  <2>1. x # h /\ \A c \in job \cup cut : c.hash # x
    BY <1>1, <1>j
  <2> QED
    BY <1>1, <1>2, <2>1 DEF IndexInv, Agree
<1>6. MissingIsMade'
  BY <1>1, <1>2 DEF IndexInv, MissingIsMade
<1> QED
  BY <1>3, <1>4, <1>5, <1>6 DEF IndexInv

LEMMA DeleteEntryIndex == ASSUME IndexInv, DeleteEntry PROVE IndexInv'
<1>1. PICK j \in job : /\ j.op = "delete"
                       /\ index' = Dropped(index, j.hash)
                       /\ cut' = {c \in cut : c.hash # j.hash}
                       /\ job' = {}
  BY DEF DeleteEntry
<1>2. \A k \in job : k = j
  BY DEF IndexInv, JobOK
<1>3. j.hash \notin DOMAIN records /\ records' = records
  BY <1>1 DEF IndexInv, JobOK, DeleteEntry
<1>4. /\ DOMAIN index' = DOMAIN index \ {j.hash}
      /\ \A x \in DOMAIN index : x # j.hash => index'[x] = index[x]
  BY <1>1, DroppedFacts
<1>5. RecordsOK' /\ EntriesOK'
  BY <1>3, <1>4 DEF IndexInv, RecordsOK, EntriesOK
<1>6. JobOK'
  BY <1>1 DEF JobOK
<1>7. Agree'
  BY <1>1, <1>2, <1>3, <1>4 DEF IndexInv, Agree
<1>8. MissingIsMade'
  BY <1>1, <1>2, <1>3, <1>4 DEF IndexInv, MissingIsMade
<1> QED
  BY <1>5, <1>6, <1>7, <1>8 DEF IndexInv

LEMMA RebuildIndexIndex == ASSUME IndexInv, RebuildIndex PROVE IndexInv'
<1>1. /\ job = {} /\ job' = job /\ cut' = {} /\ records' = records
      /\ DOMAIN index' = DOMAIN records
      /\ \A h \in DOMAIN records : index'[h] = Entry(records[h])
  BY DEF RebuildIndex, Idle
<1>2. RecordsOK'
  BY <1>1 DEF IndexInv, RecordsOK
<1>3. EntriesOK'
  BY <1>1, EntryFacts DEF IndexInv, RecordsOK, EntriesOK
<1>4. JobOK' /\ Agree' /\ MissingIsMade'
  BY <1>1 DEF JobOK, Agree, MissingIsMade
<1> QED
  BY <1>2, <1>3, <1>4 DEF IndexInv

LEMMA CrashIndex == ASSUME IndexInv, Crash PROVE IndexInv'
<1>1. job' = {} /\ cut' = cut \cup job /\ records' = records /\ index' = index
  BY DEF Crash
<1>2. RecordsOK' /\ EntriesOK'
  BY <1>1 DEF IndexInv, RecordsOK, EntriesOK
<1>3. JobOK' /\ Agree' /\ MissingIsMade'
  BY <1>1 DEF IndexInv, JobOK, Agree, MissingIsMade
<1> QED
  BY <1>2, <1>3 DEF IndexInv

\* The operations of the mempool and of the chain have no part in it.
LEMMA OthersIndex ==
    ASSUME IndexInv, records' = records, index' = index, job' = job, cut' = cut,
           settled' = settled \/ job = {}
    PROVE  IndexInv'
<1>1. RecordsOK' /\ EntriesOK' /\ Agree' /\ MissingIsMade'
  BY DEF IndexInv, RecordsOK, EntriesOK, Agree, MissingIsMade
<1>2. JobOK'
  BY DEF IndexInv, JobOK
<1> QED
  BY <1>1, <1>2 DEF IndexInv

LEMMA NextIndex == IndexInv /\ [Next]_vars => IndexInv'
<1> SUFFICES ASSUME IndexInv, [Next]_vars PROVE IndexInv'
  OBVIOUS
<1>1. CASE \E tx \in Own : Make(tx)
  BY <1>1, MakeIndex
<1>2. CASE \E tx \in Theirs : HandleNetworkTx(tx)
  BY <1>2, OthersIndex DEF HandleNetworkTx
<1>3. CASE MakeEntry
  BY <1>3, MakeEntryIndex
<1>4. CASE \E tx \in made : Submit(tx)
  BY <1>4, OthersIndex DEF Submit
<1>5. CASE Propose
  BY <1>5, OthersIndex DEF Propose
<1>6. CASE Update
  BY <1>6, UpdateIndex
<1>7. CASE UpdateNone
  BY <1>7, OthersIndex DEF UpdateNone
<1>8. CASE UpdateEntry
  BY <1>8, UpdateEntryIndex
<1>9. CASE UpdateFails
  BY <1>9, UpdateFailsIndex
<1>10. CASE Settle
  BY <1>10, OthersIndex DEF Settle, Idle
<1>11. CASE \E h \in DOMAIN records : Delete(h)
  BY <1>11, DeleteIndex
<1>12. CASE DeleteEntry
  BY <1>12, DeleteEntryIndex
<1>13. CASE RebuildIndex
  BY <1>13, RebuildIndexIndex
<1>14. CASE Crash
  BY <1>14, CrashIndex
<1>15. CASE UNCHANGED vars
  BY <1>15, OthersIndex DEF vars
<1> QED
  BY <1>1, <1>2, <1>3, <1>4, <1>5, <1>6, <1>7, <1>8, <1>9, <1>10, <1>11, <1>12, <1>13,
     <1>14, <1>15 DEF Next

THEOREM IndexInvariance == Spec => []IndexInv
  BY InitIndex, NextIndex, PTL DEF Spec

\* A record is kept under its hash, and its entry shows it as it is, unless an
\* operation on it is under way or was cut off: for any orders, any number of
\* transactions with one hash, and stops anywhere.
THEOREM IndexTrueTheorem == Spec => []IndexTrue
<1>1. IndexInv => IndexTrue
  BY DEF IndexInv, RecordsOK, Agree, IndexTrue
<1> QED
  BY <1>1, IndexInvariance, PTL

\* Where confirmation would meet a record without an entry, the making of that
\* transaction was cut off.
THEOREM ConfirmNeverStuckTheorem == Spec => []ConfirmNeverStuck
<1>1. IndexInv => ConfirmNeverStuck
  BY DEF IndexInv, MissingIsMade, ConfirmNeverStuck, Idle
<1> QED
  BY <1>1, IndexInvariance, PTL
------------------------------------------------------------------------------
\* What is made passes on.

\* The rules ask for no field that a fresh record has and its transaction has not.
LEMMA FreshAccepted ==
    ASSUME NEW tx, NEW pool, PoolAccepts(tx, pool)
    PROVE  PoolAccepts(Fresh(tx), pool)
<1>1. /\ Fresh(tx).type = tx.type /\ Fresh(tx).from = tx.from /\ Fresh(tx).to = tx.to
      /\ Fresh(tx).nonce = tx.nonce /\ Fresh(tx).fee = tx.fee
  BY DEF Fresh
<1>2. PoolFormat(Fresh(tx))
  BY <1>1 DEF PoolAccepts, PoolFormat
<1>3. FeePolicy(Fresh(tx))
  BY <1>1 DEF PoolAccepts, FeePolicy
<1>4. Room(Fresh(tx), pool)
  BY <1>1 DEF PoolAccepts, Room
<1>5. NonceInSequence(Fresh(tx), pool)
  BY <1>1 DEF PoolAccepts, NonceInSequence
<1> QED
  BY <1>2, <1>3, <1>4, <1>5 DEF PoolAccepts

\* Queueing what was admitted.
LEMMA QueueSent ==
    ASSUME queue \in Seq(Sent), QueueOK, NEW tx \in Sent, PoolAccepts(tx, queue),
           queue' = Append(queue, tx)
    PROVE  queue' \in Seq(Sent) /\ QueueOK'
<1>1. MayBroadcast(tx)
  BY AdmittedPasses
<1>2. queue' \in Seq(Sent)
  OBVIOUS
<1>3. \A i \in DOMAIN queue' : queue'[i] = tx \/ (i \in DOMAIN queue /\ queue'[i] = queue[i])
  OBVIOUS
<1> QED
  BY <1>1, <1>2, <1>3 DEF QueueOK

LEMMA InitPass == Init => IInv
<1>1. ASSUME Init PROVE queue \in Seq(Sent) /\ QueueOK /\ made \subseteq Sent
  BY <1>1 DEF Init, QueueOK
<1> QED
  BY <1>1, InitIndex DEF IInv

LEMMA NextPass == IInv /\ [Next]_vars => IInv'
<1> SUFFICES ASSUME IInv, [Next]_vars
             PROVE  made' \subseteq Sent /\ queue' \in Seq(Sent) /\ QueueOK'
  BY NextIndex DEF IInv, Sent, Own, Theirs
<1> USE DEF IInv
<1>1. CASE made' = made /\ queue' = queue
  BY <1>1 DEF QueueOK
<1>2. CASE \E tx \in Theirs : HandleNetworkTx(tx)
  <2>1. PICK tx \in Theirs : HandleNetworkTx(tx)
    BY <1>2
  <2>2. Fresh(tx) \in Sent
    BY DEF Sent
  <2>3. /\ PoolAccepts(Fresh(tx), queue)
        /\ queue' = Append(queue, Fresh(tx))
        /\ made' = made
    BY <2>1, FreshAccepted DEF HandleNetworkTx, Queue
  <2> QED
    BY <2>2, <2>3, QueueSent
<1>3. CASE MakeEntry
  <2>1. PICK j \in job : j.op = "make" /\ made' = made \cup {records[j.hash]}
    BY <1>3 DEF MakeEntry
  <2>2. records[j.hash] \in Sent
    BY <2>1 DEF IndexInv, JobOK
  <2>3. queue' = queue
    BY <1>3 DEF MakeEntry
  <2> QED
    BY <2>1, <2>2, <2>3 DEF QueueOK
<1>4. CASE \E tx \in made : Submit(tx)
  <2>1. PICK tx \in made : Submit(tx)
    BY <1>4
  <2>2. made' = made \ {tx} /\ tx \in Sent
    BY <2>1 DEF Submit
  <2>3. CASE PoolAccepts(tx, queue)
    <3>1. queue' = Append(queue, tx)
      BY <2>1, <2>3 DEF Submit, Queue
    <3> QED
      BY <2>2, <2>3, <3>1, QueueSent
  <2>4. CASE ~PoolAccepts(tx, queue)
    BY <2>1, <2>2, <2>4 DEF Submit, QueueOK
  <2> QED
    BY <2>3, <2>4
<1>5. CASE Propose
  <2>1. queue' = << >> /\ made' = made
    BY <1>5 DEF Propose
  <2> QED
    BY <2>1 DEF QueueOK
<1>6. CASE Crash
  <2>1. queue' = queue /\ made' = {}
    BY <1>6 DEF Crash
  <2> QED
    BY <2>1 DEF QueueOK
<1>7. CASE \/ \E tx \in Own : Make(tx)
           \/ Update \/ UpdateNone \/ UpdateEntry \/ UpdateFails \/ Settle
           \/ \E h \in DOMAIN records : Delete(h)
           \/ DeleteEntry \/ RebuildIndex
  BY <1>1, <1>7 DEF Make, Update, UpdateNone, UpdateEntry, UpdateFails, Settle, Delete,
     DeleteEntry, RebuildIndex
<1>8. CASE UNCHANGED vars
  BY <1>1, <1>8 DEF vars
<1> QED
  BY <1>2, <1>3, <1>4, <1>5, <1>6, <1>7, <1>8 DEF Next

\* The three sets of rules agree, whatever the address book, the keys and the
\* orders: what was made is never refused for its form or its fees, and what is in
\* the mempool may be broadcast and does not keep the proposer from its candidate.
THEOREM PassesOnTheorem == Spec => []PassesOn
<1>1. IInv => PassesOn
  <2> SUFFICES ASSUME IInv PROVE PassesOn
    OBVIOUS
  <2>1. \A tx \in made : PoolFormat(tx) /\ FeePolicy(tx)
    BY SentIsValid, RulesAgree DEF IInv
  <2>2. \A i \in DOMAIN queue : queue[i] \in Sent
    BY DEF IInv
  <2>3. \A i \in DOMAIN queue : MayBroadcast(queue[i]) /\ Valid(queue[i])
    BY <2>2, SentIsValid DEF IInv, QueueOK
  <2> QED
    BY <2>1, <2>3 DEF PassesOn
<1> QED
  BY <1>1, InitPass, NextPass, PTL DEF Spec
==============================================================================
