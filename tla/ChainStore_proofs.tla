-------------------------- MODULE ChainStore_proofs --------------------------
(***************************************************************************)
(* Proofs about ChainStore, for any number of hashes, slots, maintenance   *)
(* operations and crashes, any gas limit that is even and any minimum fee. *)
(*                                                                         *)
(* Records come and go, and one may replace another of its hash: what a    *)
(* block has in common with its parent is therefore stated of the inputs   *)
(* of the hashes, which only grow, and a record is of the input of its     *)
(* hash.                                                                   *)
(***************************************************************************)
EXTENDS ChainStore, FiniteSetTheorems, WellFoundedInduction, TLAPS

------------------------------------------------------------------------------
\* The invariant.

Jobs == {Idle} \cup [op : {"create"}, hash : Hashes, block : Blocks]
               \cup [op : {"update"}, hash : Hashes, status : Statuses]
               \cup [op : {"delete"}, hash : Hashes]

Typed == TypeOK /\ job \in Jobs /\ crashes \in Nat

HashInputs == [shape : Shapes, parent : 0..MaxHashes, height : Nat, txs : Nat,
               gas : Nat, fee : Nat, time : Nat, slot : Nat]

\* The base fee of b against that of its parent p.
FeeStep(b, p) ==
    (b.shape = "nested" <=> p.shape = "nested") =>
        LET most == IF p.fee < 8 THEN 1 ELSE p.fee \div 8
        IN b.fee <= p.fee + most /\ b.fee >= p.fee - most

\* A block above hashes 1..n: a genesis, or on one of them.
Placed(b, n) ==
    \/ b.shape = "genesis" /\ b.parent = ZeroHash /\ b.height = 0
    \/ /\ b.shape # "genesis" /\ b.parent \in 1..n
       /\ b.height = Height(inputs[b.parent]) + 1
       /\ FeeStep(b, inputs[b.parent])

InRange(b) == b.gas <= GasLimit /\ b.fee >= MinFee

Inputs == \A h \in DOMAIN inputs : InRange(inputs[h]) /\ Placed(inputs[h], h - 1)

Hashed == \A h \in Hashes : record[h] # None =>
              h \in DOMAIN inputs /\ inputs[h] = HashInput(record[h])

TipHashed == chainState # None /\ chainState.tip # None =>
                /\ chainState.tip \in DOMAIN inputs
                /\ chainState.height = inputs[chainState.tip].height

\* The entry of a hash tells what its record does.
Agrees(h) == entry[h] = IF record[h] = None THEN None ELSE EntryFor(record[h])

Indexed ==
    /\ EntryHasRecord
    /\ job.op = "create" => record[job.hash] = job.block
    /\ job.op = "update" => record[job.hash] # None /\ record[job.hash].status = job.status
    /\ job.op = "delete" => entry[job.hash] = None
    /\ crashes = 0 => \A h \in Hashes :
          \/ Agrees(h)
          \/ job.op \in {"create", "delete"} /\ job.hash = h
          \/ /\ job.op = "update" /\ job.hash = h /\ entry[h] # None
             /\ entry[h].height = record[h].height /\ entry[h].slot = record[h].slot

IInv == Typed /\ Inputs /\ Hashed /\ TipHashed /\ Indexed

------------------------------------------------------------------------------
\* Base fees.

LEMMA Eighth ==
    ASSUME NEW f \in Nat, NEW t \in Nat \ {0}, NEW d \in Nat, d <= t
    PROVE  ((f * d) \div t) \div 8 \in 0..(f \div 8)
<1>1. (f * d) \div t \in Nat /\ (f * d) \div t <= f
  <2>1. f * d \in Nat /\ f * d <= f * t
    OBVIOUS
  <2> DEFINE a == f * d
  <2>2. a \in Nat /\ a <= f * t => a \div t \in Nat /\ a \div t <= f
    <3> HIDE DEF a
    <3> QED
      OBVIOUS
  <2> QED
    BY <2>1, <2>2
<1> DEFINE x == (f * d) \div t
<1>2. x \in Nat /\ x <= f => x \div 8 \in 0..(f \div 8)
  <2> HIDE DEF x
  <2> QED
    OBVIOUS
<1> QED
  BY <1>1, <1>2

LEMMA NextFeeFacts ==
    ASSUME NEW gas \in Nat, gas <= GasLimit, NEW fee \in Nat, fee >= MinFee
    PROVE  /\ NextFee(gas, GasLimit, fee) \in Nat
           /\ NextFee(gas, GasLimit, fee) >= MinFee
           /\ LET most == IF fee < 8 THEN 1 ELSE fee \div 8
              IN /\ NextFee(gas, GasLimit, fee) <= fee + most
                 /\ NextFee(gas, GasLimit, fee) >= fee - most
<1> DEFINE t == GasLimit \div 2
           up == ((fee * (gas - t)) \div t) \div 8
           down == ((fee * (t - gas)) \div t) \div 8
           next == NextFee(gas, GasLimit, fee)
<1>1. t \in Nat \ {0} /\ GasLimit = t + t /\ MinFee \in Nat \ {0}
  BY ChainStoreAssumption
<1>2. next = IF gas = t THEN fee
             ELSE IF gas > t THEN fee + (IF up < 1 THEN 1 ELSE up)
             ELSE IF fee - down < MinFee THEN MinFee ELSE fee - down
  BY DEF NextFee
<1> HIDE DEF t, next
<1>3. CASE gas = t
  BY <1>1, <1>2, <1>3 DEF next
<1>4. CASE gas > t
  <2>1. up \in 0..(fee \div 8)
    <3>1. gas - t \in Nat /\ gas - t <= t
      BY <1>1, <1>4
    <3> QED
      BY <1>1, <3>1, Eighth
  <2> HIDE DEF up
  <2> QED
    BY <1>1, <1>2, <1>4, <2>1 DEF next
<1>5. CASE gas < t
  <2>1. down \in 0..(fee \div 8)
    <3>1. t - gas \in Nat /\ t - gas <= t
      BY <1>1, <1>5
    <3> QED
      BY <1>1, <3>1, Eighth
  <2> HIDE DEF down
  <2> QED
    BY <1>1, <1>2, <1>5, <2>1 DEF next
<1> QED
  BY <1>1, <1>3, <1>4, <1>5

------------------------------------------------------------------------------
\* What is built.

\* A record is of what its hash covers.
LEMMA RecordFacts ==
    ASSUME IInv, NEW h \in Hashes, record[h] # None
    PROVE  LET b == record[h] IN
           /\ h \in DOMAIN inputs /\ inputs[h] \in HashInputs
           /\ b \in Blocks
           /\ inputs[h].shape = b.shape /\ inputs[h].parent = b.parent
           /\ inputs[h].height = b.height /\ inputs[h].gas = b.gas /\ inputs[h].fee = b.fee
           /\ InRange(b) /\ Placed(b, h - 1)
<1>1. record[h] \in Blocks
  BY DEF IInv, Typed, TypeOK
<1>2. h \in DOMAIN inputs /\ inputs[h] = HashInput(record[h])
  BY DEF IInv, Hashed
<1>3. InRange(inputs[h]) /\ Placed(inputs[h], h - 1)
  BY <1>2 DEF IInv, Inputs
<1>4. inputs[h] \in HashInputs
  <2>1. inputs \in Seq(HashInputs)
    BY DEF IInv, Typed, TypeOK, HashInputs
  <2> QED
    BY <1>2, <2>1
<1>5. /\ inputs[h].shape = record[h].shape /\ inputs[h].parent = record[h].parent
      /\ inputs[h].height = record[h].height /\ inputs[h].gas = record[h].gas
      /\ inputs[h].fee = record[h].fee
  BY <1>2 DEF HashInput
<1>6. InRange(record[h]) /\ Placed(record[h], h - 1)
  BY <1>3, <1>5 DEF InRange, Placed, FeeStep
<1> QED
  BY <1>1, <1>2, <1>4, <1>5, <1>6

\* Whatever a builder makes on the tip is placed above what is hashed.
LEMMA BuiltFacts ==
    ASSUME IInv, NEW slot \in 0..MaxSlot, NEW txs \in TxCounts, NEW time \in Times,
           NEW b \in Built(slot, txs, time)
    PROVE  /\ Populated(b) \in Blocks
           /\ Populated(b).fee >= MinFee
           /\ Placed(Populated(b), Len(inputs))
           /\ Populated(b).gas = txs \/ Populated(b).gas = 0
           /\ Populated(b).count = Populated(b).txs
<1>1. MinFee \in Nat /\ txs \in Nat /\ time \in Nat /\ slot \in Nat /\ MaxHashes \in Nat /\ GasLimit \in Nat
  BY ChainStoreAssumption
<1> DEFINE p == record[TipHash]
<1>2. CASE b = Genesis(time)
  <2>1. b.txs = 0
    BY <1>2 DEF Genesis
  <2>2. Populated(b) = Genesis(time)
    <3>1. Populated(b) = [b EXCEPT !.count = 0, !.gas = 0]
      BY <2>1 DEF Populated
    <3> QED
      BY <1>2, <3>1 DEF Genesis
  <2> QED
    BY <1>1, <2>2 DEF Genesis, Blocks, Shapes, Statuses, Placed, ZeroHash
<1>3. ASSUME TipHash \in Hashes, p # None, NEW fee \in Nat, NEW shape \in {"flat", "nested"},
             NEW c, NEW g, fee >= MinFee, (shape = "nested" <=> p.shape = "nested") => fee = NextFee(p.gas, GasLimit, p.fee),
             b = [shape |-> shape, parent |-> TipHash, height |-> Height(p) + 1, slot |-> slot,
                  txs |-> txs, count |-> c, gas |-> g, fee |-> fee, time |-> time,
                  status |-> "proposed"]
      PROVE  /\ Populated(b) \in Blocks
             /\ Populated(b).fee >= MinFee
             /\ Placed(Populated(b), Len(inputs))
             /\ Populated(b).gas = txs
             /\ Populated(b).count = Populated(b).txs
  <2>1. /\ TipHash \in DOMAIN inputs /\ p \in Blocks /\ InRange(p)
        /\ inputs[TipHash].shape = p.shape /\ inputs[TipHash].height = p.height
        /\ inputs[TipHash].fee = p.fee /\ inputs[TipHash].gas = p.gas
    BY <1>3, RecordFacts
  <2>2. Height(p) \in Nat /\ Height(inputs[TipHash]) = Height(p)
    BY <2>1 DEF Height, Blocks
  <2>3. Populated(b) = [shape |-> shape, parent |-> TipHash, height |-> Height(p) + 1, slot |-> slot,
                        txs |-> txs, count |-> txs, gas |-> txs, fee |-> fee, time |-> time,
                        status |-> "proposed"]
    <3>1. b.txs = txs
      BY <1>3
    <3>2. Populated(b) = [b EXCEPT !.count = txs, !.gas = txs]
      BY <3>1 DEF Populated
    <3> QED
      BY ZenonT(20), <1>3, <3>2
  <2>4. TipHash \in 1..Len(inputs) /\ TipHash \in 0..MaxHashes
    <3>1. inputs \in Seq([shape : Shapes, parent : 0..MaxHashes, height : Nat,
                          txs : Nat, gas : Nat, fee : Nat, time : Nat, slot : Nat])
      BY DEF IInv, Typed, TypeOK
    <3>2. DOMAIN inputs = 1..Len(inputs)
      BY <3>1
    <3> QED
      BY <1>1, <1>3, <2>1, <3>2 DEF Hashes
  <2>5. FeeStep(Populated(b), inputs[TipHash])
    <3>1. p.gas \in Nat /\ p.gas <= GasLimit /\ p.fee \in Nat /\ p.fee >= MinFee
      BY <2>1 DEF Blocks, InRange
    <3>2. CASE shape = "nested" <=> p.shape = "nested"
      BY <1>3, <2>1, <2>3, <3>1, <3>2, NextFeeFacts DEF FeeStep
    <3>3. CASE ~(shape = "nested" <=> p.shape = "nested")
      BY <2>1, <2>3, <3>3 DEF FeeStep
    <3> QED
      BY <3>2, <3>3
  <2> QED
    BY <1>1, <1>3, <2>2, <2>3, <2>4, <2>5 DEF Blocks, Shapes, Statuses, Placed
<1>4. CASE b # Genesis(time)
  <2>1. TipHash \in Hashes /\ p # None /\ p \in Blocks /\ InRange(p)
    <3>1. TipHash # None /\ Tip = p /\ p # None
      BY <1>4 DEF Built, Tip
    <3>2. TipHash \in Hashes
      BY <3>1 DEF TipHash, IInv, Typed, TypeOK
    <3> QED
      BY <3>1, <3>2, RecordFacts
  <2>2. p.gas \in Nat /\ p.gas <= GasLimit /\ p.fee \in Nat /\ p.fee >= MinFee
    BY <2>1 DEF Blocks, InRange
  <2>3. NextFee(p.gas, GasLimit, p.fee) \in Nat /\ NextFee(p.gas, GasLimit, p.fee) >= MinFee
    BY <2>2, NextFeeFacts
  <2>4. NextFee(0, GasLimit, MinFee) \in Nat /\ NextFee(0, GasLimit, MinFee) >= MinFee
    BY <1>1, NextFeeFacts
  <2>5. CASE b = Flat(TipHash, slot, txs, time) /\ p.shape # "nested"
    BY <1>3, <2>1, <2>3, <2>5 DEF Flat
  <2>6. CASE b = Nested(TipHash, slot, txs, time)
    BY <1>3, <2>1, <2>3, <2>4, <2>6 DEF Nested
  <2> QED
    BY <1>4, <2>5, <2>6 DEF Built, Tip
<1> QED
  BY <1>2, <1>4

------------------------------------------------------------------------------
\* The steps.

LEMMA InitStore == Init => IInv
<1> SUFFICES ASSUME Init PROVE IInv
  OBVIOUS
<1>1. Typed
  BY DEF Init, Typed, TypeOK, Jobs, Idle
<1>2. Inputs /\ Hashed /\ TipHashed
  BY DEF Init, Inputs, Hashed, TipHashed
<1>3. Indexed
  BY DEF Init, Indexed, EntryHasRecord, Agrees, Idle
<1> QED
  BY <1>1, <1>2, <1>3 DEF IInv

\* What an idle store keeps when a block is put into it.
LEMMA CreateStore ==
    ASSUME IInv, NEW slot \in 0..MaxSlot, NEW txs \in TxCounts, NEW time \in Times,
           NEW c \in Built(slot, txs, time), Create(Populated(c))
    PROVE  IInv'
<1> DEFINE b == Populated(c)
<1>1. b \in Blocks /\ b.fee >= MinFee /\ Placed(b, Len(inputs)) /\ b.gas <= GasLimit /\ b # None
  BY BuiltFacts, NoneAssumption DEF Create, Valid, GasFields
<1> DEFINE x == HashInput(b)
<1>2. /\ x \in HashInputs /\ InRange(x) /\ Placed(x, Len(inputs))
  <2>1. x \in HashInputs
    BY <1>1 DEF HashInput, HashInputs, Blocks
  <2>2. x.shape = b.shape /\ x.parent = b.parent /\ x.height = b.height /\ x.gas = b.gas /\ x.fee = b.fee
    BY DEF HashInput
  <2> HIDE DEF b, x
  <2> QED
    BY <1>1, <2>1, <2>2 DEF InRange, Placed, FeeStep
<1> HIDE DEF b
<1>3. inputs \in Seq(HashInputs) /\ record \in [Hashes -> Blocks \cup {None}]
  BY DEF IInv, Typed, TypeOK, HashInputs
<1>4. PICK h \in Hashes :
          /\ \/ h \in DOMAIN inputs /\ inputs[h] = x /\ inputs' = inputs
             \/ h = Len(inputs) + 1 /\ inputs' = Append(inputs, x)
          /\ record' = [record EXCEPT ![h] = b]
          /\ job' = [op |-> "create", hash |-> h, block |-> b]
  BY DEF Create, b
<1>5. job = Idle /\ UNCHANGED <<entry, chainState, updates, crashes>>
  BY DEF Create
<1> HIDE DEF x
<1>6. /\ inputs' \in Seq(HashInputs) /\ DOMAIN inputs \subseteq DOMAIN inputs'
      /\ Len(inputs') \in Nat /\ Len(inputs) \in Nat
      /\ DOMAIN inputs = 1..Len(inputs) /\ DOMAIN inputs' = 1..Len(inputs')
      /\ \A i \in DOMAIN inputs : inputs'[i] = inputs[i]
      /\ h \in DOMAIN inputs' /\ inputs'[h] = x
      /\ \A i \in DOMAIN inputs' : i \in DOMAIN inputs \/ (i = Len(inputs) + 1 /\ inputs'[i] = x)
  <2>1. DOMAIN inputs = 1..Len(inputs) /\ Len(inputs) \in Nat
    BY <1>3
  <2>2. CASE h \in DOMAIN inputs /\ inputs[h] = x /\ inputs' = inputs
    BY <1>3, <2>1, <2>2
  <2>3. CASE h = Len(inputs) + 1 /\ inputs' = Append(inputs, x)
    <3>1. /\ inputs' \in Seq(HashInputs) /\ Len(inputs') = Len(inputs) + 1
          /\ \A i \in 1..Len(inputs) : inputs'[i] = inputs[i]
          /\ inputs'[Len(inputs) + 1] = x
      BY <1>2, <1>3, <2>3
    <3>2. DOMAIN inputs' = 1..Len(inputs')
      BY <3>1
    <3> QED
      BY <2>1, <2>3, <3>1, <3>2
  <2> QED
    BY <1>4, <2>2, <2>3
<1>7. Typed'
  <2>1. record' \in [Hashes -> Blocks \cup {None}]
    BY <1>1, <1>3, <1>4
  <2>2. job' \in Jobs' /\ job'.op = "create"
    BY <1>1, <1>4 DEF Jobs
  <2> QED
    BY <1>5, <1>6, <2>1, <2>2 DEF IInv, Typed, TypeOK, HashInputs, Jobs
<1>8. ASSUME NEW y, NEW n \in Nat, n <= Len(inputs), Placed(y, n)
      PROVE  Placed(y, n)'
  BY <1>6, <1>8 DEF Placed, FeeStep
<1>9. Inputs'
  <2> SUFFICES ASSUME NEW i \in DOMAIN inputs'
               PROVE  InRange(inputs'[i]) /\ Placed(inputs[i], i - 1)'
    BY DEF Inputs, InRange
  <2>1. CASE i \in DOMAIN inputs
    <3>1. InRange(inputs[i]) /\ Placed(inputs[i], i - 1) /\ i - 1 \in Nat /\ i - 1 <= Len(inputs)
      BY <1>6, <2>1 DEF IInv, Inputs
    <3>2. inputs'[i] = inputs[i]
      BY <1>6, <2>1
    <3> DEFINE y == inputs[i]
    <3>3. \A z : z = y => Placed(z, i - 1)'
      <4> HIDE DEF y
      <4>1. SUFFICES ASSUME NEW z, z = y PROVE Placed(z, i - 1)'
        OBVIOUS
      <4>2. Placed(z, i - 1)
        BY <3>1, <4>1 DEF y
      <4> QED
        BY <1>8, <3>1, <4>2
    <3> QED
      BY <3>1, <3>2, <3>3 DEF Placed
  <2>2. CASE i = Len(inputs) + 1 /\ inputs'[i] = x
    <3>1. \A z : z = x => Placed(z, i - 1)'
      <4>1. SUFFICES ASSUME NEW z, z = x PROVE Placed(z, i - 1)'
        OBVIOUS
      <4>2. Placed(z, Len(inputs)) /\ i - 1 = Len(inputs)
        BY <1>2, <1>6, <2>2, <4>1
      <4> QED
        BY <1>6, <1>8, <4>2
    <3> QED
      BY <1>2, <2>2, <3>1 DEF Placed
  <2> QED
    BY <1>6, <2>1, <2>2
<1>10. Hashed'
  <2> SUFFICES ASSUME NEW g \in Hashes, record'[g] # None
               PROVE  g \in DOMAIN inputs' /\ inputs'[g] = HashInput(record'[g])
    BY DEF Hashed
  <2>1. CASE g = h
    BY <1>3, <1>4, <1>6, <2>1 DEF x
  <2>2. CASE g # h
    BY <1>3, <1>4, <1>6, <2>2 DEF IInv, Hashed
  <2> QED
    BY <2>1, <2>2
<1>11. TipHashed'
  BY <1>5, <1>6 DEF IInv, TipHashed
<1>12. Indexed'
  <2>1. /\ record'[h] = b /\ b # None
        /\ \A g \in Hashes : g # h => record'[g] = record[g]
        /\ job'.op = "create" /\ job'.hash = h /\ job'.block = b
    BY <1>1, <1>3, <1>4
  <2>2. EntryHasRecord'
    BY <1>5, <2>1 DEF IInv, Indexed, EntryHasRecord
  <2>3. ASSUME crashes = 0, NEW g \in Hashes, g # h PROVE Agrees(g)'
    <3>1. Agrees(g)
      BY <1>5, <2>3 DEF IInv, Indexed, Idle
    <3> QED
      BY <1>5, <2>1, <2>3, <3>1 DEF Agrees
  <2> QED
    BY <1>5, <2>1, <2>2, <2>3 DEF Indexed
<1> QED
  BY <1>7, <1>9, <1>10, <1>11, <1>12 DEF IInv

\* Steps that hash nothing.
LEMMA SameInputs ==
    ASSUME IInv, UNCHANGED inputs
    PROVE  Inputs'
BY DEF IInv, Inputs, InRange, Placed, FeeStep, Height

LEMMA IndexBlockStore ==
    ASSUME IInv, IndexBlock
    PROVE  IInv'
<1>1. /\ job \in [op : {"create"}, hash : Hashes, block : Blocks]
      /\ entry' = [entry EXCEPT ![job.hash] = EntryFor(job.block)] /\ job' = Idle
      /\ UNCHANGED <<record, chainState, inputs, updates, crashes>>
  BY DEF IndexBlock, IInv, Typed, Jobs, Idle
<1>2. job.hash \in Hashes /\ job.block \in Blocks /\ record[job.hash] = job.block
  BY <1>1 DEF IInv, Indexed
<1>3. EntryFor(job.block) \in Entries /\ EntryFor(job.block) # None /\ job.block # None
  BY <1>2, NoneAssumption DEF EntryFor, Blocks, Entries
<1>4. entry \in [Hashes -> Entries \cup {None}]
  BY DEF IInv, Typed, TypeOK
<1>5. /\ entry' \in [Hashes -> Entries \cup {None}] /\ entry'[job.hash] = EntryFor(job.block)
      /\ \A h \in Hashes : h # job.hash => entry'[h] = entry[h]
  BY <1>1, <1>2, <1>3, <1>4
<1>6. Typed'
  BY <1>1, <1>5 DEF IInv, Typed, TypeOK, Jobs, Idle
<1>7. Hashed' /\ TipHashed'
  BY <1>1 DEF IInv, Hashed, TipHashed, HashInput
<1>8. Indexed'
  <2>1. EntryHasRecord'
    BY <1>1, <1>2, <1>3, <1>5 DEF IInv, Indexed, EntryHasRecord
  <2>2. ASSUME crashes = 0, NEW h \in Hashes PROVE Agrees(h)'
    <3>1. CASE h = job.hash
      BY <1>1, <1>2, <1>3, <1>5, <3>1 DEF Agrees
    <3>2. CASE h # job.hash
      BY <1>1, <1>5, <2>2, <3>2 DEF Agrees, IInv, Indexed
    <3> QED
      BY <3>1, <3>2
  <2> QED
    BY <1>1, <2>1, <2>2 DEF Indexed, Idle
<1> QED
  BY <1>1, <1>6, <1>7, <1>8, SameInputs DEF IInv

LEMMA SetTipStore ==
    ASSUME IInv, NEW h \in Hashes, SetTip(h)
    PROVE  IInv'
<1>1. /\ record[h] # None /\ chainState' = [tip |-> h, height |-> record[h].height]
      /\ UNCHANGED <<record, entry, inputs, job, updates, crashes>>
  BY DEF SetTip
<1>2. /\ record[h] \in Blocks /\ h \in DOMAIN inputs /\ inputs[h].height = record[h].height
  BY <1>1, RecordFacts
<1>3. Typed'
  <2>1. record[h].height \in Nat
    BY <1>2 DEF Blocks
  <2> QED
    BY <1>1, <2>1 DEF IInv, Typed, TypeOK, Jobs
<1>4. Hashed' /\ TipHashed'
  BY <1>1, <1>2 DEF IInv, Hashed, TipHashed, HashInput
<1>5. Indexed'
  BY <1>1 DEF IInv, Indexed, EntryHasRecord, Agrees, EntryFor
<1> QED
  BY <1>1, <1>3, <1>4, <1>5, SameInputs DEF IInv

LEMMA UpdateStore ==
    ASSUME IInv, NEW h \in Hashes, NEW s \in {"justified", "finalized"}, Update(h, s)
    PROVE  IInv'
<1>1. /\ job = Idle /\ record[h] # None /\ record' = [record EXCEPT ![h].status = s]
      /\ job' = [op |-> "update", hash |-> h, status |-> s]
      /\ UNCHANGED <<entry, chainState, inputs, crashes>>
  BY DEF Update, Maintain
<1> DEFINE b == [record[h] EXCEPT !.status = s]
<1>2. record \in [Hashes -> Blocks \cup {None}] /\ record[h] \in Blocks
  BY <1>1 DEF IInv, Typed, TypeOK
<1>3. /\ b \in Blocks /\ b # None /\ b.status = s /\ b.height = record[h].height
      /\ b.slot = record[h].slot /\ HashInput(b) = HashInput(record[h])
  <2>1. b \in Blocks
    BY <1>2 DEF Blocks, Statuses
  <2> QED
    BY <1>2, <2>1, NoneAssumption DEF Blocks, HashInput
<1>4. record' = [record EXCEPT ![h] = b]
  BY <1>1, <1>2
<1> HIDE DEF b
<1>5. /\ record' \in [Hashes -> Blocks \cup {None}] /\ record'[h] = b
      /\ \A g \in Hashes : g # h => record'[g] = record[g]
  BY <1>2, <1>3, <1>4
<1>6. job' \in Jobs' /\ job'.op = "update" /\ job'.hash = h /\ job'.status = s
  BY <1>1 DEF Jobs, Statuses
<1>7. Typed'
  BY <1>1, <1>5, <1>6 DEF IInv, Typed, TypeOK, Jobs
<1>8. Hashed' /\ TipHashed'
  <2>1. ASSUME NEW g \in Hashes, record'[g] # None
        PROVE  g \in DOMAIN inputs' /\ inputs'[g] = HashInput(record'[g])
    BY <1>1, <1>3, <1>5, <2>1 DEF IInv, Hashed
  <2> QED
    BY <1>1, <2>1 DEF IInv, Hashed, TipHashed
<1>9. Indexed'
  <2>1. EntryHasRecord'
    BY <1>1, <1>3, <1>5 DEF IInv, Indexed, EntryHasRecord
  <2>2. ASSUME crashes = 0, NEW g \in Hashes
        PROVE  \/ Agrees(g)'
               \/ g = h /\ entry'[g] # None /\ entry'[g].height = record'[g].height
                  /\ entry'[g].slot = record'[g].slot
    <3>1. Agrees(g)
      BY <1>1, <2>2 DEF IInv, Indexed, Idle
    <3>2. CASE g = h
      <4>1. entry[h] = EntryFor(record[h]) /\ EntryFor(record[h]) \in Entries
        BY <1>1, <1>2, <3>1, <3>2 DEF Agrees, EntryFor, Blocks, Entries
      <4> QED
        BY <1>1, <1>3, <1>5, <3>2, <4>1, NoneAssumption DEF EntryFor
    <3>3. CASE g # h
      BY <1>1, <1>5, <3>1, <3>3 DEF Agrees
    <3> QED
      BY <3>2, <3>3
  <2> QED
    BY <1>1, <1>3, <1>5, <1>6, <2>1, <2>2 DEF Indexed
<1> QED
  BY <1>1, <1>7, <1>8, <1>9, SameInputs DEF IInv

LEMMA UpdateEntryStore ==
    ASSUME IInv, UpdateEntry
    PROVE  IInv'
<1>1. /\ job \in [op : {"update"}, hash : Hashes, status : Statuses]
      /\ entry' = IF entry[job.hash] = None THEN entry
                  ELSE [entry EXCEPT ![job.hash].status = job.status]
      /\ job' = Idle
      /\ UNCHANGED <<record, chainState, inputs, updates, crashes>>
  BY DEF UpdateEntry, IInv, Typed, Jobs, Idle
<1> DEFINE h == job.hash
           e == [entry[h] EXCEPT !.status = job.status]
<1>2. /\ h \in Hashes /\ record[h] # None /\ record[h].status = job.status
      /\ job.status \in Statuses /\ job.op = "update" /\ entry \in [Hashes -> Entries \cup {None}]
  BY <1>1 DEF IInv, Indexed, Typed, TypeOK
<1>3. ASSUME entry[h] # None
      PROVE  /\ e \in Entries /\ e # None /\ e.height = entry[h].height /\ e.slot = entry[h].slot
             /\ e.status = job.status /\ e = EntryFor([height |-> e.height, slot |-> e.slot, status |-> e.status])
  <2>1. entry[h] \in Entries /\ e \in Entries
    BY <1>2, <1>3 DEF Entries
  <2> QED
    BY <2>1, NoneAssumption DEF Entries, EntryFor
<1>4. entry' = IF entry[h] = None THEN entry ELSE [entry EXCEPT ![h] = e]
  BY <1>1, <1>2
<1> HIDE DEF h, e
<1>5. /\ entry' \in [Hashes -> Entries \cup {None}]
      /\ entry'[h] = IF entry[h] = None THEN None ELSE e
      /\ \A g \in Hashes : g # h => entry'[g] = entry[g]
  BY <1>2, <1>3, <1>4
<1>6. Typed'
  BY <1>1, <1>5 DEF IInv, Typed, TypeOK, Jobs, Idle
<1>7. Hashed' /\ TipHashed'
  BY <1>1 DEF IInv, Hashed, TipHashed, HashInput
<1>8. Indexed'
  <2>1. EntryHasRecord'
    BY <1>1, <1>2, <1>5 DEF IInv, Indexed, EntryHasRecord
  <2>2. ASSUME crashes = 0, NEW g \in Hashes PROVE Agrees(g)'
    <3>1. \/ Agrees(g)
          \/ g = h /\ entry[g] # None /\ entry[g].height = record[g].height
             /\ entry[g].slot = record[g].slot
      BY <1>2, <2>2 DEF IInv, Indexed, h
    <3>2. CASE g = h
      <4>1. /\ entry[h] # None /\ entry[h].height = record[h].height
            /\ entry[h].slot = record[h].slot
        <5>1. CASE Agrees(h)
          <6>1. entry[h] = EntryFor(record[h]) /\ record[h] \in Blocks
            BY <1>2, <5>1 DEF Agrees, IInv, Typed, TypeOK
          <6>2. EntryFor(record[h]) \in Entries
            BY <6>1 DEF EntryFor, Blocks, Entries
          <6> QED
            BY <6>1, <6>2, NoneAssumption DEF EntryFor
        <5> QED
          BY <3>1, <3>2, <5>1
      <4> QED
        BY <1>1, <1>2, <1>3, <1>5, <3>2, <4>1 DEF Agrees, EntryFor
    <3>3. CASE g # h
      BY <1>1, <1>5, <3>1, <3>3 DEF Agrees
    <3> QED
      BY <3>2, <3>3
  <2> QED
    BY <1>1, <2>1, <2>2 DEF Indexed, Idle
<1> QED
  BY <1>1, <1>6, <1>7, <1>8, SameInputs DEF IInv

LEMMA DeleteStore ==
    ASSUME IInv, NEW h \in Hashes, Delete(h)
    PROVE  IInv'
<1>1. /\ job = Idle /\ entry' = [entry EXCEPT ![h] = None]
      /\ job' = [op |-> "delete", hash |-> h]
      /\ UNCHANGED <<record, chainState, inputs, crashes>>
  BY DEF Delete, Maintain
<1>2. entry \in [Hashes -> Entries \cup {None}]
  BY DEF IInv, Typed, TypeOK
<1>3. /\ entry' \in [Hashes -> Entries \cup {None}] /\ entry'[h] = None
      /\ \A g \in Hashes : g # h => entry'[g] = entry[g]
  BY <1>1, <1>2
<1>4. job' \in Jobs' /\ job'.op = "delete" /\ job'.hash = h
  BY <1>1 DEF Jobs
<1>5. Typed'
  BY <1>1, <1>3, <1>4 DEF IInv, Typed, TypeOK, Jobs
<1>6. Hashed' /\ TipHashed'
  BY <1>1 DEF IInv, Hashed, TipHashed, HashInput
<1>7. Indexed'
  <2>1. EntryHasRecord'
    BY <1>1, <1>3 DEF IInv, Indexed, EntryHasRecord
  <2>2. ASSUME crashes = 0, NEW g \in Hashes, g # h PROVE Agrees(g)'
    BY <1>1, <1>3, <2>2 DEF IInv, Indexed, Idle, Agrees
  <2> QED
    BY <1>1, <1>3, <1>4, <2>1, <2>2 DEF Indexed
<1> QED
  BY <1>1, <1>5, <1>6, <1>7, SameInputs DEF IInv

LEMMA DeleteRecordStore ==
    ASSUME IInv, DeleteRecord
    PROVE  IInv'
<1>1. /\ job \in [op : {"delete"}, hash : Hashes]
      /\ record' = [record EXCEPT ![job.hash] = None] /\ job' = Idle
      /\ UNCHANGED <<entry, chainState, inputs, updates, crashes>>
  BY DEF DeleteRecord, IInv, Typed, Jobs, Idle
<1>2. /\ job.hash \in Hashes /\ entry[job.hash] = None
      /\ record \in [Hashes -> Blocks \cup {None}] /\ job.op = "delete"
  BY <1>1 DEF IInv, Indexed, Typed, TypeOK
<1>3. /\ record' \in [Hashes -> Blocks \cup {None}] /\ record'[job.hash] = None
      /\ \A g \in Hashes : g # job.hash => record'[g] = record[g]
  BY <1>1, <1>2
<1>4. Typed'
  BY <1>1, <1>3 DEF IInv, Typed, TypeOK, Jobs, Idle
<1>5. Hashed' /\ TipHashed'
  BY <1>1, <1>3 DEF IInv, Hashed, TipHashed
<1>6. Indexed'
  <2>1. EntryHasRecord'
    BY <1>1, <1>2, <1>3 DEF IInv, Indexed, EntryHasRecord
  <2>2. ASSUME crashes = 0, NEW g \in Hashes PROVE Agrees(g)'
    BY <1>1, <1>2, <1>3, <2>2 DEF IInv, Indexed, Agrees
  <2> QED
    BY <1>1, <2>1, <2>2 DEF Indexed, Idle
<1> QED
  BY <1>1, <1>4, <1>5, <1>6, SameInputs DEF IInv

LEMMA CleanupStore ==
    ASSUME IInv, Cleanup \/ Rebuild
    PROVE  IInv'
<1>1. /\ job = Idle /\ chainState' = None
      /\ entry' = [h \in Hashes |-> IF record[h] = None THEN None ELSE entry[h]]
      /\ UNCHANGED <<record, inputs, job, crashes>>
  BY DEF Cleanup, Rebuild, Maintain
<1>2. entry' \in [Hashes -> Entries \cup {None}]
  BY <1>1 DEF IInv, Typed, TypeOK
<1>3. Typed'
  BY <1>1, <1>2 DEF IInv, Typed, TypeOK, Jobs
<1>4. Hashed' /\ TipHashed'
  BY <1>1 DEF IInv, Hashed, TipHashed, HashInput
<1>5. Indexed'
  BY <1>1 DEF IInv, Indexed, EntryHasRecord, Agrees, Idle, EntryFor
<1> QED
  BY <1>1, <1>3, <1>4, <1>5, SameInputs DEF IInv

LEMMA CrashStore ==
    ASSUME IInv, Crash
    PROVE  IInv'
<1>1. crashes' = crashes + 1 /\ job' = Idle /\ UNCHANGED <<record, entry, chainState, inputs, updates>>
  BY DEF Crash
<1>2. Typed'
  BY <1>1 DEF IInv, Typed, TypeOK, Jobs, Idle
<1>3. Hashed' /\ TipHashed'
  BY <1>1 DEF IInv, Hashed, TipHashed, HashInput
<1>4. Indexed'
  <2>1. crashes' # 0 /\ job'.op = "idle"
    BY <1>1 DEF IInv, Typed, Idle
  <2> QED
    BY <1>1, <2>1 DEF IInv, Indexed, EntryHasRecord
<1> QED
  BY <1>1, <1>2, <1>3, <1>4, SameInputs DEF IInv

LEMMA NextStore == IInv /\ [Next]_vars => IInv'
<1> SUFFICES ASSUME IInv, [Next]_vars PROVE IInv'
  OBVIOUS
<1>1. ASSUME NEW slot \in 0..MaxSlot, NEW txs \in TxCounts, NEW time \in Times,
             NEW b \in Built(slot, txs, time), Create(Populated(b))
      PROVE  IInv'
  BY <1>1, CreateStore
<1>2. ASSUME NEW h \in Hashes, SetTip(h) \/ Delete(h) PROVE IInv'
  BY <1>2, SetTipStore, DeleteStore
<1>3. ASSUME NEW h \in Hashes, NEW s \in {"justified", "finalized"}, Update(h, s) PROVE IInv'
  BY <1>3, UpdateStore
<1>4. CASE UNCHANGED vars
  <2>1. Typed'
    BY <1>4 DEF vars, IInv, Typed, TypeOK, Jobs
  <2>2. Hashed' /\ TipHashed'
    BY <1>4 DEF vars, IInv, Hashed, TipHashed, HashInput
  <2>3. Indexed'
    BY <1>4 DEF vars, IInv, Indexed, EntryHasRecord, Agrees, EntryFor
  <2> QED
    BY <1>4, <2>1, <2>2, <2>3, SameInputs DEF vars, IInv
<1> QED
  BY <1>1, <1>2, <1>3, <1>4, IndexBlockStore, UpdateEntryStore, DeleteRecordStore,
     CleanupStore, CrashStore DEF Next

------------------------------------------------------------------------------
\* What follows.

\* Records, entries, the chain state and the hashes always have their types.
THEOREM TypeTheorem == Spec => []TypeOK
<1>1. IInv => TypeOK
  BY DEF IInv, Typed
<1> QED
  BY <1>1, InitStore, NextStore, PTL DEF Spec

LEMMA IndexFacts == IInv => IndexSound
<1> SUFFICES ASSUME IInv PROVE IndexSound
  OBVIOUS
<1>1. EntryHasRecord
  BY DEF IInv, Indexed
<1>2. IndexAgrees
  <2> SUFFICES ASSUME crashes = 0, job = Idle
               PROVE  LET stored == {h \in Hashes : record[h] # None} IN
                      /\ ListBlocks = stored
                      /\ \A s \in Statuses :
                            /\ ByStatus(s) = {h \in stored : record[h].status = s}
                            /\ CountOf(s) = Cardinality(ByStatus(s))
                      /\ \A from, to \in 0..MaxSlot :
                            InSlots(from, to) = {h \in stored : record[h].slot \in from..to}
    BY DEF IndexAgrees
  <2> DEFINE stored == {h \in Hashes : record[h] # None}
  <2>1. \A h \in Hashes : Agrees(h)
    BY DEF IInv, Indexed, Idle
  <2>2. \A h \in Hashes : record[h] # None => EntryFor(record[h]) # None
    <3> SUFFICES ASSUME NEW h \in Hashes, record[h] # None PROVE EntryFor(record[h]) # None
      OBVIOUS
    <3>1. record[h] \in Blocks
      BY DEF IInv, Typed, TypeOK
    <3>2. EntryFor(record[h]) \in Entries
      BY <3>1 DEF EntryFor, Blocks, Entries
    <3> QED
      BY <3>2, NoneAssumption
  <2>3. Listed = stored
    BY <2>1, <2>2 DEF Listed, Agrees
  <2>4. \A h \in stored : entry[h].status = record[h].status /\ entry[h].slot = record[h].slot
    <3>1. \A h \in stored : entry[h] = EntryFor(record[h])
      BY <2>1 DEF Agrees
    <3>2. \A b : EntryFor(b).status = b.status /\ EntryFor(b).slot = b.slot
      BY DEF EntryFor
    <3> QED
      BY <3>1, <3>2
  <2>5. ListBlocks = stored
    BY <2>3 DEF ListBlocks, Loaded
  <2>6. \A s : {h \in Listed : entry[h].status = s} = {h \in stored : record[h].status = s}
    BY <2>3, <2>4
  <2>7. \A s : ByStatus(s) = {h \in stored : record[h].status = s}
    BY <2>6 DEF ByStatus, Loaded
  <2>8. \A s : CountOf(s) = Cardinality(ByStatus(s))
    BY <2>6, <2>7 DEF CountOf
  <2>9. \A from, to : InSlots(from, to) = {h \in stored : record[h].slot \in from..to}
    BY <2>3, <2>4 DEF InSlots, Loaded
  <2> QED
    BY <2>5, <2>7, <2>8, <2>9
<1> QED
  BY <1>1, <1>2 DEF IndexSound

\* Wherever a creation, an update or a deletion is cut, what the index lists has
\* a record; and if none ever was, readers find exactly the blocks that have the
\* status or the slots they ask for.
THEOREM IndexSoundTheorem == Spec => []IndexSound
BY InitStore, NextStore, IndexFacts, PTL DEF Spec

LEMMA BuiltPasses == IInv => BuiltIsValid
<1> SUFFICES ASSUME IInv, NEW slot \in 0..MaxSlot, NEW txs \in TxCounts, NEW time \in Times,
                    NEW c \in Built(slot, txs, time), txs <= GasLimit
             PROVE  Valid(Populated(c))
  BY DEF BuiltIsValid
<1> DEFINE b == Populated(c)
<1>1. /\ b \in Blocks /\ b.fee >= MinFee /\ Placed(b, Len(inputs))
      /\ b.gas = txs \/ b.gas = 0
      /\ b.count = b.txs
  BY BuiltFacts
<1>2. GasLimit \in Nat /\ Len(inputs) \in Nat
  BY ChainStoreAssumption DEF IInv, Typed, TypeOK
<1> HIDE DEF b
<1>3. b.shape \in Shapes /\ RequiredFields(b)
  <2>1. Required \subseteq (Required \ {"consensus_type"}) \cup Default
    <3>1. "consensus_type" \in Default
      BY DEF Default
    <3> QED
      BY <3>1
  <2>2. b.shape \in Shapes
    BY <1>1 DEF Blocks
  <2> QED
    BY <2>1, <2>2 DEF RequiredFields, Filled, Shapes
<1>4. FieldFormats(b)
  BY SMTT(20), <1>1, ChainStoreAssumption DEF FieldFormats, Blocks, Hashes, ZeroHash
<1>5. GasFields(b)
  BY <1>1, <1>2 DEF GasFields
<1>6. ConsensusFields(b) /\ Timestamp(b) /\ TransactionList(b)
  BY <1>1 DEF ConsensusFields, Timestamp, TransactionList, Blocks
<1>7. HeightSequence(b) /\ CreationRequirements(b)
  <2>1. b.shape # "genesis" => b.height # 0
    <3> SUFFICES ASSUME b.shape # "genesis" PROVE b.height # 0
      OBVIOUS
    <3>1. b.parent \in 1..Len(inputs) /\ b.height = Height(inputs[b.parent]) + 1
      BY <1>1 DEF Placed
    <3>2. inputs \in Seq(HashInputs)
      BY DEF IInv, Typed, TypeOK, HashInputs
    <3>3. inputs[b.parent] \in HashInputs
      BY <3>1, <3>2
    <3>4. Height(inputs[b.parent]) \in Nat
      BY <3>3 DEF Height, HashInputs
    <3> QED
      BY <3>1, <3>4
  <2> QED
    BY <1>1, <2>1 DEF HeightSequence, CreationRequirements, Placed
<1> QED
  BY <1>3, <1>4, <1>5, <1>6, <1>7 DEF Valid, b

\* What the builders make is refused only for the gas of its transactions: the
\* rules of creation ask nothing else that they may fail to give.
THEOREM BuiltIsValidTheorem == Spec => []BuiltIsValid
BY InitStore, NextStore, BuiltPasses, PTL DEF Spec

LEMMA FeesBounded == IInv => FeeBounded
<1> SUFFICES ASSUME IInv, NEW h \in Hashes, record[h] # None
             PROVE  LET b == record[h] IN
                    /\ b.fee >= MinFee
                    /\ b.shape # "genesis" /\ record[b.parent] # None
                       /\ (b.shape = "nested" <=> record[b.parent].shape = "nested") =>
                          LET p == record[b.parent]
                              most == IF p.fee < 8 THEN 1 ELSE p.fee \div 8
                          IN b.fee <= p.fee + most /\ b.fee >= p.fee - most
  BY DEF FeeBounded
<1> DEFINE b == record[h]
<1>1. InRange(b) /\ Placed(b, h - 1) /\ h \in Nat /\ h <= MaxHashes
  BY RecordFacts, ChainStoreAssumption DEF Hashes
<1>2. ASSUME b.shape # "genesis", record[b.parent] # None
      PROVE  FeeStep(b, record[b.parent])
  <2>1. b.parent \in 1..(h - 1) /\ FeeStep(b, inputs[b.parent])
    BY <1>1, <1>2 DEF Placed
  <2>2. b.parent \in Hashes
    BY <1>1, <2>1, ChainStoreAssumption DEF Hashes
  <2> DEFINE p == b.parent
  <2> HIDE DEF b, p
  <2>3. inputs[p].shape = record[p].shape /\ inputs[p].fee = record[p].fee
    BY <1>2, <2>2, RecordFacts DEF p
  <2> QED
    BY <2>1, <2>3 DEF FeeStep, p
<1> QED
  BY <1>1, <1>2 DEF FeeStep, InRange

\* From parent to child the base fee moves by an eighth at most, and stays above
\* the minimum, for every gas limit that is even.
THEOREM FeeBoundedTheorem == Spec => []FeeBounded
BY InitStore, NextStore, FeesBounded, PTL DEF Spec

------------------------------------------------------------------------------
\* Walks end: each goes to a smaller hash, and a recursive function along the
\* way exists.

\* A set that has 0 and all successors has every number.
LEMMA SetInduction ==
    ASSUME NEW S, 0 \in S, \A n \in Nat : n \in S => n + 1 \in S
    PROVE  Nat \subseteq S
<1> DEFINE R == OpToRel(<, Nat)
           T == Nat \ S
<1>1. R = {ss \in Nat \X Nat : ss[1] < ss[2]}
  BY DEF OpToRel
<1>2. IsWellFoundedOn(R, Nat)
  BY NatLessThanWellFounded
<1> HIDE DEF R
<1>3. SUFFICES ASSUME T # {} PROVE FALSE
  OBVIOUS
<1>4. PICK x \in T : \A y \in T : <<y, x>> \notin R
  <2>1. T \subseteq Nat
    OBVIOUS
  <2> HIDE DEF T
  <2> QED
    BY <1>2, <1>3, <2>1, WFMin
<1>5. x \in Nat /\ x # 0
  OBVIOUS
<1>6. x - 1 \in T
  BY <1>5
<1>7. <<x - 1, x>> \in R
  BY <1>1, <1>5
<1> QED
  BY <1>4, <1>6, <1>7

\* The function f is a walk over 0..M along up, which ends in stop: one that
\* collects what it meets (joins), or one that only goes on.
IsWalk(f, M, up, stop, leaf, joins) ==
    /\ f = [h \in 0..M |-> f[h]]
    /\ \A h \in 0..M : f[h] = IF h \in stop THEN leaf[h]
                              ELSE IF joins THEN <<h>> \o f[up[h]] ELSE f[up[h]]

LEMMA WalkExists ==
    ASSUME NEW M \in Nat, NEW up, \A h \in 1..M : up[h] \in 0..(h - 1),
           NEW stop, 0 \in stop, NEW leaf, NEW joins \in BOOLEAN
    PROVE  \E f : IsWalk(f, M, up, stop, leaf, joins)
<1> DEFINE Next1(f, h) == IF h \in stop THEN leaf[h]
                          ELSE IF joins THEN <<h>> \o f[up[h]] ELSE f[up[h]]
           S == {n \in Nat : n <= M => \E f : f = [h \in 0..n |-> Next1(f, h)]}
<1>1. 0 \in S
  <2> DEFINE f == [h \in 0..0 |-> leaf[h]]
  <2>1. \A h \in 0..0 : Next1(f, h) = f[h]
    OBVIOUS
  <2>2. f = [h \in 0..0 |-> Next1(f, h)]
    <3> HIDE DEF Next1
    <3> QED
      BY <2>1
  <2> HIDE DEF f, Next1
  <2> QED
    BY <2>2
<1> HIDE DEF Next1
<1>2. ASSUME NEW n \in Nat, n \in S PROVE n + 1 \in S
  <2>1. SUFFICES ASSUME n + 1 <= M PROVE \E f : f = [h \in 0..(n + 1) |-> Next1(f, h)]
    OBVIOUS
  <2>2. PICK f : f = [h \in 0..n |-> Next1(f, h)]
    BY <1>2, <2>1
  <2> DEFINE g == [h \in 0..(n + 1) |-> IF h = n + 1 THEN Next1(f, h) ELSE f[h]]
  <2>3. ASSUME NEW h \in 0..(n + 1) PROVE g[h] = Next1(g, h)
    <3>1. g[h] = Next1(f, h)
      <4>1. CASE h = n + 1
        BY <4>1
      <4>2. CASE h # n + 1
        <5>1. h \in 0..n /\ g[h] = f[h]
          BY <4>2
        <5> HIDE DEF Next1, g
        <5> QED
          BY <2>2, <5>1
      <4> QED
        BY <4>1, <4>2
    <3>2. CASE h \in stop
      BY <3>1, <3>2 DEF Next1
    <3>3. CASE h \notin stop
      <4>1. h \in 1..M
        BY <2>1, <3>3
      <4>2. up[h] \in 0..(h - 1)
        BY <4>1
      <4>3. up[h] \in 0..n
        BY <4>2
      <4>4. g[up[h]] = f[up[h]]
        BY <4>3
      <4> HIDE DEF g
      <4> QED
        BY <3>1, <4>4 DEF Next1
    <3> QED
      BY <3>2, <3>3
  <2>4. g = [h \in 0..(n + 1) |-> Next1(g, h)]
    <3>1. g = [h \in 0..(n + 1) |-> g[h]]
      OBVIOUS
    <3> HIDE DEF g, Next1
    <3> QED
      BY <2>3, <3>1
  <2> HIDE DEF g, Next1
  <2> QED
    BY <2>4
<1>3. M \in S
  <2> HIDE DEF S
  <2> QED
    BY <1>1, <1>2, SetInduction
<1>4. \E f : f = [h \in 0..M |-> Next1(f, h)]
  <2> HIDE DEF Next1
  <2> QED
    BY <1>3
<1>5. PICK f : f = [h \in 0..M |-> Next1(f, h)]
  BY <1>4
<1>6. f = [h \in 0..M |-> f[h]] /\ \A h \in 0..M : f[h] = Next1(f, h)
  BY <1>5
<1> QED
  BY <1>6 DEF Next1, IsWalk

\* Where a walk goes on: to the parent, if the record is there and has one.
Up(h) == IF record[h] = None \/ Parent(record[h]) = None THEN 0 ELSE record[h].parent

LEMMA UpFacts ==
    ASSUME IInv, NEW h \in Hashes
    PROVE  Up(h) \in 0..(h - 1) /\ h \in 1..MaxHashes /\ MaxHashes \in Nat
<1>1. h \in 1..MaxHashes /\ MaxHashes \in Nat
  BY ChainStoreAssumption DEF Hashes
<1>2. CASE record[h] = None \/ Parent(record[h]) = None
  BY <1>1, <1>2 DEF Up
<1>3. CASE record[h] # None /\ Parent(record[h]) # None
  <2>1. Placed(record[h], h - 1)
    BY <1>3, RecordFacts
  <2> QED
    BY <1>1, <1>3, <2>1 DEF Up, Placed, ZeroHash
<1> QED
  BY <1>1, <1>2, <1>3

LEMMA EmptyTail ==
    ASSUME NEW h
    PROVE  <<h>> \o << >> = <<h>>
OBVIOUS

LEMMA ToGenesisStep ==
    ASSUME IInv, NEW h \in 0..MaxHashes
    PROVE  ToGenesis[h] = IF h = 0 THEN << >> ELSE <<h>> \o ToGenesis[Up(h)]
<1> DEFINE Body(f) == [g \in 0..MaxHashes |->
              IF g = ZeroHash THEN <<>>
              ELSE IF record[g] = None \/ Parent(record[g]) = None THEN <<g>>
              ELSE <<g>> \o f[record[g].parent]]
           up == [g \in Hashes |-> Up(g)]
           stop == {0}
           leaf == [g \in stop |-> << >>]
           joins == TRUE
<1>1. /\ MaxHashes \in Nat /\ \A g \in 1..MaxHashes : up[g] \in 0..(g - 1)
      /\ 0 \in stop /\ joins \in BOOLEAN /\ 0 \in 0..MaxHashes
  BY UpFacts, ChainStoreAssumption DEF Hashes
<1>2. PICK f : IsWalk(f, MaxHashes, up, stop, leaf, joins)
  <2> HIDE DEF up, leaf, stop, joins
  <2> QED
    BY <1>1, WalkExists, Zenon
<1>3. \A g \in 0..MaxHashes : f[g] = IF g = 0 THEN << >> ELSE <<g>> \o f[Up(g)]
  <2>1. \A g \in 0..MaxHashes : f[g] = IF g = 0 THEN leaf[g] ELSE <<g>> \o f[up[g]]
    <3> HIDE DEF up, leaf
    <3> QED
      BY <1>2 DEF IsWalk
  <2>2. leaf[0] = << >> /\ \A g \in 0..MaxHashes : g # 0 => up[g] = Up(g)
    BY <1>1 DEF Hashes
  <2> QED
    BY <2>1, <2>2
<1>4. f = Body(f)
  <2>1. f[0] = << >>
    BY <1>1, <1>3, Zenon
  <2>2. ASSUME NEW g \in 0..MaxHashes
        PROVE  f[g] = IF g = ZeroHash THEN <<>>
                      ELSE IF record[g] = None \/ Parent(record[g]) = None THEN <<g>>
                      ELSE <<g>> \o f[record[g].parent]
    BY <1>3, <2>1, EmptyTail DEF Up, ZeroHash
  <2>3. f = [g \in 0..MaxHashes |-> f[g]]
    BY <1>2 DEF IsWalk
  <2> QED
    BY <2>2, <2>3
<1>5. ToGenesis = Body(ToGenesis)
  BY <1>4 DEF ToGenesis
<1>6. \A g \in 0..MaxHashes : ToGenesis[g] =
         IF g = ZeroHash THEN <<>>
         ELSE IF record[g] = None \/ Parent(record[g]) = None THEN <<g>>
         ELSE <<g>> \o ToGenesis[record[g].parent]
  BY <1>5
<1>7. ToGenesis[0] = << >>
  BY <1>1, <1>6, Zenon DEF ZeroHash
<1> QED
  BY <1>6, <1>7, EmptyTail DEF Up, ZeroHash

LEMMA BetweenStep ==
    ASSUME IInv, NEW end \in Hashes, NEW h \in 0..MaxHashes
    PROVE  /\ h = end => Between(h, end) = <<end>>
           /\ h \in Hashes /\ h # end /\ Up(h) # 0 =>
              Between(h, end) = <<h>> \o Between(Up(h), end)
<1> DEFINE Body(f) == [g \in 0..MaxHashes |->
              IF g \in {end, ZeroHash} THEN <<g>>
              ELSE IF record[g] = None \/ Parent(record[g]) = None THEN <<g>>
              ELSE <<g>> \o f[record[g].parent]]
           up == [g \in Hashes |-> Up(g)]
           loose == {g \in Hashes : record[g] = None \/ Parent(record[g]) = None}
           stop == {0, end} \cup loose
           leaf == [g \in 0..MaxHashes |-> <<g>>]
           joins == TRUE
<1>1. /\ MaxHashes \in Nat /\ \A g \in 1..MaxHashes : up[g] \in 0..(g - 1)
      /\ 0 \in stop /\ joins \in BOOLEAN /\ 0 \in 0..MaxHashes /\ end # 0
  BY UpFacts, ChainStoreAssumption DEF Hashes
<1>2. PICK f : IsWalk(f, MaxHashes, up, stop, leaf, joins)
  <2> HIDE DEF up, leaf, stop, joins
  <2> QED
    BY <1>1, WalkExists, Zenon
<1>3. \A g \in 0..MaxHashes : f[g] = IF g \in stop THEN <<g>> ELSE <<g>> \o f[up[g]]
  <2>1. \A g \in 0..MaxHashes : f[g] = IF g \in stop THEN leaf[g] ELSE <<g>> \o f[up[g]]
    <3> HIDE DEF up, leaf, stop
    <3> QED
      BY <1>2 DEF IsWalk
  <2> HIDE DEF up, stop
  <2> QED
    BY <2>1
<1>4. \A g \in 0..MaxHashes : /\ g # 0 => g \in Hashes
                              /\ g # 0 => up[g] = Up(g)
  BY <1>1 DEF Hashes
<1>5. f = Body(f)
  <2>1. ASSUME NEW g \in 0..MaxHashes
        PROVE  f[g] = IF g \in {end, ZeroHash} THEN <<g>>
                      ELSE IF record[g] = None \/ Parent(record[g]) = None THEN <<g>>
                      ELSE <<g>> \o f[record[g].parent]
    <3>1. CASE g \in stop
      <4>1. g \in {end, ZeroHash} \/ record[g] = None \/ Parent(record[g]) = None
        BY <3>1 DEF ZeroHash
      <4> QED
        BY <1>3, <3>1, <4>1
    <3>2. CASE g \notin stop
      <4>1. /\ g \notin {end, ZeroHash} /\ g \in Hashes
            /\ record[g] # None /\ Parent(record[g]) # None /\ up[g] = record[g].parent
        BY <1>4, <3>2 DEF ZeroHash, Up
      <4> QED
        BY <1>3, <3>2, <4>1
    <3> QED
      BY <3>1, <3>2
  <2>2. f = [g \in 0..MaxHashes |-> f[g]]
    BY <1>2 DEF IsWalk
  <2> QED
    BY <2>1, <2>2
<1> DEFINE walk == CHOOSE w : w = Body(w)
<1>6. walk = Body(walk) /\ \A g : Between(g, end) = walk[g]
  BY <1>5 DEF Between
<1> HIDE DEF walk
<1>7. \A g \in 0..MaxHashes : walk[g] =
         IF g \in {end, ZeroHash} THEN <<g>>
         ELSE IF record[g] = None \/ Parent(record[g]) = None THEN <<g>>
         ELSE <<g>> \o walk[record[g].parent]
  BY <1>6
<1> HIDE DEF Body
<1>8. ASSUME h \in Hashes, h # end, Up(h) # 0
      PROVE  walk[h] = <<h>> \o walk[Up(h)]
  <2>1. record[h] # None /\ Parent(record[h]) # None /\ Up(h) = record[h].parent
    BY <1>8 DEF Up
  <2>2. h \notin {end, ZeroHash}
    BY <1>8, UpFacts DEF ZeroHash
  <2> QED
    BY <1>7, <2>1, <2>2
<1> QED
  BY <1>6, <1>7, <1>8

LEMMA BelowStep ==
    ASSUME IInv, NEW k, NEW h \in 0..MaxHashes
    PROVE  Below(h, k) = IF h = 0 \/ record[h] = None THEN None
                         ELSE IF Height(record[h]) = k THEN h
                         ELSE Below(Up(h), k)
<1> DEFINE Body(f) == [g \in 0..MaxHashes |->
              IF g = ZeroHash \/ record[g] = None THEN None
              ELSE IF Height(record[g]) = k THEN g
              ELSE IF Parent(record[g]) = None THEN None
              ELSE f[record[g].parent]]
           up == [g \in Hashes |-> Up(g)]
           stop == {0} \cup {g \in Hashes : record[g] = None \/ Height(record[g]) = k}
           leaf == [g \in stop |-> IF g = 0 \/ record[g] = None THEN None ELSE g]
           joins == FALSE
<1>1. /\ MaxHashes \in Nat /\ \A g \in 1..MaxHashes : up[g] \in 0..(g - 1)
      /\ 0 \in stop /\ joins \in BOOLEAN /\ 0 \in 0..MaxHashes
  BY UpFacts, ChainStoreAssumption DEF Hashes
<1>2. PICK f : IsWalk(f, MaxHashes, up, stop, leaf, joins)
  <2> HIDE DEF up, leaf, stop, joins
  <2> QED
    BY <1>1, WalkExists, Zenon
<1>3. \A g \in 0..MaxHashes : f[g] = IF g = 0 \/ record[g] = None THEN None
                                     ELSE IF Height(record[g]) = k THEN g ELSE f[Up(g)]
  <2>1. \A g \in 0..MaxHashes : f[g] = IF g \in stop THEN leaf[g] ELSE f[up[g]]
    <3> HIDE DEF up, leaf, stop
    <3> QED
      BY <1>2 DEF IsWalk
  <2>2. \A g \in stop : leaf[g] = IF g = 0 \/ record[g] = None THEN None ELSE g
    OBVIOUS
  <2>3. \A g \in 0..MaxHashes : g # 0 => g \in Hashes /\ up[g] = Up(g)
    BY <1>1 DEF Hashes
  <2> HIDE DEF leaf, up
  <2> QED
    BY <2>1, <2>2, <2>3
<1>4. f = Body(f)
  <2>1. f[0] = None
    BY <1>1, <1>3
  <2>2. ASSUME NEW g \in 0..MaxHashes
        PROVE  f[g] = IF g = ZeroHash \/ record[g] = None THEN None
                      ELSE IF Height(record[g]) = k THEN g
                      ELSE IF Parent(record[g]) = None THEN None
                      ELSE f[record[g].parent]
    BY <1>3, <2>1 DEF Up, ZeroHash
  <2>3. f = [g \in 0..MaxHashes |-> f[g]]
    BY <1>2 DEF IsWalk
  <2> QED
    BY <2>2, <2>3
<1> DEFINE walk == CHOOSE w : w = Body(w)
<1>5. walk = Body(walk) /\ \A g : Below(g, k) = walk[g]
  BY <1>4 DEF Below
<1> HIDE DEF walk
<1>6. \A g \in 0..MaxHashes : walk[g] =
         IF g = ZeroHash \/ record[g] = None THEN None
         ELSE IF Height(record[g]) = k THEN g
         ELSE IF Parent(record[g]) = None THEN None
         ELSE walk[record[g].parent]
  BY <1>5
<1>7. walk[0] = None
  BY <1>1, <1>6, Zenon DEF ZeroHash
<1> HIDE DEF Body
<1> QED
  BY <1>5, <1>6, <1>7 DEF Up, ZeroHash

------------------------------------------------------------------------------
\* What a walk to genesis meets.

LEMMA StrongInduction ==
    ASSUME NEW M \in Nat, NEW S, \A n \in 0..M : (\A m \in 0..(n - 1) : m \in S) => n \in S
    PROVE  \A n \in 0..M : n \in S
<1> DEFINE T == {n \in Nat : n <= M => \A m \in 0..n : m \in S}
<1>1. 0 \in T
  <2>1. \A m \in 0..(0 - 1) : m \in S
    OBVIOUS
  <2>2. 0 \in S
    BY <2>1
  <2> QED
    BY <2>2
<1>2. ASSUME NEW n \in Nat, n \in T PROVE n + 1 \in T
  <2>1. SUFFICES ASSUME n + 1 <= M PROVE \A m \in 0..(n + 1) : m \in S
    OBVIOUS
  <2>2. \A m \in 0..n : m \in S
    BY <1>2, <2>1
  <2>3. (n + 1) - 1 = n /\ n + 1 \in 0..M
    BY <2>1
  <2>4. n + 1 \in S
    BY <2>2, <2>3
  <2> QED
    BY <2>2, <2>4
<1>3. M \in T
  <2> HIDE DEF T
  <2> QED
    BY <1>1, <1>2, SetInduction
<1> QED
  BY <1>3

\* The hashes that a walk from h meets.
Met(h) == Range(ToGenesis[h])

LEMMA ChainStart ==
    ASSUME IInv
    PROVE  0 \in 0..MaxHashes /\ ToGenesis[0] = << >> /\ Met(0) = {}
<1>1. 0 \in 0..MaxHashes
  BY ChainStoreAssumption
<1>2. ToGenesis[0] = << >>
  BY <1>1, ToGenesisStep, Zenon
<1> QED
  BY <1>1, <1>2 DEF Met, Range

LEMMA ChainType ==
    ASSUME IInv, NEW h \in 0..MaxHashes
    PROVE  ToGenesis[h] \in Seq(Hashes)
<1> DEFINE S == {g \in 0..MaxHashes : ToGenesis[g] \in Seq(Hashes)}
<1>1. ASSUME NEW n \in 0..MaxHashes, \A m \in 0..(n - 1) : m \in S PROVE n \in S
  <2>1. CASE n = 0
    <3>1. << >> \in Seq(Hashes)
      OBVIOUS
    <3> QED
      BY <2>1, <3>1, ChainStart, Zenon
  <2>2. CASE n # 0
    <3>1. n \in Hashes
      BY <2>2, ChainStoreAssumption DEF Hashes
    <3>2. Up(n) \in S
      BY <1>1, <3>1, UpFacts
    <3>3. ToGenesis[n] = <<n>> \o ToGenesis[Up(n)]
      BY <2>2, ToGenesisStep
    <3>4. ASSUME NEW t \in Seq(Hashes) PROVE <<n>> \o t \in Seq(Hashes)
      BY <3>1
    <3> QED
      BY <3>2, <3>3, <3>4
  <2> QED
    BY <2>1, <2>2
<1>2. MaxHashes \in Nat
  BY ChainStoreAssumption
<1> HIDE DEF S
<1>3. h \in S
  BY <1>1, <1>2, StrongInduction
<1> QED
  BY <1>3 DEF S

\* A walk begins at h and goes on as that from where h leads.
LEMMA ChainStep ==
    ASSUME IInv, NEW h \in Hashes
    PROVE  /\ Up(h) \in 0..(h - 1) /\ Up(h) \in 0..MaxHashes /\ h \in 0..MaxHashes
           /\ ToGenesis[h] \in Seq(Hashes) /\ ToGenesis[Up(h)] \in Seq(Hashes)
           /\ Len(ToGenesis[h]) = Len(ToGenesis[Up(h)]) + 1
           /\ ToGenesis[h][1] = h
           /\ \A i \in 1..Len(ToGenesis[Up(h)]) : ToGenesis[h][i + 1] = ToGenesis[Up(h)][i]
           /\ Met(h) = {h} \cup Met(Up(h))
<1> DEFINE s == ToGenesis[h]
           t == ToGenesis[Up(h)]
<1>1. Up(h) \in 0..(h - 1) /\ Up(h) \in 0..MaxHashes /\ h \in 0..MaxHashes /\ h # 0
  BY UpFacts
<1>2. s \in Seq(Hashes) /\ t \in Seq(Hashes)
  BY <1>1, ChainType
<1>3. s = <<h>> \o t
  BY <1>1, ToGenesisStep
<1> HIDE DEF s, t
<1>4. Len(s) = Len(t) + 1 /\ s[1] = h /\ \A i \in 1..Len(t) : s[i + 1] = t[i]
  BY <1>2, <1>3
<1>5. Range(s) = {h} \cup Range(t)
  <2>1. DOMAIN s = 1..(Len(t) + 1) /\ DOMAIN t = 1..Len(t) /\ Len(t) \in Nat
    BY <1>2, <1>4
  <2>2. ASSUME NEW i \in DOMAIN s PROVE s[i] \in {h} \cup Range(t)
    <3>1. CASE i = 1
      BY <1>4, <3>1
    <3>2. CASE i # 1
      <4>1. i - 1 \in 1..Len(t) /\ (i - 1) + 1 = i
        BY <2>1, <3>2
      <4>2. s[i] = t[i - 1]
        BY <1>4, <4>1
      <4> QED
        BY <2>1, <4>1, <4>2 DEF Range
    <3> QED
      BY <3>1, <3>2
  <2>3. ASSUME NEW i \in DOMAIN t PROVE t[i] \in Range(s)
    <3>1. i + 1 \in DOMAIN s /\ s[i + 1] = t[i]
      BY <1>4, <2>1
    <3> QED
      BY <3>1 DEF Range
  <2>4. h \in Range(s)
    <3>1. 1 \in DOMAIN s
      BY <2>1
    <3> QED
      BY <1>4, <3>1 DEF Range
  <2> QED
    BY <2>2, <2>3, <2>4 DEF Range
<1> QED
  BY <1>1, <1>2, <1>4, <1>5 DEF Met, s, t

\* Nothing on the way is above where it starts, and each hash is smaller than
\* the one before.
LEMMA ChainFalls ==
    ASSUME IInv, NEW h \in 0..MaxHashes
    PROVE  /\ Met(h) \subseteq 1..h
           /\ \A i, j \in 1..Len(ToGenesis[h]) : i < j => ToGenesis[h][i] > ToGenesis[h][j]
<1> DEFINE c(g) == ToGenesis[g]
           S == {g \in 0..MaxHashes :
                   /\ Met(g) \subseteq 1..g
                   /\ \A i, j \in 1..Len(c(g)) : i < j => c(g)[i] > c(g)[j]}
<1>1. ASSUME NEW n \in 0..MaxHashes, \A m \in 0..(n - 1) : m \in S PROVE n \in S
  <2>1. CASE n = 0
    BY <2>1, ChainStart
  <2>2. CASE n # 0
    <3>1. n \in Hashes
      BY <2>2, ChainStoreAssumption DEF Hashes
    <3> DEFINE u == Up(n)
               s == c(n)
               t == c(u)
    <3>2. /\ u \in 0..(n - 1) /\ u \in Nat /\ n \in Nat /\ u < n
          /\ s \in Seq(Hashes) /\ t \in Seq(Hashes)
          /\ Len(s) = Len(t) + 1 /\ s[1] = n
          /\ \A i \in 1..Len(t) : s[i + 1] = t[i]
          /\ Met(n) = {n} \cup Met(u)
      BY <3>1, ChainStep
    <3>3. Met(u) \subseteq 1..u /\ \A i, j \in 1..Len(t) : i < j => t[i] > t[j]
      BY <1>1, <3>2
    <3>4. \A i \in 1..Len(t) : t[i] \in 1..u
      BY <3>2, <3>3 DEF Met, Range
    <3> HIDE DEF u, s, t, c
    <3>5. Met(n) \subseteq 1..n
      <4>1. \A x \in 1..u : x \in 1..n
        BY <3>2
      <4>2. n \in 1..n
        BY <2>2
      <4> QED
        BY <3>2, <3>3, <4>1, <4>2
    <3>6. ASSUME NEW i \in 1..Len(s), NEW j \in 1..Len(s), i < j PROVE s[i] > s[j]
      <4>1. j - 1 \in 1..Len(t) /\ (j - 1) + 1 = j /\ Len(t) \in Nat
        BY <3>2, <3>6
      <4>2. s[j] = t[j - 1]
        BY <3>2, <4>1
      <4>3. CASE i = 1
        BY <3>2, <3>4, <4>1, <4>2, <4>3
      <4>4. CASE i # 1
        <5>1. i - 1 \in 1..Len(t) /\ (i - 1) + 1 = i /\ i - 1 < j - 1
          BY <3>2, <3>6, <4>1, <4>4
        <5>2. s[i] = t[i - 1]
          BY <3>2, <5>1
        <5> QED
          BY <3>3, <4>1, <4>2, <5>1, <5>2
      <4> QED
        BY <4>3, <4>4
    <3> QED
      BY <3>5, <3>6 DEF s
  <2> QED
    BY <2>1, <2>2
<1>2. MaxHashes \in Nat
  BY ChainStoreAssumption
<1> HIDE DEF S
<1>3. h \in S
  BY <1>1, <1>2, StrongInduction
<1> QED
  BY <1>3 DEF S

\* Below a hash that it meets, a walk is the walk from there.
LEMMA ChainSplits ==
    ASSUME IInv, NEW h \in 0..MaxHashes, NEW x \in Met(h)
    PROVE  /\ x \in Hashes
           /\ Met(h) = {y \in Met(h) : y > x} \cup Met(x)
<1> DEFINE S == {g \in 0..MaxHashes : \A z \in Met(g) : Met(g) = {y \in Met(g) : y > z} \cup Met(z)}
<1>1. ASSUME NEW n \in 0..MaxHashes, \A m \in 0..(n - 1) : m \in S PROVE n \in S
  <2>1. CASE n = 0
    BY <2>1, ChainStart
  <2>2. CASE n # 0
    <3>1. n \in Hashes
      BY <2>2, ChainStoreAssumption DEF Hashes
    <3>2. Up(n) \in 0..(n - 1) /\ Up(n) \in S /\ Met(n) = {n} \cup Met(Up(n)) /\ Up(n) \in 0..MaxHashes
      BY <1>1, <3>1, ChainStep
    <3>3. Met(n) \subseteq 1..n /\ Met(Up(n)) \subseteq 1..Up(n)
      BY <3>2, ChainFalls
    <3>4. ASSUME NEW z \in Met(n) PROVE Met(n) = {y \in Met(n) : y > z} \cup Met(z)
      <4>1. CASE z = n
        BY <3>3, <4>1
      <4>2. CASE z \in Met(Up(n))
        <5>1. Met(Up(n)) = {y \in Met(Up(n)) : y > z} \cup Met(z)
          BY <3>2, <4>2
        <5>2. n > z
          BY <3>2, <3>3, <4>2
        <5> QED
          BY <3>2, <5>1, <5>2
      <4> QED
        BY <3>2, <4>1, <4>2
    <3> QED
      BY <3>4
  <2> QED
    BY <2>1, <2>2
<1>2. MaxHashes \in Nat
  BY ChainStoreAssumption
<1>3. h \in S
  <2> HIDE DEF S
  <2> QED
    BY <1>1, <1>2, StrongInduction
<1>4. x \in Hashes
  BY <1>2, ChainFalls DEF Hashes
<1> QED
  BY <1>3, <1>4

------------------------------------------------------------------------------
\* Reorganisations.

LEMMA Least ==
    ASSUME NEW T, T \subseteq Nat, T # {}
    PROVE  \E i \in T : \A j \in T : i <= j
<1> DEFINE S == {n \in Nat : \A m \in 0..n : m \notin T}
<1>1. SUFFICES ASSUME \A i \in T : \E j \in T : j < i PROVE FALSE
  OBVIOUS
<1>2. 0 \in S
  BY <1>1
<1>3. ASSUME NEW n \in Nat, n \in S PROVE n + 1 \in S
  <2>1. n + 1 \notin T
    <3>1. SUFFICES ASSUME n + 1 \in T PROVE FALSE
      OBVIOUS
    <3>2. PICK j \in T : j < n + 1
      BY <1>1, <3>1
    <3>3. j \in 0..n
      BY <3>2
    <3> QED
      BY <1>3, <3>3
  <2> QED
    BY <1>3, <2>1
<1>4. Nat \subseteq S
  <2> HIDE DEF S
  <2> QED
    BY <1>2, <1>3, SetInduction
<1>5. PICK i \in T : TRUE
  OBVIOUS
<1>6. i \in S /\ i \in 0..i
  BY <1>4
<1> QED
  BY <1>5, <1>6

\* What is above a hash in a chain is what is larger.
LEMMA AboveMet ==
    ASSUME IInv, NEW h \in 0..MaxHashes, NEW x \in Met(h)
    PROVE  Above(ToGenesis[h], x) = {y \in Met(h) : y > x}
<1> DEFINE c == ToGenesis[h]
<1>1. c \in Seq(Hashes) /\ DOMAIN c = 1..Len(c) /\ Len(c) \in Nat
  BY ChainType
<1>2. \A i, j \in 1..Len(c) : i < j => c[i] > c[j]
  BY ChainFalls
<1>3. PICK m \in 1..Len(c) : c[m] = x
  BY <1>1 DEF Met, Range
<1>4. \A i \in 1..Len(c) : c[i] \in Nat
  BY SMTT(20), <1>1, ChainStoreAssumption DEF Hashes
<1>5. \A i \in 1..Len(c) : c[i] > x <=> i < m
  <2> SUFFICES ASSUME NEW i \in 1..Len(c) PROVE c[i] > x <=> i < m
    OBVIOUS
  <2>1. CASE i < m
    BY <1>2, <1>3, <2>1
  <2>2. CASE i = m
    BY <1>3, <1>4, <2>2
  <2>3. CASE m < i
    BY <1>2, <1>3, <1>4, <2>3
  <2> QED
    BY <1>1, <2>1, <2>2, <2>3
<1>6. \A i \in 1..Len(c) : (\A j \in 1..i : c[j] # x) <=> i < m
  <2> SUFFICES ASSUME NEW i \in 1..Len(c) PROVE (\A j \in 1..i : c[j] # x) <=> i < m
    OBVIOUS
  <2>1. ASSUME i < m, NEW j \in 1..i PROVE c[j] # x
    <3>1. j \in 1..Len(c) /\ j < m
      BY <1>1, <2>1
    <3>2. c[j] > x
      BY <1>5, <3>1
    <3> QED
      BY <1>3, <1>4, <3>1, <3>2
  <2>2. CASE ~(i < m)
    <3>1. m \in 1..i
      BY <1>1, <2>2
    <3> QED
      BY <1>3, <2>2, <3>1
  <2> QED
    BY <2>1, <2>2
<1> HIDE DEF c
<1>7. Above(c, x) = {c[i] : i \in {i \in 1..Len(c) : c[i] > x}}
  <2>1. {i \in DOMAIN c : \A j \in 1..i : c[j] # x} = {i \in 1..Len(c) : c[i] > x}
    BY <1>1, <1>5, <1>6
  <2> QED
    BY <2>1 DEF Above
<1>8. Met(h) = {c[i] : i \in 1..Len(c)}
  BY <1>1 DEF Met, Range, c
<1>9. Above(c, x) = {y \in Met(h) : y > x}
  BY <1>7, <1>8
<1> QED
  BY <1>9 DEF c

\* The walk to a hash that is met collects what is not smaller.
LEMMA BetweenMet ==
    ASSUME IInv, NEW x \in Hashes, NEW h \in 0..MaxHashes, x \in Met(h)
    PROVE  Range(Between(h, x)) = {y \in Met(h) : y >= x}
<1> DEFINE S == {g \in 0..MaxHashes : x \in Met(g) =>
                    /\ Between(g, x) \in Seq(Hashes)
                    /\ Range(Between(g, x)) = {y \in Met(g) : y >= x}}
<1>1. ASSUME NEW n \in 0..MaxHashes, \A m \in 0..(n - 1) : m \in S PROVE n \in S
  <2>1. SUFFICES ASSUME x \in Met(n)
                 PROVE  /\ Between(n, x) \in Seq(Hashes)
                        /\ Range(Between(n, x)) = {y \in Met(n) : y >= x}
    OBVIOUS
  <2>2. n \in Hashes
    BY <2>1, ChainStart, ChainStoreAssumption DEF Hashes
  <2> DEFINE u == Up(n)
             b == Between(u, x)
  <2>3. /\ u \in 0..(n - 1) /\ u \in 0..MaxHashes /\ u < n /\ n # 0 /\ n \in Nat
        /\ Met(n) = {n} \cup Met(u)
    BY <2>2, ChainStep DEF Hashes
  <2>4. Met(u) \subseteq 1..u /\ x \in Nat
    BY <2>3, ChainFalls, ChainStoreAssumption DEF Hashes
  <2>5. CASE x = n
    <3>1. Between(n, x) = <<n>>
      BY <2>5, BetweenStep
    <3>2. <<n>> \in Seq(Hashes) /\ Range(<<n>>) = {n}
      BY <2>2 DEF Range
    <3>3. {y \in Met(n) : y >= x} = {n}
      <4> HIDE DEF u
      <4> QED
        BY <2>3, <2>4, <2>5
    <3> QED
      BY <3>1, <3>2, <3>3
  <2>6. CASE x # n
    <3>1. x \in Met(u)
      BY <2>1, <2>3, <2>6
    <3>2. b \in Seq(Hashes) /\ Range(b) = {y \in Met(u) : y >= x}
      BY <1>1, <2>3, <3>1
    <3>3. Between(n, x) = <<n>> \o b
      <4>1. u # 0
        BY <2>3, <2>4, <3>1
      <4> QED
        BY <2>2, <2>6, <4>1, BetweenStep
    <3>4. n >= x
      BY <2>3, <2>4, <3>1
    <3> HIDE DEF b, u
    <3>5. <<n>> \o b \in Seq(Hashes) /\ Range(<<n>> \o b) = {n} \cup Range(b)
      <4> DEFINE s == <<n>> \o b
      <4>1. s \in Seq(Hashes) /\ Len(s) = Len(b) + 1 /\ s[1] = n /\ \A i \in 1..Len(b) : s[i + 1] = b[i]
        BY <2>2, <3>2
      <4>2. DOMAIN b = 1..Len(b) /\ Len(b) \in Nat
        BY <3>2
      <4> HIDE DEF s
      <4>3. DOMAIN s = 1..(Len(b) + 1)
        BY <4>1
      <4>4. ASSUME NEW i \in DOMAIN s PROVE s[i] \in {n} \cup Range(b)
        <5>1. CASE i = 1
          BY <4>1, <5>1
        <5>2. CASE i # 1
          <6>1. i - 1 \in 1..Len(b) /\ (i - 1) + 1 = i
            BY <4>2, <4>3, <5>2
          <6>2. s[i] = b[i - 1]
            BY <4>1, <6>1
          <6> QED
            BY <4>2, <6>1, <6>2 DEF Range
        <5> QED
          BY <5>1, <5>2
      <4>5. ASSUME NEW i \in DOMAIN b PROVE b[i] \in Range(s)
        <5>1. i + 1 \in DOMAIN s /\ s[i + 1] = b[i]
          BY <4>1, <4>2, <4>3
        <5> QED
          BY <5>1 DEF Range
      <4>6. n \in Range(s)
        <5>1. 1 \in DOMAIN s
          BY <4>2, <4>3
        <5> QED
          BY <4>1, <5>1 DEF Range
      <4>7. Range(s) = {n} \cup Range(b)
        BY <4>4, <4>5, <4>6 DEF Range
      <4> QED
        BY <4>1, <4>7 DEF s
    <3> QED
      BY <2>3, <3>2, <3>3, <3>4, <3>5
  <2> QED
    BY <2>5, <2>6
<1>2. MaxHashes \in Nat
  BY ChainStoreAssumption
<1> HIDE DEF S
<1>3. h \in S
  BY <1>1, <1>2, StrongInduction
<1> QED
  BY <1>3 DEF S

\* The common ancestor is the largest hash that both walks meet.
LEMMA CommonFacts ==
    ASSUME IInv, NEW old \in 0..MaxHashes, NEW new \in 0..MaxHashes,
           CommonAncestor(ToGenesis[old], ToGenesis[new]) # None
    PROVE  LET x == CommonAncestor(ToGenesis[old], ToGenesis[new]) IN
           /\ x \in Met(old) /\ x \in Met(new)
           /\ \A y \in Met(old) : y \in Met(new) => y <= x
<1> DEFINE c == ToGenesis[new]
           common == {i \in DOMAIN c : c[i] \in Range(ToGenesis[old])}
           least == CHOOSE i \in common : \A j \in common : i <= j
           x == CommonAncestor(ToGenesis[old], ToGenesis[new])
<1>1. c \in Seq(Hashes) /\ DOMAIN c = 1..Len(c) /\ Len(c) \in Nat
  BY ChainType
<1>2. common # {} /\ x = c[least]
  BY DEF CommonAncestor
<1>3. least \in common /\ \A j \in common : least <= j
  <2>1. common \subseteq Nat
    BY <1>1
  <2> HIDE DEF common
  <2>2. \E i \in common : \A j \in common : i <= j
    BY <1>2, <2>1, Least
  <2> QED
    BY <2>2
<1> HIDE DEF least, x
<1>4. x \in Met(old) /\ x \in Met(new)
  BY <1>2, <1>3 DEF Met, Range
<1>5. ASSUME NEW y \in Met(old), y \in Met(new) PROVE y <= x
  <2>1. PICK j \in DOMAIN c : c[j] = y
    BY <1>5 DEF Met, Range
  <2>2. j \in common
    BY <1>5, <2>1 DEF Met
  <2>3. least <= j /\ least \in 1..Len(c) /\ j \in 1..Len(c)
    BY <1>1, <1>3, <2>1, <2>2
  <2>4. \A i, k \in 1..Len(c) : i < k => c[i] > c[k]
    BY ChainFalls
  <2>5. c[least] \in Nat /\ c[j] \in Nat
    BY SMTT(20), <1>1, <2>3, ChainStoreAssumption DEF Hashes
  <2> HIDE DEF c, common
  <2>6. CASE least = j
    BY <1>2, <2>1, <2>5, <2>6
  <2>7. CASE least < j
    BY <1>2, <2>1, <2>3, <2>4, <2>5, <2>7
  <2> QED
    BY <2>3, <2>6, <2>7
<1> QED
  BY <1>4, <1>5 DEF x

\* The smallest hash above x in an unbroken walk is a child of x, one higher.
LEMMA ChildOf ==
    ASSUME IInv, NEW h \in 0..MaxHashes, NEW x \in Met(h), Unbroken(ToGenesis[h]),
           \E y \in Met(h) : y > x
    PROVE  \E y \in Met(h) : y > x /\ record[y] # None /\ Height(record[y]) = Height(record[x]) + 1
<1> DEFINE T == {y \in Met(h) : y > x}
<1>1. Met(h) \subseteq Hashes /\ Met(h) \subseteq Nat
  BY ChainFalls, ChainStoreAssumption DEF Hashes
<1>2. PICK y \in T : \A z \in T : y <= z
  <2>1. T \subseteq Nat /\ T # {}
    BY <1>1
  <2> HIDE DEF T
  <2> QED
    BY <2>1, Least
<1>3. y \in Met(h) /\ y > x /\ y \in Hashes /\ y \in Nat /\ x \in Nat /\ x \in Hashes
  BY <1>1, <1>2
<1>4. \A z \in Met(h) : record[z] # None /\ record[z].shape # "nested"
  <2>1. ToGenesis[h] \in Seq(Hashes)
    BY ChainType
  <2> QED
    BY <2>1 DEF Unbroken, Met, Range
<1>5. x \in Met(y) /\ Met(y) \subseteq Met(h)
  <2>1. Met(h) = {z \in Met(h) : z > y} \cup Met(y)
    BY <1>3, ChainSplits
  <2> QED
    BY <1>3, <2>1
<1>6. /\ Met(y) = {y} \cup Met(Up(y)) /\ Up(y) \in 0..(y - 1) /\ Up(y) \in 0..MaxHashes
  BY <1>3, ChainStep
<1>7. x \in Met(Up(y)) /\ x <= Up(y) /\ Up(y) \in Hashes
  <2>1. x \in Met(Up(y))
    BY <1>3, <1>5, <1>6
  <2>2. x \in 1..Up(y)
    BY <1>6, <2>1, ChainFalls
  <2> QED
    BY <1>6, <2>1, <2>2, ChainStoreAssumption DEF Hashes
<1>8. Up(y) \in Met(Up(y))
  BY <1>7, ChainStep
<1>9. Up(y) = x
  <2>1. Up(y) \in Met(h) /\ Up(y) < y
    BY <1>3, <1>5, <1>6, <1>8
  <2>2. ~(Up(y) > x)
    BY <1>2, <1>3, <1>6, <2>1
  <2> QED
    BY <1>3, <1>6, <1>7, <2>2
<1>10. record[y].parent = x
  BY <1>3, <1>9 DEF Up, Hashes
<1>11. Placed(record[y], y - 1) /\ record[y].shape # "genesis" /\ record[y].shape # "nested"
  <2>1. Placed(record[y], y - 1)
    BY <1>3, <1>4, RecordFacts
  <2>2. x # 0
    BY <1>3 DEF Hashes
  <2> QED
    BY <1>3, <1>4, <1>10, <2>1, <2>2 DEF Placed, ZeroHash
<1>12. Height(record[y]) = Height(inputs[x]) + 1
  BY <1>10, <1>11 DEF Placed, Height
<1>13. Height(inputs[x]) = Height(record[x])
  <2>1. inputs[x].shape = record[x].shape /\ inputs[x].height = record[x].height
    BY <1>3, <1>4, RecordFacts
  <2> QED
    BY <2>1 DEF Height
<1> QED
  BY <1>3, <1>4, <1>12, <1>13

LEMMA PlansSwitch == IInv => PlanSwitches
<1> SUFFICES ASSUME IInv, NEW old \in Hashes, NEW new \in Hashes, Plan(old, new).success
             PROVE  LET plan == Plan(old, new)
                        common == CommonAncestor(ToGenesis[old], ToGenesis[new])
                    IN
                    /\ (Range(ToGenesis[old]) \ plan.unmark) \cup plan.mark = Range(ToGenesis[new])
                    /\ plan.unmark \cap plan.mark = {}
                    /\ plan.unmark \cup {common} = Range(Between(old, common))
                    /\ plan.unmark # {} /\ plan.mark # {} /\ crashes = 0 /\ job = Idle
                       /\ Unbroken(ToGenesis[old]) /\ Unbroken(ToGenesis[new]) =>
                          Height(record[common]) + 1 \in Forks
  BY DEF PlanSwitches
<1> DEFINE x == CommonAncestor(ToGenesis[old], ToGenesis[new])
           plan == Plan(old, new)
<1>1. /\ x # None /\ plan.unmark = Above(ToGenesis[old], x)
      /\ plan.mark = Above(ToGenesis[new], x)
  BY DEF Plan
<1>2. old \in 0..MaxHashes /\ new \in 0..MaxHashes
  BY ChainStoreAssumption DEF Hashes
<1>3. /\ x \in Met(old) /\ x \in Met(new)
      /\ \A y \in Met(old) : y \in Met(new) => y <= x
  BY <1>1, <1>2, CommonFacts
<1> HIDE DEF x, plan
<1>4. /\ plan.unmark = {y \in Met(old) : y > x}
      /\ plan.mark = {y \in Met(new) : y > x}
  BY <1>1, <1>2, <1>3, AboveMet
<1>5. /\ x \in Hashes /\ x \in Nat
      /\ Met(old) = {y \in Met(old) : y > x} \cup Met(x)
      /\ Met(new) = {y \in Met(new) : y > x} \cup Met(x)
  BY <1>2, <1>3, ChainSplits, ChainStoreAssumption DEF Hashes
<1>6. /\ Met(x) \subseteq 1..x /\ x \in Met(x)
      /\ \A y \in Met(old) \cup Met(new) : y \in Nat
  <2>1. x \in 0..MaxHashes
    BY <1>5, ChainStep
  <2> QED
    BY <1>2, <1>5, <2>1, ChainFalls, ChainStep
<1>7. (Met(old) \ plan.unmark) \cup plan.mark = Met(new)
  <2>1. Met(old) \ {y \in Met(old) : y > x} = Met(x)
    BY <1>5, <1>6
  <2> QED
    BY <1>4, <1>5, <2>1
<1>8. plan.unmark \cap plan.mark = {}
  <2>1. SUFFICES ASSUME NEW y \in plan.unmark, y \in plan.mark PROVE FALSE
    OBVIOUS
  <2>2. y \in Met(old) /\ y \in Met(new) /\ y > x
    BY <1>4, <2>1
  <2> QED
    BY <1>3, <1>5, <1>6, <2>2
<1>9. plan.unmark \cup {x} = Range(Between(old, x))
  <2>1. Range(Between(old, x)) = {y \in Met(old) : y >= x}
    BY <1>2, <1>3, <1>5, BetweenMet
  <2>2. \A y \in Met(old) : y >= x <=> y > x \/ y = x
    BY <1>5, <1>6
  <2>3. {y \in Met(old) : y >= x} = {y \in Met(old) : y > x} \cup {x}
    BY <1>3, <2>2
  <2> QED
    BY <1>4, <2>1, <2>3
<1>10. ASSUME plan.unmark # {}, plan.mark # {}, crashes = 0, job = Idle,
              Unbroken(ToGenesis[old]), Unbroken(ToGenesis[new])
       PROVE  Height(record[x]) + 1 \in Forks
  <2>1. PICK y \in Met(old) : y > x /\ record[y] # None /\ Height(record[y]) = Height(record[x]) + 1
    BY <1>2, <1>3, <1>4, <1>10, ChildOf
  <2>2. PICK z \in Met(new) : z > x /\ record[z] # None /\ Height(record[z]) = Height(record[x]) + 1
    BY <1>2, <1>3, <1>4, <1>10, ChildOf
  <2>3. y # z /\ y \in Hashes /\ z \in Hashes
    <3>1. y \in Hashes /\ z \in Hashes
      BY <1>2, ChainSplits
    <3> QED
      BY <1>3, <1>5, <1>6, <2>1, <2>2, <3>1
  <2>4. ListBlocks = {h \in Hashes : record[h] # None}
    <3>1. IndexAgrees
      BY IndexFacts DEF IndexSound
    <3> QED
      BY <1>10, <3>1 DEF IndexAgrees
  <2> DEFINE k == Height(record[x]) + 1
             same == {h \in ListBlocks : Height(record[h]) = k}
  <2>5. y \in same /\ z \in same
    BY <2>1, <2>2, <2>3, <2>4
  <2>6. Cardinality(same) > 1
    <3>1. IsFiniteSet(Hashes)
      BY FS_Interval, ChainStoreAssumption DEF Hashes
    <3>2. same \subseteq Hashes
      BY <2>4
    <3> HIDE DEF same
    <3>3. IsFiniteSet(same) /\ Cardinality(same) \in Nat
      BY <3>1, <3>2, FS_Subset, FS_CardinalityType
    <3>4. Cardinality(same) # 0
      BY <2>5, <3>3, FS_EmptySet
    <3>5. Cardinality(same) # 1
      <4>1. SUFFICES ASSUME Cardinality(same) = 1 PROVE FALSE
        OBVIOUS
      <4>2. \E w : same = {w}
        BY <3>3, <4>1, FS_Singleton
      <4> QED
        BY <2>3, <2>5, <4>2
    <3> QED
      BY <3>3, <3>4, <3>5
  <2>7. k \in {Height(record[h]) : h \in ListBlocks}
    BY <2>1, <2>3, <2>4
  <2> QED
    BY <2>6, <2>7 DEF Forks
<1> QED
  BY <1>7, <1>8, <1>9, <1>10 DEF Met, plan, x

\* A planned reorganisation turns the old chain into the new one, and no block is
\* both unmarked and marked, whatever creations, deletions and crashes left of
\* either chain; where both lose and gain blocks, the index tells of a fork.
THEOREM PlanSwitchesTheorem == Spec => []PlanSwitches
BY InitStore, NextStore, PlansSwitch, PTL DEF Spec

------------------------------------------------------------------------------
\* Heights.

\* An unbroken walk goes down one height at a time, from parent to parent, and the
\* walk by height stops where it should.
Stairs(h) ==
    LET c == ToGenesis[h]
        top == record[h].height
    IN
    /\ record[h] # None /\ record[h].shape # "nested" /\ top \in Nat /\ Len(c) = top + 1
    /\ \A i \in 1..(top + 1) : c[i] \in Hashes /\ Height(record[c[i]]) = top + 1 - i
    /\ \A i \in 1..top : Parent(record[c[i]]) = c[i + 1]
    /\ \A k \in 0..top : Below(h, k) = c[top + 1 - k]

LEMMA ChainHeights ==
    ASSUME IInv, NEW h \in Hashes, Unbroken(ToGenesis[h])
    PROVE  Stairs(h)
<1> DEFINE S == {g \in 0..MaxHashes : g \in Hashes /\ Unbroken(ToGenesis[g]) => Stairs(g)}
<1>1. ASSUME NEW n \in 0..MaxHashes, \A m \in 0..(n - 1) : m \in S PROVE n \in S
  <2>1. SUFFICES ASSUME n \in Hashes, Unbroken(ToGenesis[n]) PROVE Stairs(n)
    OBVIOUS
  <2> DEFINE u == Up(n)
             c == ToGenesis[n]
             t == ToGenesis[u]
             top == record[n].height
  <2>2. /\ u \in 0..(n - 1) /\ u \in 0..MaxHashes /\ n \in 1..MaxHashes /\ MaxHashes \in Nat
        /\ c \in Seq(Hashes) /\ t \in Seq(Hashes) /\ Len(t) \in Nat
        /\ Len(c) = Len(t) + 1 /\ c[1] = n
        /\ \A i \in 1..Len(t) : c[i + 1] = t[i]
    BY <2>1, ChainStep, UpFacts
  <2>3. DOMAIN c = 1..(Len(t) + 1) /\ DOMAIN t = 1..Len(t)
    BY <2>2
  <2>4. \A i \in 1..(Len(t) + 1) : record[c[i]] # None /\ record[c[i]].shape # "nested"
    BY <2>1, <2>3 DEF Unbroken
  <2>5. record[n] # None /\ record[n].shape # "nested"
    BY <2>2, <2>4
  <2>6. record[n] \in Blocks /\ top \in Nat /\ Placed(record[n], n - 1)
    BY <2>1, <2>5, RecordFacts DEF Blocks
  <2>7. Height(record[n]) = top /\ Parent(record[n]) = record[n].parent
    BY <2>5 DEF Height, Parent
  <2>8. \A k : Below(n, k) = IF top = k THEN n ELSE Below(u, k)
    <3> SUFFICES ASSUME NEW k PROVE Below(n, k) = IF top = k THEN n ELSE Below(u, k)
      OBVIOUS
    <3>1. Below(n, k) = IF n = 0 \/ record[n] = None THEN None
                        ELSE IF Height(record[n]) = k THEN n ELSE Below(Up(n), k)
      BY BelowStep
    <3> QED
      BY <2>2, <2>5, <2>7, <3>1
  <2>9. CASE record[n].shape = "genesis"
    <3>1. top = 0 /\ u = 0
      BY <2>6, <2>9 DEF Placed, Up, ZeroHash
    <3>2. t = << >>
      BY <3>1, ChainStart
    <3>3. Len(c) = 1
      <4>1. Len(<< >>) = 0
        OBVIOUS
      <4> QED
        BY <2>2, <3>2, <4>1
    <3> HIDE DEF u, c, t
    <3>4. /\ \A i \in 1..(0 + 1) : c[i] \in Hashes /\ Height(record[c[i]]) = 0 + 1 - i
          /\ \A i \in 1..0 : Parent(record[c[i]]) = c[i + 1]
          /\ \A k \in 0..0 : Below(n, k) = c[0 + 1 - k]
      BY <2>1, <2>2, <2>7, <2>8, <3>1
    <3> QED
      BY <2>5, <2>6, <3>1, <3>3, <3>4 DEF Stairs, c
  <2>10. CASE record[n].shape # "genesis"
    <3>1. /\ record[n].parent \in 1..(n - 1)
          /\ top = Height(inputs[record[n].parent]) + 1
      BY <2>6, <2>10 DEF Placed
    <3>2. u = record[n].parent /\ u \in Hashes
      <4>1. record[n].parent \in Int
        BY <3>1
      <4>2. Parent(record[n]) # None
        BY <2>7, <4>1, NoneAssumption
      <4>3. u = record[n].parent
        BY <2>5, <4>2 DEF Up
      <4> QED
        BY <2>2, <3>1, <4>3 DEF Hashes
    <3> DEFINE low == record[u].height
    <3> HIDE DEF u, c, t
    <3>3. Unbroken(t)
      <4> SUFFICES ASSUME NEW i \in 1..Len(t)
                   PROVE  record[t[i]] # None /\ record[t[i]].shape # "nested"
        BY <2>3 DEF Unbroken
      <4>1. i + 1 \in 1..(Len(t) + 1) /\ c[i + 1] = t[i]
        BY <2>2
      <4> QED
        BY <2>4, <4>1
    <3>4. Stairs(u)
      BY <1>1, <2>2, <3>2, <3>3 DEF t
    <3>5. /\ record[u] # None /\ record[u].shape # "nested" /\ low \in Nat /\ Len(t) = low + 1
          /\ \A i \in 1..(low + 1) : t[i] \in Hashes /\ Height(record[t[i]]) = low + 1 - i
          /\ \A i \in 1..low : Parent(record[t[i]]) = t[i + 1]
          /\ \A k \in 0..low : Below(u, k) = t[low + 1 - k]
      BY <3>4 DEF Stairs, t
    <3>6. top = low + 1
      <4>1. inputs[u].shape = record[u].shape /\ inputs[u].height = record[u].height
        BY <3>2, <3>5, RecordFacts
      <4>2. Height(inputs[u]) = low
        BY <3>5, <4>1 DEF Height
      <4> QED
        BY <3>1, <3>2, <4>2
    <3>7. t[1] = u
      BY <3>2, ChainStep DEF t
    <3> HIDE DEF top, low
    <3>8. Len(c) = top + 1
      BY <2>2, <3>5, <3>6
    <3>9. ASSUME NEW i \in 1..(top + 1)
          PROVE  c[i] \in Hashes /\ Height(record[c[i]]) = top + 1 - i
      <4>1. CASE i = 1
        BY <2>1, <2>2, <2>6, <2>7, <4>1 DEF top
      <4>2. CASE i # 1
        <5>1. i - 1 \in 1..(low + 1) /\ (i - 1) + 1 = i /\ top + 1 - i = low + 1 - (i - 1)
          BY <3>5, <3>6, <4>2
        <5>2. c[i] = t[i - 1]
          BY <2>2, <3>5, <5>1
        <5> QED
          BY <3>5, <5>1, <5>2
      <4> QED
        BY <4>1, <4>2
    <3>10. ASSUME NEW i \in 1..top PROVE Parent(record[c[i]]) = c[i + 1]
      <4>1. CASE i = 1
        <5>1. c[2] = t[1]
          <6>1. 1 \in 1..Len(t) /\ 1 + 1 = 2
            BY <3>5
          <6> QED
            BY <2>2, <6>1
        <5> QED
          BY <2>2, <2>7, <3>2, <3>7, <4>1, <5>1
      <4>2. CASE i # 1
        <5>1. i - 1 \in 1..low /\ (i - 1) + 1 = i /\ i \in 1..Len(t) /\ i - 1 \in 1..Len(t)
          BY SMTT(20), <3>5, <3>6, <4>2
        <5>2. c[i] = t[i - 1] /\ c[i + 1] = t[i]
          BY <2>2, <5>1
        <5> QED
          BY <3>5, <5>1, <5>2
      <4> QED
        BY <4>1, <4>2
    <3>11. ASSUME NEW k \in 0..top PROVE Below(n, k) = c[top + 1 - k]
      <4>1. CASE k = top
        <5>1. top + 1 - k = 1
          BY <3>5, <3>6, <4>1
        <5> QED
          BY <2>2, <2>8, <4>1, <5>1 DEF top
      <4>2. CASE k # top
        <5>1. k \in 0..low /\ low + 1 - k \in 1..Len(t) /\ (low + 1 - k) + 1 = top + 1 - k
          BY <3>5, <3>6, <4>2
        <5>2. Below(n, k) = Below(u, k)
          BY <2>8, <4>2 DEF top
        <5> QED
          BY <2>2, <3>5, <5>1, <5>2
      <4> QED
        BY <4>1, <4>2
    <3> QED
      BY <2>5, <2>6, <3>8, <3>9, <3>10, <3>11 DEF Stairs, c, top
  <2> QED
    BY <2>9, <2>10
<1>2. MaxHashes \in Nat /\ h \in 0..MaxHashes
  BY ChainStoreAssumption DEF Hashes
<1> HIDE DEF S
<1>3. h \in S
  BY <1>1, <1>2, StrongInduction
<1> QED
  BY <1>3 DEF S

\* A finite set of blocks counts as many as its parts by status.
LEMMA ByStatusAdds ==
    ASSUME IInv, NEW found, IsFiniteSet(found), \A h \in found : record[h] \in Blocks
    PROVE  Cardinality(found) = Cardinality({h \in found : record[h].status = "proposed"})
                                + Cardinality({h \in found : record[h].status = "justified"})
                                + Cardinality({h \in found : record[h].status = "finalized"})
<1> DEFINE Of(s) == {h \in found : record[h].status = s}
           P == Of("proposed")
           J == Of("justified")
           F == Of("finalized")
<1>1. /\ P \in SUBSET found /\ J \in SUBSET found /\ F \in SUBSET found
      /\ P \cap J = {} /\ (P \cup J) \cap F = {}
  OBVIOUS
<1>2. found = (P \cup J) \cup F
  <2>1. \A h \in found : record[h].status \in {"proposed", "justified", "finalized"}
    BY DEF Blocks, Statuses
  <2> QED
    BY <2>1
<1> HIDE DEF P, J, F, Of
<1>3. /\ IsFiniteSet(P) /\ IsFiniteSet(J) /\ IsFiniteSet(F)
      /\ Cardinality(P) \in Nat /\ Cardinality(J) \in Nat /\ Cardinality(F) \in Nat
  BY <1>1, FS_Subset, FS_CardinalityType
<1>4. IsFiniteSet(P \cup J) /\ Cardinality(P \cup J) = Cardinality(P) + Cardinality(J)
  <2>1. Cardinality(P \cup J) = Cardinality(P) + Cardinality(J) - Cardinality(P \cap J)
    BY <1>3, FS_Union
  <2>2. Cardinality(P \cap J) = 0
    BY <1>1, FS_EmptySet
  <2>3. IsFiniteSet(P \cup J)
    BY <1>3, FS_Union
  <2> QED
    BY <1>3, <2>1, <2>2, <2>3
<1>5. Cardinality((P \cup J) \cup F) = Cardinality(P \cup J) + Cardinality(F)
  <2>1. Cardinality((P \cup J) \cup F) = Cardinality(P \cup J) + Cardinality(F)
                                         - Cardinality((P \cup J) \cap F)
    BY <1>3, <1>4, FS_Union
  <2> QED
    BY <1>1, <1>3, <1>4, <2>1, FS_EmptySet
<1> QED
  BY <1>2, <1>3, <1>4, <1>5 DEF P, J, F, Of

LEMMA HeightsFill == IInv => HeightsFilled
<1> DEFINE c == ToGenesis[TipHash]
           stats == Statistics(c)
<1> SUFFICES ASSUME IInv, Tip # None, Unbroken(c)
             PROVE  /\ HeightRange(0, ChainHeight) = Range(c)
                    /\ \A k \in 0..ChainHeight : Height(record[ByHeight(k)]) = k
                    /\ Linked(Reverse(c))
                    /\ stats.heights = 0..ChainHeight
                    /\ stats.blocks = ChainHeight + 1
                    /\ stats.blocks = stats.status["proposed"] + stats.status["justified"]
                                     + stats.status["finalized"]
  BY DEF HeightsFilled
<1> DEFINE tip == TipHash
           top == record[tip].height
<1>1. tip # None /\ Tip = record[tip] /\ record[tip] # None /\ chainState # None /\ tip = chainState.tip
  BY DEF Tip, TipHash
<1>2. tip \in Hashes
  BY <1>1 DEF IInv, Typed, TypeOK
<1>3. Stairs(tip)
  BY <1>2, ChainHeights
<1>4. /\ record[tip].shape # "nested" /\ top \in Nat /\ Len(c) = top + 1
      /\ \A i \in 1..(top + 1) : c[i] \in Hashes /\ Height(record[c[i]]) = top + 1 - i
      /\ \A i \in 1..top : Parent(record[c[i]]) = c[i + 1]
      /\ \A k \in 0..top : Below(tip, k) = c[top + 1 - k]
  BY <1>3 DEF Stairs
<1>5. ChainHeight = top /\ Height(Tip) = top
  <2>1. inputs[tip].height = record[tip].height
    BY <1>1, <1>2, RecordFacts
  <2> QED
    BY <1>1, <1>4, <2>1 DEF IInv, TipHashed, ChainHeight, Height
<1>6. c \in Seq(Hashes) /\ DOMAIN c = 1..(top + 1)
  <2>1. c \in Seq(Hashes)
    BY <1>2, ChainStep
  <2> QED
    BY <1>4, <2>1
<1>7. \A i \in 1..(top + 1) : record[c[i]] # None
  BY <1>6 DEF Unbroken
<1> HIDE DEF c, tip, top
<1>8. \A k \in 0..top : ByHeight(k) = c[top + 1 - k] /\ top + 1 - k \in 1..(top + 1)
  <2> SUFFICES ASSUME NEW k \in 0..top PROVE ByHeight(k) = c[top + 1 - k]
    BY <1>4
  <2>1. ~(k > Height(Tip))
    BY <1>4, <1>5
  <2> QED
    BY <1>4, <2>1 DEF ByHeight, tip
<1>9. \A i \in 1..(top + 1) : top + 1 - i \in 0..top /\ ByHeight(top + 1 - i) = c[i]
  <2> SUFFICES ASSUME NEW i \in 1..(top + 1) PROVE top + 1 - i \in 0..top /\ ByHeight(top + 1 - i) = c[i]
    OBVIOUS
  <2>1. top + 1 - i \in 0..top /\ top + 1 - (top + 1 - i) = i
    BY <1>4
  <2> QED
    BY <1>8, <2>1
<1>10. HeightRange(0, ChainHeight) = Range(c)
  <2>1. Range(c) = {c[i] : i \in 1..(top + 1)}
    BY <1>6 DEF Range
  <2>2. {ByHeight(k) : k \in 0..top} = Range(c)
    BY <1>8, <1>9, <2>1
  <2>3. None \notin Range(c)
    <3>1. \A g \in Hashes : g # None
      BY NoneAssumption DEF Hashes
    <3> QED
      BY <1>4, <2>1, <3>1
  <2>4. Loaded(Range(c)) = Range(c)
    BY <1>7, <2>1 DEF Loaded
  <2> QED
    BY <1>5, <2>2, <2>3, <2>4 DEF HeightRange
<1>11. \A k \in 0..ChainHeight : Height(record[ByHeight(k)]) = k
  <2> SUFFICES ASSUME NEW k \in 0..top PROVE Height(record[ByHeight(k)]) = k
    BY <1>5
  <2>1. top + 1 - (top + 1 - k) = k
    BY <1>4
  <2> QED
    BY <1>4, <1>8, <2>1
<1>12. Linked(Reverse(c))
  <2> DEFINE r == Reverse(c)
  <2>1. r = [j \in 1..(top + 1) |-> c[(top + 1) - j + 1]]
    BY <1>4 DEF Reverse
  <2>2. DOMAIN r = 1..(top + 1) /\ \A j \in 1..(top + 1) : r[j] = c[(top + 1) - j + 1]
    BY <2>1
  <2> HIDE DEF r
  <2>3. ASSUME NEW i \in DOMAIN r \ {1}
        PROVE  /\ Parent(record[r[i]]) = r[i - 1]
               /\ Height(record[r[i]]) = Height(record[r[i - 1]]) + 1
    <3> DEFINE j == (top + 1) - i + 1
    <3>0. top \in Nat /\ i \in 1..(top + 1) /\ i # 1
      BY <1>4, <2>2
    <3>1. /\ j \in 1..top /\ j + 1 \in 1..(top + 1) /\ j \in 1..(top + 1)
          /\ (top + 1) - (i - 1) + 1 = j + 1 /\ i \in 1..(top + 1) /\ i - 1 \in 1..(top + 1)
      BY <3>0
    <3>2. r[i] = c[j]
      BY <2>2, <3>1
    <3>3. r[i - 1] = c[j + 1]
      BY <2>2, <3>1
    <3> HIDE DEF j
    <3>4. Height(record[c[j]]) = top + 1 - j /\ Height(record[c[j + 1]]) = top + 1 - (j + 1)
      BY <1>4, <3>1
    <3>5. top + 1 - j = (top + 1 - (j + 1)) + 1
      BY <3>0, <3>1
    <3> QED
      BY <1>4, <3>1, <3>2, <3>3, <3>4, <3>5
  <2> QED
    BY <2>3 DEF Linked, r
<1> DEFINE found == Loaded(Range(c))
<1>13. found = Range(c) /\ Range(c) = {c[i] : i \in 1..(top + 1)}
  BY <1>6, <1>7 DEF Loaded, Range
<1>14. stats.heights = 0..ChainHeight
  <2>1. stats.heights = {Height(record[h]) : h \in Range(c)}
    BY <1>13 DEF Statistics
  <2>2. \A i \in 1..(top + 1) : Height(record[c[i]]) \in 0..top
    BY <1>4, <1>9
  <2>3. \A k \in 0..top : Height(record[c[top + 1 - k]]) = k
    BY <1>5, <1>8, <1>11
  <2> HIDE DEF stats
  <2>4. stats.heights \subseteq 0..top
    BY <1>13, <2>1, <2>2
  <2>5. 0..top \subseteq stats.heights
    BY <1>8, <1>13, <2>1, <2>3
  <2> QED
    BY <1>5, <2>4, <2>5
<1>15. stats.blocks = ChainHeight + 1
  BY <1>4, <1>5 DEF Statistics
<1>16. IsFiniteSet(Range(c)) /\ Cardinality(Range(c)) = top + 1
  <2>1. c \in [1..(top + 1) -> Range(c)]
    BY <1>6 DEF Range
  <2>2. ASSUME NEW i \in 1..(top + 1), NEW j \in 1..(top + 1), c[i] = c[j] PROVE i = j
    <3>1. top + 1 - i = top + 1 - j
      BY <1>4, <2>2
    <3> QED
      BY <1>4, <3>1
  <2>3. \A y \in Range(c) : \E i \in 1..(top + 1) : c[i] = y
    BY <1>13
  <2>4. c \in Bijection(1..(top + 1), Range(c))
    BY <2>1, <2>2, <2>3 DEF Bijection, Injection, Surjection, IsInjective
  <2>5. IsFiniteSet(1..(top + 1)) /\ Cardinality(1..(top + 1)) = top + 1
    BY <1>4, FS_Interval
  <2>6. ExistsBijection(1..(top + 1), Range(c))
    BY <2>4 DEF ExistsBijection
  <2> QED
    BY <2>5, <2>6, FS_Bijection
<1>17. stats.blocks = stats.status["proposed"] + stats.status["justified"] + stats.status["finalized"]
  <2>1. \A h \in Range(c) : record[h] \in Blocks
    BY <1>4, <1>7, <1>13, RecordFacts
  <2> DEFINE N(s) == Cardinality({h \in Range(c) : record[h].status = s})
  <2>2. Cardinality(Range(c)) = N("proposed") + N("justified") + N("finalized")
    BY <1>16, <2>1, ByStatusAdds
  <2>3. stats.status = [s \in Statuses |-> N(s)]
    BY <1>13 DEF Statistics
  <2> HIDE DEF N, stats
  <2>4. /\ stats.status["proposed"] = N("proposed") /\ stats.status["justified"] = N("justified")
        /\ stats.status["finalized"] = N("finalized")
    BY <2>3 DEF Statuses
  <2> QED
    BY <1>5, <1>15, <1>16, <2>2, <2>4
<1> QED
  BY <1>10, <1>11, <1>12, <1>14, <1>15, <1>17 DEF c

\* A chain of flat blocks with no record missing is read by height without a gap,
\* linked from genesis up and counted once at each height, whatever was built
\* beside it, deleted, replaced or set as the tip.
THEOREM HeightsFilledTheorem == Spec => []HeightsFilled
BY InitStore, NextStore, HeightsFill, PTL DEF Spec
==============================================================================
