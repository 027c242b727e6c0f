----------------------------- MODULE ChainStore -----------------------------
(***************************************************************************)
(* The block store of one node: block records, the index, the chain state  *)
(* kept inside the index (lib_blockchain: blockchain_index_service.py,     *)
(* blockchain_storage_adapter.py), the blocks that are put into it         *)
(* (blockchain_builder.py, blockchain_helper.py, blockchain_validation.py),*)
(* and the walks over it (blockchain.py).                                  *)
(*                                                                         *)
(* Blocks come in two shapes. Those of the builder are flat, like the      *)
(* genesis. Those of a proposer are nested: slot, height, parent, gas and  *)
(* fee are in the header, while the record's own height, parent and gas    *)
(* are schema defaults: 0, none and none. Each reader looks at one place.  *)
(*                                                                         *)
(* A hash stands for what generate_block_hash covers: hashes are numbered  *)
(* in the order their inputs are first hashed, so a parent's is smaller.   *)
(* Transactions are counted, at one unit of gas each. A storage write is   *)
(* atomic, and the process may stop between two of them.                   *)
(***************************************************************************)
EXTENDS Integers, Sequences, FiniteSets, SequencesExt

CONSTANTS
    None,       \* model value: nothing stored, no hash, no value
    GasLimit,   \* gas limit of a block, in transactions
    MinFee,     \* MIN_BASE_FEE, in units
    TxCounts,   \* how many transactions a caller may put into a block
    MaxSlot,    \* bound: slots
    Times,      \* what the clock may show, in seconds after the earliest of a block
    MaxHashes,  \* bound: hashes computed
    MaxUpdates, \* bound: updates, deletions and cleanups
    MaxCrashes  \* bound: crashes

ASSUME ChainStoreAssumption ==
    /\ {MaxSlot, MaxHashes, MaxUpdates, MaxCrashes} \subseteq Nat
    /\ TxCounts \subseteq Nat /\ Times \subseteq Nat
    /\ GasLimit \in Nat \ {0} /\ GasLimit % 2 = 0 /\ MinFee \in Nat \ {0}

Hashes   == 1..MaxHashes
ZeroHash == 0
Statuses == {"proposed", "justified", "finalized"}
Shapes   == {"genesis", "flat", "nested"}

VARIABLES
    record,     \* block records, by hash
    entry,      \* the index's "blocks"
    chainState, \* the index's "chain_state", if it has one
    inputs,     \* what has been hashed: inputs[h] has the hash h
    job,        \* the operation that has written a first time
    updates,    \* maintenance operations so far
    crashes

vars == <<record, entry, chainState, inputs, job, updates, crashes>>

Idle == [op |-> "idle"]

\* The parts of a block that the store and the walks tell apart.
Blocks == [shape : Shapes, parent : 0..MaxHashes, height : Nat, slot : Nat,
           txs : Nat, count : Nat, gas : Nat, fee : Nat, time : Nat, status : Statuses]
Entries == [height : Nat, slot : Nat, status : Statuses]

ASSUME NoneAssumption == None \notin Int \cup Blocks \cup Entries

Init ==
    /\ record = [h \in Hashes |-> None]
    /\ entry = [h \in Hashes |-> None]
    /\ chainState = [tip |-> None, height |-> -1]
    /\ inputs = <<>>
    /\ job = Idle
    /\ updates = 0 /\ crashes = 0

------------------------------------------------------------------------------
\* What readers of a record find at its top level

Height(b) == IF b.shape = "nested" THEN 0 ELSE b.height
Parent(b) == IF b.shape = "nested" THEN None ELSE b.parent

\* build_index_entry_from_block: fields of the header come first.
EntryFor(b) == [height |-> b.height, slot |-> b.slot, status |-> b.status]

\* get_chain_tip: the record of the tip, if the chain state names one.
TipHash == IF chainState = None THEN None ELSE chainState.tip
Tip == IF TipHash = None THEN None ELSE record[TipHash]
ChainHeight == IF chainState = None THEN -1 ELSE chainState.height

------------------------------------------------------------------------------
\* Building a block

\* Faulty: the increase is not divided by eight.
NextFeeInFull(gas, limit, fee) ==
    LET target == limit \div 2 IN
    IF gas > target THEN fee + (fee * (gas - target)) \div target
    ELSE IF fee < MinFee THEN MinFee ELSE fee

\* calculate_next_base_fee.
NextFee(gas, limit, fee) ==
    LET target == limit \div 2 IN
    IF gas = target THEN fee
    ELSE IF gas > target
    THEN LET delta == ((fee * (gas - target)) \div target) \div 8
         IN fee + (IF delta < 1 THEN 1 ELSE delta)
    ELSE LET lower == fee - ((fee * (target - gas)) \div target) \div 8
         IN IF lower < MinFee THEN MinFee ELSE lower

\* prepare_genesis_block_data.
Genesis(time) == [shape |-> "genesis", parent |-> ZeroHash, height |-> 0, slot |-> 0,
                  txs |-> 0, count |-> 0, gas |-> 0, fee |-> MinFee, time |-> time,
                  status |-> "finalized"]

\* prepare_consensus_block_data, on a parent whose gas is at its top level.
Flat(h, slot, txs, time) ==
    LET p == record[h] IN
    [shape |-> "flat", parent |-> h, height |-> Height(p) + 1, slot |-> slot, txs |-> txs,
     count |-> txs, gas |-> txs, fee |-> NextFee(p.gas, GasLimit, p.fee), time |-> time,
     status |-> "proposed"]

\* Faulty: the height falls by one from block to block.
NestedLow(h, slot, txs, time) ==
    LET p == record[h] IN
    [shape |-> "nested", parent |-> h, height |-> Height(p) - 1, slot |-> slot, txs |-> txs,
     count |-> 0, gas |-> 0, fee |-> MinFee, time |-> time, status |-> "proposed"]

\* build_candidate_block: a parent without a header counts as an empty block at
\* the lowest fee.
Nested(h, slot, txs, time) ==
    LET p == record[h] IN
    [shape |-> "nested", parent |-> h, height |-> Height(p) + 1, slot |-> slot, txs |-> txs,
     count |-> 0, gas |-> 0,
     fee |-> IF p.shape = "nested" THEN NextFee(p.gas, GasLimit, p.fee)
                                   ELSE NextFee(0, GasLimit, MinFee),
     time |-> time, status |-> "proposed"]

\* populate_jit_block_fields: what follows from the transactions, whatever the
\* builder put there.
Populated(b) == [b EXCEPT !.count = b.txs, !.gas = b.txs]

\* Fields that the "create" view requires, those that a maker fills, wherever in
\* the block, and those that the schema has a default for.
Required == {"parent_hash", "height", "slot", "epoch", "proposer_index", "transactions", "gas_limit",
             "base_fee_per_gas", "timestamp", "block_type", "network", "consensus_type"}
Filled   == [genesis |-> Required \ {"consensus_type"}, flat |-> Required, nested |-> Required]
Default  == {"gas_limit", "base_fee_per_gas", "block_type", "network", "transactions",
             "consensus_type"}

RequiredFields(b) == Required \subseteq Filled[b.shape] \cup Default
FieldFormats(b)   == b.parent \in Hashes \cup {ZeroHash} /\ b.status \in Statuses
GasFields(b)      == b.gas <= GasLimit /\ b.fee >= MinFee
ConsensusFields(b) == b.slot >= 0
\* The clock moves on between the two: a block is never from the future.
Timestamp(b)      == b.height > 0 => b.time >= 0
TransactionList(b) == b.count = b.txs
\* Nothing is said of the parent's height.
HeightSequence(b) == b.height = 0 => b.parent = ZeroHash
CreationRequirements(b) == b.shape = "genesis" => b.height = 0 /\ b.parent = ZeroHash

\* validate_for_creation.
Valid(b) ==
    /\ RequiredFields(b) /\ FieldFormats(b) /\ GasFields(b) /\ ConsensusFields(b)
    /\ Timestamp(b) /\ TransactionList(b) /\ HeightSequence(b) /\ CreationRequirements(b)

\* generate_block_hash covers the slot of a flat block only, in its extra data.
HashInput(b) == [shape |-> b.shape, parent |-> b.parent, height |-> b.height, txs |-> b.txs,
                 gas |-> b.gas, fee |-> b.fee, time |-> b.time,
                 slot |-> IF b.shape = "flat" THEN b.slot ELSE 0]

------------------------------------------------------------------------------
\* Operations: each begins when the one before is done

\* create_block_with_index of a populated block: one with the hash of another
\* replaces it.
Create(b) ==
    /\ job = Idle /\ Valid(b)
    /\ \E h \in Hashes :
          /\ \/ h \in DOMAIN inputs /\ inputs[h] = HashInput(b) /\ inputs' = inputs
             \/ /\ h = Len(inputs) + 1 /\ HashInput(b) \notin Range(inputs)
                /\ inputs' = Append(inputs, HashInput(b))
          /\ record' = [record EXCEPT ![h] = b]
          /\ job' = [op |-> "create", hash |-> h, block |-> b]
    /\ UNCHANGED <<entry, chainState, updates, crashes>>

\* Callers create a genesis when the chain has no height, and nothing on a tip
\* that was deleted. The slot of a proposed block is above its parent's, if that
\* has a header.
Built(slot, txs, time) ==
    IF ChainHeight = -1 THEN {Genesis(time)}
    ELSE IF Tip = None THEN {}
    ELSE (IF Tip.shape # "nested" THEN {Flat(TipHash, slot, txs, time)} ELSE {}) \cup
         (IF Tip.shape = "nested" /\ slot <= Tip.slot THEN {}
          ELSE {Nested(TipHash, slot, txs, time)})

\* _create_index_entry.
IndexBlock ==
    /\ job.op = "create"
    /\ entry' = [entry EXCEPT ![job.hash] = EntryFor(job.block)]
    /\ job' = Idle
    /\ UNCHANGED <<record, chainState, inputs, updates, crashes>>

\* set_chain_tip, with the block's own height; what else was in the chain state
\* stays, and a chain state that was lost is made anew.
SetTip(h) ==
    /\ job = Idle /\ record[h] # None
    /\ chainState' = [tip |-> h, height |-> record[h].height]
    /\ UNCHANGED <<record, entry, inputs, job, updates, crashes>>

Maintain == job = Idle /\ updates < MaxUpdates /\ updates' = updates + 1

\* update_block.
Update(h, status) ==
    /\ Maintain /\ record[h] # None
    /\ record' = [record EXCEPT ![h].status = status]
    /\ job' = [op |-> "update", hash |-> h, status |-> status]
    /\ UNCHANGED <<entry, chainState, inputs, crashes>>

\* _update_index_entry.
UpdateEntry ==
    /\ job.op = "update"
    /\ entry' = IF entry[job.hash] = None THEN entry
                ELSE [entry EXCEPT ![job.hash].status = job.status]
    /\ job' = Idle
    /\ UNCHANGED <<record, chainState, inputs, updates, crashes>>

\* Faulty: the record goes first, and the entry never.
DeleteOnlyRecord(h) ==
    /\ Maintain /\ record[h] # None
    /\ record' = [record EXCEPT ![h] = None]
    /\ UNCHANGED <<entry, chainState, inputs, job, crashes>>

\* delete_block: the index first.
Delete(h) ==
    /\ Maintain /\ record[h] # None
    /\ entry' = [entry EXCEPT ![h] = None]
    /\ job' = [op |-> "delete", hash |-> h]
    /\ UNCHANGED <<record, chainState, inputs, crashes>>

DeleteRecord ==
    /\ job.op = "delete"
    /\ record' = [record EXCEPT ![job.hash] = None]
    /\ job' = Idle
    /\ UNCHANGED <<entry, chainState, inputs, updates, crashes>>

\* cleanup_orphaned_entries saves an index that has blocks only.
Cleanup ==
    /\ Maintain
    /\ entry' = [h \in Hashes |-> IF record[h] = None THEN None ELSE entry[h]]
    /\ chainState' = None
    /\ UNCHANGED <<record, inputs, job, crashes>>

\* rebuild_index calls a method that is not there as soon as there is a block.
Rebuild ==
    /\ Maintain /\ \A h \in Hashes : record[h] = None
    /\ entry' = [h \in Hashes |-> None]
    /\ chainState' = None
    /\ UNCHANGED <<record, inputs, job, crashes>>

Crash ==
    /\ job # Idle /\ crashes < MaxCrashes
    /\ job' = Idle /\ crashes' = crashes + 1
    /\ UNCHANGED <<record, entry, chainState, inputs, updates>>

Next ==
    \/ \E slot \in 0..MaxSlot, txs \in TxCounts, time \in Times :
          \E b \in Built(slot, txs, time) : Create(Populated(b))
    \/ IndexBlock
    \/ \E h \in Hashes : SetTip(h) \/ Delete(h) \/ \E s \in {"justified", "finalized"} : Update(h, s)
    \/ UpdateEntry \/ DeleteRecord \/ Cleanup \/ Rebuild \/ Crash

Spec == Init /\ [][Next]_vars

------------------------------------------------------------------------------
\* Readers of the index: an entry without a record is passed over

Loaded(hashes)  == {h \in hashes : record[h] # None}
Listed          == {h \in Hashes : entry[h] # None}
ListBlocks      == Loaded(Listed)
ByStatus(s)     == Loaded({h \in Listed : entry[h].status = s})
InSlots(from, to) == Loaded({h \in Listed : entry[h].slot \in from..to})
CountOf(s)      == Cardinality({h \in Listed : entry[h].status = s})

\* detect_chain_forks: heights that two blocks have, by their records.
Forks == {k \in {Height(record[h]) : h \in ListBlocks} :
             Cardinality({h \in ListBlocks : Height(record[h]) = k}) > 1}

------------------------------------------------------------------------------
\* Walks over the store

\* get_chain_to_genesis: a hash is taken before its record is looked for.
ToGenesis[h \in 0..MaxHashes] ==
    IF h = ZeroHash THEN <<>>
    ELSE IF record[h] = None \/ Parent(record[h]) = None THEN <<h>>
    ELSE <<h>> \o ToGenesis[record[h].parent]

\* _get_canonical_block_hash_by_height, below the hash h.
Below(h, k) ==
    LET walk[g \in 0..MaxHashes] ==
            IF g = ZeroHash \/ record[g] = None THEN None
            ELSE IF Height(record[g]) = k THEN g
            ELSE IF Parent(record[g]) = None THEN None
            ELSE walk[record[g].parent]
    IN walk[h]

\* Faulty: the tip itself counts as too high.
ByHeightBelowTip(k) == IF Tip = None \/ k >= Height(Tip) THEN None ELSE Below(TipHash, k)

ByHeight(k) == IF Tip = None \/ k > Height(Tip) THEN None ELSE Below(TipHash, k)

\* get_blocks_by_height_range.
HeightRange(from, to) == Loaded({ByHeight(k) : k \in from..to} \ {None})

\* get_chain_between_blocks, both ends included; all there is if the end is not
\* met, and then the zero hash as well, which is taken before it is looked for.
Between(h, end) ==
    LET walk[g \in 0..MaxHashes] ==
            IF g \in {end, ZeroHash} THEN <<g>>
            ELSE IF record[g] = None \/ Parent(record[g]) = None THEN <<g>>
            ELSE <<g>> \o walk[record[g].parent]
    IN walk[h]

\* Faulty: the last of the second chain that is in the first, the genesis.
CommonGenesis(chain1, chain2) ==
    LET common == {i \in DOMAIN chain2 : chain2[i] \in Range(chain1)} IN
    IF common = {} THEN None ELSE chain2[CHOOSE i \in common : \A j \in common : i >= j]

\* find_common_ancestor: the first of the second chain that is in the first.
CommonAncestor(chain1, chain2) ==
    LET common == {i \in DOMAIN chain2 : chain2[i] \in Range(chain1)} IN
    IF common = {} THEN None ELSE chain2[CHOOSE i \in common : \A j \in common : i <= j]

\* What is above a hash in a chain, tip first.
Above(chain, h) == {chain[i] : i \in {i \in DOMAIN chain : \A j \in 1..i : chain[j] # h}}

\* plan_chain_reorganization.
Plan(old, new) ==
    LET chain1 == ToGenesis[old]
        chain2 == ToGenesis[new]
        common == CommonAncestor(chain1, chain2)
    IN IF common = None THEN [success |-> FALSE, unmark |-> {}, mark |-> {}]
       ELSE [success |-> TRUE, unmark |-> Above(chain1, common), mark |-> Above(chain2, common)]

\* get_chain_statistics, less its totals: blocks of a chain, counted by status,
\* and the heights they have.
Statistics(chain) ==
    LET found == Loaded(Range(chain)) IN
    [blocks  |-> Len(chain),
     status  |-> [s \in Statuses |-> Cardinality({h \in found : record[h].status = s})],
     heights |-> {Height(record[h]) : h \in found}]

\* validate_chain_structure_batch, of a chain that begins at its lowest block.
Linked(chain) ==
    \A i \in DOMAIN chain \ {1} :
        /\ Parent(record[chain[i]]) = chain[i - 1]
        /\ Height(record[chain[i]]) = Height(record[chain[i - 1]]) + 1

------------------------------------------------------------------------------
\* Properties

\* Records, entries, the chain state and the hashes have their types.
TypeOK ==
    /\ record \in [Hashes -> Blocks \cup {None}]
    /\ entry \in [Hashes -> Entries \cup {None}]
    /\ chainState \in [tip : Hashes \cup {None}, height : Nat \cup {-1}] \cup {None}
    /\ inputs \in Seq([shape : Shapes, parent : 0..MaxHashes, height : Nat, txs : Nat,
                       gas : Nat, fee : Nat, time : Nat, slot : Nat])
    /\ job.op \in {"idle", "create", "update", "delete"}

\* What the index lists can be loaded, wherever a creation, an update or a
\* deletion was cut: readers drop entries without a record silently
\* (blockchain_index_service.py:96, 121, 154).
EntryHasRecord == \A h \in Hashes : entry[h] # None => record[h] # None

\* If the process never died, the readers find exactly the blocks whose records
\* have the status or the slot they ask for, and count them right: also when a
\* second block had the hash of the first.
IndexAgrees ==
    crashes = 0 /\ job = Idle =>
        LET stored == {h \in Hashes : record[h] # None} IN
        /\ ListBlocks = stored
        /\ \A s \in Statuses :
              /\ ByStatus(s) = {h \in stored : record[h].status = s}
              /\ CountOf(s) = Cardinality(ByStatus(s))
        /\ \A from, to \in 0..MaxSlot :
              InSlots(from, to) = {h \in stored : record[h].slot \in from..to}

\* Readers of the index find what is listed, and, without a crash, every block.
IndexSound == EntryHasRecord /\ IndexAgrees

\* A chain of flat blocks with no record missing can be read by height without a
\* gap, whatever was built beside it, deleted, or set as the tip: it is linked
\* from the genesis up, as high as the chain state says, and the statistics of
\* the walk count every height once.
Unbroken(chain) == \A i \in DOMAIN chain :
                      record[chain[i]] # None /\ record[chain[i]].shape # "nested"
HeightsFilled ==
    Tip # None /\ Unbroken(ToGenesis[TipHash]) =>
        /\ HeightRange(0, ChainHeight) = Range(ToGenesis[TipHash])
        /\ \A k \in 0..ChainHeight : Height(record[ByHeight(k)]) = k
        /\ Linked(Reverse(ToGenesis[TipHash]))
        /\ LET stats == Statistics(ToGenesis[TipHash]) IN
             /\ stats.heights = 0..ChainHeight
             /\ stats.blocks = ChainHeight + 1
             /\ stats.blocks = stats.status["proposed"] + stats.status["justified"]
                              + stats.status["finalized"]

\* A planned reorganisation turns the old chain into the new one, and marks no
\* block that it unmarks, in every store that creations, deletions and changes
\* of the tip can leave behind. What it unmarks is what lies between the old tip
\* and the common ancestor, and where both chains have blocks above it, the index
\* tells of a fork.
PlanSwitches ==
    \A old, new \in Hashes :
        LET plan == Plan(old, new)
            common == CommonAncestor(ToGenesis[old], ToGenesis[new])
        IN
        record[old] # None /\ record[new] # None /\ plan.success =>
            /\ (Range(ToGenesis[old]) \ plan.unmark) \cup plan.mark = Range(ToGenesis[new])
            /\ plan.unmark \cap plan.mark = {}
            /\ plan.unmark \cup {common} = Range(Between(old, common))
            /\ plan.unmark # {} /\ plan.mark # {} /\ crashes = 0 /\ job = Idle
               /\ Unbroken(ToGenesis[old]) /\ Unbroken(ToGenesis[new]) =>
                  Height(record[common]) + 1 \in Forks

\* What the builders make on the tip, whatever its shape, is refused at its
\* creation only if its transactions take more than the gas limit.
BuiltIsValid ==
    \A slot \in 0..MaxSlot, txs \in TxCounts, time \in Times :
        \A b \in Built(slot, txs, time) : txs <= GasLimit => Valid(Populated(b))

\* From one block to the next of the same shape the base fee moves by an eighth
\* at most, or by one, and never below the minimum.
FeeBounded ==
    \A h \in Hashes : record[h] # None =>
        LET b == record[h] IN
        /\ b.fee >= MinFee
        /\ b.shape # "genesis" /\ record[b.parent] # None
           /\ (b.shape = "nested" <=> record[b.parent].shape = "nested") =>
              LET p == record[b.parent]
                  most == IF p.fee < 8 THEN 1 ELSE p.fee \div 8
              IN b.fee <= p.fee + most /\ b.fee >= p.fee - most
==============================================================================
