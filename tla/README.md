# BachiCoin: a TLA+ verification project

This directory holds TLA+ models of the BachiCoin node, the TLC configurations
that check them on small instances, and machine-checked proofs about them.
Paths such as `lib_consensus/consensus.py` are relative to `src/src/BachiCoin/`.

1. Inventory - 2. Plan - 3. Modules - 4. Runs - 5. Divergences - 6. Proofs -
7. Not modelled

## 1. Inventory

BachiCoin is a Python node for a proof-of-stake chain. One node is a
`NodeContext` that bundles services; every service keeps its records in a
storage provider (JSON files or SQLite) and, for most of them, an index next to
the records. Services call each other directly; nodes in one process talk
through the loopback adapter, nodes in different processes through the P2P
server. There is no block exchange between nodes: a received `NEW_BLOCK` is
dropped (`lib_network/net_node.py:46-50`), only transactions are gossiped.

| Component | State | Operations | Interacts with | Hard behaviour | Correct when |
|---|---|---|---|---|---|
| Slot loop (`lib_consensus`) | none of its own; locals of a Python generator | genesis, one slot per iteration, attestations, finality | calls all services below | the generator may be dropped, die in an assertion, or the process may stop, between any two storage writes; between iterations its caller changes anything | chain, votes and finality stay consistent; the loop makes progress |
| Proposer (`lib_proposer`) | duty records and index, by slot | assign, build and validate a candidate, update status | mempool, blockchain, validators | an assigned slot is never unassigned; the pool is drained before the block exists | a slot is proposed once |
| Attestor (`lib_attestor`) | attestation records and index | assign the duties of an epoch, mark as included | slot loop | duties are assigned from the validators of one moment | a vote is for a block that carries it, once |
| Finalizer (`lib_finalizer`) | checkpoint records; justified and finalized epoch in the index | tally, checkpoint, link, block statuses | attestations, validators, blocks | four groups of writes; a run that dies among them never returns | what is final is backed and stays final |
| Validator registry (`lib_validator`) | records and index, next index | register, change status | slot loop, wallets | record before index; changes between two reads of the loop | indices are dense, stake is counted once |
| Block storage (`lib_blockchain`) | block records, index, chain state | create, update, slot ranges, tip, heights, cleanup, rebuild | everyone | record and index apart; cleanup drops the chain state; two shapes of blocks | the tip leads to a stored chain, listings are true |
| Fees and construction (`lib_blockchain`) | none | genesis, candidate, base fee, gas check | proposer | integer edges | fee stays positive, what is built is valid |
| Post-processing (`lib_postprocess`) | wallet balances, nonces, tx status, `state_processed` | apply the unprocessed blocks | blockchain, wallets, tx records of all nodes | no transaction around the writes of a block; retried from the start | a transfer is applied once; money is conserved |
| Mempool (`lib_mempool`) | queue, lookup, persisted copy | admit, list, expire, remove, gossip | proposer, network | gossip after admission, limits, nonces of the queue only | no nonce twice; what is admitted is heard |
| Loopback network, `NetNode` | registry of adapters | send, broadcast, dispatch | mempool | delivery starts tasks; a node may be missing | gossip ends |
| P2P server | table of peers, sockets | handshake, message loop, disconnect, cull | `NetNode` | concurrent connects, tie-break, a loop that ends late, servers that wait for one another | both sides agree on a connection; stopping ends |
| Transactions, nonces | tx records and index; nonce in the wallet | make, sign, submit a batch, confirm, delete, rebuild | mempool, wallets, post-processing | three sets of rules; record before entry; nonce map of a batch goes stale | rules agree, the index is true |
| Wallets, users | records and index each, links both ways | create, delete, balances, reconcile, rebuild | bootstrap, post-processing | five writes for one wallet; two views of one validation | a stop damages only what was being written |
| Storage providers | files, rows | save, update, list, delete | every service | a file is not written at once; errors swallowed or passed on | a write is whole or has not happened |
| Bootstrap | address and key maps | users, wallets, maps, validators | all of these | run again after a stop; keys by place | every address has its own key |
| Crypto, wiring, API | none | pure, sequential | - | none | - |

## 2. Plan

All modules that were planned exist; in the order of what matters most:

1. `Consensus`, the slot loop with everything it calls, over `DutyRecords`; it
   implements `Finality`, what the loop promises to readers.
2. `PostProcess`, the ledger: blocks applied wallet write by wallet write.
3. `MempoolGossip`, several mempools, batches, nonces and the gossip; it
   composes mempool, clients, proposer and loopback network.
4. `ChainStore`, blocks, index and walks, against reference definitions.
5. `PeerNetwork`, servers that dial, replace and stop at any time.
6. `Accounts`, users, wallets, validators and the bootstrap, over
   `AccountRules`.
7. `Storage`, both providers under every adapter of `StorageLayout`; it
   implements `RecordStore`, which the modules above take for granted.
8. `Transactions`, the life of a transaction on one node, over `TxRules`.

Every component has proofs of its own (section 6). Left for later: an abstract
ledger that applies a block in one step.

No module that is proved about declares a RECURSIVE operator; constants carry
named assumptions, which TLC evaluates in the runs.

## 3. Modules

A module named `MC...` instantiates one for TLC; its `.cfg` gives the constants.
Definitions marked *Faulty* are plausible slips in the definition that follows
them (a filter forgotten, an order swapped, a range one too long). They are in
no specification: they are swapped in, one at a time, to see that a property
notices.

### Consensus

One call of `run_consensus` is a *run*; `pc` names the next thing the run
does, `"down"` that there is none, `"yielded"` that the generator is suspended
and its caller acts. The locals of the run (`slot`, `active`, `candidate`,
`winner`, `todo`) are lost when it ends, everything else is stored.

| Variables | Code |
|---|---|
| `tip`, `blocks` | chain state, block records (`stored = "record"`) and index entries (`stored = "indexed"`), status and the two flags |
| `proposals` | proposal duties by slot: `awaiting_duty`, `success`, `missed` |
| `attestations` | duties `slot-validator`: not existing, awaiting, or the slot of the block they were included in |
| `checkpoints`, `justifiedEpoch`, `finalizedEpoch` | checkpoint records, finalizer metadata |
| `validators`, `pool` | status of registered validators, mempool queue |

| Actions | Code |
|---|---|
| `Start`, `SaveBlock`, `IndexBlock`, `SetTip` | `initialize_chain_if_needed`; the same three storage steps serve every later block |
| `LoadValidators`, `BeginSlot`, `AssignDuty`, `AssignProposal` | head of `run_consensus`, `assign_attestation_duties_for_epoch`, `assign_proposal_duty` |
| `Build`, `Drain`, `Assemble` | `build_candidate_block` and the rest of `propose_block_for_slot`: validation, skip, the exception when there is no candidate but attestations wait, the gas assertion |
| `CommitProposal`, `Attest` | status update, `process_block_attestations` |
| `Tally`, `SaveCheckpoint`, `MarkJustified`, `Link`, `MarkFinalized`, `UpdateFinality` | `process_epoch_finality` |
| `FlagJustified`, `FlagFinalized` | `finalize_epoch_if_needed` |
| `RunEnds`, `Crash` | the generator is exhausted or dropped; the process stops before the next write |
| `Submit`, `Churn` | what clients and operators do between iterations |

Loops of writes are one action per write: `todo` is what is left. Abstractions:
a block is its slot (its hash is injective in its parent), a validator has the
same effective balance as any other (no code changes it), a transaction is a
name that uses one unit of gas, the synchronous generator is alone on its node,
a validator's record and entry are one write (`Accounts` has both).

`DutyRecords` holds the schemas of the loop's three records, what the services
put into them and what their validations accept. The loop validates each record
it writes; one that were refused would end the run, and `EveryEpochFinalized`
would fail.

### Finality

Head, justified and finalized epoch, as a reader of the node sees them: the
chain grows by one slot (`Extend`), an epoch is justified right after its last
slot and the epoch before it becomes final if it was the last justified one
(`Justify`). `Consensus` implements it with
`head <- tip, justified <- justifiedEpoch, finalized <- finalizedEpoch`.

### PostProcess

One call of `run_postprocess` is a run here too, `pc = "idle"` between runs. The
ledger variables survive it; `todo`, `block`, `at`, `leg`, `counts`, `touched`
and `unknown` are its locals.

| Variables | Code |
|---|---|
| `chain`, `processed` | bodies of the blocks from genesis to the tip; `state_processed` |
| `confirmed` | transaction records with status `confirmed` |
| `balance`, `listed` | balance in the wallet record, which movements read, and in the wallet index, which user totals read |
| `nonce`, `total` | nonce of a wallet, `total_balance` of a user |
| `applied`, `runs` | history: how often all movements of a transaction were made, runs begun |
| `at`, `leg` | position in the block's transactions and in the movements of one |
| `counts`, `touched`, `unknown` | `sender_tx_counts`, `users_to_reconcile`, `errors` |

| Actions | Code |
|---|---|
| `RunLatest`, `RunTarget`, `BeginBlock`, `Return` | the two ways `run_postprocess` finds blocks, and its loop over them |
| `SkipConfirmed`, `NoteUnknown`, `BeginTx`, `AllTaken` | the loop over transactions in `_apply_block_balance_changes` |
| `Move`, `Index`, `Refuse` | one `_apply_debit` or `_apply_credit`: wallet record, wallet index, or the error that ends the run |
| `AdvanceNonce`, `NoncesDone`, `Reconcile`, `TotalsDone` | the two loops at its end |
| `Confirm`, `Mark` | `_update_tx_records`, `update_block` and the error raised afterwards for unknown types |
| `AddBlock`, `Crash` | the slot loop between runs; the process stops |

`Legs` is the table of movements, branch by branch, in the order in which the
code makes them; `Effect` is its reference, what the tests expect a transaction
to do to a wallet all in all.

Abstractions: amounts are whole multiples of the smallest unit; an address is
its wallet; the first node is the one chosen as source of truth (when another
one is, the block is looked up on the first node, not found, and the run raises
before any write); a body is any list of transactions the instance names, so a
transaction may be in two blocks. Confirming a transaction is one step here;
`Transactions` has its two writes.

### MempoolGossip

All nodes of a process share one event loop, so an action is what happens
between two `await`s: a broadcast is a bag of tasks (`sends`), a delivery starts
another task (`arrivals`), and a client sleeps between making a transaction and
submitting it.

| Variables | Code |
|---|---|
| `registry`, `queue` | `LOOPBACK_REGISTRY`; `tx_queue` with its persisted copy |
| `sends`, `arrivals` | tasks of `LoopbackAdapter.broadcast` and of `handle_network_tx` |
| `included`, `settled`, `pending`, `confirmed`, `nonce` | what proposers took; what post-processing made of it; transaction records; nonces of wallets |
| `client` | place, nonces and outcome of a batch (`submit_txs_for_user` in `tx_submittal.py`) |
| `heard`, `owed` | history: what a node ever admitted; who was registered when a transaction was admitted |

| Actions | Code |
|---|---|
| `StartBatch`, `SkipOrder`, `OrderFails`, `MakeTx`, `SubmitTx`, `SubmitFails`, `BatchEnds` | a batch: nonces read once per sender, skipped or failing orders, admission |
| `Send`, `Arrive` | delivery to the peer, admission there and the broadcast onwards |
| `Propose`, `Settle`, `CleanupExpired`, `StartNode` | the proposer drains by priority, post-processing, expiry, a node whose adapter comes late |

Which ends an order must have is in `Makeable`; the other rules about form, gas
and size are left out: they depend on the transaction alone, and that what one
node passes its peers pass too is `PassesOn` of `Transactions`. `Settle` advances
a nonce for the types post-processing counts, which leave out `unstake`. `ByPriority` orders by score; equal ones are ordered by the clock
in the code, so here any way.

### ChainStore

| Variables | Code |
|---|---|
| `record`, `entry`, `chainState` | block records, index entries, `chain_state` of the index |
| `inputs` | what `generate_block_hash` has been given so far: equal inputs, equal hash |
| `job` | the operation that has made its first write |

`Create` with `IndexBlock`, `SetTip`, `Update` with `UpdateEntry`, `Delete` with
`DeleteRecord`, `Cleanup`, `Rebuild` and `Crash` are the operations of
`blockchain_index_service.py`, a write each. The builder's blocks and the genesis
are flat, a proposer's are nested: `Height` and `Parent` are what a reader finds
at the top level of a record. `NextFee` is `calculate_next_base_fee`; `Valid` the
validation at a creation; `ToGenesis`, `ByHeight`, `HeightRange`, `Between`,
`CommonAncestor`, `Plan`, `Statistics` and `Linked` the walks of
`blockchain_index_service.py` and `blockchain.py`.

### PeerNetwork

A connection has two ends, each with a task: the handshake, then the loop that
reads. An action is what a task does from one line to the next; TCP keeps the
order, and a write towards an end that is shut may fail or seem to succeed.

| Variables | Code |
|---|---|
| `phase`, `record`, `index` | start of a node: `create_net_node`, its own registry entry, running, stopping |
| `conn`, `end` | who dialed whom; per end: open, task, unread lines |
| `peers` | `self.peers` of `P2PServer` |
| `sentOn`, `handled` | history of messages |

| Actions | Code |
|---|---|
| `Boot`, `IndexNode`, `Start` | registration and start |
| `Dial`, `Accept`, `Refuse`, `Connected`, `NotConnected` | `connect_to_outgoing_peer`, `_handle_incoming_connection`, the tie-break on ids |
| `Send`, `Receive`, `LoopEnds` | `send_message_to_peer`, `_peer_message_loop` with ping and pong, its end, which disconnects by name |
| `StopBegins`, `StopEnds`, `Crash` | `stop`, which first waits for the connections the server accepted; a killed process |

`Patient` says that whoever dials a peer awaits the outcome before dialing it
again, as all callers do (`net_node.py:72`, `api_public/net_lib_api.py:40`,
`tests/libtest_net.py:30-32`); `CloseWaits` that `Server.wait_closed` waits for
connections, as in current Python. Culling is left out: `p2p_server.py:195`
compares the loop's clock with the time of day, and nothing is ever stale.

### Accounts

An action is one write, with the checks that lead to it; `job` is the write that
comes next. `script` is what a run of the bootstrap has still to do: users,
wallets, maps, validators.

| Variables | Code |
|---|---|
| `userRec`, `userIdx`, `walletRec`, `walletIdx` | records and indices; a wallet's entry has its place in the order of the index |
| `valRec`, `valIdx`, `valOf`, `total` | validator records; `validators`, `by_user`, `total_validators` of the index |
| `addressMap`, `keyMap` | what a run of the bootstrap collects |
| `torn`, `tornVals`, `edited` | history: what a stop cut; whether a wallet was changed by hand |

| Actions | Code |
|---|---|
| `CreateUser`, `IndexUser`, `DeleteUser`, `DropUser`, `SyncUser` | `user_index_service.py` |
| `CreateWallet`, `IndexWallet`, `LinkWallet`, `DeleteWallet`, `DropWallet`, `UnlinkWallet`, `UpdateBalance`, `SyncWallet`, `Reconcile`, `RebuildWalletIndex` | `wallet_index_service.py` |
| `Register`, `IndexValidator`, `UpdateStatus`, `SyncValidator` | `validator_index_service.py` |
| `Bootstrap`, `BootstrapUser`, `BootstrapWallet`, `MapKeys`, `BootstrapValidator` | `bootstrap_utils.py`, `user_setup.py`, `user_wallet_setup.py`, `ledger_wallets.py` |
| `Restart` | the process stops; the next start rebuilds the index of users, and that one only |

An address is its seed and account, and also the name of its key: derivation is
deterministic and does not collide. `AccountRules` has the schemas, defaults and
validations of users and wallets. A user's record is accepted in the view
`create` and saved, and its entry is then validated in the view `index`, which
checks nothing else: `EntryAccepted` in the proofs. The identifier of a wallet
is a hash of its owner, type and name (`wallet_helper.py:40`); an owner's wallet
of a type has one name here, as in the bootstrap.

### Storage, RecordStore, StorageLayout

`Storage` is one service's directory or table. A key is a sequence of tokens,
the fixed parts of its name and an id; `StorageLayout` lists, for every adapter
of the repository, which kinds of records it keeps, how their keys are made, and
what may be done to them.

| Actions | Code |
|---|---|
| `Connect`, `CreateIndex`, `IndexCreated` | constructors of the providers; a directory's index is written in place |
| `Save`, `Update`, `Delete`, `EnsureIndex`, `Backup`, `Restore` | a call begins |
| `StartTemp`, `FinishTemp`, `Replace` | `FileStorageProvider.save`: a `.tmp` file, torn, then whole, then renamed |
| `Commit`, `Unlink` | an SQL transaction; a deletion |
| `Fail`, `Stop` | an error, which the one provider raises and the other swallows; the end of the process |

`RecordStore` is what a service relies on: a request is answered by one write of
the whole record it names, or it is dropped. `Storage` implements it, which is why
every other module takes one provider call for one step. `Listing` is what
`list_keys` and the adapter's own filters make of the names that are there.
`EnsureIndex` also replaces an index without chain state, as
`cleanup_orphaned_entries` leaves one; which stamps are such an index is open.

### Transactions, TxRules

`TxRules` has the three sets of rules a transaction meets, written apart from
each other in the code: its maker's (`tx_validation.py`, asked again of every
transaction of a candidate block), the mempool's (`mempool_config.py`) and those
asked before a broadcast (`mempool_validation.py`). `Transactions` is one node:

| Actions | Code |
|---|---|
| `Make`, `MakeEntry` | `create_signed_tx` and `save_signed_transaction`: the record, then its entry |
| `Submit`, `HandleNetworkTx` | admission of the node's own and of a peer's transactions |
| `Propose` | the proposer takes the queue; the block may not come to be |
| `Update`, `UpdateNone`, `UpdateEntry`, `UpdateFails`, `Settle` | `update_transaction` in post-processing, record by record, and the assertion that an entry is there |
| `Delete`, `DeleteEntry`, `RebuildIndex`, `Crash` | maintenance, and the end of the process |

Orders are of every type, with senders, receivers, nonces, amounts and fees that
may or may not make sense; `Own` and `Theirs` are those that can be made. Taking
the queue is one step (`Consensus` has `Drain`) in the order of arrival
(`MempoolGossip` has the priority).

## 4. Runs

| Run | Instance | Shows |
|---|---|---|
| `consensus_crash` | 4 slots, 2 per epoch; one validator at start, a second churns; crash before any write | contiguous chain, votes and checkpoints on the chain, one proposal per slot, decided things stay, a wedged node stays wedged |
| `consensus_finality` | 6 slots, 3 epochs, one validator, crash before any write | the index is backed by checkpoints, marks by both; `Finality` is implemented |
| `consensus_churn` | 6 slots, two validators that both churn, one transaction of two never valid, block limit 1; no crash | no attestation twice |
| `consensus_steady` | 6 slots, two validators, two transactions, no churn, no crash, fair | each epoch justified by two thirds and finalized, transactions included |
| `ledger_steady` | genesis and three blocks of seven types, three runs, single blocks asked for; nothing refused, fair | balances, index, nonces and totals are what the tests expect; what a run finds is processed |
| `ledger_crash` | as many blocks, three runs, refusals, an unknown type, crash before any write | marks follow the money, what is settled is final, blocks in order, later runs find the rest, no money without a mint |
| `pool_gossip` | two nodes, one late; two batches for one sender; a block, an expiry; fair tasks | no nonce twice in a pool, gossip ends, what is admitted is heard by all |
| `accounts` | a validator, the ledger, a shop that is refused; two runs of the bootstrap, three calls, a restart anywhere | indices sound, damage confined, validator indices dense, keys fit |
| `p2p` | two nodes, three connections, a message, a crash; fair tasks | entries are watched, both sides agree, messages are handled, stopping ends |
| `chain` | three hashes in either shape, forks, equal hashes; two maintenance operations, a crash | listings true, heights without gaps, plans switch chains, builders build what is valid, fees bounded |
| `storage` | every adapter over either provider, two ids, two writes, one failure or stop | `RecordStore` is implemented; listings name what is there |
| `records` | two orders of any type, an own key and a peer's, two blocks, two faults | the three sets of rules agree, confirmation gets stuck in one way only, the index is true |

Bounds of `Consensus`. Two slots per epoch are the least that distinguish a last
slot from another one; three epochs the least with a finalized epoch, its
justified child and an epoch to leave out in between. Two validators suffice for
a proposer other than the one that left, an exited one that still counts as
stake, and a vote that is not unanimous. `MaxSlot` ends the chain: a run that
would begin a later slot ends, which is what a caller does that stops iterating.
Deadlock is checked in these runs: a node that is down can always be started
again. In the other modules bounds end a behaviour, so it is not.

Bounds of `PostProcess`. Three blocks after genesis let a transaction return in
a later block with a settled or an unsettled one between; three runs are one that
ends early, one that repeats it, one that comes after. Two users with a wallet
each, the pool and the burn wallet are all the roles a movement has; amounts are
such that the sender can pay everything in the steady run, and such that the
receiver can pay only after it was paid in the other. That a run never gets
stuck is `FoundIsProcessed`. The crash run has no reward: a reward is credited
before the pool is debited, and a stop in between leaves money that was not
minted (section 5).

The other bounds. `pool_gossip`: two batches at two nodes are the least that can
sign with one nonce, a sender may have two transactions in a pool, and one block
and one sweep let a pool forget what its peer still sends. `p2p`: two nodes have
one tie-break between them and all orders of its steps; three connections let a
connection be replaced twice. `accounts`: one wallet more than `MaxWallets`
allows; three calls are enough for a deletion, a rebuild and a creation between
two runs. `chain`: three hashes are a genesis with two blocks on it, or a chain
of three; counts of transactions are none, the limit and one more. `storage`: two
writes are an old and a new record, two ids two neighbours; the proof covers any
number. `records`: two orders are one transaction and another that is in its way
(same nonce, same hash, no room); two faults cut an operation and its repair.

Fairness. `SteadySpec` of `Consensus` and of `PostProcess` has weak fairness on
`RunStep` as a whole and nothing else: between two yields the code is synchronous
and goes on, the callers in the repository (`consensus_join.py`, tests) iterate
the generator to its end, and `run_postprocess` is one synchronous call. Nobody is
obliged to start one, and clients and validators are under no fairness.
`FairSpec` of `MempoolGossip` and of `PeerNetwork` is weakly fair to the tasks of
the event loop, each pair of nodes, or each end of a connection, for itself: a
task that can go on is run. Dials, messages, stops, expiries and proposals are
under none. The safety runs with crashes have none at all.

What a crash breaks (kept out of the crash runs, because the code accepts it): a
crash between the tip and the votes lets the next block include the same
attestations again, so `NoDoubleInclusion` is checked without crashes; a crash in
the finalizer leaves an epoch's marks incomplete for ever; a crash after `Drain`
loses transactions.

## 5. Divergences

Places met while modelling where code and intention part. None of them has a run
of its own; the runs above are set up, or the properties stated, so that the rest
can be seen. "Fails with" names the constant that shows it.

Slot loop and finality
- A skipped slot wedges the node. Its duty remains, the tip does not move, the
  next iteration takes the same slot and `assign_proposal_duty` asserts that it is
  new (`lib_proposer/proposer_index_service.py:69`); the loop's comment
  (`consensus.py:167`) and `consensus_join.py:109` expect to go on. The same holds
  after any run that died between the duty and the tip: `Wedge` proves that
  nothing a caller can do helps.
- Stake is counted once per attestation (`finalizer_helper.py:76`). In an epoch of
  n slots a validator votes up to n times, so one that was there from the start
  outvotes one that joined; the README promises two thirds (`src/README.md:222`).
- The genesis block, created as finalized (`blockchain_config.py:49`), becomes
  justified with epoch 0 (`finalizer_index_service.py:156`).
- After a crash the next block may include attestations again that the last one
  carries (`NoDoubleInclusion` fails with crashes).
- The copy of a checkpoint in the finalizer's index stays `justified`. Checkpoints
  are not validated when they are made.
- `finalized_hash`, `safe_hash` and `justified_hash` are never written.

Ledger
- A block refused in the middle is applied again: `process_block` raises
  (`postprocess_state.py:356`) with the earlier transactions applied and not
  confirmed, so that "Skipping already-confirmed tx" (`:175`) does not skip them.
- A reward beyond the pool makes money: the credit comes first and stays when the
  debit is refused (`:213`).
- After a run for one block by its hash the walk from the tip stops there, and the
  blocks before it are not found any more (`FindsAll` fails with `Targets = TRUE`).
- A transaction of type `pool` is confirmed although no branch moves its money.
- One that was submitted to another node than the first is never confirmed
  (`ProcessedIsConfirmed` fails with `Recorded` smaller than `Txs`).

Mempool and transactions
- The canonical nonce is always 0 (`get_nonce_and_balance` reads a state trie that
  nothing saves), so a used nonce is admitted again once the pool has forgotten it,
  and the gap is measured from 0 (`mempool_config.py:159`,
  `mempool_index_service.py:233`): an account beyond nonce 1000 can never submit,
  where the comment means gaps (`mempool_config.py:58`).
- Priority reads `submitted_at`, which is GMT, as local time: west of UTC the boost
  for waiting is more than the intended tenth.
- System transactions with the same content have the same hash; making one again
  sets a confirmed record back to pending.
- A making cut off between record and entry, while a transaction of the same hash
  is queued, stops post-processing at its block (`tx_index_service.py:103`) until
  the index is rebuilt. `ConfirmNeverStuck` says that nothing else does.
- `validate_tx_gossip_payload`, not on the live path, would refuse burns and mints.
  No signature is verified at admission. Contract and governance types can never be
  made. An unstake whose receiver is unknown gets as far as the validation.
- Keys of the index and listings disagree: over SQLite `list_tx_hashes` lists the
  index, as it compares keys with `tx_index.json`; the file provider ignores the
  prefix of `list_keys`, so `list_backups` lists every key
  (`mempool_storage_adapter.py:60`).

Blocks
- On a proposer's blocks height and parent are in the header, and readers of the
  top level find 0 and none: `get_block_by_height(0)` is the tip,
  `get_chain_to_genesis` of the tip is the tip, `detect_chain_forks` sees one
  height, the chain's height never exceeds 1, and building on such a tip with
  `prepare_consensus_block_data` raises a TypeError.
- `validate_chain_integrity` hands a chain tip first to a check that wants it from
  the bottom: every chain of two blocks is reported as broken (`Linked` needs the
  `Reverse`).
- `cleanup_orphaned_entries` drops the chain state; `rebuild_index` calls a method
  that does not exist; `generate_block_hash` leaves out slot and proposer;
  `save_chain_state` also writes a key that nothing reads.
- `blockchain.py:8` imports `get_validation_errors`, which
  `blockchain_validation.py` does not define, so its walks cannot be imported as
  shipped; they are modelled as written.

Network, users, bootstrap
- If a caller dials a peer again before the first dial is decided, both sides may
  end up disagreeing (`Agreement`, `SentIsHandled` and `StopsTogether` fail with
  `Patient = FALSE`). Stale peers are never culled (`p2p_server.py:195`). A node
  registered again at another URL keeps the old one.
- With a passphrase, all wallets have one seed and the key map still derives from
  emails (`KeysFit` fails with a `Phrase`; `bootstrap_utils.py:67-68` promises
  comprehensive maps).
- A profile with a one-word name, or of type business, is refused and ends the
  whole bootstrap. Two users of one full name share a place in the address map.
- `find_user_by_email` looks at the current email only: after a change of it, a
  second creation with the registered one overwrites the record, without wallets.
- `MAX_WALLET_COUNT` (7) applies to testnet users too, whose schema says 10.
- Updates of users, wallets and nodes are never validated.
- The index of a new directory is written in place; a stop in the middle leaves a
  file that every later start takes for an index and cannot read.

## 6. Proofs

Eight modules hold theorems, each about every value of the constants that
satisfies the named assumptions of its component. Where a theorem has a
hypothesis beyond them, the runs' configuration satisfies it too, and what happens
without it is in section 5.

`Consensus_proofs` (epochs of at least one slot, `MaxSlot` the last slot of an
epoch, finitely many validators with natural indices), for every interleaving of
crashes, churn and submissions:

| Theorem | Statement | Argument |
|---|---|---|
| `TypeInvariant` | `Spec => []TypeOK` | inductive with `TodoOK` (what each loop has left) and `StageOK` (where the slot in work lies relative to the tip at each stage) |
| `ChainTheorem` | `Spec => []ContiguousChain` | `ChainInv` adds what is stored of the slot in work at each stage |
| `ProposedOnceTheorem` | `Spec => ProposedOnce` | a step of the chain invariant: blocks are written only at the slot after the tip, whose duty is new |
| `Wedge` | `Spec => WedgedForever` | only the stages between a new duty and `SetTip` move the tip |
| `FinalityTheorem` | `Spec => []FinalityBacked` | `FinalityInv` adds that checkpoints and the justified epoch stay below the epoch of the tip until its last slot is tallied, and what the finalizer has written at each of its stages |
| `VotesTheorem`, `CheckpointTheorem` | `Spec => []VotesOnChain`, `Spec => []CheckpointOnChain` | `VoteInv` adds that `todo` of `Attest` is in the block and that the winner of a tally is voted for |
| `AdvanceTheorem` | `Spec => FinalityAdvances` | a step property of `FinalityInv` and `VoteInv`: checkpoints are written only for the epoch of the tip, which is above the finalized one |
| `MarksTheorem` | `Spec => []MarksBacked` | `MarkInv` adds that each loop of marks has only blocks of its own epoch left; a checkpoint is new when it is saved, by `FinalityInv` |
| `RecordsTheorem`, `ClaimsTheorem`, `DecidedTheorem` | `RecordsOnChain`, `ClaimsBacked`, `DecidedStays`, as the runs check them | conjunctions: votes and checkpoints; finality and marks; proposed once and finality advances |
| `NoDoubleInclusionTheorem` | `SteadySpec => []NoDoubleInclusion` | `IncludedInv` adds that what a block of the chain includes is voted for with that block, or is among what the run is about to vote for |
| `JustifiedTheorem` | `Churners = {}` and `SteadySpec` give `[]JustifiedByTwoThirds` | `RowInv`: without churn and crashes duties come in rows, one for every validator in a slot: what waits is whole rows and a block includes one. A tally of attestations then counts every validator once per row (`RowsCount`), so a majority of attestations is one of validators |
| `Refinement` | `Spec => RefinesFinality` | `SetTip` maps to `Extend`, `UpdateFinality` to `Justify`, every other action to a stutter |

`PostProcess_proofs` (the pool and burn wallets exist, every wallet has an owner,
transactions are well-typed with amounts in `Nat`, wallets and transactions are
finitely many), for every chain, set of
wallets, opening balances, refusals and crashes:

| Theorem | Statement | Argument |
|---|---|---|
| `LedgerTypeInvariant` | `Spec => []TypeOK` | inductive with `StageOK`: the block in work is the oldest one left, the transaction in work is known and not confirmed, the movement in work exists; `LegsType` types the table of movements |
| `SettledTheorem` | `Spec => SettledIsFinal` | money moves only in `Move`, whose transaction is unconfirmed by `StageOK` |
| `MarksTheorem` | `Spec => []MarksFollowMoney` | `MoneyInv` adds what of the block is applied at each stage; a skipped transaction is confirmed, hence applied by the invariant itself |
| `OrderTheorem` | `~Targets => (Spec => []OldestFirst)` | `OrderInv` adds that a run has before it all that is not processed |
| `FindsAllTheorem` | `~Targets => (Spec => FindsAll)` | from `OldestFirst`: behind a processed block everything is processed |
| `ConfirmedTheorem` | `Recorded = Txs => (Spec => []ProcessedIsConfirmed)` | `ConfirmInv` adds what is confirmed so far |
| `ConfirmedPrefixTheorem` | `~Targets /\ Recorded = Txs => (Spec => []ConfirmedPrefix)` | the two above |
| `NoMoneyTheorem` | no body has a reward `=> (Spec => []NoMoneyFromNothing)` | `CoverInv` adds what the transaction in work has taken and not yet given (`Owed`, never positive): `LegsNeverAhead` shows from the table of movements that no beginning of a transaction gives more than it took, unless it mints |
| `LedgerTheorem` | no crashes, every transaction recorded, no body with a transaction twice: `Init /\ [][Next /\ ~Refuse]_vars => []LedgerAsExpected` | `LedgerInv`: a wallet holds what the transactions the run has passed (`Paid`) make of its opening balance and its share of the movements of the one in work (`BalanceInv`); nonce and count together are the number of those it sent (`NonceInv`); the index follows the record but for the movement in work, a total is the sum but for the users still to be refreshed (`ListedInv`). `LegsAddUp` shows that the movements of a transaction are its `Effect`, taken apart |

`LedgerTheorem` leaves `Refuse` out because a refused block is applied again and
then the ledger is not what is expected (section 5); the sums over wallets and
transactions it needs are defined by the community modules with a recursive
function, about which the module proves what it uses (`SumDefined`, `SumSplit`,
`SumSame`, `SumChanged`, `SumJoined`) by induction over the size of a set.

`Accounts_proofs` (fields every user is given, finitely many wallets; for keys also
`KeysAssumption`, which the instance TLC checks satisfies), for every set of users,
profiles, bounds, and a stop anywhere:

| Theorem | Statement | Argument |
|---|---|---|
| `IndexSoundAlways` | `Spec => []IndexSound` | `IInv` adds what the write that comes next relies on (`JobOK`: the record is there when its entry is next, the entry is gone when the record is next, and a user whose entry is next has one that is accepted) and that only the user being written may differ from its entry (`Mirrors`). `EntryAccepted` shows from `AccountRules` that the view `index` accepts what the view `create` did |
| `ValidatorsDenseTheorem` | `Spec => []ValidatorsDense` | `VInv` adds that the total is the number of users the index has by name (`Numbers`), so that the next index is free, and that a record without an entry is the one at `total` or under way |
| `TypeTheorem` | `Spec => []TypeOK` | `TInv`: places in the index are numbers (the next one is a maximum over the entries), maps only hold addresses |
| `DamageConfinedTheorem` | `Spec => []DamageConfined` | `SInv` adds that what a run of the bootstrap has left creates a user before its wallets (`Planned`, from `Work` by induction over its profiles) and that a user is dropped without wallets (`Dropped`); `CInv` says of every wallet that was not cut that record, entry and link agree but for the writes of the operation on it that come next |
| `KeysFitTheorem` | `KeysAssumption => (Spec => []KeysFit)` | for users without a passphrase whose standard wallets are distinct, of the types there are, and at most `MaxWallets` (fewer for the ledger, whose creation refuses one too many; it has three of seven). `PInv`: what a run has left keeps its phases, users, wallets, maps, validators. `LInv`: while only runs that were not cut changed wallets, the wallets of a user are made at the accounts of their places (`Placed`), made and seated in that order (`InOrder`), and a run still has the wallets below the one it is at, or finds them (`Successive`), so none is refused (`NotFull`). The place of a wallet in the index is then above its account (`SeatsEnough`), which is what the derivation of its key asks for (`MapKeysFit`, `MInv`). That no key is another address's (`Own`) needs none of this order |

`Storage_proofs` (no two records of an adapter share a key or a file,
`KeysAreApart`, and keys tell the kinds an adapter lists from all others,
`KindsAreApart`; TLC evaluates both over `StorageLayout`), for every number of ids
and writes:

| Theorem | Statement | Argument |
|---|---|---|
| `TypeTheorem` | `Spec => []TypeOK` | inductive with `JobOK`: the slot of a call is the adapter's, and a call that has begun to write has its temporary file |
| `Refinement` | `Spec => RefinesStore` | a temporary file is never the place of a record (`TempApart`), so only `Replace`, `Commit`, `Unlink` and `IndexCreated` map to `Take`; a failure or a stop maps to `Drop`, the start of a call to `Ask`, all else to a stutter |
| `ListingTheorem` | `Spec => []ListsExactly` | `DiskOK`: whatever is on the disk is the file or row of a record of the service, or the temporary file of one, which no listing takes for a record (`FileKeys`, `RowKeys`) |

`Transactions_proofs` (fee classes the defaults know, limits and nonces in `Nat`),
for every address book, set of keys, number of orders, and a stop anywhere:

| Theorem | Statement | Argument |
|---|---|---|
| `IndexTrueTheorem`, `ConfirmNeverStuckTheorem` | `Spec => []IndexTrue`, `Spec => []ConfirmNeverStuck` | `IndexInv` adds that a record and its entry agree on the fields they are hashed by even where an operation was cut off (`EntriesOK`), which is why confirming an old entry makes it true; what the write that comes next relies on (`JobOK`); and that only a making leaves a record without an entry (`MissingIsMade`) |
| `PassesOnTheorem` | `Spec => []PassesOn` | `IInv` adds that what is made or queued is a record that a holder of keys can make (`Sent`). `RulesAgree` shows from `TxRules` that the maker's rules imply the mempool's of form and fees; `AdmittedPasses` that what a mempool with anything in it admits, the empty one asked before a broadcast admits too |

`PeerNetwork_proofs` (nodes are numbers, none of them `None`), for every number of
nodes, connections, messages and crashes:

| Theorem | Statement | Argument |
|---|---|---|
| `EntryWatchedTheorem` | `Spec => []EntryWatched` | `IInv`: a connection in a table was dialed from the lower id, its end at the owner of the table is open and its task is the loop or its end (`Entered`); an end in its handshake is open. It is stated of any ends and tables (`Fit(e, t)`), since an action changes them and then may write a line, which may fail and take an entry out |

`MempoolGossip_proofs` (senders and nonces have a value outside them for none,
limits in `Nat`), for every set of nodes, batches and opening nonces:

| Theorem | Statement | Argument |
|---|---|---|
| `NonceOnceTheorem` | `Spec => []NonceOnce` | admission compares with the whole pool in the step that appends; what needs proof is removal, which renumbers a pool: `RankFacts` shows that the k-th of the places kept is one of them and no other |

`ChainStore_proofs` (an even gas limit above 0, a minimum fee above 0, `None` is
no block or number), for every number of blocks, slots, updates and crashes:

| Theorem | Statement | Argument |
|---|---|---|
| `TypeTheorem` | `Spec => []TypeOK` | part of `IInv`, which adds: what was hashed was above earlier hashes, at a height and with a base fee that follow from them (`Inputs`), a record is of the input of its hash (`Hashed`), the tip is hashed at its height (`TipHashed`), and an entry tells what its record does but for the operation under way (`Indexed`). Records come and go; the inputs only grow |
| `IndexSoundTheorem` | `Spec => []IndexSound` | `Indexed` |
| `BuiltIsValidTheorem` | `Spec => []BuiltIsValid` | `TipHashed` and `Hashed`: the parent of what is built was hashed and is below it; `NextFee` stays above the minimum |
| `FeeBoundedTheorem` | `Spec => []FeeBounded` | `Inputs`, and `Eighth`: the quotients of `NextFee` move a fee by an eighth at most |
| `PlanSwitchesTheorem` | `Spec => []PlanSwitches` | walks are recursive functions; what they collect is shown by induction over hashes, since parents have smaller ones: a walk falls (`ChainFalls`), goes on from what it meets as the walk from there (`ChainSplits`), and the common ancestor is the largest hash both meet (`CommonFacts`) |
| `HeightsFilledTheorem` | `Spec => []HeightsFilled` | in an unbroken walk of flat blocks heights fall by one, from the tip's to 0 (`ChainHeights`); counts by status add up to all blocks |

Only model-checked: what `IdOf` cuts out of a key, which is a recursive filter of the
library and evaluated by TLC in `KindsAreApart`; and liveness, since the prover cannot
reason about fairness. Not proved in general: `KeysFit` of a user with a passphrase,
for whom it is false (section 5).

## 7. Not modelled

- `consensus_join.py`: a driver for several nodes that each run the slot loop on
  their own.
- Service wiring and public API: construction of objects, path names, re-exports.
- Derivation of keys, hashes, signatures, Merkle and Verkle roots: taken as
  injective; nothing on the live path verifies a signature.
- Code nothing in `src/` calls: `validator_validation.py`, `mempool_listener.py`,
  `validate_tx_gossip`, `is_expired`, `validate_for_update`,
  `validate_update_data`, the single-duty operations of the attestor, eviction and
  replacement in the mempool. Backups of the mempool have no caller either, but
  share their directory with what has, and are in `Storage`.
- Searches, statistics and summaries that only read, except where another
  component relies on them.
- The tie between wall-clock time and slots (the loop does not use it), logging,
  output, and exchange of blocks between nodes (the code has none).
