---------------------------- MODULE StorageLayout ----------------------------
(***************************************************************************)
(* What each adapter stores: name, fixed parts of the key before and after *)
(* the id, what callers can do to it besides reading, and what the adapter *)
(* checks of each key it lists: its prefix, that it is not the index.      *)
(***************************************************************************)
Kind(name, prefix, ops) ==
    [name |-> name, prefix |-> prefix, suffix |-> << >>, single |-> FALSE, ops |-> ops, checks |-> {}]
One(name, key, ops) ==
    [name |-> name, prefix |-> key, suffix |-> << >>, single |-> TRUE, ops |-> ops, checks |-> {}]
Listed(k, checks) == [k EXCEPT !.ops = @ \cup {"list"}, !.checks = checks]

BlockKinds ==
    { Listed(Kind("block", <<"blocks:">>, {"save", "update", "delete"}), {"prefix"}) }
TrieKinds ==
    { Kind("tx_trie", <<"tx_merkle:">>, {"save"}),
      Kind("receipt_trie", <<"receipt_merkle:">>, {"save"}),
      Kind("state_trie", <<"state_verkle:">>, {"save"}) }
TransitionKinds ==
    { Kind("transition", <<"state_verkle:", "transition_">>, {"save"}) }
ProofKinds ==
    { Kind("proof", <<"state_verkle:", "proof_">>, {"save", "delete"}) }
EpochKinds ==
    { Kind("validator_set", <<"validators:", "epoch_">>, {"save"}),
      Kind("attestation", <<"attestations:", "slot_">>, {"save"}) }
CommitteeKinds ==
    { Kind("sync_committee", <<"sync_committee:", "period_">>, {"save"}) }
ChainIndexKinds ==
    { One("index", <<"blockchain_index">>, {"save", "update", "ensure"}) }
ChainStateKinds ==
    { One("state", <<"__blockchain_state__">>, {"save"}) }

RegistryKinds ==
    { One("index", <<"validator_", "index">>, {"save", "update"}),
      Listed(Kind("validator", <<"validator_">>, {"save", "update", "delete"}), {"prefix", "index"}) }
PerformanceKinds ==
    { Kind("performance", <<"performance_">>, {"save", "update"}) }
SlashingKinds ==
    { Listed(Kind("slashing", <<"slashing_">>, {"save"}), {"prefix"}) }
MetricsKinds ==
    { Kind("metrics", <<"metrics_">>, {"save"}) }

PoolKinds ==
    { One("index", <<"mempool_index">>, {"save", "update", "delete"}) }
BackupKinds ==
    { [Listed(Kind("backup", <<"__mempool_backup_">>, {"copy", "delete"}), {})
          EXCEPT !.suffix = <<"__">>] }
PoolDataKinds ==
    { One("queue", <<"__eth_tx_queue__">>, {"save"}),
      One("nonces", <<"__eth_account_nonces__">>, {"save"}),
      One("fees", <<"__eth_fee_stats__">>, {"save"}) }
PoolReportKinds ==
    { One("snapshot", <<"__mempool_queue_snapshot__">>, {"save", "delete"}),
      One("metrics", <<"__mempool_metrics__">>, {"save"}),
      One("performance", <<"__eth_performance__">>, {"save"}),
      One("types", <<"__eth_tx_type_stats__">>, {"save"}),
      One("priorities", <<"__eth_priority_dist__">>, {"save"}) }

AttestorKinds ==
    { One("index", <<"attestor_index">>, {"save", "update"}),
      Listed(Kind("attestation", <<"attestation_">>, {"save", "update", "delete"}), {"prefix"}) }
ProposerKinds ==
    { One("index", <<"proposer_index">>, {"save", "update"}),
      Listed(Kind("proposal", <<"proposal_">>, {"save", "update", "delete"}), {"prefix"}) }
FinalizerKinds ==
    { One("index", <<"finalizer_index">>, {"save", "update"}),
      Listed(Kind("checkpoint", <<"checkpoint_">>, {"save", "update", "delete"}), {"prefix"}) }
UserKinds ==
    { One("index", <<"user_index">>, {"save", "update"}),
      Listed(Kind("user", << >>, {"save", "update", "delete"}), {"index"}) }
WalletKinds ==
    { One("index", <<"wallet_index">>, {"save", "update"}),
      Listed(Kind("wallet", << >>, {"save", "update", "delete"}), {"index"}) }
\* list_tx_hashes compares its keys with the name of a file.
TxKinds ==
    { One("index", <<"tx_index">>, {"save"}),
      Listed(Kind("tx", << >>, {"save", "update", "delete"}), {}) }
\* update_index_data of this adapter starts from an empty index if there is none.
NetKinds ==
    { One("index", <<"net_index">>, {"save"}),
      Listed(Kind("node", << >>, {"save", "update", "delete"}), {"index"}) }

Layout ==
    [ blockchain |-> BlockKinds \cup TrieKinds \cup TransitionKinds \cup ProofKinds
                     \cup EpochKinds \cup CommitteeKinds \cup ChainIndexKinds \cup ChainStateKinds,
      validator  |-> RegistryKinds \cup PerformanceKinds \cup SlashingKinds \cup MetricsKinds,
      mempool    |-> PoolKinds \cup BackupKinds \cup PoolDataKinds \cup PoolReportKinds,
      attestor   |-> AttestorKinds,
      proposer   |-> ProposerKinds,
      finalizer  |-> FinalizerKinds,
      user       |-> UserKinds,
      wallet     |-> WalletKinds,
      tx         |-> TxKinds,
      net        |-> NetKinds ]
==============================================================================
