---------------------------- MODULE MCChainStore ----------------------------
(* Instances of ChainStore for TLC: see the configurations.                *)
EXTENDS ChainStore
==============================================================================
