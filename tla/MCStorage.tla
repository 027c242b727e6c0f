------------------------------ MODULE MCStorage ------------------------------
(* An instance of Storage for TLC: the services of a node.                   *)
EXTENDS Storage
==============================================================================
