--------------------------- MODULE MCPeerNetwork ---------------------------
(* Instances of PeerNetwork for TLC: see the configurations.               *)
EXTENDS PeerNetwork
==============================================================================
