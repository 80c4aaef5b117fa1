---------------------------- MODULE MCPeerRegistry ----------------------------
(* Instances of PeerRegistry for TLC. *)
EXTENDS PeerRegistry, TLC

(* PeerIds and connection ids are opaque. *)
RegistrySymmetry == Permutations(Nodes) \cup Permutations(Conns)

===============================================================================
