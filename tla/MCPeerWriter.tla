--------------------------- MODULE MCPeerWriter ---------------------------
(***************************************************************************)
(* A unicast and a broadcast over two connections that may be exchanged.   *)
(***************************************************************************)
EXTENDS PeerWriter, TLC

PeerSymmetry == Permutations(Peer)
=============================================================================
