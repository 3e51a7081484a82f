---------------------------- MODULE MCPeerTables ----------------------------
(* An instance of PeerTables for TLC. *)
EXTENDS PeerTables

CONSTANTS p1, p2
=============================================================================
