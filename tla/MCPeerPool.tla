----------------------------- MODULE MCPeerPool -----------------------------
(***************************************************************************)
(* Three peers for TLC, one of which may report a height far off.          *)
(***************************************************************************)
EXTENDS PeerPool

CONSTANTS p1, p2, p3
=============================================================================
