----------------------------- MODULE MCPeerLink -----------------------------
(***************************************************************************)
(* Small connections for TLC: two requests of one command and one of       *)
(* another, or two broadcasts and a request.                               *)
(***************************************************************************)
EXTENDS PeerLink, TLC

CONSTANTS r1, r2, r3, b1, b2, t1, t2

MCExpects == [w \in Requests |-> IF w = r3 THEN "block" ELSE "headers"]
MCTxidOf == [w \in Waiters \ Requests |-> IF w = b1 THEN t1 ELSE t2]
MCReplies == Waiters \cup {NoWaiter}
=============================================================================
