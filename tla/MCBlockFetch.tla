---------------------------- MODULE MCBlockFetch ----------------------------
(***************************************************************************)
(* Three peers for TLC.                                                      *)
(***************************************************************************)
EXTENDS BlockFetch

CONSTANTS p1, p2, p3
=============================================================================
