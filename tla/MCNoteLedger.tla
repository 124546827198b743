---------------------------- MODULE MCNoteLedger ----------------------------
(***************************************************************************)
(* Two notes and two sends over a short chain.                             *)
(***************************************************************************)
EXTENDS NoteLedger, TLC

Symmetry == Permutations(Txs)
=============================================================================
