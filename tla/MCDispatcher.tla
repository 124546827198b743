---------------------------- MODULE MCDispatcher ----------------------------
(***************************************************************************)
(* The dispatcher with three channels, two commands and two transactions.  *)
(***************************************************************************)
EXTENDS Dispatcher, TLC

Symmetry == Permutations(Waiters) \cup Permutations(Txids)
=============================================================================
