---------------------------- MODULE MCHeaderSync ----------------------------
(***************************************************************************)
(* A block tree of two branches for TLC: side leaves main after height 6,  *)
(* two below the last header of the boost file, which starts at height 5.  *)
(***************************************************************************)
EXTENDS HeaderSync

CONSTANTS main, side, p1, p2

MCForkAt == [b \in Branches |-> IF b = main THEN MaxTip ELSE 6]

\* The headers of a boost file, or none when its download failed.
MCBoost == {5 .. 8}
MCStores == MCBoost \cup {{}}
MCTips == {<<8, main>>, <<10, main>>, <<9, side>>}
=============================================================================
