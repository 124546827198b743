----------------------------- MODULE BlockScan ------------------------------
(***************************************************************************)
(* What a sync promises about the blocks after the last scanned one: each  *)
(* is handed on or given up, once and for good, and none before what lies  *)
(* a page below it is settled. Which blocks are given up is left open, so  *)
(* that WitnessTree and NoteLedger reckon with any.                        *)
(***************************************************************************)
EXTENDS Naturals

CONSTANTS Top, Page

VARIABLES
    scanned,    \* blocks handed on
    lost,       \* blocks given up
    result      \* "running", or how the scan ended

Pending == (1..Top) \ (scanned \cup lost)

ScanInit == scanned = {} /\ lost = {} /\ result = "running"

\* Blocks that may be settled next: less than a page beyond the first that is not.
Ahead == {b \in Pending : \A c \in Pending : b < c + Page}

HandOn(S) == scanned' = scanned \cup S /\ lost' = lost /\ result' = result
GiveUp(S) == lost' = lost \cup S /\ scanned' = scanned /\ result' = result

\* A scan is done when nothing is pending; it fails at any time, for want of peers.
End ==
    /\ result' = "failed" \/ (result' = "done" /\ Pending = {})
    /\ UNCHANGED <<scanned, lost>>

ScanNext ==
    /\ result = "running"
    /\ End \/ \E S \in SUBSET Ahead : HandOn(S) \/ GiveUp(S)

ScanSpec == ScanInit /\ [][ScanNext]_<<scanned, lost, result>>
=============================================================================
