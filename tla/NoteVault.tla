----------------------------- MODULE NoteVault ------------------------------
(***************************************************************************)
(* What the wallet promises about each of its shielded notes, whatever the *)
(* send flow, the block scanner and the recovery of expired sends do to    *)
(* its row: a note goes from available to reserved by a send, back if that *)
(* send is given up, and to spent once its spend is found on the chain,    *)
(* where it stays.                                                         *)
(***************************************************************************)
CONSTANT Notes

VARIABLE status

StatusOK == status \in [Notes -> {"available", "reserved", "spent"}]

VaultInit == status = [n \in Notes |-> "available"]

\* Several notes may move together: one transaction spends several notes.
Move(S, from, to) ==
    /\ S # {}
    /\ \A n \in S : status[n] \in from
    /\ status' = [n \in Notes |-> IF n \in S THEN to ELSE status[n]]

Reserve(S) == Move(S, {"available"}, "reserved")
Release(S) == Move(S, {"reserved"}, "available")
Confirm(S) == Move(S, {"available", "reserved"}, "spent")

VaultNext == \E S \in SUBSET Notes : Reserve(S) \/ Release(S) \/ Confirm(S)

VaultSpec == VaultInit /\ [][VaultNext]_status
=============================================================================
