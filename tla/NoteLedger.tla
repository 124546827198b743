----------------------------- MODULE NoteLedger -----------------------------
(***************************************************************************)
(* The wallet's shielded notes and its transaction history, from the send  *)
(* flow (zipherx-core/src/async_send.rs) through the scans, confirmation   *)
(* and recovery steps of a sync (async_sync.rs), with the SQL they run     *)
(* (zipherx-storage/src/database.rs), against a chain that mines what it   *)
(* likes of what was broadcast. A sync scans what its delta store has      *)
(* (post_boost_delta_scan), then fetches and scans the blocks it has not   *)
(* (post_boost_full_block_scan, scan_blocks_for_pending_txs).              *)
(*                                                                         *)
(* Sends and syncs exclude each other (both hold the peer manager's mutex) *)
(* but every database call is its own transaction: the process may stop    *)
(* between any two, and blocks are mined and time passes in between.       *)
(***************************************************************************)
EXTENDS Naturals, FiniteSets

CONSTANTS
    Notes,         \* notes the wallet received
    Txs,           \* transactions the wallet builds, one per send
    NoTx,          \* "no transaction" (SQL NULL)
    WithChange,    \* those with a change output to the wallet
    Misplaced,     \* notes first stored with the nullifier of a wrong position
    ExpiryDelta,   \* DEFAULT_TX_EXPIRY_DELTA, blocks a transaction may wait
    MaxHeight,     \* bound: blocks mined
    MaxClock,      \* bound: lapses of the 25 minutes of broadcast_expiry
    MaxStops       \* bound: process stops and failed syncs

ASSUME NoTxAssumption == NoTx \notin Txs
ASSUME SubsetAssumption == Misplaced \subseteq Notes /\ WithChange \subseteq Txs
ASSUME NatAssumption ==
    ExpiryDelta \in Nat /\ MaxHeight \in Nat /\ MaxClock \in Nat /\ MaxStops \in Nat

VARIABLES
    spentBy,         \* notes.spent_in_tx; is_spent = 0 iff NoTx
    spentHeight,     \* notes.spent_height, 0 while not seen in a block
    rows,            \* transactions with a "sent" row in the history
    rowHeight,       \* transaction_history.height of the "sent" row
    receivedHeight,  \* height of a "received" row of the same txid, 0 if none
    rejected,        \* sent rows with status 'rejected'
    sentAt,          \* timestamp of the "sent" row, in lapses; MaxClock if none
    stored,          \* blocks whose outputs and nullifiers the delta store has
    scanned,         \* blocks a whole delta scan has passed
    read,            \* blocks any scan has passed
    misplaced,       \* notes whose stored nullifier is still wrong
    phase,           \* where the sync is
    target,          \* the height it syncs to, the tip of the header store
    sending,         \* the transaction the send flow is recording
    unmarked,        \* its notes the send flow has still to mark
    stops,           \* process stops so far
    inputs,          \* notes each transaction spends, {} before it is built
    expiry,          \* expiry_height of each transaction
    inMempool,       \* transactions some node may still mine
    minedAt,         \* block of each transaction, 0 if none
    tip,             \* height of the chain
    clock            \* wall clock, in lapses

noteVars == <<spentBy, spentHeight>>
historyVars == <<rows, rowHeight, receivedHeight, rejected, sentAt>>
syncVars == <<stored, scanned, read, misplaced, phase, target>>
sendVars == <<sending, unmarked>>
chainVars == <<inputs, expiry, inMempool, minedAt, tip, clock>>
vars == <<noteVars, historyVars, syncVars, sendVars, stops, chainVars>>

TypeOK ==
    /\ spentBy \in [Notes -> Txs \cup {NoTx}]
    /\ spentHeight \in [Notes -> Nat]
    /\ rows \subseteq Txs
    /\ rowHeight \in [Txs -> Nat]
    /\ receivedHeight \in [Txs -> Nat]
    /\ rejected \subseteq Txs
    /\ sentAt \in [Txs -> Nat]
    /\ stored \subseteq Nat /\ scanned \subseteq Nat /\ read \subseteq Nat
    /\ misplaced \subseteq Notes
    /\ phase \in {"idle", "delta", "prescan", "blocks", "postscan", "scanned",
                  "confirmed", "recheck", "checked"}
    /\ target \in Nat
    /\ sending \in Txs \cup {NoTx}
    /\ unmarked \subseteq Notes
    /\ sending = NoTx => unmarked = {}
    /\ stops \in Nat
    /\ inputs \in [Txs -> SUBSET Notes]
    /\ expiry \in [Txs -> Nat]
    /\ inMempool \subseteq Txs
    /\ minedAt \in [Txs -> Nat]
    /\ tip \in Nat
    /\ clock \in Nat

Init ==
    /\ spentBy = [n \in Notes |-> NoTx]
    /\ spentHeight = [n \in Notes |-> 0]
    /\ rows = {} /\ rejected = {}
    /\ rowHeight = [t \in Txs |-> 0]
    /\ receivedHeight = [t \in Txs |-> 0]
    /\ sentAt = [t \in Txs |-> MaxClock]
    /\ stored = {} /\ scanned = {} /\ read = {} /\ misplaced = Misplaced
    /\ phase = "idle" /\ target = 0
    /\ sending = NoTx /\ unmarked = {}
    /\ stops = 0
    /\ inputs = [t \in Txs |-> {}]
    /\ expiry = [t \in Txs |-> 0]
    /\ inMempool = {}
    /\ minedAt = [t \in Txs |-> 0]
    /\ tip = 0 /\ clock = 0

-----------------------------------------------------------------------------
(* The chain and the clock.                                                 *)

ChainOnly == UNCHANGED <<noteVars, historyVars, syncVars, sendVars, stops>>

Conflict(t, u) == t # u /\ inputs[t] \cap inputs[u] # {}

Minable(t) ==
    /\ t \in inMempool /\ minedAt[t] = 0
    /\ tip < expiry[t]
    /\ \A u \in Txs : Conflict(t, u) => minedAt[u] = 0

MineBlock ==
    /\ tip < MaxHeight
    /\ tip' = tip + 1
    /\ \/ UNCHANGED minedAt
       \/ \E t \in Txs : Minable(t) /\ minedAt' = [minedAt EXCEPT ![t] = tip + 1]
    /\ UNCHANGED <<inputs, expiry, inMempool, clock>>
    /\ ChainOnly

TimePasses ==
    /\ clock < MaxClock
    /\ clock' = clock + 1
    /\ UNCHANGED <<inputs, expiry, inMempool, minedAt, tip>>
    /\ ChainOnly

-----------------------------------------------------------------------------
(* send_transaction, after a sync to the tip.                               *)

Spendable(n) == spentBy[n] = NoTx

Build(t, S, reached) ==
    /\ phase = "idle" /\ sending = NoTx
    /\ inputs[t] = {} /\ S # {}
    /\ \A n \in S : Spendable(n)
    /\ inputs' = [inputs EXCEPT ![t] = S]
    /\ expiry' = [expiry EXCEPT ![t] = target + ExpiryDelta]
    /\ inMempool' = IF reached THEN inMempool \cup {t} ELSE inMempool
    /\ UNCHANGED <<noteVars, historyVars, syncVars, stops, minedAt, tip, clock>>

\* Nobody rejected it: the flow goes on to record it. Silence is taken for
\* acceptance, so it may have reached nobody.
BroadcastAccepted(t, S, reached) ==
    /\ Build(t, S, reached)
    /\ sending' = t /\ unmarked' = S

\* A reject, or no acceptance: an error is returned and nothing recorded, but
\* other peers have kept the transaction. Where none has, nothing happened.
BroadcastRefused(t, S) ==
    /\ Build(t, S, TRUE)
    /\ UNCHANGED sendVars

\* mark_note_spent_by_id, one transaction per selected note.
MarkSelected(n) ==
    /\ n \in unmarked
    /\ unmarked' = unmarked \ {n}
    /\ spentBy' = [spentBy EXCEPT ![n] = IF @ = NoTx THEN sending ELSE @]
    /\ spentHeight' = [spentHeight EXCEPT ![n] = IF Spendable(n) THEN 0 ELSE @]
    /\ UNCHANGED <<historyVars, syncVars, sending, stops, chainVars>>

\* record_sent_transaction_atomic: the notes are marked already, so what is
\* left of it is the history row; later inputs find the row there.
RecordSent ==
    /\ sending # NoTx /\ unmarked = {}
    /\ rows' = rows \cup {sending}
    /\ rowHeight' = [rowHeight EXCEPT ![sending] = 0]
    /\ sentAt' = [sentAt EXCEPT ![sending] = clock]
    /\ sending' = NoTx
    /\ UNCHANGED <<noteVars, receivedHeight, rejected, syncVars, unmarked, stops,
                   chainVars>>

-----------------------------------------------------------------------------
(* sync_to_tip, as far as notes and history are concerned.                  *)

\* Step 5 leaves the store with the outputs and nullifiers of the blocks D: the
\* download may have left some out, and a reset of the tree empties the store.
StartSync(D) ==
    /\ phase = "idle" /\ sending = NoTx
    /\ D \subseteq 1 .. tip
    /\ phase' = "delta"
    /\ target' = tip
    /\ stored' = D
    /\ UNCHANGED <<noteVars, historyVars, scanned, read, misplaced, sendVars, stops,
                   chainVars>>

\* A transaction of the blocks D reveals the stored nullifier of n.
FoundSpend(D, n, t) == minedAt[t] \in D /\ n \in inputs[t] \ misplaced

Found(D, n) == \E t \in Txs : FoundSpend(D, n, t)

SpendOf(D, n) == CHOOSE t \in Txs : FoundSpend(D, n, t)

\* cross_ref_nullifier_spend: notes that are spent already stay as they are.
CrossReference(D, N) ==
    LET marked == {n \in N : Found(D, n) /\ Spendable(n)}
    IN  /\ spentBy' = [n \in Notes |->
                IF n \in marked THEN SpendOf(D, n) ELSE spentBy[n]]
        /\ spentHeight' = [n \in Notes |->
                IF n \in marked THEN minedAt[SpendOf(D, n)] ELSE spentHeight[n]]

\* mark_note_spent_by_hashed_nullifier: a note already spent and unconfirmed
\* gets the height, whichever transaction it was reserved for.
MarkSpent(D, N) ==
    /\ spentBy' = [n \in Notes |->
            IF n \in N /\ Found(D, n) /\ Spendable(n) THEN SpendOf(D, n)
            ELSE spentBy[n]]
    /\ spentHeight' = [n \in Notes |->
            IF n \in N /\ Found(D, n) /\ (Spendable(n) \/ spentHeight[n] = 0)
            THEN minedAt[SpendOf(D, n)] ELSE spentHeight[n]]

\* Change outputs are found under the txid of their send.
Received(D) == {t \in WithChange : minedAt[t] \in D}

InsertReceived(R) ==
    receivedHeight' = [t \in Txs |->
        IF t \in R /\ receivedHeight[t] = 0 THEN minedAt[t] ELSE receivedHeight[t]]

\* insert_transaction leaves a row of the same txid and type as it is. A row made
\* by a scan has no time of broadcast.
InsertSent(S, height) ==
    /\ rows' = rows \cup S
    /\ rowHeight' = [t \in Txs |->
            IF t \in S \ rows THEN height[t] ELSE rowHeight[t]]

\* The delta scan makes rows for the spends of all notes it recognises, the
\* others for the spends that were news.
FoundTxs(D) == {t \in Txs : \E n \in Notes : FoundSpend(D, n, t)}

Discovered(D) == {t \in Txs : \E n \in Notes : Spendable(n) /\ FoundSpend(D, n, t)}

\* post_boost_delta_scan, over all the store has: received rows first, then the
\* spent notes, then sent rows with the height the received row has, if any.
ScanDelta(R, N, S) ==
    /\ phase = "delta"
    /\ InsertReceived(R)
    /\ MarkSpent(stored, N)
    /\ InsertSent(S, receivedHeight')
    /\ UNCHANGED <<rejected, sentAt, stored, misplaced, target, sendVars, chainVars>>

DeltaScan ==
    /\ ScanDelta(Received(stored), Notes, FoundTxs(stored))
    /\ scanned' = scanned \cup stored
    /\ read' = read \cup stored
    /\ phase' = "prescan"
    /\ UNCHANGED stops

\* The process stops on the way, or the scan fails and the sync goes on.
DeltaScanStops(R, N, S) ==
    /\ stops < MaxStops
    /\ R \subseteq Received(stored) /\ S \subseteq FoundTxs(stored)
    /\ N # {} => R = Received(stored)
    /\ S # {} => N = Notes
    /\ ScanDelta(R, N, S)
    /\ stops' = stops + 1
    /\ phase' \in {"idle", "prescan"}
    /\ UNCHANGED <<scanned, read>>

\* A chunk of blocks B fetched from the peers: only notes that are not spent
\* yet are looked up, so one that a send reserved gets no height.
ScanFetched(B, R, N, S) ==
    /\ B \subseteq 1 .. target
    /\ InsertReceived(R)
    /\ CrossReference(B, N)
    /\ InsertSent(S, minedAt)
    /\ UNCHANGED <<rejected, sentAt, scanned, misplaced, target, sendVars, chainVars>>

\* post_boost_full_block_scan.
FullScan(B) ==
    /\ phase = "blocks"
    /\ ScanFetched(B, Received(B), Notes, Discovered(B))
    /\ stored' = stored \cup B
    /\ read' = read \cup B
    /\ UNCHANGED <<phase, stops>>

\* Step 8b, when a transparent send is pending; its spends make no rows.
PendingScan(B) ==
    /\ phase = "scanned"
    /\ ScanFetched(B, Received(B), Notes, {})
    /\ stored' = stored \cup B
    /\ read' = read \cup B
    /\ UNCHANGED <<phase, stops>>

\* Either stops or fails within a chunk, which the store may have already.
ChunkStops(B, R, N, S) ==
    /\ stops < MaxStops
    /\ phase \in {"blocks", "scanned"}
    /\ R \subseteq Received(B) /\ S \subseteq Discovered(B)
    /\ S # {} => N = Notes /\ phase = "blocks"
    /\ ScanFetched(B, R, N, S)
    /\ stored' \in {stored, stored \cup B}
    /\ N # {} => R = Received(B) /\ stored' = stored \cup B
    /\ stops' = stops + 1
    /\ phase' \in {"idle", "scanned"}
    /\ UNCHANGED read

\* Without peers, headers or anything left to scan the block scan returns
\* early; an error ends it and the sync goes on.
SkipBlocks ==
    /\ phase \in {"prescan", "blocks", "postscan"}
    /\ phase' = "scanned"
    /\ UNCHANGED <<noteVars, historyVars, stored, scanned, read, misplaced, target,
                   sendVars, stops, chainVars>>

\* update_all_confirmations: an unconfirmed row takes the height of another
\* row of its txid, else the greatest spent_height under its txid.
ConfirmedHeights(t) == {spentHeight[n] : n \in {m \in Notes : spentBy[m] = t}}

\* Variant: heights found by the scan do not reach the history.
NotBackfilled(t) == rowHeight[t]

BackfilledHeight(t) ==
    IF t \notin rows \/ rowHeight[t] > 0 THEN rowHeight[t]
    ELSE IF receivedHeight[t] > 0 THEN receivedHeight[t]
    ELSE IF \E h \in ConfirmedHeights(t) : h > 0
         THEN CHOOSE h \in ConfirmedHeights(t) :
                \A g \in ConfirmedHeights(t) : g <= h
    ELSE 0

\* Step 9.
UpdateConfirmations ==
    /\ phase = "scanned"
    /\ phase' = "confirmed"
    /\ rowHeight' = [t \in Txs |-> BackfilledHeight(t)]
    /\ UNCHANGED <<noteVars, rows, receivedHeight, rejected, sentAt, stored, scanned,
                   read, misplaced, target, sendVars, stops, chainVars>>

\* The nullifiers of unspent notes are computed again, before and after the
\* block scan from the positions in the store, at the end of the sync from the
\* positions in the witnesses. The notes F get the right one.
FixNullifiers(F) ==
    /\ F \subseteq misplaced /\ \A n \in F : Spendable(n)
    /\ misplaced' = misplaced \ F
    /\ \/ phase = "prescan" /\ phase' = "blocks"
       \/ phase = "blocks" /\ phase' = "postscan"
       \/ phase = "confirmed" /\ phase' = IF F = {} THEN "checked" ELSE "recheck"
    /\ UNCHANGED <<noteVars, historyVars, stored, scanned, read, target, sendVars, stops,
                   chainVars>>

\* All nullifiers in the store are looked up once more, at the end of the sync
\* only if one was wrong.
Recheck ==
    /\ \/ phase = "postscan" /\ phase' = "scanned"
       \/ phase = "recheck" /\ phase' = "checked"
    /\ CrossReference(stored, Notes)
    /\ InsertSent(Discovered(stored), minedAt)
    /\ UNCHANGED <<receivedHeight, rejected, sentAt, stored, scanned, read, misplaced,
                   target, sendVars, stops, chainVars>>

\* auto_recover_expired_sends: an unconfirmed spend whose transaction has a
\* timestamp more than 25 minutes old and no row with a height gives back
\* every note of that transaction.
Unconfirmed(t) == \E n \in Notes : spentBy[n] = t /\ spentHeight[n] = 0

ConfirmedInHistory(t) == (t \in rows /\ rowHeight[t] > 0) \/ receivedHeight[t] > 0

\* Variant: expiry judged by height, which needs blocks to come.
ExpiredByHeight(t) == t \in rows /\ target > expiry[t]

Expired(t) == t \in rows /\ clock > sentAt[t]

\* Variant: recovery does not ask whether the transaction was confirmed.
RecoverableUnasked(t) == Unconfirmed(t) /\ Expired(t)

Recoverable(t) == Unconfirmed(t) /\ ~ConfirmedInHistory(t) /\ Expired(t)

AutoRecover ==
    /\ phase = "checked"
    /\ phase' = "idle"
    /\ spentBy' = [n \in Notes |->
            IF spentBy[n] # NoTx /\ Recoverable(spentBy[n]) THEN NoTx
            ELSE spentBy[n]]
    /\ spentHeight' = [n \in Notes |->
            IF spentBy[n] # NoTx /\ Recoverable(spentBy[n]) THEN 0
            ELSE spentHeight[n]]
    /\ rejected' = rejected \cup {t \in Txs : Recoverable(t)}
    /\ UNCHANGED <<rows, rowHeight, receivedHeight, sentAt, stored, scanned, read,
                   misplaced, target, sendVars, stops, chainVars>>

\* Variant: a stopped send leaves its list of notes behind.
StopKeepingList ==
    /\ stops < MaxStops
    /\ phase # "idle" \/ sending # NoTx
    /\ stops' = stops + 1
    /\ phase' = "idle"
    /\ sending' = NoTx /\ UNCHANGED unmarked
    /\ UNCHANGED <<noteVars, historyVars, stored, scanned, read, misplaced, target,
                   chainVars>>

\* The process stops, or the sync returns an error: what is in memory goes.
Stop ==
    /\ stops < MaxStops
    /\ phase # "idle" \/ sending # NoTx
    /\ stops' = stops + 1
    /\ phase' = "idle"
    /\ sending' = NoTx /\ unmarked' = {}
    /\ UNCHANGED <<noteVars, historyVars, stored, scanned, read, misplaced, target,
                   chainVars>>

-----------------------------------------------------------------------------
Sync ==
    \/ \E D \in SUBSET (1 .. tip) : StartSync(D)
    \/ DeltaScan
    \/ \E R, S \in SUBSET Txs, N \in SUBSET Notes :
        \/ DeltaScanStops(R, N, S)
        \/ \E B \in SUBSET (1 .. target) : ChunkStops(B, R, N, S)
    \/ \E B \in SUBSET (1 .. target) : FullScan(B) \/ PendingScan(B)
    \/ SkipBlocks
    \/ UpdateConfirmations
    \/ \E F \in SUBSET misplaced : FixNullifiers(F)
    \/ Recheck
    \/ AutoRecover

Send ==
    \/ \E t \in Txs, S \in SUBSET Notes :
        \/ \E reached \in BOOLEAN : BroadcastAccepted(t, S, reached)
        \/ BroadcastRefused(t, S)
    \/ \E n \in Notes : MarkSelected(n)
    \/ RecordSent

Next == MineBlock \/ TimePasses \/ Send \/ Sync \/ Stop

Spec == Init /\ [][Next]_vars

\* The monitoring loop keeps syncing, a send in progress goes on to
\* its end and time passes; blocks and sends need not come.
Fairness ==
    /\ WF_vars(\E D \in SUBSET (1 .. tip) : StartSync(D))
    /\ WF_vars(DeltaScan)
    /\ WF_vars(UpdateConfirmations)
    /\ WF_vars(\E F \in SUBSET misplaced : FixNullifiers(F))
    /\ WF_vars(Recheck) /\ WF_vars(AutoRecover)
    /\ WF_vars(\E n \in Notes : MarkSelected(n)) /\ WF_vars(RecordSent)
    /\ WF_vars(TimePasses)

FairSpec == Spec /\ Fairness

-----------------------------------------------------------------------------
(* Properties.                                                              *)

\* A spend in a block that a whole delta scan has passed is known: the note is
\* spent with a height, however the send that reserved it ended, wherever earlier
\* scans stopped and whatever recovery, later sends, or scans of blocks the store
\* lacks did to the note since. Only notes stored with the right nullifier can be
\* recognised.
ScannedSpendsStaySpent ==
    \A n \in Notes \ Misplaced, t \in Txs :
        n \in inputs[t] /\ minedAt[t] \in scanned => spentHeight[n] > 0

\* Recovery gives back no note of a transaction mined in a block that a delta
\* scan has passed, if one of its inputs can be recognised, nor of one with change
\* in a block that any scan has passed: its height has reached the history before
\* recovery reads it. A send without change in a block that only the scans of
\* fetched blocks have passed has no such protection.
RecoverySparesMined ==
    [][\A n \in Notes : spentBy[n] # NoTx /\ spentBy'[n] = NoTx =>
        LET t == spentBy[n]
        IN  /\ ~(minedAt[t] \in scanned /\ inputs[t] \ Misplaced # {})
            /\ ~(minedAt[t] \in read /\ t \in WithChange)]_vars

\* The notes as their owner sees them; the ledger implements the vault.
NoteStatus(n) ==
    IF spentBy[n] = NoTx THEN "available"
    ELSE IF spentHeight[n] = 0 THEN "reserved" ELSE "spent"

Vault == INSTANCE NoteVault WITH status <- [n \in Notes |-> NoteStatus(n)]

\* A note goes available, reserved, spent, and back only from reserved: in
\* particular recovery, which clears every note of a transaction, never
\* clears one that was found spent on the chain.
ImplementsVault == Vault!VaultSpec

\* A recorded send that is not confirmed does not hold its notes for ever.
NotesAreNotHeldForever ==
    \A n \in Notes, t \in Txs :
        (spentBy[n] = t /\ spentHeight[n] = 0 /\ t \in rows /\ sentAt[t] < MaxClock)
        ~> (spentBy[n] # t \/ spentHeight[n] > 0 \/ ConfirmedInHistory(t))
=============================================================================
