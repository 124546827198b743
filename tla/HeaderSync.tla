----------------------------- MODULE HeaderSync -----------------------------
(***************************************************************************)
(* The header chain sync of header_sync.rs over the block_headers table of *)
(* header_store_impl.rs: from the latest stored height to the height the   *)
(* peers agree on, one peer at a time, failing over to the next, with one  *)
(* cut of Depth headers when a peer's chain does not continue ours.        *)
(*                                                                         *)
(* A block stands for its hash and its header: it is its height and the    *)
(* branch of the block tree it lies on, so that its parent is known. The   *)
(* header checks (time, difficulty bits, Equihash) and a lost connection   *)
(* have one outcome and are one action, PeerFails. Left out: the           *)
(* sapling_roots rows written beside the headers, the two byte orders of   *)
(* a hash, progress reports.                                               *)
(***************************************************************************)
EXTENDS Naturals, FiniteSets, Sequences

CONSTANTS
    Peers,
    Branches, Main,     \* branches of the block tree; all leave Main
    ForkAt,             \* ForkAt[b]: the last height b shares with Main
    MaxTip,             \* bound: no block is higher
    MaxHeight,          \* bound: no row is higher
    NoHash,             \* the zero hash, and a height without a row
    InitialStores,      \* sets of heights the boost file may have loaded
    InitialTips,        \* blocks the peers may start from
    Depth,              \* 100 in the code
    MaxHeaders,         \* headers of one answer, 160 in the code
    FlushAt,            \* BATCH_FLUSH_SIZE, 10 000 in the code
    MaxReconnects,      \* MAX_RECONNECT_ATTEMPTS, 3 in the code
    Checkpoints,        \* heights of CHECKPOINTS
    Ahead,              \* bound: how far the live tip may exceed the peers
    MaxMoves,           \* bound: blocks the network finds
    MaxFaults           \* bound: failures of peers, reconnects and syncs

ASSUME HeaderAssumption ==
    /\ Main \in Branches
    /\ ForkAt \in [Branches -> Nat]
    /\ MaxTip \in Nat /\ MaxHeight \in Nat /\ Ahead \in Nat
    /\ MaxTip + Ahead <= MaxHeight
    /\ Depth \in Nat \ {0} /\ MaxHeaders \in Nat \ {0} /\ FlushAt \in Nat
    /\ MaxReconnects \in Nat /\ MaxMoves \in Nat /\ MaxFaults \in Nat
    /\ InitialStores \subseteq SUBSET (0 .. MaxTip)
    /\ NoHash \notin (0 .. MaxTip) \X Branches
    /\ IsFiniteSet(Peers) /\ Cardinality(Peers) >= 2

Heights == 0 .. MaxHeight

\* The block at height h on branch b, the parent of a block, and whether a
\* block lies on the chain that ends in t.
On(b, h) == <<h, IF h <= ForkAt[b] THEN Main ELSE b>>
Blocks == {On(b, h) : b \in Branches, h \in 0 .. MaxTip}
Prev(x) == IF x[1] = 0 THEN NoHash ELSE On(x[2], x[1] - 1)
OnChainOf(t, x) == x # NoHash /\ x[1] <= t[1] /\ On(t[2], x[1]) = x

VARIABLES
    stored,     \* block_headers: the block at each height, or NoHash
    tip,        \* the best block of each peer
    pc,         \* "idle", or "running" inside sync_headers_simple
    start,      \* start_height
    target,     \* chain_tip
    cur,        \* current_height
    pending,    \* pending_headers: verified, not yet stored
    lastKnown,  \* last_known_hash
    ranked,     \* ranked_peers
    failed,     \* failed_peers
    retried,    \* chain_discontinuity_retried
    reconnects, \* reconnect_attempts
    moves, faults

local == <<start, target, cur, pending, lastKnown, ranked, failed, retried,
           reconnects>>
vars == <<stored, tip, pc, local, moves, faults>>

Rows == [Heights -> Blocks \cup {NoHash}]
NoRows == [h \in Heights |-> NoHash]
Orders == {s \in UNION {[1 .. n -> Peers] : n \in 2 .. Cardinality(Peers)} :
             \A i, j \in DOMAIN s : s[i] = s[j] => i = j}

TypeOK ==
    /\ stored \in Rows /\ pending \in Rows
    /\ tip \in [Peers -> Blocks]
    /\ pc \in {"idle", "running"}
    /\ start \in Heights /\ target \in Heights /\ cur \in 0 .. MaxHeight + 1
    /\ lastKnown \in Blocks \cup {NoHash}
    /\ ranked \in Orders \cup {<<>>}
    /\ failed \subseteq Peers
    /\ retried \in BOOLEAN
    /\ reconnects \in 0 .. MaxReconnects
    /\ moves \in 0 .. MaxMoves /\ faults \in 0 .. MaxFaults

-----------------------------------------------------------------------------
(* The store.                                                              *)

\* The next height to ask for: get_latest_height plus one, or 0 when the
\* table is empty.
NextHeight == CHOOSE h \in 0 .. MaxHeight + 1 :
                 /\ \A k \in Heights : k >= h => stored[k] = NoHash
                 /\ h > 0 => stored[h - 1] # NoHash

\* store_headers: INSERT OR REPLACE in one transaction. The hash is unique in the
\* table, so a block that goes into another row leaves its old one.
Over(rows, h) == IF rows[h] # NoHash THEN rows[h] ELSE stored[h]
Flushed(rows) ==
    [h \in Heights |->
        IF rows[h] = NoHash /\ stored[h] \in {rows[k] : k \in Heights} THEN NoHash
        ELSE Over(rows, h)]

\* truncate_above.
Truncated(h) == [k \in Heights |-> IF k > h THEN NoHash ELSE stored[k]]

-----------------------------------------------------------------------------
(* A peer's answer.                                                        *)

\* The first peer in the order of this connection that has not failed.
Usable == {i \in DOMAIN ranked : ranked[i] \notin failed}
Chosen == ranked[CHOOSE i \in Usable : \A j \in Usable : i <= j]

\* The hash the request names: the last accepted header, else the stored one
\* below the current height, else the zero hash.
Locator == IF lastKnown # NoHash THEN lastKnown
           ELSE IF cur > 0 THEN stored[cur - 1] ELSE NoHash

\* A node answers with the blocks of its chain after the locator, or after the
\* genesis block when the locator is not on its chain.
AnswerStart(t) == IF OnChainOf(t, Locator) THEN Locator[1] + 1 ELSE 1
AnswerEnd(t) == IF t[1] < AnswerStart(t) + MaxHeaders - 1
                THEN t[1] ELSE AnswerStart(t) + MaxHeaders - 1
AnswerIsEmpty(t) == AnswerEnd(t) < AnswerStart(t)

\* The rows the answer fills: from the current height on, none above the
\* target.
BatchEnd(t) == LET last == cur + (AnswerEnd(t) - AnswerStart(t))
               IN IF last < target THEN last ELSE target
Batch(t) == [h \in Heights |-> IF h \in cur .. BatchEnd(t)
                               THEN On(t[2], AnswerStart(t) + (h - cur)) ELSE NoHash]

\* The first header does not continue the chain of the locator.
Discontinuous(t) ==
    /\ Locator # NoHash
    /\ Prev(On(t[2], AnswerStart(t))) # Locator

\* A header at the height of a checkpoint is another block.
MissesCheckpoint(t) ==
    \E h \in (cur .. BatchEnd(t)) \cap Checkpoints : Batch(t)[h] # On(Main, h)

-----------------------------------------------------------------------------
Reset ==
    /\ pc' = "idle"
    /\ start' = 0 /\ target' = 0 /\ cur' = 0
    /\ pending' = NoRows /\ lastKnown' = NoHash
    /\ ranked' = <<>> /\ failed' = {}
    /\ retried' = FALSE /\ reconnects' = 0

Init ==
    /\ \E rows \in InitialStores :
         stored = [h \in Heights |-> IF h \in rows THEN On(Main, h) ELSE NoHash]
    /\ tip \in [Peers -> InitialTips]
    /\ pc = "idle"
    /\ start = 0 /\ target = 0 /\ cur = 0
    /\ pending = NoRows /\ lastKnown = NoHash
    /\ ranked = <<>> /\ failed = {}
    /\ retried = FALSE /\ reconnects = 0
    /\ moves = 0 /\ faults = 0

\* A peer's node goes over to a higher block of the tree.
NodeMoves(p) ==
    /\ moves < MaxMoves
    /\ \E t \in Blocks : /\ t[1] > tip[p][1]
                         /\ tip' = [tip EXCEPT ![p] = t]
    /\ moves' = moves + 1
    /\ UNCHANGED <<stored, pc, local, faults>>

\* The consensus height lies between the heights of the peers, or above them
\* when the announcements of new blocks have counted further.
Targets == {h \in Heights : /\ \E p \in Peers : tip[p][1] <= h
                            /\ \E p \in Peers : h <= tip[p][1] + Ahead}

\* sync_headers: nothing is done when the store already reaches the target.
StartSync ==
    /\ pc = "idle"
    /\ \E h \in Targets, order \in Orders :
         /\ NextHeight <= h
         /\ target' = h
         /\ ranked' = order
    /\ pc' = "running"
    /\ start' = NextHeight /\ cur' = NextHeight
    /\ UNCHANGED <<stored, tip, pending, lastKnown, failed, retried, reconnects,
                   moves, faults>>

Asking == pc = "running" /\ cur <= target /\ Usable # {}

\* No answer in 15 seconds, a closed connection, a header that fails its checks.
PeerFails ==
    /\ Asking /\ faults < MaxFaults
    /\ faults' = faults + 1
    /\ failed' = failed \cup {Chosen}
    /\ UNCHANGED <<stored, tip, pc, start, target, cur, pending, lastKnown,
                   ranked, retried, reconnects, moves>>

\* No headers: the peer has nothing beyond the locator, and the sync ends.
NothingMore ==
    /\ Asking /\ AnswerIsEmpty(tip[Chosen])
    /\ stored' = Flushed(pending)
    /\ Reset
    /\ UNCHANGED <<tip, moves, faults>>

\* Variant, not the code: headers that wait to be stored survive the cut.
CutBackKeepsPending ==
    LET to == IF cur > Depth THEN cur - Depth ELSE 0 IN
    /\ Asking /\ ~AnswerIsEmpty(tip[Chosen]) /\ Discontinuous(tip[Chosen])
    /\ ~retried
    /\ stored' = Truncated(to)
    /\ cur' = to + 1
    /\ lastKnown' = NoHash
    /\ failed' = {} /\ retried' = TRUE
    /\ UNCHANGED <<tip, pc, start, target, pending, ranked, reconnects, moves, faults>>

\* Variant, not the code: every discontinuity cuts.
CutBackEachTime ==
    LET to == IF cur > Depth THEN cur - Depth ELSE 0 IN
    /\ Asking /\ ~AnswerIsEmpty(tip[Chosen]) /\ Discontinuous(tip[Chosen])
    /\ stored' = Truncated(to)
    /\ cur' = to + 1
    /\ pending' = NoRows /\ lastKnown' = NoHash
    /\ failed' = {} /\ retried' = TRUE
    /\ UNCHANGED <<tip, pc, start, target, ranked, reconnects, moves, faults>>

\* Variant, not the code: the cut keeps the header nobody continues.
CutBackNothing ==
    /\ Asking /\ ~AnswerIsEmpty(tip[Chosen]) /\ Discontinuous(tip[Chosen])
    /\ ~retried
    /\ stored' = Truncated(cur - 1)
    /\ cur' = cur
    /\ pending' = NoRows /\ lastKnown' = NoHash
    /\ failed' = {} /\ retried' = TRUE
    /\ UNCHANGED <<tip, pc, start, target, ranked, reconnects, moves, faults>>

\* The first discontinuity of a sync: the last Depth headers are cut off and
\* everything starts over from there.
CutBack ==
    LET to == IF cur > Depth THEN cur - Depth ELSE 0 IN
    /\ Asking /\ ~AnswerIsEmpty(tip[Chosen]) /\ Discontinuous(tip[Chosen])
    /\ ~retried
    /\ stored' = Truncated(to)
    /\ cur' = to + 1
    /\ pending' = NoRows /\ lastKnown' = NoHash
    /\ failed' = {} /\ retried' = TRUE
    /\ UNCHANGED <<tip, pc, start, target, ranked, reconnects, moves, faults>>

\* A later discontinuity, or a header that is not the block of a checkpoint:
\* nothing of the answer is kept and the next peer is asked.
RejectPeer ==
    /\ Asking /\ ~AnswerIsEmpty(tip[Chosen])
    /\ IF Discontinuous(tip[Chosen]) THEN retried
       ELSE MissesCheckpoint(tip[Chosen])
    /\ failed' = failed \cup {Chosen}
    /\ UNCHANGED <<stored, tip, pc, start, target, cur, pending, lastKnown,
                   ranked, retried, reconnects, moves, faults>>

AcceptBatch ==
    LET t == tip[Chosen]
        all == [h \in Heights |-> IF h \in cur .. BatchEnd(t) THEN Batch(t)[h]
                                  ELSE pending[h]]
    IN
    /\ Asking /\ ~AnswerIsEmpty(t)
    /\ ~Discontinuous(t) /\ ~MissesCheckpoint(t)
    /\ cur' = BatchEnd(t) + 1
    /\ lastKnown' = Batch(t)[BatchEnd(t)]
    /\ IF Cardinality({h \in Heights : all[h] # NoHash}) >= FlushAt
       THEN stored' = Flushed(all) /\ pending' = NoRows
       ELSE stored' = stored /\ pending' = all
    /\ UNCHANGED <<tip, pc, start, target, ranked, failed, retried, reconnects,
                   moves, faults>>

\* Every peer has failed: what is verified is stored and, MaxReconnects times,
\* all peers are dropped and connected to again.
Exhausted == pc = "running" /\ cur <= target /\ Usable = {}

\* Variant, not the code: attempts are not counted.
ReconnectUncounted ==
    /\ Exhausted /\ reconnects < MaxReconnects
    /\ stored' = Flushed(pending) /\ pending' = NoRows
    /\ ranked' \in Orders
    /\ failed' = {}
    /\ UNCHANGED <<tip, pc, start, target, cur, lastKnown, retried, reconnects,
                   moves, faults>>

\* Variant, not the code: one attempt too many.
ReconnectOnceMore ==
    /\ Exhausted /\ reconnects <= MaxReconnects
    /\ stored' = Flushed(pending) /\ pending' = NoRows
    /\ ranked' \in Orders
    /\ failed' = {}
    /\ reconnects' = reconnects + 1
    /\ UNCHANGED <<tip, pc, start, target, cur, lastKnown, retried, moves, faults>>

Reconnect ==
    /\ Exhausted /\ reconnects < MaxReconnects
    /\ stored' = Flushed(pending) /\ pending' = NoRows
    /\ ranked' \in Orders
    /\ failed' = {}
    /\ reconnects' = reconnects + 1
    /\ UNCHANGED <<tip, pc, start, target, cur, lastKnown, retried, moves, faults>>

GiveUp ==
    /\ Exhausted
    /\ \/ reconnects = MaxReconnects /\ faults' = faults
       \/ reconnects < MaxReconnects /\ faults < MaxFaults /\ faults' = faults + 1
    /\ stored' = Flushed(pending)
    /\ Reset
    /\ UNCHANGED <<tip, moves>>

\* The target is reached.
Finish ==
    /\ pc = "running" /\ cur > target
    /\ stored' = Flushed(pending)
    /\ Reset
    /\ UNCHANGED <<tip, moves, faults>>

\* The sync task is aborted or the process stops: what is pending is lost.
Abort ==
    /\ pc = "running" /\ faults < MaxFaults
    /\ faults' = faults + 1
    /\ Reset
    /\ UNCHANGED <<stored, tip, moves>>

Step == \/ NothingMore \/ CutBack \/ RejectPeer \/ AcceptBatch
        \/ Reconnect \/ GiveUp \/ Finish

Next == \/ \E p \in Peers : NodeMoves(p)
        \/ StartSync \/ PeerFails \/ Step \/ Abort

Spec == Init /\ [][Next]_vars

\* Every request ends by its timeout, and the application syncs again and again.
FairSpec == Spec /\ WF_vars(Step) /\ WF_vars(StartSync)

-----------------------------------------------------------------------------
(* Properties.                                                             *)

\* "verifies chain continuity (each header's prev_hash matches the previous
\* block's hash)": two headers in adjacent rows are parent and child, through
\* fail-overs to peers on other branches, cuts and lost syncs.
Linked ==
    \A h \in Heights \ {0} :
        stored[h] # NoHash /\ stored[h - 1] # NoHash => stored[h - 1] = Prev(stored[h])

\* A header lies in the row of its height.
HeadersSitAtTheirHeights ==
    \A h \in Heights : stored[h] # NoHash => stored[h][1] = h

\* "NEVER nuke boost headers": no step of a sync, however many peers disagree,
\* touches a header Depth or more below where the sync started, as long as no
\* header is stored in a wrong row.
DeepHeadersStay ==
    [][/\ pc = "running"
       /\ HeadersSitAtTheirHeights /\ HeadersSitAtTheirHeights'
       => \A h \in Heights : h + Depth <= start => stored'[h] = stored[h]]_vars

\* A sync ends, with the target reached or an error.
SyncEnds == pc = "running" ~> pc = "idle"

Agreed == \A p, q \in Peers : tip[p] = tip[q]
Top == tip[CHOOSE p \in Peers : TRUE]

\* The store holds the chain of the peers, up to its end.
HoldsTheChain ==
    /\ NextHeight = Top[1] + 1
    /\ \A h \in Heights : stored[h] # NoHash => OnChainOf(Top, stored[h])

\* Once the peers agree for good on a chain that is higher than what is stored,
\* however far below the last header it forks off, repeated syncs replace the
\* headers it does not share; provided no header was stored in the wrong row.
ReorgIsFollowed ==
    /\ <>([]Agreed /\ pc = "idle" /\ NextHeight \in 1 .. Top[1])
    /\ []HeadersSitAtTheirHeights
    => <>[](Agreed => HoldsTheChain)
=============================================================================
