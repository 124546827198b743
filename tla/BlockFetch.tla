----------------------------- MODULE BlockFetch -----------------------------
(***************************************************************************)
(* The block scan of a sync: pages of block hashes, each of them fetched   *)
(* in calls until nothing of it remains or the retries are used up         *)
(* (post_boost_full_block_scan, async_sync.rs), and the rounds of a call   *)
(* over the dispatchers of the connected peers (fetch_blocks_by_hashes,    *)
(* async_block_fetch.rs).                                                  *)
(*                                                                         *)
(* A handler for a "block" message does not say which block it waits for:  *)
(* a node's blocks resolve the handlers of its dispatcher in the order     *)
(* they come, and are told apart by their hashes afterwards. What comes    *)
(* after its round has timed out meets the handlers of a later one.        *)
(* Abstracted: blocks are numbered from the start of the scan; handlers    *)
(* and getdata of a round are one step (PeerLink has what lies between);   *)
(* what is done with a block that was received is in WitnessTree and       *)
(* NoteLedger.                                                             *)
(***************************************************************************)
EXTENDS Naturals, Sequences, FiniteSetsExt, Functions

CONSTANTS
    Peers,
    Top,            \* blocks from the last scanned one to the tip
    Page,           \* BATCH_SIZE, 384 in the code
    Quota,          \* MAX_BLOCKS_PER_PEER, 128 in the code
    Retries,        \* MAX_BATCH_RETRIES, 5 in the code
    ReconnectAt,    \* empty calls before a reconnect, 3 in the code
    Enough,         \* consensus_threshold, 3 in the code
    MaxFaults       \* bound: broken connections, refusals, busy writers, failed
                    \* writes, blocks that never come or come late

ASSUME FetchAssumption ==
    /\ IsFiniteSet(Peers)
    /\ {Page, Quota, Retries, ReconnectAt, Enough} \subseteq Nat \ {0}
    /\ ReconnectAt < Retries
    /\ {Top, MaxFaults} \subseteq Nat

VARIABLES
    conn,       \* the pool
    order,      \* place of each peer in the iteration of its map
    stale,      \* peers with handlers whose receivers are gone before all others
    waiting,    \* handlers of the round that wait, per peer
    wire,       \* blocks each node has been asked for and has not sent
    owing,      \* peers that owed blocks of an earlier round when the last one began
    pc,
    offset,     \* cursor_offset
    remaining,  \* batch_remaining, during a call also its blocks_to_fetch
    retry,      \* batch_retry
    zero,       \* batch_consecutive_zero
    width,      \* blocks_per_round of the call
    cursor,     \* its cursor
    got,        \* its all_blocks
    round,      \* end and size of the round, received so far
    smooth,     \* history: nothing failed in the call, and it began with a listener on
                \* every connection and no block on its way
    scanned,    \* blocks handed on
    lost,       \* blocks counted in total_unfetched
    faults

pool == <<conn, order>>
links == <<stale, waiting, wire, owing>>
call == <<width, cursor, got, round, smooth>>
scan == <<offset, remaining, retry, zero, scanned, lost>>
vars == <<pool, links, pc, call, scan, faults>>

\* "out": not in the pool. "fresh": without a listener yet. "deaf": the listener has
\* ended, and the reader with it; the connection still counts as one.
ConnStates == {"out", "fresh", "listening", "deaf"}
Blocks == 1..Top
Orders == Injection(Peers, 1..Cardinality(Peers))
NoRound == [end |-> 0, size |-> 0, received |-> 0]

TypeOK ==
    /\ conn \in [Peers -> ConnStates]
    /\ order \in Orders
    /\ stale \subseteq Peers /\ owing \subseteq Peers
    /\ waiting \in [Peers -> 0..Quota]
    /\ wire \in [Peers -> Seq(Blocks)]
    /\ pc \in {"page", "call", "round", "collect", "return", "done", "failed"}
    /\ offset \in 0..Top /\ remaining \subseteq Blocks
    /\ retry \in 0..Retries /\ zero \in 0..(Retries - 1)
    /\ width \in Nat /\ cursor \in 0..Page /\ got \in Seq(Blocks)
    /\ round.end \in 0..Page /\ round.size \in 0..Page
    /\ round.received \in 0..(Quota * Cardinality(Peers))
    /\ scanned \subseteq Blocks /\ lost \subseteq Blocks
    /\ smooth \in BOOLEAN /\ faults \in 0..MaxFaults

Init ==
    /\ conn = [p \in Peers |-> "listening"]
    /\ order \in Orders
    /\ stale = {} /\ waiting = [p \in Peers |-> 0] /\ owing = {}
    /\ wire = [p \in Peers |-> <<>>]
    /\ pc = "page" /\ offset = 0 /\ remaining = {} /\ retry = 0 /\ zero = 0
    /\ width = 0 /\ cursor = 0 /\ got = <<>> /\ round = NoRound /\ smooth = FALSE
    /\ scanned = {} /\ lost = {} /\ faults = 0

Spend(n) == faults + n <= MaxFaults /\ faults' = faults + n
Cost(S) == IF S = {} THEN 0 ELSE 1

-----------------------------------------------------------------------------
(* Connections and nodes.                                                   *)

InPool(c) == {p \in Peers : c[p] # "out"}
Listening == {p \in Peers : conn[p] = "listening"}
Started(c) == [p \in Peers |-> IF c[p] = "fresh" THEN "listening" ELSE c[p]]

\* Listeners end, of one peer or of several when the network goes. Each drops all its
\* senders on its way out: the round's handlers fail.
ListenersEnd ==
    /\ \E gone \in SUBSET Listening \ {{}} :
         /\ conn' = [p \in Peers |-> IF p \in gone THEN "deaf" ELSE conn[p]]
         /\ stale' = stale \ gone
         /\ waiting' = [p \in Peers |-> IF p \in gone THEN 0 ELSE waiting[p]]
         /\ wire' = [p \in Peers |-> IF p \in gone THEN <<>> ELSE wire[p]]
    /\ Spend(1) /\ smooth' = FALSE
    /\ UNCHANGED <<order, owing, pc, width, cursor, got, round, scan>>

\* The node does not have the block, or never sends it.
NeverComes(p) ==
    /\ wire[p] # <<>>
    /\ wire' = [wire EXCEPT ![p] = Tail(@)]
    /\ Spend(1) /\ smooth' = FALSE
    /\ UNCHANGED <<pool, stale, waiting, owing, pc, width, cursor, got, round, scan>>

\* Variant: a handler whose receiver is gone takes the block.
ArrivesAtStale(p) ==
    LET taken == waiting[p] > 0 /\ p \notin stale
    IN
    /\ wire[p] # <<>>
    /\ wire' = [wire EXCEPT ![p] = Tail(@)]
    /\ stale' = stale \ {p}
    /\ waiting' = [waiting EXCEPT ![p] = IF taken THEN @ - 1 ELSE @]
    /\ IF taken /\ Head(wire[p]) \in remaining
       THEN /\ got' = Append(got, Head(wire[p]))
            /\ round' = [round EXCEPT !.received = @ + 1]
       ELSE UNCHANGED <<got, round>>
    /\ UNCHANGED <<pool, owing, pc, width, cursor, smooth, scan, faults>>

\* The listener dispatches a block. Handlers whose receivers are gone are passed
\* over; the first that waits takes it, and the round counts it if it is any of the
\* blocks of the call. Without one it is dropped.
Arrives(p) ==
    LET taken == waiting[p] > 0
    IN
    /\ wire[p] # <<>>
    /\ wire' = [wire EXCEPT ![p] = Tail(@)]
    /\ stale' = stale \ {p}
    /\ waiting' = [waiting EXCEPT ![p] = IF taken THEN @ - 1 ELSE @]
    /\ IF taken /\ Head(wire[p]) \in remaining
       THEN /\ got' = Append(got, Head(wire[p]))
            /\ round' = [round EXCEPT !.received = @ + 1]
       ELSE UNCHANGED <<got, round>>
    /\ UNCHANGED <<pool, owing, pc, width, cursor, smooth, scan, faults>>

-----------------------------------------------------------------------------
(* One call of fetch_blocks_by_hashes.                                      *)

\* connected_count passes over a peer whose listener has its writer. No peer at all is
\* an error, which ends the sync. Listeners are started when none runs.
BeginCall ==
    /\ pc = "call" /\ remaining # {} /\ retry < Retries
    /\ retry' = retry + 1
    /\ \E busy \in SUBSET Listening :
         LET connected == InPool(conn) \ busy
         IN
         /\ Spend(Cost(busy))
         /\ IF connected = {}
            THEN pc' = "failed" /\ UNCHANGED <<conn, call>>
            ELSE /\ pc' = "round"
                 /\ conn' = IF Listening = {} THEN Started(conn) ELSE conn
                 /\ width' = Cardinality(connected) * Quota
                 /\ cursor' = 0 /\ got' = <<>> /\ round' = NoRound
                 /\ smooth' = \A p \in Peers : conn'[p] \in {"out", "listening"}
                                               /\ wire[p] = <<>>
    /\ UNCHANGED <<order, links, offset, remaining, zero, scanned, lost>>

\* The k-th smallest of a set of blocks.
Nth(S, k) == CHOOSE b \in S : Cardinality({c \in S : c <= b}) = k

\* Variant: the last block of a round is dealt to nobody.
ShareButLast(k, n, end) ==
    [i \in {j \in 1..Quota : cursor + k + (j - 1) * n < end} |->
        Nth(remaining, cursor + k + (i - 1) * n)]

\* The blocks of a round up to the end-th that go to the k-th of n peers: they are
\* dealt in turn, at most Quota each; what exceeds that goes to nobody.
Share(k, n, end) ==
    [i \in {j \in 1..Quota : cursor + k + (j - 1) * n <= end} |->
        Nth(remaining, cursor + k + (i - 1) * n)]

\* The round up to the end-th block is dealt to the ready peers, those in the pool whose
\* listener does not have the writer. What falls to a peer without a listener is asked
\* of nobody: its dispatcher is not active.
Shares(busy, end) ==
    LET ready == InPool(conn) \ busy
        turn(p) == Cardinality({q \in ready : order[q] <= order[p]})
    IN [p \in Peers |-> IF p \in ready \cap Listening
                          THEN Share(turn(p), Cardinality(ready), end) ELSE <<>>]

\* A handler for each block, then getdata; a failed write is only logged.
Ask(asked, unsent, end) ==
    /\ waiting' = [p \in Peers |-> Len(asked[p])]
    /\ wire' = [p \in Peers |-> IF p \in unsent THEN wire[p] ELSE wire[p] \o asked[p]]
    /\ owing' = {p \in Peers : wire[p] # <<>>}
    /\ round' = [end |-> end, size |-> end - cursor, received |-> 0]
    /\ pc' = "collect"

\* Without a handler the call returns what it has.
BeginRound ==
    /\ pc = "round" /\ cursor < Cardinality(remaining)
    /\ \E busy \in SUBSET Listening, unsent \in SUBSET Listening :
         LET end == Min({cursor + width, Cardinality(remaining)})
         IN
         /\ Spend(Cost(busy) + Cost(unsent))
         /\ smooth' = (smooth /\ busy \cup unsent = {})
         /\ \E asked \in {Shares(busy, end)} :
              /\ unsent \subseteq {p \in Peers : asked[p] # <<>>}
              /\ IF \A p \in Peers : asked[p] = <<>>
                 THEN pc' = "return" /\ UNCHANGED <<waiting, wire, owing, round>>
                 ELSE Ask(asked, unsent, end)
    /\ UNCHANGED <<pool, stale, width, cursor, got, scan>>

\* All handlers are resolved, or the rest have timed out: a fault if their blocks are
\* still to come. With less than half of the round's blocks the call returns, otherwise
\* the cursor goes on past the whole round.
EndRound ==
    LET late == {p \in Peers : waiting[p] > 0 /\ wire[p] # <<>>}
        enough == round.received * 2 >= round.size
    IN
    /\ pc = "collect"
    /\ Spend(Cost(late))
    /\ smooth' = (smooth /\ late = {})
    /\ stale' = stale \cup {p \in Peers : waiting[p] > 0}
    /\ waiting' = [p \in Peers |-> 0]
    /\ pc' = IF enough THEN "round" ELSE "return"
    /\ cursor' = IF enough THEN round.end ELSE cursor
    /\ round' = NoRound
    /\ UNCHANGED <<pool, wire, owing, width, got, scan>>

EndRounds ==
    /\ pc = "round" /\ cursor >= Cardinality(remaining)
    /\ pc' = "return"
    /\ UNCHANGED <<pool, links, call, scan, faults>>

-----------------------------------------------------------------------------
(* The loops of the scan around it.                                         *)

\* Variant: the offset goes on by BATCH_SIZE, also past the last, shorter page.
NextPageWhole ==
    /\ pc = "page"
    /\ IF offset < Top
       THEN /\ remaining' = (offset + 1)..Min({offset + Page, Top})
            /\ offset' = offset + Page
            /\ pc' = "call"
       ELSE pc' = "done" /\ UNCHANGED <<remaining, offset>>
    /\ retry' = 0 /\ zero' = 0
    /\ UNCHANGED <<pool, links, call, scanned, lost, faults>>

NextPage ==
    /\ pc = "page"
    /\ IF offset < Top
       THEN /\ remaining' = (offset + 1)..Min({offset + Page, Top})
            /\ offset' = Min({offset + Page, Top})
            /\ pc' = "call"
       ELSE pc' = "done" /\ UNCHANGED <<remaining, offset>>
    /\ retry' = 0 /\ zero' = 0
    /\ UNCHANGED <<pool, links, call, scanned, lost, faults>>

\* The page is through, or its retries are: what remains is counted, and never
\* fetched again by this scan.
EndPage ==
    /\ pc = "call" /\ (remaining = {} \/ retry = Retries)
    /\ lost' = lost \cup remaining
    /\ remaining' = {} /\ pc' = "page"
    /\ UNCHANGED <<pool, links, call, offset, retry, zero, scanned, faults>>

\* Variant: what was received is asked for again.
ReceivedKeeping ==
    /\ pc = "return" /\ got # <<>>
    /\ scanned' = scanned \cup Range(got)
    /\ zero' = 0 /\ got' = <<>>
    /\ pc' = "call"
    /\ UNCHANGED <<pool, links, width, cursor, round, smooth, offset, remaining, retry, lost,
                   faults>>

Received ==
    /\ pc = "return" /\ got # <<>>
    /\ scanned' = scanned \cup Range(got)
    /\ remaining' = remaining \ Range(got)
    /\ zero' = 0 /\ got' = <<>>
    /\ pc' = "call"
    /\ UNCHANGED <<pool, links, width, cursor, round, smooth, offset, retry, lost, faults>>

ReceivedNothing ==
    /\ pc = "return" /\ got = <<>> /\ zero + 1 # ReconnectAt
    /\ IF zero + 1 = Retries
       THEN lost' = lost \cup remaining /\ remaining' = {} /\ zero' = 0 /\ pc' = "page"
       ELSE zero' = zero + 1 /\ pc' = "call" /\ UNCHANGED <<lost, remaining>>
    /\ UNCHANGED <<pool, links, call, offset, retry, scanned, faults>>

\* disconnect_all when there are connections and no listener, connect, which does
\* nothing when there are enough connections (writers are at rest here, PeerPool has
\* them busy), and start_all_block_listeners. After a
\* connect that worked the count of the retries goes back.
Connect(c, ok) ==
    LET candidates == Peers \ InPool(c)
    IN
    /\ \E new \in SUBSET candidates :
         LET now == [p \in Peers |-> IF p \in new THEN "fresh" ELSE c[p]]
         IN
         /\ IF Cardinality(InPool(c)) >= Enough THEN new = {} /\ Spend(0)
            ELSE Spend(Cost(candidates \ new))
         /\ ok = (Cardinality(InPool(now)) >= Enough)
         /\ conn' = IF ok THEN Started(now) ELSE now
         /\ order' \in IF c = conn /\ new = {} THEN {order} ELSE Orders

\* Variant: connections without listeners are kept.
ReconnectKeeping ==
    /\ pc = "return" /\ got = <<>> /\ zero + 1 = ReconnectAt
    /\ \E ok \in BOOLEAN :
         /\ Connect(conn, ok)
         /\ zero' = IF ok THEN 0 ELSE zero + 1
         /\ retry' = IF ok THEN retry - Min({retry, ReconnectAt}) ELSE retry
    /\ pc' = "call"
    /\ UNCHANGED <<links, call, offset, remaining, scanned, lost>>

Reconnect ==
    /\ pc = "return" /\ got = <<>> /\ zero + 1 = ReconnectAt
    /\ \E ok \in BOOLEAN :
         /\ Connect(IF Listening = {} THEN [p \in Peers |-> "out"] ELSE conn, ok)
         /\ zero' = IF ok THEN 0 ELSE zero + 1
         /\ retry' = IF ok THEN retry - Min({retry, ReconnectAt}) ELSE retry
    /\ pc' = "call"
    /\ UNCHANGED <<links, call, offset, remaining, scanned, lost>>

ScanStep ==
    \/ NextPage \/ BeginCall \/ BeginRound \/ EndRound \/ EndRounds
    \/ Received \/ ReceivedNothing \/ Reconnect \/ EndPage

Next ==
    \/ ScanStep \/ ListenersEnd
    \/ \E p \in Peers : Arrives(p) \/ NeverComes(p)

Spec == Init /\ [][Next]_vars

\* The scan goes on: its waits have timeouts. A node that has a block sends it.
FairSpec == Spec /\ WF_vars(ScanStep) /\ \A p \in Peers : WF_vars(Arrives(p))

-----------------------------------------------------------------------------
(* Properties.                                                              *)

\* A block that a node sends in its round is received, unless the node still owed
\* blocks of an earlier round: the handlers of requests that timed out, which stay in
\* the queue, take nothing from those of a later round.
PunctualBlocksAreTaken ==
    [][\A p \in Peers \ owing :
         pc = "collect" /\ Arrives(p) => Len(got') = Len(got) + 1]_vars

\* When the scan is through every block is scanned or counted as unfetched, and none is
\* both, whatever came late or was asked twice; ImplementsScan says so of every step.
EveryBlockIsAccountedFor ==
    pc = "done" => scanned \cup lost = Blocks /\ scanned \cap lost = {}

Ended == pc \in {"done", "failed"}

\* Each block is handed on or given up once, page after page, and the scan is done when
\* every block is: what the rest of the sync assumes of it.
Scan == INSTANCE BlockScan WITH result <- IF Ended THEN pc ELSE "running"
ImplementsScan == Scan!ScanSpec

\* A call in which nothing fails gets every block it was to fetch, in however many rounds:
\* so a page gives up blocks only after calls each of which met a failure, a connection
\* without a listener, or a node that owed blocks.
SmoothCallsGetAll == pc = "return" /\ smooth => remaining \subseteq Range(got)

\* A scan ends if in the end no deaf connection is left beside listening ones:
\* then empty calls lead to other connections.
ScanEndsUnlessDeaf ==
    <>[](Listening = {} \/ \A p \in Peers : conn[p] # "deaf") => <>Ended
=============================================================================
