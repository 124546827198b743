------------------------------ MODULE PeerPool ------------------------------
(***************************************************************************)
(* The pool of peer_manager.rs and the loops that keep a wallet in step    *)
(* with the chain through it: connecting, dying connections, the height    *)
(* the peers agree on, the live tip counted from announced blocks, and one *)
(* sync after another of the desktop application (zipherx-gui/sync.rs) or  *)
(* of the service under the mobile ones (zipherx-ffi/lib.rs).              *)
(*                                                                         *)
(* A connection owns a reader until a listener task takes it; when that    *)
(* task ends the reader is gone, while the state and the writer stay, and  *)
(* is_connected looks at these two only. Every step of a sync runs under   *)
(* the mutex of the peer manager; listeners and nodes act in between.      *)
(* Abstracted: an address is one peer, with one port to a host; addresses  *)
(* are known from the start (seeds); what a sync does with its headers is  *)
(* in HeaderSync and WitnessTree.                                          *)
(***************************************************************************)
EXTENDS Naturals, FiniteSets, FiniteSetsExt

CONSTANTS
    Peers,
    Confused,       \* the peers that may report a height far above the chain
    Apps,           \* the applications to consider
    Threshold,      \* consensus_threshold, 3 in the code
    MinPeers,       \* min_peers, 8 in the code
    Agree,          \* 10 in the code
    LiveRange,      \* 2000 in the code
    Outlier,        \* 500 in the code
    SeenLimit,      \* 500 in the code
    MaxAttempts,    \* of connecting before a sync, 3 in the code
    MaxReconnects,  \* MAX_RECONNECT_ATTEMPTS, 3 in the code
    MaxChain,       \* bound: blocks the network finds
    FarHeight,      \* the height confused peers report
    MaxFaults,      \* bound: broken connections, refusals, busy writers
    MaxLate         \* bound: answers of nodes that do not have the last block yet

ASSUME PoolAssumption ==
    /\ IsFiniteSet(Peers) /\ Confused \subseteq Peers
    /\ Apps \subseteq {"desktop", "service"}
    /\ {Threshold, MinPeers, SeenLimit, MaxAttempts} \subseteq Nat \ {0}
    /\ {Agree, LiveRange, Outlier, MaxReconnects, MaxChain, FarHeight, MaxFaults,
        MaxLate} \subseteq Nat

VARIABLES
    app,        \* which application runs the loop
    conn,       \* the pool: the state of the connection to each peer
    height,     \* peer_start_height of each connection
    heard,      \* the last block each node is known to have
    stray,      \* a connection was dropped whose listener still runs
    banned,     \* banned_peers
    liveTip,    \* live_chain_tip
    seen,       \* seen_block_hashes
    chain,      \* height of the network
    synced,     \* height of the header store
    pc,         \* where the loop is
    target,     \* height the running sync goes to
    tries,      \* attempts to connect, or reconnects, of the running sync
    error,      \* what the last sync returned
    notified,   \* a new block was announced since the loop last woke
    byBlock,    \* the loop woke for an announced block
    before,     \* synced when it woke
    stage,      \* first sync, retry, retry over new connections
    faults,
    lates

pool == <<conn, height, heard, stray, banned>>
bounds == <<faults, lates>>
counting == <<liveTip, seen, notified>>
loop == <<app, synced, pc, target, tries, error, byBlock, before, stage>>
vars == <<pool, counting, chain, loop, bounds>>

\* "out": not in the pool. "fresh": connected, no listener yet. "stale": fresh, and
\* the other end has closed. "listening"; "hung": listening to a closed end.
\* "deaf": the listener has ended.
ConnStates == {"out", "fresh", "stale", "listening", "hung", "deaf"}
Heights == 0 .. MaxChain
Reported == Heights \cup {FarHeight}

TypeOK ==
    /\ app \in Apps
    /\ conn \in [Peers -> ConnStates]
    /\ height \in [Peers -> Reported] /\ heard \in [Peers -> Heights]
    /\ stray \in BOOLEAN /\ banned \subseteq Peers
    /\ liveTip \in Nat /\ seen \subseteq Heights /\ Cardinality(seen) <= SeenLimit
    /\ chain \in Heights /\ synced \in Heights
    /\ pc \in {"sleep", "connect", "heights", "listen", "fetch", "finish", "after"}
    /\ target \in Nat /\ tries \in 0 .. Max({MaxAttempts - 1, MaxReconnects})
    /\ error \in {"none", "peers", "other"}
    /\ notified \in BOOLEAN /\ byBlock \in BOOLEAN
    /\ before \in Heights /\ stage \in 1 .. 3
    /\ faults \in 0 .. MaxFaults /\ lates \in 0 .. MaxLate

Init ==
    /\ app \in Apps
    /\ conn = [p \in Peers |-> "out"]
    /\ height = [p \in Peers |-> 0] /\ heard = [p \in Peers |-> 0]
    /\ stray = FALSE /\ banned = {}
    /\ liveTip = 0 /\ seen = {} /\ notified = FALSE
    /\ chain = 0 /\ synced = 0
    /\ pc = "sleep" /\ target = 0 /\ tries = 0 /\ error = "none"
    /\ byBlock = FALSE /\ before = 0 /\ stage = 1
    /\ faults = 0 /\ lates = 0

-----------------------------------------------------------------------------
(* The peer manager.                                                        *)

InPool(c) == {p \in Peers : c[p] # "out"}
HasListener(c) == \E p \in Peers : c[p] \in {"listening", "hung"}

\* A listener that is writing has taken the writer out, and get_ready_peers
\* passes over its peer.
Writing == {p \in Peers : conn[p] = "listening"}
Ready(busy) == InPool(conn) \ busy
Fault(f) == faults + f <= MaxFaults /\ faults' = faults + f
Late(l) == lates + l <= MaxLate /\ lates' = lates + l
Spend(f, l) == Fault(f) /\ Late(l)
Cost(S) == IF S = {} THEN 0 ELSE 1

\* start_all_block_listeners, on every connection that still has its reader.
Started(c) ==
    [p \in Peers |-> CASE c[p] = "fresh" -> "listening"
                       [] c[p] = "stale" -> "hung"
                       [] OTHER -> c[p]]

\* What the nodes in got say of their heights in the handshake: their own, or, those
\* of them that are confused now, one far off.
Handshake(p, has, off) == IF p \in off THEN FarHeight ELSE has[p]

\* What a dropped connection said goes with it.
Forget(S) == height' = [p \in Peers |-> IF p \in S THEN 0 ELSE height[p]]

\* connect_with_counter on the pool c, less the peers in busy, which it takes for
\* dead: enough peers are left alone, otherwise all candidates are tried until there
\* are MinPeers. ok says whether that made enough. Peers dropped while they listen
\* keep their listener.
Connect(c, busy, tip, listen, ok) ==
    LET kept == InPool(c) \ busy
        candidates == Peers \ (kept \cup banned)
    IN
    /\ stray' = (stray \/ busy # {})
    /\ IF Cardinality(kept) >= Threshold
       THEN /\ ok
            /\ conn' = LET left == [p \in Peers |-> IF p \in busy THEN "out" ELSE c[p]]
                       IN IF listen THEN Started(left) ELSE left
            /\ liveTip' = tip
            /\ Forget(Peers \ kept)
            /\ Spend(Cost(busy), 0)
            /\ heard' = heard
       ELSE \E got \in SUBSET candidates :
            LET now == [p \in Peers |-> IF p \in got THEN "fresh"
                                        ELSE IF p \in kept THEN c[p] ELSE "out"]
                full == got = candidates \/ Cardinality(InPool(now)) >= MinPeers
            IN
            /\ ok = (Cardinality(InPool(now)) >= Threshold)
            /\ Fault(Cost(busy) + (IF full THEN 0 ELSE 1))
            /\ conn' = IF ok /\ listen THEN Started(now) ELSE now
            /\ \E has \in [got -> Heights] : \E off \in SUBSET (got \cap Confused) :
                 /\ \A p \in got : has[p] \in heard[p] .. chain
                 /\ Late(IF \A p \in got : has[p] = chain THEN 0 ELSE 1)
                 /\ heard' = [p \in Peers |-> IF p \in got THEN has[p] ELSE heard[p]]
                 /\ height' = [p \in Peers |-> IF p \in got THEN Handshake(p, has, off)
                                               ELSE IF p \in kept THEN height[p] ELSE 0]
            /\ liveTip' = IF ok THEN Max({height'[p] : p \in InPool(now)}) ELSE tip

\* disconnect_all and connect, and start_all_block_listeners when that worked.
Reconnect(listen, ok) == Connect([p \in Peers |-> "out"], {}, 0, listen, ok)

\* The middle of the heights in order, the upper one of two.
Median(S) ==
    LET below(h) == Cardinality({p \in S : height[p] < h})
        upTo(h) == Cardinality({p \in S : height[p] <= h})
    IN CHOOSE h \in {height[p] : p \in S} :
         below(h) <= Cardinality(S) \div 2 /\ Cardinality(S) \div 2 < upTo(h)

Near(S, h) == {p \in S : height[p] \in (IF h > Agree THEN h - Agree ELSE 0) .. h + Agree}
Agreed(S, median) ==
    IF Cardinality(Near(S, median)) >= 2 /\ liveTip \in median + 1 .. median + LiveRange
    THEN liveTip ELSE median
Outliers(S, median, tip) ==
    IF Cardinality(Near(S, median)) < 2 THEN {} ELSE {p \in S : height[p] > tip + Outlier}

\* ban_peer and the removal from the pool, which drops the connection without
\* ending its listener.
Ban(S) ==
    /\ banned' = banned \cup S
    /\ conn' = [p \in Peers |-> IF p \in S THEN "out" ELSE conn[p]]
    /\ stray' = (stray \/ \E p \in S : conn[p] \in {"listening", "hung"})
    /\ Forget(S)

-----------------------------------------------------------------------------
(* Nodes and listeners.                                                     *)

Mine ==
    /\ chain < MaxChain
    /\ chain' = chain + 1
    /\ UNCHANGED <<pool, counting, loop, bounds>>

\* Connections break together when the network changes under the wallet.
Break(S) ==
    /\ S # {} /\ \A p \in S : conn[p] \in {"fresh", "listening"}
    /\ conn' = [p \in Peers |-> IF p \notin S THEN conn[p]
                                ELSE IF conn[p] = "fresh" THEN "stale" ELSE "hung"]
    /\ Spend(1, 0)
    /\ UNCHANGED <<height, heard, stray, banned, counting, chain, loop>>

\* A read fails, at the latest after LISTENER_READ_TIMEOUT.
ListenerEnds(p) ==
    /\ conn[p] = "hung"
    /\ conn' = [conn EXCEPT ![p] = "deaf"]
    /\ UNCHANGED <<height, heard, stray, banned, counting, chain, loop, bounds>>

\* An inv of a block: counted once for all peers, by its hash.
Count(b) ==
    IF b \in seen THEN UNCHANGED counting
    ELSE /\ seen' = IF Cardinality(seen) = SeenLimit THEN {b} ELSE seen \cup {b}
         /\ liveTip' = liveTip + 1
         /\ notified' = TRUE

Announce(p) ==
    /\ conn[p] = "listening" /\ heard[p] < chain
    /\ heard' = [heard EXCEPT ![p] = @ + 1]
    /\ Count(heard[p] + 1)
    /\ UNCHANGED <<conn, height, stray, banned, chain, loop, bounds>>

StrayAnnounces ==
    /\ stray /\ chain > 0 /\ chain \notin seen
    /\ Count(chain)
    /\ UNCHANGED <<pool, chain, loop, bounds>>

StrayEnds ==
    /\ stray /\ stray' = FALSE
    /\ UNCHANGED <<conn, height, heard, banned, counting, chain, loop, bounds>>

-----------------------------------------------------------------------------
(* One sync: sync_to_tip as far as it touches the pool.                     *)

Return(e) == pc' = "after" /\ error' = e

\* The timer or an announced block.
Wake ==
    /\ pc = "sleep"
    /\ pc' = "connect" /\ tries' = 0
    /\ byBlock' = notified /\ notified' = FALSE
    /\ before' = synced /\ stage' = 1
    /\ UNCHANGED <<pool, liveTip, seen, chain, app, synced, target, error, bounds>>

\* Step 3b: connect only when nobody is connected.
StepConnect ==
    /\ pc = "connect"
    /\ \E busy \in SUBSET Writing :
         IF Ready(busy) # {}
         THEN /\ pc' = "heights" /\ tries' = 0
              /\ Spend(Cost(busy), 0)
              /\ UNCHANGED <<pool, liveTip, error>>
         ELSE /\ \E ok \in BOOLEAN :
                   /\ Connect(conn, busy, liveTip, FALSE, ok)
                   /\ IF ok THEN pc' = "heights" /\ tries' = 0 /\ error' = error
                      ELSE IF tries + 1 < MaxAttempts
                      THEN pc' = pc /\ tries' = tries + 1 /\ error' = error
                      ELSE Return("other") /\ tries' = 0
              /\ UNCHANGED banned
    /\ UNCHANGED <<seen, notified, chain, app, synced, target, byBlock, before, stage>>

\* get_consensus_height. Its error for a single peer does not speak of peers.
StepHeights ==
    /\ pc = "heights"
    /\ \E busy \in SUBSET Writing :
         LET S == Ready(busy) IN
         /\ Spend(Cost(busy), 0)
         /\ IF Cardinality(S) < 2
            THEN /\ Return(IF S = {} THEN "peers" ELSE "other")
                 /\ UNCHANGED <<pool, target>>
            ELSE \E median \in {Median(S)} : \E tip \in {Agreed(S, median)} :
                 /\ target' = tip
                 /\ Ban(Outliers(S, median, tip)) /\ heard' = heard
                 /\ pc' = IF synced >= tip THEN "finish" ELSE "listen"
                 /\ error' = error
    /\ UNCHANGED <<counting, chain, app, synced, tries, byBlock, before, stage>>

\* Listeners are started; when none runs after that, the connections are replaced.
StepListen ==
    /\ pc = "listen"
    /\ IF HasListener(Started(conn)) \/ InPool(conn) = {}
       THEN /\ conn' = Started(conn)
            /\ IF InPool(conn) = {} THEN Return("peers") ELSE pc' = "fetch" /\ error' = error
            /\ UNCHANGED <<height, heard, stray, liveTip, bounds>>
       ELSE /\ \E ok \in BOOLEAN : Reconnect(TRUE, ok)
            /\ IF InPool(conn') = {} THEN Return("peers") ELSE pc' = "fetch" /\ error' = error
    /\ UNCHANGED <<banned, seen, notified, chain, app, synced, target, tries, byBlock, before, stage>>

\* The first peer that answers brings what its node has; when none can answer all
\* connections are replaced.
StepFetch ==
    /\ pc = "fetch"
    /\ \/ \E p \in Peers : \E has \in heard[p] .. chain :
            /\ conn[p] = "listening"
            /\ Spend(0, IF has = chain THEN 0 ELSE 1)
            /\ synced' = Max({synced, Min({target, has})})
            /\ pc' = "finish" /\ tries' = 0
            /\ UNCHANGED <<pool, liveTip, error>>
       \/ /\ \A p \in Peers : conn[p] # "listening"
          /\ synced' = synced
          /\ UNCHANGED banned
          /\ IF tries = MaxReconnects
             THEN /\ Return("peers") /\ tries' = 0
                  /\ UNCHANGED <<conn, height, heard, stray, liveTip, bounds>>
             ELSE \E ok \in BOOLEAN :
                    /\ Reconnect(TRUE, ok)
                    /\ IF ok THEN pc' = pc /\ tries' = tries + 1 /\ error' = error
                       ELSE Return("other") /\ tries' = 0
    /\ UNCHANGED <<seen, notified, chain, app, target, byBlock, before, stage>>

\* The end of sync_to_tip and of AsyncWallet::sync, which stores the height over
\* what was counted meanwhile.
StepFinish ==
    /\ pc = "finish"
    /\ conn' = IF HasListener(conn) THEN conn ELSE Started(conn)
    /\ liveTip' = synced
    /\ Return("none")
    /\ UNCHANGED <<height, heard, stray, banned, seen, notified, chain, app, synced, target, tries,
                   byBlock, before, stage, bounds>>

-----------------------------------------------------------------------------
(* The loops around it.                                                     *)

\* handle_sync of the desktop: an error that speaks of peers replaces them.
Recover ==
    /\ pc = "after" /\ app = "desktop" /\ error = "peers"
    /\ \E ok \in BOOLEAN : Reconnect(FALSE, ok)
    /\ error' = "other"
    /\ UNCHANGED <<banned, seen, notified, chain, app, synced, pc, target, tries, byBlock, before, stage>>

Handled == pc = "after" /\ ~(app = "desktop" /\ error = "peers")
NoProgress == byBlock /\ synced <= before

\* Variant: once more over the same connections, and no further.
AgainOnly ==
    /\ Handled /\ NoProgress /\ stage < 3
    /\ stage' = 3 /\ pc' = "connect" /\ tries' = 0
    /\ UNCHANGED <<pool, counting, chain, app, synced, target, error, byBlock, before, bounds>>

\* Variant: again over new connections until there is a header.
AgainWithoutEnd ==
    /\ Handled /\ NoProgress
    /\ stage' = stage + 1 /\ pc' = "connect" /\ tries' = 0
    /\ \E ok \in BOOLEAN : Reconnect(FALSE, ok)
    /\ UNCHANGED <<banned, seen, notified, chain, app, synced, target, error, byBlock, before>>

\* An announced block that brought no header: once more, then over new
\* connections.
Again ==
    /\ Handled /\ NoProgress /\ stage < 3
    /\ stage' = stage + 1 /\ pc' = "connect" /\ tries' = 0
    /\ IF stage = 1 THEN UNCHANGED <<conn, height, heard, stray, liveTip, bounds>>
       ELSE \E ok \in BOOLEAN : Reconnect(FALSE, ok)
    /\ UNCHANGED <<banned, seen, notified, chain, app, synced, target, error, byBlock, before>>

\* The desktop starts listeners where there is none; a connection without reader
\* stays without.
Rest ==
    /\ Handled /\ (NoProgress => stage = 3)
    /\ pc' = "sleep" /\ stage' = 1 /\ byBlock' = FALSE /\ before' = 0 /\ target' = 0
    /\ error' = "none"
    /\ conn' = IF app = "desktop" /\ ~HasListener(conn) THEN Started(conn) ELSE conn
    /\ UNCHANGED <<height, heard, stray, banned, counting, chain, app, synced, tries, bounds>>

\* Variant: the listeners are started again over the connections there are.
HealthCheckRestarts ==
    /\ pc = "sleep" /\ app = "desktop"
    /\ InPool(conn) # {} /\ ~HasListener(conn)
    /\ conn' = Started(conn) /\ conn' # conn
    /\ UNCHANGED <<height, heard, stray, banned, counting, chain, loop, bounds>>

\* The listener health check of the desktop, every 30 seconds.
HealthCheck ==
    /\ pc = "sleep" /\ app = "desktop"
    /\ InPool(conn) # {} /\ ~HasListener(conn)
    /\ \E ok \in BOOLEAN : Reconnect(TRUE, ok)
    /\ UNCHANGED <<banned, seen, notified, chain, loop>>

\* The user of a mobile application drops a peer, or lifts a ban.
DisconnectPeer(p) ==
    /\ pc = "sleep" /\ app = "service" /\ conn[p] # "out"
    /\ conn' = [conn EXCEPT ![p] = "out"]
    /\ stray' = (stray \/ conn[p] \in {"listening", "hung"})
    /\ Forget({p})
    /\ Spend(1, 0)
    /\ UNCHANGED <<heard, banned, counting, chain, loop>>

UnbanPeer(p) ==
    /\ pc = "sleep" /\ app = "service" /\ p \in banned
    /\ banned' = banned \ {p}
    /\ Spend(1, 0)
    /\ UNCHANGED <<conn, height, heard, stray, counting, chain, loop>>

LoopStep ==
    \/ Wake \/ StepConnect \/ StepHeights \/ StepListen \/ StepFetch \/ StepFinish
    \/ Recover \/ Again \/ Rest

Next ==
    \/ LoopStep \/ HealthCheck \/ Mine \/ StrayAnnounces \/ StrayEnds
    \/ \E S \in SUBSET Peers : Break(S)
    \/ \E p \in Peers :
         \/ ListenerEnds(p) \/ Announce(p) \/ DisconnectPeer(p) \/ UnbanPeer(p)

Spec == Init /\ [][Next]_vars

\* The timers of the loops run for ever; the health check comes round between
\* syncs though each of them takes its place for a while; reads fail by their
\* timeout, and nodes announce their blocks.
FairSpec ==
    /\ Spec
    /\ WF_vars(LoopStep) /\ SF_vars(HealthCheck)
    /\ \A p \in Peers : WF_vars(ListenerEnds(p)) /\ WF_vars(Announce(p))

-----------------------------------------------------------------------------
(* Properties.                                                              *)

\* On the desktop a pool all of whose listeners have ended gets new connections:
\* otherwise no block or transaction is ever heard of again.
ListenersReturn ==
    (app = "desktop" /\ InPool(conn) # {} /\ ~HasListener(conn)) ~> HasListener(conn)

\* An announced block brings the header store further, though the sync it comes in
\* may store its height over the count of it and though the nodes asked first may lag
\* behind it: the loop's retries end with a new header, unless after the block was
\* announced one more connection fails or is busy or dropped, one more node lags or
\* the pool is left with one peer. Peers may be deaf, cut off or confused before.
\* Not that the store reaches the block: one whose count was overwritten is not
\* counted again.
Troubles == faults + lates
AnnouncedBlocksBringProgress ==
    \A s \in 0 .. MaxChain - 1, k \in 0 .. MaxFaults + MaxLate :
        (notified /\ synced = s /\ s < chain /\ Troubles = k)
        ~> (synced > s \/ Troubles > k \/ Cardinality(InPool(conn)) < 2)
=============================================================================
