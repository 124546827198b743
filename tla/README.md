# ZipherX: a TLA+ model of the wallet core

ZipherX is a light wallet for Zclassic written in Rust. It talks to full nodes
over the peer-to-peer protocol, keeps headers, shielded outputs, a commitment
tree and notes on disk, and builds and broadcasts shielded transactions. This
directory models the part of it where several tasks, several stores and an
unreliable network meet. The code is the reference: every definition of a module
translates lines named in `PROJECT.json` (`map`).

## 1. Inventory

| component | state | operations | hard behaviour | what makes it correct |
|---|---|---|---|---|
| message dispatcher (`zipherx-network/src/dispatcher.rs`) | queues of one-shot senders by command, batch collectors, broadcast handlers, `active` | register (4 kinds), dispatch, cancel_all | answers carry no request id; receivers are dropped at any time; two tasks share it | no receiver waits whose sender is in no table |
| peer connection (`peer.rs`) | reader owned by the listener task, writer behind a mutex and taken out for a write, cancellation token, `PeerState`, rate limit | start and stop listener, send_and_wait, disconnect | the listener ends between any two steps of a call; timeouts race late answers; writes fail | nobody stranded, own answers, the writer survives, stop means stop |
| peer manager (`peer_manager.rs`) | pool, bans, parked peers, live tip and the blocks already counted | connect, disconnect_all, start_all_block_listeners, consensus height, bans | a listener that ends leaves a connection that looks alive; a connect takes a busy writer for a dead peer | an announced block brings the wallet further; listeners come back |
| broadcast (`broadcast_transaction`, `broadcast.rs`) | receivers of the call, handlers left by earlier ones | register, send, wait for a reject | silence means acceptance, and a deaf peer is silent too; a reject goes to any handler | a broadcast returns, and what it counts are the peers' own answers |
| loops of the applications (`zipherx-gui/src/sync.rs`, `start_sync` of `zipherx-ffi`) | where the loop is, what the last sync returned | background sync, retry, reconnection, health check of the listeners | each covers other failures of the pool | the desktop gets its listeners back |
| boost download (`boost_download.rs`, Steps 1 to 3 of `async_sync.rs`) | manifest, parts, compressed and unpacked snapshot, flags in the database | check for a release, attempts, parts that resume, unpack, load | files are known by existence and size; detached tasks write beside the next attempt | a snapshot is its manifest's; the latest one arrives |
| header sync and header store (`header_sync.rs`, `header_store_impl.rs`) | rows of headers and roots; headers verified and not yet stored, peer order, failed peers | one sync: request, verify, cut, fail over, reconnect, flush | peers on different branches answer one after another; what a cut is counted from may exist only in memory | rows are linked; deep headers stay; a sync ends; a fork is followed |
| block fetch (`async_block_fetch.rs`, pages of `post_boost_full_block_scan`) | pages, retries, rounds, cursor, handlers for "block" | a page in calls, a call in rounds, reconnect after empty calls | handlers do not say which block they wait for; late blocks meet later handlers | every block is scanned or counted as unfetched |
| sync pipeline (`async_sync.rs`) | sync_state row, delta store, global tree | Steps 1 to 9 and the checks after them | a stop between any two database calls, holes, repairs under a running sync | the tree has the root of the chain; spends stay known |
| delta store (`delta_cmu.rs`) | a file of records, a file of nullifiers, a manifest | append with and without dedup, paged reads, dedup | files written one after another | what the manifest covers is there once |
| commitment tree (`zipherx-crypto/src/tree.rs`) | one global tree with its witnesses | append, witness, serialize | shared by sync, rebuild and send | a stored anchor is a root of the chain |
| notes and history (`database.rs`) | `notes`, `transaction_history` | reserve, record, mark spent, confirm, recover, correct | each call its own transaction; two sources of truth | no note is spent twice or lost |
| send flow (`async_send.rs`) | selected notes | select, build, broadcast, mark, record | the process stops after the broadcast | what is reserved is recorded |
| guards (`sync.rs`, `async_wallet.rs`) | four atomic flags and the mutex of the peer manager | sync, background sync, send, repair, stop | flags checked one by one; tasks aborted | one at a time; the flags of syncs and sends never stay up |
| foreign function interface (`zipherx-ffi`), desktop, mobile | the sync task handle | start_sync, stop_sync, full rescan | aborts in the middle of a sync | through the guards |
| mempool monitor, prover, Tor, key chain | small | periodic | | see section 7 |
| automatic recovery, tree repair, health checks, peer watchdog | | | | no application calls them |

How they interact. A call of the application takes the mutex of the peer manager
(`AsyncWallet::sync`, `send`), then sets its flag in `SyncGuards`. A sync asks
peers through `Peer::send_and_wait`, which registers a handler in that peer's
dispatcher and writes to the shared writer; the listener task of the peer reads
messages, feeds the dispatcher and answers pings through the same writer. What
arrives goes to the header store and the delta store, from there into the global
tree, and what the scanner finds goes to the notes. A send reads notes and their
witnesses, hands the transaction to every ready peer, takes silence for
acceptance, and writes the notes and the history.

The hazards are listed in `PROJECT.json` at their lines, each with the properties
that watch it or the reason why none does yet.

## 2. Plan

1. `Dispatcher`, the tables alone, as operators over its variables; `PeerLink`,
   which extends it with the tasks around it. *Done.*
2. `NoteVault`, what the owner of a note may rely on, and `NoteLedger`, the
   tables, the send flow and the sync that implement it. *Done.* Next there: the
   repairs, which delete notes and history, and transparent coins.
3. `SyncGuards`, flags and mutex. *Done.*
4. `WitnessTree`, the delta store, tree and witnesses through a sync, with the
   boost scan, repairs and rescans. *Done.* Next there: the nullifier
   file, blocking closures that outlive the abort of their task.
5. `Broadcast`, one transaction after another to all ready peers. *Done.*
6. `HeaderSync`: locators, forks, cuts and fail-overs over the rows of headers.
   *Done.* Next there: the `sapling_roots` rows, which survive a cut, and an
   abstract specification (a chain that grows or drops at most `Depth` a sync).
7. `PeerPool`: connect, ban, consensus height, live tip, and the loops of the
   applications. *Done.* Next there: parked peers and discovered addresses.
8. `BlockFetch`: pages, calls, rounds, cursor and retries. `BlockScan`
   is what it promises to `WitnessTree` and `NoteLedger`, which are built on it: any
   subset of the blocks may be received. *Done.*
9. `BoostDownload`: snapshot files through attempts, releases and stops. *Done.*
10. Algorithms against reference definitions over bounded inputs: the paged read
   of the delta store (`load_cmus_for_range_paged` and its callers), gap
   detection, the range of a delta download.
11. Proofs: every type invariant, safety invariant, action property and refinement
   that a run checks is proved. *Done*, with the safety cores of the liveness
   properties. Left: one for `RewindHeals`, where what the append loop adds depends on a sum
   over the store, a fold the prover cannot compute.

## 3. Modules

**`Dispatcher`** has one variable per field of the struct (`pending`, `batches`,
`broadcastHandlers`, `active`) and `waiting`, the receivers not yet resolved.
Payloads are model values. `RegisterHandler`, `RegisterBatch`,
`RegisterBroadcast`, `Dispatched` and `NotDispatched` (dispatch returns true or
false), `Activate` and `Deactivate` (cancel_all and set_active) are the methods.

**`PeerLink`** adds the listener (`spawned`, `reading`, `replying`, `writing`,
`exiting`, `exited`), the writer's whereabouts, the state of each call, and the
wire in both directions. Every `.await` of the code is a boundary between two
actions. A message is identified by the call it answers, so that a property can
say whose answer a request got, which the code itself cannot see.

**`NoteVault`** is the abstract specification: a note is available, reserved or
spent; `Reserve`, `Release` and `Confirm` move sets of notes.

**`NoteLedger`** has the columns of `notes` and `transaction_history` that decide
about spending, the chain, the clock and the position of the sync. Each database
call of the send flow is an action; `Stop` is a process stop or an error, which
forgets what is in memory. A sync finds spends in two ways. `DeltaScan` goes over all the
store has (`post_boost_delta_scan`) and gives every note it recognises its height, reserved or
not (`MarkSpent`). `FullScan` and `PendingScan` fetch blocks the store lacks
(`post_boost_full_block_scan`, `scan_blocks_for_pending_txs`), put them there and look up
unspent notes only (`CrossReference`), as do the lookups after corrected nullifiers
(`Recheck`). `stored`, `scanned` and `read` are the blocks in the store, those a whole delta
scan has passed and those any scan has passed. Which blocks Step 5 and the fetches bring is
open, and each scan may stop on the way. A shielded send has two outputs or more
(`MIN_SHIELDED_OUTPUTS` of the builder), so that its block is in the store with outputs and
`reconstruct_compact_blocks`, which goes by outputs, does not leave it out. Rows made by a
scan have no time of broadcast and recovery passes over them (`database.rs:613`). `WithChange` are
the sends with an output to the wallet, whose received row gives the sent row its height.
`Misplaced` notes were stored with a nullifier of a
wrong position, as the code expects when a witness was not yet known.
`Vault == INSTANCE NoteVault` with the status of a note computed from its row is
the refinement mapping.

**`SyncGuards`** has the flags, the mutex as its holder and the line of waiters in
order (tokio's mutex is fair), and the position of each task. `Leave` gives the
mutex up and is a step after the flag came down. `Abort` is `stop_sync` on a
sync wherever it is. Repairs take no mutex, and their flag has no guard object:
`EndRepair` takes it down, `DropRepair` is the future dropped at its only `.await`
(`start_sync` repairs between two syncs and `stop_sync` aborts it) or the `?` on a
`JoinError`, and leaves the flag up.

**`WitnessTree`** follows one sync after another from the delta download to the
check of the balance. A tree is the sequence of the blocks whose outputs were
appended, so that an output left out, doubled or out of order is a different
tree; its root is on the chain iff it is `Chain(h)` for some height of the
headers. The store is a bag of records. Each place where the code commits
something to disk ends an action, and `Stop` may happen between any two; the
global tree `mem` survives an aborted task and not a process stop.

Besides the delta store it has what a rescan touches: `BoostScan` empties notes,
history and positions when there is no tree, `InsertBoostNotes` stores the notes
found in the snapshot and `SaveBoostTree` its tree, a stop between any two;
`FullRescanReset` is the rescan of an application that has stopped its sync.

**`HeaderSync`** is `sync_headers_simple` with its locals (`cur`, `pending`,
`lastKnown`, `ranked`, `failed`, `retried`, `reconnects`) over `stored`, the rows
of `block_headers`. A block is its height and the branch of a block tree, and
stands for its hash, so a row can hold the block of another height, which is
what the code allows and one property is about. Each turn of `'sync_loop` is one
action: `PeerFails` (no answer, or a header that fails its own checks: time,
bits, Equihash), `NothingMore`, `CutBack`, `RejectPeer`, `AcceptBatch`, and once
every peer has failed `Reconnect` or `GiveUp`. Remote nodes answer as a node does:
what follows the locator on their chain, or what follows the genesis block. The
consensus height is any height between those of the peers, or a little above
(announcements count up the live tip). The `sapling_roots` rows and the attempt
with reversed hashes are left out.

**`PeerPool`** has the pool as a connection state per peer (listening, deaf: its
listener ended and took the reader with it, hung: silent, and so on), `stray`
listeners of connections dropped while they still run, the live tip with the set
of counted blocks, and one loop around it: the desktop's (wake, sync, retry,
health check of the listeners) or the service's (`start_sync`). A sync is its
steps as they use the pool: `StepConnect`, `StepHeights` (median, agreement, bans),
`StepListen`, `StepFetch` with its reconnects, `StepFinish`, which stores the
synced height over the live tip. What it does with headers is `HeaderSync`'s.

**`BoostDownload`** has the files of a download directory and the database flags,
each a release or a mark for what it can be instead: cut, small, garbled, mixed of
two releases. Releases appear at any time. A part's task has the release it asks
for and the position it goes on from; `strays` are the tasks of earlier attempts,
which nobody aborts when another part fails, and which write on; two of them can be
alike, so they are a bag.

**`BlockFetch`** is the block scan of a sync: `NextPage`, `BeginCall`, `BeginRound`,
`EndRound`, `EndRounds`, then `Received`, `ReceivedNothing`, `Reconnect` or
`EndPage`. `order` is the place each peer has in the map, and `Shares` what a round asks
of each. Handlers for "block" are a number per peer, the stale ones first, since a
node's blocks resolve them in the order they come. `wire` is what a node was asked for
and has not sent; `owing` names the peers that owed blocks of an earlier round when
the present one began; `smooth` is a history variable, true in a call in which nothing
has failed yet. All connections listen at first, because a check before the
scan replaces them if none does. `Scan == INSTANCE BlockScan` with the outcome
computed from `pc` is its refinement mapping.

**`BlockScan`** is the abstract specification: each block is
handed on or given up once, never a page beyond the first that is
neither, and a scan is done when none is left. Which are given up is open.

**`Broadcast`** is `broadcast_transaction` over all ready peers and what
`async_send.rs` makes of its result. Peers are numbered in the order of the map.
`rx` is the receiver of the call at each peer, `leftover` the handlers of earlier
broadcasts, whose receivers are gone; a reject goes to any of them (`Hears`). Nodes
take a transaction, refuse it or have it already, and tell each other about it. The
history variables `mixed` and `late` say at which peers an answer could not be told
from another one or came after the wait.

`MC...` modules give the instances, `..._proofs` modules the proofs. Definitions
marked *Variant* above the definition they resemble are what a plausible mistake
in the code would make of it; each property is broken by one of them.

## 4. Runs

| run | shows | instance and size |
|---|---|---|
| `dispatcher` | `SenderInOneSlot`: a waiting receiver's sender is in exactly one table | 3 receivers, 2 commands, 2 transactions, batches of up to 2; 9 864 states |
| `link_requests` | `NoStrandedRequest`, `OwnReplyUnlessSpoiled`, `WriterNeverLeaks`, liveness `StopSilencesListener` | 2 requests for one command, 1 broadcast, 1 unasked message, 1 allowed per minute; a write may never end; 934 821 states |
| `broadcast` | `AnswersAreOwn`: what is counted as acceptance or refusal is that peer's, unless the peer is deaf, late or has old handlers; liveness `BroadcastReturns` | 2 peers, 2 conflicting transactions, 2 faults; 135 078 states |
| `ledger` | `ScannedSpendsStaySpent`, `RecoverySparesMined`, `ImplementsVault`, liveness `NotesAreNotHeldForever` | 2 notes (1 misplaced), 2 sends (1 with change), 1 block, 1 lapse, 1 stop or failed scan; 812 107 states |
| `guards` | `OneAtATime`, `FlagsAreHeld`, `NobodyIsTurnedAway`, liveness `CallsReturn` | a sync, a background sync, 2 sends, 2 threads that repair and the sync task's own repair; 1 429 states |
| `tree` | `VerifiedHasRoot`, `TreeHasBoostNotes`, liveness `RewindHeals`, `CompleteStoreServes` | 4 blocks, 3 of them with outputs, the note in the second; 143 322 states |
| `tree_anchors` | *violation*: a rebuilt witness is stored with an anchor the chain never had | as above |
| `headers` | `Linked`, `DeepHeadersStay`, liveness `SyncEnds`, `ReorgIsFollowed` | 2 peers, 2 branches, heights to 11, 2 new blocks, 2 faults; 51 155 states |
| `headers_gap` | *violation*: after a fail-over with pending headers the chain goes on from block 1 in the wrong rows | boost headers 5 to 8 |
| `pool` | liveness `ListenersReturn`, `AnnouncedBlocksBringProgress` | 3 peers, one of which may report a height far off, both loops, 1 block, 1 fault, 2 lagging answers; 217 980 states |
| `boost` | `SnapshotIsTheManifests`, liveness `SnapshotArrives` | 2 releases, 2 parts of 2 chunks, 2 attempts, 2 faults; 364 889 states |
| `fetch` | `SmoothCallsGetAll`, `ImplementsScan`, `PunctualBlocksAreTaken`, liveness `ScanEndsUnlessDeaf` | 3 peers, 5 blocks in pages of 4, 1 block per peer and round, 2 faults; 436 026 states |

Every module's `TypeOK` (`GuardsTypeOK` in `SyncGuards`) is an invariant of its run;
`DispatcherTypeOK` is part of `PeerLink`'s.

Why the bounds are enough. Two requests for the same command are the least that
can take each other's answers, and a third call brings the broadcast handlers in.
Two notes and two sends give a transaction that spends both, one of which the
scan cannot recognise, and two transactions that fight over a note; one stop
suffices because after it the sync starts from the tables alone, and a lapse lets a send
expire while the other has just been made. One block is enough for a scan to find it in the
store, to fetch it or to miss it, and for the next sync to find it otherwise. In `WitnessTree`
a hole must lie before the note (block 1), a block without output between outputs
(block 3) and an output after the note (block 4), so that a witness goes stale;
stops are bounded only through the copies of a record (`MaxCopies`). In
`HeaderSync` the fork lies deeper below the last header than one cut of 2 reaches,
so that following it takes two syncs; an answer (3) is longer than a cut, as 160
is longer than 100; 5 pending headers are flushed, so that a batch may be pending,
flushed or both when a peer fails; two faults give a peer's failure and an abort or
the exhaustion of both peers twice. The store is the boost file's headers, or empty
when its download failed. In `Broadcast` the second transaction meets the handlers
the first one left, and the two spend the same notes, so that a node that has one
refuses the other; two peers are an acceptance beside a refusal. In `PeerPool` three
peers are a deaf or lost one beside two; two lagging answers (`MaxLate`) leave the retries of
the loop one after the other without the block, and a fault makes a connection deaf, refuses
one or finds one busy. With two faults and one lagging answer (667 192 states), and with two
blocks and one lagging answer but no fault (146 354 states), the properties hold as well.
`BoostDownload` needs two releases for parts and manifests to be
mixed, and two chunks for a part to be resumed. `BlockFetch` needs a round with holes
(three peers), a page that takes a call more than one round, and a second page.
Symmetry is used for receivers and transactions, in runs without liveness
only.

The findings (`PROJECT.json`, with quotes) are the violation runs. Others met
while modelling, which need no run to see:

* "Record in DB atomically" (`async_send.rs:296`): the notes are marked one by one
  before the history row is written, and a stop in between reserves notes that
  nothing gives back (in `NoteLedger`: `Stop` between `MarkSelected` and
  `RecordSent`).
* The comment at `async_sync.rs:2631` calls 20 blocks the expiry of a transaction,
  which the builder sets to 40, and the recovery counts minutes, not blocks.
* "Never advance cursor past unfetched blocks" (FIX #1218), and `cursor = round_end`
  in `async_block_fetch.rs`. A late block that is asked for again can be twice in one
  result, and the delta sync appends without removing duplicates.
* The blocks of a node that was late take the handlers of later rounds, whose own blocks
  then come too late themselves. With a quota of two or more blocks this can go
  on through calls that nothing else disturbs and use up the retries, so that one fault
  more loses a block. Hence `SmoothCallsGetAll` speaks of calls that begin with no block on its way.
* A scan need not end while one deaf peer comes before listening ones in the map: it
  gets the last block of a page again and again, the reconnect does nothing as long
  as any listener runs, and takes the count of the retries back
  (`async_sync.rs:4704`). `ScanEndsUnlessDeaf` excepts it.
* A connection whose listener has ended cannot be listened to again: its reader is
  gone, while `async_sync.rs:2692` and the service's loop only start listeners.
* A peer whose listener has ended is picked for a broadcast, its dispatcher takes the
  handler, and its silence counts as acceptance (`peer_manager.rs:1091`): a
  transaction that reached nobody can count as sent. `AnswersAreOwn` excepts it.
* A silent acceptance leaves its handler behind, and a reject goes to the first handler
  found (`dispatcher.rs:245`; the comment there expects one broadcast at a time): with
  every accepted transaction it becomes less likely that a refusal reaches the
  broadcast it is about, and a refused transaction then counts as sent and its notes
  as spent until the recovery. `AnswersAreOwn` excepts peers with such handlers.
* "Retry on 0/4 accept: reconnect peers, wait 0.5s, retry once" (`broadcast.rs:9`): the
  retry has no caller.
* A snapshot that was cut off while it was unpacked, by a full disk or a stop, counts as
  downloaded when it has more than 100 MB (`boost_download.rs:627`), and "integrity
  verified during download" (`boost_download.rs:1100`) is not verified again: loading it
  fails in every sync until a newer release replaces it. A manifest that does not parse
  (`boost_download.rs:687`) stops updates for good. `SnapshotArrives` excepts both
  (`Stuck`).
* The transparent snapshot is marked as applied when its tag or manifest cannot be
  fetched (`async_sync.rs:476`). The transparent scan ignores blocks that are missing, and
  its position is stored even when it failed.
* An attempt that fails leaves a small snapshot, so that "Falling back to P2P header
  sync" is only reached when none was ever begun.
* A pool of one connected peer is not complemented (`async_sync.rs:505`).
* The repair keeps the notes (`async_wallet.rs:672`: "notes preserved"), and the boost
  scan of the next sync deletes all notes and history, with the reservations of sends
  not mined yet.
* `spawn_blocking` closures outlive the abort of their sync: one that saves a tree may do
  so after `full_rescan_reset` has emptied the tables.
* A spend by another transaction than the recorded one keeps the recorded id and takes
  the other's height (`database.rs:395`): the recorded one then counts as confirmed.
* After a stop between the correction of a nullifier and the lookup of the blocks
  (`async_sync.rs:2460`) the spend of that note is not found again.
* `full_rescan` promises that the next sync rebuilds the tree and the witnesses,
  which waits until there are new blocks when the last scanned block is the tip.
* "Falling back to P2P header sync" (`async_sync.rs:323`) with an empty table starts
  at height 0, while the answer to a zero locator starts with block 1
  (`constants.rs:88`): the headers land one row too low, and the first checkpoint
  refuses every peer. `HeaderSync` has these behaviours (`InitialStores`).
* A cut leaves the rows of `sapling_roots`, which are only ever inserted when
  absent: the root of an orphaned block stays.
* "inv MSG_BLOCK bumps are never overwritten by a sync that completed before"
  (`peer_manager.rs:705`) holds for the call at the end of `sync_to_tip`
  (`async_sync.rs:2690`), while `async_wallet.rs:220` stores the synced height over them.
  The hash of the block stays among those counted, so that other peers' announcements of it
  do not count it again. The retries of the loop get it when connections are replaced and
  the peers' new handshakes name it; otherwise the next announced block is counted from
  too low a height and brings the store further, not up to the tip, which it reaches when
  the connections are next replaced. `AnnouncedBlocksBringProgress` promises progress only.
* "Whether database repair is in progress" (`sync.rs:145`): the flag of a repair
  can stay up with no repair at work. `repair_database` and `full_rescan` return with `?` on
  a `JoinError` before they take it down (`async_wallet.rs:642`, `683`), and a `start_sync`
  that is stopped while it repairs (`zipherx-ffi/src/lib.rs:1198`, `1386`) is dropped at that
  await (in `SyncGuards`: `DropRepair`). Until a restart every repair and rescan is then
  refused with `RepairInProgress`, every send at `async_send.rs:115`, and background syncs are
  skipped. `FlagsAreHeld` speaks of the flags of syncs and sends, and of a repair only that
  its flag is up while it works. A release build aborts on a panic, so that there it is the
  stopped `start_sync` that leaves the flag up.
* "TX was mined — don't recover" (`database.rs:588`) holds for what the history knows. The
  scans of fetched blocks look up unspent notes only (`async_sync.rs:5015`, `5941`), and a
  note a send has reserved is spent in that sense. A send without change in a block that only
  they have passed has no height, and when it is older than 25 minutes the same sync gives
  its notes back; the delta scan of the next sync marks them as spent, unless a stop came
  between the outputs and the nullifiers of that chunk (`async_sync.rs:4778`, `4995`) and the block is
  taken for stored. `RecoverySparesMined` and `ScannedSpendsStaySpent` leave such blocks out.
  Stated for all blocks read, TLC refutes the former after 13 steps.
* A stop waits three seconds for the listener and then drops its handle (`peer.rs:274`), which
  does not end a task. A listener that writes an answer to a remote that reads no
  more stays in `write_all` (`peer.rs:316`, `398`): no timeout is on it and the cancellation is
  not looked at there (`peer.rs:739`). `StopSilencesListener` excepts it.

## 5. Fairness

`PeerLink`: the listener and a cancelled call go on (tasks are polled), but a write that
was begun need not end, since nothing bounds it; the remote need not send. `NoteLedger`: the monitoring loop keeps calling sync, which goes
on (a fetch scan ends because its waits have timeouts), a send in
progress ends, time passes; blocks and sends need not come. `SyncGuards`: tasks
that run go on, because every wait on the network has a timeout, and the mutex is
handed on; calls, aborts and repairs need not come. `WitnessTree`: the sync goes on
and is called again. There the network is the problem, and its healing is stated
from the moment (`calm`) when blocks are served and nothing stops or repairs any
more; no fairness makes that moment come, and every state can be one. `HeaderSync`: a
turn of the loop ends, because a request has a timeout of 15 seconds, and the
application syncs again; failures, aborts and new blocks need not come, and are
bounded, which `ReorgIsFollowed` states from the moment the peers agree for good.
`PeerPool`: the loop goes on (weak fairness), the desktop's health check comes round
although syncs take its place again and again (strong), a listener whose read failed
ends and nodes announce their blocks; blocks, faults and users need not come.
`BlockFetch`: the scan goes on, because its waits have timeouts, and a node that has a
block sends it in the end, however late. `BoostDownload`: steps return and syncs are
repeated; releases need not come. `Broadcast`: the call goes on, because a wait takes two
seconds, and listeners and nodes read what they get; nobody need answer.

## 6. Proofs

All by TLAPS, for every value of the constants under the assumptions the modules
name (`NoTxAssumption`, `CallsAssumption`, `HeightsAssumption` and so on, each
evaluated by TLC in the runs).

* `PeerLink_proofs`, first the tables alone. `DispatcherTypeCorrect`, and
  `EveryWaiterHasOneSender`: `SenderInOneSlot` counts the places a sender has in queues,
  batches and handlers (`Slots`), and `Placed` adds that a channel not yet used has
  none. Each operation has a lemma that says where it leaves the senders, and the
  lemmas serve `PeerLink` as well.
* Then the connection: `TypeCorrect` (the rate limit is its only part that is not a
  type) and `NobodyIsStranded`. `NoStrandedRequest` is inductive beside `TypeOK`: a
  request that waits has its receiver in a table of an active dispatcher, or has been
  resolved. `RegisterHandlerQueues`, `DispatchKeepsWaiting` and `DeactivateEndsWaiting`
  say what each operation does to a receiver that waits.
* `PeerLink_proofs!WriterIsKept`: on a connection where no call was aborted, the writer is in
  its slot or with exactly the one, call or listener, that took it (`Accounted`).
* `PeerLink_proofs!AnswersBelongToRequests`. The dispatcher pairs by command and order, so
  the invariant speaks of all places an answer can be at once: as long as nothing
  spoiled a command (`Clean`), its questions and answers on the wire in both
  directions are at most one, that of the open request (`Traffic`).
  It rests on the wallet's calls coming one after the other (`OneCall`), on queues
  holding senders of their own command only (`QueuesFit`), and on a call that ended
  having no receiver left (`WaitsInCall`, `Returned`).
* `PeerLink_proofs!SilenceIsKept`: an exited listener leaves a dispatcher that is inactive
  with nothing pending (`Silent`), and neither comes back. It needs that listener and
  dispatcher go together (`InStep`) and that who disconnects has cancelled (`Parting`).
* `NoteLedger_proofs!SpendsStayKnown`: the spends of a whole delta scan stay known.
  `RecoveryIsSafe`: recovery gives back no note of a transaction mined in such a block with
  an input that can be recognised, nor of one with change in a block any scan has passed.
  `LedgerImplementsVault`: the tables implement the vault.
  The properties are not inductive. `Inv` adds `ChainInv` (heights are at most the
  tip, only built transactions are mined), `SendInv` (a send excludes a sync; what
  it has not marked is free and what it has marked is its own) and `LedgerInv`
  (from Step 9 to recovery a height in the notes has reached the history row, and
  an unconfirmed reservation covers a whole transaction). `LedgerInv` is why
  recovery must come after the confirmations. Every scan, whole or stopped, of the store
  or of fetched blocks, is one case (`EveryScan`, `ScanKeepsInv`); `ScansKnow` is where the
  whole delta scan differs from the others, and `ReadIsReceived` where change helps.
* `NoteLedger_proofs!OnlyStopsStrand`: a reserved note is an input of the transaction that
  holds it (`Owned`). Recovery goes by the history, so that a note held by a transaction
  that is neither in it nor being sent (`Stranded`) is lost to it: such notes come from
  sends a stop ended, and from nothing else.
* `SyncLoops_proofs`, first the guards. `GuardsTypeCorrect`, `Exclusion`, `NoFlagLeaks`,
  `NobodyIsRefused`, together inductive: whoever works holds the mutex, the flags of
  syncs and sends are up exactly while one works, and a repair at work has its flag up, for
  any number of tasks. `NobodyIsForgotten`: the line of the
  mutex holds those who wait, each once. From it, `CallsComeNearer`: no step, whoever
  takes it, puts a task back, and each of its own brings it on.
* Then the loops over the pool: `PoolTypeCorrect`; `TargetStaysNear`, that no sync is sent
  further than `LiveRange` beyond the chain while confused peers are outvoted among those
  asked: too many of the others are below a height that is too high for it to be their
  median; `LoopIsBounded`, a bound on the steps between waking and sleeping.

* `HeaderSync_proofs`: `TypeCorrect`, `StoredHeadersAreLinked`,
  `SyncSparesDeepHeaders`, for any block tree, peers, answers and limits. `Linked`
  is not inductive: `Inv` adds, while a sync runs, that the stored rows overlaid
  with the pending ones are linked (`LinkedRows(Overlay(pending))`), that both lie
  below the current height (`BelowCur`), and that the next request names the last
  of them (`LocatorIsLast`); a batch that continues the locator then extends the
  chain, and a cut starts again from stored rows alone. `DeepHeadersStay` needs
  `Shallow`: one cut per sync, and none before it below the start. It assumes that
  headers sit at their heights, since the table's unique hash takes a block out of
  a deep row when it is stored again elsewhere, which `headers_gap` shows the code
  does not exclude.
* `HeaderSync_proofs!SyncIsBounded`: the work left of a sync, counted in heights, peers not
  failed yet, retries and reconnects, is bounded at its start and less after each of
  its steps. It assumes that there are finitely many peers.
* `HeaderSync_proofs!OnlyBlindRequestsMisplace`: what `headers_gap` shows needs a request
  with the zero hash (`Blind`), of a sync that began with an empty table or whose cut went
  below the first stored header. Otherwise the locator names the row below the current
  height (`Begun`, `LocatorIsLast`), and an answer that continues it fits.
* `HeaderSync_proofs!AgreementAddsNoStray`: while the peers agree, the rows with headers off
  their chain (`StrayRows`) only become fewer, and a sync goes on only from a header on
  it: a node that does not know the locator answers from block 1, which continues
  nothing but the genesis block (`ContinuedIsOnChain`).
* `BoostDownload_proofs!SnapshotTheorem`: a complete snapshot is its manifest's, for any
  releases, parts, attempts and faults. The parts play no role: what is unpacked has
  the hash of the manifest on the disk, or that one is garbled, and while a download
  runs there is no complete snapshot of another release. `TypeCorrect` is where the
  parts come in: a task that appends or writes at its own position has a file
  (`Written`), for the running download and for any bag of strays.
* `BoostDownload_proofs!SnapshotIsKept`: a complete snapshot goes only when a newer release
  is out. `DownloadIsBounded`: what is left of a sync's downloads is the leg it is on,
  the attempts left, the place in an attempt and what its tasks have to write (`Owed`),
  in that order of weight; every step lowers it but those of strays and releases, which
  leave it alone.
* `BlockFetch_proofs!BlocksAccountedFor`, that a scan that is done has scanned or counted
  as unfetched every block, and none twice: the blocks of the pages begun are divided into
  scanned ones, lost ones and those that remain, a call holds blocks of its page only,
  and handlers wait only in a round.
* `BlockFetch_proofs!TypeCorrect`: the counters are bounded by what a round asks for,
  which takes the number of handlers as the number of their places in the queues
  (`Open`, `Bounded`). It needs `ReconnectAt < Retries`, 3 and 5 in the code: with
  equality a reconnect would take the count of the retries below zero.
* `BlockFetch_proofs!PunctualTheorem`, an action property: a node that owed nothing when
  the round began has only blocks of the round to send and a handler for each
  (`Punctual`), so that a block which comes in time is received.
* `BlockFetch_proofs!SmoothTheorem`: a call in which nothing fails gets all its blocks. A
  block of the round is the t-th peer's in its j-th turn (`DealtInTurns`, `TurnIsTaken`,
  `AllIsAsked`), and the width of a round leaves no turn beyond the quota. What is
  counted and what nodes have still to send (`Due`) make up the round (`Smooth`), so that
  a round whose nodes have sent all passes the threshold, and the call goes on to its
  last block. It rests on `Punctual`: nobody owes anything in such a call.
* `BlockFetch_proofs!ScanImplements`: every step of the scan is one of `BlockScan` or a
  stutter. What remains is of one page (`Windowed`), so that what a call hands on
  or gives up lies less than a page beyond the first block that is neither.
* `BlockFetch_proofs!ScanIsBounded`: the blocks not loaded yet, whether a page is begun, the
  retries left and the place in the call make a measure that every step of a scan
  lowers, except a reconnect that worked, which takes retries back. That exception is
  the one in `ScanEndsUnlessDeaf`.
* `WitnessTree_proofs`: `TypeCorrect`, `TreeIsNeverBare`, `VerifiedIsOnChain`, from one
  invariant, since a sync writes one store after another. `Downloaded` (room for the
  copies of what may still be downloaded), `Received` and `Built` follow what a
  sync has in memory; `Planted` and `Kept` say what must be there from which step on,
  `SavedFirst` that the tree is saved before its root is looked up. That a tree
  is a list of outputs rests on `Ascending`, which chooses the ascending list of a set
  of heights: that there is one is proved by a least counterexample in the set's size.
* `WitnessTree_proofs!OnlyHolesStray`: witnesses are made in trees with a root of the
  chain, except by the rebuild from a store with a hole (`Holes`): what `tree_anchors` shows
  has no other cause. No record lies beyond the headers (`Reached`), so that a store
  without holes is all outputs up to its last.
* `Broadcast_proofs!AnswersAreTheirOwn`, `TypeCorrect`. Since a reject goes to any
  handler, the invariant counts: a connection with a listener never has more messages on
  their way than handlers that may take their answers (`Counted`), which rests on
  handlers being of transactions begun (`Fresh`). A connection without old handlers is
  therefore silent when a broadcast begins, and goes through the stages of that
  broadcast alone (`Stage`): not sent, travelling, taken, heard, counted.
* `Broadcast_proofs!BroadcastIsBounded`: a running call has a next peer to send to or to hear,
  and goes through all of them once.

Only model-checked: liveness, which is out of the prover's reach. For `SyncEnds`,
`CallsReturn`, `BroadcastReturns`, `ScanEndsUnlessDeaf` and `SnapshotArrives`, and for the
loop of `ListenersReturn` and `AnnouncedBlocksBringProgress`, the part that is safety is proved: what
goes on does not go on for ever. For `StopSilencesListener`, `NotesAreNotHeldForever` and
`CompleteStoreServes` it is what they lead to: that silence stays, that recovery can reach
every note no stop cut off, that a witness from a complete store is on the chain. For
`ReorgIsFollowed` it is that nothing leads away from the chain. That anything goes on at
all (fairness, `ENABLED`), and that it leads where it should, is TLC's, as is all of
`RewindHeals`.

## 7. Not modelled

* Cryptography, encodings, framing and parsing of bytes, SOCKS5, Tor, HTTP, the
  screens, the key chain: functions or pure I/O.
* Handshake and framing, parked peers, discovery of addresses, the mempool monitor.
* Automatic recovery, tree repair, health checks, the watchdog, the check of mempools
  after a broadcast: nothing calls them.
* The outputs and records of the snapshot, failures of `let _ = remove_file`, and the
  download an aborted sync leaves running.
* What the desktop asks of its sync thread beyond syncing, and the screens.
* Transparent coins, imported keys, contacts, statistics.
* `gap_fill_delta_bundle` and `sync_delta_bundle_if_needed`, which only tests call.
* The catch-up scan of Step 8: once the snapshot is loaded the saved tree has at least its
  outputs, more than the delta store, and the scan does not run (`async_sync.rs:904`). Without a
  snapshot `NoteLedger` does not apply. The pending scan of Step 8b runs only while a
  transparent send is unconfirmed; `NoteLedger` lets it run whenever it may.
* In `NoteLedger` a `Recheck` is one step, though each note of it is a call of its own; a
  scan of fetched blocks that stops half-way (`ChunkStops`) leaves the same tables. In
  `BoostDownload`, the emptying of the tree that goes with a new release.
* Paging of the delta store: `WitnessTree` holds for stores of up to one page.
