---------------------------- MODULE WitnessTree ----------------------------
(***************************************************************************)
(* How a sync (zipherx-core/src/async_sync.rs) keeps the delta store of    *)
(* shielded outputs, the commitment tree and the witness of a note in step *)
(* with the chain, with blocks that are not served, a process that stops   *)
(* anywhere, and repairs at any time.                                      *)
(*                                                                         *)
(* Heights count from the end of the boost file. A block has one output or *)
(* none; a tree is the sequence of the heights of the outputs appended to  *)
(* the boost tree, and its root is on the chain iff it is the sequence of  *)
(* all outputs up to some height. The store is a bag: every reader sorts   *)
(* by height, as long as the store fits one page of 10 000 records.        *)
(***************************************************************************)
EXTENDS Naturals, Sequences, FiniteSets, FiniteSetsExt

CONSTANTS
    MaxHeight,    \* bound on the height of the chain
    MaxCopies,    \* bound on the copies of a record in the store
    Outputs,      \* the blocks with an output
    NoteAt,       \* the block that pays the wallet
    NoTree,       \* "tree_state is NULL"
    NoWitness     \* "witness is NULL"

Heights == 1..MaxHeight

ASSUME HeightsAssumption ==
    /\ MaxHeight \in Nat \ {0} /\ MaxCopies \in Nat \ {0, 1}
    /\ Outputs \subseteq Heights /\ NoteAt \in Outputs
    /\ NoTree \notin Seq(Heights) /\ NoWitness \notin Seq(Heights)

VARIABLES
    final,        \* the height of the headers
    copies,       \* the records of each output in the delta store
    deltaEnd,     \* end_height of its manifest
    verified,     \* delta_bundle_verified
    tree,         \* tree_state
    lastScanned,  \* last_scanned_height
    boost,        \* the notes of the boost file are in the database
    found,        \* the note is in the database
    witness,      \* the tree its witness was made in: its anchor
    mem,          \* the global tree of zipherx-crypto
    pc,           \* where the sync is
    got,          \* the blocks received in the current step
    start,        \* where the scan began
    fresh,        \* a witness was made while appending
    mismatch,     \* tree_needs_reset
    calm          \* from now on all blocks are served and nothing stops

store == <<copies, deltaEnd>>
db == <<verified, tree, lastScanned, boost, found, witness>>
local == <<got, start, fresh, mismatch>>
vars == <<final, store, db, mem, pc, local, calm>>

Places ==
    {"idle", "delta", "manifest", "boost", "plant", "save", "load", "append",
     "validate", "unverify", "discover", "scan", "build", "record", "finish", "rewind",
     "reload", "rebuild", "balance"}

TypeOK ==
    /\ final \in 0..MaxHeight
    /\ copies \in [Outputs -> 0..MaxCopies]
    /\ deltaEnd \in 0..MaxHeight
    /\ verified \in BOOLEAN
    /\ tree \in Seq(Outputs) \cup {NoTree}
    /\ lastScanned \in 0..MaxHeight
    /\ boost \in BOOLEAN /\ found \in BOOLEAN
    /\ witness \in Seq(Outputs) \cup {NoWitness}
    /\ mem \in Seq(Outputs) \cup {NoTree}
    /\ pc \in Places
    /\ got \subseteq Heights /\ start \in 1..MaxHeight + 1
    /\ fresh \in BOOLEAN /\ mismatch \in BOOLEAN /\ calm \in BOOLEAN
    /\ deltaEnd <= final /\ lastScanned <= final

Init ==
    /\ final = 0 /\ copies = [h \in Outputs |-> 0] /\ deltaEnd = 0
    /\ verified = FALSE /\ tree = NoTree /\ lastScanned = 0
    /\ boost = FALSE /\ found = FALSE /\ witness = NoWitness /\ mem = NoTree
    /\ pc = "idle" /\ got = {} /\ start = 1 /\ fresh = FALSE /\ mismatch = FALSE
    /\ calm = FALSE

-----------------------------------------------------------------------------
(* Trees and the store.                                                     *)

Ascending(S) ==
    CHOOSE s \in [1..Cardinality(S) -> S] : \A i, j \in DOMAIN s : i < j => s[i] < s[j]

\* The tree of the chain at height h.
Chain(h) == Ascending({o \in Outputs : o <= h})

Roots == {Chain(h) : h \in 0..final}

InStore == {o \in Outputs : copies[o] > 0}

Records(S) == SumFunctionOnSet(copies, S)

\* Variant: duplicates are not recognised.
AllPast(lo, skip) ==
    {o \in Outputs : o >= lo /\ Records({p \in Outputs : lo <= p /\ p <= o}) > skip}

\* The outputs an append loop adds that reads the store from height lo on: it
\* passes over the first records, as many as the tree has beyond the boost
\* file, and over records equal to one it has seen.
Past(lo, skip) ==
    {o \in InStore : o >= lo /\ Records({p \in Outputs : lo <= p /\ p < o}) >= skip}

With(t, S) == t \o Ascending(S)

MaxOf(a, b) == IF a >= b THEN a ELSE b

NeedsWitness == found /\ (witness = NoWitness \/ witness \notin Roots)

GoTo(where) == pc' = where

\* A sync that is over takes its variables along.
Forget == got' = {} /\ start' = 1 /\ fresh' = FALSE /\ mismatch' = FALSE

-----------------------------------------------------------------------------
(* Step 5: the delta download.                                              *)

\* The headers come first: any number of new ones.
StartSync ==
    /\ pc = "idle"
    /\ final' \in final..MaxHeight
    /\ GoTo("delta")
    /\ UNCHANGED <<store, db, mem, local, calm>>

Wanted == {o \in Outputs : deltaEnd < o /\ o <= final}

NothingToDownload ==
    /\ pc = "delta" /\ Wanted = {}
    /\ GoTo("boost")
    /\ UNCHANGED <<final, store, db, mem, local, calm>>

\* An error of the download ends the sync.
DownloadFails ==
    /\ pc = "delta" /\ Wanted # {} /\ ~calm
    /\ GoTo("idle") /\ Forget
    /\ UNCHANGED <<final, store, db, mem, calm>>

\* Any of the blocks may be missing from what is received, without an error.
DownloadDelta(blocks) ==
    /\ pc = "delta" /\ Wanted # {}
    /\ calm => blocks = Wanted
    /\ copies' = [o \in Outputs |-> copies[o] + IF o \in blocks THEN 1 ELSE 0]
    /\ got' = blocks
    /\ GoTo(IF blocks = {} THEN "boost" ELSE "manifest")
    /\ UNCHANGED <<final, deltaEnd, db, mem, start, fresh, mismatch, calm>>

\* The manifest is a file of its own.
SaveManifest ==
    /\ pc = "manifest"
    /\ deltaEnd' = MaxOf(deltaEnd, Max(got))
    /\ GoTo("boost") /\ Forget
    /\ UNCHANGED <<final, copies, db, mem, calm>>

-----------------------------------------------------------------------------
(* Step 6: the boost tree, and the outputs of a verified store.             *)

\* clear_notes_and_history and full_rescan_reset: one transaction.
EmptyTables ==
    /\ boost' = FALSE /\ found' = FALSE /\ witness' = NoWitness
    /\ tree' = NoTree /\ lastScanned' = 0 /\ verified' = FALSE

\* boost_scan_if_needed: a cleared tree counts as not loaded, and whatever is in the
\* tables goes before the boost file is loaded again.
BoostScan ==
    /\ pc = "boost"
    /\ IF tree # NoTree
       THEN GoTo("load") /\ UNCHANGED db
       ELSE EmptyTables /\ GoTo("plant")
    /\ UNCHANGED <<final, store, mem, local, calm>>

\* Variant: the tree is saved before the notes.
InsertNotesAfterTree ==
    /\ pc = "plant"
    /\ tree' = <<>>
    /\ GoTo("save")
    /\ UNCHANGED <<final, store, verified, lastScanned, boost, found, witness, mem,
                   local, calm>>

InsertBoostNotes ==
    /\ pc = "plant"
    /\ boost' = TRUE
    /\ GoTo("save")
    /\ UNCHANGED <<final, store, verified, tree, lastScanned, found, witness, mem,
                   local, calm>>

SaveBoostTree ==
    /\ pc = "save"
    /\ tree' = <<>>
    /\ GoTo("load")
    /\ UNCHANGED <<final, store, verified, lastScanned, boost, found, witness, mem,
                   local, calm>>

LoadTree ==
    /\ pc = "load"
    /\ mem' = IF tree = NoTree THEN mem ELSE tree
    /\ GoTo(IF verified /\ InStore # {} THEN "append" ELSE "discover")
    /\ UNCHANGED <<final, store, db, local, calm>>

\* The outputs not yet in the tree; all of them after a fresh start from the
\* boost file, when the tree has as many but a wrong root, or the note has no
\* witness. The tree is saved before its root is looked up.
AppendVerified ==
    LET total == Records(Outputs)
        restart == Len(mem) >= total
        base == IF restart THEN <<>> ELSE mem
        new == Past(1, Len(base))
    IN  /\ pc = "append"
        /\ IF mem = NoTree
           THEN GoTo("idle") /\ Forget /\ UNCHANGED <<mem, tree>>
           ELSE IF restart /\ mem \in Roots /\ ~(found /\ witness = NoWitness)
           THEN GoTo("discover") /\ UNCHANGED <<mem, tree, local>>
           ELSE /\ mem' = With(base, new)
                /\ tree' = mem'
                /\ fresh' = (NeedsWitness /\ NoteAt \in new)
                /\ GoTo("validate") /\ UNCHANGED <<got, start, mismatch>>
        /\ UNCHANGED <<final, store, verified, lastScanned, boost, found, witness, calm>>

\* Witnesses go to the database only from a tree whose root is on the chain.
Validate ==
    /\ pc = "validate"
    /\ IF mem \in Roots
       THEN /\ witness' = IF fresh THEN mem ELSE witness
            /\ GoTo("discover")
       ELSE /\ witness' = IF fresh THEN NoWitness ELSE witness
            /\ GoTo("unverify")
    /\ UNCHANGED <<final, store, verified, tree, lastScanned, boost, found, mem, local,
                   calm>>

\* Variant: the store stays verified.
UnverifyNot ==
    /\ pc = "unverify" /\ GoTo("discover")
    /\ UNCHANGED <<final, store, db, mem, local, calm>>

Unverify ==
    /\ pc = "unverify"
    /\ verified' = FALSE
    /\ GoTo("discover")
    /\ UNCHANGED <<final, store, tree, lastScanned, boost, found, witness, mem, local,
                   calm>>

-----------------------------------------------------------------------------
(* post_boost_delta_scan and post_boost_full_block_scan.                    *)

\* dedup_outputs, and the note if its output is in the store.
DiscoverInStore ==
    /\ pc = "discover"
    /\ copies' = [o \in Outputs |-> IF copies[o] > 0 THEN 1 ELSE 0]
    /\ found' = (found \/ copies[NoteAt] > 0)
    /\ GoTo("scan")
    /\ UNCHANGED <<final, deltaEnd, verified, tree, lastScanned, boost, witness, mem,
                   local, calm>>

AlreadyScanned ==
    final = 0 \/ lastScanned >= final \/ (verified /\ deltaEnd >= final)

ScanStart == (IF verified THEN MaxOf(deltaEnd, lastScanned) ELSE lastScanned) + 1

SkipScan ==
    /\ pc = "scan" /\ AlreadyScanned
    /\ GoTo("finish")
    /\ UNCHANGED <<final, store, db, mem, local, calm>>

\* All blocks from ScanStart on, with or without outputs: after the retries of
\* each batch any of them may be missing. What is received is stored at once;
\* an error ends the scan, not the sync.
ScanBlocks(blocks) ==
    /\ pc = "scan" /\ ~AlreadyScanned
    /\ calm => blocks = ScanStart..final
    /\ copies' = [o \in Outputs |-> IF o \in blocks THEN MaxOf(copies[o], 1)
                                                    ELSE copies[o]]
    /\ deltaEnd' = Max({deltaEnd} \cup (blocks \cap Outputs))
    /\ found' = (found \/ NoteAt \in blocks)
    /\ got' = blocks /\ start' = ScanStart
    /\ \/ GoTo(IF blocks \cap Outputs # {} THEN "build" ELSE "finish")
       \/ ~calm /\ GoTo("finish")
    /\ UNCHANGED <<final, verified, tree, lastScanned, boost, witness, mem, fresh,
                   mismatch, calm>>

\* The tree of the outputs since the scan began, checked against the root of
\* the last header before it is saved.
BuildTree ==
    LET new == Past(start, Len(mem))
        built == With(mem, new)
    IN  /\ pc = "build"
        /\ IF mem = NoTree
           THEN GoTo("finish") /\ UNCHANGED <<mem, tree, verified, fresh, mismatch>>
           ELSE IF built = Chain(final)
           THEN /\ mem' = built /\ tree' = built /\ verified' = TRUE
                /\ fresh' = (NoteAt \in got \cap new)
                /\ GoTo("record") /\ UNCHANGED mismatch
           ELSE /\ mem' = built /\ mismatch' = TRUE
                /\ GoTo("finish") /\ UNCHANGED <<tree, verified, fresh>>
        /\ UNCHANGED <<final, store, lastScanned, boost, found, witness, got, start, calm>>

\* The manifest and the witness follow.
RecordTree ==
    /\ pc = "record"
    /\ deltaEnd' = final
    /\ witness' = IF fresh THEN mem ELSE witness
    /\ GoTo("finish")
    /\ UNCHANGED <<final, copies, verified, tree, lastScanned, boost, found, mem, local,
                   calm>>

-----------------------------------------------------------------------------
(* Step 9 and what follows it.                                              *)

\* Variant: the next height to scan is kept.
FinishAtNext ==
    /\ pc = "finish"
    /\ lastScanned' = final + 1
    /\ GoTo(IF mismatch THEN "rewind" ELSE "rebuild")
    /\ UNCHANGED <<final, store, verified, tree, boost, found, witness, mem, local, calm>>

\* Whatever was received: the scan goes on after the last header.
Finish ==
    /\ pc = "finish"
    /\ lastScanned' = final
    /\ GoTo(IF mismatch THEN "rewind" ELSE "rebuild")
    /\ UNCHANGED <<final, store, verified, tree, boost, found, witness, mem, local, calm>>

\* FIX #1300: after a mismatch the next sync starts from the boost file again.
Rewind ==
    /\ pc = "rewind"
    /\ lastScanned' = 0
    /\ GoTo("reload")
    /\ UNCHANGED <<final, store, verified, tree, boost, found, witness, mem, local, calm>>

\* Variant: the tree with the wrong root is kept.
ReloadNot ==
    /\ pc = "reload" /\ GoTo("balance")
    /\ UNCHANGED <<final, store, db, mem, local, calm>>

Reload ==
    /\ pc = "reload"
    /\ mem' = <<>> /\ tree' = <<>>
    /\ GoTo("balance")
    /\ UNCHANGED <<final, store, verified, lastScanned, boost, found, witness, local, calm>>

\* Variant: records come as the file has them, first those of the last block.
Latest == IF InStore = {} THEN <<>> ELSE With(<<Max(InStore)>>, InStore \ {Max(InStore)})

\* The tree of all outputs in the store.
Stored == Ascending(InStore)

\* rebuild_witnesses_if_needed: in the global tree, which is restored after.
\* The root of the rebuilt tree is looked up for the log only.
RebuildWitness ==
    /\ pc = "rebuild"
    /\ IF found /\ witness = NoWitness
       THEN /\ witness' = IF NoteAt \in InStore THEN Stored ELSE witness
            /\ mem' = IF tree = NoTree THEN Stored ELSE tree
       ELSE UNCHANGED <<witness, mem>>
    /\ GoTo("balance")
    /\ UNCHANGED <<final, store, verified, tree, lastScanned, boost, found, local, calm>>

\* Nothing spendable: the store is not to be trusted.
CheckBalance ==
    /\ pc = "balance"
    /\ verified' = (verified /\ ~(found /\ witness = NoWitness))
    /\ GoTo("idle") /\ Forget
    /\ UNCHANGED <<final, store, tree, lastScanned, boost, found, witness, mem, calm>>

-----------------------------------------------------------------------------
(* The environment.                                                         *)

\* repair_database, which asks for nobody's permission.
Repair ==
    /\ ~calm
    /\ tree' = NoTree /\ witness' = NoWitness
    /\ UNCHANGED <<final, store, verified, lastScanned, boost, found, mem, pc, local, calm>>

\* full_rescan.
FullRescan ==
    /\ ~calm
    /\ tree' = NoTree /\ witness' = NoWitness /\ verified' = FALSE
    /\ UNCHANGED <<final, store, lastScanned, boost, found, mem, pc, local, calm>>

\* full_rescan_reset: the applications stop their sync first.
FullRescanReset ==
    /\ ~calm /\ pc = "idle"
    /\ EmptyTables
    /\ UNCHANGED <<final, store, mem, pc, local, calm>>

\* The sync is aborted, or the process stops and forgets the tree. MaxCopies
\* bounds how often that happens to a download not yet in the manifest.
Stop ==
    /\ ~calm
    /\ pc = "manifest" => \A o \in got : copies[o] < MaxCopies
    /\ GoTo("idle") /\ Forget
    /\ mem' \in {mem, NoTree}
    /\ UNCHANGED <<final, store, db, calm>>

CalmDown ==
    /\ ~calm /\ calm' = TRUE
    /\ UNCHANGED <<final, store, db, mem, pc, local>>

-----------------------------------------------------------------------------
Sync ==
    \/ StartSync
    \/ NothingToDownload \/ (\E b \in SUBSET Wanted : DownloadDelta(b)) \/ SaveManifest
    \/ BoostScan \/ InsertBoostNotes \/ SaveBoostTree \/ LoadTree \/ AppendVerified \/ Validate \/ Unverify
    \/ DiscoverInStore \/ SkipScan
    \/ \E b \in SUBSET (ScanStart..final) : ScanBlocks(b)
    \/ BuildTree \/ RecordTree
    \/ Finish \/ Rewind \/ Reload \/ RebuildWitness \/ CheckBalance

Next ==
    \/ Sync
    \/ DownloadFails \/ Repair \/ FullRescan \/ FullRescanReset \/ Stop \/ CalmDown

Spec == Init /\ [][Next]_vars

\* The wallet syncs in a loop, and every wait of a sync has a timeout.
FairSpec == Spec /\ WF_vars(Sync)

-----------------------------------------------------------------------------
(* Properties.                                                              *)

\* From the validation of a sync to its end, a store is marked as verified only
\* beside a tree whose root is on the chain, whatever repairs and earlier stops
\* left behind: a verified store is not downloaded again.
VerifiedHasRoot ==
    verified /\ pc \notin {"idle", "delta", "manifest", "boost", "plant", "save",
                          "load", "append", "validate", "unverify"}
        => tree = NoTree \/ tree \in Roots

\* Once the tree was found wrong and the scan rewound, and blocks are served, the
\* outputs that were missing are fetched, the tree is rebuilt with the root of
\* the chain and the note is found; it can be spent unless an anchor off the
\* chain was stored before (AnchorsAreOnChain).
RewindHeals ==
    calm /\ pc = "idle" /\ lastScanned = 0 /\ final > 0
        /\ (witness = NoWitness \/ witness \in Roots)
        ~> /\ tree = Chain(final)
           /\ NoteAt <= final => found /\ witness \in Roots

\* While there is a tree the notes of the boost file are in the tables: the boost scan is
\* skipped then, so nothing would bring them back. Whatever is emptied, and wherever a
\* scan of the boost file stops, the next sync starts it again.
TreeHasBoostNotes == tree # NoTree => boost

\* With all outputs in the store a note that lost its witness, to a repair at any
\* moment or to a tree with a wrong root, gets one on the chain.
CompleteStoreServes ==
    calm /\ pc = "idle" /\ InStore = Outputs /\ witness = NoWitness
        ~> found /\ witness \in Roots

\* A stored witness has its anchor on the chain: "Witnesses built from boost+delta
\* CMUs are mathematically correct; their anchors ARE valid blockchain roots"
\* (rebuild_witnesses_if_needed).
AnchorsAreOnChain == witness = NoWitness \/ witness \in Roots
=============================================================================
