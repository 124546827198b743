--------------------------- MODULE BoostDownload ---------------------------
(***************************************************************************)
(* The snapshot ("boost") files of boost_download.rs and the first steps   *)
(* of a sync that need them (sync_to_tip, async_sync.rs): the check for a  *)
(* newer release, the attempts to download it, with parts that resume what *)
(* is on the disk, decompression in place, loading its headers, and the    *)
(* transparent snapshot.                                                   *)
(*                                                                         *)
(* All that survives a stop is files, and nothing is renamed into place:   *)
(* the next step recognises a file by its existence and its size. A part's *)
(* task is detached when another part fails first, and goes on writing     *)
(* beside the task of the next attempt.                                    *)
(* Abstracted: releases are numbered by chain height, a part has the same  *)
(* number of chunks in each; a file is a release, or cut, or garbled.      *)
(***************************************************************************)
EXTENDS Naturals, Sequences, Bags, BagsExt, Functions

CONSTANTS
    None,           \* there is no such file, or tag
    Garbled,        \* a manifest that does not parse: the page of an HTTP error
    Mixed,          \* a compressed file that is no release's
    Small,          \* a snapshot of less than 100 MB
    Cut,            \* one of more, or a transparent one of more than its header,
                    \* that is not complete
    MaxRelease,     \* bound: releases published
    PartCount,      \* BOOST_PART_NAMES, 2 in the code
    Chunks,         \* bound: pieces a part arrives in
    MaxAttempts,    \* BOOST_MAX_RETRIES, 3 in the code
    MaxFaults       \* bound: failed requests, error pages, broken streams, full
                    \* disks and stops of the process

Releases == 1..MaxRelease
Parts == 1..PartCount
Marks == {None, Garbled, Mixed, Small, Cut}

ASSUME BoostAssumption ==
    /\ {MaxRelease, PartCount, Chunks, MaxAttempts} \subseteq Nat \ {0}
    /\ MaxFaults \in Nat
    /\ Marks \cap Nat = {}
    /\ None \notin {Garbled, Mixed, Small, Cut} /\ Small # Cut

VARIABLES
    latest,     \* the release that is the latest on GitHub
    manifest,   \* zipherx_boost_manifest.json
    part,       \* the _part_N.tmp files: None or the sequence of their chunks
    zst,        \* zipherx_boost_v1.bin.zst
    bin,        \* zipherx_boost_v1.bin
    headers,    \* release whose height the header store reaches, 0 for none
    tfile,      \* zipherx_tboost_v1.bin
    trows,      \* its outputs are in the database
    tapplied,   \* the tboost_applied flag of the database
    pc,         \* where the sync is
    attempt,    \* of the download
    update,     \* the sync found an update: update_tag
    tag,        \* release_tag, or the tag resolved
    task,       \* the task of each part in the running download
    strays,     \* bag of the tasks of earlier downloads that still run
    faults      \* so far

files == <<manifest, part, zst, bin>>
tvars == <<tfile, trows, tapplied>>
tasks == <<task, strays>>
vars == <<latest, files, headers, tvars, pc, attempt, update, tag, tasks, faults>>

Places == {"idle", "check", "drop", "attempt", "manifest", "heads", "parts", "unpack",
           "unpacking", "load", "tboost", "tsave", "tapply", "tmark", "rest"}
States == {"none", "asked", "append", "put", "failed"}
TaskRecords == [part : Parts, rel : Releases \cup {None}, from : Nat, next : Nat,
                at : States]
NoTask(p) == [part |-> p, rel |-> None, from |-> 0, next |-> 0, at |-> "none"]
NoTasks == [p \in Parts |-> NoTask(p)]

Whole(r) == [i \in 1..Chunks |-> <<r, i>>]
Hole == <<0, 0>>

\* Code that finds the files takes them for the snapshot.
LooksReady == manifest # None /\ bin \notin {None, Small}

Init ==
    /\ latest = 1
    /\ manifest = None /\ zst = None /\ bin = None
    /\ part = [p \in Parts |-> None]
    /\ headers = 0
    /\ tfile = None /\ trows = FALSE /\ tapplied = FALSE
    /\ pc = "idle" /\ attempt = 1 /\ update = FALSE /\ tag = None
    /\ task = NoTasks /\ strays = EmptyBag
    /\ faults = 0

\* One of the bounded faults happens.
Fault == faults < MaxFaults /\ faults' = faults + 1

Publish ==
    /\ latest < MaxRelease
    /\ latest' = latest + 1
    /\ UNCHANGED <<files, headers, tvars, pc, attempt, update, tag, tasks, faults>>

-----------------------------------------------------------------------------
(* The check and the attempts *)

\* boost_needs_download, or else the check for an update.
StartSync ==
    /\ pc = "idle"
    /\ pc' = IF LooksReady THEN "check" ELSE "attempt"
    /\ attempt' = 1 /\ update' = FALSE /\ tag' = None
    /\ UNCHANGED <<latest, files, headers, tvars, tasks, faults>>

UpToDate == manifest \in Releases /\ latest <= manifest

\* check_for_boost_update. A manifest that does not parse ends it with an error,
\* like a request that fails; a newer release makes it drop both files.
CheckUpdate ==
    /\ pc = "check"
    /\ \/ /\ manifest = Garbled \/ UpToDate
          /\ UNCHANGED <<bin, tag, update, faults>> /\ pc' = "load"
       \/ /\ Fault
          /\ UNCHANGED <<bin, tag, update>> /\ pc' = "load"
       \/ /\ manifest # Garbled /\ ~UpToDate
          /\ bin' = None /\ tag' = latest /\ update' = TRUE
          /\ pc' = "drop" /\ UNCHANGED faults
    /\ UNCHANGED <<latest, manifest, part, zst, headers, tvars, attempt, tasks>>

\* The saved tree is emptied as well, for the boost scan to begin again: no file or
\* flag of the download depends on it.
DropManifest ==
    /\ pc = "drop"
    /\ manifest' = None
    /\ pc' = "attempt"
    /\ UNCHANGED <<latest, part, zst, bin, headers, tvars, attempt, update, tag, tasks,
                   faults>>

\* Variant: the last attempt is followed by another.
AttemptFailsForEver == pc' = "attempt" /\ attempt' = attempt + 1

\* An attempt that failed: the next one, or on without the file.
AttemptFails ==
    /\ pc' = IF attempt < MaxAttempts THEN "attempt" ELSE "load"
    /\ attempt' = IF attempt < MaxAttempts THEN attempt + 1 ELSE attempt

\* The beginning of download_boost_file_if_needed: nothing to do for files that
\* look ready, and the tag of the latest release unless the sync has one.
Resolve ==
    /\ pc = "attempt"
    /\ \/ LooksReady /\ pc' = "load" /\ UNCHANGED <<attempt, tag, faults>>
       \/ /\ ~LooksReady
          /\ tag' = IF update THEN tag ELSE latest
          /\ pc' = "manifest" /\ UNCHANGED <<attempt, faults>>
       \/ ~LooksReady /\ ~update /\ Fault /\ AttemptFails /\ UNCHANGED tag
    /\ UNCHANGED <<latest, files, headers, tvars, update, tasks>>

\* The manifest is written as it comes, whatever the status of the answer.
FetchManifest ==
    /\ pc = "manifest"
    /\ \/ manifest' = tag /\ pc' = "heads" /\ UNCHANGED <<attempt, faults>>
       \/ /\ Fault
          /\ manifest' = Garbled
          /\ pc' = "heads" /\ UNCHANGED attempt
       \/ Fault /\ AttemptFails /\ UNCHANGED manifest
    /\ UNCHANGED <<latest, part, zst, bin, headers, tvars, update, tag, tasks>>

\* After a HEAD request for each part a task for each, which looks how much of
\* its part is on the disk.
AskParts ==
    /\ pc = "heads"
    /\ \/ /\ task' = [p \in Parts |->
                        [part |-> p, rel |-> tag, at |-> "asked", next |-> 1,
                         from |-> IF part[p] = None THEN 0 ELSE Len(part[p])]]
          /\ pc' = "parts" /\ UNCHANGED <<attempt, faults>>
       \/ Fault /\ AttemptFails /\ UNCHANGED task
    /\ UNCHANGED <<latest, files, headers, tvars, update, tag, strays>>

-----------------------------------------------------------------------------
(* The tasks *)

\* A task is through: 416 for a part that is all there, or the last chunk written.
Through(t) == \/ t.at = "asked" /\ t.from >= Chunks
              \/ t.at \in {"append", "put"} /\ t.next > Chunks

\* File s with chunk c at position i, and a hole before it if s is shorter.
PutAt(s, i, c) ==
    [j \in 1..(IF Len(s) > i THEN Len(s) ELSE i) |->
        IF j = i THEN c ELSE IF j <= Len(s) THEN s[j] ELSE Hole]

\* What task t may do next, and its file then: the server goes on from the offset
\* asked for (206) or starts over (200), or a chunk is written, at the end of a file
\* opened to append, at the task's own position in one it created.
TaskSteps(t) ==
    LET file == part[t.part]
        chunk == <<t.rel, t.next>>
        after == [t EXCEPT !.next = t.next + 1]
    IN (IF t.at = "asked" /\ t.from \in 1..(Chunks - 1) /\ file # None
          THEN {[to |-> [t EXCEPT !.at = "append", !.next = t.from + 1], file |-> file]}
          ELSE {})
       \cup (IF t.at = "asked" /\ t.from < Chunks
               THEN {[to |-> [t EXCEPT !.at = "put"], file |-> <<>>]} ELSE {})
       \cup (IF t.at = "append" /\ ~Through(t)
               THEN {[to |-> after, file |-> Append(file, chunk)]} ELSE {})
       \cup (IF t.at = "put" /\ ~Through(t)
               THEN {[to |-> after, file |-> PutAt(file, t.next, chunk)]} ELSE {})

PartStep ==
    /\ pc = "parts"
    /\ \E p \in Parts : \E s \in TaskSteps(task[p]) :
          /\ task' = [task EXCEPT ![p] = s.to]
          /\ part' = [part EXCEPT ![p] = s.file]
    /\ UNCHANGED <<latest, manifest, zst, bin, headers, tvars, pc, attempt, update, tag,
                   strays, faults>>

\* The request fails, or the stream breaks or is silent for 120 s. What is on the
\* disk stays there.
PartFails ==
    /\ pc = "parts"
    /\ \E p \in Parts :
          /\ task[p].at # "failed" /\ ~Through(task[p])
          /\ task' = [task EXCEPT ![p].at = "failed"]
    /\ Fault
    /\ UNCHANGED <<latest, files, headers, tvars, pc, attempt, update, tag, strays>>

\* The tasks are awaited in order; at the first that failed the others are dropped,
\* which detaches those that still run.
PartsFail ==
    /\ pc = "parts"
    /\ \E p \in Parts :
          /\ task[p].at = "failed"
          /\ \A q \in 1..(p - 1) : Through(task[q])
    /\ strays' = strays (+) SetToBag({t \in {task[p] : p \in Parts} :
                                       t.at # "failed" /\ ~Through(t)})
    /\ task' = NoTasks
    /\ AttemptFails
    /\ UNCHANGED <<latest, files, headers, tvars, update, tag, faults>>

\* A task of an earlier download goes on, or ends.
StrayStep ==
    /\ \E t \in DOMAIN strays :
          \/ \E s \in TaskSteps(t) :
                /\ strays' = BagAdd(BagRemove(strays, t), s.to)
                /\ part' = [part EXCEPT ![t.part] = s.file]
          \/ /\ TaskSteps(t) = {}
             /\ strays' = BagRemove(strays, t) /\ UNCHANGED part
    /\ UNCHANGED <<latest, manifest, zst, bin, headers, tvars, pc, attempt, update, tag,
                   task, faults>>

-----------------------------------------------------------------------------
(* Putting the parts together *)

\* What the concatenated parts are.
Joined == IF \E r \in Releases : \A p \in Parts : part[p] = Whole(r)
            THEN CHOOSE r \in Releases : \A p \in Parts : part[p] = Whole(r)
            ELSE Mixed

\* Variant: the hash is not compared.
ConcatenateUnchecked ==
    /\ pc = "parts"
    /\ \A p \in Parts : Through(task[p])
    /\ task' = NoTasks
    /\ \/ /\ part' = [p \in Parts |-> None]
          /\ strays' = Restrict(strays, {t \in DOMAIN strays : t.at = "asked"})
          /\ zst' = Joined /\ pc' = "unpack" /\ UNCHANGED attempt
          /\ UNCHANGED faults
       \/ /\ \E p \in Parts :
               /\ part' = [q \in Parts |-> IF q < p THEN None ELSE part[q]]
               /\ strays' = Restrict(strays, {t \in DOMAIN strays : t.at = "asked" \/ t.part >= p})
          /\ zst' = Mixed
          /\ Fault /\ AttemptFails
    /\ UNCHANGED <<latest, manifest, bin, headers, tvars, update, tag>>

\* Variant: parts that do not make the file of the manifest are kept.
ConcatenateKeepingParts ==
    /\ pc = "parts"
    /\ \A p \in Parts : Through(task[p])
    /\ task' = NoTasks
    /\ \/ /\ strays' = Restrict(strays, {t \in DOMAIN strays : t.at = "asked"})
          /\ part' = IF manifest \in {Garbled, Joined} THEN [p \in Parts |-> None] ELSE part
          /\ \/ /\ manifest \in {Garbled, Joined}
                /\ zst' = Joined /\ pc' = "unpack" /\ UNCHANGED attempt
             \/ /\ manifest \notin {Garbled, Joined}
                /\ zst' = None /\ AttemptFails
          /\ UNCHANGED faults
       \/ /\ \E p \in Parts :
               /\ part' = [q \in Parts |-> IF q < p THEN None ELSE part[q]]
               /\ strays' = Restrict(strays, {t \in DOMAIN strays : t.at = "asked" \/ t.part >= p})
          /\ zst' = Mixed
          /\ Fault /\ AttemptFails
    /\ UNCHANGED <<latest, manifest, bin, headers, tvars, update, tag>>

\* The parts are concatenated and removed one by one, a stray that has one of them
\* open writes to no file from now on. The hash is compared with the manifest's, if
\* that parses; a file that differs is removed.
Concatenate ==
    /\ pc = "parts"
    /\ \A p \in Parts : Through(task[p])
    /\ task' = NoTasks
    /\ \/ /\ part' = [p \in Parts |-> None]
          /\ strays' = Restrict(strays, {t \in DOMAIN strays : t.at = "asked"})
          /\ \/ /\ manifest \in {Garbled, Joined}
                /\ zst' = Joined /\ pc' = "unpack" /\ UNCHANGED attempt
             \/ /\ manifest \notin {Garbled, Joined}
                /\ zst' = None /\ AttemptFails
          /\ UNCHANGED faults
       \/ /\ \E p \in Parts :
               /\ part' = [q \in Parts |-> IF q < p THEN None ELSE part[q]]
               /\ strays' = Restrict(strays, {t \in DOMAIN strays : t.at = "asked" \/ t.part >= p})
          /\ zst' = Mixed
          /\ Fault /\ AttemptFails
    /\ UNCHANGED <<latest, manifest, bin, headers, tvars, update, tag>>

\* decompress_file creates the snapshot under its own name and writes on.
Unpack ==
    /\ pc = "unpack"
    /\ bin' = Small /\ pc' = "unpacking"
    /\ UNCHANGED <<latest, manifest, part, zst, headers, tvars, attempt, update, tag,
                   tasks, faults>>

UnpackMore ==
    /\ pc = "unpacking" /\ bin = Small
    /\ bin' = Cut
    /\ UNCHANGED <<latest, manifest, part, zst, headers, tvars, pc, attempt, update, tag,
                   tasks, faults>>

UnpackEnds ==
    /\ pc = "unpacking" /\ bin = Cut /\ zst \in Releases
    /\ bin' = zst /\ zst' = None
    /\ pc' = "load"
    /\ UNCHANGED <<latest, manifest, part, headers, tvars, attempt, update, tag, tasks,
                   faults>>

\* The disk is full, or the data is not a compressed file: what was written stays.
UnpackFails ==
    /\ pc = "unpacking"
    /\ IF zst = Mixed THEN UNCHANGED faults ELSE Fault
    /\ AttemptFails
    /\ UNCHANGED <<latest, files, headers, tvars, update, tag, tasks>>

-----------------------------------------------------------------------------
(* Using the files *)

Behind == bin # None /\ manifest \in Releases /\ headers < manifest

\* The headers are loaded if the header store is behind the manifest. Sections that
\* are not in the file end the whole sync.
LoadHeaders ==
    /\ pc = "load"
    /\ \/ ~Behind /\ pc' = "tboost" /\ UNCHANGED headers
       \/ /\ Behind
          /\ IF bin \in Releases
               THEN headers' = manifest /\ pc' = "tboost"
               ELSE pc' = "idle" /\ UNCHANGED headers
    /\ UNCHANGED <<latest, files, tvars, attempt, update, tag, tasks, faults>>

\* download_transparent_boost_if_needed up to the answer, as long as the flag is not
\* set. No tag, or no manifest, is "not available": sync_to_tip sets the flag. A
\* failed download is an error, and is not marked.
TBoost ==
    /\ pc = "tboost"
    /\ \/ tapplied /\ pc' = "rest" /\ UNCHANGED <<tapplied, tag, faults>>
       \/ /\ ~tapplied /\ tfile # None
          /\ pc' = "tapply" /\ UNCHANGED <<tapplied, tag, faults>>
       \/ /\ ~tapplied /\ tfile = None
          /\ tag' = latest
          /\ pc' = "tsave" /\ UNCHANGED <<tapplied, faults>>
       \/ /\ ~tapplied /\ tfile = None
          /\ Fault /\ tapplied' \in BOOLEAN
          /\ pc' = "rest" /\ UNCHANGED tag
    /\ UNCHANGED <<latest, files, headers, tfile, trows, attempt, update, tasks>>

\* The file is written under its own name.
TSave ==
    /\ pc = "tsave"
    /\ \/ tfile = None /\ tfile' = Cut /\ UNCHANGED <<pc, faults>>
       \/ tfile = Cut /\ tfile' = tag /\ pc' = "tapply" /\ UNCHANGED faults
       \/ Fault /\ pc' = "rest" /\ UNCHANGED tfile
    /\ UNCHANGED <<latest, files, headers, trows, tapplied, attempt, update, tag, tasks>>

\* apply_transparent_boost: a file of another size than its header says is an error.
TApply ==
    /\ pc = "tapply"
    /\ IF tfile = Cut THEN pc' = "rest" /\ UNCHANGED trows
                      ELSE trows' = TRUE /\ pc' = "tmark"
    /\ UNCHANGED <<latest, files, headers, tfile, tapplied, attempt, update, tag, tasks,
                   faults>>

TMark ==
    /\ pc = "tmark"
    /\ tapplied' = TRUE
    /\ pc' = "rest"
    /\ UNCHANGED <<latest, files, headers, tfile, trows, attempt, update, tag, tasks,
                   faults>>

\* The rest of the sync, in which the peers may bring the headers up to the tip.
Rest ==
    /\ pc = "rest"
    /\ headers' \in {headers, latest}
    /\ pc' = "idle"
    /\ UNCHANGED <<latest, files, tvars, attempt, update, tag, tasks, faults>>

\* The process ends; the tasks with it.
Stop ==
    /\ Fault
    /\ pc' = "idle" /\ task' = NoTasks /\ strays' = EmptyBag
    /\ UNCHANGED <<latest, files, headers, tvars, attempt, update, tag>>

Work == \/ StartSync \/ CheckUpdate \/ DropManifest \/ Resolve \/ FetchManifest
        \/ AskParts \/ PartStep \/ PartsFail \/ StrayStep \/ Concatenate
        \/ Unpack \/ UnpackMore \/ UnpackEnds \/ UnpackFails
        \/ LoadHeaders \/ TBoost \/ TSave \/ TApply \/ TMark \/ Rest
Next == Work \/ Publish \/ PartFails \/ Stop

Spec == Init /\ [][Next]_vars
\* The application syncs again and again, and every step of a sync returns: requests
\* and streams have timeouts.
FairSpec == Spec /\ WF_vars(Work)

-----------------------------------------------------------------------------
(* Properties *)

TypeOK ==
    /\ latest \in Releases
    /\ manifest \in Releases \cup {None, Garbled}
    /\ \A p \in Parts : part[p] # None =>
          part[p] \in Seq((Releases \X (1..Chunks)) \cup {Hole})
    /\ zst \in Releases \cup {None, Mixed}
    /\ bin \in Releases \cup {None, Small, Cut}
    /\ headers \in 0..MaxRelease
    /\ tfile \in Releases \cup {None, Cut} /\ trows \in BOOLEAN /\ tapplied \in BOOLEAN
    /\ pc \in Places
    /\ attempt \in 1..MaxAttempts /\ update \in BOOLEAN /\ tag \in Releases \cup {None}
    /\ \A p \in Parts : task[p] \in TaskRecords /\ task[p].part = p
    /\ IsABag(strays) /\ DOMAIN strays \subseteq TaskRecords
    /\ faults \in 0..MaxFaults

\* A complete snapshot is the one its manifest describes: sections are read at the
\* manifest's offsets. (manifest and parts are fetched apart, at other times.)
SnapshotIsTheManifests ==
    bin \in Releases /\ manifest \in Releases => bin = manifest

\* The states a sync does not get out of: a cut file that counts as downloaded
\* (boost_download.rs:627) until a newer release comes, a garbled manifest at all.
Stuck == manifest = Garbled \/ bin = Cut

\* The snapshot of a release gets to the disk in the end, whatever was left there by
\* attempts that failed, of whichever release, unless the files are stuck.
SnapshotArrives ==
    \A r \in Releases :
        <>[](latest >= r) => \/ <>(bin \in Releases /\ bin >= r /\ manifest = bin)
                            \/ <>[]Stuck

=============================================================================
