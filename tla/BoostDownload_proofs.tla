------------------------ MODULE BoostDownload_proofs ------------------------
(***************************************************************************)
(* A complete snapshot is that of its manifest, for any number of          *)
(* releases, parts, attempts and faults.                                   *)
(*                                                                         *)
(* The parts play no role: whatever the tasks and strays make of them, the *)
(* hash lets only the manifest's file through (or any, beside a manifest   *)
(* that does not parse). What has to be carried along is that a manifest   *)
(* is written, or removed, only while there is no complete snapshot.       *)
(*                                                                         *)
(* For the types the parts do play one: a task that appends or writes at   *)
(* its own position does so in a file that is there (Written).             *)
(*                                                                         *)
(* The last two parts are about time: what becomes of a complete snapshot, *)
(* and how much of a sync's downloads is left at any moment.               *)
(***************************************************************************)
EXTENDS BoostDownload, TLAPS

\* The files as far as the argument needs them.
Kinds ==
    /\ latest \in Releases
    /\ manifest \in Releases \cup {None, Garbled}
    /\ zst \in Releases \cup {None, Mixed}
    /\ bin \in Releases \cup {None, Small, Cut}
    /\ tag \in Releases \cup {None}
    /\ update => tag \in Releases

\* From the moment an attempt writes the manifest there is no complete snapshot,
\* and what is unpacked is what the manifest describes.
Downloading == {"manifest", "heads", "parts", "unpack", "unpacking"}

Inv ==
    /\ Kinds
    /\ SnapshotIsTheManifests
    /\ manifest = None => bin \notin Releases
    /\ pc \in {"drop"} \cup Downloading => bin \notin Releases
    /\ pc \in Downloading => tag \in Releases
    /\ pc \in {"unpack", "unpacking"} => manifest \in {Garbled, zst}

LEMMA Distinct ==
    /\ Releases \cap Marks = {} /\ 1 \in Releases
    /\ None \notin {Garbled, Mixed, Small, Cut}
    /\ \A r \in Releases : r + 1 <= MaxRelease => r + 1 \in Releases
    BY BoostAssumption DEF Releases, Marks

LEMMA InvInit == Init => Inv
    BY Distinct DEF Init, Inv, Kinds, SnapshotIsTheManifests, Downloading, Marks

\* What the parts make is a release or nothing.
LEMMA JoinedKind == Joined \in Releases \cup {Mixed}
    BY DEF Joined

\* One step per action; most leave the files alone.
LEMMA InvStep == Inv /\ [Next]_vars => Inv'
<1> SUFFICES ASSUME Inv, [Next]_vars PROVE Inv'
    OBVIOUS
<1> USE Distinct DEF Inv, Kinds, SnapshotIsTheManifests, Downloading, Marks
<1>1. CASE StartSync
    BY <1>1 DEF StartSync, files, tasks, tvars
<1>2. CASE CheckUpdate
    BY <1>2 DEF CheckUpdate, tasks, tvars
<1>3. CASE DropManifest
    BY <1>3 DEF DropManifest, tasks, tvars
<1>4. CASE Resolve
    BY <1>4 DEF Resolve, LooksReady, AttemptFails, files, tasks, tvars
<1>5. CASE FetchManifest
    BY <1>5 DEF FetchManifest, AttemptFails, tasks, tvars
<1>6. CASE AskParts
    BY <1>6 DEF AskParts, AttemptFails, files, tasks, tvars
<1>7. CASE PartStep
    BY <1>7 DEF PartStep, tvars
<1>8. CASE PartsFail
    BY <1>8 DEF PartsFail, AttemptFails, files, tvars
<1>9. CASE StrayStep
    BY <1>9 DEF StrayStep, tvars
<1>10. CASE Concatenate
  <2>1. UNCHANGED <<latest, manifest, bin, tag, update>> /\ pc = "parts"
      BY <1>10 DEF Concatenate
  <2>2. \/ manifest \in {Garbled, Joined} /\ zst' = Joined /\ pc' = "unpack"
        \/ zst' \in {None, Mixed} /\ pc' \in {"attempt", "load"}
      BY <1>10 DEF Concatenate, AttemptFails
  <2> QED
      BY <2>1, <2>2, JoinedKind
<1>11. CASE Unpack
    BY <1>11 DEF Unpack, tasks, tvars
<1>12. CASE UnpackMore
    BY <1>12 DEF UnpackMore, tasks, tvars
<1>13. CASE UnpackEnds
    BY <1>13 DEF UnpackEnds, tasks, tvars
<1>14. CASE UnpackFails
    BY <1>14 DEF UnpackFails, AttemptFails, files, tasks, tvars
<1>15. CASE LoadHeaders
    BY <1>15 DEF LoadHeaders, files, tasks, tvars
<1>16. CASE TBoost
    BY <1>16 DEF TBoost, files, tasks
<1>17. CASE TSave
    BY <1>17 DEF TSave, files, tasks
<1>18. CASE TApply
    BY <1>18 DEF TApply, files, tasks
<1>19. CASE TMark
    BY <1>19 DEF TMark, files, tasks
<1>20. CASE Rest
    BY <1>20 DEF Rest, files, tasks, tvars
<1>21. CASE Publish
  <2>1. latest' \in Releases
      BY <1>21, BoostAssumption DEF Publish, Releases
  <2> QED
      BY <1>21, <2>1 DEF Publish, files, tasks, tvars
<1>22. CASE PartFails
    BY <1>22 DEF PartFails, files, tvars
<1>23. CASE Stop
    BY <1>23 DEF Stop, files, tvars
<1>24. CASE UNCHANGED vars
    BY <1>24 DEF vars, files, tasks, tvars
<1> QED
    BY <1>1, <1>2, <1>3, <1>4, <1>5, <1>6, <1>7, <1>8, <1>9, <1>10, <1>11, <1>12,
       <1>13, <1>14, <1>15, <1>16, <1>17, <1>18, <1>19, <1>20, <1>21, <1>22, <1>23,
       <1>24 DEF Next, Work

\* A complete snapshot is always the one its manifest describes: resumed parts of
\* another release and strays never get into it.
THEOREM SnapshotTheorem == Spec => []SnapshotIsTheManifests
<1>1. Inv => SnapshotIsTheManifests
    BY DEF Inv
<1> QED
    BY InvInit, InvStep, <1>1, PTL DEF Spec

-----------------------------------------------------------------------------
(* The parts on the disk and the tasks that write them.                     *)

Pieces == (Releases \X (1..Chunks)) \cup {Hole}

\* A task that was begun has its release, and one that writes has its file, which
\* nobody removes under it without ending it.
Sound(t, f) ==
    /\ t \in TaskRecords
    /\ t.at \in {"asked", "append", "put"} => t.rel \in Releases /\ t.next >= 1
    /\ t.at \in {"append", "put"} => f[t.part] \in Seq(Pieces)

\* What has no structure; Inv has the kinds of the files.
Scalars ==
    /\ headers \in 0..MaxRelease
    /\ tfile \in Releases \cup {None, Cut} /\ trows \in BOOLEAN /\ tapplied \in BOOLEAN
    /\ pc \in Places
    /\ attempt \in 1..MaxAttempts /\ update \in BOOLEAN
    /\ faults \in 0..MaxFaults

\* The parts, the tasks of the running download, and the strays.
OnDisk(f) == f \in [Parts -> Seq(Pieces) \cup {None}]
Running(w, f) == /\ w \in [Parts -> TaskRecords]
                 /\ \A p \in Parts : w[p].part = p /\ Sound(w[p], f)
Adrift(b, f) == IsABag(b) /\ \A t \in DOMAIN b : Sound(t, f)

Written == OnDisk(part) /\ Running(task, part) /\ Adrift(strays, part)

Types == Scalars /\ Written

LEMMA Numbers ==
    /\ MaxRelease \in Nat \ {0} /\ PartCount \in Nat \ {0} /\ Chunks \in Nat \ {0}
    /\ MaxAttempts \in Nat \ {0} /\ MaxFaults \in Nat
    /\ Releases \subseteq Nat \ {0} /\ Parts \subseteq Nat \ {0}
    /\ \A r \in Releases : r \in 0..MaxRelease
    BY BoostAssumption DEF Releases, Parts

LEMMA FaultStays ==
    ASSUME faults \in 0..MaxFaults, Fault
    PROVE  faults' \in 0..MaxFaults
    BY Numbers DEF Fault

LEMMA AttemptStays ==
    ASSUME attempt \in 1..MaxAttempts, AttemptFails
    PROVE  attempt' \in 1..MaxAttempts /\ pc' \in Places
    BY Numbers DEF AttemptFails, Places

\* Putting a piece at a position keeps a file a sequence of pieces.
LEMMA PutStays ==
    ASSUME NEW s \in Seq(Pieces), NEW i \in Nat \ {0}, NEW c \in Pieces
    PROVE  PutAt(s, i, c) \in Seq(Pieces)
<1> DEFINE n == IF Len(s) > i THEN Len(s) ELSE i
           f == [j \in 1..n |-> IF j = i THEN c ELSE IF j <= Len(s) THEN s[j] ELSE Hole]
<1>1. n \in Nat /\ Hole \in Pieces
    BY DEF Pieces
<1>2. \A j \in 1..n : j <= Len(s) => s[j] \in Pieces
    OBVIOUS
<1> HIDE DEF n
<1>3. f \in Seq(Pieces)
    BY <1>1, <1>2
<1>4. PutAt(s, i, c) = f
    BY DEF PutAt, n
<1> QED
    BY <1>3, <1>4

\* What a sound task may do next leaves a sound task and a file.
LEMMA StepsAreSound ==
    ASSUME OnDisk(part), NEW t, Sound(t, part), NEW s \in TaskSteps(t)
    PROVE  /\ s.file \in Seq(Pieces) /\ s.to \in TaskRecords /\ s.to.part = t.part
           /\ s.to.rel \in Releases /\ s.to.next >= 1 /\ s.to.at \in {"append", "put"}
<1> DEFINE file == part[t.part]
           after == [t EXCEPT !.next = t.next + 1]
<1>1. t \in TaskRecords /\ t.part \in Parts /\ t.from \in Nat /\ t.next \in Nat
    BY DEF Sound, TaskRecords
<1>2. file \in Seq(Pieces) \cup {None}
    BY <1>1 DEF OnDisk
<1>3. CASE /\ t.at = "asked" /\ t.from \in 1..(Chunks - 1) /\ file # None
           /\ s = [to |-> [t EXCEPT !.at = "append", !.next = t.from + 1], file |-> file]
  <2> DEFINE resumed == [t EXCEPT !.at = "append", !.next = t.from + 1]
  <2>1. t.from + 1 \in Nat /\ t.from + 1 >= 1 /\ file \in Seq(Pieces)
      BY <1>1, <1>2, <1>3
  <2>2. t.rel \in Releases
      BY <1>3 DEF Sound
  <2>3. /\ resumed \in TaskRecords /\ resumed.part = t.part /\ resumed.rel = t.rel
        /\ resumed.next = t.from + 1 /\ resumed.at = "append"
      BY <1>1, <2>1 DEF TaskRecords, States
  <2>4. s.to = resumed /\ s.file = file
      BY <1>3
  <2> QED
      BY <2>1, <2>2, <2>3, <2>4
<1>4. CASE /\ t.at = "asked" /\ t.from < Chunks
           /\ s = [to |-> [t EXCEPT !.at = "put"], file |-> <<>>]
    BY <1>1, <1>4 DEF Sound, TaskRecords, States
<1>5. ASSUME t.at \in {"append", "put"}, ~Through(t)
      PROVE  /\ <<t.rel, t.next>> \in Pieces /\ file \in Seq(Pieces)
             /\ after \in TaskRecords /\ after.part = t.part /\ after.rel \in Releases
             /\ after.next >= 1 /\ after.at = t.at /\ t.next \in Nat \ {0}
  <2>1. t.rel \in Releases /\ t.next >= 1 /\ file \in Seq(Pieces)
      BY <1>5 DEF Sound
  <2>2. t.next <= Chunks
      BY <1>1, <1>5, Numbers DEF Through
  <2>3. <<t.rel, t.next>> \in Pieces
      BY <1>1, <2>1, <2>2, Numbers DEF Pieces
  <2> QED
      BY <1>1, <2>1, <2>3 DEF TaskRecords
<1>6. CASE /\ t.at = "append" /\ ~Through(t)
           /\ s = [to |-> after, file |-> Append(file, <<t.rel, t.next>>)]
  <2>1. Append(file, <<t.rel, t.next>>) \in Seq(Pieces)
      BY <1>5, <1>6
  <2> HIDE DEF after
  <2> QED
      BY <1>5, <1>6, <2>1
<1>7. CASE /\ t.at = "put" /\ ~Through(t)
           /\ s = [to |-> after, file |-> PutAt(file, t.next, <<t.rel, t.next>>)]
  <2>1. PutAt(file, t.next, <<t.rel, t.next>>) \in Seq(Pieces)
      BY <1>5, <1>7, PutStays
  <2> HIDE DEF after
  <2> QED
      BY <1>5, <1>7, <2>1
<1>8. \/ /\ t.at = "asked" /\ t.from \in 1..(Chunks - 1) /\ file # None
         /\ s = [to |-> [t EXCEPT !.at = "append", !.next = t.from + 1], file |-> file]
      \/ /\ t.at = "asked" /\ t.from < Chunks
         /\ s = [to |-> [t EXCEPT !.at = "put"], file |-> <<>>]
      \/ /\ t.at = "append" /\ ~Through(t)
         /\ s = [to |-> after, file |-> Append(file, <<t.rel, t.next>>)]
      \/ /\ t.at = "put" /\ ~Through(t)
         /\ s = [to |-> after, file |-> PutAt(file, t.next, <<t.rel, t.next>>)]
  <2> SUFFICES s \in TaskSteps(t)
      BY Zenon DEF TaskSteps
  <2> QED
      OBVIOUS
<1> HIDE DEF file, after
<1> QED
    BY Zenon, <1>3, <1>4, <1>6, <1>7, <1>8

LEMMA TaskStepStays ==
    ASSUME OnDisk(part), NEW p \in Parts, NEW x \in Seq(Pieces),
           part' = [part EXCEPT ![p] = x]
    PROVE  /\ OnDisk(part') /\ part'[p] = x
           /\ \A t : Sound(t, part) => Sound(t, part')
<1>1. /\ OnDisk(part') /\ part'[p] = x
      /\ \A q \in Parts : q # p => part'[q] = part[q]
    BY DEF OnDisk
<1>2. ASSUME NEW t, Sound(t, part) PROVE Sound(t, part')
  <2>1. t \in TaskRecords /\ t.part \in Parts
      BY <1>2 DEF Sound, TaskRecords
  <2>2. part'[t.part] \in {x, part[t.part]}
      BY <1>1, <2>1
  <2> QED
      BY <1>2, <2>1, <2>2 DEF Sound
<1> QED
    BY <1>1, <1>2

-----------------------------------------------------------------------------
(* What becomes of the bag of strays. *)

LEMMA AddStays ==
    ASSUME NEW B, IsABag(B), NEW x
    PROVE  IsABag(BagAdd(B, x)) /\ DOMAIN BagAdd(B, x) = DOMAIN B \cup {x}
<1>1. CASE x \in DOMAIN B
  <2>1. BagAdd(B, x) = [e \in DOMAIN B |-> IF e = x THEN B[e] + 1 ELSE B[e]]
      BY <1>1 DEF BagAdd
  <2> QED
      BY <1>1, <2>1 DEF IsABag
<1>2. CASE x \notin DOMAIN B
  <2>1. BagAdd(B, x) = [e \in DOMAIN B \cup {x} |-> IF e = x THEN 1 ELSE B[e]]
      BY <1>2 DEF BagAdd
  <2> QED
      BY <2>1 DEF IsABag
<1> QED
    BY <1>1, <1>2

LEMMA RemoveStays ==
    ASSUME NEW B, IsABag(B), NEW x \in DOMAIN B
    PROVE  IsABag(BagRemove(B, x)) /\ DOMAIN BagRemove(B, x) \subseteq DOMAIN B
<1>1. CASE B[x] = 1
  <2>1. BagRemove(B, x) = [e \in DOMAIN B \ {x} |-> B[e]]
      BY <1>1 DEF BagRemove
  <2> QED
      BY <2>1 DEF IsABag
<1>2. CASE B[x] # 1
  <2>1. BagRemove(B, x) = [e \in DOMAIN B |-> IF e = x THEN B[e] - 1 ELSE B[e]]
      BY <1>2 DEF BagRemove
  <2>2. \A e \in DOMAIN B : B[e] \in Nat /\ B[e] > 0
      BY DEF IsABag
  <2>3. B[x] - 1 \in Nat /\ B[x] - 1 > 0
      BY <1>2, <2>2
  <2> QED
      BY <2>1, <2>2, <2>3 DEF IsABag
<1> QED
    BY <1>1, <1>2

LEMMA RestrictStays ==
    ASSUME NEW B, IsABag(B), NEW S \in SUBSET DOMAIN B
    PROVE  IsABag(Restrict(B, S)) /\ DOMAIN Restrict(B, S) = S
<1>1. Restrict(B, S) = [e \in S |-> B[e]]
    BY DEF Restrict
<1> QED
    BY <1>1 DEF IsABag

LEMMA JoinStays ==
    ASSUME NEW B, IsABag(B), NEW S
    PROVE  /\ IsABag(B (+) SetToBag(S))
           /\ DOMAIN (B (+) SetToBag(S)) = DOMAIN B \cup S
<1> DEFINE J == B (+) SetToBag(S)
<1>1. J = [e \in DOMAIN B \cup S |->
               (IF e \in DOMAIN B THEN B[e] ELSE 0) + (IF e \in S THEN 1 ELSE 0)]
    BY DEF (+), SetToBag
<1>2. \A e \in DOMAIN B : B[e] \in Nat /\ B[e] > 0
    BY DEF IsABag
<1>3. ASSUME NEW e \in DOMAIN B \cup S PROVE J[e] \in Nat /\ J[e] > 0
    BY <1>1, <1>2
<1> HIDE DEF J
<1>4. J = [e \in DOMAIN J |-> J[e]] /\ DOMAIN J = DOMAIN B \cup S
    BY <1>1
<1>5. IsABag(J) /\ DOMAIN J = DOMAIN B \cup S
    BY <1>3, <1>4 DEF IsABag
<1> QED
    BY <1>5 DEF J

LEMMA EmptyIsABag == IsABag(EmptyBag) /\ DOMAIN EmptyBag = {}
    BY DEF IsABag, EmptyBag, SetToBag

\* A process that starts runs no task.
LEMMA NoneRuns ==
    /\ \A f : Running(NoTasks, f)
    /\ \A f : Adrift(EmptyBag, f)
<1>1. ASSUME NEW p \in Parts
      PROVE  NoTask(p) \in TaskRecords /\ NoTask(p).part = p /\ NoTask(p).at = "none"
    BY <1>1, Distinct DEF NoTask, TaskRecords, States
<1>2. \A p \in Parts : NoTasks[p] = NoTask(p)
    BY DEF NoTasks
<1>3. NoTasks \in [Parts -> TaskRecords]
    BY <1>1 DEF NoTasks
<1> QED
    BY <1>1, <1>2, <1>3, EmptyIsABag DEF Running, Adrift, Sound
-----------------------------------------------------------------------------
(* The two parts of the type invariant, step by step. *)

LEMMA ScalarsStep == Inv /\ Scalars /\ [Next]_vars => Scalars'
<1> SUFFICES ASSUME Inv, Scalars, [Next]_vars PROVE Scalars'
    OBVIOUS
<1> USE Numbers, Distinct DEF Inv, Kinds, Scalars, Downloading, Places, Marks, files, tvars, tasks
<1>1. CASE StartSync
  <2>1. 1 \in 1..MaxAttempts /\ attempt' = 1
      BY <1>1 DEF StartSync
  <2>2. pc' \in Places
      BY <1>1 DEF StartSync
  <2> QED
      BY <1>1, <2>1, <2>2 DEF StartSync
<1>2. CASE CheckUpdate
    BY <1>2, FaultStays DEF CheckUpdate
<1>3. CASE DropManifest
    BY <1>3 DEF DropManifest
<1>4. CASE Resolve
    BY <1>4, FaultStays, AttemptStays DEF Resolve
<1>5. CASE FetchManifest
    BY <1>5, FaultStays, AttemptStays DEF FetchManifest
<1>6. CASE AskParts
    BY <1>6, FaultStays, AttemptStays DEF AskParts
<1>7. CASE PartStep
    BY <1>7 DEF PartStep
<1>8. CASE PartsFail
    BY <1>8, AttemptStays DEF PartsFail
<1>9. CASE StrayStep
    BY <1>9 DEF StrayStep
<1>10. CASE Concatenate
    BY <1>10, FaultStays, AttemptStays DEF Concatenate
<1>11. CASE Unpack
    BY <1>11 DEF Unpack
<1>12. CASE UnpackMore
    BY <1>12 DEF UnpackMore
<1>13. CASE UnpackEnds
    BY <1>13 DEF UnpackEnds
<1>14. CASE UnpackFails
    BY <1>14, FaultStays, AttemptStays DEF UnpackFails
<1>15. CASE LoadHeaders
  <2>1. headers' \in 0..MaxRelease
    <3>1. (headers' = headers) \/ (Behind /\ headers' = manifest)
        BY <1>15 DEF LoadHeaders
    <3>2. Behind => manifest \in Releases
        BY DEF Behind
    <3> QED
        BY <3>1, <3>2
  <2>2. pc' \in Places
      BY <1>15 DEF LoadHeaders
  <2> QED
      BY <1>15, <2>1, <2>2 DEF LoadHeaders
<1>16. CASE TBoost
    BY <1>16, FaultStays DEF TBoost
<1>17. CASE TSave
    BY <1>17, FaultStays DEF TSave
<1>18. CASE TApply
    BY <1>18 DEF TApply
<1>19. CASE TMark
    BY <1>19 DEF TMark
<1>20. CASE Rest
    BY <1>20 DEF Rest
<1>21. CASE Publish
    BY <1>21 DEF Publish
<1>22. CASE PartFails
    BY <1>22, FaultStays DEF PartFails
<1>23. CASE Stop
    BY <1>23, FaultStays DEF Stop
<1>24. CASE UNCHANGED vars
    BY <1>24 DEF vars
<1> QED
    BY <1>1, <1>2, <1>3, <1>4, <1>5, <1>6, <1>7, <1>8, <1>9, <1>10, <1>11, <1>12,
       <1>13, <1>14, <1>15, <1>16, <1>17, <1>18, <1>19, <1>20, <1>21, <1>22, <1>23, <1>24
       DEF Next, Work
\* A stray ends, or is replaced by itself one step on.
LEMMA ReplaceStays ==
    ASSUME NEW b, NEW f, NEW t \in DOMAIN b, NEW x, Adrift(b, f), Sound(x, f)
    PROVE  Adrift(BagRemove(b, t), f) /\ Adrift(BagAdd(BagRemove(b, t), x), f)
<1>1. IsABag(BagRemove(b, t)) /\ DOMAIN BagRemove(b, t) \subseteq DOMAIN b
    BY RemoveStays DEF Adrift
<1>2. /\ IsABag(BagAdd(BagRemove(b, t), x))
      /\ DOMAIN BagAdd(BagRemove(b, t), x) = DOMAIN BagRemove(b, t) \cup {x}
    BY <1>1, AddStays
<1> QED
    BY <1>1, <1>2 DEF Adrift

LEMMA WrittenStep == Inv /\ Written /\ [Next]_vars => Written'
<1> SUFFICES ASSUME Inv, Written, [Next]_vars PROVE Written'
    OBVIOUS
<1> USE DEF Written, files, tvars, tasks
<1>1. CASE UNCHANGED <<part, task, strays>>
    BY <1>1
<1>2. CASE AskParts
  <2>1. CASE UNCHANGED task
      BY <1>2, <2>1 DEF AskParts
  <2>2. CASE ~UNCHANGED task
    <3> DEFINE asked(p) ==
            [part |-> p, rel |-> tag, at |-> "asked", next |-> 1,
             from |-> IF part[p] = None THEN 0 ELSE Len(part[p])]
    <3>1. task' = [p \in Parts |-> asked(p)] /\ UNCHANGED <<part, strays>>
        BY <1>2, <2>2 DEF AskParts
    <3>2. tag \in Releases
        BY <1>2 DEF AskParts, Inv, Downloading
    <3>3. ASSUME NEW p \in Parts
          PROVE  asked(p) \in TaskRecords /\ asked(p).part = p /\ Sound(asked(p), part)
      <4>1. (IF part[p] = None THEN 0 ELSE Len(part[p])) \in Nat
          BY DEF OnDisk
      <4>2. asked(p) \in TaskRecords
          BY <3>2, <4>1 DEF TaskRecords, States
      <4> QED
          BY <3>2, <4>2 DEF Sound
    <3> HIDE DEF asked
    <3>4. Running(task', part)
        BY <3>1, <3>3 DEF Running
    <3> QED
        BY <3>1, <3>4
  <2> QED
      BY <2>1, <2>2
<1>3. CASE PartStep
  <2>1. PICK p \in Parts : \E s \in TaskSteps(task[p]) :
            /\ task' = [task EXCEPT ![p] = s.to]
            /\ part' = [part EXCEPT ![p] = s.file]
      BY <1>3 DEF PartStep
  <2>2. PICK s \in TaskSteps(task[p]) :
            /\ task' = [task EXCEPT ![p] = s.to]
            /\ part' = [part EXCEPT ![p] = s.file]
      BY <2>1
  <2>3. Sound(task[p], part) /\ task[p].part = p
      BY DEF Running
  <2>4. /\ s.file \in Seq(Pieces) /\ s.to \in TaskRecords /\ s.to.part = p
        /\ s.to.rel \in Releases /\ s.to.next >= 1 /\ s.to.at \in {"append", "put"}
      BY <2>3, StepsAreSound
  <2>5. OnDisk(part') /\ part'[p] = s.file /\ \A t : Sound(t, part) => Sound(t, part')
      BY <2>2, <2>4, TaskStepStays
  <2>6. Sound(s.to, part')
      BY <2>4, <2>5 DEF Sound
  <2>7. Running(task', part')
      BY <2>2, <2>4, <2>5, <2>6 DEF Running
  <2>8. Adrift(strays', part')
      BY <1>3, <2>5 DEF PartStep, Adrift
  <2> QED
      BY <2>5, <2>7, <2>8
<1>4. CASE PartFails
  <2>1. PICK p \in Parts : task' = [task EXCEPT ![p].at = "failed"]
      BY <1>4 DEF PartFails
  <2> DEFINE failed == [task[p] EXCEPT !.at = "failed"]
  <2>2. failed \in TaskRecords /\ failed.part = p /\ failed.at = "failed"
      BY DEF Running, TaskRecords, States
  <2>3. Sound(failed, part)
      BY <2>2 DEF Sound
  <2>4. task' = [task EXCEPT ![p] = failed]
      BY <2>1
  <2> HIDE DEF failed
  <2>5. Running(task', part)
      BY <2>2, <2>3, <2>4 DEF Running
  <2> QED
      BY <1>4, <2>5 DEF PartFails
<1>5. CASE PartsFail
  <2> DEFINE S == {t \in {task[p] : p \in Parts} : t.at # "failed" /\ ~Through(t)}
  <2>1. strays' = strays (+) SetToBag(S) /\ task' = NoTasks /\ UNCHANGED part
      BY <1>5 DEF PartsFail
  <2>2. \A t \in S : Sound(t, part)
      BY DEF Running
  <2> HIDE DEF S
  <2>3. Adrift(strays', part)
      BY <2>1, <2>2, JoinStays DEF Adrift
  <2> QED
      BY <2>1, <2>3, NoneRuns
<1>6. CASE StrayStep
  <2>1. PICK t \in DOMAIN strays :
            \/ \E s \in TaskSteps(t) :
                  /\ strays' = BagAdd(BagRemove(strays, t), s.to)
                  /\ part' = [part EXCEPT ![t.part] = s.file]
            \/ strays' = BagRemove(strays, t) /\ UNCHANGED part
      BY <1>6 DEF StrayStep
  <2>2. UNCHANGED task
      BY <1>6 DEF StrayStep
  <2>3. Sound(t, part) /\ t.part \in Parts
      BY DEF Adrift, Sound, TaskRecords
  <2>4. CASE strays' = BagRemove(strays, t) /\ UNCHANGED part
      BY <2>2, <2>3, <2>4, ReplaceStays
  <2>5. ASSUME NEW s \in TaskSteps(t),
               strays' = BagAdd(BagRemove(strays, t), s.to),
               part' = [part EXCEPT ![t.part] = s.file]
        PROVE  Written'
    <3>1. /\ s.file \in Seq(Pieces) /\ s.to \in TaskRecords /\ s.to.part = t.part
          /\ s.to.rel \in Releases /\ s.to.next >= 1 /\ s.to.at \in {"append", "put"}
        BY <2>3, StepsAreSound
    <3>2. /\ OnDisk(part') /\ part'[t.part] = s.file
          /\ \A u : Sound(u, part) => Sound(u, part')
        BY <2>3, <2>5, <3>1, TaskStepStays
    <3>3. Sound(s.to, part')
        BY <3>1, <3>2 DEF Sound
    <3>4. Running(task', part') /\ Adrift(strays, part')
        BY <2>2, <3>2 DEF Running, Adrift
    <3>5. Adrift(strays', part')
        BY <2>5, <3>3, <3>4, ReplaceStays
    <3> QED
        BY <3>2, <3>4, <3>5
  <2> QED
      BY <2>1, <2>4, <2>5
<1>7. CASE Concatenate
  <2>1. task' = NoTasks
      BY <1>7 DEF Concatenate
  <2>2. PICK p \in Nat :
            /\ part' = [q \in Parts |-> IF q < p THEN None ELSE part[q]]
            /\ strays' = Restrict(strays, {t \in DOMAIN strays : t.at = "asked"
                                                             \/ t.part >= p})
    <3>1. CASE /\ part' = [q \in Parts |-> None]
               /\ strays' = Restrict(strays, {t \in DOMAIN strays : t.at = "asked"})
      <4>1. PartCount + 1 \in Nat /\ \A q \in Parts : q < PartCount + 1
          BY Numbers DEF Parts
      <4>2. \A t \in DOMAIN strays : ~(t.part >= PartCount + 1)
          BY Numbers, <4>1 DEF Adrift, Sound, TaskRecords, Parts
      <4>3. part' = [q \in Parts |-> IF q < PartCount + 1 THEN None ELSE part[q]]
          BY <3>1, <4>1
      <4>4. strays' = Restrict(strays, {t \in DOMAIN strays : t.at = "asked"
                                                      \/ t.part >= PartCount + 1})
        <5>1. {t \in DOMAIN strays : t.at = "asked"} =
                  {t \in DOMAIN strays : t.at = "asked" \/ t.part >= PartCount + 1}
            BY <4>2
        <5> QED
            BY <3>1, <5>1
      <4> QED
          BY <4>1, <4>3, <4>4
    <3>2. ASSUME NEW p \in Parts,
                 part' = [q \in Parts |-> IF q < p THEN None ELSE part[q]],
                 strays' = Restrict(strays, {t \in DOMAIN strays : t.at = "asked"
                                                               \/ t.part >= p})
          PROVE  \E n \in Nat :
                    /\ part' = [q \in Parts |-> IF q < n THEN None ELSE part[q]]
                    /\ strays' = Restrict(strays, {t \in DOMAIN strays : t.at = "asked"
                                                                     \/ t.part >= n})
        BY <3>2, Numbers
    <3> QED
        BY <1>7, <3>1, <3>2 DEF Concatenate
  <2> DEFINE left == {t \in DOMAIN strays : t.at = "asked" \/ t.part >= p}
  <2>3. OnDisk(part')
      BY <2>2 DEF OnDisk
  <2>4. ASSUME NEW t \in left PROVE Sound(t, part')
    <3>1. Sound(t, part) /\ t.part \in Parts /\ (t.at = "asked" \/ t.part >= p)
        BY DEF Adrift, Sound, TaskRecords
    <3>2. t.part >= p => ~(t.part < p)
      <4>1. t.part \in Nat
          BY <3>1, Numbers
      <4> QED
          BY <2>2, <4>1
    <3>3. t.part >= p => part'[t.part] = part[t.part]
        BY <2>2, <3>1, <3>2
    <3> QED
        BY <3>1, <3>3 DEF Sound
  <2>5. strays' = Restrict(strays, left) /\ left \in SUBSET DOMAIN strays
      BY <2>2
  <2> HIDE DEF left
  <2>6. IsABag(strays') /\ DOMAIN strays' = left
      BY <2>5, RestrictStays DEF Adrift
  <2> QED
      BY <2>1, <2>3, <2>4, <2>6, NoneRuns DEF Adrift
<1>8. CASE Stop
    BY <1>8, NoneRuns DEF Stop
<1>9. \/ UNCHANGED <<part, task, strays>>
      \/ AskParts \/ PartStep \/ PartFails \/ PartsFail \/ StrayStep \/ Concatenate \/ Stop
    BY DEF Next, Work, vars, StartSync, CheckUpdate, DropManifest, Resolve, FetchManifest,
           Unpack, UnpackMore, UnpackEnds, UnpackFails, LoadHeaders, TBoost, TSave, TApply,
           TMark, Rest, Publish
<1> QED
    BY <1>1, <1>2, <1>3, <1>4, <1>5, <1>6, <1>7, <1>8, <1>9

LEMMA TypesInit == Init => Types
<1> SUFFICES ASSUME Init PROVE Types
    OBVIOUS
<1>1. Scalars
  <2>1. 1 \in 1..MaxAttempts /\ 0 \in 0..MaxRelease /\ 0 \in 0..MaxFaults
      BY Numbers
  <2> QED
      BY <2>1 DEF Init, Scalars, Places
<1>2. OnDisk(part)
    BY DEF Init, OnDisk
<1> QED
    BY <1>1, <1>2, NoneRuns DEF Init, Types, Written

LEMMA TypesGiveTypeOK == Inv /\ Types => TypeOK
<1> SUFFICES ASSUME Inv, Types PROVE TypeOK
    OBVIOUS
<1>1. \A p \in Parts : part[p] # None =>
          part[p] \in Seq((Releases \X (1..Chunks)) \cup {Hole})
    BY DEF Types, Written, OnDisk, Pieces
<1>2. \A p \in Parts : task[p] \in TaskRecords /\ task[p].part = p
    BY DEF Types, Written, Running
<1>3. IsABag(strays) /\ DOMAIN strays \subseteq TaskRecords
    BY DEF Types, Written, Adrift, Sound
<1> QED
    BY <1>1, <1>2, <1>3 DEF Inv, Kinds, Types, Scalars, TypeOK

\* The files, the flags and the tasks of a download stay well formed, whatever fails and
\* whichever tasks are left over. Written is what it takes: no task, of this download or
\* of an earlier one, goes on in a part that was taken away for the concatenation.
THEOREM TypeCorrect == Spec => []TypeOK
<1>1. Inv /\ Types /\ [Next]_vars => (Inv /\ Types)'
    BY InvStep, ScalarsStep, WrittenStep DEF Types
<1> QED
    BY InvInit, TypesInit, <1>1, TypesGiveTypeOK, PTL DEF Spec

-----------------------------------------------------------------------------
(* How long a snapshot is kept.                                             *)

\* A complete snapshot is removed for a newer release only, and never written over: not by
\* failed attempts, strays, garbled manifests or stops.
THEOREM SnapshotIsKept ==
    Spec => [][(bin \in Releases /\ bin' # bin) => (bin' = None /\ latest > bin)]_vars
<1>1. ASSUME Inv, [Next]_vars, bin \in Releases, bin' # bin
      PROVE  bin' = None /\ latest > bin
  <2>1. CheckUpdate
    <3>1. ~UNCHANGED bin
        BY <1>1
    <3>2. Unpack \/ UnpackMore \/ UnpackEnds => bin \notin Releases
        BY <1>1 DEF Inv, Downloading, Unpack, UnpackMore, UnpackEnds
    <3> QED
        BY <1>1, <3>1, <3>2 DEF Next, Work, vars, files, StartSync, DropManifest, Resolve,
           FetchManifest, AskParts, PartStep, PartsFail, StrayStep, Concatenate, UnpackFails,
           LoadHeaders, TBoost, TSave, TApply, TMark, Rest, Publish, PartFails, Stop
  <2>2. bin' = None /\ manifest # Garbled /\ ~UpToDate
      BY <1>1, <2>1 DEF CheckUpdate
  <2>3. manifest \in Releases /\ manifest = bin
      BY <1>1, <2>2 DEF Inv, Kinds, SnapshotIsTheManifests
  <2>4. latest \in Nat /\ bin \in Nat
      BY <1>1, Numbers DEF Inv, Kinds
  <2> QED
      BY <2>2, <2>3, <2>4 DEF UpToDate
<1>2. Inv /\ [Next]_vars =>
        [(bin \in Releases /\ bin' # bin) => (bin' = None /\ latest > bin)]_vars
    BY <1>1
<1> QED
    BY InvInit, InvStep, <1>2, PTL DEF Spec

-----------------------------------------------------------------------------
(* How long a sync can be at its downloads.                                 *)

\* What is left of it, the digits in order of weight: the leg it is on, all attempts
\* being one; the attempts after this one; the place in a leg; and what the tasks of the
\* parts have still to do, a finite set that becomes smaller.
Leg ==
    CASE pc = "check" -> 9 [] pc = "drop" -> 8
      [] pc \in {"attempt"} \cup Downloading -> 7
      [] pc = "load" -> 6 [] pc = "tboost" -> 5 [] pc = "tsave" -> 4
      [] pc = "tapply" -> 3 [] pc = "tmark" -> 2 [] pc = "rest" -> 1
      [] OTHER -> 0

Place ==
    CASE pc = "attempt" -> 7 [] pc = "manifest" -> 6 [] pc = "heads" -> 5
      [] pc = "parts" -> 4 [] pc = "unpack" -> 3
      [] pc = "unpacking" -> IF bin = Small THEN 2 ELSE 1
      [] pc = "tsave" /\ tfile = None -> 1
      [] OTHER -> 0

\* A task opens its file, and then writes a chunk after the other.
Owes(t) ==
    IF t.at = "asked" THEN 0..Chunks
    ELSE IF t.at \in {"append", "put"} THEN t.next..Chunks ELSE {}

Owed == {o \in Parts \X (0..Chunks) : pc = "parts" /\ o[2] \in Owes(task[o[1]])}

SyncFits == Leg \in 0..9 /\ MaxAttempts - attempt \in 0..(MaxAttempts - 1) /\ Place \in 0..7

SyncStays == UNCHANGED <<Leg, attempt, Place, Owed>>

LessSync ==
    \/ Leg' < Leg
    \/ /\ Leg' = Leg
       /\ \/ MaxAttempts - attempt' < MaxAttempts - attempt
          \/ /\ attempt' = attempt
             /\ \/ Place' < Place
                \/ Place' = Place /\ Owed' \subseteq Owed /\ Owed' # Owed

\* The tasks of a download that waits for its parts have been begun.
Begun == pc = "parts" => \A p \in Parts : task[p].at # "none"

LEMMA FitsInASync ==
    ASSUME Scalars
    PROVE  SyncFits
<1>1. MaxAttempts - attempt \in 0..(MaxAttempts - 1)
    BY Numbers DEF Scalars
<1>2. Leg \in 0..9
    BY DEF Leg
<1>3. Place \in 0..7
    BY DEF Place
<1> QED
    BY <1>1, <1>2, <1>3 DEF SyncFits

\* If one task owes less and the others what they owed, less is owed.
LEMMA OwedShrinks ==
    ASSUME NEW p \in Parts, NEW c \in 0..Chunks, NEW x,
           pc = "parts", pc' = "parts", attempt' = attempt,
           task \in [Parts -> TaskRecords], task' = [task EXCEPT ![p] = x],
           c \in Owes(task[p]), c \notin Owes(x), Owes(x) \subseteq Owes(task[p])
    PROVE  LessSync
<1>1. task'[p] = x /\ \A q \in Parts : q # p => task'[q] = task[q]
    OBVIOUS
<1>2. Owed' = {o \in Parts \X (0..Chunks) : o[2] \in Owes(task'[o[1]])}
    BY DEF Owed, Owes
<1>3. Owed' \subseteq Owed
  <2>1. ASSUME NEW o \in Parts \X (0..Chunks), o[2] \in Owes(task'[o[1]])
        PROVE  o[2] \in Owes(task[o[1]])
    <3>1. CASE o[1] = p
        BY <1>1, <2>1, <3>1
    <3>2. CASE o[1] # p
        BY <1>1, <2>1, <3>2
    <3> QED
        BY <3>1, <3>2
  <2> QED
      BY <1>2, <2>1 DEF Owed
<1>4. <<p, c>> \in Owed /\ <<p, c>> \notin Owed'
    BY <1>1, <1>2 DEF Owed
<1>5. Leg' = Leg /\ Place' = Place
    BY DEF Leg, Place
<1> QED
    BY <1>3, <1>4, <1>5 DEF LessSync

\* An attempt that failed leaves less of them, or none.
LEMMA FailsOnward ==
    ASSUME Scalars, pc \in {"attempt"} \cup Downloading, AttemptFails
    PROVE  LessSync
<1>1. attempt \in Nat /\ MaxAttempts \in Nat
    BY Numbers DEF Scalars
<1>2. \/ pc' = "attempt" /\ attempt' = attempt + 1
      \/ pc' = "load"
    BY DEF AttemptFails
<1>3. Leg = 7
    BY DEF Leg, Downloading
<1>4. CASE pc' = "load"
  <2>1. Leg' = 6
      BY <1>4 DEF Leg, Downloading
  <2> QED
      BY <1>3, <2>1 DEF LessSync
<1>5. CASE pc' = "attempt" /\ attempt' = attempt + 1
  <2>1. Leg' = 7
      BY <1>5 DEF Leg, Downloading
  <2>2. MaxAttempts - attempt' < MaxAttempts - attempt
      BY <1>1, <1>5
  <2> QED
      BY <1>3, <2>1, <2>2 DEF LessSync
<1> QED
    BY <1>2, <1>4, <1>5

\* On to a later place of the same attempt, or to a later leg.
LEMMA GoesOnward ==
    ASSUME attempt' = attempt,
           \/ pc = "attempt" /\ pc' = "manifest"
           \/ pc = "manifest" /\ pc' = "heads"
           \/ pc = "heads" /\ pc' = "parts"
           \/ pc = "parts" /\ pc' = "unpack"
           \/ pc = "unpack" /\ pc' = "unpacking"
    PROVE  LessSync
<1>1. Leg' = 7 /\ Leg = 7
    BY DEF Leg, Downloading
<1>2. Place' < Place
    BY DEF Place
<1> QED
    BY <1>1, <1>2 DEF LessSync

LEMMA LegsOnward ==
    ASSUME \/ pc = "check" /\ pc' \in {"load", "drop"}
           \/ pc = "drop" /\ pc' = "attempt"
           \/ pc \in {"attempt"} \cup Downloading /\ pc' = "load"
           \/ pc = "load" /\ pc' \in {"tboost", "idle"}
           \/ pc = "tboost" /\ pc' \in {"tsave", "tapply", "rest"}
           \/ pc = "tsave" /\ pc' \in {"tapply", "rest"}
           \/ pc = "tapply" /\ pc' \in {"tmark", "rest"}
           \/ pc = "tmark" /\ pc' = "rest"
           \/ pc = "rest" /\ pc' = "idle"
    PROVE  LessSync
<1>1. Leg' < Leg
    BY DEF Leg, Downloading
<1> QED
    BY <1>1 DEF LessSync

\* The bytes of a part that are written, and those that will not come.
LEMMA TaskOwesLess ==
    ASSUME NEW t, Sound(t, part), NEW s \in TaskSteps(t)
    PROVE  /\ Owes(s.to) \subseteq Owes(t)
           /\ \E c \in 0..Chunks : c \in Owes(t) /\ c \notin Owes(s.to)
<1> DEFINE file == part[t.part]
           after == [t EXCEPT !.next = t.next + 1]
<1>0. Chunks \in Nat \ {0}
    BY Numbers
<1>1. t \in TaskRecords /\ t.from \in Nat /\ t.next \in Nat
    BY DEF Sound, TaskRecords
<1>2. CASE /\ t.at = "asked" /\ t.from \in 1..(Chunks - 1)
           /\ s = [to |-> [t EXCEPT !.at = "append", !.next = t.from + 1], file |-> file]
  <2>1. s.to.at = "append" /\ s.to.next = t.from + 1
      BY <1>1, <1>2 DEF TaskRecords
  <2>2. Owes(s.to) = (t.from + 1)..Chunks /\ Owes(t) = 0..Chunks
      BY <1>2, <2>1 DEF Owes
  <2> HIDE DEF file
  <2>3. 0 \in 0..Chunks /\ 0 \notin (t.from + 1)..Chunks /\ (t.from + 1)..Chunks \subseteq 0..Chunks
      BY <1>0, <1>1
  <2> QED
      BY <2>2, <2>3
<1>3. CASE /\ t.at = "asked" /\ t.from < Chunks
           /\ s = [to |-> [t EXCEPT !.at = "put"], file |-> <<>>]
  <2>1. s.to.at = "put" /\ s.to.next = t.next /\ t.next >= 1
      BY <1>1, <1>3 DEF TaskRecords, Sound
  <2>2. Owes(s.to) = t.next..Chunks /\ Owes(t) = 0..Chunks
      BY <1>3, <2>1 DEF Owes
  <2>3. 0 \in 0..Chunks /\ 0 \notin t.next..Chunks /\ t.next..Chunks \subseteq 0..Chunks
      BY <1>0, <1>1, <2>1
  <2> QED
      BY <2>2, <2>3
<1>4. ASSUME t.at \in {"append", "put"}, ~Through(t), s.to = after
      PROVE  /\ Owes(s.to) \subseteq Owes(t)
             /\ \E c \in 0..Chunks : c \in Owes(t) /\ c \notin Owes(s.to)
  <2>1. s.to.at = t.at /\ s.to.next = t.next + 1
      BY <1>1, <1>4 DEF TaskRecords
  <2>2. Owes(s.to) = (t.next + 1)..Chunks /\ Owes(t) = t.next..Chunks
      BY <1>4, <2>1 DEF Owes
  <2>3. t.next <= Chunks
      BY <1>0, <1>1, <1>4 DEF Through
  <2>4. /\ t.next \in 0..Chunks /\ t.next \in t.next..Chunks
        /\ t.next \notin (t.next + 1)..Chunks /\ (t.next + 1)..Chunks \subseteq t.next..Chunks
      BY <1>0, <1>1, <2>3
  <2> QED
      BY <2>2, <2>4
<1>5. \/ /\ t.at = "asked" /\ t.from \in 1..(Chunks - 1)
         /\ s = [to |-> [t EXCEPT !.at = "append", !.next = t.from + 1], file |-> file]
      \/ /\ t.at = "asked" /\ t.from < Chunks
         /\ s = [to |-> [t EXCEPT !.at = "put"], file |-> <<>>]
      \/ t.at \in {"append", "put"} /\ ~Through(t) /\ s.to = after
  <2>1. \/ /\ t.at = "asked" /\ t.from \in 1..(Chunks - 1) /\ file # None
           /\ s = [to |-> [t EXCEPT !.at = "append", !.next = t.from + 1], file |-> file]
        \/ /\ t.at = "asked" /\ t.from < Chunks
           /\ s = [to |-> [t EXCEPT !.at = "put"], file |-> <<>>]
        \/ /\ t.at = "append" /\ ~Through(t)
           /\ s = [to |-> after, file |-> Append(file, <<t.rel, t.next>>)]
        \/ /\ t.at = "put" /\ ~Through(t)
           /\ s = [to |-> after, file |-> PutAt(file, t.next, <<t.rel, t.next>>)]
    <3> SUFFICES s \in TaskSteps(t)
        BY Zenon DEF TaskSteps
    <3> QED
        OBVIOUS
  <2> HIDE DEF file, after
  <2> QED
      BY <2>1
<1> HIDE DEF file, after
<1> QED
    BY <1>2, <1>3, <1>4, <1>5

LEMMA FailedOwesNothing ==
    ASSUME NEW t, Sound(t, part), t.at \in {"asked", "append", "put"}, ~Through(t)
    PROVE  \E c \in 0..Chunks : c \in Owes(t)
<1>0. Chunks \in Nat \ {0}
    BY Numbers
<1>1. t.next \in Nat
    BY DEF Sound, TaskRecords
<1>2. CASE t.at = "asked"
  <2>1. 0 \in 0..Chunks
      BY <1>0
  <2> QED
      BY <1>2, <2>1 DEF Owes
<1>3. CASE t.at \in {"append", "put"}
  <2>1. t.next <= Chunks
      BY <1>0, <1>1, <1>3 DEF Through
  <2>2. t.next \in 0..Chunks /\ t.next \in t.next..Chunks
      BY <1>0, <1>1, <2>1
  <2> QED
      BY <1>3, <2>2 DEF Owes
<1> QED
    BY <1>2, <1>3

LEMMA BegunStep ==
    ASSUME Written, Begun, [Next]_vars
    PROVE  Begun'
<1>1. CASE AskParts
    BY <1>1 DEF AskParts, AttemptFails, Begun
<1>2. CASE PartStep
  <2>1. PICK p \in Parts : \E s \in TaskSteps(task[p]) : task' = [task EXCEPT ![p] = s.to]
      BY <1>2 DEF PartStep
  <2>2. PICK s \in TaskSteps(task[p]) : task' = [task EXCEPT ![p] = s.to]
      BY <2>1
  <2>3. s.to.at # "none" /\ task \in [Parts -> TaskRecords]
    <3>1. Sound(task[p], part) /\ OnDisk(part)
        BY DEF Written, Running
    <3>2. s.to.at \in {"append", "put"}
        BY <3>1, StepsAreSound
    <3> QED
        BY <3>2 DEF Written, Running
  <2> QED
      BY <1>2, <2>2, <2>3 DEF Begun, PartStep
<1>3. CASE PartFails
  <2>1. PICK p \in Parts : task' = [task EXCEPT ![p].at = "failed"]
      BY <1>3 DEF PartFails
  <2>2. task \in [Parts -> TaskRecords]
      BY DEF Written, Running
  <2> QED
      BY <1>3, <2>1, <2>2 DEF Begun, PartFails, TaskRecords
<1>4. CASE pc' = pc /\ task' = task
    BY <1>4 DEF Begun
<1>5. CASE pc' # "parts"
    BY <1>5 DEF Begun
<1>6. \/ AskParts \/ PartStep \/ PartFails \/ pc' # "parts" \/ (pc' = pc /\ task' = task)
    BY DEF Next, Work, vars, tasks, StartSync, CheckUpdate, DropManifest, Resolve, FetchManifest,
       AttemptFails, PartsFail, StrayStep, Concatenate, Unpack, UnpackMore, UnpackEnds,
       UnpackFails, LoadHeaders, TBoost, TSave, TApply, TMark, Rest, Publish, Stop
<1> QED
    BY <1>1, <1>2, <1>3, <1>4, <1>5, <1>6

\* One step per action.
LEMMA SyncGoesOn ==
    ASSUME Inv, Scalars, Written, Begun, Next, pc # "idle"
    PROVE  LessSync \/ (SyncStays /\ (StrayStep \/ Publish))
<1>1. CASE CheckUpdate
    BY <1>1, LegsOnward DEF CheckUpdate
<1>2. CASE DropManifest
    BY <1>2, LegsOnward DEF DropManifest
<1>3. CASE Resolve
  <2>1. pc = "attempt" /\ \/ pc' = "load"
                          \/ pc' = "manifest" /\ attempt' = attempt
                          \/ AttemptFails
      BY <1>3 DEF Resolve
  <2> QED
      BY <2>1, LegsOnward, GoesOnward, FailsOnward
<1>4. CASE FetchManifest
  <2>1. pc = "manifest" /\ \/ pc' = "heads" /\ attempt' = attempt
                           \/ AttemptFails
      BY <1>4 DEF FetchManifest
  <2> QED
      BY <2>1, GoesOnward, FailsOnward DEF Downloading
<1>5. CASE AskParts
  <2>1. pc = "heads" /\ \/ pc' = "parts" /\ attempt' = attempt
                        \/ AttemptFails
      BY <1>5 DEF AskParts
  <2> QED
      BY <2>1, GoesOnward, FailsOnward DEF Downloading
<1>6. CASE PartStep
  <2>1. PICK p \in Parts : \E s \in TaskSteps(task[p]) : task' = [task EXCEPT ![p] = s.to]
      BY <1>6 DEF PartStep
  <2>2. PICK s \in TaskSteps(task[p]) : task' = [task EXCEPT ![p] = s.to]
      BY <2>1
  <2>3. Sound(task[p], part) /\ task \in [Parts -> TaskRecords]
      BY DEF Written, Running
  <2>4. PICK c \in 0..Chunks : c \in Owes(task[p]) /\ c \notin Owes(s.to)
      BY <2>3, TaskOwesLess
  <2>5. Owes(s.to) \subseteq Owes(task[p])
      BY <2>3, TaskOwesLess
  <2>6. pc = "parts" /\ pc' = "parts" /\ attempt' = attempt
      BY <1>6 DEF PartStep
  <2> QED
      BY <2>2, <2>3, <2>4, <2>5, <2>6, OwedShrinks
<1>7. CASE PartFails
  <2>1. PICK p \in Parts : /\ task[p].at # "failed" /\ ~Through(task[p])
                           /\ task' = [task EXCEPT ![p].at = "failed"]
      BY <1>7 DEF PartFails
  <2>2. pc = "parts" /\ pc' = "parts" /\ attempt' = attempt
      BY <1>7 DEF PartFails
  <2> DEFINE failed == [task[p] EXCEPT !.at = "failed"]
  <2>3. Sound(task[p], part) /\ task \in [Parts -> TaskRecords]
      BY DEF Written, Running
  <2>4. task[p].at \in {"asked", "append", "put"}
      BY <2>1, <2>2, <2>3 DEF Begun, TaskRecords, States
  <2>5. PICK c \in 0..Chunks : c \in Owes(task[p])
      BY <2>1, <2>3, <2>4, FailedOwesNothing
  <2>6. Owes(failed) = {} /\ task' = [task EXCEPT ![p] = failed]
      BY <2>1, <2>3 DEF Owes, TaskRecords
  <2> HIDE DEF failed
  <2> QED
      BY <2>2, <2>3, <2>5, <2>6, OwedShrinks
<1>8. CASE PartsFail
    BY <1>8, FailsOnward DEF PartsFail, Downloading
<1>9. CASE StrayStep \/ Publish
  <2>1. UNCHANGED <<pc, attempt, task, bin, tfile>>
      BY <1>9 DEF StrayStep, Publish, tvars, files, tasks
  <2>2. UNCHANGED <<Leg, Place>>
      BY <2>1 DEF Leg, Place
  <2>3. UNCHANGED Owed
      BY <2>1 DEF Owed, Owes
  <2> QED
      BY <1>9, <2>1, <2>2, <2>3 DEF SyncStays
<1>10. CASE Concatenate
  <2>1. pc = "parts" /\ \/ pc' = "unpack" /\ attempt' = attempt
                        \/ AttemptFails
      BY <1>10 DEF Concatenate
  <2> QED
      BY <2>1, GoesOnward, FailsOnward DEF Downloading
<1>11. CASE Unpack
    BY <1>11, GoesOnward DEF Unpack
<1>12. CASE UnpackMore
  <2>1. /\ pc = "unpacking" /\ pc' = "unpacking" /\ bin = Small /\ bin' = Cut
        /\ attempt' = attempt
      BY <1>12 DEF UnpackMore
  <2>2. Place' < Place /\ Leg' = Leg
      BY <2>1, BoostAssumption DEF Place, Leg, Downloading
  <2> QED
      BY <2>1, <2>2 DEF LessSync
<1>13. CASE UnpackEnds
    BY <1>13, LegsOnward DEF UnpackEnds, Downloading
<1>14. CASE UnpackFails
    BY <1>14, FailsOnward DEF UnpackFails, Downloading
<1>15. CASE LoadHeaders
    BY <1>15, LegsOnward DEF LoadHeaders
<1>16. CASE TBoost
    BY <1>16, LegsOnward DEF TBoost
<1>17. CASE TSave
  <2>1. CASE pc' \in {"tapply", "rest"}
      BY <1>17, <2>1, LegsOnward DEF TSave
  <2>2. CASE pc' \notin {"tapply", "rest"}
    <3>1. /\ pc = "tsave" /\ pc' = "tsave" /\ tfile = None /\ tfile' = Cut
          /\ attempt' = attempt
        BY <1>17, <2>2 DEF TSave
    <3>2. Place' < Place /\ Leg' = Leg
        BY <3>1, BoostAssumption DEF Place, Leg, Downloading
    <3> QED
        BY <3>1, <3>2 DEF LessSync
  <2> QED
      BY <2>1, <2>2
<1>18. CASE TApply
    BY <1>18, LegsOnward DEF TApply
<1>19. CASE TMark
    BY <1>19, LegsOnward DEF TMark
<1>20. CASE Rest
    BY <1>20, LegsOnward DEF Rest
<1>21. CASE Stop
  <2>1. pc' = "idle" /\ pc \in Places \ {"idle"}
      BY <1>21 DEF Stop, Scalars
  <2>2. Leg' < Leg
      BY <2>1 DEF Leg, Downloading, Places
  <2> QED
      BY <2>2 DEF LessSync
<1>22. CASE StartSync
    BY <1>22 DEF StartSync
<1> QED
    BY <1>1, <1>2, <1>3, <1>4, <1>5, <1>6, <1>7, <1>8, <1>9, <1>10, <1>11, <1>12,
       <1>13, <1>14, <1>15, <1>16, <1>17, <1>18, <1>19, <1>20, <1>21, <1>22 DEF Next, Work

\* The safety core of SnapshotArrives: whatever fails, stops or is published meanwhile,
\* each step of a sync's downloads leaves less of a bounded measure, except those of
\* strays, so that a sync gets through them and leaves the next one its turn.
THEOREM DownloadIsBounded ==
    Spec => /\ []SyncFits
            /\ [][pc # "idle" => LessSync \/ (SyncStays /\ (StrayStep \/ Publish))]_vars
<1>1. Init => Inv /\ Types /\ Begun
    BY InvInit, TypesInit DEF Init, Begun
<1>2. Inv /\ Types /\ Begun /\ [Next]_vars => (Inv /\ Types /\ Begun)'
    BY InvStep, ScalarsStep, WrittenStep, BegunStep DEF Types
<1>3. Inv /\ Types => SyncFits
    BY FitsInASync DEF Types
<1>4. Inv /\ Types /\ Begun /\ [Next]_vars
      => [pc # "idle" => LessSync \/ (SyncStays /\ (StrayStep \/ Publish))]_vars
    BY SyncGoesOn DEF Types
<1> QED
    BY <1>1, <1>2, <1>3, <1>4, PTL DEF Spec
=============================================================================
