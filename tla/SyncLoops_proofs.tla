-------------------------- MODULE SyncLoops_proofs --------------------------
(***************************************************************************)
(* Who may sync, and how long a sync takes: for any number of syncs, sends *)
(* and repairs (SyncGuards), and for any number of peers (PeerPool).       *)
(*                                                                         *)
(* The mutex and the flags let one task in at a time and turn nobody away; *)
(* the invariant is the conjunction of the three and of the type: a task   *)
(* past its guards holds the mutex, so the flag it sets was down before.   *)
(* That nobody waits for ever rests on two facts proved after it: the line *)
(* is never muddled, and every step brings everyone who waits nearer.      *)
(*                                                                         *)
(* The invariant of the loop over the pool bounds what is known by what    *)
(* there is. From it: a sync does not run beyond the chain while confused  *)
(* peers are outvoted, and a loop that wakes goes to sleep again after a   *)
(* number of steps known beforehand.                                       *)
(***************************************************************************)
EXTENDS PeerPool, SyncGuards, SequenceTheorems, FiniteSetTheorems, TLAPS

-----------------------------------------------------------------------------
(* Who may sync.                                                            *)

GuardsInv == GuardsTypeOK /\ FlagsAreHeld /\ NobodyIsTurnedAway /\ OneAtATime

LEMMA LineIsShortened ==
    ASSUME GuardsTypeOK, NEW i \in DOMAIN line
    PROVE  LineWithout(i) \in Seq(Tasks)
<1>1. line \in Seq(Tasks) /\ i \in 1 .. Len(line)
    BY DEF GuardsTypeOK
<1>2. SubSeq(line, 1, i - 1) \in Seq(Tasks)
    BY <1>1, SubSeqProperties
<1>3. SubSeq(line, i + 1, Len(line)) \in Seq(Tasks)
    BY <1>1, SubSeqProperties
<1> QED
    BY <1>2, <1>3, ConcatProperties DEF LineWithout

\* Whoever is past its guards holds the mutex, so there is only one, and steps
\* of tasks leave the repairs alone.
LEMMA TasksKeepOne ==
    ASSUME GuardsInv, GuardsTypeOK',
           repairing' = repairing
    PROVE  OneAtATime'
<1>2. (\A u, v \in Tasks : Working(u) /\ Working(v) => u = v)'
    BY DEF GuardsTypeOK, Working
<1> QED
    BY <1>2 DEF GuardsInv, OneAtATime

LEMMA GuardsInitially == GuardsInit => GuardsInv
BY TasksAssumption, EmptySeq
DEF GuardsInit, GuardsInv, GuardsTypeOK, FlagsAreHeld, NobodyIsTurnedAway, OneAtATime, Working, Tasks,
    Holds

LEMMA SyncKeepsInv ==
    ASSUME GuardsInv, NEW s \in Syncs, Sync(s) \/ Abort(s)
    PROVE  GuardsInv'
<1> USE TasksAssumption DEF GuardsInv, Tasks
<1>1. GuardsTypeOK'
    <2>1. CASE SkipBackgroundSync(s) \/ AskBackgroundSync(s)
        BY <2>1 DEF GuardsTypeOK, SkipBackgroundSync, AskBackgroundSync, GoTo, mutex, flags,
            Holds
    <2>2. CASE AcquireSync(s) \/ CheckBroadcasting(s) \/ EndSync(s)
        BY <2>2 DEF GuardsTypeOK, AcquireSync, CheckBroadcasting, EndSync, MaySync, GoTo,
            mutex, Holds
    <2>3. CASE Abort(s)
        <3>1. line' \in Seq(Tasks)
            BY <2>3, LineIsShortened DEF Abort, GuardsTypeOK
        <3> QED
            BY <2>3, <3>1 DEF GuardsTypeOK, Abort, GoTo, Holds
    <2> QED
        BY <2>1, <2>2, <2>3 DEF Sync
<1>2. FlagsAreHeld'
    <2>1. CASE SkipBackgroundSync(s) \/ AskBackgroundSync(s)
        BY <2>1 DEF GuardsTypeOK, SkipBackgroundSync, AskBackgroundSync, GoTo, mutex, flags,
            FlagsAreHeld, Working
    <2>2. CASE AcquireSync(s)
        BY <2>2 DEF GuardsTypeOK, AcquireSync, MaySync, GoTo, FlagsAreHeld, Working, Holds,
            NobodyIsTurnedAway
    <2>3. CASE CheckBroadcasting(s)
        BY <2>3 DEF GuardsTypeOK, CheckBroadcasting, GoTo, FlagsAreHeld, Working
    <2>4. CASE EndSync(s)
        BY <2>4 DEF GuardsTypeOK, EndSync, GoTo, FlagsAreHeld, Working
    <2>5. CASE Abort(s)
        BY <2>5 DEF GuardsTypeOK, Abort, GoTo, FlagsAreHeld, Working
    <2> QED
        BY <2>1, <2>2, <2>3, <2>4, <2>5 DEF Sync
<1>3. NobodyIsTurnedAway'
    BY DEF GuardsTypeOK, Sync, SkipBackgroundSync, AskBackgroundSync, AcquireSync,
        CheckBroadcasting, EndSync, Abort, MaySync, GoTo, mutex, flags, Holds,
        NobodyIsTurnedAway
<1>4. OneAtATime'
    <2>1. repairing' = repairing
        BY DEF Sync, SkipBackgroundSync, AskBackgroundSync, AcquireSync,
            CheckBroadcasting, EndSync, Abort
    <2> QED
        BY <1>1, <2>1, TasksKeepOne
<1> QED
    BY <1>1, <1>2, <1>3, <1>4

LEMMA SendKeepsInv ==
    ASSUME GuardsInv, NEW w \in Sends, Send(w)
    PROVE  GuardsInv'
<1> USE TasksAssumption DEF GuardsInv, Tasks
<1>1. GuardsTypeOK'
    BY DEF GuardsTypeOK, Send, CheckFlags, BeginBroadcasting, EndSend, GoTo, mutex, flags, Holds
<1>2. FlagsAreHeld'
    <2>1. CASE CheckFlags(w)
        BY <2>1 DEF GuardsTypeOK, CheckFlags, GoTo, mutex, flags, FlagsAreHeld, Working
    <2>2. CASE BeginBroadcasting(w)
        BY <2>2 DEF GuardsTypeOK, BeginBroadcasting, GoTo, FlagsAreHeld, Working, Holds,
            NobodyIsTurnedAway
    <2>3. CASE EndSend(w)
        BY <2>3 DEF GuardsTypeOK, EndSend, GoTo, FlagsAreHeld, Working
    <2> QED
        BY <2>1, <2>2, <2>3 DEF Send
<1>3. NobodyIsTurnedAway'
    BY DEF GuardsTypeOK, Send, CheckFlags, BeginBroadcasting, EndSend, GoTo, mutex, flags,
        Holds, NobodyIsTurnedAway
<1>4. OneAtATime'
    <2>1. repairing' = repairing
        BY DEF Send, CheckFlags, BeginBroadcasting, EndSend
    <2> QED
        BY <1>1, <2>1, TasksKeepOne
<1> QED
    BY <1>1, <1>2, <1>3, <1>4

LEMMA MutexKeepsInv ==
    ASSUME GuardsInv, Grant \/ \E t \in Tasks : Call(t) \/ Leave(t)
    PROVE  GuardsInv'
<1> USE TasksAssumption DEF GuardsInv, Tasks
<1>1. CASE Grant
    <2>1. Head(line) \in Tasks /\ Tail(line) \in Seq(Tasks)
        BY <1>1, HeadTailProperties DEF GuardsTypeOK, Grant
    <2> QED
        BY <1>1, <2>1 DEF GuardsTypeOK, Grant, flags, FlagsAreHeld, NobodyIsTurnedAway,
            OneAtATime, Working, Holds
<1>2. ASSUME NEW t \in Tasks, Call(t) \/ Leave(t)
      PROVE  GuardsInv'
    <2>1. GuardsTypeOK'
        <3>1. CASE Call(t)
            BY <3>1 DEF GuardsTypeOK, Call, GoTo, flags
        <3>2. CASE Leave(t)
            BY <3>2 DEF GuardsTypeOK, Leave, GoTo, flags, Holds
        <3> QED
            BY <1>2, <3>1, <3>2
    <2>2. FlagsAreHeld'
        BY <1>2 DEF GuardsTypeOK, Call, Leave, GoTo, flags, FlagsAreHeld, Working
    <2>4. NobodyIsTurnedAway'
        <3>1. CASE Call(t)
            <4>1. holder' = holder /\ UNCHANGED flags
                BY <3>1 DEF Call
            <4>2. \A u \in Tasks \ {t} : at'[u] = at[u]
                BY <3>1 DEF GuardsTypeOK, Call, GoTo
            <4>3. Holds(t) => ~isSyncing /\ ~isBroadcasting
                BY <3>1 DEF GuardsTypeOK, Call, FlagsAreHeld, Working, Holds
            <4> QED
                BY <4>1, <4>2, <4>3 DEF NobodyIsTurnedAway, Holds, flags
        <3>2. CASE Leave(t)
            <4>1. holder' = IF Holds(t) THEN NoTask ELSE holder
                BY <3>2 DEF Leave
            <4>2. \A u \in Tasks : Holds(u)' => Holds(u) /\ u # t
                BY <4>1 DEF Holds
            <4>3. \A u \in Tasks \ {t} : at'[u] = at[u]
                BY <3>2 DEF GuardsTypeOK, Leave, GoTo
            <4> QED
                BY <3>2, <4>2, <4>3 DEF NobodyIsTurnedAway, Leave, flags
        <3> QED
            BY <1>2, <3>1, <3>2
    <2>3. OneAtATime'
        BY <1>2, <2>1, TasksKeepOne DEF Call, Leave
    <2> QED
        BY <2>1, <2>2, <2>3, <2>4
<1> QED
    BY <1>1, <1>2

LEMMA RepairKeepsInv ==
    ASSUME GuardsInv, NEW r \in Repairers, BeginRepair(r) \/ EndRepair(r) \/ DropRepair(r)
    PROVE  GuardsInv'
<1> USE DEF GuardsInv, BeginRepair, EndRepair, DropRepair, mutex, flags
<1>1. GuardsTypeOK'
    BY DEF GuardsTypeOK
<1>2. FlagsAreHeld'
    <2>1. CASE EndRepair(r)
        <3>1. repairing' = {}
            BY <2>1 DEF OneAtATime
        <3> QED
            BY <2>1, <3>1 DEF FlagsAreHeld, Working
    <2>2. CASE BeginRepair(r) \/ DropRepair(r)
        BY <2>2 DEF FlagsAreHeld, Working
    <2> QED
        BY <2>1, <2>2
<1>3. NobodyIsTurnedAway'
    BY DEF Holds, NobodyIsTurnedAway
<1>4. OneAtATime'
    <2>1. BeginRepair(r) => repairing = {}
        BY DEF FlagsAreHeld
    <2> QED
        BY <2>1 DEF OneAtATime, Working
<1> QED
    BY <1>1, <1>2, <1>3, <1>4

THEOREM GuardsInvariance == GuardsSpec => []GuardsInv
<1>1. GuardsInit => GuardsInv
    BY GuardsInitially
<1>2. GuardsInv /\ [GuardsNext]_guardVars => GuardsInv'
    <2>1. ASSUME GuardsInv, GuardsNext
          PROVE  GuardsInv'
        BY <2>1, SyncKeepsInv, SendKeepsInv, MutexKeepsInv, RepairKeepsInv DEF GuardsNext
    <2>2. ASSUME GuardsInv, UNCHANGED guardVars
          PROVE  GuardsInv'
        BY <2>2 DEF GuardsInv, GuardsTypeOK, FlagsAreHeld, NobodyIsTurnedAway, OneAtATime, Working,
           Holds, guardVars
    <2> QED
        BY <2>1, <2>2
<1> QED
    BY <1>1, <1>2, PTL DEF GuardsSpec

\* GuardsTypeOK: the tables of tasks, the mutex and the flags are well formed, and who
\* is past the mutex holds it.
THEOREM GuardsTypeCorrect == GuardsSpec => []GuardsTypeOK
<1>1. GuardsInv => GuardsTypeOK
    BY DEF GuardsInv
<1> QED
    BY <1>1, GuardsInvariance, PTL

\* OneAtATime: never a sync and a send, two syncs or two sends at work together.
THEOREM Exclusion == GuardsSpec => []OneAtATime
<1>1. GuardsInv => OneAtATime
    BY DEF GuardsInv
<1> QED
    BY <1>1, GuardsInvariance, PTL

\* FlagsAreHeld: the flags of syncs and sends are up exactly while one works, and
\* a repair has its flag up as long as it works, for any number of tasks, of
\* repairs and of flags that dropped repairs leave behind.
THEOREM NoFlagLeaks == GuardsSpec => []FlagsAreHeld
<1>1. GuardsInv => FlagsAreHeld
    BY DEF GuardsInv
<1> QED
    BY <1>1, GuardsInvariance, PTL

\* NobodyIsTurnedAway: who gets the mutex is not refused for a sync or a send.
THEOREM NobodyIsRefused == GuardsSpec => []NobodyIsTurnedAway
<1>1. GuardsInv => NobodyIsTurnedAway
    BY DEF GuardsInv
<1> QED
    BY <1>1, GuardsInvariance, PTL

-----------------------------------------------------------------------------
(* Turns.                                                                   *)

\* The line holds exactly those who wait, each once, and nobody who is gone has
\* the mutex.
LineIsFair ==
    /\ \A i, j \in DOMAIN line : line[i] = line[j] => i = j
    /\ \A i \in DOMAIN line : at[line[i]] = "waiting" /\ line[i] # holder
    /\ \A t \in Tasks : at[t] = "waiting" /\ t # holder => \E i \in DOMAIN line : line[i] = t
    /\ holder # NoTask => at[holder] # "idle"

\* The steps a task in this place takes at most before it is through.
Steps(place) ==
    CASE place = "waiting" -> 5 [] place = "checked" -> 4 [] place = "entered" -> 3
      [] place = "busy" -> 2 [] place = "leaving" -> 1 [] place = "idle" -> 0

PlaceIn(l, t) == CHOOSE i \in DOMAIN l : l[i] = t

\* The steps of others and of its own before the call of a task returns: those of
\* the holder, and six for every place in the line.
Distance(t) ==
    IF at[t] = "idle" THEN 0
    ELSE IF t = holder THEN Steps(at[t])
    ELSE 6 * PlaceIn(line, t) + (IF holder = NoTask THEN 0 ELSE Steps(at[holder]))

\* The mutex changes hands, or its holder takes a step.
TurnMoves == holder' # holder \/ (holder # NoTask /\ at'[holder] # at[holder])

ComesNearer(t) ==
    at[t] # "idle" => IF TurnMoves THEN Distance(t)' < Distance(t)
                                   ELSE Distance(t)' <= Distance(t)

\* The line m is the line l without its place r.
Without(l, m, r) ==
    /\ l \in Seq(Tasks) /\ m \in Seq(Tasks) /\ r \in 1 .. Len(l) /\ Len(m) = Len(l) - 1
    /\ \A k \in 1 .. Len(m) : m[k] = l[IF k < r THEN k ELSE k + 1]
    /\ \A i, j \in DOMAIN l : l[i] = l[j] => i = j

LEMMA StepsType ==
    ASSUME GuardsTypeOK, NEW t \in Tasks
    PROVE  Steps(at[t]) \in 0 .. 5
BY DEF GuardsTypeOK, Steps

LEMMA PlaceIsKnown ==
    ASSUME NEW l \in Seq(Tasks), NEW i \in DOMAIN l,
           \A j, k \in DOMAIN l : l[j] = l[k] => j = k
    PROVE  PlaceIn(l, l[i]) = i /\ i \in Nat /\ i > 0
BY DEF PlaceIn

\* Those behind the place that is left move up, the others stay.
LEMMA MovingUp ==
    ASSUME NEW l, NEW m, NEW r, Without(l, m, r)
    PROVE  /\ \A j, k \in DOMAIN m : m[j] = m[k] => j = k
           /\ \A i \in DOMAIN m : \E j \in DOMAIN l \ {r} : m[i] = l[j]
           /\ \A i \in DOMAIN l \ {r} :
                /\ \E j \in DOMAIN m : m[j] = l[i] /\ j <= i /\ (r = 1 => j = i - 1)
                /\ PlaceIn(m, l[i]) <= i /\ PlaceIn(m, l[i]) \in Nat
                /\ r = 1 => PlaceIn(m, l[i]) = i - 1
<1>1. /\ l \in Seq(Tasks) /\ m \in Seq(Tasks) /\ r \in 1 .. Len(l) /\ Len(m) = Len(l) - 1
      /\ Len(l) \in Nat /\ Len(m) \in Nat
      /\ DOMAIN l = 1 .. Len(l) /\ DOMAIN m = 1 .. Len(m)
    BY DEF Without
<1> DEFINE from(k) == IF k < r THEN k ELSE k + 1
<1>2. \A k \in DOMAIN m : from(k) \in DOMAIN l \ {r} /\ m[k] = l[from(k)]
    BY <1>1 DEF Without
<1>3. \A j, k \in DOMAIN m : from(j) = from(k) => j = k
    BY <1>1
<1>4. \A j, k \in DOMAIN m : m[j] = m[k] => j = k
  <2> SUFFICES ASSUME NEW j \in DOMAIN m, NEW k \in DOMAIN m, m[j] = m[k]
               PROVE  j = k
      OBVIOUS
  <2>1. from(j) \in DOMAIN l /\ from(k) \in DOMAIN l /\ l[from(j)] = l[from(k)]
      BY <1>2
  <2> HIDE DEF from
  <2>2. from(j) = from(k)
      BY <2>1 DEF Without
  <2> QED
      BY <1>3, <2>2
<1>5. ASSUME NEW i \in DOMAIN l \ {r}
      PROVE  \E j \in DOMAIN m : m[j] = l[i] /\ j <= i /\ (r = 1 => j = i - 1)
  <2>1. CASE i < r
      <3>1. i \in DOMAIN m /\ from(i) = i
          BY <1>1, <2>1
      <3> QED
          BY <1>1, <1>2, <2>1, <3>1
  <2>2. CASE i > r
      <3>1. i - 1 \in DOMAIN m /\ from(i - 1) = i /\ i - 1 <= i
          BY <1>1, <2>2
      <3> HIDE DEF from
      <3>2. m[i - 1] = l[i]
          BY <1>2, <3>1
      <3> QED
          BY <3>1, <3>2
  <2> QED
      BY <1>1, <2>1, <2>2
<1>6. ASSUME NEW i \in DOMAIN l \ {r}
      PROVE  /\ PlaceIn(m, l[i]) <= i /\ PlaceIn(m, l[i]) \in Nat
             /\ r = 1 => PlaceIn(m, l[i]) = i - 1
  <2>1. PICK j \in DOMAIN m : m[j] = l[i] /\ j <= i /\ (r = 1 => j = i - 1)
      BY <1>5
  <2>2. PlaceIn(m, m[j]) = j /\ j \in Nat
      BY <1>1, <1>4, PlaceIsKnown
  <2> QED
      BY <2>1, <2>2
<1>7. \A i \in DOMAIN m : \E j \in DOMAIN l \ {r} : m[i] = l[j]
    BY <1>2
<1> QED
    BY <1>4, <1>5, <1>6, <1>7

LEMMA DistanceType ==
    ASSUME GuardsTypeOK, LineIsFair, NEW t \in Tasks
    PROVE  Distance(t) \in Nat
<1>1. holder # NoTask => Steps(at[holder]) \in Nat
    BY StepsType DEF GuardsTypeOK
<1>2. Steps(at[t]) \in Nat
    BY StepsType
<1>3. ASSUME at[t] # "idle", t # holder
      PROVE  PlaceIn(line, t) \in Nat
  <2>1. at[t] = "waiting"
      BY <1>3 DEF GuardsTypeOK
  <2>2. PICK i \in DOMAIN line : line[i] = t
      BY <1>3, <2>1 DEF LineIsFair
  <2> QED
      BY <2>2, PlaceIsKnown DEF GuardsTypeOK, LineIsFair
<1> QED
    BY <1>1, <1>2, <1>3 DEF Distance

LEMMA Served ==
    ASSUME GuardsTypeOK, LineIsFair, line # <<>>
    PROVE  Without(line, Tail(line), 1) /\ Head(line) = line[1] /\ 1 \in DOMAIN line
<1>1. line \in Seq(Tasks) /\ Len(line) \in Nat /\ Len(line) > 0
    BY EmptySeq DEF GuardsTypeOK
<1>2. Tail(line) \in Seq(Tasks) /\ Len(Tail(line)) = Len(line) - 1
      /\ \A i \in 1 .. Len(Tail(line)) : Tail(line)[i] = line[i + 1]
    BY <1>1, HeadTailProperties DEF GuardsTypeOK
<1> QED
    BY <1>1, <1>2 DEF Without, LineIsFair

LEMMA Dropped ==
    ASSUME GuardsTypeOK, LineIsFair, NEW r \in DOMAIN line
    PROVE  Without(line, LineWithout(r), r)
<1>1. line \in Seq(Tasks) /\ r \in 1 .. Len(line) /\ Len(line) \in Nat
    BY DEF GuardsTypeOK
<1> DEFINE a == SubSeq(line, 1, r - 1)
           b == SubSeq(line, r + 1, Len(line))
<1>2. /\ a \in Seq(Tasks) /\ Len(a) = r - 1
      /\ \A i \in 1 .. r - 1 : a[i] = line[i]
  <2>1. \A i \in 1 .. r - 1 : line[i] \in Tasks
      BY <1>1
  <2>2. /\ a \in Seq(Tasks) /\ Len(a) = (IF 1 <= r - 1 THEN (r - 1) - 1 + 1 ELSE 0)
        /\ \A i \in 1 .. (r - 1) - 1 + 1 : a[i] = line[1 + i - 1]
      BY <1>1, <2>1, SubSeqProperties
  <2> HIDE DEF a
  <2> QED
      BY <1>1, <2>2
<1>3. /\ b \in Seq(Tasks) /\ Len(b) = Len(line) - r
      /\ \A i \in 1 .. Len(line) - r : b[i] = line[r + i]
  <2>1. \A i \in r + 1 .. Len(line) : line[i] \in Tasks
      BY <1>1
  <2>2. /\ b \in Seq(Tasks)
        /\ Len(b) = (IF r + 1 <= Len(line) THEN Len(line) - (r + 1) + 1 ELSE 0)
        /\ \A i \in 1 .. Len(line) - (r + 1) + 1 : b[i] = line[(r + 1) + i - 1]
      BY <1>1, <2>1, SubSeqProperties
  <2> HIDE DEF b
  <2>3. \A i \in 1 .. Len(line) - r : (r + 1) + i - 1 = r + i
      BY <1>1
  <2> QED
      BY <1>1, <2>2, <2>3
<1> HIDE DEF a, b
<1>4. /\ a \o b \in Seq(Tasks) /\ Len(a \o b) = Len(line) - 1
      /\ \A k \in 1 .. Len(line) - 1 : (a \o b)[k] = IF k <= r - 1 THEN a[k] ELSE b[k - (r - 1)]
    BY <1>1, <1>2, <1>3, ConcatProperties
<1>5. ASSUME NEW k \in 1 .. Len(line) - 1
      PROVE  (a \o b)[k] = line[IF k < r THEN k ELSE k + 1]
  <2>1. CASE k < r
      <3>1. k \in 1 .. r - 1 /\ k <= r - 1
          BY <1>1, <2>1
      <3> QED
          BY <1>2, <1>4, <2>1, <3>1
  <2>2. CASE ~(k < r)
      <3>1. k - (r - 1) \in 1 .. Len(line) - r /\ r + (k - (r - 1)) = k + 1 /\ ~(k <= r - 1)
          BY <1>1, <2>2
      <3> QED
          BY <1>3, <1>4, <2>2, <3>1
  <2> QED
      BY <2>1, <2>2
<1>6. LineWithout(r) = a \o b
    BY DEF LineWithout, a, b
<1> QED
    BY <1>1, <1>4, <1>5, <1>6 DEF Without, LineIsFair

\* The holder takes a step: the others keep their places.
LEMMA HolderMoves ==
    ASSUME GuardsTypeOK, LineIsFair, NEW u \in Tasks, u = holder, line' = line,
           NEW w \in {"checked", "entered", "busy", "leaving", "idle"},
           GoTo(u, w), Steps(w) < Steps(at[u]),
           holder' = IF w = "idle" THEN NoTask ELSE u
    PROVE  LineIsFair' /\ \A t \in Tasks : ComesNearer(t)
<1> USE TasksAssumption DEF Tasks
<1>1. /\ at'[u] = w /\ \A t \in Tasks \ {u} : at'[t] = at[t]
      /\ holder # NoTask /\ w # "waiting"
    BY DEF GuardsTypeOK, GoTo
<1>2. LineIsFair'
  <2>1. \A i \in DOMAIN line : line[i] \in Tasks /\ line[i] # u
      BY DEF GuardsTypeOK, LineIsFair
  <2>2. \A i \in DOMAIN line : at'[line[i]] = "waiting" /\ line[i] # holder'
    <3>1. \A i \in DOMAIN line : line[i] # NoTask
        BY <2>1
    <3> QED
        BY <1>1, <2>1, <3>1 DEF LineIsFair
  <2>3. \A t \in Tasks : at'[t] = "waiting" /\ t # holder' => at[t] = "waiting" /\ t # holder
      BY <1>1
  <2>4. holder' # NoTask => at'[holder'] # "idle"
      BY <1>1
  <2> QED
      BY <2>2, <2>3, <2>4 DEF LineIsFair
<1>3. Steps(w) \in Nat /\ Steps(at[u]) \in Nat
  <2>1. Steps(w) \in Nat
      BY DEF Steps
  <2> QED
      BY <2>1, StepsType
<1>4. ASSUME NEW t \in Tasks, at[t] # "idle"
      PROVE  Distance(t)' < Distance(t)
  <2>1. CASE t = u
    <3>1. Distance(t) = Steps(at[u])
        BY <1>4, <2>1 DEF Distance
    <3>2. Distance(t)' = IF w = "idle" THEN 0 ELSE Steps(w)
        BY <1>1, <2>1 DEF Distance
    <3>3. w = "idle" => Steps(w) = 0
        BY DEF Steps
    <3> QED
        BY <3>1, <3>2, <3>3
  <2>2. CASE t # u
    <3>1. at[t] = "waiting" /\ at'[t] = at[t]
        BY <1>1, <1>4, <2>2 DEF GuardsTypeOK
    <3>2. PICK i \in DOMAIN line : line[i] = t
        BY <2>2, <3>1 DEF LineIsFair
    <3>3. PlaceIn(line, t) \in Nat
        BY <3>2, PlaceIsKnown DEF GuardsTypeOK, LineIsFair
    <3>4. Distance(t) = 6 * PlaceIn(line, t) + Steps(at[u])
        BY <1>1, <1>4, <2>2 DEF Distance
    <3>5. Distance(t)' = 6 * PlaceIn(line, t) + (IF w = "idle" THEN 0 ELSE Steps(w))
      <4>1. t # NoTask
          OBVIOUS
      <4> QED
          BY <1>1, <2>2, <3>1, <4>1 DEF Distance
    <3>6. w = "idle" => Steps(w) = 0
        BY DEF Steps
    <3> HIDE DEF Tasks
    <3> QED
        BY <1>3, <3>3, <3>4, <3>5, <3>6
  <2> QED
      BY <2>1, <2>2
<1>5. TurnMoves
    BY <1>1, <1>3 DEF TurnMoves
<1> QED
    BY <1>2, <1>4, <1>5 DEF ComesNearer

\* The mutex goes to the first of the line.
LEMMA GrantMoves ==
    ASSUME GuardsTypeOK, LineIsFair, Grant
    PROVE  LineIsFair' /\ \A t \in Tasks : ComesNearer(t)
<1> DEFINE m == Tail(line)
           h == line[1]
<1>1. /\ Without(line, m, 1) /\ 1 \in DOMAIN line /\ h \in Tasks
      /\ holder = NoTask /\ holder' = h /\ line' = m /\ at' = at /\ at[h] = "waiting"
    BY Served DEF Grant, GuardsTypeOK, LineIsFair
<1> HIDE DEF m, h
<1>2. /\ \A j, k \in DOMAIN m : m[j] = m[k] => j = k
      /\ \A i \in DOMAIN m : \E j \in DOMAIN line \ {1} : m[i] = line[j]
      /\ \A i \in DOMAIN line \ {1} : \E j \in DOMAIN m : m[j] = line[i]
      /\ \A i \in DOMAIN line \ {1} : PlaceIn(m, line[i]) = i - 1 /\ i \in Nat
  <2>1. /\ \A j, k \in DOMAIN m : m[j] = m[k] => j = k
        /\ \A i \in DOMAIN m : \E j \in DOMAIN line \ {1} : m[i] = line[j]
        /\ \A i \in DOMAIN line \ {1} : \E j \in DOMAIN m : m[j] = line[i]
        /\ \A i \in DOMAIN line \ {1} : PlaceIn(m, line[i]) = i - 1
      BY <1>1, MovingUp
  <2>2. DOMAIN line \subseteq Nat
      BY DEF GuardsTypeOK
  <2> QED
      BY <2>1, <2>2
<1>3. \A i \in DOMAIN line \ {1} : line[i] # h
    BY <1>1 DEF LineIsFair, h
<1>4. LineIsFair'
  <2>1. \A i \in DOMAIN m : at[m[i]] = "waiting" /\ m[i] # h
      BY <1>2, <1>3 DEF LineIsFair
  <2>2. ASSUME NEW t \in Tasks, at[t] = "waiting", t # h
        PROVE  \E i \in DOMAIN m : m[i] = t
    <3>1. t # holder
        BY <1>1, TasksAssumption DEF Tasks
    <3>2. PICK i \in DOMAIN line : line[i] = t
        BY <2>2, <3>1 DEF LineIsFair
    <3> QED
        BY <1>2, <2>2, <3>2 DEF h
  <2> QED
      BY <1>1, <1>2, <2>1, <2>2 DEF LineIsFair
<1>5. ASSUME NEW t \in Tasks, at[t] # "idle"
      PROVE  Distance(t)' < Distance(t)
  <2>1. t # NoTask /\ at[t] = "waiting"
      BY <1>1, <1>5, TasksAssumption DEF GuardsTypeOK, Tasks
  <2>2. PICK i \in DOMAIN line : line[i] = t
      BY <1>1, <2>1 DEF LineIsFair
  <2>3. PlaceIn(line, t) = i /\ i \in Nat /\ i > 0
      BY <2>2, PlaceIsKnown DEF GuardsTypeOK, LineIsFair
  <2>4. Distance(t) = 6 * i + 0
      BY <1>1, <1>5, <2>1, <2>3 DEF Distance
  <2>5. CASE i = 1
    <3>1. Distance(t)' = 5
        BY <1>1, <2>1, <2>2, <2>5 DEF Distance, Steps, h
    <3> QED
        BY <2>4, <2>5, <3>1
  <2>6. CASE i # 1
    <3>1. t # h /\ PlaceIn(m, t) = i - 1
        BY <1>2, <1>3, <2>2, <2>6
    <3>2. h # NoTask
        BY <1>1, TasksAssumption DEF Tasks
    <3>3. Distance(t)' = 6 * (i - 1) + 5
        BY <1>1, <2>1, <3>1, <3>2 DEF Distance, Steps
    <3> QED
        BY <2>3, <2>4, <3>3
  <2> QED
      BY <2>5, <2>6
<1>6. TurnMoves
    BY <1>1, TasksAssumption DEF TurnMoves, Tasks
<1> QED
    BY <1>4, <1>5, <1>6 DEF ComesNearer

\* A new call goes to the end of the line.
LEMMA CallMoves ==
    ASSUME GuardsTypeOK, LineIsFair, NEW u \in Tasks, Call(u)
    PROVE  LineIsFair' /\ \A t \in Tasks : ComesNearer(t)
<1> USE TasksAssumption DEF Tasks
<1> DEFINE m == Append(line, u)
<1>1. /\ line \in Seq(Tasks) /\ Len(line) \in Nat /\ DOMAIN line = 1 .. Len(line)
      /\ m \in Seq(Tasks) /\ DOMAIN m = 1 .. Len(line) + 1
      /\ \A i \in DOMAIN line : m[i] = line[i]
      /\ m[Len(line) + 1] = u
  <2>1. line \in Seq(Tasks)
      BY DEF GuardsTypeOK
  <2> QED
      BY <2>1, AppendProperties
<1>2. /\ at[u] = "idle" /\ at'[u] = "waiting" /\ \A t \in Tasks \ {u} : at'[t] = at[t]
      /\ holder' = holder /\ line' = m
    BY DEF Call, GoTo, GuardsTypeOK
<1> HIDE DEF m
<1>3. \A i \in DOMAIN line : line[i] # u /\ line[i] \in Tasks
    BY <1>1, <1>2 DEF LineIsFair
<1>4. u # holder
    BY <1>2 DEF LineIsFair
<1>5. \A i \in DOMAIN m : i \in DOMAIN line \/ i = Len(line) + 1
    BY <1>1
<1>6. \A i, j \in DOMAIN m : m[i] = m[j] => i = j
    BY <1>1, <1>3, <1>5 DEF LineIsFair
<1>7. LineIsFair'
  <2>1. \A i \in DOMAIN m : at'[m[i]] = "waiting" /\ m[i] # holder
      BY <1>1, <1>2, <1>3, <1>4, <1>5 DEF LineIsFair
  <2>2. ASSUME NEW t \in Tasks, at'[t] = "waiting", t # holder
        PROVE  \E i \in DOMAIN m : m[i] = t
    <3>1. CASE t = u
        BY <1>1, <3>1
    <3>2. CASE t # u
      <4>1. PICK i \in DOMAIN line : line[i] = t
          BY <1>2, <2>2, <3>2 DEF LineIsFair
      <4>2. i \in DOMAIN m
          BY <1>1
      <4> QED
          BY <1>1, <4>1, <4>2
    <3> QED
        BY <3>1, <3>2
  <2>3. holder # NoTask => at'[holder] # "idle"
    <3>1. holder # NoTask => holder \in Tasks \ {u}
        BY <1>4 DEF GuardsTypeOK
    <3> QED
        BY <1>2, <3>1 DEF LineIsFair
  <2> QED
      BY <1>2, <1>6, <2>1, <2>2, <2>3 DEF LineIsFair
<1>8. ASSUME NEW t \in Tasks, at[t] # "idle"
      PROVE  Distance(t)' = Distance(t)
  <2>1. t # u /\ at'[t] = at[t]
      BY <1>2, <1>8
  <2>2. holder # NoTask => at'[holder] = at[holder]
    <3>1. holder # NoTask => holder \in Tasks \ {u}
        BY <1>4 DEF GuardsTypeOK
    <3> QED
        BY <1>2, <3>1
  <2>3. CASE t = holder
      BY <1>2, <2>1, <2>3 DEF Distance
  <2>4. CASE t # holder
    <3>1. at[t] = "waiting"
        BY <1>8, <2>4 DEF GuardsTypeOK
    <3>2. PICK i \in DOMAIN line : line[i] = t
        BY <2>4, <3>1 DEF LineIsFair
    <3>3. PlaceIn(line, t) = i
        BY <1>1, <3>2, PlaceIsKnown DEF LineIsFair
    <3>4. i \in DOMAIN m /\ m[i] = t
        BY <1>1, <3>2
    <3>5. PlaceIn(m, t) = i
        BY <1>1, <1>6, <3>4, PlaceIsKnown
    <3> QED
        BY <1>2, <2>1, <2>2, <2>4, <3>3, <3>5 DEF Distance
  <2> QED
      BY <2>3, <2>4
<1>9. \A t \in Tasks : at[t] # "idle" => Distance(t) \in Int
  <2> SUFFICES ASSUME NEW t \in Tasks, at[t] # "idle"
               PROVE  Distance(t) \in Int
      OBVIOUS
  <2> QED
      BY DistanceType
<1>10. ~TurnMoves
  <2>1. holder # NoTask => holder \in Tasks \ {u}
      BY <1>4 DEF GuardsTypeOK
  <2> QED
      BY <1>2, <2>1 DEF TurnMoves
<1> QED
    BY <1>7, <1>8, <1>9, <1>10 DEF ComesNearer

\* A task that waits is dropped from the line.
LEMMA DropMoves ==
    ASSUME GuardsTypeOK, LineIsFair, NEW r \in DOMAIN line, line' = LineWithout(r),
           GoTo(line[r], "idle"), holder' = holder
    PROVE  LineIsFair' /\ \A t \in Tasks : ComesNearer(t)
<1> USE TasksAssumption DEF Tasks
<1> DEFINE m == LineWithout(r)
           u == line[r]
<1>1. /\ Without(line, m, r) /\ u \in Tasks /\ at[u] = "waiting" /\ u # holder
      /\ at'[u] = "idle" /\ \A t \in Tasks \ {u} : at'[t] = at[t]
      /\ line' = m
    BY Dropped DEF GuardsTypeOK, LineIsFair, GoTo
<1>2. /\ \A j, k \in DOMAIN m : m[j] = m[k] => j = k
      /\ \A i \in DOMAIN m : \E j \in DOMAIN line \ {r} : m[i] = line[j]
      /\ \A i \in DOMAIN line \ {r} : \E j \in DOMAIN m : m[j] = line[i]
      /\ \A i \in DOMAIN line \ {r} : PlaceIn(m, line[i]) <= i /\ PlaceIn(m, line[i]) \in Nat
    BY <1>1, MovingUp
<1>3. \A i \in DOMAIN line \ {r} : line[i] # u /\ line[i] \in Tasks
    BY <1>1 DEF LineIsFair, GuardsTypeOK
<1> HIDE DEF m, u
<1>4. holder # NoTask => holder \in Tasks \ {u}
    BY <1>1 DEF GuardsTypeOK
<1>5. LineIsFair'
  <2>1. \A i \in DOMAIN m : at'[m[i]] = "waiting" /\ m[i] # holder
      BY <1>1, <1>2, <1>3 DEF LineIsFair
  <2>2. ASSUME NEW t \in Tasks, at'[t] = "waiting", t # holder
        PROVE  \E i \in DOMAIN m : m[i] = t
    <3>1. t # u
        BY <1>1, <2>2
    <3>2. PICK i \in DOMAIN line : line[i] = t
        BY <1>1, <2>2, <3>1 DEF LineIsFair
    <3> QED
        BY <1>2, <3>1, <3>2 DEF u
  <2>3. holder # NoTask => at'[holder] # "idle"
      BY <1>1, <1>4 DEF LineIsFair
  <2> QED
      BY <1>1, <1>2, <2>1, <2>2, <2>3 DEF LineIsFair
<1>6. ASSUME NEW t \in Tasks, at[t] # "idle"
      PROVE  Distance(t)' <= Distance(t)
  <2>1. CASE t = u
    <3>1. Distance(t)' = 0
        BY <1>1, <2>1 DEF Distance
    <3> QED
        BY <1>6, <3>1, DistanceType
  <2>2. CASE t = holder
    <3>1. Distance(t)' = Distance(t)
        BY <1>1, <2>2 DEF Distance
    <3> QED
        BY <1>6, <3>1, DistanceType
  <2>3. CASE t # u /\ t # holder
    <3>1. at[t] = "waiting" /\ at'[t] = "waiting"
        BY <1>1, <1>6, <2>3 DEF GuardsTypeOK
    <3>2. PICK i \in DOMAIN line : line[i] = t
        BY <2>3, <3>1 DEF LineIsFair
    <3>3. PlaceIn(line, t) = i /\ i \in Nat
        BY <3>2, PlaceIsKnown DEF GuardsTypeOK, LineIsFair
    <3>4. PlaceIn(m, t) <= i /\ PlaceIn(m, t) \in Nat
        BY <1>2, <2>3, <3>2 DEF u
    <3> DEFINE rest == IF holder = NoTask THEN 0 ELSE Steps(at[holder])
    <3>5. rest \in Nat
        BY StepsType DEF GuardsTypeOK
    <3>6. Distance(t) = 6 * i + rest
        BY <2>3, <3>1, <3>3 DEF Distance
    <3>7. Distance(t)' = 6 * PlaceIn(m, t) + rest
        BY <1>1, <1>4, <2>3, <3>1 DEF Distance
    <3> HIDE DEF rest
    <3> QED
        BY <3>3, <3>4, <3>5, <3>6, <3>7
  <2> QED
      BY <2>1, <2>2, <2>3
<1>7. ~TurnMoves
    BY <1>1, <1>4 DEF TurnMoves
<1> QED
    BY <1>5, <1>6, <1>7 DEF ComesNearer

LEMMA TasksMove ==
    ASSUME GuardsInv, LineIsFair, NEW u \in Tasks,
           \/ u \in Syncs /\ (Sync(u) \/ Abort(u))
           \/ u \in Sends /\ Send(u)
           \/ Leave(u)
    PROVE  LineIsFair' /\ \A t \in Tasks : ComesNearer(t)
<1> USE DEF GuardsInv
<1>1. GuardsTypeOK
    OBVIOUS
<1>2. CASE SkipBackgroundSync(u)
  <2>1. /\ holder = u /\ GoTo(u, "leaving") /\ line' = line /\ holder' = holder
        /\ at[u] = "waiting"
      BY <1>2 DEF SkipBackgroundSync, Holds, mutex
  <2> QED
      BY <1>1, <2>1, HolderMoves DEF Steps
<1>3. CASE AskBackgroundSync(u)
  <2>1. /\ holder = u /\ GoTo(u, "checked") /\ line' = line /\ holder' = holder
        /\ at[u] = "waiting"
      BY <1>3 DEF AskBackgroundSync, Holds, mutex
  <2> QED
      BY <1>1, <2>1, HolderMoves DEF Steps
<1>4. CASE AcquireSync(u)
  <2>1. /\ holder = u /\ (GoTo(u, "leaving") \/ GoTo(u, "entered"))
        /\ line' = line /\ holder' = holder
        /\ at[u] \in {"waiting", "checked"}
      BY <1>4 DEF AcquireSync, MaySync, Holds, mutex
  <2> QED
      BY <1>1, <2>1, HolderMoves DEF Steps
<1>5. CASE CheckBroadcasting(u)
  <2>1. /\ holder = u /\ (GoTo(u, "leaving") \/ GoTo(u, "busy"))
        /\ line' = line /\ holder' = holder /\ at[u] = "entered"
      BY <1>5 DEF CheckBroadcasting, GuardsTypeOK, mutex
  <2> QED
      BY <1>1, <2>1, HolderMoves DEF Steps
<1>6. CASE EndSync(u) \/ EndSend(u)
  <2>1. /\ holder = u /\ GoTo(u, "leaving") /\ line' = line /\ holder' = holder
        /\ at[u] = "busy"
      BY <1>6 DEF EndSync, EndSend, GuardsTypeOK, mutex
  <2> QED
      BY <1>1, <2>1, HolderMoves DEF Steps
<1>7. CASE CheckFlags(u)
  <2>1. /\ holder = u /\ (GoTo(u, "leaving") \/ GoTo(u, "checked"))
        /\ line' = line /\ holder' = holder /\ at[u] = "waiting"
      BY <1>7 DEF CheckFlags, Holds, mutex
  <2> QED
      BY <1>1, <2>1, HolderMoves DEF Steps
<1>8. CASE BeginBroadcasting(u)
  <2>1. /\ holder = u /\ (GoTo(u, "leaving") \/ GoTo(u, "busy"))
        /\ line' = line /\ holder' = holder /\ at[u] = "checked"
      BY <1>8 DEF BeginBroadcasting, GuardsTypeOK, mutex
  <2> QED
      BY <1>1, <2>1, HolderMoves DEF Steps
<1>9. CASE Leave(u)
  <2>1. /\ holder = u /\ GoTo(u, "idle") /\ line' = line /\ holder' = NoTask
        /\ at[u] = "leaving"
      BY <1>9 DEF Leave, Holds, GuardsTypeOK
  <2> QED
      BY <1>1, <2>1, HolderMoves DEF Steps
<1>10. CASE Abort(u)
  <2>1. CASE /\ at[u] = "waiting" \/ at[u] = "busy"
             /\ holder = u /\ GoTo(u, "leaving") /\ line' = line /\ holder' = holder
      BY <1>1, <2>1, HolderMoves DEF Steps
  <2>2. CASE /\ GoTo(u, "idle") /\ holder' = holder
             /\ \E r \in DOMAIN line : line[r] = u /\ line' = LineWithout(r)
      BY <1>1, <2>2, DropMoves
  <2> QED
      BY <1>10, <2>1, <2>2 DEF Abort, Holds, GuardsTypeOK
<1> QED
    BY <1>2, <1>3, <1>4, <1>5, <1>6, <1>7, <1>8, <1>9, <1>10 DEF Sync, Send

LEMMA EveryStepMoves ==
    ASSUME GuardsInv, LineIsFair, GuardsNext
    PROVE  LineIsFair' /\ \A t \in Tasks : ComesNearer(t)
<1> USE DEF GuardsInv
<1>1. CASE Grant
    BY <1>1, GrantMoves
<1>2. ASSUME NEW t \in Tasks, Call(t) \/ Leave(t)
      PROVE  LineIsFair' /\ \A u \in Tasks : ComesNearer(u)
    BY <1>2, CallMoves, TasksMove
<1>3. ASSUME NEW s \in Syncs, Sync(s) \/ Abort(s)
      PROVE  LineIsFair' /\ \A u \in Tasks : ComesNearer(u)
    BY <1>3, TasksMove DEF Tasks
<1>4. ASSUME NEW w \in Sends, Send(w)
      PROVE  LineIsFair' /\ \A u \in Tasks : ComesNearer(u)
    BY <1>4, TasksMove DEF Tasks
<1>5. ASSUME NEW r \in Repairers, BeginRepair(r) \/ EndRepair(r) \/ DropRepair(r)
      PROVE  LineIsFair' /\ \A u \in Tasks : ComesNearer(u)
  <2>1. /\ \A t \in Tasks : at'[t] = at[t]
        /\ holder' = holder /\ line' = line
      BY <1>5 DEF BeginRepair, EndRepair, DropRepair, mutex
  <2>2. /\ \A i \in DOMAIN line : line[i] \in Tasks
        /\ holder # NoTask => holder \in Tasks
      BY DEF GuardsTypeOK
  <2>3. LineIsFair'
      BY <2>1, <2>2 DEF LineIsFair
  <2>4. \A t \in Tasks : Distance(t)' = Distance(t)
      BY <2>1, <2>2 DEF Distance
  <2>5. ~TurnMoves
      BY <2>1, <2>2 DEF TurnMoves
  <2>6. \A t \in Tasks : Distance(t)' <= Distance(t)
      BY <2>4, DistanceType
  <2> QED
      BY <2>3, <2>5, <2>6 DEF ComesNearer
<1> QED
    BY <1>1, <1>2, <1>3, <1>4, <1>5 DEF GuardsNext

\* Who waits is in the line, once, or has the mutex; and nobody takes the mutex
\* along when it returns or is aborted: a line with nobody at work before it can
\* always move.
THEOREM NobodyIsForgotten == GuardsSpec => []LineIsFair
<1>1. GuardsInit => LineIsFair
    BY TasksAssumption DEF GuardsInit, LineIsFair, Tasks
<1>2. GuardsInv /\ LineIsFair /\ [GuardsNext]_guardVars => LineIsFair'
  <2>1. ASSUME LineIsFair, UNCHANGED guardVars
        PROVE  LineIsFair'
      BY <2>1 DEF LineIsFair, guardVars
  <2> QED
      BY <2>1, EveryStepMoves
<1> QED
    BY <1>1, <1>2, GuardsInvariance, PTL DEF GuardsSpec

\* Nothing that other tasks, aborts or repairs do puts a call off, and whenever
\* the mutex changes hands or its holder takes a step every call that waits is
\* nearer to its end.
THEOREM CallsComeNearer == GuardsSpec => [][\A t \in Tasks : ComesNearer(t)]_guardVars
<1>1. GuardsInv /\ LineIsFair /\ [GuardsNext]_guardVars =>
        [\A t \in Tasks : ComesNearer(t)]_guardVars
    BY EveryStepMoves
<1> QED
    BY <1>1, GuardsInvariance, NobodyIsForgotten, PTL DEF GuardsSpec

-----------------------------------------------------------------------------
(* Heights in order.                                                        *)

\* A set of numbers up to b has a least and a greatest element.
LEMMA Extremes ==
    ASSUME NEW b \in Nat, NEW S, S \subseteq 0 .. b, S # {}
    PROVE  /\ \E h \in S : \A g \in S : h <= g
           /\ \E h \in S : \A g \in S : g <= h
<1> DEFINE R == StrictSubsetOrdering(0 .. b)
           Below(h) == {k \in 0 .. b : k < h}
           Above(h) == {k \in 0 .. b : k > h}
<1>1. IsFiniteSet(0 .. b)
    BY FS_Interval
<1>2. \E h \in S : \A g \in S : h <= g
  <2> DEFINE T == {Below(h) : h \in S}
  <2>1. T \subseteq FiniteSubsetsOf(0 .. b)
      BY <1>1, FS_FiniteSubsetsOfFinite
  <2>0. T # {}
      OBVIOUS
  <2>2. PICK x \in T : \A y \in T : ~(<<y, x>> \in R)
      BY <2>0, <2>1, FS_StrictSubsetOrderingWellFounded, WFMin
  <2>3. PICK h \in S : x = Below(h)
      OBVIOUS
  <2>4. ASSUME NEW g \in S, ~(h <= g)
        PROVE  <<Below(g), x>> \in R
      BY <2>3, <2>4 DEF StrictSubsetOrdering
  <2> QED
      BY <2>2, <2>4
<1>3. \E h \in S : \A g \in S : g <= h
  <2> DEFINE T == {Above(h) : h \in S}
  <2>1. T \subseteq FiniteSubsetsOf(0 .. b)
      BY <1>1, FS_FiniteSubsetsOfFinite
  <2>0. T # {}
      OBVIOUS
  <2>2. PICK x \in T : \A y \in T : ~(<<y, x>> \in R)
      BY <2>0, <2>1, FS_StrictSubsetOrderingWellFounded, WFMin
  <2>3. PICK h \in S : x = Above(h)
      OBVIOUS
  <2>4. ASSUME NEW g \in S, ~(g <= h)
        PROVE  <<Above(g), x>> \in R
      BY <2>3, <2>4 DEF StrictSubsetOrdering
  <2> QED
      BY <2>2, <2>4
<1> QED
    BY <1>2, <1>3

LEMMA MaxIsGreatest ==
    ASSUME NEW b \in Nat, NEW S, S \subseteq 0 .. b, S # {}
    PROVE  Max(S) \in S /\ \A g \in S : g <= Max(S)
<1>1. \E h \in S : \A g \in S : h >= g
    BY Extremes
<1> QED
    BY <1>1 DEF Max

LEMMA PairMax ==
    ASSUME NEW a \in Nat, NEW b \in Nat
    PROVE  /\ Max({a, b}) = IF a >= b THEN a ELSE b
           /\ Min({a, b}) = IF a <= b THEN a ELSE b
<1>1. \A x \in {a, b} : x = a \/ x = b
    OBVIOUS
<1>2. Max({a, b}) = IF a >= b THEN a ELSE b
    BY <1>1 DEF Max
<1>3. Min({a, b}) = IF a <= b THEN a ELSE b
    BY <1>1 DEF Min
<1> QED
    BY <1>2, <1>3

\* The peers of S with less than h, and with at most h.
Less(S, h) == {p \in S : height[p] < h}
UpTo(S, h) == {p \in S : height[p] <= h}

HeightsType == height \in [Peers -> 0 .. MaxChain + FarHeight]

\* There is a middle among the heights of any peers.
LEMMA MedianIsInTheMiddle ==
    ASSUME HeightsType, NEW S \in SUBSET Peers, S # {}
    PROVE  /\ Median(S) \in {height[p] : p \in S}
           /\ Cardinality(Less(S, Median(S))) <= Cardinality(S) \div 2
           /\ Cardinality(S) \div 2 < Cardinality(UpTo(S, Median(S)))
           /\ Cardinality(S) \in Nat
<1> DEFINE b == MaxChain + FarHeight
           n == Cardinality(S)
           H == {height[p] : p \in S}
           low == {h \in H : Cardinality(Less(S, h)) <= n \div 2}
<1>1. b \in Nat /\ IsFiniteSet(S) /\ n \in Nat /\ n > 0
  <2>1. IsFiniteSet(S)
      BY PoolAssumption, FS_Subset
  <2> QED
      BY <2>1, PoolAssumption, FS_CardinalityType, FS_EmptySet
<1>2. H \subseteq 0 .. b /\ H # {}
    BY DEF HeightsType
<1>3. \A h : /\ IsFiniteSet(Less(S, h)) /\ Cardinality(Less(S, h)) \in Nat
             /\ IsFiniteSet(UpTo(S, h)) /\ Cardinality(UpTo(S, h)) \in Nat
  <2>1. \A h : Less(S, h) \subseteq S /\ UpTo(S, h) \subseteq S
      BY DEF Less, UpTo
  <2> QED
      BY <1>1, <2>1, FS_Subset, FS_CardinalityType
<1> HIDE DEF b
<1>4. n \div 2 \in Nat /\ n \div 2 < n
    BY <1>1
<1> HIDE DEF n
<1>5. low # {}
  <2>1. PICK m \in H : \A g \in H : m <= g
      BY <1>1, <1>2, Extremes
  <2>2. Less(S, m) = {}
    <3>1. m \in Int /\ \A p \in S : height[p] \in Int
        BY <1>1, <1>2
    <3>2. \A p \in S : m <= height[p]
        BY <2>1
    <3>3. \A p \in S : ~(height[p] < m)
        BY <3>1, <3>2
    <3> QED
        BY <3>3 DEF Less
  <2>3. Cardinality(Less(S, m)) = 0
      BY <2>2, FS_EmptySet
  <2> QED
      BY <1>4, <2>3
<1>6. PICK h \in low : \A g \in low : g <= h
    BY <1>1, <1>2, <1>5, Extremes
<1>7. n \div 2 < Cardinality(UpTo(S, h))
  <2> SUFFICES ASSUME Cardinality(UpTo(S, h)) <= n \div 2
               PROVE  FALSE
      BY <1>3, <1>4
  <2> DEFINE above == {g \in H : g > h}
  <2>1. h \in Nat /\ above \subseteq 0 .. b
      BY <1>1, <1>2, <1>6
  <2>2. above # {}
    <3> SUFFICES ASSUME above = {} PROVE FALSE
        OBVIOUS
    <3>1. \A p \in S : height[p] \in Nat /\ ~(height[p] > h)
        BY <1>1, <1>2
    <3>2. UpTo(S, h) = S
        BY <2>1, <3>1 DEF UpTo
    <3> QED
        BY <1>1, <1>4, <3>2 DEF n
  <2>3. PICK g \in above : \A k \in above : g <= k
      BY <1>1, <2>1, <2>2, Extremes
  <2>4. Less(S, g) = UpTo(S, h)
    <3>1. \A p \in S : height[p] \in Nat /\ (height[p] > h => height[p] \in above)
        BY <1>1, <1>2
    <3>2. \A p \in S : height[p] < g <=> height[p] <= h
        BY <1>1, <2>1, <2>3, <3>1
    <3> QED
        BY <3>2 DEF Less, UpTo
  <2>5. g \in low
      BY <2>3, <2>4
  <2> QED
      BY <1>6, <2>1, <2>3, <2>5
<1>8. \E m \in H : Cardinality(Less(S, m)) <= n \div 2 /\ n \div 2 < Cardinality(UpTo(S, m))
    BY <1>6, <1>7
<1>9. Median(S) = CHOOSE m \in H : Cardinality(Less(S, m)) <= n \div 2
                                   /\ n \div 2 < Cardinality(UpTo(S, m))
    BY DEF Median, Less, UpTo, n
<1> QED
    BY <1>1, <1>8, <1>9 DEF n

-----------------------------------------------------------------------------
(* What the loop keeps.                                                     *)

\* Nothing is known that the network does not have, but for what confused peers say.
Known ==
    /\ \A p \in Peers : heard[p] <= chain /\ (p \notin Confused => height[p] <= chain)
    /\ synced <= chain

\* Attempts are counted where they are made, and nowhere else.
TriesFit ==
    /\ pc = "connect" => tries < MaxAttempts
    /\ pc = "fetch" => tries <= MaxReconnects
    /\ pc \notin {"connect", "fetch"} => tries = 0

PoolInv == TypeOK /\ Known /\ TriesFit

MostTries == Max({MaxAttempts - 1, MaxReconnects})

LEMMA TriesBound ==
    MostTries \in Nat /\ MaxAttempts - 1 <= MostTries /\ MaxReconnects <= MostTries
<1>1. MaxAttempts - 1 \in Nat /\ MaxReconnects \in Nat
    BY PoolAssumption
<1>2. MostTries = IF MaxAttempts - 1 >= MaxReconnects THEN MaxAttempts - 1 ELSE MaxReconnects
    BY <1>1, PairMax DEF MostTries
<1> QED
    BY <1>1, <1>2

LEMMA StartedType ==
    ASSUME NEW c \in [Peers -> ConnStates]
    PROVE  Started(c) \in [Peers -> ConnStates]
BY DEF Started, ConnStates

\* The typing of what a connection attempt changes.
PoolTyped ==
    /\ conn \in [Peers -> ConnStates]
    /\ height \in [Peers -> Reported] /\ heard \in [Peers -> Heights]
    /\ stray \in BOOLEAN /\ liveTip \in Nat
    /\ faults \in 0 .. MaxFaults /\ lates \in 0 .. MaxLate

LEMMA Spending ==
    ASSUME TypeOK, NEW f \in {0, 1, 2}, NEW l \in {0, 1}
    PROVE  /\ Fault(f) => faults' \in 0 .. MaxFaults
           /\ Late(l) => lates' \in 0 .. MaxLate
BY PoolAssumption DEF TypeOK, Fault, Late

LEMMA Forgetting ==
    ASSUME TypeOK, Known, NEW S, Forget(S)
    PROVE  /\ height' \in [Peers -> Reported]
           /\ \A p \in Peers : p \notin Confused => height'[p] <= chain
<1>1. 0 \in Reported /\ chain \in Nat
    BY PoolAssumption DEF TypeOK, Reported, Heights
<1> QED
    BY <1>1 DEF TypeOK, Known, Forget

\* Connecting keeps what is known true.
LEMMA Connecting ==
    ASSUME TypeOK, Known, NEW c \in [Peers -> ConnStates], NEW busy \in SUBSET Peers,
           NEW tip \in Nat, NEW listen \in BOOLEAN, NEW ok \in BOOLEAN,
           Connect(c, busy, tip, listen, ok)
    PROVE  /\ PoolTyped'
           /\ \A p \in Peers : heard'[p] <= chain /\ (p \notin Confused => height'[p] <= chain)
<1> DEFINE kept == InPool(c) \ busy
           candidates == Peers \ (kept \cup banned)
<1>0. stray' \in BOOLEAN
    BY DEF Connect, TypeOK
<1>1. Cost(busy) \in {0, 1}
    BY DEF Cost
<1>2. CASE Cardinality(kept) >= Threshold
  <2> DEFINE left == [p \in Peers |-> IF p \in busy THEN "out" ELSE c[p]]
  <2>1. /\ conn' = IF listen THEN Started(left) ELSE left
        /\ liveTip' = tip /\ heard' = heard
        /\ Forget(Peers \ kept) /\ Spend(Cost(busy), 0)
      BY <1>2 DEF Connect
  <2>2. left \in [Peers -> ConnStates]
      BY DEF ConnStates
  <2> HIDE DEF left
  <2>3. conn' \in [Peers -> ConnStates]
      BY <2>1, <2>2, StartedType
  <2>4. faults' \in 0 .. MaxFaults /\ lates' \in 0 .. MaxLate
      BY <1>1, <2>1, Spending DEF Spend
  <2>5. /\ height' \in [Peers -> Reported]
        /\ \A p \in Peers : p \notin Confused => height'[p] <= chain
      BY <2>1, Forgetting
  <2> QED
      BY <1>0, <2>1, <2>3, <2>4, <2>5 DEF PoolTyped, TypeOK, Known
<1>3. CASE ~(Cardinality(kept) >= Threshold)
  <2> DEFINE now(got) == [p \in Peers |-> IF p \in got THEN "fresh"
                                           ELSE IF p \in kept THEN c[p] ELSE "out"]
             full(got) == got = candidates \/ Cardinality(InPool(now(got))) >= MinPeers
  <2>1. PICK got \in SUBSET candidates :
            /\ ok = (Cardinality(InPool(now(got))) >= Threshold)
            /\ Fault(Cost(busy) + (IF full(got) THEN 0 ELSE 1))
            /\ conn' = IF ok /\ listen THEN Started(now(got)) ELSE now(got)
            /\ \E has \in [got -> Heights] : \E off \in SUBSET (got \cap Confused) :
                 /\ \A p \in got : has[p] \in heard[p] .. chain
                 /\ Late(IF \A p \in got : has[p] = chain THEN 0 ELSE 1)
                 /\ heard' = [p \in Peers |-> IF p \in got THEN has[p] ELSE heard[p]]
                 /\ height' = [p \in Peers |-> IF p \in got THEN Handshake(p, has, off)
                                               ELSE IF p \in kept THEN height[p] ELSE 0]
            /\ liveTip' = IF ok THEN Max({height'[p] : p \in InPool(now(got))}) ELSE tip
      BY <1>3 DEF Connect
  <2>2. PICK has \in [got -> Heights], off \in SUBSET (got \cap Confused) :
            /\ \A p \in got : has[p] \in heard[p] .. chain
            /\ Late(IF \A p \in got : has[p] = chain THEN 0 ELSE 1)
            /\ heard' = [p \in Peers |-> IF p \in got THEN has[p] ELSE heard[p]]
            /\ height' = [p \in Peers |-> IF p \in got THEN Handshake(p, has, off)
                                          ELSE IF p \in kept THEN height[p] ELSE 0]
      BY <2>1
  <2>3. now(got) \in [Peers -> ConnStates]
      BY DEF ConnStates
  <2>4. conn' \in [Peers -> ConnStates]
    <3> HIDE DEF now
    <3> QED
        BY <2>1, <2>3, StartedType
  <2>5. faults' \in 0 .. MaxFaults
    <3>1. Cost(busy) + (IF full(got) THEN 0 ELSE 1) \in {0, 1, 2}
        BY <1>1
    <3> QED
        BY <2>1, <3>1, Spending
  <2>6. lates' \in 0 .. MaxLate
      BY <2>2, Spending
  <2>7. heard' \in [Peers -> Heights] /\ \A p \in Peers : heard'[p] <= chain
    <3>1. heard' \in [Peers -> Heights]
        BY <2>2 DEF TypeOK
    <3>2. \A p \in got : has[p] <= chain
        BY <2>2 DEF TypeOK, Heights
    <3> QED
        BY <2>2, <3>1, <3>2 DEF Known
  <2>8. /\ height' \in [Peers -> Reported]
        /\ \A p \in Peers : p \notin Confused => height'[p] <= chain
    <3>1. /\ 0 \in Reported /\ FarHeight \in Reported
          /\ \A p \in got : has[p] \in Reported
          /\ \A p \in Peers : height[p] \in Reported
        BY PoolAssumption DEF Reported, Heights, TypeOK
    <3>2. /\ chain \in Nat
          /\ \A p \in got : p \notin Confused => Handshake(p, has, off) <= chain
        BY <2>2, PoolAssumption DEF Handshake, TypeOK, Heights
    <3>3. height' \in [Peers -> Reported]
        BY <2>2, <3>1 DEF Handshake
    <3> QED
        BY <2>2, <3>2, <3>3 DEF Known
  <2>9. liveTip' \in Nat
    <3> DEFINE there == InPool(now(got))
               H == {height'[p] : p \in there}
    <3>1. CASE ~ok
        BY <2>1, <3>1
    <3>2. CASE ok
      <4>1. there # {} /\ there \subseteq Peers
        <5>1. there \subseteq Peers
            BY DEF InPool
        <5>2. Cardinality(there) >= Threshold /\ Threshold \in Nat /\ Threshold > 0
          <6>1. Threshold \in Nat /\ Threshold > 0
              BY PoolAssumption
          <6> HIDE DEF there
          <6>2. ok = (Cardinality(there) >= Threshold)
              BY <2>1 DEF there
          <6> QED
              BY <3>2, <6>1, <6>2
        <5> HIDE DEF there
        <5>3. there = {} => Cardinality(there) = 0
            BY FS_EmptySet
        <5> QED
            BY <5>1, <5>2, <5>3
      <4>2. MaxChain + FarHeight \in Nat /\ Reported \subseteq 0 .. MaxChain + FarHeight
          BY PoolAssumption DEF Reported, Heights
      <4> HIDE DEF there
      <4>3. H # {} /\ H \subseteq 0 .. MaxChain + FarHeight
        <5>1. \A p \in there : height'[p] \in 0 .. MaxChain + FarHeight
            BY <2>8, <4>1, <4>2
        <5>2. PICK p : p \in there
            BY <4>1
        <5> QED
            BY <5>1, <5>2
      <4>4. Max(H) \in H
          BY <4>2, <4>3, MaxIsGreatest
      <4>5. liveTip' = Max(H)
          BY <2>1, <3>2 DEF there
      <4> QED
          BY <4>3, <4>4, <4>5
    <3> QED
        BY <3>1, <3>2
  <2> QED
      BY <1>0, <2>4, <2>5, <2>6, <2>7, <2>8, <2>9 DEF PoolTyped
<1> QED
    BY <1>2, <1>3

LEMMA MaxOrSame ==
    ASSUME NEW a \in Nat, NEW b \in Nat, NEW c \in Nat
    PROVE  /\ Max({a, b}) \in Nat /\ (a <= c /\ b <= c => Max({a, b}) <= c)
           /\ Min({a, b}) \in Nat /\ Min({a, b}) <= b
BY PairMax

LEMMA Counting ==
    ASSUME TypeOK, NEW b \in Heights, Count(b)
    PROVE  /\ liveTip' \in Nat /\ notified' \in BOOLEAN
           /\ seen' \subseteq Heights /\ Cardinality(seen') <= SeenLimit
<1>1. CASE b \in seen
    BY <1>1 DEF Count, counting, TypeOK
<1>2. CASE b \notin seen
  <2>1. /\ seen' = IF Cardinality(seen) = SeenLimit THEN {b} ELSE seen \cup {b}
        /\ liveTip' = liveTip + 1 /\ notified' = TRUE
      BY <1>2 DEF Count
  <2>2. IsFiniteSet(seen) /\ SeenLimit \in Nat \ {0}
    <3>1. IsFiniteSet(Heights)
      <4>1. MaxChain \in Int /\ 0 \in Int
          BY PoolAssumption
      <4> QED
          BY <4>1, FS_Interval DEF Heights
    <3> QED
        BY <3>1, PoolAssumption, FS_Subset DEF TypeOK
  <2>3. /\ Cardinality(seen) \in Nat
        /\ Cardinality({b}) = 1 /\ Cardinality(seen \cup {b}) = Cardinality(seen) + 1
      BY <1>2, <2>2, FS_CardinalityType, FS_Singleton, FS_AddElement
  <2>4. Cardinality(seen') <= SeenLimit
    <3>1. CASE Cardinality(seen) = SeenLimit
        BY <2>1, <2>2, <2>3, <3>1
    <3>2. CASE Cardinality(seen) # SeenLimit
        BY <2>1, <2>2, <2>3, <3>2 DEF TypeOK
    <3> QED
        BY <3>1, <3>2
  <2>5. liveTip' \in Nat /\ notified' \in BOOLEAN /\ seen' \subseteq Heights
      BY <2>1 DEF TypeOK
  <2> QED
      BY <2>4, <2>5
<1> QED
    BY <1>1, <1>2

\* The typing of the rest, in parts.
NetTyped ==
    /\ banned \subseteq Peers /\ notified \in BOOLEAN
    /\ seen \subseteq Heights /\ Cardinality(seen) <= SeenLimit
    /\ chain \in Heights
LoopTyped ==
    /\ app \in Apps /\ synced \in Heights
    /\ pc \in {"sleep", "connect", "heights", "listen", "fetch", "finish", "after"}
    /\ target \in Nat /\ tries \in 0 .. MostTries
    /\ error \in {"none", "peers", "other"}
    /\ byBlock \in BOOLEAN /\ before \in Heights /\ stage \in 1 .. 3

LEMMA Parts == TypeOK <=> PoolTyped /\ NetTyped /\ LoopTyped
BY DEF TypeOK, PoolTyped, NetTyped, LoopTyped, MostTries

LEMMA PartsNext == TypeOK' <=> PoolTyped' /\ NetTyped' /\ LoopTyped'
BY Parts, PTL

KnownOfPool == \A p \in Peers : heard[p] <= chain /\ (p \notin Confused => height[p] <= chain)

LEMMA Connected ==
    ASSUME PoolInv, NEW c \in [Peers -> ConnStates], NEW busy \in SUBSET Peers,
           NEW tip \in Nat, NEW listen \in BOOLEAN, NEW ok \in BOOLEAN,
           Connect(c, busy, tip, listen, ok), chain' = chain
    PROVE  PoolTyped' /\ KnownOfPool'
BY Connecting DEF PoolInv, KnownOfPool

LEMMA Reconnected ==
    ASSUME PoolInv, NEW listen \in BOOLEAN, NEW ok \in BOOLEAN, Reconnect(listen, ok), chain' = chain
    PROVE  PoolTyped' /\ KnownOfPool'
<1>1. [p \in Peers |-> "out"] \in [Peers -> ConnStates]
    BY DEF ConnStates
<1> QED
    BY <1>1, Connected DEF Reconnect

\* When only connections change state.
LEMMA OnlyStates ==
    ASSUME PoolInv, conn' \in [Peers -> ConnStates], height' = height, heard' = heard,
           stray' \in BOOLEAN, liveTip' \in Nat, chain' = chain,
           faults' \in 0 .. MaxFaults, lates' \in 0 .. MaxLate
    PROVE  PoolTyped' /\ KnownOfPool'
BY DEF PoolInv, TypeOK, Known, PoolTyped, KnownOfPool

LEMMA SameNet ==
    ASSUME PoolInv, UNCHANGED <<banned, seen, chain>>, notified' \in BOOLEAN
    PROVE  NetTyped'
BY DEF PoolInv, TypeOK, NetTyped

\* What is left to show of a step of the loop.
LEMMA LoopStepKeeps ==
    ASSUME PoolTyped', KnownOfPool', NetTyped', LoopTyped', TriesFit', synced' <= chain'
    PROVE  PoolInv'
BY PartsNext DEF PoolInv, Known, KnownOfPool

LEMMA WakeKeeps ==
    ASSUME PoolInv, Wake
    PROVE  PoolInv'
<1>1. PoolTyped' /\ KnownOfPool'
    BY OnlyStates DEF Wake, pool, bounds, PoolInv, TypeOK
<1>2. NetTyped'
    BY SameNet DEF Wake, pool
<1>3. LoopTyped' /\ TriesFit' /\ synced' <= chain'
    BY TriesBound, PoolAssumption DEF Wake, PoolInv, TypeOK, Known, LoopTyped, TriesFit
<1> QED
    BY <1>1, <1>2, <1>3, LoopStepKeeps

LEMMA StepConnectKeeps ==
    ASSUME PoolInv, StepConnect
    PROVE  PoolInv'
<1>1. PICK busy \in SUBSET Writing :
        IF Ready(busy) # {}
        THEN /\ pc' = "heights" /\ tries' = 0
             /\ Spend(Cost(busy), 0)
             /\ UNCHANGED <<pool, liveTip, error>>
        ELSE /\ \E ok \in BOOLEAN :
                  /\ Connect(conn, busy, liveTip, FALSE, ok)
                  /\ IF ok THEN pc' = "heights" /\ tries' = 0 /\ error' = error
                     ELSE IF tries + 1 < MaxAttempts
                     THEN pc' = pc /\ tries' = tries + 1 /\ error' = error
                     ELSE Return("other") /\ tries' = 0
             /\ UNCHANGED banned
    BY DEF StepConnect
<1>2. /\ pc = "connect"
      /\ UNCHANGED <<seen, notified, chain, app, synced, target, byBlock, before, stage>>
    BY DEF StepConnect
<1>3. busy \in SUBSET Peers /\ Cost(busy) \in {0, 1, 2}
    BY DEF Writing, Cost
<1>4. NetTyped'
    BY <1>1, <1>2, SameNet DEF pool, PoolInv, TypeOK
<1>5. PoolTyped' /\ KnownOfPool'
  <2>1. CASE Ready(busy) # {}
    <3>1. faults' \in 0 .. MaxFaults /\ lates' \in 0 .. MaxLate
        BY <1>1, <1>3, <2>1, Spending DEF Spend, PoolInv
    <3> QED
        BY <1>1, <1>2, <2>1, <3>1, OnlyStates DEF pool, PoolInv, TypeOK
  <2>2. CASE Ready(busy) = {}
    <3>1. PICK ok \in BOOLEAN : Connect(conn, busy, liveTip, FALSE, ok)
        BY <1>1, <2>2
    <3> QED
        BY <1>2, <1>3, <3>1, Connected DEF PoolInv, TypeOK
  <2> QED
      BY <2>1, <2>2
<1>6. /\ pc' \in {"heights", "connect", "after"} /\ error' \in {error, "other"}
      /\ tries' = 0 \/ (tries' = tries + 1 /\ pc' = "connect")
      /\ pc' = "connect" => tries + 1 < MaxAttempts
    BY <1>1, <1>2 DEF Return
<1>7. LoopTyped' /\ TriesFit' /\ synced' <= chain'
    BY <1>2, <1>6, TriesBound, PoolAssumption DEF PoolInv, TypeOK, Known, LoopTyped, TriesFit
<1> QED
    BY <1>4, <1>5, <1>7, LoopStepKeeps

LEMMA Typed == TypeOK => HeightsType
<1>1. Reported \subseteq 0 .. MaxChain + FarHeight
    BY PoolAssumption DEF Reported, Heights
<1> QED
    BY <1>1 DEF TypeOK, HeightsType

\* Where the heights lead a sync.
LEMMA StepHeightsDoes ==
    ASSUME PoolInv, StepHeights
    PROVE  \E busy \in SUBSET Writing :
             /\ Spend(Cost(busy), 0)
             /\ \/ /\ Cardinality(Ready(busy)) < 2
                   /\ pc' = "after" /\ error' \in {"peers", "other"}
                   /\ UNCHANGED <<pool, target>>
                \/ /\ ~(Cardinality(Ready(busy)) < 2)
                   /\ Median(Ready(busy)) \in Nat
                   /\ target' = Agreed(Ready(busy), Median(Ready(busy))) /\ target' \in Nat
                   /\ Ban(Outliers(Ready(busy), Median(Ready(busy)), target')) /\ heard' = heard
                   /\ pc' = (IF synced >= target' THEN "finish" ELSE "listen")
                   /\ error' = error
<1>1. PICK busy \in SUBSET Writing :
         /\ Spend(Cost(busy), 0)
         /\ IF Cardinality(Ready(busy)) < 2
            THEN /\ Return(IF Ready(busy) = {} THEN "peers" ELSE "other")
                 /\ UNCHANGED <<pool, target>>
            ELSE \E median \in {Median(Ready(busy))} : \E tip \in {Agreed(Ready(busy), median)} :
                 /\ target' = tip
                 /\ Ban(Outliers(Ready(busy), median, tip)) /\ heard' = heard
                 /\ pc' = IF synced >= tip THEN "finish" ELSE "listen"
                 /\ error' = error
    BY DEF StepHeights
<1> DEFINE S == Ready(busy)
<1>2. CASE Cardinality(S) < 2
    BY <1>1, <1>2 DEF Return
<1>3. CASE ~(Cardinality(S) < 2)
  <2>1. S \subseteq Peers
      BY DEF Ready, InPool
  <2>2. S # {}
      BY <1>3, FS_EmptySet
  <2> HIDE DEF S
  <2>3. Median(S) \in {height[p] : p \in S}
      BY <2>1, <2>2, Typed, MedianIsInTheMiddle DEF PoolInv
  <2>4. Median(S) \in Nat
      BY <2>1, <2>3, Typed, PoolAssumption DEF PoolInv, HeightsType
  <2>5. Agreed(S, Median(S)) \in Nat
      BY <2>4 DEF Agreed, PoolInv, TypeOK
  <2> QED
      BY <1>1, <1>3, <2>4, <2>5 DEF S
<1> QED
    BY <1>2, <1>3

LEMMA Banning ==
    ASSUME PoolInv, NEW S \in SUBSET Peers, Ban(S)
    PROVE  /\ banned' \subseteq Peers /\ conn' \in [Peers -> ConnStates] /\ stray' \in BOOLEAN
           /\ height' \in [Peers -> Reported]
           /\ \A p \in Peers : p \notin Confused => height'[p] <= chain
<1>1. stray' \in BOOLEAN
    BY DEF Ban, PoolInv, TypeOK
<1>2. conn' \in [Peers -> ConnStates]
    BY DEF Ban, PoolInv, TypeOK, ConnStates
<1>3. banned' \subseteq Peers
    BY DEF Ban, PoolInv, TypeOK
<1> QED
    BY <1>1, <1>2, <1>3, Forgetting DEF Ban, PoolInv

LEMMA StepHeightsKeeps ==
    ASSUME PoolInv, StepHeights
    PROVE  PoolInv'
<1>1. PICK busy \in SUBSET Writing :
         /\ Spend(Cost(busy), 0)
         /\ \/ /\ Cardinality(Ready(busy)) < 2
               /\ pc' = "after" /\ error' \in {"peers", "other"}
               /\ UNCHANGED <<pool, target>>
            \/ /\ ~(Cardinality(Ready(busy)) < 2)
               /\ Median(Ready(busy)) \in Nat
               /\ target' = Agreed(Ready(busy), Median(Ready(busy))) /\ target' \in Nat
               /\ Ban(Outliers(Ready(busy), Median(Ready(busy)), target')) /\ heard' = heard
               /\ pc' = (IF synced >= target' THEN "finish" ELSE "listen")
               /\ error' = error
    BY StepHeightsDoes
<1>2. /\ pc = "heights"
      /\ UNCHANGED <<counting, chain, app, synced, tries, byBlock, before, stage>>
    BY DEF StepHeights
<1>3. faults' \in 0 .. MaxFaults /\ lates' \in 0 .. MaxLate
    BY <1>1, Spending DEF Spend, PoolInv, Cost
<1>4. LoopTyped' /\ TriesFit' /\ synced' <= chain'
    BY <1>1, <1>2, TriesBound DEF PoolInv, TypeOK, Known, LoopTyped, TriesFit, MostTries
<1>5. CASE UNCHANGED pool
  <2>1. PoolTyped' /\ KnownOfPool'
      BY <1>2, <1>3, <1>5, OnlyStates DEF pool, counting, PoolInv, TypeOK
  <2>2. NetTyped'
      BY <1>2, <1>5, SameNet DEF pool, counting, PoolInv, TypeOK
  <2> QED
      BY <1>4, <2>1, <2>2, LoopStepKeeps
<1>6. CASE Ban(Outliers(Ready(busy), Median(Ready(busy)), target')) /\ heard' = heard
  <2>1. Outliers(Ready(busy), Median(Ready(busy)), target') \in SUBSET Peers
      BY DEF Outliers, Ready, InPool
  <2>2. /\ banned' \subseteq Peers /\ conn' \in [Peers -> ConnStates] /\ stray' \in BOOLEAN
        /\ height' \in [Peers -> Reported]
        /\ \A p \in Peers : p \notin Confused => height'[p] <= chain
      BY <1>6, <2>1, Banning
  <2>3. PoolTyped' /\ KnownOfPool' /\ NetTyped'
      BY <1>2, <1>3, <1>6, <2>2 DEF PoolInv, TypeOK, Known, PoolTyped, KnownOfPool, NetTyped, counting
  <2> QED
      BY <1>4, <2>3, LoopStepKeeps
<1> QED
    BY <1>1, <1>5, <1>6

LEMMA StepListenKeeps ==
    ASSUME PoolInv, StepListen
    PROVE  PoolInv'
<1>1. /\ pc = "listen" /\ pc' \in {"after", "fetch"} /\ error' \in {error, "peers"}
      /\ UNCHANGED <<banned, seen, notified, chain, app, synced, target, tries, byBlock, before,
                     stage>>
    BY DEF StepListen, Return
<1>2. NetTyped'
    BY <1>1, SameNet DEF PoolInv, TypeOK
<1>3. LoopTyped' /\ TriesFit' /\ synced' <= chain'
    BY <1>1, TriesBound, PoolAssumption DEF PoolInv, TypeOK, Known, LoopTyped, TriesFit, MostTries
<1>4. PoolTyped' /\ KnownOfPool'
  <2>1. CASE conn' = Started(conn) /\ UNCHANGED <<height, heard, stray, liveTip, bounds>>
    <3>1. conn' \in [Peers -> ConnStates]
        BY <2>1, StartedType DEF PoolInv, TypeOK
    <3> QED
        BY <1>1, <2>1, <3>1, OnlyStates DEF PoolInv, TypeOK, bounds
  <2>2. ASSUME NEW ok \in BOOLEAN, Reconnect(TRUE, ok)
        PROVE  PoolTyped' /\ KnownOfPool'
      BY <1>1, <2>2, Reconnected
  <2> QED
      BY <2>1, <2>2 DEF StepListen
<1> QED
    BY <1>2, <1>3, <1>4, LoopStepKeeps

LEMMA StepFetchKeeps ==
    ASSUME PoolInv, StepFetch
    PROVE  PoolInv'
<1>1. /\ pc = "fetch"
      /\ UNCHANGED <<seen, notified, chain, app, target, byBlock, before, stage>>
    BY DEF StepFetch
<1>2. CASE \E p \in Peers : \E has \in heard[p] .. chain :
            /\ conn[p] = "listening"
            /\ Spend(0, IF has = chain THEN 0 ELSE 1)
            /\ synced' = Max({synced, Min({target, has})})
            /\ pc' = "finish" /\ tries' = 0
            /\ UNCHANGED <<pool, liveTip, error>>
  <2>0. PICK p \in Peers : \E has \in heard[p] .. chain :
            /\ Spend(0, IF has = chain THEN 0 ELSE 1)
            /\ synced' = Max({synced, Min({target, has})})
            /\ pc' = "finish" /\ tries' = 0
            /\ UNCHANGED <<pool, liveTip, error>>
      BY <1>2
  <2>1. PICK has \in heard[p] .. chain :
            /\ Spend(0, IF has = chain THEN 0 ELSE 1)
            /\ synced' = Max({synced, Min({target, has})})
            /\ pc' = "finish" /\ tries' = 0
            /\ UNCHANGED <<pool, liveTip, error>>
      BY <2>0
  <2>2. /\ synced \in Nat /\ target \in Nat /\ has \in Nat /\ chain \in Nat
        /\ has <= chain /\ synced <= chain /\ chain <= MaxChain /\ MaxChain \in Nat
      BY PoolAssumption DEF PoolInv, TypeOK, Known, Heights
  <2>3. Min({target, has}) \in Nat /\ Min({target, has}) <= has
      BY <2>2, MaxOrSame
  <2>4. synced' \in Nat /\ synced' <= chain
    <3> DEFINE m == Min({target, has})
    <3>1. m \in Nat /\ m <= chain
        BY <2>2, <2>3
    <3> HIDE DEF m
    <3>2. Max({synced, m}) \in Nat /\ Max({synced, m}) <= chain
        BY <2>2, <3>1, MaxOrSame
    <3> QED
        BY <2>1, <3>2 DEF m
  <2>5. synced' \in Heights
      BY <2>2, <2>4 DEF Heights
  <2>6. LoopTyped' /\ TriesFit' /\ synced' <= chain'
      BY <1>1, <2>1, <2>4, <2>5, TriesBound
      DEF PoolInv, TypeOK, LoopTyped, TriesFit, pool, MostTries
  <2>7. faults' \in 0 .. MaxFaults /\ lates' \in 0 .. MaxLate
      BY <2>1, Spending DEF Spend, PoolInv
  <2>8. PoolTyped' /\ KnownOfPool'
      BY <1>1, <2>1, <2>7, OnlyStates DEF PoolInv, TypeOK, pool
  <2>9. NetTyped'
      BY <1>1, <2>1, SameNet DEF PoolInv, TypeOK, pool
  <2> QED
      BY <2>6, <2>8, <2>9, LoopStepKeeps
<1>3. CASE /\ \A p \in Peers : conn[p] # "listening"
           /\ synced' = synced
           /\ UNCHANGED banned
           /\ IF tries = MaxReconnects
              THEN /\ Return("peers") /\ tries' = 0
                   /\ UNCHANGED <<conn, height, heard, stray, liveTip, bounds>>
              ELSE \E ok \in BOOLEAN :
                     /\ Reconnect(TRUE, ok)
                     /\ IF ok THEN pc' = pc /\ tries' = tries + 1 /\ error' = error
                        ELSE Return("other") /\ tries' = 0
  <2>1. /\ pc' \in {"after", "fetch"} /\ error' \in {error, "peers", "other"}
        /\ tries' = 0 \/ (tries # MaxReconnects /\ tries' = tries + 1 /\ pc' = "fetch")
        /\ pc' = "after" => tries' = 0
      BY <1>1, <1>3 DEF Return
  <2>2. LoopTyped' /\ TriesFit' /\ synced' <= chain'
      BY <1>1, <1>3, <2>1, TriesBound, PoolAssumption
      DEF PoolInv, TypeOK, Known, LoopTyped, TriesFit, MostTries
  <2>3. NetTyped'
      BY <1>1, <1>3, SameNet DEF PoolInv, TypeOK
  <2>4. PoolTyped' /\ KnownOfPool'
    <3>1. CASE UNCHANGED <<conn, height, heard, stray, liveTip, bounds>>
        BY <1>1, <3>1, OnlyStates DEF PoolInv, TypeOK, bounds
    <3>2. ASSUME NEW ok \in BOOLEAN, Reconnect(TRUE, ok)
          PROVE  PoolTyped' /\ KnownOfPool'
        BY <1>1, <3>2, Reconnected
    <3> QED
        BY <1>3, <3>1, <3>2
  <2> QED
      BY <2>2, <2>3, <2>4, LoopStepKeeps
<1> QED
    BY <1>2, <1>3 DEF StepFetch

LEMMA FinishAndRestKeep ==
    ASSUME PoolInv, StepFinish \/ Rest
    PROVE  PoolInv'
<1>1. /\ conn' \in {conn, Started(conn)} /\ liveTip' \in {liveTip, synced}
      /\ UNCHANGED <<height, heard, stray, banned, seen, notified, chain, app, synced, tries, bounds>>
      /\ pc \in {"finish", "after"} /\ pc' \in {"after", "sleep"}
    BY DEF StepFinish, Rest, Return, Handled, counting
<1>2. PoolTyped' /\ KnownOfPool'
  <2>1. conn' \in [Peers -> ConnStates] /\ liveTip' \in Nat
      BY <1>1, StartedType DEF PoolInv, TypeOK, Heights
  <2> QED
      BY <1>1, <2>1, OnlyStates DEF PoolInv, TypeOK, bounds
<1>3. NetTyped'
    BY <1>1, SameNet DEF PoolInv, TypeOK
<1>4. /\ error' = "none" /\ target' \in {target, 0} /\ byBlock' \in {byBlock, FALSE}
      /\ before' \in {before, 0} /\ stage' \in {stage, 1}
    BY DEF StepFinish, Rest, Return
<1>5. LoopTyped' /\ TriesFit' /\ synced' <= chain'
  <2>1. target' \in Nat /\ stage' \in 1 .. 3
      BY <1>4 DEF PoolInv, TypeOK
  <2>2. 0 \in Heights
      BY PoolAssumption DEF Heights
  <2>3. before' \in Heights /\ byBlock' \in BOOLEAN
      BY <1>4, <2>2 DEF PoolInv, TypeOK
  <2>4. synced' <= chain' /\ TriesFit'
      BY <1>1 DEF PoolInv, Known, TriesFit
  <2> QED
      BY <1>1, <1>4, <2>1, <2>3, <2>4 DEF PoolInv, TypeOK, LoopTyped, MostTries
<1> QED
    BY <1>2, <1>3, <1>5, LoopStepKeeps

LEMMA RecoverKeeps ==
    ASSUME PoolInv, Recover
    PROVE  PoolInv'
<1>1. /\ pc = "after" /\ error' = "other"
      /\ UNCHANGED <<banned, seen, notified, chain, app, synced, pc, target, tries, byBlock, before,
                     stage>>
    BY DEF Recover
<1>2. PICK ok \in BOOLEAN : Reconnect(FALSE, ok)
    BY DEF Recover
<1>3. PoolTyped' /\ KnownOfPool'
    BY <1>1, <1>2, Reconnected
<1>4. NetTyped'
    BY <1>1, SameNet DEF PoolInv, TypeOK
<1>5. LoopTyped' /\ TriesFit' /\ synced' <= chain'
    BY <1>1 DEF PoolInv, TypeOK, Known, LoopTyped, TriesFit, MostTries
<1> QED
    BY <1>3, <1>4, <1>5, LoopStepKeeps

LEMMA AgainKeeps ==
    ASSUME PoolInv, Again
    PROVE  PoolInv'
<1>1. /\ stage < 3 /\ stage' = stage + 1 /\ pc' = "connect" /\ tries' = 0
      /\ UNCHANGED <<banned, seen, notified, chain, app, synced, target, error, byBlock, before>>
    BY DEF Again
<1>2. PoolTyped' /\ KnownOfPool'
  <2>1. CASE UNCHANGED <<conn, height, heard, stray, liveTip, bounds>>
      BY <1>1, <2>1, OnlyStates DEF PoolInv, TypeOK, bounds
  <2>2. ASSUME NEW ok \in BOOLEAN, Reconnect(FALSE, ok)
        PROVE  PoolTyped' /\ KnownOfPool'
      BY <1>1, <2>2, Reconnected
  <2> QED
      BY <2>1, <2>2 DEF Again
<1>3. NetTyped'
    BY <1>1, SameNet DEF PoolInv, TypeOK
<1>4. LoopTyped' /\ TriesFit' /\ synced' <= chain'
  <2>1. stage \in 1 .. 3 /\ stage' \in 1 .. 3
      BY <1>1 DEF PoolInv, TypeOK
  <2>2. tries' \in 0 .. MostTries /\ tries' < MaxAttempts
      BY <1>1, TriesBound, PoolAssumption
  <2> QED
      BY <1>1, <2>1, <2>2 DEF PoolInv, TypeOK, Known, LoopTyped, TriesFit
<1> QED
    BY <1>2, <1>3, <1>4, LoopStepKeeps

\* Steps of others leave the loop alone.
LEMMA LoopUntouched ==
    ASSUME PoolInv, PoolTyped', KnownOfPool', NetTyped', loop' = loop, chain' = chain
    PROVE  PoolInv'
<1>1. LoopTyped' /\ TriesFit' /\ synced' <= chain'
    BY DEF PoolInv, TypeOK, Known, LoopTyped, TriesFit, MostTries, loop
<1> QED
    BY <1>1, LoopStepKeeps

LEMMA HealthCheckKeeps ==
    ASSUME PoolInv, HealthCheck
    PROVE  PoolInv'
<1>1. UNCHANGED <<banned, seen, notified, chain, loop>>
    BY DEF HealthCheck
<1>2. PICK ok \in BOOLEAN : Reconnect(TRUE, ok)
    BY DEF HealthCheck
<1>3. PoolTyped' /\ KnownOfPool'
    BY <1>1, <1>2, Reconnected
<1>4. NetTyped'
    BY <1>1, SameNet DEF PoolInv, TypeOK
<1> QED
    BY <1>1, <1>3, <1>4, LoopUntouched

LEMMA UserKeeps ==
    ASSUME PoolInv, NEW p \in Peers, DisconnectPeer(p) \/ UnbanPeer(p)
    PROVE  PoolInv'
<1>1. faults' \in 0 .. MaxFaults /\ lates' \in 0 .. MaxLate
    BY Spending DEF DisconnectPeer, UnbanPeer, Spend, PoolInv
<1>2. /\ conn' \in [Peers -> ConnStates] /\ stray' \in BOOLEAN
      /\ heard' = heard /\ UNCHANGED <<counting, chain, loop>> /\ banned' \subseteq Peers
    BY DEF DisconnectPeer, UnbanPeer, PoolInv, TypeOK, ConnStates
<1>3. /\ height' \in [Peers -> Reported]
      /\ \A q \in Peers : q \notin Confused => height'[q] <= chain
    BY Forgetting DEF DisconnectPeer, UnbanPeer, PoolInv, TypeOK, Known
<1>4. PoolTyped' /\ KnownOfPool' /\ NetTyped'
    BY <1>1, <1>2, <1>3 DEF PoolInv, TypeOK, Known, PoolTyped, KnownOfPool, NetTyped, counting
<1> QED
    BY <1>2, <1>4, LoopUntouched

LEMMA MineKeeps ==
    ASSUME PoolInv, Mine
    PROVE  PoolInv'
<1>1. chain \in Nat /\ MaxChain \in Nat /\ chain < MaxChain /\ chain' = chain + 1
    BY PoolAssumption DEF Mine, PoolInv, TypeOK, Heights
<1>2. chain' \in Heights /\ chain <= chain'
    BY <1>1 DEF Heights
<1>3. UNCHANGED <<pool, counting, loop, bounds>>
    BY DEF Mine
<1>4. TypeOK' /\ TriesFit'
    BY <1>2, <1>3 DEF PoolInv, TypeOK, TriesFit, pool, counting, loop, bounds
<1>5. Known'
  <2>1. /\ \A p \in Peers : heard[p] \in Nat
        /\ \A p \in Peers : height[p] \in Nat
        /\ synced \in Nat
      BY PoolAssumption DEF PoolInv, TypeOK, Heights, Reported
  <2> QED
      BY <1>1, <1>3, <2>1 DEF PoolInv, Known, pool, loop
<1> QED
    BY <1>4, <1>5 DEF PoolInv

LEMMA ConnectionsKeep ==
    ASSUME PoolInv, StrayEnds \/ (\E S \in SUBSET Peers : Break(S)) \/ (\E p \in Peers : ListenerEnds(p))
    PROVE  PoolInv'
<1>1. faults' \in 0 .. MaxFaults /\ lates' \in 0 .. MaxLate
  <2>1. CASE \E S \in SUBSET Peers : Break(S)
      BY <2>1, Spending DEF Break, Spend, PoolInv
  <2>2. CASE UNCHANGED bounds
      BY <2>2 DEF bounds, PoolInv, TypeOK
  <2> QED
      BY <2>1, <2>2 DEF StrayEnds, ListenerEnds
<1>2. /\ conn' \in [Peers -> ConnStates] /\ stray' \in BOOLEAN
      /\ UNCHANGED <<height, heard, banned, counting, chain, loop>>
    BY DEF StrayEnds, Break, ListenerEnds, PoolInv, TypeOK, ConnStates
<1>3. PoolTyped' /\ KnownOfPool'
    BY <1>1, <1>2, OnlyStates DEF PoolInv, TypeOK, counting
<1>4. NetTyped'
    BY <1>2, SameNet DEF PoolInv, TypeOK, counting
<1> QED
    BY <1>2, <1>3, <1>4, LoopUntouched

LEMMA AnnounceKeeps ==
    ASSUME PoolInv, (\E p \in Peers : Announce(p)) \/ StrayAnnounces
    PROVE  PoolInv'
<1>1. \E b \in Heights : Count(b)
  <2>1. ASSUME NEW p \in Peers, Announce(p)
        PROVE  heard[p] + 1 \in Heights
      BY <2>1, PoolAssumption DEF Announce, PoolInv, TypeOK, Heights
  <2> QED
      BY <2>1 DEF Announce, StrayAnnounces, PoolInv, TypeOK
<1>2. /\ liveTip' \in Nat /\ notified' \in BOOLEAN
      /\ seen' \subseteq Heights /\ Cardinality(seen') <= SeenLimit
    BY <1>1, Counting DEF PoolInv
<1>3. heard' \in [Peers -> Heights] /\ \A p \in Peers : heard'[p] <= chain
  <2>1. ASSUME NEW p \in Peers, Announce(p)
        PROVE  heard' \in [Peers -> Heights] /\ \A q \in Peers : heard'[q] <= chain
    <3>1. heard[p] + 1 \in Heights /\ heard[p] + 1 <= chain
        BY <2>1, PoolAssumption DEF Announce, PoolInv, TypeOK, Heights
    <3> QED
        BY <2>1, <3>1 DEF Announce, PoolInv, TypeOK, Known
  <2> QED
      BY <2>1 DEF StrayAnnounces, pool, PoolInv, TypeOK, Known
<1>4. UNCHANGED <<conn, height, stray, banned, chain, loop, bounds>>
    BY DEF Announce, StrayAnnounces, pool
<1>5. PoolTyped' /\ KnownOfPool' /\ NetTyped'
    BY <1>2, <1>3, <1>4 DEF PoolInv, TypeOK, Known, PoolTyped, KnownOfPool, NetTyped, bounds
<1> QED
    BY <1>4, <1>5, LoopUntouched

LEMMA PoolInitially == Init => PoolInv
<1> SUFFICES ASSUME Init PROVE PoolInv
    OBVIOUS
<1>1. Cardinality(seen) = 0 /\ 0 \in Heights /\ 0 \in Reported
    BY PoolAssumption, FS_EmptySet DEF Init, Heights, Reported
<1>2. TypeOK
  <2>1. 0 \in 0 .. MostTries /\ 0 <= SeenLimit
      BY TriesBound, PoolAssumption
  <2>2. /\ conn \in [Peers -> ConnStates]
        /\ height \in [Peers -> Reported] /\ heard \in [Peers -> Heights]
      BY <1>1 DEF Init, ConnStates
  <2>3. 0 \in 0 .. MaxFaults /\ 0 \in 0 .. MaxLate /\ 1 \in 1 .. 3
      BY PoolAssumption
  <2>4. seen \subseteq Heights /\ Cardinality(seen) <= SeenLimit
      BY <1>1, <2>1 DEF Init
  <2> QED
      BY <1>1, <2>1, <2>2, <2>3, <2>4 DEF Init, TypeOK, MostTries
<1> QED
    BY <1>2, PoolAssumption DEF Init, PoolInv, Known, TriesFit

LEMMA PoolStepKeeps == PoolInv /\ [Next]_vars => PoolInv'
<1> SUFFICES ASSUME PoolInv, [Next]_vars PROVE PoolInv'
    OBVIOUS
<1>1. CASE LoopStep
    BY <1>1, WakeKeeps, StepConnectKeeps, StepHeightsKeeps, StepListenKeeps, StepFetchKeeps,
       FinishAndRestKeep, RecoverKeeps, AgainKeeps DEF LoopStep
<1>2. CASE HealthCheck \/ Mine \/ StrayAnnounces \/ StrayEnds
    BY <1>2, HealthCheckKeeps, MineKeeps, AnnounceKeeps, ConnectionsKeep
<1>3. CASE \E S \in SUBSET Peers : Break(S)
    BY <1>3, ConnectionsKeep
<1>4. CASE \E p \in Peers : \/ ListenerEnds(p) \/ Announce(p) \/ DisconnectPeer(p) \/ UnbanPeer(p)
    BY <1>4, ConnectionsKeep, AnnounceKeeps, UserKeeps
<1>5. CASE UNCHANGED vars
    BY <1>5 DEF vars, pool, counting, loop, bounds, PoolInv, TypeOK, Known, TriesFit
<1> QED
    BY <1>1, <1>2, <1>3, <1>4, <1>5 DEF Next

\* Every variable keeps its type.
THEOREM PoolTypeCorrect == Spec => []TypeOK
<1>1. PoolInv => TypeOK
    BY DEF PoolInv
<1> QED
    BY <1>1, PoolInitially, PoolStepKeeps, PTL DEF Spec

-----------------------------------------------------------------------------
(* What confused peers can do.                                              *)

Outvoted(S) == 2 * Cardinality(S \cap Confused) < Cardinality(S)

\* The middle of the heights is at most the chain's when most say the truth.
LEMMA MedianIsHonest ==
    ASSUME PoolInv, NEW S \in SUBSET Peers, Outvoted(S)
    PROVE  Median(S) <= chain
<1> DEFINE honest == S \ Confused
           m == Median(S)
           n == Cardinality(S)
           wrong == Cardinality(S \cap Confused)
<1>1. IsFiniteSet(S) /\ n \in Nat /\ wrong \in Nat
  <2>1. IsFiniteSet(S) /\ IsFiniteSet(S \cap Confused)
      BY PoolAssumption, FS_Subset
  <2> QED
      BY <2>1, FS_CardinalityType
<1>2. Cardinality(honest) = n - wrong
    BY <1>1, FS_Difference
<1>3. 2 * wrong < n
    BY DEF Outvoted
<1>4. S # {}
  <2>1. n > 0
      BY <1>1, <1>3
  <2> QED
      BY <2>1, FS_EmptySet
<1>5. /\ m \in {height[p] : p \in S}
      /\ Cardinality(Less(S, m)) <= n \div 2
    BY <1>4, Typed, MedianIsInTheMiddle DEF PoolInv
<1>6. m \in Nat /\ chain \in Nat /\ \A p \in S : height[p] \in Nat
    BY <1>5, Typed, PoolAssumption DEF PoolInv, HeightsType, TypeOK, Heights
<1> HIDE DEF m, n, wrong
<1> SUFFICES ASSUME chain < m PROVE FALSE
    BY <1>6 DEF m
<1>7. honest \subseteq Less(S, m) /\ Less(S, m) \subseteq S
    BY <1>6 DEF Less, PoolInv, Known
<1>8. Cardinality(honest) <= Cardinality(Less(S, m)) /\ Cardinality(Less(S, m)) \in Nat
  <2>1. IsFiniteSet(Less(S, m))
      BY <1>1, <1>7, FS_Subset
  <2> QED
      BY <1>7, <2>1, FS_Subset, FS_CardinalityType
<1>9. n - wrong <= n \div 2
    BY <1>1, <1>2, <1>5, <1>8
<1> QED
    BY <1>1, <1>3, <1>9

\* Whatever was counted twice or said wrongly, no sync goes further than LiveRange
\* beyond the chain while confused peers are outvoted among those that are asked,
\* whoever of the others is busy.
TargetIsNear ==
    [][pc = "heights" /\ pc' # "after"
         /\ (\A busy \in SUBSET Writing :
                Cardinality(Ready(busy)) >= 2 => Outvoted(Ready(busy)))
       => target' <= chain + LiveRange]_pc

\* Live heights are believed near the median only (get_consensus_height), so one
\* wrong majority is what it takes to send a sync far beyond the chain.
THEOREM TargetStaysNear == Spec => TargetIsNear
<1> DEFINE asked == pc = "heights" /\ pc' # "after"
                    /\ (\A busy \in SUBSET Writing :
                           Cardinality(Ready(busy)) >= 2 => Outvoted(Ready(busy)))
<1>1. ASSUME PoolInv, StepHeights, asked
      PROVE  target' <= chain + LiveRange
  <2>1. PICK busy \in SUBSET Writing :
           /\ ~(Cardinality(Ready(busy)) < 2)
           /\ Median(Ready(busy)) \in Nat
           /\ target' = Agreed(Ready(busy), Median(Ready(busy)))
      BY <1>1, StepHeightsDoes
  <2> DEFINE S == Ready(busy)
             m == Median(S)
  <2>2. S \in SUBSET Peers
      BY DEF Ready, InPool
  <2>3. IsFiniteSet(S) /\ Cardinality(S) \in Nat
      BY <2>2, PoolAssumption, FS_Subset, FS_CardinalityType
  <2>4. Outvoted(S)
      BY <1>1, <2>1, <2>3
  <2>5. m <= chain
      BY <1>1, <2>2, <2>4, MedianIsHonest
  <2>6. m \in Nat /\ chain \in Nat /\ liveTip \in Nat /\ LiveRange \in Nat
      BY <1>1, <2>1, PoolAssumption DEF PoolInv, TypeOK, Heights
  <2>7. target' = m \/ (target' = liveTip /\ liveTip \in m + 1 .. m + LiveRange)
      BY <2>1 DEF Agreed
  <2> QED
      BY <2>5, <2>6, <2>7
<1>2. ASSUME PoolInv, Next, asked, ~UNCHANGED pc
      PROVE  target' <= chain + LiveRange
  <2>1. StepHeights
      BY <1>2 DEF Next, LoopStep, Wake, StepConnect, StepListen, StepFetch, StepFinish, Recover,
         Again, Rest, Handled, HealthCheck, Mine, StrayAnnounces, StrayEnds, Break, ListenerEnds,
         Announce, DisconnectPeer, UnbanPeer, loop
  <2> QED
      BY <1>1, <1>2, <2>1
<1>3. PoolInv /\ [Next]_vars => [asked => target' <= chain + LiveRange]_pc
    BY <1>2 DEF vars, loop
<1> QED
    BY <1>3, PoolInitially, PoolStepKeeps, PTL DEF Spec, TargetIsNear

-----------------------------------------------------------------------------
(* How long the loop is awake.                                              *)

OneStage == MaxReconnects + MaxAttempts + 6

\* How far a stage is from its end.
Place ==
    CASE pc = "connect" -> 5 + MaxReconnects + (MaxAttempts - tries)
      [] pc = "heights" -> 5 + MaxReconnects
      [] pc = "listen" -> 4 + MaxReconnects
      [] pc = "fetch" -> 3 + (MaxReconnects - tries)
      [] pc = "finish" -> 2
      [] pc = "after" -> IF app = "desktop" /\ error = "peers" THEN 1 ELSE 0
      [] OTHER -> 0

LoopWork == (3 - stage) * OneStage + Place

LEMMA PlaceIsInStage ==
    ASSUME PoolInv
    PROVE  Place \in 0 .. OneStage - 1 /\ OneStage \in Nat /\ Place \in Nat
<1>1. /\ tries \in Nat /\ MaxReconnects \in Nat /\ MaxAttempts \in Nat
      /\ pc \in {"sleep", "connect", "heights", "listen", "fetch", "finish", "after"}
    BY TriesBound, PoolAssumption DEF PoolInv, TypeOK, MostTries
<1> QED
    BY <1>1 DEF PoolInv, TriesFit, Place, OneStage

LEMMA WorkFits ==
    ASSUME PoolInv
    PROVE  LoopWork \in 0 .. 3 * OneStage - 1
<1>1. Place \in 0 .. OneStage - 1 /\ OneStage \in Nat /\ stage \in {1, 2, 3}
    BY PlaceIsInStage DEF PoolInv, TypeOK
<1>2. /\ stage = 1 => LoopWork = 2 * OneStage + Place
      /\ stage = 2 => LoopWork = OneStage + Place
      /\ stage = 3 => LoopWork = Place
  <2>1. \A n \in Nat : 2 * n = n + n /\ 1 * n = n /\ 0 * n = 0
      OBVIOUS
  <2> QED
      BY <1>1, <2>1 DEF LoopWork
<1> QED
    BY <1>1, <1>2

\* Every step within a stage comes closer to its end.
LEMMA CloserToTheEnd ==
    ASSUME PoolInv, pc # "sleep", pc' # "sleep",
           StepConnect \/ StepHeights \/ StepListen \/ StepFetch \/ StepFinish \/ Recover
    PROVE  stage' = stage /\ Place' \in Nat /\ Place' < Place
<1>1. /\ tries \in Nat /\ MaxReconnects \in Nat /\ MaxAttempts \in Nat
    BY TriesBound, PoolAssumption DEF PoolInv, TypeOK, MostTries
<1>2. CASE StepConnect
  <2>1. /\ pc = "connect" /\ tries < MaxAttempts /\ stage' = stage
        /\ \/ pc' \in {"heights", "after"}
           \/ pc' = "connect" /\ tries' = tries + 1 /\ tries + 1 < MaxAttempts
      BY <1>2 DEF StepConnect, Return, PoolInv, TriesFit
  <2> QED
      BY <1>1, <2>1 DEF Place
<1>3. CASE StepHeights
  <2>1. pc = "heights" /\ stage' = stage /\ pc' \in {"after", "finish", "listen"}
      BY <1>3 DEF StepHeights, Return
  <2> QED
      BY <1>1, <2>1 DEF Place
<1>4. CASE StepListen
  <2>1. /\ pc = "listen" /\ stage' = stage /\ pc' \in {"after", "fetch"}
        /\ tries' = tries /\ tries = 0
      BY <1>4 DEF StepListen, Return, PoolInv, TriesFit
  <2> QED
      BY <1>1, <2>1 DEF Place
<1>5. CASE StepFetch
  <2>1. /\ pc = "fetch" /\ tries <= MaxReconnects /\ stage' = stage
        /\ \/ pc' \in {"finish", "after"}
           \/ pc' = "fetch" /\ tries' = tries + 1 /\ tries # MaxReconnects
      BY <1>5 DEF StepFetch, Return, PoolInv, TriesFit
  <2> QED
      BY <1>1, <2>1 DEF Place
<1>6. CASE StepFinish
    BY <1>1, <1>6 DEF StepFinish, Return, Place
<1>7. CASE Recover
    BY <1>1, <1>7 DEF Recover, Place
<1> QED
    BY <1>2, <1>3, <1>4, <1>5, <1>6, <1>7

LEMMA LessWork ==
    ASSUME PoolInv, PoolInv', LoopStep, pc # "sleep", pc' # "sleep"
    PROVE  LoopWork' < LoopWork
<1>1. /\ Place \in 0 .. OneStage - 1 /\ OneStage \in Nat /\ stage \in {1, 2, 3}
    BY PlaceIsInStage DEF PoolInv, TypeOK
<1>2. LoopWork \in Nat
    BY <1>1 DEF LoopWork
<1>3. CASE StepConnect \/ StepHeights \/ StepListen \/ StepFetch \/ StepFinish \/ Recover
  <2>1. stage' = stage /\ Place' \in Nat /\ Place' < Place
      BY <1>3, CloserToTheEnd
  <2>2. LoopWork' = (3 - stage) * OneStage + Place'
      BY <2>1 DEF LoopWork, OneStage
  <2> DEFINE later == (3 - stage) * OneStage
  <2>3. later \in Nat
      BY <1>1
  <2>4. LoopWork' = later + Place' /\ LoopWork = later + Place
      BY <2>2 DEF LoopWork
  <2>5. \A x \in Nat : x < Place => later + x < later + Place
      BY <1>1, <2>3
  <2> HIDE DEF later
  <2> QED
      BY <2>1, <2>4, <2>5
<1>4. CASE Again
  <2>1. /\ stage \in {1, 2} /\ stage' = stage + 1 /\ pc' = "connect" /\ tries' = 0
      BY <1>1, <1>4 DEF Again
  <2>2. Place' = 5 + MaxReconnects + MaxAttempts /\ Place' = OneStage - 1
      BY <2>1, PoolAssumption DEF Place, OneStage
  <2>3. (3 - stage) * OneStage = (3 - stage') * OneStage + OneStage
    <3>1. \A n \in Nat : (3 - 1) * n = (3 - 2) * n + n /\ (3 - 2) * n = (3 - 3) * n + n
        OBVIOUS
    <3> QED
        BY <1>1, <2>1, <3>1
  <2> DEFINE later == (3 - stage') * OneStage
  <2>4. LoopWork' = later + Place' /\ LoopWork = later + OneStage + Place
      BY <2>3 DEF LoopWork, OneStage
  <2>5. later \in Nat
      BY <1>1, <2>1
  <2> HIDE DEF later
  <2> QED
      BY <1>1, <2>2, <2>4, <2>5
<1> QED
    BY <1>3, <1>4 DEF LoopStep, Wake, Rest

\* From waking to sleeping the loop makes at most 3 * OneStage steps of its own,
\* whatever peers and listeners do meanwhile: no chain of retries, reconnects and
\* recoveries keeps it from the next timer or announcement (handle_sync and
\* sync_with_retry give up together).
THEOREM LoopIsBounded ==
    Spec => /\ []((pc # "sleep") => LoopWork \in 0 .. 3 * OneStage - 1)
            /\ [][pc # "sleep" /\ pc' # "sleep" => LoopWork' < LoopWork]_loop
<1>1. PoolInv => (pc # "sleep" => LoopWork \in 0 .. 3 * OneStage - 1)
    BY WorkFits
<1>2. ASSUME PoolInv, PoolInv', Next, ~UNCHANGED loop, pc # "sleep", pc' # "sleep"
      PROVE  LoopWork' < LoopWork
  <2>1. LoopStep
      BY <1>2 DEF Next, HealthCheck, Mine, StrayAnnounces, StrayEnds, Break, ListenerEnds, Announce,
         DisconnectPeer, UnbanPeer
  <2> QED
      BY <1>2, <2>1, LessWork
<1>3. PoolInv /\ PoolInv' /\ [Next]_vars
      => [pc # "sleep" /\ pc' # "sleep" => LoopWork' < LoopWork]_loop
    BY <1>2 DEF vars
<1> QED
    BY <1>1, <1>3, PoolInitially, PoolStepKeeps, PTL DEF Spec
=============================================================================
