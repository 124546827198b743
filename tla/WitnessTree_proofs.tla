------------------------ MODULE WitnessTree_proofs ------------------------
(***************************************************************************)
(* For chains of any length with any outputs, wherever syncs stop and      *)
(* repairs fall: the tables stay well formed, the notes of the boost file  *)
(* are there while a tree is, and after the validation of a sync a store   *)
(* counts as verified only beside a tree with a root of the chain.         *)
(*                                                                         *)
(* A tree is the ascending sequence of a set of heights. That there is one *)
(* is an induction on the size of the set, in the form the provers take:   *)
(* the smallest size without one would have a smaller one.                 *)
(***************************************************************************)
EXTENDS WitnessTree, FiniteSetTheorems, WellFoundedInduction, TLAPS

-----------------------------------------------------------------------------
(* Sets of heights and their sequences.                                     *)

LEMMA LeastNumber ==
    ASSUME NEW T, T \subseteq Nat, T # {}
    PROVE  \E m \in T : \A n \in T : m <= n
<1>1. PICK m \in T : \A n \in T : ~ (<<n, m>> \in OpToRel(<, Nat))
    BY NatLessThanWellFounded, WFMin
<1>2. \A n \in T : ~(n < m)
    BY <1>1 DEF OpToRel
<1> QED
    BY <1>2

\* A set of numbers with a bound has a greatest element.
LEMMA GreatestNumber ==
    ASSUME NEW S, S \subseteq Nat, S # {}, NEW b \in Nat, \A x \in S : x <= b
    PROVE  \E m \in S : \A x \in S : m >= x
<1> DEFINE T == {n \in Nat : \A x \in S : x <= n}
<1>1. PICK m \in T : \A n \in T : m <= n
  <2>1. b \in T /\ T \subseteq Nat
      OBVIOUS
  <2> QED
      BY <2>1, LeastNumber
<1>2. m \in S
  <2> SUFFICES ASSUME m \notin S PROVE FALSE
      OBVIOUS
  <2>1. PICK x \in S : TRUE
      OBVIOUS
  <2>2. \A y \in S : y < m
      BY <1>1
  <2>3. m - 1 \in Nat /\ \A y \in S : y <= m - 1
      BY <1>1, <2>1, <2>2
  <2>4. m - 1 \in T
      BY <2>3
  <2> QED
      BY <1>1, <2>3, <2>4
<1> QED
    BY <1>1, <1>2

LEMMA MaxIsGreatest ==
    ASSUME NEW S, S \subseteq Nat, S # {}, NEW b \in Nat, \A x \in S : x <= b
    PROVE  Max(S) \in S /\ \A x \in S : x <= Max(S)
<1>1. \E m \in S : \A x \in S : m >= x
    BY GreatestNumber
<1>2. Max(S) \in S /\ \A x \in S : Max(S) >= x
    BY <1>1 DEF Max
<1> QED
    BY <1>2

\* The sequence s lists the set S in ascending order.
Lists(s, S) ==
    /\ s \in [1..Cardinality(S) -> S]
    /\ \A i, j \in DOMAIN s : i < j => s[i] < s[j]

LEMMA HeightsAreFinite ==
    ASSUME NEW S, S \subseteq Outputs
    PROVE  /\ S \subseteq Nat /\ IsFiniteSet(S) /\ Cardinality(S) \in Nat
           /\ \A x \in S : x <= MaxHeight
<1>1. S \subseteq 1..MaxHeight /\ 1 \in Int /\ MaxHeight \in Int
    BY HeightsAssumption DEF Heights
<1>2. IsFiniteSet(1..MaxHeight)
    BY <1>1, FS_Interval
<1>3. IsFiniteSet(S)
    BY <1>1, <1>2, FS_Subset
<1>4. Cardinality(S) \in Nat
    BY <1>3, FS_CardinalityType
<1> QED
    BY <1>1, <1>3, <1>4

\* A list of all but the greatest element goes on with that element.
LEMMA ListGrows ==
    ASSUME NEW S, S \subseteq Outputs, S # {}, NEW s, Lists(s, S \ {Max(S)})
    PROVE  \E t : Lists(t, S)
<1> DEFINE m == Max(S)
           R == S \ {m}
           k == Cardinality(R)
<1>1. m \in S /\ (\A x \in S : x <= m) /\ S \subseteq Nat
    BY HeightsAreFinite, MaxIsGreatest, HeightsAssumption
<1>2. Cardinality(S) = k + 1 /\ k \in Nat
  <2>1. IsFiniteSet(S) /\ R \subseteq Outputs
      BY HeightsAreFinite
  <2>2. Cardinality(R) = Cardinality(S) - 1
      BY <1>1, <2>1, FS_RemoveElement
  <2>3. Cardinality(R) \in Nat /\ Cardinality(S) \in Nat
      BY <2>1, HeightsAreFinite
  <2> QED
      BY <2>2, <2>3
<1> DEFINE t == [i \in 1..(k + 1) |-> IF i = k + 1 THEN m ELSE s[i]]
<1>3. /\ s \in [1..k -> R]
      /\ \A i, j \in 1..k : i < j => s[i] < s[j]
    BY DEF Lists
<1> HIDE DEF k, m
<1>4. \A i \in 1..k : s[i] \in S /\ s[i] < m
  <2> SUFFICES ASSUME NEW i \in 1..k PROVE s[i] \in S /\ s[i] < m
      OBVIOUS
  <2>1. s[i] \in S /\ s[i] # m
      BY <1>3
  <2>2. s[i] \in Nat /\ m \in Nat /\ s[i] <= m
      BY <1>1, <2>1
  <2> QED
      BY <2>1, <2>2
<1>5. t \in [1..(k + 1) -> S]
    BY <1>1, <1>2, <1>4
<1>6. \A i, j \in 1..(k + 1) : i < j => t[i] < t[j]
  <2> SUFFICES ASSUME NEW i \in 1..(k + 1), NEW j \in 1..(k + 1), i < j
               PROVE  t[i] < t[j]
      OBVIOUS
  <2>1. i \in 1..k
      BY <1>2
  <2>2. CASE j = k + 1
      BY <1>2, <1>4, <2>1, <2>2
  <2>3. CASE j # k + 1
      BY <1>2, <1>3, <2>1, <2>3
  <2> QED
      BY <2>2, <2>3
<1>7. Lists(t, S)
    BY <1>2, <1>5, <1>6 DEF Lists
<1> QED
    BY <1>7

LEMMA EmptyList == Lists(<<>>, {}) /\ \A s : Lists(s, {}) => s = <<>>
<1>1. Cardinality({}) = 0
    BY FS_EmptySet
<1>2. <<>> \in [1..0 -> {}] /\ \A s \in [1..0 -> {}] : s = <<>>
    OBVIOUS
<1> QED
    BY <1>1, <1>2 DEF Lists

LEMMA ListExists ==
    ASSUME NEW S, S \subseteq Outputs
    PROVE  \E s : Lists(s, S)
<1> DEFINE Bad == {n \in Nat : \E R \in SUBSET Outputs :
                        Cardinality(R) = n /\ ~ \E s : Lists(s, R)}
<1>1. Bad = {}
  <2> SUFFICES ASSUME Bad # {} PROVE FALSE
      OBVIOUS
  <2>1. PICK n \in Bad : \A k \in Bad : n <= k
      BY LeastNumber
  <2>2. PICK R \in SUBSET Outputs : Cardinality(R) = n /\ ~ \E s : Lists(s, R)
      BY <2>1
  <2>3. R # {}
      BY <2>2, EmptyList
  <2> DEFINE Q == R \ {Max(R)}
  <2>4. Max(R) \in R /\ IsFiniteSet(R) /\ Cardinality(R) \in Nat
      BY <2>3, HeightsAreFinite, MaxIsGreatest, HeightsAssumption
  <2>5. Cardinality(Q) = n - 1 /\ Cardinality(Q) \in Nat
    <3>1. Cardinality(Q) = Cardinality(R) - 1
        BY <2>4, FS_RemoveElement
    <3>2. Q \subseteq Outputs
        OBVIOUS
    <3>3. Cardinality(Q) \in Nat
        BY <3>2, HeightsAreFinite
    <3> QED
        BY <2>2, <3>1, <3>3
  <2>6. Cardinality(Q) \notin Bad
      BY <2>1, <2>5
  <2>7. \E s : Lists(s, Q)
      BY <2>5, <2>6
  <2> QED
      BY <2>2, <2>3, <2>7, ListGrows
<1>2. Cardinality(S) \in Nat
    BY HeightsAreFinite
<1> QED
    BY <1>1, <1>2

\* What Ascending promises: the heights of S, each once and in order.
LEMMA AscendingLists ==
    ASSUME NEW S, S \subseteq Outputs
    PROVE  Lists(Ascending(S), S)
<1>1. \E s \in [1..Cardinality(S) -> S] : \A i, j \in DOMAIN s : i < j => s[i] < s[j]
    BY ListExists DEF Lists
<1> QED
    BY <1>1 DEF Ascending, Lists

LEMMA AscendingType ==
    ASSUME NEW S, S \subseteq Outputs
    PROVE  Ascending(S) \in Seq(Outputs)
<1>1. Ascending(S) \in [1..Cardinality(S) -> Outputs]
    BY AscendingLists DEF Lists
<1>2. Cardinality(S) \in Nat
    BY HeightsAreFinite
<1> QED
    BY <1>1, <1>2

LEMMA WithType ==
    ASSUME NEW t \in Seq(Outputs), NEW S, S \subseteq Outputs
    PROVE  With(t, S) \in Seq(Outputs)
BY AscendingType DEF With

\* The boost tree alone is the tree of the chain at its end.
LEMMA EmptyTreeIsChain == Chain(0) = <<>>
<1>1. {o \in Outputs : o <= 0} = {}
  <2>1. \A o \in Outputs : o \in Nat /\ o >= 1
      BY HeightsAssumption DEF Heights
  <2> QED
      BY <2>1
<1>2. Ascending({}) = <<>>
    BY AscendingLists, EmptyList
<1> QED
    BY <1>1, <1>2 DEF Chain

-----------------------------------------------------------------------------
(* The invariant.                                                           *)

\* A record that can still be downloaded once more has room in the store.
Downloaded ==
    \A o \in Outputs :
        deltaEnd < o /\ (pc = "manifest" => o \notin got) => copies[o] < MaxCopies

\* What is received lies beyond the manifest until that is saved.
Received == pc = "manifest" => got # {} /\ got \subseteq Wanted

\* Between the boost notes and the end of a sync the notes are there.
Planted == pc \notin {"idle", "delta", "manifest", "boost", "plant"} => boost

\* A store is verified, or a tree built of it, only if it has a record.
Kept == verified \/ pc = "build" => InStore # {}

\* The tree is saved before its root is looked up.
SavedFirst == pc \in {"append", "validate"} => tree \in {mem, NoTree}

\* What is recorded after a scan is the tree it built.
Built == pc = "record" => mem # NoTree

Inv ==
    /\ TypeOK /\ Downloaded /\ Received /\ Built
    /\ Planted /\ TreeHasBoostNotes
    /\ Kept /\ SavedFirst /\ VerifiedHasRoot

LEMMA InitInv == Init => Inv
<1> SUFFICES ASSUME Init PROVE Inv
    OBVIOUS
<1>1. TypeOK
  <2>1. copies \in [Outputs -> 0..MaxCopies]
      BY HeightsAssumption DEF Init
  <2>2. /\ final \in 0..MaxHeight /\ deltaEnd \in 0..MaxHeight
        /\ lastScanned \in 0..MaxHeight /\ start \in 1..MaxHeight + 1
        /\ deltaEnd <= final /\ lastScanned <= final
      BY HeightsAssumption DEF Init
  <2> QED
      BY <2>1, <2>2 DEF Init, TypeOK, Places
<1>2. Downloaded /\ Received
    BY HeightsAssumption DEF Init, Downloaded, Received
<1>3. Built /\ Planted /\ TreeHasBoostNotes /\ Kept /\ SavedFirst /\ VerifiedHasRoot
    BY DEF Init, Built, Planted, TreeHasBoostNotes, Kept, SavedFirst, VerifiedHasRoot
<1> QED
    BY <1>1, <1>2, <1>3 DEF Inv

LEMMA MaxOfType ==
    ASSUME NEW a \in Nat, NEW b \in Nat
    PROVE  /\ MaxOf(a, b) \in {a, b} /\ MaxOf(a, b) \in Nat
           /\ MaxOf(a, b) >= a /\ MaxOf(a, b) >= b
BY DEF MaxOf

LEMMA PastIsOutputs ==
    ASSUME NEW lo, NEW skip
    PROVE  Past(lo, skip) \subseteq Outputs
BY DEF Past, InStore

\* The roots of the chain stay what they are while the headers do.
LEMMA RootsKept == final' = final => Roots' = Roots
BY DEF Roots, Chain, Ascending

LEMMA EmptyTreeIsRoot == final \in Nat => <<>> \in Roots
BY EmptyTreeIsChain DEF Roots

-----------------------------------------------------------------------------
(* Steps keep the types.                                                    *)

\* Steps that leave the numbers and the store alone.
LEMMA TypeOfTables ==
    ASSUME TypeOK, UNCHANGED <<final, store, got, start, calm>>,
           lastScanned' \in {lastScanned, final, 0}, pc' \in Places,
           tree' \in Seq(Outputs) \cup {NoTree}, mem' \in Seq(Outputs) \cup {NoTree},
           witness' \in Seq(Outputs) \cup {NoWitness},
           verified' \in BOOLEAN, boost' \in BOOLEAN, found' \in BOOLEAN,
           fresh' \in BOOLEAN, mismatch' \in BOOLEAN
    PROVE  TypeOK'
<1>1. final \in Nat /\ 0 \in 0..MaxHeight /\ lastScanned \in 0..MaxHeight
    BY HeightsAssumption DEF TypeOK
<1> QED
    BY <1>1 DEF TypeOK, store

LEMMA TypeOfForget ==
    ASSUME Forget
    PROVE  /\ got' \subseteq Heights /\ start' \in 1..MaxHeight + 1
           /\ fresh' \in BOOLEAN /\ mismatch' \in BOOLEAN
<1>1. 1 \in 1..MaxHeight + 1
    BY HeightsAssumption
<1> QED
    BY <1>1 DEF Forget

LEMMA TypeOfDownload ==
    ASSUME Inv, StartSync \/ NothingToDownload \/ DownloadFails \/ SaveManifest
                \/ \E b \in SUBSET Wanted : DownloadDelta(b)
    PROVE  TypeOK'
<1> USE DEF Inv
<1>1. ASSUME StartSync PROVE TypeOK'
    BY <1>1, HeightsAssumption DEF StartSync, TypeOK, GoTo, Places, store, db, local
<1>2. ASSUME NothingToDownload PROVE TypeOK'
    BY <1>2 DEF NothingToDownload, TypeOK, GoTo, Places, store, db, local
<1>3. ASSUME DownloadFails PROVE TypeOK'
    BY <1>3, TypeOfForget DEF DownloadFails, TypeOK, GoTo, Places, store, db
<1>4. ASSUME SaveManifest PROVE TypeOK'
  <2>1. got # {} /\ got \subseteq Outputs /\ \A o \in got : o <= final
      BY <1>4 DEF SaveManifest, Received, Wanted
  <2>2. Max(got) \in got
      BY <2>1, HeightsAreFinite, MaxIsGreatest, HeightsAssumption
  <2>3. Max(got) \in Nat /\ Max(got) <= final /\ deltaEnd \in Nat /\ final \in Nat
    <3>1. got \subseteq Nat
        BY <2>1, HeightsAreFinite
    <3>2. deltaEnd \in Nat /\ final \in Nat
        BY HeightsAssumption DEF TypeOK
    <3> QED
        BY <2>1, <2>2, <3>1, <3>2
  <2>4. deltaEnd' \in Nat /\ deltaEnd' <= final
      BY <1>4, <2>3, MaxOfType DEF SaveManifest, TypeOK
  <2>5. deltaEnd' \in 0..MaxHeight
      BY <2>3, <2>4, HeightsAssumption DEF TypeOK
  <2> QED
      BY <1>4, <2>4, <2>5, TypeOfForget DEF SaveManifest, TypeOK, GoTo, Places, db
<1>5. ASSUME NEW b \in SUBSET Wanted, DownloadDelta(b) PROVE TypeOK'
  <2>1. b \subseteq Outputs /\ b \subseteq Heights
      BY HeightsAssumption DEF Wanted
  <2>2. \A o \in b : copies[o] < MaxCopies
      BY <1>5 DEF DownloadDelta, Wanted, Downloaded
  <2>3. copies' \in [Outputs -> 0..MaxCopies]
    <3>1. \A o \in Outputs : copies[o] + (IF o \in b THEN 1 ELSE 0) \in 0..MaxCopies
        BY <2>2, HeightsAssumption DEF TypeOK
    <3> QED
        BY <1>5, <3>1 DEF DownloadDelta
  <2> QED
      BY <1>5, <2>1, <2>3 DEF DownloadDelta, TypeOK, GoTo, Places, db
<1> QED
    BY <1>1, <1>2, <1>3, <1>4, <1>5

LEMMA TypeOfTree ==
    ASSUME Inv, BoostScan \/ InsertBoostNotes \/ SaveBoostTree \/ LoadTree
                \/ AppendVerified \/ Validate \/ Unverify
    PROVE  TypeOK'
<1> USE DEF Inv
<1>1. ASSUME BoostScan PROVE TypeOK'
    BY <1>1, TypeOfTables DEF BoostScan, EmptyTables, TypeOK, GoTo, Places, db, local
<1>2. ASSUME InsertBoostNotes PROVE TypeOK'
    BY <1>2, TypeOfTables DEF InsertBoostNotes, TypeOK, GoTo, Places, local
<1>3. ASSUME SaveBoostTree PROVE TypeOK'
    BY <1>3, TypeOfTables DEF SaveBoostTree, TypeOK, GoTo, Places, local
<1>4. ASSUME LoadTree PROVE TypeOK'
    BY <1>4, TypeOfTables DEF LoadTree, TypeOK, GoTo, Places, db, local
<1>5. ASSUME AppendVerified PROVE TypeOK'
  <2>1. CASE mem = NoTree
      BY <1>5, <2>1, TypeOfForget DEF AppendVerified, TypeOK, GoTo, Places, store
  <2>2. CASE mem # NoTree /\ pc' = "discover"
      BY <1>5, <2>2, TypeOfTables DEF AppendVerified, TypeOK, GoTo, Places, local
  <2>3. CASE mem # NoTree /\ pc' # "discover"
    <3> DEFINE base == IF Len(mem) >= Records(Outputs) THEN <<>> ELSE mem
               new == Past(1, Len(base))
    <3>1. base \in Seq(Outputs) /\ new \subseteq Outputs
        BY <2>3, PastIsOutputs DEF TypeOK
    <3>2. With(base, new) \in Seq(Outputs)
        BY <3>1, WithType
    <3> HIDE DEF new, base
    <3>3. /\ mem' = With(base, new) /\ tree' = mem'
          /\ fresh' = (NeedsWitness /\ NoteAt \in new) /\ pc' = "validate"
          /\ UNCHANGED <<got, start, mismatch>>
        BY <1>5, <2>3 DEF AppendVerified, GoTo, base, new
    <3>4. UNCHANGED <<final, store, verified, lastScanned, boost, found, witness, calm>>
        BY <1>5 DEF AppendVerified
    <3>5. fresh' \in BOOLEAN /\ pc' \in Places
        BY <3>3 DEF Places
    <3> QED
        BY <3>2, <3>3, <3>4, <3>5, TypeOfTables DEF TypeOK
  <2> QED
      BY <2>1, <2>2, <2>3
<1>6. ASSUME Validate PROVE TypeOK'
  <2>1. mem \in Roots => mem \in Seq(Outputs)
    <3>1. \A h : Chain(h) \in Seq(Outputs)
        BY AscendingType DEF Chain
    <3> QED
        BY <3>1 DEF Roots
  <2> QED
      BY <1>6, <2>1, TypeOfTables DEF Validate, TypeOK, GoTo, Places, local
<1>7. ASSUME Unverify PROVE TypeOK'
    BY <1>7, TypeOfTables DEF Unverify, TypeOK, GoTo, Places, local
<1> QED
    BY <1>1, <1>2, <1>3, <1>4, <1>5, <1>6, <1>7

LEMMA TypeOfScan ==
    ASSUME Inv, DiscoverInStore \/ SkipScan \/ BuildTree \/ RecordTree
                \/ \E b \in SUBSET (ScanStart..final) : ScanBlocks(b)
    PROVE  TypeOK'
<1> USE DEF Inv
<1>1. ASSUME DiscoverInStore PROVE TypeOK'
  <2>1. copies' \in [Outputs -> 0..MaxCopies]
      BY <1>1, HeightsAssumption DEF DiscoverInStore
  <2>2. found' \in BOOLEAN
      BY <1>1 DEF DiscoverInStore
  <2> QED
      BY <1>1, <2>1, <2>2 DEF DiscoverInStore, TypeOK, GoTo, Places, local
<1>2. ASSUME SkipScan PROVE TypeOK'
    BY <1>2, TypeOfTables DEF SkipScan, TypeOK, GoTo, Places, db, local
<1>3. ASSUME BuildTree PROVE TypeOK'
  <2>1. CASE mem = NoTree
      BY <1>3, <2>1, TypeOfTables DEF BuildTree, TypeOK, GoTo, Places, store
  <2>2. CASE mem # NoTree
    <3> DEFINE new == Past(start, Len(mem))
    <3>1. With(mem, new) \in Seq(Outputs)
        BY <2>2, PastIsOutputs, WithType DEF TypeOK
    <3> HIDE DEF new
    <3>2. /\ mem' = With(mem, new) /\ tree' \in {tree, With(mem, new)}
          /\ verified' \in {verified, TRUE} /\ mismatch' \in {mismatch, TRUE}
          /\ pc' \in {"record", "finish"}
          /\ UNCHANGED <<final, store, lastScanned, boost, found, witness, got, start, calm>>
        BY <1>3, <2>2 DEF BuildTree, GoTo, new
    <3>3. fresh' \in BOOLEAN
      <4>1. fresh' = fresh \/ fresh' = (NoteAt \in got \cap new)
          BY <1>3, <2>2 DEF BuildTree, new
      <4>2. CASE fresh' = fresh
          BY <4>2 DEF TypeOK
      <4>3. CASE fresh' = (NoteAt \in got \cap new)
          BY <4>3
      <4> QED
          BY <4>1, <4>2, <4>3
    <3>4. pc' \in Places
        BY <3>2 DEF Places
    <3> QED
        BY <3>1, <3>2, <3>3, <3>4, TypeOfTables DEF TypeOK
  <2> QED
      BY <2>1, <2>2
<1>4. ASSUME RecordTree PROVE TypeOK'
  <2>1. witness' \in Seq(Outputs) \cup {NoWitness}
    <3>1. pc = "record" => mem # NoTree
        BY DEF Built
    <3> QED
        BY <1>4, <3>1 DEF RecordTree, TypeOK
  <2> QED
      BY <1>4, <2>1 DEF RecordTree, TypeOK, GoTo, Places, local
<1>5. ASSUME NEW b \in SUBSET (ScanStart..final), ScanBlocks(b) PROVE TypeOK'
  <2>1. ScanStart \in 1..MaxHeight + 1
      BY HeightsAssumption DEF ScanStart, MaxOf, TypeOK
  <2>2. b \subseteq Heights /\ \A h \in b : h <= final
      BY <2>1, HeightsAssumption DEF TypeOK, Heights
  <2>3. copies' \in [Outputs -> 0..MaxCopies]
      BY <1>5, HeightsAssumption DEF ScanBlocks, MaxOf, TypeOK
  <2>4. deltaEnd' \in 0..final
    <3> DEFINE ends == {deltaEnd} \cup (b \cap Outputs)
    <3>1. ends \subseteq Nat /\ ends # {} /\ final \in Nat /\ \A h \in ends : h <= final
        BY <2>2, HeightsAssumption DEF TypeOK, Heights
    <3>2. Max(ends) \in ends
        BY <3>1, MaxIsGreatest
    <3> QED
        BY <1>5, <3>1, <3>2 DEF ScanBlocks
  <2>5. found' \in BOOLEAN
      BY <1>5 DEF ScanBlocks
  <2>6. pc' \in Places
      BY <1>5 DEF ScanBlocks, GoTo, Places
  <2>7. deltaEnd' \in 0..MaxHeight /\ deltaEnd' <= final
      BY <2>4, HeightsAssumption DEF TypeOK
  <2> QED
      BY <1>5, <2>1, <2>2, <2>3, <2>5, <2>6, <2>7 DEF ScanBlocks, TypeOK
<1> QED
    BY <1>1, <1>2, <1>3, <1>4, <1>5

LEMMA TypeOfEnd ==
    ASSUME Inv, Finish \/ Rewind \/ Reload \/ RebuildWitness \/ CheckBalance
    PROVE  TypeOK'
<1> USE DEF Inv
<1>1. ASSUME Finish PROVE TypeOK'
    BY <1>1, TypeOfTables DEF Finish, TypeOK, GoTo, Places, local
<1>2. ASSUME Rewind PROVE TypeOK'
    BY <1>2, TypeOfTables DEF Rewind, TypeOK, GoTo, Places, local
<1>3. ASSUME Reload PROVE TypeOK'
    BY <1>3, TypeOfTables DEF Reload, TypeOK, GoTo, Places, local
<1>4. ASSUME RebuildWitness PROVE TypeOK'
  <2>1. Stored \in Seq(Outputs)
      BY AscendingType DEF Stored, InStore
  <2> QED
      BY <1>4, <2>1, TypeOfTables DEF RebuildWitness, TypeOK, GoTo, Places, local
<1>5. ASSUME CheckBalance PROVE TypeOK'
  <2>1. verified' \in BOOLEAN
      BY <1>5 DEF CheckBalance
  <2> QED
      BY <1>5, <2>1, TypeOfForget DEF CheckBalance, TypeOK, GoTo, Places, store
<1> QED
    BY <1>1, <1>2, <1>3, <1>4, <1>5

LEMMA TypeOfFaults ==
    ASSUME Inv, Repair \/ FullRescan \/ FullRescanReset \/ Stop \/ CalmDown
    PROVE  TypeOK'
<1> USE DEF Inv
<1>1. ASSUME Repair PROVE TypeOK'
    BY <1>1, TypeOfTables DEF Repair, TypeOK, local
<1>2. ASSUME FullRescan PROVE TypeOK'
    BY <1>2, TypeOfTables DEF FullRescan, TypeOK, local
<1>3. ASSUME FullRescanReset PROVE TypeOK'
    BY <1>3, TypeOfTables DEF FullRescanReset, EmptyTables, TypeOK, local
<1>4. ASSUME Stop PROVE TypeOK'
    BY <1>4, TypeOfForget DEF Stop, TypeOK, GoTo, Places, store, db
<1>5. ASSUME CalmDown PROVE TypeOK'
    BY <1>5 DEF CalmDown, TypeOK, store, db, local
<1> QED
    BY <1>1, <1>2, <1>3, <1>4, <1>5

LEMMA TypeStep ==
    ASSUME Inv, [Next]_vars
    PROVE  TypeOK'
<1>1. CASE Next
    BY <1>1, TypeOfDownload, TypeOfTree, TypeOfScan, TypeOfEnd, TypeOfFaults DEF Next, Sync
<1>2. CASE UNCHANGED vars
    BY <1>2 DEF Inv, TypeOK, vars, store, db, local
<1> QED
    BY <1>1, <1>2

-----------------------------------------------------------------------------
(* The store.                                                               *)

LEMMA StoreStep ==
    ASSUME Inv, [Next]_vars
    PROVE  Downloaded' /\ Received'
<1> USE DEF Inv, GoTo
<1>0. deltaEnd \in Nat /\ MaxCopies \in Nat /\ \A o \in Outputs : copies[o] \in Nat /\ o \in Nat
  <2>1. deltaEnd \in Nat /\ MaxCopies \in Nat
      BY HeightsAssumption DEF TypeOK
  <2>2. \A o \in Outputs : copies[o] \in Nat
      BY HeightsAssumption DEF TypeOK
  <2>3. Outputs \subseteq Nat
      BY HeightsAreFinite
  <2> QED
      BY <2>1, <2>2, <2>3
<1>1. CASE UNCHANGED store /\ pc # "manifest" /\ pc' # "manifest"
    BY <1>1 DEF Downloaded, Received, store
<1>2. CASE UNCHANGED <<final, store, got, pc>>
    BY <1>2 DEF Downloaded, Received, Wanted, store
<1>3. ASSUME NEW b \in SUBSET Wanted, DownloadDelta(b) PROVE Downloaded' /\ Received'
  <2>1. b \subseteq Outputs
      BY DEF Wanted
  <2>2. \A o \in Outputs : o \notin b => copies'[o] = copies[o]
      BY <1>0, <1>3 DEF DownloadDelta
  <2>3. /\ got' = b /\ UNCHANGED <<final, deltaEnd>> /\ pc = "delta"
        /\ pc' = IF b = {} THEN "boost" ELSE "manifest"
      BY <1>3 DEF DownloadDelta
  <2> QED
      BY <2>2, <2>3 DEF Downloaded, Received, Wanted
<1>4. ASSUME SaveManifest PROVE Downloaded' /\ Received'
  <2>1. got # {} /\ got \subseteq Outputs
      BY <1>4 DEF SaveManifest, Received, Wanted
  <2>2. Max(got) \in Nat /\ \A o \in got : o <= Max(got)
      BY <2>1, HeightsAreFinite, MaxIsGreatest, HeightsAssumption
  <2>3. deltaEnd' \in Nat /\ deltaEnd' >= deltaEnd /\ deltaEnd' >= Max(got)
      BY <1>0, <1>4, <2>2, MaxOfType DEF SaveManifest
  <2>4. \A o \in Outputs : deltaEnd' < o => deltaEnd < o /\ o \notin got
      BY <1>0, <2>2, <2>3
  <2> QED
      BY <1>4, <2>4 DEF SaveManifest, Downloaded, Received
<1>5. ASSUME DiscoverInStore PROVE Downloaded' /\ Received'
  <2>1. \A o \in Outputs : copies'[o] <= 1
      BY <1>5 DEF DiscoverInStore
  <2>2. \A o \in Outputs : copies'[o] \in {0, 1}
      BY <1>5 DEF DiscoverInStore
  <2> QED
      BY <1>5, <2>2, HeightsAssumption DEF DiscoverInStore, Downloaded, Received
<1>6. ASSUME NEW b \in SUBSET (ScanStart..final), ScanBlocks(b)
      PROVE  Downloaded' /\ Received'
  <2> DEFINE ends == {deltaEnd} \cup (b \cap Outputs)
  <2>1. /\ pc = "scan" /\ pc' # "manifest" /\ deltaEnd' = Max(ends)
        /\ \A o \in Outputs : copies'[o] = IF o \in b THEN MaxOf(copies[o], 1) ELSE copies[o]
      BY <1>6 DEF ScanBlocks
  <2>2. Max(ends) \in Nat /\ deltaEnd <= Max(ends)
    <3>1. ends \subseteq Nat /\ ends # {} /\ MaxHeight \in Nat
          /\ \A h \in ends : h <= MaxHeight
        BY <1>0, HeightsAreFinite, HeightsAssumption DEF TypeOK
    <3> QED
        BY <3>1, MaxIsGreatest
  <2>3. \A o \in Outputs : deltaEnd' < o => deltaEnd < o
      BY <1>0, <2>1, <2>2
  <2>4. \A o \in Outputs : copies[o] < MaxCopies => copies'[o] < MaxCopies
      BY <1>0, <2>1, HeightsAssumption DEF MaxOf
  <2> QED
      BY <2>1, <2>3, <2>4 DEF Downloaded, Received
<1>7. ASSUME RecordTree PROVE Downloaded' /\ Received'
  <2>1. \A o \in Outputs : deltaEnd' < o => deltaEnd < o
      BY <1>0, <1>7, HeightsAssumption DEF RecordTree, TypeOK
  <2> QED
      BY <1>7, <2>1 DEF RecordTree, Downloaded, Received
<1>8. ASSUME Stop PROVE Downloaded' /\ Received'
    BY <1>0, <1>8 DEF Stop, Downloaded, Received, store
<1>9. CASE StartSync \/ NothingToDownload \/ DownloadFails \/ BoostScan
           \/ InsertBoostNotes \/ SaveBoostTree
    BY <1>1, <1>9 DEF StartSync, NothingToDownload, DownloadFails, BoostScan,
        InsertBoostNotes, SaveBoostTree
<1>10. CASE LoadTree \/ AppendVerified \/ Validate \/ Unverify
    BY <1>1, <1>10 DEF LoadTree, AppendVerified, Validate, Unverify
<1>11. CASE SkipScan \/ BuildTree \/ Finish \/ Rewind \/ Reload
    BY <1>1, <1>11 DEF SkipScan, BuildTree, Finish, Rewind, Reload
<1>12. CASE RebuildWitness \/ CheckBalance
    BY <1>1, <1>12 DEF RebuildWitness, CheckBalance
<1>13. CASE Repair \/ FullRescan \/ FullRescanReset \/ CalmDown \/ UNCHANGED vars
    BY <1>2, <1>13 DEF Repair, FullRescan, FullRescanReset, CalmDown, vars, local
<1> QED
    BY <1>3, <1>4, <1>5, <1>6, <1>7, <1>8, <1>9, <1>10, <1>11, <1>12, <1>13 DEF Next, Sync

-----------------------------------------------------------------------------
(* The notes of the boost file.                                             *)

LEMMA BoostStep ==
    ASSUME Inv, [Next]_vars
    PROVE  Planted' /\ TreeHasBoostNotes'
<1> USE DEF Inv, GoTo, Planted, TreeHasBoostNotes
<1>1. CASE UNCHANGED <<boost, tree>> /\ pc' \in {pc, "idle"}
    BY <1>1
<1>2. CASE StartSync \/ NothingToDownload \/ DownloadFails \/ SaveManifest
           \/ \E b \in SUBSET Wanted : DownloadDelta(b)
    BY <1>2 DEF StartSync, NothingToDownload, DownloadFails, SaveManifest, DownloadDelta, db
<1>3. CASE BoostScan \/ InsertBoostNotes \/ SaveBoostTree
    BY <1>3 DEF BoostScan, InsertBoostNotes, SaveBoostTree, EmptyTables, db
<1>4. CASE LoadTree \/ Validate \/ Unverify \/ DiscoverInStore \/ SkipScan
    BY <1>4 DEF LoadTree, Validate, Unverify, DiscoverInStore, SkipScan, db
<1>5. CASE AppendVerified
    BY <1>5 DEF AppendVerified
<1>6. CASE \E b \in SUBSET (ScanStart..final) : ScanBlocks(b)
    BY <1>6 DEF ScanBlocks
<1>7. CASE BuildTree
    BY <1>7 DEF BuildTree
<1>8. CASE RecordTree \/ Finish \/ Rewind \/ Reload \/ RebuildWitness
    BY <1>8 DEF RecordTree, Finish, Rewind, Reload, RebuildWitness
<1>9. CASE CheckBalance \/ Stop \/ CalmDown \/ UNCHANGED vars
    BY <1>1, <1>9 DEF CheckBalance, Stop, CalmDown, vars, db
<1>10. CASE Repair \/ FullRescan \/ FullRescanReset
    BY <1>10 DEF Repair, FullRescan, FullRescanReset, EmptyTables
<1> QED
    BY <1>2, <1>3, <1>4, <1>5, <1>6, <1>7, <1>8, <1>9, <1>10 DEF Next, Sync

-----------------------------------------------------------------------------
(* Verified stores.                                                         *)

\* No step takes the last copy of a record from the store.
LEMMA KeptStep ==
    ASSUME Inv, [Next]_vars
    PROVE  Kept'
<1> USE DEF Inv, GoTo
<1>0. \A o \in Outputs : copies[o] \in Nat
    BY HeightsAssumption DEF TypeOK
<1>1. \A o \in Outputs : copies[o] > 0 => copies'[o] > 0
  <2>1. CASE \E b \in SUBSET Wanted : DownloadDelta(b)
      BY <1>0, <2>1 DEF DownloadDelta
  <2>2. CASE DiscoverInStore
      BY <2>2 DEF DiscoverInStore
  <2>3. CASE \E b \in SUBSET (ScanStart..final) : ScanBlocks(b)
      BY <1>0, <2>3 DEF ScanBlocks, MaxOf
  <2>4. CASE UNCHANGED copies
      BY <2>4
  <2>5. CASE StartSync \/ NothingToDownload \/ DownloadFails \/ SaveManifest \/ BoostScan
             \/ InsertBoostNotes \/ SaveBoostTree \/ LoadTree \/ AppendVerified \/ Validate
      BY <2>4, <2>5 DEF StartSync, NothingToDownload, DownloadFails, SaveManifest, BoostScan,
          InsertBoostNotes, SaveBoostTree, LoadTree, AppendVerified, Validate, store
  <2>6. CASE Unverify \/ SkipScan \/ BuildTree \/ RecordTree \/ Finish \/ Rewind \/ Reload
             \/ RebuildWitness \/ CheckBalance
      BY <2>4, <2>6 DEF Unverify, SkipScan, BuildTree, RecordTree, Finish, Rewind, Reload,
          RebuildWitness, CheckBalance, store
  <2>7. CASE Repair \/ FullRescan \/ FullRescanReset \/ Stop \/ CalmDown \/ UNCHANGED vars
      BY <2>4, <2>7 DEF Repair, FullRescan, FullRescanReset, Stop, CalmDown, vars, store
  <2> QED
      BY <2>1, <2>2, <2>3, <2>5, <2>6, <2>7 DEF Next, Sync
<1>2. InStore # {} => InStore' # {}
    BY <1>1 DEF InStore
<1>3. CASE \E b \in SUBSET (ScanStart..final) : ScanBlocks(b)
  <2> PICK b \in SUBSET (ScanStart..final) : ScanBlocks(b)
      BY <1>3
  <2>1. pc' = "build" => InStore' # {}
    <3> SUFFICES ASSUME pc' = "build" PROVE InStore' # {}
        OBVIOUS
    <3>1. PICK o \in Outputs : o \in b
        BY DEF ScanBlocks
    <3>2. copies'[o] > 0
        BY <1>0, <3>1 DEF ScanBlocks, MaxOf
    <3> QED
        BY <3>1, <3>2 DEF InStore
  <2> QED
      BY <1>2, <2>1 DEF ScanBlocks, Kept
<1>4. CASE BuildTree
    BY <1>2, <1>4 DEF BuildTree, Kept
<1>5. ASSUME verified' => verified, pc' = "build" => pc = "build" PROVE Kept'
    BY <1>2, <1>5 DEF Kept
<1>6. CASE StartSync \/ NothingToDownload \/ DownloadFails \/ SaveManifest \/ BoostScan
           \/ (\E b \in SUBSET Wanted : DownloadDelta(b)) \/ InsertBoostNotes
    BY <1>5, <1>6 DEF StartSync, NothingToDownload, DownloadFails, SaveManifest, BoostScan,
        DownloadDelta, InsertBoostNotes, EmptyTables, db
<1>7. CASE SaveBoostTree \/ LoadTree \/ AppendVerified \/ Validate \/ Unverify
           \/ DiscoverInStore \/ SkipScan
    BY <1>5, <1>7 DEF SaveBoostTree, LoadTree, AppendVerified, Validate, Unverify,
        DiscoverInStore, SkipScan, db
<1>8. CASE RecordTree \/ Finish \/ Rewind \/ Reload \/ RebuildWitness \/ CheckBalance
    BY <1>5, <1>8 DEF RecordTree, Finish, Rewind, Reload, RebuildWitness, CheckBalance
<1>9. CASE Repair \/ FullRescan \/ FullRescanReset \/ Stop \/ CalmDown \/ UNCHANGED vars
    BY <1>5, <1>9 DEF Repair, FullRescan, FullRescanReset, EmptyTables, Stop, CalmDown,
        vars, db
<1> QED
    BY <1>3, <1>4, <1>6, <1>7, <1>8, <1>9 DEF Next, Sync

LEMMA BuiltStep ==
    ASSUME Inv, [Next]_vars
    PROVE  Built' /\ SavedFirst'
<1> USE DEF Inv, GoTo
<1>1. CASE BuildTree
  <2>1. pc' = "record" => mem' # NoTree
    <3> SUFFICES ASSUME pc' = "record" PROVE mem' # NoTree
        OBVIOUS
    <3>1. mem # NoTree /\ mem' = With(mem, Past(start, Len(mem)))
        BY <1>1 DEF BuildTree
    <3>2. mem' \in Seq(Outputs)
        BY <3>1, PastIsOutputs, WithType DEF TypeOK
    <3>3. Seq(Outputs) \subseteq Seq(Heights)
        BY HeightsAssumption
    <3> QED
        BY <3>2, <3>3, HeightsAssumption
  <2> QED
      BY <1>1, <2>1 DEF BuildTree, Built, SavedFirst
<1>2. CASE AppendVerified
    BY <1>2 DEF AppendVerified, Built, SavedFirst
<1>3. CASE LoadTree
    BY <1>3 DEF LoadTree, db, Built, SavedFirst
<1>4. ASSUME pc' \notin {"record", "append", "validate"} PROVE Built' /\ SavedFirst'
    BY <1>4 DEF Built, SavedFirst
<1>5. CASE StartSync \/ NothingToDownload \/ DownloadFails \/ SaveManifest \/ BoostScan
           \/ (\E b \in SUBSET Wanted : DownloadDelta(b)) \/ InsertBoostNotes
    BY <1>4, <1>5 DEF StartSync, NothingToDownload, DownloadFails, SaveManifest, BoostScan,
        DownloadDelta, InsertBoostNotes
<1>6. CASE SaveBoostTree \/ Validate \/ Unverify \/ DiscoverInStore \/ SkipScan
           \/ \E b \in SUBSET (ScanStart..final) : ScanBlocks(b)
    BY <1>4, <1>6 DEF SaveBoostTree, Validate, Unverify, DiscoverInStore, SkipScan, ScanBlocks
<1>7. CASE RecordTree \/ Finish \/ Rewind \/ Reload \/ RebuildWitness \/ CheckBalance \/ Stop
    BY <1>4, <1>7 DEF RecordTree, Finish, Rewind, Reload, RebuildWitness, CheckBalance, Stop
<1>8. CASE Repair \/ FullRescan \/ FullRescanReset
    BY <1>8 DEF Repair, FullRescan, FullRescanReset, EmptyTables, Built, SavedFirst
<1>9. CASE CalmDown \/ UNCHANGED vars
    BY <1>9 DEF CalmDown, vars, db, Built, SavedFirst
<1> QED
    BY <1>1, <1>2, <1>3, <1>5, <1>6, <1>7, <1>8, <1>9 DEF Next, Sync

\* The places before the validation of a sync, where a stale mark may stand.
Early == {"idle", "delta", "manifest", "boost", "plant", "save", "load", "append",
          "validate", "unverify"}

LEMMA RootStep ==
    ASSUME Inv, [Next]_vars
    PROVE  VerifiedHasRoot'
<1> USE DEF Inv, GoTo, Early
<1>0. VerifiedHasRoot <=> (verified /\ pc \notin Early => tree \in Roots \cup {NoTree})
    BY DEF VerifiedHasRoot
<1>1. VerifiedHasRoot' <=> (verified' /\ pc' \notin Early => tree' \in (Roots \cup {NoTree})')
    BY DEF VerifiedHasRoot
<1> HIDE DEF Early
<1>2. ASSUME pc' \in Early PROVE VerifiedHasRoot'
    BY <1>1, <1>2
<1>3. ASSUME UNCHANGED final, verified' => verified, pc \notin Early, tree' \in {tree, NoTree}
      PROVE  VerifiedHasRoot'
    BY <1>0, <1>1, <1>3, RootsKept
<1>4. CASE StartSync \/ NothingToDownload \/ DownloadFails \/ SaveManifest \/ BoostScan
           \/ (\E b \in SUBSET Wanted : DownloadDelta(b)) \/ InsertBoostNotes \/ SaveBoostTree
  <2>1. pc' \in Early
      BY <1>4 DEF StartSync, NothingToDownload, DownloadFails, SaveManifest, BoostScan,
          DownloadDelta, InsertBoostNotes, SaveBoostTree, Early
  <2> QED
      BY <1>2, <2>1
<1>5. CASE LoadTree
  <2>1. pc' \in Early \/ ~verified'
      BY <1>5 DEF LoadTree, Early, Kept, db
  <2> QED
      BY <1>1, <2>1
<1>6. CASE AppendVerified
  <2>1. pc' \in Early \/ (mem \in Roots /\ UNCHANGED <<final, tree>>)
      BY <1>6 DEF AppendVerified, Early
  <2>2. pc = "append"
      BY <1>6 DEF AppendVerified
  <2> QED
      BY <1>1, <2>1, <2>2, RootsKept DEF SavedFirst
<1>7. CASE Validate
  <2>1. pc' \in Early \/ (mem \in Roots /\ UNCHANGED <<final, tree>>)
      BY <1>7 DEF Validate, Early
  <2>2. pc = "validate"
      BY <1>7 DEF Validate
  <2> QED
      BY <1>1, <2>1, <2>2, RootsKept DEF SavedFirst
<1>8. CASE Unverify
    BY <1>1, <1>8 DEF Unverify
<1>9. CASE DiscoverInStore \/ SkipScan \/ RecordTree \/ Finish \/ Rewind \/ RebuildWitness
           \/ \E b \in SUBSET (ScanStart..final) : ScanBlocks(b)
  <2>1. UNCHANGED <<final, verified, tree>>
      BY <1>9 DEF DiscoverInStore, SkipScan, RecordTree, Finish, Rewind, RebuildWitness,
          ScanBlocks, db
  <2>2. pc \in {"discover", "scan", "record", "finish", "rewind", "rebuild"}
      BY <1>9 DEF DiscoverInStore, SkipScan, RecordTree, Finish, Rewind, RebuildWitness,
          ScanBlocks
  <2> QED
      BY <1>3, <2>1, <2>2 DEF Early
<1>10. CASE BuildTree
  <2>1. pc \notin Early /\ UNCHANGED final
      BY <1>10 DEF BuildTree, Early
  <2>2. (UNCHANGED <<tree, verified>>) \/ tree' = Chain(final)
      BY <1>10 DEF BuildTree
  <2>3. Chain(final) \in Roots
      BY HeightsAssumption DEF Roots, TypeOK
  <2> QED
      BY <1>1, <1>3, <2>1, <2>2, <2>3, RootsKept
<1>11. CASE Reload
  <2>1. tree' = <<>> /\ UNCHANGED final
      BY <1>11 DEF Reload
  <2>2. <<>> \in Roots
      BY EmptyTreeIsRoot, HeightsAssumption DEF TypeOK
  <2> QED
      BY <1>1, <2>1, <2>2, RootsKept
<1>12. CASE CheckBalance \/ Stop
    BY <1>2, <1>12 DEF CheckBalance, Stop, Early
<1>13. CASE Repair \/ FullRescan \/ FullRescanReset
    BY <1>1, <1>13 DEF Repair, FullRescan, FullRescanReset, EmptyTables
<1>14. CASE CalmDown \/ UNCHANGED vars
  <2>1. UNCHANGED <<final, verified, tree, pc>>
      BY <1>14 DEF CalmDown, vars, db
  <2> QED
      BY <1>0, <1>1, <2>1, RootsKept
<1> QED
    BY <1>4, <1>5, <1>6, <1>7, <1>8, <1>9, <1>10, <1>11, <1>12, <1>13, <1>14 DEF Next, Sync

-----------------------------------------------------------------------------
(* The theorems.                                                            *)

LEMMA Invariant == Spec => []Inv
<1>1. Inv /\ [Next]_vars => Inv'
    BY TypeStep, StoreStep, BoostStep, KeptStep, BuiltStep, RootStep DEF Inv
<1> QED
    BY InitInv, <1>1, PTL DEF Spec

\* Wherever a sync stops and a repair falls the tables, the store and the tree keep
\* their types: the manifest never ends above the headers, and no record is stored
\* more often than downloads that were not recorded allow (download_delta_cmus).
THEOREM TypeCorrect == Spec => []TypeOK
<1>1. Inv => TypeOK
    BY DEF Inv
<1> QED
    BY Invariant, <1>1, PTL

\* A tree in the database has the notes of the boost file beside it, so that
\* boost_scan_if_needed, which looks at the tree only, never skips a file whose
\* notes are missing.
THEOREM TreeIsNeverBare == Spec => []TreeHasBoostNotes
<1>1. Inv => TreeHasBoostNotes
    BY DEF Inv
<1> QED
    BY Invariant, <1>1, PTL

\* From the validation on, delta_bundle_verified stands only beside a tree with a
\* root of the chain, for every store, gap, stop and repair before.
THEOREM VerifiedIsOnChain == Spec => []VerifiedHasRoot
<1>1. Inv => VerifiedHasRoot
    BY DEF Inv
<1> QED
    BY Invariant, <1>1, PTL

-----------------------------------------------------------------------------
(* Where an anchor off the chain can come from.                             *)

\* The records of the store are of blocks of the chain.
Reached == \A o \in InStore : o <= final

\* What is recorded after a scan has the root of the last header.
Recorded == pc = "record" => mem \in Roots

\* The outputs that are missing before the last one in the store.
Holes == {o \in Outputs \ InStore : \E p \in InStore : o < p}

LEMMA ReachedStep ==
    ASSUME Inv, [Next]_vars, Reached
    PROVE  Reached'
<1> USE DEF Inv
<1>0. /\ final \in Nat /\ final' \in Nat /\ final' >= final /\ Outputs \subseteq Nat
      /\ \A o \in Outputs : copies[o] \in Nat
  <2>1. final \in Nat /\ \A o \in Outputs : copies[o] \in Nat
      BY HeightsAssumption DEF TypeOK
  <2>2. final' = final \/ final' \in final..MaxHeight
    <3>1. CASE StartSync
        BY <3>1 DEF StartSync
    <3>2. CASE UNCHANGED final
        BY <3>2
    <3> QED
        BY <3>1, <3>2 DEF Next, Sync, vars, NothingToDownload, DownloadDelta, SaveManifest,
            BoostScan, InsertBoostNotes, SaveBoostTree, LoadTree, AppendVerified, Validate,
            Unverify, DiscoverInStore, SkipScan, ScanBlocks, BuildTree, RecordTree, Finish,
            Rewind, Reload, RebuildWitness, CheckBalance, DownloadFails, Repair, FullRescan,
            FullRescanReset, Stop, CalmDown
  <2>3. Outputs \subseteq Nat
      BY HeightsAreFinite
  <2> QED
      BY <2>1, <2>2, <2>3, HeightsAssumption
<1>1. ASSUME \A o \in Outputs : copies'[o] > 0 => copies[o] > 0 \/ o <= final
      PROVE  Reached'
  <2> SUFFICES ASSUME NEW o \in Outputs, copies'[o] > 0 PROVE o <= final'
      BY DEF Reached, InStore
  <2>1. o <= final
      BY <1>1 DEF Reached, InStore
  <2> QED
      BY <1>0, <2>1
<1>2. CASE UNCHANGED copies
    BY <1>1, <1>2
<1>3. ASSUME NEW b \in SUBSET Wanted, DownloadDelta(b) PROVE Reached'
  <2>1. \A o \in Outputs : copies'[o] = copies[o] + IF o \in b THEN 1 ELSE 0
      BY <1>3 DEF DownloadDelta
  <2>2. \A o \in b : o <= final
      BY DEF Wanted
  <2> QED
      BY <1>0, <1>1, <2>1, <2>2
<1>4. ASSUME DiscoverInStore PROVE Reached'
    BY <1>1, <1>4 DEF DiscoverInStore
<1>5. ASSUME NEW b \in SUBSET (ScanStart..final), ScanBlocks(b) PROVE Reached'
  <2>1. \A o \in Outputs : copies'[o] = IF o \in b THEN MaxOf(copies[o], 1) ELSE copies[o]
      BY <1>5 DEF ScanBlocks
  <2>2. \A o \in Outputs : o \in b => o <= final
    <3>1. ScanStart \in Nat
        BY HeightsAssumption DEF ScanStart, MaxOf, TypeOK
    <3> QED
        BY <1>0, <3>1
  <2> QED
      BY <1>1, <2>1, <2>2
<1>6. ASSUME Next, ~UNCHANGED copies
      PROVE  \/ \E b \in SUBSET Wanted : DownloadDelta(b)
             \/ DiscoverInStore
             \/ \E b \in SUBSET (ScanStart..final) : ScanBlocks(b)
    BY <1>6 DEF Next, Sync, store, StartSync, NothingToDownload, SaveManifest, BoostScan,
        InsertBoostNotes, SaveBoostTree, LoadTree, AppendVerified, Validate, Unverify, SkipScan,
        BuildTree, RecordTree, Finish, Rewind, Reload, RebuildWitness, CheckBalance,
        DownloadFails, Repair, FullRescan, FullRescanReset, Stop, CalmDown
<1> QED
    BY <1>2, <1>3, <1>4, <1>5, <1>6 DEF vars, store

LEMMA RecordedStep ==
    ASSUME Inv, [Next]_vars, Recorded
    PROVE  Recorded'
<1> USE DEF Inv, GoTo
<1>1. CASE BuildTree
  <2>1. pc' = "record" => mem' = Chain(final) /\ final' = final
      BY <1>1 DEF BuildTree
  <2>2. Chain(final) \in Roots
      BY HeightsAssumption DEF Roots, TypeOK
  <2> QED
      BY <2>1, <2>2, RootsKept DEF Recorded
<1>2. CASE UNCHANGED <<final, mem, pc>>
    BY <1>2, RootsKept DEF Recorded
<1>3. CASE pc' # "record"
    BY <1>3 DEF Recorded
<1> QED
    BY <1>1, <1>2, <1>3 DEF Next, Sync, vars, db, local, StartSync, NothingToDownload,
        DownloadDelta, SaveManifest, BoostScan, InsertBoostNotes, SaveBoostTree, LoadTree,
        AppendVerified, Validate, Unverify, DiscoverInStore, SkipScan, ScanBlocks, RecordTree,
        Finish, Rewind, Reload, RebuildWitness, CheckBalance, DownloadFails, Repair,
        FullRescan, FullRescanReset, Stop, CalmDown

\* The headers only grow, and so do the trees of the chain.
LEMMA RootsGrow ==
    ASSUME Inv, [Next]_vars
    PROVE  Roots \subseteq Roots'
<1>1. CASE UNCHANGED final
    BY <1>1, RootsKept
<1>2. CASE StartSync
  <2>1. final \in Nat /\ final' \in final..MaxHeight /\ MaxHeight \in Nat
      BY <1>2, HeightsAssumption DEF StartSync, Inv, TypeOK
  <2>2. 0..final \subseteq 0..final'
      BY <2>1
  <2>3. \A h : Chain(h)' = Chain(h)
      BY DEF Chain, Ascending
  <2> QED
      BY <2>2, <2>3 DEF Roots
<1> QED
    BY <1>1, <1>2 DEF Next, Sync, vars, NothingToDownload, DownloadDelta, SaveManifest,
        BoostScan, InsertBoostNotes, SaveBoostTree, LoadTree, AppendVerified, Validate,
        Unverify, DiscoverInStore, SkipScan, ScanBlocks, BuildTree, RecordTree, Finish,
        Rewind, Reload, RebuildWitness, CheckBalance, DownloadFails, Repair, FullRescan,
        FullRescanReset, Stop, CalmDown

\* Without a hole the tree of the whole store is a tree of the chain.
LEMMA WholeStoreIsChain ==
    ASSUME Inv, Reached, Holes = {}, InStore # {}
    PROVE  Stored \in Roots
<1> DEFINE m == Max(InStore)
<1>1. InStore \subseteq Outputs
    BY DEF InStore
<1>2. m \in InStore /\ \A o \in InStore : o <= m
    BY <1>1, HeightsAreFinite, MaxIsGreatest, HeightsAssumption
<1> HIDE DEF m
<1>3. InStore = {o \in Outputs : o <= m}
  <2> SUFFICES ASSUME NEW o \in Outputs, o <= m PROVE o \in InStore
      BY <1>1, <1>2
  <2>1. o = m \/ o < m
    <3>1. o \in Nat /\ m \in Nat
        BY <1>1, <1>2, HeightsAreFinite
    <3> QED
        BY <3>1
  <2> QED
      BY <1>2, <2>1 DEF Holes
<1>4. m \in 0..final
  <2>1. m \in Nat
      BY <1>1, <1>2, HeightsAreFinite
  <2>2. final \in Nat
      BY HeightsAssumption DEF Inv, TypeOK
  <2>3. m <= final
      BY <1>2 DEF Reached
  <2> QED
      BY <2>1, <2>2, <2>3
<1>5. Stored = Chain(m)
    BY <1>3 DEF Stored, Chain
<1> QED
    BY <1>4, <1>5 DEF Roots

LEMMA WitnessStep ==
    ASSUME Inv, Reached, Recorded, [Next]_vars
    PROVE  \/ witness' \in {witness, NoWitness} \cup Roots
           \/ pc = "rebuild" /\ Holes # {}
<1>1. CASE Validate
    BY <1>1 DEF Validate
<1>2. CASE RecordTree
    BY <1>2 DEF RecordTree, Recorded
<1>3. CASE RebuildWitness
  <2>1. CASE witness' = witness
      BY <2>1
  <2>2. CASE witness' # witness
    <3>1. pc = "rebuild" /\ witness' = Stored /\ NoteAt \in InStore
        BY <1>3, <2>2 DEF RebuildWitness
    <3> QED
        BY <3>1, WholeStoreIsChain
  <2> QED
      BY <2>1, <2>2
<1>4. CASE witness' \in {witness, NoWitness}
    BY <1>4
<1> QED
    BY <1>1, <1>2, <1>3, <1>4 DEF Next, Sync, vars, db, EmptyTables, StartSync,
        NothingToDownload, DownloadDelta, SaveManifest, BoostScan, InsertBoostNotes,
        SaveBoostTree, LoadTree, AppendVerified, Unverify, DiscoverInStore, SkipScan,
        ScanBlocks, BuildTree, Finish, Rewind, Reload, CheckBalance, DownloadFails, Repair,
        FullRescan, FullRescanReset, Stop, CalmDown

\* Every witness is made in a tree with a root of the chain, and keeps it as the headers
\* grow, but for those rebuild_witnesses_if_needed makes while the store lacks an output
\* before its last: the one source of the anchors AnchorsAreOnChain asks for in vain.
THEOREM OnlyHolesStray ==
    Spec => /\ [][Roots \subseteq Roots']_vars
            /\ [][\/ witness' \in {witness, NoWitness} \cup Roots
                  \/ pc = "rebuild" /\ Holes # {}]_vars
<1> DEFINE IInv == Inv /\ Reached /\ Recorded
           Made == \/ witness' \in {witness, NoWitness} \cup Roots
                   \/ pc = "rebuild" /\ Holes # {}
<1>1. Init => IInv
  <2>1. Init => Reached
    <3> SUFFICES ASSUME Init PROVE InStore = {}
        BY DEF Reached
    <3> QED
        BY DEF Init, InStore
  <2> QED
      BY <2>1, InitInv DEF Init, Recorded
<1>2. IInv /\ [Next]_vars => IInv'
  <2>1. Inv /\ [Next]_vars => Inv'
      BY TypeStep, StoreStep, BoostStep, KeptStep, BuiltStep, RootStep DEF Inv
  <2> QED
      BY <2>1, ReachedStep, RecordedStep
<1>3. IInv /\ [Next]_vars => [Roots \subseteq Roots']_vars
    BY RootsGrow
<1>4. IInv /\ [Next]_vars => [Made]_vars
    BY WitnessStep
<1> HIDE DEF IInv, Made
<1>5. Spec => [][Roots \subseteq Roots']_vars /\ [][Made]_vars
    BY <1>1, <1>2, <1>3, <1>4, PTL DEF Spec
<1> QED
    BY <1>5 DEF Made
=============================================================================
