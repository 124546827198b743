------------------------- MODULE BlockFetch_proofs --------------------------
(***************************************************************************)
(* A scan accounts for every block and implements BlockScan, its state is  *)
(* well formed, the blocks of nodes that owe nothing are taken, and a call *)
(* in which nothing fails gets all its blocks, for any number of blocks,   *)
(* peers, retries and faults.                                              *)
(*                                                                         *)
(* What has been loaded from the header store is at every moment divided   *)
(* into what is scanned, what is given up and what remains of the page;    *)
(* and a call only ever holds blocks that remain, because a handler waits  *)
(* in a round only, and what it receives is looked up among the blocks of  *)
(* its call (Inv). What a round receives is bounded by the handlers that   *)
(* wait, counted by their places in the queues (Bounded); a peer that owed *)
(* nothing has a handler for each block it still has to send (Punctual);   *)
(* and as long as nothing fails what is counted and what is still to be    *)
(* sent make up the round (Smooth). The last part bounds a scan's steps.   *)
(***************************************************************************)
EXTENDS BlockFetch, FiniteSetTheorems, WellFoundedInduction, TLAPS

\* The blocks loaded so far fall into three parts.
Divided ==
    /\ offset \in 0..Top
    /\ scanned \cup lost \cup remaining = 1..offset
    /\ scanned \cap lost = {}
    /\ remaining \cap (scanned \cup lost) = {}

\* A call holds blocks of its page only.
Holds ==
    /\ got \in Seq(remaining)
    /\ pc \in {"page", "call", "done"} => got = <<>>
    /\ pc \in {"page", "done"} => remaining = {}
    /\ pc = "done" => offset = Top

Inv ==
    /\ Divided /\ Holds
    /\ pc # "collect" => \A p \in Peers : ~(waiting[p] > 0)

\* The end of the next page lies between its beginning and the tip.
LEMMA PageEnd ==
    ASSUME NEW n \in 0..Top, n < Top
    PROVE  Min({n + Page, Top}) \in (n + 1)..Top
<1>1. n \in Nat /\ Top \in Nat /\ Page \in Nat \ {0}
    BY FetchAssumption
<1>2. \E x \in {n + Page, Top} : \A y \in {n + Page, Top} : x <= y
    BY <1>1
<1>3. Min({n + Page, Top}) \in {n + Page, Top} /\ Min({n + Page, Top}) <= Top
    BY <1>2 DEF Min
<1> QED
    BY <1>1, <1>3

LEMMA RangeWithin ==
    ASSUME NEW S, NEW s \in Seq(S)
    PROVE  Range(s) \subseteq S
<1> SUFFICES ASSUME NEW x \in Range(s) PROVE x \in S
    OBVIOUS
<1>1. PICK i \in DOMAIN s : x = s[i]
    BY DEF Range
<1>2. s[i] \in S
    OBVIOUS
<1> QED
    BY <1>1, <1>2

LEMMA AppendInSeq ==
    ASSUME NEW S, NEW s \in Seq(S), NEW x \in S
    PROVE  Append(s, x) \in Seq(S)
    OBVIOUS

LEMMA InvInit == Init => Inv
    BY FetchAssumption DEF Init, Inv, Divided, Holds, Blocks

\* One step per action.
LEMMA InvStep == Inv /\ [Next]_vars => Inv'
<1> SUFFICES ASSUME Inv, [Next]_vars PROVE Inv'
    OBVIOUS
<1> USE DEF Inv, Divided, Holds
<1>1. CASE NextPage
  <2>1. CASE offset < Top
    <3> DEFINE end == Min({offset + Page, Top})
    <3>1. end \in (offset + 1)..Top
        BY <2>1, PageEnd
    <3>2. /\ remaining' = (offset + 1)..end /\ offset' = end /\ pc' = "call" /\ pc = "page"
          /\ UNCHANGED <<got, scanned, lost, waiting>>
        BY <1>1, <2>1 DEF NextPage, links, call
    <3> HIDE DEF end
    <3>3. scanned \cup lost = 1..offset /\ offset \in Nat /\ Top \in Nat
        BY <3>2, FetchAssumption
    <3>4. Divided'
        BY <3>1, <3>2, <3>3, FetchAssumption
    <3>5. got' \in Seq(remaining')
        BY <3>2
    <3> QED
        BY <3>2, <3>4, <3>5
  <2>2. CASE ~(offset < Top)
    <3>1. offset = Top
        BY <2>2, FetchAssumption
    <3> QED
        BY <1>1, <2>2, <3>1 DEF NextPage, links, call
  <2> QED
      BY <2>1, <2>2
<1>2. CASE BeginCall
  <2>1. /\ pc = "call" /\ got' = <<>> /\ pc' \in {"failed", "round"}
        /\ UNCHANGED <<waiting, offset, remaining, scanned, lost>>
      BY <1>2 DEF BeginCall, links, call
  <2> QED
      BY <2>1
<1>3. CASE BeginRound
  <2>1. /\ pc = "round" /\ UNCHANGED <<got, offset, remaining, scanned, lost>>
        /\ \/ pc' = "collect"
           \/ pc' = "return" /\ waiting' = waiting
      BY <1>3 DEF BeginRound, Ask, scan
  <2> QED
      BY <2>1
<1>4. CASE EndRound
    BY <1>4 DEF EndRound, scan
<1>5. CASE EndRounds
    BY <1>5 DEF EndRounds, links, call, scan
<1>6. CASE Received
  <2>1. Range(got) \subseteq remaining
      BY RangeWithin
  <2>2. /\ pc = "return" /\ scanned' = scanned \cup Range(got)
        /\ remaining' = remaining \ Range(got) /\ got' = <<>> /\ pc' = "call"
        /\ UNCHANGED <<waiting, offset, lost>>
      BY <1>6 DEF Received, links
  <2>3. got' \in Seq(remaining')
      BY <2>2
  <2>4. Divided'
      BY <2>1, <2>2
  <2> QED
      BY <2>2, <2>3, <2>4
<1>7. CASE ReceivedNothing
  <2>1. /\ pc = "return" /\ got = <<>> /\ UNCHANGED <<waiting, got, offset, scanned>>
        /\ \/ lost' = lost \cup remaining /\ remaining' = {} /\ pc' = "page"
           \/ pc' = "call" /\ UNCHANGED <<lost, remaining>>
      BY <1>7 DEF ReceivedNothing, links, call
  <2>2. got' \in Seq(remaining')
      BY <2>1
  <2> QED
      BY <2>1, <2>2
<1>8. CASE Reconnect
  <2>1. /\ pc = "return" /\ got = <<>> /\ pc' = "call"
        /\ UNCHANGED <<waiting, got, offset, remaining, scanned, lost>>
      BY <1>8 DEF Reconnect, links, call
  <2> QED
      BY <2>1
<1>9. CASE EndPage
  <2>1. /\ pc = "call" /\ lost' = lost \cup remaining /\ remaining' = {} /\ pc' = "page"
        /\ UNCHANGED <<waiting, got, offset, scanned>>
      BY <1>9 DEF EndPage, links, call
  <2>2. got' \in Seq(remaining')
      BY <2>1
  <2> QED
      BY <2>1, <2>2
<1>10. CASE ListenersEnd
  <2>1. /\ UNCHANGED <<pc, got, offset, remaining, scanned, lost>>
        /\ \A p \in Peers : waiting'[p] \in {0, waiting[p]}
      BY <1>10 DEF ListenersEnd, call, scan
  <2> QED
      BY <2>1
<1>11. ASSUME NEW p \in Peers, Arrives(p) PROVE Inv'
  <2>1. UNCHANGED <<pc, offset, remaining, scanned, lost>>
      BY <1>11 DEF Arrives, scan
  <2>2. CASE waiting[p] > 0
    <3>1. pc = "collect"
        BY <2>2
    <3>2. \/ got' = got
          \/ Head(wire[p]) \in remaining /\ got' = Append(got, Head(wire[p]))
        BY <1>11 DEF Arrives
    <3>3. got \in Seq(remaining)
        BY DEF Inv
    <3>4. got' \in Seq(remaining)
        BY <3>2, <3>3, AppendInSeq
    <3> QED
        BY <2>1, <3>1, <3>4
  <2>3. CASE ~(waiting[p] > 0)
    <3>1. got' = got /\ waiting' = [waiting EXCEPT ![p] = @]
        BY <1>11, <2>3 DEF Arrives
    <3>2. \A q \in Peers : waiting'[q] > 0 => waiting[q] > 0
        BY <3>1
    <3> QED
        BY <2>1, <3>1, <3>2
  <2> QED
      BY <2>2, <2>3
<1>12. ASSUME NEW p \in Peers, NeverComes(p) PROVE Inv'
    BY <1>12 DEF NeverComes, call, scan
<1>13. CASE UNCHANGED vars
    BY <1>13 DEF vars, links, call, scan
<1> QED
    BY <1>1, <1>2, <1>3, <1>4, <1>5, <1>6, <1>7, <1>8, <1>9, <1>10, <1>11, <1>12, <1>13
       DEF Next, ScanStep

\* When a scan is through every block is scanned or counted as unfetched, and none is
\* both: late blocks, blocks asked twice and peers that fail in the middle of a call
\* make no difference.
THEOREM BlocksAccountedFor == Spec => []EveryBlockIsAccountedFor
<1>1. Inv => EveryBlockIsAccountedFor
    BY DEF Inv, Divided, Holds, EveryBlockIsAccountedFor, Blocks
<1> QED
    BY InvInit, InvStep, <1>1, PTL DEF Spec

-----------------------------------------------------------------------------
(* The blocks of a round.                                                   *)

LEMMA MinOfTwo ==
    ASSUME NEW a \in Nat, NEW b \in Nat
    PROVE  Min({a, b}) \in {a, b} /\ Min({a, b}) <= a /\ Min({a, b}) <= b
<1>1. \E x \in {a, b} : \A y \in {a, b} : x <= y
    OBVIOUS
<1>2. Min({a, b}) \in {a, b} /\ \A y \in {a, b} : Min({a, b}) <= y
    BY <1>1 DEF Min
<1> QED
    BY <1>2

LEMMA LeastNumber ==
    ASSUME NEW T, T \subseteq Nat, T # {}
    PROVE  \E m \in T : \A n \in T : m <= n
<1>1. PICK m \in T : \A n \in T : ~ (<<n, m>> \in OpToRel(<, Nat))
    BY NatLessThanWellFounded, WFMin
<1>2. \A n \in T : ~(n < m)
    BY <1>1 DEF OpToRel
<1> QED
    BY <1>2

LEMMA BlocksAreFinite ==
    ASSUME NEW S, S \subseteq Blocks
    PROVE  S \subseteq Nat \ {0} /\ IsFiniteSet(S) /\ Cardinality(S) \in Nat
<1>1. Top \in Nat /\ 1 \in Int /\ Top \in Int
    BY FetchAssumption
<1>2. IsFiniteSet(Blocks)
    BY <1>1, FS_Interval DEF Blocks
<1>3. IsFiniteSet(S)
    BY <1>2, FS_Subset
<1> QED
    BY <1>1, <1>3, FS_CardinalityType DEF Blocks

\* A bounded set of numbers has a k-th smallest for every k up to its size: the least
\* number up to which there are k of them.
LEMMA RankIsThere ==
    ASSUME NEW S, S \subseteq Nat \ {0}, IsFiniteSet(S), NEW top \in Nat,
           \A c \in S : c <= top, NEW k \in 1..Cardinality(S)
    PROVE  \E m \in S : Cardinality({c \in S : c <= m}) = k
<1> DEFINE UpTo(n) == {c \in S : c <= n}
           T == {n \in Nat : Cardinality(UpTo(n)) >= k}
<1>1. Cardinality(S) \in Nat /\ k \in Nat \ {0}
    BY FS_CardinalityType
<1>2. ASSUME NEW n \in Nat PROVE IsFiniteSet(UpTo(n)) /\ Cardinality(UpTo(n)) \in Nat
    BY FS_Subset, FS_CardinalityType
<1>3. top \in T
  <2>1. UpTo(top) = S
      OBVIOUS
  <2> QED
      BY <1>1, <2>1
<1>4. PICK m \in T : \A n \in T : m <= n
    BY <1>3, LeastNumber
<1>5. m # 0
  <2>0. \A c \in S : ~(c <= 0)
      OBVIOUS
  <2>1. UpTo(0) = {}
      BY <2>0
  <2>2. Cardinality(UpTo(0)) = 0
      BY <2>1, FS_EmptySet
  <2> QED
      BY <1>1, <1>4, <2>2
<1>6. m - 1 \in Nat /\ m - 1 \notin T
  <2>1. m \in Nat /\ m - 1 \in Nat /\ ~(m <= m - 1)
      BY <1>4, <1>5
  <2> HIDE DEF T
  <2> QED
      BY <1>4, <2>1
<1>7. UpTo(m - 1) = UpTo(m) \ {m}
  <2>1. \A c \in S : c <= m - 1 <=> c <= m /\ c # m
      BY <1>1, <1>4
  <2> QED
      BY <2>1
<1> HIDE DEF UpTo
<1>8. Cardinality(UpTo(m - 1)) =
        IF m \in UpTo(m) THEN Cardinality(UpTo(m)) - 1 ELSE Cardinality(UpTo(m))
    BY <1>2, <1>4, <1>7, FS_RemoveElement
<1>9. m \in UpTo(m) /\ Cardinality(UpTo(m)) = k
    BY <1>1, <1>2, <1>4, <1>6, <1>8
<1> QED
    BY <1>9 DEF UpTo

LEMMA NthIsThere ==
    ASSUME NEW S, S \subseteq Blocks, NEW k \in 1..Cardinality(S)
    PROVE  Nth(S, k) \in S /\ Cardinality({c \in S : c <= Nth(S, k)}) = k
<1>1. Top \in Nat /\ \A c \in S : c <= Top
    BY FetchAssumption DEF Blocks
<1>2. \E m \in S : Cardinality({c \in S : c <= m}) = k
    BY <1>1, BlocksAreFinite, RankIsThere
<1> QED
    BY <1>2 DEF Nth

\* Every block of the set is the k-th smallest for some k.
LEMMA NthIsAll ==
    ASSUME NEW S, S \subseteq Blocks, NEW b \in S
    PROVE  \E k \in 1..Cardinality(S) : Nth(S, k) = b
<1> DEFINE UpTo(n) == {c \in S : c <= n}
           k == Cardinality(UpTo(b))
<1>1. S \subseteq Nat \ {0} /\ IsFiniteSet(S) /\ Cardinality(S) \in Nat
    BY BlocksAreFinite
<1>2. ASSUME NEW c \in S
      PROVE  /\ IsFiniteSet(UpTo(c)) /\ Cardinality(UpTo(c)) \in 1..Cardinality(S)
             /\ c \in UpTo(c)
  <2>1. c \in UpTo(c) /\ UpTo(c) \subseteq S
      BY <1>1
  <2> HIDE DEF UpTo
  <2>2. IsFiniteSet(UpTo(c)) /\ Cardinality(UpTo(c)) <= Cardinality(S)
      BY <1>1, <2>1, FS_Subset
  <2>3. Cardinality(UpTo(c)) \in Nat \ {0}
      BY <2>1, <2>2, FS_CardinalityType, FS_EmptySet
  <2> QED
      BY <1>1, <2>1, <2>2, <2>3
<1>3. ASSUME NEW c \in S, NEW d \in S, c < d
      PROVE  Cardinality(UpTo(c)) < Cardinality(UpTo(d))
  <2>1. \A x \in S : x <= c => x <= d /\ x # d
      BY <1>1, <1>3
  <2>2. UpTo(c) \subseteq UpTo(d) \ {d}
      BY <2>1
  <2>3. d \in UpTo(d)
      BY <1>2
  <2> HIDE DEF UpTo
  <2>4. /\ IsFiniteSet(UpTo(d) \ {d})
        /\ Cardinality(UpTo(d) \ {d}) = Cardinality(UpTo(d)) - 1
      BY <1>2, <2>3, FS_RemoveElement
  <2>5. Cardinality(UpTo(c)) <= Cardinality(UpTo(d) \ {d})
      BY <2>2, <2>4, FS_Subset
  <2>6. Cardinality(UpTo(c)) \in Nat /\ Cardinality(UpTo(d)) \in Nat
      BY <1>1, <1>2
  <2> QED
      BY <2>4, <2>5, <2>6
<1>4. Nth(S, k) \in S /\ Cardinality(UpTo(Nth(S, k))) = k
    BY <1>2, NthIsThere
<1>5. Nth(S, k) = b
  <2> DEFINE x == Nth(S, k)
  <2>1. x \in Nat /\ b \in Nat
      BY <1>1, <1>4
  <2>2. ~(x < b) /\ ~(b < x)
    <3>1. k \in Nat
        BY <1>1, <1>2
    <3> QED
        BY <1>3, <1>4, <3>1
  <2> HIDE DEF x
  <2>3. x = b
      BY <2>1, <2>2
  <2> QED
      BY <2>3 DEF x
<1> QED
    BY <1>2, <1>5

LEMMA TimesMonotone ==
    ASSUME NEW a \in Nat, NEW b \in Nat, NEW n \in Nat, a <= b
    PROVE  a * n \in Nat /\ a * n <= b * n
    OBVIOUS

\* What a peer is asked for are blocks of the call, at most Quota of them.
LEMMA ShareOfCall ==
    ASSUME remaining \subseteq Blocks, NEW k \in Nat \ {0}, NEW n \in Nat,
           cursor \in Nat, NEW end \in 0..Cardinality(remaining)
    PROVE  Share(k, n, end) \in Seq(remaining) /\ Len(Share(k, n, end)) \in 0..Quota
<1> DEFINE At(i) == cursor + k + (i - 1) * n
           D == {i \in 1..Quota : At(i) <= end}
<1>1. Quota \in Nat /\ end \in Nat /\ Cardinality(remaining) \in Nat
    BY FetchAssumption, BlocksAreFinite
<1>2. ASSUME NEW i \in Nat \ {0} PROVE At(i) \in Nat \ {0}
  <2>1. i - 1 \in Nat
      OBVIOUS
  <2>2. (i - 1) * n \in Nat
      BY <2>1, TimesMonotone
  <2> QED
      BY <2>2
<1>3. ASSUME NEW i \in Nat \ {0}, NEW j \in Nat \ {0}, i <= j PROVE At(i) <= At(j)
  <2>1. i - 1 \in Nat /\ j - 1 \in Nat /\ i - 1 <= j - 1
      BY <1>3
  <2>2. (i - 1) * n \in Nat /\ (j - 1) * n \in Nat /\ (i - 1) * n <= (j - 1) * n
      BY <2>1, TimesMonotone
  <2> QED
      BY <2>2
<1>4. \A i \in D : Nth(remaining, At(i)) \in remaining
  <2> TAKE i \in D
  <2>1. At(i) \in 1..Cardinality(remaining)
      BY <1>1, <1>2
  <2> QED
      BY <2>1, NthIsThere
<1>5. \E l \in 0..Quota : D = 1..l
  <2> DEFINE T == {l \in 0..Quota : \A i \in D : i <= l}
  <2>1. T \subseteq Nat /\ Quota \in T
      BY <1>1
  <2>2. PICK l \in T : \A m \in T : l <= m
      BY <2>1, LeastNumber
  <2>3. D \subseteq 1..l
    <3>1. \A i \in D : i \in 1..Quota /\ i <= l
        BY <2>2
    <3>2. l \in Nat
        BY <1>1, <2>2
    <3> HIDE DEF D
    <3> QED
        BY <1>1, <3>1, <3>2
  <2>4. l # 0 => l \in D
    <3> SUFFICES ASSUME l # 0, l \notin D PROVE FALSE
        OBVIOUS
    <3>1. l - 1 \in 0..Quota /\ \A i \in D : i <= l - 1
      <4>1. \A i \in D : i \in Nat /\ i <= l /\ i # l
          BY <1>1, <2>2
      <4>2. l \in Nat /\ l <= Quota /\ l # 0
          BY <1>1, <2>2
      <4> HIDE DEF D, T
      <4> QED
          BY <1>1, <4>1, <4>2
    <3>2. l - 1 \in T
        BY <3>1
    <3>3. l <= l - 1 /\ l \in Nat
        BY <1>1, <2>2, <3>2
    <3> HIDE DEF D, T
    <3> QED
        BY <3>3
  <2>5. \A i \in 1..l : i \in D
    <3> TAKE i \in 1..l
    <3>1. l \in Nat /\ l # 0 /\ i \in Nat \ {0} /\ i <= l /\ i \in 1..Quota
        BY <1>1, <2>2
    <3>2. l \in D
        BY <2>4, <3>1
    <3>3. At(i) <= At(l) /\ At(i) \in Nat /\ At(l) \in Nat /\ At(l) <= end
        BY <1>2, <1>3, <3>1, <3>2
    <3> HIDE DEF At
    <3>4. At(i) <= end
        BY <1>1, <3>3
    <3> QED
        BY <3>1, <3>4
  <2> QED
      BY <2>2, <2>3, <2>5
<1>6. PICK l \in 0..Quota : D = 1..l
    BY <1>5
<1> DEFINE s == Share(k, n, end)
<1>7. s = [i \in D |-> Nth(remaining, At(i))]
    BY DEF Share
<1> HIDE DEF s, At, D
<1>8. s = [i \in 1..l |-> Nth(remaining, At(i))] /\ \A i \in 1..l : Nth(remaining, At(i)) \in remaining
    BY <1>4, <1>6, <1>7
<1>9. s \in Seq(remaining) /\ Len(s) = l
    BY <1>1, <1>8
<1> QED
    BY <1>6, <1>9 DEF s

-----------------------------------------------------------------------------
(* Handlers that wait. Their number is that of their places in the queues.   *)

Open(w) == {h \in Peers \X (1..Quota) : h[2] <= w[h[1]]}

LEMMA OpenCount ==
    ASSUME NEW w
    PROVE  /\ IsFiniteSet(Open(w)) /\ Cardinality(Open(w)) \in Nat
           /\ Cardinality(Open(w)) <= Quota * Cardinality(Peers)
           /\ Quota * Cardinality(Peers) \in Nat
<1>1. IsFiniteSet(Peers) /\ Quota \in Nat /\ 1 \in Int /\ Quota \in Int
    BY FetchAssumption
<1>2. IsFiniteSet(1..Quota) /\ Cardinality(1..Quota) = Quota
    BY <1>1, FS_Interval
<1>3. Cardinality(Peers) \in Nat
    BY <1>1, FS_CardinalityType
<1>4. /\ IsFiniteSet(Peers \X (1..Quota))
      /\ Cardinality(Peers \X (1..Quota)) = Cardinality(Peers) * Quota
    BY <1>1, <1>2, FS_Product
<1>5. IsFiniteSet(Open(w)) /\ Cardinality(Open(w)) <= Cardinality(Peers \X (1..Quota))
    BY <1>4, FS_Subset DEF Open
<1>6. Cardinality(Open(w)) \in Nat
    BY <1>5, FS_CardinalityType
<1>7. Cardinality(Peers) * Quota = Quota * Cardinality(Peers)
      /\ Quota * Cardinality(Peers) \in Nat
    BY <1>1, <1>3
<1> QED
    BY <1>4, <1>5, <1>6, <1>7

LEMMA OpenShrinks ==
    ASSUME NEW w \in [Peers -> 0..Quota], NEW v \in [Peers -> 0..Quota],
           \A p \in Peers : v[p] <= w[p]
    PROVE  Cardinality(Open(v)) <= Cardinality(Open(w))
<1>1. ASSUME NEW h \in Open(v) PROVE h \in Open(w)
  <2>1. h \in Peers \X (1..Quota) /\ h[2] <= v[h[1]]
      BY <1>1 DEF Open
  <2>2. h[1] \in Peers /\ h[2] \in Nat
      BY <2>1
  <2>3. v[h[1]] \in Nat /\ w[h[1]] \in Nat /\ v[h[1]] <= w[h[1]]
      BY <2>2, FetchAssumption
  <2>4. h[2] <= w[h[1]]
      BY <2>1, <2>2, <2>3
  <2> QED
      BY <2>1, <2>4 DEF Open
<1> QED
    BY <1>1, OpenCount, FS_Subset

LEMMA OpenTaken ==
    ASSUME NEW w \in [Peers -> 0..Quota], NEW p \in Peers, w[p] > 0
    PROVE  Cardinality(Open([w EXCEPT ![p] = @ - 1])) + 1 <= Cardinality(Open(w))
<1> DEFINE v == [w EXCEPT ![p] = @ - 1]
           h == <<p, w[p]>>
<1>1. w[p] \in Nat /\ w[p] \in 1..Quota /\ v \in [Peers -> 0..Quota]
    BY FetchAssumption
<1>2. h \in Open(w) /\ h \notin Open(v)
    BY <1>1 DEF Open
<1>3. ASSUME NEW g \in Open(v) PROVE g \in Open(w)
  <2>1. g \in Peers \X (1..Quota) /\ g[2] <= v[g[1]]
      BY <1>3 DEF Open
  <2>2. g[1] \in Peers /\ g[2] \in Nat
      BY <2>1
  <2>3. v[g[1]] \in Nat /\ w[g[1]] \in Nat /\ v[g[1]] <= w[g[1]]
      BY <1>1, <2>2, FetchAssumption
  <2> HIDE DEF v
  <2>4. g[2] <= w[g[1]]
      BY <2>1, <2>2, <2>3
  <2> QED
      BY <2>1, <2>4 DEF Open
<1> HIDE DEF h, v
<1>4. Open(v) \subseteq Open(w) \ {h}
    BY <1>2, <1>3
<1>5. /\ IsFiniteSet(Open(w) \ {h})
      /\ Cardinality(Open(w) \ {h}) = Cardinality(Open(w)) - 1
    BY <1>2, OpenCount, FS_RemoveElement
<1>6. Cardinality(Open(v)) <= Cardinality(Open(w) \ {h})
    BY <1>4, <1>5, FS_Subset
<1>7. Cardinality(Open(v)) \in Nat /\ Cardinality(Open(w)) \in Nat
    BY OpenCount
<1>8. Cardinality(Open(v)) + 1 <= Cardinality(Open(w))
    BY <1>5, <1>6, <1>7
<1> QED
    BY <1>8 DEF v

-----------------------------------------------------------------------------
(* The state of a scan is well formed.                                      *)

\* More than the types: the number of a round's blocks that came and that are waited for
\* is at most what the peers are asked for, and a page is not longer than Page.
Bounded ==
    /\ TypeOK
    /\ round \in [end : Nat, size : Nat, received : Nat]
    /\ Cardinality(remaining) <= Page
    /\ round.received + Cardinality(Open(waiting)) <= Quota * Cardinality(Peers)

\* In a round a node that owed nothing has nothing but blocks of the call to send, and
\* a handler for each.
Punctual ==
    pc = "collect" => \A p \in Peers \ owing :
        wire[p] \in Seq(remaining) /\ Len(wire[p]) <= waiting[p]

LEMMA Numbers ==
    /\ Page \in Nat \ {0} /\ Quota \in Nat \ {0} /\ Retries \in Nat \ {0}
    /\ ReconnectAt \in Nat \ {0} /\ Enough \in Nat \ {0}
    /\ ReconnectAt < Retries /\ Top \in Nat /\ MaxFaults \in Nat
    /\ Cardinality(Peers) \in Nat /\ Quota * Cardinality(Peers) \in Nat
    BY FetchAssumption, FS_CardinalityType, OpenCount

LEMMA SpendStays ==
    ASSUME faults \in 0..MaxFaults, NEW n \in Nat, Spend(n)
    PROVE  faults' \in 0..MaxFaults
    BY Numbers DEF Spend

LEMMA CostIsNumber == \A S : Cost(S) \in Nat
    BY DEF Cost

LEMMA BoundedInit == Init => Bounded
<1> SUFFICES ASSUME Init PROVE Bounded
    OBVIOUS
<1>1. Cardinality(Open(waiting)) = 0
  <2>1. ASSUME NEW h \in Open(waiting) PROVE FALSE
    <3>1. h[1] \in Peers /\ h[2] \in 1..Quota /\ h[2] <= waiting[h[1]]
        BY <2>1 DEF Open
    <3>2. waiting[h[1]] = 0
        BY <3>1 DEF Init
    <3> QED
        BY <3>1, <3>2, Numbers
  <2> QED
      BY <2>1, FS_EmptySet
<1>2. Cardinality(remaining) = 0
    BY FS_EmptySet DEF Init
<1>3. round = [end |-> 0, size |-> 0, received |-> 0]
    BY DEF Init, NoRound
<1>4. /\ 0 \in 0..Top /\ 0 \in 0..Retries /\ 0 \in 0..(Retries - 1) /\ 0 \in 0..Page
      /\ 0 \in 0..Quota /\ 0 \in 0..MaxFaults /\ 0 \in 0..(Quota * Cardinality(Peers))
    BY Numbers
<1>5. /\ conn \in [Peers -> ConnStates] /\ waiting \in [Peers -> 0..Quota]
      /\ wire \in [Peers -> Seq(Blocks)] /\ got \in Seq(Blocks) /\ smooth \in BOOLEAN
  <2>1. <<>> \in Seq(Blocks)
      OBVIOUS
  <2>2. smooth \in BOOLEAN
      BY DEF Init
  <2>3. conn \in [Peers -> ConnStates] /\ waiting \in [Peers -> 0..Quota]
      BY <1>4 DEF Init, ConnStates
  <2>4. wire \in [Peers -> Seq(Blocks)] /\ got \in Seq(Blocks)
      BY <2>1 DEF Init
  <2> QED
      BY <2>2, <2>3, <2>4
<1>6. TypeOK
    BY <1>3, <1>4, <1>5 DEF Init, TypeOK
<1> QED
    BY <1>1, <1>2, <1>3, <1>6, Numbers DEF Bounded

LEMMA CallStays ==
    ASSUME Bounded, UNCHANGED <<waiting, remaining, round>>, TypeOK'
    PROVE  Bounded'
    BY DEF Bounded

LEMMA PageFits ==
    ASSUME NEW n \in 0..Top, n < Top, NEW S, S = (n + 1)..Min({n + Page, Top})
    PROVE  S \subseteq Blocks /\ Cardinality(S) <= Page
<1> DEFINE e == Min({n + Page, Top})
<1>1. n \in Nat /\ Page \in Nat \ {0} /\ Top \in Nat
    BY Numbers
<1>2. e \in {n + Page, Top} /\ e <= n + Page /\ e <= Top
    BY <1>1, MinOfTwo
<1> HIDE DEF e
<1>3. e \in Nat /\ n + 1 \in Int /\ e \in Int
    BY <1>1, <1>2
<1>4. Cardinality((n + 1)..e) <= Page
    BY <1>1, <1>2, <1>3, FS_Interval
<1>5. (n + 1)..e \subseteq Blocks
    BY <1>1, <1>2, <1>3 DEF Blocks
<1> QED
    BY <1>4, <1>5 DEF e

\* The handlers become fewer, and nothing is received.
LEMMA CallShrinks ==
    ASSUME Bounded, UNCHANGED <<remaining, round>>, TypeOK',
           waiting \in [Peers -> 0..Quota], waiting' \in [Peers -> 0..Quota],
           \A p \in Peers : waiting'[p] <= waiting[p]
    PROVE  Bounded'
<1>1. Cardinality(Open(waiting')) <= Cardinality(Open(waiting))
    BY OpenShrinks
<1>2. /\ Cardinality(Open(waiting')) \in Nat /\ Cardinality(Open(waiting)) \in Nat
      /\ Quota * Cardinality(Peers) \in Nat
    BY OpenCount
<1>3. round.received \in Nat
      /\ round.received + Cardinality(Open(waiting)) <= Quota * Cardinality(Peers)
    BY DEF Bounded
<1>4. round.received + Cardinality(Open(waiting')) <= Quota * Cardinality(Peers)
    BY <1>1, <1>2, <1>3
<1> QED
    BY <1>4 DEF Bounded

LEMMA SharesOfCall ==
    ASSUME remaining \subseteq Blocks, order \in Orders, cursor \in Nat, NEW busy,
           NEW end \in 0..Cardinality(remaining), NEW p \in Peers
    PROVE  /\ Shares(busy, end)[p] \in Seq(remaining)
           /\ Len(Shares(busy, end)[p]) \in 0..Quota
<1> DEFINE ready == InPool(conn) \ busy
           before == {q \in ready : order[q] <= order[p]}
           a == Shares(busy, end)[p]
<1>1. a = IF p \in ready \cap Listening
            THEN Share(Cardinality(before), Cardinality(ready), end) ELSE <<>>
    BY DEF Shares
<1>2. CASE p \in ready \cap Listening
  <2>1. IsFiniteSet(ready) /\ IsFiniteSet(before)
      BY FetchAssumption, FS_Subset DEF InPool
  <2>2. order[p] \in Nat
      BY Numbers DEF Orders, Injection
  <2>3. p \in before
      BY <1>2, <2>2
  <2> HIDE DEF before, ready
  <2>4. Cardinality(before) \in Nat \ {0} /\ Cardinality(ready) \in Nat
      BY <2>1, <2>3, FS_CardinalityType, FS_EmptySet
  <2> QED
      BY <1>1, <1>2, <2>4, ShareOfCall
<1>3. CASE p \notin ready \cap Listening
    BY <1>1, <1>3, Numbers
<1> QED
    BY <1>2, <1>3

LEMMA ConnectStays ==
    ASSUME NEW c \in [Peers -> ConnStates], NEW ok, Connect(c, ok),
           order \in Orders, faults \in 0..MaxFaults
    PROVE  conn' \in [Peers -> ConnStates] /\ order' \in Orders /\ faults' \in 0..MaxFaults
<1>1. PICK new \in SUBSET (Peers \ InPool(c)) :
         LET now == [p \in Peers |-> IF p \in new THEN "fresh" ELSE c[p]]
         IN
         /\ IF Cardinality(InPool(c)) >= Enough THEN new = {} /\ Spend(0)
            ELSE Spend(Cost((Peers \ InPool(c)) \ new))
         /\ ok = (Cardinality(InPool(now)) >= Enough)
         /\ conn' = IF ok THEN Started(now) ELSE now
         /\ order' \in IF c = conn /\ new = {} THEN {order} ELSE Orders
    BY DEF Connect
<1> DEFINE now == [p \in Peers |-> IF p \in new THEN "fresh" ELSE c[p]]
<1>2. now \in [Peers -> ConnStates]
    BY DEF ConnStates
<1> HIDE DEF now
<1>3. Started(now) \in [Peers -> ConnStates]
    BY <1>2 DEF Started, ConnStates
<1>4. conn' \in {now, Started(now)}
    BY <1>1 DEF now
<1>5. faults' \in 0..MaxFaults
  <2>1. Spend(0) \/ Spend(Cost((Peers \ InPool(c)) \ new))
      BY <1>1
  <2> QED
      BY <2>1, SpendStays, CostIsNumber
<1> QED
    BY <1>1, <1>2, <1>3, <1>4, <1>5

LEMMA SmoothIsBoolean == smooth \in BOOLEAN /\ [Next]_vars => smooth' \in BOOLEAN
    BY DEF Next, ScanStep, NextPage, BeginCall, BeginRound, EndRound, EndRounds, Received,
           ReceivedNothing, Reconnect, EndPage, ListenersEnd, Arrives, NeverComes, vars, call

\* One step per action.
LEMMA BoundedStep == Inv /\ Bounded /\ [Next]_vars => Bounded'
<1> SUFFICES ASSUME Inv, Bounded, [Next]_vars PROVE Bounded'
    OBVIOUS
<1>0. TypeOK /\ faults \in 0..MaxFaults /\ smooth' \in BOOLEAN
    BY SmoothIsBoolean DEF Bounded, TypeOK
<1>1. CASE NextPage
  <2>1. /\ UNCHANGED <<conn, order, stale, waiting, wire, owing, width, cursor, got, round,
                       scanned, lost, faults>>
        /\ retry' = 0 /\ zero' = 0 /\ pc' \in {"call", "done"}
      BY <1>1 DEF NextPage, pool, links, call
  <2>2. offset' \in 0..Top /\ remaining' \subseteq Blocks /\ Cardinality(remaining') <= Page
    <3>1. CASE offset < Top
      <4>1. /\ remaining' = (offset + 1)..Min({offset + Page, Top})
            /\ offset' = Min({offset + Page, Top})
          BY <1>1, <3>1 DEF NextPage
      <4>2. offset \in 0..Top
          BY <1>0 DEF TypeOK
      <4>3. Min({offset + Page, Top}) \in (offset + 1)..Top
          BY <3>1, <4>2, PageEnd
      <4>4. offset' \in 0..Top
          BY <4>1, <4>2, <4>3, Numbers
      <4> QED
          BY <3>1, <4>1, <4>2, <4>4, PageFits
    <3>2. CASE ~(offset < Top)
      <4>1. UNCHANGED <<remaining, offset>>
          BY <1>1, <3>2 DEF NextPage
      <4>2. offset \in 0..Top /\ remaining \subseteq Blocks
          BY <1>0 DEF TypeOK
      <4> QED
          BY <4>1, <4>2 DEF Bounded
    <3> QED
        BY <3>1, <3>2
  <2>3. TypeOK'
      BY <1>0, <2>1, <2>2, Numbers DEF TypeOK
  <2> QED
      BY <2>1, <2>2, <2>3 DEF Bounded
<1>2. CASE BeginCall
  <2>1. /\ retry < Retries /\ retry' = retry + 1
        /\ UNCHANGED <<order, stale, waiting, wire, owing, offset, remaining, zero, scanned,
                       lost>>
      BY <1>2 DEF BeginCall, links
  <2>2. PICK busy \in SUBSET Listening :
           LET connected == InPool(conn) \ busy
           IN
           /\ Spend(Cost(busy))
           /\ IF connected = {}
              THEN pc' = "failed" /\ UNCHANGED <<conn, call>>
              ELSE /\ pc' = "round"
                   /\ conn' = IF Listening = {} THEN Started(conn) ELSE conn
                   /\ width' = Cardinality(connected) * Quota
                   /\ cursor' = 0 /\ got' = <<>> /\ round' = NoRound
      BY <1>2 DEF BeginCall
  <2>3. faults' \in 0..MaxFaults
      BY <1>0, <2>2, SpendStays, CostIsNumber
  <2>4. Cardinality(InPool(conn) \ busy) * Quota \in Nat
    <3>1. IsFiniteSet(InPool(conn) \ busy)
        BY FetchAssumption, FS_Subset DEF InPool
    <3> QED
        BY <3>1, FS_CardinalityType, Numbers
  <2>5. Started(conn) \in [Peers -> ConnStates]
      BY <1>0 DEF Started, ConnStates, TypeOK
  <2>6. \/ pc' = "failed" /\ UNCHANGED <<conn, width, cursor, got, round>>
        \/ /\ pc' = "round" /\ conn' \in {conn, Started(conn)} /\ width' \in Nat
           /\ cursor' = 0 /\ got' = <<>> /\ round' = NoRound
      BY <2>2, <2>4 DEF call
  <2>7. 0 \in 0..Page /\ <<>> \in Seq(Blocks)
      BY Numbers
  <2>8. /\ pc' \in {"failed", "round"} /\ conn' \in [Peers -> ConnStates] /\ width' \in Nat
        /\ cursor' \in 0..Page /\ got' \in Seq(Blocks) /\ round' \in {round, NoRound}
      BY <1>0, <2>5, <2>6, <2>7 DEF TypeOK
  <2>9. retry' \in 0..Retries
      BY <1>0, <2>1, Numbers DEF TypeOK
  <2>10. /\ round' \in [end : Nat, size : Nat, received : Nat]
        /\ round'.end \in 0..Page /\ round'.size \in 0..Page
        /\ round'.received \in 0..(Quota * Cardinality(Peers))
        /\ round'.received <= round.received
      BY <1>0, <2>8, Numbers DEF Bounded, TypeOK, NoRound
  <2>11. TypeOK'
      BY <1>0, <2>1, <2>3, <2>8, <2>9, <2>10 DEF TypeOK
  <2>12. round'.received + Cardinality(Open(waiting')) <= Quota * Cardinality(Peers)
    <3>1. /\ round.received \in Nat /\ round'.received \in Nat
          /\ Cardinality(Open(waiting)) \in Nat /\ waiting' = waiting
        BY <2>1, <2>10, OpenCount DEF Bounded
    <3>2. round.received + Cardinality(Open(waiting)) <= Quota * Cardinality(Peers)
        BY DEF Bounded
    <3> QED
        BY <2>10, <3>1, <3>2, Numbers
  <2> QED
      BY <2>1, <2>10, <2>11, <2>12 DEF Bounded
<1>3. CASE BeginRound
  <2>1. PICK busy \in SUBSET Listening, unsent \in SUBSET Listening :
          LET end == Min({cursor + width, Cardinality(remaining)})
          IN
          /\ Spend(Cost(busy) + Cost(unsent))
          /\ \E asked \in {Shares(busy, end)} :
               /\ unsent \subseteq {p \in Peers : asked[p] # <<>>}
               /\ IF \A p \in Peers : asked[p] = <<>>
                  THEN pc' = "return" /\ UNCHANGED <<waiting, wire, owing, round>>
                  ELSE Ask(asked, unsent, end)
      BY <1>3 DEF BeginRound
  <2> DEFINE end == Min({cursor + width, Cardinality(remaining)})
             asked == Shares(busy, end)
  <2>2. /\ cursor < Cardinality(remaining)
        /\ UNCHANGED <<conn, order, stale, width, cursor, got, offset, remaining, retry, zero,
                       scanned, lost>>
        /\ \/ pc' = "return" /\ UNCHANGED <<waiting, wire, owing, round>>
           \/ Ask(asked, unsent, end)
      BY <1>3, <2>1 DEF BeginRound, pool, scan
  <2>3. faults' \in 0..MaxFaults
    <3>1. Cost(busy) + Cost(unsent) \in Nat
        BY CostIsNumber
    <3> QED
        BY <1>0, <2>1, <3>1, SpendStays
  <2>4. CASE pc' = "return" /\ UNCHANGED <<waiting, wire, owing, round>>
    <3>1. TypeOK'
        BY <1>0, <2>2, <2>3, <2>4 DEF TypeOK
    <3> QED
        BY <2>2, <2>4, <3>1, CallStays
  <2>5. CASE Ask(asked, unsent, end)
    <3>1. /\ cursor \in Nat /\ width \in Nat /\ Cardinality(remaining) \in Nat /\ Page \in Nat
          /\ Cardinality(remaining) <= Page /\ remaining \subseteq Blocks
        BY <1>0, BlocksAreFinite, Numbers DEF TypeOK, Bounded
    <3>2. end \in 0..Cardinality(remaining) /\ cursor <= end
        BY <2>2, <3>1, MinOfTwo
    <3> HIDE DEF end
    <3>3. \A p \in Peers : asked[p] \in Seq(remaining) /\ Len(asked[p]) \in 0..Quota
        BY <1>0, <3>1, <3>2, SharesOfCall DEF TypeOK
    <3> HIDE DEF asked
    <3>4. /\ waiting' = [p \in Peers |-> Len(asked[p])]
          /\ wire' = [p \in Peers |-> IF p \in unsent THEN wire[p] ELSE wire[p] \o asked[p]]
          /\ owing' \subseteq Peers
          /\ round' = [end |-> end, size |-> end - cursor, received |-> 0]
          /\ pc' = "collect"
        BY <2>5 DEF Ask
    <3>5. waiting' \in [Peers -> 0..Quota]
        BY <3>3, <3>4
    <3>6. wire' \in [Peers -> Seq(Blocks)]
      <4>1. ASSUME NEW p \in Peers PROVE wire'[p] \in Seq(Blocks)
        <5>1. wire[p] \in Seq(Blocks) /\ asked[p] \in Seq(Blocks)
            BY <1>0, <3>1, <3>3 DEF TypeOK
        <5>2. wire[p] \o asked[p] \in Seq(Blocks)
            BY <5>1
        <5> QED
            BY <3>4, <5>1, <5>2
      <4>2. wire' = [p \in Peers |-> wire'[p]]
          BY <3>4
      <4> QED
          BY <4>1, <4>2
    <3>7. /\ round' \in [end : Nat, size : Nat, received : Nat]
          /\ round'.end \in 0..Page /\ round'.size \in 0..Page /\ round'.received = 0
        BY <3>1, <3>2, <3>4
    <3>8. round'.received \in 0..(Quota * Cardinality(Peers))
        BY <3>7, Numbers
    <3>9. TypeOK'
        BY <1>0, <2>2, <2>3, <3>4, <3>5, <3>6, <3>7, <3>8 DEF TypeOK
    <3>10. round'.received + Cardinality(Open(waiting')) <= Quota * Cardinality(Peers)
        BY <3>7, OpenCount
    <3> QED
        BY <2>2, <3>1, <3>7, <3>9, <3>10 DEF Bounded
  <2> QED
      BY <2>2, <2>4, <2>5
<1>4. CASE EndRound
  <2> DEFINE late == {p \in Peers : waiting[p] > 0 /\ wire[p] # <<>>}
  <2>1. /\ Spend(Cost(late)) /\ stale' = stale \cup {p \in Peers : waiting[p] > 0}
        /\ waiting' = [p \in Peers |-> 0]
        /\ pc' \in {"round", "return"} /\ cursor' \in {round.end, cursor}
        /\ round' = [end |-> 0, size |-> 0, received |-> 0]
        /\ UNCHANGED <<conn, order, wire, owing, width, got, offset, remaining, retry, zero,
                       scanned, lost>>
      BY <1>4 DEF EndRound, pool, scan, NoRound
  <2>2. faults' \in 0..MaxFaults
      BY <1>0, <2>1, SpendStays, CostIsNumber
  <2>3. waiting' \in [Peers -> 0..Quota]
      BY <2>1, Numbers
  <2>4. TypeOK'
      BY <1>0, <2>1, <2>2, <2>3, Numbers DEF TypeOK
  <2>5. round'.received + Cardinality(Open(waiting')) <= Quota * Cardinality(Peers)
      BY <2>1, OpenCount
  <2> QED
      BY <2>1, <2>4, <2>5 DEF Bounded
<1>5. CASE EndRounds
  <2>1. TypeOK'
      BY <1>0, <1>5 DEF EndRounds, pool, links, call, scan, TypeOK
  <2> QED
      BY <1>5, <2>1, CallStays DEF EndRounds, links, call, scan
<1>6. CASE Received
  <2>1. /\ scanned' = scanned \cup Range(got) /\ remaining' = remaining \ Range(got)
        /\ zero' = 0 /\ got' = <<>> /\ pc' = "call"
        /\ UNCHANGED <<conn, order, stale, waiting, wire, owing, width, cursor, round, offset,
                       retry, lost, faults>>
      BY <1>6 DEF Received, pool, links
  <2>2. Range(got) \subseteq Blocks
      BY <1>0, RangeWithin DEF TypeOK
  <2>3. TypeOK'
      BY <1>0, <2>1, <2>2, Numbers DEF TypeOK
  <2>4. Cardinality(remaining') <= Page
    <3>1. IsFiniteSet(remaining) /\ Cardinality(remaining) \in Nat
        BY <1>0, BlocksAreFinite DEF TypeOK
    <3>2. Cardinality(remaining') <= Cardinality(remaining) /\ Cardinality(remaining') \in Nat
        BY <2>1, <3>1, FS_Subset, FS_CardinalityType
    <3> QED
        BY <3>1, <3>2, Numbers DEF Bounded
  <2> QED
      BY <2>1, <2>3, <2>4 DEF Bounded
<1>7. CASE ReceivedNothing
  <2>1. /\ zero + 1 # ReconnectAt
        /\ UNCHANGED <<conn, order, stale, waiting, wire, owing, width, cursor, got, round,
                       offset, retry, scanned, faults>>
        /\ \/ lost' = lost \cup remaining /\ remaining' = {} /\ zero' = 0 /\ pc' = "page"
           \/ /\ zero + 1 # Retries /\ zero' = zero + 1 /\ pc' = "call"
              /\ UNCHANGED <<lost, remaining>>
      BY <1>7 DEF ReceivedNothing, pool, links, call
  <2>2. zero' \in 0..(Retries - 1)
      BY <1>0, <2>1, Numbers DEF TypeOK
  <2>3. TypeOK'
      BY <1>0, <2>1, <2>2 DEF TypeOK
  <2>4. Cardinality(remaining') <= Page
    <3>1. remaining' = remaining \/ Cardinality(remaining') = 0
        BY <2>1, FS_EmptySet
    <3> QED
        BY <3>1, Numbers DEF Bounded
  <2> QED
      BY <2>1, <2>3, <2>4 DEF Bounded
<1>8. CASE Reconnect
  <2>1. PICK ok \in BOOLEAN :
         /\ Connect(IF Listening = {} THEN [p \in Peers |-> "out"] ELSE conn, ok)
         /\ zero' = IF ok THEN 0 ELSE zero + 1
         /\ retry' = IF ok THEN retry - Min({retry, ReconnectAt}) ELSE retry
      BY <1>8 DEF Reconnect
  <2>2. /\ zero + 1 = ReconnectAt /\ pc' = "call"
        /\ UNCHANGED <<stale, waiting, wire, owing, width, cursor, got, round, offset,
                       remaining, scanned, lost>>
      BY <1>8 DEF Reconnect, links, call
  <2>3. zero' \in 0..(Retries - 1)
      BY <1>0, <2>1, <2>2, Numbers DEF TypeOK
  <2>4. retry' \in 0..Retries
    <3>1. retry \in Nat /\ ReconnectAt \in Nat /\ retry <= Retries
        BY <1>0, Numbers DEF TypeOK
    <3>2. Min({retry, ReconnectAt}) \in Nat /\ Min({retry, ReconnectAt}) <= retry
        BY <3>1, MinOfTwo
    <3> QED
        BY <2>1, <3>1, <3>2, Numbers
  <2> DEFINE c == IF Listening = {} THEN [p \in Peers |-> "out"] ELSE conn
  <2>5. c \in [Peers -> ConnStates]
      BY <1>0 DEF TypeOK, ConnStates
  <2> HIDE DEF c
  <2>6. conn' \in [Peers -> ConnStates] /\ order' \in Orders /\ faults' \in 0..MaxFaults
      BY <1>0, <2>1, <2>5, ConnectStays DEF TypeOK, c
  <2>7. TypeOK'
      BY <1>0, <2>2, <2>3, <2>4, <2>6 DEF TypeOK
  <2> QED
      BY <2>2, <2>7, CallStays
<1>9. CASE EndPage
  <2>1. /\ lost' = lost \cup remaining /\ remaining' = {} /\ pc' = "page"
        /\ UNCHANGED <<conn, order, stale, waiting, wire, owing, width, cursor, got, round,
                       offset, retry, zero, scanned, faults>>
      BY <1>9 DEF EndPage, pool, links, call
  <2>2. TypeOK'
      BY <1>0, <2>1 DEF TypeOK
  <2>3. Cardinality(remaining') <= Page
    <3>1. Cardinality(remaining') = 0
        BY <2>1, FS_EmptySet
    <3> QED
        BY <3>1, Numbers
  <2> QED
      BY <2>1, <2>2, <2>3 DEF Bounded
<1>10. CASE ListenersEnd
  <2>1. PICK gone \in SUBSET Listening :
         /\ conn' = [p \in Peers |-> IF p \in gone THEN "deaf" ELSE conn[p]]
         /\ stale' = stale \ gone
         /\ waiting' = [p \in Peers |-> IF p \in gone THEN 0 ELSE waiting[p]]
         /\ wire' = [p \in Peers |-> IF p \in gone THEN <<>> ELSE wire[p]]
      BY <1>10 DEF ListenersEnd
  <2>2. /\ Spend(1)
        /\ UNCHANGED <<order, owing, pc, width, cursor, got, round, offset, remaining, retry,
                       zero, scanned, lost>>
      BY <1>10 DEF ListenersEnd, call, scan
  <2>3. faults' \in 0..MaxFaults
      BY <1>0, <2>2, SpendStays
  <2>4. /\ conn' \in [Peers -> ConnStates] /\ waiting' \in [Peers -> 0..Quota]
        /\ wire' \in [Peers -> Seq(Blocks)]
      BY <1>0, <2>1, Numbers DEF TypeOK, ConnStates
  <2>5. TypeOK'
      BY <1>0, <2>1, <2>2, <2>3, <2>4 DEF TypeOK
  <2>6. waiting \in [Peers -> 0..Quota] /\ \A p \in Peers : waiting'[p] <= waiting[p]
      BY <1>0, <2>1, Numbers DEF TypeOK
  <2> QED
      BY <2>2, <2>4, <2>5, <2>6, CallShrinks
<1>11. ASSUME NEW p \in Peers, Arrives(p) PROVE Bounded'
  <2>1. /\ wire[p] # <<>> /\ wire' = [wire EXCEPT ![p] = Tail(@)] /\ stale' = stale \ {p}
        /\ waiting' = [waiting EXCEPT ![p] = IF waiting[p] > 0 THEN @ - 1 ELSE @]
        /\ UNCHANGED <<conn, order, owing, pc, width, cursor, offset, remaining, retry, zero,
                       scanned, lost, faults>>
        /\ \/ UNCHANGED <<got, round>>
           \/ /\ waiting[p] > 0 /\ got' = Append(got, Head(wire[p]))
              /\ round' = [round EXCEPT !.received = @ + 1]
      BY <1>11 DEF Arrives, pool, scan
  <2>2. /\ wire[p] \in Seq(Blocks) /\ waiting \in [Peers -> 0..Quota]
        /\ wire \in [Peers -> Seq(Blocks)] /\ got \in Seq(Blocks)
      BY <1>0 DEF TypeOK
  <2>3. Tail(wire[p]) \in Seq(Blocks) /\ Head(wire[p]) \in Blocks
      BY <2>1, <2>2
  <2>4. wire' \in [Peers -> Seq(Blocks)] /\ got' \in Seq(Blocks)
    <3>1. wire' \in [Peers -> Seq(Blocks)]
        BY <2>1, <2>2, <2>3
    <3>2. got' \in Seq(Blocks)
      <4>1. Append(got, Head(wire[p])) \in Seq(Blocks)
          BY <2>2, <2>3, AppendInSeq
      <4> QED
          BY <2>1, <2>2, <4>1
    <3> QED
        BY <3>1, <3>2
  <2>5. waiting' \in [Peers -> 0..Quota] /\ \A q \in Peers : waiting'[q] <= waiting[q]
    <3>1. Quota \in Nat /\ \A q \in Peers : waiting[q] \in Nat /\ waiting[q] <= Quota
        BY <2>2, Numbers
    <3>2. waiting' \in [Peers -> 0..Quota]
        BY <2>1, <2>2, <3>1
    <3>3. \A q \in Peers : waiting'[q] \in {waiting[q], waiting[q] - 1}
        BY <2>1, <2>2
    <3> QED
        BY <3>1, <3>2, <3>3
  <2>6. CASE UNCHANGED <<got, round>>
    <3>1. TypeOK'
        BY <1>0, <2>1, <2>4, <2>5, <2>6 DEF TypeOK
    <3> QED
        BY <2>1, <2>2, <2>5, <2>6, <3>1, CallShrinks
  <2>7. CASE waiting[p] > 0 /\ round' = [round EXCEPT !.received = @ + 1]
    <3>1. waiting' = [waiting EXCEPT ![p] = @ - 1]
        BY <2>1, <2>7
    <3>2. Cardinality(Open(waiting')) + 1 <= Cardinality(Open(waiting))
        BY <2>2, <2>7, <3>1, OpenTaken
    <3>3. /\ round' \in [end : Nat, size : Nat, received : Nat]
          /\ round'.end = round.end /\ round'.size = round.size
          /\ round'.received = round.received + 1 /\ round.received \in Nat
        BY <2>7 DEF Bounded
    <3>4. /\ Cardinality(Open(waiting')) \in Nat /\ Cardinality(Open(waiting)) \in Nat
          /\ Quota * Cardinality(Peers) \in Nat
        BY OpenCount
    <3>5. round.received + Cardinality(Open(waiting)) <= Quota * Cardinality(Peers)
        BY DEF Bounded
    <3>6. /\ round'.received + Cardinality(Open(waiting')) <= Quota * Cardinality(Peers)
          /\ round'.received \in 0..(Quota * Cardinality(Peers))
        BY <3>2, <3>3, <3>4, <3>5
    <3>7. TypeOK'
        BY <1>0, <2>1, <2>4, <2>5, <3>3, <3>6 DEF TypeOK
    <3> QED
        BY <2>1, <3>3, <3>6, <3>7 DEF Bounded
  <2> QED
      BY <2>1, <2>6, <2>7
<1>12. ASSUME NEW p \in Peers, NeverComes(p) PROVE Bounded'
  <2>1. /\ wire[p] # <<>> /\ wire' = [wire EXCEPT ![p] = Tail(@)] /\ Spend(1)
        /\ UNCHANGED <<conn, order, stale, waiting, owing, pc, width, cursor, got, round,
                       offset, remaining, retry, zero, scanned, lost>>
      BY <1>12 DEF NeverComes, pool, call, scan
  <2>2. faults' \in 0..MaxFaults
      BY <1>0, <2>1, SpendStays
  <2>3. wire \in [Peers -> Seq(Blocks)] /\ wire[p] \in Seq(Blocks)
      BY <1>0 DEF TypeOK
  <2>4. Tail(wire[p]) \in Seq(Blocks)
      BY <2>1, <2>3
  <2>5. wire' \in [Peers -> Seq(Blocks)]
      BY <2>1, <2>3, <2>4
  <2>6. TypeOK'
      BY <1>0, <2>1, <2>2, <2>5 DEF TypeOK
  <2> QED
      BY <2>1, <2>6, CallStays
<1>13. CASE UNCHANGED vars
  <2>1. TypeOK'
      BY <1>0, <1>13 DEF vars, pool, links, call, scan, TypeOK
  <2> QED
      BY <1>13, <2>1, CallStays DEF vars, links, call, scan
<1> QED
    BY <1>1, <1>2, <1>3, <1>4, <1>5, <1>6, <1>7, <1>8, <1>9, <1>10, <1>11, <1>12, <1>13
       DEF Next, ScanStep

\* The scan's counters, cursors, pages and handlers stay in their ranges.
THEOREM TypeCorrect == Spec => []TypeOK
<1>1. Inv /\ Bounded /\ [Next]_vars => (Inv /\ Bounded)'
    BY InvStep, BoundedStep
<1>2. Bounded => TypeOK
    BY DEF Bounded
<1> QED
    BY InvInit, BoundedInit, <1>1, <1>2, PTL DEF Spec

-----------------------------------------------------------------------------
(* Whose blocks are taken.                                                  *)

\* What a node has left to send is the rest of what it had.
LEMMA RestStays ==
    ASSUME NEW S, NEW s \in Seq(S), s # <<>>
    PROVE  /\ Head(s) \in S /\ Tail(s) \in Seq(S)
           /\ Len(Tail(s)) = Len(s) - 1 /\ Len(s) \in Nat \ {0}
    OBVIOUS

LEMMA PunctualInit == Init => Punctual
    BY DEF Init, Punctual

\* One step per action that begins a round or disturbs one.
LEMMA PunctualStep == Bounded /\ Punctual /\ [Next]_vars => Punctual'
<1> SUFFICES ASSUME Bounded, Punctual, [Next]_vars PROVE Punctual'
    OBVIOUS
<1>0. TypeOK
    BY DEF Bounded
<1>1. CASE NextPage \/ BeginCall \/ EndRound \/ EndRounds \/ Received \/ ReceivedNothing
           \/ Reconnect \/ EndPage
  <2>1. pc' # "collect"
      BY <1>1 DEF NextPage, BeginCall, EndRound, EndRounds, Received, ReceivedNothing,
                  Reconnect, EndPage
  <2> QED
      BY <2>1 DEF Punctual
<1>2. CASE BeginRound
  <2> SUFFICES ASSUME pc' = "collect", NEW p \in Peers \ owing'
               PROVE  wire'[p] \in Seq(remaining') /\ Len(wire'[p]) <= waiting'[p]
      BY DEF Punctual
  <2>1. PICK busy \in SUBSET Listening, unsent \in SUBSET Listening :
          \E asked \in {Shares(busy, Min({cursor + width, Cardinality(remaining)}))} :
            IF \A q \in Peers : asked[q] = <<>>
            THEN pc' = "return" /\ UNCHANGED <<waiting, wire, owing, round>>
            ELSE Ask(asked, unsent, Min({cursor + width, Cardinality(remaining)}))
      BY <1>2 DEF BeginRound
  <2> DEFINE end == Min({cursor + width, Cardinality(remaining)})
             asked == Shares(busy, end)
  <2>2. Ask(asked, unsent, end) /\ remaining' = remaining /\ cursor < Cardinality(remaining)
      BY <1>2, <2>1 DEF BeginRound, scan
  <2>3. /\ remaining \subseteq Blocks /\ order \in Orders /\ cursor \in Nat /\ width \in Nat
        /\ Cardinality(remaining) \in Nat
      BY <1>0, Numbers, BlocksAreFinite DEF TypeOK
  <2>4. end \in 0..Cardinality(remaining)
      BY <2>3, MinOfTwo
  <2> HIDE DEF end
  <2>5. asked[p] \in Seq(remaining) /\ Len(asked[p]) \in 0..Quota
      BY <2>3, <2>4, SharesOfCall
  <2> HIDE DEF asked
  <2>6. /\ waiting'[p] = Len(asked[p]) /\ wire[p] = <<>>
        /\ wire'[p] = IF p \in unsent THEN wire[p] ELSE wire[p] \o asked[p]
      BY <2>2 DEF Ask
  <2>7. wire'[p] \in {<<>>, asked[p]}
      BY <2>5, <2>6
  <2> QED
      BY <2>2, <2>5, <2>6, <2>7, Numbers
<1>3. CASE ListenersEnd
  <2>1. /\ UNCHANGED <<owing, pc, remaining>>
        /\ \A p \in Peers : \/ wire'[p] = wire[p] /\ waiting'[p] = waiting[p]
                            \/ wire'[p] = <<>> /\ waiting'[p] = 0
      BY <1>0, <1>3 DEF ListenersEnd, call, scan, TypeOK
  <2> SUFFICES ASSUME pc = "collect", NEW p \in Peers \ owing
               PROVE  wire'[p] \in Seq(remaining) /\ Len(wire'[p]) <= waiting'[p]
      BY <2>1 DEF Punctual
  <2>2. wire[p] \in Seq(remaining) /\ Len(wire[p]) <= waiting[p]
      BY DEF Punctual
  <2>3. CASE wire'[p] = wire[p] /\ waiting'[p] = waiting[p]
      BY <2>2, <2>3
  <2>4. CASE wire'[p] = <<>> /\ waiting'[p] = 0
    <3>1. <<>> \in Seq(remaining) /\ Len(<<>>) <= 0
        OBVIOUS
    <3> QED
        BY <2>4, <3>1
  <2> QED
      BY <2>1, <2>3, <2>4
<1>4. ASSUME NEW p \in Peers, Arrives(p) PROVE Punctual'
  <2>1. /\ wire[p] # <<>> /\ UNCHANGED <<owing, pc, remaining>>
        /\ wire' = [wire EXCEPT ![p] = Tail(@)]
        /\ waiting' = [waiting EXCEPT ![p] = IF waiting[p] > 0 THEN @ - 1 ELSE @]
      BY <1>4 DEF Arrives, pool, scan
  <2> SUFFICES ASSUME pc = "collect", NEW q \in Peers \ owing
               PROVE  wire'[q] \in Seq(remaining) /\ Len(wire'[q]) <= waiting'[q]
      BY <2>1 DEF Punctual
  <2>2. wire[q] \in Seq(remaining) /\ Len(wire[q]) <= waiting[q] /\ waiting[q] \in Nat
      BY <1>0, Numbers DEF Punctual, TypeOK
  <2>3. CASE q = p
    <3>1. wire'[p] = Tail(wire[p])
        BY <1>0, <2>1 DEF TypeOK
    <3>2. waiting'[p] = IF waiting[p] > 0 THEN waiting[p] - 1 ELSE waiting[p]
        BY <1>0, <2>1 DEF TypeOK
    <3>3. /\ Tail(wire[p]) \in Seq(remaining) /\ Len(Tail(wire[p])) = Len(wire[p]) - 1
          /\ Len(wire[p]) \in Nat \ {0}
        BY <2>1, <2>2, <2>3, RestStays
    <3>4. Len(Tail(wire[p])) <= waiting'[p]
        BY <2>2, <2>3, <3>2, <3>3
    <3> QED
        BY <2>3, <3>1, <3>3, <3>4
  <2>4. CASE q # p
      BY <1>0, <2>1, <2>2, <2>4 DEF TypeOK
  <2> QED
      BY <2>3, <2>4
<1>5. ASSUME NEW p \in Peers, NeverComes(p) PROVE Punctual'
  <2>1. /\ wire[p] # <<>> /\ UNCHANGED <<waiting, owing, pc, remaining>>
        /\ wire' = [wire EXCEPT ![p] = Tail(@)]
      BY <1>5 DEF NeverComes, scan
  <2> SUFFICES ASSUME pc = "collect", NEW q \in Peers \ owing
               PROVE  wire'[q] \in Seq(remaining) /\ Len(wire'[q]) <= waiting[q]
      BY <2>1 DEF Punctual
  <2>2. wire[q] \in Seq(remaining) /\ Len(wire[q]) <= waiting[q] /\ waiting[q] \in Nat
      BY <1>0, Numbers DEF Punctual, TypeOK
  <2>3. wire'[q] = IF q = p THEN Tail(wire[p]) ELSE wire[q]
      BY <1>0, <2>1 DEF TypeOK
  <2> QED
      BY <2>1, <2>2, <2>3, RestStays
<1>6. CASE UNCHANGED vars
    BY <1>6 DEF vars, links, scan, Punctual
<1> QED
    BY <1>1, <1>2, <1>3, <1>4, <1>5, <1>6 DEF Next, ScanStep

\* A block that comes in its round from a node that owed nothing is received: the handler
\* that takes it is one of the round, since those of earlier rounds are passed over, and
\* there is one left for it.
THEOREM PunctualTheorem == Spec => PunctualBlocksAreTaken
<1>1. Bounded /\ Punctual =>
        \A p \in Peers \ owing : pc = "collect" /\ Arrives(p) => Len(got') = Len(got) + 1
  <2> SUFFICES ASSUME Bounded, Punctual, NEW p \in Peers \ owing, pc = "collect", Arrives(p)
               PROVE  Len(got') = Len(got) + 1
      OBVIOUS
  <2>1. /\ wire[p] \in Seq(remaining) /\ Len(wire[p]) <= waiting[p] /\ waiting[p] \in Nat
        /\ got \in Seq(Blocks) /\ remaining \subseteq Blocks
      BY Numbers DEF Punctual, Bounded, TypeOK
  <2>2. wire[p] # <<>>
      BY DEF Arrives
  <2>3. Head(wire[p]) \in remaining /\ waiting[p] > 0
      BY <2>1, <2>2, RestStays
  <2>4. got' = Append(got, Head(wire[p])) /\ Head(wire[p]) \in Blocks
      BY <2>1, <2>3 DEF Arrives
  <2> QED
      BY <2>1, <2>4
<1>2. Inv /\ Bounded /\ Punctual /\ [Next]_vars => (Inv /\ Bounded /\ Punctual)'
    BY InvStep, BoundedStep, PunctualStep
<1>3. Init => Inv /\ Bounded /\ Punctual
    BY InvInit, BoundedInit, PunctualInit
<1> QED
    BY <1>1, <1>2, <1>3, PTL DEF Spec, PunctualBlocksAreTaken

-----------------------------------------------------------------------------
(* Calls in which nothing fails.                                            *)

\* Of the peers of a set, one is the t-th in the iteration of the map for every t.
LEMMA TurnIsTaken ==
    ASSUME order \in Orders, NEW R, R \subseteq Peers, NEW t \in 1..Cardinality(R)
    PROVE  \E p \in R : Cardinality({q \in R : order[q] <= order[p]}) = t
<1> DEFINE S == {order[q] : q \in R}
           top == Cardinality(Peers)
<1>1. /\ IsFiniteSet(R) /\ top \in Nat
      /\ \A q \in Peers : order[q] \in Nat \ {0} /\ order[q] <= top
      /\ \A p, q \in Peers : order[p] = order[q] => p = q
    BY FetchAssumption, FS_Subset, FS_CardinalityType DEF Orders, Injection, IsInjective
<1>2. ASSUME NEW Q, Q \subseteq R
      PROVE  /\ IsFiniteSet({order[q] : q \in Q})
             /\ Cardinality({order[q] : q \in Q}) = Cardinality(Q)
  <2> DEFINE I == {order[q] : q \in Q}
             f == [q \in Q |-> order[q]]
  <2>1. IsFiniteSet(Q)
      BY <1>1, <1>2, FS_Subset
  <2>2. \A p, q \in Q : order[p] = order[q] => p = q
      BY <1>1, <1>2
  <2>3. f \in Bijection(Q, I)
      BY <2>2 DEF Bijection, Injection, Surjection, IsInjective
  <2> HIDE DEF f, I
  <2>4. ExistsBijection(Q, I)
      BY <2>3 DEF ExistsBijection
  <2>5. IsFiniteSet(I) /\ Cardinality(I) = Cardinality(Q)
      BY <2>1, <2>4, FS_Bijection
  <2> QED
      BY <2>5 DEF I
<1>3. S \subseteq Nat \ {0} /\ \A c \in S : c <= top
    BY <1>1
<1>4. IsFiniteSet(S) /\ t \in 1..Cardinality(S)
    BY <1>2
<1> HIDE DEF S, top
<1>5. PICK m \in S : Cardinality({c \in S : c <= m}) = t
    BY <1>1, <1>3, <1>4, RankIsThere
<1>6. PICK p \in R : m = order[p]
    BY <1>5 DEF S
<1> DEFINE before == {q \in R : order[q] <= order[p]}
<1>7. {c \in S : c <= m} = {order[q] : q \in before}
    BY <1>6 DEF S
<1>8. Cardinality(before) = t
    BY <1>2, <1>5, <1>7
<1> QED
    BY <1>8

\* What is dealt to n players in at most q turns: each is the t-th of some turn j.
LEMMA DealtInTurns ==
    ASSUME NEW m \in Nat \ {0}, NEW n \in Nat \ {0}, NEW q \in Nat, m <= n * q
    PROVE  \E t \in 1..n, j \in 1..q : m = t + (j - 1) * n
<1> DEFINE T == {i \in Nat : m <= n * i}
<1>1. q \in T /\ T \subseteq Nat
    OBVIOUS
<1>2. PICK j \in T : \A i \in T : j <= i
    BY <1>1, LeastNumber
<1>3. j \in Nat /\ j <= q /\ m <= n * j
    BY <1>1, <1>2
<1>4. j # 0
    BY <1>3
<1>5. j - 1 \in Nat /\ ~(j <= j - 1)
    BY <1>3, <1>4
<1>6. ~(m <= n * (j - 1))
    BY <1>2, <1>5
<1> HIDE DEF T
<1>7. /\ n * (j - 1) \in Nat /\ n * j = n * (j - 1) + n
      /\ (j - 1) * n = n * (j - 1)
  <2>1. \A x \in Nat : n * x \in Nat /\ n * (x + 1) = n * x + n /\ x * n = n * x
      OBVIOUS
  <2>2. j = (j - 1) + 1
      BY <1>3
  <2> QED
      BY <1>5, <2>1, <2>2
<1>8. m - n * (j - 1) \in 1..n /\ m = (m - n * (j - 1)) + (j - 1) * n
    BY <1>3, <1>6, <1>7
<1>9. j \in 1..q
    BY <1>3, <1>4
<1> QED
    BY <1>8, <1>9

\* When every connection has a listener and no writer is taken, each block of a round is
\* asked of some peer: the quota times the peers is not less than the round.
LEMMA AllIsAsked ==
    ASSUME order \in Orders, cursor \in Nat,
           \A p \in Peers : conn[p] \in {"out", "listening"},
           NEW end \in Nat, end <= cursor + Cardinality(Listening) * Quota,
           NEW k \in (cursor + 1)..end
    PROVE  \E p \in Peers : Nth(remaining, k) \in Range(Shares({}, end)[p])
<1> DEFINE n == Cardinality(Listening)
<1>1. /\ Listening \subseteq Peers /\ InPool(conn) \ {} = Listening
      /\ n \in Nat /\ Quota \in Nat
    BY FetchAssumption, FS_Subset, FS_CardinalityType DEF Listening, InPool
<1>2. k - cursor \in Nat \ {0} /\ k - cursor <= n * Quota /\ k <= end /\ k \in Nat
    BY <1>1
<1>3. n # 0
    BY <1>1, <1>2
<1>4. PICK t \in 1..n, j \in 1..Quota : k - cursor = t + (j - 1) * n
  <2> HIDE DEF n
  <2> QED
      BY <1>1, <1>2, <1>3, DealtInTurns
<1>5. PICK p \in Listening : Cardinality({q \in Listening : order[q] <= order[p]}) = t
    BY <1>1, <1>4, TurnIsTaken
<1> DEFINE a == Shares({}, end)[p]
<1>6. a = Share(t, n, end)
    BY <1>1, <1>5 DEF Shares
<1>7. cursor + t + (j - 1) * n = k
  <2>1. t \in Nat /\ (j - 1) * n \in Nat
    <3>1. j - 1 \in Nat
        BY <1>4
    <3> QED
        BY <1>1, <1>4, <3>1
  <2> HIDE DEF n
  <2> QED
      BY <1>2, <1>4, <2>1
<1> HIDE DEF n
<1>8. j \in DOMAIN a /\ a[j] = Nth(remaining, k)
    BY <1>2, <1>4, <1>6, <1>7 DEF Share
<1> HIDE DEF a
<1>9. Nth(remaining, k) \in Range(a)
    BY <1>8 DEF Range
<1> QED
    BY <1>1, <1>9 DEF a

\* The blocks of a round, by their places in the call, that a node has still to send.
Due == {k \in 1..round.end : \E p \in Peers : Nth(remaining, k) \in Range(wire[p])}

\* As long as nothing has failed in a call, what lies behind the cursor has been received;
\* in a round what is not received is due, and what is counted and what is due make up the
\* round.
Smooth ==
    smooth =>
      /\ pc \in {"round", "collect"} =>
           /\ \A p \in Peers : conn[p] \in {"out", "listening"}
           /\ 0 < width /\ width <= Cardinality(Listening) * Quota
      /\ pc = "round" =>
           /\ \A p \in Peers : wire[p] = <<>>
           /\ \A k \in 1..Cardinality(remaining) :
                k <= cursor => Nth(remaining, k) \in Range(got)
      /\ pc = "collect" =>
           /\ owing = {} /\ round.end <= Cardinality(remaining)
           /\ \A k \in 1..round.end : k \in Due \/ Nth(remaining, k) \in Range(got)
           /\ round.received + Cardinality(Due) >= round.size
      /\ pc = "return" => remaining \subseteq Range(got)

LEMMA DueIsFinite ==
    ASSUME round.end \in Nat
    PROVE  IsFiniteSet(Due) /\ Cardinality(Due) \in Nat
<1>1. IsFiniteSet(1..round.end)
    BY FS_Interval
<1>2. Due \subseteq 1..round.end
    BY DEF Due
<1> QED
    BY <1>1, <1>2, FS_Subset, FS_CardinalityType

LEMMA SmoothInit == Init => Smooth
    BY DEF Init, Smooth

LEMMA SmoothBeginCall ==
    ASSUME Bounded, BeginCall, smooth', pc' = "round"
    PROVE  Smooth'
<1>1. PICK busy \in SUBSET Listening :
         LET connected == InPool(conn) \ busy
         IN
         /\ connected # {}
         /\ conn' = IF Listening = {} THEN Started(conn) ELSE conn
         /\ width' = Cardinality(connected) * Quota
         /\ cursor' = 0
    BY DEF BeginCall
<1>2. \A p \in Peers : conn'[p] \in {"out", "listening"} /\ wire[p] = <<>>
  <2>1. PICK busy0 \in SUBSET Listening :
          IF InPool(conn) \ busy0 = {} THEN pc' = "failed"
          ELSE smooth' = \A p \in Peers : conn'[p] \in {"out", "listening"} /\ wire[p] = <<>>
      BY DEF BeginCall
  <2> QED
      BY <2>1
<1> DEFINE connected == InPool(conn) \ busy
<1>3. Listening' = InPool(conn)
  <2>1. \A p \in Peers : conn'[p] = "out" <=> conn[p] = "out"
      BY <1>1 DEF Started
  <2>2. \A p \in Peers : p \in Listening' <=> p \in InPool(conn)
      BY <1>2, <2>1 DEF Listening, InPool
  <2>3. Listening' \subseteq Peers /\ InPool(conn) \subseteq Peers
      BY DEF Listening, InPool
  <2> QED
      BY <2>2, <2>3
<1>4. /\ IsFiniteSet(connected) /\ Cardinality(connected) \in Nat \ {0}
      /\ Cardinality(InPool(conn)) \in Nat
      /\ Cardinality(connected) <= Cardinality(InPool(conn))
  <2>1. IsFiniteSet(InPool(conn)) /\ connected \subseteq InPool(conn) /\ connected # {}
      BY <1>1, FetchAssumption, FS_Subset DEF InPool
  <2> HIDE DEF connected
  <2> QED
      BY <2>1, FS_Subset, FS_CardinalityType, FS_EmptySet
<1>5. 0 < width' /\ width' <= Cardinality(Listening') * Quota
  <2>1. width' = Cardinality(connected) * Quota
      BY <1>1
  <2> HIDE DEF connected
  <2>2. \A a, b \in Nat : a <= b => a * Quota <= b * Quota
      BY Numbers, TimesMonotone
  <2>3. \A a \in Nat \ {0} : 0 < a * Quota
      BY Numbers
  <2> QED
      BY <1>3, <1>4, <2>1, <2>2, <2>3
<1>6. wire' = wire /\ remaining' = remaining /\ cursor' = 0
    BY <1>1 DEF BeginCall, links
<1>7. \A k \in 1..Cardinality(remaining') : ~(k <= cursor')
    BY <1>6
<1> QED
    BY <1>2, <1>5, <1>6, <1>7 DEF Smooth

LEMMA SmoothBeginRound ==
    ASSUME Bounded, Smooth, BeginRound, smooth'
    PROVE  Smooth'
<1>0. TypeOK
    BY DEF Bounded
<1> DEFINE end == Min({cursor + width, Cardinality(remaining)})
           asked == Shares({}, end)
<1>1. /\ smooth
      /\ IF \A q \in Peers : asked[q] = <<>> THEN pc' = "return" ELSE Ask(asked, {}, end)
  <2>1. PICK busy \in SUBSET Listening, unsent \in SUBSET Listening :
          /\ smooth' = (smooth /\ busy \cup unsent = {})
          /\ IF \A q \in Peers : Shares(busy, end)[q] = <<>>
             THEN pc' = "return" ELSE Ask(Shares(busy, end), unsent, end)
      BY DEF BeginRound
  <2>2. busy = {} /\ unsent = {} /\ smooth
      BY <2>1
  <2> HIDE DEF end
  <2> QED
      BY <2>1, <2>2
<1>2. /\ pc = "round" /\ cursor < Cardinality(remaining)
      /\ UNCHANGED <<conn, remaining, cursor, width, got>>
    BY DEF BeginRound, pool, scan
<1>3. /\ \A p \in Peers : conn[p] \in {"out", "listening"}
      /\ 0 < width /\ width <= Cardinality(Listening) * Quota
      /\ \A p \in Peers : wire[p] = <<>>
      /\ \A k \in 1..Cardinality(remaining) : k <= cursor => Nth(remaining, k) \in Range(got)
    BY <1>1, <1>2 DEF Smooth
<1>4. /\ remaining \subseteq Blocks /\ order \in Orders /\ cursor \in Nat /\ width \in Nat
      /\ Cardinality(remaining) \in Nat /\ Cardinality(Listening) * Quota \in Nat
  <2>1. Cardinality(Listening) \in Nat
      BY FetchAssumption, FS_Subset, FS_CardinalityType DEF Listening
  <2> QED
      BY <1>0, <2>1, Numbers, BlocksAreFinite DEF TypeOK
<1>5. /\ end \in Nat /\ cursor < end /\ end <= Cardinality(remaining)
      /\ end <= cursor + Cardinality(Listening) * Quota
    BY <1>2, <1>3, <1>4, MinOfTwo
<1> HIDE DEF end
<1>6. \A k \in (cursor + 1)..end : \E p \in Peers : Nth(remaining, k) \in Range(asked[p])
    BY <1>3, <1>4, <1>5, AllIsAsked
<1>7. Ask(asked, {}, end)
  <2>1. cursor + 1 \in (cursor + 1)..end
      BY <1>4, <1>5
  <2>2. PICK p \in Peers : Nth(remaining, cursor + 1) \in Range(asked[p])
      BY <1>6, <2>1
  <2> HIDE DEF asked
  <2>3. asked[p] # <<>>
      BY <2>2 DEF Range
  <2> QED
      BY <1>1, <2>3
<1>8. \A p \in Peers : asked[p] \in Seq(remaining)
    BY <1>4, <1>5, SharesOfCall
<1> HIDE DEF asked
<1>9. /\ \A p \in Peers : wire'[p] = asked[p]
      /\ owing' = {} /\ pc' = "collect"
      /\ round' = [end |-> end, size |-> end - cursor, received |-> 0]
  <2>1. \A p \in Peers : <<>> \o asked[p] = asked[p]
      BY <1>8
  <2> QED
      BY <1>3, <1>7, <2>1 DEF Ask
<1>10. Due' = {k \in 1..end : \E p \in Peers : Nth(remaining, k) \in Range(asked[p])}
    BY <1>2, <1>9 DEF Due
<1>11. (cursor + 1)..end \subseteq Due'
    BY <1>4, <1>6, <1>10
<1>12. IsFiniteSet(Due') /\ Cardinality(Due') \in Nat /\ end - cursor <= Cardinality(Due')
  <2>1. IsFiniteSet(1..end)
      BY <1>5, FS_Interval
  <2>2. IsFiniteSet(Due')
      BY <1>10, <2>1, FS_Subset
  <2>3. Cardinality((cursor + 1)..end) = end - cursor
    <3>1. cursor + 1 \in Int /\ end \in Int /\ cursor + 1 <= end
        BY <1>4, <1>5
    <3> QED
        BY <1>4, <1>5, <3>1, FS_Interval
  <2> QED
      BY <1>11, <2>2, <2>3, FS_Subset, FS_CardinalityType
<1>13. \A k \in 1..end : k \in Due' \/ Nth(remaining, k) \in Range(got)
  <2> TAKE k \in 1..end
  <2>1. CASE k <= cursor
      BY <1>3, <1>4, <1>5, <2>1
  <2>2. CASE ~(k <= cursor)
      BY <1>4, <1>5, <1>11, <2>2
  <2> QED
      BY <2>1, <2>2
<1>14. Listening' = Listening
    BY <1>2 DEF Listening
<1>15. round'.received + Cardinality(Due') >= round'.size
    BY <1>4, <1>5, <1>9, <1>12
<1> QED
    BY <1>2, <1>3, <1>5, <1>9, <1>13, <1>14, <1>15 DEF Smooth

LEMMA SmoothEndRound ==
    ASSUME Bounded, Punctual, Smooth, EndRound, smooth'
    PROVE  Smooth'
<1>0. TypeOK /\ round \in [end : Nat, size : Nat, received : Nat]
    BY DEF Bounded
<1>1. /\ pc = "collect" /\ smooth /\ {p \in Peers : waiting[p] > 0 /\ wire[p] # <<>>} = {}
      /\ UNCHANGED <<conn, wire, remaining, width, got>>
    BY DEF EndRound, pool, scan
<1>2. /\ \A p \in Peers : conn[p] \in {"out", "listening"}
      /\ 0 < width /\ width <= Cardinality(Listening) * Quota
      /\ owing = {} /\ round.end <= Cardinality(remaining)
      /\ \A k \in 1..round.end : k \in Due \/ Nth(remaining, k) \in Range(got)
      /\ round.received + Cardinality(Due) >= round.size
    BY <1>1 DEF Smooth
<1>3. ASSUME NEW p \in Peers PROVE wire[p] = <<>>
  <2>1. wire[p] \in Seq(remaining) /\ Len(wire[p]) <= waiting[p] /\ waiting[p] \in Nat
      BY <1>0, <1>1, <1>2, Numbers DEF Punctual, TypeOK
  <2>2. wire[p] # <<>> => Len(wire[p]) \in Nat \ {0}
      BY <2>1
  <2> QED
      BY <1>1, <2>1, <2>2
<1>4. Due = {} /\ Cardinality(Due) = 0
  <2>1. Range(<<>>) = {}
      BY DEF Range
  <2>2. Due = {}
      BY <1>3, <2>1 DEF Due
  <2> QED
      BY <2>2, FS_EmptySet
<1>5. round.received * 2 >= round.size
    BY <1>0, <1>2, <1>4
<1>6. pc' = "round" /\ cursor' = round.end
    BY <1>5 DEF EndRound
<1>7. Listening' = Listening
    BY <1>1 DEF Listening
<1>8. \A k \in 1..Cardinality(remaining) : k <= round.end => Nth(remaining, k) \in Range(got)
    BY <1>0, <1>2, <1>4
<1> QED
    BY <1>1, <1>2, <1>3, <1>6, <1>7, <1>8 DEF Smooth

LEMMA SmoothEndRounds ==
    ASSUME Bounded, Smooth, EndRounds, smooth'
    PROVE  Smooth'
<1>1. /\ pc = "round" /\ cursor >= Cardinality(remaining) /\ pc' = "return" /\ smooth
      /\ UNCHANGED <<remaining, got>>
    BY DEF EndRounds, call, scan
<1>2. remaining \subseteq Blocks /\ cursor \in Nat /\ Cardinality(remaining) \in Nat
    BY Numbers, BlocksAreFinite DEF Bounded, TypeOK
<1>3. \A k \in 1..Cardinality(remaining) : Nth(remaining, k) \in Range(got)
    BY <1>1, <1>2 DEF Smooth
<1>4. remaining \subseteq Range(got)
    BY <1>2, <1>3, NthIsAll
<1> QED
    BY <1>1, <1>4 DEF Smooth

LEMMA RangeOfAppend ==
    ASSUME NEW S, NEW s \in Seq(S), NEW x
    PROVE  x \in Range(Append(s, x)) /\ Range(s) \subseteq Range(Append(s, x))
<1> DEFINE a == Append(s, x)
<1>1. Len(s) \in Nat /\ DOMAIN s = 1..Len(s) /\ DOMAIN a = 1..(Len(s) + 1)
    OBVIOUS
<1>2. a[Len(s) + 1] = x /\ \A i \in 1..Len(s) : a[i] = s[i]
    OBVIOUS
<1> HIDE DEF a
<1>3. x \in Range(a) /\ Range(s) \subseteq Range(a)
    BY <1>1, <1>2 DEF Range
<1> QED
    BY <1>3 DEF a

LEMMA RangeOfRest ==
    ASSUME NEW S, NEW s \in Seq(S), s # <<>>, NEW x \in Range(s), x # Head(s)
    PROVE  x \in Range(Tail(s))
<1>1. Len(s) \in Nat \ {0} /\ Head(s) = s[1] /\ DOMAIN s = 1..Len(s)
    OBVIOUS
<1>2. PICK i \in 1..Len(s) : s[i] = x
    BY <1>1 DEF Range
<1>3. i # 1 /\ i - 1 \in 1..(Len(s) - 1)
    BY <1>1, <1>2
<1>4. DOMAIN Tail(s) = 1..(Len(s) - 1) /\ Tail(s)[i - 1] = s[i]
  <2>1. \A j \in 1..(Len(s) - 1) : Tail(s)[j] = s[j + 1]
      OBVIOUS
  <2>2. (i - 1) + 1 = i
      BY <1>2
  <2>3. DOMAIN Tail(s) = 1..(Len(s) - 1)
      OBVIOUS
  <2> QED
      BY <1>3, <2>1, <2>2, <2>3
<1> QED
    BY <1>2, <1>3, <1>4 DEF Range

LEMMA SmoothArrives ==
    ASSUME Bounded, Punctual, Smooth, smooth, NEW p \in Peers, Arrives(p)
    PROVE  Smooth'
<1> DEFINE b == Head(wire[p])
           place == Cardinality({c \in remaining : c <= b})
<1>0. TypeOK /\ round \in [end : Nat, size : Nat, received : Nat]
    BY DEF Bounded
<1>1. /\ wire[p] # <<>> /\ wire' = [wire EXCEPT ![p] = Tail(@)]
      /\ UNCHANGED <<conn, owing, pc, width, cursor, smooth, remaining>>
      /\ IF waiting[p] > 0 /\ b \in remaining
         THEN got' = Append(got, b) /\ round' = [round EXCEPT !.received = @ + 1]
         ELSE UNCHANGED <<got, round>>
    BY DEF Arrives, pool, scan
<1>2. got \in Seq(Blocks) /\ remaining \subseteq Blocks
    BY <1>0 DEF TypeOK
<1> HIDE DEF b
<1>3. Range(got) \subseteq Range(got')
  <2>1. got' = got \/ got' = Append(got, b)
      BY <1>1
  <2> QED
      BY <1>2, <2>1, RangeOfAppend
<1>4. CASE pc = "round"
    BY <1>1, <1>4 DEF Smooth
<1>5. CASE pc = "return"
    BY <1>1, <1>3, <1>5 DEF Smooth
<1>6. CASE pc = "collect"
  <2>1. /\ \A q \in Peers : conn[q] \in {"out", "listening"}
        /\ 0 < width /\ width <= Cardinality(Listening) * Quota
        /\ owing = {} /\ round.end <= Cardinality(remaining)
        /\ \A k \in 1..round.end : k \in Due \/ Nth(remaining, k) \in Range(got)
        /\ round.received + Cardinality(Due) >= round.size
      BY <1>6 DEF Smooth
  <2>2. \A q \in Peers : wire[q] \in Seq(remaining) /\ Len(wire[q]) <= waiting[q]
      BY <1>6, <2>1 DEF Punctual
  <2>3. waiting[p] > 0 /\ b \in remaining
    <3>1. waiting[p] \in Nat
        BY <1>0, Numbers DEF TypeOK
    <3> QED
        BY <1>1, <2>2, <3>1, RestStays DEF b
  <2>4. got' = Append(got, b) /\ round' = [round EXCEPT !.received = @ + 1]
      BY <1>1, <2>3
  <2>5. /\ round'.end = round.end /\ round'.size = round.size
        /\ round'.received = round.received + 1
      BY <1>0, <2>4
  <2>6. /\ \A q \in Peers : q # p => wire'[q] = wire[q]
        /\ wire'[p] = Tail(wire[p])
      BY <1>0, <1>1 DEF TypeOK
  <2>7. Due' = {k \in 1..round.end : \E q \in Peers : Nth(remaining, k) \in Range(wire'[q])}
      BY <1>1, <2>5 DEF Due
  <2>8. ASSUME NEW k \in Due, Nth(remaining, k) # b PROVE k \in Due'
    <3>1. PICK q \in Peers : Nth(remaining, k) \in Range(wire[q])
        BY DEF Due
    <3>2. Nth(remaining, k) \in Range(wire'[q])
      <4>1. CASE q # p
          BY <2>6, <3>1, <4>1
      <4>2. CASE q = p
        <5>1. Nth(remaining, k) # Head(wire[p])
            BY <2>8 DEF b
        <5> QED
            BY <1>1, <2>2, <2>6, <3>1, <4>2, <5>1, RangeOfRest
      <4> QED
          BY <4>1, <4>2
    <3>3. k \in 1..round.end
        BY DEF Due
    <3> QED
        BY <2>7, <3>2, <3>3
  <2>9. b \in Range(got')
      BY <1>2, <2>4, RangeOfAppend
  <2>10. \A k \in 1..round.end : k \in Due' \/ Nth(remaining, k) \in Range(got')
      BY <1>3, <2>1, <2>8, <2>9
  <2>11. Due \ {place} \subseteq Due'
    <3> SUFFICES ASSUME NEW k \in Due, k # place PROVE k \in Due'
        OBVIOUS
    <3>1. k \in 1..Cardinality(remaining)
        BY <1>0, <1>2, <2>1, BlocksAreFinite DEF Due
    <3>2. Cardinality({c \in remaining : c <= Nth(remaining, k)}) = k
        BY <1>2, <3>1, NthIsThere
    <3>3. Nth(remaining, k) # b
        BY <3>2
    <3> QED
        BY <2>8, <3>3
  <2> HIDE DEF place
  <2>12. Cardinality(Due') \in Nat /\ Cardinality(Due) - 1 <= Cardinality(Due')
    <3>1. IsFiniteSet(Due) /\ Cardinality(Due) \in Nat
        BY <1>0, DueIsFinite
    <3>2. IsFiniteSet(Due')
      <4>1. IsFiniteSet(1..round.end)
          BY <1>0, FS_Interval
      <4> QED
          BY <2>7, <4>1, FS_Subset
    <3>3. /\ IsFiniteSet(Due \ {place})
          /\ Cardinality(Due) - 1 <= Cardinality(Due \ {place})
          /\ Cardinality(Due \ {place}) \in Nat
      <4>1. /\ IsFiniteSet(Due \ {place})
            /\ Cardinality(Due \ {place}) =
                 IF place \in Due THEN Cardinality(Due) - 1 ELSE Cardinality(Due)
          BY <3>1, FS_RemoveElement
      <4>2. Cardinality(Due \ {place}) \in Nat
          BY <4>1, FS_CardinalityType
      <4> QED
          BY <3>1, <4>1, <4>2
    <3>4. Cardinality(Due \ {place}) <= Cardinality(Due')
        BY <2>11, <3>2, FS_Subset
    <3>5. Cardinality(Due') \in Nat
        BY <3>2, FS_CardinalityType
    <3> QED
        BY <3>1, <3>3, <3>4, <3>5
  <2>13. round'.received + Cardinality(Due') >= round'.size
    <3>1. Cardinality(Due) \in Nat
        BY <1>0, DueIsFinite
    <3> QED
        BY <1>0, <2>1, <2>5, <2>12, <3>1
  <2>14. Listening' = Listening
      BY <1>1 DEF Listening
  <2> QED
      BY <1>1, <1>6, <2>1, <2>5, <2>10, <2>13, <2>14 DEF Smooth
<1>7. CASE pc \notin {"round", "collect", "return"}
    BY <1>1, <1>7 DEF Smooth
<1> QED
    BY <1>4, <1>5, <1>6, <1>7

\* One step per action that a call in which nothing has failed can take.
LEMMA SmoothStep == Bounded /\ Punctual /\ Smooth /\ [Next]_vars => Smooth'
<1> SUFFICES ASSUME Bounded, Punctual, Smooth, [Next]_vars, smooth' PROVE Smooth'
    BY DEF Smooth
<1>1. CASE NextPage \/ Received \/ ReceivedNothing \/ Reconnect \/ EndPage
  <2>1. pc' \notin {"round", "collect", "return"}
      BY <1>1 DEF NextPage, Received, ReceivedNothing, Reconnect, EndPage
  <2> QED
      BY <2>1 DEF Smooth
<1>2. CASE BeginCall
  <2>1. pc' \in {"failed", "round"}
      BY <1>2 DEF BeginCall
  <2>2. pc' = "failed" => Smooth'
      BY DEF Smooth
  <2> QED
      BY <1>2, <2>1, <2>2, SmoothBeginCall
<1>3. CASE BeginRound
    BY <1>3, SmoothBeginRound
<1>4. CASE EndRound
    BY <1>4, SmoothEndRound
<1>5. CASE EndRounds
    BY <1>5, SmoothEndRounds
<1>6. ASSUME NEW p \in Peers, Arrives(p) PROVE Smooth'
  <2>1. smooth
      BY <1>6 DEF Arrives
  <2> QED
      BY <1>6, <2>1, SmoothArrives
<1>7. ListenersEnd \/ (\E p \in Peers : NeverComes(p)) => ~smooth'
    BY DEF ListenersEnd, NeverComes
<1>8. CASE UNCHANGED vars
  <2>1. /\ UNCHANGED <<conn, wire, owing, pc, width, cursor, got, round, smooth, remaining>>
      BY <1>8 DEF vars, pool, links, call, scan
  <2>2. Listening' = Listening /\ Due' = Due
      BY <2>1 DEF Listening, Due
  <2> QED
      BY <2>1, <2>2 DEF Smooth
<1> QED
    BY <1>1, <1>2, <1>3, <1>4, <1>5, <1>6, <1>7, <1>8 DEF Next, ScanStep

\* A call in which nothing fails, begun with a listener on every connection and no block
\* still on its way, gets every block it was to fetch, for any number of blocks, peers and
\* rounds: the quota of the peers is not less than a round, a round ends by its last block,
\* and every block has its turn.
THEOREM SmoothTheorem == Spec => []SmoothCallsGetAll
<1>1. Smooth => SmoothCallsGetAll
    BY DEF Smooth, SmoothCallsGetAll
<1>2. Inv /\ Bounded /\ Punctual /\ Smooth /\ [Next]_vars
        => (Inv /\ Bounded /\ Punctual /\ Smooth)'
    BY InvStep, BoundedStep, PunctualStep, SmoothStep
<1>3. Init => Inv /\ Bounded /\ Punctual /\ Smooth
    BY InvInit, BoundedInit, PunctualInit, SmoothInit
<1> QED
    BY <1>1, <1>2, <1>3, PTL DEF Spec

-----------------------------------------------------------------------------
(* The scan implements its promise.                                         *)

\* Blocks that remain are of one page.
Windowed == \A b, c \in remaining : b < c + Page

LEMMA WindowedInit == Init => Windowed
    BY DEF Init, Windowed

LEMMA WindowedStep == Inv /\ Windowed /\ [Next]_vars => Windowed'
<1> SUFFICES ASSUME Inv, Windowed, [Next]_vars PROVE Windowed'
    OBVIOUS
<1>1. CASE NextPage /\ offset < Top
  <2> DEFINE end == Min({offset + Page, Top})
  <2>1. offset \in Nat /\ Page \in Nat \ {0} /\ Top \in Nat
      BY Numbers DEF Inv, Divided
  <2>2. end \in Nat /\ end <= offset + Page
      BY <2>1, MinOfTwo
  <2>3. remaining' = (offset + 1)..end
      BY <1>1 DEF NextPage
  <2> HIDE DEF end
  <2> QED
      BY <2>1, <2>2, <2>3 DEF Windowed
<1>2. CASE remaining' \subseteq remaining
    BY <1>2 DEF Windowed
<1>3. \/ NextPage /\ offset < Top
      \/ remaining' \subseteq remaining
    BY DEF Next, ScanStep, NextPage, BeginCall, BeginRound, EndRound, EndRounds, Received,
           ReceivedNothing, Reconnect, EndPage, ListenersEnd, Arrives, NeverComes, vars, scan
<1> QED
    BY <1>1, <1>2, <1>3

\* What remains of the page may be settled next.
LEMMA RemainingIsAhead ==
    ASSUME Inv, Windowed
    PROVE  remaining \subseteq Scan!Ahead
<1>1. offset \in Nat /\ offset <= Top /\ Top \in Nat /\ Page \in Nat \ {0}
    BY Numbers DEF Inv, Divided
<1>2. /\ scanned \cup lost \cup remaining = 1..offset
      /\ remaining \cap (scanned \cup lost) = {}
    BY DEF Inv, Divided
<1> SUFFICES ASSUME NEW b \in remaining PROVE b \in Scan!Ahead
    OBVIOUS
<1>3. b \in 1..offset /\ b \in Scan!Pending
    BY <1>1, <1>2 DEF Scan!Pending
<1>4. ASSUME NEW c \in Scan!Pending PROVE b < c + Page
  <2>1. c \in 1..Top /\ (c \in remaining \/ c \notin 1..offset)
      BY <1>2 DEF Scan!Pending
  <2>2. CASE c \in remaining
      BY <2>2 DEF Windowed
  <2>3. CASE c \notin 1..offset
      BY <1>1, <1>3, <2>1, <2>3
  <2> QED
      BY <2>1, <2>2, <2>3
<1> QED
    BY <1>3, <1>4 DEF Scan!Ahead

Result == IF Ended THEN pc ELSE "running"

LEMMA StepKeepsPromise ==
    Inv /\ Windowed /\ [Next]_vars => [Scan!ScanNext]_<<scanned, lost, Result>>
<1> SUFFICES ASSUME Inv, Windowed, [Next]_vars
             PROVE  Scan!ScanNext \/ UNCHANGED <<scanned, lost, Result>>
    OBVIOUS
<1> USE DEF Result, Ended
<1>0. remaining \in SUBSET Scan!Ahead
    BY RemainingIsAhead
<1>1. CASE NextPage
  <2>1. pc = "page" /\ UNCHANGED <<scanned, lost>>
      BY <1>1 DEF NextPage
  <2>2. CASE offset < Top
      BY <1>1, <2>1, <2>2 DEF NextPage
  <2>3. CASE ~(offset < Top)
    <3>1. pc' = "done"
        BY <1>1, <2>3 DEF NextPage
    <3>2. offset = Top /\ remaining = {}
        BY <2>1, <2>3, Numbers DEF Inv, Divided, Holds
    <3>3. Scan!Pending = {}
        BY <3>2 DEF Inv, Divided, Scan!Pending
    <3> QED
        BY <2>1, <3>1, <3>3 DEF Scan!ScanNext, Scan!End
  <2> QED
      BY <2>2, <2>3
<1>2. CASE BeginCall
  <2>1. pc = "call" /\ UNCHANGED <<scanned, lost>> /\ pc' \in {"failed", "round"}
      BY <1>2 DEF BeginCall
  <2> QED
      BY <2>1 DEF Scan!ScanNext, Scan!End
<1>3. CASE Received
  <2>1. /\ pc = "return" /\ pc' = "call"
        /\ scanned' = scanned \cup Range(got) /\ lost' = lost
      BY <1>3 DEF Received
  <2>2. Range(got) \in SUBSET Scan!Ahead
      BY <1>0, RangeWithin DEF Inv, Holds
  <2>3. Scan!HandOn(Range(got))
      BY <2>1 DEF Scan!HandOn
  <2> QED
      BY <2>1, <2>2, <2>3 DEF Scan!ScanNext
<1>4. CASE EndPage \/ ReceivedNothing
  <2>1. /\ pc \in {"call", "return"} /\ pc' \in {"page", "call"} /\ scanned' = scanned
        /\ lost' \in {lost, lost \cup remaining}
      BY <1>4 DEF EndPage, ReceivedNothing
  <2>2. CASE lost' = lost
      BY <2>1, <2>2
  <2>3. CASE lost' = lost \cup remaining
    <3>1. Scan!GiveUp(remaining)
        BY <2>1, <2>3 DEF Scan!GiveUp
    <3> QED
        BY <1>0, <2>1, <3>1 DEF Scan!ScanNext
  <2> QED
      BY <2>1, <2>2, <2>3
<1>5. CASE BeginRound \/ EndRound \/ EndRounds \/ Reconnect
  <2>1. /\ pc \notin {"done", "failed"} /\ pc' \notin {"done", "failed"}
        /\ UNCHANGED <<scanned, lost>>
      BY <1>5 DEF BeginRound, Ask, EndRound, EndRounds, Reconnect, scan
  <2> QED
      BY <2>1
<1>6. CASE ListenersEnd \/ \E p \in Peers : Arrives(p) \/ NeverComes(p)
    BY <1>6 DEF ListenersEnd, Arrives, NeverComes, scan
<1>7. CASE UNCHANGED vars
    BY <1>7 DEF vars, scan
<1> QED
    BY <1>1, <1>2, <1>3, <1>4, <1>5, <1>6, <1>7 DEF Next, ScanStep

\* Through lost, late and doubled blocks each block is handed on or given up once, page
\* after page, and a scan that is done has settled every block.
THEOREM ScanImplements == Spec => ImplementsScan
<1>1. Init => Scan!ScanInit
    BY DEF Init, Scan!ScanInit, Ended
<1>2. Inv /\ Windowed /\ [Next]_vars =>
        [Scan!ScanNext]_<<scanned, lost, IF Ended THEN pc ELSE "running">>
    BY StepKeepsPromise DEF Result
<1>3. Inv /\ Windowed /\ [Next]_vars => (Inv /\ Windowed)'
    BY InvStep, WindowedStep
<1>4. Init => Inv /\ Windowed
    BY InvInit, WindowedInit
<1> QED
    BY <1>1, <1>2, <1>3, <1>4, PTL DEF Spec, ImplementsScan, Scan!ScanSpec

-----------------------------------------------------------------------------
(* How long a scan can take.                                                *)

\* What is left of a scan, the digits in order of weight: blocks not loaded yet; the scan
\* ended, between pages or in one; calls its page has left; and the way to the end of the
\* call, two steps for each block that is not behind the cursor.
Stage == IF Ended THEN 0 ELSE IF pc = "page" THEN 1 ELSE 2

Ahead == Cardinality(remaining) - cursor

Inside ==
    IF pc = "round" THEN 2 * Ahead + 2
    ELSE IF pc = "collect" THEN 2 * Ahead + 1
    ELSE IF pc = "return" THEN 1 ELSE 0

WorkFits ==
    /\ Top - offset \in 0..Top /\ Stage \in 0..2
    /\ Retries - retry \in 0..Retries /\ Inside \in 0..(2 * Page + 2)

WorkStays ==
    /\ offset' = offset /\ Stage' = Stage /\ retry' = retry /\ Inside' = Inside

LessWork ==
    \/ Top - offset' < Top - offset
    \/ /\ offset' = offset
       /\ \/ Stage' < Stage
          \/ /\ Stage' = Stage
             /\ \/ Retries - retry' < Retries - retry
                \/ retry' = retry /\ Inside' < Inside

\* The one step that gives work back: a reconnect that worked.
CallsBack == pc = "return" /\ retry' < retry

\* A round has a width, and its cursor is short of its end.
Going ==
    /\ pc = "round" => width \in Nat \ {0} /\ cursor <= Cardinality(remaining)
    /\ pc = "collect" => /\ width \in Nat \ {0} /\ cursor < round.end
                         /\ round.end <= Cardinality(remaining)

LEMMA HowMany ==
    ASSUME Bounded
    PROVE  /\ Cardinality(remaining) \in 0..Page /\ cursor \in Nat
           /\ offset \in 0..Top /\ retry \in 0..Retries
           /\ round.end \in Nat
<1>1. remaining \subseteq Blocks /\ cursor \in 0..Page /\ Cardinality(remaining) <= Page
      /\ offset \in 0..Top /\ retry \in 0..Retries /\ round.end \in Nat
    BY DEF Bounded, TypeOK
<1>2. Cardinality(remaining) \in Nat
    BY <1>1, BlocksAreFinite
<1> QED
    BY <1>1, <1>2, Numbers

LEMMA FitsWhileGoing ==
    ASSUME Bounded, Going
    PROVE  WorkFits
<1>1. /\ Cardinality(remaining) \in 0..Page /\ cursor \in Nat
      /\ offset \in 0..Top /\ retry \in 0..Retries /\ round.end \in Nat
    BY HowMany
<1>2. Inside \in 0..(2 * Page + 2)
    BY <1>1, Numbers DEF Inside, Ahead, Going
<1> QED
    BY <1>1, <1>2, Numbers DEF WorkFits, Stage

\* With a connection there is a width.
LEMMA WidthOfSome ==
    ASSUME NEW S \in SUBSET Peers, S # {}
    PROVE  Cardinality(S) * Quota \in Nat \ {0}
<1>1. Cardinality(S) \in Nat /\ Cardinality(S) # 0
    BY FetchAssumption, FS_Subset, FS_CardinalityType, FS_EmptySet
<1>2. \A m \in Nat \ {0}, q \in Nat \ {0} : m * q \in Nat \ {0}
    BY Z3
<1> QED
    BY <1>1, <1>2, Numbers

LEMMA GoingInit == Init => Going
    BY DEF Init, Going

LEMMA GoingStep == Bounded /\ Going /\ [Next]_vars => Going'
<1> SUFFICES ASSUME Bounded, Going, [Next]_vars PROVE Going'
    OBVIOUS
<1>0. /\ Cardinality(remaining) \in 0..Page /\ cursor \in Nat /\ round.end \in Nat
      /\ Page \in Nat
    BY HowMany, Numbers
<1>1. CASE pc' \in {"page", "call", "return", "done", "failed"}
    BY <1>1 DEF Going
<1>2. CASE BeginCall /\ pc' = "round"
  <2>1. PICK busy \in SUBSET Listening :
          LET connected == InPool(conn) \ busy
          IN  /\ connected # {}
              /\ width' = Cardinality(connected) * Quota
              /\ cursor' = 0 /\ remaining' = remaining
      BY <1>2 DEF BeginCall
  <2>2. InPool(conn) \ busy \in SUBSET Peers
      BY DEF InPool
  <2>3. width' \in Nat \ {0} /\ cursor' = 0 /\ remaining' = remaining
      BY <2>1, <2>2, WidthOfSome
  <2> QED
      BY <1>0, <1>2, <2>3 DEF Going
<1>3. CASE BeginRound /\ pc' = "collect"
  <2> DEFINE end == Min({cursor + width, Cardinality(remaining)})
  <2>0. \E asked, unsent : Ask(asked, unsent, end)
      BY <1>3 DEF BeginRound
  <2>1. /\ round'.end = end /\ pc = "round" /\ cursor < Cardinality(remaining)
        /\ UNCHANGED <<width, cursor, remaining>>
    <3>1. round' = [end |-> end, size |-> end - cursor, received |-> 0]
        BY <2>0 DEF Ask
    <3>2. /\ pc = "round" /\ cursor < Cardinality(remaining)
          /\ UNCHANGED <<width, cursor, scan>>
        BY <1>3 DEF BeginRound
    <3> QED
        BY <3>1, <3>2 DEF scan
  <2>2. width \in Nat \ {0}
      BY <2>1 DEF Going
  <2>3. cursor + width \in Nat /\ Cardinality(remaining) \in Nat
        /\ cursor < cursor + width
      BY <1>0, <2>2
  <2>4. end \in {cursor + width, Cardinality(remaining)} /\ end <= Cardinality(remaining)
      BY <2>3, MinOfTwo
  <2> HIDE DEF end
  <2>5. cursor < end
      BY <2>1, <2>3, <2>4
  <2> QED
      BY <1>3, <2>1, <2>2, <2>4, <2>5 DEF Going
<1>4. CASE EndRound /\ pc' = "round"
  <2>1. /\ pc = "collect" /\ cursor' = round.end /\ UNCHANGED <<width, remaining>>
      BY <1>4 DEF EndRound, scan
  <2> QED
      BY <1>4, <2>1 DEF Going
<1>5. CASE ListenersEnd
    BY <1>5 DEF ListenersEnd, scan, Going
<1>6. ASSUME NEW p \in Peers, NeverComes(p) PROVE Going'
    BY <1>6 DEF NeverComes, scan, Going
<1>7. ASSUME NEW p \in Peers, Arrives(p) PROVE Going'
  <2>1. UNCHANGED <<pc, width, cursor, remaining>>
      BY <1>7 DEF Arrives, scan
  <2>2. round'.end = round.end
      BY <1>7 DEF Arrives, Bounded
  <2> QED
      BY <2>1, <2>2 DEF Going
<1>8. CASE UNCHANGED vars
    BY <1>8 DEF vars, call, scan, Going
<1>9. ASSUME ScanStep
      PROVE  \/ pc' \in {"page", "call", "return", "done", "failed"}
             \/ BeginCall /\ pc' = "round"
             \/ BeginRound /\ pc' = "collect"
             \/ EndRound /\ pc' = "round"
  <2>1. BeginCall => pc' \in {"failed", "round"}
      BY DEF BeginCall
  <2>2. BeginRound => pc' \in {"return", "collect"}
      BY DEF BeginRound, Ask
  <2>3. EndRound => pc' \in {"round", "return"}
      BY DEF EndRound
  <2>4. NextPage \/ EndRounds \/ Received \/ ReceivedNothing \/ Reconnect \/ EndPage
        => pc' \in {"page", "call", "return", "done"}
      BY DEF NextPage, EndRounds, Received, ReceivedNothing, Reconnect, EndPage
  <2> QED
      BY <1>9, <2>1, <2>2, <2>3, <2>4 DEF ScanStep
<1> QED
    BY <1>1, <1>2, <1>3, <1>4, <1>5, <1>6, <1>7, <1>8, <1>9 DEF Next

\* One step per action.
LEMMA LessIsLeft ==
    ASSUME Bounded, Going, Bounded', Going', ScanStep
    PROVE  LessWork \/ CallsBack
<1>0. /\ Cardinality(remaining) \in 0..Page /\ cursor \in Nat
      /\ offset \in 0..Top /\ retry \in 0..Retries /\ round.end \in Nat
      /\ Page \in Nat /\ Top \in Nat /\ Retries \in Nat /\ ReconnectAt \in Nat
    BY HowMany, Numbers
<1>1. CASE NextPage
  <2>1. CASE offset < Top
    <3>1. offset' \in (offset + 1)..Top
        BY <1>0, <1>1, <2>1, PageEnd DEF NextPage
    <3>2. \A n \in (offset + 1)..Top : Top - n < Top - offset
        BY <1>0
    <3> QED
        BY <3>1, <3>2 DEF LessWork
  <2>2. CASE ~(offset < Top)
    <3>1. pc = "page" /\ pc' = "done" /\ offset' = offset
        BY <1>1, <2>2 DEF NextPage
    <3> QED
        BY <3>1 DEF LessWork, Stage, Ended
  <2> QED
      BY <2>1, <2>2
<1>2. CASE BeginCall
  <2>1. /\ pc = "call" /\ pc' \in {"failed", "round"} /\ retry' = retry + 1
        /\ offset' = offset
      BY <1>2 DEF BeginCall
  <2> QED
      BY <1>0, <2>1 DEF LessWork, Stage, Ended
<1>3. CASE BeginRound
  <2>1. /\ pc = "round" /\ pc' \in {"return", "collect"} /\ cursor < Cardinality(remaining)
        /\ UNCHANGED <<offset, retry, remaining, cursor>>
      BY <1>3 DEF BeginRound, Ask, scan
  <2>2. Inside' < Inside
      BY <1>0, <2>1 DEF Inside, Ahead
  <2> QED
      BY <2>1, <2>2 DEF LessWork, Stage, Ended
<1>4. CASE EndRound
  <2>1. /\ pc = "collect" /\ UNCHANGED <<offset, retry, remaining>>
        /\ \/ pc' = "round" /\ cursor' = round.end
           \/ pc' = "return"
      BY <1>4 DEF EndRound, scan
  <2>2. cursor < round.end /\ round.end <= Cardinality(remaining)
      BY <2>1 DEF Going
  <2>3. Inside' < Inside
      BY <1>0, <2>1, <2>2 DEF Inside, Ahead
  <2> QED
      BY <2>1, <2>3 DEF LessWork, Stage, Ended
<1>5. CASE EndRounds
  <2>1. pc = "round" /\ pc' = "return" /\ UNCHANGED <<offset, retry>>
      BY <1>5 DEF EndRounds, scan
  <2>2. Inside' < Inside
      BY <1>0, <2>1 DEF Inside, Ahead, Going
  <2> QED
      BY <2>1, <2>2 DEF LessWork, Stage, Ended
<1>6. CASE Received
  <2>1. pc = "return" /\ pc' = "call" /\ UNCHANGED <<offset, retry>>
      BY <1>6 DEF Received
  <2> QED
      BY <2>1 DEF LessWork, Stage, Ended, Inside
<1>7. CASE ReceivedNothing
  <2>1. pc = "return" /\ pc' \in {"call", "page"} /\ UNCHANGED <<offset, retry>>
      BY <1>7 DEF ReceivedNothing
  <2> QED
      BY <2>1 DEF LessWork, Stage, Ended, Inside
<1>8. CASE Reconnect
  <2>1. /\ pc = "return" /\ pc' = "call" /\ offset' = offset
        /\ \/ retry' = retry
           \/ retry' = retry - Min({retry, ReconnectAt})
      BY <1>8 DEF Reconnect
  <2>2. Min({retry, ReconnectAt}) \in {retry, ReconnectAt}
      BY <1>0, MinOfTwo
  <2>3. retry' = retry \/ retry' < retry
      BY <1>0, <2>1, <2>2
  <2> QED
      BY <2>1, <2>3 DEF LessWork, CallsBack, Stage, Ended, Inside
<1>9. CASE EndPage
  <2>1. pc = "call" /\ pc' = "page" /\ offset' = offset
      BY <1>9 DEF EndPage
  <2> QED
      BY <2>1 DEF LessWork, Stage, Ended
<1> QED
    BY <1>1, <1>2, <1>3, <1>4, <1>5, <1>6, <1>7, <1>8, <1>9 DEF ScanStep

\* Neither peers nor connections add to what is left of a scan.
LEMMA NothingIsAdded ==
    ASSUME ListenersEnd \/ (\E p \in Peers : Arrives(p) \/ NeverComes(p)) \/ UNCHANGED vars
    PROVE  WorkStays
<1>1. UNCHANGED <<pc, cursor, offset, remaining, retry>>
    BY DEF ListenersEnd, Arrives, NeverComes, vars, call, scan
<1> QED
    BY <1>1 DEF WorkStays, Stage, Ended, Inside, Ahead

\* The safety core of ScanEndsUnlessDeaf: every step of a scan takes away from a
\* measure that is bounded from the beginning, whatever peers and connections do,
\* unless it is a reconnect that worked. A scan that does not end reconnects for ever.
THEOREM ScanIsBounded ==
    Spec => /\ []WorkFits
            /\ [][/\ ScanStep => LessWork \/ CallsBack
                  /\ ~ScanStep => WorkStays]_vars
<1>1. Bounded /\ Going => WorkFits
    BY FitsWhileGoing
<1>2. Bounded /\ Going /\ Bounded' /\ Going' /\ [Next]_vars
      => [/\ ScanStep => LessWork \/ CallsBack
          /\ ~ScanStep => WorkStays]_vars
    BY LessIsLeft, NothingIsAdded DEF Next
<1>3. Inv /\ Bounded /\ Going /\ [Next]_vars => (Inv /\ Bounded /\ Going)'
    BY InvStep, BoundedStep, GoingStep
<1>4. Init => Inv /\ Bounded /\ Going
    BY InvInit, BoundedInit, GoingInit
<1> QED
    BY <1>1, <1>2, <1>3, <1>4, PTL DEF Spec
=============================================================================
