-------------------------- MODULE HeaderSync_proofs --------------------------
(***************************************************************************)
(* For any block tree, any peers and any limits: what is stored is linked, *)
(* and a sync leaves the headers Depth below its start alone.              *)
(*                                                                         *)
(* What makes Linked inductive is that the stored and the pending rows     *)
(* together are linked, that both lie below the current height, and that   *)
(* the locator is the last of them; a cut and a fail-over keep all three.  *)
(***************************************************************************)
EXTENDS HeaderSync, FiniteSetTheorems, TLAPS

\* The stored and the given rows, together.
Overlay(rows) == [h \in Heights |-> Over(rows, h)]

LinkedRows(rows) ==
    \A h \in Heights \ {0} :
        rows[h] # NoHash /\ rows[h - 1] # NoHash => rows[h - 1] = Prev(rows[h])

BelowCur == \A h \in Heights : h >= cur => stored[h] = NoHash /\ pending[h] = NoHash

\* The hash the next request names is that of the row below the current height.
LocatorIsLast ==
    IF lastKnown = NoHash THEN pending = NoRows
    ELSE /\ cur > 0 /\ cur - 1 \in Heights
         /\ \/ pending[cur - 1] = lastKnown
            \/ pending = NoRows /\ stored[cur - 1] = lastKnown

Shallow ==
    /\ cur + Depth > start
    /\ ~retried => cur >= start
    /\ \A h \in Heights : pending[h] # NoHash => h + Depth > start

Inv ==
    /\ TypeOK /\ Linked
    /\ IF pc = "running"
       THEN BelowCur /\ LinkedRows(Overlay(pending)) /\ LocatorIsLast /\ Shallow
       ELSE pending = NoRows /\ lastKnown = NoHash

-----------------------------------------------------------------------------
(* Numbers and blocks.                                                      *)

\* A set of naturals has a least element.
LEMMA Least ==
    ASSUME NEW b \in Nat, NEW S, S \subseteq 0 .. b, S # {}
    PROVE  \E h \in S : \A g \in S : h <= g
<1> DEFINE Below(h) == {k \in 0 .. b : k < h}
           T == {Below(h) : h \in S}
           R == StrictSubsetOrdering(0 .. b)
<1>1. T \subseteq FiniteSubsetsOf(0 .. b)
  <2>1. IsFiniteSet(0 .. b)
      BY FS_Interval
  <2> QED
      BY <2>1, FS_FiniteSubsetsOfFinite
<1>2. T # {}
    OBVIOUS
<1>3. PICK x \in T : \A y \in T : ~(<<y, x>> \in R)
    BY <1>1, <1>2, FS_StrictSubsetOrderingWellFounded, WFMin
<1>4. PICK h \in S : x = Below(h)
    OBVIOUS
<1>5. ASSUME NEW g \in S, ~(h <= g)
      PROVE  <<Below(g), x>> \in R
    BY <1>4, <1>5 DEF StrictSubsetOrdering
<1> QED
    BY <1>3, <1>5

LEMMA OnIsABlock ==
    ASSUME NEW b \in Branches, NEW h \in 0 .. MaxTip
    PROVE  On(b, h) \in Blocks /\ On(b, h) # NoHash
BY HeaderAssumption DEF Blocks, On

LEMMA BlockShape ==
    ASSUME NEW x \in Blocks
    PROVE  /\ x[1] \in 0 .. MaxTip /\ x[2] \in Branches
           /\ x # NoHash /\ On(x[2], x[1]) = x
BY HeaderAssumption DEF Blocks, On

\* The chain of a branch is linked.
LEMMA PrevOfOn ==
    ASSUME NEW b \in Branches, NEW h \in Nat \ {0}
    PROVE  Prev(On(b, h)) = On(b, h - 1)
BY HeaderAssumption DEF Prev, On

\* The height after the last row.
LEMMA NextHeightIsFree ==
    ASSUME TypeOK
    PROVE  /\ NextHeight \in 0 .. MaxHeight + 1
           /\ \A k \in Heights : k >= NextHeight => stored[k] = NoHash
           /\ NextHeight > 0 => stored[NextHeight - 1] # NoHash
<1> DEFINE Free == {h \in 0 .. MaxHeight + 1 :
                      \A k \in Heights : k >= h => stored[k] = NoHash}
<1>1. MaxHeight + 1 \in Free /\ MaxHeight + 1 \in Nat
    BY HeaderAssumption DEF Heights
<1>2. PICK m \in Free : \A g \in Free : m <= g
    BY <1>1, Least
<1>3. m > 0 => stored[m - 1] # NoHash
  <2> SUFFICES ASSUME m > 0, stored[m - 1] = NoHash
               PROVE  FALSE
      OBVIOUS
  <2>1. m - 1 \in Free
      BY <1>2, HeaderAssumption DEF Heights
  <2> QED
      BY <1>2, <2>1, HeaderAssumption
<1>4. \E h \in 0 .. MaxHeight + 1 :
        /\ \A k \in Heights : k >= h => stored[k] = NoHash
        /\ h > 0 => stored[h - 1] # NoHash
    BY <1>2, <1>3
<1> QED
    BY <1>4 DEF NextHeight

\* Storing rows adds them and takes away their blocks elsewhere.
LEMMA FlushedRows ==
    ASSUME TypeOK, NEW rows \in Rows
    PROVE  /\ Overlay(rows) \in Rows /\ Flushed(rows) \in Rows
           /\ \A h \in Heights :
                /\ rows[h] # NoHash => Flushed(rows)[h] = rows[h]
                /\ Flushed(rows)[h] \in {NoHash, Overlay(rows)[h]}
BY DEF TypeOK, Rows, Overlay, Over, Flushed

\* With no rows given there is nothing to add.
LEMMA OverlayNothing ==
    ASSUME stored \in Rows
    PROVE  Overlay(NoRows) = stored /\ Flushed(NoRows) = stored
BY DEF Overlay, Over, Flushed, NoRows, Rows

LEMMA LinkedAfterFlush ==
    ASSUME TypeOK, NEW rows \in Rows, LinkedRows(Overlay(rows))
    PROVE  LinkedRows(Flushed(rows))
<1> SUFFICES ASSUME NEW h \in Heights \ {0},
                    Flushed(rows)[h] # NoHash, Flushed(rows)[h - 1] # NoHash
             PROVE  Flushed(rows)[h - 1] = Prev(Flushed(rows)[h])
    BY DEF LinkedRows
<1>1. h \in Heights /\ h - 1 \in Heights
    BY HeaderAssumption DEF Heights
<1> QED
    BY <1>1, FlushedRows DEF LinkedRows

\* The order of a connection has no more places than there are peers.
LEMMA OrderIsFinite ==
    ASSUME TypeOK
    PROVE  \E n \in 0 .. Cardinality(Peers) :
             /\ n \in Nat /\ Usable \subseteq 1 .. n
             /\ Usable # {} => ranked \in [1 .. n -> Peers]
<1>1. Cardinality(Peers) \in Nat
    BY HeaderAssumption, FS_CardinalityType
<1>2. CASE ranked = <<>>
    BY <1>1, <1>2 DEF Usable
<1>3. CASE ranked \in Orders
  <2>1. PICK n \in 2 .. Cardinality(Peers) : ranked \in [1 .. n -> Peers]
      BY <1>3 DEF Orders
  <2> QED
      BY <1>1, <2>1 DEF Usable
<1> QED
    BY <1>2, <1>3 DEF TypeOK

LEMMA ChosenIsAPeer ==
    ASSUME TypeOK, Usable # {}
    PROVE  Chosen \in Peers /\ tip[Chosen] \in Blocks
<1>1. PICK n \in Nat : ranked \in [1 .. n -> Peers] /\ Usable \subseteq 1 .. n
    BY OrderIsFinite
<1>2. Usable \subseteq 0 .. n
    BY <1>1
<1>3. \E i \in Usable : \A j \in Usable : i <= j
    BY <1>2, Least
<1>4. Chosen \in Peers
    BY <1>1, <1>2, <1>3 DEF Chosen
<1> QED
    BY <1>4 DEF TypeOK

-----------------------------------------------------------------------------
(* A batch.                                                                 *)

LEMMA LocatorType ==
    ASSUME TypeOK, cur <= target
    PROVE  Locator \in Blocks \cup {NoHash}
BY HeaderAssumption DEF TypeOK, Locator, Heights, Rows

\* The rows of an answer: they start at the current height, end by the target,
\* hold blocks and are linked.
LEMMA BatchIsLinked ==
    ASSUME TypeOK, cur <= target, NEW t \in Blocks, ~AnswerIsEmpty(t)
    PROVE  /\ BatchEnd(t) \in Heights /\ cur <= BatchEnd(t)
           /\ Batch(t) \in Rows
           /\ \A h \in Heights :
                /\ h \notin cur .. BatchEnd(t) => Batch(t)[h] = NoHash
                /\ h \in cur .. BatchEnd(t) => Batch(t)[h] # NoHash
                /\ h \in cur + 1 .. BatchEnd(t) => Prev(Batch(t)[h]) = Batch(t)[h - 1]
           /\ ~Discontinuous(t) /\ Locator # NoHash => Prev(Batch(t)[cur]) = Locator
<1>1. t[1] \in 0 .. MaxTip /\ t[2] \in Branches
    BY BlockShape
<1>2. AnswerStart(t) \in Nat \ {0}
  <2>1. Locator # NoHash => Locator[1] \in Nat
      BY LocatorType, BlockShape, HeaderAssumption
  <2> QED
      BY <2>1 DEF AnswerStart, OnChainOf
<1>3. /\ AnswerEnd(t) \in Nat
      /\ AnswerStart(t) <= AnswerEnd(t) /\ AnswerEnd(t) <= t[1]
    BY <1>1, <1>2, HeaderAssumption DEF AnswerEnd, AnswerIsEmpty
<1>4. cur \in Nat /\ target \in Heights /\ target \in Nat
    BY HeaderAssumption DEF TypeOK, Heights
<1>5. /\ BatchEnd(t) \in Heights /\ cur <= BatchEnd(t)
      /\ BatchEnd(t) <= cur + (AnswerEnd(t) - AnswerStart(t))
    BY <1>2, <1>3, <1>4, HeaderAssumption DEF BatchEnd, Heights
<1>6. ASSUME NEW h \in cur .. BatchEnd(t)
      PROVE  /\ h \in Heights
             /\ AnswerStart(t) + (h - cur) \in 0 .. MaxTip
             /\ AnswerStart(t) + (h - cur) \in Nat \ {0}
    BY <1>1, <1>2, <1>3, <1>4, <1>5, <1>6, HeaderAssumption DEF Heights
<1>7. ASSUME NEW h \in cur .. BatchEnd(t)
      PROVE  /\ Batch(t)[h] = On(t[2], AnswerStart(t) + (h - cur))
             /\ Batch(t)[h] \in Blocks /\ Batch(t)[h] # NoHash
  <2>1. Batch(t)[h] = On(t[2], AnswerStart(t) + (h - cur))
      BY <1>6 DEF Batch
  <2> QED
      BY <2>1, <1>1, <1>6, OnIsABlock
<1>8. Batch(t) \in Rows
    BY <1>7 DEF Batch, Rows
<1>9. ASSUME NEW h \in cur + 1 .. BatchEnd(t)
      PROVE  Prev(Batch(t)[h]) = Batch(t)[h - 1]
  <2>1. h \in cur .. BatchEnd(t) /\ h - 1 \in cur .. BatchEnd(t)
      BY <1>4, <1>5 DEF Heights
  <2>2. (AnswerStart(t) + (h - cur)) - 1 = AnswerStart(t) + ((h - 1) - cur)
      BY <1>2, <1>4, <2>1
  <2>3. Prev(On(t[2], AnswerStart(t) + (h - cur)))
            = On(t[2], (AnswerStart(t) + (h - cur)) - 1)
      BY <1>1, <1>6, <2>1, PrevOfOn
  <2> QED
      BY <1>7, <2>1, <2>2, <2>3
<1>10. ~Discontinuous(t) /\ Locator # NoHash => Prev(Batch(t)[cur]) = Locator
  <2>1. cur \in cur .. BatchEnd(t) /\ AnswerStart(t) + (cur - cur) = AnswerStart(t)
      BY <1>2, <1>4, <1>5 DEF Heights
  <2> QED
      BY <1>7, <2>1 DEF Discontinuous
<1> QED
    BY <1>5, <1>7, <1>8, <1>9, <1>10 DEF Batch

-----------------------------------------------------------------------------
(* Every step keeps the invariant.                                          *)

LEMMA Initially == Init => Inv
<1> SUFFICES ASSUME Init PROVE Inv
    OBVIOUS
<1> USE HeaderAssumption DEF Init
<1>1. PICK rows \in InitialStores :
        stored = [h \in Heights |-> IF h \in rows THEN On(Main, h) ELSE NoHash]
    OBVIOUS
<1>2. TypeOK
  <2>1. stored \in Rows
      BY <1>1, OnIsABlock DEF Rows
  <2> QED
      BY <2>1 DEF TypeOK, NoRows, Rows, Heights
<1>3. Linked
  <2> SUFFICES ASSUME NEW h \in Heights \ {0}, stored[h] # NoHash, stored[h - 1] # NoHash
               PROVE  stored[h - 1] = Prev(stored[h])
      BY DEF Linked
  <2>1. stored[h] = On(Main, h) /\ stored[h - 1] = On(Main, h - 1)
      BY <1>1 DEF Heights
  <2> QED
      BY <2>1, PrevOfOn DEF Heights
<1> QED
    BY <1>2, <1>3 DEF Inv

\* The end of a sync, its pending rows stored or lost.
LEMMA ResetKeepsInv ==
    ASSUME Inv, pc = "running", Reset, UNCHANGED tip,
           stored' = stored \/ stored' = Flushed(pending),
           moves' \in 0 .. MaxMoves, faults' \in 0 .. MaxFaults
    PROVE  Inv'
<1>1. Flushed(pending) \in Rows /\ LinkedRows(Flushed(pending))
    BY FlushedRows, LinkedAfterFlush DEF Inv, TypeOK
<1>2. TypeOK'
  <2>1. stored' \in Rows /\ NoRows \in Rows
      BY <1>1 DEF Inv, TypeOK, NoRows, Rows
  <2>2. 0 \in Heights /\ 0 \in 0 .. MaxHeight + 1 /\ 0 \in 0 .. MaxReconnects
      BY HeaderAssumption DEF Heights
  <2> QED
      BY <2>1, <2>2 DEF Inv, TypeOK, Reset
<1>3. Linked'
    BY <1>1 DEF Inv, Linked, LinkedRows
<1> QED
    BY <1>2, <1>3 DEF Inv, Reset

LEMMA StartKeepsInv ==
    ASSUME Inv, StartSync
    PROVE  Inv'
<1> USE HeaderAssumption DEF Inv, StartSync
<1>1. NextHeight \in 0 .. MaxHeight + 1 /\ target' \in Heights /\ ranked' \in Orders
      /\ NextHeight <= target'
    BY NextHeightIsFree DEF Targets
<1>2. TypeOK'
    BY <1>1 DEF TypeOK, Heights
<1>3. BelowCur'
    BY NextHeightIsFree DEF BelowCur, NoRows
<1>4. Overlay(pending)' = stored
    BY DEF Overlay, Over, NoRows, TypeOK, Rows
<1>5. Linked' /\ LinkedRows(Overlay(pending))'
    BY <1>4 DEF Linked, LinkedRows
<1>6. LocatorIsLast'
    BY DEF LocatorIsLast, NoRows
<1>7. Shallow'
  <2>1. start' = NextHeight /\ cur' = NextHeight /\ pending' = pending
      OBVIOUS
  <2>2. NextHeight \in Nat /\ Depth \in Nat \ {0}
      BY <1>1
  <2>3. \A h \in Heights : pending[h] = NoHash
      BY DEF NoRows
  <2> QED
      BY ONLY <2>1, <2>2, <2>3 DEF Shallow
<1> QED
    BY <1>2, <1>3, <1>5, <1>6, <1>7

LEMMA FailKeepsInv ==
    ASSUME Inv, PeerFails \/ RejectPeer
    PROVE  Inv'
<1>1. Chosen \in Peers
    BY ChosenIsAPeer DEF Inv, PeerFails, RejectPeer, Asking
<1>2. /\ failed' = failed \cup {Chosen} /\ faults' \in 0 .. MaxFaults
      /\ UNCHANGED <<stored, tip, pc, start, target, cur, pending, lastKnown, ranked,
                     retried, reconnects, moves>>
  <2>1. CASE PeerFails
      BY <2>1, HeaderAssumption DEF Inv, TypeOK, PeerFails
  <2>2. CASE RejectPeer
      BY <2>2 DEF Inv, TypeOK, RejectPeer
  <2> QED
      BY <2>1, <2>2
<1>3. TypeOK'
    BY <1>1, <1>2 DEF Inv, TypeOK
<1> QED
    BY <1>2, <1>3
    DEF Inv, Linked, LinkedRows, Overlay, Over, BelowCur, LocatorIsLast, Shallow

LEMMA CutKeepsInv ==
    ASSUME Inv, CutBack
    PROVE  Inv'
<1> USE HeaderAssumption DEF Inv, CutBack, Asking
<1> DEFINE to == IF cur > Depth THEN cur - Depth ELSE 0
<1>1. /\ cur \in Nat /\ start \in Nat /\ target \in Heights /\ cur <= target
      /\ ~retried /\ cur >= start
    BY DEF TypeOK, Heights, Shallow
<1>2. cur > 0
    BY <1>1 DEF Discontinuous, Locator, LocatorIsLast
<1>3. to \in Nat /\ to < cur /\ to + Depth >= cur
    BY <1>1, <1>2
<1>4. /\ stored' = Truncated(to) /\ cur' = to + 1 /\ pending' = NoRows
      /\ lastKnown' = NoHash /\ retried' = TRUE /\ pc' = "running" /\ start' = start
    OBVIOUS
<1> HIDE DEF to
<1>5. TypeOK'
  <2>1. Truncated(to) \in Rows
      BY DEF TypeOK, Truncated, Rows
  <2> QED
      BY <1>1, <1>3, <1>4, <2>1 DEF TypeOK, NoRows, Rows, Heights
<1>6. Linked'
  <2>1. ASSUME NEW h \in Heights \ {0}
        PROVE  Truncated(to)[h] # NoHash =>
                 /\ Truncated(to)[h] = stored[h]
                 /\ Truncated(to)[h - 1] = stored[h - 1]
      BY <1>3 DEF Truncated, Heights
  <2> QED
      BY <1>4, <2>1 DEF Linked
<1>7. Overlay(pending)' = stored'
    BY <1>4, <1>5 DEF Overlay, Over, NoRows, TypeOK, Rows
<1>8. LinkedRows(Overlay(pending))'
    BY <1>6, <1>7 DEF Linked, LinkedRows
<1>9. BelowCur'
    BY <1>3, <1>4 DEF BelowCur, Truncated, NoRows, Heights
<1>10. LocatorIsLast'
    BY <1>4 DEF LocatorIsLast
<1>11. Shallow'
    BY <1>1, <1>3, <1>4 DEF Shallow, NoRows
<1> QED
    BY <1>4, <1>5, <1>6, <1>8, <1>9, <1>10, <1>11

LEMMA AcceptKeepsInv ==
    ASSUME Inv, AcceptBatch
    PROVE  Inv'
<1> DEFINE t == tip[Chosen]
           last == BatchEnd(t)
           all == [h \in Heights |-> IF h \in cur .. last THEN Batch(t)[h]
                                     ELSE pending[h]]
<1> USE HeaderAssumption
<1>1. /\ TypeOK /\ Linked /\ BelowCur /\ LinkedRows(Overlay(pending))
      /\ LocatorIsLast /\ Shallow /\ cur <= target /\ t \in Blocks /\ ~AnswerIsEmpty(t)
      /\ ~Discontinuous(t)
    BY ChosenIsAPeer DEF Inv, AcceptBatch, Asking
<1>2. /\ cur' = last + 1 /\ lastKnown' = Batch(t)[last]
      /\ \/ stored' = Flushed(all) /\ pending' = NoRows
         \/ stored' = stored /\ pending' = all
      /\ UNCHANGED <<tip, pc, start, target, ranked, failed, retried, reconnects,
                     moves, faults>>
      /\ pc = "running"
    BY DEF AcceptBatch, Asking
<1> HIDE DEF t
<1>3. /\ last \in Heights /\ cur <= last /\ Batch(t) \in Rows
      /\ \A h \in Heights :
           /\ h \in cur .. last => Batch(t)[h] # NoHash
           /\ h \in cur + 1 .. last => Prev(Batch(t)[h]) = Batch(t)[h - 1]
      /\ Locator # NoHash => Prev(Batch(t)[cur]) = Locator
    BY <1>1, BatchIsLinked
<1>4. cur \in Nat /\ last \in Nat /\ start \in Nat
    BY <1>1, <1>3 DEF TypeOK, Heights
<1> HIDE DEF last
<1>5. /\ all \in Rows /\ Overlay(all) \in Rows /\ Flushed(all) \in Rows
      /\ \A h \in Heights : /\ all[h] # NoHash => Flushed(all)[h] = all[h]
                            /\ Flushed(all)[h] \in {NoHash, Overlay(all)[h]}
  <2>1. all \in Rows
      BY <1>1, <1>3 DEF TypeOK, Rows
  <2> QED
      BY <1>1, <2>1, FlushedRows
<1>6. TypeOK'
  <2>1. Batch(t)[last] \in Blocks \cup {NoHash}
      BY <1>3 DEF Rows
  <2>2. cur' \in 0 .. MaxHeight + 1
      BY <1>2, <1>3, <1>4 DEF Heights
  <2>3. stored' \in Rows /\ pending' \in Rows
    <3>1. NoRows \in Rows /\ stored \in Rows
        BY <1>1 DEF TypeOK, NoRows, Rows
    <3> QED
        BY <1>2, <1>5, <3>1
  <2> QED
      BY <1>1, <1>2, <2>1, <2>2, <2>3 DEF TypeOK
\* The rows stored and pending afterwards, together.
<1>7. \A h \in Heights :
        Overlay(all)[h] = IF h \in cur .. last THEN Batch(t)[h] ELSE Overlay(pending)[h]
    BY <1>3, <1>5 DEF Overlay, Over
<1>8. \A h \in Heights : h >= cur => Overlay(pending)[h] = NoHash
    BY <1>1 DEF BelowCur, Overlay, Over
<1>9. cur > 0 => Overlay(pending)[cur - 1] = Locator
  <2>1. ASSUME cur > 0 PROVE cur - 1 \in Heights
      BY <2>1, <1>3, <1>4 DEF Heights
  <2>2. CASE lastKnown = NoHash
      BY <1>1, <2>1, <2>2 DEF LocatorIsLast, Locator, Overlay, Over, NoRows
  <2>3. CASE lastKnown # NoHash
      BY <1>1, <2>1, <2>3 DEF LocatorIsLast, Locator, Overlay, Over, NoRows
  <2> QED
      BY <2>2, <2>3
<1>10. LinkedRows(Overlay(all))
  <2> SUFFICES ASSUME NEW h \in Heights \ {0},
                      Overlay(all)[h] # NoHash, Overlay(all)[h - 1] # NoHash
               PROVE  Overlay(all)[h - 1] = Prev(Overlay(all)[h])
      BY DEF LinkedRows
  <2>1. h \in Nat /\ h > 0 /\ h - 1 \in Heights
      BY DEF Heights
  <2> HIDE DEF all
  <2>2. CASE h > last
      <3>1. Overlay(all)[h] = NoHash
          BY <1>3, <1>4, <1>7, <1>8, <2>1, <2>2
      <3> QED
          BY <3>1
  <2>3. CASE h \in cur + 1 .. last
      <3>1. h \in cur .. last /\ h - 1 \in cur .. last
          BY <1>4, <2>1, <2>3
      <3> QED
          BY <1>3, <1>7, <2>1, <2>3, <3>1
  <2>4. CASE h = cur
      <3>1. h \in cur .. last /\ h - 1 \notin cur .. last
          BY <1>3, <1>4, <2>1, <2>4
      <3>2. Overlay(all)[h - 1] = Locator /\ Overlay(all)[h] = Batch(t)[cur]
          BY <1>7, <1>9, <2>1, <2>4, <3>1
      <3> QED
          BY <1>3, <3>2
  <2>5. CASE h < cur
      <3>1. h \notin cur .. last /\ h - 1 \notin cur .. last
          BY <1>4, <2>1, <2>5
      <3> QED
          BY <1>1, <1>7, <2>1, <3>1 DEF LinkedRows
  <2> QED
      BY <1>4, <2>1, <2>2, <2>3, <2>4, <2>5
<1>11. LinkedRows(Flushed(all))
    BY <1>1, <1>5, <1>10, LinkedAfterFlush
<1>12. LinkedRows(Overlay(pending))' /\ Linked'
  <2>1. CASE stored' = Flushed(all) /\ pending' = NoRows
    <3>1. Overlay(pending)' = Flushed(all)
        BY <2>1, <1>5 DEF Overlay, Over, NoRows, Rows
    <3> QED
        BY <1>11, <2>1, <3>1 DEF LinkedRows, Linked
  <2>2. CASE stored' = stored /\ pending' = all
    <3>1. Overlay(pending)' = Overlay(all)
        BY <2>2 DEF Overlay, Over
    <3> QED
        BY <1>1, <1>10, <2>2, <3>1 DEF LinkedRows, Linked
  <2> QED
      BY <1>2, <2>1, <2>2
<1>13. BelowCur'
  <2>1. ASSUME NEW h \in Heights, h >= last + 1
        PROVE  stored[h] = NoHash /\ all[h] = NoHash /\ Overlay(all)[h] = NoHash
    <3>1. stored[h] = NoHash /\ pending[h] = NoHash /\ h \notin cur .. last
        BY <1>1, <1>3, <1>4, <2>1 DEF BelowCur, Heights
    <3> QED
        BY <3>1 DEF Overlay, Over
  <2> QED
      BY <1>2, <1>5, <2>1 DEF BelowCur, NoRows
<1>14. LocatorIsLast'
  <2>1. last \in cur .. last /\ cur' - 1 = last /\ cur' > 0
      BY <1>2, <1>3, <1>4
  <2>2. lastKnown' = Batch(t)[last] /\ lastKnown' # NoHash /\ all[last] = lastKnown'
      BY <1>2, <1>3, <2>1
  <2>3. CASE stored' = Flushed(all) /\ pending' = NoRows
      BY <1>3, <1>5, <2>1, <2>2, <2>3 DEF LocatorIsLast
  <2>4. CASE stored' = stored /\ pending' = all
      BY <1>3, <2>1, <2>2, <2>4 DEF LocatorIsLast
  <2> QED
      BY <1>2, <2>3, <2>4
<1>15. Shallow'
  <2>1. ASSUME NEW h \in Heights, pending'[h] # NoHash
        PROVE  h + Depth > start
    <3>1. CASE pending[h] # NoHash
        BY <1>1, <3>1 DEF Shallow
    <3>2. CASE h \in cur .. last
        BY <1>1, <1>4, <3>2 DEF Shallow
    <3> QED
        BY <1>2, <2>1, <3>1, <3>2 DEF NoRows
  <2> QED
      BY <1>1, <1>2, <1>3, <1>4, <2>1 DEF Shallow
<1> QED
    BY <1>2, <1>6, <1>12, <1>13, <1>14, <1>15 DEF Inv

LEMMA ReconnectKeepsInv ==
    ASSUME Inv, Reconnect
    PROVE  Inv'
<1> USE DEF Inv, Reconnect, Exhausted
<1>1. /\ Flushed(pending) \in Rows /\ LinkedRows(Flushed(pending))
      /\ \A h \in Heights :
           /\ pending[h] # NoHash => Flushed(pending)[h] = pending[h]
           /\ Flushed(pending)[h] \in {NoHash, Overlay(pending)[h]}
    BY FlushedRows, LinkedAfterFlush DEF TypeOK
<1>2. TypeOK'
    BY <1>1, HeaderAssumption DEF TypeOK, NoRows, Rows
<1>3. Overlay(pending)' = Flushed(pending)
    BY <1>1 DEF Overlay, Over, NoRows, Rows
<1>4. Linked' /\ LinkedRows(Overlay(pending))'
    BY <1>1, <1>3 DEF Linked, LinkedRows
<1>5. BelowCur'
  <2>1. \A h \in Heights : h >= cur => Overlay(pending)[h] = NoHash
      BY DEF BelowCur, Overlay, Over
  <2> QED
      BY <1>1, <2>1 DEF BelowCur, NoRows
<1>6. LocatorIsLast'
  <2>1. CASE pending = NoRows
      BY <2>1, OverlayNothing DEF LocatorIsLast, TypeOK
  <2>2. CASE pending # NoRows
      BY <1>1, <2>2 DEF LocatorIsLast
  <2> QED
      BY <2>1, <2>2
<1>7. Shallow'
    BY DEF Shallow, NoRows
<1> QED
    BY <1>2, <1>4, <1>5, <1>6, <1>7

LEMMA Preserved == Inv /\ [Next]_vars => Inv'
<1> SUFFICES ASSUME Inv, [Next]_vars PROVE Inv'
    OBVIOUS
<1>1. CASE \E p \in Peers : NodeMoves(p)
  <2>1. TypeOK'
      BY <1>1, HeaderAssumption DEF Inv, TypeOK, NodeMoves, local
  <2> QED
      BY <1>1, <2>1 DEF Inv, NodeMoves, local, Linked, LinkedRows, Overlay, Over,
          BelowCur, LocatorIsLast, Shallow
<1>2. CASE StartSync
    BY <1>2, StartKeepsInv
<1>3. CASE PeerFails \/ RejectPeer
    BY <1>3, FailKeepsInv
<1>4. CASE NothingMore \/ GiveUp \/ Finish \/ Abort
    BY <1>4, ResetKeepsInv, HeaderAssumption
    DEF NothingMore, GiveUp, Finish, Abort, Asking, Exhausted, Inv, TypeOK
<1>5. CASE CutBack
    BY <1>5, CutKeepsInv
<1>6. CASE AcceptBatch
    BY <1>6, AcceptKeepsInv
<1>7. CASE Reconnect
    BY <1>7, ReconnectKeepsInv
<1>8. CASE UNCHANGED vars
  <2>1. TypeOK'
      BY <1>8 DEF Inv, TypeOK, vars, local
  <2> QED
      BY <1>8, <2>1 DEF Inv, vars, local, Linked, LinkedRows, Overlay, Over,
          BelowCur, LocatorIsLast, Shallow
<1> QED
    BY <1>1, <1>2, <1>3, <1>4, <1>5, <1>6, <1>7, <1>8 DEF Next, Step

LEMMA Invariance == Spec => []Inv
BY Initially, Preserved, PTL DEF Spec

-----------------------------------------------------------------------------
(* How long a sync can take.                                                *)

\* What a running sync has left: cuts and reconnects, rows up to its target,
\* peers to ask before it gives up on them; and the three as the digits of one
\* number.
Rounds == (MaxReconnects - reconnects) + (IF retried THEN 0 ELSE 1)
RowsLeft == (target + 1) - cur
Untried == Cardinality(Usable)
Number(a, b, c) == (a * (MaxHeight + 2) + b) * (Cardinality(Peers) + 1) + c
Work == Number(Rounds, RowsLeft, Untried)
MaxWork == Number(MaxReconnects + 2, 0, 0)

\* A running sync is never past the row after its target.
CurInReach == pc = "running" => cur <= target + 1

Digits ==
    pc = "running" =>
        /\ Rounds \in 0 .. MaxReconnects + 1
        /\ RowsLeft \in 0 .. MaxHeight + 1
        /\ Untried \in 0 .. Cardinality(Peers)

\* A number whose higher digit is less is less, whatever the lower digits.
LEMMA HigherDigit ==
    ASSUME NEW n \in Nat \ {0}, NEW a \in Nat, NEW b \in Nat, a < b,
           NEW x \in 0 .. n - 1, NEW y \in Nat
    PROVE  a * n + x < b * n + y
<1>1. \A k \in Nat : (a + 1 + k) * n = a * n + n + k * n /\ k * n \in Nat
    OBVIOUS
<1>2. b - a - 1 \in Nat /\ b = a + 1 + (b - a - 1)
    OBVIOUS
<1>3. a * n + n <= b * n /\ a * n \in Nat /\ b * n \in Nat
    BY <1>1, <1>2
<1> QED
    BY <1>3

\* Numbers are ordered by their digits, the highest first.
LEMMA NumberOrder ==
    ASSUME NEW a \in Nat, NEW b \in 0 .. MaxHeight + 1, NEW c \in 0 .. Cardinality(Peers),
           NEW x \in Nat, NEW y \in 0 .. MaxHeight + 1, NEW z \in 0 .. Cardinality(Peers),
           \/ a < x
           \/ a = x /\ b < y
           \/ a = x /\ b = y /\ c < z
    PROVE  Number(a, b, c) < Number(x, y, z) /\ Number(a, b, c) \in Nat
<1> DEFINE h == MaxHeight + 2
           p == Cardinality(Peers) + 1
           low == a * h + b
           high == x * h + y
<1>1. h \in Nat \ {0} /\ p \in Nat \ {0} /\ b \in 0 .. h - 1 /\ y \in 0 .. h - 1
      /\ c \in 0 .. p - 1 /\ z \in 0 .. p - 1
    BY HeaderAssumption, FS_CardinalityType
<1>2. Number(a, b, c) = low * p + c /\ Number(x, y, z) = high * p + z
    BY DEF Number
<1> HIDE DEF h, p
<1>3. a * h \in Nat /\ x * h \in Nat
    BY <1>1
<1>4. low \in Nat /\ high \in Nat
    BY <1>1, <1>3
<1>5. low < high \/ (low = high /\ c < z)
  <2>1. CASE a < x
      BY <1>1, <2>1, HigherDigit
  <2>2. CASE a = x
      BY <1>1, <1>3, <2>2
  <2> QED
      BY <2>1, <2>2
<1> HIDE DEF low, high
<1>6. low * p \in Nat /\ high * p \in Nat
    BY <1>1, <1>4
<1>7. CASE low < high
    BY <1>1, <1>2, <1>4, <1>6, <1>7, HigherDigit
<1>8. CASE low = high /\ c < z
    BY <1>1, <1>2, <1>6, <1>8
<1> QED
    BY <1>5, <1>7, <1>8

LEMMA DigitsType ==
    ASSUME TypeOK, CurInReach
    PROVE  Digits
<1> SUFFICES ASSUME pc = "running"
             PROVE  /\ Rounds \in 0 .. MaxReconnects + 1
                    /\ RowsLeft \in 0 .. MaxHeight + 1
                    /\ Untried \in 0 .. Cardinality(Peers)
    BY DEF Digits
<1>1. Cardinality(Peers) \in Nat
    BY HeaderAssumption, FS_CardinalityType
<1>2. PICK n \in 0 .. Cardinality(Peers) : Usable \subseteq 1 .. n
    BY OrderIsFinite
<1>3. IsFiniteSet(1 .. n) /\ Cardinality(1 .. n) = n
    BY <1>1, <1>2, FS_Interval
<1>4. Cardinality(Usable) <= n /\ Cardinality(Usable) \in Nat
    BY <1>2, <1>3, FS_Subset, FS_CardinalityType
<1>5. Rounds \in 0 .. MaxReconnects + 1
    BY HeaderAssumption DEF TypeOK, Rounds
<1>6. RowsLeft \in 0 .. MaxHeight + 1
    BY HeaderAssumption DEF TypeOK, RowsLeft, CurInReach, Heights
<1> QED
    BY <1>1, <1>2, <1>4, <1>5, <1>6 DEF Untried

\* A peer that is given up leaves one less to ask.
LEMMA OneLessToAsk ==
    ASSUME TypeOK, Usable # {}, failed' = failed \cup {Chosen}, ranked' = ranked
    PROVE  Untried' < Untried
<1> DEFINE i == CHOOSE i \in Usable : \A j \in Usable : i <= j
<1>1. PICK n \in Nat : Usable \subseteq 1 .. n /\ Usable \subseteq 0 .. n
  <2>1. PICK n \in Nat : Usable \subseteq 1 .. n
      BY OrderIsFinite
  <2>2. 1 .. n \subseteq 0 .. n
      BY <2>1
  <2> QED
      BY <2>1, <2>2
<1>2. IsFiniteSet(Usable) /\ Cardinality(Usable) \in Nat
  <2>1. IsFiniteSet(1 .. n)
      BY FS_Interval
  <2> QED
      BY <1>1, <2>1, FS_Subset, FS_CardinalityType
<1>3. i \in Usable /\ Chosen = ranked[i]
  <2>1. \E j \in Usable : \A k \in Usable : j <= k
      BY <1>1, Least
  <2> QED
      BY <2>1 DEF Chosen
<1> HIDE DEF i
<1>4. Usable' \subseteq Usable /\ i \notin Usable'
    BY <1>3 DEF Usable
<1>5. /\ Cardinality(Usable') <= Cardinality(Usable)
      /\ Cardinality(Usable) = Cardinality(Usable') => Usable = Usable'
      /\ Cardinality(Usable') \in Nat
    BY <1>2, <1>4, FS_Subset, FS_CardinalityType
<1> QED
    BY <1>2, <1>3, <1>4, <1>5 DEF Untried

LEMMA StaysInReach ==
    ASSUME Inv, CurInReach, [Next]_vars
    PROVE  CurInReach'
<1> USE HeaderAssumption
<1>1. cur \in Nat /\ target \in Nat /\ target \in Heights /\ TypeOK
    BY DEF Inv, TypeOK, Heights
<1>2. CASE StartSync
  <2>1. NextHeight \in Nat /\ target' \in Nat /\ NextHeight <= target' /\ cur' = NextHeight
      BY <1>1, <1>2, NextHeightIsFree DEF StartSync, Targets, Heights
  <2>2. PICK c \in Nat, t \in Nat : c <= t /\ cur' = c /\ target' = t
      BY <2>1
  <2>3. c <= t + 1
      BY <2>2
  <2> QED
      BY <2>2, <2>3 DEF CurInReach
<1>3. CASE AcceptBatch
  <2>1. /\ tip[Chosen] \in Blocks /\ ~AnswerIsEmpty(tip[Chosen]) /\ cur <= target
        /\ cur' = BatchEnd(tip[Chosen]) + 1 /\ target' = target
      BY <1>1, <1>3, ChosenIsAPeer DEF AcceptBatch, Asking
  <2>2. BatchEnd(tip[Chosen]) \in Nat
      BY <1>1, <2>1, BatchIsLinked DEF Heights
  <2>3. BatchEnd(tip[Chosen]) <= target
      BY <1>1, <2>2 DEF BatchEnd
  <2> QED
      BY <1>1, <2>1, <2>2, <2>3 DEF CurInReach
<1>4. CASE CutBack
  <2>1. /\ cur' = (IF cur > Depth THEN cur - Depth ELSE 0) + 1
        /\ target' = target /\ cur <= target
      BY <1>4 DEF CutBack, Asking
  <2> QED
      BY <1>1, <2>1 DEF CurInReach
<1>5. CASE UNCHANGED <<cur, target>> /\ (pc' = "running" => pc = "running")
    BY <1>5 DEF CurInReach
<1>6. CASE Reset
    BY <1>6 DEF Reset, CurInReach
<1> QED
    BY <1>2, <1>3, <1>4, <1>5, <1>6
    DEF Next, Step, NodeMoves, PeerFails, NothingMore, RejectPeer, Reconnect, GiveUp,
        Finish, Abort, vars, local

\* Giving up a peer leaves one less to ask, a batch leaves fewer rows, and a cut
\* or a reconnect, which bring back rows and peers, is itself one of a few.
LEMMA StepsDecrease ==
    ASSUME Inv, Digits, Digits', [Next]_vars, pc = "running", pc' = "running",
           local' # local
    PROVE  Work' < Work
<1> USE HeaderAssumption
<1>1. /\ TypeOK /\ cur \in Nat /\ target \in Nat /\ target \in Heights
      /\ reconnects \in Nat /\ reconnects <= MaxReconnects
    BY DEF Inv, TypeOK, Heights
<1>2. /\ Rounds \in Nat /\ RowsLeft \in 0 .. MaxHeight + 1
      /\ Untried \in 0 .. Cardinality(Peers)
    BY DEF Digits
<1>3. /\ Rounds' \in Nat /\ RowsLeft' \in 0 .. MaxHeight + 1
      /\ Untried' \in 0 .. Cardinality(Peers)
    BY DEF Digits
<1>4. SUFFICES \/ Rounds' < Rounds
               \/ Rounds' = Rounds /\ RowsLeft' < RowsLeft
               \/ Rounds' = Rounds /\ RowsLeft' = RowsLeft /\ Untried' < Untried
    BY <1>2, <1>3, NumberOrder DEF Work
<1>5. CASE PeerFails \/ RejectPeer
  <2>1. /\ failed' = failed \cup {Chosen} /\ Usable # {}
        /\ UNCHANGED <<ranked, retried, reconnects, target, cur>>
      BY <1>5 DEF PeerFails, RejectPeer, Asking
  <2> QED
      BY <1>1, <2>1, OneLessToAsk DEF Rounds, RowsLeft
<1>6. CASE AcceptBatch
  <2>1. /\ tip[Chosen] \in Blocks /\ ~AnswerIsEmpty(tip[Chosen]) /\ cur <= target
        /\ cur' = BatchEnd(tip[Chosen]) + 1 /\ UNCHANGED <<target, retried, reconnects>>
      BY <1>1, <1>6, ChosenIsAPeer DEF AcceptBatch, Asking
  <2>2. BatchEnd(tip[Chosen]) \in Nat /\ cur <= BatchEnd(tip[Chosen])
      BY <1>1, <2>1, BatchIsLinked DEF Heights
  <2> QED
      BY <1>1, <2>1, <2>2 DEF Rounds, RowsLeft
<1>7. CASE CutBack
  <2>1. ~retried /\ retried' = TRUE /\ reconnects' = reconnects
      BY <1>7 DEF CutBack
  <2> QED
      BY <1>1, <2>1 DEF Rounds
<1>8. CASE Reconnect
  <2>1. reconnects' = reconnects + 1 /\ retried' = retried
      BY <1>8 DEF Reconnect
  <2> QED
      BY <1>1, <2>1 DEF Rounds
<1> QED
    BY <1>5, <1>6, <1>7, <1>8
    DEF Next, Step, NodeMoves, StartSync, NothingMore, GiveUp, Finish, Abort, Reset, vars

\* The work a sync has left never exceeds a number fixed by its limits,
LEMMA WorkIsSmall ==
    ASSUME Digits, pc = "running"
    PROVE  Work \in 0 .. MaxWork - 1
<1>1. /\ Rounds \in Nat /\ RowsLeft \in 0 .. MaxHeight + 1
      /\ Untried \in 0 .. Cardinality(Peers) /\ Rounds < MaxReconnects + 2
    BY HeaderAssumption DEF Digits
<1>2. MaxReconnects + 2 \in Nat /\ 0 \in 0 .. MaxHeight + 1 /\ 0 \in 0 .. Cardinality(Peers)
    BY HeaderAssumption, FS_CardinalityType
<1>3. Number(Rounds, RowsLeft, Untried) < Number(MaxReconnects + 2, 0, 0)
      /\ Number(Rounds, RowsLeft, Untried) \in Nat
    BY <1>1, <1>2, NumberOrder
<1>4. Number(MaxReconnects + 2, 0, 0) \in Int
    BY HeaderAssumption, FS_CardinalityType DEF Number
<1> QED
    BY <1>3, <1>4 DEF Work, MaxWork

-----------------------------------------------------------------------------
(* The theorems.                                                            *)

\* The variables keep their types: no height beyond the table, no attempt
\* beyond the limit.
THEOREM TypeCorrect == Spec => []TypeOK
BY Invariance, PTL DEF Inv

\* Headers in adjacent rows are parent and child, whatever the peers' chains,
\* the size of answers and flushes, and the point where a sync is lost.
THEOREM StoredHeadersAreLinked == Spec => []Linked
BY Invariance, PTL DEF Inv

\* A sync changes no header Depth or more below its start, as long as headers sit
\* in the rows of their heights.
THEOREM SyncSparesDeepHeaders == Spec => DeepHeadersStay
<1>1. ASSUME Inv, [Next]_vars, pc = "running",
             HeadersSitAtTheirHeights, HeadersSitAtTheirHeights',
             NEW h \in Heights, h + Depth <= start
      PROVE  stored'[h] = stored[h]
  <2> USE HeaderAssumption
  <2>1. /\ TypeOK /\ Shallow /\ pending[h] = NoHash /\ pending \in Rows
        /\ stored \in Rows /\ cur \in Nat /\ start \in Nat /\ h \in Nat
    <3>1. TypeOK /\ Shallow
        BY <1>1 DEF Inv
    <3>2. pending \in Rows /\ stored \in Rows /\ cur \in Nat /\ start \in Nat /\ h \in Nat
        BY <3>1 DEF TypeOK, Heights
    <3>3. h + Depth <= start /\ start \in Nat /\ h \in Nat /\ Depth \in Nat
        BY <1>1, <3>2
    <3>4. ~(h + Depth > start)
        BY <3>3
    <3> QED
        BY <3>1, <3>2, <3>4 DEF Shallow
  \* A flush of other rows moves no block away: it would sit at two heights.
  <2>2. ASSUME NEW rows \in Rows, rows[h] = NoHash, stored' = Flushed(rows)
        PROVE  stored'[h] = stored[h]
    <3>1. CASE \E k \in Heights : stored[h] = rows[k] /\ stored[h] # NoHash
      <4>1. PICK k \in Heights : stored[h] = rows[k] /\ stored[h] # NoHash
          BY <3>1
      <4>2. stored'[k] = rows[k]
          BY <2>1, <2>2, <4>1, FlushedRows
      <4>3. rows[k][1] = k /\ stored[h][1] = h
          BY <1>1, <4>1, <4>2 DEF HeadersSitAtTheirHeights
      <4> QED
          BY <2>2, <4>1, <4>3
    <3>2. CASE stored[h] = NoHash \/ stored[h] \notin {rows[k] : k \in Heights}
        BY <2>2, <3>2 DEF Flushed, Over
    <3> QED
        BY <3>1, <3>2
  <2>3. CASE CutBack
    <3>1. cur >= start /\ stored' = Truncated(IF cur > Depth THEN cur - Depth ELSE 0)
        BY <2>1, <2>3 DEF CutBack, Shallow
    <3>2. ~(h > (IF cur > Depth THEN cur - Depth ELSE 0))
        BY <1>1, <2>1, <3>1
    <3> QED
        BY <3>1, <3>2 DEF Truncated
  <2>4. CASE AcceptBatch
    <3> DEFINE last == BatchEnd(tip[Chosen])
               all == [k \in Heights |-> IF k \in cur .. last THEN Batch(tip[Chosen])[k]
                                         ELSE pending[k]]
    <3>1. h \notin cur .. last
        BY <1>1, <2>1 DEF Shallow
    <3>2. all[h] = NoHash
        BY <2>1, <3>1
    <3>3. Batch(tip[Chosen]) \in Rows
        BY <2>1, <2>4, ChosenIsAPeer, BatchIsLinked DEF AcceptBatch, Asking
    <3>4. all \in Rows
        BY <2>1, <3>3 DEF Rows
    <3>5. stored' = Flushed(all) \/ stored' = stored
        BY <2>4 DEF AcceptBatch
    <3> QED
        BY <2>2, <3>2, <3>4, <3>5
  <2>5. CASE NothingMore \/ Reconnect \/ GiveUp \/ Finish
    <3>1. stored' = Flushed(pending)
        BY <2>5 DEF NothingMore, Reconnect, GiveUp, Finish
    <3> QED
        BY <2>1, <2>2, <3>1
  <2>6. CASE UNCHANGED stored
      BY <2>6
  <2> QED
      BY <1>1, <2>3, <2>4, <2>5, <2>6
      DEF Next, Step, vars, NodeMoves, StartSync, PeerFails, RejectPeer, Abort
<1>2. Inv /\ [Next]_vars =>
        [/\ pc = "running"
         /\ HeadersSitAtTheirHeights /\ HeadersSitAtTheirHeights'
         => \A h \in Heights : h + Depth <= start => stored'[h] = stored[h]]_vars
    BY <1>1
<1> QED
    BY <1>2, Invariance, PTL DEF Spec, DeepHeadersStay

\* A sync cannot go round for ever, whatever the peers answer and however their
\* chains move: the work it has left stays below a fixed number, and each of its
\* steps, a failed peer, an answer, a cut, a reconnect, leaves less of it.
THEOREM SyncIsBounded ==
    Spec => /\ [](pc = "running" => Work \in 0 .. MaxWork - 1)
            /\ [][pc = "running" /\ pc' = "running" => Work' < Work]_local
<1>1. Init => CurInReach
    BY DEF Init, CurInReach
<1>2. Inv /\ CurInReach /\ [Next]_vars => CurInReach'
    BY StaysInReach
<1>3. Inv /\ CurInReach => Digits
    BY DigitsType DEF Inv
<1>4. Digits => (pc = "running" => Work \in 0 .. MaxWork - 1)
    BY WorkIsSmall
<1>5. Inv /\ Digits /\ Digits' /\ [Next]_vars =>
        [pc = "running" /\ pc' = "running" => Work' < Work]_local
    BY StepsDecrease
<1> QED
    BY <1>1, <1>2, <1>3, <1>4, <1>5, Invariance, PTL DEF Spec

-----------------------------------------------------------------------------
(* Where a header can come into a wrong row.                                *)

\* Every header, stored or pending, is in the row of its height.
Placed ==
    \A h \in Heights : /\ stored[h] # NoHash => stored[h][1] = h
                       /\ pending[h] # NoHash => pending[h][1] = h

\* The request names the zero hash: nothing was stored when the sync began, or the cut
\* went below the first stored header.
Blind == start = 0 \/ (retried /\ lastKnown = NoHash /\ stored[cur - 1] = NoHash)

\* Before its first answer and its cut a sync stands where it began, after the last row.
Begun ==
    IF pc = "running"
    THEN /\ retried => cur > 0
         /\ ~retried /\ lastKnown = NoHash =>
              /\ cur = start
              /\ start > 0 => stored[start - 1] # NoHash
    ELSE ~retried

LEMMA BegunStep ==
    ASSUME Inv, Begun, [Next]_vars
    PROVE  Begun'
<1>0. TypeOK
    BY DEF Inv
<1>1. ASSUME pc' = "idle", ~retried' PROVE Begun'
    BY <1>1 DEF Begun
<1>2. CASE StartSync
  <2>1. cur' = NextHeight /\ start' = NextHeight /\ stored' = stored
      BY <1>2 DEF StartSync
  <2>2. ~retried' /\ pc' = "running"
      BY <1>2 DEF StartSync, Begun
  <2> QED
      BY <1>0, <2>2, <2>1, NextHeightIsFree DEF Begun
<1>3. CASE CutBack
  <2>1. /\ retried' /\ pc' = "running"
        /\ cur' = (IF cur > Depth THEN cur - Depth ELSE 0) + 1
      BY <1>3 DEF CutBack, Asking
  <2>2. cur \in Nat /\ Depth \in Nat
      BY <1>0, HeaderAssumption DEF TypeOK
  <2>3. cur' > 0
      BY <2>1, <2>2
  <2> QED
      BY <2>1, <2>3 DEF Begun
<1>4. CASE AcceptBatch
  <2> DEFINE t == tip[Chosen]
  <2>1. t \in Blocks /\ cur <= target /\ ~AnswerIsEmpty(t)
      BY <1>0, <1>4, ChosenIsAPeer DEF AcceptBatch, Asking
  <2>2. /\ cur' = BatchEnd(t) + 1 /\ lastKnown' = Batch(t)[BatchEnd(t)]
        /\ pc' = "running"
      BY <1>4 DEF AcceptBatch, Asking
  <2> HIDE DEF t
  <2>3. BatchEnd(t) \in Nat /\ Batch(t)[BatchEnd(t)] # NoHash
    <3>1. BatchEnd(t) \in Heights /\ cur <= BatchEnd(t)
          /\ \A h \in Heights : h \in cur .. BatchEnd(t) => Batch(t)[h] # NoHash
        BY <1>0, <2>1, BatchIsLinked
    <3>2. BatchEnd(t) \in cur .. BatchEnd(t) /\ BatchEnd(t) \in Nat
        BY <1>0, <3>1, HeaderAssumption DEF TypeOK, Heights
    <3> QED
        BY <3>1, <3>2
  <2>4. cur' > 0 /\ lastKnown' # NoHash
      BY <2>2, <2>3
  <2> QED
      BY <2>2, <2>4 DEF Begun
<1>5. CASE Reconnect
  <2>1. /\ pc = "running" /\ stored' = Flushed(pending)
        /\ UNCHANGED <<pc, start, cur, lastKnown, retried>>
      BY <1>5 DEF Reconnect, Exhausted
  <2>2. lastKnown = NoHash => stored' = stored
    <3>1. lastKnown = NoHash => pending = NoRows
        BY <2>1 DEF Inv, LocatorIsLast
    <3>2. Flushed(NoRows) = stored
        BY <1>0, OverlayNothing DEF TypeOK
    <3> QED
        BY <2>1, <3>1, <3>2
  <2> QED
      BY <2>1, <2>2 DEF Begun
<1>6. CASE (\E p \in Peers : NodeMoves(p)) \/ PeerFails \/ RejectPeer \/ UNCHANGED vars
  <2>1. UNCHANGED <<stored, pc, start, cur, lastKnown, retried>>
      BY <1>6 DEF NodeMoves, PeerFails, RejectPeer, vars, local
  <2> QED
      BY <2>1 DEF Begun
<1>7. CASE NothingMore \/ GiveUp \/ Finish \/ Abort
    BY <1>1, <1>7 DEF NothingMore, GiveUp, Finish, Abort, Reset
<1> QED
    BY <1>2, <1>3, <1>4, <1>5, <1>6, <1>7 DEF Next, Step

\* A request that names a header gets an answer that goes into the right rows.
LEMMA BatchIsPlaced ==
    ASSUME TypeOK, Placed, LocatorIsLast, cur <= target, Locator # NoHash,
           NEW t \in Blocks, ~AnswerIsEmpty(t), ~Discontinuous(t)
    PROVE  \A h \in Heights : Batch(t)[h] # NoHash => Batch(t)[h][1] = h
<1>1. cur \in Nat /\ Heights \subseteq Nat /\ target \in Heights
    BY HeaderAssumption DEF TypeOK, Heights
<1>2. Locator[1] = cur - 1
  <2>1. CASE lastKnown = NoHash
    <3>1. cur > 0 /\ Locator = stored[cur - 1]
        BY <2>1 DEF Locator
    <3>2. cur - 1 \in Heights
        BY <1>1, <3>1, HeaderAssumption DEF Heights
    <3> QED
        BY <3>1, <3>2 DEF Placed
  <2>2. CASE lastKnown # NoHash
      BY <2>2 DEF LocatorIsLast, Locator, Placed
  <2> QED
      BY <2>1, <2>2
<1>3. Locator \in Blocks /\ Locator[1] \in Nat
    BY LocatorType, BlockShape, HeaderAssumption
<1>4. AnswerStart(t) \in Nat \ {0}
    BY <1>3 DEF AnswerStart, OnChainOf
<1>5. Prev(On(t[2], AnswerStart(t)))[1] = AnswerStart(t) - 1
    BY <1>4 DEF Prev, On
<1>6. AnswerStart(t) = cur
    BY <1>1, <1>2, <1>4, <1>5 DEF Discontinuous
<1>7. ASSUME NEW h \in Heights, Batch(t)[h] # NoHash
      PROVE  Batch(t)[h][1] = h
  <2>1. Batch(t)[h] = On(t[2], AnswerStart(t) + (h - cur))
      BY <1>7 DEF Batch
  <2>2. AnswerStart(t) + (h - cur) = h
      BY <1>1, <1>6
  <2> QED
      BY <2>1, <2>2 DEF On
<1> QED
    BY <1>7

LEMMA PlacedStep ==
    ASSUME Inv, Begun, Placed, [Next]_vars
    PROVE  Placed' \/ Blind
<1>0. TypeOK
    BY DEF Inv
<1>1. ASSUME NEW rows \in Rows, \A h \in Heights : rows[h] # NoHash => rows[h][1] = h,
             stored' = Flushed(rows), pending' = NoRows
      PROVE  Placed'
  <2>1. \A h \in Heights : Flushed(rows)[h] \in {NoHash, rows[h], stored[h]}
      BY <1>0, FlushedRows DEF Overlay, Over
  <2> QED
      BY <1>1, <2>1 DEF Placed, NoRows
<1>2. CASE AcceptBatch
  <2> SUFFICES ASSUME ~Blind PROVE Placed'
      OBVIOUS
  <2> DEFINE t == tip[Chosen]
             all == [h \in Heights |-> IF h \in cur .. BatchEnd(t) THEN Batch(t)[h]
                                       ELSE pending[h]]
  <2>1. /\ pc = "running" /\ t \in Blocks /\ cur <= target
        /\ ~AnswerIsEmpty(t) /\ ~Discontinuous(t)
      BY <1>0, <1>2, ChosenIsAPeer DEF AcceptBatch, Asking
  <2>2. \/ stored' = Flushed(all) /\ pending' = NoRows
        \/ stored' = stored /\ pending' = all
      BY <1>2 DEF AcceptBatch
  <2> HIDE DEF t
  <2>3. Locator # NoHash
    <3> SUFFICES ASSUME lastKnown = NoHash PROVE cur > 0 /\ stored[cur - 1] # NoHash
        BY DEF Locator
    <3>1. start # 0 /\ start \in Nat /\ cur \in Nat
        BY <1>0, HeaderAssumption DEF Blind, TypeOK, Heights
    <3>2. CASE retried
        BY <2>1, <3>2 DEF Begun, Blind
    <3>3. CASE ~retried
      <4>1. cur = start /\ (start > 0 => stored[start - 1] # NoHash)
          BY <2>1, <3>3 DEF Begun
      <4>2. start > 0
          BY <3>1
      <4> QED
          BY <4>1, <4>2
    <3> QED
        BY <3>2, <3>3
  <2>4. \A h \in Heights : Batch(t)[h] # NoHash => Batch(t)[h][1] = h
      BY <1>0, <2>1, <2>3, BatchIsPlaced DEF Inv
  <2>5. all \in Rows
    <3>1. Batch(t) \in Rows
        BY <1>0, <2>1, BatchIsLinked
    <3> QED
        BY <1>0, <3>1 DEF TypeOK, Rows
  <2>6. \A h \in Heights : all[h] # NoHash => all[h][1] = h
      BY <2>4 DEF Placed
  <2> HIDE DEF all
  <2>7. CASE stored' = stored /\ pending' = all
      BY <2>6, <2>7 DEF Placed
  <2>8. CASE stored' = Flushed(all) /\ pending' = NoRows
      BY <1>1, <2>5, <2>6, <2>8
  <2> QED
      BY <2>2, <2>7, <2>8
<1>3. CASE NothingMore \/ Reconnect \/ GiveUp \/ Finish
  <2>1. stored' = Flushed(pending) /\ pending' = NoRows
      BY <1>3 DEF NothingMore, Reconnect, GiveUp, Finish, Reset
  <2>2. pending \in Rows /\ \A h \in Heights : pending[h] # NoHash => pending[h][1] = h
      BY <1>0 DEF TypeOK, Placed
  <2> QED
      BY <1>1, <2>1, <2>2
<1>4. CASE CutBack
  <2>1. pending' = NoRows /\ \E to : stored' = Truncated(to)
      BY <1>4 DEF CutBack
  <2> QED
      BY <2>1 DEF Truncated, NoRows, Placed
<1>5. CASE (\E p \in Peers : NodeMoves(p)) \/ StartSync \/ PeerFails \/ RejectPeer
           \/ UNCHANGED vars
  <2>1. UNCHANGED <<stored, pending>>
      BY <1>5 DEF NodeMoves, StartSync, PeerFails, RejectPeer, vars, local
  <2> QED
      BY <2>1 DEF Placed
<1>6. CASE Abort
    BY <1>6 DEF Abort, Reset, NoRows, Placed
<1> QED
    BY <1>2, <1>3, <1>4, <1>5, <1>6 DEF Next, Step

\* Whichever peers answer, fail or change branches, headers that are all in the rows of
\* their heights stay so in every step but that of a request with the zero hash: of a
\* sync that began with an empty table, or whose cut went below the first stored header.
\* Those are the only ways to what the run headers_gap finds.
THEOREM OnlyBlindRequestsMisplace ==
    Spec => [][Placed /\ ~Placed' => Blind]_vars
<1> DEFINE IInv == Inv /\ Begun
           Kept == Placed /\ ~Placed' => Blind
<1>1. Init => IInv
    BY Initially DEF Init, Begun
<1>2. IInv /\ [Next]_vars => IInv'
    BY Preserved, BegunStep
<1>3. IInv /\ [Next]_vars => [Kept]_vars
    BY PlacedStep
<1> HIDE DEF IInv, Kept
<1>4. Spec => [][Kept]_vars
    BY <1>1, <1>2, <1>3, PTL DEF Spec
<1> QED
    BY <1>4 DEF Kept

-----------------------------------------------------------------------------
(* What a sync does while the peers agree.                                  *)

\* Not a block of the chain the peers agree on, and the rows with such blocks.
Stray(x) == x # NoHash /\ ~OnChainOf(Top, x)
StrayRows == {h \in Heights : Stray(stored[h]) \/ Stray(pending[h])}

\* A sync goes on from a header of the chain, and brings in no other.
Follows ==
    /\ StrayRows' \subseteq StrayRows
    /\ pc = "running" /\ cur' > cur => ~Stray(Locator)

LEMMA TopIsABlock == TypeOK => Top \in Blocks
<1>1. Peers # {}
    BY FS_EmptySet, HeaderAssumption
<1> QED
    BY <1>1 DEF Top, TypeOK

\* An answer is from the chain of the peer that gives it.
LEMMA BatchIsOnChain ==
    ASSUME TypeOK, cur <= target, NEW t \in Blocks, ~AnswerIsEmpty(t)
    PROVE  \A h \in Heights : Batch(t)[h] # NoHash => OnChainOf(t, Batch(t)[h])
<1>1. t[1] \in Nat /\ t[2] \in Branches
    BY BlockShape, HeaderAssumption
<1>2. AnswerStart(t) \in Nat
  <2>1. Locator # NoHash => Locator[1] \in Nat
      BY LocatorType, BlockShape, HeaderAssumption
  <2> QED
      BY <2>1 DEF AnswerStart, OnChainOf
<1>3. AnswerEnd(t) \in Nat /\ AnswerStart(t) <= AnswerEnd(t) /\ AnswerEnd(t) <= t[1]
    BY <1>1, <1>2, HeaderAssumption DEF AnswerEnd, AnswerIsEmpty
<1>4. cur \in Nat /\ target \in Nat /\ Heights \subseteq Nat
    BY HeaderAssumption DEF TypeOK, Heights
<1>5. BatchEnd(t) \in Nat /\ BatchEnd(t) <= cur + (AnswerEnd(t) - AnswerStart(t))
    BY <1>2, <1>3, <1>4 DEF BatchEnd
<1>6. ASSUME NEW h \in Heights, Batch(t)[h] # NoHash
      PROVE  OnChainOf(t, Batch(t)[h])
  <2> DEFINE k == AnswerStart(t) + (h - cur)
  <2>1. h \in cur .. BatchEnd(t) /\ Batch(t)[h] = On(t[2], k)
      BY <1>6 DEF Batch
  <2>2. k \in Nat /\ k <= t[1]
      BY <1>1, <1>2, <1>3, <1>4, <1>5, <2>1
  <2> HIDE DEF k
  <2>3. On(t[2], k)[1] = k
      BY DEF On
  <2> QED
      BY <1>6, <2>1, <2>2, <2>3 DEF OnChainOf
<1> QED
    BY <1>6

\* Nobody continues a header that is not on its chain.
LEMMA ContinuedIsOnChain ==
    ASSUME TypeOK, cur <= target, NEW t \in Blocks, ~Discontinuous(t), Locator # NoHash
    PROVE  OnChainOf(t, Locator)
<1> SUFFICES ASSUME ~OnChainOf(t, Locator) PROVE FALSE
    OBVIOUS
<1>1. t[1] \in Nat /\ t[2] \in Branches /\ ForkAt[t[2]] \in Nat
    BY BlockShape, HeaderAssumption
<1>2. Prev(On(t[2], 1)) = Locator
    BY DEF Discontinuous, AnswerStart
<1>3. Locator = On(t[2], 0)
    BY <1>1, <1>2, PrevOfOn
<1>4. Locator[1] = 0
    BY <1>3 DEF On
<1> QED
    BY <1>1, <1>3, <1>4 DEF OnChainOf

LEMMA AgreedStep ==
    ASSUME Inv, [Next]_vars, Agreed, tip' = tip
    PROVE  Follows
<1>0. TypeOK /\ Top \in Blocks
    BY TopIsABlock DEF Inv
<1>1. \A x : Stray(x)' <=> x # NoHash /\ ~OnChainOf(Top, x)
  <2>1. Top' = Top
      BY DEF Top
  <2> QED
      BY <2>1 DEF Stray, OnChainOf, On
<1>2. ASSUME NEW rows \in Rows,
             \A h \in Heights : Stray(rows[h]) => h \in StrayRows,
             \/ stored' = Flushed(rows) /\ pending' = NoRows
             \/ stored' = stored /\ pending' \in {rows, NoRows}
      PROVE  StrayRows' \subseteq StrayRows
  <2>1. \A h \in Heights : Flushed(rows)[h] \in {NoHash, rows[h], stored[h]}
      BY <1>0, FlushedRows DEF Overlay, Over
  <2>2. \A h \in Heights : /\ stored'[h] \in {NoHash, rows[h], stored[h]}
                           /\ pending'[h] \in {NoHash, rows[h]}
      BY <1>2, <2>1 DEF NoRows
  <2>3. ASSUME NEW h \in StrayRows' PROVE h \in StrayRows
    <3>1. h \in Heights /\ (Stray(stored'[h]) \/ Stray(pending'[h]))
        BY <1>1, <2>3 DEF StrayRows, Stray
    <3>2. Stray(rows[h]) \/ Stray(stored[h])
        BY <2>2, <3>1 DEF Stray
    <3> QED
        BY <1>2, <3>1, <3>2 DEF StrayRows
  <2> QED
      BY <2>3
<1>3. pending \in Rows /\ \A h \in Heights : Stray(pending[h]) => h \in StrayRows
    BY <1>0 DEF TypeOK, StrayRows
<1>4. cur \in Nat
    BY <1>0, HeaderAssumption DEF TypeOK
<1>5. CASE AcceptBatch
  <2> DEFINE t == tip[Chosen]
             all == [h \in Heights |-> IF h \in cur .. BatchEnd(t) THEN Batch(t)[h]
                                       ELSE pending[h]]
  <2>1. /\ t \in Blocks /\ cur <= target /\ ~AnswerIsEmpty(t) /\ ~Discontinuous(t)
        /\ t = Top
    <3>1. Chosen \in Peers /\ Usable # {}
        BY <1>0, <1>5, ChosenIsAPeer DEF AcceptBatch, Asking
    <3>2. Peers # {} /\ t = Top
        BY <3>1 DEF Agreed, Top
    <3> QED
        BY <1>0, <1>5, <3>2 DEF AcceptBatch, Asking
  <2>2. \/ stored' = Flushed(all) /\ pending' = NoRows
        \/ stored' = stored /\ pending' = all
      BY <1>5 DEF AcceptBatch
  <2> HIDE DEF t
  <2>3. all \in Rows
    <3>1. Batch(t) \in Rows
        BY <1>0, <2>1, BatchIsLinked
    <3> QED
        BY <1>3, <3>1 DEF Rows
  <2>4. \A h \in Heights : Stray(all[h]) => h \in StrayRows
    <3>1. \A h \in Heights : ~Stray(Batch(t)[h])
        BY <1>0, <2>1, BatchIsOnChain DEF Stray
    <3> QED
        BY <1>3, <3>1
  <2> HIDE DEF all
  <2>5. StrayRows' \subseteq StrayRows
      BY <1>2, <2>2, <2>3, <2>4
  <2>6. ~Stray(Locator)
      BY <1>0, <2>1, ContinuedIsOnChain DEF Stray
  <2> QED
      BY <2>5, <2>6 DEF Follows
<1>6. CASE CutBack
  <2>1. pending' = NoRows /\ \E to : stored' = Truncated(to)
      BY <1>6 DEF CutBack
  <2>2. StrayRows' \subseteq StrayRows
    <3>1. ASSUME NEW h \in StrayRows' PROVE h \in StrayRows
      <4>1. h \in Heights /\ (Stray(stored'[h]) \/ Stray(pending'[h]))
          BY <1>1, <3>1 DEF StrayRows, Stray
      <4>2. stored'[h] \in {NoHash, stored[h]} /\ pending'[h] = NoHash
          BY <2>1, <4>1 DEF Truncated, NoRows
      <4> QED
          BY <4>1, <4>2 DEF StrayRows, Stray
    <3> QED
        BY <3>1
  <2>3. ~(cur' > cur)
    <3>1. cur > 0
      <4>1. pc = "running" /\ Locator # NoHash
          BY <1>6 DEF CutBack, Asking, Discontinuous
      <4>2. lastKnown # NoHash => cur > 0
          BY <4>1 DEF Inv, LocatorIsLast
      <4> QED
          BY <4>1, <4>2 DEF Locator
    <3>2. cur' = (IF cur > Depth THEN cur - Depth ELSE 0) + 1
        BY <1>6 DEF CutBack
    <3> QED
        BY <1>4, <3>1, <3>2, HeaderAssumption
  <2> QED
      BY <2>2, <2>3 DEF Follows
<1>7. CASE NothingMore \/ GiveUp \/ Finish \/ Reconnect
  <2>1. /\ stored' = Flushed(pending) /\ pending' = NoRows
        /\ cur' = cur \/ cur' = 0
      BY <1>7 DEF NothingMore, GiveUp, Finish, Reconnect, Reset
  <2>2. ~(cur' > cur)
      BY <1>4, <2>1
  <2> QED
      BY <1>2, <1>3, <2>1, <2>2 DEF Follows
<1>8. CASE (\E p \in Peers : NodeMoves(p)) \/ StartSync \/ PeerFails \/ RejectPeer
           \/ Abort \/ UNCHANGED vars
  <2>1. /\ stored' = stored /\ pending' \in {pending, NoRows}
        /\ cur' = cur \/ cur' = 0 \/ pc = "idle"
      BY <1>8 DEF NodeMoves, StartSync, PeerFails, RejectPeer, Abort, Reset, vars, local
  <2>2. ~(pc = "running" /\ cur' > cur)
      BY <1>4, <2>1
  <2>3. StrayRows' \subseteq StrayRows
      BY <1>2, <1>3, <2>1
  <2> QED
      BY <2>2, <2>3 DEF Follows
<1> QED
    BY <1>5, <1>6, <1>7, <1>8 DEF Next, Step

\* A safety core of ReorgIsFollowed: while the peers agree on a chain, no sync brings a
\* header into the table that is not on it, whatever was verified before, and a sync goes
\* on only from a header that is on it. What is off the chain can only become less.
THEOREM AgreementAddsNoStray ==
    Spec => [][Agreed /\ tip' = tip => Follows]_vars
<1>1. Inv /\ [Next]_vars => [Agreed /\ tip' = tip => Follows]_vars
    BY AgreedStep
<1> QED
    BY Invariance, <1>1, PTL DEF Spec
=============================================================================
