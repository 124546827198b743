-------------------------- MODULE NoteLedger_proofs --------------------------
(***************************************************************************)
(* For any notes, transactions and bounds: what the scan found spent stays *)
(* known as spent, recovery spares what was mined, and the ledger          *)
(* implements the vault.                                                   *)
(***************************************************************************)
EXTENDS NoteLedger, FiniteSetTheorems, TLAPS

\* Heights are at most the tip; only built transactions are mined.
ChainInv ==
    /\ target <= tip /\ clock <= MaxClock
    /\ \A h \in stored \cup scanned \cup read : h > 0 /\ h <= tip
    /\ misplaced \subseteq Misplaced
    /\ \A n \in Notes : spentHeight[n] <= tip
    /\ \A t \in Txs :
        /\ minedAt[t] <= tip
        /\ minedAt[t] > 0 => t \in inMempool
        /\ t \in inMempool \cup rows => inputs[t] # {}

\* The send flow excludes a sync; what it has not marked is still free, what
\* it has marked is its own, and it has no row yet.
SendInv ==
    sending # NoTx =>
        /\ phase = "idle" /\ sending \notin rows
        /\ unmarked \subseteq inputs[sending]
        /\ inputs[sending] # {}
        /\ \A n \in unmarked : spentBy[n] = NoTx
        /\ \A n \in inputs[sending] \ unmarked : spentBy[n] = sending

\* A row has a time of broadcast only from the send flow.
Dated(t) == sentAt[t] < MaxClock

\* What a whole delta scan has passed is known. From Step 9 to recovery a height
\* has reached the dated row of a send, unless nothing of its transaction is left to
\* recover; and an unconfirmed reservation covers a whole transaction.
LedgerInv ==
    /\ \A n \in Notes : spentHeight[n] > 0 => spentBy[n] # NoTx
    /\ ScannedSpendsStaySpent
    /\ phase \in {"confirmed", "recheck", "checked"} =>
        \A n \in Notes : spentHeight[n] > 0 /\ spentBy[n] \in rows /\ Dated(spentBy[n]) =>
            rowHeight[spentBy[n]] > 0 \/ ~Unconfirmed(spentBy[n])
    /\ \A t \in rows, n \in Notes :
        Dated(t) /\ rowHeight[t] = 0 /\ spentBy[n] = t /\ spentHeight[n] = 0 =>
            \A m \in inputs[t] : spentBy[m] = t
    /\ \A t \in Txs \ rows : ~Dated(t)
    /\ \A t \in WithChange : minedAt[t] \in read => receivedHeight[t] > 0

Inv == TypeOK /\ ChainInv /\ SendInv /\ LedgerInv

-----------------------------------------------------------------------------
(* Well-formed states.                                                      *)

\* The scan takes the spending transaction from its blocks.
LEMMA SpendIsInBlocks ==
    ASSUME TypeOK, NEW D, \A h \in D : h \in Nat /\ h > 0 /\ h <= tip,
           NEW n \in Notes, Found(D, n)
    PROVE  /\ SpendOf(D, n) \in Txs
           /\ FoundSpend(D, n, SpendOf(D, n))
           /\ minedAt[SpendOf(D, n)] \in Nat
           /\ 0 < minedAt[SpendOf(D, n)] /\ minedAt[SpendOf(D, n)] <= tip
<1>1. SpendOf(D, n) \in Txs /\ FoundSpend(D, n, SpendOf(D, n))
    BY DEF Found, SpendOf
<1>2. QED
    BY <1>1 DEF FoundSpend, TypeOK

\* A set of naturals under a bound has a greatest element.
LEMMA Greatest ==
    ASSUME NEW S, S \subseteq Nat, S # {}, NEW b \in Nat, \A h \in S : h <= b
    PROVE  \E h \in S : \A g \in S : g <= h
<1> DEFINE Above(h) == {k \in 0 .. b : k > h}
           T == {Above(h) : h \in S}
           R == StrictSubsetOrdering(0 .. b)
<1>1. T \subseteq FiniteSubsetsOf(0 .. b)
  <2>1. IsFiniteSet(0 .. b)
      BY FS_Interval
  <2>2. FiniteSubsetsOf(0 .. b) = SUBSET (0 .. b)
      BY <2>1, FS_FiniteSubsetsOfFinite
  <2>3. QED
      BY <2>2
<1>2. T # {}
    OBVIOUS
<1>3. PICK x \in T : \A y \in T : ~(<<y, x>> \in R)
    BY <1>1, <1>2, FS_StrictSubsetOrderingWellFounded, WFMin
<1>4. PICK h \in S : x = Above(h)
    OBVIOUS
<1>5. ASSUME NEW g \in S, ~(g <= h)
      PROVE  <<Above(g), x>> \in R
    BY <1>4, <1>5 DEF StrictSubsetOrdering
<1>6. QED
    BY <1>3, <1>5

LEMMA BackfilledBounds ==
    ASSUME TypeOK, \A n \in Notes : spentHeight[n] <= tip, NEW t \in Txs
    PROVE  /\ BackfilledHeight(t) \in Nat
           /\ \A n \in Notes : t \in rows /\ spentBy[n] = t /\ spentHeight[n] > 0
                => BackfilledHeight(t) > 0
<1>1. ConfirmedHeights(t) \subseteq Nat /\ \A h \in ConfirmedHeights(t) : h <= tip
    BY DEF ConfirmedHeights, TypeOK
<1>2. ASSUME \E h \in ConfirmedHeights(t) : h > 0
      PROVE  LET m == CHOOSE h \in ConfirmedHeights(t) :
                            \A g \in ConfirmedHeights(t) : g <= h
             IN  m \in Nat /\ m > 0
  <2> DEFINE m == CHOOSE h \in ConfirmedHeights(t) :
                        \A g \in ConfirmedHeights(t) : g <= h
  <2>1. \E h \in ConfirmedHeights(t) : \A g \in ConfirmedHeights(t) : g <= h
      BY <1>1, <1>2, Greatest DEF TypeOK
  <2>2. m \in ConfirmedHeights(t) /\ \A g \in ConfirmedHeights(t) : g <= m
      BY <2>1
  <2>3. QED
      BY <1>1, <1>2, <2>2
<1>3. BackfilledHeight(t) \in Nat
    BY <1>2 DEF BackfilledHeight, TypeOK
<1>4. ASSUME NEW n \in Notes, t \in rows, spentBy[n] = t, spentHeight[n] > 0
      PROVE  BackfilledHeight(t) > 0
  <2>1. \E h \in ConfirmedHeights(t) : h > 0
      BY <1>4 DEF ConfirmedHeights
  <2>2. QED
      BY <1>2, <1>4, <2>1 DEF BackfilledHeight, TypeOK
<1>5. QED
    BY <1>3, <1>4

LEMMA BuildType ==
    ASSUME TypeOK, NEW t \in Txs, NEW S \in SUBSET Notes, NEW reached \in BOOLEAN,
           BroadcastAccepted(t, S, reached) \/ BroadcastRefused(t, S)
    PROVE  TypeOK'
<1>1. /\ inputs' = [inputs EXCEPT ![t] = S]
      /\ expiry' = [expiry EXCEPT ![t] = target + ExpiryDelta]
      /\ inMempool' = inMempool \cup {t} \/ inMempool' = inMempool
      /\ UNCHANGED <<noteVars, historyVars, syncVars, stops, minedAt, tip, clock>>
    BY DEF BroadcastAccepted, BroadcastRefused, Build
<1>2. inputs' \in [Txs -> SUBSET Notes] /\ expiry' \in [Txs -> Nat] /\ inMempool' \subseteq Txs
    BY <1>1, NatAssumption DEF TypeOK
<1>3. /\ sending' \in Txs \cup {NoTx} /\ unmarked' \subseteq Notes
      /\ sending' = NoTx => unmarked' = {}
    BY NoTxAssumption DEF TypeOK, BroadcastAccepted, BroadcastRefused, sendVars
<1>4. QED
    BY <1>1, <1>2, <1>3 DEF TypeOK, noteVars, historyVars, syncVars

\* What mark_note_spent does to one note.
LEMMA MarkOfNote ==
    ASSUME Inv, NEW D, \A h \in D : h \in Nat /\ h > 0 /\ h <= tip, NEW N,
           MarkSpent(D, N), NEW n \in Notes
    PROVE  \/ /\ n \in N /\ Found(D, n)
              /\ spentHeight'[n] \in Nat /\ spentHeight'[n] > 0 /\ spentHeight'[n] <= tip
              /\ spentBy'[n] \in Txs
              /\ IF Spendable(n) THEN n \in inputs[spentBy'[n]]
                 ELSE spentBy'[n] = spentBy[n]
           \/ /\ ~(n \in N /\ Found(D, n))
              /\ spentBy'[n] = spentBy[n] /\ spentHeight'[n] = spentHeight[n]
<1>1. CASE n \in N /\ Found(D, n)
  <2> DEFINE t == SpendOf(D, n)
  <2>1. /\ t \in Txs /\ n \in inputs[t]
        /\ minedAt[t] \in Nat /\ 0 < minedAt[t] /\ minedAt[t] <= tip
      BY <1>1, SpendIsInBlocks DEF Inv, FoundSpend
  <2>2. /\ spentBy'[n] = IF Spendable(n) THEN t ELSE spentBy[n]
        /\ spentHeight'[n] = IF Spendable(n) \/ spentHeight[n] = 0
                             THEN minedAt[t] ELSE spentHeight[n]
      BY <1>1 DEF MarkSpent
  <2>3. spentHeight[n] \in Nat /\ spentHeight[n] <= tip /\ spentBy[n] \in Txs \cup {NoTx}
      BY DEF Inv, TypeOK, ChainInv
  <2>4. QED
      BY <1>1, <2>1, <2>2, <2>3 DEF Spendable
<1>2. CASE ~(n \in N /\ Found(D, n))
    BY <1>2 DEF MarkSpent
<1>3. QED
    BY <1>1, <1>2

\* What cross_ref_nullifier_spend does to one note.
LEMMA LookupOfNote ==
    ASSUME Inv, NEW D, \A h \in D : h \in Nat /\ h > 0 /\ h <= tip, NEW N,
           CrossReference(D, N), NEW n \in Notes
    PROVE  \/ /\ n \in N /\ Spendable(n) /\ Found(D, n)
              /\ spentHeight'[n] \in Nat /\ spentHeight'[n] > 0 /\ spentHeight'[n] <= tip
              /\ spentBy'[n] \in Txs /\ n \in inputs[spentBy'[n]]
           \/ /\ ~(n \in N /\ Spendable(n) /\ Found(D, n))
              /\ spentBy'[n] = spentBy[n] /\ spentHeight'[n] = spentHeight[n]
<1>1. CASE n \in N /\ Spendable(n) /\ Found(D, n)
  <2> DEFINE t == SpendOf(D, n)
  <2>1. /\ t \in Txs /\ n \in inputs[t]
        /\ minedAt[t] \in Nat /\ 0 < minedAt[t] /\ minedAt[t] <= tip
      BY <1>1, SpendIsInBlocks DEF Inv, FoundSpend
  <2>2. spentBy'[n] = t /\ spentHeight'[n] = minedAt[t]
      BY <1>1 DEF CrossReference
  <2>3. QED
      BY <1>1, <2>1, <2>2
<1>2. CASE ~(n \in N /\ Spendable(n) /\ Found(D, n))
    BY <1>2 DEF CrossReference
<1>3. QED
    BY <1>1, <1>2

LEMMA RowsInserted ==
    ASSUME TypeOK, NEW S \in SUBSET Txs, NEW h \in [Txs -> Nat], InsertSent(S, h)
    PROVE  /\ rows' = rows \cup S /\ rowHeight' \in [Txs -> Nat]
           /\ \A t \in rows : rowHeight'[t] = rowHeight[t]
           /\ \A t \in S \ rows : rowHeight'[t] = h[t]
BY DEF InsertSent, TypeOK

LEMMA ReceivedInserted ==
    ASSUME TypeOK, NEW R, InsertReceived(R)
    PROVE  /\ receivedHeight' \in [Txs -> Nat]
           /\ \A t \in Txs : receivedHeight[t] > 0 => receivedHeight'[t] > 0
           /\ \A t \in Txs \cap R : minedAt[t] > 0 => receivedHeight'[t] > 0
BY DEF InsertReceived, TypeOK

\* What any scan may do, complete or not: it gives notes a height, without taking a
\* reserved one from its transaction, and it makes new rows of transactions that
\* spend something.
ScanStep ==
    /\ sending = NoTx
    /\ phase' \in {"idle", "prescan", "blocks", "scanned", "checked"} /\ stops' \in Nat
    /\ UNCHANGED <<rejected, sentAt, misplaced, target, sendVars, chainVars>>
    /\ \A h \in stored' \cup scanned' \cup read' : h \in Nat /\ h > 0 /\ h <= tip
    /\ rows \subseteq rows' /\ rows' \subseteq Txs
    /\ \A t \in rows' \ rows : inputs[t] # {}
    /\ rowHeight' \in [Txs -> Nat] /\ \A t \in rows : rowHeight'[t] = rowHeight[t]
    /\ receivedHeight' \in [Txs -> Nat]
    /\ \A t \in Txs : receivedHeight[t] > 0 => receivedHeight'[t] > 0
    /\ spentBy' \in [Notes -> Txs \cup {NoTx}] /\ spentHeight' \in [Notes -> Nat]
    /\ \A n \in Notes :
        \/ /\ spentHeight'[n] > 0 /\ spentHeight'[n] <= tip
           /\ spentBy'[n] \in Txs
           /\ IF Spendable(n) THEN n \in inputs[spentBy'[n]] ELSE spentBy'[n] = spentBy[n]
        \/ spentBy'[n] = spentBy[n] /\ spentHeight'[n] = spentHeight[n]

SomeScan ==
    \/ DeltaScan \/ Recheck
    \/ \E R, S \in SUBSET Txs, N \in SUBSET Notes :
        \/ DeltaScanStops(R, N, S)
        \/ \E B \in SUBSET (1 .. target) : ChunkStops(B, R, N, S)
    \/ \E B \in SUBSET (1 .. target) : FullScan(B) \/ PendingScan(B)

LEMMA EveryScan ==
    ASSUME Inv, SomeScan
    PROVE  ScanStep
<1> USE DEF Inv
<1>1. sending = NoTx /\ stops \in Nat
    BY DEF SendInv, TypeOK, SomeScan, DeltaScan, DeltaScanStops, ScanDelta, ChunkStops,
           FullScan, PendingScan, Recheck
<1>2. \A h \in stored \cup scanned \cup read : h \in Nat /\ h > 0 /\ h <= tip
    BY DEF TypeOK, ChainInv
<1>3. \A D : \A t \in FoundTxs(D) \cup Discovered(D) : t \in Txs /\ inputs[t] # {}
    BY DEF FoundTxs, Discovered, FoundSpend
<1>4. ASSUME NEW R, NEW S \in SUBSET Txs, NEW N, S \subseteq FoundTxs(stored),
             ScanDelta(R, N, S),
             \/ UNCHANGED <<scanned, read>>
             \/ scanned' = scanned \cup stored /\ read' = read \cup stored,
             phase' \in {"idle", "prescan"}, stops' \in Nat
      PROVE  ScanStep
  <2>1. /\ MarkSpent(stored, N) /\ InsertReceived(R) /\ InsertSent(S, receivedHeight')
        /\ UNCHANGED <<rejected, sentAt, stored, misplaced, target, sendVars, chainVars>>
      BY <1>4 DEF ScanDelta
  <2>2. receivedHeight' \in [Txs -> Nat]
      BY <2>1, ReceivedInserted
  <2>3. \A n \in Notes : spentBy'[n] \in Txs \cup {NoTx} /\ spentHeight'[n] \in Nat
      BY <1>2, <2>1, MarkOfNote DEF TypeOK
  <2>4. spentBy' \in [Notes -> Txs \cup {NoTx}] /\ spentHeight' \in [Notes -> Nat]
      BY <2>1, <2>3 DEF MarkSpent
  <2>5. /\ rows' = rows \cup S /\ rowHeight' \in [Txs -> Nat]
        /\ \A t \in rows : rowHeight'[t] = rowHeight[t]
      BY <2>1, <2>2, RowsInserted
  <2> QED
      BY <1>1, <1>2, <1>3, <1>4, <2>1, <2>2, <2>4, <2>5, MarkOfNote, ReceivedInserted
      DEF ScanStep, TypeOK
<1>5. ASSUME NEW R, NEW S \in SUBSET Txs, NEW N, NEW B, S \subseteq Discovered(B),
             \A h \in B : h \in Nat /\ h > 0 /\ h <= tip,
             receivedHeight' = receivedHeight \/ InsertReceived(R),
             CrossReference(B, N), InsertSent(S, minedAt),
             UNCHANGED <<rejected, sentAt, scanned, misplaced, target, sendVars, chainVars>>,
             stored' = stored \/ stored' = stored \cup B,
             read' = read \/ read' = read \cup B,
             phase' \in {"idle", "blocks", "scanned", "checked"}, stops' \in Nat
      PROVE  ScanStep
  <2>1. /\ receivedHeight' \in [Txs -> Nat]
        /\ \A t \in Txs : receivedHeight[t] > 0 => receivedHeight'[t] > 0
      BY <1>5, ReceivedInserted DEF TypeOK
  <2>2. \A n \in Notes : spentBy'[n] \in Txs \cup {NoTx} /\ spentHeight'[n] \in Nat
      BY <1>5, LookupOfNote DEF TypeOK
  <2>3. spentBy' \in [Notes -> Txs \cup {NoTx}] /\ spentHeight' \in [Notes -> Nat]
      BY <1>5, <2>2 DEF CrossReference
  <2>4. /\ rows' = rows \cup S /\ rowHeight' \in [Txs -> Nat]
        /\ \A t \in rows : rowHeight'[t] = rowHeight[t]
      BY <1>5, RowsInserted DEF TypeOK
  <2>5. \A n \in Notes :
        \/ /\ spentHeight'[n] > 0 /\ spentHeight'[n] <= tip
           /\ spentBy'[n] \in Txs
           /\ IF Spendable(n) THEN n \in inputs[spentBy'[n]] ELSE spentBy'[n] = spentBy[n]
        \/ spentBy'[n] = spentBy[n] /\ spentHeight'[n] = spentHeight[n]
      BY <1>5, LookupOfNote
  <2>6. \A h \in stored' \cup scanned' \cup read' : h \in Nat /\ h > 0 /\ h <= tip
      BY <1>2, <1>5
  <2> QED
      BY <1>1, <1>3, <1>5, <2>1, <2>3, <2>4, <2>5, <2>6 DEF ScanStep, TypeOK
<1>6. CASE DeltaScan
  <2>1. FoundTxs(stored) \in SUBSET Txs /\ stops' \in Nat
      BY <1>1, <1>3, <1>6 DEF DeltaScan
  <2> QED
      BY <1>4, <1>6, <2>1 DEF DeltaScan
<1>7. ASSUME NEW R \in SUBSET Txs, NEW S \in SUBSET Txs, NEW N \in SUBSET Notes,
             DeltaScanStops(R, N, S)
      PROVE  ScanStep
    BY <1>1, <1>4, <1>7 DEF DeltaScanStops
<1>8. CASE Recheck
  <2>1. Discovered(stored) \in SUBSET Txs /\ stops' \in Nat
      BY <1>1, <1>3, <1>8 DEF Recheck
  <2> QED
      BY <1>2, <1>5, <1>8, <2>1 DEF Recheck
<1>9. ASSUME NEW B \in SUBSET (1 .. target), NEW R, NEW N, NEW S \in SUBSET Txs,
             S \subseteq Discovered(B), ScanFetched(B, R, N, S),
             stored' = stored \/ stored' = stored \cup B,
             read' = read \/ read' = read \cup B,
             phase' \in {"idle", "blocks", "scanned"}, stops' \in Nat
      PROVE  ScanStep
  <2>1. \A h \in B : h \in Nat /\ h > 0 /\ h <= tip
      BY DEF TypeOK, ChainInv
  <2> QED
      BY <1>5, <1>9, <2>1 DEF ScanFetched
<1>10. ASSUME NEW B \in SUBSET (1 .. target), FullScan(B) \/ PendingScan(B)
       PROVE  ScanStep
  <2>1. CASE FullScan(B)
    <3>1. Discovered(B) \in SUBSET Txs /\ stops' \in Nat /\ phase' = "blocks"
        BY <1>1, <1>3, <2>1 DEF FullScan
    <3> QED
        BY <1>9, <2>1, <3>1 DEF FullScan
  <2>2. CASE PendingScan(B)
    <3>1. stops' \in Nat /\ phase' = "scanned"
        BY <1>1, <2>2 DEF PendingScan
    <3> QED
        BY <1>9, <2>2, <3>1 DEF PendingScan
  <2> QED
      BY <1>10, <2>1, <2>2
<1>11. ASSUME NEW B \in SUBSET (1 .. target), NEW R \in SUBSET Txs, NEW S \in SUBSET Txs,
              NEW N \in SUBSET Notes, ChunkStops(B, R, N, S)
       PROVE  ScanStep
    BY <1>1, <1>9, <1>11 DEF ChunkStops
<1> QED
    BY <1>6, <1>7, <1>8, <1>10, <1>11 DEF SomeScan

LEMMA NextType ==
    ASSUME Inv, [Next]_vars
    PROVE  TypeOK'
<1> TypeOK /\ ChainInv
    BY DEF Inv
<1>1. CASE MineBlock \/ TimePasses
  <2>1. /\ UNCHANGED <<noteVars, historyVars, syncVars, sendVars, stops, inputs,
                        expiry, inMempool>>
        /\ tip' \in Nat /\ clock' \in Nat /\ minedAt' \in [Txs -> Nat]
      BY <1>1 DEF TypeOK, MineBlock, TimePasses, ChainOnly
  <2>2. QED
      BY <2>1 DEF TypeOK, noteVars, historyVars, syncVars, sendVars
<1>2. CASE Send
  <2>1. ASSUME NEW n \in Notes, MarkSelected(n) PROVE TypeOK'
      BY <2>1 DEF TypeOK, MarkSelected, Spendable, historyVars, syncVars, chainVars
  <2>2. CASE RecordSent
      BY <2>2 DEF TypeOK, RecordSent, noteVars, syncVars, chainVars
  <2>3. QED
      BY <1>2, <2>1, <2>2, BuildType DEF Send
<1>3. CASE Sync
  <2>1. ASSUME NEW D, StartSync(D) PROVE TypeOK'
      BY <2>1 DEF TypeOK, StartSync, noteVars, historyVars, sendVars, chainVars
  <2>2. CASE UpdateConfirmations
    <3>1. rowHeight' \in [Txs -> Nat]
        BY <2>2, BackfilledBounds DEF UpdateConfirmations, ChainInv
    <3>2. QED
        BY <2>2, <3>1 DEF TypeOK, UpdateConfirmations, noteVars, sendVars, chainVars
  <2>3. CASE AutoRecover
      BY <2>3 DEF TypeOK, AutoRecover, sendVars, chainVars
  <2>4. ASSUME NEW F, FixNullifiers(F) PROVE TypeOK'
      BY <2>4 DEF TypeOK, FixNullifiers, noteVars, historyVars, sendVars, chainVars
  <2>5. CASE SkipBlocks
      BY <2>5 DEF TypeOK, SkipBlocks, noteVars, historyVars, sendVars, chainVars
  <2>6. CASE SomeScan
      BY <2>6, EveryScan DEF ScanStep, TypeOK, sendVars, chainVars
  <2>7. QED
      BY <1>3, <2>1, <2>2, <2>3, <2>4, <2>5, <2>6 DEF Sync, SomeScan
<1>4. CASE Stop
    BY <1>4 DEF TypeOK, Stop, noteVars, historyVars, chainVars
<1>5. CASE UNCHANGED vars
    BY <1>5 DEF TypeOK, vars, noteVars, historyVars, syncVars, sendVars, chainVars
<1>6. QED
    BY <1>1, <1>2, <1>3, <1>4, <1>5 DEF Next

-----------------------------------------------------------------------------
(* The inductive invariant.                                                 *)

LEMMA InitInv == Init => Inv
BY SubsetAssumption, NatAssumption
   DEF Init, Inv, TypeOK, ChainInv, SendInv, LedgerInv, ScannedSpendsStaySpent, Unconfirmed, Dated

LEMMA ChainKeepsInv ==
    ASSUME Inv, MineBlock \/ TimePasses
    PROVE  ChainInv' /\ SendInv' /\ LedgerInv'
<1>1. CASE MineBlock
  <2>1. tip' = tip + 1 /\ tip \in Nat
      BY <1>1 DEF MineBlock, Inv, TypeOK
  <2>2. ASSUME NEW t \in Txs
        PROVE  /\ minedAt'[t] = minedAt[t] \/ (minedAt'[t] = tip + 1 /\ t \in inMempool)
               /\ minedAt[t] \in Nat /\ minedAt[t] <= tip
      BY <1>1 DEF MineBlock, Minable, Inv, TypeOK, ChainInv
  <2>3. UNCHANGED <<noteVars, historyVars, syncVars, sendVars, inputs, inMempool, clock>>
      BY <1>1 DEF MineBlock, ChainOnly
  <2>4. ChainInv'
      BY <2>1, <2>2, <2>3 DEF Inv, TypeOK, ChainInv, noteVars, historyVars, syncVars
  <2>5. SendInv'
      BY <2>3 DEF Inv, SendInv, noteVars, historyVars, syncVars, sendVars
  <2>6. UNCHANGED <<scanned, read>> /\ \A h \in scanned \cup read : h <= tip
      BY <2>3 DEF Inv, ChainInv, syncVars
  <2>7. ScannedSpendsStaySpent'
      BY <2>1, <2>2, <2>3, <2>6 DEF Inv, LedgerInv, ScannedSpendsStaySpent, noteVars
  <2>8. LedgerInv'
    <3>1. ASSUME NEW t \in WithChange, minedAt'[t] \in read'
          PROVE  receivedHeight'[t] > 0
        BY <2>1, <2>2, <2>3, <2>6, <3>1, SubsetAssumption DEF Inv, LedgerInv, historyVars
    <3> QED
        BY <2>3, <2>7, <3>1
        DEF Inv, LedgerInv, Unconfirmed, Dated, noteVars, historyVars, syncVars
  <2>9. QED
      BY <2>4, <2>5, <2>8
<1>2. CASE TimePasses
  <2>1. clock' <= MaxClock
      BY <1>2, NatAssumption DEF TimePasses, Inv, TypeOK
  <2> QED
      BY <1>2, <2>1
      DEF TimePasses, ChainOnly, Inv, ChainInv, SendInv, LedgerInv, ScannedSpendsStaySpent,
          Unconfirmed, Dated, noteVars, historyVars, syncVars, sendVars
<1>3. QED
    BY <1>1, <1>2

LEMMA BuildKeepsInv ==
    ASSUME Inv, NEW t \in Txs, NEW S \in SUBSET Notes, NEW reached \in BOOLEAN,
           BroadcastAccepted(t, S, reached) \/ BroadcastRefused(t, S)
    PROVE  ChainInv' /\ SendInv' /\ LedgerInv'
<1>1. /\ phase = "idle" /\ sending = NoTx /\ inputs[t] = {} /\ S # {}
      /\ \A n \in S : spentBy[n] = NoTx
      /\ inputs' = [inputs EXCEPT ![t] = S]
      /\ inMempool \subseteq inMempool' /\ inMempool' \subseteq inMempool \cup {t}
      /\ UNCHANGED <<noteVars, historyVars, syncVars, minedAt, tip, clock>>
    BY DEF BroadcastAccepted, BroadcastRefused, Build, Spendable
<1>2. t \notin rows /\ t \notin inMempool /\ ~(minedAt[t] > 0)
    BY <1>1 DEF Inv, ChainInv, TypeOK
<1>3. /\ inputs'[t] = S
      /\ \A u \in Txs \ {t} : inputs'[u] = inputs[u]
    BY <1>1 DEF Inv, TypeOK
<1>4. ChainInv'
    BY <1>1, <1>2, <1>3 DEF Inv, ChainInv, TypeOK, noteVars, historyVars, syncVars
<1>5. SendInv'
  <2>1. CASE sending' = t /\ unmarked' = S
      BY <1>1, <1>2, <1>3, <2>1, NoTxAssumption
      DEF SendInv, noteVars, historyVars, syncVars
  <2>2. CASE UNCHANGED sendVars
      BY <1>1, <2>2 DEF Inv, SendInv, sendVars
  <2>3. QED
      BY <2>1, <2>2 DEF BroadcastAccepted, BroadcastRefused
<1>6. ScannedSpendsStaySpent'
    BY <1>1, <1>2, <1>3
    DEF Inv, TypeOK, ChainInv, LedgerInv, ScannedSpendsStaySpent, noteVars, syncVars
<1>7. LedgerInv'
    BY <1>1, <1>2, <1>3, <1>6
    DEF Inv, LedgerInv, Unconfirmed, Dated, noteVars, historyVars, syncVars
<1>8. QED
    BY <1>4, <1>5, <1>7

LEMMA MarkKeepsInv ==
    ASSUME Inv, NEW n \in Notes, MarkSelected(n)
    PROVE  ChainInv' /\ SendInv' /\ LedgerInv'
<1>1. sending \in Txs /\ sending # NoTx /\ spentBy[n] = NoTx /\ n \in inputs[sending]
    BY DEF MarkSelected, Inv, SendInv, TypeOK
<1>2. /\ spentBy' = [spentBy EXCEPT ![n] = sending]
      /\ spentHeight' = [spentHeight EXCEPT ![n] = 0]
      /\ unmarked' = unmarked \ {n}
      /\ UNCHANGED <<historyVars, syncVars, sending, chainVars>>
    BY <1>1 DEF MarkSelected, Spendable
<1>3. spentHeight[n] = 0
    BY <1>1 DEF Inv, LedgerInv, TypeOK
<1>4. spentHeight' = spentHeight
    BY <1>2, <1>3 DEF Inv, TypeOK
<1>5. /\ spentBy'[n] = sending
      /\ \A m \in Notes \ {n} : spentBy'[m] = spentBy[m]
    BY <1>2 DEF Inv, TypeOK
<1>6. ChainInv'
    BY <1>2, <1>4 DEF Inv, ChainInv, historyVars, syncVars, chainVars
<1>7. SendInv'
    BY <1>1, <1>2, <1>5 DEF Inv, TypeOK, SendInv, historyVars, syncVars, chainVars
<1>8. ScannedSpendsStaySpent' /\ phase' = "idle"
    BY <1>1, <1>2, <1>4
    DEF Inv, SendInv, LedgerInv, ScannedSpendsStaySpent, syncVars, chainVars
<1>9. ASSUME NEW t \in rows', Dated(t)', rowHeight'[t] = 0, NEW m \in Notes,
             spentBy'[m] = t, spentHeight'[m] = 0
      PROVE  \A k \in inputs'[t] : spentBy'[k] = t
  <2>1. /\ t \in rows /\ t # sending /\ t # NoTx /\ t \in Txs
        /\ inputs' = inputs /\ rowHeight[t] = 0 /\ Dated(t)
      BY <1>1, <1>2, <1>9, NoTxAssumption
      DEF Inv, TypeOK, SendInv, Dated, historyVars, chainVars
  <2>2. m # n /\ spentBy[m] = t
      BY <1>5, <1>9, <2>1
  <2>3. \A k \in inputs[t] : spentBy[k] = t /\ k \in Notes
      BY <1>4, <1>9, <2>1, <2>2 DEF Inv, TypeOK, LedgerInv
  <2>4. QED
      BY <1>1, <1>5, <2>1, <2>3
<1>10. LedgerInv'
    BY <1>1, <1>2, <1>4, <1>5, <1>8, <1>9, NoTxAssumption
    DEF Inv, LedgerInv, Dated, historyVars, syncVars, chainVars
<1>11. QED
    BY <1>6, <1>7, <1>10

LEMMA RecordKeepsInv ==
    ASSUME Inv, RecordSent
    PROVE  ChainInv' /\ SendInv' /\ LedgerInv'
<1>1. /\ sending \in Txs /\ phase = "idle" /\ inputs[sending] # {}
      /\ \A n \in inputs[sending] : spentBy[n] = sending
    BY DEF RecordSent, Inv, TypeOK, SendInv
<1>2. /\ rows' = rows \cup {sending} /\ sending' = NoTx /\ unmarked' = {}
      /\ UNCHANGED <<noteVars, receivedHeight, syncVars, chainVars>>
    BY DEF RecordSent
<1>3. ChainInv'
    BY <1>1, <1>2 DEF Inv, ChainInv, noteVars, syncVars, chainVars
<1>4. SendInv'
    BY <1>2 DEF SendInv
<1>5. ScannedSpendsStaySpent'
    BY <1>2 DEF Inv, LedgerInv, ScannedSpendsStaySpent, noteVars, syncVars, chainVars
<1>6. \A t \in Txs : t # sending => rowHeight'[t] = rowHeight[t] /\ sentAt'[t] = sentAt[t]
    BY DEF RecordSent, Inv, TypeOK
<1>7. ASSUME NEW t \in rows', Dated(t)', rowHeight'[t] = 0, NEW n \in Notes,
             spentBy'[n] = t, spentHeight'[n] = 0
      PROVE  \A m \in inputs'[t] : spentBy'[m] = t
  <2>1. UNCHANGED <<spentBy, spentHeight, inputs>>
      BY <1>2 DEF noteVars, chainVars
  <2>2. CASE t = sending
      BY <1>1, <2>1, <2>2
  <2>3. CASE t \in rows /\ t # sending
      BY <1>6, <1>7, <2>1, <2>3 DEF Inv, TypeOK, LedgerInv, Dated
  <2> QED
      BY <1>2, <2>2, <2>3
<1>8. \A t \in Txs \ rows' : ~Dated(t)'
    BY <1>2, <1>6 DEF Inv, LedgerInv, Dated
<1>9. LedgerInv'
    BY <1>1, <1>2, <1>5, <1>7, <1>8 DEF Inv, LedgerInv, noteVars, syncVars, chainVars
<1>10. QED
    BY <1>3, <1>4, <1>9

LEMMA StartKeepsInv ==
    ASSUME Inv, NEW D, StartSync(D)
    PROVE  ChainInv' /\ SendInv' /\ LedgerInv'
<1>1. \A h \in stored' : h \in Nat /\ h > 0 /\ h <= tip
    BY DEF StartSync, Inv, TypeOK
<1>2. /\ phase' = "delta" /\ target' = tip /\ sending' = NoTx /\ tip \in Nat
      /\ UNCHANGED <<noteVars, historyVars, scanned, read, misplaced, chainVars>>
    BY DEF StartSync, sendVars, Inv, TypeOK
<1>3. ChainInv'
  <2>1. \A h \in stored' \cup scanned' \cup read' : h > 0 /\ h <= tip
      BY <1>1, <1>2 DEF Inv, ChainInv
  <2>2. target' <= tip /\ UNCHANGED <<spentHeight, misplaced, rows, minedAt, inMempool, inputs,
                                     clock, tip>>
      BY <1>2 DEF Inv, TypeOK, noteVars, historyVars, chainVars
  <2> QED
      BY <2>1, <2>2 DEF Inv, ChainInv
<1>4. QED
    BY <1>2, <1>3 DEF Inv, SendInv, LedgerInv, ScannedSpendsStaySpent, Dated, noteVars,
                      historyVars, chainVars

LEMMA SkipKeepsInv ==
    ASSUME Inv, SkipBlocks
    PROVE  ChainInv' /\ SendInv' /\ LedgerInv'
BY DEF SkipBlocks, Inv, ChainInv, SendInv, LedgerInv, ScannedSpendsStaySpent, Dated,
       noteVars, historyVars, sendVars, chainVars

\* The rows a scan makes have no date: what dated rows are held to is not disturbed.
LEMMA ScanKeepsInv ==
    ASSUME Inv, ScanStep, ScannedSpendsStaySpent',
           \A t \in WithChange : minedAt[t] \in read' => receivedHeight'[t] > 0,
           phase' = "checked" =>
                \A n \in Notes : spentHeight'[n] > 0 /\ spentBy'[n] \in rows'
                                    /\ Dated(spentBy'[n]) =>
                    rowHeight'[spentBy'[n]] > 0 \/ ~Unconfirmed(spentBy[n])'
    PROVE  ChainInv' /\ SendInv' /\ LedgerInv'
<1>1. ChainInv'
    BY DEF ScanStep, Inv, TypeOK, ChainInv, chainVars
<1>2. SendInv'
    BY DEF ScanStep, SendInv, sendVars
<1>3. \A n \in Notes : spentHeight'[n] > 0 => spentBy'[n] # NoTx
    BY NoTxAssumption DEF ScanStep, Inv, LedgerInv
<1>4. ASSUME NEW t \in rows', Dated(t)', rowHeight'[t] = 0, NEW n \in Notes,
             spentBy'[n] = t, spentHeight'[n] = 0
      PROVE  \A m \in inputs'[t] : spentBy'[m] = t
  <2>1. t \in Txs /\ t # NoTx /\ Dated(t) /\ inputs' = inputs
      BY <1>4, NoTxAssumption DEF ScanStep, Dated, chainVars
  <2>2. t \in rows /\ rowHeight[t] = 0
      BY <1>4, <2>1 DEF ScanStep, Inv, LedgerInv
  <2>3. spentBy[n] = t /\ spentHeight[n] = 0
      BY <1>4 DEF ScanStep
  <2>4. \A m \in inputs[t] : m \in Notes /\ spentBy[m] = t
      BY <2>1, <2>2, <2>3 DEF Inv, TypeOK, LedgerInv
  <2>5. QED
      BY <2>1, <2>4 DEF ScanStep, Spendable
<1>5. \A t \in Txs \ rows' : ~Dated(t)'
    BY DEF ScanStep, Inv, LedgerInv, Dated
<1>6. minedAt' = minedAt /\ UNCHANGED sentAt
    BY DEF ScanStep, chainVars
<1>7. phase' \in {"confirmed", "recheck", "checked"} => phase' = "checked"
    BY DEF ScanStep
<1>8. QED
    BY <1>1, <1>2, <1>3, <1>4, <1>5, <1>6, <1>7 DEF LedgerInv, Dated

\* Whatever block a scan completes, its change has a received row.
LEMMA ReadIsReceived ==
    ASSUME Inv, SomeScan
    PROVE  \A t \in WithChange : minedAt[t] \in read' => receivedHeight'[t] > 0
<1> SUFFICES ASSUME NEW t \in WithChange, minedAt[t] \in read'
             PROVE  receivedHeight'[t] > 0
    OBVIOUS
<1>1. ScanStep /\ t \in Txs /\ \A h \in read' : h > 0
    BY EveryScan, SubsetAssumption DEF ScanStep
<1>2. CASE minedAt[t] \in read
    BY <1>1, <1>2 DEF Inv, LedgerInv, ScanStep
<1>3. ASSUME NEW D, read' = read \cup D, InsertReceived(Received(D)), minedAt[t] \in D
      PROVE  receivedHeight'[t] > 0
    BY <1>1, <1>3, ReceivedInserted DEF Received, Inv
<1>4. QED
    BY <1>2, <1>3 DEF SomeScan, DeltaScan, ScanDelta, DeltaScanStops, FullScan, PendingScan,
                      ScanFetched, ChunkStops, Recheck

\* A whole delta scan knows the spends of what it passes; other scans forget none.
LEMMA ScansKnow ==
    ASSUME Inv, SomeScan
    PROVE  ScannedSpendsStaySpent'
<1> SUFFICES ASSUME NEW n \in Notes \ Misplaced, NEW t \in Txs,
                    n \in inputs[t], minedAt[t] \in scanned'
             PROVE  spentHeight'[n] > 0
    BY EveryScan DEF ScannedSpendsStaySpent, ScanStep, chainVars
<1>1. CASE minedAt[t] \in scanned
    BY <1>1, EveryScan DEF ScanStep, Inv, LedgerInv, ScannedSpendsStaySpent
<1>2. CASE DeltaScan /\ minedAt[t] \in stored
  <2>1. Found(stored, n)
      BY <1>2 DEF FoundSpend, Found, Inv, ChainInv
  <2>2. MarkSpent(stored, Notes)
      BY <1>2 DEF DeltaScan, ScanDelta
  <2>3. \A h \in stored : h \in Nat /\ h > 0 /\ h <= tip
      BY DEF Inv, TypeOK, ChainInv
  <2> QED
      BY <2>1, <2>2, <2>3, MarkOfNote
<1>3. QED
    BY <1>1, <1>2 DEF SomeScan, DeltaScan, DeltaScanStops, FullScan, PendingScan,
                      ScanFetched, ChunkStops, Recheck

LEMMA ConfirmKeepsInv ==
    ASSUME Inv, UpdateConfirmations
    PROVE  ChainInv' /\ SendInv' /\ LedgerInv'
<1>1. /\ phase = "scanned" /\ phase' = "confirmed"
      /\ rowHeight' = [t \in Txs |-> BackfilledHeight(t)]
      /\ UNCHANGED <<noteVars, rows, receivedHeight, sentAt, stored, scanned, read, misplaced,
                     target, sendVars, chainVars>>
    BY DEF UpdateConfirmations
<1>2. ChainInv'
    BY <1>1 DEF Inv, ChainInv, noteVars, chainVars
<1>3. SendInv'
    BY <1>1 DEF Inv, SendInv, sendVars
<1>4. ScannedSpendsStaySpent'
    BY <1>1 DEF Inv, LedgerInv, ScannedSpendsStaySpent, noteVars, chainVars
<1>5. \A n \in Notes : spentHeight'[n] > 0 /\ spentBy'[n] \in rows' =>
            rowHeight'[spentBy'[n]] > 0
    BY <1>1, BackfilledBounds DEF Inv, TypeOK, ChainInv, noteVars
<1>6. \A t \in rows : rowHeight'[t] = 0 => rowHeight[t] = 0
    BY <1>1, BackfilledBounds DEF BackfilledHeight, Inv, TypeOK, ChainInv
<1>7. LedgerInv'
    BY <1>1, <1>4, <1>5, <1>6 DEF Inv, LedgerInv, Dated, noteVars, chainVars
<1>8. QED
    BY <1>2, <1>3, <1>7

LEMMA FixKeepsInv ==
    ASSUME Inv, NEW F, FixNullifiers(F)
    PROVE  ChainInv' /\ SendInv' /\ LedgerInv'
BY DEF FixNullifiers, Inv, TypeOK, ChainInv, SendInv, LedgerInv, ScannedSpendsStaySpent,
       Unconfirmed, Dated, noteVars, historyVars, sendVars, chainVars

\* The lookup at the end of a sync, after Step 9: it finds no spend by a send that
\* still holds another note unconfirmed, for that send holds all its notes.
LEMMA RecheckConfirms ==
    ASSUME Inv, Recheck, phase' = "checked", NEW n \in Notes, spentHeight'[n] > 0,
           spentBy'[n] \in rows', Dated(spentBy'[n])
    PROVE  rowHeight'[spentBy'[n]] > 0 \/ ~Unconfirmed(spentBy[n])'
<1> DEFINE t == spentBy'[n]
<1> SUFFICES ASSUME ~(rowHeight'[t] > 0), Unconfirmed(spentBy[n])' PROVE FALSE
    OBVIOUS
<1>1. ScanStep /\ phase = "recheck" /\ CrossReference(stored, Notes)
    BY EveryScan DEF Recheck, SomeScan
<1>2. t \in Txs /\ t # NoTx /\ t \in rows /\ rowHeight[t] = 0
    BY <1>1, NoTxAssumption DEF ScanStep, Inv, LedgerInv
<1>3. PICK k \in Notes : spentBy'[k] = t /\ spentHeight'[k] = 0
    BY DEF Unconfirmed
<1>4. spentBy[k] = t /\ spentHeight[k] = 0
    BY <1>1, <1>3 DEF ScanStep
<1>5. \A m \in inputs[t] : spentBy[m] = t
    BY <1>2, <1>4 DEF Inv, LedgerInv
<1>6. \A h \in stored : h \in Nat /\ h > 0 /\ h <= tip
    BY DEF Inv, TypeOK, ChainInv
<1>7. spentBy[n] = t /\ spentHeight[n] > 0
    BY <1>1, <1>2, <1>5, <1>6, LookupOfNote DEF Spendable
<1>8. QED
    BY <1>1, <1>2, <1>4, <1>7 DEF Inv, LedgerInv, Unconfirmed

LEMMA SomeScanKeepsInv ==
    ASSUME Inv, SomeScan
    PROVE  ChainInv' /\ SendInv' /\ LedgerInv'
<1>1. phase' = "checked" => Recheck
    BY DEF SomeScan, DeltaScan, ScanDelta, DeltaScanStops, FullScan, PendingScan,
           ChunkStops
<1>2. QED
    BY <1>1, EveryScan, ScansKnow, ReadIsReceived, RecheckConfirms, ScanKeepsInv

\* Recovery takes a note only if it was still unconfirmed.
LEMMA RecoveredIsReserved ==
    ASSUME Inv, phase = "checked", NEW n \in Notes,
           spentBy[n] # NoTx, Recoverable(spentBy[n])
    PROVE  spentHeight[n] = 0
<1>1. Dated(spentBy[n]) /\ spentBy[n] \in rows
    BY NatAssumption DEF Recoverable, Expired, Dated, Inv, TypeOK, ChainInv
<1>2. QED
    BY <1>1 DEF Recoverable, ConfirmedInHistory, Inv, TypeOK, LedgerInv

LEMMA RecoverKeepsInv ==
    ASSUME Inv, AutoRecover
    PROVE  ChainInv' /\ SendInv' /\ LedgerInv'
<1>1. /\ phase = "checked" /\ phase' = "idle"
      /\ UNCHANGED <<rows, rowHeight, receivedHeight, sentAt, stored, scanned, read, misplaced,
                     target, sendVars, chainVars>>
    BY DEF AutoRecover
<1>2. ASSUME NEW n \in Notes
      PROVE  /\ spentHeight'[n] = spentHeight[n]
             /\ spentBy'[n] = IF spentBy[n] # NoTx /\ Recoverable(spentBy[n])
                              THEN NoTx ELSE spentBy[n]
    BY RecoveredIsReserved DEF AutoRecover
<1>3. ChainInv'
    BY <1>1, <1>2 DEF Inv, ChainInv, chainVars
<1>4. SendInv'
    BY <1>1 DEF Inv, SendInv, sendVars
<1>5. ScannedSpendsStaySpent'
    BY <1>1, <1>2 DEF Inv, LedgerInv, ScannedSpendsStaySpent, chainVars
<1>6. \A n \in Notes : spentHeight'[n] > 0 => spentBy'[n] # NoTx
    BY <1>1, <1>2, RecoveredIsReserved DEF Inv, TypeOK, LedgerInv
<1>7. ASSUME NEW t \in rows', Dated(t)', rowHeight'[t] = 0, NEW n \in Notes,
             spentBy'[n] = t, spentHeight'[n] = 0
      PROVE  \A m \in inputs'[t] : spentBy'[m] = t
  <2>1. /\ t \in rows /\ Dated(t) /\ rowHeight[t] = 0 /\ t # NoTx /\ t \in Txs
        /\ inputs' = inputs
      BY <1>1, <1>7, NoTxAssumption DEF Inv, TypeOK, Dated, chainVars
  <2>2. spentBy[n] = t /\ ~Recoverable(t) /\ spentHeight[n] = 0
      BY <1>2, <1>7, <2>1
  <2>3. \A m \in inputs[t] : spentBy[m] = t /\ m \in Notes
      BY <2>1, <2>2 DEF Inv, TypeOK, LedgerInv
  <2>4. QED
      BY <1>2, <2>1, <2>2, <2>3
<1>8. LedgerInv'
    BY <1>1, <1>5, <1>6, <1>7 DEF Inv, LedgerInv, Dated, chainVars
<1>9. QED
    BY <1>3, <1>4, <1>8

LEMMA StopKeepsInv ==
    ASSUME Inv, Stop
    PROVE  ChainInv' /\ SendInv' /\ LedgerInv'
BY DEF Stop, Inv, ChainInv, SendInv, LedgerInv, ScannedSpendsStaySpent, Dated, noteVars,
       historyVars, chainVars

LEMMA NextInv == Inv /\ [Next]_vars => Inv'
<1>1. ASSUME Inv, [Next]_vars PROVE TypeOK'
    BY <1>1, NextType DEF Inv
<1>2. ASSUME Inv, Next PROVE ChainInv' /\ SendInv' /\ LedgerInv'
  <2>1. CASE MineBlock \/ TimePasses
      BY <1>2, <2>1, ChainKeepsInv
  <2>2. CASE Send
      BY <1>2, <2>2, BuildKeepsInv, MarkKeepsInv, RecordKeepsInv DEF Send
  <2>3. CASE Sync
      BY <1>2, <2>3, StartKeepsInv, SomeScanKeepsInv, SkipKeepsInv, ConfirmKeepsInv,
         FixKeepsInv, RecoverKeepsInv DEF Sync, SomeScan
  <2>4. CASE Stop
      BY <1>2, <2>4, StopKeepsInv
  <2>5. QED
      BY <1>2, <2>1, <2>2, <2>3, <2>4 DEF Next
<1>3. ASSUME Inv, UNCHANGED vars PROVE ChainInv' /\ SendInv' /\ LedgerInv'
    BY <1>3 DEF vars, noteVars, historyVars, syncVars, sendVars, chainVars, Inv,
                ChainInv, SendInv, LedgerInv, ScannedSpendsStaySpent, Unconfirmed, Dated
<1>4. QED
    BY <1>1, <1>2, <1>3 DEF Inv

THEOREM Invariance == Spec => []Inv
BY InitInv, NextInv, PTL DEF Spec

\* Few steps touch a note.
LEMMA NoteSteps ==
    ASSUME [Next]_vars
    PROVE  \/ UNCHANGED noteVars
           \/ \E n \in Notes : MarkSelected(n)
           \/ SomeScan \/ AutoRecover
BY DEF Next, Sync, Send, SomeScan, vars, MineBlock, TimePasses, ChainOnly, BroadcastAccepted,
       BroadcastRefused, Build, RecordSent, StartSync, SkipBlocks, UpdateConfirmations,
       FixNullifiers, Stop

-----------------------------------------------------------------------------
(* What follows from it.                                                    *)

\* The tables of the wallet stay well formed through sends, syncs and stops.
THEOREM TypeCorrect == Spec => []TypeOK
<1>1. Inv => TypeOK
    BY DEF Inv
<1>2. QED
    BY <1>1, Invariance, PTL

\* A spend found on the chain by a whole delta scan is never forgotten, whichever
\* sends, other scans, recoveries and stops follow it.
THEOREM SpendsStayKnown == Spec => []ScannedSpendsStaySpent
<1>1. Inv => ScannedSpendsStaySpent
    BY DEF Inv, LedgerInv
<1>2. QED
    BY <1>1, Invariance, PTL

\* No note of a transaction in a block that a delta scan has passed is given back,
\* and none of one with change in a block that any scan has. The part of the
\* invariant it needs most is that a dated reservation covers all inputs of its
\* transaction: the one input the scan recognises confirms the row that protects
\* the others.
THEOREM RecoveryIsSafe == Spec => RecoverySparesMined
<1>1. ASSUME Inv, [Next]_vars, NEW n \in Notes, spentBy[n] # NoTx, spentBy'[n] = NoTx
      PROVE  /\ ~( /\ minedAt[spentBy[n]] \in scanned
                   /\ inputs[spentBy[n]] \ Misplaced # {})
             /\ ~(minedAt[spentBy[n]] \in read /\ spentBy[n] \in WithChange)
  <2> DEFINE t == spentBy[n]
  <2>1. AutoRecover
    <3>1. ~(\E m \in Notes : MarkSelected(m))
        BY <1>1 DEF MarkSelected, Spendable, Inv, TypeOK, SendInv
    <3>2. ~SomeScan
        BY <1>1, EveryScan, NoTxAssumption DEF ScanStep, Spendable
    <3> QED
        BY <1>1, <3>1, <3>2, NoteSteps DEF noteVars
  <2>2. phase = "checked" /\ Recoverable(t) /\ t \in Txs /\ t \in rows /\ Dated(t)
      BY <1>1, <2>1, NatAssumption
      DEF AutoRecover, Recoverable, Expired, Dated, Inv, TypeOK, ChainInv
  <2>3. \A m \in inputs[t] : m \in Notes /\ spentBy[m] = t
    <3>1. PICK k \in Notes : spentBy[k] = t /\ spentHeight[k] = 0
        BY <2>2 DEF Recoverable, Unconfirmed
    <3>2. rowHeight[t] = 0
        BY <1>1, <2>2 DEF Recoverable, ConfirmedInHistory, Inv, TypeOK
    <3>3. QED
        BY <1>1, <2>2, <3>1, <3>2 DEF Inv, LedgerInv, TypeOK
  <2>4. ASSUME minedAt[t] \in scanned, NEW m \in inputs[t] \ Misplaced
        PROVE  FALSE
    <3>1. spentHeight[m] > 0
        BY <1>1, <2>2, <2>3, <2>4 DEF Inv, LedgerInv, ScannedSpendsStaySpent
    <3>2. rowHeight[t] > 0
        BY <1>1, <2>2, <2>3, <3>1 DEF Inv, LedgerInv, Recoverable
    <3>3. QED
        BY <2>2, <3>2 DEF Recoverable, ConfirmedInHistory
  <2>5. ASSUME minedAt[t] \in read, t \in WithChange
        PROVE  FALSE
      BY <1>1, <2>2, <2>5 DEF Inv, LedgerInv, Recoverable, ConfirmedInHistory
  <2>6. QED
      BY <2>4, <2>5
<1>2. Inv /\ [Next]_vars =>
        [\A n \in Notes : spentBy[n] # NoTx /\ spentBy'[n] = NoTx =>
            LET t == spentBy[n]
            IN  /\ ~(minedAt[t] \in scanned /\ inputs[t] \ Misplaced # {})
                /\ ~(minedAt[t] \in read /\ t \in WithChange)]_vars
    BY <1>1
<1>3. QED
    BY <1>2, Invariance, PTL DEF Spec, RecoverySparesMined

-----------------------------------------------------------------------------
(* The ledger implements the vault.                                         *)

Status == [n \in Notes |-> NoteStatus(n)]

\* A step that moves the notes of S from one status to another, and no other
\* note, is a step of the vault or no step at all.
LEMMA VaultMove ==
    ASSUME NEW S \in SUBSET Notes, NEW to,
           \/ to = "reserved" /\ \A n \in S : Status[n] \in {"available"}
           \/ to = "available" /\ \A n \in S : Status[n] \in {"reserved"}
           \/ to = "spent" /\ \A n \in S : Status[n] \in {"available", "reserved"},
           \A n \in Notes : Status'[n] = IF n \in S THEN to ELSE Status[n]
    PROVE  [Vault!VaultNext]_Status
<1>1. Status' = [n \in Notes |-> IF n \in S THEN to ELSE Status[n]]
    BY DEF Status
<1>2. CASE S = {}
  <2>1. Status' = Status
      BY <1>1, <1>2 DEF Status
  <2>2. QED
      BY <2>1
<1>3. CASE S # {}
  <2>1. \/ Vault!Move(S, {"available"}, "reserved")
        \/ Vault!Move(S, {"reserved"}, "available")
        \/ Vault!Move(S, {"available", "reserved"}, "spent")
      BY <1>1, <1>3 DEF Vault!Move, Status
  <2>2. QED
      BY <2>1 DEF Vault!VaultNext, Vault!Reserve, Vault!Release, Vault!Confirm
<1>4. QED
    BY <1>2, <1>3

LEMMA StepRefines ==
    ASSUME Inv, [Next]_vars
    PROVE  [Vault!VaultNext]_Status
<1>1. CASE UNCHANGED noteVars
    BY <1>1 DEF noteVars, Status, NoteStatus
<1>2. ASSUME NEW m \in Notes, MarkSelected(m) PROVE [Vault!VaultNext]_Status
  <2>1. spentBy[m] = NoTx /\ sending # NoTx
      BY <1>2 DEF MarkSelected, Inv, SendInv, TypeOK
  <2>2. Status[m] = "available" /\ Status'[m] = "reserved"
      BY <1>2, <2>1 DEF MarkSelected, Spendable, Status, NoteStatus, Inv, TypeOK
  <2>3. \A n \in Notes \ {m} : Status'[n] = Status[n]
      BY <1>2 DEF MarkSelected, Status, NoteStatus, Inv, TypeOK
  <2>4. QED
      BY <2>2, <2>3, VaultMove
<1>3. CASE SomeScan
  <2> DEFINE S == {n \in Notes : spentHeight[n] = 0 /\ spentHeight'[n] > 0}
  <2>1. \A n \in S : Status[n] \in {"available", "reserved"}
      BY DEF Status, NoteStatus
  <2>2. ASSUME NEW n \in Notes
        PROVE  Status'[n] = IF n \in S THEN "spent" ELSE Status[n]
      BY <1>3, EveryScan, NoTxAssumption
      DEF ScanStep, Status, NoteStatus, Inv, TypeOK, LedgerInv
  <2>3. QED
      BY <2>1, <2>2, VaultMove
<1>5. CASE AutoRecover
  <2> DEFINE S == {n \in Notes : spentBy[n] # NoTx /\ Recoverable(spentBy[n])}
  <2>1. \A n \in S : Status[n] = "reserved"
      BY <1>5, RecoveredIsReserved DEF AutoRecover, Status, NoteStatus
  <2>2. ASSUME NEW n \in Notes
        PROVE  Status'[n] = IF n \in S THEN "available" ELSE Status[n]
      BY <1>5 DEF AutoRecover, Status, NoteStatus
  <2>3. QED
      BY <2>1, <2>2, VaultMove
<1>6. QED
    BY <1>1, <1>2, <1>3, <1>5, NoteSteps

\* Every behaviour of the ledger is one of the vault: the initial notes are
\* available and every step moves notes as the vault allows, or none.
THEOREM LedgerImplementsVault == Spec => ImplementsVault
<1>1. Init => Vault!VaultInit
    BY DEF Init, Vault!VaultInit, NoteStatus
<1>2. Inv /\ [Next]_vars => [Vault!VaultNext]_[n \in Notes |-> NoteStatus(n)]
    BY StepRefines DEF Status
<1>3. QED
    BY <1>1, <1>2, Invariance, PTL DEF Spec, ImplementsVault, Vault!VaultSpec
-----------------------------------------------------------------------------
(* What a stop leaves behind.                                               *)

\* A note is only ever held by a transaction that spends it.
Owned == \A n \in Notes : spentBy[n] # NoTx => n \in inputs[spentBy[n]]

\* Reserved by a transaction that is neither in the history nor on its way there: the
\* recovery, which asks the history, never gives such a note back.
Stranded ==
    {n \in Notes : /\ spentBy[n] # NoTx /\ spentHeight[n] = 0
                   /\ spentBy[n] \notin rows /\ spentBy[n] # sending}

LEMMA StaysOwned ==
    ASSUME Inv, Owned, [Next]_vars
    PROVE  Owned'
<1> SUFFICES ASSUME NEW n \in Notes, spentBy'[n] # NoTx
             PROVE  n \in inputs'[spentBy'[n]]
    BY DEF Owned
<1> TypeOK
    BY DEF Inv
<1>1. CASE UNCHANGED noteVars
  <2>1. spentBy'[n] = spentBy[n] /\ n \in inputs[spentBy[n]] /\ spentBy[n] \in Txs
      BY <1>1 DEF noteVars, Owned, TypeOK
  <2>2. CASE UNCHANGED inputs
      BY <2>1, <2>2
  <2>3. ASSUME NEW t \in Txs, NEW S \in SUBSET Notes, NEW reached \in BOOLEAN,
               Build(t, S, reached)
        PROVE  n \in inputs'[spentBy'[n]]
    <3>1. inputs[t] = {} /\ inputs' = [inputs EXCEPT ![t] = S]
        BY <2>3 DEF Build
    <3>2. t # spentBy[n]
        BY <2>1, <3>1
    <3> QED
        BY <2>1, <3>1, <3>2 DEF TypeOK
  <2> QED
      BY <1>1, <2>2, <2>3
      DEF Next, Send, Sync, vars, chainVars, MineBlock, TimePasses, BroadcastAccepted,
          BroadcastRefused, MarkSelected, RecordSent, StartSync, DeltaScan, DeltaScanStops,
          ScanDelta, FullScan, PendingScan, ChunkStops, ScanFetched, SkipBlocks,
          UpdateConfirmations, FixNullifiers, Recheck, AutoRecover, Stop
<1>2. ASSUME NEW m \in Notes, MarkSelected(m) PROVE n \in inputs'[spentBy'[n]]
  <2>1. m \in inputs[sending] /\ inputs' = inputs
      BY <1>2 DEF MarkSelected, Inv, SendInv, TypeOK, chainVars
  <2>2. spentBy'[n] = spentBy[n] \/ (n = m /\ spentBy'[n] = sending)
      BY <1>2 DEF MarkSelected, TypeOK
  <2> QED
      BY <2>1, <2>2 DEF Owned
<1>3. CASE SomeScan
    BY <1>3, EveryScan DEF ScanStep, Spendable, Owned, chainVars
<1>5. CASE AutoRecover
    BY <1>5 DEF AutoRecover, chainVars, Owned
<1> QED
    BY <1>1, <1>2, <1>3, <1>5, NoteSteps

\* A step strands no note but those of a send that it ends without its row.
LEMMA OneStepStrands ==
    ASSUME Inv, [Next]_vars, NEW n \in Stranded', n \notin Stranded
    PROVE  Stop /\ sending # NoTx /\ spentBy[n] = sending
<1> n \in Notes /\ TypeOK
    BY DEF Stranded, Inv
<1>1. /\ spentBy'[n] # NoTx /\ spentHeight'[n] = 0
      /\ spentBy'[n] \notin rows' /\ spentBy'[n] # sending'
    BY DEF Stranded
<1>2. ~(\E m \in Notes : MarkSelected(m))
  <2> SUFFICES ASSUME NEW m \in Notes, MarkSelected(m) PROVE FALSE
      OBVIOUS
  <2>1. rows' = rows /\ sending' = sending
      BY DEF MarkSelected, historyVars
  <2>2. spentBy'[n] = sending \/ (spentBy'[n] = spentBy[n] /\ (n # m \/ ~Spendable(m)))
      BY DEF MarkSelected, TypeOK, Spendable
  <2>3. spentBy'[n] = spentBy[n] /\ spentHeight'[n] = spentHeight[n]
      BY <1>1, <2>1, <2>2 DEF MarkSelected, TypeOK, Spendable
  <2> QED
      BY <1>1, <2>1, <2>3 DEF Stranded
<1>3. ~SomeScan
    BY <1>1, EveryScan DEF ScanStep, Stranded, sendVars
<1>5. ~AutoRecover
    BY <1>1 DEF AutoRecover, sendVars, Stranded
<1>6. UNCHANGED noteVars
    BY <1>2, <1>3, <1>5, NoteSteps
<1>7. spentBy[n] \in rows \cup {sending}
    BY <1>1, <1>6 DEF Stranded, noteVars
<1>8. ~RecordSent /\ rows \subseteq rows'
    BY <1>1, <1>2, <1>3, <1>5, <1>6, <1>7
    DEF Next, Sync, Send, SomeScan, vars, historyVars, noteVars, MineBlock, TimePasses,
        ChainOnly, BroadcastAccepted, BroadcastRefused, Build, RecordSent, StartSync,
        SkipBlocks, UpdateConfirmations, FixNullifiers, Stop
<1>9. spentBy[n] = sending /\ sending # NoTx /\ sending' # sending
    BY <1>1, <1>6, <1>7, <1>8 DEF noteVars
<1> QED
    BY <1>2, <1>3, <1>5, <1>8, <1>9
    DEF Next, Sync, Send, SomeScan, vars, sendVars, MineBlock, TimePasses, ChainOnly, Build,
        BroadcastAccepted, BroadcastRefused, StartSync, SkipBlocks, UpdateConfirmations,
        FixNullifiers

\* The safety core of NotesAreNotHeldForever, which speaks of recorded sends: a note is
\* held by a send that spends it, and a note the recovery cannot give back is an input of
\* a send the process stopped in. Without a stop there is none, and no failed broadcast,
\* scan, correction or recovery makes one.
THEOREM OnlyStopsStrand ==
    Spec => /\ [](Owned /\ (stops = 0 => Stranded = {}))
            /\ [][\A n \in Stranded' \ Stranded : sending # NoTx /\ n \in inputs[sending]]_vars
<1>1. Init => Owned /\ (stops = 0 => Stranded = {})
    BY DEF Init, Owned, Stranded
<1>2. ASSUME Inv, [Next]_vars, stops = 0 => Stranded = {}, stops' = 0
      PROVE  Stranded' = {}
  <2>1. stops = 0 /\ ~Stop
      BY <1>2 DEF Next, Sync, Send, vars, MineBlock, TimePasses, ChainOnly, Build,
         BroadcastAccepted, BroadcastRefused, MarkSelected, RecordSent, StartSync, DeltaScan,
         DeltaScanStops, FullScan, PendingScan, ChunkStops, SkipBlocks, UpdateConfirmations,
         FixNullifiers, Recheck, AutoRecover, Stop, Inv, TypeOK
  <2> QED
      BY <1>2, <2>1, OneStepStrands
<1>3. Inv /\ [Next]_vars /\ Owned /\ (stops = 0 => Stranded = {})
      => (Owned /\ (stops = 0 => Stranded = {}))'
    BY <1>2, StaysOwned
<1>4. Inv /\ Owned /\ [Next]_vars
      => [\A n \in Stranded' \ Stranded : sending # NoTx /\ n \in inputs[sending]]_vars
  <2> SUFFICES ASSUME Inv, Owned, [Next]_vars, NEW n \in Stranded' \ Stranded
               PROVE  sending # NoTx /\ n \in inputs[sending]
      OBVIOUS
  <2>1. sending # NoTx /\ spentBy[n] = sending /\ n \in Notes
      BY OneStepStrands DEF Stranded
  <2> QED
      BY <2>1 DEF Owned
<1> QED
    BY <1>1, <1>3, <1>4, Invariance, PTL DEF Spec
=============================================================================
