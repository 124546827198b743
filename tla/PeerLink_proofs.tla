--------------------------- MODULE PeerLink_proofs ---------------------------
(***************************************************************************)
(* For every set of calls and commands, however many messages the remote   *)
(* sends: the tables of the dispatcher and the state of a connection are   *)
(* well formed, a sender whose receiver waits is in exactly one place, no  *)
(* request waits on a listener that can no longer reach it, a request gets *)
(* its own answer unless the connection was spoiled for its command, and   *)
(* no error path of a sender loses the writer.                             *)
(***************************************************************************)
EXTENDS PeerLink, SequenceTheorems, TLAPS

\* The sender of w is in the queue of command c.
QueuedFor(w, c) == \E i \in DOMAIN pending[c] : pending[c][i] = w

-----------------------------------------------------------------------------
(* The operations of the dispatcher keep its tables well formed.            *)

LEMMA RegisterHandlerType ==
    ASSUME DispatcherTypeOK, NEW w \in Waiters, NEW c \in Commands,
           RegisterHandler(w, c)
    PROVE  DispatcherTypeOK'
<1>1. Append(pending[c], w) \in Seq(Waiters)
    BY DEF DispatcherTypeOK
<1>2. QED
    BY <1>1 DEF DispatcherTypeOK, RegisterHandler, ReceiverStates

LEMMA RegisterBatchType ==
    ASSUME DispatcherTypeOK, NEW w \in Waiters, NEW c \in Commands, NEW n \in Nat,
           RegisterBatch(w, c, n)
    PROVE  DispatcherTypeOK'
<1>1. [owner |-> w, expected |-> n, collected |-> <<>>] \in Collector
    BY DEF Collector
<1>2. QED
    BY <1>1 DEF DispatcherTypeOK, RegisterBatch, ReceiverStates

LEMMA RegisterBroadcastType ==
    ASSUME DispatcherTypeOK, NEW w \in Waiters, NEW t \in Txids,
           RegisterBroadcast(w, t)
    PROVE  DispatcherTypeOK'
<1>1. receiver' \in [Waiters -> ReceiverStates]
    BY DEF DispatcherTypeOK, RegisterBroadcast, ReceiverStates
<1>2. QED
    BY <1>1 DEF DispatcherTypeOK, RegisterBroadcast

LEMMA DropReceiverType ==
    ASSUME DispatcherTypeOK, NEW w \in Waiters, DropReceiver(w)
    PROVE  DispatcherTypeOK'
BY DEF DispatcherTypeOK, DropReceiver, ReceiverStates

LEMMA DispatchToBatchType ==
    ASSUME DispatcherTypeOK, NEW c \in Commands, NEW p \in Replies,
           DispatchToBatch(c, p)
    PROVE  DispatcherTypeOK'
<1> DEFINE first == Head(collectors[c])
           filled == [first EXCEPT !.collected = Append(@, p)]
<1>1. /\ collectors[c] \in Seq(Collector)
      /\ collectors[c] # <<>>
    BY DEF DispatcherTypeOK, DispatchToBatch
<1>2. first \in Collector /\ Tail(collectors[c]) \in Seq(Collector)
    BY <1>1, HeadTailProperties
<1>3. filled \in Collector
  <2>1. first.collected \in Seq(Replies)
      BY <1>2 DEF Collector
  <2>2. Append(first.collected, p) \in Seq(Replies)
      BY <2>1
  <2>3. QED
      BY <1>2, <2>2 DEF Collector
<1>4. <<filled>> \o Tail(collectors[c]) \in Seq(Collector)
    BY <1>2, <1>3
<1>5. first.owner \in Waiters /\ filled.collected \in Seq(Replies)
    BY <1>2, <1>3 DEF Collector
<1>6. collectors' \in [Commands -> Seq(Collector)]
    BY <1>2, <1>4 DEF DispatcherTypeOK, DispatchToBatch
<1>7. receiver' \in [Waiters -> ReceiverStates]
    BY <1>5 DEF DispatcherTypeOK, DispatchToBatch, ReceiverStates
<1>8. inbox' \in [Waiters -> Seq(Replies)]
    BY <1>5 DEF DispatcherTypeOK, DispatchToBatch
<1>9. QED
    BY <1>6, <1>7, <1>8 DEF DispatcherTypeOK, DispatchToBatch

LEMMA DispatchToHandlerType ==
    ASSUME DispatcherTypeOK, NEW c \in Commands, NEW p \in Replies,
           DispatchToHandler(c, p)
    PROVE  DispatcherTypeOK'
<1>1. PICK i \in DOMAIN pending[c] :
        /\ pending' = [pending EXCEPT ![c] = SubSeq(@, i + 1, Len(@))]
        /\ receiver' = [receiver EXCEPT ![pending[c][i]] = "got"]
        /\ inbox' = [inbox EXCEPT ![pending[c][i]] = <<p>>]
    BY DEF DispatchToHandler
<1>2. pending[c] \in Seq(Waiters)
    BY DEF DispatcherTypeOK
<1>3. SubSeq(pending[c], i + 1, Len(pending[c])) \in Seq(Waiters)
    BY <1>2, ElementOfSeq, LenProperties, SubSeqProperties
<1>4. pending' \in [Commands -> Seq(Waiters)]
    BY <1>1, <1>3 DEF DispatcherTypeOK
<1>5. pending[c][i] \in Waiters /\ "got" \in ReceiverStates
    BY <1>2, ElementOfSeq, LenProperties DEF ReceiverStates
<1>6. receiver' \in [Waiters -> ReceiverStates] /\ inbox' \in [Waiters -> Seq(Replies)]
    BY <1>1, <1>5 DEF DispatcherTypeOK
<1>7. QED
    BY <1>4, <1>6 DEF DispatcherTypeOK, DispatchToHandler

LEMMA DispatchRejectType ==
    ASSUME DispatcherTypeOK, NEW c \in Commands, NEW p \in Replies,
           DispatchReject(c, p)
    PROVE  DispatcherTypeOK'
<1>1. <<>> \in Seq(Waiters) /\ <<p>> \in Seq(Replies)
    OBVIOUS
<1>2. QED
    BY <1>1 DEF DispatcherTypeOK, DispatchReject, ReceiverStates

LEMMA DispatchedType ==
    ASSUME DispatcherTypeOK, NEW c \in Commands, NEW p \in Replies,
           Dispatched(c, p)
    PROVE  DispatcherTypeOK'
BY DispatchToBatchType, DispatchToHandlerType, DispatchRejectType DEF Dispatched

LEMMA NotDispatchedType ==
    ASSUME DispatcherTypeOK, NEW c \in Commands, NotDispatched(c)
    PROVE  DispatcherTypeOK'
<1>1. <<>> \in Seq(Waiters)
    OBVIOUS
<1>2. QED
    BY <1>1 DEF DispatcherTypeOK, NotDispatched

LEMMA ActivateType ==
    ASSUME DispatcherTypeOK, Activate
    PROVE  DispatcherTypeOK'
BY DEF DispatcherTypeOK, Activate

LEMMA DeactivateType ==
    ASSUME DispatcherTypeOK, Deactivate
    PROVE  DispatcherTypeOK'
<1>1. ASSUME NEW w \in Waiters,
             \E c \in Commands : \E i \in DOMAIN collectors[c] :
                collectors[c][i].owner = w
      PROVE  Partial(w) \in Seq(Replies)
  <2>1. \A c \in Commands : \A i \in DOMAIN collectors[c] :
            collectors[c][i].collected \in Seq(Replies)
    <3> TAKE c \in Commands
    <3> TAKE i \in DOMAIN collectors[c]
    <3>1. collectors[c] \in Seq(Collector)
        BY DEF DispatcherTypeOK
    <3>2. collectors[c][i] \in Collector
        BY <3>1, ElementOfSeq, LenProperties
    <3>3. QED
        BY <3>2 DEF Collector
  <2>2. QED
      BY <1>1, <2>1 DEF Partial
<1>2. inbox' \in [Waiters -> Seq(Replies)]
    BY <1>1 DEF DispatcherTypeOK, Deactivate, CancelAll
<1>3. receiver' \in [Waiters -> ReceiverStates]
    BY DEF DispatcherTypeOK, Deactivate, CancelAll, ReceiverStates
<1>4. /\ pending' \in [Commands -> Seq(Waiters)]
      /\ collectors' \in [Commands -> Seq(Collector)]
      /\ broadcastHandlers' \in [Txids -> Waiters \cup {NoWaiter}]
      /\ active' \in BOOLEAN
  <2>1. <<>> \in Seq(Waiters) /\ <<>> \in Seq(Collector)
      BY EmptySeq
  <2>2. QED
      BY <2>1, Zenon DEF Deactivate, CancelAll
<1>5. QED
    BY <1>2, <1>3, <1>4 DEF DispatcherTypeOK

-----------------------------------------------------------------------------
(* A receiver that waits before and after an operation keeps its sender in  *)
(* the queue of its command.                                                *)

LEMMA RegisterHandlerQueues ==
    ASSUME DispatcherTypeOK, NEW w \in Waiters, NEW c \in Commands,
           RegisterHandler(w, c)
    PROVE  /\ QueuedFor(w, c)'
           /\ \A v \in Waiters, d \in Commands : QueuedFor(v, d) => QueuedFor(v, d)'
<1>1. pending[c] \in Seq(Waiters)
    BY DEF DispatcherTypeOK
<1>2. pending' = [pending EXCEPT ![c] = Append(@, w)]
    BY DEF RegisterHandler
<1>3. /\ Len(pending[c]) \in Nat
      /\ DOMAIN pending[c] = 1 .. Len(pending[c])
      /\ DOMAIN pending'[c] = 1 .. (Len(pending[c]) + 1)
      /\ pending'[c][Len(pending[c]) + 1] = w
      /\ \A i \in 1 .. Len(pending[c]) : pending'[c][i] = pending[c][i]
    BY <1>1, <1>2 DEF DispatcherTypeOK
<1>4. QueuedFor(w, c)'
    BY <1>3 DEF QueuedFor
<1>5. ASSUME NEW v \in Waiters, NEW d \in Commands, QueuedFor(v, d)
      PROVE  QueuedFor(v, d)'
  <2>1. CASE d = c
    <3>1. PICK i \in 1 .. Len(pending[c]) : pending[c][i] = v
        BY <1>3, <1>5, <2>1 DEF QueuedFor
    <3>2. i \in DOMAIN pending'[c] /\ pending'[c][i] = v
        BY <1>3, <3>1
    <3>3. QED
        BY <2>1, <3>2 DEF QueuedFor
  <2>2. CASE d # c
    <3>1. pending'[d] = pending[d]
        BY <1>2, <2>2 DEF DispatcherTypeOK
    <3>2. QED
        BY <1>5, <3>1 DEF QueuedFor
  <2>3. QED
      BY <2>1, <2>2
<1>6. QED
    BY <1>4, <1>5

\* What is left of a sequence after its first i elements.
LEMMA RestOfQueue ==
    ASSUME NEW S, NEW q \in Seq(S), NEW i \in DOMAIN q, NEW s, s = SubSeq(q, i + 1, Len(q))
    PROVE  /\ i \in Nat
           /\ \A j \in DOMAIN s : j \in Nat \ {0} /\ i + j \in DOMAIN q /\ s[j] = q[i + j]
           /\ \A k \in DOMAIN q : k > i => k - i \in DOMAIN s /\ k \in Nat
<1>1. Len(q) \in Nat /\ DOMAIN q = 1 .. Len(q) /\ i \in 1 .. Len(q)
    BY LenProperties
<1>2. /\ Len(s) = IF i + 1 <= Len(q) THEN Len(q) - i ELSE 0
      /\ \A j \in 1 .. Len(q) - i : s[j] = q[i + j]
      /\ s \in Seq(S)
  <2>1. \A j \in (i + 1) .. Len(q) : q[j] \in S
      BY <1>1, ElementOfSeq
  <2>2. i + 1 \in Int /\ Len(q) \in Int
      BY <1>1
  <2> QED
      BY <1>1, <2>1, <2>2, SubSeqProperties
<1>3. DOMAIN s = 1 .. (Len(q) - i)
  <2>1. DOMAIN s = 1 .. Len(s)
      BY <1>2, LenProperties
  <2> QED
      BY <1>1, <1>2, <2>1
<1>4. \A j \in DOMAIN s : j \in Nat \ {0} /\ i + j \in DOMAIN q /\ s[j] = q[i + j]
    BY <1>1, <1>2, <1>3
<1>5. \A k \in DOMAIN q : k > i => k - i \in DOMAIN s /\ k \in Nat
    BY <1>1, <1>3
<1> QED
    BY <1>1, <1>4, <1>5

\* Popping the queue of a command moves its later senders to the front.
LEMMA QueueMoves ==
    ASSUME DispatcherTypeOK, NEW c \in Commands, NEW i \in DOMAIN pending[c],
           pending' = [pending EXCEPT ![c] = SubSeq(@, i + 1, Len(@))]
    PROVE  /\ i \in Nat
           /\ \A d \in Commands : d # c => pending'[d] = pending[d]
           /\ \A j \in DOMAIN pending'[c] :
                    i + j \in DOMAIN pending[c] /\ pending'[c][j] = pending[c][i + j] /\ j \in Nat \ {0}
           /\ \A k \in DOMAIN pending[c] :
                    k > i => k - i \in DOMAIN pending'[c] /\ k \in Nat
<1> DEFINE q == pending[c]
           s == pending'[c]
<1>1. q \in Seq(Waiters) /\ s = SubSeq(q, i + 1, Len(q)) /\ i \in DOMAIN q
    BY DEF DispatcherTypeOK
<1>2. \A d \in Commands : d # c => pending'[d] = pending[d]
    BY DEF DispatcherTypeOK
<1> HIDE DEF s, q
<1>3. /\ i \in Nat
      /\ \A j \in DOMAIN s : j \in Nat \ {0} /\ i + j \in DOMAIN q /\ s[j] = q[i + j]
      /\ \A k \in DOMAIN q : k > i => k - i \in DOMAIN s /\ k \in Nat
    BY <1>1, RestOfQueue
<1> QED
    BY <1>2, <1>3 DEF q, s

LEMMA DispatchKeepsWaiting ==
    ASSUME DispatcherTypeOK, NEW c \in Commands, NEW p \in Replies,
           Dispatched(c, p) \/ NotDispatched(c),
           NEW w \in Waiters, NEW d \in Commands,
           Waiting(w)', QueuedFor(w, d)
    PROVE  Waiting(w) /\ QueuedFor(w, d)'
<1>1. Waiting(w)
    BY DEF DispatcherTypeOK, Dispatched, NotDispatched, DispatchToBatch,
           DispatchToHandler, DispatchReject, Waiting
<1>2. CASE DispatchToBatch(c, p)
    BY <1>1, <1>2 DEF DispatchToBatch, QueuedFor
<1>3. CASE pending' = [pending EXCEPT ![c] = <<>>] /\ ~SomebodyWaitsFor(c)
  <2>1. d # c
      BY <1>1, <1>3 DEF SomebodyWaitsFor, QueuedFor
  <2>2. pending'[d] = pending[d]
      BY <1>3, <2>1 DEF DispatcherTypeOK
  <2>3. QED
      BY <1>1, <2>2 DEF QueuedFor
<1>4. CASE DispatchToHandler(c, p)
  <2>1. PICK i \in DOMAIN pending[c] :
          /\ \A j \in 1 .. (i - 1) : ~Waiting(pending[c][j])
          /\ pending' = [pending EXCEPT ![c] = SubSeq(@, i + 1, Len(@))]
          /\ receiver' = [receiver EXCEPT ![pending[c][i]] = "got"]
      BY <1>4 DEF DispatchToHandler
  <2>2. CASE d # c
    <3>1. pending'[d] = pending[d]
        BY <2>1, <2>2 DEF DispatcherTypeOK
    <3>2. QED
        BY <1>1, <3>1 DEF QueuedFor
  <2>3. CASE d = c
    <3>1. /\ i \in Nat
          /\ \A d1 \in Commands : d1 # c => pending'[d1] = pending[d1]
          /\ \A j \in DOMAIN pending'[c] :
                i + j \in DOMAIN pending[c] /\ pending'[c][j] = pending[c][i + j] /\ j \in Nat \ {0}
          /\ \A k \in DOMAIN pending[c] :
                k > i => k - i \in DOMAIN pending'[c] /\ k \in Nat
        BY <2>1, QueueMoves
    <3>2. PICK k \in DOMAIN pending[c] : pending[c][k] = w
        BY <2>3 DEF QueuedFor
    <3>3. pending[c] \in Seq(Waiters)
        BY DEF DispatcherTypeOK
    <3>4. DOMAIN pending[c] = 1 .. Len(pending[c]) /\ Len(pending[c]) \in Nat
        BY <3>3, LenProperties
    <3>5. pending[c][i] \in Waiters
        BY <3>3, <3>4, ElementOfSeq
    <3>6. k # i
        BY <2>1, <3>2, <3>5 DEF DispatcherTypeOK, Waiting
    <3>7. k > i /\ k \in Nat
        BY <1>1, <2>1, <3>1, <3>2, <3>4, <3>6
    <3>8. k - i \in DOMAIN pending'[c] /\ pending'[c][k - i] = pending[c][i + (k - i)]
        BY <3>1, <3>2, <3>7
    <3>9. i + (k - i) = k
        BY <3>1, <3>7
    <3>10. QED
        BY <1>1, <2>3, <3>2, <3>8, <3>9 DEF QueuedFor
  <2>4. QED
      BY <2>2, <2>3
<1>5. QED
    BY <1>2, <1>3, <1>4 DEF Dispatched, NotDispatched, DispatchReject

LEMMA DeactivateEndsWaiting ==
    ASSUME DispatcherTypeOK, Deactivate, NEW w \in Waiters
    PROVE  ~Waiting(w)'
BY DEF DispatcherTypeOK, Deactivate, CancelAll, Waiting

-----------------------------------------------------------------------------
(* The dispatcher alone.                                                    *)

LEMMA DispatcherInitType == DispatcherInit => DispatcherTypeOK
<1>1. <<>> \in Seq(Waiters) /\ <<>> \in Seq(Collector) /\ <<>> \in Seq(Replies)
    BY EmptySeq
<1>2. QED
    BY <1>1, Zenon DEF DispatcherInit, DispatcherTypeOK, ReceiverStates

LEMMA DispatcherNextType ==
    DispatcherTypeOK /\ [DispatcherNext]_dispatcherVars => DispatcherTypeOK'
<1> SUFFICES ASSUME DispatcherTypeOK, [DispatcherNext]_dispatcherVars
             PROVE  DispatcherTypeOK'
    OBVIOUS
<1>1. CASE UNCHANGED dispatcherVars
    BY <1>1 DEF dispatcherVars, DispatcherTypeOK
<1>2. ASSUME NEW w \in Waiters, NEW c \in Commands, NEW n \in 0 .. MaxBatch,
             RegisterBatch(w, c, n)
      PROVE  DispatcherTypeOK'
    BY <1>2, MaxBatchAssumption, RegisterBatchType
<1>3. QED
    BY <1>1, <1>2, RegisterHandlerType, RegisterBroadcastType, DropReceiverType,
       DispatchedType, NotDispatchedType, ActivateType, DeactivateType
    DEF DispatcherNext

\* The tables of the dispatcher are well formed under any sequence of calls on it.
THEOREM DispatcherTypeCorrect == DispatcherSpec => []DispatcherTypeOK
<1>1. QED
    BY DispatcherInitType, DispatcherNextType, PTL DEF DispatcherSpec

-----------------------------------------------------------------------------
(* A receiver that waits has one sender.                                    *)

\* Where the sender of w stands in the tables.
InQueue(c, i, w) == i \in DOMAIN pending[c] /\ pending[c][i] = w
InBatch(c, i, w) == i \in DOMAIN collectors[c] /\ collectors[c][i].owner = w
InHandlers(t, w) == broadcastHandlers[t] = w

LEMMA SlotsAre ==
    ASSUME NEW w, NEW s
    PROVE  s \in Slots(w) <=>
            \/ \E c \in Commands : \E i : InQueue(c, i, w) /\ s = <<"single", c, i>>
            \/ \E c \in Commands : \E i : InBatch(c, i, w) /\ s = <<"batch", c, i>>
            \/ \E t \in Txids : InHandlers(t, w) /\ s = <<"broadcast", t, 0>>
<1>1. s \in UNION {{<<"single", c, i>> : i \in {j \in DOMAIN pending[c] : pending[c][j] = w}} :
                    c \in Commands}
        <=> \E c \in Commands : \E i : InQueue(c, i, w) /\ s = <<"single", c, i>>
    BY DEF InQueue
<1>2. s \in UNION {{<<"batch", c, i>> : i \in {j \in DOMAIN collectors[c] :
                    collectors[c][j].owner = w}} : c \in Commands}
        <=> \E c \in Commands : \E i : InBatch(c, i, w) /\ s = <<"batch", c, i>>
    BY DEF InBatch
<1>3. s \in {<<"broadcast", t, 0>> : t \in {u \in Txids : broadcastHandlers[u] = w}}
        <=> \E t \in Txids : InHandlers(t, w) /\ s = <<"broadcast", t, 0>>
    BY DEF InHandlers
<1> QED
    BY <1>1, <1>2, <1>3 DEF Slots

LEMMA SlotsWillBe ==
    ASSUME NEW w, NEW s
    PROVE  s \in Slots(w)' <=>
            \/ \E c \in Commands : \E i : InQueue(c, i, w)' /\ s = <<"single", c, i>>
            \/ \E c \in Commands : \E i : InBatch(c, i, w)' /\ s = <<"batch", c, i>>
            \/ \E t \in Txids : InHandlers(t, w)' /\ s = <<"broadcast", t, 0>>
<1>1. s \in UNION {{<<"single", c, i>> : i \in {j \in DOMAIN pending'[c] : pending'[c][j] = w}} :
                    c \in Commands}
        <=> \E c \in Commands : \E i : InQueue(c, i, w)' /\ s = <<"single", c, i>>
    BY DEF InQueue
<1>2. s \in UNION {{<<"batch", c, i>> : i \in {j \in DOMAIN collectors'[c] :
                    collectors'[c][j].owner = w}} : c \in Commands}
        <=> \E c \in Commands : \E i : InBatch(c, i, w)' /\ s = <<"batch", c, i>>
    BY DEF InBatch
<1>3. s \in {<<"broadcast", t, 0>> : t \in {u \in Txids : broadcastHandlers'[u] = w}}
        <=> \E t \in Txids : InHandlers(t, w)' /\ s = <<"broadcast", t, 0>>
    BY DEF InHandlers
<1> QED
    BY <1>1, <1>2, <1>3 DEF Slots

\* The inductive form of SenderInOneSlot: a channel not yet used has no sender.
Placed(w) ==
    /\ receiver[w] = "unused" => Slots(w) = {}
    /\ Waiting(w) => \E s : Slots(w) = {s}

AllPlaced == \A w \in Waiters : Placed(w)

LEMMA PlacedMeansOneSlot == AllPlaced => SenderInOneSlot
BY DEF AllPlaced, Placed, SenderInOneSlot

\* A step that moves no sender of v, and does not make its receiver wait.
LEMMA StaysPlaced ==
    ASSUME NEW v, Placed(v), Slots(v)' = Slots(v),
           receiver'[v] = "unused" => receiver[v] = "unused",
           Waiting(v)' => Waiting(v)
    PROVE  Placed(v)'
BY DEF Placed

\* A step that moves the one sender of v.
LEMMA MovesPlaced ==
    ASSUME NEW v, Placed(v), NEW s, s \in Slots(v), NEW t, Slots(v)' = {t},
           receiver'[v] = "unused" => receiver[v] = "unused"
    PROVE  Placed(v)'
BY DEF Placed

LEMMA RegisterHandlerPlaces ==
    ASSUME DispatcherTypeOK, NEW w \in Waiters, NEW c \in Commands, RegisterHandler(w, c),
           NEW v \in Waiters, Placed(v)
    PROVE  Placed(v)'
<1> DEFINE n == Len(pending[c]) + 1
<1>1. \A d \in Commands : \A i : InQueue(d, i, v)' <=>
            InQueue(d, i, v) \/ (d = c /\ i = n /\ v = w)
  <2>1. pending[c] \in Seq(Waiters) /\ pending' = [pending EXCEPT ![c] = Append(@, w)]
      BY DEF DispatcherTypeOK, RegisterHandler
  <2>2. /\ n \in Nat \ {0} /\ DOMAIN pending[c] = 1 .. (n - 1) /\ DOMAIN pending'[c] = 1 .. n
        /\ pending'[c][n] = w /\ \A i \in 1 .. (n - 1) : pending'[c][i] = pending[c][i]
      BY <2>1 DEF DispatcherTypeOK
  <2>3. \A d \in Commands : d # c => pending'[d] = pending[d]
      BY <2>1 DEF DispatcherTypeOK
  <2> HIDE DEF n
  <2>4. \A i : InQueue(c, i, v)' <=> InQueue(c, i, v) \/ (i = n /\ v = w)
    <3>1. DOMAIN pending'[c] = DOMAIN pending[c] \cup {n} /\ n \notin DOMAIN pending[c]
        BY <2>2
    <3>2. \A i \in DOMAIN pending[c] : pending'[c][i] = pending[c][i]
        BY <2>2
    <3> QED
        BY <2>2, <3>1, <3>2 DEF InQueue
  <2>5. \A d \in Commands : d # c => \A i : InQueue(d, i, v)' <=> InQueue(d, i, v)
      BY <2>3 DEF InQueue
  <2> QED
      BY <2>4, <2>5
<1>2. /\ \A d \in Commands : \A i : InBatch(d, i, v)' <=> InBatch(d, i, v)
      /\ \A t \in Txids : InHandlers(t, v)' <=> InHandlers(t, v)
    BY DEF RegisterHandler, InBatch, InHandlers
<1> HIDE DEF n
<1>3. \A s : s \in Slots(v)' <=> s \in Slots(v) \/ (v = w /\ s = <<"single", c, n>>)
    BY <1>1, <1>2, SlotsAre, SlotsWillBe
<1>4. CASE v = w
  <2>1. Slots(v) = {} /\ receiver'[v] = "waiting"
      BY <1>4 DEF Placed, RegisterHandler, DispatcherTypeOK
  <2>2. Slots(v)' = {<<"single", c, n>>}
      BY <1>3, <1>4, <2>1
  <2> QED
      BY <2>1, <2>2 DEF Placed
<1>5. CASE v # w
  <2>1. Slots(v)' = Slots(v) /\ receiver'[v] = receiver[v]
      BY <1>3, <1>5 DEF RegisterHandler, DispatcherTypeOK
  <2> QED
      BY <2>1, StaysPlaced DEF Waiting
<1> QED
    BY <1>4, <1>5

LEMMA RegisterBatchPlaces ==
    ASSUME DispatcherTypeOK, NEW w \in Waiters, NEW c \in Commands, NEW n \in Nat,
           RegisterBatch(w, c, n), NEW v \in Waiters, Placed(v)
    PROVE  Placed(v)'
<1> DEFINE m == Len(collectors[c]) + 1
           new == [owner |-> w, expected |-> n, collected |-> <<>>]
<1>1. \A d \in Commands : \A i : InBatch(d, i, v)' <=>
            InBatch(d, i, v) \/ (d = c /\ i = m /\ v = w)
  <2>1. collectors[c] \in Seq(Collector) /\ collectors' = [collectors EXCEPT ![c] = Append(@, new)]
      BY DEF DispatcherTypeOK, RegisterBatch
  <2>2. /\ m \in Nat \ {0} /\ DOMAIN collectors[c] = 1 .. (m - 1) /\ DOMAIN collectors'[c] = 1 .. m
        /\ collectors'[c][m] = new
        /\ \A i \in 1 .. (m - 1) : collectors'[c][i] = collectors[c][i]
      BY <2>1 DEF DispatcherTypeOK
  <2>3. \A d \in Commands : d # c => collectors'[d] = collectors[d]
      BY <2>1 DEF DispatcherTypeOK
  <2>4. new.owner = w
      OBVIOUS
  <2> HIDE DEF m, new
  <2>5. \A i : InBatch(c, i, v)' <=> InBatch(c, i, v) \/ (i = m /\ v = w)
    <3>1. DOMAIN collectors'[c] = DOMAIN collectors[c] \cup {m} /\ m \notin DOMAIN collectors[c]
        BY <2>2
    <3>2. \A i \in DOMAIN collectors[c] : collectors'[c][i] = collectors[c][i]
        BY <2>2
    <3> QED
        BY <2>2, <2>4, <3>1, <3>2 DEF InBatch
  <2>6. \A d \in Commands : d # c => \A i : InBatch(d, i, v)' <=> InBatch(d, i, v)
      BY <2>3 DEF InBatch
  <2> QED
      BY <2>5, <2>6
<1>2. /\ \A d \in Commands : \A i : InQueue(d, i, v)' <=> InQueue(d, i, v)
      /\ \A t \in Txids : InHandlers(t, v)' <=> InHandlers(t, v)
    BY DEF RegisterBatch, InQueue, InHandlers
<1> HIDE DEF m
<1>3. \A s : s \in Slots(v)' <=> s \in Slots(v) \/ (v = w /\ s = <<"batch", c, m>>)
    BY <1>1, <1>2, SlotsAre, SlotsWillBe
<1>4. CASE v = w
  <2>1. Slots(v) = {} /\ receiver'[v] = "waiting"
      BY <1>4 DEF Placed, RegisterBatch, DispatcherTypeOK
  <2>2. Slots(v)' = {<<"batch", c, m>>}
      BY <1>3, <1>4, <2>1
  <2> QED
      BY <2>1, <2>2 DEF Placed
<1>5. CASE v # w
  <2>1. Slots(v)' = Slots(v) /\ receiver'[v] = receiver[v]
      BY <1>3, <1>5 DEF RegisterBatch, DispatcherTypeOK
  <2> QED
      BY <2>1, StaysPlaced DEF Waiting
<1> QED
    BY <1>4, <1>5

LEMMA RegisterBroadcastPlaces ==
    ASSUME DispatcherTypeOK, NEW w \in Waiters, NEW t \in Txids, RegisterBroadcast(w, t),
           NEW v \in Waiters, Placed(v)
    PROVE  Placed(v)'
<1>1. \A u \in Txids : InHandlers(u, v)' <=> IF u = t THEN v = w ELSE InHandlers(u, v)
    BY DEF DispatcherTypeOK, RegisterBroadcast, InHandlers
<1>2. /\ \A d \in Commands : \A i : InQueue(d, i, v)' <=> InQueue(d, i, v)
      /\ \A d \in Commands : \A i : InBatch(d, i, v)' <=> InBatch(d, i, v)
    BY DEF RegisterBroadcast, InQueue, InBatch
<1>3. CASE v = w
  <2>1. Slots(v) = {} /\ receiver'[v] = "waiting"
      BY <1>3 DEF Placed, RegisterBroadcast, DispatcherTypeOK
  <2>2. \A s : s \in Slots(v)' <=> s \in Slots(v) \/ s = <<"broadcast", t, 0>>
      BY <1>1, <1>2, <1>3, SlotsAre, SlotsWillBe
  <2>3. Slots(v)' = {<<"broadcast", t, 0>>}
      BY <2>1, <2>2
  <2> QED
      BY <2>1, <2>3 DEF Placed
<1>4. CASE v # w /\ v # broadcastHandlers[t]
  <2>1. \A s : s \in Slots(v)' <=> s \in Slots(v)
      BY <1>1, <1>2, <1>4, SlotsAre, SlotsWillBe DEF InHandlers
  <2>2. Slots(v)' = Slots(v) /\ receiver'[v] = receiver[v]
      BY <1>4, <2>1 DEF RegisterBroadcast
  <2> QED
      BY <2>2, StaysPlaced DEF Waiting
<1>5. CASE v # w /\ v = broadcastHandlers[t]
  <2>1. <<"broadcast", t, 0>> \in Slots(v)
      BY <1>5, SlotsAre DEF InHandlers
  <2>2. receiver'[v] \notin {"unused", "waiting"}
      BY <1>5, <2>1 DEF Placed, RegisterBroadcast, Waiting
  <2> QED
      BY <2>2 DEF Placed, Waiting
<1> QED
    BY <1>3, <1>4, <1>5

LEMMA DispatchToHandlerPlaces ==
    ASSUME DispatcherTypeOK, NEW c \in Commands, NEW p \in Replies, DispatchToHandler(c, p),
           NEW v \in Waiters, Placed(v)
    PROVE  Placed(v)'
<1>1. PICK i \in DOMAIN pending[c] :
        /\ \A j \in 1 .. (i - 1) : ~Waiting(pending[c][j])
        /\ pending' = [pending EXCEPT ![c] = SubSeq(@, i + 1, Len(@))]
        /\ receiver' = [receiver EXCEPT ![pending[c][i]] = "got"]
    BY DEF DispatchToHandler
<1>2. CASE v = pending[c][i]
  <2>1. receiver'[v] = "got"
      BY <1>1, <1>2 DEF DispatcherTypeOK
  <2> QED
      BY <2>1 DEF Placed, Waiting
<1>3. CASE v # pending[c][i]
  <2>1. receiver'[v] = receiver[v]
      BY <1>1, <1>3 DEF DispatcherTypeOK
  <2>2. /\ i \in Nat
        /\ \A d \in Commands : d # c => pending'[d] = pending[d]
        /\ \A j \in DOMAIN pending'[c] :
                i + j \in DOMAIN pending[c] /\ pending'[c][j] = pending[c][i + j] /\ j \in Nat \ {0}
        /\ \A k \in DOMAIN pending[c] :
                k > i => k - i \in DOMAIN pending'[c] /\ k \in Nat
      BY <1>1, QueueMoves
  <2>3. /\ \A d \in Commands : \A k : InBatch(d, k, v)' <=> InBatch(d, k, v)
        /\ \A t \in Txids : InHandlers(t, v)' <=> InHandlers(t, v)
        /\ \A d \in Commands : d # c => \A k : InQueue(d, k, v)' <=> InQueue(d, k, v)
      BY <2>2 DEF DispatchToHandler, InBatch, InHandlers, InQueue
  <2>4. \A k : InQueue(c, k, v)' => k \in Nat \ {0} /\ InQueue(c, i + k, v)
      BY <2>2 DEF InQueue
  <2>5. CASE ~\E k : InQueue(c, k, v)
    <3>1. \A k : ~InQueue(c, k, v)'
        BY <2>4, <2>5
    <3>2. \A d \in Commands : \A k : InQueue(d, k, v)' <=> InQueue(d, k, v)
        BY <2>3, <2>5, <3>1
    <3>3. \A s : s \in Slots(v)' <=> s \in Slots(v)
        BY <2>3, <3>2, SlotsAre, SlotsWillBe
    <3>4. Slots(v)' = Slots(v)
        BY <3>3
    <3> QED
        BY <2>1, <3>4, StaysPlaced DEF Waiting
  <2>6. CASE \E k : InQueue(c, k, v)
    <3>1. PICK k : InQueue(c, k, v)
        BY <2>6
    <3>2. <<"single", c, k>> \in Slots(v)
        BY <3>1, SlotsAre
    <3>3. CASE ~Waiting(v)
        BY <2>1, <3>2, <3>3 DEF Placed, Waiting
    <3>4. CASE Waiting(v)
      <4>1. Slots(v) = {<<"single", c, k>>}
          BY <3>2, <3>4 DEF Placed
      <4>2. k > i /\ k \in Nat /\ k - i \in DOMAIN pending'[c]
        <5>1. k \in Nat /\ k \in DOMAIN pending[c] /\ k # 0
          <6>1. pending[c] \in Seq(Waiters)
              BY DEF DispatcherTypeOK
          <6>2. DOMAIN pending[c] = 1 .. Len(pending[c]) /\ Len(pending[c]) \in Nat
              BY <6>1, LenProperties
          <6> QED
              BY <3>1, <6>2 DEF InQueue
        <5>2. k # i
            BY <1>3, <3>1 DEF InQueue
        <5>3. ~(k < i)
            BY <1>1, <2>2, <3>1, <3>4, <5>1 DEF InQueue
        <5> QED
            BY <2>2, <5>1, <5>2, <5>3
      <4>3. InQueue(c, k - i, v)'
        <5>1. pending'[c][k - i] = pending[c][i + (k - i)]
            BY <2>2, <4>2
        <5>2. i + (k - i) = k
            BY <2>2, <4>2
        <5> QED
            BY <3>1, <4>2, <5>1, <5>2 DEF InQueue
      <4>4. \A j : InQueue(c, j, v)' => j = k - i
        <5> SUFFICES ASSUME NEW j, InQueue(c, j, v)' PROVE j = k - i
            OBVIOUS
        <5>1. j \in Nat /\ InQueue(c, i + j, v)
            BY <2>4
        <5>2. <<"single", c, i + j>> \in Slots(v)
            BY <5>1, SlotsAre
        <5>3. i + j = k
            BY <4>1, <5>2
        <5> QED
            BY <2>2, <4>2, <5>1, <5>3
      <4>5. /\ \A d \in Commands : \A j : ~InBatch(d, j, v)
            /\ \A t \in Txids : ~InHandlers(t, v)
            /\ \A d \in Commands : d # c => \A j : ~InQueue(d, j, v)
        <5>1. \A d \in Commands : \A j : <<"batch", d, j>> \notin Slots(v)
            BY <4>1
        <5>2. \A t \in Txids : <<"broadcast", t, 0>> \notin Slots(v)
            BY <4>1
        <5>3. \A d \in Commands : d # c => \A j : <<"single", d, j>> \notin Slots(v)
            BY <4>1
        <5> QED
            BY <5>1, <5>2, <5>3, SlotsAre
      <4>6. \A s : s \in Slots(v)' <=> s = <<"single", c, k - i>>
          BY <2>3, <4>3, <4>4, <4>5, SlotsWillBe
      <4>7. Slots(v)' = {<<"single", c, k - i>>}
          BY <4>6
      <4> QED
          BY <2>1, <3>2, <4>7, MovesPlaced
    <3> QED
        BY <3>3, <3>4
  <2> QED
      BY <2>5, <2>6
<1> QED
    BY <1>2, <1>3

\* What the head of a nonempty sequence leaves behind.
LEMMA HeadAndTail ==
    ASSUME NEW S, NEW q \in Seq(S), q # <<>>
    PROVE  /\ Len(q) \in Nat \ {0} /\ DOMAIN q = 1 .. Len(q) /\ Head(q) = q[1] /\ Head(q) \in S
           /\ Tail(q) \in Seq(S) /\ DOMAIN Tail(q) = 1 .. (Len(q) - 1)
           /\ \A j \in 1 .. (Len(q) - 1) : Tail(q)[j] = q[j + 1]
<1>1. Len(q) \in Nat /\ DOMAIN q = 1 .. Len(q) /\ Len(q) # 0
    BY LenProperties, EmptySeq
<1>2. Head(q) \in S /\ Tail(q) \in Seq(S) /\ Len(Tail(q)) = Len(q) - 1
      /\ \A j \in 1 .. Len(Tail(q)) : Tail(q)[j] = q[j + 1]
    BY <1>1, HeadTailProperties
<1>3. DOMAIN Tail(q) = 1 .. Len(Tail(q))
    BY <1>2, LenProperties
<1> QED
    BY <1>1, <1>2, <1>3

LEMMA BatchGoesOn ==
    ASSUME NEW S, NEW q \in Seq(S), q # <<>>, NEW f \in S
    PROVE  /\ DOMAIN (<<f>> \o Tail(q)) = DOMAIN q
           /\ (<<f>> \o Tail(q))[1] = f
           /\ \A j \in DOMAIN q : j # 1 => (<<f>> \o Tail(q))[j] = q[j]
<1> DEFINE s == <<f>> \o Tail(q)
           n == Len(q)
<1>1. n \in Nat \ {0} /\ DOMAIN q = 1 .. n /\ Tail(q) \in Seq(S) /\ Len(Tail(q)) = n - 1
      /\ \A j \in 1 .. (n - 1) : Tail(q)[j] = q[j + 1]
    BY HeadAndTail, LenProperties, HeadTailProperties
<1>2. Len(<<f>>) = 1 /\ <<f>>[1] = f /\ <<f>> \in Seq(S)
    OBVIOUS
<1>3. s \in Seq(S) /\ Len(s) = 1 + (n - 1)
      /\ \A j \in 1 .. Len(s) : s[j] = IF j <= 1 THEN <<f>>[j] ELSE Tail(q)[j - 1]
    BY <1>1, <1>2, ConcatProperties
<1>4. DOMAIN s = 1 .. n
    BY <1>1, <1>3, LenProperties
<1> HIDE DEF s, n
<1>5. s[1] = f
    BY <1>1, <1>2, <1>3
<1>6. \A j \in 1 .. n : j # 1 => s[j] = q[j]
    BY <1>1, <1>3
<1> QED
    BY <1>1, <1>4, <1>5, <1>6 DEF s

LEMMA DispatchToBatchPlaces ==
    ASSUME DispatcherTypeOK, NEW c \in Commands, NEW p \in Replies, DispatchToBatch(c, p),
           NEW v \in Waiters, Placed(v)
    PROVE  Placed(v)'
<1> DEFINE q == collectors[c]
           first == Head(q)
           filled == [first EXCEPT !.collected = Append(@, p)]
           complete == Len(filled.collected) >= filled.expected
<1>1. q \in Seq(Collector) /\ q # <<>>
    BY DEF DispatcherTypeOK, DispatchToBatch
<1>2. /\ Len(q) \in Nat \ {0} /\ DOMAIN q = 1 .. Len(q) /\ first = q[1] /\ first \in Collector
      /\ DOMAIN Tail(q) = 1 .. (Len(q) - 1)
      /\ \A j \in 1 .. (Len(q) - 1) : Tail(q)[j] = q[j + 1]
    BY <1>1, HeadAndTail
<1>3. filled \in Collector /\ filled.owner = first.owner /\ first.owner \in Waiters
  <2>1. Append(first.collected, p) \in Seq(Replies)
      BY <1>2 DEF Collector
  <2> QED
      BY <1>2, <2>1 DEF Collector
<1>4. /\ collectors' = [collectors EXCEPT ![c] =
                IF complete THEN Tail(@) ELSE <<filled>> \o Tail(@)]
      /\ receiver' = [receiver EXCEPT ![first.owner] =
                IF complete /\ Waiting(first.owner) THEN "got" ELSE @]
      /\ UNCHANGED <<pending, broadcastHandlers>>
    BY DEF DispatchToBatch
<1> HIDE DEF complete, filled, first
<1>5. /\ \A d \in Commands : \A k : InQueue(d, k, v)' <=> InQueue(d, k, v)
      /\ \A t \in Txids : InHandlers(t, v)' <=> InHandlers(t, v)
      /\ \A d \in Commands : d # c => \A k : InBatch(d, k, v)' <=> InBatch(d, k, v)
    BY <1>4 DEF DispatcherTypeOK, InQueue, InHandlers, InBatch
<1>6. CASE ~complete
  <2>1. collectors'[c] = <<filled>> \o Tail(q)
      BY <1>4, <1>6 DEF DispatcherTypeOK
  <2>2. \A k : InBatch(c, k, v)' <=> InBatch(c, k, v)
      BY <1>1, <1>2, <1>3, <2>1, BatchGoesOn DEF InBatch
  <2>3. \A d \in Commands : \A k : InBatch(d, k, v)' <=> InBatch(d, k, v)
      BY <1>5, <2>2
  <2>4. \A s : s \in Slots(v)' <=> s \in Slots(v)
      BY <1>5, <2>3, SlotsAre, SlotsWillBe
  <2>5. Slots(v)' = Slots(v) /\ receiver'[v] = receiver[v]
      BY <1>3, <1>4, <1>6, <2>4 DEF DispatcherTypeOK
  <2> QED
      BY <2>5, StaysPlaced DEF Waiting
<1>7. CASE complete /\ v = first.owner
  <2>1. InBatch(c, 1, v)
      BY <1>2, <1>7 DEF InBatch
  <2>2. <<"batch", c, 1>> \in Slots(v)
      BY <2>1, SlotsAre
  <2>3. receiver'[v] \notin {"unused", "waiting"}
      BY <1>4, <1>7, <2>2 DEF DispatcherTypeOK, Placed, Waiting
  <2> QED
      BY <2>3 DEF Placed, Waiting
<1>8. CASE complete /\ v # first.owner
  <2>1. receiver'[v] = receiver[v] /\ collectors'[c] = Tail(q)
      BY <1>4, <1>8 DEF DispatcherTypeOK
  <2>2. \A k : InBatch(c, k, v)' => k \in Nat \ {0} /\ InBatch(c, k + 1, v)
      BY <1>2, <2>1 DEF InBatch
  <2>3. \A k : InBatch(c, k, v) => k \in Nat /\ k > 1 /\ InBatch(c, k - 1, v)'
    <3> SUFFICES ASSUME NEW k, InBatch(c, k, v)
                 PROVE  k \in Nat /\ k > 1 /\ InBatch(c, k - 1, v)'
        OBVIOUS
    <3>1. k \in 1 .. Len(q) /\ q[k].owner = v
        BY <1>2 DEF InBatch
    <3>2. k # 1
        BY <1>2, <1>8, <3>1
    <3>3. k - 1 \in 1 .. (Len(q) - 1) /\ (k - 1) + 1 = k /\ k \in Nat /\ k > 1
        BY <1>2, <3>1, <3>2
    <3>4. Tail(q)[k - 1] = q[k]
        BY <1>2, <3>3
    <3> QED
        BY <1>2, <2>1, <3>1, <3>3, <3>4 DEF InBatch
  <2>4. CASE ~\E k : InBatch(c, k, v)
    <3>1. \A d \in Commands : \A k : InBatch(d, k, v)' <=> InBatch(d, k, v)
        BY <1>5, <2>2, <2>4
    <3>2. \A s : s \in Slots(v)' <=> s \in Slots(v)
        BY <1>5, <3>1, SlotsAre, SlotsWillBe
    <3>3. Slots(v)' = Slots(v)
        BY <3>2
    <3> QED
        BY <2>1, <3>3, StaysPlaced DEF Waiting
  <2>5. CASE \E k : InBatch(c, k, v)
    <3>1. PICK k : InBatch(c, k, v)
        BY <2>5
    <3>2. <<"batch", c, k>> \in Slots(v)
        BY <3>1, SlotsAre
    <3>3. CASE ~Waiting(v)
        BY <2>1, <3>2, <3>3 DEF Placed, Waiting
    <3>4. CASE Waiting(v)
      <4>1. Slots(v) = {<<"batch", c, k>>}
          BY <3>2, <3>4 DEF Placed
      <4>2. InBatch(c, k - 1, v)' /\ k \in Nat
          BY <2>3, <3>1
      <4>3. \A j : InBatch(c, j, v)' => j = k - 1
        <5> SUFFICES ASSUME NEW j, InBatch(c, j, v)' PROVE j = k - 1
            OBVIOUS
        <5>1. j \in Nat /\ InBatch(c, j + 1, v)
            BY <2>2
        <5>2. <<"batch", c, j + 1>> \in Slots(v)
            BY <5>1, SlotsAre
        <5>3. j + 1 = k
            BY <4>1, <5>2
        <5> QED
            BY <4>2, <5>1, <5>3
      <4>4. /\ \A d \in Commands : \A j : ~InQueue(d, j, v)
            /\ \A t \in Txids : ~InHandlers(t, v)
            /\ \A d \in Commands : d # c => \A j : ~InBatch(d, j, v)
        <5>1. \A d \in Commands : \A j : <<"single", d, j>> \notin Slots(v)
            BY <4>1
        <5>2. \A t \in Txids : <<"broadcast", t, 0>> \notin Slots(v)
            BY <4>1
        <5>3. \A d \in Commands : d # c => \A j : <<"batch", d, j>> \notin Slots(v)
            BY <4>1
        <5> QED
            BY <5>1, <5>2, <5>3, SlotsAre
      <4>5. \A s : s \in Slots(v)' <=> s = <<"batch", c, k - 1>>
          BY <1>5, <4>2, <4>3, <4>4, SlotsWillBe
      <4>6. Slots(v)' = {<<"batch", c, k - 1>>}
          BY <4>5
      <4> QED
          BY <2>1, <3>2, <4>6, MovesPlaced
    <3> QED
        BY <3>3, <3>4
  <2> QED
      BY <2>4, <2>5
<1> QED
    BY <1>6, <1>7, <1>8

\* Nobody who waits for the command is in its queue: the stale senders go.
LEMMA StaleSendersGo ==
    ASSUME DispatcherTypeOK, NEW c \in Commands, ~SomebodyWaitsFor(c),
           pending' = [pending EXCEPT ![c] = <<>>], UNCHANGED collectors,
           NEW v \in Waiters, Placed(v), receiver'[v] = receiver[v],
           \A t \in Txids : InHandlers(t, v)' <=> InHandlers(t, v)
    PROVE  Placed(v)'
<1>1. \A k : ~InQueue(c, k, v)'
    BY DEF DispatcherTypeOK, InQueue
<1>2. /\ \A d \in Commands : d # c => \A k : InQueue(d, k, v)' <=> InQueue(d, k, v)
      /\ \A d \in Commands : \A k : InBatch(d, k, v)' <=> InBatch(d, k, v)
    BY DEF DispatcherTypeOK, InQueue, InBatch
<1>3. CASE \E k : InQueue(c, k, v)
  <2>1. ~Waiting(v)
      BY <1>3 DEF InQueue, SomebodyWaitsFor
  <2>2. Slots(v) # {}
      BY <1>3, SlotsAre
  <2> QED
      BY <2>1, <2>2 DEF Placed, Waiting
<1>4. CASE ~\E k : InQueue(c, k, v)
  <2>1. \A d \in Commands : \A k : InQueue(d, k, v)' <=> InQueue(d, k, v)
      BY <1>1, <1>2, <1>4
  <2>2. \A s : s \in Slots(v)' <=> s \in Slots(v)
      BY <1>2, <2>1, SlotsAre, SlotsWillBe
  <2>3. Slots(v)' = Slots(v)
      BY <2>2
  <2> QED
      BY <2>3, StaysPlaced DEF Waiting
<1> QED
    BY <1>3, <1>4

LEMMA DispatchRejectPlaces ==
    ASSUME DispatcherTypeOK, NEW c \in Commands, NEW p \in Replies, DispatchReject(c, p),
           NEW v \in Waiters, Placed(v)
    PROVE  Placed(v)'
<1>1. PICK t \in Txids :
        /\ broadcastHandlers[t] # NoWaiter
        /\ broadcastHandlers' = [broadcastHandlers EXCEPT ![t] = NoWaiter]
        /\ receiver' = [receiver EXCEPT ![broadcastHandlers[t]] = IF @ = "waiting" THEN "got" ELSE @]
    BY DEF DispatchReject
<1>2. CASE v = broadcastHandlers[t]
  <2>1. InHandlers(t, v)
      BY <1>2 DEF InHandlers
  <2>2. Slots(v) # {}
      BY <2>1, SlotsAre
  <2>3. receiver'[v] \notin {"unused", "waiting"}
      BY <1>1, <1>2, <2>2 DEF DispatcherTypeOK, Placed, Waiting
  <2> QED
      BY <2>3 DEF Placed, Waiting
<1>3. CASE v # broadcastHandlers[t]
  <2>1. receiver'[v] = receiver[v]
      BY <1>1, <1>3 DEF DispatcherTypeOK
  <2>2. \A u \in Txids : InHandlers(u, v)' <=> InHandlers(u, v)
      BY <1>1, <1>3, NoWaiterAssumption DEF DispatcherTypeOK, InHandlers
  <2> QED
      BY <2>1, <2>2, StaleSendersGo DEF DispatchReject
<1> QED
    BY <1>2, <1>3

LEMMA NextPlaces ==
    ASSUME DispatcherTypeOK, \A w \in Waiters : Placed(w), [DispatcherNext]_dispatcherVars
    PROVE  \A w \in Waiters : Placed(w)'
<1> SUFFICES ASSUME NEW v \in Waiters PROVE Placed(v)'
    OBVIOUS
<1>1. CASE UNCHANGED <<pending, collectors, broadcastHandlers, receiver>>
  <2>1. Slots(v)' = Slots(v)
      BY <1>1 DEF Slots
  <2> QED
      BY <1>1, <2>1, StaysPlaced DEF Waiting
<1>2. ASSUME NEW w \in Waiters, DropReceiver(w) PROVE Placed(v)'
  <2>1. Slots(v)' = Slots(v)
      BY <1>2 DEF DropReceiver, Slots
  <2> QED
      BY <1>2, <2>1, StaysPlaced DEF DropReceiver, DispatcherTypeOK, Waiting
<1>3. ASSUME NEW c \in Commands, NotDispatched(c) PROVE Placed(v)'
    BY <1>3, StaleSendersGo DEF NotDispatched, InHandlers
<1>4. CASE Deactivate
  <2>1. \A s : s \notin Slots(v)'
      BY <1>4, SlotsWillBe, NoWaiterAssumption
      DEF Deactivate, CancelAll, InQueue, InBatch, InHandlers
  <2>2. ~Waiting(v)'
      BY <1>4, DeactivateEndsWaiting
  <2> QED
      BY <2>1, <2>2 DEF Placed
<1>5. ASSUME NEW w \in Waiters, NEW c \in Commands, NEW n \in 0 .. MaxBatch,
             RegisterBatch(w, c, n)
      PROVE  Placed(v)'
    BY <1>5, MaxBatchAssumption, RegisterBatchPlaces
<1>6. ASSUME NEW c \in Commands, NEW p \in Replies, Dispatched(c, p) PROVE Placed(v)'
    BY <1>6, DispatchToBatchPlaces, DispatchToHandlerPlaces, DispatchRejectPlaces
    DEF Dispatched
<1>7. CASE Activate \/ UNCHANGED dispatcherVars
    BY <1>1, <1>7 DEF Activate, dispatcherVars
<1>8. ASSUME NEW w \in Waiters, NEW c \in Commands, RegisterHandler(w, c) PROVE Placed(v)'
    BY <1>8, RegisterHandlerPlaces
<1>9. ASSUME NEW w \in Waiters, NEW t \in Txids, RegisterBroadcast(w, t) PROVE Placed(v)'
    BY <1>9, RegisterBroadcastPlaces
<1> QED
    BY <1>2, <1>3, <1>4, <1>5, <1>6, <1>7, <1>8, <1>9 DEF DispatcherNext

\* Whatever replaces, pops, completes or cancels a sender of the dispatcher: a
\* receiver that still waits has exactly one, in exactly one table, so that it can be
\* answered and cancel_all reaches it.
THEOREM EveryWaiterHasOneSender == DispatcherSpec => []SenderInOneSlot
<1>1. DispatcherInit => AllPlaced
  <2> SUFFICES ASSUME DispatcherInit, NEW w \in Waiters PROVE Placed(w)
      BY DEF AllPlaced
  <2>1. \A s : s \notin Slots(w)
      BY SlotsAre, NoWaiterAssumption DEF DispatcherInit, InQueue, InBatch, InHandlers
  <2> QED
      BY <2>1 DEF DispatcherInit, Placed, Waiting
<1>2. DispatcherTypeOK /\ AllPlaced /\ [DispatcherNext]_dispatcherVars => AllPlaced'
    BY NextPlaces DEF AllPlaced
<1>3. QED
    BY <1>1, <1>2, DispatcherTypeCorrect, PlacedMeansOneSlot, PTL DEF DispatcherSpec

-----------------------------------------------------------------------------
\* What the calls are made of.
LEMMA CallTypes ==
    /\ Requests \subseteq Waiters
    /\ \A w \in Requests : Expects[w] \in Commands /\ Expects[w] # "reject"
    /\ \A w \in Broadcasts : w \in Waiters /\ TxidOf[w] \in Txids
    /\ Waiters \subseteq Replies /\ NoWaiter \in Replies
BY CallsAssumption, RepliesAssumption DEF Broadcasts

LEMMA HeadOfWire ==
    ASSUME TypeOK, wire # <<>>
    PROVE  /\ Head(wire).cmd \in Commands /\ Head(wire).re \in Replies
           /\ Tail(wire) \in Seq(Message)
<1>1. wire \in Seq(Message)
    BY DEF TypeOK
<1>2. Head(wire) \in Message /\ Tail(wire) \in Seq(Message)
    BY <1>1, HeadTailProperties
<1>3. QED
    BY <1>2 DEF Message

-----------------------------------------------------------------------------
(* Well-formed states.                                                      *)

LEMMA InitType == Init => TypeOK
<1> SUFFICES ASSUME Init PROVE TypeOK
    OBVIOUS
<1>1. DispatcherTypeOK
    BY DispatcherInitType DEF Init
<1>2. asked \in Seq(Waiters) /\ wire \in Seq(Message) /\ volunteered \in Seq(Commands)
    BY EmptySeq DEF Init
<1>3. unsolicited = 0 /\ unsolicited \in 0 .. (MaxUnsolicited + 1)
      /\ ~(unsolicited > MaxUnsolicited)
    BY BoundsAssumption DEF Init
<1>4. QED
    BY <1>1, <1>2, <1>3 DEF Init, TypeOK, CallStates, Outcomes

LEMMA ListenerType ==
    ASSUME TypeOK, StartListener \/ Listener
    PROVE  TypeOK'
<1>1. CASE StartListener
    BY <1>1 DEF TypeOK, StartListener, ListenerOnly, dispatcherVars,
                DispatcherTypeOK
<1>2. CASE ListenerBegins
    BY <1>2, ActivateType DEF TypeOK, ListenerBegins, ListenerOnly
<1>3. CASE ReadDispatched
    BY <1>3, HeadOfWire, DispatchedType DEF TypeOK, ReadDispatched, ListenerOnly
<1>4. CASE ReadUndispatched
  <2>1. DispatcherTypeOK' /\ wire' \in Seq(Message)
      BY <1>4, HeadOfWire, NotDispatchedType DEF TypeOK, ReadUndispatched
  <2>2. /\ unsolicited' \in 0 .. (MaxUnsolicited + 1)
        /\ unsolicited' > MaxUnsolicited => listener' = "exiting"
        /\ listener' \in {"reading", "replying", "exiting"}
      BY <1>4, BoundsAssumption DEF TypeOK, ReadUndispatched
  <2>3. QED
      BY <1>4, <2>1, <2>2 DEF TypeOK, ReadUndispatched, ListenerOnly
<1>5. CASE ListenerTakesWriter \/ ListenerGivesUp \/ ListenerWrites
    BY <1>5 DEF TypeOK, ListenerTakesWriter, ListenerGivesUp, ListenerWrites,
                ListenerOnly, dispatcherVars, DispatcherTypeOK
<1>6. CASE ListenerCancelled \/ ListenerReadFails
    BY <1>6 DEF TypeOK, ListenerCancelled, ListenerReadFails,
                ListenerOnly, dispatcherVars, DispatcherTypeOK
<1>7. CASE ListenerExits
    BY <1>7, DeactivateType DEF TypeOK, ListenerExits, ListenerOnly
<1>8. QED
    BY <1>1, <1>2, <1>3, <1>4, <1>5, <1>6, <1>7 DEF Listener

\* What a step of call w leaves alone or changes besides the dispatcher.
LEMMA ReturnType ==
    ASSUME TypeOK, NEW w \in Waiters, NEW r \in Outcomes, Return(w, r)
    PROVE  call' \in [Waiters -> CallStates] /\ outcome' \in [Waiters -> Outcomes]
BY DEF TypeOK, Return, CallStates

LEMMA CallStepType ==
    ASSUME TypeOK, NEW w \in Waiters, CallStep(w)
    PROVE  TypeOK'
<1>1. CASE BeginRequest(w)
  <2>1. DispatcherTypeOK'
      BY <1>1, CallTypes, RegisterHandlerType DEF BeginRequest, TypeOK
  <2>2. QED
      BY <1>1, <2>1 DEF BeginRequest, TypeOK, CallOnly, CallStates
<1>2. CASE RefuseRequest(w)
  <2>1. call' \in [Waiters -> CallStates] /\ outcome' \in [Waiters -> Outcomes]
      BY <1>2, ReturnType DEF RefuseRequest, Outcomes
  <2>2. QED
      BY <1>2, <2>1 DEF RefuseRequest, TypeOK, CallOnly, dispatcherVars,
                        DispatcherTypeOK
<1>3. CASE BeginBroadcast(w)
  <2>1. DispatcherTypeOK'
      BY <1>3, CallTypes, RegisterBroadcastType DEF BeginBroadcast, TypeOK
  <2>2. QED
      BY <1>3, <2>1 DEF BeginBroadcast, TypeOK, CallOnly, CallStates
<1>4. CASE TakeWriter(w)
    BY <1>4 DEF TakeWriter, TypeOK, CallOnly, CallStates, dispatcherVars,
                DispatcherTypeOK
<1>5. CASE WriteSucceeds(w)
  <2>1. asked' \in Seq(Waiters)
      BY <1>5 DEF WriteSucceeds, TypeOK
  <2>2. QED
      BY <1>5, <2>1 DEF WriteSucceeds, TypeOK, CallOnly, CallStates,
                        dispatcherVars, DispatcherTypeOK
<1>6. ASSUME FindNoWriter(w) \/ WriteFails(w) \/ Abort(w) \/ TimesOut(w)
      PROVE  TypeOK'
  <2>1. DispatcherTypeOK'
      BY <1>6, DropReceiverType DEF FindNoWriter, WriteFails, Abort, TimesOut, TypeOK
  <2>2. call' \in [Waiters -> CallStates] /\ outcome' \in [Waiters -> Outcomes]
    <3>1. PICK r \in Outcomes : Return(w, r)
        BY <1>6 DEF FindNoWriter, WriteFails, Abort, TimesOut, Outcomes
    <3>2. QED
        BY <3>1, ReturnType
  <2>3. /\ writer' \in {"slot", "closed", "lost", "listener"} \cup Waiters
        /\ asked' \in Seq(Waiters)
      BY <1>6 DEF FindNoWriter, WriteFails, Abort, TimesOut, TypeOK
  <2>4. CallOnly
      BY <1>6 DEF FindNoWriter, WriteFails, Abort, TimesOut
  <2>5. QED
      BY <2>1, <2>2, <2>3, <2>4 DEF TypeOK, CallOnly
<1>7. ASSUME ReceiveAnswer(w) \/ ReceiveError(w)
      PROVE  TypeOK'
  <2>1. call' \in [Waiters -> CallStates] /\ outcome' \in [Waiters -> Outcomes]
    <3>1. PICK r \in Outcomes : Return(w, r)
        BY <1>7 DEF ReceiveAnswer, ReceiveError, Outcomes
    <3>2. QED
        BY <3>1, ReturnType
  <2>2. QED
      BY <1>7, <2>1 DEF ReceiveAnswer, ReceiveError, TypeOK, CallOnly,
                        dispatcherVars, DispatcherTypeOK
<1>8. QED
    BY <1>1, <1>2, <1>3, <1>4, <1>5, <1>6, <1>7 DEF CallStep

LEMMA OwnerType ==
    ASSUME TypeOK, BeginDisconnect \/ EndDisconnect \/ DropPeer
    PROVE  TypeOK'
BY DEF TypeOK, BeginDisconnect, EndDisconnect, DropPeer, dispatcherVars,
       DispatcherTypeOK

LEMMA RemoteType ==
    ASSUME TypeOK, Remote
    PROVE  TypeOK'
<1>1. CASE RemoteAnswers
  <2>1. Head(asked) \in Waiters /\ Tail(asked) \in Seq(Waiters)
      BY <1>1, HeadTailProperties DEF RemoteAnswers, TypeOK
  <2>2. [cmd |-> IF Head(asked) \in Requests THEN Expects[Head(asked)] ELSE "reject",
         re |-> Head(asked)] \in Message
      BY <2>1, CallTypes, RejectAssumption DEF Message
  <2>3. asked' \in Seq(Waiters) /\ wire' \in Seq(Message)
      BY <1>1, <2>1, <2>2 DEF RemoteAnswers, TypeOK
  <2>4. QED
      BY <1>1, <2>3 DEF RemoteAnswers, TypeOK, RemoteOnly, dispatcherVars,
                        DispatcherTypeOK
<1>2. CASE RemoteIgnores
  <2>1. Tail(asked) \in Seq(Waiters)
      BY <1>2, HeadTailProperties DEF RemoteIgnores, TypeOK
  <2>2. QED
      BY <1>2, <2>1 DEF RemoteIgnores, TypeOK, RemoteOnly, dispatcherVars,
                        DispatcherTypeOK
<1>3. ASSUME NEW c \in Commands, RemoteVolunteers(c)
      PROVE  TypeOK'
  <2>1. [cmd |-> c, re |-> NoWaiter] \in Message
      BY CallTypes DEF Message
  <2>2. wire' \in Seq(Message) /\ volunteered' \in Seq(Commands)
      BY <1>3, <2>1 DEF RemoteVolunteers, TypeOK
  <2>3. QED
      BY <1>3, <2>2 DEF RemoteVolunteers, TypeOK, RemoteOnly, dispatcherVars,
                        DispatcherTypeOK
<1>4. QED
    BY <1>1, <1>2, <1>3 DEF Remote

LEMMA NextType == TypeOK /\ [Next]_vars => TypeOK'
<1>1. ASSUME TypeOK, Next PROVE TypeOK'
    BY <1>1, ListenerType, CallStepType, OwnerType, RemoteType DEF Next
<1>2. ASSUME TypeOK, UNCHANGED vars PROVE TypeOK'
    BY <1>2 DEF TypeOK, vars, linkVars, dispatcherVars, DispatcherTypeOK
<1>3. QED
    BY <1>1, <1>2

\* The state of a connection is well formed whatever calls, listener and
\* remote do.
THEOREM TypeCorrect == Spec => []TypeOK
<1>1. QED
    BY InitType, NextType, PTL DEF Spec

-----------------------------------------------------------------------------
(* A waiting request can be reached.                                        *)

\* The promise NoStrandedRequest makes to each request.
Reachable(w) == Waiting(w) => active /\ QueuedFor(w, Expects[w])

LEMMA NoStrandedMeansReachable ==
    NoStrandedRequest <=> \A w \in Requests : Reachable(w)
BY DEF NoStrandedRequest, Reachable, QueuedFor

\* A step that leaves the dispatcher alone, or only drops receivers, strands
\* nobody.
LEMMA QuietStep ==
    ASSUME DispatcherTypeOK, NEW w \in Requests, Reachable(w),
           UNCHANGED <<active, pending>>,
           Waiting(w)' => Waiting(w)
    PROVE  Reachable(w)'
BY DEF Reachable, QueuedFor

LEMMA DropKeeps ==
    ASSUME DispatcherTypeOK, NEW v \in Waiters, DropReceiver(v), NEW w \in Waiters
    PROVE  UNCHANGED <<active, pending>> /\ (Waiting(w)' => Waiting(w))
BY DEF DispatcherTypeOK, DropReceiver, Waiting

\* The listener: what it hands out ends the waiting of its receiver, what it
\* pops belonged to somebody else, and it exits only with everyone released.
LEMMA ListenerReaches ==
    ASSUME TypeOK, NEW w \in Requests, Reachable(w), StartListener \/ Listener
    PROVE  Reachable(w)'
<1> w \in Waiters /\ Expects[w] \in Commands
    BY CallTypes
<1> DispatcherTypeOK
    BY DEF TypeOK
<1>1. CASE UNCHANGED dispatcherVars
    BY <1>1, QuietStep DEF dispatcherVars, Waiting
<1>2. CASE ListenerBegins
    BY <1>2 DEF ListenerBegins, Activate, Reachable, QueuedFor, Waiting
<1>3. CASE ReadDispatched \/ ReadUndispatched
  <2>1. PICK c \in Commands, p \in Replies : Dispatched(c, p) \/ NotDispatched(c)
      BY <1>3, HeadOfWire DEF ReadDispatched, ReadUndispatched
  <2>2. active' = active
      BY <2>1 DEF Dispatched, NotDispatched, DispatchToBatch, DispatchToHandler,
                  DispatchReject
  <2>3. Waiting(w)' => Waiting(w)
      BY <2>1 DEF DispatcherTypeOK, Dispatched, NotDispatched, DispatchToBatch,
                  DispatchToHandler, DispatchReject, Waiting
  <2>4. QED
      BY <2>1, <2>2, <2>3, DispatchKeepsWaiting DEF Reachable
<1>4. CASE ListenerExits
    BY <1>4, DeactivateEndsWaiting DEF ListenerExits, Reachable
<1>5. QED
    BY <1>1, <1>2, <1>3, <1>4
    DEF Listener, StartListener, ListenerTakesWriter, ListenerGivesUp,
        ListenerWrites, ListenerCancelled, ListenerReadFails

\* A call: a request registers only while the listener is active, and every
\* early return drops the receiver and nothing else.
LEMMA CallReaches ==
    ASSUME TypeOK, NEW w \in Requests, Reachable(w),
           NEW v \in Waiters, CallStep(v)
    PROVE  Reachable(w)'
<1> w \in Waiters /\ Expects[w] \in Commands
    BY CallTypes
<1> DispatcherTypeOK
    BY DEF TypeOK
<1>1. CASE UNCHANGED dispatcherVars
    BY <1>1, QuietStep DEF dispatcherVars, Waiting
<1>2. CASE DropReceiver(v)
    BY <1>2, DropKeeps, QuietStep
<1>3. CASE BeginRequest(v)
  <2>1. Expects[v] \in Commands /\ RegisterHandler(v, Expects[v]) /\ active
      BY <1>3, CallTypes DEF BeginRequest
  <2>2. /\ QueuedFor(v, Expects[v])'
        /\ \A u \in Waiters, d \in Commands : QueuedFor(u, d) => QueuedFor(u, d)'
      BY <2>1, RegisterHandlerQueues
  <2>3. active' = active /\ (w # v => receiver'[w] = receiver[w])
      BY <2>1 DEF RegisterHandler, DispatcherTypeOK
  <2>4. QED
      BY <2>1, <2>2, <2>3 DEF Reachable, Waiting
<1>4. CASE BeginBroadcast(v)
  <2>1. v # w
      BY <1>4 DEF BeginBroadcast, Broadcasts
  <2>2. UNCHANGED <<active, pending>> /\ (Waiting(w)' => Waiting(w))
      BY <1>4, <2>1 DEF BeginBroadcast, RegisterBroadcast, Waiting
  <2>3. QED
      BY <2>2, QuietStep
<1>5. QED
    BY <1>1, <1>2, <1>3, <1>4
    DEF CallStep, RefuseRequest, TakeWriter, FindNoWriter, WriteSucceeds, WriteFails,
        Abort, ReceiveAnswer, ReceiveError, TimesOut

LEMMA NextReaches == TypeOK /\ NoStrandedRequest /\ [Next]_vars => NoStrandedRequest'
<1> SUFFICES ASSUME TypeOK, \A w \in Requests : Reachable(w), [Next]_vars
             PROVE  \A w \in Requests : Reachable(w)'
    BY NoStrandedMeansReachable DEF NoStrandedRequest, Reachable, QueuedFor
<1> TAKE w \in Requests
<1> DispatcherTypeOK
    BY DEF TypeOK
<1>1. CASE UNCHANGED dispatcherVars
    BY <1>1, QuietStep DEF dispatcherVars, Waiting
<1>2. CASE StartListener \/ Listener
    BY <1>2, ListenerReaches
<1>3. ASSUME NEW v \in Waiters, CallStep(v) PROVE Reachable(w)'
    BY <1>3, CallReaches
<1>4. QED
    BY <1>1, <1>2, <1>3
    DEF Next, vars, BeginDisconnect, EndDisconnect, DropPeer, Remote, RemoteAnswers,
        RemoteIgnores, RemoteVolunteers, RemoteOnly

\* No request waits where the listener cannot reach it: while it waits, the
\* listener is active and holds its sender. TypeOK is what makes this
\* inductive: dispatch keeps the queues of other commands only if the tables
\* are functions over the commands.
THEOREM NobodyIsStranded == Spec => []NoStrandedRequest
<1>1. Init => NoStrandedRequest
    BY CallTypes DEF Init, DispatcherInit, NoStrandedRequest, Waiting
<1>2. QED
    BY <1>1, TypeCorrect, NextReaches, PTL DEF Spec

-----------------------------------------------------------------------------
(* The writer.                                                              *)

\* What a step of call w does to the calls: a call that returned is over.
LEMMA CallEffect ==
    ASSUME TypeOK, NEW w \in Waiters, CallStep(w)
    PROVE  /\ call[w] # "done" /\ CallOnly
           /\ \A v \in Waiters : v # w => call'[v] = call[v] /\ outcome'[v] = outcome[v]
           /\ call'[w] # "done" => outcome'[w] = outcome[w]
<1>1. CASE BeginRequest(w) \/ BeginBroadcast(w)
    BY <1>1 DEF TypeOK, BeginRequest, BeginBroadcast, MayBegin
<1>2. CASE TakeWriter(w) \/ WriteSucceeds(w)
    BY <1>2 DEF TypeOK, TakeWriter, WriteSucceeds
<1>3. CASE RefuseRequest(w) \/ FindNoWriter(w) \/ WriteFails(w) \/ Abort(w)
    BY <1>3 DEF TypeOK, RefuseRequest, FindNoWriter, WriteFails, Abort, Return, MayBegin
<1>4. CASE ReceiveAnswer(w) \/ ReceiveError(w) \/ TimesOut(w)
    BY <1>4 DEF TypeOK, ReceiveAnswer, ReceiveError, TimesOut, Return
<1> QED
    BY <1>1, <1>2, <1>3, <1>4 DEF CallStep

\* The steps that are not of a call leave the calls alone.
LEMMA OtherEffect ==
    ASSUME StartListener \/ Listener \/ BeginDisconnect \/ EndDisconnect \/ DropPeer \/ Remote
           \/ UNCHANGED vars
    PROVE  UNCHANGED <<call, outcome>>
<1>1. CASE StartListener \/ Listener
    BY <1>1 DEF StartListener, Listener, ListenerBegins, ReadDispatched, ReadUndispatched,
        ListenerTakesWriter, ListenerGivesUp, ListenerWrites, ListenerCancelled,
        ListenerReadFails, ListenerExits, ListenerOnly
<1>2. CASE BeginDisconnect \/ EndDisconnect \/ DropPeer
    BY <1>2 DEF BeginDisconnect, EndDisconnect, DropPeer
<1>3. CASE Remote
    BY <1>3 DEF Remote, RemoteAnswers, RemoteIgnores, RemoteVolunteers, RemoteOnly
<1>4. CASE UNCHANGED vars
    BY <1>4 DEF vars, linkVars
<1> QED
    BY <1>1, <1>2, <1>3, <1>4

Returned == \A w \in Waiters : outcome[w] # "none" => call[w] = "done"

LEMMA NextReturned == TypeOK /\ Returned /\ [Next]_vars => Returned'
<1> SUFFICES ASSUME TypeOK, Returned, [Next]_vars PROVE Returned'
    OBVIOUS
<1>1. ASSUME NEW w \in Waiters, CallStep(w) PROVE Returned'
    BY <1>1, CallEffect DEF Returned
<1>2. CASE UNCHANGED <<call, outcome>>
    BY <1>2 DEF Returned
<1> QED
    BY <1>1, <1>2, OtherEffect DEF Next

\* Where the writer is while nobody was aborted.
Accounted ==
    \/ writer = "slot"
    \/ writer = "listener" /\ listener = "writing"
    \/ \E w \in Waiters : writer = w /\ call[w] = "sending"

LEMMA NextKeepsWriter ==
    TypeOK /\ Returned /\ WriterNeverLeaks /\ [Next]_vars => WriterNeverLeaks'
<1> SUFFICES ASSUME TypeOK, Returned, [Next]_vars, state' = "Connected",
                    \A w \in Waiters : outcome'[w] # "aborted",
                    state = "Connected" /\ (\A w \in Waiters : outcome[w] # "aborted")
                        => Accounted
             PROVE  Accounted'
    BY DEF WriterNeverLeaks, Accounted
<1>1. ASSUME NEW w \in Waiters, CallStep(w) PROVE Accounted'
  <2>1. state = "Connected" /\ \A v \in Waiters : outcome[v] # "aborted"
    <3>1. outcome[w] = "none"
        BY <1>1, CallEffect DEF Returned
    <3> QED
        BY <1>1, <3>1, CallEffect DEF CallOnly
  <2>2. Accounted /\ listener' = listener
      BY <1>1, <2>1, CallEffect DEF CallOnly
  <2>3. CASE WriteSucceeds(w) \/ WriteFails(w)
      BY <2>3 DEF WriteSucceeds, WriteFails, Accounted
  <2>4. CASE TakeWriter(w)
      BY <2>4 DEF TakeWriter, TypeOK, Accounted
  <2>5. CASE Abort(w)
      BY <2>5 DEF Abort, Return, TypeOK
  <2>6. ASSUME writer' = writer, call[w] # "sending" PROVE Accounted'
      BY <1>1, <2>2, <2>6, CallEffect DEF Accounted
  <2>7. CASE BeginRequest(w) \/ RefuseRequest(w) \/ BeginBroadcast(w)
      BY <2>6, <2>7 DEF BeginRequest, RefuseRequest, BeginBroadcast, MayBegin
  <2>8. CASE FindNoWriter(w) \/ ReceiveAnswer(w) \/ ReceiveError(w) \/ TimesOut(w)
      BY <2>6, <2>8 DEF FindNoWriter, ReceiveAnswer, ReceiveError, TimesOut
  <2> QED
      BY <1>1, <2>3, <2>4, <2>5, <2>7, <2>8 DEF CallStep
<1>2. CASE StartListener \/ Listener
  <2>1. Accounted /\ UNCHANGED call
      BY <1>2, OtherEffect DEF StartListener, Listener, ListenerBegins, ReadDispatched,
          ReadUndispatched, ListenerTakesWriter, ListenerGivesUp, ListenerWrites,
          ListenerCancelled, ListenerReadFails, ListenerExits, ListenerOnly
  <2>2. CASE ListenerTakesWriter \/ ListenerWrites
      BY <2>2 DEF ListenerTakesWriter, ListenerWrites, Accounted
  <2>3. CASE ~(ListenerTakesWriter \/ ListenerWrites)
    <3>1. writer' = writer /\ listener # "writing"
        BY <1>2, <2>3 DEF StartListener, Listener, ListenerBegins, ReadDispatched,
            ReadUndispatched, ListenerGivesUp, ListenerCancelled, ListenerReadFails,
            ListenerExits
    <3> QED
        BY <2>1, <3>1 DEF Accounted
  <2> QED
      BY <2>2, <2>3
<1>3. CASE BeginDisconnect \/ EndDisconnect \/ DropPeer
    BY <1>3 DEF BeginDisconnect, EndDisconnect, DropPeer
<1>4. CASE Remote \/ UNCHANGED vars
    BY <1>4 DEF Remote, RemoteAnswers, RemoteIgnores, RemoteVolunteers, RemoteOnly,
        vars, linkVars, Accounted
<1> QED
    BY <1>1, <1>2, <1>3, <1>4 DEF Next

\* Each sender that takes the writer out of its slot (send_frame, the listener's answers)
\* puts it back on every path but one: a call that is aborted in its write.
THEOREM WriterIsKept == Spec => []WriterNeverLeaks
<1>1. Init => Returned /\ WriterNeverLeaks
    BY DEF Init, Returned, WriterNeverLeaks
<1>2. QED
    BY <1>1, TypeCorrect, NextReturned, NextKeepsWriter, PTL DEF Spec

-----------------------------------------------------------------------------
(* Silence.                                                                 *)

\* The token is cancelled by a disconnection only, and a peer is connected once.
Parting == cancelled => state \in {"Disconnecting", "Disconnected"}

\* The dispatcher is active while the listener's loop runs, and holds nothing outside it.
InStep == IF listener \in {"off", "spawned", "exited"} THEN Silent ELSE active

\* What is over stays over.
Lasts == (listener = "exited" => listener' = "exited") /\ (cancelled => cancelled')

LEMMA StaysInStep ==
    ASSUME TypeOK, InStep, [Next]_vars
    PROVE  InStep'
<1> DispatcherTypeOK
    BY DEF TypeOK
<1>1. CASE UNCHANGED <<active, pending>> /\ UNCHANGED listener
    BY <1>1 DEF InStep, Silent
<1>2. CASE StartListener
    BY <1>2 DEF StartListener, InStep, Silent, dispatcherVars
<1>3. CASE Listener
  <2>1. CASE ListenerBegins
      BY <2>1 DEF ListenerBegins, Activate, InStep
  <2>2. CASE ReadDispatched \/ ReadUndispatched
    <3>1. active' = active
        BY <2>2 DEF ReadDispatched, ReadUndispatched, Dispatched, NotDispatched,
           DispatchToBatch, DispatchToHandler, DispatchReject
    <3>2. listener = "reading" /\ listener' \in {"reading", "replying", "exiting"}
        BY <2>2 DEF ReadDispatched, ReadUndispatched
    <3> QED
        BY <3>1, <3>2 DEF InStep
  <2>3. CASE ListenerExits
      BY <2>3 DEF ListenerExits, Deactivate, CancelAll, InStep, Silent
  <2>4. CASE \/ ListenerTakesWriter \/ ListenerGivesUp \/ ListenerWrites
             \/ ListenerCancelled \/ ListenerReadFails
      BY <2>4 DEF ListenerTakesWriter, ListenerGivesUp, ListenerWrites, ListenerCancelled,
         ListenerReadFails, InStep, dispatcherVars
  <2> QED
      BY <1>3, <2>1, <2>2, <2>3, <2>4 DEF Listener
<1>4. ASSUME NEW w \in Waiters, CallStep(w) PROVE InStep'
  <2>1. CallOnly
      BY <1>4, CallEffect
  <2>2. CASE BeginRequest(w)
      BY <2>1, <2>2 DEF BeginRequest, RegisterHandler, CallOnly, InStep, Silent
  <2>3. CASE UNCHANGED <<active, pending>>
      BY <2>1, <2>3, <1>1 DEF CallOnly
  <2> QED
      BY <1>4, <2>2, <2>3
      DEF CallStep, RefuseRequest, BeginBroadcast, RegisterBroadcast, TakeWriter,
          FindNoWriter, WriteSucceeds, WriteFails, Abort, ReceiveAnswer, ReceiveError,
          TimesOut, DropReceiver, dispatcherVars
<1> QED
    BY <1>1, <1>2, <1>3, <1>4
    DEF Next, vars, linkVars, dispatcherVars, BeginDisconnect, EndDisconnect, DropPeer,
        Remote, RemoteAnswers, RemoteIgnores, RemoteVolunteers, RemoteOnly

\* The safety core of StopSilencesListener: the dispatcher of a listener that has exited is
\* silent, and neither calls nor broadcasts nor the remote wake either of them again; and
\* a cancellation is never taken back.
THEOREM SilenceIsKept ==
    Spec => /\ [](listener = "exited" => Silent)
            /\ [][Lasts]_vars
<1>1. Init => InStep
    BY DEF Init, DispatcherInit, InStep, Silent
<1>2. InStep => (listener = "exited" => Silent)
    BY DEF InStep
<1>3. ASSUME TypeOK, Parting, [Next]_vars
      PROVE  Parting' /\ Lasts
  <2>1. ASSUME NEW w \in Waiters, CallStep(w) PROVE UNCHANGED <<listener, cancelled, state>>
      BY <1>3, <2>1, CallEffect DEF CallOnly
  <2>2. CASE BeginDisconnect
      BY <1>3, <2>2 DEF BeginDisconnect, Parting, Lasts
  <2>3. CASE EndDisconnect \/ DropPeer
      BY <1>3, <2>3 DEF EndDisconnect, DropPeer, Parting, Lasts
  <2>4. CASE StartListener \/ Listener
      BY <1>3, <2>4 DEF Parting, Lasts, StartListener, Listener, ListenerOnly,
         ListenerBegins, ReadDispatched, ReadUndispatched, ListenerTakesWriter,
         ListenerGivesUp, ListenerWrites, ListenerCancelled, ListenerReadFails, ListenerExits
  <2>5. CASE UNCHANGED <<listener, cancelled, state>>
      BY <1>3, <2>5 DEF Parting, Lasts
  <2> QED
      BY <1>3, <2>1, <2>2, <2>3, <2>4, <2>5
      DEF Next, vars, linkVars, Remote, RemoteAnswers, RemoteIgnores, RemoteVolunteers,
          RemoteOnly
<1>4. TypeOK /\ Parting /\ [Next]_vars => Parting' /\ [Lasts]_vars
    BY <1>3
<1>5. Init => Parting
    BY DEF Init, Parting
<1> QED
    BY <1>1, <1>2, <1>4, <1>5, TypeCorrect, StaysInStep, PTL DEF Spec

-----------------------------------------------------------------------------
(* Answers.                                                                 *)

InProgress(w) == call[w] \in {"registered", "sending", "sent"}

\* The wallet calls one after the other.
OneCall == \A v, w \in Waiters : InProgress(v) /\ InProgress(w) => v = w

\* A connection registers no batches, and every sender under its own command.
QueuesFit ==
    /\ \A c \in Commands : collectors[c] = <<>>
    /\ \A c \in Commands : \A i \in DOMAIN pending[c] :
            pending[c][i] \in Requests /\ Expects[pending[c][i]] = c
    /\ \A t \in Txids : broadcastHandlers[t] \in Broadcasts \cup {NoWaiter}

WaitsInCall == \A w \in Waiters : Waiting(w) => InProgress(w)

Replied == \A w \in Requests : outcome[w] = "reply" => receiver[w] = "got"

\* Nothing spoiled the connection for command c.
Clean(c) ==
    /\ \A i \in DOMAIN volunteered : volunteered[i] # c
    /\ \A v \in Requests : Expects[v] = c => ~Unanswered(v)

\* A request is out and has no answer yet.
Open(v) == call[v] = "sent" /\ receiver[v] \in {"waiting", "recvError"}

AskedFor(i, c) == asked[i] \in Requests /\ Expects[asked[i]] = c

\* At most one question or answer of command c is on its way, that of an open request.
Traffic(c) ==
    /\ \A i \in DOMAIN asked : AskedFor(i, c) => Open(asked[i])
    /\ \A i \in DOMAIN wire : wire[i].cmd = c =>
            wire[i].re \in Requests /\ Expects[wire[i].re] = c /\ Open(wire[i].re)
    /\ \A i, j \in DOMAIN asked : AskedFor(i, c) /\ AskedFor(j, c) => i = j
    /\ \A i, j \in DOMAIN wire : wire[i].cmd = c /\ wire[j].cmd = c => i = j
    /\ \A i \in DOMAIN asked, j \in DOMAIN wire : ~(AskedFor(i, c) /\ wire[j].cmd = c)

\* The requests for command c are answered after they were sent, with their own answer.
OwnAnswer(c) ==
    \A w \in Requests : Expects[w] = c =>
        /\ call[w] \in {"registered", "sending"} => receiver[w] \in {"waiting", "recvError"}
        /\ receiver[w] = "got" => inbox[w] = <<w>>

Served == \A c \in Commands \ {"reject"} : Clean(c) => Traffic(c) /\ OwnAnswer(c)

AnswersInv == Returned /\ OneCall /\ QueuesFit /\ WaitsInCall /\ Replied /\ Served

LEMMA AnswersAreOwn == AnswersInv => OwnReplyUnlessSpoiled
<1> SUFFICES ASSUME AnswersInv, NEW w \in Requests, outcome[w] = "reply",
                    ~ \E v \in Requests \ {w} : Unanswered(v) /\ Expects[v] = Expects[w],
                    ~ \E i \in DOMAIN volunteered : volunteered[i] = Expects[w]
             PROVE  inbox[w] = <<w>>
    BY DEF OwnReplyUnlessSpoiled
<1>1. Expects[w] \in Commands \ {"reject"}
    BY CallTypes
<1>2. Clean(Expects[w])
    BY DEF Clean, Unanswered
<1> QED
    BY <1>1, <1>2 DEF AnswersInv, Served, OwnAnswer, Replied

LEMMA InitAnswers == Init => AnswersInv
<1> SUFFICES ASSUME Init PROVE AnswersInv
    OBVIOUS
<1>1. \A c : Traffic(c)
    BY DEF Init, Traffic
<1>2. \A c : OwnAnswer(c)
    BY CallTypes DEF Init, DispatcherInit, OwnAnswer
<1>3. QueuesFit
    BY DEF Init, DispatcherInit, QueuesFit
<1> QED
    BY <1>1, <1>2, <1>3, CallTypes
    DEF AnswersInv, Returned, OneCall, InProgress, WaitsInCall, Waiting, Replied, Served,
        Init, DispatcherInit

LEMMA AppendEntries ==
    ASSUME NEW S, NEW q \in Seq(S), NEW x \in S
    PROVE  \A i \in DOMAIN Append(q, x) :
                \/ i = Len(q) + 1 /\ Append(q, x)[i] = x
                \/ i \in DOMAIN q /\ i # Len(q) + 1 /\ Append(q, x)[i] = q[i]
<1>1. /\ Len(q) \in Nat /\ DOMAIN q = 1 .. Len(q)
      /\ Append(q, x) \in Seq(S) /\ Len(Append(q, x)) = Len(q) + 1
      /\ Append(q, x)[Len(q) + 1] = x
      /\ \A i \in 1 .. Len(q) : Append(q, x)[i] = q[i]
    BY LenProperties, AppendProperties
<1>2. DOMAIN Append(q, x) = 1 .. (Len(q) + 1)
    BY <1>1, LenProperties
<1> QED
    BY <1>1, <1>2

\* The listener ends the waiting of a receiver or leaves it as it is.
LEMMA ListenerMoves ==
    ASSUME TypeOK, QueuesFit, StartListener \/ Listener, NEW w \in Waiters
    PROVE  \/ receiver'[w] = receiver[w] /\ inbox'[w] = inbox[w]
           \/ Waiting(w) /\ receiver'[w] = "got" /\ ReadDispatched
           \/ Waiting(w) /\ receiver'[w] = "recvError" /\ inbox'[w] = inbox[w]
<1>1. CASE ReadDispatched
  <2>1. PICK c \in Commands, p \in Replies : Dispatched(c, p)
      BY <1>1, HeadOfWire DEF ReadDispatched
  <2>2. ~DispatchToBatch(c, p)
      BY DEF DispatchToBatch, QueuesFit
  <2>3. CASE DispatchToHandler(c, p)
      BY <1>1, <2>3 DEF DispatchToHandler, TypeOK, DispatcherTypeOK, Waiting
  <2>4. CASE DispatchReject(c, p)
      BY <1>1, <2>4 DEF DispatchReject, TypeOK, DispatcherTypeOK, Waiting
  <2> QED
      BY <2>1, <2>2, <2>3, <2>4 DEF Dispatched
<1>2. CASE ReadUndispatched
    BY <1>2 DEF ReadUndispatched, NotDispatched
<1>3. CASE ListenerExits
    BY <1>3 DEF ListenerExits, Deactivate, CancelAll, QueuesFit, Waiting
<1>4. CASE StartListener \/ ListenerBegins \/ ListenerTakesWriter \/ ListenerGivesUp
           \/ ListenerWrites \/ ListenerCancelled \/ ListenerReadFails
    BY <1>4 DEF StartListener, ListenerBegins, Activate, ListenerTakesWriter, ListenerGivesUp,
        ListenerWrites, ListenerCancelled, ListenerReadFails, dispatcherVars
<1> QED
    BY <1>1, <1>2, <1>3, <1>4 DEF Listener

\* The steps of a call.
LEMMA CallMoves ==
    ASSUME TypeOK, OneCall, WaitsInCall, NEW w \in Waiters, CallStep(w), NEW v \in Waiters, v # w
    PROVE  receiver'[v] = receiver[v] /\ inbox'[v] = inbox[v]
<1>1. CASE BeginRequest(w)
    BY <1>1 DEF BeginRequest, RegisterHandler, TypeOK, DispatcherTypeOK
<1>2. CASE BeginBroadcast(w)
    BY <1>2 DEF BeginBroadcast, MayBegin, CallInProgress, RegisterBroadcast, WaitsInCall, InProgress
<1>3. CASE UNCHANGED dispatcherVars
    BY <1>3 DEF dispatcherVars
<1>4. CASE DropReceiver(w)
    BY <1>4 DEF DropReceiver, TypeOK, DispatcherTypeOK
<1> QED
    BY <1>1, <1>2, <1>3, <1>4
    DEF CallStep, RefuseRequest, TakeWriter, FindNoWriter, WriteSucceeds, WriteFails,
        Abort, ReceiveAnswer, ReceiveError, TimesOut

LEMMA QuietEffect ==
    ASSUME BeginDisconnect \/ EndDisconnect \/ DropPeer \/ Remote \/ UNCHANGED vars
    PROVE  UNCHANGED dispatcherVars
BY DEF BeginDisconnect, EndDisconnect, DropPeer, Remote, RemoteAnswers, RemoteIgnores,
       RemoteVolunteers, RemoteOnly, vars

LEMMA NextOneCall ==
    ASSUME TypeOK, AnswersInv, [Next]_vars
    PROVE  OneCall'
<1>1. ASSUME NEW w \in Waiters, CallStep(w) PROVE OneCall'
  <2>1. InProgress(w) \/ ~CallInProgress
      BY <1>1 DEF CallStep, BeginRequest, RefuseRequest, BeginBroadcast, MayBegin, TakeWriter,
          FindNoWriter, WriteSucceeds, WriteFails, Abort, ReceiveAnswer, ReceiveError,
          TimesOut, InProgress
  <2>2. \A v \in Waiters : v # w => ~InProgress(v)
      BY <2>1 DEF AnswersInv, OneCall, CallInProgress, InProgress
  <2> QED
      BY <1>1, <2>2, CallEffect DEF OneCall, InProgress
<1> QED
    BY <1>1, OtherEffect DEF AnswersInv, OneCall, InProgress, Next

LEMMA NextWaitsInCall ==
    ASSUME TypeOK, AnswersInv, [Next]_vars
    PROVE  WaitsInCall'
<1> USE DEF AnswersInv, WaitsInCall, InProgress, Waiting
<1>1. ASSUME NEW w \in Waiters, CallStep(w) PROVE WaitsInCall'
  <2>1. Waiting(w)' => InProgress(w)'
    <3>1. CASE BeginRequest(w) \/ BeginBroadcast(w) \/ TakeWriter(w) \/ WriteSucceeds(w)
        BY <3>1 DEF BeginRequest, BeginBroadcast, TakeWriter, WriteSucceeds, TypeOK
    <3>2. CASE FindNoWriter(w) \/ WriteFails(w) \/ Abort(w) \/ TimesOut(w)
        BY <3>2 DEF FindNoWriter, WriteFails, Abort, TimesOut, DropReceiver, TypeOK,
            DispatcherTypeOK
    <3>3. CASE RefuseRequest(w) \/ ReceiveAnswer(w) \/ ReceiveError(w)
        BY <3>3 DEF RefuseRequest, MayBegin, ReceiveAnswer, ReceiveError, dispatcherVars
    <3> QED
        BY <1>1, <3>1, <3>2, <3>3 DEF CallStep
  <2> QED
      BY <1>1, <2>1, CallMoves, CallEffect
<1>2. CASE StartListener \/ Listener
    BY <1>2, ListenerMoves, OtherEffect
<1>3. CASE BeginDisconnect \/ EndDisconnect \/ DropPeer \/ Remote \/ UNCHANGED vars
    BY <1>3, QuietEffect, OtherEffect DEF dispatcherVars
<1> QED
    BY <1>1, <1>2, <1>3 DEF Next

LEMMA NextReplied ==
    ASSUME TypeOK, AnswersInv, [Next]_vars
    PROVE  Replied'
<1> USE DEF AnswersInv, Replied, Waiting
<1>0. Requests \subseteq Waiters
    BY CallTypes
<1>1. ASSUME NEW w \in Waiters, CallStep(w) PROVE Replied'
  <2>1. w \in Requests /\ outcome'[w] = "reply" => receiver'[w] = "got"
    <3>1. outcome[w] = "none"
        BY <1>1, CallEffect DEF Returned
    <3>2. CASE ReceiveAnswer(w)
        BY <3>2 DEF ReceiveAnswer, dispatcherVars
    <3>3. CASE ~ReceiveAnswer(w)
        BY <1>1, <3>1, <3>3 DEF CallStep, BeginRequest, RefuseRequest, BeginBroadcast,
            TakeWriter, FindNoWriter, WriteSucceeds, WriteFails, Abort, ReceiveError,
            TimesOut, Return, TypeOK
    <3> QED
        BY <3>2, <3>3
  <2> QED
      BY <1>0, <1>1, <2>1, CallMoves, CallEffect
<1>2. CASE StartListener \/ Listener
    BY <1>0, <1>2, ListenerMoves, OtherEffect
<1>3. CASE BeginDisconnect \/ EndDisconnect \/ DropPeer \/ Remote \/ UNCHANGED vars
    BY <1>3, QuietEffect, OtherEffect DEF dispatcherVars
<1> QED
    BY <1>1, <1>2, <1>3 DEF Next

LEMMA NextQueuesFit ==
    ASSUME TypeOK, AnswersInv, [Next]_vars
    PROVE  QueuesFit'
<1> USE DEF AnswersInv
<1> DispatcherTypeOK
    BY DEF TypeOK
<1>1. ASSUME NEW c \in Commands, NEW p \in Replies, Dispatched(c, p) \/ NotDispatched(c)
      PROVE  QueuesFit'
  <2>1. CASE DispatchToHandler(c, p)
    <3>1. PICK i \in DOMAIN pending[c] :
            pending' = [pending EXCEPT ![c] = SubSeq(@, i + 1, Len(@))]
        BY <2>1 DEF DispatchToHandler
    <3>2. /\ i \in Nat
          /\ \A d \in Commands : d # c => pending'[d] = pending[d]
          /\ \A j \in DOMAIN pending'[c] :
                i + j \in DOMAIN pending[c] /\ pending'[c][j] = pending[c][i + j] /\ j \in Nat \ {0}
          /\ \A k \in DOMAIN pending[c] :
                k > i => k - i \in DOMAIN pending'[c] /\ k \in Nat
        BY <3>1, QueueMoves
    <3> QED
        BY <2>1, <3>2 DEF DispatchToHandler, QueuesFit
  <2>2. CASE DispatchReject(c, p) \/ NotDispatched(c)
    <3>1. /\ pending' = [pending EXCEPT ![c] = <<>>] /\ collectors' = collectors
          /\ \A t \in Txids : broadcastHandlers'[t] \in {broadcastHandlers[t], NoWaiter}
        BY <2>2 DEF DispatchReject, NotDispatched, DispatcherTypeOK
    <3>2. \A d \in Commands : pending'[d] = IF d = c THEN <<>> ELSE pending[d]
        BY <3>1 DEF DispatcherTypeOK
    <3> QED
        BY <3>1, <3>2 DEF QueuesFit
  <2> QED
      BY <1>1, <2>1, <2>2 DEF Dispatched, DispatchToBatch, QueuesFit
<1>2. CASE UNCHANGED <<pending, collectors, broadcastHandlers>>
    BY <1>2 DEF QueuesFit
<1>3. CASE StartListener \/ Listener
  <2>1. CASE ReadDispatched \/ ReadUndispatched
      BY <1>1, <2>1, HeadOfWire, CallTypes DEF ReadDispatched, ReadUndispatched
  <2>2. CASE ListenerExits
      BY <2>2 DEF ListenerExits, Deactivate, CancelAll, QueuesFit
  <2> QED
      BY <1>2, <1>3, <2>1, <2>2 DEF Listener, StartListener, ListenerBegins, Activate,
          ListenerTakesWriter, ListenerGivesUp, ListenerWrites, ListenerCancelled,
          ListenerReadFails, dispatcherVars
<1>4. ASSUME NEW w \in Waiters, CallStep(w) PROVE QueuesFit'
  <2>1. CASE BeginRequest(w)
    <3>1. w \in Requests /\ Expects[w] \in Commands /\ RegisterHandler(w, Expects[w])
        BY <2>1, CallTypes DEF BeginRequest
    <3>2. pending[Expects[w]] \in Seq(Waiters)
        BY <3>1 DEF DispatcherTypeOK
    <3>3. \A i \in DOMAIN pending'[Expects[w]] :
            \/ pending'[Expects[w]][i] = w
            \/ /\ i \in DOMAIN pending[Expects[w]]
               /\ pending'[Expects[w]][i] = pending[Expects[w]][i]
      <4> DEFINE q == pending[Expects[w]]
                 r == pending'[Expects[w]]
      <4>1. r = Append(q, w)
          BY <3>1 DEF RegisterHandler, DispatcherTypeOK
      <4> HIDE DEF q, r
      <4>2. \A i \in DOMAIN r : r[i] = w \/ (i \in DOMAIN q /\ r[i] = q[i])
          BY <3>2, <4>1, AppendEntries DEF q
      <4> QED
          BY <4>2 DEF q, r
    <3>4. \A d \in Commands : d # Expects[w] => pending'[d] = pending[d]
        BY <3>1 DEF RegisterHandler, DispatcherTypeOK
    <3> QED
        BY <3>1, <3>3, <3>4 DEF RegisterHandler, QueuesFit
  <2>2. CASE BeginBroadcast(w)
      BY <2>2 DEF BeginBroadcast, RegisterBroadcast, QueuesFit, DispatcherTypeOK
  <2> QED
      BY <1>2, <1>4, <2>1, <2>2 DEF CallStep, RefuseRequest, TakeWriter, FindNoWriter,
          WriteSucceeds, WriteFails, Abort, ReceiveAnswer, ReceiveError, TimesOut,
          DropReceiver, dispatcherVars
<1>5. CASE BeginDisconnect \/ EndDisconnect \/ DropPeer \/ Remote \/ UNCHANGED vars
    BY <1>2, <1>5, QuietEffect DEF dispatcherVars
<1> QED
    BY <1>3, <1>4, <1>5 DEF Next

\* A connection once spoiled for a command stays spoiled.
LEMMA CleanBefore ==
    ASSUME TypeOK, AnswersInv, [Next]_vars, NEW c \in Commands, Clean(c)'
    PROVE  Clean(c)
<1> USE DEF AnswersInv
<1>0. Requests \subseteq Waiters
    BY CallTypes
<1>1. \A v \in Requests : Unanswered(v) => Unanswered(v)'
  <2>1. ASSUME NEW w \in Waiters, CallStep(w)
        PROVE  \A v \in Requests : Unanswered(v) => Unanswered(v)'
      BY <1>0, <2>1, CallEffect DEF Returned, Unanswered
  <2>2. CASE UNCHANGED <<call, outcome>>
      BY <2>2 DEF Unanswered
  <2> QED
      BY <2>1, <2>2, OtherEffect DEF Next
<1>2. \A i \in DOMAIN volunteered : i \in DOMAIN volunteered' /\ volunteered'[i] = volunteered[i]
  <2>1. CASE UNCHANGED volunteered
      BY <2>1
  <2>2. ASSUME NEW d \in Commands, RemoteVolunteers(d)
        PROVE  \A i \in DOMAIN volunteered :
                    i \in DOMAIN volunteered' /\ volunteered'[i] = volunteered[i]
    <3>1. volunteered' = Append(volunteered, d) /\ volunteered \in Seq(Commands)
        BY <2>2 DEF RemoteVolunteers, TypeOK
    <3> QED
        BY <3>1
  <2>3. ASSUME NEW w \in Waiters, CallStep(w) PROVE UNCHANGED volunteered
      BY <2>3, CallEffect DEF CallOnly
  <2>4. CASE StartListener \/ Listener
      BY <2>1, <2>4 DEF StartListener, Listener, ListenerBegins, ReadDispatched,
          ReadUndispatched, ListenerTakesWriter, ListenerGivesUp, ListenerWrites,
          ListenerCancelled, ListenerReadFails, ListenerExits, ListenerOnly
  <2>5. CASE BeginDisconnect \/ EndDisconnect \/ DropPeer \/ RemoteAnswers \/ RemoteIgnores
             \/ UNCHANGED vars
      BY <2>1, <2>5 DEF BeginDisconnect, EndDisconnect, DropPeer, RemoteAnswers, RemoteIgnores,
          vars, linkVars
  <2> QED
      BY <2>1, <2>2, <2>3, <2>4, <2>5 DEF Next, Remote
<1> QED
    BY <1>1, <1>2 DEF Clean

\* Steps that put nothing on its way, and close no request for the command.
LEMMA TrafficStays ==
    ASSUME NEW c \in Commands, Traffic(c), UNCHANGED <<asked, wire>>,
           \A v \in Requests : Expects[v] = c /\ Open(v) => Open(v)'
    PROVE  Traffic(c)'
BY DEF Traffic, AskedFor

LEMMA CallServes ==
    ASSUME TypeOK, AnswersInv, NEW w \in Waiters, CallStep(w),
           NEW c \in Commands \ {"reject"}, Clean(c)', Traffic(c), OwnAnswer(c)
    PROVE  Traffic(c)' /\ OwnAnswer(c)'
<1> USE DEF AnswersInv
<1>0. Requests \subseteq Waiters /\ ("got" # "waiting" /\ "got" # "recvError")
    BY CallTypes
<1>1. \A v \in Requests : v # w => /\ receiver'[v] = receiver[v] /\ inbox'[v] = inbox[v]
                                   /\ call'[v] = call[v]
    BY <1>0, CallMoves, CallEffect
<1>2. CASE w \notin Requests \/ Expects[w] # c
  <2>1. OwnAnswer(c)'
      BY <1>1, <1>2 DEF OwnAnswer
  <2>2. \A v \in Requests : Expects[v] = c /\ Open(v) => Open(v)'
      BY <1>1, <1>2 DEF Open
  <2>3. CASE WriteSucceeds(w)
    <3>1. wire' = wire
        BY <2>3 DEF WriteSucceeds, CallOnly
    <3>2. asked' = Append(asked, w) /\ asked \in Seq(Waiters)
        BY <2>3 DEF WriteSucceeds, TypeOK
    <3>3. \A i \in DOMAIN asked' : AskedFor(i, c)' =>
                i \in DOMAIN asked /\ asked'[i] = asked[i] /\ AskedFor(i, c)
      <4>1. \A i \in DOMAIN Append(asked, w) :
                \/ i = Len(asked) + 1 /\ Append(asked, w)[i] = w
                \/ i \in DOMAIN asked /\ i # Len(asked) + 1 /\ Append(asked, w)[i] = asked[i]
          BY <3>2, AppendEntries
      <4> QED
          BY <1>2, <3>2, <4>1 DEF AskedFor
    <3>4. \A i \in DOMAIN wire' : wire'[i] = wire[i] /\ i \in DOMAIN wire
        BY <3>1
    <3>5. \A i \in DOMAIN asked' : AskedFor(i, c)' => Open(asked[i])'
      <4> SUFFICES ASSUME NEW i \in DOMAIN asked', AskedFor(i, c)' PROVE Open(asked[i])'
          OBVIOUS
      <4>1. i \in DOMAIN asked /\ asked'[i] = asked[i] /\ AskedFor(i, c)
          BY <3>3
      <4>2. asked[i] \in Requests /\ Expects[asked[i]] = c /\ Open(asked[i])
          BY <4>1 DEF Traffic, AskedFor
      <4> QED
          BY <2>2, <4>1, <4>2 DEF Open
    <3>6. \A i \in DOMAIN wire' : wire'[i].cmd = c =>
                wire'[i].re \in Requests /\ Expects[wire'[i].re] = c /\ Open(wire[i].re)'
        BY <2>2, <3>4 DEF Traffic, Open
    <3> QED
        BY <2>1, <3>3, <3>4, <3>5, <3>6 DEF Traffic
  <2>4. CASE ~WriteSucceeds(w)
    <3>1. UNCHANGED <<asked, wire>>
        BY <2>4 DEF CallStep, BeginRequest, RefuseRequest, BeginBroadcast, TakeWriter,
            FindNoWriter, WriteFails, Abort, ReceiveAnswer, ReceiveError, TimesOut, CallOnly
    <3> QED
        BY <2>1, <2>2, <3>1, TrafficStays
  <2> QED
      BY <2>3, <2>4
<1>3. CASE w \in Requests /\ Expects[w] = c
  <2>1. ~Unanswered(w)'
      BY <1>3 DEF Clean
  <2>2. CASE WriteSucceeds(w)
    <3>1. \A v \in Requests : ~Open(v)
        BY <1>0, <2>2 DEF WriteSucceeds, OneCall, InProgress, Open
    <3>2. /\ wire' = wire /\ \A i \in DOMAIN wire : wire[i].cmd # c
          /\ \A i \in DOMAIN asked : ~AskedFor(i, c)
        BY <2>2, <3>1 DEF WriteSucceeds, CallOnly, Traffic, AskedFor
    <3>3. asked' = Append(asked, w) /\ asked \in Seq(Waiters)
        BY <2>2 DEF WriteSucceeds, TypeOK
    <3>4. \A i \in DOMAIN asked' : AskedFor(i, c)' => i = Len(asked) + 1 /\ asked'[i] = w
      <4>1. \A i \in DOMAIN Append(asked, w) :
                \/ i = Len(asked) + 1 /\ Append(asked, w)[i] = w
                \/ i \in DOMAIN asked /\ i # Len(asked) + 1 /\ Append(asked, w)[i] = asked[i]
          BY <3>3, AppendEntries
      <4> QED
          BY <3>2, <3>3, <4>1 DEF AskedFor
    <3>5. call'[w] = "sent" /\ receiver'[w] = receiver[w] /\ inbox'[w] = inbox[w]
          /\ call[w] = "sending"
        BY <2>2 DEF WriteSucceeds, TypeOK, dispatcherVars
    <3>6. Open(w)'
        BY <1>3, <3>5 DEF OwnAnswer, Open
    <3>7. Traffic(c)'
        BY <3>2, <3>4, <3>6 DEF Traffic
    <3>8. OwnAnswer(c)'
        BY <1>1, <3>5 DEF OwnAnswer
    <3> QED
        BY <3>7, <3>8
  <2>3. CASE BeginRequest(w) \/ TakeWriter(w)
    <3>1. UNCHANGED <<asked, wire>> /\ ~Open(w)
        BY <2>3 DEF BeginRequest, MayBegin, TakeWriter, CallOnly, Open
    <3>2. \A v \in Requests : Open(v) => Open(v)'
        BY <1>1, <3>1 DEF Open
    <3>3. /\ receiver'[w] \in {"waiting", "recvError"}
          /\ UNCHANGED inbox
      <4>1. CASE BeginRequest(w)
          BY <4>1 DEF BeginRequest, RegisterHandler, TypeOK, DispatcherTypeOK
      <4>2. CASE TakeWriter(w)
          BY <1>3, <4>2 DEF TakeWriter, dispatcherVars, OwnAnswer
      <4> QED
          BY <2>3, <4>1, <4>2
    <3>4. OwnAnswer(c)'
        BY <1>0, <1>1, <3>3 DEF OwnAnswer
    <3> QED
        BY <3>1, <3>2, <3>4, TrafficStays
  <2>4. CASE RefuseRequest(w) \/ FindNoWriter(w) \/ WriteFails(w) \/ ReceiveAnswer(w)
    <3>1. UNCHANGED <<asked, wire, inbox>> /\ ~Open(w) /\ call'[w] = "done"
        BY <1>0, <2>4 DEF RefuseRequest, MayBegin, FindNoWriter, WriteFails, ReceiveAnswer,
            CallOnly, Open, dispatcherVars, DropReceiver, Return, TypeOK
    <3>2. \A v \in Requests : Open(v) => Open(v)'
        BY <1>1, <3>1 DEF Open
    <3>3. receiver'[w] = "got" => receiver[w] = "got"
        BY <2>4 DEF RefuseRequest, FindNoWriter, WriteFails, ReceiveAnswer, dispatcherVars,
            DropReceiver, TypeOK, DispatcherTypeOK
    <3>4. OwnAnswer(c)'
        BY <1>1, <3>1, <3>3 DEF OwnAnswer
    <3> QED
        BY <3>1, <3>2, <3>4, TrafficStays
  <2>5. CASE Abort(w) \/ ReceiveError(w) \/ TimesOut(w)
      BY <1>3, <2>1, <2>5 DEF Abort, ReceiveError, TimesOut, Return, Unanswered, TypeOK
  <2>6. ~BeginBroadcast(w)
      BY <1>3 DEF BeginBroadcast, Broadcasts
  <2> QED
      BY <2>2, <2>3, <2>4, <2>5, <2>6 DEF CallStep
<1> QED
    BY <1>2, <1>3

LEMMA RemoteServes ==
    ASSUME TypeOK, AnswersInv, Remote,
           NEW c \in Commands \ {"reject"}, Clean(c)', Traffic(c), OwnAnswer(c)
    PROVE  Traffic(c)' /\ OwnAnswer(c)'
<1>1. OwnAnswer(c)'
    BY QuietEffect, OtherEffect DEF OwnAnswer, dispatcherVars
<1>2. \A v : Open(v)' <=> Open(v)
    BY QuietEffect, OtherEffect DEF Open, dispatcherVars
<1>3. asked \in Seq(Waiters) /\ wire \in Seq(Message)
    BY DEF TypeOK
<1>4. ASSUME asked # <<>>, asked' = Tail(asked)
      PROVE  \A i \in DOMAIN asked' : /\ i \in Nat \ {0} /\ i + 1 \in DOMAIN asked /\ 1 \in DOMAIN asked
                                      /\ AskedFor(i, c)' <=> AskedFor(i + 1, c)
                                      /\ asked'[i] = asked[i + 1]
  <2>1. /\ Len(asked) \in Nat \ {0} /\ DOMAIN asked = 1 .. Len(asked)
        /\ DOMAIN asked' = 1 .. (Len(asked) - 1)
        /\ \A j \in 1 .. (Len(asked) - 1) : asked'[j] = asked[j + 1]
      BY <1>3, <1>4, HeadAndTail
  <2> QED
      BY <2>1 DEF AskedFor
<1>5. CASE RemoteIgnores
  <2>1. asked # <<>> /\ asked' = Tail(asked) /\ wire' = wire
      BY <1>5 DEF RemoteIgnores
  <2> QED
      BY <1>1, <1>2, <1>4, <2>1 DEF Traffic
<1>6. CASE RemoteAnswers
  <2> DEFINE w == Head(asked)
             m == [cmd |-> IF w \in Requests THEN Expects[w] ELSE "reject", re |-> w]
  <2>1. asked # <<>> /\ asked' = Tail(asked) /\ wire' = Append(wire, m)
      BY <1>6 DEF RemoteAnswers
  <2>2. w = asked[1] /\ w \in Waiters /\ 1 \in DOMAIN asked
      BY <1>3, <2>1, HeadAndTail
  <2>3. m \in Message
      BY <2>2, CallTypes, RejectAssumption DEF Message
  <2>4. m.re = w /\ (m.cmd = c <=> AskedFor(1, c))
      BY <2>2 DEF AskedFor
  <2> HIDE DEF m, w
  <2>5. \A i \in DOMAIN wire' :
            \/ i = Len(wire) + 1 /\ wire'[i] = m
            \/ i \in DOMAIN wire /\ i # Len(wire) + 1 /\ wire'[i] = wire[i]
      BY <1>3, <2>1, <2>3, AppendEntries
  <2>6. CASE AskedFor(1, c)
    <3>1. \A i \in DOMAIN asked' : ~AskedFor(i, c)'
        BY <1>4, <2>1, <2>6 DEF Traffic
    <3>2. \A i \in DOMAIN wire : wire[i].cmd # c
        BY <2>2, <2>6 DEF Traffic
    <3>3. \A i \in DOMAIN wire' : wire'[i].cmd = c => i = Len(wire) + 1 /\ wire'[i].re = w
        BY <2>4, <2>5, <3>2
    <3>4. w \in Requests /\ Expects[w] = c /\ Open(w)
        BY <2>2, <2>6 DEF Traffic, AskedFor
    <3> QED
        BY <1>1, <1>2, <3>1, <3>3, <3>4 DEF Traffic
  <2>7. CASE ~AskedFor(1, c)
    <3>1. \A i \in DOMAIN wire' : wire'[i].cmd = c => i \in DOMAIN wire /\ wire'[i] = wire[i]
        BY <2>4, <2>5, <2>7
    <3> QED
        BY <1>1, <1>2, <1>4, <2>1, <3>1 DEF Traffic
  <2> QED
      BY <2>6, <2>7
<1>7. ASSUME NEW d \in Commands, RemoteVolunteers(d) PROVE Traffic(c)' /\ OwnAnswer(c)'
  <2> DEFINE m == [cmd |-> d, re |-> NoWaiter]
  <2>1. asked' = asked /\ wire' = Append(wire, m) /\ volunteered' = Append(volunteered, d)
      BY <1>7 DEF RemoteVolunteers
  <2>2. m \in Message
      BY CallTypes DEF Message
  <2>3. m.cmd = d
      OBVIOUS
  <2>4. d # c
    <3>1. Len(volunteered) + 1 \in DOMAIN volunteered' /\ volunteered'[Len(volunteered) + 1] = d
        BY <2>1 DEF TypeOK
    <3> QED
        BY <3>1 DEF Clean
  <2> HIDE DEF m
  <2>5. \A i \in DOMAIN wire' :
            \/ i = Len(wire) + 1 /\ wire'[i] = m
            \/ i \in DOMAIN wire /\ i # Len(wire) + 1 /\ wire'[i] = wire[i]
      BY <1>3, <2>1, <2>2, AppendEntries
  <2>6. \A i \in DOMAIN wire' : wire'[i].cmd = c => i \in DOMAIN wire /\ wire'[i] = wire[i]
      BY <2>3, <2>4, <2>5
  <2> QED
      BY <1>1, <1>2, <2>1, <2>6 DEF Traffic, AskedFor
<1> QED
    BY <1>5, <1>6, <1>7 DEF Remote

\* What the listener takes from the wire is gone; the rest moves to the front.
LEMMA WireMoves ==
    ASSUME TypeOK, wire # <<>>, wire' = Tail(wire)
    PROVE  /\ 1 \in DOMAIN wire /\ wire[1] = Head(wire)
           /\ \A i \in DOMAIN wire' : i \in Nat \ {0} /\ i + 1 \in DOMAIN wire /\ wire'[i] = wire[i + 1]
<1>1. /\ Len(wire) \in Nat \ {0} /\ DOMAIN wire = 1 .. Len(wire) /\ Head(wire) = wire[1]
      /\ DOMAIN wire' = 1 .. (Len(wire) - 1)
      /\ \A j \in 1 .. (Len(wire) - 1) : wire'[j] = wire[j + 1]
    BY HeadAndTail DEF TypeOK
<1> QED
    BY <1>1

\* The traffic of a command while the listener reads: it only gets less.
LEMMA TrafficShrinks ==
    ASSUME TypeOK, wire # <<>>, wire' = Tail(wire), UNCHANGED <<asked, call>>,
           NEW c \in Commands, Traffic(c),
           Head(wire).cmd # c => \A v \in Requests : Expects[v] = c => receiver'[v] = receiver[v]
    PROVE  Head(wire).cmd # c => Traffic(c)'
<1> SUFFICES ASSUME Head(wire).cmd # c PROVE Traffic(c)'
    OBVIOUS
<1>1. \A v \in Requests : Expects[v] = c /\ Open(v) => Open(v)'
    BY DEF Open
<1>2. \A i \in DOMAIN wire' : i \in Nat \ {0} /\ i + 1 \in DOMAIN wire /\ wire'[i] = wire[i + 1]
    BY WireMoves
<1>3. \A i \in DOMAIN asked' : AskedFor(i, c)' => AskedFor(i, c) /\ i \in DOMAIN asked /\ Open(asked[i])'
    BY <1>1 DEF Traffic, AskedFor, Open
<1>4. \A i \in DOMAIN wire' : wire'[i].cmd = c =>
            wire'[i].re \in Requests /\ Expects[wire'[i].re] = c /\ Open(wire[i].re)'
  <2> SUFFICES ASSUME NEW i \in DOMAIN wire', wire'[i].cmd = c
               PROVE  wire'[i].re \in Requests /\ Expects[wire'[i].re] = c /\ Open(wire[i].re)'
      OBVIOUS
  <2>1. i + 1 \in DOMAIN wire /\ wire'[i] = wire[i + 1]
      BY <1>2
  <2>2. /\ wire[i + 1].re \in Requests /\ Expects[wire[i + 1].re] = c /\ Open(wire[i + 1].re)
      BY <2>1 DEF Traffic
  <2> QED
      BY <1>1, <2>1, <2>2 DEF Open
<1>5. \A i, j \in DOMAIN wire' : wire'[i].cmd = c /\ wire'[j].cmd = c => i = j
  <2> SUFFICES ASSUME NEW i \in DOMAIN wire', NEW j \in DOMAIN wire',
                      wire'[i].cmd = c, wire'[j].cmd = c
               PROVE  i = j
      OBVIOUS
  <2>1. i + 1 = j + 1
      BY <1>2 DEF Traffic
  <2> QED
      BY <1>2, <2>1
<1>6. \A i \in DOMAIN asked', j \in DOMAIN wire' : ~(AskedFor(i, c)' /\ wire'[j].cmd = c)
    BY <1>2, <1>3 DEF Traffic
<1>7. \A i, j \in DOMAIN asked' : AskedFor(i, c)' /\ AskedFor(j, c)' => i = j
    BY <1>3 DEF Traffic
<1> QED
    BY <1>3, <1>4, <1>5, <1>6, <1>7 DEF Traffic

\* The one message of a command is read: none is left on its way.
LEMMA TrafficEnds ==
    ASSUME TypeOK, wire # <<>>, wire' = Tail(wire), UNCHANGED asked,
           NEW c \in Commands, Traffic(c), Head(wire).cmd = c
    PROVE  Traffic(c)'
<1>1. 1 \in DOMAIN wire /\ wire[1].cmd = c
    BY WireMoves
<1>2. \A i \in DOMAIN wire' : i \in Nat \ {0} /\ i + 1 \in DOMAIN wire /\ wire'[i] = wire[i + 1]
    BY WireMoves
<1>3. \A i \in DOMAIN wire' : wire'[i].cmd # c
  <2> SUFFICES ASSUME NEW i \in DOMAIN wire', wire'[i].cmd = c PROVE FALSE
      OBVIOUS
  <2>1. i + 1 = 1
      BY <1>1, <1>2 DEF Traffic
  <2> QED
      BY <1>2, <2>1
<1>4. \A i \in DOMAIN asked' : ~AskedFor(i, c)'
    BY <1>1 DEF Traffic, AskedFor
<1> QED
    BY <1>3, <1>4 DEF Traffic

\* A dispatched message ends the waiting of a request for its command only.
LEMMA DispatchReaches ==
    ASSUME DispatcherTypeOK, QueuesFit, NEW d \in Commands, NEW p \in Replies, Dispatched(d, p),
           NEW v \in Requests
    PROVE  \/ receiver'[v] = receiver[v] /\ inbox'[v] = inbox[v]
           \/ Expects[v] = d /\ Waiting(v) /\ receiver'[v] = "got" /\ inbox'[v] = <<p>>
<1>0. v \in Waiters /\ Requests \subseteq Waiters
    BY CallTypes
<1>1. CASE DispatchToHandler(d, p)
  <2>1. PICK i \in DOMAIN pending[d] :
          /\ Waiting(pending[d][i])
          /\ receiver' = [receiver EXCEPT ![pending[d][i]] = "got"]
          /\ inbox' = [inbox EXCEPT ![pending[d][i]] = <<p>>]
      BY <1>1 DEF DispatchToHandler
  <2>2. pending[d][i] \in Requests /\ Expects[pending[d][i]] = d
      BY DEF QueuesFit
  <2> QED
      BY <1>0, <2>1, <2>2 DEF DispatcherTypeOK
<1>2. CASE DispatchReject(d, p)
  <2>1. PICK t \in Txids :
          /\ broadcastHandlers[t] # NoWaiter
          /\ receiver' = [receiver EXCEPT ![broadcastHandlers[t]] = IF @ = "waiting" THEN "got" ELSE @]
          /\ inbox' = [inbox EXCEPT ![broadcastHandlers[t]] =
                            IF receiver[broadcastHandlers[t]] = "waiting" THEN <<p>> ELSE @]
      BY <1>2 DEF DispatchReject
  <2>2. broadcastHandlers[t] # v
      BY <2>1 DEF QueuesFit, Broadcasts
  <2> QED
      BY <1>0, <2>1, <2>2 DEF DispatcherTypeOK
<1> QED
    BY <1>1, <1>2 DEF Dispatched, DispatchToBatch, QueuesFit

LEMMA ListenerServes ==
    ASSUME TypeOK, AnswersInv, StartListener \/ Listener,
           NEW c \in Commands \ {"reject"}, Traffic(c), OwnAnswer(c)
    PROVE  Traffic(c)' /\ OwnAnswer(c)'
<1> USE DEF AnswersInv
<1>0. Requests \subseteq Waiters
    BY CallTypes
<1>1. UNCHANGED <<call, asked>>
    BY OtherEffect DEF StartListener, Listener, ListenerBegins, ReadDispatched,
       ReadUndispatched, ListenerTakesWriter, ListenerGivesUp, ListenerWrites,
       ListenerCancelled, ListenerReadFails, ListenerExits, ListenerOnly
<1>2. CASE ReadDispatched
  <2> DEFINE d == Head(wire).cmd
             p == Head(wire).re
  <2>1. wire # <<>> /\ wire' = Tail(wire) /\ Dispatched(d, p) /\ d \in Commands /\ p \in Replies
      BY <1>2, HeadOfWire DEF ReadDispatched
  <2>2. \A v \in Requests :
          \/ receiver'[v] = receiver[v] /\ inbox'[v] = inbox[v]
          \/ Expects[v] = d /\ Waiting(v) /\ receiver'[v] = "got" /\ inbox'[v] = <<p>>
      BY <2>1, DispatchReaches DEF TypeOK
  <2>3. CASE d # c
    <3>1. \A v \in Requests : Expects[v] = c => receiver'[v] = receiver[v] /\ inbox'[v] = inbox[v]
        BY <2>2, <2>3
    <3>2. Traffic(c)'
        BY <1>1, <2>1, <2>3, <3>1, TrafficShrinks
    <3>3. OwnAnswer(c)'
        BY <1>1, <3>1 DEF OwnAnswer
    <3> QED
        BY <3>2, <3>3
  <2>4. CASE d = c
    <3>1. Traffic(c)'
        BY <1>1, <2>1, <2>4, TrafficEnds
    <3>2. p \in Requests /\ Open(p)
        BY <2>1, <2>4, WireMoves DEF Traffic
    <3>3. \A v \in Requests : Waiting(v) => v = p
        BY <1>0, <3>2 DEF WaitsInCall, OneCall, InProgress, Open
    <3> HIDE DEF p, d
    <3>4. OwnAnswer(c)'
      <4> SUFFICES ASSUME NEW v \in Requests, Expects[v] = c
                   PROVE  /\ call'[v] \in {"registered", "sending"} =>
                                receiver'[v] \in {"waiting", "recvError"}
                          /\ receiver'[v] = "got" => inbox'[v] = <<v>>
          BY DEF OwnAnswer
      <4>1. CASE receiver'[v] = receiver[v] /\ inbox'[v] = inbox[v]
          BY <1>1, <4>1 DEF OwnAnswer
      <4>2. CASE Waiting(v) /\ inbox'[v] = <<p>>
          BY <1>1, <3>2, <3>3, <4>2 DEF Open
      <4> QED
          BY <2>2, <4>1, <4>2
    <3> QED
        BY <3>1, <3>4
  <2> QED
      BY <2>3, <2>4
<1>3. CASE ReadUndispatched
  <2>1. wire # <<>> /\ wire' = Tail(wire) /\ UNCHANGED <<receiver, inbox>>
      BY <1>3 DEF ReadUndispatched, NotDispatched
  <2>2. OwnAnswer(c)'
      BY <1>1, <2>1 DEF OwnAnswer
  <2> QED
      BY <1>1, <2>1, <2>2, TrafficShrinks, TrafficEnds
<1>4. CASE ~(ReadDispatched \/ ReadUndispatched)
  <2>1. wire' = wire
      BY <1>4 DEF StartListener, Listener, ListenerBegins, ListenerTakesWriter, ListenerGivesUp,
          ListenerWrites, ListenerCancelled, ListenerReadFails, ListenerExits
  <2>2. \A v \in Requests :
          \/ receiver'[v] = receiver[v] /\ inbox'[v] = inbox[v]
          \/ Waiting(v) /\ receiver'[v] = "recvError" /\ inbox'[v] = inbox[v]
      BY <1>0, <1>4, ListenerMoves
  <2>3. \A v \in Requests : Open(v) => Open(v)'
      BY <1>1, <2>2 DEF Open
  <2>4. OwnAnswer(c)'
      BY <1>1, <2>2 DEF OwnAnswer, Waiting
  <2> QED
      BY <1>1, <2>1, <2>3, <2>4, TrafficStays
<1> QED
    BY <1>2, <1>3, <1>4

LEMMA NextServed ==
    ASSUME TypeOK, AnswersInv, [Next]_vars
    PROVE  Served'
<1> SUFFICES ASSUME NEW c \in Commands \ {"reject"}, Clean(c)'
             PROVE  Traffic(c)' /\ OwnAnswer(c)'
    BY DEF Served
<1>1. Traffic(c) /\ OwnAnswer(c)
    BY CleanBefore DEF AnswersInv, Served
<1>2. ASSUME NEW w \in Waiters, CallStep(w) PROVE Traffic(c)' /\ OwnAnswer(c)'
    BY <1>1, <1>2, CallServes
<1>3. CASE StartListener \/ Listener
    BY <1>1, <1>3, ListenerServes
<1>4. CASE Remote
    BY <1>1, <1>4, RemoteServes
<1>5. CASE BeginDisconnect \/ EndDisconnect \/ DropPeer \/ UNCHANGED vars
  <2>1. UNCHANGED <<asked, wire, receiver, inbox, call>>
      BY <1>5, QuietEffect, OtherEffect
      DEF BeginDisconnect, EndDisconnect, DropPeer, vars, linkVars, dispatcherVars
  <2> QED
      BY <1>1, <2>1, TrafficStays DEF OwnAnswer, Open
<1> QED
    BY <1>2, <1>3, <1>4, <1>5 DEF Next

\* A request is answered with the answer the remote gave to it, for any number of calls
\* and commands and whatever else the remote sends, unless an earlier request for the
\* same command was given up or the remote sent that command unasked (dispatch() pairs
\* by command and order only). At most one question or answer of a command is on its
\* way, and it belongs to the request that is open.
THEOREM AnswersBelongToRequests == Spec => []OwnReplyUnlessSpoiled
<1>1. TypeOK /\ AnswersInv /\ [Next]_vars => AnswersInv'
    BY NextReturned, NextOneCall, NextQueuesFit, NextWaitsInCall, NextReplied, NextServed
    DEF AnswersInv
<1>2. QED
    BY InitAnswers, <1>1, TypeCorrect, AnswersAreOwn, PTL DEF Spec
=============================================================================
