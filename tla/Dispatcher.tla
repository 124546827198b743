----------------------------- MODULE Dispatcher -----------------------------
(***************************************************************************)
(* The message dispatcher of one peer connection                           *)
(* (crates/zipherx-network/src/dispatcher.rs).                             *)
(*                                                                         *)
(* The block listener is the only reader of the connection. A task that    *)
(* wants an answer registers the sending half of a oneshot channel and     *)
(* waits on the receiving half; the listener hands every message it reads  *)
(* to dispatch(). All operations run under one mutex, so each is one       *)
(* action. A oneshot channel is one element of Waiters: pending, batch and *)
(* broadcast tables hold its sender, receiver[w] is the state of its       *)
(* receiver. Dropping a receiver leaves its sender in the tables, which is *)
(* what makes the stale entries of the code possible.                      *)
(***************************************************************************)
EXTENDS Naturals, Sequences

CONSTANTS
    Waiters,      \* oneshot channels, one for every registration of a run
    Commands,     \* P2P command names
    Txids,        \* keys of the broadcast handlers
    Replies,      \* message payloads
    NoWaiter,     \* "no handler under this key"
    MaxBatch      \* bound: expected_count of a batch

ASSUME RejectAssumption == "reject" \in Commands
ASSUME MaxBatchAssumption == MaxBatch \in Nat
ASSUME NoWaiterAssumption == NoWaiter \notin Waiters

VARIABLES
    active,             \* Dispatcher::active: the listener is running
    pending,            \* Dispatcher::pending: FIFO of senders per command
    collectors,         \* batch_collectors in command_to_batch order
    broadcastHandlers,  \* Dispatcher::broadcast_handlers, keyed by txid
    receiver,           \* state of the receiving half of every channel
    inbox               \* what the channel delivered

dispatcherVars ==
    <<active, pending, collectors, broadcastHandlers, receiver, inbox>>

ReceiverStates == {"unused", "waiting", "got", "recvError", "dropped"}

Collector == [owner : Waiters, expected : Nat, collected : Seq(Replies)]

DispatcherTypeOK ==
    /\ active \in BOOLEAN
    /\ pending \in [Commands -> Seq(Waiters)]
    /\ collectors \in [Commands -> Seq(Collector)]
    /\ broadcastHandlers \in [Txids -> Waiters \cup {NoWaiter}]
    /\ receiver \in [Waiters -> ReceiverStates]
    /\ inbox \in [Waiters -> Seq(Replies)]

DispatcherInit ==
    /\ active = FALSE
    /\ pending = [c \in Commands |-> <<>>]
    /\ collectors = [c \in Commands |-> <<>>]
    /\ broadcastHandlers = [t \in Txids |-> NoWaiter]
    /\ receiver = [w \in Waiters |-> "unused"]
    /\ inbox = [w \in Waiters |-> <<>>]

-----------------------------------------------------------------------------
Waiting(w) == receiver[w] = "waiting"

RegisterHandler(w, c) ==
    /\ receiver[w] = "unused"
    /\ receiver' = [receiver EXCEPT ![w] = "waiting"]
    /\ pending' = [pending EXCEPT ![c] = Append(@, w)]
    /\ UNCHANGED <<active, collectors, broadcastHandlers, inbox>>

RegisterBatch(w, c, n) ==
    /\ receiver[w] = "unused"
    /\ receiver' = [receiver EXCEPT ![w] = "waiting"]
    /\ collectors' = [collectors EXCEPT ![c] =
            Append(@, [owner |-> w, expected |-> n, collected |-> <<>>])]
    /\ UNCHANGED <<active, pending, broadcastHandlers, inbox>>

\* Variant: the receiver of the replaced sender is not failed.
RegisterBroadcastForgetting(w, t) ==
    /\ receiver[w] = "unused"
    /\ receiver' = [receiver EXCEPT ![w] = "waiting"]
    /\ broadcastHandlers' = [broadcastHandlers EXCEPT ![t] = w]
    /\ UNCHANGED <<active, pending, collectors, inbox>>

\* HashMap::insert drops the sender that was under the key, so the receiver
\* of an earlier registration of the same txid gets RecvError.
RegisterBroadcast(w, t) ==
    LET replaced == broadcastHandlers[t]
    IN  /\ receiver[w] = "unused"
        /\ receiver' = [v \in Waiters |->
                CASE v = w -> "waiting"
                  [] v = replaced /\ Waiting(v) -> "recvError"
                  [] OTHER -> receiver[v]]
        /\ broadcastHandlers' = [broadcastHandlers EXCEPT ![t] = w]
        /\ UNCHANGED <<active, pending, collectors, inbox>>

\* The receiving half goes away: a timeout, an early return, a lost race.
DropReceiver(w) ==
    /\ receiver' = [receiver EXCEPT ![w] = IF @ = "waiting" THEN "dropped" ELSE @]
    /\ UNCHANGED <<active, pending, collectors, broadcastHandlers, inbox>>

-----------------------------------------------------------------------------
(* dispatch(): batch collectors, then the single handlers, then, for a      *)
(* "reject", any broadcast handler.                                         *)

\* The first collector of the command takes the message, whether or not
\* anybody still waits for the batch.
DispatchToBatch(c, p) ==
    /\ collectors[c] # <<>>
    /\ LET first == Head(collectors[c])
           filled == [first EXCEPT !.collected = Append(@, p)]
           complete == Len(filled.collected) >= filled.expected
           answered == complete /\ Waiting(first.owner)
       IN  /\ collectors' = [collectors EXCEPT ![c] =
                    IF complete THEN Tail(@) ELSE <<filled>> \o Tail(@)]
           /\ receiver' = [receiver EXCEPT ![first.owner] =
                    IF answered THEN "got" ELSE @]
           /\ inbox' = [inbox EXCEPT ![first.owner] =
                    IF answered THEN filled.collected ELSE @]
    /\ UNCHANGED <<active, pending, broadcastHandlers>>

SomebodyWaitsFor(c) == \E i \in DOMAIN pending[c] : Waiting(pending[c][i])

\* Senders whose receiver is gone are popped and forgotten on the way.
DispatchToHandler(c, p) ==
    /\ collectors[c] = <<>>
    /\ \E i \in DOMAIN pending[c] :
        /\ Waiting(pending[c][i])
        /\ \A j \in 1 .. (i - 1) : ~Waiting(pending[c][j])
        /\ pending' = [pending EXCEPT ![c] = SubSeq(@, i + 1, Len(@))]
        /\ receiver' = [receiver EXCEPT ![pending[c][i]] = "got"]
        /\ inbox' = [inbox EXCEPT ![pending[c][i]] = <<p>>]
    /\ UNCHANGED <<active, collectors, broadcastHandlers>>

\* The first key of a HashMap iteration is any key. The handler is removed
\* and the message counts as consumed even when its receiver is gone.
DispatchReject(c, p) ==
    /\ c = "reject"
    /\ collectors[c] = <<>>
    /\ ~SomebodyWaitsFor(c)
    /\ \E t \in Txids :
        LET w == broadcastHandlers[t]
        IN  /\ w # NoWaiter
            /\ broadcastHandlers' = [broadcastHandlers EXCEPT ![t] = NoWaiter]
            /\ receiver' = [receiver EXCEPT ![w] =
                    IF @ = "waiting" THEN "got" ELSE @]
            /\ inbox' = [inbox EXCEPT ![w] =
                    IF receiver[w] = "waiting" THEN <<p>> ELSE @]
    /\ pending' = [pending EXCEPT ![c] = <<>>]
    /\ UNCHANGED <<active, collectors>>

Dispatched(c, p) ==
    \/ DispatchToBatch(c, p)
    \/ DispatchToHandler(c, p)
    \/ DispatchReject(c, p)

\* dispatch() returns false; the stale senders it popped are gone.
NotDispatched(c) ==
    /\ collectors[c] = <<>>
    /\ ~SomebodyWaitsFor(c)
    /\ c = "reject" => \A t \in Txids : broadcastHandlers[t] = NoWaiter
    /\ pending' = [pending EXCEPT ![c] = <<>>]
    /\ UNCHANGED <<active, collectors, broadcastHandlers, receiver, inbox>>

-----------------------------------------------------------------------------
Activate ==
    /\ active' = TRUE
    /\ UNCHANGED <<pending, collectors, broadcastHandlers, receiver, inbox>>

\* Collectors are answered with what they have; every other sender is
\* dropped. The listener does both under one lock (peer.rs).
Partial(w) ==
    LET c == CHOOSE c \in Commands :
                \E i \in DOMAIN collectors[c] : collectors[c][i].owner = w
        i == CHOOSE i \in DOMAIN collectors[c] : collectors[c][i].owner = w
    IN  collectors[c][i].collected

CancelAll ==
    LET batched(w) == \E c \in Commands : \E i \in DOMAIN collectors[c] :
                        collectors[c][i].owner = w
    IN  /\ receiver' = [w \in Waiters |->
                CASE ~Waiting(w) -> receiver[w]
                  [] Waiting(w) /\ batched(w) -> "got"
                  [] OTHER -> "recvError"]
        /\ inbox' = [w \in Waiters |->
                IF Waiting(w) /\ batched(w) THEN Partial(w) ELSE inbox[w]]
        /\ pending' = [c \in Commands |-> <<>>]
        /\ collectors' = [c \in Commands |-> <<>>]
        /\ broadcastHandlers' = [t \in Txids |-> NoWaiter]

Deactivate ==
    /\ active' = FALSE
    /\ CancelAll

-----------------------------------------------------------------------------
(* The dispatcher alone, under any sequence of calls on it. Of the owner of *)
(* the connection it is only assumed that it cancels when it deactivates.   *)

DispatcherNext ==
    \/ \E w \in Waiters :
        \/ \E c \in Commands : RegisterHandler(w, c)
        \/ \E c \in Commands, n \in 0 .. MaxBatch : RegisterBatch(w, c, n)
        \/ \E t \in Txids : RegisterBroadcast(w, t)
        \/ DropReceiver(w)
    \/ \E c \in Commands :
        \/ \E p \in Replies : Dispatched(c, p)
        \/ NotDispatched(c)
    \/ Activate
    \/ Deactivate

DispatcherSpec == DispatcherInit /\ [][DispatcherNext]_dispatcherVars

Slots(w) ==
    (UNION {{<<"single", c, i>> : i \in {j \in DOMAIN pending[c] :
                pending[c][j] = w}} : c \in Commands})
    \cup (UNION {{<<"batch", c, i>> : i \in {j \in DOMAIN collectors[c] :
                collectors[c][j].owner = w}} : c \in Commands})
    \cup {<<"broadcast", t, 0>> : t \in {u \in Txids : broadcastHandlers[u] = w}}

\* A receiver that still waits has its one sender in the tables, in one
\* place: it can be answered, and cancel_all will reach it. Nothing that
\* drops a sender (a replaced broadcast handler, a completed batch, a
\* cancelled queue) leaves its receiver waiting for ever.
SenderInOneSlot ==
    \A w \in Waiters : Waiting(w) => \E s \in Slots(w) : Slots(w) = {s}
=============================================================================
