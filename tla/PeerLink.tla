------------------------------ MODULE PeerLink ------------------------------
(***************************************************************************)
(* One peer connection after its handshake: the shared writer, the block   *)
(* listener task that owns the reading half, the dispatcher between them   *)
(* and the calls that use the connection                                   *)
(* (crates/zipherx-network/src/peer.rs, peer_manager.rs).                  *)
(*                                                                         *)
(* The wallet holds the peer manager's mutex for a whole sync or send, so  *)
(* calls run one after the other; every await of a call is a point where   *)
(* the listener and the remote node may move. A call is either a request   *)
(* (send_and_wait: one answer of a known command) or the broadcast of a    *)
(* transaction (answered by a reject or by silence).                       *)
(***************************************************************************)
EXTENDS Dispatcher

CONSTANTS
    Requests,          \* calls of send_and_wait
    Expects,           \* the command a request waits for
    TxidOf,            \* the transaction a broadcast carries
    Answered,          \* background commands the listener writes back for
    MaxUnsolicited,    \* MAX_MESSAGES_PER_MINUTE
    MaxVolunteered     \* bound: messages the remote sends unasked

ASSUME CallsAssumption ==
    /\ Requests \subseteq Waiters
    /\ Expects \in [Requests -> Commands \ {"reject"}]
    /\ TxidOf \in [Waiters \ Requests -> Txids]
    /\ Answered \subseteq Commands
ASSUME BoundsAssumption == MaxUnsolicited \in Nat /\ MaxVolunteered \in Nat
\* A message is identified by the call it answers, NoWaiter if unsolicited.
ASSUME RepliesAssumption == Replies = Waiters \cup {NoWaiter}
ASSUME WriterAssumption ==
    Waiters \cap {"slot", "closed", "lost", "listener"} = {}

Broadcasts == Waiters \ Requests

VARIABLES
    listener,      \* where the block listener task is
    cancelled,     \* its cancellation token
    unsolicited,   \* rl_count, undispatched messages in the current minute
    writer,        \* "slot" when the mutex holds it, else who took it out
    state,         \* Peer::state
    call,          \* where each call is
    outcome,       \* what each call returned
    asked,         \* what reached the remote and is not yet answered
    wire,          \* what the remote sent and the listener has not read
    volunteered    \* commands the remote sent unasked so far

linkVars == <<listener, cancelled, unsolicited, writer, state, call, outcome,
              asked, wire, volunteered>>
vars == <<dispatcherVars, linkVars>>

CallStates == {"idle", "registered", "sending", "sent", "done"}
Outcomes == {"none", "reply", "disconnected", "timeout", "notConnected",
             "writeFailed", "aborted", "inactive", "rejected", "inconclusive",
             "accepted"}
Message == [cmd : Commands, re : Replies]

TypeOK ==
    /\ DispatcherTypeOK
    /\ listener \in {"off", "spawned", "reading", "replying", "writing",
                     "exiting", "exited"}
    /\ cancelled \in BOOLEAN
    /\ unsolicited \in 0 .. (MaxUnsolicited + 1)
    /\ unsolicited > MaxUnsolicited => listener \in {"exiting", "exited"}
    /\ writer \in {"slot", "closed", "lost", "listener"} \cup Waiters
    /\ state \in {"Connected", "Disconnecting", "Disconnected", "Dropped"}
    /\ call \in [Waiters -> CallStates]
    /\ outcome \in [Waiters -> Outcomes]
    /\ asked \in Seq(Waiters)
    /\ wire \in Seq(Message)
    /\ volunteered \in Seq(Commands)

Init ==
    /\ DispatcherInit
    /\ listener = "off" /\ cancelled = FALSE /\ unsolicited = 0
    /\ writer = "slot" /\ state = "Connected"
    /\ call = [w \in Waiters |-> "idle"]
    /\ outcome = [w \in Waiters |-> "none"]
    /\ asked = <<>> /\ wire = <<>> /\ volunteered = <<>>

-----------------------------------------------------------------------------
(* The block listener task.                                                 *)

ListenerOnly == UNCHANGED <<state, call, outcome, asked, volunteered>>

\* start_block_listener takes the reader, which nobody ever puts back: a
\* connection has one listener in its life.
StartListener ==
    /\ listener = "off" /\ state = "Connected"
    /\ listener' = "spawned"
    /\ UNCHANGED <<dispatcherVars, cancelled, unsolicited, writer, wire>>
    /\ ListenerOnly

ListenerBegins ==
    /\ listener = "spawned"
    /\ listener' = "reading"
    /\ Activate
    /\ UNCHANGED <<cancelled, unsolicited, writer, wire>>
    /\ ListenerOnly

ReadDispatched ==
    /\ listener = "reading" /\ wire # <<>>
    /\ Dispatched(Head(wire).cmd, Head(wire).re)
    /\ wire' = Tail(wire)
    /\ UNCHANGED <<listener, cancelled, unsolicited, writer>>
    /\ ListenerOnly

\* What the connection notices of handle_background_message: other commands are
\* logged or call back into the wallet.
WritesBack(c) == c \in Answered

\* Variant: the rate is counted and never enforced.
ReadUnlimited ==
    /\ listener = "reading" /\ wire # <<>>
    /\ NotDispatched(Head(wire).cmd)
    /\ wire' = Tail(wire)
    /\ \E n \in {unsolicited + 1, 1} : unsolicited' = n
    /\ listener' = IF WritesBack(Head(wire).cmd) THEN "replying" ELSE "reading"
    /\ UNCHANGED <<cancelled, writer>>
    /\ ListenerOnly

\* A message nobody waits for counts against the rate limit, whose window
\* may have been reset just before; over the limit the loop ends.
ReadUndispatched ==
    /\ listener = "reading" /\ wire # <<>>
    /\ NotDispatched(Head(wire).cmd)
    /\ wire' = Tail(wire)
    /\ \E n \in {unsolicited + 1, 1} :
        /\ unsolicited' = n
        /\ listener' = IF n > MaxUnsolicited THEN "exiting"
                       ELSE IF WritesBack(Head(wire).cmd) THEN "replying"
                       ELSE "reading"
    /\ UNCHANGED <<cancelled, writer>>
    /\ ListenerOnly

\* send_frame takes the writer out of the mutex for the write. If it is not
\* there the answer is dropped (pong), after some retries for getdata.
ListenerTakesWriter ==
    /\ listener = "replying" /\ writer = "slot"
    /\ writer' = "listener" /\ listener' = "writing"
    /\ UNCHANGED <<dispatcherVars, cancelled, unsolicited, wire>>
    /\ ListenerOnly

ListenerGivesUp ==
    /\ listener = "replying" /\ writer # "slot"
    /\ listener' = "reading"
    /\ UNCHANGED <<dispatcherVars, cancelled, unsolicited, writer, wire>>
    /\ ListenerOnly

\* The writer goes back whatever happened to the slot meanwhile.
ListenerWrites ==
    /\ listener = "writing"
    /\ writer' = "slot" /\ listener' = "reading"
    /\ UNCHANGED <<dispatcherVars, cancelled, unsolicited, wire>>
    /\ ListenerOnly

ListenerCancelled ==
    /\ listener = "reading" /\ cancelled
    /\ listener' = "exiting"
    /\ UNCHANGED <<dispatcherVars, cancelled, unsolicited, writer, wire>>
    /\ ListenerOnly

\* End of stream, a malformed frame, ten minutes of silence.
ListenerReadFails ==
    /\ listener = "reading"
    /\ listener' = "exiting"
    /\ UNCHANGED <<dispatcherVars, cancelled, unsolicited, writer, wire>>
    /\ ListenerOnly

\* Variant: the exiting listener deactivates and cancels nothing.
ListenerExitsQuietly ==
    /\ listener = "exiting"
    /\ listener' = "exited"
    /\ active' = FALSE
    /\ UNCHANGED <<pending, collectors, broadcastHandlers, receiver, inbox>>
    /\ UNCHANGED <<cancelled, unsolicited, writer, wire>>
    /\ ListenerOnly

\* set_active(false) and cancel_all under one lock.
ListenerExits ==
    /\ listener = "exiting"
    /\ listener' = "exited"
    /\ Deactivate
    /\ UNCHANGED <<cancelled, unsolicited, writer, wire>>
    /\ ListenerOnly

-----------------------------------------------------------------------------
(* Calls.                                                                   *)

CallOnly == UNCHANGED <<listener, cancelled, unsolicited, state, wire, volunteered>>

CallInProgress == \E w \in Waiters : call[w] \in {"registered", "sending", "sent"}

\* get_ready_peers: is_connected, which says nothing about the listener.
Ready == state = "Connected" /\ writer = "slot"

MayBegin(w) == call[w] = "idle" /\ ~CallInProgress /\ Ready

Return(w, result) ==
    /\ call' = [call EXCEPT ![w] = "done"]
    /\ outcome' = [outcome EXCEPT ![w] = result]

\* Variant: registers without looking at is_active.
BeginRequestBlindly(w) ==
    /\ w \in Requests /\ MayBegin(w)
    /\ RegisterHandler(w, Expects[w])
    /\ call' = [call EXCEPT ![w] = "registered"]
    /\ UNCHANGED <<outcome, writer, asked>>
    /\ CallOnly

BeginRequest(w) ==
    /\ w \in Requests /\ MayBegin(w)
    /\ active
    /\ RegisterHandler(w, Expects[w])
    /\ call' = [call EXCEPT ![w] = "registered"]
    /\ UNCHANGED <<outcome, writer, asked>>
    /\ CallOnly

RefuseRequest(w) ==
    /\ w \in Requests /\ MayBegin(w)
    /\ ~active
    /\ Return(w, "inactive")
    /\ UNCHANGED <<dispatcherVars, writer, asked>>
    /\ CallOnly

\* broadcast_transaction registers on every ready peer, active or not.
BeginBroadcast(w) ==
    /\ w \in Broadcasts /\ MayBegin(w)
    /\ RegisterBroadcast(w, TxidOf[w])
    /\ call' = [call EXCEPT ![w] = "registered"]
    /\ UNCHANGED <<outcome, writer, asked>>
    /\ CallOnly

TakeWriter(w) ==
    /\ call[w] = "registered" /\ writer = "slot"
    /\ writer' = w
    /\ call' = [call EXCEPT ![w] = "sending"]
    /\ UNCHANGED <<dispatcherVars, outcome, asked>>
    /\ CallOnly

FindNoWriter(w) ==
    /\ call[w] = "registered" /\ writer # "slot"
    /\ DropReceiver(w)
    /\ Return(w, "notConnected")
    /\ UNCHANGED <<writer, asked>>
    /\ CallOnly

\* Variant: a retry writes the frame a second time.
WriteTwice(w) ==
    /\ call[w] = "sending"
    /\ writer' = "slot"
    /\ asked' = asked \o <<w, w>>
    /\ call' = [call EXCEPT ![w] = "sent"]
    /\ UNCHANGED <<dispatcherVars, outcome>>
    /\ CallOnly

WriteSucceeds(w) ==
    /\ call[w] = "sending"
    /\ writer' = "slot"
    /\ asked' = Append(asked, w)
    /\ call' = [call EXCEPT ![w] = "sent"]
    /\ UNCHANGED <<dispatcherVars, outcome>>
    /\ CallOnly

\* Variant: the error path returns before it puts the writer back.
WriteFailsKeepingWriter(w) ==
    /\ call[w] = "sending"
    /\ DropReceiver(w)
    /\ Return(w, "writeFailed")
    /\ UNCHANGED <<writer, asked>>
    /\ CallOnly

WriteFails(w) ==
    /\ call[w] = "sending"
    /\ writer' = "slot"
    /\ DropReceiver(w)
    /\ Return(w, "writeFailed")
    /\ UNCHANGED asked
    /\ CallOnly

\* stop_background_sync aborts the task of the call at an await: the future
\* is dropped with all it owns, the writer included.
Abort(w) ==
    /\ call[w] \in {"sending", "sent"}
    /\ writer' = IF writer = w THEN "lost" ELSE writer
    /\ DropReceiver(w)
    /\ Return(w, "aborted")
    /\ UNCHANGED asked
    /\ CallOnly

ReceiveAnswer(w) ==
    /\ call[w] = "sent" /\ receiver[w] = "got"
    /\ Return(w, IF w \in Requests THEN "reply" ELSE "rejected")
    /\ UNCHANGED <<dispatcherVars, writer, asked>>
    /\ CallOnly

ReceiveError(w) ==
    /\ call[w] = "sent" /\ receiver[w] = "recvError"
    /\ Return(w, IF w \in Requests THEN "disconnected" ELSE "inconclusive")
    /\ UNCHANGED <<dispatcherVars, writer, asked>>
    /\ CallOnly

\* Silence is an error for a request and acceptance for a broadcast.
TimesOut(w) ==
    /\ call[w] = "sent" /\ Waiting(w)
    /\ DropReceiver(w)
    /\ Return(w, IF w \in Requests THEN "timeout" ELSE "accepted")
    /\ UNCHANGED <<writer, asked>>
    /\ CallOnly

\* disconnect() needs the peer for itself. It cancels the listener, waits
\* at most three seconds for it and closes what it finds in the slot.
BeginDisconnect ==
    /\ state = "Connected" /\ ~CallInProgress
    /\ state' = "Disconnecting"
    /\ cancelled' = (listener # "off")
    /\ UNCHANGED <<dispatcherVars, listener, unsolicited, writer, call, outcome,
                   asked, wire, volunteered>>

EndDisconnect ==
    /\ state = "Disconnecting"
    /\ state' = "Disconnected"
    /\ writer' = "closed"
    /\ UNCHANGED <<dispatcherVars, listener, cancelled, unsolicited, call,
                   outcome, asked, wire, volunteered>>

\* peers.remove() of a banned or evicted peer drops the Peer. The listener
\* task has its own references to both halves, its JoinHandle detaches and
\* its token is not cancelled.
DropPeer ==
    /\ state = "Connected" /\ ~CallInProgress
    /\ state' = "Dropped"
    /\ UNCHANGED <<dispatcherVars, listener, cancelled, unsolicited, writer,
                   call, outcome, asked, wire, volunteered>>

-----------------------------------------------------------------------------
(* The remote node answers in the order of arrival, or not at all.          *)

RemoteOnly == UNCHANGED <<dispatcherVars, listener, cancelled, unsolicited,
                          writer, state, call, outcome>>

RemoteAnswers ==
    /\ asked # <<>>
    /\ LET w == Head(asked)
       IN  wire' = Append(wire,
             [cmd |-> IF w \in Requests THEN Expects[w] ELSE "reject", re |-> w])
    /\ asked' = Tail(asked)
    /\ UNCHANGED volunteered
    /\ RemoteOnly

RemoteIgnores ==
    /\ asked # <<>>
    /\ asked' = Tail(asked)
    /\ UNCHANGED <<wire, volunteered>>
    /\ RemoteOnly

RemoteVolunteers(c) ==
    /\ Len(volunteered) < MaxVolunteered
    /\ volunteered' = Append(volunteered, c)
    /\ wire' = Append(wire, [cmd |-> c, re |-> NoWaiter])
    /\ UNCHANGED asked
    /\ RemoteOnly

-----------------------------------------------------------------------------
Listener ==
    \/ ListenerBegins \/ ReadDispatched \/ ReadUndispatched
    \/ ListenerTakesWriter \/ ListenerGivesUp \/ ListenerWrites
    \/ ListenerCancelled \/ ListenerReadFails \/ ListenerExits

CallStep(w) ==
    \/ BeginRequest(w) \/ RefuseRequest(w) \/ BeginBroadcast(w)
    \/ TakeWriter(w) \/ FindNoWriter(w) \/ WriteSucceeds(w) \/ WriteFails(w)
    \/ Abort(w) \/ ReceiveAnswer(w) \/ ReceiveError(w) \/ TimesOut(w)

Remote ==
    \/ RemoteAnswers \/ RemoteIgnores
    \/ \E c \in Commands : RemoteVolunteers(c)

Next ==
    \/ StartListener \/ Listener
    \/ \E w \in Waiters : CallStep(w)
    \/ BeginDisconnect \/ EndDisconnect \/ DropPeer
    \/ Remote

Spec == Init /\ [][Next]_vars

\* The listener is a task of the runtime. A write has no timeout, so the one it
\* has started need not end: a remote may stop reading. Nothing is assumed of the
\* remote, of the calls or of disconnect.
Fairness ==
    /\ WF_vars(ListenerBegins) /\ WF_vars(ReadDispatched)
    /\ WF_vars(ReadUndispatched) /\ WF_vars(ListenerTakesWriter)
    /\ WF_vars(ListenerGivesUp) /\ WF_vars(ListenerCancelled)
    /\ WF_vars(ListenerExits)

FairSpec == Spec /\ Fairness

-----------------------------------------------------------------------------
(* Properties.                                                              *)

\* A request that waits can still be answered or failed by the listener: its
\* sender is in the queue of its command and the listener has not exited.
\* Holds because send_and_wait tests is_active and registers under one lock,
\* and the exiting listener deactivates and cancels under one lock.
NoStrandedRequest ==
    \A w \in Requests : Waiting(w) =>
        /\ active
        /\ \E i \in DOMAIN pending[Expects[w]] : pending[Expects[w]][i] = w

Unanswered(w) == outcome[w] \in {"timeout", "aborted", "disconnected"}

\* A request gets the answer the remote gave to it, unless the connection
\* was spoiled for its command: an earlier request was given up with its
\* answer still to come, or the remote sent that command unasked. Rests on
\* registering before sending and on the first-in first-out queues.
OwnReplyUnlessSpoiled ==
    \A w \in Requests : outcome[w] = "reply" =>
        \/ inbox[w] = <<w>>
        \/ \E v \in Requests \ {w} :
              Unanswered(v) /\ Expects[v] = Expects[w]
        \/ \E i \in DOMAIN volunteered : volunteered[i] = Expects[w]

\* While the peer is Connected, and unless the runtime aborted a call in the
\* middle of its write, the writer is in its slot or with somebody who is
\* writing: no error path of a sender loses it.
WriterNeverLeaks ==
    state = "Connected" /\ (\A w \in Waiters : outcome[w] # "aborted") =>
        \/ writer = "slot"
        \/ writer = "listener" /\ listener = "writing"
        \/ \E w \in Waiters : writer = w /\ call[w] = "sending"

Silent == ~active /\ \A c \in Commands : pending[c] = <<>>

\* A cancelled listener ends, and with it the registrations of the dispatcher,
\* whatever the remote still sends and whoever has the writer; unless it stays for
\* ever in an answer of its own that the remote does not read, which neither the
\* cancellation nor the three seconds of stop_block_listener interrupt.
StopSilencesListener == cancelled ~> (Silent \/ [](listener = "writing"))
=============================================================================
