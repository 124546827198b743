----------------------------- MODULE Broadcast -----------------------------
(***************************************************************************)
(* One transaction after another is handed to every ready peer             *)
(* (broadcast_transaction, peer_manager.rs), and what the peers answer     *)
(* decides whether it counts as sent (async_send.rs). Nodes answer only    *)
(* what they refuse or have already, so silence means acceptance.          *)
(*                                                                         *)
(* Each dispatcher holds a handler by transaction, and a reject goes to    *)
(* any of them: those of earlier broadcasts that were answered by silence  *)
(* stay behind, with no receiver, until the connection ends.               *)
(* Abstracted: a transaction is sent once (a retry builds a new one), all  *)
(* spend the same notes; the waits of two seconds are steps, in the order  *)
(* of the peers. PeerLink has what happens inside one connection.          *)
(***************************************************************************)
EXTENDS Naturals, Sequences

CONSTANTS
    PeerCount,      \* peers in the pool
    Txs,            \* transactions the user tries one after another
    NoTx,
    MaxFaults       \* bound: ended listeners, busy writers, failed writes, answers
                    \* that take longer than the wait

\* The map of the pool is iterated in the same order while it does not change.
Peers == 1..PeerCount

ASSUME BroadcastAssumption == PeerCount \in Nat /\ NoTx \notin Txs /\ MaxFaults \in Nat

VARIABLES
    deaf,       \* connections without a listener, which nobody reads any more
    leftover,   \* broadcast_handlers whose receivers are gone, per peer
    rx,         \* the receiver of the call at each peer
    toNode,     \* transactions written and not yet read by the node
    fromNode,   \* rejects not yet read by the listener
    mempool,    \* of each node
    refused,    \* transactions each node sent a reject for, other than a duplicate
    pc,
    tx,         \* transaction of the call
    ready,      \* ready_peers
    todo,       \* peers the present loop has still to come to
    failed,     \* send_failed
    accepted,   \* accepted_by and duplicate_at
    rejected,   \* rejected_by
    outcome,    \* of each transaction
    mixed,      \* ready peers with handlers of earlier broadcasts
    late,       \* peers whose answer came after the wait, or comes
    faults

links == <<deaf, leftover, toNode, fromNode>>
nodes == <<mempool, refused>>
answers == <<failed, accepted, rejected>>
ghosts == <<mixed, late>>
call == <<pc, tx, ready, todo, answers, outcome>>
vars == <<links, rx, nodes, call, ghosts, faults>>

Codes == {"refused", "duplicate"}
Reject == [tx : Txs, code : Codes]

TypeOK ==
    /\ deaf \subseteq Peers /\ ready \subseteq Peers /\ todo \subseteq Peers
    /\ failed \subseteq Peers /\ accepted \subseteq Peers /\ rejected \subseteq Peers
    /\ mixed \subseteq Peers /\ late \subseteq Peers
    /\ leftover \in [Peers -> SUBSET Txs]
    /\ rx \in [Peers -> {"none", "waits", "dropped"} \cup Codes]
    /\ toNode \in [Peers -> Seq(Txs)] /\ fromNode \in [Peers -> Seq(Reject)]
    /\ mempool \in [Peers -> SUBSET Txs] /\ refused \in [Peers -> SUBSET Txs]
    /\ pc \in {"idle", "send", "wait"} /\ tx \in Txs \cup {NoTx}
    /\ pc = "idle" <=> tx = NoTx
    /\ outcome \in [Txs -> {"none", "sent", "failed"}]
    /\ faults \in 0..MaxFaults
    /\ \A p \in Peers : rx[p] # "none" => p \in ready /\ pc # "idle"

Init ==
    /\ deaf = {} /\ leftover = [p \in Peers |-> {}]
    /\ rx = [p \in Peers |-> "none"]
    /\ toNode = [p \in Peers |-> <<>>] /\ fromNode = [p \in Peers |-> <<>>]
    /\ mempool = [p \in Peers |-> {}] /\ refused = [p \in Peers |-> {}]
    /\ pc = "idle" /\ tx = NoTx /\ ready = {} /\ todo = {}
    /\ failed = {} /\ accepted = {} /\ rejected = {}
    /\ outcome = [t \in Txs |-> "none"]
    /\ mixed = {} /\ late = {} /\ faults = 0

Spend(n) == faults + n <= MaxFaults /\ faults' = faults + n
Cost(S) == IF S = {} THEN 0 ELSE 1

-----------------------------------------------------------------------------
(* The call.                                                                *)

\* get_ready_peers passes over a peer whose listener has its writer, and not over one
\* without a listener. Handlers are registered on all of them before anything is sent.
Begin(t) ==
    /\ pc = "idle" /\ outcome[t] = "none"
    /\ \E busy \in SUBSET (Peers \ deaf) :
         /\ Spend(Cost(busy))
         /\ ready' = Peers \ busy
         /\ IF Peers \ busy = {}
            THEN outcome' = [outcome EXCEPT ![t] = "failed"] /\ UNCHANGED <<pc, tx>>
            ELSE pc' = "send" /\ tx' = t /\ UNCHANGED outcome
         /\ rx' = [p \in Peers |-> IF p \in busy THEN "none" ELSE "waits"]
         /\ mixed' = {p \in Peers \ busy : leftover[p] # {}}
    /\ todo' = ready'
    /\ failed' = {} /\ accepted' = {} /\ rejected' = {} /\ late' = {}
    /\ UNCHANGED <<links, nodes>>

\* Peers come in the order of the map.
Turn(p) == p \in todo /\ \A q \in todo : p <= q

\* After the last peer the waits begin, for those it was sent to.
SendDone(p, lost) ==
    /\ failed' = lost
    /\ IF todo = {p}
       THEN pc' = "wait" /\ todo' = ready \ lost
       ELSE pc' = pc /\ todo' = todo \ {p}
    /\ UNCHANGED <<deaf, leftover, fromNode, rx, nodes, tx, ready, accepted, rejected,
                   outcome, ghosts>>

Sent(p) ==
    /\ pc = "send" /\ Turn(p)
    /\ \/ toNode' = [toNode EXCEPT ![p] = Append(@, tx)]
       \/ p \in deaf /\ UNCHANGED toNode
    /\ SendDone(p, failed)
    /\ UNCHANGED faults

\* Variant: a failed send is logged and forgotten.
SendFailsUnnoticed(p) ==
    /\ pc = "send" /\ Turn(p)
    /\ Spend(Cost({p} \ deaf))
    /\ SendDone(p, failed)
    /\ UNCHANGED toNode

SendFails(p) ==
    /\ pc = "send" /\ Turn(p)
    /\ Spend(Cost({p} \ deaf))
    /\ SendDone(p, failed \cup {p})
    /\ UNCHANGED toNode

Answered(p) ==
    /\ pc = "wait" /\ Turn(p) /\ rx[p] # "waits"
    /\ accepted' = IF rx[p] = "duplicate" THEN accepted \cup {p} ELSE accepted
    /\ rejected' = IF rx[p] = "refused" THEN rejected \cup {p} ELSE rejected
    /\ todo' = todo \ {p}
    /\ UNCHANGED <<links, rx, nodes, pc, tx, ready, failed, outcome, ghosts, faults>>

OnItsWay(p) ==
    \/ \E i \in DOMAIN toNode[p] : toNode[p][i] = tx
    \/ \E i \in DOMAIN fromNode[p] : fromNode[p][i].tx = tx

\* Variant: the wait for a reject has no end.
SilenceWithoutEnd(p) ==
    /\ pc = "wait" /\ Turn(p) /\ rx[p] = "waits"
    /\ UNCHANGED vars

\* Silence for two seconds. The receiver goes, the handler stays.
Silence(p) ==
    LET missed == {q \in {p} \ deaf : OnItsWay(q)}
    IN
    /\ pc = "wait" /\ Turn(p) /\ rx[p] = "waits"
    /\ Spend(Cost(missed))
    /\ late' = late \cup missed
    /\ accepted' = accepted \cup {p}
    /\ todo' = todo \ {p}
    /\ rx' = [rx EXCEPT ![p] = "none"]
    /\ leftover' = [leftover EXCEPT ![p] = @ \cup {tx}]
    /\ UNCHANGED <<deaf, toNode, fromNode, nodes, pc, tx, ready, failed, rejected,
                   outcome, mixed>>

\* Variant: receivers nobody waited for stay.
FinishKeepingReceivers ==
    /\ pc = "wait" /\ todo = {}
    /\ outcome' = [outcome EXCEPT ![tx] =
                     IF accepted # {} /\ rejected = {} THEN "sent" ELSE "failed"]
    /\ pc' = "idle" /\ tx' = NoTx
    /\ UNCHANGED <<links, rx, nodes, ready, todo, answers, ghosts, faults>>

\* One reject is enough for a failure.
Finish ==
    /\ pc = "wait" /\ todo = {}
    /\ outcome' = [outcome EXCEPT ![tx] =
                     IF accepted # {} /\ rejected = {} THEN "sent" ELSE "failed"]
    /\ leftover' = [p \in Peers |->
                      IF rx[p] = "waits" THEN leftover[p] \cup {tx} ELSE leftover[p]]
    /\ rx' = [p \in Peers |-> "none"]
    /\ pc' = "idle" /\ tx' = NoTx
    /\ UNCHANGED <<deaf, toNode, fromNode, nodes, ready, todo, answers, ghosts, faults>>

-----------------------------------------------------------------------------
(* Connections and nodes.                                                   *)

\* The first handler found takes the reject, whichever transaction it is for.
Hears(p) ==
    LET current == IF rx[p] = "waits" THEN {tx} ELSE {}
    IN
    /\ p \notin deaf /\ fromNode[p] # <<>>
    /\ fromNode' = [fromNode EXCEPT ![p] = Tail(@)]
    /\ IF leftover[p] \cup current = {}
       THEN UNCHANGED <<rx, leftover>>
       ELSE \/ \E t \in leftover[p] :
                 leftover' = [leftover EXCEPT ![p] = @ \ {t}] /\ UNCHANGED rx
            \/ current # {} /\ rx' = [rx EXCEPT ![p] = Head(fromNode[p]).code]
                            /\ UNCHANGED leftover
    /\ UNCHANGED <<deaf, toNode, nodes, call, ghosts, faults>>

\* The listener ends and clears the handlers. What was written may or may not arrive.
ListenerEnds(p) ==
    /\ p \notin deaf
    /\ deaf' = deaf \cup {p}
    /\ leftover' = [leftover EXCEPT ![p] = {}]
    /\ rx' = [rx EXCEPT ![p] = IF @ = "waits" THEN "dropped" ELSE @]
    /\ fromNode' = [fromNode EXCEPT ![p] = <<>>]
    /\ toNode' \in {toNode, [toNode EXCEPT ![p] = <<>>]}
    /\ Spend(1)
    /\ UNCHANGED <<nodes, call, ghosts>>

\* Between two broadcasts the connection is replaced.
Renewed(p) ==
    /\ pc = "idle" /\ p \in deaf
    /\ deaf' = deaf \ {p}
    /\ leftover' = [leftover EXCEPT ![p] = {}]
    /\ toNode' = [toNode EXCEPT ![p] = <<>>]
    /\ UNCHANGED <<fromNode, rx, nodes, call, ghosts, faults>>

\* A node takes a transaction, says that it has it, or refuses it: always when it
\* spends notes that another one in its mempool spends.
NodeReads(p) ==
    LET t == Head(toNode[p])
        Says(code) == fromNode' = IF p \in deaf THEN fromNode
                                  ELSE [fromNode EXCEPT ![p] = Append(@, [tx |-> t, code |-> code])]
    IN
    /\ toNode[p] # <<>>
    /\ toNode' = [toNode EXCEPT ![p] = Tail(@)]
    /\ \/ /\ mempool[p] = {}
          /\ mempool' = [mempool EXCEPT ![p] = {t}]
          /\ UNCHANGED <<refused, fromNode>>
       \/ /\ t \in mempool[p]
          /\ Says("duplicate") \/ UNCHANGED fromNode
          /\ UNCHANGED nodes
       \/ /\ t \notin mempool[p]
          /\ refused' = [refused EXCEPT ![p] = @ \cup {t}]
          /\ Says("refused")
          /\ UNCHANGED mempool
    /\ UNCHANGED <<deaf, leftover, rx, call, ghosts, faults>>

\* Nodes pass transactions on among themselves.
Relayed(p) ==
    /\ mempool[p] = {}
    /\ \E q \in Peers : mempool[q] # {} /\ mempool' = [mempool EXCEPT ![p] = mempool[q]]
    /\ UNCHANGED <<links, rx, refused, call, ghosts, faults>>

-----------------------------------------------------------------------------
Call == Finish \/ \E p \in Peers : Sent(p) \/ SendFails(p) \/ Answered(p) \/ Silence(p)

Next ==
    \/ \E t \in Txs : Begin(t)
    \/ Call
    \/ \E p \in Peers :
         Hears(p) \/ ListenerEnds(p) \/ Renewed(p) \/ NodeReads(p) \/ Relayed(p)

Spec == Init /\ [][Next]_vars

\* The call goes on, nodes read what they get, and listeners what comes.
FairSpec ==
    /\ Spec /\ WF_vars(Call)
    /\ \A p \in Peers : WF_vars(Hears(p)) /\ WF_vars(NodeReads(p))

-----------------------------------------------------------------------------
(* Properties.                                                              *)

\* A peer whose answer counts for certain.
Sure == ready \ (deaf \cup mixed \cup late)

\* When a broadcast returns, the peers counted as accepting have the transaction and
\* those counted as rejecting are the ones that refused it. Left out are peers without
\* a listener, whose silence says nothing, those whose answer took longer than the
\* wait, and those that had a handler of an earlier broadcast left, which may take the
\* reject or leave the place to an earlier one.
AnswersAreOwn ==
    [][pc = "wait" /\ pc' = "idle" =>
         /\ \A p \in accepted \cap Sure : tx \in mempool[p]
         /\ rejected \cap Sure = {p \in Sure : tx \in refused[p]}]_vars

\* A broadcast returns, whether peers answer or not.
BroadcastReturns == pc # "idle" ~> pc = "idle"
=============================================================================
