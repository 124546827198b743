-------------------------- MODULE Broadcast_proofs --------------------------
(***************************************************************************)
(* Proofs about Broadcast: when a broadcast returns, the answers of the    *)
(* peers that can be relied on are their own, for any number of peers,     *)
(* transactions and faults.                                                *)
(*                                                                         *)
(* A listener gives a reject to any handler, so the proof counts: a        *)
(* connection never has more messages on their way than handlers that may  *)
(* take their answers. One without old handlers is therefore silent when a *)
(* broadcast begins, and goes through the stages of that broadcast alone.  *)
(***************************************************************************)
EXTENDS Broadcast, FiniteSets, FiniteSetTheorems, SequenceTheorems, TLAPS

Begun == {t \in Txs : outcome[t] # "none"} \cup (IF pc = "idle" THEN {} ELSE {tx})

\* The call is about a transaction that has no outcome yet, and its peers are ready ones.
Orderly ==
    /\ pc # "idle" => /\ outcome[tx] = "none"
                      /\ todo \subseteq ready
    /\ pc = "send" => accepted = {} /\ rejected = {} /\ failed \cap todo = {}
    /\ pc = "wait" => failed \cap todo = {}

\* Nothing is known of a transaction before its broadcast.
Fresh(p) ==
    /\ leftover[p] \cup refused[p] \subseteq Begun
    /\ \A i \in 1..Len(toNode[p]) : toNode[p][i] \in Begun
    /\ rx[p] = "waits" => tx \notin leftover[p]

Unsent(p) == pc = "send" /\ p \in todo

\* Messages on their way, with the one to be sent, are no more than the handlers.
Counted(p) ==
    IF p \in deaf THEN fromNode[p] = <<>>
    ELSE /\ IsFiniteSet(leftover[p])
         /\ Len(toNode[p]) + Len(fromNode[p]) + (IF Unsent(p) THEN 1 ELSE 0)
              <= Cardinality(leftover[p]) + (IF rx[p] = "waits" THEN 1 ELSE 0)

-----------------------------------------------------------------------------
(* The stages of a broadcast at a peer that can be relied on.               *)

Quiet(p) == toNode[p] = <<>> /\ fromNode[p] = <<>>
Has(p) == tx \in mempool[p] /\ tx \notin refused[p]
True(p, code) == IF code = "duplicate" THEN Has(p) ELSE tx \in refused[p]

\* Not sent yet, and no reject of the transaction.
Before(p) ==
    /\ Unsent(p)
    /\ rx[p] = "waits" /\ leftover[p] = {} /\ Quiet(p) /\ tx \notin refused[p]

NotSent(p) ==
    /\ p \in failed /\ ~Unsent(p)
    /\ p \notin accepted \cup rejected
    /\ rx[p] = "waits" /\ leftover[p] = {} /\ Quiet(p) /\ tx \notin refused[p]

\* Sent, and its turn to be waited for has not come.
Pending(p) ==
    /\ ~Unsent(p) /\ (pc = "wait" => p \in todo)
    /\ p \notin failed \cup accepted \cup rejected

Travels(p) ==
    /\ Pending(p) /\ rx[p] = "waits" /\ leftover[p] = {}
    /\ \/ toNode[p] = <<tx>> /\ fromNode[p] = <<>> /\ tx \notin refused[p]
       \/ \E code \in Codes :
            /\ toNode[p] = <<>> /\ fromNode[p] = <<[tx |-> tx, code |-> code]>>
            /\ True(p, code)

Taken(p) == Pending(p) /\ rx[p] = "waits" /\ leftover[p] = {} /\ Quiet(p) /\ Has(p)

Heard(p) == Pending(p) /\ rx[p] \in Codes /\ leftover[p] = {} /\ Quiet(p) /\ True(p, rx[p])

Counts(p) ==
    /\ pc = "wait" /\ p \notin todo /\ p \notin failed /\ Quiet(p)
    /\ \/ /\ rx[p] \in Codes /\ True(p, rx[p])
          /\ p \in accepted <=> rx[p] = "duplicate"
          /\ p \in rejected <=> rx[p] = "refused"
       \/ /\ rx[p] = "none" /\ Has(p)
          /\ p \in accepted /\ p \notin rejected

Stage(p) ==
    Before(p) \/ NotSent(p) \/ Travels(p) \/ Taken(p) \/ Heard(p) \/ Counts(p)

Inv ==
    /\ TypeOK /\ Orderly
    /\ \A p \in Peers : Fresh(p) /\ Counted(p)
    /\ pc # "idle" => \A p \in Sure : Stage(p)

-----------------------------------------------------------------------------
(* Types and the order of a call.                                           *)

RxType == [Peers -> {"none", "waits", "dropped"} \cup Codes]

LEMMA BeginTypes == ASSUME TypeOK, NEW t \in Txs, Begin(t) PROVE TypeOK'
<1> USE DEF TypeOK, Begin, Spend, links, nodes
<1>1. rx' \in RxType
  BY DEF RxType
<1>2. faults' \in 0..MaxFaults
  BY BroadcastAssumption DEF Cost
<1>3. (\A q \in Peers : rx[q] # "none" => q \in ready /\ pc # "idle")'
  OBVIOUS
<1>4. ready' \subseteq Peers /\ todo' = ready' /\ mixed' \subseteq Peers
  BY Zenon
<1>5. outcome' \in [Txs -> {"none", "sent", "failed"}]
  <2>1. outcome' = outcome \/ outcome' = [outcome EXCEPT ![t] = "failed"]
    BY Zenon
  <2> QED BY <2>1
<1>6. /\ pc' \in {"idle", "send", "wait"} /\ tx' \in Txs \cup {NoTx}
      /\ pc' = "idle" <=> tx' = NoTx
  BY BroadcastAssumption
<1> QED BY <1>1, <1>2, <1>3, <1>4, <1>5, <1>6 DEF RxType

LEMMA SentTypes == ASSUME TypeOK, NEW p \in Peers, Sent(p) PROVE TypeOK'
<1> USE DEF TypeOK, Sent, SendDone, Turn, nodes, ghosts
<1>1. toNode' \in [Peers -> Seq(Txs)]
  <2>1. tx \in Txs
    OBVIOUS
  <2>2. Append(toNode[p], tx) \in Seq(Txs)
    BY <2>1
  <2>3. toNode' = toNode \/ toNode' = [toNode EXCEPT ![p] = Append(@, tx)]
    BY Zenon
  <2> HIDE DEF Sent
  <2> QED BY <2>2, <2>3
<1>2. pc = "send" /\ pc' \in {"send", "wait"} /\ todo' \subseteq Peers
  <2>1. \/ pc' = "wait" /\ todo' = ready \ failed
        \/ pc' = pc /\ todo' = todo \ {p}
    BY Zenon
  <2> QED BY <2>1
<1>3. (\A q \in Peers : rx[q] # "none" => q \in ready /\ pc # "idle")'
  BY <1>2
<1>4. UNCHANGED <<deaf, leftover, fromNode, rx, mempool, refused, tx, ready, accepted,
                  rejected, failed, outcome, mixed, late, faults>>
  OBVIOUS
<1> HIDE DEF Sent, SendDone
<1> QED BY <1>1, <1>2, <1>3, <1>4

LEMMA SilenceTypes == ASSUME TypeOK, NEW p \in Peers, Silence(p) PROVE TypeOK'
<1> DEFINE missed == {q \in {p} \ deaf : OnItsWay(q)}
<1> USE DEF TypeOK, Silence, Turn, Spend, nodes
<1>1. faults' \in 0..MaxFaults
  BY BroadcastAssumption DEF Cost
<1>2. late' = late \cup missed /\ missed \subseteq Peers
  OBVIOUS
<1>3. accepted' \subseteq Peers /\ todo' \subseteq Peers
  OBVIOUS
<1>4. leftover' \in [Peers -> SUBSET Txs]
  <2>1. tx \in Txs
    OBVIOUS
  <2> QED BY <2>1
<1>6. rx' \in RxType /\ (\A q \in Peers : rx'[q] # "none" => q \in ready /\ pc # "idle")
  BY DEF RxType
<1> QED BY <1>1, <1>2, <1>3, <1>4, <1>6 DEF RxType
LEMMA FinishTypes == ASSUME TypeOK, Finish PROVE TypeOK'
<1> USE DEF TypeOK, Finish, nodes, answers, ghosts
<1>1. tx \in Txs
  OBVIOUS
<1>2. outcome' \in [Txs -> {"none", "sent", "failed"}]
  OBVIOUS
<1>3. leftover' \in [Peers -> SUBSET Txs]
  <2>1. \A p \in Peers : leftover[p] \cup {tx} \in SUBSET Txs
    BY <1>1
  <2> QED BY <2>1
<1>4. rx' \in RxType /\ \A q \in Peers : rx'[q] = "none"
  BY DEF RxType
<1> QED BY <1>2, <1>3, <1>4 DEF RxType

LEMMA HearsTypes == ASSUME TypeOK, NEW p \in Peers, Hears(p) PROVE TypeOK'
<1> USE DEF TypeOK, Hears, nodes, call, answers, ghosts
<1>1. Head(fromNode[p]) \in Reject /\ Tail(fromNode[p]) \in Seq(Reject)
  OBVIOUS
<1>2. Head(fromNode[p]).code \in Codes
  BY <1>1 DEF Reject
<1>3. fromNode' \in [Peers -> Seq(Reject)]
  BY <1>1
<1>4. /\ \/ rx' = rx
         \/ rx[p] = "waits" /\ rx' = [rx EXCEPT ![p] = Head(fromNode[p]).code]
      /\ \/ leftover' = leftover
         \/ \E t \in leftover[p] : leftover' = [leftover EXCEPT ![p] = @ \ {t}]
  BY Zenon
<1> HIDE DEF Hears
<1>5. rx' \in RxType
  BY <1>2, <1>4 DEF RxType
<1>6. leftover' \in [Peers -> SUBSET Txs]
  <2>1. CASE leftover' = leftover
    BY <2>1
  <2>2. ASSUME NEW t, leftover' = [leftover EXCEPT ![p] = @ \ {t}]
        PROVE  leftover' \in [Peers -> SUBSET Txs]
    BY <2>2
  <2> QED BY <1>4, <2>1, <2>2
<1>7. UNCHANGED <<deaf, toNode, mempool, refused, pc, tx, ready, todo, failed, accepted,
                  rejected, outcome, mixed, late, faults>>
  BY DEF Hears
<1>8. (\A q \in Peers : rx[q] # "none" => q \in ready /\ pc # "idle")'
  BY <1>4, <1>7
<1> QED BY <1>3, <1>5, <1>6, <1>7, <1>8 DEF RxType

LEMMA ListenerEndsTypes == ASSUME TypeOK, NEW p \in Peers, ListenerEnds(p) PROVE TypeOK'
<1> USE DEF TypeOK, ListenerEnds, Spend, nodes, call, answers, ghosts
<1>1. leftover' \in [Peers -> SUBSET Txs] /\ deaf' \subseteq Peers
  OBVIOUS
<1>2. rx' \in RxType
  BY DEF RxType
<1>3. toNode' \in [Peers -> Seq(Txs)]
  <2>1. toNode' = toNode \/ toNode' = [toNode EXCEPT ![p] = <<>>]
    BY Zenon
  <2>2. <<>> \in Seq(Txs)
    OBVIOUS
  <2> HIDE DEF ListenerEnds
  <2> QED BY <2>1, <2>2
<1>4. fromNode' \in [Peers -> Seq(Reject)]
  OBVIOUS
<1>5. faults' \in 0..MaxFaults
  BY BroadcastAssumption
<1>6. (\A q \in Peers : rx[q] # "none" => q \in ready /\ pc # "idle")'
  OBVIOUS
<1> QED BY <1>1, <1>2, <1>3, <1>4, <1>5, <1>6 DEF RxType

LEMMA NodeReadsTypes == ASSUME TypeOK, NEW p \in Peers, NodeReads(p) PROVE TypeOK'
<1> USE DEF TypeOK, nodes, call, answers, ghosts
<1>1. Head(toNode[p]) \in Txs /\ Tail(toNode[p]) \in Seq(Txs)
  BY DEF NodeReads
<1>2. toNode' \in [Peers -> Seq(Txs)]
  BY <1>1 DEF NodeReads
<1>3. fromNode' \in [Peers -> Seq(Reject)]
  <2>1. \A code \in Codes : [tx |-> Head(toNode[p]), code |-> code] \in Reject
    BY <1>1 DEF Reject
  <2>2. \/ fromNode' = fromNode
        \/ \E code \in Codes : fromNode' =
              [fromNode EXCEPT ![p] = Append(@, [tx |-> Head(toNode[p]), code |-> code])]
    BY DEF NodeReads, Codes
  <2>3. ASSUME NEW r \in Reject, fromNode' = [fromNode EXCEPT ![p] = Append(@, r)]
        PROVE  fromNode' \in [Peers -> Seq(Reject)]
    BY <2>3
  <2> QED BY <2>1, <2>2, <2>3
<1>4. mempool' \in [Peers -> SUBSET Txs] /\ refused' \in [Peers -> SUBSET Txs]
  <2>1. /\ \/ mempool' = mempool
           \/ mempool' = [mempool EXCEPT ![p] = {Head(toNode[p])}]
        /\ \/ refused' = refused
           \/ refused' = [refused EXCEPT ![p] = @ \cup {Head(toNode[p])}]
    BY Zenon DEF NodeReads
  <2>2. {Head(toNode[p])} \in SUBSET Txs /\ refused[p] \cup {Head(toNode[p])} \in SUBSET Txs
    BY <1>1
  <2>3. mempool' \in [Peers -> SUBSET Txs]
    BY <2>1, <2>2
  <2>4. refused' \in [Peers -> SUBSET Txs]
    BY <2>1, <2>2
  <2> QED BY <2>3, <2>4
<1> QED BY <1>2, <1>3, <1>4 DEF NodeReads

LEMMA TypeStep == ASSUME TypeOK, [Next]_vars PROVE TypeOK'
<1>1. ASSUME NEW p \in Peers, SendFails(p) PROVE TypeOK'
  <2>1. faults' \in 0..MaxFaults
    BY <1>1, BroadcastAssumption DEF TypeOK, SendFails, Spend, Cost
  <2>2. \/ pc' = "wait" /\ todo' = ready \ (failed \cup {p})
        \/ pc' = pc /\ todo' = todo \ {p}
    BY <1>1, Zenon DEF SendFails, SendDone
  <2>3. UNCHANGED <<deaf, leftover, toNode, fromNode, rx, mempool, refused, tx, ready,
                    accepted, rejected, outcome, mixed, late>>
    BY <1>1 DEF SendFails, SendDone, nodes, ghosts
  <2>4. pc = "send" /\ failed' = failed \cup {p}
    BY <1>1 DEF SendFails, SendDone
  <2> QED BY <2>1, <2>2, <2>3, <2>4 DEF TypeOK
<1>2. ASSUME NEW p \in Peers, Answered(p) PROVE TypeOK'
  BY <1>2 DEF TypeOK, Answered, Turn, links, nodes, ghosts
<1>3. ASSUME NEW p \in Peers, Renewed(p) PROVE TypeOK'
  BY <1>3 DEF TypeOK, Renewed, nodes, call, answers, ghosts
<1>4. ASSUME NEW p \in Peers, Relayed(p) PROVE TypeOK'
  BY <1>4 DEF TypeOK, Relayed, links, call, answers, ghosts
<1>5. CASE UNCHANGED vars
  BY <1>5 DEF TypeOK, vars, links, nodes, call, answers, ghosts
<1> QED
  BY <1>1, <1>2, <1>3, <1>4, <1>5, BeginTypes, SentTypes, SilenceTypes, FinishTypes,
     HearsTypes, ListenerEndsTypes, NodeReadsTypes DEF Next, Call
-----------------------------------------------------------------------------
(* What the actions leave alone, a peer at a time.                          *)

\* What the call keeps of itself while connections and nodes move.
Same(S) == \A q \in Peers \ S :
    /\ leftover'[q] = leftover[q] /\ rx'[q] = rx[q]
    /\ toNode'[q] = toNode[q] /\ fromNode'[q] = fromNode[q]
    /\ refused'[q] = refused[q]
    /\ q \in deaf' <=> q \in deaf

LEMMA CallStandsStill ==
    ASSUME TypeOK, NEW p \in Peers,
           Hears(p) \/ ListenerEnds(p) \/ Renewed(p) \/ NodeReads(p) \/ Relayed(p)
    PROVE  /\ UNCHANGED <<pc, tx, ready, todo, failed, accepted, rejected, outcome,
                          mixed, late>>
           /\ Same({p})
           /\ \A q \in Peers : mempool[q] # {} => mempool'[q] = mempool[q]
<1>1. CASE Hears(p)
  <2>1. \/ UNCHANGED <<rx, leftover>>
        \/ \E t \in leftover[p] :
             leftover' = [leftover EXCEPT ![p] = @ \ {t}] /\ UNCHANGED rx
        \/ rx' = [rx EXCEPT ![p] = Head(fromNode[p]).code] /\ UNCHANGED leftover
    BY <1>1, Zenon DEF Hears
  <2> QED BY <1>1, <2>1 DEF Hears, Same, TypeOK, nodes, call, answers, ghosts
<1>2. CASE ListenerEnds(p)
  BY <1>2 DEF ListenerEnds, Same, TypeOK, nodes, call, answers, ghosts
<1>3. CASE Renewed(p)
  BY <1>3 DEF Renewed, Same, TypeOK, nodes, call, answers, ghosts
<1>4. CASE NodeReads(p)
  BY <1>4 DEF NodeReads, Same, TypeOK, nodes, call, answers, ghosts
<1>5. CASE Relayed(p)
  BY <1>5 DEF Relayed, Same, TypeOK, links, call, answers, ghosts
<1> QED BY <1>1, <1>2, <1>3, <1>4, <1>5

LEMMA SendStep ==
    ASSUME TypeOK, NEW p \in Peers, Sent(p) \/ SendFails(p)
    PROVE  /\ UNCHANGED <<deaf, leftover, fromNode, rx, mempool, refused, tx, ready,
                          accepted, rejected, outcome, mixed, late>>
           /\ Same({p}) /\ pc = "send" /\ p \in todo
           /\ \/ pc' = "wait" /\ todo = {p} /\ todo' = ready \ failed'
              \/ pc' = "send" /\ todo # {p} /\ todo' = todo \ {p}
           /\ Sent(p) => failed' = failed
           /\ SendFails(p) => failed' = failed \cup {p} /\ toNode' = toNode
<1>1. CASE Sent(p)
  <2>1. \A q \in Peers \ {p} : toNode'[q] = toNode[q]
    BY <1>1 DEF Sent, TypeOK
  <2> QED BY <1>1, <2>1 DEF Sent, SendFails, SendDone, Turn, Same, nodes, ghosts
<1>2. CASE SendFails(p)
  BY <1>2 DEF Sent, SendFails, SendDone, Turn, Same, nodes, ghosts
<1> QED BY <1>1, <1>2

LEMMA BegunGrows ==
    ASSUME TypeOK, Orderly, [Next]_vars
    PROVE  /\ Begun \subseteq Begun'
           /\ pc = "idle" /\ pc' # "idle" => tx' \notin Begun /\ tx' \in Begun'
<1>1. ASSUME NEW t \in Txs, Begin(t)
      PROVE  /\ Begun \subseteq Begun'
             /\ pc = "idle" /\ pc' # "idle" => tx' \notin Begun /\ tx' \in Begun'
  <2>1. /\ pc = "idle" /\ outcome[t] = "none"
        /\ \/ outcome' = [outcome EXCEPT ![t] = "failed"] /\ pc' = "idle"
           \/ outcome' = outcome /\ pc' = "send" /\ tx' = t
    BY <1>1, Zenon DEF Begin
  <2> QED BY <2>1 DEF TypeOK, Begun
<1>2. CASE Finish
  <2>1. /\ pc # "idle" /\ pc' = "idle" /\ tx \in Txs
        /\ outcome'[tx] # "none" /\ \A t \in Txs \ {tx} : outcome'[t] = outcome[t]
    BY <1>2 DEF Finish, TypeOK
  <2> QED BY <2>1 DEF Begun
<1>3. ASSUME UNCHANGED <<tx, outcome>>, pc = "idle" <=> pc' = "idle"
      PROVE  /\ Begun \subseteq Begun'
             /\ pc = "idle" /\ pc' # "idle" => tx' \notin Begun /\ tx' \in Begun'
  BY <1>3 DEF Begun
<1>4. ASSUME NEW p \in Peers, Sent(p) \/ SendFails(p) \/ Answered(p) \/ Silence(p)
      PROVE  UNCHANGED <<tx, outcome>> /\ (pc = "idle" <=> pc' = "idle")
  BY <1>4, SendStep DEF Answered, Silence
<1>5. CASE UNCHANGED vars
  BY <1>3, <1>5 DEF vars, call
<1> QED
  BY <1>1, <1>2, <1>3, <1>4, <1>5, CallStandsStill DEF Next, Call

LEMMA OrderlyStep == ASSUME TypeOK, Orderly, [Next]_vars PROVE Orderly'
<1>1. ASSUME NEW t \in Txs, Begin(t) PROVE Orderly'
  <2>1. /\ \/ pc' = "idle"
           \/ pc' = "send" /\ tx' = t /\ outcome' = outcome
        /\ outcome[t] = "none" /\ todo' = ready'
        /\ failed' = {} /\ accepted' = {} /\ rejected' = {}
    BY <1>1, Zenon DEF Begin
  <2> QED BY <2>1 DEF Orderly
<1>2. ASSUME NEW p \in Peers, Sent(p) \/ SendFails(p) PROVE Orderly'
  BY <1>2, SendStep DEF Orderly
<1>3. ASSUME NEW p \in Peers, Answered(p) PROVE Orderly'
  BY <1>3 DEF Orderly, Answered
<1>4. ASSUME NEW p \in Peers, Silence(p) PROVE Orderly'
  BY <1>4 DEF Orderly, Silence
<1>5. CASE Finish
  BY <1>5 DEF Orderly, Finish
<1>6. ASSUME NEW p \in Peers,
             Hears(p) \/ ListenerEnds(p) \/ Renewed(p) \/ NodeReads(p) \/ Relayed(p)
      PROVE  Orderly'
  BY <1>6, CallStandsStill DEF Orderly
<1>7. CASE UNCHANGED vars
  BY <1>7 DEF Orderly, vars, call, answers
<1> QED BY <1>1, <1>2, <1>3, <1>4, <1>5, <1>6, <1>7 DEF Next, Call
-----------------------------------------------------------------------------
(* Handlers, messages and refusals are of transactions begun.               *)

LEMMA FreshStep ==
    ASSUME TypeOK, Orderly, TypeOK', \A q \in Peers : Fresh(q), [Next]_vars
    PROVE  \A q \in Peers : Fresh(q)'
<1> SUFFICES ASSUME NEW q \in Peers PROVE Fresh(q)'
  OBVIOUS
<1>0. Begun \subseteq Begun' /\ (pc # "idle" => tx \in Begun)
  BY BegunGrows DEF Begun
<1>a. ASSUME UNCHANGED <<leftover, refused, toNode>>,
             rx'[q] = "waits" => tx' = tx /\ rx[q] = "waits"
      PROVE  Fresh(q)'
  BY <1>0, <1>a DEF Fresh
<1>1. ASSUME NEW t \in Txs, Begin(t) PROVE Fresh(q)'
  <2>1. rx'[q] = "waits" => pc = "idle" /\ pc' # "idle"
    BY <1>1 DEF Begin
  <2>2. rx'[q] = "waits" => tx' \notin leftover[q]
    BY <1>1, <2>1, BegunGrows DEF Fresh
  <2>3. UNCHANGED <<leftover, refused, toNode>>
    BY <1>1 DEF Begin, links, nodes
  <2> QED BY <1>0, <2>2, <2>3 DEF Fresh
<1>2. ASSUME NEW p \in Peers, Sent(p) \/ SendFails(p) PROVE Fresh(q)'
  <2>1. toNode'[q] = toNode[q] \/ toNode'[q] = Append(toNode[q], tx)
    <3>1. toNode \in [Peers -> Seq(Txs)]
      BY DEF TypeOK
    <3>2. toNode' = toNode \/ toNode' = [toNode EXCEPT ![p] = Append(@, tx)]
      BY <1>2, SendStep, Zenon DEF Sent
    <3> QED BY <3>1, <3>2
  <2>2. UNCHANGED <<leftover, refused, rx, tx>> /\ tx \in Begun
    BY <1>0, <1>2, SendStep
  <2>3. toNode[q] \in Seq(Txs) /\ tx \in Txs
    BY <1>2, SendStep DEF TypeOK
  <2>4. \A i \in 1..Len(toNode'[q]) : toNode'[q][i] \in Begun
    BY <2>1, <2>2, <2>3 DEF Fresh
  <2> QED BY <1>0, <2>2, <2>4 DEF Fresh
<1>3. ASSUME NEW p \in Peers, Answered(p) PROVE Fresh(q)'
  BY <1>3, <1>a DEF Answered, links, nodes
<1>4. ASSUME NEW p \in Peers, Silence(p) PROVE Fresh(q)'
  <2>1. /\ leftover'[q] \subseteq leftover[q] \cup {tx} /\ pc # "idle"
        /\ rx'[q] = "waits" => rx[q] = "waits" /\ leftover'[q] = leftover[q]
    BY <1>4 DEF Silence, TypeOK
  <2>2. UNCHANGED <<refused, toNode, tx>>
    BY <1>4 DEF Silence, nodes
  <2> QED BY <1>0, <2>1, <2>2 DEF Fresh
<1>5. CASE Finish
  <2>1. /\ leftover'[q] \subseteq leftover[q] \cup {tx} /\ pc # "idle"
        /\ rx'[q] = "none"
    BY <1>5 DEF Finish
  <2>2. UNCHANGED <<refused, toNode>>
    BY <1>5 DEF Finish, nodes
  <2> QED BY <1>0, <2>1, <2>2 DEF Fresh
<1>6. ASSUME NEW p \in Peers,
             Hears(p) \/ ListenerEnds(p) \/ Renewed(p) \/ NodeReads(p) \/ Relayed(p)
      PROVE  Fresh(q)'
  <2>1. /\ leftover'[q] \subseteq leftover[q]
        /\ rx'[q] = "waits" => rx[q] = "waits"
    <3>1. CASE Hears(p)
      <4>1. /\ \/ leftover' = leftover
               \/ \E t \in leftover[p] : leftover' = [leftover EXCEPT ![p] = @ \ {t}]
            /\ \/ rx' = rx
               \/ rx[p] = "waits" /\ rx' = [rx EXCEPT ![p] = Head(fromNode[p]).code]
        BY <3>1, Zenon DEF Hears
      <4>2. Head(fromNode[p]).code # "waits"
        <5>1. fromNode[p] \in Seq(Reject) /\ fromNode[p] # <<>>
          BY <3>1 DEF Hears, TypeOK
        <5>2. Head(fromNode[p]) \in Reject
          BY <5>1
        <5> QED BY <5>2 DEF Reject, Codes
      <4>3. leftover'[q] \subseteq leftover[q]
        <5>1. leftover \in [Peers -> SUBSET Txs]
          BY DEF TypeOK
        <5>2. ASSUME NEW t, leftover' = [leftover EXCEPT ![p] = @ \ {t}]
              PROVE  leftover'[q] \subseteq leftover[q]
          BY <5>1, <5>2
        <5> QED BY <4>1, <5>2
      <4>4. rx'[q] = "waits" => rx[q] = "waits"
        <5>1. rx \in RxType
          BY DEF TypeOK, RxType
        <5> QED BY <4>1, <4>2, <5>1 DEF RxType
      <4> QED BY <4>3, <4>4
    <3>2. CASE ListenerEnds(p) \/ Renewed(p) \/ NodeReads(p) \/ Relayed(p)
      <4>1. leftover \in [Peers -> SUBSET Txs] /\ rx \in RxType
        BY DEF TypeOK, RxType
      <4>2. CASE ListenerEnds(p)
        BY <4>1, <4>2 DEF ListenerEnds, RxType
      <4>3. CASE Renewed(p)
        BY <4>1, <4>3 DEF Renewed
      <4>4. CASE NodeReads(p) \/ Relayed(p)
        BY <4>4 DEF NodeReads, Relayed, links
      <4> QED BY <3>2, <4>2, <4>3, <4>4
    <3> QED BY <1>6, <3>1, <3>2
  <2>2. refused'[q] \subseteq Begun
    <3>1. CASE NodeReads(p) /\ q = p
      <4>1. Head(toNode[p]) \in Begun
        BY <3>1 DEF NodeReads, Fresh, TypeOK
      <4>2. \/ refused' = refused
            \/ refused' = [refused EXCEPT ![p] = @ \cup {Head(toNode[p])}]
        BY <3>1, Zenon DEF NodeReads, nodes
      <4>3. refused'[q] \subseteq refused[q] \cup {Head(toNode[p])}
        BY <3>1, <4>2 DEF TypeOK
      <4> QED BY <4>1, <4>3 DEF Fresh
    <3>2. CASE ~(NodeReads(p) /\ q = p)
      BY <1>6, <3>2, CallStandsStill
         DEF Hears, ListenerEnds, Renewed, Relayed, nodes, Same, Fresh
    <3> QED BY <3>1, <3>2
  <2>3. \A i \in 1..Len(toNode'[q]) : toNode'[q][i] \in Begun
    <3>1. toNode \in [Peers -> Seq(Txs)] /\ toNode[q] \in Seq(Txs)
      BY DEF TypeOK
    <3>2. ASSUME toNode'[q] = toNode[q]
          PROVE  \A i \in 1..Len(toNode'[q]) : toNode'[q][i] \in Begun
      BY <3>2 DEF Fresh
    <3>3. CASE q # p
      <4>1. toNode'[q] = toNode[q]
        BY <1>6, <3>3, CallStandsStill, Zenon DEF Same
      <4> QED BY <3>2, <4>1
    <3>4. CASE Hears(p) \/ Relayed(p)
      <4>1. toNode' = toNode
        BY <3>4 DEF Hears, Relayed, links
      <4> QED BY <3>2, <4>1
    <3>5. CASE q = p /\ (ListenerEnds(p) \/ Renewed(p))
      <4>1. toNode' = toNode \/ toNode' = [toNode EXCEPT ![p] = <<>>]
        BY <3>5, Zenon DEF ListenerEnds, Renewed
      <4>2. CASE toNode' = [toNode EXCEPT ![p] = <<>>]
        <5>1. toNode'[q] = <<>>
          BY <3>1, <3>5, <4>2
        <5> QED BY <5>1
      <4> QED BY <3>2, <4>1, <4>2
    <3>6. CASE q = p /\ NodeReads(p)
      <4>1. toNode[q] # <<>> /\ toNode'[q] = Tail(toNode[q])
        BY <3>1, <3>6 DEF NodeReads
      <4> QED BY <3>1, <4>1 DEF Fresh
    <3> QED BY <1>6, <3>3, <3>4, <3>5, <3>6
  <2>4. tx' = tx
    BY <1>6, CallStandsStill
  <2> QED BY <1>0, <2>1, <2>2, <2>3, <2>4 DEF Fresh
<1>7. CASE UNCHANGED vars
  BY <1>7, <1>a DEF vars, links, nodes, call
<1> QED BY <1>1, <1>2, <1>3, <1>4, <1>5, <1>6, <1>7 DEF Next, Call
-----------------------------------------------------------------------------
(* Messages on their way are no more than handlers.                         *)

LEMMA AddedHandler ==
    ASSUME NEW S, IsFiniteSet(S), NEW x, x \notin S
    PROVE  IsFiniteSet(S \cup {x}) /\ Cardinality(S \cup {x}) = Cardinality(S) + 1
           /\ Cardinality(S) \in Nat
BY FS_AddElement, FS_CardinalityType

LEMMA UsedHandler ==
    ASSUME NEW S, IsFiniteSet(S), NEW x \in S
    PROVE  IsFiniteSet(S \ {x}) /\ Cardinality(S \ {x}) = Cardinality(S) - 1
           /\ Cardinality(S) \in Nat
BY FS_RemoveElement, FS_CardinalityType

\* One handler more on the right, one message less on the left.
LEMMA CountedStep ==
    ASSUME TypeOK, Orderly, TypeOK', Orderly',
           \A q \in Peers : Fresh(q) /\ Counted(q), [Next]_vars
    PROVE  \A q \in Peers : Counted(q)'
<1> SUFFICES ASSUME NEW q \in Peers PROVE Counted(q)'
  OBVIOUS
<1>0. Counted(q) /\ Fresh(q)
  OBVIOUS
<1>t. /\ toNode \in [Peers -> Seq(Txs)] /\ fromNode \in [Peers -> Seq(Reject)]
      /\ Len(toNode[q]) \in Nat /\ Len(fromNode[q]) \in Nat
      /\ leftover \in [Peers -> SUBSET Txs] /\ rx \in RxType
  BY DEF TypeOK, RxType
<1>c. q \notin deaf => Cardinality(leftover[q]) \in Nat
  BY <1>0, FS_CardinalityType DEF Counted
<1>1. ASSUME NEW t \in Txs, Begin(t) PROVE Counted(q)'
  <2>1. Unsent(q)' => rx'[q] = "waits"
    BY <1>1 DEF Begin, Unsent
  <2>2. ~Unsent(q) /\ rx[q] = "none"
    BY <1>1 DEF Begin, Unsent, TypeOK
  <2>3. UNCHANGED <<deaf, leftover, toNode, fromNode>>
    BY <1>1 DEF Begin, links
  <2> QED BY <1>0, <1>t, <1>c, <2>1, <2>2, <2>3 DEF Counted
<1>2. ASSUME NEW p \in Peers, Sent(p) \/ SendFails(p) PROVE Counted(q)'
  <2>1. UNCHANGED <<deaf, leftover, fromNode, rx>> /\ (Unsent(q)' => Unsent(q))
    BY <1>2, SendStep DEF Unsent
  <2>2. CASE q # p
    <3>1. toNode'[q] = toNode[q]
      BY <1>2, <2>2, SendStep DEF Same
    <3> QED BY <1>0, <1>t, <1>c, <2>1, <3>1 DEF Counted
  <2>3. CASE q = p
    <3>1. Unsent(q) /\ ~Unsent(q)'
      BY <1>2, <2>3, SendStep DEF Unsent
    <3>2. Len(toNode'[q]) = Len(toNode[q]) \/ Len(toNode'[q]) = Len(toNode[q]) + 1
      <4>1. CASE SendFails(p)
        BY <4>1, SendStep
      <4>2. CASE Sent(p)
        <5>1. toNode'[q] = toNode[q] \/ toNode'[q] = Append(toNode[q], tx)
          BY <1>t, <2>3, <4>2 DEF Sent
        <5>2. tx \in Txs /\ toNode[q] \in Seq(Txs)
          BY <4>2 DEF Sent, TypeOK
        <5> QED BY <5>1, <5>2
      <4> QED BY <1>2, <4>1, <4>2
    <3> QED BY <1>0, <1>t, <1>c, <2>1, <3>1, <3>2 DEF Counted
  <2> QED BY <2>2, <2>3
<1>3. ASSUME NEW p \in Peers, Answered(p) PROVE Counted(q)'
  <2>1. ~Unsent(q) /\ ~Unsent(q)'
    BY <1>3 DEF Answered, Unsent
  <2> QED BY <1>0, <1>3, <2>1 DEF Answered, links, Counted
<1>4. ASSUME NEW p \in Peers, Silence(p) PROVE Counted(q)'
  <2>1. /\ ~Unsent(q) /\ ~Unsent(q)'
        /\ UNCHANGED <<deaf, toNode, fromNode>>
    BY <1>4 DEF Silence, Unsent
  <2>2. CASE q # p
    <3>1. leftover'[q] = leftover[q] /\ rx'[q] = rx[q]
      BY <1>4, <1>t, <2>2 DEF Silence, RxType
    <3> QED BY <1>0, <2>1, <3>1 DEF Counted
  <2>3. CASE q = p
    <3>1. /\ rx[q] = "waits" /\ rx'[q] = "none"
          /\ leftover'[q] = leftover[q] \cup {tx}
      BY <1>4, <1>t, <2>3 DEF Silence, RxType
    <3>2. tx \notin leftover[q]
      BY <1>0, <3>1 DEF Fresh
    <3>3. q \notin deaf => /\ IsFiniteSet(leftover'[q])
                           /\ Cardinality(leftover'[q]) = Cardinality(leftover[q]) + 1
      BY <1>0, <3>1, <3>2, AddedHandler DEF Counted
    <3> QED BY <1>0, <1>t, <1>c, <2>1, <3>1, <3>3 DEF Counted
  <2> QED BY <2>2, <2>3
<1>5. CASE Finish
  <2>1. /\ ~Unsent(q) /\ ~Unsent(q)' /\ rx'[q] = "none"
        /\ UNCHANGED <<deaf, toNode, fromNode>>
        /\ leftover'[q] = IF rx[q] = "waits" THEN leftover[q] \cup {tx} ELSE leftover[q]
    BY <1>5 DEF Finish, Unsent
  <2>2. rx[q] = "waits" => tx \notin leftover[q]
    BY <1>0 DEF Fresh
  <2>3. CASE rx[q] = "waits"
    <3>1. q \notin deaf => /\ IsFiniteSet(leftover'[q])
                           /\ Cardinality(leftover'[q]) = Cardinality(leftover[q]) + 1
      BY <1>0, <2>1, <2>2, <2>3, AddedHandler DEF Counted
    <3> QED BY <1>0, <1>t, <1>c, <2>1, <2>3, <3>1 DEF Counted
  <2>4. CASE rx[q] # "waits"
    BY <1>0, <1>t, <1>c, <2>1, <2>4 DEF Counted
  <2> QED BY <2>3, <2>4
<1>6. ASSUME NEW p \in Peers, q # p,
             Hears(p) \/ ListenerEnds(p) \/ Renewed(p) \/ NodeReads(p) \/ Relayed(p)
      PROVE  Counted(q)'
  <2>1. Same({p}) /\ (Unsent(q)' <=> Unsent(q))
    BY <1>6, CallStandsStill DEF Unsent
  <2> QED BY <1>0, <1>6, <2>1 DEF Counted, Same
<1>7. CASE Hears(q)
  <2>1. /\ q \notin deaf /\ fromNode[q] # <<>> /\ fromNode'[q] = Tail(fromNode[q])
        /\ UNCHANGED <<deaf, toNode, pc, todo>>
    BY <1>7, <1>t DEF Hears, call
  <2>2. Len(fromNode'[q]) = Len(fromNode[q]) - 1 /\ Len(fromNode[q]) > 0
    BY <1>t, <2>1
  <2>3. Unsent(q)' <=> Unsent(q)
    BY <2>1 DEF Unsent
  <2>4. CASE \E t \in leftover[q] :
               leftover' = [leftover EXCEPT ![q] = @ \ {t}] /\ UNCHANGED rx
    <3>1. PICK t \in leftover[q] :
               leftover' = [leftover EXCEPT ![q] = @ \ {t}] /\ UNCHANGED rx
      BY <2>4
    <3>2. leftover'[q] = leftover[q] \ {t} /\ rx' = rx
      BY <1>t, <3>1
    <3>3. /\ IsFiniteSet(leftover'[q]) /\ Cardinality(leftover[q]) \in Nat
          /\ Cardinality(leftover'[q]) = Cardinality(leftover[q]) - 1
      BY <1>0, <2>1, <3>2, UsedHandler DEF Counted
    <3> QED BY <1>0, <1>t, <2>1, <2>2, <2>3, <3>2, <3>3 DEF Counted
  <2>5. CASE rx[q] = "waits" /\ rx' = [rx EXCEPT ![q] = Head(fromNode[q]).code]
             /\ UNCHANGED leftover
    <3>1. rx[q] = "waits" /\ leftover' = leftover
      BY <2>5
    <3> QED BY <1>0, <1>t, <1>c, <2>1, <2>2, <2>3, <3>1 DEF Counted
  <2>6. CASE leftover[q] = {} /\ rx[q] # "waits"
    <3>1. Cardinality(leftover[q]) = 0
      BY <2>6, FS_EmptySet
    <3> QED BY <1>0, <1>t, <2>1, <2>2, <2>6, <3>1 DEF Counted
  <2>7. \/ \E t \in leftover[q] :
               leftover' = [leftover EXCEPT ![q] = @ \ {t}] /\ UNCHANGED rx
        \/ rx[q] = "waits" /\ rx' = [rx EXCEPT ![q] = Head(fromNode[q]).code]
             /\ UNCHANGED leftover
        \/ leftover[q] = {} /\ rx[q] # "waits"
    BY <1>7 DEF Hears
  <2> QED BY <2>4, <2>5, <2>6, <2>7
<1>8. CASE ListenerEnds(q)
  <2>1. q \in deaf' /\ fromNode'[q] = <<>>
    BY <1>8, <1>t DEF ListenerEnds
  <2> QED BY <2>1 DEF Counted
<1>9. CASE Renewed(q)
  <2>1. /\ ~Unsent(q)' /\ q \in deaf /\ q \notin deaf'
        /\ leftover'[q] = {} /\ toNode'[q] = <<>> /\ fromNode'[q] = fromNode[q]
    BY <1>9, <1>t DEF Renewed, Unsent, call
  <2>2. fromNode[q] = <<>>
    BY <1>0, <2>1 DEF Counted
  <2> QED BY <2>1, <2>2, FS_EmptySet DEF Counted
<1>10. CASE NodeReads(q)
  <2>1. /\ toNode[q] # <<>> /\ toNode'[q] = Tail(toNode[q])
        /\ UNCHANGED <<deaf, leftover, rx, pc, todo>>
    BY <1>10, <1>t DEF NodeReads, call
  <2>2. Len(toNode'[q]) = Len(toNode[q]) - 1
    BY <1>t, <2>1
  <2>3. Unsent(q)' <=> Unsent(q)
    BY <2>1 DEF Unsent
  <2>4. \/ fromNode' = fromNode
        \/ q \notin deaf /\ \E r \in Reject : fromNode' = [fromNode EXCEPT ![q] = Append(@, r)]
    <3>1. Head(toNode[q]) \in Txs
      BY <1>t, <2>1
    <3>2. \A code \in Codes : [tx |-> Head(toNode[q]), code |-> code] \in Reject
      BY <3>1 DEF Reject
    <3>3. \/ fromNode' = fromNode
          \/ q \notin deaf /\ \E code \in Codes : fromNode' =
                [fromNode EXCEPT ![q] = Append(@, [tx |-> Head(toNode[q]), code |-> code])]
      BY <1>10 DEF NodeReads, Codes
    <3> QED BY <3>2, <3>3, Zenon
  <2>5. CASE fromNode' = fromNode
    BY <1>0, <1>t, <1>c, <2>1, <2>2, <2>3, <2>5 DEF Counted
  <2>6. ASSUME NEW r \in Reject, q \notin deaf, fromNode' = [fromNode EXCEPT ![q] = Append(@, r)]
        PROVE  Counted(q)'
    <3>1. Len(fromNode'[q]) = Len(fromNode[q]) + 1
      BY <1>t, <2>6
    <3> QED BY <1>0, <1>t, <1>c, <2>1, <2>2, <2>3, <2>6, <3>1 DEF Counted
  <2> QED BY <2>4, <2>5, <2>6
<1>11. CASE Relayed(q)
  BY <1>0, <1>11 DEF Relayed, links, call, Counted, Unsent
<1>12. CASE UNCHANGED vars
  BY <1>0, <1>12 DEF vars, links, call, Counted, Unsent
<1> QED
  BY <1>1, <1>2, <1>3, <1>4, <1>5, <1>6, <1>7, <1>8, <1>9, <1>10, <1>11, <1>12
     DEF Next, Call
-----------------------------------------------------------------------------
(* A peer that can be relied on goes through the stages.                    *)

\* Nothing of a peer's stage changes.
LEMMA StageStays ==
    ASSUME NEW q \in Peers, Stage(q), UNCHANGED <<pc, tx>>,
           UNCHANGED <<rx[q], leftover[q], toNode[q], fromNode[q], refused[q]>>,
           mempool[q] # {} => mempool'[q] = mempool[q],
           q \in todo' <=> q \in todo, q \in failed' <=> q \in failed,
           q \in accepted' <=> q \in accepted, q \in rejected' <=> q \in rejected
    PROVE  Stage(q)'
<1>1. Unsent(q)' <=> Unsent(q)
  BY DEF Unsent
<1>2. Has(q) => Has(q)'
  BY DEF Has
<1>3. \A code : True(q, code) => True(q, code)'
  BY <1>2 DEF True
<1>4. Pending(q) => Pending(q)'
  BY <1>1 DEF Pending
<1>5. Quiet(q) => Quiet(q)'
  BY DEF Quiet
<1>6. CASE Before(q) \/ NotSent(q)
  BY <1>1, <1>5, <1>6 DEF Before, NotSent, Stage
<1>7. CASE Travels(q)
  BY <1>3, <1>4, <1>7 DEF Travels, Stage
<1>8. CASE Taken(q) \/ Heard(q)
  BY <1>2, <1>3, <1>4, <1>5, <1>8 DEF Taken, Heard, Stage
<1>9. CASE Counts(q)
  BY <1>2, <1>3, <1>5, <1>9 DEF Counts, Stage
<1> QED BY <1>6, <1>7, <1>8, <1>9 DEF Stage

\* A peer without handlers of earlier broadcasts has no messages on their way.
LEMMA BeginStage ==
    ASSUME TypeOK, NEW q \in Peers, Fresh(q), Counted(q),
           NEW t \in Txs, Begin(t), pc' # "idle", q \in Sure'
    PROVE  Stage(q)'
<1>1. /\ pc = "idle" /\ pc' = "send" /\ tx' = t /\ outcome[t] = "none"
      /\ q \in todo' /\ rx'[q] = "waits" /\ leftover[q] = {}
  BY DEF Begin, Sure
<1>2. UNCHANGED <<deaf, leftover, toNode, fromNode, mempool, refused>>
  BY DEF Begin, links, nodes
<1>3. q \notin deaf /\ ~Unsent(q) /\ rx[q] # "waits"
  BY <1>1, <1>2 DEF Sure, Unsent, TypeOK
<1>4. Cardinality(leftover[q]) = 0
  BY <1>1, FS_EmptySet
<1>5. Quiet(q)
  <2>1. toNode[q] \in Seq(Txs) /\ fromNode[q] \in Seq(Reject)
    BY DEF TypeOK
  <2>2. Len(toNode[q]) \in Nat /\ Len(fromNode[q]) \in Nat
    BY <2>1
  <2>3. Len(toNode[q]) + Len(fromNode[q]) + 0 <= Cardinality(leftover[q]) + 0
    <3>1. (IF Unsent(q) THEN 1 ELSE 0) = 0 /\ (IF rx[q] = "waits" THEN 1 ELSE 0) = 0
      BY <1>3
    <3>2. Len(toNode[q]) + Len(fromNode[q]) + (IF Unsent(q) THEN 1 ELSE 0)
            <= Cardinality(leftover[q]) + (IF rx[q] = "waits" THEN 1 ELSE 0)
      BY <1>3 DEF Counted
    <3> QED BY <3>1, <3>2
  <2>4. Len(toNode[q]) = 0 /\ Len(fromNode[q]) = 0
    <3>1. Len(toNode[q]) + Len(fromNode[q]) + 0 <= 0 + 0
      BY <1>4, <2>3, Zenon
    <3>2. ASSUME NEW m \in Nat, NEW n \in Nat, m + n + 0 <= 0 + 0
          PROVE  m = 0 /\ n = 0
      BY <3>2
    <3> QED BY <2>2, <3>1, <3>2
  <2>5. toNode[q] = <<>>
    BY <2>1, <2>4, EmptySeq
  <2>6. fromNode[q] = <<>>
    BY <2>1, <2>4, EmptySeq
  <2> QED BY <2>5, <2>6 DEF Quiet
<1>6. t \notin refused[q]
  BY <1>1 DEF Fresh, Begun
<1>7. Before(q)'
  BY <1>1, <1>2, <1>5, <1>6 DEF Before, Unsent, Quiet
<1> QED BY <1>7 DEF Stage

LEMMA SendStage ==
    ASSUME TypeOK, Orderly, NEW q \in Sure, Stage(q), NEW p \in Peers,
           Sent(p) \/ SendFails(p)
    PROVE  Stage(q)'
<1>0. q \in Peers /\ q \notin deaf /\ q \in ready
  BY DEF Sure, TypeOK
<1>1. /\ UNCHANGED <<deaf, leftover, fromNode, rx, mempool, refused, tx, ready,
                     accepted, rejected, outcome, mixed, late>>
      /\ Same({p}) /\ pc = "send" /\ p \in todo
      /\ \/ pc' = "wait" /\ todo = {p} /\ todo' = ready \ failed'
         \/ pc' = "send" /\ todo # {p} /\ todo' = todo \ {p}
      /\ Sent(p) => failed' = failed
      /\ SendFails(p) => failed' = failed \cup {p} /\ toNode' = toNode
  BY SendStep
<1>2. \A code : True(q, code) <=> True(q, code)'
  BY <1>1 DEF True, Has
<1>3. accepted = {} /\ rejected = {} /\ failed \cap todo = {}
  BY <1>1 DEF Orderly
<1>4. CASE q = p
  <2>1. Before(q)
    BY <1>1, <1>3, <1>4 DEF Stage, NotSent, Travels, Taken, Heard, Pending, Counts, Unsent
  <2>2. ~Unsent(q)'
    BY <1>1, <1>4 DEF Unsent
  <2>3. CASE SendFails(p)
    BY <1>1, <1>3, <1>4, <2>1, <2>2, <2>3 DEF Before, NotSent, Quiet, Stage
  <2>4. CASE Sent(p)
    <3>1. toNode'[q] = <<tx>>
      <4>1. toNode'[q] = Append(toNode[q], tx)
        BY <1>0, <1>4, <2>4 DEF Sent, TypeOK
      <4> QED BY <2>1, <4>1 DEF Before, Quiet
    <3>2. Pending(q)'
      BY <1>0, <1>1, <1>3, <1>4, <2>2, <2>4 DEF Pending
    <3>3. Travels(q)'
      BY <1>1, <2>1, <3>1, <3>2 DEF Travels, Before, Quiet
    <3> QED BY <3>3 DEF Stage
  <2> QED BY <2>3, <2>4
<1>5. CASE q # p
  <2>1. /\ toNode'[q] = toNode[q]
        /\ q \in failed' <=> q \in failed
    BY <1>0, <1>1, <1>5 DEF Same
  <2>2. Unsent(q)' <=> Unsent(q)
    BY <1>1, <1>5 DEF Unsent
  <2>3. Pending(q) => Pending(q)'
    BY <1>0, <1>1, <2>1, <2>2 DEF Pending
  <2>4. CASE Before(q) \/ NotSent(q)
    BY <1>1, <2>1, <2>2, <2>4 DEF Before, NotSent, Quiet, Stage
  <2>5. CASE Travels(q)
    BY <1>1, <1>2, <2>1, <2>3, <2>5 DEF Travels, Stage
  <2>6. CASE Taken(q) \/ Heard(q)
    BY <1>1, <1>2, <2>1, <2>3, <2>6 DEF Taken, Heard, Has, Quiet, Stage
  <2>7. ~Counts(q)
    BY <1>1 DEF Counts
  <2> QED BY <2>4, <2>5, <2>6, <2>7 DEF Stage
<1> QED BY <1>4, <1>5

LEMMA AnsweredStage ==
    ASSUME TypeOK, Orderly, NEW q \in Sure, Stage(q), NEW p \in Peers, Answered(p)
    PROVE  Stage(q)'
<1>0. q \in Peers
  BY DEF Sure, TypeOK
<1>1. /\ pc = "wait" /\ p \in todo /\ rx[p] # "waits"
      /\ accepted' = IF rx[p] = "duplicate" THEN accepted \cup {p} ELSE accepted
      /\ rejected' = IF rx[p] = "refused" THEN rejected \cup {p} ELSE rejected
      /\ todo' = todo \ {p}
      /\ UNCHANGED <<pc, tx, rx, leftover, toNode, fromNode, refused, mempool, failed>>
  BY DEF Answered, Turn, links, nodes
<1>2. CASE q # p
  BY <1>0, <1>1, <1>2, StageStays
<1>3. CASE q = p
  <2>1. Heard(q)
    BY <1>1, <1>3 DEF Stage, Before, NotSent, Travels, Taken, Counts, Unsent
  <2>2. Counts(q)'
    BY <1>1, <1>3, <2>1 DEF Heard, Pending, Counts, Quiet, True, Has, Codes
  <2> QED BY <2>2 DEF Stage
<1> QED BY <1>2, <1>3

\* Silence is not late only from a peer that took the transaction.
LEMMA SilenceStage ==
    ASSUME TypeOK, Orderly, NEW q \in Sure, Stage(q), NEW p \in Peers, Silence(p),
           q \notin late'
    PROVE  Stage(q)'
<1>0. q \in Peers /\ q \notin deaf
  BY DEF Sure, TypeOK
<1>1. /\ pc = "wait" /\ p \in todo /\ rx[p] = "waits"
      /\ accepted' = accepted \cup {p} /\ todo' = todo \ {p}
      /\ late' = late \cup {r \in {p} \ deaf : OnItsWay(r)}
      /\ UNCHANGED <<pc, tx, toNode, fromNode, refused, mempool, failed, rejected>>
  BY DEF Silence, Turn, nodes
<1>2. CASE q # p
  <2>1. UNCHANGED <<rx[q], leftover[q]>>
    BY <1>0, <1>2 DEF Silence, TypeOK
  <2> QED BY <1>0, <1>1, <1>2, <2>1, StageStays
<1>3. CASE q = p
  <2>1. Travels(q) \/ Taken(q)
    BY <1>1, <1>3 DEF Stage, Before, NotSent, Heard, Counts, Unsent, Codes, Orderly
  <2>2. ~OnItsWay(q)
    BY <1>0, <1>1, <1>3
  <2>3. ~Travels(q)
    <3>1. toNode[q] # <<tx>>
      BY <2>2 DEF OnItsWay
    <3>2. ASSUME NEW code PROVE fromNode[q] # <<[tx |-> tx, code |-> code]>>
      BY <2>2 DEF OnItsWay
    <3> QED BY <3>1, <3>2 DEF Travels
  <2>4. rx'[q] = "none"
    BY <1>0, <1>3 DEF Silence, TypeOK
  <2>5. Counts(q)'
    BY <1>1, <1>3, <2>1, <2>3, <2>4 DEF Taken, Pending, Counts, Quiet, Has
  <2> QED BY <2>5 DEF Stage
<1> QED BY <1>2, <1>3
\* A reject that comes is the answer to what was sent, and goes to its receiver.
LEMMA HearsStage ==
    ASSUME TypeOK, NEW q \in Sure, Stage(q), Hears(q)
    PROVE  Stage(q)'
<1>0. q \in Peers
  BY DEF Sure, TypeOK
<1>1. /\ fromNode[q] # <<>> /\ fromNode'[q] = Tail(fromNode[q])
      /\ UNCHANGED <<pc, tx, todo, failed, accepted, rejected, toNode, refused, mempool>>
  BY <1>0 DEF Hears, TypeOK, nodes, call, answers
<1>2. Travels(q) /\ toNode[q] = <<>>
  BY <1>1 DEF Stage, Before, NotSent, Travels, Taken, Heard, Counts, Quiet
<1>3. PICK code \in Codes :
         fromNode[q] = <<[tx |-> tx, code |-> code]>> /\ True(q, code)
  BY <1>1, <1>2 DEF Travels
<1>4. fromNode'[q] = <<>> /\ Head(fromNode[q]).code = code
  BY <1>1, <1>3
<1>5. rx[q] = "waits" /\ leftover[q] = {}
  BY <1>2 DEF Travels
<1>6. rx' = [rx EXCEPT ![q] = Head(fromNode[q]).code] /\ UNCHANGED leftover
  BY <1>5 DEF Hears
<1>7. rx'[q] = code
  BY <1>0, <1>4, <1>6 DEF TypeOK
<1>8. Pending(q)' /\ True(q, code)'
  BY <1>1, <1>2, <1>3 DEF Travels, Pending, Unsent, True, Has
<1>9. Heard(q)'
  BY <1>1, <1>2, <1>4, <1>5, <1>6, <1>7, <1>8 DEF Heard, Quiet
<1> QED BY <1>9 DEF Stage

LEMMA NodeReadsStage ==
    ASSUME TypeOK, NEW q \in Sure, Stage(q), NodeReads(q)
    PROVE  Stage(q)'
<1>0. q \in Peers /\ q \notin deaf
  BY DEF Sure, TypeOK
<1>1. /\ toNode[q] # <<>> /\ toNode'[q] = Tail(toNode[q])
      /\ UNCHANGED <<pc, tx, todo, failed, accepted, rejected, rx, leftover>>
  BY <1>0 DEF NodeReads, TypeOK, call, answers
<1>2. Travels(q) /\ toNode[q] = <<tx>> /\ fromNode[q] = <<>> /\ tx \notin refused[q]
  BY <1>1 DEF Stage, Before, NotSent, Travels, Taken, Heard, Counts, Quiet
<1>3. toNode'[q] = <<>> /\ Head(toNode[q]) = tx
  BY <1>1, <1>2
<1>4. rx'[q] = "waits" /\ leftover'[q] = {} /\ Pending(q)'
  BY <1>1, <1>2 DEF Travels, Pending, Unsent
<1>5. \A code : Append(fromNode[q], [tx |-> tx, code |-> code]) = <<[tx |-> tx, code |-> code]>>
  BY <1>2
<1>t. /\ mempool \in [Peers -> SUBSET Txs] /\ refused \in [Peers -> SUBSET Txs]
      /\ fromNode \in [Peers -> Seq(Reject)]
  BY DEF TypeOK
<1>6. CASE mempool' = [mempool EXCEPT ![q] = {tx}] /\ UNCHANGED <<refused, fromNode>>
  <2>1. Taken(q)'
    BY <1>0, <1>t, <1>1, <1>2, <1>3, <1>4, <1>6 DEF Taken, Quiet, Has
  <2> QED BY <2>1 DEF Stage
<1>7. CASE tx \in mempool[q] /\ UNCHANGED <<mempool, refused, fromNode>>
  <2>1. Taken(q)'
    BY <1>1, <1>2, <1>3, <1>4, <1>7 DEF Taken, Quiet, Has
  <2> QED BY <2>1 DEF Stage
<1>8. CASE /\ tx \in mempool[q] /\ UNCHANGED <<mempool, refused>>
           /\ fromNode' = [fromNode EXCEPT ![q] = Append(@, [tx |-> tx, code |-> "duplicate"])]
  <2>1. fromNode'[q] = <<[tx |-> tx, code |-> "duplicate"]>>
    BY <1>0, <1>t, <1>5, <1>8
  <2>2. True(q, "duplicate")'
    BY <1>2, <1>8, <1>1 DEF True, Has
  <2>3. Travels(q)'
    BY <1>1, <1>3, <1>4, <2>1, <2>2 DEF Travels, Codes
  <2> QED BY <2>3 DEF Stage
<1>9. CASE /\ refused' = [refused EXCEPT ![q] = @ \cup {tx}]
           /\ fromNode' = [fromNode EXCEPT ![q] = Append(@, [tx |-> tx, code |-> "refused"])]
  <2>1. fromNode'[q] = <<[tx |-> tx, code |-> "refused"]>>
    BY <1>0, <1>t, <1>5, <1>9
  <2>2. True(q, "refused")'
    BY <1>0, <1>t, <1>1, <1>9 DEF True
  <2>3. Travels(q)'
    BY <1>1, <1>3, <1>4, <2>1, <2>2 DEF Travels, Codes
  <2> QED BY <2>3 DEF Stage
<1> QED BY <1>0, <1>3, <1>6, <1>7, <1>8, <1>9 DEF NodeReads, nodes

LEMMA StageStep ==
    ASSUME Inv, TypeOK', [Next]_vars, pc' # "idle", NEW q \in Sure'
    PROVE  Stage(q)'
<1>0. q \in Peers
  BY DEF Sure, TypeOK
<1> USE DEF Inv
<1>1. ASSUME NEW t \in Txs, Begin(t) PROVE Stage(q)'
  BY <1>0, <1>1, BeginStage
<1>2. ASSUME NEW p \in Peers, Sent(p) \/ SendFails(p) PROVE Stage(q)'
  <2>1. q \in Sure /\ pc # "idle"
    BY <1>2, SendStep DEF Sure
  <2> QED BY <1>2, <2>1, <1>0, SendStage
<1>3. ASSUME NEW p \in Peers, Answered(p) PROVE Stage(q)'
  <2>1. q \in Sure /\ pc # "idle"
    BY <1>3 DEF Answered, Sure, links, ghosts
  <2> QED BY <1>3, <2>1, <1>0, AnsweredStage
<1>4. ASSUME NEW p \in Peers, Silence(p) PROVE Stage(q)'
  <2>1. q \in Sure /\ q \notin late' /\ pc # "idle"
    BY <1>4 DEF Silence, Sure
  <2> QED BY <1>4, <2>1, <1>0, SilenceStage
<1>5. ASSUME NEW p \in Peers,
             Hears(p) \/ ListenerEnds(p) \/ Renewed(p) \/ NodeReads(p) \/ Relayed(p)
      PROVE  Stage(q)'
  <2>1. /\ UNCHANGED <<pc, tx, ready, todo, failed, accepted, rejected, mixed, late>>
        /\ mempool[q] # {} => mempool'[q] = mempool[q]
        /\ Same({p})
    BY <1>0, <1>5, CallStandsStill
  <2>2. q \notin deaf /\ ~Renewed(p)
    BY <1>5, <2>1 DEF Renewed, Sure, Hears, ListenerEnds, NodeReads, Relayed, links
  <2>3. q \in Sure /\ Stage(q)
    BY <1>0, <2>1, <2>2 DEF Sure
  <2>4. CASE q # p
    <3>1. UNCHANGED <<rx[q], leftover[q], toNode[q], fromNode[q], refused[q]>>
      BY <1>0, <2>1, <2>4 DEF Same
    <3> QED BY <1>0, <2>1, <2>3, <3>1, StageStays
  <2>5. CASE q = p /\ Relayed(p)
    <3>1. UNCHANGED <<rx[q], leftover[q], toNode[q], fromNode[q], refused[q]>>
      BY <2>5 DEF Relayed, links
    <3> QED BY <1>0, <2>1, <2>3, <3>1, StageStays
  <2>6. ~(q = p /\ ListenerEnds(p))
    BY <1>0 DEF ListenerEnds, Sure
  <2> QED BY <1>5, <2>2, <2>3, <2>4, <2>5, <2>6, HearsStage, NodeReadsStage
<1>6. CASE Finish
  BY <1>6 DEF Finish
<1>7. CASE UNCHANGED vars
  <2>1. q \in Sure /\ Stage(q)
    BY <1>7 DEF vars, links, call, answers, ghosts, Sure
  <2> QED BY <1>0, <1>7, <2>1, StageStays DEF vars, links, nodes, call, answers
<1> QED BY <1>1, <1>2, <1>3, <1>4, <1>5, <1>6, <1>7 DEF Next, Call

-----------------------------------------------------------------------------
LEMMA Initially == Init => Inv
<1> SUFFICES ASSUME Init PROVE Inv
  OBVIOUS
<1>1. TypeOK
  <2>1. \A S : <<>> \in Seq(S)
    BY EmptySeq
  <2> QED BY <2>1, BroadcastAssumption DEF Init, TypeOK, Codes
<1>2. Orderly
  BY DEF Init, Orderly
<1>3. \A p \in Peers : Fresh(p) /\ Counted(p)
  BY FS_EmptySet DEF Init, Fresh, Counted, Unsent
<1> QED BY <1>1, <1>2, <1>3 DEF Init, Inv

LEMMA InvStep == Inv /\ [Next]_vars => Inv'
<1> SUFFICES ASSUME Inv, [Next]_vars PROVE Inv'
  OBVIOUS
<1>1. TypeOK' /\ Orderly'
  BY TypeStep, OrderlyStep DEF Inv
<1>2. \A q \in Peers : Fresh(q)' /\ Counted(q)'
  BY <1>1, FreshStep, CountedStep DEF Inv
<1>3. pc' # "idle" => \A q \in Sure' : Stage(q)'
  BY <1>1, StageStep
<1> QED BY <1>1, <1>2, <1>3 DEF Inv

\* The state of a broadcast is well formed, and no receiver outlives its call.
THEOREM TypeCorrect == Spec => []TypeOK
<1>1. Inv => TypeOK
  BY DEF Inv
<1> QED BY <1>1, Initially, InvStep, PTL DEF Spec

\* When a broadcast returns (peer_manager.rs:1164), the peers counted as accepting have
\* the transaction and those counted as rejecting refused it, but for peers whose answer
\* cannot be told: without a listener, late, or with handlers of earlier broadcasts.
THEOREM AnswersAreTheirOwn == Spec => AnswersAreOwn
<1>1. ASSUME Inv, [Next]_vars, pc = "wait", pc' = "idle"
      PROVE  /\ \A p \in accepted \cap Sure : tx \in mempool[p]
             /\ rejected \cap Sure = {p \in Sure : tx \in refused[p]}
  <2>1. Finish
    BY <1>1, CallStandsStill, SendStep
       DEF Inv, Next, Call, Begin, Answered, Silence, vars, call
  <2>2. todo = {}
    BY <2>1 DEF Finish
  <2>3. ASSUME NEW p \in Sure
        PROVE  /\ p \in accepted => tx \in mempool[p]
               /\ p \in rejected <=> tx \in refused[p]
    <3>1. Counts(p) \/ NotSent(p)
      BY <1>1, <2>2 DEF Inv, Stage, Before, Travels, Taken, Heard, Pending, Unsent
    <3> QED BY <3>1 DEF Counts, NotSent, True, Has, Codes
  <2> QED BY <2>3
<1> QED BY <1>1, Initially, InvStep, PTL DEF Spec, AnswersAreOwn

-----------------------------------------------------------------------------
(* How long a broadcast can take.                                           *)

\* The peers still to be sent to and to be waited for, and the end.
CallWork ==
    CASE pc = "send" -> Cardinality(todo) + PeerCount + 1
      [] pc = "wait" -> Cardinality(todo) + 1
      [] OTHER -> 0

MaxWork == 2 * PeerCount + 1

\* There is always somebody to come to, or nothing left but to finish.
SomebodyIsNext ==
    /\ pc = "send" => \E p \in Peers : Turn(p)
    /\ pc = "wait" /\ todo # {} => \E p \in Peers : Turn(p)

LEMMA SomeAreFew ==
    ASSUME NEW S, S \subseteq Peers
    PROVE  IsFiniteSet(S) /\ Cardinality(S) \in 0 .. PeerCount
<1>1. PeerCount \in Nat /\ 1 \in Int
  BY BroadcastAssumption
<1>2. IsFiniteSet(Peers) /\ Cardinality(Peers) = PeerCount
  BY <1>1, FS_Interval DEF Peers
<1>3. /\ IsFiniteSet(S) /\ Cardinality(S) \in Nat
      /\ Cardinality(S) <= Cardinality(Peers)
  BY <1>2, FS_Subset, FS_CardinalityType
<1> QED BY <1>1, <1>2, <1>3

LEMMA FirstInTurn ==
    ASSUME NEW S, S \subseteq Peers, S # {}
    PROVE  \E p \in S : \A q \in S : p <= q
<1> DEFINE R == StrictSubsetOrdering(Peers)
           Below(p) == {q \in Peers : q < p}
           T == {Below(p) : p \in S}
<1>1. T \subseteq FiniteSubsetsOf(Peers)
  BY SomeAreFew, FS_FiniteSubsetsOfFinite
<1>2. T # {}
  OBVIOUS
<1>3. PICK x \in T : \A y \in T : ~(<<y, x>> \in R)
  BY <1>1, <1>2, SomeAreFew, FS_StrictSubsetOrderingWellFounded, WFMin
<1>4. PICK p \in S : x = Below(p)
  OBVIOUS
<1>5. \A q \in Peers : q \in Int
  BY BroadcastAssumption DEF Peers
<1>6. ASSUME NEW q \in S, ~(p <= q)
      PROVE  <<Below(q), x>> \in R
  BY <1>4, <1>5, <1>6 DEF StrictSubsetOrdering
<1> QED BY <1>3, <1>6

LEMMA OneLess ==
    ASSUME NEW S, S \subseteq Peers, NEW p \in S
    PROVE  Cardinality(S \ {p}) = Cardinality(S) - 1 /\ Cardinality(S) >= 1
<1>1. IsFiniteSet(S) /\ Cardinality(S) \in Nat
  BY SomeAreFew
<1>2. Cardinality(S \ {p}) = Cardinality(S) - 1
  BY <1>1, FS_RemoveElement
<1>3. Cardinality(S \ {p}) \in Nat
  BY SomeAreFew
<1> QED BY <1>1, <1>2, <1>3

\* Sending does not end before the last peer, so there is one to send to.
SendsToSome == pc = "send" => todo # {}

LEMMA SendsToSomeStep == TypeOK /\ SendsToSome /\ [Next]_vars => SendsToSome'
<1> SUFFICES ASSUME TypeOK, SendsToSome, [Next]_vars PROVE SendsToSome'
  OBVIOUS
<1>1. ASSUME NEW t \in Txs, Begin(t) PROVE SendsToSome'
  <2>1. \/ pc' = pc /\ pc = "idle"
        \/ ready' # {} /\ todo' = ready'
    BY <1>1, Zenon DEF Begin
  <2> QED BY <2>1 DEF SendsToSome
<1>2. ASSUME NEW p \in Peers, Sent(p) \/ SendFails(p) PROVE SendsToSome'
  BY <1>2, SendStep DEF SendsToSome
<1>3. ASSUME NEW p \in Peers, Answered(p) \/ Silence(p) PROVE SendsToSome'
  BY <1>3 DEF Answered, Silence, SendsToSome
<1>4. CASE Finish
  BY <1>4 DEF Finish, SendsToSome
<1>5. ASSUME UNCHANGED <<pc, todo>> PROVE SendsToSome'
  BY <1>5 DEF SendsToSome
<1>6. CASE UNCHANGED vars
  BY <1>5, <1>6 DEF vars, call
<1> QED BY <1>1, <1>2, <1>3, <1>4, <1>5, <1>6, CallStandsStill DEF Next, Call

LEMMA CallGoesOn ==
    ASSUME TypeOK, Orderly, Next, pc # "idle", UNCHANGED call \/ pc' # "idle"
    PROVE  UNCHANGED call \/ CallWork' < CallWork
<1>0. PeerCount \in Nat /\ Cardinality(todo) \in 0 .. PeerCount
  BY SomeAreFew, BroadcastAssumption DEF TypeOK
<1>1. ASSUME NEW p \in Peers, Sent(p) \/ SendFails(p) PROVE CallWork' < CallWork
  <2>1. /\ pc = "send" /\ p \in todo
        /\ \/ pc' = "wait" /\ todo' \subseteq Peers
           \/ pc' = "send" /\ todo' = todo \ {p}
    BY <1>1, SendStep DEF TypeOK
  <2>2. CASE pc' = "wait" /\ todo' \subseteq Peers
    <3>1. Cardinality(todo') \in 0 .. PeerCount /\ Cardinality(todo) >= 1
      BY <2>1, <2>2, SomeAreFew, OneLess DEF TypeOK
    <3> QED BY <1>0, <2>1, <2>2, <3>1 DEF CallWork
  <2>3. CASE pc' = "send" /\ todo' = todo \ {p}
    <3>1. Cardinality(todo') = Cardinality(todo) - 1
      BY <2>1, <2>3, OneLess DEF TypeOK
    <3> QED BY <1>0, <2>1, <2>3, <3>1 DEF CallWork
  <2> QED BY <2>1, <2>2, <2>3
<1>2. ASSUME NEW p \in Peers, Answered(p) \/ Silence(p) PROVE CallWork' < CallWork
  <2>1. pc = "wait" /\ pc' = "wait" /\ p \in todo /\ todo' = todo \ {p}
    BY <1>2 DEF Answered, Silence, Turn
  <2>2. Cardinality(todo') = Cardinality(todo) - 1
    BY <2>1, OneLess DEF TypeOK
  <2> QED BY <1>0, <2>1, <2>2 DEF CallWork
<1>3. ASSUME NEW p \in Peers,
             Hears(p) \/ ListenerEnds(p) \/ Renewed(p) \/ NodeReads(p) \/ Relayed(p)
      PROVE  UNCHANGED call
  BY <1>3 DEF Hears, ListenerEnds, Renewed, NodeReads, Relayed
<1>4. ~(\E t \in Txs : Begin(t))
  BY DEF Begin
<1>5. Finish => UNCHANGED call
  BY DEF Finish, call
<1> QED BY <1>1, <1>2, <1>3, <1>4, <1>5 DEF Next, Call

\* The waits of wait_for_broadcast_result come one after another and each ends, so a
\* broadcast makes at most MaxWork steps before it returns, whatever peers, nodes and
\* listeners do meanwhile, and it is never without a peer to come to.
THEOREM BroadcastIsBounded ==
    Spec => /\ [](SomebodyIsNext /\ (pc # "idle" => CallWork \in 1 .. MaxWork))
            /\ [][pc # "idle" /\ pc' # "idle" => CallWork' < CallWork]_call
<1>1. Init => SendsToSome
  BY DEF Init, SendsToSome
<1>2. Inv /\ SendsToSome => SomebodyIsNext
  <2>1. Inv /\ todo # {} => \E p \in Peers : Turn(p)
    BY FirstInTurn DEF Inv, TypeOK, Turn
  <2> QED BY <2>1 DEF SomebodyIsNext, SendsToSome
<1>3. Inv => (pc # "idle" => CallWork \in 1 .. MaxWork)
  <2>1. ASSUME Inv, pc # "idle" PROVE CallWork \in 1 .. MaxWork
    <3>1. PeerCount \in Nat /\ Cardinality(todo) \in 0 .. PeerCount /\ pc \in {"send", "wait"}
      BY <2>1, SomeAreFew, BroadcastAssumption DEF Inv, TypeOK
    <3> QED BY <3>1 DEF CallWork, MaxWork
  <2> QED BY <2>1
<1>4. ASSUME Inv, Next, ~UNCHANGED call, pc # "idle", pc' # "idle"
      PROVE  CallWork' < CallWork
  BY <1>4, CallGoesOn DEF Inv
<1>5. Inv /\ [Next]_vars => [pc # "idle" /\ pc' # "idle" => CallWork' < CallWork]_call
  BY <1>4 DEF vars
<1>6. Inv => TypeOK
  BY DEF Inv
<1> QED
  BY <1>1, <1>2, <1>3, <1>5, <1>6, Initially, InvStep, SendsToSomeStep, PTL DEF Spec
=============================================================================
