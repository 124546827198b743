----------------------------- MODULE SyncGuards -----------------------------
(***************************************************************************)
(* Who may work on the wallet: syncs, sends and repairs over the flags of  *)
(* SyncGuards (zipherx-core/src/sync.rs) and the mutex of the peer manager *)
(* (async_wallet.rs), with syncs and repairs aborted at any await.         *)
(*                                                                         *)
(* Flags are atomics that any thread may read or write between two steps   *)
(* of another; the mutex is tokio's, handed over in order of arrival.      *)
(*                                                                         *)
(* The sync itself is WitnessTree's and NoteLedger's business: here it is  *)
(* one state, "busy", and so is a send; a repair is in the set repairing.  *)
(*                                                                         *)
(* The names of this module are apart from those of PeerPool, the other    *)
(* part of the peer manager, so that one module can extend both.           *)
(***************************************************************************)
EXTENDS Naturals, Sequences

CONSTANTS
    Syncs,         \* tasks that call sync
    Backgrounds,   \* those of them that ask can_background_sync first
    Sends,         \* tasks that call send
    Repairs,       \* threads that call repair_database or full_rescan
    NoTask         \* "nobody holds the mutex"

ASSUME TasksAssumption ==
    /\ Backgrounds \subseteq Syncs
    /\ Syncs \cap Sends = {} /\ Syncs \cap Repairs = {} /\ Sends \cap Repairs = {}
    /\ NoTask \notin Syncs \cup Sends

Tasks == Syncs \cup Sends

\* start_sync repairs between two syncs of its own.
Repairers == Repairs \cup (Syncs \ Backgrounds)

VARIABLES
    holder,          \* who has the mutex of the peer manager
    line,            \* who waits for it, first come first
    at,              \* where each task is
    repairing,       \* who is in a repair
    isSyncing,       \* the flags of SyncGuards
    isBroadcasting,
    isRepairing

guardVars == <<holder, line, at, repairing, isSyncing, isBroadcasting, isRepairing>>
flags == <<isSyncing, isBroadcasting, isRepairing>>
mutex == <<holder, line>>

GuardsTypeOK ==
    /\ holder \in Tasks \cup {NoTask}
    /\ line \in Seq(Tasks)
    /\ at \in [Tasks -> {"idle", "waiting", "entered", "checked", "busy", "leaving"}]
    /\ repairing \subseteq Repairers
    /\ isSyncing \in BOOLEAN
    /\ isBroadcasting \in BOOLEAN
    /\ isRepairing \in BOOLEAN
    /\ \A t \in Tasks : at[t] \notin {"idle", "waiting"} => holder = t

GuardsInit ==
    /\ holder = NoTask /\ line = <<>>
    /\ at = [t \in Tasks |-> "idle"] /\ repairing = {}
    /\ isSyncing = FALSE /\ isBroadcasting = FALSE /\ isRepairing = FALSE

GoTo(t, where) == at' = [at EXCEPT ![t] = where]

-----------------------------------------------------------------------------
(* The mutex of the peer manager.                                           *)

\* Variant: the flags alone keep tasks apart.
HoldsOrNot(t) == TRUE

Holds(t) == holder = t

Call(t) ==
    /\ at[t] = "idle" /\ t \notin repairing
    /\ GoTo(t, "waiting")
    /\ line' = Append(line, t)
    /\ UNCHANGED <<holder, repairing, flags>>

Grant ==
    /\ holder = NoTask /\ line # <<>>
    /\ holder' = Head(line) /\ line' = Tail(line)
    /\ UNCHANGED <<at, repairing, flags>>

\* The task lets go of the mutex on its way out, whatever the outcome.
Leave(t) ==
    /\ at[t] = "leaving"
    /\ GoTo(t, "idle")
    /\ holder' = IF Holds(t) THEN NoTask ELSE holder
    /\ UNCHANGED <<line, repairing, flags>>

-----------------------------------------------------------------------------
(* sync_to_tip, and background_sync, which calls it.                        *)

\* can_background_sync; nothing sets the flags for gap filling, scanning and
\* rebuilding witnesses.
CanBackgroundSync == ~isSyncing /\ ~isRepairing /\ ~isBroadcasting

SkipBackgroundSync(s) ==
    /\ s \in Backgrounds /\ Holds(s) /\ at[s] = "waiting"
    /\ ~CanBackgroundSync
    /\ GoTo(s, "leaving")
    /\ UNCHANGED <<mutex, repairing, flags>>

AskBackgroundSync(s) ==
    /\ s \in Backgrounds /\ Holds(s) /\ at[s] = "waiting"
    /\ CanBackgroundSync
    /\ GoTo(s, "checked")
    /\ UNCHANGED <<mutex, repairing, flags>>

MaySync(s) == Holds(s) /\ at[s] = IF s \in Backgrounds THEN "checked" ELSE "waiting"

\* The compare-and-exchange of try_acquire_sync.
AcquireSync(s) ==
    /\ MaySync(s)
    /\ GoTo(s, IF isSyncing THEN "leaving" ELSE "entered")
    /\ isSyncing' = TRUE
    /\ UNCHANGED <<mutex, repairing, isBroadcasting, isRepairing>>

CheckBroadcasting(s) ==
    /\ at[s] = "entered"
    /\ IF isBroadcasting
       THEN GoTo(s, "leaving") /\ isSyncing' = FALSE
       ELSE GoTo(s, "busy") /\ UNCHANGED isSyncing
    /\ UNCHANGED <<mutex, repairing, isBroadcasting, isRepairing>>

\* Variant: the mutex goes before the flag.
EndSyncLate(s) ==
    /\ at[s] = "busy"
    /\ IF Holds(s) THEN holder' = NoTask /\ UNCHANGED <<at, isSyncing>>
       ELSE GoTo(s, "leaving") /\ isSyncing' = FALSE /\ UNCHANGED holder
    /\ UNCHANGED <<line, repairing, isBroadcasting, isRepairing>>

\* The sync returns, with its result or an error: SyncDropGuard.
EndSync(s) ==
    /\ at[s] = "busy"
    /\ GoTo(s, "leaving")
    /\ isSyncing' = FALSE
    /\ UNCHANGED <<mutex, repairing, isBroadcasting, isRepairing>>

\* Variant: an aborted task keeps its place in the line.
LineKeeping(i) == line

LineWithout(i) == SubSeq(line, 1, i - 1) \o SubSeq(line, i + 1, Len(line))

\* Variant: the flag is only cleared on the ordinary way out.
AbortKeepingFlag(s) ==
    /\ at[s] = "busy" /\ GoTo(s, "leaving")
    /\ UNCHANGED <<mutex, repairing, flags>>

\* stop_sync, stop_background_sync or a new start_sync: the task is dropped
\* where it awaits, with the guards it has. It awaits the mutex, the first
\* lookups and everything in the body, but nothing between the flags. In a
\* repair of its own it is DropRepair.
Abort(s) ==
    /\ \/ /\ at[s] = "waiting"
          /\ \E i \in DOMAIN line : line[i] = s /\ line' = LineWithout(i)
          /\ GoTo(s, "idle") /\ UNCHANGED isSyncing
       \/ /\ at[s] = "waiting" /\ Holds(s)
          /\ GoTo(s, "leaving") /\ UNCHANGED <<line, isSyncing>>
       \/ /\ at[s] = "busy"
          /\ GoTo(s, "leaving") /\ isSyncing' = FALSE /\ UNCHANGED line
    /\ UNCHANGED <<holder, repairing, isBroadcasting, isRepairing>>

-----------------------------------------------------------------------------
(* send_transaction and send_transparent_transaction.                       *)

CheckFlags(w) ==
    /\ Holds(w) /\ at[w] = "waiting"
    /\ GoTo(w, IF isSyncing \/ isRepairing \/ isBroadcasting THEN "leaving"
               ELSE "checked")
    /\ UNCHANGED <<mutex, repairing, flags>>

\* The compare-and-exchange of BroadcastGuard::new.
BeginBroadcasting(w) ==
    /\ at[w] = "checked"
    /\ GoTo(w, IF isBroadcasting THEN "leaving" ELSE "busy")
    /\ isBroadcasting' = TRUE
    /\ UNCHANGED <<mutex, repairing, isSyncing, isRepairing>>

EndSend(w) ==
    /\ at[w] = "busy"
    /\ GoTo(w, "leaving")
    /\ isBroadcasting' = FALSE
    /\ UNCHANGED <<mutex, repairing, isSyncing, isRepairing>>

-----------------------------------------------------------------------------
(* repair_database and full_rescan: neither asks for the mutex, and neither *)
(* has a guard that takes the flag down.                                    *)

BeginRepair(r) ==
    /\ r \notin repairing /\ ~isRepairing
    /\ r \in Syncs => at[r] = "idle"
    /\ repairing' = repairing \cup {r}
    /\ isRepairing' = TRUE
    /\ UNCHANGED <<mutex, at, isSyncing, isBroadcasting>>

EndRepair(r) ==
    /\ r \in repairing
    /\ repairing' = repairing \ {r}
    /\ isRepairing' = FALSE
    /\ UNCHANGED <<mutex, at, isSyncing, isBroadcasting>>

\* The closure cannot be joined, and the error is returned before the flag is
\* taken down; or the repair is start_sync's own and aborted with its task.
DropRepair(r) ==
    /\ r \in repairing
    /\ repairing' = repairing \ {r}
    /\ UNCHANGED <<mutex, at, flags>>

-----------------------------------------------------------------------------
Sync(s) ==
    \/ SkipBackgroundSync(s) \/ AskBackgroundSync(s)
    \/ AcquireSync(s) \/ CheckBroadcasting(s) \/ EndSync(s)

Send(w) == CheckFlags(w) \/ BeginBroadcasting(w) \/ EndSend(w)

GuardsNext ==
    \/ Grant
    \/ \E t \in Tasks : Call(t) \/ Leave(t)
    \/ \E s \in Syncs : Sync(s) \/ Abort(s)
    \/ \E w \in Sends : Send(w)
    \/ \E r \in Repairers : BeginRepair(r) \/ EndRepair(r) \/ DropRepair(r)

GuardsSpec == GuardsInit /\ [][GuardsNext]_guardVars

\* Tasks that run go on: every wait on the network in a sync or a send has a
\* timeout. Calls, aborts and repairs need not come.
Fairness ==
    /\ WF_guardVars(Grant)
    /\ \A t \in Tasks : WF_guardVars(Leave(t))
    /\ \A s \in Syncs : WF_guardVars(Sync(s))
    /\ \A w \in Sends : WF_guardVars(Send(w))

FairGuardsSpec == GuardsSpec /\ Fairness

-----------------------------------------------------------------------------
(* Properties.                                                              *)

Working(t) == at[t] \in {"entered", "busy"}

\* At most one sync or send is past its guards, whatever repairs and aborts do
\* to the flags in between: the flags alone would let a sync and a send in
\* together, each having looked before the other set its own. Repairs exclude
\* only each other.
OneAtATime ==
    /\ \A t, u \in Tasks : Working(t) /\ Working(u) => t = u
    /\ \A q, r \in repairing : q = r

\* The flags of syncs and sends are up exactly while one is at work: no abort or
\* early return leaves one behind that would lock the wallet. A repair at work
\* has its flag up; but the flag may be up without one, for ever, since a repair
\* that is dropped leaves it behind and nothing else takes it down.
FlagsAreHeld ==
    /\ isSyncing <=> \E s \in Syncs : Working(s)
    /\ isBroadcasting <=> \E w \in Sends : Working(w)
    /\ repairing # {} => isRepairing

\* The one who holds the mutex finds the other flags down: a call made during a
\* sync or a send waits for its end, and SyncInProgress,
\* BroadcastingInProgress and "Another broadcast is already in progress" are
\* never what it gets.
NobodyIsTurnedAway ==
    \A t \in Tasks :
        Holds(t) /\ at[t] \in {"waiting", "checked"} => ~isSyncing /\ ~isBroadcasting

\* Every call returns, in spite of tasks that are aborted in the line.
CallsReturn == \A t \in Tasks : at[t] = "waiting" ~> at[t] = "idle"
=============================================================================
