--------------------------------- MODULE Sync ---------------------------------
(***************************************************************************)
(* The syncer (nexus/src/syncer.rs) between three parties that run at      *)
(* their own pace: the Kaspa node whose selected chain it follows, the     *)
(* Nexus task that hands it notifications and disconnects, and the two     *)
(* ingest threads of the processor (htvccn_task and rtvccn_task) that      *)
(* write what it fetched.                                                  *)
(*                                                                         *)
(* The database is reduced to the chain blocks it has indexed, which is    *)
(* chain_block_scores of module Ledger.  A block is its hash; blocks at or *)
(* below the pruning point the index starts from are left out.             *)
(***************************************************************************)
EXTENDS Naturals, Sequences, FiniteSets

CONSTANTS Hashes,         \* blocks the node may select, the pruning point included
          Start,          \* the pruning point
          Blue,           \* hash -> blue score
          Chain,          \* hash -> the selected chain up to it, above the pruning point
          Moves,          \* <<old, new>>: changes of the node's sink, to any block above
                          \* the pruning point, be it of the same or of a lower score
          MaxMoves,       \* bound on the sink's changes
          MaxUpsets,      \* bound on lost connections and restarts of the indexer, together
          None            \* Option::None

ASSUME SyncAssumption ==
    /\ Start \in Hashes /\ Chain[Start] = {}
    /\ Blue \in [Hashes -> Nat] /\ Chain \in [Hashes -> SUBSET Hashes]
    /\ \A h \in Hashes \ {Start} : h \in Chain[h] /\ Blue[h] > Blue[Start]
    /\ \A h \in Hashes : \A c, d \in Chain[h] : Blue[c] = Blue[d] => c = d
    /\ \A h \in Hashes : \A c \in Chain[h] : Chain[c] = {x \in Chain[h] : Blue[x] <= Blue[c]}
    /\ Moves \subseteq Hashes \X (Hashes \ {Start})
    /\ MaxMoves \in Nat /\ MaxUpsets \in Nat
    /\ None \notin Hashes

VARIABLES
    sink,      \* the node's sink
    connected, \* the RPC connection is up and the listener registered
    dropped,   \* the Nexus task has yet to handle RpcState::Disconnected
    notices,   \* virtual-chain-changed notifications on the way to the Nexus task
    nexus,     \* where the Nexus task is in a handler of the syncer
    is_synced, last_known_block, target, resync_requested, sync_task_running,
    task,      \* where the sync task is
    seen,      \* its local `sink`
    reply,     \* its local response of get_historical_data, see Response
    leaving,   \* finished tasks about to look whether they must be respawned
    to_ht,     \* historical channel: requests to the historical thread
    to_rt,     \* realtime channel: "switch" or "apply"
    switch,    \* historical_switch channel, bounded(1): it holds a token
    ht,        \* where the historical thread is
    rt,        \* where the realtime thread is
    indexed,   \* the chain blocks in the database
    rewound,   \* a history variable: a batch with a forced rollback was processed
    moves, disconnects, restarts  \* bounds

nodeVars == <<sink, connected, dropped, notices, moves, disconnects>>
taskVars == <<task, seen, reply, leaving>>
threadVars == <<to_ht, to_rt, switch, ht, rt, indexed>>
flagVars == <<is_synced, last_known_block, target, resync_requested, sync_task_running>>
pastVars == <<restarts, rewound>>
vars == <<nodeVars, nexus, flagVars, taskVars, threadVars, pastVars>>

\* get_virtual_chain_from_block_v2 as the sync task keeps it.
Response == [removed : SUBSET Hashes, forced : BOOLEAN, added : SUBSET Hashes,
             last_added : Hashes \cup {None}, progress : {"Pending", "Reached", "Obsolete"}]
NoResponse == [removed |-> {}, forced |-> FALSE, added |-> {}, last_added |-> None,
               progress |-> "Pending"]

\* The block of a set of chain blocks with the highest blue score.
Highest(blocks) == CHOOSE h \in blocks : \A x \in blocks : Blue[x] <= Blue[h]

\* Where the syncer starts: the last accepted block, or the pruning point.
StartingPoint(blocks) == IF blocks = {} THEN Start ELSE Highest(blocks)

Init ==
    /\ sink = Start /\ connected = FALSE /\ dropped = FALSE /\ notices = 0 /\ nexus = "idle"
    /\ is_synced = FALSE /\ last_known_block = StartingPoint({}) /\ target = None
    /\ resync_requested = FALSE /\ sync_task_running = TRUE
    /\ task = "start" /\ seen = None /\ reply = NoResponse /\ leaving = 0
    /\ to_ht = <<>> /\ to_rt = <<>> /\ switch = FALSE
    /\ ht = "receive" /\ rt = "receive"
    /\ indexed = {}
    /\ moves = 0 /\ disconnects = 0 /\ restarts = 0 /\ rewound = FALSE
-----------------------------------------------------------------------------
(* The node (external) and the connection to it.                           *)

MoveSink(h) ==
    /\ moves < MaxMoves /\ <<sink, h>> \in Moves
    /\ sink' = h /\ moves' = moves + 1
    /\ notices' = IF connected THEN notices + 1 ELSE notices
    /\ UNCHANGED <<connected, dropped, disconnects, nexus, flagVars, taskVars, threadVars,
                   pastVars>>

\* RpcState::Connected: handle_connect registers the listener.
Connect ==
    /\ ~ connected /\ ~ dropped /\ nexus = "idle"
    /\ connected' = TRUE
    /\ UNCHANGED <<sink, dropped, notices, moves, disconnects, nexus, flagVars, taskVars,
                   threadVars, pastVars>>

\* The connection is lost: requests fail from now on.
Disconnect ==
    /\ connected /\ disconnects + restarts < MaxUpsets
    /\ connected' = FALSE /\ dropped' = TRUE /\ disconnects' = disconnects + 1
    /\ UNCHANGED <<sink, notices, moves, nexus, flagVars, taskVars, threadVars, pastVars>>
-----------------------------------------------------------------------------
(* The Nexus task in handle_virtual_chain_changed and disconnected.         *)

\* spawn_sync_task_impl: compare_exchange on sync_task_running.
SpawnSyncTask ==
    IF sync_task_running THEN UNCHANGED <<sync_task_running, task>>
    ELSE sync_task_running' = TRUE /\ task' = "start"

\* RpcState::Disconnected: handle_disconnect, which calls disconnected.
HandleDisconnect ==
    /\ nexus = "idle" /\ dropped
    /\ dropped' = FALSE /\ nexus' = "disconnected"
    /\ UNCHANGED <<sink, connected, notices, moves, disconnects, flagVars, taskVars, threadVars,
                   pastVars>>

\* handle_virtual_chain_changed reads is_synced ...
HandleChanged ==
    /\ nexus = "idle" /\ notices > 0
    /\ notices' = notices - 1
    /\ nexus' = IF is_synced THEN "changed" ELSE "request"
    /\ UNCHANGED <<sink, connected, dropped, moves, disconnects, flagVars, taskVars,
                   threadVars, pastVars>>

\* ... and only asks for a resync when it was not set,
RequestResync ==
    /\ nexus = "request"
    /\ resync_requested' = TRUE /\ nexus' = "idle"
    /\ UNCHANGED <<nodeVars, is_synced, last_known_block, target, sync_task_running,
                   taskVars, threadVars, pastVars>>

\* A slip: the realtime thread is not told.
SwitchUntold ==
    /\ nexus \in {"changed", "disconnected"}
    /\ nexus' = IF nexus = "changed" THEN "changed: unset" ELSE "disconnected: unset"
    /\ UNCHANGED <<nodeVars, flagVars, taskVars, threadVars, pastVars>>

\* or switches the realtime thread to queue mode first.  disconnected does so always.
SwitchToQueueMod ==
    /\ nexus \in {"changed", "disconnected"}
    /\ to_rt' = Append(to_rt, "switch")
    /\ nexus' = IF nexus = "changed" THEN "changed: unset" ELSE "disconnected: unset"
    /\ UNCHANGED <<nodeVars, flagVars, taskVars, to_ht, switch, ht, rt,
                   indexed, pastVars>>

UnsetSynced ==
    /\ nexus \in {"changed: unset", "disconnected: unset"}
    /\ is_synced' = FALSE
    /\ nexus' = IF nexus = "changed: unset" THEN "spawn" ELSE "disconnected: target"
    /\ UNCHANGED <<nodeVars, last_known_block, target, resync_requested, sync_task_running,
                   taskVars, threadVars, pastVars>>

\* disconnected leaves a sync in progress, one with a target, alone.
CheckTarget ==
    /\ nexus = "disconnected: target"
    /\ nexus' = IF target = None THEN "spawn" ELSE "idle"
    /\ UNCHANGED <<nodeVars, flagVars, taskVars, threadVars, pastVars>>

Spawn ==
    /\ nexus = "spawn"
    /\ SpawnSyncTask /\ nexus' = "idle"
    /\ UNCHANGED <<nodeVars, is_synced, last_known_block, target, resync_requested,
                   seen, reply, leaving, threadVars, pastVars>>

NexusTask ==
    \/ HandleDisconnect \/ HandleChanged \/ RequestResync \/ SwitchToQueueMod \/ UnsetSynced
    \/ CheckTarget \/ Spawn
-----------------------------------------------------------------------------
(* The sync task.  A request that fails is repeated, so it is modelled by   *)
(* waiting for the connection where nothing else happens meanwhile.         *)

TargetOr(fallback) == IF target = None THEN fallback ELSE target

\* The first get_sink.
GetSink ==
    /\ task = "start" /\ connected
    /\ seen' = sink /\ task' = "loop"
    /\ UNCHANGED <<nodeVars, nexus, flagVars, reply, leaving, threadVars, pastVars>>

\* The top of the loop: the last known block is the sink it was told of.
AtSink ==
    /\ task = "loop" /\ last_known_block = seen
    /\ task' = "mark"
    /\ UNCHANGED <<nodeVars, nexus, flagVars, seen, reply, leaving, threadVars, pastVars>>

\* classify_target_progress
Progress(added, lastAdded, goal) ==
    IF goal \in added THEN "Reached"
    ELSE IF lastAdded # None /\ Blue[lastAdded] >= Blue[goal] THEN "Obsolete"
    ELSE "Pending"

\* Whether the rollback of the last known block is forced: it is at or above the
\* sink, another block, and the node did not remove it.
Forced(from, removed) == Blue[from] >= Blue[seen] /\ from # seen /\ from \notin removed

\* get_historical_data: what leaves the chain and what joins it, up to some
\* block (the node may answer in parts).
GetHistoricalData(last) ==
    /\ task = "loop" /\ last_known_block # seen /\ connected
    /\ LET from    == last_known_block
           removed == Chain[from] \ Chain[sink]
           joining == Chain[sink] \ Chain[from]
           forced  == Forced(from, removed)
       IN  /\ IF joining = {} THEN last = sink ELSE last \in joining
           /\ reply' = [NoResponse EXCEPT !.removed = IF forced THEN removed \cup {from} ELSE removed,
                                          !.forced = forced,
                                          !.added = {h \in joining : Blue[h] <= Blue[last]}]
    /\ task' = "resolve"
    /\ UNCHANGED <<nodeVars, nexus, flagVars, seen, leaving, threadVars, pastVars>>

\* last_added_chain_block asks for the blue score of the last added block; when
\* that fails, as when nothing was added, there is none.  Without any change
\* the request is repeated.
ResolveLastAdded ==
    /\ task = "resolve"
    /\ LET lastAdded == IF reply.added # {} /\ connected THEN Highest(reply.added) ELSE None
           goal      == TargetOr(seen)
       IN  IF lastAdded = None /\ reply.removed = {}
           THEN task' = "loop" /\ UNCHANGED <<target, reply>>
           ELSE /\ target' = goal
                /\ reply' = [reply EXCEPT !.last_added = lastAdded,
                                          !.progress = Progress(reply.added, lastAdded, goal)]
                /\ task' = "reconstruct"
    /\ UNCHANGED <<nodeVars, nexus, is_synced, last_known_block, resync_requested,
                   sync_task_running, seen, leaving, threadVars, pastVars>>

\* reconstruct_and_process_acceptance_data asks for more blocks, and may fail.
Reconstruct ==
    /\ task = "reconstruct" /\ connected
    /\ to_ht' = Append(to_ht, "changes") /\ task' = "processing"
    /\ UNCHANGED <<nodeVars, nexus, flagVars, seen, reply, leaving, to_rt, switch, ht, rt,
                   indexed, pastVars>>

ReconstructFails ==
    /\ task = "reconstruct" /\ ~ connected
    /\ task' = "loop"
    /\ UNCHANGED <<nodeVars, nexus, flagVars, seen, reply, leaving, threadVars, pastVars>>

\* The processor has answered: the last known block moves on, to the last added
\* block or else to the last accepted one; if none is left it stays.
Advance ==
    /\ task = "advance"
    /\ LET stuck == reply.last_added = None /\ indexed = {}
       IN  /\ last_known_block' = IF reply.last_added # None THEN reply.last_added
                                  ELSE IF indexed # {} THEN Highest(indexed)
                                  ELSE last_known_block
           /\ task' = CASE stuck -> "loop"
                        [] ~ stuck /\ reply.progress = "Pending" -> "loop"
                        [] ~ stuck /\ reply.progress = "Reached" -> "mark"
                        [] ~ stuck /\ reply.progress = "Obsolete" -> "refresh"
    /\ UNCHANGED <<nodeVars, nexus, is_synced, target, resync_requested, sync_task_running,
                   seen, reply, leaving, threadVars, pastVars>>

\* refresh_sync_target_or
RefreshTarget ==
    /\ task = "refresh"
    /\ seen' = IF connected THEN sink ELSE seen
    /\ target' = seen' /\ task' = "loop"
    /\ UNCHANGED <<nodeVars, nexus, is_synced, last_known_block, resync_requested,
                   sync_task_running, reply, leaving, threadVars, pastVars>>

\* mark_synced_if_at_current_sink: get_sink, whose failure goes back to the loop,
MarkGetSink ==
    /\ task = "mark" /\ connected
    /\ reply' = [reply EXCEPT !.last_added = sink] /\ task' = "compare"
    /\ UNCHANGED <<nodeVars, nexus, flagVars, seen, leaving, threadVars, pastVars>>

MarkFails ==
    /\ task = "mark" /\ ~ connected
    /\ seen' = TargetOr(seen) /\ task' = "loop"
    /\ UNCHANGED <<nodeVars, nexus, flagVars, reply, leaving, threadVars, pastVars>>

\* A slip: the sink that moved does not become the target.
MarkCompareOldTarget ==
    /\ task = "compare"
    /\ resync_requested' = FALSE
    /\ LET latest == reply.last_added
       IN  IF last_known_block # latest
           THEN seen' = TargetOr(seen) /\ task' = "loop" /\ UNCHANGED to_ht
           ELSE to_ht' = Append(to_ht, "apply") /\ task' = "applying" /\ UNCHANGED seen
    /\ UNCHANGED <<nodeVars, nexus, is_synced, last_known_block, target, sync_task_running, reply,
                   leaving, to_rt, switch, ht, rt, indexed, pastVars>>

\* then the comparison: a sink that moved becomes the target, otherwise the
\* queue is applied.
MarkCompare ==
    /\ task = "compare"
    /\ resync_requested' = FALSE
    /\ LET latest == reply.last_added
       IN  IF last_known_block # latest
           THEN target' = latest /\ seen' = latest /\ task' = "loop" /\ UNCHANGED to_ht
           ELSE to_ht' = Append(to_ht, "apply") /\ task' = "applying" /\ UNCHANGED <<target, seen>>
    /\ UNCHANGED <<nodeVars, nexus, is_synced, last_known_block, sync_task_running, reply, leaving,
                   to_rt, switch, ht, rt, indexed, pastVars>>

MarkSynced ==
    /\ task = "finish"
    /\ is_synced' = TRUE /\ task' = "clear"
    /\ UNCHANGED <<nodeVars, nexus, last_known_block, target, resync_requested, sync_task_running,
                   seen, reply, leaving, threadVars, pastVars>>

ClearTarget ==
    /\ task = "clear"
    /\ target' = None /\ task' = "release"
    /\ UNCHANGED <<nodeVars, nexus, is_synced, last_known_block, resync_requested,
                   sync_task_running, seen, reply, leaving, threadVars, pastVars>>

\* A slip: the task ends without releasing its claim.
ReleaseKeepsClaim ==
    /\ task = "release"
    /\ task' = "none" /\ leaving' = leaving + 1
    /\ UNCHANGED <<nodeVars, nexus, flagVars, seen, reply, threadVars, pastVars>>

\* release_sync_task: the flag is cleared first, then is_synced is read.
Release ==
    /\ task = "release"
    /\ sync_task_running' = FALSE /\ task' = "none" /\ leaving' = leaving + 1
    /\ UNCHANGED <<nodeVars, nexus, is_synced, last_known_block, target, resync_requested,
                   seen, reply, threadVars, pastVars>>

Respawn ==
    /\ leaving > 0
    /\ leaving' = leaving - 1
    /\ IF is_synced THEN UNCHANGED <<sync_task_running, task>> ELSE SpawnSyncTask
    /\ UNCHANGED <<nodeVars, nexus, is_synced, last_known_block, target, resync_requested,
                   seen, reply, threadVars, pastVars>>

SyncTask ==
    \/ GetSink \/ AtSink \/ Reconstruct \/ ReconstructFails \/ Advance \/ RefreshTarget
    \/ ResolveLastAdded \/ \E last \in Hashes : GetHistoricalData(last)
    \/ MarkGetSink \/ MarkFails \/ MarkCompare \/ MarkSynced \/ ClearTarget \/ Release \/ Respawn
-----------------------------------------------------------------------------
(* The ingest threads of the processor.                                    *)

LastBlue(blocks) == IF blocks = {} THEN 0 ELSE Blue[Highest(blocks)]

\* A slip: the block at the lowest removed score is kept.
ProcessKeepsLowest(blocks, r) ==
    LET scores == {Blue[h] : h \in r.removed \cap blocks}
        kept   == {h \in blocks : \A s \in scores : Blue[h] <= s}
    IN  kept \cup {h \in r.added : Blue[h] >= LastBlue(kept)}

\* process_chain_changes on the chain: everything from the lowest removed score
\* on goes, then the added blocks that are not below the last accepted one come.
Process(blocks, r) ==
    LET scores == {Blue[h] : h \in r.removed \cap blocks}
                  \cup (IF r.forced THEN {Blue[last_known_block]} ELSE {})
        kept   == {h \in blocks : \A s \in scores : Blue[h] < s}
    IN  kept \cup {h \in r.added : Blue[h] >= LastBlue(kept)}

\* htvccn_task: a batch of chain changes is processed and answered.
HtChanges ==
    /\ ht = "receive" /\ to_ht # <<>> /\ Head(to_ht) = "changes"
    /\ to_ht' = Tail(to_ht)
    /\ indexed' = Process(indexed, reply)
    /\ task' = "advance"
    /\ rewound' = (rewound \/ reply.forced)
    /\ UNCHANGED <<nodeVars, nexus, flagVars, seen, reply, leaving, to_rt, switch, ht, rt,
                   restarts>>

\* The empty batch that ends a sync: the realtime thread is to apply its queue.
HtApply ==
    /\ ht = "receive" /\ to_ht # <<>> /\ Head(to_ht) = "apply"
    /\ to_ht' = Tail(to_ht) /\ to_rt' = Append(to_rt, "apply") /\ ht' = "apply"
    /\ UNCHANGED <<nodeVars, nexus, flagVars, taskVars, switch, rt,
                   indexed, pastVars>>

\* A slip: the thread does not wait for the switch.
HtAppliedNoWait ==
    /\ ht = "applied"
    /\ ht' = "receive" /\ task' = "finish"
    /\ UNCHANGED <<nodeVars, nexus, flagVars, seen, reply, leaving, to_ht, to_rt, switch, rt,
                   indexed, pastVars>>

\* Once it has, the sync task is answered, and the thread waits for the switch.
HtApplied ==
    /\ ht = "applied"
    /\ ht' = "wait" /\ task' = "finish"
    /\ UNCHANGED <<nodeVars, nexus, flagVars, seen, reply, leaving, to_ht, to_rt, switch, rt,
                   indexed, pastVars>>

HtSwitch ==
    /\ ht = "wait" /\ switch
    /\ switch' = FALSE /\ ht' = "receive"
    /\ UNCHANGED <<nodeVars, nexus, flagVars, taskVars, to_ht, to_rt, rt,
                   indexed, pastVars>>

\* rtvccn_task, ApplyQueue: nothing is queued, as the syncer sends no realtime
\* changes; the historical thread is answered.
RtApply ==
    /\ rt = "receive" /\ to_rt # <<>> /\ Head(to_rt) = "apply"
    /\ to_rt' = Tail(to_rt) /\ ht' = "applied"
    /\ UNCHANGED <<nodeVars, nexus, flagVars, taskVars, to_ht, switch, rt, indexed, pastVars>>

\* SwitchToQueue: the token is sent into a channel that holds one.
RtSwitch ==
    /\ rt = "receive" /\ to_rt # <<>> /\ Head(to_rt) = "switch"
    /\ to_rt' = Tail(to_rt) /\ rt' = "send"
    /\ UNCHANGED <<nodeVars, nexus, flagVars, taskVars, to_ht, switch, ht, indexed, pastVars>>

RtSend ==
    /\ rt = "send" /\ ~ switch
    /\ switch' = TRUE /\ rt' = "receive"
    /\ UNCHANGED <<nodeVars, nexus, flagVars, taskVars, to_ht, to_rt, ht,
                   indexed, pastVars>>

HistoricalThread == HtChanges \/ HtApply \/ HtApplied \/ HtSwitch
RealtimeThread == RtApply \/ RtSwitch \/ RtSend

\* The indexer stops at any point and starts again with what is committed.
Restart ==
    /\ disconnects + restarts < MaxUpsets
    /\ restarts' = restarts + 1
    /\ connected' = FALSE /\ dropped' = FALSE /\ notices' = 0 /\ nexus' = "idle"
    /\ is_synced' = FALSE /\ last_known_block' = StartingPoint(indexed) /\ target' = None
    /\ resync_requested' = FALSE /\ sync_task_running' = TRUE
    /\ task' = "start" /\ seen' = None /\ reply' = NoResponse /\ leaving' = 0
    /\ to_ht' = <<>> /\ to_rt' = <<>> /\ switch' = FALSE
    /\ ht' = "receive" /\ rt' = "receive"
    /\ UNCHANGED <<sink, moves, disconnects, indexed, rewound>>
-----------------------------------------------------------------------------
Next ==
    \/ \E h \in Hashes : MoveSink(h)
    \/ Connect \/ Disconnect \/ NexusTask \/ SyncTask \/ HistoricalThread \/ RealtimeThread
    \/ Restart

Spec == Init /\ [][Next]_vars

\* Tasks and threads are scheduled, requests to a connected node are answered,
\* and the client reconnects; the node, the network and restarts owe nothing.
Fairness ==
    /\ WF_vars(Connect) /\ WF_vars(NexusTask) /\ WF_vars(SyncTask)
    /\ WF_vars(HistoricalThread) /\ WF_vars(RealtimeThread)

FairSpec == Spec /\ Fairness
-----------------------------------------------------------------------------
TypeOK ==
    /\ sink \in Hashes /\ connected \in BOOLEAN /\ dropped \in BOOLEAN /\ notices \in 0..MaxMoves
    /\ rewound \in BOOLEAN /\ is_synced \in BOOLEAN /\ resync_requested \in BOOLEAN /\ sync_task_running \in BOOLEAN
    /\ last_known_block \in Hashes /\ target \in Hashes \cup {None} /\ seen \in Hashes \cup {None}
    /\ reply \in Response /\ leaving \in Nat /\ indexed \subseteq Hashes \ {Start}
    /\ task # "none" <=> sync_task_running

\* While no batch is in the hands of the processor, the database holds blocks of
\* the selected chain up to the last known block only: none of another branch is
\* left, also after a restart.  It holds them all, whatever the moves, the lost
\* connections and the restarts, until a batch with a forced rollback is processed.
\* Such a batch takes out a block that the node, having not removed it, does not send
\* again.  It comes about when the node is back on the chain of the last known block
\* after the sync task saw a sink of the same or of a lower score on another branch,
\* without a lost connection, or saw one below the last known block after one.
IndexedIsChain ==
    task \notin {"processing", "advance"} =>
        /\ indexed \subseteq Chain[last_known_block]
        /\ ~ rewound => indexed = Chain[last_known_block]

\* "System can recover from interruptions" (flow.md): nor is a block of that chain
\* missing after a forced rollback.
NoBlockMissing ==
    task \notin {"processing", "advance"} => Chain[last_known_block] \subseteq indexed

\* The realtime thread never waits for room in the switch channel while the
\* historical thread waits for it to apply the queue: each would wait for the
\* other, and the sync task for both.
NoHandshakeDeadlock == ~ (rt = "send" /\ switch /\ ht = "apply")

\* The node is back at the last known block while the sync task still heads for a
\* sink the node has left.  If that one has a greater score, the node has nothing to
\* send; if not, and the database holds the last known block only, the rollback is
\* forced and leaves it empty ("No accepted chain block remains").  Either way the
\* loop repeats the request until the node moves.
Astray == sink = last_known_block /\ seen \notin {None, sink}

\* A sync ends: whatever moves the node makes meanwhile, the loop of the sync
\* task does not chase stale targets for ever, unless the node leaves it astray.
SyncEnds == <>is_synced \/ <>[]Astray

\* A notification that finds the indexer synced and at rest, even behind the
\* node after an earlier one was missed, makes it catch up with a node that rests:
\* the last known block becomes the sink.
AtRest == is_synced /\ ~ sync_task_running /\ leaving = 0 /\ nexus = "idle"
NoticeServed == (AtRest /\ notices > 0 /\ moves = MaxMoves) ~> last_known_block = sink
=============================================================================
