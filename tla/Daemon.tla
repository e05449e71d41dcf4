-------------------------------- MODULE Daemon --------------------------------
(***************************************************************************)
(* The life of the krc721d process around the syncer: the runtime          *)
(* (core/src/runtime) starts the services in the order krc721d.rs binds    *)
(* them, stops them on the first SIGTERM and waits for all of them; the    *)
(* processor, the metrics, the Nexus task and the servers each have their  *)
(* own way to stop.  The Nexus task also negotiates its connections, and   *)
(* the ingest threads may end on an error.                                 *)
(*                                                                         *)
(* Module Sync is what runs meanwhile: its actions keep their meaning and  *)
(* gain the conditions under which a thread or a task still runs.          *)
(***************************************************************************)
EXTENDS Sync

\* The services in the order krc721d.rs binds them.
Bound == <<"kaspad", "metrics", "processor", "nexus", "wrpc", "http">>

CONSTANTS Services,     \* those that are configured, in that order
          Servers,      \* what a node may say of itself: its network and API fit, its
                        \* version, None when it does not parse, and it is synced
          MaxFaults     \* bound on lost connections, on connections the negotiation
                        \* refuses and on errors that end an ingest thread, together

ASSUME DaemonAssumption ==
    /\ \E on \in SUBSET (1..Len(Bound)) :
          Services = SelectSeq(Bound, LAMBDA s : \E i \in on : Bound[i] = s)
    /\ Servers \subseteq [network : BOOLEAN, api : BOOLEAN, synced : BOOLEAN,
                          version : {None} \cup [core : Nat \X Nat \X Nat, toc : {None} \cup Nat]]
    /\ MaxFaults \in Nat

VARIABLES
    phase,         \* of the runtime: starting, running, stopping, panicked or ended
    spawned,       \* how many services are spawned
    stopped,       \* how many are told to terminate
    answered,      \* services that have posted their answer to the request to stop
    token,         \* the processor's shutdown channel, bounded(1), holds a token
    sent,          \* tokens Processor::terminate has sent
    shutting_down, \* of the syncer
    started,       \* the syncer has been spawned
    closing,       \* the Nexus task has left its loop
    faults         \* bound

runtimeVars == <<phase, spawned, stopped>>
stopVars == <<answered, token, sent, shutting_down, closing>>
daemonVars == <<runtimeVars, stopVars, started, faults>>
allVars == <<vars, daemonVars>>

\* A service whose task or threads run, and one that has been told to terminate.
Runs(s) == phase # "ended" /\ \E i \in 1..spawned : Services[i] = s
Asked(s) == \E i \in 1..stopped : Services[i] = s

\* With a block in the database or a genesis in the configuration the syncer is
\* spawned before the runtime, otherwise by the first connection.
DaemonInit ==
    /\ Init
    /\ phase = "starting" /\ spawned = 0 /\ stopped = 0
    /\ answered = {} /\ token = FALSE /\ sent = 0 /\ shutting_down = FALSE /\ closing = FALSE
    /\ started \in BOOLEAN /\ faults = 0
-----------------------------------------------------------------------------
(* The runtime.                                                            *)

\* start_services
SpawnService ==
    /\ phase = "starting" /\ spawned < Len(Services)
    /\ spawned' = spawned + 1
    /\ phase' = IF spawned' = Len(Services) THEN "running" ELSE "starting"
    /\ UNCHANGED <<vars, stopped, stopVars, started, faults>>

\* A service whose spawn fails ends the start: those already active are stopped.
SpawnFails ==
    /\ phase = "starting" /\ spawned < Len(Services)
    /\ Services[spawned + 1] \in {"kaspad", "nexus", "wrpc"}
    /\ phase' = "stopping"
    /\ UNCHANGED <<vars, spawned, stopped, stopVars, started, faults>>

\* The HTTP server unwraps the result of its bind: the start panics and nothing is stopped.
HttpPanics ==
    /\ phase = "starting" /\ spawned < Len(Services) /\ Services[spawned + 1] = "http"
    /\ phase' = "panicked"
    /\ UNCHANGED <<vars, spawned, stopped, stopVars, started, faults>>

\* The first SIGTERM: Runtime::terminate, which is read once the services run.  The
\* second one exits at once and is left out, as any other end of the process: what
\* a start finds after it is module Sync's Restart.
Shutdown ==
    /\ phase = "running"
    /\ phase' = "stopping"
    /\ UNCHANGED <<vars, spawned, stopped, stopVars, started, faults>>

\* The service stop_services is at.
Stopping(s) == phase = "stopping" /\ stopped < spawned /\ Services[stopped + 1] = s

\* A slip: one token is enough for terminate to return.
SendTokenOnce ==
    /\ Stopping("processor") /\ sent = 0 /\ ~ token
    /\ token' = TRUE /\ sent' = 2
    /\ UNCHANGED <<vars, runtimeVars, answered, shutting_down, closing, started, faults>>

\* Processor::terminate sends a token for each ingest thread, and blocks while the
\* channel is full.
SendToken ==
    /\ Stopping("processor") /\ sent < 2 /\ ~ token
    /\ token' = TRUE /\ sent' = sent + 1
    /\ UNCHANGED <<vars, runtimeVars, answered, shutting_down, closing, started, faults>>

\* The other services are asked through a channel; Nexus shuts the syncer first.
Terminate ==
    /\ phase = "stopping" /\ stopped < spawned
    /\ LET s == Services[stopped + 1]
       IN  /\ s = "processor" => sent = 2
           /\ shutting_down' = (shutting_down \/ s = "nexus")
    /\ stopped' = stopped + 1
    /\ UNCHANGED <<vars, phase, spawned, answered, token, sent, closing, started, faults>>

\* What the join of a service waits for: the processor's for its two threads, the
\* HTTP server's for nothing.
Joined(s) ==
    CASE s = "processor" -> ht = "gone" /\ rt = "gone"
      [] s = "http" -> TRUE
      [] OTHER -> s \in answered

\* join_services, then main returns and drops the tokio runtime, which waits for a
\* worker that is in a synchronous call: the sync task in a recv of the processor's
\* answer.
Exit ==
    /\ \/ phase = "stopping" /\ stopped = spawned /\ \A i \in 1..spawned : Joined(Services[i])
       \/ phase = "panicked"
    /\ task \notin {"processing", "applying"}
    /\ phase' = "ended"
    /\ UNCHANGED <<vars, spawned, stopped, stopVars, started, faults>>

Run == SpawnService \/ SendToken \/ Terminate \/ Exit
-----------------------------------------------------------------------------
(* The tasks of the services.                                              *)

\* The tasks of kaspad (once its child has gone), of the metrics and of the wRPC
\* server answer the request to stop.
Answer(s) ==
    /\ s \in {"kaspad", "metrics", "wrpc"} /\ phase # "ended" /\ Asked(s) /\ s \notin answered
    /\ answered' = answered \cup {s}
    /\ UNCHANGED <<vars, runtimeVars, token, sent, shutting_down, closing, started, faults>>

MINIMUM_KASPAD_VERSION == [core |-> <<1, 3, 0>>, toc |-> 5]

\* Of two versions with the same core the one without toc is the newer.
is_supported_kaspad_version(v) ==
    LET min == MINIMUM_KASPAD_VERSION
    IN  /\ v # None
        /\ \/ \E i \in 1..3 :
                 /\ v.core[i] > min.core[i]
                 /\ \A j \in 1..(i - 1) : v.core[j] = min.core[j]
           \/ v.core = min.core /\ (v.toc = None \/ v.toc >= min.toc)

\* What init_state_from_server asks of a node.  It spawns the syncer if it never was,
\* whether the node is synced or not.
Compatible(info) == info.network /\ info.api /\ is_supported_kaspad_version(info.version)

\* handle_connect_impl accepts a synced node and registers the listener.
Negotiate ==
    /\ Runs("nexus") /\ ~ closing
    /\ \E info \in Servers : Compatible(info) /\ info.synced
    /\ Connect /\ started' = TRUE
    /\ UNCHANGED <<runtimeVars, stopVars, faults>>

\* Any other node is refused: handle_connect disconnects, sleeps and connects again.
Refuse ==
    /\ Runs("nexus") /\ ~ closing /\ ~ connected /\ ~ dropped /\ nexus = "idle"
    /\ faults < MaxFaults
    /\ faults' = faults + 1 /\ nexus' = "refused"
    /\ \E info \in Servers :
          ~ (Compatible(info) /\ info.synced) /\ started' = (started \/ Compatible(info))
    /\ UNCHANGED <<nodeVars, flagVars, taskVars, threadVars, pastVars, runtimeVars, stopVars>>

Reconnect ==
    /\ phase # "ended" /\ nexus = "refused"
    /\ nexus' = "idle"
    /\ UNCHANGED <<nodeVars, flagVars, taskVars, threadVars, pastVars, daemonVars>>

\* spawn_sync_task_impl returns at once when shutting down.
SpawnRefused ==
    /\ phase # "ended" /\ nexus = "spawn" /\ shutting_down
    /\ nexus' = "idle"
    /\ UNCHANGED <<nodeVars, flagVars, taskVars, threadVars, pastVars, daemonVars>>

NexusHandler ==
    /\ Runs("nexus")
    /\ \/ (HandleDisconnect \/ HandleChanged) /\ ~ closing
       \/ RequestResync \/ SwitchToQueueMod \/ UnsetSynced \/ CheckTarget
       \/ Spawn /\ ~ shutting_down
    /\ UNCHANGED daemonVars

\* The request to stop is taken when there is nothing else to handle: select_biased.
\* A connection that is up is handled as disconnected first.
LeaveLoop ==
    /\ Runs("nexus") /\ Asked("nexus") /\ ~ closing
    /\ nexus = "idle" /\ ~ dropped /\ notices = 0
    /\ closing' = TRUE /\ nexus' = IF connected THEN "unregister" ELSE "idle"
    /\ UNCHANGED <<nodeVars, flagVars, taskVars, threadVars, pastVars, runtimeVars, answered,
                   token, sent, shutting_down, started, faults>>

\* unregister_notification_listener, whose failure skips disconnected.
Unregister ==
    /\ phase # "ended" /\ nexus = "unregister"
    /\ nexus' = IF connected THEN "disconnected" ELSE "idle"
    /\ UNCHANGED <<nodeVars, flagVars, taskVars, threadVars, pastVars, daemonVars>>

NexusAnswers ==
    /\ phase # "ended" /\ closing /\ nexus = "idle" /\ "nexus" \notin answered
    /\ answered' = answered \cup {"nexus"}
    /\ UNCHANGED <<vars, runtimeVars, token, sent, shutting_down, closing, started, faults>>

NexusService ==
    \/ Negotiate \/ Reconnect \/ SpawnRefused \/ NexusHandler \/ LeaveLoop \/ Unregister
    \/ NexusAnswers

\* release_sync_task spawns nothing when shutting down.
ReleaseOnly ==
    /\ phase # "ended" /\ leaving > 0 /\ shutting_down
    /\ leaving' = leaving - 1
    /\ UNCHANGED <<nodeVars, nexus, flagVars, task, seen, reply, threadVars, pastVars, daemonVars>>

\* The loop of the sync task does not look at shutting_down.
Syncing ==
    \/ /\ phase # "ended" /\ started /\ SyncTask
       /\ ~ (leaving > leaving' /\ shutting_down)
       /\ UNCHANGED daemonVars
    \/ ReleaseOnly
-----------------------------------------------------------------------------
(* The ingest threads.  Shutdown comes first wherever they select.          *)

HtRuns ==
    /\ Runs("processor") /\ HistoricalThread
    /\ ht \in {"receive", "wait"} => ~ token
    /\ UNCHANGED daemonVars

RtRuns ==
    /\ Runs("processor") /\ RealtimeThread
    /\ rt = "receive" => ~ token
    /\ UNCHANGED daemonVars

HtStops ==
    /\ phase # "ended" /\ ht \in {"receive", "wait"} /\ token
    /\ token' = FALSE /\ ht' = "gone"
    /\ UNCHANGED <<nodeVars, nexus, flagVars, taskVars, to_ht, to_rt, switch, rt, indexed,
                   pastVars, runtimeVars, answered, sent, shutting_down, started, closing,
                   faults>>

RtStops ==
    /\ phase # "ended" /\ rt = "receive" /\ token
    /\ token' = FALSE /\ rt' = "gone"
    /\ UNCHANGED <<nodeVars, nexus, flagVars, taskVars, to_ht, to_rt, switch, ht, indexed,
                   pastVars, runtimeVars, answered, sent, shutting_down, started, closing,
                   faults>>

\* An error while processing is answered, and ends the thread; the sync task goes on.
HtFails ==
    /\ Runs("processor") /\ faults < MaxFaults
    /\ ht = "receive" /\ ~ token /\ to_ht # <<>>
    /\ faults' = faults + 1 /\ ht' = "gone"
    /\ to_ht' = Tail(to_ht) /\ task' = "loop"
    /\ seen' = IF Head(to_ht) = "apply" THEN TargetOr(seen) ELSE seen
    /\ UNCHANGED <<nodeVars, nexus, flagVars, reply, leaving, to_rt, switch, rt, indexed,
                   pastVars, runtimeVars, stopVars, started>>

\* An error of the queue's application comes after the answer.
RtFails ==
    /\ Runs("processor") /\ faults < MaxFaults
    /\ rt = "receive" /\ ~ token /\ to_rt # <<>> /\ Head(to_rt) = "apply"
    /\ faults' = faults + 1 /\ rt' = "gone"
    /\ to_rt' = Tail(to_rt) /\ ht' = "applied"
    /\ UNCHANGED <<nodeVars, nexus, flagVars, taskVars, to_ht, switch, indexed, pastVars,
                   runtimeVars, stopVars, started>>

HtThread == HtRuns \/ HtStops
RtThread == RtRuns \/ RtStops

\* The node; without a listener it sends no notices.
Node ==
    /\ phase # "ended" /\ ~ (connected /\ closing)
    /\ \E h \in Hashes : MoveSink(h)
    /\ UNCHANGED daemonVars

LoseConnection ==
    /\ phase # "ended" /\ faults < MaxFaults
    /\ Disconnect /\ faults' = faults + 1
    /\ UNCHANGED <<runtimeVars, stopVars, started>>
-----------------------------------------------------------------------------
DaemonNext ==
    \/ Run \/ Shutdown \/ SpawnFails \/ HttpPanics
    \/ \E i \in 1..Len(Services) : Answer(Services[i])
    \/ NexusService \/ Refuse \/ Syncing \/ HtThread \/ RtThread \/ HtFails \/ RtFails
    \/ Node \/ LoseConnection

DaemonSpec == DaemonInit /\ [][DaemonNext]_allVars

\* Every task and thread is scheduled; errors, refusals and signals owe nothing.
DaemonFairness ==
    /\ WF_allVars(Run) /\ WF_allVars(NexusService) /\ WF_allVars(Syncing)
    /\ WF_allVars(HtThread) /\ WF_allVars(RtThread)
    /\ \A i \in 1..Len(Services) : WF_allVars(Answer(Services[i]))

FairDaemon == DaemonSpec /\ DaemonFairness
-----------------------------------------------------------------------------
\* A SIGTERM that finds the indexer synced and at rest, with nothing from the node
\* on its way and no error to come, ends the process, whether a connection was lost,
\* a node refused or the realtime thread ended before.
Quiet ==
    /\ AtRest /\ started /\ ~ dropped /\ notices = 0
    /\ moves = MaxMoves /\ faults = MaxFaults
StopsAtRest == (phase = "stopping" /\ stopped = 0 /\ Quiet) ~> phase = "ended"
=============================================================================
