------------------------------- MODULE Cluster -------------------------------
(***************************************************************************)
(* The cluster front end: one connection task for each configured indexer,  *)
(* the choice of a connection for every request, the runtime that stops     *)
(* the tasks, and clients whose requests it forwards.  One client walks the *)
(* pages of a list (module Pages); the others look up single rows, which    *)
(* only matters for the number of sessions.                                *)
(*                                                                         *)
(* Node numbers are positions in the cluster configuration.                *)
(***************************************************************************)
EXTENDS Pages, Sequences

CONSTANTS
    Foreign,      \* nodes that serve another network
    Bias,         \* the bias of a node, in halves
    Others,       \* clients that look up single rows
    Walker,       \* the client that walks
    MaxChanges,   \* bound on changes of the indexes
    MaxUpsets,    \* bound on lost links, remote states and cancelled requests
    MaxRefusals   \* bound on status requests that fail while the link is up

Clients == Others \cup {Walker}

ASSUME ClusterAssumption ==
    /\ Nodes \subseteq Nat
    /\ Foreign \subseteq Nodes
    /\ Bias \in [Nodes -> Nat]
    /\ Walker \notin Others /\ IsFiniteSet(Others)
    /\ None \notin Nodes
    /\ {MaxChanges, MaxUpsets, MaxRefusals} \subseteq Nat

VARIABLES
    up,         \* the transport to the node is established
    ready,      \* the remote indexer says that node and index are synced
    ctl,        \* connect and disconnect events not handled yet
    connected,  \* is_connected
    available,  \* is_available
    sessions,   \* requests that hold a ConnRef
    task,       \* the connection task: "runs", "asked" to stop or "ended"
    call,       \* the node whose answer a client's request awaits, or None
    lost,       \* clients whose request will not be answered
    runtime,    \* "running", "stopping" or "stopped"
    changes, upsets, refusals

connVars == <<ctl, connected, available>>
callVars == <<sessions, call, lost>>
bounds == <<changes, upsets, refusals>>
vars == <<pagesVars, up, ready, connVars, task, callVars, runtime, bounds>>

Init ==
    /\ PagesInit
    /\ up = [n \in Nodes |-> FALSE]
    /\ ready = [n \in Nodes |-> TRUE]
    /\ ctl = [n \in Nodes |-> <<>>]
    /\ connected = [n \in Nodes |-> FALSE]
    /\ available = [n \in Nodes |-> FALSE]
    /\ sessions = [n \in Nodes |-> 0]
    /\ task = [n \in Nodes |-> "runs"]
    /\ call = [c \in Clients |-> None]
    /\ lost = {}
    /\ runtime = "running"
    /\ changes = 0 /\ upsets = 0 /\ refusals = 0

-----------------------------------------------------------------------------
(* The indexers and the links to them                                      *)

\* The index of a node moves on.
Change(n) ==
    /\ changes < MaxChanges
    /\ changes' = changes + 1
    /\ \E r \in Rows : Gain(n, r) \/ Lose(n, r)
    /\ UNCHANGED <<up, ready, connVars, task, callVars, runtime, upsets, refusals>>

\* Its node or its index falls out of sync, or is in sync again.
RemoteState(n) ==
    /\ ready[n] => upsets < MaxUpsets
    /\ upsets' = IF ready[n] THEN upsets + 1 ELSE upsets
    /\ ready' = [ready EXCEPT ![n] = ~@]
    /\ UNCHANGED <<pagesVars, up, connVars, task, callVars, runtime, changes, refusals>>

\* The RPC client (re)connects by itself and tells the task.
LinkUp(n) ==
    /\ ~up[n] /\ task[n] # "ended"
    /\ up' = [up EXCEPT ![n] = TRUE]
    /\ ctl' = [ctl EXCEPT ![n] = Append(@, "connect")]
    /\ UNCHANGED <<pagesVars, ready, connected, available, task, callVars, runtime, bounds>>

LinkDown(n) ==
    /\ up[n] /\ upsets < MaxUpsets
    /\ upsets' = upsets + 1
    /\ up' = [up EXCEPT ![n] = FALSE]
    /\ ctl' = [ctl EXCEPT ![n] = Append(@, "disconnect")]
    /\ lost' = lost \cup {c \in Clients : call[c] = n}
    /\ UNCHANGED <<pagesVars, ready, connected, available, task, sessions, call,
                   runtime, changes, refusals>>

-----------------------------------------------------------------------------
(* The connection task                                                     *)

HasEvent(n) == task[n] # "ended" /\ ctl[n] # <<>>
Handled(n) == ctl' = [ctl EXCEPT ![n] = Tail(@)]

\* The node answers get_status and is of our network.
Connect(n) ==
    /\ HasEvent(n) /\ Head(ctl[n]) = "connect" /\ Handled(n)
    /\ ~connected[n] /\ up[n] /\ n \notin Foreign
    /\ connected' = [connected EXCEPT ![n] = TRUE]
    /\ available' = [available EXCEPT ![n] = ready[n]]
    /\ UNCHANGED <<pagesVars, up, ready, task, callVars, runtime, bounds>>

\* It does not answer, answers with an error or is of another network.
ConnectFails(n) ==
    /\ HasEvent(n) /\ Head(ctl[n]) = "connect" /\ Handled(n)
    /\ ~connected[n]
    /\ IF up[n] /\ n \notin Foreign
       THEN refusals < MaxRefusals /\ refusals' = refusals + 1
       ELSE UNCHANGED refusals
    /\ UNCHANGED <<pagesVars, up, ready, connected, available, task, callVars, runtime,
                   changes, upsets>>

\* "Connection to indexer is already established"
ConnectAgain(n) ==
    /\ HasEvent(n) /\ Head(ctl[n]) = "connect" /\ Handled(n)
    /\ connected[n]
    /\ UNCHANGED <<pagesVars, up, ready, connected, available, task, callVars, runtime, bounds>>

\* A slip: is_available survives the connection.
DisconnectKeepsAvailable(n) ==
    /\ HasEvent(n) /\ Head(ctl[n]) = "disconnect" /\ Handled(n)
    /\ connected' = [connected EXCEPT ![n] = FALSE]
    /\ UNCHANGED <<pagesVars, up, ready, available, task, callVars, runtime, bounds>>

\* Only a connection that was announced is taken down.
Disconnect(n) ==
    /\ HasEvent(n) /\ Head(ctl[n]) = "disconnect" /\ Handled(n)
    /\ connected' = [connected EXCEPT ![n] = FALSE]
    /\ available' = [available EXCEPT ![n] = ~connected[n] /\ @]
    /\ UNCHANGED <<pagesVars, up, ready, task, callVars, runtime, bounds>>

\* Every few seconds, when no event waits: the answer is stored whatever the
\* state of the connection, an error is ignored.
Poll(n) ==
    /\ task[n] # "ended" /\ ctl[n] = <<>>
    /\ up[n]
    /\ available' = [available EXCEPT ![n] = ready[n]]
    /\ UNCHANGED <<pagesVars, up, ready, ctl, connected, task, callVars, runtime, bounds>>

\* The loop ends; a connection that was announced is closed.
EndTask(n) ==
    /\ task[n] = "asked" /\ ctl[n] = <<>>
    /\ task' = [task EXCEPT ![n] = "ended"]
    /\ up' = [up EXCEPT ![n] = @ /\ ~connected[n]]
    /\ lost' = IF connected[n] THEN lost \cup {c \in Clients : call[c] = n} ELSE lost
    /\ connected' = [connected EXCEPT ![n] = FALSE]
    /\ available' = [available EXCEPT ![n] = ~connected[n] /\ @]
    /\ UNCHANGED <<pagesVars, ready, ctl, sessions, call, runtime, bounds>>

ConnectionTask(n) ==
    \/ Connect(n) \/ ConnectFails(n) \/ ConnectAgain(n)
    \/ Disconnect(n) \/ Poll(n) \/ EndTask(n)

-----------------------------------------------------------------------------
(* Requests                                                                *)

\* floor(sessions * bias)
Load(n) == (sessions[n] * Bias[n]) \div 2

\* Of the available connections the least loaded, the first of equals.
Preferred(n) ==
    /\ available[n]
    /\ \A m \in Nodes : available[m] =>
          Load(n) < Load(m) \/ (Load(n) = Load(m) /\ n <= m)

Acquire(n) == sessions' = [sessions EXCEPT ![n] = @ + 1]

\* Cluster::select; without an available connection the request fails with
\* ServiceNotAvailable and nothing changes.
Select(c) ==
    /\ call[c] = None
    /\ c = Walker => ~walk.done
    /\ \E n \in Nodes :
          /\ Preferred(n)
          /\ Acquire(n)
          /\ call' = [call EXCEPT ![c] = n]
          /\ lost' = IF up[n] THEN lost ELSE lost \cup {c}
    /\ UNCHANGED <<pagesVars, up, ready, connVars, task, runtime, bounds>>

\* A slip: a request that is dropped keeps its session.
ReleaseOnAnswer(c) ==
    /\ sessions' = IF c \in lost THEN sessions
                   ELSE [sessions EXCEPT ![call[c]] = @ - 1]
    /\ call' = [call EXCEPT ![c] = None]
    /\ lost' = lost \ {c}

\* A slip: the handler releases the connection, and so does Drop.
ReleaseTwice(c) ==
    /\ sessions' = [sessions EXCEPT ![call[c]] = @ - 2]
    /\ call' = [call EXCEPT ![c] = None]
    /\ lost' = lost \ {c}

\* Drop for ConnRef
Release(c) ==
    /\ sessions' = [sessions EXCEPT ![call[c]] = @ - 1]
    /\ call' = [call EXCEPT ![c] = None]
    /\ lost' = lost \ {c}

\* A slip: a page that fails counts as an empty one.
FailedSkips(c) ==
    /\ call[c] # None /\ c \in lost
    /\ IF c = Walker
       THEN Take([data |-> {}, next |-> None]) /\ UNCHANGED <<rows, stayed>>
       ELSE UNCHANGED pagesVars
    /\ Release(c)
    /\ UNCHANGED <<up, ready, connVars, task, runtime, bounds>>

\* The call fails with the link; the client asks for the same page again.
Failed(c) ==
    /\ call[c] # None /\ c \in lost
    /\ Release(c)
    /\ UNCHANGED <<pagesVars, up, ready, connVars, task, runtime, bounds>>

Answered(c) ==
    /\ call[c] # None /\ c \notin lost
    /\ IF c = Walker THEN Answer(call[c]) ELSE UNCHANGED pagesVars
    /\ Release(c)
    /\ UNCHANGED <<up, ready, connVars, task, runtime, bounds>>

\* The HTTP server's TimeoutLayer drops the request, and the ConnRef with it.
Cancelled(c) ==
    /\ call[c] # None
    /\ upsets < MaxUpsets /\ upsets' = upsets + 1
    /\ Release(c)
    /\ UNCHANGED <<pagesVars, up, ready, connVars, task, runtime, changes, refusals>>

Request(c) == Select(c) \/ Answered(c) \/ Failed(c) \/ Cancelled(c)

-----------------------------------------------------------------------------
(* The runtime                                                             *)

\* A slip: only connections that are up are told.
TerminateConnected ==
    /\ runtime = "running"
    /\ runtime' = "stopping"
    /\ task' = [n \in Nodes |-> IF connected[n] THEN "asked" ELSE task[n]]
    /\ UNCHANGED <<pagesVars, up, ready, connVars, callVars, bounds>>

\* The first interrupt: stop_services tells every task.
Terminate ==
    /\ runtime = "running"
    /\ runtime' = "stopping"
    /\ task' = [n \in Nodes |-> "asked"]
    /\ UNCHANGED <<pagesVars, up, ready, connVars, callVars, bounds>>

\* join_services awaits the response of every task.  The HTTP server's join
\* returns at once, so requests may be cut off.
Join ==
    /\ runtime = "stopping"
    /\ \A n \in Nodes : task[n] = "ended"
    /\ runtime' = "stopped"
    /\ UNCHANGED <<pagesVars, up, ready, connVars, task, callVars, bounds>>

\* After run() has returned the process ends.
Alive == runtime # "stopped"

Next ==
    /\ Alive
    /\ \/ \E n \in Nodes :
             \/ Change(n) \/ RemoteState(n) \/ LinkUp(n) \/ LinkDown(n)
             \/ ConnectionTask(n)
       \/ \E c \in Clients : Request(c)
       \/ Terminate \/ Join

Spec == Init /\ [][Next]_vars

\* The tasks and the runtime are scheduled, the walker asks again and its request
\* ends.  Nothing else has to happen: a lost link may stay lost.
Fairness ==
    /\ \A n \in Nodes : WF_vars(Alive /\ ConnectionTask(n))
    /\ WF_vars(Alive /\ Select(Walker))
    /\ WF_vars(Alive /\ (Answered(Walker) \/ Failed(Walker)))
    /\ WF_vars(Join)

FairSpec == Spec /\ Fairness

-----------------------------------------------------------------------------

TypeOK ==
    /\ PagesTypeOK
    /\ up \in [Nodes -> BOOLEAN] /\ ready \in [Nodes -> BOOLEAN]
    /\ ctl \in [Nodes -> Seq({"connect", "disconnect"})]
    /\ connected \in [Nodes -> BOOLEAN] /\ available \in [Nodes -> BOOLEAN]
    /\ sessions \in [Nodes -> Nat]
    /\ task \in [Nodes -> {"runs", "asked", "ended"}]
    /\ call \in [Clients -> Nodes \cup {None}]
    /\ lost \subseteq Clients
    /\ runtime \in {"running", "stopping", "stopped"}

(***************************************************************************)
(* A connection's sessions are the requests that hold it: a request that    *)
(* fails, is cancelled or is answered late gives its session back once, or *)
(* the balance of Cluster::select would drift.                             *)
(***************************************************************************)
SessionsCounted ==
    \A n \in Nodes : sessions[n] = Cardinality({c \in Clients : call[c] = n})

(***************************************************************************)
(* The cluster only forwards: what its clients see is what module Pages     *)
(* allows, some indexer answering each page from its index at that moment. *)
(***************************************************************************)
Forwards == PagesSpec

\* Available without having been announced: get_status failed when the link came
\* up, and the poll stored an answer all the same.
Unannounced(n) == up[n] /\ ctl[n] = <<>> /\ ~connected[n] /\ available[n]

(***************************************************************************)
(* If some indexer stays reachable and in sync, a walk comes to its end,    *)
(* whatever the others do: a connection that is down or out of sync is not *)
(* preferred to it for ever.  Except one that is ever unannounced: its     *)
(* disconnect is ignored, so it stays available, and may stay preferred,   *)
(* while it is down.                                                       *)
(***************************************************************************)
WalkEnds ==
    (\E n \in Nodes : <>[](up[n] /\ ready[n])) /\ [](\A n \in Nodes : ~ Unannounced(n))
        => <>(walk.done \/ runtime # "running")

(***************************************************************************)
(* An interrupt stops the cluster: every task ends, whatever waits in its   *)
(* channels, and the runtime joins it.                                     *)
(***************************************************************************)
ShutdownEnds == (runtime = "stopping") ~> (runtime = "stopped")
=============================================================================
