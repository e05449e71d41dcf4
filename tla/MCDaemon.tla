------------------------------- MODULE MCDaemon -------------------------------
(***************************************************************************)
(* An indexer with a service of each kind: kaspad, the metrics and the wRPC *)
(* server all answer a request to stop, and one stands for them.            *)
(***************************************************************************)
EXTENDS Daemon, MCSync

MCServices == <<"processor", "nexus", "wrpc", "http">>

\* A good node, one of another network, one too old and one that is not synced.
Good == [network |-> TRUE, api |-> TRUE, synced |-> TRUE, version |-> [core |-> <<1, 3, 0>>, toc |-> 5]]
MCServers == {Good, [Good EXCEPT !.network = FALSE], [Good EXCEPT !.version.toc = 4],
              [Good EXCEPT !.version = [core |-> <<1, 3, 1>>, toc |-> 1], !.synced = FALSE]}
=============================================================================
