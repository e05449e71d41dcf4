------------------------------ MODULE MCCluster ------------------------------
(***************************************************************************)
(* Two indexers, the second one half as heavily weighed, a walker and one   *)
(* other client; a list of two rows, one to a page.                        *)
(***************************************************************************)
EXTENDS Cluster

MCOpScore == [r \in Rows |-> 0]
MCBias == [n \in Nodes |-> IF n = 1 THEN 2 ELSE 1]
MCContents == {Rows}
=============================================================================
