------------------------------ MODULE MCArchive ------------------------------
(***************************************************************************)
(* Two partitions and the notification queue, the receiver and one other   *)
(* client of the server.                                                   *)
(***************************************************************************)
EXTENDS Archive

CONSTANTS p1, p2, queue, receiver, other

MCPartitions == <<p1, queue, p2>>
MCSkipped == {queue}
MCRequesters == {receiver, other}
=============================================================================
