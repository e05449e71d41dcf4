------------------------------- MODULE MCPages -------------------------------
(* Pages of listings, whose offsets are op scores: later than any token id. *)
EXTENDS Pages

MCOpScore == [r \in Rows |-> MaxKey + 1 + (MaxKey - r)]
MCContents == SUBSET Rows
=============================================================================
