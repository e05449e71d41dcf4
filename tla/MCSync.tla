------------------------------- MODULE MCSync -------------------------------
(***************************************************************************)
(* A pruning point g, a branch a1 - a2 - a3 and a branch b1 - b2.           *)
(***************************************************************************)
EXTENDS Sync

CONSTANTS g, a1, a2, a3, b1, b2

MCHashes == {g, a1, a2, a3, b1, b2}
MCBlue == [h \in MCHashes |->
              CASE h = g -> 1 [] h \in {a1, b1} -> 2 [] h \in {a2, b2} -> 3 [] h = a3 -> 4]
MCChain == [h \in MCHashes |->
              CASE h = g -> {} [] h = a1 -> {a1} [] h = a2 -> {a1, a2} [] h = a3 -> {a1, a2, a3}
                [] h = b1 -> {b1} [] h = b2 -> {b1, b2}]

\* The sink's blue score always grows.
Forward == {m \in MCHashes \X MCHashes : MCBlue[m[1]] < MCBlue[m[2]]}

\* First a1, then any of three blocks that is not on the chain the sink leaves: of a
\* greater, of the same (a1 and b1) or of a lower score (a2 and b1).
Rival == {<<g, a1>>} \cup
         {m \in (MCHashes \ {g}) \X {a1, b1, a2} : m[2] \notin MCChain[m[1]]}

\* The score grows, with three blocks as sinks.
Upward == {m \in Forward : m[2] \in {a1, b2, a3}}

\* One move, to the first block of a branch.
OneStep == {<<g, a1>>}
=============================================================================
