-------------------------------- MODULE IdPool --------------------------------
(***************************************************************************)
(* What the token id allocator promises, without ranges: a pool of ids.    *)
(* A draw takes any id out of the pool, a rollback puts the latest id back. *)
(* Draws come without repetition because a drawn id is no longer there.     *)
(***************************************************************************)
EXTENDS Naturals, Sequences

CONSTANT Tokens   \* the ids that can be drawn

VARIABLES free,   \* the ids in the pool
          drawn   \* the ids drawn, in the order of the draws

Init == free = Tokens /\ drawn = <<>>

Draw ==
    \E id \in free :
        /\ free' = free \ {id}
        /\ drawn' = Append(drawn, id)

Return ==
    /\ drawn # <<>>
    /\ free' = free \cup {drawn[Len(drawn)]}
    /\ drawn' = SubSeq(drawn, 1, Len(drawn) - 1)

Next == Draw \/ Return

Spec == Init /\ [][Next]_<<free, drawn>>
===============================================================================
