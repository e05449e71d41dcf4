----------------------------- MODULE TokenRanges -----------------------------
(***************************************************************************)
(* The token id allocator of one collection,                               *)
(* nexus/src/processor/token_id.rs.  The ids still free are kept as a list *)
(* of ranges <<start, size>>; a mint takes one id out of one range and     *)
(* stores, under that id, what the range was before (PreModRange), so that *)
(* a reorganisation can take the mint back.                                *)
(*                                                                         *)
(* An allocator is a record of the three partitions restricted to a tick:  *)
(*   len     range_lengths   (an absent entry reads as 0: unwrap_or(0))    *)
(*   ranges  available_ranges, index -> <<start, size>>                    *)
(*   meta    token_id_meta,    token id -> PreModRange                     *)
(***************************************************************************)
EXTENDS KV, Integers, Sequences

\* The allocator of a collection nobody has minted from.
NoRanges == [len |-> 0, ranges |-> NoEntries, meta |-> NoEntries]

PreModRange(idx, start, size, removed, split, initial) ==
    [range_index |-> idx, start |-> start, size |-> size,
     removed |-> removed, split |-> split, is_initial |-> initial]

\* The range had one id left: it goes, and the last range moves into its place.
RemoveRange(a, idx, value, start, size, initial) ==
    LET last == a.len - 1
    IN  [len    |-> last,
         ranges |-> IF idx < last
                    THEN Del(Put(a.ranges, idx, a.ranges[last]), last)
                    ELSE Del(a.ranges, idx),
         meta   |-> Put(a.meta, value,
                        PreModRange(idx, start, size, TRUE, FALSE, initial))]

\* A slip: the range keeps its start.
ShrinkRangeAtEnd(a, idx, start, size, value, fromStart, initial) ==
    [len    |-> a.len,
     ranges |-> Put(a.ranges, idx, <<start, size - 1>>),
     meta   |-> Put(a.meta, value,
                    PreModRange(idx, start, size, FALSE, FALSE, initial))]

\* A slip: the first mint is not marked as such.
ShrinkRangeUnmarked(a, idx, start, size, value, fromStart, initial) ==
    [len    |-> a.len,
     ranges |-> Put(a.ranges, idx,
                    IF fromStart THEN <<start + 1, size - 1>>
                                 ELSE <<start, size - 1>>),
     meta   |-> Put(a.meta, value,
                    PreModRange(idx, start, size, FALSE, FALSE, FALSE))]

\* The id is the first or the last of the range.
ShrinkRange(a, idx, start, size, value, fromStart, initial) ==
    [len    |-> a.len,
     ranges |-> Put(a.ranges, idx,
                    IF fromStart THEN <<start + 1, size - 1>>
                                 ELSE <<start, size - 1>>),
     meta   |-> Put(a.meta, value,
                    PreModRange(idx, start, size, FALSE, FALSE, initial))]

\* A slip: the right part starts at the drawn id.
SplitRangeOverlapping(a, idx, value, start, size, offset, initial) ==
    [len    |-> a.len + 1,
     ranges |-> Put(Put(a.ranges, idx, <<start, offset + 1>>),
                    a.len, <<value, size - offset - 1>>),
     meta   |-> Put(a.meta, value,
                    PreModRange(idx, start, size, FALSE, TRUE, initial))]

\* The id is inside the range: the left part stays, the right part is appended.
SplitRange(a, idx, value, start, size, offset, initial) ==
    [len    |-> a.len + 1,
     ranges |-> Put(Put(a.ranges, idx, <<start, offset>>),
                    a.len, <<value + 1, size - offset - 1>>),
     meta   |-> Put(a.meta, value,
                    PreModRange(idx, start, size, FALSE, TRUE, initial))]

\* The four cases at the end of generate_token_id.
TakeFromRange(a, idx, start, size, value, initial) ==
    LET offset == value - start
    IN  IF offset = 0
        THEN IF size = 1
             THEN RemoveRange(a, idx, value, start, size, initial)
             ELSE ShrinkRange(a, idx, start, size, value, TRUE, initial)
        ELSE IF offset = size - 1
             THEN ShrinkRange(a, idx, start, size, value, FALSE, initial)
             ELSE SplitRange(a, idx, value, start, size, offset, initial)

\* generate_token_id: the first mint works on the whole interval above the
\* premint, every later one on the range the entropy selects; the same entropy
\* then selects the id within the range.
GenerateTokenId(a, entropy, maxSupply, premint) ==
    LET initial == a.len = 0
        b       == IF initial THEN [a EXCEPT !.len = 1] ELSE a
        idx     == IF initial THEN 0 ELSE entropy % a.len
        range   == IF initial THEN <<1 + premint, maxSupply - premint>>
                              ELSE a.ranges[idx]
        value   == range[1] + (entropy % range[2])
    IN  [token |-> value,
         alloc |-> TakeFromRange(b, idx, range[1], range[2], value, initial)]

\* A slip: what sits at the index is overwritten.
RevertRemovedInPlace(a, pre) ==
    [len |-> a.len + 1, ranges |-> Put(a.ranges, pre.range_index, <<pre.start, pre.size>>),
     meta |-> a.meta]

\* revert_removed_range: what sits at the index moves back to the end.
RevertRemovedRange(a, pre) ==
    LET idx   == pre.range_index
        moved == IF idx < a.len THEN Put(a.ranges, a.len, a.ranges[idx]) ELSE a.ranges
    IN  [len |-> a.len + 1, ranges |-> Put(moved, idx, <<pre.start, pre.size>>),
         meta |-> a.meta]

\* restore_range_maybe_split: undo a shrink or a split.
RestoreRangeMaybeSplit(a, pre) ==
    LET restored == Put(a.ranges, pre.range_index, <<pre.start, pre.size>>)
    IN  IF pre.split
        THEN [a EXCEPT !.len = a.len - 1, !.ranges = Del(restored, a.len - 1)]
        ELSE [a EXCEPT !.ranges = restored]

\* The mint removed its range, or changed it.
UndoRangeChange(a, pre) ==
    IF pre.removed THEN RevertRemovedRange(a, pre) ELSE RestoreRangeMaybeSplit(a, pre)

\* A slip: the metadata of the mint stays.
UndoRangeOnly(a, token) == UndoRangeChange(a, a.meta[token])

\* rollback_token_generation up to the first mint: the range, then token_id_meta.
UndoMint(a, token) ==
    [UndoRangeChange(a, a.meta[token]) EXCEPT !.meta = Del(a.meta, token)]

\* rollback_token_generation: undo the mint of `token`, the latest one.
RollbackTokenGeneration(a, token) ==
    LET pre == a.meta[token]
        b   == UndoMint(a, token)
    IN  IF pre.is_initial
        THEN [len |-> b.len - 1, ranges |-> Del(b.ranges, pre.range_index), meta |-> b.meta]
        ELSE b
-----------------------------------------------------------------------------
(* What an allocator in order looks like, for a collection whose deployment    *)
(* minted the ids 1..premint out of 1..max.                                *)

\* The ids the allocator hands out.
Drawable(premint, max) == (premint + 1)..max

Start(a, i) == a.ranges[i][1]
Size(a, i) == a.ranges[i][2]

\* The ids of the i-th range.
Span(a, i) == Start(a, i)..(Start(a, i) + Size(a, i) - 1)

\* The token ids of a sequence of mints.
Ids(m) == {m[i] : i \in 1..Len(m)}

PreModRanges ==
    [range_index : Nat, start : Nat, size : Nat,
     removed : BOOLEAN, split : BOOLEAN, is_initial : BOOLEAN]

\* A range is stored for exactly the positions below range_lengths, and each
\* is a non-empty interval of drawable ids.
RangesOK(a, premint, max) ==
    /\ a.len \in Nat
    /\ DOMAIN a.ranges = 0..(a.len - 1)
    /\ \A i \in DOMAIN a.ranges :
          /\ a.ranges[i] \in Nat \X Nat
          /\ Start(a, i) > premint
          /\ Size(a, i) > 0
          /\ Start(a, i) + Size(a, i) - 1 <= max

\* The metadata of the mints in the sequence m, and of nothing else.
MetaOK(a, m) ==
    /\ DOMAIN a.meta = Ids(m)
    /\ \A t \in Ids(m) : a.meta[t] \in PreModRanges

DisjointRanges(a) ==
    \A i, j \in DOMAIN a.ranges : i # j => Span(a, i) \cap Span(a, j) = {}

\* Every drawable id is in m or in a range, and in one of the two only.
Partitioned(a, m, premint, max) ==
    \A t \in Drawable(premint, max) :
        t \in Ids(m) <=> \A i \in DOMAIN a.ranges : t \notin Span(a, i)
=============================================================================
