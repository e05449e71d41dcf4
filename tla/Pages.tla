-------------------------------- MODULE Pages --------------------------------
(***************************************************************************)
(* A client that walks a paginated list of the API, page by page, while     *)
(* the list changes and while any of several indexers may answer each page. *)
(*                                                                         *)
(* A row is known by its key in the partition that is ranged over: a tx     *)
(* score (collections, deployments, operations), a token id (owners,       *)
(* holdings of a collection, listings) or the rank of a tick and token id  *)
(* (holdings and listings of an address).  Three kinds of list differ in    *)
(* how keys and offsets are related:                                       *)
(*   "keyed"    the offset of a row is its key;                            *)
(*   "history"  the partition is keyed by the reversed score, so the       *)
(*              iterators run the other way round;                         *)
(*   "listings" krc721_active_listings ranges over token ids and returns   *)
(*              the op score of a listing as its offset.                   *)
(* What the pages hold besides keys is abstracted away.                    *)
(***************************************************************************)
EXTENDS Naturals, FiniteSets

CONSTANTS
    Nodes,       \* the indexers that answer
    MaxKey,      \* keys are 0 .. MaxKey; u64::MAX in the code
    Lists,       \* the kinds of list that are walked
    OpScore,     \* the op score of the listing of a token id
    Hidden,      \* rows whose metadata has none of the accepted URI prefixes
    Requested,   \* the limits clients ask for
    MaxLimit,    \* MAX_ITERATOR_LIMIT, 50 in the code
    Contents,    \* what an index may hold when the walk starts
    None

Rows == 0 .. MaxKey
Directions == {"forward", "backward"}

ASSUME PagesAssumption ==
    /\ MaxKey \in Nat
    /\ MaxLimit \in Nat
    /\ Lists \subseteq {"keyed", "history", "listings"}
    /\ OpScore \in [Rows -> Nat]
    /\ Requested \subseteq Nat
    /\ Contents \subseteq SUBSET Rows
    /\ None \notin Nat

VARIABLES
    rows,    \* rows[n]: the rows of the list in the index of n
    stayed,  \* the rows every index has held since the walk began
    walk     \* the client: what it asks for next and what it was given

pagesVars == <<rows, stayed, walk>>

-----------------------------------------------------------------------------
(* One request                                                             *)

\* The key a row is stored under.
Stored(list, row) == IF list = "history" THEN MaxKey - row ELSE row

\* The rows of the range that a request asks for.
InRange(q, row) ==
    IF (q.dir = "forward") = (q.list # "history")
    THEN Stored(q.list, row) >= Stored(q.list, q.offset)
    ELSE Stored(q.list, row) <= Stored(q.list, q.offset)

\* The order in which the iterator, or its reverse, visits them.
Before(q, a, b) ==
    IF (q.dir = "forward") = (q.list # "history")
    THEN Stored(q.list, a) < Stored(q.list, b)
    ELSE Stored(q.list, a) > Stored(q.list, b)

\* Lists of collections and deployments skip those hidden by their metadata.
Shown(list, present) == IF list = "keyed" THEN present \ Hidden ELSE present

Found(q, present) == {r \in Shown(q.list, present) : InRange(q, r)}

\* iter.take(limit + 1)
Taken(q, found) ==
    {r \in found : Cardinality({s \in found : Before(q, s, r)}) < q.limit + 1}

\* collect_split_last_result
Last(q, taken) == CHOOSE r \in taken : \A s \in taken \ {r} : Before(q, s, r)

OffsetOf(list, row) == IF list = "listings" THEN OpScore[row] ELSE row

\* A slip: the offset is that of the last row of the page, not of the next one.
PageFromLast(q, present) ==
    LET taken == Taken(q, Found(q, present))
        last == Last(q, taken)
        data == taken \ {last}
    IN  IF taken = {} THEN [data |-> {}, next |-> None]
        ELSE IF Cardinality(data) < q.limit THEN [data |-> taken, next |-> None]
        ELSE [data |-> data, next |-> OffsetOf(q.list, Last(q, data))]

\* to_paginated: one row more than the limit is read, only to learn where the
\* next page begins.
Page(q, present) ==
    LET taken == Taken(q, Found(q, present))
        last == Last(q, taken)
    IN  IF taken = {} THEN [data |-> {}, next |-> None]
        ELSE IF Cardinality(taken \ {last}) < q.limit
             THEN [data |-> taken, next |-> None]
             ELSE [data |-> taken \ {last}, next |-> OffsetOf(q.list, last)]

-----------------------------------------------------------------------------
(* The walk                                                                *)

\* resolve_u64_iter_args: the offset and the limit of a first request.
FirstOffset(dir) == IF dir = "forward" THEN 0 ELSE MaxKey
Limit(requested) == IF requested < MaxLimit THEN requested ELSE MaxLimit

PagesInit ==
    /\ rows \in [Nodes -> Contents]
    /\ stayed = {r \in Rows : \A n \in Nodes : r \in rows[n]}
    /\ \E list \in Lists, dir \in Directions, requested \in Requested :
          walk = [list |-> list, dir |-> dir, limit |-> Limit(requested),
                  offset |-> FirstOffset(dir), seen |-> {}, twice |-> {}, done |-> FALSE]

\* The index of a node gains a row, or loses one to a reorganisation, a
\* transfer or a sale.
Gain(n, r) ==
    /\ r \notin rows[n]
    /\ rows' = [rows EXCEPT ![n] = @ \cup {r}]
    /\ UNCHANGED <<stayed, walk>>

Lose(n, r) ==
    /\ r \in rows[n]
    /\ rows' = [rows EXCEPT ![n] = @ \ {r}]
    /\ stayed' = stayed \ {r}
    /\ UNCHANGED walk

\* The client takes a page and asks for the next one from its offset, as
\* doc/PAGINATION.md tells it to.
Take(page) ==
    walk' = [walk EXCEPT !.seen = @ \cup page.data,
                         !.twice = @ \cup (walk.seen \cap page.data),
                         !.offset = IF page.next = None THEN @ ELSE page.next,
                         !.done = page.next = None]

Answer(n) ==
    /\ ~walk.done
    /\ Take(Page(walk, rows[n]))
    /\ UNCHANGED <<rows, stayed>>

PagesNext ==
    \E n \in Nodes :
       \/ Answer(n)
       \/ \E r \in Rows : Gain(n, r) \/ Lose(n, r)

PagesSpec == PagesInit /\ [][PagesNext]_pagesVars

-----------------------------------------------------------------------------

PagesTypeOK ==
    /\ rows \in [Nodes -> SUBSET Rows]
    /\ stayed \subseteq Rows
    /\ walk \in [list : Lists, dir : Directions, limit : Nat, offset : Nat,
                 seen : SUBSET Rows, twice : SUBSET Rows, done : BOOLEAN]

(***************************************************************************)
(* However the indexes change between the pages, and whichever of them      *)
(* answers: no row is given twice, and a finished walk has met every row    *)
(* that was there, in all of them, all the time.  This is what the          *)
(* `next_page_offset` of to_paginated is for.                              *)
(***************************************************************************)
EachOnce ==
    /\ walk.twice = {}
    /\ walk.done => Shown(walk.list, stayed) \subseteq walk.seen
=============================================================================
