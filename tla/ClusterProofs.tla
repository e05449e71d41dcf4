----------------------------- MODULE ClusterProofs ----------------------------
(***************************************************************************)
(* Proofs about paging and the cluster front end.  A walk of the pages      *)
(* neither repeats nor skips, for any number of indexers, keys, rows and    *)
(* limits, as long as the offset of a row is its key.  For any number of    *)
(* indexers and clients and any bounds the cluster counts its sessions      *)
(* right, and what clients see of it is what module Pages allows, so the    *)
(* theorem about pages holds through the cluster as well.                   *)
(***************************************************************************)
EXTENDS Cluster, FiniteSetTheorems, WellFoundedInduction, TLAPS

-----------------------------------------------------------------------------
(* Paging.                                                                 *)

\* The lists whose offsets are their keys.
OffsetsAreKeys == Lists \subseteq {"keyed", "history"}

\* The rows the walk has still to meet.
Ahead(q, r) == IF q.dir = "forward" THEN r >= q.offset ELSE r <= q.offset

\* What holds between two pages: nothing the client was given lies ahead, and what
\* has stayed and was not given does, in every index.
WalkInv ==
    /\ rows \in [Nodes -> SUBSET Rows]
    /\ stayed \subseteq Rows /\ \A n \in Nodes : stayed \subseteq rows[n]
    /\ walk \in [list : {"keyed", "history"}, dir : Directions, limit : Nat, offset : Rows,
                 seen : SUBSET Rows, twice : {{}}, done : BOOLEAN]
    /\ ~ walk.done => \A r \in walk.seen : ~ Ahead(walk, r)
    /\ \A r \in Shown(walk.list, stayed) : r \in walk.seen \/ (~ walk.done /\ Ahead(walk, r))
-----------------------------------------------------------------------------
(* One page.                                                               *)

\* A non-empty set of rows has a least and a greatest element.
LEMMA LeastRow ==
    ASSUME NEW S \in SUBSET Rows, S # {}
    PROVE  \E x \in S : \A y \in S : x <= y
<1>1. S \subseteq Nat
  BY PagesAssumption DEF Rows
<1>2. PICK x \in S : \A y \in S : ~ (<<y, x>> \in OpToRel(<, Nat))
  BY <1>1, NatLessThanWellFounded, WFMin
<1>3. \A u, v \in Nat : <<v, u>> \in OpToRel(<, Nat) <=> v < u
  BY DEF OpToRel
<1>4. \A y \in S : ~ (y < x)
  BY <1>1, <1>2, <1>3
<1>5. \A y \in S : x <= y
  BY <1>1, <1>4
<1>6. QED BY <1>5

LEMMA GreatestRow ==
    ASSUME NEW S \in SUBSET Rows, S # {}
    PROVE  \E x \in S : \A y \in S : y <= x
<1> DEFINE T == {MaxKey - y : y \in S}
<1>1. S \subseteq 0 .. MaxKey /\ MaxKey \in Nat
  BY PagesAssumption DEF Rows
<1>2. T \in SUBSET Rows /\ T # {}
  <2>1. \A y \in 0 .. MaxKey : MaxKey - y \in 0 .. MaxKey
    BY <1>1
  <2>2. \A y \in S : MaxKey - y \in Rows
    BY <1>1, <2>1 DEF Rows
  <2>3. QED BY <2>2
<1>3. PICK m \in T : \A t \in T : m <= t
  BY <1>2, LeastRow
<1>4. PICK x \in S : m = MaxKey - x
  BY <1>3
<1>5. \A y \in S : MaxKey - x <= MaxKey - y
  BY <1>3, <1>4
<1>6. \A y \in S : y <= x
  BY <1>1, <1>5
<1>7. QED BY <1>6

\* With keys as offsets, both kinds of list are ranged over by row: history
\* turns the keys and the iterator.
LEMMA Directed ==
    ASSUME NEW q, q.list \in {"keyed", "history"}, q.dir \in Directions, q.offset \in Rows
    PROVE  /\ \A r \in Rows : InRange(q, r) <=> Ahead(q, r)
           /\ \A a, b \in Rows : Before(q, a, b) <=> IF q.dir = "forward" THEN a < b ELSE b < a
<1>1. MaxKey \in Nat /\ Rows = 0 .. MaxKey
  BY PagesAssumption DEF Rows
<1>2. CASE q.list = "keyed"
  <2>1. "keyed" # "history"
    OBVIOUS
  <2>2. QED BY <1>1, <1>2, <2>1 DEF InRange, Before, Stored, Ahead, Directions
<1>3. CASE q.list = "history"
  BY <1>1, <1>3 DEF InRange, Before, Stored, Ahead, Directions
<1>4. QED BY <1>2, <1>3

\* It is a strict total order, and a non-empty set of rows has a first and a last one.
LEMMA Ordered ==
    ASSUME NEW q, q.list \in {"keyed", "history"}, q.dir \in Directions, q.offset \in Rows
    PROVE  /\ \A a \in Rows : ~ Before(q, a, a)
           /\ \A a, b \in Rows : a # b => Before(q, a, b) \/ Before(q, b, a)
           /\ \A a, b, c \in Rows : Before(q, a, b) /\ Before(q, b, c) => Before(q, a, c)
           /\ \A S \in SUBSET Rows : S # {} =>
                 /\ \E x \in S : \A y \in S : ~ Before(q, y, x)
                 /\ \E x \in S : \A y \in S : ~ Before(q, x, y)
<1>1. Rows \subseteq Nat
  BY PagesAssumption DEF Rows
<1>2. \A a, b \in Rows : Before(q, a, b) <=> IF q.dir = "forward" THEN a < b ELSE b < a
  BY Directed
<1>3. \A S \in SUBSET Rows : S # {} =>
         (\E x \in S : \A y \in S : x <= y) /\ (\E x \in S : \A y \in S : y <= x)
  BY LeastRow, GreatestRow
<1>4. CASE q.dir = "forward"
  <2>1. \A a, b \in Rows : Before(q, a, b) <=> a < b
    BY <1>2, <1>4
  <2>2. \A S \in SUBSET Rows : S # {} =>
           /\ \E x \in S : \A y \in S : ~ Before(q, y, x)
           /\ \E x \in S : \A y \in S : ~ Before(q, x, y)
    BY <1>1, <1>3, <2>1
  <2>3. QED BY <1>1, <2>1, <2>2
<1>5. CASE q.dir # "forward"
  <2>1. \A a, b \in Rows : Before(q, a, b) <=> b < a
    BY <1>2, <1>5
  <2>2. \A S \in SUBSET Rows : S # {} =>
           /\ \E x \in S : \A y \in S : ~ Before(q, y, x)
           /\ \E x \in S : \A y \in S : ~ Before(q, x, y)
    BY <1>1, <1>3, <2>1
  <2>3. QED BY <1>1, <2>1, <2>2
<1>6. QED BY <1>4, <1>5

\* A page holds what was found, up to the last row taken, and only when it is not
\* full everything; its next offset is that row.
LEMMA PageCuts ==
    ASSUME NEW q, q.list \in {"keyed", "history"}, q.dir \in Directions, q.offset \in Rows,
           q.limit \in Nat, NEW present \in SUBSET Rows
    PROVE  LET found == Found(q, present)
               page  == Page(q, present)
           IN  /\ page.data \subseteq found
               /\ page.next = None => page.data = found
               /\ page.next # None =>
                     /\ page.next \in found /\ page.next \notin page.data
                     /\ \A r \in page.data : Before(q, r, page.next)
                     /\ \A r \in found : Before(q, r, page.next) => r \in page.data
<1> DEFINE found == Found(q, present)
           taken == Taken(q, found)
           last  == Last(q, taken)
           before(r) == {s \in found : Before(q, s, r)}
<1>1. found \subseteq Rows /\ taken \subseteq found
  BY DEF Found, Shown, Taken
<1>2. Rows \subseteq Nat /\ IsFiniteSet(Rows)
  BY PagesAssumption, FS_Interval DEF Rows
<1>3. IsFiniteSet(found) /\ IsFiniteSet(taken)
  BY <1>1, <1>2, FS_Subset
<1>4. \A r \in Rows : IsFiniteSet(before(r)) /\ Cardinality(before(r)) \in Nat
  BY <1>3, FS_Subset, FS_CardinalityType
<1>5. /\ \A a \in Rows : ~ Before(q, a, a)
      /\ \A a, b \in Rows : a # b => Before(q, a, b) \/ Before(q, b, a)
      /\ \A a, b, c \in Rows : Before(q, a, b) /\ Before(q, b, c) => Before(q, a, c)
      /\ \A S \in SUBSET Rows : S # {} =>
            /\ \E x \in S : \A y \in S : ~ Before(q, y, x)
            /\ \E x \in S : \A y \in S : ~ Before(q, x, y)
  BY Ordered
<1>6. \A r \in found : r \in taken <=> Cardinality(before(r)) < q.limit + 1
  BY DEF Taken
\* What comes before a row that is taken is taken.
<1>7. \A r \in taken, s \in found : Before(q, s, r) => s \in taken
  <2> SUFFICES ASSUME NEW r \in taken, NEW s \in found, Before(q, s, r) PROVE s \in taken
    OBVIOUS
  <2>1. before(s) \subseteq before(r)
    BY <1>1, <1>5
  <2>2. Cardinality(before(s)) <= Cardinality(before(r))
    BY <1>1, <1>4, <2>1, FS_Subset
  <2>3. s \in Rows /\ r \in Rows /\ r \in found
    BY <1>1
  <2>4. Cardinality(before(r)) < q.limit + 1
    BY <1>6, <2>3
  <2>5. Cardinality(before(r)) \in Nat /\ Cardinality(before(s)) \in Nat
    BY <1>4, <2>3
  <2>6. Cardinality(before(s)) < q.limit + 1
    BY <2>2, <2>4, <2>5
  <2>7. QED BY <1>6, <2>6
\* If not everything is taken, more rows are than the limit.
<1>8. taken # found => Cardinality(taken) >= q.limit + 1
  <2> SUFFICES ASSUME taken # found PROVE Cardinality(taken) >= q.limit + 1
    OBVIOUS
  <2>1. PICK x \in found \ taken : \A y \in found \ taken : ~ Before(q, y, x)
    <3>1. found \ taken \in SUBSET Rows /\ found \ taken # {}
      BY <1>1
    <3>2. QED BY <1>5, <3>1
  <2>2. before(x) \subseteq taken
    BY <2>1
  <2>3. Cardinality(before(x)) <= Cardinality(taken)
    BY <1>3, <2>2, FS_Subset
  <2>4. Cardinality(before(x)) >= q.limit + 1
    <3>1. Cardinality(before(x)) \in Nat
      BY <1>1, <1>4
    <3>2. ~ (Cardinality(before(x)) < q.limit + 1)
      BY <1>6
    <3>3. QED BY <3>1, <3>2
  <2>5. QED BY <1>1, <1>3, <1>4, <2>1, <2>3, <2>4, FS_CardinalityType
<1>9. taken # {} => last \in taken /\ \A s \in taken \ {last} : Before(q, s, last)
  <2> SUFFICES ASSUME taken # {} PROVE \E x \in taken : \A s \in taken \ {x} : Before(q, s, x)
    BY DEF Last
  <2>1. PICK x \in taken : \A y \in taken : ~ Before(q, x, y)
    <3>1. taken \in SUBSET Rows
      BY <1>1
    <3>2. QED BY <1>5, <3>1
  <2>2. \A s \in taken \ {x} : Before(q, s, x)
    BY <1>1, <1>5, <2>1
  <2>3. QED BY <2>2
<1>10. CASE taken = {}
  <2>1. Page(q, present) = [data |-> {}, next |-> None]
    BY <1>10 DEF Page
  <2>2. Cardinality(taken) = 0
    BY <1>10, FS_EmptySet
  <2>3. found = {}
    BY <1>8, <1>10, <2>2
  <2>4. QED BY <2>1, <2>3
<1>11. CASE taken # {} /\ Cardinality(taken \ {last}) < q.limit
  <2>1. Page(q, present) = [data |-> taken, next |-> None]
    BY <1>11 DEF Page
  <2>2. Cardinality(taken) \in Nat /\ Cardinality(taken \ {last}) = Cardinality(taken) - 1
    BY <1>3, <1>9, <1>11, FS_RemoveElement, FS_CardinalityType
  <2>3. taken = found
    BY <1>8, <1>11, <2>2
  <2>4. QED BY <2>1, <2>3
<1>12. CASE taken # {} /\ ~ (Cardinality(taken \ {last}) < q.limit)
  <2>1. Page(q, present) = [data |-> taken \ {last}, next |-> last]
    BY <1>12 DEF Page, OffsetOf
  <2>2. last # None
    BY <1>1, <1>2, <1>9, <1>12, PagesAssumption
  <2>3. \A r \in found : Before(q, r, last) => r \in taken \ {last}
    BY <1>1, <1>2, <1>5, <1>7, <1>9, <1>12
  <2>4. QED BY <1>1, <1>9, <1>12, <2>1, <2>2, <2>3
<1>13. QED BY <1>10, <1>11, <1>12
-----------------------------------------------------------------------------
(* The walk.                                                               *)

\* The first request asks from the end the walk starts at.
LEMMA WalkBegins ==
    ASSUME OffsetsAreKeys, PagesInit
    PROVE  WalkInv
<1>1. MaxKey \in Nat /\ Rows = 0 .. MaxKey
  BY PagesAssumption DEF Rows
<1>2. PICK list \in Lists, dir \in Directions, requested \in Requested :
         walk = [list |-> list, dir |-> dir, limit |-> Limit(requested),
                 offset |-> FirstOffset(dir), seen |-> {}, twice |-> {}, done |-> FALSE]
  BY DEF PagesInit
<1>3. list \in {"keyed", "history"} /\ Limit(requested) \in Nat /\ FirstOffset(dir) \in Rows
  BY <1>1, PagesAssumption DEF OffsetsAreKeys, Limit, FirstOffset
<1>4. \A r \in Rows : Ahead(walk, r)
  BY <1>1, <1>2 DEF Ahead, FirstOffset
<1>5. rows \in [Nodes -> SUBSET Rows] /\ stayed \subseteq Rows /\ \A n \in Nodes : stayed \subseteq rows[n]
  BY PagesAssumption DEF PagesInit
<1>6. Shown(walk.list, stayed) \subseteq Rows
  BY <1>5 DEF Shown
<1>7. QED BY <1>2, <1>3, <1>4, <1>5, <1>6 DEF WalkInv

\* A page moves the offset past what it gave and leaves nothing behind.
LEMMA PageStep ==
    ASSUME WalkInv, NEW n \in Nodes, Answer(n)
    PROVE  WalkInv'
<1> DEFINE page == Page(walk, rows[n])
           found == Found(walk, rows[n])
<1>1. /\ walk.list \in {"keyed", "history"} /\ walk.dir \in Directions /\ walk.offset \in Rows
      /\ walk.limit \in Nat /\ rows[n] \in SUBSET Rows /\ ~ walk.done
      /\ walk.seen \subseteq Rows /\ stayed \subseteq rows[n]
  BY DEF WalkInv, Answer
<1>2. /\ page.data \subseteq found
      /\ page.next = None => page.data = found
      /\ page.next # None =>
            /\ page.next \in found /\ page.next \notin page.data
            /\ \A r \in page.data : Before(walk, r, page.next)
            /\ \A r \in found : Before(walk, r, page.next) => r \in page.data
  BY <1>1, PageCuts
<1>3. /\ \A r \in Rows : InRange(walk, r) <=> Ahead(walk, r)
      /\ \A a, b \in Rows : Before(walk, a, b) <=> IF walk.dir = "forward" THEN a < b ELSE b < a
  BY <1>1, Directed
<1>4. found \subseteq Rows /\ \A r \in found : Ahead(walk, r)
  BY <1>1, <1>3 DEF Found, Shown
<1>5. \A r \in Shown(walk.list, stayed) : Ahead(walk, r) => r \in found
  BY <1>1, <1>3 DEF Found, Shown
<1>6. walk.seen \cap page.data = {}
  BY <1>1, <1>2, <1>4 DEF WalkInv
<1>7. /\ rows' = rows /\ stayed' = stayed
      /\ walk' = [walk EXCEPT !.seen = @ \cup page.data,
                              !.twice = @ \cup (walk.seen \cap page.data),
                              !.offset = IF page.next = None THEN @ ELSE page.next,
                              !.done = page.next = None]
  BY DEF Answer, Take
<1>8. /\ walk'.list = walk.list /\ walk'.dir = walk.dir
      /\ walk'.seen = walk.seen \cup page.data
      /\ walk'.done = (page.next = None)
      /\ walk'.offset = IF page.next = None THEN walk.offset ELSE page.next
      /\ walk' \in [list : {"keyed", "history"}, dir : Directions, limit : Nat, offset : Rows,
                     seen : SUBSET Rows, twice : {{}}, done : BOOLEAN]
  BY <1>2, <1>4, <1>6, <1>7 DEF WalkInv
<1>9. CASE page.next = None
  <2>1. \A r \in Shown(walk.list, stayed) : r \in walk'.seen
    BY <1>1, <1>2, <1>5, <1>8, <1>9 DEF WalkInv
  <2>2. QED BY <1>7, <1>8, <1>9, <2>1 DEF WalkInv
<1>10. CASE page.next # None
  <2> DEFINE next == page.next
  <2>1. Rows \subseteq Nat /\ next \in Rows /\ walk.offset \in Rows /\ Ahead(walk, next)
    BY <1>1, <1>2, <1>4, <1>10, PagesAssumption DEF Rows
  <2>2. walk'.offset = next /\ walk'.dir = walk.dir
    BY <1>8, <1>10
  <2> HIDE DEF next
  <2>3. \A r \in Rows : Ahead(walk', r) <=> ~ Before(walk, r, next)
    <3>1. CASE walk.dir = "forward"
      <4>1. \A r \in Rows : Before(walk, r, next) <=> r < next
        BY <1>3, <2>1, <3>1
      <4>2. \A r \in Rows : Ahead(walk', r) <=> r >= next
        BY <2>2, <3>1 DEF Ahead
      <4>3. QED BY <2>1, <4>1, <4>2
    <3>2. CASE walk.dir # "forward"
      <4>1. \A r \in Rows : Before(walk, r, next) <=> next < r
        BY <1>3, <2>1, <3>2
      <4>2. \A r \in Rows : Ahead(walk', r) <=> r <= next
        BY <2>2, <3>2 DEF Ahead
      <4>3. QED BY <2>1, <4>1, <4>2
    <3>3. QED BY <3>1, <3>2
  <2>4. \A r \in Rows : ~ Ahead(walk, r) => Before(walk, r, next)
    <3> SUFFICES ASSUME NEW r \in Rows, ~ Ahead(walk, r) PROVE Before(walk, r, next)
      OBVIOUS
    <3>0. r \in Nat /\ next \in Nat /\ walk.offset \in Nat
      BY <2>1
    <3>1. CASE walk.dir = "forward"
      <4>1. Before(walk, r, next) <=> r < next
        BY <1>3, <2>1, <3>1
      <4>2. next >= walk.offset /\ ~ (r >= walk.offset)
        BY <2>1, <3>1 DEF Ahead
      <4>3. QED BY <3>0, <4>1, <4>2
    <3>2. CASE walk.dir # "forward"
      <4>1. Before(walk, r, next) <=> next < r
        BY <1>3, <2>1, <3>2
      <4>2. next <= walk.offset /\ ~ (r <= walk.offset)
        BY <2>1, <3>2 DEF Ahead
      <4>3. QED BY <3>0, <4>1, <4>2
    <3>3. QED BY <3>1, <3>2
  <2>5. \A r \in walk'.seen : ~ Ahead(walk', r)
    <3>1. \A r \in page.data : ~ Ahead(walk', r)
      BY <1>2, <1>4, <1>10, <2>3 DEF next
    <3>2. \A r \in walk.seen : ~ Ahead(walk', r)
      BY <1>1, <2>3, <2>4 DEF WalkInv
    <3>3. QED BY <1>8, <3>1, <3>2
  <2>6. \A r \in Shown(walk.list, stayed) : r \in walk'.seen \/ Ahead(walk', r)
    <3>1. \A r \in found : r \in page.data \/ Ahead(walk', r)
      BY <1>2, <1>4, <1>10, <2>3 DEF next
    <3>2. \A r \in Shown(walk.list, stayed) : r \in walk.seen \/ r \in found
      BY <1>1, <1>5 DEF WalkInv
    <3>3. QED BY <1>8, <3>1, <3>2
  <2>7. QED BY <1>7, <1>8, <1>10, <2>5, <2>6 DEF WalkInv
<1>11. QED BY <1>9, <1>10

\* A row that comes is not one that stayed, and one that goes no longer is.
LEMMA ChangeStep ==
    ASSUME WalkInv, NEW n \in Nodes, NEW r \in Rows, Gain(n, r) \/ Lose(n, r)
    PROVE  WalkInv'
<1>1. /\ walk' = walk /\ stayed' \subseteq stayed
      /\ rows' \in [Nodes -> SUBSET Rows] /\ \A m \in Nodes : stayed' \subseteq rows'[m]
  BY DEF Gain, Lose, WalkInv
<1>2. Shown(walk.list, stayed') \subseteq Shown(walk.list, stayed)
  BY <1>1 DEF Shown
<1>3. QED BY <1>1, <1>2 DEF WalkInv, Ahead

\* However many indexers answer, however their lists change, with any limit: a walk
\* through a list whose offsets are its keys gives no row twice and, when it ends,
\* has given every row that was there throughout (to_paginated's next offset).
THEOREM PagesEachOnce == OffsetsAreKeys /\ PagesSpec => []EachOnce
<1>1. OffsetsAreKeys /\ PagesInit => WalkInv
  BY WalkBegins
<1>2. WalkInv /\ [PagesNext]_pagesVars => WalkInv'
  <2> SUFFICES ASSUME WalkInv, [PagesNext]_pagesVars PROVE WalkInv'
    OBVIOUS
  <2>1. CASE UNCHANGED pagesVars
    BY <2>1 DEF WalkInv, pagesVars, Ahead, Shown
  <2>2. CASE \E n \in Nodes : Answer(n)
    BY <2>2, PageStep
  <2>3. CASE \E n \in Nodes : \E r \in Rows : Gain(n, r) \/ Lose(n, r)
    BY <2>3, ChangeStep
  <2>4. QED BY <2>1, <2>2, <2>3 DEF PagesNext
<1>3. WalkInv => EachOnce
  BY DEF WalkInv, EachOnce
<1>4. QED BY <1>1, <1>2, <1>3, PTL DEF PagesSpec
-----------------------------------------------------------------------------
(* The types of the walk, for any lists.                                   *)

\* Whatever is asked for, a non-empty set of rows has a last one.
LEMMA LastIs ==
    ASSUME NEW q, NEW S \in SUBSET Rows, S # {}
    PROVE  Last(q, S) \in S
<1> SUFFICES \E x \in S : \A y \in S \ {x} : Before(q, y, x)
  BY DEF Last
<1>1. MaxKey \in Nat /\ Rows = 0 .. MaxKey
  BY PagesAssumption DEF Rows
<1>2. \/ \A a, b \in Rows : Before(q, a, b) <=> a < b
      \/ \A a, b \in Rows : Before(q, a, b) <=> b < a
  <2>1. CASE q.list = "history"
    <3>1. \A r \in Rows : Stored(q.list, r) = MaxKey - r
      BY <2>1 DEF Stored
    <3>2. \A a, b \in Rows : MaxKey - a < MaxKey - b <=> b < a
      BY <1>1
    <3>3. QED BY <1>1, <2>1, <3>1, <3>2 DEF Before
  <2>2. CASE q.list # "history"
    BY <1>1, <2>2 DEF Before, Stored
  <2>3. QED BY <2>1, <2>2
<1>3. CASE \A a, b \in Rows : Before(q, a, b) <=> a < b
  <2>1. PICK x \in S : \A y \in S : y <= x
    BY GreatestRow
  <2>2. \A y \in S \ {x} : y < x
    BY <1>1, <2>1
  <2>3. QED BY <1>3, <2>2
<1>4. CASE \A a, b \in Rows : Before(q, a, b) <=> b < a
  <2>1. PICK x \in S : \A y \in S : x <= y
    BY LeastRow
  <2>2. \A y \in S \ {x} : x < y
    BY <1>1, <2>1
  <2>3. QED BY <1>4, <2>2
<1>5. QED BY <1>2, <1>3, <1>4

\* A page holds rows, and its next offset is a number.
LEMMA PageTypes ==
    ASSUME NEW q, NEW present \in SUBSET Rows
    PROVE  /\ Page(q, present).data \in SUBSET Rows
           /\ Page(q, present).next \in Nat \cup {None}
<1> DEFINE taken == Taken(q, Found(q, present))
           last == Last(q, taken)
<1>1. taken \in SUBSET Rows
  BY DEF Taken, Found, Shown
<1>2. taken # {} => last \in Rows
  BY <1>1, LastIs
<1>3. taken # {} => OffsetOf(q.list, last) \in Nat
  BY <1>2, PagesAssumption DEF OffsetOf, Rows
<1> HIDE DEF last
<1>4. \/ Page(q, present) = [data |-> {}, next |-> None]
      \/ Page(q, present) = [data |-> taken, next |-> None]
      \/ taken # {} /\ Page(q, present) = [data |-> taken \ {last}, next |-> OffsetOf(q.list, last)]
  BY DEF Page, last
<1> HIDE DEF taken
<1>5. QED BY <1>1, <1>3, <1>4

LEMMA PagesBegin == PagesInit => PagesTypeOK
<1> SUFFICES ASSUME PagesInit PROVE PagesTypeOK
  OBVIOUS
<1>1. rows \in [Nodes -> SUBSET Rows] /\ stayed \in SUBSET Rows
  BY PagesAssumption DEF PagesInit
<1>2. PICK list \in Lists, dir \in Directions, requested \in Requested :
         walk = [list |-> list, dir |-> dir, limit |-> Limit(requested),
                 offset |-> FirstOffset(dir), seen |-> {}, twice |-> {}, done |-> FALSE]
  BY DEF PagesInit
<1>3. Limit(requested) \in Nat /\ FirstOffset(dir) \in Nat
  BY PagesAssumption DEF Limit, FirstOffset
<1>4. QED BY <1>1, <1>2, <1>3 DEF PagesTypeOK

LEMMA PagesTyped ==
    ASSUME PagesTypeOK, [PagesNext]_pagesVars
    PROVE  PagesTypeOK'
<1>1. CASE \E n \in Nodes : Answer(n)
  <2>1. PICK n \in Nodes : Take(Page(walk, rows[n])) /\ UNCHANGED <<rows, stayed>>
    BY <1>1 DEF Answer
  <2> DEFINE page == Page(walk, rows[n])
  <2>2. page.data \in SUBSET Rows /\ page.next \in Nat \cup {None}
    BY PageTypes DEF PagesTypeOK
  <2>3. walk' = [walk EXCEPT !.seen = @ \cup page.data,
                             !.twice = @ \cup (walk.seen \cap page.data),
                             !.offset = IF page.next = None THEN @ ELSE page.next,
                             !.done = page.next = None]
    BY <2>1 DEF Take
  <2> HIDE DEF page
  <2>4. QED BY <2>1, <2>2, <2>3 DEF PagesTypeOK
<1>2. CASE \E n \in Nodes : \E r \in Rows : Gain(n, r) \/ Lose(n, r)
  BY <1>2 DEF Gain, Lose, PagesTypeOK
<1>3. CASE UNCHANGED pagesVars
  BY <1>3 DEF pagesVars, PagesTypeOK
<1>4. QED BY <1>1, <1>2, <1>3 DEF PagesNext
-----------------------------------------------------------------------------
(* The requests the nodes hold.                                            *)

\* The clients whose request a node holds.
Callers(n) == {c \in Clients : call[c] = n}

\* A request is held by a node or by nobody, and every session by one request.
CallInv ==
    /\ call \in [Clients -> Nodes \cup {None}]
    /\ sessions \in [Nodes -> Nat]
    /\ SessionsCounted
-----------------------------------------------------------------------------
(* The sessions.                                                           *)

LEMMA CallersFinite ==
    ASSUME NEW n
    PROVE  IsFiniteSet(Callers(n)) /\ Cardinality(Callers(n)) \in Nat
<1>1. IsFiniteSet(Clients)
  BY ClusterAssumption, FS_AddElement DEF Clients
<1>2. Callers(n) \in SUBSET Clients
  BY DEF Callers
<1>3. QED BY <1>1, <1>2, FS_Subset, FS_CardinalityType

\* Cluster::select takes a session for the request that waits.
LEMMA SelectStep ==
    ASSUME CallInv, NEW c \in Clients, Select(c)
    PROVE  CallInv'
<1>1. PICK n \in Nodes : Acquire(n) /\ call' = [call EXCEPT ![c] = n]
  BY DEF Select
<1>2. call[c] = None /\ None \notin Nodes
  BY ClusterAssumption DEF Select
<1>3. /\ call' \in [Clients -> Nodes \cup {None}]
      /\ sessions' = [sessions EXCEPT ![n] = @ + 1] /\ sessions' \in [Nodes -> Nat]
  BY <1>1 DEF CallInv, Acquire
<1>4. ASSUME NEW m \in Nodes PROVE sessions'[m] = Cardinality(Callers(m)')
  <2>1. sessions[m] = Cardinality(Callers(m))
    BY DEF CallInv, SessionsCounted, Callers
  <2>2. CASE m = n
    <3>1. Callers(m)' = Callers(m) \cup {c} /\ c \notin Callers(m)
      BY <1>1, <1>2, <2>2 DEF Callers, CallInv
    <3>2. Cardinality(Callers(m)') = Cardinality(Callers(m)) + 1
      BY <3>1, CallersFinite, FS_AddElement
    <3>3. QED BY <1>3, <2>1, <2>2, <3>2 DEF CallInv
  <2>3. CASE m # n
    <3>1. Callers(m)' = Callers(m)
      BY <1>1, <1>2, <2>3 DEF Callers, CallInv
    <3>2. QED BY <1>3, <2>1, <2>3, <3>1 DEF CallInv
  <2>4. QED BY <2>2, <2>3
<1>5. QED BY <1>3, <1>4 DEF CallInv, SessionsCounted, Callers

\* Drop for ConnRef gives it back, once.
LEMMA ReleaseStep ==
    ASSUME CallInv, NEW c \in Clients, call[c] # None, Release(c)
    PROVE  CallInv'
<1> DEFINE n == call[c]
<1>1. n \in Nodes /\ None \notin Nodes
  BY ClusterAssumption DEF CallInv
<1>2. call' = [call EXCEPT ![c] = None] /\ sessions' = [sessions EXCEPT ![n] = @ - 1]
  BY DEF Release
<1>3. c \in Callers(n) /\ sessions[n] = Cardinality(Callers(n))
  BY <1>1 DEF CallInv, SessionsCounted, Callers
<1>4. Cardinality(Callers(n) \ {c}) = Cardinality(Callers(n)) - 1 /\ Cardinality(Callers(n) \ {c}) \in Nat
  BY <1>3, CallersFinite, FS_RemoveElement, FS_CardinalityType
<1>5. call' \in [Clients -> Nodes \cup {None}] /\ sessions' \in [Nodes -> Nat]
  BY <1>1, <1>2, <1>3, <1>4 DEF CallInv
<1>6. ASSUME NEW m \in Nodes PROVE sessions'[m] = Cardinality(Callers(m)')
  <2>1. CASE m = n
    <3>1. Callers(m)' = Callers(m) \ {c}
      BY <1>1, <1>2, <2>1 DEF Callers, CallInv
    <3>2. QED BY <1>1, <1>2, <1>3, <1>4, <2>1, <3>1 DEF CallInv
  <2>2. CASE m # n
    <3>1. Callers(m)' = Callers(m)
      BY <1>1, <1>2, <2>2 DEF Callers, CallInv
    <3>2. QED BY <1>2, <2>2, <3>1 DEF CallInv, SessionsCounted, Callers
  <2>3. QED BY <2>1, <2>2
<1>7. QED BY <1>5, <1>6 DEF CallInv, SessionsCounted, Callers

LEMMA RequestStep ==
    ASSUME CallInv, NEW c \in Clients, Request(c)
    PROVE  CallInv'
<1>1. CASE Select(c)
  BY <1>1, SelectStep
<1>2. CASE Answered(c) \/ Failed(c) \/ Cancelled(c)
  BY <1>2, ReleaseStep DEF Answered, Failed, Cancelled
<1>3. QED BY <1>1, <1>2 DEF Request

\* Everything else leaves the requests alone, and of the indexes only Change
\* touches any.
LEMMA OtherStep ==
    ASSUME \/ \E n \in Nodes : RemoteState(n) \/ LinkUp(n) \/ LinkDown(n) \/ ConnectionTask(n)
           \/ Terminate \/ Join
    PROVE  sessions' = sessions /\ call' = call /\ UNCHANGED pagesVars
<1>1. CASE \E n \in Nodes : RemoteState(n) \/ LinkUp(n) \/ LinkDown(n)
  BY <1>1 DEF RemoteState, LinkUp, LinkDown, callVars
<1>2. CASE \E n \in Nodes : ConnectionTask(n)
  BY <1>2 DEF ConnectionTask, Connect, ConnectFails, ConnectAgain, Disconnect, Poll, EndTask, callVars
<1>3. CASE Terminate \/ Join
  BY <1>3 DEF Terminate, Join, callVars
<1>4. QED BY <1>1, <1>2, <1>3

LEMMA CallInvInductive ==
    ASSUME CallInv, [Next]_vars
    PROVE  CallInv'
<1>1. CASE UNCHANGED vars \/ \E n \in Nodes : Change(n)
  BY <1>1 DEF CallInv, SessionsCounted, Change, vars, callVars
<1>2. CASE \E c \in Clients : Request(c)
  BY <1>2, RequestStep
<1>3. CASE \/ \E n \in Nodes : RemoteState(n) \/ LinkUp(n) \/ LinkDown(n) \/ ConnectionTask(n)
           \/ Terminate \/ Join
  BY <1>3, OtherStep DEF CallInv, SessionsCounted
<1>4. QED BY <1>1, <1>2, <1>3 DEF Next

LEMMA CallInvHolds == Spec => []CallInv
<1>1. Init => CallInv
  <2> SUFFICES ASSUME Init PROVE CallInv
    OBVIOUS
  <2>1. call \in [Clients -> Nodes \cup {None}] /\ sessions \in [Nodes -> Nat]
    BY DEF Init
  <2>2. \A n \in Nodes : {c \in Clients : call[c] = n} = {}
    BY ClusterAssumption DEF Init
  <2>3. QED BY <2>1, <2>2, FS_EmptySet DEF Init, CallInv, SessionsCounted
<1>2. CallInv /\ [Next]_vars => CallInv'
  BY CallInvInductive
<1>3. QED BY <1>1, <1>2, PTL DEF Spec

\* For any indexers and clients, whatever links are lost and requests cancelled: the
\* sessions of a connection are the requests it holds (acquire in Cluster::select,
\* Drop for ConnRef).
THEOREM SessionsCountedAlways == Spec => []SessionsCounted
<1>1. CallInv => SessionsCounted
  BY DEF CallInv
<1>2. QED BY <1>1, CallInvHolds, PTL
-----------------------------------------------------------------------------
(* The refinement.                                                         *)

\* A step of the cluster is a page, a change of an index or nothing to a client.
LEMMA StepForwards ==
    ASSUME CallInv, [Next]_vars
    PROVE  [PagesNext]_pagesVars
<1>1. CASE UNCHANGED vars
  BY <1>1 DEF vars, pagesVars
<1>2. CASE \E n \in Nodes : Change(n)
  BY <1>2 DEF Change, PagesNext
<1>3. CASE \E c \in Clients : Answered(c)
  <2>1. PICK c \in Clients : Answered(c)
    BY <1>3
  <2>2. call[c] \in Nodes
    BY <2>1 DEF Answered, CallInv
  <2>3. Answer(call[c]) \/ UNCHANGED pagesVars
    BY <2>1 DEF Answered
  <2>4. QED BY <2>2, <2>3 DEF PagesNext
<1>4. CASE \E c \in Clients : Select(c) \/ Failed(c) \/ Cancelled(c)
  BY <1>4 DEF Select, Failed, Cancelled, pagesVars
<1>5. CASE \/ \E n \in Nodes : RemoteState(n) \/ LinkUp(n) \/ LinkDown(n) \/ ConnectionTask(n)
           \/ Terminate \/ Join
  BY <1>5, OtherStep
<1>6. QED BY <1>1, <1>2, <1>3, <1>4, <1>5 DEF Next, Request

\* The cluster implements the paging of a client that talks to the indexers itself:
\* failover, cancelled requests and shutdown are stutters of it.
THEOREM ClusterForwards == Spec => Forwards
<1>1. Init => PagesInit
  BY DEF Init
<1>2. CallInv /\ [Next]_vars => [PagesNext]_pagesVars
  BY StepForwards
<1>3. QED BY <1>1, <1>2, CallInvHolds, PTL DEF Spec, Forwards, PagesSpec

-----------------------------------------------------------------------------
(* The types of the cluster.                                               *)

Events == {"connect", "disconnect"}

\* The transport, the events and the flags of the connections.
LinksTyped ==
    /\ up \in [Nodes -> BOOLEAN] /\ ready \in [Nodes -> BOOLEAN]
    /\ ctl \in [Nodes -> Seq(Events)]
    /\ connected \in [Nodes -> BOOLEAN] /\ available \in [Nodes -> BOOLEAN]
    /\ task \in [Nodes -> {"runs", "asked", "ended"}]
    /\ lost \subseteq Clients
    /\ runtime \in {"running", "stopping", "stopped"}

LEMMA LinkStep ==
    ASSUME LinksTyped,
           \E n \in Nodes : Change(n) \/ RemoteState(n) \/ LinkUp(n) \/ LinkDown(n)
    PROVE  LinksTyped'
<1>1. PICK n \in Nodes : Change(n) \/ RemoteState(n) \/ LinkUp(n) \/ LinkDown(n)
  OBVIOUS
<1>2. CASE Change(n)
  BY <1>2 DEF Change, LinksTyped, connVars, callVars
<1>3. CASE RemoteState(n)
  BY <1>3 DEF RemoteState, LinksTyped, connVars, callVars
<1>4. CASE LinkUp(n)
  <2>1. Append(ctl[n], "connect") \in Seq(Events)
    BY DEF LinksTyped, Events
  <2>2. ctl' \in [Nodes -> Seq(Events)]
    BY <1>4, <2>1 DEF LinkUp, LinksTyped
  <2>3. QED BY <1>4, <2>2 DEF LinkUp, LinksTyped, callVars
<1>5. CASE LinkDown(n)
  <2>1. Append(ctl[n], "disconnect") \in Seq(Events)
    BY DEF LinksTyped, Events
  <2>2. ctl' \in [Nodes -> Seq(Events)]
    BY <1>5, <2>1 DEF LinkDown, LinksTyped
  <2>3. QED BY <1>5, <2>2 DEF LinkDown, LinksTyped
<1>6. QED BY <1>1, <1>2, <1>3, <1>4, <1>5

LEMMA TaskStep ==
    ASSUME LinksTyped, NEW n \in Nodes, ConnectionTask(n)
    PROVE  LinksTyped'
<1>1. HasEvent(n) /\ Handled(n) => ctl' \in [Nodes -> Seq(Events)]
  <2> SUFFICES ASSUME HasEvent(n), Handled(n) PROVE ctl' \in [Nodes -> Seq(Events)]
    OBVIOUS
  <2>1. Tail(ctl[n]) \in Seq(Events)
    BY DEF HasEvent, LinksTyped
  <2>2. QED BY <2>1 DEF Handled, LinksTyped
<1>2. CASE Connect(n)
  BY <1>1, <1>2 DEF Connect, LinksTyped, callVars
<1>3. CASE ConnectFails(n)
  BY <1>1, <1>3 DEF ConnectFails, LinksTyped, callVars
<1>4. CASE ConnectAgain(n)
  BY <1>1, <1>4 DEF ConnectAgain, LinksTyped, callVars
<1>5. CASE Disconnect(n)
  <2>1. (~connected[n] /\ available[n]) \in BOOLEAN
    OBVIOUS
  <2>2. available' \in [Nodes -> BOOLEAN]
    BY <1>5, <2>1 DEF Disconnect, LinksTyped
  <2>3. QED BY <1>1, <1>5, <2>2 DEF Disconnect, LinksTyped, callVars
<1>6. CASE Poll(n)
  BY <1>6 DEF Poll, LinksTyped, callVars
<1>7. CASE EndTask(n)
  <2>1. (~connected[n] /\ available[n]) \in BOOLEAN /\ (up[n] /\ ~connected[n]) \in BOOLEAN
    OBVIOUS
  <2>2. available' \in [Nodes -> BOOLEAN] /\ up' \in [Nodes -> BOOLEAN]
    BY <1>7, <2>1 DEF EndTask, LinksTyped
  <2>3. task' \in [Nodes -> {"runs", "asked", "ended"}]
    BY <1>7 DEF EndTask, LinksTyped
  <2>4. connected' \in [Nodes -> BOOLEAN] /\ lost' \subseteq Clients
    BY <1>7 DEF EndTask, LinksTyped
  <2>5. QED BY <1>7, <2>2, <2>3, <2>4 DEF EndTask, LinksTyped
<1>8. QED BY <1>2, <1>3, <1>4, <1>5, <1>6, <1>7 DEF ConnectionTask

LEMMA LinksStay ==
    ASSUME LinksTyped, [Next]_vars
    PROVE  LinksTyped'
<1>1. CASE \E n \in Nodes : Change(n) \/ RemoteState(n) \/ LinkUp(n) \/ LinkDown(n)
  BY <1>1, LinkStep
<1>2. CASE \E n \in Nodes : ConnectionTask(n)
  BY <1>2, TaskStep
<1>3. CASE \E c \in Clients : Select(c)
  BY <1>3 DEF Select, LinksTyped, connVars
<1>4. CASE \E c \in Clients : Answered(c) \/ Failed(c) \/ Cancelled(c)
  BY <1>4 DEF Answered, Failed, Cancelled, Release, LinksTyped, connVars
<1>5. CASE Terminate
  BY <1>5 DEF Terminate, LinksTyped, connVars, callVars
<1>6. CASE Join
  BY <1>6 DEF Join, LinksTyped, connVars, callVars
<1>7. CASE UNCHANGED vars
  BY <1>7 DEF vars, LinksTyped, connVars, callVars
<1>8. QED BY <1>1, <1>2, <1>3, <1>4, <1>5, <1>6, <1>7 DEF Next, Request

\* For any indexers, clients and lists the state of the cluster keeps its types: the
\* balance and the flags of a connection, its queue of events and the client's walk.
THEOREM ClusterTypes == Spec => []TypeOK
<1>1. Init => LinksTyped
  BY DEF Init, LinksTyped, Events
<1>2. LinksTyped /\ [Next]_vars => LinksTyped'
  BY LinksStay
<1>3. Init => PagesTypeOK
  BY PagesBegin DEF Init
<1>4. PagesTypeOK /\ CallInv /\ [Next]_vars => PagesTypeOK'
  BY PagesTyped, StepForwards
<1>5. LinksTyped /\ PagesTypeOK /\ CallInv => TypeOK
  BY DEF TypeOK, LinksTyped, CallInv, Events
<1>6. QED BY <1>1, <1>2, <1>3, <1>4, <1>5, CallInvHolds, PTL DEF Spec
-----------------------------------------------------------------------------

\* Through the cluster too, with failover between pages, no row is given twice and
\* none that stayed is missed.
THEOREM ClusterEachOnce == OffsetsAreKeys /\ Spec => []EachOnce
<1>1. Spec => PagesSpec
  BY ClusterForwards DEF Forwards
<1>2. QED BY <1>1, PagesEachOnce, PTL
=============================================================================
