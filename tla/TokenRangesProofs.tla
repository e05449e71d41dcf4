--------------------------- MODULE TokenRangesProofs ---------------------------
(***************************************************************************)
(* Lemmas about the token id allocator's operators, for every supply,      *)
(* premint and entropy: a draw takes an id that is free, keeps the ranges  *)
(* in order, and is undone exactly by rollback_token_generation.           *)
(***************************************************************************)
EXTENDS TokenRanges, FiniteSetTheorems, TLAPS

\* A supply of max ids whose first premint ones the deployment mints.
Supply(premint, max) == max \in Nat /\ premint \in 0..max

IsFcn(f) == f = [x \in DOMAIN f |-> f[x]]

\* The allocator a is in order after the mints m: what generate_token_id
\* relies on and re-establishes.
WellFormed(a, m, premint, max) ==
    /\ DOMAIN a = {"len", "ranges", "meta"}
    /\ a = [len |-> a.len, ranges |-> a.ranges, meta |-> a.meta]
    /\ IsFcn(a.ranges) /\ IsFcn(a.meta)
    /\ RangesOK(a, premint, max)
    /\ DisjointRanges(a)
    /\ MetaOK(a, m)
    /\ Partitioned(a, m, premint, max)
    /\ m \in Seq(Drawable(premint, max))

LEMMA PutDelFcn ==
    /\ \A f, k, v : IsFcn(Put(f, k, v))
    /\ \A f, k : IsFcn(Del(f, k))
BY DEF IsFcn, Put, Del, DelAll

LEMMA ModRange ==
    ASSUME NEW e \in Nat, NEW s \in Nat, s > 0
    PROVE  e % s \in 0..(s - 1)
OBVIOUS

\* The ids of a sequence one mint longer.
LEMMA IdsAppend ==
    ASSUME NEW max, NEW premint, Supply(premint, max),
           NEW m \in Seq(Drawable(premint, max)), NEW v \in Drawable(premint, max)
    PROVE  /\ Append(m, v) \in Seq(Drawable(premint, max))
           /\ Ids(Append(m, v)) = Ids(m) \cup {v}
<1>1. /\ Append(m, v) \in Seq(Drawable(premint, max))
      /\ Len(Append(m, v)) = Len(m) + 1
      /\ Append(m, v)[Len(m) + 1] = v
      /\ \A i \in 1..Len(m) : Append(m, v)[i] = m[i]
  OBVIOUS
<1>2. 1..(Len(m) + 1) = 1..Len(m) \cup {Len(m) + 1}
  OBVIOUS
<1>3. QED BY <1>1, <1>2 DEF Ids

\* What is needed of the allocator that one id is taken from: range idx is
\* <<start, size>> and the id lies in it.
Drawing(a, m, idx, start, size, value, premint, max) ==
    /\ WellFormed(a, m, premint, max)
    /\ a.len > 0
    /\ idx \in 0..(a.len - 1)
    /\ a.ranges[idx] = <<start, size>>
    /\ start \in Nat /\ size \in Nat
    /\ value \in start..(start + size - 1)

\* A drawn id is drawable and was not minted before.
LEMMA DrawnIsNew ==
    ASSUME NEW max, NEW premint, Supply(premint, max),
           NEW a, NEW m, NEW idx, NEW start, NEW size, NEW value,
           Drawing(a, m, idx, start, size, value, premint, max)
    PROVE  value \in Drawable(premint, max) /\ value \notin Ids(m)
<1>1. /\ idx \in DOMAIN a.ranges
      /\ start > premint /\ start + size - 1 <= max
      /\ value \in Span(a, idx)
  BY DEF Drawing, WellFormed, RangesOK, Start, Size, Span
<1>2. value \in Drawable(premint, max)
  BY <1>1 DEF Drawing, Drawable, Supply
<1>3. QED BY <1>1, <1>2 DEF Drawing, WellFormed, Partitioned

\* The metadata after a mint describes the old mints and the new one.
LEMMA MetaAfterTake ==
    ASSUME NEW max, NEW premint, Supply(premint, max),
           NEW a, NEW m, NEW value \in Drawable(premint, max), NEW pre \in PreModRanges, NEW b,
           m \in Seq(Drawable(premint, max)), MetaOK(a, m), b.meta = Put(a.meta, value, pre)
    PROVE  MetaOK(b, Append(m, value))
<1>1. Ids(Append(m, value)) = Ids(m) \cup {value}
  BY IdsAppend
<1>2. DOMAIN b.meta = Ids(m) \cup {value}
  BY DEF MetaOK, Put
<1>3. \A t \in Ids(m) \cup {value} : b.meta[t] \in PreModRanges
  BY DEF MetaOK, Put
<1>4. QED BY <1>1, <1>2, <1>3 DEF MetaOK

\* Removing the drawn id, and nothing else, from the ranges keeps every id
\* either minted or free.
LEMMA PartitionAfterTake ==
    ASSUME NEW max, NEW premint, Supply(premint, max),
           NEW a, NEW m, NEW idx, NEW start, NEW size, NEW value, NEW b,
           Drawing(a, m, idx, start, size, value, premint, max),
           \A t \in Drawable(premint, max) :
               (\E i \in DOMAIN b.ranges : t \in Span(b, i))
                 <=> t # value /\ \E i \in DOMAIN a.ranges : t \in Span(a, i)
    PROVE  Partitioned(b, Append(m, value), premint, max)
<1>1. value \in Drawable(premint, max) /\ value \notin Ids(m)
  BY DrawnIsNew
<1>2. Ids(Append(m, value)) = Ids(m) \cup {value}
  BY <1>1, IdsAppend DEF Drawing, WellFormed
<1>3. SUFFICES ASSUME NEW t \in Drawable(premint, max)
               PROVE  t \in Ids(m) \cup {value}
                        <=> ~ \E i \in DOMAIN b.ranges : t \in Span(b, i)
  BY <1>2 DEF Partitioned
<1>4. t \in Ids(m) <=> ~ \E i \in DOMAIN a.ranges : t \in Span(a, i)
  BY DEF Partitioned, Drawing, WellFormed
<1>5. QED BY <1>1, <1>4

\* Taking the only id of a range keeps the allocator in order.
LEMMA RemoveKeepsOrder ==
    ASSUME NEW max, NEW premint, Supply(premint, max),
           NEW a, NEW m, NEW idx, NEW start, NEW size, NEW value, NEW initial \in BOOLEAN,
           Drawing(a, m, idx, start, size, value, premint, max), size = 1
    PROVE  WellFormed(RemoveRange(a, idx, value, start, size, initial), Append(m, value), premint, max)
<1> DEFINE b == RemoveRange(a, idx, value, start, size, initial)
           last == a.len - 1
<1>0. value \in Drawable(premint, max) /\ value \notin Ids(m)
  BY DrawnIsNew
<1>1. /\ b.len = last
      /\ b.ranges = IF idx < last THEN Del(Put(a.ranges, idx, a.ranges[last]), last)
                                  ELSE Del(a.ranges, idx)
      /\ b.meta = Put(a.meta, value, PreModRange(idx, start, size, TRUE, FALSE, initial))
      /\ DOMAIN b = {"len", "ranges", "meta"}
      /\ b = [len |-> b.len, ranges |-> b.ranges, meta |-> b.meta]
  BY DEF RemoveRange
<1> HIDE DEF b
<1>2. /\ a.len \in Nat /\ a.len > 0 /\ idx \in Nat /\ idx <= last /\ last \in Nat
      /\ DOMAIN a.ranges = 0..last
  BY DEF Drawing, WellFormed, RangesOK
<1>3. /\ DOMAIN b.ranges = 0..(b.len - 1)
      /\ \A i \in 0..(b.len - 1) :
            b.ranges[i] = a.ranges[IF i = idx THEN last ELSE i]
  <2>1. CASE idx < last
    <3>1. b.ranges = [k \in (DOMAIN a.ranges \cup {idx}) \ {last} |->
                        IF k = idx THEN a.ranges[last] ELSE a.ranges[k]]
      BY <1>1, <2>1 DEF Put, Del, DelAll
    <3>2. (DOMAIN a.ranges \cup {idx}) \ {last} = 0..(b.len - 1)
      BY <1>1, <1>2, <2>1
    <3>3. QED BY <3>1, <3>2
  <2>2. CASE ~(idx < last)
    <3>1. b.ranges = [k \in DOMAIN a.ranges \ {last} |-> a.ranges[k]]
      BY <1>1, <1>2, <2>2 DEF Del, DelAll
    <3>2. DOMAIN a.ranges \ {last} = 0..(b.len - 1)
      BY <1>1, <1>2
    <3>3. \A i \in 0..(b.len - 1) : i # idx
      BY <1>1, <1>2, <2>2
    <3>4. QED BY <3>1, <3>2, <3>3
  <2>3. QED BY <2>1, <2>2
<1>4. RangesOK(b, premint, max)
  <2> SUFFICES ASSUME NEW i \in DOMAIN b.ranges
               PROVE  /\ b.ranges[i] \in Nat \X Nat
                      /\ Start(b, i) > premint
                      /\ Size(b, i) > 0
                      /\ Start(b, i) + Size(b, i) - 1 <= max
    BY <1>1, <1>2, <1>3 DEF RangesOK
  <2>0. (IF i = idx THEN last ELSE i) \in DOMAIN a.ranges
    BY <1>1, <1>2, <1>3
  <2>1. PICK k \in DOMAIN a.ranges : b.ranges[i] = a.ranges[k]
    BY <1>3, <2>0
  <2>2. /\ a.ranges[k] \in Nat \X Nat
        /\ Start(a, k) > premint /\ Size(a, k) > 0
        /\ Start(a, k) + Size(a, k) - 1 <= max
    BY DEF Drawing, WellFormed, RangesOK
  <2>3. QED BY <2>1, <2>2 DEF Start, Size
<1>5. \A i \in 0..(b.len - 1) : Span(b, i) = Span(a, IF i = idx THEN last ELSE i)
  BY <1>3 DEF Span, Start, Size
<1>6. DisjointRanges(b)
  <2> SUFFICES ASSUME NEW i \in DOMAIN b.ranges, NEW j \in DOMAIN b.ranges, i # j
               PROVE  Span(b, i) \cap Span(b, j) = {}
    BY DEF DisjointRanges
  <2> DEFINE k(x) == IF x = idx THEN last ELSE x
  <2>0. /\ i \in 0..(b.len - 1) /\ j \in 0..(b.len - 1)
        /\ DOMAIN a.ranges = 0..(b.len) /\ b.len = last /\ last \in Nat
    BY <1>1, <1>2, <1>3
  <2>1. k(i) \in DOMAIN a.ranges /\ k(j) \in DOMAIN a.ranges /\ k(i) # k(j)
    BY <2>0
  <2>2. Span(a, k(i)) \cap Span(a, k(j)) = {}
    BY <2>1 DEF Drawing, WellFormed, DisjointRanges
  <2>3. Span(b, i) = Span(a, k(i)) /\ Span(b, j) = Span(a, k(j))
    BY <1>3, <1>5
  <2>4. QED BY <2>2, <2>3
<1>7. PreModRange(idx, start, size, TRUE, FALSE, initial) \in PreModRanges
  BY <1>2 DEF PreModRange, PreModRanges, Drawing
<1>8. MetaOK(b, Append(m, value))
  BY <1>0, <1>1, <1>7, MetaAfterTake DEF Drawing, WellFormed
<1>9. Partitioned(b, Append(m, value), premint, max)
  <2>1. Span(a, idx) = {value}
    BY DEF Drawing, Span, Start, Size
  <2>2. \A t : (\E i \in DOMAIN b.ranges : t \in Span(b, i))
                  <=> (\E i \in DOMAIN a.ranges : i # idx /\ t \in Span(a, i))
    <3> SUFFICES ASSUME NEW t
                 PROVE  (\E i \in DOMAIN b.ranges : t \in Span(b, i))
                  <=> (\E i \in DOMAIN a.ranges : i # idx /\ t \in Span(a, i))
      OBVIOUS
    <3>1. ASSUME NEW i \in DOMAIN b.ranges, t \in Span(b, i)
          PROVE  \E j \in DOMAIN a.ranges : j # idx /\ t \in Span(a, j)
      <4>1. CASE i = idx
        BY <3>1, <4>1, <1>1, <1>2, <1>3, <1>5
      <4>2. CASE i # idx
        <5>1. i \in DOMAIN a.ranges
          BY <1>1, <1>2, <1>3
        <5>2. t \in Span(a, i)
          BY <1>3, <1>5, <3>1, <4>2
        <5>3. QED BY <4>2, <5>1, <5>2
      <4>3. QED BY <4>1, <4>2
    <3>2. ASSUME NEW j \in DOMAIN a.ranges, j # idx, t \in Span(a, j)
          PROVE  \E i \in DOMAIN b.ranges : t \in Span(b, i)
      <4>1. CASE j = last
        <5>1. idx \in DOMAIN b.ranges /\ Span(b, idx) = Span(a, last)
          BY <3>2, <4>1, <1>1, <1>2, <1>3, <1>5
        <5>2. QED BY <5>1, <3>2, <4>1
      <4>2. CASE j # last
        <5>1. j \in DOMAIN b.ranges /\ Span(b, j) = Span(a, j)
          BY <3>2, <4>2, <1>1, <1>2, <1>3, <1>5
        <5>2. QED BY <5>1, <3>2
      <4>3. QED BY <4>1, <4>2
    <3>3. QED BY <3>1, <3>2
  <2>3. \A i \in DOMAIN a.ranges : i # idx => value \notin Span(a, i)
    BY <1>2, <2>1 DEF Drawing, WellFormed, DisjointRanges
  <2>4. ASSUME NEW t \in Drawable(premint, max)
        PROVE  (\E i \in DOMAIN b.ranges : t \in Span(b, i))
                 <=> t # value /\ \E i \in DOMAIN a.ranges : t \in Span(a, i)
    <3>1. CASE t = value
      BY <3>1, <2>2, <2>3
    <3>2. CASE t # value
      <4>1. t \notin Span(a, idx)
        BY <2>1, <3>2
      <4>2. QED BY <4>1, <2>2, <3>2
    <3>3. QED BY <3>1, <3>2
  <2>5. QED BY <2>4, PartitionAfterTake
<1>10. Append(m, value) \in Seq(Drawable(premint, max))
  BY <1>0, IdsAppend DEF Drawing, WellFormed
<1>11a. IsFcn(b.ranges) /\ IsFcn(b.meta)
  BY <1>1, PutDelFcn
<1>11. QED BY <1>1, <1>4, <1>6, <1>8, <1>9, <1>10, <1>11a DEF WellFormed, b

\* Taking the first or the last id of a longer range keeps the allocator in
\* order.
LEMMA ShrinkKeepsOrder ==
    ASSUME NEW max, NEW premint, Supply(premint, max),
           NEW a, NEW m, NEW idx, NEW start, NEW size, NEW value,
           NEW fromStart \in BOOLEAN, NEW initial \in BOOLEAN,
           Drawing(a, m, idx, start, size, value, premint, max), size > 1,
           value = IF fromStart THEN start ELSE start + size - 1
    PROVE  WellFormed(ShrinkRange(a, idx, start, size, value, fromStart, initial),
                      Append(m, value), premint, max)
<1> DEFINE b == ShrinkRange(a, idx, start, size, value, fromStart, initial)
           first == IF fromStart THEN start + 1 ELSE start
<1>0. value \in Drawable(premint, max) /\ value \notin Ids(m)
  BY DrawnIsNew
<1>1. /\ b.len = a.len
      /\ b.ranges = Put(a.ranges, idx, <<first, size - 1>>)
      /\ b.meta = Put(a.meta, value, PreModRange(idx, start, size, FALSE, FALSE, initial))
      /\ DOMAIN b = {"len", "ranges", "meta"}
      /\ b = [len |-> b.len, ranges |-> b.ranges, meta |-> b.meta]
  BY DEF ShrinkRange
<1> HIDE DEF b
<1>2. /\ a.len \in Nat /\ a.len > 0 /\ idx \in Nat
      /\ DOMAIN a.ranges = 0..(a.len - 1) /\ idx \in DOMAIN a.ranges
      /\ start \in Nat /\ size \in Nat /\ start > premint /\ start + size - 1 <= max
  BY DEF Drawing, WellFormed, RangesOK, Start, Size
<1>3. /\ DOMAIN b.ranges = DOMAIN a.ranges
      /\ b.ranges[idx] = <<first, size - 1>>
      /\ \A i \in DOMAIN a.ranges : i # idx => b.ranges[i] = a.ranges[i]
  BY <1>1, <1>2 DEF Put
<1>4. RangesOK(b, premint, max)
  <2> SUFFICES ASSUME NEW i \in DOMAIN b.ranges
               PROVE  /\ b.ranges[i] \in Nat \X Nat
                      /\ Start(b, i) > premint
                      /\ Size(b, i) > 0
                      /\ Start(b, i) + Size(b, i) - 1 <= max
    BY <1>1, <1>2, <1>3 DEF RangesOK
  <2>1. CASE i = idx
    <3>1. first \in Nat /\ size - 1 \in Nat /\ first > premint /\ size - 1 > 0
          /\ first + (size - 1) - 1 <= max
      BY <1>2 DEF Supply
    <3>2. Start(b, i) = first /\ Size(b, i) = size - 1 /\ b.ranges[i] = <<first, size - 1>>
      BY <1>3, <2>1 DEF Start, Size
    <3>3. QED BY <3>1, <3>2
  <2>2. CASE i # idx
    <3>1. b.ranges[i] = a.ranges[i] /\ i \in DOMAIN a.ranges
      BY <1>3, <2>2
    <3>2. QED BY <3>1 DEF Drawing, WellFormed, RangesOK, Start, Size
  <2>3. QED BY <2>1, <2>2
<1>5. /\ Span(a, idx) = start..(start + size - 1)
      /\ Span(b, idx) = Span(a, idx) \ {value}
      /\ value \in Span(a, idx)
      /\ \A i \in DOMAIN a.ranges : i # idx => Span(b, i) = Span(a, i)
  <2>1. Start(a, idx) = start /\ Size(a, idx) = size /\ value \in start..(start + size - 1)
    BY DEF Drawing, Start, Size
  <2>2. Start(b, idx) = first /\ Size(b, idx) = size - 1
    BY <1>3 DEF Start, Size
  <2>3. \A i \in DOMAIN a.ranges : i # idx => Span(b, i) = Span(a, i)
    BY <1>3 DEF Span, Start, Size
  <2>4. first..(first + (size - 1) - 1) = (start..(start + size - 1)) \ {value}
    <3>1. CASE fromStart
      BY <1>2, <3>1
    <3>2. CASE ~ fromStart
      BY <1>2, <3>2
    <3>3. QED BY <3>1, <3>2
  <2> HIDE DEF first
  <2>5. QED BY <2>1, <2>2, <2>3, <2>4 DEF Span
<1>6. DisjointRanges(b)
  BY <1>3, <1>5 DEF DisjointRanges, Drawing, WellFormed
<1>7. MetaOK(b, Append(m, value))
  <2>1. PreModRange(idx, start, size, FALSE, FALSE, initial) \in PreModRanges
    BY <1>2 DEF PreModRange, PreModRanges
  <2>2. QED BY <1>0, <1>1, <2>1, MetaAfterTake DEF Drawing, WellFormed
<1>8. Partitioned(b, Append(m, value), premint, max)
  <2>1. \A i \in DOMAIN a.ranges : i # idx => value \notin Span(a, i)
    BY <1>2, <1>5 DEF Drawing, WellFormed, DisjointRanges
  <2>2. \A t \in Drawable(premint, max) :
            (\E i \in DOMAIN b.ranges : t \in Span(b, i))
              <=> t # value /\ \E i \in DOMAIN a.ranges : t \in Span(a, i)
    BY <1>2, <1>3, <1>5, <2>1
  <2>3. QED BY <2>2, PartitionAfterTake
<1>9. Append(m, value) \in Seq(Drawable(premint, max))
  BY <1>0, IdsAppend DEF Drawing, WellFormed
<1>10a. IsFcn(b.ranges) /\ IsFcn(b.meta)
  BY <1>1, PutDelFcn
<1>10. QED BY <1>1, <1>4, <1>6, <1>7, <1>8, <1>9, <1>10a DEF WellFormed, b

\* Taking an inner id of a range keeps the allocator in order.
LEMMA SplitKeepsOrder ==
    ASSUME NEW max, NEW premint, Supply(premint, max),
           NEW a, NEW m, NEW idx, NEW start, NEW size, NEW value, NEW initial \in BOOLEAN,
           Drawing(a, m, idx, start, size, value, premint, max), value > start, value < start + size - 1
    PROVE  WellFormed(SplitRange(a, idx, value, start, size, value - start, initial),
                      Append(m, value), premint, max)
<1> DEFINE b == SplitRange(a, idx, value, start, size, value - start, initial)
<1>0. value \in Drawable(premint, max) /\ value \notin Ids(m)
  BY DrawnIsNew
<1>1. /\ b.len = a.len + 1
      /\ b.ranges = Put(Put(a.ranges, idx, <<start, value - start>>),
                        a.len, <<value + 1, size - (value - start) - 1>>)
      /\ b.meta = Put(a.meta, value, PreModRange(idx, start, size, FALSE, TRUE, initial))
      /\ DOMAIN b = {"len", "ranges", "meta"}
      /\ b = [len |-> b.len, ranges |-> b.ranges, meta |-> b.meta]
  BY DEF SplitRange
<1> HIDE DEF b
<1>2. /\ a.len \in Nat /\ a.len > 0 /\ idx \in Nat /\ idx < a.len
      /\ DOMAIN a.ranges = 0..(a.len - 1) /\ idx \in DOMAIN a.ranges
      /\ start \in Nat /\ size \in Nat /\ start > premint /\ start + size - 1 <= max
      /\ value \in Nat
  BY DEF Drawing, WellFormed, RangesOK, Start, Size
<1>3. /\ DOMAIN b.ranges = 0..a.len
      /\ b.ranges[idx] = <<start, value - start>>
      /\ b.ranges[a.len] = <<value + 1, size - (value - start) - 1>>
      /\ \A i \in DOMAIN a.ranges : i # idx => b.ranges[i] = a.ranges[i]
  <2>1. DOMAIN b.ranges = (DOMAIN a.ranges \cup {idx}) \cup {a.len}
    BY <1>1 DEF Put
  <2>2. (DOMAIN a.ranges \cup {idx}) \cup {a.len} = 0..a.len
    BY <1>2
  <2>3. idx # a.len /\ a.len \notin DOMAIN a.ranges
    BY <1>2
  <2>4. \A i \in DOMAIN b.ranges :
           b.ranges[i] = IF i = a.len THEN <<value + 1, size - (value - start) - 1>>
                         ELSE IF i = idx THEN <<start, value - start>> ELSE a.ranges[i]
    BY <1>1 DEF Put
  <2>5. QED BY <2>1, <2>2, <2>3, <2>4
<1> DEFINE right == size - (value - start) - 1
<1>3a. /\ start > premint /\ value - start \in Nat /\ value - start > 0
       /\ start + (value - start) - 1 <= max
       /\ value + 1 \in Nat /\ value + 1 > premint /\ right \in Nat /\ right > 0
       /\ (value + 1) + right - 1 = start + size - 1
  <2>1. premint \in Int /\ max \in Int
    BY DEF Supply
  <2>2. /\ value - start \in Nat /\ value - start > 0
        /\ start + (value - start) - 1 <= max
    BY <1>2, <2>1
  <2>3. value + 1 \in Nat /\ value + 1 > premint
    BY <1>2, <2>1
  <2>4. right \in Nat /\ right > 0 /\ (value + 1) + right - 1 = start + size - 1
    BY <1>2
  <2>5. QED BY <1>2, <2>2, <2>3, <2>4
<1>3b. /\ Start(b, idx) = start /\ Size(b, idx) = value - start
       /\ Start(b, a.len) = value + 1 /\ Size(b, a.len) = right
       /\ b.ranges[idx] \in Nat \X Nat /\ b.ranges[a.len] \in Nat \X Nat
  <2>1. /\ b.ranges[idx] = <<start, value - start>> /\ b.ranges[a.len] = <<value + 1, right>>
        /\ start \in Nat /\ value - start \in Nat /\ value + 1 \in Nat /\ right \in Nat
    BY <1>2, <1>3, <1>3a
  <2> HIDE DEF right
  <2>2. QED BY <2>1 DEF Start, Size
<1>4. RangesOK(b, premint, max)
  <2> SUFFICES ASSUME NEW i \in DOMAIN b.ranges
               PROVE  /\ b.ranges[i] \in Nat \X Nat
                      /\ Start(b, i) > premint
                      /\ Size(b, i) > 0
                      /\ Start(b, i) + Size(b, i) - 1 <= max
    <3>1. b.len \in Nat /\ b.len - 1 = a.len
      BY <1>1, <1>2
    <3>2. QED BY <3>1, <1>3 DEF RangesOK
  <2>1. CASE i = idx
    BY <1>3a, <1>3b, <2>1
  <2>2. CASE i = a.len
    BY <1>2, <1>3a, <1>3b, <2>2
  <2>3. CASE i # idx /\ i # a.len
    <3>1. i \in DOMAIN a.ranges
      BY <1>2, <1>3, <2>3
    <3>2. b.ranges[i] = a.ranges[i]
      BY <3>1, <1>3, <2>3
    <3>3. QED BY <3>1, <3>2 DEF Drawing, WellFormed, RangesOK, Start, Size
  <2>4. QED BY <2>1, <2>2, <2>3
<1>5. /\ Span(a, idx) = start..(start + size - 1)
      /\ Span(b, idx) = start..(value - 1)
      /\ Span(b, a.len) = (value + 1)..(start + size - 1)
      /\ value \in Span(a, idx)
      /\ \A i \in DOMAIN a.ranges : i # idx => Span(b, i) = Span(a, i)
  <2>1. Start(a, idx) = start /\ Size(a, idx) = size
    BY DEF Drawing, Start, Size
  <2>2. \A i \in DOMAIN a.ranges : i # idx => Span(b, i) = Span(a, i)
    BY <1>3 DEF Span, Start, Size
  <2>3. start + (value - start) - 1 = value - 1
    BY <1>2
  <2>4. QED BY <1>3a, <1>3b, <2>1, <2>2, <2>3 DEF Span, Drawing
<1>6. /\ Span(b, idx) \cup Span(b, a.len) = Span(a, idx) \ {value}
      /\ Span(b, idx) \cap Span(b, a.len) = {}
  BY <1>2, <1>5
<1>7. \A i \in DOMAIN b.ranges : i = a.len \/ i \in DOMAIN a.ranges
  BY <1>2, <1>3
<1>8. DisjointRanges(b)
  <2>1. \A i \in DOMAIN a.ranges : i # idx => Span(a, i) \cap Span(a, idx) = {}
    BY <1>2 DEF DisjointRanges, Drawing, WellFormed
  <2>2. \A i, j \in DOMAIN a.ranges : i # j => Span(b, i) \cap Span(b, j) = {}
    BY <1>5, <1>6 DEF DisjointRanges, Drawing, WellFormed
  <2>3. \A i \in DOMAIN a.ranges : Span(b, i) \cap Span(b, a.len) = {}
    BY <1>5, <1>6, <2>1
  <2>4. QED BY <2>2, <2>3, <1>7 DEF DisjointRanges
<1>9. MetaOK(b, Append(m, value))
  <2>1. PreModRange(idx, start, size, FALSE, TRUE, initial) \in PreModRanges
    BY <1>2 DEF PreModRange, PreModRanges
  <2>2. QED BY <1>0, <1>1, <2>1, MetaAfterTake DEF Drawing, WellFormed
<1>10. Partitioned(b, Append(m, value), premint, max)
  <2>1. \A i \in DOMAIN a.ranges : i # idx => value \notin Span(a, i)
    BY <1>2, <1>5 DEF Drawing, WellFormed, DisjointRanges
  <2>2. ASSUME NEW t \in Drawable(premint, max)
        PROVE  (\E i \in DOMAIN b.ranges : t \in Span(b, i))
                 <=> t # value /\ \E i \in DOMAIN a.ranges : t \in Span(a, i)
    <3>1. ASSUME NEW i \in DOMAIN b.ranges, t \in Span(b, i)
          PROVE  t # value /\ \E j \in DOMAIN a.ranges : t \in Span(a, j)
      <4>1. CASE i = idx \/ i = a.len
        BY <3>1, <4>1, <1>2, <1>6
      <4>2. CASE i # idx /\ i # a.len
        BY <3>1, <4>2, <1>5, <1>7, <2>1
      <4>3. QED BY <4>1, <4>2
    <3>2. ASSUME NEW j \in DOMAIN a.ranges, t \in Span(a, j), t # value
          PROVE  \E i \in DOMAIN b.ranges : t \in Span(b, i)
      <4>0. DOMAIN a.ranges \subseteq DOMAIN b.ranges /\ a.len \in DOMAIN b.ranges
        BY <1>2, <1>3
      <4>1. idx \in DOMAIN b.ranges /\ a.len \in DOMAIN b.ranges /\ j \in DOMAIN b.ranges
        BY <1>2, <3>2, <4>0
      <4>2. CASE j = idx
        BY <3>2, <4>1, <4>2, <1>6
      <4>3. CASE j # idx
        BY <3>2, <4>1, <4>3, <1>5
      <4>4. QED BY <4>2, <4>3
    <3>3. QED BY <3>1, <3>2
  <2>3. QED BY <2>2, PartitionAfterTake
<1>11. Append(m, value) \in Seq(Drawable(premint, max))
  BY <1>0, IdsAppend DEF Drawing, WellFormed
<1>12a. IsFcn(b.ranges) /\ IsFcn(b.meta)
  BY <1>1, PutDelFcn
<1>12. QED BY <1>1, <1>4, <1>8, <1>9, <1>10, <1>11, <1>12a DEF WellFormed, b

\* The four cases of generate_token_id together.
LEMMA TakeKeepsOrder ==
    ASSUME NEW max, NEW premint, Supply(premint, max),
           NEW a, NEW m, NEW idx, NEW start, NEW size, NEW value, NEW initial \in BOOLEAN,
           Drawing(a, m, idx, start, size, value, premint, max)
    PROVE  WellFormed(TakeFromRange(a, idx, start, size, value, initial), Append(m, value), premint, max)
<1>1. start \in Nat /\ size \in Nat /\ value \in Nat
      /\ value >= start /\ value <= start + size - 1
  BY DEF Drawing
<1>2. CASE value = start /\ size = 1
  <2>1. TakeFromRange(a, idx, start, size, value, initial)
          = RemoveRange(a, idx, value, start, size, initial)
    BY <1>1, <1>2 DEF TakeFromRange
  <2>2. QED BY <2>1, <1>2, RemoveKeepsOrder
<1>3. CASE value = start /\ size # 1
  <2>1. TakeFromRange(a, idx, start, size, value, initial)
          = ShrinkRange(a, idx, start, size, value, TRUE, initial)
    BY <1>1, <1>3 DEF TakeFromRange
  <2>2. size > 1
    BY <1>1, <1>3
  <2>3. QED BY <2>1, <2>2, <1>3, ShrinkKeepsOrder
<1>4. CASE value # start /\ value = start + size - 1
  <2>1. TakeFromRange(a, idx, start, size, value, initial)
          = ShrinkRange(a, idx, start, size, value, FALSE, initial)
    BY <1>1, <1>4 DEF TakeFromRange
  <2>2. size > 1
    BY <1>1, <1>4
  <2>3. QED BY <2>1, <2>2, <1>4, ShrinkKeepsOrder
<1>5. CASE value # start /\ value # start + size - 1
  <2>1. TakeFromRange(a, idx, start, size, value, initial)
          = SplitRange(a, idx, value, start, size, value - start, initial)
    <3>1. value - start # 0 /\ value - start # size - 1
      BY <1>1, <1>5
    <3>2. QED BY <3>1 DEF TakeFromRange
  <2>2. value > start /\ value < start + size - 1
    BY <1>1, <1>5
  <2>3. QED BY <2>1, <2>2, SplitKeepsOrder
<1>6. QED BY <1>2, <1>3, <1>4, <1>5

\* Storing metadata under a fresh id and deleting it again changes nothing.
LEMMA PutDel ==
    ASSUME NEW f, NEW k, NEW v, IsFcn(f), k \notin DOMAIN f
    PROVE  Del(Put(f, k, v), k) = f
<1>1. (DOMAIN f \cup {k}) \ {k} = DOMAIN f
  OBVIOUS
<1>2. Del(Put(f, k, v), k) = [x \in DOMAIN f |-> f[x]]
  <2>1. DOMAIN Put(f, k, v) = DOMAIN f \cup {k}
    BY DEF Put
  <2>2. \A x \in DOMAIN f : Put(f, k, v)[x] = f[x]
    BY DEF Put
  <2>3. QED BY <1>1, <2>1, <2>2 DEF Del, DelAll
<1>3. QED BY <1>2 DEF IsFcn

\* Two functions on the same domain that agree on it are equal.
LEMMA FcnEqual ==
    ASSUME NEW f, NEW g, IsFcn(f), IsFcn(g), DOMAIN f = DOMAIN g,
           \A x \in DOMAIN f : f[x] = g[x]
    PROVE  f = g
BY DEF IsFcn

\* Undoing the removal of a range gives back the allocator.
LEMMA UndoRemove ==
    ASSUME NEW max, NEW premint, Supply(premint, max),
           NEW a, NEW m, NEW idx, NEW start, NEW size, NEW value, NEW initial,
           Drawing(a, m, idx, start, size, value, premint, max), size = 1
    PROVE  LET b   == RemoveRange(a, idx, value, start, size, initial)
               pre == b.meta[value]
           IN  /\ pre.is_initial = initial /\ pre.range_index = idx
               /\ UndoMint(b, value) = a
<1> DEFINE last == a.len - 1
           b == RemoveRange(a, idx, value, start, size, initial)
           pre == PreModRange(idx, start, size, TRUE, FALSE, initial)
           u == RevertRemovedRange(b, pre)
<1>p. /\ pre.range_index = idx /\ pre.start = start /\ pre.size = size
      /\ pre.is_initial = initial /\ pre.removed = TRUE
  BY DEF PreModRange
<1> HIDE DEF pre
<1>0. value \notin Ids(m)
  BY DrawnIsNew
<1>1. /\ b = [len |-> last,
              ranges |-> IF idx < last THEN Del(Put(a.ranges, idx, a.ranges[last]), last)
                                       ELSE Del(a.ranges, idx),
              meta |-> Put(a.meta, value, pre)]
  BY DEF RemoveRange, pre
<1> HIDE DEF b
<1>2. /\ a.len \in Nat /\ a.len > 0 /\ idx \in Nat /\ idx <= last /\ last \in Nat
      /\ DOMAIN a.ranges = 0..last /\ IsFcn(a.ranges) /\ IsFcn(a.meta)
      /\ a.ranges[idx] = <<start, size>>
      /\ DOMAIN a.meta = Ids(m)
      /\ a = [len |-> a.len, ranges |-> a.ranges, meta |-> a.meta]
  BY DEF Drawing, WellFormed, RangesOK, MetaOK
<1>3. b.meta[value] = pre
  BY <1>1 DEF Put
<1>4. Del(b.meta, value) = a.meta
  BY <1>0, <1>1, <1>2, PutDel
<1>1b. b = [len |-> b.len, ranges |-> b.ranges, meta |-> b.meta]
  BY <1>1
<1>5. u = [len |-> b.len + 1,
           ranges |-> Put(IF idx < b.len THEN Put(b.ranges, b.len, b.ranges[idx]) ELSE b.ranges,
                          idx, <<start, size>>),
           meta |-> b.meta]
  BY <1>1b, <1>p DEF RevertRemovedRange
<1> HIDE DEF u
<1>6. u.ranges = a.ranges
  <2>1. IsFcn(u.ranges)
    BY <1>5, PutDelFcn
  <2>2. CASE idx < last
    <3>1. b.len = last /\ b.ranges = Del(Put(a.ranges, idx, a.ranges[last]), last)
      BY <1>1, <2>2
    <3>2. /\ DOMAIN b.ranges = (DOMAIN a.ranges \cup {idx}) \ {last}
          /\ b.ranges[idx] = a.ranges[last]
          /\ \A i \in DOMAIN b.ranges : i # idx => b.ranges[i] = a.ranges[i]
      BY <1>2, <2>2, <3>1 DEF Del, DelAll, Put
    <3>3. u.ranges = Put(Put(b.ranges, last, b.ranges[idx]), idx, <<start, size>>)
      BY <1>5, <2>2, <3>1
    <3>4. DOMAIN u.ranges = (DOMAIN b.ranges \cup {last}) \cup {idx}
      BY <3>3 DEF Put
    <3>5. DOMAIN u.ranges = DOMAIN a.ranges
      BY <3>2, <3>4, <1>2, <2>2
    <3>6. \A i \in DOMAIN a.ranges : u.ranges[i] = a.ranges[i]
      <4> SUFFICES ASSUME NEW i \in DOMAIN a.ranges PROVE u.ranges[i] = a.ranges[i]
        OBVIOUS
      <4>1. CASE i = idx
        BY <4>1, <3>3, <1>2 DEF Put
      <4>2. CASE i = last
        BY <4>2, <3>2, <3>3, <1>2, <2>2 DEF Put
      <4>3. CASE i # idx /\ i # last
        BY <4>3, <3>2, <3>3, <1>2, <2>2 DEF Put
      <4>4. QED BY <4>1, <4>2, <4>3
    <3>7. QED BY <2>1, <3>5, <3>6, <1>2, FcnEqual
  <2>3. CASE ~(idx < last)
    <3>1. b.len = last /\ b.ranges = Del(a.ranges, idx) /\ idx = last
      BY <1>1, <1>2, <2>3
    <3>2. u.ranges = Put(b.ranges, idx, <<start, size>>)
      BY <1>5, <2>3, <3>1
    <3>3. DOMAIN u.ranges = (DOMAIN a.ranges \ {idx}) \cup {idx}
      BY <3>1, <3>2 DEF Put, Del, DelAll
    <3>4. DOMAIN u.ranges = DOMAIN a.ranges
      BY <3>3, <1>2, <3>1
    <3>5. \A i \in DOMAIN a.ranges : u.ranges[i] = a.ranges[i]
      BY <3>1, <3>2, <1>2 DEF Put, Del, DelAll
    <3>6. QED BY <2>1, <3>4, <3>5, <1>2, FcnEqual
  <2>4. QED BY <2>2, <2>3
<1>7. b.len + 1 = a.len
  BY <1>1, <1>2
<1>8. [u EXCEPT !.meta = Del(b.meta, value)] = a
  BY <1>2, <1>4, <1>5, <1>6, <1>7
<1>9. QED BY <1>p, <1>3, <1>8 DEF UndoMint, UndoRangeChange, b, u

\* Undoing a shrink gives back the allocator.
LEMMA UndoShrink ==
    ASSUME NEW max, NEW premint, Supply(premint, max),
           NEW a, NEW m, NEW idx, NEW start, NEW size, NEW value,
           NEW fromStart \in BOOLEAN, NEW initial,
           Drawing(a, m, idx, start, size, value, premint, max)
    PROVE  LET b   == ShrinkRange(a, idx, start, size, value, fromStart, initial)
               pre == b.meta[value]
           IN  /\ pre.is_initial = initial /\ pre.range_index = idx
               /\ UndoMint(b, value) = a
<1> DEFINE b == ShrinkRange(a, idx, start, size, value, fromStart, initial)
           r == IF fromStart THEN <<start + 1, size - 1>> ELSE <<start, size - 1>>
           pre == PreModRange(idx, start, size, FALSE, FALSE, initial)
           u == RestoreRangeMaybeSplit(b, pre)
<1>p. /\ pre.range_index = idx /\ pre.start = start /\ pre.size = size
      /\ pre.is_initial = initial /\ pre.removed = FALSE /\ pre.split = FALSE
  BY DEF PreModRange
<1> HIDE DEF pre
<1>0. value \notin Ids(m)
  BY DrawnIsNew
<1>1. b = [len |-> a.len, ranges |-> Put(a.ranges, idx, r), meta |-> Put(a.meta, value, pre)]
  BY DEF ShrinkRange, pre
<1> HIDE DEF b
<1>2. /\ idx \in DOMAIN a.ranges /\ IsFcn(a.ranges) /\ IsFcn(a.meta)
      /\ a.ranges[idx] = <<start, size>>
      /\ DOMAIN a.meta = Ids(m)
      /\ a = [len |-> a.len, ranges |-> a.ranges, meta |-> a.meta]
  BY DEF Drawing, WellFormed, RangesOK, MetaOK
<1>3. b.meta[value] = pre
  BY <1>1 DEF Put
<1>4. Del(b.meta, value) = a.meta
  BY <1>0, <1>1, <1>2, PutDel
<1>5. u = [len |-> a.len, ranges |-> Put(b.ranges, idx, <<start, size>>), meta |-> b.meta]
  BY <1>1, <1>p DEF RestoreRangeMaybeSplit
<1> HIDE DEF u
<1>6. u.ranges = a.ranges
  <2>1. IsFcn(u.ranges)
    BY <1>5, PutDelFcn
  <2>2. DOMAIN u.ranges = DOMAIN a.ranges /\ \A i \in DOMAIN a.ranges : u.ranges[i] = a.ranges[i]
    BY <1>1, <1>2, <1>5 DEF Put
  <2>3. QED BY <2>1, <2>2, <1>2, FcnEqual
<1>7. [u EXCEPT !.meta = Del(b.meta, value)] = a
  BY <1>2, <1>4, <1>5, <1>6
<1>8. QED BY <1>p, <1>3, <1>7 DEF UndoMint, UndoRangeChange, b, u

\* Undoing a split gives back the allocator.
LEMMA UndoSplit ==
    ASSUME NEW max, NEW premint, Supply(premint, max),
           NEW a, NEW m, NEW idx, NEW start, NEW size, NEW value, NEW initial,
           NEW offset, Drawing(a, m, idx, start, size, value, premint, max)
    PROVE  LET b   == SplitRange(a, idx, value, start, size, offset, initial)
               pre == b.meta[value]
           IN  /\ pre.is_initial = initial /\ pre.range_index = idx
               /\ UndoMint(b, value) = a
<1> DEFINE b == SplitRange(a, idx, value, start, size, offset, initial)
           pre == PreModRange(idx, start, size, FALSE, TRUE, initial)
           u == RestoreRangeMaybeSplit(b, pre)
<1>p. /\ pre.range_index = idx /\ pre.start = start /\ pre.size = size
      /\ pre.is_initial = initial /\ pre.removed = FALSE /\ pre.split = TRUE
  BY DEF PreModRange
<1> HIDE DEF pre
<1>0. value \notin Ids(m)
  BY DrawnIsNew
<1>1. b = [len |-> a.len + 1,
           ranges |-> Put(Put(a.ranges, idx, <<start, offset>>),
                          a.len, <<value + 1, size - offset - 1>>),
           meta |-> Put(a.meta, value, pre)]
  BY DEF SplitRange, pre
<1> HIDE DEF b
<1>2. /\ idx \in DOMAIN a.ranges /\ IsFcn(a.ranges) /\ IsFcn(a.meta)
      /\ a.len \in Nat /\ DOMAIN a.ranges = 0..(a.len - 1)
      /\ a.ranges[idx] = <<start, size>>
      /\ DOMAIN a.meta = Ids(m)
      /\ a = [len |-> a.len, ranges |-> a.ranges, meta |-> a.meta]
  BY DEF Drawing, WellFormed, RangesOK, MetaOK
<1>3. b.meta[value] = pre
  BY <1>1 DEF Put
<1>4. Del(b.meta, value) = a.meta
  BY <1>0, <1>1, <1>2, PutDel
<1>5. b.len - 1 = a.len /\ a.len \notin DOMAIN a.ranges /\ a.len # idx
  BY <1>1, <1>2
<1>6. u = [len |-> a.len, ranges |-> Del(Put(b.ranges, idx, <<start, size>>), a.len),
           meta |-> b.meta]
  BY <1>1, <1>p, <1>5 DEF RestoreRangeMaybeSplit
<1> HIDE DEF u
<1>7. u.ranges = a.ranges
  <2>1. IsFcn(u.ranges)
    BY <1>6, PutDelFcn
  <2>2. DOMAIN u.ranges = ((DOMAIN a.ranges \cup {idx}) \cup {a.len} \cup {idx}) \ {a.len}
    BY <1>1, <1>6 DEF Put, Del, DelAll
  <2>3. DOMAIN u.ranges = DOMAIN a.ranges
    BY <1>2, <1>5, <2>2
  <2>4. \A i \in DOMAIN a.ranges : u.ranges[i] = a.ranges[i]
    BY <1>1, <1>2, <1>5, <1>6 DEF Put, Del, DelAll
  <2>5. QED BY <2>1, <2>3, <2>4, <1>2, FcnEqual
<1>8. [u EXCEPT !.meta = Del(b.meta, value)] = a
  BY <1>2, <1>4, <1>6, <1>7
<1>9. QED BY <1>p, <1>3, <1>8 DEF UndoMint, UndoRangeChange, b, u

\* Undoing a draw, whichever case it fell in, gives back the allocator.
LEMMA UndoTake ==
    ASSUME NEW max, NEW premint, Supply(premint, max),
           NEW a, NEW m, NEW idx, NEW start, NEW size, NEW value, NEW initial,
           Drawing(a, m, idx, start, size, value, premint, max)
    PROVE  LET b   == TakeFromRange(a, idx, start, size, value, initial)
               pre == b.meta[value]
           IN  /\ pre.is_initial = initial /\ pre.range_index = idx
               /\ UndoMint(b, value) = a
<1>1. \/ /\ size = 1
         /\ TakeFromRange(a, idx, start, size, value, initial)
              = RemoveRange(a, idx, value, start, size, initial)
      \/ \E f \in BOOLEAN :
            TakeFromRange(a, idx, start, size, value, initial)
              = ShrinkRange(a, idx, start, size, value, f, initial)
      \/ TakeFromRange(a, idx, start, size, value, initial)
           = SplitRange(a, idx, value, start, size, value - start, initial)
  BY DEF TakeFromRange
<1>2. CASE /\ size = 1
           /\ TakeFromRange(a, idx, start, size, value, initial)
                = RemoveRange(a, idx, value, start, size, initial)
  BY <1>2, UndoRemove
<1>3. ASSUME NEW f \in BOOLEAN,
             TakeFromRange(a, idx, start, size, value, initial)
               = ShrinkRange(a, idx, start, size, value, f, initial)
      PROVE  LET b   == TakeFromRange(a, idx, start, size, value, initial)
                 pre == b.meta[value]
             IN  /\ pre.is_initial = initial /\ pre.range_index = idx
                 /\ UndoMint(b, value) = a
  BY <1>3, UndoShrink
<1>4. CASE TakeFromRange(a, idx, start, size, value, initial)
             = SplitRange(a, idx, value, start, size, value - start, initial)
  BY <1>4, UndoSplit
<1>5. QED BY <1>1, <1>2, <1>3, <1>4

\* In b, the draw of value from range idx of a can be undone.
Undoable(b, value, a, idx, initial) ==
    /\ UndoMint(b, value) = a
    /\ b.meta[value].range_index = idx
    /\ b.meta[value].is_initial <=> initial

LEMMA TakeUndoable ==
    ASSUME NEW max, NEW premint, Supply(premint, max),
           NEW a, NEW m, NEW idx, NEW start, NEW size, NEW value, NEW initial \in BOOLEAN,
           Drawing(a, m, idx, start, size, value, premint, max)
    PROVE  Undoable(TakeFromRange(a, idx, start, size, value, initial), value, a, idx, initial)
BY UndoTake DEF Undoable

\* While the supply is not exhausted there is a range to draw from.
LEMMA SupplyLeft ==
    ASSUME NEW max, NEW premint, Supply(premint, max),
           NEW a, NEW m, WellFormed(a, m, premint, max), premint + Len(m) + 1 <= max
    PROVE  a.len > 0
<1> SUFFICES ASSUME a.len = 0 PROVE FALSE
  BY DEF WellFormed, RangesOK
<1>1. m \in Seq(Drawable(premint, max)) /\ Len(m) \in Nat /\ m \in [1..Len(m) -> Drawable(premint, max)]
  BY DEF WellFormed
<1>2. Drawable(premint, max) \subseteq Ids(m)
  BY DEF WellFormed, RangesOK, Partitioned
<1>3. m \in Surjection(1..Len(m), Drawable(premint, max))
  BY <1>1, <1>2 DEF Surjection, Ids
<1>4. Cardinality(Drawable(premint, max)) <= Len(m)
  BY <1>1, <1>3, FS_SurjCardinalityBound DEF ExistsSurjection
<1>5. Cardinality(Drawable(premint, max)) = max - premint
  <2>1. /\ premint + 1 \in Int /\ max \in Int /\ premint \in Nat
        /\ ~(premint + 1 > max)
    BY <1>1 DEF Supply
  <2>2. Cardinality(Drawable(premint, max)) = max - (premint + 1) + 1
    BY <2>1, FS_Interval DEF Drawable
  <2>3. QED BY <2>1, <2>2
<1>6. QED BY <1>1, <1>4, <1>5 DEF Supply

\* The allocator after the mints m, the untouched one included.
InOrder(a, m, premint, max) ==
    /\ m = <<>> => a = NoRanges
    /\ m # <<>> => WellFormed(a, m, premint, max)

\* The allocator that holds the whole interval as its only range.
Whole(premint, max) == [len |-> 1, ranges |-> Put(NoEntries, 0, <<1 + premint, max - premint>>),
          meta |-> NoEntries]

LEMMA WholeDrawing ==
    ASSUME NEW max, NEW premint, Supply(premint, max),
           NEW value \in Drawable(premint, max)
    PROVE  Drawing(Whole(premint, max), <<>>, 0, 1 + premint, max - premint, value, premint, max)
<1> DEFINE w == Whole(premint, max)
<1>1. /\ premint \in Nat /\ max \in Nat /\ premint < max
      /\ value \in (1 + premint)..((1 + premint) + (max - premint) - 1)
      /\ max - premint \in Nat /\ max - premint > 0
      /\ (1 + premint) + (max - premint) - 1 = max
  BY DEF Drawable, Supply
<1>2. /\ w.len = 1 /\ w.meta = NoEntries
      /\ w.ranges = Put(NoEntries, 0, <<1 + premint, max - premint>>)
      /\ DOMAIN w = {"len", "ranges", "meta"}
      /\ w = [len |-> w.len, ranges |-> w.ranges, meta |-> w.meta]
  BY DEF w, Whole
<1> HIDE DEF w
<1>3. /\ DOMAIN w.ranges = {0}
      /\ w.ranges[0] = <<1 + premint, max - premint>>
  BY <1>2 DEF Put, NoEntries
<1>4. 0..(w.len - 1) = {0}
  BY <1>2
<1>5. Start(w, 0) = 1 + premint /\ Size(w, 0) = max - premint
  BY <1>3 DEF Start, Size
<1>6. RangesOK(w, premint, max)
  <2>1. w.ranges[0] \in Nat \X Nat
    BY <1>1, <1>3
  <2>2. QED BY <1>1, <1>2, <1>3, <1>4, <1>5, <2>1 DEF RangesOK
<1>7. DisjointRanges(w)
  BY <1>3 DEF DisjointRanges
<1>8. Ids(<<>>) = {}
  BY DEF Ids
<1>9. MetaOK(w, <<>>)
  BY <1>2, <1>8 DEF MetaOK, NoEntries
<1>10. Span(w, 0) = Drawable(premint, max)
  BY <1>1, <1>5 DEF Span, Drawable
<1>11. Partitioned(w, <<>>, premint, max)
  BY <1>3, <1>8, <1>10 DEF Partitioned
<1>12. IsFcn(w.ranges) /\ IsFcn(w.meta)
  BY <1>2, PutDelFcn DEF IsFcn, NoEntries
<1>13. <<>> \in Seq(Drawable(premint, max))
  OBVIOUS
<1>14. WellFormed(w, <<>>, premint, max)
  BY <1>2, <1>6, <1>7, <1>9, <1>11, <1>12, <1>13 DEF WellFormed
<1>15. /\ w.len > 0 /\ 0 \in 0..(w.len - 1)
       /\ 1 + premint \in Nat /\ max - premint \in Nat
  BY <1>1, <1>2
<1>16. QED BY <1>1, <1>3, <1>14, <1>15 DEF Drawing, w

\* The first mint works on the interval without storing it first: the result
\* is the same.
LEMMA TakeFromWhole ==
    ASSUME NEW max, NEW premint, Supply(premint, max),
           NEW start, NEW size, NEW value,
           start = 1 + premint, size = max - premint
    PROVE  TakeFromRange([NoRanges EXCEPT !.len = 1], 0, start, size, value, TRUE)
             = TakeFromRange(Whole(premint, max), 0, start, size, value, TRUE)
<1> DEFINE z == [NoRanges EXCEPT !.len = 1]
<1>1. /\ z.len = 1 /\ Whole(premint, max).len = 1
      /\ z.ranges = NoEntries /\ Whole(premint, max).ranges = Put(NoEntries, 0, <<start, size>>)
      /\ z.meta = NoEntries /\ Whole(premint, max).meta = NoEntries
  BY DEF NoRanges, Whole
<1> HIDE DEF z
<1>2. Del(Whole(premint, max).ranges, 0) = Del(z.ranges, 0)
  <2>1. IsFcn(Del(Whole(premint, max).ranges, 0)) /\ IsFcn(Del(z.ranges, 0))
    BY PutDelFcn
  <2>2. DOMAIN Del(Whole(premint, max).ranges, 0) = {} /\ DOMAIN Del(z.ranges, 0) = {}
    BY <1>1 DEF Del, DelAll, Put, NoEntries
  <2>3. QED BY <2>1, <2>2, FcnEqual
<1>3. \A v : Put(Whole(premint, max).ranges, 0, v) = Put(z.ranges, 0, v)
  <2> TAKE v
  <2>1. IsFcn(Put(Whole(premint, max).ranges, 0, v)) /\ IsFcn(Put(z.ranges, 0, v))
    BY PutDelFcn
  <2>2. /\ DOMAIN Put(Whole(premint, max).ranges, 0, v) = {0} /\ DOMAIN Put(z.ranges, 0, v) = {0}
        /\ Put(Whole(premint, max).ranges, 0, v)[0] = v /\ Put(z.ranges, 0, v)[0] = v
    BY <1>1 DEF Put, NoEntries
  <2>3. QED BY <2>1, <2>2, FcnEqual
<1>4. RemoveRange(z, 0, value, start, size, TRUE) = RemoveRange(Whole(premint, max), 0, value, start, size, TRUE)
  <2>1. ~(0 < z.len - 1) /\ ~(0 < Whole(premint, max).len - 1)
    BY <1>1
  <2>2. QED BY <1>1, <1>2, <2>1 DEF RemoveRange
<1>5. \A f \in BOOLEAN : ShrinkRange(z, 0, start, size, value, f, TRUE)
                           = ShrinkRange(Whole(premint, max), 0, start, size, value, f, TRUE)
  BY <1>1, <1>3 DEF ShrinkRange
<1>6. \A o : SplitRange(z, 0, value, start, size, o, TRUE)
               = SplitRange(Whole(premint, max), 0, value, start, size, o, TRUE)
  BY <1>1, <1>3 DEF SplitRange
<1>7. QED BY <1>4, <1>5, <1>6 DEF TakeFromRange, z

\* One draw of generate_token_id, for every entropy: the id is new, the
\* allocator stays in order, and rollback_token_generation undoes it exactly.
LEMMA GenerateStep ==
    ASSUME NEW max, NEW premint, Supply(premint, max),
           NEW a, NEW m, NEW e \in Nat,
           InOrder(a, m, premint, max), premint + Len(m) + 1 <= max
    PROVE  LET g == GenerateTokenId(a, e, max, premint)
           IN  /\ g.token \in Drawable(premint, max)
               /\ g.token \notin Ids(m)
               /\ WellFormed(g.alloc, Append(m, g.token), premint, max)
               /\ RollbackTokenGeneration(g.alloc, g.token) = a
<1> DEFINE g == GenerateTokenId(a, e, max, premint)
<1>1. CASE m = <<>>
  <2> DEFINE start == 1 + premint
             size == max - premint
             value == start + (e % size)
             b == TakeFromRange(Whole(premint, max), 0, start, size, value, TRUE)
  <2>1. a = NoRanges /\ a.len = 0
    BY <1>1 DEF InOrder, NoRanges
  <2>2. premint \in Nat /\ max \in Nat /\ size \in Nat /\ size > 0
    BY <1>1 DEF Supply
  <2>3. e % size \in 0..(size - 1)
    BY <2>2, ModRange
  <2>4. value \in Drawable(premint, max)
    BY <2>2, <2>3 DEF Drawable
  <2>5. /\ g.token = value
        /\ g.alloc = TakeFromRange([NoRanges EXCEPT !.len = 1], 0, start, size, value, TRUE)
    BY <2>1 DEF GenerateTokenId
  <2>6. g.alloc = b
    BY <2>5, TakeFromWhole
  <2> HIDE DEF g, b, start, size, value
  <2>7. Drawing(Whole(premint, max), <<>>, 0, start, size, value, premint, max)
    BY <2>4, WholeDrawing DEF start, size
  <2>8. WellFormed(b, Append(<<>>, value), premint, max) /\ value \notin Ids(<<>>)
    BY <2>7, TakeKeepsOrder, DrawnIsNew DEF b
  <2>9. Undoable(b, value, Whole(premint, max), 0, TRUE)
    BY <2>7, TakeUndoable DEF b
  <2>9b. b.meta[value].range_index = 0 /\ b.meta[value].is_initial /\ UndoMint(b, value) = Whole(premint, max)
    BY <2>9 DEF Undoable
  <2>10. RollbackTokenGeneration(b, value)
           = [len |-> Whole(premint, max).len - 1, ranges |-> Del(Whole(premint, max).ranges, 0), meta |-> Whole(premint, max).meta]
    BY <2>9b DEF RollbackTokenGeneration
  <2>11. Del(Whole(premint, max).ranges, 0) = NoEntries
    <3>1. Del(Put(NoEntries, 0, <<1 + premint, max - premint>>), 0) = NoEntries
      <4>1. IsFcn(NoEntries) /\ 0 \notin DOMAIN NoEntries
        BY DEF NoEntries, IsFcn
      <4>2. QED BY <4>1, PutDel
    <3>2. QED BY <3>1 DEF Whole
  <2>12. [len |-> Whole(premint, max).len - 1, ranges |-> NoEntries, meta |-> Whole(premint, max).meta] = NoRanges
    BY DEF Whole, NoRanges
  <2>13. QED BY <1>1, <2>1, <2>4, <2>5, <2>6, <2>8, <2>10, <2>11, <2>12 DEF g
<1>2. CASE m # <<>>
  <2> DEFINE idx == e % a.len
             start == a.ranges[idx][1]
             size == a.ranges[idx][2]
             value == start + (e % size)
             b == TakeFromRange(a, idx, start, size, value, FALSE)
  <2>1. WellFormed(a, m, premint, max) /\ a.len \in Nat /\ a.len > 0
    BY <1>2, SupplyLeft DEF InOrder, WellFormed, RangesOK
  <2>2. idx \in 0..(a.len - 1)
    BY <2>1, ModRange
  <2>3. idx \in DOMAIN a.ranges
    BY <2>1, <2>2 DEF WellFormed, RangesOK
  <2>4. /\ a.ranges[idx] \in Nat \X Nat /\ a.ranges[idx] = <<start, size>>
        /\ start \in Nat /\ size \in Nat /\ size > 0
    BY <2>1, <2>3 DEF WellFormed, RangesOK, Size
  <2>5. e % size \in 0..(size - 1)
    BY <2>4, ModRange
  <2>6. g.token = value /\ g.alloc = b
    <3>1. a.len # 0
      BY <2>1
    <3>2. QED BY <3>1 DEF GenerateTokenId
  <2>7. value \in start..(start + size - 1)
    BY <2>4, <2>5
  <2> HIDE DEF g, b, idx, start, size, value
  <2>8. Drawing(a, m, idx, start, size, value, premint, max)
    BY <2>1, <2>2, <2>4, <2>7 DEF Drawing
  <2>9. WellFormed(b, Append(m, value), premint, max) /\ value \in Drawable(premint, max) /\ value \notin Ids(m)
    BY <2>8, TakeKeepsOrder, DrawnIsNew DEF b
  <2>10. Undoable(b, value, a, idx, FALSE)
    BY <2>8, TakeUndoable DEF b
  <2>10b. ~ b.meta[value].is_initial /\ UndoMint(b, value) = a
    BY <2>10 DEF Undoable
  <2>11. RollbackTokenGeneration(b, value) = a
    BY <2>10b DEF RollbackTokenGeneration
  <2>12. QED BY <2>6, <2>9, <2>11 DEF g
<1>3. QED BY <1>1, <1>2
===============================================================================
