---------------------------- MODULE TokenIdsProofs ----------------------------
(***************************************************************************)
(* Proofs about the token id allocator for every supply, premint and       *)
(* entropy: ranges never overlap, an id is free or minted and never both,  *)
(* and rolling back the latest mint restores the allocator exactly.        *)
(***************************************************************************)
EXTENDS TokenIds, TokenRangesProofs

LEMMA SupplyIs == Supply(Premint, MaxSupply)
BY SupplyAssumption DEF Supply

\* The first k mints.
Prefix(m, k) == [j \in 1..k |-> m[j]]

LEMMA PrefixFacts ==
    ASSUME NEW S, NEW m \in Seq(S)
    PROVE  /\ Prefix(m, Len(m)) = m
           /\ \A v, k : k \in 0..Len(m) => Prefix(Append(m, v), k) = Prefix(m, k)
<1>1. Len(m) \in Nat /\ m = [j \in 1..Len(m) |-> m[j]]
  OBVIOUS
<1>2. ASSUME NEW v, NEW k \in 0..Len(m)
      PROVE  Prefix(Append(m, v), k) = Prefix(m, k)
  <2>1. \A j \in 1..k : Append(m, v)[j] = m[j]
    BY <1>1
  <2>2. QED BY <2>1 DEF Prefix
<1>3. QED BY <1>1, <1>2 DEF Prefix

LEMMA FrontFacts ==
    ASSUME NEW S, NEW s \in Seq(S), s # <<>>
    PROVE  /\ Front(s) \in Seq(S)
           /\ Len(s) \in Nat /\ Len(s) > 0 /\ Len(Front(s)) = Len(s) - 1
           /\ \A i \in 1..(Len(s) - 1) : Front(s)[i] = s[i]
           /\ \A k \in 0..(Len(s) - 1) : Prefix(Front(s), k) = Prefix(s, k)
<1>1. Len(s) \in Nat /\ Len(s) > 0 /\ s \in [1..Len(s) -> S]
  OBVIOUS
<1>2. Len(s) - 1 \in Nat /\ \A i \in 1..(Len(s) - 1) : s[i] \in S
  BY <1>1
<1>3. Front(s) \in Seq(S) /\ Len(Front(s)) = Len(s) - 1
  BY <1>2 DEF Front
<1>4. \A i \in 1..(Len(s) - 1) : Front(s)[i] = s[i]
  BY DEF Front
<1>5. ASSUME NEW k \in 0..(Len(s) - 1)
      PROVE  Prefix(Front(s), k) = Prefix(s, k)
  <2>1. \A j \in 1..k : Front(s)[j] = s[j]
    BY <1>1, <1>4
  <2>2. QED BY <2>1 DEF Prefix
<1>6. QED BY <1>1, <1>3, <1>4, <1>5

\* The allocator before the i-th mint; for i one past the mints, the current one.
AllocAt(i) == IF i <= Len(trail) THEN trail[i] ELSE alloc

\* The inductive invariant: every allocator on the trail is in order for the
\* mints before it, and rolling back the i-th mint leads from the (i+1)-th to
\* the i-th.
TrailInv ==
    /\ minted \in Seq(Drawable(Premint, MaxSupply))
    /\ \E S : trail \in Seq(S)
    /\ Len(trail) = Len(minted)
    /\ \A i \in 1..(Len(minted) + 1) : InOrder(AllocAt(i), Prefix(minted, i - 1), Premint, MaxSupply)
    /\ \A i \in 1..Len(minted) :
          RollbackTokenGeneration(AllocAt(i + 1), minted[i]) = AllocAt(i)
    /\ NoDoubleMint

LEMMA InitTrail == Init => TrailInv
<1> SUFFICES ASSUME Init PROVE TrailInv
  OBVIOUS
<1>1. minted = <<>> /\ trail = <<>> /\ alloc = NoRanges /\ Len(minted) = 0 /\ Len(trail) = 0
  BY DEF Init
<1>2. \A i \in 1..(Len(minted) + 1) : i = 1 /\ AllocAt(i) = NoRanges
  BY <1>1 DEF AllocAt
<1>3. Prefix(minted, 1 - 1) = <<>>
  BY <1>1 DEF Prefix
<1>4. InOrder(NoRanges, <<>>, Premint, MaxSupply)
  BY DEF InOrder
<1>5. \A i \in 1..(Len(minted) + 1) : InOrder(AllocAt(i), Prefix(minted, i - 1), Premint, MaxSupply)
  BY <1>2, <1>3, <1>4
<1>6. QED BY <1>1, <1>5 DEF TrailInv, NoDoubleMint

\* What the invariant says of the current allocator.
LEMMA CurrentInOrder == TrailInv => InOrder(alloc, minted, Premint, MaxSupply)
<1> SUFFICES ASSUME TrailInv PROVE InOrder(alloc, minted, Premint, MaxSupply)
  OBVIOUS
<1>1. Len(minted) \in Nat /\ Len(trail) = Len(minted)
  BY DEF TrailInv
<1>2. AllocAt(Len(minted) + 1) = alloc
  BY <1>1 DEF AllocAt
<1>3. Prefix(minted, (Len(minted) + 1) - 1) = minted
  BY <1>1, PrefixFacts DEF TrailInv
<1>4. InOrder(AllocAt(Len(minted) + 1), Prefix(minted, (Len(minted) + 1) - 1), Premint, MaxSupply)
  BY <1>1 DEF TrailInv
<1>5. QED BY <1>2, <1>3, <1>4

\* Each mint extends the trail by one allocator that its rollback leads back to.
LEMMA MintTrail ==
    ASSUME TrailInv, NEW e \in Entropies, Mint(e)
    PROVE  TrailInv'
<1> DEFINE g == GenerateTokenId(alloc, e, MaxSupply, Premint)
           n == Len(minted)
<1>1. /\ n \in Nat /\ Len(trail) = n /\ minted \in Seq(Drawable(Premint, MaxSupply)) /\ e \in Nat
  BY SupplyAssumption DEF TrailInv
<1>2. PICK S : trail \in Seq(S)
  BY DEF TrailInv
<1>3. /\ g.token \in Drawable(Premint, MaxSupply) /\ g.token \notin Ids(minted)
      /\ WellFormed(g.alloc, Append(minted, g.token), Premint, MaxSupply)
      /\ RollbackTokenGeneration(g.alloc, g.token) = alloc
  <2>1. InOrder(alloc, minted, Premint, MaxSupply) /\ Premint + Len(minted) + 1 <= MaxSupply
    BY CurrentInOrder DEF Mint
  <2>2. QED BY <1>1, <2>1, SupplyIs, GenerateStep
<1>4. alloc' = g.alloc /\ minted' = Append(minted, g.token) /\ trail' = Append(trail, alloc)
  BY DEF Mint
<1> HIDE DEF g
<1>5. /\ minted' \in Seq(Drawable(Premint, MaxSupply)) /\ Len(minted') = n + 1 /\ minted'[n + 1] = g.token
      /\ \A i \in 1..n : minted'[i] = minted[i]
  BY <1>1, <1>3, <1>4
<1>6. /\ trail' \in Seq(S \cup {alloc}) /\ Len(trail') = n + 1 /\ trail'[n + 1] = alloc
      /\ \A i \in 1..n : trail'[i] = trail[i]
  <2>1. trail \in Seq(S \cup {alloc}) /\ alloc \in S \cup {alloc}
    BY <1>2
  <2>2. QED BY <1>1, <2>1, <1>4
<1>7. /\ \A i \in 1..(n + 1) : AllocAt(i)' = AllocAt(i)
      /\ AllocAt(n + 2)' = g.alloc
  BY <1>1, <1>4, <1>6 DEF AllocAt
<1>8. \A i \in 1..(Len(minted') + 1) : InOrder(AllocAt(i)', Prefix(minted', i - 1), Premint, MaxSupply)
  <2> SUFFICES ASSUME NEW i \in 1..(n + 2)
               PROVE  InOrder(AllocAt(i)', Prefix(minted', i - 1), Premint, MaxSupply)
    BY <1>1, <1>5
  <2>1. CASE i = n + 2
    <3>1. Prefix(minted', i - 1) = minted'
      BY <2>1, <1>1, <1>5, PrefixFacts
    <3>2. minted' # <<>>
      BY <1>1, <1>5
    <3>3. AllocAt(i)' = alloc'
      BY <2>1, <1>1, <1>6 DEF AllocAt
    <3>4. InOrder(alloc', minted', Premint, MaxSupply)
      BY <3>2, <1>3, <1>4 DEF InOrder
    <3>5. QED BY <3>1, <3>3, <3>4
  <2>2. CASE i # n + 2
    <3>1. i \in 1..(n + 1) /\ i - 1 \in 0..Len(minted)
      BY <2>2, <1>1
    <3>2. Prefix(minted', i - 1) = Prefix(minted, i - 1)
      BY <3>1, <1>1, <1>4, PrefixFacts
    <3>3. InOrder(AllocAt(i), Prefix(minted, i - 1), Premint, MaxSupply)
      BY <3>1 DEF TrailInv
    <3>4. QED BY <3>1, <3>2, <3>3, <1>7
  <2>3. QED BY <2>1, <2>2
<1>9. \A i \in 1..Len(minted') :
          RollbackTokenGeneration(AllocAt(i + 1)', minted'[i]) = AllocAt(i)'
  <2> SUFFICES ASSUME NEW i \in 1..(n + 1)
               PROVE  RollbackTokenGeneration(AllocAt(i + 1)', minted'[i]) = AllocAt(i)'
    BY <1>5
  <2>1. CASE i = n + 1
    <3>0. AllocAt(i + 1)' = alloc'
      BY <2>1, <1>1, <1>6 DEF AllocAt
    <3>1. AllocAt(i + 1)' = g.alloc /\ minted'[i] = g.token
      BY <2>1, <3>0, <1>4, <1>5
    <3>2. AllocAt(i)' = alloc
      BY <2>1, <1>1, <1>6 DEF AllocAt
    <3>3. QED BY <3>1, <3>2, <1>3
  <2>2. CASE i # n + 1
    <3>1. i \in 1..n /\ i + 1 \in 1..(n + 1) /\ i \in 1..(n + 1)
      BY <2>2, <1>1
    <3>2. RollbackTokenGeneration(AllocAt(i + 1), minted[i]) = AllocAt(i)
      BY <3>1 DEF TrailInv
    <3>3. AllocAt(i + 1)' = AllocAt(i + 1) /\ AllocAt(i)' = AllocAt(i) /\ minted'[i] = minted[i]
      BY <3>1, <1>5, <1>7
    <3>4. QED BY <3>2, <3>3
  <2>3. QED BY <2>1, <2>2
<1>10. NoDoubleMint'
  <2>1. \A i \in 1..n : minted[i] # g.token
    BY <1>3 DEF Ids
  <2>2. \A i, j \in 1..n : i # j => minted[i] # minted[j]
    BY DEF TrailInv, NoDoubleMint
  <2>3. \A i \in 1..(n + 1) : i = n + 1 \/ i \in 1..n
    BY <1>1
  <2>4. QED BY <2>1, <2>2, <2>3, <1>5 DEF NoDoubleMint
<1>11. QED BY <1>5, <1>6, <1>8, <1>9, <1>10 DEF TrailInv

\* A rollback returns to the last allocator on the trail.
LEMMA RollbackTrail ==
    ASSUME TrailInv, Rollback
    PROVE  TrailInv' /\ alloc' = trail[Len(trail)]
<1> DEFINE n == Len(minted)
<1>1. /\ minted \in Seq(Drawable(Premint, MaxSupply)) /\ minted # <<>> /\ n \in Nat /\ n > 0 /\ Len(trail) = n
      /\ alloc' = RollbackTokenGeneration(alloc, minted[n])
      /\ minted' = Front(minted) /\ trail' = Front(trail)
  BY DEF TrailInv, Rollback
<1>2. PICK S : trail \in Seq(S) /\ trail # <<>>
  BY <1>1 DEF TrailInv
<1>3. alloc' = trail[n]
  <2>1. AllocAt(n + 1) = alloc /\ AllocAt(n) = trail[n]
    BY <1>1 DEF AllocAt
  <2>2. RollbackTokenGeneration(AllocAt(n + 1), minted[n]) = AllocAt(n)
    BY <1>1 DEF TrailInv
  <2>3. QED BY <1>1, <2>1, <2>2
<1>4. /\ minted' \in Seq(Drawable(Premint, MaxSupply)) /\ Len(minted') = n - 1
      /\ \A i \in 1..(n - 1) : minted'[i] = minted[i]
      /\ \A k \in 0..(n - 1) : Prefix(minted', k) = Prefix(minted, k)
  BY <1>1, FrontFacts
<1>5. /\ trail' \in Seq(S) /\ Len(trail') = n - 1
      /\ \A i \in 1..(n - 1) : trail'[i] = trail[i]
  BY <1>1, <1>2, FrontFacts
<1>6. \A i \in 1..n : AllocAt(i)' = AllocAt(i)
  <2> SUFFICES ASSUME NEW i \in 1..n PROVE AllocAt(i)' = AllocAt(i)
    OBVIOUS
  <2>1. CASE i = n
    BY <2>1, <1>1, <1>3, <1>5 DEF AllocAt
  <2>2. CASE i # n
    <3>1. i \in 1..(n - 1) /\ i <= Len(trail) /\ i <= Len(trail')
      BY <2>2, <1>1, <1>5
    <3>2. QED BY <3>1, <1>5 DEF AllocAt
  <2>3. QED BY <2>1, <2>2
<1>7. \A i \in 1..(Len(minted') + 1) : InOrder(AllocAt(i)', Prefix(minted', i - 1), Premint, MaxSupply)
  <2> SUFFICES ASSUME NEW i \in 1..n
               PROVE  InOrder(AllocAt(i)', Prefix(minted', i - 1), Premint, MaxSupply)
    BY <1>1, <1>4
  <2>1. i \in 1..(n + 1) /\ i - 1 \in 0..(n - 1)
    BY <1>1
  <2>2. InOrder(AllocAt(i), Prefix(minted, i - 1), Premint, MaxSupply)
    BY <2>1 DEF TrailInv
  <2>3. QED BY <2>1, <2>2, <1>4, <1>6
<1>8. \A i \in 1..Len(minted') :
          RollbackTokenGeneration(AllocAt(i + 1)', minted'[i]) = AllocAt(i)'
  <2> SUFFICES ASSUME NEW i \in 1..(n - 1)
               PROVE  RollbackTokenGeneration(AllocAt(i + 1)', minted'[i]) = AllocAt(i)'
    BY <1>4
  <2>1. i \in 1..n /\ i + 1 \in 1..n
    BY <1>1
  <2>2. RollbackTokenGeneration(AllocAt(i + 1), minted[i]) = AllocAt(i)
    BY <2>1 DEF TrailInv
  <2>3. AllocAt(i + 1)' = AllocAt(i + 1) /\ AllocAt(i)' = AllocAt(i) /\ minted'[i] = minted[i]
    BY <2>1, <1>4, <1>6
  <2>4. QED BY <2>2, <2>3
<1>9. NoDoubleMint'
  <2>1. \A i \in 1..(n - 1) : i \in 1..n
    BY <1>1
  <2>2. QED BY <2>1, <1>4 DEF NoDoubleMint, TrailInv
<1>10. QED BY <1>1, <1>3, <1>4, <1>5, <1>7, <1>8, <1>9 DEF TrailInv

LEMMA NextTrail == TrailInv /\ [Next]_vars => TrailInv'
<1> SUFFICES ASSUME TrailInv, [Next]_vars PROVE TrailInv'
  OBVIOUS
<1>1. ASSUME NEW e \in Entropies, Mint(e) PROVE TrailInv'
  BY <1>1, MintTrail
<1>2. CASE Rollback
  BY <1>2, RollbackTrail
<1>3. CASE UNCHANGED vars
  BY <1>3 DEF vars, TrailInv, AllocAt, NoDoubleMint
<1>4. QED BY <1>1, <1>2, <1>3 DEF Next

\* The trail invariant holds in every reachable state.
THEOREM TrailInvariant == Spec => []TrailInv
BY InitTrail, NextTrail, PTL DEF Spec

LEMMA NoRangesInOrder ==
    /\ DOMAIN NoRanges = {"len", "ranges", "meta"}
    /\ RangesOK(NoRanges, Premint, MaxSupply) /\ DisjointRanges(NoRanges) /\ MetaOK(NoRanges, <<>>)
    /\ NoRanges.len = 0
<1>1. /\ NoRanges.len = 0 /\ NoRanges.ranges = NoEntries /\ NoRanges.meta = NoEntries
      /\ DOMAIN NoRanges = {"len", "ranges", "meta"}
  BY DEF NoRanges
<1>2. DOMAIN NoEntries = {}
  BY DEF NoEntries
<1>3. 0..(0 - 1) = {} /\ Ids(<<>>) = {}
  BY DEF Ids
<1>4. QED BY <1>1, <1>2, <1>3 DEF RangesOK, DisjointRanges, MetaOK

LEMMA TrailImplies ==
    TrailInv => TypeOK /\ RangesDisjoint /\ FreeOrMinted /\ NoDoubleMint /\ RangeMustExist
<1> SUFFICES ASSUME TrailInv
             PROVE  TypeOK /\ RangesDisjoint /\ FreeOrMinted /\ NoDoubleMint /\ RangeMustExist
  OBVIOUS
<1>1. InOrder(alloc, minted, Premint, MaxSupply)
  BY CurrentInOrder
<1>2. minted \in Seq(Drawable(Premint, MaxSupply)) /\ Len(trail) = Len(minted) /\ NoDoubleMint
  BY DEF TrailInv
<1>3. CASE minted = <<>>
  <2>1. alloc = NoRanges
    BY <1>1, <1>3 DEF InOrder
  <2>2. QED
    BY <1>2, <1>3, <2>1, NoRangesInOrder DEF TypeOK, RangesDisjoint, FreeOrMinted, RangeMustExist
<1>4. CASE minted # <<>>
  <2>1. WellFormed(alloc, minted, Premint, MaxSupply)
    BY <1>1, <1>4 DEF InOrder
  <2>2. RangeMustExist
    BY <1>4, <2>1, SupplyLeft, SupplyIs DEF RangeMustExist
  <2>3. QED
    BY <1>2, <2>1, <2>2 DEF WellFormed, TypeOK, RangesDisjoint, FreeOrMinted
<1>5. QED BY <1>3, <1>4

\* Types: ranges are stored at the indices below range_lengths, metadata for
\* exactly the ids minted.
THEOREM TypeCorrect == Spec => []TypeOK
BY TrailInvariant, TrailImplies, PTL

\* For every supply, premint and entropy: no two ranges overlap, and once
\* minting has begun an id is either minted or in a range, never both.
THEOREM RangesPartition == Spec => [](RangesDisjoint /\ FreeOrMinted)
BY TrailInvariant, TrailImplies, PTL

\* No id is handed out twice, and the allocator has a range to draw from as
\* long as process_mint lets a mint through.
THEOREM DrawsAreFresh == Spec => [](NoDoubleMint /\ RangeMustExist)
BY TrailInvariant, TrailImplies, PTL

\* rollback_token_generation is the exact inverse of generate_token_id along
\* every history of mints and rollbacks.
THEOREM RollbackIsInverse == Spec => RollbackRestores
<1>1. TrailInv /\ [Next]_vars
        => [Len(minted') < Len(minted) => alloc' = trail[Len(trail)]]_vars
  <2> SUFFICES ASSUME TrailInv, Next, Len(minted') < Len(minted)
               PROVE  alloc' = trail[Len(trail)]
    OBVIOUS
  <2>1. ~ \E e \in Entropies : Mint(e)
    <3> SUFFICES ASSUME NEW e \in Entropies, Mint(e) PROVE FALSE
      OBVIOUS
    <3> DEFINE t == GenerateTokenId(alloc, e, MaxSupply, Premint).token
    <3>1. minted' = Append(minted, t) /\ minted \in Seq(Drawable(Premint, MaxSupply))
      BY DEF Mint, TrailInv
    <3> HIDE DEF t
    <3>2. Len(minted') = Len(minted) + 1 /\ Len(minted) \in Nat
      BY <3>1
    <3>3. QED BY <3>2
  <2>2. QED BY <2>1, RollbackTrail DEF Next
<1>2. QED BY <1>1, TrailInvariant, PTL DEF Spec, RollbackRestores

-----------------------------------------------------------------------------
(* The refinement of IdPool.                                               *)

\* The pool: the ids no mint that stands has drawn.
PoolInv ==
    (IF minted = <<>> THEN Drawable(Premint, MaxSupply) ELSE InRanges)
        = Drawable(Premint, MaxSupply) \ Ids(minted)

LEMMA PoolIs == TrailInv => PoolInv
<1> SUFFICES ASSUME TrailInv PROVE PoolInv
  OBVIOUS
<1>1. CASE minted = <<>>
  <2>1. Ids(minted) = {}
    BY <1>1 DEF Ids
  <2>2. QED BY <1>1, <2>1 DEF PoolInv
<1>2. CASE minted # <<>>
  <2>1. FreeOrMinted
    BY TrailImplies
  <2>2. QED BY <1>2, <2>1 DEF FreeOrMinted, Partitioned, InRanges, PoolInv
<1>3. QED BY <1>1, <1>2

\* A mint takes one id out of the pool.
LEMMA MintDraws ==
    ASSUME TrailInv, TrailInv', NEW e \in Entropies, Mint(e)
    PROVE  \E id \in Drawable(Premint, MaxSupply) \ Ids(minted) :
              /\ minted' = Append(minted, id)
              /\ Ids(minted') = Ids(minted) \cup {id}
<1> DEFINE id == GenerateTokenId(alloc, e, MaxSupply, Premint).token
           n == Len(minted)
<1>1. minted' = Append(minted, id)
  BY DEF Mint
<1> HIDE DEF id
<1>2. /\ minted \in Seq(Drawable(Premint, MaxSupply)) /\ minted' \in Seq(Drawable(Premint, MaxSupply))
      /\ NoDoubleMint'
  BY DEF TrailInv
<1>3. /\ n \in Nat /\ Len(minted') = n + 1 /\ minted'[n + 1] = id
      /\ \A i \in 1..n : minted'[i] = minted[i]
  BY <1>1, <1>2
<1>4. id \in Drawable(Premint, MaxSupply)
  BY <1>2, <1>3
<1>5. ASSUME NEW i \in 1..n PROVE minted[i] # id
  <2>1. i \in 1..(n + 1) /\ n + 1 \in 1..(n + 1) /\ i # n + 1
    BY <1>3
  <2>2. QED BY <1>2, <1>3, <2>1 DEF NoDoubleMint
<1>6. id \notin Ids(minted)
  BY <1>5 DEF Ids
<1>7. Ids(minted') = Ids(minted) \cup {id}
  <2>1. \A i : i \in 1..(n + 1) <=> i \in 1..n \/ i = n + 1
    BY <1>3
  <2>2. QED BY <1>3, <2>1 DEF Ids
<1>8. QED BY <1>1, <1>4, <1>6, <1>7

\* A rollback returns the latest.
LEMMA RollbackReturns ==
    ASSUME TrailInv, Rollback
    PROVE  /\ minted # <<>>
           /\ minted' = SubSeq(minted, 1, Len(minted) - 1)
           /\ minted[Len(minted)] \in Drawable(Premint, MaxSupply)
           /\ Ids(minted') = Ids(minted) \ {minted[Len(minted)]}
<1> DEFINE n == Len(minted)
<1>1. /\ minted \in Seq(Drawable(Premint, MaxSupply)) /\ minted # <<>> /\ minted' = Front(minted)
      /\ NoDoubleMint
  BY DEF TrailInv, Rollback
<1>2. /\ n \in Nat /\ n > 0 /\ Len(minted') = n - 1
      /\ \A i \in 1..(n - 1) : minted'[i] = minted[i]
  BY <1>1, FrontFacts
<1>3. minted' = SubSeq(minted, 1, n - 1)
  BY <1>1, <1>2 DEF Front
<1>4. Ids(minted') = Ids(minted) \ {minted[n]}
  <2>1. \A i : i \in 1..n <=> i \in 1..(n - 1) \/ i = n
    BY <1>2
  <2>2. \A i \in 1..(n - 1) : i \in 1..n /\ n \in 1..n /\ i # n
    BY <1>2
  <2>3. \A i \in 1..(n - 1) : minted[i] # minted[n]
    BY <1>1, <2>2 DEF NoDoubleMint
  <2>4. QED BY <1>2, <2>1, <2>3 DEF Ids
<1>5. QED BY <1>1, <1>2, <1>3, <1>4

\* For every supply, premint and entropy the allocator is a pool of ids: cutting,
\* removing and restoring ranges (generate_token_id, rollback_token_generation) is
\* taking one id out of the pool and putting the latest back.
THEOREM AllocatorIsPool == Spec => DrawsFromPool
<1> DEFINE pool == IF minted = <<>> THEN Drawable(Premint, MaxSupply) ELSE InRanges
<1>1. Init => Pool!Init
  BY DEF Init, Pool!Init
<1>2. TrailInv /\ TrailInv' /\ PoolInv /\ PoolInv' /\ [Next]_vars => [Pool!Next]_<<pool, minted>>
  <2> SUFFICES ASSUME TrailInv, TrailInv', PoolInv, PoolInv', [Next]_vars
               PROVE  [Pool!Next]_<<pool, minted>>
    OBVIOUS
  <2>1. pool = Drawable(Premint, MaxSupply) \ Ids(minted)
    BY DEF PoolInv
  <2>2. pool' = Drawable(Premint, MaxSupply) \ Ids(minted')
    BY DEF PoolInv
  <2> HIDE DEF pool
  <2>3. ASSUME NEW e \in Entropies, Mint(e) PROVE Pool!Next
    <3>1. PICK id \in Drawable(Premint, MaxSupply) \ Ids(minted) :
             minted' = Append(minted, id) /\ Ids(minted') = Ids(minted) \cup {id}
      BY <2>3, MintDraws
    <3>2. id \in pool /\ pool' = pool \ {id}
      BY <2>1, <2>2, <3>1
    <3>3. QED BY <3>1, <3>2 DEF Pool!Next, Pool!Draw, pool
  <2>4. CASE Rollback
    <3>1. /\ minted # <<>> /\ minted' = SubSeq(minted, 1, Len(minted) - 1)
          /\ minted[Len(minted)] \in Drawable(Premint, MaxSupply)
          /\ Ids(minted') = Ids(minted) \ {minted[Len(minted)]}
      BY <2>4, RollbackReturns
    <3>2. minted[Len(minted)] \in Ids(minted)
      <4>1. Len(minted) \in 1..Len(minted)
        BY <3>1 DEF TrailInv
      <4>2. QED BY <4>1 DEF Ids
    <3>3. pool' = pool \cup {minted[Len(minted)]}
      BY <2>1, <2>2, <3>1, <3>2
    <3>4. QED BY <3>1, <3>3 DEF Pool!Next, Pool!Return, pool
  <2>5. CASE UNCHANGED vars
    BY <2>5 DEF vars, pool, InRanges
  <2>6. QED BY <2>3, <2>4, <2>5 DEF Next
<1>3. QED BY <1>1, <1>2, TrailInvariant, PoolIs, PTL DEF Spec, DrawsFromPool, Pool!Spec, pool
=============================================================================
