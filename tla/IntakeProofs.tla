----------------------------- MODULE IntakeProofs -----------------------------
(***************************************************************************)
(* The theorems about module Intake, for any blocks and chains, any place   *)
(* of the ring and any number of failures: a chain block always makes the   *)
(* same mergeset, its inscriptions are answered, and the ring of rejections *)
(* is sound.                                                                *)
(***************************************************************************)
EXTENDS Intake, FiniteSetTheorems, SequenceTheorems, WellFoundedInduction, TLAPS

-----------------------------------------------------------------------------
(* Sets of pairs in order.                                                   *)

Pairs == Nat \X Nat
Behind(pairs, p) == {q \in pairs : Before(q, p)}

\* Places are ordered, and no two of them are equally high.
LEMMA BeforeIsOrder ==
    /\ \A p, q, r \in Pairs : Before(p, q) /\ Before(q, r) => Before(p, r)
    /\ \A p \in Pairs : ~ Before(p, p)
    /\ \A p, q \in Pairs : p # q => Before(p, q) \/ Before(q, p)
BY DEF Before, Pairs

\* InOrder lists all pairs of a set, each once and rising.
LEMMA OrderIs ==
    ASSUME NEW pairs \in SUBSET Pairs, IsFiniteSet(pairs)
    PROVE  /\ Cardinality(pairs) \in Nat
           /\ DOMAIN InOrder(pairs) = 1..Cardinality(pairs)
           /\ \A i \in 1..Cardinality(pairs) : InOrder(pairs)[i] \in pairs
           /\ \A i, j \in 1..Cardinality(pairs) :
                 i < j => Before(InOrder(pairs)[i], InOrder(pairs)[j])
           /\ \A p \in pairs : \E i \in 1..Cardinality(pairs) : InOrder(pairs)[i] = p
<1> DEFINE n == Cardinality(pairs)
           rank == [p \in pairs |-> Cardinality(Behind(pairs, p))]
<1>1. n \in Nat
  BY FS_CardinalityType
<1>2. ASSUME NEW p \in pairs
      PROVE  IsFiniteSet(Behind(pairs, p)) /\ rank[p] \in 0..(n - 1)
  <2>1. Behind(pairs, p) \in SUBSET pairs /\ p \notin Behind(pairs, p)
    BY BeforeIsOrder DEF Behind
  <2>2. /\ IsFiniteSet(Behind(pairs, p)) /\ Cardinality(Behind(pairs, p)) <= n
        /\ n = Cardinality(Behind(pairs, p)) => pairs = Behind(pairs, p)
    BY <2>1, FS_Subset
  <2>3. Cardinality(Behind(pairs, p)) \in Nat
    BY <2>2, FS_CardinalityType
  <2>4. n # Cardinality(Behind(pairs, p))
    BY <2>1, <2>2
  <2> QED BY <1>1, <2>2, <2>3, <2>4
<1>3. ASSUME NEW p \in pairs, NEW q \in pairs, Before(q, p) PROVE rank[q] < rank[p]
  <2>1. Behind(pairs, q) \in SUBSET Behind(pairs, p)
    BY <1>3, BeforeIsOrder DEF Behind
  <2>2. q \in Behind(pairs, p) /\ q \notin Behind(pairs, q)
    BY <1>3, BeforeIsOrder DEF Behind
  <2>3. /\ Cardinality(Behind(pairs, q)) <= Cardinality(Behind(pairs, p))
        /\ Cardinality(Behind(pairs, p)) = Cardinality(Behind(pairs, q)) =>
              Behind(pairs, p) = Behind(pairs, q)
    BY <1>2, <2>1, FS_Subset
  <2> QED BY <1>1, <1>2, <2>2, <2>3
<1>4. rank \in Injection(pairs, 0..(n - 1))
  <2>1. rank \in [pairs -> 0..(n - 1)]
    BY <1>2
  <2>2. \A p, q \in pairs : rank[p] = rank[q] => p = q
    <3> SUFFICES ASSUME NEW p \in pairs, NEW q \in pairs, rank[p] = rank[q], p # q PROVE FALSE
      OBVIOUS
    <3>1. Before(p, q) \/ Before(q, p)
      BY BeforeIsOrder
    <3>2. rank[p] < rank[q] \/ rank[q] < rank[p]
      BY <1>3, <3>1
    <3>3. rank[p] \in Int /\ rank[q] \in Int
      BY <1>1, <1>2
    <3> HIDE DEF rank
    <3> QED BY <3>2, <3>3
  <2> HIDE DEF rank
  <2> QED BY <2>1, <2>2 DEF Injection, IsInjective
<1>5. rank \in Surjection(pairs, 0..(n - 1))
  <2>1. IsFiniteSet(0..(n - 1)) /\ Cardinality(0..(n - 1)) = n
    BY <1>1, FS_Interval
  <2> HIDE DEF rank
  <2> QED BY <1>4, <2>1, FS_Injection
<1>6. \A i \in 1..n : \E p \in pairs : rank[p] = i - 1
  <2>1. \A i \in 1..n : i - 1 \in 0..(n - 1)
    BY <1>1
  <2> HIDE DEF rank
  <2> QED BY <1>5, <2>1 DEF Surjection
<1>7. \A i \in 1..n : InOrder(pairs)[i] \in pairs /\ rank[InOrder(pairs)[i]] = i - 1
  <2> SUFFICES ASSUME NEW i \in 1..n PROVE InOrder(pairs)[i] \in pairs /\ rank[InOrder(pairs)[i]] = i - 1
    OBVIOUS
  <2>1. InOrder(pairs)[i] = CHOOSE p \in pairs : Cardinality(Behind(pairs, p)) = i - 1
    BY DEF InOrder, Behind
  <2>2. \E p \in pairs : Cardinality(Behind(pairs, p)) = i - 1
    BY <1>6
  <2> QED BY <2>1, <2>2
<1>8. ASSUME NEW i \in 1..n, NEW j \in 1..n, i < j
      PROVE  Before(InOrder(pairs)[i], InOrder(pairs)[j])
  <2> DEFINE p == InOrder(pairs)[i]
             q == InOrder(pairs)[j]
  <2>1. p \in pairs /\ q \in pairs /\ rank[p] < rank[q]
    BY <1>1, <1>7, <1>8
  <2>2. p # q /\ ~ Before(q, p)
    BY <1>1, <1>2, <1>3, <2>1
  <2> HIDE DEF p, q
  <2>3. Before(p, q)
    BY <2>1, <2>2, BeforeIsOrder
  <2> QED BY <2>3 DEF p, q
<1>9. ASSUME NEW p \in pairs PROVE \E i \in 1..n : InOrder(pairs)[i] = p
  <2>1. rank[p] + 1 \in 1..n /\ rank[InOrder(pairs)[rank[p] + 1]] = (rank[p] + 1) - 1
    BY <1>1, <1>2, <1>7
  <2>2. InOrder(pairs)[rank[p] + 1] \in pairs
    BY <1>7, <2>1
  <2>3. rank[InOrder(pairs)[rank[p] + 1]] = rank[p]
    BY <1>1, <1>2, <2>1
  <2> HIDE DEF rank
  <2>4. InOrder(pairs)[rank[p] + 1] = p
    BY <1>4, <2>2, <2>3 DEF Injection, IsInjective
  <2> QED BY <2>1, <2>4
<1>10. DOMAIN InOrder(pairs) = 1..n
  BY DEF InOrder
<1> HIDE DEF n, rank
<1> QED BY <1>1, <1>7, <1>8, <1>9, <1>10 DEF n

-----------------------------------------------------------------------------
(* Scores.                                                                   *)

\* A product of natural numbers is one.
LEMMA Products ==
    /\ \A a, c \in Nat : a * c \in Nat
    /\ \A a, b, c \in Nat : a < b => a * c + c <= b * c
<1>1. \A a, c \in Nat : a * c \in Nat
  OBVIOUS
<1>2. ASSUME NEW a \in Nat, NEW b \in Nat, NEW c \in Nat, a < b PROVE a * c + c <= b * c
  <2>1. PICK d \in Nat : b = a + 1 + d
    <3>1. b - a - 1 \in Nat /\ b = a + 1 + (b - a - 1)
      BY <1>2
    <3> QED BY <3>1
  <2>2. b * c = a * c + c + d * c
    BY <2>1
  <2>3. d * c \in Nat /\ a * c \in Nat
    BY <1>1
  <2> QED BY <2>2, <2>3
<1> QED BY <1>1, <1>2

(* A number is divided by the width of the ranges it lies in. *)
LEMMA Quotient ==
    ASSUME NEW d \in Nat, NEW n \in Nat, NEW r \in Nat, r < d
    PROVE  (n * d + r) \div d = n
<1> DEFINE x == n * d + r
           q == x \div d
<1>1. x \in Nat /\ d > 0 /\ n * d \in Nat
  BY Products
<1>2. q \in Int /\ d * q <= x /\ x < d * (q + 1)
  <2> HIDE DEF x
  <2> QED BY <1>1
<1>3. ~ (q < n)
  <2> SUFFICES ASSUME q < n PROVE FALSE
    OBVIOUS
  <2> HIDE DEF q
  <2>1. q + 1 <= n
    BY <1>2
  <2>2. q + 1 = n \/ q + 1 < n
    BY <1>2, <2>1
  <2>3. q + 1 >= 0 \/ q + 1 < 0
    BY <1>2
  <2>4. CASE q + 1 < 0
    <3>1. PICK m \in Nat : q + 1 = - m
      <4>1. - (q + 1) \in Nat
        BY <1>2, <2>4
      <4> QED BY <1>2, <4>1
    <3>2. d * (q + 1) = - (d * m) /\ d * m \in Nat
      BY <3>1, Products
    <3> QED BY <1>1, <1>2, <3>2
  <2>5. CASE q + 1 >= 0
    <3>1. (q + 1) * d <= n * d
      <4>1. CASE q + 1 = n
        BY <1>1, <4>1
      <4>2. CASE q + 1 < n
        <5>1. q + 1 \in Nat
          BY <1>2, <2>5
        <5>2. (q + 1) * d + d <= n * d
          BY <4>2, <5>1, Products
        <5>3. (q + 1) * d \in Nat
          BY <5>1, Products
        <5> QED BY <1>1, <5>2, <5>3
      <4> QED BY <2>2, <4>1, <4>2
    <3>2. d * (q + 1) = (q + 1) * d
      BY <1>2
    <3> QED BY <1>1, <1>2, <3>1, <3>2 DEF x
  <2> QED BY <2>3, <2>4, <2>5
<1>4. ~ (n < q)
  <2> SUFFICES ASSUME n < q PROVE FALSE
    OBVIOUS
  <2> HIDE DEF q
  <2>1. n * d + d <= q * d
    <3>1. q \in Nat
      BY <1>2
    <3> QED BY <3>1, Products
  <2>2. q * d = d * q /\ q * d \in Int
    BY <1>2
  <2> QED BY <1>1, <1>2, <2>1, <2>2 DEF x
<1> HIDE DEF q
<1>5. q = n
  BY <1>2, <1>3, <1>4
<1> QED BY <1>5 DEF q

(* Scores rise with the place, and the scores of a chain block are its own. *)
LEMMA Scores ==
    ASSUME NEW blue \in Nat, MERGE_SET_LIMIT \in Nat, BLOCK_TX_CAPACITY \in Nat
    PROVE  /\ \A p, q \in Pairs :
                 p[2] < BLOCK_TX_CAPACITY /\ q[2] < BLOCK_TX_CAPACITY /\ Before(p, q) =>
                    calculate_tx_score(blue, p[1], p[2]) < calculate_tx_score(blue, q[1], q[2])
           /\ \A p \in Pairs :
                 p[1] < MERGE_SET_LIMIT /\ p[2] < BLOCK_TX_CAPACITY =>
                    calculate_blue_score_from_tx_score(calculate_tx_score(blue, p[1], p[2])) = blue
<1> DEFINE M == MERGE_SET_LIMIT
           C == BLOCK_TX_CAPACITY
           floor == blue * M * C
<1>1. floor \in Nat
  BY Products
<1>2. ASSUME NEW p \in Pairs, NEW q \in Pairs, p[2] < C, q[2] < C, Before(p, q)
      PROVE  calculate_tx_score(blue, p[1], p[2]) < calculate_tx_score(blue, q[1], q[2])
  <2>1. p[1] \in Nat /\ p[2] \in Nat /\ q[1] \in Nat /\ q[2] \in Nat
    BY DEF Pairs
  <2>2. p[1] * C \in Nat /\ q[1] * C \in Nat
    BY <2>1, Products
  <2>3. p[1] * C + p[2] < q[1] * C + q[2]
    <3>1. CASE p[1] < q[1]
      <4>1. p[1] * C + C <= q[1] * C
        BY <2>1, <3>1, Products
      <4> QED BY <1>2, <2>1, <2>2, <4>1
    <3>2. CASE p[1] = q[1] /\ p[2] < q[2]
      BY <2>1, <2>2, <3>2
    <3> QED BY <1>2, <3>1, <3>2 DEF Before
  <2> HIDE DEF floor
  <2>4. /\ calculate_tx_score(blue, p[1], p[2]) = floor + p[1] * C + p[2]
        /\ calculate_tx_score(blue, q[1], q[2]) = floor + q[1] * C + q[2]
    BY DEF calculate_tx_score, floor
  <2> QED BY <1>1, <2>1, <2>2, <2>3, <2>4
<1>3. ASSUME NEW p \in Pairs, p[1] < M, p[2] < C
      PROVE  calculate_blue_score_from_tx_score(calculate_tx_score(blue, p[1], p[2])) = blue
  <2>1. p[1] \in Nat /\ p[2] \in Nat
    BY DEF Pairs
  <2>2. p[1] * C \in Nat /\ M * C \in Nat /\ p[1] * C + C <= M * C
    BY <1>3, <2>1, Products
  <2>3. p[1] * C + p[2] \in Nat /\ p[1] * C + p[2] < M * C
    BY <1>3, <2>1, <2>2
  <2>4. calculate_tx_score(blue, p[1], p[2]) = blue * (M * C) + (p[1] * C + p[2])
    <3>1. blue * M * C = blue * (M * C)
      OBVIOUS
    <3>2. blue * (M * C) \in Nat
      BY <2>2, Products
    <3> QED BY <2>1, <2>2, <3>1, <3>2 DEF calculate_tx_score
  <2>5. (blue * (M * C) + (p[1] * C + p[2])) \div (M * C) = blue
    BY <2>2, <2>3, Quotient
  <2> QED BY <2>4, <2>5 DEF calculate_blue_score_from_tx_score
<1> QED BY <1>2, <1>3

-----------------------------------------------------------------------------
(* Mergesets.                                                                *)

\* The merged blocks of a chain block, in whatever order the node lists them.
Works(b) == {<<WorkOf(h), h>> : h \in Merged(b)}
Rebuilt(b) == <<Blocks[b].selected_parent>> \o [i \in DOMAIN InOrder(Works(b)) |-> InOrder(Works(b))[i][2]]

\* A list of all members, each once, holds them all.
LEMMA ListedAll ==
    ASSUME NEW S, IsFiniteSet(S), NEW listed \in SetToAllKPermutations(S), Len(listed) = Cardinality(S)
    PROVE  ToSet(listed) = S
<1>1. PICK T \in SUBSET S : listed \in SetToSeqs(T)
  BY DEF SetToAllKPermutations
<1>2. /\ listed \in [1..Cardinality(T) -> T]
      /\ \A i, j \in 1..Cardinality(T) : i # j => listed[i] # listed[j]
  BY <1>1 DEF SetToSeqs
<1>3. /\ IsFiniteSet(T) /\ Cardinality(T) \in Nat
      /\ Cardinality(S) = Cardinality(T) => S = T
  BY FS_Subset, FS_CardinalityType
<1>4. Len(listed) = Cardinality(T)
  BY <1>2, <1>3
<1>5. S = T
  BY <1>3, <1>4
<1>6. listed \in Injection(1..Cardinality(S), S)
  BY <1>2, <1>5 DEF Injection, IsInjective
<1>7. Cardinality(1..Cardinality(S)) = Cardinality(S)
  BY <1>3, <1>5, FS_Interval
<1>8. listed \in Surjection(1..Cardinality(S), S)
  BY <1>6, <1>7, FS_Injection
<1>9. DOMAIN listed = 1..Cardinality(S)
  BY <1>2, <1>5
<1> QED BY <1>2, <1>5, <1>8, <1>9 DEF Surjection, ToSet

\* The order in which the node lists the merged blocks does not matter.
LEMMA SameBlocks ==
    ASSUME NEW b \in DOMAIN Blocks, NEW listed \in SetToAllKPermutations(Merged(b)),
           Len(listed) = Cardinality(Merged(b))
    PROVE  MergedBlocks(b, listed) = Rebuilt(b)
<1>1. ToSet(listed) = Merged(b)
  BY ListedAll, BlocksAssumption
<1>2. {<<WorkOf(h), h>> : h \in ToSet(listed)} = Works(b)
  BY <1>1 DEF Works
<1> QED BY <1>2 DEF MergedBlocks, Rebuilt, Sorted

\* The selected parent and every merged block has a place in the mergeset.
LEMMA RebuiltIs ==
    ASSUME NEW b \in DOMAIN Blocks
    PROVE  /\ Cardinality(Merged(b)) \in Nat
           /\ DOMAIN Rebuilt(b) = 1..(Cardinality(Merged(b)) + 1)
           /\ \A h \in Merged(b) \cup {Blocks[b].selected_parent} :
                 \E i \in DOMAIN Rebuilt(b) : Rebuilt(b)[i] = h
<1> DEFINE n == Cardinality(Merged(b))
           key == [h \in Merged(b) |-> <<WorkOf(h), h>>]
           order == InOrder(Works(b))
           rest == [i \in DOMAIN order |-> order[i][2]]
           hashes == Merged(b) \cup {Blocks[b].selected_parent}
<1>1. IsFiniteSet(Merged(b)) /\ n \in Nat /\ Works(b) \in SUBSET Pairs
  <2>1. IsFiniteSet(Merged(b)) /\ \A h \in Merged(b) : h \in Nat /\ WorkOf(h) \in Nat
    BY BlocksAssumption
  <2>2. n \in Nat
    BY <2>1, FS_CardinalityType
  <2>3. Works(b) \in SUBSET Pairs
    BY <2>1 DEF Works, Pairs
  <2> QED BY <2>1, <2>2, <2>3
<1>2. IsFiniteSet(Works(b)) /\ Cardinality(Works(b)) = n
  <2>1. key \in Bijection(Merged(b), Works(b))
    <3>1. key \in [Merged(b) -> Works(b)]
      BY DEF Works
    <3>2. \A h, g \in Merged(b) : key[h] = key[g] => h = g
      OBVIOUS
    <3>3. \A w \in Works(b) : \E h \in Merged(b) : key[h] = w
      BY DEF Works
    <3> HIDE DEF key
    <3> QED BY <3>1, <3>2, <3>3 DEF Bijection, Injection, Surjection, IsInjective
  <2> QED BY <1>1, <2>1, FS_Bijection DEF ExistsBijection
<1>3. /\ DOMAIN order = 1..n
      /\ \A i \in 1..n : order[i] \in Works(b)
      /\ \A w \in Works(b) : \E i \in 1..n : order[i] = w
  BY <1>1, <1>2, OrderIs
<1>4. /\ DOMAIN rest = 1..n
      /\ \A i \in 1..n : rest[i] \in hashes
      /\ \A h \in Merged(b) : \E i \in 1..n : rest[i] = h
  <2> HIDE DEF order
  <2>1. \A w \in Works(b) : w[2] \in Merged(b)
    BY DEF Works
  <2>2. \A h \in Merged(b) : <<WorkOf(h), h>> \in Works(b)
    BY DEF Works
  <2>3. DOMAIN rest = 1..n /\ \A i \in 1..n : rest[i] = order[i][2]
    BY <1>3
  <2>4. ASSUME NEW h \in Merged(b) PROVE \E i \in 1..n : rest[i] = h
    <3>1. PICK i \in 1..n : order[i] = <<WorkOf(h), h>>
      BY <1>3, <2>2
    <3>2. rest[i] = h
      BY <2>3, <3>1
    <3> QED BY <3>2
  <2> HIDE DEF rest
  <2>5. \A i \in 1..n : rest[i] \in Merged(b)
    BY <1>3, <2>1, <2>3
  <2> QED BY <2>3, <2>4, <2>5
<1> HIDE DEF order
<1>5. rest \in Seq(hashes) /\ Len(rest) = n
  <2>1. rest \in [1..n -> hashes]
    BY <1>4
  <2> HIDE DEF rest, hashes, n
  <2> QED BY <1>1, <2>1
<1> DEFINE first == <<Blocks[b].selected_parent>>
<1>6. first \in Seq(hashes) /\ Len(first) = 1 /\ first[1] = Blocks[b].selected_parent
  <2>1. Blocks[b].selected_parent \in hashes
    OBVIOUS
  <2> HIDE DEF hashes
  <2> QED BY <2>1
<1>7. Rebuilt(b) = first \o rest
  BY DEF Rebuilt, order
<1> HIDE DEF rest, first, n, hashes
<1>8. /\ first \o rest \in Seq(hashes) /\ Len(first \o rest) = n + 1
      /\ (first \o rest)[1] = Blocks[b].selected_parent
      /\ \A i \in 1..n : (first \o rest)[i + 1] = rest[i]
  <2>1. /\ first \o rest \in Seq(hashes)
        /\ Len(first \o rest) = Len(first) + Len(rest)
    BY <1>5, <1>6, ConcatProperties
  <2>4. \A i \in 1..(Len(first) + Len(rest)) :
           (first \o rest)[i] = IF i <= Len(first) THEN first[i] ELSE rest[i - Len(first)]
    BY <1>5, <1>6, ConcatProperties
  <2>2. \A i \in 1..n : i + 1 \in 1..(1 + n) /\ ~ (i + 1 <= 1) /\ (i + 1) - 1 = i
    BY <1>1
  <2>3. 1 \in 1..(1 + n)
    BY <1>1
  <2> QED BY <1>1, <1>5, <1>6, <2>1, <2>2, <2>3, <2>4
<1>9. DOMAIN Rebuilt(b) = 1..(n + 1)
  BY <1>7, <1>8
<1>10. ASSUME NEW h \in hashes PROVE \E i \in DOMAIN Rebuilt(b) : Rebuilt(b)[i] = h
  <2>1. CASE h = Blocks[b].selected_parent
    <3>1. 1 \in 1..(n + 1)
      BY <1>1
    <3>2. Rebuilt(b)[1] = h
      BY <1>7, <1>8, <2>1
    <3> QED BY <1>9, <3>1, <3>2
  <2>2. CASE h \in Merged(b)
    <3>1. PICK i \in 1..n : rest[i] = h
      BY <1>4, <2>2
    <3>2. i + 1 \in 1..(n + 1)
      BY <1>1
    <3> QED BY <1>7, <1>8, <1>9, <3>1, <3>2
  <2> QED BY <2>1, <2>2 DEF hashes
<1> QED BY <1>1, <1>9, <1>10 DEF n, hashes

\* An accepted transaction names a block of the mergeset.
LEMMA AcceptedIs ==
    ASSUME NEW b \in DOMAIN Blocks
    PROVE  /\ Len(AcceptedBy(b)) \in Nat /\ DOMAIN AcceptedBy(b) = 1..Len(AcceptedBy(b))
           /\ \A k \in DOMAIN AcceptedBy(b) :
                 /\ AcceptedBy(b)[k].block \in Merged(b) \cup {Blocks[b].selected_parent}
                 /\ AcceptedBy(b)[k].tx \in AcceptedTxs(b)
<1> DEFINE S == [tx : AcceptedTxs(b), block : Merged(b) \cup {Blocks[b].selected_parent}]
<1>1. AcceptedBy(b) \in Seq(S)
  BY BlocksAssumption
<1>2. \A r \in S : r.tx \in AcceptedTxs(b) /\ r.block \in Merged(b) \cup {Blocks[b].selected_parent}
  OBVIOUS
<1> HIDE DEF S
<1> QED BY <1>1, <1>2

\* Places lie within the limits, and no two transactions of a chain block share one.
LEMMA PlaceIs ==
    ASSUME NEW b \in DOMAIN Blocks
    PROVE  /\ \A k \in DOMAIN AcceptedBy(b) :
                 LET p == Place(b, Rebuilt(b), k)
                 IN  p \in Pairs /\ p[1] < MERGE_SET_LIMIT /\ p[2] < BLOCK_TX_CAPACITY
           /\ \A k, j \in DOMAIN AcceptedBy(b) :
                 Place(b, Rebuilt(b), k) = Place(b, Rebuilt(b), j) => k = j
<1> DEFINE merged == Rebuilt(b)
           block(k) == AcceptedBy(b)[k].block
           index(k) == CHOOSE i \in DOMAIN merged : merged[i] = block(k)
<1>1. \A k \in DOMAIN AcceptedBy(b) : index(k) \in DOMAIN merged /\ merged[index(k)] = block(k)
  BY RebuiltIs, AcceptedIs
<1>2. \A k \in DOMAIN AcceptedBy(b) :
         Place(b, merged, k) = <<index(k) - 1, Cardinality(EarlierOfBlock(b, k))>>
  BY DEF Place
<1> HIDE DEF index, merged
<1>3. ASSUME NEW k \in DOMAIN AcceptedBy(b)
      PROVE  IsFiniteSet(EarlierOfBlock(b, k)) /\ Cardinality(EarlierOfBlock(b, k)) \in Nat
  <2>1. k \in Nat
    BY AcceptedIs
  <2>2. IsFiniteSet(1..(k - 1))
    BY <2>1, FS_Interval
  <2>3. EarlierOfBlock(b, k) \in SUBSET (1..(k - 1))
    BY DEF EarlierOfBlock
  <2> QED BY <2>2, <2>3, FS_Subset, FS_CardinalityType
<1>4. ASSUME NEW k \in DOMAIN AcceptedBy(b), NEW j \in DOMAIN AcceptedBy(b), j < k, block(j) = block(k)
      PROVE  Cardinality(EarlierOfBlock(b, j)) # Cardinality(EarlierOfBlock(b, k))
  <2>1. k \in Nat /\ j \in Nat /\ j >= 1
    BY AcceptedIs
  <2>2. EarlierOfBlock(b, j) \in SUBSET EarlierOfBlock(b, k)
    BY <1>4, <2>1 DEF EarlierOfBlock
  <2>3. j \in EarlierOfBlock(b, k) /\ j \notin EarlierOfBlock(b, j)
    BY <1>4, <2>1 DEF EarlierOfBlock
  <2> QED BY <1>3, <2>2, <2>3, FS_Subset
<1>5. ASSUME NEW k \in DOMAIN AcceptedBy(b), NEW j \in DOMAIN AcceptedBy(b),
             Place(b, merged, k) = Place(b, merged, j)
      PROVE  k = j
  <2>1. index(k) - 1 = index(j) - 1 /\ Cardinality(EarlierOfBlock(b, k)) = Cardinality(EarlierOfBlock(b, j))
    BY <1>2, <1>5
  <2>2. index(k) \in Nat /\ index(j) \in Nat
    BY <1>1, RebuiltIs DEF merged
  <2>3. index(k) = index(j)
    BY <2>1, <2>2
  <2>4. block(k) = block(j)
    BY <1>1, <2>3
  <2>5. k \in Nat /\ j \in Nat
    BY AcceptedIs
  <2>6. ~ (k < j) /\ ~ (j < k)
    BY <1>4, <2>1, <2>4
  <2> QED BY <2>5, <2>6
<1>6. ASSUME NEW k \in DOMAIN AcceptedBy(b)
      PROVE  LET p == Place(b, merged, k)
             IN  p \in Pairs /\ p[1] < MERGE_SET_LIMIT /\ p[2] < BLOCK_TX_CAPACITY
  <2>1. index(k) \in 1..(Cardinality(Merged(b)) + 1) /\ Cardinality(Merged(b)) \in Nat
    BY <1>1, RebuiltIs DEF merged
  <2>2. Cardinality(Merged(b)) < MERGE_SET_LIMIT /\ MERGE_SET_LIMIT \in Nat
    BY BlocksAssumption
  <2>3. index(k) - 1 \in Nat /\ index(k) - 1 < MERGE_SET_LIMIT
    BY <2>1, <2>2
  <2>4. Cardinality(EarlierOfBlock(b, k)) < BLOCK_TX_CAPACITY
    BY BlocksAssumption
  <2> QED BY <1>2, <1>3, <2>3, <2>4 DEF Pairs
<1> QED BY <1>5, <1>6 DEF merged

\* The operations of a mergeset: one for each transaction found to be one, with rising
\* scores of the block's own.
LEMMA MergesetIs ==
    ASSUME NEW b \in DOMAIN Blocks
    PROVE  LET operations == MergesetOf(b, Rebuilt(b)).operations
           IN  /\ \A i, j \in DOMAIN operations : i < j => operations[i].score < operations[j].score
               /\ \A i \in DOMAIN operations :
                     calculate_blue_score_from_tx_score(operations[i].score) = Blocks[b].blue
               /\ \E source \in [DOMAIN operations -> Judged(b, "operation")] :
                     /\ \A i \in DOMAIN operations : operations[i].op = VerdictOn(b, source[i]).op
                     /\ \A i, j \in DOMAIN operations : source[i] = source[j] => i = j
                     /\ \A k \in Judged(b, "operation") : \E i \in DOMAIN operations : source[i] = k
<1> DEFINE found == Judged(b, "operation")
           place(k) == Place(b, Rebuilt(b), k)
           P == {place(k) : k \in found}
           n == Cardinality(P)
           places == InOrder(P)
           at(p) == CHOOSE k \in found : place(k) = p
           operations == MergesetOf(b, Rebuilt(b)).operations
           score(p) == calculate_tx_score(Blocks[b].blue, p[1], p[2])
           source == [i \in 1..n |-> at(places[i])]
<1>1. /\ found \subseteq DOMAIN AcceptedBy(b)
      /\ \A k \in found : place(k) \in Pairs /\ place(k)[1] < MERGE_SET_LIMIT /\ place(k)[2] < BLOCK_TX_CAPACITY
      /\ \A k, j \in found : place(k) = place(j) => k = j
  BY PlaceIs DEF Judged
<1>2. IsFiniteSet(P) /\ P \in SUBSET Pairs
  <2>1. IsFiniteSet(found)
    <3>1. IsFiniteSet(DOMAIN AcceptedBy(b))
      <4>1. Len(AcceptedBy(b)) \in Nat /\ DOMAIN AcceptedBy(b) = 1..Len(AcceptedBy(b))
        BY AcceptedIs
      <4>2. IsFiniteSet(1..Len(AcceptedBy(b)))
        BY <4>1, FS_Interval
      <4> QED BY <4>1, <4>2
    <3> QED BY <1>1, <3>1, FS_Subset
  <2> DEFINE f == [k \in found |-> place(k)]
  <2>2. f \in Bijection(found, P)
    <3>1. f \in [found -> P] /\ \A p \in P : \E k \in found : f[k] = p
      BY DEF P
    <3>2. \A k, j \in found : f[k] = f[j] => k = j
      BY <1>1
    <3> HIDE DEF f, P, found
    <3> QED BY <3>1, <3>2 DEF Bijection, Injection, Surjection, IsInjective
  <2>3. IsFiniteSet(P)
    <3> HIDE DEF f, P, found
    <3> QED BY <2>1, <2>2, FS_Bijection DEF ExistsBijection
  <2> QED BY <1>1, <2>3
<1>3. \A p \in P : at(p) \in found /\ place(at(p)) = p
  OBVIOUS
<1>4. /\ operations = [i \in DOMAIN places |-> [op |-> VerdictOn(b, at(places[i])).op, score |-> score(places[i])]]
  BY DEF MergesetOf
<1>5. \A p \in P : p \in Pairs /\ p[1] < MERGE_SET_LIMIT /\ p[2] < BLOCK_TX_CAPACITY
  BY <1>1
<1>6. \A k \in found : place(k) \in P /\ at(place(k)) = k
  BY <1>1, <1>3
<1> HIDE DEF found, place, P, at
<1>7. /\ n \in Nat /\ DOMAIN places = 1..n
      /\ \A i \in 1..n : places[i] \in P
      /\ \A i, j \in 1..n : i < j => Before(places[i], places[j])
      /\ \A p \in P : \E i \in 1..n : places[i] = p
  BY <1>2, OrderIs
<1> HIDE DEF n, places, score
<1>8. /\ DOMAIN operations = 1..n
      /\ \A i \in 1..n : operations[i].op = VerdictOn(b, at(places[i])).op /\ operations[i].score = score(places[i])
  BY <1>4, <1>7
<1> HIDE DEF operations
<1>9. \A p, q \in P : Before(p, q) => score(p) < score(q)
  BY <1>5, Scores, BlocksAssumption DEF score
<1>10. \A p \in P : calculate_blue_score_from_tx_score(score(p)) = Blocks[b].blue
  BY <1>5, Scores, BlocksAssumption DEF score
<1>11. \A i, j \in DOMAIN operations : i < j => operations[i].score < operations[j].score
  BY <1>7, <1>8, <1>9
<1>12. \A i \in DOMAIN operations :
          calculate_blue_score_from_tx_score(operations[i].score) = Blocks[b].blue
  BY <1>7, <1>8, <1>10
<1>13. /\ source \in [DOMAIN operations -> found]
       /\ \A i \in DOMAIN operations : operations[i].op = VerdictOn(b, source[i]).op
  BY <1>3, <1>7, <1>8
<1>14. ASSUME NEW i \in DOMAIN operations, NEW j \in DOMAIN operations, source[i] = source[j]
       PROVE  i = j
  <2>1. places[i] = places[j]
    BY <1>3, <1>7, <1>8, <1>14
  <2>2. ~ Before(places[i], places[i])
    BY <1>5, <1>7, <1>8, BeforeIsOrder
  <2>3. ~ (i < j) /\ ~ (j < i) /\ i \in Nat /\ j \in Nat
    BY <1>7, <1>8, <2>1, <2>2
  <2> QED BY <2>3
<1>15. ASSUME NEW k \in found PROVE \E i \in DOMAIN operations : source[i] = k
  <2>1. PICK i \in 1..n : places[i] = place(k)
    BY <1>6, <1>7
  <2> QED BY <1>6, <1>8, <2>1
<1> HIDE DEF source
<1>16. \E s \in [DOMAIN operations -> found] :
          /\ \A i \in DOMAIN operations : operations[i].op = VerdictOn(b, s[i]).op
          /\ \A i, j \in DOMAIN operations : s[i] = s[j] => i = j
          /\ \A k \in found : \E i \in DOMAIN operations : s[i] = k
  BY <1>13, <1>14, <1>15
<1> QED BY <1>11, <1>12, <1>16 DEF operations, found

-----------------------------------------------------------------------------
(* What the analyzer finds.                                                  *)

\* A nonempty set of natural numbers has a least element.
LEMMA LeastNat ==
    ASSUME NEW S \in SUBSET Nat, S # {}
    PROVE  \E n \in S : \A m \in S : n <= m
<1> DEFINE Below == OpToRel(<, Nat)
<1>1. IsWellFoundedOn(Below, Nat)
  BY NatLessThanWellFounded
<1>2. \E n \in S : \A m \in S : <<m, n>> \notin Below
  <2> HIDE DEF Below
  <2> QED BY <1>1, WFMin
<1>3. ASSUME NEW n \in S, NEW m \in S, <<m, n>> \notin Below PROVE n <= m
  BY <1>3 DEF OpToRel
<1> QED BY <1>2, <1>3

\* When no check fails every check holds: a message is not None.
LEMMA NoFailure ==
    ASSUME NEW n \in Nat, NEW checks, DOMAIN checks = 1..n,
           \A i \in 1..n : checks[i][2] # None \/ checks[i][1],
           FirstFailure(checks) = None
    PROVE  \A i \in 1..n : checks[i][1]
<1> SUFFICES ASSUME NEW k \in 1..n, ~ checks[k][1] PROVE FALSE
  OBVIOUS
<1> DEFINE failed == {i \in 1..n : ~ checks[i][1]}
<1>1. PICK i \in failed : \A j \in failed : i <= j
  <2>1. failed \in SUBSET Nat /\ k \in failed
    OBVIOUS
  <2> HIDE DEF failed
  <2> QED BY <2>1, LeastNat
<1>2. i \in DOMAIN checks /\ ~ checks[i][1] /\ \A j \in 1..(i - 1) : checks[j][1]
  BY <1>1
<1> DEFINE first == CHOOSE x \in DOMAIN checks : ~ checks[x][1] /\ \A j \in 1..(x - 1) : checks[j][1]
<1>3. first \in DOMAIN checks /\ ~ checks[first][1]
  BY <1>2
<1>4. FirstFailure(checks) = checks[first][2]
  BY DEF FirstFailure
<1> HIDE DEF first
<1> QED BY <1>3, <1>4

\* A verdict is an error or an operation.
LEMMA VerdictIs ==
    ASSUME NEW failure, NEW op
    PROVE  /\ Verdict(failure, op).kind \in {"error", "operation"}
           /\ Verdict(failure, op).kind = "operation" => failure = None /\ Verdict(failure, op).op = op
BY DEF Verdict, Found, Rejected

\* An operation keeps the common fields, whatever its own are.
LEMMA CommonIs ==
    ASSUME NEW tx, NEW kind, NEW fields, "tx" \notin DOMAIN fields, "kind" \notin DOMAIN fields,
           "tick" \notin DOMAIN fields, "sender" \notin DOMAIN fields, "security_fee" \notin DOMAIN fields
    PROVE  LET op == Extend(Common(tx, kind), fields)
           IN  /\ op.tx = tx.id /\ op.kind = kind /\ op.tick = TickOf[tx.text.tick]
               /\ op.sender = tx.sender /\ op.security_fee = tx.fee
               /\ \A f \in DOMAIN fields : op[f] = fields[f]
<1> DEFINE shared == Common(tx, kind)
           op == Extend(shared, fields)
<1>1. /\ DOMAIN shared = {"tx", "kind", "tick", "sender", "security_fee"}
      /\ shared.tx = tx.id /\ shared.kind = kind /\ shared.tick = TickOf[tx.text.tick]
      /\ shared.sender = tx.sender /\ shared.security_fee = tx.fee
  BY DEF Common
<1> HIDE DEF shared
<1>2. op = [f \in DOMAIN shared \cup DOMAIN fields |-> IF f \in DOMAIN fields THEN fields[f] ELSE shared[f]]
  BY DEF Extend
<1> QED BY <1>1, <1>2 DEF shared

\* The price of a deployment that one word can hold is what is compared with the fee.
LEMMA DeployPrice ==
    ASSUME NEW premint \in Nat, KSPR_FEE_DEPLOY + premint * KSPR_FEE_MINT < Word
    PROVE  DeployFee(premint) = KSPR_FEE_DEPLOY + premint * KSPR_FEE_MINT
<1> DEFINE price == KSPR_FEE_DEPLOY + premint * KSPR_FEE_MINT
<1>1. price \in Nat /\ Word \in Nat
  BY AnalyzerAssumption, Products
<1> HIDE DEF price
<1>2. price < Word
  BY DEF price
<1>3. price % Word = price
  BY <1>1, <1>2
<1> QED BY <1>3 DEF DeployFee, price

\* A deployment that is not refused fits the ledger.
LEMMA DeployFits ==
    ASSUME NEW tx, TransactionOK(tx), tx.text # None, tx.text.tick \in DOMAIN TickOf,
           Deploy(tx).kind = "operation"
    PROVE  Deploy(tx).op.tx = tx.id /\ Fits(Deploy(tx).op)
<1> DEFINE text == tx.text
           tick == TickOf[text.tick]
           premint == Or(text.premint, 0)
           royalty == text.royalty_fee
           checks == <<
               <<tick \in DOMAIN RestrictedTicks => RestrictedTicks[tick] = tx.sender, "RestrictedTickDeploy">>,
               <<text.metadata # None, "OpDeployMissingValue">>,
               <<text.metadata \notin HiddenMetadata, "RestrictedMetadataProtocol">>,
               <<text.max # None, "OpDeployMissingValue">>,
               <<text.max # Word - 1, "MaxSupplyOverflow">>,
               <<text.max # None => premint <= text.max, "PremintGreaterThanMax">>,
               <<tx.fee >= DeployFee(premint), "InsufficientDeployFee">>,
               <<royalty # None => royalty >= MIN_ROYALTY_FEE, "UnderflowRoyaltyFee">>,
               <<royalty # None => royalty <= MAX_ROYALTY_FEE, "OverflowRoyaltyFee">> >>
           fields == [deployer |-> Or(text.to, tx.sender), max |-> text.max, premint |-> premint,
                      royalty |-> IF royalty = None THEN None
                                  ELSE [fee |-> royalty, beneficiary |-> Or(text.royalty_to, tx.sender)],
                      mint_start_daa |-> Or(text.daa_mint_start, 0)]
           op == Extend(Common(tx, "deploy"), fields)
<1>1. Deploy(tx) = Verdict(FirstFailure(checks), op)
  BY DEF Deploy
<1>2. FirstFailure(checks) = None /\ Deploy(tx).op = op
  <2> HIDE DEF checks, op
  <2> QED BY <1>1, VerdictIs
<1>3. DOMAIN checks = 1..9
  OBVIOUS
<1>4. \A i \in 1..9 : checks[i][2] # None
  <2>1. /\ checks[1][2] = "RestrictedTickDeploy" /\ checks[2][2] = "OpDeployMissingValue"
        /\ checks[3][2] = "RestrictedMetadataProtocol" /\ checks[4][2] = "OpDeployMissingValue"
        /\ checks[5][2] = "MaxSupplyOverflow" /\ checks[6][2] = "PremintGreaterThanMax"
        /\ checks[7][2] = "InsufficientDeployFee" /\ checks[8][2] = "UnderflowRoyaltyFee"
        /\ checks[9][2] = "OverflowRoyaltyFee"
    OBVIOUS
  <2> HIDE DEF checks
  <2> QED BY <2>1, AnalyzerAssumption DEF Errors
<1>5. \A i \in 1..9 : checks[i][1]
  <2> HIDE DEF checks
  <2> QED BY <1>2, <1>3, <1>4, NoFailure
<1>6. /\ tick \in DOMAIN RestrictedTicks => RestrictedTicks[tick] = tx.sender
      /\ text.max # None /\ text.max # Word - 1 /\ premint <= text.max
      /\ tx.fee >= DeployFee(premint)
      /\ royalty # None => royalty >= MIN_ROYALTY_FEE /\ royalty <= MAX_ROYALTY_FEE
  <2>1. checks[1][1] /\ checks[4][1] /\ checks[5][1] /\ checks[6][1] /\ checks[7][1] /\ checks[8][1] /\ checks[9][1]
    BY <1>5
  <2> QED BY <2>1
<1>7. /\ op.tx = tx.id /\ op.kind = "deploy" /\ op.tick = tick /\ op.sender = tx.sender
      /\ op.security_fee = tx.fee
      /\ op.max = text.max /\ op.premint = premint
      /\ op.royalty # None => royalty # None /\ op.royalty.fee = royalty
  <2>1. DOMAIN fields = {"deployer", "max", "premint", "royalty", "mint_start_daa"}
    OBVIOUS
  <2>2. fields.max = text.max /\ fields.premint = premint
        /\ fields.royalty = IF royalty = None THEN None
                            ELSE [fee |-> royalty, beneficiary |-> Or(text.royalty_to, tx.sender)]
    OBVIOUS
  <2> HIDE DEF fields
  <2>3. /\ op.tx = tx.id /\ op.kind = "deploy" /\ op.tick = tick /\ op.sender = tx.sender
        /\ op.security_fee = tx.fee
        /\ \A f \in DOMAIN fields : op[f] = fields[f]
    BY <2>1, CommonIs
  <2> HIDE DEF op
  <2>4. op["max"] = fields["max"] /\ op["premint"] = fields["premint"] /\ op["royalty"] = fields["royalty"]
    BY <2>1, <2>3
  <2> QED BY <2>2, <2>3, <2>4
<1> HIDE DEF op, fields, checks
<1>8. /\ text.max \in 0..(Word - 1) /\ premint \in Nat /\ tx.fee \in Nat /\ Word \in Nat
      /\ royalty # None => royalty \in Nat
  <2>1. Word \in Nat
    BY AnalyzerAssumption
  <2>2. WordOrNone(text.max) /\ WordOrNone(text.premint) /\ WordOrNone(royalty) /\ tx.fee \in 0..(Word - 1)
    BY DEF TransactionOK
  <2> QED BY <1>6, <2>1, <2>2 DEF WordOrNone, Or
<1>9. KSPR_FEE_DEPLOY + premint * KSPR_FEE_MINT < Word =>
         tx.fee >= KSPR_FEE_DEPLOY + premint * KSPR_FEE_MINT
  BY <1>6, <1>8, DeployPrice
<1>10. op.tick \in {TickOf[t] : t \in DOMAIN TickOf}
  BY <1>7
<1>11. op.max < Word - 1 /\ op.premint <= op.max
  BY <1>6, <1>7, <1>8
<1>12. op.royalty # None => op.royalty.fee \in MIN_ROYALTY_FEE..MAX_ROYALTY_FEE
  BY <1>6, <1>7, <1>8, AnalyzerAssumption
<1> HIDE DEF premint, royalty, tick, text
<1>13. Fits(op)
  BY <1>6, <1>7, <1>9, <1>10, <1>11, <1>12 DEF Fits
<1> QED BY <1>2, <1>7, <1>13

\* So does a mint.
LEMMA MintFits ==
    ASSUME NEW tx, TransactionOK(tx), tx.text.tick \in DOMAIN TickOf, Mint(tx).kind = "operation"
    PROVE  Mint(tx).op.tx = tx.id /\ Fits(Mint(tx).op)
<1> DEFINE out == Output(tx, 1)
           checks == << <<tx.fee >= KSPR_FEE_MINT, "InsufficientMintFee">> >>
           fields == [to |-> Or(tx.text.to, tx.sender),
                      royalty |-> IF out = None THEN None ELSE [fee |-> out.amount, beneficiary |-> out.spk]]
           op == Extend(Common(tx, "mint"), fields)
<1>1. Mint(tx) = Verdict(FirstFailure(checks), op)
  BY DEF Mint
<1>2. FirstFailure(checks) = None /\ Mint(tx).op = op
  <2> HIDE DEF checks, op
  <2> QED BY <1>1, VerdictIs
<1>3. DOMAIN checks = 1..1 /\ \A i \in 1..1 : checks[i][2] # None
  BY AnalyzerAssumption DEF Errors
<1>4. checks[1][1]
  <2>1. \A i \in 1..1 : checks[i][1]
    <3> HIDE DEF checks
    <3> QED BY <1>2, <1>3, NoFailure
  <2> HIDE DEF checks
  <2> QED BY <2>1
<1>5. tx.fee >= KSPR_FEE_MINT
  BY <1>4
<1>6. op.tx = tx.id /\ op.kind = "mint" /\ op.tick = TickOf[tx.text.tick] /\ op.security_fee = tx.fee
  <2>1. DOMAIN fields = {"to", "royalty"}
    OBVIOUS
  <2> HIDE DEF fields
  <2> QED BY <2>1, CommonIs
<1> HIDE DEF op
<1> QED BY <1>2, <1>5, <1>6 DEF Fits

\* The other operations have no fee of their own.
LEMMA OtherFits ==
    ASSUME NEW tx, tx.text.tick \in DOMAIN TickOf, NEW kind, kind \notin {"deploy", "mint"}, NEW fields,
           "tx" \notin DOMAIN fields, "kind" \notin DOMAIN fields,
           "tick" \notin DOMAIN fields, "sender" \notin DOMAIN fields, "security_fee" \notin DOMAIN fields
    PROVE  LET op == Extend(Common(tx, kind), fields) IN op.tx = tx.id /\ Fits(op)
<1> DEFINE op == Extend(Common(tx, kind), fields)
<1>1. op.tx = tx.id /\ op.kind = kind /\ op.tick = TickOf[tx.text.tick]
  BY CommonIs
<1> HIDE DEF op
<1>2. op.tx = tx.id /\ Fits(op)
  BY <1>1 DEF Fits
<1> QED BY <1>2 DEF op

\* Whatever the handler, an operation is the transaction's own and fits the ledger.
LEMMA HandledIs ==
    ASSUME NEW tx, TransactionOK(tx), tx.text # None, tx.text.tick \in DOMAIN TickOf
    PROVE  /\ Handled(tx).kind \in {"error", "operation"}
           /\ Handled(tx).kind = "operation" => Handled(tx).op.tx = tx.id /\ Fits(Handled(tx).op)
<1>1. tx.text.op \in {"discount", "transfer", "mint", "deploy", "list", "send"}
  BY DEF TransactionOK
<1>2. CASE tx.text.op = "deploy"
  <2>1. Handled(tx) = Deploy(tx)
    BY <1>2 DEF Handled
  <2>2. Deploy(tx).kind \in {"error", "operation"}
    BY VerdictIs DEF Deploy
  <2> QED BY <2>1, <2>2, DeployFits
<1>3. CASE tx.text.op = "mint"
  <2>1. Handled(tx) = Mint(tx)
    BY <1>3 DEF Handled
  <2>2. Mint(tx).kind \in {"error", "operation"}
    BY VerdictIs DEF Mint
  <2> QED BY <2>1, <2>2, MintFits
<1>4. CASE tx.text.op = "discount"
  <2>1. Handled(tx) = Discount(tx)
    BY <1>4 DEF Handled
  <2> DEFINE fields == [to |-> tx.text.to, fee |-> tx.text.discount_fee]
             op == Extend(Common(tx, "discount"), fields)
  <2>2. PICK failure : Discount(tx) = Verdict(failure, op)
    BY DEF Discount
  <2>3. DOMAIN fields = {"to", "fee"}
    OBVIOUS
  <2> HIDE DEF fields
  <2>4. op.tx = tx.id /\ Fits(op)
    BY <2>3, OtherFits
  <2> HIDE DEF op
  <2> QED BY <2>1, <2>2, <2>4, VerdictIs
<1>5. CASE tx.text.op = "transfer"
  <2>1. Handled(tx) = Transfer(tx)
    BY <1>5 DEF Handled
  <2> DEFINE fields == [token |-> tx.text.token_id, to |-> tx.text.to]
             op == Extend(Common(tx, "transfer"), fields)
  <2>2. PICK failure : Transfer(tx) = Verdict(failure, op)
    BY DEF Transfer
  <2>3. DOMAIN fields = {"token", "to"}
    OBVIOUS
  <2> HIDE DEF fields
  <2>4. op.tx = tx.id /\ Fits(op)
    BY <2>3, OtherFits
  <2> HIDE DEF op
  <2> QED BY <2>1, <2>2, <2>4, VerdictIs
<1>6. CASE tx.text.op = "list"
  <2>1. Handled(tx) = List(tx)
    BY <1>6 DEF Handled
  <2> DEFINE out == Output(tx, 1)
             fields == [token |-> tx.text.token_id,
                        p2sh_matches |-> /\ out # None
                                         /\ out.spk = P2sh(SenderPubkey(tx), TickOf[tx.text.tick], tx.text.token_id)]
             op == Extend(Common(tx, "list"), fields)
  <2>2. PICK failure : List(tx) = Verdict(failure, op)
    BY DEF List
  <2>3. DOMAIN fields = {"token", "p2sh_matches"}
    OBVIOUS
  <2> HIDE DEF fields
  <2>4. op.tx = tx.id /\ Fits(op)
    BY <2>3, OtherFits
  <2> HIDE DEF op
  <2> QED BY <2>1, <2>2, <2>4, VerdictIs
<1>7. CASE tx.text.op = "send"
  <2>1. Handled(tx) = Send(tx)
    BY <1>7 DEF Handled
  <2> DEFINE buyer == Output(tx, 2)
             fields == [token |-> tx.text.token_id, listing_utxo_txid |-> tx.input,
                        buyer |-> IF buyer = None THEN None ELSE buyer.spk]
             op == Extend(Common(tx, "send"), fields)
  <2>2. PICK failure : Send(tx) = Verdict(failure, op)
    BY DEF Send
  <2>3. DOMAIN fields = {"token", "listing_utxo_txid", "buyer"}
    OBVIOUS
  <2> HIDE DEF fields
  <2>4. op.tx = tx.id /\ Fits(op)
    BY <2>3, OtherFits
  <2> HIDE DEF op
  <2> QED BY <2>1, <2>2, <2>4, VerdictIs
<1> QED BY <1>1, <1>2, <1>3, <1>4, <1>5, <1>6, <1>7

(* An inscription is an operation that fits the ledger, or an error. *)
LEMMA VerdictFits ==
    ASSUME NEW b \in DOMAIN Blocks, NEW k \in DOMAIN AcceptedBy(b)
    PROVE  LET tx == AcceptedBy(b)[k].tx
               verdict == VerdictOn(b, k)
           IN  /\ tx.converts /\ tx.script # None /\ tx.script.kspr =>
                     verdict.kind \in {"error", "operation", "panic"}
               /\ verdict.kind = "operation" => verdict.op.tx = tx.id /\ Fits(verdict.op)
<1> DEFINE tx == AcceptedBy(b)[k].tx
           daa == Blocks[b].daa
<1>1. TransactionOK(tx) /\ VerdictOn(b, k) = IF tx.converts THEN Detect(tx, daa) ELSE Nothing
  BY BlocksAssumption, AcceptedIs DEF VerdictOn
<1> HIDE DEF tx, daa
<1>2. \/ Detect(tx, daa) = Nothing /\ ~ (tx.script # None /\ tx.script.kspr)
      \/ \E error : Detect(tx, daa) = Rejected(error)
      \/ Detect(tx, daa) = Panics
      \/ Detect(tx, daa) = Handled(tx) /\ TextError(tx, daa) = None
  BY DEF Detect
<1>3. TextError(tx, daa) = None => tx.text # None /\ tx.text.tick \in DOMAIN TickOf
  BY AnalyzerAssumption DEF TextError, Errors
<1>4. CASE Detect(tx, daa) = Nothing /\ ~ (tx.script # None /\ tx.script.kspr)
  BY <1>1, <1>4 DEF Nothing, tx
<1>5. CASE \E error : Detect(tx, daa) = Rejected(error)
  BY <1>1, <1>5 DEF Rejected, Nothing, tx
<1>6. CASE Detect(tx, daa) = Handled(tx) /\ TextError(tx, daa) = None
  <2>1. /\ Detect(tx, daa).kind \in {"error", "operation"}
        /\ Detect(tx, daa).kind = "operation" => Detect(tx, daa).op.tx = tx.id /\ Fits(Detect(tx, daa).op)
    BY <1>1, <1>3, <1>6, HandledIs
  <2> QED BY <1>1, <2>1 DEF tx, Nothing
<1>7. CASE Detect(tx, daa) = Panics
  BY <1>1, <1>7 DEF Panics, Nothing, tx
<1> QED BY <1>2, <1>4, <1>5, <1>6, <1>7

-----------------------------------------------------------------------------
(* The sync task.                                                            *)

\* A nonempty set of natural numbers below some bound has a greatest element.
LEMMA GreatestNat ==
    ASSUME NEW S \in SUBSET Nat, S # {}, NEW bound \in Nat, \A n \in S : n <= bound
    PROVE  \E n \in S : \A m \in S : m <= n
<1> DEFINE Gaps == {g \in Nat : \E n \in S : g = bound - n}
<1>0. \A n \in S : bound - n \in Gaps
  OBVIOUS
<1>1. Gaps \in SUBSET Nat /\ Gaps # {}
  BY <1>0
<1>2. PICK g \in Gaps : \A h \in Gaps : g <= h
  <2> HIDE DEF Gaps
  <2> QED BY <1>1, LeastNat
<1>3. PICK n \in S : g = bound - n
  BY <1>2
<1>4. ASSUME NEW m \in S PROVE m <= n
  <2>1. bound - m \in Gaps
    BY <1>0
  <2> QED BY <1>2, <1>3, <2>1
<1> QED BY <1>4

\* A chain is a sequence of chain blocks.
LEMMA ChainIs ==
    ASSUME NEW c \in Chains
    PROVE  c \in Seq(DOMAIN Blocks) /\ Len(c) \in Nat /\ DOMAIN c = 1..Len(c)
BY IntakeAssumption

\* A part of a sequence.
LEMMA PartIs ==
    ASSUME NEW S, NEW s \in Seq(S), NEW m \in Nat, NEW n \in Nat, m <= n, n <= Len(s)
    PROVE  /\ SubSeq(s, m + 1, n) \in Seq(S) /\ Len(SubSeq(s, m + 1, n)) = n - m
           /\ DOMAIN SubSeq(s, m + 1, n) = 1..(n - m)
           /\ \A i \in 1..(n - m) : SubSeq(s, m + 1, n)[i] = s[m + i]
<1>1. m + 1 \in Int /\ n \in Int /\ \A i \in (m + 1)..n : s[i] \in S
  <2>1. \A i \in (m + 1)..n : i \in 1..Len(s)
    OBVIOUS
  <2> QED BY <2>1
<1>2. /\ SubSeq(s, m + 1, n) \in Seq(S)
      /\ Len(SubSeq(s, m + 1, n)) = IF m + 1 <= n THEN n - (m + 1) + 1 ELSE 0
      /\ \A i \in 1..(n - (m + 1) + 1) : SubSeq(s, m + 1, n)[i] = s[(m + 1) + i - 1]
  BY <1>1, SubSeqProperties
<1>3. Len(SubSeq(s, m + 1, n)) = n - m
  BY <1>2
<1>4. DOMAIN SubSeq(s, m + 1, n) = 1..(n - m)
  BY <1>2, <1>3
<1>5. ASSUME NEW i \in 1..(n - m) PROVE SubSeq(s, m + 1, n)[i] = s[m + i]
  <2>1. i \in 1..(n - (m + 1) + 1) /\ (m + 1) + i - 1 = m + i
    OBVIOUS
  <2> QED BY <1>2, <2>1
<1> QED BY <1>2, <1>3, <1>4, <1>5

\* The first elements of a sequence.
LEMMA PrefixIs ==
    ASSUME NEW S, NEW s \in Seq(S), NEW n \in Nat, n <= Len(s)
    PROVE  /\ SubSeq(s, 1, n) \in Seq(S) /\ Len(SubSeq(s, 1, n)) = n
           /\ DOMAIN SubSeq(s, 1, n) = 1..n
           /\ \A i \in 1..n : SubSeq(s, 1, n)[i] = s[i]
<1>1. /\ SubSeq(s, 0 + 1, n) \in Seq(S) /\ Len(SubSeq(s, 0 + 1, n)) = n - 0
      /\ DOMAIN SubSeq(s, 0 + 1, n) = 1..(n - 0)
      /\ \A i \in 1..(n - 0) : SubSeq(s, 0 + 1, n)[i] = s[0 + i]
  <2>1. 0 \in Nat /\ 0 <= n
    OBVIOUS
  <2> QED BY <2>1, PartIs
<1>2. 0 + 1 = 1 /\ n - 0 = n /\ \A i \in 1..n : 0 + i = i
  OBVIOUS
<1> QED BY <1>1, <1>2

\* There is a longest common prefix.
LEMMA CommonPrefixIs ==
    ASSUME NEW S, NEW c \in Seq(S), NEW d \in Seq(S)
    PROVE  LET n == CommonPrefix(c, d)
           IN  n \in Nat /\ n <= Len(c) /\ n <= Len(d) /\ SubSeq(c, 1, n) = SubSeq(d, 1, n)
<1> DEFINE Agree(n) == n <= Len(d) /\ SubSeq(c, 1, n) = SubSeq(d, 1, n)
           both == {n \in 0..Len(c) : Agree(n)}
<1>0. Len(c) \in Nat /\ Len(d) \in Nat
  OBVIOUS
<1>1. 0 \in both
  <2>1. SubSeq(c, 1, 0) = <<>> /\ SubSeq(d, 1, 0) = <<>>
    BY SubSeqEmpty
  <2> QED BY <1>0, <2>1
<1>2. PICK n \in both : \A m \in both : m <= n
  <2>1. both \in SUBSET Nat /\ \A m \in both : m <= Len(c)
    BY <1>0
  <2> HIDE DEF both
  <2> QED BY <1>0, <1>1, <2>1, GreatestNat
<1>3. n \in Nat /\ n <= Len(c) /\ Agree(n)
  BY <1>0, <1>2
<1>4. ASSUME n < Len(c), n < Len(d), c[n + 1] = d[n + 1] PROVE FALSE
  <2>1. n + 1 \in Nat /\ n + 1 <= Len(c) /\ n + 1 <= Len(d)
    BY <1>0, <1>3, <1>4
  <2>2. /\ SubSeq(c, 1, n + 1) \in Seq(S) /\ Len(SubSeq(c, 1, n + 1)) = n + 1
        /\ \A i \in 1..(n + 1) : SubSeq(c, 1, n + 1)[i] = c[i]
        /\ SubSeq(d, 1, n + 1) \in Seq(S) /\ Len(SubSeq(d, 1, n + 1)) = n + 1
        /\ \A i \in 1..(n + 1) : SubSeq(d, 1, n + 1)[i] = d[i]
    BY <2>1, PrefixIs
  <2>3. /\ \A i \in 1..n : SubSeq(c, 1, n)[i] = c[i]
        /\ \A i \in 1..n : SubSeq(d, 1, n)[i] = d[i]
    BY <1>3, PrefixIs
  <2>4. \A i \in 1..(n + 1) : c[i] = d[i]
    <3>1. \A i \in 1..n : c[i] = d[i]
      BY <1>3, <2>3
    <3>2. \A i \in 1..(n + 1) : i \in 1..n \/ i = n + 1
      BY <1>3
    <3> QED BY <1>4, <3>1, <3>2
  <2>5. SubSeq(c, 1, n + 1) = SubSeq(d, 1, n + 1)
    BY <2>2, <2>4, SeqEqual
  <2>6. n + 1 \in both
    BY <2>1, <2>5
  <2> QED BY <1>2, <1>3, <2>6
<1>5. n \in 0..Len(c) /\ n <= Len(d) /\ SubSeq(c, 1, n) = SubSeq(d, 1, n)
      /\ (n < Len(c) /\ n < Len(d) => c[n + 1] # d[n + 1])
  BY <1>2, <1>4
<1> DEFINE Is(x) == /\ x <= Len(d) /\ SubSeq(c, 1, x) = SubSeq(d, 1, x)
                    /\ x < Len(c) /\ x < Len(d) => c[x + 1] # d[x + 1]
           prefix == CHOOSE x \in 0..Len(c) : Is(x)
<1>6. Is(n)
  BY <1>5
<1>7. CommonPrefix(c, d) = prefix
  BY DEF CommonPrefix
<1>8. prefix \in 0..Len(c) /\ Is(prefix)
  <2> HIDE DEF Is
  <2> QED BY <1>5, <1>6
<1>9. CommonPrefix(c, d) \in 0..Len(c) /\ Is(CommonPrefix(c, d))
  <2> HIDE DEF Is, prefix
  <2> QED BY <1>7, <1>8
<1> QED BY <1>0, <1>9

\* Records that cover the added blocks name them all.
LEMMA CoversIs ==
    ASSUME NEW S, NEW added \in Seq(S), Len(added) > 0, NEW records \in Answers(added),
           Covers(added, records)
    PROVE  records = added
<1>0. Len(added) \in Nat /\ DOMAIN added = 1..Len(added)
  OBVIOUS
<1>1. CASE records = Front(added)
  <2>1. Len(added) - 1 \in Nat /\ Len(added) - 1 <= Len(added)
    BY <1>0
  <2>2. Len(SubSeq(added, 1, Len(added) - 1)) = Len(added) - 1
    BY <2>1, PrefixIs
  <2> QED BY <1>0, <1>1, <2>2 DEF Front, Covers
<1>2. ASSUME NEW h, records = [added EXCEPT ![1] = h] PROVE records = added
  <2>1. records = [i \in DOMAIN added |-> records[i]]
    BY <1>2
  <2>2. added = [i \in DOMAIN added |-> added[i]]
    BY <1>0
  <2>3. \A i \in DOMAIN added : records[i] = added[i]
    BY DEF Covers
  <2> QED BY <2>1, <2>2, <2>3
<1> QED BY <1>1, <1>2 DEF Answers

\* The batch is the part of a chain that follows the blocks it keeps.
BatchOf(c, last) ==
    /\ common <= Len(indexed) /\ common < last /\ last <= Len(c)
    /\ SubSeq(indexed, 1, common) = SubSeq(c, 1, common)
    /\ batch = SubSeq(c, common + 1, last)

BatchInv ==
    /\ chain \in Chains
    /\ \E c \in Chains : \E n \in Nat : n <= Len(c) /\ indexed = SubSeq(c, 1, n)
    /\ phase \in {"open", "migrate", "idle", "reconstruct", "ready", "panicking"}
    /\ phase \in {"open", "migrate", "idle", "panicking"} =>
          batch = <<>> /\ common = 0 /\ block_cache = {} /\ rebuilt = <<>>
    /\ common \in Nat
    /\ phase \in {"reconstruct", "ready"} => \E c \in Chains : \E last \in Nat : BatchOf(c, last)
    /\ rebuilt \in Seq({Rebuilt(b) : b \in DOMAIN Blocks}) /\ Len(rebuilt) <= Len(batch)
    /\ \A i \in 1..Len(rebuilt) : rebuilt[i] = Rebuilt(batch[i])
    /\ mergesets # <<>> => phase = "ready" /\ Len(mergesets) = Len(batch)

\* A block in the batch or applied has made its mergeset, and no other; it would not have
\* got that far with a transaction on which the analyzer panics.
SeenInv ==
    /\ DOMAIN seen = DOMAIN Blocks
    /\ \A b \in DOMAIN Blocks : seen[b] \subseteq {MergesetOf(b, Rebuilt(b))}
    /\ \A b \in DOMAIN Blocks : seen[b] # {} => Judged(b, "panic") = {}
    /\ phase = "ready" => \A i \in DOMAIN batch : seen[batch[i]] # {}
    /\ \A n \in DOMAIN indexed : seen[indexed[n]] # {}

\* What is indexed is the beginning of a chain.
LEMMA IndexedIs ==
    ASSUME BatchInv
    PROVE  /\ indexed \in Seq(DOMAIN Blocks) /\ Len(indexed) \in Nat
           /\ DOMAIN indexed = 1..Len(indexed)
           /\ \E c \in Chains : indexed = SubSeq(c, 1, Len(indexed))
<1>1. PICK c \in Chains, n \in Nat : n <= Len(c) /\ indexed = SubSeq(c, 1, n)
  BY DEF BatchInv
<1>2. indexed \in Seq(DOMAIN Blocks) /\ Len(indexed) = n /\ DOMAIN indexed = 1..n
  BY <1>1, ChainIs, PrefixIs
<1> QED BY <1>1, <1>2

\* A batch holds chain blocks.
LEMMA BatchIs ==
    ASSUME BatchInv
    PROVE  /\ batch \in Seq(DOMAIN Blocks) /\ Len(batch) \in Nat /\ DOMAIN batch = 1..Len(batch)
           /\ common <= Len(indexed)
<1>1. CASE phase \in {"open", "migrate", "idle", "panicking"}
  <2>1. batch = <<>> /\ common = 0
    BY <1>1 DEF BatchInv
  <2> QED BY <2>1, IndexedIs
<1>2. CASE phase \in {"reconstruct", "ready"}
  <2>1. PICK c \in Chains, last \in Nat : BatchOf(c, last)
    BY <1>2 DEF BatchInv
  <2>2. /\ common <= last /\ last <= Len(c) /\ batch = SubSeq(c, common + 1, last)
        /\ common <= Len(indexed) /\ common \in Nat
    BY <2>1 DEF BatchOf, BatchInv
  <2>3. batch \in Seq(DOMAIN Blocks)
    BY <2>2, ChainIs, PartIs
  <2> QED BY <2>2, <2>3
<1> QED BY <1>1, <1>2 DEF BatchInv

\* A batch that is dropped leaves nothing.
LEMMA IdleBatch ==
    ASSUME BatchInv, BatchEnds, UNCHANGED <<chain, indexed>>
    PROVE  BatchInv'
<1>1. phase' = "idle" /\ common' = 0 /\ batch' = <<>> /\ block_cache' = {} /\ rebuilt' = <<>> /\ mergesets' = <<>>
  BY DEF BatchEnds, BatchDropped
<1>2. rebuilt' \in Seq({Rebuilt(b) : b \in DOMAIN Blocks}) /\ Len(rebuilt') = 0 /\ Len(batch') = 0
  BY <1>1
<1> QED BY <1>1, <1>2 DEF BatchInv

\* The batch, applied behind the blocks it keeps.
LEMMA ApplyIs ==
    ASSUME BatchInv, Apply
    PROVE  /\ \E c \in Chains : \E n \in Nat : n <= Len(c) /\ indexed' = SubSeq(c, 1, n)
           /\ Len(indexed') = common + Len(batch) /\ DOMAIN indexed' = 1..(common + Len(batch))
           /\ \A n \in 1..common : n \in DOMAIN indexed /\ indexed'[n] = indexed[n]
           /\ \A n \in (common + 1)..(common + Len(batch)) :
                 n - common \in DOMAIN batch /\ indexed'[n] = batch[n - common]
<1>1. phase = "ready" /\ indexed' = SubSeq(indexed, 1, common) \o batch
  BY DEF Apply
<1>2. PICK c \in Chains, last \in Nat : BatchOf(c, last)
  BY <1>1 DEF BatchInv
<1>3. /\ common \in Nat /\ common <= Len(indexed) /\ common < last /\ last <= Len(c)
      /\ SubSeq(indexed, 1, common) = SubSeq(c, 1, common)
      /\ batch = SubSeq(c, common + 1, last)
  BY <1>2 DEF BatchOf, BatchInv
<1>4. indexed' = SubSeq(c, 1, last)
  <2>1. c \in Seq(DOMAIN Blocks) /\ Len(c) \in Nat
    BY ChainIs
  <2>2. 1 \in 1..(Len(c) + 1) /\ common \in (1 - 1)..Len(c) /\ last \in common..Len(c)
    BY <1>3, <2>1
  <2>3. SubSeq(c, 1, common) \o SubSeq(c, common + 1, last) = SubSeq(c, 1, last)
    BY <2>1, <2>2, ConcatAdjacentSubSeq
  <2> QED BY <1>1, <1>3, <2>3
<1> DEFINE kept == SubSeq(indexed, 1, common)
<1>5. /\ kept \in Seq(DOMAIN Blocks) /\ Len(kept) = common
      /\ \A i \in 1..common : kept[i] = indexed[i]
  BY <1>3, IndexedIs, PrefixIs
<1>6. batch \in Seq(DOMAIN Blocks) /\ Len(batch) \in Nat /\ DOMAIN batch = 1..Len(batch)
  BY BatchIs
<1> HIDE DEF kept
<1>7. /\ kept \o batch \in Seq(DOMAIN Blocks) /\ Len(kept \o batch) = common + Len(batch)
      /\ \A i \in 1..(common + Len(batch)) :
            (kept \o batch)[i] = IF i <= common THEN kept[i] ELSE batch[i - common]
  BY <1>5, <1>6, ConcatProperties
<1>8. indexed' = kept \o batch
  BY <1>1 DEF kept
<1>9. DOMAIN indexed' = 1..(common + Len(batch)) /\ Len(indexed') = common + Len(batch)
  BY <1>7, <1>8
<1>10. ASSUME NEW n \in 1..common PROVE n \in DOMAIN indexed /\ indexed'[n] = indexed[n]
  <2>1. n \in 1..(common + Len(batch)) /\ n <= common
    BY <1>3, <1>6
  <2>2. indexed'[n] = kept[n]
    BY <1>7, <1>8, <2>1
  <2>3. n \in DOMAIN indexed
    BY <1>3, IndexedIs
  <2> QED BY <1>5, <2>2, <2>3
<1>11. ASSUME NEW n \in (common + 1)..(common + Len(batch))
       PROVE  n - common \in DOMAIN batch /\ indexed'[n] = batch[n - common]
  <2>1. n \in 1..(common + Len(batch)) /\ ~ (n <= common) /\ n - common \in 1..Len(batch)
    BY <1>3, <1>6
  <2> QED BY <1>6, <1>7, <1>8, <2>1
<1>12. \E d \in Chains : \E n \in Nat : n <= Len(d) /\ indexed' = SubSeq(d, 1, n)
  BY <1>3, <1>4
<1> QED BY <1>9, <1>10, <1>11, <1>12

\* The answer starts where the chains part.
LEMMA BatchRequest ==
    ASSUME BatchInv, Request
    PROVE  BatchInv'
<1> DEFINE kept == CommonPrefix(indexed, chain)
<1>0. chain \in Chains /\ chain \in Seq(DOMAIN Blocks) /\ Len(chain) \in Nat
  BY ChainIs DEF BatchInv
<1>1. kept \in Nat /\ kept <= Len(indexed) /\ kept <= Len(chain)
      /\ SubSeq(indexed, 1, kept) = SubSeq(chain, 1, kept)
  <2>1. indexed \in Seq(DOMAIN Blocks)
    BY IndexedIs
  <2> HIDE DEF kept
  <2> QED BY <1>0, <2>1, CommonPrefixIs DEF kept
<1>2. /\ phase = "idle" /\ phase' = "reconstruct"
      /\ UNCHANGED <<chain, indexed, block_cache, rebuilt, mergesets>>
      /\ \E last \in (kept + 1)..Len(chain) :
            LET added == SubSeq(chain, kept + 1, last)
            IN  \E records \in Answers(added) :
                   Covers(added, records) /\ common' = kept /\ batch' = records
  BY DEF Request
<1> HIDE DEF kept
<1>3. PICK last \in (kept + 1)..Len(chain) :
            LET added == SubSeq(chain, kept + 1, last)
            IN  \E records \in Answers(added) :
                   Covers(added, records) /\ common' = kept /\ batch' = records
  BY <1>2
<1> DEFINE added == SubSeq(chain, kept + 1, last)
<1>4. last \in Nat /\ kept < last /\ last <= Len(chain)
  BY <1>0, <1>1
<1>5. added \in Seq(DOMAIN Blocks) /\ Len(added) = last - kept
  <2>1. kept <= last
    BY <1>1, <1>4
  <2> QED BY <1>0, <1>1, <1>4, <2>1, PartIs
<1>6. batch' = added /\ common' = kept
  <2>1. PICK records \in Answers(added) : Covers(added, records) /\ common' = kept /\ batch' = records
    BY <1>3
  <2>2. Len(added) > 0
    BY <1>1, <1>4, <1>5
  <2> HIDE DEF added
  <2>3. records = added
    BY <1>5, <2>1, <2>2, CoversIs
  <2> QED BY <2>1, <2>3
<1>7. PICK c \in Chains : c = chain
  BY <1>0
<1>8. rebuilt = <<>> /\ mergesets = <<>>
  BY <1>2 DEF BatchInv
<1>9. rebuilt' \in Seq({Rebuilt(b) : b \in DOMAIN Blocks}) /\ Len(rebuilt') = 0
  BY <1>2, <1>8
<1>10. Len(rebuilt') <= Len(batch')
  BY <1>1, <1>4, <1>5, <1>6, <1>9
<1>11. \A i \in 1..Len(rebuilt') : rebuilt'[i] = Rebuilt(batch'[i])
  BY <1>9
<1>12. BatchOf(c, last)'
  BY <1>1, <1>2, <1>4, <1>6, <1>7 DEF BatchOf
<1> HIDE DEF added
<1>13. (\E d \in Chains : \E l \in Nat : BatchOf(d, l))'
  BY <1>4, <1>12
<1>14. common' \in Nat
  BY <1>1, <1>6
<1> QED BY <1>2, <1>8, <1>9, <1>10, <1>11, <1>13, <1>14 DEF BatchInv

\* The next mergeset of the batch is the one its block always has.
LEMMA BatchReconstruct ==
    ASSUME BatchInv, Reconstruct
    PROVE  BatchInv'
<1> DEFINE R == {Rebuilt(b) : b \in DOMAIN Blocks}
           n == Len(rebuilt)
           b == batch[n + 1]
<1>1. /\ phase = "reconstruct" /\ n < Len(batch)
      /\ UNCHANGED <<chain, indexed, phase, common, batch, mergesets>>
      /\ \E listed \in SetToAllKPermutations(Merged(b)) :
            Len(listed) = Cardinality(Merged(b)) /\ rebuilt' = Append(rebuilt, MergedBlocks(b, listed))
  BY DEF Reconstruct
<1>2. rebuilt \in Seq(R) /\ n \in Nat /\ \A i \in 1..n : rebuilt[i] = Rebuilt(batch[i])
  BY DEF BatchInv
<1>3. b \in DOMAIN Blocks /\ Rebuilt(b) \in R
  <2>1. batch \in Seq(DOMAIN Blocks) /\ Len(batch) \in Nat /\ n + 1 \in 1..Len(batch)
    BY <1>1, <1>2, BatchIs
  <2> HIDE DEF n
  <2>2. b \in DOMAIN Blocks
    BY <2>1, ElementOfSeq
  <2> QED BY <2>2
<1> HIDE DEF R, n
<1>4. rebuilt' = Append(rebuilt, Rebuilt(b))
  <2>1. PICK listed \in SetToAllKPermutations(Merged(b)) :
            Len(listed) = Cardinality(Merged(b)) /\ rebuilt' = Append(rebuilt, MergedBlocks(b, listed))
    BY <1>1
  <2> HIDE DEF b
  <2>2. MergedBlocks(b, listed) = Rebuilt(b)
    BY <1>3, <2>1, SameBlocks
  <2> QED BY <2>1, <2>2
<1> HIDE DEF b
<1>5. /\ rebuilt' \in Seq(R) /\ Len(rebuilt') = n + 1
      /\ \A i \in 1..n : rebuilt'[i] = rebuilt[i]
      /\ rebuilt'[n + 1] = Rebuilt(b)
  BY <1>2, <1>3, <1>4, AppendProperties DEF n
<1>6. ASSUME NEW i \in 1..Len(rebuilt') PROVE rebuilt'[i] = Rebuilt(batch'[i])
  <2>1. i \in 1..n \/ i = n + 1
    BY <1>2, <1>5
  <2>2. CASE i \in 1..n
    BY <1>1, <1>2, <1>5, <2>2
  <2>3. CASE i = n + 1
    BY <1>1, <1>5, <2>3 DEF b
  <2> QED BY <2>1, <2>2, <2>3
<1>7. Len(rebuilt') <= Len(batch')
  <2>1. Len(batch) \in Nat
    BY BatchIs
  <2> QED BY <1>1, <1>2, <1>5, <2>1 DEF n
<1>8. (\E c \in Chains : \E l \in Nat : BatchOf(c, l))'
  <2>1. \E c \in Chains : \E l \in Nat : BatchOf(c, l)
    BY <1>1 DEF BatchInv
  <2> QED BY <1>1, <2>1 DEF BatchOf
<1>9. phase = "reconstruct" /\ phase' = "reconstruct" /\ mergesets = <<>> /\ mergesets' = <<>>
  BY <1>1 DEF BatchInv
<1>10. /\ (chain \in Chains)'
       /\ (\E c \in Chains : \E k \in Nat : k <= Len(c) /\ indexed = SubSeq(c, 1, k))'
       /\ (common \in Nat)'
  BY <1>1 DEF BatchInv
<1> QED BY <1>5, <1>6, <1>7, <1>8, <1>9, <1>10 DEF BatchInv, R

\* The analysis makes one mergeset of each block, and adds it to those seen.
LEMMA AnalyzeIs ==
    ASSUME BatchInv, SeenInv, Analyze
    PROVE  /\ Len(mergesets') = Len(batch)
           /\ \A i \in DOMAIN batch : mergesets'[i] = MergesetOf(batch[i], Rebuilt(batch[i]))
           /\ DOMAIN seen' = DOMAIN Blocks
           /\ \A b \in DOMAIN Blocks :
                 seen'[b] = seen[b] \cup {MergesetOf(b, Rebuilt(b)) : i \in {j \in DOMAIN batch : batch[j] = b}}
<1> DEFINE M == {MergesetOf(b, Rebuilt(b)) : b \in DOMAIN Blocks}
           made == [i \in DOMAIN batch |-> MergesetOf(batch[i], rebuilt[i])]
<1>1. /\ Len(rebuilt) = Len(batch) /\ mergesets' = made
      /\ seen' = [b \in DOMAIN seen |->
                     seen[b] \cup {mergesets'[i] : i \in {j \in DOMAIN batch : batch[j] = b}}]
  BY DEF Analyze
<1>2. batch \in Seq(DOMAIN Blocks) /\ Len(batch) \in Nat /\ DOMAIN batch = 1..Len(batch)
  BY BatchIs
<1>3. \A i \in DOMAIN batch : batch[i] \in DOMAIN Blocks /\ made[i] = MergesetOf(batch[i], Rebuilt(batch[i]))
  BY <1>1, <1>2 DEF BatchInv
<1>4. made \in [1..Len(batch) -> M]
  <2>1. \A i \in DOMAIN batch : made[i] \in M
    BY <1>3
  <2>2. DOMAIN made = 1..Len(batch) /\ made = [i \in 1..Len(batch) |-> made[i]]
    BY <1>2
  <2> HIDE DEF made, M
  <2> QED BY <1>2, <2>1, <2>2
<1> HIDE DEF made, M
<1>5. Len(made) = Len(batch)
  <2>1. made \in Seq(M)
    BY <1>2, <1>4
  <2> QED BY <1>2, <1>4, <2>1
<1>6. ASSUME NEW b \in DOMAIN Blocks
      PROVE  seen'[b] = seen[b] \cup {MergesetOf(b, Rebuilt(b)) : i \in {j \in DOMAIN batch : batch[j] = b}}
  <2>1. b \in DOMAIN seen
    BY DEF SeenInv
  <2>2. \A i \in {j \in DOMAIN batch : batch[j] = b} : mergesets'[i] = MergesetOf(b, Rebuilt(b))
    BY <1>1, <1>3
  <2>3. {mergesets'[i] : i \in {j \in DOMAIN batch : batch[j] = b}}
           = {MergesetOf(b, Rebuilt(b)) : i \in {j \in DOMAIN batch : batch[j] = b}}
    BY <2>2
  <2> QED BY <1>1, <2>1, <2>3
<1>7. DOMAIN seen' = DOMAIN Blocks
  BY <1>1 DEF SeenInv
<1> QED BY <1>1, <1>3, <1>5, <1>6, <1>7

LEMMA BatchAnalyze ==
    ASSUME BatchInv, SeenInv, Analyze
    PROVE  BatchInv'
<1>1. /\ phase = "reconstruct" /\ phase' = "ready"
      /\ UNCHANGED <<chain, indexed, common, batch, block_cache, rebuilt>>
  BY DEF Analyze
<1>2. Len(mergesets') = Len(batch')
  BY <1>1, AnalyzeIs
<1>3. (\E c \in Chains : \E l \in Nat : BatchOf(c, l))'
  <2>1. \E c \in Chains : \E l \in Nat : BatchOf(c, l)
    BY <1>1 DEF BatchInv
  <2> QED BY <1>1, <2>1 DEF BatchOf
<1>4. /\ (chain \in Chains)'
      /\ (\E c \in Chains : \E k \in Nat : k <= Len(c) /\ indexed = SubSeq(c, 1, k))'
      /\ (common \in Nat)'
      /\ rebuilt' \in Seq({Rebuilt(b) : b \in DOMAIN Blocks}) /\ Len(rebuilt') <= Len(batch')
      /\ \A i \in 1..Len(rebuilt') : rebuilt'[i] = Rebuilt(batch'[i])
  BY <1>1 DEF BatchInv
<1> QED BY <1>1, <1>2, <1>3, <1>4 DEF BatchInv

LEMMA BatchApply ==
    ASSUME BatchInv, Apply
    PROVE  BatchInv'
<1>1. BatchEnds /\ chain' = chain
  BY DEF Apply
<1>2. phase' = "idle" /\ common' = 0 /\ batch' = <<>> /\ block_cache' = {} /\ rebuilt' = <<>> /\ mergesets' = <<>>
  BY <1>1 DEF BatchEnds, BatchDropped
<1>3. rebuilt' \in Seq({Rebuilt(b) : b \in DOMAIN Blocks}) /\ Len(rebuilt') = 0 /\ Len(batch') = 0
  BY <1>2
<1>4. \E c \in Chains : \E n \in Nat : n <= Len(c) /\ indexed' = SubSeq(c, 1, n)
  BY ApplyIs
<1> QED BY <1>1, <1>2, <1>3, <1>4 DEF BatchInv

\* Opening, a migration, a panic and a crash, without a batch.
LEMMA BatchAtRest ==
    ASSUME BatchInv, phase' \in {"open", "migrate", "idle", "panicking"}, UNCHANGED <<chain, indexed>>,
           common' = 0, batch' = <<>>, block_cache' = {}, rebuilt' = <<>>, mergesets' = <<>>
    PROVE  BatchInv'
<1>1. rebuilt' \in Seq({Rebuilt(b) : b \in DOMAIN Blocks}) /\ Len(rebuilt') = 0 /\ Len(batch') = 0
  OBVIOUS
<1>2. phase' \notin {"reconstruct", "ready"}
  OBVIOUS
<1> QED BY <1>1, <1>2 DEF BatchInv

LEMMA BatchSame ==
    ASSUME BatchInv, chain' \in Chains, UNCHANGED <<indexed, batchVars>>
    PROVE  BatchInv'
<1>1. UNCHANGED <<indexed, phase, common, batch, block_cache, rebuilt, mergesets>>
  BY DEF batchVars
<1>2. (\E c \in Chains : \E l \in Nat : BatchOf(c, l)) => (\E c \in Chains : \E l \in Nat : BatchOf(c, l))'
  BY <1>1 DEF BatchOf
<1> QED BY <1>1, <1>2 DEF BatchInv

\* What is indexed and the batch stay parts of chains.
LEMMA BatchStep ==
    ASSUME BatchInv, SeenInv, [Next]_vars
    PROVE  BatchInv'
<1>1. CASE Reorg
  BY <1>1, BatchSame DEF Reorg
<1>2. CASE Request
  BY <1>2, BatchRequest
<1>3. CASE Reconstruct
  BY <1>3, BatchReconstruct
<1>4. CASE ReconstructFails
  BY <1>4, IdleBatch DEF ReconstructFails
<1>5. CASE Analyze
  BY <1>5, BatchAnalyze
<1>6. CASE Apply
  BY <1>6, BatchApply
<1>7. CASE ApplyFails
  BY <1>7, IdleBatch DEF ApplyFails
<1>8. CASE Draw
  <2>1. UNCHANGED <<chain, indexed, batchVars>>
    BY <1>8 DEF Draw
  <2> QED BY <2>1, BatchSame DEF BatchInv
<1>9. CASE Write
  <2>1. UNCHANGED <<chain, indexed, batchVars>>
    BY <1>9 DEF Write
  <2> QED BY <2>1, BatchSame DEF BatchInv
<1>10. CASE Open \/ MigrationBegins \/ MigrationEnds
  <2>1. /\ phase \in {"open", "migrate"} /\ phase' \in {"idle", "migrate"}
        /\ UNCHANGED <<chain, indexed, common, batch, block_cache, rebuilt, mergesets>>
    BY <1>10 DEF Open, MigrationBegins, MigrationEnds
  <2>2. common = 0 /\ batch = <<>> /\ block_cache = {} /\ rebuilt = <<>> /\ mergesets = <<>>
    BY <2>1 DEF BatchInv
  <2> QED BY <2>1, <2>2, BatchAtRest
<1>11. CASE Migrate
  <2>1. UNCHANGED <<chain, indexed, batchVars>>
    BY <1>11 DEF Migrate
  <2> QED BY <2>1, BatchSame DEF BatchInv
<1>12. CASE Crash
  BY <1>12, BatchAtRest DEF Crash, BatchDropped
<1>13. CASE AnalyzePanics
  BY <1>13, BatchAtRest DEF AnalyzePanics, BatchDropped
<1>14. CASE UNCHANGED vars
  <2>1. UNCHANGED <<chain, indexed, batchVars>>
    BY <1>14 DEF vars
  <2> QED BY <2>1, BatchSame DEF BatchInv
<1> QED BY <1>1, <1>2, <1>3, <1>4, <1>5, <1>6, <1>7, <1>8, <1>9, <1>10, <1>11, <1>12, <1>13, <1>14 DEF Next

LEMMA SeenAnalyze ==
    ASSUME BatchInv, SeenInv, Analyze
    PROVE  SeenInv'
<1>1. phase' = "ready" /\ UNCHANGED <<indexed, batch>>
  BY DEF Analyze
<1>2. DOMAIN seen' = DOMAIN Blocks
  BY AnalyzeIs
<1>3. \A b \in DOMAIN Blocks :
         seen'[b] = seen[b] \cup {MergesetOf(b, Rebuilt(b)) : i \in {j \in DOMAIN batch : batch[j] = b}}
  BY AnalyzeIs
<1>4. ASSUME NEW b \in DOMAIN Blocks PROVE seen'[b] \subseteq {MergesetOf(b, Rebuilt(b))}
  <2>1. seen[b] \subseteq {MergesetOf(b, Rebuilt(b))}
    BY DEF SeenInv
  <2> QED BY <1>3, <2>1
<1>5. ASSUME NEW i \in DOMAIN batch PROVE seen'[batch[i]] # {}
  <2>1. batch[i] \in DOMAIN Blocks /\ i \in {j \in DOMAIN batch : batch[j] = batch[i]}
    BY BatchIs
  <2>2. MergesetOf(batch[i], Rebuilt(batch[i])) \in seen'[batch[i]]
    BY <1>3, <2>1
  <2> QED BY <2>2
<1>6. ASSUME NEW n \in DOMAIN indexed PROVE seen'[indexed[n]] # {}
  <2>1. indexed[n] \in DOMAIN Blocks /\ seen[indexed[n]] # {}
    BY IndexedIs DEF SeenInv
  <2> QED BY <1>3, <2>1
<1>7. ASSUME NEW b \in DOMAIN Blocks, seen'[b] # {} PROVE Judged(b, "panic") = {}
  <2>1. CASE seen[b] # {}
    BY <2>1 DEF SeenInv
  <2>2. CASE seen[b] = {}
    <3>1. PICK i \in DOMAIN batch : batch[i] = b
      BY <1>3, <1>7, <2>2
    <3> QED BY <3>1 DEF Analyze
  <2> QED BY <2>1, <2>2
<1> QED BY <1>1, <1>2, <1>4, <1>5, <1>6, <1>7 DEF SeenInv

LEMMA SeenApply ==
    ASSUME BatchInv, SeenInv, Apply
    PROVE  SeenInv'
<1>1. phase = "ready" /\ phase' = "idle" /\ seen' = seen
  BY DEF Apply, BatchEnds
<1>2. ASSUME NEW n \in DOMAIN indexed' PROVE seen[indexed'[n]] # {}
  <2>1. common \in Nat /\ Len(batch) \in Nat /\ DOMAIN indexed' = 1..(common + Len(batch))
    BY ApplyIs, BatchIs DEF BatchInv
  <2>2. n \in 1..common \/ n \in (common + 1)..(common + Len(batch))
    BY <2>1
  <2>3. CASE n \in 1..common
    BY <2>3, ApplyIs DEF SeenInv
  <2>4. CASE n \in (common + 1)..(common + Len(batch))
    <3>1. n - common \in DOMAIN batch /\ indexed'[n] = batch[n - common]
      BY <2>4, ApplyIs
    <3> QED BY <1>1, <3>1 DEF SeenInv
  <2> QED BY <2>2, <2>3, <2>4
<1> QED BY <1>1, <1>2 DEF SeenInv

LEMMA SeenSame ==
    ASSUME SeenInv, UNCHANGED <<indexed, seen>>, phase' = "ready" => phase = "ready" /\ batch' = batch
    PROVE  SeenInv'
BY DEF SeenInv

\* A block makes no second mergeset.
LEMMA SeenStep ==
    ASSUME BatchInv, SeenInv, [Next]_vars
    PROVE  SeenInv'
<1>1. CASE Reorg
  BY <1>1, SeenSame DEF Reorg, batchVars
<1>2. CASE Request \/ Reconstruct
  BY <1>2, SeenSame DEF Request, Reconstruct
<1>3. CASE ReconstructFails \/ ApplyFails
  BY <1>3, SeenSame DEF ReconstructFails, ApplyFails, BatchEnds
<1>4. CASE Analyze
  BY <1>4, SeenAnalyze
<1>5. CASE Apply
  BY <1>5, SeenApply
<1>6. CASE Draw
  BY <1>6, SeenSame DEF Draw, batchVars
<1>7. CASE Write
  <2>1. UNCHANGED <<indexed, seen, phase, batch>>
    BY <1>7 DEF Write, batchVars
  <2> QED BY <2>1, SeenSame
<1>8. CASE Open \/ MigrationBegins \/ MigrationEnds
  BY <1>8, SeenSame DEF Open, MigrationBegins, MigrationEnds
<1>9. CASE Migrate
  BY <1>9, SeenSame DEF Migrate, batchVars
<1>10. CASE Crash
  BY <1>10, SeenSame DEF Crash
<1>11. CASE AnalyzePanics
  BY <1>11, SeenSame DEF AnalyzePanics
<1>12. CASE UNCHANGED vars
  BY <1>12, SeenSame DEF vars, batchVars
<1> QED BY <1>1, <1>2, <1>3, <1>4, <1>5, <1>6, <1>7, <1>8, <1>9, <1>10, <1>11, <1>12 DEF Next

LEMMA TaskInit ==
    ASSUME Init
    PROVE  BatchInv /\ SeenInv
<1>1. /\ chain \in Chains /\ indexed = <<>> /\ phase = "open" /\ common = 0 /\ batch = <<>>
      /\ block_cache = {} /\ rebuilt = <<>> /\ mergesets = <<>> /\ seen = [b \in DOMAIN Blocks |-> {}]
  BY DEF Init
<1>2. 0 \in Nat /\ 0 <= Len(chain) /\ indexed = SubSeq(chain, 1, 0)
  BY <1>1, ChainIs, SubSeqEmpty
<1>3. rebuilt \in Seq({Rebuilt(b) : b \in DOMAIN Blocks}) /\ Len(rebuilt) = 0 /\ Len(batch) = 0
  BY <1>1
<1>4. BatchInv
  BY <1>1, <1>2, <1>3 DEF BatchInv
<1>5. DOMAIN indexed = {}
  BY <1>1
<1>6. SeenInv
  BY <1>1, <1>5 DEF SeenInv
<1> QED BY <1>4, <1>6

\* The replay of a chain block makes the mergeset it made before.
THEOREM SameMergesetAlways == Spec => []SameMergeset
<1>1. Init => BatchInv /\ SeenInv
  BY TaskInit
<1>2. BatchInv /\ SeenInv /\ [Next]_vars => (BatchInv /\ SeenInv)'
  BY BatchStep, SeenStep
<1>3. ASSUME SeenInv PROVE SameMergeset
  <2> SUFFICES ASSUME NEW b \in DOMAIN Blocks
               PROVE  /\ Cardinality(seen[b]) <= 1
                      /\ \A m \in seen[b] :
                            /\ \A i, j \in DOMAIN m.operations :
                                  i < j => m.operations[i].score < m.operations[j].score
                            /\ \A i \in DOMAIN m.operations :
                                  calculate_blue_score_from_tx_score(m.operations[i].score) = Blocks[b].blue
    BY DEF SameMergeset
  <2>1. seen[b] \subseteq {MergesetOf(b, Rebuilt(b))}
    BY <1>3 DEF SeenInv
  <2>2. Cardinality(seen[b]) <= 1
    <3>1. seen[b] = {} \/ seen[b] = {MergesetOf(b, Rebuilt(b))}
      BY <2>1
    <3>2. Cardinality({}) = 0 /\ \A m : Cardinality({m}) = 1
      BY FS_EmptySet, FS_Singleton
    <3>3. Cardinality(seen[b]) = 0 \/ Cardinality(seen[b]) = 1
      BY <3>1, <3>2
    <3> QED BY <3>3
  <2>3. \A m \in seen[b] : m = MergesetOf(b, Rebuilt(b))
    BY <2>1
  <2> QED BY <2>2, <2>3, MergesetIs
<1> QED BY <1>1, <1>2, <1>3, PTL DEF Spec
-----------------------------------------------------------------------------
(* What becomes of a rejection.                                              *)

\* Taking one from a bag.
LEMMA BagDraw ==
    ASSUME NEW B, \A e \in DOMAIN B : B[e] \in Nat \ {0}, NEW r
    PROVE  LET C == B (-) SetToBag({r})
           IN  /\ DOMAIN C \subseteq DOMAIN B /\ DOMAIN B \subseteq DOMAIN C \cup {r}
               /\ \A e \in DOMAIN C : C[e] \in Nat \ {0}
<1> DEFINE one == SetToBag({r})
           D == [e \in DOMAIN B |-> IF e \in DOMAIN one THEN B[e] - one[e] ELSE B[e]]
           C == [e \in {d \in DOMAIN D : D[d] > 0} |-> D[e]]
<1>1. DOMAIN one = {r} /\ one[r] = 1
  BY DEF SetToBag
<1>2. B (-) one = C
  BY DEF (-)
<1> HIDE DEF one
<1>3. DOMAIN D = DOMAIN B /\ \A e \in DOMAIN B : D[e] = IF e = r THEN B[e] - 1 ELSE B[e]
  BY <1>1
<1>4. DOMAIN C = {d \in DOMAIN D : D[d] > 0} /\ \A e \in DOMAIN C : C[e] = D[e]
  OBVIOUS
<1> HIDE DEF D, C
<1>5. DOMAIN C \subseteq DOMAIN B /\ DOMAIN B \subseteq DOMAIN C \cup {r}
  BY <1>3, <1>4
<1>6. \A e \in DOMAIN C : C[e] \in Nat \ {0}
  BY <1>3, <1>4
<1> QED BY <1>2, <1>5, <1>6 DEF one

\* Adding a set to a bag.
LEMMA BagAdd ==
    ASSUME NEW B, \A e \in DOMAIN B : B[e] \in Nat \ {0}, NEW S
    PROVE  LET C == B (+) SetToBag(S)
           IN  /\ DOMAIN C = DOMAIN B \cup S
               /\ \A e \in DOMAIN C : C[e] \in Nat \ {0}
<1> DEFINE C == B (+) SetToBag(S)
<1>1. DOMAIN SetToBag(S) = S /\ \A e \in S : SetToBag(S)[e] = 1
  BY DEF SetToBag
<1>2. C = [e \in DOMAIN B \cup S |->
              (IF e \in DOMAIN B THEN B[e] ELSE 0) + (IF e \in S THEN SetToBag(S)[e] ELSE 0)]
  BY <1>1 DEF (+)
<1> HIDE DEF C
<1>3. DOMAIN C = DOMAIN B \cup S
  BY <1>2
<1>4. ASSUME NEW e \in DOMAIN C PROVE C[e] \in Nat \ {0}
  <2>1. C[e] = (IF e \in DOMAIN B THEN B[e] ELSE 0) + (IF e \in S THEN 1 ELSE 0)
    BY <1>1, <1>2, <1>3
  <2> QED BY <1>3, <2>1
<1> QED BY <1>3, <1>4 DEF C

LEMMA PutIs ==
    ASSUME NEW m, NEW key, NEW value
    PROVE  /\ DOMAIN Put(m, key, value) = DOMAIN m \cup {key} /\ Put(m, key, value)[key] = value
           /\ \A k \in DOMAIN m \ {key} : Put(m, key, value)[k] = m[k]
BY DEF Put

LEMMA DelIs ==
    ASSUME NEW m, NEW keys
    PROVE  /\ DOMAIN DelAll(m, keys) = DOMAIN m \ keys
           /\ \A k \in DOMAIN m \ keys : DelAll(m, keys)[k] = m[k]
BY DEF DelAll

\* Stored, under way, lost or pushed out of the ring.
Accounted(tx) == tx \in DOMAIN tx_id_to_rejection \/ UnderWay(tx) \/ Dropped(tx) \/ tx \in pushed

WaitingInv == \A r \in DOMAIN waiting : waiting[r] \in Nat \ {0}

AnswersInv == \A b \in DOMAIN Blocks : seen[b] # {} => \A r \in RejectedIn(b) : Accounted(r.tx)

LEMMA WaitingStep ==
    ASSUME WaitingInv, [Next]_vars
    PROVE  WaitingInv'
<1>1. CASE Analyze \/ AnalyzePanics
  <2>1. PICK S : waiting' = waiting (+) SetToBag(S)
    BY <1>1 DEF Analyze, AnalyzePanics
  <2> QED BY <2>1, BagAdd DEF WaitingInv
<1>2. CASE Draw
  <2>1. PICK r : waiting' = waiting (-) SetToBag({r})
    BY <1>2 DEF Draw
  <2> QED BY <2>1, BagDraw DEF WaitingInv
<1>3. CASE Crash
  <2>1. waiting' = EmptyBag
    BY <1>3 DEF Crash
  <2> QED BY <2>1 DEF WaitingInv, EmptyBag, SetToBag
<1>4. ASSUME waiting' = waiting PROVE WaitingInv'
  BY <1>4 DEF WaitingInv
<1>5. CASE Reorg \/ Request \/ Reconstruct \/ ReconstructFails \/ Apply \/ ApplyFails
  BY <1>4, <1>5 DEF Reorg, Request, Reconstruct, ReconstructFails, Apply, ApplyFails, taskVars
<1>6. CASE Write \/ Open \/ MigrationBegins \/ Migrate \/ MigrationEnds
  BY <1>4, <1>6 DEF Write, Open, MigrationBegins, Migrate, MigrationEnds, taskVars
<1>7. CASE UNCHANGED vars
  BY <1>4, <1>7 DEF vars, taskVars
<1> QED BY <1>1, <1>2, <1>3, <1>5, <1>6, <1>7 DEF Next

\* A rejection is not forgotten.
LEMMA AccountedStep ==
    ASSUME WaitingInv, [Next]_vars, NEW tx, Accounted(tx)
    PROVE  Accounted(tx)'
<1>0. \/ tx \in DOMAIN tx_id_to_rejection
      \/ \E r \in DOMAIN waiting : r.tx = tx
      \/ \E w \in writers : w.tx = tx
      \/ \E l \in lost : l.tx = tx
      \/ tx \in pushed
  BY DEF Accounted, UnderWay, Dropped, BagToSet
<1> SUFFICES \/ tx \in DOMAIN tx_id_to_rejection'
             \/ \E r \in DOMAIN waiting' : r.tx = tx
             \/ \E w \in writers' : w.tx = tx
             \/ \E l \in lost' : l.tx = tx
             \/ tx \in pushed'
  BY DEF Accounted, UnderWay, Dropped, BagToSet
<1>1. CASE Analyze \/ AnalyzePanics
  <2>1. PICK S : waiting' = waiting (+) SetToBag(S)
    BY <1>1 DEF Analyze, AnalyzePanics
  <2>2. DOMAIN waiting \subseteq DOMAIN waiting'
    BY <2>1, BagAdd DEF WaitingInv
  <2>3. UNCHANGED <<tx_id_to_rejection, writers, lost, pushed>>
    BY <1>1 DEF Analyze, AnalyzePanics, ringVars
  <2> QED BY <1>0, <2>2, <2>3
<1>2. CASE Draw
  <2>1. UNCHANGED <<tx_id_to_rejection, lost, pushed>>
    BY <1>2 DEF Draw
  <2>2. PICK r \in DOMAIN waiting :
           /\ waiting' = waiting (-) SetToBag({r})
           /\ \E evicted : writers' = writers \cup {[tx |-> r.tx, reason |-> r.reason,
                                                   serial |-> serial_rejection, evicted |-> evicted]}
    BY <1>2 DEF Draw, BagToSet
  <2>3. DOMAIN waiting \subseteq DOMAIN waiting' \cup {r}
    BY <2>2, BagDraw DEF WaitingInv
  <2>4. writers \subseteq writers' /\ \E w \in writers' : w.tx = r.tx
    <3>1. PICK evicted : writers' = writers \cup {[tx |-> r.tx, reason |-> r.reason,
                                                 serial |-> serial_rejection, evicted |-> evicted]}
      BY <2>2
    <3>2. PICK w : w = [tx |-> r.tx, reason |-> r.reason, serial |-> serial_rejection, evicted |-> evicted]
      OBVIOUS
    <3>3. w \in writers' /\ w.tx = r.tx
      BY <3>1, <3>2
    <3> QED BY <3>1, <3>3
  <2> QED BY <1>0, <2>1, <2>3, <2>4
<1>3. CASE Write
  <2>1. PICK w \in writers : Commit(w) \/ CommitLost(w)
    BY <1>3 DEF Write
  <2>2. waiting' = waiting /\ writers' = writers \ {w}
    BY <1>3, <2>1 DEF Write, Commit, CommitLost
  <2>3. CASE Commit(w)
    <3>1. /\ tx_id_to_rejection' = Put(DelAll(tx_id_to_rejection, w.evicted), w.tx, w.reason)
          /\ pushed' = pushed \cup w.evicted /\ lost' = lost
      BY <2>3 DEF Commit
    <3>2. DOMAIN tx_id_to_rejection' = (DOMAIN tx_id_to_rejection \ w.evicted) \cup {w.tx}
      BY <3>1 DEF Put, DelAll
    <3> QED BY <1>0, <2>2, <3>1, <3>2
  <2>4. CASE CommitLost(w)
    <3>1. /\ lost' = lost \cup {[tx |-> w.tx, serial |-> w.serial]}
          /\ UNCHANGED <<tx_id_to_rejection, pushed>>
      BY <2>4 DEF CommitLost
    <3>2. PICK l : l = [tx |-> w.tx, serial |-> w.serial]
      OBVIOUS
    <3>3. l \in lost' /\ l.tx = w.tx /\ lost \subseteq lost'
      BY <3>1, <3>2
    <3> QED BY <1>0, <2>2, <3>1, <3>3
  <2> QED BY <2>1, <2>3, <2>4
<1>4. CASE Migrate
  <2>1. PICK row : tx_id_to_rejection' = Put(tx_id_to_rejection, row.tx, row.reason)
    BY <1>4 DEF Migrate
  <2>2. DOMAIN tx_id_to_rejection \subseteq DOMAIN tx_id_to_rejection'
    BY <2>1 DEF Put
  <2>3. UNCHANGED <<waiting, writers, lost, pushed>>
    BY <1>4 DEF Migrate, taskVars
  <2> QED BY <1>0, <2>2, <2>3
<1>5. CASE Crash
  <2>1. lost' = lost \cup {[tx |-> r.tx, serial |-> 0] : r \in DOMAIN waiting}
                     \cup {[tx |-> w.tx, serial |-> w.serial] : w \in writers}
    BY <1>5 DEF Crash, BagToSet
  <2>2. UNCHANGED <<tx_id_to_rejection, pushed>>
    BY <1>5 DEF Crash
  <2>3. /\ \A r \in DOMAIN waiting : [tx |-> r.tx, serial |-> 0] \in lost'
        /\ \A w \in writers : [tx |-> w.tx, serial |-> w.serial] \in lost'
        /\ lost \subseteq lost'
    BY <2>1
  <2> QED BY <1>0, <2>2, <2>3
<1>6. ASSUME UNCHANGED <<tx_id_to_rejection, waiting, writers, lost, pushed>>
      PROVE  \/ tx \in DOMAIN tx_id_to_rejection'
             \/ \E r \in DOMAIN waiting' : r.tx = tx
             \/ \E w \in writers' : w.tx = tx
             \/ \E l \in lost' : l.tx = tx
             \/ tx \in pushed'
  BY <1>0, <1>6
<1>7. CASE Reorg \/ Request \/ Reconstruct \/ ReconstructFails \/ Apply \/ ApplyFails
  BY <1>6, <1>7 DEF Reorg, Request, Reconstruct, ReconstructFails, Apply, ApplyFails, taskVars, ringVars
<1>8. CASE Open \/ MigrationBegins \/ MigrationEnds
  BY <1>6, <1>8 DEF Open, MigrationBegins, MigrationEnds, taskVars, ringVars
<1>9. CASE UNCHANGED vars
  BY <1>6, <1>9 DEF vars, taskVars, ringVars
<1> QED BY <1>1, <1>2, <1>3, <1>4, <1>5, <1>7, <1>8, <1>9 DEF Next

\* The analysis leaves every rejection to a task.
LEMMA AnswersAnalyze ==
    ASSUME BatchInv, SeenInv, WaitingInv, AnswersInv, Analyze
    PROVE  AnswersInv'
<1> SUFFICES ASSUME NEW b \in DOMAIN Blocks, seen'[b] # {}, NEW r \in RejectedIn(b)
             PROVE  Accounted(r.tx)'
  BY DEF AnswersInv
<1>1. CASE seen[b] # {}
  BY <1>1, AccountedStep DEF AnswersInv, Next
<1>2. CASE seen[b] = {}
  <2>1. PICK i \in DOMAIN batch : batch[i] = b
    BY <1>2, AnalyzeIs
  <2> DEFINE all == UNION {RejectedIn(batch[j]) : j \in DOMAIN batch}
  <2>2. waiting' = waiting (+) SetToBag(all)
    BY DEF Analyze
  <2>3. r \in all
    BY <2>1
  <2> HIDE DEF all
  <2>4. r \in DOMAIN waiting'
    BY <2>2, <2>3, BagAdd DEF WaitingInv
  <2> QED BY <2>4 DEF Accounted, UnderWay, BagToSet
<1> QED BY <1>1, <1>2

\* The rejections of the blocks seen stay accounted for.
LEMMA AnswersStep ==
    ASSUME BatchInv, SeenInv, WaitingInv, AnswersInv, [Next]_vars
    PROVE  AnswersInv'
<1>1. CASE Analyze
  BY <1>1, AnswersAnalyze
<1>2. ASSUME seen' = seen PROVE AnswersInv'
  <2> SUFFICES ASSUME NEW b \in DOMAIN Blocks, seen[b] # {}, NEW r \in RejectedIn(b)
               PROVE  Accounted(r.tx)'
    BY <1>2 DEF AnswersInv
  <2>1. Accounted(r.tx)
    BY DEF AnswersInv
  <2> QED BY <2>1, AccountedStep
<1>3. CASE Reorg \/ Request \/ Reconstruct \/ ReconstructFails \/ AnalyzePanics \/ Apply \/ ApplyFails \/ Draw
  BY <1>2, <1>3 DEF Reorg, Request, Reconstruct, ReconstructFails, AnalyzePanics, Apply, ApplyFails, Draw
<1>4. CASE Write \/ Open \/ MigrationBegins \/ Migrate \/ MigrationEnds \/ Crash
  BY <1>2, <1>4 DEF Write, Open, MigrationBegins, Migrate, MigrationEnds, Crash
<1>5. CASE UNCHANGED vars
  BY <1>2, <1>5 DEF vars
<1> QED BY <1>1, <1>3, <1>4, <1>5 DEF Next

\* An inscription of a block on which the analyzer does not panic is one operation of
\* its mergeset, or one of its rejections.
LEMMA InscriptionIs ==
    ASSUME NEW b \in DOMAIN Blocks, Judged(b, "panic") = {}, NEW t \in Inscribed(b)
    PROVE  LET m == MergesetOf(b, Rebuilt(b))
               ops == {i \in DOMAIN m.operations : m.operations[i].op.tx = t.id}
           IN  \/ Cardinality(ops) = 1 /\ \A i \in ops : Fits(m.operations[i].op)
               \/ ops = {} /\ \E r \in RejectedIn(b) : r.tx = t.id
<1> DEFINE operations == MergesetOf(b, Rebuilt(b)).operations
           ops == {i \in DOMAIN operations : operations[i].op.tx = t.id}
<1>1. PICK k \in DOMAIN AcceptedBy(b) : AcceptedBy(b)[k].tx = t
  BY DEF Inscribed, AcceptedTxs
<1>2. /\ VerdictOn(b, k).kind \in {"error", "operation"}
      /\ VerdictOn(b, k).kind = "operation" => VerdictOn(b, k).op.tx = t.id /\ Fits(VerdictOn(b, k).op)
  BY <1>1, VerdictFits DEF Inscribed, Judged
<1>3. PICK source \in [DOMAIN operations -> Judged(b, "operation")] :
         /\ \A i \in DOMAIN operations : operations[i].op = VerdictOn(b, source[i]).op
         /\ \A i, j \in DOMAIN operations : source[i] = source[j] => i = j
         /\ \A n \in Judged(b, "operation") : \E i \in DOMAIN operations : source[i] = n
  BY MergesetIs
<1> HIDE DEF operations
<1>4. ASSUME NEW i \in ops PROVE source[i] = k
  <2>1. i \in DOMAIN operations /\ operations[i].op.tx = t.id
    OBVIOUS
  <2>2. /\ source[i] \in DOMAIN AcceptedBy(b) /\ VerdictOn(b, source[i]).kind = "operation"
        /\ operations[i].op = VerdictOn(b, source[i]).op
    BY <1>3, <2>1 DEF Judged
  <2>3. VerdictOn(b, source[i]).op.tx = AcceptedBy(b)[source[i]].tx.id
    BY <2>2, VerdictFits
  <2>4. AcceptedBy(b)[source[i]].tx.id = AcceptedBy(b)[k].tx.id
    BY <1>1, <2>1, <2>2, <2>3
  <2> QED BY <2>2, <2>4, BlocksAssumption
<1>5. CASE VerdictOn(b, k).kind = "operation"
  <2>1. k \in Judged(b, "operation")
    BY <1>5 DEF Judged
  <2>2. PICK i \in DOMAIN operations : source[i] = k
    BY <1>3, <2>1
  <2>3. operations[i].op = VerdictOn(b, k).op
    BY <1>3, <2>2
  <2>4. i \in ops /\ Fits(operations[i].op)
    BY <1>2, <1>5, <2>3
  <2>5. ops = {i}
    BY <1>3, <1>4, <2>2, <2>4
  <2>6. Cardinality(ops) = 1
    BY <2>5, FS_Singleton
  <2> QED BY <2>4, <2>5, <2>6 DEF operations
<1>6. CASE VerdictOn(b, k).kind = "error"
  <2>1. ops = {}
    <3> SUFFICES ASSUME NEW i \in ops PROVE FALSE
      OBVIOUS
    <3>1. source[i] = k /\ i \in DOMAIN operations
      BY <1>4
    <3>2. VerdictOn(b, k).kind = "operation"
      BY <1>3, <3>1 DEF Judged
    <3> QED BY <1>6, <3>2
  <2>2. [tx |-> t.id, reason |-> VerdictOn(b, k).error] \in RejectedIn(b)
    BY <1>1, <1>6 DEF RejectedIn, Judged
  <2>3. \E r \in RejectedIn(b) : r.tx = t.id
    BY <2>2
  <2> QED BY <2>1, <2>3 DEF operations
<1> QED BY <1>2, <1>5, <1>6

\* Every inscription of an applied chain block, of those that convert, comes to one
\* operation that fits the ledger, or to a rejection that is stored, under way, pushed out
\* of the ring by later ones, or lost with a restart or a failed commit.  An inscription
\* that does not convert is skipped, and a block is never applied with one on which the
\* analyzer panics.
THEOREM InscriptionsAnsweredAlways == Spec => []InscriptionsAnswered
<1> DEFINE Inv == BatchInv /\ SeenInv /\ WaitingInv /\ AnswersInv
<1>1. Init => Inv
  <2> SUFFICES ASSUME Init PROVE Inv
    OBVIOUS
  <2>1. waiting = EmptyBag /\ seen = [b \in DOMAIN Blocks |-> {}]
    BY DEF Init
  <2>2. WaitingInv
    BY <2>1 DEF WaitingInv, EmptyBag, SetToBag
  <2>3. AnswersInv
    BY <2>1 DEF AnswersInv
  <2> QED BY <2>2, <2>3, TaskInit
<1>2. Inv /\ [Next]_vars => Inv'
  BY BatchStep, SeenStep, WaitingStep, AnswersStep
<1>3. ASSUME Inv PROVE InscriptionsAnswered
  <2> SUFFICES ASSUME NEW n \in DOMAIN indexed
               PROVE  \E m \in seen[indexed[n]] : \A t \in Inscribed(indexed[n]) :
                         LET ops == {i \in DOMAIN m.operations : m.operations[i].op.tx = t.id}
                         IN  \/ Cardinality(ops) = 1 /\ \A i \in ops : Fits(m.operations[i].op)
                             \/ ops = {} /\ Accounted(t.id)
    BY DEF InscriptionsAnswered, Accounted
  <2> DEFINE b == indexed[n]
             made == MergesetOf(b, Rebuilt(b))
  <2>1. b \in DOMAIN Blocks /\ made \in seen[b] /\ Judged(b, "panic") = {}
    BY <1>3, IndexedIs DEF SeenInv
  <2> HIDE DEF b, made
  <2>2. ASSUME NEW t \in Inscribed(b)
        PROVE  LET ops == {i \in DOMAIN made.operations : made.operations[i].op.tx = t.id}
               IN  \/ Cardinality(ops) = 1 /\ \A i \in ops : Fits(made.operations[i].op)
                   \/ ops = {} /\ Accounted(t.id)
    <3>1. \A r \in RejectedIn(b) : Accounted(r.tx)
      BY <1>3, <2>1 DEF AnswersInv
    <3> QED BY <2>1, <3>1, InscriptionIs DEF made
  <2> QED BY <2>1, <2>2 DEF b
<1> QED BY <1>1, <1>2, <1>3, PTL DEF Spec
-----------------------------------------------------------------------------
(* The ring of rejections.                                                   *)

Starting == phase \in {"open", "migrate"}
OldTxs == {old[i].tx : i \in 1..Len(old)}
LostAt(serial) == \E l \in lost : l.serial = serial

RingTypes ==
    /\ Serials \in SUBSET Nat /\ serial_rejection \in Nat /\ base \in Nat
    /\ \E n \in Nat : \A s \in Serials : s <= n
    /\ old \in Olds \cup {None}
    /\ phase # "migrate" => migrated = 0
    /\ Starting => waiting = EmptyBag /\ writers = {}

\* A row without its rejection is of a transaction rejected again, whose rejection
\* was evicted with an earlier row; every rejection has a row to leave with.
RowsInv ==
    /\ \A s \in Serials :
          serial_to_rejected_tx_id[s] \in DOMAIN tx_id_to_rejection \/ serial_to_rejected_tx_id[s] \in pushed
    /\ old = None => \A tx \in DOMAIN tx_id_to_rejection : \E s \in Serials : serial_to_rejected_tx_id[s] = tx

\* Until the partition of the older release is deleted there is nothing else.
OldInv ==
    /\ ~ Starting => old = None
    /\ old # None => /\ DOMAIN tx_id_to_rejection \subseteq OldTxs
                     /\ \A s \in Serials : serial_to_rejected_tx_id[s] \in OldTxs

\* What a restart finds: the serials between two rows a ring apart were not lost for nothing.
OpenInv ==
    phase = "open" /\ old = None =>
        \A s, t \in Serials : s + REJECTIONS_LEN_LIMIT <= t =>
            LostAt(s + REJECTIONS_LEN_LIMIT) \/ s + REJECTIONS_LEN_LIMIT < base

MigrateInv ==
    phase = "migrate" =>
        /\ old # None /\ migrated \in 0..Len(old)
        /\ \A s \in Serials : s <= serial_rejection /\ (migrated > 0 => s < serial_rejection)
        /\ \A i \in 1..migrated :
              \E s \in Serials : s < serial_rejection /\ serial_to_rejected_tx_id[s] = old[i].tx

\* A write in progress has read the row that is there when it commits.
WriterOK(w) ==
    /\ w.serial \in Nat /\ w.serial < serial_rejection
    /\ serial_rejection <= w.serial + REJECTIONS_LEN_LIMIT
    /\ w.serial \notin Serials
    /\ w.evicted = {serial_to_rejected_tx_id[s] : s \in {Oldest(w)} \cap Serials}

HadItsTurn(s) ==
    s + REJECTIONS_LEN_LIMIT < serial_rejection =>
        \/ \E w \in writers : w.serial = s + REJECTIONS_LEN_LIMIT
        \/ LostAt(s + REJECTIONS_LEN_LIMIT)
        \/ s + REJECTIONS_LEN_LIMIT < base

WriteInv ==
    ~ Starting =>
        /\ \A s \in Serials : s < serial_rejection
        /\ \A w \in writers : WriterOK(w)
        /\ \A w, v \in writers : w.serial = v.serial => w = v
        /\ \A s \in Serials : HadItsTurn(s)

RingInv == RingTypes /\ RowsInv /\ OldInv /\ OpenInv /\ MigrateInv /\ WriteInv

LEMMA LimitIs == REJECTIONS_LEN_LIMIT \in Nat /\ REJECTIONS_LEN_LIMIT > 0
BY IntakeAssumption

LEMMA OldIs ==
    ASSUME old \in Olds \cup {None}, old # None
    PROVE  Len(old) \in Nat
BY IntakeAssumption

\* The ring of a new database is sound.
LEMMA RingInit ==
    ASSUME Init
    PROVE  RingInv
<1>1. /\ phase = "open" /\ waiting = EmptyBag /\ writers = {} /\ tx_id_to_rejection = NoEntries
      /\ serial_to_rejected_tx_id = NoEntries /\ serial_rejection = 0 /\ old \in Olds /\ migrated = 0
      /\ base = 0
  BY DEF Init
<1>2. Serials = {} /\ DOMAIN tx_id_to_rejection = {}
  BY <1>1 DEF Serials, NoEntries
<1>3. Starting
  BY <1>1 DEF Starting
<1>4. RingTypes
  BY <1>1, <1>2 DEF RingTypes
<1>5. RowsInv /\ OldInv
  BY <1>1, <1>2, <1>3 DEF RowsInv, OldInv
<1>6. OpenInv /\ MigrateInv /\ WriteInv
  BY <1>1, <1>2, <1>3 DEF OpenInv, MigrateInv, WriteInv
<1> QED BY <1>4, <1>5, <1>6 DEF RingInv

\* The last serial stored, or 0.
LEMMA LastKeyIs ==
    ASSUME RingTypes
    PROVE  LastKey \in Nat /\ LastKey \in {0} \cup Serials /\ \A s \in Serials : s <= LastKey
<1> DEFINE keys == {0} \cup Serials
<1>1. PICK n \in Nat : \A s \in Serials : s <= n
  BY DEF RingTypes
<1>2. keys \in SUBSET Nat /\ keys # {} /\ \A s \in keys : s <= n
  BY <1>1 DEF RingTypes
<1> HIDE DEF keys
<1>3. PICK x \in keys : \A y \in keys : y <= x
  BY <1>2, GreatestNat
<1>4. LastKey = CHOOSE z \in keys : \A y \in keys : z >= y
  BY DEF LastKey, Max, keys
<1>5. \A y \in keys : x >= y
  BY <1>2, <1>3
<1>6. LastKey \in keys /\ \A y \in keys : LastKey >= y
  BY <1>3, <1>4, <1>5
<1>7. LastKey \in Nat /\ \A y \in keys : y <= LastKey
  BY <1>2, <1>6
<1> QED BY <1>6, <1>7 DEF keys

\* The sync task does not touch the ring.
LEMMA RingSame ==
    ASSUME RingInv, UNCHANGED <<ringVars, writers, openVars, lost, base, pushed>>,
           Starting' => phase' = phase /\ waiting' = waiting,
           Starting => phase' = phase
    PROVE  RingInv'
<1>1. UNCHANGED <<tx_id_to_rejection, serial_to_rejected_tx_id, serial_rejection, writers, old, migrated,
                  lost, base, pushed>>
  BY DEF ringVars, openVars
<1>2. Serials' = Serials /\ OldTxs' = OldTxs /\ \A n : LostAt(n)' <=> LostAt(n)
  BY <1>1 DEF Serials, OldTxs, LostAt
<1>3. Starting' <=> Starting
  BY DEF Starting
<1>4. phase = "migrate" <=> phase' = "migrate"
  BY <1>3 DEF Starting
<1>5. phase' = "open" => phase = "open"
  BY <1>3 DEF Starting
<1>6. RingTypes'
  BY <1>1, <1>2, <1>3, <1>4 DEF RingInv, RingTypes
<1>7. RowsInv' /\ OldInv'
  BY <1>1, <1>2, <1>3 DEF RingInv, RowsInv, OldInv
<1>8. OpenInv' /\ MigrateInv'
  BY <1>1, <1>2, <1>4, <1>5 DEF RingInv, OpenInv, MigrateInv
<1>9. WriteInv'
  <2>1. \A w : WriterOK(w) => WriterOK(w)'
    BY <1>1, <1>2 DEF WriterOK, Oldest
  <2>2. \A s : HadItsTurn(s) => HadItsTurn(s)'
    BY <1>1, <1>2 DEF HadItsTurn
  <2> QED BY <1>1, <1>2, <1>3, <2>1, <2>2 DEF RingInv, WriteInv
<1> QED BY <1>6, <1>7, <1>8, <1>9 DEF RingInv

\* The serial drawn is new, and the row read is the one a ring back.
LEMMA RingDraw ==
    ASSUME RingInv, Draw
    PROVE  RingInv'
<1>1. /\ serial_rejection' = serial_rejection + 1
      /\ UNCHANGED <<phase, tx_id_to_rejection, serial_to_rejected_tx_id, old, migrated, lost, base, pushed>>
      /\ \A w \in writers : serial_rejection - w.serial < REJECTIONS_LEN_LIMIT
  BY DEF Draw, batchVars, openVars
<1>2. PICK r \in DOMAIN waiting :
         writers' = writers \cup
            {[tx |-> r.tx, reason |-> r.reason, serial |-> serial_rejection,
              evicted |-> {serial_to_rejected_tx_id[s] :
                              s \in {serial_rejection - REJECTIONS_LEN_LIMIT} \cap Serials}]}
  BY DEF Draw, BagToSet
<1>3. PICK new : new = [tx |-> r.tx, reason |-> r.reason, serial |-> serial_rejection,
              evicted |-> {serial_to_rejected_tx_id[s] :
                              s \in {serial_rejection - REJECTIONS_LEN_LIMIT} \cap Serials}]
  OBVIOUS
<1>4. /\ writers' = writers \cup {new} /\ new.serial = serial_rejection
      /\ new.evicted = {serial_to_rejected_tx_id[s] : s \in {Oldest(new)} \cap Serials}
  BY <1>2, <1>3 DEF Oldest
<1>5. ~ Starting /\ ~ Starting'
  <2>1. waiting # EmptyBag
    BY <1>2 DEF EmptyBag, SetToBag
  <2>2. ~ Starting
    BY <2>1 DEF RingInv, RingTypes
  <2> QED BY <1>1, <2>2 DEF Starting
<1>6. phase # "open" /\ phase # "migrate" /\ old = None
  BY <1>5 DEF Starting, RingInv, OldInv
<1>7. Serials' = Serials /\ Serials \in SUBSET Nat /\ serial_rejection \in Nat
  BY <1>1 DEF Serials, RingInv, RingTypes
<1>8. RingTypes'
  <2>1. serial_rejection' \in Nat
    BY <1>1, <1>7
  <2>2. /\ base \in Nat /\ old \in Olds \cup {None} /\ (phase # "migrate" => migrated = 0)
        /\ \E n \in Nat : \A s \in Serials : s <= n
    BY DEF RingInv, RingTypes
  <2>3. (\E n \in Nat : \A s \in Serials : s <= n)'
    BY <1>7, <2>2
  <2> QED BY <1>1, <1>5, <1>7, <2>1, <2>2, <2>3 DEF RingTypes
<1>9. RowsInv' /\ OldInv' /\ OpenInv' /\ MigrateInv'
  BY <1>1, <1>5, <1>6, <1>7 DEF RingInv, RowsInv, OldInv, OpenInv, MigrateInv
<1>10. /\ \A s \in Serials : s < serial_rejection
       /\ \A w \in writers : WriterOK(w)
       /\ \A w, v \in writers : w.serial = v.serial => w = v
       /\ \A s \in Serials : HadItsTurn(s)
  BY <1>5 DEF RingInv, WriteInv
<1>11. \A s \in Serials' : s < serial_rejection'
  BY <1>1, <1>7, <1>10
<1>12. ASSUME NEW w \in writers' PROVE WriterOK(w)'
  <2>1. CASE w \in writers
    <3>1. WriterOK(w) /\ serial_rejection - w.serial < REJECTIONS_LEN_LIMIT
      BY <1>1, <1>10, <2>1
    <3>2. serial_rejection' <= w.serial + REJECTIONS_LEN_LIMIT /\ w.serial < serial_rejection'
      BY <1>1, <1>7, <3>1, LimitIs DEF WriterOK
    <3> QED BY <1>1, <1>7, <3>1, <3>2 DEF WriterOK, Oldest
  <2>2. CASE w = new
    <3>1. w.serial \in Nat /\ w.serial < serial_rejection' /\ serial_rejection' <= w.serial + REJECTIONS_LEN_LIMIT
      BY <1>1, <1>4, <1>7, <2>2, LimitIs
    <3>2. w.serial \notin Serials
      BY <1>4, <1>7, <1>10, <2>2
    <3> QED BY <1>1, <1>4, <1>7, <2>2, <3>1, <3>2 DEF WriterOK, Oldest
  <2> QED BY <1>4, <2>1, <2>2
<1>13. ASSUME NEW w \in writers', NEW v \in writers', w.serial = v.serial PROVE w = v
  <2>1. \A u \in writers : u.serial # new.serial
    BY <1>4, <1>7, <1>10 DEF WriterOK
  <2> QED BY <1>4, <1>10, <1>13, <2>1
<1>14. ASSUME NEW s \in Serials' PROVE HadItsTurn(s)'
  <2> SUFFICES ASSUME s + REJECTIONS_LEN_LIMIT < serial_rejection'
               PROVE  \/ \E w \in writers' : w.serial = s + REJECTIONS_LEN_LIMIT
                      \/ LostAt(s + REJECTIONS_LEN_LIMIT)'
                      \/ s + REJECTIONS_LEN_LIMIT < base'
    BY DEF HadItsTurn
  <2>1. CASE s + REJECTIONS_LEN_LIMIT = serial_rejection
    BY <1>4, <2>1
  <2>2. CASE s + REJECTIONS_LEN_LIMIT # serial_rejection
    <3>1. s + REJECTIONS_LEN_LIMIT < serial_rejection
      BY <1>1, <1>7, <2>2, LimitIs
    <3>2. HadItsTurn(s)
      BY <1>7, <1>10
    <3> QED BY <1>1, <1>4, <3>1, <3>2 DEF HadItsTurn, LostAt
  <2> QED BY <2>1, <2>2
<1>15. WriteInv'
  BY <1>11, <1>12, <1>13, <1>14 DEF WriteInv
<1> QED BY <1>8, <1>9, <1>15 DEF RingInv

\* A failed commit is recorded as lost.
LEMMA RingLost ==
    ASSUME RingInv, NEW w \in writers, CommitLost(w),
           UNCHANGED <<phase, serial_rejection, waiting, old, migrated, base>>
    PROVE  RingInv'
<1>1. /\ writers' = writers \ {w} /\ lost' = lost \cup {[tx |-> w.tx, serial |-> w.serial]}
      /\ UNCHANGED <<tx_id_to_rejection, serial_to_rejected_tx_id, pushed>>
  BY DEF CommitLost
<1>2. (Starting' <=> Starting) /\ ~ Starting
  BY DEF Starting, RingInv, RingTypes
<1>3. phase # "open" /\ phase # "migrate" /\ Serials' = Serials /\ OldTxs' = OldTxs
  BY <1>1, <1>2 DEF Starting, Serials, OldTxs
<1>4. LostAt(w.serial)' /\ \A n : LostAt(n) => LostAt(n)'
  <2>1. PICK l : l = [tx |-> w.tx, serial |-> w.serial]
    OBVIOUS
  <2>2. l.serial = w.serial /\ lost' = lost \cup {l}
    BY <1>1, <2>1
  <2> QED BY <2>2 DEF LostAt
<1>5. RingTypes'
  BY <1>1, <1>2, <1>3 DEF RingInv, RingTypes
<1>6. RowsInv' /\ OldInv' /\ OpenInv' /\ MigrateInv'
  BY <1>1, <1>2, <1>3 DEF RingInv, RowsInv, OldInv, OpenInv, MigrateInv
<1>7. WriteInv'
  <2>1. \A v \in writers' : WriterOK(v)'
    BY <1>1, <1>2, <1>3 DEF RingInv, WriteInv, WriterOK, Oldest
  <2>2. \A s \in Serials' : HadItsTurn(s)'
    <3> SUFFICES ASSUME NEW s \in Serials, s + REJECTIONS_LEN_LIMIT < serial_rejection
                 PROVE  \/ \E v \in writers' : v.serial = s + REJECTIONS_LEN_LIMIT
                        \/ LostAt(s + REJECTIONS_LEN_LIMIT)'
                        \/ s + REJECTIONS_LEN_LIMIT < base
      BY <1>3 DEF HadItsTurn
    <3>1. \/ \E v \in writers : v.serial = s + REJECTIONS_LEN_LIMIT
          \/ LostAt(s + REJECTIONS_LEN_LIMIT)
          \/ s + REJECTIONS_LEN_LIMIT < base
      BY <1>2 DEF RingInv, WriteInv, HadItsTurn
    <3> QED BY <1>1, <1>4, <3>1
  <2> QED BY <1>1, <1>2, <1>3, <2>1, <2>2 DEF RingInv, WriteInv
<1> QED BY <1>5, <1>6, <1>7 DEF RingInv

\* The commit takes the row a ring back and puts its own.
LEMMA RingCommit ==
    ASSUME RingInv, NEW w \in writers, Commit(w),
           UNCHANGED <<phase, serial_rejection, waiting, old, migrated, base>>
    PROVE  RingInv'
<1> DEFINE Row(s) == serial_to_rejected_tx_id[s]
<1>1. /\ writers' = writers \ {w} /\ lost' = lost /\ pushed' = pushed \cup w.evicted
      /\ tx_id_to_rejection' = Put(DelAll(tx_id_to_rejection, w.evicted), w.tx, w.reason)
      /\ serial_to_rejected_tx_id' = Put(DelAll(serial_to_rejected_tx_id, {Oldest(w)}), w.serial, w.tx)
  BY DEF Commit, Del
<1>2. (Starting' <=> Starting) /\ ~ Starting
  BY DEF Starting, RingInv, RingTypes
<1>3. phase # "open" /\ phase # "migrate" /\ old = None
  BY <1>2 DEF Starting, RingInv, OldInv
<1>4. Serials \in SUBSET Nat /\ serial_rejection \in Nat
  BY DEF RingInv, RingTypes
<1>5. /\ \A s \in Serials : s < serial_rejection
      /\ \A v \in writers : WriterOK(v)
      /\ \A u, v \in writers : u.serial = v.serial => u = v
      /\ \A s \in Serials : HadItsTurn(s)
  BY <1>2 DEF RingInv, WriteInv
<1>6. /\ w.serial \in Nat /\ w.serial < serial_rejection
      /\ serial_rejection <= w.serial + REJECTIONS_LEN_LIMIT
      /\ w.serial \notin Serials
      /\ w.evicted = {Row(s) : s \in {Oldest(w)} \cap Serials}
  BY <1>5 DEF WriterOK
<1>7. /\ Serials' = (Serials \ {Oldest(w)}) \cup {w.serial}
      /\ serial_to_rejected_tx_id'[w.serial] = w.tx
      /\ \A s \in Serials \ {Oldest(w)} : serial_to_rejected_tx_id'[s] = Row(s)
  <2>1. serial_to_rejected_tx_id' =
           [s \in (Serials \ {Oldest(w)}) \cup {w.serial} |-> IF s = w.serial THEN w.tx ELSE Row(s)]
    BY <1>1, <1>6 DEF Put, DelAll, Serials
  <2>2. Serials' = (Serials \ {Oldest(w)}) \cup {w.serial}
    BY <2>1 DEF Serials
  <2> QED BY <1>6, <2>1, <2>2
<1>8. DOMAIN tx_id_to_rejection' = (DOMAIN tx_id_to_rejection \ w.evicted) \cup {w.tx}
  BY <1>1 DEF Put, DelAll
<1>9. RingTypes'
  <2>1. PICK n \in Nat : \A s \in Serials : s <= n
    BY DEF RingInv, RingTypes
  <2>2. \A s \in Serials' : s \in Nat /\ s <= n + w.serial
    <3>1. \A s \in Serials : s \in Nat /\ s <= n + w.serial
      BY <1>4, <1>6, <2>1
    <3>2. w.serial <= n + w.serial
      BY <1>6
    <3> QED BY <1>6, <1>7, <3>1, <3>2
  <2>3. n + w.serial \in Nat
    BY <1>6
  <2>4. (\E k \in Nat : \A s \in Serials : s <= k)'
    BY <2>2, <2>3
  <2>5. Serials' \in SUBSET Nat
    BY <2>2
  <2> QED BY <1>1, <1>2, <1>4, <2>4, <2>5 DEF RingInv, RingTypes
<1>10. ASSUME NEW s \in Serials'
       PROVE  \/ serial_to_rejected_tx_id'[s] \in DOMAIN tx_id_to_rejection'
              \/ serial_to_rejected_tx_id'[s] \in pushed'
  <2>1. CASE s = w.serial
    BY <1>7, <1>8, <2>1
  <2>2. CASE s \in Serials \ {Oldest(w)}
    <3>1. Row(s) \in DOMAIN tx_id_to_rejection \/ Row(s) \in pushed
      BY <2>2 DEF RingInv, RowsInv
    <3> QED BY <1>1, <1>7, <1>8, <2>2, <3>1
  <2> QED BY <1>7, <2>1, <2>2
<1>11. ASSUME NEW tx \in DOMAIN tx_id_to_rejection'
       PROVE  \E s \in Serials' : serial_to_rejected_tx_id'[s] = tx
  <2>1. CASE tx = w.tx
    BY <1>7, <2>1
  <2>2. CASE tx \in DOMAIN tx_id_to_rejection /\ tx \notin w.evicted
    <3>1. PICK s \in Serials : Row(s) = tx
      BY <1>3, <2>2 DEF RingInv, RowsInv
    <3>2. s # Oldest(w)
      BY <1>6, <2>2, <3>1
    <3> QED BY <1>7, <3>1, <3>2
  <2> QED BY <1>8, <2>1, <2>2
<1>12. RowsInv'
  BY <1>10, <1>11 DEF RowsInv
<1>13. OldInv' /\ OpenInv' /\ MigrateInv'
  BY <1>2, <1>3 DEF OldInv, OpenInv, MigrateInv
<1>14. \A s \in Serials' : s < serial_rejection'
  BY <1>5, <1>6, <1>7
<1>15. ASSUME NEW v \in writers' PROVE WriterOK(v)'
  <2>1. v \in writers /\ v # w
    BY <1>1
  <2>2. /\ v.serial \in Nat /\ v.serial < serial_rejection
        /\ serial_rejection <= v.serial + REJECTIONS_LEN_LIMIT
        /\ v.serial \notin Serials
        /\ v.evicted = {Row(s) : s \in {Oldest(v)} \cap Serials}
    BY <1>5, <2>1 DEF WriterOK
  <2>3. v.serial # w.serial
    BY <1>5, <2>1
  <2>4. Oldest(v) # Oldest(w) /\ Oldest(v) # w.serial
    BY <1>4, <1>6, <2>2, <2>3, LimitIs DEF Oldest
  <2>5. {Oldest(v)} \cap Serials' = {Oldest(v)} \cap Serials
    BY <1>7, <2>4
  <2>6. {serial_to_rejected_tx_id'[s] : s \in {Oldest(v)} \cap Serials'} = {Row(s) : s \in {Oldest(v)} \cap Serials}
    BY <1>7, <2>4, <2>5
  <2>7. v.serial \notin Serials'
    BY <1>7, <2>2, <2>3
  <2> QED BY <2>2, <2>6, <2>7 DEF WriterOK, Oldest
<1>16. ASSUME NEW s \in Serials', s + REJECTIONS_LEN_LIMIT < serial_rejection
       PROVE  \/ \E v \in writers' : v.serial = s + REJECTIONS_LEN_LIMIT
              \/ LostAt(s + REJECTIONS_LEN_LIMIT)
              \/ s + REJECTIONS_LEN_LIMIT < base
  <2>1. s # w.serial
    BY <1>4, <1>6, <1>16, LimitIs
  <2>2. s \in Serials /\ s # Oldest(w)
    BY <1>7, <2>1
  <2>3. w.serial # s + REJECTIONS_LEN_LIMIT
    BY <1>4, <1>6, <2>2, LimitIs DEF Oldest
  <2>4. HadItsTurn(s)
    BY <1>5, <2>2
  <2> QED BY <1>1, <1>16, <2>3, <2>4 DEF HadItsTurn
<1>17. \A s \in Serials' : HadItsTurn(s)'
  BY <1>1, <1>16 DEF HadItsTurn, LostAt
<1>18. WriteInv'
  BY <1>1, <1>5, <1>14, <1>15, <1>17 DEF WriteInv
<1> QED BY <1>9, <1>12, <1>13, <1>18 DEF RingInv

\* The serials go on behind the last one stored.
LEMMA RingOpen ==
    ASSUME RingInv, Open
    PROVE  RingInv'
<1>1. /\ phase = "open" /\ old = None /\ serial_rejection' = LastKey + 1 /\ phase' = "idle"
      /\ base' = (IF base = 0 THEN serial_rejection' ELSE base)
      /\ UNCHANGED <<tx_id_to_rejection, serial_to_rejected_tx_id, waiting, writers, old, migrated,
                     lost, pushed>>
  BY DEF Open, taskVars, openVars
<1>2. Starting /\ ~ Starting' /\ Serials' = Serials /\ OldTxs' = OldTxs
  BY <1>1 DEF Starting, Serials, OldTxs
<1>3. /\ LastKey \in Nat /\ LastKey \in {0} \cup Serials /\ \A s \in Serials : s <= LastKey
      /\ Serials \in SUBSET Nat /\ base \in Nat
  BY LastKeyIs DEF RingInv, RingTypes
<1>4. RingTypes'
  <2>1. serial_rejection' \in Nat /\ base' \in Nat
    BY <1>1, <1>3
  <2>2. (\E n \in Nat : \A s \in Serials : s <= n)'
    BY <1>2, <1>3
  <2> QED BY <1>1, <1>2, <1>3, <2>1, <2>2 DEF RingInv, RingTypes
<1>5. RowsInv' /\ OldInv' /\ OpenInv' /\ MigrateInv'
  BY <1>1, <1>2 DEF RingInv, RowsInv, OldInv, OpenInv, MigrateInv
<1>6. writers' = {}
  BY <1>1, <1>2 DEF RingInv, RingTypes
<1>7. \A s \in Serials' : s < serial_rejection'
  BY <1>1, <1>2, <1>3
<1>8. ASSUME NEW s \in Serials, s + REJECTIONS_LEN_LIMIT < serial_rejection'
      PROVE  LostAt(s + REJECTIONS_LEN_LIMIT) \/ s + REJECTIONS_LEN_LIMIT < base'
  <2>1. s \in Nat /\ s + REJECTIONS_LEN_LIMIT <= LastKey
    BY <1>1, <1>3, <1>8, LimitIs
  <2>2. LastKey \in Serials
    BY <1>3, <2>1, LimitIs
  <2>3. LostAt(s + REJECTIONS_LEN_LIMIT) \/ s + REJECTIONS_LEN_LIMIT < base
    BY <1>1, <2>1, <2>2 DEF RingInv, OpenInv
  <2>4. s + REJECTIONS_LEN_LIMIT < base => s + REJECTIONS_LEN_LIMIT < base'
    BY <1>1, <1>3, <2>1, LimitIs
  <2> QED BY <2>3, <2>4
<1>9. \A s \in Serials' : HadItsTurn(s)'
  BY <1>1, <1>2, <1>8 DEF HadItsTurn, LostAt
<1>10. WriteInv'
  BY <1>6, <1>7, <1>9 DEF WriteInv
<1> QED BY <1>4, <1>5, <1>10 DEF RingInv

\* A migration starts at the last serial stored, which a first row may replace.
LEMMA RingMigrationBegins ==
    ASSUME RingInv, MigrationBegins
    PROVE  RingInv'
<1>1. /\ phase = "open" /\ old # None /\ serial_rejection' = LastKey /\ phase' = "migrate" /\ migrated' = 0
      /\ UNCHANGED <<tx_id_to_rejection, serial_to_rejected_tx_id, waiting, writers, old, lost, base, pushed>>
  BY DEF MigrationBegins, taskVars
<1>2. Starting /\ Starting' /\ Serials' = Serials /\ OldTxs' = OldTxs
  BY <1>1 DEF Starting, Serials, OldTxs
<1>3. /\ LastKey \in Nat /\ \A s \in Serials : s <= LastKey
      /\ Serials \in SUBSET Nat /\ base \in Nat
  BY LastKeyIs DEF RingInv, RingTypes
<1>4. RingTypes'
  <2>1. (\E n \in Nat : \A s \in Serials : s <= n)'
    BY <1>2, <1>3
  <2> QED BY <1>1, <1>2, <1>3, <2>1 DEF RingInv, RingTypes
<1>5. RowsInv' /\ OldInv' /\ OpenInv' /\ WriteInv'
  BY <1>1, <1>2 DEF RingInv, RowsInv, OldInv, OpenInv, WriteInv
<1>6. Len(old) \in Nat
  BY <1>1, OldIs DEF RingInv, RingTypes
<1>7. MigrateInv'
  BY <1>1, <1>2, <1>3, <1>6 DEF MigrateInv
<1> QED BY <1>4, <1>5, <1>7 DEF RingInv

\* Each row copied has its rejection.
LEMMA RingMigrate ==
    ASSUME RingInv, Migrate
    PROVE  RingInv'
<1> DEFINE row == old[migrated + 1]
<1>1. /\ phase = "migrate" /\ migrated < Len(old) /\ serial_rejection' = serial_rejection + 1
      /\ migrated' = migrated + 1
      /\ serial_to_rejected_tx_id' = Put(serial_to_rejected_tx_id, serial_rejection, row.tx)
      /\ tx_id_to_rejection' = Put(tx_id_to_rejection, row.tx, row.reason)
      /\ UNCHANGED <<phase, waiting, writers, old, lost, base, pushed>>
  BY DEF Migrate, batchVars, taskVars
<1>2. Starting /\ Starting' /\ OldTxs' = OldTxs
  BY <1>1 DEF Starting, OldTxs
<1>3. /\ Serials \in SUBSET Nat /\ serial_rejection \in Nat /\ base \in Nat
      /\ old # None /\ migrated \in 0..Len(old)
      /\ \A s \in Serials : s <= serial_rejection
      /\ \A i \in 1..migrated :
            \E s \in Serials : s < serial_rejection /\ serial_to_rejected_tx_id[s] = old[i].tx
  BY <1>1 DEF RingInv, RingTypes, MigrateInv
<1>4. Len(old) \in Nat
  BY <1>3, OldIs DEF RingInv, RingTypes
<1>5. row.tx \in OldTxs
  <2>1. migrated + 1 \in 1..Len(old)
    BY <1>1, <1>3, <1>4
  <2> QED BY <2>1 DEF OldTxs
<1> HIDE DEF row
<1>6. /\ Serials' = Serials \cup {serial_rejection}
      /\ serial_to_rejected_tx_id'[serial_rejection] = row.tx
      /\ \A s \in Serials \ {serial_rejection} : serial_to_rejected_tx_id'[s] = serial_to_rejected_tx_id[s]
      /\ DOMAIN tx_id_to_rejection' = DOMAIN tx_id_to_rejection \cup {row.tx}
  BY <1>1 DEF Put, Serials
<1>7. \A s \in Serials' : s \in Nat /\ s < serial_rejection'
  BY <1>1, <1>3, <1>6
<1>8. RingTypes'
  <2>1. Serials' \in SUBSET Nat /\ serial_rejection' \in Nat
    BY <1>1, <1>3, <1>7
  <2>2. \A s \in Serials' : s <= serial_rejection'
    BY <1>7, <2>1
  <2>3. (\E n \in Nat : \A s \in Serials : s <= n)'
    BY <2>1, <2>2
  <2> QED BY <1>1, <1>2, <1>3, <2>1, <2>3 DEF RingInv, RingTypes
<1>9. RowsInv'
  <2>1. ASSUME NEW s \in Serials'
        PROVE  \/ serial_to_rejected_tx_id'[s] \in DOMAIN tx_id_to_rejection'
               \/ serial_to_rejected_tx_id'[s] \in pushed'
    <3>1. CASE s = serial_rejection
      BY <1>6, <3>1
    <3>2. CASE s \in Serials \ {serial_rejection}
      <4>1. serial_to_rejected_tx_id[s] \in DOMAIN tx_id_to_rejection \/ serial_to_rejected_tx_id[s] \in pushed
        BY <3>2 DEF RingInv, RowsInv
      <4> QED BY <1>1, <1>6, <3>2, <4>1
    <3> QED BY <1>6, <3>1, <3>2
  <2> QED BY <1>1, <1>3, <2>1 DEF RowsInv
<1>10. OldInv'
  <2>1. /\ DOMAIN tx_id_to_rejection \subseteq OldTxs
        /\ \A s \in Serials : serial_to_rejected_tx_id[s] \in OldTxs
    BY <1>3 DEF RingInv, OldInv
  <2>2. ASSUME NEW s \in Serials' PROVE serial_to_rejected_tx_id'[s] \in OldTxs
    <3>1. CASE s = serial_rejection
      BY <1>5, <1>6, <3>1
    <3>2. CASE s \in Serials \ {serial_rejection}
      BY <1>6, <2>1, <3>2
    <3> QED BY <1>6, <3>1, <3>2
  <2>3. DOMAIN tx_id_to_rejection' \subseteq OldTxs
    BY <1>5, <1>6, <2>1
  <2> QED BY <1>2, <2>2, <2>3 DEF OldInv
<1>11. OpenInv' /\ WriteInv'
  BY <1>1, <1>2 DEF OpenInv, WriteInv
<1>12. ASSUME NEW i \in 1..migrated'
       PROVE  \E s \in Serials' : s < serial_rejection' /\ serial_to_rejected_tx_id'[s] = old[i].tx
  <2>1. i \in 1..migrated \/ i = migrated + 1
    BY <1>1, <1>3, <1>4
  <2>2. CASE i \in 1..migrated
    <3>1. PICK s \in Serials : s < serial_rejection /\ serial_to_rejected_tx_id[s] = old[i].tx
      BY <1>3, <2>2
    <3>2. s \in Serials \ {serial_rejection}
      BY <1>3, <3>1
    <3> QED BY <1>6, <1>7, <3>1, <3>2
  <2>3. CASE i = migrated + 1
    <3>1. serial_rejection \in Serials' /\ serial_to_rejected_tx_id'[serial_rejection] = old[i].tx
      BY <1>6, <2>3 DEF row
    <3> QED BY <1>7, <3>1
  <2> QED BY <2>1, <2>2, <2>3
<1>13. migrated' \in 0..Len(old)
  BY <1>1, <1>3, <1>4
<1>14. \A s \in Serials' : s <= serial_rejection' /\ s < serial_rejection'
  BY <1>1, <1>3, <1>7
<1>15. MigrateInv'
  BY <1>1, <1>3, <1>12, <1>13, <1>14 DEF MigrateInv
<1> QED BY <1>8, <1>9, <1>10, <1>11, <1>15 DEF RingInv

\* When all rows are copied nothing is left of an interrupted migration.
LEMMA RingMigrationEnds ==
    ASSUME RingInv, MigrationEnds
    PROVE  RingInv'
<1>1. /\ phase = "migrate" /\ migrated = Len(old) /\ old' = None /\ migrated' = 0 /\ phase' = "idle"
      /\ base' = serial_rejection
      /\ UNCHANGED <<tx_id_to_rejection, serial_to_rejected_tx_id, serial_rejection, waiting, writers,
                     lost, pushed>>
  BY DEF MigrationEnds, ringVars, taskVars
<1>2. Starting /\ ~ Starting' /\ Serials' = Serials
  BY <1>1 DEF Starting, Serials
<1>3. /\ Serials \in SUBSET Nat /\ serial_rejection \in Nat /\ writers = {}
      /\ old # None /\ Len(old) \in Nat
      /\ \A s \in Serials : s <= serial_rejection /\ (migrated > 0 => s < serial_rejection)
      /\ \A i \in 1..migrated :
            \E s \in Serials : s < serial_rejection /\ serial_to_rejected_tx_id[s] = old[i].tx
  BY <1>1, <1>2, OldIs DEF RingInv, RingTypes, MigrateInv
<1>4. Serials = {} \/ migrated > 0
  <2>1. \A s \in Serials : serial_to_rejected_tx_id[s] \in OldTxs
    BY <1>3 DEF RingInv, OldInv
  <2>2. Len(old) = 0 => OldTxs = {}
    BY DEF OldTxs
  <2> QED BY <1>1, <1>3, <2>1, <2>2
<1>5. \A s \in Serials : s < serial_rejection
  BY <1>3, <1>4
<1>6. RingTypes'
  <2>1. (\E n \in Nat : \A s \in Serials : s <= n)'
    BY <1>2, <1>3
  <2> QED BY <1>1, <1>2, <1>3, <2>1 DEF RingTypes
<1>7. RowsInv'
  <2>1. ASSUME NEW tx \in DOMAIN tx_id_to_rejection
        PROVE  \E s \in Serials : serial_to_rejected_tx_id[s] = tx
    <3>1. tx \in OldTxs
      BY <1>3 DEF RingInv, OldInv
    <3>2. PICK i \in 1..Len(old) : old[i].tx = tx
      BY <3>1 DEF OldTxs
    <3> QED BY <1>1, <1>3, <3>2
  <2> QED BY <1>1, <1>2, <2>1 DEF RingInv, RowsInv
<1>8. OldInv' /\ OpenInv' /\ MigrateInv'
  BY <1>1, <1>2 DEF OldInv, OpenInv, MigrateInv
<1>9. \A s \in Serials' : HadItsTurn(s)'
  BY <1>1 DEF HadItsTurn
<1>10. WriteInv'
  BY <1>1, <1>2, <1>3, <1>5, <1>9 DEF WriteInv
<1> QED BY <1>6, <1>7, <1>8, <1>10 DEF RingInv

\* The writes a crash interrupts are lost.
LEMMA RingCrash ==
    ASSUME RingInv, Crash
    PROVE  RingInv'
<1>1. /\ phase' = "open" /\ waiting' = EmptyBag /\ writers' = {} /\ serial_rejection' = 0 /\ migrated' = 0
      /\ lost' = lost \cup {[tx |-> r.tx, serial |-> 0] : r \in BagToSet(waiting)}
                     \cup {[tx |-> w.tx, serial |-> w.serial] : w \in writers}
      /\ UNCHANGED <<tx_id_to_rejection, serial_to_rejected_tx_id, old, base, pushed>>
  BY DEF Crash
<1>2. Starting' /\ Serials' = Serials /\ OldTxs' = OldTxs
  BY <1>1 DEF Starting, Serials, OldTxs
<1>3. /\ \A n : LostAt(n) => LostAt(n)'
      /\ \A w \in writers : LostAt(w.serial)'
  <2>1. ASSUME NEW w \in writers PROVE LostAt(w.serial)'
    <3>1. PICK l : l = [tx |-> w.tx, serial |-> w.serial]
      OBVIOUS
    <3>2. l \in lost' /\ l.serial = w.serial
      BY <1>1, <3>1
    <3> QED BY <3>2 DEF LostAt
  <2>2. lost \subseteq lost'
    BY <1>1
  <2> QED BY <2>1, <2>2 DEF LostAt
<1>4. /\ Serials \in SUBSET Nat /\ base \in Nat /\ old \in Olds \cup {None}
      /\ \E n \in Nat : \A s \in Serials : s <= n
  BY DEF RingInv, RingTypes
<1>5. RingTypes'
  <2>1. (\E n \in Nat : \A s \in Serials : s <= n)'
    BY <1>2, <1>4
  <2> QED BY <1>1, <1>2, <1>4, <2>1 DEF RingTypes
<1>6. RowsInv' /\ OldInv' /\ MigrateInv' /\ WriteInv'
  BY <1>1, <1>2 DEF RingInv, RowsInv, OldInv, MigrateInv, WriteInv
<1>7. OpenInv'
  <2> SUFFICES ASSUME old = None, NEW s \in Serials, NEW t \in Serials, s + REJECTIONS_LEN_LIMIT <= t
               PROVE  LostAt(s + REJECTIONS_LEN_LIMIT)' \/ s + REJECTIONS_LEN_LIMIT < base
    BY <1>1, <1>2 DEF OpenInv
  <2>1. CASE phase = "open"
    BY <1>3, <2>1 DEF RingInv, OpenInv
  <2>2. phase # "migrate"
    BY DEF RingInv, MigrateInv
  <2>3. CASE ~ Starting
    <3>1. t < serial_rejection /\ HadItsTurn(s) /\ serial_rejection \in Nat
      BY <2>3 DEF RingInv, WriteInv, RingTypes
    <3>2. s + REJECTIONS_LEN_LIMIT < serial_rejection
      BY <1>4, <3>1, LimitIs
    <3> QED BY <1>3, <3>1, <3>2 DEF HadItsTurn
  <2> QED BY <2>1, <2>2, <2>3 DEF Starting
<1> QED BY <1>5, <1>6, <1>7 DEF RingInv

\* Every step keeps the ring sound.
LEMMA RingStep ==
    ASSUME RingInv, [Next]_vars
    PROVE  RingInv'
<1>1. CASE Reorg
  BY <1>1, RingSame DEF Reorg, batchVars, taskVars
<1>2. CASE Request \/ Reconstruct
  BY <1>2, RingSame DEF Request, Reconstruct, taskVars, Starting
<1>3. CASE ReconstructFails \/ Apply \/ ApplyFails
  BY <1>3, RingSame DEF ReconstructFails, Apply, ApplyFails, BatchEnds, BatchDropped, taskVars, Starting
<1>4. CASE Analyze \/ AnalyzePanics
  BY <1>4, RingSame DEF Analyze, AnalyzePanics, Starting
<1>5. CASE Draw
  BY <1>5, RingDraw
<1>6. CASE Write
  <2>1. PICK w \in writers : Commit(w) \/ CommitLost(w)
    BY <1>6 DEF Write
  <2>2. UNCHANGED <<phase, serial_rejection, waiting, old, migrated, base>>
    BY <1>6 DEF Write, batchVars, openVars
  <2> QED BY <2>1, <2>2, RingCommit, RingLost
<1>7. CASE Open
  BY <1>7, RingOpen
<1>8. CASE MigrationBegins
  BY <1>8, RingMigrationBegins
<1>9. CASE Migrate
  BY <1>9, RingMigrate
<1>10. CASE MigrationEnds
  BY <1>10, RingMigrationEnds
<1>11. CASE Crash
  BY <1>11, RingCrash
<1>12. CASE UNCHANGED vars
  BY <1>12, RingSame DEF vars, batchVars, taskVars
<1> QED BY <1>1, <1>2, <1>3, <1>4, <1>5, <1>6, <1>7, <1>8, <1>9, <1>10, <1>11, <1>12 DEF Next

\* Serials are never used twice, and rejections leave the ring in their turn.
THEOREM RingSoundAlways == Spec => []RingSound
<1>1. Init => RingInv
  BY RingInit
<1>2. RingInv /\ [Next]_vars => RingInv'
  BY RingStep
<1>3. ASSUME RingInv PROVE RingSound
  <2> SUFFICES ASSUME ~ Starting PROVE RingSound
    BY DEF RingSound, Starting
  <2>1. old = None
    BY <1>3 DEF RingInv, OldInv
  <2>2. /\ \A tx \in DOMAIN tx_id_to_rejection : \E s \in Serials : serial_to_rejected_tx_id[s] = tx
        /\ \A s \in Serials :
              serial_to_rejected_tx_id[s] \notin DOMAIN tx_id_to_rejection =>
                  serial_to_rejected_tx_id[s] \in pushed
    BY <1>3, <2>1 DEF RingInv, RowsInv
  <2>3. /\ \A s \in Serials : s < serial_rejection
        /\ \A w \in writers : w.serial \notin Serials
        /\ \A w, v \in writers : w.serial = v.serial => w = v
        /\ \A s \in Serials : HadItsTurn(s)
    BY <1>3 DEF RingInv, WriteInv, WriterOK
  <2> QED BY <2>2, <2>3 DEF RingSound, HadItsTurn, LostAt
<1> QED BY <1>1, <1>2, <1>3, PTL DEF Spec

\* Types, and how the phases of the sync task and the ring go together.
THEOREM IntakeTypes == Spec => []TypeOK
<1> DEFINE Inv == BatchInv /\ SeenInv /\ RingInv
<1>1. Init => Inv
  BY TaskInit, RingInit
<1>2. Inv /\ [Next]_vars => Inv'
  BY BatchStep, SeenStep, RingStep
<1>3. ASSUME Inv PROVE TypeOK
  <2>1. /\ chain \in Chains /\ \E c \in Chains : indexed = SubSeq(c, 1, Len(indexed))
        /\ phase \in {"open", "migrate", "idle", "reconstruct", "ready", "panicking"}
        /\ phase \in {"open", "migrate", "idle", "panicking"} =>
              batch = <<>> /\ common = 0 /\ block_cache = {} /\ rebuilt = <<>>
        /\ mergesets # <<>> => phase = "ready" /\ Len(mergesets) = Len(batch)
        /\ Len(rebuilt) <= Len(batch) /\ common <= Len(indexed)
    BY <1>3, IndexedIs, BatchIs DEF BatchInv
  <2>2. phase \in {"open", "migrate"} => waiting = EmptyBag /\ writers = {}
    BY <1>3 DEF RingInv, RingTypes, Starting
  <2>3. \A w \in writers : w.serial < serial_rejection
    BY <1>3, <2>2 DEF RingInv, WriteInv, WriterOK, Starting
  <2>4. migrated \in 0..(IF old = None THEN 0 ELSE Len(old))
    <3>1. CASE phase = "migrate"
      BY <1>3, <3>1 DEF RingInv, MigrateInv
    <3>2. CASE phase # "migrate"
      <4>1. migrated = 0
        BY <1>3, <3>2 DEF RingInv, RingTypes
      <4>2. old # None => Len(old) \in Nat
        BY <1>3, OldIs DEF RingInv, RingTypes
      <4> QED BY <4>1, <4>2
    <3> QED BY <3>1, <3>2
  <2> QED BY <2>1, <2>2, <2>3, <2>4 DEF TypeOK
<1> QED BY <1>1, <1>2, <1>3, PTL DEF Spec
=============================================================================
