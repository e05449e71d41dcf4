--------------------------- MODULE LedgerTablesProofs --------------------------
(***************************************************************************)
(* Proofs about what follows from LedgerInv, for any blocks, collections,  *)
(* operations and block capacity: the counters follow the operations that  *)
(* stand, a reorganisation restores the tables its lowest block started    *)
(* from, the answers clients are given agree with one another, the tables  *)
(* are what the book of Market follows from the standing operations, and   *)
(* each scan of the store finds the rows the ledger means.                 *)
(***************************************************************************)
EXTENDS LedgerProofs, Keys, SequenceTheorems

-----------------------------------------------------------------------------
(* Sums.                                                                   *)

\* g is the sum over the subsets of S, one chosen element at a time.
Sums(g, amounts, S) ==
    g = [s \in SUBSET S |->
            IF s = {} THEN 0 ELSE LET x == CHOOSE x \in s : TRUE IN amounts[x] + g[s \ {x}]]

\* Total is such a sum.
LEMMA TotalIs ==
    ASSUME NEW amounts
    PROVE  Total(amounts) =
              (CHOOSE g : Sums(g, amounts, DOMAIN amounts))[DOMAIN amounts]
BY DEF Total, FoldFunction, FoldFunctionOnSet, MapThenFoldSet, Sums

\* A finite set without one of its elements.
LEMMA OneLess ==
    ASSUME NEW S, IsFiniteSet(S), NEW s \in SUBSET S
    PROVE  /\ IsFiniteSet(s) /\ Cardinality(s) \in Nat
           /\ Cardinality(s) = 0 <=> s = {}
           /\ s # {} => /\ (CHOOSE x \in s : TRUE) \in s
                        /\ s \ {CHOOSE x \in s : TRUE} \in SUBSET S
                        /\ Cardinality(s \ {CHOOSE x \in s : TRUE}) = Cardinality(s) - 1
<1>1. IsFiniteSet(s)
  BY FS_Subset
<1>2. Cardinality(s) \in Nat /\ (Cardinality(s) = 0 <=> s = {})
  BY <1>1, FS_CardinalityType, FS_EmptySet
<1>3. s # {} => (CHOOSE x \in s : TRUE) \in s
  OBVIOUS
<1>4. \A x \in s : Cardinality(s \ {x}) = Cardinality(s) - 1
  BY <1>1, FS_RemoveElement
<1>5. QED BY <1>1, <1>2, <1>3, <1>4

\* Every finite set has such a sum, by induction on the size of the subsets.
LEMMA SumsExist ==
    ASSUME NEW S, IsFiniteSet(S), NEW amounts
    PROVE  \E g : Sums(g, amounts, S)
<1> DEFINE pick(s) == CHOOSE x \in s : TRUE
           UpTo(n) == {s \in SUBSET S : Cardinality(s) <= n}
           Partial(g, n) ==
               /\ DOMAIN g = UpTo(n)
               /\ \A s \in UpTo(n) : g[s] = IF s = {} THEN 0 ELSE amounts[pick(s)] + g[s \ {pick(s)}]
           Good == {n \in Nat : \E g : Partial(g, n)}
<1>1. \A s \in SUBSET S :
         /\ Cardinality(s) \in Nat /\ (Cardinality(s) = 0 <=> s = {})
         /\ s # {} => /\ s \ {pick(s)} \in SUBSET S
                      /\ Cardinality(s \ {pick(s)}) = Cardinality(s) - 1
  BY OneLess
<1> HIDE DEF pick
<1>2. 0 \in Good
  <2> DEFINE g == [s \in UpTo(0) |-> 0]
  <2>1. ASSUME NEW s \in UpTo(0) PROVE s = {}
    <3>1. s \in SUBSET S /\ Cardinality(s) <= 0
      OBVIOUS
    <3>2. Cardinality(s) \in Nat /\ (Cardinality(s) = 0 <=> s = {})
      BY <1>1, <3>1
    <3> HIDE DEF UpTo
    <3>3. QED BY <3>1, <3>2
  <2>2. Partial(g, 0)
    BY <2>1
  <2> HIDE DEF g, Partial
  <2>3. QED BY <2>2
<1>3. ASSUME NEW n \in Nat, n \in Good PROVE n + 1 \in Good
  <2>1. PICK g : Partial(g, n)
    BY <1>3
  <2> DEFINE h == [s \in UpTo(n + 1) |-> IF s = {} THEN 0 ELSE amounts[pick(s)] + g[s \ {pick(s)}]]
  <2>2. /\ DOMAIN h = UpTo(n + 1)
        /\ \A s \in UpTo(n + 1) : h[s] = IF s = {} THEN 0 ELSE amounts[pick(s)] + g[s \ {pick(s)}]
    OBVIOUS
  <2>3. ASSUME NEW s \in UpTo(n) PROVE s \in UpTo(n + 1)
    <3>1. s \in SUBSET S /\ Cardinality(s) <= n
      OBVIOUS
    <3>2. Cardinality(s) \in Nat
      BY <1>1, <3>1
    <3>3. Cardinality(s) <= n + 1
      BY <3>1, <3>2
    <3>4. QED BY <3>1, <3>3
  <2> HIDE DEF h
  <2>4. \A s \in UpTo(n) : h[s] = g[s]
    BY <2>1, <2>2, <2>3
  <2>5. \A s \in UpTo(n + 1) : s # {} => s \ {pick(s)} \in UpTo(n)
    BY <1>1
  <2>6. Partial(h, n + 1)
    BY <2>2, <2>4, <2>5
  <2> HIDE DEF Partial
  <2>7. QED BY <2>6
<1> HIDE DEF Good, UpTo
<1>4. Cardinality(S) \in Nat /\ Cardinality(S) \in Good
  BY <1>2, <1>3, OneLess, SetInduction
<1>5. UpTo(Cardinality(S)) = SUBSET S
  BY FS_Subset DEF UpTo
<1>6. PICK g : Partial(g, Cardinality(S))
  BY <1>4 DEF Good
<1> DEFINE h == [s \in SUBSET S |-> g[s]]
<1>7. \A s \in SUBSET S : g[s] = IF s = {} THEN 0 ELSE amounts[pick(s)] + g[s \ {pick(s)}]
  BY <1>5, <1>6
<1>8. \A s \in SUBSET S : h[s] = IF s = {} THEN 0 ELSE amounts[pick(s)] + h[s \ {pick(s)}]
  BY <1>1, <1>7
<1>9. h = [s \in SUBSET S |-> h[s]]
  OBVIOUS
<1> HIDE DEF h
<1>10. h = [s \in SUBSET S |-> IF s = {} THEN 0 ELSE amounts[pick(s)] + h[s \ {pick(s)}]]
  BY <1>8, <1>9
<1>11. QED BY <1>10 DEF Sums, pick

\* The equation of Total.
LEMMA TotalSums ==
    ASSUME NEW amounts, IsFiniteSet(DOMAIN amounts)
    PROVE  \E g : /\ Total(amounts) = g[DOMAIN amounts]
                  /\ \A s \in SUBSET DOMAIN amounts :
                        g[s] = IF s = {} THEN 0
                               ELSE amounts[CHOOSE x \in s : TRUE] + g[s \ {CHOOSE x \in s : TRUE}]
<1> DEFINE g == CHOOSE g : Sums(g, amounts, DOMAIN amounts)
<1>1. Sums(g, amounts, DOMAIN amounts)
  BY SumsExist
<1>2. Total(amounts) = g[DOMAIN amounts]
  BY TotalIs
<1> HIDE DEF g
<1>3. \A s \in SUBSET DOMAIN amounts :
         g[s] = IF s = {} THEN 0 ELSE LET x == CHOOSE x \in s : TRUE IN amounts[x] + g[s \ {x}]
  BY <1>1 DEF Sums
<1>4. QED BY <1>2, <1>3

\* The total of natural numbers is one.
LEMMA TotalNat ==
    ASSUME NEW amounts, IsFiniteSet(DOMAIN amounts), \A x \in DOMAIN amounts : amounts[x] \in Nat
    PROVE  Total(amounts) \in Nat
<1> DEFINE S == DOMAIN amounts
           pick(s) == CHOOSE x \in s : TRUE
<1>1. PICK g : /\ Total(amounts) = g[S]
               /\ \A s \in SUBSET S : g[s] = IF s = {} THEN 0 ELSE amounts[pick(s)] + g[s \ {pick(s)}]
  BY TotalSums
<1> DEFINE Good == {n \in Nat : \A s \in SUBSET S : Cardinality(s) = n => g[s] \in Nat}
<1>2. \A s \in SUBSET S :
         /\ Cardinality(s) \in Nat /\ (Cardinality(s) = 0 <=> s = {})
         /\ s # {} => /\ pick(s) \in s /\ s \ {pick(s)} \in SUBSET S
                      /\ Cardinality(s \ {pick(s)}) = Cardinality(s) - 1
  BY OneLess
<1> HIDE DEF pick
<1>3. 0 \in Good
  BY <1>1, <1>2
<1>4. ASSUME NEW n \in Nat, n \in Good PROVE n + 1 \in Good
  <2> SUFFICES ASSUME NEW s \in SUBSET S, Cardinality(s) = n + 1 PROVE g[s] \in Nat
    OBVIOUS
  <2>1. s # {} /\ s \ {pick(s)} \in SUBSET S /\ Cardinality(s \ {pick(s)}) = n
    <3>1. /\ Cardinality(s) = 0 <=> s = {}
          /\ s # {} => s \ {pick(s)} \in SUBSET S /\ Cardinality(s \ {pick(s)}) = Cardinality(s) - 1
      BY <1>2
    <3>2. n + 1 # 0 /\ n + 1 - 1 = n
      OBVIOUS
    <3>3. QED BY <3>1, <3>2
  <2>2. g[s \ {pick(s)}] \in Nat
    BY <1>2, <1>4, <2>1
  <2>3. amounts[pick(s)] \in Nat
    BY <1>2, <2>1
  <2>4. QED BY <1>1, <2>1, <2>2, <2>3
<1> HIDE DEF Good
<1>5. Nat \subseteq Good
  BY <1>3, <1>4, SetInduction
<1>6. g[S] \in Nat
  BY <1>2, <1>5 DEF Good
<1>7. QED BY <1>1, <1>6

\* The total of zeros and ones counts the ones.
LEMMA TotalCounts ==
    ASSUME NEW amounts, IsFiniteSet(DOMAIN amounts), \A x \in DOMAIN amounts : amounts[x] \in {0, 1}
    PROVE  Total(amounts) = Cardinality({x \in DOMAIN amounts : amounts[x] = 1})
<1> DEFINE S == DOMAIN amounts
           pick(s) == CHOOSE x \in s : TRUE
           ones(s) == {x \in s : amounts[x] = 1}
<1>1. PICK g : /\ Total(amounts) = g[S]
               /\ \A s \in SUBSET S : g[s] = IF s = {} THEN 0 ELSE amounts[pick(s)] + g[s \ {pick(s)}]
  BY TotalSums
<1> DEFINE Good == {n \in Nat : \A s \in SUBSET S : Cardinality(s) = n => g[s] = Cardinality(ones(s))}
<1>2. \A s \in SUBSET S :
         /\ IsFiniteSet(s) /\ Cardinality(s) \in Nat /\ (Cardinality(s) = 0 <=> s = {})
         /\ s # {} => /\ pick(s) \in s /\ s \ {pick(s)} \in SUBSET S
                      /\ Cardinality(s \ {pick(s)}) = Cardinality(s) - 1
  BY OneLess
<1> HIDE DEF pick
<1>3. 0 \in Good
  <2>1. ones({}) = {} /\ Cardinality({}) = 0
    BY FS_EmptySet
  <2>2. QED BY <1>1, <1>2, <2>1
<1>4. ASSUME NEW n \in Nat, n \in Good PROVE n + 1 \in Good
  <2> SUFFICES ASSUME NEW s \in SUBSET S, Cardinality(s) = n + 1 PROVE g[s] = Cardinality(ones(s))
    OBVIOUS
  <2> DEFINE x == pick(s)
             r == s \ {x}
  <2>1. s # {} /\ x \in s /\ r \in SUBSET S /\ Cardinality(r) = n
    BY <1>2
  <2>2. g[r] = Cardinality(ones(r))
    BY <1>4, <2>1
  <2>3. IsFiniteSet(ones(r)) /\ Cardinality(ones(r)) \in Nat
    <3>1. ones(r) \in SUBSET r /\ IsFiniteSet(r)
      BY <1>2, <2>1
    <3>2. QED BY <3>1, FS_Subset, FS_CardinalityType
  <2>4. g[s] = amounts[x] + g[r]
    BY <1>1, <2>1
  <2>5. CASE amounts[x] = 0
    <3>1. ones(s) = ones(r)
      BY <2>5
    <3>2. QED BY <2>2, <2>3, <2>4, <2>5, <3>1
  <2>6. CASE amounts[x] = 1
    <3>1. ones(s) = ones(r) \cup {x} /\ x \notin ones(r)
      BY <2>1, <2>6
    <3>2. Cardinality(ones(r) \cup {x}) = Cardinality(ones(r)) + 1
      BY <2>3, <3>1, FS_AddElement
    <3>3. PICK c \in Nat : c = Cardinality(ones(r))
      BY <2>3
    <3>4. g[s] = 1 + c /\ Cardinality(ones(s)) = c + 1
      BY <2>2, <2>4, <2>6, <3>1, <3>2, <3>3
    <3>5. QED BY <3>3, <3>4
  <2>7. QED BY <2>1, <2>5, <2>6
<1> HIDE DEF Good
<1>5. Nat \subseteq Good
  BY <1>3, <1>4, SetInduction
<1>6. g[S] = Cardinality(ones(S))
  BY <1>2, <1>5 DEF Good
<1>7. QED BY <1>1, <1>6

-----------------------------------------------------------------------------
(* The counters.                                                           *)

\* What the counters rest on: only operations of the node are recorded, and every
\* mint that stands has its row.
StatsInv ==
    /\ DOMAIN stats = Counters /\ \A c \in Counters : stats[c] \in Nat
    /\ \A s \in DOMAIN operation_history : operation_history[s].op \in Ops
    /\ IsFiniteSet(mint_history)
    /\ \A s \in Standing("mint") : \E m \in mint_history : m.score = s
    /\ StatsFollow

\* The kind of the operations a counter counts, for those that count operations.
Counted(c, kind) ==
    \/ c = "deployments" /\ kind = "deploy"
    \/ c = "transfers" /\ kind = "transfer"
    \/ c = "listings" /\ kind = "list"
    \/ c = "sends" /\ kind = "send"

\* The StatsDiffs of one operation.
LEMMA DiffsAre ==
    ASSUME NEW op \in Ops
    PROVE  /\ \A c \in Counters : RemovalDiff(op)[c] \in Nat /\ AdditionDiff(op)[c] \in Nat
           /\ \A c, kind : Counted(c, kind) =>
                 /\ RemovalDiff(op)[c] = IF op.kind = kind THEN 1 ELSE 0
                 /\ AdditionDiff(op)[c] = IF op.kind = kind THEN 1 ELSE 0
           /\ RemovalDiff(op)["mints"] = IF op.kind = "mint" THEN 1 ELSE 0
           /\ AdditionDiff(op)["mints"] = IF op.kind = "deploy" THEN op.premint
                                          ELSE IF op.kind = "mint" THEN 1 ELSE 0
<1> DEFINE one(kind) == IF op.kind = kind THEN 1 ELSE 0
           royalty == IF op.kind \in {"deploy", "mint"} /\ op.royalty # None
                      THEN op.royalty.fee ELSE 0
           minted == IF op.kind = "deploy" THEN op.premint ELSE one("mint")
<1>1. /\ op.security_fee \in Nat /\ royalty \in Nat /\ minted \in Nat
      /\ \A kind : one(kind) \in Nat
  <2>1. op.security_fee \in Nat
    BY LedgerAssumption
  <2>2. royalty \in Nat
    BY LedgerAssumption
  <2>3. op.kind = "deploy" => op.premint \in Nat
    BY LedgerAssumption
  <2>4. QED BY <2>1, <2>2, <2>3
<1>2. RemovalDiff(op) = [deployments |-> one("deploy"), mints |-> one("mint"),
                         transfers |-> one("transfer"), listings |-> one("list"),
                         sends |-> one("send"), security_fees |-> op.security_fee,
                         royalty_fees |-> royalty]
  BY DEF RemovalDiff
<1>3. AdditionDiff(op) = [deployments |-> one("deploy"), mints |-> minted,
                          transfers |-> one("transfer"), listings |-> one("list"),
                          sends |-> one("send"), security_fees |-> op.security_fee,
                          royalty_fees |-> royalty]
  BY <1>2 DEF AdditionDiff
<1> HIDE DEF royalty, minted, one
<1>4. \A c \in Counters : RemovalDiff(op)[c] \in Nat
  BY <1>1, <1>2 DEF Counters
<1>5. \A c \in Counters : AdditionDiff(op)[c] \in Nat
  BY <1>1, <1>3 DEF Counters
<1>6. \A c, kind : Counted(c, kind) => RemovalDiff(op)[c] = one(kind)
  BY <1>2 DEF Counted
<1>7. \A c, kind : Counted(c, kind) => AdditionDiff(op)[c] = one(kind)
  BY <1>3 DEF Counted
<1>8. RemovalDiff(op)["mints"] = one("mint") /\ AdditionDiff(op)["mints"] = minted
  BY <1>2, <1>3
<1>9. QED BY <1>4, <1>5, <1>6, <1>7, <1>8 DEF one, minted

\* The operations that stand are finitely many.
LEMMA StandingFinite ==
    ASSUME ChainInv
    PROVE  /\ IsFiniteSet(DOMAIN operation_history)
           /\ \A kind : IsFiniteSet(Standing(kind)) /\ Cardinality(Standing(kind)) \in Nat
<1>1. Now \in Nat /\ \A s \in DOMAIN operation_history : s \in Nat /\ s < Now
  BY NowAbove
<1>2. DOMAIN operation_history \in SUBSET (0..Now)
  BY <1>1
<1>3. IsFiniteSet(DOMAIN operation_history)
  <2>1. IsFiniteSet(0..Now)
    BY <1>1, FS_Interval
  <2>2. QED BY <1>2, <2>1, FS_Subset
<1>4. ASSUME NEW kind PROVE IsFiniteSet(Standing(kind)) /\ Cardinality(Standing(kind)) \in Nat
  <2>1. Standing(kind) \in SUBSET DOMAIN operation_history
    BY DEF Standing
  <2>2. QED BY <1>3, <2>1, FS_Subset, FS_CardinalityType
<1>5. QED BY <1>3, <1>4

\* StatsFollow, counter by counter.
LEMMA FollowIs ==
    StatsFollow <=> /\ \A c, kind : Counted(c, kind) => stats[c] = Cardinality(Standing(kind))
                    /\ stats["mints"] >= Cardinality(mint_history)
<1> DEFINE follows(c, kind) == stats[c] = Cardinality(Standing(kind))
<1>1. StatsFollow <=> /\ follows("deployments", "deploy") /\ follows("transfers", "transfer")
                      /\ follows("listings", "list") /\ follows("sends", "send")
                      /\ stats["mints"] >= Cardinality(mint_history)
  BY DEF StatsFollow
<1> HIDE DEF follows
<1>2. (\A c, kind : Counted(c, kind) => follows(c, kind)) <=>
         /\ follows("deployments", "deploy") /\ follows("transfers", "transfer")
         /\ follows("listings", "list") /\ follows("sends", "send")
  <2>1. /\ Counted("deployments", "deploy") /\ Counted("transfers", "transfer")
        /\ Counted("listings", "list") /\ Counted("sends", "send")
    BY DEF Counted
  <2>2. ASSUME follows("deployments", "deploy"), follows("transfers", "transfer"),
               follows("listings", "list"), follows("sends", "send"), NEW c, NEW kind, Counted(c, kind)
        PROVE  follows(c, kind)
    BY <2>2 DEF Counted
  <2>3. QED BY <2>1, <2>2
<1>3. QED BY <1>1, <1>2 DEF follows

\* A counter never goes below zero.
LEMMA RemovalIs ==
    ASSUME NEW c, stats[c] \in Nat, NEW lost \in Nat
    PROVE  CountRemoval(c, lost) = IF lost <= stats[c] THEN stats[c] - lost ELSE 0
<1> DEFINE T == {0, stats[c] - lost}
           m == IF lost <= stats[c] THEN stats[c] - lost ELSE 0
<1>1. m \in T /\ \A y \in T : y <= m
  OBVIOUS
<1>2. \A x \in T : (\A y \in T : y <= x) => x = m
  OBVIOUS
<1>3. Max(T) \in T /\ \A y \in T : y <= Max(T)
  BY <1>1 DEF Max
<1>4. Max(T) = m
  BY <1>2, <1>3
<1>5. QED BY <1>4 DEF CountRemoval

\* An operation that succeeds counts once, and its tokens.
LEMMA AdditionCounts ==
    ASSUME ChainInv, StatsInv, NEW op \in Ops, NEW token, Arrives(op, op.kind), Record(op, token, None),
           CountAddition(op), mint_history \subseteq mint_history', IsFiniteSet(mint_history'),
           Cardinality(mint_history') <= Cardinality(mint_history) + AdditionDiff(op)["mints"],
           op.kind = "mint" => \E m \in mint_history' : m.score = Now
    PROVE  StatsInv'
<1>1. /\ Now \in Nat /\ Now \notin DOMAIN operation_history
      /\ DOMAIN operation_history' = DOMAIN operation_history \cup {Now}
      /\ operation_history'[Now].op = op
      /\ \A s \in DOMAIN operation_history : operation_history'[s] = operation_history[s]
  BY RecordFacts
<1>2. \A kind : Standing(kind)' = Standing(kind) \cup (IF op.kind = kind THEN {Now} ELSE {})
  BY StandingAfterRecord
<1>3. \A c \in Counters : stats'[c] = stats[c] + AdditionDiff(op)[c]
  BY DEF CountAddition
<1>4. /\ \A c \in Counters : AdditionDiff(op)[c] \in Nat
      /\ \A c, kind : Counted(c, kind) => AdditionDiff(op)[c] = IF op.kind = kind THEN 1 ELSE 0
  BY DiffsAre
<1>5. DOMAIN stats' = Counters /\ \A c \in Counters : stats'[c] \in Nat
  <2>1. DOMAIN stats' = Counters
    BY DEF CountAddition
  <2>2. \A c \in Counters : stats[c] \in Nat
    BY DEF StatsInv
  <2>3. QED BY <1>3, <1>4, <2>1, <2>2
<1>6. ASSUME NEW c, NEW kind, Counted(c, kind)
      PROVE  stats'[c] = Cardinality(Standing(kind)')
  <2>1. c \in Counters
    BY <1>6 DEF Counted, Counters
  <2>2. stats[c] = Cardinality(Standing(kind))
    BY <1>6, FollowIs DEF StatsInv
  <2>3. IsFiniteSet(Standing(kind)) /\ Now \notin Standing(kind)
    BY <1>1, StandingFinite DEF Standing
  <2>4. Cardinality(Standing(kind) \cup {Now}) = Cardinality(Standing(kind)) + 1
    BY <2>3, FS_AddElement
  <2>5. stats'[c] = stats[c] + IF op.kind = kind THEN 1 ELSE 0
    BY <1>3, <1>4, <1>6, <2>1
  <2>6. CASE op.kind = kind
    <3>1. Standing(kind)' = Standing(kind) \cup {Now}
      BY <1>2, <2>6
    <3>2. QED BY <2>2, <2>4, <2>5, <2>6, <3>1
  <2>7. CASE op.kind # kind
    <3>1. Standing(kind)' = Standing(kind)
      BY <1>2, <2>7
    <3>2. stats[c] \in Nat
      BY <2>1 DEF StatsInv
    <3>3. QED BY <2>2, <2>5, <2>7, <3>1, <3>2
  <2>8. QED BY <2>6, <2>7
<1>7. stats'["mints"] >= Cardinality(mint_history')
  <2>1. "mints" \in Counters
    BY DEF Counters
  <2>2. stats["mints"] >= Cardinality(mint_history) /\ stats["mints"] \in Nat
    BY <2>1, FollowIs DEF StatsInv
  <2>3. Cardinality(mint_history) \in Nat /\ Cardinality(mint_history') \in Nat
    BY FS_CardinalityType DEF StatsInv
  <2>4. stats'["mints"] = stats["mints"] + AdditionDiff(op)["mints"] /\ AdditionDiff(op)["mints"] \in Nat
    BY <1>3, <1>4, <2>1
  <2>5. QED BY <2>2, <2>3, <2>4
<1>8. \A s \in DOMAIN operation_history' : operation_history'[s].op \in Ops
  BY <1>1 DEF StatsInv
<1>9. \A s \in Standing("mint")' : \E m \in mint_history' : m.score = s
  BY <1>2 DEF StatsInv
<1>10. StatsFollow'
  <2>1. /\ Counted("deployments", "deploy") /\ Counted("transfers", "transfer")
        /\ Counted("listings", "list") /\ Counted("sends", "send")
    BY DEF Counted
  <2>2. /\ stats'["deployments"] = Cardinality(Standing("deploy")')
        /\ stats'["transfers"] = Cardinality(Standing("transfer")')
        /\ stats'["listings"] = Cardinality(Standing("list")')
        /\ stats'["sends"] = Cardinality(Standing("send")')
    BY <1>6, <2>1
  <2>3. QED BY <1>7, <2>2 DEF StatsFollow
<1>11. QED BY <1>5, <1>8, <1>9, <1>10 DEF StatsInv

\* What the removed operations of a kind added to their counter.
LEMMA LostIs ==
    ASSUME ChainInv, StatsInv, NEW threshold \in Nat, NEW c, NEW kind,
           \A op \in Ops : RemovalDiff(op)[c] = IF op.kind = kind THEN 1 ELSE 0
    PROVE  Total([s \in RemovedOps(threshold) |-> RemovalDiff(operation_history[s].op)[c]])
              = Cardinality({s \in Standing(kind) : s >= threshold})
<1> DEFINE amounts == [s \in RemovedOps(threshold) |-> RemovalDiff(operation_history[s].op)[c]]
<1>1. DOMAIN amounts = RemovedOps(threshold)
  OBVIOUS
<1>2. \A s \in RemovedOps(threshold) :
         /\ s \in DOMAIN operation_history /\ s >= threshold /\ operation_history[s].error = None
         /\ amounts[s] = IF operation_history[s].op.kind = kind THEN 1 ELSE 0
  BY DEF RemovedOps, StatsInv
<1>3. IsFiniteSet(RemovedOps(threshold))
  <2>1. RemovedOps(threshold) \in SUBSET DOMAIN operation_history
    BY DEF RemovedOps
  <2>2. QED BY <2>1, StandingFinite, FS_Subset
<1>4. {s \in RemovedOps(threshold) : amounts[s] = 1} = {s \in Standing(kind) : s >= threshold}
  BY <1>2 DEF RemovedOps, Standing
<1>5. \A s \in RemovedOps(threshold) : amounts[s] \in {0, 1}
  BY <1>2
<1> HIDE DEF amounts
<1>6. Total(amounts) = Cardinality({s \in DOMAIN amounts : amounts[s] = 1})
  BY <1>1, <1>3, <1>5, TotalCounts
<1>7. Total(amounts) = Cardinality({s \in Standing(kind) : s >= threshold})
  BY <1>1, <1>4, <1>6
<1>8. QED BY <1>7 DEF amounts

\* Mint rows that come, and how many they are.
LEMMA RowsCome ==
    ASSUME IsFiniteSet(mint_history), NEW new, IsFiniteSet(new),
           mint_history' = mint_history \cup new
    PROVE  /\ mint_history \subseteq mint_history' /\ IsFiniteSet(mint_history')
           /\ Cardinality(mint_history') <= Cardinality(mint_history) + Cardinality(new)
<1> DEFINE shared == mint_history \cap new
<1>1. /\ IsFiniteSet(mint_history \cup new)
      /\ Cardinality(mint_history \cup new) =
            Cardinality(mint_history) + Cardinality(new) - Cardinality(shared)
  BY FS_Union
<1>2. IsFiniteSet(shared)
  <2>1. shared \in SUBSET new
    OBVIOUS
  <2>2. QED BY <2>1, FS_Subset
<1>3. Cardinality(shared) \in Nat /\ Cardinality(mint_history) \in Nat /\ Cardinality(new) \in Nat
  BY <1>2, FS_CardinalityType
<1> HIDE DEF shared
<1>4. QED BY <1>1, <1>3

\* The premint of a deployment counts as so many mints, a mint as one.
LEMMA MintsCount ==
    ASSUME ChainInv, StatsInv, NEW op \in Ops, Deploy(op) \/ Mint(op)
    PROVE  StatsInv'
<1>1. IsFiniteSet(mint_history)
  BY DEF StatsInv
<1>2. CASE Deploy(op)
  <2> DEFINE n == op.premint
             row(i) == [tick |-> op.tick, seq |-> i, token |-> i, score |-> Now]
             new == {row(i) : i \in 1..n}
             f == [i \in 1..n |-> row(i)]
  <2>1. /\ Arrives(op, op.kind) /\ op.kind = "deploy" /\ Record(op, None, None) /\ CountAddition(op)
        /\ mint_history' = mint_history \cup MintRows(op.tick, [t \in 1..op.premint |-> t])
    BY <1>2 DEF Deploy, Arrives
  <2>2. n \in Nat /\ AdditionDiff(op)["mints"] = n
    BY <2>1, DiffsAre, LedgerAssumption
  <2>3. MintRows(op.tick, [t \in 1..op.premint |-> t]) = new
    BY DEF MintRows
  <2>4. /\ f \in [1..n -> new] /\ \A x \in new : \E i \in 1..n : f[i] = x
        /\ \A i, j \in 1..n : f[i] = f[j] => i = j
    OBVIOUS
  <2> HIDE DEF new, f, n
  <2>5. IsFiniteSet(new) /\ Cardinality(new) = n
    BY <2>2, <2>4, NumberedCount
  <2>6. mint_history' = mint_history \cup new
    BY <2>1, <2>3
  <2>7. /\ mint_history \subseteq mint_history' /\ IsFiniteSet(mint_history')
        /\ Cardinality(mint_history') <= Cardinality(mint_history) + AdditionDiff(op)["mints"]
    BY <1>1, <2>2, <2>5, <2>6, RowsCome
  <2>8. QED BY <2>1, <2>7, AdditionCounts
<1>3. CASE Mint(op)
  <2>1. PICK token, seq : /\ mint_history' = mint_history \cup MintRows(op.tick, [t \in {token} |-> seq])
                          /\ Record(op, token, None)
    BY <1>3 DEF Mint
  <2>2. Arrives(op, op.kind) /\ op.kind = "mint" /\ CountAddition(op)
    BY <1>3 DEF Mint, Arrives
  <2> DEFINE row == [tick |-> op.tick, seq |-> seq, token |-> token, score |-> Now]
  <2>3. MintRows(op.tick, [t \in {token} |-> seq]) = {row}
    BY DEF MintRows
  <2>4. row.score = Now
    OBVIOUS
  <2> HIDE DEF row
  <2>5. mint_history' = mint_history \cup {row} /\ row \in mint_history'
    BY <2>1, <2>3
  <2>6. IsFiniteSet({row}) /\ Cardinality({row}) = 1 /\ AdditionDiff(op)["mints"] = 1
    BY <2>2, FS_Singleton, DiffsAre
  <2>7. /\ mint_history \subseteq mint_history' /\ IsFiniteSet(mint_history')
        /\ Cardinality(mint_history') <= Cardinality(mint_history) + AdditionDiff(op)["mints"]
    BY <1>1, <2>5, <2>6, RowsCome
  <2>8. \E m \in mint_history' : m.score = Now
    BY <2>4, <2>5
  <2>9. QED BY <2>1, <2>2, <2>7, <2>8, AdditionCounts
<1>4. QED BY <1>2, <1>3

\* The other operations mint nothing.
LEMMA OthersCount ==
    ASSUME ChainInv, StatsInv, NEW op \in Ops, NEW token, Arrives(op, op.kind), Record(op, token, None),
           op.kind \notin {"deploy", "mint"}, CountAddition(op), UNCHANGED mintVars
    PROVE  StatsInv'
<1>1. mint_history' = mint_history
  BY DEF mintVars
<1>2. AdditionDiff(op)["mints"] = 0
  BY DiffsAre
<1>3. IsFiniteSet(mint_history) /\ Cardinality(mint_history) \in Nat
  BY FS_CardinalityType DEF StatsInv
<1>4. /\ mint_history \subseteq mint_history' /\ IsFiniteSet(mint_history')
      /\ Cardinality(mint_history') <= Cardinality(mint_history) + AdditionDiff(op)["mints"]
  BY <1>1, <1>2, <1>3
<1>5. QED BY <1>4, AdditionCounts

\* What leaves the operations that stand, the mints and the counters alone.
LEMMA StatsQuiet ==
    ASSUME StatsInv, UNCHANGED <<mintVars, stats>>, \A kind : Standing(kind)' = Standing(kind),
           \A s \in DOMAIN operation_history' : operation_history'[s].op \in Ops
    PROVE  StatsInv'
<1>1. mint_history' = mint_history /\ stats' = stats
  BY DEF mintVars
<1>2. QED BY <1>1 DEF StatsInv, StatsFollow

\* What is taken off a counter: what the removed operations had added, except for
\* the premint of a deployment.
LEMMA RemovalCounts ==
    ASSUME ChainInv, StatsInv, MintsRecorded, NEW threshold \in Nat,
           RollbackOperations(threshold), RollbackMints(threshold),
           \A s \in DOMAIN operation_history' :
               s \in DOMAIN operation_history /\ operation_history'[s] = operation_history[s],
           \A kind : Standing(kind)' = {s \in Standing(kind) : s < threshold}
    PROVE  StatsInv'
<1> DEFINE lost(c) == Total([s \in RemovedOps(threshold) |-> RemovalDiff(operation_history[s].op)[c]])
           gone(kind) == {s \in Standing(kind) : s >= threshold}
<1>1. stats' = [c \in Counters |-> CountRemoval(c, lost(c))]
  BY DEF RollbackOperations
<1>2. \A op \in Ops :
         /\ \A c \in Counters : RemovalDiff(op)[c] \in Nat
         /\ \A c, kind : Counted(c, kind) => RemovalDiff(op)[c] = IF op.kind = kind THEN 1 ELSE 0
         /\ RemovalDiff(op)["mints"] = IF op.kind = "mint" THEN 1 ELSE 0
  BY DiffsAre
<1>3. ASSUME NEW c \in Counters PROVE lost(c) \in Nat
  <2> DEFINE amounts == [s \in RemovedOps(threshold) |-> RemovalDiff(operation_history[s].op)[c]]
  <2>1. RemovedOps(threshold) \in SUBSET DOMAIN operation_history
    BY DEF RemovedOps
  <2>2. DOMAIN amounts = RemovedOps(threshold) /\ \A s \in RemovedOps(threshold) : amounts[s] \in Nat
    BY <1>2, <2>1 DEF StatsInv
  <2>3. IsFiniteSet(RemovedOps(threshold))
    BY <2>1, StandingFinite, FS_Subset
  <2> HIDE DEF amounts
  <2>4. Total(amounts) \in Nat
    BY <2>2, <2>3, TotalNat
  <2>5. QED BY <2>4 DEF amounts
<1>4. ASSUME NEW c, NEW kind, \A op \in Ops : RemovalDiff(op)[c] = IF op.kind = kind THEN 1 ELSE 0
      PROVE  lost(c) = Cardinality(gone(kind))
  BY <1>4, LostIs
<1>5. \A kind : /\ IsFiniteSet(gone(kind)) /\ Cardinality(gone(kind)) \in Nat
                /\ Cardinality(Standing(kind)') = Cardinality(Standing(kind)) - Cardinality(gone(kind))
                /\ Cardinality(Standing(kind)') \in Nat /\ Cardinality(Standing(kind)) \in Nat
  <2> SUFFICES ASSUME NEW kind
               PROVE  /\ IsFiniteSet(gone(kind)) /\ Cardinality(gone(kind)) \in Nat
                      /\ Cardinality(Standing(kind)') = Cardinality(Standing(kind)) - Cardinality(gone(kind))
                      /\ Cardinality(Standing(kind)') \in Nat /\ Cardinality(Standing(kind)) \in Nat
    OBVIOUS
  <2>1. IsFiniteSet(Standing(kind)) /\ Cardinality(Standing(kind)) \in Nat
    BY StandingFinite
  <2>2. \A s \in Standing(kind) : s \in Nat
    BY StandingBelow
  <2>3. gone(kind) \in SUBSET Standing(kind)
    OBVIOUS
  <2>4. Standing(kind)' = Standing(kind) \ gone(kind)
    <3>1. Standing(kind)' = {s \in Standing(kind) : s < threshold}
      OBVIOUS
    <3>2. \A s \in Standing(kind) : s < threshold <=> ~ (s >= threshold)
      BY <2>2
    <3>3. QED BY <3>1, <3>2
  <2> HIDE DEF gone
  <2>5. IsFiniteSet(gone(kind)) /\ Cardinality(gone(kind)) \in Nat
    BY <2>1, <2>3, FS_Subset, FS_CardinalityType
  <2>6. Standing(kind) \cap gone(kind) = gone(kind)
    BY <2>3
  <2>7. /\ IsFiniteSet(Standing(kind) \ gone(kind))
        /\ Cardinality(Standing(kind) \ gone(kind)) = Cardinality(Standing(kind)) - Cardinality(gone(kind))
    BY <2>1, <2>6, FS_Difference
  <2>8. QED BY <2>1, <2>4, <2>5, <2>7, FS_CardinalityType
<1> HIDE DEF lost, gone
<1>6. \A c \in Counters : stats'[c] = IF lost(c) <= stats[c] THEN stats[c] - lost(c) ELSE 0
  <2> SUFFICES ASSUME NEW c \in Counters
               PROVE  stats'[c] = IF lost(c) <= stats[c] THEN stats[c] - lost(c) ELSE 0
    OBVIOUS
  <2>1. stats[c] \in Nat /\ lost(c) \in Nat
    BY <1>3 DEF StatsInv
  <2>2. CountRemoval(c, lost(c)) = IF lost(c) <= stats[c] THEN stats[c] - lost(c) ELSE 0
    BY <2>1, RemovalIs
  <2>3. QED BY <1>1, <2>2
<1>7. DOMAIN stats' = Counters /\ \A c \in Counters : stats'[c] \in Nat
  <2>1. \A c \in Counters : stats[c] \in Nat /\ lost(c) \in Nat
    BY <1>3 DEF StatsInv
  <2>2. QED BY <1>1, <1>6, <2>1
<1>8. ASSUME NEW c, NEW kind, Counted(c, kind)
      PROVE  stats'[c] = Cardinality(Standing(kind)')
  <2>1. c \in Counters /\ lost(c) = Cardinality(gone(kind))
    <3>1. c \in Counters
      BY <1>8 DEF Counted, Counters
    <3>2. \A op \in Ops : RemovalDiff(op)[c] = IF op.kind = kind THEN 1 ELSE 0
      BY <1>2, <1>8
    <3>3. QED BY <1>4, <3>1, <3>2
  <2>2. stats[c] = Cardinality(Standing(kind))
    BY <1>8, FollowIs DEF StatsInv
  <2>3. stats'[c] = IF lost(c) <= stats[c] THEN stats[c] - lost(c) ELSE 0
    BY <1>6, <2>1
  <2>4. /\ Cardinality(Standing(kind)') = Cardinality(Standing(kind)) - Cardinality(gone(kind))
        /\ Cardinality(Standing(kind)') \in Nat /\ Cardinality(gone(kind)) \in Nat
        /\ Cardinality(Standing(kind)) \in Nat
    BY <1>5
  <2>5. Cardinality(gone(kind)) <= Cardinality(Standing(kind))
    BY <2>4
  <2>6. QED BY <2>1, <2>2, <2>3, <2>4, <2>5
\* Every removed mint has a row that goes with it.
<1> DEFINE rows == RemovedMints(threshold)
<1>9. \A m : m \in rows <=> m \in mint_history /\ m.score >= threshold
  BY RemovedMintsAre
<1>10. mint_history' = mint_history \ rows
  BY DEF RollbackMints
<1> HIDE DEF rows
<1>11. /\ IsFiniteSet(rows) /\ Cardinality(rows) \in Nat /\ IsFiniteSet(mint_history')
       /\ Cardinality(mint_history) \in Nat /\ Cardinality(mint_history') \in Nat
       /\ Cardinality(mint_history') = Cardinality(mint_history) - Cardinality(rows)
  <2>1. rows \in SUBSET mint_history /\ mint_history \cap rows = rows /\ IsFiniteSet(mint_history)
    BY <1>9 DEF StatsInv
  <2>2. IsFiniteSet(rows)
    BY <2>1, FS_Subset
  <2>3. /\ IsFiniteSet(mint_history \ rows)
        /\ Cardinality(mint_history \ rows) = Cardinality(mint_history) - Cardinality(rows)
    BY <2>1, FS_Difference
  <2>4. QED BY <1>10, <2>1, <2>2, <2>3, FS_CardinalityType
<1>12. Cardinality(gone("mint")) <= Cardinality(rows)
  <2> DEFINE row(s) == CHOOSE m \in mint_history : m.score = s
             f == [s \in gone("mint") |-> row(s)]
  <2>1. \A s \in gone("mint") : s \in Standing("mint") /\ s >= threshold
    BY DEF gone
  <2>2. \A s \in gone("mint") : row(s) \in mint_history /\ row(s).score = s
    BY <2>1 DEF StatsInv
  <2> HIDE DEF row
  <2>3. f \in [gone("mint") -> rows]
    BY <1>9, <2>1, <2>2
  <2>4. \A a, b \in gone("mint") : f[a] = f[b] => a = b
    BY <2>2
  <2>5. f \in Injection(gone("mint"), rows)
    BY <2>3, <2>4 DEF Injection, IsInjective
  <2> HIDE DEF f
  <2>6. QED BY <1>11, <2>5, FS_Injection
<1>13. stats'["mints"] >= Cardinality(mint_history')
  <2>1. "mints" \in Counters
    BY DEF Counters
  <2>2. lost("mints") = Cardinality(gone("mint"))
    BY <1>2, <1>4
  <2>3. stats["mints"] >= Cardinality(mint_history) /\ stats["mints"] \in Nat
    BY <2>1, FollowIs DEF StatsInv
  <2>4. stats'["mints"] = IF lost("mints") <= stats["mints"] THEN stats["mints"] - lost("mints") ELSE 0
    BY <1>6, <2>1
  <2>5. Cardinality(gone("mint")) \in Nat
    BY <1>5
  <2> DEFINE g == Cardinality(gone("mint"))
             r == Cardinality(rows)
             m == Cardinality(mint_history)
  <2>6. g \in Nat /\ r \in Nat /\ m \in Nat /\ g <= r /\ r <= m /\ Cardinality(mint_history') = m - r
    BY <1>11, <1>12, <2>5
  <2> HIDE DEF g, r, m
  <2>7. lost("mints") = g /\ stats["mints"] >= m
    BY <2>2, <2>3 DEF g, m
  <2>8. QED BY <2>3, <2>4, <2>6, <2>7
<1>14. \A s \in Standing("mint")' : \E m \in mint_history' : m.score = s
  <2> SUFFICES ASSUME NEW s \in Standing("mint")' PROVE \E m \in mint_history' : m.score = s
    OBVIOUS
  <2>1. s \in Standing("mint") /\ s < threshold /\ s \in Nat
    BY StandingBelow
  <2>2. PICK m \in mint_history : m.score = s
    BY <2>1 DEF StatsInv
  <2>3. ~ (m.score >= threshold)
    BY <2>1, <2>2
  <2>4. QED BY <1>9, <1>10, <2>2, <2>3
<1>15. \A s \in DOMAIN operation_history' : operation_history'[s].op \in Ops
  BY DEF StatsInv
<1>16. StatsFollow'
  <2>1. /\ Counted("deployments", "deploy") /\ Counted("transfers", "transfer")
        /\ Counted("listings", "list") /\ Counted("sends", "send")
    BY DEF Counted
  <2>2. /\ stats'["deployments"] = Cardinality(Standing("deploy")')
        /\ stats'["transfers"] = Cardinality(Standing("transfer")')
        /\ stats'["listings"] = Cardinality(Standing("list")')
        /\ stats'["sends"] = Cardinality(Standing("send")')
    BY <1>8, <2>1
  <2>3. QED BY <1>13, <2>2 DEF StatsFollow
<1>17. QED BY <1>7, <1>11, <1>14, <1>15, <1>16 DEF StatsInv

-----------------------------------------------------------------------------
(* The counters and the types.                                             *)

LEMMA StatsInit == Init => StatsInv
<1> SUFFICES ASSUME Init PROVE StatsInv
  OBVIOUS
<1>1. /\ operation_history = NoEntries /\ mint_history = {} /\ stats = [c \in Counters |-> 0]
      /\ DOMAIN NoEntries = {}
  BY DEF Init, NoEntries
<1>2. \A kind : Standing(kind) = {}
  BY <1>1 DEF Standing
<1>3. Cardinality({}) = 0 /\ IsFiniteSet({})
  BY FS_EmptySet
<1>4. \A c \in Counters : stats[c] = 0
  BY <1>1
<1>5. StatsFollow
  <2>1. /\ stats["deployments"] = 0 /\ stats["transfers"] = 0 /\ stats["listings"] = 0
        /\ stats["sends"] = 0 /\ stats["mints"] = 0
    BY <1>4 DEF Counters
  <2>2. \A kind : Cardinality(Standing(kind)) = 0
    BY <1>2, <1>3
  <2>3. Cardinality(mint_history) = 0
    BY <1>1, <1>3
  <2>4. QED BY <2>1, <2>2, <2>3 DEF StatsFollow
<1>6. QED BY <1>1, <1>2, <1>3, <1>4, <1>5 DEF StatsInv

\* An operation that changes no counter: it failed, or no operation came.
LEMMA RejectCounts ==
    ASSUME ChainInv, StatsInv, NEW op \in Ops, Reject(op)
    PROVE  StatsInv'
<1>1. /\ Arrives(op, op.kind) /\ ErrorOf(op) # None /\ Record(op, None, ErrorOf(op))
      /\ UNCHANGED <<mintVars, stats>>
  BY DEF Reject
<1>2. \A kind : Standing(kind)' = Standing(kind)
  <2>1. PICK error : error = ErrorOf(op)
    OBVIOUS
  <2>2. error # None /\ Record(op, None, error)
    BY <1>1, <2>1
  <2>3. \A kind : Standing(kind)' =
            Standing(kind) \cup (IF error = None /\ op.kind = kind THEN {Now} ELSE {})
    BY <1>1, <2>2, StandingAfterRecord
  <2>4. QED BY <2>2, <2>3
<1>3. /\ DOMAIN operation_history' = DOMAIN operation_history \cup {Now}
      /\ operation_history'[Now].op = op
      /\ \A s \in DOMAIN operation_history : operation_history'[s] = operation_history[s]
  BY <1>1, RecordFacts
<1>4. \A s \in DOMAIN operation_history' : operation_history'[s].op \in Ops
  BY <1>3 DEF StatsInv
<1>5. QED BY <1>1, <1>2, <1>4, StatsQuiet

LEMMA StatsStep == LedgerInv /\ StatsInv /\ [Next]_vars => StatsInv'
<1> SUFFICES ASSUME LedgerInv, StatsInv, [Next]_vars PROVE StatsInv'
  OBVIOUS
<1>0. ChainInv
  BY DEF LedgerInv
<1>1. CASE UNCHANGED <<operation_history, mintVars, stats>>
  <2>1. operation_history' = operation_history /\ UNCHANGED <<mintVars, stats>>
    BY <1>1
  <2>2. \A kind : Standing(kind)' = Standing(kind)
    BY <2>1 DEF Standing
  <2>3. QED BY <2>1, <2>2, StatsQuiet DEF StatsInv
<1>2. CASE UNCHANGED vars
  BY <1>1, <1>2 DEF vars, opVars
<1>3. ASSUME NEW h \in Hashes, AcceptBlock(h) PROVE StatsInv'
  BY <1>1, <1>3 DEF AcceptBlock, opVars
<1>4. ASSUME NEW op \in Ops, Reject(op) PROVE StatsInv'
  BY <1>0, <1>4, RejectCounts
<1>5. ASSUME NEW op \in Ops, Deploy(op) \/ Mint(op) PROVE StatsInv'
  BY <1>0, <1>5, MintsCount
<1>6. ASSUME NEW op \in Ops, Transfer(op) \/ Discount(op) \/ List(op) \/ Send(op) PROVE StatsInv'
  <2>1. /\ Arrives(op, op.kind) /\ Record(op, None, None) /\ CountAddition(op) /\ UNCHANGED mintVars
        /\ op.kind \notin {"deploy", "mint"}
    BY <1>6 DEF Transfer, Discount, List, Send, Arrives
  <2>2. QED BY <1>0, <2>1, OthersCount
<1>7. ASSUME NEW removed, NEW forced \in {{}, {LastBlue} \ {0}}, Reorg(removed, forced)
      PROVE  StatsInv'
  <2>1. PICK threshold \in Nat :
           /\ RollbackOperations(threshold) /\ RollbackMints(threshold)
           /\ DOMAIN operation_history' = {s \in DOMAIN operation_history : s < threshold}
           /\ \A s \in DOMAIN operation_history' : operation_history'[s] = operation_history[s]
           /\ \A kind : Standing(kind)' = {s \in Standing(kind) : s < threshold}
    BY <1>0, <1>7, ReorgFacts
  <2>2. \A s \in DOMAIN operation_history' :
           s \in DOMAIN operation_history /\ operation_history'[s] = operation_history[s]
    BY <2>1
  <2>3. MintsRecorded
    BY DEF LedgerInv
  <2>4. QED BY <1>0, <2>1, <2>2, <2>3, RemovalCounts
<1>8. QED BY <1>2, <1>3, <1>4, <1>5, <1>6, <1>7 DEF Next

LEMMA StatsAlways == Spec => []StatsInv
BY StatsInit, StatsStep, LedgerAlways, PTL DEF Spec

\* The counters follow the operations that stand, and the counter of mints never
\* falls below the tokens minted, through any blocks, operations and
\* reorganisations: process_removal takes off what the removed operations had added
\* (Sub for Stats never saturates), the premint of a deployment excepted.
THEOREM StatsFollowAlways == Spec => []StatsFollow
<1>1. StatsInv => StatsFollow
  BY DEF StatsInv
<1>2. QED BY <1>1, StatsAlways, PTL

\* The tables were kept for each accepted block.
PastKnown == DOMAIN past = {b.blue : b \in chain_block_scores}

LEMMA PastAlways == Spec => []PastKnown
<1>1. Init => PastKnown
  BY DEF Init, PastKnown, NoEntries
<1>2. PastKnown /\ [Next]_vars => PastKnown'
  <2> SUFFICES ASSUME PastKnown, [Next]_vars PROVE PastKnown'
    OBVIOUS
  <2>1. CASE UNCHANGED <<past, chain_block_scores>>
    BY <2>1 DEF PastKnown
  <2>2. CASE UNCHANGED vars
    BY <2>1, <2>2 DEF vars, modelVars, chainVars
  <2>3. ASSUME NEW h \in Hashes, AcceptBlock(h) PROVE PastKnown'
    <3>1. /\ chain_block_scores' = chain_block_scores \cup {[blue |-> Blue[h], hash |-> h]}
          /\ past' = Put(past, Blue[h], Tables)
      BY <2>3 DEF AcceptBlock
    <3>2. DOMAIN past' = DOMAIN past \cup {Blue[h]}
      BY <3>1 DEF Put
    <3>3. {b.blue : b \in chain_block_scores'} = {b.blue : b \in chain_block_scores} \cup {Blue[h]}
      <4> DEFINE new == [blue |-> Blue[h], hash |-> h]
      <4>1. chain_block_scores' = chain_block_scores \cup {new} /\ new.blue = Blue[h]
        BY <3>1
      <4> HIDE DEF new
      <4>2. QED BY <4>1
    <3>4. QED BY <3>2, <3>3 DEF PastKnown
  <2>4. ASSUME NEW op, NEW token, NEW error, Record(op, token, error) PROVE PastKnown'
    BY <2>1, <2>4 DEF Record, chainVars
  <2>5. ASSUME NEW op \in Ops,
               Reject(op) \/ Deploy(op) \/ Mint(op) \/ Transfer(op) \/ Discount(op) \/ List(op) \/ Send(op)
        PROVE  PastKnown'
    <3>1. \E token, error : Record(op, token, error)
      BY <2>5 DEF Reject, Deploy, Mint, Transfer, Discount, List, Send
    <3>2. QED BY <2>4, <3>1
  <2>6. ASSUME NEW removed, NEW forced, Reorg(removed, forced) PROVE PastKnown'
    <3>1. PICK blue : Rollback(blue, removed)
      BY <2>6 DEF Reorg
    <3>2. /\ chain_block_scores' = chain_block_scores \ {b \in chain_block_scores : b.blue >= blue}
          /\ past' = DelAll(past, {b \in DOMAIN past : b >= blue})
      BY <3>1 DEF Rollback, RollbackChain
    <3>3. DOMAIN past' = {b \in DOMAIN past : ~ (b >= blue)}
      BY <3>2 DEF DelAll
    <3>4. QED BY <3>2, <3>3 DEF PastKnown
  <2>7. QED BY <2>2, <2>3, <2>5, <2>6 DEF Next
<1>3. QED BY <1>1, <1>2, PTL DEF Spec

LEMMA TypesHold == LedgerInv /\ StatsInv /\ PastKnown => TypeOK
<1> SUFFICES ASSUME LedgerInv, StatsInv, PastKnown PROVE TypeOK
  OBVIOUS
<1>1. /\ \A b \in chain_block_scores : b.hash \in Hashes /\ b.blue = Blue[b.hash]
      /\ slot \in 0..PerBlock
  BY DEF LedgerInv, ChainInv, BlocksOK
<1>2. \A s \in DOMAIN operation_history : s \in Nat /\ operation_history[s].op \in Ops
  BY NowAbove DEF LedgerInv, StatsInv
<1>3. \A t \in DOMAIN collection_registry :
         /\ t \in Ticks
         /\ DeployOf(t) \in Ops /\ DeployOf(t).kind = "deploy" /\ DeployOf(t).tick = t
  BY DEF LedgerInv, RegistryRecorded
<1>4. ASSUME NEW m \in mint_history
      PROVE  m.tick \in Ticks /\ m.seq \in Nat \ {0} /\ m.token \in Nat \ {0}
  <2>1. m.tick \in DOMAIN collection_registry
    BY DEF LedgerInv, MintsRecorded
  <2>2. PICK n, token, score, trail : MintsInOrder(m.tick, n, token, score, trail)
    BY <2>1 DEF LedgerInv, MintsRecorded
  <2> DEFINE premint == DeployOf(m.tick).premint
             max == DeployOf(m.tick).max
  <2>3. /\ n \in premint..max /\ \A i \in 1..n : token[i] \in Nat \ {0}
        /\ MintsOf(m.tick) =
              {[tick |-> m.tick, seq |-> i, token |-> token[i], score |-> score[i]] : i \in 1..n}
    BY <2>2 DEF MintsInOrder, Numbered
  <2>4. premint \in Nat /\ max \in Nat
    BY <1>3, <2>1, LedgerAssumption
  <2>5. m \in MintsOf(m.tick)
    BY DEF MintsOf
  <2> HIDE DEF premint, max
  <2>6. PICK i \in 1..n : m.seq = i /\ m.token = token[i]
    BY <2>3, <2>5
  <2>7. n \in Nat /\ i \in Nat \ {0}
    BY <2>3, <2>4
  <2>8. m.seq \in Nat \ {0} /\ m.token \in Nat \ {0}
    BY <2>3, <2>6, <2>7
  <2>9. QED BY <1>3, <2>1, <2>8
<1>5. DOMAIN stats = Counters /\ \A c \in Counters : stats[c] \in Nat
  BY DEF StatsInv
<1>6. QED BY <1>1, <1>2, <1>3, <1>4, <1>5 DEF TypeOK, PastKnown

\* The types of the tables: accepted blocks carry their own blue score, operations and
\* registrations are those of the node, mints are numbered from one, counters never
\* go below zero.
THEOREM LedgerTypes == Spec => []TypeOK
BY LedgerAlways, StatsAlways, PastAlways, TypesHold, PTL

-----------------------------------------------------------------------------
(* A reorganisation is a replay: the tables as they were when only the      *)
(* operations before a score were recorded can be read off the present ones. *)

\* Tables are functions, and rows have the fields of their structs.
TablesShaped ==
    /\ IsFcn(operation_history) /\ IsFcn(tx_id_to_opscore) /\ IsFcn(collection_registry)
    /\ IsFcn(alloc) /\ IsFcn(ownership_history) /\ IsFcn(current_ownership)
    /\ IsFcn(address_holdings) /\ IsFcn(listings)
    /\ \A key \in DOMAIN current_ownership :
          current_ownership[key] = [owner |-> current_ownership[key].owner,
                                    mod_tx_score |-> current_ownership[key].mod_tx_score]
    /\ \A key \in DOMAIN listings :
          listings[key] = [seller |-> listings[key].seller,
                           listing_tx_id |-> listings[key].listing_tx_id,
                           op_score |-> listings[key].op_score]

\* A listing that stands and that no standing send spends is in force.
UnspentListed ==
    \A l \in Standing("list") :
        (\A s \in Standing("send") : SpentBy(s) # l) =>
            KeyOf(l) \in DOMAIN listings /\ listings[KeyOf(l)].op_score = l

\* The records and transactions below a score.
OperationsBefore(score) ==
    [s \in {x \in DOMAIN operation_history : x < score} |-> operation_history[s]]
TransactionsBefore(score) ==
    [tx \in {x \in DOMAIN tx_id_to_opscore : tx_id_to_opscore[x] < score} |-> tx_id_to_opscore[tx]]

\* The collections deployed below a score.
RegistryBefore(score) ==
    [t \in {x \in DOMAIN collection_registry : collection_registry[x].score < score} |->
        collection_registry[t]]
DeploymentsBefore(score) == {d \in collection_deployments : d.score < score}

\* The mints below a score, and the allocators without the draws from there on.
MintsBefore(score) == {m \in mint_history : m.score < score}
DrawnFrom(t, score) ==
    {m \in mint_history : m.tick = t /\ m.score >= score /\ m.token > PremintOf(t)}
AllocBefore(score) == [t \in Ticks |-> UndoMints(alloc[t], DrawnFrom(t, score))]

\* The changes of hands below a score, and the owners a history of changes names.
ChangesBefore(score) == {c \in ownership_changes : c.score < score}
HistoryBefore(score) ==
    [k \in {x \in DOMAIN ownership_history : x[3] < score} |-> ownership_history[k]]
KeysIn(history) == {<<k[1], k[2]>> : k \in DOMAIN history}
OwnerIn(history, key) == history[<<key[1], key[2], LastChange(history, key)>>]
OwnersIn(history) ==
    [key \in KeysIn(history) |->
        [owner |-> OwnerIn(history, key), mod_tx_score |-> LastChange(history, key)]]
HoldingsIn(history) ==
    [h \in {<<OwnerIn(history, key), key[1], key[2]>> : key \in KeysIn(history)} |->
        LastChange(history, <<h[2], h[3]>>)]

\* The listings that stand below a score and are not spent below it.
UnspentBefore(score) ==
    {l \in Standing("list") :
        l < score /\ \A s \in Standing("send") : s < score => SpentBy(s) # l}
ListedBefore(score) == {KeyOf(l) : l \in UnspentBefore(score)}
ListingsBefore(score) ==
    [key \in ListedBefore(score) |->
        LET l == CHOOSE x \in UnspentBefore(score) : KeyOf(x) = key
        IN  [seller |-> operation_history[l].op.sender,
             listing_tx_id |-> operation_history[l].op.tx, op_score |-> l]]

\* The discounts granted below a score.
DiscountsBefore(score) == {v \in vip : v.score < score}

\* The tables as they were before the operations from a score on.
TablesBefore(score) ==
    [operations |-> <<OperationsBefore(score), TransactionsBefore(score)>>,
     deployments |-> <<RegistryBefore(score), DeploymentsBefore(score)>>,
     mints |-> <<MintsBefore(score), AllocBefore(score)>>,
     ownership |-> <<ChangesBefore(score), HistoryBefore(score),
                     OwnersIn(HistoryBefore(score)), HoldingsIn(HistoryBefore(score))>>,
     listings |-> <<ListingsBefore(score), ListedBefore(score)>>,
     vip |-> DiscountsBefore(score)]

\* Each block keeps the tables as they were before its first operation.
PastReplayed == \A b \in DOMAIN past : past[b] = TablesBefore(TxScore(b, 0))

-----------------------------------------------------------------------------
(* The tables are functions.                                               *)

LEMMA TableFcns ==
    /\ IsFcn(NoEntries)
    /\ \A m, k, v : IsFcn(Put(m, k, v))
    /\ \A m, keys, v : IsFcn(PutAll(m, keys, v))
    /\ \A m, keys : IsFcn(DelAll(m, keys)) /\ IsFcn(Del(m, keys))
    /\ \A m, keyOf, valueOf : IsFcn(Restore(m, keyOf, valueOf))
BY DEF IsFcn, NoEntries, Put, PutAll, DelAll, Del, Restore

\* What an operation does to the records, of whatever kind it is.
LEMMA RecordShape ==
    ASSUME NEW op, NEW token, NEW error, Record(op, token, error)
    PROVE  IsFcn(operation_history') /\ IsFcn(tx_id_to_opscore')
BY TableFcns DEF Record

\* Owners keep their shape when tokens get an owner.
OwnersShaped ==
    /\ IsFcn(ownership_history) /\ IsFcn(current_ownership) /\ IsFcn(address_holdings)
    /\ \A key \in DOMAIN current_ownership :
          current_ownership[key] = [owner |-> current_ownership[key].owner,
                                    mod_tx_score |-> current_ownership[key].mod_tx_score]

LEMMA SetOwnerShape ==
    ASSUME OwnersShaped, NEW tick, NEW seqs, NEW from, NEW to, SetOwner(tick, seqs, from, to)
    PROVE  OwnersShaped'
<1>1. IsFcn(ownership_history') /\ IsFcn(current_ownership') /\ IsFcn(address_holdings')
  BY TableFcns DEF SetOwner
<1> DEFINE keys == {<<tick, t>> : t \in DOMAIN seqs}
           row == [owner |-> to, mod_tx_score |-> Now]
<1>2. /\ DOMAIN current_ownership' = DOMAIN current_ownership \cup keys
      /\ \A key \in DOMAIN current_ownership' :
            current_ownership'[key] = IF key \in keys THEN row ELSE current_ownership[key]
  <2>1. current_ownership' = PutAll(current_ownership, keys, row)
    BY DEF SetOwner
  <2> HIDE DEF keys, row
  <2>2. QED BY <2>1 DEF PutAll
<1>3. ASSUME NEW key \in DOMAIN current_ownership'
      PROVE  current_ownership'[key] = [owner |-> current_ownership'[key].owner,
                                        mod_tx_score |-> current_ownership'[key].mod_tx_score]
  <2>1. row = [owner |-> row.owner, mod_tx_score |-> row.mod_tx_score]
    OBVIOUS
  <2>2. CASE key \in keys
    <3> HIDE DEF keys, row
    <3> QED BY <1>2, <2>1, <2>2
  <2>3. CASE key \notin keys
    <3> HIDE DEF keys, row
    <3>1. current_ownership'[key] = current_ownership[key] /\ key \in DOMAIN current_ownership
      BY <1>2, <2>3
    <3>2. QED BY <3>1 DEF OwnersShaped
  <2>4. QED BY <2>2, <2>3
<1>4. QED BY <1>1, <1>3 DEF OwnersShaped

\* Listings keep their shape.
ListingsShaped ==
    /\ IsFcn(listings)
    /\ \A key \in DOMAIN listings :
          listings[key] = [seller |-> listings[key].seller,
                           listing_tx_id |-> listings[key].listing_tx_id,
                           op_score |-> listings[key].op_score]

LEMMA ReorgShape ==
    ASSUME ChainInv, ListingInv, OwnersShaped, ListingsShaped, NEW threshold \in Nat,
           RollbackListings(threshold), RollbackOwnership(threshold)
    PROVE  OwnersShaped' /\ ListingsShaped'
<1>1. OwnersShaped'
  <2> DEFINE gone == {k \in ownership_changes : k.score >= threshold}
             affected == {<<k.tick, k.token>> : k \in gone}
             rows     == {<<k.tick, k.token, k.score>> : k \in gone}
             history  == DelAll(ownership_history, rows)
             owned    == {key \in affected : \E k \in DOMAIN history : <<k[1], k[2]>> = key}
             since(key) == LastChange(history, key)
             owner(key) == history[<<key[1], key[2], since(key)>>]
             kept == (DOMAIN current_ownership \ affected) \cup owned
  <2>1. /\ ownership_history' = history
        /\ current_ownership' =
              [key \in kept |-> IF key \in owned
                                THEN [owner |-> owner(key), mod_tx_score |-> since(key)]
                                ELSE current_ownership[key]]
        /\ IsFcn(address_holdings')
    BY DEF RollbackOwnership, IsFcn
  <2>2. IsFcn(ownership_history')
    <3> HIDE DEF rows
    <3> QED BY <2>1, TableFcns
  <2>3. IsFcn(current_ownership')
    <3> HIDE DEF kept, owned, owner, since
    <3> QED BY <2>1 DEF IsFcn
  <2>4. ASSUME NEW key \in DOMAIN current_ownership'
        PROVE  current_ownership'[key] = [owner |-> current_ownership'[key].owner,
                                          mod_tx_score |-> current_ownership'[key].mod_tx_score]
    <3> HIDE DEF owned, owner, since
    <3>2. key \in kept /\ current_ownership'[key] =
             IF key \in owned THEN [owner |-> owner(key), mod_tx_score |-> since(key)]
             ELSE current_ownership[key]
      <4> HIDE DEF kept
      <4> QED BY <2>1
    <3>3. key \notin owned => key \in DOMAIN current_ownership
      BY <3>2
    <3>4. QED BY <3>2, <3>3 DEF OwnersShaped
  <2>5. QED BY <2>1, <2>2, <2>3, <2>4 DEF OwnersShaped
<1>2. ListingsShaped'
  <2>1. IsFcn(listings')
    BY TableFcns DEF RollbackListings
  <2>2. ASSUME NEW key \in DOMAIN listings'
        PROVE  listings'[key] = [seller |-> listings'[key].seller,
                                 listing_tx_id |-> listings'[key].listing_tx_id,
                                 op_score |-> listings'[key].op_score]
    <3>1. \/ \E s \in RestoringSends(threshold) : listings'[key] = RestoredListing(s)
          \/ key \in DOMAIN listings /\ listings'[key] = listings[key]
      BY RestoredTables
    <3>2. ASSUME NEW s, listings'[key] = RestoredListing(s)
          PROVE  listings'[key] = [seller |-> listings'[key].seller,
                                   listing_tx_id |-> listings'[key].listing_tx_id,
                                   op_score |-> listings'[key].op_score]
      BY <3>2 DEF RestoredListing
    <3>3. QED BY <3>1, <3>2 DEF ListingsShaped
  <2>3. QED BY <2>1, <2>2 DEF ListingsShaped
<1>3. QED BY <1>1, <1>2

LEMMA ShapeInit == Init => TablesShaped
BY TableFcns DEF Init, TablesShaped, IsFcn, NoEntries

LEMMA ShapeParts ==
    TablesShaped <=>
        /\ IsFcn(operation_history) /\ IsFcn(tx_id_to_opscore) /\ IsFcn(collection_registry)
        /\ IsFcn(alloc) /\ OwnersShaped /\ ListingsShaped
BY DEF TablesShaped, OwnersShaped, ListingsShaped

LEMMA ShapeStep == LedgerInv /\ TablesShaped /\ [Next]_vars => TablesShaped'
<1> SUFFICES ASSUME LedgerInv, TablesShaped, [Next]_vars PROVE TablesShaped'
  OBVIOUS
<1> DEFINE Records == IsFcn(operation_history') /\ IsFcn(tx_id_to_opscore')
<1>0. /\ IsFcn(operation_history) /\ IsFcn(tx_id_to_opscore) /\ IsFcn(collection_registry)
      /\ IsFcn(alloc) /\ OwnersShaped /\ ListingsShaped
  BY ShapeParts
<1>1. ASSUME UNCHANGED ownVars PROVE OwnersShaped'
  BY <1>0, <1>1 DEF ownVars, OwnersShaped
<1>2. ASSUME UNCHANGED listingVars PROVE ListingsShaped'
  BY <1>0, <1>2 DEF listingVars, ListingsShaped
<1>3. ASSUME UNCHANGED deployVars PROVE IsFcn(collection_registry')
  BY <1>0, <1>3 DEF deployVars
<1>4. ASSUME UNCHANGED mintVars PROVE IsFcn(alloc')
  BY <1>0, <1>4 DEF mintVars
<1>5. ASSUME Records, IsFcn(collection_registry'), IsFcn(alloc'), OwnersShaped', ListingsShaped'
      PROVE  TablesShaped'
  BY <1>5 DEF TablesShaped, OwnersShaped, ListingsShaped
<1>6. ASSUME NEW op, NEW token, NEW error, Record(op, token, error) PROVE Records
  BY <1>6, RecordShape
<1>7. CASE UNCHANGED vars
  BY <1>0, <1>1, <1>2, <1>3, <1>4, <1>5, <1>7 DEF vars, opVars
<1>8. ASSUME NEW h \in Hashes, AcceptBlock(h) PROVE TablesShaped'
  BY <1>0, <1>1, <1>2, <1>3, <1>4, <1>5, <1>8 DEF AcceptBlock, opVars
<1> HIDE DEF Records
<1>9. ASSUME NEW op \in Ops, Reject(op) PROVE TablesShaped'
  BY <1>1, <1>2, <1>3, <1>4, <1>5, <1>6, <1>9 DEF Reject
<1>10. ASSUME NEW op \in Ops, Deploy(op) PROVE TablesShaped'
  <2>1. IsFcn(collection_registry') /\ IsFcn(alloc') /\ ListingsShaped' /\ Records
    BY <1>0, <1>2, <1>6, <1>10, TableFcns DEF Deploy
  <2>2. \E seqs : SetOwner(op.tick, seqs, {}, op.deployer)
    BY <1>10 DEF Deploy
  <2>3. OwnersShaped'
    BY <1>0, <2>2, SetOwnerShape
  <2>4. QED BY <1>5, <2>1, <2>3
<1>11. ASSUME NEW op \in Ops, Mint(op) PROVE TablesShaped'
  <2>1. IsFcn(collection_registry') /\ ListingsShaped' /\ Records
    BY <1>2, <1>3, <1>6, <1>11 DEF Mint
  <2>2. IsFcn(alloc')
    BY <1>0, <1>11 DEF Mint, IsFcn
  <2>3. \E seqs : SetOwner(op.tick, seqs, {}, op.to)
    BY <1>11 DEF Mint
  <2>4. OwnersShaped'
    BY <1>0, <2>3, SetOwnerShape
  <2>5. QED BY <1>5, <2>1, <2>2, <2>4
<1>12. ASSUME NEW op \in Ops, Transfer(op) PROVE TablesShaped'
  <2>1. IsFcn(collection_registry') /\ IsFcn(alloc') /\ ListingsShaped' /\ Records
    BY <1>2, <1>3, <1>4, <1>6, <1>12 DEF Transfer
  <2>2. \E seqs, from : SetOwner(op.tick, seqs, from, op.to)
    BY <1>12 DEF Transfer
  <2>3. OwnersShaped'
    BY <1>0, <2>2, SetOwnerShape
  <2>4. QED BY <1>5, <2>1, <2>3
<1>13. ASSUME NEW op \in Ops, Discount(op) PROVE TablesShaped'
  BY <1>1, <1>2, <1>3, <1>4, <1>5, <1>6, <1>13 DEF Discount
<1>14. ASSUME NEW op \in Ops, List(op) PROVE TablesShaped'
  <2>1. IsFcn(collection_registry') /\ IsFcn(alloc') /\ OwnersShaped' /\ Records
    BY <1>1, <1>3, <1>4, <1>6, <1>14 DEF List
  <2> DEFINE key == <<op.tick, op.token>>
             row == [seller |-> op.sender, listing_tx_id |-> op.tx, op_score |-> Now]
  <2>2. listings' = Put(listings, key, row)
    BY <1>14 DEF List
  <2>3. row = [seller |-> row.seller, listing_tx_id |-> row.listing_tx_id, op_score |-> row.op_score]
    OBVIOUS
  <2> HIDE DEF key, row
  <2>4. ListingsShaped'
    <3>1. IsFcn(listings')
      BY <2>2, TableFcns
    <3>2. \A k \in DOMAIN listings' : listings'[k] = IF k = key THEN row ELSE listings[k]
      BY <2>2 DEF Put
    <3>3. \A k \in DOMAIN listings' : k = key \/ k \in DOMAIN listings
      BY <2>2 DEF Put
    <3>4. QED BY <1>0, <2>3, <3>1, <3>2, <3>3 DEF ListingsShaped
  <2>5. QED BY <1>5, <2>1, <2>4
<1>15. ASSUME NEW op \in Ops, Send(op) PROVE TablesShaped'
  <2>1. IsFcn(collection_registry') /\ IsFcn(alloc') /\ Records
    BY <1>3, <1>4, <1>6, <1>15 DEF Send
  <2>2. UNCHANGED ownVars \/ \E seqs, from : SetOwner(op.tick, seqs, from, op.buyer)
    BY <1>15 DEF Send
  <2>3. OwnersShaped'
    BY <1>0, <1>1, <2>2, SetOwnerShape
  <2>4. PICK key : listings' = Del(listings, key)
    BY <1>15 DEF Send
  <2>5. ListingsShaped'
    <3>1. IsFcn(listings')
      BY <2>4, TableFcns
    <3>2. \A k \in DOMAIN listings' : k \in DOMAIN listings /\ listings'[k] = listings[k]
      BY <2>4 DEF Del, DelAll
    <3>3. QED BY <1>0, <3>1, <3>2 DEF ListingsShaped
  <2>6. QED BY <1>5, <2>1, <2>3, <2>5
<1>16. ASSUME NEW removed, NEW forced \in {{}, {LastBlue} \ {0}}, Reorg(removed, forced)
       PROVE  TablesShaped'
  <2>1. PICK threshold \in Nat :
           /\ RollbackOperations(threshold) /\ RollbackDeployments(threshold)
           /\ RollbackListings(threshold) /\ RollbackMints(threshold)
           /\ RollbackOwnership(threshold)
    BY <1>16, ReorgFacts DEF LedgerInv
  <2>2. Records /\ IsFcn(collection_registry')
    BY <2>1, TableFcns DEF RollbackOperations, RollbackDeployments, Records
  <2>3. IsFcn(alloc')
    BY <2>1 DEF RollbackMints, IsFcn
  <2>4. OwnersShaped' /\ ListingsShaped'
    BY <1>0, <2>1, ReorgShape DEF LedgerInv
  <2>5. QED BY <1>5, <2>2, <2>3, <2>4
<1>17. QED
  BY <1>7, <1>8, <1>9, <1>10, <1>11, <1>12, <1>13, <1>14, <1>15, <1>16 DEF Next

-----------------------------------------------------------------------------
(* Every listing that stands and is not spent is in force.                   *)

\* A listing that is not spent after an operation was not spent before it.
LEMMA UnspentEarlier ==
    ASSUME ChainInv, SendsBacked, UnspentListed, NEW op, NEW token, NEW error,
           Arrives(op, op.kind), Record(op, token, error),
           NEW l \in Standing("list"), \A s \in Standing("send")' : SpentBy(s)' # l
    PROVE  /\ KeyOf(l)' = KeyOf(l)
           /\ KeyOf(l) \in DOMAIN listings /\ listings[KeyOf(l)].op_score = l
<1>1. /\ \A s \in Standing("send") : SpentBy(s)' = SpentBy(s)
      /\ \A s \in DOMAIN operation_history : KeyOf(s)' = KeyOf(s)
  BY RecordKeeps
<1>2. Standing("send") \subseteq Standing("send")' /\ l \in DOMAIN operation_history
  BY StandingAfterRecord
<1>3. \A s \in Standing("send") : SpentBy(s) # l
  BY <1>1, <1>2
<1>4. QED BY <1>1, <1>2, <1>3 DEF UnspentListed

LEMMA UnspentQuiet ==
    ASSUME ChainInv, SendsBacked, UnspentListed, NEW op, NEW token, NEW error,
           Arrives(op, op.kind), Record(op, token, error), UNCHANGED listings,
           error # None \/ op.kind # "list"
    PROVE  UnspentListed'
<1>1. Standing("list")' = Standing("list")
  <2>1. Standing("list")' =
           Standing("list") \cup (IF error = None /\ op.kind = "list" THEN {Now} ELSE {})
    BY StandingAfterRecord
  <2>2. QED BY <2>1
<1>2. QED BY <1>1, UnspentEarlier DEF UnspentListed

LEMMA UnspentList ==
    ASSUME ChainInv, SendsBacked, UnspentListed, NEW op, List(op)
    PROVE  UnspentListed'
<1> DEFINE key == <<op.tick, op.token>>
           row == [seller |-> op.sender, listing_tx_id |-> op.tx, op_score |-> Now]
<1>1. /\ Arrives(op, op.kind) /\ op.kind = "list" /\ Record(op, None, None)
      /\ listings' = Put(listings, key, row) /\ ListError(op) = None
  BY DEF List, Arrives
<1>2. key \notin DOMAIN listings
  BY <1>1, LedgerAssumption DEF ListError, Listed, CtxValidationError
<1>3. row.op_score = Now
  OBVIOUS
<1>0. PICK now : now = Now
  OBVIOUS
<1>4. KeyOf(now)' = key
  <2>1. operation_history'[now].op = op
    BY <1>0, <1>1, RecordFacts
  <2>2. QED BY <2>1 DEF KeyOf
<1> HIDE DEF key, row
<1>5. /\ \A k \in DOMAIN listings : k \in DOMAIN listings' /\ listings'[k] = listings[k]
      /\ key \in DOMAIN listings' /\ listings'[key] = row
  BY <1>1, <1>2 DEF Put
<1>6. Standing("list")' = Standing("list") \cup {now}
  <2>1. Standing("list")' =
           Standing("list") \cup (IF None = None /\ op.kind = "list" THEN {Now} ELSE {})
    BY <1>1, StandingAfterRecord
  <2>2. QED BY <1>0, <1>1, <2>1
<1>7. ASSUME NEW l \in Standing("list"), \A s \in Standing("send")' : SpentBy(s)' # l
      PROVE  KeyOf(l)' \in DOMAIN listings' /\ listings'[KeyOf(l)'].op_score = l
  BY <1>1, <1>5, <1>7, UnspentEarlier
<1>8. KeyOf(now)' \in DOMAIN listings' /\ listings'[KeyOf(now)'].op_score = now
  BY <1>0, <1>3, <1>4, <1>5
<1>9. QED BY <1>6, <1>7, <1>8 DEF UnspentListed

LEMMA UnspentSend ==
    ASSUME ChainInv, ListingInv, UnspentListed, NEW op, Send(op)
    PROVE  UnspentListed'
<1> DEFINE key == <<op.tick, op.token>>
<1>1. /\ Arrives(op, op.kind) /\ op.kind = "send" /\ Record(op, None, None)
      /\ listings' = Del(listings, key) /\ SendError(op) = None
  BY DEF Send, Arrives
<1>2. key \in DOMAIN listings /\ op.listing_utxo_txid = listings[key].listing_tx_id
  BY <1>1, LedgerAssumption DEF SendError, Listed, CtxValidationError
<1>3. /\ listings[key].op_score \in DOMAIN operation_history
      /\ operation_history[listings[key].op_score].op.tx = listings[key].listing_tx_id
  BY <1>2 DEF ListingInv, ListingsBacked
<1>4. /\ listings[key].listing_tx_id \in DOMAIN tx_id_to_opscore
      /\ tx_id_to_opscore[listings[key].listing_tx_id] = listings[key].op_score
  BY <1>3 DEF ChainInv, OperationsIndexed
<1>5. operation_history'[Now].op = op
      /\ tx_id_to_opscore'[op.listing_utxo_txid] = tx_id_to_opscore[op.listing_utxo_txid]
  BY <1>1, <1>2, <1>4, RecordFacts
<1>0. PICK now : now = Now
  OBVIOUS
<1>6. SpentBy(now)' = listings[key].op_score
  <2>1. operation_history'[now].op = op
    BY <1>0, <1>5
  <2>2. QED BY <1>2, <1>4, <1>5, <2>1 DEF SpentBy
<1> HIDE DEF key
<1>7. Standing("list")' = Standing("list") /\ now \in Standing("send")'
  <2>1. \A kind : Standing(kind)' =
           Standing(kind) \cup (IF None = None /\ op.kind = kind THEN {Now} ELSE {})
    BY <1>1, StandingAfterRecord
  <2>2. QED BY <1>0, <1>1, <2>1
<1>8. \A k \in DOMAIN listings : k # key => k \in DOMAIN listings' /\ listings'[k] = listings[k]
  BY <1>1 DEF Del, DelAll
<1>9. ASSUME NEW l \in Standing("list"), \A s \in Standing("send")' : SpentBy(s)' # l
      PROVE  KeyOf(l)' \in DOMAIN listings' /\ listings'[KeyOf(l)'].op_score = l
  <2>1. KeyOf(l)' = KeyOf(l) /\ KeyOf(l) \in DOMAIN listings /\ listings[KeyOf(l)].op_score = l
    BY <1>1, <1>9, UnspentEarlier DEF ListingInv
  <2>2. KeyOf(l) # key
    BY <1>6, <1>7, <1>9, <2>1
  <2>3. QED BY <1>8, <2>1, <2>2
<1>10. QED BY <1>7, <1>9 DEF UnspentListed

\* A reorganisation leaves the listings that stand, and the sends that spend them.
LEMMA ReorgStanding ==
    ASSUME ChainInv, SendsBacked, NEW threshold \in Nat,
           DOMAIN operation_history' = {s \in DOMAIN operation_history : s < threshold},
           \A s \in DOMAIN operation_history' : operation_history'[s] = operation_history[s],
           DOMAIN tx_id_to_opscore' =
               {x \in DOMAIN tx_id_to_opscore : tx_id_to_opscore[x] < threshold},
           \A x \in DOMAIN tx_id_to_opscore' : tx_id_to_opscore'[x] = tx_id_to_opscore[x]
    PROVE  /\ \A kind : Standing(kind)' = {s \in Standing(kind) : s < threshold}
           /\ \A s \in DOMAIN operation_history' : KeyOf(s)' = KeyOf(s)
           /\ \A s \in Standing("send") : s < threshold => SpentBy(s)' = SpentBy(s)
<1>1. \A kind : Standing(kind)' = {s \in Standing(kind) : s < threshold}
  BY DEF Standing
<1>2. \A s \in DOMAIN operation_history' : KeyOf(s)' = KeyOf(s)
  BY DEF KeyOf
<1>3. ASSUME NEW s \in Standing("send"), s < threshold PROVE SpentBy(s)' = SpentBy(s)
  <2>1. s \in DOMAIN operation_history' /\ operation_history'[s] = operation_history[s]
    BY <1>3 DEF Standing
  <2>2. operation_history[s].op.listing_utxo_txid \in DOMAIN tx_id_to_opscore
        /\ SpentBy(s) < s /\ SpentBy(s) \in Standing("list")
    BY DEF SendsBacked
  <2>3. s \in Nat /\ SpentBy(s) \in Nat
    BY <2>2, StandingBelow
  <2>4. SpentBy(s) < threshold
    BY <1>3, <2>2, <2>3
  <2>5. operation_history[s].op.listing_utxo_txid \in DOMAIN tx_id_to_opscore'
    BY <2>2, <2>4 DEF SpentBy
  <2>6. QED BY <2>1, <2>5 DEF SpentBy
<1>4. QED BY <1>1, <1>2, <1>3

\* The listing restored for a removed send, or left in place, is the one that stands.
LEMMA UnspentReorg ==
    ASSUME ChainInv, ListingInv, UnspentListed, NEW threshold \in Nat,
           RollbackListings(threshold),
           DOMAIN operation_history' = {s \in DOMAIN operation_history : s < threshold},
           \A s \in DOMAIN operation_history' : operation_history'[s] = operation_history[s],
           DOMAIN tx_id_to_opscore' =
               {x \in DOMAIN tx_id_to_opscore : tx_id_to_opscore[x] < threshold},
           \A x \in DOMAIN tx_id_to_opscore' : tx_id_to_opscore'[x] = tx_id_to_opscore[x]
    PROVE  UnspentListed'
<1>1. /\ \A kind : Standing(kind)' = {s \in Standing(kind) : s < threshold}
      /\ \A s \in DOMAIN operation_history' : KeyOf(s)' = KeyOf(s)
      /\ \A s \in Standing("send") : s < threshold => SpentBy(s)' = SpentBy(s)
  BY ReorgStanding DEF ListingInv
<1>2. \A kind : \A s \in Standing(kind) : s \in DOMAIN operation_history /\ s \in Nat
  BY StandingBelow
<1>3. SUFFICES ASSUME NEW l \in Standing("list"), l < threshold,
                      \A s \in Standing("send")' : SpentBy(s)' # l
               PROVE  KeyOf(l)' \in DOMAIN listings' /\ listings'[KeyOf(l)'].op_score = l
  BY <1>1 DEF UnspentListed
<1>4. KeyOf(l)' = KeyOf(l)
  BY <1>1, <1>2, <1>3
<1>5. CASE \E s \in Standing("send") : SpentBy(s) = l
  <2>1. PICK s \in Standing("send") : SpentBy(s) = l
    BY <1>5
  <2>2. ~ (s < threshold) /\ s \in Nat
    BY <1>1, <1>2, <1>3, <2>1
  <2>3. s \in RestoringSends(threshold)
    BY <1>3, <2>1, <2>2, RestoringSendsAre
  <2>4. KeyOf(l) = KeyOf(s)
    BY <2>1 DEF ListingInv, SendsBacked
  <2>5. RestoredListing(s).op_score = l
    BY <2>1 DEF RestoredListing, SpentBy
  <2>6. QED BY <1>4, <2>3, <2>4, <2>5, RestoredTables
<1>6. CASE \A s \in Standing("send") : SpentBy(s) # l
  BY <1>3, <1>4, <1>6, RestoredTables DEF UnspentListed
<1>7. QED BY <1>5, <1>6

LEMMA UnspentStep == LedgerInv /\ UnspentListed /\ [Next]_vars => UnspentListed'
<1> SUFFICES ASSUME LedgerInv, UnspentListed, [Next]_vars PROVE UnspentListed'
  OBVIOUS
<1>0. ChainInv /\ ListingInv /\ SendsBacked
  BY DEF LedgerInv, ListingInv
<1>1. ASSUME UNCHANGED <<operation_history, tx_id_to_opscore, listings>> PROVE UnspentListed'
  BY <1>1 DEF UnspentListed, Standing, SpentBy, KeyOf
<1>2. CASE UNCHANGED vars
  BY <1>1, <1>2 DEF vars, opVars, listingVars
<1>3. ASSUME NEW h \in Hashes, AcceptBlock(h) PROVE UnspentListed'
  BY <1>1, <1>3 DEF AcceptBlock, opVars, listingVars
<1>4. ASSUME NEW op \in Ops, Reject(op) PROVE UnspentListed'
  <2>1. /\ Arrives(op, op.kind) /\ Record(op, None, ErrorOf(op)) /\ ErrorOf(op) # None
        /\ UNCHANGED listings
    BY <1>4 DEF Reject, listingVars
  <2>2. QED BY <1>0, <2>1, UnspentQuiet
<1>5. ASSUME NEW op \in Ops, Deploy(op) \/ Mint(op) \/ Transfer(op) \/ Discount(op)
      PROVE  UnspentListed'
  <2>1. /\ Arrives(op, op.kind) /\ op.kind # "list" /\ UNCHANGED listings
        /\ \E token : Record(op, token, None)
    BY <1>5 DEF Deploy, Mint, Transfer, Discount, Arrives, listingVars
  <2>2. QED BY <1>0, <2>1, UnspentQuiet
<1>6. ASSUME NEW op \in Ops, List(op) PROVE UnspentListed'
  BY <1>0, <1>6, UnspentList
<1>7. ASSUME NEW op \in Ops, Send(op) PROVE UnspentListed'
  BY <1>0, <1>7, UnspentSend
<1>8. ASSUME NEW removed, NEW forced \in {{}, {LastBlue} \ {0}}, Reorg(removed, forced)
      PROVE  UnspentListed'
  <2>1. PICK threshold \in Nat :
           /\ RollbackListings(threshold)
           /\ DOMAIN operation_history' = {s \in DOMAIN operation_history : s < threshold}
           /\ \A s \in DOMAIN operation_history' : operation_history'[s] = operation_history[s]
           /\ DOMAIN tx_id_to_opscore' =
                  {x \in DOMAIN tx_id_to_opscore : tx_id_to_opscore[x] < threshold}
           /\ \A x \in DOMAIN tx_id_to_opscore' : tx_id_to_opscore'[x] = tx_id_to_opscore[x]
    BY <1>0, <1>8, ReorgFacts
  <2>2. QED BY <1>0, <2>1, UnspentReorg
<1>9. QED BY <1>2, <1>3, <1>4, <1>5, <1>6, <1>7, <1>8 DEF Next

-----------------------------------------------------------------------------
(* The tables before a score above all records are the tables as they are.   *)

\* Nothing is drawn or undone when no mint is taken back.
LEMMA NoneUndone == \A a : UndoMints(a, {}) = a
<1> SUFFICES ASSUME NEW a PROVE UndoMints(a, {}) = a
  OBVIOUS
<1> DEFINE row == [i \in {} |-> a]
           trail == [i \in {0} |-> a]
<1>1. 1..0 = {} /\ trail[0] = a /\ 0 \in Nat
  OBVIOUS
<1>2. Retraced(0, row, trail, a, {})
  <2> HIDE DEF row, trail
  <2> QED BY <1>1 DEF Retraced
<1> HIDE DEF row, trail
<1>3. QED BY <1>1, <1>2, UndoMintsIs

\* Every row of every table belongs to a recorded operation.
LEMMA RowsRecorded ==
    ASSUME LedgerInv
    PROVE  /\ \A x \in DOMAIN tx_id_to_opscore : tx_id_to_opscore[x] \in DOMAIN operation_history
           /\ \A t \in DOMAIN collection_registry :
                 collection_registry[t].score \in DOMAIN operation_history
           /\ \A d \in collection_deployments : d.score \in DOMAIN operation_history
           /\ \A m \in mint_history : m.score \in DOMAIN operation_history
           /\ \A c \in ownership_changes : c.score \in DOMAIN operation_history
           /\ \A k \in DOMAIN ownership_history : k[3] \in DOMAIN operation_history
           /\ \A v \in vip : v.score \in DOMAIN operation_history
           /\ \A s \in DOMAIN operation_history : s \in Nat /\ s < Now
           /\ Now \in Nat
<1>1. Now \in Nat /\ \A s \in DOMAIN operation_history : s \in Nat /\ s < Now
  BY NowAbove DEF LedgerInv
<1>2. \A x \in DOMAIN tx_id_to_opscore : tx_id_to_opscore[x] \in DOMAIN operation_history
  BY DEF LedgerInv, ChainInv, OperationsIndexed
<1>3. \A t \in DOMAIN collection_registry : collection_registry[t].score \in DOMAIN operation_history
  BY DEF LedgerInv, RegistryRecorded
<1>4. \A d \in collection_deployments : d.score \in DOMAIN operation_history
  BY DEF LedgerInv, RegistryRecorded
<1>5. \A k \in DOMAIN ownership_history : k[3] \in DOMAIN operation_history
  BY DEF LedgerInv, HistoryRecorded
<1>6. ASSUME NEW c \in ownership_changes PROVE c.score \in DOMAIN operation_history
  <2>1. PICK k : k = <<c.tick, c.token, c.score>>
    OBVIOUS
  <2>2. k \in DOMAIN ownership_history /\ k[3] = c.score
    BY <2>1 DEF LedgerInv, HistoryRecorded
  <2>3. QED BY <1>5, <2>2
<1>7. ASSUME NEW m \in mint_history PROVE m.score \in DOMAIN operation_history
  <2>1. PICK c : c = [score |-> m.score, tick |-> m.tick, token |-> m.token, seq |-> m.seq]
    OBVIOUS
  <2>2. c \in ownership_changes /\ c.score = m.score
    BY <2>1 DEF LedgerInv, MintsRecorded
  <2>3. QED BY <1>6, <2>2
<1>8. ASSUME NEW v \in vip PROVE v.score \in DOMAIN operation_history
  <2>1. PICK s \in Standing("discount") : v = Granted(s)
    BY StandIsGranted DEF LedgerInv, DiscountInv
  <2>2. v.score = s
    BY <2>1 DEF Granted
  <2>3. QED BY <2>2 DEF Standing
<1>9. QED BY <1>1, <1>2, <1>3, <1>4, <1>5, <1>6, <1>7, <1>8

\* Owners and holdings are what the history says.
LEMMA OwnersAreIn ==
    ASSUME LedgerInv, TablesShaped
    PROVE  /\ current_ownership = OwnersIn(ownership_history)
           /\ address_holdings = HoldingsIn(ownership_history)
<1> DEFINE H == ownership_history
<1>0. OwnershipConsistent
  BY DEF LedgerInv
<1>1. \A k \in DOMAIN H : k[3] \in Nat /\ k[3] <= Now /\ k = <<k[1], k[2], k[3]>>
  BY RowsRecorded DEF LedgerInv, HistoryRecorded
<1>2. DOMAIN current_ownership = KeysIn(H)
  BY <1>0 DEF OwnershipConsistent, KeysIn
<1>3. ASSUME NEW key \in DOMAIN current_ownership
      PROVE  /\ LastChange(H, key) = current_ownership[key].mod_tx_score
             /\ OwnerIn(H, key) = current_ownership[key].owner
  <2> DEFINE mod == current_ownership[key].mod_tx_score
             last == LastChange(H, key)
  <2>1. key = <<key[1], key[2]>> /\ \E k \in DOMAIN H : <<k[1], k[2]>> = key
    BY <1>2 DEF KeysIn
  <2>2. /\ \E k \in DOMAIN H : <<k[1], k[2]>> = key /\ k[3] = last
        /\ \A k \in DOMAIN H : <<k[1], k[2]>> = key => k[3] <= last
    BY <1>1, <2>1, LastChangeIs, RowsRecorded
  <2>3. PICK k \in DOMAIN H : <<k[1], k[2]>> = key /\ k[3] = last
    BY <2>2
  <2>4. k[3] <= mod /\ (k[3] = mod => current_ownership[key].owner = H[k])
    BY <1>0, <2>3 DEF OwnershipConsistent
  <2>5. PICK r : r = <<key[1], key[2], mod>>
    OBVIOUS
  <2>6. r \in DOMAIN H /\ <<r[1], r[2]>> = key /\ r[3] = mod
    BY <1>0, <2>1, <2>5 DEF OwnershipConsistent
  <2> HIDE DEF mod, last
  <2>7. mod <= last /\ mod \in Nat /\ last \in Nat
    BY <1>1, <2>2, <2>3, <2>6
  <2>8. mod = last
    BY <2>3, <2>4, <2>7
  <2>9. k = <<key[1], key[2], last>>
    BY <1>1, <2>3
  <2>10. QED BY <2>3, <2>4, <2>8, <2>9 DEF OwnerIn, mod, last
<1>4. ASSUME NEW key \in DOMAIN current_ownership
      PROVE  current_ownership[key] = [owner |-> OwnerIn(H, key), mod_tx_score |-> LastChange(H, key)]
  BY <1>3 DEF TablesShaped
<1>5. current_ownership = [key \in DOMAIN current_ownership |-> current_ownership[key]]
      /\ address_holdings = [h \in DOMAIN address_holdings |-> address_holdings[h]]
  BY DEF TablesShaped, IsFcn
<1> HIDE DEF H
<1>6. current_ownership = OwnersIn(H)
  BY <1>2, <1>4, <1>5 DEF OwnersIn
<1>7. DOMAIN address_holdings = {<<OwnerIn(H, key), key[1], key[2]>> : key \in KeysIn(H)}
  <2>1. DOMAIN address_holdings =
           {<<current_ownership[key].owner, key[1], key[2]>> : key \in DOMAIN current_ownership}
    BY <1>0 DEF OwnershipConsistent
  <2>2. QED BY <1>2, <1>3, <2>1
<1>8. ASSUME NEW h \in DOMAIN address_holdings
      PROVE  address_holdings[h] = LastChange(H, <<h[2], h[3]>>)
  <2>1. PICK key \in KeysIn(H) : h = <<OwnerIn(H, key), key[1], key[2]>>
    BY <1>7
  <2>2. key = <<key[1], key[2]>>
    BY DEF KeysIn
  <2>3. <<h[2], h[3]>> = key
    BY <2>1, <2>2
  <2>4. address_holdings[h] = current_ownership[<<h[2], h[3]>>].mod_tx_score
    BY <1>0 DEF OwnershipConsistent
  <2>5. QED BY <1>2, <1>3, <2>3, <2>4
<1>9. address_holdings = HoldingsIn(H)
  BY <1>5, <1>7, <1>8 DEF HoldingsIn
<1>10. QED BY <1>6, <1>9 DEF H

\* The listings in force are those that stand and are not spent.
LEMMA ListingsAreUnspent ==
    ASSUME LedgerInv, TablesShaped, UnspentListed, NEW score \in Nat,
           \A s \in DOMAIN operation_history : s < score
    PROVE  listings = ListingsBefore(score) /\ listings_by_tick = ListedBefore(score)
<1>0. ChainInv /\ ListingsBacked /\ ListingsLast
  BY DEF LedgerInv, ListingInv
<1>1. \A kind : \A s \in Standing(kind) : s < score
  BY DEF Standing
<1>2. UnspentBefore(score) = {l \in Standing("list") : \A s \in Standing("send") : SpentBy(s) # l}
  BY <1>1 DEF UnspentBefore
<1>3. \A l \in UnspentBefore(score) : KeyOf(l) \in DOMAIN listings /\ listings[KeyOf(l)].op_score = l
  BY <1>2 DEF UnspentListed
<1>4. ASSUME NEW key \in DOMAIN listings
      PROVE  /\ listings[key].op_score \in UnspentBefore(score)
             /\ KeyOf(listings[key].op_score) = key
  <2>1. listings[key].op_score \in Standing("list") /\ KeyOf(listings[key].op_score) = key
    BY <1>0 DEF ListingsBacked, Standing, KeyOf
  <2>2. \A s \in Standing("send") : SpentBy(s) # listings[key].op_score
    BY <1>0 DEF ListingsLast
  <2>3. QED BY <1>2, <2>1, <2>2
<1>5. ListedBefore(score) = DOMAIN listings
  BY <1>3, <1>4 DEF ListedBefore
<1>6. ASSUME NEW key \in DOMAIN listings
      PROVE  (CHOOSE x \in UnspentBefore(score) : KeyOf(x) = key) = listings[key].op_score
  BY <1>3, <1>4
<1>7. ASSUME NEW key \in DOMAIN listings
      PROVE  LET l == CHOOSE x \in UnspentBefore(score) : KeyOf(x) = key
             IN  listings[key] = [seller |-> operation_history[l].op.sender,
                                  listing_tx_id |-> operation_history[l].op.tx, op_score |-> l]
  <2>1. PICK l : l = listings[key].op_score
    OBVIOUS
  <2>2. operation_history[l].op.tx = listings[key].listing_tx_id
        /\ operation_history[l].op.sender = listings[key].seller
    BY <1>0, <2>1 DEF ListingsBacked
  <2>3. listings[key] = [seller |-> operation_history[l].op.sender,
                         listing_tx_id |-> operation_history[l].op.tx, op_score |-> l]
    BY <2>1, <2>2 DEF TablesShaped
  <2>4. QED BY <1>6, <2>1, <2>3
<1>8. listings = [key \in DOMAIN listings |-> listings[key]]
  BY DEF TablesShaped, IsFcn
<1>9. listings = ListingsBefore(score)
  BY <1>5, <1>7, <1>8 DEF ListingsBefore
<1>10. listings_by_tick = DOMAIN listings
  BY <1>0 DEF ListingsBacked
<1>11. QED BY <1>5, <1>9, <1>10

LEMMA AllBefore ==
    ASSUME LedgerInv, TablesShaped, UnspentListed, NEW score \in Nat,
           \A s \in DOMAIN operation_history : s < score
    PROVE  Tables = TablesBefore(score)
<1>1. OperationsBefore(score) = operation_history
  BY DEF OperationsBefore, TablesShaped, IsFcn
<1>2. TransactionsBefore(score) = tx_id_to_opscore
  BY RowsRecorded DEF TransactionsBefore, TablesShaped, IsFcn
<1>3. RegistryBefore(score) = collection_registry /\ DeploymentsBefore(score) = collection_deployments
  BY RowsRecorded DEF RegistryBefore, DeploymentsBefore, TablesShaped, IsFcn
<1>4. MintsBefore(score) = mint_history
  BY RowsRecorded DEF MintsBefore
<1>5. AllocBefore(score) = alloc
  <2>1. \A m \in mint_history : ~ (m.score >= score)
    BY RowsRecorded
  <2>2. \A t \in Ticks : DrawnFrom(t, score) = {}
    BY <2>1 DEF DrawnFrom
  <2>3. AllocBefore(score) = [t \in Ticks |-> alloc[t]]
    BY <2>2, NoneUndone DEF AllocBefore
  <2>4. alloc = [t \in Ticks |-> alloc[t]]
    BY DEF LedgerInv, MintsRecorded, TablesShaped, IsFcn
  <2>5. QED BY <2>3, <2>4
<1>6. ChangesBefore(score) = ownership_changes /\ HistoryBefore(score) = ownership_history
  BY RowsRecorded DEF ChangesBefore, HistoryBefore, TablesShaped, IsFcn
<1>7. DiscountsBefore(score) = vip
  BY RowsRecorded DEF DiscountsBefore
<1>8. listings = ListingsBefore(score) /\ listings_by_tick = ListedBefore(score)
  BY ListingsAreUnspent
<1>9. current_ownership = OwnersIn(ownership_history) /\ address_holdings = HoldingsIn(ownership_history)
  BY OwnersAreIn
<1>10. QED BY <1>1, <1>2, <1>3, <1>4, <1>5, <1>6, <1>7, <1>8, <1>9 DEF Tables, TablesBefore

-----------------------------------------------------------------------------
(* Undoing more or fewer of the same draws.                                 *)

\* Undoing the newest draw first and then the others undoes them all.
LEMMA UndoNewest ==
    ASSUME NEW k \in Nat, NEW row, NEW trail, NEW a, NEW mints, Retraced(k, row, trail, a, mints),
           NEW m, NEW b, m.score \in Nat, \A x \in mints : x.score < m.score,
           RollbackTokenGeneration(b, m.token) = a
    PROVE  UndoMints(b, mints \cup {m}) = UndoMints(a, mints)
<1> DEFINE row2 == [i \in 1..(k + 1) |-> IF i = k + 1 THEN m ELSE row[i]]
           trail2 == [i \in 0..(k + 1) |-> IF i = k + 1 THEN b ELSE trail[i]]
<1>1. /\ a = trail[k] /\ mints = {row[i] : i \in 1..k}
      /\ \A i \in 1..k : row[i].score \in Nat
      /\ \A h, i \in 1..k : h < i => row[h].score < row[i].score
      /\ \A i \in 1..k : RollbackTokenGeneration(trail[i], row[i].token) = trail[i - 1]
  BY DEF Retraced
<1>2. /\ \A i \in 1..(k + 1) : i = k + 1 \/ i \in 1..k
      /\ \A i \in 1..k : i \in 1..(k + 1) /\ i # k + 1 /\ i \in 0..k /\ i - 1 \in 0..k /\ i < k + 1
      /\ k + 1 \in 1..(k + 1) /\ (k + 1) - 1 = k /\ k \in 0..k /\ 0 \in 0..k /\ k + 1 \in Nat
      /\ \A h, i \in 1..(k + 1) : h < i => h \in 1..k
  OBVIOUS
<1>3. /\ \A i \in 1..k : row2[i] = row[i]
      /\ row2[k + 1] = m
      /\ \A i \in 0..k : trail2[i] = trail[i]
      /\ trail2[k + 1] = b
  OBVIOUS
<1> HIDE DEF row2, trail2
<1>4. mints \cup {m} = {row2[i] : i \in 1..(k + 1)}
  BY <1>1, <1>2, <1>3
<1>5. \A i \in 1..(k + 1) : row2[i].score \in Nat
  BY <1>1, <1>2, <1>3
<1>6. \A h, i \in 1..(k + 1) : h < i => row2[h].score < row2[i].score
  BY <1>1, <1>2, <1>3
<1>7. \A i \in 1..(k + 1) : RollbackTokenGeneration(trail2[i], row2[i].token) = trail2[i - 1]
  BY <1>1, <1>2, <1>3
<1>8. Retraced(k + 1, row2, trail2, b, mints \cup {m})
  BY <1>3, <1>4, <1>5, <1>6, <1>7 DEF Retraced
<1>9. UndoMints(b, mints \cup {m}) = trail2[0]
  BY <1>2, <1>8, UndoMintsIs
<1>10. UndoMints(a, mints) = trail[0]
  BY UndoMintsIs
<1>11. QED BY <1>2, <1>3, <1>9, <1>10

\* Undoing the draws from a threshold on and then the earlier ones undoes them all.
LEMMA UndoneInTwo ==
    ASSUME NEW k \in Nat, NEW row, NEW trail, NEW a, NEW mints, Retraced(k, row, trail, a, mints),
           NEW threshold \in Nat, NEW later, NEW earlier,
           \A m : m \in later <=> m \in mints /\ m.score >= threshold,
           \A m : m \in earlier <=> m \in mints /\ m.score < threshold
    PROVE  UndoMints(UndoMints(a, later), earlier) = UndoMints(a, mints)
<1> DEFINE score == [i \in 1..k |-> row[i].score]
<1>1. /\ a = trail[k] /\ mints = {row[i] : i \in 1..k}
      /\ \A i \in 1..k : row[i].score \in Nat
      /\ \A h, i \in 1..k : h < i => row[h].score < row[i].score
      /\ \A i \in 1..k : RollbackTokenGeneration(trail[i], row[i].token) = trail[i - 1]
  BY DEF Retraced
<1>2. PICK q \in 0..k : \A i \in 1..k : row[i].score < threshold <=> i <= q
  <2>1. \A i \in (0 + 1)..k : i \in 1..k /\ score[i] = row[i].score
    OBVIOUS
  <2>2. Rising(0, k, score)
    <3> HIDE DEF score
    <3> QED BY <1>1, <2>1 DEF Rising
  <2> HIDE DEF score
  <2>3. PICK q : CutAt(q, 0, k, score, threshold)
    BY <2>2, CutExists
  <2>4. q \in 0..k /\ \A i \in (0 + 1)..k : score[i] < threshold <=> i <= q
    BY <2>3 DEF CutAt
  <2>5. \A i \in 1..k : i \in (0 + 1)..k
    OBVIOUS
  <2>6. QED BY <2>1, <2>4, <2>5
<1> DEFINE rest == k - q
           row2 == [i \in 1..rest |-> row[q + i]]
           trail2 == [i \in 0..rest |-> trail[q + i]]
<1>3. /\ q \in Nat /\ rest \in Nat /\ q + rest = k /\ q + 0 = q /\ rest \in 0..rest /\ 0 \in 0..rest
      /\ \A i \in 1..q : i \in 1..k /\ i <= q
      /\ \A i \in 1..rest : q + i \in 1..k /\ ~ (q + i <= q) /\ i \in 0..rest /\ i - 1 \in 0..rest
                            /\ q + (i - 1) = (q + i) - 1
      /\ \A h, i \in 1..rest : h < i => q + h < q + i
      /\ \A i \in 1..k : i <= q => i \in 1..q
      /\ \A i \in 1..k : ~ (i <= q) => i - q \in 1..rest /\ q + (i - q) = i
  BY <1>2
<1>4. \A i \in 1..rest : row2[i] = row[q + i]
  OBVIOUS
<1>5. \A i \in 0..rest : trail2[i] = trail[q + i]
  OBVIOUS
<1> HIDE DEF rest, row2, trail2
<1>6. \A i \in 1..k : row[i].score >= threshold <=> ~ (i <= q)
  BY <1>1, <1>2
<1>7. later = {row2[i] : i \in 1..rest}
  <2>1. ASSUME NEW m \in later PROVE m \in {row2[i] : i \in 1..rest}
    <3>1. PICK i \in 1..k : m = row[i] /\ m.score >= threshold
      BY <1>1, <2>1
    <3>2. i - q \in 1..rest /\ q + (i - q) = i
      BY <1>3, <1>6, <3>1
    <3>3. QED BY <1>4, <3>1, <3>2
  <2>2. ASSUME NEW i \in 1..rest PROVE row2[i] \in later
    BY <1>1, <1>3, <1>4, <1>6
  <2>3. QED BY <2>1, <2>2
<1>8. Retraced(rest, row2, trail2, a, later)
  <2>1. trail2[rest] = a
    BY <1>1, <1>3, <1>5
  <2>2. \A i \in 1..rest : row2[i].score \in Nat
    BY <1>1, <1>3, <1>4
  <2>3. \A h, i \in 1..rest : h < i => row2[h].score < row2[i].score
    BY <1>1, <1>3, <1>4
  <2>4. \A i \in 1..rest : RollbackTokenGeneration(trail2[i], row2[i].token) = trail2[i - 1]
    BY <1>1, <1>3, <1>4, <1>5
  <2>5. QED BY <1>7, <2>1, <2>2, <2>3, <2>4 DEF Retraced
<1>9. UndoMints(a, later) = trail[q]
  <2>1. UndoMints(a, later) = trail2[0]
    BY <1>3, <1>8, UndoMintsIs
  <2>2. QED BY <1>3, <1>5, <2>1
<1>10. earlier = {row[i] : i \in 1..q}
  <2>1. ASSUME NEW m \in earlier PROVE m \in {row[i] : i \in 1..q}
    BY <1>1, <1>2, <1>3
  <2>2. ASSUME NEW i \in 1..q PROVE row[i] \in earlier
    BY <1>1, <1>2, <1>3
  <2>3. QED BY <2>1, <2>2
<1>11. Retraced(q, row, trail, trail[q], earlier)
  BY <1>1, <1>3, <1>10 DEF Retraced
<1>12. UndoMints(trail[q], earlier) = trail[0]
  BY <1>3, <1>11, UndoMintsIs
<1>13. UndoMints(a, mints) = trail[0]
  BY UndoMintsIs
<1>14. QED BY <1>9, <1>12, <1>13

-----------------------------------------------------------------------------
(* An operation leaves the tables before an earlier score as they were.      *)

\* The listings before a score depend on the listings unspent before it only.
LEMMA ListingsBeforeSame ==
    ASSUME NEW score \in Nat, UnspentBefore(score)' = UnspentBefore(score),
           \A l \in UnspentBefore(score) :
               KeyOf(l)' = KeyOf(l) /\ operation_history'[l] = operation_history[l]
    PROVE  ListedBefore(score)' = ListedBefore(score) /\ ListingsBefore(score)' = ListingsBefore(score)
<1> DEFINE U == UnspentBefore(score)
           Of(key) == CHOOSE x \in U : KeyOf(x) = key
           Of2(key) == CHOOSE x \in U : KeyOf(x)' = key
<1>1. ListedBefore(score)' = ListedBefore(score)
  BY DEF ListedBefore
<1>2. ASSUME NEW key \in ListedBefore(score) PROVE Of2(key) = Of(key) /\ Of(key) \in U
  <2>1. \A x : (x \in U /\ KeyOf(x)' = key) <=> (x \in U /\ KeyOf(x) = key)
    OBVIOUS
  <2>2. \E x \in U : KeyOf(x) = key
    BY DEF ListedBefore
  <2> HIDE DEF U
  <2>3. QED BY <2>1, <2>2
<1>3. ListingsBefore(score) =
         [key \in ListedBefore(score) |->
             [seller |-> operation_history[Of(key)].op.sender,
              listing_tx_id |-> operation_history[Of(key)].op.tx, op_score |-> Of(key)]]
  BY DEF ListingsBefore
<1>4. ListingsBefore(score)' =
         [key \in ListedBefore(score) |->
             [seller |-> operation_history'[Of2(key)].op.sender,
              listing_tx_id |-> operation_history'[Of2(key)].op.tx, op_score |-> Of2(key)]]
  BY <1>1 DEF ListingsBefore
<1>5. ASSUME NEW key \in ListedBefore(score)
      PROVE  Of2(key) = Of(key) /\ operation_history'[Of(key)] = operation_history[Of(key)]
  <2>1. Of2(key) = Of(key) /\ Of(key) \in U
    BY <1>2
  <2> HIDE DEF Of, Of2
  <2>2. QED BY <2>1
<1> HIDE DEF Of, Of2, U
<1>6. QED BY <1>1, <1>3, <1>4, <1>5

\* Recording an operation.
LEMMA RecordsBeforeStep ==
    ASSUME ChainInv, SendsBacked, NEW op, NEW token, NEW error, Arrives(op, op.kind),
           Record(op, token, error), NEW score \in Nat, score <= Now
    PROVE  /\ OperationsBefore(score)' = OperationsBefore(score)
           /\ TransactionsBefore(score)' = TransactionsBefore(score)
           /\ ListedBefore(score)' = ListedBefore(score)
           /\ ListingsBefore(score)' = ListingsBefore(score)
<1>0. PICK now : now = Now
  OBVIOUS
<1>1. /\ now \in Nat /\ score <= now /\ now \notin DOMAIN operation_history
      /\ DOMAIN operation_history' = DOMAIN operation_history \cup {now}
      /\ \A s \in DOMAIN operation_history : operation_history'[s] = operation_history[s]
      /\ op.tx \notin DOMAIN tx_id_to_opscore
      /\ DOMAIN tx_id_to_opscore' = DOMAIN tx_id_to_opscore \cup {op.tx}
      /\ tx_id_to_opscore'[op.tx] = now
      /\ \A x \in DOMAIN tx_id_to_opscore : tx_id_to_opscore'[x] = tx_id_to_opscore[x]
  BY <1>0, RecordFacts
<1>2. ~ (now < score)
  BY <1>1
<1>3. OperationsBefore(score)' = OperationsBefore(score)
  BY <1>1, <1>2 DEF OperationsBefore
<1>4. TransactionsBefore(score)' = TransactionsBefore(score)
  BY <1>1, <1>2 DEF TransactionsBefore
<1>5. /\ \A s \in DOMAIN operation_history : KeyOf(s)' = KeyOf(s)
      /\ \A s \in Standing("send") : SpentBy(s)' = SpentBy(s)
  BY RecordKeeps
<1>6. \A kind : \A s : s \in Standing(kind)' /\ s < score <=> s \in Standing(kind) /\ s < score
  <2> SUFFICES ASSUME NEW kind
               PROVE  \A s : s \in Standing(kind)' /\ s < score <=> s \in Standing(kind) /\ s < score
    OBVIOUS
  <2>1. Standing(kind)' =
           Standing(kind) \cup (IF error = None /\ op.kind = kind THEN {now} ELSE {})
    BY <1>0, StandingAfterRecord
  <2>2. QED BY <1>2, <2>1
<1>7. \A l : l \in UnspentBefore(score)' <=> l \in UnspentBefore(score)
  BY <1>5, <1>6 DEF UnspentBefore
<1>8. UnspentBefore(score)' = UnspentBefore(score)
  <2>1. UnspentBefore(score) = {l \in UnspentBefore(score) : TRUE}
        /\ UnspentBefore(score)' = {l \in UnspentBefore(score)' : TRUE}
    BY DEF UnspentBefore
  <2>2. QED BY <1>7
<1>9. \A l \in UnspentBefore(score) : l \in DOMAIN operation_history
  BY DEF UnspentBefore, Standing
<1>10. QED BY <1>1, <1>3, <1>4, <1>5, <1>8, <1>9, ListingsBeforeSame

\* A token that changes hands gets new rows.
LEMMA OwnersBeforeStep ==
    ASSUME NEW tick, NEW seqs, NEW from, NEW to, SetOwner(tick, seqs, from, to),
           NEW score \in Nat, Now \in Nat, score <= Now
    PROVE  ChangesBefore(score)' = ChangesBefore(score) /\ HistoryBefore(score)' = HistoryBefore(score)
<1> DEFINE tokens == DOMAIN seqs
<1>0. PICK now : now = Now
  OBVIOUS
<1> DEFINE keys == {<<tick, t, now>> : t \in tokens}
           rows == {[score |-> now, tick |-> tick, token |-> t, seq |-> seqs[t]] : t \in tokens}
<1>1. /\ ownership_changes' = ownership_changes \cup rows
      /\ ownership_history' = PutAll(ownership_history, keys, to)
  BY <1>0 DEF SetOwner
<1>2. ~ (now < score)
  BY <1>0
<1>3. \A k \in keys : k[3] = now
  OBVIOUS
<1>4. \A c \in rows : c.score = now
  OBVIOUS
<1> HIDE DEF keys, rows
<1>5. ChangesBefore(score)' = ChangesBefore(score)
  BY <1>1, <1>2, <1>4 DEF ChangesBefore
<1>6. /\ DOMAIN ownership_history' = DOMAIN ownership_history \cup keys
      /\ \A k \in DOMAIN ownership_history : k \notin keys => ownership_history'[k] = ownership_history[k]
  BY <1>1 DEF PutAll
<1>7. HistoryBefore(score)' = HistoryBefore(score)
  BY <1>2, <1>3, <1>6 DEF HistoryBefore
<1>8. QED BY <1>5, <1>7

\* The tables before a score, one kind after the other.
SameOperations(score) ==
    OperationsBefore(score)' = OperationsBefore(score)
    /\ TransactionsBefore(score)' = TransactionsBefore(score)
SameDeployments(score) ==
    RegistryBefore(score)' = RegistryBefore(score)
    /\ DeploymentsBefore(score)' = DeploymentsBefore(score)
SameMints(score) ==
    MintsBefore(score)' = MintsBefore(score) /\ AllocBefore(score)' = AllocBefore(score)
SameOwners(score) ==
    ChangesBefore(score)' = ChangesBefore(score) /\ HistoryBefore(score)' = HistoryBefore(score)
SameListings(score) ==
    ListedBefore(score)' = ListedBefore(score) /\ ListingsBefore(score)' = ListingsBefore(score)
SameTables(score) ==
    /\ SameOperations(score) /\ SameDeployments(score) /\ SameMints(score)
    /\ SameOwners(score) /\ SameListings(score) /\ DiscountsBefore(score)' = DiscountsBefore(score)

LEMMA SameTablesAre ==
    ASSUME NEW score \in Nat, SameTables(score)
    PROVE  TablesBefore(score)' = TablesBefore(score)
<1>1. /\ OwnersIn(HistoryBefore(score))' = OwnersIn(HistoryBefore(score))
      /\ HoldingsIn(HistoryBefore(score))' = HoldingsIn(HistoryBefore(score))
  <2>1. HistoryBefore(score)' = HistoryBefore(score)
    BY DEF SameTables, SameOwners
  <2>2. QED BY <2>1 DEF OwnersIn, HoldingsIn, KeysIn, OwnerIn
<1>2. QED
  BY <1>1 DEF SameTables, SameOperations, SameDeployments, SameMints, SameOwners, SameListings,
              TablesBefore

-----------------------------------------------------------------------------
(* The allocators before a score.                                           *)

\* The draws of numbered mints from a score on can be undone one by one.
LEMMA DrawsUndone ==
    ASSUME NEW t, NEW premint, NEW max, NEW since, NEW recorded \in SUBSET Nat, NEW mints, NEW a,
           NEW n, NEW token, NEW score, NEW trail, Supply(premint, max), since \in recorded,
           Numbered(t, premint, max, since, recorded, mints, a, n, token, score, trail),
           NEW threshold \in Nat, NEW left, NEW kept, NEW drawn,
           Cut(threshold, premint, recorded, mints, left, kept, drawn)
    PROVE  \E k \in Nat : \E row, trail2 : Retraced(k, row, trail2, a, drawn)
<1>1. PICK p : /\ CutAt(p, premint, n, score, threshold)
               /\ \E row, trail2 : Retraced(n - p, row, trail2, a, drawn)
                                   /\ trail2[0] = trail[p - premint]
  BY DrawsRetraced
<1>2. premint \in Nat /\ n \in Nat
  BY OrderFacts
<1>3. n - p \in Nat
  BY <1>1, <1>2 DEF CutAt
<1>4. QED BY <1>1, <1>3

\* Undoing a draw gives the allocator before it.
LEMMA NumberedMintUndone ==
    ASSUME NEW t, NEW premint, NEW max, NEW since, NEW recorded \in SUBSET Nat, NEW mints, NEW a,
           NEW n, NEW token, NEW score, NEW trail, Supply(premint, max), since \in recorded,
           Numbered(t, premint, max, since, recorded, mints, a, n, token, score, trail),
           n + 1 <= max, NEW e \in Nat, NEW id, NEW b,
           id = GenerateTokenId(a, e, max, premint).token,
           b = GenerateTokenId(a, e, max, premint).alloc
    PROVE  id > premint /\ RollbackTokenGeneration(b, id) = a
<1> DEFINE k == n - premint
           m == Draws(token, premint, k)
<1>1. premint \in Nat /\ n \in Nat /\ k \in Nat /\ max \in Nat
  BY OrderFacts DEF Supply
<1>2. InOrder(a, m, premint, max)
  BY <1>1 DEF Numbered
<1>3. Len(m) = k /\ premint + Len(m) + 1 <= max
  BY <1>1 DEF Draws
<1> HIDE DEF m, k
<1>4. id \in Drawable(premint, max) /\ RollbackTokenGeneration(b, id) = a
  BY <1>2, <1>3, GenerateStep
<1>5. QED BY <1>1, <1>4 DEF Drawable

\* The draws of a collection from a score on can be undone one by one; for one
\* deployed at or after the score that leaves no range.
LEMMA DrawnFromRetraced ==
    ASSUME ChainInv, RegistryRecorded, MintsRecorded, NEW t \in DOMAIN collection_registry,
           NEW score \in Nat
    PROVE  /\ \E k \in Nat : \E row, trail : Retraced(k, row, trail, alloc[t], DrawnFrom(t, score))
           /\ collection_registry[t].score >= score => UndoMints(alloc[t], DrawnFrom(t, score)) = NoRanges
<1>0. PICK premint, max, since, recorded, mints, a, drawn :
         /\ premint = DeployOf(t).premint /\ max = DeployOf(t).max
         /\ since = collection_registry[t].score /\ recorded = DOMAIN operation_history
         /\ mints = MintsOf(t) /\ a = alloc[t] /\ drawn = DrawnFrom(t, score)
  OBVIOUS
<1>1. Supply(premint, max) /\ since \in recorded /\ recorded \in SUBSET Nat
  BY <1>0, NowAbove, LedgerAssumption DEF RegistryRecorded, Supply
<1>2. PICK n, token, s, trail :
         Numbered(t, premint, max, since, recorded, mints, a, n, token, s, trail)
  BY <1>0 DEF MintsInOrder, MintsRecorded
<1>3. \A m : m \in drawn <=> m \in mints /\ m.score >= score /\ m.token > premint
  BY <1>0 DEF DrawnFrom, MintsOf, PremintOf
<1> DEFINE left == {x \in recorded : x < score}
           kept == {m \in mints : m.score < score}
<1>4. Cut(score, premint, recorded, mints, left, kept, drawn)
  BY <1>3 DEF Cut
<1> HIDE DEF left, kept
<1>5. since >= score => UndoMints(a, drawn) = NoRanges
  BY <1>1, <1>2, <1>4, NumberedUndone
<1>6. \E k \in Nat : \E row, trail2 : Retraced(k, row, trail2, a, drawn)
  BY <1>1, <1>2, <1>4, DrawsUndone
<1>7. QED BY <1>0, <1>5, <1>6

\* A collection that is not registered has neither mints nor ranges.
LEMMA UnregisteredBefore ==
    ASSUME MintsRecorded, NEW t \in Ticks, t \notin DOMAIN collection_registry, NEW score
    PROVE  DrawnFrom(t, score) = {} /\ UndoMints(alloc[t], DrawnFrom(t, score)) = NoRanges
<1>1. alloc[t] = NoRanges /\ \A m \in mint_history : m.tick # t
  BY DEF MintsRecorded
<1>2. DrawnFrom(t, score) = {}
  BY <1>1 DEF DrawnFrom
<1>3. QED BY <1>1, <1>2, NoneUndone

\* A step that leaves the mints alone.
LEMMA MintsBeforeQuiet ==
    ASSUME MintsRecorded, UNCHANGED <<deployVars, mintVars>>, NEW score
    PROVE  SameDeployments(score) /\ SameMints(score)
<1>1. UNCHANGED <<collection_registry, collection_deployments, mint_history, alloc>>
  BY DEF deployVars, mintVars
<1>2. SameDeployments(score) /\ MintsBefore(score)' = MintsBefore(score)
  BY <1>1 DEF SameDeployments, RegistryBefore, DeploymentsBefore, MintsBefore
<1>3. AllocBefore(score)' = AllocBefore(score)
  BY <1>1 DEF AllocBefore, DrawnFrom, PremintOf, DeployOf
<1>4. QED BY <1>2, <1>3 DEF SameMints

\* A deployment.
LEMMA DeployBeforeStep ==
    ASSUME ChainInv, RegistryRecorded, MintsRecorded, NEW op \in Ops, Deploy(op),
           NEW score \in Nat, score <= Now
    PROVE  SameDeployments(score) /\ SameMints(score)
<1> DEFINE t == op.tick
           premint == op.premint
           seqs == [i \in 1..premint |-> i]
<1>0. PICK now : now = Now
  OBVIOUS
<1>1. now \in Nat /\ score <= now /\ ~ (now < score) /\ now >= score
  BY <1>0, NowAbove
<1>2. t \notin DOMAIN collection_registry /\ premint \in Nat /\ t \in Ticks
  <2>1. DeployError(op) = None /\ op.kind = "deploy"
    BY DEF Deploy, Arrives
  <2>2. None # "TickExists"
    BY LedgerAssumption DEF CtxValidationError
  <2>3. QED BY <2>1, <2>2, LedgerAssumption DEF DeployError, Registered, Ticks
<1> DEFINE row == [score |-> now, op |-> op]
           deployed == [score |-> now, tick |-> t]
           new == MintRows(t, seqs)
<1>3. /\ collection_registry' = Put(collection_registry, t, row)
      /\ collection_deployments' = collection_deployments \cup {deployed}
      /\ mint_history' = mint_history \cup new
      /\ alloc' = alloc
  BY <1>0 DEF Deploy
<1>4. \A m \in new : m.tick = t /\ m.score = now /\ m.token \in 1..premint
  <2>1. DOMAIN seqs = 1..premint
    OBVIOUS
  <2> HIDE DEF seqs
  <2>2. QED BY <1>0, <2>1 DEF MintRows
<1>5. /\ row.score = now /\ row.op = op /\ deployed.score = now
  OBVIOUS
<1> HIDE DEF t, premint, row, deployed, new
<1>6. /\ DOMAIN collection_registry' = DOMAIN collection_registry \cup {t}
      /\ collection_registry'[t] = row
      /\ \A u \in DOMAIN collection_registry : u # t /\ collection_registry'[u] = collection_registry[u]
  BY <1>2, <1>3 DEF Put
<1>7. SameDeployments(score)
  <2>1. RegistryBefore(score)' = RegistryBefore(score)
    BY <1>1, <1>2, <1>5, <1>6 DEF RegistryBefore
  <2>2. DeploymentsBefore(score)' = DeploymentsBefore(score)
    BY <1>1, <1>3, <1>5 DEF DeploymentsBefore
  <2>3. QED BY <2>1, <2>2 DEF SameDeployments
<1>8. MintsBefore(score)' = MintsBefore(score)
  BY <1>1, <1>3, <1>4 DEF MintsBefore
<1>9. PremintOf(t)' = premint
  BY <1>5, <1>6 DEF PremintOf, DeployOf, premint
<1>10. \A u \in DOMAIN collection_registry : PremintOf(u)' = PremintOf(u)
  BY <1>6 DEF PremintOf, DeployOf
<1>11. ASSUME NEW u \in Ticks
       PROVE  UndoMints(alloc'[u], DrawnFrom(u, score)') = UndoMints(alloc[u], DrawnFrom(u, score))
  <2>1. CASE u \in DOMAIN collection_registry
    <3>1. \A m : m \in DrawnFrom(u, score)' <=> m \in DrawnFrom(u, score)
      BY <1>3, <1>4, <1>6, <1>10, <2>1 DEF DrawnFrom
    <3>2. DrawnFrom(u, score)' = DrawnFrom(u, score)
      <4>1. \A x : x \in DrawnFrom(u, score)' <=> x \in DrawnFrom(u, score)
        BY <3>1
      <4>2. QED BY <4>1 DEF DrawnFrom
    <3>3. QED BY <1>3, <3>2
  <2>2. CASE u \notin DOMAIN collection_registry
    <3>1. \A m \in mint_history : m.tick # u
      BY <2>2 DEF MintsRecorded
    <3>2. DrawnFrom(u, score)' = {}
      <4>1. CASE u = t
        <5>1. \A m \in new : ~ (m.token > premint)
          BY <1>2, <1>4
        <5>2. QED BY <1>3, <1>9, <3>1, <4>1, <5>1 DEF DrawnFrom
      <4>2. CASE u # t
        BY <1>3, <1>4, <3>1, <4>2 DEF DrawnFrom
      <4>3. QED BY <4>1, <4>2
    <3>3. DrawnFrom(u, score) = {}
      BY <3>1 DEF DrawnFrom
    <3>4. QED BY <1>3, <3>2, <3>3
  <2>3. QED BY <2>1, <2>2
<1>12. AllocBefore(score)' = AllocBefore(score)
  BY <1>11 DEF AllocBefore
<1>13. QED BY <1>7, <1>8, <1>12 DEF SameMints

\* A mint.
LEMMA MintBeforeStep ==
    ASSUME ChainInv, RegistryRecorded, MintsRecorded, NEW op \in Ops, Mint(op),
           NEW score \in Nat, score <= Now, \A m \in mint_history : m.score < Now
    PROVE  SameDeployments(score) /\ SameMints(score)
<1> DEFINE t == op.tick
<1>0. PICK now : now = Now
  OBVIOUS
<1>1. /\ now \in Nat /\ score <= now /\ ~ (now < score) /\ now >= score
      /\ DOMAIN operation_history \in SUBSET Nat /\ \A s \in DOMAIN operation_history : s < now
  BY <1>0, NowAbove
<1>2. t \in DOMAIN collection_registry
  <2>1. MintError(op) = None
    BY DEF Mint
  <2>2. QED BY <2>1, LedgerAssumption DEF MintError, Registered, CtxValidationError
<1>3. PICK n, token, s, trail : MintsInOrder(t, n, token, s, trail)
  BY <1>2 DEF MintsRecorded
<1>4. PICK e, id, b :
         /\ e \in Nat
         /\ id = GenerateTokenId(alloc[t], e, DeployOf(t).max, DeployOf(t).premint).token
         /\ b = GenerateTokenId(alloc[t], e, DeployOf(t).max, DeployOf(t).premint).alloc
         /\ n + 1 <= DeployOf(t).max
         /\ alloc' = [alloc EXCEPT ![t] = b]
         /\ mint_history' = mint_history \cup {[tick |-> t, seq |-> n + 1, token |-> id, score |-> Now]}
         /\ SetOwner(t, [x \in {id} |-> n + 1], {}, op.to)
         /\ Record(op, id, None)
  BY <1>3, MintFacts
<1> DEFINE new == [tick |-> t, seq |-> n + 1, token |-> id, score |-> now]
<1>5. UNCHANGED <<collection_registry, collection_deployments>>
  BY DEF Mint, deployVars
<1>6. \A u : PremintOf(u)' = PremintOf(u)
  BY <1>5 DEF PremintOf, DeployOf
<1>7. SameDeployments(score)
  BY <1>5 DEF SameDeployments, RegistryBefore, DeploymentsBefore
<1>8. mint_history' = mint_history \cup {new} /\ new.tick = t /\ new.score = now /\ new.token = id
  BY <1>0, <1>4
<1>9. t \in Ticks /\ DOMAIN alloc = Ticks
  BY <1>2 DEF RegistryRecorded, MintsRecorded
<1>10. alloc'[t] = b /\ \A u \in Ticks : u # t => alloc'[u] = alloc[u]
  BY <1>4, <1>9
<1> HIDE DEF new, t
<1>11. MintsBefore(score)' = MintsBefore(score)
  BY <1>1, <1>8 DEF MintsBefore
<1>12. id > PremintOf(t) /\ RollbackTokenGeneration(b, id) = alloc[t]
  <2>0. PICK premint, max, since, recorded, mints, a :
           /\ premint = DeployOf(t).premint /\ max = DeployOf(t).max
           /\ since = collection_registry[t].score /\ recorded = DOMAIN operation_history
           /\ mints = MintsOf(t) /\ a = alloc[t]
    OBVIOUS
  <2>1. Supply(premint, max) /\ since \in recorded
    BY <1>2, <2>0, LedgerAssumption DEF RegistryRecorded, Supply
  <2>2. Numbered(t, premint, max, since, recorded, mints, a, n, token, s, trail)
    BY <1>3, <2>0 DEF MintsInOrder
  <2>3. n + 1 <= max /\ id = GenerateTokenId(a, e, max, premint).token
        /\ b = GenerateTokenId(a, e, max, premint).alloc
    BY <1>4, <2>0
  <2>4. recorded \in SUBSET Nat /\ e \in Nat
    BY <1>1, <1>4, <2>0
  <2>5. id > premint /\ RollbackTokenGeneration(b, id) = a
    BY <2>1, <2>2, <2>3, <2>4, NumberedMintUndone
  <2>6. QED BY <2>0, <2>5 DEF PremintOf
<1>13. ASSUME NEW u \in Ticks
       PROVE  UndoMints(alloc'[u], DrawnFrom(u, score)') = UndoMints(alloc[u], DrawnFrom(u, score))
  <2>1. CASE u # t
    <3>1. DrawnFrom(u, score)' = DrawnFrom(u, score)
      BY <1>6, <1>8, <2>1 DEF DrawnFrom
    <3>2. QED BY <1>10, <2>1, <3>1
  <2>2. CASE u = t
    <3>1. DrawnFrom(t, score)' = DrawnFrom(t, score) \cup {new}
      BY <1>1, <1>6, <1>8, <1>12 DEF DrawnFrom
    <3>2. PICK k \in Nat : \E row, trail2 : Retraced(k, row, trail2, alloc[t], DrawnFrom(t, score))
      BY <1>2, DrawnFromRetraced
    <3>3. \A m \in DrawnFrom(t, score) : m.score < new.score
      BY <1>0, <1>8 DEF DrawnFrom
    <3>4. UndoMints(b, DrawnFrom(t, score) \cup {new}) = UndoMints(alloc[t], DrawnFrom(t, score))
      BY <1>1, <1>8, <1>12, <3>2, <3>3, UndoNewest
    <3>5. QED BY <1>10, <1>9, <2>2, <3>1, <3>4
  <2>3. QED BY <2>1, <2>2
<1>14. AllocBefore(score)' = AllocBefore(score)
  BY <1>13 DEF AllocBefore
<1>15. QED BY <1>7, <1>11, <1>14 DEF SameMints

-----------------------------------------------------------------------------
(* A step leaves the tables before an earlier score as they were.            *)

\* An operation writes no row below its score.
LEMMA OperationBefore ==
    ASSUME LedgerInv, NEW op \in Ops, NEW score \in Nat, score <= Now,
           \/ Reject(op) \/ Deploy(op) \/ Mint(op) \/ Transfer(op)
           \/ Discount(op) \/ List(op) \/ Send(op)
    PROVE  TablesBefore(score)' = TablesBefore(score)
<1>0. /\ ChainInv /\ RegistryRecorded /\ MintsRecorded /\ SendsBacked
      /\ Now \in Nat /\ \A m \in mint_history : m.score < Now
  BY RowsRecorded DEF LedgerInv, ListingInv
<1>1. ASSUME NEW token, NEW error, Arrives(op, op.kind), Record(op, token, error)
      PROVE  SameOperations(score) /\ SameListings(score)
  BY <1>0, <1>1, RecordsBeforeStep DEF SameOperations, SameListings
<1>2. ASSUME NEW seqs, NEW from, NEW to, SetOwner(op.tick, seqs, from, to)
      PROVE  SameOwners(score)
  BY <1>0, <1>2, OwnersBeforeStep DEF SameOwners
<1>3. ASSUME UNCHANGED ownVars PROVE SameOwners(score)
  BY <1>3 DEF SameOwners, ownVars, ChangesBefore, HistoryBefore
<1>4. ASSUME UNCHANGED <<deployVars, mintVars>> PROVE SameDeployments(score) /\ SameMints(score)
  BY <1>0, <1>4, MintsBeforeQuiet
<1>5. ASSUME UNCHANGED discountVars PROVE DiscountsBefore(score)' = DiscountsBefore(score)
  BY <1>5 DEF DiscountsBefore, discountVars
<1>6. ASSUME SameOperations(score), SameListings(score), SameOwners(score),
             SameDeployments(score), SameMints(score), DiscountsBefore(score)' = DiscountsBefore(score)
      PROVE  TablesBefore(score)' = TablesBefore(score)
  BY <1>6, SameTablesAre DEF SameTables
<1>7. CASE Reject(op)
  <2>1. /\ Arrives(op, op.kind) /\ Record(op, None, ErrorOf(op))
        /\ UNCHANGED <<deployVars, mintVars>> /\ UNCHANGED ownVars /\ UNCHANGED discountVars
    BY <1>7 DEF Reject
  <2>2. QED BY <1>1, <1>3, <1>4, <1>5, <1>6, <2>1
<1>8. CASE Deploy(op)
  <2>1. /\ Arrives(op, op.kind) /\ Record(op, None, None) /\ UNCHANGED discountVars
        /\ \E seqs : SetOwner(op.tick, seqs, {}, op.deployer)
    BY <1>8 DEF Deploy, Arrives
  <2>2. SameDeployments(score) /\ SameMints(score)
    BY <1>0, <1>8, DeployBeforeStep
  <2>3. QED BY <1>1, <1>2, <1>5, <1>6, <2>1, <2>2
<1>9. CASE Mint(op)
  <2>1. /\ Arrives(op, op.kind) /\ UNCHANGED discountVars
        /\ (\E token : Record(op, token, None))
        /\ \E seqs : SetOwner(op.tick, seqs, {}, op.to)
    BY <1>9 DEF Mint, Arrives
  <2>2. SameDeployments(score) /\ SameMints(score)
    BY <1>0, <1>9, MintBeforeStep
  <2>3. QED BY <1>1, <1>2, <1>5, <1>6, <2>1, <2>2
<1>10. CASE Transfer(op)
  <2>1. /\ Arrives(op, op.kind) /\ Record(op, None, None)
        /\ UNCHANGED <<deployVars, mintVars>> /\ UNCHANGED discountVars
        /\ \E seqs, from : SetOwner(op.tick, seqs, from, op.to)
    BY <1>10 DEF Transfer, Arrives
  <2>2. QED BY <1>1, <1>2, <1>4, <1>5, <1>6, <2>1
<1>11. CASE Discount(op)
  <2>1. /\ Arrives(op, op.kind) /\ Record(op, None, None)
        /\ UNCHANGED <<deployVars, mintVars>> /\ UNCHANGED ownVars
    BY <1>11 DEF Discount, Arrives
  <2>2. PICK now, row : now = Now /\ vip' = vip \cup {row} /\ row.score = now
    BY <1>11 DEF Discount
  <2>3. DiscountsBefore(score)' = DiscountsBefore(score)
    <3>1. ~ (now < score)
      BY <1>0, <2>2
    <3>2. QED BY <2>2, <3>1 DEF DiscountsBefore
  <2>4. QED BY <1>1, <1>3, <1>4, <1>6, <2>1, <2>3
<1>12. CASE List(op)
  <2>1. /\ Arrives(op, op.kind) /\ Record(op, None, None)
        /\ UNCHANGED <<deployVars, mintVars>> /\ UNCHANGED ownVars /\ UNCHANGED discountVars
    BY <1>12 DEF List, Arrives
  <2>2. QED BY <1>1, <1>3, <1>4, <1>5, <1>6, <2>1
<1>13. CASE Send(op)
  <2>1. /\ Arrives(op, op.kind) /\ Record(op, None, None)
        /\ UNCHANGED <<deployVars, mintVars>> /\ UNCHANGED discountVars
        /\ UNCHANGED ownVars \/ \E seqs, from : SetOwner(op.tick, seqs, from, op.buyer)
    BY <1>13 DEF Send, Arrives
  <2>2. SameOwners(score)
    BY <1>2, <1>3, <2>1
  <2>3. QED BY <1>1, <1>4, <1>5, <1>6, <2>1, <2>2
<1>14. QED BY <1>7, <1>8, <1>9, <1>10, <1>11, <1>12, <1>13

\* A reorganisation leaves the rows below its threshold.
LEMMA ReorgRecordsBefore ==
    ASSUME ChainInv, SendsBacked, NEW threshold \in Nat,
           DOMAIN operation_history' = {s \in DOMAIN operation_history : s < threshold},
           \A s \in DOMAIN operation_history' : operation_history'[s] = operation_history[s],
           DOMAIN tx_id_to_opscore' =
               {x \in DOMAIN tx_id_to_opscore : tx_id_to_opscore[x] < threshold},
           \A x \in DOMAIN tx_id_to_opscore' : tx_id_to_opscore'[x] = tx_id_to_opscore[x],
           NEW score \in Nat, score <= threshold
    PROVE  SameOperations(score) /\ SameListings(score)
<1>1. /\ \A s \in DOMAIN operation_history : s \in Nat
      /\ \A x \in DOMAIN tx_id_to_opscore : tx_id_to_opscore[x] \in Nat
  BY NowAbove DEF ChainInv, OperationsIndexed
<1>2. \A s \in Nat : s < score => s < threshold
  OBVIOUS
<1>3. OperationsBefore(score)' = OperationsBefore(score)
  BY <1>1, <1>2 DEF OperationsBefore
<1>4. TransactionsBefore(score)' = TransactionsBefore(score)
  BY <1>1, <1>2 DEF TransactionsBefore
<1>5. /\ \A kind : Standing(kind)' = {s \in Standing(kind) : s < threshold}
      /\ \A s \in DOMAIN operation_history' : KeyOf(s)' = KeyOf(s)
      /\ \A s \in Standing("send") : s < threshold => SpentBy(s)' = SpentBy(s)
  BY ReorgStanding
<1>6. \A kind : \A s \in Standing(kind) : s \in DOMAIN operation_history /\ s \in Nat
  BY StandingBelow
<1>7. \A l : l \in UnspentBefore(score)' <=> l \in UnspentBefore(score)
  BY <1>2, <1>5, <1>6 DEF UnspentBefore
<1>8. UnspentBefore(score)' = UnspentBefore(score)
  <2>1. UnspentBefore(score) = {l \in UnspentBefore(score) : TRUE}
        /\ UnspentBefore(score)' = {l \in UnspentBefore(score)' : TRUE}
    BY DEF UnspentBefore
  <2>2. QED BY <1>7
<1>9. \A l \in UnspentBefore(score) : l \in DOMAIN operation_history'
  BY <1>2, <1>6 DEF UnspentBefore
<1>10. ListedBefore(score)' = ListedBefore(score) /\ ListingsBefore(score)' = ListingsBefore(score)
  BY <1>5, <1>8, <1>9, ListingsBeforeSame
<1>11. QED BY <1>3, <1>4, <1>10 DEF SameOperations, SameListings

LEMMA ReorgRowsBefore ==
    ASSUME LedgerInv, NEW threshold \in Nat, RollbackOwnership(threshold),
           RollbackDiscounts(threshold), NEW score \in Nat, score <= threshold
    PROVE  SameOwners(score) /\ DiscountsBefore(score)' = DiscountsBefore(score)
<1>1. \A s \in Nat : s < score => s < threshold /\ ~ (s >= threshold)
  OBVIOUS
<1>2. /\ \A c \in ownership_changes : c.score \in Nat
      /\ \A k \in DOMAIN ownership_history : k[3] \in Nat
      /\ \A v \in vip : v.score \in Nat
  BY RowsRecorded
<1>3. ChangesBefore(score)' = ChangesBefore(score)
  <2>1. ownership_changes' = ownership_changes \ {k \in ownership_changes : k.score >= threshold}
    BY DEF RollbackOwnership
  <2>2. QED BY <1>1, <1>2, <2>1 DEF ChangesBefore
<1>4. HistoryBefore(score)' = HistoryBefore(score)
  <2>1. /\ \A k : k \in DOMAIN ownership_history' <=>
                      k \in DOMAIN ownership_history /\ k[3] < threshold
        /\ \A k \in DOMAIN ownership_history' : ownership_history'[k] = ownership_history[k]
    BY HistoryCut DEF LedgerInv
  <2>2. {x \in DOMAIN ownership_history' : x[3] < score} = {x \in DOMAIN ownership_history : x[3] < score}
    BY <1>1, <1>2, <2>1
  <2>3. QED BY <2>1, <2>2 DEF HistoryBefore
<1>5. DiscountsBefore(score)' = DiscountsBefore(score)
  <2> DEFINE row(k) == [spk |-> k[3], tick |-> k[2], score |-> k[1], fee |-> score_to_discount[k]]
             gone   == {row(k) : k \in {x \in DOMAIN score_to_discount : x[1] >= threshold}}
  <2>1. vip' = vip \ gone
    BY DEF RollbackDiscounts
  <2>2. \A v \in gone : v.score >= threshold
    OBVIOUS
  <2> HIDE DEF gone
  <2>3. QED BY <1>1, <1>2, <2>1, <2>2 DEF DiscountsBefore
<1>6. QED BY <1>3, <1>4, <1>5 DEF SameOwners

\* The draws a reorganisation undoes are the ones from its threshold on; undoing
\* those from an earlier score on then undoes the rest.
LEMMA ReorgMintsBefore ==
    ASSUME LedgerInv, MintsRecorded', NEW threshold \in Nat, RollbackDeployments(threshold),
           RollbackMints(threshold), NEW score \in Nat, score <= threshold
    PROVE  SameDeployments(score) /\ SameMints(score)
<1>0. ChainInv /\ RegistryRecorded /\ MintsRecorded
  BY DEF LedgerInv
<1>1. \A s \in Nat : (s < score => s < threshold) /\ (s >= threshold <=> ~ (s < threshold))
  OBVIOUS
<1>2. /\ \A t \in DOMAIN collection_registry : collection_registry[t].score \in Nat
      /\ \A d \in collection_deployments : d.score \in Nat
      /\ \A m \in mint_history : m.score \in Nat
  BY RowsRecorded
<1>3. /\ DOMAIN collection_registry' =
            {t \in DOMAIN collection_registry : collection_registry[t].score < threshold}
      /\ \A t \in DOMAIN collection_registry' : collection_registry'[t] = collection_registry[t]
  BY <1>0, RegistryCut
<1>4. SameDeployments(score)
  <2>1. RegistryBefore(score)' = RegistryBefore(score)
    <3>1. {x \in DOMAIN collection_registry' : collection_registry'[x].score < score}
             = {x \in DOMAIN collection_registry : collection_registry[x].score < score}
      BY <1>1, <1>2, <1>3
    <3>2. QED BY <1>3, <3>1 DEF RegistryBefore
  <2>2. collection_deployments' =
           collection_deployments \ {d \in collection_deployments : d.score >= threshold}
    BY DEF RollbackDeployments
  <2>3. DeploymentsBefore(score)' = DeploymentsBefore(score)
    BY <1>1, <1>2, <2>2 DEF DeploymentsBefore
  <2>4. QED BY <2>1, <2>3 DEF SameDeployments
<1>5. \A m : m \in mint_history' <=> m \in mint_history /\ m.score < threshold
  <2>1. mint_history' = mint_history \ RemovedMints(threshold)
    BY DEF RollbackMints
  <2>2. \A m : m \in RemovedMints(threshold) <=> m \in mint_history /\ m.score >= threshold
    BY <1>0, RemovedMintsAre
  <2>3. QED BY <1>1, <1>2, <2>1, <2>2
<1>6. MintsBefore(score)' = MintsBefore(score)
  <2>1. \A m : m \in MintsBefore(score)' <=> m \in MintsBefore(score)
    BY <1>1, <1>2, <1>5 DEF MintsBefore
  <2>2. QED BY <2>1 DEF MintsBefore
<1>7. \A t \in Ticks : alloc'[t] = UndoMints(alloc[t], DrawnFrom(t, threshold))
  <2> DEFINE drawn(t) == {m \in RemovedMints(threshold) : m.tick = t /\ m.token > PremintOf(t)}
  <2>1. alloc' = [t \in Ticks |-> UndoMints(alloc[t], drawn(t))]
    BY DEF RollbackMints
  <2>2. ASSUME NEW t PROVE drawn(t) = DrawnFrom(t, threshold)
    <3>1. \A m : m \in RemovedMints(threshold) <=> m \in mint_history /\ m.score >= threshold
      BY <1>0, RemovedMintsAre
    <3>2. \A m : m \in drawn(t) <=> m \in DrawnFrom(t, threshold)
      BY <3>1 DEF DrawnFrom
    <3>3. QED BY <3>2 DEF DrawnFrom
  <2> HIDE DEF drawn
  <2>3. QED BY <2>1, <2>2
<1>8. \A t \in DOMAIN collection_registry' : PremintOf(t)' = PremintOf(t)
  BY <1>3 DEF PremintOf, DeployOf
<1>9. ASSUME NEW t \in Ticks, t \notin DOMAIN collection_registry'
      PROVE  UndoMints(alloc'[t], DrawnFrom(t, score)') = NoRanges
  <2>1. alloc'[t] = NoRanges /\ \A m \in mint_history' : m.tick # t
    BY <1>9 DEF MintsRecorded
  <2>2. DrawnFrom(t, score)' = {}
    BY <2>1 DEF DrawnFrom
  <2>3. QED BY <2>1, <2>2, NoneUndone
<1>10. ASSUME NEW t \in Ticks
       PROVE  UndoMints(alloc'[t], DrawnFrom(t, score)') = UndoMints(alloc[t], DrawnFrom(t, score))
  <2>1. CASE t \in DOMAIN collection_registry'
    <3>1. t \in DOMAIN collection_registry
      BY <1>3, <2>1
    <3>2. PICK k \in Nat : \E row, trail : Retraced(k, row, trail, alloc[t], DrawnFrom(t, score))
      BY <1>0, <3>1, DrawnFromRetraced
    <3>3. PICK row, trail : Retraced(k, row, trail, alloc[t], DrawnFrom(t, score))
      BY <3>2
    <3>4. PICK mints, later, earlier :
             /\ mints = DrawnFrom(t, score) /\ later = DrawnFrom(t, threshold)
             /\ earlier = DrawnFrom(t, score)'
      OBVIOUS
    <3>5. \A m : m \in later <=> m \in mints /\ m.score >= threshold
      BY <1>2, <3>4 DEF DrawnFrom
    <3>6. \A m : m \in earlier <=> m \in mints /\ m.score < threshold
      BY <1>5, <1>8, <2>1, <3>4 DEF DrawnFrom
    <3>7. UndoMints(UndoMints(alloc[t], later), earlier) = UndoMints(alloc[t], mints)
      BY <3>3, <3>4, <3>5, <3>6, UndoneInTwo
    <3>8. QED BY <1>7, <3>4, <3>7
  <2>2. CASE t \notin DOMAIN collection_registry' /\ t \in DOMAIN collection_registry
    <3>1. collection_registry[t].score >= score
      BY <1>2, <1>3, <2>2
    <3>2. UndoMints(alloc[t], DrawnFrom(t, score)) = NoRanges
      BY <1>0, <2>2, <3>1, DrawnFromRetraced
    <3>3. QED BY <1>9, <2>2, <3>2
  <2>3. CASE t \notin DOMAIN collection_registry
    <3>1. t \notin DOMAIN collection_registry'
      BY <1>3, <2>3
    <3>2. UndoMints(alloc[t], DrawnFrom(t, score)) = NoRanges
      BY <1>0, <2>3, UnregisteredBefore
    <3>3. QED BY <1>9, <3>1, <3>2
  <2>4. QED BY <2>1, <2>2, <2>3
<1>11. AllocBefore(score)' = AllocBefore(score)
  BY <1>10 DEF AllocBefore
<1>12. QED BY <1>4, <1>6, <1>11 DEF SameMints

-----------------------------------------------------------------------------
(* A reorganisation restores the tables its lowest block started from.       *)

\* Tables that do not change have not changed below any score.
LEMMA QuietBefore ==
    ASSUME UNCHANGED <<opVars, deployVars, mintVars, ownVars, listingVars, discountVars>>,
           NEW score \in Nat
    PROVE  Tables' = Tables /\ TablesBefore(score)' = TablesBefore(score)
<1>1. UNCHANGED <<operation_history, tx_id_to_opscore>>
  BY DEF opVars
<1>2. UNCHANGED <<collection_registry, collection_deployments, mint_history, alloc>>
  BY DEF deployVars, mintVars
<1>3. UNCHANGED <<ownership_changes, ownership_history, vip>>
  BY DEF ownVars, discountVars
<1>4. SameOperations(score)
  BY <1>1 DEF SameOperations, OperationsBefore, TransactionsBefore
<1>5. SameListings(score)
  <2>1. UnspentBefore(score)' = UnspentBefore(score) /\ \A l : KeyOf(l)' = KeyOf(l)
    BY <1>1 DEF UnspentBefore, Standing, SpentBy, KeyOf
  <2>2. QED BY <1>1, <2>1, ListingsBeforeSame DEF SameListings
<1>6. SameDeployments(score)
  BY <1>2 DEF SameDeployments, RegistryBefore, DeploymentsBefore
<1>7. SameMints(score)
  BY <1>2 DEF SameMints, MintsBefore, AllocBefore, DrawnFrom, PremintOf, DeployOf
<1>8. SameOwners(score)
  BY <1>3 DEF SameOwners, ChangesBefore, HistoryBefore
<1>9. DiscountsBefore(score)' = DiscountsBefore(score)
  BY <1>3 DEF DiscountsBefore
<1>10. Tables' = Tables
  BY DEF opVars, deployVars, mintVars, ownVars, listingVars, discountVars, Tables
<1>11. QED BY <1>4, <1>5, <1>6, <1>7, <1>8, <1>9, <1>10, SameTablesAre DEF SameTables

LEMMA RollbackBefore ==
    ASSUME LedgerInv, MintsRecorded', NEW threshold \in Nat, RolledBack(threshold),
           NEW score \in Nat, score <= threshold
    PROVE  TablesBefore(score)' = TablesBefore(score)
<1>1. /\ ChainInv /\ SendsBacked
      /\ RollbackDeployments(threshold) /\ RollbackDiscounts(threshold)
      /\ RollbackMints(threshold) /\ RollbackOwnership(threshold)
      /\ DOMAIN operation_history' = {s \in DOMAIN operation_history : s < threshold}
      /\ \A s \in DOMAIN operation_history' : operation_history'[s] = operation_history[s]
      /\ DOMAIN tx_id_to_opscore' =
             {x \in DOMAIN tx_id_to_opscore : tx_id_to_opscore[x] < threshold}
      /\ \A x \in DOMAIN tx_id_to_opscore' : tx_id_to_opscore'[x] = tx_id_to_opscore[x]
  BY DEF RolledBack, LedgerInv, ListingInv
<1>2. SameOperations(score) /\ SameListings(score)
  BY <1>1, ReorgRecordsBefore
<1>3. SameOwners(score) /\ DiscountsBefore(score)' = DiscountsBefore(score)
  BY <1>1, ReorgRowsBefore
<1>4. SameDeployments(score) /\ SameMints(score)
  BY <1>1, ReorgMintsBefore
<1>5. QED BY <1>2, <1>3, <1>4, SameTablesAre DEF SameTables

\* The lowest block a reorganisation removes is an accepted one.
LEMMA ReorgFrom ==
    ASSUME ChainInv, PastKnown, NEW removed, NEW forced \in {{}, {LastBlue} \ {0}},
           Reorg(removed, forced)
    PROVE  \E blue \in DOMAIN past : blue \in Nat /\ Rollback(blue, removed)
<1> DEFINE blues == {b.blue : b \in chain_block_scores}
           blue == Min(RemovedScores(removed, forced))
<1>1. DOMAIN past = blues
  BY DEF PastKnown
<1>2. forced \subseteq blues
  <2>1. LastBlue \in Nat /\ LastBlue # 0 => LastBlue \in blues
    <3>1. ASSUME LastBlue # 0 PROVE chain_block_scores # {}
      <4>1. CASE chain_block_scores = {}
        <5>1. LastBlue = Max({0})
          BY <4>1 DEF LastBlue
        <5>2. Max({0}) \in {0}
          BY MaxIsGreatest
        <5>3. QED BY <3>1, <5>1, <5>2
      <4>2. QED BY <4>1
    <3>2. QED BY <3>1, LastBlueIs DEF ChainInv
  <2>2. LastBlue \in Nat
    BY LastBlueIs DEF ChainInv
  <2>3. QED BY <2>1, <2>2
<1>3. ASSUME NEW h PROVE RemovedScore(h) \subseteq blues
  BY DEF ChainInv, ChainIndexed, RemovedScore
<1>4. RemovedScores(removed, forced) \subseteq blues
  BY <1>2, <1>3 DEF RemovedScores
<1>5. blue \in RemovedScores(removed, forced) /\ blue \in Nat /\ Rollback(blue, removed)
  BY RemovedScoresIs, MinIsLeast DEF Reorg
<1>6. QED BY <1>1, <1>4, <1>5

\* Each accepted block keeps the tables its operations started from.
LEMMA PastReplayedStep ==
    LedgerInv /\ LedgerInv' /\ TablesShaped /\ UnspentListed /\ PastKnown /\ PastReplayed
        /\ [Next]_vars => PastReplayed'
<1> SUFFICES ASSUME LedgerInv, LedgerInv', TablesShaped, UnspentListed, PastKnown, PastReplayed,
                    [Next]_vars
             PROVE  PastReplayed'
  OBVIOUS
<1>0. /\ ChainInv /\ LastBlue \in Nat
      /\ \A b \in chain_block_scores : b.blue \in Nat \ {0} /\ b.blue <= LastBlue
      /\ \A b \in DOMAIN past : b \in Nat /\ b <= LastBlue
  BY LastBlueIs DEF LedgerInv, ChainInv, PastKnown
<1>1. ASSUME UNCHANGED past,
             \A b \in DOMAIN past : TablesBefore(TxScore(b, 0))' = TablesBefore(TxScore(b, 0))
      PROVE  PastReplayed'
  BY <1>1 DEF PastReplayed
<1>2. CASE UNCHANGED vars
  <2>1. \A b \in DOMAIN past : TxScore(b, 0) \in Nat
    BY <1>0, ScoresApart
  <2>2. UNCHANGED past /\ UNCHANGED <<opVars, deployVars, mintVars, ownVars, listingVars, discountVars>>
    BY <1>2 DEF vars, modelVars
  <2>3. QED BY <1>1, <2>1, <2>2, QuietBefore
<1>3. ASSUME NEW h \in Hashes, AcceptBlock(h) PROVE PastReplayed'
  <2>1. /\ past' = Put(past, Blue[h], Tables) /\ ~ Blue[h] < LastBlue /\ Blue[h] # LastBlue
        /\ UNCHANGED <<opVars, deployVars, mintVars, ownVars, listingVars, discountVars>>
    BY <1>3 DEF AcceptBlock
  <2>2. Blue[h] \in Nat /\ LastBlue < Blue[h]
    BY <1>0, <2>1, LedgerAssumption
  <2>3. PICK score : score = TxScore(Blue[h], 0)
    OBVIOUS
  <2>4. score \in Nat /\ \A s \in DOMAIN operation_history : s < score
    <3>1. score \in Nat /\ TxScore(LastBlue, PerBlock) <= score
          /\ TxScore(LastBlue, PerBlock) = TxScore(LastBlue, 0) + PerBlock
          /\ TxScore(LastBlue, 0) \in Nat
      BY <1>0, <2>2, <2>3, ScoresApart, LedgerAssumption
    <3>2. Now <= TxScore(LastBlue, PerBlock)
      <4>1. slot \in 0..PerBlock /\ PerBlock \in Nat
        BY <1>0, LedgerAssumption DEF ChainInv, BlocksOK
      <4>2. Now = TxScore(LastBlue, 0) + slot
        BY <1>0, <4>1, ScoresApart DEF Now
      <4>3. QED BY <3>1, <4>1, <4>2
    <3>3. Now \in Nat /\ \A s \in DOMAIN operation_history : s \in Nat /\ s < Now
      BY <1>0, NowAbove
    <3>4. PerBlock \in Nat
      BY LedgerAssumption
    <3>5. QED BY <3>1, <3>2, <3>3, <3>4
  <2>5. Tables = TablesBefore(score)
    BY <2>4, AllBefore
  <2>6. TablesBefore(score)' = TablesBefore(score)
    BY <2>1, <2>4, QuietBefore
  <2>7. \A b \in DOMAIN past : TablesBefore(TxScore(b, 0))' = TablesBefore(TxScore(b, 0))
    <3>1. \A b \in DOMAIN past : TxScore(b, 0) \in Nat
      BY <1>0, ScoresApart
    <3>2. QED BY <2>1, <3>1, QuietBefore
  <2>8. DOMAIN past' = DOMAIN past \cup {Blue[h]}
        /\ \A b \in DOMAIN past' : past'[b] = IF b = Blue[h] THEN Tables ELSE past[b]
    BY <2>1 DEF Put
  <2>9. ASSUME NEW b \in DOMAIN past' PROVE past'[b] = TablesBefore(TxScore(b, 0))'
    <3>1. CASE b = Blue[h]
      BY <2>3, <2>5, <2>6, <2>8, <3>1
    <3>2. CASE b # Blue[h]
      BY <2>7, <2>8, <3>2 DEF PastReplayed
    <3>3. QED BY <3>1, <3>2
  <2>10. QED BY <2>9 DEF PastReplayed
<1>4. ASSUME NEW op \in Ops,
             \/ Reject(op) \/ Deploy(op) \/ Mint(op) \/ Transfer(op)
             \/ Discount(op) \/ List(op) \/ Send(op)
      PROVE  PastReplayed'
  <2>1. UNCHANGED past
    <3>1. \E token, error : Record(op, token, error)
      BY <1>4 DEF Reject, Deploy, Mint, Transfer, Discount, List, Send
    <3>2. QED BY <3>1 DEF Record
  <2>2. ASSUME NEW b \in DOMAIN past
        PROVE  TablesBefore(TxScore(b, 0))' = TablesBefore(TxScore(b, 0))
    <3>1. PICK score : score = TxScore(b, 0)
      OBVIOUS
    <3>2. score \in Nat /\ score <= TxScore(LastBlue, 0) /\ TxScore(LastBlue, 0) \in Nat
      BY <1>0, <3>1, ScoresApart
    <3>3. slot \in Nat /\ Now = TxScore(LastBlue, 0) + slot
      <4>1. slot \in Nat
        BY <1>0, LedgerAssumption DEF ChainInv, BlocksOK
      <4>2. QED BY <1>0, <4>1, ScoresApart DEF Now
    <3>4. score <= Now
      BY <3>2, <3>3
    <3>5. TablesBefore(score)' = TablesBefore(score)
      BY <1>4, <3>2, <3>4, OperationBefore
    <3>6. QED BY <3>1, <3>5
  <2>3. QED BY <1>1, <2>1, <2>2
<1>5. ASSUME NEW removed, NEW forced \in {{}, {LastBlue} \ {0}}, Reorg(removed, forced)
      PROVE  PastReplayed'
  <2>1. PICK blue \in DOMAIN past : blue \in Nat /\ Rollback(blue, removed)
    BY <1>0, <1>5, ReorgFrom
  <2>2. past' = DelAll(past, {b \in DOMAIN past : b >= blue})
    BY <2>1 DEF Rollback
  <2>3. \A b \in DOMAIN past' : b \in DOMAIN past /\ ~ (b >= blue) /\ past'[b] = past[b]
    BY <2>2 DEF DelAll
  <2>4. PICK threshold \in Nat : threshold = TxScore(blue, 0) /\ RolledBack(threshold)
    BY <1>0, <2>1, RollbackFacts
  <2>5. ASSUME NEW b \in DOMAIN past' PROVE past'[b] = TablesBefore(TxScore(b, 0))'
    <3>1. b \in DOMAIN past /\ b \in Nat /\ b <= blue /\ past'[b] = past[b]
      BY <1>0, <2>1, <2>3
    <3>2. PICK score \in Nat : score = TxScore(b, 0) /\ score <= threshold
      BY <2>1, <2>4, <3>1, ScoresApart
    <3>3. TablesBefore(score)' = TablesBefore(score)
      BY <2>4, <3>2, RollbackBefore DEF LedgerInv
    <3>4. QED BY <3>1, <3>2, <3>3 DEF PastReplayed
  <2>6. QED BY <2>5 DEF PastReplayed
<1>6. QED BY <1>2, <1>3, <1>4, <1>5 DEF Next

\* Before the first block nothing stands and nothing is kept.
LEMMA ReplayInit == Init => UnspentListed /\ PastReplayed
<1> SUFFICES ASSUME Init PROVE UnspentListed /\ PastReplayed
  OBVIOUS
<1>1. operation_history = NoEntries /\ past = NoEntries
  BY DEF Init
<1>2. DOMAIN operation_history = {} /\ DOMAIN past = {}
  BY <1>1 DEF NoEntries
<1>3. Standing("list") = {}
  BY <1>2 DEF Standing
<1>4. QED BY <1>2, <1>3 DEF UnspentListed, PastReplayed

\* Above all records, the tables before a score are the tables.
WholeBefore ==
    \A score \in Nat :
        (\A s \in DOMAIN operation_history : s < score) => Tables = TablesBefore(score)

LEMMA ReplayAlways == Spec => [](TablesShaped /\ UnspentListed /\ PastReplayed /\ WholeBefore)
<1>1. Spec => []TablesShaped
  BY ShapeInit, ShapeStep, LedgerAlways, PTL DEF Spec
<1>2. Spec => []UnspentListed
  BY ReplayInit, UnspentStep, LedgerAlways, PTL DEF Spec
<1>3. Spec => []PastReplayed
  BY <1>1, <1>2, ReplayInit, PastReplayedStep, LedgerAlways, PastAlways, PTL DEF Spec
<1>4. LedgerInv /\ TablesShaped /\ UnspentListed => WholeBefore
  BY AllBefore DEF WholeBefore
<1>5. QED BY <1>1, <1>2, <1>3, <1>4, LedgerAlways, PTL

\* A reorganisation takes the tables back to what they were before its lowest block.
LEMMA ReorgReplays ==
    ASSUME LedgerInv, LedgerInv', PastKnown, PastReplayed, WholeBefore',
           NEW removed, NEW forced \in {{}, {LastBlue} \ {0}}, Reorg(removed, forced)
    PROVE  Tables' = past[Min(DOMAIN past \ DOMAIN past')]
<1>0. ChainInv /\ \A b \in DOMAIN past : b \in Nat
  BY LastBlueIs DEF LedgerInv, ChainInv, PastKnown
<1>1. PICK blue \in DOMAIN past : blue \in Nat /\ Rollback(blue, removed)
  BY <1>0, ReorgFrom
<1> DEFINE gone == DOMAIN past \ DOMAIN past'
<1>2. past' = DelAll(past, {b \in DOMAIN past : b >= blue})
  BY <1>1 DEF Rollback
<1>3. \A b : b \in gone <=> b \in DOMAIN past /\ b >= blue
  BY <1>2 DEF DelAll
<1>4. Min(gone) = blue
  <2>1. gone \in SUBSET Nat /\ blue \in gone
    BY <1>0, <1>1, <1>3
  <2>2. \A b \in gone : b >= blue
    BY <1>3
  <2> HIDE DEF gone
  <2>3. PICK least : least = Min(gone) /\ least \in gone /\ least <= blue
    BY <2>1, MinIsLeast
  <2>4. least \in Nat /\ least >= blue
    BY <2>1, <2>2, <2>3
  <2>5. QED BY <1>1, <2>3, <2>4
<1>5. PICK threshold \in Nat : threshold = TxScore(blue, 0) /\ RolledBack(threshold)
  BY <1>0, <1>1, RollbackFacts
<1>6. TablesBefore(threshold)' = TablesBefore(threshold)
  BY <1>5, RollbackBefore DEF LedgerInv
<1>7. Tables' = TablesBefore(threshold)'
  <2>1. \A s \in DOMAIN operation_history' : s < threshold
    BY <1>5 DEF RolledBack
  <2>2. QED BY <2>1 DEF WholeBefore
<1>8. past[blue] = TablesBefore(threshold)
  BY <1>5 DEF PastReplayed
<1>9. QED BY <1>4, <1>6, <1>7, <1>8

\* A reorganisation leaves the tables exactly as they were before the lowest block
\* it removes was accepted, whatever was deployed, minted, sold or granted since and
\* however often blocks were taken back before: process_removal restores what an
\* indexer that never saw the removed blocks holds.
THEOREM RollbackIsReplayAlways == Spec => RollbackIsReplay
<1> DEFINE Replay ==
       reorgs' # reorgs /\ DOMAIN past' # DOMAIN past =>
           Tables' = past[Min(DOMAIN past \ DOMAIN past')]
<1>1. LedgerInv /\ LedgerInv' /\ PastKnown /\ PastReplayed /\ WholeBefore' /\ [Next]_vars
         => [Replay]_vars
  <2> SUFFICES ASSUME LedgerInv, LedgerInv', PastKnown, PastReplayed, WholeBefore', [Next]_vars,
                      reorgs' # reorgs
               PROVE  Replay
    OBVIOUS
  <2>1. ASSUME NEW op, NEW token, NEW error, Record(op, token, error) PROVE FALSE
    BY <2>1 DEF Record
  <2>2. ASSUME NEW op \in Ops,
               \/ Reject(op) \/ Deploy(op) \/ Mint(op) \/ Transfer(op)
               \/ Discount(op) \/ List(op) \/ Send(op)
        PROVE  FALSE
    BY <2>1, <2>2 DEF Reject, Deploy, Mint, Transfer, Discount, List, Send
  <2>3. ASSUME NEW h \in Hashes, AcceptBlock(h) PROVE FALSE
    BY <2>3 DEF AcceptBlock
  <2>4. ~ UNCHANGED vars
    BY DEF vars, modelVars
  <2>5. PICK removed, forced : forced \in {{}, {LastBlue} \ {0}} /\ Reorg(removed, forced)
    BY <2>2, <2>3, <2>4 DEF Next
  <2>6. QED BY <2>5, ReorgReplays
<1>2. QED BY LedgerAlways, PastAlways, ReplayAlways, <1>1, PTL DEF Spec, RollbackIsReplay

-----------------------------------------------------------------------------
(* What clients are told.                                                  *)

\* The rows queries answer with.
IsTokenRow(x) ==
    \E tick, token, owner, score, listing :
       x = [tick |-> tick, token |-> token, owner |-> owner, op_score_modified |-> score,
            listing |-> listing]
IsRow(x) ==
    \/ \E op, added, minted, modified :
          x = [op |-> op, op_score_added |-> added, minted |-> minted, op_score_modified |-> modified]
    \/ \E score, op : x = [score |-> score, op |-> op]
    \/ IsTokenRow(x)
    \/ \E owner, score, tx : x = [owner |-> owner, op_score_modified |-> score, tx |-> tx]
    \/ \E tick, token, score, listing :
          x = [tick |-> tick, token |-> token, op_score_modified |-> score, listing |-> listing]
    \/ \E tick, token, listing : x = [tick |-> tick, token |-> token, listing |-> listing]
    \/ \E seller, tx, score : x = [seller |-> seller, listing_tx_id |-> tx, op_score |-> score]

\* Answering that there is nothing, or failing, is not answering with rows.
AnswersApart ==
    /\ \A x : IsRow(x) => x # None /\ x # Failed
    /\ \A S : (\A x \in S : IsRow(x)) => S # Failed

\* The records of nft_view.rs are rows.
LEMMA Rows ==
    ASSUME NEW a, NEW b, NEW c, NEW d, NEW e
    PROVE  /\ IsRow([op |-> a, op_score_added |-> b, minted |-> c, op_score_modified |-> d])
           /\ IsRow([score |-> a, op |-> b])
           /\ IsRow([tick |-> a, token |-> b, owner |-> c, op_score_modified |-> d, listing |-> e])
           /\ IsRow([owner |-> a, op_score_modified |-> b, tx |-> c])
           /\ IsRow([tick |-> a, token |-> b, op_score_modified |-> c, listing |-> d])
           /\ IsRow([tick |-> a, token |-> b, listing |-> c])
           /\ IsRow([seller |-> a, listing_tx_id |-> b, op_score |-> c])
<1>1. IsRow([op |-> a, op_score_added |-> b, minted |-> c, op_score_modified |-> d])
  <2>1. \E op, added, minted, modified :
           [op |-> a, op_score_added |-> b, minted |-> c, op_score_modified |-> d]
           = [op |-> op, op_score_added |-> added, minted |-> minted, op_score_modified |-> modified]
    BY Zenon
  <2>2. QED BY <2>1, Zenon DEF IsRow
<1>2. IsRow([score |-> a, op |-> b])
  <2>1. \E score, op : [score |-> a, op |-> b] = [score |-> score, op |-> op]
    BY Zenon
  <2>2. QED BY <2>1, Zenon DEF IsRow
<1>3. IsRow([tick |-> a, token |-> b, owner |-> c, op_score_modified |-> d, listing |-> e])
  <2>1. IsTokenRow([tick |-> a, token |-> b, owner |-> c, op_score_modified |-> d, listing |-> e])
    BY Zenon DEF IsTokenRow
  <2>2. \A x : IsTokenRow(x) => IsRow(x)
    BY Zenon DEF IsRow
  <2>3. QED BY <2>1, <2>2, Zenon
<1>4. IsRow([owner |-> a, op_score_modified |-> b, tx |-> c])
  <2>1. \E owner, score, tx : [owner |-> a, op_score_modified |-> b, tx |-> c]
                              = [owner |-> owner, op_score_modified |-> score, tx |-> tx]
    BY Zenon
  <2>2. QED BY <2>1, Zenon DEF IsRow
<1>5. IsRow([tick |-> a, token |-> b, op_score_modified |-> c, listing |-> d])
  <2>1. \E tick, token, score, listing :
           [tick |-> a, token |-> b, op_score_modified |-> c, listing |-> d]
           = [tick |-> tick, token |-> token, op_score_modified |-> score, listing |-> listing]
    BY Zenon
  <2>2. QED BY <2>1, Zenon DEF IsRow
<1>6. IsRow([tick |-> a, token |-> b, listing |-> c])
  <2>1. \E tick, token, listing : [tick |-> a, token |-> b, listing |-> c]
                                  = [tick |-> tick, token |-> token, listing |-> listing]
    BY Zenon
  <2>2. QED BY <2>1, Zenon DEF IsRow
<1>7. IsRow([seller |-> a, listing_tx_id |-> b, op_score |-> c])
  <2>1. \E seller, tx, score : [seller |-> a, listing_tx_id |-> b, op_score |-> c]
                               = [seller |-> seller, listing_tx_id |-> tx, op_score |-> score]
    BY Zenon
  <2>2. QED BY <2>1, Zenon DEF IsRow
<1>8. QED BY <1>1, <1>2, <1>3, <1>4, <1>5, <1>6, <1>7, Zenon

\* A list without an error is answered as it is.
LEMMA AnsweredIs ==
    ASSUME NEW S, \A x \in S : x # Failed
    PROVE  Answered(S) = S
BY DEF Answered

\* Every owned token is a pair of a collection and an id.
LEMMA OwnedPairs ==
    ASSUME LedgerInv
    PROVE  \A key \in DOMAIN current_ownership :
               /\ key = <<key[1], key[2]>> /\ key[1] \in DOMAIN collection_registry
               /\ key[1] \in Ticks
<1>1. SUFFICES ASSUME NEW key \in DOMAIN current_ownership
               PROVE  /\ key = <<key[1], key[2]>> /\ key[1] \in DOMAIN collection_registry
                      /\ key[1] \in Ticks
  OBVIOUS
<1>2. PICK m \in mint_history : key = <<m.tick, m.token>>
  BY MintedAreOwned DEF LedgerInv
<1>3. key[1] = m.tick /\ key[2] = m.token
  BY <1>2
<1>4. m.tick \in DOMAIN collection_registry /\ m.tick \in Ticks
  BY DEF LedgerInv, MintsRecorded, RegistryRecorded
<1>5. QED BY <1>2, <1>3, <1>4

\* The tokens krc721_token_list shows are those with an owner.
LEMMA TokensAre ==
    ASSUME LedgerInv, NEW tick, Shown(tick)
    PROVE  \A t : t \in TokenList(tick) <=>
                      \E id : <<tick, id>> \in DOMAIN current_ownership /\ t = Token(tick, id)
<1>1. TokenList(tick) = {Token(tick, k[2]) : k \in {x \in DOMAIN current_ownership : x[1] = tick}}
  BY DEF TokenList
<1>2. SUFFICES ASSUME NEW t
               PROVE  t \in TokenList(tick) <=>
                          \E id : <<tick, id>> \in DOMAIN current_ownership /\ t = Token(tick, id)
  OBVIOUS
<1>3. ASSUME t \in TokenList(tick)
      PROVE  \E id : <<tick, id>> \in DOMAIN current_ownership /\ t = Token(tick, id)
  <2>1. PICK k \in DOMAIN current_ownership : k[1] = tick /\ t = Token(tick, k[2])
    BY <1>1, <1>3
  <2>2. k = <<tick, k[2]>>
    BY <2>1, OwnedPairs
  <2>3. QED BY <2>1, <2>2
<1>4. ASSUME NEW id, <<tick, id>> \in DOMAIN current_ownership, t = Token(tick, id)
      PROVE  t \in TokenList(tick)
  <2>1. PICK k : k = <<tick, id>>
    OBVIOUS
  <2>2. k \in DOMAIN current_ownership /\ k[1] = tick /\ k[2] = id
    BY <1>4, <2>1
  <2>3. QED BY <1>1, <1>4, <2>2
<1>5. QED BY <1>3, <1>4

\* krc721_collection_list meets the operation of every last mint and shows every
\* collection krc721_collection_lookup shows.
LEMMA CollectionsListed ==
    ASSUME LedgerInv, AnswersApart
    PROVE  /\ CollectionList = {CollectionAt(d.score, DeployOf(d.tick)) :
                                   d \in {x \in collection_deployments : ~ Hidden(x.tick)}}
           /\ \A tick : Shown(tick) => CollectionLookup(tick) \in CollectionList
<1> DEFINE shown == {x \in collection_deployments : ~ Hidden(x.tick)}
           entry(d) == IF \A m \in LastMint(d.tick) : m.score \in DOMAIN operation_history
                       THEN CollectionAt(d.score, DeployOf(d.tick)) ELSE Failed
<1>1. \A d : entry(d) = CollectionAt(d.score, DeployOf(d.tick))
  <2>1. \A m \in mint_history : m.score \in DOMAIN operation_history
    BY RowsRecorded
  <2>2. \A d : \A m \in LastMint(d.tick) : m \in mint_history
    BY DEF LastMint
  <2>3. QED BY <2>1, <2>2
<1>2. \A score, op : CollectionAt(score, op) # Failed
  BY Rows DEF AnswersApart, CollectionAt
<1>3. CollectionList = Answered({entry(d) : d \in shown})
  BY DEF CollectionList
<1> HIDE DEF entry, shown
<1>4. CollectionList = {entry(d) : d \in shown}
  <2>1. \A x \in {entry(d) : d \in shown} : x # Failed
    BY <1>1, <1>2
  <2>2. QED BY <1>3, <2>1, AnsweredIs
<1>5. CollectionList = {CollectionAt(d.score, DeployOf(d.tick)) : d \in shown}
  BY <1>1, <1>4
<1>6. ASSUME NEW tick, Shown(tick) PROVE CollectionLookup(tick) \in CollectionList
  <2>1. PICK d : d = [score |-> collection_registry[tick].score, tick |-> tick]
    OBVIOUS
  <2>2. d.score = collection_registry[tick].score /\ d.tick = tick
    BY <2>1
  <2>3. d \in shown
    BY <1>6, <2>1, <2>2 DEF LedgerInv, ChainInv, OperationsIndexed, Shown, Registered, shown
  <2>4. CollectionLookup(tick) = CollectionAt(d.score, DeployOf(d.tick))
    BY <1>6, <2>2 DEF CollectionLookup
  <2>5. QED BY <1>5, <2>3, <2>4
<1>7. QED BY <1>5, <1>6 DEF shown

\* How many tokens a collection has.
LEMMA MintedCount ==
    ASSUME LedgerInv, NEW tick \in DOMAIN collection_registry
    PROVE  LET ids == {m.token : m \in MintsOf(tick)}
           IN  /\ IsFiniteSet(ids) /\ Cardinality(ids) = LastSeq(tick)
               /\ ids \subseteq 1..DeployOf(tick).max
               /\ LastSeq(tick) \in DeployOf(tick).premint..DeployOf(tick).max
               /\ {m.seq : m \in MintsOf(tick)} = 1..LastSeq(tick)
<1> DEFINE premint == DeployOf(tick).premint
           max     == DeployOf(tick).max
           mints   == MintsOf(tick)
           ids     == {m.token : m \in mints}
<1>1. PICK n, token, score, trail :
         Numbered(tick, premint, max, collection_registry[tick].score, DOMAIN operation_history,
                  mints, alloc[tick], n, token, score, trail)
  BY DEF LedgerInv, MintsRecorded, MintsInOrder
<1>2. Supply(premint, max)
  BY LedgerAssumption DEF LedgerInv, RegistryRecorded, Supply
<1> HIDE DEF premint, max
<1>3. SupplyCounted(premint, max, mints, n)
  <2> HIDE DEF mints
  <2> QED BY <1>1, <1>2, SupplyOf
<1>4. /\ n \in premint..max /\ n \in Nat /\ IsFiniteSet(mints)
      /\ {m.seq : m \in mints} = 1..n
      /\ Cardinality(ids) = n
      /\ \A m \in mints : m.seq \in 1..n /\ m.token \in 1..max
  BY <1>3 DEF SupplyCounted
<1>5. LastSeq(tick) = n
  <2>1. \A i \in 1..n : \E m \in mints : m.seq = i
    BY <1>4
  <2>2. QED BY <1>4, <2>1, LastSeqIs
<1>6. ids \subseteq 1..max
  BY <1>4
<1>7. IsFiniteSet(ids)
  <2>1. max \in Nat /\ IsFiniteSet(1..max)
    BY <1>2, FS_Interval DEF Supply
  <2> HIDE DEF ids
  <2>2. QED BY <1>6, <2>1, FS_Subset
<1>8. QED BY <1>4, <1>5, <1>6, <1>7 DEF premint, max

\* The ids of the tokens of a collection are those of its mints.
LEMMA MintedIds ==
    ASSUME LedgerInv, NEW tick
    PROVE  \A id : <<tick, id>> \in DOMAIN current_ownership <=>
                       id \in {m.token : m \in MintsOf(tick)}
<1>1. SUFFICES ASSUME NEW id
               PROVE  <<tick, id>> \in DOMAIN current_ownership <=>
                          id \in {m.token : m \in MintsOf(tick)}
  OBVIOUS
<1>2. <<tick, id>> \in DOMAIN current_ownership <=>
          \E m \in mint_history : <<tick, id>> = <<m.tick, m.token>>
  BY MintedAreOwned DEF LedgerInv
<1>3. QED BY <1>2 DEF MintsOf

\* krc721_collection_lookup counts the tokens krc721_token_list shows.
LEMMA TokensCounted ==
    ASSUME LedgerInv, NEW tick, Shown(tick)
    PROVE  CollectionLookup(tick).minted = Cardinality(TokenList(tick))
<1> DEFINE ids == {m.token : m \in MintsOf(tick)}
<1>1. IsFiniteSet(ids) /\ Cardinality(ids) = LastSeq(tick)
  BY MintedCount DEF Shown, Registered
<1>2. \A t : t \in TokenList(tick) <=> \E id \in ids : t = Token(tick, id)
  BY TokensAre, MintedIds
<1>3. \A id : Token(tick, id).token = id
  BY DEF Token
<1> HIDE DEF ids
<1>4. ExistsBijection(ids, TokenList(tick))
  <2> DEFINE f == [id \in ids |-> Token(tick, id)]
  <2>1. f \in [ids -> TokenList(tick)]
    BY <1>2
  <2>2. \A i, j \in ids : f[i] = f[j] => i = j
    BY <1>3
  <2>3. \A t \in TokenList(tick) : \E id \in ids : f[id] = t
    BY <1>2
  <2> HIDE DEF f
  <2>4. f \in Bijection(ids, TokenList(tick))
    BY <2>1, <2>2, <2>3 DEF Bijection, Injection, IsInjective, Surjection
  <2>5. QED BY <2>4 DEF ExistsBijection
<1>5. Cardinality(TokenList(tick)) = LastSeq(tick)
  BY <1>1, <1>4, FS_Bijection
<1>6. CollectionLookup(tick).minted = LastSeq(tick)
  BY DEF CollectionLookup, CollectionAt, Registered, RegistryRecorded, LedgerInv, Shown
<1>7. QED BY <1>5, <1>6

\* Every listing is of an owned token, sold by its owner, and a row of its own.
LEMMA ListingRows ==
    ASSUME LedgerInv, TablesShaped, AnswersApart, NEW key \in DOMAIN listings
    PROVE  /\ key = <<key[1], key[2]>> /\ key \in DOMAIN current_ownership
           /\ current_ownership[key].owner = listings[key].seller
           /\ listings[key] \notin {None, Failed}
<1>1. /\ key \in DOMAIN current_ownership /\ key = <<key[1], key[2]>>
      /\ current_ownership[key].owner = listings[key].seller
  BY DEF LedgerInv, ListingInv, ListingsBacked, ListingsLast
<1>2. listings[key] \notin {None, Failed}
  BY Rows DEF TablesShaped, AnswersApart
<1>3. QED BY <1>1, <1>2

\* krc721_active_listings finds the entry of every key of the index.
LEMMA ActiveAre ==
    ASSUME LedgerInv, TablesShaped, AnswersApart, NEW tick, Registered(tick)
    PROVE  ActiveListings(tick) =
               {[tick |-> k[1], token |-> k[2], listing |-> listings[k]] :
                   k \in {x \in DOMAIN listings : x[1] = tick}}
<1> DEFINE keys == {x \in listings_by_tick : x[1] = tick}
           row(k) == [tick |-> k[1], token |-> k[2], listing |-> listings[k]]
<1>1. listings_by_tick = DOMAIN listings
  BY DEF LedgerInv, ListingInv, ListingsBacked
<1>2. ASSUME NEW k \in keys PROVE ListingEntry(k[1], k[2]) = row(k)
  <2>1. k \in DOMAIN listings /\ k = <<k[1], k[2]>>
    BY <1>1, ListingRows
  <2>2. QED BY <2>1 DEF ListingEntry
<1>3. \A k : row(k) # Failed
  BY Rows DEF AnswersApart
<1>4. ActiveListings(tick) = Answered({ListingEntry(k[1], k[2]) : k \in keys})
  BY DEF ActiveListings
<1>5. {ListingEntry(k[1], k[2]) : k \in keys} = {row(k) : k \in keys}
  BY <1>2
<1>6. Answered({row(k) : k \in keys}) = {row(k) : k \in keys}
  <2> HIDE DEF row, keys
  <2>1. \A x \in {row(k) : k \in keys} : x # Failed
    BY <1>3
  <2>2. QED BY <2>1, AnsweredIs
<1>7. keys = {x \in DOMAIN listings : x[1] = tick}
  BY <1>1
<1> HIDE DEF keys, row
<1>8. ActiveListings(tick) = {row(k) : k \in keys}
  BY <1>4, <1>5, <1>6
<1>9. QED BY <1>7, <1>8 DEF row

\* krc721_token_history_list meets the operation of every change of hands.
LEMMA HistoryRows ==
    ASSUME LedgerInv, AnswersApart, NEW tick, Shown(tick), NEW id
    PROVE  TokenHistory(tick, id) =
               {[owner |-> ownership_history[k], op_score_modified |-> k[3],
                 tx |-> operation_history[k[3]].op.tx] :
                   k \in {x \in DOMAIN ownership_history : <<x[1], x[2]>> = <<tick, id>>}}
<1> DEFINE keys == {x \in DOMAIN ownership_history : <<x[1], x[2]>> = <<tick, id>>}
           row(k) == [owner |-> ownership_history[k], op_score_modified |-> k[3],
                      tx |-> operation_history[k[3]].op.tx]
           entry(k) == IF k[3] \in DOMAIN operation_history THEN row(k) ELSE Failed
<1>1. TokenHistory(tick, id) = Answered({entry(k) : k \in keys})
  BY DEF TokenHistory
<1>2. \A k \in keys : entry(k) = row(k)
  BY RowsRecorded
<1>3. \A k : row(k) # Failed
  BY Rows DEF AnswersApart
<1> HIDE DEF entry, row, keys
<1>4. {entry(k) : k \in keys} = {row(k) : k \in keys}
  BY <1>2
<1>5. \A x \in {row(k) : k \in keys} : x # Failed
  BY <1>3
<1>6. TokenHistory(tick, id) = {row(k) : k \in keys}
  BY <1>1, <1>4, <1>5, AnsweredIs
<1>7. QED BY <1>6 DEF row, keys

\* The newest history entry of a token is the one of its owner, and its operation
\* is found by its transaction.
LEMMA NewestEntry ==
    ASSUME LedgerInv, AnswersApart, NEW tick, Shown(tick), NEW t \in TokenList(tick)
    PROVE  \E h \in TokenHistory(tick, t.token) :
              /\ h.owner = t.owner /\ h.op_score_modified = t.op_score_modified
              /\ OpByTxid(h.tx) # None /\ OpByTxid(h.tx).score = h.op_score_modified
              /\ \A g \in TokenHistory(tick, t.token) : g.op_score_modified <= h.op_score_modified
<1>1. PICK id : <<tick, id>> \in DOMAIN current_ownership /\ t = Token(tick, id)
  BY TokensAre
<1> DEFINE current == current_ownership[<<tick, id>>]
           mod == current.mod_tx_score
           tx == operation_history[mod].op.tx
           h == [owner |-> current.owner, op_score_modified |-> mod, tx |-> tx]
<1>2. t.token = id /\ t.owner = current.owner /\ t.op_score_modified = mod
  BY <1>1 DEF Token
<1>3. OwnershipConsistent
  BY DEF LedgerInv
<1>4. PICK r : r = <<tick, id, mod>>
  OBVIOUS
<1>5. /\ r \in DOMAIN ownership_history /\ <<r[1], r[2]>> = <<tick, id>> /\ r[3] = mod
      /\ ownership_history[r] = current.owner
  <2>1. PICK key : key = <<tick, id>>
    OBVIOUS
  <2>2. key \in DOMAIN current_ownership /\ key[1] = tick /\ key[2] = id
    BY <1>1, <2>1
  <2>3. <<key[1], key[2], current_ownership[key].mod_tx_score>> \in DOMAIN ownership_history
    BY <1>3, <2>2 DEF OwnershipConsistent
  <2>4. r \in DOMAIN ownership_history
    BY <1>4, <2>1, <2>2, <2>3
  <2>5. <<r[1], r[2]>> = <<tick, id>> /\ r[3] = mod
    BY <1>4
  <2> HIDE DEF mod
  <2>6. ownership_history[r] = current.owner
    BY <1>3, <2>4, <2>5 DEF OwnershipConsistent, mod
  <2>7. QED BY <2>4, <2>5, <2>6
<1>6. /\ mod \in DOMAIN operation_history
      /\ tx \in DOMAIN tx_id_to_opscore /\ tx_id_to_opscore[tx] = mod
  <2>1. mod \in DOMAIN operation_history
    BY <1>5, RowsRecorded
  <2>2. QED BY <2>1 DEF LedgerInv, ChainInv, OperationsIndexed
<1>7. OpByTxid(tx) # None /\ OpByTxid(tx).score = mod
  BY <1>6, Rows DEF OpByTxid, AnswersApart
<1> DEFINE keys == {x \in DOMAIN ownership_history : <<x[1], x[2]>> = <<tick, id>>}
           row(k) == [owner |-> ownership_history[k], op_score_modified |-> k[3],
                      tx |-> operation_history[k[3]].op.tx]
<1>8. TokenHistory(tick, t.token) = {row(k) : k \in keys}
  BY <1>2, HistoryRows
<1>9. h \in TokenHistory(tick, t.token)
  <2>1. r \in keys
    BY <1>5
  <2>2. h = row(r)
    BY <1>5
  <2> HIDE DEF keys, row, h
  <2>3. QED BY <1>8, <2>1, <2>2
<1>10. ASSUME NEW g \in TokenHistory(tick, t.token) PROVE g.op_score_modified <= mod
  <2>1. PICK k \in keys : g.op_score_modified = k[3]
    <3>1. \A k : row(k).op_score_modified = k[3]
      OBVIOUS
    <3> HIDE DEF keys, row
    <3>2. QED BY <1>8, <1>10, <3>1
  <2>2. QED BY <1>3, <2>1 DEF OwnershipConsistent
<1>11. h.owner = current.owner /\ h.op_score_modified = mod /\ h.tx = tx
  OBVIOUS
<1> HIDE DEF h, mod, tx, current
<1>12. QED BY <1>2, <1>7, <1>9, <1>10, <1>11

\* The holdings of an address are the tokens it owns.
LEMMA HoldingsAre ==
    ASSUME LedgerInv
    PROVE  /\ \A key \in DOMAIN current_ownership :
                 \A k : k = <<current_ownership[key].owner, key[1], key[2]>> =>
                        /\ k \in DOMAIN address_holdings
                        /\ address_holdings[k] = current_ownership[key].mod_tx_score
           /\ \A k \in DOMAIN address_holdings : \E key \in DOMAIN current_ownership :
                 k = <<current_ownership[key].owner, key[1], key[2]>>
<1>1. OwnershipConsistent
  BY DEF LedgerInv
<1>2. DOMAIN address_holdings =
         {<<current_ownership[key].owner, key[1], key[2]>> : key \in DOMAIN current_ownership}
  BY <1>1 DEF OwnershipConsistent
<1>3. ASSUME NEW key \in DOMAIN current_ownership, NEW k,
             k = <<current_ownership[key].owner, key[1], key[2]>>
      PROVE  address_holdings[k] = current_ownership[key].mod_tx_score
  <2>1. k \in DOMAIN address_holdings
    BY <1>2, <1>3
  <2>2. <<k[2], k[3]>> = key
    BY <1>3, OwnedPairs
  <2>3. QED BY <1>1, <2>1, <2>2 DEF OwnershipConsistent
<1>4. QED BY <1>2, <1>3

\* The list of an address in a collection is of the tokens shown as its own.
LEMMA HoldingsShown ==
    ASSUME LedgerInv, NEW tick, Shown(tick), NEW spk
    PROVE  AddressNftLookup(spk, tick) =
               {[tick |-> tick, token |-> t.token, op_score_modified |-> t.op_score_modified,
                 listing |-> t.listing] : t \in {x \in TokenList(tick) : x.owner = spk}}
<1> DEFINE keys == {x \in DOMAIN address_holdings : <<x[1], x[2]>> = <<spk, tick>>}
           entry(t) == [tick |-> tick, token |-> t.token,
                        op_score_modified |-> t.op_score_modified, listing |-> t.listing]
           owned == {x \in TokenList(tick) : x.owner = spk}
<1>1. AddressNftLookup(spk, tick) = {Holding(k) : k \in keys}
  BY DEF AddressNftLookup
<1>2. ASSUME NEW id, <<tick, id>> \in DOMAIN current_ownership,
             current_ownership[<<tick, id>>].owner = spk
      PROVE  \E k \in keys : k = <<spk, tick, id>> /\ Holding(k) = entry(Token(tick, id))
  <2>1. PICK key : key = <<tick, id>>
    OBVIOUS
  <2>2. key \in DOMAIN current_ownership /\ key[1] = tick /\ key[2] = id
    BY <1>2, <2>1
  <2>3. PICK k : k = <<current_ownership[key].owner, key[1], key[2]>>
    OBVIOUS
  <2>4. /\ k \in DOMAIN address_holdings
        /\ address_holdings[k] = current_ownership[key].mod_tx_score
    BY <2>2, <2>3, HoldingsAre
  <2>5. k = <<spk, tick, id>> /\ k[1] = spk /\ k[2] = tick /\ k[3] = id
    BY <1>2, <2>1, <2>2, <2>3
  <2>6. k \in keys
    BY <2>4, <2>5
  <2>7. Holding(k) = entry(Token(tick, id))
    <3>1. Holding(k) = [tick |-> tick, token |-> id,
                        op_score_modified |-> current_ownership[key].mod_tx_score,
                        listing |-> TokenListing(tick, id)]
      BY <2>4, <2>5 DEF Holding
    <3>2. entry(Token(tick, id)) = [tick |-> tick, token |-> id,
                        op_score_modified |-> current_ownership[key].mod_tx_score,
                        listing |-> TokenListing(tick, id)]
      BY <2>1 DEF Token
    <3>3. QED BY <3>1, <3>2
  <2> HIDE DEF keys, entry
  <2>8. QED BY <2>5, <2>6, <2>7
<1>3. ASSUME NEW k \in keys
      PROVE  \E id : /\ k = <<spk, tick, id>> /\ <<tick, id>> \in DOMAIN current_ownership
                     /\ current_ownership[<<tick, id>>].owner = spk
  <2>1. PICK key \in DOMAIN current_ownership :
           k = <<current_ownership[key].owner, key[1], key[2]>>
    BY HoldingsAre
  <2>2. key = <<key[1], key[2]>>
    BY OwnedPairs
  <2>3. current_ownership[key].owner = spk /\ key[1] = tick
    BY <2>1
  <2>4. QED BY <2>1, <2>2, <2>3
<1>4. \A t : t \in owned <=> \E id : /\ <<tick, id>> \in DOMAIN current_ownership
                                    /\ t = Token(tick, id)
                                    /\ current_ownership[<<tick, id>>].owner = spk
  <2>1. \A id, t : t = Token(tick, id) => t.owner = current_ownership[<<tick, id>>].owner
    BY DEF Token
  <2>2. \A t : t \in owned <=> t \in TokenList(tick) /\ t.owner = spk
    OBVIOUS
  <2>3. \A t : t \in TokenList(tick) <=>
                   \E id : <<tick, id>> \in DOMAIN current_ownership /\ t = Token(tick, id)
    BY TokensAre
  <2> HIDE DEF owned
  <2> HIDE DEF Token
  <2>4. ASSUME NEW t
        PROVE  t \in owned <=> \E id : /\ <<tick, id>> \in DOMAIN current_ownership
                                       /\ t = Token(tick, id)
                                       /\ current_ownership[<<tick, id>>].owner = spk
    <3>1. t \in owned <=> t \in TokenList(tick) /\ t.owner = spk
      BY <2>2
    <3>2. t \in TokenList(tick) <=>
              \E id : <<tick, id>> \in DOMAIN current_ownership /\ t = Token(tick, id)
      BY <2>3
    <3>3. \A id : t = Token(tick, id) => t.owner = current_ownership[<<tick, id>>].owner
      BY <2>1
    <3>4. QED BY <3>1, <3>2, <3>3, Zenon
  <2>5. QED BY <2>4
<1> HIDE DEF keys, entry, owned
<1>5. ASSUME NEW x
      PROVE  x \in {Holding(k) : k \in keys} <=> x \in {entry(t) : t \in owned}
  <2>1. ASSUME NEW k \in keys, x = Holding(k) PROVE \E t \in owned : x = entry(t)
    <3>1. PICK id : /\ k = <<spk, tick, id>> /\ <<tick, id>> \in DOMAIN current_ownership
                    /\ current_ownership[<<tick, id>>].owner = spk
      BY <1>3
    <3>2. PICK l \in keys : l = <<spk, tick, id>> /\ Holding(l) = entry(Token(tick, id))
      BY <1>2, <3>1
    <3>3. k = l
      BY <3>1, <3>2
    <3>4. Token(tick, id) \in owned
      BY <1>4, <3>1
    <3>5. QED BY <2>1, <3>2, <3>3, <3>4
  <2>2. ASSUME NEW t \in owned, x = entry(t) PROVE \E k \in keys : x = Holding(k)
    <3>1. PICK id : /\ <<tick, id>> \in DOMAIN current_ownership /\ t = Token(tick, id)
                    /\ current_ownership[<<tick, id>>].owner = spk
      BY <1>4
    <3>2. PICK k \in keys : Holding(k) = entry(Token(tick, id))
      BY <1>2, <3>1
    <3>3. QED BY <2>2, <3>1, <3>2
  <2>3. QED BY <2>1, <2>2
<1>6. {Holding(k) : k \in keys} = {entry(t) : t \in owned}
  BY <1>5
<1>7. QED BY <1>1, <1>6 DEF keys, entry, owned

\* The list of an address is its lists in the collections: every holding is of a
\* registered collection.
LEMMA HoldingsInAll ==
    ASSUME LedgerInv, AnswersApart, NEW spk
    PROVE  AddressNftList(spk) = UNION {AddressNftLookup(spk, t) : t \in Ticks}
<1> DEFINE shown(tick) == {k \in DOMAIN address_holdings : <<k[1], k[2]>> = <<spk, tick>>}
           keys == {x \in DOMAIN address_holdings :
                       x[1] = spk /\ (Registered(x[2]) => ~ Hidden(x[2]))}
           entry(k) == IF Registered(k[2]) THEN Holding(k) ELSE Failed
<1>1. ASSUME NEW k \in DOMAIN address_holdings PROVE Registered(k[2]) /\ k[2] \in Ticks
  <2>1. PICK key \in DOMAIN current_ownership :
           k = <<current_ownership[key].owner, key[1], key[2]>>
    BY HoldingsAre
  <2>2. k[2] = key[1]
    BY <2>1
  <2>3. QED BY <2>2, OwnedPairs DEF Registered
<1>2. \A k \in keys : entry(k) = Holding(k)
  BY <1>1
<1>3. \A k : Holding(k) # Failed
  BY Rows DEF Holding, AnswersApart
<1>4. AddressNftList(spk) = Answered({entry(k) : k \in keys})
  BY DEF AddressNftList
<1>5. \A tick : AddressNftLookup(spk, tick) =
                    IF Shown(tick) THEN {Holding(k) : k \in shown(tick)} ELSE {}
  BY DEF AddressNftLookup
<1>6. \A k : k \in keys <=> \E tick \in Ticks : Shown(tick) /\ k \in shown(tick)
  BY <1>1 DEF Shown
<1> HIDE DEF keys, shown, entry
<1>7. AddressNftList(spk) = {Holding(k) : k \in keys}
  <2>1. {entry(k) : k \in keys} = {Holding(k) : k \in keys}
    BY <1>2
  <2>2. \A x \in {Holding(k) : k \in keys} : x # Failed
    BY <1>3
  <2>3. QED BY <1>4, <2>1, <2>2, AnsweredIs
<1>8. ASSUME NEW x
      PROVE  x \in {Holding(k) : k \in keys} <=> \E t \in Ticks : x \in AddressNftLookup(spk, t)
  <2>1. x \in {Holding(k) : k \in keys} <=> \E k \in keys : x = Holding(k)
    OBVIOUS
  <2>2. \A t : x \in AddressNftLookup(spk, t) <=> Shown(t) /\ \E k \in shown(t) : x = Holding(k)
    BY <1>5
  <2>3. QED BY <1>6, <2>1, <2>2
<1>9. QED BY <1>7, <1>8

\* The tokens shown as listed are the active listings, and each is sold by its owner.
LEMMA ListedShown ==
    ASSUME LedgerInv, TablesShaped, AnswersApart, NEW tick, Shown(tick)
    PROVE  /\ ActiveListings(tick) =
                 {[tick |-> tick, token |-> t.token, listing |-> t.listing] :
                     t \in {x \in TokenList(tick) : x.listing # None}}
           /\ \A t \in TokenList(tick) : t.listing # None => t.listing.seller = t.owner
<1> DEFINE keys == {x \in DOMAIN listings : x[1] = tick}
           row(k) == [tick |-> k[1], token |-> k[2], listing |-> listings[k]]
           listed == {x \in TokenList(tick) : x.listing # None}
           entry(t) == [tick |-> tick, token |-> t.token, listing |-> t.listing]
<1>1. ActiveListings(tick) = {row(k) : k \in keys}
  BY ActiveAre DEF Shown
<1>2. ASSUME NEW id, <<tick, id>> \in DOMAIN listings
      PROVE  /\ <<tick, id>> \in DOMAIN current_ownership
             /\ Token(tick, id).listing = listings[<<tick, id>>]
             /\ Token(tick, id).listing # None
             /\ Token(tick, id).listing.seller = Token(tick, id).owner
  <2>1. Token(tick, id).listing = listings[<<tick, id>>]
    BY <1>2 DEF Token, TokenListing
  <2>2. Token(tick, id).owner = current_ownership[<<tick, id>>].owner
    BY DEF Token
  <2>3. QED BY <1>2, <2>1, <2>2, ListingRows
<1>3. \A id : <<tick, id>> \notin DOMAIN listings => Token(tick, id).listing = None
  BY DEF Token, TokenListing
<1>4. \A k \in keys : k = <<tick, k[2]>>
  BY ListingRows
<1>5. ASSUME NEW id, <<tick, id>> \in DOMAIN listings
      PROVE  \E k \in keys : k = <<tick, id>> /\ row(k) = entry(Token(tick, id))
  <2>1. PICK k : k = <<tick, id>>
    OBVIOUS
  <2>2. k \in keys /\ k[1] = tick /\ k[2] = id
    BY <1>5, <2>1
  <2>3. row(k) = [tick |-> tick, token |-> id, listing |-> listings[k]]
    BY <2>2
  <2>4. entry(Token(tick, id)) = [tick |-> tick, token |-> id, listing |-> listings[k]]
    <3>1. Token(tick, id).token = id
      BY DEF Token
    <3>2. QED BY <1>2, <1>5, <2>1, <3>1
  <2> HIDE DEF keys, row, entry
  <2>5. QED BY <2>1, <2>2, <2>3, <2>4
<1>6. \A t : t \in listed <=> \E id : <<tick, id>> \in DOMAIN listings /\ t = Token(tick, id)
  <2>1. \A t : t \in listed <=> t \in TokenList(tick) /\ t.listing # None
    OBVIOUS
  <2>2. \A t : t \in TokenList(tick) <=>
                   \E id : <<tick, id>> \in DOMAIN current_ownership /\ t = Token(tick, id)
    BY TokensAre
  <2>3. \A id : Token(tick, id).listing # None => <<tick, id>> \in DOMAIN listings
    BY <1>3
  <2>4. \A id : <<tick, id>> \in DOMAIN listings =>
                   <<tick, id>> \in DOMAIN current_ownership /\ Token(tick, id).listing # None
    BY <1>2
  <2> HIDE DEF listed
  <2>5. QED BY <2>1, <2>2, <2>3, <2>4, Zenon
<1>6a. \A k \in keys : k \in DOMAIN listings
  OBVIOUS
<1> HIDE DEF keys, row, listed, entry
<1>7. ASSUME NEW x PROVE x \in {row(k) : k \in keys} <=> x \in {entry(t) : t \in listed}
  <2>1. ASSUME NEW k \in keys, x = row(k) PROVE \E t \in listed : x = entry(t)
    <3>1. PICK id : id = k[2]
      OBVIOUS
    <3>2. k = <<tick, id>> /\ <<tick, id>> \in DOMAIN listings
      BY <1>4, <1>6a, <3>1
    <3>3. row(k) = entry(Token(tick, id))
      BY <1>5, <3>2
    <3>4. QED BY <1>6, <2>1, <3>2, <3>3
  <2>2. ASSUME NEW t \in listed, x = entry(t) PROVE \E k \in keys : x = row(k)
    <3>1. PICK id : <<tick, id>> \in DOMAIN listings /\ t = Token(tick, id)
      BY <1>6
    <3>2. QED BY <1>5, <2>2, <3>1
  <2>3. QED BY <2>1, <2>2
<1>8. {row(k) : k \in keys} = {entry(t) : t \in listed}
  BY <1>7
<1>9. ASSUME NEW t \in TokenList(tick), t.listing # None PROVE t.listing.seller = t.owner
  <2>1. PICK id : t = Token(tick, id)
    BY TokensAre
  <2>2. QED BY <1>2, <1>3, <1>9, <2>1
<1>10. QED BY <1>1, <1>8, <1>9 DEF entry, listed

LEMMA AnswersAgree ==
    ASSUME AnswersApart
    PROVE  LedgerInv /\ TablesShaped => ViewsAgree
<1>1. SUFFICES ASSUME LedgerInv, TablesShaped PROVE ViewsAgree
  OBVIOUS
<1>2. ASSUME NEW tick \in Ticks, Shown(tick)
      PROVE  LET tokens == TokenList(tick)
             IN  /\ CollectionLookup(tick) \in CollectionList
                 /\ CollectionLookup(tick).minted = Cardinality(tokens)
                 /\ ActiveListings(tick) = {[tick |-> tick, token |-> t.token, listing |-> t.listing] :
                                               t \in {x \in tokens : x.listing # None}}
                 /\ \A t \in tokens :
                       /\ t.listing # None => t.listing.seller = t.owner
                       /\ \E h \in TokenHistory(tick, t.token) :
                             /\ h.owner = t.owner /\ h.op_score_modified = t.op_score_modified
                             /\ OpByTxid(h.tx) # None /\ OpByTxid(h.tx).score = h.op_score_modified
                             /\ \A g \in TokenHistory(tick, t.token) :
                                    g.op_score_modified <= h.op_score_modified
                 /\ \A spk \in Addresses :
                       AddressNftLookup(spk, tick) =
                           {[tick |-> tick, token |-> t.token, op_score_modified |-> t.op_score_modified,
                             listing |-> t.listing] : t \in {x \in tokens : x.owner = spk}}
  BY <1>1, <1>2, AnswersApart, CollectionsListed, TokensCounted, ListedShown, NewestEntry, HoldingsShown
<1>3. \A spk \in Addresses : AddressNftList(spk) = UNION {AddressNftLookup(spk, t) : t \in Ticks}
  BY <1>1, HoldingsInAll
<1>4. QED BY <1>2, <1>3 DEF ViewsAgree

\* The queries tell one story, whichever table they read, at every moment: the owner,
\* the history, the holdings, the number of tokens and the listings a client sees
\* agree, no row of an index leads nowhere, and no expect or unwrap of these queries
\* panics.
THEOREM ViewsAgreeAlways ==
    ASSUME AnswersApart
    PROVE  Spec => []ViewsAgree
<1>1. LedgerInv /\ TablesShaped => ViewsAgree
  BY AnswersAgree
<1>2. Spec => [](LedgerInv /\ TablesShaped)
  BY LedgerAlways, ReplayAlways, PTL
<1>3. QED BY <1>1, <1>2, PTL

\* The premint has the first ids of a collection.
LEMMA PremintMinted ==
    ASSUME LedgerInv, NEW tick \in DOMAIN collection_registry
    PROVE  1..DeployOf(tick).premint \subseteq {m.token : m \in MintsOf(tick)}
<1> DEFINE premint == DeployOf(tick).premint
           max     == DeployOf(tick).max
           mints   == MintsOf(tick)
<1>1. PICK n, token, score, trail :
         Numbered(tick, premint, max, collection_registry[tick].score, DOMAIN operation_history,
                  mints, alloc[tick], n, token, score, trail)
  BY DEF LedgerInv, MintsRecorded, MintsInOrder
<1>2. Supply(premint, max)
  BY LedgerAssumption DEF LedgerInv, RegistryRecorded, Supply
<1> DEFINE row(i) == [tick |-> tick, seq |-> i, token |-> token[i], score |-> score[i]]
<1>3. \A i : row(i).token = token[i]
  OBVIOUS
<1> HIDE DEF premint, max, mints, row
<1>4. premint \in Nat /\ max \in Nat /\ n \in premint..max
  BY <1>1, <1>2 DEF Numbered, Supply
<1>5. mints = {row(i) : i \in 1..n} /\ \A i \in 1..premint : token[i] = i
  BY <1>1 DEF Numbered, row
<1>6. ASSUME NEW i \in 1..premint PROVE \E m \in mints : m.token = i
  <2>1. i \in 1..n
    BY <1>4
  <2>2. row(i) \in mints /\ row(i).token = i
    BY <1>3, <1>5, <2>1
  <2>3. QED BY <2>2
<1>7. QED BY <1>6 DEF premint, mints

\* krc721_available_token_id_ranges shows the ids nobody has.
LEMMA AvailableAre ==
    ASSUME LedgerInv, NEW tick \in Ticks, Shown(tick)
    PROVE  AvailableTokenIds(tick) = (1..DeployOf(tick).max) \ {t.token : t \in TokenList(tick)}
<1> DEFINE premint == DeployOf(tick).premint
           max     == DeployOf(tick).max
           ids     == {m.token : m \in MintsOf(tick)}
           drawn   == {m.token : m \in {x \in MintsOf(tick) : x.token > premint}}
           a       == alloc[tick]
           free    == UNION {a.ranges[i][1]..(a.ranges[i][1] + a.ranges[i][2] - 1) : i \in DOMAIN a.ranges}
<1>1. tick \in DOMAIN collection_registry
  BY DEF Shown, Registered
<1>2. premint \in Nat /\ max \in Nat /\ premint <= max
  BY <1>1, LedgerAssumption DEF LedgerInv, RegistryRecorded
<1>3. /\ DOMAIN a.ranges = 0..(a.len - 1)
      /\ drawn = {} => a.len = 0
      /\ drawn # {} => free = ((premint + 1)..max) \ drawn
  BY AllocatorHolds DEF AllocatorInStep
<1>4. drawn = {x \in ids : x > premint}
  OBVIOUS
<1>5. /\ IsFiniteSet(ids) /\ Cardinality(ids) = LastSeq(tick) /\ ids \subseteq 1..max
      /\ LastSeq(tick) \in premint..max
      /\ {m.seq : m \in MintsOf(tick)} = 1..LastSeq(tick)
  BY <1>1, MintedCount
<1>6. 1..premint \subseteq ids
  BY <1>1, PremintMinted
<1>7. {t.token : t \in TokenList(tick)} = ids
  <2>1. \A id : Token(tick, id).token = id
    BY DEF Token
  <2>2. ASSUME NEW id PROVE id \in {t.token : t \in TokenList(tick)} <=> id \in ids
    <3>1. id \in {t.token : t \in TokenList(tick)} <=> \E t \in TokenList(tick) : t.token = id
      OBVIOUS
    <3>2. \A t : t \in TokenList(tick) <=>
                     \E x : <<tick, x>> \in DOMAIN current_ownership /\ t = Token(tick, x)
      BY TokensAre
    <3>3. <<tick, id>> \in DOMAIN current_ownership <=> id \in ids
      BY MintedIds
    <3> HIDE DEF ids
    <3>4. QED BY <2>1, <3>1, <3>2, <3>3
  <2> HIDE DEF ids
  <2>3. QED BY <2>2
<1>8. LastMint(tick) = {} <=> LastSeq(tick) = 0
  <2>1. LastSeq(tick) \in Nat
    BY <1>2, <1>5
  <2>2. LastMint(tick) = {m \in MintsOf(tick) : m.seq = LastSeq(tick)}
    BY DEF LastMint, MintsOf
  <2>3. CASE LastSeq(tick) = 0
    <3>1. 0 \notin {m.seq : m \in MintsOf(tick)}
      BY <1>5, <2>3
    <3>2. QED BY <2>2, <2>3, <3>1
  <2>4. CASE LastSeq(tick) # 0
    <3>1. LastSeq(tick) \in {m.seq : m \in MintsOf(tick)}
      BY <1>5, <2>1, <2>4
    <3>2. QED BY <2>2, <2>4, <3>1
  <2>5. QED BY <2>3, <2>4
<1>9. AvailableTokenIds(tick) =
         IF LastMint(tick) = {} THEN 1..max
         ELSE IF LastSeq(tick) = max THEN {}
         ELSE IF DOMAIN a.ranges = {} THEN (premint + 1)..max
         ELSE free
  BY DEF AvailableTokenIds, Shown
<1> HIDE DEF premint, max, ids, drawn, free, a
<1>10. CASE LastSeq(tick) = 0
  <2>1. ids = {}
    BY <1>5, <1>10, FS_EmptySet
  <2>2. QED BY <1>7, <1>8, <1>9, <1>10, <2>1 DEF max
<1>11. ids = 1..max <=> LastSeq(tick) = max
  <2>1. IsFiniteSet(1..max) /\ Cardinality(1..max) = max
    BY <1>2, FS_Interval
  <2>2. QED BY <1>5, <2>1, FS_Subset
<1>12. CASE LastSeq(tick) # 0 /\ LastSeq(tick) = max
  BY <1>7, <1>8, <1>9, <1>11, <1>12 DEF max
<1>13. CASE LastSeq(tick) # 0 /\ LastSeq(tick) # max /\ drawn = {}
  <2>1. DOMAIN a.ranges = {}
    BY <1>3, <1>13
  <2>2. ids = 1..premint
    <3>1. \A x \in ids : x \in Nat /\ x >= 1 /\ ~ (x > premint)
      BY <1>2, <1>4, <1>5, <1>13
    <3>2. \A x \in ids : x \in 1..premint
      BY <1>2, <3>1
    <3>3. QED BY <1>6, <3>2
  <2>3. (1..max) \ (1..premint) = (premint + 1)..max
    BY <1>2
  <2>4. QED BY <1>7, <1>8, <1>9, <1>13, <2>1, <2>2, <2>3 DEF max
<1>14. CASE LastSeq(tick) # 0 /\ LastSeq(tick) # max /\ drawn # {}
  <2>1. free = ((premint + 1)..max) \ drawn
    BY <1>3, <1>14
  <2>2. ((premint + 1)..max) \ drawn = (1..max) \ ids
    BY <1>2, <1>4, <1>5, <1>6
  <2>3. DOMAIN a.ranges # {}
    <3>1. ASSUME DOMAIN a.ranges = {} PROVE FALSE
      <4>1. free = {}
        BY <3>1 DEF free
      <4>2. ids = 1..max
        BY <1>5, <2>1, <2>2, <4>1
      <4>3. QED BY <1>11, <1>14, <4>2
    <3>2. QED BY <3>1
  <2>4. QED BY <1>7, <1>8, <1>9, <1>14, <2>1, <2>2, <2>3 DEF max
<1>15. QED BY <1>10, <1>12, <1>13, <1>14

\* A royalty with another fee is still a royalty.
RoyaltiesApart ==
    \A op \in Ops : \A fee \in Nat :
        op.kind = "deploy" /\ op.royalty # None => [op.royalty EXCEPT !.fee = fee] # None

\* The fee process_mint asks of an address, whatever fee is asked of others: the one
\* its latest discount grants, if it has one.
LEMMA FeeGranted ==
    ASSUME LedgerInv, StatsInv, NEW to, NEW tick
    PROVE  IF \E v \in vip : v.spk = to /\ v.tick = tick
           THEN \A fee : RequiredFee(to, tick, fee) = RequiredFee(to, tick, 0)
                         /\ RequiredFee(to, tick, 0) \in Nat
           ELSE \A fee : RequiredFee(to, tick, fee) = fee
<1> DEFINE granted == {v \in vip : v.spk = to /\ v.tick = tick}
           latest  == CHOOSE v \in granted : \A w \in granted : w.score <= v.score
<1>1. \A fee : RequiredFee(to, tick, fee) = IF granted = {} THEN fee ELSE latest.fee
  BY DEF RequiredFee
<1>2. \A v \in granted : v.fee \in Nat /\ v.score \in Nat /\ v.score <= Now
  <2>1. SUFFICES ASSUME NEW v \in granted PROVE v.fee \in Nat /\ v.score \in Nat /\ v.score <= Now
    OBVIOUS
  <2>2. PICK s \in Standing("discount") : v = Granted(s)
    BY StandIsGranted DEF LedgerInv, DiscountInv
  <2>3. /\ s \in DOMAIN operation_history /\ operation_history[s].op.kind = "discount"
        /\ operation_history[s].op \in Ops
    BY <2>2 DEF Standing, StatsInv
  <2>4. v.fee = operation_history[s].op.fee /\ v.score = s
    BY <2>2 DEF Granted
  <2>5. s \in Nat /\ s < Now /\ Now \in Nat
    BY <2>3, RowsRecorded
  <2>6. QED BY <2>3, <2>4, <2>5, LedgerAssumption
<1>3. granted # {} => latest \in granted
  <2>1. SUFFICES ASSUME granted # {} PROVE latest \in granted
    OBVIOUS
  <2> DEFINE scores == {v.score : v \in granted}
  <2>2. scores \in SUBSET Nat /\ scores # {} /\ \A n \in scores : n <= Now
    <3> HIDE DEF granted
    <3> QED BY <1>2, <2>1
  <2>3. Now \in Nat
    BY RowsRecorded
  <2>4. PICK n \in scores : \A m \in scores : m <= n
    <3> HIDE DEF scores
    <3> QED BY <2>2, <2>3, GreatestNat
  <2> HIDE DEF granted
  <2>5. PICK v \in granted : v.score = n
    BY <2>4
  <2>6. \A w \in granted : w.score <= v.score
    BY <2>4, <2>5
  <2>7. QED BY <2>6
<1>4. (\E v \in vip : v.spk = to /\ v.tick = tick) <=> granted # {}
  OBVIOUS
<1> HIDE DEF granted, latest
<1>5. QED BY <1>1, <1>2, <1>3, <1>4

\* The fee shown to an address is the least its mint has to pay.
LEMMA FeesAre ==
    ASSUME LedgerInv, StatsInv, RoyaltiesApart, NEW tick \in Ticks, Shown(tick),
           DeployOf(tick).royalty # None,
           NEW op \in Ops, op.kind = "mint", op.tick = tick
    PROVE  LET royalty == DeployOf(tick).royalty
               shown == RoyaltyFee(op.to, tick)
               error(fee) == RoyaltyError([op EXCEPT !.royalty = [royalty EXCEPT !.fee = fee]],
                                          DeployOf(tick))
           IN  error(shown) = None /\ (shown > 0 => error(shown - 1) # None)
<1> DEFINE royalty == DeployOf(tick).royalty
           shown == RoyaltyFee(op.to, tick)
           paid(fee) == [royalty EXCEPT !.fee = fee]
           offer(fee) == [op EXCEPT !.royalty = paid(fee)]
           error(fee) == RoyaltyError(offer(fee), DeployOf(tick))
<1>1. /\ DeployOf(tick) \in Ops /\ DeployOf(tick).kind = "deploy"
      /\ tick \in DOMAIN collection_registry
  BY DEF LedgerInv, RegistryRecorded, Shown, Registered
<1>2. /\ {"tick", "to", "royalty"} \subseteq DOMAIN op
      /\ {"fee", "beneficiary"} \subseteq DOMAIN royalty
  BY <1>1, ViewsAssumption
<1>3. royalty.fee \in Nat
  BY <1>1, LedgerAssumption
<1>4. \A fee : paid(fee).fee = fee /\ paid(fee).beneficiary = royalty.beneficiary
  BY <1>2
<1>5. \A fee \in Nat : paid(fee) # None
  BY <1>1 DEF RoyaltiesApart
<1>6. \A fee : /\ offer(fee).royalty = paid(fee) /\ offer(fee).to = op.to
               /\ offer(fee).tick = tick
  <2> HIDE DEF paid
  <2> QED BY <1>2
<1>7. shown \in Nat /\ RequiredFee(op.to, tick, royalty.fee) = shown
  <2>1. CASE \E v \in vip : v.spk = op.to /\ v.tick = tick
    <3>1. shown = RequiredFee(op.to, tick, 0)
      BY <2>1 DEF RoyaltyFee
    <3>2. QED BY <2>1, <3>1, FeeGranted
  <2>2. CASE ~ \E v \in vip : v.spk = op.to /\ v.tick = tick
    <3>1. shown = royalty.fee
      BY <2>2 DEF RoyaltyFee
    <3>2. QED BY <1>3, <2>2, <3>1, FeeGranted
  <2>3. QED BY <2>1, <2>2
<1> HIDE DEF royalty, shown, paid
<1>8. ASSUME NEW fee \in Nat
      PROVE  error(fee) = IF shown > fee THEN "InsufficientRoyaltyFee" ELSE None
  <2> HIDE DEF offer
  <2> QED BY <1>4, <1>5, <1>6, <1>7 DEF RoyaltyError, royalty
<1>9. "InsufficientRoyaltyFee" # None
  BY LedgerAssumption DEF CtxValidationError
<1> HIDE DEF error
<1>10. error(shown) = None
  BY <1>7, <1>8
<1>11. ASSUME shown > 0 PROVE error(shown - 1) # None
  <2>1. shown - 1 \in Nat /\ shown > shown - 1
    BY <1>7, <1>11
  <2>2. QED BY <1>8, <1>9, <2>1
<1>12. QED BY <1>10, <1>11 DEF error, offer, paid, shown, royalty

\* What clients are told about the next mint is right at every moment: the ids shown as
\* available are those nobody has, and the fee shown to an address is the least with
\* which process_mint lets its mint through.
THEOREM QuotesHoldAlways ==
    ASSUME RoyaltiesApart
    PROVE  Spec => []QuotesHold
<1>1. LedgerInv /\ StatsInv => QuotesHold
  BY AvailableAre, FeesAre DEF QuotesHold
<1>2. QED BY <1>1, LedgerAlways, StatsAlways, PTL

-----------------------------------------------------------------------------
(* Who the history of a token names, and whose scripts are shown.            *)

\* The operation recorded at s gave the token of the collection to the owner.
Gives(s, tick, token, owner) ==
    LET done == operation_history[s]
    IN  /\ done.error = None /\ done.op.tick = tick
        /\ \/ done.op.kind = "deploy" /\ owner = done.op.deployer
           \/ done.op.kind = "mint" /\ done.token = token /\ owner = done.op.to
           \/ done.op.kind = "transfer" /\ done.op.token = token /\ owner = done.op.to
           \/ /\ done.op.kind = "send" /\ done.op.token = token
              /\ done.op.buyer # None /\ owner = done.op.buyer

\* The rows of ownership_history are what the recorded operations gave to whom.
MovesRecorded ==
    /\ \A k \in DOMAIN ownership_history : Gives(k[3], k[1], k[2], ownership_history[k])
    /\ \A s \in DOMAIN operation_history : \A tick, token, owner :
          operation_history[s].op.kind # "deploy" /\ Gives(s, tick, token, owner) =>
              <<tick, token, s>> \in DOMAIN ownership_history

\* A recorded operation that gives the tokens of a set to an owner, and says so.
LEMMA MovesAdded ==
    ASSUME LedgerInv, MovesRecorded, NEW op, NEW id, NEW error, NEW tokens, NEW to,
           Arrives(op, op.kind), Record(op, id, error),
           ownership_history' =
               PutAll(ownership_history, {<<op.tick, t, Now>> : t \in tokens}, to),
           NEW now, now = Now,
           \A t \in tokens : Gives(now, op.tick, t, to)',
           \A tick, token, owner :
               op.kind # "deploy" /\ Gives(now, tick, token, owner)' => tick = op.tick /\ token \in tokens
    PROVE  MovesRecorded'
<1> DEFINE rows == {<<op.tick, t, now>> : t \in tokens}
<1>1. /\ DOMAIN operation_history' = DOMAIN operation_history \cup {now}
      /\ \A s \in DOMAIN operation_history : operation_history'[s] = operation_history[s]
      /\ operation_history'[now].op = op
      /\ \A s \in DOMAIN operation_history : s \in Nat /\ s < now
      /\ now \in Nat
  BY RecordFacts DEF LedgerInv
<1>2. /\ DOMAIN ownership_history' = DOMAIN ownership_history \cup rows
      /\ \A k \in DOMAIN ownership_history :
            k \notin rows => ownership_history'[k] = ownership_history[k]
      /\ \A k \in rows : ownership_history'[k] = to
  BY DEF PutAll
<1>3. \A k \in DOMAIN ownership_history : k[3] \in DOMAIN operation_history
  BY DEF LedgerInv, HistoryRecorded
<1>4. \A k \in rows : \E t \in tokens : k[1] = op.tick /\ k[2] = t /\ k[3] = now
  OBVIOUS
<1>5. \A t \in tokens : <<op.tick, t, now>> \in rows
  OBVIOUS
<1> HIDE DEF rows
<1>6. ASSUME NEW s \in DOMAIN operation_history, NEW tick, NEW token, NEW owner
      PROVE  Gives(s, tick, token, owner)' <=> Gives(s, tick, token, owner)
  BY <1>1 DEF Gives
<1>7. ASSUME NEW k \in DOMAIN ownership_history'
      PROVE  Gives(k[3], k[1], k[2], ownership_history[k])'
  <2>1. CASE k \in rows
    <3>1. PICK t \in tokens : k[1] = op.tick /\ k[2] = t /\ k[3] = now
      BY <1>4, <2>1
    <3>2. ownership_history'[k] = to
      BY <1>2, <2>1
    <3>3. QED BY <3>1, <3>2 DEF Gives
  <2>2. CASE k \notin rows
    <3>1. k \in DOMAIN ownership_history /\ ownership_history'[k] = ownership_history[k]
      BY <1>2, <1>7, <2>2
    <3>2. Gives(k[3], k[1], k[2], ownership_history[k]) /\ k[3] \in DOMAIN operation_history
      BY <1>3, <3>1 DEF MovesRecorded
    <3>3. operation_history'[k[3]] = operation_history[k[3]]
      BY <1>1, <3>2
    <3>4. QED BY <3>1, <3>2, <3>3 DEF Gives
  <2>3. QED BY <2>1, <2>2
<1>8. ASSUME NEW s \in DOMAIN operation_history', NEW tick, NEW token, NEW owner,
             operation_history'[s].op.kind # "deploy", Gives(s, tick, token, owner)'
      PROVE  <<tick, token, s>> \in DOMAIN ownership_history'
  <2>1. CASE s = now
    <3>1. Gives(now, tick, token, owner)' /\ op.kind # "deploy"
      BY <1>1, <1>8, <2>1
    <3>2. tick = op.tick /\ token \in tokens
      BY <3>1
    <3>3. QED BY <1>2, <1>5, <2>1, <3>2
  <2>2. CASE s \in DOMAIN operation_history
    <3>1. Gives(s, tick, token, owner) /\ operation_history[s].op.kind # "deploy"
      BY <1>1, <1>6, <1>8, <2>2
    <3>2. <<tick, token, s>> \in DOMAIN ownership_history
      BY <2>2, <3>1 DEF MovesRecorded
    <3>3. QED BY <1>2, <3>2
  <2>3. QED BY <1>1, <1>8, <2>1, <2>2
<1>9. QED BY <1>7, <1>8 DEF MovesRecorded

\* An operation that gives no token to anybody.
LEMMA MovesQuiet ==
    ASSUME LedgerInv, MovesRecorded, NEW op, NEW id, NEW error,
           Arrives(op, op.kind), Record(op, id, error), UNCHANGED ownership_history,
           \/ error # None \/ op.kind \in {"discount", "list"}
           \/ op.kind = "send" /\ op.buyer = None
    PROVE  MovesRecorded'
<1>1. /\ DOMAIN operation_history' = DOMAIN operation_history \cup {Now}
      /\ \A s \in DOMAIN operation_history : operation_history'[s] = operation_history[s]
      /\ operation_history'[Now].op = op /\ operation_history'[Now].error = error
  BY RecordFacts DEF LedgerInv
<1>2. PICK now : now = Now
  OBVIOUS
<1>3. \A tick, token, owner : ~ Gives(now, tick, token, owner)'
  BY <1>1, <1>2 DEF Gives
<1>4. ASSUME NEW s \in DOMAIN operation_history, NEW tick, NEW token, NEW owner
      PROVE  Gives(s, tick, token, owner)' <=> Gives(s, tick, token, owner)
  BY <1>1 DEF Gives
<1>5. ASSUME NEW k \in DOMAIN ownership_history'
      PROVE  Gives(k[3], k[1], k[2], ownership_history[k])'
  <2>1. Gives(k[3], k[1], k[2], ownership_history[k]) /\ k[3] \in DOMAIN operation_history
    BY <1>5 DEF MovesRecorded, LedgerInv, HistoryRecorded
  <2>2. operation_history'[k[3]] = operation_history[k[3]]
    BY <1>1, <2>1
  <2>3. QED BY <2>1, <2>2 DEF Gives
<1>6. ASSUME NEW s \in DOMAIN operation_history', NEW tick, NEW token, NEW owner,
             operation_history'[s].op.kind # "deploy", Gives(s, tick, token, owner)'
      PROVE  <<tick, token, s>> \in DOMAIN ownership_history'
  <2>1. s \in DOMAIN operation_history
    BY <1>1, <1>2, <1>3, <1>6
  <2>2. Gives(s, tick, token, owner) /\ operation_history[s].op.kind # "deploy"
    BY <1>1, <1>4, <1>6, <2>1
  <2>3. QED BY <2>1, <2>2 DEF MovesRecorded
<1>7. QED BY <1>5, <1>6 DEF MovesRecorded

\* A reorganisation takes rows and records back together.
LEMMA MovesReorg ==
    ASSUME LedgerInv, MovesRecorded, NEW removed, NEW forced \in {{}, {LastBlue} \ {0}},
           Reorg(removed, forced)
    PROVE  MovesRecorded'
<1>1. PICK threshold \in Nat :
         /\ RollbackOwnership(threshold)
         /\ DOMAIN operation_history' = {s \in DOMAIN operation_history : s < threshold}
         /\ \A s \in DOMAIN operation_history' : operation_history'[s] = operation_history[s]
  BY ReorgFacts DEF LedgerInv
<1>2. /\ \A k : k \in DOMAIN ownership_history' <=>
                    k \in DOMAIN ownership_history /\ k[3] < threshold
      /\ \A k \in DOMAIN ownership_history' : ownership_history'[k] = ownership_history[k]
  BY <1>1, HistoryCut DEF LedgerInv
<1>3. ASSUME NEW k \in DOMAIN ownership_history'
      PROVE  Gives(k[3], k[1], k[2], ownership_history[k])'
  <2>1. k \in DOMAIN ownership_history /\ k[3] < threshold /\ ownership_history'[k] = ownership_history[k]
    BY <1>2, <1>3
  <2>2. Gives(k[3], k[1], k[2], ownership_history[k]) /\ k[3] \in DOMAIN operation_history
    BY <2>1 DEF MovesRecorded, LedgerInv, HistoryRecorded
  <2>3. operation_history'[k[3]] = operation_history[k[3]]
    BY <1>1, <2>1, <2>2
  <2>4. QED BY <2>1, <2>2, <2>3 DEF Gives
<1>4. ASSUME NEW s \in DOMAIN operation_history', NEW tick, NEW token, NEW owner,
             operation_history'[s].op.kind # "deploy", Gives(s, tick, token, owner)'
      PROVE  <<tick, token, s>> \in DOMAIN ownership_history'
  <2>1. s \in DOMAIN operation_history /\ s < threshold /\ operation_history'[s] = operation_history[s]
    BY <1>1, <1>4
  <2>2. Gives(s, tick, token, owner) /\ operation_history[s].op.kind # "deploy"
    BY <1>4, <2>1 DEF Gives
  <2>3. PICK k : k = <<tick, token, s>>
    OBVIOUS
  <2>4. k \in DOMAIN ownership_history /\ k[3] = s
    BY <2>1, <2>2, <2>3 DEF MovesRecorded
  <2>5. k \in DOMAIN ownership_history'
    BY <1>2, <2>1, <2>4
  <2>6. QED BY <2>3, <2>5
<1>5. QED BY <1>3, <1>4 DEF MovesRecorded

LEMMA MovesStep == LedgerInv /\ MovesRecorded /\ [Next]_vars => MovesRecorded'
<1> SUFFICES ASSUME LedgerInv, MovesRecorded, [Next]_vars PROVE MovesRecorded'
  OBVIOUS
<1>1. ASSUME UNCHANGED <<operation_history, ownership_history>> PROVE MovesRecorded'
  <2>1. operation_history' = operation_history /\ ownership_history' = ownership_history
    BY <1>1
  <2>2. \A s, tick, token, owner : Gives(s, tick, token, owner)' <=> Gives(s, tick, token, owner)
    BY <2>1 DEF Gives
  <2>3. QED BY <2>1, <2>2 DEF MovesRecorded
<1>2. CASE UNCHANGED vars
  BY <1>1, <1>2 DEF vars, opVars, ownVars
<1>3. ASSUME NEW h \in Hashes, AcceptBlock(h) PROVE MovesRecorded'
  BY <1>1, <1>3 DEF AcceptBlock, opVars, ownVars
<1>4. PICK now : now = Now
  OBVIOUS
<1>5. ASSUME NEW op, NEW id, Record(op, id, None)
      PROVE  LET done == operation_history'[now]
             IN  done.op = op /\ done.token = id /\ done.error = None
  BY <1>4, <1>5 DEF Record, Put
<1>6. ASSUME NEW op \in Ops, Reject(op) PROVE MovesRecorded'
  <2>1. /\ Arrives(op, op.kind) /\ Record(op, None, ErrorOf(op)) /\ ErrorOf(op) # None
        /\ UNCHANGED ownership_history
    BY <1>6 DEF Reject, ownVars
  <2>2. QED BY <2>1, MovesQuiet
<1>7. ASSUME NEW op \in Ops, Discount(op) \/ List(op) PROVE MovesRecorded'
  <2>1. /\ Arrives(op, op.kind) /\ Record(op, None, None) /\ op.kind \in {"discount", "list"}
        /\ UNCHANGED ownership_history
    BY <1>7 DEF Discount, List, Arrives, ownVars
  <2>2. QED BY <2>1, MovesQuiet
<1>8. ASSUME NEW op \in Ops, Deploy(op) PROVE MovesRecorded'
  <2>1. /\ Arrives(op, op.kind) /\ op.kind = "deploy" /\ Record(op, None, None)
        /\ SetOwner(op.tick, [t \in 1..op.premint |-> t], {}, op.deployer)
    BY <1>8 DEF Deploy, Arrives
  <2>2. ownership_history' =
           PutAll(ownership_history, {<<op.tick, t, Now>> : t \in 1..op.premint}, op.deployer)
    BY <2>1 DEF SetOwner
  <2>3. LET done == operation_history'[now]
        IN  done.op = op /\ done.token = None /\ done.error = None
    BY <1>5, <2>1
  <2>4. \A t : Gives(now, op.tick, t, op.deployer)'
    BY <2>1, <2>3 DEF Gives
  <2>5. QED BY <1>4, <2>1, <2>2, <2>4, MovesAdded
<1>9. ASSUME NEW op \in Ops, Mint(op) PROVE MovesRecorded'
  <2>1. PICK id : /\ Record(op, id, None) /\ Arrives(op, op.kind) /\ op.kind = "mint"
                  /\ SetOwner(op.tick, [t \in {id} |-> LastSeq(op.tick) + 1], {}, op.to)
    BY <1>9 DEF Mint, Arrives
  <2>2. PICK ids : ids = {id}
    OBVIOUS
  <2>3. ownership_history' = PutAll(ownership_history, {<<op.tick, t, Now>> : t \in ids}, op.to)
    BY <2>1, <2>2 DEF SetOwner
  <2>4. LET done == operation_history'[now]
        IN  done.op = op /\ done.token = id /\ done.error = None
    BY <1>5, <2>1
  <2>5. \A t \in ids : Gives(now, op.tick, t, op.to)'
    BY <2>1, <2>4, <2>2 DEF Gives
  <2>6. \A tick, token, owner : Gives(now, tick, token, owner)' => tick = op.tick /\ token \in ids
    BY <2>1, <2>4, <2>2 DEF Gives
  <2>7. QED BY <1>4, <2>1, <2>3, <2>5, <2>6, MovesAdded
<1>10. ASSUME NEW op \in Ops, NEW from, NEW to, Record(op, None, None), Arrives(op, op.kind),
              SetOwner(op.tick, [t \in {op.token} |-> 0], from, to),
              \/ op.kind = "transfer" /\ to = op.to
              \/ op.kind = "send" /\ op.buyer # None /\ to = op.buyer
       PROVE  MovesRecorded'
  <2>1. ownership_history' = PutAll(ownership_history, {<<op.tick, t, Now>> : t \in {op.token}}, to)
    BY <1>10 DEF SetOwner
  <2>2. LET done == operation_history'[now]
        IN  done.op = op /\ done.token = None /\ done.error = None
    BY <1>5, <1>10
  <2>3. \A t \in {op.token} : Gives(now, op.tick, t, to)'
    BY <1>10, <2>2 DEF Gives
  <2>4. \A tick, token, owner : Gives(now, tick, token, owner)' => tick = op.tick /\ token \in {op.token}
    BY <1>10, <2>2 DEF Gives
  <2>5. PICK ids : ids = {op.token}
    OBVIOUS
  <2>6. ownership_history' = PutAll(ownership_history, {<<op.tick, t, Now>> : t \in ids}, to)
    BY <2>1, <2>5, Zenon
  <2>7. /\ \A t \in ids : Gives(now, op.tick, t, to)'
        /\ \A tick, token, owner :
              op.kind # "deploy" /\ Gives(now, tick, token, owner)' => tick = op.tick /\ token \in ids
    BY <2>3, <2>4, <2>5, Zenon
  <2>8. Arrives(op, op.kind) /\ Record(op, None, None)
    BY <1>10
  <2>9. QED BY <1>4, <2>6, <2>7, <2>8, MovesAdded
<1>11. ASSUME NEW op \in Ops, Transfer(op) PROVE MovesRecorded'
  BY <1>10, <1>11 DEF Transfer, Arrives
<1>12. ASSUME NEW op \in Ops, Send(op) PROVE MovesRecorded'
  <2>1. Arrives(op, op.kind) /\ op.kind = "send" /\ Record(op, None, None)
    BY <1>12 DEF Send, Arrives
  <2>2. CASE op.buyer = None /\ UNCHANGED ownVars
    BY <2>1, <2>2, MovesQuiet DEF ownVars
  <2>3. ASSUME NEW from, op.buyer # None, SetOwner(op.tick, [t \in {op.token} |-> 0], from, op.buyer)
        PROVE  MovesRecorded'
    BY <1>10, <2>1, <2>3
  <2>4. QED BY <1>12, <2>2, <2>3 DEF Send
<1>13. ASSUME NEW removed, NEW forced \in {{}, {LastBlue} \ {0}}, Reorg(removed, forced)
       PROVE  MovesRecorded'
  BY <1>13, MovesReorg
<1>14. QED BY <1>2, <1>3, <1>6, <1>7, <1>8, <1>9, <1>11, <1>12, <1>13 DEF Next

LEMMA MovesAlways == Spec => []MovesRecorded
<1>1. Init => MovesRecorded
  BY DEF Init, MovesRecorded, NoEntries
<1>2. QED BY <1>1, MovesStep, LedgerAlways, PTL DEF Spec

\* A list of rows is an answer.
LEMMA RowsAnswer ==
    ASSUME AnswersApart, NEW S, \A x \in S : IsRow(x)
    PROVE  Answered(S) = S /\ S # Failed /\ \A x \in S : x \notin {None, Failed}
<1>1. S # Failed /\ \A x \in S : x # None /\ x # Failed
  BY DEF AnswersApart
<1>2. QED BY <1>1, AnsweredIs

\* Every recorded operation is one of Ops, and so is every deployment.
LEMMA RecordedOps ==
    ASSUME LedgerInv, StatsInv
    PROVE  /\ \A s \in DOMAIN operation_history : operation_history[s].op \in Ops
           /\ \A t \in DOMAIN collection_registry : DeployOf(t) \in Ops /\ DeployOf(t).kind = "deploy"
           /\ \A d \in collection_deployments : d.tick \in DOMAIN collection_registry
BY DEF LedgerInv, StatsInv, RegistryRecorded

\* Lists of collections and deployments show the scripts of deployments only.
LEMMA DeploymentsWritten ==
    ASSUME LedgerInv, StatsInv, AnswersApart
    PROVE  CollectionsAnswer # Failed /\ DeploymentsAnswer # Failed
<1> DEFINE shown == {x \in collection_deployments : ~ Hidden(x.tick)}
           deployment(d) == [score |-> d.score, op |-> DeployOf(d.tick)]
<1>1. ASSUME NEW d \in shown
      PROVE  DeployScripts(DeployOf(d.tick)) \cap NoAddress = {} /\ DeployOf(d.tick).sender \notin NoAddress
  <2>1. DeployOf(d.tick) \in Ops /\ DeployOf(d.tick).kind = "deploy"
    BY RecordedOps
  <2>2. QED BY <2>1, AccessorAssumption DEF DeployScripts
<1>2. CollectionsAnswer # Failed
  <2>1. CollectionList = {CollectionAt(d.score, DeployOf(d.tick)) : d \in shown}
    BY CollectionsListed
  <2>2. \A score, op : IsRow(CollectionAt(score, op)) /\ CollectionAt(score, op).op = op
    BY Rows DEF CollectionAt
  <2> HIDE DEF shown
  <2>3. \A x \in CollectionList : IsRow(x) /\ CollectionScripts(x) \cap NoAddress = {}
    BY <1>1, <2>1, <2>2 DEF CollectionScripts
  <2>4. \A x \in CollectionList : Written(x, CollectionScripts) = x
    BY <2>3, RowsAnswer DEF Written
  <2>5. {Written(x, CollectionScripts) : x \in CollectionList} = CollectionList
    BY <2>4
  <2>6. CollectionsAnswer = IF CollectionList = Failed THEN Failed ELSE Answered(CollectionList)
    BY <2>5 DEF CollectionsAnswer, WrittenAll
  <2>7. QED BY <2>3, <2>6, RowsAnswer
<1>3. DeploymentsAnswer # Failed
  <2>1. DeploymentList = {deployment(d) : d \in shown}
    BY DEF DeploymentList
  <2>2. \A d : IsRow(deployment(d)) /\ deployment(d).op = DeployOf(d.tick)
    BY Rows
  <2> HIDE DEF shown, deployment
  <2>3. \A x \in DeploymentList : IsRow(x) /\ DeploymentScripts(x) \cap NoAddress = {}
    BY <1>1, <2>1, <2>2 DEF DeploymentScripts
  <2>4. \A x \in DeploymentList : Written(x, DeploymentScripts) = x
    BY <2>3, RowsAnswer DEF Written
  <2>5. {Written(x, DeploymentScripts) : x \in DeploymentList} = DeploymentList
    BY <2>4
  <2>6. DeploymentsAnswer = IF DeploymentList = Failed THEN Failed ELSE Answered(DeploymentList)
    BY <2>5 DEF DeploymentsAnswer, WrittenAll
  <2>7. QED BY <2>3, <2>6, RowsAnswer
<1>4. QED BY <1>2, <1>3

\* The list of operations fails only for the buyer of a sale.
LEMMA OperationsWritten ==
    ASSUME LedgerInv, StatsInv, AnswersApart, ~ SoldToUnwritable(DOMAIN operation_history)
    PROVE  OperationsAnswer # Failed
<1> DEFINE row(s) == [score |-> s, op |-> operation_history[s].op]
<1>1. OperationList = {row(s) : s \in DOMAIN operation_history}
  BY DEF OperationList
<1>2. ASSUME NEW s \in DOMAIN operation_history
      PROVE  IsRow(row(s)) /\ OperationScripts(row(s)) \cap NoAddress = {}
  <2>1. operation_history[s].op \in Ops
    BY RecordedOps
  <2>2. row(s).op = operation_history[s].op /\ IsRow(row(s))
    BY Rows
  <2>3. operation_history[s].op.kind = "send" => operation_history[s].op.buyer \notin NoAddress
    BY DEF SoldToUnwritable
  <2> DEFINE op == operation_history[s].op
  <2> HIDE DEF row, op
  <2>4. row(s).op = op /\ op \in Ops /\ (op.kind = "send" => op.buyer \notin NoAddress)
    BY <2>1, <2>2, <2>3 DEF op
  <2>5. OperationScripts(row(s)) \cap NoAddress = {}
    BY <2>4, AccessorAssumption DEF OperationScripts
  <2>6. QED BY <2>2, <2>5
<1> HIDE DEF row
<1>3. \A x \in OperationList : IsRow(x) /\ OperationScripts(x) \cap NoAddress = {}
  BY <1>1, <1>2
<1>4. \A x \in OperationList : Written(x, OperationScripts) = x
  BY <1>3, RowsAnswer DEF Written
<1>5. {Written(x, OperationScripts) : x \in OperationList} = OperationList
  BY <1>4
<1>6. OperationsAnswer = IF OperationList = Failed THEN Failed ELSE Answered(OperationList)
  BY <1>5 DEF OperationsAnswer, WrittenAll
<1>7. QED BY <1>3, <1>6, RowsAnswer

\* The sellers of active listings have addresses.
LEMMA ListingsWritten ==
    ASSUME LedgerInv, StatsInv, TablesShaped, AnswersApart, NEW tick
    PROVE  ListingsAnswer(tick) # Failed
<1> DEFINE row(k) == [tick |-> k[1], token |-> k[2], listing |-> listings[k]]
           keys == {x \in DOMAIN listings : x[1] = tick}
<1>1. ActiveListings(tick) = IF Registered(tick) THEN {row(k) : k \in keys} ELSE {}
  BY ActiveAre DEF ActiveListings
<1>2. ASSUME NEW k \in keys PROVE IsRow(row(k)) /\ SellerScripts(row(k)) \cap NoAddress = {}
  <2>1. IsRow(row(k)) /\ row(k).listing = listings[k]
    BY Rows
  <2>2. PICK s \in DOMAIN operation_history : operation_history[s].op.sender = listings[k].seller
    BY DEF LedgerInv, ListingInv, ListingsBacked
  <2>3. listings[k].seller \notin NoAddress
    BY <2>2, RecordedOps, AccessorAssumption
  <2> HIDE DEF row
  <2>4. QED BY <2>1, <2>3 DEF SellerScripts
<1> HIDE DEF row, keys
<1>3. \A x \in ActiveListings(tick) : IsRow(x) /\ SellerScripts(x) \cap NoAddress = {}
  BY <1>1, <1>2
<1>4. \A x \in ActiveListings(tick) : Written(x, SellerScripts) = x
  BY <1>3, RowsAnswer DEF Written
<1>5. {Written(x, SellerScripts) : x \in ActiveListings(tick)} = ActiveListings(tick)
  BY <1>4
<1>6. ListingsAnswer(tick) =
         IF ActiveListings(tick) = Failed THEN Failed ELSE Answered(ActiveListings(tick))
  BY <1>5 DEF ListingsAnswer, WrittenAll
<1>7. QED BY <1>3, <1>6, RowsAnswer

\* Only a sale gives a token to a script without an address.
LEMMA UnwritableBought ==
    ASSUME LedgerInv, StatsInv, MovesRecorded, NEW k \in DOMAIN ownership_history,
           ownership_history[k] \in NoAddress
    PROVE  /\ k[3] \in DOMAIN operation_history /\ Gives(k[3], k[1], k[2], ownership_history[k])
           /\ operation_history[k[3]].op.kind = "send"
           /\ operation_history[k[3]].op.buyer = ownership_history[k]
<1>1. Gives(k[3], k[1], k[2], ownership_history[k]) /\ k[3] \in DOMAIN operation_history
  BY DEF MovesRecorded, LedgerInv, HistoryRecorded
<1>2. operation_history[k[3]].op \in Ops
  BY <1>1, RecordedOps
<1>3. QED BY <1>1, <1>2, AccessorAssumption DEF Gives

\* The owner of a token is the one its latest history row names.
LEMMA LatestRow ==
    ASSUME LedgerInv, NEW key \in DOMAIN current_ownership,
           NEW r, r = <<key[1], key[2], current_ownership[key].mod_tx_score>>
    PROVE  /\ r \in DOMAIN ownership_history /\ ownership_history[r] = current_ownership[key].owner
           /\ \A k \in DOMAIN ownership_history :
                 <<k[1], k[2]>> = key => k[3] <= current_ownership[key].mod_tx_score
<1>1. OwnershipConsistent
  BY DEF LedgerInv
<1>2. r \in DOMAIN ownership_history
  BY <1>1 DEF OwnershipConsistent
<1>3. <<r[1], r[2]>> = key /\ r[3] = current_ownership[key].mod_tx_score
  BY OwnedPairs
<1>4. QED BY <1>1, <1>2, <1>3 DEF OwnershipConsistent

\* The list of a collection's tokens fails only while a sale was the last change of
\* hands of one of them.
LEMMA TokensWritten ==
    ASSUME LedgerInv, StatsInv, MovesRecorded, AnswersApart, NEW tick,
           \A token \in {k[2] : k \in DOMAIN current_ownership} :
               ~ SoldToUnwritable(LastOwnerChange(tick, token))
    PROVE  TokensAnswer(tick) # Failed
<1>1. ASSUME NEW id, <<tick, id>> \in DOMAIN current_ownership
      PROVE  current_ownership[<<tick, id>>].owner \notin NoAddress
  <2>1. PICK key : key = <<tick, id>>
    OBVIOUS
  <2>2. key \in DOMAIN current_ownership /\ key[1] = tick /\ key[2] = id
    BY <1>1, <2>1
  <2>3. PICK mod : mod = current_ownership[key].mod_tx_score
    OBVIOUS
  <2>4. PICK r : r = <<key[1], key[2], mod>>
    OBVIOUS
  <2>5. /\ r \in DOMAIN ownership_history /\ ownership_history[r] = current_ownership[key].owner
        /\ \A k \in DOMAIN ownership_history : <<k[1], k[2]>> = key => k[3] <= mod
    BY <2>2, <2>3, <2>4, LatestRow
  <2>6. r[1] = tick /\ r[2] = id /\ r[3] = mod
    BY <2>2, <2>4
  <2>7. ASSUME current_ownership[key].owner \in NoAddress PROVE FALSE
    <3>1. /\ mod \in DOMAIN operation_history
          /\ Gives(mod, tick, id, ownership_history[r])
          /\ operation_history[mod].op.kind = "send"
          /\ operation_history[mod].op.buyer \in NoAddress
      BY <2>5, <2>6, <2>7, UnwritableBought
    <3> DEFINE changes == {s \in DOMAIN operation_history :
                              LET done == operation_history[s]
                              IN  /\ done.error = None /\ done.op.tick = tick
                                  /\ \/ done.op.kind = "mint" /\ done.token = id
                                     \/ done.op.kind = "transfer" /\ done.op.token = id
                                     \/ /\ done.op.kind = "send" /\ done.op.token = id
                                        /\ done.op.buyer # None}
    <3>2. LastOwnerChange(tick, id) = {s \in changes : \A c \in changes : c <= s}
      BY DEF LastOwnerChange
    <3>3. mod \in changes
      BY <3>1 DEF Gives
    <3>4. ASSUME NEW c \in changes PROVE c <= mod
      <4>1. c \in DOMAIN operation_history /\ operation_history[c].op.kind # "deploy"
        OBVIOUS
      <4>2. \E owner : Gives(c, tick, id, owner)
        BY DEF Gives
      <4>3. PICK k : k = <<tick, id, c>>
        OBVIOUS
      <4>4. k \in DOMAIN ownership_history
        BY <4>1, <4>2, <4>3 DEF MovesRecorded
      <4>5. <<k[1], k[2]>> = key /\ k[3] = c
        BY <2>1, <4>3
      <4>6. QED BY <2>5, <4>4, <4>5
    <3> HIDE DEF changes
    <3>5. mod \in LastOwnerChange(tick, id)
      BY <3>2, <3>3, <3>4
    <3>6. SoldToUnwritable(LastOwnerChange(tick, id))
      BY <3>1, <3>5 DEF SoldToUnwritable
    <3>7. id \in {k[2] : k \in DOMAIN current_ownership}
      BY <2>2
    <3>8. QED BY <3>6, <3>7
  <2>8. QED BY <2>1, <2>7
<1>2. \A t \in TokenList(tick) : IsRow(t) /\ OwnerScripts(t) \cap NoAddress = {}
  <2>1. \A id : IsRow(Token(tick, id)) /\ Token(tick, id).owner = current_ownership[<<tick, id>>].owner
    BY Rows DEF Token
  <2>2. CASE Shown(tick)
    <3>1. SUFFICES ASSUME NEW t \in TokenList(tick)
                   PROVE  IsRow(t) /\ OwnerScripts(t) \cap NoAddress = {}
      OBVIOUS
    <3>2. PICK id : <<tick, id>> \in DOMAIN current_ownership /\ t = Token(tick, id)
      BY <2>2, TokensAre
    <3>3. IsRow(t) /\ t.owner \notin NoAddress
      BY <1>1, <2>1, <3>2
    <3>4. QED BY <3>3 DEF OwnerScripts
  <2>3. CASE ~ Shown(tick)
    BY <2>3 DEF TokenList
  <2>4. QED BY <2>2, <2>3
<1>3. \A x \in TokenList(tick) : Written(x, OwnerScripts) = x
  BY <1>2, RowsAnswer DEF Written
<1>4. {Written(x, OwnerScripts) : x \in TokenList(tick)} = TokenList(tick)
  BY <1>3
<1>5. TokensAnswer(tick) = IF TokenList(tick) = Failed THEN Failed ELSE Answered(TokenList(tick))
  BY <1>4 DEF TokensAnswer, WrittenAll
<1>6. QED BY <1>2, <1>5, RowsAnswer

\* A token's history never meets an operation that is gone, and fails only for the
\* buyer of a recorded sale.
LEMMA HistoryWritten ==
    ASSUME LedgerInv, StatsInv, MovesRecorded, AnswersApart, NEW tick, NEW id
    PROVE  /\ TokenHistory(tick, id) # Failed
           /\ HistoryAnswer(tick, id) = Failed => SoldToUnwritable(DOMAIN operation_history)
<1> DEFINE keys == {x \in DOMAIN ownership_history : <<x[1], x[2]>> = <<tick, id>>}
           row(k) == [owner |-> ownership_history[k], op_score_modified |-> k[3],
                      tx |-> operation_history[k[3]].op.tx]
<1>1. TokenHistory(tick, id) = IF Shown(tick) THEN {row(k) : k \in keys} ELSE {}
  <2>1. CASE Shown(tick)
    BY <2>1, HistoryRows
  <2>2. CASE ~ Shown(tick)
    BY <2>2 DEF TokenHistory
  <2>3. QED BY <2>1, <2>2
<1>2. \A k : IsRow(row(k)) /\ row(k).owner = ownership_history[k]
  BY Rows
<1>3. \A k \in keys : k \in DOMAIN ownership_history
  OBVIOUS
<1> HIDE DEF keys, row
<1>4. \A x \in TokenHistory(tick, id) : IsRow(x)
  BY <1>1, <1>2
<1>5. TokenHistory(tick, id) # Failed
  BY <1>4, RowsAnswer
<1>6. ASSUME ~ SoldToUnwritable(DOMAIN operation_history) PROVE HistoryAnswer(tick, id) # Failed
  <2>1. \A k \in DOMAIN ownership_history : ownership_history[k] \notin NoAddress
    BY <1>6, UnwritableBought DEF SoldToUnwritable
  <2>2. \A x \in TokenHistory(tick, id) : OwnerScripts(x) \cap NoAddress = {}
    BY <1>1, <1>2, <1>3, <2>1 DEF OwnerScripts
  <2>3. \A x \in TokenHistory(tick, id) : Written(x, OwnerScripts) = x
    BY <1>4, <2>2, RowsAnswer DEF Written
  <2>4. {Written(x, OwnerScripts) : x \in TokenHistory(tick, id)} = TokenHistory(tick, id)
    BY <2>3
  <2>5. HistoryAnswer(tick, id) = Answered(TokenHistory(tick, id))
    BY <1>5, <2>4 DEF HistoryAnswer, WrittenAll
  <2>6. QED BY <1>4, <2>5, RowsAnswer
<1>7. QED BY <1>5, <1>6

\* The list of an address is an answer.
LEMMA HoldingsWritten ==
    ASSUME LedgerInv, AnswersApart, NEW spk
    PROVE  HoldingsAnswer(spk) # Failed
<1>1. \A k : IsRow(Holding(k))
  BY Rows DEF Holding
<1>2. \A tick : \A x \in AddressNftLookup(spk, tick) : IsRow(x)
  BY <1>1 DEF AddressNftLookup
<1>3. \A x \in AddressNftList(spk) : IsRow(x)
  BY <1>2, HoldingsInAll
<1>4. QED BY <1>3, RowsAnswer DEF HoldingsAnswer

LEMMA AllAnswered ==
    ASSUME AnswersApart
    PROVE  LedgerInv /\ StatsInv /\ TablesShaped /\ MovesRecorded => QueriesAnswer
<1>1. SUFFICES ASSUME LedgerInv, StatsInv, TablesShaped, MovesRecorded PROVE QueriesAnswer
  OBVIOUS
<1>2. CollectionsAnswer # Failed /\ DeploymentsAnswer # Failed
  BY <1>1, DeploymentsWritten
<1>3. OperationsAnswer = Failed => SoldToUnwritable(DOMAIN operation_history)
  BY <1>1, OperationsWritten
<1>4. ASSUME NEW tick \in Ticks
      PROVE  /\ ListingsAnswer(tick) # Failed
             /\ TokensAnswer(tick) = Failed =>
                   \E token \in {k[2] : k \in DOMAIN current_ownership} :
                       SoldToUnwritable(LastOwnerChange(tick, token))
  BY <1>1, ListingsWritten, TokensWritten
<1>5. \A k \in DOMAIN ownership_history :
         /\ TokenHistory(k[1], k[2]) # Failed
         /\ HistoryAnswer(k[1], k[2]) = Failed => SoldToUnwritable(DOMAIN operation_history)
  BY <1>1, HistoryWritten
<1>6. \A spk \in Addresses : HoldingsAnswer(spk) # Failed
  BY <1>1, HoldingsWritten
<1>7. QED BY <1>2, <1>3, <1>4, <1>5, <1>6 DEF QueriesAnswer

\* No query panics or meets an inconsistent index, at any moment, and an answer fails
\* only when it has to show the buyer of a sale whose script has no address: a token
\* that a sale gave such an owner hides the list of its collection until the next
\* transfer, its history until a reorganisation takes the sale back.
THEOREM QueriesAnswerAlways ==
    ASSUME AnswersApart
    PROVE  Spec => []QueriesAnswer
<1>1. LedgerInv /\ StatsInv /\ TablesShaped /\ MovesRecorded => QueriesAnswer
  BY AllAnswered
<1>2. Spec => []TablesShaped
  BY ReplayAlways, PTL
<1>3. QED BY <1>1, <1>2, LedgerAlways, StatsAlways, MovesAlways, PTL

-----------------------------------------------------------------------------
(* The ledger keeps the book of module Market.                              *)

\* The parts of the book.
Deployments == [t \in DOMAIN collection_registry |-> collection_registry[t].op]
Owners == [key \in DOMAIN current_ownership |-> current_ownership[key].owner]
Offers == [key \in DOMAIN listings |-> listings[key].listing_tx_id]
Fees == [who \in {<<v.spk, v.tick>> : v \in vip} |-> LatestFee(vip, who[1], who[2])]
Outcomes ==
    [tx \in DOMAIN tx_id_to_opscore |->
        [token |-> operation_history[tx_id_to_opscore[tx]].token,
         error |-> operation_history[tx_id_to_opscore[tx]].error]]

\* A book is its five parts.
IsBook(book, collections, owner, offers, fees, outcome) ==
    book = [collections |-> collections, owner |-> owner, offers |-> offers, fees |-> fees,
            outcome |-> outcome]

LEMMA BookIs ==
    /\ IsBook(BookOf(Tables), Deployments, Owners, Offers, Fees, Outcomes)
    /\ IsBook(BookOf(Tables)', Deployments', Owners', Offers', Fees', Outcomes')
<1>1. /\ Tables.operations[1] = operation_history /\ Tables.operations[2] = tx_id_to_opscore
      /\ Tables.deployments[1] = collection_registry /\ Tables.ownership[3] = current_ownership
      /\ Tables.listings[1] = listings /\ Tables.vip = vip
  BY DEF Tables
<1>2. /\ Tables'.operations[1] = operation_history' /\ Tables'.operations[2] = tx_id_to_opscore'
      /\ Tables'.deployments[1] = collection_registry' /\ Tables'.ownership[3] = current_ownership'
      /\ Tables'.listings[1] = listings' /\ Tables'.vip = vip'
  BY DEF Tables
<1>3. IsBook(BookOf(Tables), Deployments, Owners, Offers, Fees, Outcomes)
  BY <1>1 DEF IsBook, BookOf, Deployments, Owners, Offers, Fees, Outcomes
<1>4. BookOf(Tables)' = BookOf(Tables')
  BY DEF BookOf
<1>5. IsBook(BookOf(Tables'), Deployments', Owners', Offers', Fees', Outcomes')
  BY <1>2 DEF IsBook, BookOf, Deployments, Owners, Offers, Fees, Outcomes
<1>6. QED BY <1>3, <1>4, <1>5

LEMMA BookParts ==
    /\ BookOf(Tables).collections = Deployments /\ BookOf(Tables).owner = Owners
    /\ BookOf(Tables).offers = Offers /\ BookOf(Tables).fees = Fees
    /\ BookOf(Tables).outcome = Outcomes
    /\ BookOf(Tables).collections' = Deployments' /\ BookOf(Tables).owner' = Owners'
    /\ BookOf(Tables).offers' = Offers' /\ BookOf(Tables).fees' = Fees'
    /\ BookOf(Tables).outcome' = Outcomes'
BY BookIs DEF IsBook

\* The book is empty before the first block.
LEMMA BookInit == Init => Book!Init
<1> SUFFICES ASSUME Init PROVE Book!Init
  OBVIOUS
<1>1. /\ DOMAIN collection_registry = {} /\ DOMAIN current_ownership = {} /\ DOMAIN listings = {}
      /\ vip = {} /\ DOMAIN tx_id_to_opscore = {} /\ chain_block_scores = {} /\ slot = PerBlock
  BY DEF Init, NoEntries
<1>2. /\ Deployments = NoEntries /\ Owners = NoEntries /\ Offers = NoEntries /\ Fees = NoEntries
      /\ Outcomes = NoEntries
  BY <1>1 DEF Deployments, Owners, Offers, Fees, Outcomes, NoEntries
<1>3. /\ BookOf(Tables).collections = Book!NoEntries /\ BookOf(Tables).owner = Book!NoEntries
      /\ BookOf(Tables).offers = Book!NoEntries /\ BookOf(Tables).fees = Book!NoEntries
      /\ BookOf(Tables).outcome = Book!NoEntries
  BY <1>2, BookParts DEF NoEntries, Book!NoEntries
<1>4. ChainOfBooks = Book!NoEntries
  BY <1>1 DEF ChainOfBooks, Book!NoEntries
<1>5. ~ (slot < PerBlock)
  BY <1>1, LedgerAssumption
<1>6. QED BY <1>3, <1>4, <1>5 DEF Book!Init

\* The chain of books while no block comes or goes.
LEMMA ChainSame ==
    ASSUME UNCHANGED <<chain_block_scores, past>>
    PROVE  ChainOfBooks' = ChainOfBooks
BY DEF ChainOfBooks

\* A recorded operation may come in the book, and its outcome is told there.
LEMMA BookArrives ==
    ASSUME ChainInv, NEW op, NEW token, NEW error, Arrives(op, op.kind), Record(op, token, error)
    PROVE  Book!Arrives(op, op.kind) /\ Book!Told(op, token, error)
<1>1. Book!Arrives(op, op.kind)
  BY BookParts DEF Arrives, Book!Arrives, Outcomes
<1>2. ChainOfBooks' = ChainOfBooks
  BY ChainSame DEF Record, chainVars
<1>3. Outcomes' = Book!Put(Outcomes, op.tx, [token |-> token, error |-> error])
  <2> DEFINE row == [token |-> token, error |-> error]
  <2>1. operation_history'[Now] = [op |-> op, token |-> token, error |-> error]
    BY DEF Record, Put
  <2>2. /\ DOMAIN tx_id_to_opscore' = DOMAIN tx_id_to_opscore \cup {op.tx}
        /\ tx_id_to_opscore'[op.tx] = Now
        /\ \A x \in DOMAIN tx_id_to_opscore : tx_id_to_opscore'[x] = tx_id_to_opscore[x]
        /\ op.tx \notin DOMAIN tx_id_to_opscore
        /\ \A s \in DOMAIN operation_history : operation_history'[s] = operation_history[s]
    BY RecordFacts
  <2>3. \A x \in DOMAIN tx_id_to_opscore : tx_id_to_opscore[x] \in DOMAIN operation_history
    BY DEF ChainInv, OperationsIndexed
  <2>4. DOMAIN Outcomes' = DOMAIN Outcomes \cup {op.tx}
    BY <2>2 DEF Outcomes
  <2>5. Outcomes'[op.tx] = row
    BY <2>1, <2>2 DEF Outcomes
  <2>6. \A x \in DOMAIN Outcomes : x # op.tx /\ Outcomes'[x] = Outcomes[x]
    BY <2>2, <2>3 DEF Outcomes
  <2>7. Outcomes' = [x \in DOMAIN Outcomes' |-> Outcomes'[x]]
    BY DEF Outcomes
  <2>8. Outcomes' = [x \in DOMAIN Outcomes \cup {op.tx} |-> IF x = op.tx THEN row ELSE Outcomes[x]]
    <3> HIDE DEF row
    <3> QED BY <2>4, <2>5, <2>6, <2>7
  <2>9. QED BY <2>8 DEF Book!Put
<1>4. QED BY <1>1, <1>2, <1>3, BookParts DEF Book!Told

-----------------------------------------------------------------------------
(* The handlers' checks and the reasons of the book.                        *)

\* No error where there is no reason, and otherwise one of the reasons.
Agrees(error, reasons) == IF error = None THEN reasons = {} ELSE error \in reasons

LEMMA DeployAgrees ==
    ASSUME NEW op
    PROVE  Agrees(DeployError(op), Book!DeployReasons(op))
BY BookParts, LedgerAssumption
   DEF Agrees, DeployError, Book!DeployReasons, Book!When, Registered, Deployments, CtxValidationError

\* The owner and the listing of an operation's token in the book.
LEMMA BookToken ==
    ASSUME NEW op
    PROVE  /\ <<op.tick, op.token>> \in DOMAIN BookOf(Tables).owner <=> Exists(op)
           /\ Exists(op) => BookOf(Tables).owner[<<op.tick, op.token>>] = OwnerOf(op)
           /\ Book!Offered(op) <=> Listed(op)
           /\ Listed(op) => BookOf(Tables).offers[<<op.tick, op.token>>]
                               = listings[<<op.tick, op.token>>].listing_tx_id
BY BookParts DEF Owners, Offers, Exists, OwnerOf, Listed, Book!Offered

LEMMA TransferAgrees ==
    ASSUME NEW op
    PROVE  Agrees(TransferError(op), Book!TransferReasons(op))
BY BookToken, LedgerAssumption
   DEF Agrees, TransferError, Book!TransferReasons, Book!OwnerReasons, Book!When, CtxValidationError

LEMMA SendAgrees ==
    ASSUME NEW op
    PROVE  Agrees(SendError(op), Book!SendReasons(op))
BY BookToken, LedgerAssumption
   DEF Agrees, SendError, Book!SendReasons, Book!When, CtxValidationError

\* The collection of an operation in the book.
LEMMA BookCollection ==
    ASSUME NEW tick
    PROVE  /\ tick \in DOMAIN BookOf(Tables).collections <=> Registered(tick)
           /\ Registered(tick) => BookOf(Tables).collections[tick] = DeployOf(tick)
BY BookParts DEF Deployments, Registered, DeployOf

LEMMA ListAgrees ==
    ASSUME NEW op
    PROVE  Agrees(ListError(op), Book!ListReasons(op))
BY BookToken, BookCollection, LedgerAssumption
   DEF Agrees, ListError, Book!ListReasons, Book!OwnerReasons, Book!When, CtxValidationError

LEMMA DiscountAgrees ==
    ASSUME RegistryRecorded, NEW op \in Ops, op.kind = "discount"
    PROVE  Agrees(DiscountError(op), Book!DiscountReasons(op))
<1>1. op.fee \in Nat
  BY LedgerAssumption
<1>2. CASE Registered(op.tick)
  <2>1. PICK deploy : deploy = DeployOf(op.tick) /\ deploy = BookOf(Tables).collections[op.tick]
    BY <1>2, BookCollection
  <2>2. DiscountError(op) =
            IF op.sender # deploy.deployer THEN "WrongDeployer"
            ELSE IF op.fee >= (IF deploy.royalty = None THEN 0 ELSE deploy.royalty.fee)
                 THEN "DiscountFeeOverflow"
            ELSE None
    BY <1>2, <2>1 DEF DiscountError
  <2>3. Book!DiscountReasons(op) =
            Book!When(op.sender # deploy.deployer, "WrongDeployer")
            \cup Book!When(deploy.royalty = None \/ op.fee >= deploy.royalty.fee, "DiscountFeeOverflow")
    BY <1>2, <2>1, BookCollection DEF Book!DiscountReasons
  <2>4. op.fee >= 0
    BY <1>1
  <2>5. QED BY <2>2, <2>3, <2>4, LedgerAssumption DEF Agrees, Book!When, CtxValidationError
<1>3. CASE ~ Registered(op.tick)
  BY <1>3, BookCollection, LedgerAssumption
     DEF Agrees, DiscountError, Book!DiscountReasons, CtxValidationError
<1>4. QED BY <1>2, <1>3

\* The last block of the book is the last accepted one.
LEMMA BookClock ==
    ASSUME ChainInv, chain_block_scores # {}
    PROVE  Book!Clock = Daa[Tip.hash]
<1> DEFINE blues == {b.blue : b \in chain_block_scores}
           last == CHOOSE b \in blues : \A c \in blues : c <= b
<1>1. LastBlue \in Nat /\ LastBlue \in blues /\ \A c \in blues : c \in Nat /\ c <= LastBlue
  BY LastBlueIs DEF ChainInv
<1>2. last = LastBlue
  <2>1. last \in blues /\ \A c \in blues : c <= last
    BY <1>1
  <2>2. QED BY <1>1, <2>1
<1>3. DOMAIN ChainOfBooks = blues
  BY DEF ChainOfBooks
<1>4. ChainOfBooks[LastBlue].hash = Tip.hash
  BY <1>1 DEF ChainOfBooks, Tip
<1>5. QED BY <1>2, <1>3, <1>4 DEF Book!Clock

\* What a mint costs in the book.
LEMMA BookFee ==
    ASSUME NEW who, NEW tick, Registered(tick)
    PROVE  Book!FeeOf(who, tick) = RequiredFee(who, tick, DeployOf(tick).royalty.fee)
<1> DEFINE granted == {v \in vip : v.spk = who /\ v.tick = tick}
<1>1. <<who, tick>> \in DOMAIN Fees <=> granted # {}
  BY DEF Fees
<1>2. granted # {} => Fees[<<who, tick>>] = LatestFee(vip, who, tick)
  BY DEF Fees
<1>3. RequiredFee(who, tick, DeployOf(tick).royalty.fee) =
         IF granted = {} THEN DeployOf(tick).royalty.fee ELSE LatestFee(vip, who, tick)
  BY DEF RequiredFee, LatestFee
<1>4. QED BY <1>1, <1>2, <1>3, BookParts, BookCollection DEF Book!FeeOf

\* The ids a mint may draw in the book: there are some until the maximum is minted.
LEMMA BookFree ==
    ASSUME LedgerInv, NEW tick \in DOMAIN collection_registry
    PROVE  /\ Book!Free(tick) = ((DeployOf(tick).premint + 1)..DeployOf(tick).max)
                                   \ {m.token : m \in MintsOf(tick)}
           /\ Book!Free(tick) = {} <=> LastSeq(tick) + 1 > DeployOf(tick).max
<1> DEFINE ids == {m.token : m \in MintsOf(tick)}
<1>1. PICK premint, max, seq : premint = DeployOf(tick).premint /\ max = DeployOf(tick).max
                               /\ seq = LastSeq(tick)
  OBVIOUS
<1>2. premint \in Nat /\ max \in Nat
  BY <1>1, LedgerAssumption DEF LedgerInv, RegistryRecorded
<1>3. /\ IsFiniteSet(ids) /\ Cardinality(ids) = seq /\ ids \subseteq 1..max
      /\ seq \in premint..max
  BY <1>1, MintedCount
<1>4. 1..premint \subseteq ids
  <2>1. PICK n, token, score, trail :
           Numbered(tick, premint, max, collection_registry[tick].score, DOMAIN operation_history,
                    MintsOf(tick), alloc[tick], n, token, score, trail)
    BY <1>1 DEF LedgerInv, MintsRecorded, MintsInOrder
  <2>2. /\ n \in premint..max /\ \A i \in 1..premint : token[i] = i
        /\ MintsOf(tick) = {[tick |-> tick, seq |-> i, token |-> token[i], score |-> score[i]] : i \in 1..n}
    BY <2>1 DEF Numbered
  <2>3. ASSUME NEW i \in 1..premint PROVE i \in ids
    <3> DEFINE m == [tick |-> tick, seq |-> i, token |-> token[i], score |-> score[i]]
    <3>1. m \in MintsOf(tick)
      BY <1>2, <2>2
    <3>2. m.token = i
      BY <2>2
    <3>3. m.token \in ids
      BY <3>1
    <3>4. QED BY <3>2, <3>3
  <2>4. QED BY <2>3
<1>5. Book!Sold(tick) = ids
  <2>1. DOMAIN Owners = DOMAIN current_ownership
    BY DEF Owners
  <2>2. \A k \in DOMAIN current_ownership : k = <<k[1], k[2]>>
    BY OwnedPairs
  <2>3. \A id : id \in {key[2] : key \in {k \in DOMAIN current_ownership : k[1] = tick}}
                   <=> <<tick, id>> \in DOMAIN current_ownership
    BY <2>2
  <2>4. QED BY <2>1, <2>3, MintedIds, BookParts DEF Book!Sold
<1>6. Book!Free(tick) = ((premint + 1)..max) \ ids
  <2>1. BookOf(Tables).collections[tick] = DeployOf(tick)
    BY BookCollection DEF Registered
  <2>2. QED BY <1>1, <1>5, <2>1 DEF Book!Free
<1> HIDE DEF ids
<1>7. ((premint + 1)..max) \ ids = {} <=> ids = 1..max
  <2>1. ASSUME ((premint + 1)..max) \ ids = {}, NEW i \in 1..max PROVE i \in ids
    <3>1. i \in 1..premint \/ i \in (premint + 1)..max
      BY <1>2
    <3>2. QED BY <1>4, <2>1, <3>1
  <2>2. ASSUME ids = 1..max PROVE ((premint + 1)..max) \ ids = {}
    BY <1>2, <2>2
  <2>3. QED BY <1>3, <2>1, <2>2
<1>8. ids = 1..max <=> seq = max
  <2>1. IsFiniteSet(1..max) /\ Cardinality(1..max) = max
    BY <1>2, FS_Interval
  <2>2. QED BY <1>2, <1>3, <2>1, FS_Subset
<1>9. QED BY <1>1, <1>2, <1>3, <1>6, <1>7, <1>8 DEF ids

LEMMA MintAgrees ==
    ASSUME LedgerInv, NEW op, chain_block_scores # {}
    PROVE  Agrees(MintError(op), Book!MintReasons(op))
<1>1. CASE Registered(op.tick)
  <2>1. PICK deploy : deploy = DeployOf(op.tick) /\ deploy = BookOf(Tables).collections[op.tick]
    BY <1>1, BookCollection
  <2>2. /\ op.tick \in DOMAIN collection_registry
        /\ LastSeq(op.tick) \in deploy.premint..deploy.max
        /\ deploy.premint \in Nat /\ deploy.max \in Nat
    <3>1. op.tick \in DOMAIN collection_registry
      BY <1>1 DEF Registered
    <3>2. LastSeq(op.tick) \in DeployOf(op.tick).premint..DeployOf(op.tick).max
      BY <3>1, MintedCount
    <3>3. DeployOf(op.tick).premint \in Nat /\ DeployOf(op.tick).max \in Nat
      BY <3>1, LedgerAssumption DEF LedgerInv, RegistryRecorded
    <3>4. QED BY <2>1, <3>1, <3>2, <3>3
  <2>3. PICK fee : fee = RequiredFee(op.to, op.tick, deploy.royalty.fee)
                   /\ fee = Book!FeeOf(op.to, op.tick)
    BY <1>1, <2>1, BookFee
  <2>4. Agrees(RoyaltyError(op, deploy), Book!RoyaltyReasons(op))
    <3>1. RoyaltyError(op, deploy) =
              IF deploy.royalty = None THEN None
              ELSE IF op.royalty = None THEN "MissingRoyaltyMintFee"
              ELSE IF fee > op.royalty.fee THEN "InsufficientRoyaltyFee"
              ELSE IF deploy.royalty.beneficiary # op.royalty.beneficiary
                   THEN "InvalidBeneficiaryForRoyaltyMintFee"
              ELSE None
      BY <2>3 DEF RoyaltyError
    <3>2. Book!RoyaltyReasons(op) =
              IF deploy.royalty = None THEN {}
              ELSE IF op.royalty = None THEN {"MissingRoyaltyMintFee"}
              ELSE Book!When(op.royalty.fee < fee, "InsufficientRoyaltyFee")
                   \cup Book!When(op.royalty.beneficiary # deploy.royalty.beneficiary,
                                  "InvalidBeneficiaryForRoyaltyMintFee")
      BY <2>1, <2>3 DEF Book!RoyaltyReasons
    <3>3. fee > op.royalty.fee <=> op.royalty.fee < fee
      OBVIOUS
    <3>4. QED BY <3>1, <3>2, <3>3, LedgerAssumption DEF Agrees, Book!When, CtxValidationError
  <2>5. PICK early : early <=> Daa[Tip.hash] < deploy.mint_start_daa
    OBVIOUS
  <2>6. PICK royalty : royalty = RoyaltyError(op, deploy)
    OBVIOUS
  <2>7. PICK over : over <=> LastSeq(op.tick) + 1 > deploy.max
    OBVIOUS
  <2>8. ~ (LastSeq(op.tick) < deploy.premint) /\ (deploy.max = 0 => over)
    BY <2>2, <2>7
  <2>9. MintError(op) =
           IF early THEN "MintingNotStarted"
           ELSE IF deploy.max = 0 THEN "MintingFinished"
           ELSE IF royalty # None THEN royalty
           ELSE IF over THEN "MintingFinished" ELSE None
    BY <1>1, <2>1, <2>5, <2>6, <2>7, <2>8 DEF MintError
  <2>10. Book!MintReasons(op) =
            Book!When(early, "MintingNotStarted") \cup Book!When(over, "MintingFinished")
            \cup Book!RoyaltyReasons(op)
    <3>1. Book!Clock = Daa[Tip.hash]
      BY BookClock DEF LedgerInv
    <3>2. Book!Free(op.tick) = {} <=> over
      BY <2>1, <2>2, <2>7, BookFree
    <3>3. op.tick \in DOMAIN BookOf(Tables).collections
      BY <1>1, BookCollection
    <3>4. PICK ids : ids = Book!Free(op.tick)
      OBVIOUS
    <3>5. Book!MintReasons(op) =
              Book!When(Book!Clock < deploy.mint_start_daa, "MintingNotStarted")
              \cup Book!When(ids = {}, "MintingFinished") \cup Book!RoyaltyReasons(op)
      BY <2>1, <3>3, <3>4 DEF Book!MintReasons
    <3>6. QED BY <2>5, <3>1, <3>2, <3>4, <3>5 DEF Book!When
  <2>11. QED BY <2>4, <2>6, <2>8, <2>9, <2>10, LedgerAssumption DEF Agrees, Book!When, CtxValidationError
<1>2. CASE ~ Registered(op.tick)
  BY <1>2, BookCollection, LedgerAssumption
     DEF Agrees, MintError, Book!MintReasons, CtxValidationError
<1>3. QED BY <1>1, <1>2

\* The handlers refuse an operation for a reason of the book, and only then.
LEMMA ErrorsAgree ==
    ASSUME LedgerInv, NEW op \in Ops, chain_block_scores # {}
    PROVE  Agrees(ErrorOf(op), Book!Reasons(op))
<1>1. op.kind \in {"deploy", "mint", "transfer", "discount", "list", "send"}
  BY KindsAssumption
<1>2. CASE op.kind = "deploy"
  <2>1. ErrorOf(op) = DeployError(op) /\ Book!Reasons(op) = Book!DeployReasons(op)
    BY <1>2 DEF ErrorOf, Book!Reasons
  <2>2. QED BY <2>1, DeployAgrees
<1>3. CASE op.kind = "mint"
  <2>1. ErrorOf(op) = MintError(op) /\ Book!Reasons(op) = Book!MintReasons(op)
    BY <1>3 DEF ErrorOf, Book!Reasons
  <2>2. QED BY <2>1, MintAgrees
<1>4. CASE op.kind = "transfer"
  <2>1. ErrorOf(op) = TransferError(op) /\ Book!Reasons(op) = Book!TransferReasons(op)
    BY <1>4 DEF ErrorOf, Book!Reasons
  <2>2. QED BY <2>1, TransferAgrees
<1>5. CASE op.kind = "discount"
  <2>1. ErrorOf(op) = DiscountError(op) /\ Book!Reasons(op) = Book!DiscountReasons(op)
    BY <1>5 DEF ErrorOf, Book!Reasons
  <2>2. RegistryRecorded
    BY DEF LedgerInv
  <2>3. QED BY <1>5, <2>1, <2>2, DiscountAgrees
<1>6. CASE op.kind = "list"
  <2>1. ErrorOf(op) = ListError(op) /\ Book!Reasons(op) = Book!ListReasons(op)
    BY <1>6 DEF ErrorOf, Book!Reasons
  <2>2. QED BY <2>1, ListAgrees
<1>7. CASE op.kind = "send"
  <2>1. ErrorOf(op) = SendError(op) /\ Book!Reasons(op) = Book!SendReasons(op)
    BY <1>7 DEF ErrorOf, Book!Reasons
  <2>2. QED BY <2>1, SendAgrees
<1>8. QED BY <1>1, <1>2, <1>3, <1>4, <1>5, <1>6, <1>7

-----------------------------------------------------------------------------
(* Every step of the ledger is one of the book.                             *)

\* Operations come after a block, and those without an error have no reason against
\* them in the book.
LEMMA BookApplies ==
    ASSUME LedgerInv, NEW op \in Ops, Arrives(op, op.kind)
    PROVE  Agrees(ErrorOf(op), Book!Reasons(op))
<1>1. chain_block_scores # {}
  BY DEF Arrives, LedgerInv, ChainInv, BlocksOK
<1>2. QED BY <1>1, ErrorsAgree

\* The parts that a step leaves alone.
LEMMA SameParts ==
    /\ UNCHANGED deployVars => BookOf(Tables).collections' = BookOf(Tables).collections
    /\ UNCHANGED ownVars => BookOf(Tables).owner' = BookOf(Tables).owner
    /\ UNCHANGED listingVars => BookOf(Tables).offers' = BookOf(Tables).offers
    /\ UNCHANGED discountVars => BookOf(Tables).fees' = BookOf(Tables).fees
<1>1. UNCHANGED deployVars => Deployments' = Deployments
  BY DEF deployVars, Deployments
<1>2. UNCHANGED ownVars => Owners' = Owners
  BY DEF ownVars, Owners
<1>3. UNCHANGED listingVars => Offers' = Offers
  BY DEF listingVars, Offers
<1>4. UNCHANGED discountVars => Fees' = Fees
  BY DEF discountVars, Fees
<1>5. QED BY <1>1, <1>2, <1>3, <1>4, BookParts

\* A refused operation.
LEMMA RejectBook ==
    ASSUME LedgerInv, NEW op \in Ops, Reject(op)
    PROVE  Book!Refuse(op)
<1>1. Arrives(op, op.kind) /\ Record(op, None, ErrorOf(op)) /\ ErrorOf(op) # None
  BY DEF Reject
<1>2. Book!Arrives(op, op.kind) /\ Book!Told(op, None, ErrorOf(op))
  BY <1>1, BookArrives DEF LedgerInv
<1>3. UNCHANGED <<BookOf(Tables).collections, BookOf(Tables).owner, BookOf(Tables).offers,
                  BookOf(Tables).fees>>
  BY SameParts DEF Reject
<1>4. ErrorOf(op) \in Book!Reasons(op)
  BY <1>1, BookApplies DEF Agrees
<1>5. QED BY <1>2, <1>3, <1>4 DEF Book!Refuse

\* An operation without an error applies in the book.
LEMMA BookApplied ==
    ASSUME LedgerInv, NEW op \in Ops, NEW token, NEW kind, Arrives(op, kind), ErrorOf(op) = None,
           Record(op, token, None)
    PROVE  Book!Applies(op, kind) /\ Book!Told(op, token, None)
<1>1. kind = op.kind
  BY DEF Arrives
<1>2. Arrives(op, op.kind)
  BY <1>1
<1>3. Book!Arrives(op, op.kind) /\ Book!Told(op, token, None)
  BY <1>2, BookArrives DEF LedgerInv
<1>4. Book!Reasons(op) = {}
  BY <1>2, BookApplies DEF Agrees
<1>5. QED BY <1>1, <1>3, <1>4 DEF Book!Applies

\* Tokens with a new owner have it in the book.
LEMMA OwnersSet ==
    ASSUME NEW tick, NEW seqs, NEW from, NEW to, SetOwner(tick, seqs, from, to)
    PROVE  BookOf(Tables).owner'
               = Book!PutAll(BookOf(Tables).owner, {<<tick, x>> : x \in DOMAIN seqs}, to)
<1> DEFINE keys == {<<tick, x>> : x \in DOMAIN seqs}
           row  == [owner |-> to, mod_tx_score |-> Now]
<1>1. current_ownership' = PutAll(current_ownership, keys, row) /\ row.owner = to
  BY DEF SetOwner
<1> HIDE DEF keys, row
<1>2. /\ DOMAIN current_ownership' = DOMAIN current_ownership \cup keys
      /\ \A k \in DOMAIN current_ownership' :
            current_ownership'[k] = IF k \in keys THEN row ELSE current_ownership[k]
  BY <1>1 DEF PutAll
<1>3. Owners' = [k \in DOMAIN Owners \cup keys |-> IF k \in keys THEN to ELSE Owners[k]]
  BY <1>1, <1>2 DEF Owners
<1>4. QED BY <1>3, BookParts DEF keys, Book!PutAll

LEMMA OwnerSet ==
    ASSUME NEW tick, NEW x, NEW seqs, DOMAIN seqs = {x}, NEW from, NEW to,
           SetOwner(tick, seqs, from, to)
    PROVE  BookOf(Tables).owner' = Book!Put(BookOf(Tables).owner, <<tick, x>>, to)
<1>1. {<<tick, y>> : y \in DOMAIN seqs} = {<<tick, x>>}
  OBVIOUS
<1>2. BookOf(Tables).owner' = Book!PutAll(BookOf(Tables).owner, {<<tick, x>>}, to)
  BY <1>1, OwnersSet
<1>3. QED BY <1>2 DEF Book!PutAll, Book!Put

\* A deployment.
LEMMA DeployBook ==
    ASSUME LedgerInv, NEW op \in Ops, Deploy(op)
    PROVE  Book!Deploy(op)
<1> DEFINE seqs == [t \in 1..op.premint |-> t]
           row  == [score |-> Now, op |-> op]
<1>1. /\ Arrives(op, "deploy") /\ op.kind = "deploy" /\ DeployError(op) = None
      /\ Record(op, None, None)
      /\ collection_registry' = Put(collection_registry, op.tick, row)
      /\ SetOwner(op.tick, seqs, {}, op.deployer)
      /\ UNCHANGED <<listingVars, discountVars>>
  BY DEF Deploy, Arrives
<1>2. ErrorOf(op) = None
  BY <1>1 DEF ErrorOf
<1>3. Book!Applies(op, "deploy") /\ Book!Told(op, None, None)
  BY <1>1, <1>2, BookApplied
<1>4. BookOf(Tables).collections' = Book!Put(BookOf(Tables).collections, op.tick, op)
  <2>1. row.op = op
    OBVIOUS
  <2> HIDE DEF row
  <2>2. /\ DOMAIN collection_registry' = DOMAIN collection_registry \cup {op.tick}
        /\ \A t \in DOMAIN collection_registry' :
              collection_registry'[t] = IF t = op.tick THEN row ELSE collection_registry[t]
    BY <1>1 DEF Put
  <2>3. Deployments' = [t \in DOMAIN Deployments \cup {op.tick} |->
                           IF t = op.tick THEN op ELSE Deployments[t]]
    BY <2>1, <2>2 DEF Deployments
  <2>4. QED BY <2>3, BookParts DEF Book!Put
<1>5. BookOf(Tables).owner' =
         Book!PutAll(BookOf(Tables).owner, {<<op.tick, id>> : id \in 1..op.premint}, op.deployer)
  <2>1. DOMAIN seqs = 1..op.premint
    OBVIOUS
  <2>2. SetOwner(op.tick, seqs, {}, op.deployer)
    BY <1>1
  <2> HIDE DEF seqs
  <2>3. BookOf(Tables).owner' =
           Book!PutAll(BookOf(Tables).owner, {<<op.tick, x>> : x \in DOMAIN seqs}, op.deployer)
    BY <2>2, OwnersSet
  <2>4. QED BY <2>1, <2>3
<1>6. UNCHANGED <<BookOf(Tables).offers, BookOf(Tables).fees>>
  BY <1>1, SameParts
<1>7. QED BY <1>3, <1>4, <1>5, <1>6 DEF Book!Deploy

\* A mint: the id is one that nobody has.
LEMMA MintBook ==
    ASSUME LedgerInv, NEW op \in Ops, Mint(op)
    PROVE  Book!Mint(op)
<1> DEFINE t == op.tick
<1>0. ChainInv /\ RegistryRecorded /\ MintsRecorded
  BY DEF LedgerInv
<1>1. /\ Arrives(op, "mint") /\ op.kind = "mint" /\ MintError(op) = None
      /\ UNCHANGED <<deployVars, listingVars, discountVars>>
  BY DEF Mint, Arrives
<1>2. t \in DOMAIN collection_registry
  BY <1>1, LedgerAssumption DEF MintError, Registered, CtxValidationError
<1>3. PICK n, token, score, trail : MintsInOrder(t, n, token, score, trail)
  BY <1>0, <1>2 DEF MintsRecorded
<1>4. PICK e, id, b :
         /\ e \in Nat
         /\ id = GenerateTokenId(alloc[t], e, DeployOf(t).max, DeployOf(t).premint).token
         /\ b = GenerateTokenId(alloc[t], e, DeployOf(t).max, DeployOf(t).premint).alloc
         /\ n + 1 <= DeployOf(t).max
         /\ alloc' = [alloc EXCEPT ![t] = b]
         /\ mint_history' = mint_history \cup {[tick |-> t, seq |-> n + 1, token |-> id, score |-> Now]}
         /\ SetOwner(t, [x \in {id} |-> n + 1], {}, op.to)
         /\ Record(op, id, None)
  BY <1>0, <1>3, MintFacts
<1>5. id \in Book!Free(t)
  <2>0. PICK premint, max, since, recorded, mints, a, now :
           /\ premint = DeployOf(t).premint /\ max = DeployOf(t).max
           /\ since = collection_registry[t].score /\ recorded = DOMAIN operation_history
           /\ mints = MintsOf(t) /\ a = alloc[t] /\ now = Now
    OBVIOUS
  <2>1. Supply(premint, max) /\ since \in recorded
    BY <1>0, <1>2, <2>0, LedgerAssumption DEF RegistryRecorded, Supply
  <2>2. Numbered(t, premint, max, since, recorded, mints, a, n, token, score, trail)
    BY <1>3, <2>0 DEF MintsInOrder
  <2>3. n + 1 <= max /\ id = GenerateTokenId(a, e, max, premint).token
        /\ b = GenerateTokenId(a, e, max, premint).alloc
    BY <1>4, <2>0
  <2>4. /\ recorded \in SUBSET Nat /\ e \in Nat /\ now \in Nat
        /\ \A s \in recorded : s < now
    BY <1>0, <1>4, <2>0, NowAbove
  <2> HIDE DEF t
  <2>5. id \in Drawable(premint, max) /\ Unminted(mints, id)
    BY <2>1, <2>2, <2>3, <2>4, NumberedMint
  <2>6. id \in (premint + 1)..max /\ id \notin {m.token : m \in mints}
    BY <2>1, <2>5 DEF Drawable, Supply, Unminted
  <2>7. Book!Free(t) = ((premint + 1)..max) \ {m.token : m \in mints}
    <3>1. t \in DOMAIN collection_registry
      BY <1>2
    <3>2. QED BY <2>0, <3>1, BookFree
  <2>8. QED BY <2>6, <2>7
<1>6. ErrorOf(op) = None
  BY <1>1 DEF ErrorOf
<1>7. Book!Applies(op, "mint") /\ Book!Told(op, id, None)
  BY <1>1, <1>4, <1>6, BookApplied
<1>8. BookOf(Tables).owner' = Book!Put(BookOf(Tables).owner, <<t, id>>, op.to)
  <2>1. PICK seqs : seqs = [x \in {id} |-> n + 1]
    OBVIOUS
  <2>2. DOMAIN seqs = {id} /\ SetOwner(t, seqs, {}, op.to)
    BY <1>4, <2>1
  <2> HIDE DEF t
  <2>3. QED BY <2>2, OwnerSet
<1>9. UNCHANGED <<BookOf(Tables).collections, BookOf(Tables).offers, BookOf(Tables).fees>>
  BY <1>1, SameParts
<1>10. QED BY <1>5, <1>7, <1>8, <1>9 DEF Book!Mint

\* A transfer.
LEMMA TransferBook ==
    ASSUME LedgerInv, NEW op \in Ops, Transfer(op)
    PROVE  Book!Transfer(op)
<1>0. PICK seqs : seqs = [x \in {op.token} |-> 0]
  OBVIOUS
<1>1. /\ Arrives(op, "transfer") /\ op.kind = "transfer" /\ TransferError(op) = None
      /\ Record(op, None, None)
      /\ DOMAIN seqs = {op.token} /\ SetOwner(op.tick, seqs, {OwnerOf(op)}, op.to)
      /\ UNCHANGED <<deployVars, listingVars, discountVars>>
  BY <1>0 DEF Transfer, Arrives
<1>2. ErrorOf(op) = None
  BY <1>1 DEF ErrorOf
<1>3. Book!Applies(op, "transfer") /\ Book!Told(op, None, None)
  BY <1>1, <1>2, BookApplied
<1>4. BookOf(Tables).owner' = Book!Put(BookOf(Tables).owner, <<op.tick, op.token>>, op.to)
  BY <1>1, OwnerSet
<1>5. UNCHANGED <<BookOf(Tables).collections, BookOf(Tables).offers, BookOf(Tables).fees>>
  BY <1>1, SameParts
<1>6. QED BY <1>3, <1>4, <1>5 DEF Book!Transfer

\* A listing.
LEMMA ListBook ==
    ASSUME LedgerInv, NEW op \in Ops, List(op)
    PROVE  Book!List(op)
<1> DEFINE key == <<op.tick, op.token>>
           row == [seller |-> op.sender, listing_tx_id |-> op.tx, op_score |-> Now]
<1>1. /\ Arrives(op, "list") /\ op.kind = "list" /\ ListError(op) = None
      /\ Record(op, None, None)
      /\ listings' = Put(listings, key, row)
      /\ UNCHANGED <<deployVars, ownVars, discountVars>>
  BY DEF List, Arrives
<1>2. ErrorOf(op) = None
  BY <1>1 DEF ErrorOf
<1>3. Book!Applies(op, "list") /\ Book!Told(op, None, None)
  BY <1>1, <1>2, BookApplied
<1>4. BookOf(Tables).offers' = Book!Put(BookOf(Tables).offers, key, op.tx)
  <2>1. row.listing_tx_id = op.tx
    OBVIOUS
  <2> HIDE DEF row, key
  <2>2. /\ DOMAIN listings' = DOMAIN listings \cup {key}
        /\ \A k \in DOMAIN listings' : listings'[k] = IF k = key THEN row ELSE listings[k]
    BY <1>1 DEF Put
  <2>3. Offers' = [k \in DOMAIN Offers \cup {key} |-> IF k = key THEN op.tx ELSE Offers[k]]
    BY <2>1, <2>2 DEF Offers
  <2>4. QED BY <2>3, BookParts DEF Book!Put
<1>5. UNCHANGED <<BookOf(Tables).collections, BookOf(Tables).owner, BookOf(Tables).fees>>
  BY <1>1, SameParts
<1>6. QED BY <1>3, <1>4, <1>5 DEF Book!List

\* A sale or a cancellation.
LEMMA SendBook ==
    ASSUME LedgerInv, NEW op \in Ops, Send(op)
    PROVE  Book!Send(op)
<1> DEFINE key == <<op.tick, op.token>>
<1>0. PICK seqs : seqs = [x \in {op.token} |-> 0]
  OBVIOUS
<1>1. PICK seller :
         /\ Arrives(op, "send") /\ op.kind = "send" /\ SendError(op) = None
         /\ Record(op, None, None)
         /\ \/ /\ op.buyer # None
               /\ SetOwner(op.tick, seqs, {seller}, op.buyer)
            \/ op.buyer = None /\ UNCHANGED ownVars
         /\ listings' = Del(listings, key)
         /\ UNCHANGED <<deployVars, discountVars>>
  BY <1>0 DEF Send, Arrives
<1>2. ErrorOf(op) = None
  BY <1>1 DEF ErrorOf
<1>3. Book!Applies(op, "send") /\ Book!Told(op, None, None)
  BY <1>1, <1>2, BookApplied
<1>4. BookOf(Tables).offers' = Book!Del(BookOf(Tables).offers, key)
  <2> HIDE DEF key
  <2>1. /\ DOMAIN listings' = DOMAIN listings \ {key}
        /\ \A k \in DOMAIN listings' : listings'[k] = listings[k]
    BY <1>1 DEF Del, DelAll
  <2>2. Offers' = [k \in DOMAIN Offers \ {key} |-> Offers[k]]
    BY <2>1 DEF Offers
  <2>3. QED BY <2>2, BookParts DEF Book!Del, Book!DelAll
<1>5. BookOf(Tables).owner' = IF op.buyer = None THEN BookOf(Tables).owner
                              ELSE Book!Put(BookOf(Tables).owner, key, op.buyer)
  <2>1. CASE op.buyer = None
    BY <1>1, <2>1, SameParts
  <2>2. CASE op.buyer # None
    <3>1. BookOf(Tables).owner' = Book!Put(BookOf(Tables).owner, <<op.tick, op.token>>, op.buyer)
      <4>1. DOMAIN seqs = {op.token} /\ SetOwner(op.tick, seqs, {seller}, op.buyer)
        BY <1>0, <1>1, <2>2
      <4>2. QED BY <4>1, OwnerSet
    <3>2. QED BY <2>2, <3>1
  <2>3. QED BY <2>1, <2>2
<1>6. UNCHANGED <<BookOf(Tables).collections, BookOf(Tables).fees>>
  BY <1>1, SameParts
<1>7. QED BY <1>3, <1>4, <1>5, <1>6 DEF Book!Send

\* The discount granted last is the one in force.
LEMMA DiscountBook ==
    ASSUME LedgerInv, NEW op \in Ops, Discount(op)
    PROVE  Book!Discount(op)
<1>0. PICK now, row : now = Now /\ row = [spk |-> op.to, tick |-> op.tick, score |-> now, fee |-> op.fee]
  OBVIOUS
<1>1. /\ Arrives(op, "discount") /\ op.kind = "discount" /\ DiscountError(op) = None
      /\ Record(op, None, None)
      /\ vip' = vip \cup {row}
      /\ UNCHANGED <<deployVars, ownVars, listingVars>>
  BY <1>0 DEF Discount, Arrives
<1>2. row.spk = op.to /\ row.tick = op.tick /\ row.score = now /\ row.fee = op.fee
  BY <1>0
<1>3. now \in Nat /\ \A v \in vip : v.score \in Nat /\ v.score < now
  <2>1. \A s \in DOMAIN operation_history : s \in Nat /\ s < now
    BY <1>0, NowAbove DEF LedgerInv
  <2>2. \A v \in vip : v.score \in DOMAIN operation_history
    BY DEF LedgerInv, DiscountInv, DiscountsStand
  <2>3. now \in Nat
    BY <1>0, NowAbove DEF LedgerInv
  <2>4. QED BY <2>1, <2>2, <2>3
<1>4. LatestFee(vip', op.to, op.tick) = op.fee
  <2> DEFINE granted == {v \in vip' : v.spk = op.to /\ v.tick = op.tick}
             latest(v) == v \in granted /\ \A w \in granted : w.score <= v.score
  <2>1. latest(row)
    BY <1>1, <1>2, <1>3
  <2>2. ASSUME NEW v, latest(v) PROVE v = row
    BY <1>1, <1>2, <1>3, <2>1, <2>2
  <2>3. (CHOOSE v \in granted : \A w \in granted : w.score <= v.score) = row
    <3> HIDE DEF granted
    <3>1. QED BY <2>1, <2>2
  <2>4. QED BY <1>2, <2>3 DEF LatestFee
<1>5. ASSUME NEW who, NEW tick, <<who, tick>> # <<op.to, op.tick>>
      PROVE  LatestFee(vip', who, tick) = LatestFee(vip, who, tick)
  <2>1. {v \in vip' : v.spk = who /\ v.tick = tick} = {v \in vip : v.spk = who /\ v.tick = tick}
    BY <1>1, <1>2, <1>5
  <2>2. QED BY <2>1 DEF LatestFee
<1>6. BookOf(Tables).fees' = Book!Put(BookOf(Tables).fees, <<op.to, op.tick>>, op.fee)
  <2> DEFINE key == <<op.to, op.tick>>
  <2>1. {<<v.spk, v.tick>> : v \in vip'} = {<<v.spk, v.tick>> : v \in vip} \cup {key}
    BY <1>1, <1>2
  <2>2. DOMAIN Fees' = DOMAIN Fees \cup {key}
    BY <2>1 DEF Fees
  <2>3. ASSUME NEW k \in DOMAIN Fees'
        PROVE  Fees'[k] = IF k = key THEN op.fee ELSE Fees[k]
    <3>1. PICK who, tick : k = <<who, tick>>
      BY <2>3 DEF Fees
    <3>2. Fees'[k] = LatestFee(vip', who, tick)
      BY <2>3, <3>1 DEF Fees
    <3>3. CASE k = key
      BY <1>4, <3>1, <3>2, <3>3
    <3>4. CASE k # key
      <4>1. k \in DOMAIN Fees
        BY <2>2, <3>4
      <4>2. Fees[k] = LatestFee(vip, who, tick)
        BY <3>1, <4>1 DEF Fees
      <4>3. LatestFee(vip', who, tick) = LatestFee(vip, who, tick)
        BY <1>5, <3>1, <3>4
      <4>4. QED BY <3>2, <3>4, <4>2, <4>3
    <3>5. QED BY <3>3, <3>4
  <2>4. Fees' = [k \in DOMAIN Fees' |-> Fees'[k]]
    BY DEF Fees
  <2>5. Fees' = [k \in DOMAIN Fees \cup {key} |-> IF k = key THEN op.fee ELSE Fees[k]]
    <3> HIDE DEF key
    <3>1. QED BY <2>2, <2>3, <2>4
  <2>6. QED BY <2>5, BookParts DEF Book!Put
<1>7. ErrorOf(op) = None
  BY <1>1 DEF ErrorOf
<1>8. Book!Applies(op, "discount") /\ Book!Told(op, None, None)
  BY <1>1, <1>7, BookApplied
<1>9. UNCHANGED <<BookOf(Tables).collections, BookOf(Tables).owner, BookOf(Tables).offers>>
  BY <1>1, SameParts
<1>10. QED BY <1>6, <1>8, <1>9 DEF Book!Discount

\* An accepted block keeps the book it found.
LEMMA AcceptBook ==
    ASSUME LedgerInv, PastKnown, NEW h \in Hashes, AcceptBlock(h)
    PROVE  Book!Accept(h)
<1> DEFINE new   == [blue |-> Blue[h], hash |-> h]
           blues == {b.blue : b \in chain_block_scores}
<1>1. /\ LastBlue \in Nat /\ \A b \in blues : b \in Nat /\ b <= LastBlue
      /\ \A b, c \in chain_block_scores : b.blue = c.blue => b = c
  BY LastBlueIs DEF LedgerInv, ChainInv, ChainIndexed
<1>2. /\ ~ Blue[h] < LastBlue /\ Blue[h] # LastBlue /\ Blue[h] \in Nat
      /\ chain_block_scores' = chain_block_scores \cup {new}
      /\ slot' = 0 /\ past' = Put(past, Blue[h], Tables)
      /\ UNCHANGED <<opVars, deployVars, ownVars, listingVars, discountVars>>
  BY LedgerAssumption DEF AcceptBlock
<1>3. \A b \in blues : b < Blue[h]
  BY <1>1, <1>2
<1>4. new.blue = Blue[h] /\ new.hash = h
  OBVIOUS
<1> HIDE DEF new
<1>5. DOMAIN past = blues /\ DOMAIN ChainOfBooks = blues
  BY DEF PastKnown, ChainOfBooks
<1>6. /\ {b.blue : b \in chain_block_scores'} = blues \cup {Blue[h]}
      /\ past'[Blue[h]] = Tables /\ \A b \in blues : past'[b] = past[b]
  BY <1>2, <1>3, <1>4, <1>5 DEF Put
<1>7. (CHOOSE b \in chain_block_scores' : b.blue = Blue[h]).hash = h
  <2>1. ASSUME NEW b \in chain_block_scores', b.blue = Blue[h] PROVE b = new
    BY <1>1, <1>2, <1>3, <2>1
  <2>2. new \in chain_block_scores'
    BY <1>2
  <2>3. QED BY <1>4, <2>1, <2>2
<1>8. ASSUME NEW blue \in blues
      PROVE  (CHOOSE b \in chain_block_scores' : b.blue = blue)
             = (CHOOSE b \in chain_block_scores : b.blue = blue)
  <2>1. PICK b \in chain_block_scores : b.blue = blue
    OBVIOUS
  <2>2. \A c \in chain_block_scores' : c.blue = blue => c = b
    BY <1>1, <1>2, <1>3, <1>4, <2>1
  <2>3. b \in chain_block_scores' /\ \A c \in chain_block_scores : c.blue = blue => c = b
    BY <1>1, <1>2, <2>1
  <2>4. QED BY <2>1, <2>2, <2>3
<1>9. ChainOfBooks' = Book!Put(ChainOfBooks, Blue[h], [hash |-> h, before |-> BookOf(Tables)])
  <2>1. DOMAIN ChainOfBooks' = blues \cup {Blue[h]}
    BY <1>6 DEF ChainOfBooks
  <2>2. ASSUME NEW blue \in blues
        PROVE  blue # Blue[h] /\ ChainOfBooks'[blue] = ChainOfBooks[blue]
    <3>1. blue # Blue[h]
      BY <1>1, <1>2, <1>3
    <3>2. ChainOfBooks'[blue] = [hash |-> (CHOOSE b \in chain_block_scores' : b.blue = blue).hash,
                                 before |-> BookOf(past'[blue])]
      BY <1>6 DEF ChainOfBooks
    <3>3. ChainOfBooks[blue] = [hash |-> (CHOOSE b \in chain_block_scores : b.blue = blue).hash,
                                before |-> BookOf(past[blue])]
      BY DEF ChainOfBooks
    <3>4. QED BY <1>6, <1>8, <3>1, <3>2, <3>3
  <2>3. ChainOfBooks'[Blue[h]] = [hash |-> h, before |-> BookOf(Tables)]
    BY <1>6, <1>7 DEF ChainOfBooks
  <2>4. ChainOfBooks' = [b \in DOMAIN ChainOfBooks' |-> ChainOfBooks'[b]]
    BY DEF ChainOfBooks
  <2> DEFINE entry == [hash |-> h, before |-> BookOf(Tables)]
  <2>5. ChainOfBooks' = [b \in DOMAIN ChainOfBooks \cup {Blue[h]} |->
                            IF b = Blue[h] THEN entry ELSE ChainOfBooks[b]]
    <3>1. ChainOfBooks'[Blue[h]] = entry
      BY <2>3
    <3> HIDE DEF entry, blues
    <3>2. QED BY <1>5, <2>1, <2>2, <2>4, <3>1
  <2>6. QED BY <2>5 DEF Book!Put
<1>10. BookOf(Tables) = Book!book
  BY BookIs, BookParts DEF IsBook, Book!book
<1>11. (slot < PerBlock)' = TRUE
  BY <1>2, LedgerAssumption
<1>12. UNCHANGED <<BookOf(Tables).collections, BookOf(Tables).owner, BookOf(Tables).offers,
                   BookOf(Tables).fees>>
  BY <1>2, SameParts
<1>13. BookOf(Tables).outcome' = BookOf(Tables).outcome
  <2>1. Outcomes' = Outcomes
    BY <1>2 DEF opVars, Outcomes
  <2>2. QED BY <2>1, BookParts
<1>14. \A b \in DOMAIN ChainOfBooks : b < Blue[h]
  BY <1>3, <1>5
<1>15. QED BY <1>9, <1>10, <1>11, <1>12, <1>13, <1>14 DEF Book!Accept, Book!bookVars

\* A reorganisation opens the book that its lowest block found.
LEMMA ReorgBook ==
    ASSUME LedgerInv, LedgerInv', PastKnown, PastReplayed, WholeBefore',
           NEW removed, NEW forced \in {{}, {LastBlue} \ {0}}, Reorg(removed, forced)
    PROVE  \E blue \in DOMAIN ChainOfBooks : Book!Reorganise(blue)
<1> DEFINE blues == {b.blue : b \in chain_block_scores}
<1>0. ChainInv /\ \A b \in DOMAIN past : b \in Nat
  BY LastBlueIs DEF LedgerInv, ChainInv, PastKnown
<1>1. PICK blue \in DOMAIN past : blue \in Nat /\ Rollback(blue, removed)
  BY <1>0, ReorgFrom
<1>2. DOMAIN past = blues /\ DOMAIN ChainOfBooks = blues
  BY DEF PastKnown, ChainOfBooks
<1>3. /\ past' = DelAll(past, {b \in DOMAIN past : b >= blue}) /\ slot' = PerBlock
      /\ chain_block_scores' = chain_block_scores \ {b \in chain_block_scores : b.blue >= blue}
  BY <1>1 DEF Rollback, RollbackChain
<1>4. Tables' = past[blue]
  <2>1. PICK threshold \in Nat : threshold = TxScore(blue, 0) /\ RolledBack(threshold)
    BY <1>0, <1>1, RollbackFacts
  <2>2. TablesBefore(threshold)' = TablesBefore(threshold)
    BY <2>1, RollbackBefore DEF LedgerInv
  <2>3. Tables' = TablesBefore(threshold)'
    <3>1. \A s \in DOMAIN operation_history' : s < threshold
      BY <2>1 DEF RolledBack
    <3>2. QED BY <3>1 DEF WholeBefore
  <2>4. QED BY <1>1, <2>1, <2>2, <2>3 DEF PastReplayed
<1>5. ChainOfBooks[blue].before = BookOf(Tables')
  BY <1>1, <1>2, <1>4 DEF ChainOfBooks
<1>6. \A b \in blues : b \in Nat
  BY <1>0, <1>2
<1>7. DOMAIN ChainOfBooks' = {b \in blues : b < blue}
  <2>1. DOMAIN ChainOfBooks' = {b.blue : b \in chain_block_scores'}
    BY DEF ChainOfBooks
  <2>2. \A b \in chain_block_scores : b.blue \in Nat
    BY <1>6
  <2>3. QED BY <1>1, <1>3, <2>1, <2>2
<1>8. ASSUME NEW b \in blues, b < blue
      PROVE  ChainOfBooks'[b] = ChainOfBooks[b]
  <2>1. past'[b] = past[b]
    <3>1. b \in DOMAIN past /\ b \in Nat /\ ~ (b >= blue)
      BY <1>1, <1>2, <1>6, <1>8
    <3>2. QED BY <1>3, <3>1 DEF DelAll
  <2>2. PICK c \in chain_block_scores : c.blue = b
    BY <1>8
  <2>3. \A d \in chain_block_scores : d.blue = b => d = c
    BY <2>2 DEF LedgerInv, ChainInv, ChainIndexed
  <2>4. c \in chain_block_scores' /\ \A d \in chain_block_scores' : d.blue = b => d = c
    BY <1>1, <1>3, <1>6, <1>8, <2>2, <2>3
  <2>5. (CHOOSE d \in chain_block_scores' : d.blue = b)
        = (CHOOSE d \in chain_block_scores : d.blue = b)
    BY <2>2, <2>3, <2>4
  <2>6. b \in DOMAIN ChainOfBooks' /\ b \in DOMAIN ChainOfBooks
    BY <1>2, <1>7, <1>8
  <2>7. ChainOfBooks'[b] = [hash |-> (CHOOSE d \in chain_block_scores' : d.blue = b).hash,
                            before |-> BookOf(past'[b])]
    BY <2>6 DEF ChainOfBooks
  <2>8. ChainOfBooks[b] = [hash |-> (CHOOSE d \in chain_block_scores : d.blue = b).hash,
                           before |-> BookOf(past[b])]
    BY <2>6 DEF ChainOfBooks
  <2>9. QED BY <2>1, <2>5, <2>7, <2>8
<1>9. ChainOfBooks' = [b \in {c \in DOMAIN ChainOfBooks : c < blue} |-> ChainOfBooks[b]]
  <2>1. ChainOfBooks' = [b \in DOMAIN ChainOfBooks' |-> ChainOfBooks'[b]]
    BY DEF ChainOfBooks
  <2> HIDE DEF blues
  <2>2. QED BY <1>2, <1>7, <1>8, <2>1
<1>10. (slot < PerBlock)' = FALSE
  BY <1>3, LedgerAssumption
<1>11. BookOf(Tables)' = ChainOfBooks[blue].before
  <2>1. BookOf(Tables)' = BookOf(Tables')
    BY DEF BookOf
  <2>2. QED BY <1>5, <2>1
<1>12. Book!Reorganise(blue)
  BY <1>9, <1>10, <1>11 DEF Book!Reorganise
<1>13. QED BY <1>1, <1>2, <1>12

\* Every step of the ledger is a step of the book, or leaves it as it is.
LEMMA BookStep ==
    LedgerInv /\ LedgerInv' /\ PastKnown /\ PastReplayed /\ WholeBefore' /\ [Next]_vars
        => [Book!Next]_<<Book!bookVars, ChainOfBooks, slot < PerBlock>>
<1> SUFFICES ASSUME LedgerInv, LedgerInv', PastKnown, PastReplayed, WholeBefore', [Next]_vars
             PROVE  \/ Book!Next
                    \/ UNCHANGED <<Book!bookVars, ChainOfBooks, slot < PerBlock>>
  OBVIOUS
<1>1. ASSUME NEW h \in Hashes, AcceptBlock(h) PROVE Book!Next
  <2>1. Book!Accept(h)
    BY <1>1, AcceptBook
  <2>2. QED BY <2>1 DEF Book!Next
<1>2. ASSUME NEW op \in Ops,
             \/ Reject(op) \/ Deploy(op) \/ Mint(op) \/ Transfer(op)
             \/ Discount(op) \/ List(op) \/ Send(op)
      PROVE  Book!Next
  <2>1. \/ Book!Refuse(op) \/ Book!Deploy(op) \/ Book!Mint(op) \/ Book!Transfer(op)
        \/ Book!Discount(op) \/ Book!List(op) \/ Book!Send(op)
    BY <1>2, RejectBook, DeployBook, MintBook, TransferBook, DiscountBook, ListBook, SendBook
  <2>2. QED BY <2>1 DEF Book!Next
<1>3. ASSUME NEW removed, NEW forced \in {{}, {LastBlue} \ {0}}, Reorg(removed, forced)
      PROVE  Book!Next
  <2>1. \E blue \in DOMAIN ChainOfBooks : Book!Reorganise(blue)
    BY <1>3, ReorgBook
  <2>2. QED BY <2>1 DEF Book!Next
<1>4. CASE UNCHANGED vars
  <2>1. UNCHANGED <<chain_block_scores, past, slot, opVars, deployVars, ownVars, listingVars,
                    discountVars>>
    BY <1>4 DEF vars, chainVars, modelVars
  <2>2. ChainOfBooks' = ChainOfBooks /\ (slot < PerBlock)' = (slot < PerBlock)
    BY <2>1, ChainSame
  <2>3. Outcomes' = Outcomes
    BY <2>1 DEF opVars, Outcomes
  <2>4. QED BY <2>1, <2>2, <2>3, SameParts, BookParts DEF Book!bookVars
<1>5. QED BY <1>1, <1>2, <1>3, <1>4 DEF Next

\* The ledger implements the book of module Market, for every set of operations and
\* blocks: the handlers refuse an operation only for a reason of the book and apply it
\* only when there is none, what they then write to the tables is what the book says of
\* owners, offers, fees and outcomes, a mint draws an id nobody has, and
\* process_removal, which edits the tables one by one, opens again the book that its
\* lowest block found.
THEOREM LedgerKeepsTheBook == Spec => KeepsTheBook
BY BookInit, BookStep, LedgerAlways, PastAlways, ReplayAlways, PTL
   DEF Spec, KeepsTheBook, Book!Spec

-----------------------------------------------------------------------------
(* Numbers as bytes.                                                       *)

\* Dividing by the number of values of a byte.
LEMMA Division ==
    ASSUME NEW x \in Nat
    PROVE  /\ x \div Base \in Nat /\ x % Base \in 0..(Base - 1)
           /\ x = (x \div Base) * Base + (x % Base)
BY BytesAssumption

LEMMA Multiples ==
    ASSUME NEW p \in Nat, NEW q \in Nat, p < q
    PROVE  p * Base \in Nat /\ q * Base \in Nat /\ p * Base + Base <= q * Base
<1> DEFINE d == q - p - 1
<1>1. d \in Nat /\ q = p + 1 + d
  OBVIOUS
<1>2. q * Base = p * Base + Base + d * Base /\ d * Base \in Nat /\ p * Base \in Nat
  BY <1>1, BytesAssumption
<1>3. QED BY <1>2, BytesAssumption

LEMMA DivisionMonotonic ==
    ASSUME NEW x \in Nat, NEW y \in Nat, x <= y
    PROVE  x \div Base <= y \div Base
<1>1. PICK q \in Nat, r \in 0..(Base - 1) : q = x \div Base /\ x = q * Base + r
  BY Division
<1>2. PICK p \in Nat, s \in 0..(Base - 1) : p = y \div Base /\ y = p * Base + s
  BY Division
<1>3. SUFFICES ASSUME p < q PROVE FALSE
  BY <1>1, <1>2
<1>4. p * Base \in Nat /\ q * Base \in Nat /\ p * Base + Base <= q * Base
  BY <1>3, Multiples
<1>5. QED BY <1>1, <1>2, <1>4, BytesAssumption

\* The quotient and the remainder of a number written with them.
LEMMA DivisionUnique ==
    ASSUME NEW q \in Nat, NEW r \in 0..(Base - 1)
    PROVE  /\ q * Base + r \in Nat
           /\ (q * Base + r) \div Base = q /\ (q * Base + r) % Base = r
<1> DEFINE x == q * Base + r
<1>1. x \in Nat
  BY BytesAssumption
<1>2. PICK p \in Nat, s \in 0..(Base - 1) : p = x \div Base /\ s = x % Base /\ x = p * Base + s
  <2> HIDE DEF x
  <2>1. QED BY <1>1, Division
<1>3. ~ (p < q)
  <2> SUFFICES ASSUME p < q PROVE FALSE
    OBVIOUS
  <2>1. p * Base \in Nat /\ q * Base \in Nat /\ p * Base + Base <= q * Base
    BY Multiples
  <2>2. QED BY <1>2, <2>1, BytesAssumption
<1>4. ~ (q < p)
  <2> SUFFICES ASSUME q < p PROVE FALSE
    OBVIOUS
  <2>1. q * Base \in Nat /\ p * Base \in Nat /\ q * Base + Base <= p * Base
    BY Multiples
  <2>2. QED BY <1>2, <2>1, BytesAssumption
<1>5. p = q
  BY <1>3, <1>4
<1>6. s = r
  BY <1>2, <1>5, BytesAssumption
<1>7. QED BY <1>1, <1>2, <1>5, <1>6

\* f starts at a value and goes on step by step, n times, within T.
Steps(n, T, first, step, f) ==
    /\ f = [k \in 0..n |-> f[k]] /\ \A k \in 0..n : f[k] \in T
    /\ f[0] = first /\ \A k \in 1..n : f[k] = step[k][f[k - 1]]

LEMMA StepByStep ==
    ASSUME NEW T, NEW first \in T, NEW step, NEW n \in Nat,
           \A k \in Nat : \A x \in T : step[k][x] \in T
    PROVE  \E f : Steps(n, T, first, step, f)
<1> DEFINE S == {m \in Nat : \E f : Steps(m, T, first, step, f)}
<1>1. 0 \in S
  <2>1. Steps(0, T, first, step, [k \in 0..0 |-> first])
    BY DEF Steps
  <2>2. QED BY <2>1
<1>2. ASSUME NEW m \in Nat, m \in S PROVE m + 1 \in S
  <2>1. PICK f : Steps(m, T, first, step, f)
    BY <1>2
  <2> DEFINE next == step[m + 1][f[m]]
             g == [k \in 0..(m + 1) |-> IF k = m + 1 THEN next ELSE f[k]]
  <2>2. next \in T
    BY <2>1 DEF Steps
  <2> HIDE DEF next
  <2>3. g = [k \in 0..(m + 1) |-> g[k]] /\ \A k \in 0..(m + 1) : g[k] \in T
    BY <2>1, <2>2 DEF Steps
  <2>4. g[0] = first
    BY <2>1 DEF Steps
  <2>5. \A k \in 1..(m + 1) : g[k] = step[k][g[k - 1]]
    <3>1. ASSUME NEW k \in 1..m PROVE g[k] = step[k][g[k - 1]]
      <4>1. f[k] = step[k][f[k - 1]]
        BY <2>1 DEF Steps
      <4>2. g[k] = f[k] /\ g[k - 1] = f[k - 1]
        OBVIOUS
      <4> HIDE DEF g
      <4>3. QED BY <4>1, <4>2
    <3>2. g[m + 1] = step[m + 1][g[(m + 1) - 1]]
      BY DEF next
    <3>3. \A k \in 1..(m + 1) : k \in 1..m \/ k = m + 1
      OBVIOUS
    <3> HIDE DEF g
    <3>4. QED BY <3>1, <3>2, <3>3
  <2> HIDE DEF g
  <2>6. Steps(m + 1, T, first, step, g)
    BY <2>3, <2>4, <2>5 DEF Steps
  <2>7. QED BY <2>6
<1> HIDE DEF S
<1>3. n \in S
  BY <1>1, <1>2, SetInduction
<1>4. QED BY <1>3 DEF S

LEMMA ShiftedIs ==
    ASSUME NEW n \in Nat
    PROVE  /\ Shifted(n) \in [0..Width -> Nat] /\ Shifted(n)[0] = n
           /\ \A k \in 1..Width : Shifted(n)[k] = Shifted(n)[k - 1] \div Base
<1> DEFINE Good(f) == f = [k \in 0..Width |-> IF k = 0 THEN n ELSE f[k - 1] \div Base]
           step == [k \in Nat |-> [x \in Nat |-> x \div Base]]
<1>1. \A k \in Nat : \A x \in Nat : step[k][x] \in Nat
  BY Division
<1>2. PICK f : Steps(Width, Nat, n, step, f)
  <2> HIDE DEF step
  <2>1. Width \in Nat
    BY BytesAssumption
  <2>2. QED BY <1>1, <2>1, StepByStep
<1>3. ASSUME NEW k \in 1..Width PROVE f[k] = f[k - 1] \div Base
  <2>1. f[k - 1] \in Nat /\ k \in Nat
    BY <1>2, BytesAssumption DEF Steps
  <2>2. step[k][f[k - 1]] = f[k - 1] \div Base
    BY <2>1
  <2>3. QED BY <1>2, <2>2 DEF Steps
<1>4. Good(f)
  <2>1. ASSUME NEW k \in 0..Width PROVE f[k] = IF k = 0 THEN n ELSE f[k - 1] \div Base
    <3>1. k = 0 \/ k \in 1..Width
      BY BytesAssumption
    <3>2. QED BY <1>2, <1>3, <3>1 DEF Steps
  <2>2. QED BY <1>2, <2>1 DEF Steps
<1>5. Shifted(n) = CHOOSE g : Good(g)
  BY DEF Shifted
<1>6. Good(Shifted(n))
  <2> HIDE DEF Good
  <2>1. QED BY <1>4, <1>5
<1> DEFINE h == Shifted(n)
<1>7. h = [k \in 0..Width |-> IF k = 0 THEN n ELSE h[k - 1] \div Base]
  BY <1>6
<1> HIDE DEF h
<1>8. /\ DOMAIN h = 0..Width /\ h[0] = n
      /\ \A k \in 1..Width : h[k] = h[k - 1] \div Base
  BY <1>7, BytesAssumption
<1>9. \A k \in 0..Width : h[k] \in Nat
  <2> DEFINE S == {k \in Nat : k <= Width => h[k] \in Nat}
  <2>1. 0 \in S
    BY <1>8
  <2>2. ASSUME NEW k \in Nat, k \in S PROVE k + 1 \in S
    <3> SUFFICES ASSUME k + 1 <= Width PROVE h[k + 1] \in Nat
      OBVIOUS
    <3>1. k + 1 \in 1..Width /\ h[k] \in Nat
      BY <2>2, BytesAssumption
    <3>2. h[k + 1] = h[k] \div Base
      BY <1>8, <3>1
    <3>3. QED BY <3>1, <3>2, Division
  <2> HIDE DEF S
  <2>3. Nat \subseteq S
    BY <2>1, <2>2, SetInduction
  <2>4. QED BY <2>3 DEF S
<1>10. h = [k \in 0..Width |-> h[k]]
  BY <1>7
<1>11. QED BY <1>8, <1>9, <1>10 DEF h

\* The bytes of a key.
Octets == 0..(Base - 1)

LEMMA U64Is ==
    ASSUME NEW n \in Nat
    PROVE  /\ U64(n) \in Seq(Octets) /\ Len(U64(n)) = Width
           /\ \A i \in 1..Width : U64(n)[i] = Shifted(n)[Width - i] % Base
<1>1. \A i \in 1..Width : Width - i \in 0..Width
  BY BytesAssumption
<1>2. \A i \in 1..Width : Shifted(n)[Width - i] \in Nat
  BY <1>1, ShiftedIs
<1>3. \A i \in 1..Width : Shifted(n)[Width - i] % Base \in Octets
  BY <1>2, Division DEF Octets
<1>4. U64(n) \in [1..Width -> Octets]
  BY <1>3 DEF U64
<1>5. QED BY <1>4, BytesAssumption, IsASeq, LenProperties DEF U64

\* Shifting keeps the order of numbers.
LEMMA ShiftedMonotonic ==
    ASSUME NEW m \in Nat, NEW n \in Nat, m <= n
    PROVE  \A k \in 0..Width : Shifted(m)[k] <= Shifted(n)[k]
<1> DEFINE S == {k \in Nat : k <= Width => Shifted(m)[k] <= Shifted(n)[k]}
<1>1. 0 \in S
  BY ShiftedIs
<1>2. ASSUME NEW k \in Nat, k \in S PROVE k + 1 \in S
  <2> SUFFICES ASSUME k + 1 <= Width PROVE Shifted(m)[k + 1] <= Shifted(n)[k + 1]
    OBVIOUS
  <2>1. k \in 0..Width /\ k + 1 \in 1..Width /\ (k + 1) - 1 = k
    BY BytesAssumption
  <2>2. Shifted(m)[k] \in Nat /\ Shifted(n)[k] \in Nat
    BY <2>1, ShiftedIs
  <2> k <= Width
    BY <2>1
  <2>5. Shifted(m)[k] <= Shifted(n)[k]
    BY <1>2
  <2>3. Shifted(m)[k + 1] = Shifted(m)[k] \div Base /\ Shifted(n)[k + 1] = Shifted(n)[k] \div Base
    BY <2>1, ShiftedIs
  <2>4. QED BY <2>2, <2>3, <2>5, DivisionMonotonic
<1> HIDE DEF S
<1>3. Nat \subseteq S
  BY <1>1, <1>2, SetInduction
<1>4. QED BY <1>3, BytesAssumption DEF S

\* What a number is shifted to determines what it is shifted to further on.
LEMMA ShiftedAlike ==
    ASSUME NEW m \in Nat, NEW n \in Nat, NEW j \in 0..Width, Shifted(m)[j] = Shifted(n)[j]
    PROVE  \A k \in j..Width : Shifted(m)[k] = Shifted(n)[k]
<1> DEFINE S == {d \in Nat : j + d <= Width => Shifted(m)[j + d] = Shifted(n)[j + d]}
<1>1. 0 \in S
  BY BytesAssumption
<1>2. ASSUME NEW d \in Nat, d \in S PROVE d + 1 \in S
  <2> SUFFICES ASSUME j + (d + 1) <= Width
               PROVE  Shifted(m)[j + (d + 1)] = Shifted(n)[j + (d + 1)]
    OBVIOUS
  <2>1. /\ j + (d + 1) \in 1..Width /\ (j + (d + 1)) - 1 = j + d
        /\ Shifted(m)[j + d] = Shifted(n)[j + d]
    BY <1>2, BytesAssumption
  <2>2. QED BY <2>1, ShiftedIs
<1> HIDE DEF S
<1>3. Nat \subseteq S
  BY <1>1, <1>2, SetInduction
<1>4. ASSUME NEW k \in j..Width PROVE Shifted(m)[k] = Shifted(n)[k]
  <2>1. k - j \in Nat /\ j + (k - j) = k /\ k <= Width
    BY BytesAssumption
  <2>2. k - j \in S
    BY <1>3, <2>1
  <2>3. QED BY <2>1, <2>2 DEF S
<1>5. QED BY <1>4

\* Of two numbers that are shifted to the same, the smaller has the smaller byte at
\* the first place where they differ.
LEMMA ShiftedApart ==
    ASSUME NEW m \in Nat, NEW n \in Nat, m < n, Shifted(m)[Width] = Shifted(n)[Width]
    PROVE  \E j \in 0..(Width - 1) :
              /\ Shifted(m)[j] % Base < Shifted(n)[j] % Base
              /\ Shifted(m)[j + 1] = Shifted(n)[j + 1]
<1> DEFINE S == {k \in Nat : k <= Width /\ Shifted(m)[k] = Shifted(n)[k]}
<1>1. Width \in S
  BY BytesAssumption
<1>2. PICK k \in S : \A i \in S : k <= i
  BY <1>1, LeastNat
<1>3. k # 0
  BY ShiftedIs
<1> DEFINE j == k - 1
<1>4. j \in 0..(Width - 1) /\ k \in 1..Width /\ j + 1 = k /\ j \in 0..Width /\ j \notin S
  BY <1>2, <1>3, BytesAssumption
<1>5. /\ Shifted(m)[j] \in Nat /\ Shifted(n)[j] \in Nat /\ Shifted(m)[j] # Shifted(n)[j]
      /\ Shifted(m)[j] <= Shifted(n)[j]
  <2>1. Shifted(m)[j] \in Nat /\ Shifted(n)[j] \in Nat
    BY <1>4, ShiftedIs
  <2>2. Shifted(m)[j] # Shifted(n)[j]
    BY <1>4
  <2>3. Shifted(m)[j] <= Shifted(n)[j]
    BY <1>4, ShiftedMonotonic
  <2>4. QED BY <2>1, <2>2, <2>3
<1>6. Shifted(m)[j] \div Base = Shifted(n)[j] \div Base
  <2>1. Shifted(m)[k] = Shifted(m)[k - 1] \div Base /\ Shifted(n)[k] = Shifted(n)[k - 1] \div Base
    BY <1>4, ShiftedIs
  <2>2. QED BY <1>2, <2>1
<1>7. Shifted(m)[j] % Base < Shifted(n)[j] % Base
  <2>1. PICK x \in Nat, y \in Nat : x = Shifted(m)[j] /\ y = Shifted(n)[j]
    BY <1>5
  <2>2. PICK q : q = x \div Base /\ q = y \div Base /\ q \in Nat
    BY <1>6, <2>1, Division
  <2>3. x = q * Base + (x % Base) /\ y = q * Base + (y % Base) /\ q * Base \in Nat
        /\ x % Base \in Nat /\ y % Base \in Nat
    BY <2>2, Division, BytesAssumption
  <2>4. x < y
    BY <1>5, <2>1
  <2>5. QED BY <2>1, <2>3, <2>4
<1>8. Shifted(m)[j + 1] = Shifted(n)[j + 1]
  BY <1>2, <1>4
<1> HIDE DEF j
<1>9. QED BY <1>4, <1>7, <1>8

\* The numbers from_be_bytes goes through.
LEMMA FromBytesIs ==
    ASSUME NEW bytes \in Seq(Octets)
    PROVE  \E read \in [0..Len(bytes) -> Nat] :
              /\ read[0] = 0 /\ FromBytes(bytes) = read[Len(bytes)]
              /\ \A i \in 1..Len(bytes) : read[i] = read[i - 1] * Base + bytes[i]
<1> DEFINE N == Len(bytes)
           Good(f) == f = [i \in 0..N |-> IF i = 0 THEN 0 ELSE f[i - 1] * Base + bytes[i]]
           step == [k \in Nat |-> [x \in Nat |-> IF k \in 1..N THEN x * Base + bytes[k] ELSE 0]]
<1>1. N \in Nat /\ \A k \in 1..N : bytes[k] \in Nat
  BY BytesAssumption, LenProperties, ElementOfSeq DEF Octets
<1> HIDE DEF N
<1>2. \A k \in Nat : \A x \in Nat : step[k][x] \in Nat
  BY <1>1, BytesAssumption
<1>3. PICK f : Steps(N, Nat, 0, step, f)
  <2> HIDE DEF step
  <2>1. QED BY <1>1, <1>2, StepByStep
<1>4. \A k \in 1..N : f[k - 1] \in Nat /\ f[k] = f[k - 1] * Base + bytes[k]
  <2> TAKE k \in 1..N
  <2>1. f[k - 1] \in Nat /\ k \in Nat
    BY <1>1, <1>3 DEF Steps
  <2>2. step[k][f[k - 1]] = f[k - 1] * Base + bytes[k]
    BY <2>1
  <2> HIDE DEF step
  <2>3. QED BY <1>3, <2>1, <2>2 DEF Steps
<1>5. Good(f)
  <2>1. ASSUME NEW k \in 0..N PROVE f[k] = IF k = 0 THEN 0 ELSE f[k - 1] * Base + bytes[k]
    <3>1. k = 0 \/ k \in 1..N
      BY <1>1
    <3>2. f[0] = 0
      BY <1>3 DEF Steps
    <3>3. QED BY <1>4, <3>1, <3>2
  <2>2. f = [k \in 0..N |-> f[k]]
    BY <1>3 DEF Steps
  <2>3. QED BY <2>1, <2>2
<1> DEFINE h == CHOOSE g : Good(g)
<1>6. FromBytes(bytes) = h[N]
  BY DEF FromBytes, N
<1>7. Good(h)
  <2> HIDE DEF Good
  <2>1. QED BY <1>5
<1> HIDE DEF h
<1>8. /\ h = [k \in 0..N |-> h[k]] /\ h[0] = 0
      /\ \A k \in 1..N : h[k] = h[k - 1] * Base + bytes[k]
  <2>1. h = [i \in 0..N |-> IF i = 0 THEN 0 ELSE h[i - 1] * Base + bytes[i]]
    BY <1>7
  <2> HIDE DEF Good
  <2>2. h = [k \in 0..N |-> h[k]]
    BY <2>1
  <2>3. \A i \in 0..N : h[i] = IF i = 0 THEN 0 ELSE h[i - 1] * Base + bytes[i]
    BY <2>1, Zenon
  <2>4. 0 \in 0..N /\ \A k \in 1..N : k \in 0..N /\ k # 0
    BY <1>1
  <2>5. QED BY <2>2, <2>3, <2>4
<1>9. \A k \in 0..N : h[k] \in Nat
  <2> DEFINE S == {k \in Nat : k <= N => h[k] \in Nat}
  <2>1. 0 \in S
    BY <1>8
  <2>2. ASSUME NEW k \in Nat, k \in S PROVE k + 1 \in S
    <3> SUFFICES ASSUME k + 1 <= N PROVE h[k + 1] \in Nat
      OBVIOUS
    <3>1. k + 1 \in 1..N /\ h[k] \in Nat /\ (k + 1) - 1 = k
      BY <1>1, <2>2
    <3>2. h[k + 1] = h[k] * Base + bytes[k + 1] /\ bytes[k + 1] \in Nat
      BY <1>1, <1>8, <3>1
    <3>3. QED BY <3>1, <3>2, BytesAssumption
  <2> HIDE DEF S
  <2>3. Nat \subseteq S
    BY <2>1, <2>2, SetInduction
  <2>4. QED BY <1>1, <2>3 DEF S
<1>10. h \in [0..N -> Nat]
  BY <1>8, <1>9
<1>11. QED BY <1>6, <1>8, <1>10 DEF N

\* Reading a number's bytes shifted right is reading fewer of them.
LEMMA ShiftedBytes ==
    ASSUME NEW bytes \in Seq(Octets), Len(bytes) = Width
    PROVE  FromBytes(bytes) \in Nat /\ Shifted(FromBytes(bytes))[Width] = 0
<1>1. PICK read \in [0..Width -> Nat] :
         /\ read[0] = 0 /\ FromBytes(bytes) = read[Width]
         /\ \A i \in 1..Width : read[i] = read[i - 1] * Base + bytes[i]
  BY FromBytesIs
<1> DEFINE n == read[Width]
           S == {k \in Nat : k <= Width => Shifted(n)[k] = read[Width - k]}
<1>2. n \in Nat
  BY <1>1, BytesAssumption
<1> HIDE DEF n
<1>3. 0 \in S
  <2>1. Shifted(n)[0] = n /\ Width - 0 = Width
    BY <1>2, ShiftedIs, BytesAssumption
  <2>2. QED BY <2>1 DEF n
<1>4. ASSUME NEW k \in Nat, k \in S PROVE k + 1 \in S
  <2> SUFFICES ASSUME k + 1 <= Width PROVE Shifted(n)[k + 1] = read[Width - (k + 1)]
    OBVIOUS
  <2> DEFINE i == Width - k
  <2>1. /\ k + 1 \in 1..Width /\ (k + 1) - 1 = k /\ i \in 1..Width
        /\ i - 1 \in 0..Width /\ Width - (k + 1) = i - 1
    BY BytesAssumption
  <2>2. Shifted(n)[k] = read[i]
    BY <1>4, <2>1
  <2> HIDE DEF i
  <2>3. Shifted(n)[k + 1] = read[i] \div Base
    BY <1>2, <2>1, <2>2, ShiftedIs
  <2>4. read[i] = read[i - 1] * Base + bytes[i] /\ read[i - 1] \in Nat
    BY <1>1, <2>1
  <2>5. bytes[i] \in Octets
    BY <2>1, ElementOfSeq
  <2>6. (read[i - 1] * Base + bytes[i]) \div Base = read[i - 1]
    BY <2>4, <2>5, DivisionUnique DEF Octets
  <2>7. QED BY <2>1, <2>3, <2>4, <2>6
<1> HIDE DEF S
<1>5. Nat \subseteq S
  BY <1>3, <1>4, SetInduction
<1>6. Width \in S
  BY <1>5, BytesAssumption
<1>7. Shifted(n)[Width] = read[0]
  BY <1>6, BytesAssumption DEF S
<1>8. QED BY <1>1, <1>2, <1>7 DEF n

\* A u64 leaves nothing once it is shifted by all its bytes.
LEMMA MaxU64Is == MaxU64 \in Nat /\ Shifted(MaxU64)[Width] = 0
<1> DEFINE bytes == [i \in 1..Width |-> Base - 1]
<1>1. bytes \in [1..Width -> Octets] /\ Width \in Nat
  BY BytesAssumption DEF Octets
<1>2. bytes \in Seq(Octets)
  BY <1>1, IsASeq
<1>3. Len(bytes) = Width
  BY <1>1, <1>2, LenProperties, BytesAssumption
<1>4. MaxU64 = FromBytes(bytes)
  BY DEF MaxU64
<1> HIDE DEF bytes
<1>5. QED BY <1>2, <1>3, <1>4, ShiftedBytes

LEMMA ShiftedOut ==
    ASSUME NEW n \in 0..MaxU64
    PROVE  n \in Nat /\ Shifted(n)[Width] = 0
<1>1. n \in Nat /\ n <= MaxU64 /\ Width \in 0..Width
  BY MaxU64Is, BytesAssumption
<1>2. Shifted(n)[Width] <= Shifted(MaxU64)[Width]
  BY <1>1, MaxU64Is, ShiftedMonotonic
<1>3. Shifted(n)[Width] \in Nat
  BY <1>1, ShiftedIs
<1>4. QED BY <1>1, <1>2, <1>3, MaxU64Is

\* from_be_bytes undoes to_be_bytes.
LEMMA FromBytesU64 ==
    ASSUME NEW n \in 0..MaxU64
    PROVE  FromBytes(U64(n)) = n
<1>1. n \in Nat /\ Shifted(n)[Width] = 0
  BY ShiftedOut
<1>2. U64(n) \in Seq(Octets) /\ Len(U64(n)) = Width
  BY <1>1, U64Is
<1>3. PICK read \in [0..Width -> Nat] :
         /\ read[0] = 0 /\ FromBytes(U64(n)) = read[Width]
         /\ \A i \in 1..Width : read[i] = read[i - 1] * Base + U64(n)[i]
  BY <1>2, FromBytesIs
<1> DEFINE S == {k \in Nat : k <= Width => read[k] = Shifted(n)[Width - k]}
<1>4. 0 \in S
  BY <1>1, <1>3, BytesAssumption
<1>5. ASSUME NEW k \in Nat, k \in S PROVE k + 1 \in S
  <2> SUFFICES ASSUME k + 1 <= Width PROVE read[k + 1] = Shifted(n)[Width - (k + 1)]
    OBVIOUS
  <2> DEFINE i == Width - (k + 1)
  <2>1. /\ k + 1 \in 1..Width /\ (k + 1) - 1 = k /\ k \in 0..Width /\ i \in 0..Width
        /\ i + 1 \in 1..Width /\ (i + 1) - 1 = i /\ Width - k = i + 1
    BY BytesAssumption
  <2>2. read[k] = Shifted(n)[i + 1]
    BY <1>5, <2>1
  <2> HIDE DEF i
  <2>9. Shifted(n)[i] \in Nat
    BY <1>1, <2>1, ShiftedIs
  <2>10. \A k1 \in 1..Width : Shifted(n)[k1] = Shifted(n)[k1 - 1] \div Base
    BY <1>1, ShiftedIs
  <2>3. Shifted(n)[i + 1] = Shifted(n)[i] \div Base
    BY <2>1, <2>10
  <2>4. U64(n)[k + 1] = Shifted(n)[i] % Base
    BY <1>1, <2>1, U64Is DEF i
  <2>5. read[k + 1] = read[k] * Base + U64(n)[k + 1]
    BY <1>3, <2>1
  <2>6. Shifted(n)[i] = (Shifted(n)[i] \div Base) * Base + (Shifted(n)[i] % Base)
    BY <2>9, Division
  <2>7. read[k + 1] = Shifted(n)[i]
    BY <2>2, <2>3, <2>4, <2>5, <2>6, <2>9
  <2>8. QED BY <2>7 DEF i
<1> HIDE DEF S
<1>6. Nat \subseteq S
  BY <1>4, <1>5, SetInduction
<1>7. Width \in S
  BY <1>6, BytesAssumption
<1>8. read[Width] = Shifted(n)[0]
  BY <1>7, BytesAssumption DEF S
<1>9. QED BY <1>1, <1>3, <1>8, ShiftedIs

-----------------------------------------------------------------------------
(* Keys in order.                                                          *)

\* The first byte where two keys differ is smaller in a.
Before(a, b) ==
    \E i \in 1..Len(a) \cap 1..Len(b) : a[i] < b[i] /\ \A j \in 1..(i - 1) : a[j] = b[j]

ByteStrings == Seq(Octets)

LEMMA U64Before ==
    ASSUME NEW m \in 0..MaxU64, NEW n \in 0..MaxU64, m < n
    PROVE  Before(U64(m), U64(n))
<1>1. m \in Nat /\ n \in Nat /\ Shifted(m)[Width] = Shifted(n)[Width]
  BY ShiftedOut
<1>2. PICK j \in 0..(Width - 1) :
         /\ Shifted(m)[j] % Base < Shifted(n)[j] % Base
         /\ Shifted(m)[j + 1] = Shifted(n)[j + 1]
  BY <1>1, ShiftedApart
<1> DEFINE i == Width - j
<1>3. i \in 1..Width /\ Width - i = j /\ j + 1 \in 0..Width
  BY BytesAssumption
<1>4. U64(m)[i] < U64(n)[i]
  <2>1. U64(m)[i] = Shifted(m)[j] % Base /\ U64(n)[i] = Shifted(n)[j] % Base
    BY <1>1, <1>3, U64Is
  <2>2. QED BY <1>2, <2>1
<1>5. ASSUME NEW k \in 1..(i - 1) PROVE U64(m)[k] = U64(n)[k]
  <2>1. k \in 1..Width /\ Width - k \in (j + 1)..Width
    BY BytesAssumption
  <2>2. Shifted(m)[Width - k] = Shifted(n)[Width - k]
    BY <1>1, <1>2, <1>3, <2>1, ShiftedAlike
  <2>3. QED BY <1>1, <2>1, <2>2, U64Is
<1>6. Len(U64(m)) = Width /\ Len(U64(n)) = Width
  BY <1>1, U64Is
<1> HIDE DEF i
<1>7. QED BY <1>3, <1>4, <1>5, <1>6 DEF Before

\* Two keys are before one another in one way at most, and the smaller is before.
LEMMA BeforeSmaller ==
    ASSUME NEW a \in ByteStrings, NEW b \in ByteStrings, Before(a, b)
    PROVE  Smaller(a, b) /\ ~ Smaller(b, a) /\ a # b
<1>1. PICK i \in 1..Len(a) \cap 1..Len(b) : a[i] < b[i] /\ \A j \in 1..(i - 1) : a[j] = b[j]
  BY DEF Before
<1>2. /\ Len(a) \in Nat /\ Len(b) \in Nat
      /\ \A j \in 1..Len(a) : a[j] \in Nat
      /\ \A j \in 1..Len(b) : b[j] \in Nat
  BY LenProperties, ElementOfSeq, BytesAssumption DEF Octets, ByteStrings
<1>3. Smaller(a, b)
  BY <1>1 DEF Smaller
<1>4. a # b
  BY <1>1, <1>2
<1>5. ~ IsPrefix(b, a)
  <2> SUFFICES ASSUME IsPrefix(b, a) PROVE FALSE
    OBVIOUS
  <2>1. SubSeq(b, 1, Len(b))[i] = SubSeq(a, 1, Len(b))[i]
    BY DEF IsPrefix
  <2>2. i \in 1..Len(b) /\ Len(b) <= Len(a)
    BY <1>1 DEF IsPrefix
  <2>3. SubSeq(b, 1, Len(b))[i] = b[i] /\ SubSeq(a, 1, Len(b))[i] = a[i]
    BY <1>2, <2>2, SubSeqProperties
  <2>4. a[i] = b[i]
    BY <2>1, <2>3
  <2>5. QED BY <1>1, <1>2, <2>2, <2>4
<1>6. ASSUME NEW k \in 1..Len(b) \cap 1..Len(a), b[k] < a[k], \A j \in 1..(k - 1) : b[j] = a[j]
      PROVE  FALSE
  <2>1. i \in Nat /\ k \in Nat /\ a[i] \in Nat /\ b[i] \in Nat /\ a[k] \in Nat /\ b[k] \in Nat
    BY <1>1, <1>2
  <2>2. CASE i < k
    BY <1>1, <1>6, <2>1, <2>2
  <2>3. CASE k < i
    BY <1>1, <1>6, <2>1, <2>3
  <2>4. CASE i = k
    BY <1>1, <1>6, <2>1, <2>4
  <2>5. QED BY <2>1, <2>2, <2>3, <2>4
<1>7. ~ Smaller(b, a)
  BY <1>5, <1>6 DEF Smaller, IsStrictPrefix
<1>8. QED BY <1>3, <1>4, <1>7

LEMMA BeforeAppended ==
    ASSUME NEW a \in ByteStrings, NEW b \in ByteStrings, NEW x \in ByteStrings, NEW y \in ByteStrings, Before(a, b)
    PROVE  Before(a \o x, b \o y)
<1>1. PICK i \in 1..Len(a) \cap 1..Len(b) : a[i] < b[i] /\ \A j \in 1..(i - 1) : a[j] = b[j]
  BY DEF Before
<1>2. /\ Len(a) \in Nat /\ Len(b) \in Nat /\ Len(x) \in Nat /\ Len(y) \in Nat
      /\ Len(a \o x) = Len(a) + Len(x) /\ Len(b \o y) = Len(b) + Len(y)
      /\ \A j \in 1..Len(a) : (a \o x)[j] = a[j]
      /\ \A j \in 1..Len(b) : (b \o y)[j] = b[j]
  BY LenProperties, ConcatProperties DEF ByteStrings
<1>3. QED BY <1>1, <1>2 DEF Before

LEMMA BeforePrefixed ==
    ASSUME NEW p \in ByteStrings, NEW a \in ByteStrings, NEW b \in ByteStrings, Before(a, b)
    PROVE  Before(p \o a, p \o b)
<1>1. PICK i \in 1..Len(a) \cap 1..Len(b) : a[i] < b[i] /\ \A j \in 1..(i - 1) : a[j] = b[j]
  BY DEF Before
<1>2. Len(p) \in Nat /\ Len(a) \in Nat /\ Len(b) \in Nat
  BY LenProperties DEF ByteStrings
<1>3. /\ Len(p \o a) = Len(p) + Len(a) /\ Len(p \o b) = Len(p) + Len(b)
      /\ \A j \in 1..(Len(p) + Len(a)) : (p \o a)[j] = IF j <= Len(p) THEN p[j] ELSE a[j - Len(p)]
      /\ \A j \in 1..(Len(p) + Len(b)) : (p \o b)[j] = IF j <= Len(p) THEN p[j] ELSE b[j - Len(p)]
  BY ConcatProperties DEF ByteStrings
<1> DEFINE n == Len(p) + i
<1>4. n \in 1..Len(p \o a) \cap 1..Len(p \o b) /\ (p \o a)[n] = a[i] /\ (p \o b)[n] = b[i]
  BY <1>1, <1>2, <1>3
<1>5. ASSUME NEW j \in 1..(n - 1) PROVE (p \o a)[j] = (p \o b)[j]
  <2>1. CASE j <= Len(p)
    BY <1>1, <1>2, <1>3, <2>1
  <2>2. CASE ~ (j <= Len(p))
    <3>1. j - Len(p) \in 1..(i - 1)
      BY <1>1, <1>2, <2>2
    <3>2. QED BY <1>1, <1>2, <1>3, <2>2, <3>1
  <2>3. QED BY <2>1, <2>2
<1> HIDE DEF n
<1>6. QED BY <1>1, <1>4, <1>5 DEF Before

\* Of two keys neither of which is a prefix of the other, one is before the other.
LEMMA BeforeEither ==
    ASSUME NEW a \in ByteStrings, NEW b \in ByteStrings, ~ IsPrefix(a, b), ~ IsPrefix(b, a)
    PROVE  Before(a, b) \/ Before(b, a)
<1>1. /\ Len(a) \in Nat /\ Len(b) \in Nat
      /\ \A j \in 1..Len(a) : a[j] \in Nat
      /\ \A j \in 1..Len(b) : b[j] \in Nat
  BY LenProperties, ElementOfSeq, BytesAssumption DEF Octets, ByteStrings
<1> DEFINE S == {k \in Nat : k \in 1..Len(a) /\ k \in 1..Len(b) /\ a[k] # b[k]}
<1>2. \A x, y \in ByteStrings : Len(x) <= Len(y) /\ (\A k \in 1..Len(x) : x[k] = y[k]) => IsPrefix(x, y)
  <2> SUFFICES ASSUME NEW x \in ByteStrings, NEW y \in ByteStrings, Len(x) <= Len(y),
                      \A k \in 1..Len(x) : x[k] = y[k]
               PROVE  IsPrefix(x, y)
    OBVIOUS
  <2>1. Len(x) \in Nat /\ Len(y) \in Nat /\ x \in Seq(Octets) /\ y \in Seq(Octets)
    BY LenProperties DEF ByteStrings
  <2>2. (\A k \in 1..Len(x) : x[k] \in Octets /\ y[k] \in Octets)
    BY <2>1, ElementOfSeq
  <2>3. /\ SubSeq(x, 1, Len(x)) \in Seq(Octets) /\ Len(SubSeq(x, 1, Len(x))) = Len(x)
        /\ \A k \in 1..Len(x) : SubSeq(x, 1, Len(x))[k] = x[k]
    BY <2>1, SubSeqFull
  <2>4. /\ SubSeq(y, 1, Len(x)) \in Seq(Octets) /\ Len(SubSeq(y, 1, Len(x))) = Len(x)
        /\ \A k \in 1..Len(x) : SubSeq(y, 1, Len(x))[k] = y[k]
    BY <2>1, <2>2, SubSeqProperties
  <2>5. SubSeq(x, 1, Len(x)) = SubSeq(y, 1, Len(x))
    BY <2>3, <2>4, SeqEqual
  <2>6. QED BY <2>5 DEF IsPrefix
<1>3. S # {}
  <2> SUFFICES ASSUME \A k \in Nat : k \in 1..Len(a) /\ k \in 1..Len(b) => a[k] = b[k] PROVE FALSE
    OBVIOUS
  <2>1. CASE Len(a) <= Len(b)
    <3>1. \A k \in 1..Len(a) : a[k] = b[k]
      BY <1>1, <2>1
    <3>2. QED BY <1>2, <2>1, <3>1
  <2>2. CASE Len(b) <= Len(a)
    <3>1. \A k \in 1..Len(b) : b[k] = a[k]
      BY <1>1, <2>2
    <3>2. QED BY <1>2, <2>2, <3>1
  <2>3. QED BY <1>1, <2>1, <2>2
<1>4. PICK k \in S : \A i \in S : k <= i
  BY <1>3, LeastNat
<1>5. k \in 1..Len(a) \cap 1..Len(b) /\ a[k] # b[k] /\ a[k] \in Nat /\ b[k] \in Nat
  BY <1>1
<1>6. ASSUME NEW j \in 1..(k - 1) PROVE a[j] = b[j]
  <2>1. j \in Nat /\ j \in 1..Len(a) /\ j \in 1..Len(b) /\ ~ (k <= j)
    BY <1>1, <1>5
  <2>2. QED BY <1>4, <2>1
<1>7. CASE a[k] < b[k]
  BY <1>5, <1>6, <1>7 DEF Before
<1>8. CASE b[k] < a[k]
  BY <1>5, <1>6, <1>8 DEF Before
<1>9. QED BY <1>5, <1>7, <1>8

LEMMA BeforeNotPrefix ==
    ASSUME NEW a \in ByteStrings, NEW b \in ByteStrings, Before(a, b)
    PROVE  ~ IsPrefix(a, b) /\ ~ IsPrefix(b, a)
<1>1. PICK i \in 1..Len(a) \cap 1..Len(b) : a[i] < b[i] /\ \A j \in 1..(i - 1) : a[j] = b[j]
  BY DEF Before
<1>2. /\ Len(a) \in Nat /\ Len(b) \in Nat
      /\ \A j \in 1..Len(a) : a[j] \in Octets /\ a[j] \in Nat
      /\ \A j \in 1..Len(b) : b[j] \in Octets /\ b[j] \in Nat
  <2>1. ASSUME NEW x \in ByteStrings
        PROVE  Len(x) \in Nat /\ \A j \in 1..Len(x) : x[j] \in Octets
    BY LenProperties, ElementOfSeq DEF ByteStrings
  <2>2. Octets \subseteq Nat
    BY BytesAssumption DEF Octets
  <2>3. QED BY <2>1, <2>2
<1>3. ASSUME NEW x \in ByteStrings, NEW y \in ByteStrings, IsPrefix(x, y), i \in 1..Len(x),
             Len(x) \in Nat, \A j \in 1..Len(x) : x[j] \in Octets, Len(y) \in Nat,
             \A j \in 1..Len(y) : y[j] \in Octets
      PROVE  x[i] = y[i]
  <2>1. SubSeq(x, 1, Len(x))[i] = SubSeq(y, 1, Len(x))[i] /\ Len(x) <= Len(y)
    BY <1>3 DEF IsPrefix
  <2>2. SubSeq(x, 1, Len(x))[i] = x[i] /\ SubSeq(y, 1, Len(x))[i] = y[i]
    BY <1>3, <2>1, SubSeqProperties
  <2>3. QED BY <2>1, <2>2
<1>4. a[i] # b[i] /\ i \in 1..Len(a) /\ i \in 1..Len(b)
  BY <1>1, <1>2
<1>5. QED BY <1>2, <1>3, <1>4

\* Two keys that differ at a byte of both.
Apart(a, b) == Before(a, b) \/ Before(b, a)

LEMMA U64Apart ==
    ASSUME NEW m \in 0..MaxU64, NEW n \in 0..MaxU64, m # n
    PROVE  Apart(U64(m), U64(n))
<1>1. m \in Nat /\ n \in Nat
  BY ShiftedOut
<1>2. QED BY <1>1, U64Before DEF Apart

LEMMA U64String ==
    ASSUME NEW n \in 0..MaxU64
    PROVE  U64(n) \in ByteStrings /\ Len(U64(n)) = Width
BY ShiftedOut, U64Is DEF ByteStrings

LEMMA SameLengthApart ==
    ASSUME NEW a \in ByteStrings, NEW b \in ByteStrings, Len(a) = Len(b), a # b
    PROVE  Apart(a, b)
<1>1. SubSeq(a, 1, Len(a)) = a /\ SubSeq(b, 1, Len(b)) = b
  BY SubSeqFull DEF ByteStrings
<1>2. ~ IsPrefix(a, b) /\ ~ IsPrefix(b, a)
  BY <1>1 DEF IsPrefix
<1>3. QED BY <1>2, BeforeEither DEF Apart

LEMMA Concatenated ==
    ASSUME NEW a \in ByteStrings, NEW b \in ByteStrings
    PROVE  a \o b \in ByteStrings /\ Len(a \o b) = Len(a) + Len(b)
BY ConcatProperties DEF ByteStrings

LEMMA Associated ==
    ASSUME NEW a \in ByteStrings, NEW b \in ByteStrings, NEW c \in ByteStrings
    PROVE  (a \o b) \o c = a \o (b \o c)
BY ConcatAssociative DEF ByteStrings

\* Concatenation with its definition out of the provers' sight: the facts about
\* keys of several parts are instances of these.
Join(a, b) == a \o b

LEMMA Joined ==
    ASSUME NEW a \in ByteStrings, NEW b \in ByteStrings
    PROVE  Join(a, b) \in ByteStrings
BY Concatenated DEF Join

LEMMA JoinThree ==
    ASSUME NEW a \in ByteStrings, NEW b \in ByteStrings, NEW c \in ByteStrings
    PROVE  Join(Join(a, b), c) = Join(a, Join(b, c))
BY Associated, Zenon DEF Join

LEMMA JoinFour ==
    ASSUME NEW p \in ByteStrings, NEW a \in ByteStrings, NEW b \in ByteStrings, NEW c \in ByteStrings
    PROVE  Join(Join(Join(p, a), b), c) = Join(p, Join(Join(a, b), c))
<1>1. Join(Join(p, a), b) = Join(p, Join(a, b))
  BY JoinThree
<1>2. Join(a, b) \in ByteStrings
  BY Joined
<1>3. Join(Join(p, Join(a, b)), c) = Join(p, Join(Join(a, b), c))
  BY <1>2, JoinThree
<1>4. QED BY <1>1, <1>3, Zenon

LEMMA JoinPairs ==
    ASSUME NEW p \in ByteStrings, NEW a \in ByteStrings, NEW b \in ByteStrings, NEW c \in ByteStrings
    PROVE  Join(Join(Join(p, a), b), c) = Join(Join(p, a), Join(b, c))
<1>1. Join(p, a) \in ByteStrings
  BY Joined
<1>2. QED BY <1>1, JoinThree

LEMMA NothingAppended ==
    ASSUME NEW a \in ByteStrings
    PROVE  a \o << >> = a /\ << >> \in ByteStrings /\ Len(<< >>) = 0
BY ConcatEmptySeq, EmptySeq DEF ByteStrings

LEMMA BeforeLonger ==
    ASSUME NEW a \in ByteStrings, NEW b \in ByteStrings, NEW x \in ByteStrings, Before(a, b)
    PROVE  Before(a, b \o x) /\ Before(a \o x, b)
<1>1. a \o << >> = a /\ b \o << >> = b /\ << >> \in ByteStrings
  BY NothingAppended
<1>2. Before(a \o << >>, b \o x) /\ Before(a \o x, b \o << >>)
  BY <1>1, BeforeAppended
<1>3. QED BY <1>1, <1>2

LEMMA PrefixOf ==
    ASSUME NEW p \in ByteStrings, NEW x \in ByteStrings
    PROVE  IsPrefix(p, p \o x)
<1>1. /\ Len(p) \in Nat /\ Len(x) \in Nat /\ Len(p \o x) = Len(p) + Len(x)
      /\ \A j \in 1..Len(p) : (p \o x)[j] = p[j] /\ p[j] \in Octets
  BY LenProperties, ElementOfSeq, ConcatProperties DEF ByteStrings
<1>2. /\ SubSeq(p, 1, Len(p)) \in Seq(Octets) /\ Len(SubSeq(p, 1, Len(p))) = Len(p)
      /\ \A k \in 1..Len(p) : SubSeq(p, 1, Len(p))[k] = p[k]
  BY <1>1, SubSeqFull DEF ByteStrings
<1>3. /\ SubSeq(p \o x, 1, Len(p)) \in Seq(Octets) /\ Len(SubSeq(p \o x, 1, Len(p))) = Len(p)
      /\ \A k \in 1..Len(p) : SubSeq(p \o x, 1, Len(p))[k] = p[k]
  BY <1>1, SubSeqProperties
<1>4. SubSeq(p, 1, Len(p)) = SubSeq(p \o x, 1, Len(p))
  BY <1>1, <1>2, <1>3, SeqEqual
<1>5. QED BY <1>1, <1>4 DEF IsPrefix

LEMMA NotSmaller ==
    ASSUME NEW a \in ByteStrings
    PROVE  ~ Smaller(a, a)
<1>1. \A i \in 1..Len(a) : a[i] \in Nat
  BY ElementOfSeq, BytesAssumption DEF Octets, ByteStrings
<1>2. QED BY <1>1 DEF Smaller, IsStrictPrefix

\* Nothing as long as zeros is smaller than they are.
LEMMA ZerosLeast ==
    ASSUME NEW p \in ByteStrings, NEW r \in ByteStrings, NEW z \in ByteStrings,
           Len(z) <= Len(r), \A i \in 1..Len(z) : z[i] = 0
    PROVE  ~ Smaller(p \o r, p \o z)
<1>1. /\ Len(p) \in Nat /\ Len(r) \in Nat /\ Len(z) \in Nat
      /\ \A j \in 1..Len(p) : p[j] \in Nat
      /\ \A j \in 1..Len(r) : r[j] \in Nat
  BY LenProperties, ElementOfSeq, BytesAssumption DEF Octets, ByteStrings
<1>2. /\ Len(p \o r) = Len(p) + Len(r) /\ Len(p \o z) = Len(p) + Len(z)
      /\ \A j \in 1..(Len(p) + Len(r)) : (p \o r)[j] = IF j <= Len(p) THEN p[j] ELSE r[j - Len(p)]
      /\ \A j \in 1..(Len(p) + Len(z)) : (p \o z)[j] = IF j <= Len(p) THEN p[j] ELSE z[j - Len(p)]
  BY ConcatProperties DEF ByteStrings
<1>3. ~ IsStrictPrefix(p \o r, p \o z)
  <2> SUFFICES ASSUME IsPrefix(p \o r, p \o z), p \o r # p \o z PROVE FALSE
    BY DEF IsStrictPrefix
  <2>5. Len(p \o r) <= Len(p \o z)
    BY DEF IsPrefix
  <2>6. PICK lp \in Nat, lr \in Nat, lz \in Nat :
           lp = Len(p) /\ lr = Len(r) /\ lz = Len(z)
    BY <1>1
  <2>7. Len(p \o r) = lp + lr /\ Len(p \o z) = lp + lz /\ lz <= lr
    BY <1>2, <2>6
  <2>1. Len(p \o r) = Len(p \o z)
    BY <2>5, <2>6, <2>7
  <2>2. p \o r \in Seq(Octets) /\ p \o z \in Seq(Octets)
    BY Concatenated DEF ByteStrings
  <2>3. SubSeq(p \o r, 1, Len(p \o r)) = p \o r /\ SubSeq(p \o z, 1, Len(p \o z)) = p \o z
    BY <2>2, SubSeqFull
  <2>4. QED BY <2>1, <2>3 DEF IsPrefix
<1>4. ASSUME NEW i \in 1..Len(p \o r) \cap 1..Len(p \o z), (p \o r)[i] < (p \o z)[i]
      PROVE  FALSE
  <2>1. CASE i <= Len(p)
    <3>1. (p \o r)[i] = p[i] /\ (p \o z)[i] = p[i] /\ p[i] \in Nat
      BY <1>1, <1>2, <2>1
    <3>2. QED BY <1>4, <3>1
  <2>2. CASE ~ (i <= Len(p))
    <3> DEFINE k == i - Len(p)
    <3>1. k \in 1..Len(r) /\ k \in 1..Len(z)
      BY <1>1, <1>2, <2>2
    <3>2. (p \o r)[i] = r[k] /\ (p \o z)[i] = z[k]
      BY <1>1, <1>2, <2>2
    <3>3. r[k] \in Nat /\ z[k] = 0
      BY <1>1, <3>1
    <3>4. QED BY <1>4, <3>2, <3>3
  <2>3. QED BY <2>1, <2>2
<1>5. QED BY <1>3, <1>4 DEF Smaller

LEMMA U64Zeros == \A i \in 1..Width : U64(0)[i] = 0
<1> DEFINE S == {k \in Nat : k <= Width => Shifted(0)[k] = 0}
<1>1. 0 \in S
  BY ShiftedIs
<1>2. ASSUME NEW k \in Nat, k \in S PROVE k + 1 \in S
  <2> SUFFICES ASSUME k + 1 <= Width PROVE Shifted(0)[k + 1] = 0
    OBVIOUS
  <2>1. k + 1 \in 1..Width /\ (k + 1) - 1 = k /\ Shifted(0)[k] = 0
    BY <1>2, BytesAssumption
  <2>2. Shifted(0)[k + 1] = 0 \div Base
    BY <2>1, ShiftedIs
  <2>3. QED BY <2>2, BytesAssumption
<1> HIDE DEF S
<1>3. Nat \subseteq S
  BY <1>1, <1>2, SetInduction
<1>4. ASSUME NEW i \in 1..Width PROVE U64(0)[i] = 0
  <2>1. Width - i \in Nat /\ Width - i <= Width
    BY BytesAssumption
  <2>2. Width - i \in S
    BY <1>3, <2>1
  <2>3. Shifted(0)[Width - i] = 0
    BY <2>1, <2>2 DEF S
  <2>4. U64(0)[i] = 0 % Base
    BY <2>3, U64Is
  <2>5. QED BY <2>4, BytesAssumption
<1>5. QED BY <1>4

\* A part of a key.
LEMMA PartOf ==
    ASSUME NEW p \in ByteStrings, NEW u \in ByteStrings, NEW s \in ByteStrings, Len(u) # 0
    PROVE  /\ Len((p \o u) \o s) = (Len(p) + Len(u)) + Len(s)
           /\ SubSeq((p \o u) \o s, Len(p) + 1, Len(p) + Len(u)) = u
<1> DEFINE key == (p \o u) \o s
<1>1. Len(p) \in Nat /\ Len(u) \in Nat /\ Len(s) \in Nat
  BY LenProperties DEF ByteStrings
<1>2. /\ p \o u \in Seq(Octets) /\ Len(p \o u) = Len(p) + Len(u)
      /\ \A i \in 1..Len(u) : (p \o u)[Len(p) + i] = u[i]
  BY <1>1, ConcatProperties DEF ByteStrings
<1>3. /\ key \in Seq(Octets) /\ Len(key) = Len(p \o u) + Len(s)
      /\ \A i \in 1..Len(p \o u) : key[i] = (p \o u)[i]
  <2>1. s \in Seq(Octets)
    BY DEF ByteStrings
  <2>2. QED BY <1>1, <1>2, <2>1, ConcatProperties
<1> HIDE DEF key
<1>4. \A i \in 1..Len(key) : key[i] \in Octets
  BY <1>3, ElementOfSeq
<1> DEFINE m == Len(p) + 1
           n == Len(p) + Len(u)
           sub == SubSeq(key, m, n)
<1>5. ASSUME NEW i \in m..n PROVE key[i] \in Octets
  <2>1. i \in 1..Len(key)
    BY <1>1, <1>2, <1>3
  <2>2. QED BY <1>4, <2>1
<1>6. m \in Int /\ n \in Int /\ m <= n /\ n - m + 1 = Len(u)
  BY <1>1
<1> HIDE DEF m, n
<1>7. /\ sub \in Seq(Octets) /\ Len(sub) = Len(u)
      /\ \A i \in 1..Len(u) : sub[i] = key[m + i - 1]
  BY <1>5, <1>6, SubSeqProperties
<1>8. \A i \in 1..Len(u) : sub[i] = u[i]
  <2> TAKE i \in 1..Len(u)
  <2>1. m + i - 1 = Len(p) + i /\ Len(p) + i \in 1..Len(p \o u)
    BY <1>1, <1>2 DEF m
  <2>2. key[Len(p) + i] = u[i]
    BY <1>2, <1>3, <2>1
  <2> HIDE DEF sub
  <2>3. QED BY <1>7, <2>1, <2>2
<1>9. sub = u
  <2> HIDE DEF sub
  <2>1. QED BY <1>7, <1>8, SeqEqual DEF ByteStrings
<1>10. QED BY <1>2, <1>3, <1>9 DEF key, m, n

\* The n-th u64 from the end of a key.
LEMMA TailIs ==
    ASSUME NEW p \in ByteStrings, NEW x \in 0..MaxU64, NEW s \in ByteStrings,
           NEW n \in Nat \ {0}, Len(s) = (n - 1) * Width
    PROVE  Tail64((p \o U64(x)) \o s, n) = x
<1> DEFINE u == U64(x)
           key == (p \o u) \o s
           w == n * Width
           v == (n - 1) * Width
<1>1. u \in ByteStrings /\ Len(u) = Width /\ Width # 0
  BY U64String, BytesAssumption
<1> HIDE DEF u
<1>2. /\ Len(key) = (Len(p) + Len(u)) + Len(s)
      /\ SubSeq(key, Len(p) + 1, Len(p) + Len(u)) = u
  BY <1>1, PartOf
<1>3. Len(p) \in Nat /\ Len(s) \in Nat /\ Width \in Nat
  BY LenProperties, BytesAssumption DEF ByteStrings
<1>4. w = v + Width /\ w \in Int /\ v \in Int /\ Len(s) = v
  BY <1>3
<1> HIDE DEF key, w, v
<1>5. ASSUME NEW lp \in Nat, NEW lk \in Nat, NEW a \in Int, NEW b \in Int, NEW c \in Nat,
             a = b + c, lk = (lp + c) + b
      PROVE  lk - a + 1 = lp + 1 /\ lk - b = lp + c
  BY <1>5
<1>6. Len(key) - w + 1 = Len(p) + 1 /\ Len(key) - v = Len(p) + Len(u)
  <2>1. Len(key) = (Len(p) + Width) + v /\ Len(key) \in Nat
    <3>1. \A a, b, c \in Nat : (a + b) + c \in Nat
      OBVIOUS
    <3>2. Len(key) = (Len(p) + Width) + v
      BY <1>1, <1>2, <1>4, Zenon
    <3>3. v \in Nat
      BY <1>3, <1>4, Zenon
    <3>4. (Len(p) + Width) + v \in Nat
      BY <1>3, <3>1, <3>3, Zenon
    <3>5. QED BY <3>2, <3>4, Zenon
  <2>2. QED BY <1>1, <1>3, <1>4, <1>5, <2>1
<1>7. Tail64(key, n) = FromBytes(SubSeq(key, Len(key) - w + 1, Len(key) - v))
  BY DEF Tail64, w, v
<1>8. Tail64(key, n) = FromBytes(u)
  BY <1>2, <1>6, <1>7
<1>9. QED BY <1>8, FromBytesU64 DEF key, u

LEMMA LastIs ==
    ASSUME NEW p \in ByteStrings, NEW x \in 0..MaxU64
    PROVE  Tail64(p \o U64(x), 1) = x
<1>1. p \o U64(x) \in ByteStrings
  BY U64String, Concatenated
<1>2. (p \o U64(x)) \o << >> = p \o U64(x) /\ << >> \in ByteStrings /\ Len(<< >>) = 0
  BY <1>1, NothingAppended
<1>3. 1 \in Nat \ {0}
  OBVIOUS
<1>4. Len(<< >>) = (1 - 1) * Width
  BY <1>2, BytesAssumption
<1>5. Tail64((p \o U64(x)) \o << >>, 1) = x
  <2> DEFINE s == << >>
             n == 1
  <2>1. s \in ByteStrings /\ n \in Nat \ {0} /\ Len(s) = (n - 1) * Width
    BY <1>2, <1>3, <1>4
  <2> HIDE DEF s, n
  <2>2. Tail64((p \o U64(x)) \o s, n) = x
    BY <2>1, TailIs
  <2>3. QED BY <2>2 DEF s, n
<1>6. QED BY <1>2, <1>5

\* The first and the last of a set of keys.
LEMMA LeastIs ==
    ASSUME NEW keys \in SUBSET ByteStrings, NEW k0 \in keys,
           \A k \in keys : k = k0 \/ Before(k0, k)
    PROVE  Least(keys) = {k0}
<1>1. \A k \in keys : k # k0 => Smaller(k0, k) /\ ~ Smaller(k, k0)
  BY BeforeSmaller
<1>2. ~ Smaller(k0, k0)
  BY NotSmaller
<1>3. QED BY <1>1, <1>2 DEF Least

LEMMA GreatestIs ==
    ASSUME NEW keys \in SUBSET ByteStrings, NEW k0 \in keys,
           \A k \in keys : k = k0 \/ Before(k, k0)
    PROVE  Greatest(keys) = {k0}
<1>1. \A k \in keys : k # k0 => Smaller(k, k0) /\ ~ Smaller(k0, k)
  BY BeforeSmaller
<1>2. ~ Smaller(k0, k0)
  BY NotSmaller
<1>3. QED BY <1>1, <1>2 DEF Greatest

-----------------------------------------------------------------------------
(* The scans of the store.                                                 *)

\* Keys that differ go on differing when they are continued or begin alike.
LEMMA ApartKeys ==
    ASSUME NEW a \in ByteStrings, NEW b \in ByteStrings, Apart(a, b)
    PROVE  /\ ~ IsPrefix(a, b)
           /\ \A x, y \in ByteStrings : Apart(a \o x, b \o y)
           /\ \A x \in ByteStrings : Apart(a, b \o x)
           /\ \A p \in ByteStrings : Apart(p \o a, p \o b)
<1>1. ~ IsPrefix(a, b)
  BY BeforeNotPrefix DEF Apart
<1>2. ASSUME NEW x \in ByteStrings, NEW y \in ByteStrings PROVE Apart(a \o x, b \o y)
  BY BeforeAppended DEF Apart
<1>3. ASSUME NEW x \in ByteStrings PROVE Apart(a, b \o x)
  BY BeforeLonger DEF Apart
<1>4. ASSUME NEW p \in ByteStrings PROVE Apart(p \o a, p \o b)
  BY BeforePrefixed DEF Apart
<1>5. QED BY <1>1, <1>2, <1>3, <1>4

\* A key of four parts.
LEMMA ThreeParts ==
    ASSUME NEW a \in ByteStrings, NEW b \in ByteStrings, NEW c \in ByteStrings
    PROVE  (a \o b) \o c \in ByteStrings
<1>1. a \o b \in ByteStrings
  BY Concatenated
<1>2. QED BY <1>1, Concatenated

LEMMA FourParts ==
    ASSUME NEW p \in ByteStrings, NEW a \in ByteStrings, NEW b \in ByteStrings, NEW c \in ByteStrings
    PROVE  /\ ((p \o a) \o b) \o c \in ByteStrings
           /\ IsPrefix(p, ((p \o a) \o b) \o c)
<1>1. p \o ((a \o b) \o c) \in ByteStrings /\ IsPrefix(p, p \o ((a \o b) \o c))
  BY ThreeParts, Concatenated, PrefixOf
<1>2. ((p \o a) \o b) \o c = p \o ((a \o b) \o c)
  <2>1. Join(Join(Join(p, a), b), c) = Join(p, Join(Join(a, b), c))
    BY JoinFour
  <2>2. QED BY <2>1, Zenon DEF Join
<1>3. QED BY <1>1, <1>2, Zenon

\* Keys of four parts with the same first part, or with first parts that differ.
LEMMA FourBefore ==
    ASSUME NEW p \in ByteStrings, NEW a \in ByteStrings, NEW b \in ByteStrings, NEW c \in ByteStrings,
           NEW x \in ByteStrings, NEW y \in ByteStrings, NEW z \in ByteStrings, Before(a, x)
    PROVE  Before(((p \o a) \o b) \o c, ((p \o x) \o y) \o z)
<1> DEFINE pa == p \o a
           px == p \o x
<1>1. pa \in ByteStrings /\ px \in ByteStrings /\ Before(pa, px)
  BY Concatenated, BeforePrefixed
<1> HIDE DEF pa, px
<1> DEFINE pab == pa \o b
           pxy == px \o y
<1>2. pab \in ByteStrings /\ pxy \in ByteStrings /\ Before(pab, pxy)
  BY <1>1, Concatenated, BeforeAppended
<1> HIDE DEF pab, pxy
<1>3. Before(pab \o c, pxy \o z)
  BY <1>2, BeforeAppended
<1>4. QED BY <1>3 DEF pab, pxy, pa, px

LEMMA FourApart ==
    ASSUME NEW p \in ByteStrings, NEW q \in ByteStrings, NEW a \in ByteStrings, NEW b \in ByteStrings,
           NEW c \in ByteStrings, Apart(p, q)
    PROVE  ~ IsPrefix(p, ((q \o a) \o b) \o c)
<1>1. (a \o b) \o c \in ByteStrings
  BY ThreeParts
<1>2. q \o ((a \o b) \o c) \in ByteStrings /\ Apart(p, q \o ((a \o b) \o c))
  BY <1>1, ApartKeys, Concatenated
<1>3. ~ IsPrefix(p, q \o ((a \o b) \o c))
  BY <1>2, ApartKeys
<1>4. ((q \o a) \o b) \o c = q \o ((a \o b) \o c)
  <2>1. Join(Join(Join(q, a), b), c) = Join(q, Join(Join(a, b), c))
    BY JoinFour
  <2>2. QED BY <2>1, Zenon DEF Join
<1>5. QED BY <1>3, <1>4, Zenon

\* What a key's numbers may be, and the ticks and scripts that have bytes.
Numbers == 0..MaxU64
AnyTick == DOMAIN TickBytes
AnySpk == DOMAIN SpkBytes

LEMMA TickKeys ==
    /\ \A t \in AnyTick : TickBytes[t] \in ByteStrings
    /\ \A t, u \in AnyTick : t # u => Apart(TickBytes[t], TickBytes[u])
    /\ \A t, u \in AnyTick : Len(TickBytes[t]) = Len(TickBytes[u])
    /\ Ticks \subseteq AnyTick /\ Neighbours \subseteq AnyTick
<1>1. \A t \in AnyTick : TickBytes[t] \in ByteStrings
  BY KeysAssumption DEF AnyTick, ByteStrings, Octets
<1>2. \A t, u \in AnyTick : Len(TickBytes[t]) = Len(TickBytes[u]) /\ (TickBytes[t] = TickBytes[u] => t = u)
  BY KeysAssumption DEF AnyTick
<1>3. ASSUME NEW t \in AnyTick, NEW u \in AnyTick, t # u PROVE Apart(TickBytes[t], TickBytes[u])
  BY <1>1, <1>2, <1>3, SameLengthApart
<1>4. QED BY <1>1, <1>2, <1>3, KeysAssumption DEF AnyTick

LEMMA SpkKeys ==
    /\ \A s \in AnySpk : SpkBytes[s] \in ByteStrings
    /\ \A s, r \in AnySpk : s # r => Apart(SpkBytes[s], SpkBytes[r])
<1>1. \A s \in AnySpk : SpkBytes[s] \in ByteStrings
  BY KeysAssumption DEF AnySpk, ByteStrings, Octets
<1>2. ASSUME NEW s \in AnySpk, NEW r \in AnySpk, s # r PROVE Apart(SpkBytes[s], SpkBytes[r])
  <2>1. ~ IsPrefix(SpkBytes[s], SpkBytes[r]) /\ ~ IsPrefix(SpkBytes[r], SpkBytes[s])
    BY <1>2, KeysAssumption DEF AnySpk
  <2>2. QED BY <1>1, <2>1, BeforeEither DEF Apart
<1>3. QED BY <1>1, <1>2

LEMMA NumberKeys ==
    /\ MaxU64 \in Nat /\ 0 \in Numbers /\ MaxU64 \in Numbers
    /\ \A n \in Numbers : /\ n \in Nat /\ U64(n) \in ByteStrings /\ Len(U64(n)) = Width
                          /\ MaxU64 - n \in Numbers /\ Reversed(n) \in ByteStrings
                          /\ Len(Reversed(n)) = Width /\ MaxU64 - (MaxU64 - n) = n
    /\ \A m, n \in Numbers : m < n => Before(U64(m), U64(n)) /\ Before(Reversed(n), Reversed(m))
<1>1. MaxU64 \in Nat
  BY MaxU64Is
<1>2. \A n \in Numbers : n \in Nat /\ MaxU64 - n \in Numbers /\ MaxU64 - (MaxU64 - n) = n
  BY <1>1 DEF Numbers
<1>3. \A n \in Numbers : U64(n) \in ByteStrings /\ Len(U64(n)) = Width
  BY U64String DEF Numbers
<1>4. \A m, n \in Numbers : m < n => Before(U64(m), U64(n))
  BY U64Before DEF Numbers
<1>5. \A m, n \in Numbers : m < n => MaxU64 - n < MaxU64 - m
  BY <1>1 DEF Numbers
<1>6. ASSUME NEW m \in Numbers, NEW n \in Numbers, m < n PROVE Before(Reversed(n), Reversed(m))
  BY <1>2, <1>4, <1>5, <1>6 DEF Reversed
<1>7. \A n \in Numbers : Reversed(n) \in ByteStrings /\ Len(Reversed(n)) = Width
  BY <1>2, <1>3 DEF Reversed
<1>8. 0 \in Numbers /\ MaxU64 \in Numbers
  BY <1>1 DEF Numbers
<1>9. QED BY <1>1, <1>2, <1>3, <1>4, <1>6, <1>7, <1>8

\* The third number from the end of a key that ends in three.
LEMMA ThirdIs ==
    ASSUME NEW p \in ByteStrings, NEW x \in Numbers, NEW y \in Numbers, NEW z \in Numbers
    PROVE  Tail64(((p \o U64(x)) \o U64(y)) \o U64(z), 3) = x
<1>1. U64(x) \in ByteStrings /\ U64(y) \in ByteStrings /\ U64(z) \in ByteStrings
  BY NumberKeys
<1>7. Len(U64(y)) = Width /\ Len(U64(z)) = Width
  BY NumberKeys
<1>2. U64(y) \o U64(z) \in ByteStrings /\ Len(U64(y) \o U64(z)) = Width + Width
  BY <1>1, <1>7, Concatenated
<1>3. ((p \o U64(x)) \o U64(y)) \o U64(z) = (p \o U64(x)) \o (U64(y) \o U64(z))
  <2>1. Join(Join(Join(p, U64(x)), U64(y)), U64(z)) = Join(Join(p, U64(x)), Join(U64(y), U64(z)))
    BY <1>1, JoinPairs
  <2>2. QED BY <2>1, Zenon DEF Join
<1> DEFINE vw == U64(y) \o U64(z)
           n == 3
<1>4. vw \in ByteStrings /\ Len(vw) = (n - 1) * Width /\ n \in Nat \ {0}
  BY <1>2, BytesAssumption
<1> HIDE DEF vw, n
<1>5. Tail64((p \o U64(x)) \o vw, n) = x
  BY <1>4, TailIs DEF Numbers
<1>6. QED BY <1>3, <1>5 DEF vw, n

\* The least key of mint_history under a tick is the last mint's.
LEMMA SeqScanIs ==
    ASSUME NEW rows, NEW tick \in AnyTick,
           rows \subseteq [tick : AnyTick, seq : Numbers, token : Numbers, score : Numbers]
    PROVE  /\ (\A m \in rows : m.tick # tick) => SeqScan(rows, tick) = {}
           /\ \A last \in rows :
                 /\ last.tick = tick
                 /\ \A m \in rows : m.tick = tick /\ m # last => m.seq < last.seq
                 => SeqScan(rows, tick) = {last.seq}
<1> DEFINE T == TickBytes[tick]
           key(m) == ((TickBytes[m.tick] \o Reversed(m.seq)) \o U64(m.token)) \o U64(m.score)
           here == {m \in rows : m.tick = tick}
           keys == Prefixed(Encoded(rows, MintHistoryKey), T)
<1>1. \A m \in rows : /\ m.tick \in AnyTick /\ m.seq \in Numbers
                      /\ m.token \in Numbers /\ m.score \in Numbers
  OBVIOUS
<1>2. \A m \in rows : /\ TickBytes[m.tick] \in ByteStrings /\ Reversed(m.seq) \in ByteStrings
                      /\ U64(m.token) \in ByteStrings /\ U64(m.score) \in ByteStrings
  BY <1>1, TickKeys, NumberKeys
<1>3. ASSUME NEW m \in rows PROVE key(m) \in ByteStrings /\ (IsPrefix(T, key(m)) <=> m.tick = tick)
  <2>1. key(m) \in ByteStrings /\ IsPrefix(TickBytes[m.tick], key(m))
    BY <1>2, FourParts
  <2>2. ASSUME m.tick # tick PROVE ~ IsPrefix(T, key(m))
    <3>1. Apart(T, TickBytes[m.tick]) /\ T \in ByteStrings
      BY <1>1, <2>2, TickKeys
    <3> HIDE DEF T
    <3>2. QED BY <1>2, <3>1, FourApart
  <2>3. QED BY <2>1, <2>2
<1>4. keys = {key(m) : m \in here}
  <2>1. Encoded(rows, MintHistoryKey) = {key(m) : m \in rows}
    BY DEF Encoded, MintHistoryKey
  <2> HIDE DEF key
  <2>2. QED BY <1>3, <2>1 DEF Prefixed
<1>5. SeqScan(rows, tick) = {MaxU64 - Tail64(k, 3) : k \in Least(keys)}
  BY DEF SeqScan
<1>6. ASSUME here = {} PROVE SeqScan(rows, tick) = {}
  <2>1. keys = {}
    BY <1>4, <1>6
  <2>2. Least(keys) = {}
    BY <2>1 DEF Least
  <2>3. QED BY <1>5, <2>2
<1>7. ASSUME NEW last \in here, \A m \in here : m # last => m.seq < last.seq
      PROVE  SeqScan(rows, tick) = {last.seq}
  <2>1. ASSUME NEW m \in here, m # last PROVE Before(key(last), key(m))
    <3>1. Before(Reversed(last.seq), Reversed(m.seq))
      BY <1>1, <1>7, <2>1, NumberKeys
    <3>2. TickBytes[m.tick] = T /\ TickBytes[last.tick] = T /\ T \in ByteStrings
      BY TickKeys
    <3> HIDE DEF T
    <3>3. QED BY <1>2, <3>1, <3>2, FourBefore
  <2>2. Least(keys) = {key(last)}
    <3>1. keys \in SUBSET ByteStrings /\ key(last) \in keys
      <4> HIDE DEF key, keys
      <4>1. QED BY <1>3, <1>4
    <3>2. \A k \in keys : k = key(last) \/ Before(key(last), k)
      <4> HIDE DEF key, keys
      <4>1. QED BY <1>4, <2>1
    <3> HIDE DEF key, keys
    <3>3. QED BY <3>1, <3>2, LeastIs
  <2>3. Tail64(key(last), 3) = MaxU64 - last.seq
    <3>1. /\ TickBytes[last.tick] \in ByteStrings /\ MaxU64 - last.seq \in Numbers
          /\ last.token \in Numbers /\ last.score \in Numbers
      BY <1>1, <1>2, NumberKeys
    <3>2. QED BY <3>1, ThirdIs DEF Reversed
  <2>4. MaxU64 - (MaxU64 - last.seq) = last.seq
    BY <1>1, NumberKeys
  <2> HIDE DEF key, keys
  <2>5. QED BY <1>5, <2>2, <2>3, <2>4
<1> HIDE DEF key, keys, T
<1>8. QED BY <1>6, <1>7

\* Two parts of which the first differ, or only the second.
LEMMA ApartPairs ==
    ASSUME NEW a \in ByteStrings, NEW b \in ByteStrings, NEW x \in ByteStrings, NEW y \in ByteStrings,
           Apart(a, x) \/ (a = x /\ Apart(b, y))
    PROVE  Apart(a \o b, x \o y)
BY ApartKeys

LEMMA OwnershipKeys ==
    /\ \A t \in AnyTick, n \in Numbers : OwnershipKey(t, n) \in ByteStrings
    /\ \A t, u \in AnyTick, m, n \in Numbers :
          t # u \/ m # n => Apart(OwnershipKey(t, m), OwnershipKey(u, n))
<1>1. ASSUME NEW t \in AnyTick, NEW n \in Numbers PROVE OwnershipKey(t, n) \in ByteStrings
  BY TickKeys, NumberKeys, Concatenated DEF OwnershipKey
<1>2. ASSUME NEW t \in AnyTick, NEW u \in AnyTick, NEW m \in Numbers, NEW n \in Numbers, t # u \/ m # n
      PROVE  Apart(OwnershipKey(t, m), OwnershipKey(u, n))
  <2>1. /\ TickBytes[t] \in ByteStrings /\ TickBytes[u] \in ByteStrings
        /\ U64(m) \in ByteStrings /\ U64(n) \in ByteStrings
    BY TickKeys, NumberKeys
  <2>2. t # u => Apart(TickBytes[t], TickBytes[u])
    BY TickKeys
  <2>3. m # n => Apart(U64(m), U64(n))
    BY U64Apart DEF Numbers
  <2>4. QED BY <1>2, <2>1, <2>2, <2>3, ApartPairs DEF OwnershipKey
<1>3. QED BY <1>1, <1>2

HolderKey(spk, tick) == SpkBytes[spk] \o TickBytes[tick]

LEMMA HolderKeys ==
    /\ \A s \in AnySpk, t \in AnyTick : HolderKey(s, t) \in ByteStrings
    /\ \A s, r \in AnySpk, t, u \in AnyTick :
          s # r \/ t # u => Apart(HolderKey(s, t), HolderKey(r, u))
<1>1. ASSUME NEW s \in AnySpk, NEW t \in AnyTick PROVE HolderKey(s, t) \in ByteStrings
  BY TickKeys, SpkKeys, Concatenated DEF HolderKey
<1>2. ASSUME NEW s \in AnySpk, NEW r \in AnySpk, NEW t \in AnyTick, NEW u \in AnyTick, s # r \/ t # u
      PROVE  Apart(HolderKey(s, t), HolderKey(r, u))
  <2>1. /\ TickBytes[t] \in ByteStrings /\ TickBytes[u] \in ByteStrings
        /\ SpkBytes[s] \in ByteStrings /\ SpkBytes[r] \in ByteStrings
    BY TickKeys, SpkKeys
  <2>2. t # u => Apart(TickBytes[t], TickBytes[u])
    BY TickKeys
  <2>3. s # r => Apart(SpkBytes[s], SpkBytes[r])
    BY SpkKeys
  <2>4. QED BY <1>2, <2>1, <2>2, <2>3, ApartPairs DEF HolderKey
<1>3. QED BY <1>1, <1>2

\* A key that begins with one prefix does not begin with another, and lies below
\* or above all that do.
LEMMA ElsewhereIs ==
    ASSUME NEW p \in ByteStrings, NEW q \in ByteStrings, NEW x \in ByteStrings, Apart(p, q)
    PROVE  /\ ~ IsPrefix(p, q \o x)
           /\ \A y, z \in ByteStrings : Smaller(q \o x, p \o y) \/ ~ Smaller(q \o x, p \o z)
<1>1. q \o x \in ByteStrings /\ Apart(p, q \o x)
  BY ApartKeys, Concatenated
<1>2. ~ IsPrefix(p, q \o x)
  BY <1>1, ApartKeys
<1>3. ASSUME NEW y \in ByteStrings, NEW z \in ByteStrings
      PROVE  Smaller(q \o x, p \o y) \/ ~ Smaller(q \o x, p \o z)
  <2>1. p \o y \in ByteStrings /\ p \o z \in ByteStrings
    BY Concatenated
  <2>2. CASE Before(p, q)
    <3>1. Before(p \o z, q \o x)
      BY <2>2, BeforeAppended
    <3>2. QED BY <1>1, <2>1, <3>1, BeforeSmaller
  <2>3. CASE Before(q, p)
    <3>1. Before(q \o x, p \o y)
      BY <2>3, BeforeAppended
    <3>2. QED BY <1>1, <2>1, <3>1, BeforeSmaller
  <2>4. QED BY <2>2, <2>3 DEF Apart
<1>4. QED BY <1>2, <1>3

\* The least key of ownership_history under a token is the last change's.
LEMMA OwnerScanIs ==
    ASSUME NEW rows, NEW last \in rows, rows \subseteq AnyTick \X Numbers \X Numbers,
           \A k \in rows : k[1] = last[1] /\ k[2] = last[2] /\ k # last => k[3] < last[3]
    PROVE  OwnerScan(rows, <<last[1], last[2]>>) = {last[3]}
<1> DEFINE P == OwnershipKey(last[1], last[2])
           key(k) == OwnershipKey(k[1], k[2]) \o Reversed(k[3])
           here == {k \in rows : k[1] = last[1] /\ k[2] = last[2]}
           keys == Prefixed(Encoded(rows, OwnershipHistoryKey), P)
<1>1. \A k \in rows : k[1] \in AnyTick /\ k[2] \in Numbers /\ k[3] \in Numbers
  OBVIOUS
<1>2. \A k \in rows : OwnershipKey(k[1], k[2]) \in ByteStrings /\ Reversed(k[3]) \in ByteStrings
  BY <1>1, OwnershipKeys, NumberKeys
<1>3. ASSUME NEW k \in rows PROVE key(k) \in ByteStrings /\ (IsPrefix(P, key(k)) <=> k \in here)
  <2>1. key(k) \in ByteStrings /\ IsPrefix(OwnershipKey(k[1], k[2]), key(k))
    BY <1>2, Concatenated, PrefixOf
  <2>2. ASSUME k \notin here PROVE ~ IsPrefix(P, key(k))
    <3>1. Apart(P, OwnershipKey(k[1], k[2])) /\ P \in ByteStrings
      BY <1>1, <2>2, OwnershipKeys
    <3> HIDE DEF P
    <3>2. QED BY <1>2, <3>1, ElsewhereIs
  <2>3. QED BY <2>1, <2>2
<1>4. keys = {key(k) : k \in here}
  <2>1. Encoded(rows, OwnershipHistoryKey) = {key(k) : k \in rows}
    BY DEF Encoded, OwnershipHistoryKey
  <2>2. here \subseteq rows
    OBVIOUS
  <2> HIDE DEF key, here
  <2>3. QED BY <1>3, <2>1, <2>2 DEF Prefixed
<1>5. OwnerScan(rows, <<last[1], last[2]>>) = {MaxU64 - Tail64(k, 1) : k \in Least(keys)}
  BY DEF OwnerScan
<1>6. ASSUME NEW k \in here, k # last PROVE Before(key(last), key(k))
  <2>1. Before(Reversed(last[3]), Reversed(k[3]))
    BY <1>1, <1>6, NumberKeys
  <2>2. OwnershipKey(k[1], k[2]) = P /\ OwnershipKey(last[1], last[2]) = P /\ P \in ByteStrings
    BY <1>2
  <2> HIDE DEF P
  <2>3. QED BY <1>2, <2>1, <2>2, BeforePrefixed
<1>7. Least(keys) = {key(last)}
  <2>1. keys \in SUBSET ByteStrings /\ key(last) \in keys
    <3>1. last \in here /\ here \subseteq rows
      OBVIOUS
    <3> HIDE DEF key, keys, here
    <3>2. QED BY <1>3, <1>4, <3>1
  <2>2. \A k \in keys : k = key(last) \/ Before(key(last), k)
    <3> HIDE DEF key, keys, here
    <3>1. QED BY <1>4, <1>6
  <2> HIDE DEF key, keys
  <2>3. QED BY <2>1, <2>2, LeastIs
<1>8. Tail64(key(last), 1) = MaxU64 - last[3]
  <2>1. OwnershipKey(last[1], last[2]) \in ByteStrings /\ MaxU64 - last[3] \in 0..MaxU64
    BY <1>1, <1>2, NumberKeys DEF Numbers
  <2>2. QED BY <2>1, LastIs DEF Reversed
<1>9. MaxU64 - (MaxU64 - last[3]) = last[3]
  BY <1>1, NumberKeys
<1> HIDE DEF key, keys
<1>10. QED BY <1>5, <1>7, <1>8, <1>9

\* The keys of address_holdings under a script and a tick are the tokens held.
LEMMA HoldingScanIs ==
    ASSUME NEW rows, NEW spk \in AnySpk, NEW tick \in AnyTick, rows \subseteq AnySpk \X AnyTick \X Numbers
    PROVE  HoldingScan(rows, spk, tick) = {k[3] : k \in {h \in rows : h[1] = spk /\ h[2] = tick}}
<1> DEFINE P == HolderKey(spk, tick)
           key(k) == HolderKey(k[1], k[2]) \o U64(k[3])
           here == {h \in rows : h[1] = spk /\ h[2] = tick}
           keys == Prefixed(Encoded(rows, AddressHoldingKey), P)
<1>1. \A k \in rows : k[1] \in AnySpk /\ k[2] \in AnyTick /\ k[3] \in Numbers
  OBVIOUS
<1>2. \A k \in rows : HolderKey(k[1], k[2]) \in ByteStrings /\ U64(k[3]) \in ByteStrings
  BY <1>1, HolderKeys, NumberKeys
<1>3. ASSUME NEW k \in rows PROVE AddressHoldingKey(k) = key(k)
  <2>1. SpkBytes[k[1]] \in ByteStrings /\ TickBytes[k[2]] \in ByteStrings /\ U64(k[3]) \in ByteStrings
    BY <1>1, SpkKeys, TickKeys, NumberKeys
  <2>2. (SpkBytes[k[1]] \o TickBytes[k[2]]) \o U64(k[3]) = SpkBytes[k[1]] \o (TickBytes[k[2]] \o U64(k[3]))
    <3>1. Join(Join(SpkBytes[k[1]], TickBytes[k[2]]), U64(k[3]))
              = Join(SpkBytes[k[1]], Join(TickBytes[k[2]], U64(k[3])))
      BY <2>1, JoinThree
    <3>2. QED BY <3>1, Zenon DEF Join
  <2>3. QED BY <2>2, Zenon DEF AddressHoldingKey, HolderKey, OwnershipKey
<1>4. ASSUME NEW k \in rows PROVE key(k) \in ByteStrings /\ (IsPrefix(P, key(k)) <=> k \in here)
  <2>1. key(k) \in ByteStrings /\ IsPrefix(HolderKey(k[1], k[2]), key(k))
    BY <1>2, Concatenated, PrefixOf
  <2>2. ASSUME k \notin here PROVE ~ IsPrefix(P, key(k))
    <3>1. Apart(P, HolderKey(k[1], k[2])) /\ P \in ByteStrings
      BY <1>1, <2>2, HolderKeys
    <3> HIDE DEF P
    <3>2. QED BY <1>2, <3>1, ElsewhereIs
  <2>3. QED BY <2>1, <2>2
<1>5. keys = {key(k) : k \in here}
  <2>1. Encoded(rows, AddressHoldingKey) = {AddressHoldingKey(k) : k \in rows}
    BY DEF Encoded
  <2>2. here \subseteq rows
    OBVIOUS
  <2> HIDE DEF key, here
  <2>3. QED BY <1>3, <1>4, <2>1, <2>2 DEF Prefixed
<1>6. \A k \in rows : Tail64(key(k), 1) = k[3]
  BY <1>1, <1>2, LastIs DEF Numbers
<1>7. HoldingScan(rows, spk, tick) = {Tail64(k, 1) : k \in keys}
  BY DEF HoldingScan, HolderKey
<1>8. here \subseteq rows
  OBVIOUS
<1>9. {Tail64(k, 1) : k \in keys} = {k[3] : k \in here}
  <2> HIDE DEF key, keys, here
  <2>1. QED BY <1>5, <1>6, <1>8
<1>10. QED BY <1>7, <1>9

\* The keys of the ranges of a tick are its indices, none of which is u64::MAX.
LEMMA RangesScanIs ==
    ASSUME NEW rows, NEW tick \in AnyTick, rows \subseteq AnyTick \X Numbers,
           \A k \in rows : k[2] < MaxU64
    PROVE  RangesScan(rows, tick) = {k[2] : k \in {r \in rows : r[1] = tick}}
<1> DEFINE T == TickBytes[tick]
           key(k) == TickBytes[k[1]] \o U64(k[2])
           here == {r \in rows : r[1] = tick}
           start == T \o U64(0)
           end == T \o U64(MaxU64)
           keys == Between(Encoded(rows, RangeKey), start, end)
<1>1. \A k \in rows : k[1] \in AnyTick /\ k[2] \in Numbers
  OBVIOUS
<1>2. \A k \in rows : TickBytes[k[1]] \in ByteStrings /\ U64(k[2]) \in ByteStrings
  BY <1>1, TickKeys, NumberKeys
<1>3. /\ T \in ByteStrings /\ U64(0) \in ByteStrings /\ U64(MaxU64) \in ByteStrings
      /\ start \in ByteStrings /\ end \in ByteStrings
  BY TickKeys, NumberKeys, Concatenated
<1>4. ASSUME NEW k \in here PROVE ~ Smaller(key(k), start) /\ Smaller(key(k), end)
  <2>1. TickBytes[k[1]] = T /\ k \in rows
    OBVIOUS
  <2>2. Before(U64(k[2]), U64(MaxU64))
    BY <1>1, <2>1, NumberKeys
  <2>3. \A i \in 1..Len(U64(0)) : U64(0)[i] = 0
    BY U64Zeros, NumberKeys
  <2>4. Len(U64(0)) <= Len(U64(k[2]))
    <3>1. Len(U64(0)) = Width /\ Len(U64(k[2])) = Width
      BY <1>1, <2>1, NumberKeys
    <3>2. QED BY <3>1, BytesAssumption
  <2> DEFINE u == U64(k[2])
             z == U64(0)
             m == U64(MaxU64)
  <2>5. u \in ByteStrings /\ z \in ByteStrings /\ m \in ByteStrings
    BY <1>2, <1>3
  <2> HIDE DEF T, u, z, m
  <2>6. ~ Smaller(T \o u, T \o z)
    BY <1>3, <2>3, <2>4, <2>5, ZerosLeast DEF u, z
  <2>7. Before(T \o u, T \o m) /\ T \o u \in ByteStrings /\ T \o m \in ByteStrings
    BY <1>3, <2>2, <2>5, BeforePrefixed, Concatenated DEF u, m
  <2>8. Smaller(T \o u, T \o m)
    BY <2>7, BeforeSmaller
  <2>9. QED BY <2>1, <2>6, <2>8 DEF u, z, m
<1>5. ASSUME NEW k \in rows, k \notin here PROVE Smaller(key(k), start) \/ ~ Smaller(key(k), end)
  <2>1. Apart(T, TickBytes[k[1]])
    BY <1>1, <1>5, TickKeys
  <2> HIDE DEF T
  <2>2. QED BY <1>2, <1>3, <2>1, ElsewhereIs
<1>6. keys = {key(k) : k \in here}
  <2>1. Encoded(rows, RangeKey) = {key(k) : k \in rows}
    BY DEF Encoded, RangeKey
  <2>2. here \subseteq rows
    OBVIOUS
  <2> HIDE DEF key, here, start, end
  <2>3. QED BY <1>4, <1>5, <2>1, <2>2 DEF Between, From
<1>7. \A k \in rows : Tail64(key(k), 1) = k[2]
  BY <1>1, <1>2, LastIs DEF Numbers
<1>8. RangesScan(rows, tick) = {Tail64(k, 1) : k \in keys}
  BY DEF RangesScan, RangeKey
<1>9. here \subseteq rows
  OBVIOUS
<1>10. {Tail64(k, 1) : k \in keys} = {k[2] : k \in here}
  <2> HIDE DEF key, keys, here
  <2>1. QED BY <1>6, <1>7, <1>9
<1>11. QED BY <1>8, <1>10

\* The last key of chain_block_scores is the tip's.
LEMMA TipScanIs ==
    ASSUME NEW rows, NEW last \in rows, rows \subseteq [blue : Numbers, hash : Hashes],
           \A b \in rows : b # last => b.blue < last.blue
    PROVE  TipScan(rows) = {BlueScoredChainBlockHash(last)}
<1> DEFINE keys == Encoded(rows, BlueScoredChainBlockHash)
<1>1. ASSUME NEW b \in rows
      PROVE  U64(b.blue) \in ByteStrings /\ HashBytes[b.hash] \in ByteStrings /\ b.blue \in Numbers
  BY NumberKeys, KeysAssumption DEF ByteStrings, Octets
<1>2. ASSUME NEW b \in rows PROVE BlueScoredChainBlockHash(b) \in ByteStrings
  BY <1>1, Concatenated DEF BlueScoredChainBlockHash
<1>3. ASSUME NEW b \in rows, b # last
      PROVE  Before(BlueScoredChainBlockHash(b), BlueScoredChainBlockHash(last))
  <2>1. Before(U64(b.blue), U64(last.blue))
    BY <1>1, <1>3, NumberKeys
  <2>2. QED BY <1>1, <2>1, BeforeAppended DEF BlueScoredChainBlockHash
<1>4. keys = {BlueScoredChainBlockHash(b) : b \in rows}
  BY DEF Encoded
<1> HIDE DEF keys
<1>5. /\ keys \in SUBSET ByteStrings /\ BlueScoredChainBlockHash(last) \in keys
      /\ \A k \in keys : k = BlueScoredChainBlockHash(last) \/ Before(k, BlueScoredChainBlockHash(last))
  BY <1>2, <1>3, <1>4
<1>6. Greatest(keys) = {BlueScoredChainBlockHash(last)}
  BY <1>5, GreatestIs
<1>7. QED BY <1>6 DEF TipScan, keys

\* Zeros after zeros.
LEMMA ZerosAppended ==
    ASSUME NEW a \in ByteStrings, NEW b \in ByteStrings,
           \A i \in 1..Len(a) : a[i] = 0, \A i \in 1..Len(b) : b[i] = 0
    PROVE  \A i \in 1..Len(a \o b) : (a \o b)[i] = 0
<1>1. /\ Len(a \o b) = Len(a) + Len(b)
      /\ \A i \in 1..(Len(a) + Len(b)) : (a \o b)[i] = IF i <= Len(a) THEN a[i] ELSE b[i - Len(a)]
      /\ Len(a) \in Nat /\ Len(b) \in Nat
  BY ConcatProperties, LenProperties DEF ByteStrings
<1>2. SUFFICES ASSUME NEW i \in 1..(Len(a) + Len(b)) PROVE (a \o b)[i] = 0
  BY <1>1
<1>3. i > Len(a) => i - Len(a) \in 1..Len(b)
  BY <1>1
<1>4. i <= Len(a) => i \in 1..Len(a)
  BY <1>1
<1>5. QED BY <1>1, <1>3, <1>4

\* The key of a score lies below the key that another score's rows start from
\* exactly if the score is lower.
LEMMA FromScore ==
    ASSUME NEW n \in Numbers, NEW s \in Numbers, NEW r \in ByteStrings, NEW z \in ByteStrings,
           Len(z) <= Len(r), \A i \in 1..Len(z) : z[i] = 0
    PROVE  Smaller(U64(n) \o r, U64(s) \o z) <=> n < s
<1>1. /\ n \in Nat /\ s \in Nat /\ U64(n) \in ByteStrings /\ U64(s) \in ByteStrings
      /\ U64(n) \o r \in ByteStrings /\ U64(s) \o z \in ByteStrings
  BY NumberKeys, Concatenated
<1>2. CASE n < s
  <2>1. Before(U64(n), U64(s))
    BY <1>2, NumberKeys
  <2>2. Before(U64(n) \o r, U64(s) \o z)
    BY <1>1, <2>1, BeforeAppended
  <2>3. QED BY <1>1, <1>2, <2>2, BeforeSmaller
<1>3. CASE s < n
  <2>1. Before(U64(s), U64(n))
    BY <1>3, NumberKeys
  <2>2. Before(U64(s) \o z, U64(n) \o r)
    BY <1>1, <2>1, BeforeAppended
  <2>3. QED BY <1>1, <1>3, <2>2, BeforeSmaller
<1>4. CASE s = n
  <2>1. ~ Smaller(U64(n) \o r, U64(n) \o z)
    BY <1>1, ZerosLeast
  <2>2. QED BY <1>1, <1>4, <2>1
<1>5. QED BY <1>1, <1>2, <1>3, <1>4

LEMMA MinTicks ==
    ASSUME NEW tick \in AnyTick
    PROVE  /\ MinTick(tick) \in ByteStrings
           /\ \A i \in 1..Len(MinTick(tick)) : MinTick(tick)[i] = 0
           /\ \A t \in AnyTick : Len(MinTick(tick)) = Len(TickBytes[t])
<1>1. /\ TickBytes[tick] \in Seq(Octets) /\ Len(TickBytes[tick]) \in Nat
      /\ DOMAIN TickBytes[tick] = 1..Len(TickBytes[tick])
  BY TickKeys, LenProperties DEF ByteStrings
<1>2. MinTick(tick) = [i \in 1..Len(TickBytes[tick]) |-> 0]
  BY <1>1 DEF MinTick
<1>3. 0 \in Octets
  BY BytesAssumption DEF Octets
<1>4. /\ MinTick(tick) \in Seq(Octets)
      /\ Len(MinTick(tick)) = Len(TickBytes[tick])
  BY <1>1, <1>2, <1>3
<1>5. \A i \in 1..Len(MinTick(tick)) : MinTick(tick)[i] = 0
  BY <1>2, <1>4
<1>6. QED BY <1>4, <1>5, TickKeys DEF ByteStrings

\* The keys of ownership_changes from a score on.
LEMMA ChangesFromIs ==
    ASSUME NEW rows, NEW s \in Numbers, NEW tick \in AnyTick,
           rows \subseteq [score : Numbers, tick : AnyTick, token : Numbers, seq : Numbers]
    PROVE  ChangesFrom(rows, s, tick) = Encoded({c \in rows : c.score >= s}, TokenMintsKey)
<1> DEFINE start == ((U64(s) \o MinTick(tick)) \o U64(0)) \o U64(0)
           zeros == (MinTick(tick) \o U64(0)) \o U64(0)
           rest(c) == (TickBytes[c.tick] \o U64(c.token)) \o Reversed(c.seq)
<1>1. \A c \in rows : /\ c.score \in Numbers /\ c.score \in Nat /\ U64(c.score) \in ByteStrings
                      /\ TickBytes[c.tick] \in ByteStrings /\ U64(c.token) \in ByteStrings
                      /\ Reversed(c.seq) \in ByteStrings
  BY NumberKeys, TickKeys
<1>2. ASSUME NEW c \in rows
      PROVE  /\ TokenMintsKey(c) = U64(c.score) \o rest(c) /\ rest(c) \in ByteStrings
             /\ Len(rest(c)) = (Len(MinTick(tick)) + Width) + Width
  <2> DEFINE u == U64(c.score)
             t == TickBytes[c.tick]
             n == U64(c.token)
             q == Reversed(c.seq)
  <2>1. u \in ByteStrings /\ t \in ByteStrings /\ n \in ByteStrings /\ q \in ByteStrings
    BY <1>1
  <2>2. Len(n) = Width /\ Len(q) = Width /\ Len(t) = Len(MinTick(tick))
    BY NumberKeys, MinTicks
  <2>3. TokenMintsKey(c) = ((u \o t) \o n) \o q
    BY DEF TokenMintsKey
  <2> HIDE DEF u, t, n, q
  <2>4. t \o n \in ByteStrings /\ Len(t \o n) = Len(t) + Len(n)
    BY <2>1, Concatenated
  <2>5. (t \o n) \o q \in ByteStrings /\ Len((t \o n) \o q) = Len(t \o n) + Len(q)
    BY <2>1, <2>4, Concatenated
  <2>6. (u \o t) \o n = u \o (t \o n)
    <3>1. Join(Join(u, t), n) = Join(u, Join(t, n))
      BY <2>1, JoinThree
    <3>2. QED BY <3>1, Zenon DEF Join
  <2>7. (u \o (t \o n)) \o q = u \o ((t \o n) \o q)
    <3>1. Join(Join(u, Join(t, n)), q) = Join(u, Join(Join(t, n), q))
      BY <2>1, Joined, JoinThree
    <3>2. QED BY <3>1, Zenon DEF Join
  <2>8. TokenMintsKey(c) = u \o ((t \o n) \o q)
    BY <2>3, <2>6, <2>7, Zenon
  <2>9. Len((t \o n) \o q) = (Len(MinTick(tick)) + Width) + Width
    BY <2>2, <2>4, <2>5
  <2>10. QED BY <2>5, <2>8, <2>9 DEF u, t, n, q
<1>3. /\ MinTick(tick) \in ByteStrings /\ U64(0) \in ByteStrings /\ U64(s) \in ByteStrings
      /\ Len(U64(0)) = Width
  BY MinTicks, NumberKeys
<1>4. /\ start = U64(s) \o zeros /\ zeros \in ByteStrings
      /\ Len(zeros) = (Len(MinTick(tick)) + Width) + Width
      /\ \A i \in 1..Len(zeros) : zeros[i] = 0
  <2> DEFINE u == U64(s)
             t == MinTick(tick)
             n == U64(0)
             tn == t \o n
  <2>1. u \in ByteStrings /\ t \in ByteStrings /\ n \in ByteStrings
    BY <1>3
  <2>2. Len(n) = Width
    BY <1>3
  <2>3. (\A i \in 1..Len(t) : t[i] = 0) /\ (\A i \in 1..Len(n) : n[i] = 0)
    BY <1>3, MinTicks, U64Zeros
  <2> HIDE DEF u, t, n
  <2>4. tn \in ByteStrings /\ Len(tn) = Len(t) + Len(n) /\ \A i \in 1..Len(tn) : tn[i] = 0
    BY <2>1, <2>3, Concatenated, ZerosAppended
  <2>6. (u \o t) \o n = u \o tn
    <3>1. Join(Join(u, t), n) = Join(u, Join(t, n))
      BY <2>1, JoinThree
    <3>2. QED BY <3>1, Zenon DEF Join
  <2> HIDE DEF tn
  <2>5. tn \o n \in ByteStrings /\ Len(tn \o n) = Len(tn) + Len(n)
    BY <2>1, <2>4, Concatenated
  <2>7. \A i \in 1..Len(tn \o n) : (tn \o n)[i] = 0
    BY <2>1, <2>3, <2>4, ZerosAppended
  <2>8. (u \o tn) \o n = u \o (tn \o n)
    <3>1. Join(Join(u, tn), n) = Join(u, Join(tn, n))
      BY <2>1, <2>4, JoinThree
    <3>2. QED BY <3>1, Zenon DEF Join
  <2>9. ((u \o t) \o n) \o n = u \o (tn \o n)
    BY <2>6, <2>8, Zenon
  <2>10. Len(tn \o n) = (Len(t) + Width) + Width
    BY <2>2, <2>4, <2>5
  <2>11. QED BY <2>5, <2>7, <2>9, <2>10 DEF u, t, n, tn
<1>5. Len(MinTick(tick)) \in Nat /\ Width \in Nat
  BY <1>3, LenProperties, BytesAssumption DEF ByteStrings
<1>6. ASSUME NEW c \in rows PROVE Smaller(TokenMintsKey(c), start) <=> c.score < s
  <2>1. Len(zeros) <= Len(rest(c))
    <3> HIDE DEF zeros, rest
    <3>1. QED BY <1>2, <1>4, <1>5
  <2> HIDE DEF zeros, rest, start
  <2>2. Smaller(U64(c.score) \o rest(c), U64(s) \o zeros) <=> c.score < s
    BY <1>1, <1>2, <1>4, <2>1, FromScore
  <2>3. QED BY <1>2, <1>4, <2>2
<1>7. s \in Nat
  BY NumberKeys
<1>8. ChangesFrom(rows, s, tick) = {k \in Encoded(rows, TokenMintsKey) : ~ Smaller(k, start)}
  BY DEF ChangesFrom, From
<1> HIDE DEF start, zeros, rest
<1>9. QED BY <1>1, <1>6, <1>7, <1>8 DEF Encoded

\* The keys of collection_deployments from a score on.
LEMMA DeploymentsFromIs ==
    ASSUME NEW rows, NEW s \in Numbers, NEW tick \in AnyTick,
           rows \subseteq [score : Numbers, tick : AnyTick]
    PROVE  DeploymentsFrom(rows, s, tick) = Encoded({d \in rows : d.score >= s}, DeploymentKey)
<1>1. \A d \in rows : d.score \in Numbers /\ d.score \in Nat /\ d.tick \in AnyTick
  BY NumberKeys
<1>2. ASSUME NEW d \in rows
      PROVE  Smaller(DeploymentKey(d), U64(s) \o MinTick(tick)) <=> d.score < s
  <2>1. /\ TickBytes[d.tick] \in ByteStrings /\ MinTick(tick) \in ByteStrings
        /\ Len(MinTick(tick)) = Len(TickBytes[d.tick]) /\ Len(MinTick(tick)) \in Nat
        /\ \A i \in 1..Len(MinTick(tick)) : MinTick(tick)[i] = 0
    BY <1>1, TickKeys, MinTicks, LenProperties DEF ByteStrings
  <2>2. Len(MinTick(tick)) <= Len(TickBytes[d.tick])
    BY <2>1
  <2>3. QED BY <1>1, <2>1, <2>2, FromScore DEF DeploymentKey
<1>3. s \in Nat
  BY NumberKeys
<1>4. DeploymentsFrom(rows, s, tick) =
          {k \in Encoded(rows, DeploymentKey) : ~ Smaller(k, U64(s) \o MinTick(tick))}
  BY DEF DeploymentsFrom, From
<1>5. QED BY <1>1, <1>2, <1>3, <1>4 DEF Encoded

\* The keys of score_to_discount from a score on.
LEMMA DiscountsFromIs ==
    ASSUME NEW rows, NEW s \in Numbers, rows \subseteq Numbers \X AnyTick \X AnySpk
    PROVE  DiscountsFrom(rows, s) = Encoded({k \in rows : k[1] >= s}, ScoredDiscountKey)
<1>1. \A k \in rows : k[1] \in Numbers /\ k[1] \in Nat /\ k[2] \in AnyTick /\ k[3] \in AnySpk
  BY NumberKeys
<1>2. ASSUME NEW k \in rows PROVE Smaller(ScoredDiscountKey(k), U64(s)) <=> k[1] < s
  <2> DEFINE u == U64(k[1])
             t == TickBytes[k[2]]
             p == SpkBytes[k[3]]
             r == t \o p
             e == << >>
  <2>1. u \in ByteStrings /\ t \in ByteStrings /\ p \in ByteStrings /\ U64(s) \in ByteStrings
    BY <1>1, NumberKeys, TickKeys, SpkKeys
  <2>2. ScoredDiscountKey(k) = (u \o t) \o p
    BY DEF ScoredDiscountKey
  <2> HIDE DEF u, t, p
  <2>3. (u \o t) \o p = u \o r
    <3>1. Join(Join(u, t), p) = Join(u, Join(t, p))
      BY <2>1, JoinThree
    <3>2. QED BY <3>1, Zenon DEF Join
  <2>4. r \in ByteStrings
    BY <2>1, Concatenated
  <2> HIDE DEF r
  <2>5. U64(s) \o e = U64(s) /\ e \in ByteStrings /\ Len(e) = 0
    BY <2>1, NothingAppended
  <2> HIDE DEF e
  <2>6. Len(e) <= Len(r) /\ \A i \in 1..Len(e) : e[i] = 0
    BY <2>4, <2>5, LenProperties DEF ByteStrings
  <2>7. Smaller(U64(k[1]) \o r, U64(s) \o e) <=> k[1] < s
    BY <1>1, <2>4, <2>5, <2>6, FromScore
  <2>8. QED BY <2>2, <2>3, <2>5, <2>7 DEF u
<1>3. s \in Nat
  BY NumberKeys
<1>4. DiscountsFrom(rows, s) = {k \in Encoded(rows, ScoredDiscountKey) : ~ Smaller(k, U64(s))}
  BY DEF DiscountsFrom, From
<1>5. QED BY <1>1, <1>2, <1>3, <1>4 DEF Encoded

\* A row of vip: its holder, its reversed score and its fee.
LEMMA VipRowIs ==
    ASSUME NEW spk \in AnySpk, NEW tick \in AnyTick, NEW r \in Numbers, NEW f \in Numbers
    PROVE  /\ U64(r) \o U64(f) \in ByteStrings /\ Len(U64(r) \o U64(f)) = Width + Width
           /\ VipRow(spk, tick, r, f) = HolderKey(spk, tick) \o (U64(r) \o U64(f))
           /\ VipRow(spk, tick, r, f) \in ByteStrings
           /\ Tail64(VipRow(spk, tick, r, f), 1) = f
<1> DEFINE h == HolderKey(spk, tick)
           u == U64(r)
           v == U64(f)
<1>1. h \in ByteStrings /\ u \in ByteStrings /\ v \in ByteStrings
  BY HolderKeys, NumberKeys
<1>2. Len(u) = Width /\ Len(v) = Width
  BY NumberKeys
<1>3. VipRow(spk, tick, r, f) = (h \o u) \o v
  BY DEF VipRow, HolderKey
<1> HIDE DEF h, u, v
<1>4. u \o v \in ByteStrings /\ Len(u \o v) = Len(u) + Len(v)
  BY <1>1, Concatenated
<1>5. h \o u \in ByteStrings
  BY <1>1, Concatenated
<1>6. (h \o u) \o v \in ByteStrings
  BY <1>1, <1>5, Concatenated
<1>7. (h \o u) \o v = h \o (u \o v)
  <2>1. Join(Join(h, u), v) = Join(h, Join(u, v))
    BY <1>1, JoinThree
  <2>2. QED BY <2>1, Zenon DEF Join
<1>8. Tail64((h \o u) \o v, 1) = f
  BY <1>5, LastIs DEF Numbers, v
<1>9. QED BY <1>2, <1>3, <1>4, <1>6, <1>7, <1>8 DEF h, u, v

\* The least key of vip of a script and a tick is the latest discount's.
LEMMA FeeScanIs ==
    ASSUME NEW rows, NEW spk \in AnySpk, NEW tick \in AnyTick,
           rows \subseteq [spk : AnySpk, tick : AnyTick, score : Numbers \ {0}, fee : Numbers]
    PROVE  /\ (\A v \in rows : ~ (v.spk = spk /\ v.tick = tick)) => FeeScan(rows, spk, tick) = {}
           /\ \A last \in rows :
                 /\ last.spk = spk /\ last.tick = tick
                 /\ \A v \in rows : v.spk = spk /\ v.tick = tick /\ v # last => v.score < last.score
                 => FeeScan(rows, spk, tick) = {last.fee}
<1> DEFINE P == HolderKey(spk, tick)
           rest(v) == U64(MaxU64 - v.score) \o U64(v.fee)
           here == {v \in rows : v.spk = spk /\ v.tick = tick}
           zeros == U64(0) \o U64(0)
           most == U64(MaxU64) \o U64(MaxU64)
           keys == Between(Encoded(rows, VipKey), P \o zeros, P \o most)
<1>1. \A v \in rows : /\ v.spk \in AnySpk /\ v.tick \in AnyTick /\ v.score \in Numbers
                      /\ v.fee \in Numbers /\ MaxU64 - v.score \in Numbers
                      /\ v.score # 0
  <2>1. \A v \in rows : v.spk \in AnySpk /\ v.tick \in AnyTick /\ v.score \in Numbers /\ v.fee \in Numbers /\ v.score # 0
    OBVIOUS
  <2>2. QED BY <2>1, NumberKeys
<1>2. ASSUME NEW v \in rows
      PROVE  /\ VipKey(v) = HolderKey(v.spk, v.tick) \o rest(v)
             /\ rest(v) \in ByteStrings /\ Len(rest(v)) = Width + Width
             /\ VipKey(v) \in ByteStrings /\ Tail64(VipKey(v), 1) = v.fee
             /\ HolderKey(v.spk, v.tick) \in ByteStrings
  <2>1. /\ v.spk \in AnySpk /\ v.tick \in AnyTick /\ v.fee \in Numbers
        /\ MaxU64 - v.score \in Numbers
    BY <1>1
  <2>2. /\ rest(v) \in ByteStrings /\ Len(rest(v)) = Width + Width
        /\ VipRow(v.spk, v.tick, MaxU64 - v.score, v.fee) = HolderKey(v.spk, v.tick) \o rest(v)
        /\ VipRow(v.spk, v.tick, MaxU64 - v.score, v.fee) \in ByteStrings
        /\ Tail64(VipRow(v.spk, v.tick, MaxU64 - v.score, v.fee), 1) = v.fee
    BY <2>1, VipRowIs, Zenon
  <2>3. HolderKey(v.spk, v.tick) \in ByteStrings
    BY <2>1, HolderKeys, Zenon
  <2>4. VipKey(v) = VipRow(v.spk, v.tick, MaxU64 - v.score, v.fee)
    BY DEF VipKey
  <2> HIDE DEF rest
  <2>5. QED BY <2>2, <2>3, <2>4, Zenon
<1>3. /\ zeros \in ByteStrings /\ Len(zeros) = Width + Width /\ P \o zeros = VipRow(spk, tick, 0, 0)
      /\ most \in ByteStrings /\ P \o most = VipRow(spk, tick, MaxU64, MaxU64)
      /\ P \in ByteStrings /\ P \o zeros \in ByteStrings /\ P \o most \in ByteStrings
  <2>1. 0 \in Numbers /\ MaxU64 \in Numbers
    BY NumberKeys
  <2>2. /\ zeros \in ByteStrings /\ Len(zeros) = Width + Width
        /\ VipRow(spk, tick, 0, 0) = P \o zeros /\ VipRow(spk, tick, 0, 0) \in ByteStrings
    BY <2>1, VipRowIs
  <2>3. /\ most \in ByteStrings
        /\ VipRow(spk, tick, MaxU64, MaxU64) = P \o most
        /\ VipRow(spk, tick, MaxU64, MaxU64) \in ByteStrings
    BY <2>1, VipRowIs
  <2>4. P \in ByteStrings
    BY HolderKeys
  <2> HIDE DEF P, zeros, most
  <2>5. QED BY <2>2, <2>3, <2>4
<1>4. \A i \in 1..Len(zeros) : zeros[i] = 0
  <2>1. U64(0) \in ByteStrings /\ \A i \in 1..Len(U64(0)) : U64(0)[i] = 0
    BY NumberKeys, U64Zeros
  <2>2. QED BY <2>1, ZerosAppended
<1>5. ASSUME NEW v \in here PROVE ~ Smaller(VipKey(v), P \o zeros) /\ Smaller(VipKey(v), P \o most)
  <2>1. v \in rows /\ VipKey(v) = P \o rest(v)
    BY <1>2
  <2>2. Len(zeros) <= Len(rest(v))
    <3>1. Len(zeros) = Width + Width /\ Len(rest(v)) = Width + Width
      BY <1>2, <1>3, <2>1
    <3> HIDE DEF zeros, rest
    <3>2. QED BY <3>1, BytesAssumption
  <2>3. MaxU64 - v.score < MaxU64
    <3>1. v.score \in Nat /\ v.score # 0 /\ MaxU64 \in Nat
      BY <1>1, <2>1, NumberKeys
    <3>2. QED BY <3>1
  <2>4. Before(U64(MaxU64 - v.score), U64(MaxU64))
    BY <1>1, <2>1, <2>3, NumberKeys
  <2>5. Before(rest(v), most)
    <3>1. /\ U64(MaxU64 - v.score) \in ByteStrings /\ U64(v.fee) \in ByteStrings
          /\ U64(MaxU64) \in ByteStrings
      BY <1>1, <2>1, NumberKeys
    <3>2. QED BY <2>4, <3>1, BeforeAppended
  <2>6. rest(v) \in ByteStrings
    BY <1>2, <2>1
  <2> HIDE DEF P, rest, zeros, most
  <2>7. ~ Smaller(P \o rest(v), P \o zeros)
    BY <1>3, <1>4, <2>2, <2>6, ZerosLeast
  <2>8. Before(P \o rest(v), P \o most) /\ P \o rest(v) \in ByteStrings
    BY <1>3, <2>5, <2>6, BeforePrefixed, Concatenated
  <2>9. Smaller(P \o rest(v), P \o most)
    BY <1>3, <2>8, BeforeSmaller
  <2>10. QED BY <2>1, <2>7, <2>9
<1>6. ASSUME NEW v \in rows, v \notin here
      PROVE  Smaller(VipKey(v), P \o zeros) \/ ~ Smaller(VipKey(v), P \o most)
  <2>1. Apart(P, HolderKey(v.spk, v.tick)) /\ HolderKey(v.spk, v.tick) \in ByteStrings
    BY <1>1, <1>6, HolderKeys
  <2> DEFINE h == HolderKey(v.spk, v.tick)
             r == rest(v)
  <2>2. VipKey(v) = h \o r /\ h \in ByteStrings /\ r \in ByteStrings /\ Apart(P, h)
    BY <1>2, <2>1
  <2> HIDE DEF P, h, r, zeros, most
  <2>3. Smaller(h \o r, P \o zeros) \/ ~ Smaller(h \o r, P \o most)
    BY <1>3, <2>2, ElsewhereIs
  <2>4. QED BY <2>2, <2>3
<1>7. keys = {VipKey(v) : v \in here}
  <2>1. Encoded(rows, VipKey) = {VipKey(v) : v \in rows}
    BY DEF Encoded
  <2>2. here \subseteq rows
    OBVIOUS
  <2> HIDE DEF P, here, zeros, most
  <2>3. QED BY <1>5, <1>6, <2>1, <2>2 DEF Between, From
<1>8. FeeScan(rows, spk, tick) = {Tail64(k, 1) : k \in Least(keys)}
  BY <1>3 DEF FeeScan
<1>9. ASSUME here = {} PROVE FeeScan(rows, spk, tick) = {}
  <2>1. keys = {}
    BY <1>7, <1>9
  <2>2. Least(keys) = {}
    BY <2>1 DEF Least
  <2>3. QED BY <1>8, <2>2
<1>10. ASSUME NEW last \in here, \A v \in here : v # last => v.score < last.score
       PROVE  FeeScan(rows, spk, tick) = {last.fee}
  <2>1. ASSUME NEW v \in here, v # last PROVE Before(VipKey(last), VipKey(v))
    <3>1. v \in rows /\ last \in rows /\ v.score < last.score
      BY <1>10, <2>1
    <3>2. Before(U64(MaxU64 - last.score), U64(MaxU64 - v.score))
      BY <1>1, <3>1, NumberKeys DEF Reversed
    <3>3. /\ U64(MaxU64 - v.score) \in ByteStrings /\ U64(v.fee) \in ByteStrings
          /\ U64(MaxU64 - last.score) \in ByteStrings /\ U64(last.fee) \in ByteStrings
      BY <1>1, <3>1, NumberKeys
    <3>4. Before(rest(last), rest(v))
      BY <3>2, <3>3, BeforeAppended
    <3>5. /\ VipKey(v) = P \o rest(v) /\ VipKey(last) = P \o rest(last)
          /\ rest(v) \in ByteStrings /\ rest(last) \in ByteStrings
      BY <1>2, <3>1
    <3> HIDE DEF P, rest
    <3>6. QED BY <1>3, <3>4, <3>5, BeforePrefixed
  <2>2. Least(keys) = {VipKey(last)}
    <3>1. last \in here /\ here \subseteq rows
      OBVIOUS
    <3> HIDE DEF keys, here
    <3>2. keys \in SUBSET ByteStrings /\ VipKey(last) \in keys
      BY <1>2, <1>7, <3>1
    <3>3. \A k \in keys : k = VipKey(last) \/ Before(VipKey(last), k)
      BY <1>7, <2>1
    <3>4. QED BY <3>2, <3>3, LeastIs
  <2>3. Tail64(VipKey(last), 1) = last.fee
    BY <1>2
  <2> HIDE DEF keys
  <2>4. QED BY <1>8, <2>2, <2>3
<1> HIDE DEF keys, P, rest, zeros, most
<1>11. QED BY <1>9, <1>10

-----------------------------------------------------------------------------
(* The rows of the ledger, as their keys are written.                       *)

\* A row has the fields of its struct; a score, a sequence number and who an operation
\* names have their bytes.
KeysShaped ==
    /\ \A c \in ownership_changes :
          /\ c = [score |-> c.score, tick |-> c.tick, token |-> c.token, seq |-> c.seq]
          /\ c.seq \in Numbers
    /\ \A d \in collection_deployments : d = [score |-> d.score, tick |-> d.tick]
    /\ \A k \in DOMAIN score_to_discount :
          /\ k = <<k[1], k[2], k[3]>>
          /\ k[1] \in Numbers /\ k[2] \in Ticks /\ k[3] \in AnySpk

\* The scores of an accepted block.
LEMMA BlockScores ==
    ASSUME NEW blue \in Nat \ {0}, TxScore(blue, PerBlock - 1) <= MaxU64
    PROVE  /\ blue \in Numbers /\ TxScore(blue, 0) \in Numbers
           /\ \A s \in TxScore(blue, 0)..TxScore(blue, PerBlock - 1) : s \in Numbers \ {0}
           /\ \A p \in 0..(PerBlock - 1) : TxScore(blue, p) \in Numbers \ {0}
<1>1. PerBlock \in Nat \ {0} /\ MaxU64 \in Nat
  BY LedgerAssumption, NumberKeys
<1>2. \A p \in Nat : TxScore(blue, p) = TxScore(blue, 0) + p
  BY ScoresApart
<1>3. blue <= TxScore(blue, 0) /\ TxScore(blue, 0) \in Nat
  <2>1. TxScore(blue, 0) = blue * PerBlock
    BY <1>1 DEF TxScore
  <2>2. \A q \in Nat : blue * (q + 1) >= blue /\ blue * (q + 1) \in Nat
    <3>1. ASSUME NEW q \in Nat PROVE blue * (q + 1) >= blue /\ blue * (q + 1) \in Nat
      <4>1. blue * q \in Nat /\ blue * (q + 1) = blue * q + blue
        OBVIOUS
      <4>2. QED BY <4>1
    <3>2. QED BY <3>1
  <2>3. PerBlock - 1 \in Nat /\ PerBlock = (PerBlock - 1) + 1
    BY <1>1
  <2>4. QED BY <2>1, <2>2, <2>3
<1>4. PerBlock - 1 \in Nat /\ TxScore(blue, PerBlock - 1) = TxScore(blue, 0) + (PerBlock - 1)
  BY <1>1, <1>2
<1>5. TxScore(blue, 0) <= MaxU64 /\ blue <= MaxU64
  BY <1>1, <1>3, <1>4
<1>6. \A s \in TxScore(blue, 0)..TxScore(blue, PerBlock - 1) : s \in Numbers \ {0}
  BY <1>1, <1>3, <1>4 DEF Numbers
<1>7. \A p \in 0..(PerBlock - 1) : TxScore(blue, p) \in TxScore(blue, 0)..TxScore(blue, PerBlock - 1)
  BY <1>1, <1>2, <1>3, <1>4
<1>8. QED BY <1>1, <1>3, <1>5, <1>6, <1>7 DEF Numbers

\* Every score is a u64, and none is zero.
LEMMA ScoreNumbers ==
    ASSUME ChainInv
    PROVE  /\ \A b \in chain_block_scores :
                 b.blue \in Numbers /\ TxScore(b.blue, 0) \in Numbers /\ b.hash \in Hashes
           /\ \A s \in DOMAIN operation_history : s \in Numbers \ {0}
           /\ slot < PerBlock => Now \in Numbers \ {0}
<1>1. \A b \in chain_block_scores :
         /\ b.hash \in Hashes /\ b.blue \in Nat \ {0}
         /\ TxScore(b.blue, PerBlock - 1) <= MaxU64
  BY NumbersAssumption, LedgerAssumption DEF ChainInv, BlocksOK
<1>2. \A s \in DOMAIN operation_history : \E b \in chain_block_scores :
         s \in TxScore(b.blue, 0)..TxScore(b.blue, PerBlock - 1)
  BY DEF ChainInv, OperationsIndexed
<1>3. ASSUME slot < PerBlock PROVE Now \in Numbers \ {0}
  <2>1. PICK b \in chain_block_scores : b.blue = LastBlue
    BY <1>3, LastBlueIs DEF ChainInv, BlocksOK
  <2>2. slot \in 0..(PerBlock - 1)
    BY <1>3, LedgerAssumption DEF ChainInv, BlocksOK
  <2>3. QED BY <1>1, <2>1, <2>2, BlockScores DEF Now
<1>4. QED BY <1>1, <1>2, <1>3, BlockScores

\* A mint's row.
LEMMA MintRowsAre ==
    ASSUME LedgerInv
    PROVE  /\ mint_history \subseteq [tick : Ticks, seq : Numbers, token : Numbers, score : Numbers]
           /\ \A m, x \in mint_history : m.tick = x.tick /\ m.seq = x.seq => m = x
           /\ \A t \in Ticks : LastSeq(t) \in Numbers
<1> DEFINE row(t, i, token, score) == [tick |-> t, seq |-> i, token |-> token[i], score |-> score[i]]
<1>1. ASSUME NEW t \in DOMAIN collection_registry
      PROVE  /\ LastSeq(t) \in Numbers /\ t \in Ticks
             /\ \E n \in Numbers : \E token, score :
                  /\ MintsOf(t) = {row(t, i, token, score) : i \in 1..n}
                  /\ \A i \in 1..n : token[i] \in Numbers /\ score[i] \in Numbers
  <2>1. PICK n, token, score, trail : MintsInOrder(t, n, token, score, trail)
    BY DEF LedgerInv, MintsRecorded
  <2> DEFINE premint == DeployOf(t).premint
             max == DeployOf(t).max
  <2>2. t \in Ticks /\ DeployOf(t) \in Ops /\ DeployOf(t).kind = "deploy"
    BY DEF LedgerInv, RegistryRecorded
  <2>3. max \in Nat /\ premint \in 0..max /\ max <= MaxU64
    BY <2>2, LedgerAssumption, NumbersAssumption
  <2>4. /\ n \in premint..max
        /\ MintsOf(t) = {row(t, i, token, score) : i \in 1..n}
        /\ \A i \in 1..n : score[i] \in DOMAIN operation_history
    BY <2>1 DEF MintsInOrder, Numbered
  <2>5. SupplyCounted(premint, max, MintsOf(t), n)
    BY <2>1, <2>3, SupplyOf DEF MintsInOrder, Supply
  <2> HIDE DEF premint, max
  <2>6. \A m \in MintsOf(t) : m.seq \in 1..n /\ m.token \in 1..max
    BY <2>5 DEF SupplyCounted
  <2>7. n \in Numbers /\ n \in Nat /\ 1..max \subseteq Numbers
    BY <2>3, <2>4, NumberKeys DEF Numbers
  <2>8. \A i \in 1..n : token[i] \in Numbers /\ score[i] \in Numbers
    <3>1. SUFFICES ASSUME NEW i \in 1..n PROVE token[i] \in Numbers /\ score[i] \in Numbers
      OBVIOUS
    <3>2. row(t, i, token, score) \in MintsOf(t) /\ row(t, i, token, score).token = token[i]
      BY <2>4
    <3>3. token[i] \in 1..max
      BY <2>6, <3>2
    <3>4. score[i] \in Numbers
      BY <2>4, ScoreNumbers DEF LedgerInv
    <3>5. QED BY <2>7, <3>3, <3>4
  <2>9. LastSeq(t) = n
    <3>1. {m.seq : m \in MintsOf(t)} = 1..n
      BY <2>5 DEF SupplyCounted
    <3>2. QED BY <2>6, <2>7, <3>1, LastSeqIs
  <2>10. QED BY <2>2, <2>4, <2>7, <2>8, <2>9
<1>2. \A m \in mint_history : m.tick \in DOMAIN collection_registry /\ m \in MintsOf(m.tick)
  BY DEF LedgerInv, MintsRecorded, MintsOf
<1>3. ASSUME NEW m \in mint_history
      PROVE  m \in [tick : Ticks, seq : Numbers, token : Numbers, score : Numbers]
  <2> HIDE DEF row
  <2>0. m.tick \in DOMAIN collection_registry
    BY <1>2
  <2>1. PICK n \in Numbers : \E token, score :
           /\ MintsOf(m.tick) = {row(m.tick, i, token, score) : i \in 1..n}
           /\ \A i \in 1..n : token[i] \in Numbers /\ score[i] \in Numbers
    BY <1>1, <2>0, Zenon
  <2>2. PICK token, score :
           /\ MintsOf(m.tick) = {row(m.tick, i, token, score) : i \in 1..n}
           /\ \A i \in 1..n : token[i] \in Numbers /\ score[i] \in Numbers
    BY <2>1, Zenon
  <2>3. PICK i \in 1..n : m = row(m.tick, i, token, score)
    BY <1>2, <2>2
  <2>4. i \in Numbers
    BY NumberKeys DEF Numbers
  <2>5. m.tick \in Ticks
    BY <1>1, <1>2
  <2>6. QED BY <2>2, <2>3, <2>4, <2>5 DEF row
<1>4. ASSUME NEW m \in mint_history, NEW x \in mint_history, m.tick = x.tick, m.seq = x.seq PROVE m = x
  <2> HIDE DEF row
  <2>0. m.tick \in DOMAIN collection_registry
    BY <1>2
  <2>1. PICK n \in Numbers : \E token, score :
           /\ MintsOf(m.tick) = {row(m.tick, i, token, score) : i \in 1..n}
           /\ \A i \in 1..n : token[i] \in Numbers /\ score[i] \in Numbers
    BY <1>1, <2>0, Zenon
  <2>2. PICK token, score :
           /\ MintsOf(m.tick) = {row(m.tick, i, token, score) : i \in 1..n}
           /\ \A i \in 1..n : token[i] \in Numbers /\ score[i] \in Numbers
    BY <2>1, Zenon
  <2>3. PICK i \in 1..n : m = row(m.tick, i, token, score)
    BY <1>2, <2>2
  <2>4. PICK j \in 1..n : x = row(m.tick, j, token, score)
    BY <1>2, <1>4, <2>2
  <2>5. m.seq = i /\ x.seq = j
    BY <2>3, <2>4 DEF row
  <2>6. QED BY <1>4, <2>3, <2>4, <2>5
<1>5. ASSUME NEW t \in Ticks PROVE LastSeq(t) \in Numbers
  <2>1. CASE t \in DOMAIN collection_registry
    BY <1>1, <2>1
  <2>2. CASE t \notin DOMAIN collection_registry
    <3>1. MintsOf(t) = {}
      BY <1>2, <2>2 DEF MintsOf
    <3>2. LastSeq(t) = 0
      BY <3>1, LastSeqIs
    <3>3. QED BY <3>2, NumberKeys
  <2>3. QED BY <2>1, <2>2
<1>6. QED BY <1>3, <1>4, <1>5

\* A change of hands: its token, its score and the new owner's script.
LEMMA HistoryRowsAre ==
    ASSUME LedgerInv, StatsInv, MovesRecorded
    PROVE  \A k \in DOMAIN ownership_history :
              k \in Ticks \X Numbers \X Numbers /\ ownership_history[k] \in AnySpk
<1>1. SUFFICES ASSUME NEW k \in DOMAIN ownership_history
               PROVE  k \in Ticks \X Numbers \X Numbers /\ ownership_history[k] \in AnySpk
  OBVIOUS
<1>2. /\ k = <<k[1], k[2], k[3]>> /\ k[3] \in DOMAIN operation_history
      /\ \E m \in mint_history : m.tick = k[1] /\ m.token = k[2]
  BY DEF LedgerInv, HistoryRecorded
<1>3. k[1] \in Ticks /\ k[2] \in Numbers
  BY <1>2, MintRowsAre
<1>4. k[3] \in Numbers
  BY <1>2, ScoreNumbers DEF LedgerInv
<1>5. ownership_history[k] \in AnySpk
  <2>1. operation_history[k[3]].op \in Ops /\ Gives(k[3], k[1], k[2], ownership_history[k])
    BY <1>2 DEF StatsInv, MovesRecorded
  <2>2. QED BY <2>1, PartiesAssumption DEF Gives, AnySpk
<1>6. QED BY <1>2, <1>3, <1>4, <1>5

\* A holding: its owner's script and the token.
LEMMA HoldingRowsAre ==
    ASSUME LedgerInv, StatsInv, MovesRecorded
    PROVE  DOMAIN address_holdings \subseteq AnySpk \X Ticks \X Numbers
<1>1. SUFFICES ASSUME NEW k \in DOMAIN address_holdings PROVE k \in AnySpk \X Ticks \X Numbers
  OBVIOUS
<1>2. PICK key \in DOMAIN current_ownership : k = <<current_ownership[key].owner, key[1], key[2]>>
  BY HoldingsAre
<1> DEFINE score == current_ownership[key].mod_tx_score
           row == <<key[1], key[2], score>>
<1>3. row \in DOMAIN ownership_history
  BY DEF LedgerInv, OwnershipConsistent
<1>4. key = <<key[1], key[2]>>
  BY OwnedPairs
<1>5. current_ownership[key].owner = ownership_history[row]
  <2>1. /\ row[3] = current_ownership[<<row[1], row[2]>>].mod_tx_score
             => current_ownership[<<row[1], row[2]>>].owner = ownership_history[row]
    BY <1>3 DEF LedgerInv, OwnershipConsistent
  <2>2. row[1] = key[1] /\ row[2] = key[2] /\ row[3] = score
    OBVIOUS
  <2> HIDE DEF row
  <2>3. <<row[1], row[2]>> = key
    BY <1>4, <2>2
  <2>4. QED BY <2>1, <2>2, <2>3
<1>6. key[1] \in Ticks /\ key[2] \in Numbers /\ ownership_history[row] \in AnySpk
  BY <1>3, HistoryRowsAre
<1>7. QED BY <1>2, <1>5, <1>6

\* The rows of ownership_changes and collection_deployments.
LEMMA ChangeRowsAre ==
    ASSUME LedgerInv, StatsInv, MovesRecorded, KeysShaped
    PROVE  /\ ownership_changes \subseteq [score : Numbers, tick : Ticks, token : Numbers, seq : Numbers]
           /\ collection_deployments \subseteq [score : Numbers, tick : Ticks]
<1>1. ASSUME NEW c \in ownership_changes
      PROVE  c \in [score : Numbers, tick : Ticks, token : Numbers, seq : Numbers]
  <2>1. <<c.tick, c.token, c.score>> \in DOMAIN ownership_history
    BY DEF LedgerInv, HistoryRecorded
  <2>2. c.tick \in Ticks /\ c.token \in Numbers /\ c.score \in Numbers
    BY <2>1, HistoryRowsAre
  <2>3. QED BY <2>2 DEF KeysShaped
<1>2. ASSUME NEW d \in collection_deployments PROVE d \in [score : Numbers, tick : Ticks]
  <2>1. /\ d.tick \in DOMAIN collection_registry /\ d.tick \in Ticks
        /\ d.score \in DOMAIN operation_history
    BY DEF LedgerInv, RegistryRecorded
  <2>2. d.score \in Numbers
    BY <2>1, ScoreNumbers DEF LedgerInv
  <2>3. QED BY <2>1, <2>2 DEF KeysShaped
<1>3. QED BY <1>1, <1>2

\* A discount's row; no two have the same score.
LEMMA DiscountRowsAre ==
    ASSUME LedgerInv, StatsInv
    PROVE  /\ vip \subseteq [spk : AnySpk, tick : Ticks, score : Numbers \ {0}, fee : Numbers]
           /\ \A v, w \in vip : v.score = w.score => v = w
<1>1. vip = {Granted(s) : s \in Standing("discount")}
  BY StandIsGranted DEF LedgerInv, DiscountInv
<1>2. \A s \in Standing("discount") :
         /\ s \in DOMAIN operation_history /\ operation_history[s].op \in Ops
         /\ operation_history[s].op.kind = "discount"
  BY DEF Standing, StatsInv
<1>3. ASSUME NEW s \in Standing("discount")
      PROVE  Granted(s) \in [spk : AnySpk, tick : Ticks, score : Numbers \ {0}, fee : Numbers]
  <2> DEFINE op == operation_history[s].op
  <2>1. op \in Ops /\ op.kind = "discount"
    BY <1>2
  <2>2. s \in Numbers \ {0}
    BY <1>2, ScoreNumbers DEF LedgerInv
  <2>3. Granted(s) = [spk |-> op.to, tick |-> op.tick, score |-> s, fee |-> op.fee]
    BY DEF Granted
  <2> HIDE DEF op
  <2>4. op.fee \in Nat /\ op.fee <= MaxU64 /\ op.to \in AnySpk /\ op.tick \in Ticks
    BY <2>1, LedgerAssumption, NumbersAssumption, PartiesAssumption DEF AnySpk, Ticks
  <2>5. op.fee \in Numbers
    BY <2>4, NumberKeys DEF Numbers
  <2>6. QED BY <2>2, <2>3, <2>4, <2>5
<1>4. \A s : Granted(s).score = s
  BY DEF Granted
<1>5. QED BY <1>1, <1>3, <1>4

\* Fewer ranges are left than a u64 counts: they are disjoint intervals of ids.
LEMMA RangesCounted ==
    ASSUME LedgerInv, NEW t \in Ticks
    PROVE  \A i \in DOMAIN alloc[t].ranges : i \in Numbers /\ i < MaxU64
<1> DEFINE a == alloc[t]
           premint == DeployOf(t).premint
           max == DeployOf(t).max
<1>1. CASE t \notin DOMAIN collection_registry
  <2>1. alloc[t] = NoRanges
    BY <1>1 DEF LedgerInv, MintsRecorded
  <2>2. DOMAIN alloc[t].ranges = {}
    BY <2>1 DEF NoRanges, NoEntries
  <2>3. QED BY <2>2
<1>2. CASE t \in DOMAIN collection_registry
  <2>1. DeployOf(t) \in Ops /\ DeployOf(t).kind = "deploy"
    BY <1>2 DEF LedgerInv, RegistryRecorded
  <2>2. max \in Nat /\ premint \in Nat /\ max <= MaxU64
    BY <2>1, LedgerAssumption, NumbersAssumption
  <2>3. \E n, token : n - premint \in Nat /\ InOrder(a, Draws(token, premint, n - premint), premint, max)
    <3>1. PICK n, token, score, trail :
             Numbered(t, premint, max, collection_registry[t].score, DOMAIN operation_history,
                      MintsOf(t), a, n, token, score, trail)
      BY <1>2 DEF LedgerInv, MintsRecorded, MintsInOrder
    <3> HIDE DEF a, premint, max
    <3>2. n \in premint..max /\ n - premint \in Nat
      BY <2>2, <3>1 DEF Numbered
    <3>3. n - premint \in 0..(n - premint)
      BY <3>2
    <3>4. InOrder(a, Draws(token, premint, n - premint), premint, max)
      BY <3>1, <3>3 DEF Numbered
    <3>5. QED BY <3>2, <3>4
  <2>4. RangesOK(a, premint, max) /\ DisjointRanges(a)
    <3>1. CASE a = NoRanges
      <4>1. NoRanges.len = 0 /\ DOMAIN NoRanges.ranges = {} /\ 0..(0 - 1) = {}
        BY DEF NoRanges, NoEntries
      <4> HIDE DEF a
      <4>2. QED BY <3>1, <4>1 DEF RangesOK, DisjointRanges
    <3>2. CASE \E m : WellFormed(a, m, premint, max)
      BY <3>2 DEF WellFormed
    <3>3. QED BY <2>3, <3>1, <3>2 DEF InOrder
  <2> HIDE DEF a, premint, max
  <2> DEFINE S == 0..(a.len - 1)
             T == 1..max
             f == [i \in S |-> Start(a, i)]
  <2>5. a.len \in Nat /\ DOMAIN a.ranges = S
    BY <2>4 DEF RangesOK
  <2>6. \A i \in S : Start(a, i) \in T /\ Start(a, i) \in Span(a, i)
    <3>1. SUFFICES ASSUME NEW i \in S PROVE Start(a, i) \in T /\ Start(a, i) \in Span(a, i)
      OBVIOUS
    <3>2. /\ a.ranges[i] \in Nat \X Nat /\ Start(a, i) > premint /\ Size(a, i) > 0
          /\ Start(a, i) + Size(a, i) - 1 <= max
      BY <2>4, <2>5 DEF RangesOK
    <3>3. Start(a, i) \in Nat /\ Size(a, i) \in Nat
      BY <3>2 DEF Start, Size
    <3>4. QED BY <2>2, <3>2, <3>3 DEF Span
  <2>7. IsFiniteSet(S) /\ Cardinality(S) = a.len /\ IsFiniteSet(T) /\ Cardinality(T) = max
    <3>1. IsFiniteSet(T) /\ Cardinality(T) = max
      BY <2>2, FS_Interval
    <3>2. IsFiniteSet(S) /\ Cardinality(S) = a.len
      BY <2>5, FS_Interval
    <3>3. QED BY <3>1, <3>2
  <2>8. \A i, j \in S : f[i] = f[j] => i = j
    <3>1. SUFFICES ASSUME NEW i \in S, NEW j \in S, f[i] = f[j], i # j PROVE FALSE
      OBVIOUS
    <3>2. Start(a, i) \in Span(a, i) \cap Span(a, j)
      BY <2>6, <3>1
    <3>3. QED BY <2>4, <2>5, <3>1, <3>2 DEF DisjointRanges
  <2>9. a.len <= max
    <3>1. f \in [S -> T]
      BY <2>6
    <3> HIDE DEF f, S, T
    <3>2. ~ Cardinality(T) < Cardinality(S)
      BY <2>7, <2>8, <3>1, FS_PigeonHole
    <3>3. QED BY <2>2, <2>5, <2>7, <3>2
  <2>10. MaxU64 \in Nat
    BY NumberKeys
  <2>11. \A i \in S : i \in Numbers /\ i < MaxU64
    BY <2>2, <2>5, <2>9, <2>10 DEF Numbers
  <2>12. QED BY <2>5, <2>11 DEF a
<1>3. QED BY <1>1, <1>2

-----------------------------------------------------------------------------
(* Beside the rows of other collections.                                    *)

LEMMA TicksApart == Ticks \cap Neighbours = {} /\ Ticks \subseteq AnyTick /\ Neighbours \subseteq AnyTick
BY KeysAssumption, TickKeys

LEMMA MintsBeside ==
    ASSUME NEW rows, rows \subseteq [tick : Ticks, seq : Numbers, token : Numbers, score : Numbers]
    PROVE  /\ Beside(rows) \subseteq [tick : AnyTick, seq : Numbers, token : Numbers, score : Numbers]
           /\ rows \subseteq Beside(rows)
           /\ \A r \in Beside(rows) : r.tick \in Ticks => r \in rows
<1>1. ASSUME NEW r \in rows, NEW n \in Neighbours
      PROVE  /\ [r EXCEPT !.tick = n] \in [tick : AnyTick, seq : Numbers, token : Numbers, score : Numbers]
             /\ [r EXCEPT !.tick = n].tick = n
  BY TicksApart
<1>2. QED BY <1>1, TicksApart DEF Beside

LEMMA VipBeside ==
    ASSUME NEW rows, rows \subseteq [spk : AnySpk, tick : Ticks, score : Numbers \ {0}, fee : Numbers]
    PROVE  /\ Beside(rows) \subseteq [spk : AnySpk, tick : AnyTick, score : Numbers \ {0}, fee : Numbers]
           /\ rows \subseteq Beside(rows)
           /\ \A r \in Beside(rows) : r.tick \in Ticks => r \in rows
<1>1. ASSUME NEW r \in rows, NEW n \in Neighbours
      PROVE  /\ [r EXCEPT !.tick = n] \in [spk : AnySpk, tick : AnyTick, score : Numbers \ {0}, fee : Numbers]
             /\ [r EXCEPT !.tick = n].tick = n
  BY TicksApart
<1>2. QED BY <1>1, TicksApart DEF Beside

LEMMA ChangesBeside ==
    ASSUME NEW rows, rows \subseteq [score : Numbers, tick : Ticks, token : Numbers, seq : Numbers]
    PROVE  Beside(rows) \subseteq [score : Numbers, tick : AnyTick, token : Numbers, seq : Numbers]
<1>1. ASSUME NEW r \in rows, NEW n \in Neighbours
      PROVE  [r EXCEPT !.tick = n] \in [score : Numbers, tick : AnyTick, token : Numbers, seq : Numbers]
  BY TicksApart
<1>2. QED BY <1>1, TicksApart DEF Beside

LEMMA DeploymentsBeside ==
    ASSUME NEW rows, rows \subseteq [score : Numbers, tick : Ticks]
    PROVE  Beside(rows) \subseteq [score : Numbers, tick : AnyTick]
<1>1. ASSUME NEW r \in rows, NEW n \in Neighbours
      PROVE  [r EXCEPT !.tick = n] \in [score : Numbers, tick : AnyTick]
  BY TicksApart
<1>2. QED BY <1>1, TicksApart DEF Beside

LEMMA RangesBeside ==
    ASSUME NEW rows, rows \subseteq Ticks \X Numbers, \A k \in rows : k[2] < MaxU64
    PROVE  /\ BesideAt(rows, 1) \subseteq AnyTick \X Numbers
           /\ \A k \in BesideAt(rows, 1) : k[2] < MaxU64
           /\ rows \subseteq BesideAt(rows, 1)
           /\ \A k \in BesideAt(rows, 1) : k[1] \in Ticks => k \in rows
<1>1. ASSUME NEW r \in rows, NEW n \in Neighbours
      PROVE  /\ [r EXCEPT ![1] = n] \in AnyTick \X Numbers
             /\ [r EXCEPT ![1] = n][1] = n /\ [r EXCEPT ![1] = n][2] = r[2]
  <2>1. r \in Ticks \X Numbers
    OBVIOUS
  <2>2. [r EXCEPT ![1] = n] = <<n, r[2]>>
    BY <2>1
  <2>3. QED BY <2>1, <2>2, TicksApart
<1>2. QED BY <1>1, TicksApart DEF BesideAt

LEMMA HistoryBeside ==
    ASSUME NEW rows, rows \subseteq Ticks \X Numbers \X Numbers
    PROVE  /\ BesideAt(rows, 1) \subseteq AnyTick \X Numbers \X Numbers
           /\ rows \subseteq BesideAt(rows, 1)
           /\ \A k \in BesideAt(rows, 1) : k[1] \in Ticks => k \in rows
<1>1. ASSUME NEW r \in rows, NEW n \in Neighbours
      PROVE  /\ [r EXCEPT ![1] = n] \in AnyTick \X Numbers \X Numbers
             /\ [r EXCEPT ![1] = n][1] = n
  <2>1. r \in Ticks \X Numbers \X Numbers
    OBVIOUS
  <2>2. [r EXCEPT ![1] = n] = <<n, r[2], r[3]>>
    BY <2>1
  <2>3. QED BY <2>1, <2>2, TicksApart
<1>2. QED BY <1>1, TicksApart DEF BesideAt

LEMMA HoldingsBeside ==
    ASSUME NEW rows, rows \subseteq AnySpk \X Ticks \X Numbers
    PROVE  /\ BesideAt(rows, 2) \subseteq AnySpk \X AnyTick \X Numbers
           /\ rows \subseteq BesideAt(rows, 2)
           /\ \A k \in BesideAt(rows, 2) : k[2] \in Ticks => k \in rows
<1>1. ASSUME NEW r \in rows, NEW n \in Neighbours
      PROVE  /\ [r EXCEPT ![2] = n] \in AnySpk \X AnyTick \X Numbers
             /\ [r EXCEPT ![2] = n][2] = n
  <2>1. r \in AnySpk \X Ticks \X Numbers
    OBVIOUS
  <2>2. [r EXCEPT ![2] = n] = <<r[1], n, r[3]>>
    BY <2>1
  <2>3. QED BY <2>1, <2>2, TicksApart
<1>2. QED BY <1>1, TicksApart DEF BesideAt

LEMMA DiscountsBeside ==
    ASSUME NEW rows, rows \subseteq Numbers \X Ticks \X AnySpk
    PROVE  BesideAt(rows, 2) \subseteq Numbers \X AnyTick \X AnySpk
<1>1. ASSUME NEW r \in rows, NEW n \in Neighbours
      PROVE  [r EXCEPT ![2] = n] \in Numbers \X AnyTick \X AnySpk
  <2>1. r \in Numbers \X Ticks \X AnySpk
    OBVIOUS
  <2>2. [r EXCEPT ![2] = n] = <<r[1], n, r[3]>>
    BY <2>1
  <2>3. QED BY <2>1, <2>2, TicksApart
<1>2. QED BY <1>1, TicksApart DEF BesideAt

-----------------------------------------------------------------------------
(* What each scan returns in the ledger.                                    *)

LEMMA TipFound ==
    ASSUME ChainInv, chain_block_scores # {}
    PROVE  TipScan(chain_block_scores) = {BlueScoredChainBlockHash(Tip)}
<1>1. \E b \in chain_block_scores : b.blue = LastBlue
  BY LastBlueIs DEF ChainInv
<1>2. Tip \in chain_block_scores /\ Tip.blue = LastBlue
  BY <1>1 DEF Tip
<1>3. ASSUME NEW b \in chain_block_scores, b # Tip PROVE b.blue < Tip.blue
  <2>1. b.blue <= LastBlue /\ b.blue \in Nat /\ LastBlue \in Nat
    BY LastBlueIs DEF ChainInv
  <2>2. b.blue # LastBlue
    BY <1>2, <1>3 DEF ChainInv, ChainIndexed
  <2>3. QED BY <1>2, <2>1, <2>2
<1>4. chain_block_scores \subseteq [blue : Numbers, hash : Hashes]
  BY ScoreNumbers DEF ChainInv, BlocksOK
<1> DEFINE rows == chain_block_scores
           last == Tip
<1>5. last \in rows /\ rows \subseteq [blue : Numbers, hash : Hashes] /\ \A b \in rows : b # last => b.blue < last.blue
  BY <1>2, <1>3, <1>4
<1> HIDE DEF rows, last
<1>6. TipScan(rows) = {BlueScoredChainBlockHash(last)}
  BY <1>5, TipScanIs
<1>7. QED BY <1>6 DEF rows, last

\* The last sequence number, and whether there is a mint that has it.
LEMMA SeqsBelow ==
    ASSUME LedgerInv, NEW tick \in Ticks
    PROVE  /\ \A m \in mint_history : m.tick = tick => m.seq <= LastSeq(tick)
           /\ LastMint(tick) = {} => LastSeq(tick) = 0 /\ \A m \in mint_history : m.tick # tick
<1>1. CASE tick \notin DOMAIN collection_registry
  <2>1. \A m \in mint_history : m.tick # tick
    BY <1>1 DEF LedgerInv, MintsRecorded
  <2>2. LastSeq(tick) = 0
    BY <2>1, LastSeqIs DEF MintsOf
  <2>3. QED BY <2>1, <2>2
<1>2. CASE tick \in DOMAIN collection_registry
  <2>1. PICK n, token, score, trail : MintsInOrder(tick, n, token, score, trail)
    BY <1>2 DEF LedgerInv, MintsRecorded
  <2> DEFINE premint == DeployOf(tick).premint
             max == DeployOf(tick).max
  <2>2. Supply(premint, max)
    BY <1>2, LedgerAssumption DEF LedgerInv, RegistryRecorded, Supply
  <2>3. SupplyCounted(premint, max, MintsOf(tick), n)
    BY <2>1, <2>2, SupplyOf DEF MintsInOrder
  <2> HIDE DEF premint, max
  <2>4. n \in Nat /\ {m.seq : m \in MintsOf(tick)} = 1..n /\ \A m \in MintsOf(tick) : m.seq \in 1..n
    BY <2>3 DEF SupplyCounted
  <2>5. LastSeq(tick) = n
    BY <2>4, LastSeqIs
  <2>6. \A m \in mint_history : m.tick = tick => m.seq \in 1..n
    BY <2>4 DEF MintsOf
  <2>7. ASSUME n # 0 PROVE LastMint(tick) # {}
    <3>1. n \in 1..n
      BY <2>4, <2>7
    <3>2. PICK m \in MintsOf(tick) : m.seq = n
      BY <2>4, <3>1
    <3>3. QED BY <2>5, <3>2 DEF LastMint, MintsOf
  <2>8. QED BY <2>4, <2>5, <2>6, <2>7
<1>3. QED BY <1>1, <1>2

LEMMA SeqFound ==
    ASSUME LedgerInv, NEW tick \in Ticks
    PROVE  SeqScan(Beside(mint_history), tick) = {LastSeq(tick)} \ (IF LastMint(tick) = {} THEN {0} ELSE {})
<1> DEFINE rows == Beside(mint_history)
<1>1. /\ rows \subseteq [tick : AnyTick, seq : Numbers, token : Numbers, score : Numbers]
      /\ mint_history \subseteq rows
      /\ \A m \in rows : m.tick = tick => m \in mint_history
  BY MintRowsAre, MintsBeside
<1>2. tick \in AnyTick
  BY TicksApart
<1> HIDE DEF rows
<1>3. /\ \A m \in mint_history : m.seq \in Nat
      /\ \A m, x \in mint_history : m.tick = x.tick /\ m.seq = x.seq => m = x
  BY MintRowsAre, NumberKeys
<1>4. CASE LastMint(tick) # {}
  <2>1. PICK last \in mint_history : last.tick = tick /\ last.seq = LastSeq(tick)
    BY <1>4 DEF LastMint
  <2>2. \A m \in mint_history : m.tick = tick => m.seq <= LastSeq(tick)
    BY SeqsBelow
  <2>3. \A m \in rows : m.tick = tick /\ m # last => m.seq < last.seq
    BY <1>1, <1>3, <2>1, <2>2
  <2>4. SeqScan(rows, tick) = {last.seq}
    BY <1>1, <1>2, <2>1, <2>3, SeqScanIs
  <2>5. QED BY <1>4, <2>1, <2>4 DEF rows
<1>5. CASE LastMint(tick) = {}
  <2>1. LastSeq(tick) = 0 /\ \A m \in mint_history : m.tick # tick
    BY <1>5, SeqsBelow
  <2>2. SeqScan(rows, tick) = {}
    BY <1>1, <1>2, <2>1, SeqScanIs
  <2>3. QED BY <1>5, <2>1, <2>2 DEF rows
<1>6. QED BY <1>4, <1>5

LEMMA OwnerFound ==
    ASSUME LedgerInv, StatsInv, MovesRecorded, NEW k0 \in DOMAIN ownership_history
    PROVE  OwnerScan(BesideAt(DOMAIN ownership_history, 1), <<k0[1], k0[2]>>)
               = {LastChange(ownership_history, <<k0[1], k0[2]>>)}
<1> DEFINE old == DOMAIN ownership_history
           rows == BesideAt(old, 1)
           since == LastChange(ownership_history, <<k0[1], k0[2]>>)
<1>1. old \subseteq Ticks \X Numbers \X Numbers
  BY HistoryRowsAre
<1> HIDE DEF old
<1>2. /\ rows \subseteq AnyTick \X Numbers \X Numbers /\ old \subseteq rows
      /\ \A k \in rows : k[1] \in Ticks => k \in old
  BY <1>1, HistoryBeside
<1> HIDE DEF rows
<1>3. Now \in Nat /\ \A k \in DOMAIN ownership_history : k[3] \in Nat /\ k[3] <= Now
  BY NowAbove DEF LedgerInv, HistoryRecorded
<1>4. /\ \E k \in old : <<k[1], k[2]>> = <<k0[1], k0[2]>> /\ k[3] = since
      /\ \A k \in old : <<k[1], k[2]>> = <<k0[1], k0[2]>> => k[3] <= since
  BY <1>3, LastChangeIs DEF old
<1> HIDE DEF since
<1>5. PICK last \in old : last[1] = k0[1] /\ last[2] = k0[2] /\ last[3] = since
  BY <1>4
<1>6. ASSUME NEW k \in rows, k[1] = last[1], k[2] = last[2], k # last PROVE k[3] < last[3]
  <2>1. k \in old
    BY <1>1, <1>2, <1>5, <1>6
  <2>2. k[3] <= last[3] /\ k[3] \in Nat /\ last[3] \in Nat
    BY <1>3, <1>4, <1>5, <1>6, <2>1 DEF old
  <2>3. k[3] # last[3]
    BY <1>1, <1>5, <1>6, <2>1
  <2>4. QED BY <2>2, <2>3
<1>7. last \in rows
  BY <1>2, <1>5
<1>8. OwnerScan(rows, <<last[1], last[2]>>) = {last[3]}
  BY <1>2, <1>6, <1>7, OwnerScanIs
<1>9. QED BY <1>5, <1>8 DEF rows, old, since

LEMMA RangesFound ==
    ASSUME LedgerInv, NEW tick \in Ticks
    PROVE  RangesScan(BesideAt({<<tick, i>> : i \in DOMAIN alloc[tick].ranges}, 1), tick)
               = DOMAIN alloc[tick].ranges
<1> DEFINE D == DOMAIN alloc[tick].ranges
           old == {<<tick, i>> : i \in D}
           rows == BesideAt(old, 1)
<1>1. \A i \in D : i \in Numbers /\ i < MaxU64
  BY RangesCounted
<1> HIDE DEF D
<1>2. old \subseteq Ticks \X Numbers /\ \A k \in old : k[2] < MaxU64
  BY <1>1
<1>3. \A k \in old : k[1] = tick /\ k[2] \in D
  OBVIOUS
<1>4. \A i \in D : <<tick, i>> \in old
  OBVIOUS
<1> HIDE DEF old
<1>5. /\ rows \subseteq AnyTick \X Numbers /\ (\A k \in rows : k[2] < MaxU64)
      /\ old \subseteq rows /\ \A k \in rows : k[1] \in Ticks => k \in old
  BY <1>2, RangesBeside
<1>6. tick \in AnyTick
  BY TicksApart
<1> HIDE DEF rows
<1>7. RangesScan(rows, tick) = {k[2] : k \in {r \in rows : r[1] = tick}}
  BY <1>5, <1>6, RangesScanIs
<1>8. {k[2] : k \in {r \in rows : r[1] = tick}} = D
  <2>1. \A i \in D : <<tick, i>> \in {r \in rows : r[1] = tick} /\ <<tick, i>>[2] = i
    BY <1>4, <1>5
  <2>2. \A k \in {r \in rows : r[1] = tick} : k[2] \in D
    BY <1>3, <1>5
  <2>3. QED BY <2>1, <2>2
<1>9. QED BY <1>7, <1>8 DEF rows, old, D

LEMMA FeeFound ==
    ASSUME LedgerInv, StatsInv, NEW tick \in Ticks, NEW spk \in AnySpk
    PROVE  FeeScan(Beside(vip), spk, tick) =
               (LET fee == RequiredFee(spk, tick, None) IN IF fee = None THEN {} ELSE {fee})
<1> DEFINE rows == Beside(vip)
           granted == {v \in vip : v.spk = spk /\ v.tick = tick}
           latest == CHOOSE v \in granted : \A w \in granted : w.score <= v.score
<1>1. /\ vip \subseteq [spk : AnySpk, tick : Ticks, score : Numbers \ {0}, fee : Numbers]
      /\ \A v, w \in vip : v.score = w.score => v = w
  BY DiscountRowsAre
<1>2. /\ rows \subseteq [spk : AnySpk, tick : AnyTick, score : Numbers \ {0}, fee : Numbers]
      /\ vip \subseteq rows /\ \A v \in rows : v.tick \in Ticks => v \in vip
  BY <1>1, VipBeside
<1> HIDE DEF rows
<1>3. tick \in AnyTick
  BY TicksApart
<1>4. RequiredFee(spk, tick, None) = IF granted = {} THEN None ELSE latest.fee
  BY DEF RequiredFee
<1>5. CASE granted = {}
  <2>1. \A v \in rows : ~ (v.spk = spk /\ v.tick = tick)
    BY <1>2, <1>5
  <2>2. FeeScan(rows, spk, tick) = {}
    BY <1>2, <1>3, <2>1, FeeScanIs
  <2>3. QED BY <1>4, <1>5, <2>2 DEF rows
<1>6. CASE granted # {}
  <2> DEFINE T == {v.score : v \in granted}
  <2>1. T \in SUBSET Nat /\ T # {} /\ MaxU64 \in Nat /\ \A x \in T : x <= MaxU64
    BY <1>1, <1>6, NumberKeys DEF Numbers
  <2>2. \E v \in granted : \A w \in granted : w.score <= v.score
    <3>1. Max(T) \in T /\ \A y \in T : y <= Max(T)
      <4> HIDE DEF T
      <4>1. QED BY <2>1, MaxIsGreatest
    <3>2. PICK v \in granted : v.score = Max(T)
      BY <3>1
    <3>3. QED BY <3>1, <3>2
  <2>3. latest \in granted /\ \A w \in granted : w.score <= latest.score
    BY <2>2
  <2> HIDE DEF latest
  <2>4. latest \in vip /\ latest.spk = spk /\ latest.tick = tick
    BY <2>3
  <2>5. ASSUME NEW v \in rows, v.spk = spk, v.tick = tick, v # latest PROVE v.score < latest.score
    <3>1. v \in vip /\ v \in granted
      BY <1>2, <2>5
    <3>2. v.score <= latest.score /\ v.score # latest.score
      BY <1>1, <2>3, <2>4, <2>5, <3>1
    <3>3. v.score \in Nat /\ latest.score \in Nat
      BY <1>1, <2>4, <3>1, NumberKeys
    <3>4. QED BY <3>2, <3>3
  <2>6. latest \in rows
    BY <1>2, <2>4
  <2>7. FeeScan(rows, spk, tick) = {latest.fee}
    BY <1>2, <1>3, <2>4, <2>5, <2>6, FeeScanIs
  <2>8. latest.fee # None
    BY <1>1, <2>4, NumberKeys, NumbersAssumption
  <2> HIDE DEF granted
  <2>9. QED BY <1>4, <1>6, <2>7, <2>8 DEF rows
<1>7. QED BY <1>5, <1>6

LEMMA HoldingFound ==
    ASSUME LedgerInv, StatsInv, MovesRecorded, NEW tick \in Ticks, NEW spk \in AnySpk
    PROVE  HoldingScan(BesideAt(DOMAIN address_holdings, 2), spk, tick)
               = {k[3] : k \in {h \in DOMAIN address_holdings : h[1] = spk /\ h[2] = tick}}
<1> DEFINE old == DOMAIN address_holdings
           rows == BesideAt(old, 2)
<1>1. old \subseteq AnySpk \X Ticks \X Numbers
  BY HoldingRowsAre
<1> HIDE DEF old
<1>2. /\ rows \subseteq AnySpk \X AnyTick \X Numbers /\ old \subseteq rows
      /\ \A k \in rows : k[2] \in Ticks => k \in old
  BY <1>1, HoldingsBeside
<1> HIDE DEF rows
<1>3. tick \in AnyTick
  BY TicksApart
<1>4. HoldingScan(rows, spk, tick) = {k[3] : k \in {h \in rows : h[1] = spk /\ h[2] = tick}}
  BY <1>2, <1>3, HoldingScanIs
<1>5. {h \in rows : h[1] = spk /\ h[2] = tick} = {h \in old : h[1] = spk /\ h[2] = tick}
  BY <1>2
<1>6. QED BY <1>4, <1>5 DEF rows, old

LEMMA FromFound ==
    ASSUME LedgerInv, StatsInv, MovesRecorded, KeysShaped, NEW tick \in Ticks,
           NEW b \in chain_block_scores, NEW s, s = TxScore(b.blue, 0)
    PROVE  /\ ChangesFrom(Beside(ownership_changes), s, tick) =
                  Encoded({c \in Beside(ownership_changes) : c.score >= s}, TokenMintsKey)
           /\ DeploymentsFrom(Beside(collection_deployments), s, tick) =
                  Encoded({d \in Beside(collection_deployments) : d.score >= s}, DeploymentKey)
           /\ DiscountsFrom(BesideAt(DOMAIN score_to_discount, 2), s) =
                  Encoded({k \in BesideAt(DOMAIN score_to_discount, 2) : k[1] >= s}, ScoredDiscountKey)
<1>1. s \in Numbers /\ tick \in AnyTick
  BY ScoreNumbers, TicksApart DEF LedgerInv
<1>2. Beside(ownership_changes) \subseteq [score : Numbers, tick : AnyTick, token : Numbers, seq : Numbers]
  BY ChangeRowsAre, ChangesBeside
<1>3. Beside(collection_deployments) \subseteq [score : Numbers, tick : AnyTick]
  BY ChangeRowsAre, DeploymentsBeside
<1>4. BesideAt(DOMAIN score_to_discount, 2) \subseteq Numbers \X AnyTick \X AnySpk
  <2> DEFINE old == DOMAIN score_to_discount
  <2>1. old \subseteq Numbers \X Ticks \X AnySpk
    BY DEF KeysShaped
  <2> HIDE DEF old
  <2>2. QED BY <2>1, DiscountsBeside DEF old
<1>5. ChangesFrom(Beside(ownership_changes), s, tick) =
          Encoded({c \in Beside(ownership_changes) : c.score >= s}, TokenMintsKey)
  BY <1>1, <1>2, ChangesFromIs
<1>6. DeploymentsFrom(Beside(collection_deployments), s, tick) =
          Encoded({d \in Beside(collection_deployments) : d.score >= s}, DeploymentKey)
  BY <1>1, <1>3, DeploymentsFromIs
<1>7. DiscountsFrom(BesideAt(DOMAIN score_to_discount, 2), s) =
          Encoded({k \in BesideAt(DOMAIN score_to_discount, 2) : k[1] >= s}, ScoredDiscountKey)
  BY <1>1, <1>4, DiscountsFromIs
<1>8. QED BY <1>5, <1>6, <1>7

LEMMA ScansAre == LedgerInv /\ StatsInv /\ MovesRecorded /\ KeysShaped => ScansExact
<1>1. SUFFICES ASSUME LedgerInv, StatsInv, MovesRecorded, KeysShaped PROVE ScansExact
  OBVIOUS
<1>2. chain_block_scores # {} => TipScan(chain_block_scores) = {BlueScoredChainBlockHash(Tip)}
  BY <1>1, TipFound DEF LedgerInv
<1>3. ASSUME NEW tick \in Ticks
      PROVE  /\ SeqScan(Beside(mint_history), tick) =
                    {LastSeq(tick)} \ (IF LastMint(tick) = {} THEN {0} ELSE {})
             /\ RangesScan(BesideAt({<<tick, i>> : i \in DOMAIN alloc[tick].ranges}, 1), tick) =
                    DOMAIN alloc[tick].ranges
  BY <1>1, SeqFound, RangesFound
<1>4. ASSUME NEW tick \in Ticks, NEW spk \in DOMAIN SpkBytes
      PROVE  /\ FeeScan(Beside(vip), spk, tick) =
                    (LET fee == RequiredFee(spk, tick, None) IN IF fee = None THEN {} ELSE {fee})
             /\ HoldingScan(BesideAt(DOMAIN address_holdings, 2), spk, tick) =
                    {k[3] : k \in {h \in DOMAIN address_holdings : h[1] = spk /\ h[2] = tick}}
  <2>1. spk \in AnySpk
    BY DEF AnySpk
  <2>2. FeeScan(Beside(vip), spk, tick) =
            (LET fee == RequiredFee(spk, tick, None) IN IF fee = None THEN {} ELSE {fee})
    BY <1>1, <2>1, FeeFound
  <2>3. HoldingScan(BesideAt(DOMAIN address_holdings, 2), spk, tick) =
            {k[3] : k \in {h \in DOMAIN address_holdings : h[1] = spk /\ h[2] = tick}}
    BY <1>1, <2>1, HoldingFound
  <2>4. QED BY <2>2, <2>3
<1>5. ASSUME NEW key \in {<<k[1], k[2]>> : k \in DOMAIN ownership_history}
      PROVE  OwnerScan(BesideAt(DOMAIN ownership_history, 1), key) = {LastChange(ownership_history, key)}
  <2>1. PICK k \in DOMAIN ownership_history : key = <<k[1], k[2]>>
    OBVIOUS
  <2>2. OwnerScan(BesideAt(DOMAIN ownership_history, 1), <<k[1], k[2]>>)
            = {LastChange(ownership_history, <<k[1], k[2]>>)}
    BY <1>1, OwnerFound
  <2>3. QED BY <2>1, <2>2
<1>6. ASSUME NEW tick \in Ticks, NEW b \in chain_block_scores
      PROVE  LET threshold   == TxScore(b.blue, 0)
                 changes     == Beside(ownership_changes)
                 deployments == Beside(collection_deployments)
                 discounts   == BesideAt(DOMAIN score_to_discount, 2)
             IN  /\ ChangesFrom(changes, threshold, tick) =
                        Encoded({c \in changes : c.score >= threshold}, TokenMintsKey)
                 /\ DeploymentsFrom(deployments, threshold, tick) =
                        Encoded({d \in deployments : d.score >= threshold}, DeploymentKey)
                 /\ DiscountsFrom(discounts, threshold) =
                        Encoded({k \in discounts : k[1] >= threshold}, ScoredDiscountKey)
  BY <1>1, FromFound
<1>7. QED BY <1>2, <1>3, <1>4, <1>5, <1>6 DEF ScansExact

-----------------------------------------------------------------------------
(* The rows keep their shape.                                               *)

\* Tokens get an owner.
LEMMA SetOwnerKeysShaped ==
    ASSUME KeysShaped, NEW tick, NEW seqs, NEW from, NEW to, SetOwner(tick, seqs, from, to),
           \A t \in DOMAIN seqs : seqs[t] \in Numbers,
           collection_deployments' = collection_deployments
               \/ \E score, t : collection_deployments' = collection_deployments \cup {[score |-> score, tick |-> t]},
           UNCHANGED score_to_discount
    PROVE  KeysShaped'
<1> DEFINE added == {[score |-> Now, tick |-> tick, token |-> t, seq |-> seqs[t]] : t \in DOMAIN seqs}
<1>1. ownership_changes' = ownership_changes \cup added
  BY DEF SetOwner
<1>2. \A c \in added :
         /\ c = [score |-> c.score, tick |-> c.tick, token |-> c.token, seq |-> c.seq]
         /\ c.seq \in Numbers
  OBVIOUS
<1> HIDE DEF added
<1>3. \A c \in ownership_changes' :
         /\ c = [score |-> c.score, tick |-> c.tick, token |-> c.token, seq |-> c.seq]
         /\ c.seq \in Numbers
  BY <1>1, <1>2 DEF KeysShaped
<1>4. \A d \in collection_deployments' : d = [score |-> d.score, tick |-> d.tick]
  BY DEF KeysShaped
<1>5. QED BY <1>3, <1>4 DEF KeysShaped

LEMMA KeysStep == LedgerInv /\ KeysShaped /\ [Next]_vars => KeysShaped'
<1> SUFFICES ASSUME LedgerInv, KeysShaped, [Next]_vars PROVE KeysShaped'
  OBVIOUS
<1>1. ASSUME UNCHANGED <<ownership_changes, collection_deployments, score_to_discount>> PROVE KeysShaped'
  BY <1>1 DEF KeysShaped
<1>2. CASE UNCHANGED vars
  BY <1>1, <1>2 DEF vars, ownVars, deployVars, discountVars
<1>3. ASSUME NEW h \in Hashes, AcceptBlock(h) PROVE KeysShaped'
  BY <1>1, <1>3 DEF AcceptBlock, ownVars, deployVars, discountVars
<1>4. ASSUME NEW op \in Ops, Reject(op) \/ List(op) PROVE KeysShaped'
  BY <1>1, <1>4 DEF Reject, List, ownVars, deployVars, discountVars
<1>5. ASSUME NEW op \in Ops, Discount(op) PROVE KeysShaped'
  <2>1. /\ score_to_discount' = Put(score_to_discount, <<Now, op.tick, op.to>>, op.fee)
        /\ UNCHANGED <<ownership_changes, collection_deployments>>
        /\ op.kind = "discount" /\ slot < PerBlock
    BY <1>5 DEF Discount, Arrives, ownVars, deployVars
  <2>2. Now \in Numbers /\ op.tick \in Ticks /\ op.to \in AnySpk
    BY <2>1, ScoreNumbers, PartiesAssumption DEF LedgerInv, Ticks, AnySpk
  <2>3. DOMAIN score_to_discount' = DOMAIN score_to_discount \cup {<<Now, op.tick, op.to>>}
    BY <2>1 DEF Put
  <2>4. \A k \in DOMAIN score_to_discount' :
           k = <<k[1], k[2], k[3]>> /\ k[1] \in Numbers /\ k[2] \in Ticks /\ k[3] \in AnySpk
    BY <2>2, <2>3 DEF KeysShaped
  <2>5. QED BY <2>1, <2>4 DEF KeysShaped
<1>6. ASSUME NEW op \in Ops, Deploy(op) PROVE KeysShaped'
  <2> DEFINE seqs == [t \in 1..op.premint |-> t]
  <2>1. /\ op.kind = "deploy" /\ SetOwner(op.tick, seqs, {}, op.deployer)
        /\ collection_deployments' = collection_deployments \cup {[score |-> Now, tick |-> op.tick]}
        /\ UNCHANGED score_to_discount
    BY <1>6 DEF Deploy, Arrives, discountVars
  <2>2. op.max \in Nat /\ op.max <= MaxU64 /\ op.premint \in 0..op.max /\ MaxU64 \in Nat
    BY <2>1, LedgerAssumption, NumbersAssumption, NumberKeys
  <2>3. \A t \in DOMAIN seqs : seqs[t] \in Numbers
    BY <2>2 DEF Numbers
  <2> HIDE DEF seqs
  <2>4. QED BY <2>1, <2>3, SetOwnerKeysShaped
<1>7. ASSUME NEW op \in Ops, Mint(op) PROVE KeysShaped'
  <2> DEFINE seq == LastSeq(op.tick) + 1
  <2>1. /\ MintError(op) = None /\ UNCHANGED <<collection_deployments, score_to_discount>>
        /\ \E token : SetOwner(op.tick, [t \in {token} |-> seq], {}, op.to)
    BY <1>7 DEF Mint, deployVars, discountVars
  <2>2. PICK token : SetOwner(op.tick, [t \in {token} |-> seq], {}, op.to)
    BY <2>1
  <2>3. Registered(op.tick) /\ ~ (seq > DeployOf(op.tick).max)
    BY <2>1, LedgerAssumption DEF MintError, CtxValidationError
  <2>4. DeployOf(op.tick).max \in Nat /\ DeployOf(op.tick).max <= MaxU64 /\ MaxU64 \in Nat
    BY <2>3, LedgerAssumption, NumbersAssumption, NumberKeys DEF LedgerInv, RegistryRecorded, Registered
  <2>5. LastSeq(op.tick) \in Nat
    BY MintRowsAre, NumberKeys DEF Ticks
  <2>6. seq \in Numbers
    BY <2>3, <2>4, <2>5 DEF Numbers
  <2> DEFINE seqs == [t \in {token} |-> seq]
  <2> HIDE DEF seq
  <2>7. \A t \in DOMAIN seqs : seqs[t] \in Numbers
    BY <2>6
  <2> HIDE DEF seqs
  <2>8. SetOwner(op.tick, seqs, {}, op.to)
    BY <2>2 DEF seqs
  <2>9. QED BY <2>1, <2>7, <2>8, SetOwnerKeysShaped
<1>8. ASSUME NEW op, NEW from, NEW to, SetOwner(op.tick, [t \in {op.token} |-> 0], from, to),
             UNCHANGED <<collection_deployments, score_to_discount>>
      PROVE  KeysShaped'
  <2> DEFINE seqs == [t \in {op.token} |-> 0]
  <2>1. \A t \in DOMAIN seqs : seqs[t] \in Numbers
    BY NumberKeys
  <2>2. SetOwner(op.tick, seqs, from, to)
    BY <1>8
  <2> HIDE DEF seqs
  <2>3. QED BY <1>8, <2>1, <2>2, SetOwnerKeysShaped
<1>9. ASSUME NEW op \in Ops, Transfer(op) PROVE KeysShaped'
  BY <1>8, <1>9 DEF Transfer, deployVars, discountVars
<1>10. ASSUME NEW op \in Ops, Send(op) PROVE KeysShaped'
  <2>1. UNCHANGED <<collection_deployments, score_to_discount>>
    BY <1>10 DEF Send, deployVars, discountVars
  <2>2. CASE UNCHANGED ownVars
    BY <1>1, <2>1, <2>2 DEF ownVars
  <2>3. ASSUME NEW from, SetOwner(op.tick, [t \in {op.token} |-> 0], from, op.buyer) PROVE KeysShaped'
    BY <1>8, <2>1, <2>3
  <2>4. QED BY <1>10, <2>2, <2>3 DEF Send
<1>11. ASSUME NEW removed, NEW forced, Reorg(removed, forced) PROVE KeysShaped'
  <2>1. PICK blue : Rollback(blue, removed)
    BY <1>11 DEF Reorg
  <2>2. /\ ownership_changes' \subseteq ownership_changes
        /\ collection_deployments' \subseteq collection_deployments
        /\ UNCHANGED score_to_discount
    BY <2>1 DEF Rollback, RollbackOwnership, RollbackDeployments, RollbackDiscounts
  <2>3. QED BY <2>2 DEF KeysShaped
<1>12. QED BY <1>2, <1>3, <1>4, <1>5, <1>6, <1>7, <1>9, <1>10, <1>11 DEF Next

LEMMA KeysAlways == Spec => []KeysShaped
<1>1. Init => KeysShaped
  BY DEF Init, KeysShaped, NoEntries
<1>2. QED BY <1>1, KeysStep, LedgerAlways, PTL DEF Spec

\* What the code reads from the order of the keys is what the ledger means, with any
\* rows of other collections between and beside: the order of the fields in each key,
\* big-endian numbers and reversed scores put the row that counts first or last, the
\* range scans miss no row and meet no other, and a rollback takes every row of its
\* score and above and none below.
THEOREM ScansExactAlways == Spec => []ScansExact
<1>1. LedgerInv /\ StatsInv /\ MovesRecorded /\ KeysShaped => ScansExact
  BY ScansAre
<1>2. QED BY <1>1, LedgerAlways, StatsAlways, MovesAlways, KeysAlways, PTL
=============================================================================
