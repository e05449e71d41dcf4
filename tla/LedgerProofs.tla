----------------------------- MODULE LedgerProofs -----------------------------
(***************************************************************************)
(* Proofs about the ledger for any blocks, operations and block capacity,  *)
(* through any sequence of blocks, operations and reorganisations.  First  *)
(* the chain: both its tables name the same blocks, and every recorded     *)
(* operation lies in an accepted block, before whatever comes next.  Then, *)
(* step by step, collections, mints, owners, listings and discounts, until *)
(* LedgerInv, the invariant LedgerTablesProofs goes on from.               *)
(***************************************************************************)
EXTENDS Ledger, TokenRangesProofs, WellFoundedInduction

-----------------------------------------------------------------------------
(* Least and greatest numbers, which stand in for induction.                 *)

\* A nonempty set of natural numbers has a least element.
LEMMA LeastNat ==
    ASSUME NEW S \in SUBSET Nat, S # {}
    PROVE  \E n \in S : \A m \in S : n <= m
<1> DEFINE Below == OpToRel(<, Nat)
<1>1. IsWellFoundedOn(Below, Nat)
  BY NatLessThanWellFounded
<1>2. \E n \in S : \A m \in S : <<m, n>> \notin Below
  <2> HIDE DEF Below
  <2> QED BY <1>1, WFMin
<1>3. ASSUME NEW n \in S, NEW m \in S, <<m, n>> \notin Below
      PROVE  n <= m
  BY <1>3 DEF OpToRel
<1> QED BY <1>2, <1>3

\* A nonempty set of natural numbers below some bound has a greatest element.
LEMMA GreatestNat ==
    ASSUME NEW S \in SUBSET Nat, S # {}, NEW b \in Nat, \A n \in S : n <= b
    PROVE  \E n \in S : \A m \in S : m <= n
<1> DEFINE Gaps == {g \in Nat : \E n \in S : g = b - n}
<1>0. \A n \in S : b - n \in Gaps
  OBVIOUS
<1>1. Gaps \in SUBSET Nat /\ Gaps # {}
  <2> QED BY <1>0
<1>2. PICK g \in Gaps : \A h \in Gaps : g <= h
  <2> HIDE DEF Gaps
  <2> QED BY <1>1, LeastNat
<1>3. PICK n \in S : g = b - n
  BY <1>2
<1>4. ASSUME NEW m \in S PROVE m <= n
  <2>1. g <= b - m
    BY <1>0, <1>2
  <2>2. m \in Nat /\ n \in Nat /\ b - n <= b - m
    BY <1>3, <2>1
  <2> QED BY <2>2
<1> QED BY <1>4

\* A set that holds 0 and the successor of each of its natural numbers holds them all.
LEMMA SetInduction ==
    ASSUME NEW S, 0 \in S, \A n \in Nat : n \in S => n + 1 \in S
    PROVE  Nat \subseteq S
<1> SUFFICES ASSUME Nat \ S # {} PROVE FALSE
  OBVIOUS
<1>1. PICK n \in Nat \ S : \A m \in Nat \ S : n <= m
  BY LeastNat
<1>2. n # 0 /\ n - 1 \in Nat
  OBVIOUS
<1>3. n - 1 \in S
  BY <1>1, <1>2
<1> QED BY <1>2, <1>3

\* A score among those of one of the blocks C.
InBlocks(C, s) == \E b \in C : s \in TxScore(b.blue, 0)..TxScore(b.blue, PerBlock - 1)

\* The accepted blocks carry their own blue score and there is a highest one; the
\* block being processed is accepted.
BlocksOK ==
    /\ \A b \in chain_block_scores :
          b.hash \in Hashes /\ b.blue = Blue[b.hash] /\ b = [blue |-> b.blue, hash |-> b.hash]
    /\ \E n \in Nat : \A b \in chain_block_scores : b.blue <= n
    /\ slot \in 0..PerBlock
    /\ slot < PerBlock => chain_block_scores # {}

\* Every registered collection was deployed in an accepted block.
RegistryInBlocks ==
    \A t \in DOMAIN collection_registry : InBlocks(chain_block_scores, collection_registry[t].score)

\* The inductive invariant.  ChainIndexed and OperationsIndexed say of a score
\* only what their readers need; that a collection was registered in a block
\* that stands is what keeps its score below the next one after a rollback.
ChainInv == BlocksOK /\ ChainIndexed /\ OperationsIndexed /\ RegistryInBlocks
-----------------------------------------------------------------------------
(* Numbers.                                                                *)

\* The minimum identify_reorg_blocks_and_delete computes.
LEMMA MinIsLeast ==
    ASSUME NEW T \in SUBSET Nat, T # {}
    PROVE  Min(T) \in T /\ \A y \in T : Min(T) <= y
BY LeastNat DEF Min

\* A non-empty bounded set of natural numbers has a greatest element: the least
\* of its upper bounds.
LEMMA MaxIsGreatest ==
    ASSUME NEW T \in SUBSET Nat, T # {}, NEW n \in Nat, \A x \in T : x <= n
    PROVE  Max(T) \in T /\ \A y \in T : y <= Max(T)
<1> DEFINE U == {u \in Nat : \A x \in T : x <= u}
<1>1. PICK m \in U : \A y \in U : m <= y
  BY LeastNat
<1>2. m \in T
  <2> SUFFICES ASSUME m \notin T
               PROVE  FALSE
    OBVIOUS
  <2>1. \A x \in T : x < m
    BY <1>1
  <2>2. PICK t \in T : TRUE
    OBVIOUS
  <2>3. t < m /\ t \in Nat /\ m \in Nat
    BY <2>1
  <2>4. \A x \in T : x <= m - 1
    BY <2>1, <2>3
  <2>5. m - 1 \in U
    BY <2>3, <2>4
  <2>6. QED BY <1>1, <2>3, <2>5
<1>3. \E x \in T : \A y \in T : x >= y
  BY <1>1, <1>2
<1>4. Max(T) \in T /\ \A y \in T : Max(T) >= y
  BY <1>3 DEF Max
<1>5. QED BY <1>4

\* calculate_tx_score keeps the scores of different blue scores apart.
LEMMA ScoresApart ==
    ASSUME NEW a \in Nat, NEW b \in Nat
    PROVE  /\ TxScore(a, 0) \in Nat
           /\ \A p \in Nat : TxScore(a, p) = TxScore(a, 0) + p
           /\ a < b => TxScore(a, PerBlock) <= TxScore(b, 0)
           /\ a <= b => TxScore(a, 0) <= TxScore(b, 0)
<1>0. PerBlock \in Nat /\ PerBlock > 0
  BY LedgerAssumption
<1>1. a * PerBlock \in Nat /\ b * PerBlock \in Nat
  BY <1>0
<1>2. (a + 1) * PerBlock = a * PerBlock + PerBlock
  BY <1>0
<1>3. a < b => (a + 1) * PerBlock <= b * PerBlock
  BY <1>0
<1>4. a <= b => a * PerBlock <= b * PerBlock
  BY <1>0
<1>5. QED BY <1>0, <1>1, <1>2, <1>3, <1>4 DEF TxScore
-----------------------------------------------------------------------------
(* The last accepted block.                                                *)

\* last_accepted_block_wtx on any set of blocks with a highest one.
LEMMA LastBlueOf ==
    ASSUME NEW C, \A b \in C : b.blue \in Nat \ {0},
           NEW n \in Nat, \A b \in C : b.blue <= n
    PROVE  LET last == Max({0} \cup {b.blue : b \in C})
           IN  /\ last \in Nat
               /\ \A b \in C : b.blue <= last
               /\ C # {} => \E b \in C : b.blue = last
<1> DEFINE T == {0} \cup {b.blue : b \in C}
<1>1. T \in SUBSET Nat /\ T # {} /\ \A x \in T : x <= n
  OBVIOUS
<1>2. Max(T) \in T /\ \A y \in T : y <= Max(T)
  BY <1>1, MaxIsGreatest
<1>3. ASSUME C # {}
      PROVE  \E b \in C : b.blue = Max(T)
  <2>1. PICK b \in C : TRUE
    BY <1>3
  <2>2. b.blue <= Max(T) /\ b.blue \in Nat \ {0}
    BY <1>2, <2>1
  <2>3. Max(T) # 0
    BY <1>1, <1>2, <2>2
  <2>4. QED BY <1>2, <2>3
<1>4. QED BY <1>1, <1>2, <1>3

LEMMA LastBlueIs ==
    ASSUME BlocksOK
    PROVE  /\ \A b \in chain_block_scores : b.blue \in Nat \ {0}
           /\ LastBlue \in Nat
           /\ \A b \in chain_block_scores : b.blue <= LastBlue
           /\ chain_block_scores # {} => \E b \in chain_block_scores : b.blue = LastBlue
<1>1. \A b \in chain_block_scores : b.blue \in Nat \ {0}
  BY LedgerAssumption DEF BlocksOK
<1>2. PICK n \in Nat : \A b \in chain_block_scores : b.blue <= n
  BY DEF BlocksOK
<1>3. QED BY <1>1, <1>2, LastBlueOf DEF LastBlue

\* A score of an accepted block is below the first one of the block to come.
LEMMA InBlocksBelow ==
    ASSUME NEW C, \A b \in C : b.blue \in Nat \ {0},
           NEW n \in Nat, \A b \in C : b.blue <= n,
           NEW s, InBlocks(C, s)
    PROVE  s \in Nat /\ s < TxScore(Max({0} \cup {b.blue : b \in C}), PerBlock)
<1> DEFINE last == Max({0} \cup {b.blue : b \in C})
<1>1. last \in Nat /\ \A b \in C : b.blue <= last
  BY LastBlueOf
<1>2. PICK b \in C : s \in TxScore(b.blue, 0)..TxScore(b.blue, PerBlock - 1)
  BY DEF InBlocks
<1>3. PerBlock \in Nat /\ PerBlock - 1 \in Nat
  BY LedgerAssumption
<1>4. /\ b.blue \in Nat /\ b.blue <= last
  BY <1>1
<1> HIDE DEF last
<1>5. /\ TxScore(b.blue, 0) \in Nat
      /\ TxScore(b.blue, PerBlock - 1) = TxScore(b.blue, 0) + (PerBlock - 1)
      /\ TxScore(b.blue, 0) <= TxScore(last, 0)
  BY <1>1, <1>3, <1>4, ScoresApart
<1>6. TxScore(last, 0) \in Nat /\ TxScore(last, PerBlock) = TxScore(last, 0) + PerBlock
  BY <1>1, <1>3, ScoresApart
<1>7. s \in Nat /\ s < TxScore(last, PerBlock)
  BY <1>2, <1>3, <1>5, <1>6
<1>8. QED BY <1>7 DEF last
-----------------------------------------------------------------------------
(* One lemma for each kind of step.                                        *)

LEMMA ChainInit == Init => ChainInv
<1> SUFFICES ASSUME Init PROVE ChainInv
  OBVIOUS
<1>1. chain_block_scores = {} /\ DOMAIN blockhash_to_score = {} /\ slot = PerBlock
  BY DEF Init, NoEntries
<1>2. DOMAIN operation_history = {} /\ DOMAIN tx_id_to_opscore = {} /\ DOMAIN collection_registry = {}
  BY DEF Init, NoEntries
<1>3. BlocksOK
  BY <1>1, LedgerAssumption DEF BlocksOK
<1>4. ChainIndexed
  BY <1>1 DEF ChainIndexed
<1>5. OperationsIndexed /\ RegistryInBlocks
  BY <1>2 DEF OperationsIndexed, RegistryInBlocks
<1>6. QED BY <1>3, <1>4, <1>5 DEF ChainInv

\* The new block's blue score is above every accepted one, so its first score is
\* above every score in use.
LEMMA AcceptBlockStep ==
    ASSUME ChainInv, NEW h \in Hashes, AcceptBlock(h)
    PROVE  ChainInv'
<1> DEFINE new == [blue |-> Blue[h], hash |-> h]
<1>1. /\ \A b \in chain_block_scores : b.blue \in Nat \ {0} /\ b.blue <= LastBlue
      /\ LastBlue \in Nat
  BY LastBlueIs DEF ChainInv
<1>2. Blue[h] \in Nat \ {0} /\ PerBlock \in Nat \ {0}
  BY LedgerAssumption
<1>3. LastBlue < Blue[h]
  BY <1>1, <1>2 DEF AcceptBlock
<1>4. chain_block_scores' = chain_block_scores \cup {new} /\ slot' = 0
  BY DEF AcceptBlock
<1>5. \A b \in chain_block_scores' : b.blue \in Nat \ {0} /\ b.blue <= Blue[h]
  BY <1>1, <1>2, <1>3, <1>4
<1>6. BlocksOK'
  <2>1. \A b \in chain_block_scores' :
           b.hash \in Hashes /\ b.blue = Blue[b.hash] /\ b = [blue |-> b.blue, hash |-> b.hash]
    BY <1>4 DEF ChainInv, BlocksOK
  <2>2. \E n \in Nat : \A b \in chain_block_scores' : b.blue <= n
    BY <1>2, <1>5
  <2>3. slot' \in 0..PerBlock
    BY <1>2, <1>4
  <2>4. new \in chain_block_scores'
    BY <1>4
  <2>5. chain_block_scores' # {}
    BY <2>4
  <2>6. QED BY <2>1, <2>2, <2>3, <2>5 DEF BlocksOK
<1>7. ChainIndexed'
  <2>1. blockhash_to_score' = Put(blockhash_to_score, h, Blue[h])
    BY DEF AcceptBlock
  <2>2. \A b \in chain_block_scores : b.hash = h => b.blue = Blue[h]
    BY DEF ChainInv, BlocksOK
  <2>3. DOMAIN blockhash_to_score' = {b.hash : b \in chain_block_scores'}
    <3>1. DOMAIN blockhash_to_score' = DOMAIN blockhash_to_score \cup {h}
      BY <2>1 DEF Put
    <3>2. DOMAIN blockhash_to_score = {b.hash : b \in chain_block_scores}
      BY DEF ChainInv, ChainIndexed
    <3>3. new.hash = h
      OBVIOUS
    <3>4. QED BY <1>4, <3>1, <3>2, <3>3
  <2>4. \A b \in chain_block_scores' : blockhash_to_score'[b.hash] = b.blue
    BY <1>4, <2>1, <2>2 DEF Put, ChainInv, ChainIndexed
  <2>5. \A b, c \in chain_block_scores' : b.blue = c.blue => b = c
    BY <1>1, <1>2, <1>3, <1>4 DEF ChainInv, ChainIndexed
  <2>6. QED BY <2>3, <2>4, <2>5 DEF ChainIndexed
<1>8. Now' = TxScore(Blue[h], 0)
  <2>1. LastBlue' \in Nat /\ LastBlue' >= Blue[h] /\ LastBlue' <= Blue[h]
    BY <1>2, <1>4, <1>5, LastBlueOf DEF LastBlue
  <2>2. LastBlue' = Blue[h]
    BY <1>2, <2>1
  <2>3. QED BY <1>4, <2>2 DEF Now
<1>9. \A s : InBlocks(chain_block_scores, s) => s < Now' /\ InBlocks(chain_block_scores', s)
  <2> SUFFICES ASSUME NEW s, InBlocks(chain_block_scores, s)
               PROVE  s < Now' /\ InBlocks(chain_block_scores', s)
    OBVIOUS
  <2>1. s \in Nat /\ s < TxScore(LastBlue, PerBlock)
    BY <1>1, InBlocksBelow DEF LastBlue
  <2>2. TxScore(LastBlue, PerBlock) <= TxScore(Blue[h], 0) /\ TxScore(Blue[h], 0) \in Nat
        /\ TxScore(LastBlue, PerBlock) \in Nat
    BY <1>1, <1>2, <1>3, ScoresApart
  <2>3. QED BY <1>4, <1>8, <2>1, <2>2 DEF InBlocks
<1>10. UNCHANGED <<operation_history, tx_id_to_opscore, collection_registry, collection_deployments>>
  BY DEF AcceptBlock, opVars, deployVars
<1>11. OperationsIndexed'
  BY <1>9, <1>10 DEF ChainInv, OperationsIndexed, RegistryInBlocks, InBlocks
<1>12. RegistryInBlocks'
  BY <1>9, <1>10 DEF ChainInv, RegistryInBlocks
<1>13. QED BY <1>6, <1>7, <1>11, <1>12 DEF ChainInv

\* What every operation does to these tables: it is recorded at Now, and a
\* deployment is also registered there.
LEMMA OperationStep ==
    ASSUME ChainInv, NEW op, NEW token, NEW error, Arrives(op, op.kind), Record(op, token, error),
           \/ UNCHANGED deployVars
           \/ /\ collection_registry' = Put(collection_registry, op.tick, [score |-> Now, op |-> op])
              /\ collection_deployments' =
                     collection_deployments \cup {[score |-> Now, tick |-> op.tick]}
    PROVE  ChainInv'
<1>1. PerBlock \in Nat \ {0} /\ slot \in Nat /\ slot < PerBlock
  BY LedgerAssumption DEF Arrives, ChainInv, BlocksOK
<1>2. LastBlue \in Nat /\ \E b \in chain_block_scores : b.blue = LastBlue
  BY <1>1, LastBlueIs DEF ChainInv, BlocksOK
<1>3. UNCHANGED <<chain_block_scores, blockhash_to_score>> /\ slot' = slot + 1
  BY DEF Record, chainVars
<1>4. LastBlue' = LastBlue
  BY <1>3 DEF LastBlue
<1>5. /\ TxScore(LastBlue, 0) \in Nat
      /\ Now = TxScore(LastBlue, 0) + slot
      /\ Now' = TxScore(LastBlue, 0) + (slot + 1)
      /\ TxScore(LastBlue, PerBlock - 1) = TxScore(LastBlue, 0) + (PerBlock - 1)
  <2>1. TxScore(LastBlue, 0) \in Nat /\ \A p \in Nat : TxScore(LastBlue, p) = TxScore(LastBlue, 0) + p
    BY <1>2, ScoresApart
  <2>2. Now = TxScore(LastBlue, slot) /\ Now' = TxScore(LastBlue, slot + 1)
    BY <1>3, <1>4 DEF Now
  <2>3. slot \in Nat /\ slot + 1 \in Nat /\ PerBlock - 1 \in Nat
    BY <1>1
  <2>4. QED BY <2>1, <2>2, <2>3
<1>6. Now \in Nat /\ Now' = Now + 1 /\ Now \in TxScore(LastBlue, 0)..TxScore(LastBlue, PerBlock - 1)
  BY <1>1, <1>5
<1>7. InBlocks(chain_block_scores, Now)
  BY <1>2, <1>6 DEF InBlocks
<1>8. \A s : InBlocks(chain_block_scores, s) => s \in Nat
  BY LastBlueIs, InBlocksBelow DEF ChainInv
<1>9. BlocksOK'
  <2>1. slot' \in 0..PerBlock /\ chain_block_scores' # {}
    BY <1>1, <1>2, <1>3
  <2>2. QED BY <1>3, <2>1 DEF BlocksOK, ChainInv
<1>10. ChainIndexed'
  BY <1>3 DEF ChainInv, ChainIndexed
<1> DEFINE row == [op |-> op, token |-> token, error |-> error]
<1>11. /\ operation_history' = Put(operation_history, Now, row)
       /\ tx_id_to_opscore' = Put(tx_id_to_opscore, op.tx, Now)
       /\ op.tx \notin DOMAIN tx_id_to_opscore
  BY DEF Record, Arrives
<1>12. \A s \in DOMAIN operation_history :
          /\ operation_history[s].op.tx \in DOMAIN tx_id_to_opscore
          /\ tx_id_to_opscore[operation_history[s].op.tx] = s
          /\ InBlocks(chain_block_scores, s) /\ s \in Nat /\ s < Now
  BY <1>8 DEF ChainInv, OperationsIndexed, InBlocks
<1>13. Now \notin DOMAIN operation_history
  BY <1>6, <1>12
<1>14. \A s \in DOMAIN operation_history' :
          /\ operation_history'[s].op.tx \in DOMAIN tx_id_to_opscore'
          /\ tx_id_to_opscore'[operation_history'[s].op.tx] = s
          /\ InBlocks(chain_block_scores', s) /\ s < Now'
  <2> SUFFICES ASSUME NEW s \in DOMAIN operation_history'
               PROVE  /\ operation_history'[s].op.tx \in DOMAIN tx_id_to_opscore'
                      /\ tx_id_to_opscore'[operation_history'[s].op.tx] = s
                      /\ InBlocks(chain_block_scores', s) /\ s < Now'
    OBVIOUS
  <2>1. CASE s = Now
    <3>1. operation_history'[s].op.tx = op.tx
      BY <1>11, <2>1 DEF Put
    <3>2. op.tx \in DOMAIN tx_id_to_opscore' /\ tx_id_to_opscore'[op.tx] = Now
      BY <1>11 DEF Put
    <3>3. QED BY <1>3, <1>6, <1>7, <2>1, <3>1, <3>2
  <2>2. CASE s # Now
    <3>1. s \in DOMAIN operation_history /\ operation_history'[s] = operation_history[s]
      BY <1>11, <2>2 DEF Put
    <3>2. operation_history[s].op.tx \in DOMAIN tx_id_to_opscore /\ operation_history[s].op.tx # op.tx
      BY <1>11, <1>12, <3>1
    <3>3. /\ operation_history[s].op.tx \in DOMAIN tx_id_to_opscore'
          /\ tx_id_to_opscore'[operation_history[s].op.tx] = tx_id_to_opscore[operation_history[s].op.tx]
      BY <1>11, <3>2 DEF Put
    <3>4. s < Now' /\ InBlocks(chain_block_scores', s)
      BY <1>3, <1>6, <1>12, <3>1
    <3>5. QED BY <1>12, <3>1, <3>3, <3>4
  <2>3. QED BY <2>1, <2>2
<1>15. \A tx \in DOMAIN tx_id_to_opscore' :
          /\ tx_id_to_opscore'[tx] \in DOMAIN operation_history'
          /\ operation_history'[tx_id_to_opscore'[tx]].op.tx = tx
  <2> SUFFICES ASSUME NEW tx \in DOMAIN tx_id_to_opscore'
               PROVE  /\ tx_id_to_opscore'[tx] \in DOMAIN operation_history'
                      /\ operation_history'[tx_id_to_opscore'[tx]].op.tx = tx
    OBVIOUS
  <2>1. CASE tx = op.tx
    <3>1. tx_id_to_opscore'[tx] = Now
      BY <1>11, <2>1 DEF Put
    <3>2. Now \in DOMAIN operation_history' /\ operation_history'[Now].op = op
      BY <1>11 DEF Put
    <3>3. QED BY <2>1, <3>1, <3>2
  <2>2. CASE tx # op.tx
    <3> DEFINE s == tx_id_to_opscore[tx]
    <3>1. tx \in DOMAIN tx_id_to_opscore /\ tx_id_to_opscore'[tx] = s
      BY <1>11, <2>2 DEF Put
    <3>2. s \in DOMAIN operation_history /\ operation_history[s].op.tx = tx
      BY <3>1 DEF ChainInv, OperationsIndexed
    <3>3. s \in DOMAIN operation_history' /\ operation_history'[s] = operation_history[s]
      BY <1>11, <1>13, <3>2 DEF Put
    <3>4. QED BY <3>1, <3>2, <3>3
  <2>3. QED BY <2>1, <2>2
<1>16. \A t \in DOMAIN collection_registry :
          /\ InBlocks(chain_block_scores, collection_registry[t].score)
          /\ collection_registry[t].score \in Nat /\ collection_registry[t].score < Now
          /\ [score |-> collection_registry[t].score, tick |-> t] \in collection_deployments
  BY <1>8 DEF ChainInv, OperationsIndexed, RegistryInBlocks
<1>17. \A t \in DOMAIN collection_registry' :
          /\ InBlocks(chain_block_scores', collection_registry'[t].score)
          /\ collection_registry'[t].score < Now'
          /\ [score |-> collection_registry'[t].score, tick |-> t] \in collection_deployments'
  <2>1. CASE UNCHANGED deployVars
    <3>1. UNCHANGED <<collection_registry, collection_deployments>>
      BY <2>1 DEF deployVars
    <3>2. QED BY <1>3, <1>6, <1>16, <3>1
  <2>2. CASE /\ collection_registry' = Put(collection_registry, op.tick, [score |-> Now, op |-> op])
             /\ collection_deployments' =
                    collection_deployments \cup {[score |-> Now, tick |-> op.tick]}
    <3> SUFFICES ASSUME NEW t \in DOMAIN collection_registry'
                 PROVE  /\ InBlocks(chain_block_scores', collection_registry'[t].score)
                        /\ collection_registry'[t].score < Now'
                        /\ [score |-> collection_registry'[t].score, tick |-> t]
                              \in collection_deployments'
      OBVIOUS
    <3>1. CASE t = op.tick
      <4>1. collection_registry'[t].score = Now
        BY <2>2, <3>1 DEF Put
      <4>2. QED BY <1>3, <1>6, <1>7, <2>2, <3>1, <4>1
    <3>2. CASE t # op.tick
      <4>1. t \in DOMAIN collection_registry /\ collection_registry'[t] = collection_registry[t]
        BY <2>2, <3>2 DEF Put
      <4>2. QED BY <1>3, <1>6, <1>16, <2>2, <4>1
    <3>3. QED BY <3>1, <3>2
  <2>3. QED BY <2>1, <2>2
<1>18. OperationsIndexed'
  BY <1>14, <1>15, <1>17 DEF OperationsIndexed, InBlocks
<1>19. RegistryInBlocks'
  BY <1>17 DEF RegistryInBlocks
<1>20. QED BY <1>9, <1>10, <1>18, <1>19 DEF ChainInv

\* The scores a reorganisation takes the minimum of are natural numbers, and the
\* score of every accepted block it names is among them.
LEMMA RemovedScoresIs ==
    ASSUME ChainInv, NEW removed, NEW forced \in {{}, {LastBlue} \ {0}}
    PROVE  /\ RemovedScores(removed, forced) \in SUBSET Nat
           /\ \A b \in chain_block_scores :
                 b.hash \in removed => b.blue \in RemovedScores(removed, forced)
<1>1. LastBlue \in Nat /\ \A b \in chain_block_scores : b.blue \in Nat
  BY LastBlueIs DEF ChainInv
<1>2. \A h : RemovedScore(h) \subseteq Nat
  <2> SUFFICES ASSUME NEW h
               PROVE  RemovedScore(h) \subseteq Nat
    OBVIOUS
  <2>1. CASE h \in DOMAIN blockhash_to_score
    <3>1. PICK b \in chain_block_scores : b.hash = h
      BY <2>1 DEF ChainInv, ChainIndexed
    <3>2. blockhash_to_score[h] = b.blue
      BY <3>1 DEF ChainInv, ChainIndexed
    <3>3. QED BY <1>1, <2>1, <3>2 DEF RemovedScore
  <2>2. CASE h \notin DOMAIN blockhash_to_score
    BY <1>1, <2>2 DEF RemovedScore
  <2>3. QED BY <2>1, <2>2
<1>3. forced \subseteq Nat
  BY <1>1
<1>4. RemovedScores(removed, forced) \in SUBSET Nat
  BY <1>2, <1>3 DEF RemovedScores
<1>5. ASSUME NEW b \in chain_block_scores, b.hash \in removed
      PROVE  b.blue \in RemovedScores(removed, forced)
  <2>1. b.hash \in DOMAIN blockhash_to_score /\ blockhash_to_score[b.hash] = b.blue
    BY DEF ChainInv, ChainIndexed
  <2>2. b.blue \in RemovedScore(b.hash)
    BY <2>1 DEF RemovedScore
  <2>3. QED BY <1>5, <2>2 DEF RemovedScores
<1>6. QED BY <1>4, <1>5

\* Everything from the lowest removed block on goes, and what is left lies in the
\* blocks that are left.
LEMMA ReorgStep ==
    ASSUME ChainInv, NEW removed, NEW forced \in {{}, {LastBlue} \ {0}}, Reorg(removed, forced)
    PROVE  ChainInv'
<1> DEFINE blue == Min(RemovedScores(removed, forced))
           threshold == TxScore(blue, 0)
<1>1. /\ blue \in Nat
      /\ \A b \in chain_block_scores : b.hash \in removed => blue <= b.blue
  BY RemovedScoresIs, MinIsLeast DEF Reorg
<1>2. /\ RollbackChain(blue, removed) /\ RollbackOperations(threshold)
      /\ RollbackDeployments(threshold) /\ slot' = PerBlock
  BY DEF Reorg, Rollback
<1> HIDE DEF blue
<1>3. PerBlock \in Nat \ {0} /\ PerBlock - 1 \in Nat /\ threshold \in Nat
  BY <1>1, LedgerAssumption, ScoresApart
<1>4. \A b \in chain_block_scores :
         b.blue \in Nat \ {0} /\ b.hash \in Hashes /\ b.blue = Blue[b.hash]
  BY LastBlueIs DEF ChainInv, BlocksOK
<1>5. chain_block_scores' = {b \in chain_block_scores : b.blue < blue}
  BY <1>1, <1>2, <1>4 DEF RollbackChain
<1>6. BlocksOK'
  <2>1. slot' \in 0..PerBlock /\ ~ (slot' < PerBlock)
    BY <1>2, <1>3
  <2>2. QED BY <1>5, <2>1 DEF BlocksOK, ChainInv
<1>7. ChainIndexed'
  <2> DEFINE gone == {b \in chain_block_scores : b.blue >= blue}
             hashes == removed \cup {b.hash : b \in gone}
  <2>1. blockhash_to_score' = DelAll(blockhash_to_score, hashes)
    BY <1>2 DEF RollbackChain
  <2>2. \A b \in chain_block_scores : b.hash \in hashes <=> ~ (b.blue < blue)
    BY <1>1, <1>4
  <2>3. DOMAIN blockhash_to_score = {b.hash : b \in chain_block_scores}
    BY DEF ChainInv, ChainIndexed
  <2>4. /\ DOMAIN blockhash_to_score' = DOMAIN blockhash_to_score \ hashes
        /\ \A k \in DOMAIN blockhash_to_score' : blockhash_to_score'[k] = blockhash_to_score[k]
    BY <2>1 DEF DelAll
  <2> HIDE DEF hashes
  <2>5. DOMAIN blockhash_to_score' = {b.hash : b \in chain_block_scores'}
    BY <1>5, <2>2, <2>3, <2>4
  <2>6. \A b \in chain_block_scores' : blockhash_to_score'[b.hash] = b.blue
    BY <1>5, <2>4, <2>5 DEF ChainInv, ChainIndexed
  <2>7. \A b, c \in chain_block_scores' : b.blue = c.blue => b = c
    BY <1>5 DEF ChainInv, ChainIndexed
  <2>8. QED BY <2>5, <2>6, <2>7 DEF ChainIndexed
<1>8. ASSUME NEW s, InBlocks(chain_block_scores, s), ~ (s >= threshold)
      PROVE  s < Now' /\ InBlocks(chain_block_scores', s)
  <2>1. PICK b \in chain_block_scores : s \in TxScore(b.blue, 0)..TxScore(b.blue, PerBlock - 1)
    BY <1>8 DEF InBlocks
  <2>2. TxScore(b.blue, 0) \in Nat /\ TxScore(b.blue, PerBlock - 1) \in Nat
        /\ (blue <= b.blue => threshold <= TxScore(b.blue, 0))
    <3>1. b.blue \in Nat
      BY <1>4
    <3>2. TxScore(b.blue, 0) \in Nat /\ TxScore(b.blue, PerBlock - 1) = TxScore(b.blue, 0) + (PerBlock - 1)
      BY <1>3, <3>1, ScoresApart
    <3>3. blue <= b.blue => threshold <= TxScore(b.blue, 0)
      BY <1>1, <3>1, ScoresApart
    <3>4. QED BY <1>3, <3>2, <3>3
  <2>3. s \in Nat /\ TxScore(b.blue, 0) <= s
    BY <2>1, <2>2
  <2>4. b.blue < blue
    BY <1>1, <1>3, <1>4, <1>8, <2>2, <2>3
  <2>5. InBlocks(chain_block_scores', s)
    BY <1>5, <2>1, <2>4 DEF InBlocks
  <2>6. \A c \in chain_block_scores' : c.blue \in Nat \ {0} /\ c.blue <= blue
    BY <1>1, <1>4, <1>5
  <2>7. s < TxScore(LastBlue', PerBlock)
    BY <1>1, <2>5, <2>6, InBlocksBelow DEF LastBlue
  <2>8. QED BY <1>2, <2>5, <2>7 DEF Now
<1>9. \A s \in DOMAIN operation_history :
         /\ operation_history[s].op.tx \in DOMAIN tx_id_to_opscore
         /\ tx_id_to_opscore[operation_history[s].op.tx] = s
         /\ InBlocks(chain_block_scores, s)
  BY DEF ChainInv, OperationsIndexed, InBlocks
<1>10. \A tx \in DOMAIN tx_id_to_opscore :
          /\ tx_id_to_opscore[tx] \in DOMAIN operation_history
          /\ operation_history[tx_id_to_opscore[tx]].op.tx = tx
  BY DEF ChainInv, OperationsIndexed
<1> DEFINE gone == {s \in DOMAIN operation_history : s >= threshold}
           txs  == {operation_history[s].op.tx : s \in gone}
<1>11. /\ operation_history' = DelAll(operation_history, gone)
       /\ tx_id_to_opscore' = DelAll(tx_id_to_opscore, txs)
  BY <1>2 DEF RollbackOperations
<1>12. /\ DOMAIN operation_history' = DOMAIN operation_history \ gone
       /\ \A s \in DOMAIN operation_history' : operation_history'[s] = operation_history[s]
       /\ DOMAIN tx_id_to_opscore' = DOMAIN tx_id_to_opscore \ txs
       /\ \A tx \in DOMAIN tx_id_to_opscore' : tx_id_to_opscore'[tx] = tx_id_to_opscore[tx]
  BY <1>11 DEF DelAll
<1>13. \A s \in DOMAIN operation_history : operation_history[s].op.tx \in txs <=> s \in gone
  BY <1>9
<1>14. \A s \in DOMAIN operation_history' :
          /\ operation_history'[s].op.tx \in DOMAIN tx_id_to_opscore'
          /\ tx_id_to_opscore'[operation_history'[s].op.tx] = s
          /\ InBlocks(chain_block_scores', s) /\ s < Now'
  <2> SUFFICES ASSUME NEW s \in DOMAIN operation_history'
               PROVE  /\ operation_history'[s].op.tx \in DOMAIN tx_id_to_opscore'
                      /\ tx_id_to_opscore'[operation_history'[s].op.tx] = s
                      /\ InBlocks(chain_block_scores', s) /\ s < Now'
    OBVIOUS
  <2>1. s \in DOMAIN operation_history /\ s \notin gone /\ operation_history'[s] = operation_history[s]
    BY <1>12
  <2>2. ~ (s >= threshold)
    BY <2>1
  <2>3. InBlocks(chain_block_scores', s) /\ s < Now'
    BY <1>8, <1>9, <2>1, <2>2
  <2> HIDE DEF gone, txs
  <2>4. QED BY <1>9, <1>12, <1>13, <2>1, <2>3
<1>15. \A tx \in DOMAIN tx_id_to_opscore' :
          /\ tx_id_to_opscore'[tx] \in DOMAIN operation_history'
          /\ operation_history'[tx_id_to_opscore'[tx]].op.tx = tx
  <2> HIDE DEF gone, txs
  <2>1. QED BY <1>10, <1>12, <1>13
<1>16. \A t \in DOMAIN collection_registry' :
          /\ InBlocks(chain_block_scores', collection_registry'[t].score)
          /\ collection_registry'[t].score < Now'
          /\ [score |-> collection_registry'[t].score, tick |-> t] \in collection_deployments'
  <2> DEFINE dropped == {d \in collection_deployments : d.score >= threshold}
  <2> SUFFICES ASSUME NEW t \in DOMAIN collection_registry'
               PROVE  /\ InBlocks(chain_block_scores', collection_registry'[t].score)
                      /\ collection_registry'[t].score < Now'
                      /\ [score |-> collection_registry'[t].score, tick |-> t]
                            \in collection_deployments'
    OBVIOUS
  <2> DEFINE d == [score |-> collection_registry[t].score, tick |-> t]
  <2>1. /\ collection_deployments' = collection_deployments \ dropped
        /\ collection_registry' = DelAll(collection_registry, {x.tick : x \in dropped})
    BY <1>2 DEF RollbackDeployments
  <2>2. /\ t \in DOMAIN collection_registry /\ t \notin {x.tick : x \in dropped}
        /\ collection_registry'[t] = collection_registry[t]
    BY <2>1 DEF DelAll
  <2>3. d \in collection_deployments /\ InBlocks(chain_block_scores, d.score)
    BY <2>2 DEF ChainInv, OperationsIndexed, RegistryInBlocks
  <2>4. d.tick = t /\ d.score = collection_registry[t].score
    OBVIOUS
  <2> HIDE DEF d
  <2>5. d \notin dropped
    BY <2>2, <2>4
  <2>6. ~ (d.score >= threshold)
    BY <2>3, <2>5
  <2>7. d.score < Now' /\ InBlocks(chain_block_scores', d.score)
    BY <1>8, <2>3, <2>6
  <2>8. d \in collection_deployments'
    BY <2>1, <2>3, <2>5
  <2>9. QED BY <2>2, <2>4, <2>7, <2>8 DEF d
<1>17. OperationsIndexed'
  BY <1>14, <1>15, <1>16 DEF OperationsIndexed, InBlocks
<1>18. RegistryInBlocks'
  BY <1>16 DEF RegistryInBlocks
<1>19. QED BY <1>6, <1>7, <1>17, <1>18 DEF ChainInv

\* Every step of the specification preserves the invariant.
LEMMA ChainStep == ChainInv /\ [Next]_vars => ChainInv'
<1> SUFFICES ASSUME ChainInv, [Next]_vars
             PROVE  ChainInv'
  OBVIOUS
<1>1. CASE UNCHANGED vars
  <2>1. UNCHANGED <<chain_block_scores, blockhash_to_score, operation_history, tx_id_to_opscore,
                    collection_registry, collection_deployments, slot>>
    BY <1>1 DEF vars, chainVars, opVars, deployVars, modelVars
  <2>2. BlocksOK' /\ ChainIndexed'
    BY <2>1 DEF ChainInv, BlocksOK, ChainIndexed
  <2>3. Now' = Now
    BY <2>1 DEF Now, LastBlue
  <2>4. OperationsIndexed' /\ RegistryInBlocks'
    BY <2>1, <2>3 DEF ChainInv, OperationsIndexed, RegistryInBlocks
  <2>5. QED BY <2>2, <2>4 DEF ChainInv
<1>2. CASE \E h \in Hashes : AcceptBlock(h)
  BY <1>2, AcceptBlockStep
<1>3. ASSUME NEW op \in Ops, Reject(op)
      PROVE  ChainInv'
  <2>1. Arrives(op, op.kind) /\ Record(op, None, ErrorOf(op)) /\ UNCHANGED deployVars
    BY <1>3 DEF Reject
  <2>2. QED BY <2>1, OperationStep
<1>4. ASSUME NEW op \in Ops, Deploy(op)
      PROVE  ChainInv'
  <2>1. /\ Arrives(op, op.kind) /\ Record(op, None, None)
        /\ collection_registry' = Put(collection_registry, op.tick, [score |-> Now, op |-> op])
        /\ collection_deployments' =
               collection_deployments \cup {[score |-> Now, tick |-> op.tick]}
    BY <1>4 DEF Deploy, Arrives
  <2>2. QED BY <2>1, OperationStep
<1>5. ASSUME NEW op \in Ops, Mint(op)
      PROVE  ChainInv'
  <2>1. Arrives(op, op.kind) /\ (\E token : Record(op, token, None)) /\ UNCHANGED deployVars
    BY <1>5 DEF Mint, Arrives
  <2>2. QED BY <2>1, OperationStep
<1>6. ASSUME NEW op \in Ops, Transfer(op) \/ Discount(op) \/ List(op) \/ Send(op)
      PROVE  ChainInv'
  <2>1. Arrives(op, op.kind) /\ Record(op, None, None) /\ UNCHANGED deployVars
    BY <1>6 DEF Transfer, Discount, List, Send, Arrives
  <2>2. QED BY <2>1, OperationStep
<1>7. ASSUME NEW removed, NEW forced \in {{}, {LastBlue} \ {0}}, Reorg(removed, forced)
      PROVE  ChainInv'
  BY <1>7, ReorgStep
<1>8. QED BY <1>1, <1>2, <1>3, <1>4, <1>5, <1>6, <1>7 DEF Next

\* Through any sequence of blocks, operations and reorganisations,
\* chain_block_scores and blockhash_to_score name the same blocks, one for each
\* blue score: identify_reorg_blocks_and_delete never leaves a hash behind.
THEOREM ChainIndexedAlways == Spec => []ChainIndexed
<1>1. ChainInv => ChainIndexed
  BY DEF ChainInv
<1>2. QED BY ChainInit, ChainStep, <1>1, PTL DEF Spec

\* Through any sequence of blocks, operations and reorganisations, every recorded
\* operation and every registered collection lies in an accepted block and below
\* the score of the next operation, and tx_id_to_opscore is the inverse of
\* operation_history: process_deployment never returns
\* Error::UnexpectedKaspaNodeBehaviour, and a transaction is refused as already
\* processed exactly while its record stands.
THEOREM OperationsIndexedAlways == Spec => []OperationsIndexed
<1>1. ChainInv => OperationsIndexed
  BY DEF ChainInv
<1>2. QED BY ChainInit, ChainStep, <1>1, PTL DEF Spec

-----------------------------------------------------------------------------
(* Collections and their mints.                                            *)

\* A registered collection has its deployment's record, and one entry in
\* collection_deployments.
RegistryRecorded ==
    /\ \A t \in DOMAIN collection_registry :
          /\ t \in Ticks
          /\ DeployOf(t) \in Ops /\ DeployOf(t).kind = "deploy" /\ DeployOf(t).tick = t
          /\ collection_registry[t].score \in DOMAIN operation_history
    /\ \A d \in collection_deployments :
          /\ d.tick \in DOMAIN collection_registry
          /\ d.score = collection_registry[d.tick].score

\* The first j random ids of a collection whose i-th mint is token[i].
Draws(token, premint, j) == [i \in 1..j |-> token[premint + i]]

\* `mints` are the n mints of the collection t, deployed at the score `since`: the
\* i-th is token[i], recorded at score[i]; trail[j] is the allocator after j random
\* draws, a the one after the last.
Numbered(t, premint, max, since, recorded, mints, a, n, token, score, trail) ==
    /\ n \in premint..max
    /\ mints = {[tick |-> t, seq |-> i, token |-> token[i], score |-> score[i]] : i \in 1..n}
    /\ \A i \in 1..n : token[i] \in Nat \ {0} /\ score[i] \in recorded
    /\ \A i \in 1..premint : token[i] = i /\ score[i] = since
    /\ \A i \in (premint + 1)..n : score[i] > since
    /\ \A i, j \in (premint + 1)..n : i < j => score[i] < score[j]
    /\ \A i, j \in (premint + 1)..n : token[i] = token[j] => i = j
    /\ a = trail[n - premint]
    /\ \A j \in 0..(n - premint) : InOrder(trail[j], Draws(token, premint, j), premint, max)
    /\ \A j \in 1..(n - premint) :
          RollbackTokenGeneration(trail[j], token[premint + j]) = trail[j - 1]

\* The mints of the collection t are numbered so.
MintsInOrder(t, n, token, score, trail) ==
    Numbered(t, DeployOf(t).premint, DeployOf(t).max, collection_registry[t].score,
             DOMAIN operation_history, MintsOf(t), alloc[t], n, token, score, trail)

MintsRecorded ==
    /\ DOMAIN alloc = Ticks
    /\ \A m \in mint_history : m.tick \in DOMAIN collection_registry
    /\ \A t \in DOMAIN collection_registry :
          \E n, token, score, trail : MintsInOrder(t, n, token, score, trail)
    /\ \A t \in Ticks \ DOMAIN collection_registry : alloc[t] = NoRanges
    /\ \A m \in mint_history :
          [score |-> m.score, tick |-> m.tick, token |-> m.token, seq |-> m.seq] \in ownership_changes
-----------------------------------------------------------------------------
(* Ownership.                                                              *)

\* ownership_changes and ownership_history have the same rows, each of a recorded
\* operation and of a token that was minted by then.
HistoryRecorded ==
    /\ \A c \in ownership_changes : <<c.tick, c.token, c.score>> \in DOMAIN ownership_history
    /\ \A k \in DOMAIN ownership_history :
          /\ k = <<k[1], k[2], k[3]>> /\ k[3] \in DOMAIN operation_history
          /\ \E c \in ownership_changes : c.tick = k[1] /\ c.token = k[2] /\ c.score = k[3]
          /\ \E m \in mint_history : m.tick = k[1] /\ m.token = k[2] /\ m.score <= k[3]

-----------------------------------------------------------------------------
(* What a recorded operation and a reorganisation do to operation_history.   *)

\* Every record's score is below the score of the next operation.
LEMMA NowAbove ==
    ASSUME ChainInv
    PROVE  Now \in Nat /\ \A s \in DOMAIN operation_history : s \in Nat /\ s < Now
<1>1. /\ LastBlue \in Nat /\ slot \in Nat
      /\ \A b \in chain_block_scores : b.blue \in Nat \ {0}
      /\ \E n \in Nat : \A b \in chain_block_scores : b.blue <= n
  BY LastBlueIs, LedgerAssumption DEF ChainInv, BlocksOK
<1>2. Now \in Nat
  <2>1. TxScore(LastBlue, 0) \in Nat /\ TxScore(LastBlue, slot) = TxScore(LastBlue, 0) + slot
    BY <1>1, ScoresApart
  <2>2. QED BY <1>1, <2>1 DEF Now
<1>3. \A s \in DOMAIN operation_history : s < Now /\ InBlocks(chain_block_scores, s)
  BY DEF ChainInv, OperationsIndexed, InBlocks
<1>4. \A s : InBlocks(chain_block_scores, s) => s \in Nat
  BY <1>1, InBlocksBelow
<1>5. QED BY <1>2, <1>3, <1>4

\* Recording an operation adds one row, above all others, and one transaction.
LEMMA RecordFacts ==
    ASSUME ChainInv, NEW op, NEW token, NEW error, Arrives(op, op.kind), Record(op, token, error)
    PROVE  /\ Now \in Nat /\ Now \notin DOMAIN operation_history
           /\ \A s \in DOMAIN operation_history : s \in Nat /\ s < Now
           /\ DOMAIN operation_history' = DOMAIN operation_history \cup {Now}
           /\ operation_history'[Now].op = op /\ operation_history'[Now].error = error
           /\ \A s \in DOMAIN operation_history : operation_history'[s] = operation_history[s]
           /\ op.tx \notin DOMAIN tx_id_to_opscore
           /\ DOMAIN tx_id_to_opscore' = DOMAIN tx_id_to_opscore \cup {op.tx}
           /\ tx_id_to_opscore'[op.tx] = Now
           /\ \A x \in DOMAIN tx_id_to_opscore : tx_id_to_opscore'[x] = tx_id_to_opscore[x]
<1>1. Now \in Nat /\ \A s \in DOMAIN operation_history : s \in Nat /\ s < Now
  BY NowAbove
<1>2. Now \notin DOMAIN operation_history
  BY <1>1
<1>3. /\ operation_history' = Put(operation_history, Now, [op |-> op, token |-> token, error |-> error])
      /\ tx_id_to_opscore' = Put(tx_id_to_opscore, op.tx, Now)
      /\ op.tx \notin DOMAIN tx_id_to_opscore
  BY DEF Record, Arrives
<1>4. /\ DOMAIN operation_history' = DOMAIN operation_history \cup {Now}
      /\ operation_history'[Now] = [op |-> op, token |-> token, error |-> error]
      /\ \A s \in DOMAIN operation_history : operation_history'[s] = operation_history[s]
  BY <1>2, <1>3 DEF Put
<1>4a. operation_history'[Now].op = op /\ operation_history'[Now].error = error
  BY <1>4
<1>5. /\ DOMAIN tx_id_to_opscore' = DOMAIN tx_id_to_opscore \cup {op.tx}
      /\ tx_id_to_opscore'[op.tx] = Now
      /\ \A x \in DOMAIN tx_id_to_opscore : tx_id_to_opscore'[x] = tx_id_to_opscore[x]
  BY <1>3 DEF Put
<1>6. QED BY <1>1, <1>2, <1>3, <1>4, <1>4a, <1>5

\* The operations that stand after one is recorded.
LEMMA StandingAfterRecord ==
    ASSUME ChainInv, NEW op, NEW token, NEW error, Arrives(op, op.kind), Record(op, token, error)
    PROVE  /\ \A kind : Standing(kind)' =
                  Standing(kind) \cup (IF error = None /\ op.kind = kind THEN {Now} ELSE {})
           /\ \A kind : \A s \in Standing(kind) :
                 s \in DOMAIN operation_history /\ s \in Nat /\ s < Now
<1>1. /\ Now \notin DOMAIN operation_history
      /\ \A s \in DOMAIN operation_history : s \in Nat /\ s < Now
      /\ DOMAIN operation_history' = DOMAIN operation_history \cup {Now}
      /\ operation_history'[Now].op = op /\ operation_history'[Now].error = error
      /\ \A s \in DOMAIN operation_history : operation_history'[s] = operation_history[s]
  BY RecordFacts
<1>2. ASSUME NEW kind
      PROVE  Standing(kind)' = Standing(kind) \cup (IF error = None /\ op.kind = kind THEN {Now} ELSE {})
  BY <1>1 DEF Standing
<1>3. QED BY <1>1, <1>2 DEF Standing

\* Everything from a score on is taken back, and nothing before.
RolledBack(threshold) ==
    /\ RollbackOperations(threshold) /\ RollbackDeployments(threshold)
    /\ RollbackDiscounts(threshold) /\ RollbackListings(threshold)
    /\ RollbackMints(threshold) /\ RollbackOwnership(threshold)
    /\ DOMAIN operation_history' = {s \in DOMAIN operation_history : s < threshold}
    /\ \A s \in DOMAIN operation_history' : operation_history'[s] = operation_history[s]
    /\ DOMAIN tx_id_to_opscore' =
           {x \in DOMAIN tx_id_to_opscore : tx_id_to_opscore[x] < threshold}
    /\ \A x \in DOMAIN tx_id_to_opscore' : tx_id_to_opscore'[x] = tx_id_to_opscore[x]
    /\ \A kind : Standing(kind)' = {s \in Standing(kind) : s < threshold}

LEMMA RollbackFacts ==
    ASSUME ChainInv, NEW blue \in Nat, NEW removed, Rollback(blue, removed)
    PROVE  TxScore(blue, 0) \in Nat /\ RolledBack(TxScore(blue, 0))
<1> DEFINE threshold == TxScore(blue, 0)
           gone == {s \in DOMAIN operation_history : s >= threshold}
<1>1. threshold \in Nat
  BY ScoresApart
<1>2. /\ RollbackOperations(threshold) /\ RollbackDeployments(threshold)
      /\ RollbackDiscounts(threshold) /\ RollbackListings(threshold)
      /\ RollbackMints(threshold) /\ RollbackOwnership(threshold)
  BY DEF Rollback
<1> HIDE DEF threshold
<1>3. \A s \in DOMAIN operation_history : s \in Nat
  BY NowAbove
<1>4. /\ operation_history' = DelAll(operation_history, gone)
      /\ tx_id_to_opscore' = DelAll(tx_id_to_opscore, {operation_history[s].op.tx : s \in gone})
  BY <1>2 DEF RollbackOperations
<1>5. /\ DOMAIN operation_history' = DOMAIN operation_history \ gone
      /\ \A s \in DOMAIN operation_history' : operation_history'[s] = operation_history[s]
      /\ DOMAIN tx_id_to_opscore' = DOMAIN tx_id_to_opscore \ {operation_history[s].op.tx : s \in gone}
      /\ \A x \in DOMAIN tx_id_to_opscore' : tx_id_to_opscore'[x] = tx_id_to_opscore[x]
  BY <1>4 DEF DelAll
<1>6. \A s \in DOMAIN operation_history : s \in gone <=> ~ (s < threshold)
  BY <1>1, <1>3
<1>7. DOMAIN operation_history' = {s \in DOMAIN operation_history : s < threshold}
  BY <1>5, <1>6
<1>8. \A x \in DOMAIN tx_id_to_opscore :
          x \in {operation_history[s].op.tx : s \in gone} <=> tx_id_to_opscore[x] \in gone
  BY DEF ChainInv, OperationsIndexed
<1>9. \A x \in DOMAIN tx_id_to_opscore : tx_id_to_opscore[x] \in DOMAIN operation_history
  BY DEF ChainInv, OperationsIndexed
<1>10. DOMAIN tx_id_to_opscore' = {x \in DOMAIN tx_id_to_opscore : tx_id_to_opscore[x] < threshold}
  <2> HIDE DEF gone
  <2> QED BY <1>5, <1>6, <1>8, <1>9
<1>11. \A kind : Standing(kind)' = {s \in Standing(kind) : s < threshold}
  BY <1>5, <1>7 DEF Standing
<1>12. RolledBack(threshold)
  BY <1>2, <1>5, <1>7, <1>10, <1>11 DEF RolledBack
<1>13. QED BY <1>1, <1>12 DEF threshold

\* A reorganisation takes back everything from some score on, and nothing before.
LEMMA ReorgFacts ==
    ASSUME ChainInv, NEW removed, NEW forced \in {{}, {LastBlue} \ {0}}, Reorg(removed, forced)
    PROVE  \E threshold \in Nat :
              /\ RollbackOperations(threshold) /\ RollbackDeployments(threshold)
              /\ RollbackDiscounts(threshold) /\ RollbackListings(threshold)
              /\ RollbackMints(threshold) /\ RollbackOwnership(threshold)
              /\ DOMAIN operation_history' = {s \in DOMAIN operation_history : s < threshold}
              /\ \A s \in DOMAIN operation_history' : operation_history'[s] = operation_history[s]
              /\ DOMAIN tx_id_to_opscore' =
                     {x \in DOMAIN tx_id_to_opscore : tx_id_to_opscore[x] < threshold}
              /\ \A x \in DOMAIN tx_id_to_opscore' : tx_id_to_opscore'[x] = tx_id_to_opscore[x]
              /\ \A kind : Standing(kind)' = {s \in Standing(kind) : s < threshold}
<1> DEFINE blue == Min(RemovedScores(removed, forced))
<1>1. blue \in Nat /\ Rollback(blue, removed)
  BY RemovedScoresIs, MinIsLeast DEF Reorg
<1> HIDE DEF blue
<1>2. TxScore(blue, 0) \in Nat /\ RolledBack(TxScore(blue, 0))
  BY <1>1, RollbackFacts
<1>3. QED BY <1>2 DEF RolledBack

-----------------------------------------------------------------------------
(* Taking mints back.                                                      *)

\* The newest of the mints 1..j, listed in the order of their scores, is the j-th.
LEMMA NewestOf ==
    ASSUME NEW row, NEW j \in Nat, j > 0, \A i \in 1..j : row[i].score \in Nat,
           \A h, i \in 1..j : h < i => row[h].score < row[i].score
    PROVE  LET left == {row[i] : i \in 1..j}
               m    == CHOOSE m \in left : \A x \in left : x.score <= m.score
           IN  m = row[j] /\ left \ {m} = {row[i] : i \in 1..(j - 1)}
<1> DEFINE left == {row[i] : i \in 1..j}
           Is(m) == m \in left /\ \A x \in left : x.score <= m.score
<1>1. j \in 1..j /\ row[j] \in left
  OBVIOUS
<1>2. \A i \in 1..j : row[i].score <= row[j].score
  BY <1>1
<1>3. Is(row[j])
  BY <1>1, <1>2
<1>4. ASSUME NEW m, Is(m) PROVE m = row[j]
  <2>1. PICK i \in 1..j : m = row[i]
    BY <1>4
  <2>2. row[j].score <= row[i].score
    BY <1>1, <1>4, <2>1
  <2>3. ~ (i < j)
    BY <1>1, <2>2
  <2>4. QED BY <2>1, <2>3
<1>5. (CHOOSE m \in left : \A x \in left : x.score <= m.score) = CHOOSE m : Is(m)
  OBVIOUS
<1>6. (CHOOSE m : Is(m)) = row[j]
  <2> HIDE DEF Is
  <2> QED BY <1>3, <1>4
<1>7. left \ {row[j]} = {row[i] : i \in 1..(j - 1)}
  <2>1. \A i \in 1..(j - 1) : i \in 1..j /\ row[i] # row[j]
    BY <1>1
  <2>2. \A i \in 1..j : i = j \/ i \in 1..(j - 1)
    OBVIOUS
  <2>3. QED BY <2>1, <2>2
<1>8. QED BY <1>5, <1>6, <1>7

\* `mints` are row[1..k], by increasing score, and their draws lead from the
\* allocator trail[0] to a = trail[k].
Retraced(k, row, trail, a, mints) ==
    /\ a = trail[k] /\ mints = {row[i] : i \in 1..k}
    /\ \A i \in 1..k : row[i].score \in Nat
    /\ \A h, i \in 1..k : h < i => row[h].score < row[i].score
    /\ \A i \in 1..k : RollbackTokenGeneration(trail[i], row[i].token) = trail[i - 1]

\* Taking back k mints whose allocators are known leads to the first allocator.
LEMMA UndoMintsIs ==
    ASSUME NEW k \in Nat, NEW row, NEW trail, NEW a, NEW mints, Retraced(k, row, trail, a, mints)
    PROVE  UndoMints(a, mints) = trail[0]
<1> SUFFICES ASSUME a = trail[k], mints = {row[i] : i \in 1..k},
                    \A i \in 1..k : row[i].score \in Nat,
                    \A h, i \in 1..k : h < i => row[h].score < row[i].score,
                    \A i \in 1..k : RollbackTokenGeneration(trail[i], row[i].token) = trail[i - 1]
             PROVE  UndoMints(a, mints) = trail[0]
  BY DEF Retraced
<1> DEFINE newest(left) == CHOOSE m \in left : \A x \in left : x.score <= m.score
           Body(was) == [alloc |-> RollbackTokenGeneration(was.alloc, newest(was.left).token),
                         left  |-> was.left \ {newest(was.left)}]
           Base == [alloc |-> trail[k], left |-> mints]
           Good(f) == f = [n \in 0..k |-> IF n = 0 THEN Base ELSE Body(f[n - 1])]
           undone == CHOOSE f : Good(f)
           At(n) == [alloc |-> trail[k - n], left |-> {row[i] : i \in 1..(k - n)}]
           F == [n \in 0..k |-> At(n)]
<1>1. Cardinality(mints) = k
  <2> DEFINE g == [i \in 1..k |-> row[i]]
  <2>1. \A h, i \in 1..k : g[h] = g[i] => h = i
    <3> SUFFICES ASSUME NEW h \in 1..k, NEW i \in 1..k, row[h] = row[i], h # i PROVE FALSE
      OBVIOUS
    <3>1. h < i \/ i < h
      OBVIOUS
    <3>2. row[h].score < row[i].score \/ row[i].score < row[h].score
      BY <3>1
    <3>3. QED BY <3>2
  <2>2. g \in Bijection(1..k, mints)
    <3>1. g \in [1..k -> mints]
      OBVIOUS
    <3>2. \A m \in mints : \E i \in 1..k : g[i] = m
      OBVIOUS
    <3>3. g \in Injection(1..k, mints)
      <4> HIDE DEF g
      <4> QED BY <2>1, <3>1 DEF Injection, IsInjective
    <3>4. g \in Surjection(1..k, mints)
      <4> HIDE DEF g
      <4> QED BY <3>1, <3>2, Zenon DEF Surjection
    <3> HIDE DEF g
    <3>5. QED BY <3>3, <3>4 DEF Bijection
  <2>3. IsFiniteSet(1..k) /\ Cardinality(1..k) = k
    BY FS_Interval
  <2>4. QED BY <2>2, <2>3, FS_Bijection DEF ExistsBijection
<1>2. UndoMints(a, mints) = undone[k].alloc
  <2>1. UndoMints(a, mints) =
          (CHOOSE f : f = [n \in 0..Cardinality(mints) |-> IF n = 0 THEN Base ELSE Body(f[n - 1])])
             [Cardinality(mints)].alloc
    BY DEF UndoMints
  <2> HIDE DEF Body
  <2>2. QED BY <1>1, <2>1
<1>3. ASSUME NEW n \in 1..k PROVE Body(At(n - 1)) = At(n)
  <2> DEFINE j == k - (n - 1)
  <2>1. j \in Nat /\ j > 0 /\ j \in 1..k /\ k - n = j - 1 /\ \A i \in 1..j : i \in 1..k
    OBVIOUS
  <2> DEFINE left == {row[i] : i \in 1..j}
  <2>2. newest(left) = row[j] /\ left \ {newest(left)} = {row[i] : i \in 1..(j - 1)}
    <3> HIDE DEF j
    <3>1. QED BY <2>1, NewestOf
  <2>3. At(n - 1) = [alloc |-> trail[j], left |-> left]
    OBVIOUS
  <2>4. RollbackTokenGeneration(trail[j], row[j].token) = trail[j - 1]
    BY <2>1
  <2>5. At(n) = [alloc |-> trail[j - 1], left |-> {row[i] : i \in 1..(j - 1)}]
    BY <2>1
  <2> HIDE DEF At, newest, left, j
  <2>6. At(n - 1).alloc = trail[j] /\ At(n - 1).left = left
    BY <2>3
  <2>7. QED BY <2>2, <2>4, <2>5, <2>6
<1>4. Good(F)
  <2>1. At(0) = Base
    OBVIOUS
  <2>2. \A n \in 1..k : n - 1 \in 0..k
    OBVIOUS
  <2> HIDE DEF At, Base, Body
  <2>3. \A n \in 0..k : F[n] = IF n = 0 THEN Base ELSE Body(F[n - 1])
    BY <1>3, <2>1, <2>2
  <2>4. F = [n \in 0..k |-> F[n]]
    OBVIOUS
  <2> HIDE DEF F
  <2>5. QED BY <2>3, <2>4
<1>5. Good(undone)
  <2> HIDE DEF Good, F
  <2>1. QED BY <1>4
<1>6. \A n \in 0..k : undone[n] = IF n = 0 THEN Base ELSE Body(undone[n - 1])
  <2> HIDE DEF undone, Base, Body
  <2> QED BY <1>5
<1>7. undone[k] = At(k)
  <2> DEFINE S == {n \in Nat : n <= k => undone[n] = At(n)}
  <2> HIDE DEF undone
  <2>1. 0 \in S
    <3>1. At(0) = Base /\ 0 \in 0..k
      OBVIOUS
    <3> HIDE DEF At, Base, Body
    <3> QED BY <1>6, <3>1
  <2>2. ASSUME NEW n \in Nat, n \in S PROVE n + 1 \in S
    <3> SUFFICES ASSUME n + 1 <= k PROVE undone[n + 1] = At(n + 1)
      OBVIOUS
    <3>1. n + 1 \in 1..k /\ n + 1 \in 0..k /\ n + 1 # 0 /\ (n + 1) - 1 = n /\ undone[n] = At(n)
      BY <2>2
    <3> HIDE DEF At, Base, Body
    <3>2. undone[n + 1] = Body(undone[(n + 1) - 1])
      BY <1>6, <3>1
    <3>3. Body(At((n + 1) - 1)) = At(n + 1)
      BY <1>3, <3>1
    <3>4. QED BY <3>1, <3>2, <3>3
  <2> HIDE DEF S
  <2>3. Nat \subseteq S
    BY <2>1, <2>2, SetInduction
  <2>4. k \in S
    BY <2>3
  <2>5. QED BY <2>4 DEF S
<1>8. undone[k].alloc = trail[0]
  <2>1. At(k).alloc = trail[0]
    OBVIOUS
  <2> HIDE DEF At, undone
  <2>2. QED BY <1>7, <2>1
<1>9. QED BY <1>2, <1>8

-----------------------------------------------------------------------------
(* Collections and their mints: one lemma for each kind of step.           *)

\* A step that neither deploys, nor mints, nor takes anything back.
LEMMA MintsQuiet ==
    ASSUME RegistryRecorded, MintsRecorded, UNCHANGED deployVars, UNCHANGED mintVars,
           DOMAIN operation_history \subseteq DOMAIN operation_history',
           ownership_changes \subseteq ownership_changes'
    PROVE  RegistryRecorded' /\ MintsRecorded'
<1>1. UNCHANGED <<collection_registry, collection_deployments, mint_history, alloc>>
  BY DEF deployVars, mintVars
<1>2. \A t : DeployOf(t)' = DeployOf(t) /\ MintsOf(t)' = MintsOf(t)
  BY <1>1 DEF DeployOf, MintsOf
<1>3. RegistryRecorded'
  BY <1>1, <1>2 DEF RegistryRecorded
<1>4. \A t \in DOMAIN collection_registry' :
         \E n, token, score, trail : MintsInOrder(t, n, token, score, trail)'
  <2> SUFFICES ASSUME NEW t \in DOMAIN collection_registry
               PROVE  \E n, token, score, trail : MintsInOrder(t, n, token, score, trail)'
    BY <1>1
  <2>1. PICK n, token, score, trail : MintsInOrder(t, n, token, score, trail)
    BY DEF MintsRecorded
  <2>2. MintsInOrder(t, n, token, score, trail)'
    BY <1>1, <1>2, <2>1 DEF MintsInOrder, Numbered
  <2>3. QED BY <2>2
<1>5. MintsRecorded'
  BY <1>1, <1>4 DEF MintsRecorded
<1>6. QED BY <1>3, <1>5

\* What numbering the mints of a collection says of it.
LEMMA OrderFacts ==
    ASSUME NEW t, NEW premint, NEW max, NEW since, NEW recorded, NEW mints, NEW a,
           NEW n, NEW token, NEW score, NEW trail, Supply(premint, max),
           Numbered(t, premint, max, since, recorded, mints, a, n, token, score, trail)
    PROVE  /\ premint \in Nat /\ n \in Nat /\ n - premint \in Nat /\ premint <= n /\ n <= max
           /\ trail[0] = NoRanges
           /\ \A i \in (premint + 1)..n : token[i] \in Drawable(premint, max)
<1>1. max \in Nat /\ premint \in 0..max
  BY DEF Supply
<1>2. /\ n \in premint..max
      /\ \A j \in 0..(n - premint) : InOrder(trail[j], Draws(token, premint, j), premint, max)
  BY DEF Numbered
<1>3. premint \in Nat /\ n \in Nat /\ n - premint \in Nat /\ premint <= n /\ n <= max
  BY <1>1, <1>2
<1>4. trail[0] = NoRanges
  <2>1. Draws(token, premint, 0) = <<>>
    BY DEF Draws
  <2>2. InOrder(trail[0], Draws(token, premint, 0), premint, max)
    BY <1>2, <1>3
  <2>3. QED BY <2>1, <2>2 DEF InOrder
<1>5. ASSUME NEW i \in (premint + 1)..n PROVE token[i] \in Drawable(premint, max)
  <2> DEFINE j == n - premint
             m == Draws(token, premint, j)
  <2>1. j \in Nat /\ j # 0 /\ i - premint \in 1..j /\ premint + (i - premint) = i /\ j \in 0..j
    BY <1>3
  <2>2. InOrder(trail[j], m, premint, max)
    BY <1>2, <2>1
  <2> HIDE DEF j
  <2>3. m[i - premint] = token[i] /\ DOMAIN m = 1..j
    BY <2>1 DEF Draws
  <2>4. m # <<>>
    BY <2>1, <2>3
  <2>5. m \in Seq(Drawable(premint, max))
    BY <2>2, <2>4 DEF InOrder, WellFormed
  <2>6. m[i - premint] \in Drawable(premint, max)
    <3> HIDE DEF m
    <3> QED BY <2>1, <2>3, <2>5
  <2>7. QED BY <2>3, <2>6
<1>6. QED BY <1>3, <1>4, <1>5

\* The rows of a premint.
PremintRows(t, premint, since) ==
    {[tick |-> t, seq |-> i, token |-> i, score |-> since] : i \in 1..premint}

\* The premint of a collection is numbered.
LEMMA NumberedPremint ==
    ASSUME NEW t, NEW premint, NEW max, NEW since, NEW recorded, Supply(premint, max),
           since \in recorded
    PROVE  \E token, score, trail :
              Numbered(t, premint, max, since, recorded, PremintRows(t, premint, since), NoRanges,
                       premint, token, score, trail)
<1> DEFINE token == [i \in 1..premint |-> i]
           score == [i \in 1..premint |-> since]
           trail == [j \in {0} |-> NoRanges]
           mints == PremintRows(t, premint, since)
<1>1. premint \in Nat /\ premint \in premint..max
  BY DEF Supply
<1>2. \A i \in 1..premint : token[i] = i /\ score[i] = since /\ i \in Nat \ {0}
  BY <1>1
<1>3. mints = {[tick |-> t, seq |-> i, token |-> token[i], score |-> score[i]] : i \in 1..premint}
  <2> HIDE DEF token, score
  <2> QED BY <1>2 DEF PremintRows
<1>4. InOrder(trail[0], Draws(token, premint, 0), premint, max)
  BY DEF Draws, InOrder
<1>5. trail[0] = NoRanges
  OBVIOUS
<1>6. /\ premint - premint = 0 /\ (premint + 1)..premint = {}
      /\ 0..(premint - premint) = {0} /\ 1..(premint - premint) = {}
  BY <1>1
<1> HIDE DEF token, score, trail, mints
<1>7. Numbered(t, premint, max, since, recorded, mints, NoRanges, premint, token, score, trail)
  BY <1>1, <1>2, <1>3, <1>4, <1>5, <1>6 DEF Numbered
<1>8. QED BY <1>7 DEF mints

\* A new collection has its premint, under its own number each, and no range.
LEMMA DeployMints ==
    ASSUME ChainInv, RegistryRecorded, MintsRecorded, NEW op \in Ops, Deploy(op)
    PROVE  RegistryRecorded' /\ MintsRecorded'
<1> DEFINE t == op.tick
           premint == op.premint
           max == op.max
           seqs == [i \in 1..premint |-> i]
           new == PremintRows(t, premint, Now)
<1>1. /\ Arrives(op, op.kind) /\ op.kind = "deploy" /\ Record(op, None, None)
      /\ t \notin DOMAIN collection_registry
  <2>1. DeployError(op) = None /\ Arrives(op, "deploy") /\ Record(op, None, None)
    BY DEF Deploy
  <2>2. None # "TickExists"
    BY LedgerAssumption DEF CtxValidationError
  <2>3. QED BY <2>1, <2>2 DEF DeployError, Registered, Arrives
<1>2. max \in Nat /\ premint \in 0..max /\ premint \in Nat /\ t \in Ticks
  BY <1>1, LedgerAssumption DEF Ticks
<1>3. /\ collection_registry' = Put(collection_registry, t, [score |-> Now, op |-> op])
      /\ collection_deployments' = collection_deployments \cup {[score |-> Now, tick |-> t]}
      /\ mint_history' = mint_history \cup MintRows(t, seqs)
      /\ ownership_changes' = ownership_changes \cup
             {[score |-> Now, tick |-> t, token |-> i, seq |-> seqs[i]] : i \in DOMAIN seqs}
      /\ alloc' = alloc
  BY DEF Deploy, SetOwner
<1>4. /\ DOMAIN operation_history' = DOMAIN operation_history \cup {Now}
      /\ \A s \in DOMAIN operation_history : s < Now
  BY <1>1, RecordFacts
<1>5. MintRows(t, seqs) = new
  <2>1. \A i \in DOMAIN seqs : seqs[i] = i
    OBVIOUS
  <2>2. DOMAIN seqs = 1..premint
    OBVIOUS
  <2> HIDE DEF seqs
  <2>3. QED BY <2>1, <2>2 DEF MintRows, PremintRows
<1>6. \A u \in DOMAIN collection_registry :
         u # t /\ DeployOf(u)' = DeployOf(u) /\ collection_registry'[u] = collection_registry[u]
  BY <1>1, <1>3 DEF DeployOf, Put
<1>7. DeployOf(t)' = op /\ collection_registry'[t].score = Now
  BY <1>3 DEF DeployOf, Put
<1>8. DOMAIN collection_registry' = DOMAIN collection_registry \cup {t}
  BY <1>3 DEF Put
<1>9. /\ \A u : u # t => MintsOf(u)' = MintsOf(u)
      /\ MintsOf(t)' = new
  <2>1. MintsOf(t) = {}
    BY <1>1 DEF MintsRecorded, MintsOf
  <2>2. mint_history' = mint_history \cup new
    BY <1>3, <1>5
  <2>3. \A m \in new : m.tick = t
    BY DEF PremintRows
  <2> HIDE DEF new, t
  <2>4. QED BY <2>1, <2>2, <2>3 DEF MintsOf
<1>10. RegistryRecorded'
  <2>1. \A u \in DOMAIN collection_registry' :
          /\ u \in Ticks
          /\ DeployOf(u)' \in Ops /\ DeployOf(u)'.kind = "deploy" /\ DeployOf(u)'.tick = u
          /\ collection_registry'[u].score \in DOMAIN operation_history'
    <3> SUFFICES ASSUME NEW u \in DOMAIN collection_registry'
                 PROVE  /\ u \in Ticks
                        /\ DeployOf(u)' \in Ops /\ DeployOf(u)'.kind = "deploy"
                        /\ DeployOf(u)'.tick = u
                        /\ collection_registry'[u].score \in DOMAIN operation_history'
      OBVIOUS
    <3>1. CASE u = t
      BY <1>1, <1>2, <1>4, <1>7, <3>1
    <3>2. CASE u \in DOMAIN collection_registry
      BY <1>4, <1>6, <3>2 DEF RegistryRecorded
    <3>3. QED BY <1>8, <3>1, <3>2
  <2>2. \A d \in collection_deployments' :
          /\ d.tick \in DOMAIN collection_registry'
          /\ d.score = collection_registry'[d.tick].score
    <3> SUFFICES ASSUME NEW d \in collection_deployments'
                 PROVE  /\ d.tick \in DOMAIN collection_registry'
                        /\ d.score = collection_registry'[d.tick].score
      OBVIOUS
    <3>1. CASE d = [score |-> Now, tick |-> t]
      BY <1>7, <1>8, <3>1
    <3>2. CASE d \in collection_deployments
      BY <1>6, <1>8, <3>2 DEF RegistryRecorded
    <3>3. QED BY <1>3, <3>1, <3>2
  <2>3. QED BY <2>1, <2>2 DEF RegistryRecorded
<1>11. ASSUME NEW u \in DOMAIN collection_registry'
       PROVE  \E n, token, score, trail : MintsInOrder(u, n, token, score, trail)'
  <2>1. CASE u = t
    <3>1. Supply(premint, max) /\ Now \in DOMAIN operation_history'
      BY <1>2, <1>4 DEF Supply
    <3>2. PICK token, score, trail :
             Numbered(t, premint, max, Now, DOMAIN operation_history', new, NoRanges,
                      premint, token, score, trail)
      BY <3>1, NumberedPremint
    <3>3. alloc'[t] = NoRanges
      BY <1>1, <1>2, <1>3 DEF MintsRecorded
    <3>4. DeployOf(t)'.premint = premint /\ DeployOf(t)'.max = max
      BY <1>7
    <3> HIDE DEF new, premint, max
    <3>5. MintsInOrder(t, premint, token, score, trail)'
      BY <1>7, <1>9, <3>2, <3>3, <3>4 DEF MintsInOrder
    <3>6. QED BY <2>1, <3>5
  <2>2. CASE u \in DOMAIN collection_registry
    <3>1. PICK n, token, score, trail : MintsInOrder(u, n, token, score, trail)
      BY <2>2 DEF MintsRecorded
    <3>2. u # t /\ DeployOf(u)' = DeployOf(u) /\ collection_registry'[u] = collection_registry[u]
      BY <1>6, <2>2
    <3>3. MintsOf(u)' = MintsOf(u) /\ alloc' = alloc
      BY <1>3, <1>9, <3>2
    <3>4. DOMAIN operation_history \subseteq DOMAIN operation_history'
      BY <1>4
    <3> HIDE DEF t
    <3>5. MintsInOrder(u, n, token, score, trail)'
      BY <3>1, <3>2, <3>3, <3>4 DEF MintsInOrder, Numbered
    <3>6. QED BY <3>5
  <2>3. QED BY <1>8, <2>1, <2>2
<1>12. MintsRecorded'
  <2>1. DOMAIN alloc' = Ticks /\ \A u \in Ticks \ DOMAIN collection_registry' : alloc'[u] = NoRanges
    BY <1>3, <1>8 DEF MintsRecorded
  <2>2. \A m \in new : m.tick = t
    BY DEF PremintRows
  <2>3. \A m \in mint_history' : m.tick \in DOMAIN collection_registry'
    <3> HIDE DEF new, t
    <3> QED BY <1>3, <1>5, <1>8, <2>2 DEF MintsRecorded
  <2>4. \A m \in mint_history' :
          [score |-> m.score, tick |-> m.tick, token |-> m.token, seq |-> m.seq] \in ownership_changes'
    <3>1. \A m \in new :
             [score |-> m.score, tick |-> m.tick, token |-> m.token, seq |-> m.seq] \in ownership_changes'
      <4> SUFFICES ASSUME NEW i \in 1..premint
                   PROVE  [score |-> Now, tick |-> t, token |-> i, seq |-> i] \in ownership_changes'
        BY DEF PremintRows
      <4>1. i \in DOMAIN seqs /\ seqs[i] = i
        OBVIOUS
      <4> HIDE DEF seqs, t
      <4>2. QED BY <1>3, <4>1
    <3> HIDE DEF new, t, seqs
    <3>2. QED BY <1>3, <1>5, <3>1 DEF MintsRecorded
  <2>5. QED BY <1>11, <2>1, <2>3, <2>4 DEF MintsRecorded
<1>13. QED BY <1>10, <1>12

\* None of the mints is of the token id.
Unminted(mints, id) == \A m \in mints : m.token # id

\* One more random mint is numbered after the others, and its id is new.
LEMMA NumberedMint ==
    ASSUME NEW t, NEW premint, NEW max, NEW since, NEW recorded \in SUBSET Nat, NEW mints, NEW a,
           NEW n, NEW token, NEW score, NEW trail, Supply(premint, max), since \in recorded,
           Numbered(t, premint, max, since, recorded, mints, a, n, token, score, trail),
           n + 1 <= max, NEW e \in Nat, NEW now \in Nat, \A s \in recorded : s < now,
           NEW id, NEW b, id = GenerateTokenId(a, e, max, premint).token,
           b = GenerateTokenId(a, e, max, premint).alloc
    PROVE  /\ \E token2, score2, trail2 :
                 Numbered(t, premint, max, since, recorded \cup {now},
                          mints \cup {[tick |-> t, seq |-> n + 1, token |-> id, score |-> now]},
                          b, n + 1, token2, score2, trail2)
           /\ id \in Drawable(premint, max)
           /\ Unminted(mints, id)
<1> DEFINE k == n - premint
           token2 == [i \in 1..(n + 1) |-> IF i = n + 1 THEN id ELSE token[i]]
           score2 == [i \in 1..(n + 1) |-> IF i = n + 1 THEN now ELSE score[i]]
           trail2 == [j \in 0..(k + 1) |-> IF j = k + 1 THEN b ELSE trail[j]]
           m == Draws(token, premint, k)
           new == [tick |-> t, seq |-> n + 1, token |-> id, score |-> now]
<1>1. /\ premint \in Nat /\ n \in Nat /\ k \in Nat /\ premint <= n /\ n <= max
      /\ \A i \in (premint + 1)..n : token[i] \in Drawable(premint, max)
  BY OrderFacts
<1>2. max \in Nat /\ n + 1 \in premint..max /\ premint + k = n /\ k \in 0..k
      /\ premint + (k + 1) = n + 1 /\ (n + 1) - premint = k + 1
  BY <1>1 DEF Supply
<1>3. /\ mints = {[tick |-> t, seq |-> i, token |-> token[i], score |-> score[i]] : i \in 1..n}
      /\ \A i \in 1..n : token[i] \in Nat \ {0} /\ score[i] \in recorded
      /\ \A i \in 1..premint : token[i] = i /\ score[i] = since
      /\ \A i \in (premint + 1)..n : score[i] > since
      /\ \A i, j \in (premint + 1)..n : i < j => score[i] < score[j]
      /\ \A i, j \in (premint + 1)..n : token[i] = token[j] => i = j
      /\ a = trail[k]
      /\ \A j \in 0..k : InOrder(trail[j], Draws(token, premint, j), premint, max)
      /\ \A j \in 1..k : RollbackTokenGeneration(trail[j], token[premint + j]) = trail[j - 1]
  BY DEF Numbered
<1>4. DOMAIN m = 1..k /\ Len(m) = k /\ \A i \in 1..k : m[i] = token[premint + i] /\ premint + i \in (premint + 1)..n
  BY <1>1 DEF Draws
<1>5. /\ id \in Drawable(premint, max) /\ id \notin Ids(m)
      /\ WellFormed(b, Append(m, id), premint, max)
      /\ RollbackTokenGeneration(b, id) = a
  <2>1. InOrder(a, m, premint, max)
    BY <1>2, <1>3
  <2>2. premint + Len(m) + 1 <= max
    BY <1>2, <1>4
  <2> HIDE DEF m, k
  <2>3. QED BY <2>1, <2>2, GenerateStep
<1>6. id \in Nat \ {0} /\ id > premint
  BY <1>1, <1>2, <1>5 DEF Drawable
<1>7. /\ \A i \in 1..n : token2[i] = token[i] /\ score2[i] = score[i]
      /\ token2[n + 1] = id /\ score2[n + 1] = now
      /\ \A j \in 0..k : trail2[j] = trail[j]
      /\ trail2[k + 1] = b
  BY <1>1
<1>8. \A j \in 0..k : Draws(token2, premint, j) = Draws(token, premint, j)
  <2> SUFFICES ASSUME NEW j \in 0..k PROVE Draws(token2, premint, j) = Draws(token, premint, j)
    OBVIOUS
  <2>1. \A i \in 1..j : premint + i \in 1..n
    BY <1>1
  <2> HIDE DEF token2, k
  <2>2. \A i \in 1..j : token2[premint + i] = token[premint + i]
    BY <1>7, <2>1
  <2>3. QED BY <2>2 DEF Draws
<1>9. Draws(token2, premint, k + 1) = Append(m, id)
  <2>1. /\ \A i \in 1..k : premint + i \in 1..n
        /\ 1..(k + 1) = 1..k \cup {k + 1}
    BY <1>1
  <2> DEFINE d == Draws(token2, premint, k + 1)
  <2>2. \A i \in 1..k : token2[premint + i] = m[i]
    <3> HIDE DEF token2, m, k
    <3> QED BY <1>4, <1>7, <2>1
  <2>3. DOMAIN d = 1..(k + 1) /\ \A i \in 1..(k + 1) : d[i] = token2[premint + i]
    BY DEF Draws
  <2>3a. d = [i \in 1..(k + 1) |-> token2[premint + i]]
    BY DEF Draws
  <2>4. m \in Seq({id} \cup {m[i] : i \in 1..k})
    <3>1. m = [i \in 1..k |-> m[i]]
      BY <1>1 DEF Draws
    <3> HIDE DEF m, k
    <3>2. QED BY <1>1, <3>1
  <2>5. /\ DOMAIN Append(m, id) = 1..(k + 1)
        /\ Append(m, id)[k + 1] = id /\ \A i \in 1..k : Append(m, id)[i] = m[i]
        /\ Append(m, id) = [i \in 1..(k + 1) |-> Append(m, id)[i]]
    <3> HIDE DEF m, k
    <3> QED BY <1>4, <2>4
  <2>6. \A i \in 1..(k + 1) : token2[premint + i] = Append(m, id)[i]
    <3>1. token2[premint + (k + 1)] = id
      <4> HIDE DEF token2, k
      <4> QED BY <1>2, <1>7
    <3> HIDE DEF token2, m, k
    <3>2. QED BY <2>1, <2>2, <2>5, <3>1
  <2>7. QED
    <3> HIDE DEF token2, m, k, d
    <3> QED BY <2>3a, <2>5, <2>6 DEF d
<1>10. \A i \in 1..(n + 1) : i \in 1..n \/ i = n + 1
  BY <1>1
<1>11. mints \cup {new} =
          {[tick |-> t, seq |-> i, token |-> token2[i], score |-> score2[i]] : i \in 1..(n + 1)}
  <2>1. \A i \in 1..n : i \in 1..(n + 1)
    BY <1>1
  <2>2. n + 1 \in 1..(n + 1)
    BY <1>1
  <2> HIDE DEF token2, score2
  <2>3. QED BY <1>3, <1>7, <1>10, <2>1, <2>2
<1>12. \A i \in 1..(n + 1) : token2[i] \in Nat \ {0} /\ score2[i] \in recorded \cup {now}
  <2> HIDE DEF token2, score2
  <2> QED BY <1>3, <1>6, <1>7, <1>10
<1>13. \A i \in 1..premint : token2[i] = i /\ score2[i] = since
  <2>1. \A i \in 1..premint : i \in 1..n
    BY <1>1
  <2> HIDE DEF token2, score2
  <2>2. QED BY <1>3, <1>7, <2>1
<1>14. \A i \in (premint + 1)..(n + 1) :
          \/ i = n + 1
          \/ i \in (premint + 1)..n /\ i \in 1..n /\ i < n + 1
  BY <1>1
<1>15. \A i \in (premint + 1)..n : i \in 1..n
  BY <1>1
<1>16. \A i \in (premint + 1)..(n + 1) : score2[i] > since
  <2> HIDE DEF score2
  <2> QED BY <1>3, <1>7, <1>14
<1>17. \A i, j \in (premint + 1)..(n + 1) : i < j => score2[i] < score2[j]
  <2> SUFFICES ASSUME NEW i \in (premint + 1)..(n + 1), NEW j \in (premint + 1)..(n + 1), i < j
               PROVE  score2[i] < score2[j]
    OBVIOUS
  <2>0. i \in (premint + 1)..n
    BY <1>1
  <2> HIDE DEF score2
  <2>1. CASE j = n + 1
    BY <1>3, <1>7, <1>15, <2>0, <2>1
  <2>2. CASE j \in (premint + 1)..n
    BY <1>3, <1>7, <1>15, <2>0, <2>2
  <2>3. QED BY <1>14, <2>1, <2>2
<1>18. \A i \in (premint + 1)..n : token[i] # id
  <2> SUFFICES ASSUME NEW i \in (premint + 1)..n PROVE token[i] # id
    OBVIOUS
  <2>1. i - premint \in 1..k /\ premint + (i - premint) = i
    BY <1>1
  <2>2. m[i - premint] = token[i]
    <3> HIDE DEF m, k
    <3> QED BY <1>4, <2>1
  <2>3. m[i - premint] \in Ids(m)
    <3> HIDE DEF m, k
    <3> QED BY <1>4, <2>1 DEF Ids
  <2>4. QED BY <1>5, <2>2, <2>3
<1>19. \A i, j \in (premint + 1)..(n + 1) : token2[i] = token2[j] => i = j
  <2> SUFFICES ASSUME NEW i \in (premint + 1)..(n + 1), NEW j \in (premint + 1)..(n + 1),
                      token2[i] = token2[j]
               PROVE  i = j
    OBVIOUS
  <2> HIDE DEF token2
  <2>1. CASE i = n + 1 /\ j = n + 1
    BY <2>1
  <2>2. CASE i = n + 1 /\ j \in (premint + 1)..n
    BY <1>7, <1>15, <1>18, <2>2
  <2>3. CASE i \in (premint + 1)..n /\ j = n + 1
    BY <1>7, <1>15, <1>18, <2>3
  <2>4. CASE i \in (premint + 1)..n /\ j \in (premint + 1)..n
    <3>1. token2[i] = token[i] /\ token2[j] = token[j]
      BY <1>7, <1>15, <2>4
    <3>2. QED BY <1>3, <2>4, <3>1
  <2>5. QED BY <1>14, <2>1, <2>2, <2>3, <2>4
<1>20. b = trail2[(n + 1) - premint]
  <2> HIDE DEF trail2, k
  <2> QED BY <1>2, <1>7
<1>21. \A j \in 0..((n + 1) - premint) : InOrder(trail2[j], Draws(token2, premint, j), premint, max)
  <2> SUFFICES ASSUME NEW j \in 0..(k + 1)
               PROVE  InOrder(trail2[j], Draws(token2, premint, j), premint, max)
    BY <1>2
  <2>1. j \in 0..k \/ j = k + 1
    BY <1>1
  <2>2. Append(m, id) # <<>>
    <3> HIDE DEF m
    <3> QED BY <1>4, <1>9 DEF Draws
  <2>3. InOrder(b, Append(m, id), premint, max)
    <3> HIDE DEF m
    <3> QED BY <1>5, <2>2 DEF InOrder
  <2> HIDE DEF trail2, token2, m, k
  <2>4. QED BY <1>3, <1>7, <1>8, <1>9, <2>1, <2>3
<1>22. \A j \in 1..((n + 1) - premint) :
          RollbackTokenGeneration(trail2[j], token2[premint + j]) = trail2[j - 1]
  <2> SUFFICES ASSUME NEW j \in 1..(k + 1)
               PROVE  RollbackTokenGeneration(trail2[j], token2[premint + j]) = trail2[j - 1]
    BY <1>2
  <2>1. \/ j = k + 1 /\ premint + j = n + 1 /\ j - 1 = k
        \/ j \in 1..k /\ j \in 0..k /\ j - 1 \in 0..k /\ premint + j \in 1..n
    BY <1>1
  <2> HIDE DEF trail2, token2, k
  <2>2. k \in 0..k /\ trail[k] = a
    BY <1>2, <1>3
  <2>3. \A i \in 1..k : RollbackTokenGeneration(trail[i], token[premint + i]) = trail[i - 1]
    BY <1>3
  <2>4. CASE j = k + 1 /\ premint + j = n + 1 /\ j - 1 = k
    BY <1>5, <1>7, <2>2, <2>4
  <2>5. CASE j \in 1..k /\ j \in 0..k /\ j - 1 \in 0..k /\ premint + j \in 1..n
    BY <1>7, <2>3, <2>5
  <2>6. QED BY <2>1, <2>4, <2>5
<1>23. \A x \in mints : x.token # id
  <2> SUFFICES ASSUME NEW i \in 1..n PROVE token[i] # id
    BY <1>3
  <2>1. i \in 1..premint \/ i \in (premint + 1)..n
    BY <1>1
  <2>2. QED BY <1>1, <1>3, <1>6, <1>18, <2>1
<1>24. Numbered(t, premint, max, since, recorded \cup {now}, mints \cup {new}, b, n + 1, token2, score2, trail2)
  <2> HIDE DEF token2, score2, trail2, new, k, m
  <2> QED BY <1>2, <1>11, <1>12, <1>13, <1>16, <1>17, <1>19, <1>20, <1>21, <1>22 DEF Numbered, new
<1>25. QED
  <2> HIDE DEF token2, score2, trail2
  <2> QED BY <1>5, <1>23, <1>24 DEF Unminted

\* last_minted_token_seq_no_wtx is the number of the last mint.
LEMMA LastSeqIs ==
    ASSUME NEW t, NEW n \in Nat, \A m \in MintsOf(t) : m.seq \in 1..n,
           \A i \in 1..n : \E m \in MintsOf(t) : m.seq = i
    PROVE  LastSeq(t) = n
<1> DEFINE T == {0} \cup {m.seq : m \in {x \in mint_history : x.tick = t}}
<1>1. T = 0..n
  <2>1. ASSUME NEW y
        PROVE  y \in T <=> y \in 0..n
    <3>1. y \in T <=> y = 0 \/ \E m \in MintsOf(t) : m.seq = y
      BY DEF MintsOf
    <3>2. y \in 0..n <=> y = 0 \/ y \in 1..n
      OBVIOUS
    <3> HIDE DEF T
    <3>3. QED BY <3>1, <3>2
  <2> HIDE DEF T
  <2>2. QED BY <2>1
<1>2. Max(T) \in T /\ \A y \in T : y <= Max(T)
  <2> HIDE DEF T
  <2>1. T \in SUBSET Nat /\ T # {} /\ \A x \in T : x <= n
    BY <1>1
  <2>2. QED BY <2>1, MaxIsGreatest
<1>3. Max(T) = n
  <2> HIDE DEF T
  <2> QED BY <1>1, <1>2
<1>4. QED BY <1>3 DEF LastSeq

\* What process_mint does to a collection of n mints: it always draws.
LEMMA MintFacts ==
    ASSUME ChainInv, RegistryRecorded, MintsRecorded, NEW op \in Ops, Mint(op),
           NEW n, NEW token, NEW score, NEW trail, MintsInOrder(op.tick, n, token, score, trail)
    PROVE  \E e, id, b :
              /\ e \in Nat
              /\ id = GenerateTokenId(alloc[op.tick], e, DeployOf(op.tick).max,
                                      DeployOf(op.tick).premint).token
              /\ b = GenerateTokenId(alloc[op.tick], e, DeployOf(op.tick).max,
                                     DeployOf(op.tick).premint).alloc
              /\ n + 1 <= DeployOf(op.tick).max
              /\ alloc' = [alloc EXCEPT ![op.tick] = b]
              /\ mint_history' = mint_history \cup
                     {[tick |-> op.tick, seq |-> n + 1, token |-> id, score |-> Now]}
              /\ SetOwner(op.tick, [x \in {id} |-> n + 1], {}, op.to)
              /\ Record(op, id, None)
<1> DEFINE t == op.tick
           deploy == DeployOf(t)
           e == Entropy[Tip.hash]
           g == GenerateTokenId(alloc[t], e, deploy.max, deploy.premint)
           seq == LastSeq(t) + 1
           random == ~ (LastSeq(t) < deploy.premint) /\ deploy.premint < deploy.max
           id == IF random THEN g.token ELSE seq
<1>1. /\ Arrives(op, "mint") /\ MintError(op) = None
      /\ alloc' = IF random THEN [alloc EXCEPT ![t] = g.alloc] ELSE alloc
      /\ mint_history' = mint_history \cup MintRows(t, [x \in {id} |-> seq])
      /\ SetOwner(t, [x \in {id} |-> seq], {}, op.to)
      /\ Record(op, id, None)
  BY DEF Mint
<1>2. t \in DOMAIN collection_registry
  BY <1>1, LedgerAssumption DEF MintError, Registered, CtxValidationError
<1>3. Supply(deploy.premint, deploy.max)
  BY <1>2, LedgerAssumption DEF RegistryRecorded, Supply
<1>4. /\ deploy.premint \in Nat /\ n \in Nat /\ deploy.premint <= n
      /\ MintsOf(t) = {[tick |-> t, seq |-> i, token |-> token[i], score |-> score[i]] : i \in 1..n}
  <2>1. Numbered(t, deploy.premint, deploy.max, collection_registry[t].score,
                 DOMAIN operation_history, MintsOf(t), alloc[t], n, token, score, trail)
    BY DEF MintsInOrder
  <2> HIDE DEF deploy, t
  <2>2. deploy.premint \in Nat /\ n \in Nat /\ deploy.premint <= n
    BY <1>3, <2>1, OrderFacts
  <2>3. QED BY <2>1, <2>2 DEF Numbered
<1>5. LastSeq(t) = n
  <2> HIDE DEF t
  <2>1. n \in Nat /\ \A m \in MintsOf(t) : m.seq \in 1..n
    BY <1>4
  <2>2. ASSUME NEW i \in 1..n
        PROVE  \E m \in MintsOf(t) : m.seq = i
    <3>1. [tick |-> t, seq |-> i, token |-> token[i], score |-> score[i]] \in MintsOf(t)
      BY <1>4
    <3>2. QED BY <3>1
  <2>3. QED BY <2>1, <2>2, LastSeqIs
<1>6. ~ (n + 1 > deploy.max)
  <2>1. "MintingFinished" # None /\ "MintingNotStarted" # None
    BY LedgerAssumption DEF CtxValidationError
  <2> DEFINE royaltyError == IF LastSeq(t) < deploy.premint THEN None ELSE RoyaltyError(op, deploy)
  <2>2. MintError(op) =
          IF Daa[Tip.hash] < deploy.mint_start_daa THEN "MintingNotStarted"
          ELSE IF deploy.max = 0 THEN "MintingFinished"
          ELSE IF royaltyError # None THEN royaltyError
          ELSE IF LastSeq(t) + 1 > deploy.max THEN "MintingFinished" ELSE None
    BY <1>2 DEF MintError, Registered
  <2> HIDE DEF royaltyError, deploy, t
  <2>3. QED BY <1>1, <1>5, <2>1, <2>2
<1>7. deploy.max \in Nat
  BY <1>3 DEF Supply
<1>8. random /\ n + 1 <= deploy.max
  <2> HIDE DEF deploy, t
  <2> QED BY <1>4, <1>5, <1>6, <1>7
<1>9. e \in Nat
  <2>1. chain_block_scores # {}
    BY <1>1 DEF Arrives, ChainInv, BlocksOK
  <2>2. \E b \in chain_block_scores : b.blue = LastBlue
    BY <2>1, LastBlueIs DEF ChainInv
  <2>3. Tip \in chain_block_scores
    BY <2>2 DEF Tip
  <2>4. QED BY <2>3, LedgerAssumption DEF ChainInv, BlocksOK
<1>10. id = g.token /\ seq = n + 1 /\ alloc' = [alloc EXCEPT ![t] = g.alloc]
  <2> HIDE DEF g
  <2> QED BY <1>1, <1>5, <1>8
<1>11. MintRows(t, [x \in {id} |-> n + 1]) = {[tick |-> t, seq |-> n + 1, token |-> id, score |-> Now]}
  <2> HIDE DEF id
  <2> QED BY DEF MintRows
<1>12. QED
  <2>1. mint_history' = mint_history \cup {[tick |-> t, seq |-> n + 1, token |-> id, score |-> Now]}
    BY <1>1, <1>10, <1>11
  <2>2. SetOwner(t, [x \in {id} |-> n + 1], {}, op.to)
    BY <1>1, <1>10
  <2>3. g.token = id /\ Record(op, id, None)
    BY <1>1, <1>10
  <2> HIDE DEF id, random
  <2>4. QED BY <1>8, <1>9, <1>10, <2>1, <2>2, <2>3

\* A mint appends to its collection and leaves the others alone.
LEMMA MintMints ==
    ASSUME ChainInv, RegistryRecorded, MintsRecorded, NEW op \in Ops, Mint(op)
    PROVE  RegistryRecorded' /\ MintsRecorded'
<1> DEFINE t == op.tick
<1>1. t \in DOMAIN collection_registry /\ Arrives(op, op.kind)
  <2>1. MintError(op) = None /\ Arrives(op, op.kind)
    BY DEF Mint, Arrives
  <2>2. QED BY <2>1, LedgerAssumption DEF MintError, Registered, CtxValidationError
<1>2. PICK n, token, score, trail : MintsInOrder(t, n, token, score, trail)
  BY <1>1 DEF MintsRecorded
<1>3. PICK e, id, b :
         /\ e \in Nat
         /\ id = GenerateTokenId(alloc[t], e, DeployOf(t).max, DeployOf(t).premint).token
         /\ b = GenerateTokenId(alloc[t], e, DeployOf(t).max, DeployOf(t).premint).alloc
         /\ n + 1 <= DeployOf(t).max
         /\ alloc' = [alloc EXCEPT ![t] = b]
         /\ mint_history' = mint_history \cup {[tick |-> t, seq |-> n + 1, token |-> id, score |-> Now]}
         /\ SetOwner(t, [x \in {id} |-> n + 1], {}, op.to)
         /\ Record(op, id, None)
  BY <1>2, MintFacts
<1> DEFINE new == [tick |-> t, seq |-> n + 1, token |-> id, score |-> Now]
<1>4. UNCHANGED <<collection_registry, collection_deployments>>
  BY DEF Mint, deployVars
<1>5. /\ DOMAIN operation_history' = DOMAIN operation_history \cup {Now} /\ Now \in Nat
      /\ \A s \in DOMAIN operation_history : s \in Nat /\ s < Now
  BY <1>1, <1>3, RecordFacts
<1>6. \A u : DeployOf(u)' = DeployOf(u)
  BY <1>4 DEF DeployOf
<1>7. /\ \A u : u # t => MintsOf(u)' = MintsOf(u)
      /\ MintsOf(t)' = MintsOf(t) \cup {new}
  <2>1. mint_history' = mint_history \cup {new} /\ new.tick = t
    BY <1>3
  <2> HIDE DEF new, t
  <2>2. QED BY <2>1 DEF MintsOf
<1>8. RegistryRecorded'
  BY <1>4, <1>5, <1>6 DEF RegistryRecorded
<1>9. t \in Ticks /\ DOMAIN alloc = Ticks
  BY <1>1 DEF RegistryRecorded, MintsRecorded
<1>10. alloc'[t] = b /\ DOMAIN alloc' = Ticks /\ \A u \in Ticks : u # t => alloc'[u] = alloc[u]
  BY <1>3, <1>9
<1>11. \E n2, token2, score2, trail2 : MintsInOrder(t, n2, token2, score2, trail2)'
  <2> DEFINE premint == DeployOf(t).premint
             max == DeployOf(t).max
             since == collection_registry[t].score
             recorded == DOMAIN operation_history
             mints == MintsOf(t)
             a == alloc[t]
             now == Now
  <2>1. Supply(premint, max) /\ since \in recorded
    BY <1>1, LedgerAssumption DEF RegistryRecorded, Supply
  <2>2. Numbered(t, premint, max, since, recorded, mints, a, n, token, score, trail)
    BY <1>2 DEF MintsInOrder
  <2>3. n + 1 <= max /\ id = GenerateTokenId(a, e, max, premint).token
        /\ b = GenerateTokenId(a, e, max, premint).alloc
    BY <1>3
  <2>4. recorded \in SUBSET Nat /\ \A s \in recorded : s < now
    BY <1>5
  <2>5. PICK token2, score2, trail2 :
           Numbered(t, premint, max, since, recorded \cup {now},
                    mints \cup {[tick |-> t, seq |-> n + 1, token |-> id, score |-> now]},
                    b, n + 1, token2, score2, trail2)
    <3> HIDE DEF premint, max, since, recorded, mints, a, now, t
    <3>1. now \in Nat /\ e \in Nat
      BY <1>3, <1>5 DEF now
    <3>2. QED BY <2>1, <2>2, <2>3, <2>4, <3>1, NumberedMint
  <2>6. MintsInOrder(t, n + 1, token2, score2, trail2)'
    BY <1>4, <1>5, <1>6, <1>7, <1>10, <2>5 DEF MintsInOrder
  <2>7. QED BY <2>6
<1>12. ASSUME NEW u \in DOMAIN collection_registry'
       PROVE  \E n2, token2, score2, trail2 : MintsInOrder(u, n2, token2, score2, trail2)'
  <2>1. CASE u = t
    BY <1>11, <2>1
  <2>2. CASE u # t
    <3>1. u \in DOMAIN collection_registry /\ u \in Ticks
      BY <1>4 DEF RegistryRecorded
    <3>2. PICK n2, token2, score2, trail2 : MintsInOrder(u, n2, token2, score2, trail2)
      BY <3>1 DEF MintsRecorded
    <3>3. MintsOf(u)' = MintsOf(u) /\ alloc'[u] = alloc[u]
      BY <1>7, <1>10, <2>2, <3>1
    <3> HIDE DEF t
    <3>4. MintsInOrder(u, n2, token2, score2, trail2)'
      BY <1>4, <1>5, <1>6, <3>2, <3>3 DEF MintsInOrder, Numbered
    <3>5. QED BY <3>4
  <2>3. QED BY <2>1, <2>2
<1>13. MintsRecorded'
  <2>1. \A m \in mint_history' : m.tick \in DOMAIN collection_registry'
    <3>1. new.tick = t
      OBVIOUS
    <3> HIDE DEF new
    <3>2. QED BY <1>1, <1>3, <1>4, <3>1 DEF MintsRecorded, new
  <2>2. \A u \in Ticks \ DOMAIN collection_registry' : alloc'[u] = NoRanges
    BY <1>1, <1>4, <1>10 DEF MintsRecorded
  <2>3. [score |-> Now, tick |-> t, token |-> id, seq |-> n + 1] \in ownership_changes'
        /\ ownership_changes \subseteq ownership_changes'
    BY <1>3 DEF SetOwner
  <2>4. \A m \in mint_history' :
          [score |-> m.score, tick |-> m.tick, token |-> m.token, seq |-> m.seq] \in ownership_changes'
    <3> SUFFICES ASSUME NEW m \in mint_history'
                 PROVE  [score |-> m.score, tick |-> m.tick, token |-> m.token, seq |-> m.seq]
                            \in ownership_changes'
      OBVIOUS
    <3>1. CASE m = new
      <4>1. m.score = Now /\ m.tick = t /\ m.token = id /\ m.seq = n + 1
        BY <3>1
      <4> HIDE DEF new, t
      <4>2. QED BY <2>3, <4>1
    <3>2. CASE m \in mint_history
      BY <2>3, <3>2 DEF MintsRecorded
    <3>3. QED BY <1>3, <3>1, <3>2
  <2>5. QED BY <1>10, <1>12, <2>1, <2>2, <2>4 DEF MintsRecorded
<1>14. QED BY <1>8, <1>13

\* The random mints among 1..n have increasing scores.
Rising(premint, n, score) ==
    /\ \A i \in (premint + 1)..n : score[i] \in Nat
    /\ \A i, j \in (premint + 1)..n : i < j => score[i] < score[j]

\* Of these, those up to p are below the threshold.
CutAt(p, premint, n, score, threshold) ==
    /\ p \in premint..n
    /\ \A i \in (premint + 1)..n : score[i] < threshold <=> i <= p

\* Scores increase along the random mints: those below a threshold come first.
LEMMA CutExists ==
    ASSUME NEW premint \in Nat, NEW n \in Nat, premint <= n, NEW score, NEW threshold \in Nat,
           Rising(premint, n, score)
    PROVE  \E p : CutAt(p, premint, n, score, threshold)
<1>0. /\ \A i \in (premint + 1)..n : score[i] \in Nat
      /\ \A i, j \in (premint + 1)..n : i < j => score[i] < score[j]
  BY DEF Rising
<1> DEFINE T == {premint} \cup {i \in (premint + 1)..n : score[i] < threshold}
<1>1. T \in SUBSET Nat /\ T # {} /\ \A x \in T : x <= n
  OBVIOUS
<1>2. PICK p \in T : \A x \in T : x <= p
  <2> HIDE DEF T
  <2> QED BY <1>1, MaxIsGreatest
<1>3. p \in premint..n
  BY <1>2
<1>4. ASSUME NEW i \in (premint + 1)..n
      PROVE  score[i] < threshold <=> i <= p
  <2>1. ASSUME score[i] < threshold PROVE i <= p
    BY <1>2, <2>1
  <2>2. ASSUME i <= p PROVE score[i] < threshold
    <3>1. p \in (premint + 1)..n /\ score[p] < threshold
      BY <1>2, <2>2
    <3>2. i = p \/ score[i] < score[p]
      BY <1>0, <2>2, <3>1
    <3>3. QED BY <1>0, <3>1, <3>2
  <2>3. QED BY <2>1, <2>2
<1>5. QED BY <1>3, <1>4 DEF CutAt

\* What a threshold leaves of the recorded scores and of the mints, and the random
\* mints it removes.
Cut(threshold, premint, recorded, mints, left, kept, drawn) ==
    /\ left = {s \in recorded : s < threshold}
    /\ \A m : m \in kept <=> m \in mints /\ m.score < threshold
    /\ \A m : m \in drawn <=> m \in mints /\ m.score >= threshold /\ m.token > premint

\* The draws that a threshold removes lead back to the allocator of those it leaves.
LEMMA DrawsRetraced ==
    ASSUME NEW t, NEW premint, NEW max, NEW since, NEW recorded \in SUBSET Nat, NEW mints, NEW a,
           NEW n, NEW token, NEW score, NEW trail, Supply(premint, max), since \in recorded,
           Numbered(t, premint, max, since, recorded, mints, a, n, token, score, trail),
           NEW threshold \in Nat, NEW left, NEW kept, NEW drawn,
           Cut(threshold, premint, recorded, mints, left, kept, drawn)
    PROVE  \E p : /\ CutAt(p, premint, n, score, threshold)
                 /\ \E row, trail2 : Retraced(n - p, row, trail2, a, drawn)
                                     /\ trail2[0] = trail[p - premint]
<1>0. \A m : m \in drawn <=> m \in mints /\ m.score >= threshold /\ m.token > premint
  BY DEF Cut
<1> DEFINE row(i) == [tick |-> t, seq |-> i, token |-> token[i], score |-> score[i]]
<1>1. /\ premint \in Nat /\ n \in Nat /\ n - premint \in Nat /\ premint <= n /\ n <= max
      /\ trail[0] = NoRanges
      /\ \A i \in (premint + 1)..n : token[i] \in Drawable(premint, max)
  BY OrderFacts
<1>2. /\ mints = {row(i) : i \in 1..n}
      /\ \A i \in 1..n : token[i] \in Nat \ {0} /\ score[i] \in recorded
      /\ \A i \in 1..premint : token[i] = i /\ score[i] = since
      /\ \A i \in (premint + 1)..n : score[i] > since
      /\ \A i, j \in (premint + 1)..n : i < j => score[i] < score[j]
      /\ \A i, j \in (premint + 1)..n : token[i] = token[j] => i = j
      /\ a = trail[n - premint]
      /\ \A j \in 0..(n - premint) : InOrder(trail[j], Draws(token, premint, j), premint, max)
      /\ \A j \in 1..(n - premint) :
            RollbackTokenGeneration(trail[j], token[premint + j]) = trail[j - 1]
  BY DEF Numbered
<1>3. \A i \in 1..n : row(i).seq = i /\ row(i).token = token[i] /\ row(i).score = score[i]
  OBVIOUS
<1>4. /\ \A i \in 1..n : i \in 1..premint \/ i \in (premint + 1)..n
      /\ \A i \in (premint + 1)..n : i \in 1..n /\ token[i] > premint
      /\ \A i \in 1..premint : i \in 1..n /\ ~ (token[i] > premint)
  <2>1. \A i \in (premint + 1)..n : token[i] > premint
    BY <1>1 DEF Drawable
  <2>2. QED BY <1>1, <1>2, <2>1
<1>5. \A i \in 1..n : score[i] \in Nat /\ since \in Nat
  BY <1>2
<1> HIDE DEF row
<1>6a. PICK p : CutAt(p, premint, n, score, threshold)
  <2>1. \A i \in (premint + 1)..n : score[i] \in Nat
    BY <1>4, <1>5
  <2>2. \A i, j \in (premint + 1)..n : i < j => score[i] < score[j]
    BY <1>2
  <2>3. Rising(premint, n, score)
    BY <2>1, <2>2 DEF Rising
  <2>4. QED BY <1>1, <2>3, CutExists
<1>6. p \in premint..n /\ \A i \in (premint + 1)..n : score[i] < threshold <=> i <= p
  BY <1>6a DEF CutAt
<1> DEFINE k == n - p
           row2 == [i \in 1..k |-> row(p + i)]
           trail2 == [i \in 0..k |-> trail[(p - premint) + i]]
<1>7. /\ p \in Nat /\ k \in Nat /\ p - premint \in Nat
      /\ \A i \in 1..k : p + i \in (premint + 1)..n /\ p + i \in 1..n /\ ~ (p + i <= p)
      /\ \A i \in (premint + 1)..n : ~ (i <= p) => i - p \in 1..k /\ p + (i - p) = i
  BY <1>1, <1>6
<1>8. drawn = {row2[i] : i \in 1..k}
  <2>1. ASSUME NEW m \in drawn PROVE m \in {row2[i] : i \in 1..k}
    <3>1. PICK i \in 1..n : m = row(i)
      BY <1>0, <1>2, <2>1
    <3>2. score[i] >= threshold /\ token[i] > premint
      BY <1>0, <1>3, <2>1, <3>1
    <3>3. i \in (premint + 1)..n
      BY <1>4, <3>2
    <3>4. ~ (i <= p)
      BY <1>5, <1>6, <3>2, <3>3
    <3>5. i - p \in 1..k /\ p + (i - p) = i
      BY <1>7, <3>3, <3>4
    <3>6. row2[i - p] = m
      BY <3>1, <3>5
    <3> HIDE DEF row2, k
    <3>7. QED BY <3>5, <3>6
  <2>2. ASSUME NEW i \in 1..k PROVE row2[i] \in drawn
    <3>1. row2[i] = row(p + i) /\ p + i \in (premint + 1)..n /\ p + i \in 1..n /\ ~ (p + i <= p)
      BY <1>7
    <3> HIDE DEF row2, k
    <3>2. score[p + i] >= threshold /\ token[p + i] > premint
      BY <1>4, <1>5, <1>6, <3>1
    <3>3. QED BY <1>0, <1>2, <1>3, <3>1, <3>2
  <2> HIDE DEF row2, k
  <2>3. QED BY <2>1, <2>2
<1>9. Retraced(k, row2, trail2, a, drawn) /\ trail2[0] = trail[p - premint]
  <2>1. \A i \in 1..k : row2[i] = row(p + i)
    OBVIOUS
  <2>2. \A i \in 0..k : trail2[i] = trail[(p - premint) + i]
    OBVIOUS
  <2>3. \A i \in 1..k : row2[i].score = score[p + i] /\ row2[i].token = token[p + i]
    <3> HIDE DEF row2, k
    <3> QED BY <1>3, <1>7, <2>1
  <2>4. \A i \in 1..k : row2[i].score \in Nat
    <3> HIDE DEF row2, k
    <3> QED BY <1>5, <1>7, <2>3
  <2>5. \A h, i \in 1..k : h < i => row2[h].score < row2[i].score
    <3> SUFFICES ASSUME NEW h \in 1..k, NEW i \in 1..k, h < i
                 PROVE  row2[h].score < row2[i].score
      OBVIOUS
    <3>1. p + h < p + i
      BY <1>7
    <3> HIDE DEF row2, k
    <3>2. QED BY <1>2, <1>7, <2>3, <3>1
  <2>6. \A i \in 1..k : RollbackTokenGeneration(trail2[i], row2[i].token) = trail2[i - 1]
    <3> SUFFICES ASSUME NEW i \in 1..k
                 PROVE  RollbackTokenGeneration(trail2[i], row2[i].token) = trail2[i - 1]
      OBVIOUS
    <3> DEFINE j == (p - premint) + i
    <3>1. j \in 1..(n - premint) /\ premint + j = p + i /\ (p - premint) + (i - 1) = j - 1
          /\ i \in 0..k /\ i - 1 \in 0..k
      BY <1>1, <1>7
    <3> HIDE DEF row2, trail2, k
    <3>2. trail2[i] = trail[j] /\ trail2[i - 1] = trail[j - 1] /\ row2[i].token = token[premint + j]
      BY <2>2, <2>3, <3>1
    <3> HIDE DEF j
    <3>3. QED BY <1>2, <3>1, <3>2
  <2>7. trail2[k] = a /\ trail2[0] = trail[p - premint]
    <3>1. (p - premint) + k = n - premint /\ (p - premint) + 0 = p - premint /\ k \in 0..k /\ 0 \in 0..k
      BY <1>1, <1>7
    <3> HIDE DEF trail2, k
    <3>2. QED BY <1>2, <2>2, <3>1
  <2> HIDE DEF row2, trail2, k
  <2>8. QED BY <1>8, <2>4, <2>5, <2>6, <2>7 DEF Retraced
<1> HIDE DEF row2, trail2
<1>10. QED BY <1>6a, <1>9 DEF k

\* Taking back the mints of a collection from a score on: those before keep
\* their numbers, and their allocator; a collection deployed at or after it has
\* neither.
LEMMA NumberedUndone ==
    ASSUME NEW t, NEW premint, NEW max, NEW since, NEW recorded \in SUBSET Nat, NEW mints, NEW a,
           NEW n, NEW token, NEW score, NEW trail, Supply(premint, max), since \in recorded,
           Numbered(t, premint, max, since, recorded, mints, a, n, token, score, trail),
           NEW threshold \in Nat, NEW left, NEW kept, NEW drawn,
           Cut(threshold, premint, recorded, mints, left, kept, drawn)
    PROVE  /\ since < threshold =>
                 \E p : Numbered(t, premint, max, since, left, kept, UndoMints(a, drawn),
                                 p, token, score, trail)
           /\ since >= threshold => kept = {} /\ UndoMints(a, drawn) = NoRanges
<1> SUFFICES ASSUME left = {s \in recorded : s < threshold},
                    \A m : m \in kept <=> m \in mints /\ m.score < threshold,
                    \A m : m \in drawn <=> m \in mints /\ m.score >= threshold /\ m.token > premint
             PROVE  /\ since < threshold =>
                          \E p : Numbered(t, premint, max, since, left, kept, UndoMints(a, drawn),
                                          p, token, score, trail)
                    /\ since >= threshold => kept = {} /\ UndoMints(a, drawn) = NoRanges
  BY DEF Cut
<1> DEFINE row(i) == [tick |-> t, seq |-> i, token |-> token[i], score |-> score[i]]
<1>1. /\ premint \in Nat /\ n \in Nat /\ n - premint \in Nat /\ premint <= n /\ n <= max
      /\ trail[0] = NoRanges
      /\ \A i \in (premint + 1)..n : token[i] \in Drawable(premint, max)
  BY OrderFacts
<1>2. /\ mints = {row(i) : i \in 1..n}
      /\ \A i \in 1..n : token[i] \in Nat \ {0} /\ score[i] \in recorded
      /\ \A i \in 1..premint : token[i] = i /\ score[i] = since
      /\ \A i \in (premint + 1)..n : score[i] > since
      /\ \A i, j \in (premint + 1)..n : i < j => score[i] < score[j]
      /\ \A i, j \in (premint + 1)..n : token[i] = token[j] => i = j
      /\ a = trail[n - premint]
      /\ \A j \in 0..(n - premint) : InOrder(trail[j], Draws(token, premint, j), premint, max)
      /\ \A j \in 1..(n - premint) :
            RollbackTokenGeneration(trail[j], token[premint + j]) = trail[j - 1]
  BY DEF Numbered
<1>3. \A i \in 1..n : row(i).seq = i /\ row(i).token = token[i] /\ row(i).score = score[i]
  OBVIOUS
<1>4. /\ \A i \in 1..n : i \in 1..premint \/ i \in (premint + 1)..n
      /\ \A i \in (premint + 1)..n : i \in 1..n /\ token[i] > premint
      /\ \A i \in 1..premint : i \in 1..n /\ ~ (token[i] > premint)
  <2>1. \A i \in (premint + 1)..n : token[i] > premint
    BY <1>1 DEF Drawable
  <2>2. QED BY <1>1, <1>2, <2>1
<1>5. \A i \in 1..n : score[i] \in Nat /\ since \in Nat
  BY <1>2
<1> HIDE DEF row
<1>6a. PICK p : /\ CutAt(p, premint, n, score, threshold)
                /\ \E row2, trail2 : Retraced(n - p, row2, trail2, a, drawn)
                                      /\ trail2[0] = trail[p - premint]
  BY DrawsRetraced
<1>6. p \in premint..n /\ \A i \in (premint + 1)..n : score[i] < threshold <=> i <= p
  BY <1>6a DEF CutAt
<1>7. p \in Nat /\ n - p \in Nat /\ p - premint \in Nat
  BY <1>1, <1>6
<1>9. UndoMints(a, drawn) = trail[p - premint]
  BY <1>6a, <1>7, UndoMintsIs
<1>10. ASSUME since >= threshold PROVE kept = {} /\ UndoMints(a, drawn) = NoRanges
  <2>1. \A i \in 1..n : ~ (score[i] < threshold)
    BY <1>2, <1>4, <1>5, <1>10
  <2>2. kept = {}
    <3> SUFFICES ASSUME NEW m \in kept PROVE FALSE
      OBVIOUS
    <3>1. m \in mints /\ m.score < threshold
      OBVIOUS
    <3>2. PICK i \in 1..n : m = row(i)
      BY <1>2, <3>1
    <3>3. QED BY <1>3, <2>1, <3>1, <3>2
  <2>3. p = premint
    <3> SUFFICES ASSUME p # premint PROVE FALSE
      OBVIOUS
    <3>1. p \in (premint + 1)..n /\ p <= p
      BY <1>1, <1>6
    <3>2. QED BY <1>4, <1>6, <2>1, <3>1
  <2>4. p - premint = 0
    BY <1>1, <2>3
  <2>5. QED BY <1>1, <1>9, <2>2, <2>4
<1>11. ASSUME since < threshold
       PROVE  Numbered(t, premint, max, since, left, kept, trail[p - premint], p, token, score, trail)
  <2>1. p \in premint..max /\ \A i \in 1..p : i \in 1..n
    BY <1>1, <1>6, <1>7 DEF Supply
  <2>2. /\ \A i \in (premint + 1)..p : i \in (premint + 1)..n /\ i <= p
        /\ \A j \in 0..(p - premint) : j \in 0..(n - premint)
        /\ \A j \in 1..(p - premint) : j \in 1..(n - premint)
    BY <1>1, <1>6, <1>7
  <2>3. \A i \in 1..n : score[i] < threshold <=> i \in 1..p
    <3> SUFFICES ASSUME NEW i \in 1..n PROVE score[i] < threshold <=> i \in 1..p
      OBVIOUS
    <3>1. CASE i \in 1..premint
      <4>1. score[i] = since /\ i \in 1..p
        BY <1>2, <1>6, <1>7, <1>1, <3>1
      <4>2. QED BY <1>11, <4>1
    <3>2. CASE i \in (premint + 1)..n
      <4>1. score[i] < threshold <=> i <= p
        BY <1>6, <3>2
      <4>2. i <= p <=> i \in 1..p
        BY <1>7
      <4>3. QED BY <4>1, <4>2
    <3>3. QED BY <1>4, <3>1, <3>2
  <2>4. kept = {row(i) : i \in 1..p}
    <3>1. ASSUME NEW m \in kept PROVE m \in {row(i) : i \in 1..p}
      <4>1. m \in mints /\ m.score < threshold
        BY <3>1
      <4>2. PICK i \in 1..n : m = row(i)
        BY <1>2, <4>1
      <4>3. QED BY <1>3, <2>3, <4>1, <4>2
    <3>2. ASSUME NEW i \in 1..p PROVE row(i) \in kept
      BY <1>2, <1>3, <2>1, <2>3
    <3>3. QED BY <3>1, <3>2
  <2>5. kept = {[tick |-> t, seq |-> i, token |-> token[i], score |-> score[i]] : i \in 1..p}
    BY <2>4 DEF row
  <2>6. \A i \in 1..p : token[i] \in Nat \ {0} /\ score[i] \in left
    BY <1>2, <2>1, <2>3
  <2>7. QED
    <3>1. /\ \A i \in (premint + 1)..p : score[i] > since
          /\ \A i, j \in (premint + 1)..p : i < j => score[i] < score[j]
          /\ \A i, j \in (premint + 1)..p : token[i] = token[j] => i = j
      BY <1>2, <2>2
    <3>2. /\ \A j \in 0..(p - premint) : InOrder(trail[j], Draws(token, premint, j), premint, max)
          /\ \A j \in 1..(p - premint) :
                RollbackTokenGeneration(trail[j], token[premint + j]) = trail[j - 1]
      BY <1>2, <2>2
    <3>3. QED BY <1>2, <2>1, <2>5, <2>6, <3>1, <3>2 DEF Numbered
<1>12. QED BY <1>9, <1>10, <1>11

\* The mints a reorganisation removes are those recorded from the threshold on.
LEMMA RemovedMintsAre ==
    ASSUME MintsRecorded, NEW threshold
    PROVE  \A m : m \in RemovedMints(threshold) <=> m \in mint_history /\ m.score >= threshold
<1>1. ASSUME NEW m \in RemovedMints(threshold) PROVE m \in mint_history /\ m.score >= threshold
  <2>1. m \in mint_history /\ \E k \in ownership_changes :
           /\ k.score >= threshold
           /\ m = [tick |-> k.tick, seq |-> k.seq, token |-> k.token, score |-> k.score]
    BY <1>1 DEF RemovedMints
  <2>2. PICK k \in ownership_changes :
           /\ k.score >= threshold
           /\ m = [tick |-> k.tick, seq |-> k.seq, token |-> k.token, score |-> k.score]
    BY <2>1
  <2>3. m.score = k.score
    BY <2>2
  <2>4. QED BY <2>1, <2>2, <2>3
<1>2. ASSUME NEW m \in mint_history, m.score >= threshold PROVE m \in RemovedMints(threshold)
  <2> DEFINE k == [score |-> m.score, tick |-> m.tick, token |-> m.token, seq |-> m.seq]
  <2>1. k \in ownership_changes
    BY DEF MintsRecorded
  <2>2. k.score = m.score /\ k.tick = m.tick /\ k.token = m.token /\ k.seq = m.seq
    OBVIOUS
  <2>3. m = [tick |-> m.tick, seq |-> m.seq, token |-> m.token, score |-> m.score]
    <3>1. m \in MintsOf(m.tick) /\ m.tick \in DOMAIN collection_registry
      BY DEF MintsOf, MintsRecorded
    <3>2. PICK n, token, score, trail : MintsInOrder(m.tick, n, token, score, trail)
      BY <3>1 DEF MintsRecorded
    <3>3. PICK i \in 1..n : m = [tick |-> m.tick, seq |-> i, token |-> token[i], score |-> score[i]]
      BY <3>1, <3>2 DEF MintsInOrder, Numbered
    <3>4. m.seq = i /\ m.token = token[i] /\ m.score = score[i]
      BY <3>3
    <3>5. QED BY <3>3, <3>4
  <2> HIDE DEF k
  <2>4. QED BY <1>2, <2>1, <2>2, <2>3 DEF RemovedMints
<1>3. QED BY <1>1, <1>2

\* The collections a reorganisation leaves: those deployed below the threshold.
LEMMA RegistryCut ==
    ASSUME ChainInv, RegistryRecorded, NEW threshold \in Nat, RollbackDeployments(threshold)
    PROVE  /\ DOMAIN collection_registry' =
                 {t \in DOMAIN collection_registry : collection_registry[t].score < threshold}
           /\ \A t \in DOMAIN collection_registry' : collection_registry'[t] = collection_registry[t]
<1> DEFINE gone == {d \in collection_deployments : d.score >= threshold}
<1>1. DOMAIN operation_history \in SUBSET Nat
  BY NowAbove
<1>2. /\ collection_deployments' = collection_deployments \ gone
      /\ collection_registry' = DelAll(collection_registry, {d.tick : d \in gone})
  BY DEF RollbackDeployments
<1>3. \A t \in DOMAIN collection_registry :
         /\ collection_registry[t].score \in DOMAIN operation_history
         /\ collection_registry[t].score \in Nat
         /\ [score |-> collection_registry[t].score, tick |-> t] \in collection_deployments
  BY <1>1 DEF RegistryRecorded, ChainInv, OperationsIndexed
<1>4. \A t \in DOMAIN collection_registry :
         t \in {d.tick : d \in gone} <=> collection_registry[t].score >= threshold
  <2> SUFFICES ASSUME NEW t \in DOMAIN collection_registry
               PROVE  t \in {d.tick : d \in gone} <=> collection_registry[t].score >= threshold
    OBVIOUS
  <2>1. ASSUME t \in {d.tick : d \in gone} PROVE collection_registry[t].score >= threshold
    BY <2>1 DEF RegistryRecorded
  <2>2. ASSUME collection_registry[t].score >= threshold PROVE t \in {d.tick : d \in gone}
    <3> DEFINE d == [score |-> collection_registry[t].score, tick |-> t]
    <3>1. d \in collection_deployments /\ d.score >= threshold /\ d.tick = t
      BY <1>3, <2>2
    <3> HIDE DEF d
    <3>2. QED BY <3>1
  <2>3. QED BY <2>1, <2>2
<1>5. /\ DOMAIN collection_registry' =
            {t \in DOMAIN collection_registry : collection_registry[t].score < threshold}
      /\ \A t \in DOMAIN collection_registry' : collection_registry'[t] = collection_registry[t]
  <2>1. /\ DOMAIN collection_registry' = DOMAIN collection_registry \ {d.tick : d \in gone}
        /\ \A t \in DOMAIN collection_registry' : collection_registry'[t] = collection_registry[t]
    BY <1>2 DEF DelAll
  <2> DEFINE dead == {d.tick : d \in gone}
  <2>2. ASSUME NEW t \in DOMAIN collection_registry
        PROVE  t \in dead <=> ~ (collection_registry[t].score < threshold)
    <3>1. collection_registry[t].score \in Nat
      BY <1>3
    <3>2. t \in dead <=> collection_registry[t].score >= threshold
      BY <1>4
    <3> HIDE DEF dead
    <3>3. QED BY <3>1, <3>2
  <2> HIDE DEF gone, dead
  <2>3. DOMAIN collection_registry' = DOMAIN collection_registry \ dead
    BY <2>1 DEF dead
  <2>4. QED BY <2>1, <2>2, <2>3
<1>6. QED BY <1>5

\* A reorganisation takes collections and mints back.
LEMMA ReorgMints ==
    ASSUME ChainInv, RegistryRecorded, MintsRecorded, NEW threshold \in Nat,
           RollbackDeployments(threshold), RollbackMints(threshold), RollbackOwnership(threshold),
           DOMAIN operation_history' = {s \in DOMAIN operation_history : s < threshold}
    PROVE  RegistryRecorded' /\ MintsRecorded'
<1> DEFINE gone == {d \in collection_deployments : d.score >= threshold}
           drawn(t) == {m \in RemovedMints(threshold) : m.tick = t /\ m.token > PremintOf(t)}
<1>1. DOMAIN operation_history \in SUBSET Nat
  BY NowAbove
<1>2. /\ collection_deployments' = collection_deployments \ gone
      /\ collection_registry' = DelAll(collection_registry, {d.tick : d \in gone})
  BY DEF RollbackDeployments
<1>3. \A t \in DOMAIN collection_registry :
         /\ collection_registry[t].score \in DOMAIN operation_history
         /\ collection_registry[t].score \in Nat
         /\ [score |-> collection_registry[t].score, tick |-> t] \in collection_deployments
  BY <1>1 DEF RegistryRecorded, ChainInv, OperationsIndexed
<1>5. /\ DOMAIN collection_registry' =
            {t \in DOMAIN collection_registry : collection_registry[t].score < threshold}
      /\ \A t \in DOMAIN collection_registry' : collection_registry'[t] = collection_registry[t]
  BY RegistryCut
<1>6. \A t \in DOMAIN collection_registry' : DeployOf(t)' = DeployOf(t)
  BY <1>5 DEF DeployOf
<1>7. RegistryRecorded'
  <2>1. \A t \in DOMAIN collection_registry' :
           /\ t \in Ticks
           /\ DeployOf(t)' \in Ops /\ DeployOf(t)'.kind = "deploy" /\ DeployOf(t)'.tick = t
           /\ collection_registry'[t].score \in DOMAIN operation_history'
    BY <1>5, <1>6 DEF RegistryRecorded
  <2>2. \A d \in collection_deployments' :
           /\ d.tick \in DOMAIN collection_registry'
           /\ d.score = collection_registry'[d.tick].score
    <3> SUFFICES ASSUME NEW d \in collection_deployments'
                 PROVE  /\ d.tick \in DOMAIN collection_registry'
                        /\ d.score = collection_registry'[d.tick].score
      OBVIOUS
    <3>1. d \in collection_deployments /\ ~ (d.score >= threshold)
      BY <1>2
    <3>2. d.tick \in DOMAIN collection_registry /\ d.score = collection_registry[d.tick].score
      BY <3>1 DEF RegistryRecorded
    <3>3. collection_registry[d.tick].score < threshold
      <4>1. collection_registry[d.tick].score \in Nat
        BY <1>3, <3>2
      <4>2. ~ (collection_registry[d.tick].score >= threshold)
        BY <3>1, <3>2
      <4>3. QED BY <4>1, <4>2
    <3>4. d.tick \in DOMAIN collection_registry'
      BY <1>5, <3>2, <3>3
    <3>5. QED BY <1>5, <3>2, <3>4
  <2>3. QED BY <2>1, <2>2 DEF RegistryRecorded
<1>8. \A m : m \in RemovedMints(threshold) <=> m \in mint_history /\ m.score >= threshold
  BY RemovedMintsAre
<1>9. /\ mint_history' = mint_history \ RemovedMints(threshold)
      /\ DOMAIN alloc' = Ticks /\ \A t \in Ticks : alloc'[t] = UndoMints(alloc[t], drawn(t))
  BY DEF RollbackMints
<1>10. ASSUME NEW t \in DOMAIN collection_registry
       PROVE  /\ collection_registry[t].score < threshold =>
                    \E n, token, score, trail : MintsInOrder(t, n, token, score, trail)'
              /\ collection_registry[t].score >= threshold => MintsOf(t)' = {} /\ alloc'[t] = NoRanges
  <2> DEFINE premint == DeployOf(t).premint
             max == DeployOf(t).max
             since == collection_registry[t].score
             recorded == DOMAIN operation_history
             left == DOMAIN operation_history'
             mints == MintsOf(t)
             kept == MintsOf(t)'
             a == alloc[t]
             d == drawn(t)
  <2>1. Supply(premint, max) /\ since \in recorded /\ t \in Ticks
    BY LedgerAssumption DEF RegistryRecorded, Supply
  <2>2. PICK n, token, score, trail :
           Numbered(t, premint, max, since, recorded, mints, a, n, token, score, trail)
    BY DEF MintsInOrder, MintsRecorded
  <2>3. left = {s \in recorded : s < threshold} /\ recorded \in SUBSET Nat
    BY <1>1
  <2>4. ASSUME NEW m \in mints PROVE m.score \in Nat
    <3>1. PICK i \in 1..n : m = [tick |-> t, seq |-> i, token |-> token[i], score |-> score[i]]
      BY <2>2, <2>4 DEF Numbered
    <3>2. score[i] \in Nat
      BY <1>1, <2>2 DEF Numbered
    <3>3. m.score = score[i]
      BY <3>1
    <3>4. QED BY <3>2, <3>3
  <2>5. \A m : m \in kept <=> m \in mints /\ m.score < threshold
    <3>1. \A m : m \in mints => (~ (m.score >= threshold) <=> m.score < threshold)
      BY <2>4
    <3>2. \A m : m \in mints <=> m \in mint_history /\ m.tick = t
      BY DEF MintsOf
    <3>3. \A m : m \in kept <=> m \in mint_history' /\ m.tick = t
      BY DEF MintsOf
    <3> HIDE DEF mints, kept
    <3>4. QED BY <1>8, <1>9, <3>1, <3>2, <3>3
  <2>6. \A m : m \in d <=> m \in mints /\ m.score >= threshold /\ m.token > premint
    BY <1>8 DEF MintsOf, PremintOf
  <2>7. alloc'[t] = UndoMints(a, d)
    BY <1>9, <2>1
  <2>7a. Cut(threshold, premint, recorded, mints, left, kept, d)
    <3> HIDE DEF premint, recorded, left, mints, kept, d
    <3> QED BY <2>3, <2>5, <2>6 DEF Cut
  <2>8. since < threshold => \E p : Numbered(t, premint, max, since, left, kept, UndoMints(a, d), p, token, score, trail)
    <3> HIDE DEF premint, max, since, recorded, left, mints, kept, a, d
    <3> QED BY <2>1, <2>2, <2>3, <2>7a, NumberedUndone
  <2>9. since >= threshold => kept = {} /\ UndoMints(a, d) = NoRanges
    <3> HIDE DEF premint, max, since, recorded, left, mints, kept, a, d
    <3> QED BY <2>1, <2>2, <2>3, <2>7a, NumberedUndone
  <2>10. ASSUME collection_registry[t].score < threshold
         PROVE  \E p : MintsInOrder(t, p, token, score, trail)'
    <3>1. PICK p : Numbered(t, premint, max, since, left, kept, UndoMints(a, d), p, token, score, trail)
      BY <2>8, <2>10
    <3>2. DeployOf(t)' = DeployOf(t) /\ collection_registry'[t] = collection_registry[t]
      BY <1>5, <1>6, <2>10
    <3>3. MintsInOrder(t, p, token, score, trail)'
      BY <2>7, <3>1, <3>2 DEF MintsInOrder
    <3>4. QED BY <3>3
  <2>11. QED BY <2>7, <2>9, <2>10
<1>11. ASSUME NEW t \in Ticks \ DOMAIN collection_registry PROVE alloc'[t] = NoRanges
  <2>1. drawn(t) = {}
    BY <1>8 DEF MintsRecorded
  <2>2. alloc[t] = NoRanges /\ t \in Ticks
    BY DEF MintsRecorded
  <2> DEFINE row == [i \in {} |-> NoRanges]
             trail == [i \in {0} |-> NoRanges]
  <2>3. 1..0 = {} /\ trail[0] = NoRanges
    OBVIOUS
  <2>4. Retraced(0, row, trail, alloc[t], drawn(t))
    <3> HIDE DEF row, trail, drawn
    <3> QED BY <2>1, <2>2, <2>3 DEF Retraced
  <2> HIDE DEF row, trail, drawn
  <2>5. UndoMints(alloc[t], drawn(t)) = NoRanges
    BY <2>3, <2>4, UndoMintsIs
  <2>6. QED BY <1>9, <2>2, <2>5
<1>12. ASSUME NEW m \in mint_history'
       PROVE  m \in mint_history /\ ~ (m.score >= threshold)
  BY <1>8, <1>9, <1>12
<1>13. MintsRecorded'
  <2>1. \A m \in mint_history' : m.tick \in DOMAIN collection_registry'
    <3> SUFFICES ASSUME NEW m \in mint_history' PROVE m.tick \in DOMAIN collection_registry'
      OBVIOUS
    <3>1. m \in MintsOf(m.tick)' /\ m.tick \in DOMAIN collection_registry
      BY <1>12 DEF MintsOf, MintsRecorded
    <3>2. collection_registry[m.tick].score < threshold
      <4>1. ~ (collection_registry[m.tick].score >= threshold)
        BY <1>10, <3>1
      <4>2. collection_registry[m.tick].score \in Nat
        BY <1>3, <3>1
      <4>3. QED BY <4>1, <4>2
    <3>3. QED BY <1>5, <3>1, <3>2
  <2>2. \A t \in DOMAIN collection_registry' :
           \E n, token, score, trail : MintsInOrder(t, n, token, score, trail)'
    BY <1>5, <1>10
  <2>3. \A t \in Ticks \ DOMAIN collection_registry' : alloc'[t] = NoRanges
    <3> SUFFICES ASSUME NEW t \in Ticks, t \notin DOMAIN collection_registry'
                 PROVE  alloc'[t] = NoRanges
      OBVIOUS
    <3>1. CASE t \in DOMAIN collection_registry
      <4>0. ~ (collection_registry[t].score < threshold) /\ collection_registry[t].score \in Nat
        BY <1>3, <1>5, <3>1
      <4>1. collection_registry[t].score >= threshold
        BY <4>0
      <4>2. QED BY <1>10, <3>1, <4>1
    <3>2. CASE t \notin DOMAIN collection_registry
      BY <1>11, <3>2
    <3>3. QED BY <3>1, <3>2
  <2>4. \A m \in mint_history' :
           [score |-> m.score, tick |-> m.tick, token |-> m.token, seq |-> m.seq] \in ownership_changes'
    <3> SUFFICES ASSUME NEW m \in mint_history'
                 PROVE  [score |-> m.score, tick |-> m.tick, token |-> m.token, seq |-> m.seq]
                           \in ownership_changes'
      OBVIOUS
    <3>1. m \in mint_history /\ ~ (m.score >= threshold)
      BY <1>12
    <3>2. ownership_changes' = ownership_changes \ {k \in ownership_changes : k.score >= threshold}
      BY DEF RollbackOwnership
    <3> DEFINE k == [score |-> m.score, tick |-> m.tick, token |-> m.token, seq |-> m.seq]
    <3>3. k \in ownership_changes /\ k.score = m.score
      BY <3>1 DEF MintsRecorded
    <3> HIDE DEF k
    <3>4. k \in ownership_changes'
      BY <3>1, <3>2, <3>3
    <3>5. QED BY <3>4 DEF k
  <2>5. QED BY <1>9, <2>1, <2>2, <2>3, <2>4 DEF MintsRecorded
<1>14. QED BY <1>7, <1>13

-----------------------------------------------------------------------------
(* Ownership: one lemma for each kind of step.                             *)

\* A step that moves no token and takes nothing back.
LEMMA OwnershipQuiet ==
    ASSUME HistoryRecorded, OwnershipConsistent, UNCHANGED ownVars,
           DOMAIN operation_history \subseteq DOMAIN operation_history',
           mint_history \subseteq mint_history'
    PROVE  HistoryRecorded' /\ OwnershipConsistent'
<1>1. UNCHANGED <<ownership_changes, ownership_history, current_ownership, address_holdings>>
  BY DEF ownVars
<1>2. HistoryRecorded'
  BY <1>1 DEF HistoryRecorded
<1>3. OwnershipConsistent'
  BY <1>1 DEF OwnershipConsistent
<1>4. QED BY <1>2, <1>3

\* Tokens that are new, or owned by one of `from`, get an owner now.
LEMMA SetOwnerStep ==
    ASSUME HistoryRecorded, OwnershipConsistent,
           NEW tick, NEW seqs, NEW from, NEW to, SetOwner(tick, seqs, from, to),
           Now \in Nat, \A s \in DOMAIN operation_history : s \in Nat /\ s < Now,
           DOMAIN operation_history' = DOMAIN operation_history \cup {Now},
           mint_history \subseteq mint_history',
           \A x \in DOMAIN seqs :
               /\ <<tick, x>> \in DOMAIN current_ownership =>
                      current_ownership[<<tick, x>>].owner \in from
               /\ \E m \in mint_history' : m.tick = tick /\ m.token = x /\ m.score <= Now
    PROVE  HistoryRecorded' /\ OwnershipConsistent'
<1> DEFINE rows == {<<tick, x, Now>> : x \in DOMAIN seqs}
           keys == {<<tick, x>> : x \in DOMAIN seqs}
           left == {<<a, tick, x>> : a \in from, x \in DOMAIN seqs}
           held == {<<to, tick, x>> : x \in DOMAIN seqs}
           changes == {[score |-> Now, tick |-> tick, token |-> x, seq |-> seqs[x]] : x \in DOMAIN seqs}
<1>1. /\ ownership_changes' = ownership_changes \cup changes
      /\ ownership_history' = PutAll(ownership_history, rows, to)
      /\ current_ownership' = PutAll(current_ownership, keys, [owner |-> to, mod_tx_score |-> Now])
      /\ address_holdings' = PutAll(DelAll(address_holdings, left), held, Now)
  BY DEF SetOwner
<1>2. /\ \A r \in rows : r = <<r[1], r[2], r[3]>> /\ r[1] = tick /\ r[2] \in DOMAIN seqs /\ r[3] = Now
      /\ \A x \in DOMAIN seqs : <<tick, x, Now>> \in rows
  OBVIOUS
<1>3. /\ \A k \in keys : k = <<k[1], k[2]>> /\ k[1] = tick /\ k[2] \in DOMAIN seqs
      /\ \A x \in DOMAIN seqs : <<tick, x>> \in keys
  OBVIOUS
<1>4. /\ \A h \in left : h[1] \in from /\ h[2] = tick /\ h[3] \in DOMAIN seqs
      /\ \A a \in from : \A x \in DOMAIN seqs : <<a, tick, x>> \in left
  OBVIOUS
<1>5. /\ \A h \in held : h = <<to, tick, h[3]>> /\ h[2] = tick /\ h[3] \in DOMAIN seqs
      /\ \A x \in DOMAIN seqs : <<to, tick, x>> \in held
  OBVIOUS
<1>6. /\ \A c \in changes : c.score = Now /\ c.tick = tick /\ c.token \in DOMAIN seqs
      /\ \A x \in DOMAIN seqs : \E c \in changes : c.tick = tick /\ c.token = x /\ c.score = Now
  <2>1. ASSUME NEW x \in DOMAIN seqs
        PROVE  \E c \in changes : c.tick = tick /\ c.token = x /\ c.score = Now
    <3> DEFINE c == [score |-> Now, tick |-> tick, token |-> x, seq |-> seqs[x]]
    <3>1. c \in changes /\ c.tick = tick /\ c.token = x /\ c.score = Now
      OBVIOUS
    <3> HIDE DEF c, changes
    <3>2. QED BY <3>1
  <2>2. QED BY <2>1
<1> HIDE DEF rows, keys, left, held, changes
<1>7. /\ DOMAIN ownership_history' = DOMAIN ownership_history \cup rows
      /\ \A k \in rows : ownership_history'[k] = to
      /\ \A k \in DOMAIN ownership_history \ rows : ownership_history'[k] = ownership_history[k]
  BY <1>1 DEF PutAll
<1>8. /\ DOMAIN current_ownership' = DOMAIN current_ownership \cup keys
      /\ \A k \in keys : current_ownership'[k] = [owner |-> to, mod_tx_score |-> Now]
      /\ \A k \in DOMAIN current_ownership \ keys : current_ownership'[k] = current_ownership[k]
  BY <1>1 DEF PutAll
<1>9. \A k \in keys : current_ownership'[k].owner = to /\ current_ownership'[k].mod_tx_score = Now
  BY <1>8
<1>10. /\ DOMAIN address_holdings' = (DOMAIN address_holdings \ left) \cup held
       /\ \A h \in held : address_holdings'[h] = Now
       /\ \A h \in (DOMAIN address_holdings \ left) \ held : address_holdings'[h] = address_holdings[h]
  BY <1>1 DEF PutAll, DelAll
<1>11. \A k \in DOMAIN ownership_history : k = <<k[1], k[2], k[3]>> /\ k[3] \in Nat /\ k[3] < Now
  BY DEF HistoryRecorded
<1>12. \A k \in DOMAIN ownership_history : k \notin rows
  BY <1>2, <1>11
<1>13. \A k \in DOMAIN ownership_history : ownership_history'[k] = ownership_history[k]
  BY <1>7, <1>12
<1>14. \A k \in DOMAIN current_ownership : k = <<k[1], k[2]>>
  BY DEF OwnershipConsistent
<1>15. HistoryRecorded'
  <2>1. \A c \in ownership_changes' : <<c.tick, c.token, c.score>> \in DOMAIN ownership_history'
    BY <1>1, <1>2, <1>6, <1>7 DEF HistoryRecorded
  <2>2. ASSUME NEW k \in DOMAIN ownership_history'
        PROVE  /\ k = <<k[1], k[2], k[3]>> /\ k[3] \in DOMAIN operation_history'
               /\ \E c \in ownership_changes' : c.tick = k[1] /\ c.token = k[2] /\ c.score = k[3]
               /\ \E m \in mint_history' : m.tick = k[1] /\ m.token = k[2] /\ m.score <= k[3]
    <3>1. CASE k \in rows
      <4>1. k = <<k[1], k[2], k[3]>> /\ k[1] = tick /\ k[2] \in DOMAIN seqs /\ k[3] = Now
        BY <1>2, <3>1
      <4>2. \E c \in ownership_changes' : c.tick = k[1] /\ c.token = k[2] /\ c.score = k[3]
        BY <1>1, <1>6, <4>1
      <4>3. QED BY <4>1, <4>2
    <3>2. CASE k \in DOMAIN ownership_history
      BY <1>1, <3>2 DEF HistoryRecorded
    <3>3. QED BY <1>7, <3>1, <3>2
  <2>3. QED BY <2>1, <2>2 DEF HistoryRecorded
<1>16. OwnershipConsistent'
  <2>1. DOMAIN current_ownership' = {<<k[1], k[2]>> : k \in DOMAIN ownership_history'}
    <3>1. DOMAIN current_ownership = {<<k[1], k[2]>> : k \in DOMAIN ownership_history}
      BY DEF OwnershipConsistent
    <3>2. ASSUME NEW k \in rows PROVE <<k[1], k[2]>> \in keys
      BY <1>2, <1>3
    <3>3. ASSUME NEW key \in keys PROVE \E k \in rows : key = <<k[1], k[2]>>
      <4>1. <<tick, key[2], Now>> \in rows /\ key = <<tick, key[2]>>
        BY <1>2, <1>3
      <4>2. QED BY <4>1
    <3>4. QED BY <1>7, <1>8, <3>1, <3>2, <3>3
  <2>2. ASSUME NEW k \in DOMAIN ownership_history'
        PROVE  /\ k[3] <= current_ownership'[<<k[1], k[2]>>].mod_tx_score
               /\ k[3] = current_ownership'[<<k[1], k[2]>>].mod_tx_score =>
                      current_ownership'[<<k[1], k[2]>>].owner = ownership_history'[k]
    <3> DEFINE key == <<k[1], k[2]>>
    <3>1. CASE k \in rows
      <4>1. key \in keys /\ k[3] = Now /\ ownership_history'[k] = to
        BY <1>2, <1>3, <1>7, <3>1
      <4>2. QED BY <1>9, <4>1
    <3>2. CASE k \in DOMAIN ownership_history /\ key \in keys
      <4>1. k[3] \in Nat /\ k[3] < Now
        BY <1>11, <3>2
      <4>2. current_ownership'[key].mod_tx_score = Now
        BY <1>9, <3>2
      <4>3. QED BY <4>1, <4>2
    <3>3. CASE k \in DOMAIN ownership_history /\ key \notin keys
      <4>1. /\ key \in DOMAIN current_ownership
            /\ k[3] <= current_ownership[key].mod_tx_score
            /\ k[3] = current_ownership[key].mod_tx_score =>
                   current_ownership[key].owner = ownership_history[k]
        BY <3>3 DEF OwnershipConsistent
      <4>2. current_ownership'[key] = current_ownership[key] /\ ownership_history'[k] = ownership_history[k]
        BY <1>8, <1>13, <3>3, <4>1
      <4>3. QED BY <4>1, <4>2
    <3>4. QED BY <1>7, <3>1, <3>2, <3>3
  <2>3. \A key \in DOMAIN current_ownership' :
           <<key[1], key[2], current_ownership'[key].mod_tx_score>> \in DOMAIN ownership_history'
    <3> SUFFICES ASSUME NEW key \in DOMAIN current_ownership'
                 PROVE  <<key[1], key[2], current_ownership'[key].mod_tx_score>>
                            \in DOMAIN ownership_history'
      OBVIOUS
    <3>1. CASE key \in keys
      <4>1. key[1] = tick /\ key[2] \in DOMAIN seqs /\ current_ownership'[key].mod_tx_score = Now
        BY <1>3, <1>9, <3>1
      <4>2. QED BY <1>2, <1>7, <4>1
    <3>2. CASE key \in DOMAIN current_ownership /\ key \notin keys
      BY <1>7, <1>8, <3>2 DEF OwnershipConsistent
    <3>3. QED BY <1>8, <3>1, <3>2
  <2>4. /\ \A h \in DOMAIN address_holdings :
              /\ h = <<h[1], h[2], h[3]>> /\ <<h[2], h[3]>> \in DOMAIN current_ownership
              /\ h[1] = current_ownership[<<h[2], h[3]>>].owner
        /\ \A key \in DOMAIN current_ownership :
              <<current_ownership[key].owner, key[1], key[2]>> \in DOMAIN address_holdings
    <3>1. DOMAIN address_holdings =
             {<<current_ownership[key].owner, key[1], key[2]>> : key \in DOMAIN current_ownership}
      BY DEF OwnershipConsistent
    <3>2. ASSUME NEW h \in DOMAIN address_holdings
          PROVE  /\ h = <<h[1], h[2], h[3]>> /\ <<h[2], h[3]>> \in DOMAIN current_ownership
                 /\ h[1] = current_ownership[<<h[2], h[3]>>].owner
      <4>1. PICK key \in DOMAIN current_ownership : h = <<current_ownership[key].owner, key[1], key[2]>>
        BY <3>1
      <4>2. key = <<key[1], key[2]>>
        BY <1>14
      <4>3. h[1] = current_ownership[key].owner /\ h[2] = key[1] /\ h[3] = key[2]
        BY <4>1
      <4>4. QED BY <4>1, <4>2, <4>3
    <3>3. QED BY <3>1, <3>2
  <2>5. ASSUME NEW h \in DOMAIN address_holdings'
        PROVE  /\ <<h[2], h[3]>> \in DOMAIN current_ownership' /\ h = <<h[1], h[2], h[3]>>
               /\ h[1] = current_ownership'[<<h[2], h[3]>>].owner
               /\ address_holdings'[h] = current_ownership'[<<h[2], h[3]>>].mod_tx_score
    <3>1. CASE h \in held
      <4>1. h = <<to, tick, h[3]>> /\ h[2] = tick /\ <<h[2], h[3]>> \in keys
        BY <1>3, <1>5, <3>1
      <4>2. h[1] = to
        BY <4>1
      <4>3. QED BY <1>8, <1>9, <1>10, <3>1, <4>1, <4>2
    <3>2. CASE h \in DOMAIN address_holdings /\ h \notin left /\ h \notin held
      <4>1. /\ h = <<h[1], h[2], h[3]>> /\ <<h[2], h[3]>> \in DOMAIN current_ownership
            /\ h[1] = current_ownership[<<h[2], h[3]>>].owner
        BY <2>4, <3>2
      <4>2. <<h[2], h[3]>> \notin keys
        <5> SUFFICES ASSUME <<h[2], h[3]>> \in keys PROVE FALSE
          OBVIOUS
        <5>1. h[2] = tick /\ h[3] \in DOMAIN seqs
          BY <1>3
        <5>2. h[1] \in from
          BY <4>1, <5>1
        <5>3. QED BY <1>4, <3>2, <4>1, <5>1, <5>2
      <4>3. address_holdings'[h] = address_holdings[h]
        BY <1>10, <3>2
      <4>4. address_holdings[h] = current_ownership[<<h[2], h[3]>>].mod_tx_score
        BY <3>2 DEF OwnershipConsistent
      <4>5. QED BY <1>8, <4>1, <4>2, <4>3, <4>4
    <3>3. QED BY <1>10, <3>1, <3>2
  <2>6. ASSUME NEW key \in DOMAIN current_ownership'
        PROVE  <<current_ownership'[key].owner, key[1], key[2]>> \in DOMAIN address_holdings'
    <3>1. CASE key \in keys
      BY <1>3, <1>5, <1>9, <1>10, <3>1
    <3>2. CASE key \in DOMAIN current_ownership /\ key \notin keys
      <4>1. <<current_ownership[key].owner, key[1], key[2]>> \in DOMAIN address_holdings
        BY <2>4, <3>2
      <4>2. <<current_ownership[key].owner, key[1], key[2]>> \notin left
        BY <1>3, <1>4, <1>14, <3>2
      <4>3. QED BY <1>8, <1>10, <3>2, <4>1, <4>2
    <3>3. QED BY <1>8, <3>1, <3>2
  <2>7. DOMAIN address_holdings' =
           {<<current_ownership'[key].owner, key[1], key[2]>> : key \in DOMAIN current_ownership'}
    <3>1. ASSUME NEW h \in DOMAIN address_holdings'
          PROVE  \E key \in DOMAIN current_ownership' : h = <<current_ownership'[key].owner, key[1], key[2]>>
      <4> DEFINE key == <<h[2], h[3]>>
      <4>1. key \in DOMAIN current_ownership' /\ h = <<h[1], h[2], h[3]>> /\ h[1] = current_ownership'[key].owner
        BY <2>5
      <4>2. key[1] = h[2] /\ key[2] = h[3]
        OBVIOUS
      <4> HIDE DEF key
      <4>3. QED BY <4>1, <4>2
    <3>2. QED BY <2>6, <3>1
  <2>8. QED BY <2>1, <2>2, <2>3, <2>5, <2>7 DEF OwnershipConsistent
<1>17. QED BY <1>15, <1>16

\* Mints have a score of their own.
LEMMA MintScores ==
    ASSUME ChainInv, MintsRecorded
    PROVE  \A m \in mint_history : m.score \in Nat
<1> SUFFICES ASSUME NEW m \in mint_history PROVE m.score \in Nat
  OBVIOUS
<1>1. DOMAIN operation_history \in SUBSET Nat
  BY NowAbove
<1>2. m \in MintsOf(m.tick) /\ m.tick \in DOMAIN collection_registry
  BY DEF MintsOf, MintsRecorded
<1>3. PICK n, token, score, trail : MintsInOrder(m.tick, n, token, score, trail)
  BY <1>2 DEF MintsRecorded
<1>4. PICK i \in 1..n : m = [tick |-> m.tick, seq |-> i, token |-> token[i], score |-> score[i]]
  BY <1>2, <1>3 DEF MintsInOrder, Numbered
<1>5. m.score = score[i] /\ score[i] \in Nat
  BY <1>1, <1>3, <1>4 DEF MintsInOrder, Numbered
<1>6. QED BY <1>5

\* The latest row of a token's history.
LEMMA LastChangeIs ==
    ASSUME NEW history, NEW key, \A k \in DOMAIN history : k[3] \in Nat, NEW bound \in Nat,
           \A k \in DOMAIN history : k[3] <= bound,
           \E k \in DOMAIN history : <<k[1], k[2]>> = key
    PROVE  /\ \E k \in DOMAIN history : <<k[1], k[2]>> = key /\ k[3] = LastChange(history, key)
           /\ \A k \in DOMAIN history : <<k[1], k[2]>> = key => k[3] <= LastChange(history, key)
<1> DEFINE T == {k[3] : k \in {x \in DOMAIN history : <<x[1], x[2]>> = key}}
<1>1. T \in SUBSET Nat /\ T # {} /\ \A x \in T : x <= bound
  OBVIOUS
<1>2. Max(T) \in T /\ \A y \in T : y <= Max(T)
  <2> HIDE DEF T
  <2> QED BY <1>1, MaxIsGreatest
<1>3. QED BY <1>2 DEF LastChange

\* A reorganisation gives the tokens that moved back to their owner before it.
LEMMA ReorgOwnership ==
    ASSUME ChainInv, MintsRecorded, HistoryRecorded, OwnershipConsistent, NEW threshold \in Nat,
           RollbackMints(threshold), RollbackOwnership(threshold),
           DOMAIN operation_history' = {s \in DOMAIN operation_history : s < threshold}
    PROVE  HistoryRecorded' /\ OwnershipConsistent'
<1> DEFINE gone     == {k \in ownership_changes : k.score >= threshold}
           affected == {<<k.tick, k.token>> : k \in gone}
           rows     == {<<k.tick, k.token, k.score>> : k \in gone}
           history  == DelAll(ownership_history, rows)
           owned    == {key \in affected : \E k \in DOMAIN history : <<k[1], k[2]>> = key}
           since(key) == LastChange(history, key)
           owner(key) == history[<<key[1], key[2], since(key)>>]
           lost     == {<<ownership_history[r], r[1], r[2]>> : r \in rows \cap DOMAIN ownership_history}
           holdings == DelAll(address_holdings, lost)
           regained == {<<owner(key), key[1], key[2]>> : key \in owned}
<1>1. /\ ownership_changes' = ownership_changes \ gone
      /\ ownership_history' = history
      /\ current_ownership' =
             [key \in (DOMAIN current_ownership \ affected) \cup owned |->
                 IF key \in owned THEN [owner |-> owner(key), mod_tx_score |-> since(key)]
                                  ELSE current_ownership[key]]
      /\ address_holdings' =
             [k \in DOMAIN holdings \cup regained |->
                 IF k \in regained THEN since(<<k[2], k[3]>>) ELSE holdings[k]]
  BY DEF RollbackOwnership
<1>2. /\ \A k \in DOMAIN ownership_history :
            /\ k = <<k[1], k[2], k[3]>> /\ k[3] \in Nat
            /\ \E c \in ownership_changes : c.tick = k[1] /\ c.token = k[2] /\ c.score = k[3]
      /\ \A c \in ownership_changes :
            <<c.tick, c.token, c.score>> \in DOMAIN ownership_history /\ c.score \in Nat
  <2>1. \A s \in DOMAIN operation_history : s \in Nat
    BY NowAbove
  <2>2. \A c \in ownership_changes : <<c.tick, c.token, c.score>> \in DOMAIN ownership_history
    BY DEF HistoryRecorded
  <2>3. \A k \in DOMAIN ownership_history : k[3] \in Nat
    BY <2>1 DEF HistoryRecorded
  <2>4. \A c \in ownership_changes : <<c.tick, c.token, c.score>>[3] = c.score
    OBVIOUS
  <2>5. QED BY <2>2, <2>3, <2>4 DEF HistoryRecorded
<1>3. \A k : k \in rows <=> k \in DOMAIN ownership_history /\ k[3] >= threshold
  <2>1. ASSUME NEW k \in rows PROVE k \in DOMAIN ownership_history /\ k[3] >= threshold
    <3>1. PICK c \in ownership_changes : c.score >= threshold /\ k = <<c.tick, c.token, c.score>>
      BY <2>1
    <3>2. k[3] = c.score
      BY <3>1
    <3>3. QED BY <1>2, <3>1, <3>2
  <2>2. ASSUME NEW k \in DOMAIN ownership_history, k[3] >= threshold PROVE k \in rows
    <3>1. PICK c \in ownership_changes : c.tick = k[1] /\ c.token = k[2] /\ c.score = k[3]
      BY <1>2
    <3>2. k = <<c.tick, c.token, c.score>> /\ c \in gone
      BY <1>2, <2>2, <3>1
    <3>3. QED BY <3>2
  <2>3. QED BY <2>1, <2>2
<1>4. \A key : key \in affected <=> \E k \in rows : key = <<k[1], k[2]>>
  <2>1. ASSUME NEW key \in affected PROVE \E k \in rows : key = <<k[1], k[2]>>
    <3>1. PICK c \in gone : key = <<c.tick, c.token>>
      OBVIOUS
    <3> DEFINE k == <<c.tick, c.token, c.score>>
    <3>2. k \in rows /\ key = <<k[1], k[2]>>
      BY <3>1
    <3> HIDE DEF k, rows
    <3>3. QED BY <3>2
  <2>2. ASSUME NEW k \in rows PROVE <<k[1], k[2]>> \in affected
    <3>1. PICK c \in gone : k = <<c.tick, c.token, c.score>>
      OBVIOUS
    <3>2. <<k[1], k[2]>> = <<c.tick, c.token>>
      BY <3>1
    <3> HIDE DEF gone
    <3>3. QED BY <3>2
  <2>3. QED BY <2>1, <2>2
<1> HIDE DEF rows, affected
<1>5. /\ \A k : k \in DOMAIN history <=> k \in DOMAIN ownership_history /\ k[3] < threshold
      /\ \A k \in DOMAIN history : history[k] = ownership_history[k]
  <2>1. /\ DOMAIN history = DOMAIN ownership_history \ rows
        /\ \A k \in DOMAIN history : history[k] = ownership_history[k]
    BY DEF DelAll
  <2>2. \A k \in DOMAIN ownership_history : k[3] < threshold <=> ~ (k[3] >= threshold)
    BY <1>2
  <2> HIDE DEF history
  <2>3. QED BY <1>3, <2>1, <2>2
<1>6. \A key : key \in owned <=> key \in affected /\ \E k \in DOMAIN history : <<k[1], k[2]>> = key
  OBVIOUS
<1>7. \A h : h \in lost <=> \E r \in rows : h = <<ownership_history[r], r[1], r[2]>>
  BY <1>3
<1>8. \A h : h \in regained <=> \E key \in owned : h = <<owner(key), key[1], key[2]>>
  OBVIOUS
<1>9. /\ DOMAIN holdings = DOMAIN address_holdings \ lost
      /\ \A h \in DOMAIN holdings : holdings[h] = address_holdings[h]
  BY DEF DelAll
<1> HIDE DEF history, owned, lost, regained, holdings
<1>10. ASSUME NEW key \in owned
       PROVE  /\ \E k \in DOMAIN history : <<k[1], k[2]>> = key /\ k[3] = since(key)
              /\ \A k \in DOMAIN history : <<k[1], k[2]>> = key => k[3] <= since(key)
              /\ <<key[1], key[2], since(key)>> \in DOMAIN history
              /\ key = <<key[1], key[2]>>
  <2>1. \A k \in DOMAIN history : k[3] \in Nat /\ k[3] <= threshold /\ k = <<k[1], k[2], k[3]>>
    BY <1>2, <1>5
  <2>2. \E k \in DOMAIN history : <<k[1], k[2]>> = key
    BY <1>6
  <2>3. /\ \E k \in DOMAIN history : <<k[1], k[2]>> = key /\ k[3] = since(key)
        /\ \A k \in DOMAIN history : <<k[1], k[2]>> = key => k[3] <= since(key)
    BY <2>1, <2>2, LastChangeIs
  <2> HIDE DEF since
  <2>4. PICK k \in DOMAIN history : <<k[1], k[2]>> = key /\ k[3] = since(key)
    BY <2>3
  <2>5. key[1] = k[1] /\ key[2] = k[2] /\ k = <<k[1], k[2], k[3]>>
    BY <2>1, <2>4
  <2>6. QED BY <2>3, <2>4, <2>5
<1> HIDE DEF since
<1>11. /\ DOMAIN current_ownership' = (DOMAIN current_ownership \ affected) \cup owned
       /\ \A key \in owned : current_ownership'[key].owner = owner(key)
                             /\ current_ownership'[key].mod_tx_score = since(key)
       /\ \A key \in DOMAIN current_ownership :
             key \notin affected => current_ownership'[key] = current_ownership[key]
  <2>1. owned \subseteq affected
    BY <1>6
  <2> HIDE DEF owner
  <2>2. /\ DOMAIN current_ownership' = (DOMAIN current_ownership \ affected) \cup owned
        /\ \A key \in owned : current_ownership'[key] = [owner |-> owner(key), mod_tx_score |-> since(key)]
        /\ \A key \in DOMAIN current_ownership :
              key \notin affected => current_ownership'[key] = current_ownership[key]
    BY <1>1, <2>1
  <2>3. QED BY <2>2
<1>12. /\ DOMAIN address_holdings' = DOMAIN holdings \cup regained
       /\ \A h \in regained : address_holdings'[h] = since(<<h[2], h[3]>>)
       /\ \A h \in DOMAIN holdings \ regained : address_holdings'[h] = holdings[h]
  BY <1>1
<1>13. DOMAIN ownership_history' = DOMAIN history /\ \A k : ownership_history'[k] = history[k]
  BY <1>1
<1>14. HistoryRecorded'
  <2>1. \A c \in ownership_changes' : <<c.tick, c.token, c.score>> \in DOMAIN ownership_history'
    <3> SUFFICES ASSUME NEW c \in ownership_changes'
                 PROVE  <<c.tick, c.token, c.score>> \in DOMAIN history
      BY <1>13
    <3>1. c \in ownership_changes /\ ~ (c.score >= threshold)
      BY <1>1
    <3>2. <<c.tick, c.token, c.score>> \in DOMAIN ownership_history /\ c.score < threshold
      BY <1>2, <3>1
    <3>3. <<c.tick, c.token, c.score>>[3] = c.score
      OBVIOUS
    <3>4. QED BY <1>5, <3>2, <3>3
  <2>2. ASSUME NEW k \in DOMAIN ownership_history'
        PROVE  /\ k = <<k[1], k[2], k[3]>> /\ k[3] \in DOMAIN operation_history'
               /\ \E c \in ownership_changes' : c.tick = k[1] /\ c.token = k[2] /\ c.score = k[3]
               /\ \E m \in mint_history' : m.tick = k[1] /\ m.token = k[2] /\ m.score <= k[3]
    <3>1. k \in DOMAIN ownership_history /\ k[3] < threshold /\ k[3] \in Nat
      BY <1>2, <1>5, <1>13
    <3>2. k = <<k[1], k[2], k[3]>> /\ k[3] \in DOMAIN operation_history'
      BY <3>1 DEF HistoryRecorded
    <3>3. PICK c \in ownership_changes : c.tick = k[1] /\ c.token = k[2] /\ c.score = k[3]
      BY <3>1 DEF HistoryRecorded
    <3>4. c \in ownership_changes'
      BY <1>1, <3>1, <3>3
    <3>5. PICK m \in mint_history : m.tick = k[1] /\ m.token = k[2] /\ m.score <= k[3]
      BY <3>1 DEF HistoryRecorded
    <3>6. m.score \in Nat /\ ~ (m.score >= threshold)
      BY <3>1, <3>5, MintScores
    <3>7. m \in mint_history'
      BY <3>6, RemovedMintsAre DEF RollbackMints
    <3>8. QED BY <3>2, <3>3, <3>4, <3>5, <3>7
  <2>3. QED BY <2>1, <2>2 DEF HistoryRecorded
<1>15. /\ DOMAIN current_ownership = {<<k[1], k[2]>> : k \in DOMAIN ownership_history}
       /\ \A k \in DOMAIN ownership_history :
             /\ k[3] <= current_ownership[<<k[1], k[2]>>].mod_tx_score
             /\ k[3] = current_ownership[<<k[1], k[2]>>].mod_tx_score =>
                    current_ownership[<<k[1], k[2]>>].owner = ownership_history[k]
       /\ \A key \in DOMAIN current_ownership :
             <<key[1], key[2], current_ownership[key].mod_tx_score>> \in DOMAIN ownership_history
       /\ DOMAIN address_holdings =
              {<<current_ownership[key].owner, key[1], key[2]>> : key \in DOMAIN current_ownership}
       /\ \A h \in DOMAIN address_holdings :
             address_holdings[h] = current_ownership[<<h[2], h[3]>>].mod_tx_score
  BY DEF OwnershipConsistent
<1>16. \A key \in DOMAIN current_ownership : key = <<key[1], key[2]>>
  BY <1>15
\* A token that did not move keeps its row; one that moved loses its owner's holding.
<1>17. ASSUME NEW key \in DOMAIN current_ownership
       PROVE  key \in affected <=> ~ (current_ownership[key].mod_tx_score < threshold)
  <2> DEFINE r == <<key[1], key[2], current_ownership[key].mod_tx_score>>
  <2>1. r \in DOMAIN ownership_history /\ key = <<key[1], key[2]>>
    BY <1>15, <1>16
  <2>2. r[1] = key[1] /\ r[2] = key[2] /\ r[3] = current_ownership[key].mod_tx_score
    OBVIOUS
  <2> HIDE DEF r
  <2>3. ASSUME ~ (current_ownership[key].mod_tx_score < threshold) PROVE key \in affected
    <3>1. r[3] \in Nat
      BY <1>2, <2>1
    <3>2. r[3] >= threshold
      BY <2>2, <2>3, <3>1
    <3>3. r \in rows
      BY <1>3, <2>1, <3>2
    <3>4. QED BY <1>4, <2>1, <2>2, <3>3
  <2>4. ASSUME key \in affected PROVE ~ (current_ownership[key].mod_tx_score < threshold)
    <3>1. PICK k \in rows : key = <<k[1], k[2]>>
      BY <1>4, <2>4
    <3>2. k \in DOMAIN ownership_history /\ k[3] >= threshold /\ k[3] \in Nat
      BY <1>2, <1>3
    <3>3. k[3] <= current_ownership[key].mod_tx_score
      BY <1>15, <3>1, <3>2
    <3>4. r[3] \in Nat
      BY <1>2, <2>1
    <3>5. QED BY <2>2, <3>2, <3>3, <3>4
  <2>5. QED BY <2>3, <2>4
<1>18. ASSUME NEW key \in DOMAIN current_ownership
       PROVE  <<current_ownership[key].owner, key[1], key[2]>> \in lost <=> key \in affected
  <2> DEFINE h == <<current_ownership[key].owner, key[1], key[2]>>
  <2>0. key = <<key[1], key[2]>>
    BY <1>16
  <2>1. ASSUME h \in lost PROVE key \in affected
    <3>1. PICK r \in rows : h = <<ownership_history[r], r[1], r[2]>>
      BY <1>7, <2>1
    <3>2. key = <<r[1], r[2]>>
      BY <2>0, <3>1
    <3>3. QED BY <1>4, <3>2
  <2>2. ASSUME key \in affected PROVE h \in lost
    <3> DEFINE r == <<key[1], key[2], current_ownership[key].mod_tx_score>>
    <3>1. r \in DOMAIN ownership_history
      BY <1>15
    <3>2. r[1] = key[1] /\ r[2] = key[2] /\ r[3] = current_ownership[key].mod_tx_score
      OBVIOUS
    <3> HIDE DEF r
    <3>3. r[3] \in Nat /\ ~ (r[3] < threshold)
      BY <1>2, <1>17, <2>2, <3>1, <3>2
    <3>4. r \in rows
      BY <1>3, <3>1, <3>3
    <3>5. ownership_history[r] = current_ownership[key].owner
      BY <1>15, <2>0, <3>1, <3>2
    <3>6. QED BY <1>7, <3>2, <3>4, <3>5
  <2>3. QED BY <2>1, <2>2
<1>19. ASSUME NEW key \in DOMAIN current_ownership, key \notin affected
       PROVE  \A k \in DOMAIN ownership_history : <<k[1], k[2]>> = key => k \in DOMAIN history
  <2> SUFFICES ASSUME NEW k \in DOMAIN ownership_history, <<k[1], k[2]>> = key
               PROVE  k \in DOMAIN history
    OBVIOUS
  <2>1. k \notin rows
    BY <1>4, <1>19
  <2>2. k[3] \in Nat /\ ~ (k[3] >= threshold)
    BY <1>2, <1>3, <2>1
  <2>3. QED BY <1>5, <2>2
<1>20. OwnershipConsistent'
  <2>1. DOMAIN current_ownership' = {<<k[1], k[2]>> : k \in DOMAIN history}
    <3>1. ASSUME NEW k \in DOMAIN history PROVE <<k[1], k[2]>> \in DOMAIN current_ownership'
      <4>1. <<k[1], k[2]>> \in DOMAIN current_ownership
        BY <1>5, <1>15
      <4>2. QED BY <1>6, <1>11, <4>1
    <3>2. ASSUME NEW key \in DOMAIN current_ownership' PROVE \E k \in DOMAIN history : <<k[1], k[2]>> = key
      <4>1. CASE key \in owned
        BY <1>6, <4>1
      <4>2. CASE key \in DOMAIN current_ownership /\ key \notin affected
        BY <1>15, <1>19, <4>2
      <4>3. QED BY <1>11, <4>1, <4>2
    <3>3. QED BY <3>1, <3>2
  <2>2. ASSUME NEW k \in DOMAIN history
        PROVE  /\ k[3] <= current_ownership'[<<k[1], k[2]>>].mod_tx_score
               /\ k[3] = current_ownership'[<<k[1], k[2]>>].mod_tx_score =>
                      current_ownership'[<<k[1], k[2]>>].owner = history[k]
    <3> DEFINE key == <<k[1], k[2]>>
    <3>1. key[1] = k[1] /\ key[2] = k[2] /\ k = <<k[1], k[2], k[3]>> /\ k \in DOMAIN ownership_history
      BY <1>2, <1>5
    <3>2. key \in DOMAIN current_ownership
      BY <1>15, <3>1
    <3>3. CASE key \in affected
      <4>1. key \in owned
        BY <1>6, <3>3
      <4>2. k[3] <= since(key)
        BY <1>10, <4>1
      <4>3. k[3] = since(key) => owner(key) = history[k]
        BY <3>1
      <4> HIDE DEF owner, key
      <4>4. QED BY <1>11, <4>1, <4>2, <4>3 DEF key
    <3>4. CASE key \notin affected
      <4>1. current_ownership'[key] = current_ownership[key] /\ history[k] = ownership_history[k]
        BY <1>5, <1>11, <3>2, <3>4
      <4>2. QED BY <1>15, <3>1, <4>1
    <3>5. QED BY <3>3, <3>4
  <2>3. ASSUME NEW key \in DOMAIN current_ownership'
        PROVE  <<key[1], key[2], current_ownership'[key].mod_tx_score>> \in DOMAIN history
    <3>1. CASE key \in owned
      BY <1>10, <1>11, <3>1
    <3>2. CASE key \in DOMAIN current_ownership /\ key \notin affected
      <4> DEFINE r == <<key[1], key[2], current_ownership[key].mod_tx_score>>
      <4>1. r \in DOMAIN ownership_history /\ <<r[1], r[2]>> = key
        BY <1>15, <1>16, <3>2
      <4>2. current_ownership'[key] = current_ownership[key]
        BY <1>11, <3>2
      <4>3. r \in DOMAIN history
        <5> HIDE DEF r
        <5> QED BY <1>19, <3>2, <4>1
      <4>4. QED BY <4>2, <4>3
    <3>3. QED BY <1>11, <3>1, <3>2
  <2>4. ASSUME NEW h \in DOMAIN address_holdings'
        PROVE  \E key \in DOMAIN current_ownership' :
                  /\ h = <<current_ownership'[key].owner, key[1], key[2]>>
                  /\ key = <<key[1], key[2]>>
                  /\ address_holdings'[h] = current_ownership'[key].mod_tx_score
    <3>1. CASE h \in regained
      <4>1. PICK key \in owned : h = <<owner(key), key[1], key[2]>>
        BY <1>8, <3>1
      <4>2. key = <<key[1], key[2]>>
        BY <1>10
      <4>3. h[2] = key[1] /\ h[3] = key[2]
        BY <4>1
      <4>4. address_holdings'[h] = since(key)
        BY <1>12, <3>1, <4>2, <4>3
      <4> HIDE DEF owner
      <4>5. QED BY <1>11, <4>1, <4>2, <4>4
    <3>2. CASE h \in DOMAIN holdings /\ h \notin regained
      <4>1. h \in DOMAIN address_holdings /\ h \notin lost /\ address_holdings'[h] = address_holdings[h]
        BY <1>9, <1>12, <3>2
      <4>2. PICK key \in DOMAIN current_ownership : h = <<current_ownership[key].owner, key[1], key[2]>>
        BY <1>15, <4>1
      <4>3. key = <<key[1], key[2]>> /\ h[2] = key[1] /\ h[3] = key[2]
        BY <1>16, <4>2
      <4>4. key \notin affected
        BY <1>18, <4>1, <4>2
      <4>5. key \in DOMAIN current_ownership' /\ current_ownership'[key] = current_ownership[key]
        BY <1>11, <4>4
      <4>6. address_holdings[h] = current_ownership[key].mod_tx_score
        BY <1>15, <4>1, <4>3
      <4>7. QED BY <4>1, <4>2, <4>3, <4>5, <4>6
    <3>3. QED BY <1>12, <3>1, <3>2
  <2>5. ASSUME NEW key \in DOMAIN current_ownership'
        PROVE  <<current_ownership'[key].owner, key[1], key[2]>> \in DOMAIN address_holdings'
    <3>1. CASE key \in owned
      <4> HIDE DEF owner
      <4> QED BY <1>8, <1>11, <1>12, <3>1
    <3>2. CASE key \in DOMAIN current_ownership /\ key \notin affected
      BY <1>9, <1>11, <1>12, <1>15, <1>18, <3>2
    <3>3. QED BY <1>11, <3>1, <3>2
  <2>6. DOMAIN address_holdings' =
           {<<current_ownership'[key].owner, key[1], key[2]>> : key \in DOMAIN current_ownership'}
    BY <2>4, <2>5
  <2>7. \A h \in DOMAIN address_holdings' :
           address_holdings'[h] = current_ownership'[<<h[2], h[3]>>].mod_tx_score
    <3> SUFFICES ASSUME NEW h \in DOMAIN address_holdings'
                 PROVE  address_holdings'[h] = current_ownership'[<<h[2], h[3]>>].mod_tx_score
      OBVIOUS
    <3>1. PICK key \in DOMAIN current_ownership' :
             /\ h = <<current_ownership'[key].owner, key[1], key[2]>>
             /\ key = <<key[1], key[2]>>
             /\ address_holdings'[h] = current_ownership'[key].mod_tx_score
      BY <2>4
    <3>2. h[2] = key[1] /\ h[3] = key[2]
      BY <3>1
    <3>3. QED BY <3>1, <3>2
  <2>8. QED BY <1>1, <2>1, <2>2, <2>3, <2>6, <2>7 DEF OwnershipConsistent
<1>21. QED BY <1>14, <1>20

-----------------------------------------------------------------------------
(* Listings.                                                               *)

\* The token a recorded operation is about.
KeyOf(s) == <<operation_history[s].op.tick, operation_history[s].op.token>>

\* The listing a recorded send spends.
SpentBy(s) == tx_id_to_opscore[operation_history[s].op.listing_utxo_txid]

\* No change of hands of the token `key` is recorded at a score in S.
Unmoved(key, S) == \A k \in DOMAIN ownership_history : <<k[1], k[2]>> = key => k[3] \notin S

\* A token was listed by its owner: the latest row of its history then.
ListedByOwner ==
    \A l \in Standing("list") :
        \E k \in DOMAIN ownership_history :
            /\ <<k[1], k[2]>> = KeyOf(l) /\ k[3] < l
            /\ ownership_history[k] = operation_history[l].op.sender
            /\ Unmoved(KeyOf(l), (k[3] + 1)..(l - 1))

\* A send spends a listing that stands and that no other send spends; between
\* the two the token neither moved nor was listed again.
SendsBacked ==
    \A s \in Standing("send") :
        /\ operation_history[s].op.listing_utxo_txid \in DOMAIN tx_id_to_opscore
        /\ SpentBy(s) \in Standing("list") /\ SpentBy(s) < s /\ KeyOf(SpentBy(s)) = KeyOf(s)
        /\ \A l \in Standing("list") : KeyOf(l) = KeyOf(s) => l \notin (SpentBy(s) + 1)..s
        /\ \A r \in Standing("send") : SpentBy(r) = SpentBy(s) => r = s
        /\ Unmoved(KeyOf(s), SpentBy(s)..(s - 1))

\* A listing in force is its token's last one, is not spent, and the token has not
\* moved since.
ListingsLast ==
    \A key \in DOMAIN listings :
        LET l == listings[key].op_score
        IN  /\ key = <<key[1], key[2]>>
            /\ \A o \in Standing("list") : KeyOf(o) = key => o <= l
            /\ \A s \in Standing("send") : SpentBy(s) # l
            /\ current_ownership[key].mod_tx_score < l
-----------------------------------------------------------------------------
(* Discounts.                                                              *)

\* A discount that stands is in score_to_discount, with its fee.
DiscountsRecorded ==
    \A s \in Standing("discount") :
        LET op == operation_history[s].op
        IN  /\ <<s, op.tick, op.to>> \in DOMAIN score_to_discount
            /\ score_to_discount[<<s, op.tick, op.to>>] = op.fee

-----------------------------------------------------------------------------
(* Listings: one lemma for each kind of step.                              *)

\* What holds of listings, of the operations that made and spent them, and of
\* their tokens' history.
ListingInv == ListingsBacked /\ ListedByOwner /\ SendsBacked /\ ListingsLast

\* Listings and sends that stand are recorded below the next score.
LEMMA StandingBelow ==
    ASSUME ChainInv
    PROVE  /\ Now \in Nat
           /\ \A kind : \A s \in Standing(kind) : s \in DOMAIN operation_history /\ s \in Nat /\ s < Now
BY NowAbove DEF Standing

\* What a record says stays, whatever is recorded next.
LEMMA RecordKeeps ==
    ASSUME ChainInv, SendsBacked, NEW op, NEW token, NEW error, Arrives(op, op.kind),
           Record(op, token, error)
    PROVE  /\ \A s \in DOMAIN operation_history : KeyOf(s)' = KeyOf(s)
           /\ \A s \in Standing("send") : SpentBy(s)' = SpentBy(s)
           /\ DOMAIN operation_history \subseteq DOMAIN operation_history'
           /\ \A s \in DOMAIN operation_history : operation_history'[s] = operation_history[s]
           /\ DOMAIN tx_id_to_opscore \subseteq DOMAIN tx_id_to_opscore'
           /\ \A x \in DOMAIN tx_id_to_opscore : tx_id_to_opscore'[x] = tx_id_to_opscore[x]
<1>1. /\ DOMAIN operation_history' = DOMAIN operation_history \cup {Now}
      /\ \A s \in DOMAIN operation_history : operation_history'[s] = operation_history[s]
      /\ DOMAIN tx_id_to_opscore' = DOMAIN tx_id_to_opscore \cup {op.tx}
      /\ \A x \in DOMAIN tx_id_to_opscore : tx_id_to_opscore'[x] = tx_id_to_opscore[x]
  BY RecordFacts
<1>2. \A s \in DOMAIN operation_history : KeyOf(s)' = KeyOf(s)
  BY <1>1 DEF KeyOf
<1>3. \A s \in Standing("send") : SpentBy(s)' = SpentBy(s)
  BY <1>1 DEF SpentBy, SendsBacked, Standing
<1>4. QED BY <1>1, <1>2, <1>3

\* A step that records, takes nothing back, and moves tokens only now.
MovesOnlyNow ==
    /\ \A k \in DOMAIN ownership_history :
          k \in DOMAIN ownership_history' /\ ownership_history'[k] = ownership_history[k]
    /\ \A k \in DOMAIN ownership_history' : k \in DOMAIN ownership_history \/ k[3] = Now

\* The operations that listed a token, and the sends that stand already, keep
\* their relation to the tokens' history.
LEMMA EarlierListings ==
    ASSUME ChainInv, ListedByOwner, SendsBacked, NEW op, NEW token, NEW error,
           Arrives(op, op.kind), Record(op, token, error), MovesOnlyNow
    PROVE  /\ \A l \in Standing("list") :
                 \E k \in DOMAIN ownership_history' :
                    /\ <<k[1], k[2]>> = KeyOf(l)' /\ k[3] < l
                    /\ ownership_history'[k] = operation_history'[l].op.sender
                    /\ Unmoved(KeyOf(l), (k[3] + 1)..(l - 1))'
           /\ \A s \in Standing("send") :
                 /\ operation_history'[s].op.listing_utxo_txid \in DOMAIN tx_id_to_opscore'
                 /\ SpentBy(s)' \in Standing("list") /\ SpentBy(s)' < s
                 /\ KeyOf(SpentBy(s))' = KeyOf(s)'
                 /\ \A l \in Standing("list") : KeyOf(l)' = KeyOf(s)' => l \notin (SpentBy(s)' + 1)..s
                 /\ \A r \in Standing("send") : SpentBy(r)' = SpentBy(s)' => r = s
                 /\ Unmoved(KeyOf(s), SpentBy(s)..(s - 1))'
<1>1. /\ Now \in Nat
      /\ \A kind : \A s \in Standing(kind) : s \in DOMAIN operation_history /\ s \in Nat /\ s < Now
  BY StandingBelow
<1>2. /\ \A s \in DOMAIN operation_history : KeyOf(s)' = KeyOf(s)
      /\ \A s \in Standing("send") : SpentBy(s)' = SpentBy(s)
      /\ \A s \in DOMAIN operation_history : operation_history'[s] = operation_history[s]
      /\ DOMAIN tx_id_to_opscore \subseteq DOMAIN tx_id_to_opscore'
  BY RecordKeeps
<1>3. ASSUME NEW l \in Standing("list")
      PROVE  \E k \in DOMAIN ownership_history' :
                /\ <<k[1], k[2]>> = KeyOf(l)' /\ k[3] < l
                /\ ownership_history'[k] = operation_history'[l].op.sender
                /\ Unmoved(KeyOf(l), (k[3] + 1)..(l - 1))'
  <2>1. PICK k \in DOMAIN ownership_history :
           /\ <<k[1], k[2]>> = KeyOf(l) /\ k[3] < l
           /\ ownership_history[k] = operation_history[l].op.sender
           /\ Unmoved(KeyOf(l), (k[3] + 1)..(l - 1))
    BY DEF ListedByOwner
  <2>2. l \in DOMAIN operation_history /\ l \in Nat /\ l < Now
    BY <1>1
  <2>3. KeyOf(l)' = KeyOf(l) /\ operation_history'[l] = operation_history[l]
    BY <1>2, <2>2
  <2>4. Now \notin (k[3] + 1)..(l - 1)
    BY <1>1, <2>2
  <2>5. Unmoved(KeyOf(l), (k[3] + 1)..(l - 1))'
    BY <2>1, <2>3, <2>4 DEF Unmoved, MovesOnlyNow
  <2>6. k \in DOMAIN ownership_history' /\ ownership_history'[k] = ownership_history[k]
    BY DEF MovesOnlyNow
  <2>7. QED BY <2>1, <2>3, <2>5, <2>6
<1>4. ASSUME NEW s \in Standing("send")
      PROVE  /\ operation_history'[s].op.listing_utxo_txid \in DOMAIN tx_id_to_opscore'
             /\ SpentBy(s)' \in Standing("list") /\ SpentBy(s)' < s
             /\ KeyOf(SpentBy(s))' = KeyOf(s)'
             /\ \A l \in Standing("list") : KeyOf(l)' = KeyOf(s)' => l \notin (SpentBy(s)' + 1)..s
             /\ \A r \in Standing("send") : SpentBy(r)' = SpentBy(s)' => r = s
             /\ Unmoved(KeyOf(s), SpentBy(s)..(s - 1))'
  <2>1. /\ operation_history[s].op.listing_utxo_txid \in DOMAIN tx_id_to_opscore
        /\ SpentBy(s) \in Standing("list") /\ SpentBy(s) < s /\ KeyOf(SpentBy(s)) = KeyOf(s)
        /\ \A l \in Standing("list") : KeyOf(l) = KeyOf(s) => l \notin (SpentBy(s) + 1)..s
        /\ \A r \in Standing("send") : SpentBy(r) = SpentBy(s) => r = s
        /\ Unmoved(KeyOf(s), SpentBy(s)..(s - 1))
    BY DEF SendsBacked
  <2>2. s \in DOMAIN operation_history /\ s \in Nat /\ s < Now
    BY <1>1
  <2>3. KeyOf(s)' = KeyOf(s) /\ SpentBy(s)' = SpentBy(s) /\ operation_history'[s] = operation_history[s]
    BY <1>2, <2>2
  <2>4. SpentBy(s) \in DOMAIN operation_history /\ SpentBy(s) \in Nat
    BY <1>1, <2>1
  <2>5. KeyOf(SpentBy(s))' = KeyOf(SpentBy(s))
    <3>1. operation_history'[SpentBy(s)] = operation_history[SpentBy(s)]
      BY <1>2, <2>4
    <3>2. QED BY <2>3, <3>1 DEF KeyOf
  <2>6. \A l \in Standing("list") : KeyOf(l)' = KeyOf(l)
    BY <1>1, <1>2
  <2>7. \A r \in Standing("send") : SpentBy(r)' = SpentBy(r)
    BY <1>2
  <2>8. Now \notin SpentBy(s)..(s - 1)
    BY <1>1, <2>2, <2>4
  <2>9. Unmoved(KeyOf(s), SpentBy(s)..(s - 1))'
    BY <2>1, <2>3, <2>8 DEF Unmoved, MovesOnlyNow
  <2>10. QED BY <1>2, <2>1, <2>3, <2>5, <2>6, <2>7, <2>9
<1>5. QED BY <1>3, <1>4

\* An operation other than a successful listing or send, which moves no listed token.
LEMMA ListingsQuiet ==
    ASSUME ChainInv, ListingInv, NEW op, NEW token, NEW error,
           Arrives(op, op.kind), Record(op, token, error), MovesOnlyNow,
           error # None \/ op.kind \notin {"list", "send"}, UNCHANGED listingVars,
           \A key \in DOMAIN listings :
               key \in DOMAIN current_ownership' /\ current_ownership'[key] = current_ownership[key]
    PROVE  ListingInv'
<1>1. Standing("list")' = Standing("list") /\ Standing("send")' = Standing("send")
  <2>1. /\ Standing("list")' =
              Standing("list") \cup (IF error = None /\ op.kind = "list" THEN {Now} ELSE {})
        /\ Standing("send")' =
              Standing("send") \cup (IF error = None /\ op.kind = "send" THEN {Now} ELSE {})
    BY StandingAfterRecord
  <2>2. QED BY <2>1
<1>2. ListedByOwner' /\ SendsBacked'
  BY <1>1, EarlierListings DEF ListingInv, ListedByOwner, SendsBacked
<1>3. UNCHANGED <<listings, listings_by_tick, address_listings>>
  BY DEF listingVars
<1>4. /\ \A s \in DOMAIN operation_history : KeyOf(s)' = KeyOf(s)
      /\ \A s \in Standing("send") : SpentBy(s)' = SpentBy(s)
      /\ DOMAIN operation_history \subseteq DOMAIN operation_history'
      /\ \A s \in DOMAIN operation_history : operation_history'[s] = operation_history[s]
  BY RecordKeeps DEF ListingInv
<1>5. \A s \in Standing("list") : KeyOf(s)' = KeyOf(s)
  BY <1>4 DEF Standing
<1>6. ListingsBacked'
  BY <1>3, <1>4 DEF ListingInv, ListingsBacked, SellerKey
<1>7. ListingsLast'
  BY <1>1, <1>3, <1>4, <1>5 DEF ListingInv, ListingsLast
<1>8. QED BY <1>2, <1>6, <1>7 DEF ListingInv

\* A step that touches none of the tables listings are about.
LEMMA ListingsUntouched ==
    ASSUME ListingInv, UNCHANGED <<opVars, ownVars, listingVars>>
    PROVE  ListingInv'
<1>1. UNCHANGED <<operation_history, tx_id_to_opscore, ownership_history, current_ownership,
                  listings, listings_by_tick, address_listings>>
  BY DEF opVars, ownVars, listingVars
<1>2. /\ \A kind : Standing(kind)' = Standing(kind)
      /\ \A s : KeyOf(s)' = KeyOf(s) /\ SpentBy(s)' = SpentBy(s)
      /\ \A key, S : Unmoved(key, S)' = Unmoved(key, S)
  BY <1>1 DEF Standing, KeyOf, SpentBy, Unmoved
<1>3. ListingsBacked'
  BY <1>1 DEF ListingInv, ListingsBacked, SellerKey
<1>4. ListedByOwner'
  BY <1>1 DEF ListingInv, ListedByOwner, Standing, KeyOf, Unmoved
<1>5. SendsBacked'
  BY <1>1 DEF ListingInv, SendsBacked, Standing, KeyOf, SpentBy, Unmoved
<1>6. ListingsLast'
  BY <1>1 DEF ListingInv, ListingsLast, Standing, KeyOf, SpentBy
<1>7. QED BY <1>3, <1>4, <1>5, <1>6 DEF ListingInv

\* A token is listed by its owner, and was not listed.
LEMMA ListStep ==
    ASSUME ChainInv, ListingInv, HistoryRecorded, OwnershipConsistent, NEW op \in Ops, List(op)
    PROVE  ListingInv'
<1>0. PICK now : now = Now
  OBVIOUS
<1> DEFINE key == <<op.tick, op.token>>
           row == [seller |-> op.sender, listing_tx_id |-> op.tx, op_score |-> now]
<1>1. /\ Arrives(op, op.kind) /\ op.kind = "list" /\ Record(op, None, None)
      /\ key \notin DOMAIN listings /\ key \in DOMAIN current_ownership
      /\ current_ownership[key].owner = op.sender
  <2>1. ListError(op) = None /\ Arrives(op, "list") /\ Record(op, None, None)
    BY DEF List
  <2>2. None \notin {"InvalidListingP2sh", "TickNotFound", "TokenNotFound", "WrongOwner", "TokenAlreadyListed"}
    BY LedgerAssumption DEF CtxValidationError
  <2>3. QED BY <2>1, <2>2 DEF ListError, Exists, OwnerOf, Listed, Arrives
<1>2. /\ listings' = Put(listings, key, row)
      /\ listings_by_tick' = listings_by_tick \cup {key}
      /\ address_listings' = Put(address_listings, <<op.sender, op.tick, op.token>>, now)
      /\ UNCHANGED <<ownership_changes, ownership_history, current_ownership, address_holdings>>
  BY <1>0 DEF List, ownVars
<1>3. /\ now \in Nat
      /\ \A kind : \A s \in Standing(kind) : s \in DOMAIN operation_history /\ s \in Nat /\ s < now
  BY <1>0, StandingBelow
<1>4. /\ now \notin DOMAIN operation_history
      /\ DOMAIN operation_history' = DOMAIN operation_history \cup {now}
      /\ operation_history'[now].op = op /\ operation_history'[now].error = None
  BY <1>0, <1>1, RecordFacts
<1>5. Standing("list")' = Standing("list") \cup {now} /\ Standing("send")' = Standing("send")
  <2>1. /\ Standing("list")' =
              Standing("list") \cup (IF None = None /\ op.kind = "list" THEN {Now} ELSE {})
        /\ Standing("send")' =
              Standing("send") \cup (IF None = None /\ op.kind = "send" THEN {Now} ELSE {})
    BY <1>1, StandingAfterRecord
  <2>2. QED BY <1>0, <1>1, <2>1
<1>6. MovesOnlyNow
  BY <1>2 DEF MovesOnlyNow
<1>7. /\ \A s \in DOMAIN operation_history : KeyOf(s)' = KeyOf(s)
      /\ \A s \in Standing("send") : SpentBy(s)' = SpentBy(s)
      /\ \A s \in DOMAIN operation_history : operation_history'[s] = operation_history[s]
  BY <1>1, RecordKeeps DEF ListingInv
<1>8. KeyOf(now)' = key /\ key[1] = op.tick /\ key[2] = op.token
  BY <1>4 DEF KeyOf
<1>9. /\ DOMAIN listings' = DOMAIN listings \cup {key}
      /\ listings'[key] = row
      /\ \A other \in DOMAIN listings : other # key /\ listings'[other] = listings[other]
      /\ DOMAIN address_listings' = DOMAIN address_listings \cup {<<op.sender, op.tick, op.token>>}
      /\ address_listings'[<<op.sender, op.tick, op.token>>] = now
      /\ \A k \in DOMAIN address_listings :
            k # <<op.sender, op.tick, op.token>> => address_listings'[k] = address_listings[k]
  BY <1>1, <1>2 DEF Put
<1>10. row.seller = op.sender /\ row.listing_tx_id = op.tx /\ row.op_score = now
  OBVIOUS
<1> HIDE DEF row
<1>11. \A k \in DOMAIN ownership_history : k = <<k[1], k[2], k[3]>> /\ k[3] \in Nat /\ k[3] < now
  BY <1>0, NowAbove DEF HistoryRecorded
\* The latest row of the token names the seller.
<1>12. PICK k \in DOMAIN ownership_history :
          /\ <<k[1], k[2]>> = key /\ k[3] = current_ownership[key].mod_tx_score
          /\ ownership_history[k] = op.sender
  <2> DEFINE k == <<key[1], key[2], current_ownership[key].mod_tx_score>>
  <2>1. k \in DOMAIN ownership_history
    BY <1>1 DEF OwnershipConsistent
  <2>2. <<k[1], k[2]>> = key /\ k[3] = current_ownership[key].mod_tx_score
    BY <1>8
  <2> HIDE DEF k, key
  <2>3. ownership_history[k] = op.sender
    BY <1>1, <2>1, <2>2 DEF OwnershipConsistent
  <2>4. QED BY <2>1, <2>2, <2>3
<1>13. \A r \in DOMAIN ownership_history : <<r[1], r[2]>> = key => r[3] <= k[3]
  BY <1>12 DEF OwnershipConsistent
<1>14. ListedByOwner'
  <2>1. ASSUME NEW l \in Standing("list")'
        PROVE  \E r \in DOMAIN ownership_history' :
                  /\ <<r[1], r[2]>> = KeyOf(l)' /\ r[3] < l
                  /\ ownership_history'[r] = operation_history'[l].op.sender
                  /\ Unmoved(KeyOf(l), (r[3] + 1)..(l - 1))'
    <3>1. CASE l \in Standing("list")
      BY <1>0, <1>1, <1>6, <3>1, EarlierListings DEF ListingInv
    <3>2. CASE l = now
      <4>1. k[3] < now /\ k[3] \in Nat
        BY <1>11
      <4>2. \A r \in DOMAIN ownership_history : <<r[1], r[2]>> = key => r[3] \notin (k[3] + 1)..(now - 1)
        BY <1>11, <1>13, <4>1
      <4>3. Unmoved(KeyOf(now), (k[3] + 1)..(now - 1))'
        BY <1>2, <1>8, <4>2 DEF Unmoved
      <4>4. QED BY <1>2, <1>4, <1>8, <1>12, <3>2, <4>1, <4>3
    <3>3. QED BY <1>5, <3>1, <3>2
  <2>2. QED BY <2>1 DEF ListedByOwner
<1>15. SendsBacked'
  <2>1. ASSUME NEW s \in Standing("send")
        PROVE  /\ operation_history'[s].op.listing_utxo_txid \in DOMAIN tx_id_to_opscore'
               /\ SpentBy(s)' \in Standing("list")' /\ SpentBy(s)' < s /\ KeyOf(SpentBy(s))' = KeyOf(s)'
               /\ \A l \in Standing("list")' : KeyOf(l)' = KeyOf(s)' => l \notin (SpentBy(s)' + 1)..s
               /\ \A r \in Standing("send")' : SpentBy(r)' = SpentBy(s)' => r = s
               /\ Unmoved(KeyOf(s), SpentBy(s)..(s - 1))'
    <3>1. /\ operation_history'[s].op.listing_utxo_txid \in DOMAIN tx_id_to_opscore'
          /\ SpentBy(s)' \in Standing("list") /\ SpentBy(s)' < s /\ KeyOf(SpentBy(s))' = KeyOf(s)'
          /\ \A l \in Standing("list") : KeyOf(l)' = KeyOf(s)' => l \notin (SpentBy(s)' + 1)..s
          /\ \A r \in Standing("send") : SpentBy(r)' = SpentBy(s)' => r = s
          /\ Unmoved(KeyOf(s), SpentBy(s)..(s - 1))'
      BY <1>1, <1>6, EarlierListings DEF ListingInv
    <3>2. s \in Nat /\ s < now
      BY <1>3
    <3>3. now \notin (SpentBy(s)' + 1)..s
      BY <1>3, <3>2
    <3>4. QED BY <1>5, <3>1, <3>3
  <2>2. QED BY <1>5, <2>1 DEF SendsBacked
<1>16. \A other \in DOMAIN listings : other = <<other[1], other[2]>>
  BY DEF ListingInv, ListingsLast
<1>17. ListingsBacked'
  <2>1. listings_by_tick' = DOMAIN listings'
    BY <1>2, <1>9 DEF ListingInv, ListingsBacked
  <2>2. ASSUME NEW other \in DOMAIN listings'
        PROVE  LET l == listings'[other]
                   listed == operation_history'[l.op_score]
               IN  /\ l.op_score \in DOMAIN operation_history'
                   /\ listed.error = None
                   /\ listed.op.kind = "list" /\ <<listed.op.tick, listed.op.token>> = other
                   /\ listed.op.tx = l.listing_tx_id /\ listed.op.sender = l.seller
                   /\ other \in DOMAIN current_ownership' /\ current_ownership'[other].owner = l.seller
                   /\ <<l.seller, other[1], other[2]>> \in DOMAIN address_listings'
                   /\ address_listings'[<<l.seller, other[1], other[2]>>] = l.op_score
    <3>1. CASE other = key
      BY <1>1, <1>2, <1>4, <1>8, <1>9, <1>10, <3>1
    <3>2. CASE other \in DOMAIN listings
      <4>1. other # key /\ other = <<other[1], other[2]>> /\ listings'[other] = listings[other]
        BY <1>9, <1>16, <3>2
      <4>2. \A seller : <<seller, other[1], other[2]>> # <<op.sender, op.tick, op.token>>
        BY <4>1
      <4>3. LET l == listings[other]
                listed == operation_history[l.op_score]
            IN  /\ l.op_score \in DOMAIN operation_history
                /\ listed.error = None
                /\ listed.op.kind = "list" /\ <<listed.op.tick, listed.op.token>> = other
                /\ listed.op.tx = l.listing_tx_id /\ listed.op.sender = l.seller
                /\ other \in DOMAIN current_ownership /\ current_ownership[other].owner = l.seller
                /\ <<l.seller, other[1], other[2]>> \in DOMAIN address_listings
                /\ address_listings[<<l.seller, other[1], other[2]>>] = l.op_score
        BY <3>2 DEF ListingInv, ListingsBacked, SellerKey
      <4>4. QED BY <1>2, <1>4, <1>7, <1>9, <4>1, <4>2, <4>3
    <3>3. QED BY <1>9, <3>1, <3>2
  <2>3. QED BY <2>1, <2>2 DEF ListingsBacked, SellerKey
<1>18. ListingsLast'
  <2>1. ASSUME NEW other \in DOMAIN listings'
        PROVE  LET l == listings'[other].op_score
               IN  /\ other = <<other[1], other[2]>>
                   /\ \A o \in Standing("list")' : KeyOf(o)' = other => o <= l
                   /\ \A s \in Standing("send")' : SpentBy(s)' # l
                   /\ current_ownership'[other].mod_tx_score < l
    <3>1. CASE other = key
      <4>1. listings'[other].op_score = now
        BY <1>9, <1>10, <3>1
      <4>2. \A o \in Standing("list")' : o <= now
        BY <1>3, <1>5
      <4>3. \A s \in Standing("send")' : SpentBy(s)' # now
        <5>1. \A s \in Standing("send") : SpentBy(s) \in Standing("list") /\ SpentBy(s)' = SpentBy(s)
          BY <1>7 DEF ListingInv, SendsBacked
        <5>2. now \notin Standing("list")
          BY <1>3
        <5>3. QED BY <1>5, <5>1, <5>2
      <4>4. current_ownership'[other].mod_tx_score < now
        BY <1>2, <1>11, <1>12, <3>1
      <4>5. QED BY <3>1, <4>1, <4>2, <4>3, <4>4
    <3>2. CASE other \in DOMAIN listings
      <4> DEFINE l == listings[other].op_score
      <4>1. other # key /\ listings'[other] = listings[other]
        BY <1>9, <3>2
      <4>2. /\ other = <<other[1], other[2]>>
            /\ \A o \in Standing("list") : KeyOf(o) = other => o <= l
            /\ \A s \in Standing("send") : SpentBy(s) # l
            /\ current_ownership[other].mod_tx_score < l
        BY <3>2 DEF ListingInv, ListingsLast
      <4>3. \A o \in Standing("list")' : KeyOf(o)' = other => o <= l
        <5> SUFFICES ASSUME NEW o \in Standing("list")', KeyOf(o)' = other PROVE o <= l
          OBVIOUS
        <5>1. o # now
          BY <1>8, <4>1
        <5>2. o \in Standing("list")
          BY <1>5, <5>1
        <5>3. KeyOf(o)' = KeyOf(o)
          BY <1>3, <1>7, <5>2
        <5> HIDE DEF l
        <5>4. QED BY <4>2, <5>2, <5>3
      <4>4. \A s \in Standing("send")' : SpentBy(s)' # l
        BY <1>5, <1>7, <4>2
      <4>5. QED BY <1>2, <4>1, <4>2, <4>3, <4>4
    <3>3. QED BY <1>9, <3>1, <3>2
  <2>2. QED BY <2>1 DEF ListingsLast
<1>19. QED BY <1>14, <1>15, <1>17, <1>18 DEF ListingInv

\* What giving tokens an owner now leaves alone.
LEMMA SetOwnerMoves ==
    ASSUME NEW tick, NEW seqs, NEW from, NEW to, SetOwner(tick, seqs, from, to),
           ChainInv, HistoryRecorded
    PROVE  /\ MovesOnlyNow
           /\ \A key \in DOMAIN current_ownership :
                 /\ key \in DOMAIN current_ownership'
                 /\ (\A x \in DOMAIN seqs : key # <<tick, x>>) =>
                        current_ownership'[key] = current_ownership[key]
<1> DEFINE rows == {<<tick, x, Now>> : x \in DOMAIN seqs}
           keys == {<<tick, x>> : x \in DOMAIN seqs}
<1>1. /\ ownership_history' = PutAll(ownership_history, rows, to)
      /\ current_ownership' = PutAll(current_ownership, keys, [owner |-> to, mod_tx_score |-> Now])
  BY DEF SetOwner
<1>2. \A r \in rows : r[3] = Now
  OBVIOUS
<1>3. \A key : key \in keys <=> \E x \in DOMAIN seqs : key = <<tick, x>>
  OBVIOUS
<1> HIDE DEF rows, keys
<1>4. \A k \in DOMAIN ownership_history : k[3] < Now /\ k[3] \in Nat /\ Now \in Nat
  BY NowAbove DEF HistoryRecorded
<1>5. /\ DOMAIN ownership_history' = DOMAIN ownership_history \cup rows
      /\ \A k \in DOMAIN ownership_history \ rows : ownership_history'[k] = ownership_history[k]
  BY <1>1 DEF PutAll
<1>6. /\ DOMAIN current_ownership' = DOMAIN current_ownership \cup keys
      /\ \A k \in DOMAIN current_ownership \ keys : current_ownership'[k] = current_ownership[k]
  BY <1>1 DEF PutAll
<1>7. \A k \in DOMAIN ownership_history : k \notin rows
  BY <1>2, <1>4
<1>8. MovesOnlyNow
  BY <1>2, <1>5, <1>7 DEF MovesOnlyNow
<1>9. QED BY <1>3, <1>6, <1>8

\* A send spends the listing of its token, whose last record it is.
LEMMA SendStep ==
    ASSUME ChainInv, ListingInv, HistoryRecorded, OwnershipConsistent, NEW op \in Ops, Send(op)
    PROVE  ListingInv'
<1>0. PICK now : now = Now
  OBVIOUS
<1> DEFINE key == <<op.tick, op.token>>
<1>1. /\ Arrives(op, op.kind) /\ op.kind = "send" /\ Record(op, None, None)
      /\ key \in DOMAIN listings /\ op.listing_utxo_txid = listings[key].listing_tx_id
  <2>1. SendError(op) = None /\ Arrives(op, "send") /\ Record(op, None, None)
    BY DEF Send
  <2>2. None \notin {"ListingNotFound", "WrongListingUtxo"}
    BY LedgerAssumption DEF CtxValidationError
  <2>3. QED BY <2>1, <2>2 DEF SendError, Listed, Arrives
<1>2. PICK seller : seller = listings[key].seller
  OBVIOUS
<1>3. /\ listings' = Del(listings, key)
      /\ listings_by_tick' = listings_by_tick \ {key}
      /\ address_listings' = Del(address_listings, <<seller, op.tick, op.token>>)
      /\ SetOwner(op.tick, [t \in {op.token} |-> 0], {seller}, op.buyer) \/ UNCHANGED ownVars
  BY <1>2 DEF Send
<1>4. /\ MovesOnlyNow
      /\ \A other \in DOMAIN current_ownership :
            /\ other \in DOMAIN current_ownership'
            /\ other # key => current_ownership'[other] = current_ownership[other]
  <2>1. CASE UNCHANGED ownVars
    BY <2>1 DEF ownVars, MovesOnlyNow
  <2>2. CASE SetOwner(op.tick, [t \in {op.token} |-> 0], {seller}, op.buyer)
    <3> DEFINE seqs == [t \in {op.token} |-> 0]
    <3>1. DOMAIN seqs = {op.token}
      OBVIOUS
    <3> HIDE DEF seqs
    <3>2. /\ MovesOnlyNow
          /\ \A other \in DOMAIN current_ownership :
                /\ other \in DOMAIN current_ownership'
                /\ (\A x \in DOMAIN seqs : other # <<op.tick, x>>) =>
                       current_ownership'[other] = current_ownership[other]
      BY <2>2, SetOwnerMoves DEF seqs
    <3>3. QED BY <3>1, <3>2
  <2>3. QED BY <1>3, <2>1, <2>2
<1>5. /\ now \in Nat
      /\ \A kind : \A s \in Standing(kind) : s \in DOMAIN operation_history /\ s \in Nat /\ s < now
  BY <1>0, StandingBelow
<1>6. /\ now \notin DOMAIN operation_history
      /\ DOMAIN operation_history' = DOMAIN operation_history \cup {now}
      /\ operation_history'[now].op = op /\ operation_history'[now].error = None
      /\ DOMAIN tx_id_to_opscore' = DOMAIN tx_id_to_opscore \cup {op.tx}
      /\ \A x \in DOMAIN tx_id_to_opscore : tx_id_to_opscore'[x] = tx_id_to_opscore[x]
  BY <1>0, <1>1, RecordFacts
<1>7. Standing("send")' = Standing("send") \cup {now} /\ Standing("list")' = Standing("list")
  <2>1. /\ Standing("list")' =
              Standing("list") \cup (IF None = None /\ op.kind = "list" THEN {Now} ELSE {})
        /\ Standing("send")' =
              Standing("send") \cup (IF None = None /\ op.kind = "send" THEN {Now} ELSE {})
    BY <1>1, StandingAfterRecord
  <2>2. QED BY <1>0, <1>1, <2>1
<1>8. /\ \A s \in DOMAIN operation_history : KeyOf(s)' = KeyOf(s)
      /\ \A s \in Standing("send") : SpentBy(s)' = SpentBy(s)
      /\ \A s \in DOMAIN operation_history : operation_history'[s] = operation_history[s]
  BY <1>1, RecordKeeps DEF ListingInv
<1>9. KeyOf(now)' = key /\ key[1] = op.tick /\ key[2] = op.token
  BY <1>6 DEF KeyOf
<1>10. PICK spent : spent = listings[key].op_score
  OBVIOUS
\* The listing is the record its transaction leads to.
<1>11. /\ spent \in Standing("list") /\ KeyOf(spent) = key
       /\ operation_history[spent].op.tx = op.listing_utxo_txid
  BY <1>1, <1>10 DEF ListingInv, ListingsBacked, Standing, KeyOf
<1>12. op.listing_utxo_txid \in DOMAIN tx_id_to_opscore /\ tx_id_to_opscore[op.listing_utxo_txid] = spent
  BY <1>5, <1>11 DEF ChainInv, OperationsIndexed
<1>13. SpentBy(now)' = spent
  BY <1>6, <1>12 DEF SpentBy
<1>14. /\ \A o \in Standing("list") : KeyOf(o) = key => o <= spent
       /\ \A s \in Standing("send") : SpentBy(s) # spent
       /\ current_ownership[key].mod_tx_score < spent
  BY <1>1, <1>10 DEF ListingInv, ListingsLast
<1>15. \A k \in DOMAIN ownership_history : k[3] \in Nat /\ k[3] < now
  BY <1>0, NowAbove DEF HistoryRecorded
<1>16. ListedByOwner'
  BY <1>1, <1>4, <1>7, EarlierListings DEF ListingInv, ListedByOwner
<1>17. SendsBacked'
  <2>1. ASSUME NEW s \in Standing("send")'
        PROVE  /\ operation_history'[s].op.listing_utxo_txid \in DOMAIN tx_id_to_opscore'
               /\ SpentBy(s)' \in Standing("list")' /\ SpentBy(s)' < s /\ KeyOf(SpentBy(s))' = KeyOf(s)'
               /\ \A l \in Standing("list")' : KeyOf(l)' = KeyOf(s)' => l \notin (SpentBy(s)' + 1)..s
               /\ \A r \in Standing("send")' : SpentBy(r)' = SpentBy(s)' => r = s
               /\ Unmoved(KeyOf(s), SpentBy(s)..(s - 1))'
    <3>1. CASE s \in Standing("send")
      <4>1. /\ operation_history'[s].op.listing_utxo_txid \in DOMAIN tx_id_to_opscore'
            /\ SpentBy(s)' \in Standing("list") /\ SpentBy(s)' < s /\ KeyOf(SpentBy(s))' = KeyOf(s)'
            /\ \A l \in Standing("list") : KeyOf(l)' = KeyOf(s)' => l \notin (SpentBy(s)' + 1)..s
            /\ \A r \in Standing("send") : SpentBy(r)' = SpentBy(s)' => r = s
            /\ Unmoved(KeyOf(s), SpentBy(s)..(s - 1))'
        BY <1>1, <1>4, <3>1, EarlierListings DEF ListingInv
      <4>2. SpentBy(now)' # SpentBy(s)'
        BY <1>8, <1>13, <1>14, <3>1
      <4>3. QED BY <1>7, <4>1, <4>2
    <3>2. CASE s = now
      <4>1. spent < now /\ spent \in Nat /\ spent \in DOMAIN operation_history
        BY <1>5, <1>11
      <4>2. KeyOf(SpentBy(s))' = KeyOf(s)'
        <5>1. KeyOf(spent)' = key
          BY <1>8, <1>11, <4>1
        <5>2. KeyOf(spent)' = KeyOf(SpentBy(s))'
          BY <1>13, <3>2 DEF KeyOf
        <5>3. QED BY <1>9, <3>2, <5>1, <5>2
      <4>3. \A l \in Standing("list") : KeyOf(l)' = key => l \notin (spent + 1)..now
        <5> SUFFICES ASSUME NEW l \in Standing("list"), KeyOf(l)' = key PROVE l \notin (spent + 1)..now
          OBVIOUS
        <5>1. KeyOf(l) = key /\ l \in Nat
          BY <1>5, <1>8
        <5>2. l <= spent
          BY <1>14, <5>1
        <5>3. QED BY <4>1, <5>1, <5>2
      <4>4. \A r \in Standing("send")' : SpentBy(r)' = spent => r = now
        BY <1>7, <1>8, <1>14
      <4>5. \A k \in DOMAIN ownership_history' : <<k[1], k[2]>> = key => k[3] \notin spent..(now - 1)
        <5> SUFFICES ASSUME NEW k \in DOMAIN ownership_history', <<k[1], k[2]>> = key
                     PROVE  k[3] \notin spent..(now - 1)
          OBVIOUS
        <5>1. CASE k[3] = now
          BY <1>5, <4>1, <5>1
        <5>2. CASE k \in DOMAIN ownership_history
          <6>1. k[3] <= current_ownership[<<k[1], k[2]>>].mod_tx_score
            BY <5>2 DEF OwnershipConsistent
          <6>2. k[3] \in Nat
            BY <1>15, <5>2
          <6>3. key \in DOMAIN current_ownership
            BY <1>1 DEF ListingInv, ListingsBacked
          <6>4. <<key[1], key[2], current_ownership[key].mod_tx_score>> \in DOMAIN ownership_history
            BY <6>3 DEF OwnershipConsistent
          <6>5. <<key[1], key[2], current_ownership[key].mod_tx_score>>[3] \in Nat
            BY <1>15, <6>4
          <6>6. current_ownership[key].mod_tx_score \in Nat
            BY <6>5
          <6> HIDE DEF key
          <6>7. k[3] <= current_ownership[key].mod_tx_score
            BY <6>1
          <6>8. k[3] < spent
            BY <1>14, <4>1, <6>2, <6>6, <6>7
          <6>9. QED BY <4>1, <6>2, <6>8
        <5>3. QED BY <1>0, <1>4, <5>1, <5>2 DEF MovesOnlyNow
      <4>6. Unmoved(KeyOf(now), SpentBy(now)..(now - 1))'
        BY <1>9, <1>13, <4>5 DEF Unmoved
      <4>7. operation_history'[now].op.listing_utxo_txid \in DOMAIN tx_id_to_opscore'
        BY <1>6, <1>12
      <4>8. QED BY <1>7, <1>9, <1>11, <1>13, <3>2, <4>1, <4>2, <4>3, <4>4, <4>6, <4>7
    <3>3. QED BY <1>7, <3>1, <3>2
  <2>2. QED BY <2>1 DEF SendsBacked
<1>18. /\ DOMAIN listings' = DOMAIN listings \ {key}
       /\ \A other \in DOMAIN listings' : listings'[other] = listings[other]
       /\ DOMAIN address_listings' = DOMAIN address_listings \ {<<seller, op.tick, op.token>>}
       /\ \A k \in DOMAIN address_listings' : address_listings'[k] = address_listings[k]
  BY <1>3 DEF Del, DelAll
<1>19. \A other \in DOMAIN listings : other = <<other[1], other[2]>>
  BY DEF ListingInv, ListingsLast
<1>20. ListingsBacked'
  <2>1. listings_by_tick' = DOMAIN listings'
    BY <1>3, <1>18 DEF ListingInv, ListingsBacked
  <2>2. ASSUME NEW other \in DOMAIN listings'
        PROVE  LET l == listings'[other]
                   listed == operation_history'[l.op_score]
               IN  /\ l.op_score \in DOMAIN operation_history'
                   /\ listed.error = None
                   /\ listed.op.kind = "list" /\ <<listed.op.tick, listed.op.token>> = other
                   /\ listed.op.tx = l.listing_tx_id /\ listed.op.sender = l.seller
                   /\ other \in DOMAIN current_ownership' /\ current_ownership'[other].owner = l.seller
                   /\ <<l.seller, other[1], other[2]>> \in DOMAIN address_listings'
                   /\ address_listings'[<<l.seller, other[1], other[2]>>] = l.op_score
    <3>1. other \in DOMAIN listings /\ other # key /\ other = <<other[1], other[2]>>
          /\ listings'[other] = listings[other]
      BY <1>18, <1>19
    <3>2. \A a : <<a, other[1], other[2]>> # <<seller, op.tick, op.token>>
      BY <3>1
    <3>3. LET l == listings[other]
              listed == operation_history[l.op_score]
          IN  /\ l.op_score \in DOMAIN operation_history
              /\ listed.error = None
              /\ listed.op.kind = "list" /\ <<listed.op.tick, listed.op.token>> = other
              /\ listed.op.tx = l.listing_tx_id /\ listed.op.sender = l.seller
              /\ other \in DOMAIN current_ownership /\ current_ownership[other].owner = l.seller
              /\ <<l.seller, other[1], other[2]>> \in DOMAIN address_listings
              /\ address_listings[<<l.seller, other[1], other[2]>>] = l.op_score
      BY <3>1 DEF ListingInv, ListingsBacked, SellerKey
    <3>4. QED BY <1>4, <1>6, <1>8, <1>18, <3>1, <3>2, <3>3
  <2>3. QED BY <2>1, <2>2 DEF ListingsBacked, SellerKey
<1>21. ListingsLast'
  <2>1. ASSUME NEW other \in DOMAIN listings'
        PROVE  LET l == listings'[other].op_score
               IN  /\ other = <<other[1], other[2]>>
                   /\ \A o \in Standing("list")' : KeyOf(o)' = other => o <= l
                   /\ \A s \in Standing("send")' : SpentBy(s)' # l
                   /\ current_ownership'[other].mod_tx_score < l
    <3> DEFINE l == listings[other].op_score
    <3>1. other \in DOMAIN listings /\ other # key /\ listings'[other] = listings[other]
      BY <1>18
    <3>2. /\ other = <<other[1], other[2]>>
          /\ \A o \in Standing("list") : KeyOf(o) = other => o <= l
          /\ \A s \in Standing("send") : SpentBy(s) # l
          /\ current_ownership[other].mod_tx_score < l
      BY <3>1 DEF ListingInv, ListingsLast
    <3>3. other \in DOMAIN current_ownership /\ l \in DOMAIN operation_history /\ KeyOf(l) = other
      BY <3>1 DEF ListingInv, ListingsBacked, KeyOf
    <3> HIDE DEF l
    <3>4. l # spent
      BY <1>11, <3>1, <3>3
    <3>5. \A s \in Standing("send")' : SpentBy(s)' # l
      BY <1>7, <1>8, <1>13, <3>2, <3>4
    <3>6. \A o \in Standing("list")' : KeyOf(o)' = other => o <= l
      BY <1>5, <1>7, <1>8, <3>2
    <3>7. QED BY <1>4, <3>1, <3>2, <3>3, <3>5, <3>6 DEF l
  <2>2. QED BY <2>1 DEF ListingsLast
<1>22. QED BY <1>16, <1>17, <1>20, <1>21 DEF ListingInv

\* The changes of hands a reorganisation leaves: those recorded below the threshold.
LEMMA HistoryCut ==
    ASSUME ChainInv, HistoryRecorded, NEW threshold \in Nat, RollbackOwnership(threshold)
    PROVE  /\ \A k : k \in DOMAIN ownership_history' <=>
                         k \in DOMAIN ownership_history /\ k[3] < threshold
           /\ \A k \in DOMAIN ownership_history' : ownership_history'[k] = ownership_history[k]
<1> DEFINE gone == {k \in ownership_changes : k.score >= threshold}
           rows == {<<k.tick, k.token, k.score>> : k \in gone}
<1>1. ownership_history' = DelAll(ownership_history, rows)
  BY DEF RollbackOwnership
<1>2. \A k \in DOMAIN ownership_history :
            /\ k = <<k[1], k[2], k[3]>> /\ k[3] \in Nat
            /\ \E c \in ownership_changes : c.tick = k[1] /\ c.token = k[2] /\ c.score = k[3]
  BY NowAbove DEF HistoryRecorded
<1>3. ASSUME NEW k \in DOMAIN ownership_history
      PROVE  k \in rows <=> k[3] >= threshold
  <2>1. ASSUME k \in rows PROVE k[3] >= threshold
    <3>1. PICK c \in ownership_changes : c.score >= threshold /\ k = <<c.tick, c.token, c.score>>
      BY <2>1
    <3>2. QED BY <3>1
  <2>2. ASSUME k[3] >= threshold PROVE k \in rows
    <3>1. PICK c \in ownership_changes : c.tick = k[1] /\ c.token = k[2] /\ c.score = k[3]
      BY <1>2
    <3>2. k = <<c.tick, c.token, c.score>> /\ c \in gone
      BY <1>2, <2>2, <3>1
    <3>3. QED BY <3>2
  <2>3. QED BY <2>1, <2>2
<1> HIDE DEF rows
<1>4. \A k \in DOMAIN ownership_history : k[3] >= threshold <=> ~ (k[3] < threshold)
  BY <1>2
<1>5. /\ DOMAIN ownership_history' = DOMAIN ownership_history \ rows
      /\ \A k \in DOMAIN ownership_history' : ownership_history'[k] = ownership_history[k]
  BY <1>1 DEF DelAll
<1>6. QED BY <1>3, <1>4, <1>5

\* After a step, a token is with the owner its latest row names.
LEMMA OwnerIsLatest ==
    ASSUME OwnershipConsistent', NEW k \in DOMAIN ownership_history', NEW key, key = <<k[1], k[2]>>,
           \A r \in DOMAIN ownership_history' : r[3] \in Nat,
           \A r \in DOMAIN ownership_history' : <<r[1], r[2]>> = key => r[3] <= k[3]
    PROVE  /\ key \in DOMAIN current_ownership'
           /\ current_ownership'[key].owner = ownership_history'[k]
           /\ current_ownership'[key].mod_tx_score = k[3]
<1> DEFINE since == current_ownership'[key].mod_tx_score
           r     == <<key[1], key[2], since>>
<1>1. key \in DOMAIN current_ownership'
  BY DEF OwnershipConsistent
<1>2. r \in DOMAIN ownership_history'
  BY <1>1 DEF OwnershipConsistent
<1>3. <<r[1], r[2]>> = key /\ r[3] = since
  OBVIOUS
<1> HIDE DEF r
<1>4. k[3] <= since /\ (k[3] = since => current_ownership'[key].owner = ownership_history'[k])
  BY DEF OwnershipConsistent
<1>5. since <= k[3] /\ since \in Nat /\ k[3] \in Nat
  BY <1>2, <1>3
<1> HIDE DEF since
<1>6. since = k[3]
  BY <1>4, <1>5
<1>7. QED BY <1>1, <1>4, <1>6 DEF since

\* `all` is the table m with the rows valueOf[s] of the sends under keyOf[s].
AddedBySends(all, m, sends, keyOf, valueOf) ==
    /\ \A k : k \in DOMAIN all <=> k \in DOMAIN m \/ \E s \in sends : k = keyOf[s]
    /\ \A s \in sends : all[keyOf[s]] = valueOf[s]
    /\ \A k \in DOMAIN m : (\A s \in sends : k # keyOf[s]) => all[k] = m[k]

\* Sends that have a key each write all their rows.
LEMMA RestoreIs ==
    ASSUME NEW m, NEW sends \in SUBSET Nat, NEW keyOf, NEW valueOf, DOMAIN keyOf = sends,
           \A s, r \in sends : keyOf[s] = keyOf[r] => s = r
    PROVE  AddedBySends(Restore(m, keyOf, valueOf), m, sends, keyOf, valueOf)
<1> DEFINE writer(k) == Max({s \in sends : keyOf[s] = k})
           written   == {keyOf[s] : s \in sends}
           all       == [k \in DOMAIN m \cup written |-> IF k \in written THEN valueOf[writer(k)] ELSE m[k]]
<1>1. Restore(m, keyOf, valueOf) = all
  BY DEF Restore
<1>2. ASSUME NEW s \in sends PROVE writer(keyOf[s]) = s
  <2>1. {x \in sends : keyOf[x] = keyOf[s]} = {s}
    OBVIOUS
  <2>2. Max({s}) = s
    BY MaxIsGreatest
  <2>3. QED BY <2>1, <2>2
<1>3. \A k : k \in written <=> \E s \in sends : k = keyOf[s]
  OBVIOUS
<1> HIDE DEF writer, written
<1>4. /\ DOMAIN all = DOMAIN m \cup written
      /\ \A k \in DOMAIN m \cup written : all[k] = IF k \in written THEN valueOf[writer(k)] ELSE m[k]
  OBVIOUS
<1> HIDE DEF all
<1>5. QED BY <1>1, <1>2, <1>3, <1>4 DEF AddedBySends

\* A reorganisation restores the listings of the sends it removes, when the
\* listing is older than the removed blocks: one for each token.
LEMMA RestoringSendsAre ==
    ASSUME ChainInv, ListingInv, NEW threshold \in Nat
    PROVE  /\ RestoringSends(threshold) \subseteq Nat
           /\ \A s : s \in RestoringSends(threshold) <=>
                         s \in Standing("send") /\ s >= threshold /\ SpentBy(s) < threshold
           /\ \A s, r \in RestoringSends(threshold) : KeyOf(s) = KeyOf(r) => s = r
           /\ \A s \in RestoringSends(threshold) : \A key \in DOMAIN listings :
                 KeyOf(s) = key => listings[key].op_score >= threshold
<1>1. /\ \A kind : \A s \in Standing(kind) : s \in DOMAIN operation_history /\ s \in Nat
      /\ \A s \in DOMAIN operation_history : s \in Nat
  BY StandingBelow, NowAbove
<1>2. \A s \in Standing("send") :
         /\ operation_history[s].op.listing_utxo_txid \in DOMAIN tx_id_to_opscore
         /\ SpentBy(s) \in Standing("list") /\ SpentBy(s) < s /\ KeyOf(SpentBy(s)) = KeyOf(s)
         /\ \A l \in Standing("list") : KeyOf(l) = KeyOf(s) => l \notin (SpentBy(s) + 1)..s
         /\ \A r \in Standing("send") : SpentBy(r) = SpentBy(s) => r = s
  BY DEF ListingInv, SendsBacked
<1>3. \A s : s \in RestoringSends(threshold) <=>
                 /\ s \in Standing("send") /\ s >= threshold
                 /\ operation_history[s].op.listing_utxo_txid \in DOMAIN tx_id_to_opscore
                 /\ SpentBy(s) \notin threshold..s
                 /\ operation_history[SpentBy(s)].error = None
                 /\ operation_history[SpentBy(s)].op.kind = "list"
  BY DEF RestoringSends, RemovedOps, Standing, SpentBy
<1>4. \A l \in Standing("list") :
         operation_history[l].error = None /\ operation_history[l].op.kind = "list"
  BY DEF Standing
<1>5. ASSUME NEW s \in Standing("send"), s >= threshold
      PROVE  SpentBy(s) \notin threshold..s <=> SpentBy(s) < threshold
  BY <1>1, <1>2, <1>5
<1>6. \A s : s \in RestoringSends(threshold) <=>
                 s \in Standing("send") /\ s >= threshold /\ SpentBy(s) < threshold
  BY <1>2, <1>3, <1>4, <1>5
<1>7. ASSUME NEW s \in RestoringSends(threshold)
      PROVE  /\ s \in Standing("send") /\ s \in Nat /\ s >= threshold
             /\ SpentBy(s) \in Standing("list") /\ SpentBy(s) \in Nat /\ SpentBy(s) < threshold
             /\ KeyOf(SpentBy(s)) = KeyOf(s)
  BY <1>1, <1>2, <1>6
<1>8. ASSUME NEW s \in RestoringSends(threshold), NEW l \in Standing("list"), KeyOf(l) = KeyOf(s),
             l < threshold
      PROVE  l <= SpentBy(s)
  <2>1. l \notin (SpentBy(s) + 1)..s
    BY <1>2, <1>7, <1>8
  <2>2. l \in Nat
    BY <1>1
  <2>3. QED BY <1>7, <1>8, <2>1, <2>2
<1>9. ASSUME NEW s \in RestoringSends(threshold), NEW r \in RestoringSends(threshold),
             KeyOf(s) = KeyOf(r)
      PROVE  s = r
  <2>1. SpentBy(r) <= SpentBy(s) /\ SpentBy(s) <= SpentBy(r)
    BY <1>7, <1>8, <1>9
  <2>2. SpentBy(r) = SpentBy(s)
    BY <1>7, <2>1
  <2>3. QED BY <1>2, <1>7, <2>2
<1>10. ASSUME NEW s \in RestoringSends(threshold), NEW key \in DOMAIN listings, KeyOf(s) = key
       PROVE  listings[key].op_score >= threshold
  <2> DEFINE l == listings[key].op_score
  <2>1. l \in Standing("list") /\ KeyOf(l) = key
    BY DEF ListingInv, ListingsBacked, Standing, KeyOf
  <2>2. /\ \A o \in Standing("list") : KeyOf(o) = key => o <= l
        /\ \A x \in Standing("send") : SpentBy(x) # l
    BY DEF ListingInv, ListingsLast
  <2> HIDE DEF l
  <2>3. SpentBy(s) <= l /\ l \in Nat
    BY <1>1, <1>7, <1>10, <2>1, <2>2
  <2>4. l < threshold => l <= SpentBy(s)
    BY <1>8, <1>10, <2>1
  <2>5. l # SpentBy(s)
    BY <1>7, <2>2
  <2>6. l >= threshold
    BY <1>7, <2>3, <2>4, <2>5
  <2>7. QED BY <2>6 DEF l
<1>11. RestoringSends(threshold) \subseteq Nat
  BY <1>7
<1>12. QED BY <1>6, <1>9, <1>10, <1>11

\* A restored listing is the one the send spends.
LEMMA RestoredFields ==
    ASSUME NEW s
    PROVE  /\ RestoredListing(s).seller = operation_history[SpentBy(s)].op.sender
           /\ RestoredListing(s).listing_tx_id = operation_history[SpentBy(s)].op.tx
           /\ RestoredListing(s).op_score = SpentBy(s)
BY DEF RestoredListing, SpentBy

\* What the listing tables hold after a reorganisation: the restored listings, and
\* those older than the removed blocks.
LEMMA RestoredTables ==
    ASSUME ChainInv, ListingInv, NEW threshold \in Nat, RollbackListings(threshold)
    PROVE  /\ listings_by_tick' = DOMAIN listings'
           /\ \A key \in DOMAIN listings' :
                 \/ \E s \in RestoringSends(threshold) : key = KeyOf(s)
                 \/ key \in DOMAIN listings /\ listings[key].op_score < threshold
                    /\ listings'[key] = listings[key]
           /\ \A s \in RestoringSends(threshold) : KeyOf(s) \in DOMAIN listings' =>
                 listings'[KeyOf(s)] = RestoredListing(s)
           /\ \A key \in DOMAIN listings' :
                 /\ SellerKey(listings'[key].seller, key) \in DOMAIN address_listings'
                 /\ address_listings'[SellerKey(listings'[key].seller, key)] = listings'[key].op_score
           /\ \A s \in RestoringSends(threshold) : KeyOf(s) \in DOMAIN listings'
           /\ \A key \in DOMAIN listings : listings[key].op_score < threshold =>
                 key \in DOMAIN listings' /\ listings'[key] = listings[key]
<1> DEFINE sends    == RestoringSends(threshold)
           keyOf    == [s \in sends |-> RestoredKey(s)]
           valueOf  == [s \in sends |-> RestoredListing(s)]
           sellerOf == [s \in sends |-> RestoredSellerKey(s)]
           scoreOf  == [s \in sends |-> RestoredListing(s).op_score]
           restored == Restore(listings, keyOf, valueOf)
           indexed  == Restore(address_listings, sellerOf, scoreOf)
           gone     == {key \in DOMAIN restored : restored[key].op_score >= threshold}
           lost     == {SellerKey(restored[key].seller, key) : key \in gone}
<1>1. /\ listings' = DelAll(restored, gone)
      /\ listings_by_tick' = (listings_by_tick \cup {RestoredKey(s) : s \in sends}) \ gone
      /\ address_listings' = DelAll(indexed, lost)
  BY DEF RollbackListings
<1>2. /\ sends \in SUBSET Nat
      /\ \A s, r \in sends : KeyOf(s) = KeyOf(r) => s = r
      /\ \A s \in sends : \A key \in DOMAIN listings :
            KeyOf(s) = key => listings[key].op_score >= threshold
      /\ \A s \in sends : SpentBy(s) < threshold /\ SpentBy(s) \in Nat
  <2>1. \A s \in sends : s \in Standing("send") /\ SpentBy(s) < threshold
    BY RestoringSendsAre
  <2>2. \A s \in Standing("send") : SpentBy(s) \in Standing("list")
    BY DEF ListingInv, SendsBacked
  <2>3. \A l \in Standing("list") : l \in Nat
    BY StandingBelow
  <2>4. QED BY <2>1, <2>2, <2>3, RestoringSendsAre
<1>3. \A s : RestoredKey(s) = KeyOf(s) /\ KeyOf(s) = <<KeyOf(s)[1], KeyOf(s)[2]>>
  BY DEF RestoredKey, KeyOf
<1>4. \A s : RestoredListing(s).op_score = SpentBy(s)
  BY DEF RestoredListing, SpentBy
<1>5. \A s : RestoredSellerKey(s) = SellerKey(RestoredListing(s).seller, KeyOf(s))
  BY <1>3 DEF RestoredSellerKey
<1>6. \A a, b, key, other : SellerKey(a, key) = SellerKey(b, other) =>
          key[1] = other[1] /\ key[2] = other[2]
  BY DEF SellerKey
<1>7. \A s, r \in sends : RestoredSellerKey(s) = RestoredSellerKey(r) => s = r
  BY <1>2, <1>3, <1>5, <1>6
<1>8. /\ DOMAIN keyOf = sends /\ \A s \in sends : keyOf[s] = KeyOf(s) /\ valueOf[s] = RestoredListing(s)
      /\ DOMAIN sellerOf = sends
      /\ \A s \in sends : sellerOf[s] = SellerKey(RestoredListing(s).seller, KeyOf(s))
                          /\ scoreOf[s] = SpentBy(s)
  BY <1>3, <1>4, <1>5
<1>9. /\ \A s, r \in sends : keyOf[s] = keyOf[r] => s = r
      /\ \A s, r \in sends : sellerOf[s] = sellerOf[r] => s = r
  BY <1>2, <1>5, <1>7, <1>8
<1> HIDE DEF sends, keyOf, valueOf, sellerOf, scoreOf
<1>10. /\ AddedBySends(restored, listings, sends, keyOf, valueOf)
       /\ AddedBySends(indexed, address_listings, sends, sellerOf, scoreOf)
  BY <1>2, <1>8, <1>9, RestoreIs
<1> HIDE DEF restored, indexed
<1>11. /\ \A k : k \in DOMAIN indexed <=> k \in DOMAIN address_listings \/ \E s \in sends : k = sellerOf[s]
       /\ \A s \in sends : indexed[sellerOf[s]] = scoreOf[s]
       /\ \A k \in DOMAIN address_listings :
             (\A s \in sends : k # sellerOf[s]) => indexed[k] = address_listings[k]
  BY <1>10 DEF AddedBySends
<1>20. /\ \A k : k \in DOMAIN restored <=> k \in DOMAIN listings \/ \E s \in sends : k = keyOf[s]
       /\ \A s \in sends : restored[keyOf[s]] = valueOf[s]
       /\ \A k \in DOMAIN listings : (\A s \in sends : k # keyOf[s]) => restored[k] = listings[k]
  BY <1>10 DEF AddedBySends
<1>12. \A key : key \in DOMAIN listings' <=> key \in DOMAIN restored /\ ~ (restored[key].op_score >= threshold)
  BY <1>1 DEF DelAll
<1>13. \A key \in DOMAIN listings' : listings'[key] = restored[key]
  BY <1>1 DEF DelAll
<1>14. \A key \in DOMAIN listings : key = <<key[1], key[2]>> /\ listings[key].op_score \in Nat
  BY NowAbove DEF ListingInv, ListingsLast, ListingsBacked
<1>15. listings_by_tick' = DOMAIN listings'
  <2>1. listings_by_tick = DOMAIN listings
    BY DEF ListingInv, ListingsBacked
  <2>2. DOMAIN listings' = DOMAIN restored \ gone
    BY <1>1 DEF DelAll
  <2>3. \A k : k \in {RestoredKey(s) : s \in sends} <=> \E s \in sends : k = keyOf[s]
    BY <1>3, <1>8
  <2> HIDE DEF gone
  <2>4. QED BY <1>1, <1>20, <2>1, <2>2, <2>3
<1>16. \A key \in DOMAIN listings' :
          \/ \E s \in sends : key = KeyOf(s)
          \/ /\ key \in DOMAIN listings /\ listings[key].op_score < threshold
             /\ listings'[key] = listings[key]
             /\ \A s \in sends : key # KeyOf(s)
  BY <1>8, <1>20, <1>12, <1>13, <1>14
<1>17. \A s \in sends : KeyOf(s) \in DOMAIN listings' => listings'[KeyOf(s)] = RestoredListing(s)
  BY <1>8, <1>20, <1>13
<1>18. ASSUME NEW key \in DOMAIN listings'
       PROVE  /\ SellerKey(listings'[key].seller, key) \in DOMAIN address_listings'
              /\ address_listings'[SellerKey(listings'[key].seller, key)] = listings'[key].op_score
  <2> DEFINE k == SellerKey(listings'[key].seller, key)
  <2>1. key = <<key[1], key[2]>>
    BY <1>3, <1>14, <1>16
  <2>2. k \in DOMAIN indexed /\ indexed[k] = listings'[key].op_score
    <3>1. CASE \E s \in sends : key = KeyOf(s)
      <4>1. PICK s \in sends : key = KeyOf(s)
        BY <3>1
      <4>2. listings'[key] = RestoredListing(s)
        BY <1>17, <4>1
      <4>3. k = sellerOf[s] /\ listings'[key].op_score = scoreOf[s]
        BY <1>4, <1>8, <4>1, <4>2
      <4> HIDE DEF k
      <4>4. QED BY <1>11, <4>3
    <3>2. CASE /\ key \in DOMAIN listings /\ listings'[key] = listings[key]
               /\ \A s \in sends : key # KeyOf(s)
      <4>1. k \in DOMAIN address_listings /\ address_listings[k] = listings[key].op_score
        BY <3>2 DEF ListingInv, ListingsBacked
      <4>2. \A s \in sends : k # sellerOf[s]
        BY <1>3, <1>6, <1>8, <2>1, <3>2
      <4> HIDE DEF k
      <4>3. QED BY <1>11, <3>2, <4>1, <4>2
    <3>3. QED BY <1>16, <3>1, <3>2
  <2>3. k \notin lost
    <3> SUFFICES ASSUME NEW other \in gone, k = SellerKey(restored[other].seller, other)
                 PROVE  FALSE
      OBVIOUS
    <3>1. other[1] = key[1] /\ other[2] = key[2]
      BY <1>6
    <3>2. other \in DOMAIN listings \/ \E s \in sends : other = KeyOf(s)
      BY <1>8, <1>20
    <3>3. other = <<other[1], other[2]>>
      BY <1>3, <1>14, <3>2
    <3>4. other = key
      BY <2>1, <3>1, <3>3
    <3>5. QED BY <1>12, <3>4
  <2> HIDE DEF k, lost
  <2>4. QED BY <1>1, <2>2, <2>3 DEF DelAll, k
<1>19. ASSUME NEW s \in sends PROVE KeyOf(s) \in DOMAIN listings'
  <2>1. keyOf[s] \in DOMAIN restored /\ restored[keyOf[s]] = valueOf[s]
    BY <1>20
  <2>2. restored[KeyOf(s)].op_score = SpentBy(s) /\ KeyOf(s) \in DOMAIN restored
    BY <1>4, <1>8, <2>1
  <2>3. ~ (SpentBy(s) >= threshold)
    BY <1>2
  <2>4. QED BY <1>12, <2>2, <2>3
<1>21. ASSUME NEW key \in DOMAIN listings, listings[key].op_score < threshold
       PROVE  key \in DOMAIN listings' /\ listings'[key] = listings[key]
  <2>1. listings[key].op_score \in Nat
    BY <1>14
  <2>2. ~ (listings[key].op_score >= threshold)
    BY <1>21, <2>1
  <2>3. \A s \in sends : key # keyOf[s]
    BY <1>2, <1>8, <2>2
  <2>4. key \in DOMAIN restored /\ restored[key] = listings[key]
    BY <1>20, <2>3
  <2>5. QED BY <1>12, <1>13, <2>2, <2>4
<1>22. QED BY <1>15, <1>16, <1>17, <1>18, <1>19, <1>21 DEF sends

\* A reorganisation restores the listings of removed sends, whose tokens are their
\* sellers' again, and keeps the older ones.
LEMMA ReorgListings ==
    ASSUME ChainInv, ListingInv, HistoryRecorded, OwnershipConsistent, OwnershipConsistent',
           NEW threshold \in Nat, RollbackListings(threshold), RollbackOwnership(threshold),
           DOMAIN operation_history' = {s \in DOMAIN operation_history : s < threshold},
           \A s \in DOMAIN operation_history' : operation_history'[s] = operation_history[s],
           DOMAIN tx_id_to_opscore' = {x \in DOMAIN tx_id_to_opscore : tx_id_to_opscore[x] < threshold},
           \A x \in DOMAIN tx_id_to_opscore' : tx_id_to_opscore'[x] = tx_id_to_opscore[x],
           \A kind : Standing(kind)' = {s \in Standing(kind) : s < threshold}
    PROVE  ListingInv'
<1>1. /\ \A kind : \A s \in Standing(kind) : s \in DOMAIN operation_history /\ s \in Nat
      /\ \A kind : \A s \in Standing(kind)' :
            s \in Standing(kind) /\ s < threshold /\ s \in Nat /\ s \in DOMAIN operation_history'
  BY StandingBelow
<1>2. \A s \in DOMAIN operation_history' : KeyOf(s)' = KeyOf(s)
  BY DEF KeyOf
<1>3. \A s \in Standing("send") :
         /\ operation_history[s].op.listing_utxo_txid \in DOMAIN tx_id_to_opscore
         /\ SpentBy(s) \in Standing("list") /\ SpentBy(s) < s /\ KeyOf(SpentBy(s)) = KeyOf(s)
         /\ \A l \in Standing("list") : KeyOf(l) = KeyOf(s) => l \notin (SpentBy(s) + 1)..s
         /\ \A r \in Standing("send") : SpentBy(r) = SpentBy(s) => r = s
         /\ Unmoved(KeyOf(s), SpentBy(s)..(s - 1))
  BY DEF ListingInv, SendsBacked
<1>4. ASSUME NEW s \in Standing("send")'
      PROVE  /\ operation_history'[s].op.listing_utxo_txid \in DOMAIN tx_id_to_opscore'
             /\ SpentBy(s)' = SpentBy(s) /\ SpentBy(s) \in Standing("list")'
  <2>1. /\ s \in Standing("send") /\ s \in Nat /\ s < threshold
        /\ operation_history'[s] = operation_history[s]
    BY <1>1
  <2>2. SpentBy(s) \in Standing("list") /\ SpentBy(s) < s /\ SpentBy(s) \in Nat
    BY <1>1, <1>3, <2>1
  <2>3. SpentBy(s) < threshold
    BY <2>1, <2>2
  <2>4. operation_history'[s].op.listing_utxo_txid \in DOMAIN tx_id_to_opscore'
    BY <1>3, <2>1, <2>3 DEF SpentBy
  <2>5. SpentBy(s)' = SpentBy(s)
    BY <2>1, <2>4 DEF SpentBy
  <2>6. QED BY <2>2, <2>3, <2>4, <2>5
<1>5. /\ \A k : k \in DOMAIN ownership_history' <=> k \in DOMAIN ownership_history /\ k[3] < threshold
      /\ \A k \in DOMAIN ownership_history' : ownership_history'[k] = ownership_history[k]
  BY HistoryCut
<1>6. /\ \A k \in DOMAIN ownership_history : k = <<k[1], k[2], k[3]>> /\ k[3] \in Nat
      /\ \A k \in DOMAIN ownership_history' : k[3] \in Nat
  BY <1>5, NowAbove DEF HistoryRecorded
<1>7. \A key, S : Unmoved(key, S) => Unmoved(key, S)'
  BY <1>5 DEF Unmoved
<1>8. \A l \in Standing("list") : \E k \in DOMAIN ownership_history :
         /\ <<k[1], k[2]>> = KeyOf(l) /\ k[3] < l
         /\ ownership_history[k] = operation_history[l].op.sender
         /\ Unmoved(KeyOf(l), (k[3] + 1)..(l - 1))
  BY DEF ListingInv, ListedByOwner
<1>9. ListedByOwner'
  <2> SUFFICES ASSUME NEW l \in Standing("list")'
               PROVE  \E k \in DOMAIN ownership_history' :
                         /\ <<k[1], k[2]>> = KeyOf(l)' /\ k[3] < l
                         /\ ownership_history'[k] = operation_history'[l].op.sender
                         /\ Unmoved(KeyOf(l), (k[3] + 1)..(l - 1))'
    BY DEF ListedByOwner
  <2>1. /\ l \in Standing("list") /\ l \in Nat /\ l < threshold
        /\ operation_history'[l] = operation_history[l] /\ KeyOf(l)' = KeyOf(l)
    BY <1>1, <1>2
  <2>2. PICK k \in DOMAIN ownership_history :
           /\ <<k[1], k[2]>> = KeyOf(l) /\ k[3] < l
           /\ ownership_history[k] = operation_history[l].op.sender
           /\ Unmoved(KeyOf(l), (k[3] + 1)..(l - 1))
    BY <1>8, <2>1
  <2>3. k[3] < threshold
    BY <1>6, <2>1, <2>2
  <2>4. k \in DOMAIN ownership_history' /\ ownership_history'[k] = ownership_history[k]
    BY <1>5, <2>3
  <2>5. Unmoved(KeyOf(l), (k[3] + 1)..(l - 1))'
    BY <1>5, <2>1, <2>2 DEF Unmoved
  <2>6. QED BY <2>1, <2>2, <2>4, <2>5
<1>10. SendsBacked'
  <2> SUFFICES ASSUME NEW s \in Standing("send")'
               PROVE  /\ operation_history'[s].op.listing_utxo_txid \in DOMAIN tx_id_to_opscore'
                      /\ SpentBy(s)' \in Standing("list")' /\ SpentBy(s)' < s
                      /\ KeyOf(SpentBy(s))' = KeyOf(s)'
                      /\ \A l \in Standing("list")' : KeyOf(l)' = KeyOf(s)' => l \notin (SpentBy(s)' + 1)..s
                      /\ \A r \in Standing("send")' : SpentBy(r)' = SpentBy(s)' => r = s
                      /\ Unmoved(KeyOf(s), SpentBy(s)..(s - 1))'
    BY DEF SendsBacked
  <2>1. s \in Standing("send") /\ s \in DOMAIN operation_history' /\ KeyOf(s)' = KeyOf(s)
    BY <1>1, <1>2
  <2>2. SpentBy(s)' = SpentBy(s) /\ SpentBy(s) \in Standing("list")'
    BY <1>4
  <2>3. KeyOf(SpentBy(s))' = KeyOf(SpentBy(s))
    <3>1. operation_history'[SpentBy(s)] = operation_history[SpentBy(s)]
      BY <1>1, <2>2
    <3>2. QED BY <2>2, <3>1 DEF KeyOf
  <2>4. \A l \in Standing("list")' : l \in Standing("list") /\ KeyOf(l)' = KeyOf(l)
    BY <1>1, <1>2
  <2>5. \A r \in Standing("send")' : r \in Standing("send") /\ SpentBy(r)' = SpentBy(r)
    BY <1>1, <1>4
  <2>6. Unmoved(KeyOf(s), SpentBy(s)..(s - 1))'
    BY <1>3, <1>5, <2>1, <2>2 DEF Unmoved
  <2>7. QED BY <1>3, <1>4, <2>1, <2>2, <2>3, <2>4, <2>5, <2>6
<1>11. /\ listings_by_tick' = DOMAIN listings'
       /\ \A key \in DOMAIN listings' :
             \/ \E s \in RestoringSends(threshold) : key = KeyOf(s)
             \/ key \in DOMAIN listings /\ listings[key].op_score < threshold
                /\ listings'[key] = listings[key]
       /\ \A s \in RestoringSends(threshold) : KeyOf(s) \in DOMAIN listings' =>
             listings'[KeyOf(s)] = RestoredListing(s)
       /\ \A key \in DOMAIN listings' :
             /\ SellerKey(listings'[key].seller, key) \in DOMAIN address_listings'
             /\ address_listings'[SellerKey(listings'[key].seller, key)] = listings'[key].op_score
  BY RestoredTables
<1>12. \A s \in RestoringSends(threshold) :
          s \in Standing("send") /\ s >= threshold /\ SpentBy(s) < threshold
  BY RestoringSendsAre
\* What ListingsBacked and ListingsLast say of a listing l of a token.
<1>13. ASSUME NEW key \in DOMAIN listings'
       PROVE  LET l == listings'[key].op_score
              IN  /\ key = <<key[1], key[2]>>
                  /\ l \in Standing("list")' /\ KeyOf(l) = key
                  /\ operation_history[l].op.tx = listings'[key].listing_tx_id
                  /\ operation_history[l].op.sender = listings'[key].seller
                  /\ key \in DOMAIN current_ownership'
                  /\ current_ownership'[key].owner = listings'[key].seller
                  /\ current_ownership'[key].mod_tx_score < l
                  /\ \A o \in Standing("list")' : KeyOf(o) = key => o <= l
                  /\ \A s \in Standing("send")' : SpentBy(s) # l
  <2>1. CASE \E s \in RestoringSends(threshold) : key = KeyOf(s)
    <3>1. PICK s \in RestoringSends(threshold) : key = KeyOf(s)
      BY <2>1
    <3>2. PICK l : l = SpentBy(s)
      OBVIOUS
    <3>3. /\ s \in Standing("send") /\ s \in Nat /\ s >= threshold /\ l < threshold
          /\ l \in Standing("list") /\ l \in Nat /\ KeyOf(l) = key
          /\ \A o \in Standing("list") : KeyOf(o) = key => o \notin (l + 1)..s
          /\ \A r \in Standing("send") : SpentBy(r) = l => r = s
          /\ Unmoved(key, l..(s - 1))
      BY <1>1, <1>3, <1>12, <3>1, <3>2
    <3>4. /\ listings'[key].seller = operation_history[l].op.sender
          /\ listings'[key].listing_tx_id = operation_history[l].op.tx
          /\ listings'[key].op_score = l
      <4>1. listings'[key] = RestoredListing(s)
        BY <1>11, <3>1
      <4>2. QED BY <3>2, <4>1, RestoredFields
    <3>5. PICK k \in DOMAIN ownership_history :
             /\ <<k[1], k[2]>> = key /\ k[3] < l
             /\ ownership_history[k] = operation_history[l].op.sender
             /\ Unmoved(key, (k[3] + 1)..(l - 1))
      BY <1>8, <3>3
    <3>6. k \in DOMAIN ownership_history' /\ ownership_history'[k] = ownership_history[k] /\ k[3] \in Nat
      BY <1>5, <1>6, <3>3, <3>5
    <3>7. ASSUME NEW r \in DOMAIN ownership_history', <<r[1], r[2]>> = key PROVE r[3] <= k[3]
      <4>1. r \in DOMAIN ownership_history /\ r[3] < threshold /\ r[3] \in Nat
        BY <1>5, <1>6
      <4>2. r[3] \notin l..(s - 1) /\ r[3] \notin (k[3] + 1)..(l - 1)
        BY <3>3, <3>5, <3>7, <4>1 DEF Unmoved
      <4>3. QED BY <3>3, <3>6, <4>1, <4>2
    <3>8. /\ key \in DOMAIN current_ownership'
          /\ current_ownership'[key].owner = ownership_history'[k]
          /\ current_ownership'[key].mod_tx_score = k[3]
      BY <1>6, <3>5, <3>6, <3>7, OwnerIsLatest
    <3>9. l \in Standing("list")'
      BY <3>3
    <3>10. \A o \in Standing("list")' : KeyOf(o) = key => o <= l
      BY <1>1, <3>3
    <3>11. \A r \in Standing("send")' : SpentBy(r) # l
      BY <1>1, <3>3
    <3>12. key = <<key[1], key[2]>>
      BY <3>1 DEF KeyOf
    <3>13. QED BY <3>3, <3>4, <3>5, <3>6, <3>8, <3>9, <3>10, <3>11, <3>12
  <2>2. CASE /\ key \in DOMAIN listings /\ listings[key].op_score < threshold
             /\ listings'[key] = listings[key]
    <3>1. PICK l : l = listings[key].op_score
      OBVIOUS
    <3>2. /\ l \in Standing("list") /\ l \in Nat /\ KeyOf(l) = key
          /\ operation_history[l].op.tx = listings[key].listing_tx_id
          /\ operation_history[l].op.sender = listings[key].seller
          /\ key \in DOMAIN current_ownership /\ current_ownership[key].owner = listings[key].seller
      BY <1>1, <2>2, <3>1 DEF ListingInv, ListingsBacked, Standing, KeyOf
    <3>3. /\ key = <<key[1], key[2]>>
          /\ \A o \in Standing("list") : KeyOf(o) = key => o <= l
          /\ \A s \in Standing("send") : SpentBy(s) # l
          /\ current_ownership[key].mod_tx_score < l
      BY <2>2, <3>1 DEF ListingInv, ListingsLast
    <3> DEFINE k == <<key[1], key[2], current_ownership[key].mod_tx_score>>
    <3>4. k \in DOMAIN ownership_history
      BY <3>2 DEF OwnershipConsistent
    <3>5. <<k[1], k[2]>> = key /\ k[3] = current_ownership[key].mod_tx_score
      BY <3>3
    <3> HIDE DEF k
    <3>6. ownership_history[k] = listings[key].seller
      BY <3>2, <3>4, <3>5 DEF OwnershipConsistent
    <3>7. k[3] \in Nat /\ k[3] < l /\ k[3] < threshold
      BY <1>6, <2>2, <3>1, <3>2, <3>3, <3>4, <3>5
    <3>8. k \in DOMAIN ownership_history' /\ ownership_history'[k] = ownership_history[k]
      BY <1>5, <3>4, <3>7
    <3>9. \A r \in DOMAIN ownership_history' : <<r[1], r[2]>> = key => r[3] <= k[3]
      BY <1>5, <3>5 DEF OwnershipConsistent
    <3>10. /\ key \in DOMAIN current_ownership'
           /\ current_ownership'[key].owner = ownership_history'[k]
           /\ current_ownership'[key].mod_tx_score = k[3]
      BY <1>6, <3>5, <3>8, <3>9, OwnerIsLatest
    <3>11. l \in Standing("list")'
      BY <2>2, <3>1, <3>2
    <3>12. /\ \A o \in Standing("list")' : KeyOf(o) = key => o <= l
           /\ \A s \in Standing("send")' : SpentBy(s) # l
      BY <1>1, <3>3
    <3>13. QED BY <2>2, <3>1, <3>2, <3>3, <3>6, <3>7, <3>8, <3>10, <3>11, <3>12
  <2>3. QED BY <1>11, <2>1, <2>2
<1>14. ListingsBacked'
  <2>1. ASSUME NEW key \in DOMAIN listings'
        PROVE  LET l == listings'[key]
                   listed == operation_history'[l.op_score]
               IN  /\ l.op_score \in DOMAIN operation_history'
                   /\ listed.error = None
                   /\ listed.op.kind = "list" /\ <<listed.op.tick, listed.op.token>> = key
                   /\ listed.op.tx = l.listing_tx_id /\ listed.op.sender = l.seller
                   /\ key \in DOMAIN current_ownership' /\ current_ownership'[key].owner = l.seller
    <3>1. PICK l : l = listings'[key].op_score
      OBVIOUS
    <3>2. /\ l \in Standing("list") /\ l \in DOMAIN operation_history'
          /\ operation_history'[l] = operation_history[l]
      BY <1>1, <1>13, <3>1
    <3>3. operation_history[l].error = None /\ operation_history[l].op.kind = "list"
      BY <3>2 DEF Standing
    <3>4. QED BY <1>13, <3>1, <3>2, <3>3 DEF KeyOf
  <2>2. QED BY <1>11, <2>1 DEF ListingsBacked, SellerKey
<1>15. ListingsLast'
  <2>1. ASSUME NEW key \in DOMAIN listings'
        PROVE  LET l == listings'[key].op_score
               IN  /\ key = <<key[1], key[2]>>
                   /\ \A o \in Standing("list")' : KeyOf(o)' = key => o <= l
                   /\ \A s \in Standing("send")' : SpentBy(s)' # l
                   /\ current_ownership'[key].mod_tx_score < l
    <3>1. /\ \A o \in Standing("list")' : KeyOf(o)' = KeyOf(o)
          /\ \A s \in Standing("send")' : SpentBy(s)' = SpentBy(s)
      BY <1>1, <1>2, <1>4
    <3>2. QED BY <1>13, <3>1
  <2>2. QED BY <2>1 DEF ListingsLast
<1>16. QED BY <1>9, <1>10, <1>14, <1>15 DEF ListingInv

-----------------------------------------------------------------------------
(* Discounts: one lemma for each kind of step.                             *)

DiscountInv == DiscountsStand /\ DiscountsRecorded

\* The discount a recorded operation grants.
Granted(s) ==
    [spk |-> operation_history[s].op.to, tick |-> operation_history[s].op.tick,
     score |-> s, fee |-> operation_history[s].op.fee]

\* DiscountsStand, as the set of the discounts granted.
LEMMA StandIsGranted == DiscountsStand <=> vip = {Granted(s) : s \in Standing("discount")}
BY DEF DiscountsStand, Standing, Granted

\* A step that records anything but a successful discount, or nothing.
LEMMA DiscountsQuiet ==
    ASSUME DiscountInv, UNCHANGED discountVars,
           DOMAIN operation_history \subseteq DOMAIN operation_history',
           \A s \in DOMAIN operation_history : operation_history'[s] = operation_history[s],
           Standing("discount")' = Standing("discount")
    PROVE  DiscountInv'
<1>1. vip' = vip /\ score_to_discount' = score_to_discount
  BY DEF discountVars
<1>2. \A s \in Standing("discount") : operation_history'[s] = operation_history[s]
  BY DEF Standing
<1>3. \A s \in Standing("discount") : Granted(s)' = Granted(s)
  BY <1>2 DEF Granted
<1>4. vip = {Granted(s) : s \in Standing("discount")}
  BY StandIsGranted DEF DiscountInv
<1>5. vip' = {Granted(s)' : s \in Standing("discount")'}
  BY <1>1, <1>3, <1>4
<1>6. DiscountsStand'
  BY <1>5 DEF DiscountsStand, Standing, Granted
<1>7. DiscountsRecorded'
  BY <1>1, <1>2 DEF DiscountInv, DiscountsRecorded
<1>8. QED BY <1>6, <1>7 DEF DiscountInv

\* A successful discount enters both tables.
LEMMA DiscountStep ==
    ASSUME ChainInv, DiscountInv, NEW op, Discount(op)
    PROVE  DiscountInv'
<1>0. PICK now : now = Now
  OBVIOUS
<1>1. Arrives(op, op.kind) /\ op.kind = "discount" /\ Record(op, None, None)
  BY DEF Discount, Arrives
<1>2. /\ score_to_discount' = Put(score_to_discount, <<now, op.tick, op.to>>, op.fee)
      /\ vip' = vip \cup {[spk |-> op.to, tick |-> op.tick, score |-> now, fee |-> op.fee]}
  BY <1>0 DEF Discount
<1>3. /\ \A s \in Standing("discount") : s \in DOMAIN operation_history /\ s \in Nat /\ s < now
      /\ now \in Nat
  BY <1>0, StandingBelow
<1>4. /\ operation_history'[now].op = op
      /\ \A s \in DOMAIN operation_history : operation_history'[s] = operation_history[s]
  BY <1>0, <1>1, RecordFacts
<1>5. Standing("discount")' = Standing("discount") \cup {now}
  <2>1. Standing("discount")' =
            Standing("discount") \cup (IF None = None /\ op.kind = "discount" THEN {Now} ELSE {})
    BY <1>1, StandingAfterRecord
  <2>2. QED BY <1>0, <1>1, <2>1
<1>6. \A s \in Standing("discount") : Granted(s)' = Granted(s)
  BY <1>3, <1>4 DEF Granted
<1>7. Granted(now)' = [spk |-> op.to, tick |-> op.tick, score |-> now, fee |-> op.fee]
  BY <1>4 DEF Granted
<1>8. vip = {Granted(s) : s \in Standing("discount")}
  BY StandIsGranted DEF DiscountInv
<1>9. vip' = {Granted(s)' : s \in Standing("discount")'}
  BY <1>2, <1>5, <1>6, <1>7, <1>8
<1>10. DiscountsStand'
  BY <1>9 DEF DiscountsStand, Standing, Granted
<1>11. /\ DOMAIN score_to_discount' = DOMAIN score_to_discount \cup {<<now, op.tick, op.to>>}
       /\ score_to_discount'[<<now, op.tick, op.to>>] = op.fee
       /\ \A k \in DOMAIN score_to_discount :
             k # <<now, op.tick, op.to>> => score_to_discount'[k] = score_to_discount[k]
  BY <1>2 DEF Put
<1>12. DiscountsRecorded'
  <2> SUFFICES ASSUME NEW s \in Standing("discount")'
               PROVE  LET o == operation_history'[s].op
                      IN  /\ <<s, o.tick, o.to>> \in DOMAIN score_to_discount'
                          /\ score_to_discount'[<<s, o.tick, o.to>>] = o.fee
    BY DEF DiscountsRecorded
  <2>1. CASE s = now
    BY <1>4, <1>11, <2>1
  <2>2. CASE s \in Standing("discount")
    <3>1. s < now /\ s \in Nat /\ operation_history'[s] = operation_history[s]
      BY <1>3, <1>4, <2>2
    <3> DEFINE o == operation_history[s].op
               k == <<s, o.tick, o.to>>
    <3>2. k \in DOMAIN score_to_discount /\ score_to_discount[k] = o.fee
      BY <2>2 DEF DiscountInv, DiscountsRecorded
    <3>3. k # <<now, op.tick, op.to>>
      BY <1>3, <3>1
    <3>4. QED BY <1>11, <3>1, <3>2, <3>3
  <2>3. QED BY <1>5, <2>1, <2>2
<1>13. QED BY <1>10, <1>12 DEF DiscountInv

\* A reorganisation takes back the discounts of the blocks it removes: each is
\* found in score_to_discount.
LEMMA ReorgDiscounts ==
    ASSUME ChainInv, DiscountInv, NEW threshold \in Nat, RollbackDiscounts(threshold),
           \A s \in DOMAIN operation_history' : operation_history'[s] = operation_history[s],
           \A kind : Standing(kind)' = {s \in Standing(kind) : s < threshold}
    PROVE  DiscountInv'
<1> DEFINE row(k) == [spk |-> k[3], tick |-> k[2], score |-> k[1], fee |-> score_to_discount[k]]
           gone   == {row(k) : k \in {x \in DOMAIN score_to_discount : x[1] >= threshold}}
<1>1. vip' = vip \ gone /\ score_to_discount' = score_to_discount
  BY DEF RollbackDiscounts
<1>2. \A s \in Standing("discount") : s \in Nat
  BY StandingBelow
<1>3. \A s \in Standing("discount")' : s \in Standing("discount") /\ operation_history'[s] = operation_history[s]
  BY DEF Standing
<1>4. \A s \in Standing("discount")' : Granted(s)' = Granted(s)
  BY <1>3 DEF Granted
<1>5. ASSUME NEW s \in Standing("discount")
      PROVE  Granted(s) \in gone <=> ~ (s < threshold)
  <2>1. s \in Nat /\ Granted(s).score = s
    BY <1>2 DEF Granted
  <2>2. ASSUME Granted(s) \in gone PROVE s >= threshold
    <3>1. PICK k \in DOMAIN score_to_discount : k[1] >= threshold /\ Granted(s) = row(k)
      BY <2>2
    <3>2. row(k).score = k[1]
      OBVIOUS
    <3>3. QED BY <2>1, <3>1, <3>2
  <2>3. ASSUME s >= threshold PROVE Granted(s) \in gone
    <3> DEFINE k == <<s, operation_history[s].op.tick, operation_history[s].op.to>>
    <3>1. k \in DOMAIN score_to_discount /\ score_to_discount[k] = operation_history[s].op.fee
      BY DEF DiscountInv, DiscountsRecorded
    <3>2. k[1] = s /\ k[2] = operation_history[s].op.tick /\ k[3] = operation_history[s].op.to
      OBVIOUS
    <3> HIDE DEF k
    <3>3. row(k) = Granted(s)
      BY <3>1, <3>2 DEF Granted
    <3>4. QED BY <2>3, <3>1, <3>2, <3>3
  <2>4. QED BY <2>1, <2>2, <2>3
<1>6. vip = {Granted(s) : s \in Standing("discount")}
  BY StandIsGranted DEF DiscountInv
<1> HIDE DEF gone
<1>7. vip' = {Granted(s) : s \in Standing("discount")'}
  BY <1>1, <1>5, <1>6
<1>8. vip' = {Granted(s)' : s \in Standing("discount")'}
  BY <1>4, <1>7
<1>9. DiscountsStand'
  BY <1>8 DEF DiscountsStand, Standing, Granted
<1>10. DiscountsRecorded'
  BY <1>1, <1>3 DEF DiscountInv, DiscountsRecorded
<1>11. QED BY <1>9, <1>10 DEF DiscountInv

-----------------------------------------------------------------------------
(* The steps together.                                                     *)

\* A token has an owner exactly when it was minted.
LEMMA MintedAreOwned ==
    ASSUME MintsRecorded, HistoryRecorded, OwnershipConsistent
    PROVE  \A key : key \in DOMAIN current_ownership <=>
                        \E m \in mint_history : key = <<m.tick, m.token>>
<1>1. ASSUME NEW m \in mint_history PROVE <<m.tick, m.token>> \in DOMAIN current_ownership
  <2> DEFINE c == [score |-> m.score, tick |-> m.tick, token |-> m.token, seq |-> m.seq]
             k == <<c.tick, c.token, c.score>>
  <2>1. c \in ownership_changes
    BY DEF MintsRecorded
  <2>2. k \in DOMAIN ownership_history
    BY <2>1 DEF HistoryRecorded
  <2>3. k[1] = m.tick /\ k[2] = m.token
    OBVIOUS
  <2> HIDE DEF k
  <2>4. QED BY <2>2, <2>3 DEF OwnershipConsistent
<1>2. ASSUME NEW key \in DOMAIN current_ownership
      PROVE  \E m \in mint_history : key = <<m.tick, m.token>>
  <2>1. PICK k \in DOMAIN ownership_history : key = <<k[1], k[2]>>
    BY DEF OwnershipConsistent
  <2>2. PICK m \in mint_history : m.tick = k[1] /\ m.token = k[2]
    BY DEF HistoryRecorded
  <2>3. QED BY <2>1, <2>2
<1>3. QED BY <1>1, <1>2

\* The step mints the tokens now, and none of them was minted before.
MintedNow(tick, tokens) ==
    \A x \in tokens :
        /\ \A m \in mint_history : m.tick = tick => m.token # x
        /\ \E m \in mint_history' : m.tick = tick /\ m.token = x /\ m.score = Now

\* The step leaves every listed token with its owner.
ListedStay ==
    \A key \in DOMAIN listings :
        key \in DOMAIN current_ownership' /\ current_ownership'[key] = current_ownership[key]

\* Minted tokens get their first owner.
LEMMA NewTokens ==
    ASSUME ChainInv, MintsRecorded, HistoryRecorded, OwnershipConsistent, ListingInv,
           NEW op, NEW token, Arrives(op, op.kind), Record(op, token, None),
           op.kind \notin {"list", "send"}, UNCHANGED listingVars,
           NEW seqs, NEW to, SetOwner(op.tick, seqs, {}, to), mint_history \subseteq mint_history',
           MintedNow(op.tick, DOMAIN seqs)
    PROVE  HistoryRecorded' /\ OwnershipConsistent' /\ ListingInv' /\ ListedStay
<1>1. /\ Now \in Nat /\ \A s \in DOMAIN operation_history : s \in Nat /\ s < Now
      /\ DOMAIN operation_history' = DOMAIN operation_history \cup {Now}
  BY RecordFacts
<1>2. \A x \in DOMAIN seqs : <<op.tick, x>> \notin DOMAIN current_ownership
  BY MintedAreOwned DEF MintedNow
<1>3. ASSUME NEW x \in DOMAIN seqs
      PROVE  \E m \in mint_history' : m.tick = op.tick /\ m.token = x /\ m.score <= Now
  <2>1. PICK m \in mint_history' : m.tick = op.tick /\ m.token = x /\ m.score = Now
    BY DEF MintedNow
  <2>2. m.score <= Now
    BY <1>1, <2>1
  <2>3. QED BY <2>1, <2>2
<1>4. HistoryRecorded' /\ OwnershipConsistent'
  BY <1>1, <1>2, <1>3, SetOwnerStep
<1>5. /\ MovesOnlyNow
      /\ \A key \in DOMAIN current_ownership :
            /\ key \in DOMAIN current_ownership'
            /\ (\A x \in DOMAIN seqs : key # <<op.tick, x>>) =>
                   current_ownership'[key] = current_ownership[key]
  BY SetOwnerMoves
<1>6. \A key \in DOMAIN listings : key \in DOMAIN current_ownership
  BY DEF ListingInv, ListingsBacked
<1>7. \A key \in DOMAIN listings :
         key \in DOMAIN current_ownership' /\ current_ownership'[key] = current_ownership[key]
  BY <1>2, <1>5, <1>6
<1>8. ListingInv'
  BY <1>5, <1>7, ListingsQuiet
<1>9. QED BY <1>4, <1>7, <1>8 DEF ListedStay

\* A token that has an owner gets another.
LEMMA MovedToken ==
    ASSUME ChainInv, MintsRecorded, HistoryRecorded, OwnershipConsistent, NEW op, NEW from, NEW to,
           Arrives(op, op.kind), Record(op, None, None), UNCHANGED mintVars,
           SetOwner(op.tick, [t \in {op.token} |-> 0], from, to),
           <<op.tick, op.token>> \in DOMAIN current_ownership,
           current_ownership[<<op.tick, op.token>>].owner \in from
    PROVE  HistoryRecorded' /\ OwnershipConsistent'
<1> DEFINE key  == <<op.tick, op.token>>
           seqs == [t \in {op.token} |-> 0]
<1>1. /\ Now \in Nat /\ \A s \in DOMAIN operation_history : s \in Nat /\ s < Now
      /\ DOMAIN operation_history' = DOMAIN operation_history \cup {Now}
  BY RecordFacts
<1>2. DOMAIN seqs = {op.token} /\ mint_history' = mint_history
  BY DEF mintVars
<1>3. PICK k \in DOMAIN ownership_history : key = <<k[1], k[2]>>
  BY DEF OwnershipConsistent
<1>4. PICK m \in mint_history : m.tick = k[1] /\ m.token = k[2] /\ m.score <= k[3]
  BY DEF HistoryRecorded
<1>5. m.score <= Now
  <2>1. k[3] \in Nat /\ k[3] < Now
    BY <1>1 DEF HistoryRecorded
  <2>2. m.score \in Nat
    BY MintScores
  <2>3. QED BY <1>1, <1>4, <2>1, <2>2
<1>6. m.tick = op.tick /\ m.token = op.token
  BY <1>3, <1>4
<1> HIDE DEF seqs
<1>7. \A x \in DOMAIN seqs :
         /\ <<op.tick, x>> \in DOMAIN current_ownership =>
                current_ownership[<<op.tick, x>>].owner \in from
         /\ \E mint \in mint_history' : mint.tick = op.tick /\ mint.token = x /\ mint.score <= Now
  BY <1>2, <1>5, <1>6
<1>8. SetOwner(op.tick, seqs, from, to)
  BY DEF seqs
<1>9. QED BY <1>1, <1>2, <1>7, <1>8, SetOwnerStep

\* A deployment: the premint is new, since an unregistered tick has no mints.
LEMMA DeployTokens ==
    ASSUME ChainInv, MintsRecorded, HistoryRecorded, OwnershipConsistent, ListingInv,
           NEW op \in Ops, Deploy(op)
    PROVE  HistoryRecorded' /\ OwnershipConsistent' /\ ListingInv' /\ ListedStay
<1> DEFINE seqs == [t \in 1..op.premint |-> t]
<1>1. /\ Arrives(op, op.kind) /\ Record(op, None, None) /\ op.kind = "deploy"
      /\ DeployError(op) = None /\ UNCHANGED listingVars
      /\ mint_history' = mint_history \cup MintRows(op.tick, seqs)
      /\ SetOwner(op.tick, seqs, {}, op.deployer)
  BY DEF Deploy, Arrives
<1>2. op.tick \notin DOMAIN collection_registry
  BY <1>1, LedgerAssumption DEF DeployError, Registered, CtxValidationError
<1>3. \A m \in mint_history : m.tick # op.tick
  BY <1>2 DEF MintsRecorded
<1>4. ASSUME NEW x \in DOMAIN seqs
      PROVE  \E m \in mint_history' : m.tick = op.tick /\ m.token = x /\ m.score = Now
  <2> DEFINE m == [tick |-> op.tick, seq |-> seqs[x], token |-> x, score |-> Now]
  <2>1. m \in MintRows(op.tick, seqs)
    BY DEF MintRows
  <2>2. m.tick = op.tick /\ m.token = x /\ m.score = Now
    BY DEF MintedNow
  <2> HIDE DEF m, seqs
  <2>3. QED BY <1>1, <2>1, <2>2
<1> HIDE DEF seqs
<1>5. op.kind \notin {"list", "send"} /\ mint_history \subseteq mint_history'
  BY <1>1
<1>6. MintedNow(op.tick, DOMAIN seqs)
  BY <1>3, <1>4 DEF MintedNow
<1>7. /\ Arrives(op, op.kind) /\ Record(op, None, None) /\ UNCHANGED listingVars
      /\ SetOwner(op.tick, seqs, {}, op.deployer)
  BY <1>1
<1>8. QED BY <1>5, <1>6, <1>7, NewTokens

\* A mint: its token is none of the collection's.
LEMMA MintTokens ==
    ASSUME ChainInv, RegistryRecorded, MintsRecorded, HistoryRecorded, OwnershipConsistent,
           ListingInv, NEW op \in Ops, Mint(op)
    PROVE  HistoryRecorded' /\ OwnershipConsistent' /\ ListingInv' /\ ListedStay
<1> DEFINE t == op.tick
<1>0. PICK now : now = Now
  OBVIOUS
<1>1. /\ Arrives(op, op.kind) /\ op.kind = "mint" /\ MintError(op) = None
      /\ UNCHANGED listingVars
  BY DEF Mint, Arrives
<1>2. t \in DOMAIN collection_registry
  BY <1>1, LedgerAssumption DEF MintError, Registered, CtxValidationError
<1>3. PICK n, token, score, trail : MintsInOrder(t, n, token, score, trail)
  BY <1>2 DEF MintsRecorded
<1>4. PICK e, id, b :
         /\ e \in Nat
         /\ id = GenerateTokenId(alloc[t], e, DeployOf(t).max, DeployOf(t).premint).token
         /\ b = GenerateTokenId(alloc[t], e, DeployOf(t).max, DeployOf(t).premint).alloc
         /\ n + 1 <= DeployOf(t).max
         /\ alloc' = [alloc EXCEPT ![t] = b]
         /\ mint_history' = mint_history \cup {[tick |-> t, seq |-> n + 1, token |-> id, score |-> Now]}
         /\ SetOwner(t, [x \in {id} |-> n + 1], {}, op.to)
         /\ Record(op, id, None)
  BY <1>3, MintFacts
<1>5. /\ now \in Nat /\ \A s \in DOMAIN operation_history : s \in Nat /\ s < now
      /\ DOMAIN operation_history \in SUBSET Nat
  BY <1>0, NowAbove
<1>6. /\ Supply(DeployOf(t).premint, DeployOf(t).max)
      /\ collection_registry[t].score \in DOMAIN operation_history
  BY <1>2, LedgerAssumption DEF RegistryRecorded, Supply
<1>7. Numbered(t, DeployOf(t).premint, DeployOf(t).max, collection_registry[t].score,
               DOMAIN operation_history, MintsOf(t), alloc[t], n, token, score, trail)
  BY <1>3 DEF MintsInOrder
<1>8. \A m \in MintsOf(t) : m.token # id
  <2> DEFINE premint  == DeployOf(t).premint
             max      == DeployOf(t).max
             since    == collection_registry[t].score
             recorded == DOMAIN operation_history
             mints    == MintsOf(t)
             a        == alloc[t]
  <2>1. n + 1 <= max /\ id = GenerateTokenId(a, e, max, premint).token
        /\ b = GenerateTokenId(a, e, max, premint).alloc
    BY <1>4
  <2>2. recorded \in SUBSET Nat /\ (\A s \in recorded : s < now) /\ since \in recorded
    BY <1>5, <1>6
  <2>3. Numbered(t, premint, max, since, recorded, mints, a, n, token, score, trail)
    BY <1>7
  <2>4. Supply(premint, max) /\ now \in Nat /\ e \in Nat
    BY <1>4, <1>5, <1>6
  <2> HIDE DEF premint, max, since, recorded, mints, a, t
  <2>5. /\ \E token2, score2, trail2 :
              Numbered(t, premint, max, since, recorded \cup {now},
                       mints \cup {[tick |-> t, seq |-> n + 1, token |-> id, score |-> now]},
                       b, n + 1, token2, score2, trail2)
        /\ Unminted(mints, id)
    BY <2>1, <2>2, <2>3, <2>4, NumberedMint
  <2>6. QED BY <2>5 DEF mints, Unminted
<1> DEFINE seqs == [x \in {id} |-> n + 1]
<1>9. /\ DOMAIN seqs = {id} /\ SetOwner(op.tick, seqs, {}, op.to) /\ Record(op, id, None)
      /\ op.kind \notin {"list", "send"} /\ mint_history \subseteq mint_history'
  BY <1>1, <1>4
<1>10. \A m \in mint_history : m.tick = op.tick => m.token # id
  BY <1>8 DEF MintsOf
<1>11. \E m \in mint_history' : m.tick = op.tick /\ m.token = id /\ m.score = Now
  <2> DEFINE m == [tick |-> t, seq |-> n + 1, token |-> id, score |-> Now]
  <2>1. m.tick = op.tick /\ m.token = id /\ m.score = Now
    OBVIOUS
  <2>2. m \in mint_history'
    BY <1>4
  <2> HIDE DEF m
  <2>3. QED BY <2>1, <2>2
<1> HIDE DEF seqs
<1>12. MintedNow(op.tick, DOMAIN seqs)
  BY <1>9, <1>10, <1>11 DEF MintedNow
<1>13. QED BY <1>1, <1>9, <1>12, NewTokens

\* The ledger's inductive invariant.
LedgerInv ==
    /\ ChainInv /\ RegistryRecorded /\ MintsRecorded /\ HistoryRecorded
    /\ OwnershipConsistent /\ ListingInv /\ DiscountInv

\* Before the first block every table is empty.
LEMMA LedgerInit == Init => LedgerInv
<1> SUFFICES ASSUME Init PROVE LedgerInv
  OBVIOUS
<1>1. /\ operation_history = NoEntries /\ DOMAIN operation_history = {}
      /\ collection_registry = NoEntries /\ DOMAIN collection_registry = {}
      /\ collection_deployments = {} /\ mint_history = {} /\ alloc = [t \in Ticks |-> NoRanges]
      /\ ownership_changes = {} /\ DOMAIN ownership_history = {}
      /\ DOMAIN current_ownership = {} /\ DOMAIN address_holdings = {}
      /\ DOMAIN listings = {} /\ listings_by_tick = {} /\ vip = {}
  BY DEF Init, NoEntries
<1>2. ChainInv
  BY ChainInit
<1>3. RegistryRecorded /\ MintsRecorded /\ HistoryRecorded
  BY <1>1 DEF RegistryRecorded, MintsRecorded, HistoryRecorded
<1>4. OwnershipConsistent
  BY <1>1 DEF OwnershipConsistent
<1>5. \A kind : Standing(kind) = {}
  BY <1>1 DEF Standing
<1>6. ListingInv
  BY <1>1, <1>5 DEF ListingInv, ListingsBacked, ListedByOwner, SendsBacked, ListingsLast
<1>7. DiscountInv
  BY <1>1, <1>5, StandIsGranted DEF DiscountInv, DiscountsRecorded
<1>8. QED BY <1>2, <1>3, <1>4, <1>6, <1>7 DEF LedgerInv

\* Accepting a block leaves the tables of operations alone.
LEMMA AcceptBlockKeeps ==
    ASSUME LedgerInv, UNCHANGED <<opVars, deployVars, mintVars, ownVars, listingVars, discountVars>>,
           ChainInv'
    PROVE  LedgerInv'
<1>1. UNCHANGED <<operation_history, ownership_changes, mint_history>>
  BY DEF opVars, ownVars, mintVars
<1>2. RegistryRecorded' /\ MintsRecorded'
  BY <1>1, MintsQuiet DEF LedgerInv
<1>3. HistoryRecorded' /\ OwnershipConsistent'
  BY <1>1, OwnershipQuiet DEF LedgerInv
<1>4. ListingInv'
  BY ListingsUntouched DEF LedgerInv
<1>5. Standing("discount")' = Standing("discount")
  BY <1>1 DEF Standing
<1>6. DiscountInv'
  BY <1>1, <1>5, DiscountsQuiet DEF LedgerInv
<1>7. QED BY <1>2, <1>3, <1>4, <1>6 DEF LedgerInv

\* An operation that is recorded and grants no discount.
LEMMA RecordKeepsDiscounts ==
    ASSUME LedgerInv, NEW op, NEW token, NEW error, Arrives(op, op.kind), Record(op, token, error),
           error # None \/ op.kind # "discount", UNCHANGED discountVars
    PROVE  DiscountInv'
<1>1. Standing("discount")' =
          Standing("discount") \cup (IF error = None /\ op.kind = "discount" THEN {Now} ELSE {})
  BY StandingAfterRecord DEF LedgerInv
<1>2. Standing("discount")' = Standing("discount")
  BY <1>1
<1>3. /\ DOMAIN operation_history' = DOMAIN operation_history \cup {Now}
      /\ \A s \in DOMAIN operation_history : operation_history'[s] = operation_history[s]
  BY RecordFacts DEF LedgerInv
<1>4. QED BY <1>2, <1>3, DiscountsQuiet DEF LedgerInv

\* An operation that is recorded, mints nothing and moves nothing.
LEMMA RecordOnly ==
    ASSUME LedgerInv, NEW op, NEW token, NEW error, Arrives(op, op.kind), Record(op, token, error),
           UNCHANGED <<deployVars, mintVars, ownVars>>
    PROVE  RegistryRecorded' /\ MintsRecorded' /\ HistoryRecorded' /\ OwnershipConsistent'
<1>1. UNCHANGED <<ownership_changes, mint_history>>
  BY DEF ownVars, mintVars
<1>2. DOMAIN operation_history \subseteq DOMAIN operation_history'
  BY RecordFacts DEF LedgerInv
<1>3. RegistryRecorded' /\ MintsRecorded'
  BY <1>1, <1>2, MintsQuiet DEF LedgerInv
<1>4. HistoryRecorded' /\ OwnershipConsistent'
  BY <1>1, <1>2, OwnershipQuiet DEF LedgerInv
<1>5. QED BY <1>3, <1>4

\* An operation that is recorded and moves a token that exists.
LEMMA RecordMove ==
    ASSUME LedgerInv, NEW op, NEW from, NEW to, Arrives(op, op.kind), Record(op, None, None),
           UNCHANGED <<deployVars, mintVars>>,
           SetOwner(op.tick, [t \in {op.token} |-> 0], from, to),
           <<op.tick, op.token>> \in DOMAIN current_ownership,
           current_ownership[<<op.tick, op.token>>].owner \in from
    PROVE  RegistryRecorded' /\ MintsRecorded' /\ HistoryRecorded' /\ OwnershipConsistent'
<1>1. ownership_changes \subseteq ownership_changes'
  BY DEF SetOwner
<1>2. DOMAIN operation_history \subseteq DOMAIN operation_history'
  BY RecordFacts DEF LedgerInv
<1>3. RegistryRecorded' /\ MintsRecorded'
  BY <1>1, <1>2, MintsQuiet DEF LedgerInv
<1>4. HistoryRecorded' /\ OwnershipConsistent'
  BY MovedToken DEF LedgerInv
<1>5. QED BY <1>3, <1>4

\* A transfer moves a token that is not listed.
LEMMA TransferTokens ==
    ASSUME LedgerInv, NEW op \in Ops, Transfer(op)
    PROVE  /\ RegistryRecorded' /\ MintsRecorded' /\ HistoryRecorded' /\ OwnershipConsistent'
           /\ ListingInv' /\ ListedStay
<1>1. /\ Arrives(op, op.kind) /\ op.kind = "transfer" /\ Record(op, None, None)
      /\ TransferError(op) = None
      /\ SetOwner(op.tick, [t \in {op.token} |-> 0], {OwnerOf(op)}, op.to)
      /\ UNCHANGED <<deployVars, mintVars>> /\ UNCHANGED listingVars
  BY DEF Transfer, Arrives
<1>2. /\ <<op.tick, op.token>> \in DOMAIN current_ownership
      /\ <<op.tick, op.token>> \notin DOMAIN listings
  BY <1>1, LedgerAssumption DEF TransferError, Exists, Listed, CtxValidationError
<1>3. RegistryRecorded' /\ MintsRecorded' /\ HistoryRecorded' /\ OwnershipConsistent'
  BY <1>1, <1>2, RecordMove DEF OwnerOf
<1> DEFINE seqs == [t \in {op.token} |-> 0]
<1>4. SetOwner(op.tick, seqs, {OwnerOf(op)}, op.to) /\ DOMAIN seqs = {op.token}
  BY <1>1
<1> HIDE DEF seqs
<1>5. /\ MovesOnlyNow
      /\ \A key \in DOMAIN current_ownership :
            /\ key \in DOMAIN current_ownership'
            /\ (\A x \in DOMAIN seqs : key # <<op.tick, x>>) =>
                   current_ownership'[key] = current_ownership[key]
  BY <1>4, SetOwnerMoves DEF LedgerInv
<1>6. ListedStay
  <2>1. \A key \in DOMAIN listings : key \in DOMAIN current_ownership
    BY DEF LedgerInv, ListingInv, ListingsBacked
  <2>2. QED BY <1>2, <1>4, <1>5, <2>1 DEF ListedStay
<1>7. ListingInv'
  BY <1>1, <1>5, <1>6, ListingsQuiet DEF LedgerInv, ListedStay
<1>8. QED BY <1>3, <1>6, <1>7

\* A send moves the token from its seller, who owns it, or moves nothing.
LEMMA SendTokens ==
    ASSUME LedgerInv, NEW op \in Ops, Send(op)
    PROVE  RegistryRecorded' /\ MintsRecorded' /\ HistoryRecorded' /\ OwnershipConsistent'
<1> DEFINE key == <<op.tick, op.token>>
<1>1. /\ Arrives(op, op.kind) /\ Record(op, None, None) /\ SendError(op) = None
      /\ UNCHANGED <<deployVars, mintVars>>
      /\ SetOwner(op.tick, [t \in {op.token} |-> 0], {listings[key].seller}, op.buyer)
         \/ UNCHANGED ownVars
  BY DEF Send, Arrives
<1>2. key \in DOMAIN listings
  BY <1>1, LedgerAssumption DEF SendError, Listed, CtxValidationError
<1>3. key \in DOMAIN current_ownership /\ current_ownership[key].owner = listings[key].seller
  BY <1>2 DEF LedgerInv, ListingInv, ListingsBacked
<1>4. CASE UNCHANGED ownVars
  BY <1>1, <1>4, RecordOnly
<1>5. CASE SetOwner(op.tick, [t \in {op.token} |-> 0], {listings[key].seller}, op.buyer)
  BY <1>1, <1>3, <1>5, RecordMove
<1>6. QED BY <1>1, <1>4, <1>5

\* An operation that is recorded and touches neither tokens nor listings.
LEMMA RecordKeepsListings ==
    ASSUME LedgerInv, NEW op, NEW token, NEW error, Arrives(op, op.kind), Record(op, token, error),
           error # None \/ op.kind \notin {"list", "send"}, UNCHANGED ownVars, UNCHANGED listingVars
    PROVE  ListingInv'
<1>1. ownership_history' = ownership_history /\ current_ownership' = current_ownership
  BY DEF ownVars
<1>2. MovesOnlyNow
  BY <1>1 DEF MovesOnlyNow
<1>3. \A key \in DOMAIN listings :
         key \in DOMAIN current_ownership' /\ current_ownership'[key] = current_ownership[key]
  BY <1>1 DEF LedgerInv, ListingInv, ListingsBacked
<1>4. QED BY <1>2, <1>3, ListingsQuiet DEF LedgerInv

\* A reorganisation.
LEMMA ReorgKeeps ==
    ASSUME LedgerInv, NEW removed, NEW forced \in {{}, {LastBlue} \ {0}}, Reorg(removed, forced),
           ChainInv'
    PROVE  LedgerInv'
<1>1. PICK threshold \in Nat :
         /\ RollbackOperations(threshold) /\ RollbackDeployments(threshold)
         /\ RollbackDiscounts(threshold) /\ RollbackListings(threshold)
         /\ RollbackMints(threshold) /\ RollbackOwnership(threshold)
         /\ DOMAIN operation_history' = {s \in DOMAIN operation_history : s < threshold}
         /\ \A s \in DOMAIN operation_history' : operation_history'[s] = operation_history[s]
         /\ DOMAIN tx_id_to_opscore' =
                {x \in DOMAIN tx_id_to_opscore : tx_id_to_opscore[x] < threshold}
         /\ \A x \in DOMAIN tx_id_to_opscore' : tx_id_to_opscore'[x] = tx_id_to_opscore[x]
         /\ \A kind : Standing(kind)' = {s \in Standing(kind) : s < threshold}
  BY ReorgFacts DEF LedgerInv
<1>2. RegistryRecorded' /\ MintsRecorded'
  BY <1>1, ReorgMints DEF LedgerInv
<1>3. HistoryRecorded' /\ OwnershipConsistent'
  BY <1>1, ReorgOwnership DEF LedgerInv
<1>4. ListingInv'
  BY <1>1, <1>3, ReorgListings DEF LedgerInv
<1>5. DiscountInv'
  BY <1>1, ReorgDiscounts DEF LedgerInv
<1>6. QED BY <1>2, <1>3, <1>4, <1>5 DEF LedgerInv

\* Every step of the specification preserves the invariant.
LEMMA LedgerStep == LedgerInv /\ [Next]_vars => LedgerInv'
<1> SUFFICES ASSUME LedgerInv, [Next]_vars PROVE LedgerInv'
  OBVIOUS
<1>0. ChainInv'
  BY ChainStep DEF LedgerInv
<1>1. CASE UNCHANGED vars
  BY <1>0, <1>1, AcceptBlockKeeps DEF vars
<1>2. ASSUME NEW h \in Hashes, AcceptBlock(h) PROVE LedgerInv'
  BY <1>0, <1>2, AcceptBlockKeeps DEF AcceptBlock
<1>3. ASSUME NEW op \in Ops, Reject(op) PROVE LedgerInv'
  <2>1. /\ Arrives(op, op.kind) /\ ErrorOf(op) # None /\ Record(op, None, ErrorOf(op))
        /\ UNCHANGED <<deployVars, mintVars, ownVars>>
        /\ UNCHANGED ownVars /\ UNCHANGED listingVars /\ UNCHANGED discountVars
    BY <1>3 DEF Reject
  <2>2. RegistryRecorded' /\ MintsRecorded' /\ HistoryRecorded' /\ OwnershipConsistent'
    BY <2>1, RecordOnly
  <2>3. ListingInv' /\ DiscountInv'
    BY <2>1, RecordKeepsListings, RecordKeepsDiscounts
  <2>4. QED BY <1>0, <2>2, <2>3 DEF LedgerInv
<1>4. ASSUME NEW op \in Ops, Deploy(op) PROVE LedgerInv'
  <2>1. /\ Arrives(op, op.kind) /\ op.kind = "deploy" /\ Record(op, None, None)
        /\ UNCHANGED discountVars
    BY <1>4 DEF Deploy, Arrives
  <2>2. RegistryRecorded' /\ MintsRecorded'
    BY <1>4, DeployMints DEF LedgerInv
  <2>3. HistoryRecorded' /\ OwnershipConsistent' /\ ListingInv'
    BY <1>4, DeployTokens DEF LedgerInv
  <2>4. DiscountInv'
    BY <2>1, RecordKeepsDiscounts
  <2>5. QED BY <1>0, <2>2, <2>3, <2>4 DEF LedgerInv
<1>5. ASSUME NEW op \in Ops, Mint(op) PROVE LedgerInv'
  <2>1. PICK token : /\ Arrives(op, op.kind) /\ op.kind = "mint" /\ Record(op, token, None)
                     /\ UNCHANGED discountVars
    BY <1>5 DEF Mint, Arrives
  <2>2. RegistryRecorded' /\ MintsRecorded'
    BY <1>5, MintMints DEF LedgerInv
  <2>3. HistoryRecorded' /\ OwnershipConsistent' /\ ListingInv'
    BY <1>5, MintTokens DEF LedgerInv
  <2>4. DiscountInv'
    BY <2>1, RecordKeepsDiscounts
  <2>5. QED BY <1>0, <2>2, <2>3, <2>4 DEF LedgerInv
<1>6. ASSUME NEW op \in Ops, Transfer(op) PROVE LedgerInv'
  <2>1. /\ Arrives(op, op.kind) /\ op.kind = "transfer" /\ Record(op, None, None)
        /\ UNCHANGED discountVars
    BY <1>6 DEF Transfer, Arrives
  <2>2. DiscountInv'
    BY <2>1, RecordKeepsDiscounts
  <2>3. QED BY <1>0, <1>6, <2>2, TransferTokens DEF LedgerInv
<1>7. ASSUME NEW op \in Ops, Discount(op) PROVE LedgerInv'
  <2>1. /\ Arrives(op, op.kind) /\ op.kind = "discount" /\ Record(op, None, None)
        /\ UNCHANGED <<deployVars, mintVars, ownVars>>
        /\ UNCHANGED ownVars /\ UNCHANGED listingVars
    BY <1>7 DEF Discount, Arrives
  <2>2. RegistryRecorded' /\ MintsRecorded' /\ HistoryRecorded' /\ OwnershipConsistent'
    BY <2>1, RecordOnly
  <2>3. ListingInv'
    BY <2>1, RecordKeepsListings
  <2>4. DiscountInv'
    BY <1>7, DiscountStep DEF LedgerInv
  <2>5. QED BY <1>0, <2>2, <2>3, <2>4 DEF LedgerInv
<1>8. ASSUME NEW op \in Ops, List(op) PROVE LedgerInv'
  <2>1. /\ Arrives(op, op.kind) /\ op.kind = "list" /\ Record(op, None, None)
        /\ UNCHANGED <<deployVars, mintVars, ownVars>> /\ UNCHANGED discountVars
    BY <1>8 DEF List, Arrives
  <2>2. RegistryRecorded' /\ MintsRecorded' /\ HistoryRecorded' /\ OwnershipConsistent'
    BY <2>1, RecordOnly
  <2>3. ListingInv'
    BY <1>8, ListStep DEF LedgerInv
  <2>4. DiscountInv'
    BY <2>1, RecordKeepsDiscounts
  <2>5. QED BY <1>0, <2>2, <2>3, <2>4 DEF LedgerInv
<1>9. ASSUME NEW op \in Ops, Send(op) PROVE LedgerInv'
  <2>1. /\ Arrives(op, op.kind) /\ op.kind = "send" /\ Record(op, None, None)
        /\ UNCHANGED discountVars
    BY <1>9 DEF Send, Arrives
  <2>2. RegistryRecorded' /\ MintsRecorded' /\ HistoryRecorded' /\ OwnershipConsistent'
    BY <1>9, SendTokens
  <2>3. ListingInv'
    BY <1>9, SendStep DEF LedgerInv
  <2>4. DiscountInv'
    BY <2>1, RecordKeepsDiscounts
  <2>5. QED BY <1>0, <2>2, <2>3, <2>4 DEF LedgerInv
<1>10. ASSUME NEW removed, NEW forced \in {{}, {LastBlue} \ {0}}, Reorg(removed, forced)
       PROVE  LedgerInv'
  BY <1>0, <1>10, ReorgKeeps
<1>11. QED BY <1>1, <1>2, <1>3, <1>4, <1>5, <1>6, <1>7, <1>8, <1>9, <1>10 DEF Next

\* The invariant holds of every behaviour.
LEMMA LedgerAlways == Spec => []LedgerInv
BY LedgerInit, LedgerStep, PTL DEF Spec
-----------------------------------------------------------------------------
(* What the tables promise.                                                *)

\* The owner a query returns is the one of the latest entry of ownership_history,
\* and address_holdings lists exactly the tokens each address owns, through every
\* mint, transfer, sale and reorganisation: reconstruct_token_ownership leaves
\* neither a token without its last owner nor a holding without its token.
THEOREM OwnershipConsistentAlways == Spec => []OwnershipConsistent
<1>1. LedgerInv => OwnershipConsistent
  BY DEF LedgerInv
<1>2. QED BY LedgerAlways, <1>1, PTL

\* A listing is the one of a successful list operation that stands, its seller
\* still owns the token and both indexes know it, also when
\* restore_listing_for_reorged_send has brought it back.
THEOREM ListingsBackedAlways == Spec => []ListingsBacked
<1>1. LedgerInv => ListingsBacked
  BY DEF LedgerInv, ListingInv
<1>2. QED BY LedgerAlways, <1>1, PTL

\* The discounts in force are those of the successful discount operations that
\* stand: remove_discounts finds every one that a reorganisation takes back.
THEOREM DiscountsStandAlways == Spec => []DiscountsStand
<1>1. LedgerInv => DiscountsStand
  BY DEF LedgerInv, DiscountInv
<1>2. QED BY LedgerAlways, <1>1, PTL

\* A set numbered from 1 to n without repetition has n elements.
LEMMA NumberedCount ==
    ASSUME NEW n \in Nat, NEW T, NEW f \in [1..n -> T],
           \A i, j \in 1..n : f[i] = f[j] => i = j, \A x \in T : \E i \in 1..n : f[i] = x
    PROVE  IsFiniteSet(T) /\ Cardinality(T) = n
<1>1. IsFiniteSet(1..n) /\ Cardinality(1..n) = n
  BY FS_Interval
<1>2. f \in Bijection(1..n, T)
  BY DEF Bijection, Injection, IsInjective, Surjection
<1>3. ExistsBijection(1..n, T)
  BY <1>2 DEF ExistsBijection
<1>4. QED BY <1>1, <1>3, FS_Bijection

\* The mints of a collection are n, numbered from 1, with as many different ids in
\* 1..max, of which the first are the premint's.
SupplyCounted(premint, max, mints, n) ==
    /\ n \in premint..max /\ n \in Nat
    /\ IsFiniteSet(mints) /\ Cardinality(mints) = n
    /\ {m.seq : m \in mints} = 1..n
    /\ Cardinality({m.token : m \in mints}) = n
    /\ \A m \in mints : m.seq \in 1..n /\ m.token \in 1..max
    /\ \A m \in mints : m.seq <= premint <=> m.token <= premint

\* What the numbering of a collection's mints says of their sequence numbers and ids.
LEMMA SupplyOf ==
    ASSUME NEW t, NEW premint, NEW max, NEW since, NEW recorded, NEW mints, NEW a,
           NEW n, NEW token, NEW score, NEW trail, Supply(premint, max),
           Numbered(t, premint, max, since, recorded, mints, a, n, token, score, trail)
    PROVE  SupplyCounted(premint, max, mints, n)
<1> DEFINE row(i) == [tick |-> t, seq |-> i, token |-> token[i], score |-> score[i]]
           ids    == {m.token : m \in mints}
<1>1. /\ premint \in Nat /\ n \in Nat /\ premint <= n /\ n <= max /\ max \in Nat
      /\ \A i \in (premint + 1)..n : token[i] \in Drawable(premint, max)
  BY OrderFacts DEF Supply
<1>2. /\ mints = {row(i) : i \in 1..n}
      /\ \A i \in 1..premint : token[i] = i
      /\ \A i, j \in (premint + 1)..n : token[i] = token[j] => i = j
  BY DEF Numbered
<1>3. \A i : row(i).seq = i /\ row(i).token = token[i]
  OBVIOUS
<1> HIDE DEF row
<1>4. ASSUME NEW i \in 1..n
      PROVE  /\ token[i] \in 1..max
             /\ i <= premint => token[i] = i
             /\ i > premint => token[i] > premint
  BY <1>1, <1>2 DEF Drawable
<1>5. \A i, j \in 1..n : token[i] = token[j] => i = j
  <2> SUFFICES ASSUME NEW i \in 1..n, NEW j \in 1..n, token[i] = token[j] PROVE i = j
    OBVIOUS
  <2>1. i \in Nat /\ j \in Nat
    BY <1>1
  <2>2. CASE i <= premint
    BY <1>1, <1>4, <2>1, <2>2
  <2>3. CASE i > premint
    BY <1>1, <1>2, <1>4, <2>1, <2>3
  <2>4. QED BY <1>1, <2>1, <2>2, <2>3
<1>6. IsFiniteSet(mints) /\ Cardinality(mints) = n
  <2> DEFINE f == [i \in 1..n |-> row(i)]
  <2>1. f \in [1..n -> mints] /\ \A x \in mints : \E i \in 1..n : f[i] = x
    BY <1>2
  <2>2. \A i, j \in 1..n : f[i] = f[j] => i = j
    BY <1>3
  <2> HIDE DEF f
  <2>3. QED BY <1>1, <2>1, <2>2, NumberedCount
<1>7. Cardinality(ids) = n
  <2> DEFINE f == [i \in 1..n |-> token[i]]
  <2>1. f \in [1..n -> ids] /\ \A x \in ids : \E i \in 1..n : f[i] = x
    BY <1>2, <1>3
  <2>2. \A i, j \in 1..n : f[i] = f[j] => i = j
    BY <1>5
  <2> HIDE DEF f, ids
  <2>3. QED BY <1>1, <2>1, <2>2, NumberedCount
<1>8. {m.seq : m \in mints} = 1..n
  BY <1>2, <1>3
<1>9. ASSUME NEW m \in mints
      PROVE  m.seq \in 1..n /\ m.token \in 1..max /\ (m.seq <= premint <=> m.token <= premint)
  <2>1. PICK i \in 1..n : m = row(i)
    BY <1>2
  <2>2. m.seq = i /\ m.token = token[i]
    BY <1>3, <2>1
  <2>3. i \in Nat /\ token[i] \in Nat
    BY <1>1, <1>4
  <2>4. QED BY <1>1, <1>4, <2>2, <2>3
<1>10. n \in premint..max
  BY <1>1
<1>11. QED BY <1>1, <1>6, <1>7, <1>8, <1>9, <1>10 DEF SupplyCounted

\* The supply of every collection, from the numbering of its mints.
LEMMA SupplyHolds == LedgerInv => SupplyRespected
<1> SUFFICES ASSUME LedgerInv PROVE SupplyRespected
  OBVIOUS
<1>1. {<<m.tick, m.token>> : m \in mint_history} = DOMAIN current_ownership
  <2>1. \A key : key \in DOMAIN current_ownership <=> \E m \in mint_history : key = <<m.tick, m.token>>
    BY MintedAreOwned DEF LedgerInv
  <2>2. QED BY <2>1
<1>2. ASSUME NEW t \in Ticks
      PROVE  LET mints == MintsOf(t)
             IN  /\ mints # {} => Registered(t)
                 /\ {m.seq : m \in mints} = 1..Cardinality(mints)
                 /\ Cardinality({m.token : m \in mints}) = Cardinality(mints)
                 /\ Registered(t) =>
                       /\ DeployOf(t).premint <= Cardinality(mints)
                       /\ Cardinality(mints) <= DeployOf(t).max
                       /\ \A m \in mints : m.token <= DeployOf(t).max
                       /\ \A m \in mints : m.seq <= DeployOf(t).premint <=> m.token <= DeployOf(t).premint
  <2>1. CASE t \notin DOMAIN collection_registry
    <3>1. MintsOf(t) = {}
      BY <2>1 DEF LedgerInv, MintsRecorded, MintsOf
    <3>2. {m.seq : m \in MintsOf(t)} = {} /\ {m.token : m \in MintsOf(t)} = {}
      BY <3>1
    <3>3. Cardinality({}) = 0 /\ 1..0 = {}
      BY FS_EmptySet
    <3>4. QED BY <2>1, <3>1, <3>2, <3>3 DEF Registered
  <2>2. CASE t \in DOMAIN collection_registry
    <3> DEFINE premint == DeployOf(t).premint
               max     == DeployOf(t).max
               mints   == MintsOf(t)
    <3>1. PICK n, token, score, trail :
             Numbered(t, premint, max, collection_registry[t].score, DOMAIN operation_history,
                      mints, alloc[t], n, token, score, trail)
      BY <2>2 DEF LedgerInv, MintsRecorded, MintsInOrder
    <3>2. Supply(premint, max)
      BY <2>2, LedgerAssumption DEF LedgerInv, RegistryRecorded, Supply
    <3> HIDE DEF premint, max, mints
    <3>2a. SupplyCounted(premint, max, mints, n)
      BY <3>1, <3>2, SupplyOf
    <3>3. /\ n \in premint..max /\ n \in Nat /\ Cardinality(mints) = n
          /\ {m.seq : m \in mints} = 1..n
          /\ Cardinality({m.token : m \in mints}) = n
          /\ \A m \in mints : m.seq \in 1..n /\ m.token \in 1..max
          /\ \A m \in mints : m.seq <= premint <=> m.token <= premint
      BY <3>2a DEF SupplyCounted
    <3>4. /\ premint <= n /\ n <= max /\ \A m \in mints : m.token <= max
      BY <3>2, <3>3 DEF Supply
    <3>5. Registered(t)
      BY <2>2 DEF Registered
    <3>6. QED BY <3>3, <3>4, <3>5 DEF premint, max, mints
  <2>3. QED BY <2>1, <2>2
<1>3. QED BY <1>1, <1>2 DEF SupplyRespected

\* The allocator of every collection, from the trail of its draws.
LEMMA AllocatorHolds == LedgerInv => AllocatorInStep
<1> SUFFICES ASSUME LedgerInv, NEW t \in Ticks
             PROVE  LET drawn == {m.token : m \in {x \in MintsOf(t) : x.token > DeployOf(t).premint}}
                        free  == UNION {alloc[t].ranges[i][1]..(alloc[t].ranges[i][1] + alloc[t].ranges[i][2] - 1) :
                                           i \in DOMAIN alloc[t].ranges}
                    IN  /\ DOMAIN alloc[t].meta = drawn
                        /\ DOMAIN alloc[t].ranges = 0..(alloc[t].len - 1)
                        /\ IF drawn = {} THEN alloc[t].len = 0
                           ELSE free = ((DeployOf(t).premint + 1)..DeployOf(t).max) \ drawn
  BY DEF AllocatorInStep
<1> DEFINE premint == DeployOf(t).premint
           max     == DeployOf(t).max
           mints   == MintsOf(t)
           a       == alloc[t]
           drawn   == {m.token : m \in {x \in mints : x.token > premint}}
           free    == UNION {a.ranges[i][1]..(a.ranges[i][1] + a.ranges[i][2] - 1) : i \in DOMAIN a.ranges}
<1>1. /\ NoRanges.len = 0 /\ DOMAIN NoRanges.meta = {}
      /\ DOMAIN NoRanges.ranges = 0..(NoRanges.len - 1)
  BY DEF NoRanges, NoEntries
<1>2. CASE t \notin DOMAIN collection_registry
  <2>1. mints = {} /\ a = NoRanges
    BY <1>2 DEF LedgerInv, MintsRecorded, MintsOf
  <2>2. drawn = {}
    BY <2>1
  <2>3. QED BY <1>1, <2>1, <2>2
<1>3. CASE t \in DOMAIN collection_registry
  <2>1. PICK n, token, score, trail :
           Numbered(t, premint, max, collection_registry[t].score, DOMAIN operation_history,
                    mints, a, n, token, score, trail)
    BY <1>3 DEF LedgerInv, MintsRecorded, MintsInOrder
  <2>2. Supply(premint, max)
    BY <1>3, LedgerAssumption DEF LedgerInv, RegistryRecorded, Supply
  <2> DEFINE k == n - premint
             m == Draws(token, premint, k)
             row(i) == [tick |-> t, seq |-> i, token |-> token[i], score |-> score[i]]
  <2> HIDE DEF premint, max, mints, a, drawn, free
  <2>3. /\ premint \in Nat /\ n \in Nat /\ n - premint \in Nat /\ premint <= n /\ n <= max
        /\ \A i \in (premint + 1)..n : token[i] \in Drawable(premint, max)
    BY <2>1, <2>2, OrderFacts
  <2>4. /\ mints = {row(i) : i \in 1..n} /\ \A i \in 1..premint : token[i] = i
        /\ a = trail[k] /\ \A j \in 0..k : InOrder(trail[j], Draws(token, premint, j), premint, max)
    BY <2>1 DEF Numbered
  <2>5. InOrder(a, m, premint, max) /\ k \in Nat
    BY <2>3, <2>4
  <2>6. Len(m) = k /\ \A i \in 1..k : m[i] = token[premint + i]
    BY <2>3 DEF Draws
  <2>7. \A i : row(i).token = token[i]
    OBVIOUS
  <2> HIDE DEF row, m, k
  <2>8. drawn = Ids(m)
    <3>1. ASSUME NEW x \in drawn PROVE x \in Ids(m)
      <4>1. PICK i \in 1..n : x = token[i] /\ token[i] > premint
        BY <2>4, <2>7 DEF drawn
      <4>2. i > premint
        BY <2>3, <2>4, <4>1
      <4>3. i - premint \in 1..k /\ premint + (i - premint) = i
        BY <2>3, <4>2 DEF k
      <4>4. m[i - premint] = x
        BY <2>6, <4>1, <4>3
      <4>5. QED BY <2>6, <4>3, <4>4 DEF Ids
    <3>2. ASSUME NEW x \in Ids(m) PROVE x \in drawn
      <4>1. PICK i \in 1..k : x = m[i]
        BY <2>6 DEF Ids
      <4>2. premint + i \in (premint + 1)..n /\ premint + i \in 1..n
        BY <2>3 DEF k
      <4>3. x = token[premint + i] /\ x > premint
        BY <2>3, <2>6, <4>1, <4>2 DEF Drawable
      <4>4. row(premint + i) \in mints /\ row(premint + i).token = x
        BY <2>4, <2>7, <4>2, <4>3
      <4>5. QED BY <4>3, <4>4 DEF drawn
    <3>3. QED BY <3>1, <3>2
  <2>9. CASE m = <<>>
    <3>1. a = NoRanges /\ Ids(m) = {}
      BY <2>5, <2>9 DEF InOrder, Ids
    <3>2. QED BY <1>1, <2>8, <3>1 DEF a, drawn, mints, premint
  <2>10. CASE m # <<>>
    <3>1. WellFormed(a, m, premint, max)
      BY <2>5, <2>10 DEF InOrder
    <3>2. DOMAIN a.meta = drawn /\ DOMAIN a.ranges = 0..(a.len - 1)
      BY <2>8, <3>1 DEF WellFormed, MetaOK, RangesOK
    <3>3. drawn # {}
      <4>1. k # 0
        BY <2>5, <2>6, <2>10, <3>1 DEF WellFormed
      <4>2. m[1] \in Ids(m)
        BY <2>5, <2>6, <4>1 DEF Ids
      <4>3. QED BY <2>8, <4>2
    <3>4. \A x : x \in free <=> \E i \in DOMAIN a.ranges : x \in Span(a, i)
      BY DEF free, Span, Start, Size
    <3>5. \A i \in DOMAIN a.ranges : Span(a, i) \subseteq Drawable(premint, max)
      BY <2>2, <2>3, <3>1 DEF WellFormed, RangesOK, Span, Start, Size, Drawable, Supply
    <3>6. \A x \in Drawable(premint, max) : x \in Ids(m) <=> \A i \in DOMAIN a.ranges : x \notin Span(a, i)
      BY <3>1 DEF WellFormed, Partitioned
    <3>7. free = Drawable(premint, max) \ drawn
      BY <2>8, <3>4, <3>5, <3>6
    <3>8. free = ((premint + 1)..max) \ drawn
      BY <3>7 DEF Drawable
    <3>9. QED BY <3>2, <3>3, <3>8 DEF a, drawn, free, mints, premint, max
  <2>11. QED BY <2>9, <2>10
<1>4. QED BY <1>2, <1>3

\* The number of reorganisations explored is a natural number.
ReorgsOK == reorgs \in Nat

LEMMA ReorgsCounted == Spec => []ReorgsOK
<1>1. Init => ReorgsOK
  BY DEF Init, ReorgsOK
<1>2. ReorgsOK /\ [Next]_vars => ReorgsOK'
  <2> SUFFICES ASSUME ReorgsOK, [Next]_vars PROVE ReorgsOK'
    OBVIOUS
  <2>1. CASE reorgs' = reorgs
    BY <2>1 DEF ReorgsOK
  <2>2. CASE UNCHANGED vars
    BY <2>1, <2>2 DEF vars, modelVars
  <2>3. ASSUME NEW h \in Hashes, AcceptBlock(h) PROVE ReorgsOK'
    BY <2>1, <2>3 DEF AcceptBlock
  <2>4. ASSUME NEW op, NEW token, NEW error, Record(op, token, error) PROVE ReorgsOK'
    BY <2>1, <2>4 DEF Record
  <2>5. ASSUME NEW op \in Ops,
               \/ Reject(op) \/ Deploy(op) \/ Mint(op) \/ Transfer(op) \/ Discount(op) \/ List(op)
               \/ Send(op)
        PROVE  ReorgsOK'
    BY <2>4, <2>5 DEF Reject, Deploy, Mint, Transfer, Discount, List, Send
  <2>6. ASSUME NEW removed, NEW forced, Reorg(removed, forced) PROVE ReorgsOK'
    BY <2>6 DEF Reorg, ReorgsOK
  <2>7. QED BY <2>2, <2>3, <2>5, <2>6 DEF Next
<1>3. QED BY <1>1, <1>2, PTL DEF Spec

\* A step other than a send or a reorganisation leaves every listed token alone.
LEMMA OthersLeaveListed ==
    ASSUME LedgerInv, [Next]_vars, ~ (\E op \in Ops : Send(op)),
           ~ (\E removed, forced : Reorg(removed, forced))
    PROVE  ListedStay
<1>0. \A key \in DOMAIN listings : key \in DOMAIN current_ownership
  BY DEF LedgerInv, ListingInv, ListingsBacked
<1>1. CASE UNCHANGED ownVars
  <2>1. current_ownership' = current_ownership
    BY <1>1 DEF ownVars
  <2>2. QED BY <1>0, <2>1 DEF ListedStay
<1>2. CASE UNCHANGED vars
  BY <1>1, <1>2 DEF vars
<1>3. ASSUME NEW h \in Hashes, AcceptBlock(h) PROVE ListedStay
  BY <1>1, <1>3 DEF AcceptBlock
<1>4. ASSUME NEW op \in Ops, Reject(op) PROVE ListedStay
  BY <1>1, <1>4 DEF Reject
<1>5. ASSUME NEW op \in Ops, Deploy(op) PROVE ListedStay
  BY <1>5, DeployTokens DEF LedgerInv
<1>6. ASSUME NEW op \in Ops, Mint(op) PROVE ListedStay
  BY <1>6, MintTokens DEF LedgerInv
<1>7. ASSUME NEW op \in Ops, Transfer(op) PROVE ListedStay
  BY <1>7, TransferTokens
<1>8. ASSUME NEW op \in Ops, Discount(op) PROVE ListedStay
  BY <1>1, <1>8 DEF Discount
<1>9. ASSUME NEW op \in Ops, List(op) PROVE ListedStay
  BY <1>1, <1>9 DEF List
<1>10. QED BY <1>2, <1>3, <1>4, <1>5, <1>6, <1>7, <1>8, <1>9 DEF Next

\* A send moves the token whose listing it spends, and no other.
LEMMA SendMovesItsToken ==
    ASSUME LedgerInv, NEW op \in Ops, Send(op), NEW key \in DOMAIN listings,
           current_ownership'[key] # current_ownership[key]
    PROVE  /\ operation_history'[Now].error = None /\ operation_history'[Now].op.kind = "send"
           /\ operation_history'[Now].op.listing_utxo_txid = listings[key].listing_tx_id
           /\ key \notin DOMAIN listings'
<1> DEFINE sold == <<op.tick, op.token>>
           seqs == [t \in {op.token} |-> 0]
<1>1. /\ Arrives(op, op.kind) /\ op.kind = "send" /\ Record(op, None, None) /\ SendError(op) = None
      /\ SetOwner(op.tick, seqs, {listings[sold].seller}, op.buyer) \/ UNCHANGED ownVars
      /\ listings' = Del(listings, sold)
  BY DEF Send, Arrives
<1>2. sold \in DOMAIN listings /\ op.listing_utxo_txid = listings[sold].listing_tx_id
  BY <1>1, LedgerAssumption DEF SendError, Listed, CtxValidationError
<1>3. operation_history'[Now].op = op /\ operation_history'[Now].error = None
  BY <1>1, RecordFacts DEF LedgerInv
<1>4. key = sold
  <2>1. key \in DOMAIN current_ownership
    BY DEF LedgerInv, ListingInv, ListingsBacked
  <2>2. DOMAIN seqs = {op.token}
    OBVIOUS
  <2> HIDE DEF seqs
  <2>3. SetOwner(op.tick, seqs, {listings[sold].seller}, op.buyer)
    BY <1>1 DEF ownVars
  <2>4. \A other \in DOMAIN current_ownership :
           (\A x \in DOMAIN seqs : other # <<op.tick, x>>) =>
               current_ownership'[other] = current_ownership[other]
    BY <2>3, SetOwnerMoves DEF LedgerInv
  <2>5. QED BY <2>1, <2>2, <2>4
<1>5. key \notin DOMAIN listings'
  BY <1>1, <1>4 DEF Del, DelAll
<1>6. QED BY <1>1, <1>2, <1>3, <1>4, <1>5

\* A listed token changes hands only when a send spends its listing: the new
\* record is a successful send that names the listing's transaction, so
\* process_transfer and process_mint never move a token that is for sale.
THEOREM ListedTokenLockedAlways == Spec => ListedTokenLocked
<1> DEFINE Locked ==
       \A key \in DOMAIN listings :
          reorgs' = reorgs /\ key \in DOMAIN current_ownership'
              /\ current_ownership'[key] # current_ownership[key] =>
          LET recorded == operation_history'[Now]
          IN  /\ recorded.error = None /\ recorded.op.kind = "send"
              /\ recorded.op.listing_utxo_txid = listings[key].listing_tx_id
              /\ key \notin DOMAIN listings'
<1>1. LedgerInv /\ ReorgsOK /\ [Next]_vars => [Locked]_vars
  <2> SUFFICES ASSUME LedgerInv, ReorgsOK, [Next]_vars PROVE Locked
    OBVIOUS
  <2>1. CASE \E removed, forced : Reorg(removed, forced)
    <3>1. reorgs' # reorgs
      BY <2>1 DEF Reorg, ReorgsOK
    <3>2. QED BY <3>1
  <2>2. CASE \E op \in Ops : Send(op)
    BY <2>2, SendMovesItsToken
  <2>3. CASE /\ ~ (\E op \in Ops : Send(op))
             /\ ~ (\E removed, forced : Reorg(removed, forced))
    BY <2>3, OthersLeaveListed DEF ListedStay
  <2>4. QED BY <2>1, <2>2, <2>3
<1>2. QED BY LedgerAlways, ReorgsCounted, <1>1, PTL DEF Spec, ListedTokenLocked

\* Every collection's mints are numbered without gaps up to at most its maximum,
\* no token id is minted twice, ids stay within 1..max with the premint first, and
\* exactly the minted tokens have an owner: process_mint and a reorganisation
\* agree on the supply, however draws and rollbacks alternate.
THEOREM SupplyRespectedAlways == Spec => []SupplyRespected
BY LedgerAlways, SupplyHolds, PTL

\* The free ranges of every collection are its ids above the premint that are not
\* minted: rollback_token_generation, called for the newest mint first, undoes
\* exactly the draws of the mints a reorganisation removes.
THEOREM AllocatorInStepAlways == Spec => []AllocatorInStep
BY LedgerAlways, AllocatorHolds, PTL
===============================================================================
