--------------------------------- MODULE Keys ---------------------------------
(***************************************************************************)
(* The keys of database/src/database/partition.rs as the store orders      *)
(* them: byte strings, compared byte by byte.  The ledger reads a maximum, *)
(* a latest entry or the rows from a score on; the code reads the first or *)
(* last key of a prefix or of a range, and depends on the order of the     *)
(* fields, on big-endian numbers and on scores stored as u64::MAX - score. *)
(*                                                                         *)
(* A byte has Base values and a u64 Width bytes; a tick and a script are   *)
(* given their bytes by the constants.                                     *)
(***************************************************************************)
EXTENDS Accessor, Bytes

CONSTANTS TickBytes,    \* tick -> its bytes, all of one length
          HashBytes,    \* block hash -> its bytes
          SpkBytes,     \* script -> its version and script bytes
          Neighbours    \* ticks of other collections

\* No two ticks have the same bytes, and no script is a prefix of another: of standard
\* scripts the first byte fixes the length.  A key does not hold the length of its
\* script, so that of other scripts, which a sale may pay, this has to be assumed.
ASSUME KeysAssumption ==
    /\ Ticks \cup Neighbours \subseteq DOMAIN TickBytes /\ Ticks \cap Neighbours = {}
    /\ \A t, u \in DOMAIN TickBytes :
          /\ TickBytes[t] \in Seq(0..(Base - 1)) /\ Len(TickBytes[t]) = Len(TickBytes[u])
          /\ TickBytes[t] = TickBytes[u] => t = u
    /\ \A h \in Hashes : HashBytes[h] \in Seq(0..(Base - 1))
    /\ \A s, r \in DOMAIN SpkBytes :
          SpkBytes[s] \in Seq(0..(Base - 1)) /\ (s # r => ~ IsPrefix(SpkBytes[s], SpkBytes[r]))

\* The numbers of an operation are u64s, the scores of its transactions too; None is
\* not a number.
ASSUME NumbersAssumption ==
    /\ \A op \in Ops : /\ op.kind = "deploy" => op.max <= MaxU64
                       /\ op.kind = "discount" => op.fee <= MaxU64
    /\ \A h \in Hashes : TxScore(Blue[h], PerBlock - 1) <= MaxU64
    /\ None \notin Nat

\* Who an operation names has a script, and so has its bytes.
ASSUME PartiesAssumption ==
    \A op \in Ops : /\ op.kind = "deploy" => op.deployer \in DOMAIN SpkBytes
                    /\ op.kind \in {"mint", "transfer", "discount"} => op.to \in DOMAIN SpkBytes
                    /\ op.kind = "send" /\ op.buyer # None => op.buyer \in DOMAIN SpkBytes

\* The keys, in the order of their fields.
MintHistoryKey(m) == TickBytes[m.tick] \o Reversed(m.seq) \o U64(m.token) \o U64(m.score)
OwnershipKey(tick, token) == TickBytes[tick] \o U64(token)
RangeKey(k) == TickBytes[k[1]] \o U64(k[2])

\* A slip: the score as it is, so that the first owner comes first.
OwnershipHistoryKeyUnreversed(k) == OwnershipKey(k[1], k[2]) \o U64(k[3])

OwnershipHistoryKey(k) == OwnershipKey(k[1], k[2]) \o Reversed(k[3])
BlueScoredChainBlockHash(b) == U64(b.blue) \o HashBytes[b.hash]
TokenMintsKey(c) == U64(c.score) \o TickBytes[c.tick] \o U64(c.token) \o Reversed(c.seq)
DeploymentKey(d) == U64(d.score) \o TickBytes[d.tick]
AddressHoldingKey(k) == SpkBytes[k[1]] \o OwnershipKey(k[2], k[3])
ScoredDiscountKey(k) == U64(k[1]) \o TickBytes[k[2]] \o SpkBytes[k[3]]
VipRow(spk, tick, reversed, fee) == SpkBytes[spk] \o TickBytes[tick] \o U64(reversed) \o U64(fee)
VipKey(v) == VipRow(v.spk, v.tick, MaxU64 - v.score, v.fee)
-----------------------------------------------------------------------------
(* What the code reads, and from where.                                    *)

Encoded(rows, Key(_)) == {Key(r) : r \in rows}

\* last_accepted_block_wtx and last_accepted_block_rtx
TipScan(rows) == Greatest(Encoded(rows, BlueScoredChainBlockHash))

\* last_minted_token_seq_no_wtx
SeqScan(rows, tick) ==
    {MaxU64 - Tail64(k, 3) : k \in Least(Prefixed(Encoded(rows, MintHistoryKey), TickBytes[tick]))}

\* last_owner_with_tx_mod_score_wtx
OwnerScan(rows, key) ==
    {MaxU64 - Tail64(k, 1) :
        k \in Least(Prefixed(Encoded(rows, OwnershipHistoryKey), OwnershipKey(key[1], key[2])))}

\* last_fee_wtx and last_fee_rtx
FeeScan(rows, spk, tick) ==
    {Tail64(k, 1) : k \in Least(Between(Encoded(rows, VipKey), VipRow(spk, tick, 0, 0),
                                        VipRow(spk, tick, MaxU64, MaxU64)))}

\* The ranges krc721_available_token_id_ranges reads, by their index.
RangesScan(rows, tick) ==
    {Tail64(k, 1) : k \in Between(Encoded(rows, RangeKey), RangeKey(<<tick, 0>>), RangeKey(<<tick, MaxU64>>))}

\* address_holdings_by_tick_rtx
HoldingScan(rows, spk, tick) ==
    {Tail64(k, 1) : k \in Prefixed(Encoded(rows, AddressHoldingKey), SpkBytes[spk] \o TickBytes[tick])}

\* The rows a rollback takes from a score on: from TokenMintsKey with the least
\* tick, from DeploymentKey with the least tick, and range_from_score_wtx.
MinTick(tick) == [i \in DOMAIN TickBytes[tick] |-> 0]
ChangesFrom(rows, score, tick) ==
    From(Encoded(rows, TokenMintsKey), U64(score) \o MinTick(tick) \o U64(0) \o U64(0))
DeploymentsFrom(rows, score, tick) == From(Encoded(rows, DeploymentKey), U64(score) \o MinTick(tick))
DiscountsFrom(rows, score) == From(Encoded(rows, ScoredDiscountKey), U64(score))
-----------------------------------------------------------------------------
\* The rows of other collections a partition may hold: a copy under their ticks.
Beside(rows) == rows \cup {[r EXCEPT !.tick = n] : r \in rows, n \in Neighbours}
BesideAt(rows, i) == rows \cup {[r EXCEPT ![i] = n] : r \in rows, n \in Neighbours}

\* Whatever other collections store beside it, what the code reads from the order
\* of the keys is what the ledger means: the last sequence number, the latest
\* discount, the latest owner, the ranges left, the tokens of a holder, and for the
\* rollback of a block every row of its score and above and no other.
ScansExact ==
    /\ chain_block_scores # {} =>
           TipScan(chain_block_scores) = {BlueScoredChainBlockHash(Tip)}
    /\ \A tick \in Ticks :
           /\ SeqScan(Beside(mint_history), tick) =
                  {LastSeq(tick)} \ (IF LastMint(tick) = {} THEN {0} ELSE {})
           /\ RangesScan(BesideAt({<<tick, i>> : i \in DOMAIN alloc[tick].ranges}, 1), tick) =
                  DOMAIN alloc[tick].ranges
           /\ \A spk \in DOMAIN SpkBytes :
                 /\ FeeScan(Beside(vip), spk, tick) =
                        (LET fee == RequiredFee(spk, tick, None) IN IF fee = None THEN {} ELSE {fee})
                 /\ HoldingScan(BesideAt(DOMAIN address_holdings, 2), spk, tick) =
                        {k[3] : k \in {h \in DOMAIN address_holdings : h[1] = spk /\ h[2] = tick}}
           /\ \A key \in {<<k[1], k[2]>> : k \in DOMAIN ownership_history} :
                 OwnerScan(BesideAt(DOMAIN ownership_history, 1), key) = {LastChange(ownership_history, key)}
           /\ \A b \in chain_block_scores :
                 LET threshold == TxScore(b.blue, 0)
                     changes     == Beside(ownership_changes)
                     deployments == Beside(collection_deployments)
                     discounts   == BesideAt(DOMAIN score_to_discount, 2)
                 IN  /\ ChangesFrom(changes, threshold, tick) =
                            Encoded({c \in changes : c.score >= threshold}, TokenMintsKey)
                     /\ DeploymentsFrom(deployments, threshold, tick) =
                            Encoded({d \in deployments : d.score >= threshold}, DeploymentKey)
                     /\ DiscountsFrom(discounts, threshold) =
                            Encoded({k \in discounts : k[1] >= threshold}, ScoredDiscountKey)
=============================================================================
