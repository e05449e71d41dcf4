-------------------------------- MODULE Views ---------------------------------
(***************************************************************************)
(* What a client is told: the queries of nexus/src/nft_view.rs, which      *)
(* nexus/src/accessor.rs runs on a blocking thread, each in one read       *)
(* transaction over the tables of the ledger.  A list is the set of its    *)
(* entries, all pages together; Pages models the paging.  A query whose    *)
(* thread panics, or that meets an inconsistent index, answers Failed.     *)
(***************************************************************************)
EXTENDS Ledger

CONSTANTS HiddenTxs,   \* deployments whose metadata has none of the accepted URI prefixes
          Failed       \* the answer of a query that panics or returns an error

ASSUME ViewsAssumption ==
    \A op \in Ops :
        /\ op.kind = "mint" => {"tick", "to", "royalty"} \subseteq DOMAIN op
        /\ op.kind = "deploy" /\ op.royalty # None => {"fee", "beneficiary"} \subseteq DOMAIN op.royalty

\* has_incompatible_uri_prefix; the configuration may be stricter than it was
\* when the deployment was indexed.
Hidden(tick) == DeployOf(tick).tx \in HiddenTxs

\* The collections the queries about tokens answer for; for any other, None.
Shown(tick) == Registered(tick) /\ ~ Hidden(tick)

\* collect_split_last_result: one entry in error fails the whole list.
Answered(entries) == IF \E x \in entries : x = Failed THEN Failed ELSE entries

\* The last mint of a collection, as a set with at most one row.
LastMint(tick) == {m \in mint_history : m.tick = tick /\ m.seq = LastSeq(tick)}

\* token_listing
TokenListing(tick, token) ==
    IF <<tick, token>> \in DOMAIN listings THEN listings[<<tick, token>>] ELSE None

\* The Collection record of a deployment at a score.
CollectionAt(score, op) ==
    [op |-> op, op_score_added |-> score,
     minted |-> LastSeq(op.tick),
     op_score_modified |-> IF LastMint(op.tick) = {} THEN score
                           ELSE (CHOOSE m \in LastMint(op.tick) : TRUE).score]

\* krc721_collection_list; the block time of the last mint is taken from an
\* operation that has to exist.
CollectionList ==
    Answered({IF \A m \in LastMint(d.tick) : m.score \in DOMAIN operation_history
              THEN CollectionAt(d.score, DeployOf(d.tick)) ELSE Failed :
                 d \in {x \in collection_deployments : ~ Hidden(x.tick)}})

\* krc721_collection_lookup
CollectionLookup(tick) ==
    IF Shown(tick) THEN CollectionAt(collection_registry[tick].score, DeployOf(tick)) ELSE None

\* krc721_deployment_list
DeploymentList == {[score |-> d.score, op |-> DeployOf(d.tick)] :
                      d \in {x \in collection_deployments : ~ Hidden(x.tick)}}

Token(tick, token) ==
    LET current == current_ownership[<<tick, token>>]
    IN  [tick |-> tick, token |-> token, owner |-> current.owner,
         op_score_modified |-> current.mod_tx_score, listing |-> TokenListing(tick, token)]

\* krc721_token_lookup
TokenLookup(tick, token) ==
    IF <<tick, token>> \in DOMAIN current_ownership /\ Shown(tick) THEN Token(tick, token) ELSE None

\* krc721_token_list
TokenList(tick) ==
    IF Shown(tick) THEN {Token(tick, k[2]) : k \in {x \in DOMAIN current_ownership : x[1] = tick}}
    ELSE {}

\* krc721_token_history_list; .expect("operation must exist").
TokenHistory(tick, token) ==
    IF ~ Shown(tick) THEN {}
    ELSE Answered({IF k[3] \in DOMAIN operation_history
                   THEN [owner |-> ownership_history[k], op_score_modified |-> k[3],
                         tx |-> operation_history[k[3]].op.tx]
                   ELSE Failed :
                      k \in {x \in DOMAIN ownership_history : <<x[1], x[2]>> = <<tick, token>>}})

Holding(k) == [tick |-> k[2], token |-> k[3], op_score_modified |-> address_holdings[k],
               listing |-> TokenListing(k[2], k[3])]

\* krc721_address_nft_list; unwrap of the holding's collection.
AddressNftList(spk) ==
    Answered({IF Registered(k[2]) THEN Holding(k) ELSE Failed :
                 k \in {x \in DOMAIN address_holdings :
                           x[1] = spk /\ (Registered(x[2]) => ~ Hidden(x[2]))}})

\* krc721_address_nft_lookup
AddressNftLookup(spk, tick) ==
    IF Shown(tick) THEN {Holding(k) : k \in {x \in DOMAIN address_holdings : <<x[1], x[2]>> = <<spk, tick>>}}
    ELSE {}

\* krc721_op_by_txid
OpByTxid(tx) ==
    IF tx \in DOMAIN tx_id_to_opscore /\ tx_id_to_opscore[tx] \in DOMAIN operation_history
    THEN [score |-> tx_id_to_opscore[tx], op |-> operation_history[tx_id_to_opscore[tx]].op]
    ELSE None

\* A slip: the premint's last id is shown as available.
AvailableFromPremint(tick) ==
    IF ~ Registered(tick) THEN {}
    ELSE LET deploy == DeployOf(tick)
             stored == UNION {alloc[tick].ranges[i][1]..(alloc[tick].ranges[i][1] + alloc[tick].ranges[i][2] - 1) :
                                 i \in DOMAIN alloc[tick].ranges}
         IN  IF LastMint(tick) = {} THEN 1..deploy.max
             ELSE IF LastSeq(tick) = deploy.max THEN {}
             ELSE IF DOMAIN alloc[tick].ranges = {} THEN deploy.premint..deploy.max
             ELSE stored

\* krc721_available_token_id_ranges, as the ids in the ranges; FullyMinted is {}.
AvailableTokenIds(tick) ==
    IF ~ Registered(tick) THEN {}
    ELSE LET deploy == DeployOf(tick)
             stored == UNION {alloc[tick].ranges[i][1]..(alloc[tick].ranges[i][1] + alloc[tick].ranges[i][2] - 1) :
                                 i \in DOMAIN alloc[tick].ranges}
         IN  IF LastMint(tick) = {} THEN 1..deploy.max
             ELSE IF LastSeq(tick) = deploy.max THEN {}
             ELSE IF DOMAIN alloc[tick].ranges = {} THEN (deploy.premint + 1)..deploy.max
             ELSE stored

\* krc721_royalty_fee
RoyaltyFee(spk, tick) ==
    IF ~ Shown(tick) THEN None
    ELSE IF \E v \in vip : v.spk = spk /\ v.tick = tick THEN RequiredFee(spk, tick, 0)
    ELSE IF DeployOf(tick).royalty = None THEN None ELSE DeployOf(tick).royalty.fee

\* The entry of a listing, looked up in listings.
ListingEntry(tick, token) ==
    IF <<tick, token>> \in DOMAIN listings
    THEN [tick |-> tick, token |-> token, listing |-> listings[<<tick, token>>]] ELSE Failed

\* krc721_active_listings, which answers for hidden collections too.
ActiveListings(tick) ==
    IF Registered(tick) THEN Answered({ListingEntry(k[1], k[2]) : k \in {x \in listings_by_tick : x[1] = tick}})
    ELSE {}

\* krc721_listing_lookup
ListingLookup(tick, token) == TokenListing(tick, token)

\* krc721_address_listings: found by the seller's index, whoever sells now.
AddressListings(spk) ==
    Answered({ListingEntry(k[2], k[3]) : k \in {x \in DOMAIN address_listings : x[1] = spk}})
-----------------------------------------------------------------------------
Addresses == {h[1] : h \in DOMAIN address_holdings} \cup {ownership_history[k] : k \in DOMAIN ownership_history}
Sellers == {k[1] : k \in DOMAIN address_listings}

\* The queries tell one story, whichever table they read: a token has the owner
\* its newest history entry names and stands in that owner's list and nobody
\* else's, a collection has as many tokens as it says were minted, the tokens
\* shown as listed are the active listings, and each is sold by its owner.
ViewsAgree ==
    /\ \A tick \in {t \in Ticks : Shown(t)} :
          LET tokens == TokenList(tick)
          IN  /\ CollectionLookup(tick) \in CollectionList
              /\ CollectionLookup(tick).minted = Cardinality(tokens)
              /\ ActiveListings(tick) = {[tick |-> tick, token |-> t.token, listing |-> t.listing] :
                                            t \in {x \in tokens : x.listing # None}}
              /\ \A t \in tokens :
                    /\ t.listing # None => t.listing.seller = t.owner
                    /\ \E h \in TokenHistory(tick, t.token) :
                          /\ h.owner = t.owner /\ h.op_score_modified = t.op_score_modified
                          /\ OpByTxid(h.tx) # None /\ OpByTxid(h.tx).score = h.op_score_modified
                          /\ \A g \in TokenHistory(tick, t.token) : g.op_score_modified <= h.op_score_modified
              /\ \A spk \in Addresses :
                    AddressNftLookup(spk, tick) =
                        {[tick |-> tick, token |-> t.token, op_score_modified |-> t.op_score_modified,
                          listing |-> t.listing] : t \in {x \in tokens : x.owner = spk}}
    /\ \A spk \in Addresses : AddressNftList(spk) = UNION {AddressNftLookup(spk, t) : t \in Ticks}

\* The ids shown as available are those no token has yet, and the fee shown to an
\* address is the least with which process_mint lets its mint through.
QuotesHold ==
    \A tick \in {t \in Ticks : Shown(t)} :
        /\ AvailableTokenIds(tick) = (1..DeployOf(tick).max) \ {t.token : t \in TokenList(tick)}
        /\ DeployOf(tick).royalty # None =>
              \A op \in {o \in Ops : o.kind = "mint" /\ o.tick = tick} :
                  LET royalty == DeployOf(tick).royalty
                      shown == RoyaltyFee(op.to, tick)
                      error(fee) == RoyaltyError([op EXCEPT !.royalty = [royalty EXCEPT !.fee = fee]],
                                                 DeployOf(tick))
                  IN  error(shown) = None /\ (shown > 0 => error(shown - 1) # None)
=============================================================================
