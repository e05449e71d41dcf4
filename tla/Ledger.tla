-------------------------------- MODULE Ledger --------------------------------
(***************************************************************************)
(* The processor's ledger, nexus/src/processor.rs: what the partitions of  *)
(* the database hold while chain blocks are accepted, their operations are *)
(* validated and recorded one by one, and a reorganisation takes blocks    *)
(* back.                                                                   *)
(*                                                                         *)
(* A block's hash determines its header (blue score, DAA score, entropy);  *)
(* which operations its mergeset holds, and in which order, is left open.  *)
(* A partition keeps its name; a key is a tuple, or a record for the        *)
(* partitions that store keys only.                                        *)
(***************************************************************************)
EXTENDS TokenRanges, FiniteSetsExt, SequencesExt

CONSTANTS Hashes,     \* chain block hashes
          Blue,       \* hash -> blue score
          Daa,        \* hash -> DAA score
          Entropy,    \* hash -> mergeset entropy
          Ops,        \* the transactions carrying an operation, as parsed by the analyzer
          PerBlock,   \* tx scores per blue score: MERGE_SET_LIMIT * BLOCK_TX_CAPACITY
          MaxReorgs,  \* bound on the reorganisations explored
          None        \* Option::None: no royalty, no buyer, no error

Ticks == {op.tick : op \in Ops}

\* Why the handlers refuse an operation.
CtxValidationError ==
    {"TickExists", "TickNotFound", "MintingNotStarted", "MintingFinished",
     "MissingRoyaltyMintFee", "InsufficientRoyaltyFee", "InvalidBeneficiaryForRoyaltyMintFee",
     "TokenNotFound", "WrongOwner", "TokenIsListed", "WrongDeployer", "DiscountFeeOverflow",
     "InvalidListingP2sh", "TokenAlreadyListed", "ListingNotFound", "WrongListingUtxo"}

ASSUME LedgerAssumption ==
    /\ Blue \in [Hashes -> Nat \ {0}]
    /\ Daa \in [Hashes -> Nat]
    /\ Entropy \in [Hashes -> Nat]
    /\ PerBlock \in Nat \ {0}
    /\ MaxReorgs \in Nat
    /\ \A op \in Ops : op.kind = "deploy" => op.max \in Nat /\ op.premint \in 0..op.max
    /\ \A op, other \in Ops : op.tx = other.tx => op = other
    /\ \A op \in Ops : op.security_fee \in Nat /\ (op.kind = "discount" => op.fee \in Nat)
    /\ \A op \in Ops : op.kind \in {"deploy", "mint"} /\ op.royalty # None => op.royalty.fee \in Nat
    /\ None \notin CtxValidationError

\* The variants of Op.
ASSUME KindsAssumption ==
    \A op \in Ops : op.kind \in {"deploy", "mint", "transfer", "discount", "list", "send"}

VARIABLES
    chain_block_scores,     \* accepted chain blocks, [blue, hash]
    blockhash_to_score,     \* hash -> blue score
    operation_history,      \* tx score -> [op, token, error]
    tx_id_to_opscore,       \* tx -> tx score
    collection_registry,    \* tick -> [score, op]
    collection_deployments, \* [score, tick]
    mint_history,           \* [tick, seq, token, score]
    ownership_changes,      \* [score, tick, token, seq]
    ownership_history,      \* <<tick, token, score>> -> owner
    current_ownership,      \* <<tick, token>> -> [owner, mod_tx_score]
    address_holdings,       \* <<owner, tick, token>> -> score
    alloc,                  \* tick -> range_lengths, available_ranges, token_id_meta
    listings,               \* <<tick, token>> -> [seller, listing_tx_id, op_score]
    listings_by_tick,       \* <<tick, token>>
    address_listings,       \* <<seller, tick, token>> -> score
    score_to_discount,      \* <<score, tick, beneficiary of the discount>> -> fee
    vip,                    \* [spk, tick, score, fee]
    stats,                  \* counter -> value
    slot,                   \* position of the next operation in the block being processed
    reorgs,                 \* bound: reorganisations so far
    past                    \* history variable: blue score -> the tables before that block

chainVars == <<chain_block_scores, blockhash_to_score>>
opVars == <<operation_history, tx_id_to_opscore>>
deployVars == <<collection_registry, collection_deployments>>
mintVars == <<mint_history, alloc>>
ownVars == <<ownership_changes, ownership_history, current_ownership, address_holdings>>
listingVars == <<listings, listings_by_tick, address_listings>>
discountVars == <<score_to_discount, vip>>
modelVars == <<slot, reorgs, past>>
vars == <<chainVars, opVars, deployVars, mintVars, ownVars, listingVars, discountVars,
          stats, modelVars>>

Counters == {"deployments", "mints", "transfers", "listings", "sends",
             "royalty_fees", "security_fees"}

Init ==
    /\ chain_block_scores = {} /\ blockhash_to_score = NoEntries
    /\ operation_history = NoEntries /\ tx_id_to_opscore = NoEntries
    /\ collection_registry = NoEntries /\ collection_deployments = {}
    /\ mint_history = {} /\ alloc = [t \in Ticks |-> NoRanges]
    /\ ownership_changes = {} /\ ownership_history = NoEntries
    /\ current_ownership = NoEntries /\ address_holdings = NoEntries
    /\ listings = NoEntries /\ listings_by_tick = {} /\ address_listings = NoEntries
    /\ score_to_discount = NoEntries /\ vip = {}
    /\ stats = [c \in Counters |-> 0]
    /\ slot = PerBlock /\ reorgs = 0 /\ past = NoEntries
-----------------------------------------------------------------------------
(* Accepting a chain block.                                                *)

\* The tables as they are now, to compare a rollback with.
Tables ==
    [operations |-> <<operation_history, tx_id_to_opscore>>,
     deployments |-> <<collection_registry, collection_deployments>>,
     mints |-> <<mint_history, alloc>>,
     ownership |-> <<ownership_changes, ownership_history, current_ownership, address_holdings>>,
     listings |-> <<listings, listings_by_tick>>,
     vip |-> vip]

\* calculate_tx_score, with the position in the mergeset as one number.
TxScore(blue, position) == blue * PerBlock + position

\* last_accepted_block_wtx: 0 when there is none (unwrap_or_default).
LastBlue == Max({0} \cup {b.blue : b \in chain_block_scores})

Tip == CHOOSE b \in chain_block_scores : b.blue = LastBlue

\* process_additions up to the operations.  A block below the last accepted one,
\* or already stored, is ignored and changes nothing.  The node delivers chain
\* blocks in order, each with a higher blue score than the one before.
AcceptBlock(h) ==
    /\ ~ Blue[h] < LastBlue
    /\ [blue |-> Blue[h], hash |-> h] \notin chain_block_scores
    /\ Blue[h] # LastBlue
    /\ chain_block_scores' = chain_block_scores \cup {[blue |-> Blue[h], hash |-> h]}
    /\ blockhash_to_score' = Put(blockhash_to_score, h, Blue[h])
    /\ slot' = 0
    /\ past' = Put(past, Blue[h], Tables)
    /\ UNCHANGED <<opVars, deployVars, mintVars, ownVars, listingVars, discountVars, stats, reorgs>>
-----------------------------------------------------------------------------
(* Validating an operation: the error the handler returns, or None.         *)

Registered(tick) == tick \in DOMAIN collection_registry
DeployOf(tick) == collection_registry[tick].op
OwnerOf(op) == current_ownership[<<op.tick, op.token>>].owner
Exists(op) == <<op.tick, op.token>> \in DOMAIN current_ownership
Listed(op) == <<op.tick, op.token>> \in DOMAIN listings

DeployError(op) == IF Registered(op.tick) THEN "TickExists" ELSE None

\* last_minted_token_seq_no_wtx
LastSeq(tick) == Max({0} \cup {m.seq : m \in {x \in mint_history : x.tick = tick}})

\* last_fee_wtx, or the fee of the deployment: the latest discount counts.
RequiredFee(to, tick, default) ==
    LET granted == {v \in vip : v.spk = to /\ v.tick = tick}
    IN  IF granted = {} THEN default
        ELSE (CHOOSE v \in granted : \A w \in granted : w.score <= v.score).fee

RoyaltyError(op, deploy) ==
    IF deploy.royalty = None THEN None
    ELSE IF op.royalty = None THEN "MissingRoyaltyMintFee"
    ELSE IF RequiredFee(op.to, op.tick, deploy.royalty.fee) > op.royalty.fee
         THEN "InsufficientRoyaltyFee"
    ELSE IF deploy.royalty.beneficiary # op.royalty.beneficiary
         THEN "InvalidBeneficiaryForRoyaltyMintFee"
    ELSE None

\* A slip: the last sequence number is compared instead of the next one.
MintErrorOneMore(op) ==
    IF ~ Registered(op.tick) THEN "TickNotFound"
    ELSE LET deploy == DeployOf(op.tick)
         IN  IF Daa[Tip.hash] < deploy.mint_start_daa THEN "MintingNotStarted"
             ELSE IF RoyaltyError(op, deploy) # None THEN RoyaltyError(op, deploy)
             ELSE IF LastSeq(op.tick) > deploy.max THEN "MintingFinished"
             ELSE None

\* A mint operation: process_mint with is_deployment = false.
MintError(op) ==
    IF ~ Registered(op.tick) THEN "TickNotFound"
    ELSE LET deploy == DeployOf(op.tick)
             shouldPremint == LastSeq(op.tick) < deploy.premint
             royaltyError == IF shouldPremint THEN None ELSE RoyaltyError(op, deploy)
         IN  IF Daa[Tip.hash] < deploy.mint_start_daa THEN "MintingNotStarted"
             ELSE IF deploy.max = 0 THEN "MintingFinished"
             ELSE IF royaltyError # None THEN royaltyError
             ELSE IF LastSeq(op.tick) + 1 > deploy.max THEN "MintingFinished"
             ELSE None

\* A slip: a listed token may be transferred.
TransferErrorUnlocked(op) ==
    IF ~ Exists(op) THEN "TokenNotFound"
    ELSE IF OwnerOf(op) # op.sender THEN "WrongOwner"
    ELSE None

TransferError(op) ==
    IF ~ Exists(op) THEN "TokenNotFound"
    ELSE IF OwnerOf(op) # op.sender THEN "WrongOwner"
    ELSE IF Listed(op) THEN "TokenIsListed"
    ELSE None

DiscountError(op) ==
    IF ~ Registered(op.tick) THEN "TickNotFound"
    ELSE LET deploy == DeployOf(op.tick)
             royaltyFee == IF deploy.royalty = None THEN 0 ELSE deploy.royalty.fee
         IN  IF op.sender # deploy.deployer THEN "WrongDeployer"
             ELSE IF op.fee >= royaltyFee THEN "DiscountFeeOverflow"
             ELSE None

ListError(op) ==
    IF ~ op.p2sh_matches THEN "InvalidListingP2sh"
    ELSE IF ~ Registered(op.tick) THEN "TickNotFound"
    ELSE IF ~ Exists(op) THEN "TokenNotFound"
    ELSE IF OwnerOf(op) # op.sender THEN "WrongOwner"
    ELSE IF Listed(op) THEN "TokenAlreadyListed"
    ELSE None

\* A slip: any transaction may spend the listing.
SendErrorAnyUtxo(op) == IF ~ Listed(op) THEN "ListingNotFound" ELSE None

SendError(op) ==
    IF ~ Listed(op) THEN "ListingNotFound"
    ELSE IF op.listing_utxo_txid # listings[<<op.tick, op.token>>].listing_tx_id
         THEN "WrongListingUtxo"
    ELSE None

ErrorOf(op) ==
    CASE op.kind = "deploy"   -> DeployError(op)
      [] op.kind = "mint"     -> MintError(op)
      [] op.kind = "transfer" -> TransferError(op)
      [] op.kind = "discount" -> DiscountError(op)
      [] op.kind = "list"     -> ListError(op)
      [] op.kind = "send"     -> SendError(op)
-----------------------------------------------------------------------------
(* Applying an operation: one iteration of process_nft_operations.          *)

\* The tx score of the operation being processed.
Now == TxScore(LastBlue, slot)

\* A slip: more operations than the scores of the block.
ArrivesUnbounded(op, kind) ==
    /\ op.kind = kind
    /\ op.tx \notin DOMAIN tx_id_to_opscore

\* An operation of the block being processed; transactions already recorded
\* were filtered out when the block was accepted.
Arrives(op, kind) ==
    /\ op.kind = kind
    /\ slot < PerBlock
    /\ op.tx \notin DOMAIN tx_id_to_opscore

\* Every operation is recorded, with the token id a mint drew and the error.
Record(op, token, error) ==
    /\ operation_history' =
           Put(operation_history, Now, [op |-> op, token |-> token, error |-> error])
    /\ tx_id_to_opscore' = Put(tx_id_to_opscore, op.tx, Now)
    /\ slot' = slot + 1
    /\ UNCHANGED <<chainVars, reorgs, past>>

\* An operation that fails validation leaves every other table alone.
Reject(op) ==
    /\ Arrives(op, op.kind)
    /\ ErrorOf(op) # None
    /\ Record(op, None, ErrorOf(op))
    /\ UNCHANGED <<deployVars, mintVars, ownVars, listingVars, discountVars, stats>>

\* A slip: the previous owner keeps the entry in address_holdings.
SetOwnerKeepsHolding(tick, seqs, from, to) ==
    LET tokens == DOMAIN seqs
    IN  /\ ownership_changes' = ownership_changes \cup
               {[score |-> Now, tick |-> tick, token |-> t, seq |-> seqs[t]] : t \in tokens}
        /\ ownership_history' = PutAll(ownership_history, {<<tick, t, Now>> : t \in tokens}, to)
        /\ current_ownership' = PutAll(current_ownership, {<<tick, t>> : t \in tokens},
                                       [owner |-> to, mod_tx_score |-> Now])
        /\ address_holdings' = PutAll(address_holdings, {<<to, tick, t>> : t \in tokens}, Now)

\* Tokens (a function token -> sequence number, 0 when the token is not being
\* minted) get a new owner; a previous owner's holding entry goes first.
SetOwner(tick, seqs, from, to) ==
    LET tokens == DOMAIN seqs
    IN  /\ ownership_changes' = ownership_changes \cup
               {[score |-> Now, tick |-> tick, token |-> t, seq |-> seqs[t]] : t \in tokens}
        /\ ownership_history' = PutAll(ownership_history, {<<tick, t, Now>> : t \in tokens}, to)
        /\ current_ownership' = PutAll(current_ownership, {<<tick, t>> : t \in tokens},
                                       [owner |-> to, mod_tx_score |-> Now])
        /\ address_holdings' =
               PutAll(DelAll(address_holdings, {<<a, tick, t>> : a \in from, t \in tokens}),
                      {<<to, tick, t>> : t \in tokens}, Now)

MintRows(tick, seqs) ==
    {[tick |-> tick, seq |-> seqs[t], token |-> t, score |-> Now] : t \in DOMAIN seqs}

\* The StatsDiffs an operation adds when it is processed; removal subtracts the
\* same, except for the premint of a deployment.
RemovalDiff(op) ==
    LET one(kind) == IF op.kind = kind THEN 1 ELSE 0
    IN  [deployments |-> one("deploy"), mints |-> one("mint"), transfers |-> one("transfer"),
         listings |-> one("list"), sends |-> one("send"), security_fees |-> op.security_fee,
         royalty_fees |-> IF op.kind \in {"deploy", "mint"} /\ op.royalty # None
                          THEN op.royalty.fee ELSE 0]

AdditionDiff(op) ==
    IF op.kind = "deploy" THEN [RemovalDiff(op) EXCEPT !.mints = op.premint] ELSE RemovalDiff(op)

\* Stats: Add.
CountAddition(op) == stats' = [c \in Counters |-> stats[c] + AdditionDiff(op)[c]]

\* process_deployment; the premint is minted to the deployer, ids 1..premint.
Deploy(op) ==
    /\ Arrives(op, "deploy")
    /\ DeployError(op) = None
    /\ Record(op, None, None)
    /\ collection_registry' = Put(collection_registry, op.tick, [score |-> Now, op |-> op])
    /\ collection_deployments' = collection_deployments \cup {[score |-> Now, tick |-> op.tick]}
    /\ LET seqs == [t \in 1..op.premint |-> t]
       IN  /\ mint_history' = mint_history \cup MintRows(op.tick, seqs)
           /\ SetOwner(op.tick, seqs, {}, op.deployer)
    /\ CountAddition(op)
    /\ UNCHANGED <<alloc, listingVars, discountVars>>

\* process_mint for a mint operation.
Mint(op) ==
    /\ Arrives(op, "mint")
    /\ MintError(op) = None
    /\ LET deploy == DeployOf(op.tick)
           seq    == LastSeq(op.tick) + 1
           random == ~ (LastSeq(op.tick) < deploy.premint) /\ deploy.premint < deploy.max
           drawn  == GenerateTokenId(alloc[op.tick], Entropy[Tip.hash], deploy.max, deploy.premint)
           token  == IF random THEN drawn.token ELSE seq
       IN  /\ alloc' = IF random THEN [alloc EXCEPT ![op.tick] = drawn.alloc] ELSE alloc
           /\ mint_history' = mint_history \cup MintRows(op.tick, [t \in {token} |-> seq])
           /\ SetOwner(op.tick, [t \in {token} |-> seq], {}, op.to)
           /\ Record(op, token, None)
    /\ CountAddition(op)
    /\ UNCHANGED <<deployVars, listingVars, discountVars>>

\* process_transfer
Transfer(op) ==
    /\ Arrives(op, "transfer")
    /\ TransferError(op) = None
    /\ Record(op, None, None)
    /\ SetOwner(op.tick, [t \in {op.token} |-> 0], {OwnerOf(op)}, op.to)
    /\ CountAddition(op)
    /\ UNCHANGED <<deployVars, mintVars, listingVars, discountVars>>

\* process_discount
Discount(op) ==
    /\ Arrives(op, "discount")
    /\ DiscountError(op) = None
    /\ Record(op, None, None)
    /\ score_to_discount' = Put(score_to_discount, <<Now, op.tick, op.to>>, op.fee)
    /\ vip' = vip \cup {[spk |-> op.to, tick |-> op.tick, score |-> Now, fee |-> op.fee]}
    /\ CountAddition(op)
    /\ UNCHANGED <<deployVars, mintVars, ownVars, listingVars>>

\* process_list
List(op) ==
    /\ Arrives(op, "list")
    /\ ListError(op) = None
    /\ Record(op, None, None)
    /\ listings' = Put(listings, <<op.tick, op.token>>,
                       [seller |-> op.sender, listing_tx_id |-> op.tx, op_score |-> Now])
    /\ listings_by_tick' = listings_by_tick \cup {<<op.tick, op.token>>}
    /\ address_listings' = Put(address_listings, <<op.sender, op.tick, op.token>>, Now)
    /\ CountAddition(op)
    /\ UNCHANGED <<deployVars, mintVars, ownVars, discountVars>>

\* process_send: a sale when there is a buyer, a cancellation when there is none.
Send(op) ==
    /\ Arrives(op, "send")
    /\ SendError(op) = None
    /\ Record(op, None, None)
    /\ LET key    == <<op.tick, op.token>>
           seller == listings[key].seller
       IN  /\ \/ /\ op.buyer # None
                 /\ SetOwner(op.tick, [t \in {op.token} |-> 0], {seller}, op.buyer)
              \/ op.buyer = None /\ UNCHANGED ownVars
           /\ listings' = Del(listings, key)
           /\ listings_by_tick' = listings_by_tick \ {key}
           /\ address_listings' = Del(address_listings, <<seller, op.tick, op.token>>)
    /\ CountAddition(op)
    /\ UNCHANGED <<deployVars, mintVars, discountVars>>
-----------------------------------------------------------------------------
(* A reorganisation: process_removal.                                      *)

\* lookup_removed_block_score, as a set with at most one score: the reverse index, else
\* the tip of chain_block_scores.
RemovedScore(h) ==
    IF h \in DOMAIN blockhash_to_score THEN {blockhash_to_score[h]}
    ELSE {b.blue : b \in {x \in chain_block_scores : x.blue = LastBlue /\ x.hash = h}}

\* The blue scores identify_reorg_blocks_and_delete takes the minimum of.
RemovedScores(removed, forced) == forced \cup UNION {RemovedScore(h) : h \in removed}

\* A slip: rejected operations are taken off the counters too.
RemovedOpsAll(threshold) == {s \in DOMAIN operation_history : s >= threshold}

\* The successfully processed operations from a tx score on.
RemovedOps(threshold) ==
    {s \in DOMAIN operation_history : s >= threshold /\ operation_history[s].error = None}

\* A slip: no listing is restored.
RestoringNone(threshold) == {}

\* restore_listing_for_reorged_send: the removed sends whose listing operation
\* stands.  The operations are removed in ascending order, so a listing at or
\* above the threshold is already gone when its send is reached.
RestoringSends(threshold) ==
    {s \in RemovedOps(threshold) :
        LET op == operation_history[s].op
        IN  /\ op.kind = "send"
            /\ op.listing_utxo_txid \in DOMAIN tx_id_to_opscore
            /\ LET l == tx_id_to_opscore[op.listing_utxo_txid]
               IN  /\ l \notin threshold..s
                   /\ operation_history[l].error = None
                   /\ operation_history[l].op.kind = "list"}

\* The listing a send restores, and its keys.
RestoredListing(s) ==
    LET l == tx_id_to_opscore[operation_history[s].op.listing_utxo_txid]
    IN  [seller |-> operation_history[l].op.sender,
         listing_tx_id |-> operation_history[l].op.tx, op_score |-> l]
RestoredKey(s) == <<operation_history[s].op.tick, operation_history[s].op.token>>
SellerKey(seller, key) == <<seller, key[1], key[2]>>
RestoredSellerKey(s) == SellerKey(RestoredListing(s).seller, RestoredKey(s))

\* The sends write their rows in ascending score order: the last one stays.
\* Both keyOf and valueOf are functions of the sends' scores.
Restore(m, keyOf, valueOf) ==
    LET sends     == DOMAIN keyOf
        writer(k) == Max({s \in sends : keyOf[s] = k})
        written   == {keyOf[s] : s \in sends}
    IN  [k \in DOMAIN m \cup written |-> IF k \in written THEN valueOf[writer(k)] ELSE m[k]]

\* A slip: only the primary listing is removed, both indexes are forgotten.
RollbackPrimaryListings(threshold) ==
    LET gone == {key \in DOMAIN listings : listings[key].op_score >= threshold}
    IN  /\ listings' = DelAll(listings, gone)
        /\ UNCHANGED <<listings_by_tick, address_listings>>

\* remove_affected_operations restores listings, then remove_affected_listings
\* removes those of operations that do not stand.
RollbackListings(threshold) ==
    LET sends    == RestoringSends(threshold)
        restored == Restore(listings, [s \in sends |-> RestoredKey(s)],
                            [s \in sends |-> RestoredListing(s)])
        indexed  == Restore(address_listings, [s \in sends |-> RestoredSellerKey(s)],
                            [s \in sends |-> RestoredListing(s).op_score])
        gone     == {key \in DOMAIN restored : restored[key].op_score >= threshold}
    IN  /\ listings' = DelAll(restored, gone)
        /\ listings_by_tick' = (listings_by_tick \cup {RestoredKey(s) : s \in sends}) \ gone
        /\ address_listings' = DelAll(indexed, {SellerKey(restored[key].seller, key) : key \in gone})

\* What the removed operations added to one counter together.
Total(amounts) == FoldFunction(+, 0, amounts)

\* Sub for Stats: a counter stops at zero.
CountRemoval(c, lost) == Max({0, stats[c] - lost})

\* A slip: a rejected operation's record goes, its transaction stays known.
RollbackSuccessful(threshold) ==
    LET gone == {s \in DOMAIN operation_history : s >= threshold}
        lost(c) == Total([s \in RemovedOps(threshold) |-> RemovalDiff(operation_history[s].op)[c]])
    IN  /\ operation_history' = DelAll(operation_history, gone)
        /\ tx_id_to_opscore' = DelAll(tx_id_to_opscore,
                                      {operation_history[s].op.tx : s \in RemovedOps(threshold)})
        /\ stats' = [c \in Counters |-> CountRemoval(c, lost(c))]

\* remove_affected_operations: the records and the counters.
RollbackOperations(threshold) ==
    LET gone == {s \in DOMAIN operation_history : s >= threshold}
        lost(c) == Total([s \in RemovedOps(threshold) |-> RemovalDiff(operation_history[s].op)[c]])
    IN  /\ operation_history' = DelAll(operation_history, gone)
        /\ tx_id_to_opscore' = DelAll(tx_id_to_opscore, {operation_history[s].op.tx : s \in gone})
        /\ stats' = [c \in Counters |-> CountRemoval(c, lost(c))]

\* remove_affected_deployments
RollbackDeployments(threshold) ==
    LET gone == {d \in collection_deployments : d.score >= threshold}
    IN  /\ collection_deployments' = collection_deployments \ gone
        /\ collection_registry' = DelAll(collection_registry, {d.tick : d \in gone})

\* A slip: the first discount of the removed blocks stays in force.
RollbackDiscountsAfter(threshold) ==
    /\ vip' = vip \ {[spk |-> k[3], tick |-> k[2], score |-> k[1], fee |-> score_to_discount[k]] :
                        k \in {x \in DOMAIN score_to_discount : x[1] > threshold}}
    /\ UNCHANGED score_to_discount

\* remove_discounts: the rows of score_to_discount stay.
RollbackDiscounts(threshold) ==
    /\ vip' = vip \ {[spk |-> k[3], tick |-> k[2], score |-> k[1], fee |-> score_to_discount[k]] :
                        k \in {x \in DOMAIN score_to_discount : x[1] >= threshold}}
    /\ UNCHANGED score_to_discount

\* The mints get_affected_token_operations finds in mint_history.
RemovedMints(threshold) ==
    {m \in mint_history : \E k \in ownership_changes :
        /\ k.score >= threshold
        /\ m = [tick |-> k.tick, seq |-> k.seq, token |-> k.token, score |-> k.score]}

\* The premint of a tick, also when its deployment is being removed.
PremintOf(tick) == DeployOf(tick).premint

\* A slip: the draws are not rolled back.
RollbackMintRows(threshold) ==
    /\ mint_history' = mint_history \ RemovedMints(threshold)
    /\ UNCHANGED alloc

\* rollback_token_generation for each of a set of mints, the newest first.
UndoMints(a, mints) ==
    LET newest(left) == CHOOSE m \in left : \A x \in left : x.score <= m.score
        undone[n \in 0..Cardinality(mints)] ==
            IF n = 0 THEN [alloc |-> a, left |-> mints]
            ELSE LET was == undone[n - 1]
                 IN  [alloc |-> RollbackTokenGeneration(was.alloc, newest(was.left).token),
                      left  |-> was.left \ {newest(was.left)}]
    IN  undone[Cardinality(mints)].alloc

\* get_affected_token_operations: the rows go, and their random draws with them.
RollbackMints(threshold) ==
    LET gone  == RemovedMints(threshold)
        drawn(tick) == {m \in gone : m.tick = tick /\ m.token > PremintOf(tick)}
    IN  /\ mint_history' = mint_history \ gone
        /\ alloc' = [tick \in Ticks |-> UndoMints(alloc[tick], drawn(tick))]

\* A slip: the oldest entry, as if the key held the score unreversed.
FirstChange(history, key) ==
    Min({k[3] : k \in {x \in DOMAIN history : <<x[1], x[2]>> = key}})

\* last_owner_with_tx_mod_score_wtx: the score of a token's last change of hands.
LastChange(history, key) ==
    Max({k[3] : k \in {x \in DOMAIN history : <<x[1], x[2]>> = key}})

\* reconstruct_token_ownership: the removed changes of hands go; their tokens
\* get the owner that the remaining history names, if any.
RollbackOwnership(threshold) ==
    LET gone     == {k \in ownership_changes : k.score >= threshold}
        affected == {<<k.tick, k.token>> : k \in gone}
        rows     == {<<k.tick, k.token, k.score>> : k \in gone}
        history  == DelAll(ownership_history, rows)
        owned    == {key \in affected : \E k \in DOMAIN history : <<k[1], k[2]>> = key}
        since(key) == LastChange(history, key)
        owner(key) == history[<<key[1], key[2], since(key)>>]
        holdings == DelAll(address_holdings,
                           {<<ownership_history[r], r[1], r[2]>> : r \in rows \cap DOMAIN ownership_history})
        regained == {<<owner(key), key[1], key[2]>> : key \in owned}
    IN  /\ ownership_changes' = ownership_changes \ gone
        /\ ownership_history' = history
        /\ current_ownership' =
               [key \in (DOMAIN current_ownership \ affected) \cup owned |->
                   IF key \in owned THEN [owner |-> owner(key), mod_tx_score |-> since(key)]
                                    ELSE current_ownership[key]]
        /\ address_holdings' =
               [k \in DOMAIN holdings \cup regained |->
                   IF k \in regained THEN since(<<k[2], k[3]>>) ELSE holdings[k]]

\* A slip: only the named blocks leave the reverse index.
RollbackNamedBlocks(blue, removed) ==
    /\ chain_block_scores' = {b \in chain_block_scores : b.blue < blue}
    /\ blockhash_to_score' = DelAll(blockhash_to_score, removed)

\* identify_reorg_blocks_and_delete: the named blocks and every block from the
\* lowest removed blue score on.
RollbackChain(blue, removed) ==
    LET gone == {b \in chain_block_scores : b.blue >= blue}
    IN  /\ chain_block_scores' = chain_block_scores \ gone
        /\ blockhash_to_score' = DelAll(blockhash_to_score, removed \cup {b.hash : b \in gone})

\* process_removal
Rollback(blue, removed) ==
    LET threshold == TxScore(blue, 0)
    IN  /\ RollbackChain(blue, removed)
        /\ RollbackOperations(threshold)
        /\ RollbackDeployments(threshold)
        /\ RollbackDiscounts(threshold)
        /\ RollbackListings(threshold)
        /\ RollbackMints(threshold)
        /\ RollbackOwnership(threshold)
        /\ past' = DelAll(past, {b \in DOMAIN past : b >= blue})
        /\ slot' = PerBlock

\* A notification names removed blocks, some of them perhaps unknown, and the
\* syncer may force the rollback of its last known block (the last accepted
\* one).  When no score is found nothing happens.
Reorg(removed, forced) ==
    /\ reorgs < MaxReorgs
    /\ RemovedScores(removed, forced) # {}
    /\ reorgs' = reorgs + 1
    /\ Rollback(Min(RemovedScores(removed, forced)), removed)

Next ==
    \/ \E h \in Hashes : AcceptBlock(h)
    \/ \E op \in Ops : \/ Reject(op) \/ Deploy(op) \/ Mint(op) \/ Transfer(op)
                       \/ Discount(op) \/ List(op) \/ Send(op)
    \/ \E removed \in SUBSET Hashes : \E forced \in {{}, {LastBlue} \ {0}} : Reorg(removed, forced)

Spec == Init /\ [][Next]_vars
-----------------------------------------------------------------------------
(* What the tables promise.                                                *)

TypeOK ==
    /\ \A b \in chain_block_scores : b.hash \in Hashes /\ b.blue = Blue[b.hash]
    /\ \A s \in DOMAIN operation_history : s \in Nat /\ operation_history[s].op \in Ops
    /\ \A t \in DOMAIN collection_registry :
          /\ t \in Ticks
          /\ DeployOf(t) \in Ops /\ DeployOf(t).kind = "deploy" /\ DeployOf(t).tick = t
    /\ \A m \in mint_history : m.tick \in Ticks /\ m.seq \in Nat \ {0} /\ m.token \in Nat \ {0}
    /\ DOMAIN stats = Counters /\ \A c \in Counters : stats[c] \in Nat
    /\ slot \in 0..PerBlock
    /\ DOMAIN past = {b.blue : b \in chain_block_scores}

\* chain_block_scores and blockhash_to_score name the same blocks, one for each
\* blue score, so that a score identifies the block whose operations it covers.
ChainIndexed ==
    /\ DOMAIN blockhash_to_score = {b.hash : b \in chain_block_scores}
    /\ \A b \in chain_block_scores : blockhash_to_score[b.hash] = b.blue
    /\ \A b, c \in chain_block_scores : b.blue = c.blue => b = c

\* Every recorded operation lies in an accepted block and before the next one to
\* come, and tx_id_to_opscore leads to it; so a replayed transaction is refused
\* exactly while it stands, and process_deployment never meets a registry entry
\* at or after the incoming score (Error::UnexpectedKaspaNodeBehaviour).
OperationsIndexed ==
    /\ \A s \in DOMAIN operation_history :
          /\ operation_history[s].op.tx \in DOMAIN tx_id_to_opscore
          /\ tx_id_to_opscore[operation_history[s].op.tx] = s
          /\ \E b \in chain_block_scores :
                s \in TxScore(b.blue, 0)..TxScore(b.blue, PerBlock - 1)
          /\ s < Now
    /\ \A tx \in DOMAIN tx_id_to_opscore :
          /\ tx_id_to_opscore[tx] \in DOMAIN operation_history
          /\ operation_history[tx_id_to_opscore[tx]].op.tx = tx
    /\ \A t \in DOMAIN collection_registry :
          /\ collection_registry[t].score < Now
          /\ [score |-> collection_registry[t].score, tick |-> t] \in collection_deployments

\* The owner a query returns is the one of the latest entry of ownership_history,
\* and address_holdings lists exactly the tokens each address owns, through every
\* mint, transfer, sale and reorganisation.
OwnershipConsistent ==
    /\ DOMAIN current_ownership = {<<k[1], k[2]>> : k \in DOMAIN ownership_history}
    /\ \A k \in DOMAIN ownership_history :
          LET current == current_ownership[<<k[1], k[2]>>]
          IN  /\ k[3] <= current.mod_tx_score
              /\ k[3] = current.mod_tx_score => current.owner = ownership_history[k]
    /\ \A key \in DOMAIN current_ownership :
          <<key[1], key[2], current_ownership[key].mod_tx_score>> \in DOMAIN ownership_history
    /\ DOMAIN address_holdings =
           {<<current_ownership[key].owner, key[1], key[2]>> : key \in DOMAIN current_ownership}
    /\ \A h \in DOMAIN address_holdings :
          address_holdings[h] = current_ownership[<<h[2], h[3]>>].mod_tx_score

\* A listing is the one of a successful list operation that stands, its seller
\* still owns the token, and both indexes know it.
ListingsBacked ==
    /\ listings_by_tick = DOMAIN listings
    /\ \A key \in DOMAIN listings :
          LET l == listings[key]
          IN  /\ l.op_score \in DOMAIN operation_history
              /\ LET listed == operation_history[l.op_score]
                 IN  /\ listed.error = None
                     /\ listed.op.kind = "list" /\ <<listed.op.tick, listed.op.token>> = key
                     /\ listed.op.tx = l.listing_tx_id /\ listed.op.sender = l.seller
              /\ key \in DOMAIN current_ownership /\ current_ownership[key].owner = l.seller
              /\ SellerKey(l.seller, key) \in DOMAIN address_listings
              /\ address_listings[SellerKey(l.seller, key)] = l.op_score

MintsOf(tick) == {m \in mint_history : m.tick = tick}

\* A collection's mints are numbered without gaps up to at most its maximum, no
\* token id is minted twice, ids stay within 1..max, the deployer's premint has
\* the first ones, and exactly the minted tokens have an owner.
SupplyRespected ==
    /\ {<<m.tick, m.token>> : m \in mint_history} = DOMAIN current_ownership
    /\ \A t \in Ticks :
          LET mints == MintsOf(t)
          IN  /\ mints # {} => Registered(t)
              /\ {m.seq : m \in mints} = 1..Cardinality(mints)
              /\ Cardinality({m.token : m \in mints}) = Cardinality(mints)
              /\ Registered(t) =>
                    /\ DeployOf(t).premint <= Cardinality(mints)
                    /\ Cardinality(mints) <= DeployOf(t).max
                    /\ \A m \in mints : m.token <= DeployOf(t).max
                    /\ \A m \in mints : m.seq <= DeployOf(t).premint <=> m.token <= DeployOf(t).premint

\* The free ranges of a collection are its ids above the premint that are not
\* minted; without a random mint there are none, and the next mint starts afresh.
AllocatorInStep ==
    \A t \in Ticks :
        LET drawn == {m.token : m \in {x \in MintsOf(t) : x.token > DeployOf(t).premint}}
            free  == UNION {alloc[t].ranges[i][1]..(alloc[t].ranges[i][1] + alloc[t].ranges[i][2] - 1) :
                               i \in DOMAIN alloc[t].ranges}
        IN  /\ DOMAIN alloc[t].meta = drawn
            /\ DOMAIN alloc[t].ranges = 0..(alloc[t].len - 1)
            /\ IF drawn = {} THEN alloc[t].len = 0
               ELSE free = ((DeployOf(t).premint + 1)..DeployOf(t).max) \ drawn

\* The discounts in force are those of the successful discount operations that
\* stand: process_mint never honours one that a reorganisation took back.
DiscountsStand ==
    vip = {[spk |-> operation_history[s].op.to, tick |-> operation_history[s].op.tick,
            score |-> s, fee |-> operation_history[s].op.fee] :
              s \in {x \in DOMAIN operation_history :
                        /\ operation_history[x].error = None
                        /\ operation_history[x].op.kind = "discount"}}

\* The successful operations of a kind that stand.
Standing(kind) ==
    {s \in DOMAIN operation_history :
        operation_history[s].error = None /\ operation_history[s].op.kind = kind}

\* The counters of Stats follow the operations that stand, whatever was added
\* and removed; `mints` never falls below the number of minted tokens.
StatsFollow ==
    /\ stats["deployments"] = Cardinality(Standing("deploy"))
    /\ stats["transfers"] = Cardinality(Standing("transfer"))
    /\ stats["listings"] = Cardinality(Standing("list"))
    /\ stats["sends"] = Cardinality(Standing("send"))
    /\ stats["mints"] >= Cardinality(mint_history)

\* A reorganisation leaves the tables exactly as they were before the lowest
\* block it removes was accepted: what an indexer that never saw the removed
\* blocks holds.  (The seller index, the discount rows and the counters are the
\* tables this is not said of.)
RollbackIsReplay ==
    [][reorgs' # reorgs /\ DOMAIN past' # DOMAIN past =>
          Tables' = past[Min(DOMAIN past \ DOMAIN past')]]_vars

\* A listed token changes hands only when a send spends its listing: the new
\* record is a successful send that names the listing's transaction.
ListedTokenLocked ==
    [][\A key \in DOMAIN listings :
          reorgs' = reorgs /\ key \in DOMAIN current_ownership'
              /\ current_ownership'[key] # current_ownership[key] =>
          LET recorded == operation_history'[Now]
          IN  /\ recorded.error = None /\ recorded.op.kind = "send"
              /\ recorded.op.listing_utxo_txid = listings[key].listing_tx_id
              /\ key \notin DOMAIN listings']_vars

\* "Seller's active listings" (database.rs) and "Cleans up all 3 listing
\* partitions" (remove_affected_listings): the seller index names active listings
\* only.
SellerIndexExact ==
    \A k \in DOMAIN address_listings :
        <<k[2], k[3]>> \in DOMAIN listings /\ listings[<<k[2], k[3]>>].seller = k[1]
-----------------------------------------------------------------------------
(***************************************************************************)
(* The tables implement the book of module Market: what is kept of them is  *)
(* the deployments, the owners, the listings' transactions, the latest     *)
(* discounts and what was recorded of each transaction.                    *)
(***************************************************************************)

\* The fee granted last, among the rows of vip.
LatestFee(rows, who, tick) ==
    LET granted == {v \in rows : v.spk = who /\ v.tick = tick}
    IN  (CHOOSE v \in granted : \A w \in granted : w.score <= v.score).fee

BookOf(tables) ==
    LET records  == tables.operations[1]
        scores   == tables.operations[2]
        registry == tables.deployments[1]
        owners   == tables.ownership[3]
        listed   == tables.listings[1]
    IN  [collections |-> [t \in DOMAIN registry |-> registry[t].op],
         owner |-> [key \in DOMAIN owners |-> owners[key].owner],
         offers |-> [key \in DOMAIN listed |-> listed[key].listing_tx_id],
         fees |-> [who \in {<<v.spk, v.tick>> : v \in tables.vip} |->
                      LatestFee(tables.vip, who[1], who[2])],
         outcome |-> [tx \in DOMAIN scores |->
                         [token |-> records[scores[tx]].token, error |-> records[scores[tx]].error]]]

\* The chain, each block with the book it found.
ChainOfBooks ==
    [blue \in {b.blue : b \in chain_block_scores} |->
        [hash |-> (CHOOSE b \in chain_block_scores : b.blue = blue).hash,
         before |-> BookOf(past[blue])]]

Book == INSTANCE Market WITH
            collections <- BookOf(Tables).collections, owner <- BookOf(Tables).owner,
            offers <- BookOf(Tables).offers, fees <- BookOf(Tables).fees,
            outcome <- BookOf(Tables).outcome, chain <- ChainOfBooks, open <- slot < PerBlock

\* The ledger is such a book: no operation is refused without a reason or applied
\* against one, whatever the order of the handlers' checks; each changes the book as
\* it says and nothing else; a mint gives a token nobody has; and a reorganisation,
\* which in the code edits the tables one by one, opens an earlier book again.
KeepsTheBook == Book!Spec
=============================================================================
