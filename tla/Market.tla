-------------------------------- MODULE Market --------------------------------
(***************************************************************************)
(* What the indexer promises its clients, without scores, histories,       *)
(* indexes and ranges: a book of the collections, who owns each token,     *)
(* which tokens are offered for sale, what a mint costs, and what became   *)
(* of every transaction.  An operation is refused for a reason that holds  *)
(* of the book, and takes effect when there is none; a reorganisation      *)
(* opens the book again where it was before some chain block.              *)
(***************************************************************************)
EXTENDS Naturals, FiniteSets, KV

CONSTANTS Hashes, Blue, Daa,   \* chain blocks, their blue and DAA scores
          Ops,                 \* the transactions carrying an operation
          None                 \* no royalty, no buyer, no reason

VARIABLES
    collections,   \* tick -> its deployment
    owner,         \* <<tick, token>> -> its owner
    offers,        \* <<tick, token>> -> the transaction that lists it
    fees,          \* <<who, tick>> -> the fee granted
    outcome,       \* transaction -> [token, error]
    chain,         \* blue score -> [hash, before]: the block and the book it found
    open           \* operations of the last block may still come

book == [collections |-> collections, owner |-> owner, offers |-> offers, fees |-> fees,
         outcome |-> outcome]
bookVars == <<collections, owner, offers, fees, outcome>>

Init ==
    /\ collections = NoEntries /\ owner = NoEntries /\ offers = NoEntries /\ fees = NoEntries
    /\ outcome = NoEntries /\ chain = NoEntries /\ open = FALSE

Sold(tick) == {key[2] : key \in {k \in DOMAIN owner : k[1] = tick}}

\* The ids a mint may draw: those above the premint that nobody has.
Free(tick) ==
    ((collections[tick].premint + 1)..collections[tick].max) \ Sold(tick)

\* What a mint to someone costs: the fee granted last, or the collection's.
FeeOf(who, tick) ==
    IF <<who, tick>> \in DOMAIN fees THEN fees[<<who, tick>>]
    ELSE collections[tick].royalty.fee

\* The DAA score of the last block.
Clock == Daa[chain[CHOOSE b \in DOMAIN chain : \A c \in DOMAIN chain : c <= b].hash]
-----------------------------------------------------------------------------
(* Every reason to refuse an operation.                                    *)

When(condition, reason) == IF condition THEN {reason} ELSE {}

DeployReasons(op) == When(op.tick \in DOMAIN collections, "TickExists")

RoyaltyReasons(op) ==
    LET royalty == collections[op.tick].royalty
    IN  IF royalty = None THEN {}
        ELSE IF op.royalty = None THEN {"MissingRoyaltyMintFee"}
        ELSE When(op.royalty.fee < FeeOf(op.to, op.tick), "InsufficientRoyaltyFee")
             \cup When(op.royalty.beneficiary # royalty.beneficiary,
                       "InvalidBeneficiaryForRoyaltyMintFee")

MintReasons(op) ==
    IF op.tick \notin DOMAIN collections THEN {"TickNotFound"}
    ELSE When(Clock < collections[op.tick].mint_start_daa, "MintingNotStarted")
         \cup When(Free(op.tick) = {}, "MintingFinished")
         \cup RoyaltyReasons(op)

OwnerReasons(op) ==
    IF <<op.tick, op.token>> \notin DOMAIN owner THEN {"TokenNotFound"}
    ELSE When(owner[<<op.tick, op.token>>] # op.sender, "WrongOwner")

Offered(op) == <<op.tick, op.token>> \in DOMAIN offers

TransferReasons(op) == OwnerReasons(op) \cup When(Offered(op), "TokenIsListed")

ListReasons(op) ==
    When(~ op.p2sh_matches, "InvalidListingP2sh")
    \cup When(op.tick \notin DOMAIN collections, "TickNotFound")
    \cup OwnerReasons(op) \cup When(Offered(op), "TokenAlreadyListed")

SendReasons(op) ==
    IF ~ Offered(op) THEN {"ListingNotFound"}
    ELSE When(offers[<<op.tick, op.token>>] # op.listing_utxo_txid, "WrongListingUtxo")

\* A discount is granted by the deployer and asks for less than the royalty.
DiscountReasons(op) ==
    IF op.tick \notin DOMAIN collections THEN {"TickNotFound"}
    ELSE LET deploy == collections[op.tick]
         IN  When(op.sender # deploy.deployer, "WrongDeployer")
             \cup When(deploy.royalty = None \/ op.fee >= deploy.royalty.fee, "DiscountFeeOverflow")

Reasons(op) ==
    CASE op.kind = "deploy"   -> DeployReasons(op)
      [] op.kind = "mint"     -> MintReasons(op)
      [] op.kind = "transfer" -> TransferReasons(op)
      [] op.kind = "discount" -> DiscountReasons(op)
      [] op.kind = "list"     -> ListReasons(op)
      [] op.kind = "send"     -> SendReasons(op)
-----------------------------------------------------------------------------
(* What happens to the book.                                               *)

Accept(h) ==
    /\ \A b \in DOMAIN chain : b < Blue[h]
    /\ chain' = Put(chain, Blue[h], [hash |-> h, before |-> book])
    /\ open' = TRUE
    /\ UNCHANGED bookVars

Arrives(op, kind) == op.kind = kind /\ open /\ op.tx \notin DOMAIN outcome

\* The outcome of a transaction is written once, until a reorganisation.  With an
\* operation a block may be full.
Told(op, token, error) ==
    /\ outcome' = Put(outcome, op.tx, [token |-> token, error |-> error])
    /\ open' \in BOOLEAN
    /\ chain' = chain

Refuse(op) ==
    /\ Arrives(op, op.kind)
    /\ \E reason \in Reasons(op) : Told(op, None, reason)
    /\ UNCHANGED <<collections, owner, offers, fees>>

Applies(op, kind) == Arrives(op, kind) /\ Reasons(op) = {}

Deploy(op) ==
    /\ Applies(op, "deploy")
    /\ Told(op, None, None)
    /\ collections' = Put(collections, op.tick, op)
    /\ owner' = PutAll(owner, {<<op.tick, id>> : id \in 1..op.premint}, op.deployer)
    /\ UNCHANGED <<offers, fees>>

Mint(op) ==
    /\ Applies(op, "mint")
    /\ \E id \in Free(op.tick) :
          Told(op, id, None) /\ owner' = Put(owner, <<op.tick, id>>, op.to)
    /\ UNCHANGED <<collections, offers, fees>>

Transfer(op) ==
    /\ Applies(op, "transfer")
    /\ Told(op, None, None)
    /\ owner' = Put(owner, <<op.tick, op.token>>, op.to)
    /\ UNCHANGED <<collections, offers, fees>>

Discount(op) ==
    /\ Applies(op, "discount")
    /\ Told(op, None, None)
    /\ fees' = Put(fees, <<op.to, op.tick>>, op.fee)
    /\ UNCHANGED <<collections, owner, offers>>

List(op) ==
    /\ Applies(op, "list")
    /\ Told(op, None, None)
    /\ offers' = Put(offers, <<op.tick, op.token>>, op.tx)
    /\ UNCHANGED <<collections, owner, fees>>

\* A sale, or without a buyer the end of the offer.
Send(op) ==
    /\ Applies(op, "send")
    /\ Told(op, None, None)
    /\ offers' = Del(offers, <<op.tick, op.token>>)
    /\ owner' = IF op.buyer = None THEN owner ELSE Put(owner, <<op.tick, op.token>>, op.buyer)
    /\ UNCHANGED <<collections, fees>>

\* Some block and all after it leave the chain, and the book is what it found.
Reorganise(blue) ==
    LET found == chain[blue].before
    IN  /\ collections' = found.collections /\ owner' = found.owner /\ offers' = found.offers
        /\ fees' = found.fees /\ outcome' = found.outcome
        /\ chain' = [b \in {c \in DOMAIN chain : c < blue} |-> chain[b]]
        /\ open' = FALSE

Next ==
    \/ \E h \in Hashes : Accept(h)
    \/ \E op \in Ops : \/ Refuse(op) \/ Deploy(op) \/ Mint(op) \/ Transfer(op)
                       \/ Discount(op) \/ List(op) \/ Send(op)
    \/ \E blue \in DOMAIN chain : Reorganise(blue)

Spec == Init /\ [][Next]_<<bookVars, chain, open>>
=============================================================================
