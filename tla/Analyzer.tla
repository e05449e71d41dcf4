------------------------------- MODULE Analyzer -------------------------------
(***************************************************************************)
(* nexus/src/analyzer.rs: what a transaction accepted by the chain says.   *)
(* detect_krc721 answers None for a transaction that carries no inscription *)
(* of this protocol, the error that rejects it, or the operation the       *)
(* processor is to apply (a record as in Ledger); on a signature opcode    *)
(* behind a key of another length it panics.                               *)
(*                                                                         *)
(* A transaction is a record: its script, the text of its inscription, its *)
(* inputs and outputs.  Opcodes are symbols, a push stands for what it     *)
(* pushes; a field of the text that is absent is None.                     *)
(***************************************************************************)
EXTENDS Integers, Sequences

CONSTANTS None,
          KSPR_FEE_DEPLOY, KSPR_FEE_MINT,    \* fees, in a unit of the model
          MIN_ROYALTY_FEE, MAX_ROYALTY_FEE,
          Word,               \* integers are taken modulo this: 2^64
          OtherAddresses,     \* address texts that do not parse, or of another network
          TickOf,             \* text -> tick: Tick::from_str, which is not case sensitive
          RestrictedTicks,    \* reserved ticks: tick -> the script that may deploy it
          HiddenMetadata,     \* metadata with none of the accepted URI prefixes
          DaaEcdsaFix         \* daa_ecdsa_fix

\* The errors of detect_krc721.
Errors ==
    {"TxScript", "InsufficientOpcodeLen", "EmptyOpcodeData", "MissingKrc721Header",
     "InvalidRedeemEnvelopeFormat", "UnsupportedEnvelopeLength", "SerdeWithPath",
     "NFTInscriptionModelFieldValueParsingError", "UnknownSenderType", "InvalidAddress",
     "OpDiscountMissingValue", "OpTransferMissingValue", "OpDeployMissingValue",
     "OpListMissingValue", "OpSendMissingValue", "InsufficientMintFee", "InsufficientDeployFee",
     "RestrictedTickDeploy", "RestrictedMetadataProtocol", "MaxSupplyOverflow",
     "PremintGreaterThanMax", "UnderflowRoyaltyFee", "OverflowRoyaltyFee"}

ASSUME AnalyzerAssumption ==
    /\ Word \in Nat /\ Word > KSPR_FEE_DEPLOY + KSPR_FEE_MINT
    /\ KSPR_FEE_DEPLOY \in Nat /\ KSPR_FEE_MINT \in Nat \ {0} /\ DaaEcdsaFix \in Nat
    /\ MIN_ROYALTY_FEE \in Nat /\ MAX_ROYALTY_FEE \in Nat
    /\ None \notin Nat /\ None \notin Errors

\* A transaction as far as types go: amounts are words, and a text that parsed names
\* one of the operations.
WordOrNone(x) == x = None \/ x \in 0..(Word - 1)
TransactionOK(tx) ==
    /\ tx.fee \in 0..(Word - 1)
    /\ tx.text # None =>
          /\ tx.text.op \in {"discount", "transfer", "mint", "deploy", "list", "send"}
          /\ WordOrNone(tx.text.max) /\ WordOrNone(tx.text.premint) /\ WordOrNone(tx.text.royalty_fee)

Nothing == [kind |-> "none"]
Rejected(error) == [kind |-> "error", error |-> error]
Found(op) == [kind |-> "operation", op |-> op]
Panics == [kind |-> "panic"]

\* The error of the first check that fails, or None.
FirstFailure(checks) ==
    IF \A i \in DOMAIN checks : checks[i][1] THEN None
    ELSE LET first == CHOOSE i \in DOMAIN checks : ~ checks[i][1] /\ \A j \in 1..(i - 1) : checks[j][1]
         IN  checks[first][2]

Verdict(failure, op) == IF failure = None THEN Found(op) ELSE Rejected(failure)
-----------------------------------------------------------------------------
(* The script.                                                             *)

Pushes(symbol) == symbol \in {"key32", "key33", "kspr", "text", "extra"}

\* validate_common_opcodes, validate_optional_content, validate_mandatory_content
CommonOpcodes(redeem) == redeem[3] = "false" /\ redeem[4] = "if" /\ redeem[5] = "kspr"
OptionalContent(part) == part[1] = "true" /\ Pushes(part[2])
MandatoryContent(part) == part[1] = "false" /\ Pushes(part[2]) /\ part[3] = "endif"

EnvelopeError(redeem) ==
    IF Len(redeem) = 8
    THEN IF CommonOpcodes(redeem) /\ MandatoryContent(SubSeq(redeem, 6, 8)) THEN None
         ELSE "InvalidRedeemEnvelopeFormat"
    ELSE IF Len(redeem) = 10
    THEN IF /\ CommonOpcodes(redeem) /\ OptionalContent(SubSeq(redeem, 6, 7))
            /\ MandatoryContent(SubSeq(redeem, 8, 10))
         THEN None ELSE "InvalidRedeemEnvelopeFormat"
    ELSE "UnsupportedEnvelopeLength"

\* The second opcode of the signature script is the push of the redeem script.
ScriptError(script) ==
    LET second == script.second
    IN  FirstFailure(<<
            <<second # "broken", "TxScript">>,
            <<second # "missing", "InsufficientOpcodeLen">>,
            <<second # "empty", "EmptyOpcodeData">>,
            <<second = "push", "MissingKrc721Header">>,
            <<script.krc721, "MissingKrc721Header">>,
            <<script.redeem # None, "TxScript">> >>)

\* sender_pubkey_bytes: the redeem script starts with the sender's public key.
SenderPubkey(tx) == IF tx.script.redeem[1] \in {"key32", "key33"} THEN tx.key ELSE None

\* The sender by the signature opcode; ECDSA senders were refused before a score.
SenderError(tx, daa) ==
    LET check == tx.script.redeem[2]
    IN  IF check = "checksig" THEN None
        ELSE IF check # "checksig_ecdsa" THEN "UnknownSenderType"
        ELSE IF daa < DaaEcdsaFix THEN "InvalidAddress" ELSE None

\* pay_to_pub_key and pay_to_pub_key_ecdsa assert that the first opcode of the redeem
\* script, which the envelope's checks leave alone, pushes 32 or 33 bytes: key32 and
\* key33 do, every other symbol pushes something else or nothing.
SenderPanics(tx) ==
    tx.script.redeem[1] # IF tx.script.redeem[2] = "checksig" THEN "key32" ELSE "key33"
-----------------------------------------------------------------------------
(* The operations.  text is the inscription's, sender the script that      *)
(* revealed it; the fields follow the order in which the code looks.       *)

Common(tx, kind) == [tx |-> tx.id, kind |-> kind, tick |-> TickOf[tx.text.tick], sender |-> tx.sender,
                     security_fee |-> tx.fee]
Extend(common, fields) ==
    [f \in DOMAIN common \cup DOMAIN fields |-> IF f \in DOMAIN fields THEN fields[f] ELSE common[f]]
Or(field, default) == IF field = None THEN default ELSE field
Output(tx, i) == IF i <= Len(tx.outputs) THEN tx.outputs[i] ELSE None

\* compute_listing_p2sh, taken as one to one.
P2sh(key, tick, token) == <<"p2sh", key, tick, token>>

Discount(tx) ==
    Verdict(FirstFailure(<< <<tx.text.discount_fee # None, "OpDiscountMissingValue">>,
                            <<tx.text.to # None, "OpDiscountMissingValue">> >>),
            Extend(Common(tx, "discount"), [to |-> tx.text.to, fee |-> tx.text.discount_fee]))

Transfer(tx) ==
    Verdict(FirstFailure(<< <<tx.text.token_id # None, "OpTransferMissingValue">>,
                            <<tx.text.to # None, "OpTransferMissingValue">> >>),
            Extend(Common(tx, "transfer"), [token |-> tx.text.token_id, to |-> tx.text.to]))

\* The first output may be the royalty: whether it is one is known to the processor.
Mint(tx) ==
    LET out == Output(tx, 1)
    IN  Verdict(FirstFailure(<< <<tx.fee >= KSPR_FEE_MINT, "InsufficientMintFee">> >>),
                Extend(Common(tx, "mint"),
                       [to |-> Or(tx.text.to, tx.sender),
                        royalty |-> IF out = None THEN None
                                    ELSE [fee |-> out.amount, beneficiary |-> out.spk]]))

\* total_deploy_fee, which wraps around.
DeployFee(premint) == (KSPR_FEE_DEPLOY + premint * KSPR_FEE_MINT) % Word

Deploy(tx) ==
    LET text    == tx.text
        tick    == TickOf[text.tick]
        premint == Or(text.premint, 0)
        royalty == text.royalty_fee
    IN  Verdict(FirstFailure(<<
                    <<tick \in DOMAIN RestrictedTicks => RestrictedTicks[tick] = tx.sender,
                      "RestrictedTickDeploy">>,
                    <<text.metadata # None, "OpDeployMissingValue">>,
                    <<text.metadata \notin HiddenMetadata, "RestrictedMetadataProtocol">>,
                    <<text.max # None, "OpDeployMissingValue">>,
                    <<text.max # Word - 1, "MaxSupplyOverflow">>,
                    <<text.max # None => premint <= text.max, "PremintGreaterThanMax">>,
                    <<tx.fee >= DeployFee(premint), "InsufficientDeployFee">>,
                    <<royalty # None => royalty >= MIN_ROYALTY_FEE, "UnderflowRoyaltyFee">>,
                    <<royalty # None => royalty <= MAX_ROYALTY_FEE, "OverflowRoyaltyFee">> >>),
                Extend(Common(tx, "deploy"),
                       [deployer |-> Or(text.to, tx.sender), max |-> text.max, premint |-> premint,
                        royalty |-> IF royalty = None THEN None
                                    ELSE [fee |-> royalty, beneficiary |-> Or(text.royalty_to, tx.sender)],
                        mint_start_daa |-> Or(text.daa_mint_start, 0)]))

List(tx) ==
    LET out == Output(tx, 1)
    IN  Verdict(FirstFailure(<< <<tx.text.token_id # None, "OpListMissingValue">>,
                                <<SenderPubkey(tx) # None, "OpListMissingValue">>,
                                <<out # None, "OpListMissingValue">> >>),
                Extend(Common(tx, "list"),
                       [token |-> tx.text.token_id,
                        p2sh_matches |-> /\ out # None
                                         /\ out.spk = P2sh(SenderPubkey(tx), TickOf[tx.text.tick], tx.text.token_id)]))

\* A send without a second output takes the listing back.
Send(tx) ==
    LET buyer == Output(tx, 2)
    IN  Verdict(FirstFailure(<< <<tx.text.token_id # None, "OpSendMissingValue">>,
                                <<Output(tx, 1) # None, "OpSendMissingValue">>,
                                <<tx.input # None, "OpSendMissingValue">> >>),
                Extend(Common(tx, "send"),
                       [token |-> tx.text.token_id, listing_utxo_txid |-> tx.input,
                        buyer |-> IF buyer = None THEN None ELSE buyer.spk]))
-----------------------------------------------------------------------------
\* The text, which does not parse with a bad tick; addresses before the sender.
TextError(tx, daa) ==
    LET text == tx.text
    IN  IF text = None THEN "SerdeWithPath"
        ELSE IF text.tick \notin DOMAIN TickOf THEN "SerdeWithPath"
        ELSE FirstFailure(<<
                <<text.to \notin OtherAddresses, "NFTInscriptionModelFieldValueParsingError">>,
                <<text.royalty_to \notin OtherAddresses, "NFTInscriptionModelFieldValueParsingError">>,
                <<SenderError(tx, daa) = None, SenderError(tx, daa)>> >>)

\* The handler of the operation the text names; serde refuses any other name.
Handled(tx) ==
    LET op == tx.text.op
    IN  CASE op = "discount" -> Discount(tx)
          [] op = "transfer" -> Transfer(tx)
          [] op = "mint"     -> Mint(tx)
          [] op = "deploy"   -> Deploy(tx)
          [] op = "list"     -> List(tx)
          [] op = "send"     -> Send(tx)

\* detect_krc721, in a chain block of DAA score daa.
Detect(tx, daa) ==
    IF tx.script = None THEN Nothing
    ELSE IF ~ tx.script.kspr THEN Nothing
    ELSE IF ScriptError(tx.script) # None THEN Rejected(ScriptError(tx.script))
    ELSE IF EnvelopeError(tx.script.redeem) # None THEN Rejected(EnvelopeError(tx.script.redeem))
    ELSE IF TextError(tx, daa) # None THEN Rejected(TextError(tx, daa))
    ELSE IF SenderPanics(tx) THEN Panics
    ELSE Handled(tx)
=============================================================================
