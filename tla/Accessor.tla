------------------------------- MODULE Accessor -------------------------------
(***************************************************************************)
(* The answers of nexus/src/accessor.rs: it runs a query of nft_view.rs    *)
(* and writes every script of the result as an address.  A script that is  *)
(* not of a standard form has no address; one such row fails the whole     *)
(* answer.  Senders, minters, recipients and beneficiaries come from keys  *)
(* or addresses; the buyer of a sale is the script of an output, whatever  *)
(* that is.                                                                *)
(***************************************************************************)
EXTENDS Views

CONSTANTS NoAddress    \* scripts extract_script_pub_key_address refuses

ASSUME AccessorAssumption ==
    \A op \in Ops :
        /\ op.sender \notin NoAddress
        /\ op.kind \in {"mint", "transfer"} => op.to \notin NoAddress
        /\ op.kind = "deploy" =>
              /\ op.deployer \notin NoAddress
              /\ op.royalty # None => op.royalty.beneficiary \notin NoAddress

Written(entry, Scripts(_)) ==
    IF entry \in {None, Failed} THEN entry
    ELSE IF Scripts(entry) \cap NoAddress = {} THEN entry ELSE Failed

WrittenAll(entries, Scripts(_)) ==
    IF entries = Failed THEN Failed ELSE Answered({Written(x, Scripts) : x \in entries})

\* Deployments: the deployer and the royalty's beneficiary.
DeployScripts(op) == {op.deployer} \cup IF op.royalty = None THEN {} ELSE {op.royalty.beneficiary}
CollectionScripts(c) == DeployScripts(c.op)
DeploymentScripts(d) == {d.op.sender} \cup DeployScripts(d.op)

\* OperationMetaWrapper::try_from
OperationScripts(entry) ==
    LET op == entry.op
    IN  {op.sender}
        \cup (IF op.kind = "deploy" /\ op.royalty # None THEN {op.royalty.beneficiary} ELSE {})
        \cup (IF op.kind \in {"transfer", "mint"} THEN {op.to} ELSE {})
        \cup (IF op.kind = "send" /\ op.buyer # None THEN {op.buyer} ELSE {})

OwnerScripts(entry) == {entry.owner}
SellerScripts(entry) == {entry.listing.seller}

CollectionsAnswer == WrittenAll(CollectionList, CollectionScripts)
CollectionAnswer(tick) == Written(CollectionLookup(tick), CollectionScripts)
DeploymentsAnswer == WrittenAll(DeploymentList, DeploymentScripts)
TokensAnswer(tick) == WrittenAll(TokenList(tick), OwnerScripts)
TokenAnswer(tick, token) == Written(TokenLookup(tick, token), OwnerScripts)
HistoryAnswer(tick, token) == WrittenAll(TokenHistory(tick, token), OwnerScripts)
ListingsAnswer(tick) == WrittenAll(ActiveListings(tick), SellerScripts)
SellerAnswer(spk) == WrittenAll(AddressListings(spk), SellerScripts)

\* krc721_op_list and krc721_op_by_txid
OperationList == {[score |-> s, op |-> operation_history[s].op] : s \in DOMAIN operation_history}
OperationsAnswer == WrittenAll(OperationList, OperationScripts)
OperationAnswer(tx) == Written(OpByTxid(tx), OperationScripts)

\* Holdings show no script: the address is the question.
HoldingsAnswer(spk) == AddressNftList(spk)
-----------------------------------------------------------------------------
\* The score of the last change of a token's owner that the history of operations
\* holds, as a set with at most one member.
LastOwnerChange(tick, token) ==
    LET changes == {s \in DOMAIN operation_history :
                       LET done == operation_history[s]
                       IN  /\ done.error = None /\ done.op.tick = tick
                           /\ \/ done.op.kind = "mint" /\ done.token = token
                              \/ done.op.kind = "transfer" /\ done.op.token = token
                              \/ done.op.kind = "send" /\ done.op.token = token /\ done.op.buyer # None}
    IN  {s \in changes : \A c \in changes : c <= s}

SoldToUnwritable(scores) ==
    \E s \in scores : operation_history[s].op.kind = "send" /\ operation_history[s].op.buyer \in NoAddress

\* No query panics or meets an inconsistent index (the expect and the unwraps of
\* nft_view.rs), and no answer fails but one that shows the buyer of a sale
\* whose script has no address: no operation, and no sale that a reorganisation
\* took back or a later transfer superseded, hides a list of tokens.  The listings
\* by seller are left out, their index is known to be inexact.
QueriesAnswer ==
    /\ CollectionsAnswer # Failed /\ DeploymentsAnswer # Failed
    /\ OperationsAnswer = Failed => SoldToUnwritable(DOMAIN operation_history)
    /\ \A tick \in Ticks :
          /\ ListingsAnswer(tick) # Failed
          /\ TokensAnswer(tick) = Failed =>
                \E token \in {k[2] : k \in DOMAIN current_ownership} :
                    SoldToUnwritable(LastOwnerChange(tick, token))
    /\ \A k \in DOMAIN ownership_history :
          /\ TokenHistory(k[1], k[2]) # Failed
          /\ HistoryAnswer(k[1], k[2]) = Failed => SoldToUnwritable(DOMAIN operation_history)
    /\ \A spk \in Addresses : HoldingsAnswer(spk) # Failed
=============================================================================
