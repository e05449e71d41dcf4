------------------------------- MODULE MCIntake -------------------------------
(***************************************************************************)
(* A chain with forks: a2 and b2 both follow a1, at different DAA scores,  *)
(* and accept one ECDSA transaction, which a2 refuses.  Two of a1's merged *)
(* blocks have the same blue work, one is named by a transaction only, and *)
(* the selected parent of a2 is full.  In b2 a mint does not convert.  On  *)
(* c2 the analyzer panics, between two transactions that it rejects.       *)
(***************************************************************************)
EXTENDS Intake

Envelope(check) == <<"key32", check, "false", "if", "kspr", "false", "text", "endif">>
Extras == <<"key32", "checksig", "false", "if", "kspr", "true", "extra", "false", "text", "endif">>
Script(redeem) == [kspr |-> TRUE, krc721 |-> TRUE, second |-> "push", redeem |-> redeem]

Blank == [op |-> "mint", tick |-> "nacho", to |-> None, royalty_to |-> None, metadata |-> None,
          max |-> None, premint |-> None, token_id |-> None, discount_fee |-> None,
          royalty_fee |-> None, daa_mint_start |-> None]
Tx(id, text, fee) == [id |-> id, script |-> Script(Envelope("checksig")), text |-> text, key |-> "k",
                      sender |-> "alice", fee |-> fee, input |-> "in", converts |-> TRUE,
                      outputs |-> <<[spk |-> "alice", amount |-> 1]>>]

\* A deployment with premint and one that pays for the deployment only, a mint, one
\* by an ECDSA key, and the operations of a market.
DeployText == [Blank EXCEPT !.op = "deploy", !.metadata = "meta", !.max = 4, !.premint = 2,
                            !.royalty_fee = 3]
deploy == [Tx("deploy", DeployText, 4) EXCEPT !.script = Script(Extras)]
cheap == Tx("cheap", [DeployText EXCEPT !.tick = "NACHO"], 3)
mint == Tx("mint", Blank, 1)
ecdsa == [Tx("ecdsa", Blank, 1) EXCEPT !.script = Script([Envelope("checksig_ecdsa") EXCEPT ![1] = "key33"])]
unread == [Tx("unread", Blank, 1) EXCEPT !.converts = FALSE]
keyless == [Tx("keyless", Blank, 1) EXCEPT !.script = Script([Envelope("checksig") EXCEPT ![1] = "key33"])]
textless == Tx("textless", None, 0)
plain == [Tx("plain", None, 0) EXCEPT !.script = [@ EXCEPT !.kspr = FALSE]]
OfToken(op) == [Blank EXCEPT !.op = op, !.token_id = 1, !.to = "bob", !.discount_fee = 1]
transfer == Tx("transfer", OfToken("transfer"), 0)
discount == Tx("discount", OfToken("discount"), 0)
list == [Tx("list", OfToken("list"), 0) EXCEPT !.outputs = <<[spk |-> P2sh("k", "NACHO", 1), amount |-> 1]>>]
send == [Tx("send", OfToken("send"), 0) EXCEPT !.input = "list",
            !.outputs = <<[spk |-> "alice", amount |-> 5], [spk |-> "bob", amount |-> 1]>>]

\* Hashes: 0 is the origin, 1 to 4 are merged blocks, then a1, a2, b2, c2.
a1 == 10
a2 == 11
b2 == 12
c2 == 13
At(tx, block) == [tx |-> tx, block |-> block]
Market(block) == <<At(transfer, block), At(discount, block), At(list, block), At(send, block)>>
MCBlocks ==
    [b \in {a1, a2, b2, c2} |->
        CASE b = a1 -> [selected_parent |-> 0, blues |-> {0, 2}, reds |-> {3}, blue |-> 1, daa |-> 1,
                        accepted |-> <<At(deploy, 2), At(plain, 2), At(mint, 3), At(cheap, 4)>>]
          [] b = a2 -> [selected_parent |-> a1, blues |-> {a1, 1}, reds |-> {}, blue |-> 2, daa |-> 1,
                        accepted |-> Market(a1) \o <<At(ecdsa, 1)>>]
          [] b = b2 -> [selected_parent |-> a1, blues |-> {a1, 1}, reds |-> {}, blue |-> 2, daa |-> 2,
                        accepted |-> <<At(unread, 1), At(ecdsa, 1)>>]
          [] b = c2 -> [selected_parent |-> a1, blues |-> {a1, 1}, reds |-> {}, blue |-> 2, daa |-> 1,
                        accepted |-> <<At(keyless, 1), At(textless, 1), At(ecdsa, a1)>>]]
MCChains == {<<a1, a2>>, <<a1, b2>>, <<a1, c2>>}
MCWork == [h \in {0, 1, 2, 3, 4, a1, a2, b2, c2} |-> CASE h \in {2, 3} -> 1 [] h \in {1, 4} -> 2 [] OTHER -> 3]
MCTickOf == [t \in {"nacho", "NACHO"} |-> "NACHO"]
MCRestricted == [t \in {"KASPA"} |-> "bob"]
MCOlds == {None, <<[tx |-> "cheap", reason |-> "InsufficientDeployFee"], [tx |-> "old", reason |-> "Tick"]>>}
=============================================================================
