------------------------------- MODULE MCLedger -------------------------------
(***************************************************************************)
(* Small instances of the ledger: a market around one premint token, and a *)
(* collection whose random mints pay royalties.                            *)
(***************************************************************************)
EXTENDS Keys, TLC

CONSTANTS alice, bob,        \* addresses
          odd,               \* a script that is nobody's address
          t1,                \* a tick
          t0, t2,            \* ticks of other collections
          a1, a2, b2         \* a block and two that compete to follow it

MCBlue == [h \in Hashes |-> IF h = a1 THEN 1 ELSE 2]
MCDaa == MCBlue

\* Ticks on both sides of t1; scripts of two lengths.
MCTickBytes == [t \in {t0, t1, t2} |-> CASE t = t0 -> <<0, 3>> [] t = t1 -> <<1, 0>> [] t = t2 -> <<1, 1>>]
MCSpkBytes == [s \in {alice, bob, odd} |->
                  CASE s = alice -> <<0, 1>> [] s = bob -> <<1, 0, 1>> [] s = odd -> <<2>>]
MCHashBytes == [h \in Hashes |-> <<IF h = a2 THEN 0 ELSE 1>>]
MCEntropy == [h \in Hashes |-> CASE h = a1 -> 0 [] h = a2 -> 1 [] h = b2 -> 2]

OpOf(tx, kind, tick, sender) == [tx |-> tx, kind |-> kind, tick |-> tick, sender |-> sender,
                                 security_fee |-> 1]

DeployOp(tx, tick, sender, max, premint, royalty, start) ==
    OpOf(tx, "deploy", tick, sender) @@
    [deployer |-> sender, max |-> max, premint |-> premint, royalty |-> royalty,
     mint_start_daa |-> start]
MintOp(tx, tick, to, royalty) == OpOf(tx, "mint", tick, to) @@ [to |-> to, royalty |-> royalty]
TransferOp(tx, tick, token, sender, to) ==
    OpOf(tx, "transfer", tick, sender) @@ [token |-> token, to |-> to]
ListOp(tx, tick, token, sender, matches) ==
    OpOf(tx, "list", tick, sender) @@ [token |-> token, p2sh_matches |-> matches]
SendOp(tx, tick, token, sender, listing, buyer) ==
    OpOf(tx, "send", tick, sender) @@
    [token |-> token, listing_utxo_txid |-> listing, buyer |-> buyer]
DiscountOp(tx, tick, sender, to, fee) ==
    OpOf(tx, "discount", tick, sender) @@ [to |-> to, fee |-> fee]

\* Listing, sale, cancellation, relisting and transfer of the one premint token.
MarketHashes == {a1, a2}
MarketOps ==
    {DeployOp("d", t1, alice, 2, 1, None, 0),
     ListOp("l1", t1, 1, alice, TRUE), SendOp("s1", t1, 1, alice, "l1", bob),
     ListOp("l2", t1, 1, bob, TRUE), SendOp("s2", t1, 1, bob, "l2", None), SendOp("s3", t1, 1, alice, "l1", odd),
     TransferOp("x1", t1, 1, alice, bob), TransferOp("x2", t1, 1, bob, alice)}

\* Two deployments racing for a tick with a royalty, a discount, random mints and the
\* sale of a premint token.
MintHashes == {a1, a2, b2}
Royalty(fee, to) == [fee |-> fee, beneficiary |-> to]
MintOps ==
    {DeployOp("d1", t1, alice, 3, 1, Royalty(2, alice), 0),
     DeployOp("d2", t1, bob, 1, 0, None, 2), DiscountOp("c", t1, alice, bob, 1),
     MintOp("m1", t1, bob, Royalty(1, alice)), MintOp("m2", t1, alice, Royalty(2, alice)),
     ListOp("l", t1, 1, alice, TRUE), SendOp("s", t1, 1, alice, "l", bob)}

\* A bound on the states of MCLedgerMint: at most two operations on record were refused.
FewRefused == Cardinality({s \in DOMAIN operation_history : operation_history[s].error # None}) <= 2
=============================================================================
