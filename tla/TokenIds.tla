------------------------------- MODULE TokenIds -------------------------------
(***************************************************************************)
(* The life of one collection's token ids: mints draw ids at random from   *)
(* the ranges still free, and a reorganisation takes the latest mints back *)
(* one by one (Processor::get_affected_token_operations walks the removed  *)
(* mints from the newest to the oldest).                                   *)
(***************************************************************************)
EXTENDS TokenRanges

CONSTANTS MaxSupply,  \* DeployInfo::max
          Premint,    \* DeployInfo::premint, minted with ids 1..Premint by the deployment
          Entropies   \* the mergeset entropies the blocks may carry

ASSUME SupplyAssumption ==
    /\ MaxSupply \in Nat
    /\ Premint \in 0..MaxSupply
    /\ Entropies \subseteq Nat

VARIABLES alloc,   \* the allocator: range_lengths, available_ranges, token_id_meta
          minted,  \* mint_history above the premint: token ids in minting order
          trail    \* history variable: the allocator before each mint of `minted`

vars == <<alloc, minted, trail>>

\* A sequence without its last element.
Front(s) == [i \in 1..(Len(s) - 1) |-> s[i]]

Init ==
    /\ alloc = NoRanges
    /\ minted = <<>>
    /\ trail = <<>>

\* process_mint refuses a sequence number above the supply, then draws an id.
Mint(entropy) ==
    /\ Premint + Len(minted) + 1 <= MaxSupply
    /\ LET g == GenerateTokenId(alloc, entropy, MaxSupply, Premint)
       IN  /\ alloc' = g.alloc
           /\ minted' = Append(minted, g.token)
    /\ trail' = Append(trail, alloc)

\* A removed block held the latest mint: its mint_history entry goes and the
\* allocator is rolled back.
Rollback ==
    /\ minted # <<>>
    /\ alloc' = RollbackTokenGeneration(alloc, minted[Len(minted)])
    /\ minted' = Front(minted)
    /\ trail' = Front(trail)

Next == (\E e \in Entropies : Mint(e)) \/ Rollback

Spec == Init /\ [][Next]_vars
-----------------------------------------------------------------------------
(* What the allocator promises.                                            *)

TypeOK ==
    /\ DOMAIN alloc = {"len", "ranges", "meta"}
    /\ RangesOK(alloc, Premint, MaxSupply)
    /\ MetaOK(alloc, minted)
    /\ minted \in Seq(Drawable(Premint, MaxSupply))
    /\ Len(trail) = Len(minted)

\* No two ranges of available_ranges share an id, so an id can be drawn from
\* one place only.
RangesDisjoint == DisjointRanges(alloc)

\* The random ids of generate_token_id are a permutation in the making: once
\* minting has begun, every drawable id is either minted or in a range, never
\* both, whatever mints and rollbacks have happened.
FreeOrMinted == minted # <<>> => Partitioned(alloc, minted, Premint, MaxSupply)

\* No token id is handed out twice among the mints that stand.
NoDoubleMint ==
    \A i, j \in 1..Len(minted) : i # j => minted[i] # minted[j]

(***************************************************************************)
(* The allocator is a pool of ids (module IdPool): whatever the ranges are *)
(* cut into, a mint takes one id out of those in the ranges and no other   *)
(* id goes with it, and a rollback puts that id back.  An allocator that   *)
(* nobody draws from stores no range, it stands for the whole interval.    *)
(***************************************************************************)
InRanges ==
    {t \in Drawable(Premint, MaxSupply) : \E i \in DOMAIN alloc.ranges : t \in Span(alloc, i)}

Pool == INSTANCE IdPool WITH
            Tokens <- Drawable(Premint, MaxSupply),
            free <- IF minted = <<>> THEN Drawable(Premint, MaxSupply) ELSE InRanges,
            drawn <- minted

DrawsFromPool == Pool!Spec

\* process_mint lets a mint through while the supply is not exhausted; the
\* allocator then has a range to draw from ("Range must exist"), and restarts
\* from the whole interval only when nothing above the premint is minted.
RangeMustExist ==
    Premint + Len(minted) + 1 <= MaxSupply => (alloc.len = 0 <=> minted = <<>>)

\* Rolling back the latest mint leaves the allocator exactly as it was before
\* that mint, ranges, order of ranges and metadata included: blocks replayed
\* after a reorganisation draw the ids a fresh indexer draws.
RollbackRestores ==
    [][Len(minted') < Len(minted) => alloc' = trail[Len(trail)]]_vars
=============================================================================
