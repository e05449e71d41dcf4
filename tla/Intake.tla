-------------------------------- MODULE Intake --------------------------------
(***************************************************************************)
(* From the chain to the operations: nexus/src/syncer.rs asks the node for *)
(* chain blocks, reconstructs the mergeset each of them accepted, has the  *)
(* analyzer look at every accepted transaction and hands the operations to *)
(* the processor; a rejected transaction is written by a task of its own   *)
(* into the ring of rejections of database/src/database.rs.  A transaction *)
(* the node's answer holds too little of is skipped, and one on which the  *)
(* analyzer panics ends the process.                                       *)
(*                                                                         *)
(* Block hashes are numbers.  Chain blocks are processed in batches; a     *)
(* batch that fails anywhere is asked for again from the last block the    *)
(* processor has applied.                                                  *)
(***************************************************************************)
EXTENDS Analyzer, FiniteSets, SequencesExt, Bags, KV

CONSTANTS Blocks,        \* chain block -> its header, verbose data and accepted transactions
          Chains,        \* the virtual chains the node may be on, sequences of chain blocks
          Work,          \* block hash -> blue work
          Origin,        \* ORIGIN_HASH_BYTE repeated
          MERGE_SET_LIMIT, BLOCK_TX_CAPACITY,
          REJECTIONS_LEN_LIMIT,
          Olds,          \* what the partition of an older release may hold: sequences, or None
          MaxThreads,    \* bound on the rejections written at a time
          MaxUpsets      \* bound on failing requests, batches and commits, restarts and
                         \* the node's changes of chain

ASSUME IntakeAssumption ==
    /\ \A c \in Chains : c \in Seq(DOMAIN Blocks) /\ Len(c) > 0
    /\ \A o \in Olds \ {None} : Len(o) \in Nat
    /\ REJECTIONS_LEN_LIMIT \in Nat \ {0} /\ MaxThreads \in 1..REJECTIONS_LEN_LIMIT
    /\ MaxUpsets \in Nat

VARIABLES
    chain,        \* the node's virtual chain
    indexed,      \* the chain blocks the processor has applied
    phase,        \* of the start and the sync task: open, migrate, idle, reconstruct,
                  \* ready, panicking
    common,       \* how many of the indexed blocks the answer keeps
    batch,        \* the chain blocks of the answer
    block_cache,  \* blocks fetched for it
    rebuilt,      \* per reconstructed chain block, its merged blocks
    mergesets,    \* what is handed to the processor
    waiting,      \* a bag of transactions: spawned rejections whose task has not begun
    writers,      \* write transactions of rejections; evicted is what makes room, if anything
    tx_id_to_rejection,        \* tx -> reason
    serial_to_rejected_tx_id,  \* serial -> tx
    serial_rejection,          \* the next serial, in memory
    old,          \* the partition of an older release, or None
    migrated,     \* how many of its rows are copied
    seen,         \* history variable: chain block -> the mergesets ever made of it
    lost,         \* history variable: [tx, serial] never committed, serial 0 when none was drawn
    base,         \* history variable: the first serial drawn for a rejection
    pushed,       \* history variable: transactions whose rejection was evicted
    upsets        \* bound

batchVars == <<phase, common, batch, block_cache, rebuilt, mergesets>>
ringVars == <<tx_id_to_rejection, serial_to_rejected_tx_id, serial_rejection>>
taskVars == <<waiting, writers>>
openVars == <<old, migrated>>
vars == <<chain, indexed, batchVars, ringVars, taskVars, openVars, seen, lost, base, pushed, upsets>>
-----------------------------------------------------------------------------
(* Reconstructing a mergeset.                                              *)

AcceptedBy(b) == Blocks[b].accepted
AcceptedTxs(b) == {AcceptedBy(b)[k].tx : k \in DOMAIN AcceptedBy(b)}

\* The merged blocks but the selected parent: the mergeset of the header, and the
\* blocks transactions name that are not in it.
Merged(b) ==
    (Blocks[b].blues \cup Blocks[b].reds \cup {AcceptedBy(b)[k].block : k \in DOMAIN AcceptedBy(b)})
        \ {Blocks[b].selected_parent}

WorkOf(h) == IF h = Origin THEN 0 ELSE Work[h]

\* The transactions accepted from the same merged block before the k-th.
EarlierOfBlock(b, k) == {j \in 1..(k - 1) : AcceptedBy(b)[j].block = AcceptedBy(b)[k].block}

\* What consensus rules say: a chain accepts a transaction once, a mergeset and a block
\* are limited.
ASSUME BlocksAssumption ==
    /\ MERGE_SET_LIMIT \in Nat /\ BLOCK_TX_CAPACITY \in Nat
    /\ \A b \in DOMAIN Blocks :
          /\ Blocks[b].blue \in Nat
          /\ IsFiniteSet(Merged(b)) /\ Cardinality(Merged(b)) < MERGE_SET_LIMIT
          /\ \A h \in Merged(b) : h \in Nat /\ WorkOf(h) \in Nat
          /\ AcceptedBy(b) \in Seq([tx : AcceptedTxs(b), block : Merged(b) \cup {Blocks[b].selected_parent}])
          /\ \A k \in DOMAIN AcceptedBy(b) :
                /\ Cardinality(EarlierOfBlock(b, k)) < BLOCK_TX_CAPACITY
                /\ \A j \in DOMAIN AcceptedBy(b) : AcceptedBy(b)[j].tx.id = AcceptedBy(b)[k].tx.id => j = k
          /\ \A tx \in AcceptedTxs(b) : TransactionOK(tx)

Before(p, q) == p[1] < q[1] \/ (p[1] = q[1] /\ p[2] < q[2])

\* A set of pairs in order: each stands behind as many as are before it.
InOrder(pairs) ==
    [i \in 1..Cardinality(pairs) |->
        CHOOSE p \in pairs : Cardinality({q \in pairs : Before(q, p)}) = i - 1]

\* A slip: blocks of equal work stay in the order the node lists them.
SortedByWork(listed) ==
    LET sortable == InOrder({<<WorkOf(listed[i]), i>> : i \in DOMAIN listed})
    IN  [i \in DOMAIN sortable |-> listed[sortable[i][2]]]

\* sortable: by work and by hash, whatever the order in which the node lists the blocks.
Sorted(listed) ==
    LET sortable == InOrder({<<WorkOf(h), h>> : h \in ToSet(listed)})
    IN  [i \in DOMAIN sortable |-> sortable[i][2]]

\* merged_blocks: the selected parent first.
MergedBlocks(b, listed) == <<Blocks[b].selected_parent>> \o Sorted(listed)

\* MergesetEntropyBuilder: XOR of hashes, here the hashes that do not cancel out.
EntropyOf(merged) ==
    {h \in ToSet(merged) : Cardinality({i \in DOMAIN merged : merged[i] = h}) % 2 = 1}

\* calculate_tx_score and calculate_blue_score_from_tx_score
calculate_tx_score(blue, block_index, index) ==
    blue * MERGE_SET_LIMIT * BLOCK_TX_CAPACITY + block_index * BLOCK_TX_CAPACITY + index
calculate_blue_score_from_tx_score(score) == score \div (MERGE_SET_LIMIT * BLOCK_TX_CAPACITY)

\* block_index_within_mergeset and index_within_merged_block of the k-th transaction,
\* which is pushed behind the earlier ones of its block.
Place(b, merged, k) ==
    <<(CHOOSE i \in DOMAIN merged : merged[i] = AcceptedBy(b)[k].block) - 1,
      Cardinality(EarlierOfBlock(b, k))>>

\* A transaction that Transaction::try_from refuses, for a field the node left out, is
\* skipped: the error is logged, nothing is detected and nothing is rejected.
VerdictOn(b, k) ==
    LET tx == AcceptedBy(b)[k].tx
    IN  IF tx.converts THEN Detect(tx, Blocks[b].daa) ELSE Nothing
Judged(b, kind) == {k \in DOMAIN AcceptedBy(b) : VerdictOn(b, k).kind = kind}

\* A Mergeset; process_additions gives each operation its score.
MergesetOf(b, merged) ==
    LET found  == Judged(b, "operation")
        places == InOrder({Place(b, merged, k) : k \in found})
        at(p)  == CHOOSE k \in found : Place(b, merged, k) = p
    IN  [block |-> b, entropy |-> EntropyOf(merged),
         operations |->
            [i \in DOMAIN places |->
                [op |-> VerdictOn(b, at(places[i])).op,
                 score |-> calculate_tx_score(Blocks[b].blue, places[i][1], places[i][2])]]]

\* The transactions a chain block has rejected, with their reasons.
RejectedIn(b) ==
    {[tx |-> AcceptedBy(b)[k].tx.id, reason |-> VerdictOn(b, k).error] : k \in Judged(b, "error")}

\* Those of them before any transaction of the block on which the analyzer panics.
RejectedBeforePanic(b, merged) ==
    {[tx |-> AcceptedBy(b)[k].tx.id, reason |-> VerdictOn(b, k).error] :
        k \in {k \in Judged(b, "error") :
                  \A p \in Judged(b, "panic") : Before(Place(b, merged, k), Place(b, merged, p))}}
-----------------------------------------------------------------------------
(* The sync task.                                                          *)

CommonPrefix(c, d) ==
    CHOOSE n \in 0..Len(c) :
        /\ n <= Len(d) /\ SubSeq(c, 1, n) = SubSeq(d, 1, n)
        /\ n < Len(c) /\ n < Len(d) => c[n + 1] # d[n + 1]

BatchDropped ==
    common' = 0 /\ batch' = <<>> /\ block_cache' = {} /\ rebuilt' = <<>> /\ mergesets' = <<>>

BatchEnds == phase' = "idle" /\ BatchDropped

Init ==
    /\ chain \in Chains /\ indexed = <<>>
    /\ phase = "open" /\ common = 0 /\ batch = <<>> /\ block_cache = {}
    /\ rebuilt = <<>> /\ mergesets = <<>>
    /\ waiting = EmptyBag /\ writers = {}
    /\ tx_id_to_rejection = NoEntries /\ serial_to_rejected_tx_id = NoEntries
    /\ serial_rejection = 0
    /\ old \in Olds /\ migrated = 0
    /\ seen = [b \in DOMAIN Blocks |-> {}] /\ lost = {} /\ base = 0
    /\ pushed = {}
    /\ upsets = 0

\* The node changes to another chain.
Reorg ==
    /\ upsets < MaxUpsets /\ upsets' = upsets + 1
    /\ \E c \in Chains \ {chain} : chain' = c
    /\ UNCHANGED <<indexed, batchVars, ringVars, taskVars, openVars, seen, lost, base, pushed>>

\* The acceptance records that may come with the added chain blocks, by the hash in
\* their headers: one for each, one too few, or the first without a hash or with another.
Answers(added) ==
    {added, Front(added)} \cup {[added EXCEPT ![1] = h] : h \in {None} \cup DOMAIN Blocks}

\* validate_historical_acceptance_coverage
Covers(added, records) ==
    /\ Len(added) = Len(records)
    /\ \A i \in DOMAIN added : records[i] # None /\ records[i] = added[i]

\* get_historical_data from the last applied block: the added chain blocks, or as
\* many of them as fit in the answer.  An answer whose records do not cover them is
\* dropped, and asked for again.
Request ==
    /\ phase = "idle"
    /\ LET kept == CommonPrefix(indexed, chain)
       IN  \E last \in (kept + 1)..Len(chain) :
              LET added == SubSeq(chain, kept + 1, last)
              IN  \E records \in Answers(added) :
                     Covers(added, records) /\ common' = kept /\ batch' = records
    /\ phase' = "reconstruct"
    /\ UNCHANGED <<chain, indexed, block_cache, rebuilt, mergesets, ringVars, taskVars, openVars,
                   seen, lost, base, pushed, upsets>>

\* The blocks whose headers are needed for a chain block.
Needed(b) == ({b, Blocks[b].selected_parent} \cup Merged(b)) \ {Origin}

\* reconstruct_chain_block_acceptance for the next chain block of the batch.
Reconstruct ==
    /\ phase = "reconstruct" /\ Len(rebuilt) < Len(batch)
    /\ LET b == batch[Len(rebuilt) + 1]
       IN  /\ \E listed \in SetToAllKPermutations(Merged(b)) :
                 /\ Len(listed) = Cardinality(Merged(b))
                 /\ rebuilt' = Append(rebuilt, MergedBlocks(b, listed))
           /\ block_cache' = block_cache \cup Needed(b)
    /\ UNCHANGED <<chain, indexed, phase, common, batch, mergesets, ringVars, taskVars, openVars,
                   seen, lost, base, pushed, upsets>>

\* get_block fails, for a block that is not cached: the batch is dropped.
ReconstructFails ==
    /\ phase = "reconstruct" /\ Len(rebuilt) < Len(batch)
    /\ Needed(batch[Len(rebuilt) + 1]) \ block_cache # {}
    /\ upsets < MaxUpsets /\ upsets' = upsets + 1
    /\ BatchEnds
    /\ UNCHANGED <<chain, indexed, ringVars, taskVars, openVars, seen, lost, base, pushed>>

\* A slip: only the last chain block's rejections are written.
AnalyzeLast ==
    /\ phase = "reconstruct" /\ Len(rebuilt) = Len(batch)
    /\ \A i \in DOMAIN batch : Judged(batch[i], "panic") = {}
    /\ mergesets' = [i \in DOMAIN batch |-> MergesetOf(batch[i], rebuilt[i])]
    /\ waiting' = waiting (+) SetToBag(RejectedIn(batch[Len(batch)]))
    /\ seen' = [b \in DOMAIN seen |->
                   seen[b] \cup {mergesets'[i] : i \in {j \in DOMAIN batch : batch[j] = b}}]
    /\ phase' = "ready"
    /\ UNCHANGED <<chain, indexed, common, batch, block_cache, rebuilt, ringVars, writers, openVars,
                   lost, base, pushed, upsets>>

\* process_reconstructed_acceptance_data: every rejection is left to a task.
Analyze ==
    /\ phase = "reconstruct" /\ Len(rebuilt) = Len(batch)
    /\ \A i \in DOMAIN batch : Judged(batch[i], "panic") = {}
    /\ mergesets' = [i \in DOMAIN batch |-> MergesetOf(batch[i], rebuilt[i])]
    /\ waiting' = waiting (+) SetToBag(UNION {RejectedIn(batch[i]) : i \in DOMAIN batch})
    /\ seen' = [b \in DOMAIN seen |->
                   seen[b] \cup {mergesets'[i] : i \in {j \in DOMAIN batch : batch[j] = b}}]
    /\ phase' = "ready"
    /\ UNCHANGED <<chain, indexed, common, batch, block_cache, rebuilt, ringVars, writers, openVars,
                   lost, base, pushed, upsets>>

\* The analysis panics, with what it rejected before under way.  The panic handler
\* (krc721d/src/panic.rs) lets the other threads run for two seconds and exits, which is
\* Crash: the sync task does not go on, and the next process meets the same transaction.
AnalyzePanics ==
    /\ phase = "reconstruct" /\ Len(rebuilt) = Len(batch)
    /\ \E i \in DOMAIN batch :
          /\ Judged(batch[i], "panic") # {}
          /\ \A j \in 1..(i - 1) : Judged(batch[j], "panic") = {}
          /\ waiting' = waiting (+) SetToBag(UNION {RejectedBeforePanic(batch[j], rebuilt[j]) : j \in 1..i})
    /\ phase' = "panicking" /\ BatchDropped
    /\ UNCHANGED <<chain, indexed, ringVars, writers, openVars, seen, lost, base, pushed, upsets>>

\* The processor rolls back what the answer removed and applies the batch.
Apply ==
    /\ phase = "ready"
    /\ indexed' = SubSeq(indexed, 1, common) \o batch
    /\ BatchEnds
    /\ UNCHANGED <<chain, ringVars, taskVars, openVars, seen, lost, base, pushed, upsets>>

\* A slip: the batch is not dropped.
ApplyFailsKeepingBatch ==
    /\ phase = "ready"
    /\ upsets < MaxUpsets /\ upsets' = upsets + 1
    /\ phase' = "idle"
    /\ UNCHANGED <<common, batch, block_cache, rebuilt, mergesets>>
    /\ UNCHANGED <<chain, indexed, ringVars, taskVars, openVars, seen, lost, base, pushed>>

\* The processor refuses it.  The rejections are under way all the same.
ApplyFails ==
    /\ phase = "ready"
    /\ upsets < MaxUpsets /\ upsets' = upsets + 1
    /\ BatchEnds
    /\ UNCHANGED <<chain, indexed, ringVars, taskVars, openVars, seen, lost, base, pushed>>
-----------------------------------------------------------------------------
(* The ring of rejections.                                                 *)

Serials == DOMAIN serial_to_rejected_tx_id
LastKey == Max({0} \cup Serials)    \* last_key().unwrap_or_default()

\* reject_tx up to the commit: a serial is drawn, the row that makes room is read.
\* The pool has 512 threads and the ring a million places: no write is overtaken by
\* a ring of others, so no commit finds the row it read changed.
Draw ==
    /\ Cardinality(writers) < MaxThreads
    /\ \A w \in writers : serial_rejection - w.serial < REJECTIONS_LEN_LIMIT
    /\ \E r \in BagToSet(waiting) :
          LET oldest == serial_rejection - REJECTIONS_LEN_LIMIT
          IN  /\ waiting' = waiting (-) SetToBag({r})
              /\ writers' = writers \cup
                    {[tx |-> r.tx, reason |-> r.reason, serial |-> serial_rejection,
                      evicted |-> {serial_to_rejected_tx_id[s] : s \in {oldest} \cap Serials}]}
    /\ serial_rejection' = serial_rejection + 1
    /\ UNCHANGED <<chain, indexed, batchVars, tx_id_to_rejection, serial_to_rejected_tx_id, openVars,
                   seen, lost, base, pushed, upsets>>

Oldest(w) == w.serial - REJECTIONS_LEN_LIMIT

\* The commit: both rows of the evicted transaction go, then both new ones come.
Commit(w) ==
    /\ tx_id_to_rejection' = Put(DelAll(tx_id_to_rejection, w.evicted), w.tx, w.reason)
    /\ serial_to_rejected_tx_id' = Put(Del(serial_to_rejected_tx_id, Oldest(w)), w.serial, w.tx)
    /\ writers' = writers \ {w}
    /\ pushed' = pushed \cup w.evicted
    /\ UNCHANGED lost

\* The commit fails; the error is logged.
CommitLost(w) ==
    /\ writers' = writers \ {w} /\ lost' = lost \cup {[tx |-> w.tx, serial |-> w.serial]}
    /\ UNCHANGED <<tx_id_to_rejection, serial_to_rejected_tx_id, pushed>>

Write ==
    \E w \in writers :
        /\ \/ Commit(w) /\ UNCHANGED upsets
           \/ upsets < MaxUpsets /\ upsets' = upsets + 1 /\ CommitLost(w)
        /\ UNCHANGED <<chain, indexed, batchVars, serial_rejection, waiting, openVars, seen, base>>

\* A slip: the serials go on with the last one stored.
RestartAtLast ==
    /\ phase = "open" /\ old = None
    /\ serial_rejection' = LastKey
    /\ phase' = "idle" /\ base' = IF base = 0 THEN serial_rejection' ELSE base
    /\ UNCHANGED <<chain, indexed, common, batch, block_cache, rebuilt, mergesets, tx_id_to_rejection,
                   serial_to_rejected_tx_id, taskVars, openVars, seen, lost, pushed, upsets>>

\* Database::new without a partition of the older release.
Open ==
    /\ phase = "open" /\ old = None
    /\ serial_rejection' = LastKey + 1
    /\ phase' = "idle" /\ base' = IF base = 0 THEN serial_rejection' ELSE base
    /\ UNCHANGED <<chain, indexed, common, batch, block_cache, rebuilt, mergesets, tx_id_to_rejection,
                   serial_to_rejected_tx_id, taskVars, openVars, seen, lost, pushed, upsets>>

\* migrate: the serials go on from the last one stored, which the first row copied
\* replaces when a migration was interrupted; nothing is evicted.
MigrationBegins ==
    /\ phase = "open" /\ old # None
    /\ serial_rejection' = LastKey /\ phase' = "migrate" /\ migrated' = 0
    /\ UNCHANGED <<chain, indexed, common, batch, block_cache, rebuilt, mergesets, tx_id_to_rejection,
                   serial_to_rejected_tx_id, taskVars, old, seen, lost, base, pushed, upsets>>

Migrate ==
    /\ phase = "migrate" /\ migrated < Len(old)
    /\ LET row == old[migrated + 1]
       IN  /\ serial_to_rejected_tx_id' = Put(serial_to_rejected_tx_id, serial_rejection, row.tx)
           /\ tx_id_to_rejection' = Put(tx_id_to_rejection, row.tx, row.reason)
    /\ serial_rejection' = serial_rejection + 1 /\ migrated' = migrated + 1
    /\ UNCHANGED <<chain, indexed, batchVars, taskVars, old, seen, lost, base, pushed, upsets>>

\* delete_partition
MigrationEnds ==
    /\ phase = "migrate" /\ migrated = Len(old)
    /\ old' = None /\ migrated' = 0 /\ phase' = "idle" /\ base' = serial_rejection
    /\ UNCHANGED <<chain, indexed, common, batch, block_cache, rebuilt, mergesets, ringVars, taskVars,
                   seen, lost, pushed, upsets>>

\* Nothing that was in memory is left; rejections not committed are gone.
Crash ==
    /\ upsets < MaxUpsets /\ upsets' = upsets + 1
    /\ phase' = "open" /\ BatchDropped
    /\ waiting' = EmptyBag /\ writers' = {}
    /\ lost' = lost \cup {[tx |-> r.tx, serial |-> 0] : r \in BagToSet(waiting)}
                    \cup {[tx |-> w.tx, serial |-> w.serial] : w \in writers}
    /\ serial_rejection' = 0 /\ migrated' = 0
    /\ UNCHANGED <<chain, indexed, tx_id_to_rejection, serial_to_rejected_tx_id, old, seen, base, pushed>>
-----------------------------------------------------------------------------
Next ==
    \/ Reorg \/ Request \/ Reconstruct \/ ReconstructFails \/ Analyze \/ AnalyzePanics
    \/ Apply \/ ApplyFails \/ Draw \/ Write \/ Open \/ MigrationBegins \/ Migrate \/ MigrationEnds \/ Crash

Spec == Init /\ [][Next]_vars
-----------------------------------------------------------------------------
TypeOK ==
    /\ chain \in Chains /\ \E c \in Chains : indexed = SubSeq(c, 1, Len(indexed))
    /\ phase \in {"open", "migrate", "idle", "reconstruct", "ready", "panicking"}
    /\ phase \in {"open", "migrate", "idle", "panicking"} =>
          batch = <<>> /\ common = 0 /\ block_cache = {} /\ rebuilt = <<>>
    /\ mergesets # <<>> => phase = "ready" /\ Len(mergesets) = Len(batch)
    /\ Len(rebuilt) <= Len(batch) /\ common <= Len(indexed)
    /\ \A w \in writers : w.serial < serial_rejection
    /\ phase \in {"open", "migrate"} => waiting = EmptyBag /\ writers = {}
    /\ migrated \in 0..(IF old = None THEN 0 ELSE Len(old))

\* The replay of a chain block, after a failure, a restart or a reorganisation and
\* back, makes the mergeset it made before: same entropy, which random mints are
\* drawn from, same operations, same scores.  The scores rise in the order of the
\* operations and stay in the block's own range, or removing a block by its score
\* would remove a neighbour's operations.
SameMergeset ==
    \A b \in DOMAIN Blocks :
        /\ Cardinality(seen[b]) <= 1
        /\ \A m \in seen[b] :
              LET score(i) == m.operations[i].score
              IN  /\ \A i, j \in DOMAIN m.operations : i < j => score(i) < score(j)
                  /\ \A i \in DOMAIN m.operations :
                        calculate_blue_score_from_tx_score(score(i)) = Blocks[b].blue

\* What an operation has to be for the ledger's tables to be right, and what it has
\* to cost, as far as the price of a deployment is one a word can hold.
Fits(op) ==
    /\ op.kind = "deploy" =>
          /\ op.premint <= op.max /\ op.max < Word - 1
          /\ KSPR_FEE_DEPLOY + op.premint * KSPR_FEE_MINT < Word =>
                op.security_fee >= KSPR_FEE_DEPLOY + op.premint * KSPR_FEE_MINT
          /\ op.tick \in DOMAIN RestrictedTicks => op.sender = RestrictedTicks[op.tick]
          /\ op.royalty # None => op.royalty.fee \in MIN_ROYALTY_FEE..MAX_ROYALTY_FEE
    /\ op.kind = "mint" => op.security_fee >= KSPR_FEE_MINT
    /\ op.tick \in {TickOf[t] : t \in DOMAIN TickOf}

UnderWay(tx) == (\E r \in BagToSet(waiting) : r.tx = tx) \/ (\E w \in writers : w.tx = tx)
Dropped(tx) == \E l \in lost : l.tx = tx

Inscribed(b) == {t \in AcceptedTxs(b) : t.converts /\ t.script # None /\ t.script.kspr}

\* Every inscription of an applied chain block that could be converted has come to
\* something: one operation that fits the ledger, or a rejection, which is stored, under
\* way, or was pushed out of the ring by later ones; only a restart or a failed commit
\* loses it.  Two kinds come to neither, and nothing is said of them: an inscription
\* that does not convert is skipped (VerdictOn), and one on which the analyzer panics
\* keeps its block and every later one from being applied at all (AnalyzePanics).
InscriptionsAnswered ==
    \A n \in DOMAIN indexed :
        LET b == indexed[n]
        IN  \E m \in seen[b] : \A t \in Inscribed(b) :
               LET ops == {i \in DOMAIN m.operations : m.operations[i].op.tx = t.id}
               IN  \/ Cardinality(ops) = 1 /\ \A i \in ops : Fits(m.operations[i].op)
                   \/ /\ ops = {}
                      /\ \/ t.id \in DOMAIN tx_id_to_rejection
                         \/ UnderWay(t.id) \/ Dropped(t.id) \/ t.id \in pushed

\* The ring: serials are never used twice, every rejection stored is named by a row,
\* so that it leaves in its turn, a row has no rejection only if its transaction was
\* rejected more than once, and the rows that have had their turn are gone, but for
\* those whose successor was lost and those an older release left.
RingSound ==
    phase \notin {"open", "migrate"} =>
        /\ \A s \in Serials : s < serial_rejection
        /\ \A w \in writers : w.serial \notin Serials
        /\ \A w, v \in writers : w.serial = v.serial => w = v
        /\ \A tx \in DOMAIN tx_id_to_rejection : \E s \in Serials : serial_to_rejected_tx_id[s] = tx
        /\ \A s \in Serials :
              serial_to_rejected_tx_id[s] \notin DOMAIN tx_id_to_rejection =>
                  serial_to_rejected_tx_id[s] \in pushed
        /\ \A s \in Serials :
              LET successor == s + REJECTIONS_LEN_LIMIT
              IN  successor < serial_rejection =>
                     \/ \E w \in writers : w.serial = successor
                     \/ \E l \in lost : l.serial = successor
                     \/ successor < base
=============================================================================
