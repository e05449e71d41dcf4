# KRC-721 indexer: TLA+ models, checks and proofs

The repository is an indexer of NFTs on the Kaspa block DAG. It follows the
selected chain of a node, validates the KRC-721 operations found in the accepted
transactions, keeps the result in a key-value database, and answers queries. A
chain reorganisation takes blocks back, and everything they caused with them.

This directory models how operations change the tables and how a reorganisation
undoes them, how token ids are drawn, how transactions become operations, how the
syncer, the node's notifications, the ingest threads and the services of the process
work together, what clients are told, page by page and through a cluster, and how a
database is copied to another machine.

## The system and its parts

| Part | State | Operations | What makes it correct |
|---|---|---|---|
| Token id allocator (`nexus/src/processor/token_id.rs`) | `available_ranges`, `range_lengths`, `token_id_meta` per tick | draw an id, roll a draw back | ids are a permutation of the supply above the premint; a rollback is the exact inverse of a draw |
| Processor, operations (`nexus/src/processor.rs`) | chain, operation, collection, mint, ownership, listing, discount and stats partitions | deploy, mint, transfer, discount, list, send; `process_additions` | indexes agree with each other, supply and ownership rules hold, a listed token is locked |
| Processor, reorganisations (same file) | the same partitions | `process_removal` | the tables are what an indexer holds that never saw the removed blocks |
| Processor, ingest threads (same file) | historical and realtime channel, the switch channel, the notification queue | `htvccn_task`, `rtvccn_task` | no deadlock; the queue is applied after the history |
| Syncer (`nexus/src/syncer.rs`) | `is_synced`, `last_known_block`, `target`, `resync_requested`, `sync_task_running`, the local variables of the sync task | `sync_task`, `mark_synced_if_at_current_sink`, `handle_virtual_chain_changed`, `disconnected`, spawn and release | the database holds the node's chain without leftover, and without a gap until a rollback is forced; the index catches up |
| Nexus task (`nexus/src/nexus.rs`) | connection and listener | connect, disconnect, dispatch of notifications | every event reaches the syncer |
| Database (`database/src`) | partitions, stats, rejection ring | reads, writes, range scans in a transaction, migration of the ring | key order gives each scan its meaning; a rejection leaves the ring in its turn |
| Mergeset reconstruction (`nexus/src/syncer.rs`), analyzer (`nexus/src/analyzer.rs`) | block cache of a batch | rebuild what a chain block accepted, judge every transaction | a replay makes the same mergeset; every inscription that can be read is answered; fees within 64 bits |
| Accessor and views (`nexus/src/accessor.rs`, `nft_view.rs`) | none of their own | queries, pages | no query panics on a legal database, queries agree, pages neither skip nor repeat |
| Snapshot (`snapshot/src`) | phase, cached partitions, archive, receiver | generate, archive, offer, transfer, restore | what is restored is one committed instant |
| Cluster (`cluster/src`) | availability, sessions, events of each connection | connect, poll, select, forward, stop | it adds nothing to what one indexer answers; a walk ends while some indexer is well |
| Runtime, daemon (`core/src/runtime`, `krc721d`) | services and their phase | start, terminate, join | a stop request ends the process |
| HTTP, RPC, client, wasm | none of their own | transport | |

How they interact: the Nexus task receives connection events and notifications
from the node and calls the syncer. The syncer runs at most one sync task, which
asks the node for the chain since its last known block, turns the answer into
mergesets and sends them to the historical thread over a channel, waiting for the
answer. When it has reached the sink it asks the historical thread to have the
realtime thread apply its queue; that thread then waits for a switch token, which
the realtime thread sends when a notification or a disconnect puts it back in
queue mode. Each batch is one database transaction.

The hard behaviours: a reorganisation in the middle of a market (list, sale,
relist); the order in which draws are undone; notifications that arrive between
two steps of the sync task; a connection lost while the threads shake hands; a
stop between a commit and the update of the syncer's memory; a decision taken on
a sink that was read earlier; a stop request that finds threads waiting for each
other; rejections written beside the batch they belong to; an archive written by two
tasks; pages of a list that changes, answered by several indexers. `PROJECT.json`
lists them as hazards, at their lines.

## Modules

| Module | Models | Extends |
|---|---|---|
| `KV` | a partition as a function: insert and remove | |
| `TokenRanges` | the operators of `token_id.rs` on a record of the three partitions | `KV` |
| `TokenIds` | one collection: mints and rollbacks of the latest mint | `TokenRanges` |
| `IdPool` | what the allocator promises: a pool of ids, without ranges | |
| `TokenRangesProofs` | lemmas about the operators of `TokenRanges` | `TokenRanges` |
| `TokenIdsProofs` | the theorems about `TokenIds` | `TokenIds`, `TokenRangesProofs` |
| `Market` | what the ledger promises: a book of collections, owners, offers, fees and outcomes | `KV` |
| `Ledger` | the processor's partitions, its six operations and `process_removal` | `TokenRanges` |
| `LedgerProofs` | the theorems about its chain and operation tables, owners, listings, discounts and supply | `Ledger`, `TokenRangesProofs` |
| `LedgerTablesProofs` | the theorems about counters and types, that a rollback is a replay, about what queries answer, the book, and the scans of the store | `LedgerProofs`, `Keys` |
| `Views` | the queries of `nft_view.rs` as functions of the ledger's tables | `Ledger` |
| `Accessor` | their conversion to answers, as far as it can fail | `Views` |
| `Bytes` | numbers as bytes, the order of byte strings, reading a partition in that order | |
| `Keys` | the keys of the partitions and the scans that rely on their order | `Accessor`, `Bytes` |
| `Sync` | node, Nexus task, sync task, historical and realtime thread, restart | |
| `SyncProofs` | the theorems about `Sync` | `Sync` |
| `Daemon` | start and stop of the services, negotiation with a node, threads that fail | `Sync` |
| `Analyzer` | the verdict on one transaction, with the checks in the code's order | |
| `Intake` | answers of the node, mergesets, operations, the ring of rejections and its migration | `Analyzer`, `KV` |
| `IntakeProofs` | the theorems about it | `Intake` |
| `Archive` | snapshot generator, archiver, receiver, restore | |
| `ArchiveProofs` | the theorems about it | `Archive` |
| `Pages` | paging: one request, and a client that walks a changing list | |
| `Cluster` | the connection tasks, selection and forwarding of requests, shutdown | `Pages` |
| `ClusterProofs` | the theorems about it and about paging | `Cluster` |
| `MCTokenIds`, `MCLedger`, `MCSync`, `MCDaemon`, `MCIntake`, `MCArchive`, `MCPages`, `MCCluster` | instances for TLC | |

`IdPool` is the abstract specification of the allocator: `TokenIds` implements it
(`DrawsFromPool`) with the pool mapped to the ids that lie in some range.
`Market` is the abstract specification of the ledger, without scores, indexes, histories
or ranges: each handler has a set of reasons to refuse an operation instead of a sequence
of checks, a mint gives any free id, and a reorganisation reopens the book some block
found. `Ledger` implements it (`KeepsTheBook`, `BookOf`): of ten tables the book keeps
what a client is told, and the discount in force is the latest row of `vip`.
`Pages` is the abstract specification of reading a list: some indexer answers each
page from its index at that moment. `Cluster` implements it (`Forwards`), with
connections, failover, cancelled requests and shutdown as stutters. `Daemon` composes
the syncer of `Sync` with the runtime around it: it uses the actions of `Sync` and adds
the conditions under which a thread or task still runs. `Views`, `Accessor` and `Keys`
add no behaviour to `Ledger`; they say what is read from its states.

Operators that start with the comment "A slip:" are not part of the models. Each
is a plausible mistake in the definition that follows it; putting it in the place
of that definition breaks a property, which shows that the property depends on it
(`mutants` in `PROJECT.json`).

### Correspondence

*Partitions.* A variable of `Ledger` has the name of the partition it stands for. A
partition that stores keys only is a set. Keys are tuples in the order of the code's
key structs; scores stored as `u64::MAX - score`, so that the newest comes first, are
stored plainly, and "first in range" becomes the maximum. `alloc` is the three
partitions of the allocator by tick. The score of a transaction is
`blue * PerBlock + position`, as in `calculate_tx_score`, with the two positions (of
the block in the mergeset, of the transaction in the block) as one.

*Operations.* An operation is a record with the fields the processor reads; the
analyzer's parsing is left out. `XError(op)` is the error of `process_X`, with the
checks in the code's order, `None` if it succeeds; the action `X` is its effect, and
`Reject` records an operation that fails. Each of them ends with what the loop of
`process_nft_operations` does: `operation_history`, `tx_id_to_opscore`, the counters.
`Deploy` includes the premint. `AcceptBlock` is the head of `process_additions`.
Blocks and operations are steps of their own although the code processes a batch in
one transaction: the intermediate states are those between the writes of the
transaction, which no reader sees, and every batch is a sequence of such steps.

*Reorganisation.* `Reorg` takes the removed hashes, known or not, and an optional
forced score, and applies the six stages of `process_removal` in one step: each
`Rollback...` operator is one stage, and reads what the stage reads at its point of
the sequence (for example, listings are restored while operations are removed and
then filtered).

*Sync.* One action per stretch of code between two points where another thread's
effect can be seen: a request to the node, a send, a receive, an atomic or a lock.
`task`, `ht`, `rt` and `nexus` name where each of them is. A failing request is
modelled by the connection being down. The node's answer may stop at any block of the
new branch. The database is reduced to the set of chain blocks, and `Process` is what
`process_chain_changes` does to it. Production code never sends realtime chain
changes (only the test and load tools do), so the realtime queue is empty here.

*Daemon.* A service is a place in the order in which `krc721d.rs` binds them; the
instance keeps one of each way to stop (kaspad and the metrics answer a stop request
like the wRPC server). `DaemonInit` leaves open whether the syncer was started from the
database or the configuration, or waits for a connection. The first SIGTERM is an
action; the second one exits at once and is left out, or nothing could ever hang. A node
is what it says of itself in `get_server_info`; a version is its parts, `None` when
`parse_kaspad_version` fails (as for "kaspad 2.0.0", whose prefix is stripped only
together with a "v": the fallback is the string with the prefix).

*Analyzer and intake.* A transaction is a record of what the code finds out about it (is
there a signature, does the script carry an envelope, does it parse) and of the values it
compares. `Detect` is its verdict: nothing, an error or an operation. `Intake` rebuilds
mergesets from the acceptance records, in whatever order the node lists the merged
blocks, and gives operations their scores; entropy is the set of hashes that do not
cancel out in the XOR. A sort is stated by the rank of each element (`InOrder`).
Rejections are tasks that wait, draw a serial and commit.
A transaction that does not convert (`Transaction::try_from` in `syncer.rs:717`) is skipped
in `VerdictOn`. One on which the analyzer panics ends the process (`AnalyzePanics`):
the first opcode of the redeem script is the one the envelope's checks leave alone, and
`pay_to_pub_key` asserts its length. The transactions before it are judged by then, in the
order of the merged blocks, and for the two seconds that the panic handler
(`krc721d/src/panic.rs`) gives them their rejections go on being written; then follows a
`Crash`, and the next process meets the same transaction.
`process_acceptance_data` is not modelled: production code calls it with an empty list.

*Archive.* A database is a number of rows; an archive is a file with places that tasks
write one by one, a hash that covers them and a phase. The hash is taken to be exact.

*Keys.* A byte has four values and a number two bytes in the instance. Each scan of the
code (first or last key of a prefix or range) is stated on byte strings; `ScansExact`
compares it with what `Ledger` means, with the rows of neighbouring collections added.
A key that begins with a script does not hold its length. Of standard scripts none is a
prefix of another, since the first bytes fix the length; the buyer of a sale may have any
script, and there `KeysAssumption` assumes it.

*Views and accessor.* Each query is the set of its entries; a query that panics or meets
an inconsistent index is `Failed`. The accepted URI prefixes are a list that hides a
collection whose metadata has none of them (an empty list hides every collection);
operation lists, available ranges and marketplace queries answer for hidden collections
too.

## Runs

| Run | Bounds | Shows |
|---|---|---|
| `token_ids` | supply 7, premint 1, entropies 0..11, so every residue of index and offset | type, `FreeOrMinted`, `RangeMustExist`, `RollbackRestores`, and that the allocator is a pool of ids (`DrawsFromPool`) |
| `ledger_market` | one premint token, two chain blocks of up to 3 operations out of 8, 2 reorganisations, a buyer script that is no address | the indexes agree, ownership is consistent, listings are backed by a standing list operation, counters follow, a listed token is locked, queries answer (`QueriesAnswer`) and agree (`ViewsAgree`), `RollbackIsReplay` |
| `ledger_mint` | supply 3, premint 1, two competing second blocks, two deployments of the same tick, a discount, two mints, a sale, 1 reorganisation, at most 2 refused operations on record (`FewRefused`), neighbouring ticks | `KeepsTheBook`: refusals, effects and reorganisations are those of the book; `SupplyRespected`, `AllocatorInStep`, `DiscountsStand`, `QuotesHold`, `ScansExact` |
| `sync` | six blocks in two branches, 3 moves of the sink between three of them, whose scores may grow, stay or fall, 1 lost connection or restart | `IndexedIsChain`, and under fairness `SyncEnds`, `NoticeServed` |
| `daemon` | 1 move, 1 fault (a lost connection, a refused node or a failed thread), four services | `NoHandshakeDeadlock`, `StopsAtRest` |
| `intake` | four chain blocks, three of them rivals, with an inscription that does not convert and one on which the analyzer panics, a ring of 2, 2 rejections at a time, 3 upsets (a failed request, batch or commit, a restart, a change of chain), an older ring of 2 rows or none | `SameMergeset`, `InscriptionsAnswered`, `RingSound` |
| `archive` | 2 scores, 1 commit, 1 archive request, 1 upset, 1 sync, 1 restore | `RestoreFaithful`, `SyncComesToEnd` |
| `cluster` | 2 indexers, 2 rows, 1 other client, 1 change of the index, 1 upset (lost link, remote out of sync, cancelled request), 1 refused status request | `SessionsCounted`, `EachOnce`, `Forwards`, `WalkEnds`, `ShutdownEnds` |
| `ledger_seller_index`, `sync_handshake`, `sync_gap`, `listing_pages` | as small as the case needs | disagreements of code and documentation, below |

The bounds are chosen so that the cases that interact all happen: a second
reorganisation replays over the leftovers of the first; two blocks allow an
operation below and one above the threshold of a rollback; three operations in a
block allow a listing, its sale and a relisting in one block or spread over two; a
supply of 7 with six drawable ids gives up to three ranges with splits, shrinks at
either end, removals from the middle of the list and from its end. In `Sync`, three
moves allow a reorganisation while the answer to an earlier one is being processed, and
a sink of equal or lower score that the node leaves again before it is asked.
In `intake` a ring of two is full after two rejections, so a third, or the first one
again after a failed batch, evicts. In `daemon` the services have every way to stop
the code has and a fault may come at any point of a start, a sync or a stop. Deadlock is
not checked where the instance ends because its blocks, operations or moves are used
up, or because the process has ended.

The central property is `RollbackIsReplay`: the history variable `past` keeps the
tables as they were before each accepted block, and after a reorganisation the tables
equal those before the lowest removed block. It is not claimed of three tables: the
seller index and the counters, for which it is false (below), and
`score_to_discount`, whose rows stay behind; `DiscountsStand` says that they do no
harm.

### Fairness

`FairSpec` assumes weak fairness of the Nexus task, the sync task and the two threads
(the operating system and tokio schedule them), and of connecting (the RPC client
reconnects on its own, and the sync task repeats failed requests every second).
Nothing is assumed of the node, the network or restarts. `FairDaemon` is the same for the
services: every task and thread is scheduled, and signals, errors and refusals owe
nothing. `SyncEnds` excepts one end of the node's moves, `Astray` (see Disagreements).
`Cluster` assumes that its tasks are scheduled and that the walker asks again
and its request ends (answered, failed or cut by the HTTP timeout); a lost link may stay
lost, and `WalkEnds` asks for one indexer that stays reachable and in sync and for no
connection that is available without having been announced (`Unannounced`). `Archive`
assumes that tasks run and that the receiver asks on.

### Disagreements

- `ledger_seller_index`: a listing restored by a reorganisation overwrites a relisting
  that is being removed, and its entry in the seller index is never cleaned up.
- `sync_handshake`: two disconnects during a sync block the realtime thread on the full
  switch channel while the historical thread waits for it.
- `sync_gap`: a batch may end beyond the target. If the connection is lost before the
  sink is read again, the sync task goes on with the old target, finds its last known
  block above it, and forces its rollback; but the node answers what comes after that
  block. It is missing from the index from then on, with its operations. The same
  happens without a lost connection: the task reads a sink of the same or of a lower
  score on another branch, and the node is back on the branch of the last known block
  when the changes are asked for. Up to the first forced rollback the index has no gap
  (`IndexedIsChain`), whatever the connection does.
- `listing_pages`: the next offset of a page of active listings is an operation score,
  but the list is ranged by token id; a forward walk stops after its first page, a
  backward one gets the same page again.

Seen while modelling, without a run of their own:

- A notification handled between the last look at the sink and setting `is_synced` only
  leaves a flag nobody acts upon (`syncer.rs:460`): the index stays behind until the next
  one (`flow.md:70`: "New notifications are processed immediately"). `NoticeServed` says
  that the next one does make up for it.
- The premint of a removed deployment is not taken off the counter of mints
  (`processor.rs:742`; `doc/FIELD_REFERENCE.md:37` calls it the number of tokens minted).
- The node may be back at the last known block while the sync task heads for a sink it has
  left (`Astray`). If that sink has a greater score, every answer is empty and the task
  repeats the request (`syncer.rs:188`); if not, and the database holds the last known block
  only, the forced rollback leaves it empty and the task repeats that (`syncer.rs:244`).
  Both last until the node moves, and `SyncEnds` excepts them.
- An inscription may come to nothing. One whose transaction the node sends with a field
  missing is skipped with a line in the log (`syncer.rs:717`), and is not asked for again. One
  whose redeem script has a signature opcode behind a first opcode that does not push a key
  of its length fails an assertion (`analyzer.rs:890`, `analyzer.rs:901`), which ends the
  process: no batch with its chain block is ever applied. `InscriptionsAnswered` speaks of
  the inscriptions that convert, in blocks that are applied. `Sync` and `Daemon` know
  neither; to them such an end is a restart.
- A stop does not end the process, and needs a second SIGTERM, when it comes during a
  sync or a queue handover, after the historical thread has ended, or when a notification
  starts a sync task between the stop of the processor and that of Nexus. `StopsAtRest`
  therefore speaks of an indexer at rest. A start that fails stops only the services
  already active; a bind that fails in the HTTP server panics and stops none.
- After an error ended the historical thread, the sync task takes the dropped answer for
  an error, goes on and blocks on a channel nobody reads (`processor.rs:220`).
- Cluster: a status request that fails while the link is up leaves the connection
  unannounced; the poll then makes it available (`connection.rs:189`), and a later disconnect
  does not take it away (`connection.rs:240`), nor does the network check apply to it.
  `cluster` reaches this case and `WalkEnds` excepts it; without the exception it is violated
  (`src/README.md:16` promises a "High-availability load-balancing").
- A limit of 0 is answered with an empty page and a next offset, for ever.
- One entry whose script has no address form (the buyer of a send is whatever script
  output 1 has, even of a rejected send) fails every page of the operation list it is on.
- Rejections: a transaction that is rejected again has two serials, and evicting the
  older one removes its rejection; the migration of an older ring replaces the last row,
  copies again after an interruption and never trims; a transaction refused in one block
  and applied after a reorganisation is still answered with its old rejection
  (`accessor.rs:617`); rejections lost in a crash are not written again once their
  block is applied.
- `premint * KSPR_FEE_MINT` wraps in a release build (`analyzer.rs:446`), so a deployment
  whose price does not fit in 64 bits passes; `Fits` claims the fee only below that.
- Archive: a failed or pre-existing archive becomes Ready, a reset lets two tasks write
  one file; the hash alone keeps such a file from being restored. A restore that fails
  or is interrupted leaves a partial database which the next start takes for its own
  (`snapshot.rs:347`).

One more, visible in `sync` if one asks that every sync task ends: `release_sync_task`
may respawn a task for a notification whose handler then spawns another. The second
finds the historical thread waiting for a switch nobody owes it and stays there until
the next notification.

## Proofs

Every theorem is checked to the last leaf, for every value of the constants that the
named assumptions allow.

### The token ids

`TokenIdsProofs` proves, for every supply, premint and set of entropies:

- `TypeCorrect`: `Spec => []TypeOK`;
- `RangesPartition`: `Spec => [](RangesDisjoint /\ FreeOrMinted)`;
- `DrawsAreFresh`: `Spec => [](NoDoubleMint /\ RangeMustExist)`;
- `RollbackIsInverse`: `Spec => RollbackRestores`;
- `AllocatorIsPool`: `Spec => DrawsFromPool`, the refinement of `IdPool`.

The assumptions are those of `TokenIds` (`SupplyAssumption`): natural numbers and a
premint of at most the supply, which the analyzer checks. The properties are not
inductive: what a rollback does depends on metadata written by a mint arbitrarily long
ago. The inductive invariant `TrailInv` therefore speaks of the whole history: every
state of the allocator the trail remembers is well formed, its ranges are disjoint and
partition the ids with the mints up to there, and each is what
`RollbackTokenGeneration` makes of the next. A mint extends the trail by one step, and
that the step is undone exactly is a lemma per case (range removed, shrunk at either
end, split, first mint) in `TokenRangesProofs`; a rollback shortens it, and the rest is
known already. `LedgerProofs` uses the same lemmas for the draws of the ledger.

### The ledger

`LedgerProofs` and `LedgerTablesProofs` prove, for any blocks, operations and number of
reorganisations and any block capacity:

| Theorem | States |
|---|---|
| `ChainIndexedAlways` | `Spec => []ChainIndexed` |
| `OperationsIndexedAlways` | `Spec => []OperationsIndexed` |
| `OwnershipConsistentAlways` | `Spec => []OwnershipConsistent` |
| `ListingsBackedAlways` | `Spec => []ListingsBacked` |
| `DiscountsStandAlways` | `Spec => []DiscountsStand` |
| `SupplyRespectedAlways` | `Spec => []SupplyRespected` |
| `AllocatorInStepAlways` | `Spec => []AllocatorInStep` |
| `ListedTokenLockedAlways` | `Spec => ListedTokenLocked`, an action property |
| `StatsFollowAlways` | `Spec => []StatsFollow` |
| `LedgerTypes` | `Spec => []TypeOK` |
| `RollbackIsReplayAlways` | `Spec => RollbackIsReplay`, an action property |
| `ViewsAgreeAlways` | `AnswersApart`: `Spec => []ViewsAgree` |
| `QuotesHoldAlways` | `RoyaltiesApart`: `Spec => []QuotesHold` |
| `QueriesAnswerAlways` | `AnswersApart`: `Spec => []QueriesAnswer` |
| `LedgerKeepsTheBook` | `Spec => KeepsTheBook`, the refinement of `Market` |
| `ScansExactAlways` | `Spec => []ScansExact` |

The assumptions are those of `Ledger` (`LedgerAssumption`): positive blue scores, scores
and fees that are numbers, a block capacity of at least one operation, one operation for
a transaction, discount fees that are numbers, and a premint of at most the maximum of a
deployment, which the analyzer checks (`Analyzer`). No set need be finite. The queries add
`ViewsAssumption` (a mint names its recipient, a deployed royalty its beneficiary and fee)
and `AccessorAssumption` (senders, recipients, deployers and beneficiaries have an address:
they come from `pay_to_address_script` or a public key, and only what a send pays to may
have none). The refinement adds `KindsAssumption`, that there are six kinds of
operations, and the scans add the assumptions of `Keys`, below. The hypotheses in the table are about the two constants that stand for no
answer: `AnswersApart`, that `None` and `Failed` are no rows and differ from the answers;
`RoyaltiesApart`, that a royalty with another fee is still not `None`. The code has types
for this, TLA+ values have none.

None of the properties is inductive. After a rollback the score the next operation would
get is smaller than before, so that what remains lies below it has to be known from where
it was recorded. `ChainInv` says that every operation and every registered collection lies
within the scores of an accepted block and that there is a highest accepted block; the
rest is arithmetic on `TxScore`: the scores of two blue scores do not meet
(`ScoresApart`), so cutting at the first score of a block removes whole blocks of
operations.

`LedgerInv` adds what a reorganisation needs to know of the tables it cuts:

- `RegistryRecorded`: a registered collection has the record of its deployment;
- `MintsRecorded`: the mints of a collection are numbered in the order of their scores,
  and its allocator has a trail, as in `TokenIds`: a state before each random mint, from
  which the draw gives the id of that mint and to which its rollback returns. The draws
  are undone from the newest to the oldest, and this is why the fold of
  `get_affected_token_operations` ends at the state the remaining mints left;
- `HistoryRecorded`: `ownership_changes` and `ownership_history` have the same rows, each
  of a recorded operation on a token minted by then;
- `OwnershipConsistent` itself: a cut of the history decides the owners after it;
- `ListingInv`: besides `ListingsBacked`, the sender of a standing list operation owned the
  token at that score (`ListedByOwner`), a standing send spends a standing listing that no
  other send spends, between which the token neither moved nor was listed again
  (`SendsBacked`), and a listing in force is the token's last one and not spent
  (`ListingsLast`). A send that is removed restores its listing: that the seller owns the
  token again follows from `ListedByOwner` and the history cut at the same score;
- `DiscountInv`: `DiscountsStand`, with the rows of `score_to_discount` by which a removed
  discount is found.

There is one lemma for each part and each kind of step (`Deploy`, `Mint`, `Transfer`,
`Discount`, `List`, `Send`, `Reject`, `AcceptBlock`, `Reorg`). `StatsInv` adds that every
standing mint has its row. What the counters lose is a sum over the removed operations;
that it equals the number of those the counter counts (`TotalCounts`) is proved by
induction on finite sets, stated with sets of numbers instead of a predicate.

`RollbackIsReplay` compares the tables after a reorganisation with those `past` kept when a
block was accepted, arbitrarily many operations and reorganisations earlier. The proof
reads the tables as they were below a score off the present ones, `TablesBefore(score)`:
records, registrations, changes of hands and discounts below it; the allocators with the
draws from there on undone; the owners the cut history names; and the listings that stand
below the score and that no send below it spends, whether or not a later one does. Then

- accepting a block: every record lies below its first score, so `TablesBefore` of it is
  the tables themselves (`AllBefore`). For the listings this needs the converse of
  `ListingsBacked`, `UnspentListed`: a standing listing no standing send spends is in force;
- an operation changes no `TablesBefore` up to its own score (`OperationBefore`). A mint
  adds the newest draw, and undoing it first gives the allocator it drew from
  (`UndoNewest`);
- a reorganisation changes no `TablesBefore` up to its threshold (`RollbackBefore`): undoing
  the draws from the threshold on, and then those of an earlier block, undoes them all
  (`UndoneInTwo`);
- after it every record lies below the threshold, and the tables are `TablesBefore` of it;
  the lowest removed block is an accepted one (`ReorgFrom`), whose entry of `past` is the
  same by the invariant `PastReplayed`.

What the queries answer follows from the same invariants. The rows an index names exist by
`LedgerInv`; the counters a collection is shown with are the counts of its mints
(`SupplyCounted`) and the number of the last of them; the ids left are those of
`AllocatorInStep`. `ViewsAgree` compares queries that read the owners from different
tables, which `OwnershipConsistent` relates; `QuotesHold` compares the ids and the fee a
client is shown with what the next mint draws from and is charged. `QueriesAnswer`, that no
conversion fails, needs to know whom a row of `ownership_history` names: `MovesRecorded`
says that the rows are exactly what the recorded operations gave, and to whom, so that an
owner without an address can only be the buyer of a sale that still stands last.

*The book.* `LedgerKeepsTheBook` maps each step of `Ledger` to one of `Market` or a stutter.
That a handler refuses exactly when there is a reason, and for one of the reasons, is a
lemma per operation. It needs the invariants where the code decides by something the book
does not have: the number of the last mint decides whether an id is left, and by
`MintsRecorded` this is whether the book has a free one (`BookFree`: the minted ids are as
many as the mints), and the trail of the allocator gives an id that nobody has; a discount's
row is the latest because every standing one lies below the score of the next operation; the
first block found from above is the only one of its score (`ChainIndexed`).
A reorganisation reopens a book by the argument of
`RollbackIsReplay`, with its invariant `PastReplayed`: the book each block found, kept in
`past`, is the one `chain` holds for it.

*The scans.* `ScansExactAlways` holds for any base and width, that is, for bytes of 256
values and words of 8, and for any ticks of one length, scripts, hashes and neighbouring
collections. Its lemmas go up in three layers:

- numbers: `from_be_bytes` undoes `to_be_bytes`, and big-endian bytes are ordered as the
  numbers are, for the numbers a word holds. Both are inductions over the bytes, by a least
  element;
- byte strings: which of two composed keys is smaller is decided by the first field that
  differs, if fields of one place have the same length or none is a prefix of the other;
- scans: the first or last row of a prefix or a range, and the rows from a start on, of any
  set of rows with such keys.

What remains is that the rows of the ledger are such rows: their scores and fees fit into a
word, their ids and sequence numbers do not exceed a supply, their ticks and scripts have
bytes. A score lies within an accepted block (`ChainInv`), whom a row of the history names
follows from `MovesRecorded`, and the ranges left are disjoint intervals of ids, hence fewer
than the ids (`RangesCounted`). What is left is in one more inductive invariant,
`KeysShaped`. `NumbersAssumption` says that the numbers of an operation and the
scores of a block fit into a word, `PartiesAssumption` that whoever an operation names has a
script, and `KeysAssumption` that ticks have one length and scripts are no prefixes of each
other. The last is more than the code enforces for a buyer's script that is not standard.

### The syncer

`SyncProofs` proves, for any tree of blocks, any moves of the node and any number of lost
connections and restarts:

- `SyncTypes`: `Spec => []TypeOK`;
- `OneBranch`: whenever no batch is in the processor's hands, the database holds blocks
  of the chain of `last_known_block` only;
- `ChainFollowed`: `Spec => []IndexedIsChain`.

`SyncAssumption` says what a block DAG's selected chains look like, and that the node does
not move back to the block it started from; nothing is assumed of the scores of its sinks.
`SyncInv` says for each place the sync task may be at what its locals and the channels hold:
`Handed`, which thread has the batch; `Answered`, that an answer is the difference of two
chains the node had, plus the last known block if its rollback was forced; `Standing`, which
block the database will stand at; `AtStart`, that before the first move there is nothing to
ask for. `Whole` adds that the database holds the whole chain of that block until a forced
rollback was processed (`rewound`). Its step is `ProcessLands`: an answer that forces nothing
cuts the database where the two chains part and puts the new branch on it. After a forced
rollback only `OneBranch` is left (see Disagreements).

### The intake

`IntakeProofs` proves, for any blocks and transactions, any chains between which the node
may change, any size of the ring, number of writers, failures and restarts, and whatever
an older release left:

- `SameMergesetAlways`: `Spec => []SameMergeset`;
- `InscriptionsAnsweredAlways`: `Spec => []InscriptionsAnswered`;
- `RingSoundAlways`: `Spec => []RingSound`;
- `IntakeTypes`: `Spec => []TypeOK`.

`BlocksAssumption` is what consensus guarantees of a block: its mergeset and each block of
it are within the limits, and no transaction is accepted twice by one chain block.
`AnalyzerAssumption` says that amounts are words and that a deployment and a mint cost no
more than a word holds. `IntakeAssumption` bounds the writers by the places of the ring,
512 to a million in the code; with more of them a commit could find another row in its
place than the one it read.

A list of merged blocks in any order gives the same sequence (`SameBlocks`), since the
works with the hashes are ordered without ties; so whatever is rebuilt for a block is
`Rebuilt(b)`, and the scores rise because the places are distinct and within the limits
(`PlaceIs`, `Scores`). `BatchInv` says that the batch is the part of some chain behind the
blocks it keeps, so that applying it gives the beginning of a chain again (`ApplyIs`), and
`SeenInv` that each of these blocks has made its mergeset, and no other, and holds no
transaction on which the analyzer panics.
`InscriptionsAnswered` then is one lemma per operation of the analyzer, that no operation
is found with a check left out (`VerdictFits`); one about a mergeset, that an inscription
has one place in it or one rejection (`InscriptionIs`); and one about the tasks, that a
rejection is never forgotten (`AccountedStep`).

`RingSound` needs what it leaves out, the times when it does not hold. `OldInv` and
`MigrateInv` say that until the partition of the older release is deleted nothing else is
stored, so an interrupted migration may start anew over its own rows; `OpenInv` says of a
database at rest that the serials missing between two rows a ring apart were lost. `WriteInv`
says of a write in progress that no other has come a ring further and that the row it read
to evict is still the one there.

### The archive

`ArchiveProofs` proves, for any partitions, requesters and bounds:

- `ArchiveTypes`: `Spec => []TypeOK`;
- `RestoresAreFaithful`: `Spec => []RestoreFaithful`.

`ArchiveAssumption` asks for at least one partition that is archived, and none twice.
The invariant `ArchiveInv` does not say that an archive holds one instant, as it may not:
two tasks may write one file. It says that a header speaks of one instant (`Headers`), that
each chunk of a body is of some instant and at its place (`Bodies`), and that what was
inserted is what was read (`Restoring`); the comparison of the hash at the end then leaves
only one instant.

### Paging and the cluster

`ClusterProofs` proves, for any number of indexers and clients, any rows and any limits:

- `PagesEachOnce`: `OffsetsAreKeys /\ PagesSpec => []EachOnce`;
- `ClusterTypes`: `Spec => []TypeOK`;
- `SessionsCountedAlways`: `Spec => []SessionsCounted`;
- `ClusterForwards`: `Spec => Forwards`, the refinement;
- `ClusterEachOnce`: `OffsetsAreKeys /\ Spec => []EachOnce`.

`OffsetsAreKeys` excludes the listings of a collection, where `listing_pages` shows the
property false. `EachOnce` is not inductive: that nothing given so far lies ahead of the
offset, and that what stayed and was not given does, is what one page needs to know
(`WalkInv`). The heart is `PageCuts`: the `limit + 1` rows that are read are an initial
segment of those found, so the last of them cuts the list, and a page that is not full
was all there is; that is an argument on cardinalities, from the first row not taken. For
the cluster, `CallInv` adds to the count of sessions that only nodes hold requests; with
it every step is a step of `Pages` or a stutter. `ClusterAssumption` asks for finitely
many clients.

### Only model-checked

- Liveness (`SyncEnds`, `NoticeServed`, `StopsAtRest`, `SyncComesToEnd`, `WalkEnds`,
  `ShutdownEnds`): the prover does not handle fairness or `ENABLED`.
- `NoHandshakeDeadlock`: it is false of any number of interruptions, as
  `sync_handshake` shows; the bound of `daemon` is part of what it says.
- What a recursive definition computes for every input: the library's induction theorems
  take an operator. Induction on numbers was possible where it can be put as a
  least element of a set (`LeastNat`, `SetInduction`), which carries the proofs of the
  allocator's trail, of the sums and of the bytes of a number.

## Plan

1. Done: allocator, ledger, syncer with ingest threads; archive, paging, cluster, views,
   keys, analyzer, intake, daemon; proofs of the allocator, the ledger, the syncer's safety,
   the archive, the intake, paging and the cluster; the ledger's abstract specification
   (`Market`) and its refinement; the scans of the store.
2. Open in the models: the metadata and collection refresh of clients that subscribe.
3. Open in the proofs: compose `Sync` and `Intake` with the book of `Market`, so that the book
   an indexer shows is a function of the node's chain.

## Not modelled

HTTP, RPC, client and wasm bindings, the kaspad wrapper, the test and load tools,
metrics, subscriptions, configuration and logging: they hold no state the ledger depends
on. Characters of inscriptions, addresses and JSON: the analyzer's model takes what
parsing found out. The queue of realtime changes: no code of the daemon fills it.
Conflicts between write transactions: the ingest threads exclude each other by the
queue handshake, and the rejection writers touch partitions nobody else writes. The error
of `connect_as_task` in a cluster connection (`cluster/src/connection.rs:221`), which would end
its task without the answer a shutdown waits for: the client never returns one
(`rpc/client/src/client.rs:212`). Scores
and counters are natural numbers except where the analyzer computes fees and the keys
reverse scores; the code's saturating subtraction of counters is kept. A transaction is
taken to occur once in a mergeset, and chain blocks to arrive in order of blue score, as
the node delivers them.
