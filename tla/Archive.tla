------------------------------- MODULE Archive -------------------------------
(***************************************************************************)
(* Snapshots (snapshot/src): the generator of a running indexer archives   *)
(* its database while commits go on, HTTP handlers ask for an archive,     *)
(* reset it and serve it, and the receiver of another machine (mode --sync *)
(* of krc721d) fetches an archive and restores a database from it.         *)
(*                                                                         *)
(* A partition's content is the number of the last commit in it: every     *)
(* commit writes every partition.  A partition is one chunk of an archive. *)
(* A file on disk is an inode, which outlives its name while it is open.   *)
(***************************************************************************)
EXTENDS Naturals, Sequences, FiniteSets, SequencesExt

CONSTANTS Partitions,   \* the partitions of the database, in order of take_snapshots
          Skipped,      \* skip_partitions: notification_queue
          Requesters,   \* clients of the HTTP server, each with one request at a time
          Receiver,     \* the one of them that syncs its database
          MaxDaa,       \* bound on the server's DAA score
          TimeoutDaa,   \* SNAPSHOT_TIMEOUT_HOURS as a DAA score
          MaxCommits,   \* bound on commits
          MaxArchives,  \* bound on archiving tasks
          MaxUpsets,    \* bound on restarts, errors of the file system and resets by others
          MaxSyncs,     \* bound on runs of krc721d --sync
          MaxRestores,  \* bound on runs of krc721d --restore
          None          \* Option::None, and a file that is not there

ASSUME ArchiveAssumption ==
    /\ Partitions \in Seq(ToSet(Partitions)) /\ IsInjective(Partitions)
    /\ Skipped \subseteq ToSet(Partitions)
    /\ \E p \in ToSet(Partitions) : p \notin Skipped
    /\ Receiver \in Requesters
    /\ MaxDaa \in Nat /\ TimeoutDaa \in Nat /\ MaxCommits \in Nat /\ MaxArchives \in Nat
    /\ MaxUpsets \in Nat /\ MaxSyncs \in Nat /\ MaxRestores \in Nat
    /\ None \notin Nat

VARIABLES
    db,         \* partition -> the last commit in it
    writing,    \* how many partitions the commit that holds the lock has written, or 0
    daa,        \* State::current_daa_score
    phase,      \* PhaseContext of the generator
    folder,     \* the snapshots folder, if it is there: DAA score of a file name -> inode or None
    inodes,     \* the contents of every file ever created
    archivers,  \* archiving tasks
    handler,    \* requester -> where the handler of its request is
    client,     \* where the receiver is
    wanted,     \* the archive the receiver was told of, by its DAA score
    stream,     \* the file it downloads: inode and Content-Length
    copy,       \* what it has downloaded
    inserted,   \* how many chunks of it are restored
    restored,   \* the receiver's database folder: partition -> content, or None
    upsets, syncs, restores  \* bounds

dbVars == <<db, writing, daa>>
serverVars == <<phase, folder, inodes, archivers>>
clientVars == <<client, wanted, stream, copy, inserted, restored, syncs, restores>>
vars == <<dbVars, serverVars, handler, clientVars, upsets>>

\* A header is zeros, None, until the archive is finished; then it holds the number
\* of chunks and the hash over them, here the chunks that were hashed.
File(header, body) == [header |-> header, body |-> body]

PartitionSet == ToSet(Partitions)

\* The partition table of an archive: the partitions that are not skipped, in order.
TableUpTo[n \in 0..Len(Partitions)] ==
    IF n = 0 THEN <<>>
    ELSE IF Partitions[n] \in Skipped THEN TableUpTo[n - 1]
    ELSE Append(TableUpTo[n - 1], Partitions[n])
Table == TableUpTo[Len(Partitions)]

Ready(score) == [name |-> "Ready", daa |-> score]
Phase(name) == [name |-> name, daa |-> None]

Init ==
    /\ db = [p \in PartitionSet |-> 0] /\ writing = 0 /\ daa = 0
    /\ phase = Phase("None") /\ folder = [d \in 0..MaxDaa |-> None]
    /\ inodes = <<>> /\ archivers = <<>>
    /\ handler = [r \in Requesters |-> "idle"]
    /\ client = "idle" /\ wanted = None /\ stream = None /\ copy = None
    /\ inserted = 0 /\ restored = None
    /\ upsets = 0 /\ syncs = 0 /\ restores = 0
-----------------------------------------------------------------------------
(* The indexer at work.                                                     *)

\* WriteTransaction::commit writes one partition after the other, under a read
\* lock of snapshot_commit_rw.
WriteCommit ==
    /\ writing > 0 \/ db[Partitions[1]] < MaxCommits
    /\ db' = [db EXCEPT ![Partitions[writing + 1]] = @ + 1]
    /\ writing' = (writing + 1) % Len(Partitions)
    /\ UNCHANGED <<daa, serverVars, handler, clientVars, upsets>>

AdvanceDaa ==
    /\ daa < MaxDaa
    /\ daa' = daa + 1
    /\ UNCHANGED <<db, writing, serverVars, handler, clientVars, upsets>>
-----------------------------------------------------------------------------
(* The archiving task that generate spawns.                                 *)

Task(at) == [at |-> at, daa |-> None, snapshot |-> None, inode |-> None, written |-> 0]

\* Steps of task a that leave the phase and the files alone.
TaskStep(a, from, task) ==
    /\ archivers[a].at = from
    /\ archivers' = [archivers EXCEPT ![a] = task]
    /\ UNCHANGED <<dbVars, handler, clientVars, upsets>>

\* A slip: take_snapshots does not take the lock.
TakeUnlocked(a) ==
    /\ TaskStep(a, "take", [archivers[a] EXCEPT !.at = "check", !.daa = daa, !.snapshot = db])
    /\ UNCHANGED <<phase, folder, inodes>>

\* The archive is named, and take_snapshots fixes one instant for all partitions,
\* between two commits.
TakeSnapshots(a) ==
    /\ writing = 0
    /\ TaskStep(a, "take", [archivers[a] EXCEPT !.at = "check", !.daa = daa, !.snapshot = db])
    /\ UNCHANGED <<phase, folder, inodes>>

\* context_from_snapshots refuses a file that exists; without the folder there is none.
CheckArchive(a) ==
    /\ LET exists == folder # None /\ folder[archivers[a].daa] # None
       IN  TaskStep(a, "check", [archivers[a] EXCEPT !.at = IF exists THEN "failed" ELSE "create"])
    /\ UNCHANGED <<phase, folder, inodes>>

\* File::create truncates a file that came up meanwhile.
CreateArchive(a) ==
    /\ folder # None
    /\ LET d == archivers[a].daa
           i == IF folder[d] = None THEN Len(inodes) + 1 ELSE folder[d]
       IN  /\ TaskStep(a, "create", [archivers[a] EXCEPT !.at = "write", !.inode = i])
           /\ folder' = [folder EXCEPT ![d] = i]
           /\ inodes' = IF folder[d] = None THEN Append(inodes, File(None, <<>>))
                        ELSE [inodes EXCEPT ![i] = File(None, <<>>)]
    /\ UNCHANGED phase

\* The chunk of the k-th partition of a snapshot.
Chunk(snapshot, k) == <<k, snapshot[Table[k]]>>
Chunks(snapshot) == [k \in 1..Len(Table) |-> Chunk(snapshot, k)]

\* A slip: a chunk is appended, wherever the task had got to.
WriteAtLengthens(body, k, chunk) == Append(body, chunk)

\* Each task writes at its own offset, whoever else writes the file; a gap reads as zeros.
WriteAt(body, k, chunk) ==
    [j \in 1..IF k > Len(body) THEN k ELSE Len(body) |->
        IF j = k THEN chunk ELSE IF j <= Len(body) THEN body[j] ELSE None]

WriteChunk(a) ==
    /\ archivers[a].written < Len(Table)
    /\ LET k == archivers[a].written + 1
       IN  /\ TaskStep(a, "write", [archivers[a] EXCEPT !.written = k])
           /\ inodes' = [inodes EXCEPT ![archivers[a].inode].body =
                            WriteAt(@, k, Chunk(archivers[a].snapshot, k))]
    /\ UNCHANGED <<phase, folder>>

\* The header comes last.
WriteHeader(a) ==
    /\ archivers[a].written = Len(Table)
    /\ TaskStep(a, "write", [Task("ready") EXCEPT !.daa = archivers[a].daa])
    /\ inodes' = [inodes EXCEPT ![archivers[a].inode].header = Chunks(archivers[a].snapshot)]
    /\ UNCHANGED <<phase, folder>>

\* Without the folder the file cannot be created, and there may be other errors.
ArchiveError(a) ==
    /\ archivers[a].at \in {"create", "write"}
    /\ archivers' = [archivers EXCEPT ![a] = [Task("failed") EXCEPT !.daa = archivers[a].daa]]
    /\ IF archivers[a].at = "create" /\ folder = None THEN UNCHANGED upsets
       ELSE upsets < MaxUpsets /\ upsets' = upsets + 1
    /\ UNCHANGED <<dbVars, phase, folder, inodes, handler, clientVars>>

\* A slip: a failed archive leaves the phase at Archiving.
FailSilently(a) ==
    /\ TaskStep(a, "failed", Task("done"))
    /\ UNCHANGED <<phase, folder, inodes>>

\* A failed archive resets the phase, and then becomes Ready like any other.
Fail(a) ==
    /\ TaskStep(a, "failed", [archivers[a] EXCEPT !.at = "ready"])
    /\ phase' = Phase("None")
    /\ UNCHANGED <<folder, inodes>>

SetReady(a) ==
    /\ TaskStep(a, "ready", Task("done"))
    /\ phase' = Ready(archivers[a].daa)
    /\ UNCHANGED <<folder, inodes>>

Archive(a) ==
    \/ TakeSnapshots(a) \/ CheckArchive(a) \/ CreateArchive(a) \/ WriteChunk(a)
    \/ WriteHeader(a) \/ ArchiveError(a) \/ Fail(a) \/ SetReady(a)
-----------------------------------------------------------------------------
(* The HTTP handlers.  Requests of others than the receiver come at any     *)
(* time; the receiver waits for its answer.  Syncer::is_synced changes at   *)
(* its own pace: where it is read, both values are possible.                *)

Asks(r, request) == handler[r] = "idle" /\ (r = Receiver => client = request)
Answer(r, state) == client' = IF r = Receiver /\ client = "waiting" THEN state ELSE client
Waits(r) == client' = IF r = Receiver THEN "waiting" ELSE client

HandlerStep(r, from, to) ==
    /\ handler[r] = from /\ handler' = [handler EXCEPT ![r] = to]
    /\ UNCHANGED <<dbVars, wanted, stream, copy, inserted, restored, syncs, restores>>

\* snapshot_generate and generate: the phase is checked ...
GenerateRefused(r) ==
    /\ Asks(r, "generate")
    /\ HandlerStep(r, "idle", "idle")
    /\ client' = IF r = Receiver THEN "idle" ELSE client
    /\ UNCHANGED <<serverVars, upsets>>

GenerateRequest(r) ==
    /\ Asks(r, "generate")
    /\ r = Receiver \/ Len(archivers) < MaxArchives
    /\ HandlerStep(r, "idle", IF phase = Phase("None") THEN "generate" ELSE "idle")
    /\ client' = IF r # Receiver THEN client ELSE IF phase = Phase("None") THEN "waiting" ELSE "poll"
    /\ UNCHANGED <<serverVars, upsets>>

\* ... and then set, and the archiving task spawned.
SetArchiving(r) ==
    /\ HandlerStep(r, "generate", "idle") /\ Answer(r, "poll")
    /\ phase' = Phase("Archiving") /\ archivers' = Append(archivers, Task("take"))
    /\ UNCHANGED <<folder, inodes, upsets>>

\* reset, which does not look whether a task is archiving,
ResetRequest(r) ==
    /\ Asks(r, "reset") /\ (r = Receiver \/ upsets < MaxUpsets)
    /\ HandlerStep(r, "idle", "remove")
    /\ phase' = Phase("None") /\ upsets' = IF r = Receiver THEN upsets ELSE upsets + 1
    /\ Waits(r) /\ UNCHANGED <<folder, inodes, archivers>>

\* removes the folder, an error when another reset has done so,
RemoveFolder(r) ==
    /\ HandlerStep(r, "remove", IF folder = None THEN "idle" ELSE "restore")
    /\ IF folder = None THEN Answer(r, "idle") ELSE UNCHANGED client
    /\ folder' = None
    /\ UNCHANGED <<phase, inodes, archivers, upsets>>

\* and creates it again.
CreateFolder(r) ==
    /\ HandlerStep(r, "restore", "idle") /\ Answer(r, "phase")
    /\ folder' = IF folder = None THEN [d \in 0..MaxDaa |-> None] ELSE folder
    /\ UNCHANGED <<phase, inodes, archivers, upsets>>

\* snapshot_download: the archive must be the Ready one, and its file must open.
DownloadRequest(r) ==
    /\ r = Receiver /\ Asks(r, "download")
    /\ HandlerStep(r, "idle", IF phase = Ready(wanted) THEN "open" ELSE "idle")
    /\ client' = IF phase = Ready(wanted) THEN "waiting" ELSE "idle"
    /\ UNCHANGED <<serverVars, upsets>>

OpenArchive(r) ==
    /\ handler[r] = "open" /\ handler' = [handler EXCEPT ![r] = "idle"]
    /\ LET i == IF folder = None THEN None ELSE folder[wanted]
       IN  IF i = None \/ client # "waiting" THEN Answer(r, "idle") /\ UNCHANGED <<stream, copy>>
           ELSE /\ Answer(r, "stream")
                /\ stream' = [inode |-> i, length |-> Len(inodes[i].body)]
                /\ copy' = File(inodes[i].header, <<>>)
    /\ UNCHANGED <<dbVars, serverVars, wanted, inserted, restored, syncs, restores, upsets>>

Handler(r) ==
    \/ GenerateRefused(r) \/ GenerateRequest(r) \/ SetArchiving(r)
    \/ ResetRequest(r) \/ RemoveFolder(r) \/ CreateFolder(r)
    \/ DownloadRequest(r) \/ OpenArchive(r)

\* The server stops and starts again: the files stay, the phase does not.  A
\* commit that had begun is in the journal.
Restart ==
    /\ upsets < MaxUpsets
    /\ upsets' = upsets + 1
    /\ db' = [p \in PartitionSet |-> db[Partitions[1]]] /\ writing' = 0
    /\ phase' = Phase("None") /\ archivers' = <<>>
    /\ handler' = [r \in Requesters |-> "idle"]
    /\ client' = IF client \in {"waiting", "stream"} THEN "idle" ELSE client
    /\ UNCHANGED <<daa, folder, inodes, wanted, stream, copy, inserted, restored,
                   syncs, restores>>
-----------------------------------------------------------------------------
(* The receiver and the restore.                                            *)

ClientStep(from, to) ==
    /\ client = from /\ client' = to
    /\ UNCHANGED <<dbVars, serverVars, handler, upsets>>

\* krc721d --sync refuses to run beside a database.
StartSync ==
    /\ restored = None /\ syncs < MaxSyncs
    /\ ClientStep("idle", "status")
    /\ syncs' = syncs + 1
    /\ UNCHANGED <<wanted, stream, copy, inserted, restored, restores>>

\* krc721d --restore with an archive downloaded before.
StartRestore ==
    /\ copy # None /\ restores < MaxRestores
    /\ ClientStep("idle", "restore")
    /\ restores' = restores + 1
    /\ UNCHANGED <<wanted, stream, copy, inserted, restored, syncs>>

\* ensure_available: an archive more than twelve hours old is reset.
Outdated(score) == (IF daa > TimeoutDaa THEN daa - TimeoutDaa ELSE 0) > score

EnsureAvailable ==
    /\ \E synced \in BOOLEAN :
        ClientStep("status", CASE ~ synced \/ phase.name = "Archiving" -> "idle"
                               [] synced /\ phase.name = "None" -> "generate"
                               [] synced /\ phase.name = "Ready" ->
                                      IF Outdated(phase.daa) THEN "reset" ELSE "download")
    /\ wanted' = phase.daa
    /\ UNCHANGED <<stream, copy, inserted, restored, syncs, restores>>

\* After the reset the phase must be None.
PhaseAfterReset ==
    /\ ClientStep("phase", IF phase.name = "None" THEN "generate" ELSE "idle")
    /\ UNCHANGED <<wanted, stream, copy, inserted, restored, syncs, restores>>

\* After generate the phase is polled while it is Archiving.
Poll ==
    /\ phase.name # "Archiving"
    /\ ClientStep("poll", IF phase.name = "Ready" THEN "download" ELSE "idle")
    /\ wanted' = phase.daa
    /\ UNCHANGED <<stream, copy, inserted, restored, syncs, restores>>

\* The body is read from the open file; it must be as long as it was when it was
\* opened.
ReadBody ==
    /\ client = "stream" /\ Len(copy.body) < stream.length
    /\ LET k == Len(copy.body) + 1
           body == inodes[stream.inode].body
       IN  IF k > Len(body) THEN ClientStep("stream", "idle") /\ UNCHANGED copy
           ELSE ClientStep("stream", "stream") /\ copy' = [copy EXCEPT !.body = Append(@, body[k])]
    /\ UNCHANGED <<wanted, stream, inserted, restored, syncs, restores>>

FinishDownload ==
    /\ ClientStep("stream", "restore")
    /\ Len(copy.body) = stream.length
    /\ wanted' = None /\ stream' = None
    /\ UNCHANGED <<copy, inserted, restored, syncs, restores>>

\* restore: no database, and a header with the magic.
RestoreBegins ==
    /\ ClientStep("restore", "insert")
    /\ restored = None /\ copy.header # None
    /\ restored' = [p \in PartitionSet |-> None] /\ inserted' = 0
    /\ UNCHANGED <<wanted, stream, copy, syncs, restores>>

RestoreRefused ==
    /\ ClientStep("restore", "idle")
    /\ restored # None \/ copy.header = None
    /\ UNCHANGED <<wanted, stream, copy, inserted, restored, syncs, restores>>

\* The chunks are inserted as they are read; one that is not there is an error.
InsertChunk ==
    /\ client = "insert" /\ inserted < Len(copy.header)
    /\ LET k == inserted + 1
       IN  IF k > Len(copy.body) \/ (k <= Len(copy.body) /\ copy.body[k] = None)
           THEN ClientStep("insert", "idle") /\ UNCHANGED <<restored, inserted>>
           ELSE /\ ClientStep("insert", "insert")
                /\ restored' = [restored EXCEPT ![Table[copy.body[k][1]]] = copy.body[k][2]]
                /\ inserted' = k
    /\ UNCHANGED <<wanted, stream, copy, syncs, restores>>

\* The hash is compared when everything is inserted; on a mismatch the database stays.
VerifyHash ==
    /\ client = "insert" /\ inserted = Len(copy.header)
    /\ ClientStep("insert", IF SubSeq(copy.body, 1, inserted) = copy.header THEN "restored" ELSE "idle")
    /\ UNCHANGED <<wanted, stream, copy, inserted, restored, syncs, restores>>

\* krc721d --purge
Purge ==
    /\ restored # None /\ client \in {"idle", "restored"}
    /\ ClientStep(client, "idle")
    /\ restored' = None
    /\ UNCHANGED <<wanted, stream, copy, inserted, syncs, restores>>

\* The receiving process is stopped in the middle of a restore.
Interrupt ==
    /\ ClientStep("insert", "idle")
    /\ UNCHANGED <<wanted, stream, copy, inserted, restored, syncs, restores>>

Receive ==
    \/ EnsureAvailable \/ PhaseAfterReset \/ Poll \/ ReadBody \/ FinishDownload
    \/ RestoreBegins \/ RestoreRefused \/ InsertChunk \/ VerifyHash
-----------------------------------------------------------------------------
Server ==
    \/ WriteCommit \/ AdvanceDaa \/ Restart
    \/ \E a \in DOMAIN archivers : Archive(a)
    \/ \E r \in Requesters : Handler(r)

\* A bound: the server rests while nobody can notice what it does.  Before the
\* first request of the receiver ("status") it may come any distance.
Observed == client \in {"status", "reset", "phase", "generate", "poll", "download", "waiting", "stream"}

Next ==
    \/ Observed /\ Server
    \/ StartSync \/ StartRestore \/ Purge \/ Interrupt \/ Receive

Spec == Init /\ [][Next]_vars

\* Tasks, handlers and the receiver are scheduled, and a commit that has begun
\* ends; users, commits, restarts and errors owe nothing.
Fairness ==
    /\ WF_vars(Observed /\ writing > 0 /\ WriteCommit)
    /\ WF_vars(Observed /\ \E a \in DOMAIN archivers : Archive(a))
    /\ WF_vars(Observed /\ Handler(Receiver)) /\ WF_vars(Receive)

FairSpec == Spec /\ Fairness
-----------------------------------------------------------------------------
\* Types of the generator, the files and the receiver.
TypeOK ==
    /\ db \in [PartitionSet -> 0..MaxCommits] /\ writing \in 0..Len(Partitions) /\ daa \in 0..MaxDaa
    /\ phase \in {Phase("None"), Phase("Archiving")} \cup {Ready(d) : d \in 0..MaxDaa}
    /\ folder # None => folder \in [0..MaxDaa -> {None} \cup 1..Len(inodes)]
    /\ \A i \in DOMAIN inodes : Len(inodes[i].body) <= Len(Table)
    /\ wanted \in {None} \cup 0..MaxDaa /\ inserted \in 0..Len(Table)
    /\ restored # None => restored \in [PartitionSet -> {None} \cup 0..MaxCommits]

\* A restore that ends without an error has rebuilt the database as it was
\* between two commits, all partitions at one instant, and nothing of the queue:
\* whatever commits, upsets and other archiving tasks did to the file
\* while it was written and served.
RestoreFaithful ==
    client = "restored" =>
        \E v \in 0..MaxCommits :
            restored = [p \in PartitionSet |-> IF p \in Skipped THEN None ELSE v]

\* A sync comes to an end, with a database or an error: the receiver does not
\* poll for ever, also when the archive fails or is reset under it.
SyncComesToEnd == client # "idle" ~> client \in {"idle", "restored"}
=============================================================================
