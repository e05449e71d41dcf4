----------------------------- MODULE ArchiveProofs -----------------------------
(***************************************************************************)
(* A restore that ends without an error has rebuilt one instant of the      *)
(* database, for every list of partitions, every number of clients and      *)
(* archiving tasks and whatever becomes of the files meanwhile.             *)
(***************************************************************************)
EXTENDS Archive, WellFoundedInduction, TLAPS

-----------------------------------------------------------------------------
(* Least and greatest numbers, which stand in for induction.                 *)

\* A nonempty set of natural numbers has a least element.
LEMMA LeastNat ==
    ASSUME NEW S \in SUBSET Nat, S # {}
    PROVE  \E n \in S : \A m \in S : n <= m
<1> DEFINE Below == OpToRel(<, Nat)
<1>1. IsWellFoundedOn(Below, Nat)
  BY NatLessThanWellFounded
<1>2. \E n \in S : \A m \in S : <<m, n>> \notin Below
  <2> HIDE DEF Below
  <2> QED BY <1>1, WFMin
<1>3. ASSUME NEW n \in S, NEW m \in S, <<m, n>> \notin Below
      PROVE  n <= m
  BY <1>3 DEF OpToRel
<1> QED BY <1>2, <1>3

\* A set that holds 0 and the successor of each of its natural numbers holds them all.
LEMMA SetInduction ==
    ASSUME NEW S, 0 \in S, \A n \in Nat : n \in S => n + 1 \in S
    PROVE  Nat \subseteq S
<1> SUFFICES ASSUME Nat \ S # {} PROVE FALSE
  OBVIOUS
<1>1. PICK n \in Nat \ S : \A m \in Nat \ S : n <= m
  BY LeastNat
<1>2. n # 0 /\ n - 1 \in Nat
  OBVIOUS
<1>3. n - 1 \in S
  BY <1>1, <1>2
<1> QED BY <1>2, <1>3

-----------------------------------------------------------------------------
(* The invariant.                                                           *)

\* What take_snapshots can see: all partitions after the same commit.
Instants == {[p \in PartitionSet |-> v] : v \in 0..MaxCommits}

\* A commit that is going on has written some partitions, in their order.
Database ==
    /\ writing \in 0..(Len(Partitions) - 1) /\ daa \in 0..MaxDaa
    /\ \E v \in 0..MaxCommits :
          /\ writing > 0 => v < MaxCommits
          /\ db = [p \in PartitionSet |->
                      IF \E i \in 1..writing : Partitions[i] = p THEN v + 1 ELSE v]

\* A header speaks of one instant; the body may mix the chunks of several, each in
\* its place, and have gaps.
Headers == {None} \cup {Chunks(s) : s \in Instants}
Cells == {None} \cup {Chunk(s, k) : s \in Instants, k \in 1..Len(Table)}
Bodies == {b \in Seq(Cells) :
              /\ Len(b) <= Len(Table)
              /\ \A j \in 1..Len(b) : b[j] = None \/ \E s \in Instants : b[j] = Chunk(s, j)}
Files == [header : Headers, body : Bodies]

Disk ==
    /\ inodes \in Seq(Files)
    /\ folder # None => folder \in [0..MaxDaa -> {None} \cup 1..Len(inodes)]

TaskSet == [at : {"take", "check", "create", "write", "ready", "failed", "done"},
            daa : {None} \cup 0..MaxDaa, snapshot : {None} \cup Instants,
            inode : {None} \cup Nat, written : 0..Len(Table)]

\* What a task has by the time it needs it, with n files there.
Prepared(t, n) ==
    /\ t.at \in {"check", "create", "write", "ready", "failed"} => t.daa \in 0..MaxDaa
    /\ t.at \in {"check", "create", "write"} => t.snapshot \in Instants
    /\ t.at = "write" => t.inode \in 1..n

Tasks ==
    /\ archivers \in Seq(TaskSet)
    /\ \A a \in 1..Len(archivers) : Prepared(archivers[a], Len(inodes))

Phases == {Phase("None"), Phase("Archiving")} \cup {Ready(d) : d \in 0..MaxDaa}

\* Only the receiver downloads, and it waits while the file is opened.
Opening ==
    /\ phase \in Phases /\ wanted \in {None} \cup 0..MaxDaa
    /\ handler \in [Requesters -> {"idle", "generate", "remove", "restore", "open"}]
    /\ \A r \in Requesters : handler[r] = "open" =>
          r = Receiver /\ client = "waiting" /\ wanted \in 0..MaxDaa

Copied ==
    /\ client = "stream" => stream.inode \in 1..Len(inodes)
    /\ client \in {"stream", "restore"} => copy \in Files
    /\ copy = None \/ copy \in Files

\* The chunks inserted are those of the copy, each in its partition.
Restoring ==
    /\ inserted \in 0..Len(Table)
    /\ restored # None => restored \in [PartitionSet -> {None} \cup 0..MaxCommits]
    /\ client = "insert" =>
          /\ copy \in Files /\ copy.header # None
          /\ restored \in [PartitionSet -> {None} \cup 0..MaxCommits]
          /\ inserted <= Len(copy.body)
          /\ \A k \in 1..inserted : copy.body[k] = <<k, restored[Table[k]]>>
          /\ \A p \in PartitionSet :
                (\A k \in 1..inserted : Table[k] # p) => restored[p] = None

ArchiveInv ==
    Database /\ Disk /\ Tasks /\ Opening /\ Copied /\ Restoring /\ RestoreFaithful
-----------------------------------------------------------------------------
(* The partition table.                                                     *)

LEMMA PartitionsAre ==
    /\ Partitions \in Seq(PartitionSet) /\ Len(Partitions) \in Nat /\ Len(Partitions) > 0
    /\ \A i \in 1..Len(Partitions) : Partitions[i] \in PartitionSet
    /\ \A p \in PartitionSet : \E i \in 1..Len(Partitions) : Partitions[i] = p
    /\ \A i, j \in 1..Len(Partitions) : Partitions[i] = Partitions[j] => i = j
<1>1. /\ Partitions \in Seq(PartitionSet)
      /\ \A i, j \in DOMAIN Partitions : Partitions[i] = Partitions[j] => i = j
      /\ \E p \in PartitionSet : p \notin Skipped
  BY ArchiveAssumption DEF PartitionSet, IsInjective
<1>2. Len(Partitions) \in Nat /\ DOMAIN Partitions = 1..Len(Partitions)
  BY <1>1
<1>3. /\ \A i \in 1..Len(Partitions) : Partitions[i] \in PartitionSet
      /\ \A p \in PartitionSet : \E i \in 1..Len(Partitions) : Partitions[i] = p
  BY <1>2 DEF PartitionSet, ToSet
<1>4. Len(Partitions) > 0
  BY <1>1, <1>2, <1>3
<1> QED BY <1>1, <1>2, <1>3, <1>4

(* The recursive definition has the function it describes. *)
LEMMA TableUpToIs ==
    /\ TableUpTo[0] = <<>>
    /\ \A n \in 1..Len(Partitions) :
          TableUpTo[n] = IF Partitions[n] \in Skipped THEN TableUpTo[n - 1]
                         ELSE Append(TableUpTo[n - 1], Partitions[n])
<1> DEFINE N == Len(Partitions)
           Body(g, n) == IF Partitions[n] \in Skipped THEN g[n - 1]
                         ELSE Append(g[n - 1], Partitions[n])
           Good(g, m) == g = [n \in 0..m |-> IF n = 0 THEN <<>> ELSE Body(g, n)]
           S == {m \in Nat : \E g : Good(g, m)}
<1>1. N \in Nat
  BY PartitionsAre
<1>2. 0 \in S
  <2>1. Good([n \in 0..0 |-> <<>>], 0)
    OBVIOUS
  <2> QED BY <2>1
<1>3. ASSUME NEW m \in Nat, m \in S PROVE m + 1 \in S
  <2>1. PICK g : Good(g, m)
    BY <1>3
  <2> DEFINE h == [n \in 0..(m + 1) |-> IF n = m + 1 THEN Body(g, n) ELSE g[n]]
  <2> HIDE DEF Body
  <2>2. /\ \A n \in 0..m : h[n] = g[n]
        /\ h[m + 1] = Body(g, m + 1)
    OBVIOUS
  <2>3. \A n \in 1..(m + 1) : n - 1 \in 0..m /\ h[n - 1] = g[n - 1]
    BY <2>2
  <2>4. \A n \in 1..m : g[n] = Body(g, n)
    BY <2>1
  <2>5. \A n \in 1..(m + 1) : h[n] = Body(g, n)
    BY <2>2, <2>4
  <2>6. \A n \in 1..(m + 1) : Body(h, n) = Body(g, n)
    BY <2>3 DEF Body
  <2>7. h[0] = <<>>
    BY <2>1, <2>2
  <2>8. \A n \in 0..(m + 1) : h[n] = IF n = 0 THEN <<>> ELSE Body(h, n)
    <3>1. \A n \in 0..(m + 1) : n = 0 \/ n \in 1..(m + 1)
      BY <1>3
    <3> HIDE DEF h
    <3> QED BY <2>5, <2>6, <2>7, <3>1
  <2>9. h = [n \in 0..(m + 1) |-> h[n]]
    OBVIOUS
  <2> HIDE DEF h
  <2>10. Good(h, m + 1)
    BY <2>8, <2>9
  <2> QED BY <2>10
<1>4. PICK g : Good(g, N)
  <2> HIDE DEF Good
  <2>1. Nat \subseteq S
    <3> HIDE DEF S
    <3> QED BY <1>2, <1>3, SetInduction
  <2> QED BY <1>1, <2>1
<1>5. TableUpTo = [n \in 0..N |-> IF n = 0 THEN <<>> ELSE Body(TableUpTo, n)]
  <2>1. TableUpTo = CHOOSE f : Good(f, N)
    BY DEF TableUpTo
  <2> HIDE DEF Good
  <2>2. Good(TableUpTo, N)
    BY <1>4, <2>1
  <2> QED BY <2>2 DEF Good
<1>6. 0 \in 0..N /\ \A n \in 1..N : n \in 0..N /\ n # 0
  BY <1>1
<1>7. TableUpTo[0] = <<>>
  BY <1>5, <1>6
<1>8. ASSUME NEW n \in 1..N PROVE TableUpTo[n] = Body(TableUpTo, n)
  <2> HIDE DEF Body
  <2> QED BY <1>5, <1>6
<1> QED BY <1>7, <1>8

(* It lists the partitions that are not skipped, each once.                  *)
LEMMA TableIs ==
    /\ Table \in Seq(PartitionSet) /\ Len(Table) \in Nat
    /\ \A k \in 1..Len(Table) : Table[k] \in PartitionSet \ Skipped
    /\ \A p \in PartitionSet \ Skipped : \E k \in 1..Len(Table) : Table[k] = p
    /\ \A j, k \in 1..Len(Table) : Table[j] = Table[k] => j = k
<1> DEFINE N == Len(Partitions)
           Lists(t, n) ==
              /\ t \in Seq(PartitionSet)
              /\ \A k \in 1..Len(t) : \E i \in 1..n : t[k] = Partitions[i] /\ t[k] \notin Skipped
              /\ \A i \in 1..n : Partitions[i] \in Skipped \/ \E k \in 1..Len(t) : t[k] = Partitions[i]
              /\ \A j, k \in 1..Len(t) : t[j] = t[k] => j = k
           S == {n \in Nat : n <= N => Lists(TableUpTo[n], n)}
<1>1. N \in Nat
  BY PartitionsAre
<1>2. 0 \in S
  <2>1. <<>> \in Seq(PartitionSet) /\ Len(<<>>) = 0
    OBVIOUS
  <2>2. Lists(<<>>, 0)
    BY <2>1
  <2> HIDE DEF Lists
  <2> QED BY <2>2, TableUpToIs
<1>3. ASSUME NEW n \in Nat, n \in S PROVE n + 1 \in S
  <2> SUFFICES ASSUME n + 1 <= N PROVE Lists(TableUpTo[n + 1], n + 1)
    <3> HIDE DEF Lists, N
    <3> QED OBVIOUS
  <2> DEFINE t == TableUpTo[n]
             p == Partitions[n + 1]
  <2>1. Lists(t, n) /\ n + 1 \in 1..N /\ (n + 1) - 1 = n
    BY <1>1, <1>3
  <2>2. p \in PartitionSet /\ \A i \in 1..n : Partitions[i] # p
    <3>1. \A i \in 1..n : i \in 1..N /\ i # n + 1
      BY <1>1, <2>1
    <3> QED BY <2>1, <3>1, PartitionsAre
  <2>3. TableUpTo[n + 1] = IF p \in Skipped THEN t ELSE Append(t, p)
    BY <2>1, TableUpToIs
  <2> HIDE DEF t, p
  <2>4. Partitions[n + 1] = p /\ \A i \in 1..(n + 1) : i \in 1..n \/ i = n + 1
    BY DEF p
  <2>5. CASE p \in Skipped
    BY <2>1, <2>3, <2>4, <2>5
  <2>6. CASE p \notin Skipped
    <3> DEFINE u == Append(t, p)
    <3>1. Len(t) \in Nat /\ t \in Seq(PartitionSet)
      BY <2>1
    <3>2. u \in Seq(PartitionSet) /\ Len(u) = Len(t) + 1 /\ u[Len(t) + 1] = p
      BY <2>2, <3>1
    <3>3. \A k \in 1..Len(t) : u[k] = t[k]
      BY <2>2, <3>1
    <3> HIDE DEF u
    <3>4. \A k \in 1..Len(u) : k \in 1..Len(t) \/ k = Len(u)
      BY <3>1, <3>2
    <3>5. \A k \in 1..Len(t) : t[k] # p
      BY <2>1, <2>2
    <3>6. ASSUME NEW k \in 1..Len(u)
          PROVE  \E i \in 1..(n + 1) : u[k] = Partitions[i] /\ u[k] \notin Skipped
      <4>1. CASE k = Len(u)
        <5>1. n + 1 \in 1..(n + 1)
          OBVIOUS
        <5> QED BY <2>4, <2>6, <3>1, <3>2, <4>1, <5>1
      <4>2. CASE k \in 1..Len(t)
        <5>1. PICK i \in 1..n : t[k] = Partitions[i] /\ t[k] \notin Skipped
          BY <2>1, <4>2
        <5>2. i \in 1..(n + 1)
          OBVIOUS
        <5> QED BY <3>3, <4>2, <5>1, <5>2
      <4> QED BY <3>4, <4>1, <4>2
    <3>7. ASSUME NEW i \in 1..(n + 1)
          PROVE  Partitions[i] \in Skipped \/ \E k \in 1..Len(u) : u[k] = Partitions[i]
      <4>1. CASE i = n + 1
        BY <2>4, <3>1, <3>2, <4>1
      <4>2. CASE i \in 1..n
        <5>1. Partitions[i] \in Skipped \/ \E k \in 1..Len(t) : t[k] = Partitions[i]
          BY <2>1, <4>2
        <5> QED BY <3>1, <3>2, <3>3, <5>1
      <4> QED BY <2>4, <4>1, <4>2
    <3>8. ASSUME NEW j \in 1..Len(u), NEW k \in 1..Len(u), u[j] = u[k] PROVE j = k
      BY <2>1, <3>1, <3>2, <3>3, <3>4, <3>5, <3>8
    <3>9. Lists(u, n + 1)
      BY <3>2, <3>6, <3>7, <3>8
    <3> QED BY <2>3, <2>6, <3>9 DEF u
  <2> QED BY <2>5, <2>6
<1>4. Lists(Table, N)
  <2>1. Nat \subseteq S
    <3> HIDE DEF S
    <3> QED BY <1>2, <1>3, SetInduction
  <2> QED BY <1>1, <2>1 DEF Table
<1> HIDE DEF N
<1>5. Table \in Seq(PartitionSet) /\ Len(Table) \in Nat
  BY <1>4
<1>6. \A k \in 1..Len(Table) : Table[k] \in PartitionSet \ Skipped
  BY <1>4
<1>7. ASSUME NEW p \in PartitionSet \ Skipped PROVE \E k \in 1..Len(Table) : Table[k] = p
  <2>1. PICK i \in 1..N : Partitions[i] = p
    BY PartitionsAre DEF N
  <2>2. Partitions[i] \in Skipped \/ \E k \in 1..Len(Table) : Table[k] = Partitions[i]
    BY <1>4
  <2> QED BY <2>1, <2>2
<1> QED BY <1>4, <1>5, <1>6, <1>7

-----------------------------------------------------------------------------
(* What the parts of the system leave alone.                                *)

LEMMA ArchiveFrame ==
    ASSUME NEW a, Archive(a)
    PROVE  UNCHANGED <<dbVars, handler, clientVars>>
BY DEF Archive, TakeSnapshots, CheckArchive, CreateArchive, WriteChunk, WriteHeader,
       ArchiveError, Fail, SetReady, TaskStep

LEMMA HandlerFrame ==
    ASSUME NEW r, Handler(r)
    PROVE  UNCHANGED <<dbVars, inodes, wanted, inserted, restored, syncs, restores>>
BY DEF Handler, GenerateRefused, GenerateRequest, SetArchiving, ResetRequest, RemoveFolder,
       CreateFolder, DownloadRequest, OpenArchive, HandlerStep, serverVars

Client == StartSync \/ StartRestore \/ Purge \/ Interrupt \/ Receive

LEMMA ClientFrame ==
    ASSUME Client
    PROVE  UNCHANGED <<dbVars, serverVars, handler, upsets>>
BY DEF Client, StartSync, StartRestore, Purge, Interrupt, Receive, EnsureAvailable,
       PhaseAfterReset, Poll, ReadBody, FinishDownload, RestoreBegins, RestoreRefused,
       InsertChunk, VerifyHash, ClientStep

LEMMA NextCases ==
    ASSUME [Next]_vars
    PROVE  \/ WriteCommit \/ AdvanceDaa \/ Restart
           \/ \E a \in 1..Len(archivers) : Archive(a)
           \/ \E r \in Requesters : Handler(r)
           \/ Client
           \/ UNCHANGED vars
BY DEF Next, Server, Client
-----------------------------------------------------------------------------
(* Each part of the invariant is kept.                                      *)

LEMMA Wrap ==
    ASSUME NEW n \in Nat, NEW w \in 0..(n - 1)
    PROVE  /\ w + 1 < n => (w + 1) % n = w + 1
           /\ w + 1 = n => (w + 1) % n = 0
OBVIOUS

LEMMA DatabaseTypes ==
    ASSUME Database
    PROVE  db \in [PartitionSet -> 0..MaxCommits]
<1>1. MaxCommits \in Nat /\ writing \in Nat
  BY ArchiveAssumption, PartitionsAre DEF Database
<1>2. PICK v \in 0..MaxCommits :
         /\ writing > 0 => v < MaxCommits
         /\ db = [p \in PartitionSet |->
                     IF \E i \in 1..writing : Partitions[i] = p THEN v + 1 ELSE v]
  BY DEF Database
<1>3. (\E i \in 1..writing : TRUE) => v + 1 \in 0..MaxCommits
  BY <1>1, <1>2
<1> QED BY <1>2, <1>3

LEMMA DatabaseStep == ArchiveInv /\ [Next]_vars => Database'
<1> SUFFICES ASSUME ArchiveInv, [Next]_vars PROVE Database'
  OBVIOUS
<1>1. Database /\ MaxDaa \in Nat /\ MaxCommits \in Nat
  BY ArchiveAssumption DEF ArchiveInv
<1>2. CASE UNCHANGED dbVars
  BY <1>1, <1>2 DEF Database, dbVars
<1>3. CASE AdvanceDaa
  <2>1. daa' \in 0..MaxDaa /\ UNCHANGED <<db, writing>>
    BY <1>1, <1>3 DEF Database, AdvanceDaa
  <2> QED BY <1>1, <2>1 DEF Database
<1>4. CASE WriteCommit
  <2> DEFINE n == Len(Partitions)
             Upto(w, v) == [p \in PartitionSet |->
                               IF \E i \in 1..w : Partitions[i] = p THEN v + 1 ELSE v]
  <2>1. n \in Nat /\ n > 0 /\ writing \in 0..(n - 1) /\ daa' = daa /\ daa \in 0..MaxDaa
    BY <1>1, <1>4, PartitionsAre DEF Database, WriteCommit
  <2>2. PICK v \in 0..MaxCommits : (writing > 0 => v < MaxCommits) /\ db = Upto(writing, v)
    BY <1>1 DEF Database
  <2>3. v < MaxCommits
    <3> SUFFICES ASSUME writing = 0 PROVE v < MaxCommits
      BY <2>1, <2>2
    <3>1. db[Partitions[1]] < MaxCommits
      BY <1>4 DEF WriteCommit
    <3>2. Partitions[1] \in PartitionSet /\ \A i \in 1..0 : FALSE
      BY <2>1, PartitionsAre
    <3>3. db[Partitions[1]] = v
      BY <2>2, <3>2
    <3> QED BY <3>1, <3>3
  <2>4. db' = [db EXCEPT ![Partitions[writing + 1]] = @ + 1] /\ writing' = (writing + 1) % n
    BY <1>4 DEF WriteCommit
  <2> DEFINE q == Partitions[writing + 1]
  <2>5. q \in PartitionSet /\ writing + 1 \in 1..n /\ \A i \in 1..writing : Partitions[i] # q
    BY <2>1, PartitionsAre
  <2>6. \A i \in 1..(writing + 1) : i \in 1..writing \/ i = writing + 1
    BY <2>1
  <2>7. ASSUME NEW p \in PartitionSet
        PROVE  db'[p] = IF \E i \in 1..(writing + 1) : Partitions[i] = p THEN v + 1 ELSE v
    <3>1. CASE p = q
      <4>1. db[p] = v
        BY <2>2, <2>5, <3>1
      <4>2. db'[p] = v + 1
        BY <2>2, <2>4, <3>1, <4>1
      <4>3. writing + 1 \in 1..(writing + 1)
        BY <2>1
      <4> QED BY <3>1, <4>2, <4>3
    <3>2. CASE p # q
      <4>1. db'[p] = db[p]
        BY <2>2, <2>4, <3>2
      <4>2. \A i \in 1..writing : i \in 1..(writing + 1)
        BY <2>1
      <4> QED BY <2>2, <2>6, <3>2, <4>1, <4>2
    <3> QED BY <3>1, <3>2
  <2>8. db' = Upto(writing + 1, v)
    <3>1. db' = [p \in PartitionSet |-> db'[p]]
      BY <2>2, <2>4
    <3> QED BY <2>7, <3>1
  <2>9. CASE writing + 1 < n
    <3>1. writing' = writing + 1
      BY <2>1, <2>4, <2>9, Wrap
    <3> QED BY <2>1, <2>3, <2>8, <2>9, <3>1 DEF Database
  <2>10. CASE writing + 1 = n
    <3>1. writing' = 0
      BY <2>1, <2>4, <2>10, Wrap
    <3>2. \A p \in PartitionSet : \E i \in 1..(writing + 1) : Partitions[i] = p
      BY <2>10, PartitionsAre
    <3>3. Upto(writing + 1, v) = [p \in PartitionSet |-> v + 1]
      BY <3>2
    <3>4. Upto(0, v + 1) = [p \in PartitionSet |-> v + 1]
      OBVIOUS
    <3>5. db' = Upto(0, v + 1) /\ v + 1 \in 0..MaxCommits
      BY <1>1, <2>3, <2>8, <3>3, <3>4
    <3> QED BY <2>1, <3>1, <3>5 DEF Database
  <2> QED BY <2>1, <2>9, <2>10
<1>5. CASE Restart
  <2>1. db[Partitions[1]] \in 0..MaxCommits
    <3>1. Partitions[1] \in PartitionSet
      BY PartitionsAre
    <3>2. db \in [PartitionSet -> 0..MaxCommits]
      BY <1>1, DatabaseTypes
    <3> QED BY <3>1, <3>2
  <2> DEFINE v == db[Partitions[1]]
  <2>2. db' = [p \in PartitionSet |-> v] /\ writing' = 0 /\ daa' = daa
    BY <1>5 DEF Restart
  <2>3. db' = [p \in PartitionSet |-> IF \E i \in 1..0 : Partitions[i] = p THEN v + 1 ELSE v]
    BY <2>2
  <2> HIDE DEF v
  <2>4. v \in 0..MaxCommits /\ 0 \in 0..(Len(Partitions) - 1)
    BY <2>1, PartitionsAre DEF v
  <2>5. daa \in 0..MaxDaa
    BY <1>1 DEF Database
  <2>6. \E w \in 0..MaxCommits :
          /\ 0 > 0 => w < MaxCommits
          /\ db' = [p \in PartitionSet |-> IF \E i \in 1..0 : Partitions[i] = p THEN w + 1 ELSE w]
    BY <2>3, <2>4
  <2> QED BY <2>2, <2>4, <2>5, <2>6 DEF Database
<1> QED BY <1>2, <1>3, <1>4, <1>5, NextCases, ArchiveFrame, HandlerFrame, ClientFrame DEF vars

(* Between two commits all partitions are at one instant.                    *)
LEMMA DatabaseAtRest ==
    ASSUME Database, writing = 0
    PROVE  db \in Instants
<1>1. PICK v \in 0..MaxCommits :
         db = [p \in PartitionSet |-> IF \E i \in 1..0 : Partitions[i] = p THEN v + 1 ELSE v]
  BY DEF Database
<1>2. db = [p \in PartitionSet |-> v]
  BY <1>1
<1> QED BY <1>2 DEF Instants

LEMMA EmptyBody == <<>> \in Bodies
BY TableIs DEF Bodies

(* A chunk written at its own offset leaves every other chunk where it was.  *)
LEMMA WriteAtKeeps ==
    ASSUME NEW b \in Bodies, NEW k \in 1..Len(Table), NEW s \in Instants
    PROVE  WriteAt(b, k, Chunk(s, k)) \in Bodies
<1> DEFINE n == IF k > Len(b) THEN k ELSE Len(b)
           c == WriteAt(b, k, Chunk(s, k))
           OK(x, j) == x = None \/ \E i \in Instants : x = Chunk(i, j)
<1>1. Len(Table) \in Nat /\ b \in Seq(Cells) /\ Len(b) \in Nat /\ Len(b) <= Len(Table)
      /\ n \in Nat /\ n <= Len(Table)
  BY TableIs DEF Bodies
<1>2. \A j \in 1..Len(b) : OK(b[j], j) /\ b[j] \in Cells
  BY <1>1 DEF Bodies
<1>3. c = [j \in 1..n |-> IF j = k THEN Chunk(s, k) ELSE IF j <= Len(b) THEN b[j] ELSE None]
  BY DEF WriteAt
<1>4. ASSUME NEW j \in 1..n PROVE OK(c[j], j) /\ c[j] \in Cells
  <2>1. CASE j = k
    BY <1>3, <2>1 DEF Cells
  <2>2. CASE j # k /\ j <= Len(b)
    BY <1>1, <1>2, <1>3, <2>2
  <2>3. CASE j # k /\ j > Len(b)
    BY <1>1, <1>3, <2>3 DEF Cells
  <2> QED BY <1>1, <2>1, <2>2, <2>3
<1> HIDE DEF c, n, OK
<1>5. c \in Seq(Cells) /\ Len(c) = n
  BY <1>1, <1>3, <1>4
<1> QED BY <1>1, <1>4, <1>5 DEF Bodies, c, OK

(* So does a chunk that is downloaded.                                       *)
LEMMA DownloadKeeps ==
    ASSUME NEW b \in Bodies, NEW c \in Bodies, Len(b) + 1 <= Len(c)
    PROVE  Append(b, c[Len(b) + 1]) \in Bodies
<1> DEFINE k == Len(b) + 1
           d == Append(b, c[k])
<1>1. /\ b \in Seq(Cells) /\ Len(b) \in Nat /\ c \in Seq(Cells) /\ Len(c) \in Nat
      /\ Len(c) <= Len(Table) /\ Len(Table) \in Nat
  BY TableIs DEF Bodies
<1>2. k \in 1..Len(c) /\ c[k] \in Cells
  BY <1>1
<1>3. d \in Seq(Cells) /\ Len(d) = k /\ d[k] = c[k] /\ \A j \in 1..Len(b) : d[j] = b[j]
  BY <1>1, <1>2
<1>4. \A j \in 1..k : j = k \/ j \in 1..Len(b)
  BY <1>1
<1> HIDE DEF d
<1>5. \A j \in 1..k : d[j] = None \/ \E s \in Instants : d[j] = Chunk(s, j)
  BY <1>2, <1>3, <1>4 DEF Bodies
<1>6. k <= Len(Table)
  BY <1>1, <1>2
<1> QED BY <1>3, <1>5, <1>6 DEF Bodies, d

(* Files are never lost: an inode stays what it is called. *)
LEMMA DiskStep == ArchiveInv /\ [Next]_vars => Disk' /\ Len(inodes) <= Len(inodes')
<1> SUFFICES ASSUME ArchiveInv, [Next]_vars PROVE Disk' /\ Len(inodes) <= Len(inodes')
  OBVIOUS
<1>1. /\ Disk /\ Tasks /\ Len(inodes) \in Nat /\ inodes \in Seq(Files)
      /\ \A i \in 1..Len(inodes) : inodes[i] \in Files
  BY DEF ArchiveInv, Disk
<1>2. CASE UNCHANGED <<folder, inodes>>
  BY <1>1, <1>2 DEF Disk
<1>3. ASSUME NEW a \in 1..Len(archivers), CreateArchive(a)
      PROVE  Disk' /\ Len(inodes) <= Len(inodes')
  <2> DEFINE d == archivers[a].daa
             f == File(None, <<>>)
  <2>1. f \in Files
    BY EmptyBody DEF Files, Headers, File
  <2>2. folder \in [0..MaxDaa -> {None} \cup 1..Len(inodes)] /\ folder # None
    BY <1>1, <1>3 DEF CreateArchive, Disk
  <2>3. d \in 0..MaxDaa
    BY <1>1, <1>3 DEF CreateArchive, TaskStep, Tasks, Prepared
  <2>4. CASE folder[d] = None
    <3>1. inodes' = Append(inodes, f) /\ folder' = [folder EXCEPT ![d] = Len(inodes) + 1]
      BY <1>3, <2>4 DEF CreateArchive
    <3>2. inodes' \in Seq(Files) /\ Len(inodes') = Len(inodes) + 1
      BY <1>1, <2>1, <3>1
    <3>3. folder' \in [0..MaxDaa -> {None} \cup 1..Len(inodes')]
      BY <1>1, <2>2, <2>3, <3>1, <3>2
    <3> QED BY <1>1, <3>2, <3>3 DEF Disk
  <2>5. CASE folder[d] # None
    <3> DEFINE i == folder[d]
    <3>1. i \in 1..Len(inodes)
      BY <2>2, <2>3, <2>5
    <3>2. inodes' = [inodes EXCEPT ![i] = f] /\ folder' = [folder EXCEPT ![d] = i]
      BY <1>3, <2>5 DEF CreateArchive
    <3>3. inodes' \in Seq(Files) /\ Len(inodes') = Len(inodes)
      BY <1>1, <2>1, <3>1, <3>2
    <3>4. folder' \in [0..MaxDaa -> {None} \cup 1..Len(inodes')]
      BY <2>2, <2>3, <3>1, <3>2, <3>3
    <3> QED BY <1>1, <3>3, <3>4 DEF Disk
  <2> QED BY <2>4, <2>5
<1>4. ASSUME NEW i \in 1..Len(inodes), NEW f \in Files,
             inodes' = [inodes EXCEPT ![i] = f], UNCHANGED folder
      PROVE  Disk' /\ Len(inodes) <= Len(inodes')
  <2>1. inodes' \in Seq(Files) /\ Len(inodes') = Len(inodes)
    BY <1>1, <1>4
  <2> QED BY <1>1, <1>4, <2>1 DEF Disk
<1>5. ASSUME NEW a \in 1..Len(archivers), WriteChunk(a)
      PROVE  Disk' /\ Len(inodes) <= Len(inodes')
  <2> DEFINE t == archivers[a]
             k == t.written + 1
             b == WriteAt(inodes[t.inode].body, k, Chunk(t.snapshot, k))
  <2>1. /\ t \in TaskSet /\ t.inode \in 1..Len(inodes) /\ t.snapshot \in Instants
        /\ t.written < Len(Table)
    BY <1>1, <1>5 DEF WriteChunk, TaskStep, Tasks, Prepared
  <2>2. k \in 1..Len(Table)
    BY <2>1, TableIs DEF TaskSet
  <2>3. inodes[t.inode] \in Files /\ inodes[t.inode].body \in Bodies
    BY <1>1, <2>1 DEF Files
  <2>4. b \in Bodies
    BY <2>1, <2>2, <2>3, WriteAtKeeps
  <2>5. inodes' = [inodes EXCEPT ![t.inode].body = b] /\ UNCHANGED folder
    BY <1>5 DEF WriteChunk
  <2> HIDE DEF b
  <2> DEFINE f == [inodes[t.inode] EXCEPT !.body = b]
  <2>6. f \in Files
    BY <2>3, <2>4 DEF Files
  <2>7. inodes' = [inodes EXCEPT ![t.inode] = f]
    BY <2>5
  <2> HIDE DEF f
  <2> QED BY <1>4, <2>1, <2>5, <2>6, <2>7
<1>6. ASSUME NEW a \in 1..Len(archivers), WriteHeader(a)
      PROVE  Disk' /\ Len(inodes) <= Len(inodes')
  <2> DEFINE t == archivers[a]
             f == [inodes[t.inode] EXCEPT !.header = Chunks(t.snapshot)]
  <2>1. t.inode \in 1..Len(inodes) /\ t.snapshot \in Instants
    BY <1>1, <1>6 DEF WriteHeader, TaskStep, Tasks, Prepared
  <2>2. inodes[t.inode] \in Files /\ Chunks(t.snapshot) \in Headers
    BY <1>1, <2>1 DEF Headers
  <2>3. f \in Files
    BY <2>2 DEF Files
  <2>4. inodes' = [inodes EXCEPT ![t.inode] = f] /\ UNCHANGED folder
    BY <1>6 DEF WriteHeader
  <2> HIDE DEF f
  <2> QED BY <1>4, <2>1, <2>3, <2>4
<1>7. ASSUME NEW r \in Requesters, RemoveFolder(r) \/ CreateFolder(r)
      PROVE  Disk' /\ Len(inodes) <= Len(inodes')
  BY <1>1, <1>7 DEF RemoveFolder, CreateFolder, Disk
<1>8. ASSUME NEW a \in 1..Len(archivers), Archive(a)
      PROVE  Disk' /\ Len(inodes) <= Len(inodes')
  BY <1>2, <1>3, <1>5, <1>6, <1>8 DEF Archive, TakeSnapshots, CheckArchive, ArchiveError, Fail,
     SetReady
<1>9. ASSUME NEW r \in Requesters, Handler(r)
      PROVE  Disk' /\ Len(inodes) <= Len(inodes')
  BY <1>2, <1>7, <1>9 DEF Handler, GenerateRefused, GenerateRequest, SetArchiving, ResetRequest,
     DownloadRequest, OpenArchive, serverVars
<1>10. CASE WriteCommit \/ AdvanceDaa \/ Restart \/ Client
  BY <1>2, <1>10, ClientFrame DEF WriteCommit, AdvanceDaa, Restart, serverVars
<1> QED BY <1>2, <1>8, <1>9, <1>10, NextCases DEF vars, serverVars

LEMMA TaskWith ==
    ASSUME NEW t \in TaskSet
    PROVE  /\ \A i \in Nat : [t EXCEPT !.at = "write", !.inode = i] \in TaskSet
           /\ \A k \in 0..Len(Table) : [t EXCEPT !.written = k] \in TaskSet
BY DEF TaskSet

LEMMA TasksStep == ArchiveInv /\ [Next]_vars => Tasks'
<1> SUFFICES ASSUME ArchiveInv, [Next]_vars PROVE Tasks'
  OBVIOUS
<1>1. /\ archivers \in Seq(TaskSet) /\ Len(archivers) \in Nat
      /\ \A a \in 1..Len(archivers) : archivers[a] \in TaskSet /\ Prepared(archivers[a], Len(inodes))
      /\ daa \in 0..MaxDaa /\ Database /\ Disk /\ Len(Table) \in Nat
  <2>1. Tasks /\ Database /\ Disk
    BY DEF ArchiveInv
  <2>2. daa \in 0..MaxDaa
    BY <2>1 DEF Database
  <2> QED BY <2>1, <2>2, TableIs DEF Tasks
<1>2. Len(inodes) \in Nat /\ Len(inodes') \in Nat /\ Len(inodes) <= Len(inodes')
  BY DiskStep, <1>1 DEF Disk
<1>3. \A t : Prepared(t, Len(inodes)) => Prepared(t, Len(inodes'))
  BY <1>2 DEF Prepared
<1>4. CASE UNCHANGED archivers
  BY <1>1, <1>3, <1>4 DEF Tasks
<1>5. ASSUME NEW a \in 1..Len(archivers), NEW t \in TaskSet, Prepared(t, Len(inodes')),
             archivers' = [archivers EXCEPT ![a] = t]
      PROVE  Tasks'
  <2>1. archivers' \in Seq(TaskSet) /\ Len(archivers') = Len(archivers)
    BY <1>1, <1>5
  <2>2. ASSUME NEW b \in 1..Len(archivers) PROVE Prepared(archivers'[b], Len(inodes'))
    <3>1. CASE b = a
      BY <1>1, <1>5, <3>1
    <3>2. CASE b # a
      BY <1>1, <1>3, <1>5, <3>2
    <3> QED BY <3>1, <3>2
  <2> QED BY <2>1, <2>2 DEF Tasks
<1>6. ASSUME NEW a \in 1..Len(archivers), Archive(a) PROVE Tasks'
  <2> DEFINE t == archivers[a]
  <2>1. t \in TaskSet /\ Prepared(t, Len(inodes))
    BY <1>1
  <2>2. CASE TakeSnapshots(a)
    <3> DEFINE u == [t EXCEPT !.at = "check", !.daa = daa, !.snapshot = db]
    <3>1. db \in Instants
      BY <1>1, <2>2, DatabaseAtRest DEF TakeSnapshots
    <3>2. u \in TaskSet /\ Prepared(u, Len(inodes'))
      BY <1>1, <2>1, <3>1 DEF TaskSet, Prepared
    <3>3. archivers' = [archivers EXCEPT ![a] = u]
      BY <2>2 DEF TakeSnapshots, TaskStep
    <3> HIDE DEF u
    <3> QED BY <1>5, <3>2, <3>3
  <2>3. CASE CheckArchive(a)
    <3> DEFINE e == folder # None /\ folder[archivers[a].daa] # None
               u == [t EXCEPT !.at = IF e THEN "failed" ELSE "create"]
    <3>1. t.at = "check" /\ archivers' = [archivers EXCEPT ![a] = u]
      BY <2>3 DEF CheckArchive, TaskStep
    <3>2. u \in TaskSet /\ Prepared(u, Len(inodes'))
      BY <2>1, <3>1 DEF TaskSet, Prepared
    <3> HIDE DEF u
    <3> QED BY <1>5, <3>1, <3>2
  <2>4. CASE CreateArchive(a)
    <3> DEFINE i == IF folder[t.daa] = None THEN Len(inodes) + 1 ELSE folder[t.daa]
               u == [t EXCEPT !.at = "write", !.inode = i]
    <3>1. /\ t.at = "create" /\ archivers' = [archivers EXCEPT ![a] = u] /\ folder # None
          /\ folder' = [folder EXCEPT ![t.daa] = i]
          /\ folder[t.daa] = None => inodes' = Append(inodes, File(None, <<>>))
      BY <2>4 DEF CreateArchive, TaskStep
    <3>2. t.daa \in 0..MaxDaa
      BY <2>1, <3>1 DEF Prepared
    <3>3. folder[t.daa] = None => Len(inodes') = Len(inodes) + 1
      BY <1>1, <3>1 DEF Disk
    <3>4. folder[t.daa] \in {None} \cup 1..Len(inodes)
      BY <1>1, <3>1, <3>2 DEF Disk
    <3>5. i \in 1..Len(inodes')
      BY <1>2, <3>3, <3>4
    <3> HIDE DEF i
    <3>6. u \in TaskSet
      <4>1. i \in Nat
        BY <1>2, <3>5
      <4> QED BY <2>1, <4>1, TaskWith
    <3>7. u.at = "write" /\ u.inode = i /\ u.daa = t.daa /\ u.snapshot = t.snapshot
      BY <2>1 DEF TaskSet
    <3>8. Prepared(u, Len(inodes'))
      BY <2>1, <3>1, <3>2, <3>5, <3>7 DEF Prepared
    <3> HIDE DEF u
    <3> QED BY <1>5, <3>1, <3>6, <3>8
  <2>5. CASE WriteChunk(a)
    <3> DEFINE u == [t EXCEPT !.written = t.written + 1]
    <3>1. t.at = "write" /\ archivers' = [archivers EXCEPT ![a] = u] /\ t.written < Len(Table)
      BY <2>5 DEF WriteChunk, TaskStep
    <3>2. u \in TaskSet
      <4>1. t.written + 1 \in 0..Len(Table)
        BY <1>1, <2>1, <3>1 DEF TaskSet
      <4> QED BY <2>1, <4>1, TaskWith
    <3>3. u.at = t.at /\ u.inode = t.inode /\ u.daa = t.daa /\ u.snapshot = t.snapshot
      BY <2>1 DEF TaskSet
    <3>4. Prepared(u, Len(inodes'))
      BY <1>3, <2>1, <3>3 DEF Prepared
    <3> HIDE DEF u
    <3> QED BY <1>5, <3>1, <3>2, <3>4
  <2>6. ASSUME NEW at \in {"ready", "failed"}, t.daa \in 0..MaxDaa,
               archivers' = [archivers EXCEPT ![a] = [Task(at) EXCEPT !.daa = t.daa]]
        PROVE  Tasks'
    <3> DEFINE u == [Task(at) EXCEPT !.daa = t.daa]
    <3>1. u \in TaskSet /\ Prepared(u, Len(inodes'))
      BY <1>1, <2>6 DEF TaskSet, Prepared, Task
    <3> HIDE DEF u
    <3>2. archivers' = [archivers EXCEPT ![a] = u]
      BY <2>6 DEF u
    <3> QED BY <1>5, <3>1, <3>2
  <2>7. CASE WriteHeader(a) \/ ArchiveError(a)
    <3>1. t.daa \in 0..MaxDaa
      BY <2>1, <2>7 DEF Prepared, WriteHeader, ArchiveError, TaskStep
    <3> QED BY <2>6, <2>7, <3>1 DEF WriteHeader, ArchiveError, TaskStep
  <2>8. CASE Fail(a)
    <3> DEFINE u == [t EXCEPT !.at = "ready"]
    <3>1. t.at = "failed" /\ archivers' = [archivers EXCEPT ![a] = u]
      BY <2>8 DEF Fail, TaskStep
    <3>2. u \in TaskSet /\ Prepared(u, Len(inodes'))
      BY <2>1, <3>1 DEF TaskSet, Prepared
    <3> HIDE DEF u
    <3> QED BY <1>5, <3>1, <3>2
  <2>9. CASE SetReady(a)
    <3> DEFINE u == Task("done")
    <3>1. archivers' = [archivers EXCEPT ![a] = u]
      BY <2>9 DEF SetReady, TaskStep
    <3>2. u \in TaskSet /\ Prepared(u, Len(inodes'))
      BY <1>1 DEF TaskSet, Prepared, Task
    <3> HIDE DEF u
    <3> QED BY <1>5, <3>1, <3>2
  <2> QED BY <1>6, <2>2, <2>3, <2>4, <2>5, <2>7, <2>8, <2>9 DEF Archive
<1>7. ASSUME NEW r \in Requesters, SetArchiving(r) PROVE Tasks'
  <2> DEFINE u == Task("take")
  <2>1. u \in TaskSet /\ Prepared(u, Len(inodes'))
    BY <1>1 DEF TaskSet, Prepared, Task
  <2> HIDE DEF u
  <2>2. archivers' = Append(archivers, u)
    BY <1>7 DEF SetArchiving, u
  <2>3. archivers' \in Seq(TaskSet) /\ Len(archivers') = Len(archivers) + 1
    BY <1>1, <2>1, <2>2
  <2>4. ASSUME NEW b \in 1..Len(archivers') PROVE Prepared(archivers'[b], Len(inodes'))
    <3>1. CASE b \in 1..Len(archivers)
      BY <1>1, <1>3, <2>2, <3>1
    <3>2. CASE b = Len(archivers) + 1
      BY <1>1, <2>1, <2>2, <3>2
    <3> QED BY <1>1, <2>3, <3>1, <3>2
  <2> QED BY <2>3, <2>4 DEF Tasks
<1>8. ASSUME NEW r \in Requesters, Handler(r) PROVE Tasks'
  BY <1>4, <1>7, <1>8 DEF Handler, GenerateRefused, GenerateRequest, ResetRequest, RemoveFolder,
     CreateFolder, DownloadRequest, OpenArchive, serverVars
<1>9. CASE Restart
  <2>1. archivers' = <<>>
    BY <1>9 DEF Restart
  <2>2. <<>> \in Seq(TaskSet) /\ Len(<<>>) = 0
    OBVIOUS
  <2> QED BY <2>1, <2>2 DEF Tasks
<1>10. CASE WriteCommit \/ AdvanceDaa \/ Client \/ UNCHANGED vars
  BY <1>4, <1>10, ClientFrame DEF WriteCommit, AdvanceDaa, serverVars, vars
<1> QED BY <1>6, <1>8, <1>9, <1>10, NextCases

(* What ensure_available answers leads to.                                   *)
LEMMA EnsureMoves ==
    ASSUME EnsureAvailable, phase \in Phases
    PROVE  client = "status" /\ client' \in {"idle", "generate", "reset", "download"}
<1>1. PICK synced \in BOOLEAN :
         ClientStep("status", CASE ~ synced \/ phase.name = "Archiving" -> "idle"
                                [] synced /\ phase.name = "None" -> "generate"
                                [] synced /\ phase.name = "Ready" ->
                                       IF Outdated(phase.daa) THEN "reset" ELSE "download")
  BY DEF EnsureAvailable
<1>2. phase.name \in {"None", "Archiving", "Ready"}
  BY DEF Phases, Phase, Ready
<1> QED BY <1>1, <1>2 DEF ClientStep

(* The receiver does nothing while it waits for an answer.                   *)
LEMMA ClientMoves ==
    ASSUME Client, phase \in Phases
    PROVE  client # "waiting" /\ (client = "insert" \/ client' # "restored")
<1>1. CASE EnsureAvailable
  BY <1>1, EnsureMoves
<1>2. CASE ~ EnsureAvailable
  BY <1>2 DEF Client, StartSync, StartRestore, Purge, Interrupt, Receive,
       PhaseAfterReset, Poll, ReadBody, FinishDownload, RestoreBegins, RestoreRefused,
       InsertChunk, VerifyHash, ClientStep
<1> QED BY <1>1, <1>2

LEMMA PhaseAre ==
    ASSUME phase \in Phases
    PROVE  phase.daa \in {None} \cup 0..MaxDaa
BY DEF Phases, Phase, Ready

LEMMA OpeningStep == ArchiveInv /\ [Next]_vars => Opening'
<1> SUFFICES ASSUME ArchiveInv, [Next]_vars PROVE Opening'
  OBVIOUS
<1>1. Opening /\ Tasks
  BY DEF ArchiveInv
<1>2. ASSUME NEW a \in 1..Len(archivers), Archive(a) PROVE Opening'
  <2>1. UNCHANGED <<handler, client, wanted>>
    BY <1>2, ArchiveFrame DEF clientVars
  <2>2. CASE SetReady(a)
    <3>1. archivers[a].daa \in 0..MaxDaa
      BY <1>1, <2>2 DEF SetReady, TaskStep, Tasks, Prepared
    <3>2. phase' \in Phases
      BY <2>2, <3>1 DEF SetReady, Phases
    <3> QED BY <1>1, <2>1, <3>2 DEF Opening
  <2>3. CASE phase' \in {phase, Phase("None")}
    <3>1. phase' \in Phases
      BY <1>1, <2>3 DEF Opening, Phases
    <3> QED BY <1>1, <2>1, <3>1 DEF Opening
  <2> QED BY <1>2, <2>2, <2>3 DEF Archive, TakeSnapshots, CheckArchive, CreateArchive, WriteChunk,
     WriteHeader, ArchiveError, Fail
<1>3. ASSUME NEW r \in Requesters, Handler(r) PROVE Opening'
  <2>1. wanted' = wanted
    BY <1>3, HandlerFrame
  <2>2. CASE DownloadRequest(r)
    <3>1. r = Receiver /\ UNCHANGED phase
      BY <2>2 DEF DownloadRequest, serverVars
    <3>2. CASE phase = Ready(wanted)
      <4>1. wanted \in 0..MaxDaa
        BY <1>1, <3>2 DEF Opening, Phases, Phase, Ready
      <4>2. handler' = [handler EXCEPT ![r] = "open"] /\ client' = "waiting"
        BY <2>2, <3>2 DEF DownloadRequest, HandlerStep
      <4> QED BY <1>1, <2>1, <3>1, <4>1, <4>2 DEF Opening
    <3>3. CASE phase # Ready(wanted)
      <4>1. handler' = [handler EXCEPT ![r] = "idle"] /\ handler[r] = "idle" /\ client = "download"
        BY <2>2, <3>1, <3>3 DEF DownloadRequest, HandlerStep, Asks
      <4> QED BY <1>1, <2>1, <3>1, <4>1 DEF Opening
    <3> QED BY <3>2, <3>3
  <2>3. CASE OpenArchive(r)
    <3>1. r = Receiver /\ handler' = [handler EXCEPT ![r] = "idle"] /\ UNCHANGED phase
      BY <1>1, <2>3 DEF OpenArchive, Opening, serverVars
    <3> QED BY <1>1, <2>1, <3>1 DEF Opening
  <2>4. ASSUME NEW to \in {"idle", "generate", "remove", "restore"},
               handler' = [handler EXCEPT ![r] = to], handler[r] # "open",
               phase' \in {phase, Phase("None"), Phase("Archiving")},
               client' = client \/ r = Receiver
        PROVE  Opening'
    <3>1. phase' \in Phases
      BY <1>1, <2>4 DEF Opening, Phases
    <3> QED BY <1>1, <2>1, <2>4, <3>1 DEF Opening
  <2>5. CASE GenerateRefused(r)
    BY <2>4, <2>5 DEF GenerateRefused, HandlerStep, serverVars
  <2>6. CASE GenerateRequest(r)
    BY <2>4, <2>6 DEF GenerateRequest, HandlerStep, serverVars
  <2>7. CASE SetArchiving(r)
    BY <2>4, <2>7 DEF SetArchiving, HandlerStep, Answer
  <2>8. CASE ResetRequest(r)
    BY <2>4, <2>8 DEF ResetRequest, HandlerStep, Waits
  <2>9. CASE RemoveFolder(r)
    BY <2>4, <2>9 DEF RemoveFolder, HandlerStep, Answer
  <2>10. CASE CreateFolder(r)
    BY <2>4, <2>10 DEF CreateFolder, HandlerStep, Answer
  <2> QED BY <1>3, <2>2, <2>3, <2>5, <2>6, <2>7, <2>8, <2>9, <2>10 DEF Handler
<1>4. CASE Client
  <2>1. client # "waiting" /\ UNCHANGED <<phase, handler>>
    BY <1>1, <1>4, ClientFrame, ClientMoves DEF serverVars, Opening
  <2>2. \A r \in Requesters : handler[r] # "open"
    BY <1>1, <2>1 DEF Opening
  <2>3. wanted' \in {wanted, phase.daa, None}
    BY <1>4 DEF Client, StartSync, StartRestore, Purge, Interrupt, Receive, EnsureAvailable,
       PhaseAfterReset, Poll, ReadBody, FinishDownload, RestoreBegins, RestoreRefused,
       InsertChunk, VerifyHash
  <2>4. wanted' \in {None} \cup 0..MaxDaa
    BY <1>1, <2>3, PhaseAre DEF Opening
  <2> QED BY <1>1, <2>1, <2>2, <2>4 DEF Opening
<1>5. CASE Restart
  <2>1. phase' \in Phases /\ handler' = [r \in Requesters |-> "idle"] /\ wanted' = wanted
    BY <1>5 DEF Restart, Phases
  <2> QED BY <1>1, <2>1 DEF Opening
<1>6. CASE WriteCommit \/ AdvanceDaa \/ UNCHANGED vars
  BY <1>1, <1>6 DEF Opening, WriteCommit, AdvanceDaa, serverVars, clientVars, vars
<1> QED BY <1>2, <1>3, <1>4, <1>5, <1>6, NextCases

LEMMA CopiedStep == ArchiveInv /\ [Next]_vars => Copied'
<1> SUFFICES ASSUME ArchiveInv, [Next]_vars PROVE Copied'
  OBVIOUS
<1>1. Copied /\ Opening /\ Disk
  BY DEF ArchiveInv
<1>2. Len(inodes) \in Nat /\ Len(inodes') \in Nat /\ Len(inodes) <= Len(inodes')
  BY DiskStep, <1>1 DEF Disk
<1>3. CASE UNCHANGED <<stream, copy>> /\ client' \notin {"stream", "restore"}
  BY <1>1, <1>3 DEF Copied
<1>4. CASE UNCHANGED <<stream, copy, client>>
  BY <1>1, <1>2, <1>4 DEF Copied
<1>5. ASSUME NEW a \in 1..Len(archivers), Archive(a) PROVE Copied'
  BY <1>4, <1>5, ArchiveFrame DEF clientVars
<1>6. ASSUME NEW r \in Requesters, Handler(r) PROVE Copied'
  <2>1. CASE OpenArchive(r)
    <3> DEFINE i == IF folder = None THEN None ELSE folder[wanted]
    <3>1. CASE i = None \/ client # "waiting"
      <4>1. UNCHANGED <<stream, copy>> /\ (client' = client \/ client' = "idle")
        BY <2>1, <3>1 DEF OpenArchive, Answer
      <4> QED BY <1>3, <1>4, <4>1
    <3>2. CASE i # None /\ client = "waiting"
      <4>1. wanted \in 0..MaxDaa
        BY <1>1, <2>1 DEF OpenArchive, Opening
      <4>2. i \in 1..Len(inodes)
        BY <1>1, <3>2, <4>1 DEF Disk
      <4>3. /\ stream' = [inode |-> i, length |-> Len(inodes[i].body)]
            /\ copy' = File(inodes[i].header, <<>>)
        BY <2>1, <3>2 DEF OpenArchive
      <4>4. inodes[i] \in Files
        BY <1>1, <4>2 DEF Disk
      <4>5. copy' \in Files
        BY <4>3, <4>4, EmptyBody DEF Files, File
      <4>6. stream'.inode \in 1..Len(inodes')
        BY <1>2, <4>2, <4>3
      <4> QED BY <4>5, <4>6 DEF Copied
    <3> QED BY <3>1, <3>2
  <2>2. CASE ~ OpenArchive(r)
    <3>1. UNCHANGED <<stream, copy>> /\ (client' = client \/ client' \notin {"stream", "restore"})
      BY <1>6, <2>2 DEF Handler, GenerateRefused, GenerateRequest, SetArchiving, ResetRequest,
         RemoveFolder, CreateFolder, DownloadRequest, HandlerStep, Answer, Waits
    <3> QED BY <1>3, <1>4, <3>1
  <2> QED BY <2>1, <2>2
<1>7. CASE Client
  <2>1. CASE ReadBody
    <3> DEFINE k == Len(copy.body) + 1
               body == inodes[stream.inode].body
    <3>1. client = "stream" /\ UNCHANGED <<stream, inodes>>
      BY <1>7, <2>1, ClientFrame DEF ReadBody, serverVars
    <3>2. copy \in Files /\ stream.inode \in 1..Len(inodes)
      BY <1>1, <3>1 DEF Copied
    <3>3. copy.body \in Bodies /\ body \in Bodies /\ Len(body) \in Nat /\ Len(copy.body) \in Nat
      <4>1. copy.body \in Bodies
        BY <3>2 DEF Files
      <4>2. inodes[stream.inode] \in Files
        BY <1>1, <3>2 DEF Disk
      <4>3. body \in Bodies
        BY <4>2 DEF Files
      <4> QED BY <4>1, <4>3 DEF Bodies
    <3>4. CASE k > Len(body)
      <4>1. UNCHANGED copy /\ client' = "idle"
        BY <2>1, <3>4 DEF ReadBody, ClientStep
      <4> QED BY <1>3, <3>1, <4>1
    <3>5. CASE ~ k > Len(body)
      <4>1. copy' = [copy EXCEPT !.body = Append(copy.body, body[k])]
        BY <2>1, <3>5 DEF ReadBody
      <4>2. Len(copy.body) + 1 <= Len(body)
        BY <3>3, <3>5
      <4> HIDE DEF body
      <4>3. Append(copy.body, body[k]) \in Bodies
        BY <3>3, <4>2, DownloadKeeps
      <4>4. copy' \in Files
        BY <3>2, <4>1, <4>3 DEF Files
      <4> QED BY <3>1, <3>2, <4>4 DEF Copied
    <3> QED BY <3>4, <3>5
  <2>2. CASE StartRestore \/ FinishDownload
    <3>1. UNCHANGED copy /\ client' = "restore" /\ (copy # None \/ client = "stream")
      BY <2>2 DEF StartRestore, FinishDownload, ClientStep
    <3> QED BY <1>1, <3>1 DEF Copied
  <2>3. CASE ~ ReadBody /\ ~ StartRestore /\ ~ FinishDownload
    <3>1. UNCHANGED copy /\ client' \notin {"stream", "restore"}
      <4>1. EnsureAvailable => UNCHANGED copy /\ client' \notin {"stream", "restore"}
        BY <1>1, EnsureMoves DEF EnsureAvailable, Opening
      <4> QED BY <1>7, <2>3, <4>1 DEF Client, StartSync, Purge, Interrupt, Receive,
         PhaseAfterReset, Poll, RestoreBegins, RestoreRefused, InsertChunk, VerifyHash, ClientStep
    <3> QED BY <1>1, <3>1 DEF Copied
  <2> QED BY <2>1, <2>2, <2>3
<1>8. CASE Restart
  BY <1>3, <1>4, <1>8 DEF Restart
<1>9. CASE WriteCommit \/ AdvanceDaa \/ UNCHANGED vars
  BY <1>4, <1>9 DEF WriteCommit, AdvanceDaa, clientVars, vars
<1> QED BY <1>5, <1>6, <1>7, <1>8, <1>9, NextCases

(* Nobody but the receiver itself touches what it restores.                  *)
LEMMA RestoreAlone ==
    ASSUME ArchiveInv, [Next]_vars, ~ Client, client' \in {"insert", "restored"}
    PROVE  UNCHANGED <<client, copy, inserted, restored>>
<1>1. ASSUME NEW r, Handler(r) PROVE UNCHANGED <<client, copy, inserted, restored>>
  <2>1. UNCHANGED <<inserted, restored>>
    BY <1>1, HandlerFrame
  <2>2. UNCHANGED <<client, copy>>
    BY <1>1 DEF Handler, GenerateRefused, GenerateRequest, SetArchiving, ResetRequest, RemoveFolder,
       CreateFolder, DownloadRequest, OpenArchive, HandlerStep, Answer, Waits
  <2> QED BY <2>1, <2>2
<1>2. ASSUME NEW a, Archive(a) PROVE UNCHANGED <<client, copy, inserted, restored>>
  BY <1>2, ArchiveFrame DEF clientVars
<1>3. CASE Restart
  BY <1>3 DEF Restart
<1>4. CASE WriteCommit \/ AdvanceDaa \/ UNCHANGED vars
  BY <1>4 DEF WriteCommit, AdvanceDaa, clientVars, vars
<1> QED BY <1>1, <1>2, <1>3, <1>4, NextCases

LEMMA ChunksAre ==
    ASSUME NEW s \in Instants
    PROVE  /\ Len(Chunks(s)) = Len(Table)
           /\ \A k \in 1..Len(Table) : Chunks(s)[k] = <<k, s[Table[k]]>>
           /\ \A k \in 1..Len(Table) : Table[k] \in PartitionSet /\ s[Table[k]] \in 0..MaxCommits
<1>1. Chunks(s) = [k \in 1..Len(Table) |-> <<k, s[Table[k]]>>]
  BY DEF Chunks, Chunk
<1>2. Len(Table) \in Nat /\ \A k \in 1..Len(Table) : Table[k] \in PartitionSet
  BY TableIs
<1>3. \A k \in 1..Len(Table) : s[Table[k]] \in 0..MaxCommits
  BY <1>2 DEF Instants
<1> QED BY <1>1, <1>2, <1>3

LEMMA RestoringStep == ArchiveInv /\ [Next]_vars => Restoring'
<1> SUFFICES ASSUME ArchiveInv, [Next]_vars PROVE Restoring'
  OBVIOUS
<1> DEFINE Contents == [PartitionSet -> {None} \cup 0..MaxCommits]
<1>1. Restoring /\ Copied /\ Opening /\ Len(Table) \in Nat
  BY TableIs DEF ArchiveInv
<1>2. CASE UNCHANGED <<client, copy, inserted, restored>>
  BY <1>1, <1>2 DEF Restoring
<1>3. CASE UNCHANGED <<inserted, restored>> /\ client' # "insert"
  BY <1>1, <1>3 DEF Restoring
<1>4. CASE ~ Client
  <2>1. UNCHANGED <<inserted, restored>>
    <3>1. \A a : Archive(a) => UNCHANGED <<inserted, restored>>
      BY ArchiveFrame DEF clientVars
    <3>2. \A r : Handler(r) => UNCHANGED <<inserted, restored>>
      BY HandlerFrame
    <3> QED BY <1>4, <3>1, <3>2, NextCases DEF WriteCommit, AdvanceDaa, Restart, clientVars, vars
  <2> QED BY <1>2, <1>3, <1>4, <2>1, RestoreAlone
<1>5. CASE Purge
  BY <1>1, <1>5 DEF Purge, ClientStep, Restoring
<1>6. CASE RestoreBegins
  <2>1. copy \in Files
    BY <1>1, <1>6 DEF RestoreBegins, ClientStep, Copied
  <2>2. /\ copy' = copy /\ copy.header # None /\ inserted' = 0
        /\ restored' = [p \in PartitionSet |-> None]
    BY <1>6 DEF RestoreBegins
  <2>3. Len(copy.body) \in Nat
    BY <2>1 DEF Files, Bodies
  <2>4. restored' \in Contents /\ \A p \in PartitionSet : restored'[p] = None
    BY <2>2
  <2> QED BY <1>1, <2>1, <2>2, <2>3, <2>4 DEF Restoring
<1>7. CASE InsertChunk
  <2> DEFINE k == inserted + 1
  <2>1. /\ client = "insert" /\ inserted < Len(copy.header) /\ copy \in Files /\ copy' = copy
        /\ copy.header # None /\ restored \in Contents /\ inserted \in 0..Len(Table)
        /\ inserted <= Len(copy.body)
    BY <1>1, <1>7 DEF InsertChunk, Restoring
  <2>2. CASE k > Len(copy.body) \/ (k <= Len(copy.body) /\ copy.body[k] = None)
    BY <1>3, <1>7, <2>2 DEF InsertChunk, ClientStep
  <2>3. CASE ~ (k > Len(copy.body) \/ (k <= Len(copy.body) /\ copy.body[k] = None))
    <3>1. PICK s \in Instants : copy.header = Chunks(s)
      BY <2>1 DEF Files, Headers
    <3>2. k \in 1..Len(Table)
      BY <1>1, <2>1, <3>1, ChunksAre
    <3>3. Len(copy.body) \in Nat /\ k \in 1..Len(copy.body) /\ copy.body[k] # None
      BY <2>1, <2>3 DEF Files, Bodies
    <3>4. PICK i \in Instants : copy.body[k] = <<k, i[Table[k]]>>
      BY <2>1, <3>3 DEF Files, Bodies, Chunk
    <3> DEFINE q == Table[k]
               c == i[Table[k]]
    <3>5. q \in PartitionSet /\ c \in 0..MaxCommits
      BY <3>2, ChunksAre
    <3>6. restored' = [restored EXCEPT ![q] = c] /\ inserted' = k
      BY <1>7, <2>3, <3>4 DEF InsertChunk
    <3>7. restored' \in Contents
      BY <2>1, <3>5, <3>6
    <3>8. ASSUME NEW j \in 1..k PROVE copy.body[j] = <<j, restored'[Table[j]]>>
      <4>1. CASE j = k
        BY <2>1, <3>4, <3>5, <3>6, <4>1
      <4>2. CASE j # k
        <5>1. j \in 1..inserted /\ j \in 1..Len(Table)
          BY <2>1, <3>2, <4>2
        <5>2. Table[j] # q /\ Table[j] \in PartitionSet
          BY <3>2, <4>2, <5>1, TableIs
        <5>3. restored'[Table[j]] = restored[Table[j]]
          BY <2>1, <3>6, <5>2
        <5> QED BY <1>1, <2>1, <5>1, <5>3 DEF Restoring
      <4> QED BY <4>1, <4>2
    <3>9. ASSUME NEW p \in PartitionSet, \A j \in 1..k : Table[j] # p PROVE restored'[p] = None
      <4>1. k \in 1..k /\ \A j \in 1..inserted : j \in 1..k
        BY <2>1
      <4>2. p # q /\ restored[p] = None
        BY <1>1, <2>1, <3>9, <4>1 DEF Restoring
      <4> QED BY <2>1, <3>6, <4>2
    <3> HIDE DEF q, c
    <3> QED BY <2>1, <3>2, <3>3, <3>6, <3>7, <3>8, <3>9 DEF Restoring
  <2> QED BY <2>2, <2>3
<1>8. CASE Client /\ ~ Purge /\ ~ RestoreBegins /\ ~ InsertChunk
  <2>1. CASE EnsureAvailable
    BY <1>1, <1>3, <2>1, EnsureMoves DEF EnsureAvailable, Opening
  <2>2. CASE ~ EnsureAvailable
    BY <1>3, <1>8, <2>2 DEF Client, StartSync, StartRestore, Interrupt, Receive,
       PhaseAfterReset, Poll, ReadBody, FinishDownload, RestoreRefused, VerifyHash, ClientStep
  <2> QED BY <2>1, <2>2
<1> QED BY <1>4, <1>5, <1>6, <1>7, <1>8

LEMMA FaithfulStep == ArchiveInv /\ [Next]_vars => RestoreFaithful'
<1> SUFFICES ASSUME ArchiveInv, [Next]_vars, client' = "restored" PROVE RestoreFaithful'
  BY DEF RestoreFaithful
<1>1. RestoreFaithful /\ Restoring /\ Opening
  BY DEF ArchiveInv
<1>2. CASE UNCHANGED <<client, restored>>
  BY <1>1, <1>2 DEF RestoreFaithful
<1>3. CASE ~ Client
  BY <1>2, <1>3, RestoreAlone
<1>4. CASE VerifyHash
  <2>1. /\ client = "insert" /\ inserted = Len(copy.header) /\ UNCHANGED restored
        /\ SubSeq(copy.body, 1, inserted) = copy.header
    BY <1>4 DEF VerifyHash, ClientStep
  <2>2. /\ copy \in Files /\ copy.header # None /\ inserted <= Len(copy.body)
        /\ restored \in [PartitionSet -> {None} \cup 0..MaxCommits]
        /\ \A k \in 1..inserted : copy.body[k] = <<k, restored[Table[k]]>>
        /\ \A p \in PartitionSet : (\A k \in 1..inserted : Table[k] # p) => restored[p] = None
    BY <1>1, <2>1 DEF Restoring
  <2>3. PICK s \in Instants : copy.header = Chunks(s)
    BY <2>2 DEF Files, Headers
  <2>4. PICK v \in 0..MaxCommits : s = [p \in PartitionSet |-> v]
    BY DEF Instants
  <2>5. inserted = Len(Table) /\ inserted \in Nat
    BY <2>1, <2>3, ChunksAre, TableIs
  <2>6. ASSUME NEW k \in 1..inserted PROVE restored[Table[k]] = v
    <3>1. copy.body \in Seq(Cells)
      BY <2>2 DEF Files, Bodies
    <3>2. SubSeq(copy.body, 1, inserted)[k] = copy.body[k]
      BY <2>2, <2>5, <3>1
    <3>3. copy.header[k] = <<k, s[Table[k]]>> /\ Table[k] \in PartitionSet
      BY <2>3, <2>5, ChunksAre
    <3>4. <<k, restored[Table[k]]>> = <<k, s[Table[k]]>>
      BY <2>1, <2>2, <3>2, <3>3
    <3> QED BY <2>4, <3>3, <3>4
  <2>7. ASSUME NEW p \in PartitionSet
        PROVE  restored[p] = IF p \in Skipped THEN None ELSE v
    <3>1. CASE p \in Skipped
      <4>1. \A k \in 1..inserted : Table[k] # p
        BY <2>5, <3>1, TableIs
      <4> QED BY <2>2, <3>1, <4>1
    <3>2. CASE p \notin Skipped
      <4>1. PICK k \in 1..Len(Table) : Table[k] = p
        BY <3>2, TableIs
      <4> QED BY <2>5, <2>6, <3>2, <4>1
    <3> QED BY <3>1, <3>2
  <2>8. restored = [p \in PartitionSet |-> IF p \in Skipped THEN None ELSE v]
    BY <2>2, <2>7
  <2> QED BY <2>1, <2>8 DEF RestoreFaithful
<1>5. CASE Client /\ ~ VerifyHash
  <2>1. client' # "restored"
    <3>1. EnsureAvailable => client' # "restored"
      BY <1>1, EnsureMoves DEF Opening
    <3> QED BY <1>5, <3>1 DEF Client, StartSync, StartRestore, Purge, Interrupt, Receive,
       PhaseAfterReset, Poll, ReadBody, FinishDownload, RestoreBegins, RestoreRefused,
       InsertChunk, ClientStep
  <2> QED BY <2>1
<1> QED BY <1>3, <1>4, <1>5
-----------------------------------------------------------------------------
LEMMA ArchiveInit == Init => ArchiveInv
<1> SUFFICES ASSUME Init PROVE ArchiveInv
  OBVIOUS
<1>1. /\ MaxDaa \in Nat /\ MaxCommits \in Nat /\ Len(Table) \in Nat
      /\ Len(Partitions) \in Nat /\ Len(Partitions) > 0
  BY ArchiveAssumption, PartitionsAre, TableIs
<1>2. Database
  <2>1. db = [p \in PartitionSet |-> IF \E i \in 1..0 : Partitions[i] = p THEN 0 + 1 ELSE 0]
    BY DEF Init
  <2> QED BY <1>1, <2>1 DEF Database, Init
<1>3. Disk
  BY DEF Disk, Init
<1>4. Tasks
  <2>1. <<>> \in Seq(TaskSet) /\ Len(<<>>) = 0
    OBVIOUS
  <2> QED BY <2>1 DEF Tasks, Init
<1>5. Opening
  BY <1>1 DEF Opening, Phases, Init
<1>6. Copied
  BY DEF Copied, Init
<1>7. Restoring /\ RestoreFaithful
  BY <1>1 DEF Restoring, RestoreFaithful, Init
<1> QED BY <1>2, <1>3, <1>4, <1>5, <1>6, <1>7 DEF ArchiveInv

LEMMA ArchiveAlways == Spec => []ArchiveInv
<1>1. ArchiveInv /\ [Next]_vars => ArchiveInv'
  BY DatabaseStep, DiskStep, TasksStep, OpeningStep, CopiedStep, RestoringStep, FaithfulStep
     DEF ArchiveInv
<1> QED BY ArchiveInit, <1>1, PTL DEF Spec

(* The generator, its files and the receiver keep their types (snapshot.rs, *)
(* generator.rs, receiver.rs).                                               *)
THEOREM ArchiveTypes == Spec => []TypeOK
<1>1. ASSUME ArchiveInv PROVE TypeOK
  <2>1. Database /\ Disk /\ Opening /\ Restoring
    BY <1>1 DEF ArchiveInv
  <2>2. db \in [PartitionSet -> 0..MaxCommits] /\ writing \in 0..Len(Partitions)
    <3>1. db \in [PartitionSet -> 0..MaxCommits]
      BY <2>1, DatabaseTypes
    <3>2. writing \in 0..(Len(Partitions) - 1) /\ Len(Partitions) \in Nat
      BY <2>1, PartitionsAre DEF Database
    <3> QED BY <3>1, <3>2
  <2>3. \A i \in DOMAIN inodes : Len(inodes[i].body) <= Len(Table)
    <3>1. \A i \in DOMAIN inodes : inodes[i] \in Files
      BY <2>1 DEF Disk
    <3> QED BY <3>1 DEF Files, Bodies
  <2> QED BY <2>1, <2>2, <2>3 DEF Database, Disk, Opening, Restoring, Phases, TypeOK
<1> QED BY <1>1, ArchiveAlways, PTL

(* A restore that ends without an error (restore, snapshot.rs) has rebuilt the    *)
(* database as take_snapshots saw it at one instant, and nothing of the queue, *)
(* whatever commits, restarts, resets and other archiving tasks did to the file *)
(* while it was written and served.                                          *)
THEOREM RestoresAreFaithful == Spec => []RestoreFaithful
<1>1. ArchiveInv => RestoreFaithful
  BY DEF ArchiveInv
<1> QED BY <1>1, ArchiveAlways, PTL

===============================================================================
