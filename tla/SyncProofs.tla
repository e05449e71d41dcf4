------------------------------- MODULE SyncProofs -------------------------------
(***************************************************************************)
(* What the syncer keeps of the node's chain, for every block tree and any  *)
(* number of moves, lost connections and restarts.                          *)
(***************************************************************************)
EXTENDS Sync, WellFoundedInduction, TLAPS

-----------------------------------------------------------------------------
(* Least and greatest numbers, which stand in for induction.                 *)

\* A nonempty set of natural numbers has a least element.
LEMMA LeastNat ==
    ASSUME NEW S \in SUBSET Nat, S # {}
    PROVE  \E n \in S : \A m \in S : n <= m
<1> DEFINE Below == OpToRel(<, Nat)
<1>1. IsWellFoundedOn(Below, Nat)
  BY NatLessThanWellFounded
<1>2. \E n \in S : \A m \in S : <<m, n>> \notin Below
  <2> HIDE DEF Below
  <2> QED BY <1>1, WFMin
<1>3. ASSUME NEW n \in S, NEW m \in S, <<m, n>> \notin Below
      PROVE  n <= m
  BY <1>3 DEF OpToRel
<1> QED BY <1>2, <1>3

\* A nonempty set of natural numbers below some bound has a greatest element.
LEMMA GreatestNat ==
    ASSUME NEW S \in SUBSET Nat, S # {}, NEW b \in Nat, \A n \in S : n <= b
    PROVE  \E n \in S : \A m \in S : m <= n
<1> DEFINE Gaps == {g \in Nat : \E n \in S : g = b - n}
<1>0. \A n \in S : b - n \in Gaps
  OBVIOUS
<1>1. Gaps \in SUBSET Nat /\ Gaps # {}
  <2> QED BY <1>0
<1>2. PICK g \in Gaps : \A h \in Gaps : g <= h
  <2> HIDE DEF Gaps
  <2> QED BY <1>1, LeastNat
<1>3. PICK n \in S : g = b - n
  BY <1>2
<1>4. ASSUME NEW m \in S PROVE m <= n
  <2>1. g <= b - m
    BY <1>0, <1>2
  <2>2. m \in Nat /\ n \in Nat /\ b - n <= b - m
    BY <1>3, <2>1
  <2> QED BY <2>2
<1> QED BY <1>4

-----------------------------------------------------------------------------
(* Chains.  A block of a chain is at most as blue as its tip, and what two  *)
(* chains share lies below what only one of them has.                       *)

LEMMA ChainFacts ==
    ASSUME NEW h \in Hashes, NEW c \in Chain[h]
    PROVE  /\ h # Start /\ c \in Hashes /\ c # Start
           /\ c \in Chain[c] /\ h \in Chain[h]
           /\ Blue[c] \in Nat /\ Blue[c] <= Blue[h]
           /\ Chain[c] = {x \in Chain[h] : Blue[x] <= Blue[c]}
<1>1. h # Start /\ c \in Hashes /\ h \in Chain[h] /\ Blue[c] \in Nat /\ Blue[h] \in Nat
  BY SyncAssumption
<1>2. Chain[c] = {x \in Chain[h] : Blue[x] <= Blue[c]}
  BY SyncAssumption
<1>3. c \in Chain[c] /\ c # Start
  BY <1>1, <1>2, SyncAssumption
<1>4. Blue[c] <= Blue[h]
  <2> SUFFICES ASSUME Blue[h] < Blue[c] PROVE FALSE
    BY <1>1
  <2>1. h \in Chain[c]
    BY <1>1, <1>2
  <2>2. Chain[h] = {x \in Chain[c] : Blue[x] <= Blue[h]}
    BY <1>1, <2>1, SyncAssumption
  <2> QED BY <1>1, <2>2
<1> QED BY <1>1, <1>2, <1>3, <1>4

LEMMA SameBlue ==
    ASSUME NEW h \in Hashes, NEW c \in Chain[h], NEW d \in Chain[h], Blue[c] = Blue[d]
    PROVE  c = d
BY SyncAssumption

LEMMA SharedBelow ==
    ASSUME NEW g \in Hashes, NEW h \in Hashes, NEW c \in Chain[g] \cap Chain[h],
           NEW d \in Chain[h] \ Chain[g]
    PROVE  Blue[c] < Blue[d]
<1>1. Chain[c] = {x \in Chain[g] : Blue[x] <= Blue[c]}
  BY ChainFacts
<1>2. Chain[c] = {x \in Chain[h] : Blue[x] <= Blue[c]}
  BY ChainFacts
<1>3. Blue[c] \in Nat /\ Blue[d] \in Nat
  BY ChainFacts
<1> QED BY <1>1, <1>2, <1>3

(* Blocks of one chain have a highest one, which Highest finds: the last accepted *)
(* block of the database, the last block of an answer.                       *)
LEMMA HighestIs ==
    ASSUME NEW h \in Hashes, NEW blocks \in SUBSET Chain[h], blocks # {}
    PROVE  /\ Highest(blocks) \in blocks
           /\ \A x \in blocks : Blue[x] <= Blue[Highest(blocks)]
<1> DEFINE Scores == {Blue[x] : x \in blocks}
<1>1. \A x \in blocks : Blue[x] \in Nat /\ Blue[x] <= Blue[h]
  BY ChainFacts
<1>2. Blue[h] \in Nat
  BY SyncAssumption
<1>3. PICK n \in Scores : \A m \in Scores : m <= n
  <2>1. Scores \in SUBSET Nat /\ Scores # {} /\ \A n \in Scores : n <= Blue[h]
    BY <1>1
  <2> HIDE DEF Scores
  <2> QED BY <1>2, <2>1, GreatestNat
<1>4. \E x \in blocks : \A y \in blocks : Blue[y] <= Blue[x]
  BY <1>3
<1> QED BY <1>4 DEF Highest

(* The blocks of a set of blocks of one chain lie on the chain of its highest one. *)
LEMMA BelowHighest ==
    ASSUME NEW h \in Hashes, NEW blocks \in SUBSET Chain[h], blocks # {}
    PROVE  Highest(blocks) \in Hashes \ {Start} /\ blocks \subseteq Chain[Highest(blocks)]
<1>1. Highest(blocks) \in Chain[h] /\ \A x \in blocks : Blue[x] <= Blue[Highest(blocks)]
  BY HighestIs
<1>2. Chain[Highest(blocks)] = {x \in Chain[h] : Blue[x] <= Blue[Highest(blocks)]}
  BY <1>1, ChainFacts
<1> QED BY <1>1, <1>2, ChainFacts

(* A whole chain is the chain of its highest block. *)
LEMMA WholeChain ==
    ASSUME NEW h \in Hashes
    PROVE  StartingPoint(Chain[h]) = h
<1>1. CASE h = Start
  BY <1>1, SyncAssumption DEF StartingPoint
<1>2. CASE h # Start
  <2>1. h \in Chain[h] /\ Blue[h] \in Nat
    BY <1>2, SyncAssumption
  <2>2. Highest(Chain[h]) \in Chain[h] /\ Blue[h] <= Blue[Highest(Chain[h])]
    BY <2>1, HighestIs
  <2>3. Blue[Highest(Chain[h])] <= Blue[h] /\ Blue[Highest(Chain[h])] \in Nat
    BY <2>2, ChainFacts
  <2>4. Highest(Chain[h]) = h
    BY <2>1, <2>2, <2>3, SameBlue
  <2> QED BY <2>1, <2>4 DEF StartingPoint
<1> QED BY <1>1, <1>2
-----------------------------------------------------------------------------
(* The invariant.                                                           *)

\* The bounds hold, and a notification is on its way only for a move.
Counted ==
    /\ moves \in Nat /\ moves <= MaxMoves /\ notices <= moves
    /\ disconnects \in Nat /\ restarts \in Nat

\* The tasks in order, with what they wait for: a batch or the request to apply the
\* queue is with the historical thread while the sync task waits for the answer.
Stations ==
    /\ nexus \in {"idle", "changed", "request", "disconnected", "changed: unset",
                  "disconnected: unset", "disconnected: target", "spawn"}
    /\ task \in {"none", "start", "loop", "resolve", "reconstruct", "processing", "advance",
                 "refresh", "mark", "compare", "applying", "finish", "clear", "release"}
    /\ ht \in {"receive", "apply", "applied", "wait"} /\ rt \in {"receive", "send"}
    /\ switch \in BOOLEAN
HoldsApply(channel) == \E i \in 1..Len(channel) : channel[i] = "apply"
AtMostOneApply(channel) ==
    /\ channel \in Seq({"switch", "apply"})
    /\ \A i, j \in 1..Len(channel) : channel[i] = "apply" /\ channel[j] = "apply" => i = j
Handed ==
    /\ to_ht = CASE task = "processing" -> <<"changes">>
                 [] task = "applying" /\ ht \in {"receive", "wait"} -> <<"apply">>
                 [] OTHER -> <<>>
    /\ ht \in {"apply", "applied"} => task = "applying"
    /\ AtMostOneApply(to_rt) /\ (HoldsApply(to_rt) => ht = "apply")

\* Where the database stands: at the last known block, or where the sync task will
\* put it when it has read the answer.
Landing ==
    IF task # "advance" THEN last_known_block
    ELSE IF reply.last_added # None THEN reply.last_added
    ELSE IF indexed # {} THEN Highest(indexed) ELSE last_known_block

\* The database holds blocks of that block's chain only.
Standing == Landing \in Hashes /\ indexed \subseteq Chain[Landing]

\* An answer of the node speaks of a sink it had: what the chain of the last known
\* block loses and gains, up to some block, and of the first that joins at least.
Answer(s, last) ==
    /\ s # Start
    /\ reply.removed = (Chain[last_known_block] \ Chain[s])
                       \cup (IF reply.forced THEN {last_known_block} ELSE {})
    /\ reply.added = {h \in Chain[s] \ Chain[last_known_block] : Blue[h] <= Blue[last]}
    /\ reply.added = {} => Chain[s] \subseteq Chain[last_known_block]
Answered ==
    /\ task \in {"resolve", "reconstruct", "processing"} =>
          /\ \E s, last \in Hashes : Answer(s, last)
          /\ seen \in Hashes
    /\ task \in {"reconstruct", "processing"} /\ reply.last_added # None =>
          reply.added # {} /\ reply.last_added = Highest(reply.added)
    /\ task \in {"loop", "advance", "refresh", "mark"} => seen \in Hashes
    /\ task = "compare" => reply.last_added \in Hashes

\* Before the node's first move there is nothing to ask it for.
AtStart ==
    sink = Start =>
        /\ last_known_block = Start /\ indexed = {}
        /\ seen \in {None, Start} /\ target \in {None, Start}
        /\ task \notin {"resolve", "reconstruct", "processing", "advance", "refresh"}
        /\ task = "compare" => reply.last_added = Start

SyncInv == TypeOK /\ Counted /\ Stations /\ Handed /\ Standing /\ Answered /\ AtStart

\* The database holds that block's whole chain until a forced rollback.
Whole == ~ rewound => indexed = Chain[Landing]

WholeInv == SyncInv /\ Whole

USE DEF TargetOr

(* A channel that holds one request. *)
LEMMA OneRequest ==
    ASSUME NEW x
    PROVE  /\ Append(<<>>, x) = <<x>> /\ Head(<<x>>) = x /\ Tail(<<x>>) = <<>>
           /\ <<x>> # <<>>
OBVIOUS

(* What a send and a receive do to the realtime channel. *)
LEMMA EmptyChannel == AtMostOneApply(<<>>) /\ ~ HoldsApply(<<>>)
BY DEF AtMostOneApply, HoldsApply

LEMMA SendSwitch ==
    ASSUME NEW c, AtMostOneApply(c)
    PROVE  AtMostOneApply(Append(c, "switch")) /\ (HoldsApply(Append(c, "switch")) => HoldsApply(c))
<1> DEFINE d == Append(c, "switch")
<1>1. c \in Seq({"switch", "apply"}) /\ Len(c) \in Nat
  BY DEF AtMostOneApply
<1>2. /\ d \in Seq({"switch", "apply"}) /\ Len(d) = Len(c) + 1 /\ d[Len(c) + 1] = "switch"
      /\ \A i \in 1..Len(c) : d[i] = c[i]
  BY <1>1
<1> HIDE DEF d
<1>3. \A i \in 1..Len(d) : d[i] = "apply" => i \in 1..Len(c) /\ c[i] = "apply"
  BY <1>1, <1>2
<1>4. AtMostOneApply(d)
  BY <1>2, <1>3 DEF AtMostOneApply
<1>5. HoldsApply(d) => HoldsApply(c)
  BY <1>3 DEF HoldsApply
<1> QED BY <1>4, <1>5 DEF d

LEMMA SendApply ==
    ASSUME NEW c, AtMostOneApply(c), ~ HoldsApply(c)
    PROVE  AtMostOneApply(Append(c, "apply"))
<1> DEFINE d == Append(c, "apply")
<1>1. c \in Seq({"switch", "apply"}) /\ Len(c) \in Nat
  BY DEF AtMostOneApply
<1>2. /\ d \in Seq({"switch", "apply"}) /\ Len(d) = Len(c) + 1
      /\ \A i \in 1..Len(c) : d[i] = c[i]
  BY <1>1
<1> HIDE DEF d
<1>3. \A i \in 1..Len(d) : d[i] = "apply" => i = Len(d)
  BY <1>1, <1>2 DEF HoldsApply
<1>4. AtMostOneApply(d)
  BY <1>2, <1>3 DEF AtMostOneApply
<1> QED BY <1>4 DEF d

LEMMA Receive ==
    ASSUME NEW c, AtMostOneApply(c), c # <<>>
    PROVE  /\ AtMostOneApply(Tail(c))
           /\ HoldsApply(Tail(c)) => HoldsApply(c) /\ Head(c) # "apply"
           /\ Head(c) = "apply" => HoldsApply(c)
<1> DEFINE d == Tail(c)
<1>1. c \in Seq({"switch", "apply"}) /\ Len(c) \in Nat /\ Head(c) = c[1] /\ 1 \in 1..Len(c)
  BY DEF AtMostOneApply
<1>2. d \in Seq({"switch", "apply"}) /\ Len(d) = Len(c) - 1
  BY <1>1
<1>3. \A i \in 1..Len(d) : i + 1 \in 1..Len(c) /\ d[i] = c[i + 1] /\ i + 1 # 1
  BY <1>1, <1>2
<1> HIDE DEF d
<1>4. AtMostOneApply(d)
  <2> SUFFICES ASSUME NEW i \in 1..Len(d), NEW j \in 1..Len(d), d[i] = "apply", d[j] = "apply"
               PROVE  i = j
    BY <1>2 DEF AtMostOneApply
  <2>1. i + 1 = j + 1
    BY <1>3 DEF AtMostOneApply
  <2> QED BY <2>1, <1>2
<1>5. HoldsApply(d) => HoldsApply(c) /\ c[1] # "apply"
  BY <1>1, <1>3 DEF AtMostOneApply, HoldsApply
<1>6. c[1] = "apply" => HoldsApply(c)
  BY <1>1 DEF HoldsApply
<1> QED BY <1>1, <1>4, <1>5, <1>6 DEF d

LEMMA InitInv == Init => SyncInv
<1> SUFFICES ASSUME Init PROVE SyncInv
  OBVIOUS
<1>1. last_known_block = Start /\ Start \in Hashes /\ Chain[Start] = {} /\ MaxMoves \in Nat
  BY SyncAssumption DEF Init, StartingPoint
<1>2. TypeOK
  <2>1. reply \in Response
    BY SyncAssumption DEF Response, NoResponse, Init
  <2>2. task # "none" /\ sync_task_running
    BY DEF Init
  <2>3. /\ sink \in Hashes /\ notices \in 0..MaxMoves /\ last_known_block \in Hashes
        /\ target \in Hashes \cup {None} /\ seen \in Hashes \cup {None} /\ leaving \in Nat
        /\ indexed \subseteq Hashes \ {Start}
    BY <1>1 DEF Init
  <2>4. /\ rewound \in BOOLEAN /\ connected \in BOOLEAN /\ dropped \in BOOLEAN /\ is_synced \in BOOLEAN
        /\ resync_requested \in BOOLEAN /\ sync_task_running \in BOOLEAN
    BY DEF Init
  <2> QED BY <2>1, <2>2, <2>3, <2>4 DEF TypeOK
<1>3. Counted
  BY <1>1 DEF Counted, Init
<1>4. Stations
  BY DEF Stations, Init
<1>5. Answered
  BY DEF Answered, Init
<1>6. Handed
  BY EmptyChannel DEF Handed, Init
<1>7. Standing
  BY <1>1 DEF Standing, Landing, Init
<1>8. AtStart
  BY <1>1 DEF AtStart, Init
<1> QED BY <1>2, <1>3, <1>4, <1>5, <1>6, <1>7, <1>8 DEF SyncInv

LEMMA CountedStep == SyncInv /\ [Next]_vars => Counted'
<1> SUFFICES ASSUME SyncInv, [Next]_vars PROVE Counted'
  OBVIOUS
<1> USE DEF Counted
<1>1. Counted /\ notices \in Nat /\ MaxMoves \in Nat
  BY SyncAssumption DEF SyncInv, TypeOK
<1>2. CASE Connect
  BY <1>1, <1>2 DEF Connect, nodeVars, flagVars, taskVars, threadVars, pastVars
<1>3. CASE Disconnect
  BY <1>1, <1>3 DEF Disconnect, nodeVars, flagVars, taskVars, threadVars, pastVars
<1>4. ASSUME NEW h \in Hashes, MoveSink(h) PROVE Counted'
  BY <1>1, <1>4 DEF MoveSink, nodeVars, flagVars, taskVars, threadVars, pastVars
<1>5. CASE HandleDisconnect
  BY <1>1, <1>5 DEF HandleDisconnect, nodeVars, flagVars, taskVars, threadVars, pastVars
<1>6. CASE HandleChanged
  BY <1>1, <1>6 DEF HandleChanged, nodeVars, flagVars, taskVars, threadVars, pastVars
<1>7. CASE RequestResync
  BY <1>1, <1>7 DEF RequestResync, nodeVars, flagVars, taskVars, threadVars, pastVars
<1>8. CASE SwitchToQueueMod
  BY <1>1, <1>8 DEF SwitchToQueueMod, nodeVars, flagVars, taskVars, threadVars, pastVars
<1>9. CASE UnsetSynced
  BY <1>1, <1>9 DEF UnsetSynced, nodeVars, flagVars, taskVars, threadVars, pastVars
<1>10. CASE CheckTarget
  BY <1>1, <1>10 DEF CheckTarget, nodeVars, flagVars, taskVars, threadVars, pastVars
<1>11. CASE Spawn
  BY <1>1, <1>11 DEF Spawn, nodeVars, flagVars, taskVars, threadVars, pastVars, SpawnSyncTask
<1>12. CASE GetSink
  BY <1>1, <1>12 DEF GetSink, nodeVars, flagVars, taskVars, threadVars, pastVars
<1>13. CASE AtSink
  BY <1>1, <1>13 DEF AtSink, nodeVars, flagVars, taskVars, threadVars, pastVars
<1>14. CASE Reconstruct
  BY <1>1, <1>14 DEF Reconstruct, nodeVars, flagVars, taskVars, threadVars, pastVars
<1>15. CASE ReconstructFails
  BY <1>1, <1>15 DEF ReconstructFails, nodeVars, flagVars, taskVars, threadVars, pastVars
<1>16. CASE Advance
  BY <1>1, <1>16 DEF Advance, nodeVars, flagVars, taskVars, threadVars, pastVars
<1>17. CASE RefreshTarget
  BY <1>1, <1>17 DEF RefreshTarget, nodeVars, flagVars, taskVars, threadVars, pastVars
<1>18. CASE ResolveLastAdded
  BY <1>1, <1>18 DEF ResolveLastAdded, nodeVars, flagVars, taskVars, threadVars, pastVars
<1>19. CASE MarkGetSink
  BY <1>1, <1>19 DEF MarkGetSink, nodeVars, flagVars, taskVars, threadVars, pastVars
<1>20. CASE MarkFails
  BY <1>1, <1>20 DEF MarkFails, nodeVars, flagVars, taskVars, threadVars, pastVars
<1>21. CASE MarkCompare
  BY <1>1, <1>21 DEF MarkCompare, nodeVars, flagVars, taskVars, threadVars, pastVars
<1>22. CASE MarkSynced
  BY <1>1, <1>22 DEF MarkSynced, nodeVars, flagVars, taskVars, threadVars, pastVars
<1>23. CASE ClearTarget
  BY <1>1, <1>23 DEF ClearTarget, nodeVars, flagVars, taskVars, threadVars, pastVars
<1>24. CASE Release
  BY <1>1, <1>24 DEF Release, nodeVars, flagVars, taskVars, threadVars, pastVars
<1>25. CASE Respawn
  BY <1>1, <1>25 DEF Respawn, nodeVars, flagVars, taskVars, threadVars, pastVars, SpawnSyncTask
<1>26. ASSUME NEW last \in Hashes, GetHistoricalData(last) PROVE Counted'
  BY <1>1, <1>26 DEF GetHistoricalData, nodeVars, flagVars, taskVars, threadVars, pastVars
<1>27. CASE HtChanges
  BY <1>1, <1>27 DEF HtChanges, nodeVars, flagVars, taskVars, threadVars, pastVars
<1>28. CASE HtApply
  BY <1>1, <1>28 DEF HtApply, nodeVars, flagVars, taskVars, threadVars, pastVars
<1>29. CASE HtApplied
  BY <1>1, <1>29 DEF HtApplied, nodeVars, flagVars, taskVars, threadVars, pastVars
<1>30. CASE HtSwitch
  BY <1>1, <1>30 DEF HtSwitch, nodeVars, flagVars, taskVars, threadVars, pastVars
<1>31. CASE RtApply
  BY <1>1, <1>31 DEF RtApply, nodeVars, flagVars, taskVars, threadVars, pastVars
<1>32. CASE RtSwitch
  BY <1>1, <1>32 DEF RtSwitch, nodeVars, flagVars, taskVars, threadVars, pastVars
<1>33. CASE RtSend
  BY <1>1, <1>33 DEF RtSend, nodeVars, flagVars, taskVars, threadVars, pastVars
<1>34. CASE Restart
  BY <1>1, <1>34 DEF Restart, nodeVars, flagVars, taskVars, threadVars, pastVars
<1>35. CASE UNCHANGED vars
  BY <1>1, <1>35 DEF vars, nodeVars, flagVars, taskVars, threadVars, pastVars
<1> QED BY <1>2, <1>3, <1>4, <1>5, <1>6, <1>7, <1>8, <1>9, <1>10, <1>11, <1>12, <1>13,
   <1>14, <1>15, <1>16, <1>17, <1>18, <1>19, <1>20, <1>21, <1>22, <1>23, <1>24, <1>25,
   <1>26, <1>27, <1>28, <1>29, <1>30, <1>31, <1>32, <1>33, <1>34, <1>35
   DEF Next, NexusTask, SyncTask, HistoricalThread, RealtimeThread

LEMMA StationsStep == SyncInv /\ [Next]_vars => Stations'
<1> SUFFICES ASSUME SyncInv, [Next]_vars PROVE Stations'
  OBVIOUS
<1> USE DEF Stations
<1>1. Stations /\ Handed
  BY DEF SyncInv
<1>2. reply.progress \in {"Pending", "Reached", "Obsolete"}
  BY DEF SyncInv, TypeOK, Response
<1>3. CASE Connect
  BY <1>1, <1>2, <1>3 DEF Connect, nodeVars, flagVars, taskVars, threadVars
<1>4. CASE Disconnect
  BY <1>1, <1>2, <1>4 DEF Disconnect, nodeVars, flagVars, taskVars, threadVars
<1>5. ASSUME NEW h \in Hashes, MoveSink(h) PROVE Stations'
  BY <1>1, <1>2, <1>5 DEF MoveSink, nodeVars, flagVars, taskVars, threadVars
<1>6. CASE HandleDisconnect
  BY <1>1, <1>2, <1>6 DEF HandleDisconnect, nodeVars, flagVars, taskVars, threadVars
<1>7. CASE HandleChanged
  BY <1>1, <1>2, <1>7 DEF HandleChanged, nodeVars, flagVars, taskVars, threadVars
<1>8. CASE RequestResync
  BY <1>1, <1>2, <1>8 DEF RequestResync, nodeVars, flagVars, taskVars, threadVars
<1>9. CASE SwitchToQueueMod
  BY <1>1, <1>2, <1>9 DEF SwitchToQueueMod, nodeVars, flagVars, taskVars, threadVars
<1>10. CASE UnsetSynced
  BY <1>1, <1>2, <1>10 DEF UnsetSynced, nodeVars, flagVars, taskVars, threadVars
<1>11. CASE CheckTarget
  BY <1>1, <1>2, <1>11 DEF CheckTarget, nodeVars, flagVars, taskVars, threadVars
<1>12. CASE Spawn
  BY <1>1, <1>2, <1>12 DEF Spawn, nodeVars, flagVars, taskVars, threadVars,
     SpawnSyncTask
<1>13. CASE GetSink
  BY <1>1, <1>2, <1>13 DEF GetSink, nodeVars, flagVars, taskVars, threadVars
<1>14. CASE AtSink
  BY <1>1, <1>2, <1>14 DEF AtSink, nodeVars, flagVars, taskVars, threadVars
<1>15. CASE Reconstruct
  BY <1>1, <1>2, <1>15 DEF Reconstruct, nodeVars, flagVars, taskVars, threadVars
<1>16. CASE ReconstructFails
  BY <1>1, <1>2, <1>16 DEF ReconstructFails, nodeVars, flagVars, taskVars, threadVars
<1>17. CASE Advance
  <2>1. task' \in {"loop", "mark", "refresh"}
    BY <1>1, <1>2, <1>17 DEF Advance
  <2> QED BY <1>1, <2>1, <1>17 DEF Advance, nodeVars, threadVars
<1>18. CASE RefreshTarget
  BY <1>1, <1>2, <1>18 DEF RefreshTarget, nodeVars, flagVars, taskVars, threadVars
<1>19. CASE ResolveLastAdded
  BY <1>1, <1>2, <1>19 DEF ResolveLastAdded, nodeVars, flagVars, taskVars, threadVars
<1>20. CASE MarkGetSink
  BY <1>1, <1>2, <1>20 DEF MarkGetSink, nodeVars, flagVars, taskVars, threadVars
<1>21. CASE MarkFails
  BY <1>1, <1>2, <1>21 DEF MarkFails, nodeVars, flagVars, taskVars, threadVars
<1>22. CASE MarkCompare
  BY <1>1, <1>2, <1>22 DEF MarkCompare, nodeVars, flagVars, taskVars, threadVars
<1>23. CASE MarkSynced
  BY <1>1, <1>2, <1>23 DEF MarkSynced, nodeVars, flagVars, taskVars, threadVars
<1>24. CASE ClearTarget
  BY <1>1, <1>2, <1>24 DEF ClearTarget, nodeVars, flagVars, taskVars, threadVars
<1>25. CASE Release
  BY <1>1, <1>2, <1>25 DEF Release, nodeVars, flagVars, taskVars, threadVars
<1>26. CASE Respawn
  BY <1>1, <1>2, <1>26 DEF Respawn, nodeVars, flagVars, taskVars, threadVars,
     SpawnSyncTask
<1>27. ASSUME NEW last \in Hashes, GetHistoricalData(last) PROVE Stations'
  BY <1>1, <1>2, <1>27 DEF GetHistoricalData, nodeVars, flagVars, taskVars, threadVars
<1>28. CASE HtChanges
  BY <1>1, <1>2, <1>28 DEF HtChanges, nodeVars, flagVars, taskVars, threadVars
<1>29. CASE HtApply
  BY <1>1, <1>2, <1>29 DEF HtApply, nodeVars, flagVars, taskVars, threadVars
<1>30. CASE HtApplied
  BY <1>1, <1>2, <1>30 DEF HtApplied, nodeVars, flagVars, taskVars, threadVars
<1>31. CASE HtSwitch
  BY <1>1, <1>2, <1>31 DEF HtSwitch, nodeVars, flagVars, taskVars, threadVars
<1>32. CASE RtApply
  BY <1>1, <1>2, <1>32 DEF RtApply, nodeVars, flagVars, taskVars, threadVars
<1>33. CASE RtSwitch
  BY <1>1, <1>2, <1>33 DEF RtSwitch, nodeVars, flagVars, taskVars, threadVars
<1>34. CASE RtSend
  BY <1>1, <1>2, <1>34 DEF RtSend, nodeVars, flagVars, taskVars, threadVars
<1>35. CASE Restart
  BY <1>1, <1>2, <1>35 DEF Restart, nodeVars, flagVars, taskVars, threadVars
<1>36. CASE UNCHANGED vars
  BY <1>1, <1>2, <1>36 DEF vars, nodeVars, flagVars, taskVars, threadVars
<1> QED BY <1>3, <1>4, <1>5, <1>6, <1>7, <1>8, <1>9, <1>10, <1>11, <1>12, <1>13, <1>14,
   <1>15, <1>16, <1>17, <1>18, <1>19, <1>20, <1>21, <1>22, <1>23, <1>24, <1>25, <1>26,
   <1>27, <1>28, <1>29, <1>30, <1>31, <1>32, <1>33, <1>34, <1>35, <1>36
   DEF Next, NexusTask, SyncTask, HistoricalThread, RealtimeThread

LEMMA HandedStep == SyncInv /\ [Next]_vars => Handed'
<1> SUFFICES ASSUME SyncInv, [Next]_vars PROVE Handed'
  OBVIOUS
<1> USE DEF Handed, Stations
<1>1. Stations /\ Handed
  BY DEF SyncInv
<1>2. task # "none" <=> sync_task_running
  BY DEF SyncInv, TypeOK
<1>3. reply.progress \in {"Pending", "Reached", "Obsolete"}
  BY DEF SyncInv, TypeOK, Response
<1>4. CASE Connect
  BY <1>1, <1>2, <1>3, <1>4 DEF Connect, nodeVars, flagVars, taskVars, threadVars
<1>5. CASE Disconnect
  BY <1>1, <1>2, <1>3, <1>5 DEF Disconnect, nodeVars, flagVars, taskVars, threadVars
<1>6. ASSUME NEW h \in Hashes, MoveSink(h) PROVE Handed'
  BY <1>1, <1>2, <1>3, <1>6 DEF MoveSink, nodeVars, flagVars, taskVars, threadVars
<1>7. CASE HandleDisconnect
  BY <1>1, <1>2, <1>3, <1>7 DEF HandleDisconnect,
     nodeVars, flagVars, taskVars, threadVars
<1>8. CASE HandleChanged
  BY <1>1, <1>2, <1>3, <1>8 DEF HandleChanged, nodeVars, flagVars, taskVars, threadVars
<1>9. CASE RequestResync
  BY <1>1, <1>2, <1>3, <1>9 DEF RequestResync, nodeVars, flagVars, taskVars, threadVars
<1>10. CASE SwitchToQueueMod
  BY <1>1, <1>2, <1>3, <1>10, SendSwitch DEF SwitchToQueueMod,
     nodeVars, flagVars, taskVars, threadVars
<1>11. CASE UnsetSynced
  BY <1>1, <1>2, <1>3, <1>11 DEF UnsetSynced, nodeVars, flagVars, taskVars, threadVars
<1>12. CASE CheckTarget
  BY <1>1, <1>2, <1>3, <1>12 DEF CheckTarget, nodeVars, flagVars, taskVars, threadVars
<1>13. CASE Spawn
  BY <1>1, <1>2, <1>3, <1>13 DEF Spawn, nodeVars, flagVars, taskVars, threadVars,
     SpawnSyncTask
<1>14. CASE GetSink
  BY <1>1, <1>2, <1>3, <1>14 DEF GetSink, nodeVars, flagVars, taskVars, threadVars
<1>15. CASE AtSink
  BY <1>1, <1>2, <1>3, <1>15 DEF AtSink, nodeVars, flagVars, taskVars, threadVars
<1>16. CASE Reconstruct
  BY <1>1, <1>2, <1>3, <1>16, OneRequest DEF Reconstruct,
     nodeVars, flagVars, taskVars, threadVars
<1>17. CASE ReconstructFails
  BY <1>1, <1>2, <1>3, <1>17 DEF ReconstructFails,
     nodeVars, flagVars, taskVars, threadVars
<1>18. CASE Advance
  <2>1. task' \in {"loop", "mark", "refresh"}
    BY <1>1, <1>3, <1>18 DEF Advance
  <2> QED BY <1>1, <2>1, <1>18 DEF Advance, nodeVars, threadVars
<1>19. CASE RefreshTarget
  BY <1>1, <1>2, <1>3, <1>19 DEF RefreshTarget, nodeVars, flagVars, taskVars, threadVars
<1>20. CASE ResolveLastAdded
  BY <1>1, <1>2, <1>3, <1>20 DEF ResolveLastAdded,
     nodeVars, flagVars, taskVars, threadVars
<1>21. CASE MarkGetSink
  BY <1>1, <1>2, <1>3, <1>21 DEF MarkGetSink, nodeVars, flagVars, taskVars, threadVars
<1>22. CASE MarkFails
  BY <1>1, <1>2, <1>3, <1>22 DEF MarkFails, nodeVars, flagVars, taskVars, threadVars
<1>23. CASE MarkCompare
  BY <1>1, <1>2, <1>3, <1>23, OneRequest DEF MarkCompare,
     nodeVars, flagVars, taskVars, threadVars
<1>24. CASE MarkSynced
  BY <1>1, <1>2, <1>3, <1>24 DEF MarkSynced, nodeVars, flagVars, taskVars, threadVars
<1>25. CASE ClearTarget
  BY <1>1, <1>2, <1>3, <1>25 DEF ClearTarget, nodeVars, flagVars, taskVars, threadVars
<1>26. CASE Release
  BY <1>1, <1>2, <1>3, <1>26 DEF Release, nodeVars, flagVars, taskVars, threadVars
<1>27. CASE Respawn
  BY <1>1, <1>2, <1>3, <1>27 DEF Respawn, nodeVars, flagVars, taskVars, threadVars,
     SpawnSyncTask
<1>28. ASSUME NEW last \in Hashes, GetHistoricalData(last) PROVE Handed'
  BY <1>1, <1>2, <1>3, <1>28 DEF GetHistoricalData, nodeVars, flagVars, taskVars, threadVars
<1>29. CASE HtChanges
  BY <1>1, <1>2, <1>3, <1>29, OneRequest DEF HtChanges,
     nodeVars, flagVars, taskVars, threadVars
<1>30. CASE HtApply
  <2>1. ht = "receive" /\ task = "applying" /\ to_ht = <<"apply">> /\ ~ HoldsApply(to_rt)
    BY <1>1, <1>30, OneRequest DEF HtApply
  <2>2. ht' = "apply" /\ task' = "applying" /\ to_ht' = <<>> /\ to_rt' = Append(to_rt, "apply")
    BY <2>1, <1>30, OneRequest DEF HtApply, taskVars
  <2> QED BY <1>1, <2>1, <2>2, SendApply
<1>31. CASE HtApplied
  BY <1>1, <1>2, <1>3, <1>31 DEF HtApplied, nodeVars, flagVars, taskVars, threadVars
<1>32. CASE HtSwitch
  BY <1>1, <1>2, <1>3, <1>32 DEF HtSwitch, nodeVars, flagVars, taskVars, threadVars
<1>33. CASE RtApply
  <2>1. HoldsApply(to_rt) /\ AtMostOneApply(Tail(to_rt)) /\ ~ HoldsApply(Tail(to_rt))
    BY <1>1, <1>33, Receive DEF RtApply
  <2>2. ht = "apply" /\ task = "applying" /\ to_ht = <<>>
    BY <1>1, <2>1
  <2> QED BY <2>1, <2>2, <1>33 DEF RtApply, taskVars
<1>34. CASE RtSwitch
  <2>1. AtMostOneApply(Tail(to_rt)) /\ (HoldsApply(Tail(to_rt)) => HoldsApply(to_rt))
    BY <1>1, <1>34, Receive DEF RtSwitch
  <2> QED BY <1>1, <2>1, <1>34 DEF RtSwitch, taskVars
<1>35. CASE RtSend
  BY <1>1, <1>2, <1>3, <1>35 DEF RtSend, nodeVars, flagVars, taskVars, threadVars
<1>36. CASE Restart
  BY <1>1, <1>2, <1>3, <1>36, EmptyChannel DEF Restart,
     nodeVars, flagVars, taskVars, threadVars
<1>37. CASE UNCHANGED vars
  BY <1>1, <1>2, <1>3, <1>37 DEF vars, nodeVars, flagVars, taskVars, threadVars
<1> QED BY <1>4, <1>5, <1>6, <1>7, <1>8, <1>9, <1>10, <1>11, <1>12, <1>13, <1>14,
   <1>15, <1>16, <1>17, <1>18, <1>19, <1>20, <1>21, <1>22, <1>23, <1>24, <1>25, <1>26,
   <1>27, <1>28, <1>29, <1>30, <1>31, <1>32, <1>33, <1>34, <1>35, <1>36, <1>37
   DEF Next, NexusTask, SyncTask, HistoricalThread, RealtimeThread

(* The database's blocks, and those of an answer, are blocks above the pruning *)
(* point.                                                                    *)
LEMMA AnswerIs ==
    ASSUME SyncInv, task \in {"resolve", "reconstruct", "processing"}
    PROVE  /\ reply.added \in SUBSET (Hashes \ {Start})
           /\ reply.added # {} => Highest(reply.added) \in reply.added
<1>1. PICK s \in Hashes, last \in Hashes : Answer(s, last)
  BY DEF SyncInv, Answered
<1>2. reply.added \in SUBSET Chain[s]
  BY <1>1 DEF Answer
<1> QED BY <1>1, <1>2, ChainFacts, HighestIs

LEMMA IndexedIs ==
    ASSUME SyncInv
    PROVE  /\ StartingPoint(indexed) \in Hashes
           /\ indexed # {} => Highest(indexed) \in Hashes
<1>1. Landing \in Hashes /\ indexed \in SUBSET Chain[Landing] /\ Start \in Hashes
  BY SyncAssumption DEF SyncInv, Standing
<1> QED BY <1>1, BelowHighest DEF StartingPoint

\* What resolving the last added block does to the answer.
LEMMA Resolved ==
    ASSUME reply \in Response, ResolveLastAdded
    PROVE  /\ task = "resolve" /\ task' \in {"loop", "reconstruct"}
           /\ UNCHANGED <<last_known_block, connected, sink, disconnects, seen>>
           /\ reply'.added = reply.added /\ reply'.removed = reply.removed
           /\ reply'.forced = reply.forced
           /\ task' = "reconstruct" /\ reply'.last_added # None =>
                 reply.added # {} /\ reply'.last_added = Highest(reply.added)
           /\ (reply.added # {} => Highest(reply.added) \in Hashes) => reply' \in Response
<1> DEFINE last == IF reply.added # {} /\ connected THEN Highest(reply.added) ELSE None
           prog == Progress(reply.added, last, TargetOr(seen))
<1>1. /\ task = "resolve" /\ task' \in {"loop", "reconstruct"}
      /\ UNCHANGED <<last_known_block, connected, sink, disconnects, seen>>
      /\ \/ task' = "loop" /\ reply' = reply
         \/ reply' = [reply EXCEPT !.last_added = last, !.progress = prog]
  BY DEF ResolveLastAdded, nodeVars
<1>2. prog \in {"Pending", "Reached", "Obsolete"}
  BY DEF Progress
<1>3. /\ last # None => reply.added # {} /\ last = Highest(reply.added)
      /\ (reply.added # {} => Highest(reply.added) \in Hashes) => last \in Hashes \cup {None}
  OBVIOUS
<1> HIDE DEF last, prog
<1>4. CASE task' = "loop" /\ reply' = reply
  BY <1>1, <1>4
<1>5. CASE reply' = [reply EXCEPT !.last_added = last, !.progress = prog]
  <2>1. /\ reply'.added = reply.added /\ reply'.removed = reply.removed
        /\ reply'.forced = reply.forced /\ reply'.last_added = last
    BY <1>5 DEF Response
  <2>2. last \in Hashes \cup {None} => reply' \in Response
    BY <1>2, <1>5 DEF Response
  <2> QED BY <1>1, <1>3, <2>1, <2>2
<1> QED BY <1>1, <1>4, <1>5

LEMMA TypeOKStep == SyncInv /\ [Next]_vars => TypeOK'
<1> SUFFICES ASSUME SyncInv, [Next]_vars PROVE TypeOK'
  OBVIOUS
<1> USE DEF TypeOK
<1>1. TypeOK
  BY DEF SyncInv
<1>2. notices' \in Nat => notices' \in 0..MaxMoves
  BY CountedStep, SyncAssumption DEF Counted
<1>3. CASE Connect
  BY <1>1, <1>2, <1>3 DEF Connect, nodeVars, flagVars, taskVars, threadVars, pastVars
<1>4. CASE Disconnect
  BY <1>1, <1>2, <1>4 DEF Disconnect, nodeVars, flagVars, taskVars, threadVars, pastVars
<1>5. ASSUME NEW h \in Hashes, MoveSink(h) PROVE TypeOK'
  BY <1>1, <1>2, <1>5 DEF MoveSink, nodeVars, flagVars, taskVars, threadVars, pastVars
<1>6. CASE HandleDisconnect
  BY <1>1, <1>2, <1>6 DEF HandleDisconnect, nodeVars, flagVars, taskVars, threadVars, pastVars
<1>7. CASE HandleChanged
  BY <1>1, <1>2, <1>7 DEF HandleChanged, nodeVars, flagVars, taskVars, threadVars, pastVars
<1>8. CASE RequestResync
  BY <1>1, <1>2, <1>8 DEF RequestResync, nodeVars, flagVars, taskVars, threadVars, pastVars
<1>9. CASE SwitchToQueueMod
  BY <1>1, <1>2, <1>9 DEF SwitchToQueueMod, nodeVars, flagVars, taskVars, threadVars, pastVars
<1>10. CASE UnsetSynced
  BY <1>1, <1>2, <1>10 DEF UnsetSynced, nodeVars, flagVars, taskVars, threadVars, pastVars
<1>11. CASE CheckTarget
  BY <1>1, <1>2, <1>11 DEF CheckTarget, nodeVars, flagVars, taskVars, threadVars, pastVars
<1>12. CASE Spawn
  BY <1>1, <1>2, <1>12 DEF Spawn, nodeVars, flagVars, taskVars, threadVars, pastVars,
     SpawnSyncTask
<1>13. CASE GetSink
  BY <1>1, <1>2, <1>13 DEF GetSink, nodeVars, flagVars, taskVars, threadVars, pastVars
<1>14. CASE AtSink
  BY <1>1, <1>2, <1>14 DEF AtSink, nodeVars, flagVars, taskVars, threadVars, pastVars
<1>15. CASE Reconstruct
  BY <1>1, <1>2, <1>15 DEF Reconstruct, nodeVars, flagVars, taskVars, threadVars, pastVars
<1>16. CASE ReconstructFails
  BY <1>1, <1>2, <1>16 DEF ReconstructFails, nodeVars, flagVars, taskVars, threadVars, pastVars
<1>17. CASE Advance
  <2>1. last_known_block' \in Hashes
    BY <1>1, <1>17, IndexedIs DEF Advance, Response
  <2>2. task' # "none" /\ task # "none"
    BY <1>1, <1>17 DEF Advance, Response
  <2> QED BY <1>1, <1>2, <1>17, <2>1, <2>2 DEF Advance, nodeVars, threadVars, pastVars
<1>18. CASE RefreshTarget
  <2>1. seen \in Hashes
    BY <1>18 DEF SyncInv, Answered, RefreshTarget
  <2> QED BY <1>1, <1>2, <1>18, <2>1 DEF RefreshTarget, nodeVars, threadVars, pastVars
<1>19. CASE ResolveLastAdded
  <2>1. reply.added # {} => Highest(reply.added) \in Hashes
    BY <1>19, AnswerIs DEF ResolveLastAdded
  <2>2. reply' \in Response
    BY <1>1, <2>1, <1>19, Resolved DEF TypeOK
  <2>3. target' \in Hashes \cup {None} /\ task # "none" /\ task' # "none"
    BY <1>1, <1>19 DEF ResolveLastAdded
  <2> QED BY <1>1, <1>2, <2>2, <2>3, <1>19 DEF ResolveLastAdded, nodeVars, threadVars, pastVars
<1>20. CASE MarkGetSink
  <2>1. reply' \in Response
    BY <1>1, <1>20 DEF MarkGetSink, Response
  <2> QED BY <1>1, <1>2, <2>1, <1>20 DEF MarkGetSink, nodeVars, flagVars, threadVars, pastVars
<1>21. CASE MarkFails
  BY <1>1, <1>2, <1>21 DEF MarkFails, nodeVars, flagVars, taskVars, threadVars, pastVars
<1>22. CASE MarkCompare
  <2>1. reply.last_added \in Hashes
    BY <1>22 DEF SyncInv, Answered, MarkCompare
  <2>2. target' \in Hashes \cup {None} /\ seen' \in Hashes \cup {None}
    BY <1>1, <2>1, <1>22 DEF MarkCompare
  <2>3. task # "none" /\ task' # "none" /\ resync_requested' \in BOOLEAN
    BY <1>1, <1>22 DEF MarkCompare
  <2> QED BY <1>1, <1>2, <2>2, <2>3, <1>22 DEF MarkCompare, nodeVars, pastVars
<1>23. CASE MarkSynced
  BY <1>1, <1>2, <1>23 DEF MarkSynced, nodeVars, flagVars, taskVars, threadVars, pastVars
<1>24. CASE ClearTarget
  BY <1>1, <1>2, <1>24 DEF ClearTarget, nodeVars, flagVars, taskVars, threadVars, pastVars
<1>25. CASE Release
  <2>1. task' = "none" /\ sync_task_running' = FALSE /\ leaving' \in Nat
    BY <1>1, <1>25 DEF Release
  <2> QED BY <1>1, <1>2, <2>1, <1>25 DEF Release, nodeVars, threadVars, pastVars
<1>26. CASE Respawn
  <2>1. leaving' \in Nat
    BY <1>1, <1>26 DEF Respawn
  <2>2. sync_task_running' \in BOOLEAN /\ (task' # "none" <=> sync_task_running')
    BY <1>1, <1>26 DEF Respawn, SpawnSyncTask
  <2> QED BY <1>1, <1>2, <2>1, <2>2, <1>26 DEF Respawn, nodeVars, threadVars, pastVars
<1>27. ASSUME NEW last \in Hashes, GetHistoricalData(last) PROVE TypeOK'
  <2>1. Chain[last_known_block] \subseteq Hashes /\ Chain[sink] \subseteq Hashes
    BY <1>1, SyncAssumption
  <2>2. Forced(last_known_block, Chain[last_known_block] \ Chain[sink]) \in BOOLEAN
    BY DEF Forced
  <2>3. reply' \in Response
    BY <1>1, <2>1, <2>2, <1>27 DEF GetHistoricalData, Response, NoResponse
  <2>4. task # "none" /\ task' # "none"
    BY <1>27 DEF GetHistoricalData
  <2> QED BY <1>1, <1>2, <2>3, <2>4, <1>27 DEF GetHistoricalData, nodeVars, flagVars, threadVars, pastVars

<1>28. CASE HtChanges
  <2>1. task = "processing"
    BY <1>28 DEF HtChanges, SyncInv, Handed
  <2>2. indexed' \subseteq Hashes \ {Start}
    BY <1>1, <2>1, <1>28, AnswerIs DEF HtChanges, Process
  <2>3. task' # "none"
    BY <1>28 DEF HtChanges
  <2>4. rewound' \in BOOLEAN
    BY <1>1, <1>28 DEF HtChanges, Response
  <2> QED BY <1>1, <1>2, <2>1, <2>2, <2>3, <2>4, <1>28 DEF HtChanges, nodeVars, flagVars
<1>29. CASE HtApply
  BY <1>1, <1>2, <1>29 DEF HtApply, nodeVars, flagVars, taskVars, threadVars, pastVars
<1>30. CASE HtApplied
  <2>1. task = "applying" /\ task' # "none"
    BY <1>30 DEF HtApplied, SyncInv, Handed
  <2> QED BY <1>1, <1>2, <2>1, <1>30 DEF HtApplied, nodeVars, flagVars, pastVars
<1>31. CASE HtSwitch
  BY <1>1, <1>2, <1>31 DEF HtSwitch, nodeVars, flagVars, taskVars, threadVars, pastVars
<1>32. CASE RtApply
  BY <1>1, <1>2, <1>32 DEF RtApply, nodeVars, flagVars, taskVars, threadVars, pastVars
<1>33. CASE RtSwitch
  BY <1>1, <1>2, <1>33 DEF RtSwitch, nodeVars, flagVars, taskVars, threadVars, pastVars
<1>34. CASE RtSend
  BY <1>1, <1>2, <1>34 DEF RtSend, nodeVars, flagVars, taskVars, threadVars, pastVars
<1>35. CASE Restart
  <2>1. NoResponse \in Response
    BY DEF NoResponse, Response
  <2> QED BY <1>1, <1>2, <1>35, IndexedIs, SyncAssumption, <2>1 DEF Restart,
     nodeVars, flagVars, taskVars, threadVars, pastVars
<1>36. CASE UNCHANGED vars
  BY <1>1, <1>2, <1>36 DEF vars, nodeVars, flagVars, taskVars, threadVars, pastVars
<1> QED BY <1>3, <1>4, <1>5, <1>6, <1>7, <1>8, <1>9, <1>10, <1>11, <1>12, <1>13, <1>14,
   <1>15, <1>16, <1>17, <1>18, <1>19, <1>20, <1>21, <1>22, <1>23, <1>24, <1>25, <1>26,
   <1>27, <1>28, <1>29, <1>30, <1>31, <1>32, <1>33, <1>34, <1>35, <1>36
   DEF Next, NexusTask, SyncTask, HistoricalThread, RealtimeThread

(* Processing an answer leaves blocks of the answered chain below the last block of *)
(* the answer, if there is one.                                              *)
LEMMA ProcessKeeps ==
    ASSUME NEW s \in Hashes, NEW last \in Hashes, Answer(s, last), last_known_block \in Hashes,
           indexed \subseteq Chain[last_known_block],
           reply.last_added # None => reply.added # {} /\ reply.last_added = Highest(reply.added)
    PROVE  /\ Process(indexed, reply) \subseteq Chain[s]
           /\ reply.last_added # None =>
                 /\ reply.last_added \in Chain[s] \ Chain[last_known_block]
                 /\ Process(indexed, reply) \subseteq Chain[reply.last_added]
<1> DEFINE scores == {Blue[h] : h \in reply.removed \cap indexed}
                     \cup (IF reply.forced THEN {Blue[last_known_block]} ELSE {})
           kept   == {h \in indexed : \A n \in scores : Blue[h] < n}
<1>1. kept \subseteq Chain[last_known_block] \cap Chain[s]
  <2> SUFFICES ASSUME NEW h \in kept, h \notin Chain[s] PROVE FALSE
    OBVIOUS
  <2>1. h \in reply.removed \cap indexed
    BY DEF Answer
  <2>2. Blue[h] < Blue[h] /\ Blue[h] \in Nat
    BY <2>1, ChainFacts
  <2> QED BY <2>2
<1>2. reply.added \subseteq Chain[s] \ Chain[last_known_block]
  BY DEF Answer
<1>3. Process(indexed, reply) \subseteq kept \cup reply.added
  BY DEF Process
<1> HIDE DEF kept
<1>4. ASSUME reply.last_added # None
      PROVE  /\ reply.last_added \in Chain[s] \ Chain[last_known_block]
             /\ kept \cup reply.added \subseteq Chain[reply.last_added]
  <2> DEFINE a == reply.last_added
  <2>1. a \in reply.added /\ \A x \in reply.added : Blue[x] <= Blue[a]
    BY <1>2, <1>4, HighestIs
  <2>2. a \in Chain[s] \ Chain[last_known_block]
    BY <1>2, <2>1
  <2>3. Chain[a] = {x \in Chain[s] : Blue[x] <= Blue[a]}
    BY <2>2, ChainFacts
  <2>4. \A x \in kept : x \in Chain[s] /\ Blue[x] \in Nat /\ Blue[a] \in Nat /\ Blue[x] < Blue[a]
    BY <1>1, <2>2, SharedBelow, ChainFacts
  <2>5. kept \subseteq Chain[a]
    BY <2>3, <2>4
  <2>6. reply.added \subseteq Chain[a]
    BY <1>2, <2>1, <2>3
  <2> QED BY <2>2, <2>5, <2>6
<1> QED BY <1>1, <1>2, <1>3, <1>4

(* A step that moves neither the last known block nor the answer. *)
LEMMA LandingStays ==
    /\ task # "advance" /\ task' # "advance" /\ UNCHANGED last_known_block => UNCHANGED Landing
    /\ UNCHANGED <<task, reply, indexed, last_known_block>> => UNCHANGED Landing
BY DEF Landing

LEMMA AnswerStays ==
    ASSUME UNCHANGED last_known_block, reply'.added = reply.added,
           reply'.removed = reply.removed, reply'.forced = reply.forced
    PROVE  \A s, last \in Hashes : Answer(s, last) => Answer(s, last)'
BY DEF Answer

LEMMA StandingStep == SyncInv /\ [Next]_vars => Standing'
<1> SUFFICES ASSUME SyncInv, [Next]_vars PROVE Standing'
  OBVIOUS
<1> USE DEF Standing
<1>1. Standing
  BY DEF SyncInv
<1>2. /\ task # "advance" /\ task' # "advance" /\ UNCHANGED last_known_block => UNCHANGED Landing
      /\ UNCHANGED <<task, reply, indexed, last_known_block>> => UNCHANGED Landing
  BY LandingStays
<1>3. task # "none" <=> sync_task_running
  BY DEF SyncInv, TypeOK
<1>4. CASE Connect
  BY <1>1, <1>2, <1>3, <1>4 DEF Connect, nodeVars, flagVars, taskVars, threadVars
<1>5. CASE Disconnect
  BY <1>1, <1>2, <1>3, <1>5 DEF Disconnect, nodeVars, flagVars, taskVars, threadVars
<1>6. ASSUME NEW h \in Hashes, MoveSink(h) PROVE Standing'
  BY <1>1, <1>2, <1>3, <1>6 DEF MoveSink, nodeVars, flagVars, taskVars, threadVars
<1>7. CASE HandleDisconnect
  BY <1>1, <1>2, <1>3, <1>7 DEF HandleDisconnect,
     nodeVars, flagVars, taskVars, threadVars
<1>8. CASE HandleChanged
  BY <1>1, <1>2, <1>3, <1>8 DEF HandleChanged, nodeVars, flagVars, taskVars, threadVars
<1>9. CASE RequestResync
  BY <1>1, <1>2, <1>3, <1>9 DEF RequestResync, nodeVars, flagVars, taskVars, threadVars
<1>10. CASE SwitchToQueueMod
  BY <1>1, <1>2, <1>3, <1>10 DEF SwitchToQueueMod,
     nodeVars, flagVars, taskVars, threadVars
<1>11. CASE UnsetSynced
  BY <1>1, <1>2, <1>3, <1>11 DEF UnsetSynced, nodeVars, flagVars, taskVars, threadVars
<1>12. CASE CheckTarget
  BY <1>1, <1>2, <1>3, <1>12 DEF CheckTarget, nodeVars, flagVars, taskVars, threadVars
<1>13. CASE Spawn
  BY <1>1, <1>2, <1>3, <1>13 DEF Spawn, nodeVars, flagVars, taskVars, threadVars,
     SpawnSyncTask
<1>14. CASE GetSink
  BY <1>1, <1>2, <1>3, <1>14 DEF GetSink, nodeVars, flagVars, taskVars, threadVars
<1>15. CASE AtSink
  BY <1>1, <1>2, <1>3, <1>15 DEF AtSink, nodeVars, flagVars, taskVars, threadVars
<1>16. CASE Reconstruct
  BY <1>1, <1>2, <1>3, <1>16 DEF Reconstruct, nodeVars, flagVars, taskVars, threadVars
<1>17. CASE ReconstructFails
  BY <1>1, <1>2, <1>3, <1>17 DEF ReconstructFails,
     nodeVars, flagVars, taskVars, threadVars
<1>18. CASE Advance
  <2>1. last_known_block' = Landing /\ task' # "advance"
    BY <1>18 DEF Advance, Landing, SyncInv, TypeOK, Response
  <2>2. Landing' = Landing
    BY <2>1 DEF Landing
  <2> QED BY <1>1, <2>2, <1>18 DEF Advance, threadVars
<1>19. CASE RefreshTarget
  BY <1>1, <1>2, <1>3, <1>19 DEF RefreshTarget, nodeVars, flagVars, taskVars, threadVars
<1>20. CASE ResolveLastAdded
  BY <1>1, <1>2, <1>3, <1>20 DEF ResolveLastAdded,
     nodeVars, flagVars, taskVars, threadVars
<1>21. CASE MarkGetSink
  BY <1>1, <1>2, <1>3, <1>21 DEF MarkGetSink, nodeVars, flagVars, taskVars, threadVars
<1>22. CASE MarkFails
  BY <1>1, <1>2, <1>3, <1>22 DEF MarkFails, nodeVars, flagVars, taskVars, threadVars
<1>23. CASE MarkCompare
  BY <1>1, <1>2, <1>3, <1>23 DEF MarkCompare, nodeVars, flagVars, taskVars, threadVars
<1>24. CASE MarkSynced
  BY <1>1, <1>2, <1>3, <1>24 DEF MarkSynced, nodeVars, flagVars, taskVars, threadVars
<1>25. CASE ClearTarget
  BY <1>1, <1>2, <1>3, <1>25 DEF ClearTarget, nodeVars, flagVars, taskVars, threadVars
<1>26. CASE Release
  BY <1>1, <1>2, <1>3, <1>26 DEF Release, nodeVars, flagVars, taskVars, threadVars
<1>27. CASE Respawn
  BY <1>1, <1>2, <1>3, <1>27 DEF Respawn, nodeVars, flagVars, taskVars, threadVars,
     SpawnSyncTask
<1>28. ASSUME NEW last \in Hashes, GetHistoricalData(last) PROVE Standing'
  BY <1>1, <1>2, <1>3, <1>28 DEF GetHistoricalData, nodeVars, flagVars, taskVars, threadVars
<1>29. CASE HtChanges
  <2>1. task = "processing" /\ task' = "advance" /\ UNCHANGED <<reply, last_known_block>>
    BY <1>29 DEF HtChanges, SyncInv, Handed, flagVars
  <2>2. last_known_block \in Hashes /\ indexed \subseteq Chain[last_known_block]
    BY <1>1, <2>1 DEF Landing
  <2>3. PICK s, last \in Hashes : Answer(s, last)
    BY <2>1 DEF SyncInv, Answered
  <2>4. reply.last_added # None => reply.added # {} /\ reply.last_added = Highest(reply.added)
    BY <2>1 DEF SyncInv, Answered
  <2>5. /\ indexed' \subseteq Chain[s]
        /\ reply.last_added # None =>
              reply.last_added \in Chain[s] /\ indexed' \subseteq Chain[reply.last_added]
    BY <1>29, <2>2, <2>3, <2>4, ProcessKeeps DEF HtChanges
  <2>6. CASE reply.last_added # None
    BY <2>1, <2>3, <2>5, <2>6, ChainFacts DEF Landing
  <2>7. CASE reply.last_added = None /\ indexed' # {}
    BY <2>1, <2>5, <2>7, BelowHighest DEF Landing
  <2>8. CASE reply.last_added = None /\ indexed' = {}
    BY <2>1, <2>2, <2>8 DEF Landing
  <2> QED BY <2>6, <2>7, <2>8
<1>30. CASE HtApply
  BY <1>1, <1>2, <1>3, <1>30 DEF HtApply, nodeVars, flagVars, taskVars, threadVars
<1>31. CASE HtApplied
  <2>1. task = "applying"
    BY <1>31 DEF HtApplied, SyncInv, Handed
  <2> QED BY <1>1, <1>2, <1>3, <2>1, <1>31 DEF HtApplied,
     nodeVars, flagVars, threadVars
<1>32. CASE HtSwitch
  BY <1>1, <1>2, <1>3, <1>32 DEF HtSwitch, nodeVars, flagVars, taskVars, threadVars
<1>33. CASE RtApply
  BY <1>1, <1>2, <1>3, <1>33 DEF RtApply, nodeVars, flagVars, taskVars, threadVars
<1>34. CASE RtSwitch
  BY <1>1, <1>2, <1>3, <1>34 DEF RtSwitch, nodeVars, flagVars, taskVars, threadVars
<1>35. CASE RtSend
  BY <1>1, <1>2, <1>3, <1>35 DEF RtSend, nodeVars, flagVars, taskVars, threadVars
<1>36. CASE Restart
  <2>1. Landing' = StartingPoint(indexed) /\ indexed' = indexed
    BY <1>36 DEF Restart, Landing
  <2>2. StartingPoint(indexed) \in Hashes
    BY IndexedIs
  <2>3. indexed # {} => indexed \subseteq Chain[Highest(indexed)]
    BY <1>1, BelowHighest
  <2> QED BY <2>1, <2>2, <2>3 DEF StartingPoint
<1>37. CASE UNCHANGED vars
  BY <1>1, <1>2, <1>3, <1>37 DEF vars, nodeVars, flagVars, taskVars, threadVars
<1> QED BY <1>4, <1>5, <1>6, <1>7, <1>8, <1>9, <1>10, <1>11, <1>12, <1>13, <1>14,
   <1>15, <1>16, <1>17, <1>18, <1>19, <1>20, <1>21, <1>22, <1>23, <1>24, <1>25, <1>26,
   <1>27, <1>28, <1>29, <1>30, <1>31, <1>32, <1>33, <1>34, <1>35, <1>36, <1>37
   DEF Next, NexusTask, SyncTask, HistoricalThread, RealtimeThread

LEMMA AnsweredStep == SyncInv /\ [Next]_vars => Answered'
<1> SUFFICES ASSUME SyncInv, [Next]_vars PROVE Answered'
  OBVIOUS
<1> USE DEF Answered
<1>1. Answered
  BY DEF SyncInv
<1>2. UNCHANGED <<last_known_block, reply>> => \A s, last \in Hashes : Answer(s, last) => Answer(s, last)'
  BY AnswerStays
<1>3. task # "none" <=> sync_task_running
  BY DEF SyncInv, TypeOK
<1>4. CASE Connect
  BY <1>1, <1>2, <1>3, <1>4 DEF Connect, nodeVars, flagVars, taskVars, threadVars
<1>5. CASE Disconnect
  BY <1>1, <1>2, <1>3, <1>5 DEF Disconnect, nodeVars, flagVars, taskVars, threadVars
<1>6. ASSUME NEW h \in Hashes, MoveSink(h) PROVE Answered'
  BY <1>1, <1>2, <1>3, <1>6 DEF MoveSink, nodeVars, flagVars, taskVars, threadVars
<1>7. CASE HandleDisconnect
  BY <1>1, <1>2, <1>3, <1>7 DEF HandleDisconnect,
     nodeVars, flagVars, taskVars, threadVars
<1>8. CASE HandleChanged
  BY <1>1, <1>2, <1>3, <1>8 DEF HandleChanged, nodeVars, flagVars, taskVars, threadVars
<1>9. CASE RequestResync
  BY <1>1, <1>2, <1>3, <1>9 DEF RequestResync, nodeVars, flagVars, taskVars, threadVars
<1>10. CASE SwitchToQueueMod
  BY <1>1, <1>2, <1>3, <1>10 DEF SwitchToQueueMod,
     nodeVars, flagVars, taskVars, threadVars
<1>11. CASE UnsetSynced
  BY <1>1, <1>2, <1>3, <1>11 DEF UnsetSynced, nodeVars, flagVars, taskVars, threadVars
<1>12. CASE CheckTarget
  BY <1>1, <1>2, <1>3, <1>12 DEF CheckTarget, nodeVars, flagVars, taskVars, threadVars
<1>13. CASE Spawn
  BY <1>1, <1>2, <1>3, <1>13 DEF Spawn, nodeVars, flagVars, taskVars, threadVars,
     SpawnSyncTask
<1>14. CASE GetSink
  <2>1. task' = "loop" /\ seen' \in Hashes
    BY <1>1, <1>14 DEF GetSink, SyncInv, TypeOK
  <2> QED BY <2>1
<1>15. CASE AtSink
  BY <1>1, <1>2, <1>3, <1>15 DEF AtSink, nodeVars, flagVars, taskVars, threadVars
<1>16. CASE Reconstruct
  BY <1>1, <1>2, <1>3, <1>16 DEF Reconstruct, nodeVars, flagVars, taskVars, threadVars
<1>17. CASE ReconstructFails
  BY <1>1, <1>2, <1>3, <1>17 DEF ReconstructFails,
     nodeVars, flagVars, taskVars, threadVars
<1>18. CASE Advance
  <2>1. task = "advance" /\ task' \in {"loop", "mark", "refresh"} /\ UNCHANGED seen
    BY <1>18 DEF Advance, SyncInv, TypeOK, Response
  <2> QED BY <1>1, <2>1
<1>19. CASE RefreshTarget
  <2>1. task' = "loop" /\ seen' \in Hashes
    BY <1>1, <1>19 DEF RefreshTarget, SyncInv, TypeOK
  <2> QED BY <2>1
<1>20. CASE ResolveLastAdded
  <2>0. reply \in Response
    BY DEF SyncInv, TypeOK
  <2>1. /\ task = "resolve" /\ task' \in {"loop", "reconstruct"} /\ UNCHANGED <<seen, last_known_block>>
        /\ reply'.added = reply.added /\ reply'.removed = reply.removed /\ reply'.forced = reply.forced
    BY <1>20, <2>0, Resolved
  <2>2. task' = "reconstruct" /\ reply'.last_added # None =>
           reply.added # {} /\ reply'.last_added = Highest(reply.added)
    BY <1>20, <2>0, Resolved
  <2>3. PICK s, last \in Hashes : Answer(s, last)
    BY <1>1, <2>1
  <2>4. Answer(s, last)'
    BY <2>1, <2>3, AnswerStays
  <2> QED BY <1>1, <2>1, <2>2, <2>4
<1>21. CASE MarkGetSink
  <2>1. reply'.last_added \in Hashes
    BY <1>21 DEF MarkGetSink, SyncInv, TypeOK, Response
  <2> QED BY <2>1, <1>21 DEF MarkGetSink
<1>22. CASE MarkFails
  <2>1. task' = "loop" /\ seen' \in Hashes
    BY <1>1, <1>22 DEF MarkFails, SyncInv, TypeOK
  <2> QED BY <2>1
<1>23. CASE MarkCompare
  <2>1. task' \in {"loop", "applying"} /\ (task' = "loop" => seen' \in Hashes)
    BY <1>1, <1>23 DEF MarkCompare
  <2> QED BY <2>1
<1>24. CASE MarkSynced
  BY <1>1, <1>2, <1>3, <1>24 DEF MarkSynced, nodeVars, flagVars, taskVars, threadVars
<1>25. CASE ClearTarget
  BY <1>1, <1>2, <1>3, <1>25 DEF ClearTarget, nodeVars, flagVars, taskVars, threadVars
<1>26. CASE Release
  BY <1>1, <1>2, <1>3, <1>26 DEF Release, nodeVars, flagVars, taskVars, threadVars
<1>27. CASE Respawn
  BY <1>1, <1>2, <1>3, <1>27 DEF Respawn, nodeVars, flagVars, taskVars, threadVars,
     SpawnSyncTask
<1>28. ASSUME NEW last \in Hashes, GetHistoricalData(last) PROVE Answered'
  <2> DEFINE removed == Chain[last_known_block] \ Chain[sink]
             joining == Chain[sink] \ Chain[last_known_block]
  <2>1. seen \in Hashes /\ sink \in Hashes /\ last_known_block \in Hashes
    BY <1>28 DEF SyncInv, Answered, TypeOK, GetHistoricalData
  <2>2. sink # Start
    <3>1. last_known_block # seen
      BY <1>28 DEF GetHistoricalData
    <3> QED BY <2>1, <3>1, SyncAssumption DEF SyncInv, AtStart
  <2>3. /\ reply'.forced = Forced(last_known_block, removed)
        /\ reply'.removed = IF Forced(last_known_block, removed) THEN removed \cup {last_known_block}
                            ELSE removed
        /\ reply'.added = {h \in joining : Blue[h] <= Blue[last]}
        /\ last_known_block' = last_known_block
        /\ joining # {} => last \in joining
    BY <1>28 DEF GetHistoricalData, NoResponse, flagVars
  <2>4. last \in joining => last \in reply'.added
    <3>1. Blue[last] \in Nat
      BY SyncAssumption
    <3> QED BY <2>3, <3>1
  <2>5. \A s \in Hashes : s = sink => Answer(s, last)'
    BY <2>2, <2>3, <2>4 DEF Answer
  <2>6. task' = "resolve" /\ seen' = seen
    BY <1>28 DEF GetHistoricalData
  <2> QED BY <2>1, <2>5, <2>6

<1>29. CASE HtChanges
  <2>1. task = "processing" /\ task' = "advance" /\ UNCHANGED seen
    BY <1>29 DEF HtChanges, SyncInv, Handed
  <2> QED BY <1>1, <2>1
<1>30. CASE HtApply
  BY <1>1, <1>2, <1>3, <1>30 DEF HtApply, nodeVars, flagVars, taskVars, threadVars
<1>31. CASE HtApplied
  BY <1>1, <1>2, <1>3, <1>31 DEF HtApplied, nodeVars, flagVars, taskVars, threadVars
<1>32. CASE HtSwitch
  BY <1>1, <1>2, <1>3, <1>32 DEF HtSwitch, nodeVars, flagVars, taskVars, threadVars
<1>33. CASE RtApply
  BY <1>1, <1>2, <1>3, <1>33 DEF RtApply, nodeVars, flagVars, taskVars, threadVars
<1>34. CASE RtSwitch
  BY <1>1, <1>2, <1>3, <1>34 DEF RtSwitch, nodeVars, flagVars, taskVars, threadVars
<1>35. CASE RtSend
  BY <1>1, <1>2, <1>3, <1>35 DEF RtSend, nodeVars, flagVars, taskVars, threadVars
<1>36. CASE Restart
  BY <1>1, <1>2, <1>3, <1>36 DEF Restart, nodeVars, flagVars, taskVars, threadVars
<1>37. CASE UNCHANGED vars
  BY <1>1, <1>2, <1>3, <1>37 DEF vars, nodeVars, flagVars, taskVars, threadVars
<1> QED BY <1>4, <1>5, <1>6, <1>7, <1>8, <1>9, <1>10, <1>11, <1>12, <1>13, <1>14,
   <1>15, <1>16, <1>17, <1>18, <1>19, <1>20, <1>21, <1>22, <1>23, <1>24, <1>25, <1>26,
   <1>27, <1>28, <1>29, <1>30, <1>31, <1>32, <1>33, <1>34, <1>35, <1>36, <1>37
   DEF Next, NexusTask, SyncTask, HistoricalThread, RealtimeThread

(* Nothing but the node's first move changes what is known before it.  *)
LEMMA AtStartStep == SyncInv /\ [Next]_vars => AtStart'
<1> SUFFICES ASSUME SyncInv, [Next]_vars PROVE AtStart'
  OBVIOUS
<1> USE DEF AtStart
<1>1. AtStart
  BY DEF SyncInv
<1>2. task # "none" <=> sync_task_running
  BY DEF SyncInv, TypeOK
<1>3. CASE Connect
  BY <1>1, <1>2, <1>3 DEF Connect, nodeVars, flagVars, taskVars, threadVars
<1>4. CASE Disconnect
  BY <1>1, <1>2, <1>4 DEF Disconnect, nodeVars, flagVars, taskVars, threadVars
<1>5. ASSUME NEW h \in Hashes, MoveSink(h) PROVE AtStart'
  BY <1>5, SyncAssumption DEF MoveSink
<1>6. CASE HandleDisconnect
  BY <1>1, <1>2, <1>6 DEF HandleDisconnect, nodeVars, flagVars, taskVars, threadVars
<1>7. CASE HandleChanged
  BY <1>1, <1>2, <1>7 DEF HandleChanged, nodeVars, flagVars, taskVars, threadVars
<1>8. CASE RequestResync
  BY <1>1, <1>2, <1>8 DEF RequestResync, nodeVars, flagVars, taskVars, threadVars
<1>9. CASE SwitchToQueueMod
  BY <1>1, <1>2, <1>9 DEF SwitchToQueueMod, nodeVars, flagVars, taskVars, threadVars
<1>10. CASE UnsetSynced
  BY <1>1, <1>2, <1>10 DEF UnsetSynced, nodeVars, flagVars, taskVars, threadVars
<1>11. CASE CheckTarget
  BY <1>1, <1>2, <1>11 DEF CheckTarget, nodeVars, flagVars, taskVars, threadVars
<1>12. CASE Spawn
  BY <1>1, <1>2, <1>12 DEF Spawn, nodeVars, flagVars, taskVars, threadVars, SpawnSyncTask
<1>13. CASE GetSink
  BY <1>1, <1>2, <1>13 DEF GetSink, nodeVars, flagVars, taskVars, threadVars
<1>14. CASE AtSink
  BY <1>1, <1>2, <1>14 DEF AtSink, nodeVars, flagVars, taskVars, threadVars
<1>15. CASE Reconstruct
  BY <1>1, <1>2, <1>15 DEF Reconstruct, nodeVars, flagVars, taskVars, threadVars
<1>16. CASE ReconstructFails
  BY <1>1, <1>2, <1>16 DEF ReconstructFails, nodeVars, flagVars, taskVars, threadVars
<1>17. CASE Advance
  BY <1>1, <1>2, <1>17 DEF Advance, nodeVars, flagVars, taskVars, threadVars
<1>18. CASE RefreshTarget
  BY <1>1, <1>2, <1>18 DEF RefreshTarget, nodeVars, flagVars, taskVars, threadVars
<1>19. CASE ResolveLastAdded
  BY <1>1, <1>2, <1>19 DEF ResolveLastAdded, nodeVars, flagVars, taskVars, threadVars
<1>20. CASE MarkGetSink
  BY <1>1, <1>2, <1>20 DEF MarkGetSink, nodeVars, flagVars, taskVars, threadVars
<1>21. CASE MarkFails
  BY <1>1, <1>2, <1>21 DEF MarkFails, nodeVars, flagVars, taskVars, threadVars
<1>22. CASE MarkCompare
  BY <1>1, <1>2, <1>22 DEF MarkCompare, nodeVars, flagVars, taskVars, threadVars
<1>23. CASE MarkSynced
  BY <1>1, <1>2, <1>23 DEF MarkSynced, nodeVars, flagVars, taskVars, threadVars
<1>24. CASE ClearTarget
  BY <1>1, <1>2, <1>24 DEF ClearTarget, nodeVars, flagVars, taskVars, threadVars
<1>25. CASE Release
  BY <1>1, <1>2, <1>25 DEF Release, nodeVars, flagVars, taskVars, threadVars
<1>26. CASE Respawn
  BY <1>1, <1>2, <1>26 DEF Respawn, nodeVars, flagVars, taskVars, threadVars, SpawnSyncTask
<1>27. ASSUME NEW last \in Hashes, GetHistoricalData(last) PROVE AtStart'
  <2>1. task = "loop" /\ last_known_block # seen /\ UNCHANGED sink
    BY <1>27 DEF GetHistoricalData, nodeVars
  <2>2. seen # None
    BY <2>1, SyncAssumption DEF SyncInv, Answered
  <2> QED BY <1>1, <2>1, <2>2
<1>28. CASE HtChanges
  <2>1. task = "processing" /\ UNCHANGED <<sink, flagVars, seen>>
    BY <1>28 DEF HtChanges, nodeVars, SyncInv, Handed
  <2> QED BY <1>1, <2>1
<1>29. CASE HtApply
  BY <1>1, <1>2, <1>29 DEF HtApply, nodeVars, flagVars, taskVars, threadVars
<1>30. CASE HtApplied
  <2>1. task = "applying" /\ UNCHANGED <<sink, flagVars, seen>>
    BY <1>30 DEF HtApplied, nodeVars, SyncInv, Handed
  <2>2. task' = "finish" /\ UNCHANGED indexed
    BY <1>30 DEF HtApplied
  <2> QED BY <1>1, <2>1, <2>2 DEF flagVars
<1>31. CASE HtSwitch
  BY <1>1, <1>2, <1>31 DEF HtSwitch, nodeVars, flagVars, taskVars, threadVars
<1>32. CASE RtApply
  BY <1>1, <1>2, <1>32 DEF RtApply, nodeVars, flagVars, taskVars, threadVars
<1>33. CASE RtSwitch
  BY <1>1, <1>2, <1>33 DEF RtSwitch, nodeVars, flagVars, taskVars, threadVars
<1>34. CASE RtSend
  BY <1>1, <1>2, <1>34 DEF RtSend, nodeVars, flagVars, taskVars, threadVars
<1>35. CASE Restart
  <2>1. task' = "start" /\ seen' = None /\ target' = None /\ UNCHANGED <<sink, indexed>>
        /\ last_known_block' = StartingPoint(indexed)
    BY <1>35 DEF Restart
  <2> QED BY <1>1, <2>1 DEF StartingPoint
<1>36. CASE UNCHANGED vars
  BY <1>1, <1>2, <1>36 DEF vars, nodeVars, flagVars, taskVars, threadVars
<1> QED BY <1>3, <1>4, <1>5, <1>6, <1>7, <1>8, <1>9, <1>10, <1>11, <1>12, <1>13,
   <1>14, <1>15, <1>16, <1>17, <1>18, <1>19, <1>20, <1>21, <1>22, <1>23, <1>24,
   <1>25, <1>26, <1>27, <1>28, <1>29, <1>30, <1>31, <1>32, <1>33, <1>34, <1>35,
   <1>36
   DEF Next, NexusTask, SyncTask, HistoricalThread, RealtimeThread

LEMMA SyncInvStep == SyncInv /\ [Next]_vars => SyncInv'
BY TypeOKStep, CountedStep, StationsStep, HandedStep, StandingStep, AnsweredStep,
   AtStartStep DEF SyncInv

LEMMA SyncInvAlways == Spec => []SyncInv
BY InitInv, SyncInvStep, PTL DEF Spec

(* The syncer's variables keep their types (syncer.rs): the sync task is where its *)
(* claim says, the last known block is a block, and no answer is malformed.   *)
THEOREM SyncTypes == Spec => []TypeOK
<1>1. SyncInv => TypeOK
  BY DEF SyncInv
<1> QED BY <1>1, SyncInvAlways, PTL

(* The database holds blocks of one branch: whatever the node selects, drops or    *)
(* answers, and whenever the indexer stops, no block of another branch is left *)
(* once the processor has answered (process_chain_changes, processor.rs).    *)
THEOREM OneBranch == Spec => [](task \notin {"processing", "advance"} =>
                                   indexed \subseteq Chain[last_known_block])
<1>1. SyncInv => (task \notin {"processing", "advance"} =>
                     indexed \subseteq Chain[last_known_block])
  BY DEF SyncInv, Standing, Landing
<1> QED BY <1>1, SyncInvAlways, PTL
-----------------------------------------------------------------------------
(* No block is missing until a forced rollback.                              *)

(* An answer to a task whose last known block the node did not remove by force: the *)
(* processor ends with the chain of the last block of the answer, or with that of *)
(* the sink it speaks of when nothing joins.                                 *)
LEMMA ProcessLands ==
    ASSUME NEW s \in Hashes, NEW last \in Hashes, Answer(s, last), last_known_block \in Hashes,
           indexed = Chain[last_known_block], ~ reply.forced
    PROVE  /\ reply.added = {} => Process(indexed, reply) = Chain[s]
           /\ reply.added # {} =>
                 /\ Highest(reply.added) \in reply.added
                 /\ Process(indexed, reply) = Chain[Highest(reply.added)]
<1> DEFINE scores == {Blue[h] : h \in reply.removed \cap indexed}
                     \cup (IF reply.forced THEN {Blue[last_known_block]} ELSE {})
           kept   == {h \in indexed : \A n \in scores : Blue[h] < n}
           shared == Chain[last_known_block] \cap Chain[s]
           a      == Highest(reply.added)
<1>1. reply.removed = Chain[last_known_block] \ Chain[s]
  BY DEF Answer
<1>2. reply.added = {h \in Chain[s] \ Chain[last_known_block] : Blue[h] <= Blue[last]}
  BY DEF Answer
<1>3. kept = shared
  <2>1. ASSUME NEW h \in kept PROVE h \in shared
    <3> SUFFICES ASSUME h \notin Chain[s] PROVE FALSE
      OBVIOUS
    <3>1. Blue[h] < Blue[h] /\ Blue[h] \in Nat
      BY <1>1, ChainFacts
    <3> QED BY <3>1
  <2>2. ASSUME NEW h \in shared, NEW d \in Chain[last_known_block] \ Chain[s]
        PROVE  Blue[h] < Blue[d]
    BY SharedBelow
  <2>3. ASSUME NEW h \in shared PROVE h \in kept
    BY <1>1, <2>2
  <2> QED BY <2>1, <2>3
<1>4. Process(indexed, reply) = kept \cup {h \in reply.added : Blue[h] >= LastBlue(kept)}
  BY DEF Process
<1> HIDE DEF kept
<1>5. ASSUME NEW h \in reply.added PROVE Blue[h] >= LastBlue(kept)
  <2>1. Blue[h] \in Nat
    BY <1>2, ChainFacts
  <2>2. CASE kept = {}
    BY <2>1, <2>2 DEF LastBlue
  <2>3. CASE kept # {}
    <3>1. Highest(kept) \in shared
      BY <1>3, <2>3, HighestIs
    <3>2. Blue[Highest(kept)] < Blue[h] /\ Blue[Highest(kept)] \in Nat
      BY <1>2, <3>1, SharedBelow, ChainFacts
    <3> QED BY <2>1, <2>3, <3>2 DEF LastBlue
  <2> QED BY <2>2, <2>3
<1>6. Process(indexed, reply) = shared \cup reply.added
  BY <1>3, <1>4, <1>5
<1>7. ASSUME reply.added = {} PROVE Process(indexed, reply) = Chain[s]
  BY <1>6, <1>7 DEF Answer
<1>8. ASSUME reply.added # {}
      PROVE  a \in reply.added /\ Process(indexed, reply) = Chain[a]
  <2>1. a \in reply.added /\ \A x \in reply.added : Blue[x] <= Blue[a]
    BY <1>2, <1>8, HighestIs
  <2>2. Chain[a] = {x \in Chain[s] : Blue[x] <= Blue[a]}
    BY <1>2, <2>1, ChainFacts
  <2>3. ASSUME NEW x \in shared PROVE x \in Chain[a]
    <3>1. Blue[x] < Blue[a] /\ Blue[x] \in Nat /\ Blue[a] \in Nat
      BY <1>2, <2>1, SharedBelow, ChainFacts
    <3> QED BY <2>2, <3>1
  <2>4. ASSUME NEW x \in Chain[a] PROVE x \in shared \cup reply.added
    <3>1. x \in Chain[s] /\ Blue[x] <= Blue[a] /\ Blue[a] <= Blue[last]
      BY <1>2, <2>1, <2>2
    <3>2. Blue[x] \in Nat /\ Blue[a] \in Nat /\ Blue[last] \in Nat
      BY <1>2, <2>1, <3>1, ChainFacts, SyncAssumption
    <3> QED BY <1>2, <3>1, <3>2
  <2>5. \A x \in reply.added : x \in Chain[a]
    BY <1>2, <2>1, <2>2
  <2> QED BY <1>6, <2>1, <2>3, <2>4, <2>5
<1> QED BY <1>7, <1>8

LEMMA WholeStep == SyncInv /\ Whole /\ [Next]_vars => Whole'
<1> SUFFICES ASSUME SyncInv, Whole, [Next]_vars PROVE Whole'
  OBVIOUS
<1> USE DEF Whole
<1>1. Whole
  OBVIOUS
<1>2. /\ task # "advance" /\ task' # "advance" /\ UNCHANGED last_known_block => UNCHANGED Landing
      /\ UNCHANGED <<task, reply, indexed, last_known_block>> => UNCHANGED Landing
  BY LandingStays
<1>3. task # "none" <=> sync_task_running
  BY DEF SyncInv, TypeOK
<1>4. CASE Connect
  BY <1>1, <1>2, <1>3, <1>4 DEF Connect, nodeVars, flagVars, taskVars, threadVars, pastVars
<1>5. CASE Disconnect
  BY <1>1, <1>2, <1>3, <1>5 DEF Disconnect, nodeVars, flagVars, taskVars, threadVars, pastVars
<1>6. ASSUME NEW h \in Hashes, MoveSink(h) PROVE Whole'
  BY <1>1, <1>2, <1>3, <1>6 DEF MoveSink, nodeVars, flagVars, taskVars, threadVars, pastVars
<1>7. CASE HandleDisconnect
  BY <1>1, <1>2, <1>3, <1>7 DEF HandleDisconnect,
     nodeVars, flagVars, taskVars, threadVars, pastVars
<1>8. CASE HandleChanged
  BY <1>1, <1>2, <1>3, <1>8 DEF HandleChanged, nodeVars, flagVars, taskVars, threadVars, pastVars
<1>9. CASE RequestResync
  BY <1>1, <1>2, <1>3, <1>9 DEF RequestResync, nodeVars, flagVars, taskVars, threadVars, pastVars
<1>10. CASE SwitchToQueueMod
  BY <1>1, <1>2, <1>3, <1>10 DEF SwitchToQueueMod,
     nodeVars, flagVars, taskVars, threadVars, pastVars
<1>11. CASE UnsetSynced
  BY <1>1, <1>2, <1>3, <1>11 DEF UnsetSynced, nodeVars, flagVars, taskVars, threadVars, pastVars
<1>12. CASE CheckTarget
  BY <1>1, <1>2, <1>3, <1>12 DEF CheckTarget, nodeVars, flagVars, taskVars, threadVars, pastVars
<1>13. CASE Spawn
  BY <1>1, <1>2, <1>3, <1>13 DEF Spawn, nodeVars, flagVars, taskVars, threadVars, pastVars,
     SpawnSyncTask
<1>14. CASE GetSink
  BY <1>1, <1>2, <1>3, <1>14 DEF GetSink, nodeVars, flagVars, taskVars, threadVars, pastVars
<1>15. CASE AtSink
  BY <1>1, <1>2, <1>3, <1>15 DEF AtSink, nodeVars, flagVars, taskVars, threadVars, pastVars
<1>16. CASE Reconstruct
  BY <1>1, <1>2, <1>3, <1>16 DEF Reconstruct, nodeVars, flagVars, taskVars, threadVars, pastVars
<1>17. CASE ReconstructFails
  BY <1>1, <1>2, <1>3, <1>17 DEF ReconstructFails,
     nodeVars, flagVars, taskVars, threadVars, pastVars
<1>18. CASE Advance
  <2>1. last_known_block' = Landing /\ task' # "advance"
    BY <1>18 DEF Advance, Landing, SyncInv, TypeOK, Response
  <2>2. Landing' = Landing
    BY <2>1 DEF Landing
  <2> QED BY <1>1, <2>2, <1>18 DEF Advance, nodeVars, threadVars, pastVars
<1>19. CASE RefreshTarget
  BY <1>1, <1>2, <1>3, <1>19 DEF RefreshTarget, nodeVars, flagVars, taskVars, threadVars, pastVars
<1>20. CASE ResolveLastAdded
  BY <1>1, <1>2, <1>3, <1>20 DEF ResolveLastAdded,
     nodeVars, flagVars, taskVars, threadVars, pastVars
<1>21. CASE MarkGetSink
  BY <1>1, <1>2, <1>3, <1>21 DEF MarkGetSink, nodeVars, flagVars, taskVars, threadVars, pastVars
<1>22. CASE MarkFails
  BY <1>1, <1>2, <1>3, <1>22 DEF MarkFails, nodeVars, flagVars, taskVars, threadVars, pastVars
<1>23. CASE MarkCompare
  BY <1>1, <1>2, <1>3, <1>23 DEF MarkCompare, nodeVars, flagVars, taskVars, threadVars, pastVars
<1>24. CASE MarkSynced
  BY <1>1, <1>2, <1>3, <1>24 DEF MarkSynced, nodeVars, flagVars, taskVars, threadVars, pastVars
<1>25. CASE ClearTarget
  BY <1>1, <1>2, <1>3, <1>25 DEF ClearTarget, nodeVars, flagVars, taskVars, threadVars, pastVars
<1>26. CASE Release
  BY <1>1, <1>2, <1>3, <1>26 DEF Release, nodeVars, flagVars, taskVars, threadVars, pastVars
<1>27. CASE Respawn
  BY <1>1, <1>2, <1>3, <1>27 DEF Respawn, nodeVars, flagVars, taskVars, threadVars, pastVars,
     SpawnSyncTask
<1>28. ASSUME NEW last \in Hashes, GetHistoricalData(last) PROVE Whole'
  BY <1>1, <1>2, <1>3, <1>28 DEF GetHistoricalData, nodeVars, flagVars, taskVars, threadVars, pastVars
<1>29. CASE HtChanges
  <2>0. rewound' = (rewound \/ reply.forced)
    BY <1>29 DEF HtChanges
  <2> SUFFICES ASSUME ~ rewound, ~ reply.forced PROVE indexed' = Chain[Landing']
    BY <2>0
  <2>1. task = "processing" /\ task' = "advance" /\ UNCHANGED <<reply, last_known_block>>
    BY <1>29 DEF HtChanges, SyncInv, Handed, flagVars
  <2>2. last_known_block \in Hashes /\ indexed = Chain[last_known_block]
    BY <1>1, <2>1 DEF Landing, SyncInv, Standing
  <2>3. PICK s, last \in Hashes : Answer(s, last)
    BY <2>1 DEF SyncInv, Answered
  <2>4. reply.last_added # None => reply.added # {} /\ reply.last_added = Highest(reply.added)
    BY <2>1 DEF SyncInv, Answered
  <2>5. PICK top \in Hashes \ {Start} :
           indexed' = Chain[top] /\ (reply.last_added # None => top = reply.last_added)
    <3>1. indexed' = Process(indexed, reply)
      BY <1>29 DEF HtChanges
    <3>2. CASE reply.added = {}
      <4>1. s # Start /\ indexed' = Chain[s] /\ reply.last_added = None
        BY <2>2, <2>3, <2>4, <3>1, <3>2, ProcessLands DEF Answer
      <4> QED BY <4>1
    <3>3. CASE reply.added # {}
      <4>1. Highest(reply.added) \in reply.added /\ indexed' = Chain[Highest(reply.added)]
        BY <2>2, <2>3, <3>1, <3>3, ProcessLands
      <4>2. Highest(reply.added) \in Hashes \ {Start}
        BY <2>1, <4>1, AnswerIs
      <4> QED BY <2>4, <4>1, <4>2
    <3> QED BY <3>2, <3>3
  <2>6. CASE reply.last_added # None
    BY <2>1, <2>5, <2>6 DEF Landing
  <2>7. CASE reply.last_added = None
    <3>1. indexed' # {} /\ Highest(indexed') = top
      <4>1. top \in Chain[top] /\ StartingPoint(Chain[top]) = top
        BY <2>5, WholeChain, SyncAssumption
      <4> QED BY <2>5, <4>1 DEF StartingPoint
    <3> QED BY <2>1, <2>5, <2>7, <3>1 DEF Landing
  <2> QED BY <2>6, <2>7
<1>30. CASE HtApply
  BY <1>1, <1>2, <1>3, <1>30 DEF HtApply, nodeVars, flagVars, taskVars, threadVars, pastVars
<1>31. CASE HtApplied
  <2>1. task = "applying"
    BY <1>31 DEF HtApplied, SyncInv, Handed
  <2> QED BY <1>1, <1>2, <1>3, <2>1, <1>31 DEF HtApplied,
     nodeVars, flagVars, threadVars, pastVars
<1>32. CASE HtSwitch
  BY <1>1, <1>2, <1>3, <1>32 DEF HtSwitch, nodeVars, flagVars, taskVars, threadVars, pastVars
<1>33. CASE RtApply
  BY <1>1, <1>2, <1>3, <1>33 DEF RtApply, nodeVars, flagVars, taskVars, threadVars, pastVars
<1>34. CASE RtSwitch
  BY <1>1, <1>2, <1>3, <1>34 DEF RtSwitch, nodeVars, flagVars, taskVars, threadVars, pastVars
<1>35. CASE RtSend
  BY <1>1, <1>2, <1>3, <1>35 DEF RtSend, nodeVars, flagVars, taskVars, threadVars, pastVars
<1>36. CASE Restart
  <2> SUFFICES ASSUME ~ rewound PROVE indexed' = Chain[Landing']
    BY <1>36 DEF Restart
  <2>1. Landing' = StartingPoint(indexed) /\ indexed' = indexed
    BY <1>36 DEF Restart, Landing
  <2> QED BY <1>1, <2>1, WholeChain DEF SyncInv, Standing
<1>37. CASE UNCHANGED vars
  BY <1>1, <1>2, <1>3, <1>37 DEF vars, nodeVars, flagVars, taskVars, threadVars, pastVars
<1> QED BY <1>4, <1>5, <1>6, <1>7, <1>8, <1>9, <1>10, <1>11, <1>12, <1>13, <1>14,
   <1>15, <1>16, <1>17, <1>18, <1>19, <1>20, <1>21, <1>22, <1>23, <1>24, <1>25, <1>26,
   <1>27, <1>28, <1>29, <1>30, <1>31, <1>32, <1>33, <1>34, <1>35, <1>36, <1>37
   DEF Next, NexusTask, SyncTask, HistoricalThread, RealtimeThread

(* Until the first move of the node nothing is known and nothing is indexed. *)
LEMMA InitWhole == Init => WholeInv
<1> SUFFICES ASSUME Init PROVE WholeInv
  OBVIOUS
<1>1. last_known_block = Start /\ Chain[Start] = {} /\ indexed = {} /\ task = "start"
  BY SyncAssumption DEF Init, StartingPoint
<1>2. Whole
  BY <1>1 DEF Whole, Landing
<1> QED BY <1>2, InitInv DEF WholeInv

(* The database follows the node's selected chain (syncer.rs, flow.md): while no  *)
(* batch is in the processor's hands it holds blocks of the chain of the last  *)
(* known block only, and that whole chain until a batch with a forced rollback *)
(* is processed, wherever the node moves, whether the new sink is of a greater, *)
(* the same or a lower score, and through any number of lost connections and   *)
(* restarts of the indexer.                                                    *)
THEOREM ChainFollowed == Spec => []IndexedIsChain
<1>1. WholeInv /\ [Next]_vars => WholeInv'
  BY SyncInvStep, WholeStep DEF WholeInv
<1>2. WholeInv => IndexedIsChain
  BY DEF WholeInv, SyncInv, Standing, Whole, Landing, IndexedIsChain
<1> QED BY InitWhole, <1>1, <1>2, PTL DEF Spec

===============================================================================
