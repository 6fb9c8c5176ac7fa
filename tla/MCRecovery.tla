----------------------------- MODULE MCRecovery -----------------------------
(* The instances for TLC of the components that keep or bring back what the   *)
(* process, a peer or a connection loses: SaveOnDisk, VectorStorage,          *)
(* ShardSnapshot, SnapshotFiles, SnapshotRecovery and ChannelPool.  They      *)
(* share no state: `running` says which one runs, from its own initial        *)
(* states, and the others stay in one of theirs in which nothing is due.      *)
EXTENDS Integers, Sequences, FiniteSets, TLC

CONSTANTS None,
          Writers, Waiters, Target, MaxWrites,                     \* SaveOnDisk
          u, w, ChunkCapacity, MaxVectors, MaxSteps, MaxCrashes,   \* VectorStorage
          p1, p2, MaxOps,                                          \* ShardSnapshot
          x, y, t1, t2, MaxTime,                                   \* SnapshotFiles
          h1, h2, h3,                                              \* peers
          MaxItems, MaxUsage, Limit, Ttl, CheckTimeout             \* ChannelPool

VARIABLES running,
          mem, disk, writer, copy, waiter, expired, acked, seen, begun,
          vScenario, pc, vDisk, vMem, buffer, source, todo, expected, steps, vCrashes,
          sScenario, log, walFirst, applied, old, app, hidden, snap,
          fScenario, now, work, arc, part, file, full, fTask, deleted, dir, fTmp, aliases,
          cli, starts,
          rScenario, exists, replicas, data, tmp, task, queue, transfers, down, crashes, losses, mishaps,
          scenario, peer, known, pool, item, call, faults, dropped

cellVars == <<mem, disk, writer, copy, waiter, expired, acked, seen, begun>>
vectorVars == <<vScenario, pc, vDisk, vMem, buffer, source, todo, expected, steps, vCrashes>>
snapshotVars == <<sScenario, log, walFirst, applied, old, app, hidden, snap>>
fileVars == <<fScenario, now, work, arc, part, file, full, fTask, deleted, dir, fTmp, aliases,
              cli, starts>>
recoveryVars == <<rScenario, exists, replicas, data, tmp, task, queue, transfers, down, crashes, losses, mishaps>>
poolVars == <<scenario, peer, known, pool, item, call, faults, dropped>>

-----------------------------------------------------------------------------
(* Scenarios                                                               *)

Segment(kind, storage, quantized, names, sources, drop) ==
    [kind |-> kind, storage |-> storage, quantized |-> quantized, names |-> names,
     sources |-> sources, drop |-> drop]

\* Appendable segments, built ones of both storages, one of an older version; some are
\* dropped.  Crashes interrupt all of them.
Segments ==
    {Segment("append", "simple", FALSE, {"a"}, <<>>, FALSE),
     Segment("append", "simple", FALSE, {"a"}, <<>>, TRUE),
     Segment("build", "mmap", TRUE, {"a"}, <<<<u>>>>, TRUE),
     Segment("old", "simple", FALSE, {"a"}, <<<<u>>>>, TRUE)}
    \cup {Segment("build", storage, quantized, {"a", "b"}, <<<<u, w, u>>, <<>>, <<w>>>>, FALSE) :
            storage \in {"simple", "mmap"}, quantized \in BOOLEAN}

Updates(updated, proxied, saveWal) ==
    [placed |-> {p1}, updated |-> updated, proxied |-> proxied, saveWal |-> saveWal]

\* Updates while a shard is copied, of a point in the old segment, of a new one, of
\* both: with and without a proxy around the old segment, with the log and without it
Copies == {Updates({p1}, FALSE, TRUE), Updates({p2}, FALSE, TRUE), Updates({p1, p2}, TRUE, TRUE),
           Updates({p1}, FALSE, FALSE), Updates({p1}, TRUE, FALSE)}

Requested(tasks, deletes) ==
    [tasks |-> tasks, deletes |-> deletes, dirs |-> (x :> None @@ y :> None), aliases |-> {},
     commands |-> {}, starts |-> 0]
Restored(als, force, snapshots) ==
    [tasks |-> <<>>, deletes |-> FALSE, dirs |-> (x :> {"o1"} @@ y :> None), aliases |-> als,
     starts |-> 3,
     commands |-> {[snapshots |-> s, aliases |-> {"al"}, force |-> force] : s \in snapshots}]

\* Two requests for snapshots, of one collection, of two, or full ones, within one
\* second or not; and starts with snapshots on the command line, the same each time or
\* not
One(c) == [kind |-> "one", collections |-> {c}]
Full(cs) == [kind |-> "full", collections |-> cs]
Good == (x :> {"n1", "n2"} @@ y :> {"n3"})
Other == (x :> {"m1"})
Requests ==
    {Requested(t1 :> One(x) @@ t2 :> second, deletes) :
        second \in {One(x), One(y), Full({x, y})}, deletes \in BOOLEAN}
    \cup {Requested(t1 :> Full({x}) @@ t2 :> Full({x}), FALSE)}
    \cup {Restored(als, force, {Good}) : als \in {{}, {"al"}}, force \in BOOLEAN}
    \cup {Restored({}, TRUE, {Good, Other})}

Archive == [content |-> "one", local |-> TRUE, fits |-> TRUE, readable |-> TRUE]
Archives == {Archive, [Archive EXCEPT !.local = FALSE], [Archive EXCEPT !.fits = FALSE],
             [Archive EXCEPT !.readable = FALSE]}
Cluster(here, states, distributed, factor, requests, crash, loss) ==
    [exists |-> here, owners |-> DOMAIN states, states |-> states, moving |-> {},
     distributed |-> distributed, factor |-> factor, requests |-> requests,
     crashes |-> crash, losses |-> loss]
Request(p, archive, priority) == [peer |-> p, snapshot |-> archive, priority |-> priority]
Ask(archive, priority) == t1 :> Request(h1, archive, priority)
AllActive(owners) == [p \in owners |-> "Active"]
Priorities == {"Snapshot", "Replica"}

\* One peer recovers a snapshot, good or bad, of a collection that exists or not, with
\* the replicas placed in any way; a peer stops, or a proposal is lost.
Owners == {{h1}, {h1, h2}, {h1, h2, h3}, {h2, h3}, {h2}}
Alone ==
    {Cluster(here, AllActive(owners), TRUE, factor, Ask(archive, priority), crash, loss) :
        here \in BOOLEAN, owners \in Owners, factor \in 1 .. 3, archive \in Archives,
        priority \in Priorities, crash \in {0}, loss \in {0}}
    \cup {Cluster(here, AllActive(owners), TRUE, 3, Ask(Archive, priority), 1, 0) :
            here \in BOOLEAN, owners \in Owners, priority \in Priorities}
    \cup {Cluster(here, AllActive({h1}), FALSE, 1, Ask(archive, priority), 0, 0) :
            here \in BOOLEAN, archive \in Archives, priority \in Priorities}
    \cup {Cluster(TRUE, AllActive(owners), TRUE, 2, Ask(Archive, priority), 0, 1) :
            owners \in {{h1, h2}, {h1, h2, h3}}, priority \in Priorities}

\* Another replica is being filled, or the one that is recovered, or it is dead.
Unsettled ==
    {[Cluster(TRUE, h1 :> "Active" @@ h2 :> "Active" @@ h3 :> "Partial", TRUE, 3, Ask(Archive, priority), 0, 0)
         EXCEPT !.moving = {<<h2, h3>>}] : priority \in Priorities}
    \cup {[Cluster(TRUE, h1 :> "Partial" @@ h2 :> "Active", TRUE, 2, Ask(Archive, priority), 0, 0)
         EXCEPT !.moving = {<<h2, h1>>}] : priority \in Priorities}
    \cup {Cluster(TRUE, h1 :> "Dead" @@ h2 :> "Active", TRUE, 2, Ask(Archive, priority), 0, 0) :
            priority \in Priorities}

\* Two recoveries, on one peer or on two
AnotherArchive == [Archive EXCEPT !.content = "two"]
Both ==
    {Cluster(TRUE, AllActive(owners), TRUE, 2, Ask(Archive, first) @@ t2 :> Request(p, AnotherArchive, second), 0, 0) :
        <<owners, p>> \in {<<{h1, h2}, h1>>, <<{h1, h2, h3}, h2>>}, first \in Priorities, second \in Priorities}

Recoveries == Alone \cup Unsettled \cup Both

Calls(callers, size, retries, bound, removes, slow) ==
    [callers |-> callers, size |-> size, retries |-> retries, faults |-> bound,
     removes |-> removes, slow |-> slow]

\* One caller with the retries of the code, whose requests may take long, one without
\* retries, one of a peer that is removed; two callers and one channel
Pools ==
    {Calls({h1}, 2, 2, 1, FALSE, TRUE), Calls({h1}, 2, 0, 1, FALSE, FALSE),
     Calls({h1}, 1, 2, 1, TRUE, FALSE), Calls({h1, h2}, 1, 0, 1, FALSE, FALSE)}

NoCluster == Cluster(FALSE, AllActive({h1}), TRUE, 1, <<>>, 0, 0)
NoCalls == Calls({}, 1, 0, 0, FALSE, FALSE)
NoRequests == Requested(<<>>, FALSE)
AnySegment == Segment("append", "simple", FALSE, {"a"}, <<>>, FALSE)
AnyCopy == Updates({}, FALSE, TRUE)

-----------------------------------------------------------------------------
Cell == INSTANCE SaveOnDisk
Vectors == INSTANCE VectorStorage
    WITH scenario <- vScenario, disk <- vDisk, mem <- vMem, crashes <- vCrashes,
         Names <- {"a", "b"}, Values <- {u, w},
         Scenarios <- Segments \cup {AnySegment}
Snapshots == INSTANCE ShardSnapshot
    WITH scenario <- sScenario, Points <- {p1, p2}, Scenarios <- Copies \cup {AnyCopy}
Files == INSTANCE SnapshotFiles
    WITH scenario <- fScenario, task <- fTask, tmp <- fTmp,
         Collections <- {x, y}, Tasks <- {t1, t2}, Scenarios <- Requests \cup {NoRequests}
Recovering == INSTANCE SnapshotRecovery
    WITH scenario <- rScenario, Peers <- {h1, h2, h3}, Tasks <- {t1, t2},
         Scenarios <- Recoveries \cup {NoCluster}
Channels == INSTANCE ChannelPool
    WITH Callers <- {h1, h2}, Scenarios <- Pools \cup {NoCalls}

Components == {"cell", "vectors", "snapshot", "files", "recovery", "pool"}

Init ==
    /\ running \in Components
    /\ vScenario \in IF running = "vectors" THEN Segments ELSE {AnySegment}
    /\ sScenario \in IF running = "snapshot" THEN Copies ELSE {AnyCopy}
    /\ fScenario \in IF running = "files" THEN Requests ELSE {NoRequests}
    /\ rScenario \in IF running = "recovery" THEN Recoveries ELSE {NoCluster}
    /\ scenario \in IF running = "pool" THEN Pools ELSE {NoCalls}
    /\ Cell!Init /\ Vectors!Init /\ Snapshots!Init /\ Files!Init /\ Recovering!Init
    /\ Channels!Init

Next ==
    \/ /\ running = "cell" /\ Cell!Next
       /\ UNCHANGED <<running, vectorVars, snapshotVars, fileVars, recoveryVars, poolVars>>
    \/ /\ running = "vectors" /\ Vectors!Next
       /\ UNCHANGED <<running, cellVars, snapshotVars, fileVars, recoveryVars, poolVars>>
    \/ /\ running = "snapshot" /\ Snapshots!Next
       /\ UNCHANGED <<running, cellVars, vectorVars, fileVars, recoveryVars, poolVars>>
    \/ /\ running = "files" /\ Files!Next
       /\ UNCHANGED <<running, cellVars, vectorVars, snapshotVars, recoveryVars, poolVars>>
    \/ /\ running = "recovery" /\ Recovering!Next
       /\ UNCHANGED <<running, cellVars, vectorVars, snapshotVars, fileVars, poolVars>>
    \/ /\ running = "pool" /\ Channels!Next
       /\ UNCHANGED <<running, cellVars, vectorVars, snapshotVars, fileVars, recoveryVars>>

vars == <<running, cellVars, vectorVars, snapshotVars, fileVars, recoveryVars, poolVars>>

\* With the fairness of the components that have liveness properties
Spec == Init /\ [][Next]_vars /\ Recovering!Fairness /\ Channels!Fairness

-----------------------------------------------------------------------------
\* SaveOnDisk: a write that returned Ok and a value that was read are in the file,
\* whatever writes run at the same time and before and after restarts
\* (SaveOnDisk::write).
CellIsDurable == running = "cell" => Cell!CellIsDurable

\* VectorStorage: a segment that serves has, under every name and for every offset,
\* the vector that was stored there last, wherever the process crashed before it was
\* loaded; loading fails only for what a crash left of a dropped segment and of a
\* migration from an old release (SegmentBuilder::build, load_segment, drop_data).
VectorsAreThere == running = "vectors" => Vectors!VectorsAreThere

\* ShardSnapshot: a restored point is as it was at some moment while the snapshot was
\* taken, if the saved log goes back to the first archive, the point did not move to a
\* segment that was already archived, and its deletion is not only noted by a proxy
\* (LocalShard::create_snapshot, restore_snapshot).  SnapshotFiles: a file that is listed
\* as a snapshot has all its parts, and a request that succeeded has left one, but for
\* requests of the same second, which share a name (Collection::create_snapshot); a start
\* that got through has put the collections of its snapshots, and nothing else, in the
\* place of the old ones, if the starts before it had the same (recover_snapshots).
\* SnapshotRecovery: with the priority "Snapshot" the content of the snapshot is what the
\* replicas end with, with "Replica" the content of the other ones, if nothing else
\* happens to the replicas meanwhile (recover_from_snapshot).
SnapshotsAreKept ==
    /\ running = "snapshot" => Snapshots!RestoredIsRecent
    /\ running = "files" => Files!ListedIsComplete /\ Files!RecoveredIsSnapshot
    /\ running = "recovery" => Recovering!PriorityIsKept

\* SnapshotRecovery: a replica that a request has recovered gets into use again, or is
\* removed; beside other recoveries, lost proposals or dead replicas it may also stay
\* Partial, when what should activate it was refused, or Dead, when no replica is left to
\* fill it from (recover_from_snapshot, sync_local_state).
RecoveredServes == Recovering!RecoveredServes

\* ChannelPool: calls succeed again after the peer was started in another place, the
\* channels to where it was are given up, unless requests take so long that the health
\* check beside them, on a dead channel, ends them all (_make_request, CHANNEL_TTL).
Reconnects == running = "pool" => Channels!Reconnects
=============================================================================
