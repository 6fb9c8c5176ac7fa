# Verification of qdrant

TLA+ models of qdrant: the parts whose correctness depends on interleavings,
crashes and steps that fail half-way, and the algorithms of its indexes; TLC runs
that check them on small instances; TLAPS proofs of the central invariants for
every size.  The reference is the source under `src/`; every definition that models
code names its lines in `PROJECT.json` (`map`).

Contents: 1 the system · 2 modules and the code they model · 3 runs · 4 bounds ·
5 fairness · 6 proofs · 7 what is only model-checked · 8 disagreements between
comments and code · 9 what is not modelled.

## 1. The system

A node holds *collections* of *points* (id, vectors, payload).  A collection is cut
into *shards*; every shard has *replicas* on several peers.  A replica is a *local
shard*: a write-ahead log (WAL), an update queue and a set of *segments*; a segment
has the points with their vectors, payloads and indexes.

| part | hard behaviours |
|---|---|
| Segment, segment holder, local shard (`segment.rs`, `segment_holder.rs`, `local_shard.rs`, `wal.rs`) | a thread flushes column after column while updates go on; points move between segments; the WAL is cut while segments change; crash and replay |
| Update handler (`update_handler.rs`) | three workers and their channels are replaced while clients send |
| Optimizers (`segment_optimizer.rs`, `proxy_segment.rs`, `*_optimizer.rs`) | a rebuild while points change; leftovers of a crash; optimizers that feed each other |
| Payload and field indexes (`struct_payload_index.rs`, `field_index/`, `payload_storage/`) | columns of different age after a crash; failed operations that are repeated |
| HNSW index, vector storage (`hnsw_index/`, `vector_storage/`, `segment_constructor/`) | threads that link at the same time; files of which a crash leaves some |
| Search (`segments_searcher.rs`, `local_shard_operations.rs`) | segments are read one after the other while points move |
| Replica sets, routing, transport (`replica_set.rs`, `collection.rs`, `remote_shard.rs`, `transport_channel_pool.rs`, `conversions.rs`) | leaders, locks held across calls, lost, late and repeated calls, views that differ |
| Transfers (`shard_transfer.rs`, `forward_proxy_shard.rs`) | updates during a transfer, restarts, late calls |
| Snapshots (`snapshots/`, `snapshot_manager.rs`) | copies taken beside updates; recoveries beside failures |
| Table of content (`toc.rs`, `alias_mapping.rs`) | a fair lock taken twice; check and act apart |
| Consensus (`consensus.rs`, `consensus_manager.rs`, `consensus_wal.rs`, `persistent.rs`, `dispatcher.rs`) | files that a crash may leave out of step; equal operations in flight, lost proposals |
| SaveOnDisk (`save_on_disk.rs`) | publication after saving; wake-ups |

How they interact: a client update is split by shard and enters the *replica set*
of each, which calls the *local shard* and the remotes, perhaps through a leader;
the local shard writes the WAL and queues; the *update worker* applies to the
*segments*, directly or through the *proxies* of a running optimization; the *flush
worker* saves segments and truncates the WAL.  Reads go the same way down, and
their results are merged on the way up.  Changes of collections, aliases, replica
states and transfers are *proposed*, ordered by raft, stored by the *consensus
peer* and applied to the *table of content* and the collections of every peer.

Components that share state are one module, or are composed (`ShardTransfer` has the
replica sets of all peers, the log of consensus and the transfer tasks; `Routing`
has the peers, the shards and the conversions).  Where one component sees of
another only a result, the other is abstracted to it: the log that the peers of
`ShardTransfer` apply is what `ConsensusPeer` keeps, the segments of `Searcher` are
what `ShardStorage` promises.

## 2. Modules and the code they model

Most modules have a constant `Scenarios`: records, one of which `Init` chooses, that
say what a behaviour starts from and what may happen in it.  A scenario restricts
the environment (which operations, whether it crashes), never what the code does.

### Storage of a shard: `Segment`, `ShardStorage`, `PointStore`

`Segment` has the operations of one segment as operators on a record with the four
columns (`mapping`, `versions`, `vectors`, `payloads`) and the segment's version; the
same record stands for the segment in memory and its image on disk.  A vector is
the number of the operation that wrote it, a payload the set of the numbers of the
operations merged into it, so that a stale or a mixed content is visible.

`ShardStorage` has the WAL (`log`, `walFirst`), the update worker with the operation
it applies segment by segment (`cur`), the segments (`mem`, `disk`), the flush threads
(`flushing`: the column they are at and the version they captured) and `flush_all`
(`pass`).  `Crash` keeps `disk` and the WAL only; loading repairs half-saved points as
`check_consistency_and_repair` does, and the replay starts at `walFirst`.

`PointStore` is the abstract specification: one store, operations applied one at a
time in WAL order; `After` computes what a prefix of the log leaves.  The last part of
`ShardStorage` states the properties and the refinement mapping: the store is what the
segments hold, and an operation counts as applied from the moment it has found its
point.

### Queue, workers and optimizations: `UpdateQueue`, `Optimizer`, `OptimizerPolicy`

`UpdateQueue`: clients reserve a slot of the current queue and send; an updater
replaces queue and workers (`on_optimizer_config_update`); a snapshot sends a plunger
and waits for it.  Every replacement is a *generation*.  A signal starts any number of
optimizations, which may panic, or none, when the recovery of failed operations fails.

`Optimizer` (`EXTENDS Segment`): `Wrap` puts proxies over the chosen segments, `Build`
makes the new segment, `Sweep` copies the deletions in two passes (the second under
the lock, in `Swap`), `DropData` removes the old directories; `Cancel` and `AddTmp`
unwrap in the two steps of the code.  `Found`, `Listed` and `Answering` are what searches,
scrolls and retrievals find in an entry of the holder, a proxy or not.  The flush of one segment is one step (its
columns are in `ShardStorage`).

`OptimizerPolicy`: the conditions of the merge, indexing and vacuum optimizers, the
kind of segment they build, and their scheduling through a bounded channel.

### Indexes: `PayloadIndex`, `FieldIndexes`, `PayloadFilter`, `Histogram`, `GeoHash`, `Encodings`, `Hnsw`

`PayloadIndex` is the machine: the payloads of a segment, the indexes of its fields,
their columns, flush, crash and replay, operations that fail and are recovered, and
queries through the indexes or by scan.  `FieldIndexes` has the keyword, integer,
float, geo and text indexes as operators on records; `PayloadFilter` paths into
payloads, the meaning of filters, their rewriting and cardinality estimation;
`Histogram` and `GeoHash` what numeric and geo indexes are built on.  `Encodings` has
keys and tokens as sequences of digits and characters.  `Hnsw` has the concurrent
build, link by link, the merge of the graphs of payload blocks, the flat layout of
links, opening, the conversion of the old format in its two writes, and searching.

### Vectors: `VectorStorage`

Chunks, database column, memory-mapped and quantized files of a segment, which is
appended to, or built and moved to its place, migrated from an old release or dropped,
with a crash at any step.

### Reads and writes across segments, replicas and shards: `Searcher`, `Replication`, `Routing`, `Wire`, `ChannelPool`

`Searcher` reads one segment after the other while points are updated and moved.
`Replication` has the updates of one shard by leaders, the locks held across calls,
calls that are lost, repeated or late, reads with their consistency, and the deletion
of the collection, which every peer applies at its own pace.  `Routing`
splits an operation by shard and sends its parts to the peers, encoded and decoded
by `Wire`, with leaders that may be locked for writing.  `ChannelPool` is the pool of
channels to one address, its health checks, retries and times to live; a tick is a second.

### Replicas and transfers: `ReplicaSet`, `ShardTransfer`

`ReplicaSet` gives the record of one peer (`state`, `remotes`, `disabled`, `isLocal`,
`local`, `proxy`, `data`) after each call.  `ShardTransfer` composes the peers: the
consensus is a log that each peer applies at its own pace; an update inserts one
point into all replicas its sender takes for active or pending, may be lost on the
way to any of them, and is acknowledged as `update` does; a transfer task initiates,
proxifies, sends batches, retries and proposes its end.

The code does not keep the replicas equal in all circumstances.
`AckedIsReplicated` has the hypothesis `Orderly`, that none of the five `Hardships`
occurs; `KnowsItself` (of `TransfersEndCleanly`) that calls are timely.

| field | when FALSE, it does not happen that |
|---|---|
| `lagging` | an update is sent while peers have applied different prefixes of the log |
| `lossyPending` | an update is lost on its way to a replica that is being filled |
| `whileDisabled` | a peer sends updates while it has disabled a replica on its own |
| `lateReports` | a transfer is reported as finished after the log has ended it |
| `lateRestarts` | a sender restarts between the report and the end of its transfer |
| `untimelyCalls` | `initiate_transfer` arrives when the transfer is not registered |

Each hypothesis is needed: with it dropped and the field set, TLC finds the
behaviours of section 8.  `SomeActive`, `SameStates` and `NoStrayTask` are checked
with all of them allowed.

### Snapshots: `ShardSnapshot`, `SnapshotFiles`, `SnapshotRecovery`

A snapshot of a shard beside updates and flushes, and the shard restored from it; the
files of snapshots that are made and deleted at the same time, under one name or
several, and starts from them; recoveries of replicas in a cluster with what they ask
of consensus, which may refuse it.

Of the properties here and in the indexes and reads, many are true only up to a
circumstance.  The module then states the property with the circumstance as a
hypothesis, which refers to the history of the behaviour where it must, and, under a
name with *Always*, without it; section 8 lists the latter.

### Collections and consensus: `MetaState`, `TableOfContent`, `ConsensusPeer`, `Proposals`

`MetaState` has the pure part: resolution of names and one action of
`update_aliases`.  `TableOfContent` has the calls as sequences of steps between which
other callers run, and tokio's fair RwLock as holders and a queue; a creation may be
from another collection, which it looks up.

`ConsensusPeer` is the order of writes in `process_ready`, `apply_entries` and
`apply_snapshot`, with a crash between any two of them and `Consensus::new` after it;
entries that the start has applied are handed out by raft again (`given`, `again`).
Raft-rs is external: it may do whatever a correct raft may do to one peer (append,
replace uncommitted entries by a newer term, commit, send a snapshot).  `Proposals`
is the way of an operation from a caller to the consensus thread and of its result
back.

### Persisted cell: `SaveOnDisk`

Writers, waiters, the RwLock with its upgradable reader, `notification_lock`, the
condition variable and the file.  The value is a counter, every write adds one.

## 3. Runs

Each run is `tlc -config <cfg> <module>` in this directory.  A violation run checks
one statement of a comment, an assertion or a doc line and ends with the
counterexample; its finding is in `PROJECT.json`.  `MCWaiting`, `MCIndex`, `MCReads` and
`MCRecovery` are sums: several components that share no state, a variable that
says which one runs, and properties that speak of one component each.

| run | module | checks | shows |
|---|---|---|---|
| `storage` | `MCShardStorage` | `TypeOK`, `UniqueHome`, `SamePoints`, `AckedIsOnDisk`, `StepsOfPointStore`, `EventuallySaved` | insertions and deletions, background flushes and a crash at any step: no point is lost, revived or doubled, what the WAL has dropped is on disk, what was written is saved in the end; operations of all kinds, with moves and snapshots, implement one store in WAL order |
| `move_lost` (violation) | `MCShardStorage` | `SamePoints` | a payload operation moves a point, the deletion is durable at once, the copy is not |
| `waiting` | `MCWaiting` | `QueueInOrder`, `EverybodyIsAnswered` | the replacement of queue and workers neither overlaps workers nor blocks anybody, also when an optimization panics or a recovery fails |
| | | `ProposalsAreApplied`, `EverybodyIsAnswered` | callers of consensus hear the truth or a timeout, with equal operations in flight, lost proposals and changes of the leader |
| | | `SettledIsOptimal`, `OptimizationEnds` | the optimizers come to rest with nothing left to optimize, beside writes that fill their channel, and there is always a segment to write to |
| `optimizer` | `MCOptimizer` | `EveryCopyCurrent`, `CancelKeepsChanges`, `DirectoriesAreSound` | two optimizations beside updates; cancelled ones; one with flushes and a crash |
| `toc` | `MCTableOfContent` | `ShadowFree`, `AliasTargetsExist`, `InUseIsCurrent`, `ChangesEnd` | a cluster, a single node, and changes only; creations from another collection in the first two |
| `toc_lookup` (violation) | `MCTableOfContent` | `CallsEnd` | a search and a creation wait for each other |
| `peer` | `MCConsensusPeer` | `StorageIsLog`, `SavedIsConsistent`, `CommittedIsApplied` | a log that grows and is replaced, snapshots, removals of peers, and alias operations of several parts, all with crashes |
| `peer_rewrite` (violation) | `MCConsensusPeer` | `StorageIsLog` | raft replaces the last entry and the log keeps both |
| `transfer` | `MCShardTransfer` | `AckedIsReplicated`, `SomeActive`, `SameStates`, `TransfersEndCleanly` | recovery of a failed replica, the same with restarts, copies and moves to a third peer, the same with a snapshot of consensus, replicas that blame each other, ends of transfers with all hardships |
| `index` | `MCIndex` | `PayloadIsRight`, `QueriesAreExact` | every kind of index answers as a scan of the payloads does, after crashes, replays and recovered failures, up to points whose value the index has not followed; payloads are those of the log, unless a failed operation was overtaken |
| | | `GraphIsSound`, `BuildEnds` | HNSW graphs that several threads build are sound at every step, the same after crashes and conversion, and exact where nothing was cut off |
| | | `CodesAgree` | key encodings keep the order of numbers; texts are found by their words |
| `reads` | `MCReads` | `AnswersAreSound` | search (sampled or not, with a threshold), scroll, count, retrieve and recommend beside updates and moves |
| | | `ReplicasAgree`, `ReadIsFresh`, `CallsEnd` | updates by leaders, reads of every consistency, locks held across calls, a collection that is deleted |
| | | `ShardsAreOneStore` | every kind of operation, ordering and placement, through encoding and forwarding, with locked leaders and operations that a message does not carry |
| `recovery` | `MCRecovery` | `CellIsDurable` | a persisted cell with concurrent writers, failing saves and crashes |
| | | `VectorsAreThere` | segments that are built, appended to, migrated, dropped and loaded, with crashes in all of it |
| | | `SnapshotsAreKept`, `RecoveredServes` | snapshots beside updates and flushes; their files, with requests of one second; recovery with each priority, beside other recoveries, lost proposals and dead replicas |
| | | `Reconnects` | calls succeed again after a peer has moved, with quick and with slow requests |

Every property is stated in words above its definition.  For every property
`PROJECT.json` names a *mutant*: an operator that changes one definition the way a bug
in that code would, and with which TLC finds the property violated.

Deadlock is checked in `storage`, `move_lost` and `transfer`, where some background
step is always possible.  In the other runs operations, calls, builds and log
entries are bounded, and there is nothing left to do when they have run out; that the
parties do not block each other before that is what the liveness properties say.

## 4. Bounds

| run | bounds | why enough |
|---|---|---|
| `storage` | 2 points, an appendable and an optimized segment, 3 operations, a queue of 2, 1 crash | 3 operations give an update before, during and after a flush, or two on one point and one on the other; the second segment is needed for moves; the points are alike at the start, so the first operation is on a fixed one; the proofs cover any number of segments, points and operations |
| `waiting` | queue: 2 clients, an updater, a snapshot, 2 operations, 2 generations, a queue of 2; proposals: 2 callers, 2 operations of which one waits for the other, 2 changes of the leader; at most one optimization per signal; policy: shards of up to 4 segments, up to 3 optimizations, 2 writes and a channel of 3 | two generations are the old and the new queue; equal and different operations, the signal of one lost to the other; segments of every class the conditions tell apart, and, with one optimization at a time beside two writes (`BusyShard`), a full channel; the proofs cover any number of clients, callers, generations and optimizations per signal |
| `optimizer` | 2 points, 2 optimizations (the second may take what the first made), 2 or 3 operations, 1 crash | a point in a proxy and one outside; an operation during and one after the build |
| `toc` | 3 names, 3 callers, 4 calls each in a cluster, 2 elsewhere | a collection, an alias and a free name; a deadlock on one lock needs two callers, a third shows that others are not blocked |
| `peer` | log of 3 entries, 2 terms, 1 or 2 crashes, 3 names | a kept, a replaced and a new entry; a crash during the recovery from a crash; an alias, its new name and its collection |
| `transfer` | 2 or 3 peers, 1 or 2 points (batches), log of 3 to 5 operations, up to 2 lost updates, 1 lost call, 1 restart | deactivate, start, abort, start, finish is five; an update before and one during the transfer; requests of both kinds meet each other, except where there are snapshots or all hardships |
| `index` | payloads: 2 points, logs of up to 4 operations, one scenario per schema, and two with values that change their type or their parent; graphs: 3 or 4 points on a line, up to 3 threads; encodings: width 4, texts of up to 4 characters | a value that comes, changes and goes; a list of links that overflows; every pair of signs and magnitudes, every way words can be cut |
| `reads` | 5 points in 2 segments, or 2 shards, 2 writes; 2 or 3 peers, 2 updates and 2 reads; 4 points in 2 shards | a point that moves before, between and after the reads of its two segments; two leaders that call each other; an operation that touches one shard, both or none |
| `recovery` | cell: 2 writers, a waiter, 3 writes; vectors: 4 vectors in chunks of 2, 2 crashes; snapshots: 2 points, 3 operations, 2 requests, 3 starts, 3 peers, 1 lost proposal; channels: 2 callers, check interval 1, check timeout 2 and time to live 5 ticks of a second, as in the code | a full and a partial chunk, a crash during the recovery from a crash; requests of one second, which share a name, and of two; recoveries of one replica and of two; a channel that outlives its time to live |

Symmetry (of the optimizations) is used in `optimizer` only, which has no liveness
property; the optimizations are interchangeable there.

## 5. Fairness

Weak fairness is assumed of tasks and threads that the code runs in a loop or has
begun, and that wait for nothing: update worker, flush worker and every started
flush thread (`ShardStorage`); workers and calls that have begun (`UpdateQueue`); the
optimization worker (`OptimizerPolicy`); the threads of a build (`Hnsw`); the
consensus thread and the restart of a stopped peer (`ConsensusPeer`); the callers
with their timeouts and the consensus thread (`Proposals`); the grant of a lock that
is free and the next step of a caller that has what it needs (`TableOfContent`); the
steps of updates and reads, the application of the log and the timeouts of calls (`Replication`); recoveries,
the application of the log and the report of a transfer (`SnapshotRecovery`); calls
and the clock (`ChannelPool`).  Clients, users, crashes, losses, failures and raft's
decisions are never assumed to happen; the one exception is that raft hands over
committed entries (`ReadyCommitted`), which its documented interface promises.

Strong fairness is assumed of taking a lock that is free again and again.
`ChannelPool`: the lock of all pools is tokio's, a fair queue, which the module does
not spell out (which of several equally used channels a call takes is the order of a
hash map, and no fairness of that choice is assumed).  `SaveOnDisk`: `notification_lock`
is held by one waiter for a few steps at a time, and parking_lot's mutex is eventually
fair.

## 6. Proofs

All theorems hold for every value of the constants that the named assumptions of
their module allow.  Their proofs have one lemma or step per action and, below it,
one per conjunct that the action can disturb.

| module | theorem | statement |
|---|---|---|
| `ShardStorage_proofs` | `TypeCorrect` | `Spec => []TypeOK` |
| | `UniqueHomeHolds` | `Spec => []UniqueHome` |
| | `AckedBeforeCrash` | `Spec => [](crashes = 0 /\ ~Snapshots => AckedIsOnDisk)` |
| `PointStore_proofs` | `ImplementsPointStore` | `Spec => StepsOfPointStore`: until the first crash every step of the shard is a step of `PointStore` or changes nothing of it |
| | `PointsBeforeCrash` | `Spec => [](crashes = 0 => SamePoints /\ SameContent)` |
| `Optimizer_proofs` | `ReadersSeeTheLog` | `Spec => []EveryCopyCurrent` |
| `Optimizer_lemmas` | `SegmentsHaveDirectories` | `Spec => []HeldHasDirectory` |
| `TableOfContent_proofs` | `AliasesLeadToCollections` | `Spec => []AliasTargetsExist` |
| | `CollectionInUseIsCurrent` | `Spec => []InUseIsCurrent` |
| | `NamesAreShadowFree` | `Spec => []ShadowFree` |
| `ConsensusPeer_proofs` | `PeerInvariant` | `Spec => [](Safe => PeerInv)` |
| | `WalIsTheLog` | `Spec => [](Safe => StorageIsLog)` |
| | `PeerCanRestart` | `Spec => [](Safe => AppliedIsCommitted /\ CanRestart)` |
| | `ProposalsAnswerTruly` | of `Proposals`: `Spec => [](WaitsForSomething /\ SuccessIsApplied /\ ActiveIsApplied)` |
| | `CellStaysDurable` | of `SaveOnDisk`: `Spec => []CellIsDurable` |
| `UpdateQueue_proofs` | `QueueInvariant` | `Spec => []QueueInv` |
| | `HandledInOrder` | `Spec => []QueueInOrder` |

**Storage** (`SegmentsAssumption`, `OpsAssumption`: appendable segments are segments,
there is one, they start empty, no point starts in two segments; a log that starts
at operation 0 has appendable segments only).  `TypeInv` is `TypeOK` with the bounds
on `next`, `walFirst` and the current operation that make every lookup in the log
defined.  `UniqueHome` is not inductive: whether an upsert may insert depends on
segments it has visited, and a crash replaces memory by disk.  `HomeInv` adds that
what is mapped on disk is mapped in memory (deletions reach the disk first,
insertions later), and that a point for which the current upsert has found nothing
is in no segment visited so far.  `AckedIsOnDisk` needs a statement about every
flush under way.  `SegInv` relates a segment, its image and its flush thread: what
is above the version on disk is in memory only, the version a thread captured
bounds what it has written, and a segment whose version is the persisted one has all
columns on disk.  `AckInv` adds that operations reach the segments in the order of
the log, and that the version `flush_all` is about to confirm is below every change
that is still pending in a segment, visited or not.  The theorem stops at the first
crash because the replay starts below the confirmed version and passes through
states in which memory is older than disk, and excludes snapshots because there the
statement is false (section 8).

**Refinement.**  `RunInv` says that the shard runs, that the operation being applied
is the last one taken from the queue, and that no version in memory is beyond it, so
that no segment skips it.  With `HomeInv`, the step in which an operation finds its
point, inserts it, or has visited every segment is the step of `PointStore`; all
others leave the mapped state alone.

**Points before a crash.**  `SamePoints` compares the segments with `After`, a recursive
function over the log, so that its proof is an induction over the length of the log.
`Least` and `InductionOnNat` derive that induction from the library's theorem that the
order of the naturals is well-founded: they speak of a set of naturals, which the
provers can instantiate, and not of a predicate, which they cannot.  With it `After` of
a longer log is one operation applied to `After` of the shorter one.  `LogInv` says that
what the segments show is `After` of the operations applied so far; every step keeps it
because it is a step of `PointStore` (the refinement) or changes nothing visible.

**Optimizations** (`OptimizerAssumption`: the segments of optimizations are new ones, there
is an appendable segment at the start, no point starts in two segments).  Until a crash
or a cancellation, for any number of optimizations, segments, points and operations, a
reader of the holder finds what the log says.  `RunInv` is `RunType`; `TaskInv`, where the
segments of an optimization are; `SegInv`, no version is that of an operation to come;
`HomeInv`, a point shows in one segment only, and the inputs of one optimization have no
point in common; `BuiltInv`, the new segment has what the wrapped ones have and no change
has taken from them, and beyond that only points deleted meanwhile, which the sweep
removes; `OpInv`, until the operation under way has found its point no entry visited has
it, and then the point has the number of the operation, so that no entry changes it again;
`CopyInv`, what shows is what the log says, up to that operation.  The hard steps
are `Swap` (the entries of the holder change, what shows does not) and the moves of a
point from a wrapped segment to the write segment.  `CopiesAreShown` reduces searches,
scrolls and retrievals to what the segments show.

**Directories.**  `HeldHasDirectory` needs no such hypothesis: `DirInv` holds through
cancellations, failures and crashes.  It says that the proxies are
those of optimizations that have wrapped and not given back, and that what one has
replaced is held no more (`ProxyInv`), that nobody has the new segments of an optimization
before it adds them (`FreshInv`), and that what is held or will be has its directory
(`KeptInv`).

**Cell.**  `CellInv`: only the thread with the exclusive or upgradable lock is between
the save and the replacement of the value, and what was acknowledged or seen is at
most the value in memory.

**Table of content** (`TocAssumption`, `CallsAssumption`).  `TocInv` is `CallInv` (a call
that has begun is one its caller may make, at a step of its kind), `LockInv` (the
guards that the lock counts are those the callers hold at their steps, the queue has
nobody twice), `DataInv` (an alias without its collection belongs to a deletion that
holds the lock and has not come to the aliases), `ShadowInv` (when one thread makes
the changes, the name of a collection about to be inserted is no alias) and
`MadeInv`.  The properties speak of states without a writer; the invariant says
what a writer may have left open.  `InUseIsCurrent` covers both users of a looked-up
collection: the caller of `get_collection`, and a creation that compares the vectors of
the collection it takes its data from.

**Consensus peer** (`PeerAssumption`).  The hypothesis `Safe` excludes two
circumstances, in which the statements are false: raft replaces the very last record
(`peer_rewrite`), and a crash hits between the steps of `apply_snapshot` (section 8).
`PeerInv` is `PeerType`; `WalInv`, the records are consecutive and begin after the
snapshot; `BoundInv`, what is applied is committed and what is committed is saved;
`LogInv`, the records are the log of the peer, except while the thread has an entry
in hand that it has not written, and then they are up to that entry; `ReadyInv` and
`SnapshotInv`, what the thread is about to save is not behind what is saved, and an
incoming snapshot replaces everything; `SubInv`, about an entry applied and not yet
counted.  Crash and restart are steps like the others: the invariant speaks of
saved state only, apart from what the thread has in hand.

**Update queue** (`QueueAssumption`; the clients are finitely many).  `QueueInOrder`
mentions neither stop signals nor callers, but rests on both.  `QueueInv` is
`QueueType`; `CallerInv`, whoever has loaded the sender knows a generation, and there
is a number for every operation that has a slot; `TurnInv`, one updater at a time
replaces the queue, and the workers of a queue start together when the old ones are
gone and stop only when they are told to; `StopInv`, a stop signal is in a queue only
when the flush worker is told to stop as well; `OpInv`, the operations of a queue are
in the order of the log, behind those that were taken from it; `OwedInv`, a written
operation that is neither handled nor sent behind a stop signal is in its queue with
no stop signal before it, or its queue is closed for good; `PlungerInv`, what stands behind a
plunger in a queue was written after it.  The lemmas about
queues are in `UpdateQueue_lemmas`.

**Proposals** (in `ConsensusPeer_proofs`, which instantiates the module).  The theorem's hypotheses are that `None` is none of the values it
stands beside (`NoneIsNothing`) and that the operations one waits for are operations;
the module has no ASSUME because it is instantiated, not extended, by its run.
`ProposalInv` is `ProposalTypes`, `WaitsForSomething` and, for each caller, `CallerInv`: a
receiver that holds a result was sent it when the operation was applied, the
receiver of the caller's own operation is newer than the count of applications at
sending (`since`), and that count is at most the present one.

The strengthened invariants of `ConsensusPeer`, `UpdateQueue`, `TableOfContent`,
`Proposals` and `Optimizer` were checked with TLC on the instances of the runs before they were
proved.

## 7. Only model-checked

- Liveness (`EventuallySaved`, `EverybodyIsAnswered`, `OptimizationEnds`, `ChangesEnd`,
  `CommittedIsApplied`, `BuildEnds`, `CallsEnd`, `RecoveredServes`, `Reconnects`): fairness
  and ENABLED are out of the prover's reach.
- The storage after a crash: `SamePoints`, `AckedIsOnDisk` and the refinement are proved
  up to the first crash.  After it, memory passes through states that are older than
  the disk, and the statement is false for operations that move points (`move_lost`), so
  that an invariant would have to single out the operations of the run.
- Of `SavedIsConsistent`, that the state of the peer is that of a prefix of its log and that
  the voters are known: after a crash entries are applied a second time, at the start or
  by raft.  The properties say what remains true then, by replaying the log, which is
  recursion over data.
- Of the optimizer: `CancelKeepsChanges` (true of upserts only, section 8), and of
  `DirectoriesAreSound` what speaks of the state after a load (`OneHomeAfterLoad`,
  `AckedIsOnDisk`), where copies of a point with different versions meet.
- `Replication`, `ShardTransfer`: replica states are folds over a log, one per peer;
  `SomeActive` and `SameStates` need lemmas about folds over sets that the prover has no
  library for.
- `PayloadIndex`, `Hnsw`, `Encodings`, `Searcher`, `Routing`: RECURSIVE operators over data,
  which take the SMT solver away from every module that sees them.
- `OptimizerPolicy`, `VectorStorage`, the snapshot modules and `ChannelPool`: no proof.

## 8. Disagreements between comments and code

Three have a run of their own (`move_lost`, `toc_lookup`, `peer_rewrite`).  The
others were met with the same modules: change the constants or scenarios as the last
column says and check the property alone.  The properties in the first column that
no run checks are defined in the modules for this purpose.

| property | what happens | what the code says | constants |
|---|---|---|---|
| `SameContent` | an update between two columns of a background flush and a crash: a point with its new version and its old vector | `segment.rs:990` "presence of version indicates that all other data is up-to-date" | upserts, 2 operations, 1 crash |
| `SamePoints` | the replay of an insert picks another appendable segment, which skips it | `segment.rs:1023`, the diagram of recovery | two appendable segments, nothing placed, upserts |
| `AckedIsOnDiskFromZero` | operation 0 is confirmed and not saved | `segment_holder.rs:410` "detects lowest unsaved change version" | `FirstOp = 0`, two appendable segments |
| `AckedIsOnDisk` | a snapshot saves a segment while `flush_all` is between two | the same | `Snapshots = TRUE`, two appendable segments |
| `StopIsLast` | a client that reserved a slot before the swap sends behind Stop | `local_shard.rs:424` "makes sure that the Stop signal is the last one" | as `waiting` |
| `PlungerCoversAll` | a plunger in the old queue is answered while an earlier operation waits in the new one | `local_shard.rs:500` "all submitted by this point updates have made it to the segments" | as `waiting` |
| `CancelKeepsChanges` | a point deleted during a cancelled optimization is back | `segment_optimizer.rs:215` "All processed changes will still be there" | `Cancelling` with `delete` |
| `ShadowFree` without its hypotheses | an alias gets the name of a collection that is being created, or is renamed to that of a collection | `toc.rs:303` "Alias with the same name already exists" | a single node; renames |
| `CallsEnd` (`TableOfContent`) | a snapshot without a collection that the node has waits for its own lock | `toc.rs:1392` "Remove collections that are present locally" | one caller with `Snapshots` |
| `ChangesEnd` without its hypothesis | a creation from another collection looks it up (`toc.rs:426`) and asks for the read lock it holds, as the lookup of `toc_lookup` does, behind a writer | `toc.rs:253` "If neither exists - returns [`StorageError`]", as in `toc_lookup` | as `toc` |
| (`MetaState`) | the second of two alias actions fails, the first stays | `toc.rs:766` "in an atomic fashion" | an operation of two actions |
| `CanRestart` | a crash between the steps of `apply_snapshot` leaves a commit index beyond the log | `persistent.rs:20` "should be saved between restarts" | `Catching` with crashes everywhere |
| `StateIsAlwaysLogPrefix` | after a crash the entries left are applied at the start, and raft hands them out again; an alias operation of several parts leads to another state, or fails, the second time | `persistent.rs:33` "this peer didn't apply them yet" | as `peer` |
| `VotersAreAlwaysKnown` | a repeated promotion of a peer that a later entry has removed | `consensus_manager.rs:376` "Peer should be already known" | as `peer` |
| `AppliedFires` | the sender of an equal operation is replaced, its caller gets an error | `consensus_manager.rs:80` "Fires a signal if some specific operation is applied" | one operation, two callers |
| `ReadyIsReady` | the leader is lost again before the waiter runs | `is_ready.rs:43` "Return `true` if ready" | as `waiting` |
| `AckedIsReplicated` without `Orderly` | an active replica lacks an acknowledged update | `replica_set.rs:146`, `:1170`, `:1381`; `forward_proxy_shard.rs:27`; `toc.rs:975` | any one of the `Hardships`, in `Copying` with a lost update and a restart (`whileDisabled`: in `Recovering` with a restart) |
| `KnowsItself` without its hypothesis | the receiver of an aborted transfer is Partial to itself and Dead to the others | `collection.rs:652` "Remove temp shard, or mark it as dead" | `untimelyCalls` |
| `SomeActive` without its hypothesis | a transfer to itself takes the last active replica away | `collection.rs:351` "Do not deactivate the last active replica" | a request from `a` to `a`, `Holders = {a}` |
| `Loadable` | a receiver that stops before the transfer is initiated cannot load the shard | `replica_set.rs:295` "Save shard config as the last step" | `Copying` |
| `ReadsAreComplete` | a third peer reads from a failed replica after the acknowledgement | `replica_set.rs:1172` "the storage might be inconsistent" | three holders, 1 lost update |
| `NoSleepOnTrue` | a write between the check and the registration of a waiter is not noticed until the timeout | `save_on_disk.rs:52` "Wait for a condition on data to be true" | as `recovery` |
| `MarkedIsNotLoaded` | `ends_with("deleted")` compares whole path components, so a directory with the extension `deleted` is loaded | `local_shard.rs:177`, whose branch removes the "marked-for-remove segment" | a dropped segment and a crash before its removal |
| `NoDesync` | a peer stops between the exchange of its shard and the synchronization: its replica and the others are active with different data | `recover.rs:225` "as there is no de-sync possible" | as `recovery`, 1 crash |
| `PriorityIsAlwaysKept` | a deactivated replica is filled by one that is deactivated next; another recovery of the replica; a removal that takes the last active replica | `recover.rs:230` "Snapshot is the source of truth" | as `recovery` |
| `RecoveredAlwaysServes` | a lost or refused activation or transfer leaves the replica Partial; so do a second recovery that fails and a target that dies with its transfer registered | `recover.rs:261` "we need to sync recovered data with this replica" | as `recovery` |
| `SomeServes` | two peers recover at the same time, and both have taken their shard away | none; a reader would expect it | two requests |
| `DroppedIsIdle` | `last_success_age` reads the clock before the time of the last success; a success in between makes the difference wrap around | `transport_channel_pool.rs:31` "if there were no successful requests within this time" | as `recovery` |
| `BatchIsExact` | in a filtered search without the graph, the first search of a batch uses the ids up and the others find nothing | none; a reader would expect it | as `index` |
| `RestIsAlwaysOptimal` | an operation skipped for the handles of optimizations that have all reported prunes them and starts none | `update_handler.rs:264` "optimization will be triggered by some other signal" | as `waiting` |
| `PayloadIsAlwaysLog` | while `try_recover` applies the first failed operation, the worker applies the next it has; the failed ones between them are too old | `segment.rs:139` "Failed operations should not be skipped" | as `index` |
| `QueryIsScan` | a value replaced by one that the index does not take, or deleted with its parent, stays in the index (`field_index_base.rs:88`, `struct_payload_index.rs:472`); a text of several words is matched by words | none; a reader would expect it | as `index` |
| `EstimateIsAlwaysBound` | the bounds for ranges and regions come from a histogram or from counts per hash | none; a reader would expect it | as `index` |
| `IndexIsAlwaysGraph` | a crash between the two files of a conversion, after which the old graph is read as a new one | `graph_layers.rs:253` "Converting legacy graph to new format" | as `index` |
| `UntouchedIsAlwaysFound` | a moved point, read in both segments, takes the place of another point in the result of the old one | none; a reader would expect it | as `reads` |
| `ShardsAreAlwaysOneStore`, `RemoteReadsAreAlwaysAlike` | a message does not carry integers that are no `i64` and radii that are no `f32`; a point without payload arrives with an empty one, which replaces what is stored; an index without a schema is refused | `conversions.rs:799` (of `api`) "lossy ok?" | as `reads` |
| `BlamedIsAlwaysDue` | a leader that is locked for writing answers with a status that counts as a service error, and is deactivated; a replica refuses an index without a schema (`points_common.rs:337`) and is too | `replica_set.rs:1247` "if forwarding failed with service error" | as `reads` |
| `NobodyEverWaitsForItself` | an operation on every shard whose leaders differ is split again by each and comes back | none; a reader would expect it | as `reads` |
| `VectorsAreAlwaysThere` | a marked segment that is half removed, and one whose migration was cut off, are loaded, or make the load fail | `segment_constructor_base.rs:183` "Assume segment was not properly saved", `:244` "If it is not saved, segment will be skipped" | as `recovery` |
| `RestoredIsAlwaysRecent` | a flush during the copy truncates the log; a point moves from a segment still to be archived to one that was; a deletion is only noted by a proxy, and the log not saved | `local_shard.rs:500` "all submitted by this point updates have made it to the segments", `:516` | as `recovery` |
| `ListedIsAlwaysComplete` | two requests of one second have one name and one file | `collection.rs:1427` "copy is not atomic" | as `recovery` |
| `RecoveredIsAlwaysSnapshot` | what an earlier start has left of another snapshot is in the temporary directory (`snapshots.rs:60`) | none; a reader would expect it | as `recovery` |
| `AlwaysReconnects` | the health check beside a slow request tries the least used channel, a dead one, ends the request, and the channel that works is dropped | `transport_channel_pool.rs:165` "it assumes the channel is dead" | as `recovery` |
| `ScrollIsComplete` | a point moves while a page is read: the page is short, and taken for the last | none; a reader would expect it | as `reads` |

Two texts and the code differ without a behaviour to check: `point_ops.rs:20` describes
`medium` as a "dynamically selected leader" and `strong` as "the permanent leader",
while `leader_peer_for_update` (`replica_set.rs:1265`) takes the highest alive replica
for `strong` and the highest replica for `medium`; `config.rs:63` says the consistency
factor is the number of replicas that "should apply the operation for us to consider
it successful", while `replica_set.rs:1423` lowers it to the number of replicas that
were asked.

Beyond these, the scenarios of some modules leave out circumstances in which their
property does not hold: `PayloadIndex` (indexes of another schema over an older
column, fractional bounds on integers), `Hnsw` (exactness for one thread and room for
all links only) and `Optimizer` (in the workload with flushes, the wrapped segment has
no unsaved changes).

## 9. Not modelled

`PROJECT.json` lists every part with the reason, and for each modelled part what its
module leaves out.  In short: the raft transport and the bootstrap of a cluster, REST
and gRPC services, start of the process, settings and telemetry are input and
output; generated gRPC code; distances and the arithmetic of quantization are
floating point; suggestions for the distribution of shards are a heuristic without a
stated promise; the proxy shard is never constructed and shard versions are always
zero.  Of modelled parts: an upsert without payload on a point whose place is used
again (`ShardStorage`); points without a version in the removal of duplicates, and the
creation of field indexes on proxies (`Optimizer`); the copy of the data of another
collection after a creation (`data_transfer.rs`).  Raft-rs, the WAL crate, RocksDB, tokio and the hash ring are external and
appear through what the code relies on.
