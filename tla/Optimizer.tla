----------------------------- MODULE Optimizer ------------------------------
(***************************************************************************)
(* Optimizations of a shard while it is in use: the holder in which        *)
(* segments are wrapped by proxies and replaced, updates through the       *)
(* proxies, the flush of proxies, cancellation, and a crash with what an   *)
(* unfinished optimization leaves on disk.                                 *)
(*                                                                         *)
(*   worker        CollectionUpdater::update     StartOp, Visit..., Finish *)
(*   optimization  SegmentOptimizer::optimize    Wrap, Build, Sweep, Swap, *)
(*                                               DropData, Cancel, AddTmp  *)
(*   flusher       SegmentHolder::flush_all      BeginFlush, FlushVisit,   *)
(*                                               EndFlush; FlushThread     *)
(*   process       LocalShard::load              Crash, ReplayDone         *)
(*                                                                         *)
(* An update, or a flush_all, keeps the holder locked for reading, so that *)
(* no optimization changes the holder meanwhile.  The flush of one segment *)
(* is one step here: ShardStorage has its columns.                         *)
(***************************************************************************)
EXTENDS Segment, Sequences, FiniteSets

CONSTANTS Initial,        \* the segments at the beginning
          Plain,          \* those of them that are appendable
          Placed,         \* the points they hold
          Tasks,          \* the optimizations
          OutAppendable,  \* whether an optimized segment is appendable
          QueueSize,      \* capacity of the update channel
          Workloads       \* what may happen to the shard: a set of workloads

AllOpKinds == {"upsert", "delete", "set_payload", "overwrite_payload", "clear_payload"}
Ops == [kind : AllOpKinds, point : Points]

Absent == "absent"
Original == "original"

Tmp(t) == <<"tmp", t>>
Out(t) == <<"out", t>>
Segs == Initial \cup {Tmp(t) : t \in Tasks} \cup {Out(t) : t \in Tasks}

\* A workload says which operations the clients send and how many (ops), how many
\* optimizations run (tasks) and of which segments, whether they are cancelled or
\* fail, and bounds the passes of the flush worker and the crashes.
Workload == [kinds : SUBSET AllOpKinds, ops : Nat, tasks : Nat, optimizable : SUBSET Segs,
             cancels : BOOLEAN, fails : BOOLEAN, flushes : Nat, crashes : Nat]

ASSUME OptimizerAssumption ==
    /\ Plain \subseteq Initial
    /\ Plain # {}
    /\ Initial \cap {Tmp(t) : t \in Tasks} = {}
    /\ Initial \cap {Out(t) : t \in Tasks} = {}
    /\ {Absent, Original} \cap Tasks = {}
    /\ Placed \in [Initial -> SUBSET Points]
    /\ \A s, r \in Initial : s # r => Placed[s] \cap Placed[r] = {}
    /\ OutAppendable \in BOOLEAN
    /\ QueueSize \in Nat
    /\ Workloads \subseteq Workload

VARIABLES
    workload,  \* the workload, chosen once
    log,       \* every operation written to the WAL, in order
    walFirst,  \* number of the first operation the WAL still holds
    next,      \* number of the next operation to apply
    cur,       \* the operation being applied
    holder,    \* for each segment: absent, original, or the optimization
               \* whose proxy wraps it
    mem,       \* segments in memory
    deleted,   \* the deleted_points that the proxies of an optimization share
    task,      \* the optimizations
    last,      \* last_flushed_version of the proxy of each segment
    dirs,      \* the segments that have a directory
    disk,      \* what is in it
    saving,    \* the version that the flush thread of each segment saves
    pass,      \* the flush_all in progress, and the number of the pass
    replaying, \* the shard is being loaded
    crashes    \* number of crashes so far

stored == <<dirs, disk, saving, last, pass, walFirst>>
vars == <<log, next, cur, holder, mem, deleted, task, stored, replaying, crashes, workload>>

Idle == [num |-> None, todo |-> {}, found |-> FALSE]
NoTask == [pc |-> "idle", ids |-> {}, removed |-> {}]
NoPass(k) == [on |-> FALSE, count |-> k, todo |-> {}, unsaved |-> None, persisted |-> 0]

NewPass(k, todo) == [on |-> TRUE, count |-> k, todo |-> todo, unsaved |-> None, persisted |-> 0]

NextNum == Len(log) + 1
Op(n) == log[n]

Init ==
    /\ workload \in Workloads
    /\ log = <<>>
    /\ walFirst = 1
    /\ next = 1
    /\ cur = Idle
    /\ holder = [s \in Segs |-> IF s \in Initial THEN Original ELSE Absent]
    /\ mem = [s \in Segs |-> IF s \in Initial THEN SegmentOf(Placed[s], 0) ELSE SegmentOf({}, None)]
    /\ deleted = [t \in Tasks |-> {}]
    /\ task = [t \in Tasks |-> NoTask]
    /\ last = [s \in Segs |-> None]
    /\ dirs = Initial
    /\ disk = mem
    /\ saving = [s \in Segs |-> None]
    /\ pass = NoPass(0)
    /\ replaying = FALSE
    /\ crashes = 0

Held == {s \in Segs : holder[s] # Absent}
Proxied(s) == holder[s] \in Tasks

\* A proxy always says that it is appendable.
IsAppendable(s) ==
    \/ Proxied(s)
    \/ s \in Plain
    \/ s \in {Tmp(t) : t \in Tasks}
    \/ OutAppendable /\ s \in {Out(t) : t \in Tasks}

-----------------------------------------------------------------------------
(* A segment of the holder, as SegmentEntry.  w is a pair of mem and       *)
(* deleted that an operation passes on from call to call.                  *)

World == [mem |-> mem, deleted |-> deleted]

HasPoint(w, s, p) ==
    IF Proxied(s)
    THEN \/ p \in w.mem[Tmp(holder[s])].mapping
         \/ p \in w.mem[s].mapping \ w.deleted[holder[s]]
    ELSE p \in w.mem[s].mapping

\* The segment behind an entry that answers for the point.
Answering(w, s, p) ==
    IF Proxied(s) /\ p \in w.mem[Tmp(holder[s])].mapping THEN Tmp(holder[s]) ELSE s

PointVersion(w, s, p) == w.mem[Answering(w, s, p)].versions[p]

\* A proxy adds to the filter of a query of the wrapped segment that the point is
\* not one of deleted_points.
Hidden(w, s) == IF Proxied(s) THEN w.deleted[holder[s]] ELSE {}

\* search: a proxy appends what it finds in the write segment, so that a copy of
\* the point on either side is a hit.
Found(w, s, p) ==
    {r \in {s} : p \in w.mem[r].mapping \ Hidden(w, s)}
       \cup {r \in {Tmp(t) : t \in {holder[s]} \cap Tasks} : p \in w.mem[r].mapping}

\* read_filtered and read_range: the points of a scroll, which are then retrieved.
Listed(w, s) ==
    (w.mem[s].mapping \ Hidden(w, s)) \cup UNION {w.mem[Tmp(t)].mapping : t \in {holder[s]} \cap Tasks}

\* move_if_exists: copy the point to the write segment, unless it was deleted
\* or is not in the wrapped one.
MoveIfExists(w, s, n, p) ==
    LET t == holder[s] IN
    IF p \in w.deleted[t] \/ p \notin w.mem[s].mapping THEN w
    ELSE [w EXCEPT !.deleted[t]  = @ \cup {p},
                   !.mem[Tmp(t)] = MovedInto(@, w.mem[s], n, p)]

Modify(seg, n) ==
    LET p == Op(n).point IN
    IF Op(n).kind = "upsert"
    THEN UpsertWithPayload(seg, n, p)
    ELSE WritePayload(seg, n, p, NewPayload(Op(n).kind, seg.payloads[p], n))

\* upsert_vector, set_payload and so on of a segment or of a proxy.
Modified(w, s, n) ==
    IF Proxied(s)
    THEN [MoveIfExists(w, s, n, Op(n).point) EXCEPT !.mem[Tmp(holder[s])] = Modify(@, n)]
    ELSE [w EXCEPT !.mem[s] = Modify(@, n)]

\* The copy-on-write move of a point of segment s to entry a.
Moved(w, s, a, n, p) ==
    IF Proxied(a)
    THEN [MoveIfExists(w, a, n, p) EXCEPT
             !.mem[Tmp(holder[a])] = MovedInto(@, w.mem[s], n, p),
             !.mem[s] = DeletePoint(@, n, p)]
    ELSE [w EXCEPT !.mem[a] = MovedInto(@, w.mem[s], n, p),
                   !.mem[s] = DeletePoint(@, n, p)]

\* delete_point: a proxy marks the point of the wrapped segment.
Deleted(w, s, n, p) ==
    IF Proxied(s)
    THEN LET t == holder[s] IN
         [w EXCEPT !.deleted[t]  = IF p \in w.mem[s].mapping THEN @ \cup {p} ELSE @,
                   !.mem[Tmp(t)] = DeletePoint(@, n, p)]
    ELSE [w EXCEPT !.mem[s] = DeletePoint(@, n, p)]

\* The segments change in memory; deletions reach the disk at once.
Become(w, n, p) ==
    /\ mem' = w.mem
    /\ deleted' = w.deleted
    /\ disk' = [s \in Segs |-> IF p \in mem[s].mapping \ w.mem[s].mapping
                               THEN Forget(disk[s], p) ELSE disk[s]]

-----------------------------------------------------------------------------
(* Updates: as in ShardStorage, with entries in the place of segments      *)

Write(op) ==
    /\ ~ replaying
    /\ op.kind \in workload.kinds
    /\ Len(log) < workload.ops
    /\ NextNum - next < QueueSize
    /\ log' = Append(log, op)
    /\ UNCHANGED <<next, cur, holder, mem, deleted, task, stored, replaying, crashes, workload>>

StartOp ==
    /\ cur = Idle
    /\ next < NextNum
    /\ cur' = [num |-> next, todo |-> Held, found |-> FALSE]
    /\ next' = next + 1
    /\ UNCHANGED <<log, holder, mem, deleted, task, stored, replaying, crashes, workload>>

Visited(s, found) == cur' = [cur EXCEPT !.todo = @ \ {s}, !.found = @ \/ found]

VisitMiss(s) ==
    /\ s \in cur.todo
    /\ ~ HasPoint(World, s, Op(cur.num).point)
    /\ Visited(s, FALSE)
    /\ UNCHANGED <<log, next, holder, mem, deleted, task, stored, replaying, crashes, workload>>

VisitDelete(s) ==
    LET p == Op(cur.num).point IN
    /\ s \in cur.todo
    /\ HasPoint(World, s, p)
    /\ Op(cur.num).kind = "delete"
    /\ Visited(s, FALSE)
    /\ Become(Deleted(World, s, cur.num, p), cur.num, p)
    /\ UNCHANGED <<log, next, holder, task, dirs, saving, last, pass, walFirst, replaying, crashes, workload>>

VisitApplied(s) ==
    LET p == Op(cur.num).point IN
    /\ s \in cur.todo
    /\ HasPoint(World, s, p)
    /\ Op(cur.num).kind # "delete"
    /\ PointVersion(World, s, p) >= cur.num
    /\ Visited(s, TRUE)
    /\ UNCHANGED <<log, next, holder, mem, deleted, task, stored, replaying, crashes, workload>>

VisitUpdate(s) ==
    LET n == cur.num
        p == Op(n).point
    IN
    /\ s \in cur.todo
    /\ HasPoint(World, s, p)
    /\ Op(n).kind # "delete"
    /\ PointVersion(World, s, p) < n
    /\ Visited(s, TRUE)
    /\ \/ /\ IsAppendable(s)
          /\ Become(Modified(World, s, n), n, p)
       \/ /\ ~ IsAppendable(s)
          /\ \E a \in {e \in Held : IsAppendable(e)} :
                Become(Modified(Moved(World, s, a, n, p), a, n), n, p)
    /\ UNCHANGED <<log, next, holder, task, dirs, saving, last, pass, walFirst, replaying, crashes, workload>>

Finish ==
    LET n == cur.num IN
    /\ n # None
    /\ cur.todo = {}
    /\ cur' = Idle
    /\ IF Op(n).kind = "upsert" /\ ~ cur.found
       THEN \E a \in {e \in Held : IsAppendable(e)} : Become(Modified(World, a, n), n, Op(n).point)
       ELSE UNCHANGED <<mem, deleted, disk>>
    /\ UNCHANGED <<log, next, holder, task, dirs, saving, last, pass, walFirst, replaying, crashes, workload>>

-----------------------------------------------------------------------------
(* Optimizations                                                           *)

HolderFree == cur = Idle /\ ~ pass.on /\ ~ replaying

Moves(t, from, to) == task[t].pc = from /\ task' = [task EXCEPT ![t].pc = to]

\* optimize wraps the segments ids, unless one of them is gone or wrapped.
Wrap(t, ids) ==
    /\ HolderFree
    /\ task[t].pc = "idle"
    /\ Cardinality({u \in Tasks : task[u].pc # "idle"}) < workload.tasks
    /\ ids # {} /\ \A s \in ids : holder[s] = Original
    /\ task' = [task EXCEPT ![t] = [pc |-> "proxied", ids |-> ids, removed |-> {}]]
    /\ holder' = [s \in Segs |-> IF s \in ids THEN t ELSE holder[s]]
    /\ dirs' = dirs \cup {Tmp(t)}
    /\ UNCHANGED <<log, next, cur, mem, deleted, last, disk, saving, pass, walFirst, replaying, crashes, workload>>

\* update_from for every segment, in order of their versions at worst: of two
\* copies of a point the newer one is taken.
Merged(ids) ==
    LET having(p) == {s \in ids : p \in mem[s].mapping}
        newest(p) == CHOOSE s \in having(p) :
                        \A r \in having(p) : mem[r].versions[p] <= mem[s].versions[p]
        points == {p \in Points : having(p) # {}}
    IN [mapping  |-> points,
        versions |-> [p \in Points |-> IF p \in points THEN mem[newest(p)].versions[p] ELSE None],
        vectors  |-> [p \in Points |-> IF p \in points THEN mem[newest(p)].vectors[p] ELSE None],
        payloads |-> [p \in Points |-> IF p \in points THEN mem[newest(p)].payloads[p] ELSE {}],
        version  |-> CHOOSE v \in {UnwrapOr0(mem[s].version) : s \in ids} :
                        \A s \in ids : UnwrapOr0(mem[s].version) <= v]

\* delete_point(optimized_segment.version(), point_id) for each of the points.
Without(seg, P) ==
    LET gone == {p \in P : p \in seg.mapping /\ Applies(seg, UnwrapOr0(seg.version), p)} IN
    [seg EXCEPT !.mapping  = @ \ gone,
                !.versions = [p \in Points |-> IF p \in gone THEN None ELSE @[p]],
                !.vectors  = [p \in Points |-> IF p \in gone THEN None ELSE @[p]],
                !.payloads = [p \in Points |-> IF p \in gone THEN {} ELSE @[p]]]

\* build_new_segment: build, flush, move into the directory of the segments and
\* delete what has been deleted so far.
Build(t) ==
    LET new == Without(Merged(task[t].ids), deleted[t]) IN
    /\ ~ replaying
    /\ Moves(t, "proxied", "built")
    /\ mem' = [mem EXCEPT ![Out(t)] = new]
    /\ disk' = [disk EXCEPT ![Out(t)] = new]
    /\ dirs' = dirs \cup {Out(t)}
    /\ UNCHANGED <<log, next, cur, holder, deleted, last, saving, pass, walFirst, replaying, crashes, workload>>

\* An error other than a cancellation leaves the proxies where they are.
BuildFails(t) ==
    /\ workload.fails
    /\ ~ replaying
    /\ Moves(t, "proxied", "failed")
    /\ UNCHANGED <<log, next, cur, holder, mem, deleted, stored, replaying, crashes, workload>>

\* already_remove_points
Sweep(t) ==
    /\ ~ replaying
    /\ task[t].pc = "built"
    /\ task' = [task EXCEPT ![t].pc = "swept",
                            ![t].removed = deleted[t] \ mem[Out(t)].mapping]
    /\ UNCHANGED <<log, next, cur, holder, mem, deleted, stored, replaying, crashes, workload>>

\* A slip: what was deleted after the sweep is forgotten.
LateDeletesNone(t) == {}

LateDeletes(t) == deleted[t] \ task[t].removed

\* The write segment stays if it has points or no other segment is appendable.
KeepsTmp(t) ==
    \/ mem[Tmp(t)].mapping # {}
    \/ \A s \in (Held \ task[t].ids) \cup {Out(t)} : ~ IsAppendable(s)

\* The last part of optimize, with the holder locked for writing.
Swap(t) ==
    LET new == Without(mem[Out(t)], LateDeletes(t)) IN
    /\ HolderFree
    /\ Moves(t, "swept", "swapped")
    /\ mem' = [mem EXCEPT ![Out(t)] = new]
    /\ disk' = [disk EXCEPT ![Out(t)] = Without(@, mem[Out(t)].mapping \ new.mapping)]
    /\ holder' = [s \in Segs |-> IF s \in task[t].ids THEN Absent
                                 ELSE IF s = Out(t) \/ (s = Tmp(t) /\ KeepsTmp(t)) THEN Original
                                 ELSE holder[s]]
    /\ UNCHANGED <<log, next, cur, deleted, last, dirs, saving, pass, walFirst, replaying, crashes, workload>>

\* A slip: the write segment is always removed.
DropDataAll(t) ==
    /\ ~ replaying
    /\ Moves(t, "swapped", "done")
    /\ dirs' = dirs \ (task[t].ids \cup {Tmp(t)})
    /\ UNCHANGED <<log, next, cur, holder, mem, deleted, last, disk, saving, pass, walFirst,
                   replaying, crashes, workload>>

\* The wrapped segments and a write segment that is not needed are removed.
DropData(t) ==
    /\ ~ replaying
    /\ Moves(t, "swapped", "done")
    /\ dirs' = dirs \ (task[t].ids \cup (IF holder[Tmp(t)] = Absent THEN {Tmp(t)} ELSE {}))
    /\ saving' = [s \in Segs |-> IF s \in dirs' THEN saving[s] ELSE None]
    /\ UNCHANGED <<log, next, cur, holder, mem, deleted, last, disk, pass, walFirst, replaying, crashes, workload>>

\* handle_cancellation: the wrapped segments come back ...
Cancel(t) ==
    /\ workload.cancels
    /\ HolderFree
    /\ task[t].pc \in {"proxied", "built", "swept"}
    /\ task' = [task EXCEPT ![t].pc = "unwrapped"]
    /\ holder' = [s \in Segs |-> IF s \in task[t].ids THEN Original ELSE holder[s]]
    /\ UNCHANGED <<log, next, cur, mem, deleted, stored, replaying, crashes, workload>>

\* A slip: the write segment is forgotten.
AddTmpNever(t) ==
    /\ HolderFree
    /\ Moves(t, "unwrapped", "cancelled")
    /\ UNCHANGED <<log, next, cur, holder, mem, deleted, stored, replaying, crashes, workload>>

\* ... and then the write segment joins them, unless it is empty.
AddTmp(t) ==
    /\ HolderFree
    /\ Moves(t, "unwrapped", "cancelled")
    /\ holder' = IF mem[Tmp(t)].mapping # {} THEN [holder EXCEPT ![Tmp(t)] = Original] ELSE holder
    /\ UNCHANGED <<log, next, cur, mem, deleted, stored, replaying, crashes, workload>>

-----------------------------------------------------------------------------
(* Flushing                                                                *)

BeginFlush ==
    /\ ~ replaying
    /\ ~ pass.on
    /\ pass.count < workload.flushes
    /\ pass' = NewPass(pass.count + 1, Held)
    /\ UNCHANGED <<log, next, cur, holder, mem, deleted, task, dirs, disk, saving, last, walFirst,
                   replaying, crashes, workload>>

FlushOrder(s) == IsAppendable(s) \/ \A r \in pass.todo : ~ IsAppendable(r)

EntryVersion(s) ==
    IF Proxied(s)
    THEN MaxVersion(UnwrapOr0(mem[s].version), UnwrapOr0(mem[Tmp(holder[s])].version))
    ELSE UnwrapOr0(mem[s].version)

\* The segments that flush of an entry goes on to flush: those behind a proxy
\* only if nothing of the wrapped segment has been changed.
Flushes(s) ==
    IF ~ Proxied(s) THEN {s}
    ELSE IF deleted[holder[s]] = {} THEN {s, Tmp(holder[s])}
    ELSE {}

Persisted(s) == UnwrapOr0(disk[s].version)

\* A slip: a proxy whose write segment holds changes confirms all of them.
FlushAnswerNewest(s) == EntryVersion(s)

\* What flush of an entry answers.
FlushAnswer(s) ==
    IF ~ Proxied(s) THEN Persisted(s)
    ELSE IF deleted[holder[s]] = {} THEN MaxVersion(Persisted(s), Persisted(Tmp(holder[s])))
    ELSE IF last[s] # None THEN last[s]
    ELSE UnwrapOr0(mem[s].version)

StartsFlush(s) == saving[s] = None /\ mem[s].version # None /\ mem[s].version # disk[s].version

FlushVisit(s) ==
    LET answer  == FlushAnswer(s)
        unsaved == EntryVersion(s) > answer
    IN
    /\ pass.on
    /\ s \in pass.todo
    /\ FlushOrder(s)
    /\ pass' = [pass EXCEPT
                  !.todo = @ \ {s},
                  !.unsaved = IF unsaved /\ (@ = None \/ answer < @) THEN answer ELSE @,
                  !.persisted = MaxVersion(@, answer)]
    /\ saving' = [r \in Segs |-> IF r \in Flushes(s) /\ StartsFlush(r)
                                 THEN mem[r].version ELSE saving[r]]
    /\ last' = IF Proxied(s) /\ Flushes(s) # {} THEN [last EXCEPT ![s] = answer] ELSE last
    /\ UNCHANGED <<log, next, cur, holder, mem, deleted, task, dirs, disk, walFirst, replaying, crashes, workload>>

EndFlush ==
    /\ pass.on
    /\ pass.todo = {}
    /\ pass' = NoPass(pass.count)
    /\ walFirst' = MaxVersion(walFirst, IF pass.unsaved # None THEN pass.unsaved ELSE pass.persisted)
    /\ UNCHANGED <<log, next, cur, holder, mem, deleted, task, dirs, disk, saving, last, replaying, crashes, workload>>

FlushThread(s) ==
    /\ saving[s] # None
    /\ disk' = [disk EXCEPT ![s] = [mem[s] EXCEPT !.version = saving[s]]]
    /\ saving' = [saving EXCEPT ![s] = None]
    /\ UNCHANGED <<log, next, cur, holder, mem, deleted, task, dirs, last, pass, walFirst,
                   replaying, crashes, workload>>

-----------------------------------------------------------------------------
(* Crash and recovery                                                      *)

\* A slip: copies stay.
DeduplicatedNothing(image, keep) ==
    [s \in Segs |-> IF s \in dirs THEN image[s] ELSE SegmentOf({}, None)]

\* deduplicate_points: of several copies of a point the newest stays; of equal
\* ones, the one that happens to come last.  A segment is flushed in one step here,
\* so that all copies have a version; the code leaves alone those without one.
Deduplicated(image, keep) ==
    [s \in Segs |-> IF s \in dirs
                    THEN Without(image[s], {p \in Points : keep[p] # s})
                    ELSE SegmentOf({}, None)]

Newest(p) ==
    LET having == {s \in dirs : p \in disk[s].mapping} IN
    {s \in having : \A r \in having : disk[r].versions[p] <= disk[s].versions[p]}

\* The process dies.  Every directory is loaded as an ordinary segment.
Crash ==
    /\ crashes < workload.crashes
    /\ crashes' = crashes + 1
    /\ \E keep \in [Points -> dirs] :
          /\ \A p \in Points : Newest(p) # {} => keep[p] \in Newest(p)
          /\ mem' = Deduplicated([s \in Segs |-> LoadSegment(disk[s])], keep)
          /\ disk' = [s \in Segs |-> IF s \in dirs THEN mem'[s] ELSE disk[s]]
    /\ holder' = [s \in Segs |-> IF s \in dirs THEN Original ELSE Absent]
    /\ next' = walFirst
    /\ cur' = Idle
    /\ deleted' = [t \in Tasks |-> {}]
    /\ task' = [t \in Tasks |-> [task[t] EXCEPT !.pc = IF @ = "idle" THEN "idle" ELSE "lost"]]
    /\ last' = [s \in Segs |-> None]
    /\ saving' = [s \in Segs |-> None]
    /\ pass' = NoPass(pass.count)
    /\ replaying' = TRUE
    /\ UNCHANGED <<log, walFirst, dirs, workload>>

\* load_from_wal is through and flushes everything.
ReplayDone ==
    /\ replaying
    /\ cur = Idle
    /\ next = NextNum
    /\ replaying' = FALSE
    /\ disk' = [s \in Segs |-> IF s \in dirs THEN mem[s] ELSE disk[s]]
    /\ UNCHANGED <<log, next, cur, holder, mem, deleted, task, dirs, saving, last, pass, walFirst, crashes, workload>>

-----------------------------------------------------------------------------
Next ==
    \/ \E op \in Ops : Write(op)
    \/ StartOp
    \/ \E s \in Segs : VisitMiss(s) \/ VisitDelete(s) \/ VisitApplied(s) \/ VisitUpdate(s)
    \/ Finish
    \/ \E t \in Tasks :
          \/ \E ids \in SUBSET (workload.optimizable \cap Held) : Wrap(t, ids)
          \/ Build(t) \/ BuildFails(t) \/ Sweep(t) \/ Swap(t) \/ DropData(t)
          \/ Cancel(t) \/ AddTmp(t)
    \/ BeginFlush
    \/ \E s \in Segs : FlushVisit(s) \/ FlushThread(s)
    \/ EndFlush
    \/ Crash
    \/ ReplayDone

Spec == Init /\ [][Next]_vars

-----------------------------------------------------------------------------
(* Properties                                                              *)

\* The types of the variables.
TypeOK ==
    /\ workload \in Workloads
    /\ log \in Seq(Ops) /\ walFirst \in Nat /\ next \in Nat
    /\ cur \in [num : Version, todo : SUBSET Segs, found : BOOLEAN]
    /\ holder \in [Segs -> {Absent, Original} \cup Tasks]
    /\ mem \in [Segs -> SegmentState] /\ disk \in [Segs -> SegmentState]
    /\ deleted \in [Tasks -> SUBSET Points]
    /\ task \in [Tasks -> [pc : {"idle", "proxied", "built", "swept", "swapped", "done", "failed",
                                 "unwrapped", "cancelled", "lost"},
                           ids : SUBSET Segs, removed : SUBSET Points]]
    /\ last \in [Segs -> Version] /\ saving \in [Segs -> Version]
    /\ dirs \subseteq Segs
    /\ pass \in [on : BOOLEAN, count : Nat, todo : SUBSET Segs, unsaved : Version, persisted : Nat]
    /\ replaying \in BOOLEAN /\ crashes \in Nat

StartPoints ==
    [p \in Points |-> IF \E s \in Initial : p \in Placed[s]
                      THEN [vec |-> 0, payload |-> {0}]
                      ELSE [vec |-> None, payload |-> {}]]

Store == INSTANCE PointStore WITH
            FirstOp <- 1, applied <- next - 1, store <- {}, Start <- StartPoints

Reference == Store!After(log, next - 1)

\* The copies of p that readers of the holder can meet: the hits of a search, and
\* what is retrieved of an entry that has the point or lists it in a scroll.
Copies(p) ==
    (UNION {Found(World, e, p) : e \in Held})
       \cup {Answering(World, s, p) : s \in {e \in Held : HasPoint(World, e, p) \/ p \in Listed(World, e)}}
Content(s, p) == [vec |-> mem[s].vectors[p], payload |-> mem[s].payloads[p]]

AtRest == cur = Idle /\ ~ replaying

\* Whatever optimizations are under way or have just ended, a reader of the
\* holder finds every point exactly as the operations applied so far left it,
\* and no outdated or deleted copy of it: proxies hide what they moved, and the
\* optimized segment takes over without losing a change made while it was built.
\* (A cancelled optimization leaves older copies behind: see CancelKeepsChanges.)
EveryCopyCurrent ==
    AtRest /\ crashes = 0 /\ ~ workload.cancels => \A p \in Points :
        /\ Copies(p) = {} <=> Reference[p] = Store!Absent
        /\ \A s \in Copies(p) : Content(s, p) = Reference[p]

\* Readers that meet several copies take the newest (segments_searcher).
NewestCopies(p) == {s \in Copies(p) : \A r \in Copies(p) : mem[r].versions[p] <= mem[s].versions[p]}

RolledBack == \A t \in Tasks : task[t].pc # "unwrapped"

\* After handle_cancellation "all processed changes will still be there".  This
\* is so for upserts; a point deleted meanwhile comes back, so that no workload
\* of the passing run has both deletions and cancellations.
CancelKeepsChanges ==
    AtRest /\ RolledBack /\ crashes = 0 => \A p \in Points :
        /\ Copies(p) = {} <=> Reference[p] = Store!Absent
        /\ \A s \in NewestCopies(p) : Content(s, p) = Reference[p]

\* deduplicate_points leaves one copy of every point of the directories that an
\* unfinished optimization left, and the replay makes no second one.
OneHomeAfterLoad ==
    replaying => \A s, r \in Held : s # r =>
        /\ mem[s].mapping \cap mem[r].mapping = {}
        /\ disk[s].mapping \cap disk[r].mapping = {}

\* flush_all "detects lowest unsaved change version", proxies included: a point
\* whose last operation the WAL has dropped is on disk with it.  (A proxy that
\* wraps a segment with unsaved changes breaks this: the flushing workload
\* optimizes a segment that is saved.)
AckedIsOnDisk ==
    \A p \in Points : \A s \in Copies(p) :
        0 < mem[s].versions[p] /\ mem[s].versions[p] < walFirst =>
            /\ p \in disk[s].mapping
            /\ disk[s].versions[p] = mem[s].versions[p]

\* drop_data removes only what nothing refers to any more: every segment that
\* the holder or one of its proxies uses has its directory, and the proxies of
\* a segment belong to the optimization that wrapped it.
HeldHasDirectory ==
    \A s \in Held : /\ s \in dirs
                    /\ Proxied(s) => s \in task[holder[s]].ids /\ Tmp(holder[s]) \in dirs

\* The directories are sound: those in use are there, what the log may drop is in
\* them, and after a crash they are loaded with every point once (drop_data, flush_all,
\* deduplicate_points).
DirectoriesAreSound == HeldHasDirectory /\ AckedIsOnDisk /\ OneHomeAfterLoad
=============================================================================
