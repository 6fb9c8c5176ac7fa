---------------------------- MODULE ShardStorage ----------------------------
(***************************************************************************)
(* The storage of one local shard: the write-ahead log, the update worker, *)
(* the segments in memory and on disk, the flush worker with the           *)
(* background flush of every segment, a crash of the process at any moment *)
(* and the recovery that follows it.                                       *)
(*                                                                         *)
(*   client      LocalShard::update           Write                        *)
(*   update      CollectionUpdater::update    StartOp, Visit..., Finish... *)
(*   flusher     UpdateHandler::flush_worker  BeginFlush, FlushVisit,      *)
(*                                            EndFlush                     *)
(*   per segment Segment::flush's thread      FlushColumn                  *)
(*   snapshot    Segment::take_snapshot       SnapshotFlush                *)
(*   process     LocalShard::load             Crash, ReplayDone            *)
(*                                                                         *)
(* Segments are added, removed and rebuilt by the optimizers only; here    *)
(* their set is fixed.                                                     *)
(***************************************************************************)
EXTENDS Segment, Sequences, FiniteSets

CONSTANTS Segments,     \* the segments of the shard
          Appendable,   \* those that accept inserts
          Placed,       \* the points an optimizer put into the other segments
          OpKinds,      \* the kinds of operation the clients send
          Snapshots,    \* whether snapshots are taken
          FirstOp,      \* number of the first operation of the log
          QueueSize,    \* capacity of the update channel
          MaxOps,       \* bound on the number of operations
          MaxCrashes    \* bound on the number of crashes

AllOpKinds == {"upsert", "delete", "set_payload", "overwrite_payload", "clear_payload"}
Ops == [kind : OpKinds, point : Points]

ASSUME SegmentsAssumption ==
    /\ Appendable \subseteq Segments
    /\ Appendable # {}
    /\ Placed \in [Segments -> SUBSET Points]
    /\ \A a \in Appendable : Placed[a] = {}
    /\ \A s, t \in Segments : s # t => Placed[s] \cap Placed[t] = {}

\* Points that are there from the beginning were written by operation 0; a
\* shard that has seen no operation has only its empty appendable segments.
ASSUME OpsAssumption ==
    /\ OpKinds \subseteq AllOpKinds
    /\ Snapshots \in BOOLEAN
    /\ FirstOp \in Nat /\ QueueSize \in Nat /\ MaxOps \in Nat /\ MaxCrashes \in Nat
    /\ FirstOp = 0 => Appendable = Segments

VARIABLES
    log,       \* every operation ever written to the WAL, in order
    walFirst,  \* number of the first operation the WAL still holds
    next,      \* number of the next operation the worker (or replay) takes
    cur,       \* the operation being applied
    mem,       \* segments in memory
    disk,      \* what of each segment survives a crash of the process
    flushing,  \* the background flush thread of each segment
    pass,      \* the flush_all the flush worker (or recovery) is in
    mode,      \* "running", "replaying" the WAL or "saving" after the replay
    crashes    \* number of crashes so far

vars == <<log, walFirst, next, cur, mem, disk, flushing, pass, mode, crashes>>

Idle == [num |-> None, todo |-> {}, found |-> FALSE]
NoFlush == [stage |-> "idle", version |-> None]
NoPass == [on |-> FALSE, todo |-> {}, unsaved |-> None, persisted |-> 0]
NewPassOfNothing == [on |-> TRUE, todo |-> Segments, unsaved |-> None, persisted |-> None]
NewPass == [on |-> TRUE, todo |-> Segments, unsaved |-> None, persisted |-> 0]
Stages == {"idle", "mapping", "vectors", "payloads", "versions", "state"}

NextNum == FirstOp + Len(log)
Op(n) == log[n - FirstOp + 1]

Init ==
    /\ log = <<>>
    /\ walFirst = FirstOp
    /\ next = FirstOp
    /\ cur = Idle
    /\ mem = [s \in Segments |-> SegmentOf(Placed[s], IF s \in Appendable THEN None ELSE 0)]
    /\ disk = mem
    /\ flushing = [s \in Segments |-> NoFlush]
    /\ pass = NoPass
    /\ mode = "running"
    /\ crashes = 0

-----------------------------------------------------------------------------
(* Writing and applying operations                                         *)

\* LocalShard::update: with a permit of the channel, the operation is put
\* into the WAL and the channel under the lock of the WAL.
Write(op) ==
    /\ mode = "running"
    /\ Len(log) < MaxOps
    /\ NextNum - next < QueueSize
    /\ log' = Append(log, op)
    /\ UNCHANGED <<walFirst, next, cur, mem, disk, flushing, pass, mode, crashes>>

\* update_worker_fn takes the next operation from the channel;
\* load_from_wal takes it from the WAL.
StartOp ==
    /\ mode \in {"running", "replaying"}
    /\ cur = Idle
    /\ next < NextNum
    /\ cur' = [num |-> next, todo |-> Segments, found |-> FALSE]
    /\ next' = next + 1
    /\ UNCHANGED <<log, walFirst, mem, disk, flushing, pass, mode, crashes>>

\* What an operation other than a delete does to its point in a segment.
Modify(seg, n) ==
    LET p == Op(n).point IN
    IF Op(n).kind = "upsert"
    THEN UpsertWithPayload(seg, n, p)
    ELSE WritePayload(seg, n, p, NewPayload(Op(n).kind, seg.payloads[p], n))

\* apply_points: segment s is next in the iteration and the point is not there.
VisitMiss(s) ==
    /\ s \in cur.todo
    /\ Op(cur.num).point \notin mem[s].mapping
    /\ cur' = [cur EXCEPT !.todo = @ \ {s}]
    /\ UNCHANGED <<log, walFirst, next, mem, disk, flushing, pass, mode, crashes>>

\* delete_points finds the point in segment s.
VisitDelete(s) ==
    LET n == cur.num
        p == Op(n).point
    IN
    /\ s \in cur.todo
    /\ p \in mem[s].mapping
    /\ Op(n).kind = "delete"
    /\ cur' = [cur EXCEPT !.todo = @ \ {s}]
    /\ mem' = [mem EXCEPT ![s] = DeletePoint(@, n, p)]
    /\ disk' = [disk EXCEPT ![s] = DiskDelete(@, mem[s], n, p)]
    /\ UNCHANGED <<log, walFirst, next, flushing, pass, mode, crashes>>

\* apply_points_to_appendable: the point already has this version.
VisitApplied(s) ==
    LET n == cur.num
        p == Op(n).point
    IN
    /\ s \in cur.todo
    /\ p \in mem[s].mapping
    /\ Op(n).kind # "delete"
    /\ mem[s].versions[p] >= n
    /\ cur' = [cur EXCEPT !.todo = @ \ {s}, !.found = TRUE]
    /\ UNCHANGED <<log, walFirst, next, mem, disk, flushing, pass, mode, crashes>>

\* ... it is in an appendable segment and is changed in place.
VisitUpdate(s) ==
    LET n == cur.num
        p == Op(n).point
    IN
    /\ s \in cur.todo
    /\ p \in mem[s].mapping
    /\ Op(n).kind # "delete"
    /\ mem[s].versions[p] < n
    /\ s \in Appendable
    /\ cur' = [cur EXCEPT !.todo = @ \ {s}, !.found = TRUE]
    /\ mem' = [mem EXCEPT ![s] = Modify(@, n)]
    /\ UNCHANGED <<log, walFirst, next, disk, flushing, pass, mode, crashes>>

\* ... it is in another segment, and is moved to an appendable one and
\* changed there, under the write locks of both.
VisitMove(s, a) ==
    LET n == cur.num
        p == Op(n).point
    IN
    /\ s \in cur.todo
    /\ p \in mem[s].mapping
    /\ Op(n).kind # "delete"
    /\ mem[s].versions[p] < n
    /\ s \notin Appendable
    /\ cur' = [cur EXCEPT !.todo = @ \ {s}, !.found = TRUE]
    /\ mem' = [mem EXCEPT ![a] = Modify(MovedInto(@, mem[s], n, p), n),
                          ![s] = DeletePoint(@, n, p)]
    /\ disk' = [disk EXCEPT ![s] = DiskDelete(@, mem[s], n, p)]
    /\ UNCHANGED <<log, walFirst, next, flushing, pass, mode, crashes>>

\* upsert_points: a point that no segment had goes to a random appendable one.
FinishInsert(a) ==
    /\ cur.num # None
    /\ cur.todo = {}
    /\ Op(cur.num).kind = "upsert"
    /\ ~ cur.found
    /\ mem' = [mem EXCEPT ![a] = UpsertWithPayload(@, cur.num, Op(cur.num).point)]
    /\ cur' = Idle
    /\ UNCHANGED <<log, walFirst, next, disk, flushing, pass, mode, crashes>>

\* Every other operation is over after the last segment; a payload operation
\* on a missing point ends with PointNotFound, which changes nothing.
Finish ==
    /\ cur.num # None
    /\ cur.todo = {}
    /\ Op(cur.num).kind # "upsert" \/ cur.found
    /\ cur' = Idle
    /\ UNCHANGED <<log, walFirst, next, mem, disk, flushing, pass, mode, crashes>>

-----------------------------------------------------------------------------
(* Flushing                                                                *)

\* The flush worker wakes up, flushes the WAL and enters flush_all(false).
BeginFlush ==
    /\ mode = "running"
    /\ ~ pass.on
    /\ pass' = NewPass
    /\ UNCHANGED <<log, walFirst, next, cur, mem, disk, flushing, mode, crashes>>

\* segment_flush_ordering: appendable segments first.
FlushOrder(s) == s \in Appendable \/ pass.todo \cap Appendable = {}

\* Segment::flush has something to do and no thread at it.
StartsFlush(s) ==
    /\ flushing[s] = NoFlush
    /\ mem[s].version # None
    /\ mem[s].version # disk[s].version

\* What flush answers: the version that was saved before it started anything.
PersistedVersion(s) == UnwrapOr0(disk[s].version)

\* One round of the loop of flush_all.  flush answers with the version that
\* was persisted before the thread it starts; a synchronous flush is waited
\* for before the next segment (its answer is not used: recovery does not
\* acknowledge anything).
FlushVisit(s) ==
    LET persisted == PersistedVersion(s)
        unsaved   == UnwrapOr0(mem[s].version) > persisted
    IN
    /\ pass.on
    /\ s \in pass.todo
    /\ FlushOrder(s)
    /\ mode = "saving" => \A t \in Segments : flushing[t] = NoFlush
    /\ pass' = [pass EXCEPT
                  !.todo = @ \ {s},
                  !.unsaved = IF unsaved /\ (@ = None \/ persisted < @) THEN persisted ELSE @,
                  !.persisted = MaxVersion(@, persisted)]
    /\ flushing' = IF StartsFlush(s)
                   THEN [flushing EXCEPT ![s] = [stage |-> "mapping", version |-> mem[s].version]]
                   ELSE flushing
    /\ UNCHANGED <<log, walFirst, next, cur, mem, disk, mode, crashes>>

\* A slip: the highest persisted version is confirmed, unsaved changes or not.
ConfirmedHighest == pass.persisted

Confirmed == IF pass.unsaved # None THEN pass.unsaved ELSE pass.persisted

\* flush_all returns and the worker acknowledges the confirmed version: the
\* WAL may drop operations below it, but need not (it drops whole files).
EndFlush ==
    /\ pass.on
    /\ pass.todo = {}
    /\ mode = "running"
    /\ pass' = NoPass
    /\ \E f \in walFirst .. MaxVersion(walFirst, Confirmed) : walFirst' = f
    /\ UNCHANGED <<log, next, cur, mem, disk, flushing, mode, crashes>>

\* The flush thread of a segment writes one column after the other.  It writes
\* what the column holds now, but the version it saves is the one captured.
Flushed(image, seg, f) ==
    CASE f.stage = "mapping"  -> [image EXCEPT !.mapping = seg.mapping]
      [] f.stage = "vectors"  -> [image EXCEPT !.vectors = seg.vectors]
      [] f.stage = "payloads" -> [image EXCEPT !.payloads = seg.payloads]
      [] f.stage = "versions" -> [image EXCEPT !.versions = seg.versions]
      [] f.stage = "state"    -> [image EXCEPT !.version = f.version]

\* A slip: the flushing lock is not released.
NextStageNoRelease(f) ==
    [f EXCEPT !.stage = CASE @ = "mapping"  -> "vectors"
                          [] @ = "vectors"  -> "payloads"
                          [] @ = "payloads" -> "versions"
                          [] OTHER          -> "state"]

NextStage(f) ==
    CASE f.stage = "mapping"  -> [f EXCEPT !.stage = "vectors"]
      [] f.stage = "vectors"  -> [f EXCEPT !.stage = "payloads"]
      [] f.stage = "payloads" -> [f EXCEPT !.stage = "versions"]
      [] f.stage = "versions" -> [f EXCEPT !.stage = "state"]
      [] f.stage = "state"    -> NoFlush

FlushColumn(s) ==
    /\ flushing[s].stage # "idle"
    /\ disk' = [disk EXCEPT ![s] = Flushed(@, mem[s], flushing[s])]
    /\ flushing' = [flushing EXCEPT ![s] = NextStage(@)]
    /\ UNCHANGED <<log, walFirst, next, cur, mem, pass, mode, crashes>>

\* take_snapshot of segment s begins with flush(true), on the thread that
\* holds the segment's read lock: no update gets in between its columns.
SnapshotFlush(s) ==
    /\ Snapshots
    /\ mode = "running"
    /\ StartsFlush(s)
    /\ disk' = [disk EXCEPT ![s] = mem[s]]
    /\ UNCHANGED <<log, walFirst, next, cur, mem, flushing, pass, mode, crashes>>

-----------------------------------------------------------------------------
(* Crash and recovery                                                      *)

\* A slip: the replay starts after the first operation of the WAL.
ReplayFromSecond == IF walFirst < NextNum THEN walFirst + 1 ELSE walFirst

\* read_all: the replay starts with the first operation the WAL still holds.
ReplayFrom == walFirst

\* The process dies and the shard is loaded again: the segments as they are
\* on disk, then the operations of the WAL one after the other.
Crash ==
    /\ crashes < MaxCrashes
    /\ crashes' = crashes + 1
    /\ mem' = [s \in Segments |-> LoadSegment(disk[s])]
    /\ next' = ReplayFrom
    /\ cur' = Idle
    /\ flushing' = [s \in Segments |-> NoFlush]
    /\ pass' = NoPass
    /\ mode' = "replaying"
    /\ UNCHANGED <<log, walFirst, disk>>

\* load_from_wal ends with flush_all(true) ...
ReplayDone ==
    /\ mode = "replaying"
    /\ cur = Idle
    /\ next = NextNum
    /\ mode' = "saving"
    /\ pass' = NewPass
    /\ UNCHANGED <<log, walFirst, next, cur, mem, disk, flushing, crashes>>

\* ... and the shard is ready for updates.
Ready ==
    /\ mode = "saving"
    /\ pass.todo = {}
    /\ \A s \in Segments : flushing[s] = NoFlush
    /\ mode' = "running"
    /\ pass' = NoPass
    /\ UNCHANGED <<log, walFirst, next, cur, mem, disk, flushing, crashes>>

-----------------------------------------------------------------------------
ApplyStep ==
    \/ StartOp
    \/ \E s \in Segments :
          \/ VisitMiss(s)
          \/ VisitDelete(s)
          \/ VisitApplied(s)
          \/ VisitUpdate(s)
          \/ \E a \in Appendable : VisitMove(s, a)
    \/ \E a \in Appendable : FinishInsert(a)
    \/ Finish

FlushStep ==
    \/ BeginFlush
    \/ \E s \in Segments : FlushVisit(s)
    \/ EndFlush

Next ==
    \/ \E op \in Ops : Write(op)
    \/ ApplyStep
    \/ FlushStep
    \/ \E s \in Segments : FlushColumn(s) \/ SnapshotFlush(s)
    \/ Crash
    \/ ReplayDone
    \/ Ready

Spec == Init /\ [][Next]_vars

\* The update worker, the flush worker (a timer) and the flush threads never
\* stop for good while the process lives; a restart goes through the recovery.
Fairness ==
    /\ WF_vars(ApplyStep)
    /\ WF_vars(FlushStep)
    /\ \A s \in Segments : WF_vars(FlushColumn(s))
    /\ WF_vars(ReplayDone)
    /\ WF_vars(Ready)

FairSpec == Spec /\ Fairness

-----------------------------------------------------------------------------
(* Types                                                                   *)

\* The variables have their types: segments in memory and on disk have all their
\* columns, and the flush threads are at one of them.
TypeOK ==
    /\ log \in Seq(Ops)
    /\ walFirst \in Nat /\ next \in Nat
    /\ cur \in [num : Version, todo : SUBSET Segments, found : BOOLEAN]
    /\ mem \in [Segments -> SegmentState]
    /\ disk \in [Segments -> SegmentState]
    /\ flushing \in [Segments -> [stage : Stages, version : Version]]
    /\ pass \in [on : BOOLEAN, todo : SUBSET Segments, unsaved : Version, persisted : Nat]
    /\ mode \in {"running", "replaying", "saving"}
    /\ crashes \in Nat

-----------------------------------------------------------------------------
(* The reference: the points after the first k operations                  *)

Holders(p) == {s \in Segments : p \in mem[s].mapping}
Content(s, p) == [vec |-> mem[s].vectors[p], payload |-> mem[s].payloads[p]]

StartPoints ==
    [p \in Points |-> IF \E s \in Segments : p \in Placed[s]
                      THEN [vec |-> 0, payload |-> {0}]
                      ELSE [vec |-> None, payload |-> {}]]

\* The current operation has taken effect: it found its point, or deleted it.
TookEffect ==
    \/ cur.found
    \/ Op(cur.num).kind = "delete" /\ Holders(Op(cur.num).point) = {}

AppliedOps == IF cur = Idle \/ TookEffect THEN next - FirstOp ELSE next - FirstOp - 1

Visible == [p \in Points |-> IF Holders(p) = {}
                             THEN [vec |-> None, payload |-> {}]
                             ELSE Content(CHOOSE s \in Holders(p) : TRUE, p)]

Abstract == INSTANCE PointStore WITH Start <- StartPoints, applied <- AppliedOps, store <- Visible

\* Until the first crash, updates applied by the worker across several segments,
\* moves between segments included, look like one store to which the operations
\* are applied in the order of the WAL: flushes and snapshots change nothing that
\* is visible.  (That every operation is applied is EventuallySaved.)
StepsOfPointStore ==
    /\ Abstract!Init
    /\ [][crashes' = 0 => Abstract!Next \/ UNCHANGED Abstract!pvars]_vars

-----------------------------------------------------------------------------
(* Safety                                                                  *)

\* apply_points_to_appendable moves a point under the write locks of both
\* segments, upsert_points inserts only what no segment had, and what a crash
\* leaves on disk is no exception: a point is never in two segments.
UniqueHome ==
    \A s, t \in Segments : s # t =>
        /\ mem[s].mapping \cap mem[t].mapping = {}
        /\ disk[s].mapping \cap disk[t].mapping = {}

\* The points that a client may rely on are the points stored: whatever was
\* flushed, acknowledged and replayed, a shard that is at rest holds exactly
\* the points that the operations written so far leave (points are neither
\* lost nor do deleted ones come back).
SamePoints ==
    mode = "running" /\ cur = Idle =>
        LET ref == Abstract!After(log, next - FirstOp) IN
        \A p \in Points : (Holders(p) # {}) <=> (ref[p] # Abstract!Absent)

\* ... and each of them has the vector and the payload of the last operation
\* on it.
SameContent ==
    mode = "running" /\ cur = Idle => Visible = Abstract!After(log, next - FirstOp)

OnDisk(s, p) ==
    /\ p \in disk[s].mapping
    /\ disk[s].versions[p] = mem[s].versions[p]
    /\ disk[s].vectors[p] = mem[s].vectors[p]
    /\ disk[s].payloads[p] = mem[s].payloads[p]

\* flush_all's result is safe to acknowledge: a point whose last operation
\* the WAL has dropped is on disk in every column.  (Operation 0 apart, which
\* flush_all cannot tell from "nothing was ever persisted".)
AckedIsOnDisk ==
    \A s \in Segments : \A p \in mem[s].mapping :
        0 < mem[s].versions[p] /\ mem[s].versions[p] < walFirst => OnDisk(s, p)

\* ... operation 0 included: what flush_all's comment promises.
AckedIsOnDiskFromZero ==
    \A s \in Segments : \A p \in mem[s].mapping :
        mem[s].versions[p] < walFirst => OnDisk(s, p)

\* Segment::flush returns early when the segment's version is the persisted
\* one: then the segment in memory is the segment on disk.  (Replay passes
\* through states in which this is not so, but it does not flush there.)
CleanIsSaved ==
    \A s \in Segments :
        mode # "replaying" /\ mem[s].version = disk[s].version =>
            mem[s] = LoadSegment(disk[s])

-----------------------------------------------------------------------------
(* Liveness                                                                *)

\* When the writes stop, every operation written is applied and every segment
\* saved, whatever crash interrupted it, and stays so.
EventuallySaved ==
    <>[](/\ next = NextNum /\ cur = Idle
         /\ \A s \in Segments : mem[s].version = disk[s].version)
=============================================================================
