---------------------------- MODULE ShardSnapshot ----------------------------
(***************************************************************************)
(* The snapshot of a local shard, taken while clients go on updating it,   *)
(* and the shard that is restored from it.                                 *)
(*                                                                         *)
(* LocalShard::create_snapshot archives the segments one after the other,  *)
(* each under its own read lock, and then the write-ahead log; a listener  *)
(* node waits for the updates it has accepted instead and writes an empty  *)
(* log.  The lock of the segment holder keeps segments from being added    *)
(* and removed; the updates need no more than a read lock of it.           *)
(*                                                                         *)
(* The shard has an old segment, to which nothing can be appended, and an  *)
(* appendable one.  An optimizer may have put a proxy in the place of both *)
(* (its write segment is the appendable one).                              *)
(***************************************************************************)
EXTENDS Naturals, Sequences, FiniteSets, SequencesExt

CONSTANTS Points,
          None,
          Scenarios,
          MaxOps     \* bound on the number of operations

VARIABLES scenario,
          log,       \* every operation, in the order of the write-ahead log
          walFirst,  \* the first operation that the log on disk still has
          applied,   \* how many of them the update worker has applied
          old,       \* the segment that cannot be appended to
          app,       \* the appendable one
          hidden,    \* the points of old that the proxy holds to be deleted
          snap       \* the snapshot, with where its first archive ends (behind) and
                     \* the points that its archives miss (passed) or should not
                     \* have (noted)

vars == <<scenario, log, walFirst, applied, old, app, hidden, snap>>

Op(kind, point) == [kind |-> kind, point |-> point]

\* A stored point: the operation it is at, and those its vector and its
\* payload come from.
Record(n, vector, payload) == [version |-> n, vector |-> vector, payload |-> payload]

Nothing == [p \in Points |-> None]
NoSnap == [pc |-> "none", todo |-> {}, archives |-> <<>>, first |-> 0, last |-> 0, begun |-> 0, behind |-> 0, passed |-> {}, noted |-> {}]

Init ==
    /\ scenario \in Scenarios
    /\ log = <<>>
    /\ walFirst = 1
    /\ applied = 0
    /\ old = [p \in Points |-> IF p \in scenario.placed THEN Record(0, 0, 0) ELSE None]
    /\ app = Nothing
    /\ hidden = {}
    /\ snap = NoSnap

-----------------------------------------------------------------------------
(* Updates                                                                 *)

\* What operation n makes of a record, wherever it is
Changed(n, op, record) ==
    CASE op.kind = "upsert" -> Record(n, n, n)
      [] op.kind = "set" -> IF record = None THEN None ELSE Record(n, record.vector, n)
      [] op.kind = "delete" -> None

InOld(p) == old[p] # None /\ p \notin hidden
Current(p) == IF app[p] # None THEN app[p] ELSE IF InOld(p) THEN old[p] ELSE None

\* The shard goes on after its snapshot is taken; that is of no consequence for it.
Watched == snap.pc \notin {"taken", "restored"}

\* LocalShard::update: the operation gets its number in the log.
Write ==
    /\ Len(log) < MaxOps
    /\ Watched
    /\ \E kind \in {"upsert", "set", "delete"}, p \in scenario.updated : log' = Append(log, Op(kind, p))
    /\ UNCHANGED <<scenario, walFirst, applied, old, app, hidden, snap>>

\* The point leaves a segment that is still to be archived for one that has been;
\* what is replayed does not bring it back.
PassesBy(op) ==
    /\ snap.pc = "segments" /\ snap.todo = {"old"} /\ InOld(op.point)
    /\ op.kind = "set" \/ (op.kind = "upsert" /\ ~scenario.saveWal)

\* The next operation is applied.  A point of the old segment is moved into the
\* appendable one when it changes (move_if_exists of the proxy, or the
\* conditional move of the holder) and deleted from the old one; the proxy only
\* notes the deletion.
ApplyNext ==
    LET n == applied + 1
        op == log[n]
        p == op.point
    IN
    /\ applied < Len(log)
    /\ Watched
    /\ applied' = n
    /\ app' = [app EXCEPT ![p] = Changed(n, op, Current(p))]
    /\ IF scenario.proxied
       THEN /\ hidden' = IF old[p] # None THEN hidden \cup {p} ELSE hidden
            /\ UNCHANGED old
       ELSE /\ old' = [old EXCEPT ![p] = None]
            /\ UNCHANGED hidden
    /\ snap' = IF PassesBy(op) THEN [snap EXCEPT !.passed = @ \cup {p}] ELSE snap
    /\ UNCHANGED <<scenario, log, walFirst>>

\* The flush worker has flushed all segments and drops a prefix of the log, while
\* a snapshot is taken too: it needs no more than the read lock of the holder that
\* create_snapshot has.  A proxy that notes deletions holds the log back.
Ack ==
    /\ Watched
    /\ hidden = {}
    /\ \E n \in walFirst + 1 .. applied + 1 : walFirst' = n
    /\ UNCHANGED <<scenario, log, applied, old, app, hidden, snap>>

-----------------------------------------------------------------------------
(* The snapshot                                                            *)

\* create_snapshot starts; a listener sends a plunger after what it has taken.
Start ==
    /\ snap.pc = "none"
    /\ snap' = [snap EXCEPT !.pc = IF scenario.saveWal THEN "segments" ELSE "plunger",
                            !.todo = IF scenario.proxied THEN {"proxy"} ELSE {"old", "app"},
                            !.begun = Len(log)]
    /\ UNCHANGED <<scenario, log, walFirst, applied, old, app, hidden>>

\* The update worker has come to the plunger.
Plunged ==
    /\ snap.pc = "plunger"
    /\ applied >= snap.begun
    /\ snap' = [snap EXCEPT !.pc = "segments"]
    /\ UNCHANGED <<scenario, log, walFirst, applied, old, app, hidden>>

\* Segment::take_snapshot flushes the segment and writes its archive, over one
\* that is there already; the proxy does so for the segment that it wraps and
\* for the one that it writes to, and archives nothing of its own.
TakeSnapshot(archives, name) ==
    [n \in DOMAIN archives \cup {name} |->
        IF n # name THEN archives[n] ELSE IF n = "old" THEN old ELSE app]

TakeProxySnapshot(archives) == TakeSnapshot(TakeSnapshot(archives, "old"), "app")

\* snapshot_all_segments: the next segment of the holder, in any order
Archive ==
    /\ snap.pc = "segments"
    /\ \E s \in snap.todo :
          snap' = [snap EXCEPT !.todo = @ \ {s},
                               !.noted = {p \in hidden : app[p] = None},
                               !.behind = IF snap.archives = <<>> THEN applied ELSE @,
                               !.archives = IF s = "proxy" THEN TakeProxySnapshot(@) ELSE TakeSnapshot(@, s)]
    /\ UNCHANGED <<scenario, log, walFirst, applied, old, app, hidden>>

\* A slip of SnapshotWal: the log is saved up to what has been applied.
SnapshotAppliedWal ==
    /\ snap.pc = "segments" /\ snap.todo = {}
    /\ snap' = [snap EXCEPT !.pc = "taken",
                            !.first = IF scenario.saveWal THEN walFirst ELSE Len(log) + 1,
                            !.last = applied]
    /\ UNCHANGED <<scenario, log, walFirst, applied, old, app, hidden>>

\* snapshot_wal, or snapshot_empty_wal
SnapshotWal ==
    /\ snap.pc = "segments" /\ snap.todo = {}
    /\ snap' = [snap EXCEPT !.pc = "taken",
                            !.first = IF scenario.saveWal THEN walFirst ELSE Len(log) + 1,
                            !.last = Len(log)]
    /\ UNCHANGED <<scenario, log, walFirst, applied, old, app, hidden>>

-----------------------------------------------------------------------------
(* The restored shard                                                      *)

\* LocalShard::restore_snapshot unpacks every archive into a segment.
Unpacked(name) == snap.archives[name]

\* deduplicate_points: the newest copy of a point stays.
Deduplicated(p) ==
    LET s == Unpacked("old")[p]
        t == Unpacked("app")[p]
    IN  IF s = None THEN t
        ELSE IF t = None \/ t.version < s.version THEN s ELSE t

\* load_from_wal: the log is replayed; a point is not changed by an operation
\* that is older than it is.
Replay(content, n) ==
    LET op == log[n]
        p == op.point
    IN  IF content[p] # None /\ content[p].version > n THEN content
        ELSE [content EXCEPT ![p] = Changed(n, op, content[p])]

Restored ==
    FoldLeft(Replay, [p \in Points |-> Deduplicated(p)], [i \in 1 .. snap.last + 1 - snap.first |-> snap.first + i - 1])

Restore ==
    /\ snap.pc = "taken"
    /\ snap' = [snap EXCEPT !.pc = "restored"]
    /\ old' = Nothing
    /\ app' = Restored
    /\ hidden' = {}
    /\ UNCHANGED <<scenario, log, walFirst, applied>>

Next == Write \/ ApplyNext \/ Ack \/ Start \/ Plunged \/ Archive \/ SnapshotWal \/ Restore

Spec == Init /\ [][Next]_vars

-----------------------------------------------------------------------------
(* Properties                                                              *)

\* The content of the shard after the first k operations
After(k) ==
    FoldLeft(LAMBDA content, n : [content EXCEPT ![log[n].point] = Changed(n, log[n], @)],
             [p \in Points |-> IF p \in scenario.placed THEN Record(0, 0, 0) ELSE None],
             [n \in 1 .. k |-> n])

Recent(p) == \E k \in snap.begun .. snap.last : app[p] = After(k)[p]

\* The saved log goes on where the archive that was taken first ends.
LogReaches == scenario.saveWal => snap.first <= snap.behind + 1

\* Without the log, what only a proxy has noted is not in the snapshot.
OnlyNoted == IF scenario.saveWal THEN {} ELSE snap.noted

\* A restored point is as it was at some moment while the snapshot was taken: no
\* update that was accepted before it began is lost or undone, and none is applied by
\* half.  Three circumstances apart: the flush worker has dropped from the log, before
\* it was saved, operations that one of the archives does not have; the point moved
\* from a segment that was still to be archived to one that had been; or its deletion
\* is only noted by a proxy and the log is not saved (LocalShard::create_snapshot,
\* restore_snapshot, snapshot_all_segments, ProxySegment::take_snapshot).
RestoredIsRecent ==
    snap.pc = "restored" /\ LogReaches =>
        \A p \in Points \ (snap.passed \cup OnlyNoted) : Recent(p)

\* A snapshot has every update that was accepted before it began: "snapshot all
\* shard's WAL", "make sure that all submitted by this point updates have made it to
\* the segments" (LocalShard::create_snapshot).
RestoredIsAlwaysRecent == snap.pc = "restored" => \A p \in Points : Recent(p)
=============================================================================
