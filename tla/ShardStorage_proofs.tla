------------------------ MODULE ShardStorage_proofs -------------------------
(***************************************************************************)
(* Proofs about ShardStorage, for any segments, points, kinds of operation *)
(* and bounds.                                                             *)
(***************************************************************************)
EXTENDS ShardStorage, TLAPS

-----------------------------------------------------------------------------
(* Operations on one segment                                               *)

\* upsert_vector keeps a segment a segment.
LEMMA UpsertVectorType ==
    ASSUME NEW seg \in SegmentState, NEW n \in Nat, NEW p \in Points, NEW vec \in Version
    PROVE  UpsertVector(seg, n, p, vec) \in SegmentState
BY Zenon DEF UpsertVector, SegmentState, Version, None, MaxVersion

\* set_full_payload, set_payload and clear_payload keep a segment a segment.
LEMMA WritePayloadType ==
    ASSUME NEW seg \in SegmentState, NEW n \in Nat, NEW p \in Points, NEW pl \in SUBSET Nat
    PROVE  WritePayload(seg, n, p, pl) \in SegmentState
BY Zenon DEF WritePayload, SegmentState, Version, None, MaxVersion

\* Forgetting a point keeps a segment a segment.
LEMMA ForgetType ==
    ASSUME NEW seg \in SegmentState, NEW p \in Points
    PROVE  Forget(seg, p) \in SegmentState
BY Zenon DEF Forget, SegmentState, Version, None

\* delete_point keeps a segment a segment.
LEMMA DeletePointType ==
    ASSUME NEW seg \in SegmentState, NEW n \in Nat, NEW p \in Points
    PROVE  DeletePoint(seg, n, p) \in SegmentState
BY ForgetType, Zenon DEF DeletePoint, SegmentState, Version, None, MaxVersion

\* load_segment yields a segment.
LEMMA LoadSegmentType ==
    ASSUME NEW image \in SegmentState
    PROVE  LoadSegment(image) \in SegmentState
BY Zenon DEF LoadSegment, SegmentState, Version, None

-----------------------------------------------------------------------------
(* Types and ranges                                                        *)

\* The numbers in play never run ahead of the log: this is what makes every
\* operation that is looked up exist.
Bounds ==
    /\ FirstOp <= next /\ next <= NextNum
    /\ FirstOp <= walFirst /\ walFirst <= NextNum
    /\ cur.num # None => FirstOp <= cur.num /\ cur.num < NextNum
    /\ cur.num = None => cur.todo = {}
    /\ \A s \in Segments : /\ mem[s].version <= NextNum
                           /\ disk[s].version <= NextNum
                           /\ flushing[s].version <= NextNum
    /\ pass.unsaved <= NextNum /\ pass.persisted <= NextNum

TypeInv == TypeOK /\ Bounds

\* The operation being applied is one of the log.
LEMMA OpInLog ==
    ASSUME TypeInv, cur.num # None
    PROVE  /\ cur.num \in Nat
           /\ Op(cur.num) \in Ops
           /\ Op(cur.num).point \in Points
           /\ Op(cur.num).kind \in AllOpKinds
<1>1. cur.num \in Nat
  BY Zenon DEF TypeInv, TypeOK, Version
<1>2. cur.num - FirstOp + 1 \in 1 .. Len(log)
  BY <1>1, OpsAssumption DEF TypeInv, TypeOK, Bounds, NextNum
<1>3. Op(cur.num) \in Ops
  BY <1>2 DEF Op, TypeInv, TypeOK
<1> QED
  BY <1>1, <1>3, OpsAssumption, Zenon DEF Ops

\* Closures of segments_updater.rs keep a segment a segment, with a version
\* that is its own or the operation's.
LEMMA ModifyType ==
    ASSUME TypeInv, cur.num # None, Op(cur.num).kind # "delete", NEW seg \in SegmentState
    PROVE  /\ Modify(seg, cur.num) \in SegmentState
           /\ Modify(seg, cur.num).version \in {seg.version, cur.num}
<1> DEFINE n == cur.num
           p == Op(cur.num).point
           k == Op(cur.num).kind
<1>1. n \in Nat /\ p \in Points /\ k \in AllOpKinds
  BY OpInLog, Zenon
<1>2. CASE k = "upsert"
  <2> DEFINE u == UpsertVector(seg, n, p, n)
  <2>1. u \in SegmentState
    BY <1>1, UpsertVectorType, Zenon DEF Version
  <2>2. u.version \in {seg.version, n}
    BY <1>1, Zenon DEF UpsertVector, SegmentState, MaxVersion, Version, None
  <2>3. WritePayload(u, n, p, {n}) \in SegmentState
    BY <1>1, <2>1, WritePayloadType, Zenon
  <2>4. WritePayload(u, n, p, {n}).version \in {u.version, n}
    <3> HIDE DEF u
    <3> QED BY <1>1, <2>1, Zenon DEF WritePayload, SegmentState, MaxVersion, Version, None
  <2> QED
    BY <1>2, <2>2, <2>3, <2>4, Zenon DEF Modify, UpsertWithPayload
<1>3. CASE k # "upsert"
  <2> DEFINE pl == NewPayload(k, seg.payloads[p], n)
  <2>1. pl \in SUBSET Nat
    BY <1>1, <1>3, Zenon DEF NewPayload, SegmentState, AllOpKinds
  <2> HIDE DEF pl
  <2>2. WritePayload(seg, n, p, pl) \in SegmentState
    BY <1>1, <2>1, WritePayloadType, Zenon
  <2>3. WritePayload(seg, n, p, pl).version \in {seg.version, n}
    BY <1>1, <2>1, Zenon DEF WritePayload, SegmentState, MaxVersion, Version, None
  <2> QED BY <1>3, <2>2, <2>3, Zenon DEF Modify, pl
<1> QED BY <1>2, <1>3, Zenon

\* The move: the target stays a segment.
LEMMA MovedIntoType ==
    ASSUME TypeInv, cur.num # None, NEW target \in SegmentState, NEW seg \in SegmentState,
           NEW p \in Points
    PROVE  /\ MovedInto(target, seg, cur.num, p) \in SegmentState
           /\ MovedInto(target, seg, cur.num, p).version \in {target.version, cur.num}
<1> DEFINE n == cur.num
           u == UpsertVector(target, n, p, seg.vectors[p])
<1>1. n \in Nat
  BY OpInLog, Zenon
<1>2. u \in SegmentState
  BY <1>1, UpsertVectorType, Zenon DEF SegmentState
<1>3. u.version \in {target.version, n}
  BY <1>1, Zenon DEF UpsertVector, SegmentState, MaxVersion, Version, None
<1>4. seg.payloads[p] \in SUBSET Nat
  BY Zenon DEF SegmentState
<1> HIDE DEF u
<1>5. WritePayload(u, n, p, seg.payloads[p]) \in SegmentState
  BY <1>1, <1>2, <1>4, WritePayloadType, Zenon
<1>6. WritePayload(u, n, p, seg.payloads[p]).version \in {u.version, n}
  BY <1>1, <1>2, <1>4, Zenon DEF WritePayload, SegmentState, MaxVersion, Version, None
<1> QED BY <1>3, <1>5, <1>6, Zenon DEF MovedInto, u

\* delete_point leaves the version alone or raises it to the operation's.
LEMMA DeletePointVersion ==
    ASSUME NEW seg \in SegmentState, NEW n \in Nat, NEW p \in Points
    PROVE  DeletePoint(seg, n, p).version \in {seg.version, n}
BY Zenon DEF DeletePoint, Forget, SegmentState, MaxVersion, Version, None

\* The image after a deletion is a segment of the same version.
LEMMA DiskDeleteType ==
    ASSUME NEW image \in SegmentState, NEW seg \in SegmentState, NEW n \in Nat, NEW p \in Points
    PROVE  /\ DiskDelete(image, seg, n, p) \in SegmentState
           /\ DiskDelete(image, seg, n, p).version = image.version
<1>1. Forget(image, p) \in SegmentState
  BY ForgetType, Zenon
<1>2. Forget(image, p).version = image.version
  BY Zenon DEF Forget, SegmentState
<1> QED BY <1>1, <1>2, Zenon DEF DiskDelete

\* A column written by the flush thread, and the thread after it.
LEMMA FlushedType ==
    ASSUME NEW image \in SegmentState, NEW seg \in SegmentState,
           NEW f \in [stage : Stages, version : Version], f.stage # "idle"
    PROVE  /\ Flushed(image, seg, f) \in SegmentState
           /\ Flushed(image, seg, f).version \in {image.version, f.version}
           /\ NextStage(f) \in [stage : Stages, version : Version]
           /\ NextStage(f).version \in {f.version, None}
<1>1. f.stage \in {"mapping", "vectors", "payloads", "versions", "state"}
  BY Zenon DEF Stages
<1>2. /\ Flushed(image, seg, f) \in SegmentState
      /\ Flushed(image, seg, f).version \in {image.version, f.version}
  BY <1>1, Zenon DEF Flushed, SegmentState
<1>3. /\ NextStage(f) \in [stage : Stages, version : Version]
      /\ NextStage(f).version \in {f.version, None}
  BY <1>1, Zenon DEF NextStage, NoFlush, Stages, Version
<1> QED BY <1>2, <1>3, Zenon

\* A shard that has just been opened is well typed and in range.
LEMMA TypeInit == Init => TypeInv
<1> SUFFICES ASSUME Init PROVE TypeInv
  BY Zenon
<1>1. \A s \in Segments : SegmentOf(Placed[s], IF s \in Appendable THEN None ELSE 0) \in SegmentState
  BY SegmentsAssumption DEF SegmentOf, SegmentState, Version, None
<1>2. mem \in [Segments -> SegmentState] /\ disk \in [Segments -> SegmentState]
  BY <1>1, Zenon DEF Init
<1>3. TypeOK
  BY <1>2, OpsAssumption
  DEF Init, TypeOK, Idle, NoFlush, NoPass, Version, None, Stages
<1>4. \A s \in Segments : mem[s].version \in {None, 0} /\ disk[s].version \in {None, 0}
  BY Zenon DEF Init, SegmentOf
<1>5. Bounds
  BY <1>3, <1>4, OpsAssumption DEF Init, Bounds, NextNum, Idle, NoFlush, NoPass, None
<1> QED BY <1>3, <1>5, Zenon DEF TypeInv

\* Every action of the workers, the flush threads and the recovery keeps it so.
LEMMA TypeStep == TypeInv /\ [Next]_vars => TypeInv'
<1> SUFFICES ASSUME TypeInv, [Next]_vars PROVE TypeInv'
  BY Zenon
<1>0. /\ FirstOp \in Nat /\ Len(log) \in Nat /\ NextNum \in Nat
      /\ next \in Nat /\ walFirst \in Nat /\ cur.num \in Version
      /\ pass.unsaved \in Version /\ pass.persisted \in Nat
      /\ \A s \in Segments : /\ mem[s] \in SegmentState /\ disk[s] \in SegmentState
                             /\ mem[s].version \in Version /\ disk[s].version \in Version
                             /\ flushing[s] \in [stage : Stages, version : Version]
  BY OpsAssumption DEF TypeInv, TypeOK, NextNum, SegmentState
<1> USE DEF TypeInv
<1>1. ASSUME NEW op \in Ops, Write(op) PROVE TypeInv'
  <2>1. log' \in Seq(Ops) /\ Len(log') = Len(log) + 1
    BY <1>1 DEF Write, TypeOK
  <2>2. TypeOK'
    BY <1>1, <2>1, Zenon DEF Write, TypeOK
  <2>3. NextNum' = NextNum + 1
    BY <1>0, <2>1 DEF NextNum
  <2>4. Bounds'
    BY <1>0, <1>1, <2>3, SMTT(60) DEF Write, Bounds, Version, None
  <2> QED BY <2>2, <2>4, Zenon
<1>2. CASE StartOp
  BY <1>0, <1>2 DEF StartOp, TypeOK, Bounds, NextNum, Version, None
<1>3. ASSUME NEW s \in Segments, VisitMiss(s) PROVE TypeInv'
  BY <1>0, <1>3, Zenon DEF VisitMiss, TypeOK, Bounds, NextNum
<1>4. ASSUME NEW s \in Segments, VisitApplied(s) PROVE TypeInv'
  BY <1>0, <1>4, Zenon DEF VisitApplied, TypeOK, Bounds, NextNum
<1>5. CASE Finish
  BY <1>0, <1>5, Zenon DEF Finish, TypeOK, Bounds, NextNum, Idle, Version, None
<1>6. CASE BeginFlush
  BY <1>0, <1>6 DEF BeginFlush, TypeOK, Bounds, NextNum, NewPass, Version, None
<1>7. CASE EndFlush
  BY <1>0, <1>7 DEF EndFlush, TypeOK, Bounds, NextNum, NoPass, Confirmed, MaxVersion, Version, None
<1>8. CASE ReplayDone
  BY <1>0, <1>8 DEF ReplayDone, TypeOK, Bounds, NextNum, NewPass, Version, None
<1>9. CASE Ready
  BY <1>0, <1>9 DEF Ready, TypeOK, Bounds, NextNum, NoPass, Version, None
<1>10. CASE UNCHANGED vars
  BY <1>10, Zenon DEF vars, TypeOK, Bounds, NextNum
<1>11. ASSUME NEW s \in Segments, VisitDelete(s) PROVE TypeInv'
  <2> DEFINE n == cur.num
             p == Op(cur.num).point
  <2>1. cur.num # None
    BY <1>11, Zenon DEF VisitDelete, Bounds
  <2>2. n \in Nat /\ p \in Points /\ n <= NextNum
    BY <2>1, OpInLog, <1>0 DEF Bounds
  <2>3. /\ DeletePoint(mem[s], n, p) \in SegmentState
        /\ DeletePoint(mem[s], n, p).version \in {mem[s].version, n}
    BY <1>0, <2>2, DeletePointType, DeletePointVersion, Zenon
  <2>4. /\ DiskDelete(disk[s], mem[s], n, p) \in SegmentState
        /\ DiskDelete(disk[s], mem[s], n, p).version = disk[s].version
    <3>1. mem[s] \in SegmentState /\ disk[s] \in SegmentState
      BY <1>0, Zenon
    <3> HIDE DEF n, p
    <3> QED BY <2>2, <3>1, DiskDeleteType, Zenon
  <2> QED
    BY <1>0, <1>11, <2>2, <2>3, <2>4, Zenon DEF VisitDelete, TypeOK, Bounds, NextNum
<1>12. ASSUME NEW s \in Segments, VisitUpdate(s) PROVE TypeInv'
  <2>1. cur.num # None
    BY <1>12, Zenon DEF VisitUpdate, Bounds
  <2>2. cur.num \in Nat /\ cur.num <= NextNum
    BY <2>1, OpInLog, <1>0 DEF Bounds
  <2>3. /\ Modify(mem[s], cur.num) \in SegmentState
        /\ Modify(mem[s], cur.num).version \in {mem[s].version, cur.num}
    BY <1>0, <1>12, <2>1, ModifyType, Zenon DEF VisitUpdate
  <2> QED
    BY <1>0, <1>12, <2>2, <2>3, Zenon DEF VisitUpdate, TypeOK, Bounds, NextNum
<1>13. ASSUME NEW s \in Segments, NEW a \in Appendable, VisitMove(s, a) PROVE TypeInv'
  <2> DEFINE n == cur.num
             p == Op(cur.num).point
             moved == MovedInto(mem[a], mem[s], n, p)
  <2>1. cur.num # None /\ a \in Segments
    BY <1>13, SegmentsAssumption, Zenon DEF VisitMove, Bounds
  <2>2. n \in Nat /\ p \in Points /\ n <= NextNum
    BY <2>1, OpInLog, <1>0 DEF Bounds
  <2>3. moved \in SegmentState /\ moved.version \in {mem[a].version, n}
    BY <1>0, <2>1, <2>2, MovedIntoType, Zenon
  <2> HIDE DEF moved
  <2>4. Modify(moved, n) \in SegmentState /\ Modify(moved, n).version \in {moved.version, n}
    BY <1>13, <2>1, <2>3, ModifyType, Zenon DEF VisitMove
  <2>5. /\ DeletePoint(mem[s], n, p) \in SegmentState
        /\ DeletePoint(mem[s], n, p).version \in {mem[s].version, n}
    BY <1>0, <2>2, DeletePointType, DeletePointVersion, Zenon
  <2>6. /\ DiskDelete(disk[s], mem[s], n, p) \in SegmentState
        /\ DiskDelete(disk[s], mem[s], n, p).version = disk[s].version
    <3>1. mem[s] \in SegmentState /\ disk[s] \in SegmentState
      BY <1>0, Zenon
    <3> HIDE DEF n, p
    <3> QED BY <2>2, <3>1, DiskDeleteType, Zenon
  <2>7. a # s
    BY <1>13, Zenon DEF VisitMove
  <2>8. mem' = [mem EXCEPT ![a] = Modify(moved, n), ![s] = DeletePoint(mem[s], n, p)]
    BY <1>13, <2>1, <2>7, Zenon DEF VisitMove, moved, TypeOK
  <2>9. /\ disk' = [disk EXCEPT ![s] = DiskDelete(disk[s], mem[s], n, p)]
        /\ cur' = [cur EXCEPT !.todo = cur.todo \ {s}, !.found = TRUE]
        /\ UNCHANGED <<log, walFirst, next, flushing, pass, mode, crashes>>
    BY <1>13, Zenon DEF VisitMove
  <2>10. TypeOK'
    BY <2>1, <2>4, <2>5, <2>6, <2>8, <2>9, Zenon DEF TypeOK
  <2>11. \A t \in Segments : mem'[t].version <= NextNum /\ disk'[t].version <= NextNum
    <3> TAKE t \in Segments
    <3>1. CASE t = s
      BY <1>0, <2>2, <2>5, <2>6, <2>8, <2>9, <3>1, Zenon DEF TypeOK, Bounds
    <3>2. CASE t = a
      BY <1>0, <2>1, <2>2, <2>3, <2>4, <2>7, <2>8, <2>9, <3>2, Zenon DEF TypeOK, Bounds
    <3>3. CASE t # s /\ t # a
      BY <2>8, <2>9, <3>3, Zenon DEF TypeOK, Bounds
    <3> QED BY <3>1, <3>2, <3>3, Zenon
  <2>12. Bounds'
    BY <2>9, <2>11, Zenon DEF TypeOK, Bounds, NextNum
  <2> QED BY <2>10, <2>12, Zenon
<1>14. ASSUME NEW a \in Appendable, FinishInsert(a) PROVE TypeInv'
  <2>1. cur.num # None /\ a \in Segments
    BY <1>14, SegmentsAssumption, Zenon DEF FinishInsert
  <2>2. cur.num \in Nat /\ cur.num <= NextNum
    BY <2>1, OpInLog, <1>0 DEF Bounds
  <2>3. /\ Modify(mem[a], cur.num) \in SegmentState
        /\ Modify(mem[a], cur.num).version \in {mem[a].version, cur.num}
    BY <1>0, <1>14, <2>1, ModifyType, Zenon DEF FinishInsert
  <2>4. mem' = [mem EXCEPT ![a] = Modify(mem[a], cur.num)]
    BY <1>14, Zenon DEF FinishInsert, Modify
  <2> QED
    BY <1>0, <1>14, <2>1, <2>2, <2>3, <2>4
    DEF FinishInsert, TypeOK, Bounds, NextNum, Idle, Version, None
<1>15. ASSUME NEW s \in Segments, FlushVisit(s) PROVE TypeInv'
  <2> DEFINE persisted == UnwrapOr0(disk[s].version)
  <2>1. persisted \in Nat /\ persisted <= NextNum
    BY <1>0 DEF UnwrapOr0, Version, None, Bounds
  <2> HIDE DEF persisted
  <2>2. /\ pass'.on = pass.on /\ pass'.todo = pass.todo \ {s}
        /\ pass'.unsaved \in {persisted, pass.unsaved}
        /\ pass'.persisted \in {persisted, pass.persisted}
        /\ pass' = [on |-> pass'.on, todo |-> pass'.todo,
                    unsaved |-> pass'.unsaved, persisted |-> pass'.persisted]
    BY <1>15, Zenon DEF FlushVisit, PersistedVersion, TypeOK, MaxVersion, persisted
  <2>3. \A t \in Segments : /\ flushing'[t] \in [stage : Stages, version : Version]
                            /\ flushing'[t].version \in {flushing[t].version, mem[t].version}
    BY <1>0, <1>15, Zenon DEF FlushVisit, TypeOK, Stages
  <2>4. flushing' \in [Segments -> [stage : Stages, version : Version]]
    BY <1>15, <2>3, Zenon DEF FlushVisit, TypeOK
  <2>5. TypeOK'
    BY <1>15, <2>1, <2>2, <2>4, Zenon DEF FlushVisit, TypeOK, Version
  <2>6. NextNum' = NextNum
    BY <1>15, Zenon DEF FlushVisit, NextNum
  <2>7. Bounds'
    BY <1>0, <1>15, <2>1, <2>2, <2>3, <2>6, Zenon DEF FlushVisit, TypeOK, Bounds
  <2> QED BY <2>5, <2>7, Zenon
<1>16. ASSUME NEW s \in Segments, FlushColumn(s) PROVE TypeInv'
  <2> DEFINE f == flushing[s]
  <2>1. f.stage \in Stages /\ f.version \in Version /\ f.version <= NextNum
    BY <1>0, Zenon DEF Bounds
  <2>2. /\ Flushed(disk[s], mem[s], f) \in SegmentState
        /\ Flushed(disk[s], mem[s], f).version \in {disk[s].version, f.version}
        /\ NextStage(f) \in [stage : Stages, version : Version]
        /\ NextStage(f).version \in {f.version, None}
    BY <1>0, <1>16, <2>1, FlushedType, Zenon DEF FlushColumn
  <2>3. /\ disk' = [disk EXCEPT ![s] = Flushed(disk[s], mem[s], f)]
        /\ flushing' = [flushing EXCEPT ![s] = NextStage(f)]
    BY <1>16, Zenon DEF FlushColumn
  <2> HIDE DEF f
  <2>4. TypeOK'
    BY <1>16, <2>2, <2>3 DEF FlushColumn, TypeOK
  <2>5. NextNum' = NextNum
    BY <1>16, Zenon DEF FlushColumn, NextNum
  <2>6. \A t \in Segments : disk'[t].version <= NextNum /\ flushing'[t].version <= NextNum
    BY <1>0, <2>1, <2>2, <2>3 DEF TypeOK, Bounds, None
  <2>7. Bounds'
    BY <1>16, <2>5, <2>6, Zenon DEF FlushColumn, Bounds
  <2> QED BY <2>4, <2>7, Zenon
<1>17. ASSUME NEW s \in Segments, SnapshotFlush(s) PROVE TypeInv'
  BY <1>0, <1>17, Zenon DEF SnapshotFlush, TypeOK, Bounds, NextNum
<1>18. CASE Crash
  <2>1. \A s \in Segments : /\ LoadSegment(disk[s]) \in SegmentState
                            /\ LoadSegment(disk[s]).version = disk[s].version
    BY <1>0, LoadSegmentType, Zenon DEF LoadSegment
  <2> QED
    BY <1>0, <1>18, <2>1
    DEF Crash, ReplayFrom, TypeOK, Bounds, NextNum, Idle, NoFlush, NoPass, Version, None, Stages
<1> QED
  BY <1>1, <1>2, <1>3, <1>4, <1>5, <1>6, <1>7, <1>8, <1>9, <1>10, <1>11, <1>12, <1>13,
     <1>14, <1>15, <1>16, <1>17, <1>18, Zenon
  DEF Next, ApplyStep, FlushStep

\* Every reachable state of the storage is well typed, whatever the crashes.
THEOREM TypeCorrect == Spec => []TypeOK
<1>1. TypeInv => TypeOK
  BY Zenon DEF TypeInv
<1> QED BY <1>1, TypeInit, TypeStep, PTL DEF Spec

\* ... and in range.
LEMMA TypeInvariant == Spec => []TypeInv
BY TypeInit, TypeStep, PTL DEF Spec

-----------------------------------------------------------------------------
(* A point has one home                                                    *)

\* UniqueHome is not inductive.  Two things make it so: the disk never knows
\* a point that the segment in memory does not have, because deletions reach
\* it at once, and an upsert that has found nothing yet has its point in none
\* of the segments it has visited.
HomeInv ==
    /\ \A s, t \in Segments : s # t => mem[s].mapping \cap mem[t].mapping = {}
    /\ \A s \in Segments : disk[s].mapping \subseteq mem[s].mapping
    /\ cur.num # None /\ Op(cur.num).kind = "upsert" /\ ~ cur.found =>
          \A s \in Segments \ cur.todo : Op(cur.num).point \notin mem[s].mapping

\* What the operations on a segment do to the set of its points.
LEMMA ModifyMapping ==
    ASSUME TypeInv, cur.num # None, Op(cur.num).kind # "delete", NEW seg \in SegmentState
    PROVE  /\ seg.mapping \subseteq Modify(seg, cur.num).mapping
           /\ Modify(seg, cur.num).mapping \subseteq seg.mapping \cup {Op(cur.num).point}
<1> DEFINE n == cur.num
           p == Op(cur.num).point
           u == UpsertVector(seg, n, p, n)
<1>1. n \in Nat /\ p \in Points
  BY OpInLog, Zenon
<1>2. u \in SegmentState
  BY <1>1, UpsertVectorType, Zenon DEF Version
<1>3. /\ seg.mapping \subseteq u.mapping
      /\ u.mapping \subseteq seg.mapping \cup {p}
  BY <1>1, Zenon DEF UpsertVector, SegmentState
<1>4. \A sg \in SegmentState : \A pl : WritePayload(sg, n, p, pl).mapping = sg.mapping
  BY Zenon DEF WritePayload, SegmentState
<1> HIDE DEF u
<1>5. WritePayload(u, n, p, {n}).mapping = u.mapping
  BY <1>2, <1>4, Zenon
<1> QED
  BY <1>3, <1>4, <1>5, Zenon DEF Modify, UpsertWithPayload, u

\* A move adds the moved point to the target and removes nothing there.
LEMMA MovedIntoMapping ==
    ASSUME NEW target \in SegmentState, NEW seg \in SegmentState, NEW n \in Nat, NEW p \in Points
    PROVE  /\ target.mapping \subseteq MovedInto(target, seg, n, p).mapping
           /\ MovedInto(target, seg, n, p).mapping \subseteq target.mapping \cup {p}
<1> DEFINE u == UpsertVector(target, n, p, seg.vectors[p])
<1>1. u \in SegmentState
  BY UpsertVectorType, Zenon DEF SegmentState
<1>2. /\ target.mapping \subseteq u.mapping
      /\ u.mapping \subseteq target.mapping \cup {p}
  BY Zenon DEF UpsertVector, SegmentState
<1>3. \A sg \in SegmentState : \A pl : WritePayload(sg, n, p, pl).mapping = sg.mapping
  BY Zenon DEF WritePayload, SegmentState
<1> HIDE DEF u
<1> QED BY <1>1, <1>2, <1>3, Zenon DEF MovedInto, u

\* delete_point removes its point, unless the point is newer.
LEMMA DeletePointMapping ==
    ASSUME NEW seg \in SegmentState, NEW n \in Nat, NEW p \in Points
    PROVE  IF p \in seg.mapping /\ seg.versions[p] <= n
           THEN DeletePoint(seg, n, p).mapping = seg.mapping \ {p}
           ELSE DeletePoint(seg, n, p) = seg
BY Zenon DEF DeletePoint, Applies, Forget, SegmentState

\* ... and the image on disk loses the point in the same case.
LEMMA DiskDeleteMapping ==
    ASSUME NEW image \in SegmentState, NEW seg \in SegmentState, NEW n \in Nat, NEW p \in Points
    PROVE  IF p \in seg.mapping /\ seg.versions[p] <= n
           THEN DiskDelete(image, seg, n, p).mapping = image.mapping \ {p}
           ELSE DiskDelete(image, seg, n, p) = image
BY Zenon DEF DiskDelete, Applies, Forget, SegmentState

\* A flush thread leaves the mapping on disk alone or copies it from memory.
LEMMA FlushedMapping ==
    ASSUME NEW image \in SegmentState, NEW seg \in SegmentState,
           NEW f \in [stage : Stages, version : Version], f.stage # "idle"
    PROVE  Flushed(image, seg, f).mapping \in {image.mapping, seg.mapping}
<1>1. f.stage \in {"mapping", "vectors", "payloads", "versions", "state"}
  BY Zenon DEF Stages
<1> QED BY <1>1, Zenon DEF Flushed, SegmentState

\* Appending to the log does not change the operation being applied.
LEMMA OpStable ==
    ASSUME TypeInv, cur.num # None, NEW op \in Ops, log' = Append(log, op), cur' = cur
    PROVE  Op(cur.num)' = Op(cur.num)
<1>1. cur.num - FirstOp + 1 \in 1 .. Len(log)
  BY OpInLog, OpsAssumption DEF TypeInv, TypeOK, Bounds, NextNum
<1>2. log \in Seq(Ops)
  BY Zenon DEF TypeInv, TypeOK
<1>3. log'[cur.num - FirstOp + 1] = log[cur.num - FirstOp + 1]
  BY <1>1, <1>2
<1> QED BY <1>3, Zenon DEF Op

\* The optimizers put no point into two segments.
LEMMA HomeInit == Init => HomeInv
<1> SUFFICES ASSUME Init PROVE HomeInv
  BY Zenon
<1>1. \A s \in Segments : mem[s].mapping = Placed[s] /\ disk[s].mapping = Placed[s]
  BY Zenon DEF Init, SegmentOf
<1>2. cur.num = None
  BY Zenon DEF Init, Idle
<1> QED BY <1>1, <1>2, SegmentsAssumption, Zenon DEF HomeInv

\* Every action keeps a point in one home.
LEMMA HomeStep == TypeInv /\ HomeInv /\ [Next]_vars => HomeInv'
<1> SUFFICES ASSUME TypeInv, HomeInv, [Next]_vars PROVE HomeInv'
  BY Zenon
<1>0. \A s \in Segments : /\ mem[s] \in SegmentState /\ disk[s] \in SegmentState
                          /\ flushing[s] \in [stage : Stages, version : Version]
  BY Zenon DEF TypeInv, TypeOK
<1>1. ASSUME NEW op \in Ops, Write(op) PROVE HomeInv'
  <2>1. cur.num # None => Op(cur.num)' = Op(cur.num)
    BY <1>1, OpStable, Zenon DEF Write
  <2> QED BY <1>1, <2>1, Zenon DEF Write, HomeInv
<1>2. CASE StartOp
  BY <1>2, Zenon DEF StartOp, HomeInv
<1>3. ASSUME NEW s \in Segments, VisitMiss(s) PROVE HomeInv'
  <2>1. Op(cur.num)' = Op(cur.num) /\ cur'.num = cur.num /\ cur'.todo = cur.todo \ {s}
        /\ cur'.found = cur.found
    BY <1>3, Zenon DEF VisitMiss, Op, TypeInv, TypeOK
  <2> QED BY <1>3, <2>1, Zenon DEF VisitMiss, HomeInv
<1>4. ASSUME NEW s \in Segments, VisitApplied(s) PROVE HomeInv'
  <2>1. cur'.found
    BY <1>4, Zenon DEF VisitApplied, TypeInv, TypeOK
  <2> QED BY <1>4, <2>1, Zenon DEF VisitApplied, HomeInv
<1>5. CASE Finish
  BY <1>5, Zenon DEF Finish, HomeInv, Idle
<1>6. ASSUME mem' = mem, disk' = disk, cur' = cur, log' = log PROVE HomeInv'
  BY <1>6, Zenon DEF HomeInv, Op
<1>7. ASSUME NEW s \in Segments, VisitDelete(s) PROVE HomeInv'
  <2> DEFINE n == cur.num
             p == Op(cur.num).point
  <2>1. cur.num # None
    BY <1>7, Zenon DEF VisitDelete, TypeInv, Bounds
  <2>2. n \in Nat /\ p \in Points
    BY <2>1, OpInLog, Zenon
  <2>3. /\ mem' = [mem EXCEPT ![s] = DeletePoint(mem[s], n, p)]
        /\ disk' = [disk EXCEPT ![s] = DiskDelete(disk[s], mem[s], n, p)]
    BY <1>7, Zenon DEF VisitDelete
  <2>4. mem'[s].mapping \subseteq mem[s].mapping /\ disk'[s].mapping \subseteq mem'[s].mapping
    BY <1>0, <2>2, <2>3, DeletePointMapping, DiskDeleteMapping, SMTT(30) DEF HomeInv, TypeInv, TypeOK
  <2>5. \A t \in Segments : t # s => mem'[t] = mem[t] /\ disk'[t] = disk[t]
    BY <2>3, Zenon DEF TypeInv, TypeOK
  <2>6. Op(cur.num)'.kind = "delete"
    BY <1>7, Zenon DEF VisitDelete, Op, TypeInv, TypeOK
  <2> QED BY <2>4, <2>5, <2>6, Zenon DEF HomeInv
<1>8. ASSUME NEW s \in Segments, VisitUpdate(s) PROVE HomeInv'
  <2>1. cur.num # None
    BY <1>8, Zenon DEF VisitUpdate, TypeInv, Bounds
  <2>2. /\ mem' = [mem EXCEPT ![s] = Modify(mem[s], cur.num)] /\ disk' = disk
        /\ Op(cur.num).point \in mem[s].mapping
        /\ cur'.found
    BY <1>8, Zenon DEF VisitUpdate, TypeInv, TypeOK
  <2>3. mem'[s].mapping = mem[s].mapping
    <3>1. Op(cur.num).kind # "delete"
      BY <1>8, Zenon DEF VisitUpdate
    <3>2. /\ mem[s].mapping \subseteq Modify(mem[s], cur.num).mapping
          /\ Modify(mem[s], cur.num).mapping \subseteq mem[s].mapping \cup {Op(cur.num).point}
      BY <1>0, <2>1, <3>1, ModifyMapping, Zenon
    <3>3. Modify(mem[s], cur.num).mapping = mem[s].mapping
      BY <2>2, <3>2, Zenon
    <3> QED BY <2>2, <3>3, Zenon DEF TypeInv, TypeOK
  <2>4. \A t \in Segments : mem'[t].mapping = mem[t].mapping
    BY <2>2, <2>3, Zenon DEF TypeInv, TypeOK
  <2> QED BY <2>2, <2>4, Zenon DEF HomeInv
<1>9. ASSUME NEW s \in Segments, NEW a \in Appendable, VisitMove(s, a) PROVE HomeInv'
  <2> DEFINE n == cur.num
             p == Op(cur.num).point
             moved == MovedInto(mem[a], mem[s], n, p)
  <2>1. cur.num # None /\ a \in Segments /\ a # s
    BY <1>9, SegmentsAssumption, Zenon DEF VisitMove, TypeInv, Bounds
  <2>2. n \in Nat /\ p \in Points
    BY <2>1, OpInLog, Zenon
  <2>3. moved \in SegmentState
    BY <1>0, <2>1, <2>2, MovedIntoType, Zenon
  <2>4. /\ mem[a].mapping \subseteq moved.mapping
        /\ moved.mapping \subseteq mem[a].mapping \cup {p}
    BY <1>0, <2>1, <2>2, MovedIntoMapping
  <2> HIDE DEF moved
  <2>5. /\ mem[a].mapping \subseteq Modify(moved, n).mapping
        /\ Modify(moved, n).mapping \subseteq mem[a].mapping \cup {p}
    BY <1>9, <2>1, <2>3, <2>4, ModifyMapping, Zenon DEF VisitMove
  <2>6. /\ mem' = [mem EXCEPT ![a] = Modify(moved, n), ![s] = DeletePoint(mem[s], n, p)]
        /\ disk' = [disk EXCEPT ![s] = DiskDelete(disk[s], mem[s], n, p)]
        /\ p \in mem[s].mapping /\ mem[s].versions[p] <= n /\ cur'.found
    <3>1. mem[s].versions[p] \in Version
      BY <1>0, <2>2, Zenon DEF SegmentState
    <3>2. p \in mem[s].mapping /\ mem[s].versions[p] <= n
      BY <1>9, <2>2, <3>1 DEF VisitMove, Version, None
    <3>3. cur'.found
      BY <1>9, Zenon DEF VisitMove, TypeInv, TypeOK
    <3>4. mem' = [mem EXCEPT ![a] = Modify(moved, n), ![s] = DeletePoint(mem[s], n, p)]
      BY <1>9, <2>1, Zenon DEF VisitMove, moved, TypeInv, TypeOK
    <3> QED BY <1>9, <3>2, <3>3, <3>4, Zenon DEF VisitMove
  <2>7. /\ mem'[s].mapping = mem[s].mapping \ {p}
        /\ disk'[s].mapping = disk[s].mapping \ {p}
    BY <1>0, <2>1, <2>2, <2>6, DeletePointMapping, DiskDeleteMapping DEF TypeInv, TypeOK
  <2>8. /\ mem[a].mapping \subseteq mem'[a].mapping
        /\ mem'[a].mapping \subseteq mem[a].mapping \cup {p}
        /\ \A t \in Segments : t # s => disk'[t] = disk[t]
        /\ \A t \in Segments : t # s /\ t # a => mem'[t] = mem[t]
    BY <2>1, <2>5, <2>6, Zenon DEF TypeInv, TypeOK
  <2>9. \A t, u \in Segments : t # u => mem'[t].mapping \cap mem'[u].mapping = {}
    <3> SUFFICES ASSUME NEW t \in Segments, NEW u \in Segments, t # u,
                        NEW q \in mem'[t].mapping, q \in mem'[u].mapping
                 PROVE  FALSE
      BY Zenon
    <3>1. \A v \in Segments : q \in mem'[v].mapping /\ q # p => q \in mem[v].mapping
      BY <2>7, <2>8, Zenon
    <3>2. \A v \in Segments : p \in mem'[v].mapping => v = a
      <4> SUFFICES ASSUME NEW v \in Segments, p \in mem'[v].mapping, v # a PROVE FALSE
        BY Zenon
      <4>1. v # s
        BY <2>7, Zenon
      <4>2. p \in mem[v].mapping
        BY <2>8, <4>1, Zenon
      <4>3. mem[v].mapping \cap mem[s].mapping = {}
        BY <4>1, Zenon DEF HomeInv
      <4> QED BY <2>6, <4>2, <4>3, Zenon
    <3> QED BY <3>1, <3>2 DEF HomeInv
  <2>10. \A t \in Segments : disk'[t].mapping \subseteq mem'[t].mapping
    BY <2>1, <2>7, <2>8, Zenon DEF HomeInv
  <2> QED BY <2>6, <2>9, <2>10, Zenon DEF HomeInv
<1>10. ASSUME NEW a \in Appendable, FinishInsert(a) PROVE HomeInv'
  <2>1. cur.num # None /\ a \in Segments /\ Op(cur.num).kind # "delete"
    BY <1>10, SegmentsAssumption, Zenon DEF FinishInsert
  <2>2. /\ mem' = [mem EXCEPT ![a] = Modify(mem[a], cur.num)] /\ disk' = disk /\ cur' = Idle
    BY <1>10, Zenon DEF FinishInsert, Modify
  <2>3. /\ mem[a].mapping \subseteq mem'[a].mapping
        /\ mem'[a].mapping \subseteq mem[a].mapping \cup {Op(cur.num).point}
        /\ \A t \in Segments : t # a => mem'[t] = mem[t]
    BY <1>0, <2>1, <2>2, ModifyMapping, Zenon DEF TypeInv, TypeOK
  <2>4. \A t \in Segments : Op(cur.num).point \notin mem[t].mapping
    BY <1>10, <2>1, Zenon DEF FinishInsert, HomeInv
  <2> QED BY <2>1, <2>2, <2>3, <2>4 DEF HomeInv, Idle
<1>11. ASSUME NEW s \in Segments, FlushColumn(s) PROVE HomeInv'
  <2>1. disk'[s].mapping \in {disk[s].mapping, mem[s].mapping}
    BY <1>0, <1>11, FlushedMapping, Zenon DEF FlushColumn, TypeInv, TypeOK
  <2>2. \A t \in Segments : t # s => disk'[t] = disk[t]
    BY <1>11, Zenon DEF FlushColumn, TypeInv, TypeOK
  <2> QED BY <1>11, <2>1, <2>2, Zenon DEF FlushColumn, HomeInv, Op
<1>12. ASSUME NEW s \in Segments, SnapshotFlush(s) PROVE HomeInv'
  BY <1>12 DEF SnapshotFlush, HomeInv, Op, TypeInv, TypeOK
<1>13. CASE Crash
  BY <1>13, Zenon DEF Crash, HomeInv, LoadSegment, Idle
<1>14. ASSUME NEW s \in Segments, FlushVisit(s) PROVE HomeInv'
  BY <1>6, <1>14, Zenon DEF FlushVisit
<1> QED
  BY <1>1, <1>2, <1>3, <1>4, <1>5, <1>6, <1>7, <1>8, <1>9, <1>10, <1>11, <1>12, <1>13, <1>14, Zenon
  DEF Next, ApplyStep, FlushStep, BeginFlush, EndFlush, ReplayDone, Ready, vars

\* No point is ever in two segments, in memory or on disk, for any number of
\* segments, operations, crashes and snapshots: deduplicate_points has nothing
\* to remove unless an optimizer left it.
THEOREM UniqueHomeHolds == Spec => []UniqueHome
<1>1. TypeInv /\ HomeInv => UniqueHome
  BY Zenon DEF HomeInv, UniqueHome
<1>2. TypeInv /\ HomeInv /\ [Next]_vars => TypeInv' /\ HomeInv'
  BY TypeStep, HomeStep, Zenon
<1> QED BY <1>1, <1>2, TypeInit, HomeInit, PTL DEF Spec

-----------------------------------------------------------------------------
(* Acknowledged operations are on disk                                     *)

\* Point p of a segment is on disk in every column.
Saved(seg, image, p) ==
    /\ p \in image.mapping
    /\ image.versions[p] = seg.versions[p]
    /\ image.vectors[p] = seg.vectors[p]
    /\ image.payloads[p] = seg.payloads[p]

\* What a segment, its image and its flush thread owe each other: the saved
\* version speaks for all points up to it, and a flush thread that captured a
\* version has written those points in all the columns it is past.
SegInv(seg, image, f) ==
    /\ image.version <= seg.version /\ f.version <= seg.version
    /\ \A p \in seg.mapping :
          /\ 0 <= seg.versions[p] /\ seg.versions[p] <= seg.version
          /\ seg.versions[p] <= image.version => Saved(seg, image, p)
          /\ seg.versions[p] <= f.version =>
                /\ f.stage \in {"vectors", "payloads", "versions", "state"} => p \in image.mapping
                /\ f.stage \in {"payloads", "versions", "state"} => image.vectors[p] = seg.vectors[p]
                /\ f.stage \in {"versions", "state"} => image.payloads[p] = seg.payloads[p]
                /\ f.stage = "state" => image.versions[p] = seg.versions[p]

\* Operation n changed point p of the segment, and nothing else.
Touched(seg, new, n, p) ==
    /\ new.mapping = seg.mapping \cup {p}
    /\ new.versions[p] = n
    /\ new.version = n
    /\ \A q \in Points : q # p => /\ new.versions[q] = seg.versions[q]
                                  /\ new.vectors[q] = seg.vectors[q]
                                  /\ new.payloads[q] = seg.payloads[q]

\* The version v of a point of segment s is out of reach of acknowledgement:
\* the WAL still has the operation, and the running flush_all, if it has
\* passed s, confirms no more than v however it goes on.
Pending(s, v) ==
    /\ walFirst <= v
    /\ pass.on /\ s \notin pass.todo =>
          \/ pass.unsaved # None /\ pass.unsaved <= v
          \/ /\ pass.persisted <= v
             /\ \A t \in pass.todo : disk[t].version <= v /\ flushing[t].version <= v

AllPending ==
    \A s \in Segments : \A p \in mem[s].mapping :
        0 < mem[s].versions[p] /\ ~ Saved(mem[s], disk[s], p) => Pending(s, mem[s].versions[p])

\* Before the first crash, and as long as only the flush worker flushes:
\* operations reach the segments in the order of their numbers, so that an
\* operation that is about to change a segment is newer than everything that
\* was flushed, is being flushed or has been read by the running flush_all.
AckInv ==
    /\ mode = "running"
    /\ cur.num # None => cur.num = next - 1
    /\ \A s \in Segments : mem[s].version < next /\ SegInv(mem[s], disk[s], flushing[s])
    /\ cur.num # None /\ Op(cur.num).kind # "delete" /\ ~ cur.found =>
          \A s \in Segments : mem[s].version < cur.num
    /\ cur.num # None /\ cur.found =>
          \A s \in Segments : Op(cur.num).point \in mem[s].mapping =>
                                 mem[s].versions[Op(cur.num).point] >= cur.num
    /\ pass.persisted = 0 \/ pass.persisted < next
    /\ pass.unsaved <= pass.persisted
    /\ walFirst = FirstOp \/ walFirst < next
    /\ AllPending

AckInvBeforeCrash == crashes = 0 /\ ~ Snapshots => AckInv

\* The segment-level lemmas: changing a point with a new operation,
LEMMA TouchKeepsSegInv ==
    ASSUME NEW seg \in SegmentState, NEW new \in SegmentState, NEW image \in SegmentState,
           NEW f \in [stage : Stages, version : Version], NEW n \in Nat, NEW p \in Points,
           SegInv(seg, image, f), Touched(seg, new, n, p), seg.version < n
    PROVE  SegInv(new, image, f)
<1>0. /\ seg.version \in Version /\ image.version \in Version /\ f.version \in Version
      /\ seg.mapping \subseteq Points
      /\ \A q \in Points : seg.versions[q] \in Version
  BY Zenon DEF SegmentState
<1>1. image.version < n /\ f.version < n /\ new.version = n
  BY <1>0 DEF SegInv, Touched, Version, None
<1>2. \A q \in seg.mapping : q # p => /\ new.versions[q] = seg.versions[q]
                                      /\ Saved(seg, image, q) => Saved(new, image, q)
  BY <1>0, Zenon DEF Touched, Saved
<1>3. ASSUME NEW q \in new.mapping, q # p
      PROVE  q \in seg.mapping /\ new.versions[q] = seg.versions[q]
             /\ new.vectors[q] = seg.vectors[q] /\ new.payloads[q] = seg.payloads[q]
  BY <1>0, <1>3, Zenon DEF Touched
<1>4. ASSUME NEW q \in new.mapping
      PROVE  /\ 0 <= new.versions[q] /\ new.versions[q] <= new.version
             /\ new.versions[q] <= image.version => Saved(new, image, q)
             /\ new.versions[q] <= f.version =>
                 /\ f.stage \in {"vectors", "payloads", "versions", "state"} => q \in image.mapping
                 /\ f.stage \in {"payloads", "versions", "state"} => image.vectors[q] = new.vectors[q]
                 /\ f.stage \in {"versions", "state"} => image.payloads[q] = new.payloads[q]
                 /\ f.stage = "state" => image.versions[q] = new.versions[q]
  <2>1. CASE q = p
    BY <1>0, <1>1, <2>1 DEF Touched, Version, None
  <2>2. CASE q # p
    <3>1. /\ q \in seg.mapping /\ new.versions[q] = seg.versions[q]
          /\ new.vectors[q] = seg.vectors[q] /\ new.payloads[q] = seg.payloads[q]
      BY <1>3, <2>2, Zenon
    <3>2. 0 <= new.versions[q] /\ new.versions[q] <= new.version
      BY <1>0, <1>1, <3>1 DEF SegInv, Version, None
    <3> QED BY <1>2, <2>2, <3>1, <3>2, Zenon DEF SegInv
  <2> QED BY <2>1, <2>2, Zenon
<1>5. image.version <= new.version /\ f.version <= new.version
  BY <1>0, <1>1 DEF Version, None
<1> QED BY <1>4, <1>5, Zenon DEF SegInv

\* ... deleting a point in memory and on disk,
LEMMA DeleteKeepsSegInv ==
    ASSUME NEW seg \in SegmentState, NEW image \in SegmentState,
           NEW f \in [stage : Stages, version : Version], NEW n \in Nat, NEW p \in Points,
           SegInv(seg, image, f)
    PROVE  SegInv(DeletePoint(seg, n, p), DiskDelete(image, seg, n, p), f)
<1> DEFINE new == DeletePoint(seg, n, p)
           img == DiskDelete(image, seg, n, p)
<1>1. CASE ~ (p \in seg.mapping /\ Applies(seg, n, p))
  BY <1>1, Zenon DEF DeletePoint, DiskDelete
<1>2. CASE p \in seg.mapping /\ Applies(seg, n, p)
  <2>1. /\ new.mapping = seg.mapping \ {p} /\ img.mapping = image.mapping \ {p}
        /\ new.version = MaxVersion(n, seg.version) /\ img.version = image.version
    BY <1>2, Zenon DEF DeletePoint, DiskDelete, Forget, SegmentState
  <2>2. \A q \in Points : q # p => /\ new.versions[q] = seg.versions[q]
                                   /\ new.vectors[q] = seg.vectors[q]
                                   /\ new.payloads[q] = seg.payloads[q]
                                   /\ img.versions[q] = image.versions[q]
                                   /\ img.vectors[q] = image.vectors[q]
                                   /\ img.payloads[q] = image.payloads[q]
    BY <1>2, Zenon DEF DeletePoint, DiskDelete, Forget, SegmentState
  <2>3. /\ seg.version \in Version /\ image.version \in Version /\ f.version \in Version
        /\ seg.mapping \subseteq Points /\ \A q \in Points : seg.versions[q] \in Version
    BY Zenon DEF SegmentState
  <2>4. seg.version <= new.version /\ new.version \in Version
    BY <2>1, <2>3 DEF MaxVersion, Version, None
  <2> HIDE DEF new, img
  <2>5. \A q \in new.mapping : q \in seg.mapping /\ q # p /\ q \in Points
    BY <2>1, <2>3, Zenon
  <2>6. \A q \in new.mapping : 0 <= new.versions[q] /\ new.versions[q] <= new.version
    <3> SUFFICES ASSUME NEW q \in new.mapping
                 PROVE  0 <= new.versions[q] /\ new.versions[q] <= new.version
      BY Zenon
    <3>1. q \in seg.mapping /\ q \in Points /\ new.versions[q] = seg.versions[q]
      BY <2>2, <2>5, Zenon
    <3>2. 0 <= seg.versions[q] /\ seg.versions[q] <= seg.version
      BY <3>1, Zenon DEF SegInv
    <3> QED BY <2>3, <2>4, <3>1, <3>2 DEF Version, None
  <2>7. image.version <= new.version /\ f.version <= new.version
    BY <2>3, <2>4 DEF SegInv, Version, None
  <2>8. SegInv(new, img, f)
    BY <2>1, <2>2, <2>5, <2>6, <2>7 DEF SegInv, Saved
  <2> QED BY <2>8, Zenon DEF new, img
<1> QED BY <1>1, <1>2, Zenon

\* ... which leaves the other points as they were,
LEMMA DeleteKeepsOthers ==
    ASSUME NEW seg \in SegmentState, NEW image \in SegmentState, NEW n \in Nat, NEW p \in Points,
           NEW q \in DeletePoint(seg, n, p).mapping
    PROVE  /\ q \in seg.mapping
           /\ DeletePoint(seg, n, p).versions[q] = seg.versions[q]
           /\ Saved(seg, image, q) =>
                 Saved(DeletePoint(seg, n, p), DiskDelete(image, seg, n, p), q)
<1>1. CASE ~ (p \in seg.mapping /\ Applies(seg, n, p))
  BY <1>1, Zenon DEF DeletePoint, DiskDelete
<1>2. CASE p \in seg.mapping /\ Applies(seg, n, p)
  BY <1>2, Zenon DEF DeletePoint, DiskDelete, Forget, Saved, SegmentState
<1> QED BY <1>1, <1>2, Zenon

\* ... writing a column,
LEMMA FlushKeepsSegInv ==
    ASSUME NEW seg \in SegmentState, NEW image \in SegmentState,
           NEW f \in [stage : Stages, version : Version], f.stage # "idle",
           SegInv(seg, image, f)
    PROVE  /\ SegInv(seg, Flushed(image, seg, f), NextStage(f))
           /\ \A p \in seg.mapping : Saved(seg, image, p) => Saved(seg, Flushed(image, seg, f), p)
<1> DEFINE img == Flushed(image, seg, f)
           g == NextStage(f)
<1>0. /\ f.stage \in {"mapping", "vectors", "payloads", "versions", "state"}
      /\ seg.version \in Version /\ f.version \in Version
      /\ seg.mapping \subseteq Points /\ \A q \in Points : seg.versions[q] \in Version
  BY Zenon DEF Stages, SegmentState
<1>1. CASE f.stage = "mapping"
  <2>1. img = [image EXCEPT !.mapping = seg.mapping] /\ g = [f EXCEPT !.stage = "vectors"]
    BY <1>1, Zenon DEF Flushed, NextStage
  <2> QED BY <1>0, <1>1, <2>1, Zenon DEF SegInv, Saved, SegmentState
<1>2. CASE f.stage = "vectors"
  <2>1. img = [image EXCEPT !.vectors = seg.vectors] /\ g = [f EXCEPT !.stage = "payloads"]
    BY <1>2, Zenon DEF Flushed, NextStage
  <2> QED BY <1>0, <1>2, <2>1, Zenon DEF SegInv, Saved, SegmentState
<1>3. CASE f.stage = "payloads"
  <2>1. img = [image EXCEPT !.payloads = seg.payloads] /\ g = [f EXCEPT !.stage = "versions"]
    BY <1>3, Zenon DEF Flushed, NextStage
  <2> QED BY <1>0, <1>3, <2>1, Zenon DEF SegInv, Saved, SegmentState
<1>4. CASE f.stage = "versions"
  <2>1. img = [image EXCEPT !.versions = seg.versions] /\ g = [f EXCEPT !.stage = "state"]
    BY <1>4, Zenon DEF Flushed, NextStage
  <2> QED BY <1>0, <1>4, <2>1, Zenon DEF SegInv, Saved, SegmentState
<1>5. CASE f.stage = "state"
  <2>1. img = [image EXCEPT !.version = f.version] /\ g = NoFlush
    BY <1>5, Zenon DEF Flushed, NextStage
  <2> QED BY <1>0, <1>5, <2>1 DEF SegInv, Saved, SegmentState, NoFlush, Version, None
<1> QED BY <1>0, <1>1, <1>2, <1>3, <1>4, <1>5, Zenon

\* ... and starting a flush thread.
LEMMA StartKeepsSegInv ==
    ASSUME NEW seg \in SegmentState, NEW image \in SegmentState,
           NEW f \in [stage : Stages, version : Version],
           SegInv(seg, image, f)
    PROVE  SegInv(seg, image, [stage |-> "mapping", version |-> seg.version])
BY DEF SegInv, SegmentState, Version, None

\* What the segment invariant says of versions alone.
LEMMA SegInvVersions ==
    ASSUME NEW seg \in SegmentState, NEW image, NEW f, SegInv(seg, image, f)
    PROVE  /\ image.version <= seg.version /\ f.version <= seg.version
           /\ \A p \in seg.mapping : seg.versions[p] \in Nat /\ seg.versions[p] <= seg.version
<1>1. \A p \in seg.mapping : seg.versions[p] \in Version
  BY Zenon DEF SegmentState
<1>2. /\ image.version <= seg.version /\ f.version <= seg.version
      /\ \A p \in seg.mapping : 0 <= seg.versions[p] /\ seg.versions[p] <= seg.version
  BY Zenon DEF SegInv
<1> QED BY <1>1, <1>2 DEF Version, None

\* The closures of segments_updater.rs change the point of the operation only,
\* and give it and the segment the operation's number.
LEMMA ModifyTouches ==
    ASSUME TypeInv, cur.num # None, Op(cur.num).kind # "delete", NEW seg \in SegmentState,
           seg.version <= cur.num,
           Op(cur.num).point \in seg.mapping =>
               seg.versions[Op(cur.num).point] <= cur.num,
           Op(cur.num).kind = "upsert" \/ Op(cur.num).point \in seg.mapping
    PROVE  Touched(seg, Modify(seg, cur.num), cur.num, Op(cur.num).point)
<1> DEFINE n == cur.num
           p == Op(cur.num).point
           k == Op(cur.num).kind
<1>1. n \in Nat /\ p \in Points /\ k \in AllOpKinds
  BY OpInLog, Zenon
<1>2. seg.version \in Version /\ MaxVersion(n, seg.version) = n /\ UnwrapOr0(seg.version) <= n
  BY <1>1 DEF SegmentState, MaxVersion, UnwrapOr0, Version, None
<1>3. CASE k = "upsert"
  <2> DEFINE u == UpsertVector(seg, n, p, n)
             one == {n}
  <2>1. Applies(seg, n, p)
    BY <1>2, Zenon DEF Applies
  <2>2. u = [seg EXCEPT !.mapping = @ \cup {p}, !.vectors[p] = n, !.versions[p] = n, !.version = n]
    BY <1>2, <2>1, Zenon DEF UpsertVector
  <2>3. u \in SegmentState
    BY <1>1, UpsertVectorType, Zenon DEF Version
  <2>4. Touched(seg, u, n, p)
    BY <1>1, <2>2 DEF Touched, SegmentState
  <2> HIDE DEF u, one
  <2>5. Applies(u, n, p) /\ p \in u.mapping /\ MaxVersion(n, u.version) = n
    BY <1>1, <2>4 DEF Applies, Touched, MaxVersion
  <2>6. WritePayload(u, n, p, one) = [u EXCEPT !.payloads[p] = one, !.versions[p] = n, !.version = n]
    BY <2>5, Zenon DEF WritePayload
  <2>7. Touched(seg, WritePayload(u, n, p, one), n, p)
    BY <1>1, <2>3, <2>4, <2>6 DEF Touched, SegmentState
  <2> QED BY <1>3, <2>7, Zenon DEF Modify, UpsertWithPayload, u, one
<1>4. CASE k # "upsert"
  <2> DEFINE pl == NewPayload(k, seg.payloads[p], n)
  <2>1. p \in seg.mapping /\ Applies(seg, n, p)
    BY <1>4, Zenon DEF Applies
  <2>2. WritePayload(seg, n, p, pl) = [seg EXCEPT !.payloads[p] = pl, !.versions[p] = n, !.version = n]
    BY <1>2, <2>1, Zenon DEF WritePayload
  <2> HIDE DEF pl
  <2>3. Touched(seg, WritePayload(seg, n, p, pl), n, p)
    BY <1>1, <2>1, <2>2 DEF Touched, SegmentState
  <2> QED BY <1>4, <2>3, Zenon DEF Modify, pl
<1> QED BY <1>3, <1>4, Zenon

\* So does the move of a point into a segment that does not have it.
LEMMA MoveTouches ==
    ASSUME NEW target \in SegmentState, NEW seg \in SegmentState, NEW n \in Nat, NEW p \in Points,
           target.version <= n, p \notin target.mapping
    PROVE  Touched(target, MovedInto(target, seg, n, p), n, p)
<1> DEFINE vec == seg.vectors[p]
           pl == seg.payloads[p]
           u == UpsertVector(target, n, p, vec)
<1>1. target.version \in Version /\ MaxVersion(n, target.version) = n /\ Applies(target, n, p)
  BY DEF SegmentState, MaxVersion, UnwrapOr0, Applies, Version, None
<1>2. u = [target EXCEPT !.mapping = @ \cup {p}, !.vectors[p] = vec, !.versions[p] = n, !.version = n]
  BY <1>1, Zenon DEF UpsertVector
<1>3. u \in SegmentState
  BY UpsertVectorType, Zenon DEF SegmentState
<1>4. Touched(target, u, n, p)
  BY <1>2 DEF Touched, SegmentState
<1> HIDE DEF u, pl
<1>5. Applies(u, n, p) /\ p \in u.mapping /\ MaxVersion(n, u.version) = n
  BY <1>4 DEF Applies, Touched, MaxVersion
<1>6. WritePayload(u, n, p, pl) = [u EXCEPT !.payloads[p] = pl, !.versions[p] = n, !.version = n]
  BY <1>5, Zenon DEF WritePayload
<1>7. Touched(target, WritePayload(u, n, p, pl), n, p)
  BY <1>3, <1>4, <1>6 DEF Touched, SegmentState
<1> QED BY <1>7, Zenon DEF MovedInto, u, pl

\* Two changes of the same point by the same operation are one.
LEMMA TouchedTwice ==
    ASSUME NEW seg, NEW mid, NEW new, NEW n, NEW p \in Points,
           Touched(seg, mid, n, p), Touched(mid, new, n, p)
    PROVE  Touched(seg, new, n, p)
BY Zenon DEF Touched

\* The operation being applied is newer than anything a running flush_all has
\* read or may still read.
LEMMA FreshIsPending ==
    ASSUME TypeInv, AckInv, cur.num # None, \A t \in Segments : mem[t].version < cur.num,
           NEW s \in Segments
    PROVE  Pending(s, cur.num)
<1>1. /\ cur.num \in Nat /\ next \in Nat /\ walFirst \in Nat /\ pass.persisted \in Nat
      /\ pass.todo \subseteq Segments /\ FirstOp <= cur.num
      /\ \A t \in Segments : /\ mem[t].version \in Version /\ disk[t].version \in Version
                             /\ flushing[t].version \in Version
  BY OpInLog, Zenon DEF TypeInv, TypeOK, Bounds, SegmentState
<1>2. walFirst <= cur.num /\ pass.persisted <= cur.num
  <2>1. /\ cur.num = next - 1 /\ (walFirst = FirstOp \/ walFirst < next)
        /\ (pass.persisted = 0 \/ pass.persisted < next)
    BY Zenon DEF AckInv
  <2> QED BY <1>1, <2>1, OpsAssumption, SMTT(30)
<1>3. \A t \in Segments : disk[t].version <= mem[t].version /\ flushing[t].version <= mem[t].version
  BY Zenon DEF AckInv, SegInv
<1>4. \A t \in Segments : disk[t].version <= cur.num /\ flushing[t].version <= cur.num
  BY <1>1, <1>3 DEF Version, None
<1> QED BY <1>1, <1>2, <1>4, Zenon DEF Pending

\* The points a segment starts with have version 0.
LEMMA SegmentOfFields ==
    ASSUME NEW P \in SUBSET Points, NEW v
    PROVE  /\ SegmentOf(P, v).mapping = P
           /\ \A p \in P : SegmentOf(P, v).versions[p] = 0
BY Zenon DEF SegmentOf

\* A shard that has just been opened satisfies the invariant.
LEMMA AckInit == Init => AckInv
<1> SUFFICES ASSUME Init PROVE AckInv
  BY Zenon
<1>1. ASSUME NEW s \in Segments
      PROVE  /\ mem[s] = SegmentOf(Placed[s], IF s \in Appendable THEN None ELSE 0)
             /\ disk[s] = mem[s] /\ flushing[s] = NoFlush
  BY Zenon DEF Init
<1>2. ASSUME NEW s \in Segments
      PROVE  /\ mem[s].version = IF s \in Appendable THEN None ELSE 0
             /\ mem[s].mapping = Placed[s] /\ Placed[s] \subseteq Points
             /\ \A p \in Placed[s] : mem[s].versions[p] = 0
             /\ Placed[s] # {} => mem[s].version = 0
             /\ mem[s].version < next
  <2>1. Placed[s] \subseteq Points /\ (s \in Appendable => Placed[s] = {})
        /\ FirstOp \in Nat /\ next = FirstOp /\ (FirstOp = 0 => s \in Appendable)
    BY SegmentsAssumption, OpsAssumption, Zenon DEF Init
  <2> DEFINE v == IF s \in Appendable THEN None ELSE 0
  <2>a. mem[s] = SegmentOf(Placed[s], v)
    BY <1>1, Zenon
  <2> HIDE DEF v
  <2>b. mem[s].version = v
    BY <2>a DEF SegmentOf
  <2>2. mem[s].version = IF s \in Appendable THEN None ELSE 0
    BY <2>b, Zenon DEF v
  <2>3. mem[s].mapping = Placed[s] /\ \A p \in Placed[s] : mem[s].versions[p] = 0
    BY <2>a, <2>1, SegmentOfFields
  <2> QED BY <2>1, <2>2, <2>3 DEF None
<1>3. ASSUME NEW s \in Segments
      PROVE  SegInv(mem[s], disk[s], flushing[s])
  BY <1>1, <1>2 DEF SegInv, Saved, NoFlush, None
<1>4. AllPending
  BY <1>2 DEF AllPending
<1>5. /\ mode = "running" /\ cur.num = None
      /\ pass.persisted = 0 /\ pass.unsaved <= pass.persisted /\ walFirst = FirstOp
  BY DEF Init, Idle, NoPass, None
<1> QED BY <1>2, <1>3, <1>4, <1>5, Zenon DEF AckInv

\* Every step of the running shard preserves it.
LEMMA AckStep ==
    TypeInv /\ TypeInv' /\ HomeInv /\ AckInvBeforeCrash /\ [Next]_vars => AckInvBeforeCrash'
<1> SUFFICES ASSUME TypeInv, TypeInv', HomeInv, AckInvBeforeCrash, [Next]_vars,
                    crashes' = 0, ~ Snapshots
             PROVE  AckInv'
  BY Zenon DEF AckInvBeforeCrash
<1>a. ~ Crash
  BY SMTT(30) DEF Crash, TypeInv, TypeOK
<1>b. crashes = 0
  BY <1>a, Zenon DEF Next, ApplyStep, FlushStep, Write, StartOp, VisitMiss, VisitDelete, VisitApplied,
     VisitUpdate, VisitMove, FinishInsert, Finish, BeginFlush, FlushVisit, EndFlush, FlushColumn,
     SnapshotFlush, ReplayDone, Ready, vars
<1>c. AckInv
  BY <1>b, Zenon DEF AckInvBeforeCrash
<1>d. \A s \in Segments : /\ mem[s] \in SegmentState /\ disk[s] \in SegmentState
                          /\ mem[s].mapping \subseteq Points
                          /\ \A p \in Points : mem[s].versions[p] \in Version
                          /\ mem[s].version \in Version /\ disk[s].version \in Version
                          /\ flushing[s] \in [stage : Stages, version : Version]
                          /\ flushing[s].version \in Version
  BY DEF TypeInv, TypeOK, SegmentState
<1>e. /\ next \in Nat /\ walFirst \in Nat /\ FirstOp \in Nat
      /\ pass.unsaved \in Version /\ pass.persisted \in Nat /\ pass.todo \subseteq Segments
  BY OpsAssumption, Zenon DEF TypeInv, TypeOK
<1>f. /\ mode = "running" /\ (cur.num # None => cur.num = next - 1)
      /\ pass.persisted = 0 \/ pass.persisted < next
      /\ pass.unsaved <= pass.persisted
      /\ walFirst = FirstOp \/ walFirst < next
      /\ AllPending
  BY <1>c, Zenon DEF AckInv
<1>g. \A s \in Segments : mem[s].version < next /\ SegInv(mem[s], disk[s], flushing[s])
  BY <1>c, Zenon DEF AckInv
<1>h. \A s \in Segments : /\ disk[s].version <= mem[s].version
                          /\ \A p \in mem[s].mapping : mem[s].versions[p] \in Nat
  BY <1>d, <1>g, SegInvVersions, Zenon
<1>i. cur.num # None /\ cur.found =>
         \A s \in Segments : Op(cur.num).point \in mem[s].mapping =>
                                mem[s].versions[Op(cur.num).point] >= cur.num
  BY <1>c, Zenon DEF AckInv
<1>1. ASSUME NEW op \in Ops, Write(op) PROVE AckInv'
  <2>1. cur.num # None => Op(cur.num)' = Op(cur.num)
    BY <1>1, OpStable, Zenon DEF Write
  <2> QED BY <1>c, <1>1, <2>1, Zenon DEF Write, AckInv, AllPending, Pending
<1>2. CASE StartOp
  <2>1. cur'.num = next /\ ~ cur'.found /\ next' = next + 1
    BY <1>2, Zenon DEF StartOp
  <2>2. \A s \in Segments : mem[s].version < next /\ mem[s].version < next + 1
    BY <1>c, <1>d, <1>e DEF AckInv, Version, None
  <2>3. /\ mode' = "running" /\ cur'.num = next' - 1
        /\ UNCHANGED <<walFirst, pass, mem, disk, flushing>>
    BY <1>e, <1>f, <1>2, <2>1 DEF StartOp
  <2>4. /\ pass'.persisted = 0 \/ pass'.persisted < next'
        /\ pass'.unsaved <= pass'.persisted
        /\ walFirst' = FirstOp \/ walFirst' < next'
    BY <1>e, <1>f, <2>1, <2>3, SMTT(30)
  <2>5. AllPending'
    BY <1>f, <2>3, Zenon DEF AllPending, Pending
  <2>6. \A s \in Segments : mem'[s].version < next' /\ SegInv(mem'[s], disk'[s], flushing'[s])
    BY <1>g, <2>1, <2>2, <2>3, Zenon
  <2>7. \A s \in Segments : mem'[s].version < cur'.num
    BY <2>1, <2>2, <2>3, Zenon
  <2> QED BY <2>1, <2>3, <2>4, <2>5, <2>6, <2>7, Zenon DEF AckInv
<1>3. ASSUME NEW s \in Segments, VisitMiss(s) PROVE AckInv'
  <2>1. Op(cur.num)' = Op(cur.num) /\ cur'.num = cur.num /\ cur'.found = cur.found
    BY <1>3, Zenon DEF VisitMiss, Op, TypeInv, TypeOK
  <2> QED BY <1>c, <1>3, <2>1, Zenon DEF VisitMiss, AckInv, AllPending, Pending
<1>4. ASSUME NEW s \in Segments, VisitApplied(s) PROVE AckInv'
  <2>1. Op(cur.num)' = Op(cur.num) /\ cur'.num = cur.num /\ cur'.found
    BY <1>4, Zenon DEF VisitApplied, Op, TypeInv, TypeOK
  <2>2. \A t \in Segments : Op(cur.num).point \in mem[t].mapping => t = s
    BY <1>4 DEF VisitApplied, HomeInv
  <2>3. mem[s].versions[Op(cur.num).point] >= cur.num
    BY <1>4, Zenon DEF VisitApplied
  <2> QED BY <1>c, <1>4, <2>1, <2>2, <2>3, Zenon DEF VisitApplied, AckInv, AllPending, Pending
<1>5. CASE Finish
  BY <1>c, <1>5, Zenon DEF Finish, AckInv, AllPending, Pending, Idle
<1>6. CASE UNCHANGED vars
  BY <1>c, <1>6, Zenon DEF vars, AckInv, AllPending, Pending, Op
<1>7. CASE BeginFlush
  <2>1. \A s \in Segments : \A v : walFirst <= v => Pending(s, v)'
    BY <1>7, Zenon DEF BeginFlush, NewPass, Pending
  <2>2. pass'.persisted = 0 /\ pass'.unsaved <= pass'.persisted
    BY <1>7 DEF BeginFlush, NewPass, None
  <2>3. \A s \in Segments : \A v : Pending(s, v) => walFirst <= v
    BY Zenon DEF Pending
  <2> QED BY <1>c, <1>7, <2>1, <2>2, <2>3, Zenon DEF BeginFlush, AckInv, AllPending, Op
<1>8. CASE ReplayDone \/ Ready
  BY <1>c, <1>8, Zenon DEF ReplayDone, Ready, AckInv
<1>9. ASSUME NEW s \in Segments, SnapshotFlush(s) PROVE FALSE
  BY <1>9, Zenon DEF SnapshotFlush
<1>10. CASE EndFlush
  <2>1. /\ \A s \in Segments : \A v \in Nat : Pending(s, v) => walFirst <= v /\ Confirmed <= v
        /\ Confirmed = 0 \/ Confirmed < next
        /\ Confirmed \in Nat
    <3>1. pass.todo = {} /\ pass.unsaved \in Nat \cup {-1} /\ pass.persisted \in Nat
      BY <1>e, <1>10, Zenon DEF EndFlush, Version, None
    <3>2. Confirmed \in Nat /\ (Confirmed = 0 \/ Confirmed < next)
      <4>1. pass.persisted = 0 \/ pass.persisted < next
        BY <1>c, Zenon DEF AckInv
      <4>2. pass.unsaved <= pass.persisted
        BY <1>c, Zenon DEF AckInv
      <4>3. CASE pass.unsaved = None
        BY <3>1, <4>1, <4>3, Zenon DEF Confirmed
      <4>4. CASE pass.unsaved # None
        <5>1. Confirmed = pass.unsaved /\ pass.unsaved \in Nat
          BY <3>1, <4>4, Zenon DEF Confirmed, None
        <5> QED BY <1>e, <3>1, <4>1, <4>2, <5>1
      <4> QED BY <4>3, <4>4, Zenon
    <3>3. \A s \in Segments : \A v \in Nat : Pending(s, v) => walFirst <= v
      BY Zenon DEF Pending
    <3>4. \A s \in Segments : \A v \in Nat : Pending(s, v) => Confirmed <= v
      <4> SUFFICES ASSUME NEW s \in Segments, NEW v \in Nat, Pending(s, v)
                   PROVE  Confirmed <= v
        BY Zenon
      <4>1. \/ pass.unsaved # None /\ pass.unsaved <= v
            \/ pass.persisted <= v
        BY <1>10, <3>1, Zenon DEF EndFlush, Pending
      <4>2. pass.unsaved <= pass.persisted
        BY <1>c, Zenon DEF AckInv
      <4>3. CASE pass.unsaved = None
        BY <4>1, <4>3, Zenon DEF Confirmed
      <4>4. CASE pass.unsaved # None
        <5>1. Confirmed = pass.unsaved
          BY <4>4, Zenon DEF Confirmed
        <5>2. pass.unsaved <= v
          BY <3>1, <4>1, <4>2
        <5> QED BY <5>1, <5>2, Zenon
      <4> QED BY <4>3, <4>4, Zenon
    <3> QED BY <3>2, <3>3, <3>4, Zenon
  <2>2. PICK f \in walFirst .. MaxVersion(walFirst, Confirmed) : walFirst' = f
    BY <1>10, Zenon DEF EndFlush
  <2>3. \A v \in Nat : walFirst <= v /\ Confirmed <= v => walFirst' <= v
    BY <1>e, <2>1, <2>2 DEF MaxVersion
  <2>4. walFirst' = FirstOp \/ walFirst' < next
    BY <1>e, <1>f, <2>1, <2>2, SMTT(30) DEF MaxVersion
  <2>5. \A s \in Segments : \A v \in Nat : Pending(s, v) => Pending(s, v)'
    BY <1>10, <2>1, <2>3, Zenon DEF EndFlush, NoPass, Pending
  <2>6. pass'.persisted = 0 /\ pass'.unsaved <= pass'.persisted
    <3>1. pass' = NoPass
      BY <1>10, Zenon DEF EndFlush
    <3> QED BY <3>1 DEF NoPass, None
  <2>7. UNCHANGED <<log, next, cur, mem, disk, flushing, mode>>
    BY <1>10, Zenon DEF EndFlush
  <2>8. AllPending'
    BY <1>f, <1>h, <2>5, <2>7, Zenon DEF AllPending
  <2>9. Op(cur.num)' = Op(cur.num)
    BY <2>7, Zenon DEF Op
  <2> QED BY <1>c, <2>4, <2>6, <2>7, <2>8, <2>9, Zenon DEF AckInv
<1>11. ASSUME NEW s \in Segments, VisitDelete(s) PROVE AckInv'
  <2> DEFINE n == cur.num
             p == Op(cur.num).point
  <2>1. cur.num # None /\ Op(n).kind = "delete"
    BY <1>11, Zenon DEF VisitDelete, TypeInv, Bounds
  <2>2. n \in Nat /\ p \in Points /\ n = next - 1
    BY <1>c, <2>1, OpInLog, Zenon DEF AckInv
  <2>3. /\ mem' = [mem EXCEPT ![s] = DeletePoint(mem[s], n, p)]
        /\ disk' = [disk EXCEPT ![s] = DiskDelete(disk[s], mem[s], n, p)]
        /\ cur'.num = cur.num /\ cur'.found = cur.found /\ Op(cur.num)' = Op(cur.num)
        /\ UNCHANGED <<log, walFirst, next, flushing, pass, mode>>
    BY <1>11, Zenon DEF VisitDelete, Op, TypeInv, TypeOK
  <2>4. /\ \A t \in Segments : t # s => mem'[t] = mem[t] /\ disk'[t] = disk[t]
        /\ mem'[s] = DeletePoint(mem[s], n, p)
        /\ disk'[s] = DiskDelete(disk[s], mem[s], n, p)
    BY <2>3, Zenon DEF TypeInv, TypeOK
  <2>5. SegInv(mem'[s], disk'[s], flushing[s])
    <3>1. mem[s] \in SegmentState /\ disk[s] \in SegmentState
          /\ flushing[s] \in [stage : Stages, version : Version]
          /\ SegInv(mem[s], disk[s], flushing[s])
      BY <1>c, <1>d, Zenon DEF AckInv
    <3>2. SegInv(DeletePoint(mem[s], n, p), DiskDelete(disk[s], mem[s], n, p), flushing[s])
      BY <2>2, <3>1, DeleteKeepsSegInv, Zenon
    <3> QED BY <2>4, <3>2, Zenon
  <2>6. mem'[s].version < next
    <3>1. mem'[s].version \in {mem[s].version, n}
      BY <1>d, <2>2, <2>4, DeletePointVersion, Zenon
    <3>2. mem[s].version < next
      BY <1>c, Zenon DEF AckInv
    <3> QED BY <1>e, <2>2, <3>1, <3>2, SMTT(30)
  <2>7. \A t \in Segments : disk'[t].version = disk[t].version
    <3>1. disk'[s].version = disk[s].version
      <4>1. DiskDelete(disk[s], mem[s], n, p).version = disk[s].version
        BY <1>d, <2>2, DiskDeleteType, Zenon
      <4> QED BY <2>4, <4>1, Zenon
    <3> QED BY <2>4, <3>1, Zenon
  <2>8. \A q \in mem'[s].mapping : /\ q \in mem[s].mapping
                                   /\ mem'[s].versions[q] = mem[s].versions[q]
                                   /\ Saved(mem[s], disk[s], q) => Saved(mem'[s], disk'[s], q)
    <3> SUFFICES ASSUME NEW q \in DeletePoint(mem[s], n, p).mapping
                 PROVE  /\ q \in mem[s].mapping
                        /\ DeletePoint(mem[s], n, p).versions[q] = mem[s].versions[q]
                        /\ Saved(mem[s], disk[s], q) =>
                              Saved(DeletePoint(mem[s], n, p), DiskDelete(disk[s], mem[s], n, p), q)
      BY <2>4, Zenon
    <3>1. mem[s] \in SegmentState /\ disk[s] \in SegmentState
      BY <1>d, Zenon
    <3> QED BY <2>2, <3>1, DeleteKeepsOthers, Zenon
  <2>9. \A t \in Segments : \A v : Pending(t, v) => Pending(t, v)'
    BY <1>e, <2>3, <2>7, Zenon DEF Pending
  <2>10. AllPending'
    <3> SUFFICES ASSUME NEW t \in Segments, NEW q \in mem'[t].mapping,
                        0 < mem'[t].versions[q], ~ Saved(mem'[t], disk'[t], q)
                 PROVE  Pending(t, mem[t].versions[q])'
      BY Zenon DEF AllPending
    <3>1. /\ q \in mem[t].mapping /\ mem'[t].versions[q] = mem[t].versions[q]
          /\ ~ Saved(mem[t], disk[t], q)
      BY <2>4, <2>8, Zenon
    <3>2. Pending(t, mem[t].versions[q])
      BY <1>c, <3>1, Zenon DEF AckInv, AllPending
    <3> QED BY <2>9, <3>1, <3>2, Zenon
  <2>11. cur.found => \A t \in Segments : p \in mem'[t].mapping => mem'[t].versions[p] >= n
    <3> SUFFICES ASSUME cur.found, NEW t \in Segments, p \in mem'[t].mapping
                 PROVE  mem'[t].versions[p] >= n
      BY Zenon
    <3>1. mem[t].versions[p] >= n \/ p \notin mem[t].mapping
      BY <1>i, <2>1, Zenon
    <3>2. CASE t = s
      BY <2>8, <3>1, <3>2, Zenon
    <3>3. CASE t # s
      BY <2>4, <3>1, <3>3, Zenon
    <3> QED BY <3>2, <3>3, Zenon
  <2>12. \A t \in Segments : mem'[t].version < next /\ SegInv(mem'[t], disk'[t], flushing[t])
    BY <1>c, <2>4, <2>5, <2>6, Zenon DEF AckInv
  <2> QED BY <1>c, <2>1, <2>3, <2>10, <2>11, <2>12, Zenon DEF AckInv
<1>12. ASSUME NEW s \in Segments, cur.num # None,
              \A t \in Segments : mem[t].version < cur.num,
              Touched(mem[s], mem'[s], cur.num, Op(cur.num).point),
              disk'[s] = disk[s]
       PROVE  /\ SegInv(mem'[s], disk'[s], flushing[s])
              /\ mem'[s].version < next
              /\ \A q \in mem'[s].mapping :
                    0 < mem'[s].versions[q] /\ ~ Saved(mem'[s], disk'[s], q) =>
                       Pending(s, mem'[s].versions[q])
  <2> DEFINE n == cur.num
             p == Op(cur.num).point
  <2>1. n \in Nat /\ p \in Points /\ n = next - 1
    BY <1>c, <1>12, OpInLog, Zenon DEF AckInv
  <2>2. mem'[s] \in SegmentState
    BY Zenon DEF TypeInv, TypeOK
  <2>3. SegInv(mem'[s], disk'[s], flushing[s])
    BY <1>c, <1>d, <1>12, <2>1, <2>2, TouchKeepsSegInv, Zenon DEF AckInv
  <2>4. mem'[s].version < next
    <3>1. mem'[s].version = cur.num
      BY <1>12, Zenon DEF Touched
    <3> QED BY <1>e, <2>1, <3>1, SMTT(30)
  <2>5. ASSUME NEW q \in mem'[s].mapping, 0 < mem'[s].versions[q], ~ Saved(mem'[s], disk'[s], q)
        PROVE  Pending(s, mem'[s].versions[q])
    <3>1. CASE q = p
      BY <1>c, <1>12, <3>1, FreshIsPending, Zenon DEF Touched
    <3>2. CASE q # p
      <4>1. q \in mem[s].mapping /\ q \in Points
        BY <1>d, <1>12, <2>5, <3>2, Zenon DEF Touched
      <4>2. mem'[s].versions[q] = mem[s].versions[q] /\ ~ Saved(mem[s], disk[s], q)
        BY <1>12, <2>5, <3>2, <4>1, Zenon DEF Touched, Saved
      <4> QED BY <1>c, <2>5, <4>1, <4>2, Zenon DEF AckInv, AllPending
    <3> QED BY <3>1, <3>2, Zenon
  <2> QED BY <2>3, <2>4, <2>5, Zenon
<1>13. ASSUME NEW s \in Segments, VisitUpdate(s) PROVE AckInv'
  <2> DEFINE n == cur.num
             p == Op(cur.num).point
  <2>1. cur.num # None /\ Op(n).kind # "delete" /\ p \in mem[s].mapping /\ mem[s].versions[p] < n
    BY <1>13, Zenon DEF VisitUpdate, TypeInv, Bounds
  <2>2. n \in Nat /\ p \in Points /\ n = next - 1
    BY <1>c, <2>1, OpInLog, Zenon DEF AckInv
  <2>3. /\ mem' = [mem EXCEPT ![s] = Modify(mem[s], n)]
        /\ cur'.num = cur.num /\ cur'.found /\ Op(cur.num)' = Op(cur.num)
        /\ UNCHANGED <<log, walFirst, next, disk, flushing, pass, mode>>
    BY <1>13, Zenon DEF VisitUpdate, Op, TypeInv, TypeOK
  <2>4. mem'[s] = Modify(mem[s], n) /\ \A t \in Segments : t # s => mem'[t] = mem[t]
    BY <2>3, Zenon DEF TypeInv, TypeOK
  <2>5. ~ cur.found
    <3>1. mem[s].versions[p] \in Version
      BY <1>d, <2>2, Zenon
    <3>2. cur.found => mem[s].versions[p] >= n
      BY <1>i, <2>1, Zenon
    <3> QED BY <2>1, <2>2, <3>1, <3>2, SMTT(30) DEF Version, None
  <2>6. \A t \in Segments : mem[t].version < n
    BY <1>c, <2>1, <2>5, Zenon DEF AckInv
  <2>7. Touched(mem[s], mem'[s], n, p)
    <3>1. mem[s].version <= n /\ mem[s].versions[p] <= n
      BY <1>d, <2>1, <2>2, <2>6, SMTT(30) DEF Version, None
    <3>2. Touched(mem[s], Modify(mem[s], n), n, p)
      BY <1>d, <2>1, <3>1, ModifyTouches, Zenon
    <3> QED BY <2>4, <3>2, Zenon
  <2>8. /\ SegInv(mem'[s], disk'[s], flushing[s])
        /\ mem'[s].version < next
        /\ \A q \in mem'[s].mapping :
              0 < mem'[s].versions[q] /\ ~ Saved(mem'[s], disk'[s], q) =>
                 Pending(s, mem'[s].versions[q])
    BY <1>12, <2>1, <2>3, <2>6, <2>7, Zenon
  <2>9. \A t \in Segments : \A v : Pending(t, v) => Pending(t, v)'
    BY <2>3, Zenon DEF Pending
  <2>10. AllPending'
    BY <1>c, <2>3, <2>4, <2>8, <2>9, Zenon DEF AckInv, AllPending
  <2>11. \A t \in Segments : p \in mem'[t].mapping => mem'[t].versions[p] >= n
    <3>1. mem'[s].versions[p] >= n
      BY <2>2, <2>7 DEF Touched
    <3>2. \A t \in Segments : t # s => p \notin mem[t].mapping
      BY <2>1, SMTT(30) DEF HomeInv
    <3> QED BY <2>4, <3>1, <3>2, Zenon
  <2>12. \A t \in Segments : mem'[t].version < next /\ SegInv(mem'[t], disk'[t], flushing[t])
    BY <1>c, <2>3, <2>4, <2>8, Zenon DEF AckInv
  <2> QED BY <1>c, <2>3, <2>10, <2>11, <2>12, Zenon DEF AckInv
<1>14. ASSUME NEW a \in Appendable, FinishInsert(a) PROVE AckInv'
  <2> DEFINE n == cur.num
             p == Op(cur.num).point
  <2>1. cur.num # None /\ a \in Segments /\ Op(n).kind = "upsert" /\ ~ cur.found
    BY <1>14, SegmentsAssumption, Zenon DEF FinishInsert
  <2>2. n \in Nat /\ p \in Points /\ n = next - 1
    BY <1>c, <2>1, OpInLog, Zenon DEF AckInv
  <2>3. /\ mem' = [mem EXCEPT ![a] = Modify(mem[a], n)]
        /\ cur' = Idle
        /\ UNCHANGED <<log, walFirst, next, disk, flushing, pass, mode>>
    BY <1>14, Zenon DEF FinishInsert, Modify
  <2>4. mem'[a] = Modify(mem[a], n) /\ \A t \in Segments : t # a => mem'[t] = mem[t]
    BY <2>1, <2>3, Zenon DEF TypeInv, TypeOK
  <2>5. \A t \in Segments : p \notin mem[t].mapping
    BY <1>14, <2>1, Zenon DEF FinishInsert, HomeInv
  <2>6. \A t \in Segments : mem[t].version < n
    BY <1>c, <2>1, Zenon DEF AckInv
  <2>7. Touched(mem[a], mem'[a], n, p)
    <3>1. mem[a].version <= n
      BY <1>d, <2>1, <2>2, <2>6, SMTT(30) DEF Version, None
    <3>2. Touched(mem[a], Modify(mem[a], n), n, p)
      BY <1>d, <2>1, <2>5, <3>1, ModifyTouches, Zenon
    <3> QED BY <2>4, <3>2, Zenon
  <2>8. /\ SegInv(mem'[a], disk'[a], flushing[a])
        /\ mem'[a].version < next
        /\ \A q \in mem'[a].mapping :
              0 < mem'[a].versions[q] /\ ~ Saved(mem'[a], disk'[a], q) =>
                 Pending(a, mem'[a].versions[q])
    BY <1>12, <2>1, <2>3, <2>6, <2>7, Zenon
  <2>9. \A t \in Segments : \A v : Pending(t, v) => Pending(t, v)'
    BY <2>3, Zenon DEF Pending
  <2>10. AllPending'
    BY <1>c, <2>3, <2>4, <2>8, <2>9, Zenon DEF AckInv, AllPending
  <2>11. \A t \in Segments : mem'[t].version < next /\ SegInv(mem'[t], disk'[t], flushing[t])
    BY <1>c, <2>3, <2>4, <2>8, Zenon DEF AckInv
  <2> QED BY <1>c, <2>3, <2>10, <2>11, Zenon DEF AckInv, Idle
<1>15. ASSUME NEW s \in Segments, NEW a \in Appendable, VisitMove(s, a) PROVE AckInv'
  <2> DEFINE n == cur.num
             p == Op(cur.num).point
             moved == MovedInto(mem[a], mem[s], n, p)
  <2>1. /\ cur.num # None /\ a \in Segments /\ a # s /\ Op(n).kind # "delete"
        /\ p \in mem[s].mapping /\ mem[s].versions[p] < n
    BY <1>15, SegmentsAssumption, Zenon DEF VisitMove, TypeInv, Bounds
  <2>2. n \in Nat /\ p \in Points /\ n = next - 1
    BY <1>c, <2>1, OpInLog, Zenon DEF AckInv
  <2>3. /\ mem' = [mem EXCEPT ![a] = Modify(moved, n), ![s] = DeletePoint(mem[s], n, p)]
        /\ disk' = [disk EXCEPT ![s] = DiskDelete(disk[s], mem[s], n, p)]
        /\ cur'.num = cur.num /\ cur'.found /\ Op(cur.num)' = Op(cur.num)
        /\ UNCHANGED <<log, walFirst, next, flushing, pass, mode>>
    BY <1>15, <2>1, Zenon DEF VisitMove, Op, TypeInv, TypeOK
  <2>4. moved \in SegmentState
    BY <1>d, <2>1, <2>2, MovedIntoType, Zenon
  <2>5. ~ cur.found
    <3>1. mem[s].versions[p] \in Version
      BY <1>d, <2>2, Zenon
    <3> QED BY <1>c, <2>1, <2>2, <3>1 DEF AckInv, Version, None
  <2>6. \A t \in Segments : mem[t].version < n
    BY <1>c, <2>1, <2>5, Zenon DEF AckInv
  <2>7. p \notin mem[a].mapping /\ mem[a].version <= n
    BY <1>d, <2>1, <2>2, <2>6, SMTT(30) DEF HomeInv, Version, None
  <2>8. Touched(mem[a], moved, n, p)
    BY <1>d, <2>1, <2>2, <2>7, MoveTouches, Zenon
  <2> HIDE DEF moved
  <2>9. Touched(moved, Modify(moved, n), n, p)
    <3>1. moved.version <= n /\ moved.versions[p] <= n /\ p \in moved.mapping
      BY <2>2, <2>8, SMTT(30) DEF Touched
    <3> QED BY <2>1, <2>4, <3>1, ModifyTouches, Zenon
  <2>10. /\ mem'[a] = Modify(moved, n) /\ disk'[a] = disk[a]
         /\ mem'[s] = DeletePoint(mem[s], n, p)
         /\ disk'[s] = DiskDelete(disk[s], mem[s], n, p)
         /\ \A t \in Segments : t # s => disk'[t] = disk[t]
         /\ \A t \in Segments : t # s /\ t # a => mem'[t] = mem[t]
    BY <2>1, <2>3, Zenon DEF TypeInv, TypeOK
  <2>11. Touched(mem[a], mem'[a], n, p)
    BY <2>2, <2>8, <2>9, <2>10, TouchedTwice, Zenon
  <2>12. /\ SegInv(mem'[a], disk'[a], flushing[a])
         /\ mem'[a].version < next
         /\ \A q \in mem'[a].mapping :
               0 < mem'[a].versions[q] /\ ~ Saved(mem'[a], disk'[a], q) =>
                  Pending(a, mem'[a].versions[q])
    BY <1>12, <2>1, <2>6, <2>10, <2>11, Zenon
  <2>13. SegInv(mem'[s], disk'[s], flushing[s])
    <3>1. mem[s] \in SegmentState /\ disk[s] \in SegmentState
          /\ flushing[s] \in [stage : Stages, version : Version]
          /\ SegInv(mem[s], disk[s], flushing[s])
      BY <1>c, <1>d, Zenon DEF AckInv
    <3>2. SegInv(DeletePoint(mem[s], n, p), DiskDelete(disk[s], mem[s], n, p), flushing[s])
      BY <2>2, <3>1, DeleteKeepsSegInv, Zenon
    <3> QED BY <2>10, <3>2, Zenon
  <2>14. mem'[s].version < next
    <3>1. mem'[s].version \in {mem[s].version, n}
      BY <1>d, <2>2, <2>10, DeletePointVersion, Zenon
    <3> QED BY <1>e, <2>2, <2>6, <3>1, <1>d, SMTT(30) DEF Version, None
  <2>15. \A t \in Segments : disk'[t].version = disk[t].version
    <3>1. DiskDelete(disk[s], mem[s], n, p).version = disk[s].version
      BY <1>d, <2>2, DiskDeleteType, Zenon
    <3> QED BY <2>10, <3>1, Zenon
  <2>16. \A q \in mem'[s].mapping : /\ q \in mem[s].mapping
                                    /\ mem'[s].versions[q] = mem[s].versions[q]
                                    /\ Saved(mem[s], disk[s], q) => Saved(mem'[s], disk'[s], q)
    <3> SUFFICES ASSUME NEW q \in DeletePoint(mem[s], n, p).mapping
                 PROVE  /\ q \in mem[s].mapping
                        /\ DeletePoint(mem[s], n, p).versions[q] = mem[s].versions[q]
                        /\ Saved(mem[s], disk[s], q) =>
                              Saved(DeletePoint(mem[s], n, p), DiskDelete(disk[s], mem[s], n, p), q)
      BY <2>10, Zenon
    <3>1. mem[s] \in SegmentState /\ disk[s] \in SegmentState
      BY <1>d, Zenon
    <3> QED BY <2>2, <3>1, DeleteKeepsOthers, Zenon
  <2>17. \A t \in Segments : \A v : Pending(t, v) => Pending(t, v)'
    BY <1>e, <2>3, <2>15, Zenon DEF Pending
  <2>18. AllPending'
    <3> SUFFICES ASSUME NEW t \in Segments, NEW q \in mem'[t].mapping,
                        0 < mem'[t].versions[q], ~ Saved(mem'[t], disk'[t], q)
                 PROVE  Pending(t, mem[t].versions[q])'
      BY Zenon DEF AllPending
    <3>1. CASE t = a
      BY <2>12, <2>17, <3>1, Zenon
    <3>2. CASE t # a
      <4>1. /\ q \in mem[t].mapping /\ mem'[t].versions[q] = mem[t].versions[q]
            /\ ~ Saved(mem[t], disk[t], q)
        BY <2>10, <2>16, <3>2, Zenon
      <4>2. Pending(t, mem[t].versions[q])
        BY <1>c, <4>1, Zenon DEF AckInv, AllPending
      <4> QED BY <2>17, <4>1, <4>2, Zenon
    <3> QED BY <3>1, <3>2, Zenon
  <2>19. \A t \in Segments : p \in mem'[t].mapping => mem'[t].versions[p] >= n
    <3>1. mem'[a].versions[p] >= n
      <4>1. mem'[a].versions[p] = n
        BY <2>11, Zenon DEF Touched
      <4> QED BY <2>2, <4>1, SMTT(30)
    <3>2. \A t \in Segments : t # s => p \notin mem[t].mapping
      BY <2>1 DEF HomeInv
    <3>3. mem[s].versions[p] <= n
      BY <1>d, <2>1, <2>2, SMTT(30) DEF Version, None
    <3>4. p \notin mem'[s].mapping
      BY <1>d, <2>1, <2>2, <2>10, <3>3, DeletePointMapping, Zenon
    <3> QED BY <2>10, <3>1, <3>2, <3>4, Zenon
  <2>20. \A t \in Segments : mem'[t].version < next /\ SegInv(mem'[t], disk'[t], flushing[t])
    BY <1>c, <2>10, <2>12, <2>13, <2>14, Zenon DEF AckInv
  <2> QED BY <1>c, <2>3, <2>18, <2>19, <2>20, Zenon DEF AckInv
<1>16. ASSUME NEW s \in Segments, FlushColumn(s) PROVE AckInv'
  <2> DEFINE f == flushing[s]
  <2>1. /\ f.stage # "idle" /\ f \in [stage : Stages, version : Version]
        /\ SegInv(mem[s], disk[s], f)
    BY <1>c, <1>d, <1>16, Zenon DEF FlushColumn, AckInv
  <2>2. /\ disk'[s] = Flushed(disk[s], mem[s], f)
        /\ flushing'[s] = NextStage(f)
        /\ \A t \in Segments : t # s => disk'[t] = disk[t] /\ flushing'[t] = flushing[t]
        /\ UNCHANGED <<log, walFirst, next, cur, mem, pass, mode>>
    BY <1>16, Zenon DEF FlushColumn, TypeInv, TypeOK
  <2> HIDE DEF f
  <2>3. /\ SegInv(mem[s], Flushed(disk[s], mem[s], f), NextStage(f))
        /\ \A p \in mem[s].mapping :
              Saved(mem[s], disk[s], p) => Saved(mem[s], Flushed(disk[s], mem[s], f), p)
    <3>1. mem[s] \in SegmentState /\ disk[s] \in SegmentState
      BY <1>d, Zenon
    <3> QED BY <2>1, <3>1, FlushKeepsSegInv, Zenon
  <2>4. /\ Flushed(disk[s], mem[s], f).version \in {disk[s].version, f.version}
        /\ NextStage(f).version \in {f.version, None}
    <3>1. mem[s] \in SegmentState /\ disk[s] \in SegmentState
      BY <1>d, Zenon
    <3> QED BY <2>1, <3>1, FlushedType, Zenon
  <2>5. \A t \in Segments : \A v \in Nat :
           disk[t].version <= v /\ flushing[t].version <= v =>
              disk'[t].version <= v /\ flushing'[t].version <= v
    BY <2>2, <2>4 DEF f, None
  <2>6. \A t \in Segments : \A v \in Nat : Pending(t, v) => Pending(t, v)'
    BY <1>e, <2>2, <2>5, Zenon DEF Pending
  <2>7. \A t \in Segments : \A p \in mem[t].mapping : mem[t].versions[p] \in Nat
    BY <1>h, Zenon
  <2>8. AllPending'
    <3> SUFFICES ASSUME NEW t \in Segments, NEW q \in mem[t].mapping,
                        0 < mem[t].versions[q], ~ Saved(mem[t], disk'[t], q)
                 PROVE  Pending(t, mem[t].versions[q])'
      BY <2>2, Zenon DEF AllPending
    <3>1. ~ Saved(mem[t], disk[t], q)
      BY <2>2, <2>3, Zenon
    <3>2. Pending(t, mem[t].versions[q])
      BY <1>c, <3>1, Zenon DEF AckInv, AllPending
    <3> QED BY <2>2, <2>6, <2>7, <3>2, Zenon
  <2>9. \A t \in Segments : SegInv(mem'[t], disk'[t], flushing'[t])
    BY <1>c, <2>2, <2>3, Zenon DEF AckInv
  <2> QED BY <1>c, <2>2, <2>8, <2>9, Zenon DEF AckInv, Op
<1>17. ASSUME NEW s \in Segments, FlushVisit(s) PROVE AckInv'
  <2> DEFINE persisted == UnwrapOr0(disk[s].version)
             unsaved == UnwrapOr0(mem[s].version) > persisted
  <2>1. /\ pass.on /\ pass'.on = pass.on /\ pass'.todo = pass.todo \ {s} /\ s \in pass.todo
        /\ pass'.unsaved = IF unsaved /\ (pass.unsaved = None \/ persisted < pass.unsaved)
                           THEN persisted ELSE pass.unsaved
        /\ pass'.persisted = MaxVersion(pass.persisted, persisted)
        /\ UNCHANGED <<log, walFirst, next, cur, mem, disk, mode>>
    BY <1>17, Zenon DEF FlushVisit, PersistedVersion, TypeInv, TypeOK
  <2>2. /\ disk[s].version <= mem[s].version /\ mem[s].version < next
        /\ persisted \in Nat /\ (persisted = 0 \/ persisted = disk[s].version)
        /\ disk[s].version <= persisted
    <3>1. disk[s].version <= mem[s].version /\ mem[s].version < next /\ disk[s].version \in Version
      BY <1>d, <1>g, <1>h, Zenon
    <3> QED BY <3>1 DEF UnwrapOr0, Version, None
  <2>3. /\ \A t \in Segments : t # s => flushing'[t] = flushing[t]
        /\ flushing'[s] \in {flushing[s], [stage |-> "mapping", version |-> mem[s].version]}
    BY <1>17, Zenon DEF FlushVisit, PersistedVersion, TypeInv, TypeOK
  <2>4. \A t \in Segments : SegInv(mem[t], disk[t], flushing'[t])
    <3>1. SegInv(mem[s], disk[s], [stage |-> "mapping", version |-> mem[s].version])
      BY <1>c, <1>d, StartKeepsSegInv, Zenon DEF AckInv
    <3> QED BY <1>c, <2>3, <3>1, Zenon DEF AckInv
  <2>5. ASSUME NEW q \in mem[s].mapping, 0 < mem[s].versions[q], ~ Saved(mem[s], disk[s], q)
        PROVE  unsaved /\ persisted <= mem[s].versions[q] /\ mem[s].versions[q] \in Nat
    <3>1. mem[s].versions[q] \in Version /\ mem[s].version \in Version /\ disk[s].version \in Version
      BY <1>d, Zenon
    <3>2. mem[s].versions[q] <= mem[s].version /\ ~ (mem[s].versions[q] <= disk[s].version)
      <4>1. SegInv(mem[s], disk[s], flushing[s])
        BY <1>g, Zenon
      <4> QED BY <2>5, <4>1, Zenon DEF SegInv
    <3> QED BY <2>5, <3>1, <3>2, SMTT(30) DEF UnwrapOr0, Version, None
  <2> HIDE DEF persisted, unsaved
  <2>6. /\ pass'.persisted = 0 \/ pass'.persisted < next
        /\ pass'.unsaved <= pass'.persisted
    <3>1. mem[s].version \in Version /\ disk[s].version \in Version
      BY <1>d, Zenon
    <3>2. persisted = 0 \/ persisted < next
      BY <1>e, <2>2, <3>1 DEF Version, None
    <3>3. /\ pass'.persisted \in {pass.persisted, persisted}
          /\ pass.persisted <= pass'.persisted /\ persisted <= pass'.persisted
      BY <1>e, <2>1, <2>2 DEF MaxVersion
    <3>4. pass'.unsaved \in {pass.unsaved, persisted}
      BY <2>1, Zenon
    <3>5. pass.unsaved \in Nat \cup {-1}
      BY <1>e, Zenon DEF Version, None
    <3>6. pass'.persisted = 0 \/ pass'.persisted < next
      BY <1>f, <3>2, <3>3, Zenon
    <3>7. pass'.unsaved <= pass'.persisted
      BY <1>e, <1>f, <2>2, <3>3, <3>4, <3>5, SMTT(30)
    <3> QED BY <3>6, <3>7, Zenon
  <2>7. \A t \in Segments \ {s} : \A v \in Nat : Pending(t, v) => Pending(t, v)'
    <3> SUFFICES ASSUME NEW t \in Segments, t # s, NEW v \in Nat, Pending(t, v)
                 PROVE  Pending(t, v)'
      BY Zenon
    <3>1. CASE t \in pass.todo
      BY <2>1, <3>1, Zenon DEF Pending
    <3>2. CASE t \notin pass.todo /\ pass.unsaved # None /\ pass.unsaved <= v
      <4>1. pass'.unsaved # None /\ pass'.unsaved <= v
        BY <1>e, <2>1, <2>2, <3>2 DEF Version, None
      <4> QED BY <2>1, <4>1, Zenon DEF Pending
    <3>3. CASE /\ t \notin pass.todo /\ pass.persisted <= v
               /\ \A u \in pass.todo : disk[u].version <= v /\ flushing[u].version <= v
      <4>1. persisted <= v
        <5>1. disk[s].version <= v /\ (persisted = 0 \/ persisted = disk[s].version)
          BY <2>1, <2>2, <3>3, Zenon
        <5> QED BY <5>1, SMTT(30)
      <4>2. pass'.persisted <= v
        BY <1>e, <2>1, <3>3, <4>1, Zenon DEF MaxVersion
      <4>3. \A u \in pass'.todo : disk[u].version <= v /\ flushing'[u].version <= v
        BY <1>e, <2>1, <2>3, <3>3, Zenon
      <4> QED BY <2>1, <4>2, <4>3, Zenon DEF Pending
    <3> QED BY <2>1, <3>1, <3>2, <3>3, Zenon DEF Pending
  <2>8. AllPending'
    <3> SUFFICES ASSUME NEW t \in Segments, NEW q \in mem[t].mapping,
                        0 < mem[t].versions[q], ~ Saved(mem[t], disk[t], q)
                 PROVE  Pending(t, mem[t].versions[q])'
      BY <2>1, Zenon DEF AllPending
    <3>1. Pending(t, mem[t].versions[q])
      BY <1>c, Zenon DEF AckInv, AllPending
    <3>2. CASE t # s
      <4>1. mem[t].versions[q] \in Nat
        BY <1>h, Zenon
      <4> QED BY <2>1, <2>7, <3>1, <3>2, <4>1, Zenon
    <3>3. CASE t = s
      <4>1. unsaved /\ persisted <= mem[s].versions[q] /\ mem[s].versions[q] \in Nat
        BY <2>5, <3>3, Zenon
      <4>2. pass'.unsaved # None /\ pass'.unsaved <= mem[s].versions[q]
        <5>1. /\ pass'.unsaved = IF pass.unsaved = None \/ persisted < pass.unsaved
                                 THEN persisted ELSE pass.unsaved
              /\ persisted \in Nat /\ pass.unsaved \in Version
          BY <1>e, <2>1, <2>2, <4>1, Zenon
        <5> QED BY <4>1, <5>1, SMTT(30) DEF Version, None
      <4> QED BY <2>1, <3>1, <3>3, <4>2, Zenon DEF Pending
    <3> QED BY <3>2, <3>3, Zenon
  <2> QED BY <1>c, <2>1, <2>4, <2>6, <2>8, Zenon DEF AckInv, Op
<1> QED
  BY <1>a, <1>1, <1>2, <1>3, <1>4, <1>5, <1>6, <1>7, <1>8, <1>9, <1>10, <1>11, <1>13, <1>14,
     <1>15, <1>16, <1>17, Zenon
  DEF Next, ApplyStep, FlushStep

\* Until a crash, and without snapshots, whatever flush_all lets the WAL drop
\* is on disk in every column of its segment, for any number of segments,
\* operations and overlapping background flushes.
THEOREM AckedBeforeCrash == Spec => [](crashes = 0 /\ ~ Snapshots => AckedIsOnDisk)
<1>1. TypeInv /\ AckInvBeforeCrash => (crashes = 0 /\ ~ Snapshots => AckedIsOnDisk)
  <2> SUFFICES ASSUME TypeInv, AckInv, NEW s \in Segments, NEW p \in mem[s].mapping,
                      0 < mem[s].versions[p], mem[s].versions[p] < walFirst
               PROVE  OnDisk(s, p)
    BY Zenon DEF AckInvBeforeCrash, AckedIsOnDisk
  <2>1. mem[s].versions[p] \in Version /\ walFirst \in Nat
    BY SMTT(30) DEF TypeInv, TypeOK, SegmentState
  <2>2. ~ Pending(s, mem[s].versions[p])
    BY <2>1, SMTT(30) DEF Pending, Version, None
  <2>3. Saved(mem[s], disk[s], p)
    BY <2>2, Zenon DEF AckInv, AllPending
  <2> QED BY <2>3, Zenon DEF Saved, OnDisk
<1>2. Init => TypeInv /\ HomeInv /\ AckInvBeforeCrash
  BY TypeInit, HomeInit, AckInit, Zenon DEF AckInvBeforeCrash
<1>3. TypeInv /\ HomeInv /\ AckInvBeforeCrash /\ [Next]_vars
         => TypeInv' /\ HomeInv' /\ AckInvBeforeCrash'
  BY TypeStep, HomeStep, AckStep, Zenon
<1> QED BY <1>1, <1>2, <1>3, PTL DEF Spec
====
