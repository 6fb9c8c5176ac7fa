-------------------------- MODULE PointStore_proofs --------------------------
(***************************************************************************)
(* The storage of a shard implements PointStore until its first crash, for *)
(* any segments, points, kinds of operation and bounds, with flushes and   *)
(* snapshots going on.                                                     *)
(***************************************************************************)
EXTENDS ShardStorage_proofs, WellFoundedInduction

\* What a reader of the segment gets for a point of it.
Shown(seg, p) == [vec |-> seg.vectors[p], payload |-> seg.payloads[p]]

\* Until the first crash operations reach the segments in the order of their
\* numbers: the one being applied is the newest, no segment it has visited
\* without success has its point, and once it was applied the point has its
\* number, which is why a moved point is not changed a second time in the
\* segment it was moved to.
RunInv ==
    /\ mode = "running"
    /\ cur.num = None => cur = Idle
    /\ cur.num # None => cur.num = next - 1
    /\ \A s \in Segments :
          /\ mem[s].version < next
          /\ \A p \in mem[s].mapping : /\ mem[s].versions[p] <= mem[s].version
                                       /\ mem[s].vectors[p] \in Nat
    /\ cur.num # None /\ Op(cur.num).kind = "delete" => ~ cur.found
    /\ cur.num # None /\ ~ cur.found =>
          /\ \A s \in Segments \ cur.todo : Op(cur.num).point \notin mem[s].mapping
          /\ Op(cur.num).kind # "delete" => \A s \in Segments : mem[s].version < cur.num
    /\ cur.num # None /\ cur.found =>
          \A s \in Segments : Op(cur.num).point \in mem[s].mapping =>
                                 mem[s].versions[Op(cur.num).point] >= cur.num

RunInvBeforeCrash == crashes = 0 => RunInv

-----------------------------------------------------------------------------
(* What the operations do to the content of a point                        *)

\* The effect of an operation, kind by kind.
LEMMA EffectOfKind ==
    ASSUME NEW n, NEW vec \in Nat, NEW payload, NEW point
    PROVE  /\ Abstract!Effect("upsert", n, point) = [vec |-> n, payload |-> {n}]
           /\ Abstract!Effect("delete", n, point) = Abstract!Absent
           /\ \A k \in {"set_payload", "overwrite_payload", "clear_payload"} :
                 /\ Abstract!Effect(k, n, Abstract!Absent) = Abstract!Absent
                 /\ Abstract!Effect(k, n, [vec |-> vec, payload |-> payload])
                       = [vec |-> vec, payload |-> NewPayload(k, payload, n)]
<1>1. Abstract!Effect("upsert", n, point) = [vec |-> n, payload |-> {n}]
  BY Zenon DEF Abstract!Effect
<1>2. Abstract!Effect("delete", n, point) = Abstract!Absent
  BY Zenon DEF Abstract!Effect
<1>3. ASSUME NEW k \in {"set_payload", "overwrite_payload", "clear_payload"}
      PROVE  Abstract!Effect(k, n, Abstract!Absent) = Abstract!Absent
  BY Zenon DEF Abstract!Effect
<1>4. ASSUME NEW k \in {"set_payload", "overwrite_payload", "clear_payload"}
      PROVE  Abstract!Effect(k, n, [vec |-> vec, payload |-> payload])
                = [vec |-> vec, payload |-> NewPayload(k, payload, n)]
  <2>1. [vec |-> vec, payload |-> payload] # Abstract!Absent
    BY DEF Abstract!Absent
  <2> QED BY <2>1, Zenon DEF Abstract!Effect, NewPayload
<1> QED BY <1>1, <1>2, <1>3, <1>4, Zenon

\* The closures of segments_updater.rs have on the point of the operation the
\* effect that PointStore gives the operation.
LEMMA ModifyEffect ==
    ASSUME TypeInv, cur.num # None, Op(cur.num).kind # "delete", NEW seg \in SegmentState,
           seg.version <= cur.num,
           Op(cur.num).point \in seg.mapping =>
               seg.versions[Op(cur.num).point] <= cur.num /\ seg.vectors[Op(cur.num).point] \in Nat,
           Op(cur.num).kind = "upsert" \/ Op(cur.num).point \in seg.mapping
    PROVE  /\ Shown(Modify(seg, cur.num), Op(cur.num).point)
                 = Abstract!Effect(Op(cur.num).kind, cur.num,
                                   IF Op(cur.num).point \in seg.mapping
                                   THEN Shown(seg, Op(cur.num).point) ELSE Abstract!Absent)
           /\ Modify(seg, cur.num).vectors[Op(cur.num).point] \in Nat
<1> DEFINE n == cur.num
           p == Op(cur.num).point
           k == Op(cur.num).kind
<1>1. n \in Nat /\ p \in Points /\ k \in AllOpKinds
  BY OpInLog, Zenon
<1>2. seg.version \in Version /\ UnwrapOr0(seg.version) <= n
  BY <1>1 DEF SegmentState, UnwrapOr0, Version, None
<1>3. CASE k = "upsert"
  <2> DEFINE u == UpsertVector(seg, n, p, n)
             one == {n}
  <2>1. Applies(seg, n, p)
    BY <1>2, Zenon DEF Applies
  <2>2. /\ u \in SegmentState
        /\ u.vectors[p] = n /\ u.versions[p] = n /\ p \in u.mapping
    <3>1. u \in SegmentState
      BY <1>1, UpsertVectorType, Zenon DEF Version
    <3> QED BY <1>1, <2>1, <3>1, Zenon DEF UpsertVector, SegmentState
  <2> HIDE DEF u, one
  <2>3. p \in u.mapping /\ Applies(u, n, p)
    BY <1>1, <2>2 DEF Applies
  <2>4. /\ WritePayload(u, n, p, one).vectors[p] = n
        /\ WritePayload(u, n, p, one).payloads[p] = one
    BY <1>1, <2>2, <2>3, Zenon DEF WritePayload, SegmentState
  <2>5. Modify(seg, n) = WritePayload(u, n, p, one)
    BY <1>3, Zenon DEF Modify, UpsertWithPayload, u, one
  <2>6. \A point : Abstract!Effect(k, n, point) = [vec |-> n, payload |-> one]
    BY <1>3, EffectOfKind, Zenon DEF one
  <2> QED BY <1>1, <2>4, <2>5, <2>6, Zenon DEF Shown
<1>4. CASE k # "upsert"
  <2> DEFINE pl == NewPayload(k, seg.payloads[p], n)
  <2>1. p \in seg.mapping /\ Applies(seg, n, p)
    BY <1>4, Zenon DEF Applies
  <2>2. k \in {"set_payload", "overwrite_payload", "clear_payload"}
    BY <1>1, <1>4, Zenon DEF AllOpKinds
  <2>3. Abstract!Effect(k, n, Shown(seg, p)) = [vec |-> seg.vectors[p], payload |-> pl]
    BY <2>1, <2>2, EffectOfKind, Zenon DEF Shown
  <2> HIDE DEF pl
  <2>4. /\ WritePayload(seg, n, p, pl).vectors[p] = seg.vectors[p]
        /\ WritePayload(seg, n, p, pl).payloads[p] = pl
    BY <1>1, <2>1, Zenon DEF WritePayload, SegmentState
  <2>5. Modify(seg, n) = WritePayload(seg, n, p, pl)
    BY <1>4, Zenon DEF Modify, pl
  <2> QED BY <2>1, <2>3, <2>4, <2>5, Zenon DEF Shown
<1> QED BY <1>3, <1>4, Zenon

\* The move takes the point as it is.
LEMMA MoveShows ==
    ASSUME NEW target \in SegmentState, NEW seg \in SegmentState, NEW n \in Nat, NEW p \in Points,
           target.version <= n, p \notin target.mapping
    PROVE  Shown(MovedInto(target, seg, n, p), p) = Shown(seg, p)
<1> DEFINE vec == seg.vectors[p]
           pl == seg.payloads[p]
           u == UpsertVector(target, n, p, vec)
<1>1. Applies(target, n, p)
  BY DEF SegmentState, UnwrapOr0, Applies, Version, None
<1>2. /\ u \in SegmentState
      /\ u.vectors[p] = vec /\ u.versions[p] = n /\ p \in u.mapping
  <2>1. u \in SegmentState
    BY UpsertVectorType, Zenon DEF SegmentState
  <2> QED BY <1>1, <2>1, Zenon DEF UpsertVector, SegmentState
<1> HIDE DEF u, pl, vec
<1>3. p \in u.mapping /\ Applies(u, n, p)
  BY <1>2 DEF Applies
<1>4. /\ WritePayload(u, n, p, pl).vectors[p] = vec
      /\ WritePayload(u, n, p, pl).payloads[p] = pl
  BY <1>2, <1>3, Zenon DEF WritePayload, SegmentState
<1> QED BY <1>4, Zenon DEF MovedInto, Shown, u, pl, vec

\* delete_point leaves nothing of its point and everything of the others.
LEMMA DeleteShows ==
    ASSUME NEW seg \in SegmentState, NEW n \in Nat, NEW p \in Points,
           p \in seg.mapping, seg.versions[p] <= n
    PROVE  /\ DeletePoint(seg, n, p).mapping = seg.mapping \ {p}
           /\ \A q \in Points : q # p =>
                 /\ DeletePoint(seg, n, p).versions[q] = seg.versions[q]
                 /\ DeletePoint(seg, n, p).vectors[q] = seg.vectors[q]
                 /\ DeletePoint(seg, n, p).payloads[q] = seg.payloads[q]
           /\ DeletePoint(seg, n, p).version = MaxVersion(n, seg.version)
BY Zenon DEF DeletePoint, Applies, Forget, SegmentState

-----------------------------------------------------------------------------
(* The order of the operations                                             *)

\* An operation newer than the segment changes one point of it and nothing that
\* the invariant says of the others.
LEMMA TouchKeepsPoints ==
    ASSUME NEW seg \in SegmentState, NEW new \in SegmentState, NEW n \in Nat, NEW p \in Points,
           Touched(seg, new, n, p), seg.version <= n, new.vectors[p] \in Nat,
           \A q \in seg.mapping : seg.versions[q] <= seg.version /\ seg.vectors[q] \in Nat
    PROVE  \A q \in new.mapping : new.versions[q] <= new.version /\ new.vectors[q] \in Nat
<1>1. seg.mapping \subseteq Points /\ seg.version \in Version
      /\ \A q \in Points : seg.versions[q] \in Version
  BY Zenon DEF SegmentState
<1>2. ASSUME NEW q \in new.mapping, q # p
      PROVE  new.versions[q] <= new.version /\ new.vectors[q] \in Nat
  <2>1. /\ q \in seg.mapping /\ q \in Points /\ new.version = n
        /\ new.versions[q] = seg.versions[q] /\ new.vectors[q] = seg.vectors[q]
    BY <1>1, <1>2, Zenon DEF Touched
  <2>2. seg.versions[q] <= seg.version /\ seg.versions[q] \in Version
    BY <1>1, <2>1, Zenon
  <2> QED BY <1>1, <2>1, <2>2 DEF Version, None
<1>3. new.versions[p] <= new.version
  BY DEF Touched
<1> QED BY <1>2, <1>3, Zenon

\* The points a segment starts with were written by operation 0.
LEMMA SegmentOfPoints ==
    ASSUME NEW P \in SUBSET Points, NEW v
    PROVE  /\ SegmentOf(P, v).mapping = P
           /\ SegmentOf(P, v).version = v
           /\ \A p \in P : SegmentOf(P, v).versions[p] = 0 /\ SegmentOf(P, v).vectors[p] = 0
           /\ \A p \in P : Shown(SegmentOf(P, v), p) = [vec |-> 0, payload |-> {0}]
BY Zenon DEF SegmentOf, Shown

\* A shard that has just been opened.
LEMMA RunInit == Init => RunInv
<1> SUFFICES ASSUME Init PROVE RunInv
  BY Zenon
<1>1. ASSUME NEW s \in Segments
      PROVE  /\ mem[s].version < next
             /\ \A p \in mem[s].mapping : /\ mem[s].versions[p] <= mem[s].version
                                          /\ mem[s].vectors[p] \in Nat
  <2> DEFINE v == IF s \in Appendable THEN None ELSE 0
  <2>1. mem[s] = SegmentOf(Placed[s], v)
    BY Zenon DEF Init
  <2>2. /\ Placed[s] \subseteq Points /\ (s \in Appendable => Placed[s] = {})
        /\ FirstOp \in Nat /\ next = FirstOp /\ (FirstOp = 0 => s \in Appendable)
    BY SegmentsAssumption, OpsAssumption, Zenon DEF Init
  <2> HIDE DEF v
  <2>3. /\ mem[s].version = v /\ mem[s].mapping = Placed[s]
        /\ \A p \in Placed[s] : mem[s].versions[p] = 0 /\ mem[s].vectors[p] = 0
    <3>1. Placed[s] \in SUBSET Points
      BY <2>2, Zenon
    <3> DEFINE P == Placed[s]
    <3> HIDE DEF P
    <3>2. /\ SegmentOf(P, v).version = v /\ SegmentOf(P, v).mapping = P
          /\ \A p \in P : SegmentOf(P, v).versions[p] = 0 /\ SegmentOf(P, v).vectors[p] = 0
      BY <3>1, SegmentOfPoints DEF P
    <3> QED BY <2>1, <3>2, Zenon DEF P
  <2> QED BY <2>2, <2>3 DEF v, None
<1> QED BY <1>1, Zenon DEF Init, RunInv, Idle, None

\* A step that leaves the shard without a crash starts without one.
LEMMA NoCrash ==
    ASSUME TypeInv, [Next]_vars, crashes' = 0
    PROVE  crashes = 0 /\ ~ Crash
<1>1. crashes \in Nat /\ (Crash => crashes' = crashes + 1)
  BY Zenon DEF TypeInv, TypeOK, Crash
<1>2. Next /\ ~ Crash => crashes' = crashes
  BY Zenon DEF Next, ApplyStep, FlushStep, Write, StartOp, VisitMiss, VisitDelete, VisitApplied,
         VisitUpdate, VisitMove, FinishInsert, Finish, BeginFlush, FlushVisit, EndFlush,
         FlushColumn, SnapshotFlush, ReplayDone, Ready
<1> QED BY <1>1, <1>2 DEF vars

\* Every step of the running shard.
LEMMA RunStep ==
    TypeInv /\ TypeInv' /\ HomeInv /\ RunInvBeforeCrash /\ [Next]_vars => RunInvBeforeCrash'
<1> SUFFICES ASSUME TypeInv, TypeInv', HomeInv, RunInvBeforeCrash, [Next]_vars, crashes' = 0
             PROVE  RunInv'
  BY Zenon DEF RunInvBeforeCrash
<1>0. /\ crashes = 0 /\ RunInv /\ ~ Crash
      /\ next \in Nat /\ FirstOp \in Nat
      /\ \A s \in Segments : /\ mem[s] \in SegmentState /\ mem'[s] \in SegmentState
                             /\ mem[s].version \in Version /\ mem[s].mapping \subseteq Points
                             /\ \A p \in Points : mem[s].versions[p] \in Version
  BY NoCrash, OpsAssumption DEF RunInvBeforeCrash, TypeInv, TypeOK, SegmentState
<1>1. ASSUME NEW op \in Ops, Write(op) PROVE RunInv'
  <2>1. cur.num # None => Op(cur.num)' = Op(cur.num)
    BY <1>1, OpStable, Zenon DEF Write
  <2> QED BY <1>0, <1>1, <2>1, Zenon DEF Write, RunInv
<1>2. CASE StartOp
  <2>1. /\ cur.num = None /\ cur'.num = next /\ cur'.num \in Nat /\ cur'.todo = Segments /\ ~ cur'.found
        /\ next' = next + 1 /\ mem' = mem /\ mode' = mode
    BY <1>0, <1>2, Zenon DEF StartOp, Idle
  <2>2. \A s \in Segments : mem[s].version < next' /\ mem[s].version < cur'.num
    BY <1>0, <2>1 DEF RunInv, Version, None
  <2>3. cur'.num # None /\ cur'.num = next' - 1
    BY <1>0, <2>1 DEF None
  <2> QED BY <1>0, <2>1, <2>2, <2>3, Zenon DEF RunInv
<1>3. ASSUME NEW s \in Segments, VisitMiss(s) PROVE RunInv'
  <2>1. Op(cur.num)' = Op(cur.num) /\ cur'.num = cur.num /\ cur'.todo = cur.todo \ {s}
        /\ cur'.found = cur.found /\ cur.num # None
    BY <1>3, Zenon DEF VisitMiss, Op, TypeInv, TypeOK, Bounds
  <2> QED BY <1>0, <1>3, <2>1, Zenon DEF VisitMiss, RunInv
<1>4. ASSUME NEW s \in Segments, VisitApplied(s) PROVE RunInv'
  <2>1. cur'.found /\ cur'.num = cur.num /\ Op(cur.num)' = Op(cur.num) /\ cur.num # None
    BY <1>4, Zenon DEF VisitApplied, Op, TypeInv, TypeOK, Bounds
  <2>2. cur.found
    <3>1. /\ mem[s].versions[Op(cur.num).point] >= cur.num
          /\ Op(cur.num).point \in mem[s].mapping /\ Op(cur.num).kind # "delete"
      BY <1>4, Zenon DEF VisitApplied
    <3>2. cur.num \in Nat
      BY <2>1, OpInLog, Zenon
    <3> QED BY <1>0, <2>1, <3>1, <3>2 DEF RunInv, Version, None
  <2> QED BY <1>0, <1>4, <2>1, <2>2, Zenon DEF VisitApplied, RunInv
<1>5. CASE Finish
  BY <1>0, <1>5, Zenon DEF Finish, RunInv, Idle
<1>6. ASSUME mem' = mem, cur' = cur, log' = log, next' = next, mode' = mode PROVE RunInv'
  BY <1>0, <1>6, Zenon DEF RunInv, Op
<1>7. ~ ReplayDone /\ ~ Ready
  BY <1>0, Zenon DEF RunInv, ReplayDone, Ready
<1>8. ASSUME NEW s \in Segments, VisitDelete(s) PROVE RunInv'
  <2> DEFINE n == cur.num
             p == Op(cur.num).point
  <2>1. cur.num # None /\ ~ cur.found
    BY <1>0, <1>8, Zenon DEF VisitDelete, TypeInv, Bounds, RunInv
  <2>2. n \in Nat /\ p \in Points /\ n = next - 1
    BY <1>0, <2>1, OpInLog, Zenon DEF RunInv
  <2>3. /\ mem' = [mem EXCEPT ![s] = DeletePoint(mem[s], n, p)]
        /\ p \in mem[s].mapping /\ Op(n).kind = "delete" /\ cur' = [cur EXCEPT !.todo = @ \ {s}]
        /\ log' = log /\ next' = next /\ mode' = mode
    BY <1>8, Zenon DEF VisitDelete
  <2>4. /\ cur'.num = n /\ cur'.todo = cur.todo \ {s} /\ cur'.found = cur.found
        /\ Op(cur.num)' = Op(cur.num)
    BY <2>3, Zenon DEF Op, TypeInv, TypeOK
  <2>5. mem[s].versions[p] <= n
    BY <1>0, <2>2, <2>3 DEF RunInv, Version, None
  <2>6. /\ mem'[s].mapping = mem[s].mapping \ {p}
        /\ \A q \in Points : q # p => /\ mem'[s].versions[q] = mem[s].versions[q]
                                      /\ mem'[s].vectors[q] = mem[s].vectors[q]
        /\ mem'[s].version = MaxVersion(n, mem[s].version)
        /\ \A t \in Segments : t # s => mem'[t] = mem[t]
    BY <1>0, <2>2, <2>3, <2>5, DeleteShows DEF TypeInv, TypeOK
  <2>7. mem'[s].version < next /\ mem[s].version <= mem'[s].version /\ mem'[s].version \in Version
    BY <1>0, <2>2, <2>6 DEF RunInv, MaxVersion, Version, None
  <2>8. ASSUME NEW q \in mem'[s].mapping
        PROVE  mem'[s].versions[q] <= mem'[s].version /\ mem'[s].vectors[q] \in Nat
    <3>1. q \in mem[s].mapping /\ q # p /\ q \in Points
      BY <1>0, <2>6, Zenon
    <3>2. /\ mem[s].versions[q] \in Version /\ mem[s].versions[q] <= mem[s].version
          /\ mem[s].vectors[q] \in Nat
      BY <1>0, <3>1, Zenon DEF RunInv
    <3> QED BY <1>0, <2>6, <2>7, <3>1, <3>2 DEF Version, None
  <2>9. \A t \in Segments \ cur'.todo : p \notin mem'[t].mapping
    BY <1>0, <2>1, <2>4, <2>6, Zenon DEF RunInv
  <2> QED BY <1>0, <2>1, <2>3, <2>4, <2>6, <2>7, <2>8, <2>9 DEF RunInv
<1>9. ASSUME NEW s \in Segments, VisitUpdate(s) PROVE RunInv'
  <2> DEFINE n == cur.num
             p == Op(cur.num).point
             new == Modify(mem[s], n)
  <2>1. cur.num # None
    BY <1>9, Zenon DEF VisitUpdate, TypeInv, Bounds
  <2>2. n \in Nat /\ p \in Points /\ n = next - 1
    BY <1>0, <2>1, OpInLog, Zenon DEF RunInv
  <2>3. /\ mem' = [mem EXCEPT ![s] = new]
        /\ p \in mem[s].mapping /\ Op(n).kind # "delete" /\ mem[s].versions[p] < n
        /\ log' = log /\ next' = next /\ mode' = mode
    BY <1>9, Zenon DEF VisitUpdate
  <2>4. cur'.num = n /\ cur'.found /\ Op(cur.num)' = Op(cur.num)
    BY <1>9, Zenon DEF VisitUpdate, Op, TypeInv, TypeOK
  <2>5. ~ cur.found
    BY <1>0, <2>1, <2>2, <2>3 DEF RunInv, Version, None
  <2>6. mem[s].version <= n /\ mem[s].versions[p] <= n /\ mem[s].vectors[p] \in Nat
    BY <1>0, <2>1, <2>2, <2>3, <2>5 DEF RunInv, Version, None
  <2>7. Touched(mem[s], new, n, p)
    BY <1>0, <2>1, <2>3, <2>6, ModifyTouches, Zenon
  <2>8. new.vectors[p] \in Nat
    BY <1>0, <2>1, <2>3, <2>6, ModifyEffect, Zenon
  <2>9. new \in SegmentState
    BY <1>0, <2>1, <2>3, ModifyType, Zenon
  <2> HIDE DEF new
  <2>10. \A q \in new.mapping : new.versions[q] <= new.version /\ new.vectors[q] \in Nat
    BY <1>0, <2>2, <2>6, <2>7, <2>8, <2>9, TouchKeepsPoints DEF RunInv
  <2>11. mem'[s] = new /\ \A t \in Segments : t # s => mem'[t] = mem[t]
    BY <2>3, Zenon DEF TypeInv, TypeOK
  <2>12. \A t \in Segments : p \in mem'[t].mapping => mem'[t].versions[p] >= n
    <3>1. \A t \in Segments : t # s => p \notin mem[t].mapping
      BY <2>3 DEF HomeInv
    <3> QED BY <2>2, <2>7, <2>11, <3>1 DEF Touched
  <2>13. new.version < next
    BY <1>0, <2>2, <2>7 DEF Touched
  <2> QED BY <1>0, <2>1, <2>3, <2>4, <2>10, <2>11, <2>12, <2>13 DEF RunInv
<1>10. ASSUME NEW s \in Segments, NEW a \in Appendable, VisitMove(s, a) PROVE RunInv'
  <2> DEFINE n == cur.num
             p == Op(cur.num).point
             moved == MovedInto(mem[a], mem[s], n, p)
             new == Modify(moved, n)
  <2>1. cur.num # None /\ a \in Segments /\ a # s
    BY <1>10, SegmentsAssumption, Zenon DEF VisitMove, TypeInv, Bounds
  <2>2. n \in Nat /\ p \in Points /\ n = next - 1
    BY <1>0, <2>1, OpInLog, Zenon DEF RunInv
  <2>3. /\ p \in mem[s].mapping /\ Op(n).kind # "delete" /\ mem[s].versions[p] < n
        /\ log' = log /\ next' = next /\ mode' = mode
    BY <1>10, Zenon DEF VisitMove
  <2>4. cur'.num = n /\ cur'.found /\ Op(cur.num)' = Op(cur.num)
    BY <1>10, Zenon DEF VisitMove, Op, TypeInv, TypeOK
  <2>5. ~ cur.found
    BY <1>0, <2>1, <2>2, <2>3 DEF RunInv, Version, None
  <2>6. /\ mem[s].version < n /\ mem[s].versions[p] <= n /\ mem[s].vectors[p] \in Nat
        /\ mem[a].version < n /\ mem[a].version <= n /\ p \notin mem[a].mapping
    BY <1>0, <2>1, <2>2, <2>3, <2>5 DEF RunInv, HomeInv, Version, None
  <2>7. moved \in SegmentState /\ Touched(mem[a], moved, n, p) /\ moved.vectors[p] = mem[s].vectors[p]
    <3>1. moved \in SegmentState
      BY <1>0, <2>1, <2>2, MovedIntoType, Zenon
    <3>2. Touched(mem[a], moved, n, p)
      BY <1>0, <2>1, <2>2, <2>6, MoveTouches, Zenon
    <3>3. Shown(moved, p) = Shown(mem[s], p)
      BY <1>0, <2>1, <2>2, <2>6, MoveShows
    <3> QED BY <3>1, <3>2, <3>3, Zenon DEF Shown
  <2> HIDE DEF moved
  <2>8. moved.version <= n /\ p \in moved.mapping /\ moved.versions[p] <= n /\ moved.vectors[p] \in Nat
    BY <2>2, <2>6, <2>7 DEF Touched
  <2>9. /\ new \in SegmentState /\ Touched(moved, new, n, p) /\ new.vectors[p] \in Nat
    <3>1. new \in SegmentState
      BY <2>1, <2>3, <2>7, ModifyType, Zenon
    <3>2. Touched(moved, new, n, p)
      BY <2>1, <2>3, <2>7, <2>8, ModifyTouches, Zenon
    <3>3. new.vectors[p] \in Nat
      BY <2>1, <2>3, <2>7, <2>8, ModifyEffect, Zenon
    <3> QED BY <3>1, <3>2, <3>3, Zenon
  <2>10. /\ mem' = [mem EXCEPT ![a] = new, ![s] = DeletePoint(mem[s], n, p)]
    BY <1>10, <2>1, Zenon DEF VisitMove, moved, TypeInv, TypeOK
  <2> HIDE DEF new
  <2>11. Touched(mem[a], new, n, p)
    BY <2>2, <2>7, <2>9, TouchedTwice, Zenon
  <2>12. \A q \in new.mapping : new.versions[q] <= new.version /\ new.vectors[q] \in Nat
    BY <1>0, <2>1, <2>2, <2>6, <2>9, <2>11, TouchKeepsPoints DEF RunInv
  <2>13. mem'[a] = new /\ mem'[s] = DeletePoint(mem[s], n, p)
         /\ \A t \in Segments : t # s /\ t # a => mem'[t] = mem[t]
    BY <2>1, <2>10, Zenon DEF TypeInv, TypeOK
  <2>14. /\ mem'[s].mapping = mem[s].mapping \ {p}
         /\ \A q \in Points : q # p => /\ mem'[s].versions[q] = mem[s].versions[q]
                                       /\ mem'[s].vectors[q] = mem[s].vectors[q]
         /\ mem'[s].version = n
    <3>1. MaxVersion(n, mem[s].version) = n
      BY <1>0, <2>2, <2>6 DEF MaxVersion, Version, None
    <3> QED BY <1>0, <2>2, <2>3, <2>6, <2>13, <3>1, DeleteShows
  <2>15. ASSUME NEW q \in mem'[s].mapping
         PROVE  mem'[s].versions[q] <= mem'[s].version /\ mem'[s].vectors[q] \in Nat
    <3>1. q \in mem[s].mapping /\ q # p /\ q \in Points
      BY <1>0, <2>14, Zenon
    <3>2. /\ mem[s].versions[q] \in Version /\ mem[s].versions[q] <= mem[s].version
          /\ mem[s].vectors[q] \in Nat
      BY <1>0, <3>1, Zenon DEF RunInv
    <3> QED BY <1>0, <2>2, <2>6, <2>14, <3>1, <3>2 DEF Version, None
  <2>16. \A t \in Segments : p \in mem'[t].mapping => mem'[t].versions[p] >= n
    <3>1. \A t \in Segments : t # s => p \notin mem[t].mapping
      BY <2>3 DEF HomeInv
    <3> QED BY <2>2, <2>11, <2>13, <2>14, <3>1 DEF Touched
  <2>17. new.version = n /\ n < next
    BY <1>0, <2>2, <2>11, SMTT(30) DEF Touched
  <2>18. ASSUME NEW t \in Segments
         PROVE  /\ mem'[t].version < next'
                /\ \A q \in mem'[t].mapping : /\ mem'[t].versions[q] <= mem'[t].version
                                              /\ mem'[t].vectors[q] \in Nat
    BY <1>0, <2>3, <2>12, <2>13, <2>14, <2>15, <2>17, Zenon DEF RunInv
  <2> QED BY <1>0, <2>1, <2>3, <2>4, <2>16, <2>18, Zenon DEF RunInv
<1>11. ASSUME NEW a \in Appendable, FinishInsert(a) PROVE RunInv'
  <2> DEFINE n == cur.num
             p == Op(cur.num).point
             new == Modify(mem[a], n)
  <2>1. cur.num # None /\ a \in Segments /\ ~ cur.found /\ Op(n).kind = "upsert" /\ cur.todo = {}
    BY <1>11, SegmentsAssumption, Zenon DEF FinishInsert
  <2>2. n \in Nat /\ p \in Points /\ n = next - 1
    BY <1>0, <2>1, OpInLog, Zenon DEF RunInv
  <2>3. /\ mem' = [mem EXCEPT ![a] = new] /\ cur' = Idle
        /\ log' = log /\ next' = next /\ mode' = mode
    BY <1>11, Zenon DEF FinishInsert, Modify
  <2>4. mem[a].version <= n /\ p \notin mem[a].mapping
    BY <1>0, <2>1, <2>2 DEF RunInv, Version, None
  <2>5. Touched(mem[a], new, n, p)
    BY <1>0, <2>1, <2>4, ModifyTouches, Zenon
  <2>6. new.vectors[p] \in Nat
    BY <1>0, <2>1, <2>4, ModifyEffect, Zenon
  <2>7. new \in SegmentState
    BY <1>0, <2>1, ModifyType, Zenon
  <2> HIDE DEF new
  <2>8. \A q \in new.mapping : new.versions[q] <= new.version /\ new.vectors[q] \in Nat
    BY <1>0, <2>1, <2>2, <2>4, <2>5, <2>6, <2>7, TouchKeepsPoints DEF RunInv
  <2>9. mem'[a] = new /\ \A t \in Segments : t # a => mem'[t] = mem[t]
    BY <2>1, <2>3, Zenon DEF TypeInv, TypeOK
  <2>10. new.version < next
    BY <1>0, <2>2, <2>5 DEF Touched
  <2> QED BY <1>0, <2>3, <2>8, <2>9, <2>10, Zenon DEF RunInv, Idle
<1> QED
  BY <1>0, <1>1, <1>2, <1>3, <1>4, <1>5, <1>6, <1>7, <1>8, <1>9, <1>10, <1>11, Zenon
  DEF Next, ApplyStep, FlushStep, BeginFlush, FlushVisit, EndFlush, FlushColumn, SnapshotFlush, vars
-----------------------------------------------------------------------------
(* What is visible                                                         *)

\* In memory m no point is in two segments.
OneHome(m) == \A s, t \in Segments : s # t => m[s].mapping \cap m[t].mapping = {}

\* The points of m as PointStore keeps them.
VisibleIn(m) ==
    [p \in Points |->
        IF {s \in Segments : p \in m[s].mapping} = {} THEN Abstract!Absent
        ELSE Shown(m[CHOOSE s \in {s \in Segments : p \in m[s].mapping} : TRUE], p)]

\* A point that has one home is seen as it is there.
LEMMA VisibleAtHome ==
    ASSUME NEW m, OneHome(m), NEW p \in Points
    PROVE  /\ \A s \in Segments : p \in m[s].mapping => VisibleIn(m)[p] = Shown(m[s], p)
           /\ (\A s \in Segments : p \notin m[s].mapping) => VisibleIn(m)[p] = Abstract!Absent
<1> DEFINE H == {s \in Segments : p \in m[s].mapping}
<1>1. VisibleIn(m)[p] = IF H = {} THEN Abstract!Absent ELSE Shown(m[CHOOSE s \in H : TRUE], p)
  BY Zenon DEF VisibleIn
<1>2. ASSUME NEW s \in Segments, p \in m[s].mapping
      PROVE  H # {} /\ (CHOOSE t \in H : TRUE) = s
  <2>1. s \in H /\ \A t \in H : t = s
    BY <1>2, Zenon DEF OneHome
  <2>2. (CHOOSE t \in H : TRUE) \in H
    BY <2>1, Zenon
  <2> QED BY <2>1, <2>2, Zenon
<1>3. ASSUME \A s \in Segments : p \notin m[s].mapping PROVE H = {}
  BY <1>3, Zenon
<1> HIDE DEF H
<1> QED BY <1>1, <1>2, <1>3, Zenon

\* Where a segment still has a point as it was, the point is seen as before.
LEMMA VisibleOfOthers ==
    ASSUME NEW m, NEW w, OneHome(m), OneHome(w), NEW q \in Points,
           \A s \in Segments : /\ q \in w[s].mapping <=> q \in m[s].mapping
                               /\ q \in m[s].mapping => Shown(w[s], q) = Shown(m[s], q)
    PROVE  VisibleIn(w)[q] = VisibleIn(m)[q]
<1>1. CASE \E s \in Segments : q \in m[s].mapping
  <2>1. PICK s \in Segments : q \in m[s].mapping
    BY <1>1, Zenon
  <2> QED BY <2>1, VisibleAtHome, Zenon
<1>2. CASE \A s \in Segments : q \notin m[s].mapping
  BY <1>2, VisibleAtHome, Zenon
<1> QED BY <1>1, <1>2, Zenon

\* The refinement mapping shows what is visible in the segments.
LEMMA VisibleIsVisible == Visible = VisibleIn(mem) /\ Visible' = VisibleIn(mem')
BY Zenon DEF Visible, VisibleIn, Holders, Content, Shown, None, Abstract!Absent

\* How many operations the mapping counts as applied.
LEMMA CountOfApplied ==
    /\ cur = Idle => AppliedOps = next - FirstOp
    /\ cur.num # None => AppliedOps = IF TookEffect THEN next - FirstOp ELSE next - FirstOp - 1
    /\ cur' = Idle => AppliedOps' = next' - FirstOp
    /\ cur'.num # None => AppliedOps' = IF TookEffect' THEN next' - FirstOp ELSE next' - FirstOp - 1
BY DEF AppliedOps, Idle

\* A step that applies operation n to its point and changes no other point.
LEMMA AppliesAbstractly ==
    ASSUME TypeInv, NEW n \in Nat, FirstOp <= n, n < NextNum, log' = log,
           AppliedOps = n - FirstOp, AppliedOps' = n + 1 - FirstOp,
           \A q \in Points : q # Op(n).point => VisibleIn(mem')[q] = VisibleIn(mem)[q],
           VisibleIn(mem')[Op(n).point]
               = Abstract!Effect(Op(n).kind, n, VisibleIn(mem)[Op(n).point])
    PROVE  Abstract!Apply
<1> DEFINE p == Op(n).point
<1>1. FirstOp \in Nat /\ Len(log) \in Nat /\ log \in Seq(Ops)
  BY OpsAssumption DEF TypeInv, TypeOK
<1>2. AppliedOps < Len(log) /\ AppliedOps' = AppliedOps + 1
      /\ FirstOp + AppliedOps = n /\ AppliedOps + 1 = n - FirstOp + 1
      /\ n - FirstOp + 1 \in 1 .. Len(log)
  BY <1>1 DEF NextNum
<1>3. log[AppliedOps + 1] = Op(n) /\ p \in Points
  <2>1. log[AppliedOps + 1] = Op(n)
    BY <1>2, Zenon DEF Op
  <2>2. Op(n) \in Ops
    BY <1>1, <1>2 DEF Op
  <2> QED BY <2>1, <2>2, Zenon DEF Ops
<1>4. VisibleIn(mem') = [VisibleIn(mem) EXCEPT ![p] = Abstract!Effect(Op(n).kind, n, @)]
  <2> DEFINE V == VisibleIn(mem)
             W == VisibleIn(mem')
             e == Abstract!Effect(Op(n).kind, n, V[p])
  <2>1. V = [q \in Points |-> V[q]] /\ W = [q \in Points |-> W[q]]
    BY DEF VisibleIn
  <2>2. W[p] = e /\ \A q \in Points : q # p => W[q] = V[q]
    BY Zenon
  <2> HIDE DEF V, W, e, p
  <2>3. W = [V EXCEPT ![p] = e]
    BY <1>3, <2>1, <2>2, Zenon
  <2> QED BY <2>3, Zenon DEF V, W, e, p
<1> QED BY <1>2, <1>3, <1>4, VisibleIsVisible, Zenon DEF Abstract!Apply

\* Every step of the running shard is a step of PointStore or changes nothing
\* that is visible.
LEMMA RefineStep ==
    ASSUME TypeInv, TypeInv', HomeInv, HomeInv', RunInvBeforeCrash, [Next]_vars, crashes' = 0
    PROVE  Abstract!Next \/ UNCHANGED Abstract!pvars
<1>0. /\ crashes = 0 /\ RunInv /\ ~ Crash
      /\ next \in Nat /\ FirstOp \in Nat
      /\ \A s \in Segments : /\ mem[s] \in SegmentState
                             /\ mem[s].version \in Version /\ mem[s].mapping \subseteq Points
                             /\ \A p \in Points : mem[s].versions[p] \in Version
  BY NoCrash, OpsAssumption, SMTT(30) DEF RunInvBeforeCrash, TypeInv, TypeOK, SegmentState
<1>a. OneHome(mem) /\ OneHome(mem')
  BY Zenon DEF HomeInv, OneHome
<1>1. ASSUME NEW op \in Ops, Write(op) PROVE Abstract!Write(op)
  <2>1. cur.num # None => Op(cur.num)' = Op(cur.num)
    BY <1>1, OpStable, Zenon DEF Write
  <2>2. AppliedOps' = AppliedOps
    <3>1. cur.num # None => TookEffect' = TookEffect
      BY <1>1, <2>1, Zenon DEF Write, TookEffect, Holders
    <3> QED BY <1>0, <1>1, <3>1, CountOfApplied DEF Write, RunInv
  <2> QED BY <1>1, <2>2, VisibleIsVisible, Zenon DEF Write, Abstract!Write
<1>2. CASE StartOp
  <2> DEFINE n == next
             p == Op(next).point
  <2>1. /\ cur = Idle /\ cur'.num = n /\ cur'.num # None /\ ~ cur'.found /\ cur'.num \in Nat
        /\ next' = next + 1 /\ mem' = mem /\ log' = log /\ n < NextNum /\ FirstOp <= n
    BY <1>0, <1>2 DEF StartOp, TypeInv, Bounds, None
  <2>2. TookEffect' <=> Op(n).kind = "delete" /\ Holders(p) = {}
    BY <2>1, Zenon DEF TookEffect, Holders, Op
  <2>3. CASE ~ TookEffect'
    BY <1>0, <2>1, <2>3, CountOfApplied, VisibleIsVisible DEF Abstract!pvars
  <2>4. CASE TookEffect'
    <3>1. n - FirstOp + 1 \in 1 .. Len(log)
      BY <1>0, <2>1 DEF NextNum, TypeInv, TypeOK
    <3>2. p \in Points
      <4>1. Op(n) \in Ops
        BY <3>1 DEF Op, TypeInv, TypeOK
      <4> QED BY <4>1, Zenon DEF Ops
    <3>3. VisibleIn(mem)[p] = Abstract!Absent
      BY <1>a, <2>2, <2>4, <3>2, VisibleAtHome, Zenon DEF Holders
    <3>4. AppliedOps = n - FirstOp /\ AppliedOps' = n + 1 - FirstOp
      BY <1>0, <2>1, <2>4, CountOfApplied
    <3>5. Abstract!Effect(Op(n).kind, n, VisibleIn(mem)[p]) = Abstract!Absent
      BY <2>2, <2>4, Zenon DEF Abstract!Effect
    <3>6. Abstract!Apply
      BY <1>0, <2>1, <3>3, <3>4, <3>5, AppliesAbstractly, Zenon
    <3> QED BY <3>6, Zenon DEF Abstract!Next
  <2> QED BY <2>3, <2>4, Zenon
<1>3. ASSUME NEW s \in Segments, VisitMiss(s) PROVE UNCHANGED Abstract!pvars
  <2>1. /\ Op(cur.num)' = Op(cur.num) /\ cur'.num = cur.num /\ cur'.found = cur.found /\ cur.num # None
        /\ mem' = mem /\ log' = log /\ next' = next
    BY <1>3, Zenon DEF VisitMiss, Op, TypeInv, TypeOK, Bounds
  <2>2. TookEffect' = TookEffect
    BY <2>1, Zenon DEF TookEffect, Holders
  <2> QED BY <2>1, <2>2, CountOfApplied, VisibleIsVisible, Zenon DEF Abstract!pvars
<1>4. ASSUME NEW s \in Segments, VisitApplied(s) PROVE UNCHANGED Abstract!pvars
  <2>1. /\ cur'.found /\ cur'.num = cur.num /\ cur.num # None
        /\ mem' = mem /\ log' = log /\ next' = next
    BY <1>4, Zenon DEF VisitApplied, TypeInv, TypeOK, Bounds
  <2>2. cur.found
    <3>1. /\ mem[s].versions[Op(cur.num).point] >= cur.num
          /\ Op(cur.num).point \in mem[s].mapping /\ Op(cur.num).kind # "delete"
      BY <1>4, Zenon DEF VisitApplied
    <3>2. cur.num \in Nat
      BY <2>1, OpInLog, Zenon
    <3> QED BY <1>0, <2>1, <3>1, <3>2 DEF RunInv, Version, None
  <2>3. TookEffect' /\ TookEffect
    BY <2>1, <2>2, Zenon DEF TookEffect
  <2> QED BY <2>1, <2>3, CountOfApplied, VisibleIsVisible, Zenon DEF Abstract!pvars
<1>5. CASE Finish
  <2>1. cur.num # None /\ cur.todo = {} /\ cur' = Idle /\ mem' = mem /\ log' = log /\ next' = next
        /\ (Op(cur.num).kind # "upsert" \/ cur.found)
    BY <1>5, Zenon DEF Finish
  <2>2. CASE TookEffect
    BY <2>1, <2>2, CountOfApplied, VisibleIsVisible, Zenon DEF Abstract!pvars
  <2>3. CASE ~ TookEffect
    <3> DEFINE n == cur.num
               p == Op(cur.num).point
    <3>1. n \in Nat /\ p \in Points /\ Op(n).kind \in AllOpKinds
      BY <2>1, OpInLog, Zenon
    <3>2. ~ cur.found /\ \A s \in Segments : p \notin mem[s].mapping
      BY <1>0, <2>1, <2>3, Zenon DEF TookEffect, RunInv
    <3>3. Op(n).kind \in {"set_payload", "overwrite_payload", "clear_payload"}
      BY <2>1, <2>3, <3>1, <3>2, Zenon DEF AllOpKinds, TookEffect, Holders
    <3>4. VisibleIn(mem)[p] = Abstract!Absent
      BY <1>a, <3>1, <3>2, VisibleAtHome, Zenon
    <3>5. Abstract!Effect(Op(n).kind, n, VisibleIn(mem)[p]) = Abstract!Absent
      <4>1. 0 \in Nat
        BY Zenon
      <4> QED BY <3>3, <3>4, <4>1, EffectOfKind, Zenon
    <3>6. n = next - 1 /\ FirstOp <= n /\ n < NextNum
      BY <1>0, <2>1, Zenon DEF RunInv, TypeInv, Bounds
    <3>7. AppliedOps = n - FirstOp /\ AppliedOps' = n + 1 - FirstOp
      BY <1>0, <2>1, <2>3, <3>6, CountOfApplied
    <3>8. Abstract!Apply
      BY <2>1, <3>1, <3>4, <3>5, <3>6, <3>7, AppliesAbstractly, Zenon
    <3> QED BY <3>8, Zenon DEF Abstract!Next
  <2> QED BY <2>2, <2>3, Zenon
<1>6. ASSUME mem' = mem, cur' = cur, log' = log, next' = next PROVE UNCHANGED Abstract!pvars
  <2>1. AppliedOps' = AppliedOps
    BY <1>6, Zenon DEF AppliedOps, TookEffect, Holders, Op
  <2> QED BY <1>6, <2>1, VisibleIsVisible, Zenon DEF Abstract!pvars
<1>7. ~ ReplayDone /\ ~ Ready
  BY <1>0, Zenon DEF RunInv, ReplayDone, Ready
<1>8. ASSUME NEW s \in Segments, VisitDelete(s) PROVE Abstract!Apply
  <2> DEFINE n == cur.num
             p == Op(cur.num).point
  <2>1. cur.num # None /\ ~ cur.found /\ FirstOp <= n /\ n < NextNum
    BY <1>0, <1>8, Zenon DEF VisitDelete, TypeInv, Bounds, RunInv
  <2>2. n \in Nat /\ p \in Points /\ n = next - 1
    BY <1>0, <2>1, OpInLog, Zenon DEF RunInv
  <2>3. /\ mem' = [mem EXCEPT ![s] = DeletePoint(mem[s], n, p)]
        /\ p \in mem[s].mapping /\ Op(n).kind = "delete" /\ cur' = [cur EXCEPT !.todo = @ \ {s}]
        /\ log' = log /\ next' = next
    BY <1>8, Zenon DEF VisitDelete
  <2>4. mem[s].versions[p] <= n
    BY <1>0, <2>2, <2>3 DEF RunInv, Version, None
  <2>5. /\ mem'[s].mapping = mem[s].mapping \ {p}
        /\ \A q \in Points : q # p => Shown(mem'[s], q) = Shown(mem[s], q)
        /\ \A t \in Segments : t # s => mem'[t] = mem[t]
    BY <1>0, <2>2, <2>3, <2>4, DeleteShows DEF Shown, TypeInv, TypeOK
  <2>6. \A t \in Segments : p \notin mem'[t].mapping
    BY <2>3, <2>5 DEF HomeInv
  <2>7. VisibleIn(mem')[p] = Abstract!Absent
    BY <1>a, <2>2, <2>6, VisibleAtHome, Zenon
  <2>8. \A q \in Points : q # p => VisibleIn(mem')[q] = VisibleIn(mem)[q]
    BY <1>a, <2>5, VisibleOfOthers
  <2>9. AppliedOps = n - FirstOp /\ AppliedOps' = n + 1 - FirstOp
    <3>1. ~ TookEffect
      BY <2>1, <2>3, Zenon DEF TookEffect, Holders
    <3>2. TookEffect' /\ cur'.num = cur.num
      BY <2>3, <2>6, Zenon DEF TookEffect, Holders, Op, TypeInv, TypeOK
    <3> QED BY <1>0, <2>1, <2>2, <2>3, <3>1, <3>2, CountOfApplied
  <2>10. Abstract!Effect(Op(n).kind, n, VisibleIn(mem)[p]) = Abstract!Absent
    BY <2>3, Zenon DEF Abstract!Effect
  <2> QED BY <2>1, <2>2, <2>3, <2>7, <2>8, <2>9, <2>10, AppliesAbstractly, Zenon
<1>9. ASSUME NEW s \in Segments, VisitUpdate(s) PROVE Abstract!Apply
  <2> DEFINE n == cur.num
             p == Op(cur.num).point
             new == Modify(mem[s], n)
  <2>1. cur.num # None /\ FirstOp <= n /\ n < NextNum
    BY <1>9, Zenon DEF VisitUpdate, TypeInv, Bounds
  <2>2. n \in Nat /\ p \in Points /\ n = next - 1
    BY <1>0, <2>1, OpInLog, Zenon DEF RunInv
  <2>3. /\ mem' = [mem EXCEPT ![s] = new]
        /\ p \in mem[s].mapping /\ Op(n).kind # "delete" /\ mem[s].versions[p] < n
        /\ log' = log /\ next' = next
    BY <1>9, Zenon DEF VisitUpdate
  <2>4. cur'.num = n /\ cur'.found
    BY <1>9, Zenon DEF VisitUpdate, TypeInv, TypeOK
  <2>5. ~ cur.found
    BY <1>0, <2>1, <2>2, <2>3, SMTT(30) DEF RunInv, Version, None
  <2>6. mem[s].version <= n /\ mem[s].versions[p] <= n /\ mem[s].vectors[p] \in Nat
    BY <1>0, <2>1, <2>2, <2>3, <2>5, SMTT(30) DEF RunInv, Version, None
  <2>7. Touched(mem[s], new, n, p)
    BY <1>0, <2>1, <2>3, <2>6, ModifyTouches, Zenon
  <2>8. Shown(new, p) = Abstract!Effect(Op(n).kind, n, Shown(mem[s], p))
    BY <1>0, <2>1, <2>3, <2>6, ModifyEffect, Zenon
  <2>9. mem'[s] = new /\ \A t \in Segments : t # s => mem'[t] = mem[t]
    BY <2>3, Zenon DEF TypeInv, TypeOK
  <2> HIDE DEF new
  <2>10. VisibleIn(mem')[p] = Shown(new, p) /\ VisibleIn(mem)[p] = Shown(mem[s], p)
    <3>1. p \in mem'[s].mapping
      BY <2>7, <2>9, Zenon DEF Touched
    <3>2. VisibleIn(mem')[p] = Shown(mem'[s], p)
      BY <1>a, <2>2, <3>1, VisibleAtHome, Zenon
    <3>3. VisibleIn(mem)[p] = Shown(mem[s], p)
      BY <1>a, <2>2, <2>3, VisibleAtHome, Zenon
    <3> QED BY <2>9, <3>2, <3>3, Zenon
  <2>11. \A q \in Points : q # p => VisibleIn(mem')[q] = VisibleIn(mem)[q]
    <3>1. \A q \in Points : q # p => /\ q \in new.mapping <=> q \in mem[s].mapping
                                     /\ Shown(new, q) = Shown(mem[s], q)
      BY <2>7, Zenon DEF Touched, Shown
    <3> QED BY <1>a, <2>9, <3>1, VisibleOfOthers, Zenon
  <2>12. AppliedOps = n - FirstOp /\ AppliedOps' = n + 1 - FirstOp
    <3>1. ~ TookEffect /\ TookEffect'
      BY <2>3, <2>4, <2>5, Zenon DEF TookEffect
    <3> QED BY <1>0, <2>1, <2>2, <2>3, <2>4, <3>1, CountOfApplied, SMTT(30)
  <2> QED BY <2>1, <2>2, <2>3, <2>8, <2>10, <2>11, <2>12, AppliesAbstractly, Zenon
<1>10. ASSUME NEW s \in Segments, NEW a \in Appendable, VisitMove(s, a) PROVE Abstract!Apply
  <2> DEFINE n == cur.num
             p == Op(cur.num).point
             moved == MovedInto(mem[a], mem[s], n, p)
             new == Modify(moved, n)
  <2>1. cur.num # None /\ a \in Segments /\ a # s /\ FirstOp <= n /\ n < NextNum
    BY <1>10, SegmentsAssumption, Zenon DEF VisitMove, TypeInv, Bounds
  <2>2. n \in Nat /\ p \in Points /\ n = next - 1
    BY <1>0, <2>1, OpInLog, Zenon DEF RunInv
  <2>3. /\ p \in mem[s].mapping /\ Op(n).kind # "delete" /\ mem[s].versions[p] < n
        /\ log' = log /\ next' = next
    BY <1>10, Zenon DEF VisitMove
  <2>4. cur'.num = n /\ cur'.found
    BY <1>10, Zenon DEF VisitMove, TypeInv, TypeOK
  <2>5. ~ cur.found
    BY <1>0, <2>1, <2>2, <2>3, SMTT(30) DEF RunInv, Version, None
  <2>6. /\ mem[s].versions[p] <= n /\ mem[s].vectors[p] \in Nat
        /\ mem[a].version <= n /\ p \notin mem[a].mapping
    BY <1>0, <2>1, <2>2, <2>3, <2>5, SMTT(30) DEF RunInv, HomeInv, Version, None
  <2>7. /\ moved \in SegmentState /\ Touched(mem[a], moved, n, p)
        /\ Shown(moved, p) = Shown(mem[s], p)
    BY <1>0, <2>1, <2>2, <2>6, MovedIntoType, MoveTouches, MoveShows, Zenon
  <2> HIDE DEF moved
  <2>8. moved.version <= n /\ p \in moved.mapping /\ moved.versions[p] <= n /\ moved.vectors[p] \in Nat
    BY <2>2, <2>6, <2>7 DEF Touched, Shown
  <2>9. /\ Touched(moved, new, n, p)
        /\ Shown(new, p) = Abstract!Effect(Op(n).kind, n, Shown(mem[s], p))
    <3>1. Touched(moved, new, n, p)
      BY <2>1, <2>3, <2>7, <2>8, ModifyTouches, Zenon
    <3>2. Shown(new, p) = Abstract!Effect(Op(n).kind, n, Shown(moved, p))
      BY <2>1, <2>3, <2>7, <2>8, ModifyEffect, Zenon
    <3> QED BY <2>7, <3>1, <3>2, Zenon
  <2>10. mem' = [mem EXCEPT ![a] = new, ![s] = DeletePoint(mem[s], n, p)]
    BY <1>10, <2>1, Zenon DEF VisitMove, moved, TypeInv, TypeOK
  <2> HIDE DEF new
  <2>11. Touched(mem[a], new, n, p)
    BY <2>2, <2>7, <2>9, TouchedTwice, Zenon
  <2>12. mem'[a] = new /\ mem'[s] = DeletePoint(mem[s], n, p)
         /\ \A t \in Segments : t # s /\ t # a => mem'[t] = mem[t]
    BY <2>1, <2>10, Zenon DEF TypeInv, TypeOK
  <2>13. /\ mem'[s].mapping = mem[s].mapping \ {p}
         /\ \A q \in Points : q # p => Shown(mem'[s], q) = Shown(mem[s], q)
    BY <1>0, <2>2, <2>3, <2>6, <2>12, DeleteShows, SMTT(30) DEF Shown
  <2>14. VisibleIn(mem')[p] = Shown(new, p) /\ VisibleIn(mem)[p] = Shown(mem[s], p)
    BY <1>a, <2>1, <2>2, <2>3, <2>11, <2>12, VisibleAtHome, SMTT(30) DEF Touched
  <2>15. \A q \in Points : q # p => VisibleIn(mem')[q] = VisibleIn(mem)[q]
    <3>1. \A q \in Points : q # p => /\ q \in new.mapping <=> q \in mem[a].mapping
                                     /\ Shown(new, q) = Shown(mem[a], q)
      BY <2>11, Zenon DEF Touched, Shown
    <3>2. ASSUME NEW q \in Points, q # p, NEW t \in Segments
          PROVE  /\ q \in mem'[t].mapping <=> q \in mem[t].mapping
                 /\ Shown(mem'[t], q) = Shown(mem[t], q)
      BY <2>12, <2>13, <3>1, <3>2, Zenon
    <3> QED BY <1>a, <3>2, VisibleOfOthers, Zenon
  <2>16. AppliedOps = n - FirstOp /\ AppliedOps' = n + 1 - FirstOp
    <3>1. ~ TookEffect /\ TookEffect'
      BY <2>3, <2>4, <2>5, Zenon DEF TookEffect
    <3> QED BY <1>0, <2>1, <2>2, <2>3, <2>4, <3>1, CountOfApplied, SMTT(30)
  <2> QED BY <2>1, <2>2, <2>3, <2>9, <2>14, <2>15, <2>16, AppliesAbstractly, Zenon
<1>11. ASSUME NEW a \in Appendable, FinishInsert(a) PROVE Abstract!Apply
  <2> DEFINE n == cur.num
             p == Op(cur.num).point
             new == Modify(mem[a], n)
  <2>1. /\ cur.num # None /\ a \in Segments /\ ~ cur.found /\ Op(n).kind = "upsert" /\ cur.todo = {}
        /\ FirstOp <= n /\ n < NextNum
    BY <1>11, SegmentsAssumption, Zenon DEF FinishInsert, TypeInv, Bounds
  <2>2. n \in Nat /\ p \in Points /\ n = next - 1
    BY <1>0, <2>1, OpInLog, Zenon DEF RunInv
  <2>3. /\ mem' = [mem EXCEPT ![a] = new] /\ cur' = Idle
        /\ log' = log /\ next' = next
    BY <1>11, Zenon DEF FinishInsert, Modify
  <2>4. mem[a].version <= n /\ \A t \in Segments : p \notin mem[t].mapping
    BY <1>0, <2>1, <2>2, SMTT(30) DEF RunInv, Version, None
  <2>5. Touched(mem[a], new, n, p)
    BY <1>0, <2>1, <2>4, ModifyTouches, Zenon
  <2>6. Shown(new, p) = Abstract!Effect(Op(n).kind, n, Abstract!Absent)
    BY <1>0, <2>1, <2>4, ModifyEffect, Zenon
  <2> HIDE DEF new
  <2>7. mem'[a] = new /\ \A t \in Segments : t # a => mem'[t] = mem[t]
    BY <2>1, <2>3, Zenon DEF TypeInv, TypeOK
  <2>8. VisibleIn(mem')[p] = Shown(new, p) /\ VisibleIn(mem)[p] = Abstract!Absent
    BY <1>a, <2>1, <2>2, <2>4, <2>5, <2>7, VisibleAtHome, SMTT(30) DEF Touched
  <2>9. \A q \in Points : q # p => VisibleIn(mem')[q] = VisibleIn(mem)[q]
    <3>1. \A q \in Points : q # p => /\ q \in new.mapping <=> q \in mem[a].mapping
                                     /\ Shown(new, q) = Shown(mem[a], q)
      BY <2>5, Zenon DEF Touched, Shown
    <3> QED BY <1>a, <2>7, <3>1, VisibleOfOthers, Zenon
  <2>10. AppliedOps = n - FirstOp /\ AppliedOps' = n + 1 - FirstOp
    <3>1. ~ TookEffect
      BY <2>1, Zenon DEF TookEffect
    <3> QED BY <1>0, <2>1, <2>2, <2>3, <3>1, CountOfApplied
  <2> QED BY <2>1, <2>2, <2>3, <2>6, <2>8, <2>9, <2>10, AppliesAbstractly, Zenon
<1>12. ASSUME NEW s \in Segments, FlushVisit(s) PROVE UNCHANGED Abstract!pvars
  BY <1>6, <1>12, Zenon DEF FlushVisit
<1> QED
  BY <1>0, <1>1, <1>2, <1>3, <1>4, <1>5, <1>6, <1>7, <1>8, <1>9, <1>10, <1>11, <1>12, Zenon
  DEF Next, ApplyStep, FlushStep, BeginFlush, EndFlush, FlushColumn, SnapshotFlush, vars,
      Abstract!Next

\* At the start the points are those the optimizers have placed.
LEMMA RefineInit == TypeInv /\ HomeInv /\ Init => Abstract!Init
<1> SUFFICES ASSUME TypeInv, HomeInv, Init PROVE Abstract!Init
  BY Zenon
<1>1. log = <<>> /\ AppliedOps = 0
  BY OpsAssumption, CountOfApplied DEF Init
<1>2. \A s \in Segments : mem[s] = SegmentOf(Placed[s], IF s \in Appendable THEN None ELSE 0)
                          /\ Placed[s] \in SUBSET Points
  BY SegmentsAssumption, Zenon DEF Init
<1>3. ASSUME NEW s \in Segments
      PROVE  /\ mem[s].mapping = Placed[s]
             /\ \A p \in Placed[s] : Shown(mem[s], p) = [vec |-> 0, payload |-> {0}]
  <2> DEFINE v == IF s \in Appendable THEN None ELSE 0
             P == Placed[s]
  <2>1. mem[s] = SegmentOf(P, v) /\ P \in SUBSET Points
    BY <1>2, Zenon
  <2> HIDE DEF v, P
  <2>2. /\ SegmentOf(P, v).mapping = P
        /\ \A p \in P : Shown(SegmentOf(P, v), p) = [vec |-> 0, payload |-> {0}]
    BY <2>1, SegmentOfPoints, Zenon
  <2> QED BY <2>1, <2>2, Zenon DEF P
<1>4. OneHome(mem)
  BY Zenon DEF HomeInv, OneHome
<1>5. ASSUME NEW p \in Points PROVE VisibleIn(mem)[p] = StartPoints[p]
  <2>1. CASE \E s \in Segments : p \in Placed[s]
    <3>1. PICK s \in Segments : p \in Placed[s]
      BY <2>1, Zenon
    <3> QED BY <1>3, <1>4, <3>1, VisibleAtHome, Zenon DEF StartPoints
  <2>2. CASE \A s \in Segments : p \notin Placed[s]
    BY <1>3, <1>4, <2>2, VisibleAtHome, Zenon DEF StartPoints, Abstract!Absent, None
  <2> QED BY <2>1, <2>2, Zenon
<1>6. VisibleIn(mem) = StartPoints
  <2>1. VisibleIn(mem) = [p \in Points |-> VisibleIn(mem)[p]]
    BY DEF VisibleIn
  <2>2. StartPoints = [p \in Points |-> StartPoints[p]]
    BY Zenon DEF StartPoints
  <2> QED BY <1>5, <2>1, <2>2, Zenon
<1> QED BY <1>1, <1>6, VisibleIsVisible, Zenon DEF Abstract!Init

\* Until its first crash the storage of a shard is a PointStore: whatever the
\* segments, the moves between them, the flushes and the snapshots, a reader sees
\* the operations of the WAL take effect one at a time, in order, each on the
\* whole of its point.
THEOREM ImplementsPointStore == Spec => StepsOfPointStore
<1> DEFINE Inv == TypeInv /\ HomeInv /\ RunInvBeforeCrash
           Step == crashes' = 0 => Abstract!Next \/ UNCHANGED Abstract!pvars
<1>1. Init => Inv /\ Abstract!Init
  BY TypeInit, HomeInit, RunInit, RefineInit, Zenon DEF RunInvBeforeCrash
<1>2. Inv /\ [Next]_vars => Inv'
  BY TypeStep, HomeStep, RunStep, Zenon
<1>3. Inv /\ Inv' /\ [Next]_vars => [Step]_vars
  BY RefineStep, Zenon
<1> QED BY <1>1, <1>2, <1>3, PTL DEF Spec, StepsOfPointStore

-----------------------------------------------------------------------------
(* The reference, operation by operation                                   *)

\* Induction over the natural numbers, from the well-founded order of them
LEMMA Least == ASSUME NEW T \in SUBSET Nat, T # {} PROVE \E n \in T : \A m \in T : n <= m
<1> DEFINE R == OpToRel(<, Nat)
<1>1. IsWellFoundedOn(R, Nat)
  BY NatLessThanWellFounded, Zenon
<1>2. \A x, y \in Nat : <<y, x>> \in R <=> y < x
  BY Zenon DEF OpToRel
<1> HIDE DEF R
<1>3. PICK x \in T : \A y \in T : ~ (<<y, x>> \in R)
  BY <1>1, WFMin, Zenon
<1>4. \A y \in T : ~ (y < x)
  BY <1>2, <1>3, Zenon
<1> QED BY <1>4

\* What holds of 0 and goes on from n to n + 1 holds of every number.
LEMMA InductionOnNat ==
    ASSUME NEW S, 0 \in S, \A n \in Nat : n \in S => n + 1 \in S
    PROVE  Nat \subseteq S
<1> SUFFICES ASSUME NEW m \in Nat, m \notin S PROVE FALSE
  BY Zenon
<1> DEFINE T == {n \in Nat : n \notin S}
<1>1. PICK n \in T : \A k \in T : n <= k
  BY Least, Zenon
<1>2. n # 0 /\ n - 1 \in Nat /\ n - 1 \notin T
  BY <1>1
<1> QED BY <1>1, <1>2

\* f is the function that the definition of PointStore's After chooses.
Unfolds(ops, k, f) ==
    f = [i \in 0 .. k |-> IF i = 0 THEN StartPoints
                          ELSE [f[i - 1] EXCEPT ![ops[i].point] = Abstract!Effect(ops[i].kind, FirstOp + i - 1, @)]]

\* One operation
StepOf(ops, i, store0) ==
    [store0 EXCEPT ![ops[i].point] = Abstract!Effect(ops[i].kind, FirstOp + i - 1, @)]

\* Such a function starts with the points at the beginning and makes one operation a step.
LEMMA UnfoldsAt ==
    ASSUME NEW ops, NEW k \in Nat, NEW f, Unfolds(ops, k, f)
    PROVE  f[0] = StartPoints /\ \A i \in 1 .. k : f[i] = StepOf(ops, i, f[i - 1])
<1> DEFINE h == [i \in 0 .. k |-> IF i = 0 THEN StartPoints ELSE StepOf(ops, i, f[i - 1])]
<1>1. f = h
  BY Zenon DEF Unfolds, StepOf
<1>2. h[0] = StartPoints /\ \A i \in 1 .. k : h[i] = StepOf(ops, i, f[i - 1])
  OBVIOUS
<1> HIDE DEF h
<1> QED BY <1>1, <1>2, Zenon

\* It can be continued by an operation.
LEMMA UnfoldsExtends ==
    ASSUME NEW ops, NEW k \in Nat, NEW f, Unfolds(ops, k, f)
    PROVE  \E g : Unfolds(ops, k + 1, g)
<1> DEFINE g == [i \in 0 .. k + 1 |-> IF i <= k THEN f[i] ELSE StepOf(ops, k + 1, f[k])]
           h == [i \in 0 .. k + 1 |-> IF i = 0 THEN StartPoints ELSE StepOf(ops, i, g[i - 1])]
<1>1. \A i \in 0 .. k + 1 : g[i] = h[i]
  <2> SUFFICES ASSUME NEW i \in 0 .. k + 1 PROVE g[i] = h[i]
    BY Zenon
  <2>1. CASE i = 0
    BY <2>1, UnfoldsAt
  <2>2. CASE i \in 1 .. k
    <3>1. g[i] = f[i] /\ g[i - 1] = f[i - 1] /\ i # 0
      BY <2>2
    <3> QED BY <2>2, <3>1, UnfoldsAt
  <2>3. CASE i = k + 1
    <3>1. g[i] = StepOf(ops, k + 1, f[k]) /\ g[k] = f[k] /\ i # 0 /\ i - 1 = k
      BY <2>3
    <3> QED BY <2>3, <3>1, Zenon
  <2> QED BY <2>1, <2>2, <2>3
<1>2. g = h
  BY <1>1, Zenon
<1>3. Unfolds(ops, k + 1, g)
  BY <1>2, Zenon DEF Unfolds, StepOf
<1> QED BY <1>3, Zenon

\* So there is one for every number of operations.
LEMMA UnfoldsExists == ASSUME NEW ops, NEW k \in Nat PROVE \E f : Unfolds(ops, k, f)
<1> DEFINE S == {n \in Nat : \E f : Unfolds(ops, n, f)}
<1>1. 0 \in S
  <2> DEFINE f == [i \in 0 .. 0 |-> StartPoints]
  <2>1. Unfolds(ops, 0, f)
    BY DEF Unfolds
  <2> QED BY <2>1, Zenon
<1>2. ASSUME NEW n \in Nat, n \in S PROVE n + 1 \in S
  BY <1>2, UnfoldsExtends
<1> HIDE DEF S
<1>3. Nat \subseteq S
  BY <1>1, <1>2, InductionOnNat, Zenon
<1> QED BY <1>3, Zenon DEF S

\* After is its last value.
LEMMA AfterUnfolds ==
    ASSUME NEW ops, NEW k \in Nat
    PROVE  \E f : Unfolds(ops, k, f) /\ Abstract!After(ops, k) = f[k]
BY UnfoldsExists, Zenon DEF Abstract!After, Unfolds

\* Only the first operations count
SameStart(ops, more, k) == \A i \in 1 .. k : ops[i] = more[i]

\* Two of them agree as long as the operations do.
LEMMA UnfoldsAgree ==
    ASSUME NEW ops, NEW more, NEW k \in Nat, NEW m \in Nat, k <= m, SameStart(ops, more, k),
           NEW f, Unfolds(ops, k, f), NEW g, Unfolds(more, m, g)
    PROVE  \A i \in 0 .. k : f[i] = g[i]
<1> DEFINE S == {n \in Nat : n <= k => f[n] = g[n]}
<1>0. f[0] = StartPoints /\ g[0] = StartPoints
  BY UnfoldsAt, Zenon
<1>1. 0 \in S
  BY <1>0, Zenon
<1>2. ASSUME NEW n \in Nat, n \in S PROVE n + 1 \in S
  <2> SUFFICES ASSUME n + 1 <= k PROVE f[n + 1] = g[n + 1]
    OBVIOUS
  <2>1. n + 1 \in 1 .. k /\ n + 1 \in 1 .. m /\ (n + 1) - 1 = n /\ n <= k
    OBVIOUS
  <2>5. f[n] = g[n]
    BY <1>2, <2>1, Zenon
  <2>4. /\ \A i \in 1 .. k : f[i] = StepOf(ops, i, f[i - 1])
        /\ \A i \in 1 .. m : g[i] = StepOf(more, i, g[i - 1])
    BY UnfoldsAt, Zenon
  <2>2. f[n + 1] = StepOf(ops, n + 1, f[n]) /\ g[n + 1] = StepOf(more, n + 1, g[n])
    BY <2>1, <2>4, Zenon
  <2>3. ops[n + 1] = more[n + 1]
    BY <2>1, Zenon DEF SameStart
  <2> QED BY <2>5, <2>2, <2>3, Zenon DEF StepOf
<1> HIDE DEF S
<1>3. Nat \subseteq S
  BY <1>1, <1>2, InductionOnNat, Zenon
<1> QED BY <1>3 DEF S

\* Before the first operation
LEMMA AfterStart == ASSUME NEW ops PROVE Abstract!After(ops, 0) = StartPoints
BY AfterUnfolds, UnfoldsAt, Zenon

\* One operation further
LEMMA AfterStep ==
    ASSUME NEW ops, NEW k \in Nat
    PROVE  Abstract!After(ops, k + 1) = StepOf(ops, k + 1, Abstract!After(ops, k))
<1>1. PICK m \in Nat : m = k + 1
  OBVIOUS
<1>2. PICK f : Unfolds(ops, k, f) /\ Abstract!After(ops, k) = f[k]
  BY AfterUnfolds, Zenon
<1>3. PICK g : Unfolds(ops, m, g) /\ Abstract!After(ops, m) = g[m]
  BY AfterUnfolds, Zenon
<1>4. k <= m /\ k \in 0 .. k /\ m \in 1 .. m /\ m - 1 = k
  BY <1>1
<1>5. f[k] = g[k]
  <2>1. SameStart(ops, ops, k)
    BY Zenon DEF SameStart
  <2>2. \A i \in 0 .. k : f[i] = g[i]
    BY <1>2, <1>3, <1>4, <2>1, UnfoldsAgree, SMTT(30)
  <2> QED BY <1>4, <2>2, Zenon
<1>6. g[m] = StepOf(ops, m, g[m - 1])
  BY <1>3, <1>4, UnfoldsAt, Zenon
<1> QED BY <1>1, <1>2, <1>3, <1>4, <1>5, <1>6, Zenon

\* Operations that are written later do not change what the earlier ones left.
LEMMA AfterPrefix ==
    ASSUME NEW ops, NEW more, NEW k \in Nat, SameStart(ops, more, k)
    PROVE  Abstract!After(ops, k) = Abstract!After(more, k)
<1>1. PICK f : Unfolds(ops, k, f) /\ Abstract!After(ops, k) = f[k]
  BY AfterUnfolds, Zenon
<1>2. PICK g : Unfolds(more, k, g) /\ Abstract!After(more, k) = g[k]
  BY AfterUnfolds, Zenon
<1>3. k <= k /\ k \in 0 .. k
  OBVIOUS
<1>4. \A i \in 0 .. k : f[i] = g[i]
  BY <1>1, <1>2, <1>3, UnfoldsAgree, SMTT(30)
<1> QED BY <1>1, <1>2, <1>3, <1>4, Zenon

-----------------------------------------------------------------------------
(* What the shard holds                                                    *)

\* Until the first crash the segments show what the operations applied so far leave.
LogInv ==
    crashes = 0 =>
        /\ AppliedOps \in Nat /\ AppliedOps <= Len(log)
        /\ Visible = Abstract!After(log, AppliedOps)

\* A step of PointStore goes along the reference.
LEMMA LogStep ==
    ASSUME LogInv, log \in Seq(Ops), crashes = 0, Abstract!Next \/ UNCHANGED Abstract!pvars
    PROVE  LogInv'
<1>0. AppliedOps \in Nat /\ AppliedOps <= Len(log) /\ Visible = Abstract!After(log, AppliedOps)
  BY Zenon DEF LogInv
<1>1. ASSUME NEW op \in Ops, Abstract!Write(op) PROVE LogInv'
  <2>1. log' = Append(log, op) /\ AppliedOps' = AppliedOps /\ Visible' = Visible
    BY <1>1, Zenon DEF Abstract!Write
  <2>2. Len(log') = Len(log) + 1 /\ SameStart(log, log', AppliedOps)
    BY <1>0, <2>1 DEF SameStart
  <2>3. Abstract!After(log, AppliedOps) = Abstract!After(log', AppliedOps)
    BY <1>0, <2>2, AfterPrefix, Zenon
  <2>4. AppliedOps <= Len(log')
    BY <1>0, <2>2
  <2> QED BY <1>0, <2>1, <2>3, <2>4, Zenon DEF LogInv
<1>2. CASE Abstract!Apply
  <2>1. PICK k \in Nat : k = AppliedOps
    BY <1>0, Zenon
  <2>2. /\ k < Len(log) /\ AppliedOps' = k + 1 /\ log' = log
        /\ Visible' = [Visible EXCEPT ![log[k + 1].point]
                          = Abstract!Effect(log[k + 1].kind, FirstOp + k, @)]
    BY <1>2, <2>1, Zenon DEF Abstract!Apply
  <2>3. FirstOp + (k + 1) - 1 = FirstOp + k
    BY OpsAssumption
  <2>4. Visible' = StepOf(log, k + 1, Visible)
    BY <2>2, <2>3, Zenon DEF StepOf
  <2>5. Abstract!After(log, k + 1) = StepOf(log, k + 1, Abstract!After(log, k))
    BY AfterStep, Zenon
  <2>6. k + 1 \in Nat /\ k + 1 <= Len(log)
    BY <2>2
  <2> QED BY <1>0, <2>1, <2>2, <2>4, <2>5, <2>6, Zenon DEF LogInv
<1>3. CASE UNCHANGED Abstract!pvars
  BY <1>0, <1>3, Zenon DEF LogInv, Abstract!pvars
<1> QED BY <1>1, <1>2, <1>3, Zenon DEF Abstract!Next

\* Until its first crash a shard at rest holds exactly the points that the operations
\* written so far leave, each with the vector and the payload of the last operations
\* on it, however they were spread over the segments, moved, flushed and snapshotted.
THEOREM PointsBeforeCrash == Spec => [](crashes = 0 => SamePoints /\ SameContent)
<1> DEFINE Inv == TypeInv /\ HomeInv /\ RunInvBeforeCrash /\ LogInv
<1>1. Init => Inv
  <2> SUFFICES ASSUME Init PROVE Inv
    BY Zenon
  <2>1. TypeInv /\ HomeInv /\ RunInvBeforeCrash /\ Abstract!Init
    BY TypeInit, HomeInit, RunInit, RefineInit, Zenon DEF RunInvBeforeCrash
  <2>2. log = <<>> /\ AppliedOps = 0 /\ Visible = StartPoints
    BY <2>1, Zenon DEF Abstract!Init
  <2> QED BY <2>1, <2>2, AfterStart DEF LogInv
<1>2. Inv /\ [Next]_vars => Inv'
  <2> SUFFICES ASSUME Inv, [Next]_vars PROVE Inv'
    BY Zenon
  <2>1. TypeInv' /\ HomeInv' /\ RunInvBeforeCrash'
    BY TypeStep, HomeStep, RunStep, Zenon
  <2>2. CASE crashes' = 0
    <3>1. Abstract!Next \/ UNCHANGED Abstract!pvars
      BY <2>1, <2>2, RefineStep, Zenon
    <3>2. crashes = 0 /\ log \in Seq(Ops)
      BY <2>2, NoCrash, Zenon DEF TypeInv, TypeOK
    <3> QED BY <2>1, <3>1, <3>2, LogStep, Zenon
  <2>3. CASE crashes' # 0
    BY <2>1, <2>3, Zenon DEF LogInv
  <2> QED BY <2>2, <2>3, Zenon
<1>3. Inv => (crashes = 0 => SamePoints /\ SameContent)
  <2> SUFFICES ASSUME Inv, crashes = 0, mode = "running", cur = Idle
               PROVE  /\ Visible = Abstract!After(log, next - FirstOp)
                      /\ \A p \in Points : (Holders(p) # {}) <=>
                            (Abstract!After(log, next - FirstOp)[p] # Abstract!Absent)
    BY Zenon DEF SamePoints, SameContent
  <2>1. Visible = Abstract!After(log, next - FirstOp)
    BY CountOfApplied, Zenon DEF LogInv
  <2>2. ASSUME NEW p \in Points PROVE (Holders(p) # {}) <=> Visible[p] # Abstract!Absent
    <3>1. Visible[p] = IF Holders(p) = {} THEN [vec |-> None, payload |-> {}]
                       ELSE Content(CHOOSE s \in Holders(p) : TRUE, p)
      BY Zenon DEF Visible
    <3>2. CASE Holders(p) = {}
      BY <3>1, <3>2, Zenon DEF None, Abstract!Absent
    <3>3. CASE Holders(p) # {}
      <4>1. PICK s \in Holders(p) : s = CHOOSE t \in Holders(p) : TRUE
        BY <3>3, Zenon
      <4>2. mem[s].vectors[p] \in Nat
        BY <4>1, Zenon DEF Holders, RunInvBeforeCrash, RunInv
      <4>3. Visible[p] = [vec |-> mem[s].vectors[p], payload |-> mem[s].payloads[p]]
        BY <3>1, <3>3, <4>1, Zenon DEF Content
      <4> QED BY <3>3, <4>2, <4>3 DEF Abstract!Absent
    <3> QED BY <3>2, <3>3, Zenon
  <2> QED BY <2>1, <2>2, Zenon
<1> QED BY <1>1, <1>2, <1>3, PTL DEF Spec
=============================================================================
