-------------------------- MODULE Optimizer_proofs --------------------------
(***************************************************************************)
(* The steps of an optimization keep the invariant of Optimizer_lemmas:    *)
(* wrapping the segments, building the optimized one, deleting from it     *)
(* what was deleted meanwhile, swapping it in and unwrapping.  With the    *)
(* updates, which it has the last of, that makes the theorem.              *)
(***************************************************************************)
EXTENDS Optimizer_lemmas

-----------------------------------------------------------------------------
(* Deletions and the end of an operation                                   *)

\* delete_point on an entry
LEMMA DeletedTouches ==
    ASSUME RunInv, NEW n \in Nat, n = cur.num, NEW p, p = Op(n).point, UNCHANGED <<log, next, holder, task>>,
           NEW s \in Held, mem' = Deleted(World, s, n, p).mem, deleted' = Deleted(World, s, n, p).deleted
    PROVE  /\ Touches(n, p) /\ ~ HasPoint(World, s, p)'
           /\ \A r \in Segs : Shows(r, p)' => Shows(r, p)
<1>0. RunType /\ TaskInv /\ SegInv /\ HomeInv /\ OpInv
  BY Zenon DEF RunInv
<1>1. p \in Points /\ n = next - 1 /\ s \in Segs
  BY <1>0, OpInLog DEF None, Held
<1>2. /\ mem \in [Segs -> SegmentState] /\ deleted \in [Tasks -> SUBSET Points]
  BY <1>0, Zenon DEF RunType
<1>3. ASSUME NEW g \in Segs
      PROVE  /\ DeletePoint(mem[g], n, p) \in SegmentState
             /\ p \notin DeletePoint(mem[g], n, p).mapping
             /\ DeletePoint(mem[g], n, p) = mem[g] \/ Drops(mem[g], DeletePoint(mem[g], n, p), n, p)
  <2>1. CASE p \in mem[g].mapping
    <3>1. Drops(mem[g], DeletePoint(mem[g], n, p), n, p)
      BY <1>0, <1>1, <2>1, OpenAccepts, DeletePointDrops, Zenon
    <3> QED BY <3>1, Zenon DEF Drops
  <2>2. CASE p \notin mem[g].mapping
    BY <1>2, <2>2, DeletePointKeeps
  <2> QED BY <2>1, <2>2, Zenon
<1>4. CASE ~ Proxied(s)
  <2>1. mem' = With(mem, s, DeletePoint(mem[s], n, p)) /\ deleted' = deleted
    BY <1>2, <1>4, Zenon DEF Deleted, World, With
  <2>2. Open(s)
    BY <1>0, <1>4, Zenon DEF Open, RunType, Held, Proxied
  <2>3. /\ mem'[s] = DeletePoint(mem[s], n, p) /\ \A r \in Segs \ {s} : mem'[r] = mem[r]
        /\ mem' \in [Segs -> SegmentState]
    BY <1>1, <1>2, <1>3, <2>1, Zenon DEF With
  <2>4. Touches(n, p)
    BY <1>1, <1>2, <1>3, <2>1, <2>2, <2>3, Zenon DEF Touches
  <2>5. ~ HasPoint(World, s, p)'
    BY <1>1, <1>3, <1>4, <2>3, Zenon DEF HasPoint, World, Proxied
  <2>6. \A r \in Segs : Shows(r, p)' => Shows(r, p)
    BY <1>1, <1>3, <2>1, <2>3, Zenon DEF Shows, Open, Proxied, Wrapping
  <2> QED BY <2>4, <2>5, <2>6, Zenon
<1>5. CASE Proxied(s)
  <2>1. PICK t \in Tasks, g \in Segs : t = holder[s] /\ g = Tmp(t) /\ Open(g) /\ ~ Open(s) /\ g # s /\ Wrapping(t)
    BY <1>0, <1>1, <1>5, BehindProxy, Zenon
  <2>2. /\ mem' = With(mem, g, DeletePoint(mem[g], n, p))
        /\ deleted' = With(deleted, t, IF p \in mem[s].mapping THEN deleted[t] \cup {p} ELSE deleted[t])
    BY <1>2, <1>5, <2>1, Zenon DEF Deleted, World, With
  <2>3. /\ mem'[g] = DeletePoint(mem[g], n, p) /\ \A r \in Segs \ {g} : mem'[r] = mem[r]
        /\ mem' \in [Segs -> SegmentState]
    BY <1>1, <1>2, <1>3, <2>1, <2>2 DEF With
  <2>4. /\ deleted' \in [Tasks -> SUBSET Points] /\ (p \in mem[s].mapping => p \in deleted'[t])
        /\ \A u \in Tasks : deleted'[u] = deleted[u] \/ (Wrapping(u) /\ deleted'[u] = deleted[u] \cup {p})
    BY <1>1, <1>2, <2>1, <2>2, SMTT(30) DEF With
  <2>5. Touches(n, p)
    BY <1>1, <1>2, <1>3, <2>1, <2>3, <2>4, Zenon DEF Touches
  <2>6. ~ HasPoint(World, s, p)'
    BY <1>1, <1>3, <1>5, <2>1, <2>3, <2>4, Zenon DEF HasPoint, World, Proxied
  <2>7. \A r \in Segs : Shows(r, p)' => Shows(r, p)
    BY <1>1, <1>3, <2>1, <2>3, <2>4 DEF Shows, Open, Proxied, Wrapping
  <2> QED BY <2>5, <2>6, <2>7, Zenon
<1> QED BY <1>4, <1>5, Zenon

\* A visit that deletes the point, or hides it behind the proxy.
LEMMA DeleteStep == ASSUME RunInv, NEW s \in Segs, VisitDelete(s) PROVE RunInv'
<1>0. RunType /\ TaskInv /\ SegInv /\ HomeInv /\ BuiltInv /\ OpInv /\ CopyInv
  BY Zenon DEF RunInv
<1>1. /\ s \in cur.todo /\ Op(cur.num).kind = "delete" /\ UNCHANGED <<log, next, holder, task>>
      /\ mem' = Deleted(World, s, cur.num, Op(cur.num).point).mem
      /\ deleted' = Deleted(World, s, cur.num, Op(cur.num).point).deleted
  BY Zenon DEF VisitDelete, Become
<1>2. cur' = [cur EXCEPT !.todo = @ \ {s}]
  BY <1>0, Zenon DEF VisitDelete, Visited, RunType
<1>3. s \in Held /\ cur.num # None
  BY <1>0, <1>1 DEF OpInv, Idle
<1>4. PICK n \in Nat, p \in Points : n = cur.num /\ p = Op(n).point /\ n = next - 1
  BY <1>0, <1>3, OpInLog, Zenon
<1>5. /\ Touches(n, p) /\ ~ HasPoint(World, s, p)'
      /\ \A r \in Segs : Shows(r, p)' => Shows(r, p)
  BY <1>1, <1>3, <1>4, DeletedTouches, Zenon
<1>6. TaskInv' /\ SegInv' /\ HomeInv' /\ BuiltInv'
  <2>1. \A e, r \in Segs : Shows(e, p)' /\ Shows(r, p)' => e = r
    BY <1>0, <1>5, Zenon DEF HomeInv
  <2> QED BY <1>0, <1>4, <1>5, <2>1, TouchKeeps, Zenon
<1>7. /\ cur' \in [num : Version, todo : SUBSET Segs, found : BOOLEAN]
      /\ cur'.num = n /\ cur'.found = cur.found /\ ~ cur.found /\ cur'.todo = cur.todo \ {s}
  BY <1>0, <1>1, <1>2, <1>3, <1>4, Zenon DEF RunType, OpInv
<1>8. RunType'
  BY <1>0, <1>1, <1>5, <1>7, Zenon DEF RunType, Touches
<1>9. Held' = Held /\ Op(n)' = Op(n)
  BY <1>1, Zenon DEF Held, Op
<1>10. ASSUME NEW e \in Held \ cur'.todo PROVE ~ HasPoint(World, e, p)'
  <2>1. CASE e = s
    BY <1>5, <2>1, Zenon
  <2>2. CASE e # s
    <3>1. ~ HasPoint(World, e, p) /\ e \in Held /\ e \in Segs
      BY <1>0, <1>3, <1>4, <1>7, <2>2, Zenon DEF OpInv, Held
    <3>2. ~ Shows(e, p) /\ (Proxied(e) => ~ Shows(Tmp(holder[e]), p))
      BY <1>0, <3>1, HasPointShows, ShowsInWorld, Zenon
    <3>3. ~ Shows(e, p)'
      BY <1>5, <3>1, <3>2, Zenon
    <3>4. CASE Proxied(e)
      <4>1. PICK g \in Segs, t \in Tasks : t = holder[e] /\ g = Tmp(t) /\ Open(g)
        BY <1>0, <3>1, <3>4, BehindProxy, Zenon
      <4>2. p \notin mem'[g].mapping /\ ~ (p \in mem'[e].mapping \ deleted'[t])
        <5>1. Open(g)'
          BY <1>1, <4>1, Zenon DEF Open, Wrapping
        <5>2. ~ Shows(g, p)'
          BY <1>5, <3>2, <3>4, <4>1, Zenon
        <5> QED BY <1>1, <3>3, <3>4, <4>1, <5>1, <5>2, Zenon DEF Shows, Proxied
      <4> QED BY <1>1, <3>4, <4>1, <4>2, Zenon DEF HasPoint, World, Proxied
    <3>5. CASE ~ Proxied(e)
      <4>1. holder[e] = Original
        BY <1>0, <3>1, <3>5, Zenon DEF RunType, Held, Proxied
      <4>2. p \notin mem'[e].mapping
        BY <1>1, <3>3, <4>1, Zenon DEF Shows, Open
      <4> QED BY <1>1, <3>5, <4>2, Zenon DEF HasPoint, World, Proxied
    <3> QED BY <3>4, <3>5, Zenon
  <2> QED BY <2>1, <2>2, Zenon
<1>11. OpInv'
  <2>1. n # None /\ n = next - 1 /\ n > 0 /\ cur.todo \subseteq Held
    BY <1>0, <1>3, <1>4, Zenon DEF OpInv
  <2> QED BY <1>1, <1>4, <1>7, <1>9, <1>10, <2>1, Zenon DEF OpInv
<1>12. \A q \in Points \ {p} : Settled(q, Store!After(log, n)[q])'
  <2>1. \A q \in Points \ {p} : Settled(q, Store!After(log, n)[q])
    BY <1>0, <1>3, <1>4, Zenon DEF CopyInv
  <2> QED BY <1>0, <1>5, <2>1, KeepsSettled, Zenon
<1>13. CopyInv'
  BY <1>1, <1>3, <1>4, <1>7, <1>9, <1>12, Zenon DEF CopyInv
<1> QED BY <1>6, <1>8, <1>11, <1>13, Zenon DEF RunInv

\* The worker is done with the operation; a point that no entry has is inserted.
LEMMA FinishStep == ASSUME RunInv, Finish PROVE RunInv'
<1>0. RunType /\ TaskInv /\ SegInv /\ HomeInv /\ BuiltInv /\ OpInv /\ CopyInv
  BY Zenon DEF RunInv
<1>1. /\ cur.num # None /\ cur.todo = {} /\ cur' = Idle /\ UNCHANGED <<log, next, holder, task>>
      /\ ~ (Op(cur.num).kind = "upsert" /\ ~ cur.found) => UNCHANGED <<mem, deleted>>
      /\ Op(cur.num).kind = "upsert" /\ ~ cur.found =>
            \E a \in Held : /\ mem' = Modified(World, a, cur.num).mem
                            /\ deleted' = Modified(World, a, cur.num).deleted
  BY Zenon DEF Finish, Become
<1>2. PICK n \in Nat, p \in Points, k \in Nat :
         n = cur.num /\ p = Op(n).point /\ n = next - 1 /\ n = k + 1 /\ k = n - 1
  BY <1>0, <1>1, OpInLog
<1>3. Op(n) \in Ops
  BY <1>0, <1>1, <1>2, OpInLog, Zenon
<1>4. ~ cur.found => \A s \in Segs : ~ Shows(s, p)
  <2>1. ~ cur.found => \A e \in Held : ~ HasPoint(World, e, p)
    BY <1>0, <1>1, <1>2, Zenon DEF OpInv
  <2> QED BY <1>0, <2>1, ShownIsFound, ShowsInWorld, Zenon
<1>5. Store!After(log, n)[p] = Store!Effect(Op(n).kind, n, Store!After(log, k)[p])
  BY <1>2, ReferenceAt, Zenon
<1>6. cur' \in [num : Version, todo : SUBSET Segs, found : BOOLEAN] /\ cur'.num = None
  BY <1>1, Zenon DEF Idle, Version
<1>7. OpInv'
  BY <1>1, <1>6, Zenon DEF OpInv
<1>8. CASE Op(n).kind = "upsert" /\ ~ cur.found
  <2>1. PICK a \in Held : mem' = Modified(World, a, n).mem /\ deleted' = Modified(World, a, n).deleted
    BY <1>1, <1>2, <1>8, Zenon
  <2>2. PICK old, ref : old = Store!After(log, k)[p] /\ ref = Store!After(log, n)[p]
    BY Zenon
  <2>3. ref = Store!Effect(Op(n).kind, n, old) /\ ref # Store!Absent
    BY <1>5, <1>8, <2>2 DEF Store!Effect, Store!Absent
  <2>4. PutsPoint(n, p, Store!Effect(Op(n).kind, n, old))
    BY <1>1, <1>2, <1>4, <1>8, <2>1, InsertPuts, Zenon
  <2>5. PutsPoint(n, p, ref)
    BY <2>3, <2>4, Zenon
  <2>6. /\ TaskInv' /\ SegInv' /\ HomeInv' /\ BuiltInv'
        /\ log' = log /\ next' = next /\ holder' = holder /\ task' = task
        /\ mem' \in [Segs -> SegmentState] /\ deleted' \in [Tasks -> SUBSET Points]
        /\ \A q \in Points : Settled(q, Store!After(log, n)[q])'
    BY <1>2, <1>8, <2>2, <2>3, <2>5, PutKeeps, Zenon
  <2>7. RunType'
    BY <1>0, <1>6, <2>6, Zenon DEF RunType
  <2>8. CopyInv'
    BY <1>2, <1>6, <2>6, Zenon DEF CopyInv
  <2> QED BY <1>7, <2>6, <2>7, <2>8, Zenon DEF RunInv
<1>9. CASE ~ (Op(n).kind = "upsert" /\ ~ cur.found)
  <2>1. UNCHANGED <<log, next, holder, mem, deleted, task>>
    BY <1>1, <1>2, <1>9, Zenon
  <2>2. RunType' /\ TaskInv' /\ SegInv'
    BY <1>0, <1>6, <2>1 DEF RunType, TaskInv, SegInv, Wrapping
  <2>3. \A s, q : (Shows(s, q)' <=> Shows(s, q)) /\ Content(s, q)' = Content(s, q)
    BY <2>1, Zenon DEF Shows, Open, Proxied, Wrapping, Content
  <2>4. HomeInv' /\ BuiltInv'
    BY <1>0, <2>1, <2>3 DEF HomeInv, BuiltInv, Proxied
  <2>5. Settled(p, Store!After(log, n)[p])
    <3>1. CASE cur.found
      BY <1>0, <1>1, <1>2, <3>1, Zenon DEF CopyInv
    <3>2. CASE ~ cur.found /\ Op(n).kind = "delete"
      BY <1>4, <1>5, <3>2, Zenon DEF Store!Effect, Settled
    <3>3. CASE ~ cur.found /\ Op(n).kind # "delete"
      <4>1. Store!After(log, k)[p] = Store!Absent
        BY <1>0, <1>1, <1>2, <1>4, <3>3, Zenon DEF CopyInv, Settled
      <4>2. Op(n).kind \in {"set_payload", "overwrite_payload", "clear_payload"}
        BY <1>3, <1>9, <3>3, Zenon DEF Ops, AllOpKinds
      <4>3. Store!After(log, n)[p] = Store!Absent
        BY <1>5, <4>1, <4>2, Zenon DEF Store!Effect
      <4> QED BY <1>4, <3>3, <4>3, Zenon DEF Settled
    <3> QED BY <3>1, <3>2, <3>3, Zenon
  <2>6. \A q \in Points : Settled(q, Store!After(log, n)[q])
    BY <1>0, <1>1, <1>2, <2>5, Zenon DEF CopyInv
  <2>7. CopyInv'
    BY <1>2, <1>6, <2>1, <2>3, <2>6, Zenon DEF CopyInv, Settled
  <2> QED BY <1>7, <2>2, <2>4, <2>7, Zenon DEF RunInv
<1> QED BY <1>8, <1>9, Zenon

-----------------------------------------------------------------------------
(* The steps of an optimization                                            *)

\* Steps of an optimization after which its segments are where they were
LEMMA StageStep ==
    ASSUME RunInv, UNCHANGED <<log, next, cur, holder, mem, deleted>>,
           task' \in [Tasks -> [pc : {"idle", "proxied", "built", "swept", "swapped", "done", "failed"},
                                ids : SUBSET Segs, removed : SUBSET Points]],
           \A u \in Tasks : /\ task'[u].ids = task[u].ids
                            /\ task'[u].pc = "idle" <=> task[u].pc = "idle"
                            /\ Wrapping(u)' <=> Wrapping(u),
           BuiltInv'
    PROVE  RunInv'
<1>1. RunType' /\ TaskInv' /\ SegInv'
  BY DEF RunInv, RunType, TaskInv, SegInv
<1>2. \A s, p : Shows(s, p)' <=> Shows(s, p)
  BY Zenon DEF Shows, Open, Proxied
<1>3. \A s, p : Content(s, p)' = Content(s, p)
  BY Zenon DEF Content
<1>4. HomeInv'
  BY <1>2, Zenon DEF RunInv, HomeInv, Proxied
<1>5. \A e, p : HasPoint(World, e, p)' <=> HasPoint(World, e, p)
  BY Zenon DEF HasPoint, World, Proxied
<1>6. Held' = Held
  BY Zenon DEF Held
<1>7. OpInv'
  BY <1>2, <1>5, <1>6, Zenon DEF RunInv, OpInv, Op
<1>8. CopyInv'
  BY <1>2, <1>3, Zenon DEF RunInv, CopyInv, Settled, Op
<1> QED BY <1>1, <1>4, <1>7, <1>8, Zenon DEF RunInv

\* A failed optimization leaves its proxies in the holder.
LEMMA BuildFailsStep == ASSUME RunInv, NEW t \in Tasks, BuildFails(t) PROVE RunInv'
<1>0. RunType /\ BuiltInv
  BY Zenon DEF RunInv
<1>1. /\ task[t].pc = "proxied" /\ task' = [task EXCEPT ![t].pc = "failed"]
      /\ UNCHANGED <<log, next, cur, holder, mem, deleted>>
  BY Zenon DEF BuildFails, Moves
<1>2. /\ task' \in [Tasks -> [pc : {"idle", "proxied", "built", "swept", "swapped", "done", "failed"},
                              ids : SUBSET Segs, removed : SUBSET Points]]
      /\ task'[t].pc = "failed" /\ task'[t].ids = task[t].ids
      /\ \A u \in Tasks \ {t} : task'[u] = task[u]
  BY <1>0, <1>1, SMTT(30) DEF RunType
<1>3. \A u \in Tasks : /\ task'[u].ids = task[u].ids
                       /\ task'[u].pc = "idle" <=> task[u].pc = "idle"
                       /\ Wrapping(u)' <=> Wrapping(u)
  BY <1>1, <1>2, Zenon DEF Wrapping
<1>4. \A s, p : Content(s, p)' = Content(s, p)
  BY <1>1, Zenon DEF Content
<1>5. BuiltInv'
  BY <1>0, <1>1, <1>2, <1>4 DEF BuiltInv
<1> QED BY <1>1, <1>2, <1>3, <1>5, StageStep, Zenon

\* The files of the merged segments are removed.
LEMMA DropDataStep == ASSUME RunInv, NEW t \in Tasks, DropData(t) PROVE RunInv'
<1>0. RunType /\ BuiltInv
  BY Zenon DEF RunInv
<1>1. /\ task[t].pc = "swapped" /\ task' = [task EXCEPT ![t].pc = "done"]
      /\ UNCHANGED <<log, next, cur, holder, mem, deleted>>
  BY Zenon DEF DropData, Moves
<1>2. /\ task' \in [Tasks -> [pc : {"idle", "proxied", "built", "swept", "swapped", "done", "failed"},
                              ids : SUBSET Segs, removed : SUBSET Points]]
      /\ task'[t].pc = "done" /\ task'[t].ids = task[t].ids
      /\ \A u \in Tasks \ {t} : task'[u] = task[u]
  BY <1>0, <1>1 DEF RunType
<1>3. \A u \in Tasks : /\ task'[u].ids = task[u].ids
                       /\ task'[u].pc = "idle" <=> task[u].pc = "idle"
                       /\ Wrapping(u)' <=> Wrapping(u)
  BY <1>1, <1>2, Zenon DEF Wrapping
<1>4. \A s, p : Content(s, p)' = Content(s, p)
  BY <1>1, Zenon DEF Content
<1>5. BuiltInv'
  BY <1>0, <1>1, <1>2, <1>4 DEF BuiltInv
<1> QED BY <1>1, <1>2, <1>3, <1>5, StageStep, Zenon

\* What was swept is not in the optimized segment.
LEMMA SweepStep == ASSUME RunInv, NEW t \in Tasks, Sweep(t) PROVE RunInv'
<1>0. RunType /\ BuiltInv
  BY Zenon DEF RunInv
<1>1. /\ task[t].pc = "built"
      /\ task' = [task EXCEPT ![t].pc = "swept", ![t].removed = deleted[t] \ mem[Out(t)].mapping]
      /\ UNCHANGED <<log, next, cur, holder, mem, deleted>>
  BY Zenon DEF Sweep
<1>2. /\ task' \in [Tasks -> [pc : {"idle", "proxied", "built", "swept", "swapped", "done", "failed"},
                              ids : SUBSET Segs, removed : SUBSET Points]]
      /\ task'[t].pc = "swept" /\ task'[t].ids = task[t].ids
      /\ task'[t].removed = deleted[t] \ mem[Out(t)].mapping
      /\ \A u \in Tasks \ {t} : task'[u] = task[u]
  BY <1>0, <1>1, Zenon DEF RunType
<1>3. \A u \in Tasks : /\ task'[u].ids = task[u].ids
                       /\ task'[u].pc = "idle" <=> task[u].pc = "idle"
                       /\ Wrapping(u)' <=> Wrapping(u)
  BY <1>1, <1>2, Zenon DEF Wrapping
<1>4. \A s, p : Content(s, p)' = Content(s, p)
  BY <1>1, Zenon DEF Content
<1>5. BuiltInv'
  BY <1>0, <1>1, <1>2, <1>4 DEF BuiltInv
<1> QED BY <1>1, <1>2, <1>3, <1>5, StageStep, Zenon

\* The proxies hide nothing at first, and the write segment is empty.
LEMMA WrapStep == ASSUME RunInv, NEW t \in Tasks, NEW ids \in SUBSET Held, Wrap(t, ids) PROVE RunInv'
<1>0. RunType /\ TaskInv /\ SegInv /\ HomeInv /\ BuiltInv /\ OpInv /\ CopyInv
  BY Zenon DEF RunInv
<1>1. /\ cur = Idle /\ task[t].pc = "idle" /\ ids # {} /\ \A s \in ids : holder[s] = Original
      /\ task' = [task EXCEPT ![t] = [pc |-> "proxied", ids |-> ids, removed |-> {}]]
      /\ holder' = [s \in Segs |-> IF s \in ids THEN t ELSE holder[s]]
      /\ UNCHANGED <<log, next, cur, mem, deleted>>
  BY Zenon DEF Wrap, HolderFree
<1>2. /\ ids \subseteq Segs /\ mem[Tmp(t)].mapping = {} /\ deleted[t] = {}
      /\ holder[Tmp(t)] = Absent /\ holder[Out(t)] = Absent
      /\ t # Original /\ t # Absent /\ Original # Absent
  BY <1>0, <1>1, Distinct, Zenon DEF TaskInv, Held
<1>3. /\ task' \in [Tasks -> [pc : {"idle", "proxied", "built", "swept", "swapped", "done", "failed"},
                              ids : SUBSET Segs, removed : SUBSET Points]]
      /\ task'[t].pc = "proxied" /\ task'[t].ids = ids
      /\ \A u \in Tasks \ {t} : task'[u] = task[u]
  BY <1>0, <1>1, <1>2, Zenon DEF RunType
<1>4. /\ holder' \in [Segs -> {Absent, Original} \cup Tasks]
      /\ \A s \in Segs : holder'[s] = IF s \in ids THEN t ELSE holder[s]
  BY <1>0, <1>1, Zenon DEF RunType
<1>5. RunType'
  BY <1>0, <1>1, <1>3, <1>4, Zenon DEF RunType
<1>6. /\ Wrapping(t)' /\ ~ Wrapping(t)
      /\ \A u \in Tasks \ {t} : Wrapping(u)' <=> Wrapping(u)
  BY <1>1, <1>3, Zenon DEF Wrapping
<1>7. TaskInv'
  <2> SUFFICES ASSUME NEW u \in Tasks
               PROVE  /\ task'[u].pc = "idle" => mem'[Tmp(u)].mapping = {} /\ deleted'[u] = {}
                      /\ task'[u].pc = "idle" \/ Wrapping(u)' => holder'[Tmp(u)] = Absent /\ holder'[Out(u)] = Absent
                      /\ \A s \in Segs : holder'[s] = u <=> Wrapping(u)' /\ s \in task'[u].ids
                      /\ Wrapping(u)' => task'[u].ids # {}
    BY Zenon DEF TaskInv
  <2>0. Tmp(u) \in Segs /\ Out(u) \in Segs /\ u # Original /\ u # Absent
    BY Distinct, Zenon
  <2>1. CASE u = t
    <3>1. \A s \in Segs : holder[s] # t
      BY <1>0, <1>6, SMTT(30) DEF TaskInv
    <3> QED BY <1>1, <1>2, <1>3, <1>4, <1>6, <2>0, <2>1, <3>1, SMTT(30)
  <2>2. CASE u # t
    <3>1. /\ task[u].pc = "idle" => mem[Tmp(u)].mapping = {} /\ deleted[u] = {}
          /\ task[u].pc = "idle" \/ Wrapping(u) => holder[Tmp(u)] = Absent /\ holder[Out(u)] = Absent
          /\ \A s \in Segs : holder[s] = u <=> Wrapping(u) /\ s \in task[u].ids
          /\ Wrapping(u) => task[u].ids # {}
      BY <1>0, Zenon DEF TaskInv
    <3> QED BY <1>1, <1>2, <1>3, <1>4, <1>6, <2>0, <2>2, <3>1, SMTT(30)
  <2> QED BY <2>1, <2>2, Zenon
<1>8. SegInv'
  BY <1>0, <1>1, Zenon DEF SegInv
<1>9. ASSUME NEW s \in Segs, NEW p PROVE Shows(s, p)' <=> Shows(s, p)
  <2>1. CASE s \in ids
    <3>1. holder[s] = Original /\ holder'[s] = t
      BY <1>1, <1>4, <2>1, Zenon
    <3> QED BY <1>1, <1>2, <3>1, Zenon DEF Shows, Open, Proxied
  <2>2. CASE s = Tmp(t)
    <3>1. p \notin mem[s].mapping /\ mem' = mem
      BY <1>1, <1>2, <2>2, Zenon
    <3> QED BY <3>1, Zenon DEF Shows
  <2>3. CASE s \notin ids /\ s # Tmp(t)
    <3>1. holder'[s] = holder[s] /\ mem' = mem /\ deleted' = deleted
      BY <1>1, <1>4, <2>3, Zenon
    <3>2. Open(s)' <=> Open(s)
      BY <1>6, <2>3, <3>1, Zenon DEF Open
    <3> QED BY <3>1, <3>2, Zenon DEF Shows, Proxied
  <2> QED BY <2>1, <2>2, <2>3, Zenon
<1>10. \A s, p : Content(s, p)' = Content(s, p)
  BY <1>1, Zenon DEF Content
<1>11. HomeInv'
  <2>1. ASSUME NEW s \in Segs, NEW r \in Segs, Proxied(s)', holder'[r] = holder'[s], s # r
        PROVE  mem'[s].mapping \cap mem'[r].mapping = {}
    <3>1. CASE s \in ids
      <4>1. r \in ids
        BY <1>0, <1>4, <1>6, <2>1, <3>1, SMTT(30) DEF TaskInv
      <4>2. \A p : (p \in mem[s].mapping => Shows(s, p)) /\ (p \in mem[r].mapping => Shows(r, p))
        BY <1>1, <3>1, <4>1, Zenon DEF Shows, Open
      <4>3. mem[s].mapping \subseteq Points
        BY <1>0, Zenon DEF RunType, SegmentState
      <4> QED BY <1>0, <1>1, <2>1, <4>2, <4>3, Zenon DEF HomeInv
    <3>2. CASE s \notin ids
      <4>1. r \notin ids
        BY <1>0, <1>4, <1>6, <2>1, <3>2, SMTT(30) DEF TaskInv
      <4> QED BY <1>0, <1>1, <1>4, <2>1, <3>2, <4>1, Zenon DEF HomeInv, Proxied
    <3> QED BY <3>1, <3>2, Zenon
  <2> QED BY <1>0, <1>9, <2>1, Zenon DEF HomeInv
<1>12. BuiltInv'
  BY <1>0, <1>1, <1>3, <1>10, SMTT(30) DEF BuiltInv
<1>13. OpInv'
  BY <1>1, Zenon DEF OpInv, Idle
<1>14. CopyInv'
  BY <1>0, <1>1, <1>9, <1>10, Zenon DEF CopyInv, Settled, Idle
<1> QED BY <1>5, <1>7, <1>8, <1>11, <1>12, <1>13, <1>14, Zenon DEF RunInv

\* delete_point with the version of the optimized segment removes every one of the points.
LEMMA WithoutFields ==
    ASSUME NEW seg \in SegmentState, NEW P,
           \A p \in seg.mapping : seg.versions[p] <= seg.version /\ seg.vectors[p] \in Nat
    PROVE  /\ Without(seg, P) \in SegmentState /\ Without(seg, P).mapping = seg.mapping \ P
           /\ Without(seg, P).version = seg.version
           /\ \A p \in seg.mapping \ P : /\ Without(seg, P).versions[p] = seg.versions[p]
                                         /\ Without(seg, P).vectors[p] = seg.vectors[p]
                                         /\ Without(seg, P).payloads[p] = seg.payloads[p]
<1> DEFINE gone == {p \in P : p \in seg.mapping /\ Applies(seg, UnwrapOr0(seg.version), p)}
           new == Without(seg, P)
<1>0. /\ seg.mapping \in SUBSET Points /\ seg.versions \in [Points -> Version]
      /\ seg.vectors \in [Points -> Version] /\ seg.payloads \in [Points -> SUBSET Nat]
      /\ seg.version \in Version
  BY Zenon DEF SegmentState
<1>1. ASSUME NEW p \in seg.mapping PROVE Applies(seg, UnwrapOr0(seg.version), p)
  <2>1. seg.versions[p] \in Version /\ seg.versions[p] <= seg.version
    BY <1>0, Zenon
  <2> QED BY <1>0, <2>1 DEF Applies, UnwrapOr0, Version, None
<1>2. \A p : p \in gone <=> p \in P /\ p \in seg.mapping
  BY <1>1, Zenon
<1>3. new = [seg EXCEPT !.mapping  = @ \ gone,
                !.versions = [p \in Points |-> IF p \in gone THEN None ELSE @[p]],
                !.vectors  = [p \in Points |-> IF p \in gone THEN None ELSE @[p]],
                !.payloads = [p \in Points |-> IF p \in gone THEN {} ELSE @[p]]]
  BY Zenon DEF Without
<1> HIDE DEF gone, new
<1>4. /\ new.mapping = seg.mapping \ gone
      /\ new.versions = [p \in Points |-> IF p \in gone THEN None ELSE seg.versions[p]]
      /\ new.vectors = [p \in Points |-> IF p \in gone THEN None ELSE seg.vectors[p]]
      /\ new.payloads = [p \in Points |-> IF p \in gone THEN {} ELSE seg.payloads[p]]
      /\ new.version = seg.version
      /\ new = [mapping |-> new.mapping, versions |-> new.versions, vectors |-> new.vectors,
                payloads |-> new.payloads, version |-> new.version]
  BY <1>3, Zenon DEF SegmentState
<1>5. /\ new.mapping \in SUBSET Points /\ new.versions \in [Points -> Version]
      /\ new.vectors \in [Points -> Version] /\ new.payloads \in [Points -> SUBSET Nat]
  BY <1>0, <1>4 DEF Version
<1>6. new \in SegmentState
  BY <1>0, <1>4, <1>5, Zenon DEF SegmentState
<1>7. new.mapping = seg.mapping \ P
  BY <1>2, <1>4, Zenon
<1>8. ASSUME NEW p \in seg.mapping \ P
      PROVE  new.versions[p] = seg.versions[p] /\ new.vectors[p] = seg.vectors[p] /\ new.payloads[p] = seg.payloads[p]
  BY <1>0, <1>2, <1>4, Zenon
<1> QED BY <1>4, <1>6, <1>7, <1>8, Zenon DEF new

\* Of finitely many bounded versions one is the largest.
LEMMA Largest ==
    ASSUME NEW T \in SUBSET Nat, T # {}, NEW b \in Nat, \A m \in T : m <= b
    PROVE  \E m \in T : \A k \in T : k <= m
<1> DEFINE U == {m \in Nat : \A k \in T : k <= m}
<1>1. b \in U /\ U \subseteq Nat
  BY Zenon
<1>2. PICK m \in U : \A k \in U : m <= k
  BY <1>1, Least, Zenon
<1>3. m \in T
  <2> SUFFICES ASSUME m \notin T PROVE FALSE
    BY Zenon
  <2>1. \A k \in T : k <= m /\ k # m /\ k \in Nat
    BY <1>2, Zenon
  <2>2. m > 0
    <3>1. PICK k \in T : TRUE
      BY Zenon
    <3> QED BY <1>2, <2>1, <3>1
  <2>3. m - 1 \in U
    BY <1>2, <2>1, <2>2, SMTT(30)
  <2> QED BY <1>2, <2>3
<1> QED BY <1>2, <1>3, Zenon

\* m is a segment with the points of the segments of ids, as they are there.
Merges(m, ids) ==
    /\ m \in SegmentState
    /\ \A p : p \in m.mapping <=> \E s \in ids : p \in mem[s].mapping
    /\ \A s \in ids : \A p \in mem[s].mapping :
          /\ m.versions[p] = mem[s].versions[p] /\ m.vectors[p] = mem[s].vectors[p]
          /\ m.payloads[p] = mem[s].payloads[p]
    /\ \E s \in ids : m.version = UnwrapOr0(mem[s].version)
    /\ \A s \in ids : mem[s].version <= m.version

\* The segment built from segments that have no point in common.
LEMMA MergedParts ==
    ASSUME RunType, SegInv, NEW ids \in SUBSET Segs, ids # {},
           \A s, r \in ids : s # r => mem[s].mapping \cap mem[r].mapping = {}
    PROVE  /\ Merged(ids) \in SegmentState
           /\ \A p : p \in Merged(ids).mapping <=> \E s \in ids : p \in mem[s].mapping
           /\ \A s \in ids : \A p \in mem[s].mapping :
                 /\ Merged(ids).versions[p] = mem[s].versions[p]
                 /\ Merged(ids).vectors[p] = mem[s].vectors[p]
                 /\ Merged(ids).payloads[p] = mem[s].payloads[p]
           /\ \E s \in ids : Merged(ids).version = UnwrapOr0(mem[s].version)
           /\ \A s \in ids : mem[s].version <= Merged(ids).version
<1> DEFINE having(p) == {s \in ids : p \in mem[s].mapping}
           newest(p) == CHOOSE s \in having(p) :
                           \A r \in having(p) : mem[r].versions[p] <= mem[s].versions[p]
           points == {p \in Points : having(p) # {}}
           top == CHOOSE v \in {UnwrapOr0(mem[s].version) : s \in ids} :
                     \A s \in ids : UnwrapOr0(mem[s].version) <= v
           new == Merged(ids)
<1>0. \A s \in ids : mem[s] \in SegmentState
  BY Zenon DEF RunType
<1>1. \A s \in ids : /\ mem[s].mapping \in SUBSET Points /\ mem[s].versions \in [Points -> Version]
                     /\ mem[s].vectors \in [Points -> Version] /\ mem[s].payloads \in [Points -> SUBSET Nat]
                     /\ mem[s].version \in Version
  BY <1>0, Zenon DEF SegmentState
<1>2. new = [mapping |-> points,
             versions |-> [p \in Points |-> IF p \in points THEN mem[newest(p)].versions[p] ELSE None],
             vectors  |-> [p \in Points |-> IF p \in points THEN mem[newest(p)].vectors[p] ELSE None],
             payloads |-> [p \in Points |-> IF p \in points THEN mem[newest(p)].payloads[p] ELSE {}],
             version  |-> top]
  BY Zenon DEF Merged
<1>3. ASSUME NEW s \in ids, NEW p \in mem[s].mapping PROVE newest(p) = s /\ p \in points
  <2>1. having(p) = {s}
    <3> SUFFICES ASSUME NEW r \in ids, p \in mem[r].mapping, r # s PROVE FALSE
      BY Zenon
    <3>1. mem[r].mapping \cap mem[s].mapping = {}
      BY Zenon
    <3> QED BY <3>1, Zenon
  <2>2. p \in Points /\ mem[s].versions[p] \in Version
    BY <1>1, Zenon
  <2>3. mem[s].versions[p] <= mem[s].versions[p]
    BY <2>2 DEF Version, None
  <2>4. s \in having(p) /\ \A r \in having(p) : mem[r].versions[p] <= mem[s].versions[p]
    BY <2>1, <2>3, Zenon
  <2>5. newest(p) \in having(p)
    BY <2>4, Zenon
  <2> QED BY <2>1, <2>2, <2>5, Zenon
<1>4. \A p : p \in points <=> \E s \in ids : p \in mem[s].mapping
  BY <1>1, Zenon
<1>5. top \in {UnwrapOr0(mem[s].version) : s \in ids} /\ \A s \in ids : UnwrapOr0(mem[s].version) <= top
  <2> DEFINE T == {UnwrapOr0(mem[s].version) : s \in ids}
  <2>1. next \in Nat /\ next > 0 /\ \A s \in ids : mem[s].version < next
    BY DEF RunType, SegInv
  <2>2. ASSUME NEW s \in ids PROVE UnwrapOr0(mem[s].version) \in Nat /\ UnwrapOr0(mem[s].version) <= next
    BY <1>1, <2>1 DEF UnwrapOr0, Version, None
  <2>3. T \in SUBSET Nat /\ T # {} /\ \A m \in T : m <= next
    BY <2>2, Zenon
  <2> HIDE DEF T
  <2>4. PICK m \in T : \A k \in T : k <= m
    BY <2>1, <2>3, Largest, Zenon
  <2>5. \A s \in ids : UnwrapOr0(mem[s].version) <= m
    BY <2>4, Zenon DEF T
  <2> QED BY <2>4, <2>5, Zenon DEF T
<1> HIDE DEF having, newest, points, top, new
<1>6. /\ new.mapping = points /\ new.version = top
      /\ new.versions = [p \in Points |-> IF p \in points THEN mem[newest(p)].versions[p] ELSE None]
      /\ new.vectors = [p \in Points |-> IF p \in points THEN mem[newest(p)].vectors[p] ELSE None]
      /\ new.payloads = [p \in Points |-> IF p \in points THEN mem[newest(p)].payloads[p] ELSE {}]
  BY <1>2, Zenon
<1>7. ASSUME NEW p \in Points
      PROVE  p \in points => /\ mem[newest(p)].versions[p] \in Version /\ mem[newest(p)].vectors[p] \in Version
                             /\ mem[newest(p)].payloads[p] \in SUBSET Nat
  BY <1>1, <1>3, <1>4
<1>8. top \in Version
  BY <1>1, <1>5 DEF UnwrapOr0, Version, None
<1>9. /\ points \in SUBSET Points /\ new.versions \in [Points -> Version]
      /\ new.vectors \in [Points -> Version] /\ new.payloads \in [Points -> SUBSET Nat]
  <2>1. points \in SUBSET Points
    BY Zenon DEF points
  <2>2. new.versions \in [Points -> Version]
    BY <1>6, <1>7, Zenon DEF Version
  <2>3. new.vectors \in [Points -> Version]
    BY <1>6, <1>7, Zenon DEF Version
  <2>4. new.payloads \in [Points -> SUBSET Nat]
    BY <1>6, <1>7, Zenon
  <2> QED BY <2>1, <2>2, <2>3, <2>4, Zenon
<1>10. new \in SegmentState
  BY <1>2, <1>6, <1>8, <1>9, Zenon DEF SegmentState
<1>11. ASSUME NEW s \in ids, NEW p \in mem[s].mapping
       PROVE  /\ new.versions[p] = mem[s].versions[p] /\ new.vectors[p] = mem[s].vectors[p]
              /\ new.payloads[p] = mem[s].payloads[p]
  <2>1. p \in Points /\ p \in points /\ newest(p) = s
    BY <1>1, <1>3, Zenon
  <2> QED BY <1>6, <2>1, Zenon
<1>12. \A s \in ids : mem[s].version <= top
  BY <1>1, <1>5, <1>8 DEF UnwrapOr0, Version, None
<1>13. \E s \in ids : top = UnwrapOr0(mem[s].version)
  BY <1>5, Zenon
<1>14. new.mapping = points /\ new.version = top
  BY <1>6, Zenon
<1>15. \A p : p \in new.mapping <=> \E s \in ids : p \in mem[s].mapping
  BY <1>4, <1>14, Zenon
<1> QED BY <1>10, <1>11, <1>12, <1>13, <1>14, <1>15, SMTT(30) DEF new

\* Its segments merged, the optimized segment has them all.
LEMMA MergedFields ==
    ASSUME RunType, SegInv, NEW ids \in SUBSET Segs, ids # {},
           \A s, r \in ids : s # r => mem[s].mapping \cap mem[r].mapping = {}
    PROVE  Merges(Merged(ids), ids)
BY MergedParts, SMTT(30) DEF Merges

\* A segment that no reader meets is replaced.
LEMMA HiddenStep ==
    ASSUME RunInv, NEW g \in Segs, ~ Open(g), ~ Proxied(g), \A t \in Tasks : g # Tmp(t),
           UNCHANGED <<log, next, cur, holder, deleted>>,
           NEW new \in SegmentState, mem' = [mem EXCEPT ![g] = new],
           new.version < next /\ \A p \in new.mapping : new.versions[p] <= new.version /\ new.vectors[p] \in Nat,
           cur.num # None /\ ~ cur.found /\ Op(cur.num).kind # "delete" => new.version < cur.num,
           task' \in [Tasks -> [pc : {"idle", "proxied", "built", "swept", "swapped", "done", "failed"},
                                ids : SUBSET Segs, removed : SUBSET Points]],
           \A u \in Tasks : /\ task'[u].ids = task[u].ids
                            /\ task'[u].pc = "idle" <=> task[u].pc = "idle"
                            /\ Wrapping(u)' <=> Wrapping(u),
           BuiltInv'
    PROVE  RunInv'
<1>0. RunType /\ TaskInv /\ SegInv /\ HomeInv /\ OpInv /\ CopyInv
  BY Zenon DEF RunInv
<1>1. /\ mem' \in [Segs -> SegmentState] /\ mem'[g] = new /\ \A s \in Segs \ {g} : mem'[s] = mem[s]
  BY <1>0, Zenon DEF RunType
<1>2. RunType'
  BY <1>0, <1>1, Zenon DEF RunType
<1>3. TaskInv'
  <2>1. \A u \in Tasks : mem'[Tmp(u)] = mem[Tmp(u)]
    BY <1>1, Distinct, Zenon
  <2> QED BY <1>0, <2>1, SMTT(30) DEF TaskInv
<1>4. SegInv'
  BY <1>0, <1>1, Zenon DEF SegInv
<1>5. ASSUME NEW s \in Segs, NEW p
      PROVE  /\ Shows(s, p)' <=> Shows(s, p)
             /\ Shows(s, p) => s # g /\ Content(s, p)' = Content(s, p) /\ mem'[s] = mem[s]
  <2>1. (Open(s)' <=> Open(s)) /\ (Proxied(s)' <=> Proxied(s))
    BY Zenon DEF Open, Proxied
  <2>2. CASE s = g
    BY <2>1, <2>2, Zenon DEF Shows
  <2>3. CASE s # g
    BY <1>1, <2>1, <2>3, Zenon DEF Shows, Content
  <2> QED BY <2>2, <2>3, Zenon
<1>6. HomeInv'
  <2>1. ASSUME NEW s \in Segs, NEW r \in Segs, Proxied(s)', holder'[r] = holder'[s], s # r
        PROVE  mem'[s].mapping \cap mem'[r].mapping = {}
    <3>1. Proxied(s) /\ Proxied(r) /\ holder[r] = holder[s]
      BY <2>1, Zenon DEF Proxied
    <3>2. mem'[s] = mem[s] /\ mem'[r] = mem[r]
      BY <1>1, <3>1, Zenon
    <3> QED BY <1>0, <2>1, <3>1, <3>2, Zenon DEF HomeInv
  <2> QED BY <1>0, <1>5, <2>1, Zenon DEF HomeInv
<1>7. ASSUME NEW e \in Held, NEW p PROVE HasPoint(World, e, p)' <=> HasPoint(World, e, p)
  <2>1. e \in Segs /\ holder[e] # Absent
    BY Zenon DEF Held
  <2>2. CASE Proxied(e)
    <3>1. PICK t \in Tasks, r \in Segs : t = holder[e] /\ r = Tmp(t)
      BY <2>2, Distinct, Zenon DEF Proxied
    <3>2. mem'[e] = mem[e] /\ mem'[r] = mem[r]
      BY <1>1, <2>1, <2>2, <3>1, Zenon
    <3> QED BY <2>2, <3>1, <3>2, Zenon DEF HasPoint, World, Proxied
  <2>3. CASE ~ Proxied(e)
    <3>1. holder[e] = Original
      BY <1>0, <2>1, <2>3, Zenon DEF RunType, Proxied
    <3>2. mem'[e] = mem[e]
      BY <1>1, <2>1, <3>1, Zenon DEF Open
    <3> QED BY <2>3, <3>2, Zenon DEF HasPoint, World, Proxied
  <2> QED BY <2>2, <2>3, Zenon
<1>8. Held' = Held
  BY Zenon DEF Held
<1>9. OpInv'
  <2>1. CASE cur.num = None
    BY <1>0, <2>1, Zenon DEF OpInv, Idle
  <2>2. CASE cur.num # None
    <3>1. PICK n : n = cur.num /\ Op(n)' = Op(n)
      BY Zenon DEF Op
    <3>2. ~ cur.found /\ Op(n).kind # "delete" => \A s \in Segs : mem'[s].version < n
      BY <1>0, <1>1, <2>2, <3>1, Zenon DEF OpInv
    <3>3. ~ cur.found => \A e \in Held \ cur.todo : ~ HasPoint(World, e, Op(n).point)'
      BY <1>0, <1>7, <2>2, <3>1, Zenon DEF OpInv
    <3>4. cur.found => \A s \in Segs : Shows(s, Op(n).point)' => mem'[s].versions[Op(n).point] >= n
      BY <1>0, <1>5, <2>2, <3>1, Zenon DEF OpInv
    <3> QED BY <1>0, <1>8, <2>2, <3>1, <3>2, <3>3, <3>4, Zenon DEF OpInv
  <2> QED BY <2>1, <2>2, Zenon
<1>10. CopyInv'
  <2>1. ASSUME NEW p, NEW ref, Settled(p, ref) PROVE Settled(p, ref)'
    BY <1>5, <2>1, Zenon DEF Settled
  <2>2. UNCHANGED <<log, next, cur>>
    BY Zenon
  <2> QED BY <1>0, <2>1, <2>2, Zenon DEF CopyInv, Op
<1> QED BY <1>2, <1>3, <1>4, <1>6, <1>9, <1>10, Zenon DEF RunInv

\* An optimization goes on to its next stage.
LEMMA TaskMoves ==
    ASSUME RunType, NEW t \in Tasks, NEW x \in {"built", "swapped"}, task' = [task EXCEPT ![t].pc = x]
    PROVE  /\ task' \in [Tasks -> [pc : {"idle", "proxied", "built", "swept", "swapped", "done", "failed"},
                                   ids : SUBSET Segs, removed : SUBSET Points]]
           /\ task'[t].pc = x /\ task'[t].ids = task[t].ids
           /\ \A u \in Tasks \ {t} : task'[u] = task[u]
BY ZenonT(30) DEF RunType

\* The optimized segment has what the proxies have not moved or deleted yet.
LEMMA BuildStep == ASSUME RunInv, NEW t \in Tasks, Build(t) PROVE RunInv'
<1>0. RunType /\ TaskInv /\ SegInv /\ HomeInv /\ BuiltInv /\ OpInv
  BY Zenon DEF RunInv
<1> DEFINE ids == task[t].ids
           g == Out(t)
           old == Merged(task[t].ids)
           new == Without(Merged(task[t].ids), deleted[t])
<1>1. /\ task[t].pc = "proxied" /\ task' = [task EXCEPT ![t].pc = "built"]
      /\ mem' = [mem EXCEPT ![g] = new] /\ UNCHANGED <<log, next, cur, holder, deleted>>
  BY Zenon DEF Build, Moves
<1>2. /\ g \in Segs /\ Wrapping(t) /\ holder[g] = Absent /\ ids # {} /\ ids \in SUBSET Segs
      /\ \A s \in Segs : holder[s] = t <=> s \in ids
  BY <1>0, <1>1, Distinct, Zenon DEF TaskInv, Wrapping, RunType
<1>3. ~ Open(g) /\ ~ Proxied(g) /\ \A u \in Tasks : g # Tmp(u)
  BY <1>2, Distinct, Zenon DEF Open, Proxied
<1>4. \A s \in ids : Proxied(s)
  BY <1>2, Zenon DEF Proxied
<1>5. \A s, r \in ids : s # r => mem[s].mapping \cap mem[r].mapping = {}
  BY <1>0, <1>2, <1>4, Zenon DEF HomeInv
<1>6. /\ old \in SegmentState
      /\ \A p : p \in old.mapping <=> \E s \in ids : p \in mem[s].mapping
      /\ \A s \in ids : \A p \in mem[s].mapping :
            /\ old.versions[p] = mem[s].versions[p] /\ old.vectors[p] = mem[s].vectors[p]
            /\ old.payloads[p] = mem[s].payloads[p]
      /\ \E s \in ids : old.version = UnwrapOr0(mem[s].version)
      /\ \A s \in ids : mem[s].version <= old.version
  <2>1. Merges(old, ids)
    BY <1>0, <1>2, <1>5, MergedFields, Zenon
  <2> QED BY <2>1, Zenon DEF Merges
<1> HIDE DEF old
<1>7. old.version \in Version /\ old.version < next
  <2>1. PICK s \in ids : old.version = UnwrapOr0(mem[s].version)
    BY <1>6, Zenon
  <2>2. mem[s].version \in Version /\ mem[s].version < next /\ next \in Nat /\ next > 0
    BY <1>0, <1>2, SMTT(30) DEF RunType, SegmentState, SegInv
  <2> QED BY <2>1, <2>2, SMTT(30) DEF UnwrapOr0, Version, None
<1>8. ASSUME NEW p \in old.mapping PROVE old.versions[p] <= old.version /\ old.vectors[p] \in Nat
  <2>1. PICK s \in ids : p \in mem[s].mapping
    BY <1>6, Zenon
  <2>2. mem[s] \in SegmentState /\ s \in Segs
    BY <1>0, <1>2, Zenon DEF RunType
  <2>3. p \in Points /\ mem[s].versions[p] \in Version /\ mem[s].version \in Version
    BY <2>1, <2>2, Zenon DEF SegmentState
  <2>4. mem[s].versions[p] <= mem[s].version /\ mem[s].vectors[p] \in Nat
    BY <1>0, <2>1, <2>2, Zenon DEF SegInv
  <2>5. /\ old.versions[p] = mem[s].versions[p] /\ old.vectors[p] = mem[s].vectors[p]
        /\ mem[s].version <= old.version
    BY <1>6, <2>1, Zenon
  <2> QED BY <1>7, <2>3, <2>4, <2>5, SMTT(30) DEF Version, None
<1>9. cur.num # None /\ ~ cur.found /\ Op(cur.num).kind # "delete" => old.version < cur.num
  <2>1. PICK s \in ids : old.version = UnwrapOr0(mem[s].version)
    BY <1>6, Zenon
  <2>2. mem[s].version \in Version
    BY <1>0, <1>2, Zenon DEF RunType, SegmentState
  <2>3. cur.num # None /\ ~ cur.found /\ Op(cur.num).kind # "delete" => mem[s].version < cur.num /\ cur.num > 0
    BY <1>0, <1>2, Zenon DEF OpInv
  <2>4. cur.num \in Version
    BY <1>0, Zenon DEF RunType
  <2> QED BY <2>1, <2>2, <2>3, <2>4, Zenon DEF UnwrapOr0, Version, None
<1>10. /\ new \in SegmentState /\ new.mapping = old.mapping \ deleted[t] /\ new.version = old.version
       /\ \A p \in old.mapping \ deleted[t] : /\ new.versions[p] = old.versions[p]
                                              /\ new.vectors[p] = old.vectors[p]
                                              /\ new.payloads[p] = old.payloads[p]
  BY <1>6, <1>8, WithoutFields, ZenonT(30) DEF old
<1> HIDE DEF new
<1>11. /\ task' \in [Tasks -> [pc : {"idle", "proxied", "built", "swept", "swapped", "done", "failed"},
                              ids : SUBSET Segs, removed : SUBSET Points]]
       /\ task'[t].pc = "built" /\ task'[t].ids = task[t].ids
       /\ \A u \in Tasks \ {t} : task'[u] = task[u]
  <2>1. task' = [task EXCEPT ![t].pc = "built"]
    BY <1>1, Zenon
  <2> QED BY <1>0, <2>1, TaskMoves, Zenon
<1>12. \A u \in Tasks : /\ task'[u].ids = task[u].ids
                        /\ task'[u].pc = "idle" <=> task[u].pc = "idle"
                        /\ Wrapping(u)' <=> Wrapping(u)
  BY <1>1, <1>11, Zenon DEF Wrapping
<1>13. mem'[g] = new /\ \A s \in Segs \ {g} : mem'[s] = mem[s]
  BY <1>0, <1>1, <1>2, Zenon DEF RunType
<1>14. BuiltInv'
  <2> SUFFICES ASSUME NEW u \in Tasks, task'[u].pc \in {"built", "swept"}
               PROVE  /\ \A p \in mem'[Out(u)].mapping : \E s \in task'[u].ids : p \in mem'[s].mapping
                      /\ \A s \in task'[u].ids : \A p \in mem'[s].mapping \ deleted'[u] :
                            p \in mem'[Out(u)].mapping /\ Content(Out(u), p)' = Content(s, p)'
                      /\ task'[u].pc = "swept" => task'[u].removed \cap mem'[Out(u)].mapping = {}
    BY Zenon DEF BuiltInv
  <2>1. CASE u = t
    <3>1. \A s \in ids : s # g /\ mem'[s] = mem[s]
      BY <1>2, <1>13, Distinct, Zenon
    <3>2. \A p \in mem'[g].mapping : \E s \in ids : p \in mem'[s].mapping
      BY <1>6, <1>10, <1>13, <3>1, Zenon
    <3>3. ASSUME NEW s \in ids, NEW p \in mem'[s].mapping \ deleted'[t]
          PROVE  p \in mem'[g].mapping /\ Content(g, p)' = Content(s, p)'
      <4>1. p \in mem[s].mapping /\ p \in old.mapping \ deleted[t]
        BY <1>1, <1>6, <3>1, Zenon
      <4>2. /\ mem'[g].vectors[p] = mem'[s].vectors[p] /\ mem'[g].payloads[p] = mem'[s].payloads[p]
        BY <1>6, <1>10, <1>13, <3>1, <4>1, SMTT(30)
      <4> QED BY <1>10, <1>13, <4>1, <4>2, Zenon DEF Content
    <3> QED BY <1>11, <2>1, <3>2, <3>3, Zenon
  <2>2. CASE u # t
    <3>1. task[u] = task'[u] /\ Wrapping(u) /\ deleted' = deleted
      BY <1>1, <1>11, <2>2, Zenon DEF Wrapping
    <3>2. Out(u) \in Segs /\ Out(u) # g /\ task[u].ids \subseteq Segs /\ u # Absent
      BY <1>0, <2>2, Distinct, Zenon DEF RunType
    <3>3. \A s \in task[u].ids : s \in Segs /\ s # g
      BY <1>0, <1>2, <3>1, <3>2, SMTT(30) DEF TaskInv
    <3>4. mem'[Out(u)] = mem[Out(u)] /\ \A s \in task[u].ids : mem'[s] = mem[s]
      BY <1>13, <3>2, <3>3, Zenon
    <3>5. \A s \in task[u].ids : \A p : Content(s, p)' = Content(s, p) /\ Content(Out(u), p)' = Content(Out(u), p)
      BY <3>4, Zenon DEF Content
    <3> QED BY <1>0, <3>1, <3>4, <3>5 DEF BuiltInv
  <2> QED BY <2>1, <2>2, Zenon
<1>15. new.version < next /\ \A p \in new.mapping : new.versions[p] <= new.version /\ new.vectors[p] \in Nat
  BY <1>7, <1>8, <1>10, Zenon
<1> HIDE DEF g
<1> QED BY <1>1, <1>2, <1>3, <1>9, <1>10, <1>11, <1>12, <1>14, <1>15, HiddenStep, Zenon

\* The optimized segment takes the place of the proxies.
LEMMA SwapStep == ASSUME RunInv, NEW t \in Tasks, Swap(t) PROVE RunInv'
<1>0. RunType /\ TaskInv /\ SegInv /\ HomeInv /\ BuiltInv /\ OpInv /\ CopyInv
  BY Zenon DEF RunInv
<1> DEFINE ids == task[t].ids
           g == Out(t)
           new == Without(mem[Out(t)], LateDeletes(t))
<1>1. /\ cur = Idle /\ task[t].pc = "swept" /\ task' = [task EXCEPT ![t].pc = "swapped"]
      /\ mem' = [mem EXCEPT ![g] = new] /\ UNCHANGED <<log, next, cur, deleted>>
  BY Zenon DEF Swap, Moves, HolderFree
<1>2. holder' = [s \in Segs |-> IF s \in task[t].ids THEN Absent
                                ELSE IF s = Out(t) \/ (s = Tmp(t) /\ KeepsTmp(t)) THEN Original
                                ELSE holder[s]]
  BY Zenon DEF Swap
<1>3. /\ g \in Segs /\ Tmp(t) \in Segs /\ Wrapping(t) /\ ids \in SUBSET Segs
      /\ holder[g] = Absent /\ holder[Tmp(t)] = Absent
      /\ \A s \in Segs : holder[s] = t <=> s \in ids
  BY <1>0, <1>1, Distinct, Zenon DEF TaskInv, Wrapping, RunType
<1>4. \A u \in Tasks : u # Absent /\ u # Original /\ g # Tmp(u)
  BY Distinct, Zenon
<1>5. g \notin ids /\ Tmp(t) \notin ids /\ g # Tmp(t)
  BY <1>3, <1>4, Zenon
<1>6. /\ new \in SegmentState /\ new.version = mem[g].version
      /\ new.mapping = mem[g].mapping \ LateDeletes(t)
      /\ \A p \in new.mapping : /\ new.versions[p] = mem[g].versions[p] /\ new.vectors[p] = mem[g].vectors[p]
                                /\ new.payloads[p] = mem[g].payloads[p]
  <2>1. /\ mem[g] \in SegmentState
        /\ \A p \in mem[g].mapping : mem[g].versions[p] <= mem[g].version /\ mem[g].vectors[p] \in Nat
    BY <1>0, <1>3, Zenon DEF RunType, SegInv
  <2> QED BY <2>1, WithoutFields
<1>7. new.mapping = mem[g].mapping \ deleted[t]
  <2>1. task[t].removed \cap mem[g].mapping = {}
    BY <1>0, <1>1, Zenon DEF BuiltInv
  <2> QED BY <1>6, <2>1, Zenon DEF LateDeletes
<1> HIDE DEF new
<1>8. /\ mem' \in [Segs -> SegmentState] /\ mem'[g] = new /\ \A s \in Segs \ {g} : mem'[s] = mem[s]
  <2>1. mem' = [mem EXCEPT ![g] = new] /\ mem \in [Segs -> SegmentState]
    BY <1>0, <1>1, Zenon DEF RunType
  <2> QED BY <1>3, <1>6, <2>1, Zenon
<1>9. /\ task' \in [Tasks -> [pc : {"idle", "proxied", "built", "swept", "swapped", "done", "failed"},
                              ids : SUBSET Segs, removed : SUBSET Points]]
      /\ task'[t].pc = "swapped" /\ task'[t].ids = task[t].ids
      /\ \A u \in Tasks \ {t} : task'[u] = task[u]
  <2>1. task' = [task EXCEPT ![t].pc = "swapped"]
    BY <1>1, Zenon
  <2> QED BY <1>0, <2>1, TaskMoves, Zenon
<1>10. ~ Wrapping(t)' /\ \A u \in Tasks \ {t} : Wrapping(u)' <=> Wrapping(u)
  BY <1>9, Zenon DEF Wrapping
<1>11. /\ holder' \in [Segs -> {Absent, Original} \cup Tasks]
       /\ \A s \in ids : holder'[s] = Absent
       /\ holder'[g] = Original
       /\ holder'[Tmp(t)] \in {Absent, Original}
       /\ mem[Tmp(t)].mapping # {} => holder'[Tmp(t)] = Original
       /\ \A s \in Segs : s \notin ids /\ s # g /\ s # Tmp(t) => holder'[s] = holder[s]
  <2>1. mem[Tmp(t)].mapping # {} => KeepsTmp(t)
    BY Zenon DEF KeepsTmp
  <2>2. holder \in [Segs -> {Absent, Original} \cup Tasks]
    BY <1>0, Zenon DEF RunType
  <2>3. holder' \in [Segs -> {Absent, Original} \cup Tasks]
    BY <1>2, <2>2, Zenon
  <2> QED BY <1>2, <1>3, <1>5, <2>1, <2>3, Zenon
<1>12. RunType'
  BY <1>0, <1>1, <1>8, <1>9, <1>11, Zenon DEF RunType
<1>13. \A u \in Tasks \ {t} : \A s \in Segs : holder'[s] = u <=> holder[s] = u
  BY <1>3, <1>4, <1>11, SMTT(30)
<1>14. ASSUME NEW u \in Tasks, Wrapping(u) PROVE Tmp(u) \notin ids /\ Out(u) \notin ids
  BY <1>0, <1>3, <1>4, <1>14, Distinct, SMTT(30) DEF TaskInv
<1>15. TaskInv'
  <2> SUFFICES ASSUME NEW u \in Tasks
               PROVE  /\ task'[u].pc = "idle" => mem'[Tmp(u)].mapping = {} /\ deleted'[u] = {}
                      /\ task'[u].pc = "idle" \/ Wrapping(u)' => holder'[Tmp(u)] = Absent /\ holder'[Out(u)] = Absent
                      /\ \A s \in Segs : holder'[s] = u <=> Wrapping(u)' /\ s \in task'[u].ids
                      /\ Wrapping(u)' => task'[u].ids # {}
    BY Zenon DEF TaskInv
  <2>1. CASE u = t
    <3>1. \A s \in Segs : holder'[s] # t
      BY <1>3, <1>4, <1>11, Zenon
    <3> QED BY <1>9, <1>10, <2>1, <3>1, Zenon
  <2>2. CASE u # t
    <3>1. /\ Tmp(u) \in Segs /\ Out(u) \in Segs /\ Tmp(u) # g /\ Tmp(u) # Tmp(t) /\ Out(u) # g /\ Out(u) # Tmp(t)
      BY <2>2, Distinct, Zenon
    <3>2. /\ task[u].pc = "idle" => mem[Tmp(u)].mapping = {} /\ deleted[u] = {}
          /\ task[u].pc = "idle" \/ Wrapping(u) => holder[Tmp(u)] = Absent /\ holder[Out(u)] = Absent
          /\ \A s \in Segs : holder[s] = u <=> Wrapping(u) /\ s \in task[u].ids
          /\ Wrapping(u) => task[u].ids # {}
      BY <1>0, Zenon DEF TaskInv
    <3>3. /\ holder[Tmp(u)] = Absent => holder'[Tmp(u)] = Absent
          /\ holder[Out(u)] = Absent => holder'[Out(u)] = Absent
      BY <1>11, <3>1, Zenon
    <3>4. task'[u] = task[u] /\ (Wrapping(u)' <=> Wrapping(u)) /\ mem'[Tmp(u)] = mem[Tmp(u)] /\ deleted' = deleted
      BY <1>1, <1>8, <1>9, <1>10, <2>2, <3>1, Zenon
    <3> QED BY <1>13, <2>2, <3>2, <3>3, <3>4, Zenon
  <2> QED BY <2>1, <2>2, Zenon
<1>16. SegInv'
  <2>1. mem[g].version < next /\ \A p \in mem[g].mapping : mem[g].versions[p] <= mem[g].version /\ mem[g].vectors[p] \in Nat
    BY <1>0, <1>3, Zenon DEF SegInv
  <2>2. new.version < next /\ \A p \in new.mapping : new.versions[p] <= new.version /\ new.vectors[p] \in Nat
    BY <1>6, <2>1, Zenon
  <2> QED BY <1>0, <1>1, <1>8, <2>2, Zenon DEF SegInv
<1>17. ASSUME NEW s \in Segs, s \notin ids, s # g, NEW p
       PROVE  (Shows(s, p)' <=> Shows(s, p)) /\ Content(s, p)' = Content(s, p)
  <2>1. mem'[s] = mem[s] /\ deleted' = deleted
    BY <1>1, <1>8, <1>17, Zenon
  <2>2. CASE s = Tmp(t)
    <3>1. p \in mem[s].mapping => holder'[s] = Original
      BY <1>11, <2>2, Zenon
    <3> QED BY <1>3, <2>1, <2>2, <3>1, Zenon DEF Shows, Open, Content
  <2>3. CASE s # Tmp(t)
    <3>1. holder'[s] = holder[s]
      BY <1>11, <1>17, <2>3, Zenon
    <3>2. Open(s)' <=> Open(s)
      BY <1>10, <2>3, <3>1, Zenon DEF Open
    <3> QED BY <2>1, <3>1, <3>2, Zenon DEF Shows, Proxied, Content
  <2> QED BY <2>2, <2>3, Zenon
<1>18. ASSUME NEW s \in ids, NEW p
       PROVE  ~ Shows(s, p)' /\ (Shows(s, p) <=> p \in mem[s].mapping /\ p \notin deleted[t])
  <2>1. holder[s] = t /\ holder'[s] = Absent
    BY <1>3, <1>11, Zenon
  <2>2. ~ Open(s) /\ ~ Open(s)'
    BY <1>4, <1>10, <1>14, <2>1, Distinct, Zenon DEF Open
  <2> QED BY <1>4, <2>1, <2>2, Distinct, Zenon DEF Shows, Proxied
<1>19. ~ Open(g) /\ ~ Proxied(g) /\ Open(g)'
  BY <1>3, <1>4, <1>11, Distinct, Zenon DEF Open, Proxied
<1>20. ASSUME NEW p
       PROVE  /\ ~ Shows(g, p)
              /\ Shows(g, p)' <=> \E s \in ids : Shows(s, p)
              /\ \A s \in ids : Shows(s, p) => Content(g, p)' = Content(s, p)
  <2>1. ~ Shows(g, p) /\ (Shows(g, p)' <=> p \in new.mapping)
    BY <1>8, <1>19, Zenon DEF Shows
  <2>2. p \in new.mapping <=> p \in mem[g].mapping /\ p \notin deleted[t]
    BY <1>7, Zenon
  <2>3. /\ p \in mem[g].mapping => \E s \in ids : p \in mem[s].mapping
        /\ \A s \in ids : p \in mem[s].mapping /\ p \notin deleted[t] =>
              p \in mem[g].mapping /\ Content(g, p) = Content(s, p)
    BY <1>0, <1>1, Zenon DEF BuiltInv
  <2>4. p \in new.mapping => Content(g, p)' = Content(g, p)
    BY <1>6, <1>8, Zenon DEF Content
  <2> QED BY <1>18, <2>1, <2>2, <2>3, <2>4, Zenon
<1>21. HomeInv'
  <2>1. ASSUME NEW s \in Segs, NEW r \in Segs, NEW p \in Points, Shows(s, p)', Shows(r, p)' PROVE s = r
    <3>1. s \notin ids /\ r \notin ids
      BY <1>18, <2>1, Zenon
    <3>2. CASE s = g /\ r = g
      BY <3>2, Zenon
    <3>3. CASE s = g /\ r # g
      <4>1. PICK q \in ids : Shows(q, p)
        BY <1>20, <2>1, <3>3, Zenon
      <4>2. Shows(r, p)
        BY <1>17, <2>1, <3>1, <3>3, Zenon
      <4> QED BY <1>0, <1>3, <3>1, <4>1, <4>2, Zenon DEF HomeInv
    <3>4. CASE s # g /\ r = g
      <4>1. PICK q \in ids : Shows(q, p)
        BY <1>20, <2>1, <3>4, Zenon
      <4>2. Shows(s, p)
        BY <1>17, <2>1, <3>1, <3>4, Zenon
      <4> QED BY <1>0, <1>3, <3>1, <4>1, <4>2, Zenon DEF HomeInv
    <3>5. CASE s # g /\ r # g
      <4>1. Shows(s, p) /\ Shows(r, p)
        BY <1>17, <2>1, <3>1, <3>5, Zenon
      <4> QED BY <1>0, <4>1, Zenon DEF HomeInv
    <3> QED BY <3>2, <3>3, <3>4, <3>5, Zenon
  <2>2. ASSUME NEW s \in Segs, NEW r \in Segs, Proxied(s)', holder'[r] = holder'[s], s # r
        PROVE  mem'[s].mapping \cap mem'[r].mapping = {}
    <3>1. PICK u \in Tasks : u = holder'[s]
      BY <2>2, Zenon DEF Proxied
    <3>2. u # t
      BY <1>15, <1>10, <3>1, SMTT(30) DEF TaskInv
    <3>3. holder[s] = u /\ holder[r] = u
      BY <1>13, <2>2, <3>1, <3>2, Zenon
    <3>4. s # g /\ r # g
      BY <1>3, <1>4, <3>3, Zenon
    <3>5. Proxied(s) /\ mem'[s] = mem[s] /\ mem'[r] = mem[r]
      BY <1>8, <3>3, <3>4, Zenon DEF Proxied
    <3> QED BY <1>0, <2>2, <3>3, <3>5, Zenon DEF HomeInv
  <2> QED BY <2>1, <2>2, Zenon DEF HomeInv
<1>22. BuiltInv'
  <2> SUFFICES ASSUME NEW u \in Tasks, task'[u].pc \in {"built", "swept"}
               PROVE  /\ \A p \in mem'[Out(u)].mapping : \E s \in task'[u].ids : p \in mem'[s].mapping
                      /\ \A s \in task'[u].ids : \A p \in mem'[s].mapping \ deleted'[u] :
                            p \in mem'[Out(u)].mapping /\ Content(Out(u), p)' = Content(s, p)'
                      /\ task'[u].pc = "swept" => task'[u].removed \cap mem'[Out(u)].mapping = {}
    BY Zenon DEF BuiltInv
  <2>1. u # t
    BY <1>9, Zenon
  <2>2. task[u] = task'[u] /\ Wrapping(u) /\ deleted' = deleted
    BY <1>1, <1>9, <2>1, Zenon DEF Wrapping
  <2>3. Out(u) \in Segs /\ Out(u) # g /\ task[u].ids \subseteq Segs
    BY <1>0, <2>1, Distinct, Zenon DEF RunType
  <2>4. \A s \in task[u].ids : s \in Segs /\ s # g
    BY <1>0, <1>3, <1>4, <2>2, <2>3, SMTT(30) DEF TaskInv
  <2>5. mem'[Out(u)] = mem[Out(u)] /\ \A s \in task[u].ids : mem'[s] = mem[s]
    BY <1>8, <2>3, <2>4, Zenon
  <2>6. \A s \in task[u].ids : \A p : Content(s, p)' = Content(s, p) /\ Content(Out(u), p)' = Content(Out(u), p)
    BY <2>5, Zenon DEF Content
  <2> QED BY <1>0, <2>2, <2>5, <2>6, SMTT(30) DEF BuiltInv
<1>23. OpInv'
  BY <1>1, Zenon DEF OpInv, Idle
<1>24. ASSUME NEW p, NEW ref, Settled(p, ref) PROVE Settled(p, ref)'
  <2>1. ASSUME NEW s \in Segs, Shows(s, p) PROVE \E r \in Segs : Shows(r, p)'
    <3>1. CASE s \in ids
      BY <1>3, <1>20, <2>1, <3>1, Zenon
    <3>2. CASE s \notin ids
      BY <1>17, <1>20, <2>1, <3>2, Zenon
    <3> QED BY <3>1, <3>2, Zenon
  <2>2. ASSUME NEW s \in Segs, Shows(s, p)' PROVE \E r \in Segs : Shows(r, p) /\ Content(s, p)' = Content(r, p)
    <3>1. CASE s = g
      BY <1>3, <1>20, <2>2, <3>1, Zenon
    <3>2. CASE s # g
      BY <1>17, <1>18, <2>2, <3>2, Zenon
    <3> QED BY <3>1, <3>2, Zenon
  <2>3. (\E s \in Segs : Shows(s, p)') <=> \E s \in Segs : Shows(s, p)
    BY <2>1, <2>2, Zenon
  <2>4. \A s \in Segs : Shows(s, p)' => Content(s, p)' = ref
    BY <1>24, <2>2, Zenon DEF Settled
  <2> QED BY <1>24, <2>3, <2>4, Zenon DEF Settled
<1>25. CopyInv'
  BY <1>0, <1>1, <1>24, Zenon DEF CopyInv, Idle
<1> QED BY <1>12, <1>15, <1>16, <1>21, <1>22, <1>23, <1>25, Zenon DEF RunInv
-----------------------------------------------------------------------------
(* The theorem                                                             *)

Steady == crashes \in Nat /\ (Undisturbed => RunInv)

\* Only a crash is counted.
LEMMA CrashesCounted ==
    ASSUME crashes \in Nat, [Next]_vars PROVE crashes' \in Nat /\ (crashes' = crashes \/ crashes' # 0)
<1>1. CASE Crash
  BY <1>1 DEF Crash
<1>2. ASSUME ~ Crash, Next PROVE crashes' = crashes
  BY <1>2, Zenon DEF Next, Write, StartOp, VisitMiss, VisitDelete, VisitApplied, VisitUpdate, Finish, Wrap, Build,
              BuildFails, Sweep, Swap, DropData, Cancel, AddTmp, BeginFlush, FlushVisit, FlushThread,
              EndFlush, ReplayDone
<1>3. CASE UNCHANGED vars
  BY <1>3, Zenon DEF vars
<1> QED BY <1>1, <1>2, <1>3, Zenon

\* A step of the shard
LEMMA RunStep == Steady /\ [Next]_vars => Steady'
<1> SUFFICES ASSUME Steady, [Next]_vars, Undisturbed' PROVE RunInv'
  BY CrashesCounted, Zenon DEF Steady
<1> USE DEF Undisturbed
<1>1. ASSUME UNCHANGED vars PROVE RunInv'
  <2>1. Undisturbed /\ UNCHANGED <<log, next, cur, holder, mem, deleted, task>>
    BY <1>1, Zenon DEF vars, stored
  <2> QED BY <2>1, FrameStep, Zenon DEF Steady
<1>2. CASE \E op \in Ops : Write(op)
  <2>1. PICK op \in Ops : Write(op)
    BY <1>2, Zenon
  <2>2. Undisturbed
    BY <2>1, Zenon DEF Write
  <2> QED BY <2>1, <2>2, WriteStep, Zenon DEF Steady
<1>3. CASE StartOp
  <2>1. Undisturbed
    BY <1>3, Zenon DEF StartOp
  <2> QED BY <1>3, <2>1, StartStep, Zenon DEF Steady
<1>4. ASSUME NEW s \in Segs, VisitMiss(s) \/ VisitDelete(s) \/ VisitApplied(s) \/ VisitUpdate(s) PROVE RunInv'
  <2>1. Undisturbed
    BY <1>4, Zenon DEF VisitMiss, VisitDelete, VisitApplied, VisitUpdate
  <2> QED BY <1>4, <2>1, MissStep, DeleteStep, AppliedStep, UpdateStep, Zenon DEF Steady
<1>5. CASE Finish
  <2>1. Undisturbed
    BY <1>5, Zenon DEF Finish
  <2> QED BY <1>5, <2>1, FinishStep, Zenon DEF Steady
<1>6. ASSUME NEW t \in Tasks, \E ids \in SUBSET (workload.optimizable \cap Held) : Wrap(t, ids) PROVE RunInv'
  <2>1. PICK ids \in SUBSET Held : Wrap(t, ids)
    BY <1>6, Zenon
  <2>2. Undisturbed
    BY <2>1, Zenon DEF Wrap
  <2> QED BY <2>1, <2>2, WrapStep, Zenon DEF Steady
<1>7. ASSUME NEW t \in Tasks, Build(t) \/ BuildFails(t) \/ Sweep(t) \/ Swap(t) \/ DropData(t) PROVE RunInv'
  <2>1. Undisturbed
    BY <1>7, Zenon DEF Build, BuildFails, Sweep, Swap, DropData
  <2> QED BY <1>7, <2>1, BuildStep, BuildFailsStep, SweepStep, SwapStep, DropDataStep, Zenon DEF Steady
<1>8. ASSUME NEW t \in Tasks, Cancel(t) PROVE FALSE
  BY <1>8, Zenon DEF Cancel
<1>9. ASSUME NEW t \in Tasks, AddTmp(t) PROVE FALSE
  <2>1. Undisturbed /\ task[t].pc = "unwrapped"
    BY <1>9, Zenon DEF AddTmp, Moves
  <2>2. RunType
    BY <2>1, Zenon DEF Steady, RunInv
  <2> QED BY <2>1, <2>2, Zenon DEF RunType
<1>10. CASE BeginFlush \/ EndFlush \/ ReplayDone \/ \E s \in Segs : FlushVisit(s) \/ FlushThread(s)
  <2>1. UNCHANGED <<log, next, cur, holder, mem, deleted, task, crashes, workload>>
    BY <1>10, Zenon DEF BeginFlush, EndFlush, ReplayDone, FlushVisit, FlushThread
  <2>2. Undisturbed
    BY <2>1, Zenon
  <2> QED BY <2>1, <2>2, FrameStep, Zenon DEF Steady
<1>11. ASSUME Crash PROVE FALSE
  BY <1>11 DEF Crash, Steady
<1> QED BY <1>1, <1>2, <1>3, <1>4, <1>5, <1>6, <1>7, <1>8, <1>9, <1>10, <1>11, ZenonT(30) DEF Next

\* EveryCopyCurrent: whatever optimizations are under way or have just ended, a
\* reader of the holder finds every point exactly as the operations applied so
\* far left it and no outdated or deleted copy of it, until the first crash and
\* as long as no optimization is cancelled.
THEOREM ReadersSeeTheLog == Spec => []EveryCopyCurrent
<1>1. Init => Steady
  <2>1. Init => crashes \in Nat
    BY DEF Init
  <2> QED BY <2>1, RunInit, Zenon DEF Steady
<1>2. Steady => EveryCopyCurrent
  <2> SUFFICES ASSUME RunInv, cur = Idle, NEW p \in Points
               PROVE  /\ Copies(p) = {} <=> Reference[p] = Store!Absent
                      /\ \A s \in Copies(p) : Content(s, p) = Reference[p]
    BY Zenon DEF Steady, EveryCopyCurrent, AtRest, Undisturbed
  <2>1. Settled(p, Reference[p])
    BY Zenon DEF RunInv, CopyInv, Idle, Reference
  <2>2. Copies(p) = {s \in Segs : Shows(s, p)}
    BY CopiesAreShown, Zenon DEF RunInv
  <2> QED BY <2>1, <2>2, Zenon DEF Settled
<1> QED BY <1>1, <1>2, RunStep, PTL DEF Spec
=============================================================================
