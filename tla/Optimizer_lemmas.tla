-------------------------- MODULE Optimizer_lemmas --------------------------
(***************************************************************************)
(* Optimizations never show: until a crash, and as long as none of them is *)
(* cancelled, a reader of the holder finds every point exactly as the      *)
(* operations applied so far left it, for any segments, points, operations *)
(* and any number of optimizations at the same time.  Here are the         *)
(* reference, the invariant (RunInv) and what the updates do to it;        *)
(* Optimizer_proofs has the rest.  Before that, a theorem about the        *)
(* directories, which also holds through crashes and cancellations.        *)
(***************************************************************************)
EXTENDS Optimizer, WellFoundedInduction, TLAPS

\* The segments of the optimizations are new ones.
LEMMA Distinct ==
    /\ \A t \in Tasks : Tmp(t) \in Segs /\ Out(t) \in Segs /\ t # Absent /\ t # Original
    /\ \A t, u \in Tasks : Tmp(t) # Out(u) /\ (Tmp(t) = Tmp(u) => t = u) /\ (Out(t) = Out(u) => t = u)
    /\ Absent # Original
BY OptimizerAssumption, Zenon DEF Segs, Tmp, Out, Absent, Original

-----------------------------------------------------------------------------
(* The directories, crashes and cancellations included                     *)

Stages == {"idle", "proxied", "built", "swept", "swapped", "done", "failed", "unwrapped", "cancelled", "lost"}
Wrapped == {"proxied", "built", "swept", "failed"}

IsTask(r) ==
    /\ DOMAIN r = {"pc", "ids", "removed"} /\ r = [f \in {"pc", "ids", "removed"} |-> r[f]]
    /\ r.pc \in Stages /\ r.ids \in SUBSET Segs

TasksAre(tasks) ==
    /\ DOMAIN tasks = Tasks /\ tasks = [t \in Tasks |-> tasks[t]]
    /\ \A t \in Tasks : IsTask(tasks[t])

DirType ==
    /\ holder \in [Segs -> {Absent, Original} \cup Tasks]
    /\ TasksAre(task)

\* The proxies are those of the optimizations that have wrapped their segments
\* and not given them back; what an optimization has replaced is not held.
ProxyInv ==
    \A t \in Tasks :
        /\ \A s \in Segs : holder[s] = t <=> task[t].pc \in Wrapped /\ s \in task[t].ids
        /\ task[t].pc = "swapped" => \A s \in task[t].ids : holder[s] = Absent

\* Nobody has the new segments of an optimization before it adds them.
FreshInv ==
    \A t \in Tasks :
        /\ task[t].pc \in Wrapped \cup {"idle", "unwrapped"} =>
              holder[Tmp(t)] = Absent /\ \A u \in Tasks : Tmp(t) \notin task[u].ids
        /\ task[t].pc \in Wrapped \cup {"idle"} =>
              holder[Out(t)] = Absent /\ \A u \in Tasks : Out(t) \notin task[u].ids

\* What is held or will be has its directory.
KeptInv ==
    /\ Held \subseteq dirs
    /\ \A t \in Tasks :
          /\ task[t].pc \in Wrapped \cup {"unwrapped"} => Tmp(t) \in dirs
          /\ task[t].pc \in {"built", "swept"} => Out(t) \in dirs
          /\ task[t].pc = "idle" => Tmp(t) \notin dirs /\ Out(t) \notin dirs

DirInv == DirType /\ ProxyInv /\ FreshInv /\ KeptInv

\* An optimization goes on to another stage.
LEMMA StageMoves ==
    ASSUME DirType, NEW t \in Tasks, NEW x \in Stages, NEW r,
           \/ task' = [task EXCEPT ![t].pc = x]
           \/ task' = [task EXCEPT ![t].pc = x, ![t].removed = r]
    PROVE  TasksAre(task') /\ task'[t].pc = x /\ task'[t].ids = task[t].ids
           /\ \A u \in Tasks \ {t} : task'[u] = task[u]
<1>1. task'[t].pc = x /\ task'[t].ids = task[t].ids /\ \A u \in Tasks \ {t} : task'[u] = task[u]
  BY DEF DirType, TasksAre, IsTask
<1>2. IsTask(task'[t])
  BY DEF DirType, TasksAre, IsTask
<1>3. DOMAIN task' = Tasks /\ task' = [u \in Tasks |-> task'[u]]
  BY DEF DirType, TasksAre
<1> QED BY <1>1, <1>2, <1>3, Zenon DEF DirType, TasksAre

\* Wrapping
LEMMA WrapDirs == ASSUME DirInv, NEW t \in Tasks, NEW ids \in SUBSET Held, Wrap(t, ids) PROVE DirInv'
<1>0. DirType /\ ProxyInv /\ FreshInv /\ KeptInv
  BY Zenon DEF DirInv
<1>1. /\ task[t].pc = "idle" /\ \A s \in ids : holder[s] = Original
      /\ task' = [task EXCEPT ![t] = [pc |-> "proxied", ids |-> ids, removed |-> {}]]
      /\ holder' = [s \in Segs |-> IF s \in ids THEN t ELSE holder[s]]
      /\ dirs' = dirs \cup {Tmp(t)}
  BY Zenon DEF Wrap
<1>2. ids \in SUBSET Segs /\ Held \in SUBSET Segs
  BY Zenon DEF Held
<1>4. /\ task'[t].pc = "proxied" /\ task'[t].ids = ids
      /\ \A u \in Tasks \ {t} : task'[u] = task[u]
  BY <1>0, <1>1, Zenon DEF DirType, TasksAre, IsTask
<1>3. DirType'
  <2>1. IsTask(task'[t])
    BY <1>0, <1>1, <1>2, Zenon DEF DirType, TasksAre, IsTask, Stages
  <2>2. DOMAIN task' = Tasks /\ task' = [u \in Tasks |-> task'[u]]
    BY <1>0, <1>1, Zenon DEF DirType, TasksAre
  <2>3. TasksAre(task')
    BY <1>0, <1>4, <2>1, <2>2, Zenon DEF DirType, TasksAre
  <2> QED BY <1>0, <1>1, <2>3, Zenon DEF DirType
<1>5. \A s \in Segs : holder'[s] = IF s \in ids THEN t ELSE holder[s]
  BY <1>1, Zenon
<1>6. ProxyInv'
  BY <1>0, <1>1, <1>2, <1>3, <1>4, <1>5, Distinct DEF ProxyInv, Wrapped, DirType, TasksAre, IsTask
<1>7. FreshInv'
  BY <1>0, <1>1, <1>2, <1>4, <1>5, Distinct DEF FreshInv, Wrapped
<1>8. KeptInv'
  BY <1>0, <1>1, <1>2, <1>4, <1>5, Distinct, Zenon DEF KeptInv, Wrapped, Held
<1> QED BY <1>3, <1>6, <1>7, <1>8, Zenon DEF DirInv

\* The steps between wrapping and swapping change nothing that is held.
LEMMA StageDirs ==
    ASSUME DirInv, NEW t \in Tasks, NEW x \in Wrapped, task[t].pc \in {"proxied", "built"},
           DirType', task'[t].pc = x, task'[t].ids = task[t].ids, \A u \in Tasks \ {t} : task'[u] = task[u],
           holder' = holder, dirs \subseteq dirs', dirs' \subseteq dirs \cup {Out(t)},
           x \in {"built", "swept"} => Out(t) \in dirs'
    PROVE  DirInv'
<1>0. DirType /\ ProxyInv /\ FreshInv /\ KeptInv
  BY Zenon DEF DirInv
<1>1. ProxyInv'
  BY <1>0 DEF ProxyInv, Wrapped
<1>2. FreshInv'
  BY <1>0, Zenon DEF FreshInv, Wrapped
<1>3. KeptInv'
  BY <1>0, Distinct, Zenon DEF KeptInv, Wrapped, Held
<1> QED BY <1>1, <1>2, <1>3, Zenon DEF DirInv

\* Swapping
LEMMA SwapDirs == ASSUME DirInv, NEW t \in Tasks, Swap(t) PROVE DirInv'
<1>0. DirType /\ ProxyInv /\ FreshInv /\ KeptInv
  BY Zenon DEF DirInv
<1>1. /\ task[t].pc = "swept" /\ task' = [task EXCEPT ![t].pc = "swapped"] /\ dirs' = dirs
      /\ \A s \in Segs : holder'[s] = IF s \in task[t].ids THEN Absent
                                      ELSE IF s = Out(t) \/ (s = Tmp(t) /\ KeepsTmp(t)) THEN Original
                                      ELSE holder[s]
      /\ DOMAIN holder' = Segs
      /\ holder' = [s \in Segs |-> IF s \in task[t].ids THEN Absent
                                 ELSE IF s = Out(t) \/ (s = Tmp(t) /\ KeepsTmp(t)) THEN Original
                                 ELSE holder[s]]
  BY Zenon DEF Swap, Moves
<1>2. /\ TasksAre(task')
      /\ task'[t].pc = "swapped" /\ task'[t].ids = task[t].ids
      /\ \A u \in Tasks \ {t} : task'[u] = task[u]
  BY <1>0, <1>1, StageMoves, Zenon DEF Stages
<1>3. DirType'
  BY <1>0, <1>1, <1>2, Zenon DEF DirType
<1>4. task[t].ids \in SUBSET Segs
  BY <1>0, Zenon DEF DirType, TasksAre, IsTask
<1>5. ProxyInv'
  <2>1. \A u \in Tasks : task[u].ids \in SUBSET Segs
    BY <1>0, Zenon DEF DirType, TasksAre, IsTask
  <2>2. ASSUME NEW u \in Tasks, NEW s \in Segs
        PROVE  holder'[s] = u <=> task'[u].pc \in Wrapped /\ s \in task'[u].ids
    BY <1>0, <1>1, <1>2, <1>4, Distinct DEF ProxyInv, FreshInv, Wrapped
  <2>3. ASSUME NEW u \in Tasks, task'[u].pc = "swapped", NEW s \in task'[u].ids PROVE holder'[s] = Absent
    BY <1>0, <1>1, <1>2, <1>4, <2>1, <2>3, Distinct DEF ProxyInv, FreshInv, Wrapped
  <2> QED BY <2>2, <2>3, Zenon DEF ProxyInv
<1>6. FreshInv'
  BY <1>0, <1>1, <1>2, <1>4, Distinct DEF FreshInv, Wrapped
<1>7. KeptInv'
  BY <1>0, <1>1, <1>2, <1>4, Distinct DEF KeptInv, Wrapped, Held
<1> QED BY <1>3, <1>5, <1>6, <1>7, Zenon DEF DirInv

\* Removing what was replaced
LEMMA DropDirs == ASSUME DirInv, NEW t \in Tasks, DropData(t) PROVE DirInv'
<1>0. DirType /\ ProxyInv /\ FreshInv /\ KeptInv
  BY Zenon DEF DirInv
<1>1. /\ task[t].pc = "swapped" /\ task' = [task EXCEPT ![t].pc = "done"] /\ holder' = holder
      /\ dirs' = dirs \ (task[t].ids \cup (IF holder[Tmp(t)] = Absent THEN {Tmp(t)} ELSE {}))
  BY Zenon DEF DropData, Moves
<1>2. /\ TasksAre(task')
      /\ task'[t].pc = "done" /\ task'[t].ids = task[t].ids
      /\ \A u \in Tasks \ {t} : task'[u] = task[u]
  BY <1>0, <1>1, StageMoves, Zenon DEF Stages
<1>3. DirType'
  BY <1>0, <1>1, <1>2, Zenon DEF DirType, TasksAre, IsTask
<1>5. ProxyInv'
  BY <1>0, <1>1, <1>2 DEF ProxyInv, Wrapped
<1>6. FreshInv'
  BY <1>0, <1>1, <1>2, Zenon DEF FreshInv, Wrapped
<1>7. KeptInv'
  <2>1. Held' = Held /\ \A s \in Held : s \notin task[t].ids
    BY <1>0, <1>1, Zenon DEF Held, ProxyInv
  <2>2. Held' \subseteq dirs'
    BY <1>0, <1>1, <2>1, Zenon DEF KeptInv, Held
  <2>3. \A u \in Tasks \ {t} : /\ task[u].pc \in Wrapped \cup {"unwrapped"} => Tmp(u) \notin task[t].ids
                               /\ task[u].pc \in {"built", "swept"} => Out(u) \notin task[t].ids
    BY <1>0, Zenon DEF FreshInv, Wrapped
  <2> QED BY <1>0, <1>1, <1>2, <2>2, <2>3, Distinct, Zenon DEF KeptInv, Wrapped
<1> QED BY <1>3, <1>5, <1>6, <1>7, Zenon DEF DirInv

\* Giving the wrapped segments back
LEMMA CancelDirs == ASSUME DirInv, NEW t \in Tasks, Cancel(t) PROVE DirInv'
<1>0. DirType /\ ProxyInv /\ FreshInv /\ KeptInv
  BY Zenon DEF DirInv
<1>1. /\ task[t].pc \in {"proxied", "built", "swept"} /\ task' = [task EXCEPT ![t].pc = "unwrapped"]
      /\ dirs' = dirs
      /\ holder' = [s \in Segs |-> IF s \in task[t].ids THEN Original ELSE holder[s]]
  BY Zenon DEF Cancel, stored
<1>2. /\ TasksAre(task')
      /\ task'[t].pc = "unwrapped" /\ task'[t].ids = task[t].ids
      /\ \A u \in Tasks \ {t} : task'[u] = task[u]
  BY <1>0, <1>1, StageMoves, Zenon DEF Stages
<1>3. DirType'
  BY <1>0, <1>1, <1>2, Zenon DEF DirType
<1>4. task[t].ids \in SUBSET Segs /\ \A s \in Segs : holder'[s] = IF s \in task[t].ids THEN Original ELSE holder[s]
  BY <1>0, <1>1, Zenon DEF DirType, TasksAre, IsTask
<1>5. ProxyInv'
  <2>1. \A u \in Tasks : task[u].ids \in SUBSET Segs
    BY <1>0, Zenon DEF DirType, TasksAre, IsTask
  <2>2. ASSUME NEW u \in Tasks, NEW s \in Segs
        PROVE  holder'[s] = u <=> task'[u].pc \in Wrapped /\ s \in task'[u].ids
    BY <1>0, <1>1, <1>2, <1>4, Distinct DEF ProxyInv, FreshInv, Wrapped
  <2>3. ASSUME NEW u \in Tasks, task'[u].pc = "swapped", NEW s \in task'[u].ids PROVE holder'[s] = Absent
    BY <1>0, <1>1, <1>2, <1>4, <2>1, <2>3, Distinct DEF ProxyInv, FreshInv, Wrapped
  <2> QED BY <2>2, <2>3, Zenon DEF ProxyInv
<1>6. FreshInv'
  BY <1>0, <1>1, <1>2, <1>4, Distinct, Zenon DEF FreshInv, Wrapped
<1>7. KeptInv'
  <2>1. Held' = Held
    BY <1>0, <1>1, <1>4, Distinct DEF Held, ProxyInv, Wrapped
  <2> QED BY <1>0, <1>1, <1>2, <2>1, Zenon DEF KeptInv, Wrapped
<1> QED BY <1>3, <1>5, <1>6, <1>7, Zenon DEF DirInv

\* The write segment joins them.
LEMMA AddTmpDirs == ASSUME DirInv, NEW t \in Tasks, AddTmp(t) PROVE DirInv'
<1>0. DirType /\ ProxyInv /\ FreshInv /\ KeptInv
  BY Zenon DEF DirInv
<1>1. /\ task[t].pc = "unwrapped" /\ task' = [task EXCEPT ![t].pc = "cancelled"] /\ dirs' = dirs
      /\ holder' = holder \/ holder' = [holder EXCEPT ![Tmp(t)] = Original]
  BY Zenon DEF AddTmp, Moves, stored
<1>2. /\ TasksAre(task')
      /\ task'[t].pc = "cancelled" /\ task'[t].ids = task[t].ids
      /\ \A u \in Tasks \ {t} : task'[u] = task[u]
  BY <1>0, <1>1, StageMoves, Zenon DEF Stages
<1>3. DirType'
  BY <1>0, <1>1, <1>2, Zenon DEF DirType
<1>4. /\ \A s \in Segs : s # Tmp(t) => holder'[s] = holder[s]
      /\ holder[Tmp(t)] = Absent /\ holder'[Tmp(t)] \in {Absent, Original} /\ Tmp(t) \in dirs
  BY <1>0, <1>1, Distinct, Zenon DEF DirType, FreshInv, KeptInv
<1>5. ProxyInv'
  <2>1. \A u \in Tasks : task[u].ids \in SUBSET Segs
    BY <1>0, Zenon DEF DirType, TasksAre, IsTask
  <2>2. ASSUME NEW u \in Tasks, NEW s \in Segs
        PROVE  holder'[s] = u <=> task'[u].pc \in Wrapped /\ s \in task'[u].ids
    BY <1>0, <1>1, <1>2, <1>4, Distinct DEF ProxyInv, FreshInv, Wrapped
  <2>3. ASSUME NEW u \in Tasks, task'[u].pc = "swapped", NEW s \in task'[u].ids PROVE holder'[s] = Absent
    BY <1>0, <1>1, <1>2, <1>4, <2>1, <2>3, Distinct DEF ProxyInv, FreshInv, Wrapped
  <2> QED BY <2>2, <2>3, Zenon DEF ProxyInv
<1>6. FreshInv'
  BY <1>0, <1>1, <1>2, <1>4, Distinct DEF FreshInv, Wrapped
<1>7. KeptInv'
  BY <1>0, <1>1, <1>2, <1>4, Zenon DEF KeptInv, Wrapped, Held
<1> QED BY <1>3, <1>5, <1>6, <1>7, Zenon DEF DirInv

\* Loading the directories
LEMMA CrashDirs == ASSUME DirInv, Crash PROVE DirInv'
<1>0. DirType /\ ProxyInv /\ FreshInv /\ KeptInv
  BY Zenon DEF DirInv
<1>1. /\ holder' = [s \in Segs |-> IF s \in dirs THEN Original ELSE Absent] /\ dirs' = dirs
      /\ task' = [t \in Tasks |-> [task[t] EXCEPT !.pc = IF @ = "idle" THEN "idle" ELSE "lost"]]
  BY Zenon DEF Crash
<1>2. \A t \in Tasks : /\ IsTask(task'[t])
                       /\ task'[t].ids = task[t].ids
                       /\ task'[t].pc = IF task[t].pc = "idle" THEN "idle" ELSE "lost"
  <2> TAKE t \in Tasks
  <2>1. IsTask(task[t])
    BY <1>0, Zenon DEF DirType, TasksAre
  <2>2. task'[t] = [task[t] EXCEPT !.pc = IF @ = "idle" THEN "idle" ELSE "lost"]
    BY <1>1, Zenon
  <2> QED BY <2>1, <2>2 DEF IsTask, Stages
<1>3. DirType'
  BY <1>1, <1>2, Zenon DEF DirType, TasksAre
<1>4. \A s \in Segs : holder'[s] = IF s \in dirs THEN Original ELSE Absent
  BY <1>1, Zenon
<1>5. ProxyInv'
  BY <1>2, <1>4, Distinct, Zenon DEF ProxyInv, Wrapped
<1>6. FreshInv'
  BY <1>0, <1>2, <1>4, Distinct, Zenon DEF FreshInv, KeptInv, Wrapped
<1>7. KeptInv'
  BY <1>0, <1>1, <1>2, <1>4, Distinct DEF KeptInv, Wrapped, Held
<1> QED BY <1>3, <1>5, <1>6, <1>7, Zenon DEF DirInv

\* Everything else leaves the holder, the optimizations and the directories alone.
LEMMA DirStep == DirInv /\ [Next]_vars => DirInv'
<1> SUFFICES ASSUME DirInv, [Next]_vars PROVE DirInv'
  BY Zenon
<1>1. ASSUME UNCHANGED <<holder, task, dirs>> PROVE DirInv'
  BY <1>1, Zenon DEF DirInv, DirType, ProxyInv, FreshInv, KeptInv, Held
<1>2. ASSUME NEW t \in Tasks, Build(t) \/ BuildFails(t) \/ Sweep(t) PROVE DirInv'
  <2>0. DirType /\ KeptInv
    BY Zenon DEF DirInv
  <2>1. CASE Build(t)
    <3>1. /\ task[t].pc = "proxied" /\ task' = [task EXCEPT ![t].pc = "built"] /\ holder' = holder
          /\ dirs' = dirs \cup {Out(t)}
      BY <2>1, Zenon DEF Build, Moves
    <3>2. /\ TasksAre(task')
          /\ task'[t].pc = "built" /\ task'[t].ids = task[t].ids
          /\ \A u \in Tasks \ {t} : task'[u] = task[u]
      BY <2>0, <3>1, StageMoves, Zenon DEF Stages
    <3> QED BY <2>0, <3>1, <3>2, StageDirs, Zenon DEF DirType, Wrapped
  <2>2. CASE BuildFails(t)
    <3>1. /\ task[t].pc = "proxied" /\ task' = [task EXCEPT ![t].pc = "failed"] /\ holder' = holder
          /\ dirs' = dirs
      BY <2>2, Zenon DEF BuildFails, Moves, stored
    <3>2. /\ TasksAre(task')
          /\ task'[t].pc = "failed" /\ task'[t].ids = task[t].ids
          /\ \A u \in Tasks \ {t} : task'[u] = task[u]
      BY <2>0, <3>1, StageMoves, Zenon DEF Stages
    <3> QED BY <2>0, <3>1, <3>2, StageDirs, Zenon DEF DirType, Wrapped
  <2>3. CASE Sweep(t)
    <3> DEFINE gone == deleted[t] \ mem[Out(t)].mapping
    <3>1. /\ task[t].pc = "built" /\ task' = [task EXCEPT ![t].pc = "swept", ![t].removed = gone]
          /\ holder' = holder /\ dirs' = dirs
      BY <2>3, Zenon DEF Sweep, stored
    <3>2. /\ TasksAre(task')
          /\ task'[t].pc = "swept" /\ task'[t].ids = task[t].ids
          /\ \A u \in Tasks \ {t} : task'[u] = task[u]
      BY <2>0, <3>1, StageMoves, Zenon DEF Stages
    <3> QED BY <2>0, <3>1, <3>2, StageDirs, Zenon DEF DirType, KeptInv, Wrapped
  <2> QED BY <1>2, <2>1, <2>2, <2>3, Zenon
<1>3. ASSUME NEW t \in Tasks, NEW ids \in SUBSET (workload.optimizable \cap Held), Wrap(t, ids) PROVE DirInv'
  BY <1>3, WrapDirs, Zenon
<1>4. ASSUME NEW t \in Tasks, Swap(t) \/ DropData(t) \/ Cancel(t) \/ AddTmp(t) PROVE DirInv'
  BY <1>4, SwapDirs, DropDirs, CancelDirs, AddTmpDirs, Zenon
<1>5. CASE Crash
  BY <1>5, CrashDirs, Zenon
<1>6. ASSUME NEW op \in Ops, Write(op) PROVE UNCHANGED <<holder, task, dirs>>
  BY <1>6, Zenon DEF Write, stored
<1>7. ASSUME NEW s \in Segs, VisitMiss(s) \/ VisitDelete(s) \/ VisitApplied(s) \/ VisitUpdate(s)
      PROVE  UNCHANGED <<holder, task, dirs>>
  BY <1>7, Zenon DEF VisitMiss, VisitDelete, VisitApplied, VisitUpdate, stored
<1>8. ASSUME StartOp \/ Finish \/ BeginFlush \/ EndFlush \/ ReplayDone PROVE UNCHANGED <<holder, task, dirs>>
  BY <1>8, Zenon DEF StartOp, Finish, BeginFlush, EndFlush, ReplayDone, stored
<1>9. ASSUME NEW s \in Segs, FlushVisit(s) \/ FlushThread(s) PROVE UNCHANGED <<holder, task, dirs>>
  BY <1>9, Zenon DEF FlushVisit, FlushThread
<1>10. CASE UNCHANGED vars
  BY <1>1, <1>10, Zenon DEF vars, stored
<1> QED BY <1>1, <1>2, <1>3, <1>4, <1>5, <1>6, <1>7, <1>8, <1>9, <1>10, Zenon DEF Next

\* No directory in use is ever missing: whatever optimizations, failures, cancellations,
\* flushes and crashes follow each other, a segment of the holder has its directory, and
\* a wrapped one is an input of the optimization that wrapped it, whose write segment has
\* its directory as well (drop_data removes only what the swap has replaced).
THEOREM SegmentsHaveDirectories == Spec => []HeldHasDirectory
<1>1. Init => DirInv
  <2> SUFFICES ASSUME Init PROVE DirInv
    BY Zenon
  <2>1. /\ \A s \in Segs : holder[s] = IF s \in Initial THEN Original ELSE Absent
        /\ \A t \in Tasks : task[t] = [pc |-> "idle", ids |-> {}, removed |-> {}]
        /\ dirs = Initial
    BY Zenon DEF Init, NoTask
  <2>2. \A t \in Tasks : Tmp(t) \notin Initial /\ Out(t) \notin Initial
    BY OptimizerAssumption
  <2>3. DirType
    BY Zenon DEF Init, DirType, TasksAre, IsTask, NoTask, Stages
  <2>4. ProxyInv
    BY <2>1, Distinct DEF ProxyInv, Wrapped
  <2>5. FreshInv
    BY <2>1, <2>2, Distinct DEF FreshInv
  <2>6. KeptInv
    BY <2>1, <2>2 DEF KeptInv, Wrapped, Held
  <2> QED BY <2>3, <2>4, <2>5, <2>6, Zenon DEF DirInv
<1>2. DirInv => HeldHasDirectory
  BY Zenon DEF DirInv, ProxyInv, KeptInv, HeldHasDirectory, Held, Proxied
<1> QED BY <1>1, <1>2, DirStep, PTL DEF Spec

-----------------------------------------------------------------------------
(* The reference, operation by operation                                   *)

\* Induction over the natural numbers, from the well-founded order of them
LEMMA Least == ASSUME NEW T \in SUBSET Nat, T # {} PROVE \E n \in T : \A m \in T : n <= m
<1> DEFINE R == OpToRel(<, Nat)
<1>1. IsWellFoundedOn(R, Nat)
  BY NatLessThanWellFounded, Zenon
<1>2. \A x, y \in Nat : <<y, x>> \in R <=> y < x
  BY Zenon DEF OpToRel
<1> HIDE DEF R
<1>3. PICK x \in T : \A y \in T : ~ (<<y, x>> \in R)
  BY <1>1, WFMin, Zenon
<1>4. \A y \in T : ~ (y < x)
  BY <1>2, <1>3, Zenon
<1> QED BY <1>4

\* What holds of 0 and goes on from n to n + 1 holds of every number.
LEMMA InductionOnNat ==
    ASSUME NEW S, 0 \in S, \A n \in Nat : n \in S => n + 1 \in S
    PROVE  Nat \subseteq S
<1> SUFFICES ASSUME NEW m \in Nat, m \notin S PROVE FALSE
  BY Zenon
<1> DEFINE T == {n \in Nat : n \notin S}
<1>1. PICK n \in T : \A k \in T : n <= k
  BY Least, Zenon
<1>2. n # 0 /\ n - 1 \in Nat /\ n - 1 \notin T
  BY <1>1
<1> QED BY <1>1, <1>2

\* f is the function that the definition of PointStore's After chooses.
Unfolds(ops, k, f) ==
    f = [i \in 0 .. k |-> IF i = 0 THEN StartPoints
                          ELSE [f[i - 1] EXCEPT ![ops[i].point] = Store!Effect(ops[i].kind, 1 + i - 1, @)]]

\* One operation
StepOf(ops, i, store0) ==
    [store0 EXCEPT ![ops[i].point] = Store!Effect(ops[i].kind, 1 + i - 1, @)]

\* Such a function starts with the points at the beginning and makes one operation a step.
LEMMA UnfoldsAt ==
    ASSUME NEW ops, NEW k \in Nat, NEW f, Unfolds(ops, k, f)
    PROVE  f[0] = StartPoints /\ \A i \in 1 .. k : f[i] = StepOf(ops, i, f[i - 1])
<1> DEFINE h == [i \in 0 .. k |-> IF i = 0 THEN StartPoints ELSE StepOf(ops, i, f[i - 1])]
<1>1. f = h
  BY Zenon DEF Unfolds, StepOf
<1>2. h[0] = StartPoints /\ \A i \in 1 .. k : h[i] = StepOf(ops, i, f[i - 1])
  OBVIOUS
<1> HIDE DEF h
<1> QED BY <1>1, <1>2, Zenon

\* It can be continued by an operation.
LEMMA UnfoldsExtends ==
    ASSUME NEW ops, NEW k \in Nat, NEW f, Unfolds(ops, k, f)
    PROVE  \E g : Unfolds(ops, k + 1, g)
<1> DEFINE g == [i \in 0 .. k + 1 |-> IF i <= k THEN f[i] ELSE StepOf(ops, k + 1, f[k])]
           h == [i \in 0 .. k + 1 |-> IF i = 0 THEN StartPoints ELSE StepOf(ops, i, g[i - 1])]
<1>1. \A i \in 0 .. k + 1 : g[i] = h[i]
  <2> SUFFICES ASSUME NEW i \in 0 .. k + 1 PROVE g[i] = h[i]
    BY Zenon
  <2>1. CASE i = 0
    BY <2>1, UnfoldsAt
  <2>2. CASE i \in 1 .. k
    <3>1. g[i] = f[i] /\ g[i - 1] = f[i - 1] /\ i # 0
      BY <2>2
    <3> QED BY <2>2, <3>1, UnfoldsAt
  <2>3. CASE i = k + 1
    <3>1. g[i] = StepOf(ops, k + 1, f[k]) /\ g[k] = f[k] /\ i # 0 /\ i - 1 = k
      BY <2>3
    <3> QED BY <2>3, <3>1, Zenon
  <2> QED BY <2>1, <2>2, <2>3
<1>2. g = h
  BY <1>1, Zenon
<1>3. Unfolds(ops, k + 1, g)
  BY <1>2, Zenon DEF Unfolds, StepOf
<1> QED BY <1>3, Zenon

\* So there is one for every number of operations.
LEMMA UnfoldsExists == ASSUME NEW ops, NEW k \in Nat PROVE \E f : Unfolds(ops, k, f)
<1> DEFINE S == {n \in Nat : \E f : Unfolds(ops, n, f)}
<1>1. 0 \in S
  <2> DEFINE f == [i \in 0 .. 0 |-> StartPoints]
  <2>1. Unfolds(ops, 0, f)
    BY DEF Unfolds
  <2> QED BY <2>1, Zenon
<1>2. ASSUME NEW n \in Nat, n \in S PROVE n + 1 \in S
  BY <1>2, UnfoldsExtends
<1> HIDE DEF S
<1>3. Nat \subseteq S
  BY <1>1, <1>2, InductionOnNat, Zenon
<1> QED BY <1>3, Zenon DEF S

\* After is its last value.
LEMMA AfterUnfolds ==
    ASSUME NEW ops, NEW k \in Nat
    PROVE  \E f : Unfolds(ops, k, f) /\ Store!After(ops, k) = f[k]
BY UnfoldsExists, Zenon DEF Store!After, Unfolds

\* Only the first operations count
SameStart(ops, more, k) == \A i \in 1 .. k : ops[i] = more[i]

\* Two of them agree as long as the operations do.
LEMMA UnfoldsAgree ==
    ASSUME NEW ops, NEW more, NEW k \in Nat, NEW m \in Nat, k <= m, SameStart(ops, more, k),
           NEW f, Unfolds(ops, k, f), NEW g, Unfolds(more, m, g)
    PROVE  \A i \in 0 .. k : f[i] = g[i]
<1> DEFINE S == {n \in Nat : n <= k => f[n] = g[n]}
<1>0. f[0] = StartPoints /\ g[0] = StartPoints
  BY UnfoldsAt, Zenon
<1>1. 0 \in S
  BY <1>0, Zenon
<1>2. ASSUME NEW n \in Nat, n \in S PROVE n + 1 \in S
  <2> SUFFICES ASSUME n + 1 <= k PROVE f[n + 1] = g[n + 1]
    OBVIOUS
  <2>1. n + 1 \in 1 .. k /\ n + 1 \in 1 .. m /\ (n + 1) - 1 = n /\ n <= k
    OBVIOUS
  <2>5. f[n] = g[n]
    BY <1>2, <2>1, Zenon
  <2>4. /\ \A i \in 1 .. k : f[i] = StepOf(ops, i, f[i - 1])
        /\ \A i \in 1 .. m : g[i] = StepOf(more, i, g[i - 1])
    BY UnfoldsAt
  <2>2. f[n + 1] = StepOf(ops, n + 1, f[n]) /\ g[n + 1] = StepOf(more, n + 1, g[n])
    BY <2>1, <2>4, Zenon
  <2>3. ops[n + 1] = more[n + 1]
    BY <2>1, Zenon DEF SameStart
  <2> QED BY <2>5, <2>2, <2>3, Zenon DEF StepOf
<1> HIDE DEF S
<1>3. Nat \subseteq S
  BY <1>1, <1>2, InductionOnNat, Zenon
<1> QED BY <1>3 DEF S

\* Before the first operation
LEMMA AfterStart == ASSUME NEW ops PROVE Store!After(ops, 0) = StartPoints
BY AfterUnfolds, UnfoldsAt, Zenon

\* One operation further
LEMMA AfterStep ==
    ASSUME NEW ops, NEW k \in Nat
    PROVE  Store!After(ops, k + 1) = StepOf(ops, k + 1, Store!After(ops, k))
<1>1. PICK m \in Nat : m = k + 1
  OBVIOUS
<1>2. PICK f : Unfolds(ops, k, f) /\ Store!After(ops, k) = f[k]
  BY AfterUnfolds, Zenon
<1>3. PICK g : Unfolds(ops, m, g) /\ Store!After(ops, m) = g[m]
  BY AfterUnfolds, Zenon
<1>4. k <= m /\ k \in 0 .. k /\ m \in 1 .. m /\ m - 1 = k
  BY <1>1
<1>5. f[k] = g[k]
  <2>1. SameStart(ops, ops, k)
    BY Zenon DEF SameStart
  <2>2. \A i \in 0 .. k : f[i] = g[i]
    BY <1>2, <1>3, <1>4, <2>1, UnfoldsAgree, SMTT(30)
  <2> QED BY <1>4, <2>2, Zenon
<1>6. g[m] = StepOf(ops, m, g[m - 1])
  BY <1>3, <1>4, UnfoldsAt, SMTT(30)
<1> QED BY <1>1, <1>2, <1>3, <1>4, <1>5, <1>6, Zenon

\* Operations that are written later do not change what the earlier ones left.
LEMMA AfterPrefix ==
    ASSUME NEW ops, NEW more, NEW k \in Nat, SameStart(ops, more, k)
    PROVE  Store!After(ops, k) = Store!After(more, k)
<1>1. PICK f : Unfolds(ops, k, f) /\ Store!After(ops, k) = f[k]
  BY AfterUnfolds, Zenon
<1>2. PICK g : Unfolds(more, k, g) /\ Store!After(more, k) = g[k]
  BY AfterUnfolds, Zenon
<1>3. k <= k /\ k \in 0 .. k
  OBVIOUS
<1>4. \A i \in 0 .. k : f[i] = g[i]
  BY <1>1, <1>2, <1>3, UnfoldsAgree, SMTT(30)
<1> QED BY <1>1, <1>2, <1>3, <1>4, Zenon

\* Operations add no keys.
LEMMA AfterDomain == ASSUME NEW ops, NEW k \in Nat PROVE DOMAIN Store!After(ops, k) = DOMAIN StartPoints
<1> DEFINE S == {n \in Nat : DOMAIN Store!After(ops, n) = DOMAIN StartPoints}
<1>1. 0 \in S
  BY AfterStart, Zenon
<1>2. ASSUME NEW n \in Nat, n \in S PROVE n + 1 \in S
  <2>1. Store!After(ops, n + 1) = StepOf(ops, n + 1, Store!After(ops, n))
    BY AfterStep, Zenon
  <2>2. \A f : DOMAIN StepOf(ops, n + 1, f) = DOMAIN f
    BY Zenon DEF StepOf
  <2>3. DOMAIN Store!After(ops, n + 1) = DOMAIN StartPoints
    BY <1>2, <2>1, <2>2, Zenon
  <2> QED BY <2>3
<1> HIDE DEF S
<1>3. Nat \subseteq S
  BY <1>1, <1>2, InductionOnNat, Zenon
<1> QED BY <1>3, Zenon DEF S

\* One operation further, point by point
LEMMA AfterAt ==
    ASSUME NEW ops, NEW k \in Nat, NEW p \in DOMAIN StartPoints
    PROVE  Store!After(ops, k + 1)[p] = IF p = ops[k + 1].point
                                  THEN Store!Effect(ops[k + 1].kind, 1 + (k + 1) - 1, Store!After(ops, k)[p])
                                  ELSE Store!After(ops, k)[p]
<1> DEFINE f == Store!After(ops, k)
<1>1. Store!After(ops, k + 1) = StepOf(ops, k + 1, f)
  BY AfterStep, Zenon
<1>2. p \in DOMAIN f
  BY AfterDomain, Zenon
<1> HIDE DEF f
<1>3. StepOf(ops, k + 1, f)[p] = IF p = ops[k + 1].point
                                 THEN Store!Effect(ops[k + 1].kind, 1 + (k + 1) - 1, f[p])
                                 ELSE f[p]
  BY <1>2, Zenon DEF StepOf
<1> QED BY <1>1, <1>3, Zenon DEF f

-----------------------------------------------------------------------------
(* The invariant                                                           *)

\* The proxies of the optimization are in the holder.
Wrapping(t) == task[t].pc \in {"proxied", "built", "swept", "failed"}

\* The segment takes changes: it is in the holder as it is, or it is the write
\* segment of proxies.
Open(s) == holder[s] = Original \/ \E t \in Tasks : s = Tmp(t) /\ Wrapping(t)

\* A reader of the holder meets the copy of p in segment s.
Shows(s, p) ==
    /\ p \in mem[s].mapping
    /\ Open(s) \/ (Proxied(s) /\ p \notin deleted[holder[s]])

\* The types of the variables that the proof is about.
RunType ==
    /\ log \in Seq(Ops) /\ next \in Nat \ {0} /\ next <= Len(log) + 1
    /\ cur \in [num : Version, todo : SUBSET Segs, found : BOOLEAN]
    /\ holder \in [Segs -> {Absent, Original} \cup Tasks]
    /\ mem \in [Segs -> SegmentState]
    /\ deleted \in [Tasks -> SUBSET Points]
    /\ task \in [Tasks -> [pc : {"idle", "proxied", "built", "swept", "swapped", "done", "failed"},
                           ids : SUBSET Segs, removed : SUBSET Points]]

\* Where the segments of an optimization are: the wrapped ones are behind its
\* proxies, its own ones are not in the holder before the swap.
TaskInv ==
    \A t \in Tasks :
        /\ task[t].pc = "idle" => mem[Tmp(t)].mapping = {} /\ deleted[t] = {}
        /\ task[t].pc = "idle" \/ Wrapping(t) => holder[Tmp(t)] = Absent /\ holder[Out(t)] = Absent
        /\ \A s \in Segs : holder[s] = t <=> Wrapping(t) /\ s \in task[t].ids
        /\ Wrapping(t) => task[t].ids # {}

\* The versions that segments compare operations with.
SegInv ==
    \A s \in Segs :
        /\ mem[s].version < next
        /\ \A p \in mem[s].mapping : mem[s].versions[p] <= mem[s].version /\ mem[s].vectors[p] \in Nat

\* A reader meets one copy of a point; the segments that an optimization merges
\* do not even hide a second one.
HomeInv ==
    /\ \A s, r \in Segs : \A p \in Points : Shows(s, p) /\ Shows(r, p) => s = r
    /\ \A s, r \in Segs : Proxied(s) /\ holder[r] = holder[s] /\ s # r =>
                             mem[s].mapping \cap mem[r].mapping = {}

\* The optimized segment has what the wrapped ones have and no change has taken
\* from them, and nothing else but points that were deleted while it was built.
BuiltInv ==
    \A t \in Tasks : task[t].pc \in {"built", "swept"} =>
        /\ \A p \in mem[Out(t)].mapping : \E s \in task[t].ids : p \in mem[s].mapping
        /\ \A s \in task[t].ids : \A p \in mem[s].mapping \ deleted[t] :
              p \in mem[Out(t)].mapping /\ Content(Out(t), p) = Content(s, p)
        /\ task[t].pc = "swept" => task[t].removed \cap mem[Out(t)].mapping = {}

\* The copies of the point are what the reference says.
Settled(p, ref) ==
    /\ (\E s \in Segs : Shows(s, p)) <=> ref # Store!Absent
    /\ \A s \in Segs : Shows(s, p) => Content(s, p) = ref

\* While an operation is under way it is the newest one.  Until it has found its
\* point, the entries that it has visited do not have the point; then the point
\* has its number, which is why no entry changes it again.
OpInv ==
    /\ cur.num = None => cur = Idle
    /\ cur.num # None =>
          LET n == cur.num
              P == Op(n).point
          IN /\ n = next - 1 /\ n > 0
             /\ cur.todo \subseteq Held
             /\ Op(n).kind = "delete" => ~ cur.found
             /\ ~ cur.found => \A e \in Held \ cur.todo : ~ HasPoint(World, e, P)
             /\ ~ cur.found /\ Op(n).kind # "delete" => \A s \in Segs : mem[s].version < n
             /\ cur.found => \A s \in Segs : Shows(s, P) => mem[s].versions[P] >= n

\* What the copies of the points are, the point of the current operation included.
CopyInv ==
    /\ cur.num = None => \A p \in Points : Settled(p, Store!After(log, next - 1)[p])
    /\ cur.num # None =>
          LET n == cur.num
              P == Op(n).point
          IN /\ \A p \in Points \ {P} : Settled(p, Store!After(log, n)[p])
             /\ cur.found => Settled(P, Store!After(log, n)[P])
             /\ ~ cur.found /\ Op(n).kind # "delete" => Settled(P, Store!After(log, n - 1)[P])

RunInv == RunType /\ TaskInv /\ SegInv /\ HomeInv /\ BuiltInv /\ OpInv /\ CopyInv

\* Neither crashes nor cancellations so far.
Undisturbed == crashes = 0 /\ ~ workload.cancels

-----------------------------------------------------------------------------
(* What a change does to a segment                                         *)

\* The segment is the same for the point.
SameAt(seg, new, q) ==
    /\ q \in new.mapping <=> q \in seg.mapping
    /\ new.versions[q] = seg.versions[q]
    /\ new.vectors[q] = seg.vectors[q]
    /\ new.payloads[q] = seg.payloads[q]

\* Operation n gives p a vector and a payload.
Puts(seg, new, n, p, vec, payload) ==
    /\ new \in SegmentState
    /\ p \in new.mapping /\ new.version = n
    /\ new.versions[p] = n /\ new.vectors[p] = vec /\ new.payloads[p] = payload
    /\ \A q \in Points : q # p => SameAt(seg, new, q)

\* Operation n removes p.
Drops(seg, new, n, p) ==
    /\ new \in SegmentState
    /\ p \notin new.mapping /\ new.version = n
    /\ \A q \in Points : q # p => SameAt(seg, new, q)

\* The operation is not older than what the segment has.
Accepts(seg, n, p) ==
    /\ seg \in SegmentState /\ seg.version <= n
    /\ p \in seg.mapping => seg.versions[p] <= n

\* upsert_vector
LEMMA UpsertVectorPuts ==
    ASSUME NEW seg, NEW n \in Nat, NEW p \in Points, NEW vec \in Nat, Accepts(seg, n, p)
    PROVE  Puts(seg, UpsertVector(seg, n, p, vec), n, p, vec, seg.payloads[p])
<1> DEFINE new == UpsertVector(seg, n, p, vec)
<1>1. seg \in SegmentState /\ seg.version \in Version /\ seg.version <= n
  BY Zenon DEF Accepts, SegmentState
<1>2. Applies(seg, n, p)
  BY <1>1 DEF Accepts, Applies, UnwrapOr0, Version, None
<1>3. MaxVersion(n, seg.version) = n
  BY <1>1, Zenon DEF MaxVersion, Version, None
<1>4. new = [seg EXCEPT !.mapping = @ \cup {p}, !.vectors[p] = vec, !.versions[p] = n, !.version = n]
  BY <1>2, <1>3, Zenon DEF UpsertVector
<1> HIDE DEF new
<1>5. /\ new.mapping = seg.mapping \cup {p} /\ new.versions = [seg.versions EXCEPT ![p] = n]
      /\ new.vectors = [seg.vectors EXCEPT ![p] = vec] /\ new.payloads = seg.payloads
      /\ new.version = n
  BY <1>1, <1>4, Zenon DEF SegmentState
<1>6. new \in SegmentState
  BY <1>1, <1>4, Zenon DEF SegmentState, Version
<1> QED BY <1>1, <1>5, <1>6, Zenon DEF SegmentState, Puts, SameAt, new

\* set_full_payload, set_payload and clear_payload of a point that is there
LEMMA WritePayloadPuts ==
    ASSUME NEW seg, NEW n \in Nat, NEW p \in Points, NEW payload \in SUBSET Nat,
           Accepts(seg, n, p), p \in seg.mapping
    PROVE  Puts(seg, WritePayload(seg, n, p, payload), n, p, seg.vectors[p], payload)
<1> DEFINE new == WritePayload(seg, n, p, payload)
<1>1. seg \in SegmentState /\ seg.version \in Version /\ seg.version <= n
  BY Zenon DEF Accepts, SegmentState
<1>2. Applies(seg, n, p)
  BY Zenon DEF Accepts, Applies
<1>3. MaxVersion(n, seg.version) = n
  BY <1>1, Zenon DEF MaxVersion, Version, None
<1>4. new = [seg EXCEPT !.payloads[p] = payload, !.versions[p] = n, !.version = n]
  BY <1>2, <1>3, Zenon DEF WritePayload
<1> HIDE DEF new
<1>5. /\ new.mapping = seg.mapping /\ new.versions = [seg.versions EXCEPT ![p] = n]
      /\ new.vectors = seg.vectors /\ new.payloads = [seg.payloads EXCEPT ![p] = payload]
      /\ new.version = n
  BY <1>1, <1>4, Zenon DEF SegmentState
<1>6. new \in SegmentState
  BY <1>1, <1>4, Zenon DEF SegmentState, Version
<1> QED BY <1>1, <1>5, <1>6, Zenon DEF SegmentState, Puts, SameAt, new

\* Two changes by the same operation are one.
LEMMA PutsTwice ==
    ASSUME NEW seg, NEW mid, NEW new, NEW n, NEW p, NEW v1, NEW y1, NEW v2, NEW y2,
           Puts(seg, mid, n, p, v1, y1), Puts(mid, new, n, p, v2, y2)
    PROVE  Puts(seg, new, n, p, v2, y2)
BY Zenon DEF Puts, SameAt

\* After a change the segment accepts the rest of the operation.
LEMMA PutsAccepts ==
    ASSUME NEW seg, NEW new, NEW n \in Nat, NEW p, NEW v, NEW y, Puts(seg, new, n, p, v, y)
    PROVE  Accepts(new, n, p)
BY DEF Puts, Accepts

\* The copy-on-write move into a segment
LEMMA MovedIntoPuts ==
    ASSUME NEW target, NEW seg \in SegmentState, NEW n \in Nat, NEW p \in Points,
           Accepts(target, n, p), seg.vectors[p] \in Nat
    PROVE  Puts(target, MovedInto(target, seg, n, p), n, p, seg.vectors[p], seg.payloads[p])
<1> DEFINE mid == UpsertVector(target, n, p, seg.vectors[p])
<1>1. Puts(target, mid, n, p, seg.vectors[p], target.payloads[p])
  BY UpsertVectorPuts, Zenon
<1>2. Accepts(mid, n, p) /\ p \in mid.mapping /\ mid.vectors[p] = seg.vectors[p]
  BY <1>1, PutsAccepts, Zenon DEF Puts
<1>3. seg.payloads[p] \in SUBSET Nat
  BY Zenon DEF SegmentState
<1> HIDE DEF mid
<1>4. Puts(mid, WritePayload(mid, n, p, seg.payloads[p]), n, p, seg.vectors[p], seg.payloads[p])
  BY <1>2, <1>3, WritePayloadPuts, Zenon
<1> QED BY <1>1, <1>4, PutsTwice DEF MovedInto, mid

\* delete_point
LEMMA DeletePointDrops ==
    ASSUME NEW seg, NEW n \in Nat, NEW p \in Points, Accepts(seg, n, p), p \in seg.mapping
    PROVE  Drops(seg, DeletePoint(seg, n, p), n, p)
<1> DEFINE new == DeletePoint(seg, n, p)
<1>1. seg \in SegmentState /\ seg.version \in Version /\ seg.version <= n
  BY Zenon DEF Accepts, SegmentState
<1>2. Applies(seg, n, p)
  BY Zenon DEF Accepts, Applies
<1>3. MaxVersion(n, seg.version) = n
  BY <1>1, Zenon DEF MaxVersion, Version, None
<1>4. Forget(seg, p).version = seg.version
  BY <1>1, Zenon DEF Forget, SegmentState
<1>5. new = [Forget(seg, p) EXCEPT !.version = n]
  BY <1>2, <1>3, <1>4, Zenon DEF DeletePoint
<1> HIDE DEF new
<1>6. /\ new.mapping = seg.mapping \ {p} /\ new.versions = [seg.versions EXCEPT ![p] = None]
      /\ new.vectors = [seg.vectors EXCEPT ![p] = None] /\ new.payloads = [seg.payloads EXCEPT ![p] = {}]
      /\ new.version = n
  BY <1>1, <1>5, Zenon DEF SegmentState, Forget
<1>7. new \in SegmentState
  BY <1>1, <1>5, Zenon DEF SegmentState, Forget, Version
<1> QED BY <1>1, <1>6, <1>7, Zenon DEF SegmentState, Drops, SameAt, new

\* delete_point of a point that is not there
LEMMA DeletePointKeeps ==
    ASSUME NEW seg, NEW n, NEW p, p \notin seg.mapping
    PROVE  DeletePoint(seg, n, p) = seg
BY Zenon DEF DeletePoint

-----------------------------------------------------------------------------
(* What an operation does to its point                                     *)

\* A point as the reference has it.
Point(v, y) == [vec |-> v, payload |-> y]

\* The effect of an operation, kind by kind.
LEMMA EffectOfKind ==
    ASSUME NEW n, NEW vec \in Nat, NEW payload, NEW point
    PROVE  /\ Store!Effect("upsert", n, point) = [vec |-> n, payload |-> {n}]
           /\ Store!Effect("delete", n, point) = Store!Absent
           /\ \A k \in {"set_payload", "overwrite_payload", "clear_payload"} :
                 /\ Store!Effect(k, n, Store!Absent) = Store!Absent
                 /\ Store!Effect(k, n, Point(vec, payload)) = Point(vec, NewPayload(k, payload, n))
<1>1. /\ Store!Effect("upsert", n, point) = [vec |-> n, payload |-> {n}]
      /\ Store!Effect("delete", n, point) = Store!Absent
  BY Zenon DEF Store!Effect
<1>2. ASSUME NEW k \in {"set_payload", "overwrite_payload", "clear_payload"}
      PROVE  Store!Effect(k, n, Store!Absent) = Store!Absent
  BY Zenon DEF Store!Effect
<1>3. ASSUME NEW k \in {"set_payload", "overwrite_payload", "clear_payload"}
      PROVE  Store!Effect(k, n, Point(vec, payload)) = Point(vec, NewPayload(k, payload, n))
  <2>1. Point(vec, payload) # Store!Absent
    BY DEF Store!Absent, Point
  <2> QED BY <2>1, Zenon DEF Store!Effect, NewPayload, Point
<1> QED BY <1>1, <1>2, <1>3, Zenon

\* What a reader of the segment gets for a point of it.
Shown(seg, p) == [vec |-> seg.vectors[p], payload |-> seg.payloads[p]]

\* The change of a segment gives p what the reference gives it.
LikeReference(seg, n, p) ==
    \E v \in Nat, y \in SUBSET Nat :
        /\ Puts(seg, Modify(seg, n), n, p, v, y)
        /\ \A point : Op(n).kind = "upsert" \/ point = Shown(seg, p) =>
                         Store!Effect(Op(n).kind, n, point) = Point(v, y)

\* upsert_points, set_payload, overwrite_payload and clear_payload on a segment
\* give the point what the reference gives it.
LEMMA ModifyPuts ==
    ASSUME NEW seg, NEW n \in Nat, NEW p, p = Op(n).point, Op(n) \in Ops, Op(n).kind # "delete",
           Accepts(seg, n, p), Op(n).kind = "upsert" \/ (p \in seg.mapping /\ seg.vectors[p] \in Nat)
    PROVE  LikeReference(seg, n, p)
<1> DEFINE k == Op(n).kind
<1>1. p \in Points /\ k \in AllOpKinds \ {"delete"}
  BY Zenon DEF Ops
<1> HIDE DEF k
<1>2. CASE k = "upsert"
  <2> DEFINE mid == UpsertVector(seg, n, p, n)
  <2>1. Puts(seg, mid, n, p, n, seg.payloads[p])
    BY <1>1, UpsertVectorPuts, Zenon
  <2>2. Accepts(mid, n, p) /\ p \in mid.mapping /\ mid.vectors[p] = n /\ {n} \in SUBSET Nat
    BY <2>1, PutsAccepts, Zenon DEF Puts
  <2>3. Modify(seg, n) = WritePayload(mid, n, p, {n})
    BY <1>2, Zenon DEF Modify, UpsertWithPayload, k
  <2> HIDE DEF mid
  <2>4. Puts(mid, Modify(seg, n), n, p, n, {n})
    BY <1>1, <2>2, <2>3, WritePayloadPuts, Zenon
  <2>5. Puts(seg, Modify(seg, n), n, p, n, {n})
    BY <2>1, <2>4, PutsTwice
  <2>6. \A point : Store!Effect(k, n, point) = Point(n, {n})
    BY <1>2, Zenon DEF Store!Effect, Point
  <2> QED BY <2>2, <2>5, <2>6, Zenon DEF k, LikeReference
<1>3. CASE k # "upsert"
  <2>1. k \in {"set_payload", "overwrite_payload", "clear_payload"}
    BY <1>1, <1>3, Zenon DEF AllOpKinds
  <2>2. PICK vec \in Nat, payload \in SUBSET Nat :
           p \in seg.mapping /\ seg.vectors[p] = vec /\ seg.payloads[p] = payload
    BY <1>1, <1>3, Zenon DEF Accepts, SegmentState, k
  <2> DEFINE y == NewPayload(k, payload, n)
  <2>3. y \in SUBSET Nat
    BY <2>1, Zenon DEF NewPayload
  <2>4. Modify(seg, n) = WritePayload(seg, n, p, y)
    BY <1>3, <2>2, Zenon DEF Modify, k
  <2> HIDE DEF y
  <2>5. Puts(seg, Modify(seg, n), n, p, vec, y)
    BY <1>1, <2>2, <2>3, <2>4, WritePayloadPuts, Zenon
  <2>6. Store!Effect(k, n, Point(vec, payload)) = Point(vec, y)
    BY <2>1, EffectOfKind, ZenonT(30) DEF y
  <2>7. Shown(seg, p) = Point(vec, payload)
    BY <2>2, Zenon DEF Shown, Point
  <2> QED BY <1>3, <2>2, <2>3, <2>5, <2>6, <2>7, Zenon DEF k, LikeReference
<1> QED BY <1>2, <1>3, Zenon

\* The current operation is in the log.
LEMMA OpInLog ==
    ASSUME RunType, OpInv, cur.num # None
    PROVE  /\ cur.num \in Nat /\ cur.num > 0 /\ cur.num = next - 1 /\ cur.num <= Len(log)
           /\ Op(cur.num) \in Ops /\ Op(cur.num).point \in Points
<1>1. next \in Nat /\ next <= Len(log) + 1 /\ log \in Seq(Ops) /\ Len(log) \in Nat
  BY DEF RunType
<1>2. cur.num = next - 1 /\ cur.num > 0
  BY Zenon DEF OpInv
<1>3. cur.num \in 1 .. Len(log)
  BY <1>1, <1>2
<1>4. log[cur.num] \in Ops
  BY <1>1, <1>3
<1> QED BY <1>1, <1>2, <1>3, <1>4 DEF Op, Ops

\* The reference after the current operation and before it
LEMMA ReferenceStep ==
    ASSUME RunType, OpInv, cur.num # None
    PROVE  /\ \A p \in Points \ {Op(cur.num).point} :
                 Store!After(log, cur.num)[p] = Store!After(log, cur.num - 1)[p]
           /\ Store!After(log, cur.num)[Op(cur.num).point] =
                 Store!Effect(Op(cur.num).kind, cur.num, Store!After(log, cur.num - 1)[Op(cur.num).point])
<1> DEFINE n == cur.num
           k == n - 1
<1>1. n \in Nat /\ n > 0 /\ k \in Nat /\ k + 1 = n /\ 1 + (k + 1) - 1 = n /\ Op(n).point \in Points
  BY OpInLog
<1>2. DOMAIN StartPoints = Points
  BY Zenon DEF StartPoints
<1> HIDE DEF k
<1>3. ASSUME NEW p \in Points
      PROVE  Store!After(log, k + 1)[p] = IF p = log[k + 1].point
                THEN Store!Effect(log[k + 1].kind, 1 + (k + 1) - 1, Store!After(log, k)[p])
                ELSE Store!After(log, k)[p]
  BY <1>1, <1>2, AfterAt, Zenon
<1> QED BY <1>1, <1>3, Zenon DEF Op, k

-----------------------------------------------------------------------------
(* What a reader meets                                                     *)

\* Shows, for the segments of an operation that is being applied.
ShowsIn(w, s, p) ==
    /\ p \in w.mem[s].mapping
    /\ Open(s) \/ (Proxied(s) /\ p \notin w.deleted[holder[s]])

\* Shows is ShowsIn of the segments as they are.
LEMMA ShowsInWorld == \A s, p : Shows(s, p) <=> ShowsIn(World, s, p)
BY Zenon DEF Shows, ShowsIn, World

\* The proxy of an optimization has its write segment behind it, and wraps a
\* segment that is not the write segment of another one.
LEMMA BehindProxy ==
    ASSUME RunType, TaskInv, NEW e \in Segs, Proxied(e)
    PROVE  /\ holder[e] \in Tasks /\ Wrapping(holder[e]) /\ e \in task[holder[e]].ids
           /\ Tmp(holder[e]) \in Segs /\ Open(Tmp(holder[e])) /\ ~ Open(e)
           /\ holder[Tmp(holder[e])] = Absent /\ Tmp(holder[e]) # e
<1>1. holder[e] \in Tasks /\ Wrapping(holder[e]) /\ e \in task[holder[e]].ids
  BY Zenon DEF Proxied, TaskInv
<1>2. Tmp(holder[e]) \in Segs /\ Open(Tmp(holder[e])) /\ holder[Tmp(holder[e])] = Absent
  BY <1>1, Distinct, Zenon DEF Open, TaskInv
<1>3. holder[e] # Original /\ holder[e] # Absent
  BY <1>1, Distinct, Zenon
<1>4. ~ Open(e)
  BY <1>3 DEF Open, TaskInv
<1> QED BY <1>1, <1>2, <1>3, <1>4, Zenon

\* An entry of the holder has the point when a segment behind it shows it.
LEMMA HasPointShows ==
    ASSUME RunType, TaskInv, NEW w, NEW e \in Held, NEW p
    PROVE  /\ HasPoint(w, e, p) <=> \/ ShowsIn(w, e, p)
                                    \/ Proxied(e) /\ ShowsIn(w, Tmp(holder[e]), p)
           /\ HasPoint(w, e, p) => Answering(w, e, p) \in Segs /\ ShowsIn(w, Answering(w, e, p), p)
<1>1. e \in Segs /\ holder[e] # Absent
  BY Zenon DEF Held
<1>2. CASE Proxied(e)
  <2>1. /\ Tmp(holder[e]) \in Segs /\ Open(Tmp(holder[e])) /\ ~ Open(e)
    BY <1>1, <1>2, BehindProxy, Zenon
  <2> QED BY <1>1, <1>2, <2>1, Zenon DEF HasPoint, ShowsIn, Answering
<1>3. CASE ~ Proxied(e)
  <2>1. holder[e] = Original
    BY <1>1, <1>3, Zenon DEF RunType, Proxied
  <2> QED BY <1>1, <1>3, <2>1, Zenon DEF HasPoint, ShowsIn, Open, Answering
<1> QED BY <1>2, <1>3, Zenon

\* What a segment shows is found through an entry of the holder.
LEMMA ShownIsFound ==
    ASSUME RunType, TaskInv, NEW w, NEW s \in Segs, NEW p, ShowsIn(w, s, p)
    PROVE  \E e \in Held : HasPoint(w, e, p)
<1>1. CASE holder[s] = Original \/ Proxied(s)
  <2>1. s \in Held
    BY <1>1, Distinct, Zenon DEF Held, Proxied
  <2> QED BY <2>1, HasPointShows, Zenon
<1>2. CASE ~ (holder[s] = Original \/ Proxied(s))
  <2>1. PICK t \in Tasks : s = Tmp(t) /\ Wrapping(t)
    BY <1>2, Zenon DEF ShowsIn, Open
  <2>2. PICK e \in task[t].ids : TRUE
    BY <2>1 DEF TaskInv
  <2>3. e \in Segs /\ holder[e] = t
    BY <2>1, <2>2 DEF TaskInv, RunType
  <2>4. e \in Held /\ Proxied(e)
    BY <2>3, Distinct, Zenon DEF Held, Proxied
  <2> QED BY <2>1, <2>3, <2>4, HasPointShows, Zenon
<1> QED BY <1>1, <1>2, Zenon

\* The hits of a search are what the segments behind the entry show, and a scroll
\* lists what the entry has.
LEMMA FoundShows ==
    ASSUME RunType, TaskInv, NEW w, NEW e \in Held, NEW p
    PROVE  /\ Found(w, e, p) = {s \in Segs : (s = e \/ (Proxied(e) /\ s = Tmp(holder[e]))) /\ ShowsIn(w, s, p)}
           /\ p \in Listed(w, e) <=> HasPoint(w, e, p)
<1>1. e \in Segs /\ holder[e] # Absent
  BY Zenon DEF Held
<1>2. CASE Proxied(e)
  <2>1. Tmp(holder[e]) \in Segs /\ Open(Tmp(holder[e])) /\ ~ Open(e)
    BY <1>1, <1>2, BehindProxy, Zenon
  <2>2. {holder[e]} \cap Tasks = {holder[e]} /\ Hidden(w, e) = w.deleted[holder[e]]
    BY <1>2, Zenon DEF Proxied, Hidden
  <2>3. ShowsIn(w, e, p) <=> p \in w.mem[e].mapping \ Hidden(w, e)
    BY <1>2, <2>1, <2>2, Zenon DEF ShowsIn
  <2>4. ShowsIn(w, Tmp(holder[e]), p) <=> p \in w.mem[Tmp(holder[e])].mapping
    BY <2>1, Zenon DEF ShowsIn
  <2>5. Found(w, e, p) = {s \in {e} : p \in w.mem[s].mapping \ Hidden(w, e)}
                            \cup {s \in {Tmp(holder[e])} : p \in w.mem[s].mapping}
    BY <2>2, Zenon DEF Found
  <2>6. p \in Listed(w, e) <=> p \in w.mem[e].mapping \ Hidden(w, e) \/ p \in w.mem[Tmp(holder[e])].mapping
    BY <2>2, Zenon DEF Listed
  <2>7. p \in Listed(w, e) <=> HasPoint(w, e, p)
    BY <1>2, <2>2, <2>6, Zenon DEF HasPoint
  <2> QED BY <1>1, <1>2, <2>1, <2>3, <2>4, <2>5, <2>7, Zenon
<1>3. CASE ~ Proxied(e)
  <2>1. holder[e] = Original /\ {holder[e]} \cap Tasks = {} /\ Hidden(w, e) = {}
    BY <1>1, <1>3 DEF RunType, Proxied, Hidden
  <2>2. ShowsIn(w, e, p) <=> p \in w.mem[e].mapping
    BY <2>1, Zenon DEF ShowsIn, Open
  <2>3. Found(w, e, p) = {s \in {e} : p \in w.mem[s].mapping}
    BY <2>1, Zenon DEF Found
  <2>4. p \in Listed(w, e) <=> HasPoint(w, e, p)
    BY <1>3, <2>1, Zenon DEF Listed, HasPoint
  <2> QED BY <1>1, <1>3, <2>2, <2>3, <2>4, Zenon
<1> QED BY <1>2, <1>3, Zenon

\* A copy is a hit of a search in an entry, or what answers for a point that an
\* entry has or lists.
LEMMA InCopies ==
    ASSUME NEW p, NEW s
    PROVE  s \in Copies(p) <=>
              \/ \E e \in Held : s \in Found(World, e, p)
              \/ \E e \in Held : (HasPoint(World, e, p) \/ p \in Listed(World, e)) /\ s = Answering(World, e, p)
<1> DEFINE Hits == UNION {Found(World, e, p) : e \in Held}
           Asked == {e \in Held : HasPoint(World, e, p) \/ p \in Listed(World, e)}
           Answers == {Answering(World, e, p) : e \in Asked}
<1>1. Copies(p) = Hits \cup Answers
  BY Zenon DEF Copies
<1>2. s \in Hits <=> \E e \in Held : s \in Found(World, e, p)
  BY Zenon
<1>3. s \in Answers <=> \E e \in Asked : s = Answering(World, e, p)
  BY Zenon
<1>4. \A e : e \in Asked <=> e \in Held /\ (HasPoint(World, e, p) \/ p \in Listed(World, e))
  BY Zenon
<1> HIDE DEF Hits, Asked, Answers
<1>5. s \in Hits \cup Answers <=> s \in Hits \/ s \in Answers
  BY Zenon
<1> QED BY <1>1, <1>2, <1>3, <1>4, <1>5, Zenon

\* Copies are what the segments show, to every kind of reader.
LEMMA CopiesAreShown ==
    ASSUME RunType, TaskInv, HomeInv, NEW p \in Points
    PROVE  Copies(p) = {s \in Segs : Shows(s, p)}
<1>0. ASSUME NEW e \in Held
      PROVE  /\ \A s \in Found(World, e, p) : s \in Segs /\ Shows(s, p)
             /\ p \in Listed(World, e) <=> HasPoint(World, e, p)
  <2>1. PICK w : w = World
    BY Zenon
  <2>2. /\ Found(w, e, p) = {s \in Segs : (s = e \/ (Proxied(e) /\ s = Tmp(holder[e]))) /\ ShowsIn(w, s, p)}
        /\ p \in Listed(w, e) <=> HasPoint(w, e, p)
    BY FoundShows, Zenon
  <2>3. \A s \in Found(w, e, p) : s \in Segs /\ ShowsIn(w, s, p)
    BY <2>2, Zenon
  <2> QED BY <2>1, <2>2, <2>3, ShowsInWorld, Zenon
<1>1. ASSUME NEW s \in Copies(p) PROVE s \in Segs /\ Shows(s, p)
  <2>1. CASE \E e \in Held : s \in Found(World, e, p)
    BY <2>1, <1>0, Zenon
  <2>2. CASE \E e \in Held : (HasPoint(World, e, p) \/ p \in Listed(World, e)) /\ s = Answering(World, e, p)
    <3>1. PICK e \in Held : HasPoint(World, e, p) /\ s = Answering(World, e, p)
      BY <2>2, <1>0, Zenon
    <3> QED BY <3>1, HasPointShows, ShowsInWorld, Zenon
  <2> QED BY <1>1, <2>1, <2>2, InCopies, Zenon
<1>2. ASSUME NEW s \in Segs, Shows(s, p) PROVE s \in Copies(p)
  <2>1. PICK e \in Held : HasPoint(World, e, p)
    BY <1>2, ShownIsFound, ShowsInWorld, Zenon
  <2>2. Answering(World, e, p) \in Segs /\ Shows(Answering(World, e, p), p)
    BY <2>1, HasPointShows, ShowsInWorld, Zenon
  <2>3. s = Answering(World, e, p)
    BY <1>2, <2>2, Zenon DEF HomeInv
  <2> QED BY <2>1, <2>3, InCopies, Zenon
<1> QED BY <1>1, <1>2, Zenon

-----------------------------------------------------------------------------
(* The beginning                                                           *)

\* A segment of points that operation 0 wrote
LEMMA SegmentOfFields ==
    ASSUME NEW P \in SUBSET Points, NEW v \in Version
    PROVE  /\ SegmentOf(P, v) \in SegmentState
           /\ SegmentOf(P, v).mapping = P /\ SegmentOf(P, v).version = v
           /\ \A p \in P : /\ SegmentOf(P, v).versions[p] = 0 /\ SegmentOf(P, v).vectors[p] = 0
                           /\ SegmentOf(P, v).payloads[p] = {0}
<1>1. SegmentOf(P, v) \in SegmentState
  BY DEF SegmentOf, SegmentState, Version, None
<1>2. /\ SegmentOf(P, v).mapping = P /\ SegmentOf(P, v).version = v
      /\ SegmentOf(P, v).versions = [p \in Points |-> IF p \in P THEN 0 ELSE None]
      /\ SegmentOf(P, v).vectors = [p \in Points |-> IF p \in P THEN 0 ELSE None]
      /\ SegmentOf(P, v).payloads = [p \in Points |-> IF p \in P THEN {0} ELSE {}]
  BY Zenon DEF SegmentOf
<1> QED BY <1>1, <1>2, Zenon

\* The invariant holds at the beginning: every point is in one segment that is in the holder.
LEMMA RunInit == Init => RunInv
<1> SUFFICES ASSUME Init PROVE RunInv
  BY Zenon
<1>0. /\ Placed \in [Initial -> SUBSET Points] /\ Initial \subseteq Segs
      /\ \A s, r \in Initial : s # r => Placed[s] \cap Placed[r] = {}
  BY OptimizerAssumption, Zenon DEF Segs
<1>1. \A s \in Segs : ~ Proxied(s) /\ (holder[s] = Original <=> s \in Initial)
  BY Distinct, Zenon DEF Init, Proxied
<1>2. \A t \in Tasks : task[t].pc = "idle" /\ ~ Wrapping(t) /\ Tmp(t) \notin Initial /\ Out(t) \notin Initial
  BY OptimizerAssumption DEF Init, NoTask, Wrapping
<1>3. \A s \in Segs : Open(s) <=> s \in Initial
  BY <1>1, <1>2, Zenon DEF Open
<1>4. \A s \in Segs : /\ s \in Initial => mem[s] = SegmentOf(Placed[s], 0)
                      /\ s \notin Initial => mem[s] = SegmentOf({}, None)
  BY Zenon DEF Init
<1>6. \A s \in Segs : /\ mem[s] \in SegmentState
                      /\ mem[s].mapping = IF s \in Initial THEN Placed[s] ELSE {}
                      /\ mem[s].version \in {0, None}
                      /\ \A p \in mem[s].mapping : /\ mem[s].versions[p] = 0 /\ mem[s].version = 0
                                                   /\ mem[s].vectors[p] = 0 /\ mem[s].payloads[p] = {0}
  <2> SUFFICES ASSUME NEW s \in Segs
               PROVE  /\ mem[s] \in SegmentState
                      /\ mem[s].mapping = IF s \in Initial THEN Placed[s] ELSE {}
                      /\ mem[s].version \in {0, None}
                      /\ \A p \in mem[s].mapping : /\ mem[s].versions[p] = 0 /\ mem[s].version = 0
                                                   /\ mem[s].vectors[p] = 0 /\ mem[s].payloads[p] = {0}
    BY Zenon
  <2>1. CASE s \in Initial
    <3>1. Placed[s] \in SUBSET Points /\ 0 \in Version
      BY <1>0, <2>1, Zenon DEF Version
    <3>2. PICK P \in SUBSET Points, v \in Version : P = Placed[s] /\ v = 0
      BY <3>1, Zenon
    <3>3. /\ SegmentOf(P, v) \in SegmentState /\ SegmentOf(P, v).mapping = P /\ SegmentOf(P, v).version = v
          /\ \A p \in P : /\ SegmentOf(P, v).versions[p] = 0 /\ SegmentOf(P, v).vectors[p] = 0
                         /\ SegmentOf(P, v).payloads[p] = {0}
      BY SegmentOfFields
    <3> QED BY <1>4, <2>1, <3>2, <3>3, Zenon
  <2>2. CASE s \notin Initial
    <3>1. {} \in SUBSET Points /\ None \in Version
      BY Zenon DEF Version
    <3>2. /\ SegmentOf({}, None) \in SegmentState
          /\ SegmentOf({}, None).mapping = {} /\ SegmentOf({}, None).version = None
      BY <3>1, SegmentOfFields, Zenon
    <3> QED BY <1>4, <2>2, <3>2, Zenon
  <2> QED BY <2>1, <2>2, Zenon
<1>7. RunType
  <2>1. mem \in [Segs -> SegmentState]
    BY <1>6, Zenon DEF Init
  <2> QED BY <2>1 DEF Init, RunType, Idle, NoTask, Version
<1>8. TaskInv
  BY <1>1, <1>2, <1>6, Distinct, Zenon DEF Init, TaskInv, NoTask, Wrapping
<1>9. SegInv
  <2>1. next = 1
    BY Zenon DEF Init
  <2> QED BY <1>6, <2>1 DEF SegInv, None
<1>10. \A s \in Segs, p \in Points : Shows(s, p) <=> s \in Initial /\ p \in Placed[s]
  BY <1>1, <1>3, <1>6, Zenon DEF Shows
<1>11. HomeInv
  BY <1>0, <1>1, <1>10, Zenon DEF HomeInv
<1>12. BuiltInv
  BY <1>2, Zenon DEF BuiltInv
<1>13. cur = Idle /\ cur.num = None
  BY Zenon DEF Init, Idle
<1>14. CopyInv
  <2>1. Store!After(log, next - 1) = [p \in Points |-> IF \E s \in Initial : p \in Placed[s]
                                                       THEN [vec |-> 0, payload |-> {0}]
                                                       ELSE [vec |-> None, payload |-> {}]]
    BY AfterStart DEF Init, StartPoints
  <2> SUFFICES ASSUME NEW p \in Points PROVE Settled(p, Store!After(log, next - 1)[p])
    BY <1>13, Zenon DEF CopyInv
  <2>2. CASE \E s \in Initial : p \in Placed[s]
    <3>1. Store!After(log, next - 1)[p] = [vec |-> 0, payload |-> {0}]
      BY <2>1, <2>2, Zenon
    <3>2. [vec |-> 0, payload |-> {0}] # Store!Absent
      BY Zenon DEF Store!Absent
    <3>3. \A s \in Segs : Shows(s, p) => Content(s, p) = [vec |-> 0, payload |-> {0}]
      BY <1>6, Zenon DEF Shows, Content
    <3> QED BY <1>0, <1>10, <2>2, <3>1, <3>2, <3>3, Zenon DEF Settled
  <2>3. CASE ~ \E s \in Initial : p \in Placed[s]
    <3>1. Store!After(log, next - 1)[p] = Store!Absent
      BY <2>1, <2>3, Zenon DEF Store!Absent, None
    <3> QED BY <1>10, <2>3, <3>1, Zenon DEF Settled
  <2> QED BY <2>2, <2>3, Zenon
<1> QED BY <1>7, <1>8, <1>9, <1>11, <1>12, <1>13, <1>14, Zenon DEF RunInv, OpInv

-----------------------------------------------------------------------------
(* A change of one point                                                   *)

\* Operation n changes p in segments that take changes, and proxies may hide it
\* in the segments they wrap.
Touches(n, p) ==
    /\ UNCHANGED <<log, next, holder, task>>
    /\ mem' \in [Segs -> SegmentState] /\ deleted' \in [Tasks -> SUBSET Points]
    /\ \A s \in Segs : \/ mem'[s] = mem[s]
                       \/ /\ Open(s)
                          /\ \/ Drops(mem[s], mem'[s], n, p)
                             \/ \E v \in Nat, y \in SUBSET Nat : Puts(mem[s], mem'[s], n, p, v, y)
    /\ \A t \in Tasks : deleted'[t] = deleted[t] \/ (Wrapping(t) /\ deleted'[t] = deleted[t] \cup {p})

\* Everything but p stays as it is.
LEMMA TouchKeepsOthers ==
    ASSUME RunType, TaskInv, NEW n \in Nat, NEW p \in Points, Touches(n, p)
    PROVE  /\ \A s \in Segs : ~ Open(s) => mem'[s] = mem[s]
           /\ \A s \in Segs : Open(s)' <=> Open(s)
           /\ \A s \in Segs : Proxied(s)' <=> Proxied(s)
           /\ \A s \in Segs, q \in Points \ {p} :
                 SameAt(mem[s], mem'[s], q) /\ (Shows(s, q)' <=> Shows(s, q)) /\ Content(s, q)' = Content(s, q)
<1>1. \A s \in Segs : ~ Open(s) => mem'[s] = mem[s]
  BY Zenon DEF Touches
<1>2. holder' = holder /\ task' = task
  BY Zenon DEF Touches
<1>3. \A s \in Segs : (Open(s)' <=> Open(s)) /\ (Proxied(s)' <=> Proxied(s))
  BY <1>2, Zenon DEF Open, Proxied, Wrapping
<1>4. ASSUME NEW s \in Segs, NEW q \in Points \ {p} PROVE SameAt(mem[s], mem'[s], q)
  BY Zenon DEF Touches, Drops, Puts, SameAt
<1>5. \A t \in Tasks : \A q \in Points \ {p} : q \in deleted'[t] <=> q \in deleted[t]
  BY Zenon DEF Touches
<1>6. ASSUME NEW s \in Segs, NEW q \in Points \ {p} PROVE Shows(s, q)' <=> Shows(s, q)
  BY <1>2, <1>3, <1>4, <1>5, Zenon DEF Shows, SameAt, Proxied
<1>7. ASSUME NEW s \in Segs, NEW q \in Points \ {p} PROVE Content(s, q)' = Content(s, q)
  BY <1>4, Zenon DEF Content, SameAt
<1> QED BY <1>1, <1>3, <1>4, <1>6, <1>7, Zenon

\* ... and the invariants hold afterwards if only one segment shows p.
LEMMA TouchKeeps ==
    ASSUME RunType, TaskInv, SegInv, HomeInv, BuiltInv, NEW n \in Nat, n = next - 1, NEW p \in Points,
           Touches(n, p), \A s, r \in Segs : Shows(s, p)' /\ Shows(r, p)' => s = r
    PROVE  TaskInv' /\ SegInv' /\ HomeInv' /\ BuiltInv'
<1>0. /\ holder' = holder /\ task' = task /\ next' = next
      /\ \A t \in Tasks : deleted[t] \subseteq deleted'[t]
  BY Zenon DEF Touches
<1>1. TaskInv'
  <2>1. \A t \in Tasks : task[t].pc = "idle" => ~ Open(Tmp(t)) /\ ~ Wrapping(t)
    BY Distinct, Zenon DEF TaskInv, Open, Wrapping
  <2>2. \A t \in Tasks : task[t].pc = "idle" => mem'[Tmp(t)] = mem[Tmp(t)] /\ deleted'[t] = deleted[t]
    BY <2>1, Distinct, TouchKeepsOthers, Zenon DEF Touches
  <2>3. \A t \in Tasks : Wrapping(t)' <=> Wrapping(t)
    BY <1>0, Zenon DEF Wrapping
  <2> QED BY <1>0, <2>2, <2>3, SMTT(30) DEF TaskInv
<1>2. SegInv'
  <2> SUFFICES ASSUME NEW s \in Segs
               PROVE  /\ mem'[s].version < next
                      /\ \A q \in mem'[s].mapping : mem'[s].versions[q] <= mem'[s].version /\ mem'[s].vectors[q] \in Nat
    BY <1>0, Zenon DEF SegInv
  <2>1. CASE mem'[s] = mem[s]
    BY <2>1, Zenon DEF SegInv
  <2>2. CASE mem'[s] # mem[s]
    <3>1. /\ mem'[s].version = n /\ mem'[s] \in SegmentState
          /\ p \in mem'[s].mapping => mem'[s].versions[p] = n /\ mem'[s].vectors[p] \in Nat
      BY <2>2, Zenon DEF Touches, Drops, Puts
    <3>2. /\ mem[s] \in SegmentState /\ mem[s].version \in Version /\ n < next /\ mem[s].mapping \subseteq Points
          /\ mem[s].version <= n
      BY DEF SegInv, RunType, SegmentState, Version, None
    <3>3. ASSUME NEW q \in mem'[s].mapping, q # p
          PROVE  mem'[s].versions[q] <= n /\ mem'[s].vectors[q] \in Nat
      <4>1. q \in Points
        BY <3>1, Zenon DEF SegmentState
      <4>2. q \in mem[s].mapping /\ mem'[s].versions[q] = mem[s].versions[q] /\ mem'[s].vectors[q] = mem[s].vectors[q]
        BY <3>3, <4>1, TouchKeepsOthers DEF SameAt
      <4>3. mem[s].versions[q] \in Version
        BY <3>2, <4>1, Zenon DEF SegmentState
      <4> QED BY <3>2, <4>2, <4>3 DEF SegInv, Version, None
    <3> QED BY <3>1, <3>2, <3>3, SMTT(30)
  <2> QED BY <2>1, <2>2, Zenon
<1>3. HomeInv'
  <2>1. \A s, r \in Segs : \A q \in Points : Shows(s, q)' /\ Shows(r, q)' => s = r
    <3> SUFFICES ASSUME NEW s \in Segs, NEW r \in Segs, NEW q \in Points, Shows(s, q)', Shows(r, q)' PROVE s = r
      BY Zenon
    <3>1. CASE q = p
      BY <3>1, Zenon
    <3>2. CASE q # p
      <4>1. Shows(s, q) /\ Shows(r, q)
        BY <3>2, TouchKeepsOthers, Zenon
      <4> QED BY <4>1, Zenon DEF HomeInv
    <3> QED BY <3>1, <3>2, Zenon
  <2>2. ASSUME NEW s \in Segs, NEW r \in Segs, Proxied(s)', holder'[r] = holder'[s], s # r
        PROVE  mem'[s].mapping \cap mem'[r].mapping = {}
    <3>1. Proxied(s) /\ holder[r] = holder[s] /\ Proxied(r)
      BY <1>0, <2>2, Zenon DEF Proxied
    <3>2. mem'[s] = mem[s] /\ mem'[r] = mem[r]
      BY <3>1, BehindProxy, TouchKeepsOthers, Zenon
    <3> QED BY <2>2, <3>1, <3>2, Zenon DEF HomeInv
  <2> QED BY <2>1, <2>2, Zenon DEF HomeInv
<1>4. BuiltInv'
  <2> SUFFICES ASSUME NEW t \in Tasks, task[t].pc \in {"built", "swept"}
               PROVE  /\ \A q \in mem'[Out(t)].mapping : \E s \in task[t].ids : q \in mem'[s].mapping
                      /\ \A s \in task[t].ids : \A q \in mem'[s].mapping \ deleted'[t] :
                            q \in mem'[Out(t)].mapping /\ Content(Out(t), q)' = Content(s, q)'
                      /\ task[t].pc = "swept" => task[t].removed \cap mem'[Out(t)].mapping = {}
    BY <1>0, Zenon DEF BuiltInv
  <2>1. Wrapping(t) /\ holder[Out(t)] = Absent /\ Out(t) \in Segs /\ ~ Open(Out(t))
    BY Distinct, Zenon DEF Wrapping, TaskInv, Open
  <2>2. mem'[Out(t)] = mem[Out(t)]
    BY <2>1, TouchKeepsOthers, Zenon
  <2>3. \A s \in task[t].ids : s \in Segs /\ Proxied(s) /\ ~ Open(s)
    BY <2>1, BehindProxy, SMTT(60) DEF TaskInv, RunType, Proxied
  <2>4. \A s \in task[t].ids : mem'[s] = mem[s]
    BY <2>3, TouchKeepsOthers, Zenon
  <2>5. \A s \in task[t].ids : \A q \in mem[s].mapping \ deleted[t] :
           q \in mem[Out(t)].mapping /\ Content(Out(t), q) = Content(s, q)
    BY Zenon DEF BuiltInv
  <2>6. \A s \in task[t].ids : \A q : Content(s, q)' = Content(s, q) /\ Content(Out(t), q)' = Content(Out(t), q)
    BY <2>2, <2>4, Zenon DEF Content
  <2> QED BY <1>0, <2>2, <2>4, <2>5, <2>6, SMTT(30) DEF BuiltInv
<1> QED BY <1>1, <1>2, <1>3, <1>4, Zenon

-----------------------------------------------------------------------------
(* How the calls of an update touch the segments                           *)

\* The current operation as a change of its point: afterwards one segment shows
\* the point, with the number of the operation and what the reference gives it.
PutsPoint(n, p, ref) ==
    /\ Touches(n, p)
    /\ \E g \in Segs : /\ \A s \in Segs : Shows(s, p)' <=> s = g
                       /\ mem'[g].versions[p] = n /\ Content(g, p)' = ref

\* A segment that takes changes accepts the operation.
LEMMA OpenAccepts ==
    ASSUME RunType, SegInv, NEW s \in Segs, NEW p \in Points, NEW n \in Nat, n = next - 1
    PROVE  Accepts(mem[s], n, p) /\ (p \in mem[s].mapping => mem[s].vectors[p] \in Nat)
                                 /\ mem[s].payloads[p] \in SUBSET Nat
<1>1. mem[s] \in SegmentState /\ mem[s].version \in Version /\ next \in Nat
  BY Zenon DEF RunType, SegmentState
<1>2. mem[s].versions[p] \in Version /\ mem[s].payloads[p] \in SUBSET Nat
  BY <1>1, Zenon DEF SegmentState
<1>3. mem[s].version <= n
  BY <1>1 DEF SegInv, Version, None
<1>4. p \in mem[s].mapping => mem[s].versions[p] <= n /\ mem[s].vectors[p] \in Nat
  BY <1>1, <1>2, <1>3, SMTT(30) DEF SegInv, Version, None
<1> QED BY <1>1, <1>2, <1>3, <1>4, Zenon DEF Accepts

\* The point is changed in segment g, where a reader meets it already or no reader
\* meets it; every other segment that showed it shows it no more.
LEMMA PutInSegment ==
    ASSUME RunType, TaskInv, NEW n \in Nat, NEW p \in Points, NEW g \in Segs, Open(g),
           UNCHANGED <<log, next, holder, task>>,
           mem' \in [Segs -> SegmentState], deleted' \in [Tasks -> SUBSET Points],
           NEW v \in Nat, NEW y \in SUBSET Nat, Puts(mem[g], mem'[g], n, p, v, y),
           \A s \in Segs \ {g} : /\ mem'[s] = mem[s] \/ (Open(s) /\ Drops(mem[s], mem'[s], n, p))
                                 /\ ~ Shows(s, p)',
           \A t \in Tasks : deleted'[t] = deleted[t] \/ (Wrapping(t) /\ deleted'[t] = deleted[t] \cup {p})
    PROVE  PutsPoint(n, p, Point(v, y))
<1>1. Touches(n, p)
  BY Zenon DEF Touches
<1>2. Open(g)'
  BY <1>1, TouchKeepsOthers, Zenon
<1>3. Shows(g, p)' /\ mem'[g].versions[p] = n /\ Content(g, p)' = Point(v, y)
  BY <1>2, Zenon DEF Shows, Puts, Content, Point
<1> QED BY <1>1, <1>3, Zenon DEF PutsPoint

\* The segments and the deleted points of the proxies, of the right types.
Worlds == [mem : [Segs -> SegmentState], deleted : [Tasks -> SUBSET Points]]

\* f with another value at k.
With(f, k, v) == [f EXCEPT ![k] = v]

\* move_if_exists and the change of an entry, with the segments it goes to.
LEMMA WorldModified ==
    ASSUME NEW w \in Worlds, NEW e \in Segs, NEW n \in Nat, NEW p, p = Op(n).point
    PROVE  /\ ~ Proxied(e) =>
                 /\ Modified(w, e, n).mem = With(w.mem, e, Modify(w.mem[e], n))
                 /\ Modified(w, e, n).deleted = w.deleted
           /\ Proxied(e) /\ (p \in w.deleted[holder[e]] \/ p \notin w.mem[e].mapping) =>
                 /\ Modified(w, e, n).mem = With(w.mem, Tmp(holder[e]), Modify(w.mem[Tmp(holder[e])], n))
                 /\ Modified(w, e, n).deleted = w.deleted
<1> DEFINE t == holder[e]
<1>0. w.mem \in [Segs -> SegmentState] /\ w.deleted \in [Tasks -> SUBSET Points]
      /\ w = [mem |-> w.mem, deleted |-> w.deleted]
  BY Zenon DEF Worlds
<1>1. CASE ~ Proxied(e)
  <2>1. Modified(w, e, n) = [w EXCEPT !.mem[e] = Modify(w.mem[e], n)]
    BY <1>1, Zenon DEF Modified
  <2> QED BY <1>0, <1>1, <2>1, Zenon DEF With
<1>2. CASE Proxied(e) /\ (p \in w.deleted[t] \/ p \notin w.mem[e].mapping)
  <2>1. MoveIfExists(w, e, n, p) = w
    BY <1>2, Zenon DEF MoveIfExists
  <2>2. Modified(w, e, n) = [w EXCEPT !.mem[Tmp(t)] = Modify(w.mem[Tmp(t)], n)]
    BY <1>2, <2>1, Zenon DEF Modified
  <2> QED BY <1>0, <1>2, <2>2, Zenon DEF With
<1> QED BY <1>1, <1>2, Zenon

\* The deleted points of proxies with one more.
Plus(S, p) == S \cup {p}

\* ... and the same when the point moves to the write segment.
LEMMA WorldMoved ==
    ASSUME NEW w \in Worlds, NEW e \in Segs, NEW n \in Nat, NEW p, p = Op(n).point,
           NEW t, t = holder[e], NEW g, g = Tmp(t), Proxied(e), p \notin w.deleted[t], p \in w.mem[e].mapping
    PROVE  /\ Modified(w, e, n).mem = With(w.mem, g, Modify(MovedInto(w.mem[g], w.mem[e], n, p), n))
           /\ Modified(w, e, n).deleted = With(w.deleted, t, Plus(w.deleted[t], p))
<1> DEFINE moved == [mem |-> [w.mem EXCEPT ![g] = MovedInto(w.mem[g], w.mem[e], n, p)],
                     deleted |-> [w.deleted EXCEPT ![t] = w.deleted[t] \cup {p}]]
<1>0. w.mem \in [Segs -> SegmentState] /\ w.deleted \in [Tasks -> SUBSET Points]
      /\ w = [mem |-> w.mem, deleted |-> w.deleted]
  BY Zenon DEF Worlds
<1>1. MoveIfExists(w, e, n, p) = moved
  BY <1>0, Zenon DEF MoveIfExists
<1>2. t \in Tasks /\ g \in Segs
  BY Distinct, Zenon DEF Proxied
<1>3. Modified(w, e, n) = [moved EXCEPT !.mem[g] = Modify(moved.mem[g], n)]
  BY <1>1, Zenon DEF Modified
<1>4. moved.mem[g] = MovedInto(w.mem[g], w.mem[e], n, p)
  BY <1>0, <1>2, Zenon
<1> QED BY <1>0, <1>2, <1>3, <1>4 DEF With, Plus

\* An operation on an entry that takes changes and has the point: it is changed
\* where it is, or moves from the wrapped segment to the write segment.
LEMMA ModifiedPuts ==
    ASSUME RunInv, NEW n \in Nat, n = cur.num, NEW p, p = Op(n).point, Op(n).kind # "delete",
           UNCHANGED <<log, next, holder, task>>,
           NEW e \in Held, HasPoint(World, e, p), NEW h, h = Answering(World, e, p),
           mem' = Modified(World, e, n).mem, deleted' = Modified(World, e, n).deleted
    PROVE  PutsPoint(n, p, Store!Effect(Op(n).kind, n, Content(h, p)))
<1> DEFINE t == holder[e]
<1>0. RunType /\ TaskInv /\ SegInv /\ HomeInv /\ OpInv
  BY Zenon DEF RunInv
<1>1. n \in Nat /\ p \in Points /\ n = next - 1 /\ Op(n) \in Ops /\ e \in Segs
  BY <1>0, OpInLog, SMTT(30) DEF Held, None
<1>2. h \in Segs /\ Shows(h, p) /\ \A s \in Segs : Shows(s, p) => s = h
  BY <1>0, <1>1, HasPointShows, ShowsInWorld, SMTT(30) DEF HomeInv
<1>3. p \in mem[h].mapping /\ mem[h].vectors[p] \in Nat /\ mem[h].payloads[p] \in SUBSET Nat
  BY <1>0, <1>1, <1>2, OpenAccepts, Zenon DEF Shows
<1>4. /\ World \in Worlds /\ World.mem = mem /\ World.deleted = deleted
      /\ mem \in [Segs -> SegmentState] /\ deleted \in [Tasks -> SUBSET Points]
  BY <1>0, Zenon DEF World, Worlds, RunType
<1>5. ASSUME NEW g \in Segs, Open(g), g = h, mem' = With(mem, g, Modify(mem[g], n)), deleted' = deleted
      PROVE  PutsPoint(n, p, Store!Effect(Op(n).kind, n, Content(h, p)))
  <2>1. Accepts(mem[g], n, p)
    BY <1>0, <1>1, OpenAccepts, Zenon
  <2>2. PICK v \in Nat, y \in SUBSET Nat :
           /\ Puts(mem[g], Modify(mem[g], n), n, p, v, y)
           /\ Store!Effect(Op(n).kind, n, Content(h, p)) = Point(v, y)
    <3>1. Content(h, p) = Shown(mem[g], p)
      BY <1>5, Zenon DEF Content, Shown
    <3>2. p \in mem[g].mapping /\ mem[g].vectors[p] \in Nat
      BY <1>3, <1>5, Zenon
    <3>3. LikeReference(mem[g], n, p)
      BY <1>1, <2>1, <3>2, ModifyPuts, Zenon
    <3> QED BY <3>1, <3>3, Zenon DEF LikeReference
  <2>3. mem'[g] = Modify(mem[g], n) /\ \A s \in Segs \ {g} : mem'[s] = mem[s]
    BY <1>4, <1>5, Zenon DEF With
  <2>4. mem' \in [Segs -> SegmentState]
    BY <1>4, <1>5, <2>2, Zenon DEF Puts, With
  <2>5. \A s \in Segs \ {g} : ~ Shows(s, p)'
    BY <1>2, <1>5, <2>3, Zenon DEF Shows, Open, Proxied, Wrapping
  <2> QED BY <1>0, <1>1, <1>4, <1>5, <2>2, <2>3, <2>4, <2>5, PutInSegment, Zenon
<1>6. CASE ~ Proxied(e)
  <2>1. h = e /\ Open(e)
    BY <1>0, <1>1, <1>6, Zenon DEF Answering, Open, Held, RunType, Proxied
  <2>2. mem' = With(mem, e, Modify(mem[e], n)) /\ deleted' = deleted
    <3>1. /\ Modified(World, e, n).mem = With(World.mem, e, Modify(World.mem[e], n))
          /\ Modified(World, e, n).deleted = World.deleted
      BY <1>1, <1>4, <1>6, WorldModified, Zenon
    <3> QED BY <1>4, <3>1, Zenon
  <2> QED BY <1>1, <1>5, <2>1, <2>2, Zenon
<1>7. CASE Proxied(e)
  <2>1. Tmp(t) \in Segs /\ Open(Tmp(t)) /\ ~ Open(e) /\ Tmp(t) # e /\ t \in Tasks /\ Wrapping(t)
    BY <1>0, <1>1, <1>7, BehindProxy, Zenon
  <2>2. CASE p \in mem[Tmp(t)].mapping
    <3>1. h = Tmp(t)
      BY <1>4, <1>7, <2>2, Zenon DEF Answering
    <3>2. p \in deleted[t] \/ p \notin mem[e].mapping
      BY <1>1, <1>2, <1>7, <2>1, <3>1, Zenon DEF Shows
    <3>3. mem' = With(mem, Tmp(t), Modify(mem[Tmp(t)], n)) /\ deleted' = deleted
      <4>1. /\ Modified(World, e, n).mem = With(World.mem, Tmp(t), Modify(World.mem[Tmp(t)], n))
            /\ Modified(World, e, n).deleted = World.deleted
        <5>1. p \in World.deleted[holder[e]] \/ p \notin World.mem[e].mapping
          BY <1>4, <3>2, Zenon
        <5> QED BY <1>1, <1>4, <1>7, <5>1, WorldModified, Zenon
      <4> QED BY <1>4, <4>1, Zenon
    <3> QED BY <1>5, <2>1, <3>1, <3>3, Zenon
  <2>3. CASE p \notin mem[Tmp(t)].mapping
    <3> DEFINE g == Tmp(t)
               mid == MovedInto(mem[g], mem[e], n, p)
    <3>1. h = e /\ p \in mem[e].mapping /\ p \notin deleted[t]
      BY <1>2, <1>4, <1>7, <2>1, <2>3, Zenon DEF Answering, Shows
    <3>2. mem' = With(mem, g, Modify(mid, n)) /\ deleted' = With(deleted, t, deleted[t] \cup {p})
      <4>1. p \notin World.deleted[t] /\ p \in World.mem[e].mapping
        BY <1>4, <3>1, Zenon
      <4>2. /\ Modified(World, e, n).mem = With(World.mem, g, Modify(MovedInto(World.mem[g], World.mem[e], n, p), n))
            /\ Modified(World, e, n).deleted = With(World.deleted, t, Plus(World.deleted[t], p))
        <5>1. PICK w \in Worlds : w = World
          BY <1>4, Zenon
        <5>2. PICK u : u = holder[e]
          BY Zenon
        <5>3. PICK r : r = Tmp(u)
          BY Zenon
        <5>4. /\ Modified(w, e, n).mem = With(w.mem, r, Modify(MovedInto(w.mem[r], w.mem[e], n, p), n))
              /\ Modified(w, e, n).deleted = With(w.deleted, u, Plus(w.deleted[u], p))
          BY <1>1, <1>7, <4>1, <5>1, <5>2, <5>3, WorldMoved, SMTT(60)
        <5> QED BY <5>1, <5>2, <5>3, <5>4, Zenon
      <4> QED BY <1>4, <4>2, Zenon DEF Plus
    <3>3. Accepts(mem[g], n, p) /\ mem[e] \in SegmentState /\ g \in Segs /\ Open(g)
      BY <1>0, <1>1, <1>4, <2>1, OpenAccepts, Zenon
    <3> HIDE DEF g
    <3>4. Puts(mem[g], mid, n, p, mem[e].vectors[p], mem[e].payloads[p])
      BY <1>1, <1>3, <3>1, <3>3, MovedIntoPuts, Zenon
    <3>5. /\ Accepts(mid, n, p) /\ p \in mid.mapping
          /\ mid.vectors[p] = mem[e].vectors[p] /\ mid.payloads[p] = mem[e].payloads[p]
      BY <1>1, <3>4, PutsAccepts, Zenon DEF Puts
    <3> HIDE DEF mid
    <3>6. PICK v \in Nat, y \in SUBSET Nat :
             /\ Puts(mid, Modify(mid, n), n, p, v, y)
             /\ Store!Effect(Op(n).kind, n, Content(h, p)) = Point(v, y)
      <4>1. Content(h, p) = Shown(mid, p) /\ mid.vectors[p] \in Nat
        BY <1>3, <3>1, <3>5, Zenon DEF Content, Shown
      <4>2. LikeReference(mid, n, p)
        BY <1>1, <3>5, <4>1, ModifyPuts, Zenon
      <4> QED BY <4>1, <4>2, Zenon DEF LikeReference
    <3>7. Puts(mem[g], Modify(mid, n), n, p, v, y)
      BY <3>4, <3>6, PutsTwice, SMTT(30)
    <3>8. mem'[g] = Modify(mid, n) /\ \A s \in Segs \ {g} : mem'[s] = mem[s]
      BY <1>4, <3>2, <3>3, Zenon DEF With
    <3>9. mem' \in [Segs -> SegmentState] /\ deleted' \in [Tasks -> SUBSET Points]
      <4>1. Modify(mid, n) \in SegmentState
        BY <3>7, Zenon DEF Puts
      <4>2. mem' \in [Segs -> SegmentState]
        BY <1>4, <3>2, <4>1, Zenon DEF With
      <4>3. deleted' \in [Tasks -> SUBSET Points]
        BY <1>1, <1>4, <2>1, <3>2, SMTT(30) DEF With
      <4> QED BY <4>2, <4>3, Zenon
    <3>10. \A u \in Tasks : deleted'[u] = deleted[u] \/ (Wrapping(u) /\ deleted'[u] = deleted[u] \cup {p})
      BY <1>4, <2>1, <3>2, Zenon DEF With
    <3>11. ASSUME NEW s \in Segs \ {g} PROVE ~ Shows(s, p)'
      <4>1. p \in deleted'[t] /\ \A u \in Tasks : deleted[u] \subseteq deleted'[u]
        BY <1>4, <2>1, <3>2, SMTT(30) DEF With
      <4>2. CASE s = e
        BY <1>7, <2>1, <4>1, <4>2, Zenon DEF Shows, Open, Proxied, Wrapping
      <4>3. CASE s # e
        <5>1. ~ Shows(s, p)
          BY <1>2, <3>1, <4>3, Zenon
        <5> QED BY <3>8, <4>1, <5>1, Zenon DEF Shows, Open, Proxied, Wrapping
      <4> QED BY <4>2, <4>3, Zenon
    <3>12. \A s \in Segs \ {g} : /\ mem'[s] = mem[s] \/ (Open(s) /\ Drops(mem[s], mem'[s], n, p))
                                 /\ ~ Shows(s, p)'
      BY <3>8, <3>11, Zenon
    <3>13. Puts(mem[g], mem'[g], n, p, v, y)
      BY <3>7, <3>8, Zenon
    <3>14. PutsPoint(n, p, Point(v, y))
      BY <1>0, <1>1, <3>3, <3>9, <3>10, <3>12, <3>13, PutInSegment, Zenon
    <3> QED BY <3>6, <3>14, Zenon
  <2> QED BY <2>2, <2>3, Zenon
<1> QED BY <1>6, <1>7, Zenon

\* The segment that takes the changes of an entry.
Target(a) == IF Proxied(a) THEN Tmp(holder[a]) ELSE a

\* An entry that does not have the point changes its target only.
LEMMA TargetOf ==
    ASSUME RunType, TaskInv, NEW a \in Held
    PROVE  Target(a) \in Segs /\ Open(Target(a)) /\ a \in Segs /\ (Proxied(a) => ~ Open(a) /\ Target(a) # a)
<1>1. CASE Proxied(a)
  BY <1>1, BehindProxy, Zenon DEF Target, Held
<1>2. CASE ~ Proxied(a)
  BY <1>2, Zenon DEF Target, Held, Open, RunType, Proxied
<1> QED BY <1>1, <1>2, Zenon

\* A change through an entry is made in the segment that takes the changes for it.
LEMMA ModifiedTarget ==
    ASSUME RunType, TaskInv, NEW a \in Held, NEW n \in Nat, NEW p, p = Op(n).point, NEW w \in Worlds,
           ~ ShowsIn(w, a, p) \/ ~ Proxied(a)
    PROVE  /\ Modified(w, a, n).mem = With(w.mem, Target(a), Modify(w.mem[Target(a)], n))
           /\ Modified(w, a, n).deleted = w.deleted
<1>1. CASE Proxied(a)
  <2>1. p \in w.deleted[holder[a]] \/ p \notin w.mem[a].mapping
    BY <1>1, Zenon DEF ShowsIn
  <2> QED BY <1>1, <2>1, WorldModified, TargetOf, Zenon DEF Target
<1>2. CASE ~ Proxied(a)
  BY <1>2, WorldModified, TargetOf, Zenon DEF Target
<1> QED BY <1>1, <1>2, Zenon

\* The point is moved from segment s to segment g.
MovedTo(w, s, g, n, p) ==
    [mem |-> With(With(w.mem, g, MovedInto(w.mem[g], w.mem[s], n, p)), s, DeletePoint(w.mem[s], n, p)),
     deleted |-> w.deleted]

\* The move of a point to an entry that does not have it.
LEMMA MovedTarget ==
    ASSUME RunType, TaskInv, NEW a \in Held, NEW s \in Segs, s # Target(a), s # a, NEW n \in Nat, NEW p,
           NEW w \in Worlds, ~ ShowsIn(w, a, p) \/ ~ Proxied(a)
    PROVE  Moved(w, s, a, n, p) = MovedTo(w, s, Target(a), n, p)
<1>0. /\ w.mem \in [Segs -> SegmentState] /\ w.deleted \in [Tasks -> SUBSET Points]
      /\ w = [mem |-> w.mem, deleted |-> w.deleted]
  BY Zenon DEF Worlds
<1>1. CASE Proxied(a)
  <2>1. MoveIfExists(w, a, n, p) = w
    BY <1>1, Zenon DEF MoveIfExists, ShowsIn
  <2>2. Moved(w, s, a, n, p) =
           [w EXCEPT !.mem[Target(a)] = MovedInto(w.mem[Target(a)], w.mem[s], n, p),
                     !.mem[s] = DeletePoint(@, n, p)]
    BY <1>1, <2>1, Zenon DEF Moved, Target
  <2> QED BY <1>0, <2>2, TargetOf, Zenon DEF With, MovedTo
<1>2. CASE ~ Proxied(a)
  <2>2. Moved(w, s, a, n, p) =
           [w EXCEPT !.mem[Target(a)] = MovedInto(w.mem[Target(a)], w.mem[s], n, p),
                     !.mem[s] = DeletePoint(@, n, p)]
    BY <1>2, Zenon DEF Moved, Target
  <2> QED BY <1>0, <2>2, TargetOf, Zenon DEF With, MovedTo
<1> QED BY <1>1, <1>2, Zenon

\* upsert_points of a point that no segment has
LEMMA InsertPuts ==
    ASSUME RunInv, NEW n \in Nat, n = cur.num, NEW p, p = Op(n).point, Op(n).kind = "upsert",
           UNCHANGED <<log, next, holder, task>>,
           NEW a \in Held, \A s \in Segs : ~ Shows(s, p), NEW ref,
           mem' = Modified(World, a, n).mem, deleted' = Modified(World, a, n).deleted
    PROVE  PutsPoint(n, p, Store!Effect(Op(n).kind, n, ref))
<1>0. RunType /\ TaskInv /\ SegInv /\ HomeInv /\ OpInv
  BY Zenon DEF RunInv
<1>1. p \in Points /\ n = next - 1 /\ Op(n) \in Ops
  BY <1>0, OpInLog DEF None
<1>2. /\ World \in Worlds /\ World.mem = mem /\ World.deleted = deleted
      /\ mem \in [Segs -> SegmentState] /\ deleted \in [Tasks -> SUBSET Points]
  BY <1>0, Zenon DEF World, Worlds, RunType
<1>3. PICK g \in Segs : g = Target(a) /\ Open(g)
  BY <1>0, TargetOf, Zenon
<1>4. mem' = With(mem, g, Modify(mem[g], n)) /\ deleted' = deleted
  <2>1. ~ ShowsIn(World, a, p)
    BY ShowsInWorld, Zenon DEF Held
  <2> QED BY <1>0, <1>2, <1>3, <2>1, ModifiedTarget, Zenon
<1>5. Accepts(mem[g], n, p)
  BY <1>0, <1>1, OpenAccepts, Zenon
<1>6. LikeReference(mem[g], n, p)
  BY <1>1, <1>5, ModifyPuts, Zenon
<1>7. PICK v \in Nat, y \in SUBSET Nat :
         Puts(mem[g], Modify(mem[g], n), n, p, v, y) /\ Store!Effect(Op(n).kind, n, ref) = Point(v, y)
  BY <1>6, Zenon DEF LikeReference
<1>8. mem'[g] = Modify(mem[g], n) /\ \A s \in Segs \ {g} : mem'[s] = mem[s]
  BY <1>2, <1>4, Zenon DEF With
<1>9. mem' \in [Segs -> SegmentState]
  BY <1>2, <1>4, <1>7, Zenon DEF Puts, With
<1>10. \A s \in Segs \ {g} : ~ Shows(s, p)'
  BY <1>4, <1>8, Zenon DEF Shows, Open, Proxied, Wrapping
<1> QED BY <1>0, <1>1, <1>2, <1>3, <1>4, <1>7, <1>8, <1>9, <1>10, PutInSegment, Zenon

\* An operation on a point of a segment that is not appendable: the point moves to
\* another entry and is changed there.
LEMMA MovedPuts ==
    ASSUME RunInv, NEW n \in Nat, n = cur.num, NEW p, p = Op(n).point, Op(n).kind # "delete",
           UNCHANGED <<log, next, holder, task>>,
           NEW s \in Held, HasPoint(World, s, p), ~ IsAppendable(s), NEW a \in Held, IsAppendable(a),
           mem' = Modified(Moved(World, s, a, n, p), a, n).mem,
           deleted' = Modified(Moved(World, s, a, n, p), a, n).deleted
    PROVE  PutsPoint(n, p, Store!Effect(Op(n).kind, n, Content(s, p)))
<1>0. RunType /\ TaskInv /\ SegInv /\ HomeInv /\ OpInv
  BY Zenon DEF RunInv
<1>1. p \in Points /\ n = next - 1 /\ Op(n) \in Ops /\ s \in Segs /\ s # a
  BY <1>0, OpInLog DEF None, Held
<1>2. /\ World \in Worlds /\ World.mem = mem /\ World.deleted = deleted
      /\ mem \in [Segs -> SegmentState] /\ deleted \in [Tasks -> SUBSET Points]
  BY <1>0, Zenon DEF World, Worlds, RunType
<1>3. ~ Proxied(s) /\ Shows(s, p) /\ holder[s] = Original /\ Open(s)
  <2>1. ~ Proxied(s)
    BY Zenon DEF IsAppendable
  <2>2. holder[s] = Original
    BY <1>0, <2>1, Zenon DEF RunType, Held, Proxied
  <2> QED BY <1>2, <2>1, <2>2, Zenon DEF HasPoint, Shows, Open
<1>4. PICK g \in Segs : g = Target(a) /\ Open(g)
  BY <1>0, TargetOf, Zenon
<1>5. g # s /\ (~ ShowsIn(World, a, p) \/ ~ Proxied(a))
  <2>1. CASE Proxied(a)
    <3>1. holder[g] = Absent
      BY <1>0, <1>4, <2>1, BehindProxy, Zenon DEF Target, Held
    <3>2. ~ Shows(a, p)
      BY <1>0, <1>1, <1>3, Zenon DEF HomeInv, Held
    <3> QED BY <1>3, <3>1, <3>2, Distinct, ShowsInWorld, Zenon
  <2>2. CASE ~ Proxied(a)
    BY <1>1, <1>4, <2>2, Zenon DEF Target
  <2> QED BY <2>1, <2>2, Zenon
<1> DEFINE mid == MovedInto(mem[g], mem[s], n, p)
           del == DeletePoint(mem[s], n, p)
           m1 == With(With(mem, g, mid), s, del)
           w1 == [mem |-> m1, deleted |-> deleted]
<1>6. Moved(World, s, a, n, p) = w1
  <2>1. Moved(World, s, a, n, p) = MovedTo(World, s, g, n, p)
    BY <1>0, <1>1, <1>2, <1>4, <1>5, MovedTarget, ZenonT(30)
  <2> QED BY <1>2, <2>1, Zenon DEF MovedTo
<1>7. /\ Accepts(mem[g], n, p) /\ Accepts(mem[s], n, p) /\ p \in mem[s].mapping
      /\ mem[s].vectors[p] \in Nat /\ mem[s] \in SegmentState
  BY <1>0, <1>1, <1>2, <1>3, OpenAccepts, Zenon DEF Shows
<1>8. Puts(mem[g], mid, n, p, mem[s].vectors[p], mem[s].payloads[p])
  BY <1>1, <1>7, MovedIntoPuts, Zenon
<1>9. Drops(mem[s], del, n, p)
  BY <1>1, <1>7, DeletePointDrops, Zenon
<1>10. Accepts(mid, n, p) /\ p \in mid.mapping /\ Shown(mid, p) = Content(s, p) /\ mid.vectors[p] \in Nat
  BY <1>7, <1>8, PutsAccepts, Zenon DEF Puts, Shown, Content
<1>11. mid \in SegmentState /\ del \in SegmentState
  BY <1>8, <1>9, Zenon DEF Puts, Drops
<1> HIDE DEF mid, del
<1>12. /\ w1 \in Worlds /\ w1.mem = m1 /\ w1.deleted = deleted
       /\ m1 \in [Segs -> SegmentState] /\ m1[g] = mid /\ m1[s] = del
       /\ \A r \in Segs \ {g, s} : m1[r] = mem[r]
  BY <1>1, <1>2, <1>5, <1>11, Zenon DEF Worlds, With
<1>13. ~ ShowsIn(w1, a, p) \/ ~ Proxied(a)
  <2>1. ASSUME Proxied(a) PROVE ~ ShowsIn(w1, a, p)
    <3>1. a # g /\ a # s /\ a \in Segs
      BY <1>0, <1>1, <1>4, <2>1, TargetOf, Zenon
    <3> QED BY <1>2, <1>5, <1>12, <2>1, <3>1, Zenon DEF ShowsIn
  <2> QED BY <2>1, Zenon
<1> HIDE DEF m1, w1
<1>14. mem' = With(m1, g, Modify(mid, n)) /\ deleted' = deleted
  <2>1. /\ Modified(w1, a, n).mem = With(w1.mem, Target(a), Modify(w1.mem[Target(a)], n))
        /\ Modified(w1, a, n).deleted = w1.deleted
    BY <1>0, <1>12, <1>13, ModifiedTarget, Zenon
  <2> QED BY <1>4, <1>6, <1>12, <2>1, Zenon
<1>15. LikeReference(mid, n, p)
  BY <1>1, <1>10, ModifyPuts, Zenon
<1>16. PICK v \in Nat, y \in SUBSET Nat :
          Puts(mid, Modify(mid, n), n, p, v, y) /\ Store!Effect(Op(n).kind, n, Content(s, p)) = Point(v, y)
  BY <1>10, <1>15, Zenon DEF LikeReference
<1>17. Puts(mem[g], Modify(mid, n), n, p, v, y)
  <2>1. PICK new, v1, y1 : new = Modify(mid, n) /\ Puts(mem[g], mid, n, p, v1, y1)
    BY <1>8, Zenon
  <2>2. Puts(mid, new, n, p, v, y)
    BY <1>16, <2>1, Zenon
  <2> QED BY <2>1, <2>2, PutsTwice, Zenon
<1>18. mem'[g] = Modify(mid, n) /\ mem'[s] = del /\ \A r \in Segs \ {g, s} : mem'[r] = mem[r]
  BY <1>5, <1>12, <1>14 DEF With
<1>19. mem' \in [Segs -> SegmentState]
  BY <1>12, <1>14, <1>17, Zenon DEF Puts, With
<1>20. \A r \in Segs \ {g} : ~ Shows(r, p)'
  <2>1. ~ Shows(s, p)'
    BY <1>9, <1>18, Zenon DEF Shows, Drops
  <2>2. ASSUME NEW r \in Segs \ {g, s} PROVE ~ Shows(r, p)'
    <3>1. ~ Shows(r, p)
      BY <1>0, <1>1, <1>3, <2>2, Zenon DEF HomeInv
    <3> QED BY <1>14, <1>18, <2>2, <3>1, Zenon DEF Shows, Open, Proxied, Wrapping
  <2> QED BY <2>1, <2>2, Zenon
<1>21. \A r \in Segs \ {g} : mem'[r] = mem[r] \/ (Open(r) /\ Drops(mem[r], mem'[r], n, p))
  BY <1>3, <1>9, <1>18, Zenon
<1> QED BY <1>0, <1>1, <1>2, <1>4, <1>14, <1>16, <1>17, <1>18, <1>19, <1>20, <1>21, PutInSegment, Zenon

-----------------------------------------------------------------------------
(* The steps of an update                                                  *)

\* A change of one point leaves the copies of the others as they are.
LEMMA KeepsSettled ==
    ASSUME RunType, TaskInv, NEW n \in Nat, NEW p \in Points, Touches(n, p),
           NEW q \in Points \ {p}, NEW k, Settled(q, Store!After(log, k)[q])
    PROVE  Settled(q, Store!After(log, k)[q])'
<1>1. log' = log
  BY Zenon DEF Touches
<1>2. \A s \in Segs : (Shows(s, q)' <=> Shows(s, q)) /\ Content(s, q)' = Content(s, q)
  BY TouchKeepsOthers, Zenon
<1> QED BY <1>1, <1>2, Zenon DEF Settled

\* The operation has put its point: the invariants hold, and the point is settled.
LEMMA PutKeeps ==
    ASSUME RunInv, NEW n \in Nat, n = cur.num, NEW p, p = Op(n).point, ~ cur.found, Op(n).kind # "delete",
           NEW ref, ref = Store!After(log, n)[p], ref # Store!Absent, PutsPoint(n, p, ref)
    PROVE  /\ TaskInv' /\ SegInv' /\ HomeInv' /\ BuiltInv'
           /\ log' = log /\ next' = next /\ holder' = holder /\ Held' = Held /\ task' = task
           /\ mem' \in [Segs -> SegmentState] /\ deleted' \in [Tasks -> SUBSET Points]
           /\ \A q \in Points : Settled(q, Store!After(log, n)[q])'
           /\ \A s \in Segs : Shows(s, p)' => mem'[s].versions[p] >= n
<1>0. RunType /\ TaskInv /\ SegInv /\ HomeInv /\ BuiltInv /\ OpInv /\ CopyInv
  BY Zenon DEF RunInv
<1>1. p \in Points /\ n = next - 1 /\ n # None
  BY <1>0, OpInLog, SMTT(30) DEF None
<1>2. /\ log' = log /\ next' = next /\ holder' = holder /\ task' = task /\ Touches(n, p)
      /\ mem' \in [Segs -> SegmentState] /\ deleted' \in [Tasks -> SUBSET Points]
  BY Zenon DEF PutsPoint, Touches
<1>3. PICK g \in Segs : /\ \A s \in Segs : Shows(s, p)' <=> s = g
                        /\ mem'[g].versions[p] = n /\ Content(g, p)' = ref
  BY Zenon DEF PutsPoint
<1>4. TaskInv' /\ SegInv' /\ HomeInv' /\ BuiltInv'
  BY <1>0, <1>1, <1>2, <1>3, TouchKeeps, Zenon
<1>5. \A q \in Points \ {p} : Settled(q, Store!After(log, n)[q])
  BY <1>0, <1>1, Zenon DEF CopyInv
<1>6. \A q \in Points \ {p} : Settled(q, Store!After(log, n)[q])'
  BY <1>0, <1>1, <1>2, <1>5, KeepsSettled, Zenon
<1>7. Settled(p, Store!After(log, n)[p])'
  BY <1>2, <1>3, Zenon DEF Settled
<1>8. \A s \in Segs : Shows(s, p)' => mem'[s].versions[p] >= n
  BY <1>3, SMTT(30)
<1>9. Held' = Held
  BY <1>2, Zenon DEF Held
<1> QED BY <1>2, <1>4, <1>6, <1>7, <1>8, <1>9, Zenon

\* The reference gives the point of a change a value if it had one, or for an upsert.
LEMMA EffectPresent ==
    ASSUME RunType, OpInv, NEW n \in Nat, n = cur.num, NEW p, p = Op(n).point, Op(n).kind # "delete",
           NEW v \in Nat, NEW y, Op(n).kind = "upsert" \/ Store!After(log, n - 1)[p] = Point(v, y)
    PROVE  /\ Store!After(log, n)[p] = Store!Effect(Op(n).kind, n, Store!After(log, n - 1)[p])
           /\ Store!After(log, n)[p] # Store!Absent
<1>1. Op(n) \in Ops /\ n # None
  BY OpInLog, SMTT(30) DEF None
<1>2. Store!After(log, n)[p] = Store!Effect(Op(n).kind, n, Store!After(log, n - 1)[p])
  BY <1>1, ReferenceStep, Zenon
<1>3. CASE Op(n).kind = "upsert"
  BY <1>2, <1>3 DEF Store!Effect, Store!Absent
<1>4. CASE Op(n).kind # "upsert"
  <2>1. Op(n).kind \in {"set_payload", "overwrite_payload", "clear_payload"}
    BY <1>1, <1>4, Zenon DEF Ops, AllOpKinds
  <2>2. PICK k \in {"set_payload", "overwrite_payload", "clear_payload"} : k = Op(n).kind
    BY <2>1, Zenon
  <2>3. PICK z : z = NewPayload(k, y, n)
    BY Zenon
  <2>4. Store!Effect(k, n, Point(v, y)) = Point(v, z)
    BY <2>3, EffectOfKind, ZenonT(30)
  <2>5. Point(v, z) # Store!Absent
    BY DEF Point, Store!Absent
  <2> QED BY <1>2, <1>4, <2>2, <2>4, <2>5, Zenon
<1> QED BY <1>2, <1>3, <1>4, Zenon

\* A visit that changes the point, where it is or in an appendable segment it is moved to.
LEMMA UpdateStep == ASSUME RunInv, NEW s \in Segs, VisitUpdate(s) PROVE RunInv'
<1>0. RunType /\ TaskInv /\ SegInv /\ HomeInv /\ BuiltInv /\ OpInv /\ CopyInv
  BY Zenon DEF RunInv
<1>1. /\ s \in cur.todo /\ HasPoint(World, s, Op(cur.num).point) /\ Op(cur.num).kind # "delete"
      /\ PointVersion(World, s, Op(cur.num).point) < cur.num
      /\ cur' = [cur EXCEPT !.todo = @ \ {s}, !.found = TRUE]
      /\ UNCHANGED <<log, next, holder, task>>
  BY <1>0, Zenon DEF VisitUpdate, Visited, RunType
<1>2. cur.num # None /\ s \in Held
  BY <1>0, <1>1 DEF OpInv, Idle
<1>3. PICK n \in Nat, p \in Points : n = cur.num /\ p = Op(n).point
  BY <1>0, <1>2, OpInLog, Zenon
<1>4. PICK h \in Segs : h = Answering(World, s, p) /\ Shows(h, p)
  BY <1>0, <1>1, <1>2, <1>3, HasPointShows, ShowsInWorld, Zenon
<1>5. ~ cur.found
  <2>1. mem[h].versions[p] < n
    BY <1>1, <1>3, <1>4, Zenon DEF PointVersion, World
  <2>2. mem[h].versions[p] \in Version
    BY <1>0, <1>3, <1>4, SMTT(60) DEF RunType, SegmentState
  <2> QED BY <1>0, <1>2, <1>3, <1>4, <2>1, <2>2, SMTT(60) DEF OpInv, Version, None
<1>6. Store!After(log, n - 1)[p] = Content(h, p)
  BY <1>0, <1>1, <1>2, <1>3, <1>4, <1>5, ZenonT(30) DEF CopyInv, Settled
<1>7. PICK ref : /\ ref = Store!After(log, n)[p] /\ ref # Store!Absent
                 /\ ref = Store!Effect(Op(n).kind, n, Content(h, p))
  <2>1. mem[h].vectors[p] \in Nat
    BY <1>0, <1>3, <1>4, Zenon DEF SegInv, Shows
  <2>2. Content(h, p) = Point(mem[h].vectors[p], mem[h].payloads[p])
    BY Zenon DEF Content, Point
  <2> QED BY <1>0, <1>1, <1>3, <1>6, <2>1, <2>2, EffectPresent
<1>8. PutsPoint(n, p, ref)
  <2>1. CASE IsAppendable(s)
    <3>1. mem' = Modified(World, s, n).mem /\ deleted' = Modified(World, s, n).deleted
      BY <1>3, <2>1, Zenon DEF VisitUpdate, Become
    <3> QED BY <1>1, <1>2, <1>3, <1>4, <1>7, <3>1, ModifiedPuts, Zenon
  <2>2. CASE ~ IsAppendable(s)
    <3>1. PICK a \in Held : /\ IsAppendable(a)
                            /\ mem' = Modified(Moved(World, s, a, n, p), a, n).mem
                            /\ deleted' = Modified(Moved(World, s, a, n, p), a, n).deleted
      BY <1>3, <2>2, Zenon DEF VisitUpdate, Become
    <3>2. h = s
      BY <1>4, <2>2, Zenon DEF Answering, IsAppendable
    <3> QED BY <1>1, <1>2, <1>3, <1>7, <2>2, <3>1, <3>2, MovedPuts, Zenon
  <2> QED BY <2>1, <2>2, Zenon
<1>9. /\ TaskInv' /\ SegInv' /\ HomeInv' /\ BuiltInv'
      /\ log' = log /\ next' = next /\ holder' = holder /\ Held' = Held /\ task' = task
      /\ mem' \in [Segs -> SegmentState] /\ deleted' \in [Tasks -> SUBSET Points]
      /\ \A q \in Points : Settled(q, Store!After(log, n)[q])'
      /\ \A r \in Segs : Shows(r, p)' => mem'[r].versions[p] >= n
  BY <1>1, <1>3, <1>5, <1>7, <1>8, PutKeeps, Zenon
<1>10. cur' \in [num : Version, todo : SUBSET Segs, found : BOOLEAN]
       /\ cur'.num = n /\ cur'.found /\ cur'.todo = cur.todo \ {s}
  BY <1>0, <1>1, <1>3, Zenon DEF RunType
<1>11. RunType'
  BY <1>0, <1>9, <1>10, Zenon DEF RunType
<1>12. OpInv'
  <2>1. n # None /\ n = next - 1 /\ n > 0 /\ cur.todo \subseteq Held /\ Op(n)' = Op(n)
    BY <1>0, <1>2, <1>3, <1>9, Zenon DEF OpInv, Op
  <2> QED BY <1>1, <1>3, <1>9, <1>10, <2>1, Zenon DEF OpInv
<1>13. CopyInv'
  BY <1>2, <1>3, <1>9, <1>10, Zenon DEF CopyInv, Op
<1> QED BY <1>9, <1>11, <1>12, <1>13, Zenon DEF RunInv

\* Steps that change nothing that the invariant is about
LEMMA FrameStep ==
    ASSUME RunInv, UNCHANGED <<log, next, cur, holder, mem, deleted, task>>
    PROVE  RunInv'
<1>1. RunType' /\ TaskInv' /\ SegInv'
  BY SMTT(60) DEF RunInv, RunType, TaskInv, SegInv, Wrapping
<1>2. \A s, p : Shows(s, p)' <=> Shows(s, p)
  BY Zenon DEF Shows, Open, Proxied, Wrapping
<1>3. \A s, p : Content(s, p)' = Content(s, p)
  BY Zenon DEF Content
<1>4. HomeInv'
  BY <1>2, Zenon DEF RunInv, HomeInv, Proxied
<1>5. BuiltInv'
  BY <1>3, SMTT(30) DEF RunInv, BuiltInv
<1>6. \A e, p : HasPoint(World, e, p)' <=> HasPoint(World, e, p)
  BY Zenon DEF HasPoint, World, Proxied
<1>7. Held' = Held
  BY Zenon DEF Held
<1>8. OpInv'
  BY <1>2, <1>6, <1>7, Zenon DEF RunInv, OpInv, Op
<1>9. CopyInv'
  BY <1>2, <1>3, Zenon DEF RunInv, CopyInv, Settled, Op
<1> QED BY <1>1, <1>4, <1>5, <1>8, <1>9, Zenon DEF RunInv

\* An operation at the end of the log changes nothing before it.
LEMMA WriteStep == ASSUME RunInv, NEW op \in Ops, Write(op) PROVE RunInv'
<1>0. RunType /\ TaskInv /\ SegInv /\ HomeInv /\ BuiltInv /\ OpInv /\ CopyInv
  BY Zenon DEF RunInv
<1>1. log' = Append(log, op) /\ UNCHANGED <<next, cur, holder, mem, deleted, task>>
  BY Zenon DEF Write
<1>2. /\ log \in Seq(Ops) /\ log' \in Seq(Ops) /\ Len(log') = Len(log) + 1
      /\ \A i \in 1 .. Len(log) : log'[i] = log[i]
  BY <1>0, <1>1, SMTT(60) DEF RunType
<1>3. ASSUME NEW k \in Nat, k <= Len(log) PROVE Store!After(log', k) = Store!After(log, k)
  <2>1. SameStart(log', log, k)
    BY <1>2, <1>3 DEF SameStart
  <2> QED BY <2>1, AfterPrefix, Zenon
<1>4. RunType'
  BY <1>0, <1>1, <1>2, SMTT(30) DEF RunType
<1>5. TaskInv' /\ SegInv'
  BY <1>0, <1>1, SMTT(30) DEF TaskInv, SegInv, Wrapping
<1>6. \A s, p : (Shows(s, p)' <=> Shows(s, p)) /\ Content(s, p)' = Content(s, p)
  BY <1>1, Zenon DEF Shows, Open, Proxied, Wrapping, Content
<1>7. HomeInv' /\ BuiltInv'
  BY <1>0, <1>1, <1>6, SMTT(60) DEF HomeInv, BuiltInv, Proxied
<1>8. \A e, p : HasPoint(World, e, p)' <=> HasPoint(World, e, p)
  BY <1>1, Zenon DEF HasPoint, World, Proxied
<1>9. Held' = Held
  BY <1>1, Zenon DEF Held
<1>10. CASE cur.num = None
  <2>1. OpInv'
    BY <1>0, <1>1, <1>10, Zenon DEF OpInv, Idle
  <2>2. PICK k \in Nat : k = next - 1 /\ k <= Len(log)
    BY <1>0 DEF RunType
  <2>3. Store!After(log', next' - 1) = Store!After(log, next - 1)
    BY <1>1, <1>3, <2>2, Zenon
  <2>4. CopyInv'
    BY <1>0, <1>1, <1>6, <1>10, <2>3, ZenonT(30) DEF CopyInv, Settled
  <2> QED BY <1>4, <1>5, <1>7, <2>1, <2>4, Zenon DEF RunInv
<1>11. CASE cur.num # None
  <2>1. PICK n \in Nat : n = cur.num /\ n <= Len(log) /\ n > 0
    BY <1>0, <1>11, OpInLog, Zenon
  <2>2. Op(n)' = Op(n)
    BY <1>2, <2>1 DEF Op
  <2>3. OpInv'
    BY <1>0, <1>1, <1>6, <1>8, <1>9, <1>11, <2>1, <2>2, Zenon DEF OpInv
  <2>4. PICK k \in Nat : k = n - 1 /\ k <= Len(log)
    BY <1>2, <2>1
  <2>5. Store!After(log', n) = Store!After(log, n) /\ Store!After(log', k) = Store!After(log, k)
    BY <1>3, <2>1, <2>4, Zenon
  <2>6. CopyInv'
    BY <1>0, <1>1, <1>6, <1>11, <2>1, <2>2, <2>4, <2>5, Zenon DEF CopyInv, Settled
  <2> QED BY <1>4, <1>5, <1>7, <2>3, <2>6, Zenon DEF RunInv
<1> QED BY <1>10, <1>11, Zenon

\* The reference, one operation further.
LEMMA ReferenceAt ==
    ASSUME NEW k \in Nat, NEW n \in Nat, n = k + 1, NEW q \in Points
    PROVE  Store!After(log, n)[q] = IF q = Op(n).point THEN Store!Effect(Op(n).kind, n, Store!After(log, k)[q])
                                    ELSE Store!After(log, k)[q]
<1>1. DOMAIN StartPoints = Points /\ 1 + (k + 1) - 1 = n
  BY SMTT(60) DEF StartPoints
<1>2. Store!After(log, k + 1)[q] = IF q = log[k + 1].point
                THEN Store!Effect(log[k + 1].kind, 1 + (k + 1) - 1, Store!After(log, k)[q])
                ELSE Store!After(log, k)[q]
  BY <1>1, AfterAt, Zenon
<1> QED BY <1>1, <1>2, Zenon DEF Op

\* The worker takes the next operation.
LEMMA StartStep == ASSUME RunInv, StartOp PROVE RunInv'
<1>0. RunType /\ TaskInv /\ SegInv /\ HomeInv /\ BuiltInv /\ OpInv /\ CopyInv
  BY Zenon DEF RunInv
<1>1. /\ cur = Idle /\ next < Len(log) + 1 /\ cur' = [num |-> next, todo |-> Held, found |-> FALSE]
      /\ next' = next + 1 /\ UNCHANGED <<log, holder, mem, deleted, task>>
  BY Zenon DEF StartOp, NextNum
<1>2. PICK n \in Nat, k \in Nat : n = next /\ n = k + 1 /\ k = next - 1 /\ n > 0 /\ n # None
  BY <1>0, SMTT(30) DEF RunType, None
<1>3. n \in 1 .. Len(log) /\ Op(n) \in Ops
  BY <1>0, <1>1, <1>2, SMTT(30) DEF RunType, Op
<1>4. cur'.num = n /\ cur'.todo = Held /\ cur'.found = FALSE /\ Held \subseteq Segs
  BY <1>1, <1>2, Zenon DEF Held
<1>5. RunType'
  BY <1>0, <1>1, <1>2, <1>4, SMTT(30) DEF RunType, Version
<1>6. TaskInv'
  BY <1>0, <1>1, SMTT(60) DEF TaskInv, Wrapping
<1>7. ASSUME NEW s \in Segs PROVE mem[s].version \in Version /\ mem[s].version < n
  BY <1>0, <1>2, Zenon DEF RunType, SegInv, SegmentState
<1>8. SegInv'
  BY <1>0, <1>1, <1>2, <1>7 DEF SegInv, Version, None
<1>9. \A s, p : (Shows(s, p)' <=> Shows(s, p)) /\ Content(s, p)' = Content(s, p)
  BY <1>1, Zenon DEF Shows, Open, Proxied, Wrapping, Content
<1>10. HomeInv' /\ BuiltInv'
  BY <1>0, <1>1, <1>9, SMTT(60) DEF HomeInv, BuiltInv, Proxied
<1>11. Held' = Held /\ Op(n)' = Op(n)
  BY <1>1, Zenon DEF Held, Op
<1>12. OpInv'
  <2>1. /\ cur'.num # None /\ n = next' - 1 /\ n > 0 /\ cur'.todo \subseteq Held' /\ Held' \ cur'.todo = {}
        /\ mem' = mem
    BY <1>1, <1>2, <1>4, <1>11
  <2>2. \A s \in Segs : mem'[s].version < n
    BY <1>7, <2>1, Zenon
  <2> QED BY <1>4, <2>1, <2>2, Zenon DEF OpInv
<1>13. cur.num = None /\ \A q \in Points : Settled(q, Store!After(log, k)[q])
  BY <1>0, <1>1, <1>2, Zenon DEF CopyInv, Idle
<1>14. \A q \in Points \ {Op(n).point} : Settled(q, Store!After(log, n)[q])
  BY <1>2, <1>13, ReferenceAt, Zenon
<1>15. Op(n).point \in Points /\ k = n - 1
  BY <1>2, <1>3, Zenon DEF Ops
<1>16. CopyInv'
  <2>1. ASSUME NEW q \in Points, NEW i \in Nat, Settled(q, Store!After(log, i)[q])
        PROVE  Settled(q, Store!After(log, i)[q])'
    BY <1>1, <1>9, <2>1, Zenon DEF Settled
  <2>2. \A q \in Points \ {Op(n).point} : Settled(q, Store!After(log, n)[q])'
    BY <1>14, <2>1, Zenon
  <2>3. Settled(Op(n).point, Store!After(log, n - 1)[Op(n).point])'
    BY <1>1, <1>9, <1>11, <1>13, <1>15, Zenon DEF Settled
  <2> QED BY <1>2, <1>4, <1>11, <2>2, <2>3, Zenon DEF CopyInv
<1> QED BY <1>5, <1>6, <1>8, <1>10, <1>12, <1>16, Zenon DEF RunInv

\* An entry has been looked at, and nothing was changed.
LEMMA LookStep ==
    ASSUME RunInv, NEW s \in Held, s \in cur.todo, UNCHANGED <<log, next, holder, mem, deleted, task>>,
           cur' = [cur EXCEPT !.todo = @ \ {s}],
           cur.found \/ ~ HasPoint(World, s, Op(cur.num).point)
    PROVE  RunInv'
<1>0. RunType /\ TaskInv /\ SegInv /\ HomeInv /\ BuiltInv /\ OpInv /\ CopyInv
  BY Zenon DEF RunInv
<1>1. cur.num # None /\ cur'.num = cur.num /\ cur'.found = cur.found /\ cur'.todo = cur.todo \ {s}
      /\ cur' \in [num : Version, todo : SUBSET Segs, found : BOOLEAN]
  BY <1>0 DEF OpInv, Idle, RunType
<1>2. RunType' /\ TaskInv' /\ SegInv'
  BY <1>0, <1>1 DEF RunType, TaskInv, SegInv, Wrapping
<1>3. \A r, p : (Shows(r, p)' <=> Shows(r, p)) /\ Content(r, p)' = Content(r, p)
  BY Zenon DEF Shows, Open, Proxied, Wrapping, Content
<1>4. HomeInv' /\ BuiltInv'
  BY <1>0, <1>3 DEF HomeInv, BuiltInv, Proxied
<1>5. \A e, p : HasPoint(World, e, p)' <=> HasPoint(World, e, p)
  BY Zenon DEF HasPoint, World, Proxied
<1>6. Held' = Held
  BY Zenon DEF Held
<1>7. PICK n : n = cur.num /\ Op(n)' = Op(n)
  BY Zenon DEF Op
<1>8. OpInv'
  <2>1. ~ cur.found => \A e \in Held \ cur'.todo : ~ HasPoint(World, e, Op(n).point)
    BY <1>0, <1>1, <1>7, Zenon DEF OpInv
  <2> QED BY <1>0, <1>1, <1>3, <1>5, <1>6, <1>7, <2>1, Zenon DEF OpInv
<1>9. CopyInv'
  BY <1>0, <1>1, <1>3, <1>7, Zenon DEF CopyInv, Settled
<1> QED BY <1>2, <1>4, <1>8, <1>9, Zenon DEF RunInv

\* A visit to an entry that does not have the point.
LEMMA MissStep == ASSUME RunInv, NEW s \in Segs, VisitMiss(s) PROVE RunInv'
<1>1. /\ s \in cur.todo /\ ~ HasPoint(World, s, Op(cur.num).point)
      /\ UNCHANGED <<log, next, holder, mem, deleted, task>>
  BY Zenon DEF VisitMiss
<1>2. cur' = [cur EXCEPT !.todo = @ \ {s}]
  BY Zenon DEF VisitMiss, Visited, RunInv, RunType
<1>3. s \in Held
  BY <1>1 DEF RunInv, OpInv, Idle
<1> QED BY <1>1, <1>2, <1>3, LookStep, Zenon

\* An entry that has the operation already: it is the one that made the change.
LEMMA AppliedStep == ASSUME RunInv, NEW s \in Segs, VisitApplied(s) PROVE RunInv'
<1>0. RunType /\ TaskInv /\ SegInv /\ HomeInv /\ BuiltInv /\ OpInv /\ CopyInv
  BY Zenon DEF RunInv
<1>1. /\ s \in cur.todo /\ HasPoint(World, s, Op(cur.num).point) /\ Op(cur.num).kind # "delete"
      /\ PointVersion(World, s, Op(cur.num).point) >= cur.num
      /\ UNCHANGED <<log, next, holder, mem, deleted, task>>
  BY Zenon DEF VisitApplied
<1>2. s \in Held /\ cur.num # None
  BY <1>0, <1>1, SMTT(60) DEF OpInv, Idle
<1>3. PICK n \in Nat, p \in Points : n = cur.num /\ p = Op(n).point
  BY <1>0, <1>2, OpInLog, Zenon
<1>4. PICK h \in Segs : h = Answering(World, s, p) /\ Shows(h, p)
  BY <1>0, <1>1, <1>2, <1>3, HasPointShows, ShowsInWorld, Zenon
<1>5. cur.found
  <2>1. mem[h].versions[p] >= n
    BY <1>1, <1>3, <1>4, Zenon DEF PointVersion, World
  <2>2. mem[h].versions[p] \in Version /\ mem[h].version \in Version
    BY <1>0, <1>3, <1>4, SMTT(60) DEF RunType, SegmentState
  <2>3. mem[h].versions[p] <= mem[h].version
    BY <1>0, <1>4, Zenon DEF SegInv, Shows
  <2>4. ~ cur.found => mem[h].version < n
    BY <1>0, <1>1, <1>2, <1>3, <1>4, Zenon DEF OpInv
  <2> QED BY <2>1, <2>2, <2>3, <2>4, SMTT(30) DEF Version, None
<1>6. cur' = [cur EXCEPT !.todo = @ \ {s}]
  BY <1>0, <1>5, Zenon DEF VisitApplied, Visited, RunType
<1> QED BY <1>1, <1>2, <1>5, <1>6, LookStep, Zenon
=============================================================================
