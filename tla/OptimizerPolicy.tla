-------------------------- MODULE OptimizerPolicy --------------------------
(***************************************************************************)
(* What the optimizers of a shard work on and when: the conditions of the  *)
(* merge, indexing and vacuum optimizers, the kind of segment that they    *)
(* build, the worker that schedules them on signals of a bounded channel,  *)
(* optimizations that run at the same time while points are written, and   *)
(* changes of the configuration, which cancel them.                        *)
(*                                                                         *)
(* A segment is its number of points and of deleted points, and its kind.  *)
(* The size of a vector is one, and thresholds count points.               *)
(***************************************************************************)
EXTENDS Integers, FiniteSets, FiniteSetsExt, Sequences, SequencesExt

CONSTANTS SegmentIds,   \* 1 .. n
          Tasks,        \* 1 .. n
          Capacity,     \* of the channel of the optimizer worker
          Unset,        \* an optional threshold that is not set, or null in a diff
          Scenarios

Num == 1
Den == 2

VARIABLES scenario,
          config,
          segs,      \* the segments of the holder, by id
          queue,     \* signals to the optimizer worker
          handles,   \* the tasks whose handles the worker keeps
          tasks,
          worker,    \* "running", "stopping", "stopped" or "halting"
          writer,    \* "idle", or "send" after a write
          writes,    \* writes that are left
          missed     \* history: the last operation is skipped, and no report is to come

vars == <<scenario, config, segs, queue, handles, tasks, worker, writer, writes, missed>>

Seg(points, deleted, indexed, mmap) ==
    [points |-> points, deleted |-> deleted, indexed |-> indexed, mmap |-> mmap, proxied |-> FALSE]

\* temp_segment
TempSegment(points) == Seg(points, 0, FALSE, FALSE)

NoTask == [pc |-> "none", optimizer |-> "", ids |-> {}, tmp |-> 0, dels |-> 0]

Init ==
    /\ scenario \in Scenarios
    /\ config = scenario.config
    /\ segs = scenario.segs
    /\ queue = <<"op", "op">>
    /\ handles = {}
    /\ tasks = [t \in Tasks |-> NoTask]
    /\ worker = "running"
    /\ writer = "idle"
    /\ writes = scenario.writes
    /\ missed = FALSE

-----------------------------------------------------------------------------
(* Conditions of the optimizers                                            *)

Size(i) == segs[i].points
Sizes(s) == FoldSet(LAMBDA i, n : n + Size(i), 0, s)

\* thresholds in kilobytes are multiplied and saturate; an unset one is the
\* largest number
Reaches(n, threshold) == threshold # Unset /\ n >= threshold

Originals(excluded) == {i \in DOMAIN segs \ excluded : ~segs[i].proxied}
Smaller(i, j) == Size(i) < Size(j) \/ (Size(i) = Size(j) /\ i < j)
Smallest(s) == CHOOSE i \in s : \A j \in s \ {i} : Smaller(i, j)
Largest(s) == CHOOSE i \in s : \A j \in s \ {i} : Smaller(j, i)

\* MergeOptimizer::check_condition
Merge(excluded) ==
    LET raw == Originals(excluded)
        sorted == SetToSortSeq(raw, Smaller)
        atMost == Cardinality(raw) - config.segments + 2
        fits(k) == Sizes({sorted[j] : j \in 1 .. k}) < config.maxSize
        chosen == {sorted[k] : k \in {j \in 1 .. Len(sorted) : j <= atMost /\ fits(j)}}
    IN  IF Cardinality(raw) <= config.segments \/ Cardinality(chosen) < 3 THEN {} ELSE chosen

RequiresIndexing(i) ==
    \/ Reaches(Size(i), config.memmap) /\ ~segs[i].mmap
    \/ Reaches(Size(i), config.indexing) /\ ~segs[i].indexed

SmallestIndexed(excluded) ==
    LET s == {i \in Originals(excluded) : segs[i].indexed \/ segs[i].mmap}
    IN  IF s = {} THEN {} ELSE {Smallest(s)}

\* IndexingOptimizer::worst_segment
Indexing(excluded) ==
    LET candidates == {i \in Originals(excluded) : RequiresIndexing(i)}
        selected == Largest(candidates)
        joins(s) == {i \in s : i # selected /\ Size(selected) + Size(i) < config.maxSize}
        unindexed == joins({Smallest(candidates)})
    IN  IF candidates = {} THEN {}
        ELSE {selected} \cup IF unindexed # {} THEN unindexed ELSE joins(SmallestIndexed(excluded))

Littered(i) == segs[i].deleted * Den > Size(i) * Num
MoreLittered(i, j) == segs[i].deleted * Size(j) > segs[j].deleted * Size(i)

\* VacuumOptimizer::worst_segment
Vacuum(excluded) ==
    LET s == {i \in Originals(excluded) : Size(i) >= config.minVectors /\ Littered(i)}
    IN  IF s = {} THEN {} ELSE {CHOOSE i \in s : \A j \in s : ~MoreLittered(j, i)}

\* build_optimizers, in the order of its vector
Optimizers == <<"merge", "indexing", "vacuum">>

CheckCondition(optimizer, excluded) ==
    CASE optimizer = "merge" -> Merge(excluded)
      [] optimizer = "indexing" -> Indexing(excluded)
      [] OTHER -> Vacuum(excluded)

\* launch_optimization: the loop of each optimizer ends when it finds no more
\* segments that are not scheduled.
RECURSIVE Launched(_, _)
Launched(k, scheduled) ==
    IF k > Len(Optimizers) THEN <<>>
    ELSE LET ids == CheckCondition(Optimizers[k], scheduled)
         IN  IF ids = {} THEN Launched(k + 1, scheduled)
             ELSE <<[NoTask EXCEPT !.pc = "spawned", !.optimizer = Optimizers[k], !.ids = ids]>>
                  \o Launched(k, scheduled \cup ids)

-----------------------------------------------------------------------------
(* The optimizer worker                                                    *)

FreeTasks == {t \in Tasks : tasks[t].pc = "none"}
Finished == {t \in handles : tasks[t].pc = "finished"}
Unfinished == {t \in Tasks : tasks[t].pc \notin {"none", "finished"}}

\* handles.retain
Retained == [t \in Tasks |-> IF t \in Finished THEN NoTask ELSE tasks[t]]

\* process_optimization
ProcessOptimization ==
    \E new \in {Launched(1, {})}, ids \in {SetToSortSeq(FreeTasks, <)} :
        LET taken == {ids[k] : k \in DOMAIN new}
        IN  /\ Len(new) <= Len(ids)
            /\ tasks' = [t \in Tasks |->
                            IF t \in taken THEN new[CHOOSE k \in DOMAIN new : ids[k] = t] ELSE Retained[t]]
            /\ handles' = (handles \ Finished) \cup taken

\* Optimizations that have not asked for another check yet
Reporting == {t \in handles : tasks[t].pc \in {"spawned", "building", "report"}}

\* optimization_worker_fn: one signal. An operation is skipped while there are
\* enough handles, even when some of them, or all, are finished.
Receive ==
    /\ worker \in {"running", "stopping"} /\ queue # <<>>
    /\ queue' = Tail(queue)
    /\ CASE Head(queue) = "stop" -> worker' = "stopped" /\ UNCHANGED <<tasks, handles, missed>>
         [] Head(queue) = "op" /\ Cardinality(handles) >= config.maxHandles ->
               /\ handles' = handles \ Finished /\ tasks' = Retained /\ UNCHANGED worker
               /\ missed' = (Reporting = {})
         [] OTHER -> ProcessOptimization /\ missed' = FALSE /\ UNCHANGED worker
    /\ UNCHANGED <<scenario, config, segs, writer, writes>>

-----------------------------------------------------------------------------
(* SegmentOptimizer::optimize                                              *)

Become(t, pc) == tasks' = [tasks EXCEPT ![t].pc = pc]
EndWith(t, pc) == tasks' = [tasks EXCEPT ![t] = [NoTask EXCEPT !.pc = pc]]
Stopped == worker = "halting"

AllOk(t) == \A i \in tasks[t].ids : i \in DOMAIN segs /\ ~segs[i].proxied

\* The segments are wrapped into proxies, unless they are gone or proxies.
Start(t) ==
    /\ tasks[t].pc = "spawned"
    /\ IF ~AllOk(t) THEN EndWith(t, "report") /\ UNCHANGED segs
       ELSE IF Stopped THEN EndWith(t, "finished") /\ UNCHANGED segs
       ELSE /\ segs' = [i \in DOMAIN segs |-> [segs[i] EXCEPT !.proxied = @ \/ i \in tasks[t].ids]]
            /\ Become(t, "building")
    /\ UNCHANGED <<scenario, config, queue, handles, worker, writer, writes, missed>>

IsAppendable(sg) == sg.proxied \/ (~sg.indexed /\ ~sg.mmap)
HasAppendable(ss) == \E i \in DOMAIN ss : IsAppendable(ss[i])

NewId(ss) == CHOOSE i \in SegmentIds \ DOMAIN ss : \A j \in SegmentIds \ DOMAIN ss : i <= j
Added(ss, sg) == [i \in DOMAIN ss \cup {NewId(ss)} |-> IF i = NewId(ss) THEN sg ELSE ss[i]]
Removed(ss, ids) == [i \in DOMAIN ss \ ids |-> ss[i]]

\* A slip of OptimizedSegment: a segment of just the threshold stays plain.
OptimizedAbove(t, late) ==
    LET total == Sizes(tasks[t].ids)
    IN  Seg(total - tasks[t].dels, late,
            Reaches(total - 1, config.indexing), Reaches(total, config.memmap))

\* optimized_segment_builder, without the points that were deleted meanwhile;
\* the late ones are deleted from the segment when it is built.
OptimizedSegment(t, late) ==
    LET total == Sizes(tasks[t].ids)
    IN  Seg(total - tasks[t].dels, late,
            Reaches(total, config.indexing), Reaches(total, config.memmap))

\* A slip of KeepsTemp: only a temporary segment with points is kept.
KeepsFilled(t, swapped) == tasks[t].tmp > 0

KeepsTemp(t, swapped) == tasks[t].tmp > 0 \/ ~HasAppendable(swapped)

\* The new segment takes the place of the proxies.
Swap(t) ==
    /\ tasks[t].pc = "building"
    /\ \E late \in 0 .. tasks[t].dels :
          LET swapped == Added(Removed(segs, tasks[t].ids), OptimizedSegment(t, late))
          IN  segs' = IF KeepsTemp(t, swapped) THEN Added(swapped, TempSegment(tasks[t].tmp)) ELSE swapped
    /\ EndWith(t, "report")
    /\ UNCHANGED <<scenario, config, queue, handles, worker, writer, writes, missed>>

\* handle_cancellation: the wrapped segments come back as they were.
Cancel(t) ==
    /\ Stopped /\ tasks[t].pc = "building"
    /\ LET unwrapped == [i \in DOMAIN segs |-> [segs[i] EXCEPT !.proxied = @ /\ i \notin tasks[t].ids]]
       IN  segs' = IF tasks[t].tmp > 0 THEN Added(unwrapped, TempSegment(tasks[t].tmp)) ELSE unwrapped
    /\ EndWith(t, "finished")
    /\ UNCHANGED <<scenario, config, queue, handles, worker, writer, writes, missed>>

\* A slip of Report: no further check is asked for.
ReportNothing(t) ==
    /\ tasks[t].pc = "report"
    /\ Become(t, "ending")
    /\ UNCHANGED <<scenario, config, segs, queue, handles, worker, writer, writes, missed>>

\* The callback asks for another check, when there is room for the signal.
Report(t) ==
    /\ tasks[t].pc = "report"
    /\ Become(t, "ending")
    /\ queue' = IF Len(queue) < Capacity /\ worker \in {"running", "stopping"} THEN Append(queue, "nop") ELSE queue
    /\ UNCHANGED <<scenario, config, segs, handles, worker, writer, writes, missed>>

End(t) ==
    /\ tasks[t].pc = "ending"
    /\ EndWith(t, "finished")
    /\ UNCHANGED <<scenario, config, segs, queue, handles, worker, writer, writes, missed>>

OptimizeStep(t) == Start(t) \/ Swap(t) \/ Cancel(t) \/ Report(t) \/ End(t)

-----------------------------------------------------------------------------
(* Writes, and changes of the configuration                                *)

TaskOf(i) == CHOOSE t \in Tasks : tasks[t].pc = "building" /\ i \in tasks[t].ids

\* A new point goes to an appendable segment, or to the temporary one behind it.
Insert(i) ==
    /\ IsAppendable(segs[i])
    /\ IF segs[i].proxied
       THEN tasks' = [tasks EXCEPT ![TaskOf(i)].tmp = @ + 1] /\ UNCHANGED segs
       ELSE segs' = [segs EXCEPT ![i].points = @ + 1] /\ UNCHANGED tasks

\* A proxy notes the deletion of a point of the segment behind it.
Delete(i) ==
    IF segs[i].proxied
    THEN /\ tasks[TaskOf(i)].dels < Sizes(tasks[TaskOf(i)].ids)
         /\ tasks' = [tasks EXCEPT ![TaskOf(i)].dels = @ + 1] /\ UNCHANGED segs
    ELSE /\ Size(i) > 0
         /\ segs' = [segs EXCEPT ![i].points = @ - 1, ![i].deleted = @ + 1] /\ UNCHANGED tasks

\* update_worker_fn: an operation is applied, and announced when there is room.
Write ==
    /\ worker = "running" /\ writer = "idle" /\ writes > 0
    /\ \E i \in DOMAIN segs : Insert(i) \/ Delete(i)
    /\ writer' = "send" /\ writes' = writes - 1
    /\ UNCHANGED <<scenario, config, queue, handles, worker, missed>>

Send ==
    /\ writer = "send" /\ Len(queue) < Capacity
    /\ queue' = Append(queue, "op") /\ writer' = "idle"
    /\ UNCHANGED <<scenario, config, segs, handles, tasks, worker, writes, missed>>

\* merge_level_0: a value that is not null replaces the one of the configuration.
Merged(base, diff) == [k \in DOMAIN base |-> IF diff[k] = Unset THEN base[k] ELSE diff[k]]

\* The update handler keeps the number of threads that it was created with.
Rebuilt == [Merged(config, scenario.diff) EXCEPT !.maxHandles = config.maxHandles]

\* on_optimizer_config_update: the last signal of the old channel
StopWorkers ==
    /\ worker = "running" /\ writer = "idle" /\ Rebuilt # config
    /\ Len(queue) < Capacity
    /\ queue' = Append(queue, "stop") /\ worker' = "stopping"
    /\ UNCHANGED <<scenario, config, segs, handles, tasks, writer, writes, missed>>

\* wait_workers_stops asks the optimizations to stop, and waits for them.
StopTasks ==
    /\ worker = "stopped"
    /\ worker' = "halting"
    /\ UNCHANGED <<scenario, config, segs, queue, handles, tasks, writer, writes, missed>>

\* The optimizers are built anew, and a Nop starts their first check.
RestartWorkers ==
    /\ worker = "halting" /\ Unfinished = {}
    /\ config' = Rebuilt
    /\ worker' = "running" /\ queue' = <<"nop">>
    /\ handles' = {} /\ tasks' = [t \in Tasks |-> NoTask] /\ missed' = FALSE
    /\ UNCHANGED <<scenario, segs, writer, writes>>

Working == Receive \/ Send \/ \E t \in Tasks : OptimizeStep(t)

Next == Working \/ Write \/ StopWorkers \/ StopTasks \/ RestartWorkers

\* While a signal waits or an optimization runs, some worker goes on.
Fairness == WF_vars(Working)

Spec == Init /\ [][Next]_vars /\ Fairness

-----------------------------------------------------------------------------
(* Properties                                                              *)

\* There is always a segment, or a proxy, that can take new points: "expected
\* at least one", although optimizations that run at the same time make the
\* segments of each other read-only.
SomeAppendable == HasAppendable(segs)

AtRest == worker = "running" /\ queue = <<>> /\ writer = "idle" /\ Unfinished = {}

\* When nothing is left to do, no optimizer has anything to do, although operations
\* are skipped and the Nop of an optimization may find the channel full, unless the
\* last operation was skipped for the handles of optimizations that had all reported.
RestIsOptimal == AtRest /\ ~missed => Launched(1, {}) = <<>>

\* "Optimization will be triggered by some other signal": not by an operation that
\* only prunes the handles of optimizations that have ended.
RestIsAlwaysOptimal == AtRest => Launched(1, {}) = <<>>

\* The optimizers do not undo the work of each other for ever: what they build
\* does not meet their own conditions again.
OptimizationEnds == <>[](Unfinished = {})
=============================================================================
