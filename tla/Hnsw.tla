------------------------------- MODULE Hnsw -------------------------------
(***************************************************************************)
(* The HNSW vector index of a segment: how the graph is built by several   *)
(* threads at once, how the graphs of payload blocks are merged into it,   *)
(* how it is written and opened, and how it is searched                    *)
(* (lib/segment/src/index/hnsw_index: hnsw.rs, graph_layers_builder.rs,    *)
(* graph_layers.rs, graph_links.rs, entry_points.rs, search_context.rs,    *)
(* point_scorer.rs).                                                       *)
(*                                                                         *)
(* Vectors are positions on a line and the similarity of two vectors is    *)
(* minus their distance; the positions of a scenario have distinct         *)
(* distances, so that the order of equal scores in the heaps of the code   *)
(* never matters.  Points are 0..n-1.                                      *)
(***************************************************************************)
EXTENDS Integers, Sequences, FiniteSets, FiniteSetsExt, SequencesExt

CONSTANT Scenarios
  (* A scenario fixes what the index is built from:                        *)
  (*   pos      the position of each point (0..n-1 -> Int);                *)
  (*   deleted  the offsets deleted before the build;                      *)
  (*   blocks   the payload blocks, a sequence of sets of points;          *)
  (*   m, m0    the number of links kept above level 0 and on it;          *)
  (*   pm, pm0  the same for the graphs of the payload blocks;             *)
  (*   ef       ef_construct, also the default ef of a search;             *)
  (*   extra    how many extra entry points the main graph keeps;          *)
  (*   levels   the highest level a point may be given;                    *)
  (*   threads  how many points are linked at the same time;               *)
  (*   threshold  the full scan threshold of a filtered search;           *)
  (*   complete whether one thread builds and nothing is cut off;          *)
  (*   stop     whether the build may be stopped;                          *)
  (*   legacy   whether an index in the old format is opened instead.      *)

VARIABLES
    scenario,   \* the scenario
    phase,      \* where build_index is
    k,          \* 0: the main graph is linked, i: the graph of block i
    work,       \* the GraphLayersBuilder whose points are being linked
    main,       \* graph_layers_builder: the graph, with the merged blocks
    op,         \* link_new_point of each point
    files,      \* the links file, the graph file and the config file
    index       \* HNSWIndex::graph: <<>>, or <<the graph that is searched>>

vars == <<scenario, phase, k, work, main, op, files, index>>

Points == DOMAIN scenario.pos

\* id_tracker.iter_ids: the points that are not deleted.
Live == Points \ scenario.deleted

\* score_point and score_internal.
Sim(x, p) == IF x < scenario.pos[p] THEN x - scenario.pos[p]
             ELSE scenario.pos[p] - x
Score(p, q) == Sim(scenario.pos[p], q)

\* The best and the worst of a set of points for the query x.
Best(x, S) == CHOOSE p \in S : \A q \in S : Sim(x, p) >= Sim(x, q)
Worst(x, S) == CHOOSE p \in S : \A q \in S : Sim(x, p) <= Sim(x, q)

---------------------------------------------------------------------------
(* The flat layout of the links                                            *)
(*                                                                         *)
(* The graph builder has, for each point, one list of links per level the  *)
(* point is on.  A finished graph keeps all lists in one array: level 0 in *)
(* the order of the points, each higher level in the order of `back_index' *)
(* (points by their number of levels, most first), an array of offsets     *)
(* that delimits the lists, the offset at which each level begins, and     *)
(* `reindex', the inverse of back_index.  The same arrays are the links    *)
(* file; its header and byte ranges are left out.  edges[p] is a sequence  *)
(* whose element level + 1 is the list of links of p on that level.        *)

\* The numbers of a sequence added up.
SumOf(s) == FoldLeft(LAMBDA a, b : a + b, 0, s)

\* `back_index': sort_unstable_by_key leaves the order of the points with
\* equally many levels open, so that any of these sequences may result.
BackIndexes(edges) ==
    {b \in SetToSeqs(DOMAIN edges) :
        \A i, j \in DOMAIN b : i < j => Len(edges[b[i]]) >= Len(edges[b[j]])}

\* iterate_level_points: the points whose list of the level is written, in
\* order.  The scan of back_index stops at the first point below the level.
LevelPoints(edges, back, level) ==
    IF level = 0
    THEN [i \in 1..Len(back) |-> i - 1]
    ELSE SubSeq(back, 1, Cardinality({i \in 1..Len(back) :
                            \A j \in 1..i : level < Len(edges[back[j]])}))

\* GraphLinksConverter::new and serialize_to, read back by load_from_memory.
Serialize(edges, back) ==
    LET levels == IF back = <<>> THEN 0 ELSE Len(edges[Head(back)])
        lists[l \in 0..levels] ==
            IF l = 0 THEN <<>>
            ELSE lists[l - 1] \o
                 [i \in DOMAIN LevelPoints(edges, back, l - 1) |->
                     edges[LevelPoints(edges, back, l - 1)[i]][l]]
    IN  [links        |-> FlattenSeq(lists[levels]),
         offsets      |-> [i \in 1..(Len(lists[levels]) + 1) |->
                             SumOf([j \in 1..(i - 1) |->
                                       Len(lists[levels][j])])],
         levelOffsets |-> [l \in 1..levels |-> Len(lists[l - 1])],
         reindex      |-> [p \in DOMAIN edges |->
                             (CHOOSE i \in DOMAIN back : back[i] = p) - 1]]

\* get_links_range and get_links: the list with the given number.
ListAt(flat, idx) ==
    SubSeq(flat.links, flat.offsets[idx + 1] + 1, flat.offsets[idx + 2])

\* links(point_id, level).
LinksOf(flat, p, level) ==
    ListAt(flat, IF level = 0 THEN p
                 ELSE flat.levelOffsets[level + 1] + flat.reindex[p])

\* get_level_offsets_range: where the lists of an existing level end.
LevelEnd(flat, level) ==
    IF level + 1 < Len(flat.levelOffsets)
    THEN flat.levelOffsets[level + 2]
    ELSE Len(flat.offsets) - 1

\* point_level: the levels are tried from 1 up, until one is missing or too
\* short to hold the place of the point.
PointLevel(flat, p) ==
    LET tooHigh(level) ==
            IF level < Len(flat.levelOffsets)
            THEN flat.levelOffsets[level + 1] + flat.reindex[p]
                    >= LevelEnd(flat, level)
            ELSE TRUE
    IN  (CHOOSE level \in 1..(Len(flat.levelOffsets) + 1) :
            /\ tooHigh(level)
            /\ \A lower \in 1..(level - 1) : ~tooHigh(lower)) - 1

---------------------------------------------------------------------------
(* Scoring and searching one level.                                        *)

\* FilteredScorer::score_points: the points that pass the filter and are not
\* deleted (ok), up to the limit; a limit of 0 is none.
Scored(ls, limit, ok) ==
    LET passed == SelectSeq(ls, LAMBDA q : q \in ok)
    IN  IF limit = 0 \/ Len(passed) <= limit THEN passed
        ELSE SubSeq(passed, 1, limit)

\* One round of the loop of search_entry: the closest of the current point
\* and its scored links.
Hop(x, cur, ls, limit, ok) ==
    Best(x, {cur} \cup ToSet(Scored(ls, limit, ok)))

\* SearchContext::process_candidate, with nearest a queue of length ef.
ProcessCandidate(x, ef, s, q) ==
    IF Cardinality(s.nearest) < ef
    THEN [s EXCEPT !.nearest = @ \cup {q}, !.cands = @ \cup {q}]
    ELSE LET worst == Worst(x, s.nearest)
         IN  IF Sim(x, worst) < Sim(x, q)
             THEN [s EXCEPT !.nearest = (@ \ {worst}) \cup {q},
                            !.cands = @ \cup {q}]
             ELSE s

\* The links that were not visited yet, each once.
Fresh(ls, visited) ==
    FoldLeft(LAMBDA acc, q : IF q \in visited \cup ToSet(acc) THEN acc
                             ELSE Append(acc, q), <<>>, ls)

\* One round of the loop of _search_on_level for the candidate c with the
\* links ls.  All of them count as visited, those past the limit too.
Expand(x, ef, s, c, ls, limit, ok) ==
    LET fresh == Fresh(ls, s.visited)
        popped == [s EXCEPT !.cands = @ \ {c},
                            !.visited = @ \cup ToSet(fresh)]
    IN  FoldLeft(LAMBDA acc, q : ProcessCandidate(x, ef, acc, q),
                 popped, Scored(fresh, limit, ok))

\* Whether the loop of _search_on_level goes on.
GoesOn(x, s) ==
    /\ s.cands # {}
    /\ Sim(x, Best(x, s.cands)) >= Sim(x, Worst(x, s.nearest))

StartSearch(e) == [cands |-> {e}, nearest |-> {e}, visited |-> {e}]

\* FixedLengthPriorityQueue::into_vec: the best first.
Ranked(x, S) == SetToSortSeq(S, LAMBDA p, q : Sim(x, p) > Sim(x, q))

\* select_candidate_with_heuristic_from_sorted: a candidate is dropped when
\* it is closer to one that was kept than to the point t.
SelectHeuristic(t, S, m) ==
    FoldLeft(LAMBDA kept, c :
                 IF \/ Len(kept) >= m
                    \/ \E q \in ToSet(kept) : Score(c, q) > Score(t, c)
                 THEN kept ELSE Append(kept, c),
             <<>>, Ranked(scenario.pos[t], S))

---------------------------------------------------------------------------
(* Entry points and the builder.                                           *)

\* FixedLengthPriorityQueue<EntryPoint>::push: ordered by the level only.
PushExtra(extras, e, capacity) ==
    IF Cardinality(extras) < capacity THEN extras \cup {e}
    ELSE LET least == CHOOSE x \in extras :
                          \A y \in extras : x.level <= y.level
         IN  IF least.level < e.level THEN (extras \ {least}) \cup {e}
             ELSE extras

\* EntryPoints::new_point: the builder with the point registered, and the
\* entry point to start from, if there is one.
NewPoint(g, p, level, capacity, ok) ==
    LET e == [point |-> p, level |-> level]
        usable == {i \in DOMAIN g.entries : g.entries[i].point \in ok}
        c == g.entries[Min(usable)]
    IN  IF usable = {}
        THEN <<[g EXCEPT !.entries = Append(@, e)], <<>>>>
        ELSE IF c.level >= level
        THEN <<[g EXCEPT !.extras = PushExtra(@, e, capacity)], <<c>>>>
        ELSE <<[g EXCEPT !.entries[Min(usable)] = e,
                         !.extras = PushExtra(@, c, capacity)], <<c>>>>

\* EntryPoints::get_entry_point.
GetEntryPoint(g, ok) ==
    LET usable == {i \in DOMAIN g.entries : g.entries[i].point \in ok}
        extras == {e \in g.extras : e.point \in ok}
    IN  IF usable # {} THEN <<g.entries[Min(usable)]>>
        ELSE IF extras = {} THEN <<>>
        ELSE <<CHOOSE e \in extras : \A f \in extras : e.level >= f.level>>

\* GraphLayersBuilder::new, with the points on the given levels (set_levels).
NewBuilder(level) ==
    [links   |-> [p \in Points |-> [l \in 1..(level[p] + 1) |-> <<>>]],
     entries |-> <<>>,
     extras  |-> {}]

\* A slip of merge_from_other: a level that is there keeps its links.
MergeLevels(g, other) ==
    [g EXCEPT
        !.links = [p \in Points |->
            [l \in 1..Max({Len(g.links[p]), Len(other.links[p])}) |->
                IF l > Len(g.links[p]) THEN other.links[p][l] ELSE g.links[p][l]]],
        !.entries = @ \o other.entries]

\* merge_from_other.  The links of the other graph follow those that are
\* there, without the ones that are there already.
Merge(g, other) ==
    [g EXCEPT
        !.links = [p \in Points |->
            [l \in 1..Max({Len(g.links[p]), Len(other.links[p])}) |->
                IF l > Len(g.links[p]) THEN other.links[p][l]
                ELSE IF l > Len(other.links[p]) THEN g.links[p][l]
                ELSE g.links[p][l] \o
                     Fresh(other.links[p][l], ToSet(g.links[p][l]))]],
        !.entries = @ \o other.entries]

\* get_point_level.
LevelOf(g, p) == Len(g.links[p]) - 1

\* get_m of the graph that is being linked.
GetM(level) ==
    IF k = 0 THEN (IF level = 0 THEN scenario.m0 ELSE scenario.m)
    ELSE (IF level = 0 THEN scenario.pm0 ELSE scenario.pm)

\* What the scorer of link_new_point(p) lets pass: not deleted and, in the
\* graph of a block, another point of the block (BuildConditionChecker).
Passing(p) == {q \in Live : k > 0 => q \in scenario.blocks[k] /\ q # p}

\* The extra entry points kept by the builder that is being linked.
Capacity == IF k = 0 THEN scenario.extra ELSE 1

---------------------------------------------------------------------------
(* build_index.                                                            *)

\* link_new_point of a point that is not begun.
Todo == [pc |-> "todo", level |-> 0, cur |-> 0, parked |-> FALSE,
         search |-> StartSearch(0), sel |-> <<>>]
Done == [Todo EXCEPT !.pc = "done"]

\* The points given to the thread pool for the graph k.
Batch(n) == IF n = 0 THEN Live ELSE scenario.blocks[n] \cap Live

NoFiles == [links |-> <<>>, graph |-> <<>>, config |-> FALSE]

\* A graph in the old format: the links are in the graph file.
LegacyEdges == [p \in Points |-> <<SetToSeq(Points \ {p})>>]

Init ==
    /\ scenario \in Scenarios
    /\ phase = IF scenario.legacy THEN "down" ELSE "levels"
    /\ k = 0
    /\ work = NewBuilder([p \in Points |-> 0])
    /\ main = IF scenario.legacy
              THEN [links |-> LegacyEdges, extras |-> {},
                    entries |-> <<[point |-> 0, level |-> 0]>>]
              ELSE work
    /\ op = [p \in Points |-> Done]
    /\ files = IF scenario.legacy
               THEN [NoFiles EXCEPT !.graph = <<main>>] ELSE NoFiles
    /\ index = <<>>

\* The levels of the points are drawn; with m = 0 no main graph is linked.
SetLevels ==
    /\ phase = "levels"
    /\ \E level \in [Live -> 0..scenario.levels] :
           main' = NewBuilder([p \in Points |->
                                 IF p \in Live THEN level[p] ELSE 0])
    /\ work' = main'
    /\ op' = [p \in Points |->
                 IF p \in Live /\ scenario.m > 0 THEN Todo ELSE Done]
    /\ phase' = "link"
    /\ UNCHANGED <<scenario, k, files, index>>

\* No payload block may hold more than this many points.
MaxBlockSize == IF scenario.m > 0
                THEN (Cardinality(Points) \div scenario.m) * 2
                ELSE Cardinality(Points)

\* The blocks from i on for which a graph is built.
BlocksFrom(i) == {j \in i..Len(scenario.blocks) :
                     /\ scenario.pm > 0
                     /\ Cardinality(scenario.blocks[j]) <= MaxBlockSize}

\* All points of the graph k are linked: it becomes the main graph or is
\* merged into it, and the next block is begun.
FinishGraph ==
    /\ phase = "link"
    /\ \A p \in Points : op[p].pc = "done"
    /\ main' = IF k = 0 THEN work ELSE Merge(main, work)
    /\ IF BlocksFrom(k + 1) = {}
       THEN /\ phase' = "links"
            /\ UNCHANGED <<k, work, op>>
       ELSE /\ k' = Min(BlocksFrom(k + 1))
            /\ work' = NewBuilder([p \in Points |-> 0])
            /\ op' = [p \in Points |->
                         IF p \in Batch(k') THEN Todo ELSE Done]
            /\ UNCHANGED phase
    /\ UNCHANGED <<scenario, files, index>>

\* check_process_stopped: the build ends with an error.
Stop ==
    /\ scenario.stop
    /\ phase \in {"levels", "link"}
    /\ phase' = "stopped"
    /\ UNCHANGED <<scenario, k, work, main, op, files, index>>

---------------------------------------------------------------------------
(* link_new_point.  Every list of links has a read-write lock.  The lock   *)
(* of the own list is held for reading during a whole search_on_level, all *)
(* others for one read or one change.  A writer that finds a list locked   *)
(* is parked, and until it is served nobody else gets the lock for reading *)
(* (parking_lot): not even the thread that already holds it.               *)

Reading(q, level) == op[q].pc = "search" /\ op[q].level = level

WriterParked(q, level) ==
    \E r \in Points : /\ op[r].pc = "push" /\ op[r].parked
                      /\ Head(op[r].sel) = q /\ op[r].level = level

\* The query of the thread that links p, and the list it reads.
Query(p) == scenario.pos[p]
Links(q, level) == work.links[q][level + 1]

\* The entry point is asked for and p registered, under one lock.
Start(p) ==
    /\ phase = "link"
    /\ op[p].pc = "todo"
    /\ Cardinality({q \in Points : op[q].pc \notin {"todo", "done"}})
          < scenario.threads
    /\ LET level == LevelOf(work, p)
           new == NewPoint(work, p, level, Capacity, Passing(p))
           e == Head(new[2])
       IN  /\ work' = new[1]
           /\ op' = [op EXCEPT ![p] =
                 IF new[2] = <<>> THEN Done
                 ELSE [Todo EXCEPT !.cur = e.point, !.level = e.level,
                          !.pc = IF e.level > level THEN "descend"
                                 ELSE "lock"]]
    /\ UNCHANGED <<scenario, phase, k, main, files, index>>

\* search_entry: one look at the links of the current point.  When none is
\* closer, the search goes down a level, until that of p is reached.
Descend(p) ==
    /\ phase = "link"
    /\ op[p].pc = "descend"
    /\ ~WriterParked(op[p].cur, op[p].level)
    /\ LET next == Hop(Query(p), op[p].cur, Links(op[p].cur, op[p].level),
                       GetM(op[p].level), Passing(p))
       IN  op' = [op EXCEPT ![p] =
                     IF next # op[p].cur THEN [@ EXCEPT !.cur = next]
                     ELSE [@ EXCEPT !.level = @ - 1,
                              !.pc = IF op[p].level - 1 = LevelOf(work, p)
                                     THEN "lock" ELSE @]]
    /\ UNCHANGED <<scenario, phase, k, work, main, files, index>>

\* The own list is locked for reading and the search of the level begins.
Lock(p) ==
    /\ phase = "link"
    /\ op[p].pc = "lock"
    /\ ~WriterParked(p, op[p].level)
    /\ op' = [op EXCEPT ![p].pc = "search",
                        ![p].search = StartSearch(op[p].cur)]
    /\ UNCHANGED <<scenario, phase, k, work, main, files, index>>

\* The links of the best candidate are read and scored.
Visit(p) ==
    /\ phase = "link"
    /\ op[p].pc = "search"
    /\ GoesOn(Query(p), op[p].search)
    /\ LET c == Best(Query(p), op[p].search.cands)
       IN  /\ ~WriterParked(c, op[p].level)
           /\ op' = [op EXCEPT ![p].search =
                        Expand(Query(p), scenario.ef, @, c,
                               Links(c, op[p].level), GetM(op[p].level),
                               Passing(p))]
    /\ UNCHANGED <<scenario, phase, k, work, main, files, index>>

\* The neighbours of p: the links other threads gave to p are candidates too.
SelectNeighbours(p) ==
    LET s == op[p].search
        given == SelectSeq(Links(p, op[p].level),
                           LAMBDA q : q \notin s.visited)
        found == FoldLeft(LAMBDA acc, q :
                              ProcessCandidate(Query(p), scenario.ef, acc, q),
                          s, given)
    IN  SelectHeuristic(p, found.nearest, GetM(op[p].level))

\* A slip of select: the own list is locked for reading once more.
SelectLocking(p) ==
    /\ phase = "link"
    /\ op[p].pc = "search"
    /\ ~GoesOn(Query(p), op[p].search)
    /\ ~WriterParked(p, op[p].level)
    /\ op' = [op EXCEPT ![p].pc = "own", ![p].search = StartSearch(0),
                        ![p].sel = SelectNeighbours(p)]
    /\ UNCHANGED <<scenario, phase, k, work, main, files, index>>

\* The search of the level is over; the lock is released after the selection.
Select(p) ==
    /\ phase = "link"
    /\ op[p].pc = "search"
    /\ ~GoesOn(Query(p), op[p].search)
    /\ op' = [op EXCEPT ![p].pc = "own", ![p].search = StartSearch(0),
                        ![p].sel = SelectNeighbours(p)]
    /\ UNCHANGED <<scenario, phase, k, work, main, files, index>>

\* The thread of p after the work on its level: one level down, or done.
NextLevel(o) ==
    IF o.level = 0 THEN Done
    ELSE [o EXCEPT !.pc = "lock", !.level = @ - 1, !.sel = <<>>,
                   !.parked = FALSE]

\* The own list is replaced by the selected neighbours.
WriteOwn(p) ==
    /\ phase = "link"
    /\ op[p].pc = "own"
    /\ work' = [work EXCEPT !.links[p][op[p].level + 1] = op[p].sel]
    /\ op' = [op EXCEPT ![p] = IF @.sel = <<>> THEN NextLevel(@)
                               ELSE [@ EXCEPT !.pc = "push"]]
    /\ UNCHANGED <<scenario, phase, k, main, files, index>>

\* A slip of the change below: a full list still grows.
AlwaysAppend(p, q, ls, m) == Append(ls, p)

\* The list of the neighbour q with p: appended while there is room, else
\* selected anew.
Connected(p, q, ls, m) ==
    IF Len(ls) < m THEN Append(ls, p)
    ELSE SelectHeuristic(q, {p} \cup ToSet(SubSeq(ls, 1, m)), m)

\* The neighbour's list is locked for writing and changed.
Push(p) ==
    /\ phase = "link"
    /\ op[p].pc = "push"
    /\ LET q == Head(op[p].sel)
           level == op[p].level
           o == [op[p] EXCEPT !.sel = Tail(@), !.parked = FALSE]
       IN  /\ ~Reading(q, level)
           /\ work' = [work EXCEPT !.links[q][level + 1] =
                          Connected(p, q, @, GetM(level))]
           /\ op' = [op EXCEPT ![p] = IF o.sel = <<>> THEN NextLevel(o)
                                      ELSE o]
    /\ UNCHANGED <<scenario, phase, k, main, files, index>>

\* The neighbour's list is locked: the writer is parked.
Park(p) ==
    /\ phase = "link"
    /\ op[p].pc = "push"
    /\ ~op[p].parked
    /\ Reading(Head(op[p].sel), op[p].level)
    /\ op' = [op EXCEPT ![p].parked = TRUE]
    /\ UNCHANGED <<scenario, phase, k, work, main, files, index>>

---------------------------------------------------------------------------
(* The files.                                                              *)

\* The graph that is searched: the flat links and the entry points.
Layers(flat, g) == [flat |-> flat, entries |-> g.entries, extras |-> g.extras]

\* into_graph_layers: the links file is written under another name and
\* renamed, and the graph can be searched.
SaveLinks ==
    /\ phase = "links"
    /\ \E back \in BackIndexes(main.links) :
           /\ files' = [files EXCEPT !.links = <<Serialize(main.links, back)>>]
           /\ index' = <<Layers(Serialize(main.links, back), main)>>
    /\ phase' = "config"
    /\ UNCHANGED <<scenario, k, work, main, op>>

\* save: the config, then the entry points; each replaces its file at once.
SaveConfig ==
    /\ phase = "config"
    /\ files' = [files EXCEPT !.config = TRUE]
    /\ phase' = "graph"
    /\ UNCHANGED <<scenario, k, work, main, op, index>>

SaveGraph ==
    /\ phase = "graph"
    /\ files' = [files EXCEPT !.graph = <<[main EXCEPT !.links = <<>>]>>]
    /\ phase' = "built"
    /\ UNCHANGED <<scenario, k, work, main, op, index>>

\* The process ends while the index is written or converted, or after.
Crash ==
    /\ phase \in {"config", "graph", "built", "convert"}
    /\ phase' = "down"
    /\ index' = <<>>
    /\ UNCHANGED <<scenario, k, work, main, op, files>>

\* GraphLayers::load: the graph file is of the old format.  Its links are written to a
\* file of their own, and then its entry points in its place.
ConvertLegacy ==
    \E back \in BackIndexes(files.graph[1].links) :
        /\ files' = [files EXCEPT !.links = <<Serialize(files.graph[1].links, back)>>]
        /\ phase' = "convert"
        /\ UNCHANGED index

SaveConverted ==
    /\ phase = "convert"
    /\ index' = <<Layers(files.links[1], files.graph[1])>>
    /\ files' = [files EXCEPT !.graph[1].links = <<>>]
    /\ phase' = "open"
    /\ UNCHANGED <<scenario, k, work, main, op>>

\* A conversion was interrupted between its files.
HalfConverted ==
    files.links # <<>> /\ files.graph # <<>> /\ files.graph[1].links # <<>>

\* What bincode makes of the old file: an error, or other fields with the bytes of the
\* links as entry points.
ReadHalfConverted ==
    \/ ConvertLegacy
    \/ \E p \in Points :
          /\ index' = <<Layers(files.links[1], [files.graph[1] EXCEPT !.entries = <<[point |-> p, level |-> p]>>])>>
          /\ phase' = "open"
          /\ UNCHANGED files

\* HNSWIndex::open: without a graph file there is no graph.
Open ==
    /\ phase = "down"
    /\ IF files.graph = <<>> THEN index' = <<>> /\ phase' = "open" /\ UNCHANGED files
       ELSE IF files.links = <<>> THEN ConvertLegacy
       ELSE IF HalfConverted THEN ReadHalfConverted
       ELSE /\ index' = <<Layers(files.links[1], files.graph[1])>>
            /\ phase' = "open"
            /\ UNCHANGED files
    /\ UNCHANGED <<scenario, k, work, main, op>>

Next ==
    \/ SetLevels
    \/ \E p \in Points :
          \/ Start(p)
          \/ Descend(p)
          \/ Lock(p)
          \/ Visit(p)
          \/ Select(p)
          \/ WriteOwn(p)
          \/ Push(p)
          \/ Park(p)
    \/ FinishGraph
    \/ Stop
    \/ SaveLinks
    \/ SaveConfig
    \/ SaveGraph
    \/ Crash
    \/ SaveConverted
    \/ Open

\* The threads of the pool run: each of them takes its next step in the end.
Spec == Init /\ [][Next]_vars /\ WF_vars(Next)

---------------------------------------------------------------------------
(* Search.                                                                 *)

\* get_m of the finished graph.
IndexM(level) == IF level = 0 THEN scenario.m0 ELSE scenario.m

\* search_entry down to level 0.
RECURSIVE SearchEntry(_, _, _, _, _)
SearchEntry(g, x, cur, level, ok) ==
    IF level = 0 THEN cur
    ELSE LET next == Hop(x, cur, LinksOf(g.flat, cur, level),
                         IndexM(level), ok)
         IN  SearchEntry(g, x, next, IF next = cur THEN level - 1 ELSE level, ok)

\* _search_on_level on level 0; ok are the points the scorer lets pass.
RECURSIVE SearchOnLevel(_, _, _, _, _)
SearchOnLevel(g, x, ef, s, ok) ==
    IF ~GoesOn(x, s) THEN s
    ELSE LET c == Best(x, s.cands)
         IN  SearchOnLevel(g, x, ef,
                 Expand(x, ef, s, c, LinksOf(g.flat, c, 0), IndexM(0), ok), ok)

\* The first elements of a sequence.
Take(s, n) == SubSeq(s, 1, Min({n, Len(s)}))

\* GraphLayers::search, search_with_graph.
SearchWithGraph(g, x, top, ok) ==
    LET e == GetEntryPoint(g, ok)
        ef == Max({scenario.ef, top})
        zero == SearchEntry(g, x, e[1].point, e[1].level, ok)
        found == SearchOnLevel(g, x, ef, StartSearch(zero), ok)
    IN  IF e = <<>> THEN <<>> ELSE Take(Ranked(x, found.nearest), top)

\* peek_top_iter and peek_top_all: the best of the points given.
PeekTop(x, top, S) == Take(Ranked(x, S \cap Live), top)

\* search_vectors_plain: the iterator over the matching points is made once
\* for the batch, so that the first vector leaves nothing for the others.
SearchVectorsPlain(xs, top, matching) ==
    [i \in DOMAIN xs |-> PeekTop(xs[i], top, IF i = 1 THEN matching ELSE {})]

\* HNSWIndex::search.  The estimate decides between the matching points and
\* the graph; between the bounds a sample does (its verdict is an input).
\* filter is <<>> or <<the points that match>>.
Search(xs, filter, top, exact, estimate, sample) ==
    LET graph(ok) ==
            [i \in DOMAIN xs |-> IF index = <<>> THEN <<>>
                                 ELSE SearchWithGraph(index[1], xs[i], top, ok)]
    IN  IF filter = <<>>
        THEN IF exact THEN [i \in DOMAIN xs |-> PeekTop(xs[i], top, Points)]
             ELSE graph(Live)
        ELSE IF \/ exact
                \/ estimate.max < scenario.threshold
                \/ /\ ~(estimate.min > scenario.threshold)
                   /\ ~sample
        THEN SearchVectorsPlain(xs, top, filter[1])
        ELSE graph(Live \cap filter[1])

---------------------------------------------------------------------------
(* Properties.                                                             *)

\* The graph under construction is sound at every moment of a build with any
\* number of threads: a link leads to another live point that is on that
\* level (the builder indexes the neighbour's lists by the level, and the flat
\* layout has no list to return otherwise), no list is longer than m, and no
\* point that has been registered is above the entry point the searches of
\* the other threads start from.
GraphSound ==
    phase = "link" =>
        /\ \A p \in Points : \A l \in DOMAIN work.links[p] :
              /\ Len(work.links[p][l]) <= GetM(l - 1)
              /\ \A q \in ToSet(work.links[p][l]) :
                    /\ q \in Passing(p)
                    /\ q # p
                    /\ l \in DOMAIN work.links[q]
        /\ \A p \in Batch(k) :
              (op[p].pc # "todo" /\ scenario.m > 0) =>
                  /\ work.entries # <<>>
                  /\ LevelOf(work, p) <= work.entries[1].level

\* It answers every links(point, level) and every point_level with the graph that was
\* built, and has its entry points.
AnswersAsBuilt(g) ==
    /\ g.entries = main.entries
    /\ \A p \in Points :
          /\ PointLevel(g.flat, p) = LevelOf(main, p)
          /\ \A l \in 0..LevelOf(main, p) :
                LinksOf(g.flat, p, l) = main.links[p][l + 1]

\* Whatever the order of the levels in the file, and whether the index is the one just
\* built, one opened after a crash between two of the files, or one converted from the
\* old format, it answers as the graph that was built; unless the conversion was
\* interrupted and the old graph file could be read as a new one.
IndexIsGraph == index # <<>> /\ ~HalfConverted => AnswersAsBuilt(index[1])

\* The same of every conversion ("Converting legacy graph to new format").
IndexIsAlwaysGraph == index # <<>> => AnswersAsBuilt(index[1])

\* The queries of the properties below: every position, with no filter or one
\* that some payload block was built for.
Positions == Min({scenario.pos[p] : p \in Points})..Max({scenario.pos[p] : p \in Points})
Filters == {<<>>} \cup {<<scenario.blocks[i]>> : i \in DOMAIN scenario.blocks}
Estimates(filter) ==
    IF filter = <<>> THEN {[min |-> 0, max |-> 0]}
    ELSE {[min |-> lo, max |-> hi] :
             lo \in 0..Cardinality(filter[1]),
             hi \in Cardinality(filter[1])..Cardinality(Points)}
Matching(filter) == IF filter = <<>> THEN Points ELSE filter[1]

\* A graph that one thread built, with room for all links and a beam as wide
\* as the segment, finds exactly the closest points, for every query, with no
\* filter and with the filter of each payload block, whichever of its
\* strategies the index picks.
SearchIsExact ==
    (phase = "built" /\ scenario.complete) =>
        \A x \in Positions, top \in 1..2, filter \in Filters,
           exact, sample \in BOOLEAN :
          \A estimate \in Estimates(filter) :
            Search(<<x>>, filter, top, exact, estimate, sample)
                = <<PeekTop(x, top, Matching(filter))>>

\* Each vector of a batch gets the answer it would get alone.
BatchIsExact ==
    (phase = "built" /\ scenario.complete) =>
        \A x, y \in Positions, filter \in Filters, sample \in BOOLEAN :
          \A estimate \in Estimates(filter) :
            Search(<<x, y>>, filter, 1, FALSE, estimate, sample)
                = <<PeekTop(x, 1, Matching(filter)),
                    PeekTop(y, 1, Matching(filter))>>

\* Linking always ends: no thread waits for ever for the lock of a list, in
\* particular a search never comes back to the point it is made for while a
\* writer is parked at the list that this very thread has locked.
BuildEnds == <>(phase \in {"built", "stopped", "convert", "open"})
===========================================================================
