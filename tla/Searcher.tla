----------------------------- MODULE Searcher -----------------------------
(***************************************************************************)
(* How a collection answers reads from the segments of its shards while    *)
(* updates go on: search with sampling and re-run                          *)
(* (collection_manager/segments_searcher.rs, search_result_aggregator.rs,  *)
(* probabilistic_segment_search_sampling.rs), scroll, count, retrieve and  *)
(* recommend (shards/local_shard_operations.rs, local_shard.rs,            *)
(* collection.rs, recommendations.rs), down to the reads of one segment    *)
(* (segment.rs, simple_id_tracker.rs).                                     *)
(*                                                                         *)
(* A read holds the lock of one segment at a time.  An update of a point   *)
(* in a segment that is not appendable moves the point: it holds the locks *)
(* of both segments, so that a read sees each segment before or after the  *)
(* move, but the two possibly at different times.                          *)
(*                                                                         *)
(* Point ids are numbers; those from Uuids on stand for UUIDs, which come  *)
(* after all numeric ids.  The score of a stored point is its score for    *)
(* the query of the client.                                                *)
(***************************************************************************)
EXTENDS Integers, Sequences, FiniteSets, SequencesExt, FiniteSetsExt

CONSTANT Uuids, Scenarios
  (* A scenario:                                                           *)
  (*   shards   the segments of each shard, a sequence of sets;            *)
  (*   open     the appendable segments;                                   *)
  (*   stored   what the segments hold first: segment -> id -> score or 0; *)
  (*   request  the request: [kind, limit, offset, refs, fill, threshold]; *)
  (*   sample   the sampling size each segment gets from the table;        *)
  (*   ef       the ef_construct of each segment, 0 for a plain one;       *)
  (*   writes   how many updates happen;                                   *)
  (*   targets, scores  the ids that are updated, the scores they may get. *)

VARIABLES
    scenario,
    segs,      \* what each segment stores: id -> <<>> or <<[v, score]>>
    client,    \* the request that is being answered
    version,   \* the number of the last update
    known,     \* <<id, version, score>> of all states of points since Begin
    touched    \* the ids updated since Begin

vars == <<scenario, segs, client, version, known, touched>>

Shards == DOMAIN scenario.shards
Segs == UNION {scenario.shards[h] : h \in Shards}
ShardOf(s) == CHOOSE h \in Shards : s \in scenario.shards[h]
Ids == DOMAIN segs[CHOOSE s \in Segs : TRUE]
Request == scenario.request
Top == Request.limit + Request.offset

\* The points of a segment, and the scored points of a set of ids.
Held(s) == {i \in Ids : segs[s][i] # <<>>}
Point(s, i) == [id |-> i, v |-> segs[s][i][1].v, score |-> segs[s][i][1].score]

\* A set of scored points, the best first.
Ranked(S) == SetToSortSeq(S, LAMBDA p, q : p.score > q.score)
Take(s, n) == SubSeq(s, 1, Min({n, Len(s)}))

---------------------------------------------------------------------------
(* Reads of one segment.                                                   *)

\* iter_from: with a numeric offset the numeric ids from there on and all
\* UUIDs, with a UUID the UUIDs from there on; an offset of 0 is none.
IterFrom(s, offset) ==
    LET nums == {i \in Held(s) : i < Uuids}
        uuids == {i \in Held(s) : i >= Uuids}
        from(S) == SetToSortSeq({i \in S : i >= offset}, <)
    IN  IF offset < Uuids THEN from(nums) \o SetToSortSeq(uuids, <)
        ELSE from(uuids)

\* read_filtered with no filter, or with one by the stream of ids.
ReadByIdStream(s, offset, limit, match) ==
    Take(SelectSeq(IterFrom(s, offset), LAMBDA i : i \in match), limit)

\* filtered_read_by_index: the smallest ids of the matching points.
ReadByIndex(s, offset, limit, match) ==
    Take(SetToSortSeq({i \in Held(s) \cap match : i >= offset}, <), limit)

\* read_filtered: the strategy follows the estimate of the cardinality.
ReadFiltered(s, offset, limit, match) ==
    LET total == Cardinality(Held(s)) + 1
        exp == Cardinality(match \cap Held(s))
        streamChecks == (limit * total) \div (exp + 1)
    IN  IF match # Ids /\ streamChecks > Cardinality(match)
        THEN ReadByIndex(s, offset, limit, match)
        ELSE ReadByIdStream(s, offset, limit, match)

\* sampling_limit.
SamplingLimit(limit, poisson, ef, points) ==
    IF points = 0 THEN 0
    ELSE IF poisson > limit THEN limit
    ELSE Max({poisson, ef})

\* search_in_segment: consecutive requests with the same parameters are
\* searched as one batch.  The parameters each answer was found with, for the
\* parameters ps of the requests; 0 are the default parameters.
ExecutedWith(ps) ==
    LET step(acc, p) ==
            IF p = acc.prev THEN [acc EXCEPT !.size = @ + 1]
            ELSE [prev |-> p, size |-> 1,
                  out |-> acc.out \o [n \in 1..acc.size |-> acc.prev]]
        end == FoldLeft(step, [prev |-> 0, size |-> 0, out |-> <<>>], ps)
    IN  end.out \o [n \in 1..end.size |-> end.prev]

\* The sampling is used with several segments that are not all empty.
UseSampling(h) ==
    /\ Cardinality(scenario.shards[h]) > 1
    /\ \E s \in scenario.shards[h] : Held(s) # {}

\* Segment::search_batch for the one query: the best points that match.
SearchSegment(s, top, match) ==
    Take(Ranked({Point(s, i) : i \in Held(s) \cap match}), top)

---------------------------------------------------------------------------
(* Merging the results of the segments of a shard.                         *)

\* update_point_versions: the newest version seen of each point.
Newest(points, i) == Max({p.v : p \in {q \in points : q.id = i}})

\* A slip of push: a point that was seen in another segment counts again.
PushSeen(agg, points, all, limit) ==
    [seen  |-> agg.seen \cup {p.id : p \in points},
     queue |-> ToSet(Take(Ranked(agg.queue \cup points), limit))]

\* update_batch_results and SearchResultAggregator::push: a point counts once,
\* and only in its newest version; the queue keeps the best.
PushResults(agg, points, all, limit) ==
    LET current == {p \in points : p.v >= Newest(all, p.id)}
        one == {p \in current : p.id \notin agg.seen}
    IN  [seen  |-> agg.seen \cup {p.id : p \in one},
         queue |-> ToSet(Take(Ranked(agg.queue \cup one), limit))]

\* The points of the results of a set of segments.
PointsOf(res, S) == UNION {ToSet(res[s][1]) : s \in S}

\* Those of them that are passed over: a newer version is among all points.
Outdated(points, all) == {p \in points : p.v < Newest(all, p.id)}

\* A slip of process_search_result_step1: the re-run is forgotten when the
\* lowest score of the segment equals that of the result.
RerunStrictly(h, agg) ==
    {s \in scenario.shards[h] :
        /\ agg.queue # {}
        /\ client.further[s]
        /\ Len(client.res[s][1]) < Top
        /\ client.res[s][1] # <<>>
        /\ Last(client.res[s][1]).score > Min({p.score : p \in agg.queue})}

\* process_search_result_step1: the segments that may have more points that
\* are better than the worst of the result.  An empty result has the lowest
\* score there is.
ToRerun(h, agg) ==
    {s \in scenario.shards[h] :
        /\ agg.queue # {}
        /\ client.further[s]
        /\ Len(client.res[s][1]) < Top
        /\ client.res[s][1] # <<>>
        /\ Last(client.res[s][1]).score >= Min({p.score : p \in agg.queue})}

---------------------------------------------------------------------------
(* The client.                                                             *)

\* The states of the stored points, as <<id, version, score>>.
Stored == {<<i, segs[s][i][1].v, segs[s][i][1].score>> :
              <<s, i>> \in {x \in Segs \X Ids : segs[x[1]][x[2]] # <<>>}}

EmptyAgg == [seen |-> {}, queue |-> {}]

NoRead == [s \in Segs |-> <<>>]

Idle == [pc |-> "idle", stage |-> [h \in Shards |-> "done"],
         res |-> NoRead, further |-> [s \in Segs |-> FALSE],
         sampling |-> [h \in Shards |-> FALSE],
         again |-> {}, agg |-> [h \in Shards |-> EmptyAgg], outdated |-> {},
         want |-> [h \in Shards |-> {}], recs |-> [h \in Shards |-> {}],
         match |-> Ids, from |-> 0, pages |-> <<>>, answer |-> <<>>,
         error |-> FALSE]

Init ==
    /\ scenario \in Scenarios
    /\ segs = [s \in Segs |-> [i \in DOMAIN scenario.stored[s] |->
                 IF scenario.stored[s][i] = 0 THEN <<>>
                 ELSE <<[v |-> 1, score |-> scenario.stored[s][i]]>>]]
    /\ client = Idle
    /\ version = 1
    /\ known = {}
    /\ touched = {}

\* Every shard starts a search among the matching points.
Searching(c, match) ==
    [c EXCEPT !.pc = "search", !.stage = [h \in Shards |-> "search"],
              !.res = NoRead, !.match = match,
              !.sampling = [h \in Shards |-> UseSampling(h)]]

\* Every shard starts to read the ids of a page.
Scanning(c, from) ==
    [c EXCEPT !.pc = "scan", !.stage = [h \in Shards |-> "scan"],
              !.res = NoRead, !.from = from]

\* Every shard starts to retrieve the wanted points.
Fetching(c, pc, want) ==
    [c EXCEPT !.pc = pc, !.stage = [h \in Shards |-> "fetch"],
              !.res = NoRead, !.want = [h \in Shards |-> want],
              !.recs = [h \in Shards |-> {}]]

Begin ==
    /\ client.pc = "idle"
    /\ client' = CASE Request.kind = "search" -> Searching(client, Ids)
                   [] Request.kind \in {"scroll", "count"} -> Scanning(client, 0)
                   [] Request.kind = "retrieve" -> Fetching(client, "fetch", Request.refs)
                   [] Request.kind = "recommend" -> Fetching(client, "refs", Request.refs)
    /\ known' = Stored
    /\ UNCHANGED <<scenario, segs, version, touched>>

\* search_in_segment.
SearchIn(s) ==
    /\ client.stage[ShardOf(s)] = "search"
    /\ client.res[s] = <<>>
    /\ LET top == IF client.sampling[ShardOf(s)]
                  THEN SamplingLimit(Top, scenario.sample[s], scenario.ef[s],
                                     Cardinality(Held(s)))
                  ELSE Top
           found == SearchSegment(s, top, client.match)
       IN  client' = [client EXCEPT !.res[s] = <<found>>,
                                    !.further[s] = Len(found) = top]
    /\ UNCHANGED <<scenario, segs, version, known, touched>>

\* All segments of the shard have answered: the results are merged, and
\* some segments are searched again without sampling.
MergeShard(h) ==
    /\ client.stage[h] = "search"
    /\ \A s \in scenario.shards[h] : client.res[s] # <<>>
    /\ LET all == PointsOf(client.res, scenario.shards[h])
           agg == PushResults(EmptyAgg, all, all, Top)
           again == ToRerun(h, agg)
       IN  client' = [client EXCEPT
                         !.agg[h] = agg,
                         !.outdated = @ \cup Outdated(all, all),
                         !.again = @ \cup again,
                         !.res = [s \in Segs |-> IF s \in again THEN <<>> ELSE @[s]],
                         !.recs[h] = all,
                         !.stage[h] = IF again = {} THEN "done" ELSE "rerun"]
    /\ UNCHANGED <<scenario, segs, version, known, touched>>

SearchAgain(s) ==
    /\ client.stage[ShardOf(s)] = "rerun"
    /\ s \in client.again
    /\ client.res[s] = <<>>
    /\ client' = [client EXCEPT !.res[s] = <<SearchSegment(s, Top, client.match)>>]
    /\ UNCHANGED <<scenario, segs, version, known, touched>>

MergeAgain(h) ==
    /\ client.stage[h] = "rerun"
    /\ LET again == client.again \cap scenario.shards[h]
           found == PointsOf(client.res, again)
       IN  /\ \A s \in again : client.res[s] # <<>>
           /\ client' = [client EXCEPT
                 !.agg[h] = PushResults(@, found, client.recs[h] \cup found, Top),
                 !.outdated = @ \cup Outdated(found, client.recs[h] \cup found),
                 !.stage[h] = "done"]
    /\ UNCHANGED <<scenario, segs, version, known, touched>>

\* LocalShard::search: the points below the threshold of the request are cut.
\* _search_batch: the results of the shards are merged; the offset is cut.
AboveThreshold(points) == {p \in points : p.score >= Request.threshold}
CollectSearch ==
    /\ client.pc = "search"
    /\ \A h \in Shards : client.stage[h] = "done"
    /\ LET merged == Take(Ranked(UNION {AboveThreshold(client.agg[h].queue) : h \in Shards}), Top)
           result == IF Len(merged) >= Request.offset
                     THEN SubSeq(merged, Request.offset + 1, Len(merged))
                     ELSE <<>>
       IN  client' = IF Request.fill
                     THEN [Fetching(client, "fill", {result[j].id : j \in DOMAIN result})
                              EXCEPT !.answer = result]
                     ELSE [client EXCEPT !.answer = result, !.pc = "done"]
    /\ UNCHANGED <<scenario, segs, version, known, touched>>

\* scroll_by and count: the ids of one segment.  A scroll asks for one point
\* more than the page has; a count has no limit.
PageLimit == IF Request.kind = "scroll" THEN Request.limit + 1
             ELSE Cardinality(Ids)

ScanSegment(s) ==
    /\ client.stage[ShardOf(s)] = "scan"
    /\ client.res[s] = <<>>
    /\ client' = [client EXCEPT
                     !.res[s] = <<ReadFiltered(s, client.from, PageLimit, client.match)>>]
    /\ UNCHANGED <<scenario, segs, version, known, touched>>

\* The ids of the shard are sorted and freed of duplicates; a scroll takes
\* the page of them and retrieves the points.
TakeIds(h) ==
    /\ client.stage[h] = "scan"
    /\ \A s \in scenario.shards[h] : client.res[s] # <<>>
    /\ LET ids == UNION {ToSet(client.res[s][1]) : s \in scenario.shards[h]}
           page == ToSet(Take(SetToSortSeq(ids, <), PageLimit))
       IN  client' = [client EXCEPT
                         !.want[h] = page,
                         !.recs[h] = {},
                         !.res = [s \in Segs |->
                                     IF s \in scenario.shards[h] THEN <<>> ELSE @[s]],
                         !.stage[h] = IF Request.kind = "scroll" THEN "fetch" ELSE "done"]
    /\ UNCHANGED <<scenario, segs, version, known, touched>>

\* SegmentsSearcher::retrieve: of a point found in several segments the one
\* with the later version is kept.
FetchNewest(recs, found) ==
    {r \in recs : \A q \in found : q.id = r.id => r.v >= q.v} \cup
    {q \in found : \A r \in recs : q.id = r.id => r.v < q.v}

\* retrieve: the wanted points of one segment.
FetchSegment(s) ==
    /\ client.stage[ShardOf(s)] = "fetch"
    /\ client.res[s] = <<>>
    /\ client' = [client EXCEPT
                     !.res[s] = <<<<>>>>,
                     !.recs[ShardOf(s)] =
                        FetchNewest(@, {Point(s, i) : i \in Held(s) \cap client.want[ShardOf(s)]})]
    /\ UNCHANGED <<scenario, segs, version, known, touched>>

EndFetch(h) ==
    /\ client.stage[h] = "fetch"
    /\ \A s \in scenario.shards[h] : client.res[s] # <<>>
    /\ client' = [client EXCEPT !.stage[h] = "done"]
    /\ UNCHANGED <<scenario, segs, version, known, touched>>

Fetched == UNION {client.recs[h] : h \in Shards}

\* Collection::scroll_by: the pages of the shards are merged.  A short page is
\* the last; otherwise its extra point begins the next one.
CollectPage ==
    /\ client.pc = "scan" /\ Request.kind = "scroll"
    /\ \A h \in Shards : client.stage[h] = "done"
    /\ LET ids == Take(SetToSortSeq({p.id : p \in Fetched}, <), PageLimit)
       IN  client' = IF Len(ids) < PageLimit
                     THEN [client EXCEPT !.pages = @ \o ids, !.pc = "done"]
                     ELSE Scanning([client EXCEPT !.pages = @ \o Front(ids)], Last(ids))
    /\ UNCHANGED <<scenario, segs, version, known, touched>>

\* Collection::count, exact: the numbers of the shards are added up.
CollectCount ==
    /\ client.pc = "scan" /\ Request.kind = "count"
    /\ \A h \in Shards : client.stage[h] = "done"
    /\ client' = [client EXCEPT !.pc = "done",
                     !.answer = <<MapThenSumSet(LAMBDA h : Cardinality(client.want[h]), Shards)>>]
    /\ UNCHANGED <<scenario, segs, version, known, touched>>

\* Collection::retrieve.
CollectRetrieved ==
    /\ client.pc = "fetch"
    /\ \A h \in Shards : client.stage[h] = "done"
    /\ client' = [client EXCEPT !.pc = "done", !.answer = SetToSeq(Fetched)]
    /\ UNCHANGED <<scenario, segs, version, known, touched>>

\* The search request of a recommendation leaves the examples out (must_not).
Unlike == Ids \ Request.refs

\* recommend_batch_by: the examples have been retrieved.  It is refused when
\* one is missing, and else searches among the other points.
SearchByExamples ==
    /\ client.pc = "refs"
    /\ \A h \in Shards : client.stage[h] = "done"
    /\ client' = IF Request.refs \subseteq {p.id : p \in Fetched}
                 THEN Searching(client, Unlike)
                 ELSE [client EXCEPT !.pc = "done", !.error = TRUE]
    /\ UNCHANGED <<scenario, segs, version, known, touched>>

\* fill_search_result_with_payload drops the points that are gone.
FillResult ==
    /\ client.pc = "fill"
    /\ \A h \in Shards : client.stage[h] = "done"
    /\ client' = [client EXCEPT !.pc = "done",
                     !.answer = SelectSeq(@, LAMBDA p : p.id \in {q.id : q \in Fetched})]
    /\ UNCHANGED <<scenario, segs, version, known, touched>>

---------------------------------------------------------------------------
(* Updates, each under the locks of the segments it changes.               *)

Present(i) == {s \in Segs : segs[s][i] # <<>>}

\* The point is written: in place in an appendable segment, else into an
\* appendable segment of its shard, and deleted where it was.
Write(i, score) ==
    /\ version - 1 < scenario.writes
    /\ client.pc # "done"
    /\ Present(i) # {}
    /\ LET s == CHOOSE x \in Present(i) : TRUE
           new == <<[v |-> version + 1, score |-> score]>>
       IN  \E t \in scenario.open \cap scenario.shards[ShardOf(s)] :
              /\ s \in scenario.open => t = s
              /\ segs' = [x \in Segs |->
                             [segs[x] EXCEPT ![i] = IF x = t THEN new ELSE <<>>]]
    /\ version' = version + 1
    /\ known' = known \cup {<<i, version + 1, score>>}
    /\ touched' = touched \cup {i}
    /\ UNCHANGED <<scenario, client>>

Delete(i) ==
    /\ version - 1 < scenario.writes
    /\ client.pc # "done"
    /\ Present(i) # {}
    /\ segs' = [x \in Segs |-> [segs[x] EXCEPT ![i] = <<>>]]
    /\ version' = version + 1
    /\ touched' = touched \cup {i}
    /\ UNCHANGED <<scenario, client, known>>

Next ==
    \/ Begin
    \/ \E s \in Segs :
          \/ SearchIn(s)
          \/ SearchAgain(s)
          \/ ScanSegment(s)
          \/ FetchSegment(s)
    \/ \E h \in Shards :
          \/ MergeShard(h)
          \/ MergeAgain(h)
          \/ TakeIds(h)
          \/ EndFetch(h)
    \/ CollectSearch
    \/ CollectPage
    \/ CollectCount
    \/ CollectRetrieved
    \/ SearchByExamples
    \/ FillResult
    \/ \E i \in scenario.targets : Delete(i) \/ \E n \in scenario.scores : Write(i, n + i)

Spec == Init /\ [][Next]_vars

---------------------------------------------------------------------------
(* Properties.                                                             *)

Answered == client.pc = "done" /\ ~client.error

AnswerPoints == IF Request.kind \in {"count", "scroll"} THEN {} ELSE ToSet(client.answer)

\* Whatever updates and moves happen meanwhile, an answer never names a point
\* twice, never exceeds the limit, is sorted, and shows every point in a state
\* it really was in at some moment of the request; a scroll never returns an
\* id again or goes back.
AnswerIsSound ==
    /\ Answered =>
         /\ \A p \in AnswerPoints : <<p.id, p.v, p.score>> \in known
         /\ Cardinality({p.id : p \in AnswerPoints}) = Cardinality(AnswerPoints)
         /\ Request.kind \in {"search", "recommend"} =>
              /\ Len(client.answer) <= Request.limit
              /\ \A j, l \in DOMAIN client.answer :
                    j < l => client.answer[j].score > client.answer[l].score
              /\ \A p \in AnswerPoints : p.id \in client.match
    /\ \A j, l \in DOMAIN client.pages : j < l => client.pages[j] < client.pages[l]

\* The points a request without updates has to work with.
All == UNION {{Point(s, i) : i \in Held(s)} : s \in Segs}

\* While no update happens, the answer is exact: a search over any number of
\* segments and shards, sampled or not, gives the best points after the
\* offset, following the pages of a scroll gives every id once, a count
\* counts, and a recommend leaves out its examples.
QuietIsExact ==
    (Answered /\ touched = {}) =>
        CASE Request.kind \in {"search", "recommend"} ->
               LET best == Take(Ranked({p \in AboveThreshold(All) : p.id \in client.match}), Top)
               IN  client.answer =
                      SubSeq(best, Min({Request.offset, Len(best)}) + 1, Len(best))
          [] Request.kind = "scroll" ->
               client.pages = SetToSortSeq({p.id : p \in All}, <)
          [] Request.kind = "count" -> client.answer = <<Cardinality(All)>>
          [] Request.kind = "retrieve" ->
               ToSet(client.answer) = {p \in All : p.id \in Request.refs}

\* The two ways to read filtered ids agree, for every offset, limit and
\* filter, and batching gives every request of a batch the answer to its own
\* parameters, in its place.
ReadsAgree ==
    client.pc = "idle" =>
      /\ \A ps \in UNION {[1..n -> 0..2] : n \in 0..4} : ExecutedWith(ps) = ps
      /\ \A s \in Segs, offset \in Ids \cup {0}, limit \in 1..3 :
          \A match \in SUBSET Ids :
            ReadByIndex(s, offset, limit, match) = ReadByIdStream(s, offset, limit, match)

\* The points nobody updated during a search that are better than the n-th of
\* its answer and not in it; all that are not in it when it is shorter.
Lacking(n) ==
    {p \in AboveThreshold(All) \ AnswerPoints :
        /\ p.id \notin touched /\ p.id \in client.match
        /\ Len(client.answer) >= n => p.score > client.answer[n].score}
FirstPage == Request.kind \in {"search", "recommend"} /\ Request.offset = 0 /\ ~ Request.fill

\* Updates of other points never cost an answer a point: one that is not
\* updated during the request is found by a retrieve, and by a search that it
\* is good enough for.  For a search it is false: a moved point that is read in
\* its old segment and again in its new one took the place of another point in
\* the result of the old segment, and is passed over.
UntouchedIsAlwaysFound ==
    Answered =>
        /\ FirstPage => Lacking(Request.limit) = {}
        /\ Request.kind = "retrieve" =>
             \A p \in All : p.id \in Request.refs \ touched => p \in AnswerPoints

\* That is the only way to lose one, and it costs one place each time: the
\* answer is right but for as many places, at its end, as points were passed over.
UntouchedIsFound ==
    LET sound == Request.limit - Cardinality(client.outdated)
    IN  IF Answered /\ FirstPage THEN sound > 0 => Lacking(sound) = {}
        ELSE UntouchedIsAlwaysFound

\* The last page of a scroll is the last: every point that was there all the
\* time has been returned.
ScrollIsComplete ==
    (Answered /\ Request.kind = "scroll") =>
        \A p \in All : p.id \notin touched => p.id \in ToSet(client.pages)
===========================================================================
