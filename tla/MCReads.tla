------------------------------ MODULE MCReads -------------------------------
(* The instances for TLC of the components that answer the requests of        *)
(* clients: Searcher (the segments of shards), Replication (the replicas of a *)
(* shard) and Routing (the shards of a collection, and Wire).  They share no  *)
(* state: `level` says which one runs, from its own initial states, and the   *)
(* others stay in one of theirs in which nothing is due.                      *)
EXTENDS Integers, Sequences, FiniteSets, TLC

CONSTANTS Uuids,              \* of Searcher
          None,               \* of Replication
          MaxInteger, Grain   \* of Wire

VARIABLES level,
          sScenario, segs, client, version, known, touched,
          scenario, node, log, at, gone, store, order, readers, writer, upd, rd, late, led, faults,
          rScenario, stores, calls, answer, tries, disabled

searchVars == <<sScenario, segs, client, version, known, touched>>
replicaVars == <<scenario, node, log, at, gone, store, order, readers, writer, upd, rd, late, led, faults>>
routeVars == <<rScenario, stores, calls, answer, tries, disabled>>

-----------------------------------------------------------------------------
(* Searcher: five points in an appendable segment "a" and another one "b"     *)

Asked(kind, limit, offset) ==
    [kind |-> kind, limit |-> limit, offset |-> offset, refs |-> {1, 6}, fill |-> FALSE, threshold |-> 0]

TwoSegments(request) ==
    [shards |-> <<{"a", "b"}>>, open |-> {"a"},
     stored |-> [a |-> (1 :> 60 @@ 2 :> 40 @@ 3 :> 0 @@ 5 :> 0 @@ 6 :> 0),
                 b |-> (1 :> 0 @@ 2 :> 0 @@ 3 :> 50 @@ 5 :> 30 @@ 6 :> 20)],
     request |-> request, sample |-> [a |-> 9, b |-> 9], ef |-> [a |-> 0, b |-> 0],
     writes |-> 2, targets |-> {1, 3, 5}, scores |-> {22, 54}]

\* The appendable segment is new
NewSegment(request) ==
    [TwoSegments(request) EXCEPT !.stored = [a |-> (1 :> 0 @@ 2 :> 0 @@ 3 :> 0 @@ 5 :> 0 @@ 6 :> 0),
                                             b |-> (1 :> 60 @@ 2 :> 40 @@ 3 :> 50 @@ 5 :> 30 @@ 6 :> 20)]]
Sampled(search, m, n) == [search EXCEPT !.sample = [a |-> m, b |-> n]]
Once(search) == [search EXCEPT !.writes = 1]

\* Every kind of request while points are updated and moved, searches with results as
\* short as one point or cut by a threshold, and searches that are run again on the
\* segments whose samples were too small; and, without updates, searches for every size
\* of the samples, in one shard or two
Searches ==
    {TwoSegments(r) : r \in {Asked("search", 3, 0), Asked("search", 2, 1), Asked("retrieve", 1, 0),
                             [Asked("search", 2, 0) EXCEPT !.threshold = 35],
                             Asked("count", 1, 0), Asked("recommend", 2, 0), Asked("scroll", 2, 0),
                             [Asked("search", 2, 0) EXCEPT !.fill = TRUE]}}
    \cup {NewSegment(Asked("search", limit, 0)) : limit \in 1 .. 3}
    \cup {Once(Sampled(TwoSegments(Asked("search", limit, 0)), 1, n)) : limit \in 2 .. 3, n \in 1 .. 2}
    \cup {[Sampled(TwoSegments(Asked("search", limit, offset)), m, n) EXCEPT !.writes = 0, !.shards = shards] :
            m \in 1 .. 3, n \in 1 .. 3, limit \in 1 .. 5, offset \in 0 .. 2,
            shards \in {<<{"a", "b"}>>, <<{"a"}, {"b"}>>}}
    \cup {[Sampled(TwoSegments([Asked("search", 3, 0) EXCEPT !.threshold = least]), 1, 1)
              EXCEPT !.writes = 0, !.ef = [a |-> 2, b |-> 0]] : least \in {0, 30, 45}}
NoSearch == [TwoSegments(Asked("count", 1, 0)) EXCEPT !.writes = 0]

-----------------------------------------------------------------------------
(* Replication: three peers, or two                                        *)

Update(peer, ordering) == [at |-> peer, ordering |-> ordering, wait |-> TRUE]
Read(peer, consistency) == [at |-> peer, consistency |-> consistency, n |-> 2]
Replicas(hosts, updates, reads, lost, repeated, broken, writers) ==
    [hosts |-> hosts, updates |-> updates, reads |-> reads, factor |-> 1, fanout |-> 1,
     lost |-> lost, repeated |-> repeated, broken |-> broken, writers |-> writers, deleted |-> FALSE]

\* Two updates through the leader with lost and repeated calls; two that call each other
\* while the consensus threads take their locks; an update and a read of every kind;
\* a leader whose shard fails; updates, a read, a lost call and a failure together; and
\* updates and reads while the collection is deleted
Clusters ==
    {Replicas(1 .. 3, <<Update(1, "medium"), Update(2, "medium")>>, <<>>, 1, 1, 0, {}),
     Replicas(1 .. 2, <<Update(1, "weak"), Update(2, "weak")>>, <<>>, 0, 0, 0, {1, 2}),
     Replicas(1 .. 3, <<Update(1, "strong"), Update(2, "strong")>>, <<>>, 0, 0, 1, {}),
     Replicas(1 .. 2, <<Update(1, "medium"), Update(2, "medium")>>, <<Read(1, "all")>>, 1, 0, 1, {})}
    \cup {Replicas(1 .. 3, <<Update(1, "medium")>>, <<Read(peer, consistency)>>, 1, 0, 0, {}) :
            peer \in {1, 2}, consistency \in {"all", "quorum", "majority", "factor", "plain"}}
    \cup {[Replicas(1 .. 3, <<Update(1, ordering)>>, <<Read(2, consistency)>>, 0, 0, 0, {})
              EXCEPT !.deleted = TRUE] :
            ordering \in {"medium", "strong"}, consistency \in {"all", "quorum", "plain"}}
NoUpdates == Replicas(1 .. 3, <<>>, <<>>, 0, 0, 0, {})

-----------------------------------------------------------------------------
(* Routing: four points in two shards                                      *)

Ring == [i \in 1 .. 4 |-> 1 + (i % 2)]
Text(v) == [type |-> "string", v |-> v]
Number(v) == [type |-> "integer", v |-> v]
NoPayload == [k \in {} |-> 0]

Unnamed ==
    1 :> [vector |-> ("" :> 10), payload |-> [k |-> Text("x"), g |-> Number(3)]]
    @@ 2 :> [vector |-> ("" :> 20), payload |-> [k |-> Text("y")]]
    @@ 3 :> [vector |-> ("" :> 30), payload |-> NoPayload]
Named ==
    1 :> [vector |-> [a |-> 10, b |-> 15], payload |-> [k |-> Text("x"), g |-> Number(3)]]
    @@ 3 :> [vector |-> [a |-> 30, b |-> 5], payload |-> NoPayload]

Field(key, match, radius) ==
    [type |-> "field",
     field |-> [key |-> key, match |-> match, range |-> <<>>, geo_bounding_box |-> <<>>,
                geo_radius |-> radius, values_count |-> <<>>]]
Filter(should, must, must_not) ==
    [type |-> "filter", should |-> should, must |-> must, must_not |-> must_not]
IsX == Filter(<<>>, <<<<Field("k", <<[match |-> "value", of |-> "keyword", v |-> "x"]>>, <<>>)>>>>, <<>>)
NearG == Filter(<<>>, <<<<Field("g", <<>>, <<3>>)>>>>, <<>>)
NoG == Filter(<<<<>>>>, <<>>, <<<<Field("g", <<>>, <<4>>), [type |-> "has_id", ids |-> {3}]>>>>)

Point(id, v, payload) ==
    [id |-> id, vector |-> [single |-> TRUE, vectors |-> ("" :> v)], payload |-> payload]
Both(id, v, w) ==
    [id |-> id, vector |-> [single |-> FALSE, vectors |-> [a |-> v, b |-> w]], payload |-> <<NoPayload>>]

\* Operations on given points
OnPoints ==
    {[kind |-> "upsert", points |-> <<Point(4, 40, <<>>), Point(1, 11, <<[k |-> Text("z")]>>),
                                      Point(4, 41, <<[g |-> Number(1)]>>)>>],
     [kind |-> "upsert_batch", ids |-> <<1, 2, 4>>, vectors |-> ("" :> <<11, 21, 41>>),
      payloads |-> <<<<<<[k |-> Text("z")]>>, <<NoPayload>>, <<>>>>>>],
     [kind |-> "upsert_batch", ids |-> <<1, 2, 4>>, vectors |-> ("" :> <<11, 21>>), payloads |-> <<>>],
     [kind |-> "set_payload", payload |-> [g |-> Number(5)], points |-> <<<<1, 2>>>>, filter |-> <<>>],
     [kind |-> "set_payload", payload |-> [g |-> Number(5)], points |-> <<<<1, 4>>>>, filter |-> <<>>],
     [kind |-> "overwrite_payload", payload |-> [g |-> Number(5)], points |-> <<<<4>>>>, filter |-> <<>>],
     [kind |-> "delete_payload", keys |-> <<"k">>, points |-> <<<<1>>>>, filter |-> <<NoG>>],
     [kind |-> "clear_payload", ids |-> <<1, 3>>]}
    \cup {[kind |-> "delete", ids |-> ids] : ids \in {<<1, 2, 4>>, <<>>, <<3, 1>>}}
\* Operations that a message does not carry as they are: a stored point without its
\* payload, a number and a radius that lose precision, an index without a schema
NotCarried ==
    {[kind |-> "upsert", points |-> <<Point(1, 11, <<>>), Point(2, 21, <<>>)>>],
     [kind |-> "overwrite_payload", payload |-> [g |-> Number(MaxInteger + 1)], points |-> <<<<1, 2>>>>, filter |-> <<>>],
     [kind |-> "delete_by_filter", filter |-> NearG],
     [kind |-> "create_index", field_name |-> "k", field_schema |-> <<>>]}
\* Operations that go to every shard
OnAll ==
    {[kind |-> "set_payload", payload |-> [k |-> Text("y")], points |-> <<>>, filter |-> <<IsX>>],
     [kind |-> "delete_by_filter", filter |-> NoG],
     [kind |-> "clear_payload_by_filter", filter |-> IsX],
     [kind |-> "create_index", field_name |-> "k",
      field_schema |-> <<[type |-> "text", params |-> <<"p">>]>>],
     [kind |-> "create_index", field_name |-> "k",
      field_schema |-> <<[type |-> "keyword", params |-> <<>>]>>],
     [kind |-> "delete_index", field_name |-> "k"]}

Requests(name) ==
    {[kind |-> kind, name |-> name, filter |-> <<NoG>>, limit |-> 1, offset |-> <<1>>,
      ids |-> <<3, 1>>, with_payload |-> <<[of |-> "fields", v |-> <<"k">>]>>,
      with_vector |-> <<[of |-> "selector", v |-> <<"a">>]>>] :
        kind \in {"search", "scroll", "get", "count"}}
NearRead == [kind |-> "count", name |-> "", filter |-> <<NearG>>]

Collection(op, ordering, peer, replicas, failing, locked) ==
    [op |-> op, ordering |-> ordering, peer |-> peer, replicas |-> replicas, stored |-> Unnamed,
     failing |-> failing, locked |-> locked, reads |-> Requests("") \cup {NearRead}]
Apart == 1 :> {1, 2} @@ 2 :> {2, 3}
Together == 1 :> {1, 2} @@ 2 :> {1, 2}

\* Operations of every ordering, called at a peer with replicas and at one without,
\* with a shard that fails once, and with a peer that is locked, also a leader
Collections ==
    {Collection(op, ordering, peer, replicas, failing, {}) :
        op \in OnPoints, ordering \in {"weak", "medium", "strong"}, peer \in {1, 3},
        replicas \in {Apart, Together}, failing \in {{}, {1}}}
    \cup {Collection(op, ordering, peer, Together, {}, {}) :
        op \in OnAll, ordering \in {"weak", "medium", "strong"}, peer \in {1, 3}}
    \cup {Collection(op, "weak", peer, Apart, failing, locked) :
        op \in OnAll, peer \in {1, 3}, failing \in {{}, {1}}, locked \in {{}, {1}}}
    \cup {Collection(op, ordering, 1, Apart, {}, {leader}) :
        op \in OnPoints, ordering \in {"medium", "strong"}, leader \in {2, 3}}
    \cup {Collection(op, "medium", peer, Apart, {}, {3}) :
        op \in {o \in OnAll : o.kind \in {"set_payload", "delete_index"}}, peer \in {1, 3}}
    \cup {Collection(op, ordering, peer, Apart, {}, {}) :
        op \in NotCarried, ordering \in {"weak", "medium"}, peer \in {1, 3}}
    \cup {[Collection(op, "weak", 1, Apart, {}, {}) EXCEPT !.stored = Named, !.reads = Requests("a")] :
        op \in {[kind |-> "upsert", points |-> <<Both(3, 20, 25), Both(2, 40, 35)>>],
                [kind |-> "delete", ids |-> <<1>>]}}
NoCall == Collection([kind |-> "delete", ids |-> <<>>], "weak", 1, Together, {}, {})

-----------------------------------------------------------------------------
Searching == INSTANCE Searcher WITH scenario <- sScenario, Scenarios <- Searches \cup {NoSearch}
Replicating == INSTANCE Replication WITH Peers <- 1 .. 3, Scenarios <- Clusters \cup {NoUpdates}
Routed == INSTANCE Routing WITH scenario <- rScenario, Scenarios <- Collections

Init ==
    /\ level \in {"segments", "replicas", "shards"}
    /\ sScenario \in IF level = "segments" THEN Searches ELSE {NoSearch}
    /\ scenario \in IF level = "replicas" THEN Clusters ELSE {NoUpdates}
    /\ rScenario \in IF level = "shards" THEN Collections ELSE {NoCall}
    /\ Searching!Init /\ Replicating!Init /\ Routed!Init

Next ==
    \/ level = "segments" /\ Searching!Next /\ UNCHANGED <<level, replicaVars, routeVars>>
    \/ level = "replicas" /\ Replicating!Next /\ UNCHANGED <<level, searchVars, routeVars>>
    \/ level = "shards" /\ Routed!Next /\ UNCHANGED <<level, searchVars, replicaVars>>

Spec == Init /\ [][Next]_<<level, searchVars, replicaVars, routeVars>> /\ Replicating!Fairness

-----------------------------------------------------------------------------
\* Searcher: whatever updates and moves happen meanwhile, an answer never names a point
\* twice, never exceeds the limit, is sorted, shows every point in a state it really was
\* in, and does not lack a point because other points were updated, but for one place at
\* the end of a search for each moved point it read in both segments
\* (SegmentsSearcher::search, LocalShard::retrieve, Collection::merge_from_shards);
\* while no update happens it is exact, sampled or not, over any number of segments and
\* shards and for every page of a scroll, and the two ways to read filtered ids, and
\* requests in batches and alone, agree (process_search_result_step1,
\* Segment::read_filtered).
AnswersAreSound ==
    level = "segments" =>
        /\ Searching!AnswerIsSound /\ Searching!UntouchedIsFound
        /\ Searching!QuietIsExact /\ Searching!ReadsAgree

\* Replication: updates that go through a leader leave the active replicas alike,
\* whatever was lost, repeated or executed late (update_with_consistency, update).
ReplicasAgree == level = "replicas" => Replicating!ReplicasAgree

\* Replication: a read never returns less than an update that a client knew to be done
\* when it began, if it asks every replica or its peer knows which ones failed; and it
\* fails only when too few replicas are left (execute_and_resolve_read_operation).
ReadIsFresh == level = "replicas" => Replicating!ReadIsFresh /\ Replicating!ReadFailsWhenDue

\* Replication: every call ends, although an update keeps the lock of its shard while it
\* waits for peers that may wait for it (update_with_consistency, forward_update).
CallsEnd == Replicating!CallsEnd

\* Routing: the parts of an operation do together what it does to one store that has all
\* points, on every replica and also when the client repeats it, if a message carries the
\* operation as it is; a read that another peer answers has the result it has on a local
\* replica, if it is about numbers that a message carries (split_by_shard,
\* RemoteShard::update and search); an update never comes back to a peer that waits for
\* it, unless it is for every shard and these have different leaders; and a replica is
\* deactivated only for a failure of its shard, a locked leader or an index without a
\* schema (forward_update, handle_failed_replicas).
ShardsAreOneStore ==
    level = "shards" =>
        /\ Routed!ShardsAreOneStore /\ Routed!RemoteReadsAlike
        /\ Routed!BlamedWhenDue /\ Routed!NobodyWaitsForItself
=============================================================================
