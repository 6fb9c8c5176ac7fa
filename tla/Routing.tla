------------------------------ MODULE Routing -------------------------------
(***************************************************************************)
(* One update of a client on its way through the cluster: a peer splits it *)
(* by shard, executes the part of a shard on the replicas of the shard, or *)
(* forwards it to the leader, which handles it as if a client had sent it; *)
(* the results come back, and the client may repeat the call.  All         *)
(* replicas are active at first (Replication is about the others).         *)
(***************************************************************************)
EXTENDS Wire, TLC

CONSTANTS Ring,        \* the hash ring: the shard of a point
          Scenarios

Shards == {Ring[i] : i \in DOMAIN Ring}

\* A scenario has
\*   op, ordering, peer  the call of the client, and the peer it calls
\*   replicas            the peers that have a replica of a shard
\*   stored              the points at first: id to [vector, payload]
\*   failing             shards that fail at the first try
\*   locked              peers that are locked for writing
\*   reads               reads to compare on local and remote replicas

VARIABLES scenario,
          stores,     \* shard, peer: [points, index] of the replica
          calls,      \* the calls, the one of the client first
          answer,     \* what the client gets: an option of an error, "" if none
          tries,      \* calls of the client so far
          disabled    \* <<shard, peer>>: replicas that a peer has reported

vars == <<scenario, stores, calls, answer, tries, disabled>>

\* bounds: on the calls of a client, and on those that one causes
MaxTries == 2
MaxCalls == 6

\* the points of a batch of a transfer
BatchSize == 1

-----------------------------------------------------------------------------
(* What a shard does with an operation (process_*_operation)               *)

RECURSIVE Holds(_, _, _)
Holds(id, point, c) ==
    LET stored(k) == k \in DOMAIN point.payload
        value(k) == point.payload[k]
    IN CASE c.type = "has_id" -> id \in c.ids
         [] c.type = "is_empty" -> ~stored(c.key) \/ value(c.key).type = "null"
         [] c.type = "is_null" -> stored(c.key) /\ value(c.key).type = "null"
         [] c.type = "field" ->
              /\ stored(c.field.key)
              /\ \/ c.field.match # <<>> /\
                       LET m == c.field.match[1]
                       IN IF m.match = "any" THEN \E x \in ToSet(m.v) : value(c.field.key).v = x
                          ELSE value(c.field.key).v = m.v
                 \/ c.field.geo_radius # <<>> /\ value(c.field.key).v <= c.field.geo_radius[1]
         [] c.type = "filter" ->
              /\ c.should \notin {<<>>, <<<<>>>>} => \E x \in ToSet(c.should[1]) : Holds(id, point, x)
              /\ c.must # <<>> => \A x \in ToSet(c.must[1]) : Holds(id, point, x)
              /\ c.must_not # <<>> => \A x \in ToSet(c.must_not[1]) : ~Holds(id, point, x)

PointsByFilter(store, filter) ==
    {id \in DOMAIN store.points : Holds(id, store.points[id], filter)}

UpsertPoint(points, p) ==
    With(points, p.id :> [vector |-> p.vector.vectors,
                          payload |-> IF p.payload # <<>> THEN p.payload[1]
                                      ELSE IF p.id \in DOMAIN points THEN points[p.id].payload
                                      ELSE EmptyMap])

\* upsert_points: of several points with an id the last counts.
Upsert(points, list) ==
    FoldLeft(LAMBDA done, i : IF \E j \in DOMAIN list : j > i /\ list[j].id = list[i].id
                              THEN done ELSE UpsertPoint(done, list[i]),
             points, [i \in DOMAIN list |-> i])

Without(f, S) == [x \in DOMAIN f \ S |-> f[x]]

\* The points of a payload operation: ids, else filter.
Selected(store, op) ==
    IF op.points # <<>> THEN ToSet(op.points[1]) ELSE PointsByFilter(store, op.filter[1])

\* A payload operation gives the points that exist their new payloads; the others
\* are an error.
OnPayloads(store, ids, new) ==
    [store |-> [store EXCEPT !.points = [i \in DOMAIN store.points |->
                    IF i \in ids THEN [store.points[i] EXCEPT !.payload = new[i]]
                    ELSE store.points[i]]],
     err |-> IF ids \subseteq DOMAIN store.points THEN "" ELSE "PointNotFound"]

\* sync_points: the points of the range that are not in the list go.
SyncPoints(points, op) ==
    LET inRange == {i \in DOMAIN points : /\ op.from_id # <<>> => op.from_id[1] <= i
                                          /\ op.to_id # <<>> => i < op.to_id[1]}
        list == {op.points[i].id : i \in DOMAIN op.points}
    IN Upsert(Without(points, inRange \ list), op.points)

\* Without a schema the index has the type of the values.
CreateIndex(store, op) ==
    LET typed == {i \in DOMAIN store.points : op.field_name \in DOMAIN store.points[i].payload}
        schema == IF op.field_schema # <<>> THEN op.field_schema
                  ELSE IF typed = {} THEN <<>>
                  ELSE <<[type |-> store.points[CHOOSE i \in typed : TRUE].payload[op.field_name].type,
                          params |-> <<>>]>>
    IN IF schema = <<>> THEN [store |-> store, err |-> "BadInput"]
       ELSE [store |-> [store EXCEPT !.index = With(@, op.field_name :> schema[1])], err |-> ""]

Done(store) == [store |-> store, err |-> ""]

Execute(store, op) ==
    LET payloads == [i \in DOMAIN store.points |-> store.points[i].payload]
        cleared == [i \in DOMAIN payloads |-> EmptyMap]
    IN
    CASE op.kind = "upsert" -> Done([store EXCEPT !.points = Upsert(@, op.points)])
      [] op.kind = "upsert_batch" -> Done([store EXCEPT !.points = Upsert(@, PointsOfBatch(op))])
      [] op.kind = "sync" -> Done([store EXCEPT !.points = SyncPoints(@, op)])
      [] op.kind = "delete" -> Done([store EXCEPT !.points = Without(@, ToSet(op.ids))])
      [] op.kind = "delete_by_filter" ->
            Done([store EXCEPT !.points = Without(@, PointsByFilter(store, op.filter))])
      [] op.kind = "set_payload" ->
            OnPayloads(store, Selected(store, op), [i \in DOMAIN payloads |-> With(payloads[i], op.payload)])
      [] op.kind = "overwrite_payload" ->
            OnPayloads(store, Selected(store, op), [i \in DOMAIN payloads |-> op.payload])
      [] op.kind = "delete_payload" ->
            OnPayloads(store, Selected(store, op),
                       [i \in DOMAIN payloads |-> Without(payloads[i], ToSet(op.keys))])
      [] op.kind = "clear_payload" -> OnPayloads(store, ToSet(op.ids), cleared)
      [] op.kind = "clear_payload_by_filter" ->
            OnPayloads(store, PointsByFilter(store, op.filter), cleared)
      [] op.kind = "create_index" -> CreateIndex(store, op)
      [] op.kind = "delete_index" ->
            Done([store EXCEPT !.index = Without(@, {op.field_name})])

-----------------------------------------------------------------------------
(* The parts of an operation                                               *)

IsWriteOperation(op) ==
    op.kind \in {"upsert", "upsert_batch", "sync", "set_payload", "overwrite_payload",
                 "create_index"}

\* CollectionUpdateOperations::validate
Valid(op) ==
    op.kind = "upsert_batch" =>
        /\ \A n \in DOMAIN op.vectors : Len(op.vectors[n]) = Len(op.ids)
        /\ op.payloads # <<>> => Len(op.payloads[1]) = Len(op.ids)

\* The places of the ids of a shard in a batch.
Places(s, ids) == SelectSeq([i \in DOMAIN ids |-> i], LAMBDA i : Ring[ids[i]] = s)

\* split_iter_by_shard, for one shard: the items of the shard, in their order;
\* ids are the ids of the items.
OfShard(s, list, ids) ==
    LET places == Places(s, ids)
    IN [j \in DOMAIN places |-> list[places[j]]]

\* A slip: the payloads are taken from the start of the batch.
SplitBatchIds(s, b) ==
    LET places == Places(s, b.ids)
        pick(column) == [j \in DOMAIN places |-> column[places[j]]]
    IN [b EXCEPT !.ids = pick(@), !.vectors = [n \in DOMAIN @ |-> pick(@[n])]]

SplitBatch(s, b) ==
    LET places == Places(s, b.ids)
        pick(column) == [j \in DOMAIN places |-> column[places[j]]]
    IN [b EXCEPT !.ids = pick(@), !.payloads = MapSeq(pick, @),
                 !.vectors = [n \in DOMAIN @ |-> pick(@[n])]]

\* The part of a shard; <<>> if it has none.
Part(s, op) ==
    LET unlessEmpty(list, part) == IF list = <<>> THEN <<>> ELSE <<part>>
        ids(list) == OfShard(s, list, list)
    IN CASE op.kind = "upsert" ->
              LET own == OfShard(s, op.points, [i \in DOMAIN op.points |-> op.points[i].id])
              IN unlessEmpty(own, [op EXCEPT !.points = own])
         [] op.kind = "upsert_batch" -> unlessEmpty(Places(s, op.ids), SplitBatch(s, op))
         [] op.kind = "sync" -> <<>>
         [] op.kind \in {"delete", "clear_payload"} ->
              unlessEmpty(ids(op.ids), [op EXCEPT !.ids = ids(@)])
         [] op.kind \in {"set_payload", "overwrite_payload", "delete_payload"} ->
              IF op.points # <<>>
              THEN unlessEmpty(ids(op.points[1]), [op EXCEPT !.points = <<ids(@[1])>>])
              ELSE IF op.filter # <<>> THEN <<op>> ELSE <<>>
         [] OTHER -> <<op>>

\* split_by_shard: the shards that get a part, with their parts.
SplitByShard(op) ==
    LET involved == {s \in Shards : Part(s, op) # <<>>} IN [s \in involved |-> Part(s, op)[1]]

-----------------------------------------------------------------------------
(* The calls                                                               *)

Replicas(s) == scenario.replicas[s]
Active(s) == {p \in Replicas(s) : <<s, p>> \notin disabled}

\* A call to a peer, as of a client: parts and results are maps from shards;
\* parent is the call and the shard that a forwarded call is for.
NewCall(peer, op, parent) ==
    [peer |-> peer, op |-> op, parent |-> parent, state |-> "new",
     parts |-> EmptyMap, results |-> EmptyMap]

Init ==
    /\ scenario \in Scenarios
    /\ stores = [s \in Shards |-> [p \in scenario.replicas[s] |->
                    [points |-> [i \in {j \in DOMAIN scenario.stored : Ring[j] = s} |->
                                    scenario.stored[i]],
                     index |-> EmptyMap]]]
    /\ calls = <<>>
    /\ answer = <<>>
    /\ tries = 0
    /\ disabled = {}

\* The client calls, or repeats a call that has failed.
Request ==
    /\ tries < MaxTries
    /\ tries = 0 \/ answer \notin {<<>>, <<"">>}
    /\ calls' = <<NewCall(scenario.peer, scenario.op, <<>>)>>
    /\ answer' = <<>>
    /\ tries' = tries + 1
    /\ UNCHANGED <<scenario, stores, disabled>>

\* TableOfContent::update up to the requests of the shards.
SplitCall(c) ==
    /\ calls[c].state = "new"
    /\ LET call == calls[c]
           parts == SplitByShard(call.op)
           refused(err) == [call EXCEPT !.state = "done", !.results = <<err>>]
       IN calls' = [calls EXCEPT ![c] =
            IF IsWriteOperation(call.op) /\ call.peer \in scenario.locked THEN refused("Locked")
            ELSE IF ~Valid(call.op) THEN refused("BadInput")
            ELSE IF parts = EmptyMap THEN refused("BadRequest")
            ELSE [call EXCEPT !.state = "split", !.parts = parts,
                              !.results = [s \in DOMAIN parts |-> <<>>]]]
    /\ UNCHANGED <<scenario, stores, answer, tries, disabled>>

Leader(s, peer) ==
    CASE scenario.ordering = "weak" -> {peer}
      [] scenario.ordering = "medium" -> {Max(Replicas(s))}
      [] scenario.ordering = "strong" -> IF Active(s) = {} THEN {} ELSE {Max(Active(s))}

Pending(c, s) ==
    /\ calls[c].state = "split"
    /\ s \in DOMAIN calls[c].parts
    /\ calls[c].results[s] = <<>>

\* What a replica does with the part; a remote one gets it as a message.
ReplicaResult(s, p, peer, op) ==
    LET store == stores[s][p]
        decoded == DecodeUpdate(EncodeUpdate(op))
    IN IF s \in scenario.failing /\ tries = 1 THEN [store |-> store, err |-> "ServiceError"]
       ELSE IF p = peer THEN Execute(store, op)
       ELSE IF decoded = <<>> THEN [store |-> store, err |-> "BadInput"]
       ELSE LET r == Execute(store, decoded[1])
            IN [r EXCEPT !.err = IF @ = "" THEN "" ELSE ErrorOverWire(@)]

\* update: the leader has the part executed by all active replicas.
RunPart(c, s) ==
    /\ Pending(c, s)
    /\ Leader(s, calls[c].peer) = {calls[c].peer}
    /\ LET result == [p \in Active(s) |-> ReplicaResult(s, p, calls[c].peer, calls[c].parts[s])]
           failed == {p \in Active(s) : result[p].err # ""}
       IN /\ stores' = [stores EXCEPT ![s] =
                [p \in Replicas(s) |-> IF p \in Active(s) THEN result[p].store ELSE @[p]]]
          /\ IF failed = Active(s)
             THEN /\ \E err \in IF failed = {} THEN {"ServiceError"} ELSE {result[p].err : p \in failed} :
                        calls' = [calls EXCEPT ![c].results[s] = <<err>>]
                  /\ UNCHANGED disabled
             ELSE /\ calls' = [calls EXCEPT ![c].results[s] = <<"">>]
                  /\ disabled' = disabled \cup {<<s, p>> : p \in failed}
    /\ UNCHANGED <<scenario, answer, tries>>

\* forward_update: the part goes to the leader as if a client had sent it.
ForwardPart(c, s) ==
    /\ Pending(c, s)
    /\ calls[c].peer \notin Leader(s, calls[c].peer)
    /\ LET decoded == DecodeUpdate(EncodeUpdate(calls[c].parts[s]))
       IN IF Leader(s, calls[c].peer) = {}
          THEN calls' = [calls EXCEPT ![c].results[s] = <<"ServiceError">>]
          ELSE IF decoded = <<>> THEN calls' = [calls EXCEPT ![c].results[s] = <<"BadInput">>]
          ELSE /\ Len(calls) < MaxCalls
               /\ ~\E d \in DOMAIN calls : calls[d].parent = <<c, s>>
               /\ \E leader \in Leader(s, calls[c].peer) :
                    calls' = Append(calls, NewCall(leader, decoded[1], <<c, s>>))
    /\ UNCHANGED <<scenario, stores, answer, tries, disabled>>

Errors(call) == {call.results[s][1] : s \in DOMAIN call.results} \ {""}

\* The result of a call for whoever called: of several errors the first, of the
\* parts in any order.
Deliver(c, err) ==
    LET parent == calls[c].parent
        seen == IF err = "" THEN "" ELSE ErrorOverWire(err)
    IN IF parent = <<>>
       THEN /\ answer' = <<err>>
            /\ calls' = [calls EXCEPT ![c].state = "delivered"]
            /\ UNCHANGED disabled
       ELSE /\ calls' = [calls EXCEPT ![c].state = "delivered",
                                      ![parent[1]].results[parent[2]] = <<seen>>]
            /\ disabled' = IF seen \in {"ServiceError", "Cancelled"}
                           THEN disabled \cup {<<parent[2], calls[c].peer>>} ELSE disabled
            /\ UNCHANGED answer

\* ForwardProxyShard: the indexes, then the points in batches, each as a message
\* that replaces what the other replica has between two ids.
TransferIndexes(from, to) ==
    LET create(store, f) ==
            Execute(store, DecodeUpdate(EncodeUpdate(
                [kind |-> "create_index", field_name |-> f, field_schema |-> <<from.index[f]>>]))[1]).store
    IN FoldLeft(create, to, SetToSeq(DOMAIN from.index))

RECURSIVE TransferBatches(_, _, _)
TransferBatches(from, to, offset) ==
    LET rest == SetToSortSeq({i \in DOMAIN from.points : offset # <<>> => offset[1] <= i}, <)
        batch == SubSeq(rest, 1, IF Len(rest) > BatchSize THEN BatchSize ELSE Len(rest))
        next == IF Len(rest) > BatchSize THEN <<rest[BatchSize + 1]>> ELSE <<>>
        point(i) == [id |-> i, vector |-> VectorStruct(from.points[i].vector),
                     payload |-> <<from.points[i].payload>>]
        sync == [kind |-> "sync", points |-> MapSeq(point, batch), from_id |-> offset, to_id |-> next]
        done == Execute(to, DecodeUpdate(EncodeUpdate(sync))[1]).store
    IN IF next = <<>> THEN done ELSE TransferBatches(from, done, next)

\* A transfer brings a deactivated replica up to date (see ShardTransfer for the
\* transfer and what may happen during it).
Recover(s, p, q) ==
    /\ p \in Active(s) /\ q \in Replicas(s) \ Active(s)
    /\ stores' = [stores EXCEPT ![s][q] =
            TransferBatches(stores[s][p], TransferIndexes(stores[s][p], @), <<>>)]
    /\ disabled' = disabled \ {<<s, q>>}
    /\ UNCHANGED <<scenario, calls, answer, tries>>

\* The end of update_from_client: all parts have a result.
Collect(c) ==
    /\ calls[c].state = "split"
    /\ \A s \in DOMAIN calls[c].parts : calls[c].results[s] # <<>>
    /\ IF Errors(calls[c]) = {} THEN Deliver(c, "")
       ELSE \E err \in Errors(calls[c]) : Deliver(c, err)
    /\ UNCHANGED <<scenario, stores, tries>>

\* The call was refused before it was split.
Refuse(c) ==
    /\ calls[c].state = "done"
    /\ Deliver(c, calls[c].results[1])
    /\ UNCHANGED <<scenario, stores, tries>>

Next ==
    \/ Request
    \/ \E c \in DOMAIN calls : SplitCall(c)
    \/ \E c \in DOMAIN calls : \E s \in Shards : RunPart(c, s)
    \/ \E c \in DOMAIN calls : \E s \in Shards : ForwardPart(c, s)
    \/ \E c \in DOMAIN calls : Collect(c)
    \/ \E c \in DOMAIN calls : Refuse(c)
    \/ \E s \in Shards : \E p, q \in Replicas(s) : Recover(s, p, q)

Spec == Init /\ [][Next]_vars

-----------------------------------------------------------------------------
(* What a shard answers to a read, and what another peer gets of it        *)

SelectPayload(payload, w) ==
    CASE w.of = "bool" -> payload
      [] w.of \in {"fields", "include"} -> Without(payload, DOMAIN payload \ ToSet(w.v))
      [] w.of = "exclude" -> Without(payload, ToSet(w.v))

SelectVectors(vectors, w) ==
    IF w.of = "bool" THEN vectors ELSE Without(vectors, DOMAIN vectors \ ToSet(w.v))

RecordOf(store, id, r) ==
    [id |-> id,
     payload |-> IF PayloadRequired(r)
                 THEN <<SelectPayload(store.points[id].payload, r.with_payload[1])>> ELSE <<>>,
     vector |-> IF VectorRequired(r)
                THEN <<VectorStruct(SelectVectors(store.points[id].vector, r.with_vector[1]))>>
                ELSE <<>>]

\* search, scroll_by, count and retrieve of a local shard
Matching(store, filter) ==
    IF filter = <<>> THEN DOMAIN store.points ELSE PointsByFilter(store, filter[1])

Take(list, n) == SubSeq(list, 1, IF n < Len(list) THEN n ELSE Len(list))

Records(store, r, ids) == MapSeq(LAMBDA id : RecordOf(store, id, r), ids)

SearchShard(store, r) ==
    LET score(id) == store.points[id].vector[r.name]
        found == {id \in Matching(store, r.filter) : r.name \in DOMAIN store.points[id].vector}
    IN Records(store, r, Take(SetToSortSeq(found, LAMBDA a, b : score(a) > score(b)),
                              r.limit + r.offset[1]))

ScrollShard(store, r) ==
    Records(store, r,
            Take(SetToSortSeq({id \in Matching(store, r.filter) : r.offset # <<>> => r.offset[1] <= id}, <),
                 r.limit))

ReadShard(store, r) ==
    CASE r.kind = "search" -> SearchShard(store, r)
      [] r.kind = "scroll" -> ScrollShard(store, r)
      [] r.kind = "count" -> <<Cardinality(Matching(store, r.filter))>>
      [] r.kind = "get" -> Records(store, r, SetToSortSeq(ToSet(r.ids) \cap DOMAIN store.points, <))

\* The same read by way of another peer.
ReadRemote(store, r) ==
    LET answered == ReadShard(store, DecodeRead(EncodeRead(r)))
    IN IF r.kind = "count" THEN answered
       ELSE MapSeq(LAMBDA rec : RecordFromGrpc(RecordToGrpc(rec), PayloadRequired(r)), answered)

-----------------------------------------------------------------------------
(* Properties                                                              *)

\* The effect of the operation on the points of all shards.
Whole == Execute([points |-> scenario.stored, index |-> EmptyMap], scenario.op)

\* The answer shows one error of several, so that a service error may be behind another.
NoPartFailed ==
    \A c \in DOMAIN calls : \A s \in DOMAIN calls[c].parts : calls[c].results[s] # <<"ServiceError">>

\* The parts of an operation do together what the operation does to one store that
\* has all points: whatever peers split, encoded, forwarded and decoded it, on
\* whatever replica, and also if the client repeats it after some of its parts have
\* failed (split_by_shard, update_with_consistency, execute_update_operation).  It is
\* false of operations that a message does not carry as they are.
ShardsAreAlwaysOneStore ==
    answer # <<>> /\ answer # <<"Locked">> /\ NoPartFailed /\ Valid(scenario.op) =>
        /\ \A s \in Shards : \A p \in Active(s) :
             stores[s][p] = [points |-> Without(Whole.store.points,
                                                {i \in DOMAIN Ring : Ring[i] # s}),
                             index |-> Whole.store.index]
        /\ answer[1] \in {"", "BadRequest"} <=> Whole.err = ""

\* A message cannot carry integers that are no i64 and radii that are no f32, ...
PrecisePayload(payload) ==
    \A k \in DOMAIN payload : payload[k].type = "integer" => payload[k].v <= MaxInteger
RECURSIVE PreciseCondition(_)
PreciseCondition(c) ==
    CASE c.type = "field" -> \A i \in DOMAIN c.field.geo_radius : Rounded(c.field.geo_radius[i]) = c.field.geo_radius[i]
      [] c.type = "filter" -> \A list \in {c.should, c.must, c.must_not} : \A i \in DOMAIN list :
                                \A x \in ToSet(list[i]) : PreciseCondition(x)
      [] OTHER -> TRUE
\* ... a point without a payload (it arrives with an empty one, which replaces that of
\* a stored point), and an index without a schema (the handler refuses it).
Written(op) == IF op.kind = "upsert_batch" THEN PointsOfBatch(op) ELSE op.points
Carried(op) ==
    CASE op.kind \in {"upsert", "upsert_batch"} ->
            \A p \in ToSet(Written(op)) :
                IF p.payload = <<>> THEN p.id \notin DOMAIN scenario.stored ELSE PrecisePayload(p.payload[1])
      [] op.kind \in {"set_payload", "overwrite_payload"} ->
            PrecisePayload(op.payload) /\ \A f \in ToSet(op.filter) : PreciseCondition(f)
      [] op.kind = "delete_payload" -> \A f \in ToSet(op.filter) : PreciseCondition(f)
      [] op.kind \in {"delete_by_filter", "clear_payload_by_filter"} -> PreciseCondition(op.filter)
      [] op.kind = "create_index" -> op.field_schema # <<>>
      [] OTHER -> TRUE

\* It is true of all others.
ShardsAreOneStore == Valid(scenario.op) /\ Carried(scenario.op) => ShardsAreAlwaysOneStore

RECURSIVE Callers(_)
Callers(c) ==
    IF calls[c].parent = <<>> THEN {} ELSE {calls[c].parent[1]} \cup Callers(calls[c].parent[1])

\* An update that peers forward never comes back to a peer that waits for it.  It is
\* false of operations on every shard when the shards have different leaders: a leader
\* splits again what is forwarded to it, and forwards the part of the other shard.
NobodyEverWaitsForItself ==
    \A c \in DOMAIN calls : \A d \in Callers(c) : calls[c].peer # calls[d].peer

\* It is true of all others.
OnEveryShard(op) == Valid(op) /\ \A s \in Shards : Part(s, op) = <<op>>
SameLeaders == \A s, t \in Shards : scenario.replicas[s] = scenario.replicas[t]
NobodyWaitsForItself ==
    scenario.ordering = "weak" \/ SameLeaders \/ ~ OnEveryShard(scenario.op) => NobodyEverWaitsForItself

\* A replica is deactivated for a failure of its shard, never because an operation
\* was refused or did not find its points (handle_failed_replicas, and the error
\* of forward_update, across two conversions of errors).  It is false: a leader that
\* is locked for writing answers with a status that counts as a service error, and
\* a replica refuses the message for an index without a schema.
BlamedIsAlwaysDue == \A d \in disabled : d[1] \in scenario.failing

\* These are the only other reasons (a leader may also be blamed for a locked one to
\* which it forwarded the operation in turn).
BlamedWhenDue ==
    \A d \in disabled :
        \/ d[1] \in scenario.failing
        \/ scenario.locked # {} /\ IsWriteOperation(scenario.op) /\ scenario.ordering # "weak"
        \/ scenario.op.kind = "create_index" /\ scenario.op.field_schema = <<>>

\* A read that another peer answers has the result it has on a local replica
\* (RemoteShard::search, scroll_by, retrieve and count).  It is false of numbers that
\* a message does not carry.
RemoteReadsAreAlwaysAlike ==
    \A r \in scenario.reads : \A s \in Shards : \A p \in Active(s) :
        ReadRemote(stores[s][p], r) = ReadShard(stores[s][p], r)

\* It is true of all others.
RemoteReadsAlike ==
    \A r \in scenario.reads : \A s \in Shards : \A p \in Active(s) :
        LET points == stores[s][p].points
        IN  (/\ \A f \in ToSet(r.filter) : PreciseCondition(f)
             /\ \A i \in DOMAIN points : PrecisePayload(points[i].payload))
            => ReadRemote(stores[s][p], r) = ReadShard(stores[s][p], r)

=============================================================================
