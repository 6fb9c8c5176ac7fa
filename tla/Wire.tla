-------------------------------- MODULE Wire --------------------------------
(***************************************************************************)
(* How an update or a read travels from one peer to another: the gRPC      *)
(* message a RemoteShard makes of it, the operation that the handler of    *)
(* the other peer makes of the message, and how an answer or an error      *)
(* comes back.  An option is a sequence of length 0 or 1, a map a function *)
(* and a JSON value a record with a type.  Decode* return an option: a     *)
(* message that the handler refuses (InvalidArgument) is <<>>.             *)
(***************************************************************************)
EXTENDS Integers, Sequences, FiniteSets, SequencesExt

CONSTANTS MaxInteger,   \* largest JSON number that is an i64 (larger ones are u64)
          Grain         \* distance of the f32 numbers around a radius

EmptyMap == [k \in {} |-> 0]

MapSeq(F(_), s) == [i \in DOMAIN s |-> F(s[i])]

-----------------------------------------------------------------------------
(* Payloads                                                                *)

RECURSIVE JsonToProto(_)
JsonToProto(j) ==
    CASE j.type = "null" -> [kind |-> "null_value"]
      [] j.type = "bool" -> [kind |-> "bool_value", v |-> j.v]
      [] j.type = "integer" /\ j.v <= MaxInteger -> [kind |-> "integer_value", v |-> j.v]
      [] j.type = "integer" -> [kind |-> "double_value", v |-> j.v - (j.v % 2)]
      [] j.type = "float" -> [kind |-> "double_value", v |-> j.v]
      [] j.type = "string" -> [kind |-> "string_value", v |-> j.v]
      [] j.type = "array" -> [kind |-> "list_value", v |-> MapSeq(JsonToProto, j.v)]
      [] j.type = "object" ->
            [kind |-> "struct_value", v |-> [k \in DOMAIN j.v |-> JsonToProto(j.v[k])]]

RECURSIVE ProtoToJson(_)
ProtoToJson(p) ==
    CASE p.kind = "null_value" -> [type |-> "null"]
      [] p.kind = "bool_value" -> [type |-> "bool", v |-> p.v]
      [] p.kind = "integer_value" -> [type |-> "integer", v |-> p.v]
      [] p.kind = "double_value" -> [type |-> "float", v |-> p.v]
      [] p.kind = "string_value" -> [type |-> "string", v |-> p.v]
      [] p.kind = "list_value" -> [type |-> "array", v |-> MapSeq(ProtoToJson, p.v)]
      [] p.kind = "struct_value" ->
            [type |-> "object", v |-> [k \in DOMAIN p.v |-> ProtoToJson(p.v[k])]]

PayloadToProto(payload) == [k \in DOMAIN payload |-> JsonToProto(payload[k])]
ProtoToPayloads(proto) == [k \in DOMAIN proto |-> ProtoToJson(proto[k])]

-----------------------------------------------------------------------------
(* Filters: should, must and must_not are options of sequences             *)

MatchToGrpc(m) ==
    CASE m.match = "value" -> [match_value |-> m.of, v |-> m.v]
      [] m.match = "text" -> [match_value |-> "text", v |-> m.v]
      [] m.match = "any" -> [match_value |-> IF m.of = "keyword" THEN "keywords" ELSE "integers",
                             v |-> m.v]

MatchFromGrpc(g) ==
    CASE g.match_value \in {"keyword", "integer", "bool"} ->
            [match |-> "value", of |-> g.match_value, v |-> g.v]
      [] g.match_value = "text" -> [match |-> "text", of |-> "keyword", v |-> g.v]
      [] g.match_value = "keywords" -> [match |-> "any", of |-> "keyword", v |-> g.v]
      [] g.match_value = "integers" -> [match |-> "any", of |-> "integer", v |-> g.v]

\* as f32
Rounded(radius) == radius - (radius % Grain)

FieldToGrpc(c) ==
    [key |-> c.key, match |-> MapSeq(MatchToGrpc, c.match), range |-> c.range,
     geo_bounding_box |-> c.geo_bounding_box, geo_radius |-> MapSeq(Rounded, c.geo_radius),
     values_count |-> c.values_count]

FieldFromGrpc(g) == [g EXCEPT !.match = MapSeq(MatchFromGrpc, @)]

ConditionsFromGrpc(conditions) == IF conditions = <<>> THEN <<>> ELSE <<conditions>>
ConditionsToGrpc(conditions) == IF conditions = <<>> THEN <<>> ELSE conditions[1]

RECURSIVE ConditionToGrpc(_)
ConditionToGrpc(c) ==
    CASE c.type = "field" -> [c EXCEPT !.field = FieldToGrpc(@)]
      [] c.type = "has_id" -> [c EXCEPT !.ids = SetToSeq(@)]
      [] c.type = "filter" ->
            [type |-> "filter",
             should |-> MapSeq(ConditionToGrpc, ConditionsToGrpc(c.should)),
             must |-> MapSeq(ConditionToGrpc, ConditionsToGrpc(c.must)),
             must_not |-> MapSeq(ConditionToGrpc, ConditionsToGrpc(c.must_not))]
      [] OTHER -> [type |-> c.type, key |-> c.key]

RECURSIVE ConditionFromGrpc(_)
ConditionFromGrpc(g) ==
    CASE g.type = "field" -> [g EXCEPT !.field = FieldFromGrpc(@)]
      [] g.type = "has_id" -> [g EXCEPT !.ids = ToSet(@)]
      [] g.type = "filter" ->
            [type |-> "filter",
             should |-> ConditionsFromGrpc(MapSeq(ConditionFromGrpc, g.should)),
             must |-> ConditionsFromGrpc(MapSeq(ConditionFromGrpc, g.must)),
             must_not |-> ConditionsFromGrpc(MapSeq(ConditionFromGrpc, g.must_not))]
      [] OTHER -> [type |-> g.type, key |-> g.key]

\* A filter is the condition of type "filter".
FilterToGrpc(filter) == ConditionToGrpc(filter)
FilterFromGrpc(filter) == ConditionFromGrpc(filter)

-----------------------------------------------------------------------------
(* Points.  A VectorStruct is [single, vectors]: a map from names, of which *)
(* a single vector has only the default one.                               *)

DefaultVectorName == ""

VectorStruct(vectors) ==
    [single |-> DOMAIN vectors = {DefaultVectorName}, vectors |-> vectors]

\* transpose_map_into_named_vector, for the i-th point
NamedVectors(columns, i) == [n \in DOMAIN columns |-> columns[n][i]]

\* The points of a batch (into_all_vectors, and the zip with the payloads).
PointsOfBatch(b) ==
    [i \in DOMAIN b.ids |->
       [id |-> b.ids[i], vector |-> VectorStruct(NamedVectors(b.vectors, i)),
        payload |-> IF b.payloads = <<>> THEN <<>> ELSE b.payloads[1][i]]]

\* A message cannot tell a point without payload from one with an empty payload.
PointToGrpc(p) ==
    [id |-> p.id, vectors |-> <<p.vector>>,
     payload |-> IF p.payload = <<>> THEN EmptyMap ELSE PayloadToProto(p.payload[1])]

PointFromGrpc(g) ==
    [id |-> g.id, vector |-> g.vectors[1], payload |-> <<ProtoToPayloads(g.payload)>>]

-----------------------------------------------------------------------------
(* Updates                                                                 *)

IdsSelector(ids) == [one_of |-> "points", ids |-> ids]
FilterSelector(filter) == [one_of |-> "filter", filter |-> FilterToGrpc(filter)]

\* the ids before the filter
SelectorOf(op) ==
    IF op.points # <<>> THEN <<IdsSelector(op.points[1])>> ELSE MapSeq(FilterSelector, op.filter)

\* internal_*: the messages.
InternalUpsertPoints(points) == [method |-> "upsert", points |-> MapSeq(PointToGrpc, points)]

InternalSyncPoints(op) ==
    [method |-> "sync", points |-> MapSeq(PointToGrpc, op.points),
     from_id |-> op.from_id, to_id |-> op.to_id]

InternalDeletePoints(ids) == [method |-> "delete", points |-> <<IdsSelector(ids)>>]

InternalDeletePointsByFilter(filter) ==
    [method |-> "delete", points |-> <<FilterSelector(filter)>>]

InternalSetPayload(op) ==
    [method |-> op.kind, payload |-> PayloadToProto(op.payload), points_selector |-> SelectorOf(op)]

InternalDeletePayload(op) ==
    [method |-> "delete_payload", keys |-> op.keys, points_selector |-> SelectorOf(op)]

InternalClearPayload(ids) == [method |-> "clear_payload", points |-> <<IdsSelector(ids)>>]

InternalClearPayloadByFilter(filter) ==
    [method |-> "clear_payload", points |-> <<FilterSelector(filter)>>]

InternalCreateIndex(op) ==
    [method |-> "create_field_index", field_name |-> op.field_name,
     field_type |-> MapSeq(LAMBDA s : s.type, op.field_schema),
     field_index_params |-> IF op.field_schema = <<>> THEN <<>> ELSE op.field_schema[1].params]

InternalDeleteIndex(op) == [method |-> "delete_field_index", field_name |-> op.field_name]

\* execute_update_operation: the message for an operation.
EncodeUpdate(op) ==
    CASE op.kind = "upsert" -> InternalUpsertPoints(op.points)
      [] op.kind = "upsert_batch" -> InternalUpsertPoints(PointsOfBatch(op))
      [] op.kind = "sync" -> InternalSyncPoints(op)
      [] op.kind = "delete" -> InternalDeletePoints(op.ids)
      [] op.kind = "delete_by_filter" -> InternalDeletePointsByFilter(op.filter)
      [] op.kind \in {"set_payload", "overwrite_payload"} -> InternalSetPayload(op)
      [] op.kind = "delete_payload" -> InternalDeletePayload(op)
      [] op.kind = "clear_payload" -> InternalClearPayload(op.ids)
      [] op.kind = "clear_payload_by_filter" -> InternalClearPayloadByFilter(op.filter)
      [] op.kind = "create_index" -> InternalCreateIndex(op)
      [] op.kind = "delete_index" -> InternalDeleteIndex(op)

\* The operation that a selector of the message stands for.
BySelector(selector, byIds, byFilter) ==
    IF selector.one_of = "points" THEN [kind |-> byIds, ids |-> selector.ids]
    ELSE [kind |-> byFilter, filter |-> FilterFromGrpc(selector.filter)]

PayloadOp(kind, selector) ==
    [kind |-> kind,
     points |-> IF selector.one_of = "points" THEN <<selector.ids>> ELSE <<>>,
     filter |-> IF selector.one_of = "filter" THEN <<FilterFromGrpc(selector.filter)>> ELSE <<>>]

\* With the fields of g.
With(f, g) == [x \in DOMAIN f \cup DOMAIN g |-> IF x \in DOMAIN g THEN g[x] ELSE f[x]]

\* The type of the index, and its parameters when it is a text index with some.
SchemaFromGrpc(msg) ==
    IF msg.field_index_params # <<>> /\ msg.field_type # <<"text">> THEN <<>>
    ELSE <<[type |-> msg.field_type[1], params |-> msg.field_index_params]>>

\* The handlers of the messages (points_common): the operation, as an option; no
\* operation is an invalid argument.
UpsertHandler(msg) == <<[kind |-> "upsert", points |-> MapSeq(PointFromGrpc, msg.points)]>>

SyncHandler(msg) ==
    <<[kind |-> "sync", points |-> MapSeq(PointFromGrpc, msg.points),
       from_id |-> msg.from_id, to_id |-> msg.to_id]>>

DeleteHandler(msg) == <<BySelector(msg.points[1], "delete", "delete_by_filter")>>

SetPayloadHandler(msg) ==
    IF msg.points_selector = <<>> THEN <<>>
    ELSE <<With(PayloadOp("set_payload", msg.points_selector[1]),
                [payload |-> ProtoToPayloads(msg.payload)])>>

OverwritePayloadHandler(msg) ==
    IF msg.points_selector = <<>> THEN <<>>
    ELSE <<With(PayloadOp("overwrite_payload", msg.points_selector[1]),
                [payload |-> ProtoToPayloads(msg.payload)])>>

DeletePayloadHandler(msg) ==
    IF msg.points_selector = <<>> THEN <<>>
    ELSE <<With(PayloadOp("delete_payload", msg.points_selector[1]), [keys |-> msg.keys])>>

ClearPayloadHandler(msg) ==
    <<BySelector(msg.points[1], "clear_payload", "clear_payload_by_filter")>>

CreateFieldIndexHandler(msg) ==
    IF msg.field_type = <<>> \/ SchemaFromGrpc(msg) = <<>> THEN <<>>
    ELSE <<[kind |-> "create_index", field_name |-> msg.field_name,
            field_schema |-> SchemaFromGrpc(msg)]>>

DeleteFieldIndexHandler(msg) == <<[kind |-> "delete_index", field_name |-> msg.field_name]>>

\* PointsInternalService
DecodeUpdate(msg) ==
    CASE msg.method = "upsert" -> UpsertHandler(msg)
      [] msg.method = "sync" -> SyncHandler(msg)
      [] msg.method = "delete" -> DeleteHandler(msg)
      [] msg.method = "set_payload" -> SetPayloadHandler(msg)
      [] msg.method = "overwrite_payload" -> OverwritePayloadHandler(msg)
      [] msg.method = "delete_payload" -> DeletePayloadHandler(msg)
      [] msg.method = "clear_payload" -> ClearPayloadHandler(msg)
      [] msg.method = "create_field_index" -> CreateFieldIndexHandler(msg)
      [] msg.method = "delete_field_index" -> DeleteFieldIndexHandler(msg)

-----------------------------------------------------------------------------
(* Reads: [kind, name, filter, limit, offset, ids, with_payload, with_vector], *)
(* of which a kind uses some.  with_payload is an option of [of, v], where of  *)
(* is "bool", "fields", "include" or "exclude"; with_vector of [of, v], where  *)
(* of is "bool" or "selector".                                                 *)

WithPayloadToGrpc(w) == [option |-> CASE w.of = "bool" -> "enable" [] w.of = "fields" -> "include"
                                      [] OTHER -> w.of,
                         v |-> w.v]
WithPayloadFromGrpc(g) == [of |-> IF g.option = "enable" THEN "bool" ELSE g.option, v |-> g.v]

WithVectorToGrpc(w) == [option |-> IF w.of = "bool" THEN "enable" ELSE "include", v |-> w.v]
WithVectorFromGrpc(g) == [of |-> IF g.option = "enable" THEN "bool" ELSE "selector", v |-> g.v]

\* WithVector::default
NoVector == [of |-> "bool", v |-> FALSE]

\* The messages of RemoteShard, and what the handlers of the other peer make of them.
VectorName(name) == IF name = DefaultVectorName THEN <<>> ELSE <<name>>

EncodeSearch(r) ==
    [method |-> "search", vector_name |-> VectorName(r.name),
     filter |-> MapSeq(FilterToGrpc, r.filter), limit |-> r.limit, offset |-> r.offset,
     with_payload |-> MapSeq(WithPayloadToGrpc, r.with_payload),
     with_vectors |-> MapSeq(WithVectorToGrpc, r.with_vector)]

EncodeScroll(r) ==
    [method |-> "scroll", filter |-> MapSeq(FilterToGrpc, r.filter), limit |-> r.limit,
     offset |-> r.offset, with_payload |-> MapSeq(WithPayloadToGrpc, r.with_payload),
     with_vectors |-> MapSeq(WithVectorToGrpc, r.with_vector)]

EncodeCount(r) == [method |-> "count", filter |-> MapSeq(FilterToGrpc, r.filter)]

EncodeRetrieve(r) ==
    [method |-> "get", ids |-> r.ids, with_payload |-> MapSeq(WithPayloadToGrpc, r.with_payload),
     with_vectors |-> MapSeq(WithVectorToGrpc, r.with_vector)]

EncodeRead(r) ==
    CASE r.kind = "search" -> EncodeSearch(r)
      [] r.kind = "scroll" -> EncodeScroll(r)
      [] r.kind = "count" -> EncodeCount(r)
      [] r.kind = "get" -> EncodeRetrieve(r)

\* The vectors of a message, none if it does not say.
WithVectors(msg) ==
    IF msg.with_vectors = <<>> THEN <<NoVector>> ELSE MapSeq(WithVectorFromGrpc, msg.with_vectors)

SearchHandler(msg) ==
    [kind |-> "search",
     name |-> IF msg.vector_name = <<>> THEN DefaultVectorName ELSE msg.vector_name[1],
     filter |-> MapSeq(FilterFromGrpc, msg.filter), limit |-> msg.limit, offset |-> msg.offset,
     with_payload |-> MapSeq(WithPayloadFromGrpc, msg.with_payload),
     with_vector |-> WithVectors(msg)]

ScrollHandler(msg) ==
    [kind |-> "scroll", filter |-> MapSeq(FilterFromGrpc, msg.filter), limit |-> msg.limit,
     offset |-> msg.offset, with_payload |-> MapSeq(WithPayloadFromGrpc, msg.with_payload),
     with_vector |-> WithVectors(msg)]

CountHandler(msg) == [kind |-> "count", filter |-> MapSeq(FilterFromGrpc, msg.filter)]

GetHandler(msg) ==
    [kind |-> "get", ids |-> msg.ids, with_payload |-> MapSeq(WithPayloadFromGrpc, msg.with_payload),
     with_vector |-> WithVectors(msg)]

DecodeRead(msg) ==
    CASE msg.method = "search" -> SearchHandler(msg)
      [] msg.method = "scroll" -> ScrollHandler(msg)
      [] msg.method = "count" -> CountHandler(msg)
      [] msg.method = "get" -> GetHandler(msg)

\* is_required, and is_some of the vector
PayloadRequired(r) ==
    r.with_payload # <<>> /\ (r.with_payload[1].of = "bool" => r.with_payload[1].v)
VectorRequired(r) ==
    r.with_vector # <<>> /\ (r.with_vector[1].of = "bool" => r.with_vector[1].v)

RecordToGrpc(rec) ==
    [id |-> rec.id, payload |-> IF rec.payload = <<>> THEN EmptyMap
                                ELSE PayloadToProto(rec.payload[1]),
     vectors |-> rec.vector]

\* try_record_from_grpc, try_scored_point_from_grpc
RecordFromGrpc(g, withPayload) ==
    [id |-> g.id, payload |-> IF withPayload THEN <<ProtoToPayloads(g.payload)>> ELSE <<>>,
     vector |-> g.vectors]

-----------------------------------------------------------------------------
(* Errors: the CollectionError that a peer sees for one of another peer.   *)
(* "Locked" is the StorageError of a peer that is locked for writing.      *)

StorageErrorOf(err) ==
    CASE err \in {"BadRequest", "BadShardSelection"} -> "BadRequest"
      [] err \in {"NotFound", "PointNotFound"} -> "NotFound"
      [] err \in {"ServiceError", "Cancelled"} -> "ServiceError"
      [] OTHER -> err

StatusOf(storageError) ==
    CASE storageError \in {"BadInput", "BadRequest"} -> "InvalidArgument"
      [] storageError = "NotFound" -> "NotFound"
      [] storageError = "ServiceError" -> "Internal"
      [] storageError = "Locked" -> "FailedPrecondition"

\* A slip: what is not found at the other peer is a failure of that peer.
ErrorOfEveryStatus(status) == IF status = "InvalidArgument" THEN "BadInput" ELSE "ServiceError"

ErrorOfStatus(status) ==
    CASE status \in {"InvalidArgument", "AlreadyExists"} -> "BadInput"
      [] status = "NotFound" -> "NotFound"
      [] OTHER -> "ServiceError"

ErrorOverWire(err) == ErrorOfStatus(StatusOf(StorageErrorOf(err)))

=============================================================================
