----------------------------- MODULE PayloadIndex -----------------------------
(***************************************************************************)
(* StructPayloadIndex: the payload storage of a segment and the indexes of *)
(* its fields.  Both write columns of a database where a put is in memory  *)
(* until the column is flushed, a delete is durable at once, and so is the *)
(* creation of a column.  The operations of the shard's log that no        *)
(* finished flush covers are applied again after a crash.                  *)
(***************************************************************************)
EXTENDS FieldIndexes

\* The worlds to explore: the schemas to start with, the operations, the bound
\* on the length of the log, whether the process crashes, the filters asked.
CONSTANT Scenarios

VARIABLES scenario,
          stored,      \* the payload column in memory: an optional map per point
          storedDisk,  \* ... and on disk
          live,        \* the points the id tracker maps; its deletes are durable
          versions,    \* the version of each point: the last operation on it
          versionsDisk,
          version,     \* the version of the segment
          versionDisk, \* ... in its state file
          config,      \* the indexed fields and their schemas, in memory
          configDisk,  \* ... in the config file
          indexes,     \* the indexes of each field
          columns,     \* the records of each index column on disk
          error,       \* error_status: the operation that failed, and its point
          failed,      \* failed_operation of the shard
          log,         \* the operations of the shard's log
          applied,     \* how many of them the update worker has handled
          loadTo,      \* how many of them were there when the shard was opened
          saved,       \* the operations before this one are no longer needed
          flush,       \* the flush under way: the columns left and what it covers
          recovery,    \* the next operation try_recover applies, 0 outside it
          failures,    \* the service errors so far
          overtaken    \* history: with its error recovered, the segment took an operation before an earlier one

segment == <<stored, storedDisk, live, versions, versionsDisk, version, versionDisk, config, configDisk,
             indexes, columns, error>>
vars == <<scenario, segment, failed, log, applied, loadTo, saved, flush, recovery, failures, overtaken>>

PayloadColumn == <<"payload">>
\* The column family of an index: keyword and integer maps share a name.
ColumnOf(field, kind) ==
    <<field, CASE kind \in {"keyword", "int_map"} -> "map"
               [] kind \in {"int", "float"}       -> "numeric"
               [] OTHER                           -> kind>>
NoFlush == [left |-> {}, upTo |-> 0, stage |-> "idle"]
NoError == [version |-> 0, point |-> NoOption]

PayloadAt(p) == IF stored[p] = NoOption THEN NoMap ELSE stored[p][1]

-----------------------------------------------------------------------------
(* Building and loading the indexes of a field from a payload storage.     *)
BuildFieldIndexes(field, schema, payloads) ==
    [i \in DOMAIN IndexSelector(schema) |->
        FoldSet(LAMBDA p, ix : AddPoint(ix, p, GetValue(field, payloads[p][1])),
                NewIndex(IndexSelector(schema)[i]),
                {p \in Offsets : payloads[p] # NoOption})]

\* load_from_db: from the columns when they all exist, else built anew.
HasColumns(field, schema, cols) ==
    \A k \in Range(IndexSelector(schema)) : ColumnOf(field, k) \in DOMAIN cols
LoadFromDb(field, schema, cols, payloads) ==
    IF HasColumns(field, schema, cols)
    THEN [i \in DOMAIN IndexSelector(schema) |->
            LET kind == IndexSelector(schema)[i] IN LoadIndex(kind, cols[ColumnOf(field, kind)])]
    ELSE BuildFieldIndexes(field, schema, payloads)

\* recreate: the column exists, and is empty on disk.
Recreate(cols, field, schema) ==
    LET names == {ColumnOf(field, k) : k \in Range(IndexSelector(schema))}
    IN  [c \in DOMAIN cols \cup names |-> IF c \in names THEN {} ELSE cols[c]]

\* load_all_fields, at open and after a wipe.
LoadAllFields(schemas, cols, payloads) ==
    [f \in DOMAIN schemas |-> LoadFromDb(f, schemas[f], cols, payloads)]
ColumnsAfterLoad(schemas, cols) ==
    FoldSet(LAMBDA f, c : IF HasColumns(f, schemas[f], c) THEN c ELSE Recreate(c, f, schemas[f]),
            cols, DOMAIN schemas)

-----------------------------------------------------------------------------
(* The operations: what they leave of the state s, a record of the         *)
(* variables they may change.  Drop takes a point out of the index of a    *)
(* field and its records off the disk.                                     *)
DeleteRecords(cols, names, p) ==
    [c \in DOMAIN cols |-> IF c \in names THEN {r \in cols[c] : r[2] # p} ELSE cols[c]]
NamesOf(ixs, field) == {ColumnOf(field, ixs[field][i].kind) : i \in DOMAIN ixs[field]}

\* The payload storage: a put waits for the flush, a delete does not.
StoreAssign(s, p, map) == [s EXCEPT !.stored[p] = IF @ = NoOption THEN <<map>> ELSE <<Merge(@[1], map)>>]
StoreDrop(s, p) == [s EXCEPT !.stored[p] = NoOption, !.storedDisk[p] = NoOption]
StoreWipe(s) == [s EXCEPT !.stored = [p \in Offsets |-> NoOption], !.storedDisk = [p \in Offsets |-> NoOption]]

\* StructPayloadIndex::assign
Assign(s, p, map) ==
    LET next == [f \in DOMAIN s.indexes |->
                    [i \in DOMAIN s.indexes[f] |-> AddPoint(s.indexes[f][i], p, GetValue(f, map))]]
        forgotten == UNION {{ColumnOf(f, s.indexes[f][i].kind) :
                               i \in {i \in DOMAIN s.indexes[f] :
                                        Indexable(s.indexes[f][i].kind, GetValue(f, map))}} :
                               f \in DOMAIN s.indexes}
    IN  [StoreAssign(s, p, map) EXCEPT !.indexes = next, !.columns = DeleteRecords(@, forgotten, p)]

\* StructPayloadIndex::drop
Drop(s, p) ==
    [StoreDrop(s, p) EXCEPT
        !.indexes = [f \in DOMAIN @ |-> [i \in DOMAIN @[f] |-> ForgetPoint(@[f][i], p)]],
        !.columns = DeleteRecords(@, UNION {NamesOf(s.indexes, f) : f \in DOMAIN s.indexes}, p)]

AssignAll(s, p, map) == Assign(Drop(s, p), p, map)

\* StructPayloadIndex::delete: only the index of exactly this key.
DeleteStored(s, p, key) ==
    IF s.stored[p] = NoOption THEN s ELSE [s EXCEPT !.stored[p] = <<RemoveValue(key, @[1]).map>>]
DeleteKey(s, p, key) ==
    LET emptied == IF key \notin DOMAIN s.indexes THEN s
                   ELSE [s EXCEPT !.indexes[key] = [i \in DOMAIN @ |-> ForgetPoint(@[i], p)],
                                  !.columns = DeleteRecords(@, NamesOf(s.indexes, key), p)]
    IN  DeleteStored(emptied, p, key)

\* set_indexed: nothing but the schema in memory when the field is indexed.
SetIndexed(s, field, schema) ==
    LET with == (field :> schema) @@ s.config
    IN  IF field \in DOMAIN s.config THEN [s EXCEPT !.config = with]
        ELSE [s EXCEPT !.config = with, !.configDisk = with,
                       !.indexes = (field :> BuildFieldIndexes(field, schema, s.stored)) @@ @,
                       !.columns = Recreate(@, field, schema)]

\* drop_index: the column stays.
DropIndex(s, field) ==
    LET rest == Without(s.config, field)
    IN  [s EXCEPT !.config = rest, !.configDisk = rest, !.indexes = Without(@, field)]

\* wipe: the payloads go; geo and text columns are removed, the others emptied.
Wipe(s) ==
    LET gone == UNION {{ColumnOf(f, s.indexes[f][i].kind) :
                          i \in {i \in DOMAIN s.indexes[f] : s.indexes[f][i].kind \in {"geo", "text"}}} :
                          f \in DOMAIN s.indexes}
        all  == UNION {NamesOf(s.indexes, f) : f \in DOMAIN s.indexes}
        cols == [c \in DOMAIN s.columns \ gone |-> IF c \in all THEN {} ELSE s.columns[c]]
        wiped == StoreWipe(s)
    IN  [wiped EXCEPT !.indexes = LoadAllFields(s.config, cols, wiped.stored),
                      !.columns = ColumnsAfterLoad(s.config, cols)]

\* The operations of the segment on the point or the field of o.
SetPayload(s, o)       == Assign(s, o.point, o.arg)
SetFullPayload(s, o)   == AssignAll(s, o.point, o.arg)
DeletePayload(s, o)    == DeleteKey(s, o.point, o.key)
ClearPayload(s, o)     == Drop(s, o.point)
DeletePoint(s, o)      == [Drop(s, o.point) EXCEPT !.live = @ \ {o.point}]
CreateFieldIndex(s, o) == SetIndexed(s, o.key, o.arg)
DeleteFieldIndex(s, o) == DropIndex(s, o.key)

\* What an operation does when nothing fails,
Done(s, o) ==
    CASE o.op = "create" -> CreateFieldIndex(s, o)
      [] o.op = "drop"   -> DeleteFieldIndex(s, o)
      [] o.op = "wipe"   -> Wipe(s)
      [] o.op = "set"    -> SetPayload(s, o)
      [] o.op = "full"   -> SetFullPayload(s, o)
      [] o.op = "delete" -> DeletePayload(s, o)
      [] o.op = "clear"  -> ClearPayload(s, o)
      [] o.op = "remove" -> DeletePoint(s, o)

\* ... and when its second half does not happen: the indexes have changed and
\* the payload has not, the configuration is saved and no index is built.
Half(s, o) ==
    LET index(t) == [s EXCEPT !.indexes = t.indexes, !.columns = t.columns]
        with == (o.key :> o.arg) @@ s.config
    IN  CASE o.op = "create" -> [s EXCEPT !.config = with,
                                          !.configDisk = IF o.key \in DOMAIN s.config THEN @ ELSE with]
          [] o.op = "drop"   -> [s EXCEPT !.config = Without(@, o.key)]
          [] o.op = "wipe"   -> s
          [] o.op = "set"    -> index(Assign(s, o.point, o.arg))
          [] o.op = "full"   -> Drop(s, o.point)
          [] o.op = "delete" -> index(DeleteKey(s, o.point, o.key))
          [] OTHER           -> index(Drop(s, o.point))

\* handle_version_and_failure: the operation n on a segment, with the result.
\* A segment with an error refuses newer operations; one whose version, or
\* whose point's version, is newer skips the operation; a success clears the
\* error when it is about the same point, a service error is remembered.
NeverRefused(s, n) == FALSE
Refused(s, n) == s.error # NoError /\ s.error.version < n
OfPoint(o) == o.op \notin {"create", "drop", "wipe"}
Handle(s, o, n, fails) ==
    LET point == IF OfPoint(o) THEN <<o.point>> ELSE NoOption
        tooOld == IF OfPoint(o) THEN s.versions[o.point] > n ELSE s.version > n
        after == IF tooOld THEN s
                 ELSE [Done(s, o) EXCEPT !.version = MaxOf(@, n),
                                         !.versions = IF OfPoint(o) THEN [@ EXCEPT ![o.point] = n] ELSE @]
        pointAfter == IF OfPoint(o) /\ o.point \in after.live THEN point ELSE NoOption
    IN  IF Refused(s, n) THEN <<"failed", s>>
        ELSE IF fails /\ ~ tooOld
             THEN <<"failed", [Half(s, o) EXCEPT !.error = [version |-> n, point |-> point]]>>
        ELSE <<"ok", [after EXCEPT !.error = IF @.point = pointAfter THEN NoError ELSE @]>>

\* CollectionUpdater::update: an operation on a point that no segment holds
\* reaches none; a delete succeeds then, the others are declined.
Updated(s, o, n, fails) ==
    IF OfPoint(o) /\ o.point \notin s.live
    THEN <<IF o.op = "remove" THEN "ok" ELSE "declined", s>>
    ELSE Handle(s, o, n, fails)
\* handle_update_result
FailedAfter(fs, n, result) ==
    CASE result = "ok"     -> fs \ {n}
      [] result = "failed" -> fs \cup {n}
      [] OTHER             -> fs

-----------------------------------------------------------------------------
State == [stored |-> stored, storedDisk |-> storedDisk, live |-> live,
          versions |-> versions, versionsDisk |-> versionsDisk, version |-> version, versionDisk |-> versionDisk,
          config |-> config, configDisk |-> configDisk,
          indexes |-> indexes, columns |-> columns, error |-> error]
Become(s) == /\ stored' = s.stored /\ storedDisk' = s.storedDisk /\ live' = s.live
             /\ versions' = s.versions /\ versionsDisk' = s.versionsDisk /\ version' = s.version
             /\ versionDisk' = s.versionDisk
             /\ config' = s.config /\ configDisk' = s.configDisk
             /\ indexes' = s.indexes /\ columns' = s.columns /\ error' = s.error

\* A new segment with the scenario's indexes; their columns are empty.
Init ==
    /\ scenario \in Scenarios
    /\ stored = [p \in Offsets |-> NoOption] /\ storedDisk = stored
    /\ live = Offsets
    /\ versions = [p \in Offsets |-> 0] /\ versionsDisk = versions /\ version = 0 /\ versionDisk = 0
    /\ config = scenario.schemas /\ configDisk = config
    /\ columns = ColumnsAfterLoad(config, <<>>)
    /\ indexes = LoadAllFields(config, columns, stored)
    /\ error = NoError /\ failed = {}
    /\ log = <<>> /\ applied = 0 /\ loadTo = 0 /\ saved = 0
    /\ flush = NoFlush /\ recovery = 0 /\ failures = 0 /\ overtaken = FALSE

\* An operation is written to the log and queued; try_recover holds the log.
Write(o) ==
    /\ recovery = 0 /\ loadTo <= applied
    /\ Len(log) < scenario.length /\ Len(log) - applied < scenario.queue
    /\ log' = Append(log, o)
    /\ UNCHANGED <<scenario, segment, failed, applied, loadTo, saved, flush, recovery, failures, overtaken>>

\* The update worker takes the next operation, or load_from_wal does.
SamePlace(o, q) == OfPoint(o) /\ OfPoint(q) => o.point = q.point
Apply(fails) ==
    LET n == applied + 1
        r == Updated(State, log[n], n, fails)
    IN  /\ applied < Len(log)
        /\ fails => failures < scenario.fails /\ loadTo <= applied
        /\ Become(r[2]) /\ failed' = FailedAfter(failed, n, r[1])
        /\ applied' = n
        /\ failures' = failures + (IF fails THEN 1 ELSE 0)
        /\ overtaken' = (overtaken \/ (r[1] = "ok" /\ error = NoError
                                      /\ \E m \in failed : m < n /\ SamePlace(log[m], log[n])))
        /\ UNCHANGED <<scenario, log, loadTo, saved, flush, recovery>>

\* try_recover, called by the optimization worker while the update worker goes
\* on: everything from the first failed operation on, until one does not succeed.
StartRecover ==
    /\ recovery = 0 /\ failed # {}
    /\ recovery' = Min(failed)
    /\ UNCHANGED <<scenario, segment, failed, log, applied, loadTo, saved, flush, failures, overtaken>>
RecoverStep ==
    LET r == Updated(State, log[recovery], recovery, FALSE)
    IN  /\ recovery # 0
        /\ Become(r[2]) /\ failed' = FailedAfter(failed, recovery, r[1])
        /\ recovery' = IF r[1] = "ok" /\ recovery < Len(log) THEN recovery + 1 ELSE 0
        /\ UNCHANGED <<scenario, log, applied, loadTo, saved, flush, failures, overtaken>>

OpenColumns == {PayloadColumn} \cup UNION {NamesOf(indexes, f) : f \in DOMAIN indexes}

\* Segment::flush: the flushers of the indexes in any order, of the payload
\* storage, of the points' versions, then the state with the version it had
\* when the flush began.  The log may drop what is older, and older than the
\* first failed operation.
StartFlush ==
    /\ flush = NoFlush /\ version # versionDisk /\ loadTo <= applied
    /\ flush' = [left |-> OpenColumns, upTo |-> version, stage |-> "columns"]
    /\ UNCHANGED <<scenario, segment, failed, log, applied, loadTo, saved, recovery, failures, overtaken>>
FlushColumn(c) ==
    /\ flush.stage = "columns" /\ c \in flush.left
    /\ c = PayloadColumn => flush.left = {c}
    /\ storedDisk' = IF c = PayloadColumn THEN stored ELSE storedDisk
    /\ columns' = IF c \in DOMAIN columns /\ c \in OpenColumns
                  THEN [columns EXCEPT ![c] = Records(CHOOSE ix \in Range(indexes[c[1]]) : ColumnOf(c[1], ix.kind) = c)]
                  ELSE columns
    /\ flush' = [flush EXCEPT !.left = @ \ {c}, !.stage = IF c = PayloadColumn THEN "versions" ELSE @]
    /\ UNCHANGED <<scenario, stored, live, versions, versionsDisk, version, versionDisk, config, configDisk,
                   indexes, error, failed, log, applied, loadTo, saved, recovery, failures, overtaken>>
FlushVersions ==
    /\ flush.stage = "versions"
    /\ versionsDisk' = versions
    /\ flush' = [flush EXCEPT !.stage = "state"]
    /\ UNCHANGED <<scenario, stored, storedDisk, live, versions, version, versionDisk, config, configDisk, indexes,
                   columns, error, failed, log, applied, loadTo, saved, recovery, failures, overtaken>>
EndFlush ==
    /\ flush.stage = "state"
    /\ versionDisk' = flush.upTo
    /\ saved' = Min({flush.upTo} \cup failed) /\ flush' = NoFlush
    /\ UNCHANGED <<scenario, stored, storedDisk, live, versions, versionsDisk, version, config, configDisk,
                   indexes, columns, error, failed, log, applied, loadTo, recovery, failures, overtaken>>

\* The process dies and opens the segment again; the log starts at most at
\* the operation the last flush confirmed.
Crash ==
    /\ Become([State EXCEPT !.stored = storedDisk, !.config = configDisk, !.versions = versionsDisk,
                            !.version = versionDisk, !.error = NoError,
                            !.indexes = LoadAllFields(configDisk, columns, storedDisk),
                            !.columns = ColumnsAfterLoad(configDisk, columns)])
    /\ failed' = {} /\ flush' = NoFlush /\ recovery' = 0
    /\ applied' = MaxOf(0, saved - 1) /\ loadTo' = Len(log)
    /\ UNCHANGED <<scenario, log, saved, failures, overtaken>>

\* What is on disk matters to a later crash only: a scenario without one
\* leaves the flushes out.
Next ==
    \/ \E o \in scenario.ops : Write(o)
    \/ \E fails \in BOOLEAN : Apply(fails)
    \/ StartRecover
    \/ RecoverStep
    \/ scenario.crash /\ \/ StartFlush
                         \/ \E c \in flush.left : FlushColumn(c)
                         \/ FlushVersions
                         \/ EndFlush
                         \/ Crash

Spec == Init /\ [][Next]_vars

-----------------------------------------------------------------------------
(* Queries.                                                                *)
EstimateLeaf(c) ==
    LET total == Cardinality(live)
        indexed == IF c.key \in DOMAIN indexes THEN Max({ix.count : ix \in Range(indexes[c.key])}) ELSE 0
        given == SelectSeq([i \in DOMAIN indexes[c.key] |-> IndexEstimate(indexes[c.key][i], c)], LAMBDA e : e # NoOption)
        rest  == MaxOf(0, total - indexed)
    IN  CASE c.t = "has_id" -> ExactEstimation(Cardinality(c.ids \cap live), <<c>>)
          [] c.t = "field"  -> IF c.key \notin DOMAIN indexes \/ given = <<>> THEN UnknownEstimation(total)
                               ELSE given[1][1]
          [] OTHER -> IF c.key \in DOMAIN indexes THEN Estimation(0, rest, rest, <<c>>)
                      ELSE Estimation(0, total \div 2, total, <<c>>)
EstimateCardinality(f) == EstimateFilter([c \in Leaves(f) |-> EstimateLeaf(c)], f, Cardinality(live))

\* condition_converter: by the first index that offers a checker, else by the payload.
ConvertedLeaf(c, p) ==
    LET offers == SelectSeq([i \in DOMAIN indexes[c.key] |-> Checker(indexes[c.key][i], c)], LAMBDA o : o # NoOption)
    IN  IF c.t = "has_id" THEN p \in c.ids \cap live
        ELSE IF c.t # "field" \/ c.key \notin DOMAIN indexes \/ offers = <<>> THEN CheckLeaf(c, p, PayloadAt(p))
        ELSE p \in offers[1][1]
FilterContext(f, p) == CheckOptimizedFilter([c \in Leaves(f) |-> ConvertedLeaf(c, p)], OptimizeFilter(f))

\* query_points: the union of the primary clauses, or all points, filtered.
QueryClause(c) ==
    LET offers == SelectSeq([i \in DOMAIN indexes[c.key] |-> IndexFilter(indexes[c.key][i], c)], LAMBDA o : o # NoOption)
    IN  CASE c.t = "has_id" -> c.ids \cap live
          [] c.t = "field"  -> IF c.key \in DOMAIN indexes /\ offers # <<>> THEN offers[1][1] ELSE live
          [] OTHER          -> live
QueryPoints(f) ==
    LET clauses == EstimateCardinality(f).clauses
        preselected == IF clauses = <<>> THEN live ELSE UNION {QueryClause(c) : c \in Range(clauses)}
    IN  {p \in preselected : FilterContext(f, p)}

\* PlainPayloadIndex and the scan of a segment: the payload alone decides.
ScanPoints(f) == {p \in live : CheckFilter([c \in Leaves(f) |-> CheckLeaf(c, p, PayloadAt(p))], f)}

-----------------------------------------------------------------------------
(* Properties.  A segment serves queries once its log is applied and what  *)
(* failed has been recovered.                                              *)
Serving == applied = Len(log) /\ failed = {} /\ recovery = 0

\* The payloads of the points after the operations of the log, in order.
Expected ==
    LET after(s, o) ==
            IF OfPoint(o) /\ o.point \notin s.live THEN s
            ELSE CASE o.op = "set"    -> [s EXCEPT !.stored[o.point] =
                                            IF @ = NoOption THEN <<o.arg>> ELSE <<Merge(@[1], o.arg)>>]
                   [] o.op = "full"   -> [s EXCEPT !.stored[o.point] = <<o.arg>>]
                   [] o.op = "delete" -> [s EXCEPT !.stored[o.point] =
                                            IF @ = NoOption THEN @ ELSE <<RemoveValue(o.key, @[1]).map>>]
                   [] o.op = "clear"  -> [s EXCEPT !.stored[o.point] = NoOption]
                   [] o.op = "remove" -> [s EXCEPT !.stored[o.point] = NoOption, !.live = @ \ {o.point}]
                   [] o.op = "wipe"   -> [s EXCEPT !.stored = [p \in Offsets |-> NoOption]]
                   [] OTHER           -> s
    IN  FoldLeft(after, [stored |-> [p \in Offsets |-> NoOption], live |-> Offsets], log)

\* "Failed operations should not be skipped": the payloads are those of the
\* whole log, in its order, also after crashes, replays and recovered failures.
\* It is false: while try_recover applies the first failed operation, the worker
\* applies the next one it has, and what was refused between them is too old.
PayloadIsAlwaysLog == Serving => \A p \in live : stored[p] = Expected.stored[p] /\ live = Expected.live

\* It is true unless the worker has overtaken a failed operation on the same point.
PayloadIsLog == ~ overtaken => PayloadIsAlwaysLog

\* A match of text means on a field with a text index that all words occur in the
\* values of the field, on others that one value contains the text.
WordsOf(values) ==
    UNION {UNION {IF Is("str", x) THEN Range(x[2]) ELSE {} : x \in Elements(v)} : v \in Range(values)}
ByWords(c) ==
    /\ c.t = "field" /\ c.key \in DOMAIN indexes /\ c.match # NoOption
    /\ \E ix \in Range(indexes[c.key]) : MatchOf(ix, c) = "text"
AskedPoints(f) ==
    {p \in live : CheckFilter([c \in Leaves(f) |->
        IF ByWords(c) THEN Query(c) \subseteq WordsOf(GetValue(c.key, PayloadAt(p)))
        ELSE CheckLeaf(c, p, PayloadAt(p))], f)}

\* Operations on a payload that the index of a field does not follow: a value of
\* another type, a null, another parent, and the deletion of the parent.  Others
\* set the index right again.
Evades(o, f) ==
    \/ /\ o.op = "set" /\ Head(f).name \in DOMAIN o.arg
       /\ \E ix \in Range(indexes[f]) : ~ Indexable(ix.kind, GetValue(f, o.arg))
    \/ o.op = "delete" /\ o.key # f /\ Head(o.key).name = Head(f).name
Renews(o, f) ==
    \/ o.op \in {"full", "clear"}
    \/ o.op = "set" /\ \A ix \in Range(indexes[f]) : Indexable(ix.kind, GetValue(f, o.arg))
    \/ o.op = "delete" /\ o.key = f
Stale ==
    {p \in Offsets : \E f \in DOMAIN indexes :
        LET edits == {i \in DOMAIN log : OfPoint(log[i]) /\ log[i].point = p}
        IN  \E i \in edits : Evades(log[i], f) /\ \A j \in edits : j > i => ~ Renews(log[j], f)}

\* query_points answers with exactly the points whose payload satisfies the
\* filter, whatever indexes it went through, also after a crash and a replay.
\* It is false of points whose index is stale, and of texts of several words.
QueryIsScan == Serving => \A f \in scenario.filters : QueryPoints(f) = ScanPoints(f)

\* It is true of every other point, with the meaning that the index gives a text.
QueryIsExact ==
    Serving => \A f \in scenario.filters : QueryPoints(f) \ Stale = AskedPoints(f) \ Stale

\* The estimation that query planning relies on bounds the number of points
\* that satisfy the filter.  It is false of ranges and regions, whose bounds come
\* from a histogram or from counts per hash.
Bounds(f) == LET e == EstimateCardinality(f)
                 n == Cardinality(AskedPoints(f))
             IN  e.min <= n /\ n <= e.max
EstimateIsAlwaysBound == Serving /\ Stale = {} => \A f \in scenario.filters : Bounds(f)

\* It is true of all other filters; and of every filter the expectation lies
\* between the bounds.
Approximate(c) == c.t = "field" /\ (c.range # NoOption \/ c.bbox # NoOption \/ c.radius # NoOption)
EstimateIsBound ==
    Serving => \A f \in scenario.filters :
        /\ LET e == EstimateCardinality(f) IN e.min <= e.exp /\ e.exp <= e.max
        /\ Stale = {} /\ (\A c \in Leaves(f) : ~ Approximate(c)) => Bounds(f)

\* What an index derives from the values of the points is what a new index
\* would derive: the map, the counters, the histogram, the counts per hash.
\* What is on disk of it is never more than what is in memory.
IndexesAgree ==
    \A f \in DOMAIN indexes : \A ix \in Range(indexes[f]) :
        /\ ix.map = UNION {{<<k, p>> : k \in Keys(ix, p)} : p \in Offsets}
        /\ ix.count = Cardinality({p \in Offsets : ix.vals[p] # <<>>})
        /\ Numeric(ix.kind) => Exact(ix.hist, ix.map)
        /\ \A h \in DOMAIN ix.points :
             /\ ix.points[h] = Cardinality({p \in Offsets : \E v \in Range(ix.vals[p]) : IsPrefix(h, Encode(v))})
             /\ ix.values[h] = Cardinality(UNION {{<<p, i>> : i \in {i \in DOMAIN ix.vals[p] :
                                                     IsPrefix(h, Encode(ix.vals[p][i]))}} : p \in Offsets})
        /\ columns[ColumnOf(f, ix.kind)] \subseteq Records(ix)

\* The blocks the vector index links separately: the ranges of a numeric index
\* leave no value out, and the other blocks have the size they claim.
BlocksCover ==
    \A f \in DOMAIN indexes : \A ix \in Range(indexes[f]) : \A threshold \in 1 .. 2 :
        LET blocks == PayloadBlocks(ix, f, threshold)
        IN  IF Numeric(ix.kind)
            THEN ix.map # {} => UNION {IndexFilter(ix, b.condition)[1] : b \in blocks} = {k[2] : k \in ix.map}
            ELSE \A b \in blocks : /\ b.cardinality = Cardinality(IndexFilter(ix, b.condition)[1])
                                   /\ b.cardinality >= threshold

\* Deleting a path takes out what reading it returned, and reading it again
\* returns nothing, unless its last step names one element of an array (the
\* next element takes its place).
PathsAgree ==
    \A p \in Offsets : \A path \in scenario.paths :
        LET r == RemoveValue(path, PayloadAt(p))
            last == path[Len(path)]
        IN  /\ last.at < 0 => GetValue(path, r.map) = <<>>
            /\ (\A i \in DOMAIN path : path[i].at = NoIndex) => r.values = GetValue(path, PayloadAt(p))
            /\ r.values = <<>> => r.map = PayloadAt(p)
=============================================================================
