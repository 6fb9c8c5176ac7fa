------------------------------ MODULE MCIndex -------------------------------
(* The instances for TLC of the indexes of a segment: PayloadIndex (with      *)
(* FieldIndexes, PayloadFilter, Histogram and GeoHash), Hnsw and Encodings.   *)
(* They share no state: `part` says which one runs, from its own initial      *)
(* states, and the others stay in one of theirs.                              *)
EXTENDS PayloadIndex

CONSTANTS Width, Radix, NaN, None, Chars   \* of Encodings

VARIABLES part,
          graphScenario, phase, block, work, main, linking, files, graph,
          input, column, answer

graphVars == <<graphScenario, phase, block, work, main, linking, files, graph>>
codeVars == <<input, column, answer>>

-----------------------------------------------------------------------------
(* PayloadIndex: two points, logs of up to four operations, one scenario per  *)
(* schema                                                                  *)

Key(name) == <<Step(name, NoIndex)>>
A  == Key("a")
NA == <<Step("n", NoIndex), Step("a", NoIndex)>>
NI == <<Step("n", AllItems), Step("a", NoIndex)>>
N1 == <<Step("n", 1)>>
Map(v) == "a" :> v
Nested(v) == "n" :> Obj("a" :> v)
Lists(v) == "n" :> Arr(<<Obj("a" :> v), Obj("b" :> v), v>>)

Op(op, p, key, arg) == [op |-> op, point |-> p, key |-> key, arg |-> arg]
Edits(maps, key) ==
    {Op("set", 0, key, m) : m \in maps} \cup {Op("full", 1, key, m) : m \in maps}
    \cup {Op("delete", 0, key, <<>>), Op("clear", 1, key, <<>>), Op("remove", 1, key, <<>>)}

Must(c) == Filter(NoOption, <<<<c>>>>, NoOption)
Match(key, v) == [Field(key) EXCEPT !.match = <<MatchValue(v)>>]
AnyOf(key, vs) == [Field(key) EXCEPT !.match = <<MatchAny(vs)>>]
Text(key, ws) == [Field(key) EXCEPT !.match = <<MatchText(ws)>>]
In(key, r)   == [Field(key) EXCEPT !.range = <<r>>]
At(key, b)   == [Field(key) EXCEPT !.bbox = <<b>>]
Near(key, c) == [Field(key) EXCEPT !.radius = <<c>>]
Count(key, r) == [Field(key) EXCEPT !.count = <<r>>]

\* Filters that combine conditions c and d on a key with ids and emptiness.
Mixed(key, c, d) ==
    {Must(c), Must(d), Filter(<<<<c, d>>>>, NoOption, NoOption),
     Filter(NoOption, <<<<d, HasId({0})>>>>, <<<<c>>>>),
     Filter(<<<<c, IsEmptyField(key)>>>>, NoOption, NoOption),
     Filter(<<<<HasId({1}), Must(d)>>>>, <<<<>>>>, <<<<IsNullField(key)>>>>)}

\* A world without crashes and failures, asked the filters fs.
World1(schemas, ops, length, fs) ==
    [schemas |-> schemas, ops |-> ops, length |-> length, queue |-> 1, crash |-> FALSE, fails |-> 0,
     filters |-> fs, paths |-> {A, NA, NI, N1}]
\* With crashes: one payload to overwrite with, and the filters that are one condition or
\* combine it with another.
Crashing(w) ==
    LET full == {o \in w.ops : o.op = "full"}
    IN  [w EXCEPT !.crash = TRUE, !.paths = {}, !.ops = (@ \ full) \cup {CHOOSE o \in full : TRUE},
                  !.filters = {f \in @ : f.must # NoOption /\ f.should = NoOption}]
Failing(w) == [w EXCEPT !.fails = 1, !.queue = 2, !.paths = {}]

Ints == {IntV(1), IntV(2), Arr(<<IntV(1), IntV(1), IntV(3)>>), Arr(<<>>)}
IntFilters(key) ==
    Mixed(key, Match(key, IntV(1)), AnyOf(key, <<IntV(2), IntV(3)>>))
IntRanges(key) ==
    Mixed(key, In(key, [NoRange EXCEPT !.gte = <<4>>]), In(key, [NoRange EXCEPT !.gt = <<2>>, !.lt = <<6>>]))
    \cup {Must(Count(key, [NoRange EXCEPT !.gt = <<2>>]))}
IntOps == Edits({Map(v) : v \in Ints}, A)
CreateDrop == {Op("create", 0, A, "integer"), Op("drop", 0, A, <<>>), Op("wipe", 0, A, <<>>)}
Integer(length) == World1(A :> "integer", IntOps, length, IntFilters(A) \cup IntRanges(A))
Dynamic(length) == World1(<<>>, IntOps \cup CreateDrop, length, IntFilters(A) \cup IntRanges(A))

X == Str(<<"x">>)
Y == Str(<<"y">>)
XY == Str(<<"x", "y">>)
KeyFilters == Mixed(A, Match(A, X), AnyOf(A, <<X, Y>>))
Keyword(length) == World1(A :> "keyword", Edits({Map(v) : v \in {X, Y, Arr(<<X, XY, X>>)}}, A), length, KeyFilters)
TextFilters == Mixed(A, Text(A, <<"x">>), Text(A, <<"y", "x">>)) \cup {Must(Text(A, <<"z">>))}
Words(length) == World1(A :> "text", Edits({Map(v) : v \in {X, XY, Arr(<<X, Y>>)}}, A), length, TextFilters)
\* Values of other types in the place of indexed ones, and other parents.
Retyped(length) ==
    World1(A :> "integer", Edits({Map(v) : v \in {IntV(1), Null, X, Arr(<<X, IntV(2)>>)}}, A), length, IntFilters(A))
Reparented(length) ==
    World1(NA :> "keyword", Edits({Nested(X), Nested(Null), "n" :> X, "n" :> Obj("b" :> X)}, NA)
                            \cup {Op("delete", 0, Key("n"), <<>>)},
           length, Mixed(NA, Match(NA, X), AnyOf(NA, <<X, Y>>)))
Floats == {IntV(1), Float(3), Arr(<<Float(1), Float(3)>>)}
Reals(length) == World1(NA :> "float", Edits({Nested(v) : v \in Floats}, NA), length, IntRanges(NA))
Geos == {Geo(<<1, 1>>), Geo(<<5, 3>>), Arr(<<Geo(<<1, 1>>), Geo(<<7, 1>>), Geo(<<7, 1>>)>>)}
GeoFilters == Mixed(A, At(A, Box(0, 6, 4, 0)), Near(A, Circle(<<7, 2>>, 2)))
Places(length) == World1(A :> "geo", Edits({Map(v) : v \in Geos}, A), length, GeoFilters)

Plain(length) ==
    World1(<<>>, Edits({Map(IntV(1)), Lists(IntV(1)), Nested(X)}, NA)
                 \cup {Op("delete", 0, NI, <<>>), Op("delete", 1, N1, <<>>), Op("create", 0, A, "integer")},
           length, IntFilters(A))

\* Edits of one point, keyed by two fields: every order of them shows.
AB(k, v) == k :> IntV(v)
Few == {Op("set", 0, A, AB("a", 1)), Op("set", 0, A, AB("b", 2)), Op("full", 0, A, AB("a", 2)),
        Op("delete", 0, A, <<>>), Op("set", 1, A, AB("a", 2)), Op("create", 0, A, "integer")}
Edited(schemas, length) == World1(schemas, Few, length, {Must(Match(A, IntV(1)))})

PassingScenarios ==
    {Integer(3), Dynamic(3), Keyword(3), Words(3), Reals(3), Places(3), Plain(3), Retyped(3), Reparented(3),
     Crashing([Integer(2) EXCEPT !.filters = IntFilters(A)]), Crashing(Keyword(2)), Crashing(Words(2)),
     Crashing(Reals(2)), Crashing(Places(2)), Failing(Edited(A :> "integer", 4)), Failing(Edited(<<>>, 3))}

-----------------------------------------------------------------------------
(* Hnsw: three or four points on a line                                    *)

Three == 0 :> 0 @@ 1 :> 1 @@ 2 :> 3
Built == [pos |-> Three @@ (3 :> 7), deleted |-> {}, blocks |-> <<>>, m |-> 4, m0 |-> 4,
          pm |-> 4, pm0 |-> 4, ef |-> 4, extra |-> 10, levels |-> 1,
          threads |-> 1, threshold |-> 1, complete |-> TRUE, stop |-> FALSE, legacy |-> FALSE]
Threads(n, levels) ==
    [Built EXCEPT !.pos = Three, !.threads = n, !.levels = levels, !.complete = FALSE]

\* One thread; two and three of them; a payload block; blocks without a main graph, a
\* deleted point and a build that is stopped; and the files of an older version
Graphs ==
    {Built, Threads(2, 2), Threads(3, 1), [Built EXCEPT !.pos = Three, !.blocks = <<{0, 2}>>, !.m = 1, !.m0 = 2],
     [Built EXCEPT !.m = 0, !.m0 = 0, !.blocks = <<{0, 1, 3}, {2, 3}>>, !.deleted = {1},
                   !.stop = TRUE, !.complete = FALSE],
     [Built EXCEPT !.legacy = TRUE, !.complete = FALSE]}

Building == INSTANCE Hnsw
    WITH scenario <- graphScenario, k <- block, op <- linking, index <- graph,
         Scenarios <- Graphs

-----------------------------------------------------------------------------
(* Encodings: pairs of numbers, and texts of up to four characters            *)

Numbers(kind, values) ==
    {[kind |-> kind, entries |-> {<<v, p>>, <<w, q>>}] :
        v \in values, w \in values, p \in {0, 5}, q \in {0, 1}}
Tokenizers ==
    {[tokenizer |-> name, min |-> least, max |-> most, lowercase |-> lower] :
        name \in {"whitespace", "word", "prefix"}, least \in {None, 2}, most \in {None, 2, 3},
        lower \in BOOLEAN}
Texts ==
    {[kind |-> "text", text |-> text, params |-> params] :
        params \in Tokenizers,
        text \in UNION {[1 .. n -> Chars] : n \in 1 .. 3}
                 \cup {<<"a", "U", "-", "a">>, <<"A", "u", "a", "u">>, <<"a", "a", "a", "a">>}}
NoInput == [kind |-> "text", text |-> <<"a">>,
            params |-> [tokenizer |-> "word", min |-> None, max |-> None, lowercase |-> TRUE]]

Coding == INSTANCE Encodings
    WITH Inputs <- Numbers("i64", -(2 ^ (Width - 1)) .. 2 ^ (Width - 1) - 1)
                   \cup Numbers("f64", 0 .. 2 ^ Width - 1 \cup {NaN}) \cup Texts

-----------------------------------------------------------------------------
IndexInit ==
    /\ part \in {"payload", "graph", "encodings"}
    /\ part # "payload" => scenario = Integer(3)
    /\ part # "graph" => graphScenario = Built
    /\ part # "encodings" => input = NoInput
    /\ Init /\ Building!Init /\ Coding!Init

IndexNext ==
    \/ part = "payload" /\ Next /\ UNCHANGED <<part, graphVars, codeVars>>
    \/ part = "graph" /\ Building!Next /\ UNCHANGED <<part, vars, codeVars>>
    \/ part = "encodings" /\ Coding!Next /\ UNCHANGED <<part, vars, graphVars>>

\* The threads of a build run
IndexSpec ==
    /\ IndexInit /\ [][IndexNext]_<<part, vars, graphVars, codeVars>>
    /\ WF_graphVars(part = "graph" /\ Building!Next)

-----------------------------------------------------------------------------
\* PayloadIndex: the payloads are those of the whole log, in its order, also after
\* crashes, replays and recovered failures, unless an operation was applied to a point
\* between the failure of an earlier one on that point and its recovery
\* (Segment::handle_version_and_failure, SegmentHolder::try_recover,
\* LocalShard::load_from_wal).
PayloadIsRight == part = "payload" => PayloadIsLog

\* PayloadIndex: a filter finds exactly the points whose payload satisfies it, whatever
\* indexes it goes through (a match of several words is by words where the field has a
\* text index), but for points whose indexed value was replaced by one the index does not
\* take or went with its parent; their number is within the bounds of the estimation
\* (those of ranges and regions are approximate, and only keep their order); what an index
\* derives from the values is what a new index would derive; the blocks it offers leave
\* no value out; and deleting a path takes out what reading it returned
\* (StructPayloadIndex, estimate_cardinality, JsonPathPayload).
QueriesAreExact ==
    part = "payload" =>
        QueryIsExact /\ EstimateIsBound /\ IndexesAgree /\ BlocksCover /\ PathsAgree

\* Hnsw: at every moment of a build with any number of threads a link leads to another
\* live point of its level, no list is longer than m, no registered point is above the
\* entry point; an index that was built, opened after a crash or converted answers with
\* the graph that was built, unless a crash fell between the two files of a conversion
\* (GraphLayersBuilder::link_new_point, HNSWIndex::open, GraphLayers::load); and a graph
\* that one thread built, with room for all links and a beam as wide as the
\* segment, finds exactly the closest points for every query, filter and strategy
\* (HNSWIndex::search).
GraphIsSound ==
    part = "graph" => Building!GraphSound /\ Building!IndexIsGraph /\ Building!SearchIsExact

\* Hnsw: a build ends: no thread waits for ever for the lock of a list of links
\* (GraphLayersBuilder::link_new_point).
BuildEnds == part = "graph" => Building!BuildEnds

\* Encodings: the bytes of numeric keys sort as the numbers do, and the tokens of a text
\* are found by queries for its words and prefixes (encode_f64_key_ascending,
\* Tokenizer::doc_tokens).
CodesAgree == part = "encodings" => Coding!KeysKeepOrder /\ Coding!TextIsFound
=============================================================================
