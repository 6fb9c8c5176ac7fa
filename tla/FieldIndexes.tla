----------------------------- MODULE FieldIndexes -----------------------------
(***************************************************************************)
(* The indexes of one payload field.  All kinds keep the values of every   *)
(* point (vals), a map from keys to points (map, a set of <<key, point>>)  *)
(* and the number of points with values (count):                           *)
(*   keyword, int_map   the map's keys are the values                      *)
(*   int, float         the keys are the values, in a tree, with a         *)
(*                      histogram; numbers are integers, or halves         *)
(*   geo                the keys are hashes; points and values are also    *)
(*                      counted per prefix of a hash                       *)
(*   text               a point has one document, a set of tokens          *)
(* Each index writes a column of the database: a set of <<record, point>>. *)
(***************************************************************************)
EXTENDS PayloadFilter, Histogram

CONSTANTS Offsets,             \* the internal ids of points
          MaxRegions,          \* GEO_QUERY_MAX_REGION
          Lowest, Highest      \* the least and the greatest number

IndexSelector(schema) == IF schema = "integer" THEN <<"int_map", "int">> ELSE <<schema>>
Numeric(kind) == kind \in {"int", "float"}

NewIndex(kind) ==
    [kind |-> kind, vals |-> [p \in Offsets |-> <<>>], map |-> {}, count |-> 0, most |-> 1,
     hist |-> EmptyHistogram, points |-> <<>>, values |-> <<>>]

\* ValueIndexer::get_value of each index: the value as it sees it, if any.
KeywordValue(v) == IF Is("str", v) THEN <<v[2]>> ELSE <<>>
TextValue(v)    == IF Is("str", v) THEN <<v[2]>> ELSE <<>>
IntMapValue(v)  == IF Is("int", v) THEN <<v[2]>> ELSE <<>>
IntValue(v)     == IF Is("int", v) THEN <<v[2]>> ELSE <<>>
FloatValue(v)   == IF IsNumber(v) THEN <<Halves(v)>> ELSE <<>>
GeoValue(v)     == IF Is("geo", v) THEN <<v[2]>> ELSE <<>>
TypedValue(kind, v) ==
    CASE kind = "keyword" -> KeywordValue(v)
      [] kind = "text"    -> TextValue(v)
      [] kind = "int_map" -> IntMapValue(v)
      [] kind = "int"     -> IntValue(v)
      [] kind = "float"   -> FloatValue(v)
      [] kind = "geo"     -> GeoValue(v)

-----------------------------------------------------------------------------
(* Adding and removing the values of a point.                              *)
Keys(ix, p) == CASE ix.kind = "text" -> UNION Range(ix.vals[p])
                 [] ix.kind = "geo"  -> {Encode(v) : v \in Range(ix.vals[p])}
                 [] OTHER            -> Range(ix.vals[p])

\* A value counts every time for a prefix of its hash, a point once.
CountOf(counts, h) == IF h \in DOMAIN counts THEN counts[h] ELSE 0
HashesOf(values) == [i \in DOMAIN values |-> Encode(values[i])]
PrefixesOf(hashes) == UNION {Prefixes(g) : g \in Range(hashes)}
Occurrences(h, hashes) == Cardinality({i \in DOMAIN hashes : IsPrefix(h, hashes[i])})
IncrementValueCounts(counts, hashes) ==
    [h \in DOMAIN counts \cup PrefixesOf(hashes) |-> CountOf(counts, h) + Occurrences(h, hashes)]
DecrementValueCounts(counts, hashes) == [h \in DOMAIN counts |-> counts[h] - Occurrences(h, hashes)]
IncrementPointCounts(counts, hashes) ==
    [h \in DOMAIN counts \cup PrefixesOf(hashes) |->
        CountOf(counts, h) + IF h \in PrefixesOf(hashes) THEN 1 ELSE 0]
DecrementPointCounts(counts, hashes) ==
    [h \in DOMAIN counts |-> counts[h] - IF h \in PrefixesOf(hashes) THEN 1 ELSE 0]

\* add_to_map and remove_from_map: the histogram only sees distinct pairs.
AddToMap(ix, pair) ==
    IF pair \in ix.map THEN ix
    ELSE [ix EXCEPT !.map = @ \cup {pair}, !.hist = InsertPoint(@, ix.map \cup {pair}, pair)]
RemoveFromMap(ix, pair) ==
    IF pair \notin ix.map THEN ix
    ELSE [ix EXCEPT !.map = @ \ {pair}, !.hist = RemovePoint(@, ix.map \ {pair}, pair)]

\* add_many of each index, for a point it holds no values of.
Added(ix, p, values) ==
    [ix EXCEPT !.vals[p] = values, !.count = @ + 1, !.most = IF Len(values) > @ THEN Len(values) ELSE @]
PairsOf(ix, p) == {<<k, p>> : k \in Keys(ix, p)}
AddManyToMap(ix, p, values) ==
    LET added == Added(ix, p, values) IN [added EXCEPT !.map = @ \cup PairsOf(added, p)]
AddManyToList(ix, p, values) ==
    FoldLeft(LAMBDA x, v : AddToMap(x, <<v, p>>), Added(ix, p, values), values)
AddManyGeoPoints(ix, p, values) ==
    LET added == Added(ix, p, values)
    IN  [added EXCEPT !.map = @ \cup PairsOf(added, p),
                      !.values = IncrementValueCounts(@, HashesOf(values)),
                      !.points = IncrementPointCounts(@, HashesOf(values))]
Document(values) == UNION {Range(ws) : ws \in Range(values)}
IndexDocument(ix, p, values) ==
    LET added == Added(ix, p, <<Document(values)>>) IN [added EXCEPT !.map = @ \cup PairsOf(added, p)]
AddMany(ix, p, values) ==
    IF values = <<>> THEN ix
    ELSE CASE ix.kind \in {"keyword", "int_map"} -> AddManyToMap(ix, p, values)
           [] Numeric(ix.kind)                   -> AddManyToList(ix, p, values)
           [] ix.kind = "geo"                    -> AddManyGeoPoints(ix, p, values)
           [] ix.kind = "text"                   -> IndexDocument(ix, p, values)

\* remove_point of each index, for a point it holds values of.
Forgotten(ix, p) == [ix EXCEPT !.vals[p] = <<>>, !.count = @ - 1]
RemoveMapPoint(ix, p) == [Forgotten(ix, p) EXCEPT !.map = @ \ PairsOf(ix, p)]
RemoveNumericPoint(ix, p) ==
    FoldLeft(LAMBDA x, v : RemoveFromMap(x, <<v, p>>), Forgotten(ix, p), ix.vals[p])
RemoveGeoPoint(ix, p) ==
    [Forgotten(ix, p) EXCEPT !.map = @ \ PairsOf(ix, p),
                            !.values = DecrementValueCounts(@, HashesOf(ix.vals[p])),
                            !.points = DecrementPointCounts(@, HashesOf(ix.vals[p]))]
RemoveDocument(ix, p) == [Forgotten(ix, p) EXCEPT !.map = @ \ PairsOf(ix, p)]
ForgetPoint(ix, p) ==
    IF ix.vals[p] = <<>> THEN ix
    ELSE CASE ix.kind \in {"keyword", "int_map"} -> RemoveMapPoint(ix, p)
           [] Numeric(ix.kind)                   -> RemoveNumericPoint(ix, p)
           [] ix.kind = "geo"                    -> RemoveGeoPoint(ix, p)
           [] ix.kind = "text"                   -> RemoveDocument(ix, p)

\* add_point: an absent value, or one value of another type, changes nothing.
\* (The fields that are indexed here are plain paths, with one value at most.)
FlatValues(kind, multi) ==
    FlattenSeq([i \in DOMAIN multi |->
       IF Is("arr", multi[i])
       THEN FlattenSeq([j \in DOMAIN multi[i][2] |-> TypedValue(kind, multi[i][2][j])])
       ELSE TypedValue(kind, multi[i])])
Indexable(kind, multi) == \E i \in DOMAIN multi : Is("arr", multi[i]) \/ FlatValues(kind, multi) # <<>>
AddPoint(ix, p, multi) ==
    IF Indexable(ix.kind, multi) THEN AddMany(ForgetPoint(ix, p), p, FlatValues(ix.kind, multi)) ELSE ix

-----------------------------------------------------------------------------
(* The column of an index: what it holds for the points of the index.      *)
Records(ix) == IF ix.kind = "text" THEN {<<ix.vals[p][1], p>> : p \in {q \in Offsets : ix.vals[q] # <<>>}}
               ELSE UNION {{<<v, p>> : v \in Range(ix.vals[p])} : p \in Offsets}

\* load of each index: what the records of its column describe.
RecordsOf(records, p) == SetToSeq({r[1] : r \in {q \in records : q[2] = p}})
Held(records) == {r[2] : r \in records}
LoadMap(kind, records) ==
    FoldSet(LAMBDA p, ix : AddManyToMap(ix, p, RecordsOf(records, p)), NewIndex(kind), Held(records))
LoadNumeric(kind, records) ==
    LET plain == FoldSet(LAMBDA p, ix : Added(ix, p, RecordsOf(records, p)), NewIndex(kind), Held(records))
    IN  FoldLeft(AddToMap, plain, SetToSortSeq(records, Before))
LoadGeo(records) ==
    FoldSet(LAMBDA p, ix : AddManyGeoPoints(ix, p, RecordsOf(records, p)), NewIndex("geo"), Held(records))
LoadText(records) ==
    FoldSet(LAMBDA p, ix : LET added == Added(ix, p, RecordsOf(records, p))
                           IN  [added EXCEPT !.map = @ \cup PairsOf(added, p)],
            NewIndex("text"), Held(records))
LoadIndex(kind, records) ==
    CASE kind \in {"keyword", "int_map"} -> LoadMap(kind, records)
      [] Numeric(kind)                   -> LoadNumeric(kind, records)
      [] kind = "geo"                    -> LoadGeo(records)
      [] kind = "text"                   -> LoadText(records)

-----------------------------------------------------------------------------
(* Questions to one index: an Option, None when the index cannot answer.   *)
MatchOf(ix, c) ==
    LET any == IF c.match[1][2] = <<>> THEN "str" ELSE c.match[1][2][1][1]
        type == CASE c.match[1][1] = "value" -> c.match[1][2][1]
                  [] c.match[1][1] = "any"   -> any
                  [] OTHER                   -> "text"
    IN  IF c.match = NoOption THEN "none"
        ELSE IF <<type, ix.kind>> \in {<<"str", "keyword">>, <<"int", "int_map">>} THEN c.match[1][1]
        ELSE IF type = "text" /\ ix.kind = "text" THEN "text"
        ELSE "none"
\* The values a match condition looks for, as the index stores them.
Wanted(c) == IF c.match[1][1] = "any" THEN {v[2] : v \in Range(c.match[1][2])} ELSE {c.match[1][2][2]}
Query(c)  == Range(c.match[1][2])
PointsOf(ix, key) == {p \in Offsets : <<key, p>> \in ix.map}

\* from_f64: the integer index truncates.
FromF64(kind, h) == IF kind = "float" THEN h ELSE IF h >= 0 THEN h \div 2 ELSE -((-h) \div 2)

\* field_condition_index: the checker this index offers, as the points it holds for.
SomeValue(ix, Test(_)) == Some({p \in Offsets : \E v \in Range(ix.vals[p]) : Test(v)})
MatchChecker(ix, c) ==
    CASE MatchOf(ix, c) \in {"value", "any"} -> SomeValue(ix, LAMBDA v : v \in Wanted(c))
      [] MatchOf(ix, c) = "text"             -> SomeValue(ix, LAMBDA d : Query(c) \subseteq d)
      [] OTHER                               -> NoOption
RangeChecker(ix, r) ==
    IF Numeric(ix.kind) THEN SomeValue(ix, LAMBDA v : CheckRange(r, IF ix.kind = "int" THEN 2 * v ELSE v))
    ELSE NoOption
RadiusChecker(ix, r) == IF ix.kind = "geo" THEN SomeValue(ix, LAMBDA v : InCircle(r, v)) ELSE NoOption
BoxChecker(ix, b)    == IF ix.kind = "geo" THEN SomeValue(ix, LAMBDA v : InBox(b, v)) ELSE NoOption
Checker(ix, c) ==
    LET given == <<IF c.match # NoOption THEN MatchChecker(ix, c) ELSE NoOption,
                   IF c.range # NoOption THEN RangeChecker(ix, c.range[1]) ELSE NoOption,
                   IF c.radius # NoOption THEN RadiusChecker(ix, c.radius[1]) ELSE NoOption,
                   IF c.bbox # NoOption THEN BoxChecker(ix, c.bbox[1]) ELSE NoOption>>
        able == {i \in DOMAIN given : given[i] # NoOption}
    IN  IF able = {} THEN NoOption ELSE given[Min(able)]

\* PayloadFieldIndex::filter of each index: the points to iterate over.
MapFilter(ix, c) ==
    IF MatchOf(ix, c) = "value" THEN Some(UNION {PointsOf(ix, v) : v \in Wanted(c)}) ELSE NoOption
StartBound(r, kind) == IF r.gt # NoOption THEN Excluded(FromF64(kind, r.gt[1]))
                       ELSE IF r.gte # NoOption THEN Included(FromF64(kind, r.gte[1])) ELSE Unbounded
EndBound(r, kind)   == IF r.lt # NoOption THEN Excluded(FromF64(kind, r.lt[1]))
                       ELSE IF r.lte # NoOption THEN Included(FromF64(kind, r.lte[1])) ELSE Unbounded
NumericFilter(ix, c) ==
    IF c.range = NoOption THEN NoOption
    ELSE Some({k[2] : k \in {k \in ix.map : /\ FromBound(StartBound(c.range[1], ix.kind), k)
                                            /\ ToBound(EndBound(c.range[1], ix.kind), k)}})
InRegions(ix, hashes) == {p \in Offsets : \E k \in ix.map : k[2] = p /\ \E h \in hashes : IsPrefix(h, k[1])}
GeoFilter(ix, c) ==
    LET within(hashes, checked) == Some(InRegions(ix, hashes) \cap checked[1])
    IN  CASE c.bbox # NoOption   -> within(RectangleHashes(c.bbox[1], MaxRegions), BoxChecker(ix, c.bbox[1]))
          [] c.bbox = NoOption /\ c.radius # NoOption ->
                within(CircleHashes(c.radius[1], MaxRegions), RadiusChecker(ix, c.radius[1]))
          [] OTHER               -> NoOption
\* The intersection of the postings; nothing for an empty query.
TextFilter(ix, c) ==
    IF MatchOf(ix, c) # "text" THEN NoOption
    ELSE Some(IF Query(c) = {} THEN {} ELSE {p \in Offsets : \A t \in Query(c) : <<t, p>> \in ix.map})
IndexFilter(ix, c) ==
    CASE ix.kind \in {"keyword", "int_map"} -> MapFilter(ix, c)
      [] Numeric(ix.kind)                   -> NumericFilter(ix, c)
      [] ix.kind = "geo"                    -> GeoFilter(ix, c)
      [] ix.kind = "text"                   -> TextFilter(ix, c)

-----------------------------------------------------------------------------
(* Estimations.  estimate_multi_value_selection_cardinality approximates   *)
(* the expected number of points by factorials in floating point; the      *)
(* proportion stands for it, and is clamped the same way.                  *)
MultiValueSelection(points, values, selected) ==
    IF values = 0 THEN 0 ELSE Rounded(selected * points, values)

MatchCardinality(ix, key) == ExactEstimation(Cardinality(PointsOf(ix, key)), <<>>)

\* The least and the greatest number bound the expected one.
Clamped(least, exp, most) == Estimation(least, MinOf(most, MaxOf(exp, least)), most, <<>>)

\* From the numbers of values e in a range, the numbers of points.
PointsOfValues(ix, e, n) ==
    Clamped(MaxOf(e[1] \div ix.most, MaxOf(MinOf(1, e[1]), MaxOf(0, e[1] - (n - ix.count)))),
            MultiValueSelection(ix.count, n, e[2]), MinOf(ix.count, e[3]))
RangeCardinality(ix, r) ==
    LET upper == IF r.lte # NoOption THEN Included(FromF64(ix.kind, r.lte[1]))
                 ELSE IF r.lt # NoOption THEN Excluded(FromF64(ix.kind, r.lt[1])) ELSE Unbounded
        lower == IF r.gte # NoOption THEN Included(FromF64(ix.kind, r.gte[1]))
                 ELSE IF r.gt # NoOption THEN Excluded(FromF64(ix.kind, r.gt[1])) ELSE Unbounded
    IN  PointsOfValues(ix, Estimate(ix.hist, lower, upper, Lowest, Highest), Cardinality(ix.map))

\* The same for regions with the numbers of points hits, among the points and
\* the values of the region around them.
PointsOfRegions(ix, hits, sum, points, values) ==
    Clamped(Max({sum \div ix.most, MaxOf(0, sum - (values - points))} \cup Range(hits)),
            MultiValueSelection(points, values, sum), MinOf(sum, points))
GeoCardinality(ix, hashes) ==
    LET common == CommonHashPrefix(hashes)
        hits   == [h \in hashes |-> CountOf(ix.points, h)]
    IN  PointsOfRegions(ix, hits, SumFunction(hits), CountOf(ix.points, common), CountOf(ix.values, common))

TextCardinality(ix, query) ==
    LET sizes == {Cardinality(PointsOf(ix, t)) : t \in query}
        share == FoldSet(LAMBDA t, x : x * Cardinality(PointsOf(ix, t)), 1, query)
    IN  IF query = {} \/ 0 \in sizes THEN ExactEstimation(0, <<>>)
        ELSE IF Cardinality(query) = 1 THEN ExactEstimation(Min(sizes), <<>>)
        ELSE Estimation(0, share \div (ix.count ^ (Cardinality(query) - 1)), Min(sizes), <<>>)

\* estimate_cardinality of each index: the clause is the condition itself,
\* except for a match of any of several values.
WithClause(c, e) == Some([e EXCEPT !.clauses = <<c>>])
MapEstimate(ix, c) ==
    CASE MatchOf(ix, c) = "value" -> WithClause(c, MatchCardinality(ix, c.match[1][2][2]))
      [] MatchOf(ix, c) = "any"   ->
            Some(CombineShould([i \in DOMAIN c.match[1][2] |-> MatchCardinality(ix, c.match[1][2][i][2])],
                               ix.count))
      [] OTHER                    -> NoOption
NumericEstimate(ix, c) ==
    IF c.range = NoOption THEN NoOption ELSE WithClause(c, RangeCardinality(ix, c.range[1]))
GeoEstimate(ix, c) ==
    CASE c.bbox # NoOption -> WithClause(c, GeoCardinality(ix, RectangleHashes(c.bbox[1], MaxRegions)))
      [] c.bbox = NoOption /\ c.radius # NoOption ->
            WithClause(c, GeoCardinality(ix, CircleHashes(c.radius[1], MaxRegions)))
      [] OTHER             -> NoOption
TextEstimate(ix, c) ==
    IF MatchOf(ix, c) # "text" THEN NoOption ELSE WithClause(c, TextCardinality(ix, Query(c)))
IndexEstimate(ix, c) ==
    CASE ix.kind \in {"keyword", "int_map"} -> MapEstimate(ix, c)
      [] Numeric(ix.kind)                   -> NumericEstimate(ix, c)
      [] ix.kind = "geo"                    -> GeoEstimate(ix, c)
      [] ix.kind = "text"                   -> TextEstimate(ix, c)

-----------------------------------------------------------------------------
(* payload_blocks: conditions that select more than threshold points each, *)
(* for which the vector index builds links of their own.                   *)
Block(c, n) == [condition |-> c, cardinality |-> n]

\* The overlapping ranges of the numeric index, each two histogram steps wide.
RECURSIVE NumericBlocks(_, _, _, _, _)
NumericBlocks(ix, key, size, lower, before) ==
    LET upper == GetRangeBySize(ix.hist, lower, size)
        scale == IF ix.kind = "int" THEN 2 ELSE 1
        bound(b, type) == IF b[1] = type THEN Some(scale * b[2]) ELSE NoOption
        start == before[1]
        range == [lt |-> bound(upper, "excluded"), lte |-> bound(upper, "included"),
                  gt |-> bound(start, "excluded"), gte |-> bound(start, "included")]
        block == IF before # NoOption
                 THEN <<Block([Field(key) EXCEPT !.range = <<range>>], RangeCardinality(ix, range).exp)>>
                 ELSE IF upper = Unbounded
                 THEN <<Block([Field(key) EXCEPT !.range = <<NoRange>>], ix.count)>> ELSE <<>>
    IN  IF upper = Unbounded THEN block
        ELSE block \o NumericBlocks(ix, key, size, Excluded(upper[2]), <<lower>>)

\* get_large_hashes: the smallest regions with more than threshold points.
LargeHashes(ix, threshold) ==
    LET large == {h \in DOMAIN ix.points : ix.points[h] > threshold /\ h # <<>>}
    IN  {h \in large : \A g \in large : IsPrefix(h, g) => g = h}

\* geo_hash_to_box
HashBox(h) ==
    LET k == Len(h)
        west  == SumFunctionOnSet([i \in 1 .. k |-> h[i][1] * 2 ^ (k - i)], 1 .. k) * TileWidth(k)
        south == SumFunctionOnSet([i \in 1 .. k |-> h[i][2] * 2 ^ (k - i)], 1 .. k) * TileWidth(k)
    IN  Box(west, west + TileWidth(k), south + TileWidth(k), south)

\* payload_blocks of each index.
Sized(ix, key) == Cardinality(PointsOf(ix, key))
KeysOf(ix) == {k[1] : k \in ix.map}
MatchBlock(key, match, n) == Block([Field(key) EXCEPT !.match = <<match>>], n)
KeywordBlocks(ix, key, threshold) ==
    {MatchBlock(key, MatchValue(Str(k)), Sized(ix, k)) : k \in {k \in KeysOf(ix) : Sized(ix, k) > threshold}}
IntMapBlocks(ix, key, threshold) ==
    {MatchBlock(key, MatchValue(IntV(k)), Sized(ix, k)) : k \in {k \in KeysOf(ix) : Sized(ix, k) >= threshold}}
TextBlocks(ix, key, threshold) ==
    {MatchBlock(key, MatchText(<<k>>), Sized(ix, k)) : k \in {k \in KeysOf(ix) : Sized(ix, k) >= threshold}}
GeoBlocks(ix, key, threshold) ==
    {Block([Field(key) EXCEPT !.bbox = <<HashBox(h)>>], ix.points[h]) : h \in LargeHashes(ix, threshold)}
PayloadBlocks(ix, key, threshold) ==
    CASE ix.kind = "keyword" -> KeywordBlocks(ix, key, threshold)
      [] ix.kind = "int_map" -> IntMapBlocks(ix, key, threshold)
      [] ix.kind = "text"    -> TextBlocks(ix, key, threshold)
      [] ix.kind = "geo"     -> GeoBlocks(ix, key, threshold)
      [] OTHER -> LET size == IF ix.count = 0 THEN 0 ELSE (threshold * Cardinality(ix.map)) \div ix.count
                  IN  Range(NumericBlocks(ix, key, size \div 2, Unbounded, NoOption))
=============================================================================
