---------------------------- MODULE PayloadFilter ----------------------------
(***************************************************************************)
(* Payloads and filters over them: paths into a payload, what a filter     *)
(* means on a payload (the checker that scans), how it is rewritten for    *)
(* the indexes (the optimizer), and how cardinality estimations of its     *)
(* conditions are combined.                                                *)
(*                                                                         *)
(* A payload is a JSON object, addressed by paths such as a.b, a[].b or    *)
(* a[0].b.  A value is a tuple that starts with its kind:                  *)
(*   <<"null">>  <<"bool", b>>  <<"int", n>>  <<"float", h>> (h halves)    *)
(*   <<"str", words>>  <<"geo", point>>  <<"arr", values>>  <<"obj", map>> *)
(* A geo point is an object {lon, lat}; its coordinates are one pair of    *)
(* numbers.  A path is a sequence of steps [name, at]; a trailing dot is a *)
(* last step with the name "".                                             *)
(*                                                                         *)
(* An Option is a sequence of length 0 or 1.  A filter has three optional  *)
(* lists of conditions; a condition is a leaf or a nested filter.  Numbers *)
(* are counted in halves so that a range can have a bound between two      *)
(* integers.                                                               *)
(***************************************************************************)
EXTENDS GeoHash

-----------------------------------------------------------------------------
(* Paths                                                                   *)

Null     == <<"null">>
IntV(n)  == <<"int", n>>
Float(h) == <<"float", h>>
Str(ws)  == <<"str", ws>>
Geo(c)   == <<"geo", c>>
Arr(vs)  == <<"arr", vs>>
Obj(map) == <<"obj", map>>
Is(kind, v) == v[1] = kind
IsObject(v) == Is("obj", v) \/ Is("geo", v)
NoMap == <<>>
MapOf(v) == IF Is("obj", v) THEN v[2] ELSE NoMap

NoIndex  == -2
AllItems == -1
Step(name, at) == [name |-> name, at |-> at]
EmptyRest == <<Step("", NoIndex)>>

\* The positions of an array that a step selects: objects only.
Selected(step, items) ==
    {i \in DOMAIN items : /\ IsObject(items[i])
                          /\ step.at \in {AllItems, i - 1}}

\* MultiValue is the sequence of its values.
RECURSIVE GetValue(_, _)
FocusArrayPath(step, rest, items) ==
    FlattenSeq([i \in DOMAIN items |->
                  IF i \notin Selected(step, items) THEN <<>>
                  ELSE IF rest = <<>> THEN <<items[i]>>
                  ELSE GetValue(rest, MapOf(items[i]))])

GetValue(path, map) ==
    LET step == Head(path)
        rest == Tail(path)
        v    == map[step.name]
    IN  IF step.name \notin DOMAIN map THEN <<>>
        ELSE IF step.at # NoIndex
        THEN IF Is("arr", v) THEN FocusArrayPath(step, rest, v[2]) ELSE <<>>
        ELSE IF rest = <<>> THEN <<v>>
        ELSE IF IsObject(v) THEN GetValue(rest, MapOf(v))
        ELSE IF rest = EmptyRest THEN <<v>>
        ELSE <<>>

\* The map without what the path addresses, and the values taken out.
Removed(map, values) == [map |-> map, values |-> values]
With(map, name, v) == [x \in DOMAIN map |-> IF x = name THEN v ELSE map[x]]
Without(map, name) == [x \in DOMAIN map \ {name} |-> map[x]]

RECURSIVE RemoveValue(_, _)
DeleteArrayPath(step, rest, map, items) ==
    IF rest = <<>>
    THEN IF step.at = AllItems
         THEN Removed(With(map, step.name, Arr(<<>>)), <<Arr(items)>>)
         ELSE IF Len(items) > step.at
         THEN Removed(With(map, step.name, Arr(RemoveAt(items, step.at + 1))), <<items[step.at + 1]>>)
         ELSE Removed(map, <<>>)
    ELSE LET inner == [i \in DOMAIN items |->
                          IF i \in Selected(step, items) /\ Is("obj", items[i])
                          THEN RemoveValue(rest, items[i][2])
                          ELSE Removed(NoMap, <<>>)]
             kept  == [i \in DOMAIN items |->
                          IF i \in Selected(step, items) /\ Is("obj", items[i])
                          THEN Obj(inner[i].map) ELSE items[i]]
         IN  Removed(With(map, step.name, Arr(kept)),
                     FlattenSeq([i \in DOMAIN items |-> inner[i].values]))

RemoveValue(path, map) ==
    LET step == Head(path)
        rest == Tail(path)
        v    == map[step.name]
        deep == RemoveValue(rest, v[2])
    IN  IF step.name \notin DOMAIN map THEN Removed(map, <<>>)
        ELSE IF step.at # NoIndex
        THEN IF Is("arr", v) THEN DeleteArrayPath(step, rest, map, v[2]) ELSE Removed(map, <<>>)
        ELSE IF rest \in {<<>>, EmptyRest} THEN Removed(Without(map, step.name), <<v>>)
        ELSE IF Is("obj", v) THEN Removed(With(map, step.name, Obj(deep.map)), deep.values)
        ELSE Removed(map, <<>>)

\* Payload::merge: a null takes the key out, other values replace it.
Merge(map, new) ==
    LET gone == {k \in DOMAIN new : new[k] = Null}
    IN  [k \in (DOMAIN map \cup DOMAIN new) \ gone |-> IF k \in DOMAIN new THEN new[k] ELSE map[k]]

\* MultiValue::check_is_empty and check_is_null.
CheckIsEmpty(values) == \A i \in DOMAIN values : values[i] \in {Null, Arr(<<>>)}
CheckIsNull(values)  == \E i \in DOMAIN values : values[i] = Null

\* PayloadSelector::process: the top-level keys that are listed, or the rest.
SelectPayload(selector, map) ==
    [k \in {k \in DOMAIN map : (k \in selector.keys) = selector.include} |-> map[k]]

-----------------------------------------------------------------------------
(* Conditions                                                              *)

NoOption == <<>>
Some(x)  == <<x>>

Filter(should, must, must_not) ==
    [t |-> "filter", should |-> should, must |-> must, must_not |-> must_not]
Field(key) == [t |-> "field", key |-> key, match |-> NoOption, range |-> NoOption,
               radius |-> NoOption, bbox |-> NoOption, count |-> NoOption]
IsEmptyField(key) == [t |-> "is_empty", key |-> key]
IsNullField(key)  == [t |-> "is_null", key |-> key]
HasId(ids)   == [t |-> "has_id", ids |-> ids]

MatchValue(v) == <<"value", v>>
MatchText(ws) == <<"text", ws>>
MatchAny(vs)  == <<"any", vs>>
NoRange == [gt |-> NoOption, gte |-> NoOption, lt |-> NoOption, lte |-> NoOption]

-----------------------------------------------------------------------------
(* condition_checker.rs: an array satisfies a condition when one of its    *)
(* elements does.                                                          *)
Elements(v) == IF Is("arr", v) THEN Range(v[2]) ELSE {v}
IsNumber(v) == v[1] \in {"int", "float"}
Halves(v)   == IF Is("int", v) THEN 2 * v[2] ELSE v[2]

MatchHolds(m, v) ==
    CASE m[1] = "value" -> v = m[2]
      [] m[1] = "text"  -> Is("str", v) /\ \E i \in 0 .. Len(v[2]) - Len(m[2]) :
                               SubSeq(v[2], i + 1, i + Len(m[2])) = m[2]
      [] m[1] = "any"   -> v \in Range(m[2])
CheckRange(r, h) ==
    /\ \A b \in Range(r.lt)  : h < b
    /\ \A b \in Range(r.gt)  : h > b
    /\ \A b \in Range(r.lte) : h <= b
    /\ \A b \in Range(r.gte) : h >= b
RangeHolds(r, v)  == IsNumber(v) /\ CheckRange(r, Halves(v))
RadiusHolds(g, v) == Is("geo", v) /\ InCircle(g, v[2])
BoxHolds(g, v)    == Is("geo", v) /\ InBox(g, v[2])
\* The number of values of a field: of the whole value, not of an element.
ValuesCount(v) == CASE Is("null", v) -> 0
                    [] Is("arr", v)  -> Len(v[2])
                    [] OTHER         -> 1

CheckFieldCondition(c, payload) ==
    \E v \in Range(GetValue(c.key, payload)) :
        \/ \E m \in Range(c.match)  : \E x \in Elements(v) : MatchHolds(m, x)
        \/ \E r \in Range(c.range)  : \E x \in Elements(v) : RangeHolds(r, x)
        \/ \E g \in Range(c.radius) : \E x \in Elements(v) : RadiusHolds(g, x)
        \/ \E g \in Range(c.bbox)   : \E x \in Elements(v) : BoxHolds(g, x)
        \/ \E n \in Range(c.count)  : CheckRange(n, 2 * ValuesCount(v))

\* check_payload, on a leaf: id is the external id of the point.
CheckLeaf(c, id, payload) ==
    CASE c.t = "field"    -> CheckFieldCondition(c, payload)
      [] c.t = "is_empty" -> CheckIsEmpty(GetValue(c.key, payload))
      [] c.t = "is_null"  -> CheckIsNull(GetValue(c.key, payload))
      [] c.t = "has_id"   -> id \in c.ids

-----------------------------------------------------------------------------
(* Filters over the truth of their leaves.                                 *)
RECURSIVE Leaves(_)
Leaves(f) ==
    UNION {IF c.t = "filter" THEN Leaves(c) ELSE {c} :
             c \in UNION {Range(l) : l \in Range(f.should \o f.must \o f.must_not)}}

\* check_filter: an absent list demands nothing, an empty should list fails.
RECURSIVE CheckFilter(_, _)
CheckFilter(holds, f) ==
    LET check(c) == IF c.t = "filter" THEN CheckFilter(holds, c) ELSE holds[c]
    IN  /\ \A l \in Range(f.should)   : \E c \in Range(l) : check(c)
        /\ \A l \in Range(f.must)     : \A c \in Range(l) : check(c)
        /\ \A l \in Range(f.must_not) : \A c \in Range(l) : ~ check(c)

\* OptimizedFilter: the same, over the checkers the conditions became.
CheckOptimizedFilter(holds, f) == CheckFilter(holds, f)

RECURSIVE OptimizeFilter(_)

\* convert_conditions of a list, for optimize_should, optimize_must and
\* optimize_must_not: each condition becomes a checker.  The order in which the
\* estimations then put them does not matter to the answer.
ConvertConditions(l) ==
    Some([i \in DOMAIN l[1] |-> IF l[1][i].t = "filter" THEN OptimizeFilter(l[1][i]) ELSE l[1][i]])

\* optimize_filter: a list that is empty counts as absent.
OptimizeFilter(f) ==
    LET optimize(l) == IF l \in {NoOption, <<<<>>>>} THEN NoOption
                       ELSE ConvertConditions(l)
    IN  [f EXCEPT !.should = optimize(@), !.must = optimize(@), !.must_not = optimize(@)]

-----------------------------------------------------------------------------
(* query_estimator.rs: an estimation is a record of the least, expected    *)
(* and greatest number of points and of the primary clauses, the           *)
(* conditions that an index can iterate over.                              *)
Estimation(mn, ex, mx, clauses) == [min |-> mn, exp |-> ex, max |-> mx, clauses |-> clauses]
ExactEstimation(n, clauses) == Estimation(n, n, n, clauses)
UnknownEstimation(total) == Estimation(0, total \div 2, total, <<>>)

MinOf(x, y) == IF x < y THEN x ELSE y
MaxOf(x, y) == IF x > y THEN x ELSE y
Product(s) == FoldLeft(LAMBDA x, y : x * y, 1, s)
SumOf(s)   == FoldLeft(LAMBDA x, y : x + y, 0, s)
Rounded(n, d) == (2 * n + d) \div (2 * d)
\* The product of the shares s[i] / total is Product(s) / Totals(s, total).
Totals(s, total) == Product([i \in DOMAIN s |-> total])

CombineShould(es, total) ==
    LET exps    == [i \in DOMAIN es |-> total - es[i].exp]
        clauses == IF \E i \in DOMAIN es : es[i].clauses = <<>> THEN <<>>
                   ELSE FlattenSeq([i \in DOMAIN es |-> es[i].clauses])
    IN  Estimation(Max({0} \cup {es[i].min : i \in DOMAIN es}),
                   IF total = 0 THEN 0
                   ELSE Rounded(total * (Totals(exps, total) - Product(exps)), Totals(exps, total)),
                   MinOf(SumOf([i \in DOMAIN es |-> es[i].max]), total),
                   clauses)

\* The clauses are those of the estimation that expects the fewest points.
CombineMust(es, total) ==
    LET exps == [i \in DOMAIN es |-> es[i].exp]
        withClauses == {i \in DOMAIN es : es[i].clauses # <<>>}
        best == CHOOSE i \in withClauses :
                  \A j \in withClauses : es[i].exp < es[j].exp \/ (es[i].exp = es[j].exp /\ i <= j)
    IN  Estimation(FoldLeft(LAMBDA acc, e : MaxOf(0, acc + e.min - total), total, es),
                   IF total = 0 THEN 0 ELSE Rounded(total * Product(exps), Totals(exps, total)),
                   Min({total} \cup {es[i].max : i \in DOMAIN es}),
                   IF withClauses = {} THEN <<>> ELSE es[best].clauses)

InvertEstimationInPlace(e, total) == Estimation(total - e.min, total - e.exp, total - e.max, <<>>)
InvertEstimation(e, total) == Estimation(total - e.max, total - e.exp, total - e.min, <<>>)
CombineMustNot(es, total) == CombineMust([i \in DOMAIN es |-> InvertEstimation(es[i], total)], total)

\* estimate_filter, and the estimations optimize_filter collects; est gives
\* the estimation of a leaf.
RECURSIVE EstimateFilter(_, _, _)
EstimateFilter(est, f, total) ==
    LET each(l) == [i \in DOMAIN l |-> IF l[i].t = "filter" THEN EstimateFilter(est, l[i], total)
                                       ELSE est[l[i]]]
        part(l, combine(_, _)) == IF l \in {NoOption, <<<<>>>>} THEN <<>> ELSE <<combine(each(l[1]), total)>>
    IN  CombineMust(part(f.must, CombineMust) \o part(f.should, CombineShould)
                    \o part(f.must_not, CombineMustNot), total)
=============================================================================
