------------------------------ MODULE Histogram ------------------------------
(***************************************************************************)
(* The histogram a numeric field index keeps over its (value, offset)      *)
(* pairs to estimate how many of them a range selects.  Some of the pairs  *)
(* are borders; a border counts the pairs strictly between it and the      *)
(* border before it (left) and after it (right).  The histogram does not   *)
(* keep the pairs: it reaches the neighbours of a border through the       *)
(* index's map, which is the set pts here.                                 *)
(***************************************************************************)
EXTENDS Integers, FiniteSets, Sequences, SequencesExt, TLC

CONSTANTS MinBucketSize,   \* MIN_BUCKET_SIZE
          MaxBucketSize,   \* HISTOGRAM_MAX_BUCKET_SIZE
          BucketShare      \* 1 / HISTOGRAM_PRECISION

\* Points are ordered by value, then by offset.
Before(a, b) == a[1] < b[1] \/ (a[1] = b[1] /\ a[2] < b[2])
First(S) == CHOOSE a \in S : \A b \in S : a = b \/ Before(a, b)
Last0(S) == CHOOSE a \in S : \A b \in S : a = b \/ Before(b, a)
LeftNeighbour(pts, p)  == Last0({q \in pts : Before(q, p)})
RightNeighbour(pts, p) == First({q \in pts : Before(p, q)})

Counts(l, r) == [left |-> l, right |-> r]
EmptyHistogram == [total |-> 0, borders |-> <<>>]

CurrentBucketSize(total) ==
    LET size == total \div BucketShare
    IN  IF size < MinBucketSize THEN MinBucketSize
        ELSE IF size > MaxBucketSize THEN MaxBucketSize ELSE size

\* The writes at the end of insert and remove: the neighbours' counts, then
\* the border that goes, then the border that is created.
Rewritten(borders, counts, gone, created) ==
    LET all == counts @@ borders
    IN  created @@ [b \in DOMAIN all \ gone |-> all[b]]
NoBorders == <<>>

\* The borders around val; a border that is val counts as the left one.
LeftBorders(B, val)  == {b \in DOMAIN B : ~ Before(val, b)}
RightBorders(B, val) == {b \in DOMAIN B : Before(val, b)}

\* x|.....|...
InsertBeforeAll(B, size, val) ==
    LET r == First(DOMAIN B)
        far == First(DOMAIN B \ {r})
    IN  IF B[r].right + 1 > size
        THEN Rewritten(B, NoBorders, {}, val :> Counts(0, 0))
        ELSE Rewritten(B, far :> [B[far] EXCEPT !.left = B[r].right + 1], {r}, val :> Counts(0, B[r].right + 1))

\* ...|.....|x
InsertAfterAll(B, size, val) ==
    LET l == Last0(DOMAIN B)
        far == Last0(DOMAIN B \ {l})
    IN  IF B[l].left + 1 > size
        THEN Rewritten(B, NoBorders, {}, val :> Counts(0, 0))
        ELSE Rewritten(B, far :> [B[far] EXCEPT !.right = B[l].left + 1], {l}, val :> Counts(B[l].left + 1, 0))

\* ...|..x.........|...
InsertNearLeft(B, size, pts, val) ==
    LET l   == Last0(LeftBorders(B, val))
        LL  == LeftBorders(B, val) \ {l}
        new == RightNeighbour(pts, l)
    IN  IF B[l].left < size /\ LL # {}
        THEN Rewritten(B, Last0(LL) :> [B[Last0(LL)] EXCEPT !.right = B[l].left + 1],
                       {l}, new :> Counts(B[l].left + 1, B[l].right))
        ELSE Rewritten(B, l :> [B[l] EXCEPT !.right = 0], {}, new :> Counts(0, B[l].right))

\* ...|........x...|...
InsertNearRight(B, size, pts, val) ==
    LET r   == First(RightBorders(B, val))
        RR  == RightBorders(B, val) \ {r}
        new == LeftNeighbour(pts, r)
    IN  IF B[r].right < size /\ RR # {}
        THEN Rewritten(B, First(RR) :> [B[First(RR)] EXCEPT !.left = B[r].right + 1],
                       {r}, new :> Counts(B[r].left, B[r].right + 1))
        ELSE Rewritten(B, r :> [B[r] EXCEPT !.left = 0], {}, new :> Counts(B[r].left, 0))

InsertBetween(B, size, pts, val) ==
    LET l == Last0(LeftBorders(B, val))
        r == First(RightBorders(B, val))
    IN  IF B[l].right + 1 <= size
        THEN Rewritten(B, (l :> [B[l] EXCEPT !.right = @ + 1]) @@ (r :> [B[r] EXCEPT !.left = B[l].right + 1]),
                       {}, NoBorders)
        ELSE IF val[1] - l[1] < r[1] - val[1] THEN InsertNearLeft(B, size, pts, val)
        ELSE InsertNearRight(B, size, pts, val)

InsertPoint(h, pts, val) ==
    LET n    == h.total + 1
        size == CurrentBucketSize(n)
        B    == h.borders
    IN  [total   |-> n,
         borders |-> IF Cardinality(DOMAIN B) < 2 THEN (val :> Counts(0, 0)) @@ B
                     ELSE IF LeftBorders(B, val) = {} THEN InsertBeforeAll(B, size, val)
                     ELSE IF RightBorders(B, val) = {} THEN InsertAfterAll(B, size, val)
                     ELSE InsertBetween(B, size, pts, val)]

\* ....|
RemoveLastBorder(B, pts, l) ==
    LET LL == DOMAIN B \ {l}
        fl == Last0(LL)
    IN  IF B[l].left = 0 THEN Rewritten(B, NoBorders, {l}, NoBorders)
        ELSE Rewritten(B, IF LL = {} THEN NoBorders ELSE fl :> [B[fl] EXCEPT !.right = @ - 1],
                       {l}, LeftNeighbour(pts, l) :> Counts(B[l].left - 1, 0))

\* ...|....|...
RemoveInnerBorder(B, size, pts, l) ==
    LET r  == First(RightBorders(B, l))
        LL == LeftBorders(B, l) \ {l}
        fl == Last0(LL)
        both == B[fl].right + B[r].left
    IN  IF B[l].right = 0
        THEN Rewritten(B, r :> [B[r] EXCEPT !.left = B[l].left], {l}, NoBorders)
        ELSE IF B[r].left + B[l].left <= size /\ LL # {}
        THEN Rewritten(B, (fl :> [B[fl] EXCEPT !.right = both]) @@ (r :> [B[r] EXCEPT !.left = both]),
                       {l}, NoBorders)
        ELSE Rewritten(B, r :> [B[r] EXCEPT !.left = @ - 1], {l},
                       RightNeighbour(pts, l) :> Counts(B[l].left, B[l].right - 1))

\* val has left the map.  A val that is a border is the close left neighbour
\* (the range up to val includes it), so the branches for "the right
\* neighbour is val" are never taken.
RemovePoint(h, pts, val) ==
    LET size == CurrentBucketSize(h.total)
        B    == h.borders
        l    == Last0(LeftBorders(B, val))
        r    == First(RightBorders(B, val))
        removed(borders) == [total |-> h.total - 1, borders |-> borders]
    IN  IF LeftBorders(B, val) = {} THEN h
        ELSE IF RightBorders(B, val) = {} THEN IF l = val THEN removed(RemoveLastBorder(B, pts, l)) ELSE h
        ELSE IF l = val THEN removed(RemoveInnerBorder(B, size, pts, l))
        ELSE IF B[r].left = 0 THEN h
        ELSE removed(Rewritten(B, (l :> [B[l] EXCEPT !.right = @ - 1]) @@ (r :> [B[r] EXCEPT !.left = @ - 1]),
                               {}, NoBorders))

-----------------------------------------------------------------------------
\* Bounds of a range: at, beyond or without a value.
Included(v) == <<"included", v>>
Excluded(v) == <<"excluded", v>>
Unbounded   == <<"unbounded">>

\* range((from_, _)) and range((_, to_)), where an included lower bound is the
\* pair (v, 0), an excluded one (v, MAX), and the other way round above.
FromBound(b, p) == CASE b[1] = "included" -> p[1] >= b[2]
                     [] b[1] = "excluded" -> p[1] > b[2]
                     [] OTHER -> TRUE
ToBound(b, p)   == CASE b[1] = "included" -> p[1] <= b[2]
                     [] b[1] = "excluded" -> p[1] < b[2]
                     [] OTHER -> TRUE
\* range((Unbounded, from_)) and range((to_, Unbounded)), with the same pairs
\* used as bounds of the other side.
UpToFrom(b, p)  == CASE b[1] = "included" -> p[1] < b[2] \/ p = <<b[2], 0>>
                     [] b[1] = "excluded" -> p[1] <= b[2]
                     [] OTHER -> FALSE
PastTo(b, p)    == CASE b[1] = "included" -> p[1] > b[2]
                     [] b[1] = "excluded" -> p[1] > b[2] \/ (p[1] = b[2] /\ p[2] > 0)
                     [] OTHER -> FALSE

\* What the borders a and b, with n values strictly between, give to the count
\* of the values in low .. high.
Window(a, b, n, low, high) ==
    LET range == b[1] - a[1]
    IN  IF range = 0 THEN <<n + 1, n + 1, n + 1>>
        ELSE IF n = 0 THEN <<1, 1, 1>>
        ELSE <<IF high - low = range THEN n + 1 ELSE 0,
               ((2 * n * (high - low) + range) \div (2 * range)) + 1,
               n + 1>>

\* The windows along a chain of borders, added up.
SumOfWindows(B, chain, fromVal, toVal) ==
    FoldFunction(LAMBDA w, sum : [k \in 1 .. 3 |-> w[k] + sum[k]], <<0, 0, 0>>,
        [i \in 1 .. Len(chain) - 1 |->
            Window(chain[i], chain[i + 1], B[chain[i]].right,
                   IF fromVal > chain[i][1] THEN fromVal ELSE chain[i][1],
                   IF toVal < chain[i + 1][1] THEN toVal ELSE chain[i + 1][1])])

\* The borders a range meets: the last one before it, those in it and the
\* first one past it.
BordersAlong(B, from, to) ==
    LET lefts  == {b \in DOMAIN B : UpToFrom(from, b)}
        rights == {b \in DOMAIN B : PastTo(to, b)}
    IN  (IF lefts = {} THEN <<>> ELSE <<Last0(lefts)>>)
        \o SetToSortSeq({b \in DOMAIN B : FromBound(from, b) /\ ToBound(to, b)}, Before)
        \o (IF rights = {} THEN <<>> ELSE <<First(rights)>>)

\* How many values a range selects: the least, the expected and the greatest
\* number.  lowest and highest stand for T::min_value and T::max_value.
Estimate(h, from, to, lowest, highest) ==
    LET fromVal == IF from = Unbounded THEN lowest ELSE from[2]
        toVal   == IF to = Unbounded THEN highest ELSE to[2]
    IN  IF fromVal > toVal THEN <<0, 0, 0>>
        ELSE SumOfWindows(h.borders, BordersAlong(h.borders, from, to), fromVal, toVal)

\* The upper bound of a range that starts at from and holds about size values.
GetRangeBySize(h, from, size) ==
    LET B    == SetToSortSeq({b \in DOMAIN h.borders : FromBound(from, b)}, Before)
        reached(i) == SumFunctionOnSet([j \in 1 .. i |-> h.borders[B[j]].left], 1 .. i)
        full == {i \in DOMAIN B : reached(i) > size}
    IN  IF full = {} THEN Unbounded
        ELSE Included(B[CHOOSE i \in full : \A j \in full : i <= j][1])

\* What the counts mean: the borders are pairs of the map, the first and the
\* last pair are borders, and a border's counts are the numbers of pairs up
\* to the borders next to it.
Exact(h, pts) ==
    LET B == h.borders
        inside(S) == Cardinality(S)
        prev(b) == {a \in DOMAIN B : Before(a, b)}
        succ(b) == {c \in DOMAIN B : Before(b, c)}
    IN  /\ h.total = Cardinality(pts)
        /\ DOMAIN B \subseteq pts
        /\ pts # {} => First(pts) \in DOMAIN B /\ Last0(pts) \in DOMAIN B
        /\ \A b \in DOMAIN B :
             /\ B[b].left = IF prev(b) = {} THEN 0
                            ELSE inside({p \in pts : Before(Last0(prev(b)), p) /\ Before(p, b)})
             /\ B[b].right = IF succ(b) = {} THEN 0
                             ELSE inside({p \in pts : Before(b, p) /\ Before(p, First(succ(b)))})
=============================================================================
