------------------------------- MODULE GeoHash -------------------------------
(***************************************************************************)
(* Geo hashes: a point is encoded as the path to its cell in a tree of     *)
(* tiles, and a region is covered by a bounded number of tiles.  The map   *)
(* is a square of 2^HashLength by 2^HashLength cells that wraps around in  *)
(* longitude and ends at the poles in latitude.  Coordinates are counted   *)
(* in half cells, so a cell c spans 2c .. 2c + 2 and its centre is 2c + 1. *)
(* Each letter of a hash halves both coordinates (five bits in the code).  *)
(***************************************************************************)
EXTENDS Integers, Sequences, FiniteSets, FiniteSetsExt, SequencesExt

CONSTANT HashLength   \* GEOHASH_MAX_LENGTH

Side  == 2 ^ HashLength
World == 2 * Side
Coordinates == 0 .. World - 1

Bit(c, i) == (c \div 2 ^ (HashLength - i)) % 2
\* encode_max_precision, on a point <<lon, lat>>.
Encode(p) == [i \in 1 .. HashLength |-> <<Bit(p[1] \div 2, i), Bit(p[2] \div 2, i)>>]

\* A tile of precision k, by its column and row: the letters of its hash.
TileWidth(k) == World \div 2 ^ k
TileHash(k, col, row) ==
    [i \in 1 .. k |-> <<(col \div 2 ^ (k - i)) % 2, (row \div 2 ^ (k - i)) % 2>>]
Column(p, k) == p[1] \div TileWidth(k)
Row(p, k)    == p[2] \div TileWidth(k)

CommonHashPrefix(hashes) ==
    LET some == CHOOSE h \in hashes : TRUE
        same == {n \in 0 .. Len(some) : \A h \in hashes : SubSeq(h, 1, n) = SubSeq(some, 1, n)}
    IN  SubSeq(some, 1, Max(same))

-----------------------------------------------------------------------------
(* A box has edges west, east, north and south; its check is strict.       *)
Box(w, e, n, s) == [west |-> w, east |-> e, north |-> n, south |-> s]
InBox(box, p) == /\ box.west < p[1] /\ p[1] < box.east
                 /\ box.south < p[2] /\ p[2] < box.north

\* geohash_regions: east from the north-west corner (around the globe when it
\* must), then row by row to the south; None when there are more than
\* max_regions, or when the walk never meets the south-west corner.
GeohashRegions(box, k, max_regions) ==
    LET west  == Column(<<box.west, 0>>, k)
        width == (Column(<<box.east, 0>>, k) - west) % (2 ^ k)
        north == Row(<<0, box.north>>, k)
        south == Row(<<0, box.south>>, k)
    IN  IF north < south \/ (width + 1) * (north - south + 1) > max_regions THEN <<>>
        ELSE <<{TileHash(k, (west + i) % (2 ^ k), j) : i \in 0 .. width, j \in south .. north}>>

\* The finest precision before the first that needs too many tiles.
FinestRegions(box, max_regions) ==
    LET ok == {k \in 0 .. HashLength : \A j \in 0 .. k : GeohashRegions(box, j, max_regions) # <<>>}
    IN  GeohashRegions(box, Max(ok), max_regions)[1]
RectangleHashes(box, max_regions) == FinestRegions(box, max_regions)

-----------------------------------------------------------------------------
(* A circle: distances are measured along the two axes (the haversine      *)
(* distance in the code; the argument only needs the triangle inequality). *)
Circle(c, r) == [center |-> c, radius |-> r]
Abs(n) == IF n < 0 THEN -n ELSE n
Around(d) == IF d > Side THEN World - d ELSE d
Distance(p, q) == Around(Abs(p[1] - q[1])) + Abs(p[2] - q[2])
InCircle(circle, p) == Distance(circle.center, p) < circle.radius

SphereLon(x) == IF x >= World THEN x - World ELSE IF x < 0 THEN x + World ELSE x

MinimumBoundingRectangle(circle) ==
    LET x == circle.center[1]
        y == circle.center[2]
        r == circle.radius
    IN  IF 0 < y - r /\ y + r < World
        THEN Box(SphereLon(x - r), SphereLon(x + r), y + r, y - r)
        ELSE Box(0, World - 1, Min({y + r, World - 1}), Max({y - r, 0}))

\* check_intersection: twice the distances, so that a tile's centre is whole.
CheckIntersection(h, circle) ==
    LET k   == Len(h)
        col == SumFunctionOnSet([i \in 1 .. k |-> h[i][1] * 2 ^ (k - i)], 1 .. k)
        row == SumFunctionOnSet([i \in 1 .. k |-> h[i][2] * 2 ^ (k - i)], 1 .. k)
        mid == <<2 * col * TileWidth(k) + TileWidth(k), 2 * row * TileWidth(k) + TileWidth(k)>>
        dx  == Abs(mid[1] - 2 * circle.center[1])
        dy  == Abs(mid[2] - 2 * circle.center[2])
    IN  k = 0 \/ 2 * TileWidth(k) + 2 * circle.radius > (IF dx > World THEN 2 * World - dx ELSE dx) + dy

CircleHashes(circle, max_regions) ==
    {h \in FinestRegions(MinimumBoundingRectangle(circle), max_regions) : CheckIntersection(h, circle)}
=============================================================================
