---------------------------- MODULE SpatialIndex ----------------------------
(***************************************************************************)
(* The geometry of an area: what POST /areas accepts as a boundary, what   *)
(* the index keeps of it and how it answers "which areas cover this point".*)
(*                                                                         *)
(* Coordinates are integers: one is the finest step a client can write,    *)
(* Grain of them are the ninth decimal, the last one ST_AsGeoJSON writes.  *)
(* A boundary is [type, coordinates], its coordinates a sequence of rings, *)
(* a ring a sequence of positions <<lng, lat>>.                            *)
(***************************************************************************)
EXTENDS Integers, Sequences, FiniteSetsExt

CONSTANTS
    LngRange,       \* 180 degrees
    LatRange,       \* 90 degrees
    MaxVertices,    \* MAX_POLYGON_VERTICES
    Grain           \* what ST_AsGeoJSON rounds a coordinate to

MinRingPositions == 4

Closed(ring) == ring[1] = ring[Len(ring)]

\* A position is a pair of numbers within range.
PositionFailure(pos) ==
    \/ Len(pos) # 2
    \/ pos[1] \notin -LngRange..LngRange
    \/ pos[2] \notin -LatRange..LatRange

\* Mutant of RingFailure: a ring need not be closed.
RingMayBeOpen(ring) ==
    Len(ring) < MinRingPositions \/ \E i \in DOMAIN ring : PositionFailure(ring[i])

RingFailure(ring) ==
    \/ Len(ring) < MinRingPositions
    \/ \E i \in DOMAIN ring : PositionFailure(ring[i])
    \/ ~Closed(ring)

\* The vertices of all rings, the closing repeats left out.
VertexCount(rings) == MapThenSumSet(LAMBDA i : Len(rings[i]) - 1, DOMAIN rings)

GeoJsonPolygonFailure(b) ==
    \/ b.type # "Polygon"
    \/ b.coordinates = <<>>
    \/ \E i \in DOMAIN b.coordinates : RingFailure(b.coordinates[i])
    \/ VertexCount(b.coordinates) > MaxVertices

\* ST_GeomFromGeoJSON raises an error on a boundary that is no polygon.
GeomFromGeoJsonThrows(b) ==
    \/ b.type # "Polygon"
    \/ \E i \in DOMAIN b.coordinates :
          Len(b.coordinates[i]) < MinRingPositions \/ ~Closed(b.coordinates[i])

-----------------------------------------------------------------------------
(***************************************************************************)
(* Containment, for turf and for ST_Covers: on an edge of any ring, or     *)
(* inside by the parity of the edges a ray to the east crosses.            *)
(***************************************************************************)

Edges(rings) ==
    UNION {{<<rings[r][i], rings[r][i + 1]>> : i \in 1..(Len(rings[r]) - 1)} : r \in DOMAIN rings}

\* Twice the signed area of the triangle of an edge and a point.
Side(e, p) ==
    (e[2][1] - e[1][1]) * (p[2] - e[1][2]) - (e[2][2] - e[1][2]) * (p[1] - e[1][1])

Between(x, a, b) == Min({a, b}) <= x /\ x <= Max({a, b})

OnEdge(e, p) ==
    /\ Side(e, p) = 0
    /\ Between(p[1], e[1][1], e[2][1]) /\ Between(p[2], e[1][2], e[2][2])

CrossesEast(e, p) ==
    \/ e[1][2] <= p[2] /\ p[2] < e[2][2] /\ Side(e, p) > 0
    \/ e[2][2] <= p[2] /\ p[2] < e[1][2] /\ Side(e, p) < 0

Covers(rings, p) ==
    \/ \E e \in Edges(rings) : OnEdge(e, p)
    \/ Quantify(Edges(rings), LAMBDA e : CrossesEast(e, p)) % 2 = 1

-----------------------------------------------------------------------------
(***************************************************************************)
(* The index: a box per area from its outer ring, then containment in what *)
(* ST_AsGeoJSON wrote of the boundary.                                     *)
(***************************************************************************)

Rounded(x) == Grain * ((x + Grain \div 2) \div Grain)

AsGeoJson(rings) ==
    [r \in DOMAIN rings |-> [i \in DOMAIN rings[r] |->
        <<Rounded(rings[r][i][1]), Rounded(rings[r][i][2])>>]]

Box(ring) ==
    LET lng == {ring[i][1] : i \in DOMAIN ring}
        lat == {ring[i][2] : i \in DOMAIN ring} IN
    [minX |-> Min(lng), maxX |-> Max(lng), minY |-> Min(lat), maxY |-> Max(lat)]

\* Mutant of ToIndexedArea: the box of the last ring, a hole if there is one.
ToIndexedAreaLastRing(rings) == [box |-> Box(rings[Len(rings)]), boundary |-> rings]

ToIndexedArea(rings) == [box |-> Box(rings[1]), boundary |-> rings]

\* The box prefilter of the tree, then the exact test.
Found(entry, p) ==
    /\ entry.box.minX <= p[1] /\ p[1] <= entry.box.maxX
    /\ entry.box.minY <= p[2] /\ p[2] <= entry.box.maxY
    /\ Covers(entry.boundary, p)
=============================================================================
