----------------------------- MODULE GeoFormats -----------------------------
(***************************************************************************)
(* The shapes that an application makes with types.py, and what becomes of *)
(* them: they are written as GeoJSON or WKT and read again, any number of  *)
(* times, and they are put into a query, whose message (_native.py) the    *)
(* server takes apart (geo_state_machine.zig; external).                   *)
(*                                                                         *)
(* A number of degrees is a float next to a whole number n of              *)
(* nanodegrees, and stands here as that n: round() gives n back, and int() *)
(* gives n or, where the product of the floats falls short of n, the       *)
(* integer before it.  Texts are the rings that are in them; of the syntax *)
(* only exponents are left, which a number below 1e-4 is printed with.     *)
(***************************************************************************)
EXTENDS Integers, SequencesExt, FiniteSetsExt

CONSTANTS Point,            \* the <<lat, lon>>, in nanodegrees, that shapes are made of
          Short,            \* the n for which float(n / 1e9) * 1e9 falls short of n
          ExponentMax,      \* a number of degrees below this is printed with an exponent: 1e5
          LatMax, LonMax,   \* 90e9 and 180e9
          VerticesMax, HolesMax, HoleVerticesMin,
          U32Max,           \* the largest number of millimetres that a message holds: 2^32 - 1
          RadiusMax,        \* bound: radii, in half millimetres
          TripMax,          \* bound: texts that are read
          None

FormatsAssumption ==
    /\ Point \subseteq Int \X Int /\ Short \subseteq Int \ {0}
    /\ ExponentMax \in Nat /\ LatMax \in Nat /\ LonMax \in Nat
    /\ VerticesMax \in Nat /\ HolesMax \in Nat /\ HoleVerticesMin \in Nat \ {0}
    /\ U32Max \in Nat /\ RadiusMax \in Nat /\ TripMax \in Nat /\ None \notin Nat

VARIABLES given,     \* the shape that the application began with, or None
          shape,     \* what it is now
          text,      \* what was last written of it, or None
          trips,     \* the texts that have been read
          message    \* the last query for it, or None

vars == <<given, shape, text, trips, message>>

Init == given = None /\ shape = None /\ text = None /\ trips = 0 /\ message = None

Abs(n) == IF n < 0 THEN -n ELSE n
Points(s) == UNION {ToSet(s.rings[i]) : i \in DOMAIN s.rings}

\* A point is a ring of one; the first ring of a polygon is its exterior, the others are holes.
Give ==
    /\ given = None
    /\ \/ \E p \in Point : given' = [kind |-> "point", rings |-> <<<<p>>>>]
       \/ \E exterior \in [1..3 -> Point], holes \in BoundedSeq(BoundedSeq(Point, 3) \ {<<>>}, 2) :
            given' = [kind |-> "polygon", rings |-> <<exterior>> \o holes]
    /\ shape' = given'
    /\ UNCHANGED <<text, trips, message>>

-----------------------------------------------------------------------------
(* Texts *)

Swapped(p) == <<p[2], p[1]>>
WriteRings(rings) == [i \in DOMAIN rings |-> [j \in DOMAIN rings[i] |-> Swapped(rings[i][j])]]

Write(format) ==
    /\ shape # None
    /\ text' = [format |-> format, kind |-> shape.kind, rings |-> WriteRings(shape.rings)]
    /\ UNCHANGED <<given, shape, trips, message>>

\* to_geojson_point and to_geojson_polygon
ToGeojson == Write("GEOJSON")

\* to_wkt_point and to_wkt_polygon
ToWkt == Write("WKT")

\* _degrees_to_nanodegrees: int(), which cuts towards zero.
Nanodegrees(n) == IF n \in Short THEN (IF n < 0 THEN n + 1 ELSE n - 1) ELSE n

\* _validate_latitude and _validate_longitude
InBounds(lat, lon) == Abs(lat) <= LatMax /\ Abs(lon) <= LonMax

\* Mutant of ParsePoint: the latitude is expected first.
LatitudeFirst(p) == <<Nanodegrees(p[1]), Nanodegrees(p[2])>>

\* The longitude comes first in both formats.
ParsePoint(p) == <<Nanodegrees(p[2]), Nanodegrees(p[1])>>
ParseRings(rings) == [i \in DOMAIN rings |-> [j \in DOMAIN rings[i] |-> ParsePoint(rings[i][j])]]

\* A text of this format and kind is read; another, or one that cannot be read, raises
\* GeoFormatError, and nothing changes.
Parse(format, kind) ==
    /\ text # None /\ text.format = format /\ text.kind = kind /\ trips < TripMax
    /\ shape' = [kind |-> kind, rings |-> ParseRings(text.rings)]
    /\ trips' = trips + 1 /\ text' = None
    /\ UNCHANGED <<given, message>>

ValidPoint(p) == InBounds(p[2], p[1])

parse_geojson_point == Parse("GEOJSON", "point") /\ ValidPoint(text.rings[1][1])

\* parse_ring
ValidRing(ring) == Len(ring) >= 3 /\ \A i \in DOMAIN ring : ValidPoint(ring[i])

parse_geojson_polygon == Parse("GEOJSON", "polygon") /\ \A i \in DOMAIN text.rings : ValidRing(text.rings[i])

\* The pattern of a WKT point has no exponent.
Exponent(n) == n # 0 /\ Abs(n) < ExponentMax

parse_wkt_point ==
    /\ Parse("WKT", "point")
    /\ LET p == text.rings[1][1] IN ValidPoint(p) /\ \A i \in 1..2 : ~Exponent(p[i])

\* _parse_wkt_ring
ValidWktRing(ring) == ValidRing(ring)

\* The rings are told apart by their parentheses.
parse_wkt_polygon == Parse("WKT", "polygon") /\ \A i \in DOMAIN text.rings : ValidWktRing(text.rings[i])

-----------------------------------------------------------------------------
(* Queries and events *)

\* round(): a half goes to the even neighbour.
RoundHalves(h) == LET q == h \div 2 IN IF h % 2 = 0 \/ q % 2 = 0 THEN q ELSE q + 1

\* create_polygon_query refuses any other shape.
ValidPolygon(rings) ==
    /\ Len(rings[1]) \in 3..VerticesMax /\ Len(rings) - 1 <= HolesMax
    /\ \A i \in 2..Len(rings) : Len(rings[i]) >= HoleVerticesMin
    /\ \A p \in UNION {ToSet(rings[i]) : i \in DOMAIN rings} : InBounds(p[1], p[2])

QueryPolygonFilter(rings) == [vertices |-> rings[1], holes |-> Tail(rings)]

\* query_polygon_filter_to_wire
PolygonMessage(filter) ==
    [vertex_count |-> Len(filter.vertices), hole_count |-> Len(filter.holes),
     vertices |-> filter.vertices,
     hole_descriptors |-> [i \in DOMAIN filter.holes |-> Len(filter.holes[i])],
     hole_vertices |-> FlattenSeq(filter.holes)]

CreatePolygonQuery ==
    /\ shape # None /\ shape.kind = "polygon" /\ ValidPolygon(shape.rings)
    /\ message' = [query |-> "polygon", of |-> shape] @@ PolygonMessage(QueryPolygonFilter(shape.rings))
    /\ UNCHANGED <<given, shape, text, trips>>

\* meters_to_mm, of half millimetres
QueryRadiusFilter(center, half_mm) == [center |-> center, radius_mm |-> RoundHalves(half_mm)]

\* query_radius_filter_to_wire
RadiusMessage(filter) ==
    [filter EXCEPT !.radius_mm = IF filter.radius_mm < U32Max THEN filter.radius_mm ELSE U32Max]

CreateRadiusQuery ==
    /\ shape # None /\ shape.kind = "point"
    /\ \E half_mm \in 1..RadiusMax, p \in Points(shape) :
        /\ InBounds(p[1], p[2])
        /\ message' = [query |-> "radius", of |-> shape, asked |-> half_mm]
                        @@ RadiusMessage(QueryRadiusFilter(p, half_mm))
    /\ UNCHANGED <<given, shape, text, trips>>

\* An event, which has no id and no timestamp yet; its other fields are passed on as they are.
GeoEvent(p) == [id |-> 0, lat_nano |-> p[1], lon_nano |-> p[2], timestamp |-> 0]

\* geo_event_to_wire: the id is made of the place and of the time.
EventMessage(event) ==
    [event EXCEPT !.id = IF event.id = 0 THEN Abs(event.lat_nano * event.lon_nano) ELSE event.id]

CreateGeoEvent ==
    /\ shape # None /\ shape.kind = "point"
    /\ \E p \in Points(shape) :
        /\ InBounds(p[1], p[2])
        /\ message' = [query |-> "event", of |-> shape] @@ EventMessage(GeoEvent(p))
    /\ UNCHANGED <<given, shape, text, trips>>

\* The rings that the server finds in the message of a polygon query (external).
Received(m) ==
    LET Start(i) == SumFunctionOnSet(m.hole_descriptors, 1..i - 1)
        Hole(i) == SubSeq(m.hole_vertices, Start(i) + 1, Start(i) + m.hole_descriptors[i])
    IN <<SubSeq(m.vertices, 1, m.vertex_count)>> \o [i \in 1..m.hole_count |-> Hole(i)]

Next ==
    \/ Give \/ ToGeojson \/ ToWkt
    \/ parse_geojson_point \/ parse_geojson_polygon \/ parse_wkt_point \/ parse_wkt_polygon
    \/ CreatePolygonQuery \/ CreateRadiusQuery \/ CreateGeoEvent

Spec == Init /\ [][Next]_vars

-----------------------------------------------------------------------------
\* However often a shape is written and read, in whichever formats, it keeps its rings, no two of
\* them mixed, and a coordinate moves by no more than a nanodegree for every reading, and only
\* towards zero; and the server takes the message of a query or an event apart into the shape that
\* it was made of, with a radius that is no larger than the one that was asked for, rounded
\* (parse_geojson_polygon, parse_wkt_polygon, query_polygon_filter_to_wire,
\* query_radius_filter_to_wire, geo_event_to_wire).
ShapesArrive ==
    /\ given # None =>
        LET Moved(n, m) == Abs(n) - Abs(m) \in 0..trips /\ (n < 0) = (m < 0)
        IN /\ [i \in DOMAIN shape.rings |-> Len(shape.rings[i])]
                = [i \in DOMAIN given.rings |-> Len(given.rings[i])]
           /\ \A i \in DOMAIN given.rings : \A j \in DOMAIN given.rings[i] : \A k \in 1..2 :
                Moved(given.rings[i][j][k], shape.rings[i][j][k])
    /\ message # None /\ message.query = "polygon" => Received(message) = message.of.rings
    /\ message # None /\ message.query = "radius" =>
            2 * message.radius_mm <= message.asked + 1 /\ <<message.center>> = message.of.rings[1]
    /\ message # None /\ message.query = "event" =>
            <<<<message.lat_nano, message.lon_nano>>>> = message.of.rings[1]
=============================================================================
