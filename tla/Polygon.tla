------------------------------- MODULE Polygon -------------------------------
(***************************************************************************)
(* The check of types.py that a polygon does not cross itself,             *)
(* validate_polygon_no_self_intersection, against a definition of what it  *)
(* is to cross oneself.  The caller gives the vertices one by one and may  *)
(* ask at any time.                                                        *)
(*                                                                         *)
(* A coordinate is an integer of a small grid.  The code's eps is 1e-10    *)
(* square degrees; how many cells of the grid that is depends on the size  *)
(* of the polygon.  With cells wider than 1e-5 degrees, about a metre, it  *)
(* is less than one and tells zero from everything else.  Products of      *)
(* differences are taken to be exact: rounding changes them by far less    *)
(* than eps.  What a suggestion says is left out.                          *)
(***************************************************************************)
EXTENDS Integers, SequencesExt, FiniteSetsExt

CONSTANTS GridMax,     \* bound: coordinates are 0..GridMax
          VertexMax,   \* bound: vertices
          Eps          \* 1e-10 square degrees, in cells of the grid, rounded up: one for each size

PolygonAssumption ==
    GridMax \in Nat \ {0} /\ VertexMax \in Nat /\ Eps \subseteq Nat \ {0}

Point == (0..GridMax) \X (0..GridMax)

VARIABLES eps,             \* the eps of this polygon
          vertices,        \* the vertices so far
          intersections    \* what the last validation of them returned

vars == <<eps, vertices, intersections>>

Init == eps \in Eps /\ vertices = <<>> /\ intersections = {}

-----------------------------------------------------------------------------
cross_product(o, a, b) == (a[1] - o[1]) * (b[2] - o[2]) - (a[2] - o[2]) * (b[1] - o[1])

Between(x, y, z) == (x <= y /\ y <= z) \/ (z <= y /\ y <= x)
on_segment(p, q, r) == Between(p[1], q[1], r[1]) /\ Between(p[2], q[2], r[2])

Opposite(d, e) == (d > 0 /\ e < 0) \/ (d < 0 /\ e > 0)

\* abs(d) < eps
Zero(d) == -eps < d /\ d < eps

\* _segments_intersect: the ends of each lie on two sides of the other, or an end of one on the
\* other, or so near its line that it is taken to be.
SegmentsIntersect(p1, p2, p3, p4) ==
    LET d1 == cross_product(p3, p4, p1)
        d2 == cross_product(p3, p4, p2)
        d3 == cross_product(p1, p2, p3)
        d4 == cross_product(p1, p2, p4)
    IN \/ Opposite(d1, d2) /\ Opposite(d3, d4)
       \/ Zero(d1) /\ on_segment(p3, p1, p4)
       \/ Zero(d2) /\ on_segment(p3, p2, p4)
       \/ Zero(d3) /\ on_segment(p1, p3, p2)
       \/ Zero(d4) /\ on_segment(p1, p4, p2)

\* The end of edge i of the closed polygon; the edges are numbered from 0.
From(vs, i) == vs[i + 1]
To(vs, i) == vs[((i + 1) % Len(vs)) + 1]

\* Mutant of Pairs: the last edge is compared with the first, its neighbour.
AllLaterPairs(n) == {<<i, j>> \in (0..n - 1) \X (0..n - 1) : j >= i + 2}

\* The pairs of edges that are looked at: of the neighbours none.
Pairs(n) == {<<i, j>> \in (0..n - 1) \X (0..n - 1) : j >= i + 2 /\ j # (i + n - 1) % n}

\* validate_polygon_no_self_intersection; with raise_on_error it raises the first of these.
Validate(vs) ==
    IF Len(vs) < 4 THEN {}
    ELSE {p \in Pairs(Len(vs)) :
            SegmentsIntersect(From(vs, p[1]), To(vs, p[1]), From(vs, p[2]), To(vs, p[2]))}

\* _generate_repair_suggestions: the vertices that may be removed, and the two that a bow tie swaps.
RepairSuggestions(vs, p) ==
    LET n == Len(vs)
    IN [remove |-> {(p[1] + 1) % n, (p[2] + 1) % n},
        swap |-> IF p[2] - p[1] = 2 THEN {p[1] + 1, p[2]} ELSE {}]

AddVertex(p) ==
    /\ Len(vertices) < VertexMax
    /\ vertices' = Append(vertices, p)
    /\ intersections' = Validate(vertices')
    /\ UNCHANGED eps

Next == \E p \in Point : AddVertex(p)

Spec == Init /\ [][Next]_vars

-----------------------------------------------------------------------------
\* Two closed segments have a point in common, said of the points themselves: where a k-th of d
\* parts of the one meets an l-th of d parts of the other.  On the grid the parts need be no finer
\* than the largest product of two differences, doubled.
Meet(p1, p2, p3, p4) ==
    \E d \in 1..2 * GridMax * GridMax : \E k, l \in 0..d : \A c \in 1..2 :
        d * p1[c] + k * (p2[c] - p1[c]) = d * p3[c] + l * (p4[c] - p3[c])

Neighbours(n, i, j) == (i + 1) % n = j \/ (j + 1) % n = i

\* A point is in the rectangle around a segment, and the triangle of the three is smaller than half
\* of eps.
NearlyOn(q, p, r) ==
    LET twice == cross_product(p, r, q)
    IN on_segment(p, q, r) /\ twice < eps /\ -twice < eps

\* The check says that a polygon crosses itself whenever two of its edges that are no neighbours
\* have a point in common, however small it is; it says so of no two that keep clear of each
\* other, and of a polygon with cells of a metre or more exactly then; and the vertices it suggests
\* to remove or swap are vertices of the polygon (validate_polygon_no_self_intersection,
\* _segments_intersect).  Edges of a few decimetres that only come near each other it refuses.
FindsEveryCrossing ==
    LET n == Len(vertices)
        Edge == 0..n - 1
        A(i) == From(vertices, i)
        B(i) == To(vertices, i)
        Apart == {<<i, j>> \in Edge \X Edge : i < j /\ ~Neighbours(n, i, j)}
        Crossing == {p \in Apart : Meet(A(p[1]), B(p[1]), A(p[2]), B(p[2]))}
        Touching == {p \in Apart : \E q \in {p, <<p[2], p[1]>>} :
                        NearlyOn(A(q[1]), A(q[2]), B(q[2])) \/ NearlyOn(B(q[1]), A(q[2]), B(q[2]))}
    IN /\ n >= 4 => Crossing \subseteq intersections
       /\ intersections \subseteq Crossing \cup Touching
       /\ eps = 1 => intersections \subseteq Crossing
       /\ \A p \in intersections :
            LET s == RepairSuggestions(vertices, p) IN s.remove \cup s.swap \subseteq Edge
=============================================================================
