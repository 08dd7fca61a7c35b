------------------------------ MODULE MCDrawing ------------------------------
(***************************************************************************)
(* Drawings on the corners of a square: up to three lines or arcs between  *)
(* three corners, beside one polyline or none.                             *)
(***************************************************************************)
EXTENDS Drawing

P(k) == <<<<0, 0>>, <<1, 0>>, <<0, 1>>, <<1, 1>>>>[k]
Corners == {<<P(1), P(2)>>, <<P(2), P(3)>>, <<P(1), P(3)>>, <<P(2), P(1)>>, <<P(3), P(1)>>}

Entity(bulge) == {[s |-> x[1], e |-> x[2], bulge |-> bulge] : x \in Corners}
UpTo(S, n) == UNION {[1..k -> S] : k \in 0..n}

\* The corners of a polyline, with the bulges of its edges.
Poly(flags, corners, bulges) ==
    [flags |-> flags, v |-> [k \in DOMAIN corners |-> Vertex(P(corners[k]), bulges[k])]]

MCPolylines ==
    {<<>>} \cup {<<x>> : x \in {
        Poly(0, <<3, 2>>, <<0, 0>>),                    \* open
        Poly(0, <<3, 1, 2>>, <<1, 0, 0>>),              \* open, with an arc
        Poly(0, <<3, 1, 2>>, <<-1, 0, 0>>),             \* one that is clockwise
        Poly(0, <<1, 2>>, <<-1, 0>>),
        Poly(0, <<3, 1, 2, 4>>, <<0, 0, 0, 0>>),        \* open, its ends at one height
        Poly(0, <<1, 2, 3, 1>>, <<0, 0, 0, 0>>),        \* closed, but not flagged
        Poly(1, <<1, 3, 2>>, <<0, 1, -1>>),             \* flagged, clockwise
        Poly(1, <<1, 3, 4, 2>>, <<0, 1, 0, -2>>),
        Poly(1, <<1, 2>>, <<-1, -1>>),                  \* a circle, clockwise
        Poly(1, <<1, 2>>, <<0, -1>>)}}

MCDrawings ==
    {[lines |-> l, arcs |-> r, polylines |-> v] :
        l \in UpTo(Entity(0), 2), r \in UpTo(Entity(1), 2), v \in MCPolylines}
    \cup {[lines |-> l, arcs |-> r, polylines |-> <<>>] :
        l \in UpTo(Entity(0), 3), r \in UpTo(Entity(1), 1)}
=============================================================================
