------------------------------- MODULE Drawing -------------------------------
(***************************************************************************)
(* From the lines, arcs and polylines of a drawing to the outlines that    *)
(* the program cuts (Dxf-Input-Output/mycreationdxf.cpp, run): lines and   *)
(* arcs are chained into closed polylines, open polylines are closed with  *)
(* what is left, and every outline is turned counterclockwise.             *)
(*                                                                         *)
(* A point is a pair of integers, near points are equal.  Of a bulge the   *)
(* sign and the size matter, not the curve.                                *)
(***************************************************************************)
EXTENDS Integers, Sequences, FiniteSets

CONSTANTS
    Drawings,       \* [lines, arcs : Seq([s, e, bulge]), polylines : Seq([flags, v])]
    NULL

Point == Int \X Int
VertexType == [p : Point, bulge : Int]
Polyline == [flags : {0, 1}, v : Seq(VertexType) \ {<<>>}]
EntityType == [s : Point, e : Point, bulge : Int, flag : {0, 1}]
Entities == [lines : Seq(EntityType), arcs : Seq(EntityType)]

Unflagged(list) == [k \in DOMAIN list |-> [s |-> list[k].s, e |-> list[k].e,
                                           bulge |-> list[k].bulge, flag |-> 0]]

ASSUME DrawingsAssumption ==
    \A d \in Drawings :
        /\ Unflagged(d.lines) \in Seq(EntityType) /\ Unflagged(d.arcs) \in Seq(EntityType)
        /\ d.polylines \in Seq(Polyline)
ASSUME NullAssumption == NULL \notin Entities

VARIABLES
    given,                      \* not in the code: the drawing as it was read
    line_data, arc_data,        \* Seq([s, e, bulge, flag])
    polyline_data,              \* Seq([flags, v : Seq([p, bulge])])
    pass, i,                    \* lines, arcs, mark, polylines, turn, done; the loop counter
    list_vertex, startPoint, linkPoint, hadClosed,
    list_recover,               \* [lines, arcs] while a chain is under way, NULL otherwise
    spoilt                      \* not in the code: TwoEdges was given what it is not made for

chainVars == <<list_vertex, startPoint, linkPoint, hadClosed, list_recover>>
vars == <<given, line_data, arc_data, polyline_data, pass, i, chainVars, spoilt>>

Vertex(p, bulge) == [p |-> p, bulge |-> bulge]
First(s) == s[1]
Last(s) == s[Len(s)]
Init ==
    /\ given \in Drawings
    /\ line_data = Unflagged(given.lines) /\ arc_data = Unflagged(given.arcs)
    /\ polyline_data = given.polylines
    /\ pass = "lines" /\ i = 1
    /\ list_vertex = <<>> /\ startPoint = NULL /\ linkPoint = NULL /\ hadClosed = FALSE
    /\ list_recover = NULL
    /\ spoilt = FALSE

-----------------------------------------------------------------------------
(* The chains. *)

\* Where the loop finds something to do next; 0 if it is at its end.
Least(K) == IF K = {} THEN 0 ELSE CHOOSE k \in K : \A j \in K : k <= j
Todo ==
    Least(CASE pass = "lines" -> {k \in i..Len(line_data) : line_data[k].flag = 0}
            [] pass = "arcs" -> {k \in i..Len(arc_data) : arc_data[k].flag = 0}
            [] pass = "polylines" -> {k \in i..Len(polyline_data) : polyline_data[k].flags = 0}
            [] OTHER -> {})

Recover == list_recover' = [lines |-> line_data, arcs |-> arc_data]

StartWith(list, k) ==
    /\ list_vertex' = <<Vertex(list[k].s, list[k].bulge)>>
    /\ startPoint' = list[k].s /\ linkPoint' = list[k].e

Start ==
    /\ list_recover = NULL /\ Todo # 0
    /\ i' = Todo /\ Recover /\ hadClosed' = FALSE
    /\ \/ /\ pass = "lines"
          /\ StartWith(line_data, i')
          /\ line_data' = [line_data EXCEPT ![i'].flag = 1] /\ UNCHANGED arc_data
       \/ /\ pass = "arcs"
          /\ StartWith(arc_data, i')
          /\ arc_data' = [arc_data EXCEPT ![i'].flag = 1] /\ UNCHANGED line_data
       \/ /\ pass = "polylines"
          /\ startPoint' = First(polyline_data[i'].v).p /\ linkPoint' = Last(polyline_data[i'].v).p
          /\ UNCHANGED <<line_data, arc_data, list_vertex>>
    /\ UNCHANGED <<given, polyline_data, pass, spoilt>>

\* The first one in the list that is free and has an end at the last point of the chain.
Found(list) == Least({k \in DOMAIN list : list[k].flag = 0 /\ linkPoint \in {list[k].s, list[k].e}})
FoundLine == IF pass = "arcs" THEN 0 ELSE Found(line_data)

\* An arc that is met at its end is followed backwards.
Bulge(x) == IF linkPoint = x.s THEN x.bulge ELSE -x.bulge

Follow(x) ==
    LET to == IF linkPoint = x.s THEN x.e ELSE x.s
        longer == Append(list_vertex, Vertex(linkPoint, Bulge(x)))
    IN /\ linkPoint' = to /\ hadClosed' = (to = startPoint)
       /\ list_vertex' = IF to = startPoint THEN Append(longer, Vertex(to, 0)) ELSE longer
       /\ UNCHANGED <<given, polyline_data, pass, i, startPoint, list_recover, spoilt>>

LinkLine ==
    /\ list_recover # NULL /\ ~hadClosed /\ FoundLine # 0
    /\ Follow(line_data[FoundLine])
    /\ line_data' = [line_data EXCEPT ![FoundLine].flag = 1] /\ UNCHANGED arc_data

LinkArc ==
    /\ list_recover # NULL /\ ~hadClosed /\ FoundLine = 0 /\ Found(arc_data) # 0
    /\ Follow(arc_data[Found(arc_data)])
    /\ arc_data' = [arc_data EXCEPT ![Found(arc_data)].flag = 1] /\ UNCHANGED line_data

Over == list_recover' = NULL /\ list_vertex' = <<>> /\ UNCHANGED <<startPoint, linkPoint, hadClosed>>

\* Mutant of GiveUp: the arcs of the chain stay taken.
GiveUpLines ==
    /\ list_recover # NULL /\ ~hadClosed /\ FoundLine = 0 /\ Found(arc_data) = 0
    /\ line_data' = list_recover.lines /\ UNCHANGED arc_data
    /\ i' = i + 1 /\ Over
    /\ UNCHANGED <<given, polyline_data, pass, spoilt>>

\* Mutant of GiveUp: the loop starts again with what it has just put back.
GiveUpAgain ==
    /\ list_recover # NULL /\ ~hadClosed /\ FoundLine = 0 /\ Found(arc_data) = 0
    /\ line_data' = list_recover.lines /\ arc_data' = list_recover.arcs
    /\ Over
    /\ UNCHANGED <<given, polyline_data, pass, i, spoilt>>

GiveUp ==
    /\ list_recover # NULL /\ ~hadClosed /\ FoundLine = 0 /\ Found(arc_data) = 0
    /\ line_data' = list_recover.lines /\ arc_data' = list_recover.arcs
    /\ i' = i + 1 /\ Over
    /\ UNCHANGED <<given, polyline_data, pass, spoilt>>

\* A new polyline; or the open one, the bulge of its last point that of the chain.
Close ==
    /\ hadClosed /\ list_recover # NULL
    /\ polyline_data' =
         IF pass # "polylines" THEN Append(polyline_data, [flags |-> 1, v |-> list_vertex])
         ELSE LET v == polyline_data[i].v
                  joined == [v EXCEPT ![Len(v)].bulge = First(list_vertex).bulge]
              IN [polyline_data EXCEPT ![i] = [flags |-> 1, v |-> joined \o Tail(list_vertex)]]
    /\ i' = i + 1 /\ Over
    /\ UNCHANGED <<given, line_data, arc_data, pass, spoilt>>

NextPass ==
    /\ pass \in {"lines", "arcs", "polylines"} /\ list_recover = NULL /\ Todo = 0
    /\ pass' = CASE pass = "lines" -> "arcs" [] pass = "arcs" -> "mark" [] pass = "polylines" -> "turn"
    /\ i' = 1
    /\ UNCHANGED <<given, line_data, arc_data, polyline_data, chainVars, spoilt>>

-----------------------------------------------------------------------------
(* The polylines as they were drawn, and the direction of the outlines. *)

\* A closed polyline gets its first vertex again; an open one whose ends have a coordinate in
\* common is taken to be closed (mycreationdxf.cpp:191).
Marked(poly) ==
    LET p == First(poly.v).p
        q == Last(poly.v).p
    IN [flags |-> IF p[1] = q[1] \/ p[2] = q[2] THEN 1 ELSE poly.flags,
        v |-> IF poly.flags = 1 /\ p # q THEN Append(poly.v, First(poly.v)) ELSE poly.v]

Mark ==
    /\ pass = "mark" /\ pass' = "polylines"
    /\ polyline_data' = [k \in DOMAIN polyline_data |-> Marked(polyline_data[k])]
    /\ UNCHANGED <<given, line_data, arc_data, i, chainVars, spoilt>>

\* computer_Area.
Area(v) ==
    LET after(k) == v[(k % Len(v)) + 1].p
        sum[k \in 0..Len(v)] == IF k = 0 THEN 0
                                ELSE sum[k - 1] + v[k].p[1] * after(k)[2] - v[k].p[2] * after(k)[1]
    IN sum[Len(v)]

\* Backwards: each edge has its bulge at its other end, the other way round.
Backwards(v) ==
    LET n == Len(v)
    IN [k \in 1..n |-> Vertex(v[n + 1 - k].p, IF k < n THEN -v[n - k].bulge ELSE -v[n].bulge)]

\* Two edges have no area: their bulges tell the direction.
TwoEdges(v) ==
    IF v[1].bulge > 0 \/ v[2].bulge > 0 THEN v
    ELSE IF v[1].bulge < 0 THEN [v EXCEPT ![2].bulge = -v[1].bulge, ![1].bulge = 0]
    ELSE IF v[2].bulge < 0 THEN [v EXCEPT ![1].bulge = -v[2].bulge, ![2].bulge = 0]
    ELSE v

\* Two clockwise arcs, of which it makes a straight line of one; an open polyline of three
\* points, of which it moves an arc to the other edge.
Spoils(v) ==
    /\ Len(v) = 3 /\ v[1].bulge <= 0 /\ v[2].bulge <= 0
    /\ IF v[1].p = v[3].p THEN v[1].bulge < 0 /\ v[2].bulge < 0
                          ELSE v[1].bulge < 0 \/ v[2].bulge < 0

TransformCCW(v) ==
    IF Len(v) = 3 THEN TwoEdges(v)
    ELSE IF Area(v) > 0 THEN v ELSE Backwards(v)

Turn ==
    /\ pass = "turn" /\ pass' = "done"
    /\ polyline_data' = [k \in DOMAIN polyline_data |->
                           [polyline_data[k] EXCEPT !.v = TransformCCW(@)]]
    /\ spoilt' = \E k \in DOMAIN polyline_data : Spoils(polyline_data[k].v)
    /\ UNCHANGED <<given, line_data, arc_data, i, chainVars>>

Return == pass = "done" /\ UNCHANGED vars

Next == Start \/ LinkLine \/ LinkArc \/ GiveUp \/ Close \/ NextPass \/ Mark \/ Turn \/ Return

Spec == Init /\ [][Next]_vars /\ WF_vars(Next)

-----------------------------------------------------------------------------
(* Properties. *)

\* An edge, whichever way it is drawn.
Edge(p, q, bulge) == {<<p, q, bulge>>, <<q, p, -bulge>>}

\* The segments that CreateMyData makes of a polyline: a line of no length is left out.
IsSegment(p, q, bulge) == bulge # 0 \/ p # q
Segments(v) == {k \in 1..(Len(v) - 1) : IsSegment(v[k].p, v[k + 1].p, v[k].bulge)}
EdgeAt(v, k) == Edge(v[k].p, v[k + 1].p, v[k].bulge)

EdgesOf(v) == {EdgeAt(v, k) : k \in Segments(v)}

\* The polylines that were read, those that are flagged as closed with their last edge.
Whole(poly) == IF poly.flags = 1 /\ First(poly.v).p # Last(poly.v).p
               THEN [poly EXCEPT !.v = Append(@, First(@))] ELSE poly
Drawn == [k \in DOMAIN given.polylines |-> Whole(given.polylines[k])]

\* The lines and arcs that were used.
EdgeOf(x) == Edge(x.s, x.e, x.bulge)
UsedOf(list) ==
    {k \in DOMAIN list : list[k].flag = 1 /\ IsSegment(list[k].s, list[k].e, list[k].bulge)}

\* How often an edge is in polylines, or among the used ones of a list.
Occurs(polylines, x) ==
    Cardinality(UNION {{k} \X {n \in Segments(polylines[k].v) : EdgeAt(polylines[k].v, n) = x} :
                         k \in DOMAIN polylines})
Used(list, x) == Cardinality({k \in UsedOf(list) : EdgeOf(list[k]) = x})

Edges ==
    UNION {EdgesOf(polyline_data[k].v) : k \in DOMAIN polyline_data}
    \cup UNION {EdgesOf(Drawn[k].v) : k \in DOMAIN Drawn}
    \cup {EdgeOf(line_data[k]) : k \in UsedOf(line_data)} \cup {EdgeOf(arc_data[k]) : k \in UsedOf(arc_data)}

\* What is cut is what was drawn: the outlines consist of the polylines and of the lines and
\* arcs that are flagged as used, each of them once and with its own bulge, although chains
\* are begun and taken back and outlines are turned round.
EachDrawnOnce ==
    pass = "done" /\ ~spoilt =>
        \A x \in Edges :
            Occurs(polyline_data, x) = Occurs(Drawn, x) + Used(line_data, x) + Used(arc_data, x)

\* run returns, although the loops over chains end only when one is closed or stuck.
ReadingEnds == <>(pass = "done")

\* The comment in the code (mycreationdxf.cpp:190): a polyline is marked as closed when its
\* first and last points are equal.
ClosedEndsMeet ==
    pass = "done" => \A k \in DOMAIN polyline_data :
        polyline_data[k].flags = 1 => First(polyline_data[k].v).p = Last(polyline_data[k].v).p
=============================================================================
