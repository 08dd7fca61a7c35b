---------------------------- MODULE MCFitPolygon -----------------------------
(***************************************************************************)
(* Shapes on a grid of four by four squares, each against each, and a few  *)
(* parts and sheets with holes.                                            *)
(***************************************************************************)
EXTENDS FitPolygon

\* A polygon by its corners on the grid, counter-clockwise, closed.
P(list) ==
    [k \in 1..(Len(list) + 1) |->
        LET c == list[1 + ((k - 1) % Len(list))] IN [x |-> Grid * c[1], y |-> Grid * c[2]]]
Clockwise(p) == [k \in DOMAIN p |-> p[Len(p) + 1 - k]]

Box(x0, y0, x1, y1) == P(<<<<x0, y0>>, <<x1, y0>>, <<x1, y1>>, <<x0, y1>>>>)
Triangle == P(<<<<0, 0>>, <<1, 0>>, <<0, 1>>>>)
Wedge == P(<<<<1, 0>>, <<1, 1>>, <<0, 1>>>>)
BigTriangle == P(<<<<0, 0>>, <<2, 0>>, <<0, 2>>>>)
L == P(<<<<0, 0>>, <<2, 0>>, <<2, 1>>, <<1, 1>>, <<1, 2>>, <<0, 2>>>>)
U == P(<<<<0, 0>>, <<3, 0>>, <<3, 2>>, <<2, 2>>, <<2, 1>>, <<1, 1>>, <<1, 2>>, <<0, 2>>>>)
Z == P(<<<<0, 0>>, <<2, 0>>, <<2, 1>>, <<3, 1>>, <<3, 2>>, <<1, 2>>, <<1, 1>>, <<0, 1>>>>)
Zigzag == P(<<<<2, 0>>, <<3, 0>>, <<3, 2>>, <<1, 2>>, <<1, 3>>, <<0, 3>>, <<0, 1>>, <<2, 1>>>>)
Slanted == P(<<<<1, 0>>, <<2, 0>>, <<1, 1>>, <<0, 1>>>>)
Hexagon == P(<<<<1, 0>>, <<2, 0>>, <<2, 1>>, <<1, 2>>, <<0, 2>>, <<0, 1>>>>)
Arrow == P(<<<<0, 0>>, <<2, 0>>, <<1, 1>>, <<1, 2>>, <<0, 2>>>>)
\* A square with a chamber inside, into which a slanted passage leads.
Cave == P(<<<<0, 0>>, <<4, 0>>, <<4, 4>>, <<2, 4>>, <<3, 3>>, <<3, 1>>,
            <<1, 1>>, <<1, 3>>, <<2, 3>>, <<1, 4>>, <<0, 4>>>>)

Square == Box(0, 0, 1, 1)
Bar == Box(0, 0, 1, 3)

Plain(p) == [sheet |-> FALSE, contour |-> p, holes |-> <<>>]
Punched(p, holes) == [sheet |-> FALSE, contour |-> p, holes |-> holes]
Sheet(p, holes) == [sheet |-> TRUE, contour |-> Clockwise(p), holes |-> holes]

Shapes == {Square, Triangle, Wedge, BigTriangle, Bar, L, U, Z, Zigzag, Slanted, Hexagon, Arrow}

\* A cave; a frame; a plate with two holes; sheets, one of them with a slanted side, with
\* holes and without.
Special ==
    {Plain(Cave), Punched(Box(0, 0, 4, 4), <<Clockwise(Box(1, 1, 3, 3))>>),
     Punched(Box(0, 0, 4, 4), <<Clockwise(Box(1, 1, 2, 3)), Clockwise(Box(3, 1, 4, 2))>>),
     Sheet(Box(0, 0, 4, 3), <<>>), Sheet(Box(0, 0, 3, 2), <<Square>>),
     Sheet(Box(0, 0, 4, 4), <<Box(1, 1, 2, 2), Wedge>>), Sheet(P(<<<<0, 0>>, <<4, 0>>, <<2, 2>>, <<0, 2>>>>), <<>>)}

MCInputs == ({Plain(p) : p \in Shapes} \X Shapes) \cup (Special \X {Square, Triangle, BigTriangle, L, Bar})
MCWidth == 4
MCGrid == 30
\* All crossings on the grid of triangles are on the grid.
MCUnit == 1
\* Left of every difference of two points.
MCLeftmost == -1000

\* A bar and a zigzag.
MCEmpty == {<<Plain(Bar), Zigzag>>}
==============================================================================
