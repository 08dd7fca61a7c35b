----------------------------- MODULE MCSweepLine -----------------------------
(***************************************************************************)
(* Pictures of three and four segments on a grid of nine points.  Its step *)
(* is no multiple of 3, so that crossings are rounded, and wide, so that   *)
(* "less than 3 units" mostly tells common endpoints; one picture, Steep,  *)
(* is narrow.                                                              *)
(***************************************************************************)
EXTENDS SweepLine

Grid == [x : {0, 32, 64}, y : {0, 32, 64}]

\* From left to right, a vertical from below.
Precedes(p, q) == p.x < q.x \/ (p.x = q.x /\ p.y < q.y)
Drawn == {s \in Grid \X Grid : Precedes(s[1], s[2])}
Across == {s \in Drawn : s[1].x = 0 /\ s[2].x = 64}

\* Two segments of a direction that share a stretch: simplifySeg is there to leave none (what
\* it does leave is the subject of Nfp).
Overlap(s, t) ==
    LET d == Sub(s[2], s[1])
    IN  /\ cross(d, Sub(t[1], s[1])) = 0 /\ cross(d, Sub(t[2], s[1])) = 0
        /\ Precedes(s[1], t[2]) /\ Precedes(t[1], s[2])

\* One order for each set of segments.
Later(s, t) == (Precedes(s[1], t[1]) \/ (s[1] = t[1] /\ Precedes(s[2], t[2]))) /\ ~Overlap(s, t)

Pairs(S) == {p \in S \X S : Later(p[1], p[2])}
Triples(S) ==
    {p \in {<<q[1], q[2], s>> : q \in Pairs(S), s \in S} :
        Later(p[2], p[3]) /\ ~Overlap(p[1], p[3])}
Quadruples(S) ==
    {p \in {<<q[1], q[2], q[3], s>> : q \in Triples(S), s \in S} :
        Later(p[3], p[4]) /\ ~Overlap(p[1], p[4]) /\ ~Overlap(p[2], p[4])}

\* Every other segment is drawn backwards.
Directed(p) == [i \in DOMAIN p |-> IF i % 2 = 0 THEN <<p[i][2], p[i][1]>> ELSE p[i]]

P(x, y) == [x |-> x, y |-> y]

\* A vertical that one segment crosses and another one, steep, begins at, within
\* three units: they are chained.
Steep == <<<<P(32, 0), P(32, 64)>>, <<P(0, 2), P(64, 2)>>, <<P(32, 4), P(64, -60)>>>>

MCInputs == {Directed(p) : p \in Triples(Drawn) \cup Quadruples(Across)} \cup {Steep}

MCLeftmost == -1000000

\* Heights are fractions with denominators of at most 64: two that differ, differ
\* by more than one part of this.
MCUnit == 10000

\* A segment that ends where the next one passes and a vertical starts, and a fourth
\* that crosses what is left of the second.
MCFan ==
    {<<<<P(0, 0), P(30, 30)>>, <<P(60, 30), P(0, 30)>>,
       <<P(30, 0), P(60, 60)>>, <<P(30, 60), P(30, 30)>>>>}
=============================================================================
