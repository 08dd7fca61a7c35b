----------------------------- MODULE MCOutlines ------------------------------
(***************************************************************************)
(* Drawings on two squares that share an edge.                             *)
(***************************************************************************)
EXTENDS Outlines

P(x, y) == [x |-> x, y |-> y]

\* The edges of the squares, first that in the middle, and then the same edges in
\* the other direction.
There ==
    <<Seg(P(1, 0), P(1, 1)), Seg(P(0, 0), P(1, 0)), Seg(P(1, 0), P(2, 0)),
      Seg(P(0, 1), P(1, 1)), Seg(P(1, 1), P(2, 1)), Seg(P(0, 0), P(0, 1)),
      Seg(P(2, 0), P(2, 1))>>
Both == [k \in 1..14 |-> IF k <= 7 THEN There[k] ELSE Seg(There[k - 7].b, There[k - 7].a)]

\* An edge is there once; the one in the middle may be there in both directions.
Drawn(S) == S # {} /\ \A k \in 2..7 : ~{k, k + 7} \subseteq S
MCInputs ==
    {LET on == SelectSeq([k \in 1..14 |-> k], LAMBDA k : k \in S) IN [k \in DOMAIN on |-> Both[on[k]]] :
        S \in {S \in SUBSET (1..14) : Drawn(S)}}
=============================================================================
