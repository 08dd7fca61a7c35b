------------------------------ MODULE MCObjects ------------------------------
(***************************************************************************)
(* Two segments that may meet, a third one from a cut, four vertices and   *)
(* three points.  One segment is in its pool to begin with; the others and *)
(* all vertices are made when they are needed, and used again from then on. *)
(***************************************************************************)
EXTENDS Objects, TLC

CONSTANTS v1, v2, v3, v4, s1, s2, s3, p1, p2, p3

MCVert == {v1, v2, v3, v4}
MCSegment == {s1, s2, s3}
MCPoint == {p1, p2, p3}
MCPoolVerts == {}
MCPoolSegments == {s1}

\* Nothing chooses among the objects that the pool does not have to begin with, or among points.
MCSymmetry == Permutations(MCVert) \cup Permutations({s2, s3}) \cup Permutations(MCPoint)
=============================================================================
