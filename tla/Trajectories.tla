---------------------------- MODULE Trajectories -----------------------------
(***************************************************************************)
(* The front of Nfp::run (FitPolygons/nfp.cpp): nfp_line puts down the      *)
(* lines along which a vertex of one polygon slides over an edge of the     *)
(* other, grouped by direction; simplifySeg goes through the pairs of each  *)
(* group and lets processOverlap resolve what lies on top of each other.    *)
(*                                                                          *)
(* A segment is kept by the values of its ends: until the sweep, each has   *)
(* two vertices of its own.  Slopes and intercepts are exact.               *)
(***************************************************************************)
EXTENDS Plane, SequencesExt

\* The null pointer.
CONSTANT NULL

Segments == [a : Point, b : Point]
ASSUME NullAssumption == NULL \notin Segments

VARIABLES
    A, B,       \* the polygon that rests and the one that slides, their first points repeated
    line,       \* nfp_line: the last pair of a vertex and an edge that gave a line
    vecs,       \* vec_vec_seg: for each direction a list of segments and nulls
    i,          \* the loop over the directions; 0 while nfp_line runs
    m, n        \* the pair: m, and the last n that it was compared with

lineVars == <<A, B, line, vecs, i, m, n>>

-----------------------------------------------------------------------------
(* nfp_line. *)

Size(p) == Len(p) - 1
Side(p, k) == Sub(p[k + 1], p[k])
SideBefore(p, k) == Side(p, IF k = 1 THEN Size(p) ELSE k - 1)

\* cal_vec_norm: turned right by 90 degrees.
Norm(v) == [x |-> v.y, y |-> -v.x]

\* The vertex k of p touches an edge of direction d from outside: it is no reflex
\* vertex, and p is on one side of the edge's line there.
Supports(p, k, d) ==
    /\ cross(SideBefore(p, k), Side(p, k)) >= 0
    /\ dot(Norm(d), SideBefore(p, k)) <= 0
    /\ dot(Norm(d), Side(p, k)) >= 0

\* Mutant of Rounds: the loops over the vertices stop one too early.
RoundsButLast ==
    ({1} \X (1..(Size(B) - 1)) \X (1..Size(A))) \cup ({2} \X (1..(Size(A) - 1)) \X (1..Size(B)))

\* The two loops over the vertices, first those of B, and in each the edges of the other
\* polygon.
Rounds == ({1} \X (1..Size(B)) \X (1..Size(A))) \cup ({2} \X (1..Size(A)) \X (1..Size(B)))

Before(r, s) ==
    \/ r[1] < s[1]
    \/ r[1] = s[1] /\ r[2] < s[2]
    \/ r[1] = s[1] /\ r[2] = s[2] /\ r[3] < s[3]

\* What the vertex draws when B slides along the edge.
Trajectory(r) ==
    IF r[1] = 1 THEN Seg(Sub(A[r[3]], B[r[2]]), Sub(A[r[3] + 1], B[r[2]]))
                ELSE Seg(Sub(A[r[2]], B[r[3]]), Sub(A[r[2]], B[r[3] + 1]))
Puts(r) ==
    /\ IF r[1] = 1 THEN Supports(B, r[2], Side(A, r[3])) ELSE Supports(A, r[2], Side(B, r[3]))
    /\ Trajectory(r).a # Trajectory(r).b
ToPut == {r \in Rounds : Before(line, r) /\ Puts(r)}

\* getKey: the angle modulo pi.
SameKey(s, t) == cross(Vec(s), Vec(t)) = 0

processSegment(groups, s) ==
    IF \E g \in DOMAIN groups : SameKey(groups[g][1], s)
    THEN LET g == CHOOSE g \in DOMAIN groups : SameKey(groups[g][1], s)
         IN  [groups EXCEPT ![g] = Append(@, s)]
    ELSE Append(groups, <<s>>)

-----------------------------------------------------------------------------
(* simplifySeg. *)

\* Two segments of a group are on one line (the same x, or the same lk and lb) and have
\* a point in common.
Touch(s, t) ==
    /\ cross(Vec(s), Sub(t.a, s.a)) = 0
    /\ Greatest(s.a.x, s.b.x) >= Least(t.a.x, t.b.x)
    /\ Greatest(s.a.y, s.b.y) >= Least(t.a.y, t.b.y)
    /\ Greatest(t.a.x, t.b.x) >= Least(s.a.x, s.b.x)
    /\ Greatest(t.a.y, t.b.y) >= Least(s.a.y, s.b.y)

\* Mutant of Merge: where one ends in the other, the other's end is not looked at.
MergeShort(s1, s2) == Seg(IF dot(Vec(s1), Sub(s2.a, s1.a)) >= 0 THEN s1.a ELSE s2.a, s1.b)

\* Both run the same way: one segment for the two.
Merge(s1, s2) ==
    Seg(IF dot(Vec(s1), Sub(s2.a, s1.a)) >= 0 THEN s1.a ELSE s2.a,
        IF dot(Vec(s1), Sub(s2.b, s1.b)) >= 0 THEN s2.b ELSE s1.b)

\* Mutant of Cancel: it is not seen that nothing is left of one of them.
CancelBlindly(s1, s2) == <<Seg(s2.a, s1.b), Seg(s1.a, s2.b)>>

\* They run against each other: the stretch they share goes, and a segment goes with it
\* if nothing of it is left.
Cancel(s1, s2) ==
    LET flag1 == dot(Vec(s1), Sub(s2.b, s1.a)) > 0      \* s2 ends beyond the start of s1
        flag2 == dot(Vec(s1), Sub(s2.a, s1.b)) > 0      \* s2 starts beyond the end of s1
        SwapEnds == <<Seg(s1.a, s2.b), Seg(s2.a, s1.b)>>
        SwapStarts == <<Seg(s2.a, s1.b), Seg(s1.a, s2.b)>>
        FromStart == <<NULL, Seg(s1.a, s2.b)>>
        ToEnd == <<NULL, Seg(s2.a, s1.b)>>
    IN  CASE flag1 /\ flag2 -> SwapEnds
          [] flag1 /\ ~flag2 -> IF s1.b = s2.a THEN FromStart ELSE SwapEnds
          [] ~flag1 /\ flag2 -> IF s1.a = s2.b THEN ToEnd ELSE SwapEnds
          [] ~flag1 /\ ~flag2 ->
               IF s1.a = s2.b /\ s1.b = s2.a THEN <<NULL, NULL>>
               ELSE IF s1.a = s2.b THEN ToEnd
               ELSE IF s1.b = s2.a THEN FromStart
               ELSE SwapStarts

processOverlap(s1, s2) ==
    IF dot(Vec(s1), Vec(s2)) < 0 THEN Cancel(s1, s2) ELSE <<NULL, Merge(s1, s2)>>

LinesDone == i > Len(vecs)
Live(k) == vecs[i][k] # NULL
Candidate(k) == k \in 1..(n - 1) /\ Live(k) /\ Touch(vecs[i][m], vecs[i][k])

\* Nfp(p, q), and run() up to nfp_line.
LinesFor(p, q) ==
    /\ A' = p /\ B' = q
    /\ line' = <<0, 0, 0>> /\ vecs' = <<>>
    /\ i' = 0 /\ m' = 0 /\ n' = 0

\* The next line goes to those of its direction.
PutLine ==
    /\ i = 0
    /\ \E r \in ToPut :
         /\ \A s \in ToPut : ~Before(s, r)
         /\ line' = r /\ vecs' = processSegment(vecs, Trajectory(r))
    /\ UNCHANGED <<A, B, i, m, n>>

\* The next segment below that touches m.  If m is gone then, the loop over n is left;
\* otherwise m goes on as what it has become.
Resolve ==
    /\ ~LinesDone /\ m > 0 /\ Live(m)
    /\ \E k \in 1..(n - 1) :
         /\ Candidate(k) /\ \A l \in (k + 1)..(n - 1) : ~Candidate(l)
         /\ \E new \in {processOverlap(vecs[i][m], vecs[i][k])} :
              /\ vecs' = [vecs EXCEPT ![i] = [@ EXCEPT ![m] = new[1], ![k] = new[2]]]
              /\ IF new[1] = NULL THEN m' = m - 1 /\ n' = m - 1 ELSE m' = m /\ n' = k
    /\ UNCHANGED <<A, B, line, i>>

\* Nothing (more) below touches m, or m is gone already.
NextSegment ==
    /\ ~LinesDone /\ m > 0
    /\ Live(m) => \A k \in 1..(n - 1) : ~Candidate(k)
    /\ m' = m - 1 /\ n' = m - 1
    /\ UNCHANGED <<A, B, line, vecs, i>>

\* The next direction, or the first one when all lines are there.
NextGroup ==
    /\ ~LinesDone /\ m = 0
    /\ i = 0 => ToPut = {}
    /\ i' = i + 1
    /\ m' = (IF i < Len(vecs) THEN Len(vecs[i + 1]) ELSE 0) /\ n' = m'
    /\ UNCHANGED <<A, B, line, vecs>>

LinesStep == PutLine \/ Resolve \/ NextSegment \/ NextGroup

There(list) == {k \in DOMAIN list : list[k] # NULL}

\* vec_vec_seg2input: what is left, one direction after the other.
Collected ==
    LET left == UNION {{g} \X There(vecs[g]) : g \in DOMAIN vecs}
        UpTo(w) == {v \in left : v[1] < w[1] \/ (v[1] = w[1] /\ v[2] <= w[2])}
    IN  [k \in 1..Cardinality(left) |->
            LET w == CHOOSE w \in left : Cardinality(UpTo(w)) = k IN vecs[w[1]][w[2]]]

-----------------------------------------------------------------------------
(* Properties. *)

IsPath(p) == p \in Seq(Point) /\ p # <<>> /\ p[1] = p[Len(p)]

\* A segment is never empty, and has the direction of its group; nothing is null before
\* simplifySeg.
LinesTypeOK ==
    /\ IsPath(A) /\ IsPath(B)
    /\ vecs \in Seq(Seq(Segments \cup {NULL}) \ {<<>>})
    /\ i \in 0..(Len(vecs) + 1) /\ m \in Nat /\ n \in 0..m
    /\ IF i \in DOMAIN vecs THEN m <= Len(vecs[i]) ELSE m = 0
    /\ \A g \in DOMAIN vecs : \A j, k \in DOMAIN vecs[g] :
         /\ i = 0 => vecs[g][j] # NULL
         /\ vecs[g][j] # NULL /\ vecs[g][k] # NULL =>
              vecs[g][j].a # vecs[g][j].b /\ SameKey(vecs[g][j], vecs[g][k])

\* How many segments of a list run over the stretch from p to q.
Runs(list, p, q) == Cardinality({k \in There(list) : RunsOver(list[k], p, q)})
Ends(list) == {list[k].a : k \in There(list)} \cup {list[k].b : k \in There(list)}

\* The stretches between two ends of a group, on one line, that no other end divides.
Ahead(list, p, q) ==
    LET along == Vec(list[CHOOSE k \in There(list) : TRUE])
    IN  cross(along, Sub(q, p)) = 0 /\ dot(along, Sub(q, p)) > 0
Stretches(list) ==
    {u \in Ends(list) \X Ends(list) :
        /\ Ahead(list, u[1], u[2])
        /\ ~\E r \in Ends(list) : Ahead(list, u[1], r) /\ Ahead(list, r, u[2])}

\* On every stretch a step changes nothing, or takes away one run in each direction, or
\* one of several in the same direction: nothing is put where nothing was, and what has
\* no counterpart is never lost.
TakesOnlyDoubles ==
    i > 0 => \A g \in DOMAIN vecs : vecs'[g] # vecs[g] => \A u \in Stretches(vecs[g]) :
        LET there(list) == Runs(list, u[1], u[2])
            back(list) == Runs(list, u[2], u[1])
            t == there(vecs[g])
            b == back(vecs[g])
        IN  \/ there(vecs'[g]) = t /\ back(vecs'[g]) = b
            \/ there(vecs'[g]) = t - 1 /\ back(vecs'[g]) = b - 1
            \/ t > 1 /\ there(vecs'[g]) = t - 1 /\ back(vecs'[g]) = b
            \/ b > 1 /\ there(vecs'[g]) = t /\ back(vecs'[g]) = b - 1
==============================================================================
