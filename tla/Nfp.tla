--------------------------------- MODULE Nfp ---------------------------------
(***************************************************************************)
(* Nfp::run (FitPolygons/nfp.cpp), from two polygons to the outlines:      *)
(* trajectories, what simplifySeg leaves of them, the sweep that cuts them, *)
(* and the outlines that are walked along the pieces.  FitPolygon calls it. *)
(*                                                                         *)
(* What it draws is compared with the no-fit polygon by its definition, on *)
(* polygons with sides on a grid of triangles: their sides are horizontal, *)
(* vertical, or fall at 45 degrees.                                        *)
(***************************************************************************)
EXTENDS Trajectories, Bags

\* Polygons lie in a square of Width by Width squares of the grid, each Grid wide.  For
\* Unit see SweepComparators, for Leftmost SweepLine.
CONSTANTS Width, Grid, Unit, Leftmost

ASSUME UnitAssumption == Unit \in Nat \ {0}
ASSUME LeftmostAssumption == Leftmost \in Int
ASSUME NullIsNoIndex == NULL \notin Nat
ASSUME GridAssumption == Width \in Nat /\ Grid \in Nat /\ Grid > 0 /\ Grid % 3 = 0

VARIABLES
    stage,                                              \* idle, lines, sweep, outlines, empty
    input, segments, Q, status, currentX,               \* see SweepLine
    inner, vecSeg, verts, next, prev, isvalid, pc, look, minVert, current,
    outside, turns, path, result                        \* see Outlines

sweepVars == <<input, segments, Q, status, currentX>>
walkVars == <<vecSeg, verts, next, prev, isvalid, pc, look, minVert, current, outside,
              turns, path>>
nfpVars == <<stage, lineVars, sweepVars, inner, walkVars, result>>

Line == INSTANCE SweepLine WITH Inputs <- {}
Ring == INSTANCE Outlines WITH Inputs <- {}, i <- look

-----------------------------------------------------------------------------
(* run(). *)

Idle ==
    /\ stage = "idle" /\ inner = FALSE
    /\ A = <<>> /\ B = <<>> /\ line = <<0, 0, 0>> /\ vecs = <<>> /\ i = 0 /\ m = 0 /\ n = 0
    /\ input = <<>> /\ segments = <<>> /\ Q = EmptyBag /\ status = <<>>
    /\ currentX = Leftmost
    /\ vecSeg = <<>> /\ verts = {} /\ next = <<>> /\ prev = <<>> /\ isvalid = <<>>
    /\ pc = "link" /\ look = 1 /\ minVert = NULL
    /\ current = NULL /\ outside = NULL /\ turns = 0 /\ path = <<>>
    /\ result = <<>>

\* Nfp(p, q, paths) or Ifp(p, q, paths), and run(): the trajectories will be put down.
Run(p, q, ifp, paths) ==
    /\ stage = "idle" /\ stage' = "lines"
    /\ inner' = ifp /\ result' = paths
    /\ LinesFor(p, q)
    /\ UNCHANGED <<sweepVars, walkVars>>

\* nfp_line and simplifySeg.
PutAndSimplify ==
    /\ stage = "lines" /\ LinesStep
    /\ UNCHANGED <<stage, sweepVars, inner, walkVars, result>>

\* Mutant of Taken: the first segment is left behind.
TakenButFirst(segs) == [k \in 1..(Len(segs) - 1) |-> <<segs[k + 1].a, segs[k + 1].b>>]
Taken(segs) == [k \in DOMAIN segs |-> <<segs[k].a, segs[k].b>>]

\* sw.run is called with what is left; if there was never a line, run() returns.
Collect ==
    /\ stage = "lines" /\ LinesDone
    /\ stage' = IF vecs = <<>> THEN "empty" ELSE "sweep"
    /\ input' = Taken(Collected)
    /\ segments' = Line!Loaded(input')
    /\ Q' = Line!Queued(segments')
    /\ status' = <<>> /\ currentX' = Leftmost
    /\ UNCHANGED <<lineVars, inner, walkVars, result>>

Sweep ==
    /\ stage = "sweep" /\ Line!Sweep
    /\ UNCHANGED <<stage, lineVars, inner, walkVars, result>>

\* The pieces are linked and walked.
HandOver ==
    /\ stage = "sweep" /\ Line!Done
    /\ stage' = "outlines"
    /\ vecSeg' = [k \in DOMAIN segments |-> Seg(segments[k].a, segments[k].b)]
    /\ verts' = Ring!VerticesOf(vecSeg')
    /\ next' = [k \in DOMAIN segments |-> NULL] /\ prev' = next'
    /\ isvalid' = [k \in DOMAIN segments |-> TRUE]
    /\ pc' = "link" /\ look' = 1 /\ minVert' = NULL
    /\ current' = NULL /\ outside' = NULL /\ turns' = 0 /\ path' = <<>>
    /\ UNCHANGED <<lineVars, sweepVars, inner, result>>

Ended == stage = "empty" \/ (stage = "outlines" /\ pc = "done")

Outline ==
    /\ stage = "outlines" /\ ~Ended /\ Ring!Next
    /\ UNCHANGED <<stage, lineVars, sweepVars>>

Running == PutAndSimplify \/ Collect \/ Sweep \/ HandOver \/ Outline

-----------------------------------------------------------------------------
(* The no-fit polygon by its definition. *)

\* The triangles of the grid: the square at column x and row y is halved from its upper
\* left to its lower right corner; half 0 is below.
Halves(lo, hi) == [x : lo..hi, y : lo..hi, half : 0..1]
Depth(t) == t.x + t.y + t.half

\* How often p winds round (the centre of) t.
Winding(p, t) ==
    LET c == [x |-> Grid * t.x + (Grid \div 3) * (1 + t.half),
              y |-> Grid * t.y + (Grid \div 3) * (1 + t.half)]
        Left(k) == cross(Sub(p[k + 1], p[k]), Sub(c, p[k])) > 0
        Edges == 1..(Len(p) - 1)
    IN  Cardinality({k \in Edges : p[k].y < c.y /\ c.y < p[k + 1].y /\ Left(k)})
            - Cardinality({k \in Edges : p[k + 1].y < c.y /\ c.y < p[k].y /\ ~Left(k)})

\* What polygon p fills: its inside, or all but its inside if it is clockwise.
Inside(p) == {t \in Halves(0, Width - 1) : Winding(p, t) # 0}
Filled(p) ==
    IF Ring!Area(p) > 0 THEN Inside(p) ELSE Halves(-Width - 1, 2 * Width + 1) \ Inside(p)

\* What b overlaps when it is moved by a vector in the triangle t: what it overlaps in both
\* coordinates and in depth, for triangles of this form.
Hit(b, t) ==
    {a \in [x : {b.x + t.x, b.x + t.x + 1}, y : {b.y + t.y, b.y + t.y + 1}, half : 0..1] :
        Depth(a) - Depth(b) - Depth(t) \in 0..1}

\* The triangles of vectors by which q must not be moved, where "fixed" is filled.
Vectors == Halves(-Width - 1, Width)
NoFit(fixed, q) ==
    LET moved == Inside(q)
    IN  {t \in Vectors : \E b \in moved : Hit(b, t) \cap fixed # {}}

\* The sides between triangles, each with the triangle to its left and to its right.
Sides ==
    LET At(x, y) == [x |-> Grid * x, y |-> Grid * y]
        T(x, y, half) == [x |-> x, y |-> y, half |-> half]
        Both(p, q, left, right) == {[s |-> Seg(p, q), left |-> left, right |-> right],
                                    [s |-> Seg(q, p), left |-> right, right |-> left]}
    IN  UNION {Both(At(x, y), At(x + 1, y), T(x, y, 0), T(x, y - 1, 1))
               \cup Both(At(x, y), At(x, y + 1), T(x - 1, y, 1), T(x, y, 0))
               \cup Both(At(x + 1, y), At(x, y + 1), T(x, y, 0), T(x, y, 1)) :
                   x \in -Width..Width, y \in -Width..Width}

\* The outline of a set of triangles, directed so that it lies to the left.
Outer(set) == {e.s : e \in {e \in Sides : e.left \in set /\ e.right \notin set}}

-----------------------------------------------------------------------------
(* Properties. *)

\* What the parts of the run keep is well-formed.
TypeOK ==
    /\ stage \in {"idle", "lines", "sweep", "outlines", "empty"} /\ inner \in BOOLEAN
    /\ stage = "lines" => LinesTypeOK
    /\ stage = "sweep" => Line!TypeOK
    /\ stage = "outlines" => Ring!TypeOK

\* simplifySeg takes away only what is there twice: Trajectories says how.
CoverageIsKept == [][stage = "lines" /\ stage' = "lines" => TakesOnlyDoubles]_nfpVars

\* The outline of the no-fit polygon is drawn: what is handed to the sweep runs over all of
\* it, in its direction.
BoundaryIsCovered ==
    stage = "sweep" /\ currentX = Leftmost =>
        \A s \in Outer(NoFit(Filled(A), B)) :
            \E k \in DOMAIN input : RunsOver(Seg(input[k][1], input[k][2]), s.a, s.b)

\* Two of the segments that are handed over share a stretch: simplifySeg does not go back
\* to what m was compared with before it changed (nfp.cpp:334-384).
OverlapIsLeft ==
    \E j, k \in DOMAIN input :
        LET s == Seg(input[j][1], input[j][2])
            t == Seg(input[k][1], input[k][2])
        IN  /\ j < k
            /\ \E p, q \in {s.a, s.b, t.a, t.b} :
                  p # q /\ RunsOver(s, p, q) /\ (RunsOver(t, p, q) \/ RunsOver(t, q, p))

\* Neither that nor a crossing that the sweep missed (see SweepLine) spoils the result.
Sound == ~OverlapIsLeft /\ Line!AllAreFound
=============================================================================
