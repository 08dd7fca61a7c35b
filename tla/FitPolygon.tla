------------------------------ MODULE FitPolygon ------------------------------
(***************************************************************************)
(* FitPolygon::getAllResult (FitPolygons/fitpolygon.cpp): where a part may *)
(* be placed against a part that has been placed, and into its holes; or   *)
(* on a sheet, and around the holes of the sheet.  It runs Nfp and Ifp one *)
(* after the other.                                                        *)
(*                                                                         *)
(* A part's contour and a sheet's holes are counter-clockwise, a part's    *)
(* holes and a sheet's contour clockwise: what is filled lies to the left. *)
(* Polygons are given with the part's centre, m_center, at the origin.     *)
(***************************************************************************)
EXTENDS Nfp

\* Pairs of a resting item [sheet, contour, holes] and the contour of a part.
CONSTANT Inputs

\* A difference of coordinates is no less than LLONG_MIN: overflow is left out.
InReach(p, q) == \A j \in DOMAIN p, k \in DOMAIN q : p[j].x - q[k].x >= Leftmost

ASSUME InputsAssumption ==
    \A pair \in Inputs :
        /\ pair[1].sheet \in BOOLEAN /\ IsPath(pair[1].contour) /\ IsPath(pair[2])
        /\ InReach(pair[1].contour, pair[2])
        /\ \A k \in 1..Len(pair[1].holes) :
              IsPath(pair[1].holes[k]) /\ InReach(pair[1].holes[k], pair[2])

VARIABLES
    item, part,     \* m_A and the contour of m_B
    phase,          \* begin, contour, holes, done, undefined
    h,              \* the loop over the holes
    nfpResult, ifpResult,
    sound           \* not in the code: every run so far was Sound

fitVars == <<item, part, phase, h, nfpResult, ifpResult, sound>>
vars == <<nfpVars, fitVars>>

-----------------------------------------------------------------------------
(* Clipper2, AABB and areas. *)

Coordinates(p, c) == {p[k][c] : k \in DOMAIN p}
Extent(p, c) ==
    CHOOSE d \in {u - v : u, v \in Coordinates(p, c)} :
        \A u, v \in Coordinates(p, c) : u - v <= d
Magnitude(k) == IF k < 0 THEN -k ELSE k

\* p does not go into outer, by its width, its height or its area.
TooSmall(outer, p) ==
    \/ Extent(outer, "x") < Extent(p, "x")
    \/ Extent(outer, "y") < Extent(p, "y")
    \/ Magnitude(Ring!Area(outer)) < Ring!Area(p)

\* What the part fills when it is moved by p.
Moved(p) ==
    {[b EXCEPT !.x = @ + (p.x \div Grid), !.y = @ + (p.y \div Grid)] : b \in Inside(part)}

\* Mutant of FakeHole: the part is not moved to the hole to see.
FakeHoleByExtent(hole) ==
    \/ Magnitude(Extent(item.contour, "x") - Extent(part, "x")) < Extent(hole, "x")
    \/ Magnitude(Extent(item.contour, "y") - Extent(part, "y")) < Extent(hole, "y")

\* The part overlaps the contour at the first point of the hole (Clipper2's Intersect of
\* the two is not empty), or the hole is larger than any hole can be.
FakeHole(hole) ==
    \/ Magnitude(Extent(item.contour, "x") - Extent(part, "x")) < Extent(hole, "x")
    \/ Magnitude(Extent(item.contour, "y") - Extent(part, "y")) < Extent(hole, "y")
    \/ Moved(hole[1]) \cap Inside(item.contour) # {}

-----------------------------------------------------------------------------

Init ==
    /\ Idle
    /\ \E pair \in Inputs : item = pair[1] /\ part = pair[2]
    /\ phase = "begin" /\ h = 1
    /\ nfpResult = <<>> /\ ifpResult = <<>>
    /\ sound = TRUE

\* A part: Nfp on the contours.  A sheet: Ifp on them, if there is room for the part.
Begin ==
    /\ phase = "begin"
    /\ IF item.sheet /\ TooSmall(item.contour, part)
       THEN phase' = "done" /\ UNCHANGED nfpVars
       ELSE phase' = "contour" /\ Run(item.contour, part, item.sheet, <<>>)
    /\ UNCHANGED <<item, part, h, nfpResult, ifpResult, sound>>

Proceed == Running /\ UNCHANGED fitVars

\* The outlines but the first are asked whether they are holes.  With no outline the call
\* is erase(remove_if(begin() + 1, end())) on an empty list.
RemoveFakeHoles ==
    /\ phase = "contour" /\ Ended /\ ~item.sheet
    /\ IF result = <<>>
       THEN phase' = "undefined" /\ UNCHANGED nfpResult
       ELSE /\ phase' = "holes"
            /\ nfpResult' = <<Head(result)>> \o SelectSeq(Tail(result), LAMBDA p : ~FakeHole(p))
    /\ stage' = "idle" /\ sound' = Sound
    /\ UNCHANGED <<lineVars, sweepVars, inner, walkVars, result, item, part, h, ifpResult>>

\* getIfpResult of a sheet returns; without a place for the part there is no more to do.
KeepInner ==
    /\ phase = "contour" /\ Ended /\ item.sheet
    /\ ifpResult' = result
    /\ phase' = IF result = <<>> THEN "done" ELSE "holes"
    /\ stage' = "idle" /\ result' = <<>> /\ sound' = Sound
    /\ UNCHANGED <<lineVars, sweepVars, inner, walkVars, item, part, h, nfpResult>>

\* The next hole: of a sheet it is what the part must not overlap, and "result" goes on
\* from one to the next; a part's hole may take the part in.  The first hole that is too
\* small ends the loop, and those after it are not looked at.
NextHole ==
    /\ phase = "holes" /\ stage = "idle" /\ h <= Len(item.holes)
    /\ IF item.sheet
       THEN Run(item.holes[h], part, FALSE, result) /\ UNCHANGED phase
       ELSE IF TooSmall(item.holes[h], part)
            THEN phase' = "done" /\ UNCHANGED nfpVars
            ELSE Run(item.holes[h], part, TRUE, <<>>) /\ UNCHANGED phase
    /\ UNCHANGED <<item, part, h, nfpResult, ifpResult, sound>>

HoleDone ==
    /\ phase = "holes" /\ Ended
    /\ IF item.sheet THEN nfpResult' = nfpResult \o result /\ UNCHANGED ifpResult
                     ELSE ifpResult' = ifpResult \o result /\ UNCHANGED nfpResult
    /\ h' = h + 1
    /\ stage' = "idle" /\ sound' = (sound /\ Sound)
    /\ UNCHANGED <<lineVars, sweepVars, inner, walkVars, result, item, part, phase>>

Finish ==
    /\ phase = "holes" /\ stage = "idle" /\ h > Len(item.holes)
    /\ phase' = "done"
    /\ UNCHANGED <<nfpVars, item, part, h, nfpResult, ifpResult, sound>>

Return == phase \in {"done", "undefined"} /\ UNCHANGED vars

Next ==
    \/ Begin \/ Proceed \/ RemoveFakeHoles \/ KeepInner
    \/ NextHole \/ HoleDone \/ Finish \/ Return
Spec == Init /\ [][Next]_vars

-----------------------------------------------------------------------------
(* What the answer has to be. *)

\* What the resting item fills.
Fixed ==
    IF item.sheet THEN UNION ({Filled(item.contour)} \cup {Filled(item.holes[k]) : k \in DOMAIN item.holes})
    ELSE {t \in Filled(item.contour) : \A k \in DOMAIN item.holes : t \in Filled(item.holes[k])}

\* How often a list of outlines runs over a stretch.
Drawn(paths, s) ==
    Cardinality(UNION {{<<k, l>> : l \in {l \in 1..(Len(paths[k]) - 1) :
                                           RunsOver(Seg(paths[k][l], paths[k][l + 1]), s.a, s.b)}} :
                       k \in DOMAIN paths})

\* Two parts: the outlines are those of the vectors by which the parts overlap, all of
\* them, once, and nothing else.  No chain, no outline where the part does not touch, and
\* no fake hole is left; no pocket and no hole where the part fits is forgotten.
PartsTouch ==
    phase = "done" /\ sound /\ ~item.sheet /\ h > Len(item.holes) =>
        \E outline \in {Outer(NoFit(Fixed, part))} : \A e \in Sides :
            Drawn(nfpResult \o ifpResult, e.s) = IF e.s \in outline THEN 1 ELSE 0

\* Difference(ifpResult, nfpResult, NonZero) of Clipper2: wound round by the one and not
\* by the other.
Around(paths, t) ==
    FoldLeft(LAMBDA sum, p : sum + Winding(p, t), 0, paths)
Difference == {t \in Vectors : Around(ifpResult, t) # 0 /\ Around(nfpResult, t) = 0}

\* A sheet: what is left is where the part lies on the sheet and on none of its holes, if the
\* sheet alone has room for it to move.  A part that fits exactly in one direction may get
\* outlines where it does not fit (README).
SheetIsFilled ==
    LET room == Vectors \ NoFit(Filled(item.contour), part)
    IN  phase = "done" /\ sound /\ item.sheet /\ room # {} =>
            (IF ifpResult = <<>> THEN {} ELSE Difference) = room \ NoFit(Fixed, part)

\* fitpolygon.cpp:179 reports an error if two parts have no no-fit polygon.
ResultIsNotEmpty == phase \in {"done", "undefined"} /\ ~item.sheet => nfpResult # <<>>
===============================================================================
