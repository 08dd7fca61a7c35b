------------------------------ MODULE Outlines -------------------------------
(***************************************************************************)
(* From the pieces that the sweep leaves to the outlines of a no-fit       *)
(* polygon (FitPolygons/nfp.cpp: judgeLinkSegmentFromVerts, findPolygon)   *)
(* or an inner-fit polygon (ifp.cpp: Ifp overrides findPolygon).           *)
(* At each vertex what comes in is linked with what goes out next to it;   *)
(* chains that start nowhere are dropped; the outer outline is walked from *)
(* the lowest vertex, then the others, of which the holes are kept.  An    *)
(* inner-fit polygon has no outer outline: all that is kept are holes.     *)
(***************************************************************************)
EXTENDS Plane, SequencesExt

\* What the sweep hands over: sequences of segments [a, b] between points [x, y].
CONSTANTS Inputs, NULL

ASSUME NullAssumption == NULL \notin Nat
ASSUME InputsAssumption == \A segs \in Inputs : segs \in Seq([a : Point, b : Point])

VARIABLES
    inner,      \* it is an Ifp
    vecSeg,     \* the segments
    verts,      \* the vertices still to be linked: each on its own, the order does not matter
    next, prev, \* links between segments, by index
    isvalid,    \* the segments that are not dropped and not in an outline yet
    pc,         \* link, drop, walk, done
    i,          \* the segment that the loop in findPolygon looks at
    minVert,    \* the lowest vertex so far, until an outline has been walked from it
    current,    \* where the walk is
    outside,    \* where it started
    turns,      \* how often its loop may still run
    path,       \* the points it has passed
    result      \* m_result

linkVars == <<verts, next, prev>>
walkVars == <<current, outside, turns, path>>
vars == <<inner, vecSeg, linkVars, isvalid, pc, i, minVert, walkVars, result>>

Segs == DOMAIN vecSeg

-----------------------------------------------------------------------------
(* Linking. *)

\* The angle of one vector is smaller than that of another one, in [0, 2 pi).
Lower(d) == d.y < 0 \/ (d.y = 0 /\ d.x < 0)
AngleLess(d, e) ==
    IF Lower(d) # Lower(e) THEN Lower(e) ELSE cross(d, e) > 0

\* The rays at v: the segments that start there, and those that end there looked at
\* from v (the angle less pi).
Ray(s, in) ==
    LET from == IF in THEN vecSeg[s].b ELSE vecSeg[s].a
        to == IF in THEN vecSeg[s].a ELSE vecSeg[s].b
    IN  [seg |-> s, in |-> in, d |-> Sub(to, from)]
Starting(v) == {s \in Segs : vecSeg[s].a = v}
Ending(v) == {s \in Segs : vecSeg[s].b = v}
Rays(v) == {Ray(s, FALSE) : s \in Starting(v)} \cup {Ray(s, TRUE) : s \in Ending(v)}

\* Sorted by angle.  Rays of one angle come in any order: rounding decides.
Sorted(v) ==
    {list \in SetToSeqs(Rays(v)) :
        \A m, n \in DOMAIN list : m < n => ~AngleLess(list[n].d, list[m].d)}

\* Mutant of Pairs: what follows may come in too.
PairsAny(list) ==
    {<<list[m].seg, list[(m % Len(list)) + 1].seg>> : m \in {m \in DOMAIN list : list[m].in}}

\* judgeLinkSegmentCurrentFromIntersection: the pairs of an incoming segment and the
\* outgoing one that follows it in the list, which is closed to a ring.
Pairs(list) ==
    LET After(m) == list[(m % Len(list)) + 1]
    IN  {<<list[m].seg, After(m).seg>> : m \in {m \in DOMAIN list :
            list[m].in /\ ~After(m).in /\ list[m].seg # After(m).seg}}

\* The round of judgeLinkSegmentFromVerts for the next vertex.
Link ==
    /\ pc = "link" /\ verts # {}
    /\ LET v == CHOOSE v \in verts : TRUE
       IN  IF Starting(v) = {} \/ Ending(v) = {}
           THEN UNCHANGED <<next, prev>>
           ELSE \E list \in Sorted(v) :
                  LET pairs == Pairs(list)
                  IN  /\ next' = [s \in Segs |-> IF \E t \in Segs : <<s, t>> \in pairs
                                                 THEN CHOOSE t \in Segs : <<s, t>> \in pairs
                                                 ELSE next[s]]
                      /\ prev' = [t \in Segs |-> IF \E s \in Segs : <<s, t>> \in pairs
                                                 THEN CHOOSE s \in Segs : <<s, t>> \in pairs
                                                 ELSE prev[t]]
    /\ verts' = verts \ {CHOOSE v \in verts : TRUE}
    /\ UNCHANGED <<inner, vecSeg, isvalid, pc, i, minVert, walkVars, result>>

\* findPolygon is called.
Linked ==
    /\ pc = "link" /\ verts = {}
    /\ pc' = "drop"
    /\ minVert' = IF inner THEN NULL ELSE vecSeg[1].a
    /\ UNCHANGED <<inner, vecSeg, linkVars, isvalid, i, walkVars, result>>

-----------------------------------------------------------------------------
(* Dropping. *)

\* Mutant of Look: the walk starts wherever a segment is still valid.
LookAnywhere ==
    /\ pc = "drop" /\ current = NULL /\ i <= Len(vecSeg)
    /\ current' = IF isvalid[i] THEN i ELSE NULL
    /\ i' = i + 1
    /\ UNCHANGED <<inner, vecSeg, linkVars, isvalid, pc, minVert, outside, turns, path, result>>

\* A round of the first loop: the lowest vertex so far, of all segments (Ifp needs none),
\* and the start of a walk along a chain that nothing leads to.
Look ==
    /\ pc = "drop" /\ current = NULL /\ i <= Len(vecSeg)
    /\ LET Lowest(p, q) == IF q.y < p.y THEN q ELSE p
       IN  minVert' = IF inner THEN NULL
                      ELSE Lowest(Lowest(minVert, vecSeg[i].a), vecSeg[i].b)
    /\ current' = IF isvalid[i] /\ prev[i] = NULL THEN i ELSE NULL
    /\ i' = i + 1
    /\ UNCHANGED <<inner, vecSeg, linkVars, isvalid, pc, outside, turns, path, result>>

\* Mutant of Drop: only the first segment of the chain is dropped.
DropFirst ==
    /\ pc = "drop" /\ current # NULL
    /\ isvalid' = [isvalid EXCEPT ![current] = FALSE]
    /\ current' = NULL
    /\ UNCHANGED <<inner, vecSeg, linkVars, pc, i, minVert, outside, turns, path, result>>

\* A round of its inner loop, which stops only at the end of the chain.
Drop ==
    /\ pc = "drop" /\ current # NULL
    /\ isvalid' = [isvalid EXCEPT ![current] = FALSE]
    /\ current' = next[current]
    /\ UNCHANGED <<inner, vecSeg, linkVars, pc, i, minVert, outside, turns, path, result>>

-----------------------------------------------------------------------------
(* Walking. *)

Valid == {s \in Segs : isvalid[s]}

\* A walk from s; its loop runs once for each segment that is valid.
StartWalk(s, valid) ==
    /\ pc' = "walk"
    /\ outside' = s /\ current' = s
    /\ turns' = Cardinality(valid)
    /\ path' = <<>>

\* The outer outline starts at the lowest vertex, with the smallest angle.
ChooseOutside ==
    /\ pc = "drop" /\ current = NULL /\ i > Len(vecSeg) /\ ~inner
    /\ LET valid == Starting(minVert) \cap Valid
       IN  IF valid = {}
           THEN pc' = "done" /\ UNCHANGED walkVars
           ELSE \E s \in valid :
                  /\ \A t \in valid : ~AngleLess(Ray(t, FALSE).d, Ray(s, FALSE).d)
                  /\ StartWalk(s, Valid)
    /\ UNCHANGED <<inner, vecSeg, linkVars, isvalid, i, minVert, result>>

\* Ifp starts at the first segment.
ChooseFirst ==
    /\ pc = "drop" /\ current = NULL /\ i > Len(vecSeg) /\ inner
    /\ IF Valid = {} THEN pc' = "done" /\ UNCHANGED walkVars
                     ELSE StartWalk(Min(Valid), Valid)
    /\ UNCHANGED <<inner, vecSeg, linkVars, isvalid, i, minVert, result>>

AtEndOnly == current = NULL    \* mutant of AtLast: the start is not recognized
AtLast == current = NULL \/ next[current] = outside

Step ==
    /\ pc = "walk" /\ turns > 0 /\ ~AtLast
    /\ path' = Append(path, vecSeg[current].a)
    /\ isvalid' = [isvalid EXCEPT ![current] = FALSE]
    /\ current' = next[current]
    /\ turns' = turns - 1
    /\ UNCHANGED <<inner, vecSeg, linkVars, pc, i, minVert, outside, result>>

\* Clipper2Lib::Area, twice.
Area(p) ==
    FoldLeft(LAMBDA sum, k : sum + p[k].x * p[k + 1].y - p[k].y * p[k + 1].x,
             0, [k \in 1..(Len(p) - 1) |-> k])

\* The last round, and what follows the loop.  The first outline of an Nfp is kept, of the
\* others those that turn clockwise; the next walk starts at the first segment left.
Close ==
    /\ pc = "walk" /\ (turns = 0 \/ AtLast)
    /\ LET took == turns > 0 /\ current # NULL
           walked == IF took THEN Append(path, vecSeg[current].a) ELSE path
           closed == Append(walked, Head(walked))
           left == IF took THEN Valid \ {current} ELSE Valid
       IN  /\ isvalid' = [s \in Segs |-> s \in left]
           /\ result' = IF minVert # NULL \/ Area(closed) < 0
                        THEN Append(result, closed) ELSE result
           /\ IF left = {} THEN pc' = "done" /\ UNCHANGED walkVars
                           ELSE StartWalk(Min(left), left)
    /\ minVert' = NULL
    /\ UNCHANGED <<inner, vecSeg, linkVars, i>>

\* SweepLine::verts: one per point.
VerticesOf(segs) == UNION {{segs[k].a, segs[k].b} : k \in DOMAIN segs}

Return == pc = "done" /\ UNCHANGED vars

Init ==
    /\ inner \in BOOLEAN
    /\ vecSeg \in Inputs
    /\ verts = VerticesOf(vecSeg)
    /\ next = [s \in Segs |-> NULL] /\ prev = next
    /\ isvalid = [s \in Segs |-> TRUE]
    /\ pc = "link"
    /\ i = 1
    /\ minVert = NULL
    /\ current = NULL /\ outside = NULL /\ turns = 0 /\ path = <<>>
    /\ result = <<>>

Next == Link \/ Linked \/ Look \/ Drop \/ ChooseOutside \/ ChooseFirst \/ Step \/ Close \/ Return
Spec == Init /\ [][Next]_vars /\ WF_vars(Next)

-----------------------------------------------------------------------------
(* Properties. *)

TypeOK ==
    /\ next \in [Segs -> Segs \cup {NULL}] /\ prev \in [Segs -> Segs \cup {NULL}]
    /\ isvalid \in [Segs -> BOOLEAN]
    /\ i \in 1..(Len(vecSeg) + 1)
    /\ current \in Segs \cup {NULL} /\ outside \in Segs \cup {NULL}
    /\ turns \in 0..Len(vecSeg)
    /\ pc = "walk" => outside # NULL

\* A link is known at both ends, and leads on from where a segment ends.
LinksAgree ==
    \A s, t \in Segs : /\ next[s] = t <=> prev[t] = s
                       /\ next[s] = t => vecSeg[s].b = vecSeg[t].a

\* After the chains are dropped, only rings are left: from every segment a walk goes on
\* and is led to.  So a walk comes back to where it started.
OnlyRingsAreLeft ==
    pc = "walk" /\ path = <<>> =>
        \A s \in Valid : next[s] \in Valid /\ prev[s] \in Valid

\* The sides of the outlines, by outline and place.
Sides == UNION {{<<k, m>> : m \in 1..(Len(result[k]) - 1)} : k \in DOMAIN result}
Side(w) == Seg(result[w[1]][w[2]], result[w[1]][w[2] + 1])

\* Every outline runs along segments and ends where it started, and no segment is in
\* two outlines, or twice in one: a side is drawn no more often than there are segments for it.
OutlinesAreRings ==
    /\ \A k \in DOMAIN result : result[k][1] = result[k][Len(result[k])]
    /\ \A w \in Sides : Cardinality({u \in Sides : Side(u) = Side(w)})
                          <= Cardinality({s \in Segs : vecSeg[s] = Side(w)})

\* No outline is cut short: neither a missing link nor the bound on the rounds of the
\* loop, which is what is left for all of them (nfp.cpp:792, 847), ends a walk.
NoWalkIsCut == pc = "walk" => current # NULL /\ turns > 0

\* findPolygon returns: its walk along a chain never enters a ring.
WalksEnd == <>(pc = "done")
=============================================================================
