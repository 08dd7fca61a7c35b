------------------------------ MODULE SweepLine ------------------------------
(***************************************************************************)
(* The sweep that cuts segments at their crossings (SweepLine/sweepline.cpp *)
(* and the class in sweepline.h).  One action per kind of event: each runs *)
(* its handler to the end, the sweep is sequential.                        *)
(*                                                                         *)
(* A vertex is its point: the sweep keeps one Vert per point (vertId).     *)
(* The heights that the program computes in doubles are exact fractions    *)
(* here, so what rounding in a double may change is left out; the rounding *)
(* of a crossing to a point of the grid is not.                            *)
(***************************************************************************)
EXTENDS SweepComparators, Plane, SequencesExt

CONSTANTS
    Inputs,     \* what run() is called with: sequences of pairs of points [x, y]
    Leftmost    \* LLONG_MIN, the position before the first event: no int64 is below

ASSUME InputsAssumption ==
    /\ Leftmost \in Int
    /\ \A in \in Inputs :
         /\ in \in Seq(Point \X Point)
         /\ \A k \in DOMAIN in : /\ in[k][1] # in[k][2]
                                 /\ in[k][1].x >= Leftmost /\ in[k][2].x >= Leftmost

VARIABLES
    input,      \* the sequence that run() was called with
    segments,   \* all segments, the input's first
    Q,          \* bag of events
    status,     \* the set, in the order it is kept in, of indices of segments
    currentX    \* where the sweep line is for the comparator

vars == <<input, segments, Q, status, currentX>>

-----------------------------------------------------------------------------
(* Points and segments. *)

NoPoint == [none |-> TRUE]

\* The line of a segment, y = lk * x + lb, by two of its points; a vertical has none.
Vertical == <<>>
Line(p, q) ==
    IF p.x = q.x THEN Vertical ELSE IF p.x < q.x THEN <<p, q>> ELSE <<q, p>>

\* Segment::init.  The line is kept when an endpoint is moved later.
Segment(a, b) == [a |-> a, b |-> b, line |-> Line(a, b)]
existlk(s) == s.line # Vertical

\* Mutant of Rest: the ends are swapped.
RestBackwards(s, a, b) == Segment(b, a)

\* The rest of s, cut off at a point.  It keeps the line of s if it would be vertical
\* without.
Rest(s, a, b) ==
    IF a.x = b.x /\ existlk(s) THEN [a |-> a, b |-> b, line |-> s.line]
                               ELSE Segment(a, b)

\* SegmentComparator::getYAtX, in parts of Unit.
getYAtX(s, x) ==
    IF existlk(s)
    THEN LET p == s.line[1]
             q == s.line[2]
         IN  Unit * p.y + (Unit * (q.y - p.y) * (x - p.x)) \div (q.x - p.x)
    ELSE Unit * Least(s.a.y, s.b.y)

\* A segment as the comparator sees it when the sweep line is at x.
Seen(s, x) == [existlk |-> existlk(s), here |-> getYAtX(s, x), next |-> getYAtX(s, x + 1)]

\* Mutant of Apart: boxes that touch are apart.
ApartTouching(s1, s2) ==
    \/ Greatest(s1.a.x, s1.b.x) <= Least(s2.a.x, s2.b.x)
    \/ Greatest(s1.a.y, s1.b.y) <= Least(s2.a.y, s2.b.y)
    \/ Greatest(s2.a.x, s2.b.x) <= Least(s1.a.x, s1.b.x)
    \/ Greatest(s2.a.y, s2.b.y) <= Least(s1.a.y, s1.b.y)

\* The quick test of intersect: the boxes of the two have no point in common.
Apart(s1, s2) ==
    \/ Greatest(s1.a.x, s1.b.x) < Least(s2.a.x, s2.b.x)
    \/ Greatest(s1.a.y, s1.b.y) < Least(s2.a.y, s2.b.y)
    \/ Greatest(s2.a.x, s2.b.x) < Least(s1.a.x, s1.b.x)
    \/ Greatest(s2.a.y, s2.b.y) < Least(s1.a.y, s1.b.y)

\* std::llround(n / d), d > 0.
llround(n, d) == IF n < 0 THEN -((d - 2 * n) \div (2 * d)) ELSE (d + 2 * n) \div (2 * d)

Abs(n) == IF n < 0 THEN -n ELSE n

\* SweepLine::intersect: where s1 and s2 meet, if not in a common endpoint or along a
\* line.  An endpoint that lies inside the other segment is returned as it is.
intersect(s1, s2) ==
    LET AB == Sub(s1.b, s1.a)
        AC == Sub(s2.a, s1.a)
        AD == Sub(s2.b, s1.a)
        CD == Sub(s2.b, s2.a)
        CB == Sub(s1.b, s2.a)
        DB == Sub(s1.b, s2.b)
        c1 == cross(AB, AC)
        c2 == cross(AB, AD)
        c3 == cross(CD, Sub(s1.a, s2.a))
        c4 == cross(CD, CB)
        If(inside, p) == IF inside THEN p ELSE NoPoint
    IN  IF Apart(s1, s2) \/ {s1.a, s1.b} \cap {s2.a, s2.b} # {} \/ (c1 = 0 /\ c2 = 0)
        THEN NoPoint
        ELSE IF c1 = 0 THEN If(dot(AC, CB) > 0, s2.a)
        ELSE IF c2 = 0 THEN If(dot(AD, DB) > 0, s2.b)
        ELSE IF c3 = 0 THEN If(dot(AC, AD) < 0, s1.a)
        ELSE IF c4 = 0 THEN If(dot(CB, DB) < 0, s1.b)
        ELSE If((c1 < 0) # (c2 < 0) /\ (c3 < 0) # (c4 < 0),
                [x |-> s2.a.x + llround(Abs(c1) * CD.x, Abs(c1) + Abs(c2)),
                 y |-> s2.a.y + llround(Abs(c1) * CD.y, Abs(c1) + Abs(c2))])

-----------------------------------------------------------------------------
(* The event queue. *)

\* The endpoint that is met first is a.
AFirst(s) == s.a.x < s.b.x \/ (s.a.x = s.b.x /\ s.a.y < s.b.y)
EndpointByName(s, type) == IF type = LEFT THEN s.a ELSE s.b   \* mutant of Endpoint: no order
Endpoint(s, type) == IF AFirst(s) = (type = LEFT) THEN s.a ELSE s.b

Event(segs, i, type) ==
    LET p == Endpoint(segs[i], type)
    IN  [x |-> p.x, y |-> p.y, existlk |-> existlk(segs[i]), type |-> type, seg |-> i]

\* insertPriorityQueue(i, type = LEFT), on the events q and the segments segs.
Push(q, segs, i, type) == q (+) SetToBag({Event(segs, i, type)})

\* What the priority queue may pop.
Top(e) == e \in BagToSet(Q) /\ \A f \in BagToSet(Q) : ~EventComp(e, f)

-----------------------------------------------------------------------------
(* The cuts: a work is the segments with the queue. *)

\* The point lies inside s, for all that is known of it.
Inside(s, ip) == ip # s.a /\ ip # s.b

\* Mutant of Cut: the segment itself is not shortened.
CutWhole(work, i, ip, ends) ==
    LET s == work.segments[i]
        segs == Append(work.segments, IF AFirst(s) THEN Rest(s, ip, s.b) ELSE Rest(s, s.a, ip))
    IN  IF ~Inside(s, ip) THEN work
        ELSE [segments |-> segs, Q |-> Push(work.Q, segs, Len(segs), LEFT)]

\* Segment i is cut at ip, if ip is not one of its endpoints: it keeps the part on the
\* left, the rest is a new segment with an event of its own.  "ends": the right end
\* of i, which has moved, is put into the queue once more.
Cut(work, i, ip, ends) ==
    LET s == work.segments[i]
        left == (~existlk(s) /\ s.a.y < s.b.y) \/ s.a.x < s.b.x
        kept == IF left THEN [s EXCEPT !.b = ip] ELSE [s EXCEPT !.a = ip]
        rest == IF left THEN Rest(s, ip, s.b) ELSE Rest(s, s.a, ip)
        segs == Append([work.segments EXCEPT ![i] = kept], rest)
        pushed == Push(work.Q, segs, Len(segs), LEFT)
    IN  IF ~Inside(s, ip) THEN work
        ELSE [segments |-> segs, Q |-> IF ends THEN Push(pushed, segs, i, RIGHT) ELSE pushed]

\* The crossing lies to the left of the sweep line.
Behind(ip, x) == ip.x < x

\* Mutant of Meet: the new right ends are not put into the queue.
MeetSilently(work, x, i, j, both) ==
    LET ip == intersect(work.segments[i], work.segments[j])
    IN  IF ip = NoPoint \/ Behind(ip, x) THEN work
        ELSE Cut(Cut(work, i, ip, FALSE), j, ip, FALSE)

\* processIntersect(i, j), and processIntersectPrevNext(i, j), which differs in that
\* the right end of j too is put into the queue ("both").
Meet(work, x, i, j, both) ==
    LET ip == intersect(work.segments[i], work.segments[j])
    IN  IF ip = NoPoint \/ Behind(ip, x) THEN work
        ELSE Cut(Cut(work, i, ip, TRUE), j, ip, both)

-----------------------------------------------------------------------------
(* The status: a std::set, whose tree decides which of the places that the *)
(* comparator allows is taken.                                             *)

\* i has to come before j, with the sweep line at x.
Before(i, j, x) == SegmentComparator(Seen(segments[i], x), Seen(segments[j], x))

\* insert descends to a place k where status[k] is not after i and status[k+1] is.
InsertPlace(k, i, x) ==
    /\ k > 0 => ~Before(i, status[k], x)
    /\ k < Len(status) => Before(i, status[k + 1], x)

\* ... and i goes in unless it is equivalent to the one below.
IsNew(k, i, x) == k > 0 => Before(status[k], i, x)

\* find descends to a place k where status[k] is before i and status[k+1] is not.
FindPlace(k, i, x) ==
    /\ k > 0 => Before(status[k], i, x)
    /\ k < Len(status) => ~Before(status[k + 1], i, x)

\* ... and has found status[k+1], which is equivalent to i but need not be i.
Found(k, i, x) == k < Len(status) /\ ~Before(i, status[k + 1], x)

-----------------------------------------------------------------------------
(* run(). *)

Work == [segments |-> segments, Q |-> Q]

\* After the input's vertices are made one per point, its left ends are put into the
\* queue.
Loaded(in) == [i \in 1..Len(in) |-> Segment(in[i][1], in[i][2])]
Queued(segs) == SetToBag({Event(segs, i, LEFT) : i \in DOMAIN segs})

Init ==
    /\ input \in Inputs
    /\ segments = Loaded(input)
    /\ Q = Queued(segments)
    /\ status = <<>>
    /\ currentX = Leftmost

\* handleLeftEvent with checkNeighbours, and the right end of the segment is put into
\* the queue, whether it went into the status or not.
HandleLeft(e) ==
    LET x == e.x
        i == e.seg
        rest == [Work EXCEPT !.Q = @ (-) SetToBag({e})]
    IN  /\ e.type = LEFT
        /\ currentX' = x
        /\ \E k \in 0..Len(status) :
             /\ InsertPlace(k, i, x)
             /\ IF IsNew(k, i, x)
                THEN \E below \in {IF k > 0 THEN Meet(rest, x, status[k], i, FALSE) ELSE rest} :
                     \E new \in {IF k < Len(status)
                                 THEN Meet(below, x, status[k + 1], i, FALSE) ELSE below} :
                        /\ status' = InsertAt(status, k + 1, i)
                        /\ segments' = new.segments
                        /\ Q' = Push(new.Q, new.segments, i, RIGHT)
                ELSE /\ Q' = Push(rest.Q, segments, i, RIGHT)
                     /\ UNCHANGED <<status, segments>>
        /\ UNCHANGED input

\* handleRightEvent with checkNeighboursBeforeRemoval.  The sweep line is not moved.
HandleRight(e) ==
    LET i == e.seg
        rest == [Work EXCEPT !.Q = @ (-) SetToBag({e})]
    IN  /\ e.type = RIGHT
        /\ \E k \in 0..Len(status) :
             /\ FindPlace(k, i, currentX)
             /\ IF Found(k, i, currentX)
                THEN \E new \in {IF k > 0 /\ k + 1 < Len(status)
                                 THEN Meet(rest, currentX, status[k], status[k + 2], TRUE)
                                 ELSE rest} :
                        /\ status' = RemoveAt(status, k + 1)
                        /\ segments' = new.segments
                        /\ Q' = new.Q
                ELSE /\ Q' = rest.Q
                     /\ UNCHANGED <<status, segments>>
        /\ UNCHANGED <<input, currentX>>

Done == Q = EmptyBag
Return == Done /\ UNCHANGED vars

Sweep == \E e \in BagToSet(Q) : Top(e) /\ (HandleLeft(e) \/ HandleRight(e))
Next == Sweep \/ Return

Spec == Init /\ [][Next]_vars

-----------------------------------------------------------------------------
(* Properties. *)

VerticesOf(segs) == UNION {{segs[i].a, segs[i].b} : i \in DOMAIN segs}
Vertices == VerticesOf(segments)
Upright == \E i \in DOMAIN segments : ~existlk(segments[i])

\* No segment is empty, none is in the status twice, and every event is of a segment
\* and at a vertex.
TypeOK ==
    /\ \A i \in DOMAIN segments : segments[i].a # segments[i].b
    /\ status \in Seq(DOMAIN segments) /\ IsInjective(status)
    /\ IsABag(Q)
    /\ \A e \in BagToSet(Q) : e.seg \in DOMAIN segments /\ [x |-> e.x, y |-> e.y] \in Vertices
    /\ currentX \in Int

\* How many more segments start at a point than end there.
Surplus(p, segs) ==
    Cardinality({i \in DOMAIN segs : segs[i].a = p})
        - Cardinality({i \in DOMAIN segs : segs[i].b = p})

\* A cut loses, doubles or turns round no part of a segment: at every vertex as many
\* pieces go out as come in, but where the input starts and ends.  The outlines are
\* linked from what goes in and out at the vertices (nfp.cpp:607-661).
FlowIsKept ==
    \A p \in Vertices :
        Surplus(p, segments) = Surplus(p, Loaded(input))

\* The sweep ends: it does not cut for ever what it has cut.  Two segments are cut
\* where they meet, once, so n segments give at most n * n pieces; and each piece and
\* each cut puts a fixed number of events into the queue, which every step shortens.
PiecesAreFew == Len(segments) <= Len(input) * Len(input)

\* The queue holds nothing on the left of the sweep line, or the sweep would go back
\* and sort the status for a position that it has left (sweepline.cpp:479, 633).
NothingBehind == \A e \in BagToSet(Q) : e.x >= currentX

\* Without verticals what is in the status has a RIGHT event to come that removes it, as
\* ReadMe.md:720 says, and one of these events is where the segment ends now: a segment that
\* was cut does not stay for the length that it had.
LeavesAtItsEnd ==
    ~Upright => \A k \in DOMAIN status :
        \E e \in BagToSet(Q) : /\ e.type = RIGHT /\ e.seg = status[k]
                              /\ [x |-> e.x, y |-> e.y] = Endpoint(segments[status[k]], RIGHT)

\* Within one unit: rounding moves a crossing by no more than a half in x and in y.
Beside(p, s) == \E q \in {s.a, s.b} : Abs(p.x - q.x) <= 1 /\ Abs(p.y - q.y) <= 1

\* ReadMe.md:780: all crossings are found.  When the sweep is over, no two segments
\* meet but in their endpoints, or beside an endpoint of each, where the rounding of a
\* third crossing has moved one of them over the other (sweepline.cpp:950-953).
AllAreFound ==
    Done => \A i, j \in DOMAIN segments :
        i < j => LET ip == intersect(segments[i], segments[j])
                 IN  ip = NoPoint \/ (Beside(ip, segments[i]) /\ Beside(ip, segments[j]))

\* The queue orders the events that it holds, of segments that were cut as well: the
\* nine rules of EventComp, which fall through one into the next, do not contradict
\* each other (sweepline.h:41-86).
QueueIsOrdered == StrictWeakOrder(EventComp, BagToSet(Q))

\* The segments in the status, as its comparator sees them now.
InStatus == {Seen(segments[status[k]], currentX) : k \in DOMAIN status}

\* The status is a std::set, which is defined only for a strict weak order.  Its
\* comparator is one on what the status holds, verticals included, unless three of the
\* segments are chained: the rule for heights within 3 units is not transitive
\* (sweepline.h:109).
OrderedUnlessChained ==
    StrictWeakOrder(SegmentComparator, InStatus) <=> ~\E a, b, c \in InStatus : Chained(a, b, c)

\* Without verticals the order in which the segments went in is the one that the
\* comparator gives now, though the sweep line has moved and segments were cut
\* (sweepline.h:97-102): nothing in the status has to come before what is below it.
StatusIsSorted ==
    ~Upright => \A j, k \in DOMAIN status : j < k => ~Before(status[k], status[j], currentX)

\* ReadMe.md:497-510 and 535: at one x the left ends come before the right ones
\* (verticals aside, which have rules of their own).
LeftBeforeRight ==
    \A e, f \in BagToSet(Q) :
        e.type = LEFT /\ f.type = RIGHT /\ e.existlk /\ f.existlk /\ e.x = f.x => ~EventComp(e, f)
=============================================================================
