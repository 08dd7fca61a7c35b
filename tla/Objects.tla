------------------------------- MODULE Objects -------------------------------
(***************************************************************************)
(* Who has which Vert and Segment, from Nfp::run to the destructor of its  *)
(* SweepLine (FitPolygons/nfp.cpp, SweepLine/sweepline.cpp), with the      *)
(* object pools of the thread (objectpool/objectpool.h) that they are      *)
(* taken from and given back to, one job after another.                    *)
(*                                                                         *)
(* Geometry is left open: any two segments may overlap or cross, anywhere. *)
(* So is which of the free objects comes out of a pool, a stack.           *)
(***************************************************************************)
EXTENDS Naturals, FiniteSets

CONSTANTS
    Vert, Segment, Point,
    PoolVerts, PoolSegments,    \* what initialize() puts into the pools
    NULL

ASSUME PoolAssumption ==
    /\ PoolVerts \subseteq Vert /\ PoolSegments \subseteq Segment
    /\ NULL \notin Vert /\ NULL \notin Segment

VARIABLES
    stage,          \* start, idle, lines, vertices, sweep, crossing, cutting, links, clearing
    vfree, sfree,   \* how often an object is in its pool
    vmade, smade,   \* the objects created so far
    pt,             \* Vert::pt
    start, end,     \* Vert::vec_start_point_segment, vec_end_point_segment, as sets
    a, b,           \* Segment::a, b
    next, prev,     \* Segment::next, prev
    isvalid,
    existlk,        \* not vertical
    segments,       \* those of vec_vec_seg, then of the SweepLine
    toA, toB,       \* whose first, second vertex is still to be deduplicated
    verts,          \* SweepLine::verts
    ip, cut,        \* a crossing, and the segments to be cut there
    lost            \* not in the code: crossings that were dropped

poolVars == <<vfree, sfree, vmade, smade>>
vertVars == <<pt, start, end>>
segVars == <<a, b, next, prev, isvalid, existlk>>
sweepVars == <<segments, toA, toB, verts, ip, cut, lost>>
vars == <<stage, poolVars, vertVars, segVars, sweepVars>>

-----------------------------------------------------------------------------
(* The pools. *)

\* acquire: x comes out of the pool, or is made because the pool is empty.
Available(free, made, x) == IF \E y \in DOMAIN free : free[y] > 0 THEN free[x] > 0 ELSE x \notin made
Less(free, x) == [free EXCEPT ![x] = IF @ > 0 THEN @ - 1 ELSE 0]
More(free, x) == [free EXCEPT ![x] = @ + 1]

\* Vert::init, for a crossing.
AcquireVert(v, p) ==
    /\ Available(vfree, vmade, v)
    /\ vfree' = Less(vfree, v) /\ vmade' = vmade \cup {v}
    /\ pt' = [pt EXCEPT ![v] = p]
    /\ start' = [start EXCEPT ![v] = {}] /\ end' = [end EXCEPT ![v] = {}]

\* Vert::reset.
ReleaseVert(v) ==
    /\ vfree' = More(vfree, v)
    /\ start' = [start EXCEPT ![v] = {}] /\ end' = [end EXCEPT ![v] = {}]

\* Segment::init finds out whether s is vertical, but not that it is not.
InitSlope(s) == \E vertical \in BOOLEAN : existlk' = [existlk EXCEPT ![s] = @ /\ ~vertical]

\* Mutant of ResetLinks: a vertical segment stays vertical.
ResetLinksOnly(S) ==
    /\ isvalid' = [s \in Segment |-> s \in S \/ isvalid[s]]
    /\ next' = [s \in Segment |-> IF s \in S THEN NULL ELSE next[s]]
    /\ prev' = [s \in Segment |-> IF s \in S THEN NULL ELSE prev[s]]
    /\ UNCHANGED existlk

\* Segment::reset but for the vertices, of all segments in S.
ResetLinks(S) ==
    /\ isvalid' = [s \in Segment |-> s \in S \/ isvalid[s]]
    /\ existlk' = [s \in Segment |-> s \in S \/ existlk[s]]
    /\ next' = [s \in Segment |-> IF s \in S THEN NULL ELSE next[s]]
    /\ prev' = [s \in Segment |-> IF s \in S THEN NULL ELSE prev[s]]

-----------------------------------------------------------------------------

Init ==
    /\ stage = "start"
    /\ vfree = [v \in Vert |-> 0] /\ sfree = [s \in Segment |-> 0]
    /\ vmade = {} /\ smade = {}
    /\ pt \in {[v \in Vert |-> p] : p \in Point}
    /\ start = [v \in Vert |-> {}] /\ end = [v \in Vert |-> {}]
    /\ a = [s \in Segment |-> NULL] /\ b = [s \in Segment |-> NULL]
    /\ next = [s \in Segment |-> NULL] /\ prev = [s \in Segment |-> NULL]
    /\ isvalid = [s \in Segment |-> TRUE] /\ existlk = [s \in Segment |-> TRUE]
    /\ segments = {} /\ toA = {} /\ toB = {} /\ verts = {}
    /\ ip = NULL /\ cut = {} /\ lost = {}

\* initialize, which does nothing when it is called again.
Initialize ==
    /\ stage = "start" /\ stage' = "idle"
    /\ vfree' = [v \in Vert |-> IF v \in PoolVerts THEN 1 ELSE 0] /\ vmade' = PoolVerts
    /\ sfree' = [s \in Segment |-> IF s \in PoolSegments THEN 1 ELSE 0] /\ smade' = PoolSegments
    /\ UNCHANGED <<vertVars, segVars, sweepVars>>

Begin ==
    /\ stage = "idle" /\ stage' = "lines"
    /\ UNCHANGED <<poolVars, vertVars, segVars, sweepVars>>

-----------------------------------------------------------------------------
(* nfp_line, simplifySeg. *)

\* A trajectory: two vertices of its own and a segment.
PutLine(v, w, s, p, q) ==
    /\ stage = "lines" /\ p # q
    /\ Available(vfree, vmade, v) /\ Available(Less(vfree, v), vmade \cup {v}, w)
    /\ Available(sfree, smade, s)
    /\ vfree' = Less(Less(vfree, v), w) /\ vmade' = vmade \cup {v, w}
    /\ sfree' = Less(sfree, s) /\ smade' = smade \cup {s}
    /\ pt' = [pt EXCEPT ![v] = p, ![w] = q]
    /\ start' = [start EXCEPT ![v] = {s}, ![w] = {}]
    /\ end' = [end EXCEPT ![v] = {}, ![w] = {s}]
    /\ a' = [a EXCEPT ![s] = v] /\ b' = [b EXCEPT ![s] = w]
    /\ segments' = segments \cup {s} /\ toA' = toA \cup {s} /\ toB' = toB \cup {s}
    /\ InitSlope(s)
    /\ UNCHANGED <<stage, next, prev, isvalid, verts, ip, cut, lost>>

Vertices(S) == {a[s] : s \in S} \cup {b[s] : s \in S}

\* Mutant of Drop: the second vertex is forgotten.
DropHalf(S) ==
    /\ vfree' = [v \in Vert |-> IF v \in {a[s] : s \in S} THEN vfree[v] + 1 ELSE vfree[v]]
    /\ sfree' = [s \in Segment |-> IF s \in S THEN sfree[s] + 1 ELSE sfree[s]]
    /\ start' = [v \in Vert |-> IF v \in Vertices(S) THEN {} ELSE start[v]]
    /\ end' = [v \in Vert |-> IF v \in Vertices(S) THEN {} ELSE end[v]]
    /\ a' = [s \in Segment |-> IF s \in S THEN NULL ELSE a[s]]
    /\ b' = [s \in Segment |-> IF s \in S THEN NULL ELSE b[s]]
    /\ ResetLinks(S)
    /\ segments' = segments \ S /\ toA' = toA \ S /\ toB' = toB \ S

\* The segments in S go, and their vertices with them.
Drop(S) ==
    /\ vfree' = [v \in Vert |-> IF v \in Vertices(S) THEN vfree[v] + 1 ELSE vfree[v]]
    /\ sfree' = [s \in Segment |-> IF s \in S THEN sfree[s] + 1 ELSE sfree[s]]
    /\ start' = [v \in Vert |-> IF v \in Vertices(S) THEN {} ELSE start[v]]
    /\ end' = [v \in Vert |-> IF v \in Vertices(S) THEN {} ELSE end[v]]
    /\ a' = [s \in Segment |-> IF s \in S THEN NULL ELSE a[s]]
    /\ b' = [s \in Segment |-> IF s \in S THEN NULL ELSE b[s]]
    /\ ResetLinks(S)
    /\ segments' = segments \ S /\ toA' = toA \ S /\ toB' = toB \ S

\* processOverlap of s and t: s goes, t goes too, or neither; the vertices of what is left
\* are moved to where there was one.
ProcessOverlap(s, t, S) ==
    /\ stage = "lines" /\ s # t
    /\ Drop(S)
    /\ \E to \in [Vertices({s, t} \ S) -> {pt[v] : v \in Vertices({s, t})}] :
         pt' = [v \in Vert |-> IF v \in Vertices({s, t} \ S) THEN to[v] ELSE pt[v]]
    /\ UNCHANGED <<stage, vmade, smade, verts, ip, cut, lost>>

-----------------------------------------------------------------------------
(* The sweep. *)

RunSweep ==
    /\ stage = "lines" /\ stage' = "vertices"
    /\ UNCHANGED <<poolVars, vertVars, segVars, sweepVars>>

\* vertexDeduplicate(v): v joins the vertices, or another vertex takes its segments.
Join(v) == verts' = verts \cup {v} /\ UNCHANGED <<vfree, start, end, a, b>>
Give(v, u) ==
    /\ a' = [s \in Segment |-> IF s \in start[v] THEN u ELSE a[s]]
    /\ b' = [s \in Segment |-> IF s \in end[v] THEN u ELSE b[s]]
    /\ start' = [start EXCEPT ![u] = @ \cup start[v], ![v] = {}]
    /\ end' = [end EXCEPT ![u] = @ \cup end[v], ![v] = {}]
    /\ vfree' = More(vfree, v)
    /\ UNCHANGED verts

Deduplicate(v) ==
    IF \E u \in verts : pt[u] = pt[v] THEN \E u \in verts : pt[u] = pt[v] /\ Give(v, u)
                                      ELSE Join(v)

DeduplicateA(s) ==
    /\ stage = "vertices" /\ s \in toA
    /\ Deduplicate(a[s])
    /\ toA' = toA \ {s}
    /\ UNCHANGED <<stage, sfree, vmade, smade, pt, next, prev, isvalid, existlk, segments, toB,
                   ip, cut, lost>>

DeduplicateB(s) ==
    /\ stage = "vertices" /\ s \in toB \ toA
    /\ Deduplicate(b[s])
    /\ toB' = toB \ {s}
    /\ UNCHANGED <<stage, sfree, vmade, smade, pt, next, prev, isvalid, existlk, segments, toA,
                   ip, cut, lost>>

Deduplicated ==
    /\ stage = "vertices" /\ toA = {} /\ toB = {} /\ stage' = "sweep"
    /\ UNCHANGED <<poolVars, vertVars, segVars, sweepVars>>

\* intersect finds a new point, or an endpoint of one segment inside the other.
Intersect(s, t, v, p) ==
    /\ stage = "sweep" /\ stage' = "crossing" /\ s # t
    /\ AcquireVert(v, p)
    /\ ip' = v /\ cut' = {s, t}
    /\ UNCHANGED <<sfree, smade, segVars, segments, toA, toB, verts, lost>>

IntersectAtEnd(s, t) ==
    /\ stage = "sweep" /\ stage' = "crossing" /\ s # t
    /\ \E u \in Vertices({s, t}) : ip' = u
    /\ cut' = {s, t}
    /\ UNCHANGED <<poolVars, vertVars, segVars, segments, toA, toB, verts, lost>>

\* The crossing is on the left of the sweep line: a new vertex is never given back.
DropCrossing ==
    /\ stage = "crossing" /\ stage' = "sweep"
    /\ lost' = IF ip \in verts THEN lost ELSE lost \cup {ip}
    /\ ip' = NULL /\ cut' = {}
    /\ UNCHANGED <<poolVars, vertVars, segVars, segments, toA, toB, verts>>

\* Mutant of InsertVerts: that a vertex is there already is not noticed.
InsertVertsAlways ==
    /\ stage = "crossing" /\ stage' = "cutting"
    /\ verts' = verts \cup {ip}
    /\ UNCHANGED <<vfree, start, end, ip, sfree, vmade, smade, pt, segVars, segments, toA, toB,
                   cut, lost>>

\* insertVerts: a vertex at this point that is there already is taken instead.
InsertVerts ==
    /\ stage = "crossing" /\ stage' = "cutting"
    /\ IF \E u \in verts : pt[u] = pt[ip]
       THEN \E u \in verts :
              /\ pt[u] = pt[ip] /\ ip' = u
              /\ IF u = ip THEN UNCHANGED <<vfree, start, end>> ELSE ReleaseVert(ip)
              /\ UNCHANGED verts
       ELSE verts' = verts \cup {ip} /\ UNCHANGED <<vfree, start, end, ip>>
    /\ UNCHANGED <<sfree, vmade, smade, pt, segVars, segments, toA, toB, cut, lost>>

\* s need not be cut, if the crossing is one of its ends.
Keep(s) ==
    /\ stage = "cutting" /\ s \in cut /\ ip \in {a[s], b[s]}
    /\ cut' = cut \ {s}
    /\ UNCHANGED <<stage, poolVars, vertVars, segVars, segments, toA, toB, verts, ip, lost>>

\* Mutant of CutEnd: the end of s is not told that s has gone.
CutEndKeeps(s, t) ==
    /\ start' = [start EXCEPT ![ip] = @ \cup {t}]
    /\ end' = [end EXCEPT ![b[s]] = @ \cup {t}, ![ip] = @ \cup {s}]
    /\ a' = [a EXCEPT ![t] = ip] /\ b' = [b EXCEPT ![t] = b[s], ![s] = ip]

\* s is cut: t is what lies behind the crossing, or before it, and s the rest.  A crossing with
\* a vertical segment lies on it, so that t is vertical, and t is as slanted as s otherwise: if it
\* is so short that init takes it for vertical, it gets the slope of s.
CutEnd(s, t) ==
    /\ start' = [start EXCEPT ![ip] = @ \cup {t}]
    /\ end' = [end EXCEPT ![b[s]] = (@ \cup {t}) \ {s}, ![ip] = @ \cup {s}]
    /\ a' = [a EXCEPT ![t] = ip] /\ b' = [b EXCEPT ![t] = b[s], ![s] = ip]
CutStart(s, t) ==
    /\ start' = [start EXCEPT ![a[s]] = (@ \cup {t}) \ {s}, ![ip] = @ \cup {s}]
    /\ end' = [end EXCEPT ![ip] = @ \cup {t}]
    /\ a' = [a EXCEPT ![t] = a[s], ![s] = ip] /\ b' = [b EXCEPT ![t] = ip]

Cut(s, t) ==
    /\ stage = "cutting" /\ s \in cut /\ ip \notin {a[s], b[s]}
    /\ Available(sfree, smade, t)
    /\ sfree' = Less(sfree, t) /\ smade' = smade \cup {t}
    /\ CutEnd(s, t) \/ CutStart(s, t)
    /\ existlk' = [existlk EXCEPT ![t] = existlk[s]]
    /\ segments' = segments \cup {t} /\ cut' = cut \ {s}
    /\ UNCHANGED <<stage, vfree, vmade, pt, next, prev, isvalid, toA, toB, verts, ip, lost>>

CutsDone ==
    /\ stage = "cutting" /\ cut = {} /\ stage' = "sweep"
    /\ ip' = NULL
    /\ UNCHANGED <<poolVars, vertVars, segVars, segments, toA, toB, verts, cut, lost>>

-----------------------------------------------------------------------------
(* Outlines, and the destructor of the SweepLine. *)

Swept ==
    /\ stage = "sweep" /\ stage' = "links"
    /\ UNCHANGED <<poolVars, vertVars, segVars, sweepVars>>

Link(v, s, t) ==
    /\ stage = "links" /\ v \in verts /\ s \in end[v] /\ t \in start[v] /\ s # t
    /\ next' = [next EXCEPT ![s] = t] /\ prev' = [prev EXCEPT ![t] = s]
    /\ UNCHANGED <<stage, poolVars, vertVars, a, b, isvalid, existlk, sweepVars>>

Invalidate(s) ==
    /\ stage = "links" /\ s \in segments
    /\ isvalid' = [isvalid EXCEPT ![s] = FALSE]
    /\ UNCHANGED <<stage, poolVars, vertVars, a, b, next, prev, existlk, sweepVars>>

Destroy ==
    /\ stage = "links" /\ stage' = "clearing"
    /\ UNCHANGED <<poolVars, vertVars, segVars, sweepVars>>

\* First the segments, each of which strikes itself off the lists of its vertices.
ClearSegment(s) ==
    /\ stage = "clearing" /\ s \in segments
    /\ sfree' = More(sfree, s)
    /\ start' = [start EXCEPT ![a[s]] = @ \ {s}] /\ end' = [end EXCEPT ![b[s]] = @ \ {s}]
    /\ a' = [a EXCEPT ![s] = NULL] /\ b' = [b EXCEPT ![s] = NULL]
    /\ ResetLinks({s})
    /\ segments' = segments \ {s}
    /\ UNCHANGED <<stage, vfree, vmade, smade, pt, toA, toB, verts, ip, cut, lost>>

ClearVert(v) ==
    /\ stage = "clearing" /\ segments = {} /\ v \in verts
    /\ ReleaseVert(v)
    /\ verts' = verts \ {v}
    /\ UNCHANGED <<stage, sfree, vmade, smade, pt, segVars, segments, toA, toB, ip, cut, lost>>

Destroyed ==
    /\ stage = "clearing" /\ segments = {} /\ verts = {} /\ stage' = "idle"
    /\ UNCHANGED <<poolVars, vertVars, segVars, sweepVars>>

Next ==
    \/ Initialize \/ Begin
    \/ \E v, w \in Vert, s \in Segment, p, q \in Point : PutLine(v, w, s, p, q)
    \/ \E s, t \in segments : \E S \in {{}, {s}, {s, t}} : ProcessOverlap(s, t, S)
    \/ RunSweep
    \/ \E s \in segments : DeduplicateA(s) \/ DeduplicateB(s)
    \/ Deduplicated
    \/ \E s, t \in segments, v \in Vert, p \in Point : Intersect(s, t, v, p)
    \/ \E s, t \in segments : IntersectAtEnd(s, t)
    \/ DropCrossing \/ InsertVerts
    \/ \E s \in segments : Keep(s)
    \/ \E s \in segments, t \in Segment : Cut(s, t)
    \/ CutsDone \/ Swept
    \/ \E v \in verts : \E s \in end[v], t \in start[v] : Link(v, s, t)
    \/ \E s \in segments : Invalidate(s)
    \/ Destroy
    \/ \E s \in segments : ClearSegment(s)
    \/ \E v \in verts : ClearVert(v)
    \/ Destroyed

Spec == Init /\ [][Next]_vars

-----------------------------------------------------------------------------
(* Properties. *)

\* A vertex in use: the SweepLine has it, it is a crossing under way, or it belongs to a
\* segment that has it for itself.
Used(v) ==
    \/ v \in verts \/ v = ip
    \/ \E s \in toA : a[s] = v
    \/ \E s \in toB : b[s] = v

\* Every object that was made is either in its pool, once, or in use, and never both.
\* What was dropped to the left of the sweep line (sweepline.cpp:479, 633) is neither for
\* ever; between two jobs everything else is back in the pool.
EachInOnePlace ==
    /\ \A v \in Vert : vfree[v] = IF v \in vmade /\ ~Used(v) /\ v \notin lost THEN 1 ELSE 0
    /\ \A s \in Segment : sfree[s] = IF s \in smade \ segments THEN 1 ELSE 0
    /\ stage = "idle" => verts = {} /\ segments = {} /\ ip = NULL

\* The lists of a vertex hold exactly the segments that start and end there, no segment of
\* an earlier job.  The outlines are linked from these lists.
ListsAgree ==
    \A v \in Vert, s \in Segment : /\ s \in start[v] <=> a[s] = v
                                   /\ s \in end[v] <=> b[s] = v

\* A segment that is not in use is as a new one: the next init does not set its links and
\* its flag, and says of a vertical segment that it is vertical, of no other that it is not.
FreshAgain ==
    \A s \in Segment \ segments :
        /\ a[s] = NULL /\ b[s] = NULL /\ next[s] = NULL /\ prev[s] = NULL
        /\ isvalid[s] = TRUE /\ existlk[s] = TRUE

\* The sweep has one vertex to a point, and every segment runs between such vertices (which
\* is what SweepLine takes a vertex to be).
OneVertexPerPoint ==
    /\ \A u, v \in verts : pt[u] = pt[v] => u = v
    /\ stage \in {"sweep", "crossing", "cutting", "links"} =>
           \A s \in segments : a[s] \in verts /\ b[s] \in verts

-----------------------------------------------------------------------------
(* The inductive invariant of the proofs. *)

Stages == {"start", "idle", "lines", "vertices", "sweep", "crossing", "cutting", "links", "clearing"}

TypeOK ==
    /\ stage \in Stages
    /\ vfree \in [Vert -> Nat] /\ sfree \in [Segment -> Nat]
    /\ vmade \subseteq Vert /\ smade \subseteq Segment
    /\ pt \in [Vert -> Point]
    /\ start \in [Vert -> SUBSET Segment] /\ end \in [Vert -> SUBSET Segment]
    /\ a \in [Segment -> Vert \cup {NULL}] /\ b \in [Segment -> Vert \cup {NULL}]
    /\ next \in [Segment -> Segment \cup {NULL}] /\ prev \in [Segment -> Segment \cup {NULL}]
    /\ isvalid \in [Segment -> BOOLEAN] /\ existlk \in [Segment -> BOOLEAN]
    /\ segments \subseteq smade /\ verts \subseteq vmade
    /\ toA \subseteq segments /\ toB \subseteq segments
    /\ ip \in Vert \cup {NULL} /\ cut \subseteq segments /\ lost \subseteq vmade

\* What a stage has finished.
ByStage ==
    /\ stage = "start" => vmade = {} /\ smade = {}
    /\ stage \in {"start", "idle"} => segments = {}
    /\ stage \in {"start", "idle", "lines"} => verts = {} /\ toA = segments /\ toB = segments
    /\ stage \notin {"start", "idle", "lines", "vertices"} => toA = {} /\ toB = {}
    /\ ip # NULL <=> stage \in {"crossing", "cutting"}
    /\ stage # "cutting" /\ stage # "crossing" => cut = {}
    /\ stage = "cutting" => ip \in verts

\* The two vertices of a segment in use.
Ends ==
    \A s \in segments : /\ a[s] \in vmade /\ (s \in toA \/ a[s] \in verts)
                        /\ b[s] \in vmade /\ (s \in toB \/ b[s] \in verts)

\* A vertex that is yet to be deduplicated has one segment only.
Owned ==
    /\ \A s \in toA : a[s] \notin verts /\ \A t \in Segment : b[t] # a[s] /\ (t # s => a[t] # a[s])
    /\ \A s \in toB : b[s] \notin verts /\ \A t \in Segment : a[t] # b[s] /\ (t # s => b[t] # b[s])

\* So has a new crossing none, and nobody knows what was dropped.
Unlisted(v) == \A s \in Segment : a[s] # v /\ b[s] # v
Apart ==
    /\ ip # NULL => ip \in vmade /\ (ip \in verts \/ Unlisted(ip))
    /\ \A v \in lost : v \notin verts /\ v # ip /\ Unlisted(v)

IInv == TypeOK /\ ByStage /\ Ends /\ Owned /\ Apart
        /\ EachInOnePlace /\ ListsAgree /\ FreshAgain /\ OneVertexPerPoint
=============================================================================
