---------------------------- MODULE ObjectsProofs ----------------------------
(***************************************************************************)
(* No Vert and no Segment is in two places, for any number of them, however *)
(* segments overlap and cross, in job after job.                           *)
(*                                                                         *)
(* IInv is inductive.  There is a lemma for each action that moves objects *)
(* or changes what they say of one another, with a step for each conjunct. *)
(***************************************************************************)
EXTENDS Objects, TLAPS

\* Before anything is made, nothing is anywhere.
LEMMA InitInv == Init => IInv
  <1> SUFFICES ASSUME Init PROVE IInv
    OBVIOUS
  <1>1. TypeOK
    BY DEF Init, TypeOK, Stages
  <1>2. ByStage /\ Ends /\ Owned /\ Apart
    BY PoolAssumption DEF Init, ByStage, Ends, Owned, Apart
  <1>3. EachInOnePlace
    BY PoolAssumption DEF Init, EachInOnePlace, Used
  <1>4. ListsAgree
    BY PoolAssumption DEF Init, ListsAgree
  <1>5. FreshAgain /\ OneVertexPerPoint
    BY DEF Init, FreshAgain, OneVertexPerPoint
  <1> QED
    BY <1>1, <1>2, <1>3, <1>4, <1>5 DEF IInv

\* A step to the next stage leaves all objects where they are.
LEMMA StageInv ==
    ASSUME IInv,
           \/ Begin \/ RunSweep \/ Deduplicated \/ Swept \/ Destroy \/ Destroyed
           \/ UNCHANGED vars
    PROVE IInv'
  <1>1. UNCHANGED <<poolVars, vertVars, segVars, sweepVars>>
    BY DEF Begin, RunSweep, Deduplicated, Swept, Destroy, Destroyed, vars
  <1>2. TypeOK'
    BY <1>1 DEF IInv, TypeOK, Stages, Begin, RunSweep, Deduplicated, Swept, Destroy, Destroyed,
                vars, poolVars, vertVars, segVars, sweepVars
  <1>3. ByStage'
    BY <1>1 DEF IInv, ByStage, Begin, RunSweep, Deduplicated, Swept, Destroy, Destroyed,
                vars, poolVars, vertVars, segVars, sweepVars
  <1>4. Ends' /\ Owned' /\ Apart' /\ ListsAgree' /\ FreshAgain'
    BY <1>1 DEF IInv, Ends, Owned, Apart, Unlisted, ListsAgree, FreshAgain,
                poolVars, vertVars, segVars, sweepVars
  <1>5. EachInOnePlace'
    BY <1>1 DEF IInv, TypeOK, ByStage, EachInOnePlace, Used, Begin, RunSweep, Deduplicated, Swept,
                Destroy, Destroyed, vars, poolVars, vertVars, segVars, sweepVars
  <1>6. OneVertexPerPoint'
    BY <1>1 DEF IInv, TypeOK, ByStage, Ends, OneVertexPerPoint, Begin, RunSweep, Deduplicated, Swept,
                Destroy, Destroyed, vars, poolVars, vertVars, segVars, sweepVars
  <1> QED
    BY <1>2, <1>3, <1>4, <1>5, <1>6 DEF IInv

\* The pools are filled.
LEMMA InitializeInv ==
    ASSUME IInv, Initialize
    PROVE IInv'
  <1>1. TypeOK'
    BY PoolAssumption DEF IInv, TypeOK, Stages, ByStage, Initialize, vertVars, segVars,
           sweepVars
  <1>2. ByStage'
    BY DEF IInv, ByStage, Initialize, sweepVars
  <1>3. Ends'
    BY DEF IInv, ByStage, Ends, Initialize, sweepVars
  <1>4. Owned'
    BY DEF IInv, Owned, Initialize, segVars, sweepVars
  <1>5. Apart'
    BY DEF IInv, ByStage, Apart, Unlisted, Initialize, segVars, sweepVars
  <1>6. EachInOnePlace'
    BY PoolAssumption DEF IInv, TypeOK, ByStage, EachInOnePlace, Used, Initialize, sweepVars
  <1>7. ListsAgree'
    BY DEF IInv, ListsAgree, Initialize, vertVars, segVars
  <1>8. FreshAgain'
    BY DEF IInv, FreshAgain, Initialize, segVars, sweepVars
  <1>9. OneVertexPerPoint'
    BY DEF IInv, OneVertexPerPoint, Initialize, vertVars, sweepVars
  <1> QED
    BY <1>1, <1>2, <1>3, <1>4, <1>5, <1>6, <1>7, <1>8, <1>9 DEF IInv

\* A trajectory takes its objects from the pools.
LEMMA PutLineInv ==
    ASSUME IInv, NEW v \in Vert, NEW w \in Vert, NEW s \in Segment,
           NEW p \in Point, NEW q \in Point, PutLine(v, w, s, p, q)
    PROVE IInv'
  <1>1. TypeOK'
    BY DEF IInv, TypeOK, Stages, PutLine, Available, Less, InitSlope
  <1>2. ByStage'
    BY DEF IInv, ByStage, PutLine, Available, Less
  <1>3. Ends'
    BY DEF IInv, TypeOK, Ends, PutLine, Available, Less
  <1>4. Owned'
    BY PoolAssumption DEF IInv, TypeOK, Ends, Owned, FreshAgain, EachInOnePlace, Used, PutLine,
           Available, Less
  <1>5. Apart'
    BY DEF IInv, TypeOK, Apart, Unlisted, EachInOnePlace, Used, PutLine, Available, Less
  <1>6. EachInOnePlace'
    BY PoolAssumption DEF IInv, TypeOK, ByStage, Ends, Owned, EachInOnePlace, Used, PutLine,
           Available, Less
  <1>7. ListsAgree'
    BY PoolAssumption DEF IInv, TypeOK, Ends, ListsAgree, FreshAgain, EachInOnePlace, Used,
           PutLine, Available, Less
  <1>8. FreshAgain'
    BY DEF IInv, FreshAgain, PutLine, Available, Less, InitSlope
  <1>9. OneVertexPerPoint'
    BY DEF IInv, ByStage, OneVertexPerPoint, PutLine, Available, Less
  <1> QED
    BY <1>1, <1>2, <1>3, <1>4, <1>5, <1>6, <1>7, <1>8, <1>9 DEF IInv

\* processOverlap gives back the objects of the segments that go.
LEMMA ProcessOverlapInv ==
    ASSUME IInv, NEW s \in segments, NEW t \in segments,
           NEW S \in {{}, {s}, {s, t}}, ProcessOverlap(s, t, S)
    PROVE IInv'
  <1>1. TypeOK'
    <2>1. stage' \in Stages /\ smade' = smade /\ vmade' = vmade /\ cut' = {} /\ cut = {}
      BY DEF IInv, TypeOK, ByStage, ProcessOverlap
    <2>2. segments' \subseteq smade /\ toA' \subseteq segments' /\ toB' \subseteq segments'
      BY DEF IInv, TypeOK, ProcessOverlap, Drop
    <2>3. vfree' \in [Vert -> Nat] /\ sfree' \in [Segment -> Nat]
      BY DEF IInv, TypeOK, ProcessOverlap, Drop
    <2>4. pt' \in [Vert -> Point]
      <3>1. Vertices({s, t}) \subseteq Vert
        BY DEF IInv, TypeOK, Ends, Vertices
      <3>2. PICK to \in [Vertices({s, t} \ S) -> {pt[v] : v \in Vertices({s, t})}] :
              pt' = [v \in Vert |-> IF v \in Vertices({s, t} \ S) THEN to[v] ELSE pt[v]]
        BY DEF ProcessOverlap
      <3>3. \A v \in Vertices({s, t}) : pt[v] \in Point
        BY <3>1 DEF IInv, TypeOK
      <3>4. \A v \in Vertices({s, t} \ S) : to[v] \in Point
        BY <3>2, <3>3
      <3> QED
        BY <3>2, <3>4 DEF IInv, TypeOK
    <2>5. start' \in [Vert -> SUBSET Segment] /\ end' \in [Vert -> SUBSET Segment]
      BY DEF IInv, TypeOK, ProcessOverlap, Drop
    <2> QED
      BY <2>1, <2>2, <2>3, <2>4, <2>5 DEF IInv, TypeOK, ProcessOverlap, Drop, ResetLinks
  <1>2. ByStage'
    BY DEF IInv, ByStage, ProcessOverlap, Drop, Vertices, ResetLinks
  <1>3. Ends'
    BY DEF IInv, TypeOK, Ends, ProcessOverlap, Drop, Vertices, ResetLinks
  <1>4. Owned'
    BY PoolAssumption DEF IInv, TypeOK, Ends, Owned, ProcessOverlap, Drop, Vertices, ResetLinks
  <1>5. Apart'
    BY DEF IInv, ByStage, Apart, Unlisted, ProcessOverlap, Drop, Vertices, ResetLinks
  <1>6. EachInOnePlace'
    <2>1. segments = toA /\ segments = toB /\ verts = {} /\ ip = NULL /\ S \subseteq segments
      BY DEF IInv, ByStage, ProcessOverlap
    <2>2. \A x \in Vert : Used(x) <=> \E r \in segments : a[r] = x \/ b[r] = x
      BY <2>1, PoolAssumption DEF Used
    <2>3. \A x \in Vert : Used(x)' <=> \E r \in segments \ S : a[r] = x \/ b[r] = x
      BY <2>1, PoolAssumption DEF IInv, TypeOK, Used, ProcessOverlap, Drop
    <2>4. \A x \in Vert : Used(x)' <=> Used(x) /\ x \notin Vertices(S)
      BY <2>1, <2>2, <2>3 DEF IInv, TypeOK, Owned, Vertices
    <2>5. \A x \in Vertices(S) : x \in vmade /\ x \notin lost /\ Used(x)
      BY <2>1, <2>2 DEF IInv, TypeOK, Ends, Apart, Unlisted, Vertices
    <2>6. \A x \in Vert : vfree'[x] = IF x \in Vertices(S) THEN vfree[x] + 1 ELSE vfree[x]
      BY DEF ProcessOverlap, Drop
    <2>7. \A x \in Vert : vfree'[x] = IF x \in vmade' /\ ~Used(x)' /\ x \notin lost' THEN 1 ELSE 0
      BY <2>4, <2>5, <2>6 DEF IInv, TypeOK, EachInOnePlace, ProcessOverlap
    <2>8. \A r \in Segment : sfree'[r] = IF r \in smade' \ segments' THEN 1 ELSE 0
      BY <2>1 DEF IInv, TypeOK, EachInOnePlace, ProcessOverlap, Drop
    <2> QED
      BY <2>7, <2>8 DEF EachInOnePlace, ProcessOverlap
  <1>7. ListsAgree'
    <2>1. S \subseteq segments /\ \A r \in S : a[r] \in Vert /\ b[r] \in Vert
      BY DEF IInv, TypeOK, Ends, ProcessOverlap
    <2>2. \A r \in Segment \ S, v \in Vertices(S) : a[r] # v /\ b[r] # v
      BY <2>1 DEF IInv, TypeOK, ByStage, Owned, ProcessOverlap, Vertices
    <2>3. \A v \in Vert : /\ start'[v] = IF v \in Vertices(S) THEN {} ELSE start[v]
                          /\ end'[v] = IF v \in Vertices(S) THEN {} ELSE end[v]
      BY DEF ProcessOverlap, Drop
    <2>4. \A r \in Segment : /\ a'[r] = IF r \in S THEN NULL ELSE a[r]
                             /\ b'[r] = IF r \in S THEN NULL ELSE b[r]
      BY DEF ProcessOverlap, Drop
    <2>5. \A r \in S : a[r] \in Vertices(S) /\ b[r] \in Vertices(S)
      BY DEF Vertices
    <2> QED
      BY <2>1, <2>2, <2>3, <2>4, <2>5, PoolAssumption DEF IInv, ListsAgree
  <1>8. FreshAgain'
    BY DEF IInv, FreshAgain, ProcessOverlap, Drop, Vertices, ResetLinks
  <1>9. OneVertexPerPoint'
    BY DEF IInv, ByStage, OneVertexPerPoint, ProcessOverlap, Drop, Vertices, ResetLinks
  <1> QED
    BY <1>1, <1>2, <1>3, <1>4, <1>5, <1>6, <1>7, <1>8, <1>9 DEF IInv

\* The first vertex of a segment joins the sweep's, or gives way to one of them.
LEMMA DeduplicateAInv ==
    ASSUME IInv, NEW s \in segments, DeduplicateA(s)
    PROVE IInv'
  <1>1. TypeOK'
    BY DEF IInv, TypeOK, Stages, Ends, DeduplicateA, Deduplicate, Join, Give, More
  <1>2. ByStage'
    BY DEF IInv, ByStage, DeduplicateA, Deduplicate, Join, Give, More
  <1>3. Ends'
    BY DEF IInv, TypeOK, Ends, ListsAgree, DeduplicateA, Deduplicate, Join, Give, More
  <1>4. Owned'
    BY DEF IInv, TypeOK, Ends, Owned, ListsAgree, DeduplicateA, Deduplicate, Join, Give, More
  <1>5. Apart'
    BY DEF IInv, TypeOK, Apart, Unlisted, DeduplicateA, Deduplicate, Join, Give, More
  <1>6. EachInOnePlace'
    <2>1. CASE Join(a[s])
      BY <2>1 DEF IInv, TypeOK, ByStage, Ends, Owned, Apart, EachInOnePlace, Used, DeduplicateA, Join
    <2>2. ASSUME NEW u \in verts, Give(a[s], u) PROVE EachInOnePlace'
      <3> DEFINE v == a[s]
      <3>1. v \in vmade /\ v \notin verts /\ v # u /\ v \notin lost /\ ip = NULL /\ s \in toA
        BY <2>2 DEF IInv, TypeOK, ByStage, Ends, Owned, Apart, Unlisted, DeduplicateA
      <3>2. \A t \in Segment \ {s} : a'[t] = a[t] /\ b'[t] = b[t]
        BY <2>2, <3>1, PoolAssumption DEF IInv, TypeOK, Owned, ListsAgree, Give, DeduplicateA
      <3>3. b'[s] = b[s]
        BY <2>2, <3>1, PoolAssumption DEF IInv, TypeOK, Owned, ListsAgree, Give, DeduplicateA
      <3>4. \A x \in Vert : Used(x)' <=> Used(x) /\ x # v
        <4>1. ip' = NULL /\ verts' = verts /\ toA' = toA \ {s} /\ toB' = toB
          BY <2>2, <3>1 DEF Give, DeduplicateA
        <4>2. \A x \in Vert : (\E t \in toB' : b'[t] = x) <=> \E t \in toB : b[t] = x
          BY <3>2, <3>3, <4>1 DEF IInv, TypeOK
        <4>3. \A x \in Vert : (\E t \in toA' : a'[t] = x) <=> x # v /\ \E t \in toA : a[t] = x
          BY <3>1, <3>2, <4>1 DEF IInv, TypeOK, Owned
        <4>4. ~\E t \in toB : b[t] = v
          BY <3>1 DEF IInv, TypeOK, Owned
        <4> QED
          BY <3>1, <4>1, <4>2, <4>3, <4>4, PoolAssumption DEF IInv, TypeOK, Used
      <3>5. vfree' = [vfree EXCEPT ![v] = @ + 1] /\ Used(v)
        BY <2>2, <3>1 DEF Give, More, Used
      <3>6. \A x \in Vert : vfree'[x] = IF x \in vmade' /\ ~Used(x)' /\ x \notin lost' THEN 1 ELSE 0
        BY <3>1, <3>4, <3>5 DEF IInv, TypeOK, EachInOnePlace, DeduplicateA
      <3> QED
        BY <3>6 DEF IInv, EachInOnePlace, DeduplicateA
    <2> QED
      BY <2>1, <2>2 DEF DeduplicateA, Deduplicate
  <1>7. ListsAgree'
    BY DEF IInv, TypeOK, Ends, ListsAgree, DeduplicateA, Deduplicate, Join, Give, More
  <1>8. FreshAgain'
    BY PoolAssumption DEF IInv, TypeOK, FreshAgain, ListsAgree, Ends, DeduplicateA, Deduplicate,
           Join, Give, More
  <1>9. OneVertexPerPoint'
    BY DEF IInv, OneVertexPerPoint, DeduplicateA, Deduplicate, Join, Give, More
  <1> QED
    BY <1>1, <1>2, <1>3, <1>4, <1>5, <1>6, <1>7, <1>8, <1>9 DEF IInv

\* So does the second one.
LEMMA DeduplicateBInv ==
    ASSUME IInv, NEW s \in segments, DeduplicateB(s)
    PROVE IInv'
  <1>1. TypeOK'
    BY PoolAssumption DEF IInv, TypeOK, Stages, Ends, DeduplicateB, Deduplicate, Join, Give,
           More
  <1>2. ByStage'
    BY DEF IInv, ByStage, DeduplicateB, Deduplicate, Join, Give, More
  <1>3. Ends'
    BY DEF IInv, TypeOK, Ends, ListsAgree, DeduplicateB, Deduplicate, Join, Give, More
  <1>4. Owned'
    BY DEF IInv, TypeOK, Ends, Owned, ListsAgree, DeduplicateB, Deduplicate, Join, Give, More
  <1>5. Apart'
    BY DEF IInv, TypeOK, Apart, Unlisted, DeduplicateB, Deduplicate, Join, Give, More
  <1>6. EachInOnePlace'
    <2>1. CASE Join(b[s])
      BY <2>1 DEF IInv, TypeOK, ByStage, Ends, Owned, Apart, EachInOnePlace, Used, DeduplicateB, Join
    <2>2. ASSUME NEW u \in verts, Give(b[s], u) PROVE EachInOnePlace'
      <3> DEFINE v == b[s]
      <3>1. v \in vmade /\ v \notin verts /\ v # u /\ v \notin lost /\ ip = NULL /\ s \in toB
        BY <2>2 DEF IInv, TypeOK, ByStage, Ends, Owned, Apart, Unlisted, DeduplicateB
      <3>2. \A t \in Segment \ {s} : a'[t] = a[t] /\ b'[t] = b[t]
        BY <2>2, <3>1, PoolAssumption DEF IInv, TypeOK, Owned, ListsAgree, Give, DeduplicateB
      <3>3. a'[s] = a[s]
        BY <2>2, <3>1, PoolAssumption DEF IInv, TypeOK, Owned, ListsAgree, Give, DeduplicateB
      <3>4. \A x \in Vert : Used(x)' <=> Used(x) /\ x # v
        <4>1. ip' = NULL /\ verts' = verts /\ toB' = toB \ {s} /\ toA' = toA
          BY <2>2, <3>1 DEF Give, DeduplicateB
        <4>2. \A x \in Vert : (\E t \in toA' : a'[t] = x) <=> \E t \in toA : a[t] = x
          BY <3>2, <3>3, <4>1 DEF IInv, TypeOK
        <4>3. \A x \in Vert : (\E t \in toB' : b'[t] = x) <=> x # v /\ \E t \in toB : b[t] = x
          BY <3>1, <3>2, <4>1 DEF IInv, TypeOK, Owned
        <4>4. ~\E t \in toA : a[t] = v
          BY <3>1 DEF IInv, TypeOK, Owned
        <4> QED
          BY <3>1, <4>1, <4>2, <4>3, <4>4, PoolAssumption DEF IInv, TypeOK, Used
      <3>5. vfree' = [vfree EXCEPT ![v] = @ + 1] /\ Used(v)
        BY <2>2, <3>1 DEF Give, More, Used
      <3>6. \A x \in Vert : vfree'[x] = IF x \in vmade' /\ ~Used(x)' /\ x \notin lost' THEN 1 ELSE 0
        BY <3>1, <3>4, <3>5 DEF IInv, TypeOK, EachInOnePlace, DeduplicateB
      <3> QED
        BY <3>6 DEF IInv, EachInOnePlace, DeduplicateB
    <2> QED
      BY <2>1, <2>2 DEF DeduplicateB, Deduplicate
  <1>7. ListsAgree'
    BY DEF IInv, TypeOK, Ends, ListsAgree, DeduplicateB, Deduplicate, Join, Give, More
  <1>8. FreshAgain'
    BY PoolAssumption DEF IInv, TypeOK, FreshAgain, ListsAgree, Ends, DeduplicateB, Deduplicate,
           Join, Give, More
  <1>9. OneVertexPerPoint'
    BY DEF IInv, OneVertexPerPoint, DeduplicateB, Deduplicate, Join, Give, More
  <1> QED
    BY <1>1, <1>2, <1>3, <1>4, <1>5, <1>6, <1>7, <1>8, <1>9 DEF IInv

\* A new crossing has a vertex of its own, which nobody knows.
LEMMA IntersectInv ==
    ASSUME IInv, NEW s \in segments, NEW t \in segments, NEW v \in Vert,
           NEW p \in Point, Intersect(s, t, v, p)
    PROVE IInv'
  <1>1. TypeOK'
    BY DEF IInv, TypeOK, Stages, Intersect, AcquireVert, Available, Less, segVars
  <1>2. ByStage'
    BY PoolAssumption DEF IInv, ByStage, Intersect, AcquireVert, Available, Less
  <1>3. Ends'
    BY DEF IInv, Ends, Intersect, AcquireVert, Available, Less, segVars
  <1>4. Owned'
    BY DEF IInv, Owned, Intersect, AcquireVert, Available, Less, segVars
  <1>5. Apart'
    BY DEF IInv, TypeOK, Ends, Apart, Unlisted, FreshAgain, EachInOnePlace, Used, Intersect,
           AcquireVert, Available, Less, segVars
  <1>6. EachInOnePlace'
    BY PoolAssumption DEF IInv, TypeOK, ByStage, EachInOnePlace, Used, Intersect, AcquireVert,
           Available, Less
  <1>7. ListsAgree'
    BY PoolAssumption DEF IInv, Ends, ListsAgree, FreshAgain, EachInOnePlace, Used, Intersect,
           AcquireVert, Available, Less, segVars
  <1>8. FreshAgain'
    BY DEF IInv, FreshAgain, Intersect, AcquireVert, Available, Less, segVars
  <1>9. OneVertexPerPoint'
    BY DEF IInv, TypeOK, OneVertexPerPoint, EachInOnePlace, Used, Intersect, AcquireVert,
           Available, Less, segVars
  <1> QED
    BY <1>1, <1>2, <1>3, <1>4, <1>5, <1>6, <1>7, <1>8, <1>9 DEF IInv

\* An end of a segment is one of the sweep's vertices.
LEMMA IntersectAtEndInv ==
    ASSUME IInv, NEW s \in segments, NEW t \in segments, IntersectAtEnd(s, t)
    PROVE IInv'
  <1>1. TypeOK'
    BY DEF IInv, TypeOK, Stages, IntersectAtEnd, Vertices, poolVars, vertVars, segVars
  <1>2. ByStage'
    BY PoolAssumption DEF IInv, TypeOK, ByStage, Ends, IntersectAtEnd, Vertices
  <1>3. Ends'
    BY DEF IInv, Ends, IntersectAtEnd, Vertices, poolVars, segVars
  <1>4. Owned'
    BY DEF IInv, Owned, IntersectAtEnd, Vertices, segVars
  <1>5. Apart'
    BY DEF IInv, ByStage, Ends, Apart, Unlisted, IntersectAtEnd, Vertices, poolVars, segVars
  <1>6. EachInOnePlace'
    BY PoolAssumption DEF IInv, ByStage, Ends, EachInOnePlace, Used, IntersectAtEnd, Vertices,
           poolVars
  <1>7. ListsAgree'
    BY DEF IInv, ListsAgree, IntersectAtEnd, Vertices, vertVars, segVars
  <1>8. FreshAgain'
    BY DEF IInv, FreshAgain, IntersectAtEnd, Vertices, segVars
  <1>9. OneVertexPerPoint'
    BY DEF IInv, OneVertexPerPoint, IntersectAtEnd, Vertices, vertVars, segVars
  <1> QED
    BY <1>1, <1>2, <1>3, <1>4, <1>5, <1>6, <1>7, <1>8, <1>9 DEF IInv

\* A crossing on the left is lost, unless it is one of the sweep's vertices.
LEMMA DropCrossingInv ==
    ASSUME IInv, DropCrossing
    PROVE IInv'
  <1>1. TypeOK'
    BY DEF IInv, TypeOK, Stages, ByStage, Apart, DropCrossing, poolVars, vertVars, segVars
  <1>2. ByStage'
    BY DEF IInv, ByStage, DropCrossing
  <1>3. Ends'
    BY DEF IInv, Ends, DropCrossing, poolVars, segVars
  <1>4. Owned'
    BY DEF IInv, Owned, DropCrossing, segVars
  <1>5. Apart'
    BY PoolAssumption DEF IInv, TypeOK, ByStage, Apart, Unlisted, DropCrossing, segVars
  <1>6. EachInOnePlace'
    BY PoolAssumption DEF IInv, EachInOnePlace, Used, DropCrossing, poolVars, segVars
  <1>7. ListsAgree'
    BY DEF IInv, ListsAgree, DropCrossing, vertVars, segVars
  <1>8. FreshAgain'
    BY DEF IInv, FreshAgain, DropCrossing, segVars
  <1>9. OneVertexPerPoint'
    BY DEF IInv, OneVertexPerPoint, DropCrossing, vertVars, segVars
  <1> QED
    BY <1>1, <1>2, <1>3, <1>4, <1>5, <1>6, <1>7, <1>8, <1>9 DEF IInv

\* A crossing gives way to the vertex that is there, or joins the others.
LEMMA InsertVertsInv ==
    ASSUME IInv, InsertVerts
    PROVE IInv'
  <1>1. TypeOK'
    BY DEF IInv, TypeOK, Stages, ByStage, Apart, InsertVerts, ReleaseVert, More, segVars
  <1>2. ByStage'
    BY PoolAssumption DEF IInv, TypeOK, ByStage, InsertVerts, ReleaseVert, More
  <1>3. Ends'
    BY DEF IInv, Ends, InsertVerts, ReleaseVert, More, segVars
  <1>4. Owned'
    BY DEF IInv, ByStage, Owned, InsertVerts, ReleaseVert, More
  <1>5. Apart'
    BY DEF IInv, TypeOK, Apart, Unlisted, InsertVerts, ReleaseVert, More, segVars
  <1>6. EachInOnePlace'
    <2>1. CASE \E u \in verts : pt[u] = pt[ip]
      <3>1. PICK u \in verts : /\ ip' = u
                               /\ IF u = ip THEN UNCHANGED <<vfree, start, end>> ELSE ReleaseVert(ip)
                               /\ verts' = verts
        BY <2>1 DEF InsertVerts
      <3>2. \A x \in Vert : Used(x)' <=>
                   x \in verts \/ (\E s \in toA : a[s] = x) \/ (\E s \in toB : b[s] = x)
        BY <3>1 DEF InsertVerts, Used, segVars
      <3>3. \A x \in Vert : vfree'[x] = IF x = ip /\ u # ip THEN vfree[x] + 1 ELSE vfree[x]
        BY <3>1 DEF IInv, TypeOK, ReleaseVert, More
      <3>4. u # ip => ip \notin verts
        BY <2>1, <3>1 DEF IInv, OneVertexPerPoint, InsertVerts
      <3> QED
        BY <3>1, <3>2, <3>3, <3>4 DEF IInv, TypeOK, ByStage, Apart, Unlisted, EachInOnePlace, Used,
               InsertVerts, segVars
    <2>2. CASE ~\E u \in verts : pt[u] = pt[ip]
      BY <2>2 DEF IInv, TypeOK, ByStage, EachInOnePlace, Used,
               InsertVerts, segVars
    <2> QED
      BY <2>1, <2>2
  <1>7. ListsAgree'
    <2>1. ip \in Vert /\ (ip \notin verts => Unlisted(ip))
      BY DEF IInv, TypeOK, ByStage, Apart, InsertVerts
    <2>2. CASE \E u \in verts : pt[u] = pt[ip] /\ u # ip
      BY <2>1, <2>2 DEF IInv, TypeOK, ListsAgree, Unlisted, OneVertexPerPoint, InsertVerts,
             ReleaseVert, segVars
    <2>3. CASE UNCHANGED <<start, end>>
      BY <2>3 DEF IInv, ListsAgree, InsertVerts, segVars
    <2> QED
      BY <2>2, <2>3 DEF InsertVerts
  <1>8. FreshAgain'
    BY DEF IInv, FreshAgain, InsertVerts, ReleaseVert, More, segVars
  <1>9. OneVertexPerPoint'
    BY DEF IInv, OneVertexPerPoint, InsertVerts, ReleaseVert, More, segVars
  <1> QED
    BY <1>1, <1>2, <1>3, <1>4, <1>5, <1>6, <1>7, <1>8, <1>9 DEF IInv

\* A segment that ends in the crossing stays.
LEMMA KeepInv ==
    ASSUME IInv, NEW s \in segments, Keep(s)
    PROVE IInv'
  <1>1. TypeOK'
    BY DEF IInv, TypeOK, Stages, Keep, poolVars, vertVars, segVars
  <1>2. ByStage'
    BY DEF IInv, ByStage, Keep
  <1>3. Ends'
    BY DEF IInv, Ends, Keep, poolVars, segVars
  <1>4. Owned'
    BY DEF IInv, Owned, Keep, segVars
  <1>5. Apart'
    BY DEF IInv, Apart, Unlisted, Keep, poolVars, segVars
  <1>6. EachInOnePlace'
    BY DEF IInv, EachInOnePlace, Used, Keep, poolVars, segVars
  <1>7. ListsAgree'
    BY DEF IInv, ListsAgree, Keep, vertVars, segVars
  <1>8. FreshAgain'
    BY DEF IInv, FreshAgain, Keep, segVars
  <1>9. OneVertexPerPoint'
    BY DEF IInv, OneVertexPerPoint, Keep, vertVars, segVars
  <1> QED
    BY <1>1, <1>2, <1>3, <1>4, <1>5, <1>6, <1>7, <1>8, <1>9 DEF IInv

\* A cut puts both parts on the lists of their ends.
LEMMA CutInv ==
    ASSUME IInv, NEW s \in segments, NEW t \in Segment, Cut(s, t)
    PROVE IInv'
  <1>1. TypeOK'
    <2>1. ip \in Vert /\ a[s] \in Vert /\ b[s] \in Vert /\ s \in Segment
      BY PoolAssumption DEF IInv, TypeOK, ByStage, Ends, Cut
    <2>2. /\ start' \in [Vert -> SUBSET Segment] /\ end' \in [Vert -> SUBSET Segment]
          /\ a' \in [Segment -> Vert \cup {NULL}] /\ b' \in [Segment -> Vert \cup {NULL}]
      <3>1. CASE CutEnd(s, t)
        BY <2>1, <3>1 DEF IInv, TypeOK, CutEnd
      <3>2. CASE CutStart(s, t)
        BY <2>1, <3>2 DEF IInv, TypeOK, CutStart
      <3> QED
        BY <3>1, <3>2 DEF Cut
    <2>3. sfree' \in [Segment -> Nat]
      BY DEF IInv, TypeOK, Cut, Less
    <2> QED
      BY <2>2, <2>3 DEF IInv, TypeOK, Cut
  <1>2. ByStage'
    BY DEF IInv, ByStage, Cut, CutEnd, CutStart, Available, Less
  <1>3. Ends'
    <2>1. t \notin segments /\ t \in smade' /\ ip \in verts /\ ip \in vmade /\ toA = {} /\ toB = {}
      BY DEF IInv, TypeOK, ByStage, EachInOnePlace, Cut, Available
    <2>2. a[s] \in verts /\ b[s] \in verts /\ a[s] \in vmade /\ b[s] \in vmade /\ t # s
      BY <2>1 DEF IInv, Ends
    <2>3. \A r \in segments : a'[r] \in {a[r], ip} /\ b'[r] \in {b[r], ip}
      BY <2>1, <2>2 DEF IInv, TypeOK, Cut, CutEnd, CutStart
    <2>4. a'[t] \in {a[s], ip} /\ b'[t] \in {b[s], ip}
      BY <2>1, <2>2 DEF IInv, TypeOK, Cut, CutEnd, CutStart
    <2> QED
      BY <2>1, <2>2, <2>3, <2>4 DEF IInv, Ends, Cut
  <1>4. Owned'
    BY DEF IInv, ByStage, Owned, Cut, CutEnd, CutStart, Available, Less
  <1>5. Apart'
    BY DEF IInv, TypeOK, ByStage, Apart, Unlisted, Cut, CutEnd, CutStart, Available, Less
  <1>6. EachInOnePlace'
    <2>1. t \notin segments /\ toA = {} /\ toB = {}
      BY DEF IInv, TypeOK, ByStage, EachInOnePlace, Cut, Available
    <2>2. sfree[t] \in {0, 1} /\ sfree' = [sfree EXCEPT ![t] = IF @ > 0 THEN @ - 1 ELSE 0]
      BY <2>1 DEF IInv, TypeOK, EachInOnePlace, Cut, Less
    <2>3. \A r \in Segment : sfree'[r] = IF r = t THEN 0 ELSE sfree[r]
      BY <2>2 DEF IInv, TypeOK
    <2>4. \A x \in Vert : Used(x)' <=> Used(x)
      BY <2>1 DEF Cut, Used
    <2> QED
      BY <2>1, <2>4, <2>3 DEF IInv, TypeOK, ByStage, EachInOnePlace, Cut
  <1>7. ListsAgree'
    BY PoolAssumption DEF IInv, TypeOK, Ends, ListsAgree, FreshAgain, EachInOnePlace, Cut,
           CutEnd, CutStart, Available, Less
  <1>8. FreshAgain'
    BY DEF IInv, TypeOK, FreshAgain, Cut, CutEnd, CutStart, Available, Less
  <1>9. OneVertexPerPoint'
    BY PoolAssumption DEF IInv, TypeOK, ByStage, OneVertexPerPoint, Cut, CutEnd, CutStart,
           Available, Less
  <1> QED
    BY <1>1, <1>2, <1>3, <1>4, <1>5, <1>6, <1>7, <1>8, <1>9 DEF IInv

\* Then the crossing is done with.
LEMMA CutsDoneInv ==
    ASSUME IInv, CutsDone
    PROVE IInv'
  <1>1. TypeOK'
    BY DEF IInv, TypeOK, Stages, CutsDone, poolVars, vertVars, segVars
  <1>2. ByStage'
    BY DEF IInv, ByStage, CutsDone
  <1>3. Ends'
    BY DEF IInv, Ends, CutsDone, poolVars, segVars
  <1>4. Owned'
    BY DEF IInv, Owned, CutsDone, segVars
  <1>5. Apart'
    BY PoolAssumption DEF IInv, TypeOK, Apart, Unlisted, CutsDone, segVars
  <1>6. EachInOnePlace'
    BY PoolAssumption DEF IInv, ByStage, EachInOnePlace, Used, CutsDone, poolVars
  <1>7. ListsAgree'
    BY DEF IInv, ListsAgree, CutsDone, vertVars, segVars
  <1>8. FreshAgain'
    BY DEF IInv, FreshAgain, CutsDone, segVars
  <1>9. OneVertexPerPoint'
    BY DEF IInv, OneVertexPerPoint, CutsDone, vertVars, segVars
  <1> QED
    BY <1>1, <1>2, <1>3, <1>4, <1>5, <1>6, <1>7, <1>8, <1>9 DEF IInv

\* Links and flags of segments in use say nothing of the objects.
LEMMA LinkInv ==
    ASSUME IInv, NEW v \in verts, NEW s \in end[v], NEW t \in start[v], Link(v, s, t)
    PROVE IInv'
  <1>1. TypeOK'
    BY DEF IInv, TypeOK, Stages, Link, poolVars, vertVars, sweepVars
  <1>2. ByStage'
    BY DEF IInv, ByStage, Link, sweepVars
  <1>3. Ends'
    BY DEF IInv, Ends, Link, poolVars, sweepVars
  <1>4. Owned'
    BY DEF IInv, Owned, Link, sweepVars
  <1>5. Apart'
    BY DEF IInv, Apart, Unlisted, Link, poolVars, sweepVars
  <1>6. EachInOnePlace'
    BY DEF IInv, EachInOnePlace, Used, Link, poolVars, sweepVars
  <1>7. ListsAgree'
    BY DEF IInv, ListsAgree, Link, vertVars
  <1>8. FreshAgain'
    BY PoolAssumption DEF IInv, TypeOK, FreshAgain, ListsAgree, Link, sweepVars
  <1>9. OneVertexPerPoint'
    BY DEF IInv, OneVertexPerPoint, Link, vertVars, sweepVars
  <1> QED
    BY <1>1, <1>2, <1>3, <1>4, <1>5, <1>6, <1>7, <1>8, <1>9 DEF IInv

\* A segment that is marked as no longer valid keeps its place and its ends.
LEMMA InvalidateInv ==
    ASSUME IInv, NEW s \in segments, Invalidate(s)
    PROVE IInv'
  <1>1. TypeOK'
    BY DEF IInv, TypeOK, Stages, Invalidate, poolVars, vertVars, sweepVars
  <1>2. ByStage'
    BY DEF IInv, ByStage, Invalidate, sweepVars
  <1>3. Ends'
    BY DEF IInv, Ends, Invalidate, poolVars, sweepVars
  <1>4. Owned'
    BY DEF IInv, Owned, Invalidate, sweepVars
  <1>5. Apart'
    BY DEF IInv, Apart, Unlisted, Invalidate, poolVars, sweepVars
  <1>6. EachInOnePlace'
    BY DEF IInv, EachInOnePlace, Used, Invalidate, poolVars, sweepVars
  <1>7. ListsAgree'
    BY DEF IInv, ListsAgree, Invalidate, vertVars
  <1>8. FreshAgain'
    BY DEF IInv, FreshAgain, Invalidate, sweepVars
  <1>9. OneVertexPerPoint'
    BY DEF IInv, OneVertexPerPoint, Invalidate, vertVars, sweepVars
  <1> QED
    BY <1>1, <1>2, <1>3, <1>4, <1>5, <1>6, <1>7, <1>8, <1>9 DEF IInv

\* The destructor: each segment leaves the lists of its vertices,
LEMMA ClearSegmentInv ==
    ASSUME IInv, NEW s \in segments, ClearSegment(s)
    PROVE IInv'
  <1>1. TypeOK'
    BY DEF IInv, TypeOK, Stages, Ends, ByStage, ClearSegment, More, ResetLinks
  <1>2. ByStage'
    BY DEF IInv, ByStage, ClearSegment, More, ResetLinks
  <1>3. Ends'
    BY DEF IInv, Ends, ClearSegment, More, ResetLinks
  <1>4. Owned'
    BY DEF IInv, ByStage, Owned, ClearSegment, More, ResetLinks
  <1>5. Apart'
    BY DEF IInv, ByStage, Apart, Unlisted, ClearSegment, More, ResetLinks
  <1>6. EachInOnePlace'
    BY DEF IInv, TypeOK, ByStage, EachInOnePlace, Used, ClearSegment, More, ResetLinks
  <1>7. ListsAgree'
    BY PoolAssumption DEF IInv, TypeOK, ListsAgree, ClearSegment, More, ResetLinks
  <1>8. FreshAgain'
    BY DEF IInv, TypeOK, FreshAgain, ClearSegment, More, ResetLinks
  <1>9. OneVertexPerPoint'
    BY DEF IInv, OneVertexPerPoint, ClearSegment, More, ResetLinks
  <1> QED
    BY <1>1, <1>2, <1>3, <1>4, <1>5, <1>6, <1>7, <1>8, <1>9 DEF IInv

\* and then nobody knows the vertices.
LEMMA ClearVertInv ==
    ASSUME IInv, NEW v \in verts, ClearVert(v)
    PROVE IInv'
  <1>1. TypeOK'
    BY DEF IInv, TypeOK, Stages, ClearVert, ReleaseVert, More, segVars
  <1>2. ByStage'
    BY DEF IInv, ByStage, ClearVert, ReleaseVert, More
  <1>3. Ends'
    BY DEF IInv, Ends, ClearVert, ReleaseVert, More
  <1>4. Owned'
    BY DEF IInv, Owned, ClearVert, ReleaseVert, More, segVars
  <1>5. Apart'
    BY DEF IInv, Apart, Unlisted, FreshAgain, ClearVert, ReleaseVert, More, segVars
  <1>6. EachInOnePlace'
    BY PoolAssumption DEF IInv, TypeOK, ByStage, Apart, EachInOnePlace, Used, ClearVert,
           ReleaseVert, More
  <1>7. ListsAgree'
    BY PoolAssumption DEF IInv, ListsAgree, FreshAgain, ClearVert, ReleaseVert, More, segVars
  <1>8. FreshAgain'
    BY DEF IInv, FreshAgain, ClearVert, ReleaseVert, More, segVars
  <1>9. OneVertexPerPoint'
    BY DEF IInv, OneVertexPerPoint, ClearVert, ReleaseVert, More
  <1> QED
    BY <1>1, <1>2, <1>3, <1>4, <1>5, <1>6, <1>7, <1>8, <1>9 DEF IInv

-----------------------------------------------------------------------------

LEMMA NextInv == IInv /\ [Next]_vars => IInv'
  <1> SUFFICES ASSUME IInv, [Next]_vars PROVE IInv'
    OBVIOUS
  <1>1. CASE \/ Begin \/ RunSweep \/ Deduplicated \/ Swept \/ Destroy \/ Destroyed
             \/ UNCHANGED vars
    BY <1>1, StageInv
  <1>2. CASE \/ Initialize
             \/ \E v, w \in Vert, s \in Segment, p, q \in Point : PutLine(v, w, s, p, q)
             \/ \E s, t \in segments : \E S \in {{}, {s}, {s, t}} : ProcessOverlap(s, t, S)
    BY <1>2, InitializeInv, PutLineInv, ProcessOverlapInv
  <1>3. CASE \E s \in segments : DeduplicateA(s) \/ DeduplicateB(s)
    BY <1>3, DeduplicateAInv, DeduplicateBInv
  <1>4. CASE \/ \E s, t \in segments, v \in Vert, p \in Point : Intersect(s, t, v, p)
             \/ \E s, t \in segments : IntersectAtEnd(s, t)
             \/ DropCrossing \/ InsertVerts
    BY <1>4, IntersectInv, IntersectAtEndInv, DropCrossingInv, InsertVertsInv
  <1>5. CASE \/ \E s \in segments : Keep(s)
             \/ \E s \in segments, t \in Segment : Cut(s, t)
             \/ CutsDone
    BY <1>5, KeepInv, CutInv, CutsDoneInv
  <1>6. CASE \/ \E v \in verts : \E s \in end[v], t \in start[v] : Link(v, s, t)
             \/ \E s \in segments : Invalidate(s)
    BY <1>6, LinkInv, InvalidateInv
  <1>7. CASE \/ \E s \in segments : ClearSegment(s)
             \/ \E v \in verts : ClearVert(v)
    BY <1>7, ClearSegmentInv, ClearVertInv
  <1> QED
    BY <1>1, <1>2, <1>3, <1>4, <1>5, <1>6, <1>7 DEF Next

\* From Nfp::run to the destructor of the SweepLine, job after job, what pools, lists and segments say
\* of the objects fits together.
THEOREM ObjectsInvariant == Spec => []IInv
  <1> QED
    BY InitInv, NextInv, PTL DEF Spec

\* Every Vert and Segment is in the object pool of its thread, once, or in use, or a crossing that was
\* dropped to the left of the sweep line, and never two of these; after a job everything is back.
THEOREM ObjectsInOnePlace == Spec => []EachInOnePlace
  <1>1. IInv => EachInOnePlace
    BY DEF IInv
  <1> QED
    BY <1>1, ObjectsInvariant, PTL

\* The lists of a Vert hold exactly the segments that start and end there: the outlines are linked
\* from them.
THEOREM ObjectsListsAgree == Spec => []ListsAgree
  <1>1. IInv => ListsAgree
    BY DEF IInv
  <1> QED
    BY <1>1, ObjectsInvariant, PTL

\* A Segment that comes out of the pool has no ends, no links and no flag of an earlier job, which
\* Segment::init would not clear.
THEOREM ObjectsFreshAgain == Spec => []FreshAgain
  <1>1. IInv => FreshAgain
    BY DEF IInv
  <1> QED
    BY <1>1, ObjectsInvariant, PTL

\* vertexDeduplicate and insertVerts keep one Vert to a point, and every segment of the sweep runs
\* between two of these.
THEOREM ObjectsOneVertex == Spec => []OneVertexPerPoint
  <1>1. IInv => OneVertexPerPoint
    BY DEF IInv
  <1> QED
    BY <1>1, ObjectsInvariant, PTL
=============================================================================
