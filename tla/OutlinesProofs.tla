--------------------------- MODULE OutlinesProofs ----------------------------
(***************************************************************************)
(* Proofs about Outlines, for any segments that the sweep may hand over:   *)
(* links agree, what is left when the chains are dropped are rings, and    *)
(* every walk along a ring comes back to where it started.                 *)
(***************************************************************************)
EXTENDS Outlines, FiniteSetTheorems, WellFoundedInduction, TLAPS

Shape ==
    /\ vecSeg \in Seq([a : Point, b : Point])
    /\ pc \in {"link", "drop", "walk", "done"}
    /\ path \in Seq(Point) /\ result \in Seq(Seq(Point))
    /\ TypeOK

\* No segment is linked with itself.
NoLoops == \A s \in Segs : next[s] # s

\* Before a vertex has had its turn nothing is linked there.
Linking ==
    pc = "link" =>
        /\ i = 1 /\ current = NULL /\ Valid = Segs
        /\ \A s \in Segs : /\ vecSeg[s].b \in verts => next[s] = NULL
                           /\ vecSeg[s].a \in verts => prev[s] = NULL

Untouched == pc \in {"link", "drop"} => path = <<>>

\* A segment that nothing leads to has been dropped, is the next one to be dropped, or has
\* not been looked at.
Dropping ==
    pc = "drop" =>
        \A s \in Valid : /\ prev[s] # NULL /\ prev[s] \notin Valid => s = current
                         /\ s < i /\ prev[s] = NULL => s = current

\* A set of segments that are linked to rings.
Rings(S) == \A s \in S : next[s] \in S /\ prev[s] \in S

\* What is left and what has been walked since the start are rings; the walk is on the one
\* that it has opened.
Walking ==
    pc = "walk" =>
        /\ outside \in Segs /\ current \in Valid
        /\ turns = Cardinality(Valid)
        /\ \A s \in Valid : next[s] \in Valid \cup {outside}
        /\ \A s \in Valid : prev[s] \in Valid \/ s = current
        /\ IF path = <<>> THEN current = outside /\ Rings(Valid)
           ELSE outside \notin Valid /\ prev[current] \notin Valid /\ path[1] = vecSeg[outside].a

\* Where sides are drawn: in the outlines that are kept, and in the one that is walked.
Places ==
    Sides \cup (IF pc = "walk" THEN {<<Len(result) + 1, m>> : m \in 1..Len(path)} ELSE {})
Passed(w) ==
    IF w[1] <= Len(result) THEN Side(w)
    ELSE Seg(path[w[2]], IF w[2] < Len(path) THEN path[w[2] + 1] ELSE vecSeg[current].a)

\* f gives each side that is drawn a segment of its own, which is no longer valid.
Attributes(f) ==
    /\ \A w \in Places : f[w] \notin Valid /\ vecSeg[f[w]] = Passed(w)
    /\ \A u, w \in Places : f[u] = f[w] => u = w
Attributed == \E f \in [Places -> Segs] : Attributes(f)

Closed == \A k \in DOMAIN result : result[k][1] = result[k][Len(result[k])]

\* What links and walks keep, whatever outlines there are already: Nfp goes on with those
\* of an earlier run.
LinksInv ==
    /\ Shape /\ LinksAgree /\ NoLoops /\ Linking /\ Untouched
    /\ Dropping /\ Walking

\* And the outlines, when there are none at first.
OutlinesInv ==
    /\ pc \in {"link", "drop"} => result = <<>>
    /\ Attributed /\ Closed

IInv == LinksInv /\ OutlinesInv

-----------------------------------------------------------------------------
(* Sets of segments. *)

\* A set of naturals that is not empty has a least member.
LEMMA LeastNat ==
    ASSUME NEW S \in SUBSET Nat, S # {}
    PROVE  \E n \in S : \A m \in S : n <= m
  <1>1. PICK n \in S : \A m \in S : ~(<<m, n>> \in OpToRel(<, Nat))
    BY NatLessThanWellFounded, WFMin, Zenon
  <1>2. \A m \in S : m \in Nat /\ ~(m < n)
    BY <1>1 DEF OpToRel
  <1>3. \A m \in S : n <= m
    BY <1>2
  <1> QED
    BY <1>3

\* Segments are numbered from 1, and no set of them is larger than all.
LEMMA SegsAreFinite ==
    ASSUME Shape
    PROVE  /\ Len(vecSeg) \in Nat /\ Segs = 1..Len(vecSeg) /\ Segs \subseteq Nat
           /\ \A S \in SUBSET Segs : IsFiniteSet(S) /\ Cardinality(S) \in 0..Len(vecSeg)
  <1>1. Len(vecSeg) \in Nat /\ Segs = 1..Len(vecSeg)
    BY DEF Shape, Segs
  <1>2. IsFiniteSet(1..Len(vecSeg)) /\ Cardinality(1..Len(vecSeg)) = Len(vecSeg)
    BY <1>1, FS_Interval
  <1>3. ASSUME NEW S \in SUBSET Segs
        PROVE  IsFiniteSet(S) /\ Cardinality(S) \in 0..Len(vecSeg)
    <2>1. IsFiniteSet(S) /\ Cardinality(S) <= Len(vecSeg)
      BY <1>1, <1>2, FS_Subset
    <2>2. Cardinality(S) \in Nat
      BY <2>1, FS_CardinalityType
    <2> QED
      BY <1>1, <2>1, <2>2
  <1> QED
    BY <1>1, <1>3

\* A segment is made of two points.
LEMMA SegmentsArePairs ==
    ASSUME Shape, NEW s \in Segs
    PROVE  /\ vecSeg[s].a \in Point /\ vecSeg[s].b \in Point
           /\ vecSeg[s] = Seg(vecSeg[s].a, vecSeg[s].b)
  <1> DEFINE T == [a : Point, b : Point]
  <1>1. vecSeg \in Seq(T) /\ s \in 1..Len(vecSeg)
    BY SegsAreFinite DEF Shape
  <1>2. vecSeg[s] \in T
    <2> HIDE DEF T
    <2> QED
      BY <1>1
  <1> QED
    BY <1>2 DEF Seg

\* The segment with the least index.
LEMMA MinIsIn ==
    ASSUME Shape, NEW S \in SUBSET Segs, S # {}
    PROVE  Min(S) \in S
  <1>1. S \in SUBSET Nat
    BY SegsAreFinite
  <1>2. \E n \in S : \A m \in S : n <= m
    BY <1>1, LeastNat
  <1> QED
    BY <1>2 DEF Min

\* If each segment of a set is led to from the set, each one leads into it: there are no
\* more of them that lead on than are led to.
LEMMA LedToLeadsOn ==
    ASSUME Shape, LinksAgree, NEW S \in SUBSET Segs, \A s \in S : prev[s] \in S
    PROVE  Rings(S)
  <1> DEFINE f == [s \in S |-> prev[s]]
  <1>1. f \in Injection(S, S)
    BY DEF LinksAgree, Injection, IsInjective
  <1>2. IsFiniteSet(S)
    BY SegsAreFinite
  <1>3. f \in Surjection(S, S)
    BY <1>1, <1>2, FS_Injection, Zenon
  <1>4. \A s \in S : \E t \in S : prev[t] = s
    BY <1>3 DEF Surjection
  <1> QED
    BY <1>4 DEF LinksAgree, Rings

-----------------------------------------------------------------------------
(* Linking. *)

\* What judgeLinkSegmentCurrentFromIntersection pairs at a vertex: each incoming segment
\* with at most one outgoing one, and the other way round.
LEMMA PairsAreOneToOne ==
    ASSUME Shape, NEW v, NEW list \in Sorted(v)
    PROVE  /\ \A s, t : <<s, t>> \in Pairs(list) =>
                 s \in Segs /\ t \in Segs /\ vecSeg[s].b = v /\ vecSeg[t].a = v /\ s # t
           /\ \A s, t, u : <<s, t>> \in Pairs(list) /\ <<s, u>> \in Pairs(list) => t = u
           /\ \A r, s, t : <<r, t>> \in Pairs(list) /\ <<s, t>> \in Pairs(list) => r = s
  <1> DEFINE n == Cardinality(Rays(v))
             After(m) == list[(m % Len(list)) + 1]
             Into(s) == Ray(s, TRUE)
             Out(s) == Ray(s, FALSE)
  <1>1. IsFiniteSet(Rays(v))
    <2> DEFINE out == [s \in Starting(v) |-> Ray(s, FALSE)]
               into == [s \in Ending(v) |-> Ray(s, TRUE)]
    <2>1. IsFiniteSet(Starting(v)) /\ IsFiniteSet(Ending(v))
      BY SegsAreFinite DEF Starting, Ending
    <2>2. /\ out \in Surjection(Starting(v), {Ray(s, FALSE) : s \in Starting(v)})
          /\ into \in Surjection(Ending(v), {Ray(s, TRUE) : s \in Ending(v)})
      BY DEF Surjection
    <2>3. IsFiniteSet({Ray(s, FALSE) : s \in Starting(v)})
      BY <2>1, <2>2, FS_Surjection, Zenon
    <2>4. IsFiniteSet({Ray(s, TRUE) : s \in Ending(v)})
      BY <2>1, <2>2, FS_Surjection, Zenon
    <2> QED
      BY <2>3, <2>4, FS_Union DEF Rays
  <1>2. n \in Nat
    BY <1>1, FS_CardinalityType
  <1>3. /\ list \in [1..n -> Rays(v)] /\ Len(list) = n
        /\ \A j, k \in 1..n : list[j] = list[k] => j = k
    BY <1>2 DEF Sorted, SetToSeqs
  <1>4. \A m \in 1..n : (m % n) + 1 \in 1..n
    BY <1>2
  <1>5. \A j, k \in 1..n : (j % n) + 1 = (k % n) + 1 => j = k
    BY <1>2
  <1>6. ASSUME NEW p \in Pairs(list)
        PROVE  \E m \in 1..n : /\ p = <<list[m].seg, After(m).seg>>
                               /\ list[m].in /\ ~After(m).in /\ list[m].seg # After(m).seg
    BY <1>3 DEF Pairs
  <1>7. \A s : Into(s).seg = s /\ Out(s).seg = s
               /\ Into(s).in /\ ~Out(s).in
    BY DEF Ray
  <1>8. \A m \in 1..n : \/ \E s \in Starting(v) : list[m] = Out(s)
                        \/ \E s \in Ending(v) : list[m] = Into(s)
    BY <1>3 DEF Rays
  <1> HIDE DEF Into, Out, n
  <1>9. ASSUME NEW s, NEW t, <<s, t>> \in Pairs(list)
        PROVE  /\ s \in Ending(v) /\ t \in Starting(v) /\ s # t
               /\ \E j, k \in 1..n : /\ k = (j % n) + 1
                                     /\ list[j] = Into(s) /\ list[k] = Out(t)
    <2>1. PICK m \in 1..n : /\ <<s, t>> = <<list[m].seg, After(m).seg>>
                            /\ list[m].in /\ ~After(m).in /\ list[m].seg # After(m).seg
      BY <1>6, <1>9
    <2>2. PICK k \in 1..n : k = (m % n) + 1 /\ After(m) = list[k]
      BY <1>3, <1>4 DEF n
    <2>3. s = list[m].seg /\ t = list[k].seg
      BY <2>1, <2>2
    <2>4. s \in Ending(v) /\ list[m] = Into(s)
      <3>1. ~\E r \in Starting(v) : list[m] = Out(r)
        BY <1>7, <2>1, Zenon
      <3>2. PICK r \in Ending(v) : list[m] = Into(r)
        BY <1>8, <3>1, Zenon
      <3> QED
        BY <1>7, <2>3, <3>2
    <2>5. t \in Starting(v) /\ list[k] = Out(t)
      <3>1. ~\E r \in Ending(v) : list[k] = Into(r)
        BY <1>7, <2>1, <2>2, Zenon
      <3>2. PICK r \in Starting(v) : list[k] = Out(r)
        BY <1>8, <3>1, Zenon
      <3> QED
        BY <1>7, <2>3, <3>2
    <2> QED
      BY <2>1, <2>2, <2>3, <2>4, <2>5
  <1>10. ASSUME NEW s, NEW t, NEW u, <<s, t>> \in Pairs(list), <<s, u>> \in Pairs(list)
         PROVE  t = u
    <2>1. PICK j, k \in 1..n :
             k = (j % n) + 1 /\ list[j] = Into(s) /\ list[k] = Out(t)
      BY <1>9, <1>10
    <2>2. PICK x, y \in 1..n :
             y = (x % n) + 1 /\ list[x] = Into(s) /\ list[y] = Out(u)
      BY <1>9, <1>10
    <2>3. k = y
      BY <1>3, <2>1, <2>2
    <2> QED
      BY <1>7, <2>1, <2>2, <2>3
  <1>11. ASSUME NEW r, NEW s, NEW t, <<r, t>> \in Pairs(list), <<s, t>> \in Pairs(list)
         PROVE  r = s
    <2>1. PICK j, k \in 1..n :
             k = (j % n) + 1 /\ list[j] = Into(r) /\ list[k] = Out(t)
      BY <1>9, <1>11
    <2>2. PICK x, y \in 1..n :
             y = (x % n) + 1 /\ list[x] = Into(s) /\ list[y] = Out(t)
      BY <1>9, <1>11
    <2>3. k = y
      BY <1>3, <2>1, <2>2
    <2>4. j = x
      BY <1>5, <2>1, <2>2, <2>3
    <2> QED
      BY <1>7, <2>1, <2>2, <2>4
  <1> QED
    BY <1>9, <1>10, <1>11 DEF Starting, Ending

\* Nothing is linked and nothing drawn.
LEMMA LinksStart ==
    ASSUME vecSeg \in Seq([a : Point, b : Point]), verts = VerticesOf(vecSeg),
           next = [s \in Segs |-> NULL], prev = next, isvalid = [s \in Segs |-> TRUE],
           pc = "link", i = 1, current = NULL, outside = NULL, turns = 0, path = <<>>,
           result \in Seq(Seq(Point))
    PROVE  LinksInv
  <1>1. Segs = 1..Len(vecSeg) /\ Len(vecSeg) \in Nat
    BY DEF Segs
  <1>2. Shape
    BY <1>1 DEF Shape, TypeOK
  <1>3. NULL \notin Segs
    BY <1>1, NullAssumption
  <1>4. LinksAgree /\ NoLoops
    BY <1>3 DEF LinksAgree, NoLoops
  <1>5. Linking /\ Untouched /\ Dropping /\ Walking
    BY DEF Linking, Untouched, Dropping, Walking, Valid
  <1> QED
    BY <1>2, <1>4, <1>5 DEF LinksInv

LEMMA InitInv == Init => IInv
  <1> SUFFICES ASSUME Init PROVE IInv
    OBVIOUS
  <1>1. LinksInv
    <2>1. vecSeg \in Seq([a : Point, b : Point])
      BY InputsAssumption DEF Init
    <2>2. result \in Seq(Seq(Point))
      BY DEF Init
    <2> QED
      BY <2>1, <2>2, LinksStart DEF Init
  <1>2. Places = {} /\ result = <<>>
    BY DEF Init, Places, Sides
  <1>3. Attributed
    <2>1. [w \in {} |-> 0] \in [Places -> Segs]
      BY <1>2
    <2> QED
      BY <1>2, <2>1 DEF Attributed, Attributes
  <1>4. Closed
    BY <1>2 DEF Closed
  <1> QED
    BY <1>1, <1>2, <1>3, <1>4 DEF IInv, OutlinesInv

\* At the vertex nothing was linked, and what is linked now is paired there.
LEMMA LinkInv ==
    ASSUME LinksInv, Link
    PROVE  LinksInv'
  <1> DEFINE v == CHOOSE v \in verts : TRUE
  <1>1. /\ v \in verts /\ verts' = verts \ {v} /\ pc = "link"
        /\ UNCHANGED <<inner, vecSeg, isvalid, pc, i, minVert, walkVars, result>>
    BY DEF Link
  <1> HIDE DEF v
  <1>2. /\ Segs' = Segs /\ Valid' = Valid
        /\ next \in [Segs -> Segs \cup {NULL}] /\ prev \in [Segs -> Segs \cup {NULL}]
    BY <1>1 DEF LinksInv, Shape, TypeOK, Segs, Valid
  <1>3. NULL \notin Segs
    BY SegsAreFinite, NullAssumption DEF LinksInv
  <1>4. \A s \in Segs : /\ vecSeg[s].b = v => next[s] = NULL
                        /\ vecSeg[s].a = v => prev[s] = NULL
    BY <1>1 DEF LinksInv, Linking
  <1>5. /\ next' \in [Segs -> Segs \cup {NULL}] /\ prev' \in [Segs -> Segs \cup {NULL}]
        /\ \A s \in Segs : /\ vecSeg[s].b # v => next'[s] = next[s]
                           /\ vecSeg[s].a # v => prev'[s] = prev[s]
                           /\ next'[s] # s
        /\ \A s, t \in Segs : next'[s] = t <=> prev'[t] = s
        /\ \A s, t \in Segs : next'[s] = t => vecSeg[s].b = vecSeg[t].a
    <2>1. CASE UNCHANGED <<next, prev>>
      BY <1>2, <2>1 DEF LinksInv, NoLoops, LinksAgree
    <2>2. CASE \E list \in Sorted(v) :
                 /\ next' = [s \in Segs |-> IF \E t \in Segs : <<s, t>> \in Pairs(list)
                                            THEN CHOOSE t \in Segs : <<s, t>> \in Pairs(list)
                                            ELSE next[s]]
                 /\ prev' = [t \in Segs |-> IF \E s \in Segs : <<s, t>> \in Pairs(list)
                                            THEN CHOOSE s \in Segs : <<s, t>> \in Pairs(list)
                                            ELSE prev[t]]
      <3>1. PICK list \in Sorted(v) :
               /\ next' = [s \in Segs |-> IF \E t \in Segs : <<s, t>> \in Pairs(list)
                                          THEN CHOOSE t \in Segs : <<s, t>> \in Pairs(list)
                                          ELSE next[s]]
               /\ prev' = [t \in Segs |-> IF \E s \in Segs : <<s, t>> \in Pairs(list)
                                          THEN CHOOSE s \in Segs : <<s, t>> \in Pairs(list)
                                          ELSE prev[t]]
        BY <2>2
      <3> DEFINE R == Pairs(list)
      <3>2. /\ \A s, t : <<s, t>> \in R =>
                  s \in Segs /\ t \in Segs /\ vecSeg[s].b = v /\ vecSeg[t].a = v /\ s # t
            /\ \A s, t, u : <<s, t>> \in R /\ <<s, u>> \in R => t = u
            /\ \A r, s, t : <<r, t>> \in R /\ <<s, t>> \in R => r = s
        BY PairsAreOneToOne DEF LinksInv
      <3> HIDE DEF R
      <3>3. \A s \in Segs : \/ <<s, next'[s]>> \in R
                            \/ next'[s] = next[s] /\ \A t : <<s, t>> \notin R
        BY <3>1, <3>2 DEF R
      <3>4. \A t \in Segs : \/ <<prev'[t], t>> \in R
                            \/ prev'[t] = prev[t] /\ \A s : <<s, t>> \notin R
        BY <3>1, <3>2 DEF R
      <3>5. next' \in [Segs -> Segs \cup {NULL}] /\ prev' \in [Segs -> Segs \cup {NULL}]
        BY <1>2, <3>1, <3>2, <3>3, <3>4
      <3>6. \A s, t \in Segs : next'[s] = t <=> <<s, t>> \in R \/ next[s] = t
        BY <1>3, <1>4, <3>2, <3>3
      <3>7. \A s, t \in Segs : prev'[t] = s <=> <<s, t>> \in R \/ prev[t] = s
        BY <1>3, <1>4, <3>2, <3>4
      <3>8. \A s \in Segs : next[s] # s
        BY DEF LinksInv, NoLoops
      <3>9. \A s \in Segs : next'[s] # s
        BY <3>2, <3>3, <3>8
      <3>10. /\ \A s, t \in Segs : next[s] = t <=> prev[t] = s
             /\ \A s, t \in Segs : next[s] = t => vecSeg[s].b = vecSeg[t].a
        BY DEF LinksInv, LinksAgree
      <3>11. ASSUME NEW s \in Segs, NEW t \in Segs
             PROVE  /\ next'[s] = t => vecSeg[s].b = vecSeg[t].a
                    /\ next'[s] = t <=> prev'[t] = s
        <4>1. next'[s] = t => <<s, t>> \in R \/ next[s] = t
          BY <3>6
        <4>2. <<s, t>> \in R => vecSeg[s].b = v /\ vecSeg[t].a = v
          BY <3>2
        <4>3. next[s] = t => vecSeg[s].b = vecSeg[t].a
          BY <3>10
        <4>4. next[s] = t <=> prev[t] = s
          BY <3>10
        <4>5. next'[s] = t <=> prev'[t] = s
          BY <3>6, <3>7, <4>4
        <4> QED
          BY <4>1, <4>2, <4>3, <4>5
      <3>12. \A s \in Segs : /\ vecSeg[s].b # v => next'[s] = next[s]
                             /\ vecSeg[s].a # v => prev'[s] = prev[s]
        BY <3>2, <3>3, <3>4
      <3> QED
        BY <3>5, <3>9, <3>11, <3>12
    <2> QED
      BY <1>1, <2>1, <2>2 DEF Link, v
  <1>6. Shape'
    BY <1>1, <1>2, <1>5 DEF LinksInv, Shape, TypeOK, walkVars
  <1>7. LinksAgree' /\ NoLoops'
    BY <1>1, <1>2, <1>5 DEF LinksAgree, NoLoops
  <1>8. Linking'
    BY <1>1, <1>2, <1>5 DEF LinksInv, Linking, walkVars
  <1>9. Untouched' /\ Dropping' /\ Walking'
    BY <1>1 DEF LinksInv, Untouched, Dropping, Walking, walkVars
  <1> QED
    BY <1>6, <1>7, <1>8, <1>9 DEF LinksInv

\* The first loop of findPolygon starts with everything still to be looked at.
LEMMA LinkedInv ==
    ASSUME LinksInv, Linked
    PROVE  LinksInv'
  <1>1. /\ pc = "link" /\ pc' = "drop"
        /\ UNCHANGED <<vecSeg, next, prev, isvalid, i, current, outside, turns, path, result>>
    BY DEF Linked, linkVars, walkVars
  <1>2. Segs' = Segs /\ Valid' = Valid
    BY <1>1 DEF Segs, Valid
  <1>3. Shape'
    BY <1>1, <1>2 DEF LinksInv, Shape, TypeOK
  <1>4. LinksAgree' /\ NoLoops'
    BY <1>1, <1>2 DEF LinksInv, LinksAgree, NoLoops
  <1>5. Linking' /\ Untouched' /\ Walking'
    BY <1>1 DEF LinksInv, Linking, Untouched, Walking
  <1>6. Dropping'
    <2>1. NULL \notin Segs /\ Valid = Segs /\ i = 1 /\ \A s \in Segs : s \in Nat /\ ~(s < i)
      BY <1>1, SegsAreFinite, NullAssumption DEF LinksInv, Linking
    <2> QED
      BY <1>1, <1>2, <2>1 DEF LinksInv, Shape, TypeOK, Dropping
  <1> QED
    BY <1>3, <1>4, <1>5, <1>6 DEF LinksInv

\* The segment that is looked at and that nothing leads to is the next one to be dropped.
LEMMA LookInv ==
    ASSUME LinksInv, Look
    PROVE  LinksInv'
  <1>1. /\ pc = "drop" /\ current = NULL /\ i <= Len(vecSeg) /\ i' = i + 1
        /\ current' = IF isvalid[i] /\ prev[i] = NULL THEN i ELSE NULL
        /\ UNCHANGED <<vecSeg, next, prev, isvalid, pc, outside, turns, path, result>>
    BY DEF Look, linkVars
  <1>2. /\ Segs' = Segs /\ Valid' = Valid
        /\ Segs = 1..Len(vecSeg) /\ Len(vecSeg) \in Nat /\ i \in Segs
    BY <1>1, SegsAreFinite DEF LinksInv, Shape, TypeOK, Segs, Valid
  <1>3. Shape'
    BY <1>1, <1>2 DEF LinksInv, Shape, TypeOK
  <1>4. LinksAgree' /\ NoLoops'
    BY <1>1, <1>2 DEF LinksInv, LinksAgree, NoLoops
  <1>5. Linking' /\ Untouched' /\ Walking'
    BY <1>1 DEF LinksInv, Linking, Untouched, Walking
  <1>6. Dropping'
    BY <1>1, <1>2, NullAssumption DEF LinksInv, Dropping, Valid
  <1> QED
    BY <1>3, <1>4, <1>5, <1>6 DEF LinksInv

\* What the dropped segment led to is led to by nothing any more, and comes next.
LEMMA DropInv ==
    ASSUME LinksInv, Drop
    PROVE  LinksInv'
  <1>1. /\ pc = "drop" /\ current \in Segs /\ current' = next[current]
        /\ isvalid' = [isvalid EXCEPT ![current] = FALSE]
        /\ UNCHANGED <<vecSeg, next, prev, pc, i, outside, turns, path, result>>
    BY DEF Drop, linkVars, LinksInv, Shape, TypeOK
  <1>2. Segs' = Segs /\ Valid' = Valid \ {current}
    BY <1>1 DEF LinksInv, Shape, TypeOK, Segs, Valid
  <1>3. Shape'
    BY <1>1, <1>2 DEF LinksInv, Shape, TypeOK
  <1>4. LinksAgree' /\ NoLoops'
    BY <1>1, <1>2 DEF LinksInv, LinksAgree, NoLoops
  <1>5. Linking' /\ Untouched' /\ Walking'
    BY <1>1 DEF LinksInv, Linking, Untouched, Walking
  <1>6. Dropping'
    BY <1>1, <1>2 DEF LinksInv, Dropping, LinksAgree, Valid
  <1> QED
    BY <1>3, <1>4, <1>5, <1>6 DEF LinksInv

-----------------------------------------------------------------------------
(* Walking. *)

\* When the first loop has ended, nothing is left that nothing leads to.
LEMMA RingsAreLeft ==
    ASSUME LinksInv, pc = "drop", current = NULL, i > Len(vecSeg)
    PROVE  Rings(Valid)
  <1>1. /\ NULL \notin Segs /\ Segs = 1..Len(vecSeg) /\ Len(vecSeg) \in Nat
        /\ i \in Nat /\ Valid \in SUBSET Segs
    BY SegsAreFinite, NullAssumption DEF LinksInv, Shape, TypeOK, Valid
  <1>2. ASSUME NEW s \in Valid
        PROVE  prev[s] \in Valid
    BY <1>1 DEF LinksInv, Dropping
  <1> QED
    BY <1>1, <1>2, LedToLeadsOn DEF LinksInv

\* The first walk starts on a ring, with everything that is left before it.
LEMMA ChooseInv ==
    ASSUME LinksInv, ChooseOutside \/ ChooseFirst
    PROVE  LinksInv'
  <1>1. /\ pc = "drop" /\ current = NULL /\ i > Len(vecSeg)
        /\ UNCHANGED <<vecSeg, verts, next, prev, isvalid, i, result>>
    BY DEF ChooseOutside, ChooseFirst, linkVars
  <1>2. Rings(Valid) /\ Valid \in SUBSET Segs /\ Segs' = Segs /\ Valid' = Valid
    BY <1>1, RingsAreLeft DEF Valid, Segs
  <1>3. \/ pc' = "done" /\ UNCHANGED walkVars
        \/ \E s \in Valid : StartWalk(s, Valid)
    <2>1. CASE ChooseOutside
      BY <2>1 DEF ChooseOutside
    <2>2. CASE ChooseFirst
      BY <1>2, <2>2, MinIsIn DEF ChooseFirst, LinksInv
    <2> QED
      BY <2>1, <2>2
  <1>5. /\ Cardinality(Valid) \in 0..Len(vecSeg)
        /\ Len(vecSeg) \in Nat /\ Segs = 1..Len(vecSeg)
    BY <1>2, SegsAreFinite DEF LinksInv
  <1>6. Shape'
    <2>1. CASE pc' = "done" /\ UNCHANGED walkVars
      BY <1>1, <1>2, <2>1 DEF LinksInv, Shape, TypeOK, walkVars
    <2>2. CASE \E s \in Valid : StartWalk(s, Valid)
      <3>1. PICK s \in Valid : /\ s \in Segs /\ pc' = "walk" /\ outside' = s /\ current' = s
                               /\ turns' = Cardinality(Valid) /\ path' = <<>>
        BY <1>2, <2>2 DEF StartWalk
      <3>2. s # NULL
        BY <1>5, <3>1, NullAssumption
      <3>3. TypeOK'
        BY <1>1, <1>2, <1>5, <3>1, <3>2 DEF LinksInv, Shape, TypeOK
      <3> QED
        BY <1>1, <3>1, <3>3 DEF LinksInv, Shape
    <2> QED
      BY <1>3, <2>1, <2>2
  <1>7. LinksAgree' /\ NoLoops'
    BY <1>1, <1>2 DEF LinksInv, LinksAgree, NoLoops
  <1>8. Linking' /\ Untouched' /\ Dropping'
    BY <1>1, <1>3 DEF LinksInv, Linking, Untouched, Dropping, StartWalk
  <1>9. Walking'
    BY <1>1, <1>2, <1>3 DEF Walking, Rings, StartWalk
  <1> QED
    BY <1>6, <1>7, <1>8, <1>9 DEF LinksInv

\* A walk goes on along its ring, where the next segment is led to by none that is left.
LEMMA StepInv ==
    ASSUME LinksInv, Step
    PROVE  LinksInv'
  <1>1. /\ pc = "walk" /\ current # NULL /\ next[current] # outside
        /\ path' = Append(path, vecSeg[current].a)
        /\ isvalid' = [isvalid EXCEPT ![current] = FALSE]
        /\ current' = next[current] /\ turns' = turns - 1
        /\ UNCHANGED <<vecSeg, verts, next, prev, pc, i, outside, result>>
    BY DEF Step, AtLast, linkVars
  <1>2. /\ outside \in Segs /\ current \in Valid /\ Valid \in SUBSET Segs
        /\ turns = Cardinality(Valid)
        /\ \A s \in Valid : next[s] \in Valid \cup {outside}
        /\ \A s \in Valid : prev[s] \in Valid \/ s = current
        /\ IF path = <<>> THEN current = outside /\ Rings(Valid)
           ELSE outside \notin Valid /\ prev[current] \notin Valid /\ path[1] = vecSeg[outside].a
    BY <1>1 DEF LinksInv, Walking, Valid
  <1>3. Segs' = Segs /\ Valid' = Valid \ {current}
    BY <1>1, <1>2 DEF LinksInv, Shape, TypeOK, Segs, Valid
  <1>4. /\ path \in Seq(Point) /\ path' \in Seq(Point) /\ path' # <<>>
        /\ Len(path) \in Nat /\ Len(result) \in Nat /\ Len(path') = Len(path) + 1
        /\ \A m \in 1..Len(path) : path'[m] = path[m]
        /\ path'[Len(path) + 1] = vecSeg[current].a
    <2>1. vecSeg[current].a \in Point
      BY <1>2, SegmentsArePairs DEF LinksInv
    <2>2. path \in Seq(Point) /\ result \in Seq(Seq(Point))
      BY DEF LinksInv, Shape
    <2>3. path' = Append(path, vecSeg[current].a)
      BY <1>1
    <2> QED
      BY <2>1, <2>2, <2>3
  <1>5. turns' = Cardinality(Valid') /\ turns' \in 0..Len(vecSeg)
    <2>1. IsFiniteSet(Valid) /\ IsFiniteSet(Valid')
      BY <1>2, <1>3, SegsAreFinite DEF LinksInv
    <2>2. Cardinality(Valid') = Cardinality(Valid) - 1
      BY <1>2, <1>3, <2>1, FS_RemoveElement
    <2>3. Cardinality(Valid') \in 0..Len(vecSeg)
      BY <1>2, <1>3, SegsAreFinite DEF LinksInv
    <2> QED
      BY <1>1, <1>2, <2>2, <2>3
  <1>6. next[current] \in Valid /\ next[current] # current
    BY <1>1, <1>2 DEF LinksInv, NoLoops
  <1>7. Shape'
    BY <1>1, <1>2, <1>3, <1>4, <1>5, <1>6 DEF LinksInv, Shape, TypeOK
  <1>8. LinksAgree' /\ NoLoops'
    BY <1>1, <1>3 DEF LinksInv, LinksAgree, NoLoops
  <1>9. Linking' /\ Untouched' /\ Dropping'
    BY <1>1 DEF LinksInv, Linking, Untouched, Dropping
  <1>10. Walking'
    <2>1. \A s, t \in Segs : next[s] = t <=> prev[t] = s
      BY DEF LinksInv, LinksAgree
    <2>2. ASSUME NEW s \in Valid'
          PROVE  next[s] \in Valid' \cup {outside}
      BY <1>2, <1>3, <2>1
    <2>3. ASSUME NEW s \in Valid'
          PROVE  prev[s] \in Valid' \/ s = next[current]
      BY <1>2, <1>3, <2>1
    <2>4. outside \notin Valid' /\ prev[next[current]] \notin Valid'
      BY <1>2, <1>3, <1>6, <2>1
    <2>5. path'[1] = vecSeg[outside].a
      <3>1. CASE path = <<>>
        BY <1>2, <1>4, <3>1
      <3>2. CASE path # <<>>
        <4>1. 1 \in 1..Len(path)
          BY <1>4, <3>2
        <4> QED
          BY <1>2, <1>4, <3>2, <4>1
      <3> QED
        BY <3>1, <3>2
    <2> QED
      BY <1>1, <1>2, <1>3, <1>4, <1>5, <1>6, <2>2, <2>3, <2>4, <2>5 DEF Walking
  <1> QED
    BY <1>7, <1>8, <1>9, <1>10 DEF LinksInv

\* The loop of a walk never runs out of rounds or of segments.
LEMMA WalkIsOnASegment ==
    ASSUME LinksInv, pc = "walk"
    PROVE  current \in Segs /\ current # NULL /\ turns > 0
  <1>1. current \in Valid /\ turns = Cardinality(Valid) /\ Valid \in SUBSET Segs
    BY DEF LinksInv, Walking, Valid
  <1>2. IsFiniteSet(Valid) /\ NULL \notin Segs
    BY <1>1, SegsAreFinite, NullAssumption DEF LinksInv
  <1>3. Cardinality(Valid) \in Nat /\ Cardinality(Valid) # 0
    BY <1>1, <1>2, FS_CardinalityType, FS_EmptySet
  <1> QED
    BY <1>1, <1>2, <1>3

\* What is left when a walk ends, and the outline that it has walked along.
Left == Valid \ {current}
Outline == LET walked == Append(path, vecSeg[current].a) IN Append(walked, Head(walked))

\* A walk is on the ring that it has opened.
LEMMA OnTheRing ==
    ASSUME LinksInv, pc = "walk"
    PROVE  /\ outside \in Segs /\ current \in Valid /\ Valid \in SUBSET Segs
           /\ \A s \in Valid : next[s] \in Valid \cup {outside}
           /\ \A s \in Valid : prev[s] \in Valid \/ s = current
           /\ IF path = <<>> THEN current = outside /\ Rings(Valid)
              ELSE outside \notin Valid /\ prev[current] \notin Valid /\ path[1] = vecSeg[outside].a
  BY DEF LinksInv, Walking, Valid

LEMMA CloseFacts ==
    ASSUME LinksInv, Close
    PROVE  /\ pc = "walk" /\ next[current] = outside
           /\ result' = result \/ result' = Append(result, Outline)
           /\ \/ pc' = "done" /\ UNCHANGED walkVars
              \/ \E s \in Left : StartWalk(s, Left)
           /\ UNCHANGED <<vecSeg, verts, next, prev, i>>
           /\ isvalid' = [s \in Segs |-> s \in Left]
           /\ Segs' = Segs /\ Valid' = Left
  <1>1. pc = "walk" /\ current \in Segs /\ current # NULL /\ turns > 0
    BY WalkIsOnASegment DEF Close
  <1>2. /\ next[current] = outside
        /\ isvalid' = [s \in Segs |-> s \in Left]
        /\ result' = result \/ result' = Append(result, Outline)
        /\ \/ pc' = "done" /\ UNCHANGED walkVars
           \/ Left # {} /\ StartWalk(Min(Left), Left)
        /\ UNCHANGED <<vecSeg, verts, next, prev, i>>
    BY <1>1 DEF Close, AtLast, linkVars, Left, Outline
  <1>3. Left \in SUBSET Segs
    BY DEF Left, Valid
  <1>4. Segs' = Segs /\ Valid' = Left
    BY <1>2, <1>3 DEF Segs, Valid
  <1>5. Left # {} => Min(Left) \in Left
    BY <1>3, MinIsIn DEF LinksInv
  <1> QED
    BY <1>1, <1>2, <1>4, <1>5

LEMMA OutlineFacts ==
    ASSUME LinksInv, pc = "walk"
    PROVE  /\ Outline \in Seq(Point) /\ Len(Outline) = Len(path) + 2
           /\ \A m \in 1..Len(path) : Outline[m] = path[m]
           /\ Outline[Len(path) + 1] = vecSeg[current].a
           /\ Outline[Len(path) + 2] = vecSeg[outside].a
           /\ Outline[1] = vecSeg[outside].a
           /\ path \in Seq(Point) /\ result \in Seq(Seq(Point)) /\ Len(path) \in Nat /\ Len(result) \in Nat
  <1> DEFINE walked == Append(path, vecSeg[current].a)
             closed == Append(walked, Head(walked))
  <1>1. current \in Segs
    BY WalkIsOnASegment
  <1>3. /\ outside \in Segs
        /\ IF path = <<>> THEN current = outside ELSE path[1] = vecSeg[outside].a
    BY OnTheRing
  <1>5. vecSeg[current].a \in Point /\ vecSeg[current] = Seg(vecSeg[current].a, vecSeg[current].b)
    BY <1>1, SegmentsArePairs DEF LinksInv
  <1>6. path \in Seq(Point) /\ result \in Seq(Seq(Point)) /\ Len(path) \in Nat /\ Len(result) \in Nat
    BY DEF LinksInv, Shape
  <1>7. /\ walked \in Seq(Point) /\ Len(walked) = Len(path) + 1
        /\ \A m \in 1..Len(path) : walked[m] = path[m]
        /\ walked[Len(path) + 1] = vecSeg[current].a
    BY <1>5, <1>6
  <1>8. Head(walked) = vecSeg[outside].a /\ Head(walked) \in Point
    <2>1. Head(walked) = walked[1] /\ walked[1] \in Point
      BY <1>6, <1>7
    <2>2. CASE path = <<>>
      BY <1>3, <1>7, <2>1, <2>2
    <2>3. CASE path # <<>>
      <3>1. 1 \in 1..Len(path)
        BY <1>6, <2>3
      <3> QED
        BY <1>3, <1>7, <2>1, <2>3, <3>1
    <2> QED
      BY <2>1, <2>2, <2>3
  <1>9. /\ closed \in Seq(Point) /\ Len(closed) = Len(path) + 2
        /\ \A m \in 1..Len(path) : closed[m] = path[m]
        /\ closed[Len(path) + 1] = vecSeg[current].a
        /\ closed[Len(path) + 2] = vecSeg[outside].a
    <2> HIDE DEF walked
    <2> QED
      BY <1>6, <1>7, <1>8
  <1>10. closed[1] = vecSeg[outside].a
    <2>1. Head(walked) = walked[1] /\ closed[1] = walked[1]
      BY <1>6, <1>7, <1>8
    <2> QED
      BY <1>8, <2>1
  <1>11. Outline = closed
    BY DEF Outline
  <1> HIDE DEF closed
  <1> QED
    BY <1>6, <1>9, <1>10, <1>11

\* A walk ends where the ring closes: what is left are the other rings.
LEMMA CloseInv ==
    ASSUME LinksInv, Close
    PROVE  LinksInv'
  <1>1. pc = "walk" /\ current \in Segs
    BY WalkIsOnASegment, CloseFacts
  <1>2. /\ next[current] = outside
        /\ isvalid' = [s \in Segs |-> s \in Left]
        /\ result' = result \/ result' = Append(result, Outline)
        /\ UNCHANGED <<vecSeg, verts, next, prev, i>>
    BY CloseFacts
  <1>3. /\ outside \in Segs /\ current \in Valid /\ Valid \in SUBSET Segs
        /\ \A s \in Valid : next[s] \in Valid \cup {outside}
        /\ \A s \in Valid : prev[s] \in Valid \/ s = current
        /\ IF path = <<>> THEN current = outside /\ Rings(Valid)
           ELSE outside \notin Valid /\ prev[current] \notin Valid /\ path[1] = vecSeg[outside].a
    BY <1>1, OnTheRing
  <1>4. Segs' = Segs /\ Valid' = Left
    BY CloseFacts
  <1>6. Outline \in Seq(Point) /\ result \in Seq(Seq(Point))
    BY <1>1, OutlineFacts
  <1>11. Rings(Left)
    <2>1. \A s, t \in Segs : next[s] = t <=> prev[t] = s
      BY DEF LinksInv, LinksAgree
    <2>2. next[current] # current
      BY <1>1 DEF LinksInv, NoLoops
    <2>3. ASSUME NEW s \in Left
          PROVE  next[s] \in Left
      BY <1>2, <1>3, <2>1, <2>3 DEF Rings, Left
    <2>4. ASSUME NEW s \in Left
          PROVE  prev[s] \in Left
      BY <1>2, <1>3, <2>1, <2>2, <2>4 DEF Rings, Left
    <2> QED
      BY <2>3, <2>4 DEF Rings, Left
  <1>12. \/ pc' = "done" /\ UNCHANGED walkVars
         \/ \E s \in Left : StartWalk(s, Left)
    BY CloseFacts
  <1>13. /\ Cardinality(Left) \in 0..Len(vecSeg)
         /\ Len(vecSeg) \in Nat /\ Segs = 1..Len(vecSeg)
    BY <1>3, SegsAreFinite DEF LinksInv, Left
  <1>14. result' \in Seq(Seq(Point))
    <2> DEFINE P == Seq(Point)
    <2>1. Outline \in P /\ result \in Seq(P)
      BY <1>6
    <2> HIDE DEF P
    <2>2. result' \in Seq(P)
      BY <1>2, <2>1
    <2> QED
      BY <2>2 DEF P
  <1>15. Shape'
    <2>1. isvalid' \in [Segs -> BOOLEAN]
      BY <1>2
    <2>2. CASE pc' = "done" /\ UNCHANGED walkVars
      BY <1>2, <1>4, <1>14, <2>1, <2>2 DEF LinksInv, Shape, TypeOK, walkVars
    <2>3. CASE \E s \in Left : StartWalk(s, Left)
      <3>1. PICK s \in Left : /\ s \in Segs /\ pc' = "walk" /\ outside' = s /\ current' = s
                              /\ turns' = Cardinality(Left) /\ path' = <<>>
        BY <1>3, <2>3 DEF StartWalk, Left
      <3>2. s # NULL
        BY <1>13, <3>1, NullAssumption
      <3>3. TypeOK'
        BY <1>2, <1>4, <1>13, <2>1, <3>1, <3>2 DEF LinksInv, Shape, TypeOK
      <3> QED
        BY <1>2, <1>14, <3>1, <3>3 DEF LinksInv, Shape
    <2> QED
      BY <1>12, <2>2, <2>3
  <1>16. LinksAgree' /\ NoLoops'
    BY <1>2, <1>4 DEF LinksInv, LinksAgree, NoLoops
  <1>17. Linking' /\ Untouched' /\ Dropping'
    BY <1>12 DEF Linking, Untouched, Dropping, StartWalk
  <1>18. Walking'
    <2>1. CASE pc' = "done"
      BY <2>1 DEF Walking
    <2>2. CASE \E s \in Left : StartWalk(s, Left)
      <3>1. Left \subseteq Segs
        BY <1>3 DEF Left
      <3> QED
        BY <1>2, <1>4, <1>11, <2>2, <3>1 DEF Walking, Rings, StartWalk
    <2> QED
      BY <1>12, <2>1, <2>2
  <1> QED
    BY <1>15, <1>16, <1>17, <1>18 DEF LinksInv

\* Linking, dropping and walking go on as they do whatever outlines there are.
LEMMA LinksStay == LinksInv /\ [Next]_vars => LinksInv'
  <1> SUFFICES ASSUME LinksInv, [Next]_vars PROVE LinksInv'
    OBVIOUS
  <1>1. CASE UNCHANGED vars
    <2>1. UNCHANGED <<vecSeg, verts, next, prev, isvalid, pc, i, current, outside, turns,
                      path, result>>
      BY <1>1 DEF vars, linkVars, walkVars
    <2>2. Segs' = Segs /\ Valid' = Valid
      BY <2>1 DEF Segs, Valid
    <2>3. Shape'
      BY <2>1, <2>2 DEF LinksInv, Shape, TypeOK
    <2>4. LinksAgree' /\ NoLoops' /\ Linking' /\ Untouched' /\ Dropping'
      BY <2>1, <2>2 DEF LinksInv, LinksAgree, NoLoops, Linking, Untouched, Dropping
    <2>5. Walking'
      BY <2>1, <2>2 DEF LinksInv, Walking, Rings
    <2> QED
      BY <2>3, <2>4, <2>5 DEF LinksInv
  <1>2. CASE Link
    BY <1>2, LinkInv
  <1>3. CASE Linked
    BY <1>3, LinkedInv
  <1>4. CASE Look
    BY <1>4, LookInv
  <1>5. CASE Drop
    BY <1>5, DropInv
  <1>6. CASE ChooseOutside \/ ChooseFirst
    BY <1>6, ChooseInv
  <1>7. CASE Step
    BY <1>7, StepInv
  <1>8. CASE Close
    BY <1>8, CloseInv
  <1>9. CASE Return
    BY <1>1, <1>9 DEF Return
  <1> QED
    BY <1>1, <1>2, <1>3, <1>4, <1>5, <1>6, <1>7, <1>8, <1>9 DEF Next

-----------------------------------------------------------------------------
(* Outlines. *)

\* Before the first walk there is no outline.
LEMMA NoOutlineYet ==
    ASSUME IInv, Link \/ Linked \/ Look \/ Drop \/ ChooseOutside \/ ChooseFirst
    PROVE  OutlinesInv'
  <1>1. pc \in {"link", "drop"} /\ result' = result
    BY DEF Link, Linked, Look, Drop, ChooseOutside, ChooseFirst
  <1>2. result = <<>> /\ path = <<>>
    BY <1>1 DEF IInv, LinksInv, OutlinesInv, Untouched
  <1>3. path' = <<>>
    BY <1>2 DEF Link, Linked, Look, Drop, ChooseOutside, ChooseFirst, walkVars, StartWalk
  <1>4. Places' = {}
    BY <1>1, <1>2, <1>3 DEF Places, Sides
  <1>5. Attributed'
    <2>1. [w \in {} |-> 0] \in [Places' -> Segs']
      BY <1>4
    <2> QED
      BY <1>4, <2>1 DEF Attributed, Attributes
  <1>6. Closed'
    BY <1>1, <1>2 DEF Closed
  <1> QED
    BY <1>1, <1>2, <1>5, <1>6 DEF OutlinesInv

\* The place of the side that comes next, and what a side is drawn along.
NewPlace == <<Len(result) + 1, Len(path) + 1>>

\* If the place where the side along the current segment is drawn is all that is added,
\* each side still has a segment of its own.
LEMMA OneMoreSide ==
    ASSUME IInv, pc = "walk",
           Segs' = Segs, vecSeg' = vecSeg, Valid' = Valid \ {current},
           NEW p, p = NewPlace, Places' = Places \cup {p},
           \A w \in Places : Passed(w)' = Passed(w),
           Passed(p)' = vecSeg[current]
    PROVE  Attributed'
  <1>1. PICK f \in [Places -> Segs] : Attributes(f)
    BY DEF IInv, OutlinesInv, Attributed
  <1>2. current \in Valid /\ current \in Segs
    BY DEF IInv, LinksInv, Walking, Valid
  <1>3. p \notin Places
    <2>1. Len(result) \in Nat /\ Len(path) \in Nat
      BY DEF IInv, LinksInv, Shape
    <2>2. \A w \in Sides : w[1] \in 1..Len(result)
      BY DEF Sides, IInv, LinksInv, Shape
    <2> QED
      BY <2>1, <2>2 DEF Places, NewPlace
  <1> DEFINE g == [w \in Places' |-> IF w = p THEN current ELSE f[w]]
  <1>4. g \in [Places' -> Segs']
    BY <1>1, <1>2
  <1>5. \A w \in Places : g[w] = f[w]
    BY <1>3
  <1>6. g[p] = current
    OBVIOUS
  <1> HIDE DEF g
  <1>7. \A w \in Places' : g[w] \notin Valid' /\ vecSeg'[g[w]] = Passed(w)'
    <2>1. \A w \in Places : f[w] \notin Valid /\ vecSeg[f[w]] = Passed(w)
      BY <1>1 DEF Attributes
    <2>2. ASSUME NEW w \in Places
          PROVE  g[w] \notin Valid' /\ vecSeg'[g[w]] = Passed(w)'
      <3>1. g[w] = f[w] /\ Passed(w)' = Passed(w)
        BY <1>5
      <3> QED
        BY <2>1, <3>1
    <2>3. g[p] \notin Valid' /\ vecSeg'[g[p]] = Passed(p)'
      BY <1>6
    <2>4. \A w \in Places' : w \in Places \/ w = p
      OBVIOUS
    <2> QED
      BY <2>2, <2>3, <2>4, Zenon
  <1>8. \A u, w \in Places' : g[u] = g[w] => u = w
    <2>1. /\ \A w \in Places : f[w] \notin Valid
          /\ \A u, w \in Places : f[u] = f[w] => u = w
      BY <1>1 DEF Attributes
    <2> QED
      BY <1>2, <1>5, <1>6, <2>1
  <1> QED
    BY <1>4, <1>7, <1>8 DEF Attributed, Attributes

\* The side that a step has walked along is the next one of the outline under way.
LEMMA StepOutlines ==
    ASSUME IInv, Step
    PROVE  OutlinesInv'
  <1>1. /\ pc = "walk" /\ current # NULL /\ next[current] # outside
        /\ path' = Append(path, vecSeg[current].a)
        /\ isvalid' = [isvalid EXCEPT ![current] = FALSE]
        /\ current' = next[current] /\ turns' = turns - 1
        /\ UNCHANGED <<vecSeg, verts, next, prev, pc, i, outside, result>>
    BY DEF Step, AtLast, linkVars
  <1>2. /\ outside \in Segs /\ current \in Valid /\ Valid \in SUBSET Segs
        /\ turns = Cardinality(Valid)
        /\ \A s \in Valid : next[s] \in Valid \cup {outside}
        /\ \A s \in Valid : prev[s] \in Valid \/ s = current
        /\ IF path = <<>> THEN current = outside /\ Rings(Valid)
           ELSE outside \notin Valid /\ prev[current] \notin Valid /\ path[1] = vecSeg[outside].a
    BY <1>1 DEF IInv, LinksInv, Walking, Valid
  <1>3. Segs' = Segs /\ Valid' = Valid \ {current}
    BY <1>1, <1>2 DEF IInv, LinksInv, Shape, TypeOK, Segs, Valid
  <1>4. /\ path \in Seq(Point) /\ path' \in Seq(Point) /\ path' # <<>>
        /\ Len(path) \in Nat /\ Len(result) \in Nat /\ Len(path') = Len(path) + 1
        /\ \A m \in 1..Len(path) : path'[m] = path[m]
        /\ path'[Len(path) + 1] = vecSeg[current].a
    <2>1. vecSeg[current].a \in Point
      BY <1>2, SegmentsArePairs DEF IInv, LinksInv
    <2>2. path \in Seq(Point) /\ result \in Seq(Seq(Point))
      BY DEF IInv, LinksInv, Shape
    <2>3. path' = Append(path, vecSeg[current].a)
      BY <1>1
    <2> QED
      BY <2>1, <2>2, <2>3
  <1>6. next[current] \in Valid /\ next[current] # current
    BY <1>1, <1>2 DEF IInv, LinksInv, NoLoops
  <1>11. Attributed'
    <2> PICK p : p = <<Len(result) + 1, Len(path) + 1>>
      OBVIOUS
    <2>1. Places' = Places \cup {p}
      <3>1. Sides' = Sides
        BY <1>1 DEF Sides
      <3>2. 1..(Len(path) + 1) = 1..Len(path) \cup {Len(path) + 1}
        BY <1>4
      <3>3. Places = Sides \cup {<<Len(result) + 1, m>> : m \in 1..Len(path)}
        BY <1>1 DEF Places
      <3>4. Places' = Sides \cup {<<Len(result) + 1, m>> : m \in 1..(Len(path) + 1)}
        BY <1>1, <1>4, <3>1 DEF Places
      <3> QED
        BY <3>2, <3>3, <3>4
    <2>2. ASSUME NEW w \in Places
          PROVE  Passed(w)' = Passed(w)
      <3>1. CASE w[1] <= Len(result)
        BY <1>1, <3>1 DEF Passed, Side
      <3>2. CASE ~(w[1] <= Len(result))
        <4>1. w \notin Sides
          BY <1>4, <3>2 DEF Sides
        <4>2. w[2] \in 1..Len(path)
          BY <1>1, <4>1 DEF Places
        <4>3. CASE w[2] < Len(path)
          BY <1>1, <1>4, <3>2, <4>2, <4>3 DEF Passed
        <4>4. CASE w[2] = Len(path)
          BY <1>1, <1>4, <3>2, <4>2, <4>4 DEF Passed
        <4> QED
          BY <1>4, <4>2, <4>3, <4>4
      <3> QED
        BY <3>1, <3>2
    <2>3. Passed(p)' = vecSeg[current]
      <3>1. vecSeg[current].b = vecSeg[next[current]].a
        BY <1>2, <1>6 DEF IInv, LinksInv, LinksAgree
      <3>2. vecSeg[current] = Seg(vecSeg[current].a, vecSeg[current].b)
        BY <1>2, SegmentsArePairs DEF IInv, LinksInv
      <3>3. Passed(p)' = Seg(vecSeg[current].a, vecSeg[next[current]].a)
        BY <1>1, <1>4 DEF Passed
      <3> QED
        BY <3>1, <3>2, <3>3
    <2> QED
      BY <1>1, <1>3, <2>1, <2>2, <2>3, OneMoreSide DEF NewPlace
  <1>12. Closed'
    BY <1>1 DEF IInv, OutlinesInv, Closed
  <1> QED
    BY <1>1, <1>11, <1>12 DEF OutlinesInv

\* The outline of a walk that has ended, if it is kept, has one side more than the walk had
\* passed.
LEMMA CloseOutlines ==
    ASSUME IInv, Close
    PROVE  OutlinesInv'
  <1> DEFINE closed == Outline
  <1>1. /\ pc = "walk" /\ current \in Valid /\ current \in Segs /\ outside \in Segs
        /\ LinksInv
    BY CloseFacts, OnTheRing, WalkIsOnASegment DEF IInv
  <1>2. /\ next[current] = outside
        /\ result' = result \/ result' = Append(result, closed)
        /\ UNCHANGED <<vecSeg, verts, next, prev, i>>
    BY <1>1, CloseFacts
  <1>3. Segs' = Segs /\ Valid' = Valid \ {current}
    BY <1>1, CloseFacts DEF Left
  <1>4. \/ pc' = "done" /\ UNCHANGED walkVars
        \/ \E s \in Left : StartWalk(s, Left)
    BY <1>1, CloseFacts
  <1>5. vecSeg[current] = Seg(vecSeg[current].a, vecSeg[current].b)
    BY <1>1, SegmentsArePairs DEF LinksInv
  <1>6. path \in Seq(Point) /\ result \in Seq(Seq(Point)) /\ Len(path) \in Nat /\ Len(result) \in Nat
    BY <1>1, OutlineFacts
  <1>9. /\ closed \in Seq(Point) /\ Len(closed) = Len(path) + 2
        /\ \A m \in 1..Len(path) : closed[m] = path[m]
        /\ closed[Len(path) + 1] = vecSeg[current].a
        /\ closed[Len(path) + 2] = vecSeg[outside].a
        /\ closed[1] = vecSeg[outside].a
    BY <1>1, OutlineFacts
  <1> HIDE DEF closed
  <1>10. ~(pc' \in {"link", "drop"})
    BY <1>1, <1>4 DEF StartWalk
  <1>19. Closed'
    <2>1. closed[1] = closed[Len(closed)]
      BY <1>9
    <2>2. CASE result' = result
      BY <2>2 DEF IInv, OutlinesInv, Closed
    <2>3. CASE result' = Append(result, closed)
      BY <1>6, <1>9, <2>1, <2>3 DEF IInv, OutlinesInv, Closed
    <2> QED
      BY <1>2, <2>2, <2>3
  <1>20. Places' = Sides'
    <2>1. pc' = "walk" => path' = <<>>
      BY <1>4 DEF StartWalk
    <2>2. 1..0 = {}
      OBVIOUS
    <2> QED
      BY <2>1, <2>2 DEF Places
  <1>21. CASE result' = result
    <2>1. PICK f \in [Places -> Segs] : Attributes(f)
      BY DEF IInv, OutlinesInv, Attributed
    <2>2. Places' \subseteq Places
      BY <1>20, <1>21 DEF Places, Sides
    <2> DEFINE g == [w \in Places' |-> f[w]]
    <2>3. g \in [Places' -> Segs']
      BY <1>3, <2>1, <2>2
    <2>4. ASSUME NEW w \in Places'
          PROVE  g[w] \notin Valid' /\ vecSeg'[g[w]] = Passed(w)'
      <3>1. w[1] <= Len(result)
        BY <1>6, <1>20, <1>21 DEF Sides
      <3>2. Passed(w)' = Passed(w)
        BY <1>21, <3>1 DEF Passed, Side
      <3>3. f[w] \notin Valid /\ vecSeg[f[w]] = Passed(w)
        BY <2>1, <2>2 DEF Attributes
      <3> QED
        BY <1>2, <1>3, <3>2, <3>3
    <2>5. \A u, w \in Places' : g[u] = g[w] => u = w
      BY <2>1, <2>2 DEF Attributes
    <2> HIDE DEF g
    <2>6. Attributed'
      BY <2>3, <2>4, <2>5 DEF Attributed, Attributes
    <2> QED
      BY <1>10, <1>19, <2>6 DEF OutlinesInv
  <1>22. CASE result' = Append(result, closed)
    <2> PICK p : p = <<Len(result) + 1, Len(path) + 1>>
      OBVIOUS
    <2>1. /\ Len(result') = Len(result) + 1 /\ result'[Len(result) + 1] = closed
          /\ \A k \in 1..Len(result) : result'[k] = result[k]
      BY <1>6, <1>9, <1>22
    <2>2. Places' = Places \cup {p}
      <3>1. 1..(Len(path) + 1) = 1..Len(path) \cup {Len(path) + 1}
        BY <1>6
      <3>2. Places = Sides \cup {<<Len(result) + 1, m>> : m \in 1..Len(path)}
        BY <1>1 DEF Places
      <3>3. DOMAIN result' = DOMAIN result \cup {Len(result) + 1}
        BY <1>6, <1>9, <1>22
      <3>4. Len(closed) - 1 = Len(path) + 1
        BY <1>6, <1>9
      <3>5. Sides' = Sides \cup {<<Len(result) + 1, m>> : m \in 1..(Len(path) + 1)}
        <4>1. \A w : w \in Sides' <=>
                \E k \in DOMAIN result' : \E m \in 1..(Len(result'[k]) - 1) : w = <<k, m>>
          BY DEF Sides
        <4>2. \A w : w \in Sides <=>
                \E k \in DOMAIN result : \E m \in 1..(Len(result[k]) - 1) : w = <<k, m>>
          BY DEF Sides
        <4>3. \A k \in DOMAIN result : result'[k] = result[k]
          <5>1. DOMAIN result = 1..Len(result)
            BY <1>6
          <5> QED
            BY <2>1, <5>1
        <4>4. Len(result'[Len(result) + 1]) - 1 = Len(path) + 1
          BY <2>1, <3>4
        <4>5. \A w : w \in Sides' <=> \/ w \in Sides
                                      \/ \E m \in 1..(Len(path) + 1) : w = <<Len(result) + 1, m>>
          BY <3>3, <4>1, <4>2, <4>3, <4>4
        <4> QED
          BY <4>5
      <3> QED
        BY <1>20, <3>1, <3>2, <3>5
    <2>3. ASSUME NEW w \in Places
          PROVE  Passed(w)' = Passed(w)
      <3>1. CASE w \in Sides
        <4>1. w[1] \in 1..Len(result)
          BY <1>6, <3>1 DEF Sides
        <4> QED
          BY <1>6, <2>1, <4>1 DEF Passed, Side
      <3>2. CASE w \notin Sides
        <4>1. w[1] = Len(result) + 1 /\ w[2] \in 1..Len(path)
          BY <1>1, <3>2 DEF Places
        <4>2. Passed(w)' = Seg(closed[w[2]], closed[w[2] + 1])
          BY <1>6, <2>1, <4>1 DEF Passed, Side
        <4>3. Passed(w) = Seg(path[w[2]],
                              IF w[2] < Len(path) THEN path[w[2] + 1] ELSE vecSeg[current].a)
          BY <1>6, <4>1 DEF Passed
        <4>4. closed[w[2]] = path[w[2]]
          BY <1>9, <4>1
        <4>5. w[2] < Len(path) => closed[w[2] + 1] = path[w[2] + 1]
          <5>1. w[2] < Len(path) => w[2] + 1 \in 1..Len(path)
            BY <1>6, <4>1
          <5> QED
            BY <1>9, <5>1
        <4>6. ~(w[2] < Len(path)) => closed[w[2] + 1] = vecSeg[current].a
          <5>1. ~(w[2] < Len(path)) => w[2] = Len(path)
            BY <1>6, <4>1
          <5> QED
            BY <1>9, <5>1
        <4> QED
          BY <4>2, <4>3, <4>4, <4>5, <4>6
      <3> QED
        BY <3>1, <3>2
    <2>4. Passed(p)' = vecSeg[current]
      <3>1. vecSeg[current].b = vecSeg[outside].a
        BY <1>1, <1>2 DEF LinksInv, LinksAgree
      <3>2. Passed(p)' = Seg(closed[Len(path) + 1], closed[Len(path) + 2])
        BY <1>6, <2>1 DEF Passed, Side
      <3> QED
        BY <1>5, <1>9, <3>1, <3>2
    <2>5. Attributed'
      BY <1>1, <1>2, <1>3, <2>2, <2>3, <2>4, OneMoreSide DEF NewPlace
    <2> QED
      BY <1>10, <1>19, <2>5 DEF OutlinesInv
  <1> QED
    BY <1>2, <1>21, <1>22

-----------------------------------------------------------------------------

\* The invariant and the properties it is there for, of every run.
THEOREM OutlinesInvariant == Spec => []IInv
  <1>1. IInv /\ [Next]_vars => IInv'
    <2> SUFFICES ASSUME IInv, [Next]_vars PROVE IInv'
      OBVIOUS
    <2>1. LinksInv'
      BY LinksStay DEF IInv
    <2>2. CASE UNCHANGED vars
      <3>1. UNCHANGED <<vecSeg, isvalid, pc, current, path, result>>
        BY <2>2 DEF vars, linkVars, walkVars
      <3>2. Segs' = Segs /\ Valid' = Valid /\ Sides' = Sides /\ Places' = Places
        BY <3>1 DEF Segs, Valid, Sides, Places
      <3>3. \A w : Passed(w)' = Passed(w)
        BY <3>1 DEF Passed, Side
      <3>4. Attributed'
        BY <3>1, <3>2, <3>3 DEF IInv, OutlinesInv, Attributed, Attributes
      <3>5. Closed' /\ (pc' \in {"link", "drop"} => result' = <<>>)
        BY <3>1 DEF IInv, OutlinesInv, Closed
      <3> QED
        BY <2>1, <3>4, <3>5 DEF IInv, OutlinesInv
    <2>3. CASE Link \/ Linked \/ Look \/ Drop \/ ChooseOutside \/ ChooseFirst
      BY <2>1, <2>3, NoOutlineYet DEF IInv
    <2>4. CASE Step
      BY <2>1, <2>4, StepOutlines DEF IInv
    <2>5. CASE Close
      BY <2>1, <2>5, CloseOutlines DEF IInv
    <2>6. CASE Return
      BY <2>2, <2>6 DEF Return
    <2> QED
      BY <2>2, <2>3, <2>4, <2>5, <2>6 DEF Next
  <1> QED
    BY <1>1, InitInv, PTL DEF Spec

\* What the links and walks are kept for.
LEMMA LinksHold == LinksInv => TypeOK /\ LinksAgree /\ OnlyRingsAreLeft /\ NoWalkIsCut
  <1>1. LinksInv => TypeOK /\ LinksAgree
    BY DEF LinksInv, Shape
  <1>2. LinksInv => OnlyRingsAreLeft
    BY DEF LinksInv, Walking, Rings, OnlyRingsAreLeft
  <1>3. LinksInv => NoWalkIsCut
    BY WalkIsOnASegment DEF NoWalkIsCut
  <1> QED
    BY <1>1, <1>2, <1>3

\* Each step leaves the links, the walk and the counters in their range.
THEOREM OutlinesTypeOK == Spec => []TypeOK
  <1>1. IInv => TypeOK
    BY LinksHold DEF IInv
  <1> QED
    BY <1>1, OutlinesInvariant, PTL

\* What judgeLinkSegmentFromVerts links is linked at both ends, and where both meet.
THEOREM LinksAlwaysAgree == Spec => []LinksAgree
  <1>1. IInv => LinksAgree
    BY LinksHold DEF IInv
  <1> QED
    BY <1>1, OutlinesInvariant, PTL

\* When the first loop of findPolygon has dropped the chains, and after each outline that
\* is walked, every segment that is left is on a ring.
THEOREM RingsRemain == Spec => []OnlyRingsAreLeft
  <1>1. IInv => OnlyRingsAreLeft
    BY LinksHold DEF IInv
  <1> QED
    BY <1>1, OutlinesInvariant, PTL

\* The outlines that findPolygon returns are closed, and none of their sides is drawn more
\* often than there are segments for it.
THEOREM OutlinesAreAlwaysRings == Spec => []OutlinesAreRings
  <1>1. IInv => OutlinesAreRings
    <2> SUFFICES ASSUME IInv, NEW w \in Sides
                 PROVE  Cardinality({u \in Sides : Side(u) = Side(w)})
                          <= Cardinality({s \in Segs : vecSeg[s] = Side(w)})
      BY DEF IInv, OutlinesInv, Closed, OutlinesAreRings
    <2> DEFINE A == {u \in Sides : Side(u) = Side(w)}
               B == {s \in Segs : vecSeg[s] = Side(w)}
    <2>1. PICK f \in [Places -> Segs] : Attributes(f)
      BY DEF IInv, OutlinesInv, Attributed
    <2> DEFINE g == [u \in A |-> f[u]]
    <2>2. A \subseteq Places
      BY DEF Places
    <2>3. ASSUME NEW u \in A
          PROVE  f[u] \in B
      <3>1. u[1] <= Len(result)
        BY DEF Sides, IInv, LinksInv, Shape
      <3>2. Passed(u) = Side(w)
        BY <3>1 DEF Passed
      <3> QED
        BY <2>1, <2>2, <3>2 DEF Attributes
    <2>4. g \in Injection(A, B)
      <3>1. \A u, v \in A : f[u] = f[v] => u = v
        BY <2>1, <2>2 DEF Attributes
      <3> HIDE DEF A, B
      <3> QED
        BY <2>3, <3>1 DEF Injection, IsInjective
    <2>5. B \in SUBSET Segs
      OBVIOUS
    <2>6. IsFiniteSet(B)
      BY <2>5, SegsAreFinite DEF IInv, LinksInv
    <2>7. Cardinality(A) <= Cardinality(B)
      <3> HIDE DEF A, B, g
      <3> QED
        BY <2>4, <2>6, FS_Injection, Zenon
    <2> QED
      BY <2>7
  <1> QED
    BY <1>1, OutlinesInvariant, PTL

\* The bound on the rounds of the loop in findPolygon never cuts an outline short, and a
\* walk never runs off the end of a chain.
THEOREM WalksAreNeverCut == Spec => []NoWalkIsCut
  <1>1. IInv => NoWalkIsCut
    BY LinksHold DEF IInv
  <1> QED
    BY <1>1, OutlinesInvariant, PTL
=============================================================================
