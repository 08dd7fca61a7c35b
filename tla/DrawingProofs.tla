---------------------------- MODULE DrawingProofs ----------------------------
(***************************************************************************)
(* Proofs about Drawing, for drawings of any size and any chains in them:  *)
(* every edge that was drawn is cut once, with its own bulge.              *)
(*                                                                         *)
(* Edges are counted.  The invariant is a balance: the outlines have each  *)
(* edge as often as the polylines that were read and the lines and arcs    *)
(* that are used, but for those of the chain under way, which are what the *)
(* chain has so far (Balanced and UnderWay).  So a chain that is given up  *)
(* takes nothing with it, one that is closed brings what it used.  What    *)
(* a step does to one polyline is a lemma about Times, how often it has an *)
(* edge: an edge more at the end of a chain (LongerChain), a chain put at  *)
(* the end of a polyline (JoinedTimes), one turned round (TurnedTimes).    *)
(***************************************************************************)
EXTENDS Drawing, FiniteSetTheorems, SequenceTheorems, TLAPS

-----------------------------------------------------------------------------
(* The edges of a polyline. *)

\* Where the edge x is in a polyline, and how often.
Cut(v, x) == {k \in Segments(v) : EdgeAt(v, k) = x}
Times(v, x) == Cardinality(Cut(v, x))
One(p, q, bulge, x) == IF IsSegment(p, q, bulge) /\ Edge(p, q, bulge) = x THEN 1 ELSE 0

LEMMA VertexFacts ==
    ASSUME NEW p \in Point, NEW bulge \in Int
    PROVE  /\ Vertex(p, bulge) \in VertexType
           /\ Vertex(p, bulge).p = p /\ Vertex(p, bulge).bulge = bulge
  BY DEF Vertex, VertexType

LEMMA CutFacts ==
    ASSUME NEW v \in Seq(VertexType), NEW x
    PROVE  /\ IsFiniteSet(Cut(v, x)) /\ Times(v, x) \in Nat
           /\ \A k : k \in Cut(v, x) <=>
                 /\ k \in 1..(Len(v) - 1)
                 /\ IsSegment(v[k].p, v[k + 1].p, v[k].bulge)
                 /\ Edge(v[k].p, v[k + 1].p, v[k].bulge) = x
  <1>1. \A k : k \in Cut(v, x) <=>
           /\ k \in 1..(Len(v) - 1)
           /\ IsSegment(v[k].p, v[k + 1].p, v[k].bulge)
           /\ Edge(v[k].p, v[k + 1].p, v[k].bulge) = x
    BY DEF Cut, Segments, EdgeAt
  <1>2. IsFiniteSet(1..(Len(v) - 1))
    BY FS_Interval
  <1>3. Cut(v, x) \subseteq 1..(Len(v) - 1)
    BY <1>1
  <1> QED
    BY <1>1, <1>2, <1>3, FS_Subset, FS_CardinalityType DEF Times

\* An edge is the same the other way round.
LEMMA OtherWay ==
    ASSUME NEW p, NEW q, NEW bulge \in Int
    PROVE  /\ Edge(q, p, -bulge) = Edge(p, q, bulge)
           /\ IsSegment(q, p, -bulge) <=> IsSegment(p, q, bulge)
           /\ \A x : One(q, p, -bulge, x) = One(p, q, bulge, x)
  <1>1. -(-bulge) = bulge /\ (-bulge # 0 <=> bulge # 0)
    OBVIOUS
  <1>2. Edge(q, p, -bulge) = Edge(p, q, bulge)
    BY <1>1 DEF Edge
  <1>3. IsSegment(q, p, -bulge) <=> IsSegment(p, q, bulge)
    BY <1>1 DEF IsSegment
  <1> QED
    BY <1>2, <1>3 DEF One

LEMMA OneOtherWay ==
    ASSUME NEW p, NEW q, NEW c \in Int, NEW d, d = -c, NEW x
    PROVE  One(q, p, d, x) = One(p, q, c, x)
  BY OtherWay

\* A set with one element more, or not.
LEMMA OneMore ==
    ASSUME NEW S, NEW T, IsFiniteSet(S), NEW k, k \notin S, NEW c \in {0, 1},
           T = IF c = 1 THEN S \cup {k} ELSE S
    PROVE  Cardinality(T) = Cardinality(S) + c
  <1>1. Cardinality(S) \in Nat
    BY FS_CardinalityType
  <1>2. Cardinality(S \cup {k}) = Cardinality(S) + 1
    BY FS_AddElement
  <1> QED
    BY <1>1, <1>2

\* What a chain has when it goes from p to q.
LEMMA LongerChain ==
    ASSUME NEW list \in Seq(VertexType), NEW p \in Point, NEW q \in Point, NEW bulge \in Int, NEW x
    PROVE  Times(Append(Append(list, Vertex(p, bulge)), Vertex(q, 0)), x)
              = Times(Append(list, Vertex(p, 0)), x) + One(p, q, bulge, x)
  <1> DEFINE longer == Append(list, Vertex(p, bulge))
             new == Append(longer, Vertex(q, 0))
             old == Append(list, Vertex(p, 0))
             n == Len(list)
  <1>1. /\ Vertex(p, bulge) \in VertexType /\ Vertex(p, 0) \in VertexType /\ Vertex(q, 0) \in VertexType
        /\ Vertex(p, bulge).p = p /\ Vertex(p, bulge).bulge = bulge
        /\ Vertex(p, 0).p = p /\ Vertex(q, 0).p = q
    BY VertexFacts
  <1>2. /\ n \in Nat /\ longer \in Seq(VertexType) /\ Len(longer) = n + 1
        /\ longer[n + 1] = Vertex(p, bulge) /\ \A k \in 1..n : longer[k] = list[k]
    BY <1>1
  <1>3. /\ new \in Seq(VertexType) /\ Len(new) = n + 2
        /\ new[n + 1] = Vertex(p, bulge) /\ new[n + 2] = Vertex(q, 0)
        /\ \A k \in 1..n : new[k] = list[k]
    BY <1>1, <1>2
  <1>4. /\ old \in Seq(VertexType) /\ Len(old) = n + 1
        /\ old[n + 1] = Vertex(p, 0) /\ \A k \in 1..n : old[k] = list[k]
    BY <1>1
  <1> HIDE DEF longer, new, old, n
  <1>5. \A k \in 1..n : /\ new[k].p = old[k].p /\ new[k].bulge = old[k].bulge
                        /\ new[k + 1].p = old[k + 1].p
    BY <1>1, <1>2, <1>3, <1>4
  <1>6. \A k : k \in Cut(new, x) <=>
           \/ k \in Cut(old, x)
           \/ k = n + 1 /\ One(p, q, bulge, x) = 1
    <2> SUFFICES ASSUME NEW k
                 PROVE  k \in Cut(new, x) <=>
                           \/ k \in Cut(old, x)
                           \/ k = n + 1 /\ One(p, q, bulge, x) = 1
      OBVIOUS
    <2>1. k \in Cut(new, x) <=>
             /\ k \in 1..(n + 1)
             /\ IsSegment(new[k].p, new[k + 1].p, new[k].bulge)
             /\ Edge(new[k].p, new[k + 1].p, new[k].bulge) = x
      <3>1. k \in Cut(new, x) <=>
               /\ k \in 1..(Len(new) - 1)
               /\ IsSegment(new[k].p, new[k + 1].p, new[k].bulge)
               /\ Edge(new[k].p, new[k + 1].p, new[k].bulge) = x
        BY <1>3, CutFacts
      <3>2. Len(new) - 1 = n + 1
        BY <1>2, <1>3
      <3> QED
        BY <3>1, <3>2
    <2>2. k \in Cut(old, x) <=>
             /\ k \in 1..n
             /\ IsSegment(old[k].p, old[k + 1].p, old[k].bulge)
             /\ Edge(old[k].p, old[k + 1].p, old[k].bulge) = x
      <3>1. k \in Cut(old, x) <=>
               /\ k \in 1..(Len(old) - 1)
               /\ IsSegment(old[k].p, old[k + 1].p, old[k].bulge)
               /\ Edge(old[k].p, old[k + 1].p, old[k].bulge) = x
        BY <1>4, CutFacts
      <3>2. Len(old) - 1 = n
        BY <1>2, <1>4
      <3> QED
        BY <3>1, <3>2
    <2>3. CASE k \in 1..n
      BY <1>2, <1>5, <2>1, <2>2, <2>3
    <2>4. CASE k = n + 1
      <3>1. new[k].p = p /\ new[k].bulge = bulge /\ new[k + 1].p = q
        BY <1>1, <1>2, <1>3, <2>4
      <3>2. k \notin 1..n /\ k \in 1..(n + 1)
        BY <1>2, <2>4
      <3> QED
        BY <2>1, <2>2, <2>4, <3>1, <3>2 DEF One
    <2>5. CASE k \notin 1..(n + 1)
      BY <1>2, <2>1, <2>2, <2>5
    <2> QED
      BY <1>2, <2>3, <2>4, <2>5
  <1>7. /\ IsFiniteSet(Cut(old, x)) /\ n + 1 \notin Cut(old, x)
    BY <1>2, <1>4, CutFacts
  <1>8. Cut(new, x) = IF One(p, q, bulge, x) = 1 THEN Cut(old, x) \cup {n + 1} ELSE Cut(old, x)
    BY <1>6
  <1>9. One(p, q, bulge, x) \in {0, 1}
    BY DEF One
  <1> QED
    BY <1>7, <1>8, <1>9, OneMore DEF Times, new, old, longer

\* One vertex has no edge.
LEMMA NoEdge == ASSUME NEW p \in Point, NEW x PROVE Times(Append(<<>>, Vertex(p, 0)), x) = 0
  <1>1. Append(<<>>, Vertex(p, 0)) \in Seq(VertexType) /\ Len(Append(<<>>, Vertex(p, 0))) = 1
    BY VertexFacts
  <1>2. Cut(Append(<<>>, Vertex(p, 0)), x) = {}
    <2>1. Len(Append(<<>>, Vertex(p, 0))) - 1 = 0 /\ 1..0 = {}
      BY <1>1
    <2>2. \A k : k \in Cut(Append(<<>>, Vertex(p, 0)), x) => k \in 1..(Len(Append(<<>>, Vertex(p, 0))) - 1)
      BY <1>1, CutFacts
    <2> QED
      BY <2>1, <2>2
  <1> QED
    BY <1>2, FS_EmptySet DEF Times

\* A chain of one edge.
LEMMA BegunChain ==
    ASSUME NEW p \in Point, NEW q \in Point, NEW bulge \in Int, NEW x
    PROVE  Times(Append(Append(<<>>, Vertex(p, bulge)), Vertex(q, 0)), x) = One(p, q, bulge, x)
  <1>1. <<>> \in Seq(VertexType)
    OBVIOUS
  <1>2. \A list \in Seq(VertexType) :
           Times(Append(Append(list, Vertex(p, bulge)), Vertex(q, 0)), x)
              = Times(Append(list, Vertex(p, 0)), x) + One(p, q, bulge, x)
    BY LongerChain
  <1>3. Times(Append(Append(<<>>, Vertex(p, bulge)), Vertex(q, 0)), x)
           = Times(Append(<<>>, Vertex(p, 0)), x) + One(p, q, bulge, x)
    BY <1>1, <1>2, Zenon
  <1>4. One(p, q, bulge, x) \in Nat
    BY DEF One
  <1>5. Times(Append(<<>>, Vertex(p, 0)), x) = 0
    BY NoEdge
  <1> QED
    BY <1>3, <1>4, <1>5

\* A set that is moved.
LEMMA Shifted ==
    ASSUME NEW S \in SUBSET Int, IsFiniteSet(S), NEW d \in Int
    PROVE  /\ IsFiniteSet({k + d : k \in S})
           /\ Cardinality({k + d : k \in S}) = Cardinality(S)
  <1> DEFINE T == {k + d : k \in S}
             f == [k \in S |-> k + d]
  <1>1. f \in Bijection(S, T)
    BY DEF Bijection, Injection, Surjection, IsInjective
  <1>2. ExistsBijection(S, T)
    BY <1>1 DEF ExistsBijection
  <1> QED
    BY <1>2, FS_Bijection

LEMMA Turned ==
    ASSUME NEW S \in SUBSET Int, IsFiniteSet(S), NEW d \in Int
    PROVE  Cardinality({d - k : k \in S}) = Cardinality(S)
  <1> DEFINE T == {d - k : k \in S}
             f == [k \in S |-> d - k]
  <1>1. f \in Bijection(S, T)
    BY DEF Bijection, Injection, Surjection, IsInjective
  <1>2. ExistsBijection(S, T)
    BY <1>1 DEF ExistsBijection
  <1> QED
    BY <1>2, FS_Bijection

\* A chain is put at the end of a polyline, whose last point is its first one.
Joined(v, list) == [v EXCEPT ![Len(v)].bulge = First(list).bulge] \o Tail(list)

LEMMA JoinedFacts ==
    ASSUME NEW v \in Seq(VertexType), v # <<>>, NEW list \in Seq(VertexType), list # <<>>
    PROVE  /\ Joined(v, list) \in Seq(VertexType) /\ Joined(v, list) # <<>>
           /\ Len(Joined(v, list)) = Len(v) + Len(list) - 1
           /\ \A k \in 1..Len(v) : Joined(v, list)[k].p = v[k].p
           /\ \A k \in 1..(Len(v) - 1) : Joined(v, list)[k] = v[k]
           /\ Joined(v, list)[Len(v)].bulge = list[1].bulge
           /\ \A k \in 2..Len(list) : Joined(v, list)[k + (Len(v) - 1)] = list[k]
  <1> DEFINE w == [v EXCEPT ![Len(v)].bulge = First(list).bulge]
             t == Tail(list)
  <1>1. /\ Len(v) \in Nat \ {0} /\ Len(list) \in Nat \ {0} /\ list[1] \in VertexType
        /\ v[Len(v)] \in VertexType
    BY EmptySeq
  <1>2. [v[Len(v)] EXCEPT !.bulge = First(list).bulge] \in VertexType
    BY <1>1 DEF VertexType, First
  <1>3. /\ w \in Seq(VertexType) /\ Len(w) = Len(v)
        /\ w[Len(v)].p = v[Len(v)].p /\ w[Len(v)].bulge = list[1].bulge
        /\ \A k \in 1..(Len(v) - 1) : w[k] = v[k]
    <2>1. w = [v EXCEPT ![Len(v)] = [v[Len(v)] EXCEPT !.bulge = First(list).bulge]]
      BY <1>1
    <2>2. w \in [1..Len(v) -> VertexType]
      BY <1>1, <1>2, <2>1
    <2>3. w \in Seq(VertexType)
      BY <1>1, <2>2, SeqDef
    <2>4. /\ w[Len(v)] = [v[Len(v)] EXCEPT !.bulge = First(list).bulge]
          /\ \A k \in 1..(Len(v) - 1) : w[k] = v[k]
      BY <1>1, <2>1
    <2>5. Len(w) = Len(v)
      BY <1>1, <2>2, <2>3
    <2> QED
      BY <1>1, <2>3, <2>4, <2>5 DEF VertexType, First
  <1>4. /\ t \in Seq(VertexType) /\ Len(t) = Len(list) - 1
        /\ \A k \in 1..(Len(list) - 1) : t[k] = list[k + 1]
    BY HeadTailProperties
  <1> HIDE DEF w, t
  <1>5. /\ w \o t \in Seq(VertexType) /\ Len(w \o t) = Len(v) + Len(list) - 1
        /\ \A k \in 1..Len(v) : (w \o t)[k] = w[k]
        /\ \A k \in 1..(Len(list) - 1) : (w \o t)[k + Len(v)] = t[k]
    <2>1. /\ w \o t \in Seq(VertexType) /\ Len(w \o t) = Len(w) + Len(t)
          /\ \A k \in 1..(Len(w) + Len(t)) :
                (w \o t)[k] = IF k <= Len(w) THEN w[k] ELSE t[k - Len(w)]
      <3>1. w \in Seq(VertexType) /\ t \in Seq(VertexType)
        BY <1>3, <1>4
      <3> QED
        BY <3>1, ConcatProperties, Zenon
    <2>2. ASSUME NEW k \in 1..Len(v) PROVE (w \o t)[k] = w[k]
      <3>1. k \in 1..(Len(w) + Len(t)) /\ k <= Len(w)
        BY <1>1, <1>3, <1>4
      <3> QED
        BY <2>1, <3>1
    <2>3. ASSUME NEW k \in 1..(Len(list) - 1) PROVE (w \o t)[k + Len(v)] = t[k]
      <3>1. /\ k + Len(v) \in 1..(Len(w) + Len(t)) /\ ~(k + Len(v) <= Len(w))
            /\ (k + Len(v)) - Len(w) = k
        BY <1>1, <1>3, <1>4
      <3> QED
        BY <2>1, <3>1
    <2>4. Len(w) + Len(t) = Len(v) + Len(list) - 1
      BY <1>1, <1>3, <1>4
    <2> QED
      BY <2>1, <2>2, <2>3, <2>4
  <1>6. ASSUME NEW k \in 1..Len(v) PROVE (w \o t)[k].p = v[k].p
    <2>1. k = Len(v) \/ k \in 1..(Len(v) - 1)
      BY <1>1
    <2>2. w[k].p = v[k].p
      BY <1>3, <2>1
    <2> QED
      BY <1>5, <2>2
  <1>7. ASSUME NEW k \in 2..Len(list) PROVE (w \o t)[k + (Len(v) - 1)] = list[k]
    <2>1. /\ k - 1 \in 1..(Len(list) - 1) /\ (k - 1) + Len(v) = k + (Len(v) - 1)
          /\ (k - 1) + 1 = k
      BY <1>1
    <2> QED
      BY <1>4, <1>5, <2>1
  <1>8. Joined(v, list) = w \o t
    BY DEF Joined, w, t
  <1>9. w \o t # <<>>
    BY <1>1, <1>5
  <1> QED
    BY <1>1, <1>3, <1>5, <1>6, <1>7, <1>8, <1>9

LEMMA JoinedTimes ==
    ASSUME NEW v \in Seq(VertexType), v # <<>>, NEW list \in Seq(VertexType), list # <<>>,
           First(list).p = Last(v).p, NEW x
    PROVE  Times(Joined(v, list), x) = Times(v, x) + Times(list, x)
  <1> DEFINE j == Joined(v, list)
             d == Len(v) - 1
             T == {k + d : k \in Cut(list, x)}
  <1>1. Len(v) \in Nat \ {0} /\ Len(list) \in Nat \ {0} /\ d \in Nat
    BY EmptySeq
  <1>2. /\ j \in Seq(VertexType) /\ Len(j) = Len(v) + Len(list) - 1
        /\ \A k \in 1..Len(v) : j[k].p = v[k].p
        /\ \A k \in 1..(Len(v) - 1) : j[k] = v[k]
        /\ j[Len(v)].bulge = list[1].bulge
        /\ \A k \in 2..Len(list) : j[k + d] = list[k]
    BY JoinedFacts
  <1>3. list[1].p = v[Len(v)].p
    BY DEF First, Last
  <1> HIDE DEF j
  <1>4. \A k \in 1..Len(list) : j[k + d].p = list[k].p /\ j[k + d].bulge = list[k].bulge
    <2> SUFFICES ASSUME NEW k \in 1..Len(list)
                 PROVE  j[k + d].p = list[k].p /\ j[k + d].bulge = list[k].bulge
      OBVIOUS
    <2>1. CASE k = 1
      <3>1. k + d = Len(v) /\ Len(v) \in 1..Len(v)
        BY <1>1, <2>1
      <3> QED
        BY <1>2, <1>3, <2>1, <3>1
    <2>2. CASE k # 1
      <3>1. k \in 2..Len(list)
        BY <1>1, <2>2
      <3>2. j[k + d] = list[k]
        BY <1>2, <3>1
      <3> QED
        BY <3>2
    <2> QED
      BY <2>1, <2>2
  <1>5. \A k : k \in Cut(j, x) <=>
           /\ k \in 1..(Len(j) - 1)
           /\ IsSegment(j[k].p, j[k + 1].p, j[k].bulge)
           /\ Edge(j[k].p, j[k + 1].p, j[k].bulge) = x
    BY <1>2, CutFacts
  <1>6. Len(j) - 1 = d + (Len(list) - 1)
    <2>1. Len(j) = Len(v) + Len(list) - 1
      BY <1>2
    <2> QED
      BY <1>1, <2>1
  <1>7. \A k : k \in Cut(v, x) <=>
           /\ k \in 1..d
           /\ IsSegment(v[k].p, v[k + 1].p, v[k].bulge)
           /\ Edge(v[k].p, v[k + 1].p, v[k].bulge) = x
    BY CutFacts
  <1>8. \A k : k \in Cut(list, x) <=>
           /\ k \in 1..(Len(list) - 1)
           /\ IsSegment(list[k].p, list[k + 1].p, list[k].bulge)
           /\ Edge(list[k].p, list[k + 1].p, list[k].bulge) = x
    BY CutFacts
  <1>9. \A k \in 1..d : j[k].p = v[k].p /\ j[k + 1].p = v[k + 1].p /\ j[k].bulge = v[k].bulge
    <2> SUFFICES ASSUME NEW k \in 1..d
                 PROVE  j[k].p = v[k].p /\ j[k + 1].p = v[k + 1].p /\ j[k].bulge = v[k].bulge
      OBVIOUS
    <2>1. k \in 1..(Len(v) - 1) /\ k + 1 \in 1..Len(v)
      BY <1>1
    <2>2. j[k] = v[k] /\ j[k + 1].p = v[k + 1].p
      BY <1>2, <2>1
    <2> QED
      BY <2>2
  <1>10. ASSUME NEW k \in 1..d PROVE k \in Cut(j, x) <=> k \in Cut(v, x)
    <2>1. k \in 1..(Len(j) - 1)
      BY <1>1, <1>6
    <2> QED
      BY <1>5, <1>7, <1>9, <2>1
  <1>11. ASSUME NEW k \in 1..(Len(list) - 1) PROVE k + d \in Cut(j, x) <=> k \in Cut(list, x)
    <2>1. /\ k + d \in 1..(Len(j) - 1) /\ k \in 1..Len(list) /\ k + 1 \in 1..Len(list)
          /\ (k + 1) + d = (k + d) + 1
      BY <1>1, <1>6
    <2>2. j[k + d].p = list[k].p /\ j[k + d].bulge = list[k].bulge
      BY <1>4, <2>1
    <2>3. j[(k + d) + 1].p = list[k + 1].p
      BY <1>4, <2>1
    <2> QED
      BY <1>5, <1>8, <2>1, <2>2, <2>3
  <1> HIDE DEF d
  <1>12. Cut(j, x) = Cut(v, x) \cup T
    <2>1. ASSUME NEW k \in Cut(j, x) PROVE k \in Cut(v, x) \/ k \in T
      <3>1. k \in 1..(d + (Len(list) - 1))
        BY <1>5, <1>6
      <3>2. CASE k <= d
        BY <1>1, <1>10, <3>1, <3>2
      <3>3. CASE k > d
        <4>1. k - d \in 1..(Len(list) - 1) /\ (k - d) + d = k
          BY <1>1, <3>1, <3>3
        <4>2. k - d \in Cut(list, x)
          BY <1>11, <4>1
        <4> QED
          BY <4>1, <4>2
      <3> QED
        BY <1>1, <3>1, <3>2, <3>3
    <2>2. Cut(v, x) \subseteq Cut(j, x)
      BY <1>7, <1>10
    <2>3. T \subseteq Cut(j, x)
      BY <1>8, <1>11
    <2> QED
      BY <2>1, <2>2, <2>3
  <1>13. Cut(v, x) \cap T = {}
    BY <1>1, <1>7, <1>8
  <1>14. /\ IsFiniteSet(Cut(v, x)) /\ IsFiniteSet(Cut(list, x)) /\ Cut(list, x) \subseteq Int
    BY <1>8, CutFacts
  <1>15. IsFiniteSet(T) /\ Cardinality(T) = Cardinality(Cut(list, x))
    <2>1. d \in Int /\ Cut(list, x) \in SUBSET Int
      BY <1>1, <1>14
    <2> HIDE DEF T
    <2> PICK S : S = Cut(list, x)
      OBVIOUS
    <2>2. S \in SUBSET Int /\ IsFiniteSet(S)
      BY <1>14, <2>1
    <2>3. IsFiniteSet({k + d : k \in S}) /\ Cardinality({k + d : k \in S}) = Cardinality(S)
      BY <2>1, <2>2, Shifted
    <2>4. T = {k + d : k \in S}
      BY DEF T
    <2> QED
      BY <2>3, <2>4
  <1> HIDE DEF T
  <1>16. Cardinality(Cut(j, x)) = Cardinality(Cut(v, x)) + Cardinality(T) - Cardinality(Cut(v, x) \cap T)
    BY <1>12, <1>14, <1>15, FS_Union
  <1>17. Cardinality(Cut(v, x)) \in Nat /\ Cardinality(T) \in Nat /\ Cardinality(Cut(v, x) \cap T) = 0
    BY <1>13, <1>14, <1>15, FS_CardinalityType, FS_EmptySet
  <1> QED
    BY <1>15, <1>16, <1>17 DEF Times, j

\* Turned round, a polyline has the same edges.
LEMMA BackwardsTimes ==
    ASSUME NEW v \in Seq(VertexType), v # <<>>, NEW x
    PROVE  /\ Backwards(v) \in Seq(VertexType) /\ Backwards(v) # <<>>
           /\ Times(Backwards(v), x) = Times(v, x)
  <1> DEFINE n == Len(v)
             b == Backwards(v)
  <1>1. n \in Nat \ {0} /\ \A k \in 1..n : v[k] \in VertexType /\ v[k].p \in Point /\ v[k].bulge \in Int
    <2>1. n \in Nat \ {0}
      BY EmptySeq
    <2>2. ASSUME NEW k \in 1..n PROVE v[k] \in VertexType
      BY ElementOfSeq
    <2>3. \A y \in VertexType : y.p \in Point /\ y.bulge \in Int
      BY DEF VertexType
    <2> QED
      BY <2>1, <2>2, <2>3
  <1>2. ASSUME NEW k \in 1..n
        PROVE  /\ b[k] \in VertexType /\ b[k].p = v[n + 1 - k].p
               /\ k < n => b[k].bulge = -v[n - k].bulge
    <2>1. b[k] = Vertex(v[n + 1 - k].p, IF k < n THEN -v[n - k].bulge ELSE -v[n].bulge)
      BY DEF Backwards
    <2>2. n + 1 - k \in 1..n /\ (k < n => n - k \in 1..n) /\ n \in 1..n
      BY <1>1
    <2>3. -v[n].bulge \in Int /\ (k < n => -v[n - k].bulge \in Int) /\ v[n + 1 - k].p \in Point
      BY <1>1, <2>2
    <2> DEFINE c == IF k < n THEN -v[n - k].bulge ELSE -v[n].bulge
               p == v[n + 1 - k].p
    <2>4. c \in Int /\ p \in Point
      BY <2>3
    <2>5. k < n => c = -v[n - k].bulge
      OBVIOUS
    <2>6. b[k] = Vertex(p, c)
      BY <2>1
    <2> HIDE DEF c, p
    <2>7. b[k] \in VertexType /\ b[k].p = p /\ b[k].bulge = c
      BY <2>4, <2>6, VertexFacts
    <2> QED
      BY <2>5, <2>7 DEF p
  <1>3. b \in [1..n -> VertexType]
    BY <1>2 DEF Backwards
  <1>4. b \in Seq(VertexType) /\ Len(b) = n
    BY <1>1, <1>3, SeqDef
  <1> HIDE DEF b, n
  <1>5. \A k : k \in Cut(b, x) <=>
           /\ k \in 1..(n - 1)
           /\ IsSegment(b[k].p, b[k + 1].p, b[k].bulge)
           /\ Edge(b[k].p, b[k + 1].p, b[k].bulge) = x
    BY <1>4, CutFacts
  <1>6. \A k : k \in Cut(v, x) <=>
           /\ k \in 1..(n - 1)
           /\ IsSegment(v[k].p, v[k + 1].p, v[k].bulge)
           /\ Edge(v[k].p, v[k + 1].p, v[k].bulge) = x
    BY CutFacts DEF n
  <1>7. ASSUME NEW k \in 1..(n - 1) PROVE k \in Cut(b, x) <=> n - k \in Cut(v, x)
    <2>1. k \in 1..n /\ k + 1 \in 1..n /\ k < n /\ n - k \in 1..(n - 1) /\ n - k \in 1..n
          /\ n + 1 - k = (n - k) + 1 /\ n + 1 - (k + 1) = n - k
      BY <1>1
    <2>2. b[k].p = v[(n - k) + 1].p /\ b[k].bulge = -v[n - k].bulge
      BY <1>2, <2>1
    <2>3. b[k + 1].p = v[n - k].p
      BY <1>2, <2>1
    <2>4. v[n - k].bulge \in Int
      BY <1>1, <2>1
    <2>5. /\ IsSegment(b[k].p, b[k + 1].p, b[k].bulge)
                <=> IsSegment(v[n - k].p, v[(n - k) + 1].p, v[n - k].bulge)
          /\ Edge(b[k].p, b[k + 1].p, b[k].bulge) = Edge(v[n - k].p, v[(n - k) + 1].p, v[n - k].bulge)
      BY <2>2, <2>3, <2>4, OtherWay
    <2> QED
      BY <1>5, <1>6, <2>1, <2>5
  <1>8. Cut(b, x) = {n - k : k \in Cut(v, x)}
    <2>1. ASSUME NEW k \in Cut(b, x) PROVE k \in {n - l : l \in Cut(v, x)}
      <3>1. k \in 1..(n - 1) /\ n - (n - k) = k
        BY <1>1, <1>5
      <3>2. n - k \in Cut(v, x)
        BY <1>7, <3>1
      <3> QED
        BY <3>1, <3>2
    <2>2. ASSUME NEW k \in Cut(v, x) PROVE n - k \in Cut(b, x)
      <3>1. n - k \in 1..(n - 1) /\ n - (n - k) = k
        BY <1>1, <1>6
      <3> QED
        BY <1>7, <3>1
    <2> QED
      BY <2>1, <2>2
  <1>9. Cut(v, x) \in SUBSET Int /\ IsFiniteSet(Cut(v, x))
    BY <1>6, CutFacts
  <1>10. Cardinality(Cut(b, x)) = Cardinality(Cut(v, x))
    <2> PICK S : S = Cut(v, x)
      OBVIOUS
    <2>1. S \in SUBSET Int /\ IsFiniteSet(S) /\ n \in Int
      BY <1>1, <1>9
    <2>2. Cardinality({n - k : k \in S}) = Cardinality(S)
      BY <2>1, Turned
    <2> QED
      BY <1>8, <2>2
  <1>11. b # <<>>
    BY <1>1, <1>4
  <1> QED
    BY <1>4, <1>10, <1>11 DEF Times, b
-----------------------------------------------------------------------------
(* The edges of all polylines. *)

\* The places of the edge x in a list of polylines, and those outside of one of them.
Places(ps, x) == UNION {{k} \X Cut(ps[k].v, x) : k \in DOMAIN ps}
Elsewhere(ps, j, x) == {q \in Places(ps, x) : q[1] # j}

LEMMA PolylineFacts ==
    ASSUME NEW p \in Polyline
    PROVE  /\ p.v \in Seq(VertexType) /\ p.v # <<>> /\ p.flags \in {0, 1}
           /\ First(p.v) \in VertexType /\ First(p.v).p \in Point
           /\ Last(p.v) \in VertexType /\ Last(p.v).p \in Point
  <1>1. p.v \in Seq(VertexType) /\ p.v # <<>> /\ p.flags \in {0, 1}
    BY DEF Polyline
  <1>2. Len(p.v) \in Nat \ {0}
    BY <1>1, EmptySeq
  <1>3. 1 \in 1..Len(p.v) /\ Len(p.v) \in 1..Len(p.v)
    BY <1>2
  <1>4. p.v[1] \in VertexType /\ p.v[Len(p.v)] \in VertexType
    BY <1>1, <1>3, ElementOfSeq
  <1>5. \A y \in VertexType : y.p \in Point
    BY DEF VertexType
  <1> QED
    BY <1>1, <1>4, <1>5 DEF First, Last

LEMMA PlacesFacts ==
    ASSUME NEW ps, \A k \in DOMAIN ps : ps[k].v \in Seq(VertexType), IsFiniteSet(DOMAIN ps), NEW x
    PROVE  /\ \A q : q \in Places(ps, x) <=>
                 \E k \in DOMAIN ps : \E n \in Cut(ps[k].v, x) : q = <<k, n>>
           /\ IsFiniteSet(Places(ps, x)) /\ Cardinality(Places(ps, x)) \in Nat
           /\ Occurs(ps, x) = Cardinality(Places(ps, x))
  <1> DEFINE F == {{k} \X Cut(ps[k].v, x) : k \in DOMAIN ps}
             f == [k \in DOMAIN ps |-> {k} \X Cut(ps[k].v, x)]
  <1>1. IsFiniteSet(F)
    <2>1. f \in Surjection(DOMAIN ps, F)
      BY DEF Surjection
    <2> QED
      BY <2>1, FS_Surjection
  <1>2. \A T \in F : IsFiniteSet(T)
    <2>1. ASSUME NEW k \in DOMAIN ps PROVE IsFiniteSet({k} \X Cut(ps[k].v, x))
      <3>1. IsFiniteSet({k}) /\ IsFiniteSet(Cut(ps[k].v, x))
        BY FS_Singleton, CutFacts
      <3> QED
        BY <3>1, FS_Product
    <2> QED
      BY <2>1
  <1>3. IsFiniteSet(Places(ps, x))
    BY <1>1, <1>2, FS_UNION DEF Places
  <1>4. \A q : q \in Places(ps, x) <=>
           \E k \in DOMAIN ps : \E n \in Cut(ps[k].v, x) : q = <<k, n>>
    BY DEF Places
  <1>5. Occurs(ps, x) = Cardinality(Places(ps, x))
    BY DEF Occurs, Places, Cut
  <1> QED
    BY <1>3, <1>4, <1>5, FS_CardinalityType

\* The places in one polyline are as many as it has the edge, whatever else there is.
LEMMA OccursSplit ==
    ASSUME NEW ps, \A k \in DOMAIN ps : ps[k].v \in Seq(VertexType), IsFiniteSet(DOMAIN ps),
           NEW j \in DOMAIN ps, NEW x
    PROVE  /\ IsFiniteSet(Elsewhere(ps, j, x)) /\ Cardinality(Elsewhere(ps, j, x)) \in Nat
           /\ Occurs(ps, x) = Cardinality(Elsewhere(ps, j, x)) + Times(ps[j].v, x)
  <1> DEFINE E == Elsewhere(ps, j, x)
             C == Cut(ps[j].v, x)
             H == {j} \X C
  <1>1. IsFiniteSet(Places(ps, x)) /\ Occurs(ps, x) = Cardinality(Places(ps, x))
    BY PlacesFacts
  <1>2. IsFiniteSet(E) /\ Cardinality(E) \in Nat
    <2>1. E \in SUBSET Places(ps, x)
      BY DEF Elsewhere
    <2>2. IsFiniteSet(E)
      BY <1>1, <2>1, FS_Subset
    <2> QED
      BY <2>2, FS_CardinalityType
  <1>3. IsFiniteSet(C) /\ Cardinality(C) \in Nat /\ Cardinality(C) = Times(ps[j].v, x)
    BY CutFacts DEF Times
  <1>4. IsFiniteSet(H) /\ Cardinality(H) = Cardinality(C)
    <2>1. IsFiniteSet({j}) /\ Cardinality({j}) = 1
      BY FS_Singleton
    <2>2. IsFiniteSet(H) /\ Cardinality(H) = Cardinality({j}) * Cardinality(C)
      BY <1>3, <2>1, FS_Product
    <2> QED
      BY <1>3, <2>1, <2>2
  <1>5. Places(ps, x) = E \cup H /\ E \cap H = {}
    <2>1. \A q : q \in Places(ps, x) <=>
             \E k \in DOMAIN ps : \E n \in Cut(ps[k].v, x) : q = <<k, n>>
      BY PlacesFacts
    <2>2. \A q : q \in E <=> q \in Places(ps, x) /\ q[1] # j
      BY DEF Elsewhere
    <2>3. \A q : q \in H <=> \E n \in C : q = <<j, n>>
      OBVIOUS
    <2>4. ASSUME NEW q \in Places(ps, x), q[1] = j PROVE q \in H
      <3>1. PICK k \in DOMAIN ps : \E n \in Cut(ps[k].v, x) : q = <<k, n>>
        BY <2>1
      <3>2. PICK n \in Cut(ps[k].v, x) : q = <<k, n>>
        BY <3>1
      <3>3. k = j
        BY <2>4, <3>2
      <3> QED
        BY <2>3, <3>2, <3>3
    <2>5. ASSUME NEW q \in H PROVE q \in Places(ps, x) /\ q[1] = j
      <3>1. PICK n \in C : q = <<j, n>>
        BY <2>3
      <3> QED
        BY <2>1, <3>1
    <2> HIDE DEF E, H, C
    <2> QED
      BY <2>2, <2>4, <2>5
  <1> HIDE DEF E, H, C
  <1>6. Cardinality(E \cup H) = Cardinality(E) + Cardinality(H) - Cardinality(E \cap H)
    BY <1>2, <1>4, FS_Union
  <1>7. Cardinality(E \cap H) = 0
    BY <1>5, FS_EmptySet
  <1>8. Occurs(ps, x) = Cardinality(E) + Cardinality(C)
    BY <1>1, <1>2, <1>3, <1>4, <1>5, <1>6, <1>7
  <1> QED
    BY <1>2, <1>3, <1>8 DEF E
LEMMA SeqOfPolylines ==
    ASSUME NEW ps \in Seq(Polyline)
    PROVE  /\ Len(ps) \in Nat /\ DOMAIN ps = 1..Len(ps) /\ IsFiniteSet(DOMAIN ps)
           /\ \A k \in DOMAIN ps : /\ ps[k] \in Polyline /\ ps[k].v \in Seq(VertexType)
                                   /\ ps[k].v # <<>> /\ ps[k].flags \in {0, 1}
  <1>1. Len(ps) \in Nat /\ DOMAIN ps = 1..Len(ps)
    OBVIOUS
  <1>2. IsFiniteSet(1..Len(ps))
    BY <1>1, FS_Interval
  <1>3. \A k \in DOMAIN ps : ps[k] \in Polyline
    BY <1>1, ElementOfSeq
  <1> QED
    BY <1>1, <1>2, <1>3, PolylineFacts

\* One polyline in the place of another one.
LEMMA OccursReplaced ==
    ASSUME NEW ps \in Seq(Polyline), NEW qs \in Seq(Polyline), DOMAIN qs = DOMAIN ps,
           NEW j \in DOMAIN ps, \A k \in DOMAIN ps : k # j => qs[k].v = ps[k].v, NEW x
    PROVE  Occurs(qs, x) + Times(ps[j].v, x) = Occurs(ps, x) + Times(qs[j].v, x)
  <1>1. /\ IsFiniteSet(DOMAIN ps) /\ \A k \in DOMAIN ps : ps[k].v \in Seq(VertexType)
        /\ IsFiniteSet(DOMAIN qs) /\ \A k \in DOMAIN qs : qs[k].v \in Seq(VertexType)
    BY SeqOfPolylines
  <1>2. /\ \A q : q \in Places(ps, x) <=> \E k \in DOMAIN ps : \E n \in Cut(ps[k].v, x) : q = <<k, n>>
        /\ \A q : q \in Places(qs, x) <=> \E k \in DOMAIN qs : \E n \in Cut(qs[k].v, x) : q = <<k, n>>
    BY <1>1, PlacesFacts
  <1>3. Elsewhere(qs, j, x) = Elsewhere(ps, j, x)
    <2>1. ASSUME NEW q PROVE q \in Elsewhere(qs, j, x) <=> q \in Elsewhere(ps, j, x)
      <3>1. ASSUME NEW k \in DOMAIN ps, NEW n, q = <<k, n>>, k # j
            PROVE  n \in Cut(qs[k].v, x) <=> n \in Cut(ps[k].v, x)
        BY <3>1
      <3>2. ASSUME q \in Elsewhere(qs, j, x) PROVE q \in Elsewhere(ps, j, x)
        <4>1. PICK k \in DOMAIN qs : \E n \in Cut(qs[k].v, x) : q = <<k, n>>
          BY <1>2, <3>2 DEF Elsewhere
        <4>2. PICK n \in Cut(qs[k].v, x) : q = <<k, n>>
          BY <4>1
        <4>3. k \in DOMAIN ps /\ k # j /\ q[1] # j
          BY <3>2, <4>2 DEF Elsewhere
        <4>4. n \in Cut(ps[k].v, x)
          BY <3>1, <4>2, <4>3
        <4> QED
          BY <1>2, <4>2, <4>3, <4>4 DEF Elsewhere
      <3>3. ASSUME q \in Elsewhere(ps, j, x) PROVE q \in Elsewhere(qs, j, x)
        <4>1. PICK k \in DOMAIN ps : \E n \in Cut(ps[k].v, x) : q = <<k, n>>
          BY <1>2, <3>3 DEF Elsewhere
        <4>2. PICK n \in Cut(ps[k].v, x) : q = <<k, n>>
          BY <4>1
        <4>3. k \in DOMAIN qs /\ k # j /\ q[1] # j
          BY <3>3, <4>2 DEF Elsewhere
        <4>4. n \in Cut(qs[k].v, x)
          BY <3>1, <4>2, <4>3
        <4> QED
          BY <1>2, <4>2, <4>3, <4>4 DEF Elsewhere
      <3> QED
        BY <3>2, <3>3
    <2> QED
      BY <2>1
  <1>4. /\ Occurs(ps, x) = Cardinality(Elsewhere(ps, j, x)) + Times(ps[j].v, x)
        /\ Cardinality(Elsewhere(ps, j, x)) \in Nat
    BY <1>1, OccursSplit
  <1>5. Occurs(qs, x) = Cardinality(Elsewhere(qs, j, x)) + Times(qs[j].v, x)
    BY <1>1, OccursSplit
  <1>6. Times(ps[j].v, x) \in Nat /\ Times(qs[j].v, x) \in Nat
    BY <1>1, CutFacts
  <1> QED
    BY <1>3, <1>4, <1>5, <1>6

\* One polyline more.
LEMMA OccursAppended ==
    ASSUME NEW ps \in Seq(Polyline), NEW p \in Polyline, NEW x
    PROVE  Occurs(Append(ps, p), x) = Occurs(ps, x) + Times(p.v, x)
  <1> DEFINE qs == Append(ps, p)
             j == Len(ps) + 1
  <1>1. /\ qs \in Seq(Polyline) /\ Len(ps) \in Nat /\ DOMAIN qs = 1..j /\ DOMAIN ps = 1..Len(ps)
        /\ qs[j] = p /\ \A k \in 1..Len(ps) : qs[k] = ps[k]
    OBVIOUS
  <1>2. j \in DOMAIN qs /\ \A k \in DOMAIN qs : k # j <=> k \in DOMAIN ps
    BY <1>1
  <1> HIDE DEF qs, j
  <1>3. /\ IsFiniteSet(DOMAIN ps) /\ \A k \in DOMAIN ps : ps[k].v \in Seq(VertexType)
        /\ IsFiniteSet(DOMAIN qs) /\ \A k \in DOMAIN qs : qs[k].v \in Seq(VertexType)
    BY <1>1, SeqOfPolylines
  <1>4. /\ \A q : q \in Places(ps, x) <=> \E k \in DOMAIN ps : \E n \in Cut(ps[k].v, x) : q = <<k, n>>
        /\ Occurs(ps, x) = Cardinality(Places(ps, x))
    BY <1>3, PlacesFacts
  <1>5. \A q : q \in Places(qs, x) <=> \E k \in DOMAIN qs : \E n \in Cut(qs[k].v, x) : q = <<k, n>>
    BY <1>3, PlacesFacts
  <1>6. Elsewhere(qs, j, x) = Places(ps, x)
    <2>1. ASSUME NEW q \in Elsewhere(qs, j, x) PROVE q \in Places(ps, x)
      <3>1. PICK k \in DOMAIN qs : \E n \in Cut(qs[k].v, x) : q = <<k, n>>
        BY <1>5 DEF Elsewhere
      <3>2. PICK n \in Cut(qs[k].v, x) : q = <<k, n>>
        BY <3>1
      <3>3. k # j /\ k \in DOMAIN ps
        BY <1>2, <3>2 DEF Elsewhere
      <3>4. qs[k] = ps[k]
        BY <1>1, <3>3
      <3> QED
        BY <1>4, <3>2, <3>3, <3>4
    <2>2. ASSUME NEW q \in Places(ps, x) PROVE q \in Elsewhere(qs, j, x)
      <3>1. PICK k \in DOMAIN ps : \E n \in Cut(ps[k].v, x) : q = <<k, n>>
        BY <1>4
      <3>2. PICK n \in Cut(ps[k].v, x) : q = <<k, n>>
        BY <3>1
      <3>3. qs[k] = ps[k] /\ k # j /\ k \in DOMAIN qs
        <4>1. k \in 1..Len(ps) /\ k \in 1..j
          BY <1>1 DEF j
        <4> QED
          BY <1>1, <1>2, <4>1
      <3>4. q[1] # j /\ n \in Cut(qs[k].v, x)
        BY <3>2, <3>3
      <3> QED
        BY <1>5, <3>2, <3>3, <3>4 DEF Elsewhere
    <2> QED
      BY <2>1, <2>2
  <1>7. Occurs(qs, x) = Cardinality(Elsewhere(qs, j, x)) + Times(qs[j].v, x)
    BY <1>2, <1>3, OccursSplit
  <1> QED
    BY <1>1, <1>4, <1>6, <1>7 DEF qs

\* Every polyline has the edge as often as its counterpart.
LEMMA OccursAlike ==
    ASSUME NEW ps \in Seq(Polyline), NEW qs \in Seq(Polyline), DOMAIN qs = DOMAIN ps, NEW x,
           \A k \in DOMAIN ps : Times(qs[k].v, x) = Times(ps[k].v, x)
    PROVE  Occurs(qs, x) = Occurs(ps, x)
  <1>1. /\ IsFiniteSet(DOMAIN ps) /\ \A k \in DOMAIN ps : ps[k].v \in Seq(VertexType)
        /\ IsFiniteSet(DOMAIN qs) /\ \A k \in DOMAIN qs : qs[k].v \in Seq(VertexType)
    BY SeqOfPolylines
  <1>2. /\ \A q : q \in Places(ps, x) <=> \E k \in DOMAIN ps : \E n \in Cut(ps[k].v, x) : q = <<k, n>>
        /\ IsFiniteSet(Places(ps, x)) /\ Occurs(ps, x) = Cardinality(Places(ps, x))
    BY <1>1, PlacesFacts
  <1>3. /\ \A q : q \in Places(qs, x) <=> \E k \in DOMAIN qs : \E n \in Cut(qs[k].v, x) : q = <<k, n>>
        /\ Occurs(qs, x) = Cardinality(Places(qs, x))
    BY <1>1, PlacesFacts
  <1> DEFINE P(k) == Cut(ps[k].v, x)
             Q(k) == Cut(qs[k].v, x)
             f == [k \in DOMAIN ps |-> CHOOSE g : g \in Bijection(P(k), Q(k))]
             h == [q \in Places(ps, x) |-> <<q[1], f[q[1]][q[2]]>>]
  <1>4. ASSUME NEW k \in DOMAIN ps PROVE f[k] \in Bijection(P(k), Q(k))
    <2>1. IsFiniteSet(P(k)) /\ IsFiniteSet(Q(k))
      BY <1>1, CutFacts
    <2>2. Cardinality(P(k)) = Cardinality(Q(k))
      BY DEF Times
    <2>3. ExistsBijection(P(k), Q(k))
      BY <2>1, <2>2, FS_SameCardinalityBij
    <2>4. \E g : g \in Bijection(P(k), Q(k))
      BY <2>3 DEF ExistsBijection
    <2> QED
      BY <2>4, Zenon
  <1> HIDE DEF f, P, Q
  <1>5. /\ \A q : q \in Places(ps, x) <=> \E k \in DOMAIN ps : \E n \in P(k) : q = <<k, n>>
        /\ \A q : q \in Places(qs, x) <=> \E k \in DOMAIN ps : \E n \in Q(k) : q = <<k, n>>
    BY <1>2, <1>3 DEF P, Q
  <1>6. ASSUME NEW k \in DOMAIN ps
        PROVE  /\ \A n \in P(k) : f[k][n] \in Q(k)
               /\ \A n, l \in P(k) : f[k][n] = f[k][l] => n = l
               /\ \A o \in Q(k) : \E n \in P(k) : f[k][n] = o
    BY <1>4 DEF Bijection, Injection, Surjection, IsInjective
  <1>7. ASSUME NEW k \in DOMAIN ps, NEW n \in P(k)
        PROVE  <<k, n>> \in Places(ps, x) /\ h[<<k, n>>] = <<k, f[k][n]>>
    BY <1>5
  <1> HIDE DEF h
  <1>8. h \in Bijection(Places(ps, x), Places(qs, x))
    <2>1. ASSUME NEW q \in Places(ps, x) PROVE h[q] \in Places(qs, x)
      <3>1. PICK k \in DOMAIN ps : \E n \in P(k) : q = <<k, n>>
        BY <1>5
      <3>2. PICK n \in P(k) : q = <<k, n>>
        BY <3>1
      <3> QED
        BY <1>5, <1>6, <1>7, <3>2
    <2>2. ASSUME NEW q \in Places(ps, x), NEW r \in Places(ps, x), h[q] = h[r] PROVE q = r
      <3>1. PICK k \in DOMAIN ps : \E n \in P(k) : q = <<k, n>>
        BY <1>5
      <3>2. PICK n \in P(k) : q = <<k, n>>
        BY <3>1
      <3>3. PICK l \in DOMAIN ps : \E o \in P(l) : r = <<l, o>>
        BY <1>5
      <3>4. PICK o \in P(l) : r = <<l, o>>
        BY <3>3
      <3>5. h[q] = <<k, f[k][n]>> /\ h[r] = <<l, f[l][o]>>
        BY <1>7, <3>2, <3>4
      <3>6. k = l /\ f[k][n] = f[k][o]
        <4>1. <<k, f[k][n]>> = <<l, f[l][o]>>
          BY <2>2, <3>5
        <4>2. k = l /\ f[k][n] = f[l][o]
          BY <4>1
        <4> QED
          BY <4>2
      <3>7. n = o
        BY <1>6, <3>2, <3>4, <3>6
      <3> QED
        BY <3>2, <3>4, <3>6, <3>7
    <2>3. ASSUME NEW r \in Places(qs, x) PROVE \E q \in Places(ps, x) : h[q] = r
      <3>1. PICK k \in DOMAIN ps : \E o \in Q(k) : r = <<k, o>>
        BY <1>5
      <3>2. PICK o \in Q(k) : r = <<k, o>>
        BY <3>1
      <3>3. PICK n \in P(k) : f[k][n] = o
        BY <1>6, <3>2
      <3> QED
        BY <1>7, <3>2, <3>3
    <2>4. h = [q \in Places(ps, x) |-> h[q]]
      BY DEF h
    <2> QED
      BY <2>1, <2>2, <2>3, <2>4 DEF Bijection, Injection, Surjection, IsInjective
  <1>9. Cardinality(Places(qs, x)) = Cardinality(Places(ps, x))
    BY <1>2, <1>8, FS_Bijection DEF ExistsBijection
  <1> QED
    BY <1>2, <1>3, <1>9

-----------------------------------------------------------------------------
(* The lines and arcs that are used. *)

LEMMA EntityFacts ==
    ASSUME NEW list \in Seq(EntityType)
    PROVE  /\ Len(list) \in Nat /\ DOMAIN list = 1..Len(list) /\ IsFiniteSet(DOMAIN list)
           /\ \A k \in DOMAIN list :
                 /\ list[k] \in EntityType /\ list[k].s \in Point /\ list[k].e \in Point
                 /\ list[k].bulge \in Int /\ list[k].flag \in {0, 1}
  <1>1. Len(list) \in Nat /\ DOMAIN list = 1..Len(list)
    OBVIOUS
  <1>2. IsFiniteSet(1..Len(list))
    BY <1>1, FS_Interval
  <1>3. \A k \in DOMAIN list : list[k] \in EntityType
    BY <1>1, ElementOfSeq
  <1>4. \A e \in EntityType : e.s \in Point /\ e.e \in Point /\ e.bulge \in Int /\ e.flag \in {0, 1}
    BY DEF EntityType
  <1> QED
    BY <1>1, <1>2, <1>3, <1>4

LEMMA UsedFacts ==
    ASSUME NEW list \in Seq(EntityType), NEW x
    PROVE  Used(list, x) \in Nat
  <1>1. {k \in UsedOf(list) : EdgeOf(list[k]) = x} \in SUBSET DOMAIN list
    BY DEF UsedOf
  <1>2. IsFiniteSet(DOMAIN list)
    BY EntityFacts
  <1>3. IsFiniteSet({k \in UsedOf(list) : EdgeOf(list[k]) = x})
    BY <1>1, <1>2, FS_Subset
  <1> QED
    BY <1>3, FS_CardinalityType DEF Used

\* A line or an arc is flagged.
LEMMA OneIsUsed ==
    ASSUME NEW list \in Seq(EntityType), NEW k \in DOMAIN list, list[k].flag = 0, NEW x
    PROVE  /\ [list EXCEPT ![k].flag = 1] \in Seq(EntityType)
           /\ Used([list EXCEPT ![k].flag = 1], x)
                 = Used(list, x) + One(list[k].s, list[k].e, list[k].bulge, x)
  <1> DEFINE l == [list EXCEPT ![k].flag = 1]
             new == [list[k] EXCEPT !.flag = 1]
             U(t) == {j \in UsedOf(t) : EdgeOf(t[j]) = x}
             one == One(list[k].s, list[k].e, list[k].bulge, x)
  <1>1. DOMAIN list = 1..Len(list) /\ Len(list) \in Nat /\ IsFiniteSet(DOMAIN list) /\ list[k] \in EntityType
    BY EntityFacts
  <1>2. /\ new \in EntityType /\ new.s = list[k].s /\ new.e = list[k].e
        /\ new.bulge = list[k].bulge /\ new.flag = 1
    BY <1>1 DEF EntityType
  <1> HIDE DEF new
  <1>3. l = [list EXCEPT ![k] = new]
    BY DEF new
  <1>4. /\ l \in Seq(EntityType) /\ DOMAIN l = DOMAIN list /\ l[k] = new
        /\ \A j \in DOMAIN list : j # k => l[j] = list[j]
    BY <1>1, <1>2, <1>3
  <1> HIDE DEF l
  <1>5. \A t, j : j \in U(t) <=> /\ j \in DOMAIN t /\ t[j].flag = 1
                                 /\ IsSegment(t[j].s, t[j].e, t[j].bulge)
                                 /\ Edge(t[j].s, t[j].e, t[j].bulge) = x
    BY DEF UsedOf, EdgeOf
  <1>6. one \in {0, 1} /\ (one = 1 <=> /\ IsSegment(list[k].s, list[k].e, list[k].bulge)
                                       /\ Edge(list[k].s, list[k].e, list[k].bulge) = x)
    BY DEF One
  <1>7. /\ \A t : Used(t, x) = Cardinality(U(t))
    BY DEF Used
  <1> HIDE DEF U, one
  <1>8. k \notin U(list) /\ (k \in U(l) <=> one = 1)
    BY <1>2, <1>4, <1>5, <1>6
  <1>9. \A j : j # k => (j \in U(l) <=> j \in U(list))
    BY <1>4, <1>5
  <1>10. U(l) = IF one = 1 THEN U(list) \cup {k} ELSE U(list)
    <2>1. CASE one = 1
      BY <1>8, <1>9, <2>1
    <2>2. CASE one # 1
      <3>1. \A j : j \in U(l) <=> j \in U(list)
        BY <1>8, <1>9, <2>2
      <3>2. U(l) = U(list)
        BY <3>1
      <3> QED
        BY <2>2, <3>2
    <2> QED
      BY <2>1, <2>2
  <1>11. IsFiniteSet(U(list))
    <2>1. U(list) \in SUBSET DOMAIN list
      BY <1>5
    <2> QED
      BY <1>1, <2>1, FS_Subset
  <1>12. Cardinality(U(l)) = Cardinality(U(list)) + one
    <2> PICK S, T : S = U(list) /\ T = U(l)
      OBVIOUS
    <2>1. IsFiniteSet(S) /\ k \notin S /\ T = IF one = 1 THEN S \cup {k} ELSE S
      BY <1>8, <1>10, <1>11
    <2>2. Cardinality(T) = Cardinality(S) + one
      BY <1>6, <2>1, OneMore
    <2> QED
      BY <2>2
  <1> QED
    BY <1>4, <1>7, <1>12 DEF l, one

LEMMA NoneIsUsed ==
    ASSUME NEW list, NEW x
    PROVE  Used(Unflagged(list), x) = 0
  <1>1. {k \in UsedOf(Unflagged(list)) : EdgeOf(Unflagged(list)[k]) = x} = {}
    BY DEF UsedOf, Unflagged
  <1> QED
    BY <1>1, FS_EmptySet DEF Used
-----------------------------------------------------------------------------
(* The direction of the outlines. *)

LEMMA ThreeTimes ==
    ASSUME NEW v \in Seq(VertexType), Len(v) = 3, NEW x
    PROVE  Times(v, x) = One(v[1].p, v[2].p, v[1].bulge, x) + One(v[2].p, v[3].p, v[2].bulge, x)
  <1> DEFINE one == One(v[1].p, v[2].p, v[1].bulge, x)
             two == One(v[2].p, v[3].p, v[2].bulge, x)
             S == IF one = 1 THEN {} \cup {1} ELSE {}
             T == IF two = 1 THEN S \cup {2} ELSE S
  <1>1. /\ one \in {0, 1} /\ two \in {0, 1}
        /\ one = 1 <=> IsSegment(v[1].p, v[2].p, v[1].bulge) /\ Edge(v[1].p, v[2].p, v[1].bulge) = x
        /\ two = 1 <=> IsSegment(v[2].p, v[3].p, v[2].bulge) /\ Edge(v[2].p, v[3].p, v[2].bulge) = x
    BY DEF One
  <1> HIDE DEF one, two
  <1>2. \A k : k \in Cut(v, x) <=>
           /\ k \in 1..2
           /\ IsSegment(v[k].p, v[k + 1].p, v[k].bulge)
           /\ Edge(v[k].p, v[k + 1].p, v[k].bulge) = x
    <2>1. Len(v) - 1 = 2
      OBVIOUS
    <2> QED
      BY <2>1, CutFacts
  <1>3. 1 \in Cut(v, x) <=> one = 1
    <2>1. 1 \in 1..2 /\ 1 + 1 = 2
      OBVIOUS
    <2> QED
      BY <1>1, <1>2, <2>1
  <1>4. 2 \in Cut(v, x) <=> two = 1
    <2>1. 2 \in 1..2 /\ 2 + 1 = 3
      OBVIOUS
    <2> QED
      BY <1>1, <1>2, <2>1
  <1>5. Cut(v, x) \subseteq {1, 2}
    <2>1. \A k \in 1..2 : k \in {1, 2}
      OBVIOUS
    <2> QED
      BY <1>2, <2>1
  <1>6. Cut(v, x) = T
    BY <1>3, <1>4, <1>5
  <1>7. IsFiniteSet(S) /\ Cardinality(S) = one
    <2>1. Cardinality(S) = Cardinality({}) + one
      BY <1>1, FS_EmptySet, OneMore
    <2>2. Cardinality(S) = one
      BY <1>1, <2>1, FS_EmptySet
    <2>3. S = {} \/ S = {1}
      OBVIOUS
    <2>4. IsFiniteSet({}) /\ IsFiniteSet({1})
      BY FS_EmptySet, FS_Singleton
    <2> QED
      BY <2>2, <2>3, <2>4
  <1>8. 2 \notin S
    OBVIOUS
  <1> HIDE DEF S
  <1>9. Cardinality(T) = Cardinality(S) + two
    BY <1>1, <1>7, <1>8, OneMore
  <1> QED
    BY <1>6, <1>7, <1>9 DEF Times, one, two

\* One bulge is set.
Bent(v, k, c) == [v EXCEPT ![k].bulge = c]

LEMMA BentFacts ==
    ASSUME NEW v \in Seq(VertexType), NEW k \in 1..Len(v), NEW c \in Int
    PROVE  /\ Bent(v, k, c) \in Seq(VertexType) /\ Len(Bent(v, k, c)) = Len(v)
           /\ Bent(v, k, c)[k].p = v[k].p /\ Bent(v, k, c)[k].bulge = c
           /\ \A j \in 1..Len(v) : j # k => Bent(v, k, c)[j] = v[j]
  <1> DEFINE y == [v[k] EXCEPT !.bulge = c]
             w == Bent(v, k, c)
  <1>1. v[k] \in VertexType
    BY ElementOfSeq
  <1>2. y \in VertexType /\ y.p = v[k].p /\ y.bulge = c
    BY <1>1 DEF VertexType
  <1>3. w = [v EXCEPT ![k] = y]
    BY DEF Bent
  <1> HIDE DEF y, w
  <1>4. /\ w \in Seq(VertexType) /\ Len(w) = Len(v)
        /\ \A j \in 1..Len(v) : w[j] = IF j = k THEN y ELSE v[j]
    BY <1>2, <1>3, ExceptSeq
  <1> QED
    BY <1>2, <1>4 DEF w

\* Two bulges are set, in whatever order.
Set(v, c, d, t) ==
    /\ t \in Seq(VertexType) /\ Len(t) = 3
    /\ t[1].p = v[1].p /\ t[1].bulge = c
    /\ t[2].p = v[2].p /\ t[2].bulge = d
    /\ t[3] = v[3]

LEMMA BentTwice ==
    ASSUME NEW v \in Seq(VertexType), Len(v) = 3, NEW c \in Int, NEW d \in Int
    PROVE  Set(v, c, d, Bent(Bent(v, 2, d), 1, c)) /\ Set(v, c, d, Bent(Bent(v, 1, c), 2, d))
  <1>1. /\ 1 \in 1..3 /\ 2 \in 1..3 /\ 3 \in 1..3
    OBVIOUS
  <1>2. ASSUME NEW u \in Seq(VertexType), Len(u) = 3, NEW k \in {1, 2}, NEW e \in Int
        PROVE  /\ Bent(u, k, e) \in Seq(VertexType) /\ Len(Bent(u, k, e)) = 3
               /\ Bent(u, k, e)[k].p = u[k].p /\ Bent(u, k, e)[k].bulge = e
               /\ Bent(u, k, e)[3 - k] = u[3 - k] /\ Bent(u, k, e)[3] = u[3]
    <2>1. k \in 1..Len(u) /\ 3 - k \in 1..Len(u) /\ 3 \in 1..Len(u) /\ 3 - k # k /\ 3 # k
      BY <1>2
    <2> PICK o : o = 3 - k
      OBVIOUS
    <2>2. o \in 1..Len(u) /\ o # k
      BY <2>1
    <2>3. /\ Bent(u, k, e) \in Seq(VertexType) /\ Len(Bent(u, k, e)) = Len(u)
          /\ Bent(u, k, e)[k].p = u[k].p /\ Bent(u, k, e)[k].bulge = e
          /\ \A j \in 1..Len(u) : j # k => Bent(u, k, e)[j] = u[j]
      BY <1>2, <2>1, BentFacts
    <2>4. Bent(u, k, e)[o] = u[o] /\ Bent(u, k, e)[3] = u[3]
      BY <2>1, <2>2, <2>3
    <2>5. o = 3 - k
      OBVIOUS
    <2> QED
      BY <1>2, <2>3, <2>4, <2>5
  <1>3. 3 - 1 = 2 /\ 3 - 2 = 1
    OBVIOUS
  <1>4. Set(v, c, d, Bent(Bent(v, 2, d), 1, c))
    <2> PICK w : w = Bent(v, 2, d)
      OBVIOUS
    <2>1. /\ w \in Seq(VertexType) /\ Len(w) = 3 /\ w[2].p = v[2].p /\ w[2].bulge = d
          /\ w[3 - 2] = v[3 - 2] /\ w[3] = v[3]
      BY <1>2
    <2> PICK t : t = Bent(w, 1, c)
      OBVIOUS
    <2>2. /\ t \in Seq(VertexType) /\ Len(t) = 3 /\ t[1].p = w[1].p /\ t[1].bulge = c
          /\ t[3 - 1] = w[3 - 1] /\ t[3] = w[3]
      BY <1>2, <2>1
    <2>3. Set(v, c, d, t)
      BY <1>3, <2>1, <2>2 DEF Set
    <2> QED
      BY <2>3
  <1>5. Set(v, c, d, Bent(Bent(v, 1, c), 2, d))
    <2> PICK w : w = Bent(v, 1, c)
      OBVIOUS
    <2>1. /\ w \in Seq(VertexType) /\ Len(w) = 3 /\ w[1].p = v[1].p /\ w[1].bulge = c
          /\ w[3 - 1] = v[3 - 1] /\ w[3] = v[3]
      BY <1>2
    <2> PICK t : t = Bent(w, 2, d)
      OBVIOUS
    <2>2. /\ t \in Seq(VertexType) /\ Len(t) = 3 /\ t[2].p = w[2].p /\ t[2].bulge = d
          /\ t[3 - 2] = w[3 - 2] /\ t[3] = w[3]
      BY <1>2, <2>1
    <2>3. Set(v, c, d, t)
      BY <1>3, <2>1, <2>2 DEF Set
    <2> QED
      BY <2>3
  <1> QED
    BY <1>4, <1>5

\* Turned counterclockwise, an outline has the same edges, but for what TwoEdges spoils.
LEMMA TurnedTimes ==
    ASSUME NEW v \in Seq(VertexType), v # <<>>, NEW x
    PROVE  /\ TransformCCW(v) \in Seq(VertexType) /\ TransformCCW(v) # <<>>
           /\ ~Spoils(v) => Times(TransformCCW(v), x) = Times(v, x)
  <1>1. CASE Len(v) # 3
    <2>1. TransformCCW(v) \in {v, Backwards(v)}
      BY <1>1 DEF TransformCCW
    <2> QED
      BY <2>1, BackwardsTimes
  <1>2. CASE Len(v) = 3
    <2> DEFINE t == TwoEdges(v)
               a == v[1].bulge
               b == v[2].bulge
    <2>1. TransformCCW(v) = t
      BY <1>2 DEF TransformCCW
    <2>2. v[1] \in VertexType /\ v[2] \in VertexType /\ v[3] \in VertexType
      <3>1. 1 \in 1..Len(v) /\ 2 \in 1..Len(v) /\ 3 \in 1..Len(v)
        BY <1>2
      <3> QED
        BY <3>1, ElementOfSeq
    <2>3. a \in Int /\ b \in Int
      BY <2>2 DEF VertexType
    <2>4. 0 \in Int /\ -a \in Int /\ -b \in Int
      BY <2>3
    <2>5. a > 0 \/ b > 0 \/ (a = 0 /\ b = 0) => t = v
      BY <2>3 DEF TwoEdges
    <2>6. a < 0 /\ b <= 0 => Set(v, 0, -a, t)
      <3> SUFFICES ASSUME a < 0, b <= 0 PROVE Set(v, 0, -a, t)
        OBVIOUS
      <3>1. ~(a > 0 \/ b > 0)
        BY <2>3
      <3>2. t = [v EXCEPT ![2].bulge = -a, ![1].bulge = 0]
        BY <3>1 DEF TwoEdges
      <3>3. t = Bent(Bent(v, 2, -a), 1, 0)
        BY <3>2 DEF Bent
      <3> QED
        BY <1>2, <2>4, <3>3, BentTwice
    <2>7. a = 0 /\ b < 0 => Set(v, -b, 0, t)
      <3> SUFFICES ASSUME a = 0, b < 0 PROVE Set(v, -b, 0, t)
        OBVIOUS
      <3>1. ~(a > 0 \/ b > 0) /\ ~(a < 0)
        BY <2>3
      <3>2. t = [v EXCEPT ![1].bulge = -b, ![2].bulge = 0]
        BY <3>1 DEF TwoEdges
      <3>3. t = Bent(Bent(v, 1, -b), 2, 0)
        BY <3>2 DEF Bent
      <3> QED
        BY <1>2, <2>4, <3>3, BentTwice
    <2>8. \/ a > 0 \/ b > 0 \/ (a = 0 /\ b = 0)
          \/ a < 0 /\ b <= 0
          \/ a = 0 /\ b < 0
      BY <2>3
    <2> HIDE DEF t
    <2>9. t \in Seq(VertexType) /\ t # <<>> /\ Len(t) = 3
      <3>1. t \in Seq(VertexType) /\ Len(t) = 3
        BY <1>2, <2>5, <2>6, <2>7, <2>8 DEF Set
      <3>2. t = <<>> => Len(t) = 0
        BY EmptySeq
      <3> QED
        BY <3>1, <3>2
    <2>10. ASSUME ~Spoils(v) PROVE Times(t, x) = Times(v, x)
      <3>1. Times(v, x) = One(v[1].p, v[2].p, a, x) + One(v[2].p, v[3].p, b, x)
        BY <1>2, ThreeTimes
      <3>2. Times(t, x) = One(t[1].p, t[2].p, t[1].bulge, x) + One(t[2].p, t[3].p, t[2].bulge, x)
        BY <2>9, ThreeTimes
      <3>3. \A p, q, c : One(p, q, c, x) \in {0, 1}
        BY DEF One
      <3>4. One(v[2].p, v[1].p, 0, x) = One(v[1].p, v[2].p, 0, x)
        <4> PICK z \in Int : z = 0 /\ -z = 0
          OBVIOUS
        <4>1. One(v[2].p, v[1].p, -z, x) = One(v[1].p, v[2].p, z, x)
          BY OtherWay
        <4> QED
          BY <4>1
      <3>5. CASE a > 0 \/ b > 0 \/ (a = 0 /\ b = 0)
        BY <2>5, <3>5
      <3>6. CASE a < 0 /\ b <= 0
        <4>1. v[1].p = v[3].p /\ b = 0
          BY <1>2, <2>3, <2>10, <3>6 DEF Spoils
        <4>2. /\ t[1].p = v[1].p /\ t[1].bulge = 0 /\ t[2].p = v[2].p /\ t[2].bulge = -a
              /\ t[3] = v[3]
          BY <2>6, <3>6 DEF Set
        <4>3. One(v[2].p, v[1].p, -a, x) = One(v[1].p, v[2].p, a, x)
          BY <2>3, OneOtherWay
        <4>4. Times(t, x) = One(v[1].p, v[2].p, 0, x) + One(v[2].p, v[1].p, -a, x)
          BY <3>2, <4>1, <4>2
        <4>5. Times(v, x) = One(v[1].p, v[2].p, a, x) + One(v[2].p, v[1].p, 0, x)
          BY <3>1, <4>1
        <4> QED
          BY <3>3, <3>4, <4>3, <4>4, <4>5
      <3>7. CASE a = 0 /\ b < 0
        <4>1. v[1].p = v[3].p
          BY <1>2, <2>3, <2>10, <3>7 DEF Spoils
        <4>2. /\ t[1].p = v[1].p /\ t[1].bulge = -b /\ t[2].p = v[2].p /\ t[2].bulge = 0
              /\ t[3] = v[3]
          BY <2>7, <3>7 DEF Set
        <4>3. One(v[1].p, v[2].p, -b, x) = One(v[2].p, v[1].p, b, x)
          BY <2>3, OneOtherWay
        <4>4. Times(t, x) = One(v[1].p, v[2].p, -b, x) + One(v[2].p, v[1].p, 0, x)
          BY <3>2, <4>1, <4>2
        <4>5. Times(v, x) = One(v[1].p, v[2].p, 0, x) + One(v[2].p, v[1].p, b, x)
          BY <3>1, <3>7, <4>1
        <4> QED
          BY <3>3, <3>4, <4>3, <4>4, <4>5
      <3> QED
        BY <2>8, <3>5, <3>6, <3>7
    <2> QED
      BY <2>1, <2>9, <2>10
  <1> QED
    BY <1>1, <1>2
-----------------------------------------------------------------------------
(* The polylines with the last edge of those that are closed. *)

AllWhole(ps) == [k \in DOMAIN ps |-> Whole(ps[k])]

LEMMA WholeFacts ==
    ASSUME NEW p \in Polyline
    PROVE  /\ Whole(p) \in Polyline
           /\ First(p.v).p = Last(p.v).p => Whole(p) = p
           /\ Marked(p) \in Polyline /\ Marked(p).v = Whole(p).v
  <1> DEFINE v == p.v
             longer == Append(v, First(v))
             flags == IF First(v).p[1] = Last(v).p[1] \/ First(v).p[2] = Last(v).p[2] THEN 1 ELSE p.flags
  <1>1. v \in Seq(VertexType) /\ v # <<>> /\ p.flags \in {0, 1} /\ First(v) \in VertexType
    BY PolylineFacts
  <1> HIDE DEF v
  <1>2. longer \in Seq(VertexType) /\ Len(longer) = Len(v) + 1 /\ Len(v) \in Nat
    BY <1>1
  <1>3. longer # <<>>
    BY <1>2, EmptySeq
  <1> HIDE DEF longer
  <1>4. flags \in {0, 1}
    BY <1>1
  <1> HIDE DEF flags
  <1>5. Whole(p) = IF p.flags = 1 /\ First(v).p # Last(v).p THEN [p EXCEPT !.v = longer] ELSE p
    BY DEF Whole, v, longer
  <1>6. [p EXCEPT !.v = longer] \in Polyline /\ [p EXCEPT !.v = longer].v = longer
    BY <1>2, <1>3 DEF Polyline
  <1>7. Whole(p) \in Polyline
    BY <1>5, <1>6
  <1>8. Marked(p) = [flags |-> flags,
                     v |-> IF p.flags = 1 /\ First(v).p # Last(v).p THEN longer ELSE v]
    BY DEF Marked, v, longer, flags
  <1>9. Marked(p) \in Polyline
    BY <1>1, <1>2, <1>3, <1>4, <1>8 DEF Polyline
  <1>10. Marked(p).v = Whole(p).v
    BY <1>5, <1>6, <1>8 DEF v
  <1> QED
    BY <1>5, <1>7, <1>9, <1>10 DEF v

LEMMA AllWholeFacts ==
    ASSUME NEW ps \in Seq(Polyline)
    PROVE  /\ AllWhole(ps) \in Seq(Polyline) /\ DOMAIN AllWhole(ps) = DOMAIN ps
           /\ \A k \in DOMAIN ps : AllWhole(ps)[k] = Whole(ps[k])
  <1>1. Len(ps) \in Nat /\ DOMAIN ps = 1..Len(ps) /\ \A k \in DOMAIN ps : ps[k] \in Polyline
    BY SeqOfPolylines
  <1>2. \A k \in DOMAIN ps : Whole(ps[k]) \in Polyline
    BY <1>1, WholeFacts
  <1>3. AllWhole(ps) \in Seq(Polyline)
    <2>1. AllWhole(ps) = [k \in 1..Len(ps) |-> Whole(ps[k])]
      BY <1>1 DEF AllWhole
    <2> QED
      BY <1>1, <1>2, <2>1, SeqDef
  <1> QED
    BY <1>3 DEF AllWhole

\* A polyline whose ends meet comes to the others.
LEMMA AllWholeAppended ==
    ASSUME NEW ps \in Seq(Polyline), NEW p \in Polyline, First(p.v).p = Last(p.v).p
    PROVE  AllWhole(Append(ps, p)) = Append(AllWhole(ps), p)
  <1> DEFINE n == Len(ps)
             qs == Append(ps, p)
             w == AllWhole(ps)
             rs == Append(w, p)
  <1>1. n \in Nat /\ DOMAIN ps = 1..n
    BY SeqOfPolylines
  <1>2. /\ w \in Seq(Polyline) /\ DOMAIN w = 1..n
        /\ \A k \in 1..n : w[k] = Whole(ps[k])
    BY <1>1, AllWholeFacts
  <1>3. Len(w) = n
    BY <1>1, <1>2, SeqOfPolylines
  <1>4. qs \in Seq(Polyline) /\ DOMAIN qs = 1..(n + 1) /\ qs[n + 1] = p /\ \A k \in 1..n : qs[k] = ps[k]
    BY <1>1
  <1> HIDE DEF w
  <1>5. rs \in Seq(Polyline) /\ DOMAIN rs = 1..(n + 1) /\ rs[n + 1] = p /\ \A k \in 1..n : rs[k] = w[k]
    BY <1>1, <1>2, <1>3
  <1>6. Whole(p) = p
    BY WholeFacts
  <1> HIDE DEF qs, rs
  <1>7. \A k \in 1..(n + 1) : Whole(qs[k]) = rs[k]
    <2> SUFFICES ASSUME NEW k \in 1..(n + 1) PROVE Whole(qs[k]) = rs[k]
      OBVIOUS
    <2>1. k \in 1..n \/ k = n + 1
      BY <1>1
    <2> QED
      BY <1>2, <1>4, <1>5, <1>6, <2>1
  <1>8. AllWhole(qs) = [k \in 1..(n + 1) |-> rs[k]]
    BY <1>4, <1>7 DEF AllWhole
  <1>9. rs = [k \in DOMAIN rs |-> rs[k]]
    BY <1>5
  <1> QED
    BY <1>5, <1>8, <1>9 DEF qs, rs, w

-----------------------------------------------------------------------------
(* The inductive invariant. *)

\* What the list of lines and arcs has been used for, but for the chain under way.
Settled(x) == IF list_recover = NULL THEN Used(line_data, x) + Used(arc_data, x)
              ELSE Used(list_recover.lines, x) + Used(list_recover.arcs, x)

\* The polylines with the last edge that Mark gives them.
Plain == IF pass \in {"lines", "arcs", "mark"}
         THEN AllWhole(polyline_data) ELSE polyline_data

\* The chain with the point that it has come to.
Chain == IF hadClosed THEN list_vertex ELSE Append(list_vertex, Vertex(linkPoint, 0))

Types ==
    /\ given \in Drawings
    /\ line_data \in Seq(EntityType) /\ arc_data \in Seq(EntityType)
    /\ polyline_data \in Seq(Polyline)
    /\ pass \in {"lines", "arcs", "mark", "polylines", "turn", "done"}
    /\ i \in Nat \ {0} /\ list_vertex \in Seq(VertexType) /\ hadClosed \in BOOLEAN
    /\ list_recover \in Entities \cup {NULL}
    /\ list_recover = NULL => list_vertex = <<>>

UnderWay ==
    /\ pass \in {"lines", "arcs", "polylines"}
    /\ startPoint \in Point /\ linkPoint \in Point
    /\ IF pass = "polylines"
       THEN /\ i \in DOMAIN polyline_data
            /\ (IF list_vertex = <<>> THEN linkPoint ELSE First(list_vertex).p) = Last(polyline_data[i].v).p
       ELSE list_vertex # <<>> /\ First(list_vertex).p = startPoint
    /\ hadClosed => list_vertex # <<>> /\ Last(list_vertex).p = startPoint
    /\ \A x : Used(line_data, x) + Used(arc_data, x) = Settled(x) + Times(Chain, x)

Balanced == \A x : Occurs(Plain, x) = Occurs(Drawn, x) + Settled(x)

DrawingInv ==
    /\ Types
    /\ list_recover # NULL => UnderWay
    /\ pass # "done" \/ ~spoilt => Balanced

\* A set of naturals that is not empty has a least member.
LEMMA LeastNat ==
    ASSUME NEW S \in SUBSET Nat, S # {}
    PROVE  \E n \in S : \A m \in S : n <= m
  <1>1. PICK n \in S : \A m \in S : ~(<<m, n>> \in OpToRel(<, Nat))
    BY NatLessThanWellFounded, WFMin, Zenon
  <1>2. \A m \in S : m \in Nat /\ ~(m < n)
    BY <1>1 DEF OpToRel
  <1>3. \A m \in S : n <= m
    BY <1>2
  <1> QED
    BY <1>3

LEMMA LeastFacts ==
    ASSUME NEW K \in SUBSET Nat, Least(K) # 0
    PROVE  Least(K) \in K
  <1>1. K # {}
    BY DEF Least
  <1>2. \E k \in K : \A j \in K : k <= j
    BY <1>1, LeastNat
  <1>3. (CHOOSE k \in K : \A j \in K : k <= j) \in K
    BY <1>2, Zenon
  <1> QED
    BY <1>1, <1>3 DEF Least

LEMMA TodoFacts ==
    ASSUME Types, Todo # 0
    PROVE  /\ Todo \in Nat \ {0}
           /\ pass = "lines" => Todo \in DOMAIN line_data /\ line_data[Todo].flag = 0
           /\ pass = "arcs" => Todo \in DOMAIN arc_data /\ arc_data[Todo].flag = 0
           /\ pass = "polylines" => Todo \in DOMAIN polyline_data
           /\ pass \in {"lines", "arcs", "polylines"}
  <1>1. /\ DOMAIN line_data = 1..Len(line_data) /\ Len(line_data) \in Nat
        /\ DOMAIN arc_data = 1..Len(arc_data) /\ Len(arc_data) \in Nat
        /\ DOMAIN polyline_data = 1..Len(polyline_data) /\ Len(polyline_data) \in Nat
        /\ i \in Nat \ {0}
    BY DEF Types
  <1>2. CASE pass = "lines"
    <2> DEFINE K == {k \in i..Len(line_data) : line_data[k].flag = 0}
    <2>1. Todo = Least(K)
      BY <1>2 DEF Todo
    <2>2. K \in SUBSET Nat
      BY <1>1
    <2>3. Todo \in K
      BY <2>1, <2>2, LeastFacts
    <2> QED
      BY <1>1, <1>2, <2>3
  <1>3. CASE pass = "arcs"
    <2> DEFINE K == {k \in i..Len(arc_data) : arc_data[k].flag = 0}
    <2>1. Todo = Least(K)
      BY <1>3 DEF Todo
    <2>2. K \in SUBSET Nat
      BY <1>1
    <2>3. Todo \in K
      BY <2>1, <2>2, LeastFacts
    <2> QED
      BY <1>1, <1>3, <2>3
  <1>4. CASE pass = "polylines"
    <2> DEFINE K == {k \in i..Len(polyline_data) : polyline_data[k].flags = 0}
    <2>1. Todo = Least(K)
      BY <1>4 DEF Todo
    <2>2. K \in SUBSET Nat
      BY <1>1
    <2>3. Todo \in K
      BY <2>1, <2>2, LeastFacts
    <2> QED
      BY <1>1, <1>4, <2>3
  <1>5. CASE pass \notin {"lines", "arcs", "polylines"}
    <2>1. Todo = Least({})
      BY <1>5 DEF Todo
    <2> QED
      BY <2>1 DEF Least
  <1> QED
    BY <1>2, <1>3, <1>4, <1>5

LEMMA FoundFacts ==
    ASSUME NEW list \in Seq(EntityType), Found(list) # 0
    PROVE  /\ Found(list) \in DOMAIN list /\ list[Found(list)].flag = 0
           /\ linkPoint = list[Found(list)].s \/ linkPoint = list[Found(list)].e
  <1> DEFINE K == {k \in DOMAIN list : list[k].flag = 0 /\ linkPoint \in {list[k].s, list[k].e}}
  <1>1. Found(list) = Least(K)
    BY DEF Found
  <1>2. K \in SUBSET Nat
    BY EntityFacts
  <1>3. Found(list) \in K
    BY <1>1, <1>2, LeastFacts
  <1> QED
    BY <1>3

\* An edge more at the end of the chain.
LEMMA FollowKeeps ==
    ASSUME DrawingInv, list_recover # NULL, ~hadClosed,
           NEW e \in EntityType, linkPoint = e.s \/ linkPoint = e.e, Follow(e)
    PROVE  /\ list_vertex' \in Seq(VertexType) /\ list_vertex' # <<>> /\ hadClosed' \in BOOLEAN
           /\ linkPoint' \in Point
           /\ First(list_vertex').p = (IF list_vertex = <<>> THEN linkPoint ELSE First(list_vertex).p)
           /\ hadClosed' => Last(list_vertex').p = startPoint
           /\ \A x : Times(Chain', x) = Times(Chain, x) + One(e.s, e.e, e.bulge, x)
  <1> DEFINE to == IF linkPoint = e.s THEN e.e ELSE e.s
             here == Vertex(linkPoint, Bulge(e))
             longer == Append(list_vertex, here)
             all == Append(longer, Vertex(to, 0))
  <1>1. list_vertex \in Seq(VertexType) /\ linkPoint \in Point
    BY DEF DrawingInv, Types, UnderWay
  <1>2. e.s \in Point /\ e.e \in Point /\ e.bulge \in Int
    BY DEF EntityType
  <1>3. to \in Point /\ Bulge(e) \in Int
    BY <1>2 DEF Bulge
  <1>4. /\ linkPoint' = to /\ hadClosed' = (to = startPoint)
        /\ list_vertex' = IF to = startPoint THEN all ELSE longer
    BY DEF Follow
  <1>5. /\ here \in VertexType /\ here.p = linkPoint
        /\ Vertex(to, 0) \in VertexType /\ Vertex(to, 0).p = to
    BY <1>1, <1>3, VertexFacts
  <1>6. \A x : One(linkPoint, to, Bulge(e), x) = One(e.s, e.e, e.bulge, x)
    <2>1. CASE linkPoint = e.s
      BY <2>1 DEF Bulge
    <2>2. CASE linkPoint # e.s
      <3>1. linkPoint = e.e /\ to = e.s /\ Bulge(e) = -e.bulge
        BY <2>2 DEF Bulge
      <3> QED
        BY <1>2, <3>1, OtherWay
    <2> QED
      BY <2>1, <2>2
  <1>7. \A x : Times(all, x) = Times(Append(list_vertex, Vertex(linkPoint, 0)), x) + One(e.s, e.e, e.bulge, x)
    <2> SUFFICES ASSUME NEW x
                 PROVE  Times(all, x) = Times(Append(list_vertex, Vertex(linkPoint, 0)), x) + One(e.s, e.e, e.bulge, x)
      OBVIOUS
    <2> PICK q, b : q = to /\ b = Bulge(e)
      OBVIOUS
    <2>1. Times(Append(Append(list_vertex, Vertex(linkPoint, b)), Vertex(q, 0)), x)
             = Times(Append(list_vertex, Vertex(linkPoint, 0)), x) + One(linkPoint, q, b, x)
      BY <1>1, <1>3, LongerChain
    <2>2. all = Append(Append(list_vertex, Vertex(linkPoint, b)), Vertex(q, 0))
      OBVIOUS
    <2> HIDE DEF all
    <2> QED
      BY <1>6, <2>1, <2>2
  <1>8. Chain = Append(list_vertex, Vertex(linkPoint, 0))
    BY DEF Chain
  <1>9. Chain' = all
    BY <1>4 DEF Chain
  <1>10. /\ longer \in Seq(VertexType) /\ longer # <<>> /\ all \in Seq(VertexType) /\ all # <<>>
         /\ all[Len(all)] = Vertex(to, 0)
         /\ longer[1] = (IF list_vertex = <<>> THEN here ELSE list_vertex[1]) /\ all[1] = longer[1]
    <2> HIDE DEF here
    <2> PICK last : last = Vertex(to, 0)
      OBVIOUS
    <2>1. /\ longer \in Seq(VertexType) /\ Len(longer) = Len(list_vertex) + 1 /\ Len(list_vertex) \in Nat
          /\ longer[Len(list_vertex) + 1] = here
          /\ \A k \in 1..Len(list_vertex) : longer[k] = list_vertex[k]
      BY <1>1, <1>5
    <2>2. longer[1] = IF list_vertex = <<>> THEN here ELSE list_vertex[1]
      <3>1. CASE list_vertex = <<>>
        <4>1. Len(list_vertex) = 0
          BY <3>1
        <4> QED
          BY <2>1, <3>1, <4>1
      <3>2. CASE list_vertex # <<>>
        <4>1. 1 \in 1..Len(list_vertex)
          BY <1>1, <2>1, <3>2, EmptySeq
        <4> QED
          BY <2>1, <3>2, <4>1
      <3> QED
        BY <3>1, <3>2
    <2> HIDE DEF longer
    <2>3. /\ all \in Seq(VertexType) /\ Len(all) = Len(longer) + 1 /\ Len(longer) \in Nat
          /\ all[Len(longer) + 1] = Vertex(to, 0)
          /\ \A k \in 1..Len(longer) : all[k] = longer[k]
      BY <1>5, <2>1
    <2>4. 1 \in 1..Len(longer)
      BY <2>1
    <2>5. longer # <<>> /\ all # <<>>
      BY <2>1, <2>3, EmptySeq
    <2> QED
      BY <2>1, <2>2, <2>3, <2>4, <2>5
  <1> HIDE DEF longer, all, here, to
  <1>11. First(list_vertex').p = (IF list_vertex = <<>> THEN linkPoint ELSE First(list_vertex).p)
    BY <1>4, <1>5, <1>10 DEF First
  <1>12. hadClosed' => Last(list_vertex').p = startPoint
    BY <1>4, <1>5, <1>10 DEF Last
  <1> QED
    BY <1>3, <1>4, <1>7, <1>8, <1>9, <1>10, <1>11, <1>12

LEMMA OccursNat == ASSUME NEW ps \in Seq(Polyline), NEW x PROVE Occurs(ps, x) \in Nat
  <1>1. /\ \A k \in DOMAIN ps : ps[k].v \in Seq(VertexType)
        /\ IsFiniteSet(DOMAIN ps)
    BY SeqOfPolylines
  <1> QED
    BY <1>1, PlacesFacts

LEMMA SettledNat == ASSUME Types, NEW x PROVE Settled(x) \in Nat
  <1>1. CASE list_recover = NULL
    <2>1. Used(line_data, x) \in Nat /\ Used(arc_data, x) \in Nat
      BY UsedFacts DEF Types
    <2> QED
      BY <1>1, <2>1 DEF Settled
  <1>2. CASE list_recover # NULL
    <2> PICK l, a : l = list_recover.lines /\ a = list_recover.arcs
      OBVIOUS
    <2>1. l \in Seq(EntityType) /\ a \in Seq(EntityType)
      BY <1>2 DEF Types, Entities
    <2>2. Used(l, x) \in Nat /\ Used(a, x) \in Nat
      BY <2>1, UsedFacts
    <2> QED
      BY <1>2, <2>2 DEF Settled
  <1> QED
    BY <1>1, <1>2

LEMMA ChainNat ==
    ASSUME Types, list_recover # NULL => UnderWay, list_recover # NULL, NEW x
    PROVE  Times(Chain, x) \in Nat
  <1>1. list_vertex \in Seq(VertexType) /\ linkPoint \in Point
    BY DEF Types, UnderWay
  <1>2. Vertex(linkPoint, 0) \in VertexType
    BY <1>1, VertexFacts
  <1>3. Chain \in Seq(VertexType)
    BY <1>1, <1>2 DEF Chain
  <1> QED
    BY <1>3, CutFacts

\* The lines and arcs that a chain may be given back are those that it was begun with.
LEMMA RecoverFacts ==
    ASSUME Types, list_recover # NULL
    PROVE  list_recover.lines \in Seq(EntityType) /\ list_recover.arcs \in Seq(EntityType)
  BY DEF Types, Entities

LEMMA DrawnNat == ASSUME Types, NEW x PROVE Occurs(Drawn, x) \in Nat
  <1>1. given.polylines \in Seq(Polyline)
    BY DrawingsAssumption DEF Types
  <1>2. AllWhole(given.polylines) \in Seq(Polyline)
    BY <1>1, AllWholeFacts
  <1>3. Drawn \in Seq(Polyline)
    BY <1>2 DEF AllWhole, Drawn
  <1> QED
    BY <1>3, OccursNat

\* A line is used, or an arc.
Flagged(list, k) == [list EXCEPT ![k].flag = 1]

LEMMA LineIsUsed ==
    ASSUME NEW list \in Seq(EntityType), NEW other \in Seq(EntityType),
           NEW k \in DOMAIN list, list[k].flag = 0, NEW x
    PROVE  /\ Flagged(list, k) \in Seq(EntityType)
           /\ Used(Flagged(list, k), x) + Used(other, x)
                 = Used(list, x) + Used(other, x) + One(list[k].s, list[k].e, list[k].bulge, x)
           /\ Used(other, x) + Used(Flagged(list, k), x)
                 = Used(other, x) + Used(list, x) + One(list[k].s, list[k].e, list[k].bulge, x)
  <1>1. /\ Flagged(list, k) \in Seq(EntityType)
        /\ Used(Flagged(list, k), x) = Used(list, x) + One(list[k].s, list[k].e, list[k].bulge, x)
    BY OneIsUsed DEF Flagged
  <1>2. Used(list, x) \in Nat /\ Used(other, x) \in Nat
    BY UsedFacts
  <1>3. One(list[k].s, list[k].e, list[k].bulge, x) \in Nat
    BY DEF One
  <1> QED
    BY <1>1, <1>2, <1>3

-----------------------------------------------------------------------------
(* Init, and one lemma for each action. *)

LEMMA InitInv == Init => DrawingInv
  <1> SUFFICES ASSUME Init PROVE DrawingInv
    OBVIOUS
  <1>1. /\ line_data \in Seq(EntityType) /\ arc_data \in Seq(EntityType)
        /\ polyline_data \in Seq(Polyline) /\ list_vertex \in Seq(VertexType)
    BY DrawingsAssumption DEF Init
  <1>2. Types
    <2>1. /\ given \in Drawings /\ pass = "lines" /\ i = 1 /\ list_vertex = <<>>
          /\ hadClosed = FALSE /\ list_recover = NULL
      BY DEF Init
    <2>2. i \in Nat \ {0}
      BY <2>1
    <2>3. pass \in {"lines", "arcs", "mark", "polylines", "turn", "done"}
      BY <2>1
    <2>4. hadClosed \in BOOLEAN
      BY <2>1
    <2>5. list_recover \in Entities \cup {NULL}
      BY <2>1
    <2> QED
      BY <1>1, <2>1, <2>2, <2>3, <2>4, <2>5 DEF Types
  <1>3. Balanced
    <2> SUFFICES ASSUME NEW x PROVE Occurs(Plain, x) = Occurs(Drawn, x) + Settled(x)
      BY DEF Balanced
    <2>1. Plain = Drawn
      BY DEF Init, Plain, AllWhole, Drawn
    <2>2. Used(line_data, x) = 0 /\ Used(arc_data, x) = 0
      BY NoneIsUsed DEF Init
    <2>3. Settled(x) = 0
      BY <2>2 DEF Init, Settled
    <2>4. Occurs(Drawn, x) \in Nat
      BY <1>2, DrawnNat
    <2> QED
      BY <2>1, <2>3, <2>4
  <1> QED
    BY <1>2, <1>3 DEF DrawingInv, Init

\* A chain begins: with a line or an arc,
LEMMA StartInv ==
    ASSUME DrawingInv, list_recover = NULL, pass \in {"lines", "arcs"}, NEW e \in EntityType,
           list_vertex' = <<Vertex(e.s, e.bulge)>>, startPoint' = e.s, linkPoint' = e.e,
           hadClosed' = FALSE, Recover, i' \in Nat \ {0},
           UNCHANGED <<given, polyline_data, pass, spoilt>>,
           line_data' \in Seq(EntityType), arc_data' \in Seq(EntityType),
           \A x : Used(line_data', x) + Used(arc_data', x)
                     = Used(line_data, x) + Used(arc_data, x) + One(e.s, e.e, e.bulge, x)
    PROVE  DrawingInv'
  <1> DEFINE first == Vertex(e.s, e.bulge)
  <1>1. e.s \in Point /\ e.e \in Point /\ e.bulge \in Int
    BY DEF EntityType
  <1>2. first \in VertexType /\ first.p = e.s
    BY <1>1, VertexFacts
  <1> HIDE DEF first
  <1>3. list_vertex' = <<first>>
    BY DEF first
  <1>4. /\ list_vertex' \in Seq(VertexType) /\ list_vertex' # <<>> /\ First(list_vertex') = first
        /\ list_vertex' = Append(<<>>, first)
    BY <1>2, <1>3 DEF First
  <1>5. list_recover' \in Entities /\ list_recover'.lines = line_data /\ list_recover'.arcs = arc_data
    BY DEF Recover, DrawingInv, Types, Entities
  <1>6. list_recover' # NULL
    BY <1>5, NullAssumption
  <1>7. Types'
    BY <1>4, <1>5, <1>6 DEF DrawingInv, Types
  <1>8. \A x : Settled(x)' = Settled(x) /\ Settled(x) = Used(line_data, x) + Used(arc_data, x)
    BY <1>5, <1>6 DEF Settled
  <1>9. \A x : Times(Chain', x) = One(e.s, e.e, e.bulge, x)
    <2> SUFFICES ASSUME NEW x PROVE Times(Chain', x) = One(e.s, e.e, e.bulge, x)
      OBVIOUS
    <2> PICK p, q, b : p = e.s /\ q = e.e /\ b = e.bulge
      OBVIOUS
    <2>1. Chain' = Append(Append(<<>>, Vertex(p, b)), Vertex(q, 0))
      BY <1>4 DEF Chain, first
    <2>2. p \in Point /\ q \in Point /\ b \in Int
      BY <1>1
    <2>3. Times(Append(Append(<<>>, Vertex(p, b)), Vertex(q, 0)), x) = One(p, q, b, x)
      BY <2>2, BegunChain
    <2> QED
      BY <2>1, <2>3
  <1>10. UnderWay'
    BY <1>1, <1>2, <1>4, <1>8, <1>9 DEF UnderWay
  <1>11. Plain' = Plain /\ Drawn' = Drawn
    BY DEF Plain, Drawn
  <1>12. Balanced => Balanced'
    BY <1>8, <1>11 DEF Balanced
  <1> QED
    BY <1>7, <1>10, <1>12 DEF DrawingInv

\* or at the end of an open polyline.
LEMMA StartAtPolyline ==
    ASSUME DrawingInv, list_recover = NULL, pass = "polylines", i' \in DOMAIN polyline_data,
           startPoint' = First(polyline_data[i'].v).p, linkPoint' = Last(polyline_data[i'].v).p,
           hadClosed' = FALSE, Recover,
           UNCHANGED <<given, line_data, arc_data, polyline_data, pass, list_vertex, spoilt>>
    PROVE  DrawingInv'
  <1>1. polyline_data \in Seq(Polyline) /\ list_vertex = <<>>
    BY DEF DrawingInv, Types
  <1>2. i' \in Nat \ {0} /\ polyline_data[i'] \in Polyline
    BY <1>1, SeqOfPolylines
  <1>3. startPoint' \in Point /\ linkPoint' \in Point
    BY <1>2, PolylineFacts
  <1>4. list_recover' \in Entities /\ list_recover'.lines = line_data /\ list_recover'.arcs = arc_data
    BY DEF Recover, DrawingInv, Types, Entities
  <1>5. list_recover' # NULL
    BY <1>4, NullAssumption
  <1>6. Types'
    BY <1>2, <1>4, <1>5 DEF DrawingInv, Types
  <1>7. \A x : Settled(x)' = Settled(x) /\ Settled(x) = Used(line_data, x) + Used(arc_data, x)
    BY <1>4, <1>5 DEF Settled
  <1>8. \A x : Times(Chain', x) = 0
    <2> PICK q : q = linkPoint'
      OBVIOUS
    <2>1. Chain' = Append(<<>>, Vertex(q, 0))
      BY <1>1 DEF Chain
    <2> QED
      BY <1>3, <2>1, NoEdge
  <1>9. \A x : Used(line_data, x) \in Nat /\ Used(arc_data, x) \in Nat
    BY UsedFacts DEF DrawingInv, Types
  <1>10. UnderWay'
    BY <1>1, <1>3, <1>7, <1>8, <1>9 DEF UnderWay
  <1>11. Plain' = Plain /\ Drawn' = Drawn
    BY DEF Plain, Drawn
  <1>12. Balanced => Balanced'
    BY <1>7, <1>11 DEF Balanced
  <1> QED
    BY <1>6, <1>10, <1>12 DEF DrawingInv

\* A chain becomes longer.
LEMMA LinkInv ==
    ASSUME DrawingInv, list_recover # NULL, ~hadClosed,
           NEW e \in EntityType, linkPoint = e.s \/ linkPoint = e.e, Follow(e),
           line_data' \in Seq(EntityType), arc_data' \in Seq(EntityType),
           \A x : Used(line_data', x) + Used(arc_data', x)
                     = Used(line_data, x) + Used(arc_data, x) + One(e.s, e.e, e.bulge, x)
    PROVE  DrawingInv'
  <1>1. UNCHANGED <<given, polyline_data, pass, i, startPoint, list_recover, spoilt>>
    BY DEF Follow
  <1>2. /\ list_vertex' \in Seq(VertexType) /\ list_vertex' # <<>> /\ hadClosed' \in BOOLEAN
        /\ linkPoint' \in Point
        /\ First(list_vertex').p = (IF list_vertex = <<>> THEN linkPoint ELSE First(list_vertex).p)
        /\ hadClosed' => Last(list_vertex').p = startPoint
        /\ \A x : Times(Chain', x) = Times(Chain, x) + One(e.s, e.e, e.bulge, x)
    BY FollowKeeps
  <1>3. Types'
    BY <1>1, <1>2 DEF DrawingInv, Types
  <1>4. \A x : Settled(x)' = Settled(x)
    BY <1>1 DEF Settled
  <1>5. UnderWay
    BY DEF DrawingInv
  <1>6. \A x : Used(line_data', x) + Used(arc_data', x) = Settled(x) + Times(Chain', x)
    <2> SUFFICES ASSUME NEW x
                 PROVE  Used(line_data', x) + Used(arc_data', x) = Settled(x) + Times(Chain', x)
      OBVIOUS
    <2>1. Used(line_data, x) + Used(arc_data, x) = Settled(x) + Times(Chain, x)
      BY <1>5 DEF UnderWay
    <2>2. Settled(x) \in Nat
      BY SettledNat DEF DrawingInv
    <2>3. Times(Chain, x) \in Nat
      BY ChainNat DEF DrawingInv
    <2>4. One(e.s, e.e, e.bulge, x) \in Nat
      BY DEF One
    <2> QED
      BY <1>2, <2>1, <2>2, <2>3, <2>4
  <1>7. UnderWay'
    BY <1>1, <1>2, <1>4, <1>5, <1>6 DEF UnderWay
  <1>8. Plain' = Plain /\ Drawn' = Drawn
    BY <1>1 DEF Plain, Drawn
  <1>9. Balanced => Balanced'
    BY <1>4, <1>8 DEF Balanced
  <1> QED
    BY <1>1, <1>3, <1>7, <1>9 DEF DrawingInv

\* A chain that is stuck is given up.
LEMMA GiveUpInv == DrawingInv /\ GiveUp => DrawingInv'
  <1> SUFFICES ASSUME DrawingInv, GiveUp PROVE DrawingInv'
    OBVIOUS
  <1>1. /\ list_recover # NULL /\ line_data' = list_recover.lines /\ arc_data' = list_recover.arcs
        /\ i' = i + 1 /\ list_recover' = NULL /\ list_vertex' = <<>>
        /\ UNCHANGED <<given, polyline_data, pass, spoilt, hadClosed>>
    BY DEF GiveUp, Over
  <1>2. line_data' \in Seq(EntityType) /\ arc_data' \in Seq(EntityType)
    BY <1>1, RecoverFacts DEF DrawingInv
  <1>3. Types'
    BY <1>1, <1>2 DEF DrawingInv, Types
  <1>4. \A x : Settled(x)' = Settled(x)
    BY <1>1 DEF Settled
  <1>5. Plain' = Plain /\ Drawn' = Drawn
    BY <1>1 DEF Plain, Drawn
  <1>6. Balanced => Balanced'
    BY <1>4, <1>5 DEF Balanced
  <1> QED
    BY <1>1, <1>3, <1>6 DEF DrawingInv

\* A chain that is closed becomes an outline,
LEMMA CloseNew ==
    ASSUME DrawingInv, Close, pass # "polylines"
    PROVE  DrawingInv'
  <1> DEFINE new == [flags |-> 1, v |-> list_vertex]
  <1>1. /\ list_recover # NULL /\ hadClosed
        /\ polyline_data' = Append(polyline_data, new)
        /\ i' = i + 1 /\ list_recover' = NULL /\ list_vertex' = <<>>
        /\ UNCHANGED <<given, line_data, arc_data, pass, spoilt, hadClosed>>
    BY DEF Close, Over
  <1>2. /\ Types /\ UnderWay /\ list_vertex \in Seq(VertexType) /\ list_vertex # <<>>
        /\ First(list_vertex).p = startPoint /\ Last(list_vertex).p = startPoint
        /\ pass \in {"lines", "arcs"} /\ polyline_data \in Seq(Polyline)
    BY <1>1 DEF DrawingInv, Types, UnderWay
  <1>3. new \in Polyline /\ new.v = list_vertex
    BY <1>2 DEF Polyline
  <1> HIDE DEF new
  <1>4. polyline_data' \in Seq(Polyline)
    BY <1>1, <1>2, <1>3
  <1>5. Types'
    BY <1>1, <1>2, <1>4 DEF Types
  <1>6. Balanced => Balanced'
    <2> SUFFICES ASSUME Balanced, NEW x
                 PROVE  Occurs(Plain', x) = Occurs(Drawn', x) + Settled(x)'
      BY DEF Balanced
    <2> DEFINE whole == AllWhole(polyline_data)
    <2>1. Plain = whole /\ Plain' = AllWhole(polyline_data')
      BY <1>1, <1>2 DEF Plain
    <2>2. whole \in Seq(Polyline)
      BY <1>2, AllWholeFacts
    <2>3. First(new.v).p = Last(new.v).p
      BY <1>2, <1>3
    <2>4. Plain' = Append(whole, new)
      BY <1>1, <1>2, <1>3, <2>1, <2>3, AllWholeAppended
    <2> HIDE DEF whole
    <2>5. Occurs(Append(whole, new), x) = Occurs(whole, x) + Times(new.v, x)
      BY <1>3, <2>2, OccursAppended
    <2>6. Settled(x)' = Used(line_data, x) + Used(arc_data, x)
      BY <1>1 DEF Settled
    <2>7. Used(line_data, x) + Used(arc_data, x) = Settled(x) + Times(list_vertex, x)
      BY <1>1, <1>2 DEF UnderWay, Chain
    <2>8. Occurs(whole, x) = Occurs(Drawn, x) + Settled(x)
      BY <2>1 DEF Balanced
    <2>9. Drawn' = Drawn
      BY <1>1 DEF Drawn
    <2>13. Occurs(Drawn, x) \in Nat
      BY <1>2, DrawnNat
    <2>14. Settled(x) \in Nat
      BY <1>2, SettledNat
    <2>15. Times(list_vertex, x) \in Nat
      BY <1>2, CutFacts
    <2>16. Occurs(Plain', x) = Occurs(Drawn, x) + Settled(x) + Times(list_vertex, x)
      BY <1>3, <2>4, <2>5, <2>8
    <2>17. Settled(x)' = Settled(x) + Times(list_vertex, x)
      BY <2>6, <2>7
    <2> QED
      BY <2>9, <2>13, <2>14, <2>15, <2>16, <2>17
  <1> QED
    BY <1>1, <1>2, <1>5, <1>6 DEF DrawingInv

\* or the missing part of one.
LEMMA CloseOpen ==
    ASSUME DrawingInv, Close, pass = "polylines"
    PROVE  DrawingInv'
  <1> PICK v : v = polyline_data[i].v
    OBVIOUS
  <1> PICK whole : whole = Joined(v, list_vertex)
    OBVIOUS
  <1> DEFINE new == [flags |-> 1, v |-> whole]
             qs == [polyline_data EXCEPT ![i] = new]
  <1>1. /\ list_recover # NULL /\ hadClosed
        /\ i' = i + 1 /\ list_recover' = NULL /\ list_vertex' = <<>>
        /\ UNCHANGED <<given, line_data, arc_data, pass, spoilt, hadClosed>>
    BY DEF Close, Over
  <1>2. polyline_data' = qs
    BY DEF Close, Joined
  <1>3. /\ Types /\ UnderWay /\ list_vertex \in Seq(VertexType) /\ list_vertex # <<>>
        /\ i \in DOMAIN polyline_data /\ First(list_vertex).p = Last(v).p
        /\ polyline_data \in Seq(Polyline)
    BY <1>1 DEF DrawingInv, Types, UnderWay
  <1>4. v \in Seq(VertexType) /\ v # <<>>
    BY <1>3, SeqOfPolylines
  <1>5. whole \in Seq(VertexType) /\ whole # <<>>
    BY <1>3, <1>4, JoinedFacts
  <1>6. new \in Polyline /\ new.v = whole
    BY <1>5 DEF Polyline
  <1> HIDE DEF new
  <1>7. /\ qs \in Seq(Polyline) /\ DOMAIN qs = DOMAIN polyline_data /\ qs[i] = new
        /\ \A k \in DOMAIN polyline_data : k # i => qs[k] = polyline_data[k]
    BY <1>3, <1>6
  <1> HIDE DEF qs
  <1>8. Types'
    BY <1>1, <1>2, <1>3, <1>7 DEF Types
  <1>9. Balanced => Balanced'
    <2> SUFFICES ASSUME Balanced, NEW x
                 PROVE  Occurs(Plain', x) = Occurs(Drawn', x) + Settled(x)'
      BY DEF Balanced
    <2>1. Plain = polyline_data /\ Plain' = qs
      BY <1>1, <1>2 DEF Plain
    <2>2. \A k \in DOMAIN polyline_data : k # i => qs[k].v = polyline_data[k].v
      BY <1>7
    <2>3. Occurs(qs, x) + Times(polyline_data[i].v, x)
             = Occurs(polyline_data, x) + Times(qs[i].v, x)
      BY <1>3, <1>7, <2>2, OccursReplaced
    <2>4. Times(whole, x) = Times(v, x) + Times(list_vertex, x)
      BY <1>3, <1>4, JoinedTimes
    <2>5. Settled(x)' = Used(line_data, x) + Used(arc_data, x)
      BY <1>1 DEF Settled
    <2>6. Used(line_data, x) + Used(arc_data, x) = Settled(x) + Times(list_vertex, x)
      BY <1>1, <1>3 DEF UnderWay, Chain
    <2>7. Occurs(polyline_data, x) = Occurs(Drawn, x) + Settled(x)
      BY <2>1 DEF Balanced
    <2>8. Drawn' = Drawn
      BY <1>1 DEF Drawn
    <2>9. Occurs(Drawn, x) \in Nat
      BY <1>3, DrawnNat
    <2>10. Settled(x) \in Nat
      BY <1>3, SettledNat
    <2>11. Times(list_vertex, x) \in Nat /\ Times(v, x) \in Nat
      BY <1>3, <1>4, CutFacts
    <2>12. Occurs(qs, x) \in Nat
      BY <1>7, OccursNat
    <2>13. Occurs(qs, x) + Times(v, x)
              = (Occurs(Drawn, x) + Settled(x)) + (Times(v, x) + Times(list_vertex, x))
      BY <1>6, <1>7, <2>3, <2>4, <2>7
    <2>14. Occurs(qs, x) = Occurs(Drawn, x) + (Settled(x) + Times(list_vertex, x))
      BY <2>9, <2>10, <2>11, <2>12, <2>13
    <2> QED
      BY <2>1, <2>5, <2>6, <2>8, <2>14
  <1> QED
    BY <1>1, <1>8, <1>9 DEF DrawingInv

\* The polylines get their last edges.
LEMMA MarkInv == DrawingInv /\ Mark => DrawingInv'
  <1> SUFFICES ASSUME DrawingInv, Mark PROVE DrawingInv'
    OBVIOUS
  <1>1. /\ pass = "mark" /\ pass' = "polylines"
        /\ polyline_data' = [k \in DOMAIN polyline_data |-> Marked(polyline_data[k])]
        /\ UNCHANGED <<given, line_data, arc_data, i, list_vertex, hadClosed, list_recover, spoilt>>
    BY DEF Mark, chainVars
  <1>2. polyline_data \in Seq(Polyline) /\ list_recover = NULL
    BY <1>1 DEF DrawingInv, Types, UnderWay
  <1> PICK n : n = Len(polyline_data)
    OBVIOUS
  <1>3. n \in Nat /\ DOMAIN polyline_data = 1..n
    BY <1>2, SeqOfPolylines
  <1>4. \A k \in 1..n : /\ polyline_data[k] \in Polyline
                        /\ Marked(polyline_data[k]) \in Polyline
                        /\ Marked(polyline_data[k]).v = Whole(polyline_data[k]).v
    BY <1>2, <1>3, SeqOfPolylines, WholeFacts
  <1>5. polyline_data' \in [1..n -> Polyline]
    BY <1>1, <1>3, <1>4
  <1>6. polyline_data' \in Seq(Polyline)
    BY <1>3, <1>5, SeqDef
  <1>7. Types'
    BY <1>1, <1>6 DEF DrawingInv, Types
  <1>8. Balanced => Balanced'
    <2> SUFFICES ASSUME Balanced, NEW x
                 PROVE  Occurs(Plain', x) = Occurs(Drawn', x) + Settled(x)'
      BY DEF Balanced
    <2> PICK ps, qs : ps = AllWhole(polyline_data) /\ qs = polyline_data'
      OBVIOUS
    <2>1. Plain = ps /\ Plain' = qs
      BY <1>1 DEF Plain
    <2>2. /\ ps \in Seq(Polyline) /\ DOMAIN ps = 1..n
          /\ \A k \in 1..n : ps[k] = Whole(polyline_data[k])
      BY <1>2, <1>3, AllWholeFacts
    <2>3. /\ qs \in Seq(Polyline) /\ DOMAIN qs = 1..n
          /\ \A k \in 1..n : qs[k].v = ps[k].v
      BY <1>1, <1>3, <1>4, <1>6, <2>2
    <2>4. \A k \in DOMAIN ps : Times(qs[k].v, x) = Times(ps[k].v, x)
      BY <2>2, <2>3
    <2>5. Occurs(qs, x) = Occurs(ps, x)
      BY <2>2, <2>3, <2>4, OccursAlike
    <2>6. Settled(x)' = Settled(x) /\ Drawn' = Drawn
      BY <1>1 DEF Settled, Drawn
    <2> QED
      BY <2>1, <2>5, <2>6 DEF Balanced
  <1> QED
    BY <1>1, <1>2, <1>7, <1>8 DEF DrawingInv

\* The outlines are turned round.
LEMMA TurnInv == DrawingInv /\ Turn => DrawingInv'
  <1> SUFFICES ASSUME DrawingInv, Turn PROVE DrawingInv'
    OBVIOUS
  <1>1. /\ pass = "turn" /\ pass' = "done"
        /\ polyline_data' = [k \in DOMAIN polyline_data |->
                               [polyline_data[k] EXCEPT !.v = TransformCCW(@)]]
        /\ spoilt' = \E k \in DOMAIN polyline_data : Spoils(polyline_data[k].v)
        /\ UNCHANGED <<given, line_data, arc_data, i, list_vertex, hadClosed, list_recover>>
    BY DEF Turn, chainVars
  <1>2. polyline_data \in Seq(Polyline) /\ list_recover = NULL
    BY <1>1 DEF DrawingInv, Types, UnderWay
  <1> PICK n : n = Len(polyline_data)
    OBVIOUS
  <1>3. n \in Nat /\ DOMAIN polyline_data = 1..n
    BY <1>2, SeqOfPolylines
  <1>4. ASSUME NEW k \in 1..n, NEW v, v = polyline_data[k].v, NEW x
        PROVE  /\ [polyline_data[k] EXCEPT !.v = TransformCCW(@)] \in Polyline
               /\ [polyline_data[k] EXCEPT !.v = TransformCCW(@)].v = TransformCCW(v)
               /\ ~Spoils(v) => Times(TransformCCW(v), x) = Times(v, x)
    <2>1. polyline_data[k] \in Polyline /\ v \in Seq(VertexType) /\ v # <<>>
      BY <1>2, <1>3, <1>4, SeqOfPolylines
    <2> PICK t : t = TransformCCW(v)
      OBVIOUS
    <2>2. /\ t \in Seq(VertexType) /\ t # <<>>
          /\ ~Spoils(v) => Times(t, x) = Times(v, x)
      BY <2>1, TurnedTimes
    <2>3. [polyline_data[k] EXCEPT !.v = TransformCCW(@)] = [polyline_data[k] EXCEPT !.v = t]
      BY <1>4
    <2>4. [polyline_data[k] EXCEPT !.v = t] \in Polyline /\ [polyline_data[k] EXCEPT !.v = t].v = t
      BY <2>1, <2>2 DEF Polyline
    <2> QED
      BY <2>2, <2>3, <2>4
  <1>5. polyline_data' \in [1..n -> Polyline]
    BY <1>1, <1>3, <1>4
  <1>6. polyline_data' \in Seq(Polyline)
    BY <1>3, <1>5, SeqDef
  <1>7. Types'
    BY <1>1, <1>6 DEF DrawingInv, Types
  <1>8. ~spoilt' => Balanced'
    <2> SUFFICES ASSUME ~spoilt', NEW x
                 PROVE  Occurs(Plain', x) = Occurs(Drawn', x) + Settled(x)'
      BY DEF Balanced
    <2> PICK qs : qs = polyline_data'
      OBVIOUS
    <2>1. Plain = polyline_data /\ Plain' = qs
      BY <1>1 DEF Plain
    <2>2. qs \in Seq(Polyline) /\ DOMAIN qs = 1..n
      BY <1>1, <1>3, <1>6
    <2>3. \A k \in 1..n : ~Spoils(polyline_data[k].v)
      BY <1>1, <1>3
    <2>4. \A k \in DOMAIN polyline_data : Times(qs[k].v, x) = Times(polyline_data[k].v, x)
      <3> SUFFICES ASSUME NEW k \in 1..n
                   PROVE  Times(qs[k].v, x) = Times(polyline_data[k].v, x)
        BY <1>3
      <3> PICK v : v = polyline_data[k].v
        OBVIOUS
      <3>1. qs[k] = [polyline_data[k] EXCEPT !.v = TransformCCW(@)]
        BY <1>1, <1>3
      <3>2. qs[k].v = TransformCCW(v) /\ Times(TransformCCW(v), x) = Times(v, x)
        BY <1>4, <2>3, <3>1
      <3> QED
        BY <3>2
    <2>5. Occurs(qs, x) = Occurs(polyline_data, x)
      BY <1>2, <1>3, <2>2, <2>4, OccursAlike
    <2>6. Settled(x)' = Settled(x) /\ Drawn' = Drawn
      BY <1>1 DEF Settled, Drawn
    <2>7. Balanced
      BY <1>1 DEF DrawingInv
    <2> QED
      BY <2>1, <2>5, <2>6, <2>7 DEF Balanced
  <1> QED
    BY <1>1, <1>2, <1>7, <1>8 DEF DrawingInv

-----------------------------------------------------------------------------
(* The theorems. *)

LEMMA NextInv == DrawingInv /\ [Next]_vars => DrawingInv'
  <1> SUFFICES ASSUME DrawingInv, [Next]_vars PROVE DrawingInv'
    OBVIOUS
  <1>1. Types
    BY DEF DrawingInv
  <1>2. CASE Start
    <2>1. /\ list_recover = NULL /\ Todo # 0 /\ i' = Todo /\ Recover /\ hadClosed' = FALSE
          /\ UNCHANGED <<given, polyline_data, pass, spoilt>>
      BY <1>2 DEF Start
    <2> PICK k : k = Todo
      OBVIOUS
    <2>2. /\ k \in Nat \ {0}
          /\ pass = "lines" => k \in DOMAIN line_data /\ line_data[k].flag = 0
          /\ pass = "arcs" => k \in DOMAIN arc_data /\ arc_data[k].flag = 0
          /\ pass = "polylines" => k \in DOMAIN polyline_data
      BY <1>1, <2>1, TodoFacts
    <2>3. CASE pass = "lines"
      <3> PICK e : e = line_data[k]
        OBVIOUS
      <3>1. /\ list_vertex' = <<Vertex(e.s, e.bulge)>> /\ startPoint' = e.s /\ linkPoint' = e.e
            /\ line_data' = Flagged(line_data, k) /\ arc_data' = arc_data
        BY <1>2, <2>1, <2>3 DEF Start, StartWith, Flagged
      <3>2. line_data \in Seq(EntityType) /\ arc_data \in Seq(EntityType)
        BY <1>1 DEF Types
      <3>3. e \in EntityType
        BY <2>2, <2>3, <3>2, EntityFacts
      <3>4. \A x : /\ line_data' \in Seq(EntityType)
                   /\ Used(line_data', x) + Used(arc_data', x)
                         = Used(line_data, x) + Used(arc_data, x) + One(e.s, e.e, e.bulge, x)
        BY <2>2, <2>3, <3>1, <3>2, LineIsUsed
      <3> QED
        BY <2>1, <2>2, <2>3, <3>1, <3>2, <3>3, <3>4, StartInv
    <2>4. CASE pass = "arcs"
      <3> PICK e : e = arc_data[k]
        OBVIOUS
      <3>1. /\ list_vertex' = <<Vertex(e.s, e.bulge)>> /\ startPoint' = e.s /\ linkPoint' = e.e
            /\ arc_data' = Flagged(arc_data, k) /\ line_data' = line_data
        BY <1>2, <2>1, <2>4 DEF Start, StartWith, Flagged
      <3>2. line_data \in Seq(EntityType) /\ arc_data \in Seq(EntityType)
        BY <1>1 DEF Types
      <3>3. e \in EntityType
        BY <2>2, <2>4, <3>2, EntityFacts
      <3>4. \A x : /\ arc_data' \in Seq(EntityType)
                   /\ Used(line_data', x) + Used(arc_data', x)
                         = Used(line_data, x) + Used(arc_data, x) + One(e.s, e.e, e.bulge, x)
        BY <2>2, <2>4, <3>1, <3>2, LineIsUsed
      <3> QED
        BY <2>1, <2>2, <2>4, <3>1, <3>2, <3>3, <3>4, StartInv
    <2>5. CASE pass = "polylines"
      <3>1. /\ startPoint' = First(polyline_data[i'].v).p
            /\ linkPoint' = Last(polyline_data[i'].v).p
            /\ UNCHANGED <<line_data, arc_data, list_vertex>>
        BY <1>2, <2>5 DEF Start
      <3> QED
        BY <2>1, <2>2, <2>5, <3>1, StartAtPolyline
    <2> QED
      BY <1>2, <2>3, <2>4, <2>5 DEF Start
  <1>3. CASE LinkLine
    <2> PICK k : k = Found(line_data)
      OBVIOUS
    <2> PICK e : e = line_data[k]
      OBVIOUS
    <2>1. /\ list_recover # NULL /\ ~hadClosed /\ k # 0 /\ Follow(e)
          /\ line_data' = Flagged(line_data, k) /\ arc_data' = arc_data
      BY <1>3 DEF LinkLine, FoundLine, Flagged
    <2>2. line_data \in Seq(EntityType) /\ arc_data \in Seq(EntityType)
      BY <1>1 DEF Types
    <2>3. /\ k \in DOMAIN line_data /\ line_data[k].flag = 0
          /\ linkPoint = e.s \/ linkPoint = e.e
      BY <2>1, <2>2, FoundFacts
    <2>4. e \in EntityType
      BY <2>2, <2>3, EntityFacts
    <2>5. \A x : /\ line_data' \in Seq(EntityType)
                 /\ Used(line_data', x) + Used(arc_data', x)
                       = Used(line_data, x) + Used(arc_data, x) + One(e.s, e.e, e.bulge, x)
      BY <2>1, <2>2, <2>3, LineIsUsed
    <2> QED
      BY <2>1, <2>2, <2>3, <2>4, <2>5, LinkInv
  <1>4. CASE LinkArc
    <2> PICK k : k = Found(arc_data)
      OBVIOUS
    <2> PICK e : e = arc_data[k]
      OBVIOUS
    <2>1. /\ list_recover # NULL /\ ~hadClosed /\ k # 0 /\ Follow(e)
          /\ arc_data' = Flagged(arc_data, k) /\ line_data' = line_data
      BY <1>4 DEF LinkArc, Flagged
    <2>2. line_data \in Seq(EntityType) /\ arc_data \in Seq(EntityType)
      BY <1>1 DEF Types
    <2>3. /\ k \in DOMAIN arc_data /\ arc_data[k].flag = 0
          /\ linkPoint = e.s \/ linkPoint = e.e
      BY <2>1, <2>2, FoundFacts
    <2>4. e \in EntityType
      BY <2>2, <2>3, EntityFacts
    <2>5. \A x : /\ arc_data' \in Seq(EntityType)
                 /\ Used(line_data', x) + Used(arc_data', x)
                       = Used(line_data, x) + Used(arc_data, x) + One(e.s, e.e, e.bulge, x)
      BY <2>1, <2>2, <2>3, LineIsUsed
    <2> QED
      BY <2>1, <2>2, <2>3, <2>4, <2>5, LinkInv
  <1>5. CASE Close
    BY <1>5, CloseNew, CloseOpen
  <1>6. CASE NextPass
    <2>1. /\ pass \in {"lines", "arcs", "polylines"} /\ list_recover = NULL /\ i' = 1
          /\ pass' = CASE pass = "lines" -> "arcs" [] pass = "arcs" -> "mark" [] pass = "polylines" -> "turn"
          /\ UNCHANGED <<given, line_data, arc_data, polyline_data, list_vertex, startPoint,
                         linkPoint, hadClosed, list_recover, spoilt>>
      BY <1>6 DEF NextPass, chainVars
    <2>2. \/ pass = "lines" /\ pass' = "arcs"
          \/ pass = "arcs" /\ pass' = "mark"
          \/ pass = "polylines" /\ pass' = "turn"
      BY <2>1
    <2>3. i' \in Nat \ {0}
      BY <2>1
    <2>4. Types'
      BY <1>1, <2>1, <2>2, <2>3 DEF Types
    <2>5. Plain' = Plain /\ Drawn' = Drawn
      BY <2>1, <2>2 DEF Plain, Drawn
    <2>6. \A x : Settled(x)' = Settled(x)
      BY <2>1 DEF Settled
    <2>7. Balanced => Balanced'
      BY <2>5, <2>6 DEF Balanced
    <2> QED
      BY <2>1, <2>2, <2>4, <2>7 DEF DrawingInv
  <1>7. CASE Return \/ UNCHANGED vars
    <2>1. UNCHANGED vars
      BY <1>7 DEF Return
    <2>2. Types'
      BY <1>1, <2>1 DEF Types, vars, chainVars
    <2>3. Plain' = Plain /\ Drawn' = Drawn
      BY <2>1 DEF Plain, Drawn, vars, chainVars
    <2>4. Chain' = Chain
      BY <2>1 DEF Chain, vars, chainVars
    <2>5. \A x : Settled(x)' = Settled(x)
      BY <2>1 DEF Settled, vars, chainVars
    <2>6. Balanced => Balanced'
      BY <2>3, <2>5 DEF Balanced
    <2>7. UnderWay => UnderWay'
      BY <2>1, <2>4, <2>5 DEF UnderWay, vars, chainVars
    <2> QED
      BY <2>1, <2>2, <2>6, <2>7 DEF DrawingInv, vars, chainVars
  <1> QED
    BY <1>2, <1>3, <1>4, <1>5, <1>6, <1>7, GiveUpInv, MarkInv, TurnInv DEF Next

\* The edges of the outlines and of the lines and arcs that are used balance in every state of
\* run, on a drawing of any size.
THEOREM EdgesBalance == Spec => []DrawingInv
  <1> QED
    BY InitInv, NextInv, PTL DEF Spec

\* What is cut is what was drawn, each edge once and with its own bulge, whatever the drawing.
THEOREM CutIsDrawn == Spec => []EachDrawnOnce
  <1>1. DrawingInv => EachDrawnOnce
    <2> SUFFICES ASSUME DrawingInv, pass = "done", ~spoilt, NEW x
                 PROVE  Occurs(polyline_data, x) = Occurs(Drawn, x) + Used(line_data, x) + Used(arc_data, x)
      BY DEF EachDrawnOnce
    <2>1. list_recover = NULL
      BY DEF DrawingInv, UnderWay
    <2>2. Plain = polyline_data
      BY DEF Plain
    <2>3. Settled(x) = Used(line_data, x) + Used(arc_data, x)
      BY <2>1 DEF Settled
    <2>4. Occurs(polyline_data, x) = Occurs(Drawn, x) + Settled(x)
      BY <2>2 DEF DrawingInv, Balanced
    <2>5. Used(line_data, x) \in Nat /\ Used(arc_data, x) \in Nat
      BY UsedFacts DEF DrawingInv, Types
    <2>6. Occurs(Drawn, x) \in Nat
      BY DrawnNat DEF DrawingInv
    <2> QED
      BY <2>3, <2>4, <2>5, <2>6
  <1> QED
    BY <1>1, EdgesBalance, PTL
==============================================================================
