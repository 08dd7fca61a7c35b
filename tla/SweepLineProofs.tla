--------------------------- MODULE SweepLineProofs ---------------------------
(***************************************************************************)
(* Proofs about SweepLine, for any segments: a crossing lies in the boxes  *)
(* of both segments, cuts keep the flow, and the sweep never goes back;    *)
(* and when its comparators are orders on what its containers hold.        *)
(***************************************************************************)
EXTENDS SweepLine, FiniteSetTheorems, TLAPS

-----------------------------------------------------------------------------
(* Crossings. *)

\* Division rounds down.
LEMMA DivRoundsDown ==
    ASSUME NEW a \in Int, NEW b \in Int, b > 0
    PROVE  a \div b \in Int /\ b * (a \div b) <= a /\ a < b * (a \div b) + b
  OBVIOUS

\* A factor that is not negative keeps the order.
LEMMA ScaledOrder ==
    ASSUME NEW a \in Int, NEW b \in Int, a <= b, NEW c \in Int, c >= 0
    PROVE  a * c <= b * c
  OBVIOUS

\* A quotient between two integers is rounded to none that is outside.
LEMMA RoundedBetween ==
    ASSUME NEW n \in Int, NEW d \in Int, d > 0,
           NEW lo \in Int, NEW hi \in Int, lo * d <= n, n <= hi * d
    PROVE  llround(n, d) \in Int /\ lo <= llround(n, d) /\ llround(n, d) <= hi
  <1>1. CASE n < 0
    <2> DEFINE q == (d - 2 * n) \div (2 * d)
    <2>1. q \in Int /\ (2 * d) * q <= d - 2 * n /\ d - 2 * n < (2 * d) * q + 2 * d
      <3>1. d - 2 * n \in Int /\ 2 * d \in Int /\ 2 * d > 0
        OBVIOUS
      <3> QED
        BY <3>1, DivRoundsDown
    <2>2. llround(n, d) = -q
      BY <1>1 DEF llround
    <2> HIDE DEF q
    <2>3. -q <= hi
      <3> SUFFICES ASSUME hi + 1 <= -q PROVE FALSE
        BY <2>1
      <3>1. (hi + 1) * d <= (-q) * d
        BY <2>1, ScaledOrder
      <3> QED
        BY <2>1, <3>1
    <2>4. lo <= -q
      <3> SUFFICES ASSUME 1 - lo <= q PROVE FALSE
        BY <2>1
      <3>1. (1 - lo) * d <= q * d
        BY <2>1, ScaledOrder
      <3> QED
        BY <2>1, <3>1
    <2> QED
      BY <2>1, <2>2, <2>3, <2>4
  <1>2. CASE ~(n < 0)
    <2> DEFINE q == (d + 2 * n) \div (2 * d)
    <2>1. q \in Int /\ (2 * d) * q <= d + 2 * n /\ d + 2 * n < (2 * d) * q + 2 * d
      <3>1. d + 2 * n \in Int /\ 2 * d \in Int /\ 2 * d > 0
        OBVIOUS
      <3> QED
        BY <3>1, DivRoundsDown
    <2>2. llround(n, d) = q
      BY <1>2 DEF llround
    <2> HIDE DEF q
    <2>3. q <= hi
      <3> SUFFICES ASSUME hi + 1 <= q PROVE FALSE
        BY <2>1
      <3>1. (hi + 1) * d <= q * d
        BY <2>1, ScaledOrder
      <3> QED
        BY <2>1, <3>1
    <2>4. lo <= q
      <3> SUFFICES ASSUME q + 1 <= lo PROVE FALSE
        BY <2>1
      <3>1. (q + 1) * d <= lo * d
        BY <2>1, ScaledOrder
      <3> QED
        BY <2>1, <3>1
    <2> QED
      BY <2>1, <2>2, <2>3, <2>4
  <1> QED
    BY <1>1, <1>2

\* b is between a and c.
Between(a, b, c) == Least(a, c) <= b /\ b <= Greatest(a, c)

\* Of two vectors in one line that point to the same side neither goes back.
LEMMA SameSide ==
    ASSUME NEW ux \in Int, NEW uy \in Int, NEW vx \in Int, NEW vy \in Int,
           (ux + vx) * uy - (uy + vy) * ux = 0, ux * vx + uy * vy > 0
    PROVE  (ux >= 0 /\ vx >= 0) \/ (ux <= 0 /\ vx <= 0)
  <1>1. vx * uy = vy * ux
    OBVIOUS
  <1> SUFFICES ASSUME (ux > 0 /\ vx < 0) \/ (ux < 0 /\ vx > 0) PROVE FALSE
    OBVIOUS
  <1>2. ux * vx < 0
    OBVIOUS
  <1>3. uy * vy > 0
    BY <1>2
  <1>4. (uy > 0 /\ vy > 0) \/ (uy < 0 /\ vy < 0)
    BY <1>3
  <1>5. (vx * uy > 0 /\ vy * ux < 0) \/ (vx * uy < 0 /\ vy * ux > 0)
    BY <1>4
  <1> QED
    BY <1>1, <1>5

\* A crossing of ab and cd, rounded, is in the boxes of both.
LEMMA CrossingBetween ==
    ASSUME NEW a \in Point, NEW b \in Point, NEW c \in Point, NEW d \in Point,
           NEW c1, c1 = cross(Sub(b, a), Sub(c, a)),
           NEW c2, c2 = cross(Sub(b, a), Sub(d, a)),
           NEW c3, c3 = cross(Sub(d, c), Sub(a, c)),
           NEW c4, c4 = cross(Sub(d, c), Sub(b, c)),
           (c1 < 0 /\ c2 > 0) \/ (c1 > 0 /\ c2 < 0),
           (c3 < 0 /\ c4 > 0) \/ (c3 > 0 /\ c4 < 0),
           NEW r, r = llround(Abs(c1) * (d.x - c.x), Abs(c1) + Abs(c2))
    PROVE  r \in Int /\ Between(a.x, c.x + r, b.x) /\ Between(c.x, c.x + r, d.x)
  <1> PICK ax \in Int, ay \in Int, bx \in Int, by \in Int :
         ax = a.x /\ ay = a.y /\ bx = b.x /\ by = b.y
    BY DEF Point
  <1> PICK cx \in Int, cy \in Int, dx \in Int, dy \in Int :
         cx = c.x /\ cy = c.y /\ dx = d.x /\ dy = d.y
    BY DEF Point
  <1>e. /\ c1 = (bx - ax) * (cy - ay) - (by - ay) * (cx - ax)
        /\ c2 = (bx - ax) * (dy - ay) - (by - ay) * (dx - ax)
        /\ c3 = (dx - cx) * (ay - cy) - (dy - cy) * (ax - cx)
        /\ c4 = (dx - cx) * (by - cy) - (dy - cy) * (bx - cx)
    BY DEF cross, Sub
  <1>f. c1 \in Int /\ c2 \in Int /\ c3 \in Int /\ c4 \in Int
    BY <1>e
  <1>g. Abs(c1) \in Int /\ Abs(c2) \in Int
    BY <1>f DEF Abs
  <1>1. /\ c4 - c3 = c1 - c2
        /\ (c2 - c1) * (cx - ax) - c1 * (dx - cx) = c3 * (bx - ax)
    <2> DEFINE ux == bx - ax  uy == by - ay
               vx == dx - cx  vy == dy - cy
               wx == cx - ax  wy == cy - ay
    <2>1. /\ ux \in Int /\ uy \in Int /\ vx \in Int /\ vy \in Int /\ wx \in Int /\ wy \in Int
          /\ dy - ay = wy + vy /\ dx - ax = wx + vx /\ ay - cy = -wy /\ ax - cx = -wx
          /\ by - cy = uy - wy /\ bx - cx = ux - wx
      OBVIOUS
    <2>2. /\ c1 = ux * wy - uy * wx /\ c2 = ux * (wy + vy) - uy * (wx + vx)
          /\ c3 = vx * (-wy) - vy * (-wx) /\ c4 = vx * (uy - wy) - vy * (ux - wx)
      BY <1>e, <2>1
    <2> HIDE DEF ux, uy, vx, vy, wx, wy
    <2>3. c4 - c3 = c1 - c2 /\ c2 - c1 = ux * vy - uy * vx
      BY <2>1, <2>2
    <2>4. (ux * vy - uy * vx) * wx - c1 * vx = c3 * ux
      BY <2>1, <2>2
    <2>5. (c2 - c1) * wx - c1 * vx = c3 * ux
      BY <2>3, <2>4
    <2> QED
      BY <2>3, <2>5 DEF ux, vx, wx
  <1>a. PICK k \in Int, l \in Int : k = Abs(c1) /\ l = Abs(c2)
    BY <1>g
  <1>b. \E m \in Int : m > 0 /\ m < k + l /\ (k + l) * (cx - ax) + k * (dx - cx) = m * (bx - ax)
    <2>1. CASE c1 < 0 /\ c2 > 0
      <3>1. k = -c1 /\ l = c2 /\ c3 > 0 /\ c3 < k + l
        BY <1>1, <1>a, <1>f, <2>1 DEF Abs
      <3>2. (k + l) * (cx - ax) + k * (dx - cx) = c3 * (bx - ax)
        BY <1>1, <1>f, <3>1
      <3> QED
        BY <1>f, <3>1, <3>2
    <2>2. CASE c1 > 0 /\ c2 < 0
      <3>1. k = c1 /\ l = -c2 /\ -c3 > 0 /\ -c3 < k + l
        BY <1>1, <1>a, <1>f, <2>2 DEF Abs
      <3>2. (k + l) * (cx - ax) + k * (dx - cx) = (-c3) * (bx - ax)
        <4>1. (-c3) * (bx - ax) = -(c3 * (bx - ax))
          BY <1>f
        <4>2. (k + l) * (cx - ax) + k * (dx - cx) = -((c2 - c1) * (cx - ax) - c1 * (dx - cx))
          BY <1>f, <3>1
        <4> QED
          BY <1>1, <4>1, <4>2
      <3> QED
        BY <1>f, <3>1, <3>2
    <2> QED
      BY <2>1, <2>2
  <1>2. PICK m \in Int :
           /\ k = Abs(c1) /\ l = Abs(c2) /\ k > 0 /\ l > 0
           /\ m > 0 /\ m < k + l
           /\ (k + l) * (cx - ax) + k * (dx - cx) = m * (bx - ax)
    <2>1. k > 0 /\ l > 0
      BY <1>a, <1>f DEF Abs
    <2> QED
      BY <1>a, <1>b, <2>1
  <1> DEFINE D == k + l
             N == k * (dx - cx)
  <1>3. D \in Int /\ D > 0 /\ N \in Int /\ k >= 0 /\ k <= D /\ m >= 0 /\ m <= D
    BY <1>2
  <1>4. N = m * (bx - ax) + (ax - cx) * D
    BY <1>2
  <1>5. ASSUME NEW lo \in Int, NEW hi \in Int, lo * D <= N, N <= hi * D
        PROVE  r \in Int /\ lo <= r /\ r <= hi
    <2>1. r = llround(N, D)
      BY <1>2
    <2> HIDE DEF D, N
    <2> QED
      BY <1>3, <1>5, <2>1, RoundedBetween
  <1> HIDE DEF D, N
  <1>6. r \in Int /\ Between(cx, cx + r, dx)
    <2>1. CASE dx >= cx
      <3>1. 0 * D <= N /\ N <= (dx - cx) * D
        <4>1. 0 * (dx - cx) <= k * (dx - cx) /\ k * (dx - cx) <= D * (dx - cx)
          BY <1>3, <2>1, ScaledOrder
        <4> QED
          BY <1>3, <4>1 DEF N
      <3>2. r \in Int /\ 0 <= r /\ r <= dx - cx
        BY <1>5, <3>1
      <3> QED
        BY <2>1, <3>2 DEF Between, Least, Greatest
    <2>2. CASE dx < cx
      <3>1. (dx - cx) * D <= N /\ N <= 0 * D
        <4>1. 0 * (cx - dx) <= k * (cx - dx) /\ k * (cx - dx) <= D * (cx - dx)
          BY <1>3, <2>2, ScaledOrder
        <4> QED
          BY <1>3, <4>1 DEF N
      <3>2. r \in Int /\ dx - cx <= r /\ r <= 0
        BY <1>5, <3>1
      <3> QED
        BY <2>2, <3>2 DEF Between, Least, Greatest
    <2> QED
      BY <2>1, <2>2
  <1>7. Between(ax, cx + r, bx)
    <2>1. CASE bx >= ax
      <3>1. (ax - cx) * D <= N /\ N <= (bx - cx) * D
        <4>1. 0 * (bx - ax) <= m * (bx - ax) /\ m * (bx - ax) <= D * (bx - ax)
          BY <1>2, <1>3, <2>1, ScaledOrder
        <4>2. D * (bx - ax) + (ax - cx) * D = (bx - cx) * D
          BY <1>3
        <4> QED
          BY <1>2, <1>3, <1>4, <4>1, <4>2
      <3>2. ax - cx <= r /\ r <= bx - cx
        BY <1>5, <3>1
      <3> QED
        BY <1>6, <2>1, <3>2 DEF Between, Least, Greatest
    <2>2. CASE bx < ax
      <3>1. (bx - cx) * D <= N /\ N <= (ax - cx) * D
        <4>1. 0 * (ax - bx) <= m * (ax - bx) /\ m * (ax - bx) <= D * (ax - bx)
          BY <1>2, <1>3, <2>2, ScaledOrder
        <4>2. (ax - cx) * D - D * (ax - bx) = (bx - cx) * D
          BY <1>3
        <4>3. m * (bx - ax) = 0 - m * (ax - bx)
          BY <1>2
        <4> QED
          BY <1>2, <1>3, <1>4, <4>1, <4>2, <4>3
      <3>2. bx - cx <= r /\ r <= ax - cx
        BY <1>5, <3>1
      <3> QED
        BY <1>6, <2>2, <3>2 DEF Between, Least, Greatest
    <2> QED
      BY <2>1, <2>2
  <1> QED
    BY <1>6, <1>7

\* What is between two ends of a segment.
InBox(s, p) == Between(s.a.x, p.x, s.b.x)

\* An endpoint that is on the other segment is in its box.
LEMMA OnSegment ==
    ASSUME NEW a \in Point, NEW b \in Point, NEW p \in Point,
           cross(Sub(b, a), Sub(p, a)) = 0, dot(Sub(p, a), Sub(b, p)) > 0
    PROVE  Between(a.x, p.x, b.x)
  <1> DEFINE ux == p.x - a.x  uy == p.y - a.y  vx == b.x - p.x  vy == b.y - p.y
  <1>1. a.x \in Int /\ a.y \in Int /\ b.x \in Int /\ b.y \in Int /\ p.x \in Int /\ p.y \in Int
    BY DEF Point
  <1>2. (b.x - a.x) * uy - (b.y - a.y) * ux = 0 /\ ux * vx + uy * vy > 0
    BY DEF cross, dot, Sub
  <1>3. b.x - a.x = ux + vx /\ b.y - a.y = uy + vy
    BY <1>1
  <1>4. ux \in Int /\ uy \in Int /\ vx \in Int /\ vy \in Int
    BY <1>1
  <1>5. (ux >= 0 /\ vx >= 0) \/ (ux <= 0 /\ vx <= 0)
    <2> HIDE DEF ux, uy, vx, vy
    <2> QED
      BY <1>2, <1>3, <1>4, SameSide
  <1> QED
    BY <1>1, <1>5 DEF Between, Least, Greatest

\* Where intersect lets two segments meet is in the boxes of both.
LEMMA MeetingIsInBoxes ==
    ASSUME NEW s1, NEW s2, s1.a \in Point, s1.b \in Point, s2.a \in Point, s2.b \in Point,
           intersect(s1, s2) # NoPoint
    PROVE  /\ intersect(s1, s2) \in Point
           /\ InBox(s1, intersect(s1, s2)) /\ InBox(s2, intersect(s1, s2))
  <1> DEFINE AB == Sub(s1.b, s1.a)
             AC == Sub(s2.a, s1.a)
             AD == Sub(s2.b, s1.a)
             CD == Sub(s2.b, s2.a)
             CB == Sub(s1.b, s2.a)
             DB == Sub(s1.b, s2.b)
             c1 == cross(AB, AC)
             c2 == cross(AB, AD)
             c3 == cross(CD, Sub(s1.a, s2.a))
             c4 == cross(CD, CB)
             ip == [x |-> s2.a.x + llround(Abs(c1) * CD.x, Abs(c1) + Abs(c2)),
                    y |-> s2.a.y + llround(Abs(c1) * CD.y, Abs(c1) + Abs(c2))]
             Meets(p) == p \in Point /\ InBox(s1, p) /\ InBox(s2, p)
  <1>1. \/ c1 = 0 /\ dot(AC, CB) > 0 /\ intersect(s1, s2) = s2.a
        \/ c2 = 0 /\ dot(AD, DB) > 0 /\ intersect(s1, s2) = s2.b
        \/ c3 = 0 /\ dot(AC, AD) < 0 /\ intersect(s1, s2) = s1.a
        \/ c4 = 0 /\ dot(CB, DB) < 0 /\ intersect(s1, s2) = s1.b
        \/ /\ c1 # 0 /\ c2 # 0 /\ c3 # 0 /\ c4 # 0
           /\ (c1 < 0) # (c2 < 0) /\ (c3 < 0) # (c4 < 0)
           /\ intersect(s1, s2) = ip
    BY DEF intersect
  <1>2. /\ s1.a.x \in Int /\ s1.a.y \in Int /\ s1.b.x \in Int /\ s1.b.y \in Int
        /\ s2.a.x \in Int /\ s2.a.y \in Int /\ s2.b.x \in Int /\ s2.b.y \in Int
    BY DEF Point
  <1>3. \A p \in {s1.a, s1.b} : InBox(s1, p)
    BY <1>2 DEF InBox, Between, Least, Greatest
  <1>4. \A p \in {s2.a, s2.b} : InBox(s2, p)
    BY <1>2 DEF InBox, Between, Least, Greatest
  <1>5. CASE c1 = 0 /\ dot(AC, CB) > 0 /\ intersect(s1, s2) = s2.a
    <2>1. Between(s1.a.x, s2.a.x, s1.b.x)
      BY <1>5, OnSegment
    <2> QED
      BY <1>4, <1>5, <2>1 DEF InBox
  <1>6. CASE c2 = 0 /\ dot(AD, DB) > 0 /\ intersect(s1, s2) = s2.b
    <2>1. Between(s1.a.x, s2.b.x, s1.b.x)
      BY <1>6, OnSegment
    <2> QED
      BY <1>4, <1>6, <2>1 DEF InBox
  <1>7. CASE c3 = 0 /\ dot(AC, AD) < 0 /\ intersect(s1, s2) = s1.a
    <2>1. dot(Sub(s1.a, s2.a), Sub(s2.b, s1.a)) = -dot(AC, AD)
      BY <1>2 DEF dot, Sub
    <2>2. dot(AC, AD) \in Int
      BY <1>2 DEF dot, Sub
    <2>3. Between(s2.a.x, s1.a.x, s2.b.x)
      <3>1. dot(Sub(s1.a, s2.a), Sub(s2.b, s1.a)) > 0
        BY <1>7, <2>1, <2>2
      <3> QED
        BY <1>7, <3>1, OnSegment
    <2> QED
      BY <1>3, <1>7, <2>3 DEF InBox
  <1>8. CASE c4 = 0 /\ dot(CB, DB) < 0 /\ intersect(s1, s2) = s1.b
    <2>1. dot(Sub(s1.b, s2.a), Sub(s2.b, s1.b)) = -dot(CB, DB)
      BY <1>2 DEF dot, Sub
    <2>2. dot(CB, DB) \in Int
      BY <1>2 DEF dot, Sub
    <2>3. Between(s2.a.x, s1.b.x, s2.b.x)
      <3>1. dot(Sub(s1.b, s2.a), Sub(s2.b, s1.b)) > 0
        BY <1>8, <2>1, <2>2
      <3> QED
        BY <1>8, <3>1, OnSegment
    <2> QED
      BY <1>3, <1>8, <2>3 DEF InBox
  <1>9. CASE /\ c1 # 0 /\ c2 # 0 /\ c3 # 0 /\ c4 # 0
             /\ (c1 < 0) # (c2 < 0) /\ (c3 < 0) # (c4 < 0)
             /\ intersect(s1, s2) = ip
    <2>1. CD.x = s2.b.x - s2.a.x /\ CD.y = s2.b.y - s2.a.y
      BY DEF Sub
    <2>2. c1 \in Int /\ c2 \in Int /\ c3 \in Int /\ c4 \in Int
      BY <1>2 DEF cross, Sub
    <2> PICK rx : rx = llround(Abs(c1) * (s2.b.x - s2.a.x), Abs(c1) + Abs(c2))
      OBVIOUS
    <2> PICK ry : ry = llround(Abs(c1) * (s2.b.y - s2.a.y), Abs(c1) + Abs(c2))
      OBVIOUS
    <2>3. (c1 < 0 /\ c2 > 0) \/ (c1 > 0 /\ c2 < 0)
      <3> HIDE DEF c1, c2, c3, c4
      <3> QED
        BY <1>9, <2>2
    <2>4. (c3 < 0 /\ c4 > 0) \/ (c3 > 0 /\ c4 < 0)
      <3> HIDE DEF c1, c2, c3, c4
      <3> QED
        BY <1>9, <2>2
    <2>5. /\ rx \in Int /\ Between(s1.a.x, s2.a.x + rx, s1.b.x)
          /\ Between(s2.a.x, s2.a.x + rx, s2.b.x)
      BY <2>3, <2>4, CrossingBetween
    <2> HIDE DEF c1, c2, c3, c4, CD
    <2>6. ry \in Int
      <3>1. Abs(c1) \in Int /\ Abs(c2) \in Int /\ Abs(c1) + Abs(c2) > 0
        BY <2>2, <2>3 DEF Abs
      <3> DEFINE n == Abs(c1) * (s2.b.y - s2.a.y)  d == Abs(c1) + Abs(c2)
      <3>2. n \in Int /\ d \in Int /\ d > 0
        BY <1>2, <3>1
      <3> HIDE DEF n, d
      <3>3. ((d - 2 * n) \div (2 * d)) \in Int /\ ((d + 2 * n) \div (2 * d)) \in Int
        <4>1. d - 2 * n \in Int /\ d + 2 * n \in Int /\ 2 * d \in Int /\ 2 * d > 0
          BY <3>2
        <4> QED
          BY <4>1, DivRoundsDown
      <3>4. llround(n, d) \in Int
        BY <3>3 DEF llround
      <3> QED
        BY <3>4 DEF n, d
    <2>7. intersect(s1, s2) = [x |-> s2.a.x + rx, y |-> s2.a.y + ry]
      BY <1>9, <2>1
    <2>8. intersect(s1, s2) \in Point /\ intersect(s1, s2).x = s2.a.x + rx
      BY <1>2, <2>5, <2>6, <2>7 DEF Point
    <2> QED
      BY <2>5, <2>8 DEF InBox
  <1> QED
    BY <1>1, <1>5, <1>6, <1>7, <1>8, <1>9

-----------------------------------------------------------------------------
(* Segments and their ends. *)

Lines == {Vertical} \cup {l \in Point \X Point : l[1].x < l[2].x}
Pieces == {s \in [a : Point, b : Point, line : Lines] :
             s.a # s.b /\ (~existlk(s) => s.a.x = s.b.x)}

\* The ends of the box of a segment.
MinX(s) == Least(s.a.x, s.b.x)
MaxX(s) == Greatest(s.a.x, s.b.x)

\* What Segment::init makes of two points is a piece.
LEMMA SegmentIsPiece ==
    ASSUME NEW p \in Point, NEW q \in Point, p # q
    PROVE  Segment(p, q) \in Pieces /\ Segment(p, q).a = p /\ Segment(p, q).b = q
  <1>1. Line(p, q) \in Lines
    BY DEF Line, Lines, Point
  <1>2. Line(p, q) = Vertical => p.x = q.x
    BY DEF Line, Vertical
  <1> QED
    BY <1>1, <1>2 DEF Segment, Pieces, existlk

\* So is the rest of a cut.
LEMMA RestIsPiece ==
    ASSUME NEW s \in Pieces, NEW p \in Point, NEW q \in Point, p # q
    PROVE  Rest(s, p, q) \in Pieces /\ Rest(s, p, q).a = p /\ Rest(s, p, q).b = q
  <1>1. CASE p.x = q.x /\ existlk(s)
    <2>1. Rest(s, p, q) = [a |-> p, b |-> q, line |-> s.line]
      BY <1>1 DEF Rest
    <2>2. s.line \in Lines
      BY DEF Pieces
    <2> QED
      BY <1>1, <2>1, <2>2 DEF Pieces
  <1>2. CASE ~(p.x = q.x /\ existlk(s))
    <2>1. Rest(s, p, q) = Segment(p, q)
      BY <1>2 DEF Rest
    <2> QED
      BY <2>1, SegmentIsPiece
  <1> QED
    BY <1>1, <1>2

\* What EventComp asks of an event beside its place.
IsEvent(e) == e.type \in {LEFT, RIGHT} /\ e.existlk \in BOOLEAN

\* The event of an endpoint: the first one is on the left of the box, the other on the right.
LEMMA EventOfEnd ==
    ASSUME NEW segs, NEW i \in DOMAIN segs, segs[i] \in Pieces, NEW t \in {LEFT, RIGHT}
    PROVE  /\ Event(segs, i, t).seg = i /\ Event(segs, i, t).type = t
           /\ Event(segs, i, t).x \in Int /\ IsEvent(Event(segs, i, t))
           /\ t = LEFT => Event(segs, i, t).x = MinX(segs[i])
           /\ t = RIGHT => Event(segs, i, t).x = MaxX(segs[i])
           /\ [x |-> Event(segs, i, t).x, y |-> Event(segs, i, t).y] \in VerticesOf(segs)
  <1> DEFINE s == segs[i]
             p == Endpoint(s, t)
  <1>1. s.a \in Point /\ s.b \in Point
    BY DEF Pieces
  <1>2. /\ s.a.x \in Int /\ s.b.x \in Int
        /\ s.a = [x |-> s.a.x, y |-> s.a.y] /\ s.b = [x |-> s.b.x, y |-> s.b.y]
    BY <1>1 DEF Point
  <1>3. /\ Event(segs, i, t).seg = i /\ Event(segs, i, t).type = t
        /\ Event(segs, i, t).x = p.x /\ Event(segs, i, t).y = p.y
        /\ IsEvent(Event(segs, i, t))
    BY DEF Event, IsEvent, existlk
  <1>4. /\ p = s.a \/ p = s.b
        /\ t = LEFT => p.x = MinX(s)
        /\ t = RIGHT => p.x = MaxX(s)
    <2>1. CASE t = LEFT
      <3>1. p = IF AFirst(s) THEN s.a ELSE s.b
        BY <2>1 DEF Endpoint
      <3> QED
        BY <1>2, <2>1, <3>1 DEF AFirst, MinX, Least, LEFT, RIGHT
    <2>2. CASE t = RIGHT
      <3>1. p = IF AFirst(s) THEN s.b ELSE s.a
        <4>1. t # LEFT
          BY <2>2 DEF LEFT, RIGHT
        <4> QED
          BY <4>1 DEF Endpoint, AFirst
      <3> QED
        BY <1>2, <2>2, <3>1 DEF AFirst, MaxX, Greatest, LEFT, RIGHT
    <2> QED
      BY <2>1, <2>2
  <1>5. s.a \in VerticesOf(segs) /\ s.b \in VerticesOf(segs)
    BY DEF VerticesOf
  <1>6. [x |-> p.x, y |-> p.y] \in VerticesOf(segs)
    <2>1. p = [x |-> p.x, y |-> p.y]
      BY <1>2, <1>4
    <2> QED
      BY <1>4, <1>5, <2>1
  <1> HIDE DEF p
  <1>7. p.x \in Int
    BY <1>2, <1>4 DEF MinX, MaxX, Least, Greatest
  <1> QED
    BY <1>3, <1>4, <1>6, <1>7

-----------------------------------------------------------------------------
(* Bags of events. *)

\* How often e is in q.
Copies(q, e) == IF e \in BagToSet(q) THEN q[e] ELSE 0

\* more is q with one e more.
OneMore(q, e, more) ==
    /\ IsABag(more) /\ BagToSet(more) = BagToSet(q) \cup {e}
    /\ \A f : f # e => Copies(more, f) = Copies(q, f)
    /\ e \notin BagToSet(q) => Copies(more, e) = 1

LEMMA PlusOne ==
    ASSUME NEW q, IsABag(q), NEW e, NEW more, more = q (+) SetToBag({e})
    PROVE  OneMore(q, e, more)
  BY DEF OneMore, IsABag, BagToSet, SetToBag, Copies, (+)

\* less is q with one e less.
OneLess(q, e, less) ==
    /\ IsABag(less) /\ BagToSet(less) \subseteq BagToSet(q)
    /\ \A f : f # e => Copies(less, f) = Copies(q, f)
    /\ Copies(q, e) = 1 => e \notin BagToSet(less)

LEMMA MinusOne ==
    ASSUME NEW q, IsABag(q), NEW e \in BagToSet(q), NEW less, less = q (-) SetToBag({e})
    PROVE  OneLess(q, e, less)
  BY DEF OneLess, IsABag, BagToSet, SetToBag, Copies, (-)

-----------------------------------------------------------------------------
(* What the sweep keeps of its segments and its events. *)

\* The events of q, of the segments segs, are sound when the sweep line is at x: each is
\* of a segment, at a vertex and not behind; a LEFT event is where its segment begins, and
\* the only one of its segment.
Sound(segs, q, x) ==
    /\ segs \in Seq(Pieces)
    /\ IsABag(q)
    /\ \A e \in BagToSet(q) :
         /\ e.seg \in DOMAIN segs /\ IsEvent(e) /\ e.x \in Int /\ e.x >= x
         /\ [x |-> e.x, y |-> e.y] \in VerticesOf(segs)
         /\ e.type = LEFT => e.x = MinX(segs[e.seg]) /\ Copies(q, e) = 1
    /\ \A e, f \in BagToSet(q) : e.type = LEFT /\ f.type = LEFT /\ e.seg = f.seg => e = f

\* segs2 with the events q2 are what cuts can make of segs with q: the old segments keep
\* their places, reach x if they did, and get no LEFT event; no point gains or loses a start.
Grows(segs, q, segs2, q2, x) ==
    /\ Sound(segs2, q2, x)
    /\ Len(segs) <= Len(segs2)
    /\ \A j \in DOMAIN segs : MaxX(segs[j]) >= x => MaxX(segs2[j]) >= x
    /\ \A e \in BagToSet(q2) : e.type = LEFT /\ e.seg \in DOMAIN segs => e \in BagToSet(q)
    /\ \A p \in Point : Surplus(p, segs2) = Surplus(p, segs)

LEMMA NothingGrows ==
    ASSUME NEW segs, NEW q, NEW x, Sound(segs, q, x)
    PROVE  Grows(segs, q, segs, q, x)
  <1>1. Len(segs) <= Len(segs)
    BY DEF Sound
  <1> QED
    BY <1>1 DEF Grows

LEMMA GrowsOn ==
    ASSUME NEW segs, NEW q, NEW segs2, NEW q2, NEW segs3, NEW q3, NEW x,
           Sound(segs, q, x), Grows(segs, q, segs2, q2, x), Grows(segs2, q2, segs3, q3, x)
    PROVE  Grows(segs, q, segs3, q3, x)
  <1>1. segs \in Seq(Pieces) /\ segs2 \in Seq(Pieces) /\ segs3 \in Seq(Pieces)
    BY DEF Grows, Sound
  <1>2. Len(segs) <= Len(segs2) /\ Len(segs2) <= Len(segs3)
    BY DEF Grows
  <1>3. Len(segs) <= Len(segs3) /\ DOMAIN segs \subseteq DOMAIN segs2
    BY <1>1, <1>2
  <1>4. \A j \in DOMAIN segs : MaxX(segs[j]) >= x => MaxX(segs3[j]) >= x
    BY <1>3 DEF Grows
  <1>5. \A e \in BagToSet(q3) : e.type = LEFT /\ e.seg \in DOMAIN segs => e \in BagToSet(q)
    BY <1>3 DEF Grows
  <1>6. \A p \in Point : Surplus(p, segs3) = Surplus(p, segs)
    BY DEF Grows
  <1> QED
    BY <1>3, <1>4, <1>5, <1>6 DEF Grows

LEMMA LongerDomain ==
    ASSUME NEW segs \in Seq(Pieces), NEW more \in Seq(Pieces), Len(segs) <= Len(more)
    PROVE  DOMAIN segs \subseteq DOMAIN more
  OBVIOUS

\* A new event that is not behind; a LEFT event is the first of its segment.
LEMMA PushIsSound ==
    ASSUME NEW segs, NEW q, NEW x, Sound(segs, q, x), NEW i \in DOMAIN segs,
           NEW t \in {LEFT, RIGHT}, Event(segs, i, t).x >= x,
           t = LEFT => \A e \in BagToSet(q) : ~(e.type = LEFT /\ e.seg = i)
    PROVE  /\ Sound(segs, Push(q, segs, i, t), x)
           /\ BagToSet(Push(q, segs, i, t)) = BagToSet(q) \cup {Event(segs, i, t)}
           /\ Event(segs, i, t).type = t /\ Event(segs, i, t).seg = i
  <1> PICK n : n = Event(segs, i, t)
    OBVIOUS
  <1> PICK q2 : q2 = Push(q, segs, i, t)
    OBVIOUS
  <1>1. /\ segs \in Seq(Pieces) /\ IsABag(q) /\ segs[i] \in Pieces
    BY DEF Sound
  <1>2. /\ n.seg = i /\ n.type = t /\ IsEvent(n) /\ n.x \in Int /\ n.x >= x
        /\ t = LEFT => n.x = MinX(segs[i])
        /\ [x |-> n.x, y |-> n.y] \in VerticesOf(segs)
    BY <1>1, EventOfEnd
  <1>3. /\ IsABag(q2) /\ BagToSet(q2) = BagToSet(q) \cup {n}
        /\ \A f : f # n => Copies(q2, f) = Copies(q, f)
        /\ n \notin BagToSet(q) => Copies(q2, n) = 1
    <2>1. q2 = q (+) SetToBag({n})
      BY DEF Push
    <2>2. OneMore(q, n, q2)
      BY <1>1, <2>1, PlusOne
    <2> QED
      BY <2>2 DEF OneMore
  <1>4. n.type = LEFT => n \notin BagToSet(q)
    BY <1>2
  <1>5. \A e \in BagToSet(q2) :
         /\ e.seg \in DOMAIN segs /\ IsEvent(e) /\ e.x \in Int /\ e.x >= x
         /\ [x |-> e.x, y |-> e.y] \in VerticesOf(segs)
         /\ e.type = LEFT => e.x = MinX(segs[e.seg]) /\ Copies(q2, e) = 1
    <2> TAKE e \in BagToSet(q2)
    <2>1. CASE e = n
      BY <1>2, <1>3, <1>4, <2>1
    <2>2. CASE e # n
      BY <1>3, <2>2 DEF Sound
    <2> QED
      BY <2>1, <2>2
  <1>6. \A e, f \in BagToSet(q2) : e.type = LEFT /\ f.type = LEFT /\ e.seg = f.seg => e = f
    BY <1>2, <1>3 DEF Sound
  <1> QED
    BY <1>1, <1>2, <1>3, <1>5, <1>6 DEF Sound

\* A piece that is cut: what it keeps begins where it did, the rest at the cut, and both end
\* to the right of it.
IsCut(s, ip, kept, rest) ==
    /\ kept \in Pieces /\ rest \in Pieces
    /\ \/ kept.a = s.a /\ kept.b = ip /\ rest.a = ip /\ rest.b = s.b
       \/ kept.a = ip /\ kept.b = s.b /\ rest.a = s.a /\ rest.b = ip
    /\ MinX(kept) = MinX(s) /\ MaxX(kept) = ip.x /\ MinX(rest) = ip.x

\* The segments after a cut of segment i.
After(segs, i, kept, rest) == Append([segs EXCEPT ![i] = kept], rest)

\* The work after a cut of segment i at ip.
CutsTo(w, v, i, ip) ==
    \E kept, rest, segs :
        /\ IsCut(w.segments[i], ip, kept, rest)
        /\ segs = After(w.segments, i, kept, rest)
        /\ v.segments = segs
        /\ \/ v.Q = Push(w.Q, segs, Len(segs), LEFT)
           \/ v.Q = Push(Push(w.Q, segs, Len(segs), LEFT), segs, i, RIGHT)

LEMMA CutCuts ==
    ASSUME NEW w, NEW i, w.segments[i] \in Pieces, NEW ip \in Point,
           Inside(w.segments[i], ip), InBox(w.segments[i], ip), NEW ends \in BOOLEAN,
           NEW v, v = Cut(w, i, ip, ends)
    PROVE  CutsTo(w, v, i, ip)
  <1> DEFINE s == w.segments[i]
  <1>1. /\ s.a \in Point /\ s.b \in Point /\ s \in [a : Point, b : Point, line : Lines]
        /\ ip # s.a /\ ip # s.b /\ (~existlk(s) => s.a.x = s.b.x)
    BY DEF Pieces, Inside
  <1>2. s.a.x \in Int /\ s.b.x \in Int /\ ip.x \in Int
    BY <1>1 DEF Point
  <1>3. \E kept, rest :
          /\ IsCut(s, ip, kept, rest)
          /\ v = [segments |-> After(w.segments, i, kept, rest),
                  Q |-> IF ends
                        THEN Push(Push(w.Q, After(w.segments, i, kept, rest),
                                       Len(After(w.segments, i, kept, rest)), LEFT),
                                  After(w.segments, i, kept, rest), i, RIGHT)
                        ELSE Push(w.Q, After(w.segments, i, kept, rest),
                                  Len(After(w.segments, i, kept, rest)), LEFT)]
    <2>1. CASE (~existlk(s) /\ s.a.y < s.b.y) \/ s.a.x < s.b.x
      <3> DEFINE kept == [s EXCEPT !.b = ip]
                 rest == Rest(s, ip, s.b)
      <3>3. s.a.x <= s.b.x
        BY <1>1, <1>2, <2>1
      <3>0. ~existlk(s) => s.a.x = ip.x
        BY <1>1, <1>2 DEF InBox, Between, Least, Greatest
      <3>1. kept \in Pieces /\ kept.a = s.a /\ kept.b = ip
        BY <1>1, <3>0 DEF Pieces, existlk
      <3>2. rest \in Pieces /\ rest.a = ip /\ rest.b = s.b
        BY <1>1, RestIsPiece
      <3>4. IsCut(s, ip, kept, rest)
        <4> HIDE DEF kept, rest
        <4> QED
          BY <1>2, <3>1, <3>2, <3>3
          DEF IsCut, InBox, Between, MinX, MaxX, Least, Greatest
      <3>5. v = [segments |-> After(w.segments, i, kept, rest),
                 Q |-> IF ends
                       THEN Push(Push(w.Q, After(w.segments, i, kept, rest),
                                      Len(After(w.segments, i, kept, rest)), LEFT),
                                 After(w.segments, i, kept, rest), i, RIGHT)
                       ELSE Push(w.Q, After(w.segments, i, kept, rest),
                                 Len(After(w.segments, i, kept, rest)), LEFT)]
        BY <2>1 DEF Cut, After
      <3> QED
        BY <3>4, <3>5
    <2>2. CASE ~((~existlk(s) /\ s.a.y < s.b.y) \/ s.a.x < s.b.x)
      <3> DEFINE kept == [s EXCEPT !.a = ip]
                 rest == Rest(s, s.a, ip)
      <3>0. ~existlk(s) => s.b.x = ip.x
        BY <1>1, <1>2 DEF InBox, Between, Least, Greatest
      <3>1. kept \in Pieces /\ kept.a = ip /\ kept.b = s.b
        BY <1>1, <3>0 DEF Pieces, existlk
      <3>2. rest \in Pieces /\ rest.a = s.a /\ rest.b = ip
        BY <1>1, RestIsPiece
      <3>3. s.b.x <= s.a.x
        BY <1>2, <2>2
      <3>4. IsCut(s, ip, kept, rest)
        <4> HIDE DEF kept, rest
        <4> QED
          BY <1>2, <3>1, <3>2, <3>3
          DEF IsCut, InBox, Between, MinX, MaxX, Least, Greatest
      <3>5. v = [segments |-> After(w.segments, i, kept, rest),
                 Q |-> IF ends
                       THEN Push(Push(w.Q, After(w.segments, i, kept, rest),
                                      Len(After(w.segments, i, kept, rest)), LEFT),
                                 After(w.segments, i, kept, rest), i, RIGHT)
                       ELSE Push(w.Q, After(w.segments, i, kept, rest),
                                 Len(After(w.segments, i, kept, rest)), LEFT)]
        BY <2>2 DEF Cut, After
      <3> QED
        BY <3>4, <3>5
    <2> QED
      BY <2>1, <2>2
  <1> QED
    BY <1>3 DEF CutsTo

-----------------------------------------------------------------------------
(* The flow through a point. *)

\* How often p is in f.
Count(f, p) == Cardinality({j \in DOMAIN f : f[j] = p})
One(q, p) == IF q = p THEN 1 ELSE 0

\* C is B, with k if q is p.
WithIf(C, B, k, q, p) == C = IF q = p THEN B \cup {k} ELSE B
Adds(C, B, q, p) ==
    IsFiniteSet(C) /\ Cardinality(C) \in Nat /\ Cardinality(C) = Cardinality(B) + One(q, p)

LEMMA CardWithIf ==
    ASSUME NEW B, IsFiniteSet(B), NEW k, k \notin B, NEW q, NEW p, NEW C, WithIf(C, B, k, q, p)
    PROVE  Adds(C, B, q, p)
  <1>1. Cardinality(B) \in Nat
    BY FS_CardinalityType
  <1>2. CASE q = p
    <2>1. C = B \cup {k}
      BY <1>2 DEF WithIf
    <2>2. IsFiniteSet(C) /\ Cardinality(C) = Cardinality(B) + 1
      BY <2>1, FS_AddElement
    <2> QED
      BY <1>1, <1>2, <2>2 DEF One, Adds
  <1>3. CASE q # p
    <2>1. C = B /\ One(q, p) = 0
      BY <1>3 DEF One, WithIf
    <2> QED
      BY <1>1, <2>1 DEF Adds
  <1> QED
    BY <1>2, <1>3

\* A sequence whose entry i is replaced, with one entry more.
Counted(f, g, i, p) ==
    /\ Count(f, p) \in Int /\ Count(g, p) \in Int
    /\ Count(g, p) = Count(f, p) - One(f[i], p) + One(g[i], p) + One(g[Len(g)], p)

LEMMA CountAfter ==
    ASSUME NEW S, NEW f \in Seq(S), NEW g \in Seq(S), Len(g) = Len(f) + 1,
           NEW i \in DOMAIN f, \A j \in DOMAIN f : j # i => g[j] = f[j],
           NEW p
    PROVE  Counted(f, g, i, p)
  <1> PICK n : n = Len(f)
    OBVIOUS
  <1>1. n \in Nat /\ DOMAIN f = 1..n /\ DOMAIN g = 1..(n + 1) /\ i \in 1..n /\ Len(g) = n + 1
    OBVIOUS
  <1> PICK B : B = {j \in DOMAIN f : j # i /\ f[j] = p}
    OBVIOUS
  <1> PICK C : C = {j \in DOMAIN g : j # n + 1 /\ g[j] = p}
    OBVIOUS
  <1> PICK F : F = {j \in DOMAIN f : f[j] = p}
    OBVIOUS
  <1> PICK G : G = {j \in DOMAIN g : g[j] = p}
    OBVIOUS
  <1>2. IsFiniteSet(B) /\ i \notin B
    <2>1. B \subseteq 1..n /\ IsFiniteSet(1..n)
      BY <1>1, FS_Interval
    <2> QED
      BY <2>1, FS_Subset
  <1>3. Cardinality(B) \in Nat
    BY <1>2, FS_CardinalityType
  <1>4. WithIf(F, B, i, f[i], p)
    BY DEF WithIf
  <1>5. WithIf(C, B, i, g[i], p)
    BY <1>1 DEF WithIf
  <1>6. WithIf(G, C, n + 1, g[n + 1], p)
    BY <1>1 DEF WithIf
  <1>7. Adds(F, B, f[i], p)
    BY <1>2, <1>4, CardWithIf
  <1>8. Adds(C, B, g[i], p)
    BY <1>2, <1>5, CardWithIf
  <1>9. Adds(G, C, g[n + 1], p)
    <2>1. n + 1 \notin C
      OBVIOUS
    <2>2. IsFiniteSet(C)
      BY <1>8 DEF Adds
    <2> QED
      BY <1>6, <2>1, <2>2, CardWithIf
  <1>10. One(f[i], p) \in Nat /\ One(g[i], p) \in Nat /\ One(g[n + 1], p) \in Nat
    BY DEF One
  <1>11. Count(f, p) = Cardinality(F) /\ Count(g, p) = Cardinality(G) /\ g[Len(g)] = g[n + 1]
    BY <1>1 DEF Count
  <1> QED
    BY <1>3, <1>7, <1>8, <1>9, <1>10, <1>11 DEF Adds, Counted

\* The points where the segments start, and where they end.
Starts(segs) == [j \in DOMAIN segs |-> segs[j].a]
Ends(segs) == [j \in DOMAIN segs |-> segs[j].b]

LEMMA SurplusCounts ==
    ASSUME NEW segs \in Seq(Pieces), NEW p
    PROVE  /\ Starts(segs) \in Seq(Point) /\ Ends(segs) \in Seq(Point)
           /\ Len(Starts(segs)) = Len(segs) /\ Len(Ends(segs)) = Len(segs)
           /\ Surplus(p, segs) = Count(Starts(segs), p) - Count(Ends(segs), p)
  <1>1. \A j \in DOMAIN segs : segs[j].a \in Point /\ segs[j].b \in Point
    BY DEF Pieces
  <1>2. {j \in DOMAIN segs : segs[j].a = p} = {j \in DOMAIN Starts(segs) : Starts(segs)[j] = p}
    BY DEF Starts
  <1>3. {j \in DOMAIN segs : segs[j].b = p} = {j \in DOMAIN Ends(segs) : Ends(segs)[j] = p}
    BY DEF Ends
  <1>4. Surplus(p, segs) = Count(Starts(segs), p) - Count(Ends(segs), p)
    BY <1>2, <1>3 DEF Surplus, Count
  <1> QED
    BY <1>1, <1>4 DEF Starts, Ends

\* The segments after a cut are pieces, and the vertices are still vertices.
LEMMA AfterCut ==
    ASSUME NEW segs \in Seq(Pieces), NEW i \in DOMAIN segs, NEW ip, NEW kept, NEW rest,
           IsCut(segs[i], ip, kept, rest), NEW more, more = After(segs, i, kept, rest)
    PROVE  /\ more \in Seq(Pieces) /\ Len(more) = Len(segs) + 1
           /\ more[i] = kept /\ more[Len(more)] = rest
           /\ \A j \in DOMAIN segs : j # i => more[j] = segs[j]
           /\ VerticesOf(segs) \subseteq VerticesOf(more)
  <1>1. kept \in Pieces /\ rest \in Pieces
    BY DEF IsCut
  <1>2. [segs EXCEPT ![i] = kept] \in Seq(Pieces) /\ Len([segs EXCEPT ![i] = kept]) = Len(segs)
    BY <1>1
  <1>3. /\ more \in Seq(Pieces) /\ Len(more) = Len(segs) + 1
        /\ more[i] = kept /\ more[Len(more)] = rest
        /\ \A j \in DOMAIN segs : j # i => more[j] = segs[j]
    BY <1>1, <1>2 DEF After
  <1>4. ASSUME NEW p \in VerticesOf(segs) PROVE p \in VerticesOf(more)
    <2>1. PICK j \in DOMAIN segs : p \in {segs[j].a, segs[j].b}
      BY <1>4 DEF VerticesOf
    <2>2. \E k \in DOMAIN more : p \in {more[k].a, more[k].b}
      <3>1. CASE j # i
        BY <1>3, <2>1, <3>1
      <3>2. CASE j = i
        <4>1. i \in DOMAIN more /\ Len(more) \in DOMAIN more
          BY <1>3
        <4>2. p \in {kept.a, kept.b, rest.a, rest.b}
          BY <2>1, <3>2 DEF IsCut
        <4> QED
          BY <1>3, <4>1, <4>2
      <3> QED
        BY <3>1, <3>2
    <2> QED
      BY <2>2 DEF VerticesOf
  <1> QED
    BY <1>3, <1>4

\* A cut keeps the flow: the cut is an end of the one part and the start of the other.
LEMMA CutKeepsFlow ==
    ASSUME NEW segs \in Seq(Pieces), NEW i \in DOMAIN segs, NEW ip, NEW kept, NEW rest,
           IsCut(segs[i], ip, kept, rest), NEW more, more = After(segs, i, kept, rest),
           NEW p
    PROVE  Surplus(p, more) = Surplus(p, segs)
  <1>1. /\ more \in Seq(Pieces) /\ Len(more) = Len(segs) + 1
        /\ more[i] = kept /\ more[Len(more)] = rest
        /\ \A j \in DOMAIN segs : j # i => more[j] = segs[j]
    BY AfterCut
  <1>2. i \in DOMAIN more /\ Len(more) \in DOMAIN more /\ DOMAIN segs \subseteq DOMAIN more
    BY <1>1
  <1>3. /\ Count(Starts(segs), p) \in Int /\ Count(Starts(more), p) \in Int
        /\ Count(Starts(more), p)
             = Count(Starts(segs), p) - One(segs[i].a, p) + One(kept.a, p) + One(rest.a, p)
    <2>1. /\ Starts(segs) \in Seq(Point) /\ Starts(more) \in Seq(Point)
          /\ Len(Starts(more)) = Len(Starts(segs)) + 1 /\ i \in DOMAIN Starts(segs)
      BY <1>1, SurplusCounts DEF Starts
    <2>2. /\ \A j \in DOMAIN Starts(segs) : j # i => Starts(more)[j] = Starts(segs)[j]
          /\ Starts(segs)[i] = segs[i].a /\ Starts(more)[i] = kept.a
          /\ Starts(more)[Len(Starts(more))] = rest.a
      BY <1>1, <1>2, SurplusCounts DEF Starts
    <2>3. Counted(Starts(segs), Starts(more), i, p)
      BY <2>1, <2>2, CountAfter
    <2> QED
      BY <2>2, <2>3 DEF Counted
  <1>4. /\ Count(Ends(segs), p) \in Int /\ Count(Ends(more), p) \in Int
        /\ Count(Ends(more), p)
             = Count(Ends(segs), p) - One(segs[i].b, p) + One(kept.b, p) + One(rest.b, p)
    <2>1. /\ Ends(segs) \in Seq(Point) /\ Ends(more) \in Seq(Point)
          /\ Len(Ends(more)) = Len(Ends(segs)) + 1 /\ i \in DOMAIN Ends(segs)
      BY <1>1, SurplusCounts DEF Ends
    <2>2. /\ \A j \in DOMAIN Ends(segs) : j # i => Ends(more)[j] = Ends(segs)[j]
          /\ Ends(segs)[i] = segs[i].b /\ Ends(more)[i] = kept.b
          /\ Ends(more)[Len(Ends(more))] = rest.b
      BY <1>1, <1>2, SurplusCounts DEF Ends
    <2>3. Counted(Ends(segs), Ends(more), i, p)
      BY <2>1, <2>2, CountAfter
    <2> QED
      BY <2>2, <2>3 DEF Counted
  <1>5. /\ Surplus(p, segs) = Count(Starts(segs), p) - Count(Ends(segs), p)
        /\ Surplus(p, more) = Count(Starts(more), p) - Count(Ends(more), p)
    BY <1>1, SurplusCounts
  <1>6. One(kept.a, p) + One(rest.a, p) - One(segs[i].a, p)
          = One(kept.b, p) + One(rest.b, p) - One(segs[i].b, p)
    BY DEF IsCut, One
  <1>7. /\ One(segs[i].a, p) \in Int /\ One(kept.a, p) \in Int /\ One(rest.a, p) \in Int
        /\ One(segs[i].b, p) \in Int /\ One(kept.b, p) \in Int /\ One(rest.b, p) \in Int
    BY DEF One
  <1>8. Count(Starts(more), p) - Count(Starts(segs), p)
          = One(kept.a, p) + One(rest.a, p) - One(segs[i].a, p)
    BY <1>3, <1>7
  <1>9. Count(Ends(more), p) - Count(Ends(segs), p)
          = One(kept.b, p) + One(rest.b, p) - One(segs[i].b, p)
    BY <1>4, <1>7
  <1> QED
    BY <1>3, <1>4, <1>5, <1>6, <1>8, <1>9

-----------------------------------------------------------------------------
(* Cuts of segments that the events know. *)

\* A cut that is not behind keeps what is sound, with the events that it adds.
LEMMA CutGrows ==
    ASSUME NEW segs, NEW q, NEW x \in Int, Sound(segs, q, x), NEW i \in DOMAIN segs,
           NEW ip \in Point, ip.x >= x, NEW kept, NEW rest,
           IsCut(segs[i], ip, kept, rest), NEW more, more = After(segs, i, kept, rest),
           NEW q1, q1 = Push(q, more, Len(more), LEFT),
           NEW q2, q2 = Push(q1, more, i, RIGHT)
    PROVE  Grows(segs, q, more, q1, x) /\ Grows(segs, q, more, q2, x)
  <1> PICK n : n = Len(more)
    OBVIOUS
  <1>1. segs \in Seq(Pieces) /\ kept \in Pieces /\ rest \in Pieces /\ ip.x \in Int
    BY DEF Sound, IsCut, Point
  <1>2. /\ more \in Seq(Pieces) /\ n = Len(segs) + 1
        /\ more[i] = kept /\ more[n] = rest
        /\ \A j \in DOMAIN segs : j # i => more[j] = segs[j]
        /\ VerticesOf(segs) \subseteq VerticesOf(more)
    BY <1>1, AfterCut
  <1>3. /\ Len(segs) <= Len(more) /\ DOMAIN segs \subseteq DOMAIN more
        /\ i \in DOMAIN more /\ n \in DOMAIN more /\ n \notin DOMAIN segs
    <2>1. Len(segs) \in Nat /\ DOMAIN segs = 1..Len(segs)
      BY <1>1
    <2>2. more \in Seq(Pieces) /\ Len(more) = Len(segs) + 1 /\ Len(more) = n
      BY <1>2
    <2>3. DOMAIN more = 1..Len(more)
      BY <2>2
    <2> QED
      BY <1>2, <2>1, <2>2, <2>3
  <1>4. \A j \in DOMAIN segs : MinX(more[j]) = MinX(segs[j])
    BY <1>2 DEF IsCut
  <1>5. \A j \in DOMAIN segs : MaxX(segs[j]) >= x => MaxX(more[j]) >= x
    <2> TAKE j \in DOMAIN segs
    <2>1. CASE j = i
      BY <1>1, <1>2, <2>1 DEF IsCut
    <2>2. CASE j # i
      BY <1>2, <2>2
    <2> QED
      BY <2>1, <2>2
  <1>6. Sound(more, q, x)
    <2>1. \A e \in BagToSet(q) :
            /\ e.seg \in DOMAIN more /\ IsEvent(e) /\ e.x \in Int /\ e.x >= x
            /\ [x |-> e.x, y |-> e.y] \in VerticesOf(more)
            /\ e.type = LEFT => e.x = MinX(more[e.seg]) /\ Copies(q, e) = 1
      BY <1>2, <1>3, <1>4 DEF Sound
    <2> QED
      BY <1>2, <2>1 DEF Sound
  <1> PICK e1 : e1 = Event(more, n, LEFT)
    OBVIOUS
  <1> PICK e2 : e2 = Event(more, i, RIGHT)
    OBVIOUS
  <1>7. e1.x >= x
    <2>1. e1.x = MinX(more[n]) /\ e1.x \in Int
      BY <1>1, <1>2, <1>3, EventOfEnd
    <2> QED
      BY <1>1, <1>2, <2>1 DEF IsCut
  <1>8. Sound(more, q1, x) /\ BagToSet(q1) = BagToSet(q) \cup {e1} /\ e1.type = LEFT /\ e1.seg = n
    <2>1. \A e \in BagToSet(q) : ~(e.type = LEFT /\ e.seg = n)
      BY <1>3 DEF Sound
    <2> QED
      BY <1>3, <1>6, <1>7, <2>1, PushIsSound
  <1>9. e2.x >= x
    <2>1. e2.x = MaxX(more[i]) /\ e2.x \in Int
      BY <1>1, <1>2, <1>3, EventOfEnd
    <2> QED
      BY <1>1, <1>2, <2>1 DEF IsCut
  <1>10. Sound(more, q2, x) /\ BagToSet(q2) = BagToSet(q1) \cup {e2} /\ e2.type = RIGHT
    BY <1>3, <1>8, <1>9, PushIsSound DEF LEFT, RIGHT
  <1>11. \A p \in Point : Surplus(p, more) = Surplus(p, segs)
    BY <1>1, CutKeepsFlow
  <1>12. \A e \in BagToSet(q1) : e.type = LEFT /\ e.seg \in DOMAIN segs => e \in BagToSet(q)
    BY <1>3, <1>8
  <1>13. \A e \in BagToSet(q2) : e.type = LEFT /\ e.seg \in DOMAIN segs => e \in BagToSet(q)
    BY <1>10, <1>12 DEF LEFT, RIGHT
  <1> QED
    BY <1>3, <1>5, <1>8, <1>10, <1>11, <1>12, <1>13 DEF Grows

\* A work whose cut or whose two cuts are where the sweep line is or to the right of it.
WorkGrows(w, v, x) == Grows(w.segments, w.Q, v.segments, v.Q, x)

LEMMA CutWorkGrows ==
    ASSUME NEW w, NEW v, NEW x \in Int, Sound(w.segments, w.Q, x), NEW i \in DOMAIN w.segments,
           NEW ip \in Point, ip.x >= x, CutsTo(w, v, i, ip)
    PROVE  WorkGrows(w, v, x) /\ \A j \in DOMAIN w.segments : j # i => v.segments[j] = w.segments[j]
  <1>1. PICK kept, rest, segs :
          /\ IsCut(w.segments[i], ip, kept, rest)
          /\ segs = After(w.segments, i, kept, rest)
          /\ v.segments = segs
          /\ \/ v.Q = Push(w.Q, segs, Len(segs), LEFT)
             \/ v.Q = Push(Push(w.Q, segs, Len(segs), LEFT), segs, i, RIGHT)
    BY DEF CutsTo
  <1> PICK q1 : q1 = Push(w.Q, segs, Len(segs), LEFT)
    OBVIOUS
  <1> PICK q2 : q2 = Push(q1, segs, i, RIGHT)
    OBVIOUS
  <1>2. Grows(w.segments, w.Q, segs, q1, x) /\ Grows(w.segments, w.Q, segs, q2, x)
    BY <1>1, CutGrows
  <1>3. \A j \in DOMAIN w.segments : j # i => v.segments[j] = w.segments[j]
    BY <1>1, AfterCut DEF Sound
  <1> QED
    BY <1>1, <1>2, <1>3 DEF WorkGrows

\* A cut at a point of the segment, if it is not an end.
LEMMA CutOrNot ==
    ASSUME NEW w, NEW x \in Int, Sound(w.segments, w.Q, x), NEW i \in DOMAIN w.segments,
           NEW ip \in Point, ip.x >= x, InBox(w.segments[i], ip), NEW ends \in BOOLEAN,
           NEW v, v = Cut(w, i, ip, ends)
    PROVE  WorkGrows(w, v, x) /\ \A j \in DOMAIN w.segments : j # i => v.segments[j] = w.segments[j]
  <1>1. CASE Inside(w.segments[i], ip)
    <2>1. w.segments[i] \in Pieces
      BY DEF Sound
    <2>2. CutsTo(w, v, i, ip)
      BY <1>1, <2>1, CutCuts
    <2> QED
      BY <2>2, CutWorkGrows
  <1>2. CASE ~Inside(w.segments[i], ip)
    <2>1. v = w
      BY <1>2 DEF Cut
    <2> QED
      BY <2>1, NothingGrows DEF WorkGrows
  <1> QED
    BY <1>1, <1>2

\* Where two segments meet they are cut, unless that is behind.
LEMMA MeetGrows ==
    ASSUME NEW w, NEW x \in Int, Sound(w.segments, w.Q, x),
           NEW i \in DOMAIN w.segments, NEW j \in DOMAIN w.segments, NEW both \in BOOLEAN,
           NEW v, v = Meet(w, x, i, j, both)
    PROVE  WorkGrows(w, v, x)
  <1> PICK ip : ip = intersect(w.segments[i], w.segments[j])
    OBVIOUS
  <1>1. CASE ip = NoPoint \/ Behind(ip, x)
    <2>1. v = w
      BY <1>1 DEF Meet
    <2> QED
      BY <2>1, NothingGrows DEF WorkGrows
  <1>2. CASE ~(ip = NoPoint \/ Behind(ip, x))
    <2>1. w.segments[i] \in Pieces /\ w.segments[j] \in Pieces
      BY DEF Sound
    <2>2. ip \in Point /\ InBox(w.segments[i], ip) /\ InBox(w.segments[j], ip)
      <3>1. /\ w.segments[i].a \in Point /\ w.segments[i].b \in Point
            /\ w.segments[j].a \in Point /\ w.segments[j].b \in Point
        BY <2>1 DEF Pieces
      <3> QED
        BY <1>2, <3>1, MeetingIsInBoxes
    <2>3. ip.x >= x
      BY <1>2, <2>2 DEF Behind, Point
    <2>4. i # j
      <3>1. i = j => ip = NoPoint
        BY DEF intersect
      <3> QED
        BY <1>2, <3>1
    <2> PICK u : u = Cut(w, i, ip, TRUE)
      OBVIOUS
    <2>5. v = Cut(u, j, ip, both)
      BY <1>2 DEF Meet
    <2>6. WorkGrows(w, u, x) /\ u.segments[j] = w.segments[j]
      <3>1. w.segments[i] \in Pieces /\ Inside(w.segments[i], ip) => CutsTo(w, u, i, ip)
        BY <2>2, CutCuts, Zenon
      <3>2. ~Inside(w.segments[i], ip) => u = w
        BY DEF Cut
      <3> QED
        BY <2>1, <2>2, <2>3, <2>4, <3>1, <3>2, CutWorkGrows, NothingGrows DEF WorkGrows
    <2>7. Sound(u.segments, u.Q, x) /\ j \in DOMAIN u.segments
      <3>1. /\ w.segments \in Seq(Pieces) /\ u.segments \in Seq(Pieces)
            /\ Len(w.segments) <= Len(u.segments) /\ Sound(u.segments, u.Q, x)
        BY <2>6 DEF WorkGrows, Grows, Sound
      <3> QED
        BY <3>1, LongerDomain
    <2>8. WorkGrows(u, v, x)
      BY <2>2, <2>3, <2>5, <2>6, <2>7, CutOrNot
    <2> QED
      BY <2>6, <2>8, GrowsOn DEF WorkGrows
  <1> QED
    BY <1>1, <1>2

-----------------------------------------------------------------------------
(* The status. *)

\* w is u and then v, whose lengths are m and n.
Joins(w, u, m, v, n, S) ==
    /\ w \in Seq(S) /\ Len(w) = m + n
    /\ \A j \in 1..m : w[j] = u[j]
    /\ \A j \in 1..n : w[m + j] = v[j]

LEMMA Joined ==
    ASSUME NEW S, NEW u \in Seq(S), NEW v \in Seq(S), NEW w, w = u \o v,
           NEW m, m = Len(u), NEW n, n = Len(v)
    PROVE  Joins(w, u, m, v, n, S)
  BY DEF Joins

LEMMA InsertedStatus ==
    ASSUME NEW S, NEW s \in Seq(S), IsInjective(s), NEW k \in 0..Len(s), NEW i \in S,
           \A j \in DOMAIN s : s[j] # i, NEW t, t = InsertAt(s, k + 1, i)
    PROVE  /\ t \in Seq(S) /\ IsInjective(t)
           /\ \A j \in DOMAIN t : t[j] = i \/ \E m \in DOMAIN s : t[j] = s[m]
  <1> PICK n : n = Len(s)
    OBVIOUS
  <1>1. n \in Nat /\ DOMAIN s = 1..n /\ k \in 0..n
    OBVIOUS
  <1>2. /\ t \in Seq(S) /\ Len(t) = n + 1
        /\ \A j \in 1..(n + 1) :
             t[j] = IF j <= k THEN s[j] ELSE IF j = k + 1 THEN i ELSE s[j - 1]
    <2>1. t = SubSeq(s, 1, k) \o <<i>> \o SubSeq(s, k + 1, n)
      <3>1. (k + 1) - 1 = k
        BY <1>1
      <3>2. t = SubSeq(s, 1, (k + 1) - 1) \o <<i>> \o SubSeq(s, k + 1, Len(s))
        BY Zenon DEF InsertAt
      <3> QED
        BY <3>1, <3>2
    <2>2. /\ SubSeq(s, 1, k) \in Seq(S) /\ Len(SubSeq(s, 1, k)) = k
          /\ \A j \in 1..k : SubSeq(s, 1, k)[j] = s[j]
      BY <1>1
    <2>3. /\ SubSeq(s, k + 1, n) \in Seq(S) /\ Len(SubSeq(s, k + 1, n)) = n - k
          /\ \A j \in 1..(n - k) : SubSeq(s, k + 1, n)[j] = s[k + j]
      BY <1>1
    <2> PICK u : u = SubSeq(s, 1, k)
      OBVIOUS
    <2> PICK v : v = SubSeq(s, k + 1, n)
      OBVIOUS
    <2>4. /\ u \in Seq(S) /\ Len(u) = k /\ \A j \in 1..k : u[j] = s[j]
          /\ v \in Seq(S) /\ Len(v) = n - k /\ \A j \in 1..(n - k) : v[j] = s[k + j]
          /\ t = u \o <<i>> \o v
      BY <2>1, <2>2, <2>3
    <2> PICK w : w = u \o <<i>>
      OBVIOUS
    <2>5. /\ w \in Seq(S) /\ Len(w) = k + 1 /\ w[k + 1] = i
          /\ \A j \in 1..k : w[j] = s[j]
      <3> PICK one : one = <<i>>
        OBVIOUS
      <3>1. one \in Seq(S) /\ Len(one) = 1 /\ one[1] = i /\ 1 \in 1..1
        OBVIOUS
      <3>2. w = u \o one
        OBVIOUS
      <3>3. Joins(w, u, k, one, 1, S)
        BY <2>4, <3>1, <3>2, Joined
      <3> QED
        BY <2>4, <3>1, <3>3 DEF Joins
    <2>6. /\ t \in Seq(S) /\ Len(t) = n + 1
          /\ \A j \in 1..(k + 1) : t[j] = w[j]
          /\ \A j \in 1..(n - k) : t[k + 1 + j] = v[j]
      <3>1. t = w \o v
        BY <2>4
      <3>2. Joins(t, w, k + 1, v, n - k, S)
        BY <2>4, <2>5, <3>1, Joined
      <3>3. /\ t \in Seq(S) /\ Len(t) = (k + 1) + (n - k)
            /\ \A j \in 1..(k + 1) : t[j] = w[j]
            /\ \A j \in 1..(n - k) : t[(k + 1) + j] = v[j]
        BY <3>2, Zenon DEF Joins
      <3>4. (k + 1) + (n - k) = n + 1
        BY <1>1
      <3> QED
        BY <3>3, <3>4
    <2>8. ASSUME NEW j \in 1..(n + 1)
          PROVE  t[j] = IF j <= k THEN s[j] ELSE IF j = k + 1 THEN i ELSE s[j - 1]
      <3>1. CASE j <= k + 1
        <4>1. j \in 1..(k + 1)
          BY <1>1, <3>1
        <4>2. t[j] = w[j]
          BY <2>6, <4>1
        <4>3. CASE j = k + 1
          BY <1>1, <2>5, <4>2, <4>3
        <4>4. CASE j # k + 1
          <5>1. j \in 1..k /\ j <= k
            BY <1>1, <4>1, <4>4
          <5> QED
            BY <2>5, <4>2, <4>4, <5>1
        <4> QED
          BY <4>3, <4>4
      <3>2. CASE j > k + 1
        <4>1. PICK m \in 1..(n - k) : j = k + 1 + m
          <5>1. j - (k + 1) \in 1..(n - k) /\ j = k + 1 + (j - (k + 1))
            BY <1>1, <3>2
          <5> QED
            BY <5>1
        <4>2. t[j] = v[m] /\ v[m] = s[k + m]
          BY <2>4, <2>6, <4>1
        <4>3. k + m = j - 1 /\ ~(j <= k) /\ j # k + 1
          BY <1>1, <3>2, <4>1
        <4> QED
          BY <4>2, <4>3
      <3> QED
        BY <1>1, <3>1, <3>2
    <2> QED
      BY <2>6, <2>8
  <1>3. DOMAIN t = 1..(n + 1)
    BY <1>2
  <1>4. IsInjective(t)
    <2> SUFFICES ASSUME NEW a \in DOMAIN t, NEW b \in DOMAIN t, t[a] = t[b] PROVE a = b
      BY DEF IsInjective
    <2> DEFINE Old(j) == IF j <= k THEN j ELSE j - 1
    <2>1. \A j \in DOMAIN t : j # k + 1 => Old(j) \in DOMAIN s /\ t[j] = s[Old(j)]
      <3> TAKE j \in DOMAIN t
      <3>1. j \in 1..(n + 1)
        BY <1>3
      <3>2. CASE j <= k
        BY <1>1, <1>2, <3>1, <3>2
      <3>3. CASE j > k + 1
        <4>1. j - 1 \in 1..n /\ ~(j <= k) /\ j # k + 1
          BY <1>1, <3>1, <3>3
        <4>2. t[j] = s[j - 1]
          BY <1>2, <3>1, <4>1
        <4> QED
          BY <1>1, <4>1, <4>2
      <3> QED
        BY <1>1, <3>1, <3>2, <3>3
    <2>2. t[k + 1] = i /\ k + 1 \in DOMAIN t
      BY <1>1, <1>2, <1>3
    <2>3. CASE a = k + 1 \/ b = k + 1
      BY <2>1, <2>2, <2>3
    <2>4. CASE a # k + 1 /\ b # k + 1
      <3>1. Old(a) = Old(b)
        BY <2>1, <2>4 DEF IsInjective
      <3> QED
        BY <1>1, <1>3, <2>4, <3>1
    <2> QED
      BY <2>3, <2>4
  <1>5. ASSUME NEW j \in DOMAIN t PROVE t[j] = i \/ \E m \in DOMAIN s : t[j] = s[m]
    <2>1. CASE j <= k
      BY <1>1, <1>2, <1>3, <2>1
    <2>2. CASE j = k + 1
      BY <1>1, <1>2, <1>3, <2>2
    <2>3. CASE j > k + 1
      <3>1. t[j] = s[j - 1] /\ j - 1 \in 1..n
        BY <1>1, <1>2, <1>3, <2>3
      <3> QED
        BY <1>1, <3>1
    <2> QED
      BY <1>1, <1>3, <2>1, <2>2, <2>3
  <1> QED
    BY <1>2, <1>4, <1>5

LEMMA RemovedStatus ==
    ASSUME NEW S, NEW s \in Seq(S), IsInjective(s), NEW k \in 0..Len(s), k < Len(s),
           NEW t, t = RemoveAt(s, k + 1)
    PROVE  /\ t \in Seq(S) /\ IsInjective(t)
           /\ \A j \in DOMAIN t : \E m \in DOMAIN s : t[j] = s[m]
  <1> PICK n : n = Len(s)
    OBVIOUS
  <1>1. n \in Nat /\ DOMAIN s = 1..n /\ k \in 0..n /\ k < n
    OBVIOUS
  <1>2. /\ t \in Seq(S) /\ Len(t) = n - 1
        /\ \A j \in 1..(n - 1) : t[j] = IF j <= k THEN s[j] ELSE s[j + 1]
    <2>1. t = SubSeq(s, 1, k) \o SubSeq(s, k + 2, n)
      <3>1. (k + 1) - 1 = k /\ (k + 1) + 1 = k + 2
        BY <1>1
      <3>2. t = SubSeq(s, 1, (k + 1) - 1) \o SubSeq(s, (k + 1) + 1, Len(s))
        BY Zenon DEF RemoveAt
      <3> QED
        BY <3>1, <3>2
    <2>2. /\ SubSeq(s, 1, k) \in Seq(S) /\ Len(SubSeq(s, 1, k)) = k
          /\ \A j \in 1..k : SubSeq(s, 1, k)[j] = s[j]
      BY <1>1
    <2>3. /\ SubSeq(s, k + 2, n) \in Seq(S) /\ Len(SubSeq(s, k + 2, n)) = n - k - 1
          /\ \A j \in 1..(n - k - 1) : SubSeq(s, k + 2, n)[j] = s[k + 1 + j]
      BY <1>1
    <2> PICK u : u = SubSeq(s, 1, k)
      OBVIOUS
    <2> PICK v : v = SubSeq(s, k + 2, n)
      OBVIOUS
    <2>4. /\ u \in Seq(S) /\ Len(u) = k /\ \A j \in 1..k : u[j] = s[j]
          /\ v \in Seq(S) /\ Len(v) = n - k - 1 /\ \A j \in 1..(n - k - 1) : v[j] = s[k + 1 + j]
          /\ t = u \o v
      BY <2>1, <2>2, <2>3
    <2>5. /\ t \in Seq(S) /\ Len(t) = n - 1
          /\ \A j \in 1..k : t[j] = u[j]
          /\ \A j \in 1..(n - k - 1) : t[k + j] = v[j]
      <3>1. Joins(t, u, k, v, n - k - 1, S)
        BY <2>4, Joined
      <3>2. /\ t \in Seq(S) /\ Len(t) = k + (n - k - 1)
            /\ \A j \in 1..k : t[j] = u[j]
            /\ \A j \in 1..(n - k - 1) : t[k + j] = v[j]
        BY <3>1, Zenon DEF Joins
      <3>3. k + (n - k - 1) = n - 1
        BY <1>1
      <3> QED
        BY <3>2, <3>3
    <2>6. ASSUME NEW j \in 1..(n - 1) PROVE t[j] = IF j <= k THEN s[j] ELSE s[j + 1]
      <3>1. CASE j <= k
        BY <1>1, <2>4, <2>5, <3>1
      <3>2. CASE j > k
        <4>1. PICK m \in 1..(n - k - 1) : j = k + m
          <5>1. j - k \in 1..(n - k - 1) /\ j = k + (j - k)
            BY <1>1, <3>2
          <5> QED
            BY <5>1
        <4>2. t[j] = v[m] /\ v[m] = s[k + 1 + m]
          BY <2>4, <2>5, <4>1
        <4>3. k + 1 + m = j + 1 /\ ~(j <= k)
          BY <1>1, <3>2, <4>1
        <4> QED
          BY <4>2, <4>3
      <3> QED
        BY <1>1, <3>1, <3>2
    <2> QED
      BY <2>5, <2>6
  <1>3. DOMAIN t = 1..(n - 1)
    BY <1>2
  <1>4. IsInjective(t)
    <2> SUFFICES ASSUME NEW a \in DOMAIN t, NEW b \in DOMAIN t, t[a] = t[b] PROVE a = b
      BY DEF IsInjective
    <2> DEFINE Old(j) == IF j <= k THEN j ELSE j + 1
    <2>1. \A j \in DOMAIN t : Old(j) \in DOMAIN s /\ t[j] = s[Old(j)]
      BY <1>1, <1>2, <1>3
    <2>2. Old(a) = Old(b)
      BY <2>1 DEF IsInjective
    <2> QED
      BY <1>1, <1>3, <2>2
  <1>5. ASSUME NEW j \in DOMAIN t PROVE \E m \in DOMAIN s : t[j] = s[m]
    <2>1. (t[j] = s[j] \/ t[j] = s[j + 1]) /\ j \in 1..n /\ j + 1 \in 1..n
      BY <1>1, <1>2, <1>3
    <2> QED
      BY <1>1, <2>1
  <1> QED
    BY <1>2, <1>4, <1>5

-----------------------------------------------------------------------------
(* The invariant. *)

\* An event of the queue is handled: what is left is sound where the sweep line is then.
LEMMA PopIsSound ==
    ASSUME NEW segs, NEW q, NEW x0, Sound(segs, q, x0), NEW e \in BagToSet(q), NEW x \in Int,
           \A f \in BagToSet(q) : f.x >= x, NEW less, less = q (-) SetToBag({e})
    PROVE  /\ Sound(segs, less, x) /\ BagToSet(less) \subseteq BagToSet(q)
           /\ e.type = LEFT => \A f \in BagToSet(less) : ~(f.type = LEFT /\ f.seg = e.seg)
  <1>1. segs \in Seq(Pieces) /\ IsABag(q)
    BY DEF Sound
  <1>2. OneLess(q, e, less)
    BY <1>1, MinusOne
  <1>3. /\ IsABag(less) /\ BagToSet(less) \subseteq BagToSet(q)
        /\ \A f : f # e => Copies(less, f) = Copies(q, f)
        /\ Copies(q, e) = 1 => e \notin BagToSet(less)
    BY <1>2 DEF OneLess
  <1>4. \A f \in BagToSet(less) :
          /\ f.seg \in DOMAIN segs /\ IsEvent(f) /\ f.x \in Int /\ f.x >= x
          /\ [x |-> f.x, y |-> f.y] \in VerticesOf(segs)
          /\ f.type = LEFT => f.x = MinX(segs[f.seg]) /\ Copies(less, f) = 1
    <2> TAKE f \in BagToSet(less)
    <2>1. /\ f.seg \in DOMAIN segs /\ IsEvent(f) /\ f.x \in Int /\ f.x >= x
          /\ [x |-> f.x, y |-> f.y] \in VerticesOf(segs)
          /\ f.type = LEFT => f.x = MinX(segs[f.seg]) /\ Copies(q, f) = 1
      BY <1>3 DEF Sound
    <2>2. f.type = LEFT => f # e
      BY <1>3, <2>1
    <2> QED
      BY <1>3, <2>1, <2>2
  <1>5. \A f, g \in BagToSet(less) : f.type = LEFT /\ g.type = LEFT /\ f.seg = g.seg => f = g
    BY <1>3 DEF Sound
  <1>6. e.type = LEFT => \A f \in BagToSet(less) : ~(f.type = LEFT /\ f.seg = e.seg)
    BY <1>3 DEF Sound
  <1> QED
    BY <1>1, <1>3, <1>4, <1>5, <1>6 DEF Sound

\* The status holds segments that are there, each once and after its LEFT event.
Entered(st, segs, q) ==
    /\ st \in Seq(DOMAIN segs) /\ IsInjective(st)
    /\ \A k \in DOMAIN st : \A e \in BagToSet(q) : e.type = LEFT => e.seg # st[k]

SweepInv ==
    /\ input \in Inputs /\ currentX \in Int
    /\ Sound(segments, Q, currentX)
    /\ Entered(status, segments, Q)
    /\ \A p \in Point : Surplus(p, segments) = Surplus(p, Loaded(input))

LEMMA InitSweep == Init => SweepInv
  <1> SUFFICES ASSUME Init PROVE SweepInv
    OBVIOUS
  <1>1. /\ input \in Inputs /\ segments = Loaded(input) /\ Q = Queued(segments)
        /\ status = <<>> /\ currentX = Leftmost /\ currentX \in Int
    BY InputsAssumption DEF Init
  <1>2. /\ input \in Seq(Point \X Point)
        /\ \A k \in DOMAIN input : /\ input[k][1] # input[k][2]
                                   /\ input[k][1].x >= Leftmost /\ input[k][2].x >= Leftmost
    BY <1>1, InputsAssumption
  <1>3. /\ segments \in Seq(Pieces)
        /\ \A i \in DOMAIN segments : MinX(segments[i]) >= Leftmost
    <2>1. ASSUME NEW i \in 1..Len(input)
          PROVE  /\ Segment(input[i][1], input[i][2]) \in Pieces
                 /\ MinX(Segment(input[i][1], input[i][2])) >= Leftmost
      <3>1. /\ input[i][1] \in Point /\ input[i][2] \in Point /\ input[i][1] # input[i][2]
            /\ input[i][1].x >= Leftmost /\ input[i][2].x >= Leftmost
        BY <1>2
      <3> QED
        BY <3>1, SegmentIsPiece DEF MinX, Least
    <2>2. Len(input) \in Nat
      BY <1>2
    <2> QED
      BY <1>1, <2>1, <2>2 DEF Loaded
  <1>4. IsABag(Q) /\ BagToSet(Q) = {Event(segments, i, LEFT) : i \in DOMAIN segments}
        /\ \A e \in BagToSet(Q) : Copies(Q, e) = 1
    BY <1>1 DEF Queued, IsABag, BagToSet, SetToBag, Copies
  <1>5. \A i \in DOMAIN segments :
          /\ Event(segments, i, LEFT).seg = i /\ Event(segments, i, LEFT).type = LEFT
          /\ Event(segments, i, LEFT).x \in Int /\ IsEvent(Event(segments, i, LEFT))
          /\ Event(segments, i, LEFT).x = MinX(segments[i])
          /\ [x |-> Event(segments, i, LEFT).x, y |-> Event(segments, i, LEFT).y]
               \in VerticesOf(segments)
    <2> TAKE i \in DOMAIN segments
    <2>1. segments[i] \in Pieces
      BY <1>3
    <2> QED
      BY <2>1, EventOfEnd
  <1>6. Sound(segments, Q, currentX)
    <2>1. \A e \in BagToSet(Q) :
            /\ e.seg \in DOMAIN segments /\ IsEvent(e) /\ e.x \in Int /\ e.x >= currentX
            /\ [x |-> e.x, y |-> e.y] \in VerticesOf(segments)
            /\ e.type = LEFT => e.x = MinX(segments[e.seg]) /\ Copies(Q, e) = 1
      <3> TAKE e \in BagToSet(Q)
      <3>1. PICK i \in DOMAIN segments : e = Event(segments, i, LEFT)
        BY <1>4
      <3> QED
        BY <1>1, <1>3, <1>4, <1>5, <3>1
    <2>2. \A e, f \in BagToSet(Q) : e.type = LEFT /\ f.type = LEFT /\ e.seg = f.seg => e = f
      <3> TAKE e, f \in BagToSet(Q)
      <3>1. PICK i \in DOMAIN segments : e = Event(segments, i, LEFT)
        BY <1>4
      <3>2. PICK j \in DOMAIN segments : f = Event(segments, j, LEFT)
        BY <1>4
      <3> QED
        BY <1>5, <3>1, <3>2
    <2> QED
      BY <1>3, <1>4, <2>1, <2>2 DEF Sound
  <1>7. Entered(status, segments, Q)
    BY <1>1 DEF Entered, IsInjective
  <1> QED
    BY <1>1, <1>6, <1>7 DEF SweepInv

\* The status after an event, when the segments have grown.
LEMMA StillEntered ==
    ASSUME NEW segs, NEW q, NEW segs2, NEW q2, NEW x, Sound(segs, q, x),
           Grows(segs, q, segs2, q2, x), NEW st \in Seq(DOMAIN segs), IsInjective(st),
           \A k \in DOMAIN st : \A e \in BagToSet(q) : e.type = LEFT => e.seg # st[k]
    PROVE  Entered(st, segs2, q2)
  <1>1. DOMAIN segs \subseteq DOMAIN segs2
    BY LongerDomain DEF Grows, Sound
  <1>2. st \in Seq(DOMAIN segs2)
    BY <1>1
  <1>3. ASSUME NEW k \in DOMAIN st, NEW e \in BagToSet(q2), e.type = LEFT
        PROVE  e.seg # st[k]
    <2>1. st[k] \in DOMAIN segs
      OBVIOUS
    <2> QED
      BY <1>3, <2>1 DEF Grows
  <1> QED
    BY <1>2, <1>3 DEF Entered

\* A LEFT event: the sweep line moves to it, and its segment goes into the status, unless an
\* equivalent one is there.
LEMMA LeftSweep ==
    ASSUME SweepInv, NEW e \in BagToSet(Q), Top(e), HandleLeft(e)
    PROVE  SweepInv'
  <1> PICK x : x = e.x
    OBVIOUS
  <1> PICK i : i = e.seg
    OBVIOUS
  <1> PICK less : less = Q (-) SetToBag({e})
    OBVIOUS
  <1> PICK rest : rest = [segments |-> segments, Q |-> less]
    OBVIOUS
  <1>1. /\ segments \in Seq(Pieces) /\ e.type = LEFT
        /\ x \in Int /\ i \in DOMAIN segments /\ x = MinX(segments[i])
    BY DEF SweepInv, Sound, HandleLeft
  <1>2. \A f \in BagToSet(Q) : f.x >= x
    <2> TAKE f \in BagToSet(Q)
    <2>1. f.x \in Int
      BY DEF SweepInv, Sound
    <2>2. ~EventComp(e, f)
      BY DEF Top
    <2>3. e.x > f.x => EventComp(e, f)
      BY <1>1, <2>1 DEF EventComp
    <2> QED
      BY <1>1, <2>1, <2>2, <2>3
  <1>3. /\ Sound(segments, less, x) /\ BagToSet(less) \subseteq BagToSet(Q)
        /\ \A f \in BagToSet(less) : ~(f.type = LEFT /\ f.seg = i)
    BY <1>1, <1>2, PopIsSound DEF SweepInv
  <1>4. MaxX(segments[i]) >= x
    <2>1. segments[i].a.x \in Int /\ segments[i].b.x \in Int
      BY <1>1 DEF Pieces, Point
    <2> QED
      BY <1>1, <2>1 DEF MinX, MaxX, Least, Greatest
  <1>5. /\ status \in Seq(DOMAIN segments) /\ IsInjective(status)
        /\ \A j \in DOMAIN status : status[j] # i /\ status[j] \in DOMAIN segments
        /\ \A j \in DOMAIN status : \A f \in BagToSet(less) : f.type = LEFT => f.seg # status[j]
    <2>1. status \in Seq(DOMAIN segments) /\ IsInjective(status)
      BY DEF SweepInv, Entered
    <2>2. \A j \in DOMAIN status : \A f \in BagToSet(Q) : f.type = LEFT => f.seg # status[j]
      BY DEF SweepInv, Entered
    <2>3. ASSUME NEW j \in DOMAIN status
          PROVE  /\ status[j] # i /\ status[j] \in DOMAIN segments
                 /\ \A f \in BagToSet(less) : f.type = LEFT => f.seg # status[j]
      <3>1. status[j] \in DOMAIN segments
        BY <2>1
      <3>2. status[j] # i
        BY <1>1, <2>2
      <3>3. \A f \in BagToSet(less) : f.type = LEFT => f.seg # status[j]
        BY <1>3, <2>2
      <3> QED
        BY <3>1, <3>2, <3>3
    <2> QED
      BY <2>1, <2>3
  <1>6. rest.segments = segments /\ rest.Q = less /\ rest = [Work EXCEPT !.Q = @ (-) SetToBag({e})]
    BY DEF Work
  \* The work is what the cuts have made of it, and the RIGHT event of the segment is pushed.
  <1>7. ASSUME NEW new, WorkGrows(rest, new, x), segments' = new.segments,
               Q' = Push(new.Q, new.segments, i, RIGHT),
               NEW st \in Seq(DOMAIN segments), IsInjective(st),
               \A j \in DOMAIN st : \A f \in BagToSet(less) : f.type = LEFT => f.seg # st[j],
               status' = st, currentX' = x, input' = input
        PROVE  SweepInv'
    <2> PICK segs, q : segs = new.segments /\ q = new.Q
      OBVIOUS
    <2>1. Grows(segments, less, segs, q, x)
      BY <1>6, <1>7 DEF WorkGrows
    <2>2. Sound(segs, q, x) /\ i \in DOMAIN segs /\ segs[i] \in Pieces
      BY <1>1, <2>1, LongerDomain DEF Grows, Sound
    <2>3. Event(segs, i, RIGHT).x >= x
      <3>1. Event(segs, i, RIGHT).x = MaxX(segs[i])
        BY <2>2, EventOfEnd
      <3> QED
        BY <1>1, <1>4, <2>1, <3>1 DEF Grows
    <2> PICK q2 : q2 = Push(q, segs, i, RIGHT)
      OBVIOUS
    <2>4. /\ Sound(segs, q2, x) /\ BagToSet(q2) = BagToSet(q) \cup {Event(segs, i, RIGHT)}
          /\ Event(segs, i, RIGHT).type = RIGHT
      BY <2>2, <2>3, PushIsSound DEF LEFT, RIGHT
    <2>5. Entered(st, segs, q)
      BY <1>3, <1>7, <2>1, StillEntered
    <2>6. Entered(st, segs, q2)
      BY <2>4, <2>5 DEF Entered, LEFT, RIGHT
    <2>7. \A p \in Point : Surplus(p, segs) = Surplus(p, Loaded(input))
      BY <2>1 DEF Grows, SweepInv
    <2>8. segments' = segs /\ Q' = q2
      BY <1>7
    <2> QED
      BY <1>1, <1>7, <2>4, <2>6, <2>7, <2>8 DEF SweepInv
  <1>8. PICK k \in 0..Len(status) :
          IF IsNew(k, i, x)
          THEN \E below \in {IF k > 0 THEN Meet(rest, x, status[k], i, FALSE) ELSE rest} :
               \E new \in {IF k < Len(status)
                           THEN Meet(below, x, status[k + 1], i, FALSE) ELSE below} :
                  /\ status' = InsertAt(status, k + 1, i)
                  /\ segments' = new.segments
                  /\ Q' = Push(new.Q, new.segments, i, RIGHT)
          ELSE /\ Q' = Push(rest.Q, segments, i, RIGHT)
               /\ UNCHANGED <<status, segments>>
    BY <1>6 DEF HandleLeft
  <1>9. currentX' = x /\ input' = input
    BY DEF HandleLeft
  <1>10. CASE IsNew(k, i, x)
    <2>1. PICK below : below = IF k > 0 THEN Meet(rest, x, status[k], i, FALSE) ELSE rest
      OBVIOUS
    <2>2. PICK new : new = IF k < Len(status)
                           THEN Meet(below, x, status[k + 1], i, FALSE) ELSE below
      OBVIOUS
    <2>3. /\ status' = InsertAt(status, k + 1, i) /\ segments' = new.segments
          /\ Q' = Push(new.Q, new.segments, i, RIGHT)
      BY <1>8, <1>10, <2>1, <2>2
    <2>4. WorkGrows(rest, below, x)
      <3>1. CASE k > 0
        <4>1. status[k] \in DOMAIN rest.segments /\ i \in DOMAIN rest.segments
          BY <1>1, <1>5, <1>6, <3>1
        <4> QED
          BY <1>1, <1>3, <1>6, <2>1, <3>1, <4>1, MeetGrows
      <3>2. CASE ~(k > 0)
        BY <1>3, <1>6, <2>1, <3>2, NothingGrows DEF WorkGrows
      <3> QED
        BY <3>1, <3>2
    <2>5. /\ Sound(below.segments, below.Q, x)
          /\ DOMAIN segments \subseteq DOMAIN below.segments
      <3>1. Grows(segments, less, below.segments, below.Q, x)
        BY <1>6, <2>4 DEF WorkGrows
      <3>2. Sound(below.segments, below.Q, x) /\ Len(segments) <= Len(below.segments)
        BY <3>1 DEF Grows
      <3>3. below.segments \in Seq(Pieces)
        BY <3>2 DEF Sound
      <3> QED
        BY <1>1, <3>2, <3>3, LongerDomain
    <2>6. WorkGrows(below, new, x)
      <3>1. CASE k < Len(status)
        <4>1. k + 1 \in DOMAIN status
          BY <1>5, <3>1
        <4>2. status[k + 1] \in DOMAIN below.segments /\ i \in DOMAIN below.segments
          BY <1>1, <1>5, <2>5, <4>1
        <4> QED
          BY <1>1, <2>2, <2>5, <3>1, <4>2, MeetGrows
      <3>2. CASE ~(k < Len(status))
        BY <2>2, <2>5, <3>2, NothingGrows DEF WorkGrows
      <3> QED
        BY <3>1, <3>2
    <2>7. WorkGrows(rest, new, x)
      BY <1>3, <1>6, <2>4, <2>6, GrowsOn DEF WorkGrows
    <2> PICK st : st = InsertAt(status, k + 1, i)
      OBVIOUS
    <2>8. /\ st \in Seq(DOMAIN segments) /\ IsInjective(st)
          /\ \A j \in DOMAIN st : st[j] = i \/ \E m \in DOMAIN status : st[j] = status[m]
      BY <1>1, <1>5, InsertedStatus
    <2>9. \A j \in DOMAIN st : \A f \in BagToSet(less) : f.type = LEFT => f.seg # st[j]
      <3> TAKE j \in DOMAIN st
      <3> TAKE f \in BagToSet(less)
      <3>1. CASE st[j] = i
        BY <1>3, <3>1
      <3>2. CASE \E m \in DOMAIN status : st[j] = status[m]
        BY <1>5, <3>2
      <3> QED
        BY <2>8, <3>1, <3>2
    <2> QED
      BY <1>7, <1>9, <2>3, <2>7, <2>8, <2>9
  <1>11. CASE ~IsNew(k, i, x)
    <2>1. /\ Q' = Push(rest.Q, rest.segments, i, RIGHT) /\ segments' = rest.segments
          /\ status' = status
      BY <1>6, <1>8, <1>11
    <2>2. WorkGrows(rest, rest, x)
      BY <1>3, <1>6, NothingGrows DEF WorkGrows
    <2> QED
      BY <1>5, <1>7, <1>9, <2>1, <2>2
  <1> QED
    BY <1>10, <1>11

\* A RIGHT event: what find takes for its segment leaves the status.
LEMMA RightSweep ==
    ASSUME SweepInv, NEW e \in BagToSet(Q), HandleRight(e)
    PROVE  SweepInv'
  <1> PICK x : x = currentX
    OBVIOUS
  <1> PICK i : i = e.seg
    OBVIOUS
  <1> PICK less : less = Q (-) SetToBag({e})
    OBVIOUS
  <1> PICK rest : rest = [segments |-> segments, Q |-> less]
    OBVIOUS
  <1>1. segments \in Seq(Pieces) /\ x \in Int /\ Sound(segments, Q, x)
    BY DEF SweepInv, Sound
  <1>2. Sound(segments, less, x) /\ BagToSet(less) \subseteq BagToSet(Q)
    <2>1. \A f \in BagToSet(Q) : f.x >= x
      BY <1>1 DEF Sound
    <2> QED
      BY <1>1, <2>1, PopIsSound
  <1>3. /\ status \in Seq(DOMAIN segments) /\ IsInjective(status)
        /\ \A j \in DOMAIN status : \A f \in BagToSet(less) : f.type = LEFT => f.seg # status[j]
    BY <1>2 DEF SweepInv, Entered
  <1>4. rest.segments = segments /\ rest.Q = less /\ rest = [Work EXCEPT !.Q = @ (-) SetToBag({e})]
    BY DEF Work
  <1>5. ASSUME NEW new, WorkGrows(rest, new, x), segments' = new.segments, Q' = new.Q,
               NEW st \in Seq(DOMAIN segments), IsInjective(st),
               \A j \in DOMAIN st : \A f \in BagToSet(less) : f.type = LEFT => f.seg # st[j],
               status' = st, currentX' = x, input' = input
        PROVE  SweepInv'
    <2> PICK segs, q : segs = new.segments /\ q = new.Q
      OBVIOUS
    <2>1. Grows(segments, less, segs, q, x)
      BY <1>4, <1>5 DEF WorkGrows
    <2>2. Sound(segs, q, x)
      BY <2>1 DEF Grows
    <2>3. Entered(st, segs, q)
      BY <1>2, <1>5, <2>1, StillEntered
    <2>4. \A p \in Point : Surplus(p, segs) = Surplus(p, Loaded(input))
      BY <2>1 DEF Grows, SweepInv
    <2>5. segments' = segs /\ Q' = q
      BY <1>5
    <2> QED
      BY <1>1, <1>5, <2>2, <2>3, <2>4, <2>5 DEF SweepInv
  <1>6. PICK k \in 0..Len(status) :
          IF Found(k, i, x)
          THEN \E new \in {IF k > 0 /\ k + 1 < Len(status)
                           THEN Meet(rest, x, status[k], status[k + 2], TRUE) ELSE rest} :
                  /\ status' = RemoveAt(status, k + 1)
                  /\ segments' = new.segments
                  /\ Q' = new.Q
          ELSE Q' = rest.Q /\ UNCHANGED <<status, segments>>
    BY <1>4 DEF HandleRight
  <1>7. currentX' = x /\ input' = input
    BY DEF HandleRight
  <1>8. WorkGrows(rest, rest, x)
    BY <1>2, <1>4, NothingGrows DEF WorkGrows
  <1>9. CASE Found(k, i, x)
    <2>1. PICK new : new = IF k > 0 /\ k + 1 < Len(status)
                           THEN Meet(rest, x, status[k], status[k + 2], TRUE) ELSE rest
      OBVIOUS
    <2>2. status' = RemoveAt(status, k + 1) /\ segments' = new.segments /\ Q' = new.Q
      BY <1>6, <1>9, <2>1
    <2>3. WorkGrows(rest, new, x)
      <3>1. CASE k > 0 /\ k + 1 < Len(status)
        <4>1. k \in DOMAIN status /\ k + 2 \in DOMAIN status
          BY <1>3, <3>1
        <4>2. status[k] \in DOMAIN rest.segments /\ status[k + 2] \in DOMAIN rest.segments
          BY <1>3, <1>4, <4>1
        <4> QED
          BY <1>1, <1>2, <1>4, <2>1, <3>1, <4>2, MeetGrows
      <3>2. CASE ~(k > 0 /\ k + 1 < Len(status))
        BY <1>8, <2>1, <3>2
      <3> QED
        BY <3>1, <3>2
    <2> PICK st : st = RemoveAt(status, k + 1)
      OBVIOUS
    <2>4. /\ st \in Seq(DOMAIN segments) /\ IsInjective(st)
          /\ \A j \in DOMAIN st : \E m \in DOMAIN status : st[j] = status[m]
      <3>1. k < Len(status)
        BY <1>9 DEF Found
      <3> QED
        BY <1>3, <3>1, RemovedStatus
    <2>5. \A j \in DOMAIN st : \A f \in BagToSet(less) : f.type = LEFT => f.seg # st[j]
      BY <1>3, <2>4
    <2> QED
      BY <1>5, <1>7, <2>2, <2>3, <2>4, <2>5
  <1>10. CASE ~Found(k, i, x)
    <2>1. Q' = rest.Q /\ segments' = rest.segments /\ status' = status
      BY <1>4, <1>6, <1>10
    <2> QED
      BY <1>3, <1>5, <1>7, <1>8, <2>1
  <1> QED
    BY <1>9, <1>10

LEMMA StepSweep == SweepInv /\ [Next]_vars => SweepInv'
  <1> SUFFICES ASSUME SweepInv, [Next]_vars PROVE SweepInv'
    OBVIOUS
  <1>1. CASE UNCHANGED vars
    BY <1>1 DEF vars, SweepInv, Sound, Entered
  <1>2. CASE Sweep
    BY <1>2, LeftSweep, RightSweep DEF Sweep
  <1> QED
    BY <1>1, <1>2 DEF Next, Return

\* What holds in every state of the sweep.
THEOREM SweepInvariant == Spec => []SweepInv
  BY InitSweep, StepSweep, PTL DEF Spec

\* What the invariant is there for.
LEMMA SweepHolds == SweepInv => TypeOK /\ FlowIsKept /\ NothingBehind
  <1>1. SweepInv => TypeOK
    BY DEF SweepInv, Sound, Entered, TypeOK, Pieces, Vertices
  <1>2. SweepInv => FlowIsKept
    <2> SUFFICES ASSUME SweepInv, NEW p \in Vertices
                 PROVE  Surplus(p, segments) = Surplus(p, Loaded(input))
      BY DEF FlowIsKept
    <2>1. p \in Point
      BY DEF SweepInv, Sound, Pieces, Vertices, VerticesOf
    <2> QED
      BY <2>1 DEF SweepInv
  <1>3. SweepInv => NothingBehind
    BY DEF SweepInv, Sound, NothingBehind
  <1> QED
    BY <1>1, <1>2, <1>3

\* No segment is ever empty, none is in the status twice, and every event is of a segment
\* and at a vertex.
THEOREM SweepTypeOK == Spec => []TypeOK
  BY SweepInvariant, SweepHolds, PTL

\* The cuts lose, double or turn round no part of a segment (sweepline.cpp:176-343).
THEOREM SweepKeepsTheFlow == Spec => []FlowIsKept
  BY SweepInvariant, SweepHolds, PTL

\* The sweep never goes back: what it puts into the queue, at a crossing that was rounded
\* too, is not behind (sweepline.cpp:479, 633).
THEOREM SweepNeverGoesBack == Spec => []NothingBehind
  BY SweepInvariant, SweepHolds, PTL

-----------------------------------------------------------------------------
(* The comparators. *)

\* At one x first the verticals come in, then what ends there goes, then what starts
\* there comes, and the verticals go last.
Group(e) ==
    IF e.existlk THEN IF e.type = RIGHT THEN 1 ELSE 2
                 ELSE IF e.type = LEFT THEN 0 ELSE 3

\* The nine rules of EventComp come to comparing x, then the group, then y.
LEMMA ByGroup ==
    ASSUME NEW A, NEW B, IsEvent(A), IsEvent(B),
           A.x \in Int, A.y \in Int, B.x \in Int, B.y \in Int
    PROVE  /\ Group(A) \in 0..3 /\ Group(B) \in 0..3
           /\ EventComp(A, B) <=>
                \/ A.x > B.x
                \/ A.x = B.x /\ Group(A) > Group(B)
                \/ A.x = B.x /\ Group(A) = Group(B) /\ A.y > B.y
  BY DEF IsEvent, EventComp, Group, VerticalLeft, VerticalRight, LEFT, RIGHT

\* Such a comparison is a strict weak order.
LEMMA EventsAreOrdered ==
    ASSUME NEW S, \A e \in S : IsEvent(e) /\ e.x \in Int /\ e.y \in Int
    PROVE  StrictWeakOrder(EventComp, S)
  <1>1. \A A, B \in S :
          EventComp(A, B) <=>
             \/ A.x > B.x
             \/ A.x = B.x /\ Group(A) > Group(B)
             \/ A.x = B.x /\ Group(A) = Group(B) /\ A.y > B.y
    BY ByGroup
  <1>2. \A e \in S : e.x \in Int /\ e.y \in Int /\ Group(e) \in Int
    BY ByGroup
  <1>3. \A p \in S : ~EventComp(p, p)
    BY <1>1, <1>2
  <1>4. \A p, q \in S : ~(EventComp(p, q) /\ EventComp(q, p))
    BY <1>1, <1>2
  <1>5. \A p, q, r \in S : EventComp(p, q) /\ EventComp(q, r) => EventComp(p, r)
    BY <1>1, <1>2
  <1>6. \A p, q, r \in S :
           ~EventComp(p, q) /\ ~EventComp(q, p) /\ ~EventComp(q, r) /\ ~EventComp(r, q)
           => ~EventComp(p, r) /\ ~EventComp(r, p)
    BY <1>1, <1>2
  <1> QED
    BY <1>3, <1>4, <1>5, <1>6 DEF StrictWeakOrder

\* What the sweep asks of a segment in the status.
IsSeen(s) == s.here \in Int /\ s.next \in Int /\ s.existlk \in BOOLEAN

\* The comparator of the status orders three segments, in one step and in two, unless
\* they are chained in some order.
LEMMA ThreeSeen ==
    ASSUME NEW p, NEW q, NEW r, IsSeen(p), IsSeen(q), IsSeen(r),
           \A a, b, c \in {p, q, r} : ~Chained(a, b, c)
    PROVE  /\ ~SegmentComparator(p, p)
           /\ ~(SegmentComparator(p, q) /\ SegmentComparator(q, p))
           /\ SegmentComparator(p, q) /\ SegmentComparator(q, r) => SegmentComparator(p, r)
           /\ ~SegmentComparator(p, q) /\ ~SegmentComparator(q, r) => ~SegmentComparator(p, r)
  <1>1. Unit \in Nat /\ Unit > 0
    BY UnitAssumption
  <1>2. ~SegmentComparator(p, p)
    BY <1>1 DEF IsSeen, SegmentComparator, Near
  <1>3. ~(SegmentComparator(p, q) /\ SegmentComparator(q, p))
    BY <1>1 DEF IsSeen, SegmentComparator, Near
  <1>4. /\ ~Chained(p, q, r) /\ ~Chained(q, r, p) /\ ~Chained(r, p, q)
        /\ ~Chained(r, q, p) /\ ~Chained(q, p, r) /\ ~Chained(p, r, q)
    OBVIOUS
  <1>5. SegmentComparator(p, q) /\ SegmentComparator(q, r) => SegmentComparator(p, r)
    BY <1>1, <1>4 DEF IsSeen, SegmentComparator, Near, Chained
  <1>6. ~SegmentComparator(p, q) /\ ~SegmentComparator(q, r) => ~SegmentComparator(p, r)
    BY <1>1, <1>4 DEF IsSeen, SegmentComparator, Near, Chained
  <1> QED
    BY <1>2, <1>3, <1>5, <1>6

\* And if they are chained, it does not.
LEMMA ChainIsNoOrder ==
    ASSUME NEW a, NEW b, NEW c, IsSeen(a), IsSeen(b), IsSeen(c), Chained(a, b, c)
    PROVE  SegmentComparator(a, c) /\ ~SegmentComparator(a, b) /\ ~SegmentComparator(b, c)
  BY UnitAssumption DEF IsSeen, SegmentComparator, Near, Chained

LEMMA SeenAreOrdered ==
    ASSUME NEW S, \A s \in S : IsSeen(s)
    PROVE  StrictWeakOrder(SegmentComparator, S) <=> ~\E a, b, c \in S : Chained(a, b, c)
  <1>1. ASSUME ~\E a, b, c \in S : Chained(a, b, c)
        PROVE  StrictWeakOrder(SegmentComparator, S)
    <2>1. ASSUME NEW p \in S, NEW q \in S, NEW r \in S
          PROVE  /\ ~SegmentComparator(p, p)
                 /\ ~(SegmentComparator(p, q) /\ SegmentComparator(q, p))
                 /\ SegmentComparator(p, q) /\ SegmentComparator(q, r) => SegmentComparator(p, r)
                 /\ ~SegmentComparator(p, q) /\ ~SegmentComparator(q, r) => ~SegmentComparator(p, r)
      <3>1. \A a, b, c \in {p, q, r} : ~Chained(a, b, c)
        BY <1>1, <2>1
      <3>2. IsSeen(p) /\ IsSeen(q) /\ IsSeen(r)
        BY <2>1
      <3> QED
        BY <3>1, <3>2, ThreeSeen
    <2> QED
      BY <2>1, Zenon DEF StrictWeakOrder
  <1>2. ASSUME NEW a \in S, NEW b \in S, NEW c \in S, Chained(a, b, c),
               StrictWeakOrder(SegmentComparator, S)
        PROVE  FALSE
    <2>1. SegmentComparator(a, c) /\ ~SegmentComparator(a, b) /\ ~SegmentComparator(b, c)
      BY <1>2, ChainIsNoOrder
    <2>2. /\ \A p, q, r \in S : SegmentComparator(p, q) /\ SegmentComparator(q, r) => SegmentComparator(p, r)
          /\ \A p, q, r \in S : /\ ~SegmentComparator(p, q) /\ ~SegmentComparator(q, p)
                                /\ ~SegmentComparator(q, r) /\ ~SegmentComparator(r, q)
                                => ~SegmentComparator(p, r) /\ ~SegmentComparator(r, p)
      BY <1>2, Zenon DEF StrictWeakOrder
    <2>3. ~SegmentComparator(b, a)
      BY <2>1, <2>2, Zenon
    <2>4. ~SegmentComparator(c, b)
      BY <2>1, <2>2, Zenon
    <2> QED
      BY <2>1, <2>2, <2>3, <2>4, Zenon
  <1> QED
    BY <1>1, <1>2

\* Heights are numbers.
LEMMA SeenIsSeen ==
    ASSUME NEW s \in Pieces, NEW x \in Int
    PROVE  IsSeen(Seen(s, x))
  <1>1. ASSUME NEW z \in Int PROVE getYAtX(s, z) \in Int
    <2>1. Unit \in Int /\ s.a \in Point /\ s.b \in Point
      BY UnitAssumption DEF Pieces
    <2>2. CASE existlk(s)
      <3>1. /\ s.line[1] \in Point /\ s.line[2] \in Point
            /\ s.line[1].x < s.line[2].x
        BY <2>2 DEF Pieces, Lines, existlk, Vertical
      <3> PICK p, q : p = s.line[1] /\ q = s.line[2]
        OBVIOUS
      <3>2. p.x \in Int /\ p.y \in Int /\ q.x \in Int /\ q.y \in Int /\ q.x - p.x > 0
        BY <3>1 DEF Point
      <3>3. ((Unit * (q.y - p.y) * (z - p.x)) \div (q.x - p.x)) \in Int
        <4>1. /\ Unit * (q.y - p.y) * (z - p.x) \in Int
              /\ q.x - p.x \in Int
          BY <2>1, <3>2
        <4> QED
          BY <3>2, <4>1, DivRoundsDown
      <3>4. getYAtX(s, z) = Unit * p.y + (Unit * (q.y - p.y) * (z - p.x)) \div (q.x - p.x)
        BY <2>2 DEF getYAtX
      <3> QED
        BY <2>1, <3>2, <3>3, <3>4
    <2>3. CASE ~existlk(s)
      BY <2>1, <2>3 DEF getYAtX, Point, Least
    <2> QED
      BY <2>2, <2>3
  <1> QED
    BY <1>1 DEF Seen, IsSeen, existlk

\* std::priority_queue is used as it may be: EventComp orders whatever events the sweep
\* has put into the queue (sweepline.h:41-86).
THEOREM SweepOrdersItsQueue == Spec => []QueueIsOrdered
  <1>1. SweepInv => QueueIsOrdered
    <2> SUFFICES ASSUME SweepInv PROVE QueueIsOrdered
      OBVIOUS
    <2>1. \A e \in BagToSet(Q) : IsEvent(e) /\ e.x \in Int /\ e.y \in Int
      <3>1. \A e \in BagToSet(Q) : IsEvent(e) /\ e.x \in Int
                                   /\ [x |-> e.x, y |-> e.y] \in VerticesOf(segments)
        BY DEF SweepInv, Sound
      <3>2. VerticesOf(segments) \subseteq Point
        BY DEF SweepInv, Sound, VerticesOf, Pieces
      <3> QED
        BY <3>1, <3>2 DEF Point
    <2> QED
      BY <2>1, EventsAreOrdered DEF QueueIsOrdered
  <1> QED
    BY <1>1, SweepInvariant, PTL

\* std::set is used as it may be just as long as no three segments in the status are
\* chained (sweepline.h:99-126): the rule for heights within 3 units is what is wrong
\* with the comparator, and all that is.
THEOREM SweepOrdersItsStatus == Spec => []OrderedUnlessChained
  <1>1. SweepInv => OrderedUnlessChained
    <2> SUFFICES ASSUME SweepInv PROVE OrderedUnlessChained
      OBVIOUS
    <2>1. \A s \in InStatus : IsSeen(s)
      <3>1. \A k \in DOMAIN status : status[k] \in DOMAIN segments
        BY DEF SweepInv, Entered
      <3>2. \A i \in DOMAIN segments : segments[i] \in Pieces
        BY DEF SweepInv, Sound
      <3>3. currentX \in Int
        BY DEF SweepInv
      <3> QED
        BY <3>1, <3>2, <3>3, SeenIsSeen DEF InStatus
    <2> QED
      BY <2>1, SeenAreOrdered DEF OrderedUnlessChained
  <1> QED
    BY <1>1, SweepInvariant, PTL
=============================================================================
