-------------------------- MODULE FitPolygonProofs ---------------------------
(***************************************************************************)
(* Proofs about what Nfp::run does with its trajectories, for polygons     *)
(* with any coordinates that do not overflow: putting them down and        *)
(* simplifying them keeps every group well formed, and simplifying takes no *)
(* more away than doubles.  The segments of a group have one direction, so *)
(* an end is a place along it, on one of the lines that run that way; what *)
(* processOverlap does is told by the order of four places.                *)
(***************************************************************************)
EXTENDS FitPolygon, FiniteSetTheorems, SequenceTheorems, TLAPS

-----------------------------------------------------------------------------
(* Points along a direction. *)

\* Where a point is along the vector a, and on which of the lines along a.
At(a, p) == dot(a, p)
Level(a, p) == cross(a, p)

Is(a) == a \in Point /\ dot(a, a) > 0

\* A product has the sign that its factors give it.
LEMMA Signs ==
    ASSUME NEW x \in Int, NEW y \in Int, NEW z \in Int, NEW k \in Int, k > 0, z * k = x * y
    PROVE  /\ z > 0 <=> (x > 0 /\ y > 0) \/ (x < 0 /\ y < 0)
           /\ z = 0 <=> x = 0 \/ y = 0
  <1>1. (x > 0 /\ y > 0) \/ (x < 0 /\ y < 0) => x * y > 0
    OBVIOUS
  <1>2. (x > 0 /\ y < 0) \/ (x < 0 /\ y > 0) => x * y < 0
    OBVIOUS
  <1>3. x = 0 \/ y = 0 => x * y = 0
    OBVIOUS
  <1>4. (z > 0 => z * k > 0) /\ (z < 0 => z * k < 0) /\ (z = 0 => z * k = 0)
    OBVIOUS
  <1> QED
    BY <1>1, <1>2, <1>3, <1>4

\* A vector is nothing if its square is.
LEMMA Squares ==
    ASSUME NEW v \in Point
    PROVE  /\ dot(v, v) \in Nat
           /\ dot(v, v) = 0 <=> v = [x |-> 0, y |-> 0]
  <1>1. v.x \in Int /\ v.y \in Int /\ v = [x |-> v.x, y |-> v.y]
    BY DEF Point
  <1>2. \A k \in Int : k * k >= 0 /\ (k * k = 0 <=> k = 0)
    OBVIOUS
  <1> DEFINE X == v.x * v.x
             Y == v.y * v.y
  <1>3. X \in Nat /\ Y \in Nat /\ (X = 0 <=> v.x = 0) /\ (Y = 0 <=> v.y = 0)
    BY <1>1, <1>2
  <1>4. dot(v, v) = X + Y
    BY DEF dot
  <1> HIDE DEF X, Y
  <1> QED
    BY <1>1, <1>3, <1>4

\* Two points of one line along a are one if they are at one place.
LEMMA OnePlace ==
    ASSUME NEW a, Is(a), NEW p \in Point, NEW q \in Point,
           Level(a, p) = Level(a, q), At(a, p) = At(a, q)
    PROVE  p = q
  <1> DEFINE u == p.x - q.x
             v == p.y - q.y
  <1>1. a.x \in Int /\ a.y \in Int /\ p.x \in Int /\ p.y \in Int /\ q.x \in Int /\ q.y \in Int
    BY DEF Is, Point
  <1>2. u \in Int /\ v \in Int
    BY <1>1
  <1>3. a.x * v - a.y * u = 0 /\ a.x * u + a.y * v = 0
    BY <1>1 DEF Level, At, cross, dot
  <1>4. a.x * a.x + a.y * a.y > 0
    BY DEF Is, dot
  <1> HIDE DEF u, v
  <1>5. (a.x * a.x + a.y * a.y) * u = 0
    <2>1. (a.x * a.x + a.y * a.y) * u = a.x * (a.x * u + a.y * v) - a.y * (a.x * v - a.y * u)
      BY <1>1, <1>2
    <2> QED
      BY <2>1, <1>1, <1>3
  <1>6. (a.x * a.x + a.y * a.y) * v = 0
    <2>1. (a.x * a.x + a.y * a.y) * v = a.y * (a.x * u + a.y * v) + a.x * (a.x * v - a.y * u)
      BY <1>1, <1>2
    <2> QED
      BY <2>1, <1>1, <1>3
  <1>7. \A k, w \in Int : k > 0 /\ k * w = 0 => w = 0
    OBVIOUS
  <1>8. u = 0 /\ v = 0
    <2>1. a.x * a.x + a.y * a.y \in Int
      BY <1>1
    <2> QED
      BY <2>1, <1>2, <1>4, <1>5, <1>6, <1>7
  <1>9. p.x = q.x /\ p.y = q.y
    BY <1>1, <1>8 DEF u, v
  <1> QED
    BY <1>9 DEF Point

\* The product of two vectors of which one is along a.
LEMMA Product ==
    ASSUME NEW a, Is(a), NEW d \in Point, NEW e \in Point, cross(a, d) = 0
    PROVE  /\ dot(d, e) * dot(a, a) = dot(a, d) * dot(a, e)
           /\ cross(d, e) * dot(a, a) = dot(a, d) * cross(a, e)
  <1>1. /\ a.x \in Int /\ a.y \in Int /\ d.x \in Int /\ d.y \in Int
        /\ e.x \in Int /\ e.y \in Int
    BY DEF Is, Point
  <1>2. a.x * d.y = a.y * d.x
    BY <1>1 DEF cross
  <1>3. (d.x * e.x + d.y * e.y) * (a.x * a.x + a.y * a.y)
           = (a.x * d.x + a.y * d.y) * (a.x * e.x + a.y * e.y)
               + (a.x * d.y - a.y * d.x) * (a.x * e.y - a.y * e.x)
    BY <1>1
  <1>4. (d.x * e.y - d.y * e.x) * (a.x * a.x + a.y * a.y)
           = (a.x * d.x + a.y * d.y) * (a.x * e.y - a.y * e.x)
               - (a.x * d.y - a.y * d.x) * (a.x * e.x + a.y * e.y)
    BY <1>1
  <1>5. a.x * d.y - a.y * d.x = 0
    BY <1>1, <1>2
  <1>6. \A k \in Int : 0 * k = 0
    OBVIOUS
  <1>7. /\ (a.x * d.y - a.y * d.x) * (a.x * e.y - a.y * e.x) = 0
        /\ (a.x * d.y - a.y * d.x) * (a.x * e.x + a.y * e.y) = 0
    BY <1>1, <1>5, <1>6
  <1> QED
    BY <1>1, <1>3, <1>4, <1>7 DEF dot, cross

\* A segment that is not empty, along a.
Along(a, s) == s \in Segments /\ s.a # s.b /\ cross(a, Vec(s)) = 0

\* Subtraction, along a.
LEMMA Differences ==
    ASSUME NEW a \in Point, NEW p \in Point, NEW q \in Point
    PROVE  /\ Sub(p, q) \in Point
           /\ At(a, p) \in Int /\ Level(a, p) \in Int
           /\ dot(a, Sub(p, q)) = At(a, p) - At(a, q)
           /\ cross(a, Sub(p, q)) = Level(a, p) - Level(a, q)
  <1>1. /\ a.x \in Int /\ a.y \in Int /\ p.x \in Int /\ p.y \in Int
        /\ q.x \in Int /\ q.y \in Int
    BY DEF Point
  <1>2. /\ a.x * (p.x - q.x) + a.y * (p.y - q.y) = (a.x * p.x + a.y * p.y) - (a.x * q.x + a.y * q.y)
        /\ a.x * (p.y - q.y) - a.y * (p.x - q.x) = (a.x * p.y - a.y * p.x) - (a.x * q.y - a.y * q.x)
    BY <1>1
  <1>3. Sub(p, q) \in Point
    BY <1>1 DEF Sub, Point
  <1> QED
    BY <1>1, <1>2, <1>3 DEF Sub, dot, cross, At, Level

\* The ends of such a segment are on one line and apart.
LEMMA EndsApart ==
    ASSUME NEW a, Is(a), NEW s, Along(a, s)
    PROVE  /\ s.a \in Point /\ s.b \in Point /\ Vec(s) \in Point
           /\ Level(a, s.a) = Level(a, s.b)
           /\ At(a, s.a) # At(a, s.b)
           /\ dot(a, Vec(s)) = At(a, s.b) - At(a, s.a)
           /\ At(a, s.a) \in Int /\ At(a, s.b) \in Int /\ Level(a, s.a) \in Int
  <1>1. a \in Point /\ s.a \in Point /\ s.b \in Point
    BY DEF Along, Segments, Is
  <1>2. cross(a, Sub(s.b, s.a)) = 0 /\ s.a # s.b
    BY DEF Along, Vec
  <1>3. Level(a, s.a) = Level(a, s.b)
    <2>1. /\ cross(a, Sub(s.b, s.a)) = Level(a, s.b) - Level(a, s.a)
          /\ Level(a, s.a) \in Int /\ Level(a, s.b) \in Int
      BY <1>1, Differences
    <2> QED
      BY <2>1, <1>2
  <1>4. At(a, s.a) # At(a, s.b)
    BY <1>1, <1>2, <1>3, OnePlace
  <1> QED
    BY <1>1, <1>3, <1>4, Differences DEF Vec

\* The products that nfp.cpp takes of such a segment with the way from q to p.
LEMMA ProductOfSegment ==
    ASSUME NEW a, Is(a), NEW s, Along(a, s), NEW p \in Point, NEW q \in Point
    PROVE  /\ cross(Vec(s), Sub(p, q)) = 0 <=> Level(a, p) = Level(a, q)
           /\ dot(Vec(s), Sub(p, q)) \in Int
           /\ At(a, p) \in Int /\ At(a, q) \in Int
           /\ dot(Vec(s), Sub(p, q)) > 0 <=>
                 \/ At(a, s.a) < At(a, s.b) /\ At(a, q) < At(a, p)
                 \/ At(a, s.b) < At(a, s.a) /\ At(a, p) < At(a, q)
           /\ dot(Vec(s), Sub(p, q)) >= 0 <=>
                 \/ At(a, s.a) < At(a, s.b) /\ At(a, q) <= At(a, p)
                 \/ At(a, s.b) < At(a, s.a) /\ At(a, p) <= At(a, q)
  <1> DEFINE d == Vec(s)
             e == Sub(p, q)
  <1>1. a \in Point /\ d \in Point /\ e \in Point /\ dot(a, a) > 0 /\ cross(a, d) = 0
    BY Differences, EndsApart DEF Is, Along
  <1>2. /\ dot(d, e) \in Int /\ cross(d, e) \in Int /\ dot(a, d) \in Int /\ dot(a, e) \in Int
        /\ cross(a, e) \in Int /\ dot(a, a) \in Int
    BY <1>1 DEF dot, cross, Point
  <1>3. /\ dot(d, e) * dot(a, a) = dot(a, d) * dot(a, e)
        /\ cross(d, e) * dot(a, a) = dot(a, d) * cross(a, e)
    BY <1>1, Product
  <1>4. /\ dot(a, d) = At(a, s.b) - At(a, s.a) /\ At(a, s.a) # At(a, s.b)
        /\ At(a, s.a) \in Int /\ At(a, s.b) \in Int
    BY EndsApart
  <1>5. /\ dot(a, e) = At(a, p) - At(a, q) /\ cross(a, e) = Level(a, p) - Level(a, q)
        /\ At(a, p) \in Int /\ At(a, q) \in Int /\ Level(a, p) \in Int /\ Level(a, q) \in Int
    BY <1>1, Differences
  <1> HIDE DEF d, e
  <1>6. cross(d, e) = 0 <=> dot(a, d) = 0 \/ cross(a, e) = 0
    BY <1>1, <1>2, <1>3, Signs
  <1>7. /\ dot(d, e) > 0 <=> (dot(a, d) > 0 /\ dot(a, e) > 0) \/ (dot(a, d) < 0 /\ dot(a, e) < 0)
        /\ dot(d, e) = 0 <=> dot(a, d) = 0 \/ dot(a, e) = 0
    BY <1>1, <1>2, <1>3, Signs
  <1>8. cross(d, e) = 0 <=> Level(a, p) = Level(a, q)
    BY <1>4, <1>5, <1>6
  <1>9. /\ dot(d, e) > 0 <=>
              \/ At(a, s.a) < At(a, s.b) /\ At(a, q) < At(a, p)
              \/ At(a, s.b) < At(a, s.a) /\ At(a, p) < At(a, q)
        /\ dot(d, e) >= 0 <=>
              \/ At(a, s.a) < At(a, s.b) /\ At(a, q) <= At(a, p)
              \/ At(a, s.b) < At(a, s.a) /\ At(a, p) <= At(a, q)
    BY <1>2, <1>4, <1>5, <1>7
  <1> QED
    BY <1>2, <1>5, <1>8, <1>9 DEF d, e

\* Whether such a segment runs over a stretch, by the places of the four points.
LEMMA RunsByPlace ==
    ASSUME NEW a, Is(a), NEW s, Along(a, s), NEW p \in Point, NEW q \in Point
    PROVE  RunsOver(s, p, q) <=>
              /\ Level(a, p) = Level(a, s.a) /\ Level(a, q) = Level(a, s.a)
              /\ \/ /\ At(a, s.a) <= At(a, p) /\ At(a, p) < At(a, q)
                    /\ At(a, q) <= At(a, s.b)
                 \/ /\ At(a, s.b) <= At(a, q) /\ At(a, q) < At(a, p)
                    /\ At(a, p) <= At(a, s.a)
  <1>1. s.a \in Point /\ s.b \in Point /\ At(a, s.a) \in Int /\ At(a, s.b) \in Int
    BY EndsApart
  <1>2. At(a, p) \in Int /\ At(a, q) \in Int
    BY Differences DEF Is
  <1>3. /\ cross(Vec(s), Sub(p, s.a)) = 0 <=> Level(a, p) = Level(a, s.a)
        /\ dot(Vec(s), Sub(p, s.a)) >= 0 <=>
              \/ At(a, s.a) < At(a, s.b) /\ At(a, s.a) <= At(a, p)
              \/ At(a, s.b) < At(a, s.a) /\ At(a, p) <= At(a, s.a)
    BY <1>1, ProductOfSegment
  <1>4. cross(Vec(s), Sub(q, s.a)) = 0 <=> Level(a, q) = Level(a, s.a)
    BY <1>1, ProductOfSegment
  <1>5. dot(Vec(s), Sub(s.b, q)) >= 0 <=>
           \/ At(a, s.a) < At(a, s.b) /\ At(a, q) <= At(a, s.b)
           \/ At(a, s.b) < At(a, s.a) /\ At(a, s.b) <= At(a, q)
    BY <1>1, ProductOfSegment
  <1>6. dot(Vec(s), Sub(q, p)) > 0 <=>
           \/ At(a, s.a) < At(a, s.b) /\ At(a, p) < At(a, q)
           \/ At(a, s.b) < At(a, s.a) /\ At(a, q) < At(a, p)
    BY ProductOfSegment
  <1> QED
    BY <1>1, <1>2, <1>3, <1>4, <1>5, <1>6 DEF RunsOver

LEMMA Scaled ==
    ASSUME NEW u \in Int, NEW k \in Int, NEW b \in Int, NEW w \in Int, k > 0, w > 0, u * k = b * w
    PROVE  (u > 0 <=> b > 0) /\ (u = 0 <=> b = 0)
  BY Signs

\* On one line the coordinates go with the place.
LEMMA CoordinatesGo ==
    ASSUME NEW a, Is(a), NEW p \in Point, NEW q \in Point,
           Level(a, p) = Level(a, q), At(a, q) < At(a, p)
    PROVE  /\ a.x \in Int /\ a.y \in Int /\ (a.x # 0 \/ a.y # 0)
           /\ p.x \in Int /\ p.y \in Int /\ q.x \in Int /\ q.y \in Int
           /\ (a.x > 0 => q.x < p.x) /\ (a.x < 0 => p.x < q.x)
           /\ (a.y > 0 => q.y < p.y) /\ (a.y < 0 => p.y < q.y)
  <1> DEFINE u == p.x - q.x
             v == p.y - q.y
             k == a.x * a.x + a.y * a.y
             w == At(a, p) - At(a, q)
  <1>1. /\ a.x \in Int /\ a.y \in Int /\ p.x \in Int /\ p.y \in Int
        /\ q.x \in Int /\ q.y \in Int
    BY DEF Is, Point
  <1>2. u \in Int /\ v \in Int /\ k \in Int /\ k > 0
    BY <1>1 DEF Is, dot
  <1>3. a.x * u + a.y * v = w /\ a.x * v - a.y * u = 0 /\ w \in Int /\ w > 0
    BY <1>1 DEF At, Level, dot, cross
  <1> HIDE DEF u, v, w, k
  <1>4. u * k = a.x * w /\ v * k = a.y * w
    <2>1. /\ (a.x * a.x + a.y * a.y) * u = a.x * (a.x * u + a.y * v) - a.y * (a.x * v - a.y * u)
          /\ (a.x * a.x + a.y * a.y) * v = a.y * (a.x * u + a.y * v) + a.x * (a.x * v - a.y * u)
      BY <1>1, <1>2
    <2>2. k * u = u * k /\ k * v = v * k
      BY <1>2
    <2>3. k * u = a.x * w /\ k * v = a.y * w
      BY <2>1, <1>1, <1>3 DEF k
    <2> QED
      BY <2>2, <2>3
  <1>5. a.x # 0 \/ a.y # 0
    BY <1>1, <1>2 DEF k
  <1>6. (u > 0 <=> a.x > 0) /\ (u = 0 <=> a.x = 0)
    <2> DEFINE b == a.x
    <2>1. u \in Int /\ k \in Int /\ b \in Int /\ w \in Int /\ k > 0 /\ w > 0 /\ u * k = b * w
      BY <1>1, <1>2, <1>3, <1>4
    <2> HIDE DEF b
    <2>2. (u > 0 <=> b > 0) /\ (u = 0 <=> b = 0)
      BY <2>1, Scaled
    <2> QED
      BY <2>2 DEF b
  <1>7. (v > 0 <=> a.y > 0) /\ (v = 0 <=> a.y = 0)
    <2> DEFINE b == a.y
    <2>1. v \in Int /\ k \in Int /\ b \in Int /\ w \in Int /\ k > 0 /\ w > 0 /\ v * k = b * w
      BY <1>1, <1>2, <1>3, <1>4
    <2> HIDE DEF b
    <2>2. (v > 0 <=> b > 0) /\ (v = 0 <=> b = 0)
      BY <2>1, Scaled
    <2> QED
      BY <2>2 DEF b
  <1> QED
    BY <1>1, <1>2, <1>5, <1>6, <1>7 DEF u, v

\* Four points of one line, p and q before r and s: there is a coordinate by which they are apart.
LEMMA Apart ==
    ASSUME NEW a, Is(a), NEW p \in Point, NEW q \in Point, NEW r \in Point, NEW s \in Point,
           Level(a, p) = Level(a, q), Level(a, q) = Level(a, r), Level(a, r) = Level(a, s),
           At(a, p) < At(a, r), At(a, p) < At(a, s), At(a, q) < At(a, r), At(a, q) < At(a, s)
    PROVE  /\ p.x \in Int /\ p.y \in Int /\ q.x \in Int /\ q.y \in Int
           /\ r.x \in Int /\ r.y \in Int /\ s.x \in Int /\ s.y \in Int
           /\ \/ p.x < r.x /\ p.x < s.x /\ q.x < r.x /\ q.x < s.x
              \/ p.x > r.x /\ p.x > s.x /\ q.x > r.x /\ q.x > s.x
              \/ p.y < r.y /\ p.y < s.y /\ q.y < r.y /\ q.y < s.y
              \/ p.y > r.y /\ p.y > s.y /\ q.y > r.y /\ q.y > s.y
  <1>1. /\ a.x \in Int /\ a.y \in Int /\ (a.x # 0 \/ a.y # 0)
        /\ p.x \in Int /\ p.y \in Int /\ r.x \in Int /\ r.y \in Int
        /\ (a.x > 0 => p.x < r.x) /\ (a.x < 0 => r.x < p.x)
        /\ (a.y > 0 => p.y < r.y) /\ (a.y < 0 => r.y < p.y)
    BY CoordinatesGo
  <1>2. /\ s.x \in Int /\ s.y \in Int
        /\ (a.x > 0 => p.x < s.x) /\ (a.x < 0 => s.x < p.x)
        /\ (a.y > 0 => p.y < s.y) /\ (a.y < 0 => s.y < p.y)
    BY CoordinatesGo
  <1>3. /\ q.x \in Int /\ q.y \in Int
        /\ (a.x > 0 => q.x < r.x) /\ (a.x < 0 => r.x < q.x)
        /\ (a.y > 0 => q.y < r.y) /\ (a.y < 0 => r.y < q.y)
    BY CoordinatesGo
  <1>4. /\ (a.x > 0 => q.x < s.x) /\ (a.x < 0 => s.x < q.x)
        /\ (a.y > 0 => q.y < s.y) /\ (a.y < 0 => s.y < q.y)
    BY CoordinatesGo
  <1> QED
    BY <1>1, <1>2, <1>3, <1>4

\* Segments that touch are on one line, and neither is behind the other.
LEMMA TouchByPlace ==
    ASSUME NEW a, Is(a), NEW s, Along(a, s), NEW t, Along(a, t), Touch(s, t)
    PROVE  /\ Level(a, s.a) = Level(a, t.a)
           /\ ~(/\ At(a, s.a) < At(a, t.a) /\ At(a, s.a) < At(a, t.b)
                /\ At(a, s.b) < At(a, t.a) /\ At(a, s.b) < At(a, t.b))
           /\ ~(/\ At(a, t.a) < At(a, s.a) /\ At(a, t.a) < At(a, s.b)
                /\ At(a, t.b) < At(a, s.a) /\ At(a, t.b) < At(a, s.b))
  <1>1. /\ s.a \in Point /\ s.b \in Point /\ t.a \in Point /\ t.b \in Point
        /\ Level(a, s.a) = Level(a, s.b) /\ Level(a, t.a) = Level(a, t.b)
    BY EndsApart
  <1>2. Level(a, s.a) = Level(a, t.a)
    BY <1>1, ProductOfSegment DEF Touch
  <1>3. ASSUME /\ At(a, s.a) < At(a, t.a) /\ At(a, s.a) < At(a, t.b)
               /\ At(a, s.b) < At(a, t.a) /\ At(a, s.b) < At(a, t.b)
        PROVE FALSE
    <2>1. /\ s.a.x \in Int /\ s.a.y \in Int /\ s.b.x \in Int /\ s.b.y \in Int
          /\ t.a.x \in Int /\ t.a.y \in Int /\ t.b.x \in Int /\ t.b.y \in Int
          /\ \/ s.a.x < t.a.x /\ s.a.x < t.b.x /\ s.b.x < t.a.x /\ s.b.x < t.b.x
             \/ s.a.x > t.a.x /\ s.a.x > t.b.x /\ s.b.x > t.a.x /\ s.b.x > t.b.x
             \/ s.a.y < t.a.y /\ s.a.y < t.b.y /\ s.b.y < t.a.y /\ s.b.y < t.b.y
             \/ s.a.y > t.a.y /\ s.a.y > t.b.y /\ s.b.y > t.a.y /\ s.b.y > t.b.y
      BY <1>1, <1>2, <1>3, Apart
    <2> QED
      BY <2>1 DEF Touch, Greatest, Least
  <1>4. ASSUME /\ At(a, t.a) < At(a, s.a) /\ At(a, t.a) < At(a, s.b)
               /\ At(a, t.b) < At(a, s.a) /\ At(a, t.b) < At(a, s.b)
        PROVE FALSE
    <2>1. /\ s.a.x \in Int /\ s.a.y \in Int /\ s.b.x \in Int /\ s.b.y \in Int
          /\ t.a.x \in Int /\ t.a.y \in Int /\ t.b.x \in Int /\ t.b.y \in Int
          /\ \/ t.a.x < s.a.x /\ t.a.x < s.b.x /\ t.b.x < s.a.x /\ t.b.x < s.b.x
             \/ t.a.x > s.a.x /\ t.a.x > s.b.x /\ t.b.x > s.a.x /\ t.b.x > s.b.x
             \/ t.a.y < s.a.y /\ t.a.y < s.b.y /\ t.b.y < s.a.y /\ t.b.y < s.b.y
             \/ t.a.y > s.a.y /\ t.a.y > s.b.y /\ t.b.y > s.a.y /\ t.b.y > s.b.y
      BY <1>1, <1>2, <1>4, Apart
    <2> QED
      BY <2>1 DEF Touch, Greatest, Least
  <1> QED
    BY <1>2, <1>3, <1>4

-----------------------------------------------------------------------------
(* processOverlap, on a line of places. *)

\* What runs from x to y runs from p to q, and how often.
Over(x, y, p, q) == (x <= p /\ p < q /\ q <= y) \/ (y <= q /\ q < p /\ p <= x)
Count(x, y, p, q) == IF Over(x, y, p, q) THEN 1 ELSE 0

\* No end is between p and q.
Clear(x, p, q) == (x <= p \/ q <= x) /\ (x <= q \/ p <= x)

\* From t runs in one direction and b in the other to t1 and b1: see TakesOnlyDoubles.
Takes(t, b, t1, b1) ==
    \/ t1 = t /\ b1 = b
    \/ t1 = t - 1 /\ b1 = b - 1
    \/ t > 1 /\ t1 = t - 1 /\ b1 = b
    \/ b > 1 /\ t1 = t /\ b1 = b - 1

\* Two segments for two, and one for two, seen from p to q.
TwoForTwo(x, y, z, w, x1, y1, z1, w1, p, q) ==
    Takes(Count(x, y, p, q) + Count(z, w, p, q), Count(x, y, q, p) + Count(z, w, q, p),
          Count(x1, y1, p, q) + Count(z1, w1, p, q), Count(x1, y1, q, p) + Count(z1, w1, q, p))
OneForTwo(x, y, z, w, x1, y1, p, q) ==
    Takes(Count(x, y, p, q) + Count(z, w, p, q), Count(x, y, q, p) + Count(z, w, q, p),
          Count(x1, y1, p, q), Count(x1, y1, q, p))

LEMMA SwapsTake ==
    ASSUME NEW x \in Int, NEW y \in Int, NEW z \in Int, NEW w \in Int, NEW p \in Int, NEW q \in Int,
           x < y, w < z, x <= z, w <= y,
           Clear(x, p, q), Clear(y, p, q), Clear(z, p, q), Clear(w, p, q)
    PROVE  /\ TwoForTwo(x, y, z, w, x, w, z, y, p, q)
           /\ TwoForTwo(x, y, z, w, z, y, x, w, p, q)
           /\ y = z => OneForTwo(x, y, z, w, x, w, p, q)
           /\ x = w => OneForTwo(x, y, z, w, z, y, p, q)
           /\ y = z /\ x = w => Takes(Count(x, y, p, q) + Count(z, w, p, q),
                                    Count(x, y, q, p) + Count(z, w, q, p), 0, 0)
  BY DEF TwoForTwo, OneForTwo, Takes, Count, Over, Clear

LEMMA MergeTakes ==
    ASSUME NEW x \in Int, NEW y \in Int, NEW z \in Int, NEW w \in Int, NEW p \in Int, NEW q \in Int,
           x < y, z < w, x <= w, z <= y,
           Clear(x, p, q), Clear(y, p, q), Clear(z, p, q), Clear(w, p, q)
    PROVE  OneForTwo(x, y, z, w, IF z >= x THEN x ELSE z, IF w >= y THEN w ELSE y, p, q)
  BY DEF OneForTwo, Takes, Count, Over, Clear

-----------------------------------------------------------------------------
(* processOverlap. *)

\* How often a segment, or null, runs over a stretch.
Times(s, p, q) == IF s # NULL /\ RunsOver(s, p, q) THEN 1 ELSE 0

\* Two points of a line along a: a segment between them.
LEMMA SegmentAlong ==
    ASSUME NEW a, Is(a), NEW p \in Point, NEW q \in Point,
           Level(a, p) = Level(a, q), At(a, p) # At(a, q)
    PROVE  /\ Along(a, Seg(p, q)) /\ Seg(p, q).a = p /\ Seg(p, q).b = q
           /\ Seg(p, q) # NULL
  <1>1. Seg(p, q).a = p /\ Seg(p, q).b = q /\ Seg(p, q) \in Segments
    BY DEF Seg, Segments
  <1>2. cross(a, Sub(q, p)) = Level(a, q) - Level(a, p) /\ Level(a, p) \in Int /\ Level(a, q) \in Int
    BY Differences DEF Is
  <1> QED
    BY <1>1, <1>2, NullAssumption DEF Along, Vec

\* Times, by places; off the line of the segment it is zero.
LEMMA TimesByPlace ==
    ASSUME NEW a, Is(a), NEW s, Along(a, s), NEW p \in Point, NEW q \in Point
    PROVE  Times(s, p, q) =
              IF Level(a, p) = Level(a, s.a) /\ Level(a, q) = Level(a, s.a)
              THEN Count(At(a, s.a), At(a, s.b), At(a, p), At(a, q)) ELSE 0
  <1>1. s # NULL
    BY NullAssumption DEF Along
  <1> QED
    BY <1>1, RunsByPlace DEF Times, Count, Over

\* What processOverlap makes of two segments, by the places of their ends.
Outcome(a, s1, s2, new) ==
    \/ /\ At(a, s2.b) < At(a, s2.a)
       /\ \/ /\ At(a, s1.a) # At(a, s2.b) /\ At(a, s1.b) # At(a, s2.a)
             /\ \/ new = <<Seg(s1.a, s2.b), Seg(s2.a, s1.b)>>
                \/ new = <<Seg(s2.a, s1.b), Seg(s1.a, s2.b)>>
          \/ /\ At(a, s1.a) # At(a, s2.b) /\ At(a, s1.b) = At(a, s2.a)
             /\ new = <<NULL, Seg(s1.a, s2.b)>>
          \/ /\ At(a, s1.a) = At(a, s2.b) /\ At(a, s1.b) # At(a, s2.a)
             /\ new = <<NULL, Seg(s2.a, s1.b)>>
          \/ /\ At(a, s1.a) = At(a, s2.b) /\ At(a, s1.b) = At(a, s2.a)
             /\ new = <<NULL, NULL>>
    \/ /\ At(a, s2.a) < At(a, s2.b)
       /\ new = <<NULL, Seg(IF At(a, s2.a) >= At(a, s1.a) THEN s1.a ELSE s2.a,
                            IF At(a, s2.b) >= At(a, s1.b) THEN s2.b ELSE s1.b)>>

LEMMA OverlapOutcome ==
    ASSUME NEW a, Is(a), NEW s1, NEW s2, Along(a, s1), Along(a, s2),
           At(a, s1.a) < At(a, s1.b), Touch(s1, s2)
    PROVE  Outcome(a, s1, s2, processOverlap(s1, s2))
  <1>1. /\ s1.a \in Point /\ s1.b \in Point /\ s2.a \in Point /\ s2.b \in Point
        /\ At(a, s1.a) \in Int /\ At(a, s1.b) \in Int /\ At(a, s2.a) \in Int /\ At(a, s2.b) \in Int
        /\ At(a, s2.a) # At(a, s2.b)
        /\ Level(a, s1.a) = Level(a, s1.b) /\ Level(a, s2.a) = Level(a, s2.b)
    BY EndsApart
  <1>2. Level(a, s1.a) = Level(a, s2.a)
    BY TouchByPlace
  <1>3. /\ (s1.a = s2.b) <=> At(a, s1.a) = At(a, s2.b)
        /\ (s1.b = s2.a) <=> At(a, s1.b) = At(a, s2.a)
    BY <1>1, <1>2, OnePlace
  <1>4. /\ dot(Vec(s1), Sub(s2.b, s1.a)) > 0 <=> At(a, s1.a) < At(a, s2.b)
        /\ dot(Vec(s1), Sub(s2.a, s1.b)) > 0 <=> At(a, s1.b) < At(a, s2.a)
    BY <1>1, ProductOfSegment
  <1>5. /\ dot(Vec(s1), Sub(s2.a, s1.a)) >= 0 <=> At(a, s1.a) <= At(a, s2.a)
        /\ dot(Vec(s1), Sub(s2.b, s1.b)) >= 0 <=> At(a, s1.b) <= At(a, s2.b)
    BY <1>1, ProductOfSegment
  <1>6. /\ dot(Vec(s1), Vec(s2)) \in Int
        /\ dot(Vec(s1), Vec(s2)) < 0 <=> At(a, s2.b) < At(a, s2.a)
    <2>1. /\ dot(Vec(s1), Sub(s2.b, s2.a)) \in Int
          /\ dot(Vec(s1), Sub(s2.b, s2.a)) >= 0 <=> At(a, s2.a) <= At(a, s2.b)
      BY <1>1, ProductOfSegment
    <2> QED
      BY <2>1, <1>1 DEF Vec
  <1>7. CASE At(a, s2.b) < At(a, s2.a)
    <2>1. processOverlap(s1, s2) = Cancel(s1, s2)
      BY <1>6, <1>7 DEF processOverlap
    <2>2. CASE At(a, s1.a) < At(a, s2.b) /\ At(a, s1.b) < At(a, s2.a)
      <3>1. Cancel(s1, s2) = <<Seg(s1.a, s2.b), Seg(s2.a, s1.b)>>
        BY <1>4, <2>2 DEF Cancel
      <3> QED
        BY <1>1, <1>7, <2>1, <2>2, <3>1 DEF Outcome
    <2>3. CASE At(a, s1.a) < At(a, s2.b) /\ ~(At(a, s1.b) < At(a, s2.a))
      <3>1. Cancel(s1, s2) = IF At(a, s1.b) = At(a, s2.a) THEN <<NULL, Seg(s1.a, s2.b)>>
                             ELSE <<Seg(s1.a, s2.b), Seg(s2.a, s1.b)>>
        BY <1>3, <1>4, <2>3 DEF Cancel
      <3> QED
        BY <1>1, <1>7, <2>1, <2>3, <3>1 DEF Outcome
    <2>4. CASE ~(At(a, s1.a) < At(a, s2.b)) /\ At(a, s1.b) < At(a, s2.a)
      <3>1. Cancel(s1, s2) = IF At(a, s1.a) = At(a, s2.b) THEN <<NULL, Seg(s2.a, s1.b)>>
                             ELSE <<Seg(s1.a, s2.b), Seg(s2.a, s1.b)>>
        BY <1>3, <1>4, <2>4 DEF Cancel
      <3> QED
        BY <1>1, <1>7, <2>1, <2>4, <3>1 DEF Outcome
    <2>5. CASE ~(At(a, s1.a) < At(a, s2.b)) /\ ~(At(a, s1.b) < At(a, s2.a))
      <3>1. Cancel(s1, s2) =
               IF At(a, s1.a) = At(a, s2.b) /\ At(a, s1.b) = At(a, s2.a) THEN <<NULL, NULL>>
               ELSE IF At(a, s1.a) = At(a, s2.b) THEN <<NULL, Seg(s2.a, s1.b)>>
               ELSE IF At(a, s1.b) = At(a, s2.a) THEN <<NULL, Seg(s1.a, s2.b)>>
               ELSE <<Seg(s2.a, s1.b), Seg(s1.a, s2.b)>>
        BY <1>3, <1>4, <2>5 DEF Cancel
      <3> QED
        BY <1>1, <1>7, <2>1, <2>5, <3>1 DEF Outcome
    <2> QED
      BY <2>2, <2>3, <2>4, <2>5
  <1>8. CASE ~(At(a, s2.b) < At(a, s2.a))
    <2>1. processOverlap(s1, s2) = <<NULL, Merge(s1, s2)>>
      BY <1>6, <1>8 DEF processOverlap
    <2>2. Merge(s1, s2) = Seg(IF At(a, s2.a) >= At(a, s1.a) THEN s1.a ELSE s2.a,
                              IF At(a, s2.b) >= At(a, s1.b) THEN s2.b ELSE s1.b)
      BY <1>1, <1>5 DEF Merge
    <2>3. At(a, s2.a) < At(a, s2.b)
      BY <1>1, <1>8
    <2> QED
      BY <2>1, <2>2, <2>3 DEF Outcome
  <1> QED
    BY <1>7, <1>8

\* What processOverlap gives is along the line of the two, or null.
LEMMA OverlapAlong ==
    ASSUME NEW a, Is(a), NEW s1, NEW s2, Along(a, s1), Along(a, s2),
           At(a, s1.a) < At(a, s1.b), Touch(s1, s2),
           NEW new, new = processOverlap(s1, s2)
    PROVE  /\ new = <<new[1], new[2]>>
           /\ new[1] = NULL \/ Along(a, new[1])
           /\ new[2] = NULL \/ Along(a, new[2])
  <1>1. /\ s1.a \in Point /\ s1.b \in Point /\ s2.a \in Point /\ s2.b \in Point
        /\ At(a, s1.a) \in Int /\ At(a, s1.b) \in Int /\ At(a, s2.a) \in Int /\ At(a, s2.b) \in Int
        /\ Level(a, s1.a) = Level(a, s1.b) /\ Level(a, s2.a) = Level(a, s2.b)
    BY EndsApart
  <1>2. Level(a, s1.a) = Level(a, s2.a)
    BY TouchByPlace
  <1>3. Outcome(a, s1, s2, new)
    BY OverlapOutcome
  <1>4. At(a, s1.a) # At(a, s2.b) => Along(a, Seg(s1.a, s2.b))
    BY <1>1, <1>2, SegmentAlong
  <1>5. At(a, s1.b) # At(a, s2.a) => Along(a, Seg(s2.a, s1.b))
    BY <1>1, <1>2, SegmentAlong
  <1>6. ASSUME At(a, s2.a) < At(a, s2.b)
        PROVE  Along(a, Seg(IF At(a, s2.a) >= At(a, s1.a) THEN s1.a ELSE s2.a,
                            IF At(a, s2.b) >= At(a, s1.b) THEN s2.b ELSE s1.b))
    <2> DEFINE c == IF At(a, s2.a) >= At(a, s1.a) THEN s1.a ELSE s2.a
               d == IF At(a, s2.b) >= At(a, s1.b) THEN s2.b ELSE s1.b
    <2>1. c \in Point /\ d \in Point /\ Level(a, c) = Level(a, d)
      BY <1>1, <1>2
    <2>2. At(a, c) # At(a, d)
      BY <1>1, <1>6
    <2> HIDE DEF c, d
    <2>3. Along(a, Seg(c, d))
      BY <2>1, <2>2, SegmentAlong
    <2> QED
      BY <2>3 DEF c, d
  <1> QED
    BY <1>3, <1>4, <1>5, <1>6 DEF Outcome

\* No end of the segment is between p and q.
FreeOf(a, s, p, q) ==
    Level(a, s.a) = Level(a, p) =>
        Clear(At(a, s.a), At(a, p), At(a, q)) /\ Clear(At(a, s.b), At(a, p), At(a, q))

\* What processOverlap takes away on a stretch that none of the four ends divides.
LEMMA OverlapTakes ==
    ASSUME NEW a, Is(a), NEW s1, NEW s2, Along(a, s1), Along(a, s2),
           At(a, s1.a) < At(a, s1.b), Touch(s1, s2),
           NEW new, new = processOverlap(s1, s2),
           NEW p \in Point, NEW q \in Point, Level(a, p) = Level(a, q),
           FreeOf(a, s1, p, q), FreeOf(a, s2, p, q)
    PROVE  Takes(Times(s1, p, q) + Times(s2, p, q), Times(s1, q, p) + Times(s2, q, p),
                 Times(new[1], p, q) + Times(new[2], p, q),
                 Times(new[1], q, p) + Times(new[2], q, p))
  <1>1. /\ s1.a \in Point /\ s1.b \in Point /\ s2.a \in Point /\ s2.b \in Point
        /\ At(a, s1.a) \in Int /\ At(a, s1.b) \in Int /\ At(a, s2.a) \in Int /\ At(a, s2.b) \in Int
        /\ Level(a, s1.a) = Level(a, s1.b) /\ Level(a, s2.a) = Level(a, s2.b)
    BY EndsApart
  <1>2. /\ Level(a, s1.a) = Level(a, s2.a)
        /\ ~(At(a, s1.b) < At(a, s2.a) /\ At(a, s1.b) < At(a, s2.b))
        /\ ~(At(a, s2.a) < At(a, s1.a) /\ At(a, s2.b) < At(a, s1.a))
    <2>1. /\ Level(a, s1.a) = Level(a, s2.a)
          /\ ~(/\ At(a, s1.a) < At(a, s2.a) /\ At(a, s1.a) < At(a, s2.b)
               /\ At(a, s1.b) < At(a, s2.a) /\ At(a, s1.b) < At(a, s2.b))
          /\ ~(/\ At(a, s2.a) < At(a, s1.a) /\ At(a, s2.a) < At(a, s1.b)
               /\ At(a, s2.b) < At(a, s1.a) /\ At(a, s2.b) < At(a, s1.b))
      BY TouchByPlace
    <2> QED
      BY <1>1, <2>1
  <1>3. At(a, p) \in Int /\ At(a, q) \in Int
    BY Differences DEF Is
  <1>4. Outcome(a, s1, s2, new)
    BY OverlapOutcome
  <1>5. new[1] = NULL \/ Along(a, new[1])
    BY OverlapAlong
  <1>6. new[2] = NULL \/ Along(a, new[2])
    BY OverlapAlong
  <1>7. Times(NULL, p, q) = 0 /\ Times(NULL, q, p) = 0
    BY DEF Times
  <1>8. CASE Level(a, p) # Level(a, s1.a)
    <2>1. ASSUME NEW s, Along(a, s), Level(a, s.a) = Level(a, s1.a)
          PROVE  Times(s, p, q) = 0 /\ Times(s, q, p) = 0
      BY <1>8, <2>1, TimesByPlace
    <2>2. \A s : Along(a, s) /\ Level(a, s.a) = Level(a, s1.a) => Times(s, p, q) = 0 /\ Times(s, q, p) = 0
      BY <2>1
    <2>3. \A s \in {new[1], new[2]} : s = NULL \/ (Along(a, s) /\ Level(a, s.a) = Level(a, s1.a))
      BY <1>1, <1>2, <1>4, <1>5, <1>6 DEF Outcome, Seg
    <2>4. \A s \in {new[1], new[2]} : Times(s, p, q) = 0 /\ Times(s, q, p) = 0
      BY <1>7, <2>2, <2>3
    <2>5. \A s \in {s1, s2} : Times(s, p, q) = 0 /\ Times(s, q, p) = 0
      BY <1>2, <2>2
    <2> QED
      BY <2>4, <2>5 DEF Takes
  <1>9. CASE Level(a, p) = Level(a, s1.a)
    <2> DEFINE x == At(a, s1.a)
               y == At(a, s1.b)
               z == At(a, s2.a)
               w == At(a, s2.b)
               P == At(a, p)
               R == At(a, q)
    <2>1. \A s : Along(a, s) /\ Level(a, s.a) = Level(a, s1.a) =>
             /\ Times(s, p, q) = Count(At(a, s.a), At(a, s.b), P, R)
             /\ Times(s, q, p) = Count(At(a, s.a), At(a, s.b), R, P)
      <3> SUFFICES ASSUME NEW s, Along(a, s), Level(a, s.a) = Level(a, s1.a)
                   PROVE  /\ Times(s, p, q) = Count(At(a, s.a), At(a, s.b), P, R)
                          /\ Times(s, q, p) = Count(At(a, s.a), At(a, s.b), R, P)
        OBVIOUS
      <3>1. Times(s, p, q) = Count(At(a, s.a), At(a, s.b), P, R)
        BY <1>9, TimesByPlace
      <3>2. Times(s, q, p) = Count(At(a, s.a), At(a, s.b), R, P)
        BY <1>9, TimesByPlace
      <3> QED
        BY <3>1, <3>2
    <2>2. /\ Times(s1, p, q) = Count(x, y, P, R) /\ Times(s1, q, p) = Count(x, y, R, P)
          /\ Times(s2, p, q) = Count(z, w, P, R) /\ Times(s2, q, p) = Count(z, w, R, P)
      BY <1>2, <2>1
    <2>3. \A c, d \in {s1.a, s1.b, s2.a, s2.b} : Along(a, Seg(c, d)) =>
             /\ Times(Seg(c, d), p, q) = Count(At(a, c), At(a, d), P, R)
             /\ Times(Seg(c, d), q, p) = Count(At(a, c), At(a, d), R, P)
      <3> SUFFICES ASSUME NEW c \in {s1.a, s1.b, s2.a, s2.b}, NEW d \in {s1.a, s1.b, s2.a, s2.b},
                          Along(a, Seg(c, d))
                   PROVE  /\ Times(Seg(c, d), p, q) = Count(At(a, c), At(a, d), P, R)
                          /\ Times(Seg(c, d), q, p) = Count(At(a, c), At(a, d), R, P)
        OBVIOUS
      <3>1. Seg(c, d).a = c /\ Seg(c, d).b = d
        BY DEF Seg
      <3>2. Level(a, Seg(c, d).a) = Level(a, s1.a)
        BY <1>1, <1>2, <3>1
      <3> QED
        BY <2>1, <3>1, <3>2
    <2>4. Clear(x, P, R) /\ Clear(y, P, R) /\ Clear(z, P, R) /\ Clear(w, P, R)
      BY <1>1, <1>2, <1>9 DEF FreeOf
    <2>5. \A c, d \in Int : Count(c, d, P, R) \in Int /\ Count(c, d, R, P) \in Int
      BY DEF Count
    <2>9. \A c, d \in {s1.a, s1.b, s2.a, s2.b} : Seg(c, d) # NULL
      BY <1>1, NullAssumption DEF Seg, Segments
    <2>6. CASE w < z
      <3>1. /\ TwoForTwo(x, y, z, w, x, w, z, y, P, R)
            /\ TwoForTwo(x, y, z, w, z, y, x, w, P, R)
            /\ y = z => OneForTwo(x, y, z, w, x, w, P, R)
            /\ x = w => OneForTwo(x, y, z, w, z, y, P, R)
            /\ y = z /\ x = w => Takes(Count(x, y, P, R) + Count(z, w, P, R),
                                     Count(x, y, R, P) + Count(z, w, R, P), 0, 0)
        <4>1. x <= z /\ w <= y
          BY <1>1, <1>2, <2>6
        <4> HIDE DEF x, y, z, w, P, R
        <4>2. x \in Int /\ y \in Int /\ z \in Int /\ w \in Int /\ P \in Int /\ R \in Int /\ x < y
          BY <1>1, <1>3 DEF x, y, z, w, P, R
        <4> QED
          BY <2>4, <2>6, <4>1, <4>2, SwapsTake
      <3>2. CASE new = <<Seg(s1.a, s2.b), Seg(s2.a, s1.b)>>
        <4>1. /\ Times(new[1], p, q) = Count(x, w, P, R) /\ Times(new[1], q, p) = Count(x, w, R, P)
              /\ Times(new[2], p, q) = Count(z, y, P, R) /\ Times(new[2], q, p) = Count(z, y, R, P)
          BY <1>5, <1>6, <2>3, <2>9, <3>2
        <4> QED
          BY <2>2, <3>1, <4>1 DEF TwoForTwo
      <3>3. CASE new = <<Seg(s2.a, s1.b), Seg(s1.a, s2.b)>>
        <4>1. /\ Times(new[2], p, q) = Count(x, w, P, R) /\ Times(new[2], q, p) = Count(x, w, R, P)
              /\ Times(new[1], p, q) = Count(z, y, P, R) /\ Times(new[1], q, p) = Count(z, y, R, P)
          BY <1>5, <1>6, <2>3, <2>9, <3>3
        <4> QED
          BY <2>2, <3>1, <4>1 DEF TwoForTwo
      <3>4. CASE new = <<NULL, Seg(s1.a, s2.b)>> /\ y = z
        <4>1. /\ Times(new[2], p, q) = Count(x, w, P, R) /\ Times(new[2], q, p) = Count(x, w, R, P)
          BY <1>5, <1>6, <2>3, <2>9, <3>4
        <4>2. Count(x, w, P, R) \in Int /\ Count(x, w, R, P) \in Int
          BY DEF Count
        <4> QED
          BY <1>7, <2>2, <3>1, <3>4, <4>1, <4>2 DEF OneForTwo
      <3>5. CASE new = <<NULL, Seg(s2.a, s1.b)>> /\ x = w
        <4>1. /\ Times(new[2], p, q) = Count(z, y, P, R) /\ Times(new[2], q, p) = Count(z, y, R, P)
          BY <1>5, <1>6, <2>3, <2>9, <3>5
        <4>2. Count(z, y, P, R) \in Int /\ Count(z, y, R, P) \in Int
          BY DEF Count
        <4> QED
          BY <1>7, <2>2, <3>1, <3>5, <4>1, <4>2 DEF OneForTwo
      <3>6. CASE new = <<NULL, NULL>> /\ x = w /\ y = z
        BY <1>7, <2>2, <3>1, <3>6
      <3> QED
        BY <1>1, <1>4, <2>6, <3>2, <3>3, <3>4, <3>5, <3>6 DEF Outcome
    <2>7. CASE z < w
      <3> DEFINE c == IF z >= x THEN s1.a ELSE s2.a
                 d == IF w >= y THEN s2.b ELSE s1.b
      <3>1. new = <<NULL, Seg(c, d)>>
        BY <1>1, <1>4, <2>7 DEF Outcome
      <3>2. At(a, c) = IF z >= x THEN x ELSE z
        OBVIOUS
      <3>3. At(a, d) = IF w >= y THEN w ELSE y
        OBVIOUS
      <3>4. OneForTwo(x, y, z, w, IF z >= x THEN x ELSE z, IF w >= y THEN w ELSE y, P, R)
        <4>1. x <= w /\ z <= y
          BY <1>1, <1>2, <2>7
        <4> HIDE DEF x, y, z, w, P, R
        <4>2. x \in Int /\ y \in Int /\ z \in Int /\ w \in Int /\ P \in Int /\ R \in Int /\ x < y
          BY <1>1, <1>3 DEF x, y, z, w, P, R
        <4> QED
          BY <2>4, <2>7, <4>1, <4>2, MergeTakes
      <3>5. OneForTwo(x, y, z, w, At(a, c), At(a, d), P, R)
        BY <3>2, <3>3, <3>4
      <3>6. c \in {s1.a, s1.b, s2.a, s2.b} /\ d \in {s1.a, s1.b, s2.a, s2.b}
        OBVIOUS
      <3> HIDE DEF c, d
      <3>7. Along(a, Seg(c, d))
        BY <1>6, <3>1, NullAssumption, <1>1, <3>6 DEF Seg, Segments
      <3>8. /\ Times(new[2], p, q) = Count(At(a, c), At(a, d), P, R)
            /\ Times(new[2], q, p) = Count(At(a, c), At(a, d), R, P)
        BY <2>3, <3>1, <3>6, <3>7
      <3>9. Count(At(a, c), At(a, d), P, R) \in Int /\ Count(At(a, c), At(a, d), R, P) \in Int
        BY DEF Count
      <3> QED
        BY <1>7, <2>2, <3>1, <3>5, <3>8, <3>9 DEF OneForTwo
    <2> QED
      BY <1>1, <1>4, <2>6, <2>7 DEF Outcome
  <1> QED
    BY <1>8, <1>9

-----------------------------------------------------------------------------
(* A group of segments. *)

\* What LinesTypeOK says of a group.
Group(list) ==
    /\ list \in Seq(Segments \cup {NULL})
    /\ \A j, k \in There(list) : list[j].a # list[j].b /\ SameKey(list[j], list[k])

\* The group when processOverlap has resolved m and k.
Resolved(list, x, y, new) == [list EXCEPT ![x] = new[1], ![y] = new[2]]

\* The vector of a segment that is not empty is a direction, and the segment goes along it.
LEMMA OwnDirection ==
    ASSUME NEW s \in Segments, s.a # s.b
    PROVE  /\ Is(Vec(s)) /\ Along(Vec(s), s)
           /\ At(Vec(s), s.a) < At(Vec(s), s.b)
  <1> DEFINE v == Vec(s)
  <1>1. s.a \in Point /\ s.b \in Point
    BY DEF Segments
  <1>2. v \in Point
    BY <1>1, Differences DEF Vec
  <1>3. v # [x |-> 0, y |-> 0]
    <2> SUFFICES ASSUME v = [x |-> 0, y |-> 0] PROVE FALSE
      OBVIOUS
    <2>1. s.b.x - s.a.x = 0 /\ s.b.y - s.a.y = 0
      BY DEF Vec, Sub
    <2>2. s.a.x \in Int /\ s.a.y \in Int /\ s.b.x \in Int /\ s.b.y \in Int
      BY <1>1 DEF Point
    <2>3. s.b.x = s.a.x /\ s.b.y = s.a.y
      BY <2>1, <2>2
    <2> QED
      BY <1>1, <2>3 DEF Point
  <1>4. dot(v, v) \in Nat /\ dot(v, v) > 0
    BY <1>2, <1>3, Squares
  <1>5. Is(v)
    BY <1>2, <1>4 DEF Is
  <1>6. cross(v, v) = 0
    <2>1. v.x \in Int /\ v.y \in Int
      BY <1>2 DEF Point
    <2> QED
      BY <2>1 DEF cross
  <1>7. Along(v, s)
    BY <1>6 DEF Along
  <1>8. dot(v, Vec(s)) = At(v, s.b) - At(v, s.a) /\ At(v, s.a) \in Int /\ At(v, s.b) \in Int
    BY <1>5, <1>7, EndsApart
  <1> HIDE DEF v
  <1>9. dot(v, v) = At(v, s.b) - At(v, s.a)
    BY <1>8 DEF v
  <1> QED
    BY <1>4, <1>5, <1>7, <1>8, <1>9 DEF v

\* What is along the same direction has the same key.
LEMMA AlongSameKey ==
    ASSUME NEW a, Is(a), NEW s, NEW t, Along(a, s), Along(a, t)
    PROVE  SameKey(s, t)
  <1>1. Vec(s) \in Point /\ Vec(t) \in Point
    BY EndsApart
  <1>2. cross(a, Vec(s)) = 0 /\ cross(a, Vec(t)) = 0
    BY DEF Along
  <1>3. cross(Vec(s), Vec(t)) * dot(a, a) = dot(a, Vec(s)) * cross(a, Vec(t))
    BY <1>1, <1>2, Product
  <1>4. /\ dot(a, Vec(s)) \in Int /\ cross(Vec(s), Vec(t)) \in Int /\ dot(a, a) \in Int
        /\ dot(a, a) > 0
    BY <1>1 DEF dot, cross, Point, Is
  <1>5. cross(Vec(s), Vec(t)) * dot(a, a) = 0
    BY <1>2, <1>3, <1>4
  <1>6. \A c, k \in Int : k > 0 /\ c * k = 0 => c = 0
    OBVIOUS
  <1> QED
    BY <1>4, <1>5, <1>6 DEF SameKey

\* A group is along each of its segments.
LEMMA GroupAlong ==
    ASSUME NEW list, Group(list), NEW x \in There(list)
    PROVE  /\ list[x] \in Segments
           /\ Is(Vec(list[x])) /\ At(Vec(list[x]), list[x].a) < At(Vec(list[x]), list[x].b)
           /\ \A k \in There(list) : Along(Vec(list[x]), list[k])
  <1>1. \A k \in There(list) : list[k] \in Segments /\ list[k].a # list[k].b
    BY DEF Group, There
  <1>2. \A k \in There(list) : cross(Vec(list[x]), Vec(list[k])) = 0
    BY DEF Group, SameKey
  <1> QED
    BY <1>1, <1>2, OwnDirection DEF Along

\* The runs of a group, those of two of its segments counted apart: the others are what they
\* are, whatever the two become.
LEMMA RunsSplit ==
    ASSUME NEW list, Group(list), NEW x \in DOMAIN list, NEW y \in DOMAIN list, x # y,
           NEW new, NEW p, NEW q
    PROVE  \E c \in Nat :
              /\ Runs(list, p, q) = c + (Times(list[x], p, q) + Times(list[y], p, q))
              /\ Runs(Resolved(list, x, y, new), p, q)
                    = c + (Times(new[1], p, q) + Times(new[2], p, q))
  <1> DEFINE Others == {k \in DOMAIN list \ {x, y} : list[k] # NULL /\ RunsOver(list[k], p, q)}
             one(z) == IF z = x THEN {x} ELSE {y}
  <1>1. IsFiniteSet(Others)
    <2>1. DOMAIN list = 1..Len(list) /\ Len(list) \in Nat
      BY DEF Group
    <2>2. IsFiniteSet(1..Len(list))
      BY <2>1, FS_Interval
    <2> QED
      BY <2>1, <2>2, FS_Subset
  <1>2. ASSUME NEW l, DOMAIN l = DOMAIN list, \A k \in DOMAIN list \ {x, y} : l[k] = list[k]
        PROVE  Runs(l, p, q) = Cardinality(Others) + (Times(l[x], p, q) + Times(l[y], p, q))
    <2> DEFINE All == {k \in There(l) : RunsOver(l[k], p, q)}
               X == IF l[x] # NULL /\ RunsOver(l[x], p, q) THEN Others \cup {x} ELSE Others
    <2>1. All = IF l[y] # NULL /\ RunsOver(l[y], p, q) THEN X \cup {y} ELSE X
      <3>1. \A k : k \in All <=> k \in DOMAIN list /\ l[k] # NULL /\ RunsOver(l[k], p, q)
        BY <1>2 DEF There
      <3>2. \A k : k \in Others <=>
                k \in DOMAIN list /\ k # x /\ k # y /\ l[k] # NULL /\ RunsOver(l[k], p, q)
        BY <1>2
      <3> HIDE DEF All, Others
      <3> QED
        BY <3>1, <3>2
    <2>2. x \notin Others /\ y \notin X /\ Cardinality(Others) \in Nat
      BY <1>1, FS_CardinalityType
    <2>3. IsFiniteSet(X) /\ Cardinality(X) = Cardinality(Others) + Times(l[x], p, q)
      <3>1. IsFiniteSet(Others) /\ x \notin Others /\ Cardinality(Others) \in Nat
        BY <1>1, <2>2
      <3> HIDE DEF Others
      <3>2. /\ IsFiniteSet(Others \cup {x})
            /\ Cardinality(Others \cup {x}) = Cardinality(Others) + 1
        BY <3>1, FS_AddElement
      <3> QED
        BY <3>1, <3>2 DEF Times
    <2>4. Times(l[x], p, q) \in Nat /\ Times(l[y], p, q) \in Nat
      BY DEF Times
    <2>5. Cardinality(All) = Cardinality(X) + Times(l[y], p, q)
      <3> HIDE DEF Others, X, All
      <3>1. Cardinality(X) \in Nat
        BY <2>2, <2>3, <2>4
      <3> QED
        BY <2>1, <2>2, <2>3, <3>1, FS_AddElement DEF Times
    <2> HIDE DEF Others, X
    <2> QED
      BY <2>2, <2>3, <2>4, <2>5 DEF Runs
  <1>3. Runs(list, p, q) = Cardinality(Others) + (Times(list[x], p, q) + Times(list[y], p, q))
    BY <1>2
  <1>4. Runs(Resolved(list, x, y, new), p, q)
           = Cardinality(Others) + (Times(new[1], p, q) + Times(new[2], p, q))
    <2> DEFINE l == Resolved(list, x, y, new)
    <2>1. DOMAIN l = DOMAIN list /\ \A k \in DOMAIN list \ {x, y} : l[k] = list[k]
      BY DEF Resolved
    <2>2. l[x] = new[1] /\ l[y] = new[2]
      BY DEF Resolved, Group
    <2> HIDE DEF l, Others
    <2>3. Runs(l, p, q) = Cardinality(Others) + (Times(l[x], p, q) + Times(l[y], p, q))
      BY <1>2, <2>1
    <2> QED
      BY <2>2, <2>3 DEF l
  <1>5. Cardinality(Others) \in Nat
    BY <1>1, FS_CardinalityType
  <1> QED
    BY <1>3, <1>4, <1>5

LEMMA TakesWithOthers ==
    ASSUME NEW c \in Nat, NEW d \in Nat, NEW t \in Nat, NEW b \in Nat, NEW t1 \in Nat, NEW b1 \in Nat,
           Takes(t, b, t1, b1)
    PROVE  Takes(c + t, d + b, c + t1, d + b1)
  BY DEF Takes

\* No end of a group divides one of its stretches.
LEMMA StretchIsFree ==
    ASSUME NEW list, Group(list), NEW x \in There(list), NEW u \in Stretches(list),
           NEW a, a = Vec(list[x])
    PROVE  /\ u[1] \in Point /\ u[2] \in Point /\ Level(a, u[1]) = Level(a, u[2])
           /\ \A k \in There(list) : FreeOf(a, list[k], u[1], u[2])
  <1> DEFINE f == CHOOSE k \in There(list) : TRUE
             p == u[1]
             q == u[2]
  <1>1. f \in There(list)
    OBVIOUS
  <1>2. Is(a) /\ \A k \in There(list) : Along(a, list[k])
    BY GroupAlong
  <1>3. p \in Ends(list) /\ q \in Ends(list) /\ Ahead(list, p, q)
        /\ \A r \in Ends(list) : ~(Ahead(list, p, r) /\ Ahead(list, r, q))
    BY DEF Stretches
  <1>4. \A k \in There(list) : list[k].a \in Point /\ list[k].b \in Point
    BY <1>2, EndsApart
  <1>5. Ends(list) \subseteq Point
    BY <1>4 DEF Ends
  <1>6. Along(a, list[f]) /\ At(a, list[f].a) \in Int /\ At(a, list[f].b) \in Int
        /\ At(a, list[f].a) # At(a, list[f].b)
    BY <1>1, <1>2, EndsApart
  <1> HIDE DEF f
  <1> DEFINE Forth == At(a, list[f].a) < At(a, list[f].b)
  <1>7. ASSUME NEW r \in Point, NEW s \in Point
        PROVE  /\ At(a, r) \in Int /\ At(a, s) \in Int
               /\ Ahead(list, r, s) <=>
                    /\ Level(a, s) = Level(a, r)
                    /\ IF Forth THEN At(a, r) < At(a, s) ELSE At(a, s) < At(a, r)
    <2>1. /\ At(a, r) \in Int /\ At(a, s) \in Int
          /\ cross(Vec(list[f]), Sub(s, r)) = 0 <=> Level(a, s) = Level(a, r)
          /\ dot(Vec(list[f]), Sub(s, r)) > 0 <=>
                 \/ At(a, list[f].a) < At(a, list[f].b) /\ At(a, r) < At(a, s)
                 \/ At(a, list[f].b) < At(a, list[f].a) /\ At(a, s) < At(a, r)
      BY <1>2, <1>6, ProductOfSegment
    <2>2. Ahead(list, r, s) <=>
             cross(Vec(list[f]), Sub(s, r)) = 0 /\ dot(Vec(list[f]), Sub(s, r)) > 0
      BY DEF Ahead, f
    <2> QED
      BY <1>6, <2>1, <2>2
  <1> HIDE DEF Forth, p, q
  <1>8. p \in Point /\ q \in Point
    BY <1>3, <1>5
  <1>9. /\ At(a, p) \in Int /\ At(a, q) \in Int /\ Level(a, p) = Level(a, q)
        /\ IF Forth THEN At(a, p) < At(a, q) ELSE At(a, q) < At(a, p)
    BY <1>3, <1>7, <1>8
  <1>10. ASSUME NEW r \in Ends(list), Level(a, r) = Level(a, p)
         PROVE  Clear(At(a, r), At(a, p), At(a, q))
    <2>1. r \in Point /\ ~(Ahead(list, p, r) /\ Ahead(list, r, q))
      BY <1>3, <1>5
    <2>2. /\ At(a, r) \in Int
          /\ Ahead(list, p, r) <=> IF Forth THEN At(a, p) < At(a, r) ELSE At(a, r) < At(a, p)
      BY <1>7, <1>8, <1>10, <2>1
    <2>3. Ahead(list, r, q) <=> IF Forth THEN At(a, r) < At(a, q) ELSE At(a, q) < At(a, r)
      BY <1>7, <1>8, <1>9, <1>10, <2>1
    <2> QED
      BY <1>9, <2>1, <2>2, <2>3 DEF Clear
  <1>11. ASSUME NEW k \in There(list)
         PROVE  FreeOf(a, list[k], p, q)
    <2>1. Level(a, list[k].a) = Level(a, list[k].b)
      BY <1>2, EndsApart
    <2>2. list[k].a \in Ends(list) /\ list[k].b \in Ends(list)
      BY DEF Ends
    <2> QED
      BY <1>10, <2>1, <2>2 DEF FreeOf
  <1> QED
    BY <1>8, <1>9, <1>11 DEF p, q

LEMMA FunctionIsSeq ==
    ASSUME NEW S, NEW k \in Nat, NEW f \in [1..k -> S]
    PROVE  f \in Seq(S)
  BY SeqDef

LEMMA OneReplaced ==
    ASSUME NEW S, NEW list \in Seq(S), NEW x, NEW v \in S
    PROVE  [list EXCEPT ![x] = v] \in Seq(S)
  <1>1. list \in [1..Len(list) -> S] /\ Len(list) \in Nat
    OBVIOUS
  <1>2. [list EXCEPT ![x] = v] \in [1..Len(list) -> S]
    BY <1>1
  <1> QED
    BY <1>1, <1>2, SeqDef

LEMMA TwoReplaced ==
    ASSUME NEW S, NEW list \in Seq(S), NEW x, NEW y, NEW v \in S, NEW w \in S
    PROVE  [list EXCEPT ![x] = v, ![y] = w] \in Seq(S)
  <1>1. [list EXCEPT ![x] = v] \in Seq(S)
    BY OneReplaced
  <1>2. [[list EXCEPT ![x] = v] EXCEPT ![y] = w] \in Seq(S)
    BY <1>1, OneReplaced
  <1> QED
    BY <1>2

\* What processOverlap makes of two segments of a group keeps it a group, and takes away
\* what it may take away.
LEMMA GroupStays ==
    ASSUME NEW list, Group(list), NEW x \in There(list), NEW y \in There(list), x # y,
           Touch(list[x], list[y]), NEW new, new = processOverlap(list[x], list[y])
    PROVE  Group(Resolved(list, x, y, new))
  <1> DEFINE a == Vec(list[x])
             l == Resolved(list, x, y, new)
  <1>1. Is(a) /\ At(a, list[x].a) < At(a, list[x].b) /\ \A k \in There(list) : Along(a, list[k])
    BY GroupAlong
  <1>2. /\ new[1] = NULL \/ Along(a, new[1])
        /\ new[2] = NULL \/ Along(a, new[2])
    <2> HIDE DEF a
    <2> QED
      BY <1>1, OverlapAlong
  <1> HIDE DEF a
  <1>3. /\ DOMAIN l = DOMAIN list
        /\ \A k \in DOMAIN list : l[k] = IF k = y THEN new[2] ELSE IF k = x THEN new[1] ELSE list[k]
    BY DEF Resolved
  <1>4. \A k \in There(l) : Along(a, l[k])
    BY <1>1, <1>2, <1>3 DEF There
  <1>5. new[1] \in Segments \cup {NULL} /\ new[2] \in Segments \cup {NULL}
    BY <1>2 DEF Along
  <1>6. l \in Seq(Segments \cup {NULL})
    <2>1. list \in Seq(Segments \cup {NULL})
      BY DEF Group
    <2> QED
      BY <1>5, <2>1, TwoReplaced DEF Resolved
  <1> HIDE DEF l
  <1>7. \A j, k \in There(l) : l[j].a # l[j].b /\ SameKey(l[j], l[k])
    BY <1>1, <1>4, AlongSameKey DEF Along
  <1> QED
    BY <1>6, <1>7 DEF Group, l

LEMMA GroupTakes ==
    ASSUME NEW list, Group(list), NEW x \in There(list), NEW y \in There(list), x # y,
           Touch(list[x], list[y]), NEW new, new = processOverlap(list[x], list[y]),
           NEW u \in Stretches(list)
    PROVE  Takes(Runs(list, u[1], u[2]), Runs(list, u[2], u[1]),
                 Runs(Resolved(list, x, y, new), u[1], u[2]),
                 Runs(Resolved(list, x, y, new), u[2], u[1]))
  <1> DEFINE a == Vec(list[x])
             p == u[1]
             q == u[2]
             l == Resolved(list, x, y, new)
  <1>1. Is(a) /\ At(a, list[x].a) < At(a, list[x].b) /\ Along(a, list[x]) /\ Along(a, list[y])
    BY GroupAlong
  <1>2. /\ p \in Point /\ q \in Point /\ Level(a, p) = Level(a, q)
        /\ FreeOf(a, list[x], p, q) /\ FreeOf(a, list[y], p, q)
    BY StretchIsFree
  <1> HIDE DEF a, p, q, l
  <1>3. Takes(Times(list[x], p, q) + Times(list[y], p, q), Times(list[x], q, p) + Times(list[y], q, p),
              Times(new[1], p, q) + Times(new[2], p, q), Times(new[1], q, p) + Times(new[2], q, p))
    BY <1>1, <1>2, OverlapTakes
  <1>4. x \in DOMAIN list /\ y \in DOMAIN list
    BY DEF There
  <1>5. PICK c \in Nat :
           /\ Runs(list, p, q) = c + (Times(list[x], p, q) + Times(list[y], p, q))
           /\ Runs(l, p, q) = c + (Times(new[1], p, q) + Times(new[2], p, q))
    BY <1>4, RunsSplit DEF l
  <1>6. PICK d \in Nat :
           /\ Runs(list, q, p) = d + (Times(list[x], q, p) + Times(list[y], q, p))
           /\ Runs(l, q, p) = d + (Times(new[1], q, p) + Times(new[2], q, p))
    BY <1>4, RunsSplit DEF l
  <1>7. /\ Times(list[x], p, q) + Times(list[y], p, q) \in Nat
        /\ Times(list[x], q, p) + Times(list[y], q, p) \in Nat
        /\ Times(new[1], p, q) + Times(new[2], p, q) \in Nat
        /\ Times(new[1], q, p) + Times(new[2], q, p) \in Nat
    BY DEF Times
  <1>8. Takes(Runs(list, p, q), Runs(list, q, p), Runs(l, p, q), Runs(l, q, p))
    <2> DEFINE t == Times(list[x], p, q) + Times(list[y], p, q)
               b == Times(list[x], q, p) + Times(list[y], q, p)
               t1 == Times(new[1], p, q) + Times(new[2], p, q)
               b1 == Times(new[1], q, p) + Times(new[2], q, p)
    <2>1. t \in Nat /\ b \in Nat /\ t1 \in Nat /\ b1 \in Nat /\ Takes(t, b, t1, b1)
      BY <1>3, <1>7
    <2>2. /\ Runs(list, p, q) = c + t /\ Runs(list, q, p) = d + b
          /\ Runs(l, p, q) = c + t1 /\ Runs(l, q, p) = d + b1
      BY <1>5, <1>6
    <2> HIDE DEF t, b, t1, b1
    <2>3. Takes(c + t, d + b, c + t1, d + b1)
      BY <2>1, TakesWithOthers
    <2> QED
      BY <2>2, <2>3
  <1> QED
    BY <1>8 DEF p, q, l

-----------------------------------------------------------------------------
(* The lines keep their types. *)

\* LinesTypeOK, said by groups.
LinesByGroups ==
    /\ IsPath(A) /\ IsPath(B)
    /\ vecs \in Seq(Seq(Segments \cup {NULL}))
    /\ i \in 0..(Len(vecs) + 1) /\ m \in Nat /\ n \in 0..m
    /\ IF i \in DOMAIN vecs THEN m <= Len(vecs[i]) ELSE m = 0
    /\ \A g \in DOMAIN vecs :
         /\ Group(vecs[g]) /\ vecs[g] # <<>>
         /\ i = 0 => \A k \in DOMAIN vecs[g] : vecs[g][k] # NULL

LEMMA ByGroups ==
    ASSUME NEW vs, NEW j
    PROVE  /\ vs \in Seq(Seq(Segments \cup {NULL}) \ {<<>>})
           /\ \A g \in DOMAIN vs : \A k, l \in DOMAIN vs[g] :
                /\ j = 0 => vs[g][k] # NULL
                /\ vs[g][k] # NULL /\ vs[g][l] # NULL =>
                     vs[g][k].a # vs[g][k].b /\ SameKey(vs[g][k], vs[g][l])
           <=>
           /\ vs \in Seq(Seq(Segments \cup {NULL}))
           /\ \A g \in DOMAIN vs :
                /\ Group(vs[g]) /\ vs[g] # <<>>
                /\ j = 0 => \A k \in DOMAIN vs[g] : vs[g][k] # NULL
  <1> DEFINE S == Seq(Segments \cup {NULL})
  <1>1. vs \in Seq(S \ {<<>>}) => vs \in Seq(S) /\ \A g \in DOMAIN vs : vs[g] \in S /\ vs[g] # <<>>
    OBVIOUS
  <1>2. vs \in Seq(S) /\ (\A g \in DOMAIN vs : vs[g] # <<>>) => vs \in Seq(S \ {<<>>})
    <2> SUFFICES ASSUME vs \in Seq(S), \A g \in DOMAIN vs : vs[g] # <<>>
                 PROVE  vs \in Seq(S \ {<<>>})
      OBVIOUS
    <2>1. Len(vs) \in Nat /\ vs \in [1..Len(vs) -> S \ {<<>>}]
      OBVIOUS
    <2> HIDE DEF S
    <2> QED
      BY <2>1, FunctionIsSeq
  <1>3. \A g \in DOMAIN vs : vs[g] \in S =>
          (Group(vs[g]) <=> \A k, l \in DOMAIN vs[g] :
              vs[g][k] # NULL /\ vs[g][l] # NULL =>
                  vs[g][k].a # vs[g][k].b /\ SameKey(vs[g][k], vs[g][l]))
    BY DEF Group, There
  <1>4. \A g \in DOMAIN vs : vs[g] \in S /\ vs[g] # <<>> =>
          ((\A k, l \in DOMAIN vs[g] : j = 0 => vs[g][k] # NULL)
              <=> (j = 0 => \A k \in DOMAIN vs[g] : vs[g][k] # NULL))
    OBVIOUS
  <1>5. vs \in Seq(S) => \A g \in DOMAIN vs : vs[g] \in S
    OBVIOUS
  <1> HIDE DEF S
  <1>6. vs \in Seq(S \ {<<>>}) <=> vs \in Seq(S) /\ \A g \in DOMAIN vs : vs[g] # <<>>
    BY <1>1, <1>2
  <1>7. (/\ vs \in Seq(S)
         /\ \A g \in DOMAIN vs : vs[g] # <<>>
         /\ \A g \in DOMAIN vs : \A k, l \in DOMAIN vs[g] :
              /\ j = 0 => vs[g][k] # NULL
              /\ vs[g][k] # NULL /\ vs[g][l] # NULL =>
                   vs[g][k].a # vs[g][k].b /\ SameKey(vs[g][k], vs[g][l]))
        <=> (/\ vs \in Seq(S)
             /\ \A g \in DOMAIN vs :
                  /\ Group(vs[g]) /\ vs[g] # <<>>
                  /\ j = 0 => \A k \in DOMAIN vs[g] : vs[g][k] # NULL)
    BY <1>3, <1>4, <1>5
  <1> QED
    BY <1>6, <1>7 DEF S

\* Where nfp_line starts.
LEMMA LinesStart ==
    ASSUME NEW p, NEW q, IsPath(p), IsPath(q), LinesFor(p, q)
    PROVE  LinesTypeOK'
  <1>1. vecs' = <<>> /\ i' = 0 /\ m' = 0 /\ n' = 0 /\ A' = p /\ B' = q
    BY DEF LinesFor
  <1> QED
    BY <1>1 DEF LinesTypeOK

\* A line that is put down is a segment that is not empty.
LEMMA TrajectoryIsSegment ==
    ASSUME IsPath(A), IsPath(B), NEW r \in ToPut
    PROVE  Trajectory(r) \in Segments /\ Trajectory(r).a # Trajectory(r).b
  <1>1. \A p, q \in Point : Sub(p, q) \in Point
    BY DEF Sub, Point
  <1>2. \A p, q \in Point : Seg(p, q) \in Segments
    BY DEF Seg, Segments
  <1>3. /\ A \in Seq(Point) /\ B \in Seq(Point)
        /\ \A k \in 1..Size(A) : A[k] \in Point /\ A[k + 1] \in Point
        /\ \A k \in 1..Size(B) : B[k] \in Point /\ B[k + 1] \in Point
    BY DEF IsPath, Size
  <1>4. \/ r[1] = 1 /\ r[2] \in 1..Size(B) /\ r[3] \in 1..Size(A)
        \/ r[1] = 2 /\ r[2] \in 1..Size(A) /\ r[3] \in 1..Size(B)
    BY DEF ToPut, Rounds
  <1>5. Trajectory(r) \in Segments
    BY <1>1, <1>2, <1>3, <1>4 DEF Trajectory
  <1> QED
    BY <1>5 DEF ToPut, Puts

\* Vectors with the key of a third have each other's.
LEMMA SameKeyAlong ==
    ASSUME NEW s \in Segments, s.a # s.b, NEW t \in Segments, t.a # t.b,
           NEW u \in Segments, u.a # u.b, SameKey(s, t), SameKey(s, u)
    PROVE  SameKey(t, u) /\ SameKey(t, t)
  <1>1. Is(Vec(s))
    BY OwnDirection
  <1>2. Along(Vec(s), t) /\ Along(Vec(s), u)
    BY DEF SameKey, Along
  <1> QED
    BY <1>1, <1>2, AlongSameKey

\* A group takes a segment of its direction.
LEMMA GroupGrows ==
    ASSUME NEW list, Group(list), NEW s \in Segments, s.a # s.b,
           list = <<>> \/ (list[1] # NULL /\ SameKey(list[1], s))
    PROVE  Group(Append(list, s))
  <1> DEFINE l == Append(list, s)
  <1>1. list \in Seq(Segments \cup {NULL}) /\ l \in Seq(Segments \cup {NULL})
    BY DEF Group
  <1>2. /\ DOMAIN l = 1..(Len(list) + 1) /\ DOMAIN list = 1..Len(list) /\ Len(list) \in Nat
        /\ l[Len(list) + 1] = s /\ \A k \in DOMAIN list : l[k] = list[k]
    BY <1>1
  <1>3. \A k \in There(l) : k = Len(list) + 1 \/ k \in There(list)
    BY <1>2 DEF There
  <1>4. \A k \in There(list) : list[k] \in Segments /\ list[k].a # list[k].b
    BY <1>1 DEF Group, There
  <1> HIDE DEF l
  <1>5. \E a : Is(a) /\ \A k \in There(l) : Along(a, l[k])
    <2>1. CASE list = <<>>
      <3>1. \A k \in There(l) : l[k] = s
        BY <1>2, <1>3, <2>1 DEF There
      <3> QED
        BY <3>1, OwnDirection
    <2>2. CASE list # <<>>
      <3>1. 1 \in There(list)
        BY <1>1, <1>2, <2>2 DEF There
      <3>2. Is(Vec(list[1])) /\ \A k \in There(list) : Along(Vec(list[1]), list[k])
        BY <3>1, GroupAlong
      <3>3. Along(Vec(list[1]), s)
        BY <2>2 DEF Along, SameKey
      <3>4. \A k \in There(l) : Along(Vec(list[1]), l[k])
        BY <1>2, <1>3, <3>2, <3>3 DEF There
      <3> QED
        BY <3>2, <3>4
    <2> QED
      BY <2>1, <2>2
  <1>6. PICK a : Is(a) /\ \A k \in There(l) : Along(a, l[k])
    BY <1>5
  <1>7. \A j, k \in There(l) : l[j].a # l[j].b /\ SameKey(l[j], l[k])
    BY <1>6, AlongSameKey DEF Along
  <1> QED
    BY <1>1, <1>7 DEF Group, l

LEMMA PutLineKeeps == LinesTypeOK /\ PutLine => LinesTypeOK'
  <1> SUFFICES ASSUME LinesTypeOK, PutLine PROVE LinesTypeOK'
    OBVIOUS
  <1>1. /\ vecs \in Seq(Seq(Segments \cup {NULL}))
        /\ \A g \in DOMAIN vecs :
             /\ Group(vecs[g]) /\ vecs[g] # <<>>
             /\ i = 0 => \A k \in DOMAIN vecs[g] : vecs[g][k] # NULL
    BY ByGroups DEF LinesTypeOK
  <1>2. i = 0 /\ m = 0 /\ n = 0 /\ IsPath(A) /\ IsPath(B)
    BY DEF LinesTypeOK, PutLine
  <1>3. PICK r \in ToPut : vecs' = processSegment(vecs, Trajectory(r))
    BY DEF PutLine
  <1> DEFINE s == Trajectory(r)
             S == Segments \cup {NULL}
  <1>4. s \in Segments /\ s.a # s.b /\ s # NULL
    BY <1>2, TrajectoryIsSegment, NullAssumption
  <1>5. A' = A /\ B' = B /\ i' = 0 /\ m' = 0 /\ n' = 0
    BY <1>2 DEF PutLine
  <1> HIDE DEF s
  <1> DEFINE Good(list) == /\ list \in Seq(S) /\ Group(list) /\ list # <<>>
                           /\ \A k \in DOMAIN list : list[k] # NULL
  <1>6. \A g \in DOMAIN vecs : Good(vecs[g])
    BY <1>1, <1>2
  <1>7. \A list \in Seq(S) : Good(list) /\ SameKey(list[1], s) => Good(Append(list, s))
    <2> SUFFICES ASSUME NEW list \in Seq(S), Good(list), SameKey(list[1], s)
                 PROVE  Good(Append(list, s))
      OBVIOUS
    <2>1. list[1] # NULL
      OBVIOUS
    <2>2. Group(Append(list, s))
      BY <1>4, <2>1, GroupGrows
    <2>3. /\ Append(list, s) \in Seq(S) /\ Append(list, s) # <<>>
          /\ \A k \in DOMAIN Append(list, s) : Append(list, s)[k] # NULL
      BY <1>4
    <2> QED
      BY <2>2, <2>3
  <1>8. Good(<<s>>)
    <2>1. <<>> \in Seq(S) /\ Group(<<>>) /\ Append(<<>>, s) = <<s>>
      BY DEF Group, There
    <2>2. Group(<<s>>)
      BY <1>4, <2>1, GroupGrows
    <2> QED
      BY <1>4, <2>2
  <1>9. vecs' \in Seq(Seq(S)) /\ \A g \in DOMAIN vecs' : Good(vecs'[g])
    <2>1. CASE \E g \in DOMAIN vecs : SameKey(vecs[g][1], s)
      <3>1. PICK g \in DOMAIN vecs : SameKey(vecs[g][1], s) /\ vecs' = [vecs EXCEPT ![g] = Append(@, s)]
        BY <1>3, <2>1 DEF processSegment, s
      <3>2. Good(Append(vecs[g], s))
        BY <1>6, <1>7, <3>1
      <3>3. vecs' = [vecs EXCEPT ![g] = Append(vecs[g], s)]
        BY <3>1
      <3> HIDE DEF Good
      <3>4. \A k \in DOMAIN vecs' : Good(vecs'[k])
        BY <1>6, <3>2, <3>3
      <3>5. Append(vecs[g], s) \in Seq(S)
        BY <3>2 DEF Good
      <3>6. vecs' \in Seq(Seq(S))
        BY <1>1, <3>3, <3>5, OneReplaced
      <3> QED
        BY <3>4, <3>6
    <2>2. CASE ~\E g \in DOMAIN vecs : SameKey(vecs[g][1], s)
      <3>1. vecs' = Append(vecs, <<s>>)
        BY <1>3, <2>2 DEF processSegment, s
      <3>2. <<s>> \in Seq(S)
        BY <1>8
      <3> HIDE DEF Good
      <3> QED
        BY <1>1, <1>6, <1>8, <3>1, <3>2
    <2> QED
      BY <2>1, <2>2
  <1>10. /\ vecs' \in Seq(Seq(S) \ {<<>>})
         /\ \A g \in DOMAIN vecs' : \A k, l \in DOMAIN vecs'[g] :
                /\ i' = 0 => vecs'[g][k] # NULL
                /\ vecs'[g][k] # NULL /\ vecs'[g][l] # NULL =>
                     vecs'[g][k].a # vecs'[g][k].b /\ SameKey(vecs'[g][k], vecs'[g][l])
    BY <1>9, ByGroups
  <1> QED
    BY <1>2, <1>5, <1>10 DEF LinesTypeOK

\* What Resolve does to the group.
LEMMA ResolveIsResolved ==
    ASSUME LinesTypeOK, Resolve
    PROVE  \E k, new :
                  /\ k \in 1..(n - 1)
             /\ i \in DOMAIN vecs /\ m \in There(vecs[i]) /\ k \in There(vecs[i]) /\ m # k
             /\ Group(vecs[i]) /\ Touch(vecs[i][m], vecs[i][k])
             /\ new = processOverlap(vecs[i][m], vecs[i][k])
             /\ vecs' = [vecs EXCEPT ![i] = Resolved(vecs[i], m, k, new)]
             /\ i' = i /\ A' = A /\ B' = B
             /\ \/ m' = m - 1 /\ n' = m - 1
                \/ m' = m /\ n' = k
  <1>1. /\ vecs \in Seq(Seq(Segments \cup {NULL}))
        /\ \A g \in DOMAIN vecs : Group(vecs[g])
    BY ByGroups DEF LinesTypeOK
  <1>2. /\ i \in DOMAIN vecs /\ m \in Nat /\ m > 0 /\ m <= Len(vecs[i]) /\ n \in 0..m
        /\ vecs[i][m] # NULL
    BY DEF LinesTypeOK, Resolve, Live
  <1>3. vecs[i] \in Seq(Segments \cup {NULL})
    BY <1>1, <1>2
  <1>4. PICK k \in 1..(n - 1) : /\ Candidate(k)
           /\ \E new \in {processOverlap(vecs[i][m], vecs[i][k])} :
                /\ vecs' = [vecs EXCEPT ![i] = [@ EXCEPT ![m] = new[1], ![k] = new[2]]]
                /\ IF new[1] = NULL THEN m' = m - 1 /\ n' = m - 1 ELSE m' = m /\ n' = k
    BY DEF Resolve
  <1>5. m \in There(vecs[i]) /\ k \in There(vecs[i]) /\ m # k
    BY <1>2, <1>3, <1>4 DEF There, Candidate, Live
  <1>6. Touch(vecs[i][m], vecs[i][k])
    BY <1>4 DEF Candidate
  <1>7. vecs' = [vecs EXCEPT ![i] = Resolved(vecs[i], m, k, processOverlap(vecs[i][m], vecs[i][k]))]
    BY <1>1, <1>2, <1>4 DEF Resolved
  <1>8. i' = i /\ A' = A /\ B' = B
    BY DEF Resolve
  <1> QED
    BY <1>1, <1>2, <1>4, <1>5, <1>6, <1>7, <1>8

LEMMA ResolveKeeps == LinesTypeOK /\ Resolve => LinesTypeOK'
  <1> SUFFICES ASSUME LinesTypeOK, Resolve PROVE LinesTypeOK'
    OBVIOUS
  <1> DEFINE S == Segments \cup {NULL}
  <1>1. /\ vecs \in Seq(Seq(S))
        /\ \A g \in DOMAIN vecs :
             /\ Group(vecs[g]) /\ vecs[g] # <<>>
             /\ i = 0 => \A k \in DOMAIN vecs[g] : vecs[g][k] # NULL
    BY ByGroups DEF LinesTypeOK
  <1>2. PICK k, new :
             /\ k \in 1..(n - 1)
             /\ i \in DOMAIN vecs /\ m \in There(vecs[i]) /\ k \in There(vecs[i]) /\ m # k
             /\ Group(vecs[i]) /\ Touch(vecs[i][m], vecs[i][k])
             /\ new = processOverlap(vecs[i][m], vecs[i][k])
             /\ vecs' = [vecs EXCEPT ![i] = Resolved(vecs[i], m, k, new)]
             /\ i' = i /\ A' = A /\ B' = B
             /\ \/ m' = m - 1 /\ n' = m - 1
                \/ m' = m /\ n' = k
    BY ResolveIsResolved
  <1> DEFINE l == Resolved(vecs[i], m, k, new)
  <1>3. Group(l)
    BY <1>2, GroupStays
  <1>4. l \in Seq(S) /\ Len(l) = Len(vecs[i]) /\ l # <<>>
    <2>1. l \in Seq(S)
      BY <1>3 DEF Group
    <2>2. DOMAIN l = DOMAIN vecs[i]
      BY DEF Resolved
    <2>3. vecs[i] \in Seq(S) /\ vecs[i] # <<>>
      BY <1>1, <1>2
    <2> HIDE DEF l
    <2>4. Len(l) = Len(vecs[i])
      BY <2>1, <2>2, <2>3
    <2> QED
      BY <2>1, <2>3, <2>4
  <1>5. vecs' = [vecs EXCEPT ![i] = l]
    BY <1>2
  <1> HIDE DEF l
  <1>6. /\ i \in 1..Len(vecs) /\ m \in Nat /\ m > 0 /\ m <= Len(vecs[i]) /\ n \in 0..m
        /\ IsPath(A) /\ IsPath(B)
    BY <1>2 DEF LinesTypeOK, Resolve
  <1>7. vecs' \in Seq(Seq(S)) /\ DOMAIN vecs' = DOMAIN vecs /\ Len(vecs') = Len(vecs)
    <2>1. vecs' \in Seq(Seq(S))
      BY <1>1, <1>4, <1>5, OneReplaced
    <2>2. DOMAIN vecs' = DOMAIN vecs
      BY <1>5
    <2> QED
      BY <1>1, <2>1, <2>2
  <1>8. \A g \in DOMAIN vecs' : Group(vecs'[g]) /\ vecs'[g] # <<>>
    BY <1>1, <1>3, <1>4, <1>5
  <1>9. i' # 0
    BY <1>2, <1>6
  <1>10. /\ vecs' \in Seq(Seq(S) \ {<<>>})
         /\ \A g \in DOMAIN vecs' : \A k1, l1 \in DOMAIN vecs'[g] :
                /\ i' = 0 => vecs'[g][k1] # NULL
                /\ vecs'[g][k1] # NULL /\ vecs'[g][l1] # NULL =>
                     vecs'[g][k1].a # vecs'[g][k1].b /\ SameKey(vecs'[g][k1], vecs'[g][l1])
    BY <1>7, <1>8, <1>9, ByGroups
  <1>11. Len(vecs'[i']) = Len(vecs[i])
    BY <1>1, <1>2, <1>4, <1>5
  <1>12. i' \in 0..(Len(vecs') + 1) /\ m' \in Nat /\ n' \in 0..m'
    BY <1>2, <1>6, <1>7
  <1>13. i' \in DOMAIN vecs' /\ m' <= Len(vecs'[i'])
    <2>1. m' <= m /\ Len(vecs[i]) \in Nat
      BY <1>1, <1>2, <1>6
    <2> QED
      BY <1>2, <1>6, <1>7, <1>11, <1>12, <2>1
  <1>14. IsPath(A') /\ IsPath(B')
    BY <1>2, <1>6
  <1> QED
    BY <1>10, <1>12, <1>13, <1>14 DEF LinesTypeOK

LEMMA NextSegmentKeeps == LinesTypeOK /\ NextSegment => LinesTypeOK'
  <1> SUFFICES ASSUME LinesTypeOK, NextSegment PROVE LinesTypeOK'
    OBVIOUS
  <1>1. A' = A /\ B' = B /\ vecs' = vecs /\ i' = i /\ m' = m - 1 /\ n' = m - 1 /\ m > 0
    BY DEF NextSegment
  <1>2. m \in Nat /\ i \in DOMAIN vecs /\ m <= Len(vecs[i])
    BY <1>1 DEF LinesTypeOK
  <1>3. m' \in Nat /\ n' \in 0..m'
    BY <1>1, <1>2
  <1>4. vecs[i] \in Seq(Segments \cup {NULL})
    BY <1>2 DEF LinesTypeOK
  <1>5. m' <= Len(vecs[i])
    BY <1>1, <1>2, <1>4
  <1> QED
    BY <1>1, <1>2, <1>3, <1>5 DEF LinesTypeOK

LEMMA NextGroupKeeps == LinesTypeOK /\ NextGroup => LinesTypeOK'
  <1> SUFFICES ASSUME LinesTypeOK, NextGroup PROVE LinesTypeOK'
    OBVIOUS
  <1>1. /\ A' = A /\ B' = B /\ vecs' = vecs /\ i' = i + 1 /\ n' = m'
        /\ m' = IF i < Len(vecs) THEN Len(vecs[i + 1]) ELSE 0
        /\ ~(i > Len(vecs))
    BY DEF NextGroup, LinesDone
  <1>2. i \in 0..(Len(vecs) + 1) /\ vecs \in Seq(Seq(Segments \cup {NULL}) \ {<<>>})
    BY DEF LinesTypeOK
  <1>3. Len(vecs) \in Nat /\ i \in Nat /\ i <= Len(vecs) /\ DOMAIN vecs = 1..Len(vecs)
    BY <1>1, <1>2
  <1>4. /\ i' \in 0..(Len(vecs') + 1) /\ i' # 0
        /\ i' \in DOMAIN vecs' <=> i < Len(vecs)
    BY <1>1, <1>3
  <1>5. m' \in Nat /\ n' \in 0..m'
    <2>1. i < Len(vecs) => Len(vecs[i + 1]) \in Nat
      BY <1>2, <1>3
    <2> QED
      BY <1>1, <2>1
  <1>6. IF i' \in DOMAIN vecs' THEN m' <= Len(vecs'[i']) ELSE m' = 0
    BY <1>1, <1>4, <1>5
  <1> QED
    BY <1>1, <1>4, <1>5, <1>6 DEF LinesTypeOK

LEMMA LinesKeep == LinesTypeOK /\ LinesStep => LinesTypeOK'
  BY PutLineKeeps, ResolveKeeps, NextSegmentKeeps, NextGroupKeeps DEF LinesStep

\* What a step of simplifySeg takes away.
LEMMA StepTakes == LinesTypeOK /\ LinesStep => TakesOnlyDoubles
  <1> SUFFICES ASSUME LinesTypeOK, LinesStep, i > 0, NEW g \in DOMAIN vecs, vecs'[g] # vecs[g],
                      NEW u \in Stretches(vecs[g])
               PROVE  Takes(Runs(vecs[g], u[1], u[2]), Runs(vecs[g], u[2], u[1]),
                            Runs(vecs'[g], u[1], u[2]), Runs(vecs'[g], u[2], u[1]))
    BY DEF TakesOnlyDoubles, Takes
  <1>1. Resolve
    BY DEF LinesStep, PutLine, NextSegment, NextGroup
  <1>2. PICK k, new :
             /\ k \in 1..(n - 1)
             /\ i \in DOMAIN vecs /\ m \in There(vecs[i]) /\ k \in There(vecs[i]) /\ m # k
             /\ Group(vecs[i]) /\ Touch(vecs[i][m], vecs[i][k])
             /\ new = processOverlap(vecs[i][m], vecs[i][k])
             /\ vecs' = [vecs EXCEPT ![i] = Resolved(vecs[i], m, k, new)]
    BY <1>1, ResolveIsResolved
  <1>3. g = i /\ vecs'[g] = Resolved(vecs[i], m, k, new)
    BY <1>2
  <1> QED
    BY <1>2, <1>3, GroupTakes

-----------------------------------------------------------------------------
(* The parts of a run. *)

\* What the sweep may be handed: pairs of points that differ, none left of LLONG_MIN.
Handed ==
    {in \in Seq(Point \X Point) :
        \A k \in DOMAIN in : /\ in[k][1] # in[k][2]
                             /\ in[k][1].x >= Leftmost /\ in[k][2].x >= Leftmost}

\* What is proved of the parts.
Sw == INSTANCE SweepLineProofs WITH Inputs <- Handed
Ro == INSTANCE OutlinesProofs WITH Inputs <- {}, i <- look

\* The parts' modules say the same as what Nfp runs: what the outlines do ...
LEMMA RingSteps == Ring!Next => Ro!Next
  <1>1. \A v : Ring!Cardinality(v) = Ro!Cardinality(v)
    BY Zenon DEF Ring!Cardinality, Ro!Cardinality, Ring!IsFiniteSet, Ro!IsFiniteSet
  <1>2. Ring!Segs = Ro!Segs
    BY DEF Ring!Segs, Ro!Segs
  <1>3. \A p, q : Ring!cross(p, q) = Ro!cross(p, q)
    BY DEF Ring!cross, Ro!cross
  <1>4. \A p : Ring!Lower(p) = Ro!Lower(p)
    BY DEF Ring!Lower, Ro!Lower
  <1>5. \A p, q : Ring!AngleLess(p, q) = Ro!AngleLess(p, q)
    BY <1>3, <1>4 DEF Ring!AngleLess, Ro!AngleLess
  <1>6. \A v : Ring!Starting(v) = Ro!Starting(v)
    BY <1>2 DEF Ring!Starting, Ro!Starting
  <1>7. \A v : Ring!Ending(v) = Ro!Ending(v)
    BY <1>2 DEF Ring!Ending, Ro!Ending
  <1>8. \A v : Ring!Rays(v) = Ro!Rays(v)
    BY <1>6, <1>7 DEF Ring!Rays, Ro!Rays, Ring!Ray, Ro!Ray, Ring!Sub, Ro!Sub
  <1>9. \A v : Ring!SetToSeqs(v) = Ro!SetToSeqs(v)
    BY <1>1 DEF Ring!SetToSeqs, Ro!SetToSeqs
  <1>10. \A v : Ring!Sorted(v) = Ro!Sorted(v)
    BY <1>5, <1>8, <1>9 DEF Ring!Sorted, Ro!Sorted
  <1>11. \A l : Ring!Pairs(l) = Ro!Pairs(l)
    BY DEF Ring!Pairs, Ro!Pairs
  <1>12. \A l : Ring!Min(l) = Ro!Min(l)
    BY DEF Ring!Min, Ro!Min
  <1>13. \A l : Ring!Area(l) = Ro!Area(l)
    BY Zenon DEF Ring!Area, Ro!Area, Ring!FoldLeft, Ro!FoldLeft, Ring!MapThenFoldSet,
       Ro!MapThenFoldSet, Ring!Max, Ro!Max
  <1>14. Ring!Valid = Ro!Valid
    BY <1>2 DEF Ring!Valid, Ro!Valid
  <1>15. Ring!Link => Ro!Link
    <2> DEFINE Links(pairs) ==
                 /\ next' = [s \in DOMAIN vecSeg |-> IF \E t \in DOMAIN vecSeg : <<s, t>> \in pairs
                                   THEN CHOOSE t \in DOMAIN vecSeg : <<s, t>> \in pairs ELSE next[s]]
                 /\ prev' = [t \in DOMAIN vecSeg |-> IF \E s \in DOMAIN vecSeg : <<s, t>> \in pairs
                                   THEN CHOOSE s \in DOMAIN vecSeg : <<s, t>> \in pairs ELSE prev[t]]
               v == CHOOSE v \in verts : TRUE
               Rest == /\ pc = "link" /\ verts # {} /\ verts' = verts \ {v}
                       /\ UNCHANGED <<inner, vecSeg, isvalid, pc, look, minVert,
                                      current, outside, turns, path, result>>
    <2>1. Ring!Link =>
            /\ Rest
            /\ IF Ring!Starting(v) = {} \/ Ring!Ending(v) = {} THEN UNCHANGED <<next, prev>>
               ELSE \E list \in Ring!Sorted(v) : Links(Ring!Pairs(list))
      BY Zenon DEF Ring!Link, Ring!walkVars, Ring!Segs
    <2>2. /\ Rest
          /\ IF Ro!Starting(v) = {} \/ Ro!Ending(v) = {} THEN UNCHANGED <<next, prev>>
             ELSE \E list \in Ro!Sorted(v) : Links(Ro!Pairs(list))
          => Ro!Link
      BY Zenon DEF Ro!Link, Ro!walkVars, Ro!Segs
    <2>3. \A list : Links(Ring!Pairs(list)) => Links(Ro!Pairs(list))
      <3> TAKE list
      <3> PICK p : p = Ring!Pairs(list)
        OBVIOUS
      <3>1. p = Ro!Pairs(list)
        BY <1>11
      <3>2. Links(Ring!Pairs(list)) => Links(p)
        OBVIOUS
      <3>3. Links(p) => Links(Ro!Pairs(list))
        BY <3>1
      <3> QED
        BY <3>2, <3>3
    <2> HIDE DEF Links, Rest, v
    <2> QED
      BY <2>1, <2>2, <2>3, <1>6, <1>7, <1>10
  <1>16. Ring!Linked => Ro!Linked
    BY DEF Ring!Linked, Ro!Linked, Ring!linkVars, Ro!linkVars, Ring!walkVars, Ro!walkVars
  <1>17. Ring!Look => Ro!Look
    BY DEF Ring!Look, Ro!Look, Ring!linkVars, Ro!linkVars
  <1>18. Ring!Drop => Ro!Drop
    BY DEF Ring!Drop, Ro!Drop, Ring!linkVars, Ro!linkVars
  <1>19. \A s, t : Ring!StartWalk(s, t) <=> Ro!StartWalk(s, t)
    BY <1>1 DEF Ring!StartWalk, Ro!StartWalk
  <1>20. Ring!ChooseOutside => Ro!ChooseOutside
    BY <1>5, <1>6, <1>14, <1>19 DEF Ring!ChooseOutside, Ro!ChooseOutside, Ring!linkVars,
       Ro!linkVars, Ring!walkVars, Ro!walkVars, Ring!Ray, Ro!Ray, Ring!Sub, Ro!Sub
  <1>21. Ring!ChooseFirst => Ro!ChooseFirst
    BY <1>12, <1>14, <1>19 DEF Ring!ChooseFirst, Ro!ChooseFirst, Ring!linkVars, Ro!linkVars,
       Ring!walkVars, Ro!walkVars
  <1>22. Ring!Step => Ro!Step
    BY DEF Ring!Step, Ro!Step, Ring!linkVars, Ro!linkVars, Ring!AtLast, Ro!AtLast
  <1>23. Ring!Close => Ro!Close
    BY <1>2, <1>12, <1>13, <1>14, <1>19 DEF Ring!Close, Ro!Close, Ring!linkVars, Ro!linkVars,
       Ring!walkVars, Ro!walkVars, Ring!AtLast, Ro!AtLast
  <1>24. Ring!Return => Ro!Return
    BY DEF Ring!Return, Ro!Return, Ring!vars, Ro!vars, Ring!linkVars, Ro!linkVars,
       Ring!walkVars, Ro!walkVars
  <1> QED
    BY <1>15, <1>16, <1>17, <1>18, <1>20, <1>21, <1>22, <1>23, <1>24
       DEF Ring!Next, Ro!Next

\* ... and what the sweep does.
LEMMA LineSteps == Line!Sweep => Sw!Sweep
  <1>1. \A q, s, k, t : Line!Push(q, s, k, t) = Sw!Push(q, s, k, t)
    BY DEF Line!Push, Sw!Push, Line!Event, Sw!Event, Line!existlk, Sw!existlk, Line!Vertical,
       Sw!Vertical, Line!Endpoint, Sw!Endpoint, Line!AFirst, Sw!AFirst, Line!LEFT, Sw!LEFT,
       Line!(+), Sw!(+), Line!SetToBag, Sw!SetToBag, Line!BagToSet, Sw!BagToSet
  <1>2. \A p, q : Line!cross(p, q) = Sw!cross(p, q)
    BY DEF Line!cross, Sw!cross
  <1>3. \A p, q : Line!Sub(p, q) = Sw!Sub(p, q)
    BY DEF Line!Sub, Sw!Sub
  <1>4. \A p, q : Line!dot(p, q) = Sw!dot(p, q)
    BY DEF Line!dot, Sw!dot
  <1>5. \A p, q : Line!Apart(p, q) = Sw!Apart(p, q)
    BY DEF Line!Apart, Sw!Apart, Line!Greatest, Sw!Greatest, Line!Least, Sw!Least
  <1>6. \A p, q : Line!llround(p, q) = Sw!llround(p, q)
    BY DEF Line!llround, Sw!llround
  <1>7. \A p : Line!Abs(p) = Sw!Abs(p)
    BY DEF Line!Abs, Sw!Abs
  <1>8. \A p, q : Line!intersect(p, q) = Sw!intersect(p, q)
    BY <1>2, <1>3, <1>4, <1>5, <1>6, <1>7 DEF Line!intersect, Sw!intersect, Line!NoPoint,
       Sw!NoPoint
  <1>9. \A p, x : Line!Seen(p, x) = Sw!Seen(p, x)
    BY DEF Line!Seen, Sw!Seen, Line!existlk, Sw!existlk, Line!Vertical, Sw!Vertical,
       Line!getYAtX, Sw!getYAtX, Line!Least, Sw!Least
  <1>10. \A p : Line!existlk(p) = Sw!existlk(p)
    BY DEF Line!existlk, Sw!existlk, Line!Vertical, Sw!Vertical
  <1>11. \A p, q, t : Line!Rest(p, q, t) = Sw!Rest(p, q, t)
    BY DEF Line!Rest, Sw!Rest, Line!existlk, Sw!existlk, Line!Vertical, Sw!Vertical,
       Line!Segment, Sw!Segment, Line!Line, Sw!Line
  <1>12. \A w, j, p, e : Line!Cut(w, j, p, e) = Sw!Cut(w, j, p, e)
    <2> TAKE w, j, p, e
    <2> PICK s : s = w.segments[j]
      OBVIOUS
    <2> PICK kept : kept = IF (~Line!existlk(s) /\ s.a.y < s.b.y) \/ s.a.x < s.b.x
                           THEN [s EXCEPT !.b = p] ELSE [s EXCEPT !.a = p]
      OBVIOUS
    <2> PICK rest : rest = IF (~Line!existlk(s) /\ s.a.y < s.b.y) \/ s.a.x < s.b.x
                           THEN Line!Rest(s, p, s.b) ELSE Line!Rest(s, s.a, p)
      OBVIOUS
    <2> PICK segs : segs = Append([w.segments EXCEPT ![j] = kept], rest)
      OBVIOUS
    <2> PICK one : one = Line!Push(w.Q, segs, Len(segs), Line!LEFT)
      OBVIOUS
    <2> PICK two : two = Line!Push(one, segs, j, Line!RIGHT)
      OBVIOUS
    <2>1. Line!Cut(w, j, p, e) =
            IF ~Line!Inside(s, p) THEN w ELSE [segments |-> segs, Q |-> IF e THEN two ELSE one]
      BY Zenon DEF Line!Cut
    <2>2. /\ kept = IF (~Sw!existlk(s) /\ s.a.y < s.b.y) \/ s.a.x < s.b.x
                   THEN [s EXCEPT !.b = p] ELSE [s EXCEPT !.a = p]
          /\ rest = IF (~Sw!existlk(s) /\ s.a.y < s.b.y) \/ s.a.x < s.b.x
                   THEN Sw!Rest(s, p, s.b) ELSE Sw!Rest(s, s.a, p)
      BY <1>10, <1>11, Zenon
    <2>3. one = Sw!Push(w.Q, segs, Len(segs), Sw!LEFT) /\ two = Sw!Push(one, segs, j, Sw!RIGHT)
      BY <1>1 DEF Line!LEFT, Sw!LEFT, Line!RIGHT, Sw!RIGHT
    <2>4. Sw!Cut(w, j, p, e) =
            IF ~Sw!Inside(s, p) THEN w ELSE [segments |-> segs, Q |-> IF e THEN two ELSE one]
      BY <2>2, <2>3, Zenon DEF Sw!Cut
    <2>5. Line!Inside(s, p) <=> Sw!Inside(s, p)
      BY DEF Line!Inside, Sw!Inside
    <2>6. CASE Line!Inside(s, p)
      BY <2>1, <2>4, <2>5, <2>6
    <2>7. CASE ~Line!Inside(s, p)
      BY <2>1, <2>4, <2>5, <2>7
    <2> QED
      BY <2>6, <2>7
  <1>13. \A w, x, j, k, e : Line!Meet(w, x, j, k, e) = Sw!Meet(w, x, j, k, e)
    <2> TAKE w, x, j, k, e
    <2> PICK p : p = Line!intersect(w.segments[j], w.segments[k])
      OBVIOUS
    <2>1. p = Sw!intersect(w.segments[j], w.segments[k])
      BY <1>8
    <2> PICK v : v = Line!Cut(w, j, p, TRUE)
      OBVIOUS
    <2>2. v = Sw!Cut(w, j, p, TRUE)
      BY <1>12, Zenon
    <2>3. Line!Cut(v, k, p, e) = Sw!Cut(v, k, p, e)
      BY <1>12, Zenon
    <2>4. Line!Meet(w, x, j, k, e) =
            IF p = Line!NoPoint \/ Line!Behind(p, x) THEN w ELSE Line!Cut(v, k, p, e)
      BY Zenon DEF Line!Meet
    <2>5. Sw!Meet(w, x, j, k, e) =
            IF p = Sw!NoPoint \/ Sw!Behind(p, x) THEN w ELSE Sw!Cut(v, k, p, e)
      BY <2>1, <2>2, Zenon DEF Sw!Meet
    <2> QED
      BY <2>3, <2>4, <2>5, Zenon DEF Line!NoPoint, Sw!NoPoint, Line!Behind, Sw!Behind
  <1>14. \A w, x, j, k : Line!Meet(w, x, j, k, FALSE) = Sw!Meet(w, x, j, k, FALSE)
    BY <1>13, Zenon
  <1>15. \A w, x, j, k : Line!Meet(w, x, j, k, TRUE) = Sw!Meet(w, x, j, k, TRUE)
    BY <1>13, Zenon
  <1>16. \A p, q : Line!SegmentComparator(p, q) = Sw!SegmentComparator(p, q)
    BY DEF Line!SegmentComparator, Sw!SegmentComparator, Line!Near, Sw!Near
  <1>17. \A j, k, x : Line!Before(j, k, x) = Sw!Before(j, k, x)
    BY <1>9, <1>16 DEF Line!Before, Sw!Before
  <1>18. \A p, q : Line!EventComp(p, q) = Sw!EventComp(p, q)
    BY DEF Line!EventComp, Sw!EventComp, Line!VerticalLeft, Sw!VerticalLeft, Line!VerticalRight,
       Sw!VerticalRight, Line!LEFT, Sw!LEFT, Line!RIGHT, Sw!RIGHT
  <1>19. \A e : Line!Top(e) = Sw!Top(e)
    BY <1>18 DEF Line!Top, Sw!Top, Line!BagToSet, Sw!BagToSet
  <1>20. \A j, k, x : Line!InsertPlace(j, k, x) = Sw!InsertPlace(j, k, x)
    BY <1>17 DEF Line!InsertPlace, Sw!InsertPlace
  <1>21. \A j, k, x : Line!IsNew(j, k, x) = Sw!IsNew(j, k, x)
    BY <1>17 DEF Line!IsNew, Sw!IsNew
  <1>22. \A j, k, x : Line!FindPlace(j, k, x) = Sw!FindPlace(j, k, x)
    BY <1>17 DEF Line!FindPlace, Sw!FindPlace
  <1>23. \A j, k, x : Line!Found(j, k, x) = Sw!Found(j, k, x)
    BY <1>17 DEF Line!Found, Sw!Found
  <1>24. \A s, j, k : Line!InsertAt(s, j, k) = Sw!InsertAt(s, j, k)
    BY DEF Line!InsertAt, Sw!InsertAt
  <1>25. \A s, k : Line!RemoveAt(s, k) = Sw!RemoveAt(s, k)
    BY DEF Line!RemoveAt, Sw!RemoveAt
  <1>26. \A e : [Line!Work EXCEPT !.Q = Line!(-)(@, Line!SetToBag({e}))]
            = [Sw!Work EXCEPT !.Q = Sw!(-)(@, Sw!SetToBag({e}))]
    BY DEF Line!Work, Sw!Work, Line!(-), Sw!(-), Line!SetToBag, Sw!SetToBag, Line!BagToSet,
       Sw!BagToSet
  <1>27. ASSUME NEW e, Line!HandleLeft(e)
        PROVE  Sw!HandleLeft(e)
    <2> PICK rest : rest = [Line!Work EXCEPT !.Q = Line!(-)(@, Line!SetToBag({e}))]
      OBVIOUS
    <2>1. rest = [Sw!Work EXCEPT !.Q = Sw!(-)(@, Sw!SetToBag({e}))]
      BY <1>26
    <2>2. PICK k \in 0..Len(status) :
            /\ Line!InsertPlace(k, e.seg, e.x)
            /\ IF Line!IsNew(k, e.seg, e.x)
               THEN \E below \in {IF k > 0 THEN Line!Meet(rest, e.x, status[k], e.seg, FALSE) ELSE rest} :
                    \E new \in {IF k < Len(status)
                                THEN Line!Meet(below, e.x, status[k + 1], e.seg, FALSE) ELSE below} :
                       /\ status' = Line!InsertAt(status, k + 1, e.seg)
                       /\ segments' = new.segments
                       /\ Q' = Line!Push(new.Q, new.segments, e.seg, Line!RIGHT)
               ELSE /\ Q' = Line!Push(rest.Q, segments, e.seg, Line!RIGHT)
                    /\ UNCHANGED <<status, segments>>
      BY <1>27, Zenon DEF Line!HandleLeft
    <2>3. e.type = Line!LEFT /\ currentX' = e.x /\ UNCHANGED input
      BY <1>27, Zenon DEF Line!HandleLeft
    <2>4. e.type = Sw!LEFT /\ Line!RIGHT = Sw!RIGHT
      BY <2>3 DEF Line!LEFT, Sw!LEFT, Line!RIGHT, Sw!RIGHT
    <2>5. Sw!InsertPlace(k, e.seg, e.x)
      BY <2>2, <1>20
    <2>6. CASE Line!IsNew(k, e.seg, e.x)
      <3> PICK below : below = IF k > 0 THEN Line!Meet(rest, e.x, status[k], e.seg, FALSE) ELSE rest
        OBVIOUS
      <3> PICK new : new = IF k < Len(status)
                           THEN Line!Meet(below, e.x, status[k + 1], e.seg, FALSE) ELSE below
        OBVIOUS
      <3>1. /\ status' = Line!InsertAt(status, k + 1, e.seg) /\ segments' = new.segments
            /\ Q' = Line!Push(new.Q, new.segments, e.seg, Line!RIGHT)
        BY <2>2, <2>6
      <3>2. /\ below = IF k > 0 THEN Sw!Meet(rest, e.x, status[k], e.seg, FALSE) ELSE rest
            /\ new = IF k < Len(status)
                     THEN Sw!Meet(below, e.x, status[k + 1], e.seg, FALSE) ELSE below
        BY <1>14
      <3>3. /\ status' = Sw!InsertAt(status, k + 1, e.seg)
            /\ Q' = Sw!Push(new.Q, new.segments, e.seg, Sw!RIGHT)
        BY <2>4, <3>1, <1>1, <1>24
      <3>4. Sw!IsNew(k, e.seg, e.x)
        BY <2>6, <1>21
      <3> QED
        BY <2>1, <2>3, <2>4, <2>5, <3>1, <3>2, <3>3, <3>4, Zenon DEF Sw!HandleLeft
    <2>7. CASE ~Line!IsNew(k, e.seg, e.x)
      <3>1. Q' = Sw!Push(rest.Q, segments, e.seg, Sw!RIGHT) /\ UNCHANGED <<status, segments>>
        BY <2>2, <2>4, <2>7, <1>1
      <3>2. ~Sw!IsNew(k, e.seg, e.x)
        BY <2>7, <1>21
      <3> QED
        BY <2>1, <2>3, <2>4, <2>5, <3>1, <3>2, Zenon DEF Sw!HandleLeft
    <2> QED
      BY <2>6, <2>7
  <1>28. ASSUME NEW e, Line!HandleRight(e)
        PROVE  Sw!HandleRight(e)
    <2> PICK rest : rest = [Line!Work EXCEPT !.Q = Line!(-)(@, Line!SetToBag({e}))]
      OBVIOUS
    <2>1. rest = [Sw!Work EXCEPT !.Q = Sw!(-)(@, Sw!SetToBag({e}))]
      BY <1>26
    <2>2. PICK k \in 0..Len(status) :
            /\ Line!FindPlace(k, e.seg, currentX)
            /\ IF Line!Found(k, e.seg, currentX)
               THEN \E new \in {IF k > 0 /\ k + 1 < Len(status)
                                THEN Line!Meet(rest, currentX, status[k], status[k + 2], TRUE)
                                ELSE rest} :
                       /\ status' = Line!RemoveAt(status, k + 1)
                       /\ segments' = new.segments
                       /\ Q' = new.Q
               ELSE /\ Q' = rest.Q
                    /\ UNCHANGED <<status, segments>>
      BY <1>28, Zenon DEF Line!HandleRight
    <2>3. e.type = Sw!RIGHT /\ UNCHANGED <<input, currentX>>
      BY <1>28 DEF Line!HandleRight, Line!RIGHT, Sw!RIGHT
    <2>4. Sw!FindPlace(k, e.seg, currentX)
      BY <2>2, <1>22
    <2>5. CASE Line!Found(k, e.seg, currentX)
      <3> PICK new : new = IF k > 0 /\ k + 1 < Len(status)
                           THEN Line!Meet(rest, currentX, status[k], status[k + 2], TRUE) ELSE rest
        OBVIOUS
      <3>1. status' = Line!RemoveAt(status, k + 1) /\ segments' = new.segments /\ Q' = new.Q
        BY <2>2, <2>5
      <3>2. new = IF k > 0 /\ k + 1 < Len(status)
                  THEN Sw!Meet(rest, currentX, status[k], status[k + 2], TRUE) ELSE rest
        BY <1>15
      <3>3. status' = Sw!RemoveAt(status, k + 1)
        BY <3>1, <1>25
      <3>4. Sw!Found(k, e.seg, currentX)
        BY <2>5, <1>23
      <3> QED
        BY <2>1, <2>3, <2>4, <3>1, <3>2, <3>3, <3>4, Zenon DEF Sw!HandleRight
    <2>6. CASE ~Line!Found(k, e.seg, currentX)
      <3>1. Q' = rest.Q /\ UNCHANGED <<status, segments>>
        BY <2>2, <2>6
      <3>2. ~Sw!Found(k, e.seg, currentX)
        BY <2>6, <1>23
      <3> QED
        BY <2>1, <2>3, <2>4, <3>1, <3>2, Zenon DEF Sw!HandleRight
    <2> QED
      BY <2>5, <2>6
  <1> QED
    BY <1>19, <1>27, <1>28
       DEF Line!Sweep, Sw!Sweep, Line!BagToSet, Sw!BagToSet
\* What their modules assume holds here, and so what they keep is kept.
LEMMA HandedIsRight ==
    /\ Leftmost \in Int
    /\ \A in \in Handed :
         /\ in \in Seq(Sw!Point \X Sw!Point)
         /\ \A k \in DOMAIN in : /\ in[k][1] # in[k][2]
                                 /\ in[k][1].x >= Leftmost /\ in[k][2].x >= Leftmost
  BY LeftmostAssumption DEF Handed, Sw!Point, Point

LEMMA SweepStays == Sw!SweepInv /\ [Sw!Next]_Sw!vars => Sw!SweepInv'
  BY HandedIsRight, UnitAssumption, Sw!StepSweep

LEMMA OutlinesStay == Ro!LinksInv /\ [Ro!Next]_Ro!vars => Ro!LinksInv'
  BY NullIsNoIndex, Ro!LinksStay

\* The sweep starts with what it is handed ...
LEMMA SweepStarts ==
    /\ input \in Handed /\ segments = Line!Loaded(input) /\ Q = Line!Queued(segments)
    /\ status = <<>> /\ currentX = Leftmost
    => Sw!SweepInv
  <1>1. Line!Loaded(input) = Sw!Loaded(input)
    BY DEF Line!Loaded, Sw!Loaded, Line!Segment, Sw!Segment, Line!Line, Sw!Line,
           Line!Vertical, Sw!Vertical
  <1>2. \A segs, k : Line!Event(segs, k, Line!LEFT) = Sw!Event(segs, k, Sw!LEFT)
    BY DEF Line!Event, Sw!Event, Line!existlk, Sw!existlk, Line!Vertical, Sw!Vertical,
           Line!Endpoint, Sw!Endpoint, Line!AFirst, Sw!AFirst, Line!LEFT, Sw!LEFT
  <1>3. Line!Queued(segments) = Sw!Queued(segments)
    BY <1>2 DEF Line!Queued, Sw!Queued, Line!SetToBag, Sw!SetToBag
  <1>5. Sw!Init => Sw!SweepInv
    BY HandedIsRight, UnitAssumption, Sw!InitSweep
  <1> QED
    BY <1>1, <1>3, <1>5 DEF Sw!Init

\* ... and the outlines with the pieces, whatever outlines an earlier run has left.
LEMMA OutlinesStart ==
    /\ vecSeg \in Seq([a : Point, b : Point]) /\ verts = Ring!VerticesOf(vecSeg)
    /\ next = [k \in DOMAIN vecSeg |-> NULL] /\ prev = next
    /\ isvalid = [k \in DOMAIN vecSeg |-> TRUE]
    /\ pc = "link" /\ look = 1 /\ current = NULL /\ outside = NULL /\ turns = 0
    /\ path = <<>> /\ result \in Seq(Seq(Point))
    => Ro!LinksInv
  <1>1. Ro!Point = Point
    BY DEF Ro!Point, Point
  <1>2. Ro!VerticesOf(vecSeg) = Ring!VerticesOf(vecSeg)
    BY DEF Ro!VerticesOf, Ring!VerticesOf
  <1>3. Ro!Segs = DOMAIN vecSeg
    BY DEF Ro!Segs
  <1> QED
    BY <1>1, <1>2, <1>3, NullIsNoIndex, Ro!LinksStart

\* The ends of a segment are no more to the left than LLONG_MIN.
Reached(s) == s.a.x >= Leftmost /\ s.b.x >= Leftmost
AllReached ==
    /\ InReach(A, B)
    /\ \A g \in DOMAIN vecs : \A k \in There(vecs[g]) : Reached(vecs[g][k])

NfpInv ==
    /\ stage \in {"idle", "lines", "sweep", "outlines", "empty"} /\ inner \in BOOLEAN
    /\ result \in Seq(Seq(Point))
    /\ stage = "lines" => LinesTypeOK /\ AllReached
    /\ stage = "sweep" => Sw!SweepInv
    /\ stage = "outlines" => Ro!LinksInv

\* Lines are differences of points, and what processOverlap makes of two has their ends.
LEMMA ReachKept == LinesTypeOK /\ AllReached /\ LinesStep => AllReached'
  <1> SUFFICES ASSUME LinesTypeOK, AllReached, LinesStep PROVE AllReached'
    OBVIOUS
  <1>1. A' = A /\ B' = B
    BY DEF LinesStep, PutLine, Resolve, NextSegment, NextGroup
  <1>2. CASE PutLine
    <2>1. PICK r \in ToPut : vecs' = processSegment(vecs, Trajectory(r))
      BY <1>2 DEF PutLine
    <2>2. Reached(Trajectory(r))
      <3>1. /\ A \in Seq(Point) /\ B \in Seq(Point)
            /\ \A k \in 1..Size(A) : k \in DOMAIN A /\ k + 1 \in DOMAIN A
            /\ \A k \in 1..Size(B) : k \in DOMAIN B /\ k + 1 \in DOMAIN B
        BY DEF LinesTypeOK, IsPath, Size
      <3>2. \/ r[1] = 1 /\ r[2] \in 1..Size(B) /\ r[3] \in 1..Size(A)
            \/ r[1] = 2 /\ r[2] \in 1..Size(A) /\ r[3] \in 1..Size(B)
        BY DEF ToPut, Rounds
      <3>3. \A j \in DOMAIN A, k \in DOMAIN B : Sub(A[j], B[k]).x >= Leftmost
        BY DEF AllReached, InReach, Sub
      <3> QED
        BY <3>1, <3>2, <3>3 DEF Trajectory, Reached, Seg
    <2>3. vecs \in Seq(Seq(Segments \cup {NULL}))
      BY ByGroups DEF LinesTypeOK
    <2> PICK s : s = Trajectory(r)
      OBVIOUS
    <2>4. ASSUME NEW g \in DOMAIN vecs', NEW k \in There(vecs'[g])
          PROVE  Reached(vecs'[g][k])
      <3>1. vecs' = processSegment(vecs, s) /\ Reached(s)
        BY <2>1, <2>2
      <3>2. vecs'[g][k] = s \/ (g \in DOMAIN vecs /\ k \in There(vecs[g]) /\ vecs'[g][k] = vecs[g][k])
        <4>1. CASE \E f \in DOMAIN vecs : SameKey(vecs[f][1], s)
          <5>1. PICK f \in DOMAIN vecs : vecs' = [vecs EXCEPT ![f] = Append(@, s)]
            BY <3>1, <4>1 DEF processSegment
          <5>2. vecs[f] \in Seq(Segments \cup {NULL})
            BY <2>3
          <5> QED
            BY <2>3, <5>1, <5>2 DEF There
        <4>2. CASE ~\E f \in DOMAIN vecs : SameKey(vecs[f][1], s)
          <5>1. vecs' = Append(vecs, <<s>>)
            BY <3>1, <4>2 DEF processSegment
          <5> QED
            BY <2>3, <5>1 DEF There
        <4> QED
          BY <4>1, <4>2
      <3> QED
        BY <3>1, <3>2 DEF AllReached
    <2> QED
      BY <1>1, <2>4 DEF AllReached, InReach
  <1>3. CASE Resolve
    <2>1. PICK k, new :
                /\ i \in DOMAIN vecs /\ m \in There(vecs[i]) /\ k \in There(vecs[i]) /\ m # k
                /\ new = processOverlap(vecs[i][m], vecs[i][k])
                /\ vecs' = [vecs EXCEPT ![i] = Resolved(vecs[i], m, k, new)]
      BY <1>3, ResolveIsResolved
    <2>2. ASSUME NEW s, NEW t, Reached(s), Reached(t), NEW o, o = processOverlap(s, t)
          PROVE  (o[1] # NULL => Reached(o[1])) /\ (o[2] # NULL => Reached(o[2]))
      BY <2>2 DEF processOverlap, Cancel, Merge, Seg, Reached
    <2>3. (new[1] # NULL => Reached(new[1])) /\ (new[2] # NULL => Reached(new[2]))
      BY <2>1, <2>2 DEF AllReached
    <2>4. ASSUME NEW g \in DOMAIN vecs', NEW l \in There(vecs'[g])
          PROVE  Reached(vecs'[g][l])
      BY <2>1, <2>3 DEF AllReached, Resolved, There
    <2> QED
      BY <1>1, <2>4 DEF AllReached, InReach
  <1>4. CASE NextSegment \/ NextGroup
    BY <1>1, <1>4 DEF AllReached, InReach, NextSegment, NextGroup
  <1> QED
    BY <1>2, <1>3, <1>4 DEF LinesStep

\* In a finite set that is ordered, for every place there is a member at it: u gives a member
\* those up to it.
LEMMA OneAtEachPlace ==
    ASSUME NEW S, IsFiniteSet(S), NEW u \in [S -> SUBSET S],
           \A w \in S : w \in u[w],
           \A v, w \in S : v \in u[w] /\ w \in u[v] => v = w,
           \A v, w \in S : v \in u[w] => u[v] \subseteq u[w],
           \A v, w \in S : v \in u[w] \/ w \in u[v],
           NEW k \in 1..Cardinality(S)
    PROVE  \E w \in S : Cardinality(u[w]) = k
  <1> DEFINE N == Cardinality(S)
             r == [w \in S |-> Cardinality(u[w])]
  <1>1. N \in Nat
    BY FS_CardinalityType
  <1>2. \A w \in S : IsFiniteSet(u[w]) /\ Cardinality(u[w]) \in 1..N
    <2> TAKE w \in S
    <2>1. IsFiniteSet(u[w]) /\ Cardinality(u[w]) <= N /\ u[w] # {}
      BY FS_Subset
    <2>2. Cardinality(u[w]) \in Nat /\ Cardinality(u[w]) # 0
      BY <2>1, FS_CardinalityType, FS_EmptySet
    <2> QED
      BY <1>1, <2>1, <2>2
  <1>3. ASSUME NEW v \in S, NEW w \in S, v \in u[w], Cardinality(u[v]) = Cardinality(u[w])
        PROVE  v = w
    <2>1. u[v] \in SUBSET u[w] /\ IsFiniteSet(u[w])
      BY <1>2, <1>3
    <2>2. u[w] = u[v]
      BY <1>3, <2>1, FS_Subset
    <2> QED
      BY <1>3, <2>2
  <1>4. r \in Injection(S, 1..N)
    <2>1. r \in [S -> 1..N]
      BY <1>2
    <2>2. \A v, w \in S : r[v] = r[w] => v = w
      BY <1>3
    <2> HIDE DEF N, r
    <2> QED
      BY <2>1, <2>2 DEF Injection, IsInjective
  <1>5. IsFiniteSet(1..N) /\ Cardinality(1..N) = N
    BY <1>1, FS_Interval
  <1>6. r \in Surjection(S, 1..N)
    <2> HIDE DEF r
    <2> QED
      BY <1>4, <1>5, FS_Injection
  <1>7. \E w \in S : r[w] = k
    <2> HIDE DEF r
    <2> QED
      BY <1>6 DEF Surjection
  <1> QED
    BY <1>7

\* What simplifySeg leaves are pairs of points that differ.
LEMMA CollectedIsHanded == LinesTypeOK /\ AllReached => Taken(Collected) \in Handed
  <1> SUFFICES ASSUME LinesTypeOK, AllReached PROVE Taken(Collected) \in Handed
    OBVIOUS
  <1> DEFINE Of(g) == {g} \X There(vecs[g])
             left == UNION {Of(g) : g \in DOMAIN vecs}
             UpTo(w) == {v \in left : v[1] < w[1] \/ (v[1] = w[1] /\ v[2] <= w[2])}
             u == [w \in left |-> UpTo(w)]
             c == Cardinality(left)
             w(k) == CHOOSE w \in left : Cardinality(UpTo(w)) = k
             s(k) == vecs[w(k)[1]][w(k)[2]]
  <1>1. /\ vecs \in Seq(Seq(Segments \cup {NULL}))
        /\ \A g \in DOMAIN vecs : Group(vecs[g])
    BY ByGroups DEF LinesTypeOK
  <1>2. \A g \in DOMAIN vecs : /\ There(vecs[g]) \subseteq 1..Len(vecs[g])
                               /\ Len(vecs[g]) \in Nat /\ g \in Nat
    BY <1>1 DEF There
  <1>3. \A v \in left : /\ v[1] \in DOMAIN vecs /\ v[2] \in There(vecs[v[1]])
                        /\ v[1] \in Nat /\ v[2] \in Nat /\ v = <<v[1], v[2]>>
    BY <1>2
  <1>4. \A v \in left : LET t == vecs[v[1]][v[2]]
                        IN  t \in Segments /\ t.a # t.b /\ Reached(t)
    <2> TAKE v \in left
    <2> PICK g, k : g = v[1] /\ k = v[2]
      OBVIOUS
    <2>1. g \in DOMAIN vecs /\ k \in There(vecs[g]) /\ Group(vecs[g])
      BY <1>1, <1>3
    <2>2. vecs[g][k] \in Segments /\ vecs[g][k].a # vecs[g][k].b
      BY <2>1 DEF Group, There
    <2>3. Reached(vecs[g][k])
      BY <2>1 DEF AllReached
    <2> QED
      BY <2>2, <2>3
  <1>5. IsFiniteSet(left)
    <2>1. \A g \in DOMAIN vecs : IsFiniteSet(Of(g))
      <3> TAKE g \in DOMAIN vecs
      <3>1. IsFiniteSet(1..Len(vecs[g]))
        BY <1>2, FS_Interval
      <3>2. IsFiniteSet(There(vecs[g]))
        BY <1>2, <3>1, FS_Subset
      <3>3. IsFiniteSet({g})
        BY FS_Singleton
      <3> QED
        BY <3>2, <3>3, FS_Product
    <2>2. IsFiniteSet(DOMAIN vecs)
      <3>1. DOMAIN vecs = 1..Len(vecs) /\ Len(vecs) \in Nat
        BY <1>1
      <3> QED
        BY <3>1, FS_Interval
    <2> DEFINE T == {Of(g) : g \in DOMAIN vecs}
               f == [g \in DOMAIN vecs |-> Of(g)]
    <2>3. f \in Surjection(DOMAIN vecs, T)
      BY DEF Surjection
    <2>4. IsFiniteSet(T)
      <3> HIDE DEF T, f
      <3> QED
        BY <2>2, <2>3, FS_Surjection
    <2>5. \A t \in T : IsFiniteSet(t)
      BY <2>1
    <2> HIDE DEF T
    <2>6. IsFiniteSet(UNION T)
      BY <2>4, <2>5, FS_UNION
    <2> QED
      BY <2>6 DEF T
  <1> HIDE DEF left
  <1>6. \A k \in 1..c : \E v \in left : Cardinality(UpTo(v)) = k
    <2>1. u \in [left -> SUBSET left]
      OBVIOUS
    <2>2. \A v \in left : v \in u[v]
      BY <1>3
    <2>3. \A v, x \in left : v \in u[x] /\ x \in u[v] => v = x
      BY <1>3
    <2>4. \A v, x \in left : v \in u[x] => u[v] \subseteq u[x]
      BY <1>3
    <2>5. \A v, x \in left : v \in u[x] \/ x \in u[v]
      BY <1>3
    <2>6. \A v \in left : u[v] = UpTo(v)
      OBVIOUS
    <2> HIDE DEF u, UpTo
    <2>7. \A k \in 1..c : \E v \in left : Cardinality(u[v]) = k
      BY <1>5, <2>1, <2>2, <2>3, <2>4, <2>5, OneAtEachPlace
    <2> QED
      BY <2>6, <2>7
  <1>7. \A k \in 1..c : w(k) \in left
    <2> HIDE DEF UpTo
    <2> QED
      BY <1>6
  <1>8. \A k \in 1..c : s(k) \in Segments /\ s(k).a # s(k).b /\ Reached(s(k))
    <2> HIDE DEF w
    <2> QED
      BY <1>4, <1>7
  <1>9. Collected = [k \in 1..c |-> s(k)]
    BY DEF Collected, left
  <1>10. c \in Nat
    BY <1>5, FS_CardinalityType
  <1> HIDE DEF c, s
  <1>11. Taken(Collected) = [k \in 1..c |-> <<s(k).a, s(k).b>>]
    BY <1>9 DEF Taken
  <1>12. \A k \in 1..c : <<s(k).a, s(k).b>> \in Point \X Point
    BY <1>8 DEF Segments
  <1>13. Taken(Collected) \in Seq(Point \X Point)
    BY <1>10, <1>11, <1>12
  <1> QED
    BY <1>8, <1>10, <1>11, <1>13 DEF Handed, Reached

\* Where a run starts.
LEMMA RunStarts ==
    ASSUME NEW p, NEW q, NEW ifp, NEW paths, IsPath(p), IsPath(q), InReach(p, q),
           ifp \in BOOLEAN, paths \in Seq(Seq(Point)), Run(p, q, ifp, paths)
    PROVE  stage = "idle" /\ NfpInv'
  <1>1. /\ stage = "idle" /\ stage' = "lines" /\ inner' = ifp /\ result' = paths
        /\ LinesFor(p, q)
    BY DEF Run
  <1>2. LinesTypeOK'
    BY <1>1, LinesStart
  <1>3. AllReached'
    BY <1>1 DEF AllReached, InReach, LinesFor
  <1> QED
    BY <1>1, <1>2, <1>3 DEF NfpInv

\* The lines are handed to the sweep ...
LEMMA CollectKeeps == NfpInv /\ Collect => NfpInv'
  <1>1. (/\ input \in Handed /\ segments = Line!Loaded(input) /\ Q = Line!Queued(segments)
         /\ status = <<>> /\ currentX = Leftmost)' => Sw!SweepInv'
    BY SweepStarts, PTL
  <1>2. Handed' = Handed
    BY DEF Handed, Point
  <1> SUFFICES ASSUME NfpInv, Collect PROVE NfpInv'
    OBVIOUS
  <1>3. input' \in Handed
    BY CollectedIsHanded DEF Collect, NfpInv
  <1>4. Line!Loaded(input)' = Line!Loaded(input') /\ Line!Queued(segments)' = Line!Queued(segments')
    BY DEF Line!Loaded, Line!Queued, Line!Segment, Line!Event
  <1>5. Sw!SweepInv'
    BY <1>1, <1>2, <1>3, <1>4 DEF Collect
  <1> QED
    BY <1>5 DEF Collect, NfpInv

\* ... which cuts them ...
LEMMA SweepKeeps == NfpInv /\ Sweep => NfpInv'
  <1> SUFFICES ASSUME NfpInv, Sweep PROVE NfpInv'
    OBVIOUS
  <1>1. Sw!SweepInv /\ Line!Sweep
    BY DEF NfpInv, Sweep
  <1>2. Sw!SweepInv'
    BY <1>1, LineSteps, SweepStays DEF Sw!Next
  <1> QED
    BY <1>2 DEF NfpInv, Sweep

\* ... and hands the pieces over ...
LEMMA HandOverKeeps == NfpInv /\ HandOver => NfpInv'
  <1>1. (/\ vecSeg \in Seq([a : Point, b : Point]) /\ verts = Ring!VerticesOf(vecSeg)
         /\ next = [k \in DOMAIN vecSeg |-> NULL] /\ prev = next
         /\ isvalid = [k \in DOMAIN vecSeg |-> TRUE]
         /\ pc = "link" /\ look = 1 /\ current = NULL /\ outside = NULL /\ turns = 0
         /\ path = <<>> /\ result \in Seq(Seq(Point)))' => Ro!LinksInv'
    BY OutlinesStart, PTL
  <1> SUFFICES ASSUME NfpInv, HandOver PROVE NfpInv'
    OBVIOUS
  <1>2. segments \in Seq(Sw!Pieces)
    BY DEF NfpInv, HandOver, Sw!SweepInv, Sw!Sound
  <1>3. Len(segments) \in Nat /\ DOMAIN segments = 1..Len(segments)
        /\ \A k \in DOMAIN segments : segments[k].a \in Point /\ segments[k].b \in Point
    <2>1. \A s \in Sw!Pieces : s.a \in Point /\ s.b \in Point
      BY DEF Sw!Pieces, Sw!Point, Point
    <2> QED
      BY <1>2, <2>1
  <1>4. /\ vecSeg' = [k \in DOMAIN segments |-> Seg(segments[k].a, segments[k].b)]
        /\ next' = [k \in DOMAIN segments |-> NULL] /\ prev' = next'
        /\ isvalid' = [k \in DOMAIN segments |-> TRUE]
        /\ verts' = Ring!VerticesOf(vecSeg') /\ result' = result
        /\ pc' = "link" /\ look' = 1 /\ current' = NULL /\ outside' = NULL /\ turns' = 0
        /\ path' = <<>> /\ stage' = "outlines" /\ inner' = inner
    BY DEF HandOver
  <1>5. vecSeg' \in Seq([a : Point, b : Point]) /\ DOMAIN vecSeg' = DOMAIN segments
    BY <1>3, <1>4 DEF Seg
  <1>6. Ring!VerticesOf(vecSeg)' = Ring!VerticesOf(vecSeg')
    BY DEF Ring!VerticesOf
  <1>7. Point' = Point /\ NULL' = NULL
    BY DEF Point
  <1>8. result \in Seq(Seq(Point))
    BY DEF NfpInv
  <1>9. Ro!LinksInv'
    BY <1>1, <1>4, <1>5, <1>6, <1>7, <1>8
  <1> QED
    BY <1>4, <1>8, <1>9 DEF NfpInv

\* ... to be linked and walked.
LEMMA OutlineKeeps == NfpInv /\ Outline => NfpInv'
  <1> SUFFICES ASSUME NfpInv, Outline PROVE NfpInv'
    OBVIOUS
  <1>1. stage = "outlines" /\ stage' = stage /\ Ring!Next
    BY DEF Outline
  <1>2. Ro!LinksInv'
    BY <1>1, RingSteps, OutlinesStay DEF NfpInv
  <1>3. inner' = inner
    BY <1>1 DEF Ring!Next, Ring!Link, Ring!Linked, Ring!Look, Ring!Drop, Ring!vars,
                Ring!ChooseOutside, Ring!ChooseFirst, Ring!Step, Ring!Close, Ring!Return
  <1>4. result' \in Seq(Seq(Point))
    <2>1. (result \in Seq(Seq(Point)))'
      BY <1>2 DEF Ro!LinksInv, Ro!Shape, Ro!Point, Point
    <2> QED
      BY <2>1 DEF Point
  <1> QED
    BY <1>1, <1>2, <1>3, <1>4 DEF NfpInv

LEMMA RunningKeeps ==
    ASSUME NfpInv, Running
    PROVE  NfpInv' /\ (stage' = "lines" => stage = "lines" /\ LinesStep)
  <1>1. CASE PutAndSimplify
    <2>1. LinesTypeOK /\ AllReached /\ LinesStep
      BY <1>1 DEF PutAndSimplify, NfpInv
    <2>2. LinesTypeOK' /\ AllReached'
      BY <2>1, LinesKeep, ReachKept
    <2> QED
      BY <1>1, <2>2 DEF PutAndSimplify, NfpInv
  <1>2. CASE Collect \/ Sweep \/ HandOver \/ Outline
    <2>1. NfpInv'
      BY <1>2, CollectKeeps, SweepKeeps, HandOverKeeps, OutlineKeeps
    <2>2. stage' # "lines"
      BY <1>2 DEF Collect, Sweep, HandOver, Outline
    <2> QED
      BY <2>1, <2>2
  <1> QED
    BY <1>1, <1>2 DEF Running

\* Where no run makes a step.
LEMMA NfpRests == NfpInv /\ UNCHANGED nfpVars => NfpInv'
  <1> SUFFICES ASSUME NfpInv, UNCHANGED nfpVars PROVE NfpInv'
    OBVIOUS
  <1>1. /\ stage' = stage /\ inner' = inner /\ result' = result
        /\ UNCHANGED lineVars /\ UNCHANGED sweepVars /\ UNCHANGED walkVars
    BY DEF nfpVars
  <1>2. LinesTypeOK /\ AllReached => LinesTypeOK' /\ AllReached'
    BY <1>1 DEF lineVars, LinesTypeOK, AllReached, InReach
  <1>3. Sw!SweepInv => Sw!SweepInv'
    <2>1. UNCHANGED Sw!vars
      BY <1>1 DEF sweepVars, Sw!vars
    <2> QED
      BY <2>1, SweepStays
  <1>4. Ro!LinksInv => Ro!LinksInv'
    <2>1. UNCHANGED Ro!vars
      BY <1>1 DEF walkVars, Ro!vars, Ro!linkVars, Ro!walkVars
    <2> QED
      BY <2>1, OutlinesStay
  <1> QED
    BY <1>1, <1>2, <1>3, <1>4 DEF NfpInv

-----------------------------------------------------------------------------
(* FitPolygon. *)

\* What the loops over the holes need: the polygons of the item are paths.
FitInv ==
    /\ item.sheet \in BOOLEAN /\ IsPath(item.contour) /\ IsPath(part)
    /\ InReach(item.contour, part)
    /\ \A k \in 1..Len(item.holes) : IsPath(item.holes[k]) /\ InReach(item.holes[k], part)
    /\ h \in Nat \ {0}
    /\ NfpInv

LEMMA FitInit == Init => FitInv
  <1> SUFFICES ASSUME Init PROVE FitInv
    OBVIOUS
  <1>1. PICK pair \in Inputs : item = pair[1] /\ part = pair[2]
    BY DEF Init
  <1>2. /\ item.sheet \in BOOLEAN /\ IsPath(item.contour) /\ IsPath(part)
        /\ InReach(item.contour, part)
        /\ \A k \in 1..Len(item.holes) : IsPath(item.holes[k]) /\ InReach(item.holes[k], part)
    BY <1>1, InputsAssumption
  <1>3. stage = "idle" /\ inner = FALSE /\ h = 1 /\ result = <<>>
    BY DEF Init, Idle
  <1>4. h \in Nat \ {0} /\ result \in Seq(Seq(Point))
    BY <1>3
  <1>5. NfpInv
    BY <1>3, <1>4 DEF NfpInv
  <1> QED
    BY <1>2, <1>4, <1>5, Zenon DEF FitInv

LEMMA FitNext == FitInv /\ [Next]_vars => FitInv'
  <1> SUFFICES ASSUME FitInv, [Next]_vars PROVE FitInv'
    OBVIOUS
  <1>1. CASE Begin
    <2>1. UNCHANGED <<item, part, h>>
      BY <1>1 DEF Begin
    <2>2. UNCHANGED nfpVars \/ Run(item.contour, part, item.sheet, <<>>)
      BY <1>1 DEF Begin
    <2>3. <<>> \in Seq(Seq(Point))
      OBVIOUS
    <2>4. NfpInv'
      BY <2>2, <2>3, RunStarts, NfpRests DEF FitInv
    <2> QED
      BY <2>1, <2>4 DEF FitInv, InReach
  <1>2. CASE Proceed
    <2>1. NfpInv'
      BY <1>2, RunningKeeps DEF Proceed, FitInv
    <2> QED
      BY <1>2, <2>1 DEF Proceed, FitInv, fitVars, InReach
  <1>3. CASE RemoveFakeHoles \/ KeepInner \/ HoleDone
    <2>1. /\ stage' = "idle" /\ inner' = inner /\ UNCHANGED <<item, part>>
          /\ result' = result \/ result' = <<>>
          /\ h' = h \/ h' = h + 1
      BY <1>3 DEF RemoveFakeHoles, KeepInner, HoleDone
    <2>2. result' \in Seq(Seq(Point))
      <3>1. <<>> \in Seq(Seq(Point)) /\ result \in Seq(Seq(Point))
        BY DEF FitInv, NfpInv
      <3> QED
        BY <2>1, <3>1
    <2>3. NfpInv'
      BY <2>1, <2>2 DEF FitInv, NfpInv
    <2> QED
      BY <2>1, <2>3 DEF FitInv, InReach
  <1>4. CASE NextHole
    <2>1. UNCHANGED <<item, part, h>> /\ h \in 1..Len(item.holes)
      BY <1>4 DEF NextHole, FitInv
    <2>2. \/ UNCHANGED nfpVars
          \/ \E ifp \in BOOLEAN : \E paths \in {result, <<>>} : Run(item.holes[h], part, ifp, paths)
      BY <1>4 DEF NextHole
    <2>3. <<>> \in Seq(Seq(Point)) /\ result \in Seq(Seq(Point))
      BY DEF FitInv, NfpInv
    <2>4. NfpInv'
      BY <2>1, <2>2, <2>3, RunStarts, NfpRests DEF FitInv
    <2> QED
      BY <2>1, <2>4 DEF FitInv, InReach
  <1>5. CASE Finish \/ Return \/ UNCHANGED vars
    <2>1. UNCHANGED nfpVars /\ UNCHANGED <<item, part, h>>
      BY <1>5 DEF Finish, Return, vars, fitVars
    <2>2. NfpInv'
      BY <2>1, NfpRests DEF FitInv
    <2> QED
      BY <2>1, <2>2 DEF FitInv, InReach
  <1> QED
    BY <1>1, <1>2, <1>3, <1>4, <1>5 DEF Next

THEOREM FitInvariant == Spec => []FitInv
  BY FitInit, FitNext, PTL DEF Spec

\* The sweep and the outlines, as Nfp runs them, have what is proved of their modules.
LEMMA SweepOfRun == Sw!SweepInv => Line!TypeOK /\ Line!FlowIsKept /\ Line!NothingBehind
  <1> SUFFICES ASSUME Sw!SweepInv PROVE Line!TypeOK /\ Line!FlowIsKept /\ Line!NothingBehind
    OBVIOUS
  <1>1. Sw!TypeOK /\ Sw!FlowIsKept /\ Sw!NothingBehind
    BY HandedIsRight, UnitAssumption, Sw!SweepHolds
  <1>2. \A b : Line!BagToSet(b) = Sw!BagToSet(b)
    BY DEF Line!BagToSet, Sw!BagToSet
  <1>3. Line!Vertices = Sw!Vertices
    BY DEF Line!Vertices, Sw!Vertices, Line!VerticesOf, Sw!VerticesOf
  <1>4. \A f : (Line!IsInjective(f) <=> Sw!IsInjective(f)) /\ (Line!IsABag(f) <=> Sw!IsABag(f))
    BY DEF Line!IsInjective, Sw!IsInjective, Line!IsABag, Sw!IsABag
  <1>5. Line!TypeOK
    BY <1>1, <1>2, <1>3, <1>4 DEF Line!TypeOK, Sw!TypeOK
  <1>6. Line!Loaded(input) = Sw!Loaded(input)
    BY DEF Line!Loaded, Sw!Loaded, Line!Segment, Sw!Segment, Line!Line, Sw!Line,
           Line!Vertical, Sw!Vertical
  <1>7. \A S : Line!Cardinality(S) = Sw!Cardinality(S)
    BY Zenon DEF Line!Cardinality, Sw!Cardinality, Line!IsFiniteSet, Sw!IsFiniteSet
  <1>8. \A p, segs : Line!Surplus(p, segs) = Sw!Surplus(p, segs)
    BY <1>7 DEF Line!Surplus, Sw!Surplus
  <1>9. Line!FlowIsKept
    BY <1>1, <1>3, <1>6, <1>8 DEF Line!FlowIsKept, Sw!FlowIsKept
  <1>10. Line!NothingBehind
    BY <1>1, <1>2 DEF Line!NothingBehind, Sw!NothingBehind
  <1> QED
    BY <1>5, <1>9, <1>10

LEMMA OutlinesOfRun ==
    Ro!LinksInv => Ring!TypeOK /\ Ring!LinksAgree /\ Ring!OnlyRingsAreLeft /\ Ring!NoWalkIsCut
  <1> SUFFICES ASSUME Ro!LinksInv
               PROVE  Ring!TypeOK /\ Ring!LinksAgree /\ Ring!OnlyRingsAreLeft /\ Ring!NoWalkIsCut
    OBVIOUS
  <1>1. Ro!TypeOK /\ Ro!LinksAgree /\ Ro!OnlyRingsAreLeft /\ Ro!NoWalkIsCut
    BY NullIsNoIndex, Ro!LinksHold
  <1>2. Ring!Segs = Ro!Segs /\ Ring!Valid = Ro!Valid
    BY DEF Ring!Segs, Ro!Segs, Ring!Valid, Ro!Valid
  <1>3. Ring!TypeOK /\ Ring!LinksAgree
    BY <1>1, <1>2 DEF Ring!TypeOK, Ro!TypeOK, Ring!LinksAgree, Ro!LinksAgree
  <1>4. Ring!OnlyRingsAreLeft /\ Ring!NoWalkIsCut
    BY <1>1, <1>2 DEF Ring!OnlyRingsAreLeft, Ro!OnlyRingsAreLeft, Ring!NoWalkIsCut, Ro!NoWalkIsCut
  <1> QED
    BY <1>3, <1>4

\* In every run for every item the lines, the segments of the sweep and the links are
\* well-formed, whatever the coordinates: what one part hands to the next is what that
\* part needs.
THEOREM RunsAreWellFormed == Spec => []TypeOK
  <1>1. FitInv => TypeOK
    BY SweepOfRun, OutlinesOfRun DEF FitInv, NfpInv, TypeOK
  <1> QED
    BY <1>1, FitInvariant, PTL

\* In every run the cuts lose, double or turn round no part of a line that simplifySeg
\* left, and the sweep never goes back.
SweepIsSound == stage = "sweep" => Line!FlowIsKept /\ Line!NothingBehind

THEOREM SweepsAreSound == Spec => []SweepIsSound
  <1>1. FitInv => SweepIsSound
    BY SweepOfRun DEF FitInv, NfpInv, SweepIsSound
  <1> QED
    BY <1>1, FitInvariant, PTL

\* In every run, also one that goes on with the outlines of an earlier one, the pieces
\* are linked at both ends, only rings are walked, and no walk is cut short.
OutlinesAreSound ==
    stage = "outlines" => Ring!LinksAgree /\ Ring!OnlyRingsAreLeft /\ Ring!NoWalkIsCut

THEOREM OutlinesStaySound == Spec => []OutlinesAreSound
  <1>1. FitInv => OutlinesAreSound
    BY OutlinesOfRun DEF FitInv, NfpInv, OutlinesAreSound
  <1> QED
    BY <1>1, FitInvariant, PTL

\* simplifySeg takes away only what is there twice.
THEOREM CoverageKept == Spec => CoverageIsKept
  <1>1. FitInv /\ [Next]_vars => [stage = "lines" /\ stage' = "lines" => TakesOnlyDoubles]_nfpVars
    <2> SUFFICES ASSUME FitInv, [Next]_vars, nfpVars' # nfpVars, stage = "lines", stage' = "lines"
                 PROVE  TakesOnlyDoubles
      OBVIOUS
    <2>1. Proceed
      BY DEF Next, vars, Begin, Run, RemoveFakeHoles, KeepInner, NextHole, HoleDone, Finish, Return,
             Ended
    <2>2. LinesStep
      BY <2>1, RunningKeeps DEF Proceed, FitInv
    <2> QED
      BY <2>2, StepTakes DEF FitInv, NfpInv
  <1> QED
    BY <1>1, FitInit, FitNext, PTL DEF Spec, CoverageIsKept
==============================================================================
