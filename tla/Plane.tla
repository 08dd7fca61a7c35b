-------------------------------- MODULE Plane --------------------------------
(* Points [x, y] and the products that the geometry is made of. *)
EXTENDS Integers

Point == [x : Int, y : Int]
Sub(p, q) == [x |-> p.x - q.x, y |-> p.y - q.y]
cross(p, q) == p.x * q.y - p.y * q.x
dot(p, q) == p.x * q.x + p.y * q.y
Least(m, n) == IF m < n THEN m ELSE n
Greatest(m, n) == IF m < n THEN n ELSE m

\* A directed segment, and its vector.
Seg(p, q) == [a |-> p, b |-> q]
Vec(s) == Sub(s.b, s.a)

\* s runs over the stretch from p to q, in that direction.
RunsOver(s, p, q) ==
    LET d == Vec(s)
    IN  /\ cross(d, Sub(p, s.a)) = 0 /\ cross(d, Sub(q, s.a)) = 0
        /\ dot(d, Sub(p, s.a)) >= 0 /\ dot(d, Sub(s.b, q)) >= 0 /\ dot(d, Sub(q, p)) > 0
==============================================================================
