-------------------------- MODULE SweepComparators ---------------------------
(***************************************************************************)
(* The two comparators of the sweep line (SweepLine/sweepline.h).          *)
(* EventComp orders the priority queue of endpoints, SegmentComparator the *)
(* set of the segments that the sweep line crosses.                        *)
(***************************************************************************)
EXTENDS Integers

\* Heights of segments, which are doubles, in parts of a unit of the program.
CONSTANT Unit
ASSUME UnitAssumption == Unit \in Nat \ {0}

\* EventType, an enum whose values are compared.
LEFT == 0
RIGHT == 1

\* An event is an endpoint, [x, y], with its type and existlk of its segment, which
\* is FALSE for a vertical.
VerticalLeft(e) == ~e.existlk /\ e.type = LEFT
VerticalRight(e) == ~e.existlk /\ e.type = RIGHT

\* Mutant of EventComp: the rule for two verticals that come in is missing.
EventCompOneVertical(A, B) ==
    IF A.x # B.x THEN A.x > B.x
    ELSE IF VerticalLeft(B) THEN TRUE
    ELSE IF VerticalLeft(A) THEN FALSE
    ELSE IF A.type # B.type THEN A.type < B.type
    ELSE A.y > B.y

\* Mutant of EventComp: what starts comes before what ends, as ReadMe.md has it.
EventCompLeftFirst(A, B) ==
    IF A.x # B.x THEN A.x > B.x
    ELSE IF VerticalLeft(A) # VerticalLeft(B) THEN VerticalLeft(B)
    ELSE IF VerticalRight(A) # VerticalRight(B) THEN VerticalRight(A)
    ELSE IF A.type # B.type THEN A.type > B.type
    ELSE A.y > B.y

\* EventComp: A is popped after B.
EventComp(A, B) ==
    IF A.x # B.x THEN A.x > B.x
    ELSE IF VerticalLeft(A) /\ VerticalLeft(B) THEN A.y > B.y
    ELSE IF VerticalLeft(A) THEN FALSE
    ELSE IF VerticalLeft(B) THEN TRUE
    ELSE IF VerticalRight(A) /\ VerticalRight(B) THEN A.y > B.y
    ELSE IF VerticalRight(A) THEN TRUE
    ELSE IF VerticalRight(B) THEN FALSE
    ELSE IF A.type # B.type THEN A.type < B.type
    ELSE A.y > B.y

\* A segment as the status sees it: getYAtX at the sweep line and one unit to the
\* right of it.  (For a vertical both are its lower end.)

\* std::fabs(ya - yb) < 3
Near(a, b) == a.here - b.here < 3 * Unit /\ b.here - a.here < 3 * Unit

\* Mutant of SegmentComparator: that a is a vertical is not asked.
SegmentComparatorAnyA(a, b) ==
    IF (a.existlk \/ b.existlk) /\ Near(a, b)
    THEN b.existlk => a.next < b.next
    ELSE a.here < b.here

\* SegmentComparator: a has to come before b.
SegmentComparator(a, b) ==
    IF (a.existlk \/ b.existlk) /\ Near(a, b)
    THEN a.existlk /\ (b.existlk => a.next < b.next)
    ELSE a.here < b.here

-----------------------------------------------------------------------------
(* What the containers ask of a comparator. *)

\* A strict weak order on S: irreflexive, asymmetric, transitive, and "neither before
\* the other" is transitive too.
StrictWeakOrder(Precedes(_, _), S) ==
    LET Equivalent(p, q) == ~Precedes(p, q) /\ ~Precedes(q, p)
    IN  /\ \A p \in S : ~Precedes(p, p)
        /\ \A p, q \in S : ~(Precedes(p, q) /\ Precedes(q, p))
        /\ \A p, q, r \in S : Precedes(p, q) /\ Precedes(q, r) => Precedes(p, r)
        /\ \A p, q, r \in S : Equivalent(p, q) /\ Equivalent(q, r) => Equivalent(p, r)

\* Three heights that reach over 3 units in two steps that are near, and neither step
\* is taken for a rise: b falls to a, and c to b, within one unit, or the lower one is
\* a vertical.
Chained(a, b, c) ==
    /\ Near(a, b) /\ Near(b, c) /\ c.here - a.here >= 3 * Unit
    /\ ~SegmentComparator(a, b) /\ ~SegmentComparator(b, c)
=============================================================================
