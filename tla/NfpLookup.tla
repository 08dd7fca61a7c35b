------------------------------ MODULE NfpLookup ------------------------------
(***************************************************************************)
(* The program asks NfpCache for one pair after another, in any            *)
(* orientation it likes.                                                   *)
(***************************************************************************)
EXTENDS NfpPairs

\* The points of each item.
CONSTANT Shape

ASSUME ShapeAssumption == Shape \in [Item -> SUBSET (Int \X Int)]

VARIABLE query

TypeOK == query \in Queries
Init == query \in Queries
Ask == query' \in Queries
Next == Ask
Spec == Init /\ [][Next]_query

\* Whatever orientations are asked for, the entry is one of those that MatchPair
\* has computed: the two loops of CreatePair and the six cases of the lookup were
\* written apart and have to agree on order, mirror flag and index.
LookupIsMatched == Lookup(query).pair \in MatchPairs

\* The entry, turned and mirrored as the six cases do it, is the polygon of the
\* two items as they were asked for.
LookupIsRight ==
    LET l == Lookup(query)
        p == l.pair
        r == Reference(query)
        n == Count[query.b]
    IN  /\ p.A = r.A /\ p.B = r.B
        /\ SameOrientation(Orientation(2 * p.rotateIndex, p.isMirror), r.relative, n)
        /\ SameOrientation(Orientation(l.turn, l.mirror), r.outer, n)

\* No other computed pair has the key: fields do not run into each other, and the
\* polygon of a sheet is not taken for the one of the item with its id.
KeyIsUnique ==
    \A p \in MatchPairs : PairKey(p) = PairKey(Lookup(query).pair) => p = Lookup(query).pair
-----------------------------------------------------------------------------
(* Geometry: turns by quarters act on points with whole coordinates, and   *)
(* an answer can be compared with the differences that nfp_line outlines.  *)

Quarters(k, p) ==
    CASE k = 0 -> p
      [] k = 1 -> <<-p[2], p[1]>>
      [] k = 2 -> <<-p[1], -p[2]>>
      [] k = 3 -> <<p[2], -p[1]>>

\* A turn by t half steps, two of which are a quarter.
Turned(t, p) == Quarters((t \div 2) % 4, p)
Mirrored(p) == <<-p[1], p[2]>>

Placed(t, m, p) == Turned(t, IF m THEN Mirrored(p) ELSE p)
Place(points, t, m) == {Placed(t, m, p) : p \in points}

Minus(p, q) == <<p[1] - q[1], p[2] - q[2]>>
NfpPoints(P, R) == {Minus(p, q) : p \in P, q \in R}

\* With four rotations, the answer to a question about two items is the set of differences
\* A[i] - B[j] of the points of the items as they lie (nfp.cpp:482, 545), whatever their
\* shapes: the reference geometry, with no appeal to the laws.
LookupIsDifference ==
    LET l == Lookup(query)
        p == l.pair
    IN  ~query.sheet /\ Count[query.b] = 4 =>
          Place(NfpPoints(Shape[p.A], Place(Shape[p.B], 2 * p.rotateIndex, p.isMirror)),
                l.turn, l.mirror)
            = NfpPoints(Place(Shape[query.a], 2 * query.rA, query.mA),
                        Place(Shape[query.b], 2 * query.rB, query.mB))
=============================================================================
