--------------------------- MODULE NfpLookupProofs ---------------------------
(***************************************************************************)
(* Proofs about NfpLookup: what is fetched was computed, it is the right   *)
(* entry, and what is done to it gives the polygon that was asked for.     *)
(***************************************************************************)
EXTENDS NfpLookup, TLAPS

\* An index that is below the count of an item is a natural number.
LEMMA IndexFacts ==
    ASSUME NEW b \in Item, NEW r \in Indices, NEW m \in BOOLEAN, Oriented(b, r, m)
    PROVE  /\ Count[b] \in Nat \ {0} /\ MirrorCount[b] \in {0, Count[b]}
           /\ r \in 0..(Count[b] - 1)
           /\ m => MirrorCount[b] = Count[b]
  <1>1. r \in Nat
    BY DEF Indices
  <1>2. Count[b] \in Nat \ {0} /\ MirrorCount[b] \in {0, Count[b]}
    BY CountAssumption
  <1> QED
    BY <1>1, <1>2 DEF Oriented

\* And the other way round.
LEMMA OrientedIndex ==
    ASSUME NEW b \in Item, NEW r \in 0..(Count[b] - 1), NEW m \in BOOLEAN,
           m => MirrorCount[b] = Count[b]
    PROVE  r \in Indices /\ Oriented(b, r, m)
  <1>1. Count[b] \in Nat \ {0}
    BY CountAssumption
  <1> QED
    BY <1>1 DEF Indices, Oriented

\* The fields of a question about two items, which have n rotations each.
LEMMA ItemQuery ==
    ASSUME NEW q \in Queries, ~q.sheet
    PROVE  /\ q.a \in Item /\ q.b \in Item
           /\ Count[q.b] \in Nat \ {0} /\ Count[q.a] = Count[q.b]
           /\ q.rA \in 0..(Count[q.b] - 1) /\ q.rB \in 0..(Count[q.b] - 1)
           /\ q.mA \in BOOLEAN /\ q.mB \in BOOLEAN
           /\ q.mA \/ q.mB =>
                 MirrorCount[q.a] = Count[q.a] /\ MirrorCount[q.b] = Count[q.b]
  <1>1. /\ q.a \in Item /\ q.b \in Item /\ q.rA \in Indices /\ q.rB \in Indices
        /\ q.mA \in BOOLEAN /\ q.mB \in BOOLEAN
        /\ Oriented(q.a, q.rA, q.mA) /\ Oriented(q.b, q.rB, q.mB)
    BY DEF Queries, QueryType
  <1>2. /\ q.rA \in 0..(Count[q.a] - 1) /\ (q.mA => MirrorCount[q.a] = Count[q.a])
        /\ q.rB \in 0..(Count[q.b] - 1) /\ (q.mB => MirrorCount[q.b] = Count[q.b])
    BY <1>1, IndexFacts
  <1>3. /\ Count[q.b] \in Nat \ {0} /\ Count[q.a] = Count[q.b]
        /\ MirrorCount[q.a] = MirrorCount[q.b]
    BY <1>1, CountAssumption
  <1> QED
    BY <1>1, <1>2, <1>3

\* The fields of a question about a sheet.
LEMMA SheetQuery ==
    ASSUME NEW q \in Queries, q.sheet
    PROVE  /\ q.a \in Sheet /\ q.b \in Item
           /\ q.rA = 0 /\ q.rB \in 0..(Count[q.b] - 1) /\ Count[q.b] \in Nat \ {0}
           /\ q.mA = FALSE /\ q.mB \in BOOLEAN
           /\ q.mB => MirrorCount[q.b] = Count[q.b]
  <1>1. /\ q.a \in Sheet /\ q.b \in Item /\ q.rA = 0 /\ q.rB \in Indices
        /\ q.mA = FALSE /\ q.mB \in BOOLEAN /\ Oriented(q.b, q.rB, q.mB)
    BY DEF Queries, QueryType
  <1> QED
    BY <1>1, IndexFacts

\* A difference of two indices, wrapped once, is an index again.
LEMMA WrapRange ==
    ASSUME NEW n \in Nat \ {0}, NEW r \in 0..(n - 1), NEW s \in 0..(n - 1)
    PROVE  Wrap(r - s, n) \in 0..(n - 1)
  BY DEF Wrap

\* Every pair of two items in order, with an index and a flag that exist, is there.
LEMMA InMatchPairs ==
    ASSUME NEW s \in BOOLEAN, NEW a \in Item \cup Sheet, NEW b \in Item,
           IF s THEN a \in Sheet ELSE a \in Item /\ Compare(a, b),
           NEW m \in BOOLEAN, m => MirrorCount[b] = Count[b],
           NEW r \in 0..(Count[b] - 1)
    PROVE  Pair(a, b, r, m, s) \in MatchPairs
  <1>1. r \in Indices /\ Oriented(b, r, m)
    BY OrientedIndex
  <1>2. Pair(a, b, r, m, s) \in PairType
    BY <1>1 DEF Pair, PairType
  <1>3. CreatePair(Pair(a, b, r, m, s))
    BY <1>1 DEF Pair, CreatePair
  <1> QED
    BY <1>2, <1>3 DEF Pair, MatchPairs

\* The CASE of the lookup, one case at a time.
LEMMA SixCases ==
    ASSUME NEW q, ~q.sheet, q.mA \in BOOLEAN, q.mB \in BOOLEAN,
           NEW n, n = Count[q.b],
           NEW ab, ab = Wrap(q.rA - q.rB, n),
           NEW ba, ba = Wrap(q.rB - q.rA, n)
    PROVE  /\ q.mA /\ Compare(q.a, q.b) =>
                 Lookup(q) = Answer(Pair(q.a, q.b, ab, ~q.mB, FALSE), TRUE, 2 * q.rA)
           /\ q.mA /\ ~Compare(q.a, q.b) /\ q.mB =>
                 Lookup(q) = Answer(Pair(q.b, q.a, ba, FALSE, FALSE), TRUE, 2 * q.rB - n)
           /\ q.mA /\ ~Compare(q.a, q.b) /\ ~q.mB =>
                 Lookup(q) = Answer(Pair(q.b, q.a, ab, TRUE, FALSE), FALSE, 2 * q.rB - n)
           /\ ~q.mA /\ Compare(q.a, q.b) =>
                 Lookup(q) = Answer(Pair(q.a, q.b, ba, q.mB, FALSE), FALSE, 2 * q.rA)
           /\ ~q.mA /\ ~Compare(q.a, q.b) /\ q.mB =>
                 Lookup(q) = Answer(Pair(q.b, q.a, ba, TRUE, FALSE), TRUE, 2 * q.rB - n)
           /\ ~q.mA /\ ~Compare(q.a, q.b) /\ ~q.mB =>
                 Lookup(q) = Answer(Pair(q.b, q.a, ab, FALSE, FALSE), FALSE, 2 * q.rB - n)
  <1>1. Lookup(q) = LookupItems(q)
    BY DEF Lookup
  <1>2. CASE q.mA /\ Compare(q.a, q.b)
    BY <1>1, <1>2, Zenon DEF LookupItems
  <1>3. CASE q.mA /\ ~Compare(q.a, q.b) /\ q.mB
    BY <1>1, <1>3, Zenon DEF LookupItems
  <1>4. CASE q.mA /\ ~Compare(q.a, q.b) /\ ~q.mB
    BY <1>1, <1>4, Zenon DEF LookupItems
  <1>5. CASE ~q.mA /\ Compare(q.a, q.b)
    BY <1>1, <1>5, Zenon DEF LookupItems
  <1>6. CASE ~q.mA /\ ~Compare(q.a, q.b) /\ q.mB
    BY <1>1, <1>6, Zenon DEF LookupItems
  <1>7. CASE ~q.mA /\ ~Compare(q.a, q.b) /\ ~q.mB
    BY <1>1, <1>7, Zenon DEF LookupItems
  <1> QED
    BY <1>2, <1>3, <1>4, <1>5, <1>6, <1>7

\* The six cases fetch only what was computed.
LEMMA Matched == ASSUME NEW q \in Queries PROVE Lookup(q).pair \in MatchPairs
  <1>1. CASE q.sheet
    <2>1. Lookup(q).pair = Pair(q.a, q.b, q.rB, q.mB, TRUE)
      BY <1>1 DEF Lookup, LookupSheet, Answer
    <2> QED
      BY <1>1, <2>1, SheetQuery, InMatchPairs
  <1>2. CASE ~q.sheet
    <2>1. PICK n \in Nat \ {0} : n = Count[q.b] /\ n = Count[q.a]
      BY <1>2, ItemQuery
    <2>2. PICK ab \in 0..(n - 1), ba \in 0..(n - 1) :
             ab = Wrap(q.rA - q.rB, n) /\ ba = Wrap(q.rB - q.rA, n)
      BY <1>2, <2>1, ItemQuery, WrapRange
    <2>3. /\ q.a \in Item /\ q.b \in Item /\ q.mA \in BOOLEAN /\ q.mB \in BOOLEAN
          /\ q.mA \/ q.mB => MirrorCount[q.a] = Count[q.a] /\ MirrorCount[q.b] = Count[q.b]
      BY <1>2, ItemQuery
    <2>4. Compare(q.a, q.b) \/ Compare(q.b, q.a)
      <3>1. q.a \in Nat /\ q.b \in Nat
        BY <2>3, CountAssumption
      <3> QED
        BY <3>1 DEF Compare
    <2>5. \A r \in {ab, ba}, m \in BOOLEAN : (m => q.mA \/ q.mB) =>
             /\ Compare(q.a, q.b) => Pair(q.a, q.b, r, m, FALSE) \in MatchPairs
             /\ ~Compare(q.a, q.b) => Pair(q.b, q.a, r, m, FALSE) \in MatchPairs
      <3>1. SUFFICES ASSUME NEW r \in {ab, ba}, NEW m \in BOOLEAN, m => q.mA \/ q.mB
                     PROVE  /\ Compare(q.a, q.b) => Pair(q.a, q.b, r, m, FALSE) \in MatchPairs
                            /\ ~Compare(q.a, q.b) => Pair(q.b, q.a, r, m, FALSE) \in MatchPairs
        OBVIOUS
      <3>2. /\ r \in 0..(Count[q.a] - 1) /\ r \in 0..(Count[q.b] - 1)
            /\ m => MirrorCount[q.a] = Count[q.a] /\ MirrorCount[q.b] = Count[q.b]
        BY <2>1, <2>2, <2>3, <3>1
      <3> QED
        BY <2>3, <2>4, <3>2, InMatchPairs
    <2>6. CASE q.mA /\ Compare(q.a, q.b)
      <3>1. Lookup(q) = Answer(Pair(q.a, q.b, ab, ~q.mB, FALSE), TRUE, 2 * q.rA)
        BY <1>2, <2>1, <2>2, <2>3, <2>6, SixCases
      <3>2. Lookup(q).pair = Pair(q.a, q.b, ab, ~q.mB, FALSE)
        BY <3>1 DEF Answer
      <3>3. Pair(q.a, q.b, ab, ~q.mB, FALSE) \in MatchPairs
        BY <2>3, <2>5, <2>6
      <3> QED
        BY <3>2, <3>3
    <2>7. CASE q.mA /\ ~Compare(q.a, q.b) /\ q.mB
      <3>1. Lookup(q) = Answer(Pair(q.b, q.a, ba, FALSE, FALSE), TRUE, 2 * q.rB - n)
        BY <1>2, <2>1, <2>2, <2>3, <2>7, SixCases
      <3>2. Lookup(q).pair = Pair(q.b, q.a, ba, FALSE, FALSE)
        BY <3>1 DEF Answer
      <3>3. Pair(q.b, q.a, ba, FALSE, FALSE) \in MatchPairs
        BY <2>3, <2>5, <2>7
      <3> QED
        BY <3>2, <3>3
    <2>8. CASE q.mA /\ ~Compare(q.a, q.b) /\ ~q.mB
      <3>1. Lookup(q) = Answer(Pair(q.b, q.a, ab, TRUE, FALSE), FALSE, 2 * q.rB - n)
        BY <1>2, <2>1, <2>2, <2>3, <2>8, SixCases
      <3>2. Lookup(q).pair = Pair(q.b, q.a, ab, TRUE, FALSE)
        BY <3>1 DEF Answer
      <3>3. Pair(q.b, q.a, ab, TRUE, FALSE) \in MatchPairs
        BY <2>3, <2>5, <2>8
      <3> QED
        BY <3>2, <3>3
    <2>9. CASE ~q.mA /\ Compare(q.a, q.b)
      <3>1. Lookup(q) = Answer(Pair(q.a, q.b, ba, q.mB, FALSE), FALSE, 2 * q.rA)
        BY <1>2, <2>1, <2>2, <2>3, <2>9, SixCases
      <3>2. Lookup(q).pair = Pair(q.a, q.b, ba, q.mB, FALSE)
        BY <3>1 DEF Answer
      <3>3. Pair(q.a, q.b, ba, q.mB, FALSE) \in MatchPairs
        BY <2>3, <2>5, <2>9
      <3> QED
        BY <3>2, <3>3
    <2>10. CASE ~q.mA /\ ~Compare(q.a, q.b) /\ q.mB
      <3>1. Lookup(q) = Answer(Pair(q.b, q.a, ba, TRUE, FALSE), TRUE, 2 * q.rB - n)
        BY <1>2, <2>1, <2>2, <2>3, <2>10, SixCases
      <3>2. Lookup(q).pair = Pair(q.b, q.a, ba, TRUE, FALSE)
        BY <3>1 DEF Answer
      <3>3. Pair(q.b, q.a, ba, TRUE, FALSE) \in MatchPairs
        BY <2>3, <2>5, <2>10
      <3> QED
        BY <3>2, <3>3
    <2>11. CASE ~q.mA /\ ~Compare(q.a, q.b) /\ ~q.mB
      <3>1. Lookup(q) = Answer(Pair(q.b, q.a, ab, FALSE, FALSE), FALSE, 2 * q.rB - n)
        BY <1>2, <2>1, <2>2, <2>3, <2>11, SixCases
      <3>2. Lookup(q).pair = Pair(q.b, q.a, ab, FALSE, FALSE)
        BY <3>1 DEF Answer
      <3>3. Pair(q.b, q.a, ab, FALSE, FALSE) \in MatchPairs
        BY <2>3, <2>5, <2>11
      <3> QED
        BY <3>2, <3>3
    <2> QED
      BY <2>6, <2>7, <2>8, <2>9, <2>10, <2>11
  <1> QED
    BY <1>1, <1>2

(***************************************************************************)
(* The key                                                                 *)
(***************************************************************************)

\* The five fields of a key, told by their ranges of bits.
LEMMA KeyFields ==
    ASSUME NEW p \in PairType
    PROVE  /\ {j \in PairKey(p) : j \in 0..15} = Bits(p.A)
           /\ {j \in PairKey(p) : j \in 16..31} = Shl(Bits(p.B), 16)
           /\ {j \in PairKey(p) : j \in 32..47} = Shl(Bits(p.rotateIndex), 32)
           /\ 49 \in PairKey(p) <=> p.isMirror
           /\ 50 \in PairKey(p) <=> p.AisSheet
  <1>1. PICK u \in SUBSET (0..15) : u = Bits(p.A)
    BY DEF Bits
  <1>2. PICK v \in SUBSET (0..15) : v = Bits(p.B)
    BY DEF Bits
  <1>3. PICK w \in SUBSET (0..15) : w = Bits(p.rotateIndex)
    BY DEF Bits
  <1>4. p.isMirror \in BOOLEAN /\ p.AisSheet \in BOOLEAN
    BY DEF PairType
  <1>5. \A j : j \in Shl(v, 16) <=> \E k \in v : j = k + 16
    BY DEF Shl
  <1>6. \A j : j \in Shl(w, 32) <=> \E k \in w : j = k + 32
    BY DEF Shl
  <1>7. /\ \A j : j \in Shl(Bit(p.isMirror), 49) <=> p.isMirror /\ j = 49
        /\ \A j : j \in Shl(Bit(p.AisSheet), 50) <=> p.AisSheet /\ j = 50
    BY <1>4 DEF Shl, Bit
  <1>8. \A j : j \in PairKey(p) <=>
           \/ j \in u
           \/ j \in Shl(v, 16)
           \/ j \in Shl(w, 32)
           \/ p.isMirror /\ j = 49
           \/ p.AisSheet /\ j = 50
    BY <1>1, <1>2, <1>3, <1>7 DEF PairKey
  <1>9. {j \in PairKey(p) : j \in 0..15} = u
    BY <1>1, <1>2, <1>3, <1>5, <1>6, <1>8
  <1>10. {j \in PairKey(p) : j \in 16..31} = Shl(v, 16)
    BY <1>1, <1>2, <1>3, <1>5, <1>6, <1>8
  <1>11. {j \in PairKey(p) : j \in 32..47} = Shl(w, 32)
    BY <1>1, <1>2, <1>3, <1>5, <1>6, <1>8
  <1>12. 49 \in PairKey(p) <=> p.isMirror
    BY <1>1, <1>2, <1>3, <1>5, <1>6, <1>8
  <1>13. 50 \in PairKey(p) <=> p.AisSheet
    BY <1>1, <1>2, <1>3, <1>5, <1>6, <1>8
  <1> QED
    BY <1>1, <1>2, <1>3, <1>9, <1>10, <1>11, <1>12, <1>13

\* Shifting loses nothing.
LEMMA ShlInjective ==
    ASSUME NEW v \in SUBSET (0..15), NEW w \in SUBSET (0..15), NEW k \in Nat,
           Shl(v, k) = Shl(w, k)
    PROVE  v = w
  <1>1. \A j \in 0..15 : j \in v <=> j + k \in Shl(v, k)
    BY DEF Shl
  <1>2. \A j \in 0..15 : j \in w <=> j + k \in Shl(w, k)
    BY DEF Shl
  <1> QED
    BY <1>1, <1>2

\* Two pairs with the same key are the same pair.
LEMMA KeyInjective ==
    ASSUME NEW p \in PairType, NEW q \in PairType, PairKey(p) = PairKey(q)
    PROVE  p = q
  <1>1. /\ p.A \in Field /\ p.B \in Field /\ p.rotateIndex \in Field
        /\ q.A \in Field /\ q.B \in Field /\ q.rotateIndex \in Field
    BY DEF PairType, Field
  <1>2. /\ Bits(p.A) = Bits(q.A)
        /\ Shl(Bits(p.B), 16) = Shl(Bits(q.B), 16)
        /\ Shl(Bits(p.rotateIndex), 32) = Shl(Bits(q.rotateIndex), 32)
        /\ p.isMirror <=> q.isMirror
        /\ p.AisSheet <=> q.AisSheet
    BY KeyFields
  <1>3. \A k : Bits(k) \in SUBSET (0..15)
    BY DEF Bits
  <1>4. p.A = q.A /\ p.B = q.B /\ p.rotateIndex = q.rotateIndex
    BY <1>1, <1>2, <1>3, ShlInjective, FieldAssumption
  <1>5. p.isMirror = q.isMirror /\ p.AisSheet = q.AisSheet
    BY <1>2 DEF PairType
  <1> QED
    BY <1>4, <1>5 DEF PairType

\* LookupIsRight, part by part.
LEMMA RightParts ==
    ASSUME Lookup(query).pair.A = Reference(query).A,
           Lookup(query).pair.B = Reference(query).B,
           Lookup(query).pair.isMirror = Reference(query).relative.mirror,
           SameTurn(2 * Lookup(query).pair.rotateIndex,
                    Reference(query).relative.turn, Count[query.b]),
           Lookup(query).mirror = Reference(query).outer.mirror,
           SameTurn(Lookup(query).turn, Reference(query).outer.turn, Count[query.b])
    PROVE  LookupIsRight
  BY DEF LookupIsRight, SameOrientation, Orientation

\* The reference for a pair in order and for one out of order.
LEMMA ReferenceInOrder ==
    ASSUME NEW q, q.sheet \/ Compare(q.a, q.b), q.rA \in Int, q.rB \in Int,
           q.mA \in BOOLEAN, q.mB \in BOOLEAN
    PROVE  /\ Reference(q).A = q.a /\ Reference(q).B = q.b
           /\ Reference(q).outer.turn = 2 * q.rA /\ Reference(q).outer.mirror = q.mA
           /\ q.mA => /\ Reference(q).relative.turn = 2 * q.rA - 2 * q.rB
                      /\ Reference(q).relative.mirror = ~q.mB
           /\ ~q.mA => /\ Reference(q).relative.turn = 2 * q.rB - 2 * q.rA
                       /\ Reference(q).relative.mirror = q.mB
  <1>1. PICK T : T = Orientation(2 * q.rA, q.mA)
    OBVIOUS
  <1>2. PICK U : U = Orientation(2 * q.rB, q.mB)
    OBVIOUS
  <1>3. /\ Reference(q).A = q.a /\ Reference(q).B = q.b
        /\ Reference(q).outer = T /\ Reference(q).relative = Compose(Inverse(T), U)
    BY <1>1, <1>2 DEF Reference
  <1>4. T.turn = 2 * q.rA /\ T.mirror = q.mA /\ U.turn = 2 * q.rB /\ U.mirror = q.mB
    BY <1>1, <1>2 DEF Orientation
  <1>5. CASE q.mA
    <2>1. Inverse(T).turn = 2 * q.rA /\ Inverse(T).mirror = TRUE
      BY <1>4, <1>5 DEF Inverse, Orientation
    <2>2. /\ Compose(Inverse(T), U).turn = 2 * q.rA - 2 * q.rB
          /\ Compose(Inverse(T), U).mirror = (TRUE # q.mB)
      BY <1>4, <2>1 DEF Compose, Orientation
    <2>3. (TRUE # q.mB) = ~q.mB
      OBVIOUS
    <2> QED
      BY <1>3, <1>4, <1>5, <2>2, <2>3, Zenon
  <1>6. CASE ~q.mA
    <2>1. Inverse(T).turn = -(2 * q.rA) /\ Inverse(T).mirror = FALSE
      BY <1>4, <1>6 DEF Inverse, Orientation
    <2>2. /\ Compose(Inverse(T), U).turn = -(2 * q.rA) + 2 * q.rB
          /\ Compose(Inverse(T), U).mirror = (FALSE # q.mB)
      BY <1>4, <2>1 DEF Compose, Orientation
    <2>3. (FALSE # q.mB) = q.mB
      OBVIOUS
    <2>4. -(2 * q.rA) + 2 * q.rB = 2 * q.rB - 2 * q.rA
      OBVIOUS
    <2> QED
      BY <1>3, <1>4, <1>6, <2>2, <2>3, <2>4, Zenon
  <1> QED
    BY <1>5, <1>6

LEMMA ReferenceOutOfOrder ==
    ASSUME NEW q, ~q.sheet, ~Compare(q.a, q.b), q.rA \in Int, q.rB \in Int,
           q.mA \in BOOLEAN, q.mB \in BOOLEAN, NEW n \in Int, n = Count[q.b]
    PROVE  /\ Reference(q).A = q.b /\ Reference(q).B = q.a
           /\ Reference(q).outer.turn = n + 2 * q.rB /\ Reference(q).outer.mirror = q.mB
           /\ q.mB => /\ Reference(q).relative.turn = 2 * q.rB - 2 * q.rA
                      /\ Reference(q).relative.mirror = ~q.mA
           /\ ~q.mB => /\ Reference(q).relative.turn = 2 * q.rA - 2 * q.rB
                       /\ Reference(q).relative.mirror = q.mA
  <1>1. PICK T : T = Orientation(2 * q.rA, q.mA)
    OBVIOUS
  <1>2. PICK U : U = Orientation(2 * q.rB, q.mB)
    OBVIOUS
  <1>3. /\ Reference(q).A = q.b /\ Reference(q).B = q.a
        /\ Reference(q).outer = Compose(Orientation(n, FALSE), U)
        /\ Reference(q).relative = Compose(Inverse(U), T)
    BY <1>1, <1>2 DEF Reference
  <1>4. T.turn = 2 * q.rA /\ T.mirror = q.mA /\ U.turn = 2 * q.rB /\ U.mirror = q.mB
    BY <1>1, <1>2 DEF Orientation
  <1>5. /\ Compose(Orientation(n, FALSE), U).turn = n + 2 * q.rB
        /\ Compose(Orientation(n, FALSE), U).mirror = q.mB
    BY <1>4 DEF Compose, Orientation
  <1>6. CASE q.mB
    <2>1. Inverse(U).turn = 2 * q.rB /\ Inverse(U).mirror = TRUE
      BY <1>4, <1>6 DEF Inverse, Orientation
    <2>2. /\ Compose(Inverse(U), T).turn = 2 * q.rB - 2 * q.rA
          /\ Compose(Inverse(U), T).mirror = (TRUE # q.mA)
      BY <1>4, <2>1 DEF Compose, Orientation
    <2>3. (TRUE # q.mA) = ~q.mA
      OBVIOUS
    <2> QED
      BY <1>3, <1>5, <1>6, <2>2, <2>3, Zenon
  <1>7. CASE ~q.mB
    <2>1. Inverse(U).turn = -(2 * q.rB) /\ Inverse(U).mirror = FALSE
      BY <1>4, <1>7 DEF Inverse, Orientation
    <2>2. /\ Compose(Inverse(U), T).turn = -(2 * q.rB) + 2 * q.rA
          /\ Compose(Inverse(U), T).mirror = (FALSE # q.mA)
      BY <1>4, <2>1 DEF Compose, Orientation
    <2>3. (FALSE # q.mA) = q.mA
      OBVIOUS
    <2>4. -(2 * q.rB) + 2 * q.rA = 2 * q.rA - 2 * q.rB
      OBVIOUS
    <2> QED
      BY <1>3, <1>5, <1>7, <2>2, <2>3, <2>4, Zenon
  <1> QED
    BY <1>6, <1>7

\* Wrapping adds a full turn or nothing; the half turn back is the half turn on.
LEMMA Turns ==
    ASSUME NEW n \in Nat \ {0}, NEW r \in 0..(n - 1), NEW s \in 0..(n - 1)
    PROVE  /\ SameTurn(2 * Wrap(r - s, n), 2 * r - 2 * s, n)
           /\ SameTurn(2 * r, 2 * r, n)
           /\ SameTurn(2 * r - n, n + 2 * r, n)
  <1>1. 2 * Wrap(r - s, n) - (2 * r - 2 * s) \in {0, 2 * n}
    BY DEF Wrap
  <1>2. 2 * r - 2 * r = 0 /\ (2 * r - n) - (n + 2 * r) = -2 * n
    OBVIOUS
  <1> QED
    BY <1>1, <1>2 DEF SameTurn

\* The six cases, and the sheet.
LEMMA Right == ASSUME query \in Queries PROVE LookupIsRight
  <1>1. CASE query.sheet
    <2>1. /\ query.rA = 0 /\ query.mA = FALSE /\ query.mB \in BOOLEAN
          /\ query.rB \in 0..(Count[query.b] - 1) /\ Count[query.b] \in Nat \ {0}
      BY <1>1, SheetQuery
    <2>2. Lookup(query) = Answer(Pair(query.a, query.b, query.rB, query.mB, TRUE), FALSE, 0)
      BY <1>1 DEF Lookup, LookupSheet
    <2>3. /\ Lookup(query).pair.A = query.a /\ Lookup(query).pair.B = query.b
          /\ Lookup(query).pair.rotateIndex = query.rB /\ Lookup(query).pair.isMirror = query.mB
          /\ Lookup(query).turn = 0 /\ Lookup(query).mirror = FALSE
      BY <2>2 DEF Answer, Pair
    <2>4. /\ Reference(query).A = query.a /\ Reference(query).B = query.b
          /\ Reference(query).outer.turn = 2 * query.rA
          /\ Reference(query).outer.mirror = FALSE
          /\ Reference(query).relative.turn = 2 * query.rB - 2 * query.rA
          /\ Reference(query).relative.mirror = query.mB
      <3>1. /\ query.rA \in Int /\ query.rB \in Int
            /\ query.mA \in BOOLEAN
        <4>1. query.rA \in Int /\ query.rB \in Int
          BY <2>1
        <4>2. query.mA \in BOOLEAN
          BY <2>1, Zenon
        <4> QED
          BY <4>1, <4>2
      <3>2. /\ Reference(query).A = query.a /\ Reference(query).B = query.b
            /\ Reference(query).outer.turn = 2 * query.rA
            /\ Reference(query).outer.mirror = query.mA
            /\ ~query.mA => /\ Reference(query).relative.turn = 2 * query.rB - 2 * query.rA
                            /\ Reference(query).relative.mirror = query.mB
        BY <1>1, <2>1, <3>1, ReferenceInOrder
      <3> QED
        BY <2>1, <3>2, Zenon
    <2>5. /\ SameTurn(2 * query.rB, 2 * query.rB - 2 * query.rA, Count[query.b])
          /\ SameTurn(0, 2 * query.rA, Count[query.b])
      BY <2>1 DEF SameTurn
    <2> QED
      BY <2>3, <2>4, <2>5, RightParts
  <1>2. CASE ~query.sheet
    <2>1. PICK n \in Nat \ {0} : n = Count[query.b]
      BY <1>2, ItemQuery
    <2>2. PICK ab, ba : ab = Wrap(query.rA - query.rB, n) /\ ba = Wrap(query.rB - query.rA, n)
      OBVIOUS
    <2>3. /\ query.rA \in 0..(n - 1) /\ query.rB \in 0..(n - 1)
          /\ query.mA \in BOOLEAN /\ query.mB \in BOOLEAN
      BY <1>2, <2>1, ItemQuery
    <2>4. /\ SameTurn(2 * ab, 2 * query.rA - 2 * query.rB, Count[query.b])
          /\ SameTurn(2 * ba, 2 * query.rB - 2 * query.rA, Count[query.b])
          /\ SameTurn(2 * query.rA, 2 * query.rA, Count[query.b])
          /\ SameTurn(2 * query.rB - n, n + 2 * query.rB, Count[query.b])
      BY <2>1, <2>2, <2>3, Turns
    <2>5. CASE Compare(query.a, query.b)
      <3>1. /\ Reference(query).A = query.a /\ Reference(query).B = query.b
            /\ Reference(query).outer.turn = 2 * query.rA
            /\ Reference(query).outer.mirror = query.mA
            /\ query.mA => /\ Reference(query).relative.turn = 2 * query.rA - 2 * query.rB
                           /\ Reference(query).relative.mirror = ~query.mB
            /\ ~query.mA => /\ Reference(query).relative.turn = 2 * query.rB - 2 * query.rA
                            /\ Reference(query).relative.mirror = query.mB
        BY <2>3, <2>5, ReferenceInOrder
      <3>2. CASE query.mA
        <4>1. Lookup(query) = Answer(Pair(query.a, query.b, ab, ~query.mB, FALSE), TRUE, 2 * query.rA)
          BY <1>2, <2>1, <2>2, <2>3, <2>5, <3>2, SixCases
        <4>2. /\ Lookup(query).pair.A = query.a /\ Lookup(query).pair.B = query.b
              /\ Lookup(query).pair.rotateIndex = ab
              /\ Lookup(query).pair.isMirror = ~query.mB
              /\ Lookup(query).turn = 2 * query.rA
              /\ Lookup(query).mirror = TRUE
          BY <4>1 DEF Answer, Pair
        <4>3. /\ Reference(query).relative.mirror = (~query.mB)
              /\ Reference(query).outer.mirror = TRUE
          BY <2>3, <3>1, <3>2
        <4> QED
          BY <2>4, <3>1, <3>2, <4>2, <4>3, RightParts
      <3>3. CASE ~query.mA
        <4>1. Lookup(query) = Answer(Pair(query.a, query.b, ba, query.mB, FALSE), FALSE, 2 * query.rA)
          BY <1>2, <2>1, <2>2, <2>3, <2>5, <3>3, SixCases
        <4>2. /\ Lookup(query).pair.A = query.a /\ Lookup(query).pair.B = query.b
              /\ Lookup(query).pair.rotateIndex = ba
              /\ Lookup(query).pair.isMirror = query.mB
              /\ Lookup(query).turn = 2 * query.rA
              /\ Lookup(query).mirror = FALSE
          BY <4>1 DEF Answer, Pair
        <4>3. /\ Reference(query).relative.mirror = query.mB
              /\ Reference(query).outer.mirror = FALSE
          BY <2>3, <3>1, <3>3
        <4> QED
          BY <2>4, <3>1, <3>3, <4>2, <4>3, RightParts
      <3> QED
        BY <3>2, <3>3
    <2>6. CASE ~Compare(query.a, query.b)
      <3>1. /\ Reference(query).A = query.b /\ Reference(query).B = query.a
            /\ Reference(query).outer.turn = n + 2 * query.rB
            /\ Reference(query).outer.mirror = query.mB
            /\ query.mB => /\ Reference(query).relative.turn = 2 * query.rB - 2 * query.rA
                           /\ Reference(query).relative.mirror = ~query.mA
            /\ ~query.mB => /\ Reference(query).relative.turn = 2 * query.rA - 2 * query.rB
                            /\ Reference(query).relative.mirror = query.mA
        BY <1>2, <2>1, <2>3, <2>6, ReferenceOutOfOrder
      <3>2. CASE query.mA /\ query.mB
        <4>1. Lookup(query) = Answer(Pair(query.b, query.a, ba, FALSE, FALSE), TRUE, 2 * query.rB - n)
          BY <1>2, <2>1, <2>2, <2>3, <2>6, <3>2, SixCases
        <4>2. /\ Lookup(query).pair.A = query.b /\ Lookup(query).pair.B = query.a
              /\ Lookup(query).pair.rotateIndex = ba
              /\ Lookup(query).pair.isMirror = FALSE
              /\ Lookup(query).turn = 2 * query.rB - n
              /\ Lookup(query).mirror = TRUE
          BY <4>1 DEF Answer, Pair
        <4>3. /\ Reference(query).relative.mirror = FALSE
              /\ Reference(query).outer.mirror = TRUE
          BY <2>3, <3>1, <3>2
        <4> QED
          BY <2>4, <3>1, <3>2, <4>2, <4>3, RightParts
      <3>3. CASE query.mA /\ ~query.mB
        <4>1. Lookup(query) = Answer(Pair(query.b, query.a, ab, TRUE, FALSE), FALSE, 2 * query.rB - n)
          BY <1>2, <2>1, <2>2, <2>3, <2>6, <3>3, SixCases
        <4>2. /\ Lookup(query).pair.A = query.b /\ Lookup(query).pair.B = query.a
              /\ Lookup(query).pair.rotateIndex = ab
              /\ Lookup(query).pair.isMirror = TRUE
              /\ Lookup(query).turn = 2 * query.rB - n
              /\ Lookup(query).mirror = FALSE
          BY <4>1 DEF Answer, Pair
        <4>3. /\ Reference(query).relative.mirror = TRUE
              /\ Reference(query).outer.mirror = FALSE
          BY <2>3, <3>1, <3>3
        <4> QED
          BY <2>4, <3>1, <3>3, <4>2, <4>3, RightParts
      <3>4. CASE ~query.mA /\ query.mB
        <4>1. Lookup(query) = Answer(Pair(query.b, query.a, ba, TRUE, FALSE), TRUE, 2 * query.rB - n)
          BY <1>2, <2>1, <2>2, <2>3, <2>6, <3>4, SixCases
        <4>2. /\ Lookup(query).pair.A = query.b /\ Lookup(query).pair.B = query.a
              /\ Lookup(query).pair.rotateIndex = ba
              /\ Lookup(query).pair.isMirror = TRUE
              /\ Lookup(query).turn = 2 * query.rB - n
              /\ Lookup(query).mirror = TRUE
          BY <4>1 DEF Answer, Pair
        <4>3. /\ Reference(query).relative.mirror = TRUE
              /\ Reference(query).outer.mirror = TRUE
          BY <2>3, <3>1, <3>4
        <4> QED
          BY <2>4, <3>1, <3>4, <4>2, <4>3, RightParts
      <3>5. CASE ~query.mA /\ ~query.mB
        <4>1. Lookup(query) = Answer(Pair(query.b, query.a, ab, FALSE, FALSE), FALSE, 2 * query.rB - n)
          BY <1>2, <2>1, <2>2, <2>3, <2>6, <3>5, SixCases
        <4>2. /\ Lookup(query).pair.A = query.b /\ Lookup(query).pair.B = query.a
              /\ Lookup(query).pair.rotateIndex = ab
              /\ Lookup(query).pair.isMirror = FALSE
              /\ Lookup(query).turn = 2 * query.rB - n
              /\ Lookup(query).mirror = FALSE
          BY <4>1 DEF Answer, Pair
        <4>3. /\ Reference(query).relative.mirror = FALSE
              /\ Reference(query).outer.mirror = FALSE
          BY <2>3, <3>1, <3>5
        <4> QED
          BY <2>4, <3>1, <3>5, <4>2, <4>3, RightParts
      <3> QED
        BY <2>3, <3>2, <3>3, <3>4, <3>5
    <2> QED
      BY <2>5, <2>6
  <1> QED
    BY <1>1, <1>2

\* The question is always one that a caller may ask.
LEMMA AlwaysAQuery == Spec => []TypeOK
  <1>1. Init => TypeOK
    BY DEF Init, TypeOK
  <1>2. TypeOK /\ [Next]_query => TypeOK'
    BY DEF TypeOK, Next, Ask
  <1> QED
    BY <1>1, <1>2, PTL DEF Spec

\* For any number of rotations and any ids, the six cases of readItemAndItemNfp
\* only fetch what CreatePair has listed (nfpcache.cpp:17-82, 141-388).
THEOREM LookupStaysMatched == Spec => []LookupIsMatched
  <1>1. TypeOK => LookupIsMatched
    BY Matched DEF TypeOK, LookupIsMatched
  <1> QED
    BY <1>1, AlwaysAQuery, PTL

\* And what they do to the entry makes it the polygon that was asked for.
THEOREM LookupStaysRight == Spec => []LookupIsRight
  <1>1. TypeOK => LookupIsRight
    BY Right DEF TypeOK
  <1> QED
    BY <1>1, AlwaysAQuery, PTL

\* getPairKey gives no two computed pairs one key (nfpcache.cpp:84-91).
THEOREM KeyStaysUnique == Spec => []KeyIsUnique
  <1>1. TypeOK => KeyIsUnique
    <2>1. MatchPairs \subseteq PairType
      BY DEF MatchPairs
    <2>2. TypeOK => Lookup(query).pair \in MatchPairs
      BY Matched DEF TypeOK
    <2> QED
      BY <2>1, <2>2, KeyInjective DEF KeyIsUnique
  <1> QED
    BY <1>1, AlwaysAQuery, PTL

-----------------------------------------------------------------------------
(* The geometry of quarter turns. *)

LEMMA QuarterFacts ==
    ASSUME NEW j \in 0..3, NEW k \in 0..3, NEW p \in Int \X Int
    PROVE  /\ Quarters(k, p) \in Int \X Int
           /\ Quarters(j, Quarters(k, p)) = Quarters((j + k) % 4, p)
  <1>1. PICK x, y : x \in Int /\ y \in Int /\ p = <<x, y>>
    OBVIOUS
  <1>2. /\ Quarters(0, p) = <<x, y>> /\ Quarters(1, p) = <<-y, x>>
        /\ Quarters(2, p) = <<-x, -y>> /\ Quarters(3, p) = <<y, -x>>
    BY <1>1 DEF Quarters
  <1>3. /\ Quarters(0, <<x, y>>) = <<x, y>> /\ Quarters(0, <<-y, x>>) = <<-y, x>>
        /\ Quarters(0, <<-x, -y>>) = <<-x, -y>> /\ Quarters(0, <<y, -x>>) = <<y, -x>>
    BY DEF Quarters
  <1>4. /\ Quarters(1, <<x, y>>) = <<-y, x>> /\ Quarters(1, <<-y, x>>) = <<-x, -y>>
        /\ Quarters(1, <<-x, -y>>) = <<y, -x>> /\ Quarters(1, <<y, -x>>) = <<x, y>>
    BY <1>1 DEF Quarters
  <1>5. /\ Quarters(2, <<x, y>>) = <<-x, -y>> /\ Quarters(2, <<-y, x>>) = <<y, -x>>
        /\ Quarters(2, <<-x, -y>>) = <<x, y>> /\ Quarters(2, <<y, -x>>) = <<-y, x>>
    BY <1>1 DEF Quarters
  <1>6. /\ Quarters(3, <<x, y>>) = <<y, -x>> /\ Quarters(3, <<-y, x>>) = <<x, y>>
        /\ Quarters(3, <<-x, -y>>) = <<-y, x>> /\ Quarters(3, <<y, -x>>) = <<-x, -y>>
    BY <1>1 DEF Quarters
  <1>7. k \in {0, 1, 2, 3} /\ j \in {0, 1, 2, 3}
    OBVIOUS
  <1>8. /\ 0 % 4 = 0 /\ 1 % 4 = 1 /\ 2 % 4 = 2 /\ 3 % 4 = 3 /\ 4 % 4 = 0 /\ 5 % 4 = 1 /\ 6 % 4 = 2
        /\ 0 + 0 = 0 /\ 0 + 1 = 1 /\ 0 + 2 = 2 /\ 0 + 3 = 3
        /\ 1 + 0 = 1 /\ 1 + 1 = 2 /\ 1 + 2 = 3 /\ 1 + 3 = 4
        /\ 2 + 0 = 2 /\ 2 + 1 = 3 /\ 2 + 2 = 4 /\ 2 + 3 = 5
        /\ 3 + 0 = 3 /\ 3 + 1 = 4 /\ 3 + 2 = 5 /\ 3 + 3 = 6
    OBVIOUS
  <1>9. Quarters(k, p) \in Int \X Int
    BY <1>1, <1>2, <1>7
  <1>10. Quarters(j, Quarters(k, p)) = Quarters((j + k) % 4, p)
    <2>1. CASE k = 0
      BY <1>1, <1>2, <1>3, <1>4, <1>5, <1>6, <1>7, <1>8, <2>1
    <2>2. CASE k = 1
      BY <1>1, <1>2, <1>3, <1>4, <1>5, <1>6, <1>7, <1>8, <2>2
    <2>3. CASE k = 2
      BY <1>1, <1>2, <1>3, <1>4, <1>5, <1>6, <1>7, <1>8, <2>3
    <2>4. CASE k = 3
      BY <1>1, <1>2, <1>3, <1>4, <1>5, <1>6, <1>7, <1>8, <2>4
    <2> QED
      BY <1>7, <2>1, <2>2, <2>3, <2>4
  <1> QED
    BY <1>9, <1>10

\* A mirror reverses the turns before it.
LEMMA MirrorFacts ==
    ASSUME NEW k \in 0..3, NEW p \in Int \X Int
    PROVE  /\ Mirrored(p) \in Int \X Int /\ Mirrored(Mirrored(p)) = p
           /\ Mirrored(Quarters(k, p)) = Quarters((-k) % 4, Mirrored(p))
  <1>1. PICK x, y : x \in Int /\ y \in Int /\ p = <<x, y>>
    OBVIOUS
  <1>2. /\ Quarters(0, p) = <<x, y>> /\ Quarters(1, p) = <<-y, x>>
        /\ Quarters(2, p) = <<-x, -y>> /\ Quarters(3, p) = <<y, -x>>
    BY <1>1 DEF Quarters
  <1>3. Mirrored(p) = <<-x, y>> /\ Mirrored(p) \in Int \X Int /\ Mirrored(Mirrored(p)) = p
    BY <1>1 DEF Mirrored
  <1>4. /\ Quarters(0, <<-x, y>>) = <<-x, y>> /\ Quarters(1, <<-x, y>>) = <<-y, -x>>
        /\ Quarters(2, <<-x, y>>) = <<x, -y>> /\ Quarters(3, <<-x, y>>) = <<y, x>>
    BY <1>1 DEF Quarters
  <1>5. /\ Mirrored(<<x, y>>) = <<-x, y>> /\ Mirrored(<<-y, x>>) = <<y, x>>
        /\ Mirrored(<<-x, -y>>) = <<x, -y>> /\ Mirrored(<<y, -x>>) = <<-y, -x>>
    BY <1>1 DEF Mirrored
  <1>6. (k = 0 /\ (-k) % 4 = 0) \/ (k = 1 /\ (-k) % 4 = 3) \/ (k = 2 /\ (-k) % 4 = 2) \/ (k = 3 /\ (-k) % 4 = 1)
    OBVIOUS
  <1> QED
    BY <1>2, <1>3, <1>4, <1>5, <1>6

Even(t) == t % 2 = 0

\* One turn after another, and turns that are a full turn apart.
LEMMA TurnedTwice ==
    ASSUME NEW t \in Int, NEW u \in Int, Even(t), Even(u), NEW p \in Int \X Int
    PROVE  Turned(t, Turned(u, p)) = Turned(t + u, p)
  <1> PICK c : c = t + u
    OBVIOUS
  <1> PICK j, k, e : j = (t \div 2) % 4 /\ k = (u \div 2) % 4 /\ e = (c \div 2) % 4
    OBVIOUS
  <1>1. j \in 0..3 /\ k \in 0..3 /\ (j + k) % 4 = e
    BY DEF Even
  <1>2. Turned(u, p) = Quarters(k, p) /\ Turned(c, p) = Quarters(e, p)
    BY DEF Turned
  <1>3. Turned(t, Quarters(k, p)) = Quarters(j, Quarters(k, p))
    BY DEF Turned
  <1>4. Quarters(k, p) \in Int \X Int /\ Quarters(j, Quarters(k, p)) = Quarters((j + k) % 4, p)
    BY <1>1, QuarterFacts
  <1> QED
    BY <1>1, <1>2, <1>3, <1>4

LEMMA TurnedMirrored ==
    ASSUME NEW u \in Int, Even(u), NEW c \in Int, c = -u, NEW p \in Int \X Int
    PROVE  /\ Mirrored(p) \in Int \X Int /\ Mirrored(Mirrored(p)) = p
           /\ Mirrored(Turned(u, p)) = Turned(c, Mirrored(p))
  <1> PICK k, d : k = (u \div 2) % 4 /\ d = (c \div 2) % 4
    OBVIOUS
  <1>1. k \in 0..3 /\ (-k) % 4 = d
    BY DEF Even
  <1>2. Turned(u, p) = Quarters(k, p) /\ Turned(c, Mirrored(p)) = Quarters(d, Mirrored(p))
    BY DEF Turned
  <1>3. /\ Mirrored(p) \in Int \X Int /\ Mirrored(Mirrored(p)) = p
        /\ Mirrored(Quarters(k, p)) = Quarters((-k) % 4, Mirrored(p))
    BY <1>1, MirrorFacts
  <1> QED
    BY <1>1, <1>2, <1>3

LEMMA PlacedSame ==
    ASSUME NEW t \in Int, NEW u \in Int, SameTurn(t, u, 4), NEW m, NEW p
    PROVE  Placed(t, m, p) = Placed(u, m, p)
  <1>1. (t \div 2) % 4 = (u \div 2) % 4
    BY DEF SameTurn
  <1> QED
    BY <1>1 DEF Placed, Turned

LEMMA PlacedPoint ==
    ASSUME NEW t \in Int, NEW m \in BOOLEAN, NEW p \in Int \X Int
    PROVE  Placed(t, m, p) \in Int \X Int
  <1> PICK k, s : k = (t \div 2) % 4 /\ s = (IF m THEN Mirrored(p) ELSE p)
    OBVIOUS
  <1>1. k \in 0..3
    OBVIOUS
  <1>2. s \in Int \X Int
    BY <1>1, MirrorFacts
  <1>3. Placed(t, m, p) = Quarters(k, s)
    BY DEF Placed, Turned
  <1> QED
    BY <1>1, <1>2, <1>3, QuarterFacts

\* The difference of two points is placed as they are.
LEMMA PlacedMinus ==
    ASSUME NEW t \in Int, NEW m \in BOOLEAN, NEW p \in Int \X Int, NEW q \in Int \X Int
    PROVE  Placed(t, m, Minus(p, q)) = Minus(Placed(t, m, p), Placed(t, m, q))
  <1>1. PICK x, y, u, v : x \in Int /\ y \in Int /\ p = <<x, y>> /\ u \in Int /\ v \in Int /\ q = <<u, v>>
    OBVIOUS
  <1> PICK k : k = (t \div 2) % 4
    OBVIOUS
  <1>2. k \in {0, 1, 2, 3}
    OBVIOUS
  <1>3. CASE k = 0
    BY <1>1, <1>3 DEF Placed, Turned, Mirrored, Quarters, Minus
  <1>4. CASE k = 1
    BY <1>1, <1>4 DEF Placed, Turned, Mirrored, Quarters, Minus
  <1>5. CASE k = 2
    BY <1>1, <1>5 DEF Placed, Turned, Mirrored, Quarters, Minus
  <1>6. CASE k = 3
    BY <1>1, <1>6 DEF Placed, Turned, Mirrored, Quarters, Minus
  <1> QED
    BY <1>2, <1>3, <1>4, <1>5, <1>6

\* A half turn exchanges what is subtracted from what.
LEMMA HalfTurn ==
    ASSUME NEW t \in Int, NEW u \in Int, Even(u), t = 4 + u, NEW l \in BOOLEAN,
           NEW p \in Int \X Int, NEW q \in Int \X Int
    PROVE  Placed(t, l, Minus(p, q)) = Minus(Placed(u, l, q), Placed(u, l, p))
  <1> PICK d, h : d = Minus(p, q) /\ h = 4
    OBVIOUS
  <1>1. d \in Int \X Int
    BY DEF Minus
  <1> PICK s : s = (IF l THEN Mirrored(d) ELSE d)
    OBVIOUS
  <1>2. s \in Int \X Int
    BY <1>1 DEF Mirrored
  <1>3. h \in Int /\ Even(h) /\ t = h + u
    BY DEF Even
  <1> PICK r : r = Turned(u, s)
    OBVIOUS
  <1>4. Turned(t, s) = Turned(h, r)
    BY <1>2, <1>3, TurnedTwice
  <1>5. Placed(t, l, d) = Turned(t, s) /\ Placed(u, l, d) = r
    BY DEF Placed
  <1>6. Turned(h, r) = <<-r[1], -r[2]>>
    <2>1. (h \div 2) % 4 = 2
      OBVIOUS
    <2> QED
      BY <2>1 DEF Turned, Quarters
  <1> PICK v, w : v = Placed(u, l, p) /\ w = Placed(u, l, q)
    OBVIOUS
  <1>7. v \in Int \X Int /\ w \in Int \X Int
    BY PlacedPoint
  <1>8. r = Minus(v, w)
    BY <1>5, PlacedMinus
  <1>9. <<-r[1], -r[2]>> = Minus(w, v)
    BY <1>7, <1>8 DEF Minus
  <1> QED
    BY <1>4, <1>5, <1>6, <1>9

\* What is turned back by one item's orientation and then by it is as the other one's.
LEMMA BackAndForth ==
    ASSUME NEW t \in Int, NEW u \in Int, Even(t), Even(u), NEW m \in BOOLEAN, NEW l \in BOOLEAN,
           NEW c \in Int, c = (IF m THEN t - u ELSE u - t),
           NEW k \in BOOLEAN, k <=> ~(m <=> l), NEW p \in Int \X Int
    PROVE  Placed(t, m, Placed(c, k, p)) = Placed(u, l, p)
  <1> PICK s, d : s = Mirrored(p) /\ d = -c
    OBVIOUS
  <1>1. Even(c) /\ d \in Int /\ Even(d)
    <2>1. CASE m
      BY <2>1 DEF Even
    <2>2. CASE ~m
      BY <2>2 DEF Even
    <2> QED
      BY <2>1, <2>2
  <1>2. /\ s \in Int \X Int /\ Mirrored(s) = p
        /\ Mirrored(Turned(c, p)) = Turned(d, s)
    BY <1>1, TurnedMirrored
  <1>3. Mirrored(Turned(c, s)) = Turned(d, p)
    BY <1>1, <1>2, TurnedMirrored
  <1>4. CASE m
    <2>1. u = t + d
      BY <1>4
    <2>2. Turned(t, Turned(d, p)) = Turned(u, p) /\ Turned(t, Turned(d, s)) = Turned(u, s)
      BY <1>1, <1>2, <2>1, TurnedTwice
    <2>3. CASE l
      <3>1. ~k
        BY <1>4, <2>3
      <3>2. Placed(t, m, Placed(c, k, p)) = Turned(t, Mirrored(Turned(c, p)))
        BY <1>4, <3>1 DEF Placed
      <3>3. Placed(u, l, p) = Turned(u, s)
        BY <2>3 DEF Placed
      <3> QED
        BY <1>2, <2>2, <3>2, <3>3
    <2>4. CASE ~l
      <3>1. k
        BY <1>4, <2>4
      <3>2. Placed(t, m, Placed(c, k, p)) = Turned(t, Mirrored(Turned(c, s)))
        BY <1>4, <3>1 DEF Placed
      <3>3. Placed(u, l, p) = Turned(u, p)
        BY <2>4 DEF Placed
      <3> QED
        BY <1>3, <2>2, <3>2, <3>3
    <2> QED
      BY <2>3, <2>4
  <1>5. CASE ~m
    <2>1. u = t + c
      BY <1>5
    <2>2. Turned(t, Turned(c, p)) = Turned(u, p) /\ Turned(t, Turned(c, s)) = Turned(u, s)
      BY <1>1, <1>2, <2>1, TurnedTwice
    <2>3. CASE l
      <3>1. k
        BY <1>5, <2>3
      <3>2. Placed(t, m, Placed(c, k, p)) = Turned(t, Turned(c, s))
        BY <1>5, <3>1 DEF Placed
      <3>3. Placed(u, l, p) = Turned(u, s)
        BY <2>3 DEF Placed
      <3> QED
        BY <2>2, <3>2, <3>3
    <2>4. CASE ~l
      <3>1. ~k
        BY <1>5, <2>4
      <3>2. Placed(t, m, Placed(c, k, p)) = Turned(t, Turned(c, p))
        BY <1>5, <3>1 DEF Placed
      <3>3. Placed(u, l, p) = Turned(u, p)
        BY <2>4 DEF Placed
      <3> QED
        BY <2>2, <3>2, <3>3
    <2> QED
      BY <2>3, <2>4
  <1> QED
    BY <1>4, <1>5

\* The differences of placed points, point by point.
LEMMA PointByPoint ==
    ASSUME NEW P, NEW R, NEW t, NEW n, NEW c, NEW k, NEW u, NEW m, NEW v, NEW l,
           \A p \in P : \A r \in R : Placed(t, n, Minus(p, Placed(c, k, r)))
                                         = Minus(Placed(u, m, p), Placed(v, l, r))
    PROVE  Place(NfpPoints(P, Place(R, c, k)), t, n) = NfpPoints(Place(P, u, m), Place(R, v, l))
  <1>1. \A z : z \in NfpPoints(Place(P, u, m), Place(R, v, l))
                  <=> \E p \in P : \E r \in R : z = Minus(Placed(u, m, p), Placed(v, l, r))
    BY DEF NfpPoints, Place
  <1>2. \A z : z \in Place(NfpPoints(P, Place(R, c, k)), t, n)
                  <=> \E p \in P : \E r \in R : z = Placed(t, n, Minus(p, Placed(c, k, r)))
    BY DEF NfpPoints, Place
  <1>3. \A z : z \in Place(NfpPoints(P, Place(R, c, k)), t, n)
                  <=> z \in NfpPoints(Place(P, u, m), Place(R, v, l))
    BY <1>1, <1>2
  <1> QED
    BY <1>3

\* The same with the second shape first.
LEMMA PointByPointBack ==
    ASSUME NEW P, NEW R, NEW t, NEW n, NEW c, NEW k, NEW u, NEW m, NEW v, NEW l,
           \A p \in P : \A r \in R : Placed(t, n, Minus(r, Placed(c, k, p)))
                                         = Minus(Placed(u, m, p), Placed(v, l, r))
    PROVE  Place(NfpPoints(R, Place(P, c, k)), t, n) = NfpPoints(Place(P, u, m), Place(R, v, l))
  <1>1. \A z : z \in NfpPoints(Place(P, u, m), Place(R, v, l))
                  <=> \E p \in P : \E r \in R : z = Minus(Placed(u, m, p), Placed(v, l, r))
    BY DEF NfpPoints, Place
  <1>2. \A z : z \in Place(NfpPoints(R, Place(P, c, k)), t, n)
                  <=> \E p \in P : \E r \in R : z = Placed(t, n, Minus(r, Placed(c, k, p)))
    BY DEF NfpPoints, Place
  <1>3. \A z : z \in Place(NfpPoints(R, Place(P, c, k)), t, n)
                  <=> z \in NfpPoints(Place(P, u, m), Place(R, v, l))
    BY <1>1, <1>2
  <1> QED
    BY <1>3

LEMMA DifferenceInOrder ==
    ASSUME NEW P \in SUBSET (Int \X Int), NEW R \in SUBSET (Int \X Int),
           NEW T \in Int, NEW U \in Int, Even(T), Even(U), NEW m \in BOOLEAN, NEW l \in BOOLEAN,
           NEW g \in Int, g = (IF m THEN T - U ELSE U - T), NEW k \in BOOLEAN, k <=> ~(m <=> l),
           NEW c \in Int, SameTurn(c, g, 4), NEW t \in Int, SameTurn(t, T, 4)
    PROVE  Place(NfpPoints(P, Place(R, c, k)), t, m) = NfpPoints(Place(P, T, m), Place(R, U, l))
  <1>1. ASSUME NEW p \in P, NEW r \in R
        PROVE  Placed(t, m, Minus(p, Placed(c, k, r))) = Minus(Placed(T, m, p), Placed(U, l, r))
    <2> PICK s : s = Placed(g, k, r)
      OBVIOUS
    <2>1. p \in Int \X Int /\ r \in Int \X Int
      OBVIOUS
    <2>2. s \in Int \X Int
      BY <2>1, PlacedPoint
    <2>3. Placed(c, k, r) = s
      BY PlacedSame
    <2>4. Placed(t, m, Minus(p, s)) = Placed(T, m, Minus(p, s))
      BY PlacedSame
    <2>5. Placed(T, m, Minus(p, s)) = Minus(Placed(T, m, p), Placed(T, m, s))
      BY <2>1, <2>2, PlacedMinus
    <2>6. Placed(T, m, s) = Placed(U, l, r)
      BY <2>1, BackAndForth
    <2> QED
      BY <2>3, <2>4, <2>5, <2>6
  <1> QED
    BY <1>1, PointByPoint

LEMMA DifferenceOutOfOrder ==
    ASSUME NEW P \in SUBSET (Int \X Int), NEW R \in SUBSET (Int \X Int),
           NEW T \in Int, NEW U \in Int, Even(T), Even(U), NEW m \in BOOLEAN, NEW l \in BOOLEAN,
           NEW g \in Int, g = (IF l THEN U - T ELSE T - U), NEW k \in BOOLEAN, k <=> ~(l <=> m),
           NEW c \in Int, SameTurn(c, g, 4), NEW h \in Int, h = 4 + U, NEW t \in Int, SameTurn(t, h, 4)
    PROVE  Place(NfpPoints(R, Place(P, c, k)), t, l) = NfpPoints(Place(P, T, m), Place(R, U, l))
  <1>1. ASSUME NEW p \in P, NEW r \in R
        PROVE  Placed(t, l, Minus(r, Placed(c, k, p))) = Minus(Placed(T, m, p), Placed(U, l, r))
    <2> PICK s : s = Placed(g, k, p)
      OBVIOUS
    <2>1. p \in Int \X Int /\ r \in Int \X Int
      OBVIOUS
    <2>2. s \in Int \X Int
      BY <2>1, PlacedPoint
    <2>3. Placed(c, k, p) = s
      BY PlacedSame
    <2>4. Placed(t, l, Minus(r, s)) = Placed(h, l, Minus(r, s))
      BY PlacedSame
    <2>5. Placed(h, l, Minus(r, s)) = Minus(Placed(U, l, s), Placed(U, l, r))
      BY <2>1, <2>2, HalfTurn
    <2>6. Placed(U, l, s) = Placed(T, m, p)
      BY <2>1, BackAndForth
    <2> QED
      BY <2>3, <2>4, <2>5, <2>6
  <1> QED
    BY <1>1, PointByPointBack

\* The turns that the six cases apply are whole half steps.
LEMMA WholeTurns ==
    ASSUME NEW q \in Queries, ~q.sheet
    PROVE  Lookup(q).turn \in Int /\ 2 * Lookup(q).pair.rotateIndex \in Int
  <1>1. /\ Count[q.b] \in Int /\ 2 * q.rA \in Int /\ 2 * q.rB - Count[q.b] \in Int
        /\ q.mA \in BOOLEAN /\ q.mB \in BOOLEAN
    <2>1. /\ Count[q.b] \in Nat \ {0} /\ q.rA \in 0..(Count[q.b] - 1) /\ q.rB \in 0..(Count[q.b] - 1)
          /\ q.mA \in BOOLEAN /\ q.mB \in BOOLEAN
      BY ItemQuery
    <2>2. q.rA \in Int /\ q.rB \in Int /\ Count[q.b] \in Int
      BY <2>1
    <2> QED
      BY <2>1, <2>2
  <1> PICK n, ab, ba : n = Count[q.b] /\ ab = Wrap(q.rA - q.rB, n) /\ ba = Wrap(q.rB - q.rA, n)
    OBVIOUS
  <1>2. Lookup(q).turn = 2 * q.rA \/ Lookup(q).turn = 2 * q.rB - n
    <2>1. \E p, m : \/ Lookup(q) = Answer(p, m, 2 * q.rA)
                    \/ Lookup(q) = Answer(p, m, 2 * q.rB - n)
      BY <1>1, SixCases, Zenon
    <2>2. \A p, m, t : Answer(p, m, t).turn = t
      BY DEF Answer
    <2> PICK p, m, t : Lookup(q) = Answer(p, m, t) /\ (t = 2 * q.rA \/ t = 2 * q.rB - n)
      BY <2>1
    <2>3. Lookup(q).turn = t
      BY <2>2
    <2> QED
      BY <2>3
  <1>3. Lookup(q).pair \in MatchPairs
    BY Matched
  <1>4. Lookup(q).pair.rotateIndex \in Indices
    BY <1>3 DEF MatchPairs, PairType
  <1>5. Lookup(q).pair.rotateIndex \in Int
    BY <1>4, CountAssumption DEF Indices
  <1> QED
    BY <1>1, <1>2, <1>5

LEMMA Difference == ASSUME query \in Queries PROVE LookupIsDifference
  <1> SUFFICES ASSUME ~query.sheet, Count[query.b] = 4
               PROVE  Place(NfpPoints(Shape[Lookup(query).pair.A],
                                      Place(Shape[Lookup(query).pair.B],
                                            2 * Lookup(query).pair.rotateIndex,
                                            Lookup(query).pair.isMirror)),
                            Lookup(query).turn, Lookup(query).mirror)
                         = NfpPoints(Place(Shape[query.a], 2 * query.rA, query.mA),
                                     Place(Shape[query.b], 2 * query.rB, query.mB))
    BY DEF LookupIsDifference
  <1> PICK P, R, T, U, m, l :
        /\ P = Shape[query.a] /\ R = Shape[query.b]
        /\ T = 2 * query.rA /\ U = 2 * query.rB /\ m = query.mA /\ l = query.mB
    OBVIOUS
  <1> PICK c, k, t, n :
        /\ c = 2 * Lookup(query).pair.rotateIndex /\ k = Lookup(query).pair.isMirror
        /\ t = Lookup(query).turn /\ n = Lookup(query).mirror
    OBVIOUS
  <1>1. /\ query.a \in Item /\ query.b \in Item /\ query.rA \in 0..3 /\ query.rB \in 0..3
        /\ m \in BOOLEAN /\ l \in BOOLEAN
    <2>1. /\ query.a \in Item /\ query.b \in Item
          /\ query.rA \in 0..(Count[query.b] - 1) /\ query.rB \in 0..(Count[query.b] - 1)
          /\ query.mA \in BOOLEAN /\ query.mB \in BOOLEAN
      BY ItemQuery
    <2>2. 0..(Count[query.b] - 1) = 0..3
      OBVIOUS
    <2> QED
      BY <2>1, <2>2, Zenon
  <1>2. query.rA \in Int /\ query.rB \in Int
    BY <1>1
  <1>3. T \in Int /\ U \in Int /\ Even(T) /\ Even(U)
    BY <1>2 DEF Even
  <1>4. P \in SUBSET (Int \X Int) /\ R \in SUBSET (Int \X Int)
    BY <1>1, ShapeAssumption
  <1>5. c \in Int /\ t \in Int
    BY WholeTurns
  <1>6. /\ Lookup(query).pair.A = Reference(query).A /\ Lookup(query).pair.B = Reference(query).B
        /\ k = Reference(query).relative.mirror /\ SameTurn(c, Reference(query).relative.turn, 4)
        /\ n = Reference(query).outer.mirror /\ SameTurn(t, Reference(query).outer.turn, 4)
    BY Right DEF LookupIsRight, SameOrientation, Orientation
  <1>7. CASE Compare(query.a, query.b)
    <2>1. /\ Reference(query).A = query.a /\ Reference(query).B = query.b
          /\ Reference(query).outer.turn = T /\ Reference(query).outer.mirror = m
          /\ m => Reference(query).relative.turn = T - U /\ Reference(query).relative.mirror = ~l
          /\ ~m => Reference(query).relative.turn = U - T /\ Reference(query).relative.mirror = l
      BY <1>1, <1>2, <1>7, ReferenceInOrder
    <2> PICK g : g = IF m THEN T - U ELSE U - T
      OBVIOUS
    <2>2. g \in Int /\ Reference(query).relative.turn = g
      BY <1>3, <2>1
    <2>3. k \in BOOLEAN /\ (k <=> ~(m <=> l)) /\ n = m
      BY <1>1, <1>6, <2>1
    <2>4. SameTurn(c, g, 4) /\ SameTurn(t, T, 4)
      BY <1>6, <2>1, <2>2
    <2>5. Place(NfpPoints(P, Place(R, c, k)), t, m) = NfpPoints(Place(P, T, m), Place(R, U, l))
      BY <1>1, <1>3, <1>4, <1>5, <2>2, <2>3, <2>4, DifferenceInOrder
    <2> QED
      BY <1>6, <2>1, <2>3, <2>5
  <1>8. CASE ~Compare(query.a, query.b)
    <2> PICK h : h = 4 + U
      OBVIOUS
    <2>1. /\ Reference(query).A = query.b /\ Reference(query).B = query.a
          /\ Reference(query).outer.turn = h /\ Reference(query).outer.mirror = l
          /\ l => Reference(query).relative.turn = U - T /\ Reference(query).relative.mirror = ~m
          /\ ~l => Reference(query).relative.turn = T - U /\ Reference(query).relative.mirror = m
      <3>1. 4 \in Int /\ 4 = Count[query.b]
        OBVIOUS
      <3> QED
        BY <1>1, <1>2, <1>8, <3>1, ReferenceOutOfOrder
    <2> PICK g : g = IF l THEN U - T ELSE T - U
      OBVIOUS
    <2>2. g \in Int /\ h \in Int /\ Reference(query).relative.turn = g
      BY <1>3, <2>1
    <2>3. k \in BOOLEAN /\ (k <=> ~(l <=> m)) /\ n = l
      BY <1>1, <1>6, <2>1
    <2>4. SameTurn(c, g, 4) /\ SameTurn(t, h, 4)
      BY <1>6, <2>1, <2>2
    <2>5. Place(NfpPoints(R, Place(P, c, k)), t, l) = NfpPoints(Place(P, T, m), Place(R, U, l))
      BY <1>1, <1>3, <1>4, <1>5, <2>2, <2>3, <2>4, DifferenceOutOfOrder
    <2> QED
      BY <1>6, <2>1, <2>3, <2>5
  <1> QED
    BY <1>7, <1>8

\* For items of any shape and quarter turns, what the six cases return is the set of
\* differences of the points as the items lie (nfpcache.cpp:141-388).
THEOREM LookupStaysDifference == Spec => []LookupIsDifference
  <1>1. TypeOK => LookupIsDifference
    BY Difference DEF TypeOK
  <1> QED
    BY <1>1, AlwaysAQuery, PTL
=============================================================================
