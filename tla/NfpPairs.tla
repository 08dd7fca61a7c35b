------------------------------- MODULE NfpPairs ------------------------------
(***************************************************************************)
(* Which no-fit polygons NfpCache computes, under which keys it stores     *)
(* them, and which one it fetches, turned and mirrored, when it is asked   *)
(* for two items in any orientation (NfpCache/nfpcache.cpp).               *)
(*                                                                         *)
(* Only pairs with A.m_id <= B.m_id and A upright are computed.  The other *)
(* ones follow from two laws of the no-fit polygon A + (-B):               *)
(*     Nfp(g A, g B) = g Nfp(A, B)    and    Nfp(B, A) = - Nfp(A, B).      *)
(*                                                                         *)
(* An orientation is what m_rotate_items and m_mirror_rotate_items hold:   *)
(* mirror or not, then turn.  Turns are counted in half steps, of which    *)
(* 2n make a full turn when there are n rotations: 180 degrees, which need *)
(* not be a whole number of steps, is n half steps.                        *)
(***************************************************************************)
EXTENDS Integers, FiniteSets

CONSTANTS
    Item,           \* m_id of the items
    Sheet,          \* m_id of the sheets
    Count,          \* m_rotate_items.size() of each item
    MirrorCount     \* m_mirror_rotate_items.size() of each item

\* The bits of a number that fits the 16 bits getPairKey leaves for it.
Bits(k) == {j \in 0..15 : (k \div 2^j) % 2 = 1}

Word == 0..65535
Indices == UNION {0..(Count[b] - 1) : b \in Item}
Field == Item \cup Sheet \cup Indices

\* Items come from one rotation step (DELTA_THETA), so every item has the same
\* number of rotations; it has as many mirrored ones, or none has any.
ASSUME CountAssumption ==
    /\ Item \subseteq Nat
    /\ Count \in [Item -> Nat \ {0}]
    /\ MirrorCount \in [Item -> Nat]
    /\ \A a, b \in Item : Count[a] = Count[b] /\ MirrorCount[a] = MirrorCount[b]
    /\ \A b \in Item : MirrorCount[b] \in {0, Count[b]}
\* Ids and rotation indices fit 16 bits, and a number is told by its bits.
ASSUME FieldAssumption ==
    /\ Field \subseteq Word
    /\ \A j, k \in Field : Bits(j) = Bits(k) => j = k

(***************************************************************************)
(* The pairs that are computed                                             *)
(***************************************************************************)
Pair(a, b, r, m, s) ==
    [A |-> a, B |-> b, rotateIndex |-> r, isMirror |-> m, AisSheet |-> s]
PairType ==
    [A : Item \cup Sheet, B : Item, rotateIndex : Indices, isMirror : BOOLEAN, AisSheet : BOOLEAN]

Compare(a, b) == a <= b

\* The two loops of CreatePair over the orientations of B.
Oriented(b, r, m) == r < IF m THEN MirrorCount[b] ELSE Count[b]
CreatePair(p) ==
    /\ p.AisSheet \/ Compare(p.A, p.B)
    /\ Oriented(p.B, p.rotateIndex, p.isMirror)

\* Every sheet with every item, every item with every item.
MatchPairs ==
    {p \in PairType : p.A \in (IF p.AisSheet THEN Sheet ELSE Item) /\ CreatePair(p)}

Bit(b) == IF b THEN {0} ELSE {}
Shl(w, k) == {j + k : j \in w}

\* Mutant of PairKey: items and sheets share their keys.
PairKeyNoSheet(p) ==
    Bits(p.A) \cup Shl(Bits(p.B), 16) \cup Shl(Bits(p.rotateIndex), 32)
        \cup Shl(Bit(p.isMirror), 49)

\* The 64-bit key, as the set of its bits.
PairKey(p) ==
    Bits(p.A) \cup Shl(Bits(p.B), 16) \cup Shl(Bits(p.rotateIndex), 32)
        \cup Shl(Bit(p.isMirror), 49) \cup Shl(Bit(p.AisSheet), 50)

(***************************************************************************)
(* readItemAndItemNfp and readSheetAndItemIfp                              *)
(***************************************************************************)

\* The question: item (or sheet) a and item b, each turned and maybe mirrored.
\* A caller asks for orientations that exist; a sheet has one.
QueryType ==
    [a : Item \cup Sheet, b : Item, rA : Indices, rB : Indices,
     mA : BOOLEAN, mB : BOOLEAN, sheet : BOOLEAN]
Queries ==
    {q \in QueryType :
        /\ Oriented(q.b, q.rB, q.mB)
        /\ IF q.sheet THEN q.a \in Sheet /\ q.rA = 0 /\ q.mA = FALSE
                      ELSE q.a \in Item /\ Oriented(q.a, q.rA, q.mA)}

\* Mutants of Wrap: the difference is used as it is, or without its sign.
WrapNever(r, n) == r
WrapAbs(r, n) == IF r < 0 THEN -r ELSE r

\* if(rotate_B < 0) rotate_B += cout
Wrap(r, n) == IF r < 0 THEN r + n ELSE r

\* The answer: the entry p that is fetched, and what is done to the copy of it,
\* first my_paths_mirror if m, then my_paths_rotate by t half steps.
Answer(p, m, t) == [pair |-> p, mirror |-> m, turn |-> t]

LookupItems(q) ==
    LET n == Count[q.b]
        ab == Wrap(q.rA - q.rB, n)
        ba == Wrap(q.rB - q.rA, n)
        inOrder == Compare(q.a, q.b)
    IN  CASE q.mA /\ inOrder ->
                Answer(Pair(q.a, q.b, ab, ~q.mB, FALSE), TRUE, 2 * q.rA)
          [] q.mA /\ ~inOrder /\ q.mB ->
                Answer(Pair(q.b, q.a, ba, FALSE, FALSE), TRUE, 2 * q.rB - n)
          [] q.mA /\ ~inOrder /\ ~q.mB ->
                Answer(Pair(q.b, q.a, ab, TRUE, FALSE), FALSE, 2 * q.rB - n)
          [] ~q.mA /\ inOrder ->
                Answer(Pair(q.a, q.b, ba, q.mB, FALSE), FALSE, 2 * q.rA)
          [] ~q.mA /\ ~inOrder /\ q.mB ->
                Answer(Pair(q.b, q.a, ba, TRUE, FALSE), TRUE, 2 * q.rB - n)
          [] ~q.mA /\ ~inOrder /\ ~q.mB ->
                Answer(Pair(q.b, q.a, ab, FALSE, FALSE), FALSE, 2 * q.rB - n)

\* The inner-fit polygon of a sheet, which is never turned, is fetched as it is.
LookupSheet(q) == Answer(Pair(q.a, q.b, q.rB, q.mB, TRUE), FALSE, 0)

Lookup(q) == IF q.sheet THEN LookupSheet(q) ELSE LookupItems(q)

(***************************************************************************)
(* The reference: the group of orientations.                               *)
(***************************************************************************)

\* Mirror first if m, then t half steps counterclockwise.
Orientation(t, m) == [turn |-> t, mirror |-> m]

\* g after h: a mirror reverses the turns it is applied after.
Compose(g, h) ==
    Orientation(IF g.mirror THEN g.turn - h.turn ELSE g.turn + h.turn, g.mirror # h.mirror)
Inverse(g) == Orientation(IF g.mirror THEN g.turn ELSE -g.turn, g.mirror)

SameTurn(t, u, n) == t - u \in {-4 * n, -2 * n, 0, 2 * n, 4 * n}
SameOrientation(g, h, n) == g.mirror = h.mirror /\ SameTurn(g.turn, h.turn, n)

\* Nfp(T a, U b) by the laws: T Nfp(a, T^-1 U b) when a comes first, and
\* otherwise -Nfp(U b, T a) = (half turn) U Nfp(b, U^-1 T a).
Reference(q) ==
    LET n == Count[q.b]
        T == Orientation(2 * q.rA, q.mA)
        U == Orientation(2 * q.rB, q.mB)
    IN  IF q.sheet \/ Compare(q.a, q.b)
        THEN [A |-> q.a, B |-> q.b, relative |-> Compose(Inverse(T), U), outer |-> T]
        ELSE [A |-> q.b, B |-> q.a, relative |-> Compose(Inverse(U), T),
              outer |-> Compose(Orientation(n, FALSE), U)]
=============================================================================
