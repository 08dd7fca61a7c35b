------------------------------ MODULE Allocator ------------------------------
(***************************************************************************)
(* What MemoryPool/MemoryPool.h promises its callers, without saying how.  *)
(*                                                                         *)
(* A block is a pair <<span, slot>>: the slot-th piece of a span of pages  *)
(* that is cut into equal pieces of one size class (Vert or Segment).  An  *)
(* allocator may hand out any piece that overlaps nothing its callers hold *)
(* and takes a piece back only from somebody who holds it.                 *)
(***************************************************************************)
CONSTANTS Class,    \* size classes: 0 for Vert, 1 for Segment
          Block     \* pieces of memory, pairs <<span, slot>>

VARIABLE live       \* per class, the blocks the program holds

TypeOK == live \in [Class -> SUBSET Block]

Init == live = [c \in Class |-> {}]

\* Two pieces of one span are disjoint only if the span was cut for one class
\* and they are different slots of it.
Overlap(c, b, d, e) == b[1] = e[1] /\ (c # d \/ b[2] = e[2])

Allocate(c, b) ==
    /\ \A d \in Class : \A e \in live[d] : ~Overlap(c, b, d, e)
    /\ live' = [live EXCEPT ![c] = @ \cup {b}]

Free(c, b) ==
    /\ b \in live[c]
    /\ live' = [live EXCEPT ![c] = @ \ {b}]

Next == \E c \in Class, b \in Block : Allocate(c, b) \/ Free(c, b)

Spec == Init /\ [][Next]_live
=============================================================================
