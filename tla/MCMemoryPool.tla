---------------------------- MODULE MCMemoryPool -----------------------------
(* Constants for the model-checking runs of MemoryPool. *)
EXTENDS MemoryPool, TLC

CONSTANTS t1, t2, s1, s2

\* Spans of two Verts and of one Segment: the span of one block is the one
\* fetchRange and fetchFromCentralCache leave unlinked.
MCBatch == (0 :> 2) @@ (1 :> 1)
=============================================================================
