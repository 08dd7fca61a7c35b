---------------------------- MODULE MCNfpCache -------------------------------
(***************************************************************************)
(* NfpCache on an item and its mirror image and a sheet with the id of the *)
(* item: four pairs, for two workers, and six questions.                   *)
(***************************************************************************)
EXTENDS NfpCache

CONSTANTS w1, w2

MCItem == {1}
MCSheet == {1}
MCCount == [b \in MCItem |-> 1]
MCMirrorCount == [b \in MCItem |-> 1]
MCWorker == {w1, w2}
=============================================================================
