---------------------------- MODULE MCNfpLookup ------------------------------
(***************************************************************************)
(* NfpLookup on two items and four rotations.                              *)
(***************************************************************************)
EXTENDS NfpLookup, TLC

\* Ids whose bits fill the field of 16 bits from both ends.
MCItem == {1, 65535}
MCSheet == {0, 1}
MCCount == [b \in MCItem |-> 4]

\* Shapes with no symmetry.
MCShape ==
    (1 :> {<<0, 0>>, <<3, 0>>, <<0, 1>>}) @@ (65535 :> {<<0, 0>>, <<2, 0>>, <<1, 3>>, <<5, 1>>})
=============================================================================
