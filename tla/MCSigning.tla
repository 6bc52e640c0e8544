-------------------------------- MODULE MCSigning --------------------------------
(* An instance of DocumentSigning for model checking. *)
EXTENDS DocumentSigning, TLC

CONSTANTS u1, u2, u3

AllSign == {<<u1, u2, u3>>}
Symmetry == Permutations(Requests)
================================================================================
