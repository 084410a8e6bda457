--------------------------- MODULE MCWriteAheadLog ---------------------------
(* Model-checking instance of WriteAheadLog. *)
EXTENDS WriteAheadLog

Symmetry == Permutations(Caller) \cup Permutations(Key)
=============================================================================
