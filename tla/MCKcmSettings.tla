--------------------------- MODULE MCKcmSettings ---------------------------
(***************************************************************************)
(* Pictures and contents are interchangeable: only whether they are equal  *)
(* is ever looked at.                                                      *)
(***************************************************************************)
EXTENDS KcmSettings, TLC

Symmetry == Permutations(Pictures) \cup Permutations(Contents)

=============================================================================
