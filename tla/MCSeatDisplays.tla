--------------------------- MODULE MCSeatDisplays --------------------------
(***************************************************************************)
(* Users, and the names of displays, are interchangeable: only whether    *)
(* they are equal is looked at; a new display may have any free name.     *)
(***************************************************************************)
EXTENDS SeatDisplays, TLC

Symmetry == Permutations(Users) \cup Permutations(Ids)

=============================================================================
