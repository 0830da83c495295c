--------------------------- MODULE MCLoginDisplay ---------------------------
(***************************************************************************)
(* Instances of LoginDisplay for TLC; every .cfg gives the constants.     *)
(***************************************************************************)
EXTENDS LoginDisplay, TLC

\* Users and windows are only ever compared.
UsersAndWindows == Permutations(Users) \cup Permutations(Windows)

=============================================================================
