-------------------------- MODULE MCGreeterSession --------------------------
(***************************************************************************)
(* An instance of GreeterSession for TLC.                                 *)
(***************************************************************************)
EXTENDS GreeterSession, TLC

\* Greeters of one kind are only ever compared.
SameKind == Permutations(WithVt) \cup Permutations(Greeters \ WithVt)

=============================================================================
