---------------------------- MODULE MCGreeterUi ----------------------------
\* GreeterUi for TLC: screens and users are only compared.
EXTENDS GreeterUi, TLC

Symmetry == Permutations(Screens) \cup Permutations(Users)

=============================================================================
