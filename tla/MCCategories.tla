---------------------------- MODULE MCCategories ----------------------------
(* An instance of Categories for TLC. *)
EXTENDS Categories, TLC

Symmetry == Permutations(Slots) \union Permutations(Users)

=============================================================================
