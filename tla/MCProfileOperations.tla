------------------------- MODULE MCProfileOperations ------------------------
(* Model values of one kind are interchangeable; names are not, one is the default. *)
EXTENDS ProfileOperations, TLC

Symmetry == Permutations(Ids) \union Permutations(Orgs) \union Permutations(Keys)
=============================================================================
