--------------------------- MODULE MCSigningKeys ---------------------------
(* SigningKeys on small instances. *)
EXTENDS SigningKeys, TLC

Symmetry == Permutations(Public) \cup Permutations(Keys) \cup Permutations(Kids)
=============================================================================
