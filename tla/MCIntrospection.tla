--------------------------- MODULE MCIntrospection ---------------------------
(* Introspection on small instances. *)
EXTENDS Introspection, TLC

Symmetry == Permutations(Callers) \cup Permutations(Tokens)
=============================================================================
