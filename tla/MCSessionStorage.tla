-------------------------- MODULE MCSessionStorage --------------------------
(* Callers and entry ids as model values; both are interchangeable. *)
EXTENDS SessionStorage, TLC

MCSymmetry == Permutations(Callers) \cup Permutations(Ids)
=============================================================================
