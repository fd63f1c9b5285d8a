--------------------------- MODULE MCAgentHarness ---------------------------
(* Operations and callers as model values; both are interchangeable. *)
EXTENDS AgentHarness

MCSymmetry == Permutations(Ops) \cup Permutations(Callers)
=============================================================================
