-------------------------- MODULE MCTriggerRuntime --------------------------
(* Two keys and two traces, so that the triggers of one prune the entries  *)
(* of the other, over a clock as long as the window and the skew together.                          *)
EXTENDS TriggerRuntime, TLC

CONSTANTS k1, k2, t1, t2

MCKeys == {k1, k2}
MCTraces == {t1, t2}
(* coalesce and drop take the same path through evaluate(). *)
MCPolicies == {"latest_replaces", "drop"}
MCSymmetry == Permutations(MCKeys) \cup Permutations(MCTraces)
=============================================================================
