-------------------------- MODULE MCTriggerExecution --------------------------
(* Instances of TriggerExecution for TLC. *)
EXTENDS TriggerExecution

CONSTANTS t1, t2, h1, c1, c2

\* Both triggers from one hook, on traces of their own.
MCOneHook == [t \in Triggers |-> h1]
MCOwnTraces == [t \in Triggers |-> IF t = t1 THEN c1 ELSE c2]

\* The two triggers are interchangeable, each with its trace.
MCSymmetry == {[x \in Triggers \cup Traces |-> x],
               t1 :> t2 @@ t2 :> t1 @@ c1 :> c2 @@ c2 :> c1}
=============================================================================
