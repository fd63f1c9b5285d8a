----------------------------- MODULE MCCronJobs -----------------------------
(* A stateful job with two instants, and a plain job that never comes due    *)
(* but shares the registry, the sidecar and the commands.                    *)
EXTENDS CronJobs

CONSTANTS loop, plain

MCSchedule == [j \in {loop, plain} |-> IF j = loop THEN {1, 2} ELSE {}]
=============================================================================
