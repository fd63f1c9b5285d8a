---------------------------- MODULE AppendOnlyLog ----------------------------
(***************************************************************************)
(* What a session store promises its users: a log that only ever grows at  *)
(* its end, and that holds every entry it has confirmed.                   *)
(***************************************************************************)
EXTENDS Naturals, Sequences

CONSTANT Entries
VARIABLES log, confirmed

Init == log = <<>> /\ confirmed = {}

Extend ==
    /\ Len(log') = Len(log) + 1
    /\ log'[Len(log')] \in Entries
    /\ SubSeq(log', 1, Len(log)) = log
    /\ UNCHANGED confirmed

Confirm ==
    /\ \E i \in 1..Len(log) : confirmed' = confirmed \cup {log[i]}
    /\ UNCHANGED log

Next == Extend \/ Confirm

Spec == Init /\ [][Next]_<<log, confirmed>>
=============================================================================
