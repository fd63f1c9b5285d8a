------------------------------ MODULE CronJobs ------------------------------
(***************************************************************************)
(* Scheduled jobs of the command line: the registry of triggers/cron.ts    *)
(* with its sidecar file, the scan that fires due jobs, and the dispatch   *)
(* of TriggerSupervisor (triggers/runtime.ts) that runs each firing and    *)
(* reports its end to the registry.                                        *)
(*                                                                         *)
(* A job carries a marker, the trace of the run the scan started for it;   *)
(* while it is set the scan skips the job.  Commands, scans and endings    *)
(* arrive in any order, the sidecar write may fail or be cut short, the    *)
(* clock may be set back, and the process may stop at any point and load   *)
(* the sidecar again.                                                      *)
(*                                                                         *)
(* The n-th run of job j is the pair j, n; the code draws a trace id.  The *)
(* sink between scan and dispatch is kept as the set of its runs: what is  *)
(* stated here does not depend on its order.                               *)
(***************************************************************************)
EXTENDS Integers, FiniteSets

CONSTANTS
    Jobs,       \* ids ever given to a job
    Stateful,   \* the jobs added with --stateful
    Schedule,   \* job -> instants at which its expression matches
    MaxTime,    \* bound: last instant of the clock
    MaxRuns,    \* bound: runs of one job
    MaxFaults   \* bound: failed writes

Times == 0..MaxTime

ASSUME StatefulAssumption == Stateful \subseteq Jobs
ASSUME TimeAssumption == MaxTime \in Nat
ASSUME ScheduleAssumption == Schedule \in [Jobs -> SUBSET Times]
ASSUME RunsAssumption == MaxRuns \in Nat
ASSUME FaultsAssumption == MaxFaults \in Nat

VARIABLES
    up,         \* the process runs
    stopped,    \* TriggerSupervisor.stop() was called
    jobs,       \* the registry: job -> [state, marker], marker 0 for none
    storage,    \* storagePath is set
    lastScan,   \* the hook's lastScan
    seen,       \* idempotency keys the trigger runtime remembers
    runs,       \* job -> number -> [phase, due, read, disowned]
    fires,      \* job -> runs started
    file,       \* the sidecar: [jobs, readable, torn]
    notes,      \* the loop state file: the run that wrote it, 0 for none
    used,       \* ids given out
    faults      \* failed writes so far

vars == <<up, stopped, jobs, storage, lastScan, seen, runs, fires, file,
          notes, used, faults>>

Numbers == 1..MaxRuns
Entries == [state : {"absent", "enabled", "disabled"}, marker : 0..MaxRuns]
Runs == [phase : {"none", "queued", "running", "dropped", "over"},
         due : Times, read : 0..MaxRuns, disowned : BOOLEAN]

Absent == [state |-> "absent", marker |-> 0]
NoJobs == [j \in Jobs |-> Absent]
NoRun == [phase |-> "none", due |-> 0, read |-> 0, disowned |-> FALSE]
Ended(how) == [NoRun EXCEPT !.phase = how]

Live(run) == run.phase \in {"queued", "running"}

Init ==
    /\ up = FALSE /\ stopped = FALSE /\ storage = FALSE
    /\ jobs = NoJobs
    /\ lastScan = 0
    /\ seen = {}
    /\ runs = [j \in Jobs |-> [n \in Numbers |-> NoRun]]
    /\ fires = [j \in Jobs |-> 0]
    /\ file = [jobs |-> NoJobs, readable |-> TRUE, torn |-> FALSE]
    /\ notes = [j \in Jobs |-> 0]
    /\ used = {}
    /\ faults = 0

-----------------------------------------------------------------------------
(* writeJobsFile.  It writes in place: a failure leaves the file alone or   *)
(* cut short, and what is left may still parse, with fewer jobs.            *)

Kept(table, S) == [j \in Jobs |-> IF j \in S THEN table[j] ELSE Absent]

Written(next) ==
    /\ file' = [jobs |-> next, readable |-> TRUE, torn |-> FALSE]
    /\ UNCHANGED faults

WriteFails(next) ==
    /\ faults < MaxFaults
    /\ faults' = faults + 1
    /\ \/ UNCHANGED file
       \/ file' = [jobs |-> NoJobs, readable |-> FALSE, torn |-> TRUE]
       \/ \E S \in SUBSET Jobs :
            file' = [jobs |-> Kept(next, S), readable |-> TRUE, torn |-> TRUE]

(* A command reports a failed write and leaves the registry as it was. *)
CarelessCommit(next) ==   \* mutant: the registry changes whatever the write does
    /\ jobs' = next
    /\ \/ ~storage /\ UNCHANGED <<file, faults>>
       \/ storage /\ (Written(next) \/ WriteFails(next))

Commit(next) ==
    \/ ~storage /\ jobs' = next /\ UNCHANGED <<file, faults>>
    \/ storage /\ Written(next) /\ jobs' = next
    \/ storage /\ WriteFails(next) /\ UNCHANGED jobs

(* Bookkeeping is saved if it can be; the registry changes anyway. *)
Record(next) ==
    /\ jobs' = next
    /\ \/ ~storage /\ UNCHANGED <<file, faults>>
       \/ storage /\ (Written(next) \/ WriteFails(next))

-----------------------------------------------------------------------------
(* Start and end of the process. *)

Marked(table) == \E j \in Jobs : table[j].marker # 0

Unmarked(table) == [j \in Jobs |-> [table[j] EXCEPT !.marker = 0]]

LoadFails ==
    /\ jobs' = NoJobs /\ storage' = FALSE

(* loadFromPath: an unreadable sidecar, or one whose stale markers cannot   *)
(* be cleared, leaves the registry empty and without a storage path.        *)
Start(now) ==
    /\ ~up
    /\ up' = TRUE /\ stopped' = FALSE
    /\ lastScan' = now
    /\ seen' = {}
    /\ \/ ~file.readable /\ LoadFails /\ UNCHANGED <<file, faults>>
       \/ /\ file.readable /\ ~Marked(file.jobs)
          /\ jobs' = file.jobs /\ storage' = TRUE
          /\ file' = [file EXCEPT !.torn = FALSE]
          /\ UNCHANGED faults
       \/ /\ file.readable /\ Marked(file.jobs)
          /\ Written(Unmarked(file.jobs))
          /\ jobs' = Unmarked(file.jobs) /\ storage' = TRUE
       \/ /\ file.readable /\ Marked(file.jobs)
          /\ WriteFails(Unmarked(file.jobs))
          /\ LoadFails
    /\ UNCHANGED <<runs, fires, notes, used>>

(* TriggerSupervisor.stop(): the hook ends, the drain loop dispatches       *)
(* nothing more, and what has been dispatched goes on.                      *)
Stop ==
    /\ up /\ ~stopped
    /\ stopped' = TRUE
    /\ UNCHANGED <<up, jobs, storage, lastScan, seen, runs, fires, file,
                   notes, used, faults>>

ProcessEnds ==
    /\ up
    /\ up' = FALSE
    /\ stopped' = FALSE /\ storage' = FALSE
    /\ jobs' = NoJobs
    /\ seen' = {} /\ lastScan' = 0
    /\ runs' = [j \in Jobs |-> [n \in Numbers |->
                  IF Live(runs[j][n]) THEN Ended("over") ELSE runs[j][n]]]
    /\ UNCHANGED <<fires, file, notes, used, faults>>

-----------------------------------------------------------------------------
(* Commands of the user, and the same operations as tools of the model.     *)

Serving == up /\ ~stopped

(* addJobFull: enabled by /cron add, disabled by the NewCronJob tool. *)
AddJob(j, enabled) ==
    /\ Serving /\ j \notin used
    /\ used' = used \cup {j}
    /\ Commit([jobs EXCEPT ![j] =
                 [state |-> IF enabled THEN "enabled" ELSE "disabled", marker |-> 0]])
    /\ UNCHANGED <<up, stopped, storage, lastScan, seen, runs, fires, notes>>

(* History: the run that loses its marker to a command. *)
Disown(j) ==
    runs' = IF jobs[j].marker # 0 /\ jobs'[j].marker # jobs[j].marker
            THEN [runs EXCEPT ![j][jobs[j].marker].disowned = TRUE]
            ELSE runs

RemoveJob(j) ==
    /\ Serving /\ jobs[j].state # "absent"
    /\ Commit([jobs EXCEPT ![j] = Absent])
    /\ Disown(j)
    /\ UNCHANGED <<up, stopped, storage, lastScan, seen, fires, notes, used>>

(* setJobEnabled: disabling clears the marker, enabling keeps it. *)
SetJobEnabled(j, enabled) ==
    /\ Serving /\ jobs[j].state # "absent"
    /\ Commit([jobs EXCEPT ![j] =
                 IF enabled THEN [@ EXCEPT !.state = "enabled"]
                            ELSE [state |-> "disabled", marker |-> 0]])
    /\ Disown(j)
    /\ UNCHANGED <<up, stopped, storage, lastScan, seen, fires, notes, used>>

-----------------------------------------------------------------------------
(* CronNotificationHook.run and dueJobs: jobs due in (lastScan, now] whose  *)
(* marker is clear are marked and their triggers pushed; one still marked   *)
(* is counted as skipped.                                                   *)

DueAt(j, now) ==
    {t \in Schedule[j] :
       /\ lastScan < t /\ t <= now
       /\ \A s \in Schedule[j] : lastScan < s => t <= s}

Due(now) == {j \in Jobs : jobs[j].state = "enabled" /\ DueAt(j, now) # {}}

MarkedBlindly(now) == Due(now)   \* mutant: a job still running is fired again

Firing(now) == {j \in Due(now) : jobs[j].marker = 0}

Scan(now) ==
    /\ Serving
    /\ \A j \in Firing(now) : fires[j] < MaxRuns
    /\ lastScan' = now
    /\ IF Due(now) = {}
       THEN UNCHANGED <<jobs, file, faults>>
       ELSE Record([j \in Jobs |->
                      IF j \in Firing(now)
                      THEN [jobs[j] EXCEPT !.marker = fires[j] + 1] ELSE jobs[j]])
    /\ fires' = [j \in Jobs |-> IF j \in Firing(now) THEN fires[j] + 1 ELSE fires[j]]
    /\ runs' = [j \in Jobs |-> [n \in Numbers |->
                  IF j \in Firing(now) /\ n = fires[j] + 1
                  THEN [NoRun EXCEPT !.phase = "queued",
                                     !.due = CHOOSE t \in DueAt(j, now) : TRUE]
                  ELSE runs[j][n]]]
    /\ UNCHANGED <<up, stopped, storage, seen, notes, used>>

(* dispatch: a key seen before ends the trigger without an event.  The      *)
(* other triggers enter their delivery at once; a stateful job's prompt     *)
(* carries its notes.                                                       *)
Drop(j, n) ==
    /\ Serving
    /\ runs[j][n].phase = "queued"
    /\ <<j, runs[j][n].due>> \in seen
    /\ runs' = [runs EXCEPT ![j][n] = Ended("dropped")]
    /\ UNCHANGED <<up, stopped, jobs, storage, lastScan, seen, fires, file,
                   notes, used, faults>>

(* cronActionHook: the notes are read for a stateful job with a sidecar. *)
NotesFor(j) ==
    IF jobs[j].state # "absent" /\ j \in Stateful /\ storage THEN notes[j] ELSE 0

Dispatch(j, n) ==
    /\ Serving
    /\ runs[j][n].phase = "queued"
    /\ <<j, runs[j][n].due>> \notin seen
    /\ seen' = seen \cup {<<j, runs[j][n].due>>}
    /\ runs' = [runs EXCEPT ![j][n] = [@ EXCEPT !.phase = "running",
                                                !.read = NotesFor(j)]]
    /\ UNCHANGED <<up, stopped, jobs, storage, lastScan, fires, file, notes,
                   used, faults>>

-----------------------------------------------------------------------------
(* The run ends: trigger_completed or trigger_failed reaches                *)
(* cronHarnessListener, which looks the job up by its marker.               *)

JobOfRun(j, n) == jobs[j].state # "absent"   \* mutant: found by id, not by marker

JobForTrace(j, n) == jobs[j].marker = n

MarkCompleted(j, n) ==
    IF jobs[j].marker = n
    THEN Record([jobs EXCEPT ![j].marker = 0])
    ELSE UNCHANGED <<jobs, file, faults>>

Over(j, n) == runs' = [runs EXCEPT ![j][n] = Ended("over")]

(* writeLoopState writes in place too; a failure may leave the file empty. *)
KeepNotes(j, n) ==
    IF JobForTrace(j, n) /\ j \in Stateful /\ storage
    THEN notes' \in {notes, [notes EXCEPT ![j] = n], [notes EXCEPT ![j] = 0]}
    ELSE UNCHANGED notes

Complete(j, n) ==
    /\ up /\ runs[j][n].phase = "running"
    /\ MarkCompleted(j, n)
    /\ KeepNotes(j, n)
    /\ Over(j, n)
    /\ UNCHANGED <<up, stopped, storage, lastScan, seen, fires, used>>

SilentFail(j, n) ==   \* mutant: a failed run is not reported to the registry
    /\ up /\ runs[j][n].phase = "running"
    /\ Over(j, n)
    /\ UNCHANGED <<up, stopped, jobs, storage, lastScan, seen, fires, file,
                   notes, used, faults>>

Fail(j, n) ==
    /\ up /\ runs[j][n].phase = "running"
    /\ MarkCompleted(j, n)
    /\ Over(j, n)
    /\ UNCHANGED <<up, stopped, storage, lastScan, seen, fires, notes, used>>

Next ==
    \/ \E now \in Times : Start(now) \/ Scan(now)
    \/ Stop \/ ProcessEnds
    \/ \E j \in Jobs, enabled \in BOOLEAN : AddJob(j, enabled) \/ SetJobEnabled(j, enabled)
    \/ \E j \in Jobs : RemoveJob(j)
    \/ \E j \in Jobs, n \in Numbers :
         Drop(j, n) \/ Dispatch(j, n) \/ Complete(j, n) \/ Fail(j, n)

Spec == Init /\ [][Next]_vars

(* The drain loop runs whenever a trigger waits, and a model call or a turn *)
(* of the parent session ends, one way or the other.                        *)
FairSpec ==
    /\ Spec
    /\ \A j \in Jobs, n \in Numbers :
         /\ WF_vars(Drop(j, n) \/ Dispatch(j, n))
         /\ WF_vars(Complete(j, n) \/ Fail(j, n))

-----------------------------------------------------------------------------

(* Types of the state. *)
TypeOK ==
    /\ up \in BOOLEAN /\ stopped \in BOOLEAN /\ storage \in BOOLEAN
    /\ jobs \in [Jobs -> Entries]
    /\ lastScan \in Times
    /\ seen \subseteq Jobs \X Times
    /\ runs \in [Jobs -> [Numbers -> Runs]]
    /\ fires \in [Jobs -> 0..MaxRuns]
    /\ file \in [jobs : [Jobs -> Entries], readable : BOOLEAN, torn : BOOLEAN]
    /\ notes \in [Jobs -> 0..MaxRuns]
    /\ used \subseteq Jobs
    /\ faults \in 0..MaxFaults

(* The scan's overlap rule rests on the marker: it names a run that is      *)
(* still going on, or one whose trigger was dropped as a duplicate (and     *)
(* then the job waits for a command or a restart), and every run going on   *)
(* is named by its job's marker unless a command took the marker away.  So  *)
(* two runs of a job overlap only across a disable.                         *)
MarkerExact ==
    \A j \in Jobs :
        /\ jobs[j].marker # 0 =>
             runs[j][jobs[j].marker].phase \in {"queued", "running", "dropped"}
        /\ \A n \in Numbers :
             Live(runs[j][n]) /\ ~runs[j][n].disowned => jobs[j].marker = n

(* However commands, write failures and endings mix, what the user last     *)
(* decided about each job and was not told failed is what the sidecar       *)
(* says, unless the file was cut short since.                               *)
DecisionsPersisted ==
    up /\ storage /\ ~file.torn =>
        \A j \in Jobs : file.jobs[j].state = jobs[j].state

(* Notes are never lost to a run that did not read them: whoever replaces   *)
(* the loop state of a job had it in its prompt, even when runs of the job  *)
(* overlap after it was disabled and enabled again.                         *)
NotesWereRead ==
    \A j \in Jobs : notes'[j] # notes[j] =>
        \E n \in Numbers : /\ runs[j][n].phase = "running"
                           /\ runs'[j][n].phase = "over"
                           /\ runs[j][n].read = notes[j]

NotesNotLost == [][NotesWereRead]_vars

(* A job fired by the scan becomes free to fire again, unless its trigger   *)
(* is dropped as a duplicate or the supervisor stops first.                 *)
MarkerReleased ==
    \A j \in Jobs, n \in Numbers :
        (jobs[j].marker = n) ~> (jobs[j].marker # n \/ ~Serving
                                    \/ runs[j][n].phase = "dropped")
=============================================================================
