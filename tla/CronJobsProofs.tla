--------------------------- MODULE CronJobsProofs ---------------------------
(***************************************************************************)
(* What CronJobs promises holds for every set of jobs and schedules and    *)
(* any number of runs and failed writes.  MarkerExact is not inductive by  *)
(* itself: a load must find no run going on, and a job added must have no  *)
(* marker yet.  NotesNotLost is an action property: it needs that a        *)
(* marked run which goes on has read the notes as they are now.            *)
(***************************************************************************)
EXTENDS CronJobs, TLAPS

(* No run survives its process. *)
DownInv == ~up => \A j \in Jobs, n \in Numbers : ~Live(runs[j][n])

(* Only ids given out are in the registry or the sidecar, and only jobs    *)
(* of the registry are marked.                                             *)
UsedInv ==
    \A j \in Jobs :
        /\ jobs[j].state # "absent" \/ file.jobs[j].state # "absent" => j \in used
        /\ jobs[j].marker # 0 => jobs[j].state # "absent"

(* The marked run of a job with notes read them as they are. *)
ReadInv ==
    \A j \in Stateful, n \in Numbers :
        storage /\ jobs[j].marker = n /\ runs[j][n].phase = "running"
            => runs[j][n].read = notes[j]

IInv ==
    TypeOK /\ MarkerExact /\ DownInv /\ UsedInv /\ ReadInv /\ DecisionsPersisted

USE StatefulAssumption, TimeAssumption, ScheduleAssumption, RunsAssumption,
    FaultsAssumption

LEMMA NoRunType ==
    NoRun \in Runs /\ Ended("dropped") \in Runs /\ Ended("over") \in Runs
  <1>1. 0 \in Times /\ 0 \in 0..MaxRuns
    BY DEF Times
  <1> QED BY <1>1 DEF NoRun, Runs, Ended

LEMMA TableTypes ==
    /\ Absent \in Entries /\ NoJobs \in [Jobs -> Entries]
    /\ \A table \in [Jobs -> Entries] :
          /\ Unmarked(table) \in [Jobs -> Entries]
          /\ \A S : Kept(table, S) \in [Jobs -> Entries]
  BY DEF Absent, NoJobs, Entries, Unmarked, Kept

LEMMA InitInv == Init => IInv
  <1> SUFFICES ASSUME Init PROVE IInv OBVIOUS
  <1>1. \A j \in Jobs : /\ jobs[j].state = "absent" /\ jobs[j].marker = 0
                        /\ file.jobs[j].state = "absent"
                        /\ \A n \in Numbers : runs[j][n].phase = "none"
    BY DEF Init, NoJobs, Absent, NoRun
  <1>2. TypeOK
    <2>1. 0 \in Times /\ 0 \in 0..MaxRuns /\ 0 \in 0..MaxFaults
      BY DEF Times
    <2> QED BY <2>1, NoRunType, TableTypes DEF Init, TypeOK
  <1>3. MarkerExact /\ DownInv /\ UsedInv /\ ReadInv /\ DecisionsPersisted
    BY <1>1 DEF Init, MarkerExact, DownInv, UsedInv, ReadInv, DecisionsPersisted, Live,
                Numbers
  <1> QED BY <1>2, <1>3 DEF IInv

-----------------------------------------------------------------------------
(* The sidecar after any attempt to write a table it may hold. *)
LEMMA WriteTypes ==
    ASSUME TypeOK, NEW next \in [Jobs -> Entries], Written(next) \/ WriteFails(next)
    PROVE  /\ file' \in [jobs : [Jobs -> Entries], readable : BOOLEAN, torn : BOOLEAN]
           /\ faults' \in 0..MaxFaults
           /\ \A j \in Jobs : file'.jobs[j].state # "absent" =>
                 next[j].state # "absent" \/ file.jobs[j].state # "absent"
           /\ \/ file'.torn
              \/ file' = file
              \/ \A j \in Jobs : file'.jobs[j].state = next[j].state
  <1>1. CASE Written(next)
    BY <1>1 DEF Written, TypeOK
  <1>2. CASE WriteFails(next)
    <2>1. faults' \in 0..MaxFaults
      BY <1>2 DEF WriteFails, TypeOK
    <2>2. CASE file' = file
      BY <2>1, <2>2 DEF TypeOK
    <2>3. CASE file' = [jobs |-> NoJobs, readable |-> FALSE, torn |-> TRUE]
      BY <2>1, <2>3, TableTypes DEF NoJobs, Absent
    <2>4. ASSUME NEW S \in SUBSET Jobs,
                 file' = [jobs |-> Kept(next, S), readable |-> TRUE, torn |-> TRUE]
          PROVE  /\ file' \in [jobs : [Jobs -> Entries], readable : BOOLEAN, torn : BOOLEAN]
                 /\ file'.torn
                 /\ \A j \in Jobs : file'.jobs[j].state # "absent" => next[j].state # "absent"
      BY <2>4, TableTypes DEF Kept, Absent
    <2> QED BY <1>2, <2>1, <2>2, <2>3, <2>4 DEF WriteFails
  <1> QED BY <1>1, <1>2

(* A command: the registry and a whole sidecar change together, or the      *)
(* registry does not change.                                                *)
LEMMA CommitEffect ==
    ASSUME TypeOK, NEW next \in [Jobs -> Entries], Commit(next)
    PROVE  /\ jobs' \in {jobs, next}
           /\ file' \in [jobs : [Jobs -> Entries], readable : BOOLEAN, torn : BOOLEAN]
           /\ faults' \in 0..MaxFaults
           /\ \A j \in Jobs : file'.jobs[j].state # "absent" =>
                 next[j].state # "absent" \/ file.jobs[j].state # "absent"
           /\ DecisionsPersisted /\ storage /\ up /\ ~file'.torn =>
                 \A j \in Jobs : file'.jobs[j].state = jobs'[j].state
  <1>1. CASE ~storage /\ jobs' = next /\ UNCHANGED <<file, faults>>
    BY <1>1 DEF TypeOK
  <1>2. CASE storage /\ Written(next) /\ jobs' = next
    BY <1>2, WriteTypes DEF Written
  <1>3. CASE storage /\ WriteFails(next) /\ UNCHANGED jobs
    <2>1. ~file'.torn => file' = file
      BY <1>3 DEF WriteFails
    <2> QED BY <1>3, <2>1, WriteTypes DEF DecisionsPersisted
  <1> QED BY <1>1, <1>2, <1>3 DEF Commit

(* Bookkeeping: the registry changes whatever the write does; its states    *)
(* stay what they are.                                                      *)
LEMMA RecordEffect ==
    ASSUME TypeOK, NEW next \in [Jobs -> Entries], Record(next),
           \A j \in Jobs : next[j].state = jobs[j].state
    PROVE  /\ jobs' = next
           /\ file' \in [jobs : [Jobs -> Entries], readable : BOOLEAN, torn : BOOLEAN]
           /\ faults' \in 0..MaxFaults
           /\ \A j \in Jobs : file'.jobs[j].state # "absent" =>
                 jobs[j].state # "absent" \/ file.jobs[j].state # "absent"
           /\ DecisionsPersisted /\ storage /\ up /\ ~file'.torn =>
                 \A j \in Jobs : file'.jobs[j].state = jobs'[j].state
  <1>1. CASE ~storage /\ UNCHANGED <<file, faults>>
    BY <1>1 DEF Record, TypeOK
  <1>2. CASE storage /\ (Written(next) \/ WriteFails(next))
    BY <1>2, WriteTypes DEF Record, DecisionsPersisted
  <1> QED BY <1>1, <1>2 DEF Record

-----------------------------------------------------------------------------
(* Start and end of the process. *)

LEMMA StartStep == ASSUME IInv, NEW now \in Times, Start(now) PROVE IInv'
  <1>1. \A j \in Jobs, n \in Numbers : ~Live(runs[j][n])
    BY DEF IInv, DownInv, Start
  <1>2. /\ jobs' \in [Jobs -> Entries]
        /\ file' \in [jobs : [Jobs -> Entries], readable : BOOLEAN, torn : BOOLEAN]
        /\ faults' \in 0..MaxFaults
        /\ \A j \in Jobs : /\ jobs'[j].marker = 0
                           /\ file'.jobs[j].state # "absent" => file.jobs[j].state # "absent"
                           /\ jobs'[j].state # "absent" => file.jobs[j].state # "absent"
        /\ storage' \in BOOLEAN
        /\ storage' => \A j \in Jobs : file'.jobs[j].state = jobs'[j].state
    <2> DEFINE table == Unmarked(file.jobs)
    <2>0. /\ table \in [Jobs -> Entries]
          /\ \A j \in Jobs : table[j].marker = 0 /\ table[j].state = file.jobs[j].state
      BY TableTypes DEF IInv, TypeOK, Unmarked, Entries
    <2> HIDE DEF table
    <2>1. CASE LoadFails /\ UNCHANGED <<file, faults>>
      BY <2>1, TableTypes DEF LoadFails, IInv, TypeOK, NoJobs, Absent
    <2>2. CASE /\ ~Marked(file.jobs)
               /\ jobs' = file.jobs /\ storage' = TRUE
               /\ file' = [file EXCEPT !.torn = FALSE]
               /\ UNCHANGED faults
      BY <2>2 DEF IInv, TypeOK, Marked
    <2>3. CASE Written(table) /\ jobs' = table /\ storage' = TRUE
      BY <2>0, <2>3, WriteTypes DEF Written, IInv
    <2>4. CASE WriteFails(table) /\ LoadFails
      BY <2>0, <2>4, WriteTypes, TableTypes DEF LoadFails, IInv, NoJobs, Absent
    <2> QED BY <2>1, <2>2, <2>3, <2>4 DEF Start, table
  <1>3. UNCHANGED <<runs, fires, notes, used>> /\ up' = TRUE /\ stopped' = FALSE
        /\ lastScan' \in Times /\ seen' = {}
    BY DEF Start
  <1>4. TypeOK'
    BY <1>2, <1>3 DEF IInv, TypeOK
  <1>5. MarkerExact' /\ ReadInv' /\ DownInv'
    BY <1>1, <1>2, <1>3 DEF MarkerExact, ReadInv, DownInv, Live, Numbers
  <1>6. UsedInv' /\ DecisionsPersisted'
    BY <1>2, <1>3 DEF IInv, UsedInv, DecisionsPersisted
  <1> QED BY <1>4, <1>5, <1>6 DEF IInv

LEMMA StopStep == ASSUME IInv, Stop PROVE IInv'
  BY DEF Stop, IInv, TypeOK, MarkerExact, DownInv, UsedInv, ReadInv, DecisionsPersisted

LEMMA EndsStep == ASSUME IInv, ProcessEnds PROVE IInv'
  <1>1. /\ up' = FALSE /\ stopped' = FALSE /\ storage' = FALSE
        /\ jobs' = NoJobs /\ seen' = {} /\ lastScan' = 0
        /\ UNCHANGED <<fires, file, notes, used, faults>>
    BY DEF ProcessEnds
  <1>2. /\ runs' \in [Jobs -> [Numbers -> Runs]]
        /\ \A j \in Jobs, n \in Numbers : ~Live(runs'[j][n])
    BY NoRunType DEF ProcessEnds, IInv, TypeOK, Live, Ended, NoRun
  <1>3. TypeOK'
    <2>1. 0 \in Times BY DEF Times
    <2> QED BY <1>1, <1>2, <2>1, TableTypes DEF IInv, TypeOK
  <1>4. \A j \in Jobs : jobs'[j].state = "absent" /\ jobs'[j].marker = 0
    BY <1>1 DEF NoJobs, Absent
  <1>5. MarkerExact' /\ DownInv' /\ UsedInv' /\ ReadInv' /\ DecisionsPersisted'
    BY <1>1, <1>2, <1>4
       DEF IInv, MarkerExact, DownInv, UsedInv, ReadInv, DecisionsPersisted, Numbers
  <1> QED BY <1>3, <1>5 DEF IInv

-----------------------------------------------------------------------------
(* Commands: a job j gets the entry e, or nothing changes. *)

LEMMA CommandStep ==
    ASSUME IInv, NEW j \in Jobs, NEW e \in Entries, up,
           Commit([jobs EXCEPT ![j] = e]),
           e.marker \in {0, jobs[j].marker},
           e.marker # 0 => e.state # "absent",
           e.state # "absent" => j \in used',
           used \subseteq used', used' \subseteq Jobs,
           \/ Disown(j)
           \/ jobs[j].marker = 0 /\ runs' = runs,
           UNCHANGED <<up, stopped, storage, lastScan, seen, fires, notes>>
    PROVE  IInv'
  <1> DEFINE next == [jobs EXCEPT ![j] = e]
  <1>1. TypeOK /\ next \in [Jobs -> Entries] /\ Commit(next)
    BY DEF IInv, TypeOK
  <1>2. /\ jobs' \in [Jobs -> Entries]
        /\ \A k \in Jobs \ {j} : jobs'[k] = jobs[k]
        /\ jobs'[j] \in {jobs[j], e}
    BY <1>1, CommitEffect DEF IInv, TypeOK
  <1>3. /\ file' \in [jobs : [Jobs -> Entries], readable : BOOLEAN, torn : BOOLEAN]
        /\ faults' \in 0..MaxFaults
        /\ \A k \in Jobs : file'.jobs[k].state # "absent" =>
              next[k].state # "absent" \/ file.jobs[k].state # "absent"
        /\ storage /\ ~file'.torn => \A k \in Jobs : file'.jobs[k].state = jobs'[k].state
    BY <1>1, CommitEffect DEF IInv
  <1>4. /\ runs' \in [Jobs -> [Numbers -> Runs]]
        /\ \A k \in Jobs, n \in Numbers :
              /\ runs'[k][n].phase = runs[k][n].phase
              /\ runs'[k][n].read = runs[k][n].read
              /\ runs'[k][n].disowned # runs[k][n].disowned =>
                    k = j /\ n = jobs[j].marker /\ jobs'[j].marker # n
              /\ k = j /\ n = jobs[j].marker /\ jobs'[j].marker # n =>
                    runs'[k][n].disowned
    <2>1. CASE runs' = runs /\ (jobs[j].marker = 0 \/ jobs'[j].marker = jobs[j].marker)
      BY <2>1 DEF IInv, TypeOK, Numbers
    <2>2. CASE /\ jobs[j].marker # 0 /\ jobs'[j].marker # jobs[j].marker
               /\ runs' = [runs EXCEPT ![j][jobs[j].marker].disowned = TRUE]
      <3>1. jobs[j].marker \in Numbers
        BY <2>2 DEF IInv, TypeOK, Entries, Numbers
      <3>2. runs[j] \in [Numbers -> Runs] /\ runs[j][jobs[j].marker] \in Runs
        BY <3>1 DEF IInv, TypeOK
      <3>3. [runs[j][jobs[j].marker] EXCEPT !.disowned = TRUE] \in Runs
        BY <3>2 DEF Runs
      <3> QED BY <2>2, <3>1, <3>2, <3>3 DEF IInv, TypeOK, Runs
    <2> QED BY <2>1, <2>2 DEF Disown
  <1>5. TypeOK'
    BY <1>1, <1>2, <1>3, <1>4 DEF TypeOK
  <1>6. \A k \in Jobs : jobs'[k].marker \in {0, jobs[k].marker}
    BY <1>2
  <1>7. MarkerExact'
    <2>1. ASSUME NEW k \in Jobs, jobs'[k].marker # 0
          PROVE  runs'[k][jobs'[k].marker].phase \in {"queued", "running", "dropped"}
      <3>1. jobs'[k].marker = jobs[k].marker /\ jobs[k].marker \in Numbers
        BY <1>6, <2>1, <1>1 DEF TypeOK, Entries, Numbers
      <3> QED BY <2>1, <3>1, <1>4 DEF IInv, MarkerExact
    <2>2. ASSUME NEW k \in Jobs, NEW n \in Numbers,
                 Live(runs'[k][n]), ~runs'[k][n].disowned
          PROVE  jobs'[k].marker = n
      <3>1. Live(runs[k][n]) /\ ~runs[k][n].disowned
        <4>1. CASE runs'[k][n].disowned = runs[k][n].disowned
          BY <4>1, <2>2, <1>4 DEF Live
        <4>2. CASE runs'[k][n].disowned # runs[k][n].disowned
          BY <4>2, <2>2, <1>4
        <4> QED BY <4>1, <4>2
      <3>2. jobs[k].marker = n
        BY <3>1 DEF IInv, MarkerExact
      <3> QED BY <3>2, <2>2, <1>2, <1>4
    <2> QED BY <2>1, <2>2 DEF MarkerExact
  <1>8. DownInv' BY DEF DownInv
  <1>9. UsedInv'
    BY <1>2, <1>3 DEF IInv, UsedInv
  <1>10. ReadInv'
    BY <1>4, <1>6 DEF IInv, ReadInv, Numbers
  <1>11. DecisionsPersisted'
    BY <1>3 DEF DecisionsPersisted
  <1> QED BY <1>5, <1>7, <1>8, <1>9, <1>10, <1>11 DEF IInv

LEMMA AddStep ==
    ASSUME IInv, NEW j \in Jobs, NEW enabled \in BOOLEAN, AddJob(j, enabled)
    PROVE  IInv'
  <1> DEFINE e == [state |-> IF enabled THEN "enabled" ELSE "disabled", marker |-> 0]
  <1>1. e \in Entries /\ e.marker = 0 /\ e.state # "absent"
    BY DEF Entries
  <1>2. jobs[j].marker = 0
    BY DEF IInv, UsedInv, AddJob
  <1>3. /\ Commit([jobs EXCEPT ![j] = e]) /\ up /\ runs' = runs
        /\ used' = used \cup {j}
        /\ UNCHANGED <<up, stopped, storage, lastScan, seen, fires, notes>>
    BY DEF AddJob, Serving
  <1>4. used \subseteq Jobs BY DEF IInv, TypeOK
  <1> HIDE DEF e
  <1> QED BY <1>1, <1>2, <1>3, <1>4, CommandStep

LEMMA RemoveStep == ASSUME IInv, NEW j \in Jobs, RemoveJob(j) PROVE IInv'
  <1>1. Absent \in Entries /\ Absent.marker = 0 /\ Absent.state = "absent"
    BY TableTypes DEF Absent
  <1>2. used \subseteq Jobs BY DEF IInv, TypeOK
  <1> QED BY <1>1, <1>2, CommandStep DEF RemoveJob, Serving

LEMMA SetEnabledStep ==
    ASSUME IInv, NEW j \in Jobs, NEW enabled \in BOOLEAN, SetJobEnabled(j, enabled)
    PROVE  IInv'
  <1> DEFINE e == IF enabled THEN [jobs[j] EXCEPT !.state = "enabled"]
                             ELSE [state |-> "disabled", marker |-> 0]
  <1>1. /\ e \in Entries /\ e.marker \in {0, jobs[j].marker} /\ e.state # "absent"
    BY DEF IInv, TypeOK, Entries
  <1>2. j \in used /\ used \subseteq Jobs
    BY DEF IInv, TypeOK, UsedInv, SetJobEnabled
  <1>3. /\ Commit([jobs EXCEPT ![j] = e]) /\ up /\ Disown(j) /\ used' = used
        /\ UNCHANGED <<up, stopped, storage, lastScan, seen, fires, notes>>
    BY DEF SetJobEnabled, Serving
  <1> HIDE DEF e
  <1> QED BY <1>1, <1>2, <1>3, CommandStep

-----------------------------------------------------------------------------
(* The scan and the dispatch. *)

LEMMA ScanStep == ASSUME IInv, NEW now \in Times, Scan(now) PROVE IInv'
  <1> DEFINE F == Firing(now)
             next == [j \in Jobs |-> IF j \in F THEN [jobs[j] EXCEPT !.marker = fires[j] + 1]
                                                ELSE jobs[j]]
  <1>1. /\ F \subseteq Jobs
        /\ \A j \in F : /\ jobs[j].marker = 0 /\ jobs[j].state = "enabled"
                       /\ DueAt(j, now) # {} /\ DueAt(j, now) \subseteq Times
                       /\ fires[j] + 1 \in Numbers
    <2>1. F \subseteq Jobs /\ \A j \in F : /\ jobs[j].marker = 0 /\ jobs[j].state = "enabled"
                                         /\ DueAt(j, now) # {}
      BY DEF Firing, Due
    <2>2. \A j \in Jobs : DueAt(j, now) \subseteq Times
      BY DEF DueAt
    <2>3. \A j \in F : fires[j] < MaxRuns /\ fires[j] \in 0..MaxRuns
      BY <2>1 DEF Scan, IInv, TypeOK
    <2>4. \A j \in F : fires[j] + 1 \in Numbers
      BY <2>3 DEF Numbers
    <2> HIDE DEF F
    <2> QED BY <2>1, <2>2, <2>4
  <1>2. TypeOK /\ DecisionsPersisted BY DEF IInv
  <1>3. /\ next \in [Jobs -> Entries]
        /\ \A j \in Jobs : next[j].state = jobs[j].state
        /\ \A j \in F : next[j].marker = fires[j] + 1
        /\ \A j \in Jobs \ F : next[j] = jobs[j]
    BY <1>1, <1>2 DEF TypeOK, Entries, Numbers
  <1>4. /\ jobs' = next
        /\ file' \in [jobs : [Jobs -> Entries], readable : BOOLEAN, torn : BOOLEAN]
        /\ faults' \in 0..MaxFaults
        /\ \A j \in Jobs : file'.jobs[j].state # "absent" =>
              jobs[j].state # "absent" \/ file.jobs[j].state # "absent"
        /\ storage /\ up /\ ~file'.torn =>
              \A j \in Jobs : file'.jobs[j].state = jobs'[j].state
    <2>1. CASE Due(now) = {} /\ UNCHANGED <<jobs, file, faults>>
      <3>1. F = {} BY <2>1 DEF Firing
      <3>2. next = jobs BY <3>1, <1>2 DEF TypeOK
      <3> QED BY <2>1, <3>2, <1>2 DEF TypeOK, DecisionsPersisted
    <2>2. CASE Record(next)
      BY <2>2, <1>2, <1>3, RecordEffect
    <2> QED BY <2>1, <2>2 DEF Scan
  <1>5. /\ up' /\ lastScan' = now /\ UNCHANGED <<up, stopped, storage, seen, notes, used>>
        /\ fires' = [j \in Jobs |-> IF j \in F THEN fires[j] + 1 ELSE fires[j]]
    BY DEF Scan, Serving
  <1>6. /\ runs' \in [Jobs -> [Numbers -> Runs]]
        /\ \A j \in F : runs'[j][fires[j] + 1].phase = "queued"
        /\ \A j \in Jobs, n \in Numbers :
              ~(j \in F /\ n = fires[j] + 1) => runs'[j][n] = runs[j][n]
    <2> DEFINE first(j) == [NoRun EXCEPT !.phase = "queued",
                                         !.due = CHOOSE t \in DueAt(j, now) : TRUE]
    <2>1. \A j \in F : first(j) \in Runs /\ first(j).phase = "queued"
      <3> SUFFICES ASSUME NEW j \in F PROVE first(j) \in Runs /\ first(j).phase = "queued"
        OBVIOUS
      <3>1. (CHOOSE t \in DueAt(j, now) : TRUE) \in Times
        BY <1>1
      <3> QED BY <3>1, NoRunType DEF NoRun, Runs
    <2>2. runs' = [j \in Jobs |-> [n \in Numbers |->
                    IF j \in F /\ n = fires[j] + 1 THEN first(j) ELSE runs[j][n]]]
      BY DEF Scan
    <2> HIDE DEF first, F
    <2> QED BY <1>1, <1>2, <2>1, <2>2 DEF TypeOK
  <1> HIDE DEF F, next
  <1>7. TypeOK'
    BY <1>1, <1>2, <1>3, <1>4, <1>5, <1>6 DEF TypeOK, Numbers
  <1>8. MarkerExact'
    <2>1. ASSUME NEW j \in Jobs, jobs'[j].marker # 0
          PROVE  runs'[j][jobs'[j].marker].phase \in {"queued", "running", "dropped"}
      <3>1. CASE j \in F
        BY <3>1, <1>3, <1>4, <1>6
      <3>2. CASE j \notin F
        <4>1. jobs[j].marker = jobs'[j].marker /\ jobs[j].marker \in Numbers
          BY <3>2, <2>1, <1>2, <1>3, <1>4 DEF TypeOK, Entries, Numbers
        <4> QED BY <4>1, <3>2, <2>1, <1>6 DEF IInv, MarkerExact
      <3> QED BY <3>1, <3>2
    <2>2. ASSUME NEW j \in Jobs, NEW n \in Numbers, Live(runs'[j][n]), ~runs'[j][n].disowned
          PROVE  jobs'[j].marker = n
      <3>1. CASE j \in F /\ n = fires[j] + 1
        BY <3>1, <1>3, <1>4
      <3>2. CASE ~(j \in F /\ n = fires[j] + 1)
        <4>1. jobs[j].marker = n
          BY <3>2, <2>2, <1>6 DEF IInv, MarkerExact
        <4>2. n # 0 BY DEF Numbers
        <4>3. j \notin F BY <4>1, <4>2, <1>1
        <4> QED BY <4>1, <4>3, <1>3, <1>4
      <3> QED BY <3>1, <3>2
    <2> QED BY <2>1, <2>2 DEF MarkerExact
  <1>9. DownInv' BY <1>5, Zenon DEF DownInv
  <1>10. UsedInv'
    BY <1>1, <1>3, <1>4, <1>5 DEF IInv, UsedInv
  <1>11. ReadInv'
    <2> SUFFICES ASSUME NEW j \in Stateful, NEW n \in Numbers,
                        storage, jobs'[j].marker = n, runs'[j][n].phase = "running"
                 PROVE  runs'[j][n].read = notes[j]
      BY <1>5 DEF ReadInv
    <2>1. j \notin F
      BY <1>3, <1>4, <1>6
    <2> QED BY <2>1, <1>3, <1>4, <1>6 DEF IInv, ReadInv
  <1>12. DecisionsPersisted'
    BY <1>4, <1>5 DEF DecisionsPersisted
  <1> QED BY <1>7, <1>8, <1>9, <1>10, <1>11, <1>12 DEF IInv

LEMMA DropStep == ASSUME IInv, NEW j \in Jobs, NEW n \in Numbers, Drop(j, n) PROVE IInv'
  <1>1. /\ up /\ UNCHANGED <<up, stopped, jobs, storage, lastScan, seen, fires, file, notes,
                            used, faults>>
    BY DEF Drop, Serving
  <1>2. /\ runs' \in [Jobs -> [Numbers -> Runs]]
        /\ runs'[j][n].phase = "dropped"
        /\ \A k \in Jobs, i \in Numbers : ~(k = j /\ i = n) => runs'[k][i] = runs[k][i]
    BY NoRunType DEF Drop, IInv, TypeOK, Ended, NoRun
  <1>3. TypeOK' BY <1>1, <1>2 DEF IInv, TypeOK
  <1>4. MarkerExact'
    <2>1. ASSUME NEW k \in Jobs, jobs'[k].marker # 0
          PROVE  runs'[k][jobs'[k].marker].phase \in {"queued", "running", "dropped"}
      <3>1. jobs' = jobs /\ jobs[k].marker \in Numbers
        BY <2>1, <1>1 DEF IInv, TypeOK, Entries, Numbers
      <3> QED BY <2>1, <3>1, <1>2 DEF IInv, MarkerExact
    <2>2. ASSUME NEW k \in Jobs, NEW i \in Numbers, Live(runs'[k][i]), ~runs'[k][i].disowned
          PROVE  jobs'[k].marker = i
      <3>1. ~(k = j /\ i = n) BY <2>2, <1>2 DEF Live
      <3>2. jobs[k].marker = i
        BY <2>2, <3>1, <1>2 DEF IInv, MarkerExact
      <3> QED BY <3>2, <1>1
    <2> QED BY <2>1, <2>2 DEF MarkerExact
  <1>5. DownInv' /\ UsedInv' /\ ReadInv' /\ DecisionsPersisted'
    BY <1>1, <1>2 DEF IInv, DownInv, UsedInv, ReadInv, DecisionsPersisted
  <1> QED BY <1>3, <1>4, <1>5 DEF IInv

LEMMA DispatchStep ==
    ASSUME IInv, NEW j \in Jobs, NEW n \in Numbers, Dispatch(j, n) PROVE IInv'
  <1>1. /\ up /\ UNCHANGED <<up, stopped, jobs, storage, lastScan, fires, file, notes,
                            used, faults>>
    BY DEF Dispatch, Serving
  <1>2. NotesFor(j) \in 0..MaxRuns
    BY DEF NotesFor, IInv, TypeOK
  <1>3. runs[j][n] \in Runs /\ runs[j][n].phase = "queued"
    BY DEF Dispatch, IInv, TypeOK
  <1>4. /\ runs' \in [Jobs -> [Numbers -> Runs]]
        /\ runs'[j][n].phase = "running" /\ runs'[j][n].read = NotesFor(j)
        /\ runs'[j][n].disowned = runs[j][n].disowned
        /\ \A k \in Jobs, i \in Numbers : ~(k = j /\ i = n) => runs'[k][i] = runs[k][i]
    <2> DEFINE r == [runs[j][n] EXCEPT !.phase = "running", !.read = NotesFor(j)]
    <2>1. /\ r \in Runs /\ r.phase = "running" /\ r.read = NotesFor(j)
          /\ r.disowned = runs[j][n].disowned
      BY <1>2, <1>3 DEF Runs
    <2>2. runs' = [runs EXCEPT ![j][n] = r] BY DEF Dispatch
    <2> HIDE DEF r
    <2> QED BY <2>1, <2>2 DEF IInv, TypeOK
  <1>5. TypeOK'
    <2>1. seen' \subseteq Jobs \X Times
      BY <1>3 DEF Dispatch, IInv, TypeOK, Runs
    <2> QED BY <1>1, <1>4, <2>1 DEF IInv, TypeOK
  <1>6. MarkerExact'
    <2>1. ASSUME NEW k \in Jobs, jobs'[k].marker # 0
          PROVE  runs'[k][jobs'[k].marker].phase \in {"queued", "running", "dropped"}
      <3>1. jobs' = jobs /\ jobs[k].marker \in Numbers
        BY <2>1, <1>1 DEF IInv, TypeOK, Entries, Numbers
      <3> QED BY <2>1, <3>1, <1>4 DEF IInv, MarkerExact
    <2>2. ASSUME NEW k \in Jobs, NEW i \in Numbers, Live(runs'[k][i]), ~runs'[k][i].disowned
          PROVE  jobs'[k].marker = i
      <3>1. Live(runs[k][i]) /\ ~runs[k][i].disowned
        BY <2>2, <1>3, <1>4 DEF Live
      <3>2. jobs[k].marker = i
        BY <3>1 DEF IInv, MarkerExact
      <3> QED BY <3>2, <1>1
    <2> QED BY <2>1, <2>2 DEF MarkerExact
  <1>7. ReadInv'
    <2> SUFFICES ASSUME NEW k \in Stateful, NEW i \in Numbers,
                        storage, jobs[k].marker = i, runs'[k][i].phase = "running"
                 PROVE  runs'[k][i].read = notes[k]
      BY <1>1 DEF ReadInv
    <2>1. CASE k = j /\ i = n
      <3>1. jobs[j].state # "absent"
        BY <2>1 DEF IInv, UsedInv, Numbers
      <3> QED BY <2>1, <3>1, <1>4 DEF NotesFor
    <2>2. CASE ~(k = j /\ i = n)
      BY <2>2, <1>4 DEF IInv, ReadInv
    <2> QED BY <2>1, <2>2
  <1>8. DownInv' /\ UsedInv' /\ DecisionsPersisted'
    BY <1>1 DEF IInv, DownInv, UsedInv, DecisionsPersisted
  <1> QED BY <1>5, <1>6, <1>7, <1>8 DEF IInv

-----------------------------------------------------------------------------
(* Run n of job j ends: its marker, if it is the job's, is cleared, and the *)
(* notes change only under that marker.                                     *)
LEMMA EndingStep ==
    ASSUME IInv, NEW j \in Jobs, NEW n \in Numbers, up,
           MarkCompleted(j, n), Over(j, n),
           notes' \in [Jobs -> 0..MaxRuns],
           notes' # notes => jobs[j].marker = n,
           \A k \in Jobs \ {j} : notes'[k] = notes[k],
           UNCHANGED <<up, stopped, storage, lastScan, seen, fires, used>>
    PROVE  IInv'
  <1> DEFINE next == [jobs EXCEPT ![j].marker = 0]
  <1>1. TypeOK /\ DecisionsPersisted BY DEF IInv
  <1>2. /\ next \in [Jobs -> Entries]
        /\ \A k \in Jobs : next[k].state = jobs[k].state
        /\ next[j].marker = 0
        /\ \A k \in Jobs \ {j} : next[k] = jobs[k]
    BY <1>1 DEF TypeOK, Entries
  <1>3. /\ jobs' = IF jobs[j].marker = n THEN next ELSE jobs
        /\ file' \in [jobs : [Jobs -> Entries], readable : BOOLEAN, torn : BOOLEAN]
        /\ faults' \in 0..MaxFaults
        /\ \A k \in Jobs : file'.jobs[k].state # "absent" =>
              jobs[k].state # "absent" \/ file.jobs[k].state # "absent"
        /\ storage /\ up /\ ~file'.torn =>
              \A k \in Jobs : file'.jobs[k].state = jobs'[k].state
    <2>1. CASE jobs[j].marker = n /\ Record(next)
      BY <2>1, <1>1, <1>2, RecordEffect
    <2>2. CASE jobs[j].marker # n /\ UNCHANGED <<jobs, file, faults>>
      BY <2>2, <1>1 DEF TypeOK, DecisionsPersisted
    <2> QED BY <2>1, <2>2 DEF MarkCompleted
  <1>4. /\ runs' \in [Jobs -> [Numbers -> Runs]]
        /\ runs'[j][n].phase = "over"
        /\ \A k \in Jobs, i \in Numbers : ~(k = j /\ i = n) => runs'[k][i] = runs[k][i]
    BY <1>1, NoRunType DEF Over, TypeOK, Ended, NoRun
  <1> HIDE DEF next
  <1>5. /\ jobs' \in [Jobs -> Entries]
        /\ \A k \in Jobs : /\ jobs'[k].state = jobs[k].state
                          /\ jobs'[k].marker \in {0, jobs[k].marker}
        /\ jobs'[j].marker # n
    <2>1. CASE jobs[j].marker = n
      <3>1. jobs' = next BY <2>1, <1>3
      <3>2. n # 0 BY DEF Numbers
      <3> QED BY <3>1, <3>2, <1>2
    <2>2. CASE jobs[j].marker # n
      <3>1. jobs' = jobs BY <2>2, <1>3
      <3> QED BY <2>2, <3>1, <1>1 DEF TypeOK
    <2> QED BY <2>1, <2>2
  <1>6. TypeOK' BY <1>1, <1>3, <1>4, <1>5 DEF TypeOK
  <1>7. MarkerExact'
    <2>1. ASSUME NEW k \in Jobs, jobs'[k].marker # 0
          PROVE  runs'[k][jobs'[k].marker].phase \in {"queued", "running", "dropped"}
      <3>0. jobs'[k].marker = jobs[k].marker
        BY <2>1, <1>5
      <3>1. jobs'[k].marker = jobs[k].marker /\ jobs[k].marker \in Numbers
        BY <3>0, <2>1, <1>1 DEF TypeOK, Entries, Numbers
      <3>2. ~(k = j /\ jobs[k].marker = n) BY <3>1, <1>5
      <3> QED BY <2>1, <3>1, <3>2, <1>4 DEF IInv, MarkerExact
    <2>2. ASSUME NEW k \in Jobs, NEW i \in Numbers, Live(runs'[k][i]), ~runs'[k][i].disowned
          PROVE  jobs'[k].marker = i
      <3>1. ~(k = j /\ i = n) BY <2>2, <1>4 DEF Live
      <3>2. jobs[k].marker = i BY <2>2, <3>1, <1>4 DEF IInv, MarkerExact
      <3> QED BY <3>1, <3>2, <1>2, <1>3
    <2> QED BY <2>1, <2>2 DEF MarkerExact
  <1>8. ReadInv'
    <2> SUFFICES ASSUME NEW k \in Stateful, NEW i \in Numbers,
                        storage, jobs'[k].marker = i, runs'[k][i].phase = "running"
                 PROVE  runs'[k][i].read = notes'[k]
      BY DEF ReadInv
    <2>1. i # 0 /\ k \in Jobs BY DEF Numbers
    <2>2. jobs[k].marker = i
      <3>1. jobs'[k].marker = 0 \/ jobs'[k].marker = jobs[k].marker BY <2>1, <1>5
      <3> QED BY <2>1, <3>1
    <2>3. ~(k = j /\ i = n) BY <1>4
    <2>4. runs'[k][i].read = notes[k]
      BY <2>1, <2>2, <2>3, <1>4 DEF IInv, ReadInv
    <2>5. notes'[k] = notes[k]
      BY <2>1, <2>2, <2>3
    <2> QED BY <2>4, <2>5
  <1>9. DownInv' BY Zenon DEF DownInv
  <1>10. UsedInv'
    <2>1. \A k \in Jobs : jobs'[k].marker # 0 => jobs[k].marker # 0
      BY <1>5
    <2>2. used' = used OBVIOUS
    <2>5. \A k \in Jobs : jobs'[k].state = jobs[k].state
      <3>1. CASE jobs[j].marker = n BY <3>1, <1>2, <1>3
      <3>2. CASE jobs[j].marker # n BY <3>2, <1>3
      <3> QED BY <3>1, <3>2
    <2>3. \A k \in Jobs :
             jobs'[k].state # "absent" \/ file'.jobs[k].state # "absent" => k \in used'
      BY <2>2, <2>5, <1>3 DEF IInv, UsedInv
    <2>4. \A k \in Jobs : jobs'[k].marker # 0 => jobs'[k].state # "absent"
      BY <2>1, <2>5 DEF IInv, UsedInv
    <2> QED BY <2>3, <2>4, Zenon DEF UsedInv
  <1>11. DecisionsPersisted'
    BY <1>3 DEF DecisionsPersisted
  <1> QED BY <1>6, <1>7, <1>8, <1>9, <1>10, <1>11 DEF IInv

LEMMA NotesEffect ==
    ASSUME IInv, NEW j \in Jobs, NEW n \in Numbers, KeepNotes(j, n)
    PROVE  /\ notes' \in [Jobs -> 0..MaxRuns]
           /\ notes' # notes => jobs[j].marker = n /\ j \in Stateful /\ storage
           /\ \A k \in Jobs \ {j} : notes'[k] = notes[k]
  <1>1. notes \in [Jobs -> 0..MaxRuns] /\ n \in 0..MaxRuns /\ 0 \in 0..MaxRuns
    BY DEF IInv, TypeOK, Numbers
  <1>2. CASE notes' = notes
    BY <1>1, <1>2
  <1>3. ASSUME NEW v \in {0, n}, notes' = [notes EXCEPT ![j] = v],
               JobForTrace(j, n), j \in Stateful, storage
        PROVE  /\ notes' \in [Jobs -> 0..MaxRuns]
               /\ jobs[j].marker = n
               /\ \A k \in Jobs \ {j} : notes'[k] = notes[k]
    BY <1>1, <1>3 DEF JobForTrace
  <1> QED BY <1>2, <1>3 DEF KeepNotes

LEMMA CompleteStep ==
    ASSUME IInv, NEW j \in Jobs, NEW n \in Numbers, Complete(j, n) PROVE IInv'
  BY EndingStep, NotesEffect DEF Complete

LEMMA FailStep ==
    ASSUME IInv, NEW j \in Jobs, NEW n \in Numbers, Fail(j, n) PROVE IInv'
  <1>1. notes' = notes /\ notes \in [Jobs -> 0..MaxRuns]
    BY DEF Fail, IInv, TypeOK
  <1> QED BY <1>1, EndingStep DEF Fail

-----------------------------------------------------------------------------
LEMMA NextIInv == ASSUME IInv, [Next]_vars PROVE IInv'
  <1>1. ASSUME NEW now \in Times, Start(now) \/ Scan(now) PROVE IInv'
    BY <1>1, StartStep, ScanStep
  <1>2. CASE Stop \/ ProcessEnds
    BY <1>2, StopStep, EndsStep
  <1>3. ASSUME NEW j \in Jobs, NEW enabled \in BOOLEAN,
               AddJob(j, enabled) \/ SetJobEnabled(j, enabled)
        PROVE  IInv'
    BY <1>3, AddStep, SetEnabledStep
  <1>4. ASSUME NEW j \in Jobs, RemoveJob(j) PROVE IInv'
    BY <1>4, RemoveStep
  <1>5. ASSUME NEW j \in Jobs, NEW n \in Numbers,
               Drop(j, n) \/ Dispatch(j, n) \/ Complete(j, n) \/ Fail(j, n)
        PROVE  IInv'
    BY <1>5, DropStep, DispatchStep, CompleteStep, FailStep
  <1>6. CASE UNCHANGED vars
    BY <1>6 DEF vars, IInv, TypeOK, MarkerExact, DownInv, UsedInv, ReadInv,
                DecisionsPersisted
  <1> QED BY <1>1, <1>2, <1>3, <1>4, <1>5, <1>6 DEF Next

LEMMA AlwaysIInv == Spec => []IInv
  BY InitInv, NextIInv, PTL DEF Spec

(* The state of the registry, the sidecar and the runs keeps its types, for *)
(* any jobs, schedules and bounds.                                          *)
THEOREM CronTypeCorrect == Spec => []TypeOK
  <1>1. IInv => TypeOK BY DEF IInv
  <1> QED BY <1>1, AlwaysIInv, PTL

(* The overlap rule of dueJobs rests on a marker that names exactly the run *)
(* going on, whatever order scans, commands, endings and restarts come in.  *)
THEOREM CronMarkerExact == Spec => []MarkerExact
  <1>1. IInv => MarkerExact BY DEF IInv
  <1> QED BY <1>1, AlwaysIInv, PTL

(* What insertJob, removeJob and setJobEnabled accepted is what the sidecar *)
(* holds, however many writes fail, unless it was cut short since.          *)
THEOREM CronDecisionsPersisted == Spec => []DecisionsPersisted
  <1>1. IInv => DecisionsPersisted BY DEF IInv
  <1> QED BY <1>1, AlwaysIInv, PTL

(* The notes of a job are replaced only at the end of a run which had them  *)
(* in its prompt: the listener looks the job up by its marker.              *)
THEOREM CronNotesNotLost == Spec => NotesNotLost
  <1>1. ASSUME IInv, [Next]_vars, NEW k \in Jobs, notes'[k] # notes[k]
        PROVE  \E n \in Numbers : /\ runs[k][n].phase = "running"
                                  /\ runs'[k][n].phase = "over"
                                  /\ runs[k][n].read = notes[k]
    <2>1. PICK j \in Jobs, n \in Numbers : Complete(j, n)
      BY <1>1 DEF Next, vars, Start, Scan, Stop, ProcessEnds, AddJob, SetJobEnabled,
                  RemoveJob, Drop, Dispatch, Fail
    <2>2. /\ k = j /\ jobs[j].marker = n /\ j \in Stateful /\ storage
      BY <1>1, <2>1, NotesEffect DEF Complete
    <2>3. runs[j][n].phase = "running" BY <2>1 DEF Complete
    <2>4. runs'[j][n].phase = "over"
      BY <1>1, <2>1 DEF Complete, Over, IInv, TypeOK, Ended, NoRun
    <2>5. runs[j][n].read = notes[j]
      BY <1>1, <2>2, <2>3 DEF IInv, ReadInv
    <2> QED BY <2>2, <2>3, <2>4, <2>5
  <1>2. IInv /\ [Next]_vars => NotesWereRead
    BY <1>1 DEF NotesWereRead
  <1> QED BY <1>2, AlwaysIInv, PTL DEF Spec, NotesNotLost
=============================================================================
