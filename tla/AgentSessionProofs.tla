------------------------- MODULE AgentSessionProofs -------------------------
(***************************************************************************)
(* AgentSession: prompts that do not overlap never fail by themselves, and *)
(* results of shell commands stay out of a request and of a tool batch,    *)
(* for any number of calls, retries, and settings.                         *)
(***************************************************************************)
EXTENDS AgentSession, SequenceTheorems, FiniteSetTheorems, TLAPS

(* The agent runs exactly while a call waits for the run. *)
RunInv ==
    /\ phase # "idle" => owner \in Calls
    /\ \A c \in Calls : pc[c] = "running" <=> phase # "idle" /\ owner = c

(* A controller of a backoff belongs to a call that is in one. *)
RetryInv == retryCtl # NoCall => pc[retryCtl] = "backoff"

(* The last reply of a run is an error only once the run is closing. *)
LastInv ==
    /\ phase = "idle" => last = "none"
    /\ phase # "closing" => last \notin Errors

(* The run holds a message exactly while it is about to start one. *)
HeldInv == held # NoCall <=> phase \in {"opening", "starting"}

BashInv == pendingBash <= bash

(* Prompts that do not overlap are in progress one at a time. *)
Alone == \A c, d \in Calls : InProgress(c) /\ InProgress(d) => c = d

(* What the transcript ends with while one prompt is in progress: the error *)
(* the run has ended with; nothing that has to be answered, during a        *)
(* backoff; never nothing, once the run has started its message; and, unless *)
(* a silent overflow was recovered from, nothing that a compaction would    *)
(* bring back in the way.                                                   *)
TailInv ==
    /\ phase = "closing" /\ last \in Errors => tail = last
    /\ \A c \in Calls :
          /\ pc[c] = "backoff" => tail = "open"
          /\ pc[c] \in {"checking", "compacting"} => tail # "none"
          /\ pc[c] = "running" => tail # "none" \/ phase = "opening"
          /\ pc[c] \in {"checking", "compacting"} /\ reason[c] = "overflow" /\ ~silent
                => tail \in {"open", "cutError"}
    /\ ~silent => tail # "cut"

Thrown == {"refused", "failed"}

NoneFailed == ~silent => \A c \in Calls : pc[c] \notin Thrown

(* Run, owner and backoff stay together, whether or not prompts overlap. *)
LifeInv == RunInv /\ RetryInv /\ LastInv /\ HeldInv

QuietInv == ~overlapped => Alone /\ TailInv /\ NoneFailed

IInv == TypeOK /\ BashInv /\ LifeInv /\ QuietInv
-----------------------------------------------------------------------------
Places == {"idle", "checking", "compacting", "hooking", "running", "backoff",
           "queued", "done", "refused", "unready", "failed"}

Phases == {"idle", "opening", "polling", "starting", "asking", "tools", "closing"}

Tails == {"none", "open", "cut", "cutError"} \cup Reply

(* Taking the first message of a queue leaves a queue. *)
LEMMA TailType ==
    ASSUME NEW s \in Seq(Calls), s # <<>> PROVE Tail(s) \in Seq(Calls) /\ Head(s) \in Calls
  BY HeadTailProperties

LEMMA InitInv == Init => IInv
  <1> SUFFICES ASSUME Init PROVE IInv OBVIOUS
  <1> USE SettingsAssumption, NoCallAssumption, BoundAssumption DEF Init
  <1>0. /\ attempts \in 0..MaxRetries /\ pendingBash \in 0..MaxBash /\ toolTurns \in 0..MaxToolTurns
        /\ aborts \in 0..MaxAborts /\ bash \in 0..MaxBash
    OBVIOUS
  <1>1. TypeOK
    <2>1. steering \in Seq(Calls) /\ followUps \in Seq(Calls) BY EmptySeq
    <2>2. /\ pc \in [Calls -> Places] /\ sent \in [Calls -> BOOLEAN]
          /\ reason \in [Calls -> {"none", "overflow", "threshold"}] /\ delivered \in [Calls -> Nat]
      BY DEF Places
    <2>3. /\ phase \in Phases
          /\ owner \in Calls \cup {NoCall} /\ aborted \in BOOLEAN
          /\ tail \in Tails /\ last \in {"none", "silent", "aborted"} \cup Reply
          /\ recovered \in BOOLEAN /\ overlapped \in BOOLEAN /\ silent \in BOOLEAN
          /\ retryCtl \in Calls \cup {NoCall} /\ returned \in [Calls -> Nat]
          /\ held \in Calls \cup {NoCall} /\ mirror \subseteq Calls /\ caught \subseteq Calls
      BY DEF Tails, Phases
    <2> QED BY <1>0, <2>1, <2>2, <2>3 DEF TypeOK, Places, Phases, Tails
  <1>2. LifeInv /\ BashInv
    BY DEF LifeInv, RunInv, RetryInv, LastInv, HeldInv, BashInv, Errors
  <1>3. QuietInv BY DEF QuietInv, Alone, TailInv, NoneFailed, Thrown, InProgress
  <1> QED BY <1>1, <1>2, <1>3 DEF IInv

-----------------------------------------------------------------------------
(* What the parts an action is made of do to the types. *)

LEMMA AtType ==
    ASSUME TypeOK, NEW c, NEW where \in Places, At(c, where)
    PROVE  pc' \in [Calls -> Places]
  BY DEF TypeOK, At, Places

LEMMA LeaveType ==
    ASSUME TypeOK, NEW c, Leave(c) \/ Throw(c)
    PROVE  pc' \in [Calls -> Places]
  BY AtType DEF Leave, Throw, Places

LEMMA FlushedType ==
    ASSUME NEW t \in Tails PROVE Flushed(t) \in Tails
  BY DEF Flushed, Tails

LEMMA FlushType ==
    ASSUME TypeOK, BashInv, NEW c, FlushBash(c)
    PROVE  pendingBash' \in 0..MaxBash /\ pendingBash' \in {0, pendingBash}
  BY BoundAssumption DEF TypeOK, FlushBash

QueuesTyped ==
    /\ steering \in Seq(Calls) /\ followUps \in Seq(Calls)
    /\ held \in Calls \cup {NoCall} /\ mirror \subseteq Calls /\ caught \subseteq Calls
    /\ delivered \in [Calls -> Nat] /\ returned \in [Calls -> Nat]

LEMMA TakeType ==
    ASSUME QueuesTyped, TakeSteering \/ TakeFollowUp
    PROVE  QueuesTyped' /\ held' \in Calls
  BY TailType DEF QueuesTyped, TakeSteering, TakeFollowUp, editorVars

LEMMA PollType ==
    ASSUME QueuesTyped, PollSteering
    PROVE  QueuesTyped' /\ phase' \in {"starting", "asking"}
  <1>1. CASE TakeSteering /\ phase' = "starting" BY <1>1, TakeType
  <1>2. CASE phase' = "asking" /\ UNCHANGED queueVars
    BY <1>2 DEF QueuesTyped, queueVars, editorVars
  <1> QED BY <1>1, <1>2 DEF PollSteering

LEMMA StartType ==
    ASSUME TypeOK, NEW c \in Calls, NEW at \in Phases, StartRun(c, at)
    PROVE  /\ phase' \in Phases /\ owner' \in Calls \cup {NoCall} /\ aborted' \in BOOLEAN
           /\ pc' \in [Calls -> Places]
  BY AtType DEF StartRun, Places

LEMMA ContinueType ==
    ASSUME TypeOK, BashInv, NEW c \in Calls, NEW t \in Tails, Continue(c, t)
    PROVE  /\ phase' \in Phases
           /\ owner' \in Calls \cup {NoCall} /\ aborted' \in BOOLEAN
           /\ pc' \in [Calls -> Places] /\ tail' \in Tails /\ recovered' \in BOOLEAN
           /\ QueuesTyped'
           /\ pendingBash' \in 0..MaxBash /\ pendingBash' \in {0, pendingBash}
  <1>0. /\ QueuesTyped /\ phase \in Phases /\ owner \in Calls \cup {NoCall}
        /\ aborted \in BOOLEAN /\ recovered \in BOOLEAN
        /\ pendingBash \in 0..MaxBash
    BY DEF TypeOK, QueuesTyped, Phases
  <1>k. UNCHANGED queueVars => QueuesTyped' BY <1>0 DEF QueuesTyped, queueVars, editorVars
  <1>1. CASE Throw(c) /\ FlushBash(c) /\ tail' = Flushed(t)
             /\ UNCHANGED <<runVars, recovered, queueVars>>
    BY <1>0, <1>k, <1>1, LeaveType, FlushType, FlushedType DEF runVars
  <1>2. CASE /\ \/ TakeSteering /\ StartRun(c, "starting")
                \/ TakeFollowUp /\ StartRun(c, "opening")
                \/ StartRun(c, "polling") /\ UNCHANGED queueVars
             /\ tail' = t /\ UNCHANGED <<recovered, pendingBash>>
    <2>1. QueuesTyped' BY <1>0, <1>k, <1>2, TakeType
    <2>2. \E at \in Phases : StartRun(c, at) BY <1>2 DEF Phases
    <2> QED BY <1>0, <1>2, <2>1, <2>2, StartType
  <1> QED BY <1>1, <1>2 DEF Continue

LEMMA CheckType ==
    ASSUME TypeOK, NEW c \in Calls, NEW m, NEW skip, NEW t \in Tails,
           NEW at \in {"checking", "compacting"}, CheckCompaction(c, m, skip, at, t)
    PROVE  /\ pc' \in [Calls -> Places] /\ tail' \in Tails
           /\ recovered' \in BOOLEAN /\ silent' \in BOOLEAN
           /\ reason' \in [Calls -> {"none", "overflow", "threshold"}]
  <1>0. recovered \in BOOLEAN /\ silent \in BOOLEAN /\ reason \in [Calls -> {"none", "overflow", "threshold"}]
    BY DEF TypeOK
  <1>1. CASE MustRecover(m) /\ recovered' = TRUE /\ silent' = (silent \/ m = "silent")
             /\ tail' = (CASE t \in Errors -> "cutError" [] t = "answer" -> "cut" [] OTHER -> t)
             /\ At(c, at) /\ reason' = [reason EXCEPT ![c] = "overflow"]
    <2>1. pc' \in [Calls -> Places] BY <1>1, AtType DEF Places
    <2>2. tail' \in Tails BY <1>1 DEF Tails, Reply
    <2>3. silent' \in BOOLEAN BY <1>0, <1>1
    <2> QED BY <1>0, <1>1, <2>1, <2>2, <2>3
  <1>2. CASE /\ At(c, at) /\ reason' = [reason EXCEPT ![c] = "threshold"]
             /\ tail' = t /\ UNCHANGED <<recovered, silent>>
    <2>1. pc' \in [Calls -> Places] BY <1>2, AtType DEF Places
    <2> QED BY <1>0, <1>2, <2>1
  <1>3. CASE Leave(c) /\ tail' = Flushed(t) /\ UNCHANGED <<recovered, silent, reason>>
    BY <1>0, <1>3, LeaveType, FlushedType
  <1> QED BY <1>1, <1>2, <1>3 DEF CheckCompaction

LEMMA AfterRunType ==
    ASSUME TypeOK, BashInv, NEW c \in Calls, AfterRun(c)
    PROVE  /\ last' = "none" /\ attempts' \in 0..MaxRetries
           /\ pc' \in [Calls -> Places] /\ tail' \in Tails
           /\ recovered' \in BOOLEAN /\ silent' \in BOOLEAN
           /\ reason' \in [Calls -> {"none", "overflow", "threshold"}]
           /\ retryCtl' \in Calls \cup {NoCall}
           /\ pendingBash' \in 0..MaxBash /\ pendingBash' \in {0, pendingBash}
  <1>0. /\ recovered \in BOOLEAN /\ silent \in BOOLEAN /\ attempts \in 0..MaxRetries
        /\ reason \in [Calls -> {"none", "overflow", "threshold"}]
        /\ retryCtl \in Calls \cup {NoCall} /\ tail \in Tails
    BY DEF TypeOK, Tails
  <1>1. /\ last' = "none"
        /\ pendingBash' \in 0..MaxBash /\ pendingBash' \in {0, pendingBash}
    BY FlushType DEF AfterRun
  <1>2. CASE Leave(c) /\ tail' = Flushed(tail)
             /\ UNCHANGED <<attempts, recovered, silent, reason, retryCtl>>
    BY <1>0, <1>1, <1>2, LeaveType, FlushedType
  <1>3. CASE /\ Retries(last) /\ attempts' = attempts + 1 /\ RewindFailedAssistant
             /\ At(c, "backoff") /\ retryCtl' = c
             /\ UNCHANGED <<recovered, silent, reason>>
    <2>1. attempts' \in 0..MaxRetries BY <1>0, <1>3, SettingsAssumption DEF Retries
    <2>2. tail' \in Tails BY <1>0, <1>3 DEF RewindFailedAssistant, Tails
    <2>3. pc' \in [Calls -> Places] BY <1>3, AtType DEF Places
    <2> QED BY <1>0, <1>1, <1>3, <2>1, <2>2, <2>3
  <1>4. CASE /\ attempts' = (IF last \in Errors THEN 0 ELSE attempts)
             /\ CheckCompaction(c, last, TRUE, "compacting", tail) /\ UNCHANGED retryCtl
    <2>1. attempts' \in 0..MaxRetries BY <1>0, <1>4, SettingsAssumption
    <2> QED BY <1>0, <1>1, <1>4, <2>1, CheckType
  <1> QED BY <1>2, <1>3, <1>4 DEF AfterRun

(* The conjuncts of TypeOK, grouped as the actions leave them unchanged. *)
RunTyped ==
    /\ phase \in Phases
    /\ owner \in Calls \cup {NoCall} /\ aborted \in BOOLEAN

SessionTyped ==
    /\ tail \in Tails /\ last \in {"none", "silent", "aborted"} \cup Reply
    /\ attempts \in 0..MaxRetries /\ recovered \in BOOLEAN /\ silent \in BOOLEAN

CallsTyped ==
    /\ pc \in [Calls -> Places] /\ sent \in [Calls -> BOOLEAN]
    /\ reason \in [Calls -> {"none", "overflow", "threshold"}]
    /\ retryCtl \in Calls \cup {NoCall}

BoundsTyped ==
    /\ pendingBash \in 0..MaxBash
    /\ toolTurns \in 0..MaxToolTurns /\ aborts \in 0..MaxAborts /\ bash \in 0..MaxBash
    /\ overlapped \in BOOLEAN
    /\ pendingBash <= bash

LEMMA TypeParts ==
    TypeOK /\ BashInv <=> RunTyped /\ SessionTyped /\ QueuesTyped /\ CallsTyped /\ BoundsTyped
  BY DEF TypeOK, BashInv, RunTyped, SessionTyped, QueuesTyped, CallsTyped, BoundsTyped,
         Places, Phases, Tails

LEMMA SameTyped ==
    /\ RunTyped /\ UNCHANGED runVars => RunTyped'
    /\ SessionTyped /\ UNCHANGED sessionVars => SessionTyped'
    /\ QueuesTyped /\ UNCHANGED queueVars => QueuesTyped'
    /\ CallsTyped /\ UNCHANGED callVars => CallsTyped'
  <1>1. RunTyped /\ UNCHANGED runVars => RunTyped' BY DEF runVars, RunTyped
  <1>2. SessionTyped /\ UNCHANGED sessionVars => SessionTyped' BY DEF sessionVars, SessionTyped
  <1>3. QueuesTyped /\ UNCHANGED queueVars => QueuesTyped' BY DEF queueVars, editorVars, QueuesTyped
  <1>4. CallsTyped /\ UNCHANGED callVars => CallsTyped' BY DEF callVars, CallsTyped
  <1> QED BY <1>1, <1>2, <1>3, <1>4

LEMMA RepliedType ==
    ASSUME NEW kind \in {"answer", "silent", "aborted"}, SessionTyped, Replied(kind)
    PROVE  /\ last' \in {"none", "silent", "aborted"} \cup Reply
           /\ attempts' \in 0..MaxRetries /\ recovered' \in BOOLEAN /\ silent' \in BOOLEAN
  <1>1. attempts' \in 0..MaxRetries BY SettingsAssumption DEF Replied
  <1>2. silent' \in BOOLEAN BY DEF Replied, SessionTyped
  <1> QED BY <1>1, <1>2 DEF Replied, Reply

LEMMA OverlapType ==
    ASSUME NEW c \in Calls, MarkOverlap(c), overlapped \in BOOLEAN PROVE overlapped' \in BOOLEAN
  BY DEF MarkOverlap

LEMMA TypeStep == ASSUME TypeOK, BashInv, RunInv, [Next]_vars PROVE TypeOK' /\ BashInv'
  <1> USE BoundAssumption
  <1>0. RunTyped /\ SessionTyped /\ QueuesTyped /\ CallsTyped /\ BoundsTyped BY TypeParts
  <1> SUFFICES RunTyped' /\ SessionTyped' /\ QueuesTyped' /\ CallsTyped' /\ BoundsTyped'
    <2>1. (TypeOK /\ BashInv)' <=> (RunTyped /\ SessionTyped /\ QueuesTyped /\ CallsTyped /\ BoundsTyped)'
      BY DEF TypeOK, BashInv, RunTyped, SessionTyped, QueuesTyped, CallsTyped, BoundsTyped,
             Places, Phases, Tails
    <2> QED BY <2>1
  <1>1. ASSUME NEW c \in Calls, Queue(c)
        PROVE  RunTyped' /\ SessionTyped' /\ QueuesTyped' /\ CallsTyped' /\ BoundsTyped'
    <2>1. RunTyped' /\ SessionTyped' BY <1>0, <1>1, SameTyped DEF Queue
    <2>2. QueuesTyped'
      <3>1. Append(followUps, c) \in Seq(Calls) /\ Append(steering, c) \in Seq(Calls)
        BY <1>0, AppendProperties DEF QueuesTyped
      <3> QED BY <1>0, <1>1, <3>1 DEF Queue, QueuesTyped
    <2>3. pc' \in [Calls -> Places] BY <1>1, AtType DEF Queue, Places
    <2>4. CallsTyped' BY <1>0, <1>1, <2>3 DEF Queue, CallsTyped
    <2>5. BoundsTyped' BY <1>0, <1>1 DEF Queue, BoundsTyped, boundVars
    <2> QED BY <2>1, <2>2, <2>4, <2>5
  <1>2. ASSUME NEW c \in Calls, Refuse(c)
        PROVE  RunTyped' /\ SessionTyped' /\ QueuesTyped' /\ CallsTyped' /\ BoundsTyped'
    <2>1. RunTyped' /\ SessionTyped' /\ QueuesTyped' BY <1>0, <1>2, SameTyped DEF Refuse
    <2>2. pc' \in [Calls -> Places] BY <1>2, AtType DEF Refuse, Places
    <2>3. CallsTyped' BY <1>0, <1>2, <2>2 DEF Refuse, CallsTyped
    <2>4. BoundsTyped' BY <1>0, <1>2, OverlapType DEF Refuse, BoundsTyped, boundVars
    <2> QED BY <2>1, <2>3, <2>4
  <1>3. ASSUME NEW c \in Calls, Prompt(c)
        PROVE  RunTyped' /\ SessionTyped' /\ QueuesTyped' /\ CallsTyped' /\ BoundsTyped'
    <2>1. RunTyped' /\ QueuesTyped' BY <1>0, <1>3, SameTyped DEF Prompt
    <2>2. BoundsTyped' BY <1>0, <1>3, OverlapType DEF Prompt, BoundsTyped, boundVars
    <2>3. Flushed(tail) \in Tails BY <1>0, FlushedType DEF SessionTyped
    <2>4. ASSUME NEW m, CheckCompaction(c, m, FALSE, "checking", Flushed(tail))
          PROVE  SessionTyped' /\ CallsTyped'
      BY <1>0, <1>3, <2>3, <2>4, CheckType DEF Prompt, SessionTyped, CallsTyped
    <2>5. ASSUME At(c, "hooking") \/ At(c, "unready"), tail' = Flushed(tail),
                 UNCHANGED <<recovered, silent, reason>>
          PROVE  SessionTyped' /\ CallsTyped'
      <3>1. pc' \in [Calls -> Places] BY <2>5, AtType DEF Places
      <3> QED BY <1>0, <1>3, <2>3, <2>5, <3>1 DEF Prompt, SessionTyped, CallsTyped
    <2> QED BY <1>3, <2>1, <2>2, <2>4, <2>5 DEF Prompt
  <1>4. ASSUME NEW c \in Calls, Begin(c)
        PROVE  RunTyped' /\ SessionTyped' /\ QueuesTyped' /\ CallsTyped' /\ BoundsTyped'
    <2>0. UNCHANGED <<last, attempts, recovered, silent, reason, retryCtl, boundVars, overlapped>>
      BY <1>4 DEF Begin
    <2>1. CASE At(c, "refused") /\ FlushBash(c) /\ tail' = Flushed(tail)
               /\ UNCHANGED <<runVars, queueVars, sent>>
      <3>1. pc' \in [Calls -> Places] BY <2>1, AtType DEF Places
      <3>2. tail' \in Tails BY <1>0, <2>1, FlushedType DEF SessionTyped
      <3>3. RunTyped' /\ QueuesTyped' BY <1>0, <2>1, SameTyped
      <3>4. SessionTyped' /\ CallsTyped' BY <1>0, <2>0, <2>1, <3>1, <3>2 DEF SessionTyped, CallsTyped
      <3>5. BoundsTyped' BY <1>0, <2>0, <2>1, FlushType DEF BoundsTyped, boundVars
      <3> QED BY <3>3, <3>4, <3>5
    <2>2. CASE /\ StartRun(c, "opening") /\ held' = c /\ sent' = [sent EXCEPT ![c] = TRUE]
               /\ UNCHANGED <<steering, followUps, editorVars, tail, pendingBash>>
      <3>1. RunTyped' /\ pc' \in [Calls -> Places] BY <2>2, StartType DEF RunTyped, Phases
      <3>2. QueuesTyped' BY <1>0, <2>2 DEF QueuesTyped, editorVars
      <3>3. sent' \in [Calls -> BOOLEAN] BY <1>0, <2>2 DEF CallsTyped
      <3>4. SessionTyped' /\ CallsTyped'
        BY <1>0, <2>0, <2>2, <3>1, <3>3 DEF SessionTyped, CallsTyped
      <3>5. BoundsTyped' BY <1>0, <2>0, <2>2 DEF BoundsTyped, boundVars
      <3> QED BY <3>1, <3>2, <3>4, <3>5
    <2> QED BY <1>4, <2>1, <2>2 DEF Begin
  <1>5. ASSUME Abort
        PROVE  RunTyped' /\ SessionTyped' /\ QueuesTyped' /\ CallsTyped' /\ BoundsTyped'
    <2>1. RunTyped' /\ QueuesTyped' BY <1>0, <1>5, SameTyped DEF Abort, RunTyped, isStreaming
    <2>2. CASE UNCHANGED <<sessionVars, callVars, pendingBash>>
      <3>1. SessionTyped' /\ CallsTyped' BY <1>0, <2>2, SameTyped
      <3>2. BoundsTyped' BY <1>0, <1>5, <2>2 DEF Abort, BoundsTyped
      <3> QED BY <2>1, <3>1, <3>2
    <2>3. CASE /\ retryCtl # NoCall /\ attempts' = 0
               /\ CheckCompaction(retryCtl, "failed", TRUE, "compacting", tail)
               /\ FlushBash(retryCtl) /\ retryCtl' = NoCall /\ UNCHANGED <<last, sent>>
      <3>1. retryCtl \in Calls BY <1>0, <2>3 DEF CallsTyped
      <3>2. SessionTyped' /\ CallsTyped'
        <4>1. tail \in Tails BY <1>0 DEF SessionTyped
        <4>2. /\ pc' \in [Calls -> Places] /\ tail' \in Tails
              /\ recovered' \in BOOLEAN /\ silent' \in BOOLEAN
              /\ reason' \in [Calls -> {"none", "overflow", "threshold"}]
          BY <2>3, <3>1, <4>1, CheckType
        <4>3. attempts' \in 0..MaxRetries BY <2>3, SettingsAssumption
        <4> QED BY <1>0, <2>3, <4>2, <4>3 DEF SessionTyped, CallsTyped
      <3>3. BoundsTyped' BY <1>0, <1>5, <2>3, FlushType DEF Abort, BoundsTyped
      <3> QED BY <2>1, <3>2, <3>3
    <2> QED BY <1>5, <2>2, <2>3 DEF Abort
  <1>6. ASSUME ClearQueue
        PROVE  RunTyped' /\ SessionTyped' /\ QueuesTyped' /\ CallsTyped' /\ BoundsTyped'
    <2>1. RunTyped' /\ SessionTyped' /\ CallsTyped' BY <1>0, <1>6, SameTyped DEF ClearQueue
    <2>2. returned' \in [Calls -> Nat] /\ caught' \subseteq Calls
      BY <1>0, <1>6 DEF ClearQueue, GiveBack, QueuesTyped
    <2>4. QueuesTyped' BY <1>0, <1>6, <2>2, EmptySeq DEF ClearQueue, GiveBack, QueuesTyped
    <2>5. BoundsTyped' BY <1>0, <1>6 DEF ClearQueue, BoundsTyped, boundVars
    <2> QED BY <2>1, <2>4, <2>5
  <1>7. ASSUME RecordBash
        PROVE  RunTyped' /\ SessionTyped' /\ QueuesTyped' /\ CallsTyped' /\ BoundsTyped'
    <2>1. RunTyped' /\ QueuesTyped' /\ CallsTyped' BY <1>0, <1>7, SameTyped DEF RecordBash
    <2>2. SessionTyped' BY <1>0, <1>7 DEF RecordBash, SessionTyped, Tails
    <2>3. BoundsTyped' BY <1>0, <1>7 DEF RecordBash, BoundsTyped
    <2> QED BY <2>1, <2>2, <2>3
  <1>8. ASSUME NEW c \in Calls, BackoffEnds(c)
        PROVE  RunTyped' /\ SessionTyped' /\ QueuesTyped' /\ CallsTyped' /\ BoundsTyped'
    <2>1. tail \in Tails BY <1>0 DEF SessionTyped
    <2>2. /\ RunTyped' /\ QueuesTyped' /\ pc' \in [Calls -> Places]
          /\ tail' \in Tails /\ recovered' \in BOOLEAN
          /\ pendingBash' \in 0..MaxBash /\ pendingBash' \in {0, pendingBash}
      BY <1>8, <2>1, ContinueType DEF BackoffEnds, RunTyped
    <2>3. SessionTyped' /\ CallsTyped' BY <1>0, <1>8, <2>2 DEF BackoffEnds, SessionTyped, CallsTyped
    <2>4. BoundsTyped' BY <1>0, <1>8, <2>2 DEF BackoffEnds, BoundsTyped, boundVars
    <2> QED BY <2>2, <2>3, <2>4
  <1>a. ASSUME NEW c \in Calls, NEW t \in Tails, EndLoop(c, t)
        PROVE  /\ RunTyped' /\ QueuesTyped' /\ pc' \in [Calls -> Places]
               /\ tail' \in Tails /\ recovered' \in BOOLEAN
               /\ pendingBash' \in 0..MaxBash /\ pendingBash' \in {0, pendingBash}
    <2>1. RunTyped' /\ QueuesTyped' BY <1>0, <1>a, SameTyped DEF EndLoop
    <2>2. pc' \in [Calls -> Places] BY <1>a, LeaveType DEF EndLoop
    <2>3. tail' \in Tails BY <1>a, FlushedType DEF EndLoop
    <2>4. recovered' \in BOOLEAN BY <1>0, <1>a DEF EndLoop, SessionTyped
    <2>5. pendingBash' \in 0..MaxBash /\ pendingBash' \in {0, pendingBash}
      BY <1>0, <1>a DEF EndLoop, BoundsTyped
    <2> QED BY <2>1, <2>2, <2>3, <2>4, <2>5
  <1>9. ASSUME NEW c \in Calls, Compacted(c) \/ CompactionFails(c)
        PROVE  RunTyped' /\ SessionTyped' /\ QueuesTyped' /\ CallsTyped' /\ BoundsTyped'
    <2>0. tail \in Tails BY <1>0 DEF SessionTyped
    <2>1. \E t \in Tails : Continue(c, t) \/ EndLoop(c, t)
      <3>1. CASE CompactionFails(c) BY <2>0, <3>1 DEF CompactionFails
      <3>2. CASE Compacted(c)
        <4> DEFINE back == CASE tail = "cut" -> "answer"
                             [] tail = "cutError" -> "overflow"
                             [] OTHER -> tail
                   t == IF back \in Errors /\ reason[c] = "overflow" THEN "open" ELSE back
        <4>1. back \in Tails BY <2>0 DEF Tails, Reply, Errors
        <4>2. t \in Tails BY <4>1 DEF Tails
        <4>3. Continue(c, t) \/ EndLoop(c, t) BY <3>2 DEF Compacted
        <4> QED BY <4>2, <4>3
      <3> QED BY <1>9, <3>1, <3>2
    <2>2. /\ RunTyped' /\ QueuesTyped' /\ pc' \in [Calls -> Places]
          /\ tail' \in Tails /\ recovered' \in BOOLEAN
          /\ pendingBash' \in 0..MaxBash /\ pendingBash' \in {0, pendingBash}
      BY <1>a, <2>1, ContinueType DEF RunTyped
    <2>3. /\ reason' = [reason EXCEPT ![c] = "none"]
          /\ UNCHANGED <<last, attempts, silent, sent, retryCtl, boundVars, overlapped>>
      BY <1>9 DEF Compacted, CompactionFails
    <2>4. SessionTyped' /\ CallsTyped' BY <1>0, <2>2, <2>3 DEF SessionTyped, CallsTyped
    <2>5. BoundsTyped' BY <1>0, <2>2, <2>3 DEF BoundsTyped, boundVars
    <2> QED BY <2>2, <2>4, <2>5
  <1>10. ASSUME CallsTools PROVE RunTyped' /\ SessionTyped' /\ QueuesTyped' /\ CallsTyped' /\ BoundsTyped'
    <2>1. RunTyped' /\ SessionTyped'
      BY <1>0, <1>10, RepliedType DEF CallsTools, RunTyped, SessionTyped, Phases, Tails, Reply
    <2>2. QueuesTyped' /\ CallsTyped' BY <1>0, <1>10, SameTyped DEF CallsTools
    <2>3. BoundsTyped' BY <1>0, <1>10 DEF CallsTools, BoundsTyped
    <2> QED BY <2>1, <2>2, <2>3
  <1>11. ASSUME ToolsDone PROVE RunTyped' /\ SessionTyped' /\ QueuesTyped' /\ CallsTyped' /\ BoundsTyped'
    <2>3. QueuesTyped' /\ phase' \in Phases BY <1>0, <1>11, PollType DEF ToolsDone, Phases
    <2>1. RunTyped' /\ SessionTyped' BY <1>0, <1>11, <2>3 DEF ToolsDone, RunTyped, SessionTyped, Tails
    <2>2. CallsTyped' BY <1>0, <1>11, SameTyped DEF ToolsDone
    <2>4. BoundsTyped' BY <1>0, <1>11 DEF ToolsDone, BoundsTyped, boundVars
    <2> QED BY <2>1, <2>2, <2>3, <2>4
  <1>12. ASSUME ToolsTerminate PROVE RunTyped' /\ SessionTyped' /\ QueuesTyped' /\ CallsTyped' /\ BoundsTyped'
    <2>1. RunTyped' /\ SessionTyped' BY <1>0, <1>12 DEF ToolsTerminate, RunTyped, SessionTyped, Phases, Tails
    <2>2. QueuesTyped' /\ CallsTyped' BY <1>0, <1>12, SameTyped DEF ToolsTerminate
    <2>3. BoundsTyped' BY <1>0, <1>12 DEF ToolsTerminate, BoundsTyped, boundVars
    <2> QED BY <2>1, <2>2, <2>3
  <1>13. ASSUME NEW kind \in {"answer", "silent"}, Answers(kind) PROVE RunTyped' /\ SessionTyped' /\ QueuesTyped' /\ CallsTyped' /\ BoundsTyped'
    <2>1. RunTyped' /\ SessionTyped'
      BY <1>0, <1>13, RepliedType DEF Answers, RunTyped, SessionTyped, Phases, Tails, Reply
    <2>2. CallsTyped' BY <1>0, <1>13, SameTyped DEF Answers
    <2>3. QueuesTyped' BY <1>0, <1>13, TakeType, SameTyped DEF Answers
    <2>4. BoundsTyped' BY <1>0, <1>13 DEF Answers, BoundsTyped, boundVars
    <2> QED BY <2>1, <2>2, <2>3, <2>4
  <1>14. ASSUME NEW kind \in Errors, Fails(kind) PROVE RunTyped' /\ SessionTyped' /\ QueuesTyped' /\ CallsTyped' /\ BoundsTyped'
    <2>1. RunTyped' /\ SessionTyped' BY <1>0, <1>14 DEF Fails, RunTyped, SessionTyped, Phases, Tails, Reply
    <2>2. QueuesTyped' /\ CallsTyped' BY <1>0, <1>14, SameTyped DEF Fails
    <2>3. BoundsTyped' BY <1>0, <1>14 DEF Fails, BoundsTyped, boundVars
    <2> QED BY <2>1, <2>2, <2>3
  <1>15. ASSUME IsAborted PROVE RunTyped' /\ SessionTyped' /\ QueuesTyped' /\ CallsTyped' /\ BoundsTyped'
    <2>1. RunTyped' /\ SessionTyped'
      BY <1>0, <1>15, RepliedType DEF IsAborted, RunTyped, SessionTyped, Phases, Tails, Reply
    <2>2. QueuesTyped' /\ CallsTyped' BY <1>0, <1>15, SameTyped DEF IsAborted
    <2>3. BoundsTyped' BY <1>0, <1>15 DEF IsAborted, BoundsTyped, boundVars
    <2> QED BY <2>1, <2>2, <2>3
  <1>16. ASSUME Close PROVE RunTyped' /\ SessionTyped' /\ QueuesTyped' /\ CallsTyped' /\ BoundsTyped'
    <2>1. owner \in Calls BY <1>16 DEF Close, RunInv
    <2>2. RunTyped' BY <1>16 DEF Close, RunTyped, Phases
    <2>3. QueuesTyped' BY <1>0, <1>16, SameTyped DEF Close
    <2>4. AfterRun(owner) /\ UNCHANGED <<queueVars, sent, boundVars, overlapped>> BY <1>16 DEF Close
    <2>5. SessionTyped' /\ CallsTyped' /\ pendingBash' \in 0..MaxBash /\ pendingBash' \in {0, pendingBash}
      BY <1>0, <2>1, <2>4, AfterRunType DEF SessionTyped, CallsTyped
    <2>6. BoundsTyped' BY <1>0, <2>4, <2>5 DEF BoundsTyped, boundVars
    <2> QED BY <2>2, <2>3, <2>5, <2>6
  <1>17. ASSUME Started PROVE RunTyped' /\ SessionTyped' /\ QueuesTyped' /\ CallsTyped' /\ BoundsTyped'
    <2>1. RunTyped' /\ SessionTyped'
      BY <1>0, <1>17 DEF Started, RunTyped, SessionTyped, Phases, Tails
    <2>2. CallsTyped' BY <1>0, <1>17, SameTyped DEF Started
    <2>3. delivered' = [c \in Calls |-> IF c = held THEN delivered[c] + 1 ELSE delivered[c]]
      BY <1>0, <1>17 DEF Started, QueuesTyped
    <2>4. delivered' \in [Calls -> Nat]
      <3>1. \A c \in Calls : delivered[c] \in Nat BY <1>0 DEF QueuesTyped
      <3>2. \A c \in Calls : (IF c = held THEN delivered[c] + 1 ELSE delivered[c]) \in Nat BY <3>1
      <3> QED BY <2>3, <3>2
    <2>5. QueuesTyped' BY <1>0, <1>17, <2>4 DEF Started, QueuesTyped
    <2>6. BoundsTyped' BY <1>0, <1>17 DEF Started, BoundsTyped, boundVars
    <2> QED BY <2>1, <2>2, <2>5, <2>6
  <1>18. ASSUME Polls PROVE RunTyped' /\ SessionTyped' /\ QueuesTyped' /\ CallsTyped' /\ BoundsTyped'
    <2>1. QueuesTyped' /\ phase' \in Phases BY <1>0, <1>18, PollType DEF Polls, Phases
    <2>2. RunTyped' BY <1>0, <1>18, <2>1 DEF Polls, RunTyped
    <2>3. SessionTyped' /\ CallsTyped' BY <1>0, <1>18, SameTyped DEF Polls
    <2>4. BoundsTyped' BY <1>0, <1>18 DEF Polls, BoundsTyped, boundVars
    <2> QED BY <2>1, <2>2, <2>3, <2>4
  <1>19. CASE UNCHANGED vars
    <2>1. UNCHANGED <<runVars, sessionVars, queueVars, callVars, pendingBash, boundVars, overlapped>>
      BY <1>19 DEF vars
    <2>2. BoundsTyped' BY <1>0, <2>1 DEF BoundsTyped, boundVars
    <2> QED BY <1>0, <2>1, <2>2, SameTyped
  <1> QED
    BY <1>1, <1>2, <1>3, <1>4, <1>5, <1>6, <1>7, <1>8, <1>9, <1>10, <1>11, <1>12, <1>13, <1>14,
       <1>15, <1>16, <1>17, <1>18, <1>19 DEF Next, Waits, RunStep
-----------------------------------------------------------------------------
(* Where the parts of an action leave the call they are about. *)

Left == {"done", "hooking"}

LEMMA LeaveMoves == ASSUME NEW c, Leave(c) PROVE \E w \in Left : At(c, w)
  BY DEF Leave, Left

LEMMA ThrowMoves == ASSUME NEW c, Throw(c) PROVE \E w \in Thrown : At(c, w)
  BY DEF Throw, Thrown

LEMMA AtMoves ==
    ASSUME TypeOK, NEW c \in Calls, NEW w, At(c, w)
    PROVE  pc'[c] = w /\ \A d \in Calls \ {c} : pc'[d] = pc[d]
  BY DEF TypeOK, At

LEMMA CheckMoves ==
    ASSUME NEW c, NEW m, NEW skip, NEW at, NEW t, CheckCompaction(c, m, skip, at, t)
    PROVE  \E w \in {at} \cup Left : At(c, w)
  BY LeaveMoves DEF CheckCompaction

(* A run starts with a message to start, or with a poll. *)
Starts(c) ==
    /\ ~isStreaming
    /\ \/ StartRun(c, "polling") /\ UNCHANGED held
       \/ \E at \in {"opening", "starting"} : StartRun(c, at) /\ held' \in Calls

LEMMA ContinueMoves ==
    ASSUME TypeOK, NEW c, NEW t, Continue(c, t)
    PROVE  \/ UNCHANGED <<runVars, held>> /\ \E w \in Thrown : At(c, w)
           \/ Starts(c)
  <1>1. TakeSteering \/ TakeFollowUp => held' \in Calls
    BY TakeType DEF TypeOK, QueuesTyped
  <1> QED BY <1>1, ThrowMoves DEF Continue, Starts, queueVars

LEMMA AfterRunMoves ==
    ASSUME NEW c, AfterRun(c)
    PROVE  \/ retryCtl' = c /\ At(c, "backoff")
           \/ UNCHANGED retryCtl /\ \E w \in {"compacting"} \cup Left : At(c, w)
  <1>1. ASSUME CheckCompaction(c, last, TRUE, "compacting", tail)
        PROVE  \E w \in {"compacting"} \cup Left : At(c, w)
    BY <1>1, CheckMoves
  <1> QED BY <1>1, LeaveMoves DEF AfterRun

LEMMA CompactedMoves ==
    ASSUME TypeOK, NEW c, Compacted(c) \/ CompactionFails(c)
    PROVE  \/ UNCHANGED <<runVars, held>> /\ \E w \in Thrown \cup Left : At(c, w)
           \/ Starts(c)
  <1>1. ASSUME NEW t, EndLoop(c, t)
        PROVE  UNCHANGED <<runVars, held>> /\ \E w \in Left : At(c, w)
    BY <1>1, LeaveMoves DEF EndLoop, queueVars
  <1> QED BY <1>1, ContinueMoves DEF Compacted, CompactionFails

LEMMA LifeStep == ASSUME TypeOK, LifeInv, [Next]_vars PROVE LifeInv'
  <1> USE NoCallAssumption DEF LifeInv
  <1>a. ASSUME NEW c \in Calls, NEW w, At(c, w), w # "running", pc[c] # "running",
               UNCHANGED <<phase, owner>>
        PROVE  RunInv'
    BY <1>a, AtMoves DEF RunInv
  <1>b. ASSUME NEW c \in Calls, Starts(c), UNCHANGED last PROVE RunInv' /\ LastInv' /\ HeldInv'
    <2>1. PICK at \in {"opening", "polling", "starting"} : StartRun(c, at) BY <1>b DEF Starts
    <2>2. phase = "idle" /\ phase' = at /\ owner' = c /\ At(c, "running")
      BY <1>b, <2>1 DEF Starts, StartRun, isStreaming
    <2>3. RunInv' BY <2>2, AtMoves DEF RunInv
    <2>4. LastInv' BY <1>b, <2>2 DEF LastInv, Errors
    <2>5. HeldInv' BY <1>b, <2>2 DEF Starts, StartRun, HeldInv
    <2> QED BY <2>3, <2>4, <2>5
  <1>c. ASSUME NEW c \in Calls, NEW w, At(c, w), pc[c] # "backoff", UNCHANGED retryCtl
        PROVE  RetryInv'
    BY <1>c, AtMoves DEF RetryInv, TypeOK
  <1>d. UNCHANGED <<phase, last>> => LastInv' BY DEF LastInv
  <1>e. ASSUME UNCHANGED <<pc, retryCtl>> PROVE RetryInv' BY <1>e DEF RetryInv
  <1>f. ASSUME UNCHANGED <<pc, phase, owner>> PROVE RunInv' BY <1>f DEF RunInv
  <1>g. ASSUME phase # "idle", phase' # "idle", UNCHANGED <<owner, pc>> PROVE RunInv'
    BY <1>g DEF RunInv
  <1>h. UNCHANGED <<phase, held>> => HeldInv' BY DEF HeldInv
  <1>1. ASSUME NEW c \in Calls, Queue(c) \/ Refuse(c) PROVE LifeInv'
    <2>1. /\ UNCHANGED <<phase, owner, last, retryCtl, held>> /\ pc[c] = "idle"
          /\ \E w \in {"queued", "refused"} : At(c, w)
      BY <1>1 DEF Queue, Refuse, runVars, sessionVars, queueVars
    <2> QED BY <2>1, <1>a, <1>c, <1>d, <1>h
  <1>2. ASSUME NEW c \in Calls, Prompt(c) PROVE LifeInv'
    <2>1. UNCHANGED <<phase, owner, last, retryCtl, held>> /\ pc[c] = "idle"
      BY <1>2 DEF Prompt, runVars, queueVars
    <2>2. \E w \in {"checking", "unready"} \cup Left : At(c, w)
      BY <1>2, CheckMoves DEF Prompt, Left
    <2> QED BY <2>1, <2>2, <1>a, <1>c, <1>d, <1>h DEF Left
  <1>3. ASSUME NEW c \in Calls, Begin(c) PROVE LifeInv'
    <2>1. UNCHANGED <<last, retryCtl>> /\ pc[c] = "hooking" BY <1>3 DEF Begin
    <2>2. CASE At(c, "refused") /\ UNCHANGED <<runVars, queueVars>>
      BY <2>1, <2>2, <1>a, <1>c, <1>d, <1>h DEF runVars, queueVars
    <2>3. CASE ~isStreaming /\ StartRun(c, "opening") /\ held' = c
      <3>1. Starts(c) BY <2>3 DEF Starts
      <3> QED BY <2>1, <2>3, <3>1, <1>b, <1>c DEF StartRun
    <2> QED BY <1>3, <2>2, <2>3 DEF Begin
  <1>4. ASSUME Abort PROVE LifeInv'
    <2>1. UNCHANGED <<phase, owner, last, held>> BY <1>4 DEF Abort, sessionVars, queueVars
    <2>2. CASE UNCHANGED callVars BY <2>1, <2>2, <1>d, <1>e, <1>f, <1>h DEF callVars
    <2>3. CASE /\ retryCtl # NoCall /\ retryCtl' = NoCall
               /\ CheckCompaction(retryCtl, "failed", TRUE, "compacting", tail)
      <3>1. retryCtl \in Calls /\ pc[retryCtl] = "backoff" BY <2>3 DEF RetryInv, TypeOK
      <3>2. \E w \in {"compacting"} \cup Left : At(retryCtl, w) BY <2>3, CheckMoves
      <3>3. RetryInv' BY <2>3 DEF RetryInv
      <3> QED BY <2>1, <3>1, <3>2, <3>3, <1>a, <1>d, <1>h DEF Left
    <2> QED BY <1>4, <2>2, <2>3 DEF Abort
  <1>5. ASSUME ClearQueue \/ RecordBash PROVE LifeInv'
    <2>1. UNCHANGED <<phase, owner, last, pc, retryCtl, held>>
      BY <1>5 DEF ClearQueue, GiveBack, RecordBash, runVars, sessionVars, callVars, queueVars
    <2> QED BY <2>1, <1>d, <1>e, <1>f, <1>h
  <1>6. ASSUME NEW c \in Calls, BackoffEnds(c) PROVE LifeInv'
    <2>1. pc[c] = "backoff" /\ retryCtl' = NoCall /\ UNCHANGED last BY <1>6 DEF BackoffEnds
    <2>2. \/ UNCHANGED <<runVars, held>> /\ \E w \in Thrown : At(c, w)
          \/ Starts(c)
      BY <1>6, ContinueMoves DEF BackoffEnds
    <2>3. RetryInv' BY <2>1 DEF RetryInv
    <2> QED BY <2>1, <2>2, <2>3, <1>a, <1>b, <1>d, <1>h DEF Thrown, runVars
  <1>7. ASSUME NEW c \in Calls, Compacted(c) \/ CompactionFails(c) PROVE LifeInv'
    <2>1. pc[c] \in {"checking", "compacting"} /\ UNCHANGED <<last, retryCtl>>
      BY <1>7 DEF Compacted, CompactionFails
    <2>2. \/ UNCHANGED <<runVars, held>> /\ \E w \in Thrown \cup Left : At(c, w)
          \/ Starts(c)
      BY <1>7, CompactedMoves
    <2>3. RetryInv'
      BY <2>1, <2>2, <1>c DEF Starts, StartRun
    <2> QED BY <2>1, <2>2, <2>3, <1>a, <1>b, <1>d, <1>h DEF Thrown, Left, runVars
  <1>8. ASSUME Started \/ Polls \/ CallsTools \/ ToolsDone \/ ToolsTerminate \/ IsAborted
               \/ (\E kind \in {"answer", "silent"} : Answers(kind))
               \/ (\E kind \in Errors : Fails(kind))
        PROVE LifeInv'
    <2>1. /\ phase # "idle" /\ phase' # "idle"
          /\ UNCHANGED <<owner, pc, retryCtl>>
      BY <1>8 DEF Started, Polls, PollSteering, CallsTools, ToolsDone, ToolsTerminate, IsAborted,
                  Answers, Fails, callVars
    <2>2. LastInv'
      BY <1>8 DEF Started, Polls, PollSteering, CallsTools, ToolsDone, ToolsTerminate, IsAborted,
                  Answers, Fails, Replied, LastInv, Errors, sessionVars
    <2>3. TakeSteering \/ TakeFollowUp => held' \in Calls BY TakeType DEF TypeOK, QueuesTyped
    <2>4. HeldInv'
      BY <1>8, <2>3 DEF Started, Polls, PollSteering, CallsTools, ToolsDone, ToolsTerminate,
                        IsAborted, Answers, Fails, HeldInv, queueVars
    <2> QED BY <2>1, <2>2, <2>4, <1>e, <1>g
  <1>9. ASSUME Close PROVE LifeInv'
    <2>1. phase = "closing" /\ phase' = "idle" /\ owner' = NoCall /\ AfterRun(owner)
          /\ UNCHANGED held
      BY <1>9 DEF Close, queueVars
    <2>2. owner \in Calls /\ pc[owner] = "running" BY <2>1 DEF RunInv
    <2>3. \/ retryCtl' = owner /\ At(owner, "backoff")
          \/ UNCHANGED retryCtl /\ \E w \in {"compacting"} \cup Left : At(owner, w)
      BY <2>1, AfterRunMoves
    <2>4. RunInv' BY <2>1, <2>2, <2>3, AtMoves DEF RunInv, Left
    <2>5. RetryInv'
      <3>1. CASE retryCtl' = owner /\ At(owner, "backoff") BY <2>2, <3>1, AtMoves DEF RetryInv
      <3> QED BY <2>2, <2>3, <3>1, <1>c
    <2>6. LastInv' /\ HeldInv' BY <2>1 DEF LastInv, HeldInv, AfterRun, Errors
    <2> QED BY <2>4, <2>5, <2>6
  <1>10. CASE UNCHANGED vars
    BY <1>10, <1>d, <1>e, <1>f, <1>h DEF vars, runVars, sessionVars, callVars, queueVars
  <1> QED
    BY <1>1, <1>2, <1>3, <1>4, <1>5, <1>6, <1>7, <1>8, <1>9, <1>10 DEF Next, Waits, RunStep

-----------------------------------------------------------------------------
(* While prompts do not overlap. *)

(* A prompt in progress that is not running has the session to itself. *)
LEMMA AloneIdle ==
    ASSUME RunInv, Alone, NEW c \in Calls, InProgress(c), pc[c] # "running"
    PROVE  phase = "idle" /\ \A d \in Calls \ {c} : ~InProgress(d)
  <1>1. \A d \in Calls \ {c} : ~InProgress(d) BY DEF Alone
  <1>2. ASSUME phase # "idle" PROVE FALSE BY <1>1, <1>2 DEF RunInv, InProgress
  <1> QED BY <1>1, <1>2

LEMMA AloneRunning ==
    ASSUME RunInv, Alone, phase # "idle"
    PROVE  /\ owner \in Calls /\ pc[owner] = "running"
           /\ \A d \in Calls \ {owner} : ~InProgress(d)
  BY DEF RunInv, Alone, InProgress

(* The invariant after a step, if only c may be in progress then. *)
LEMMA QuietAfter ==
    ASSUME NEW c \in Calls,
           \A d \in Calls \ {c} : ~InProgress(d)' /\ pc'[d] = pc[d],
           silent => silent', NoneFailed,
           ~silent' => pc'[c] \notin Thrown,
           phase' = "closing" /\ last' \in Errors => tail' = last',
           pc'[c] = "backoff" => tail' = "open",
           pc'[c] \in {"checking", "compacting"} => tail' # "none",
           pc'[c] = "running" => tail' # "none" \/ phase' = "opening",
           pc'[c] \in {"checking", "compacting"} /\ reason'[c] = "overflow" /\ ~silent'
              => tail' \in {"open", "cutError"},
           ~silent' => tail' # "cut"
    PROVE  Alone' /\ TailInv' /\ NoneFailed'
  <1>1. Alone' BY DEF Alone
  <1>2. NoneFailed' BY DEF NoneFailed
  <1>3. \A d \in Calls \ {c} : pc'[d] \notin {"checking", "compacting", "running", "backoff"}
    BY DEF InProgress
  <1>4. TailInv' BY <1>3 DEF TailInv
  <1> QED BY <1>1, <1>2, <1>4

(* A check that is about the reply the transcript ends with leaves nothing *)
(* to answer in the way of the compaction.                                 *)
LEMMA CheckTail ==
    ASSUME TypeOK, NEW c \in Calls, NEW m, NEW skip, NEW at \in {"checking", "compacting"},
           NEW t \in Tails \ {"none"}, CheckCompaction(c, m, skip, at, t),
           m = "overflow" => t = "overflow" \/ t \notin Reply,
           ~silent => t # "cut"
    PROVE  /\ pc'[c] \in {at, "done", "hooking"}
           /\ \A d \in Calls \ {c} : pc'[d] = pc[d]
           /\ silent => silent'
           /\ tail' # "none"
           /\ pc'[c] = at /\ reason'[c] = "overflow" /\ ~silent' => tail' \in {"open", "cutError"}
           /\ ~silent' => tail' # "cut"
  <1>1. /\ pc'[c] \in {at, "done", "hooking"}
        /\ \A d \in Calls \ {c} : pc'[d] = pc[d]
    BY CheckMoves, AtMoves DEF Left
  <1>2. CASE /\ MustRecover(m) /\ silent' = (silent \/ m = "silent")
             /\ tail' = (CASE t \in Errors -> "cutError" [] t = "answer" -> "cut" [] OTHER -> t)
    <2>1. m \in {"overflow", "silent"} BY <1>2 DEF MustRecover
    <2>2. ~silent' => ~silent /\ m = "overflow" BY <1>2, <2>1
    <2>3. tail' # "none" BY <1>2 DEF Tails, Reply, Errors
    <2>4. ~silent' => tail' \in {"open", "cutError"}
      BY <1>2, <2>2 DEF Tails, Reply, Errors
    <2>5. silent => silent' BY <1>2
    <2> QED BY <1>1, <2>3, <2>4, <2>5
  <1>3. CASE /\ reason' = [reason EXCEPT ![c] = "threshold"]
             /\ tail' = t /\ UNCHANGED <<recovered, silent>>
    BY <1>1, <1>3 DEF TypeOK
  <1>4. CASE Leave(c) /\ tail' = Flushed(t) /\ UNCHANGED <<recovered, silent, reason>>
    <2>1. pc'[c] \notin {"checking", "compacting"} BY <1>4, LeaveMoves, AtMoves DEF Left
    <2> QED BY <1>1, <1>4, <2>1 DEF Flushed
  <1> QED BY <1>2, <1>3, <1>4 DEF CheckCompaction

LEMMA QuietStep == ASSUME TypeOK, LifeInv, QuietInv, [Next]_vars PROVE QuietInv'
  <1> SUFFICES ASSUME ~overlapped' PROVE Alone' /\ TailInv' /\ NoneFailed' BY DEF QuietInv
  <1> USE DEF LifeInv
  <1>0. ~overlapped
    BY DEF Next, Queue, Refuse, Prompt, Waits, Begin, BackoffEnds, Compacted, CompactionFails,
           Abort, ClearQueue, RecordBash, RunStep, Started, Polls,
           CallsTools, ToolsDone, ToolsTerminate,
           Answers, Fails, IsAborted, Close, MarkOverlap, vars
  <1>q. Alone /\ TailInv /\ NoneFailed BY <1>0 DEF QuietInv
  <1>t. tail \in Tails BY DEF TypeOK, Tails
  <1>m. ASSUME NEW c \in Calls, MarkOverlap(c) PROVE \A d \in Calls \ {c} : ~InProgress(d)
    BY <1>m DEF MarkOverlap
  <1>s. ASSUME NEW c \in Calls, InProgress(c), pc[c] # "running", UNCHANGED silent,
               NEW at \in {"opening", "polling", "starting"}, StartRun(c, at),
               tail' # "none" \/ at = "opening", ~silent => tail' # "cut"
        PROVE  Alone' /\ TailInv' /\ NoneFailed'
    <2>1. \A d \in Calls \ {c} : ~InProgress(d) BY <1>s, <1>q, AloneIdle
    <2>2. pc'[c] = "running" /\ \A d \in Calls \ {c} : pc'[d] = pc[d]
      BY <1>s, AtMoves DEF StartRun
    <2>3. \A d \in Calls \ {c} : ~InProgress(d)' BY <2>1, <2>2 DEF InProgress
    <2> QED BY <1>s, <1>q, <2>2, <2>3, QuietAfter DEF StartRun, Thrown
  <1>1. ASSUME NEW c \in Calls, Queue(c) PROVE Alone' /\ TailInv' /\ NoneFailed'
    <2>1. UNCHANGED <<phase, tail, last, silent, reason>> /\ At(c, "queued")
      BY <1>1 DEF Queue, runVars, sessionVars
    <2>2. pc'[c] = "queued" /\ \A d \in Calls \ {c} : pc'[d] = pc[d] BY <2>1, AtMoves
    <2>3. Alone' BY <1>q, <2>2 DEF Alone, InProgress
    <2>4. TailInv' BY <1>q, <2>1, <2>2 DEF TailInv
    <2>5. NoneFailed' BY <1>q, <2>1, <2>2 DEF NoneFailed, Thrown
    <2> QED BY <2>3, <2>4, <2>5
  <1>2. ASSUME NEW c \in Calls, Refuse(c) PROVE FALSE
    <2>1. phase # "idle" /\ pc[c] = "idle" /\ MarkOverlap(c) BY <1>2 DEF Refuse, isStreaming
    <2> QED BY <1>m, <2>1 DEF RunInv, InProgress
  <1>3. ASSUME NEW c \in Calls, Prompt(c) PROVE Alone' /\ TailInv' /\ NoneFailed'
    <2>1. phase = "idle" /\ phase' = "idle" /\ MarkOverlap(c)
      BY <1>3 DEF Prompt, isStreaming, runVars
    <2>2. Flushed(tail) \in Tails BY <1>t, FlushedType
    <2>3. ~silent => Flushed(tail) # "cut" BY <1>q DEF TailInv, Flushed
    <2>4. ASSUME NEW m \in IF Flushed(tail) \in Reply THEN {Flushed(tail)} ELSE Reply,
                 Flushed(tail) # "none",
                 CheckCompaction(c, m, FALSE, "checking", Flushed(tail))
          PROVE  Alone' /\ TailInv' /\ NoneFailed'
      <3>1. m = "overflow" => Flushed(tail) = "overflow" \/ Flushed(tail) \notin Reply BY <2>4
      <3>2. /\ pc'[c] \in {"checking", "done", "hooking"}
            /\ \A d \in Calls \ {c} : pc'[d] = pc[d]
            /\ silent => silent'
            /\ tail' # "none"
            /\ pc'[c] = "checking" /\ reason'[c] = "overflow" /\ ~silent'
                  => tail' \in {"open", "cutError"}
            /\ ~silent' => tail' # "cut"
        BY <2>2, <2>3, <2>4, <3>1, CheckTail
      <3>3. \A d \in Calls \ {c} : ~InProgress(d)' BY <1>m, <2>1, <3>2 DEF InProgress
      <3> QED BY <1>q, <2>1, <3>2, <3>3, QuietAfter DEF Thrown
    <2>5. ASSUME At(c, "hooking") \/ At(c, "unready"), tail' = Flushed(tail), UNCHANGED silent
          PROVE  Alone' /\ TailInv' /\ NoneFailed'
      <3>1. pc'[c] \in {"hooking", "unready"} /\ \A d \in Calls \ {c} : pc'[d] = pc[d] BY <2>5, AtMoves
      <3>2. \A d \in Calls \ {c} : ~InProgress(d)' BY <1>m, <2>1, <3>1 DEF InProgress
      <3> QED BY <1>q, <2>1, <2>3, <2>5, <3>1, <3>2, QuietAfter DEF Thrown
    <2> QED BY <1>3, <2>4, <2>5 DEF Prompt
  <1>4. ASSUME NEW c \in Calls, Begin(c) PROVE Alone' /\ TailInv' /\ NoneFailed'
    <2>1. InProgress(c) /\ pc[c] # "running" /\ UNCHANGED silent
      BY <1>4 DEF Begin, InProgress
    <2>2. ~isStreaming BY <1>q, <2>1, AloneIdle DEF isStreaming
    <2>3. StartRun(c, "opening") /\ UNCHANGED tail BY <1>4, <2>2 DEF Begin
    <2>4. ~silent => tail' # "cut" BY <1>q, <2>3 DEF TailInv
    <2> QED BY <2>1, <2>3, <2>4, <1>s
  <1>b. ASSUME NEW c \in Calls, pc[c] \in {"checking", "compacting", "backoff"}, UNCHANGED silent,
               NEW t \in Tails \ {"none"}, ~silent => t # "cut",
               Continue(c, t), ~silent => t \notin Reply \/ steering # <<>> \/ followUps # <<>>
        PROVE  Alone' /\ TailInv' /\ NoneFailed'
    <2>1. InProgress(c) /\ pc[c] # "running" BY <1>b DEF InProgress
    <2>2. phase = "idle" /\ \A d \in Calls \ {c} : ~InProgress(d) BY <1>q, <2>1, AloneIdle
    <2>3. CASE (\E at \in {"opening", "polling", "starting"} : StartRun(c, at)) /\ tail' = t
      BY <1>b, <1>s, <2>1, <2>3
    <2>4. CASE /\ isStreaming \/ t = "none" \/ (t \in Reply /\ steering = <<>> /\ followUps = <<>>)
               /\ Throw(c) /\ tail' = Flushed(t) /\ UNCHANGED runVars
      <3>1. silent BY <1>b, <2>2, <2>4 DEF isStreaming
      <3>2. pc'[c] \in Thrown /\ \A d \in Calls \ {c} : pc'[d] = pc[d]
        BY <2>4, ThrowMoves, AtMoves
      <3>3. \A d \in Calls \ {c} : ~InProgress(d)' BY <2>2, <3>2 DEF InProgress
      <3>4. phase' = "idle" BY <2>2, <2>4 DEF runVars
      <3> QED BY <1>b, <1>q, <3>1, <3>2, <3>3, <3>4, QuietAfter DEF Thrown
    <2> QED BY <1>b, <2>3, <2>4 DEF Continue
  <1>e. ASSUME NEW c \in Calls, pc[c] \in {"checking", "compacting"}, UNCHANGED silent,
               NEW t \in Tails, ~silent => t # "cut", EndLoop(c, t)
        PROVE  Alone' /\ TailInv' /\ NoneFailed'
    <2>1. InProgress(c) /\ pc[c] # "running" BY <1>e DEF InProgress
    <2>2. phase = "idle" /\ \A d \in Calls \ {c} : ~InProgress(d) BY <1>q, <2>1, AloneIdle
    <2>3. pc'[c] \in Left /\ \A d \in Calls \ {c} : pc'[d] = pc[d]
      BY <1>e, LeaveMoves, AtMoves DEF EndLoop
    <2>4. \A d \in Calls \ {c} : ~InProgress(d)' BY <2>2, <2>3 DEF InProgress
    <2>5. phase' = "idle" BY <1>e, <2>2 DEF EndLoop, runVars
    <2>6. ~silent => tail' # "cut" BY <1>e DEF EndLoop, Flushed
    <2> QED BY <1>e, <1>q, <2>3, <2>4, <2>5, <2>6, QuietAfter DEF Left, Thrown
  <1>5. ASSUME Abort PROVE Alone' /\ TailInv' /\ NoneFailed'
    <2>1. phase' = phase BY <1>5 DEF Abort
    <2>2. CASE UNCHANGED <<sessionVars, callVars>>
      <3>1. UNCHANGED <<phase, tail, last, silent, pc, reason>>
        BY <2>1, <2>2 DEF sessionVars, callVars
      <3>2. Alone' BY <1>q, <3>1 DEF Alone, InProgress
      <3> QED BY <1>q, <3>1, <3>2 DEF TailInv, NoneFailed
    <2>3. CASE /\ retryCtl # NoCall
               /\ CheckCompaction(retryCtl, "failed", TRUE, "compacting", tail)
      <3>1. retryCtl \in Calls /\ pc[retryCtl] = "backoff" BY <2>3 DEF RetryInv, TypeOK
      <3>2. phase = "idle" /\ \A d \in Calls \ {retryCtl} : ~InProgress(d)
        BY <1>q, <3>1, AloneIdle DEF InProgress
      <3>3. tail = "open" BY <1>q, <3>1 DEF TailInv
      <3>4. /\ pc'[retryCtl] \in {"compacting", "done", "hooking"}
            /\ \A d \in Calls \ {retryCtl} : pc'[d] = pc[d]
            /\ silent => silent'
            /\ tail' # "none"
            /\ pc'[retryCtl] = "compacting" /\ reason'[retryCtl] = "overflow" /\ ~silent'
                  => tail' \in {"open", "cutError"}
            /\ ~silent' => tail' # "cut"
        <4>1. tail \in Tails \ {"none"} /\ (~silent => tail # "cut") BY <1>t, <3>3
        <4>2. "failed" = "overflow" => tail = "overflow" \/ tail \notin Reply OBVIOUS
        <4>3. CheckCompaction(retryCtl, "failed", TRUE, "compacting", tail) BY <2>3
        <4> QED BY <3>1, <4>1, <4>2, <4>3, CheckTail
      <3>5. \A d \in Calls \ {retryCtl} : ~InProgress(d)' BY <3>2, <3>4 DEF InProgress
      <3> QED BY <1>q, <2>1, <3>1, <3>2, <3>4, <3>5, QuietAfter DEF Thrown
    <2> QED BY <1>5, <2>2, <2>3 DEF Abort
  <1>6. ASSUME ClearQueue PROVE Alone' /\ TailInv' /\ NoneFailed'
    <2>1. UNCHANGED <<phase, tail, last, silent, pc, reason>>
      BY <1>6 DEF ClearQueue, runVars, sessionVars, callVars
    <2>2. Alone' BY <1>q, <2>1 DEF Alone, InProgress
    <2> QED BY <1>q, <2>1, <2>2 DEF TailInv, NoneFailed
  <1>7. ASSUME RecordBash PROVE Alone' /\ TailInv' /\ NoneFailed'
    <2>1. UNCHANGED <<phase, last, silent, pc, reason>>
      BY <1>7 DEF RecordBash, runVars, callVars
    <2>2. Alone' BY <1>q, <2>1 DEF Alone, InProgress
    <2>3. tail' = tail \/ (tail' = "open" /\ phase = "idle") BY <1>7 DEF RecordBash, isStreaming
    <2>4. TailInv' BY <1>q, <2>1, <2>3 DEF TailInv
    <2> QED BY <1>q, <2>1, <2>2, <2>4 DEF NoneFailed
  <1>8. ASSUME NEW c \in Calls, BackoffEnds(c) PROVE Alone' /\ TailInv' /\ NoneFailed'
    <2>1. pc[c] = "backoff" /\ Continue(c, tail) /\ UNCHANGED silent BY <1>8 DEF BackoffEnds
    <2>2. tail = "open" BY <1>q, <2>1 DEF TailInv
    <2> QED BY <1>b, <1>t, <2>1, <2>2 DEF Reply, Errors
  <1>9. ASSUME NEW c \in Calls, CompactionFails(c) PROVE Alone' /\ TailInv' /\ NoneFailed'
    BY <1>9, <1>q, <1>t, <1>e DEF CompactionFails, TailInv
  <1>10. ASSUME NEW c \in Calls, Compacted(c) PROVE Alone' /\ TailInv' /\ NoneFailed'
    <2> DEFINE back == CASE tail = "cut" -> "answer"
                         [] tail = "cutError" -> "overflow"
                         [] OTHER -> tail
               t == IF back \in Errors /\ reason[c] = "overflow" THEN "open" ELSE back
    <2>1. pc[c] \in {"checking", "compacting"} /\ UNCHANGED silent BY <1>10 DEF Compacted
    <2>2. tail # "none" BY <1>q, <2>1 DEF TailInv
    <2>3. back \in Tails \ {"none", "cut"} BY <1>t, <2>2 DEF Tails, Reply, Errors
    <2>4. t \in Tails \ {"none", "cut"} BY <2>3 DEF Tails
    <2>5. IF reason[c] = "overflow" \/ steering \o followUps # <<>>
          THEN Continue(c, t) ELSE EndLoop(c, t)
      BY <1>10 DEF Compacted
    <2>6. ASSUME reason[c] = "overflow", ~silent PROVE t \notin Reply
      <3>1. tail \in {"open", "cutError"} BY <1>q, <2>1, <2>6 DEF TailInv
      <3> QED BY <2>6, <3>1 DEF Reply, Errors
    <2>7. steering \o followUps # <<>> => steering # <<>> \/ followUps # <<>> OBVIOUS
    <2> HIDE DEF t
    <2> QED BY <1>b, <1>e, <2>1, <2>4, <2>5, <2>6, <2>7
  <1>11. ASSUME Started \/ Polls \/ CallsTools \/ ToolsDone \/ ToolsTerminate \/ IsAborted
                \/ (\E kind \in {"answer", "silent"} : Answers(kind))
                \/ (\E kind \in Errors : Fails(kind))
         PROVE Alone' /\ TailInv' /\ NoneFailed'
    <2>1. phase # "idle" /\ UNCHANGED <<silent, pc, reason>>
      BY <1>11 DEF Started, Polls, CallsTools, ToolsDone, ToolsTerminate, IsAborted, Answers, Fails,
                   Replied, callVars, sessionVars
    <2>2. /\ owner \in Calls /\ pc[owner] = "running"
          /\ \A d \in Calls \ {owner} : ~InProgress(d)
      BY <1>q, <2>1, AloneRunning
    <2>3. CASE Polls
      <3>1. phase = "polling" /\ phase' # "closing" /\ UNCHANGED tail
        BY <2>3 DEF Polls, PollSteering, sessionVars
      <3>2. tail' # "none" /\ (~silent => tail' # "cut") BY <1>q, <2>2, <3>1 DEF TailInv
      <3> QED BY <1>q, <2>1, <2>2, <3>1, <3>2, QuietAfter DEF Thrown, InProgress
    <2>4. CASE ~Polls
      <3>1. tail' \notin {"none", "cut"} /\ (phase' = "closing" /\ last' \in Errors => tail' = last')
        BY <1>11, <2>4 DEF Started, CallsTools, ToolsDone, PollSteering, ToolsTerminate, IsAborted,
                           Answers, Fails, Replied, LastInv, Errors
      <3>2. \A d \in Calls \ {owner} : ~InProgress(d)' BY <2>1, <2>2 DEF InProgress
      <3> QED BY <1>q, <2>1, <2>2, <3>1, <3>2, QuietAfter DEF Thrown
    <2> QED BY <2>3, <2>4
  <1>12. ASSUME Close PROVE Alone' /\ TailInv' /\ NoneFailed'
    <2>1. phase = "closing" /\ phase' = "idle" /\ AfterRun(owner) BY <1>12 DEF Close
    <2>2. /\ owner \in Calls /\ pc[owner] = "running"
          /\ \A d \in Calls \ {owner} : ~InProgress(d)
      BY <1>q, <2>1, AloneRunning
    <2>3. tail # "none" /\ (~silent => tail # "cut") /\ (last \in Errors => tail = last)
      BY <1>q, <2>1, <2>2 DEF TailInv
    <2>4. \A d \in Calls \ {owner} : pc'[d] = pc[d]
      BY <2>1, <2>2, AfterRunMoves, AtMoves DEF Left
    <2>5. \A d \in Calls \ {owner} : ~InProgress(d)' BY <2>2, <2>4 DEF InProgress
    <2>6. CASE Leave(owner) /\ tail' = Flushed(tail) /\ UNCHANGED silent
      <3>1. pc'[owner] \in Left BY <2>2, <2>6, LeaveMoves, AtMoves
      <3>2. ~silent => tail' # "cut" BY <2>3, <2>6 DEF Flushed
      <3> QED BY <1>q, <2>1, <2>2, <2>4, <2>5, <2>6, <3>1, <3>2, QuietAfter DEF Left, Thrown
    <2>7. CASE Retries(last) /\ RewindFailedAssistant /\ At(owner, "backoff") /\ UNCHANGED silent
      <3>1. tail' = "open" BY <2>3, <2>7 DEF Retries, RewindFailedAssistant, Errors
      <3>2. pc'[owner] = "backoff" BY <2>2, <2>7, AtMoves
      <3> QED BY <1>q, <2>1, <2>2, <2>4, <2>5, <2>7, <3>1, <3>2, QuietAfter DEF Thrown
    <2>8. CASE CheckCompaction(owner, last, TRUE, "compacting", tail)
      <3>1. /\ pc'[owner] \in {"compacting", "done", "hooking"}
            /\ silent => silent'
            /\ tail' # "none"
            /\ pc'[owner] = "compacting" /\ reason'[owner] = "overflow" /\ ~silent'
                  => tail' \in {"open", "cutError"}
            /\ ~silent' => tail' # "cut"
        BY <1>t, <2>2, <2>3, <2>8, CheckTail DEF Errors
      <3> QED BY <1>q, <2>1, <2>2, <2>4, <2>5, <3>1, QuietAfter DEF Thrown
    <2> QED BY <2>1, <2>6, <2>7, <2>8 DEF AfterRun
  <1>13. CASE UNCHANGED vars
    <2>1. UNCHANGED <<phase, tail, last, silent, pc, reason>>
      BY <1>13 DEF vars, runVars, sessionVars, callVars
    <2>2. Alone' BY <1>q, <2>1 DEF Alone, InProgress
    <2> QED BY <1>q, <2>1, <2>2 DEF TailInv, NoneFailed
  <1> QED
    BY <1>1, <1>2, <1>3, <1>4, <1>5, <1>6, <1>7, <1>8, <1>9, <1>10, <1>11, <1>12, <1>13
    DEF Next, Waits, RunStep

LEMMA NextInv == IInv /\ [Next]_vars => IInv'
  BY TypeStep, LifeStep, QuietStep DEF IInv, LifeInv

LEMMA Invariance == Spec => []IInv
  BY InitInv, NextInv, PTL DEF Spec

-----------------------------------------------------------------------------
(* Deferred bash results are flushed while no run is going on. *)
LEMMA BashStep ==
    ASSUME IInv, [Next]_vars, ~overlapped',
           bash' # bash \/ pendingBash' # pendingBash
    PROVE  bash' - bash = pendingBash' - pendingBash \/ phase' \in {"idle", "closing"}
  <1> USE DEF IInv, LifeInv
  <1>0. ~overlapped
    BY DEF Next, Queue, Refuse, Prompt, Waits, Begin, BackoffEnds, Compacted, CompactionFails,
           Abort, ClearQueue, RecordBash, RunStep, Started, Polls,
           CallsTools, ToolsDone, ToolsTerminate,
           Answers, Fails, IsAborted, Close, MarkOverlap, vars
  <1>q. Alone BY <1>0 DEF QuietInv
  <1>1. ASSUME NEW c \in Calls, Queue(c) \/ Refuse(c) PROVE FALSE
    BY <1>1 DEF Queue, Refuse, boundVars
  <1>2. ASSUME NEW c \in Calls, Prompt(c) PROVE phase' = "idle"
    BY <1>2 DEF Prompt, isStreaming, runVars
  <1>3. ASSUME NEW c \in Calls, Waits(c) PROVE phase' = "idle"
    <2>1. InProgress(c) /\ pc[c] # "running" /\ UNCHANGED bash
      BY <1>3 DEF Waits, Begin, BackoffEnds, Compacted, CompactionFails, InProgress, boundVars
    <2>2. phase = "idle" BY <1>q, <2>1, AloneIdle
    <2>3. pendingBash' # pendingBash BY <2>1
    <2>4. ASSUME NEW t, Continue(c, t) \/ EndLoop(c, t) PROVE UNCHANGED phase
      BY <2>3, <2>4 DEF Continue, EndLoop, runVars
    <2>5. CASE Begin(c) BY <2>2, <2>3, <2>5 DEF Begin, isStreaming
    <2> QED BY <1>3, <2>2, <2>4, <2>5 DEF Waits, BackoffEnds, Compacted, CompactionFails
  <1>4. ASSUME Abort PROVE phase' = "idle"
    <2>1. UNCHANGED <<phase, bash>> BY <1>4 DEF Abort
    <2>2. retryCtl # NoCall BY <1>4, <2>1 DEF Abort
    <2>3. retryCtl \in Calls /\ pc[retryCtl] = "backoff" BY <2>2 DEF TypeOK, RetryInv
    <2>4. phase = "idle" BY <1>q, <2>3, AloneIdle DEF InProgress
    <2> QED BY <2>1, <2>4
  <1>5. ASSUME RecordBash
        PROVE  bash' - bash = pendingBash' - pendingBash \/ phase' = "idle"
    BY <1>5 DEF RecordBash, isStreaming, runVars, TypeOK
  <1>6. ASSUME RunStep PROVE phase' = "idle"
    BY <1>6 DEF RunStep, Started, Polls, CallsTools, ToolsDone, ToolsTerminate, Answers, Fails,
                IsAborted, Close, boundVars
  <1>7. CASE ClearQueue \/ UNCHANGED vars BY <1>7 DEF ClearQueue, vars, boundVars
  <1> QED BY <1>1, <1>2, <1>3, <1>4, <1>5, <1>6, <1>7 DEF Next

-----------------------------------------------------------------------------
(* Counting a message in a queue. *)

LEMMA QueuedType ==
    ASSUME NEW queue \in Seq(Calls), NEW c
    PROVE  /\ IsFiniteSet({i \in DOMAIN queue : queue[i] = c})
           /\ Queued(queue, c) \in Nat
           /\ Queued(queue, c) = 0 <=> \A i \in DOMAIN queue : queue[i] # c
  <1> DEFINE at == {i \in DOMAIN queue : queue[i] = c}
  <1>1. IsFiniteSet(DOMAIN queue)
    <2>1. Len(queue) \in Nat /\ DOMAIN queue = 1..Len(queue) BY LenProperties
    <2> QED BY <2>1, FS_Interval
  <1>2. IsFiniteSet(at) BY <1>1, FS_Subset
  <1>3. Cardinality(at) \in Nat BY <1>2, FS_CardinalityType
  <1>4. Cardinality(at) = 0 <=> at = {} BY <1>2, FS_EmptySet
  <1> QED BY <1>2, <1>3, <1>4 DEF Queued

LEMMA QueuedEmpty == ASSUME NEW c PROVE Queued(<<>>, c) = 0
  <1>1. {i \in DOMAIN <<>> : <<>>[i] = c} = {} OBVIOUS
  <1> QED BY <1>1, FS_EmptySet DEF Queued

LEMMA QueuedAppend ==
    ASSUME NEW queue \in Seq(Calls), NEW d \in Calls, NEW c
    PROVE  Queued(Append(queue, d), c) = Queued(queue, c) + Count(d = c)
  <1> DEFINE at == {i \in DOMAIN queue : queue[i] = c}
             n == Len(queue) + 1
             longer == Append(queue, d)
             after == {i \in DOMAIN longer : longer[i] = c}
  <1>1. /\ Len(queue) \in Nat /\ DOMAIN queue = 1..Len(queue)
        /\ DOMAIN longer = 1..n /\ longer[n] = d
        /\ \A i \in 1..Len(queue) : longer[i] = queue[i]
    BY LenProperties, AppendProperties
  <1>2. after = IF d = c THEN at \cup {n} ELSE at BY <1>1
  <1>3. n \notin at BY <1>1
  <1>4. IsFiniteSet(at) BY QueuedType
  <1>5. Cardinality(at \cup {n}) = Cardinality(at) + 1 BY <1>3, <1>4, FS_AddElement
  <1>6. Cardinality(at) \in Nat BY <1>4, FS_CardinalityType
  <1>7. Queued(longer, c) = Cardinality(after) /\ Queued(queue, c) = Cardinality(at)
    BY DEF Queued
  <1> HIDE DEF at, after, longer, n
  <1>8. CASE d = c BY <1>2, <1>5, <1>7, <1>8 DEF Count, longer
  <1>9. CASE d # c BY <1>2, <1>6, <1>7, <1>9 DEF Count, longer
  <1> QED BY <1>8, <1>9

LEMMA QueuedTail ==
    ASSUME NEW queue \in Seq(Calls), queue # <<>>, NEW c
    PROVE  Queued(queue, c) = Queued(Tail(queue), c) + Count(Head(queue) = c)
  <1> DEFINE rest == Tail(queue)
             at == {i \in DOMAIN queue : queue[i] = c}
             later == {i \in DOMAIN rest : rest[i] = c}
             shift == [i \in later |-> i + 1]
  <1>1. /\ Len(queue) \in Nat \ {0} /\ DOMAIN queue = 1..Len(queue)
        /\ rest \in Seq(Calls) /\ Head(queue) = queue[1]
        /\ DOMAIN rest = 1..(Len(queue) - 1)
        /\ \A i \in 1..(Len(queue) - 1) : rest[i] = queue[i + 1]
    BY HeadTailProperties, LenProperties, EmptySeq
  <1>2. shift \in Bijection(later, at \ {1})
    <2>1. \A i \in later : i \in Nat \ {0} /\ i + 1 \in at \ {1} BY <1>1
    <2>2. shift \in [later -> at \ {1}] BY <2>1
    <2>3. \A i, j \in later : shift[i] = shift[j] => i = j BY <2>1
    <2>4. \A k \in at \ {1} : k - 1 \in later /\ shift[k - 1] = k
      <3> TAKE k \in at \ {1}
      <3>1. k - 1 \in later BY <1>1
      <3> QED BY <3>1, <1>1
    <2> QED BY <2>2, <2>3, <2>4 DEF Bijection, Injection, Surjection, IsInjective
  <1>3. IsFiniteSet(later) /\ IsFiniteSet(at)
    <2>1. \A q \in Seq(Calls) : IsFiniteSet({i \in DOMAIN q : q[i] = c}) BY QueuedType
    <2> QED BY <1>1, <2>1
  <1>4. Cardinality(at \ {1}) = Cardinality(later)
    BY <1>2, <1>3, FS_Bijection, ZenonT(30) DEF ExistsBijection
  <1>5. 1 \in at <=> Head(queue) = c BY <1>1
  <1>6. Cardinality(at \ {1}) = IF 1 \in at THEN Cardinality(at) - 1 ELSE Cardinality(at)
    BY <1>3, FS_RemoveElement
  <1>7. Cardinality(at) \in Nat /\ Cardinality(later) \in Nat BY <1>3, FS_CardinalityType
  <1>8. Queued(queue, c) = Cardinality(at) /\ Queued(rest, c) = Cardinality(later)
    BY DEF Queued
  <1> HIDE DEF at, later, rest, shift
  <1>9. CASE Head(queue) = c BY <1>4, <1>5, <1>6, <1>7, <1>8, <1>9 DEF Count, rest
  <1>10. CASE Head(queue) # c BY <1>4, <1>5, <1>6, <1>7, <1>8, <1>10 DEF Count, rest
  <1> QED BY <1>9, <1>10

-----------------------------------------------------------------------------
(* A message whose call is about to hand it over has not been handed over. *)
SentInv == \A c \in Calls : pc[c] \in {"idle", "hooking"} => ~sent[c]

InQueues(c) == Queued(steering, c) + Queued(followUps, c)

(* A message is in one place; the session's arrays name those that are queued *)
(* and that one the run holds, and none that was given back.                  *)
Accounted(c) ==
    /\ Here(c) + returned[c] = 1 + Count(c \in caught)
    /\ Here(c) <= 1 /\ returned[c] <= 1
    /\ Kept(c) => returned[c] = 0
    /\ c \in mirror => InQueues(c) + Count(held = c) = 1 /\ returned[c] = 0
    /\ InQueues(c) > 0 => c \in mirror

AccountInv == SentInv /\ \A c \in Calls : Accounted(c)

LEMMA AccountParts ==
    ASSUME TypeOK, NEW c \in Calls
    PROVE  /\ Queued(steering, c) \in Nat /\ Queued(followUps, c) \in Nat
           /\ delivered[c] \in Nat /\ returned[c] \in Nat
           /\ Count(Kept(c)) = (IF Kept(c) THEN 1 ELSE 0)
           /\ Count(held = c) = (IF held = c THEN 1 ELSE 0)
           /\ Count(c \in caught) = (IF c \in caught THEN 1 ELSE 0)
  BY QueuedType DEF TypeOK, Count

(* A step of a call that neither hands its message over nor takes it back. *)
Moves(c) ==
    /\ InProgress(c) \/ pc[c] = "idle"
    /\ \/ Leave(c) \/ Throw(c)
       \/ \E w \in {"checking", "compacting", "running", "backoff"} : At(c, w)
       \/ pc[c] \in {"idle", "hooking"} /\ \E w \in {"hooking", "refused", "unready"} : At(c, w)
    /\ UNCHANGED sent

LEMMA MovesKeep ==
    ASSUME TypeOK, SentInv, NEW c \in Calls, Moves(c)
    PROVE  SentInv' /\ \A d \in Calls : Kept(d)' <=> Kept(d)
  <1>1. PICK w : At(c, w) BY DEF Moves, Leave, Throw
  <1>2. pc'[c] = w /\ \A d \in Calls \ {c} : pc'[d] = pc[d] BY <1>1, AtMoves
  <1>3. \A d \in Calls \ {c} : Kept(d)' <=> Kept(d) BY <1>2 DEF Kept, InProgress, Moves
  <1>4. \/ Leave(c) /\ pc'[c] = (IF sent[c] THEN "done" ELSE "hooking")
        \/ Throw(c) /\ pc'[c] = (IF sent[c] THEN "failed" ELSE "refused")
        \/ pc'[c] \in {"checking", "compacting", "running", "backoff"}
        \/ pc[c] \in {"idle", "hooking"} /\ pc'[c] \in {"hooking", "refused", "unready"}
    BY AtMoves DEF Moves, Leave, Throw
  <1>5. InProgress(c) \/ pc[c] = "idle" BY DEF Moves
  <1>6. UNCHANGED sent BY DEF Moves
  <1>7. Kept(c)' <=> Kept(c) BY <1>4, <1>5, <1>6 DEF Kept, InProgress, SentInv
  <1>8. SentInv' BY <1>2, <1>4, <1>6 DEF SentInv
  <1> QED BY <1>3, <1>7, <1>8

(* The run, holding nothing, takes the first message of a queue, or takes none. *)
Takes ==
    \/ held = NoCall /\ (TakeSteering \/ TakeFollowUp)
    \/ UNCHANGED queueVars

LEMMA TakesKeep ==
    ASSUME TypeOK, Takes, NEW c \in Calls
    PROVE  /\ InQueues(c) \in Nat /\ InQueues(c)' \in Nat
           /\ Count(held' = c) \in {0, 1}
           /\ InQueues(c)' + Count(held' = c) = InQueues(c) + Count(held = c)
           /\ InQueues(c)' <= InQueues(c)
           /\ UNCHANGED editorVars
  <1>0. /\ steering \in Seq(Calls) /\ followUps \in Seq(Calls)
        /\ Queued(steering, c) \in Nat /\ Queued(followUps, c) \in Nat
    BY AccountParts DEF TypeOK
  <1>n. Count(held' = c) \in {0, 1} /\ Count(held = c) \in {0, 1}
    BY DEF Count
  <1>h. held = NoCall => Count(held = c) = 0 BY NoCallAssumption DEF Count
  <1>1. CASE held = NoCall /\ TakeSteering
    <2>1. Queued(steering, c) = Queued(steering', c) + Count(held' = c)
      BY <1>0, <1>1, QueuedTail DEF TakeSteering
    <2>2. Queued(steering', c) \in Nat BY <1>0, <1>1, TailType, QueuedType DEF TakeSteering
    <2>3. UNCHANGED <<followUps, editorVars>> BY <1>1 DEF TakeSteering
    <2> QED BY <1>0, <1>n, <1>h, <1>1, <2>1, <2>2, <2>3 DEF InQueues
  <1>2. CASE held = NoCall /\ TakeFollowUp
    <2>1. Queued(followUps, c) = Queued(followUps', c) + Count(held' = c)
      BY <1>0, <1>2, QueuedTail DEF TakeFollowUp
    <2>2. Queued(followUps', c) \in Nat BY <1>0, <1>2, TailType, QueuedType DEF TakeFollowUp
    <2>3. UNCHANGED <<steering, editorVars>> BY <1>2 DEF TakeFollowUp
    <2> QED BY <1>0, <1>n, <1>h, <1>2, <2>1, <2>2, <2>3 DEF InQueues
  <1>3. CASE UNCHANGED queueVars
    <2>1. UNCHANGED <<steering, followUps, held, editorVars>> BY <1>3 DEF queueVars
    <2> QED BY <1>0, <1>n, <2>1 DEF InQueues
  <1> QED BY <1>1, <1>2, <1>3 DEF Takes

(* Steps of a call, and steps of the run, that at most take a message from a *)
(* queue.                                                                    *)
LEMMA MovesAccounted ==
    ASSUME TypeOK, AccountInv, Takes,
           UNCHANGED <<pc, sent>> \/ \E c \in Calls : Moves(c)
    PROVE  AccountInv'
  <1>1. SentInv' /\ \A d \in Calls : Kept(d)' <=> Kept(d)
    <2>1. CASE UNCHANGED <<pc, sent>> BY <2>1 DEF AccountInv, SentInv, Kept, InProgress
    <2>2. CASE \E c \in Calls : Moves(c) BY <2>2, MovesKeep DEF AccountInv
    <2> QED BY <2>1, <2>2
  <1>2. ASSUME NEW d \in Calls PROVE Accounted(d)'
    <2>1. Accounted(d) BY DEF AccountInv
    <2>2. Count(Kept(d))' = Count(Kept(d)) /\ (Kept(d)' <=> Kept(d)) BY <1>1 DEF Count
    <2>3. UNCHANGED <<mirror, delivered, returned, caught>> BY TakesKeep DEF editorVars
    <2>4. Here(d) = Count(Kept(d)) + (InQueues(d) + Count(held = d)) + delivered[d]
      BY AccountParts DEF Here, InQueues
    <2>5. Here(d)' = Count(Kept(d))' + (InQueues(d)' + Count(held' = d)) + delivered[d]'
      <3>1. Queued(steering', d) \in Nat /\ Queued(followUps', d) \in Nat
        BY TakeType, QueuedType DEF TypeOK, QueuesTyped, Takes, queueVars
      <3>2. Count(held' = d) \in Nat BY TakesKeep
      <3>3. Count(Kept(d))' \in Nat /\ delivered[d]' \in Nat BY <2>2, <2>3, AccountParts
      <3> QED BY <3>1, <3>2, <3>3 DEF Here, InQueues
    <2>6. Here(d)' = Here(d) BY <2>2, <2>3, <2>4, <2>5, TakesKeep
    <2>7. InQueues(d)' > 0 => InQueues(d) > 0 BY TakesKeep
    <2>8. InQueues(d)' + Count(held' = d) = InQueues(d) + Count(held = d) BY TakesKeep
    <2> QED BY <2>1, <2>2, <2>3, <2>6, <2>7, <2>8 DEF Accounted
  <1> QED BY <1>1, <1>2 DEF AccountInv

LEMMA ContinueAccounts ==
    ASSUME HeldInv, NEW c \in Calls, NEW t, InProgress(c), UNCHANGED sent,
           Continue(c, t) \/ EndLoop(c, t)
    PROVE  Takes /\ Moves(c)
  <1>1. ~isStreaming => held = NoCall BY DEF HeldInv, isStreaming
  <1> QED BY <1>1 DEF Continue, EndLoop, Takes, Moves, StartRun

LEMMA CheckAccounts ==
    ASSUME NEW c \in Calls, NEW m, NEW skip, NEW t, NEW at \in {"checking", "compacting"},
           CheckCompaction(c, m, skip, at, t)
    PROVE  Leave(c) \/ At(c, at)
  BY DEF CheckCompaction

LEMMA AccountStep == ASSUME IInv, AccountInv, [Next]_vars PROVE AccountInv'
  <1> USE DEF IInv, LifeInv
  <1>t. TypeOK /\ SentInv /\ steering \in Seq(Calls) /\ followUps \in Seq(Calls)
    BY DEF TypeOK, AccountInv
  <1>1. ASSUME NEW c \in Calls, Queue(c) PROVE AccountInv'
    <2>1. /\ pc'[c] = "queued" /\ \A d \in Calls \ {c} : pc'[d] = pc[d]
          /\ sent' = [sent EXCEPT ![c] = TRUE] /\ pc[c] = "idle"
      BY <1>1, <1>t, AtMoves DEF Queue
    <2>2. sent'[c] /\ \A d \in Calls \ {c} : sent'[d] = sent[d] BY <1>t, <2>1 DEF TypeOK
    <2>3. SentInv' BY <1>t, <2>1, <2>2 DEF SentInv
    <2>4. Kept(c) /\ ~Kept(c)' /\ \A d \in Calls \ {c} : Kept(d)' <=> Kept(d)
      BY <2>1, <2>2 DEF Kept, InProgress
    <2>5. ASSUME NEW d \in Calls PROVE Accounted(d)'
      <3>1. Accounted(d) /\ Accounted(c) BY DEF AccountInv
      <3>2. UNCHANGED <<held, delivered, returned, caught>> /\ mirror' = mirror \cup {c}
            /\ \/ steering' = Append(steering, c) /\ UNCHANGED followUps
               \/ followUps' = Append(followUps, c) /\ UNCHANGED steering
        BY <1>1 DEF Queue
      <3>3. /\ Queued(Append(steering, c), d) = Queued(steering, d) + Count(c = d)
            /\ Queued(Append(followUps, c), d) = Queued(followUps, d) + Count(c = d)
        BY <1>t, QueuedAppend
      <3>4. /\ Queued(steering', d) \in Nat /\ Queued(followUps', d) \in Nat
            /\ Queued(steering', d) + Queued(followUps', d)
                 = Queued(steering, d) + Queued(followUps, d) + (IF c = d THEN 1 ELSE 0)
        <4>1. Count(c = d) = IF c = d THEN 1 ELSE 0 BY DEF Count
        <4>2. CASE steering' = Append(steering, c) /\ UNCHANGED followUps
          BY <3>3, <4>1, <4>2, AccountParts
        <4>3. CASE followUps' = Append(followUps, c) /\ UNCHANGED steering
          BY <3>3, <4>1, <4>3, AccountParts
        <4> QED BY <3>2, <4>2, <4>3
      <3>5. Count(Kept(d))' = IF Kept(d) /\ c # d THEN 1 ELSE 0 BY <2>4 DEF Count
      <3>6. Count(held' = d) = Count(held = d) /\ Count(d \in caught') = Count(d \in caught)
        BY <3>2
      <3>7. d \in mirror' <=> d \in mirror \/ c = d BY <3>2
      <3>8. CASE c = d
        <4>1. /\ Queued(steering, d) = 0 /\ Queued(followUps, d) = 0 /\ Count(held = d) = 0
              /\ delivered[d] = 0 /\ returned[d] = 0 /\ Count(d \in caught) = 0
          <5>1. Kept(c) BY <2>4
          <5>2. Count(Kept(c)) = 1 BY <5>1, AccountParts
          <5>3. Here(c) = 1 + Queued(steering, c) + Queued(followUps, c) + Count(held = c) + delivered[c]
            BY <5>2 DEF Here
          <5>4. Count(held = c) \in Nat /\ Count(c \in caught) \in Nat BY DEF Count
          <5>5. Here(c) <= 1 /\ Here(c) + returned[c] = 1 + Count(c \in caught) /\ returned[c] = 0
            BY <3>1, <5>1 DEF Accounted
          <5>6. Here(c) = 1 /\ Queued(steering, c) = 0 /\ Queued(followUps, c) = 0
                /\ Count(held = c) = 0 /\ delivered[c] = 0
            BY <5>3, <5>4, <5>5, AccountParts
          <5> QED BY <3>8, <5>4, <5>5, <5>6
        <4> QED BY <2>4, <3>2, <3>4, <3>5, <3>6, <3>7, <3>8, <4>1 DEF Accounted, Here, InQueues
      <3>9. CASE c # d
        <4>1. Queued(steering', d) = Queued(steering, d) /\ Queued(followUps', d) = Queued(followUps, d)
          <5>1. Count(c = d) = 0 BY <3>9 DEF Count
          <5>2. CASE steering' = Append(steering, c) /\ UNCHANGED followUps
            BY <3>3, <5>1, <5>2, AccountParts
          <5>3. CASE followUps' = Append(followUps, c) /\ UNCHANGED steering
            BY <3>3, <5>1, <5>3, AccountParts
          <5> QED BY <3>2, <5>2, <5>3
        <4>2. Count(Kept(d))' = Count(Kept(d)) BY <3>5, <3>9, AccountParts
        <4>3. Here(d)' = Here(d) BY <3>2, <3>6, <4>1, <4>2 DEF Here
        <4>4. Kept(d)' <=> Kept(d) BY <2>4, <3>9
        <4> QED BY <3>1, <3>2, <3>6, <3>7, <3>9, <4>1, <4>3, <4>4 DEF Accounted, InQueues
      <3> QED BY <3>8, <3>9
    <2> QED BY <2>3, <2>5 DEF AccountInv
  <1>2. ASSUME NEW c \in Calls, Refuse(c) PROVE AccountInv'
    BY <1>2, <1>t, MovesAccounted DEF Refuse, Moves, Takes
  <1>3. ASSUME NEW c \in Calls, Prompt(c) PROVE AccountInv'
    <2>1. Leave(c) \/ \E w \in {"checking", "hooking", "unready"} : At(c, w)
      BY <1>3, CheckAccounts DEF Prompt
    <2> QED BY <1>3, <1>t, <2>1, MovesAccounted DEF Prompt, Moves, Takes
  <1>4. ASSUME NEW c \in Calls, Waits(c), ~Begin(c) PROVE AccountInv'
    <2>1. InProgress(c) /\ UNCHANGED sent /\ \E t : Continue(c, t) \/ EndLoop(c, t)
      BY <1>4 DEF Waits, BackoffEnds, Compacted, CompactionFails, InProgress
    <2> QED BY <2>1, <1>t, ContinueAccounts, MovesAccounted
  <1>5. ASSUME NEW c \in Calls, Begin(c) PROVE AccountInv'
    <2>1. CASE At(c, "refused") /\ UNCHANGED <<queueVars, sent>>
      BY <1>5, <2>1, <1>t, MovesAccounted DEF Begin, Moves, Takes, InProgress
    <2>2. CASE /\ ~isStreaming /\ StartRun(c, "opening") /\ held' = c
               /\ sent' = [sent EXCEPT ![c] = TRUE]
               /\ UNCHANGED <<steering, followUps, editorVars>>
      <3>1. /\ pc'[c] = "running" /\ \A d \in Calls \ {c} : pc'[d] = pc[d]
            /\ pc[c] = "hooking"
        BY <1>5, <1>t, <2>2, AtMoves DEF Begin, StartRun
      <3>2. sent'[c] /\ \A d \in Calls \ {c} : sent'[d] = sent[d] BY <1>t, <2>2 DEF TypeOK
      <3>3. SentInv' BY <1>t, <3>1, <3>2 DEF SentInv
      <3>4. Kept(c) /\ ~Kept(c)' /\ \A d \in Calls \ {c} : Kept(d)' <=> Kept(d)
        BY <1>t, <3>1, <3>2 DEF Kept, InProgress, SentInv
      <3>5. held = NoCall BY <2>2 DEF HeldInv, isStreaming
      <3>6. ASSUME NEW d \in Calls PROVE Accounted(d)'
        <4>1. Accounted(d) BY DEF AccountInv
        <4>2. UNCHANGED <<steering, followUps, mirror, delivered, returned, caught>>
          BY <2>2 DEF editorVars
        <4>3. Count(Kept(d))' = IF Kept(d) /\ c # d THEN 1 ELSE 0 BY <3>4 DEF Count
        <4>4. held # d BY <3>5, NoCallAssumption
        <4>5. Count(held' = d) = IF c = d THEN 1 ELSE 0 BY <2>2 DEF Count
        <4> QED BY <3>4, <4>1, <4>2, <4>3, <4>4, <4>5, AccountParts DEF Accounted, Here, InQueues
      <3> QED BY <3>3, <3>6 DEF AccountInv
    <2> QED BY <1>5, <2>1, <2>2 DEF Begin
  <1>6. ASSUME Abort PROVE AccountInv'
    <2>1. UNCHANGED <<queueVars, sent>> BY <1>6 DEF Abort, callVars
    <2>2. UNCHANGED pc \/ \E c \in Calls : Moves(c)
      <3>1. CASE retryCtl = NoCall BY <1>6, <3>1 DEF Abort, callVars
      <3>2. CASE retryCtl # NoCall
        <4>1. retryCtl \in Calls /\ pc[retryCtl] = "backoff" BY <1>t, <3>2 DEF TypeOK, RetryInv
        <4>2. Leave(retryCtl) \/ At(retryCtl, "compacting") BY <1>6, <3>2, <4>1, CheckAccounts DEF Abort
        <4> QED BY <2>1, <4>1, <4>2 DEF Moves, InProgress
      <3> QED BY <3>1, <3>2
    <2> QED BY <2>1, <2>2, <1>t, MovesAccounted DEF Takes
  <1>7. ASSUME ClearQueue PROVE AccountInv'
    <2>1. /\ UNCHANGED <<pc, sent, held, delivered>> /\ steering' = <<>> /\ followUps' = <<>>
          /\ mirror' = {} /\ caught' = caught \cup ({held} \cap mirror)
          /\ \A d \in Calls : returned'[d] = returned[d] + IF d \in mirror THEN 1 ELSE 0
      BY <1>7 DEF ClearQueue, GiveBack, callVars
    <2>2. SentInv' /\ \A d \in Calls : Kept(d)' <=> Kept(d)
      BY <1>t, <2>1 DEF SentInv, Kept, InProgress
    <2>3. ASSUME NEW d \in Calls PROVE Accounted(d)'
      <3>1. Accounted(d) BY DEF AccountInv
      <3>2. Queued(steering', d) = 0 /\ Queued(followUps', d) = 0 BY <2>1, QueuedEmpty
      <3>3. Count(Kept(d))' = (IF Kept(d) THEN 1 ELSE 0) /\ Count(held' = d) = Count(held = d)
        BY <2>1, <2>2 DEF Count
      <3>4. Count(d \in caught') = IF d \in caught \/ (d = held /\ d \in mirror) THEN 1 ELSE 0
        BY <2>1 DEF Count
      <3>5. returned'[d] = returned[d] + IF d \in mirror THEN 1 ELSE 0 BY <2>1
      <3>6. UNCHANGED delivered /\ d \notin mirror' /\ (Kept(d)' <=> Kept(d)) BY <2>1, <2>2
      <3>7. CASE d \in mirror
        BY <3>1, <3>2, <3>3, <3>4, <3>5, <3>6, <3>7, AccountParts DEF Accounted, Here, InQueues
      <3>8. CASE d \notin mirror
        BY <3>1, <3>2, <3>3, <3>4, <3>5, <3>6, <3>8, AccountParts DEF Accounted, Here, InQueues
      <3> QED BY <3>7, <3>8
    <2> QED BY <2>2, <2>3 DEF AccountInv
  <1>8. ASSUME RecordBash PROVE AccountInv'
    BY <1>8, <1>t, MovesAccounted DEF RecordBash, callVars, Takes
  <1>9. ASSUME RunStep PROVE AccountInv'
    <2>1. CASE Close
      <3>1. owner \in Calls /\ pc[owner] = "running" BY <2>1 DEF Close, RunInv
      <3>2. Leave(owner) \/ \E w \in {"compacting", "backoff"} : At(owner, w)
        BY <2>1, <3>1, CheckAccounts DEF Close, AfterRun
      <3>3. Moves(owner) BY <2>1, <3>1, <3>2 DEF Moves, InProgress, Close
      <3> QED BY <2>1, <1>t, <3>1, <3>3, MovesAccounted DEF Close, Takes
    <2>2. CASE Started
      <3>1. /\ phase \in {"opening", "starting"} /\ held' = NoCall
            /\ delivered' = [delivered EXCEPT ![held] = @ + 1] /\ mirror' = mirror \ {held}
            /\ UNCHANGED <<pc, sent, steering, followUps, returned, caught>>
        BY <2>2 DEF Started, callVars
      <3>2. held \in Calls BY <1>t, <3>1 DEF HeldInv, TypeOK
      <3>3. SentInv' /\ \A d \in Calls : Kept(d)' <=> Kept(d)
        BY <1>t, <3>1 DEF SentInv, Kept, InProgress
      <3>4. ASSUME NEW d \in Calls PROVE Accounted(d)'
        <4>1. Accounted(d) BY DEF AccountInv
        <4>2. delivered'[d] = delivered[d] + IF held = d THEN 1 ELSE 0
          <5>1. delivered \in [Calls -> Nat] BY <1>t DEF TypeOK
          <5> QED BY <3>1, <3>2, <5>1
        <4>3. Count(Kept(d))' = IF Kept(d) THEN 1 ELSE 0 BY <3>3 DEF Count
        <4>4. Count(held' = d) = 0 BY <3>1, NoCallAssumption DEF Count
        <4>5. /\ UNCHANGED <<steering, followUps, returned, caught>>
              /\ d \in mirror' <=> d \in mirror /\ held # d
              /\ Kept(d)' <=> Kept(d)
          BY <3>1, <3>3
        <4>6. CASE held = d
          BY <4>1, <4>2, <4>3, <4>4, <4>5, <4>6, AccountParts DEF Accounted, Here, InQueues
        <4>7. CASE held # d
          BY <4>1, <4>2, <4>3, <4>4, <4>5, <4>7, AccountParts DEF Accounted, Here, InQueues
        <4> QED BY <4>6, <4>7
      <3> QED BY <3>3, <3>4 DEF AccountInv
    <2>3. CASE ~Close /\ ~Started
      <3>1. phase \in {"polling", "asking", "tools"}
            /\ (PollSteering \/ TakeSteering \/ TakeFollowUp \/ UNCHANGED queueVars)
            /\ UNCHANGED <<pc, sent>>
        BY <1>9, <2>3 DEF RunStep, Polls, CallsTools, ToolsDone, ToolsTerminate, IsAborted, Answers,
                          Fails, callVars
      <3>2. held = NoCall BY <3>1 DEF HeldInv
      <3>3. Takes BY <3>1, <3>2 DEF Takes, PollSteering
      <3> QED BY <1>t, <3>1, <3>3, MovesAccounted
    <2> QED BY <2>1, <2>2, <2>3
  <1>10. CASE UNCHANGED vars
    BY <1>10, <1>t, MovesAccounted DEF vars, callVars, Takes
  <1> QED
    BY <1>1, <1>2, <1>3, <1>4, <1>5, <1>6, <1>7, <1>8, <1>9, <1>10 DEF Next, Waits

LEMMA InitAccount == Init => AccountInv
  <1> SUFFICES ASSUME Init PROVE AccountInv OBVIOUS
  <1>1. SentInv BY DEF Init, SentInv
  <1>2. ASSUME NEW c \in Calls PROVE Accounted(c)
    <2>1. Queued(steering, c) = 0 /\ Queued(followUps, c) = 0 BY QueuedEmpty DEF Init
    <2>2. /\ Kept(c) /\ delivered[c] = 0 /\ returned[c] = 0
          /\ c \notin caught /\ c \notin mirror /\ held # c
      BY NoCallAssumption DEF Init, Kept
    <2>3. Count(Kept(c)) = 1 /\ Count(held = c) = 0 /\ Count(c \in caught) = 0
      BY <2>2 DEF Count
    <2>4. Here(c) = 1 /\ InQueues(c) = 0 BY <2>1, <2>2 DEF Here, InQueues, Count
    <2> QED BY <2>2, <2>3, <2>4 DEF Accounted
  <1> QED BY <1>1, <1>2 DEF AccountInv

-----------------------------------------------------------------------------
(* Every variable keeps its type, for any calls, modes, settings and bounds; *)
(* the retry counter never passes the setting.                               *)
THEOREM SessionTypeCorrect == Spec => []TypeOK
  <1>1. IInv => TypeOK BY DEF IInv
  <1> QED BY <1>1, Invariance, PTL

(* One run at a time, and exactly one prompt waits for it: Agent.activeRun *)
(* is set while and only while the promise of its owner is pending in it.  *)
THEOREM SessionOneOwner == Spec => []RunInv
  <1>1. IInv => RunInv BY DEF IInv, LifeInv
  <1> QED BY <1>1, Invariance, PTL

(* A prompt that overlaps with no other, and that finds a model and its     *)
(* credentials, is neither refused nor ended by an error of the session     *)
(* itself, for any number of retries, recoveries and compactions, unless a  *)
(* silent overflow was recovered from.                                      *)
THEOREM SessionAloneNeverFails == Spec => []AloneNeverFails
  <1>1. IInv => AloneNeverFails
    BY DEF IInv, QuietInv, NoneFailed, Thrown, AloneNeverFails
  <1> QED BY <1>1, Invariance, PTL

(* While prompts do not overlap, recordBashResult and the flushes of what it *)
(* deferred leave requests and tool batches alone.                           *)
THEOREM SessionBashKeptOut == Spec => BashKeptOut
  <1>1. IInv /\ [Next]_vars =>
          [~overlapped' /\ (bash' # bash \/ pendingBash' # pendingBash) =>
             \/ bash' - bash = pendingBash' - pendingBash
             \/ phase' \in {"idle", "closing"}]_vars
    BY BashStep
  <1> QED BY <1>1, Invariance, PTL DEF Spec, BashKeptOut

(* However prompts overlap, retry, compact, are aborted or have their queues *)
(* cleared, each message is in one place: with its caller, in a queue of the *)
(* agent, held by the run, in the transcript once, or back in the editor     *)
(* once; only what the run had taken and not started when clearQueue() ran   *)
(* is back in the editor and goes on.                                        *)
THEOREM SessionMessagesAccounted == Spec => []MessagesAccounted
  <1>1. AccountInv => MessagesAccounted BY DEF AccountInv, Accounted, MessagesAccounted
  <1>2. IInv /\ AccountInv /\ [Next]_vars => AccountInv' BY AccountStep
  <1> QED BY <1>1, <1>2, InitAccount, Invariance, PTL DEF Spec
=============================================================================
