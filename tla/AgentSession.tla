---------------------------- MODULE AgentSession ----------------------------
(***************************************************************************)
(* The session every front end of the command line drives: AgentSession    *)
(* (packages/coding-agent/src/core/agent-session.ts) over Agent            *)
(* (packages/agent/src/agent.ts) and its loop.                             *)
(*                                                                         *)
(* prompt() is called by the user's turn, by the goal controller and by    *)
(* trigger deliveries, and nothing makes them wait for each other.  What   *)
(* prompt() asks first is whether the agent is streaming; but a prompt in  *)
(* progress is not streaming while it waits out a retry, compacts the      *)
(* context, or runs the hooks before its own message, and in these gaps    *)
(* another prompt starts.                                                  *)
(*                                                                         *)
(* Each call carries one message and the message is named after the call.  *)
(* Token counts are data: whether a reply leaves the context too large is  *)
(* chosen freely.  Aborting a compaction is left out (no caller of the     *)
(* command line does it), and so are custom messages and manual compaction.*)
(***************************************************************************)
EXTENDS Integers, Sequences, FiniteSets

CONSTANTS
    Calls,          \* calls of prompt(), sendUserMessage() and steer()
    Mode,           \* call -> streamingBehavior: "plain" for none, "steer" or
                    \* "followUp"; "direct" for a call of steer() itself
    RetryOn,        \* getRetrySettings().enabled
    MaxRetries,     \* getRetrySettings().maxRetries
    CompactionOn,   \* getCompactionSettings().enabled
    NoCall,         \* nobody
    MaxToolTurns,   \* bound: replies that call tools
    MaxAborts,      \* bound: abort() calls
    MaxBash         \* bound: results of the user's shell commands

ASSUME ModeAssumption == Mode \in [Calls -> {"plain", "steer", "followUp", "direct"}]
ASSUME SettingsAssumption ==
    RetryOn \in BOOLEAN /\ CompactionOn \in BOOLEAN /\ MaxRetries \in Nat
ASSUME NoCallAssumption == NoCall \notin Calls
ASSUME BoundAssumption ==
    MaxToolTurns \in Nat /\ MaxAborts \in Nat /\ MaxBash \in Nat

VARIABLES
    phase,      \* of Agent.activeRun: "idle" for none
    owner,      \* the call whose promise waits for the run
    aborted,    \* the run's abort signal
    tail,       \* what agent.state.messages ends with: "cut" or "cutError" if
                \* the session still ends with a reply that was removed here
    last,       \* _lastAssistantMessage
    attempts,   \* _retryAttempt
    recovered,  \* _overflowRecoveryAttempted
    steering, followUps,    \* the agent's queues, in mode "one-at-a-time"
    held,       \* the message the run has taken and not started yet
    mirror,     \* _steeringMessages and _followUpMessages of the session
    pc,         \* call -> where its promise stands
    sent,       \* call -> the agent has its message
    reason,     \* call -> why it compacts
    retryCtl,   \* the call _retryAbortController belongs to
    delivered,  \* call -> times its message entered the transcript
    returned,   \* call -> times clearQueue() gave its message back
    pendingBash,            \* length of _pendingBashMessages
    toolTurns, aborts, bash,
    overlapped, \* history: a prompt began while another was in progress
    silent,     \* history: a silent overflow was recovered from
    caught      \* history: messages the run held when clearQueue() gave them back

runVars == <<phase, owner, aborted>>
sessionVars == <<tail, last, attempts, recovered, silent>>
editorVars == <<mirror, delivered, returned, caught>>
queueVars == <<steering, followUps, held, editorVars>>
callVars == <<pc, sent, reason, retryCtl>>
boundVars == <<toolTurns, aborts, bash>>
vars == <<runVars, sessionVars, queueVars, callVars, pendingBash, boundVars,
          overlapped>>

Errors == {"retryable", "overflow", "failed"}   \* stopReason "error"

isStreaming == phase # "idle"

Reply == Errors \cup {"answer"}     \* a transcript that ends with the assistant

InProgress(c) ==
    pc[c] \in {"checking", "compacting", "hooking", "running", "backoff"}

Init ==
    /\ phase = "idle" /\ owner = NoCall /\ aborted = FALSE
    /\ tail = "none" /\ last = "none"
    /\ attempts = 0 /\ recovered = FALSE
    /\ steering = <<>> /\ followUps = <<>> /\ held = NoCall
    /\ mirror = {} /\ caught = {}
    /\ pc = [c \in Calls |-> "idle"]
    /\ sent = [c \in Calls |-> FALSE]
    /\ reason = [c \in Calls |-> "none"]
    /\ retryCtl = NoCall
    /\ delivered = [c \in Calls |-> 0]
    /\ returned = [c \in Calls |-> 0]
    /\ pendingBash = 0
    /\ toolTurns = 0 /\ aborts = 0 /\ bash = 0
    /\ overlapped = FALSE /\ silent = FALSE

-----------------------------------------------------------------------------
(* The run drains a queue and holds the message until it starts it; turn_start *)
(* is emitted, and its listeners awaited, in between.                        *)

TakeSteering ==
    /\ steering # <<>>
    /\ steering' = Tail(steering) /\ held' = Head(steering)
    /\ UNCHANGED <<followUps, editorVars>>

TakeFollowUp ==
    /\ steering = <<>> /\ followUps # <<>>
    /\ followUps' = Tail(followUps) /\ held' = Head(followUps)
    /\ UNCHANGED <<steering, editorVars>>

(* The next request is asked for at once, or after a message that was steered. *)
PollSteering ==
    \/ TakeSteering /\ phase' = "starting"
    \/ steering = <<>> /\ phase' = "asking" /\ UNCHANGED queueVars

-----------------------------------------------------------------------------
(* A call's promise. *)

At(c, where) == pc' = [pc EXCEPT ![c] = where]

(* The loop of continuations is over: prompt() goes on to its own message,  *)
(* or returns.                                                              *)
Leave(c) == At(c, IF sent[c] THEN "done" ELSE "hooking")

Throw(c) == At(c, IF sent[c] THEN "failed" ELSE "refused")

(* The finally of the loop of continuations: the bash results deferred      *)
(* meanwhile are pushed once c leaves the loop.                             *)
FlushBash(c) ==
    pendingBash' = IF pc'[c] \in {"compacting", "backoff", "running"}
                   THEN pendingBash ELSE 0

(* What messages that end with t end with after _flushPendingBashMessages. *)
Flushed(t) == IF pendingBash > 0 THEN "open" ELSE t

(* runWithLifecycle sets activeRun; agent_start and turn_start are emitted   *)
(* before anything starts.                                                   *)
StartRun(c, at) ==
    /\ phase' = at /\ owner' = c /\ aborted' = FALSE
    /\ At(c, "running")

(* Agent.continue with messages that end with t: after a reply it needs a   *)
(* queued message, and only steering is not polled for again at once.       *)
Continue(c, t) ==
    \/ /\ \/ isStreaming
          \/ t = "none"
          \/ t \in Reply /\ steering = <<>> /\ followUps = <<>>
       /\ Throw(c) /\ FlushBash(c)
       /\ tail' = Flushed(t)
       /\ UNCHANGED <<runVars, recovered, queueVars>>
    \/ /\ ~isStreaming
       /\ \/ t \in Reply /\ TakeSteering /\ StartRun(c, "starting")
          \/ t \in Reply /\ TakeFollowUp /\ StartRun(c, "opening")
          \/ t \in {"open", "cut", "cutError"} /\ StartRun(c, "polling") /\ UNCHANGED queueVars
       /\ tail' = t
       /\ UNCHANGED <<recovered, pendingBash>>

-----------------------------------------------------------------------------
(* _checkCompaction of a reply m.  An overflow, reported as an error or only *)
(* by the usage of an answer ("silent"), is recovered from once; a context  *)
(* grown too large is compacted.  Either way the call waits at label at.    *)
(* The messages end with t.                                                 *)

EndlessRecovery(m) == CompactionOn /\ m \in {"overflow", "silent"}   \* mutant

MustRecover(m) == CompactionOn /\ m \in {"overflow", "silent"} /\ ~recovered

CheckCompaction(c, m, skipAborted, at, t) ==
    \/ /\ MustRecover(m)
       /\ recovered' = TRUE /\ silent' = (silent \/ m = "silent")
       /\ tail' = CASE t \in Errors -> "cutError"
                     [] t = "answer" -> "cut"
                     [] OTHER -> t
       /\ At(c, at) /\ reason' = [reason EXCEPT ![c] = "overflow"]
    \/ /\ CompactionOn /\ m \notin {"overflow", "silent"}
       /\ ~(skipAborted /\ m = "aborted")
       /\ At(c, at) /\ reason' = [reason EXCEPT ![c] = "threshold"]
       /\ tail' = t /\ UNCHANGED <<recovered, silent>>
    \/ /\ ~MustRecover(m)
       /\ Leave(c)
       /\ tail' = Flushed(t)
       /\ UNCHANGED <<recovered, silent, reason>>

Retries(m) == m = "retryable" /\ RetryOn /\ attempts < MaxRetries

LazyRewind == tail' = tail   \* mutant: the failed reply stays

RewindFailedAssistant == tail' = IF tail \in Errors THEN "open" ELSE tail

(* _handlePostAgentRun, up to its first await. *)
AfterRun(c) ==
    /\ last' = "none"
    /\ \/ /\ last = "none"
          /\ Leave(c)
          /\ tail' = Flushed(tail)
          /\ UNCHANGED <<attempts, recovered, silent, reason, retryCtl>>
       \/ /\ Retries(last)
          /\ attempts' = attempts + 1
          /\ RewindFailedAssistant
          /\ At(c, "backoff") /\ retryCtl' = c
          /\ UNCHANGED <<recovered, silent, reason>>
       \/ /\ last # "none" /\ ~Retries(last)
          /\ attempts' = IF last \in Errors THEN 0 ELSE attempts
          /\ CheckCompaction(c, last, TRUE, "compacting", tail)
          /\ UNCHANGED retryCtl
    /\ FlushBash(c)

-----------------------------------------------------------------------------
(* Calls of the session's interface. *)

(* History: another prompt is in progress as this one begins. *)
MarkOverlap(c) == overlapped' = (overlapped \/ \E d \in Calls \ {c} : InProgress(d))

Queue(c) ==
    /\ pc[c] = "idle"
    /\ Mode[c] = "direct" \/ (isStreaming /\ Mode[c] # "plain")
    /\ IF Mode[c] = "followUp"
       THEN followUps' = Append(followUps, c) /\ UNCHANGED steering
       ELSE steering' = Append(steering, c) /\ UNCHANGED followUps
    /\ mirror' = mirror \cup {c}
    /\ At(c, "queued")
    /\ sent' = [sent EXCEPT ![c] = TRUE]
    /\ UNCHANGED <<runVars, sessionVars, held, delivered, returned, caught, reason,
                   retryCtl, pendingBash, boundVars, overlapped>>

Refuse(c) ==
    /\ pc[c] = "idle" /\ isStreaming /\ Mode[c] = "plain"
    /\ At(c, "refused")
    /\ MarkOverlap(c)
    /\ UNCHANGED <<runVars, sessionVars, queueVars, sent, reason, retryCtl,
                   pendingBash, boundVars>>

(* prompt() on an agent that is not streaming: the bash results are flushed, *)
(* the call ends here if no model is selected or its provider has no         *)
(* credentials, and the last reply of the transcript is checked, aborted ones *)
(* included. Which reply that is behind later messages is chosen freely, and *)
(* so is what is configured.                                                 *)
Prompt(c) ==
    /\ pc[c] = "idle" /\ ~isStreaming /\ Mode[c] # "direct"
    /\ MarkOverlap(c)
    /\ pendingBash' = 0
    /\ LET t == Flushed(tail)
       IN  \/ \E m \in IF t \in Reply THEN {t} ELSE Reply :
                 t # "none" /\ CheckCompaction(c, m, FALSE, "checking", t)
           \/ /\ t \notin Reply      \* no reply yet
              /\ At(c, "hooking") /\ tail' = t
              /\ UNCHANGED <<recovered, silent, reason>>
           \/ /\ At(c, "unready") /\ tail' = t
              /\ UNCHANGED <<recovered, silent, reason>>
    /\ UNCHANGED <<runVars, last, attempts, queueVars, sent, retryCtl, boundVars>>

(* emitBeforeAgentStart is over: agent.prompt takes the message, or throws. *)
Begin(c) ==
    /\ pc[c] = "hooking"
    /\ \/ /\ isStreaming
          /\ At(c, "refused") /\ FlushBash(c)
          /\ tail' = Flushed(tail)
          /\ UNCHANGED <<runVars, queueVars, sent>>
       \/ /\ ~isStreaming
          /\ StartRun(c, "opening") /\ held' = c
          /\ sent' = [sent EXCEPT ![c] = TRUE]
          /\ UNCHANGED <<steering, followUps, editorVars, tail, pendingBash>>
    /\ UNCHANGED <<last, attempts, recovered, silent, reason, retryCtl, boundVars,
                   overlapped>>

(* abort(): it ends a backoff and the active run; the promise of a call in  *)
(* backoff goes on at once.                                                 *)
Abort ==
    /\ aborts < MaxAborts
    /\ aborts' = aborts + 1
    /\ aborted' = isStreaming
    /\ \/ /\ retryCtl = NoCall
          /\ UNCHANGED <<sessionVars, callVars, pendingBash>>
       \/ /\ retryCtl # NoCall
          /\ attempts' = 0
          /\ CheckCompaction(retryCtl, "failed", TRUE, "compacting", tail)
          /\ FlushBash(retryCtl)
          /\ retryCtl' = NoCall
          /\ UNCHANGED <<last, sent>>
    /\ UNCHANGED <<phase, owner, queueVars, toolTurns, bash, overlapped>>

GiveBack ==
    /\ mirror # {} /\ mirror' = {}
    /\ returned' = [c \in Calls |-> returned[c] + IF c \in mirror THEN 1 ELSE 0]
    /\ caught' = caught \cup ({held} \cap mirror)
    /\ UNCHANGED <<held, delivered>>

ForgetfulClearQueue ==   \* mutant: the agent's own queues are not cleared
    /\ GiveBack
    /\ UNCHANGED <<runVars, sessionVars, steering, followUps, callVars, pendingBash,
                   boundVars, overlapped>>

(* clearQueue(): the texts the session has not seen start go back to the      *)
(* editor, and the agent's queues are cleared. What the run holds it keeps.   *)
ClearQueue ==
    /\ GiveBack
    /\ steering' = <<>> /\ followUps' = <<>>
    /\ UNCHANGED <<runVars, sessionVars, callVars, pendingBash, boundVars, overlapped>>

EagerRecordBash ==   \* mutant: the result does not wait for the run
    /\ bash < MaxBash
    /\ bash' = bash + 1
    /\ tail' = "open" /\ UNCHANGED pendingBash
    /\ UNCHANGED <<runVars, last, attempts, recovered, silent, queueVars, callVars,
                   toolTurns, aborts, overlapped>>

(* recordBashResult: deferred while the agent streams. *)
RecordBash ==
    /\ bash < MaxBash
    /\ bash' = bash + 1
    /\ IF isStreaming
       THEN pendingBash' = pendingBash + 1 /\ UNCHANGED tail
       ELSE tail' = "open" /\ UNCHANGED pendingBash
    /\ UNCHANGED <<runVars, last, attempts, recovered, silent, queueVars, callVars,
                   toolTurns, aborts, overlapped>>

-----------------------------------------------------------------------------
(* What a call waits for. *)

(* The delay of _prepareRetry has passed.  The controller of a backoff that *)
(* began meanwhile is dropped with it.                                      *)
BackoffEnds(c) ==
    /\ pc[c] = "backoff"
    /\ retryCtl' = NoCall
    /\ Continue(c, tail)
    /\ UNCHANGED <<last, attempts, silent, sent, reason, boundVars, overlapped>>

(* The loop of continuations ends, or was never entered: the bash results   *)
(* wait for a prompt that was only checking.                                *)
EndLoop(c, t) ==
    /\ Leave(c)
    /\ IF pc[c] = "checking"
       THEN tail' = t /\ UNCHANGED pendingBash
       ELSE tail' = Flushed(t) /\ pendingBash' = 0
    /\ UNCHANGED <<runVars, recovered, queueVars>>

(* _runAutoCompaction has replaced the messages by what the session holds: *)
(* a removed reply is back, and one that is an error is removed again.     *)
Compacted(c) ==
    /\ pc[c] \in {"checking", "compacting"}
    /\ reason' = [reason EXCEPT ![c] = "none"]
    /\ LET back == CASE tail = "cut" -> "answer"
                     [] tail = "cutError" -> "overflow"
                     [] OTHER -> tail
           t == IF back \in Errors /\ reason[c] = "overflow" THEN "open" ELSE back
       IN  IF reason[c] = "overflow" \/ steering \o followUps # <<>>
           THEN Continue(c, t)
           ELSE EndLoop(c, t)
    /\ UNCHANGED <<last, attempts, silent, sent, retryCtl, boundVars, overlapped>>

(* It failed, found nothing to compact, or an extension cancelled it. *)
CompactionFails(c) ==
    /\ pc[c] \in {"checking", "compacting"}
    /\ reason' = [reason EXCEPT ![c] = "none"]
    /\ EndLoop(c, tail)
    /\ UNCHANGED <<last, attempts, silent, sent, retryCtl, boundVars, overlapped>>

-----------------------------------------------------------------------------
(* The active run.  A reply other than an error clears both budgets.        *)

Replied(kind) ==
    /\ last' = kind
    /\ attempts' = 0 /\ recovered' = FALSE /\ UNCHANGED silent

(* message_start and message_end of what the run holds: the session drops the *)
(* text and another overflow recovery becomes possible. A run that opens with *)
(* the message polls for steering then.                                       *)
Started ==
    /\ phase \in {"opening", "starting"}
    /\ phase' = IF phase = "opening" THEN "polling" ELSE "asking"
    /\ delivered' = [delivered EXCEPT ![held] = @ + 1]
    /\ mirror' = mirror \ {held} /\ held' = NoCall
    /\ tail' = "open" /\ recovered' = FALSE
    /\ UNCHANGED <<owner, aborted, last, attempts, silent, steering, followUps, returned,
                   caught, callVars, pendingBash, boundVars, overlapped>>

Polls ==
    /\ phase = "polling"
    /\ PollSteering
    /\ UNCHANGED <<owner, aborted, sessionVars, callVars, pendingBash, boundVars, overlapped>>

CallsTools ==
    /\ phase = "asking" /\ toolTurns < MaxToolTurns
    /\ toolTurns' = toolTurns + 1
    /\ phase' = "tools" /\ tail' = "answer"
    /\ Replied("answer")
    /\ UNCHANGED <<owner, aborted, queueVars, callVars, pendingBash, aborts,
                   bash, overlapped>>

(* The results are in; steering comes before the next request, follow-ups   *)
(* do not.                                                                  *)
ToolsDone ==
    /\ phase = "tools"
    /\ PollSteering /\ tail' = "open"
    /\ UNCHANGED <<owner, aborted, last, attempts, recovered, silent, callVars,
                   pendingBash, boundVars, overlapped>>

(* Every tool of the batch asked to terminate: the queues are not polled. *)
ToolsTerminate ==
    /\ phase = "tools"
    /\ phase' = "closing" /\ tail' = "open"
    /\ UNCHANGED <<owner, aborted, last, attempts, recovered, silent, queueVars,
                   callVars, pendingBash, boundVars, overlapped>>

Answers(kind) ==
    /\ phase = "asking"
    /\ Replied(kind) /\ tail' = "answer"
    /\ \/ (TakeSteering \/ TakeFollowUp) /\ phase' = "starting"
       \/ /\ steering = <<>> /\ followUps = <<>>
          /\ phase' = "closing" /\ UNCHANGED queueVars
    /\ UNCHANGED <<owner, aborted, callVars, pendingBash, boundVars, overlapped>>

Fails(kind) ==
    /\ phase = "asking"
    /\ phase' = "closing" /\ tail' = kind /\ last' = kind
    /\ UNCHANGED <<owner, aborted, attempts, recovered, silent, queueVars, callVars,
                   pendingBash, boundVars, overlapped>>

IsAborted ==
    /\ phase = "asking" /\ aborted
    /\ phase' = "closing" /\ tail' = "answer"
    /\ Replied("aborted")
    /\ UNCHANGED <<owner, aborted, queueVars, callVars, pendingBash, boundVars,
                   overlapped>>

(* The listeners of agent_end are done: finishRun, and the owner goes on. *)
Close ==
    /\ phase = "closing"
    /\ phase' = "idle" /\ owner' = NoCall /\ aborted' = FALSE
    /\ AfterRun(owner)
    /\ UNCHANGED <<queueVars, sent, boundVars, overlapped>>

RunStep ==
    \/ Started \/ Polls \/ CallsTools \/ ToolsDone \/ ToolsTerminate \/ IsAborted \/ Close
    \/ \E kind \in {"answer", "silent"} : Answers(kind)
    \/ \E kind \in Errors : Fails(kind)

Waits(c) == BackoffEnds(c) \/ Compacted(c) \/ CompactionFails(c) \/ Begin(c)

Next ==
    \/ \E c \in Calls : Queue(c) \/ Refuse(c) \/ Prompt(c) \/ Waits(c)
    \/ Abort \/ ClearQueue \/ RecordBash
    \/ RunStep

Spec == Init /\ [][Next]_vars

(* Requests, tools and compactions end, timers fire and hooks return. *)
FairSpec == Spec /\ WF_vars(RunStep) /\ \A c \in Calls : WF_vars(Waits(c))

-----------------------------------------------------------------------------

(* Types of the state. *)
TypeOK ==
    /\ phase \in {"idle", "opening", "polling", "starting", "asking", "tools", "closing"}
    /\ owner \in Calls \cup {NoCall} /\ aborted \in BOOLEAN
    /\ tail \in {"none", "open", "cut", "cutError"} \cup Reply
    /\ last \in {"none", "silent", "aborted"} \cup Reply
    /\ attempts \in 0..MaxRetries /\ recovered \in BOOLEAN
    /\ steering \in Seq(Calls) /\ followUps \in Seq(Calls)
    /\ held \in Calls \cup {NoCall} /\ mirror \subseteq Calls /\ caught \subseteq Calls
    /\ pc \in [Calls -> {"idle", "checking", "compacting", "hooking", "running", "backoff",
                         "queued", "done", "refused", "unready", "failed"}]
    /\ sent \in [Calls -> BOOLEAN]
    /\ reason \in [Calls -> {"none", "overflow", "threshold"}]
    /\ retryCtl \in Calls \cup {NoCall}
    /\ delivered \in [Calls -> Nat] /\ returned \in [Calls -> Nat]
    /\ pendingBash \in 0..MaxBash
    /\ toolTurns \in 0..MaxToolTurns /\ aborts \in 0..MaxAborts
    /\ bash \in 0..MaxBash
    /\ overlapped \in BOOLEAN /\ silent \in BOOLEAN

Count(b) == IF b THEN 1 ELSE 0

Queued(queue, c) == Cardinality({i \in DOMAIN queue : queue[i] = c})

(* The message is still with its caller. *)
Kept(c) == pc[c] \in {"idle", "refused", "unready"} \/ (InProgress(c) /\ ~sent[c])

(* The places the agent can have a message in, and its caller. *)
Here(c) == Count(Kept(c)) + Queued(steering, c) + Queued(followUps, c)
             + Count(held = c) + delivered[c]

(* However prompts overlap, retry, compact, are aborted or have queues       *)
(* cleared, every message is in one place: still with its caller (who is told *)
(* if it is refused), in a queue, held by the run, in the transcript once, or *)
(* back in the editor once. Only a message that the run had taken and not    *)
(* started when the queues were cleared is in the editor and goes on.        *)
MessagesAccounted ==
    \A c \in Calls :
        /\ Here(c) + returned[c] = 1 + Count(c \in caught)
        /\ Here(c) <= 1 /\ returned[c] <= 1

(* What clearQueue() gives back is not delivered any more. Not kept by the   *)
(* code, where it gives back what the run has taken: see README.md.          *)
GivenBackForGood == \A c \in Calls : returned[c] > 0 => held # c /\ delivered[c] = 0

(* A prompt that finds a model and its credentials is only refused, and a    *)
(* turn only ends in an error of the session itself, where prompts           *)
(* overlapped: alone, through every retry, recovery and compaction,          *)
(* continue() finds what it needs. The one exception is the recovery from a  *)
(* silent overflow: the compaction brings the answer back and continue()     *)
(* refuses to go on after it. A prompt without a model or credentials is     *)
(* "unready", whether it is alone or not, and does not count.                *)
AloneNeverFails ==
    \A c \in Calls : pc[c] \in {"refused", "failed"} => overlapped \/ silent

(* As long as prompts do not overlap, the results of shell commands enter   *)
(* the transcript neither between tool calls and their results nor while a  *)
(* reply is awaited.                                                        *)
BashKeptOut ==
    [][~overlapped' /\ (bash' # bash \/ pendingBash' # pendingBash) =>
          \/ bash' - bash = pendingBash' - pendingBash
          \/ phase' \in {"idle", "closing"}]_vars

(* Every prompt returns or throws: the retry budget and the single overflow *)
(* recovery bound what a failing provider can cause, however prompts        *)
(* overlap.  The exception: an overlapping prompt can keep renewing both    *)
(* budgets if its provider overflows silently each time.                    *)
PromptEnds ==
    \A c \in Calls : InProgress(c) ~> ~InProgress(c) \/ (overlapped /\ silent)
=============================================================================
