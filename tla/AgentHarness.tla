----------------------------- MODULE AgentHarness -----------------------------
(***************************************************************************)
(* The lifecycle of AgentHarness: structural operations, the turn loop     *)
(* they drive, the steering / follow-up / next-turn queues, pending        *)
(* session writes, abort, and the budget cap                               *)
(* (packages/agent/src/harness/agent-harness.ts, packages/agent/src/       *)
(* agent-loop.ts).                                                         *)
(*                                                                         *)
(* JavaScript runs one callback at a time, so a step is the code between   *)
(* two awaits; op[o].at names the await operation o is suspended at.       *)
(* Everything else (steer, setModel, abort, ...) may run while it is.      *)
(*                                                                         *)
(* prompt, skill, promptFromTemplate and continue differ in the message    *)
(* they start from, which is not tracked: they are one kind of operation   *)
(* (executeTurn and executeContinueTurn are the same code otherwise).      *)
(* Tracked are the messages put in queues and the session writes of        *)
(* setModel, setThinkingLevel, appendMessage and the like.                 *)
(***************************************************************************)
EXTENDS Integers, Sequences, FiniteSets, SequencesExt

CONSTANTS
    Ops,            \* structural operations that get called
    Callers,        \* concurrent callers of setModel / appendMessage
    Structural,     \* the phases compact() and navigateTree() may set
    WriteKinds,     \* the writes they make: see WriteIdle
    Sends,          \* the queues messages are sent to
    None,           \* undefined
    AllAtOnce,      \* both queue modes: TRUE for "all"
    OneAtATime,     \* callers await one operation before the next
    Hook,           \* an onTurnEnd hook is configured
    ContinuationCap,\* turnContinuationCap
    Cap,            \* budgetCapUsd in units of one response; 0: undefined
    MaxMessages, MaxWrites, MaxFailures     \* bounds on the environment

ASSUME HarnessAssumption ==
    /\ Structural \subseteq {"compaction", "branch_summary"}
    /\ WriteKinds \subseteq {"model", "message"}
    /\ Sends \subseteq {"steer", "followUp", "nextTurn"}
    /\ {AllAtOnce, OneAtATime, Hook} \subseteq BOOLEAN
    /\ {ContinuationCap, Cap, MaxMessages, MaxWrites, MaxFailures} \subseteq Nat
    /\ None \notin Ops

VARIABLES
    phase,          \* this.phase
    runPromise,     \* the operation whose run promise is stored, or None
    controller,     \* the operation owning runAbortController, or None
    trip,           \* pendingBudgetCapTrip is set
    queue,          \* steerQueue, followUpQueue, nextTurnQueue
    pending,        \* pendingSessionWrites
    model,          \* this.model: the id of the write that chose it
    spent,          \* costTracker's total, counted up to Cap
    op,             \* operation -> where it is suspended, its locals
    writer,         \* caller -> the write it is awaiting while idle
    aborted,        \* operations whose abort controller has fired
    session,        \* what has been persisted, in order
    branchModel,    \* the model the active branch selects, 0 for none
    sent, written,  \* messages and writes accepted so far
    failures,       \* failures of listeners, hooks and writes so far
    cleared,        \* history: messages abort() reported as cleared
    dropped,        \* history: messages that went down with a failure
    refused,        \* history: idle writes whose caller got an error
    asked           \* history: operations in progress abort() was called on

harness == <<phase, runPromise, controller, trip, queue, pending, model, spent>>
store == <<session, branchModel>>
history == <<cleared, dropped, refused, asked>>
env == <<writer, sent, written, failures>>
vars == <<harness, op, aborted, store, env, history>>

Phases == {"idle", "turn", "compaction", "branch_summary"}
Queues == {"steer", "followUp", "nextTurn"}
Writes == [id : 1..MaxWrites, kind : {"model", "message"}, queued : BOOLEAN]
Messages == [id : 1..MaxMessages, kind : {"user"}]

ASSUME NoneAssumption == None \notin Writes

(* The awaits of a structural operation. *)
Loop == {"prompting", "polling", "announcing", "injecting", "requesting",
         "streaming", "tools", "turnEnd", "gate", "snapshot", "following",
         "goIdle", "settling", "reporting"}
Labels == Loop \cup
    {"off", "preparing", "announcingNext", "starting", "flushing", "rethrowing",
     "cleanup",
     "asking", "unwinding", "compaction", "branch_summary", "done"}
Flushes == {"gate", "snapshot", "goIdle", "cleanup"}    \* awaits after a flush

Active(o) == op[o].at \notin {"off", "done"}

(* o is in its loop and may issue another request. *)
Running(o) ==
    \/ op[o].at \in Loop \ {"goIdle", "settling", "reporting"}
    \/ op[o].at = "flushing" /\ op[o].resume \in {"gate", "snapshot"}

OverCap == Cap > 0 /\ spent >= Cap

Goto(o, label) == op' = [op EXCEPT ![o].at = label]

(* Entering flushPendingSessionWrites: peek at the first write and await   *)
(* its append, or return at once; label is the await that follows.         *)
Flushing(r, label) ==
    IF pending = <<>> THEN [r EXCEPT !.at = label]
    ELSE [r EXCEPT !.at = "flushing", !.resume = label,
                   !.writing = Head(pending)]
FlushThen(o, label) == op' = [op EXCEPT ![o] = Flushing(@, label)]

Fails == failures < MaxFailures /\ failures' = failures + 1
Settled == \A o \in Ops : ~Active(o)

-----------------------------------------------------------------------------
(* Failures *)

(* The loop, or a listener or write inside it, throws: emitRunFailure      *)
(* records a failure message, flushes and ends the run.  A second failure, *)
(* inside emitRunFailure, is thrown to the caller.                         *)
Thrown(r) ==
    [r EXCEPT !.at = IF r.failing THEN "rethrowing" ELSE "reporting",
              !.threw = r.failing, !.failing = TRUE,
              !.held = <<>>, !.writing = None, !.resume = "cleanup",
              !.from = "steer", !.stale = FALSE, !.reason = "error"]

(* Outside the loop an exception goes to the catch of prompt() & co. *)
Rejected(r) == [r EXCEPT !.at = "unwinding", !.threw = TRUE, !.held = <<>>]

Drop(o) == dropped' = dropped \cup ToSet(op[o].held)

-----------------------------------------------------------------------------
Fresh ==
    [at |-> "off", resume |-> "cleanup", held |-> <<>>, from |-> "steer",
     stale |-> FALSE, writing |-> None, reason |-> "toolUse",
     failing |-> FALSE, threw |-> FALSE, cycles |-> 0]

Init ==
    /\ phase = "idle" /\ runPromise = None /\ controller = None
    /\ trip = FALSE
    /\ queue = [q \in Queues |-> <<>>]
    /\ pending = <<>> /\ model = 0 /\ spent = 0
    /\ op = [o \in Ops |-> Fresh]
    /\ writer = [c \in Callers |-> None]
    /\ aborted = {} /\ session = <<>> /\ branchModel = 0
    /\ sent = 0 /\ written = 0 /\ failures = 0
    /\ cleared = {} /\ dropped = {} /\ refused = {} /\ asked = {}

-----------------------------------------------------------------------------
(* Starting an operation *)

MayStart(o) ==
    /\ op[o].at = "off"
    /\ phase = "idle"
    /\ OneAtATime => Settled

Prompt(o) ==
    /\ MayStart(o)
    /\ ~OverCap
    /\ phase' = "turn"
    /\ runPromise' = o
    /\ Goto(o, "preparing")
    /\ UNCHANGED <<controller, trip, queue, pending, model, spent, aborted,
                   store, env, history>>

(* checkBudgetCap throws before the first await. *)
PromptOverCap(o) ==
    /\ MayStart(o)
    /\ OverCap
    /\ runPromise' = None
    /\ Goto(o, "done")
    /\ UNCHANGED <<phase, controller, trip, queue, pending, model, spent,
                   aborted, store, env, history>>

(* compact() and navigateTree(): no run promise and no abort controller. *)
StartStructural(o) ==
    /\ MayStart(o)
    /\ \E p \in Structural : phase' = p /\ Goto(o, p)
    /\ UNCHANGED <<runPromise, controller, trip, queue, pending, model, spent,
                   aborted, store, env, history>>

(* compact() returns or throws; navigateTree() is cancelled, fails, or has *)
(* nowhere to go.                                                          *)
EndStructural(o) ==
    /\ op[o].at \in {"compaction", "branch_summary"}
    /\ phase' = "idle"
    /\ Goto(o, "done")
    /\ UNCHANGED <<runPromise, controller, trip, queue, pending, model, spent,
                   aborted, store, env, history>>

(* The branch moved to may have been made under an earlier model;          *)
(* rehydrateFromSession then restores that one.                            *)
NavigateTree(o) ==
    /\ op[o].at = "branch_summary"
    /\ phase' = "idle"
    /\ \E m \in {0} \cup {w.id : w \in {x \in ToSet(session) : x.kind = "model"}} :
        /\ branchModel' = m
        /\ model' = IF m = 0 THEN model ELSE m
    /\ Goto(o, "done")
    /\ UNCHANGED <<runPromise, controller, trip, queue, pending, spent,
                   session, aborted, env, history>>

-----------------------------------------------------------------------------
(* Up to the loop *)

(* runAutoCompaction and createTurnState, then executeTurn up to its first *)
(* await: the next-turn queue is emptied into the prompt.                  *)
Prepare(o) ==
    /\ op[o].at = "preparing"
    /\ op' = [op EXCEPT ![o].held = queue.nextTurn,
                        ![o].at = IF queue.nextTurn = <<>> THEN "starting"
                                  ELSE "announcingNext"]
    /\ queue' = [queue EXCEPT !.nextTurn = <<>>]
    /\ UNCHANGED <<phase, runPromise, controller, trip, pending, model, spent,
                   aborted, store, env, history>>

PrepareFails(o) ==
    /\ op[o].at = "preparing"
    /\ Fails
    /\ op' = [op EXCEPT ![o] = Rejected(@)]
    /\ UNCHANGED <<harness, aborted, store, writer, sent, written, history>>

AnnounceNext(o) ==
    /\ op[o].at = "announcingNext"
    /\ Goto(o, "starting")
    /\ UNCHANGED <<harness, aborted, store, env, history>>

AnnounceNextFails(o) ==
    /\ op[o].at = "announcingNext"
    /\ Fails
    /\ queue' = [queue EXCEPT !.nextTurn = op[o].held \o @]
    /\ op' = [op EXCEPT ![o] = Rejected(@)]
    /\ UNCHANGED <<phase, runPromise, controller, trip, pending, model, spent,
                   aborted, store, writer, sent, written, history>>

(* The before_agent_start hook has returned; the run gets a controller.    *)
StartLoop(o) ==
    /\ op[o].at = "starting"
    /\ controller' = o
    /\ trip' = FALSE
    /\ aborted' = aborted \ {o}
    /\ op' = [op EXCEPT ![o].at = "prompting", ![o].reason = "toolUse",
                        ![o].failing = FALSE]
    /\ UNCHANGED <<phase, runPromise, queue, pending, model, spent, store,
                   env, history>>

StartLoopFails(o) ==
    /\ op[o].at = "starting"
    /\ Fails
    /\ Drop(o)
    /\ op' = [op EXCEPT ![o] = Rejected(@)]
    /\ UNCHANGED <<harness, aborted, store, writer, sent, written, cleared,
                   refused, asked>>

-----------------------------------------------------------------------------
(* The loop: inject, request, tools, turn end, drain *)

(* message_start and message_end of the next held message: handleAgentEvent*)
(* persists it.                                                            *)
Inject(o) ==
    /\ op[o].at \in {"prompting", "injecting"}
    /\ op[o].held # <<>>
    /\ session' = Append(session, Head(op[o].held))
    /\ op' = [op EXCEPT ![o].held = Tail(@)]
    /\ UNCHANGED <<harness, aborted, branchModel, env, history>>

InjectDone(o) ==
    /\ op[o].at \in {"prompting", "injecting"}
    /\ op[o].held = <<>>
    /\ Goto(o, IF op[o].at = "prompting" THEN "polling" ELSE "requesting")
    /\ UNCHANGED <<harness, aborted, store, env, history>>

(* What a drain removes from queue q: everything or the first message. *)
Drained(q) ==
    IF AllAtOnce \/ queue[q] = <<>> THEN queue[q] ELSE <<Head(queue[q])>>

Take(o, q) ==
    /\ op' = [op EXCEPT ![o].held = Drained(q), ![o].from = q,
                        ![o].stale = FALSE, ![o].at = "announcing"]
    /\ queue' = [queue EXCEPT ![q] = SubSeq(@, Len(Drained(q)) + 1, Len(@))]

(* getSteeringMessages; with nothing queued, a turn that ended in tool use *)
(* (or has not begun) goes on and any other asks for follow-ups.           *)
Poll(o) ==
    /\ op[o].at = "polling"
    /\ IF queue.steer # <<>>
       THEN Take(o, "steer")
       ELSE /\ Goto(o, IF op[o].reason = "toolUse" THEN "requesting"
                       ELSE "following")
            /\ UNCHANGED queue
    /\ UNCHANGED <<phase, runPromise, controller, trip, pending, model, spent,
                   aborted, store, env, history>>

Follow(o) ==
    /\ op[o].at = "following"
    /\ IF queue.followUp # <<>>
       THEN Take(o, "followUp")
       ELSE FlushThen(o, "goIdle") /\ UNCHANGED queue
    /\ UNCHANGED <<phase, runPromise, controller, trip, pending, model, spent,
                   aborted, store, env, history>>

Announce(o) ==
    /\ op[o].at = "announcing"
    /\ op' = [op EXCEPT ![o].at = "injecting", ![o].from = "steer",
                        ![o].stale = FALSE]
    /\ UNCHANGED <<harness, aborted, store, env, history>>

\* mutant: no rollback
UnrestoredAnnounceFails(o) ==
    /\ op[o].at = "announcing"
    /\ Fails
    /\ op' = [op EXCEPT ![o] = Thrown(@)]
    /\ UNCHANGED <<harness, aborted, store, writer, sent, written, history>>

(* The drained messages go back to the array they were taken from, which   *)
(* abort() may have replaced meanwhile.                                    *)
AnnounceFails(o) ==
    /\ op[o].at = "announcing"
    /\ Fails
    /\ IF op[o].stale
       THEN Drop(o) /\ UNCHANGED queue
       ELSE /\ queue' = [queue EXCEPT ![op[o].from] = op[o].held \o @]
            /\ UNCHANGED dropped
    /\ op' = [op EXCEPT ![o] = Thrown(@)]
    /\ UNCHANGED <<phase, runPromise, controller, trip, pending, model, spent,
                   aborted, store, writer, sent, written, cleared, refused,
                   asked>>

Request(o) ==
    /\ op[o].at = "requesting"
    /\ Goto(o, "streaming")
    /\ UNCHANGED <<harness, aborted, store, env, history>>

(* The response is complete: message_end adds its cost and persists it. *)
Respond(o) ==
    /\ op[o].at = "streaming"
    /\ o \notin aborted
    /\ \E r \in {"stop", "toolUse", "error"} :
        op' = [op EXCEPT ![o].reason = r,
                         ![o].at = IF r = "toolUse" THEN "tools" ELSE "turnEnd"]
    /\ spent' = IF spent < Cap THEN spent + 1 ELSE spent
    /\ UNCHANGED <<phase, runPromise, controller, trip, queue, pending, model,
                   aborted, store, env, history>>

\* mutant: the signal is looked at between tools only
DeafAbortStream(o) ==
    /\ op[o].at = "tools"
    /\ o \in aborted
    /\ op' = [op EXCEPT ![o] = Thrown(@)]
    /\ UNCHANGED <<harness, aborted, store, env, history>>

(* selectBiased prefers the abort signal to the next stream event, however *)
(* long the provider stalls.                                               *)
AbortStream(o) ==
    /\ op[o].at = "streaming"
    /\ o \in aborted
    /\ op' = [op EXCEPT ![o] = Thrown(@)]
    /\ UNCHANGED <<harness, aborted, store, env, history>>

(* The tool batch; it may ask, unanimously, to terminate the run. *)
RunTools(o) ==
    /\ op[o].at = "tools"
    /\ \E r \in {"toolUse", "terminate"} :
        op' = [op EXCEPT ![o].reason = r, ![o].at = "turnEnd"]
    /\ UNCHANGED <<harness, aborted, store, env, history>>

\* mutant: idle already at turn_end
EagerTurnEnd(o) ==
    /\ op[o].at = "turnEnd"
    /\ phase' = "idle"
    /\ FlushThen(o, "gate")
    /\ UNCHANGED <<runPromise, controller, trip, queue, pending, model, spent,
                   aborted, store, env, history>>

TurnEnd(o) ==
    /\ op[o].at = "turnEnd"
    /\ FlushThen(o, "gate")
    /\ UNCHANGED <<harness, aborted, store, env, history>>

\* mutant: only queued messages count as another request
QueueOnlyCapStops(o) ==
    /\ queue.steer # <<>> \/ queue.followUp # <<>>
    /\ OverCap

(* budgetCapStopsLoop: only when another request would follow. *)
CapStops(o) ==
    /\ \/ op[o].reason \in {"toolUse", "terminate"}
       \/ queue.steer # <<>>
       \/ queue.followUp # <<>>
    /\ OverCap

(* After save_point: error, cap, terminate or prepareNextTurn. *)
Gate(o) ==
    /\ op[o].at = "gate"
    /\ IF op[o].reason # "error" /\ CapStops(o)
       THEN trip' = TRUE /\ FlushThen(o, "goIdle")
       ELSE /\ FlushThen(o, IF op[o].reason \in {"error", "terminate"}
                            THEN "goIdle" ELSE "snapshot")
            /\ UNCHANGED trip
    /\ UNCHANGED <<phase, runPromise, controller, queue, pending, model, spent,
                   aborted, store, env, history>>

(* createTurnState for the next turn of the run. *)
Snapshot(o) ==
    /\ op[o].at = "snapshot"
    /\ Goto(o, "polling")
    /\ UNCHANGED <<harness, aborted, store, env, history>>

(* A listener, hook, tool event or session write inside the loop throws. *)
LoopFails(o) ==
    /\ op[o].at \in {"prompting", "injecting", "requesting", "streaming",
                     "tools", "turnEnd", "gate", "snapshot", "settling",
                     "reporting"}
    /\ Fails
    /\ Drop(o)
    /\ op' = [op EXCEPT ![o] = Thrown(@)]
    /\ UNCHANGED <<harness, aborted, store, writer, sent, written, cleared,
                   refused, asked>>

-----------------------------------------------------------------------------
(* Flushing pending writes: peek, await the append, shift *)

Shift(s) == IF s = <<>> THEN s ELSE Tail(s)

Persist(w) ==
    /\ session' = Append(session, w)
    /\ branchModel' = IF w.kind = "model" THEN w.id ELSE branchModel

FlushAppend(o) ==
    /\ op[o].at = "flushing"
    /\ Persist(op[o].writing)
    /\ pending' = Shift(pending)
    /\ op' = [op EXCEPT
                ![o].at = IF pending' = <<>> THEN op[o].resume ELSE "flushing",
                ![o].resume = IF pending' = <<>> THEN "cleanup" ELSE @,
                ![o].writing = IF pending' = <<>> THEN None ELSE Head(pending')]
    /\ UNCHANGED <<phase, runPromise, controller, trip, queue, model, spent,
                   aborted, env, history>>

\* mutant: shift before the append is known to have succeeded
ShiftingFlushFails(o) ==
    /\ op[o].at = "flushing"
    /\ Fails
    /\ pending' = Shift(pending)
    /\ op' = [op EXCEPT ![o] =
                IF @.resume = "cleanup"
                THEN [@ EXCEPT !.at = "cleanup", !.threw = TRUE, !.writing = None]
                ELSE Thrown(@)]
    /\ UNCHANGED <<phase, runPromise, controller, trip, queue, model, spent,
                   aborted, store, writer, sent, written, history>>

FlushFails(o) ==
    /\ op[o].at = "flushing"
    /\ Fails
    /\ op' = [op EXCEPT ![o] =
                IF @.resume = "cleanup"
                THEN [@ EXCEPT !.at = "cleanup", !.threw = TRUE, !.writing = None]
                ELSE Thrown(@)]
    /\ UNCHANGED <<harness, aborted, store, writer, sent, written, history>>

-----------------------------------------------------------------------------
(* Ending a run *)

(* emitRunFailure has recorded the failure message: turn_end, agent_end. *)
ReportFailure(o) ==
    /\ op[o].at = "reporting"
    /\ FlushThen(o, "goIdle")
    /\ UNCHANGED <<harness, aborted, store, env, history>>

(* emitRunFailure itself failed: straight to the finally of executeTurn. *)
Rethrow(o) ==
    /\ op[o].at = "rethrowing"
    /\ FlushThen(o, "cleanup")
    /\ UNCHANGED <<harness, aborted, store, env, history>>

(* agent_end, after its flush. *)
GoIdle(o) ==
    /\ op[o].at = "goIdle"
    /\ phase' = "idle"
    /\ Goto(o, "settling")
    /\ UNCHANGED <<runPromise, controller, trip, queue, pending, model, spent,
                   aborted, store, env, history>>

(* The agent_end and settled listeners have run; takeBudgetCapTrip. *)
Settle(o) ==
    /\ op[o].at = "settling"
    /\ trip' = FALSE
    /\ op' = [op EXCEPT ![o] = Flushing([@ EXCEPT !.threw = trip], "cleanup")]
    /\ UNCHANGED <<phase, runPromise, controller, queue, pending, model, spent,
                   aborted, store, env, history>>

(* The finally of executeTurn, then the top of the continuation loop. *)
Cleanup(o) ==
    /\ op[o].at = "cleanup"
    /\ controller' = None
    /\ aborted' = aborted \ {o}
    /\ Goto(o, IF ~op[o].threw /\ Hook /\ op[o].cycles < ContinuationCap
               THEN "asking" ELSE "unwinding")
    /\ UNCHANGED <<phase, runPromise, trip, queue, pending, model, spent,
                   store, env, history>>

(* onTurnEnd: noop, stop and pause end the operation; continue checks the  *)
(* cap and runs another turn, without setting the phase again.             *)
StopHere(o) ==
    /\ op[o].at = "asking"
    /\ Goto(o, "unwinding")
    /\ UNCHANGED <<harness, aborted, store, env, history>>

ContinueTurn(o) ==
    /\ op[o].at = "asking"
    /\ op' = [op EXCEPT ![o].cycles = @ + 1,
                        ![o].at = IF OverCap THEN "unwinding" ELSE "preparing",
                        ![o].threw = OverCap]
    /\ UNCHANGED <<harness, aborted, store, env, history>>

\* mutant: the catch does not reset the phase
ForgetfulFinish(o) ==
    /\ op[o].at = "unwinding"
    /\ runPromise' = None
    /\ op' = [op EXCEPT ![o] = [Fresh EXCEPT !.at = "done"]]
    /\ asked' = asked \ {o}
    /\ UNCHANGED <<phase, controller, trip, queue, pending, model, spent, aborted,
                   store, env, cleared, dropped, refused>>

(* The catch and finally of prompt() & co. *)
Finish(o) ==
    /\ op[o].at = "unwinding"
    /\ phase' = IF op[o].threw THEN "idle" ELSE phase
    /\ runPromise' = None
    /\ op' = [op EXCEPT ![o] = [Fresh EXCEPT !.at = "done"]]
    /\ asked' = asked \ {o}
    /\ UNCHANGED <<controller, trip, queue, pending, model, spent, aborted, store,
                   env, cleared, dropped, refused>>

-----------------------------------------------------------------------------
(* Calls that may come at any time *)

(* steer() and followUp() reject while idle, nextTurn() never does. *)
Send(q) ==
    /\ sent < MaxMessages
    /\ q # "nextTurn" => phase # "idle"
    /\ sent' = sent + 1
    /\ queue' = [queue EXCEPT ![q] = Append(@, [id |-> sent', kind |-> "user"])]
    /\ UNCHANGED <<phase, runPromise, controller, trip, pending, model, spent,
                   op, aborted, store, writer, written, failures, history>>

(* setModel and setThinkingLevel (kind "model") or appendMessage, while    *)
(* idle: the append is awaited before the value is committed.              *)
WriteIdle(c, kind) ==
    /\ written < MaxWrites
    /\ writer[c] = None
    /\ phase = "idle"
    /\ written' = written + 1
    /\ writer' = [writer EXCEPT ![c] =
                    [id |-> written', kind |-> kind, queued |-> FALSE]]
    /\ UNCHANGED <<harness, op, aborted, store, sent, failures, history>>

CommitIdle(c) ==
    /\ writer[c] # None
    /\ Persist(writer[c])
    /\ model' = IF writer[c].kind = "model" THEN writer[c].id ELSE model
    /\ writer' = [writer EXCEPT ![c] = None]
    /\ UNCHANGED <<phase, runPromise, controller, trip, queue, pending, spent,
                   op, aborted, sent, written, failures, history>>

WriteIdleFails(c) ==
    /\ writer[c] # None
    /\ Fails
    /\ refused' = refused \cup {writer[c]}
    /\ writer' = [writer EXCEPT ![c] = None]
    /\ UNCHANGED <<harness, op, aborted, store, sent, written, cleared,
                   dropped, asked>>

(* The same calls while an operation runs: the write is queued and the     *)
(* value committed at once.                                                *)
WriteBusy(c, kind) ==
    /\ written < MaxWrites
    /\ writer[c] = None
    /\ phase # "idle"
    /\ written' = written + 1
    /\ pending' = Append(pending,
                    [id |-> written', kind |-> kind, queued |-> TRUE])
    /\ model' = IF kind = "model" THEN written' ELSE model
    /\ UNCHANGED <<phase, runPromise, controller, trip, queue, spent, op,
                   aborted, store, writer, sent, failures, history>>

(* abort(), up to its first await: it replaces both queues and fires the   *)
(* controller.  What follows only notifies and waits.                      *)
Abort ==
    /\ queue' = [queue EXCEPT !.steer = <<>>, !.followUp = <<>>]
    /\ cleared' = cleared \cup ToSet(queue.steer) \cup ToSet(queue.followUp)
    /\ aborted' = aborted \cup ({controller} \ {None})
    /\ op' = [o \in Ops |-> [op[o] EXCEPT !.stale = @ \/ op[o].at = "announcing"]]
    /\ asked' = asked \cup {o \in Ops : Active(o) /\ op[o].at \notin Structural}
    /\ UNCHANGED <<phase, runPromise, controller, trip, pending, model, spent,
                   store, env, dropped, refused>>

ResetCost ==
    /\ spent > 0
    /\ spent' = 0
    /\ UNCHANGED <<phase, runPromise, controller, trip, queue, pending, model,
                   op, aborted, store, env, history>>

-----------------------------------------------------------------------------
(* The steps of operation o that do not wait for the provider. *)
Advance(o) ==
    \/ Prepare(o) \/ AnnounceNext(o) \/ StartLoop(o)
    \/ Inject(o) \/ InjectDone(o) \/ Poll(o) \/ Follow(o) \/ Announce(o)
    \/ Request(o) \/ AbortStream(o) \/ RunTools(o) \/ TurnEnd(o) \/ Gate(o)
    \/ Snapshot(o) \/ FlushAppend(o) \/ ReportFailure(o) \/ Rethrow(o)
    \/ GoIdle(o) \/ Settle(o) \/ Cleanup(o) \/ StopHere(o) \/ ContinueTurn(o)
    \/ Finish(o) \/ EndStructural(o) \/ NavigateTree(o)

Break(o) ==
    \/ PrepareFails(o) \/ AnnounceNextFails(o) \/ StartLoopFails(o)
    \/ AnnounceFails(o) \/ LoopFails(o) \/ FlushFails(o)

Next ==
    \/ \E o \in Ops :
        \/ Prompt(o) \/ PromptOverCap(o) \/ StartStructural(o)
        \/ Advance(o) \/ Respond(o) \/ Break(o)
    \/ \E q \in Sends : Send(q)
    \/ \E c \in Callers, kind \in WriteKinds :
        WriteIdle(c, kind) \/ WriteBusy(c, kind)
    \/ \E c \in Callers : CommitIdle(c) \/ WriteIdleFails(c)
    \/ Abort
    \/ ResetCost

Spec == Init /\ [][Next]_vars

(* Listeners, hooks, tools and file writes return; a provider may stall    *)
(* for ever, so Respond has no fairness.                                   *)
FairSpec == Spec /\ \A o \in Ops : WF_vars(Advance(o))

-----------------------------------------------------------------------------
(* Properties *)

OpType ==
    [at : Labels, resume : Flushes, held : Seq(Messages),
     from : {"steer", "followUp"}, stale : BOOLEAN,
     writing : Writes \cup {None},
     reason : {"stop", "toolUse", "terminate", "error"},
     failing : BOOLEAN, threw : BOOLEAN, cycles : 0..ContinuationCap]

(* Every variable has its type. *)
TypeOK ==
    /\ phase \in Phases
    /\ {runPromise, controller} \subseteq Ops \cup {None}
    /\ trip \in BOOLEAN
    /\ DOMAIN queue = Queues /\ \A q \in Queues : queue[q] \in Seq(Messages)
    /\ pending \in Seq(Writes)
    /\ {model, branchModel} \subseteq 0..MaxWrites
    /\ spent \in 0..Cap
    /\ DOMAIN op = Ops /\ \A o \in Ops : op[o] \in OpType
    /\ DOMAIN writer = Callers
    /\ \A c \in Callers : writer[c] \in Writes \cup {None}
    /\ {aborted, asked} \subseteq SUBSET Ops
    /\ session \in Seq(Writes \cup Messages)
    /\ sent \in 0..MaxMessages /\ written \in 0..MaxWrites
    /\ failures \in 0..MaxFailures
    /\ cleared \cup dropped \subseteq Messages
    /\ refused \subseteq Writes

Copies(x, s) == Cardinality({i \in DOMAIN s : s[i] = x})
Holders(x) == Cardinality({o \in Ops : x \in ToSet(op[o].held)})
One(b) == IF b THEN 1 ELSE 0

(* A message accepted by steer(), followUp() or nextTurn() is in exactly   *)
(* one place: queued, held by the run that drained it, persisted once,     *)
(* reported as cleared by abort(), or - only if something failed - gone    *)
(* down with the run that held it.                                         *)
MessagesAccounted ==
    /\ \A i \in 1..sent : LET x == [id |-> i, kind |-> "user"] IN
        Copies(x, queue.steer) + Copies(x, queue.followUp)
          + Copies(x, queue.nextTurn) + Holders(x) + Copies(x, session)
          + One(x \in cleared) + One(x \in dropped) = 1
    /\ dropped # {} => failures > 0

IsWrite(x) == x.kind # "user"
WriteCopies(i, s) == Cardinality({k \in DOMAIN s : IsWrite(s[k]) /\ s[k].id = i})
IdleIds == {writer[c].id : c \in {d \in Callers : writer[d] # None}}

(* A write accepted by setModel() & co. is waiting or persisted or its     *)
(* caller got an error: never lost, never persisted twice by a flush that  *)
(* peeks, awaits and shifts.  Those queued while busy are persisted in the *)
(* order they were made.                                                   *)
WritesAccounted ==
    /\ \A i \in 1..written :
        WriteCopies(i, session) + WriteCopies(i, pending)
          + One(i \in IdleIds) + One(\E w \in refused : w.id = i) = 1
    /\ \A j, k \in {n \in DOMAIN session : IsWrite(session[n]) /\ session[n].queued} :
          j < k => session[j].id < session[k].id

(* Once every operation has settled nothing of it is left behind: idle, no *)
(* run promise to wait for, no controller to abort, no message in hand.    *)
Restored ==
    Settled => /\ phase = "idle" /\ runPromise = None /\ controller = None
               /\ \A o \in Ops : op[o].held = <<>> /\ op[o].writing = None

(* When nothing is in flight, the model the harness uses is the one the    *)
(* session would restore.  Not kept by the code: see README.md.            *)
ModelMatches ==
    /\ Settled
    /\ \A c \in Callers : writer[c] = None
    /\ branchModel # 0
    => branchModel = model

(* A run that may still issue requests is visible: the phase is not idle,  *)
(* so steer() is accepted and a second prompt() is rejected; abort()       *)
(* reaches its controller and waitForIdle() waits for it.                  *)
RunVisible ==
    \A o \in Ops : Running(o) => /\ phase # "idle"
                                 /\ controller = o /\ runPromise = o

(* A message accepted by followUp() (or steer()) is taken up by the run it *)
(* was accepted during: none is left when everything has settled.  Not     *)
(* kept by the code: see README.md.                                        *)
NoneStranded ==
    Settled => queue.steer = <<>> /\ queue.followUp = <<>>

(* No provider request is issued once the recorded cost has reached the    *)
(* budget cap: neither within a run nor by a continuation or a new run.    *)
NoRequestOverCap ==
    [][\A o \in Ops : op[o].at # "streaming" /\ op'[o].at = "streaming"
                        => ~OverCap]_vars

(* A turn whose controller has fired ends, even if its provider stalls and *)
(* its tools loop: the run is over, or the onTurnEnd hook has the word.    *)
AbortEndsRun ==
    \A o \in Ops : (o \in aborted) ~> (op[o].at \in {"asking", "done"})

(* An operation abort() was called on ends, whatever it was doing.  Not    *)
(* kept by the code: see README.md.                                        *)
AbortHeeded ==
    \A o \in Ops : (o \in asked) ~> (op[o].at = "done")

=============================================================================
