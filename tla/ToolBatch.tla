------------------------------ MODULE ToolBatch ------------------------------
(***************************************************************************)
(* The tool calls of one assistant message (executeToolCalls in            *)
(* packages/agent/src/agent-loop.ts): preparation with its permission gate,*)
(* sequential or parallel execution, abort, and what the next provider     *)
(* request makes of the transcript (transformMessages in                   *)
(* packages/ai/src/providers/transform-messages.ts).                       *)
(*                                                                         *)
(* A step is the code between two awaits.  Calls 1..N are in the order of  *)
(* the assistant message.                                                  *)
(***************************************************************************)
EXTENDS Integers, Sequences, FiniteSets, SequencesExt

CONSTANTS
    N,              \* tool calls in the message
    MaxFailures     \* failures of event listeners

ASSUME BatchAssumption == N \in Nat \ {0} /\ MaxFailures \in Nat

Calls == 1..N
Classes == {"missing", "invalid", "block", "prompt", "allow"}
Wishes == {"none", "block", "prompt"}       \* what beforeToolCall returns
Decisions == {"none", "allow", "deny", "timeout"}
Stages == {"waiting", "starting", "hook", "asking", "prepared", "executing",
           "ending", "reporting", "done", "failed"}

VARIABLES
    sequential,     \* toolExecution, or a tool of the batch that asks for it
    channel,        \* onControlPlanePrompt is configured
    class,          \* call -> found, valid, and its permission class
    wish,           \* call -> the hook's answer
    decision,       \* call -> the answer to its control-plane prompt
    stage,          \* call -> the await it is suspended at
    batch,          \* "preparing", "running", "emitting", "done", "failed", "over"
    aborted,        \* the run's signal
    transcript,     \* messages persisted, from the assistant message on
    ends,           \* calls whose tool_execution_end was emitted, in order
    executed,       \* history: calls whose tool was run
    failures

gate == <<sequential, channel, class, wish, decision>>
vars == <<gate, stage, batch, aborted, transcript, ends, executed, failures>>

AssistantMessage == [role |-> "assistant", call |-> 0]
FailureMessage == [role |-> "failure", call |-> 0]  \* stopReason error, aborted
UserMessage == [role |-> "user", call |-> 0]
Result(i) == [role |-> "toolResult", call |-> i]

-----------------------------------------------------------------------------
Init ==
    /\ sequential \in BOOLEAN /\ channel \in BOOLEAN
    /\ class \in [Calls -> Classes]
    /\ wish = [i \in Calls |-> "none"]
    /\ decision = [i \in Calls |-> "none"]
    /\ stage = [i \in Calls |-> "waiting"]
    /\ batch = "preparing"
    /\ aborted = FALSE
    /\ transcript = <<AssistantMessage>>
    /\ ends = <<>>
    /\ executed = {}
    /\ failures = 0

Abort ==
    /\ ~aborted
    /\ batch \notin {"done", "over"}
    /\ aborted' = TRUE
    /\ UNCHANGED <<gate, stage, batch, transcript, ends, executed, failures>>

-----------------------------------------------------------------------------
(* Preparation *)

(* The calls the loop has looked at; it goes in order. *)
Begun == {i \in Calls : stage[i] # "waiting"}
Settled == {i \in Calls : stage[i] \in {"prepared", "done"}}

(* tool_execution_start of the next call. *)
StartCall(i) ==
    /\ batch = "preparing"
    /\ i = Cardinality(Begun) + 1
    /\ Begun = Settled
    /\ ~(aborted /\ Begun # {})         \* the break after each call
    /\ stage' = [stage EXCEPT ![i] = "starting"]
    /\ UNCHANGED <<gate, batch, aborted, transcript, ends, executed, failures>>

(* A call that must not run gets an error result at once. *)
Immediate(i) ==
    /\ stage' = [stage EXCEPT ![i] = "ending"]
    /\ UNCHANGED executed

(* Past the gate: run the tool now, or after the others are prepared. *)
Admit(i) ==
    IF aborted THEN Immediate(i)
    ELSE /\ stage' = [stage EXCEPT ![i] = IF sequential THEN "executing"
                                          ELSE "prepared"]
         /\ executed' = IF sequential THEN executed \cup {i} ELSE executed

(* Lookup, validation and classification; then the beforeToolCall hook. *)
Classify(i) ==
    /\ stage[i] = "starting"
    /\ IF class[i] \in {"missing", "invalid", "block"}
       THEN Immediate(i)
       ELSE stage' = [stage EXCEPT ![i] = "hook"] /\ UNCHANGED executed
    /\ UNCHANGED <<gate, batch, aborted, transcript, ends, failures>>

(* The classifier's and the hook's prompt requirement are merged; without  *)
(* a channel the answer is deny.                                           *)
Prompted(i, w) == class[i] = "prompt" \/ w = "prompt"

HookReturns(i) ==
    /\ stage[i] = "hook"
    /\ \E w \in Wishes :
        /\ wish' = [wish EXCEPT ![i] = w]
        /\ \/ /\ aborted \/ w = "block" \/ (Prompted(i, w) /\ ~channel)
              /\ Immediate(i)
           \/ /\ ~aborted /\ w # "block" /\ Prompted(i, w) /\ channel
              /\ stage' = [stage EXCEPT ![i] = "asking"]
              /\ UNCHANGED executed
           \/ /\ ~aborted /\ w # "block" /\ ~Prompted(i, w)
              /\ Admit(i)
    /\ UNCHANGED <<sequential, channel, class, decision, batch, aborted,
                   transcript, ends, failures>>

(* beforeToolCall throws: the catch makes it an error result. *)
HookThrows(i) ==
    /\ stage[i] = "hook"
    /\ Immediate(i)
    /\ UNCHANGED <<gate, batch, aborted, transcript, ends, failures>>

\* mutant: a prompt that times out lets the call through
LenientDecide(i) ==
    /\ stage[i] = "asking"
    /\ \E d \in Decisions \ {"none"} :
        /\ decision' = [decision EXCEPT ![i] = d]
        /\ IF d = "deny" THEN Immediate(i) ELSE Admit(i)
    /\ UNCHANGED <<sequential, channel, class, wish, batch, aborted,
                   transcript, ends, failures>>

(* onControlPlanePrompt has answered and the answer has been announced. *)
Decide(i) ==
    /\ stage[i] = "asking"
    /\ \E d \in Decisions \ {"none"} :
        /\ decision' = [decision EXCEPT ![i] = d]
        /\ IF d = "allow" THEN Admit(i) ELSE Immediate(i)
    /\ UNCHANGED <<sequential, channel, class, wish, batch, aborted,
                   transcript, ends, failures>>

-----------------------------------------------------------------------------
(* Execution *)

\* mutant: an aborted loop waits for the calls it skipped
StuckPreparationOver == Begun = Settled /\ Begun = Calls

PreparationOver ==
    /\ Begun = Settled
    /\ Begun = Calls \/ (aborted /\ Begun # {})

(* Parallel: every prepared tool is started in the same step. *)
StartPrepared ==
    /\ ~sequential
    /\ batch = "preparing"
    /\ PreparationOver
    /\ LET ready == {i \in Calls : stage[i] = "prepared"} IN
        /\ stage' = [i \in Calls |-> IF i \in ready THEN "executing" ELSE stage[i]]
        /\ executed' = executed \cup ready
    /\ batch' = "running"
    /\ UNCHANGED <<gate, aborted, transcript, ends, failures>>

(* The tool has returned or thrown and afterToolCall has had its say. *)
ToolReturns(i) ==
    /\ stage[i] = "executing"
    /\ stage' = [stage EXCEPT ![i] = "ending"]
    /\ UNCHANGED <<gate, batch, aborted, transcript, ends, executed, failures>>

(* tool_execution_end; a sequential call then reports its result message.  *)
EndCall(i) ==
    /\ stage[i] = "ending"
    /\ ends' = Append(ends, i)
    /\ stage' = [stage EXCEPT ![i] = IF sequential THEN "reporting" ELSE "done"]
    /\ UNCHANGED <<gate, batch, aborted, transcript, executed, failures>>

Report(i) ==
    /\ stage[i] = "reporting"
    /\ transcript' = Append(transcript, Result(i))
    /\ stage' = [stage EXCEPT ![i] = "done"]
    /\ UNCHANGED <<gate, batch, aborted, ends, executed, failures>>

(* Promise.all has resolved: result messages in source order. *)
AllSettled ==
    /\ batch = "running"
    /\ \A i \in Begun : stage[i] = "done"
    /\ batch' = "emitting"
    /\ UNCHANGED <<gate, stage, aborted, transcript, ends, executed, failures>>

Reported == Len(transcript) - 1

\* mutant: results in completion order
CompletionEmitResult ==
    /\ batch = "emitting"
    /\ Reported < Cardinality(Begun)
    /\ transcript' = Append(transcript, Result(ends[Reported + 1]))
    /\ UNCHANGED <<gate, stage, batch, aborted, ends, executed, failures>>

EmitResult ==
    /\ batch = "emitting"
    /\ Reported < Cardinality(Begun)
    /\ transcript' = Append(transcript, Result(Reported + 1))
    /\ UNCHANGED <<gate, stage, batch, aborted, ends, executed, failures>>

FinishBatch ==
    /\ \/ batch = "emitting" /\ Reported = Cardinality(Begun)
       \/ sequential /\ batch = "preparing" /\ PreparationOver
    /\ batch' = "done"
    /\ UNCHANGED <<gate, stage, aborted, transcript, ends, executed, failures>>

-----------------------------------------------------------------------------
(* Failure and the end of the run *)

(* A listener throws while a call's event is emitted, or an update of a    *)
(* running tool: the batch rejects, other running tools are left alone.    *)
ListenerFails(i) ==
    /\ failures < MaxFailures
    /\ stage[i] \in {"starting", "executing", "ending", "reporting"}
    /\ stage' = [stage EXCEPT ![i] = "failed"]
    /\ batch' = IF batch \in {"failed", "over"} THEN batch ELSE "failed"
    /\ failures' = failures + 1
    /\ UNCHANGED <<gate, aborted, transcript, ends, executed>>

EmitFails ==
    /\ failures < MaxFailures
    /\ batch = "emitting"
    /\ batch' = "failed"
    /\ failures' = failures + 1
    /\ UNCHANGED <<gate, stage, aborted, transcript, ends, executed>>

\* mutant: the batch is not awaited
HastyEndRun ==
    /\ batch \in {"running", "done", "failed"}
    /\ batch' = "over"
    /\ transcript' = Append(transcript, UserMessage)
    /\ UNCHANGED <<gate, stage, aborted, ends, executed, failures>>

(* The run ends, a failed or aborted one with a failure message (see       *)
(* AgentHarness), and the user's next message follows.                     *)
EndRun ==
    /\ batch \in {"done", "failed"}
    /\ batch' = "over"
    /\ transcript' = transcript
            \o (IF aborted \/ batch = "failed" THEN <<FailureMessage>> ELSE <<>>)
            \o <<UserMessage>>
    /\ UNCHANGED <<gate, stage, aborted, ends, executed, failures>>

Advance ==
    \/ \E i \in Calls :
        \/ StartCall(i) \/ Classify(i) \/ HookReturns(i) \/ HookThrows(i)
        \/ Decide(i) \/ ToolReturns(i) \/ EndCall(i) \/ Report(i)
    \/ StartPrepared \/ AllSettled \/ EmitResult \/ FinishBatch \/ EndRun

Next ==
    \/ Advance
    \/ Abort
    \/ \E i \in Calls : ListenerFails(i)
    \/ EmitFails

Spec == Init /\ [][Next]_vars

(* Hooks, prompts (which time out) and tools return. *)
FairSpec == Spec /\ WF_vars(Advance)

-----------------------------------------------------------------------------
(* What the provider is sent *)

(* insertSyntheticToolResults: in turn, an error result for each pending   *)
(* call that has none yet.                                                 *)
WithSynthetic(s) ==
    LET upTo[i \in 0..N] ==
            IF i = 0 THEN s.out
            ELSE IF i \in s.pending \ s.answered THEN Append(upTo[i - 1], Result(i))
            ELSE upTo[i - 1]
    IN  [out |-> upTo[N], pending |-> {}, answered |-> {}]

\* mutant: nothing is inserted before a user message
GapTransformOne(s, msg) ==
    CASE msg.role = "assistant" ->
            [out |-> Append(s.out, msg), pending |-> Calls, answered |-> {}]
      [] msg.role = "toolResult" ->
            [s EXCEPT !.out = Append(@, msg), !.answered = @ \cup {msg.call}]
      [] msg.role = "failure" -> s
      [] msg.role = "user" -> [s EXCEPT !.out = Append(@, msg)]

(* One message of the second pass of transformMessages: a failure message  *)
(* is an assistant message that is skipped.                                *)
TransformOne(s, msg) ==
    CASE msg.role = "assistant" ->
            [out |-> Append(WithSynthetic(s).out, msg),
             pending |-> Calls, answered |-> {}]
      [] msg.role = "failure" -> WithSynthetic(s)
      [] msg.role = "toolResult" ->
            [s EXCEPT !.out = Append(@, msg), !.answered = @ \cup {msg.call}]
      [] msg.role = "user" ->
            LET t == WithSynthetic(s) IN [t EXCEPT !.out = Append(@, msg)]

TransformMessages(msgs) ==
    LET after[n \in 0..Len(msgs)] ==
            IF n = 0 THEN [out |-> <<>>, pending |-> {}, answered |-> {}]
            ELSE TransformOne(after[n - 1], msgs[n])
    IN  WithSynthetic(after[Len(msgs)]).out

-----------------------------------------------------------------------------
(* Properties *)

(* Every variable has its type. *)
TypeOK ==
    /\ sequential \in BOOLEAN /\ channel \in BOOLEAN
    /\ class \in [Calls -> Classes] /\ wish \in [Calls -> Wishes]
    /\ decision \in [Calls -> Decisions] /\ stage \in [Calls -> Stages]
    /\ batch \in {"preparing", "running", "emitting", "done", "failed", "over"}
    /\ aborted \in BOOLEAN
    /\ \A k \in DOMAIN transcript :
        transcript[k] \in {AssistantMessage, FailureMessage, UserMessage}
                            \cup {Result(i) : i \in Calls}
    /\ ends \in Seq(Calls)
    /\ executed \subseteq Calls
    /\ failures \in 0..MaxFailures

(* A tool runs only if it exists, its arguments are valid, neither the     *)
(* classifier nor the hook blocked it, and every prompt either of them     *)
(* asked for was answered with allow: no channel means no.                 *)
GateRespected ==
    \A i \in executed :
        /\ class[i] \in {"allow", "prompt"}
        /\ wish[i] # "block"
        /\ "prompt" \in {class[i], wish[i]} => decision[i] = "allow" /\ channel

(* Result messages appear in source order without gaps or repetitions,     *)
(* whatever order the tools finish in.  When a batch completes, every call *)
(* announced with tool_execution_start has had exactly one                 *)
(* tool_execution_end and a result; calls skipped by an abort have had     *)
(* neither, and without an abort none is skipped.                          *)
EveryStartEnds ==
    LET results == {k \in DOMAIN transcript : transcript[k].role = "toolResult"} IN
    /\ \A k \in results : transcript[k].call = Cardinality(results \cap 1..k)
    /\ batch = "done" =>
        /\ ToSet(ends) = Begun /\ Len(ends) = Cardinality(Begun)
        /\ Cardinality(results) = Cardinality(Begun)
        /\ ~aborted => Begun = Calls

(* Whatever interrupted the batch, the next request carries, right after   *)
(* the assistant message, exactly one result for each of its calls.        *)
RequestWellFormed ==
    batch = "over" =>
        LET out == TransformMessages(transcript) IN
        /\ Len(out) = N + 2
        /\ out[1] = AssistantMessage /\ out[N + 2] = UserMessage
        /\ {out[k] : k \in 2..(N + 1)} = {Result(i) : i \in Calls}

(* agent_end is the last event of a run: no tool of the batch is still     *)
(* running, about to emit its own events, after it.  In parallel mode a    *)
(* listener that throws rejects Promise.all and the others are left        *)
(* running, so the promise holds for batches without such a failure and    *)
(* for sequential ones.                                                    *)
QuietAfterEnd ==
    batch = "over" /\ (sequential \/ failures = 0) =>
        \A i \in Calls : stage[i] \notin {"executing", "ending", "reporting"}

(* Every batch comes to its end, aborted, failed or not. *)
BatchEnds == <>(batch = "over")

=============================================================================
