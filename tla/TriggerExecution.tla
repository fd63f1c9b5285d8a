-------------------------- MODULE TriggerExecution --------------------------
(***************************************************************************)
(* What the harness does with a trigger: the pump of a notification hook   *)
(* takes it from the hook's queue, handleTrigger evaluates it and asks for *)
(* permission, and an accepted trigger runs its action on its own:         *)
(* a summary, a message injected into the parent conversation, or a        *)
(* sub-agent, possibly followed by a promotion of its result into the      *)
(* parent. Every await lets the other triggers, the parent's runs and the  *)
(* abort calls go on, and so does every microtask of the select that races *)
(* a sub-agent with its cancellation. The verdict of                       *)
(* TriggerRuntime.evaluate is any.                                         *)
(***************************************************************************)
EXTENDS Naturals, Sequences, FiniteSets, SequencesExt

CONSTANTS
    Triggers, Hooks, Traces,
    HookOf,     \* the hook each trigger comes from
    TraceOf,    \* its trace_id
    Deliveries, \* what the action hook may choose
    Failures,   \* which callbacks and appends may fail
    Phases,     \* what the parent does besides being idle
    TurnEndHook, \* whether an onTurnEnd hook is configured
    MaxRuns,    \* bound on the parent's runs and continuations
    MaxAborts,  \* bound on the calls of abort
    NoTrigger,
    TurnEnd     \* the turn-end hook, as a user of the controller's slot

Throwing == {"before_trigger", "prompt", "action", "prepare", "listener", "append", "turn_end"}
DeliveryKinds == {"inject_summary", "inject_and_run", "sub_agent"}

ASSUME TriggerAssumption ==
    /\ HookOf \in [Triggers -> Hooks] /\ TraceOf \in [Triggers -> Traces]
    /\ Deliveries \subseteq DeliveryKinds /\ Failures \subseteq Throwing
    /\ Phases \subseteq {"turn", "compaction"}
    /\ TurnEndHook \in BOOLEAN
    /\ MaxRuns \in Nat /\ MaxAborts \in Nat
    /\ NoTrigger \notin Triggers /\ TurnEnd \notin Triggers /\ TurnEnd # NoTrigger

Runs == 1..MaxRuns

VARIABLES
    queue,      \* AsyncQueue of each hook
    closed,     \* hooks whose queue is closed
    pump,       \* each hook's pump: "waiting", "handling", "exited"
    stage,      \* where each trigger is
    answer,     \* what the permission hooks said
    action,     \* [delivery, promote] chosen for the trigger
    result,     \* how the sub-agent's run settled, or its select ended
    jobs,       \* each racing select's microtasks, in order
    recorded,   \* the outcomes a racing select has recorded
    running,    \* runningTriggers: trace_id -> trigger
    cancelled,  \* triggers whose AbortController is aborted
    hookSlot,   \* activeHookAbortController: whose hook it cancels
    promptAborted, \* prompts whose signal is aborted
    phase,      \* the parent: "idle", "turn", "compaction"
    parent,     \* what each run of the parent is doing
    followUp,   \* followUpQueue, the messages triggers put there
    runs, aborts,
    session,    \* messages of triggers in the parent's session, in order
    ended,      \* history: terminal events of each trigger
    issued,     \* history: the messages triggers have put into the parent
    dropped,    \* history: messages an abort cleared or a failed append lost
    owed,       \* history: prompts that were open when abort was called
    crossed,    \* history: open prompts whose slot another hook wrote
    doomed,     \* history: triggers cancelled before their run's outcome was recorded
    escaped     \* history: triggers whose action left through detach's handler

pumpVars == <<queue, closed, pump>>
slotVars == <<hookSlot, promptAborted, owed, crossed>>
gateVars == <<answer, slotVars>>
loopVars == <<phase, parent, runs, aborts>>
messageVars == <<followUp, session, issued, dropped>>
parentVars == <<loopVars, messageVars>>
selectVars == <<jobs, recorded>>
runVars == <<action, result, running, cancelled, doomed, ended, escaped, selectVars>>
vars == <<pumpVars, gateVars, parentVars, runVars, stage>>

HandlingStages == {"asking", "building", "prompting", "auditing"}
InjectStages == {"announcing", "appending"}
PromoteStages == {"promoting", "announcing_promotion", "appending_promotion"}
SelectStages == {"preparing", "racing"}
Stages == {"unsent", "queued", "refused", "failed", "resolving", "reporting", "done"}
            \cup HandlingStages \cup InjectStages \cup PromoteStages \cup SelectStages

\* A message a trigger puts into the parent: its injection or its promotion.
Message(t, why) == [trigger |-> t, why |-> why]
Messages == [trigger : Triggers, why : {"inject", "promote"}]

TypeOK ==
    /\ queue \in [Hooks -> Seq(Triggers)]
    /\ closed \subseteq Hooks
    /\ pump \in [Hooks -> {"waiting", "handling", "exited"}]
    /\ stage \in [Triggers -> Stages]
    /\ answer \in [Triggers -> {"none", "suppressed", "allow", "deny", "prompt", "approved", "rejected"}]
    /\ action \in [Triggers -> [delivery : DeliveryKinds, promote : BOOLEAN]]
    /\ result \in [Triggers -> {"none", "ok", "failed", "aborted"}]
    /\ jobs \in [Triggers -> Seq({"cancel", "run", "check"})]
    /\ recorded \in [Triggers -> SUBSET {"cancel", "run"}]
    /\ running \in [Traces -> Triggers \cup {NoTrigger}]
    /\ cancelled \subseteq Triggers
    /\ hookSlot \in Triggers \cup {NoTrigger, TurnEnd}
    /\ promptAborted \subseteq Triggers
    /\ phase \in {"idle", "turn", "compaction"}
    /\ parent \in [Runs -> {"none", "looping", "ending", "compacting", "building", "open"}]
    /\ followUp \in Seq(Messages)
    /\ runs \in 0..MaxRuns /\ aborts \in 0..MaxAborts
    /\ session \in Seq(Messages)
    /\ ended \in [Triggers -> Seq({"completed", "failed"})]
    /\ issued \subseteq Messages
    /\ dropped \subseteq Messages
    /\ owed \subseteq Triggers
    /\ crossed \subseteq Triggers
    /\ doomed \subseteq Triggers
    /\ escaped \subseteq Triggers

Init ==
    /\ queue = [h \in Hooks |-> <<>>]
    /\ closed = {}
    /\ pump = [h \in Hooks |-> "waiting"]
    /\ stage = [t \in Triggers |-> "unsent"]
    /\ answer = [t \in Triggers |-> "none"]
    /\ action = [t \in Triggers |-> [delivery |-> "sub_agent", promote |-> FALSE]]
    /\ result = [t \in Triggers |-> "none"]
    /\ jobs = [t \in Triggers |-> <<>>]
    /\ recorded = [t \in Triggers |-> {}]
    /\ running = [c \in Traces |-> NoTrigger]
    /\ cancelled = {}
    /\ hookSlot = NoTrigger
    /\ promptAborted = {}
    /\ phase = "idle"
    /\ parent = [r \in Runs |-> "none"]
    /\ followUp = <<>>
    /\ runs = 0 /\ aborts = 0
    /\ session = <<>>
    /\ ended = [t \in Triggers |-> <<>>]
    /\ issued = {}
    /\ dropped = {}
    /\ owed = {}
    /\ crossed = {}
    /\ doomed = {}
    /\ escaped = {}

Go(t, from, to) == stage[t] = from /\ stage' = [stage EXCEPT ![t] = to]
MayThrow(what) == what \in Failures

-----------------------------------------------------------------------------
(* Hook and pump                                                           *)

(* The hook's transport pushes a trigger into its sink. *)
Notify(t) ==
    /\ HookOf[t] \notin closed
    /\ Go(t, "unsent", "queued")
    /\ queue' = [queue EXCEPT ![HookOf[t]] = Append(@, t)]
    /\ UNCHANGED <<closed, pump, gateVars, parentVars, runVars>>

CloseHook(h) ==
    /\ h \notin closed
    /\ closed' = closed \cup {h}
    /\ UNCHANGED <<queue, pump, stage, gateVars, parentVars, runVars>>

PumpExits(h) ==
    /\ pump[h] = "waiting"
    /\ queue[h] = <<>>
    /\ h \in closed
    /\ pump' = [pump EXCEPT ![h] = "exited"]
    /\ UNCHANGED <<queue, closed, stage, gateVars, parentVars, runVars>>

(* handleTrigger up to its first await: the evaluator accepts the trigger and *)
(* the permission hook is asked, or it suppresses it and that is audited.     *)
TakeTrigger(h) ==
    /\ pump[h] = "waiting"
    /\ queue[h] # <<>>
    /\ queue' = [queue EXCEPT ![h] = Tail(@)]
    /\ pump' = [pump EXCEPT ![h] = "handling"]
    /\ \/ Go(Head(queue[h]), "queued", "asking") /\ UNCHANGED answer
       \/ /\ Go(Head(queue[h]), "queued", "auditing")
          /\ answer' = [answer EXCEPT ![Head(queue[h])] = "suppressed"]
    /\ UNCHANGED <<closed, slotVars, parentVars, runVars>>

(* A throw out of handleTrigger ends the pump's loop. *)
PumpFails(t) == pump' = [pump EXCEPT ![HookOf[t]] = "exited"] /\ UNCHANGED <<queue, closed>>

(* runBeforeTriggerHook *)
BeforeTriggerReturns(t, a) ==
    /\ Go(t, "asking", IF a = "prompt" THEN "building" ELSE "auditing")
    /\ answer' = [answer EXCEPT ![t] = a]
    /\ UNCHANGED <<pumpVars, slotVars, parentVars, runVars>>

BeforeTriggerThrows(t) ==
    /\ MayThrow("before_trigger")
    /\ Go(t, "asking", "failed")
    /\ PumpFails(t)
    /\ UNCHANGED <<gateVars, parentVars, runVars>>

\* mutant: the controller is not published
PrivatePromptBuilt(t) ==
    /\ Go(t, "building", "prompting")
    /\ UNCHANGED <<pumpVars, gateVars, parentVars, runVars>>

(* Whoever writes the one slot takes it from the other prompts that are open. *)
Crossing(user) == (crossed \cup {t \in Triggers : stage[t] = "prompting"}) \ {user}

(* resolveTriggerPrompt: the request is built, then the hook is called with a *)
(* controller published for abort.                                            *)
PromptBuilt(t) ==
    /\ Go(t, "building", "prompting")
    /\ hookSlot' = t
    /\ crossed' = Crossing(t)
    /\ UNCHANGED <<pumpVars, answer, promptAborted, owed, parentVars, runVars>>

(* However the hook settles, the slot is cleared, whoever's it is by now; the *)
(* prompt's own controller is gone.                                           *)
PromptOver(t) ==
    /\ hookSlot' = NoTrigger
    /\ crossed' = Crossing(t)
    /\ owed' = owed \ {t}
    /\ promptAborted' = promptAborted \ {t}

PromptReturns(t, a) ==
    /\ Go(t, "prompting", "auditing")
    /\ PromptOver(t)
    /\ answer' = [answer EXCEPT ![t] = a]
    /\ UNCHANGED <<pumpVars, parentVars, runVars>>

PromptThrows(t) ==
    /\ MayThrow("prompt")
    /\ Go(t, "prompting", "failed")
    /\ PromptOver(t)
    /\ PumpFails(t)
    /\ UNCHANGED <<answer, parentVars, runVars>>

(* The record is appended (best effort); an accepted trigger is dispatched    *)
(* without waiting for it, and the pump takes the next one.                   *)
Accepted(t) == answer[t] \in {"allow", "approved"}

Handled(t) ==
    /\ Go(t, "auditing", IF Accepted(t) THEN "resolving" ELSE "refused")
    /\ answer' = [answer EXCEPT ![t] = "none"]
    /\ pump' = [pump EXCEPT ![HookOf[t]] = "waiting"]
    /\ UNCHANGED <<queue, closed, slotVars, parentVars, runVars>>

-----------------------------------------------------------------------------
(* The action of an accepted trigger, detached                             *)

Terminal(t, e) == ended' = [ended EXCEPT ![t] = Append(@, e)]

\* mutant: a detached failure is swallowed
SilentEscapes(t) ==
    /\ stage' = [stage EXCEPT ![t] = "done"]
    /\ UNCHANGED <<pumpVars, gateVars, parentVars, runVars>>

(* Whatever escapes runTriggerAction reaches the error handler of detach,     *)
(* which reports trigger_failed. Nothing else is undone.                      *)
Escapes(t) ==
    /\ stage' = [stage EXCEPT ![t] = "done"]
    /\ Terminal(t, "failed")
    /\ escaped' = escaped \cup {t}
    /\ UNCHANGED <<pumpVars, gateVars, parentVars, action, result, running, cancelled, doomed,
                   selectVars>>

ActionHookThrows(t) == stage[t] = "resolving" /\ MayThrow("action") /\ Escapes(t)
PrepareThrows(t) == stage[t] = "preparing" /\ MayThrow("prepare") /\ Escapes(t)
ListenerThrows(t) ==
    /\ stage[t] \in {"announcing", "announcing_promotion"}
    /\ MayThrow("listener")
    /\ Escapes(t)

(* Into the parent: queued behind its run if it is busy, else appended. *)
Inject(t, why, queued, appended) ==
    /\ issued' = issued \cup {Message(t, why)}
    /\ \/ /\ phase # "idle"
          /\ followUp' = Append(followUp, Message(t, why))
          /\ stage' = [stage EXCEPT ![t] = queued]
       \/ /\ phase = "idle"
          /\ stage' = [stage EXCEPT ![t] = appended]
          /\ UNCHANGED followUp

(* runTriggerAction: the hook chooses the action, the delivery begins. *)
ResolveAction(t, a) ==
    /\ stage[t] = "resolving"
    /\ action' = [action EXCEPT ![t] = a]
    /\ \/ /\ a.delivery = "inject_summary"
          /\ stage' = [stage EXCEPT ![t] = "reporting"]
          /\ result' = [result EXCEPT ![t] = "ok"]
          /\ UNCHANGED <<followUp, issued, running>>
       \/ /\ a.delivery = "inject_and_run"
          /\ Inject(t, "inject", "announcing", "appending")
          /\ UNCHANGED <<running, result>>
       \/ /\ a.delivery = "sub_agent"
          /\ stage' = [stage EXCEPT ![t] = "preparing"]
          /\ running' = [running EXCEPT ![TraceOf[t]] = t]
          /\ UNCHANGED <<followUp, issued, result>>
    /\ UNCHANGED <<pumpVars, gateVars, loopVars, session, dropped, cancelled, doomed, ended,
                   escaped, selectVars>>

(* createTurnState returns and the select starts both cases: the cancel case *)
(* rejects at once if the cancellation came before.                          *)
Prepared(t) ==
    /\ Go(t, "preparing", "racing")
    /\ jobs' = [jobs EXCEPT ![t] = IF t \in cancelled THEN <<"cancel">> ELSE <<>>]
    /\ UNCHANGED <<pumpVars, gateVars, parentVars, action, result, running, cancelled, doomed,
                   ended, escaped, recorded>>

(* The sub-agent's run settles; its outcome is recorded by a microtask. *)
SubAgentSettles(t, r) ==
    /\ stage[t] = "racing" /\ result[t] = "none"
    /\ result' = [result EXCEPT ![t] = r]
    /\ jobs' = [jobs EXCEPT ![t] = Append(@, "run")]
    /\ UNCHANGED <<pumpVars, gateVars, parentVars, stage, action, running, cancelled, doomed,
                   ended, escaped, recorded>>

\* mutant: a plain race, no tick of grace between an outcome and the check
HastyRecord(t) ==
    /\ stage[t] = "racing" /\ jobs[t] # <<>> /\ Head(jobs[t]) # "check"
    /\ recorded' = [recorded EXCEPT ![t] = @ \cup {Head(jobs[t])}]
    /\ jobs' = [jobs EXCEPT ![t] = <<"check">> \o Tail(@)]
    /\ UNCHANGED <<pumpVars, gateVars, parentVars, stage, action, result, running, cancelled,
                   doomed, ended, escaped>>

(* selectBiased records an outcome, and queues a check unless one is queued. *)
Record(t) ==
    /\ stage[t] = "racing" /\ jobs[t] # <<>> /\ Head(jobs[t]) # "check"
    /\ recorded' = [recorded EXCEPT ![t] = @ \cup {Head(jobs[t])}]
    /\ jobs' = [jobs EXCEPT ![t] = IF "check" \in Range(@) THEN Tail(@)
                                    ELSE Append(Tail(@), "check")]
    /\ UNCHANGED <<pumpVars, gateVars, parentVars, stage, action, result, running, cancelled,
                   doomed, ended, escaped>>

(* The check commits to the first case, of those recorded by then: to the     *)
(* cancellation if it is among them. What settles later is ignored.           *)
SelectCommits(t) ==
    /\ Go(t, "racing", "reporting")
    /\ jobs[t] # <<>> /\ Head(jobs[t]) = "check"
    /\ result' = [result EXCEPT ![t] = IF "cancel" \in recorded[t] THEN "aborted" ELSE @]
    /\ jobs' = [jobs EXCEPT ![t] = <<>>]
    /\ recorded' = [recorded EXCEPT ![t] = {}]
    /\ UNCHANGED <<pumpVars, gateVars, parentVars, action, running, cancelled, doomed, ended,
                   escaped>>

(* The end of runSubAgentDelivery: the registry entry goes, last. *)
Finish(t) == running' = IF action[t].delivery = "sub_agent"
                        THEN [running EXCEPT ![TraceOf[t]] = NoTrigger] ELSE running

\* mutant: the registry entry goes with the terminal event, before promotion
EarlyReport(t) ==
    /\ stage[t] = "reporting"
    /\ Terminal(t, IF result[t] = "ok" THEN "completed" ELSE "failed")
    /\ stage' = [stage EXCEPT ![t] = IF action[t].promote THEN "promoting" ELSE "done"]
    /\ Finish(t)
    /\ UNCHANGED <<pumpVars, gateVars, parentVars, action, result, cancelled, doomed, escaped,
                   selectVars>>

(* The result is audited (best effort), the terminal event emitted, and the   *)
(* promotion begun if there is one. An injection was made before.             *)
Report(t) ==
    /\ stage[t] = "reporting"
    /\ Terminal(t, IF result[t] = "ok" THEN "completed" ELSE "failed")
    /\ IF action[t].promote
       THEN stage' = [stage EXCEPT ![t] = "promoting"] /\ UNCHANGED running
       ELSE stage' = [stage EXCEPT ![t] = "done"] /\ Finish(t)
    /\ UNCHANGED <<pumpVars, gateVars, parentVars, action, result, cancelled, doomed, escaped,
                   selectVars>>

(* applyPromotion, where it comes to putting the message into the parent. *)
Promote(t) ==
    /\ stage[t] = "promoting"
    /\ Inject(t, "promote", "announcing_promotion", "appending_promotion")
    /\ UNCHANGED <<pumpVars, gateVars, loopVars, session, dropped, runVars>>

(* The queue_update listeners return, or the append does: the message is in   *)
(* the session, or the append has failed and it is gone. An injection is      *)
(* reported complete either way; a promotion is over.                         *)
AppendOrLose(t, why) ==
    \/ session' = Append(session, Message(t, why)) /\ UNCHANGED dropped
    \/ /\ MayThrow("append")
       /\ dropped' = dropped \cup {Message(t, why)}
       /\ UNCHANGED session

Injected(t) ==
    /\ stage[t] \in InjectStages
    /\ stage' = [stage EXCEPT ![t] = "done"]
    /\ Terminal(t, "completed")
    /\ IF stage[t] = "appending" THEN AppendOrLose(t, "inject")
       ELSE UNCHANGED <<session, dropped>>
    /\ UNCHANGED <<pumpVars, gateVars, loopVars, followUp, issued, action, result, running,
                   cancelled, doomed, escaped, selectVars>>

\* mutant: a queued promotion is appended to the session too
DoublingPromoted(t) ==
    /\ stage[t] \in {"announcing_promotion", "appending_promotion"}
    /\ stage' = [stage EXCEPT ![t] = "done"]
    /\ Finish(t)
    /\ session' = Append(session, Message(t, "promote"))
    /\ UNCHANGED <<pumpVars, gateVars, loopVars, followUp, issued, dropped, action, result,
                   cancelled, doomed, ended, escaped, selectVars>>

Promoted(t) ==
    /\ stage[t] \in {"announcing_promotion", "appending_promotion"}
    /\ stage' = [stage EXCEPT ![t] = "done"]
    /\ Finish(t)
    /\ IF stage[t] = "appending_promotion" THEN AppendOrLose(t, "promote")
       ELSE UNCHANGED <<session, dropped>>
    /\ UNCHANGED <<pumpVars, gateVars, loopVars, followUp, issued, action, result, cancelled,
                   doomed, ended, escaped, selectVars>>

-----------------------------------------------------------------------------
(* Aborts                                                                  *)

(* The controllers of some running triggers are aborted; the cancel case of a *)
(* racing select rejects, once.                                               *)
Cancel(S) ==
    /\ S # {}
    /\ aborts < MaxAborts
    /\ aborts' = aborts + 1
    /\ cancelled' = cancelled \cup S
    /\ jobs' = [t \in Triggers |-> IF t \in S \ cancelled /\ stage[t] = "racing"
                                    THEN Append(jobs[t], "cancel") ELSE jobs[t]]
    /\ doomed' = doomed \cup {t \in S : stage[t] \in SelectStages /\ "run" \notin recorded[t]}
    /\ UNCHANGED <<pumpVars, gateVars, stage, phase, parent, runs, messageVars,
                   action, result, running, ended, escaped, recorded>>

Registered == {running[c] : c \in Traces} \ {NoTrigger}

AbortTrigger(c) == Cancel({running[c]} \ {NoTrigger})
AbortAllTriggers == Cancel(Registered)

(* abort: the queued messages go, the published hook controller is aborted. *)
Abort ==
    /\ aborts < MaxAborts
    /\ aborts' = aborts + 1
    /\ followUp' = <<>>
    /\ dropped' = dropped \cup Range(followUp)
    /\ promptAborted' = promptAborted \cup ({hookSlot} \cap Triggers)
    /\ owed' = owed \cup {t \in Triggers : stage[t] = "prompting"}
    /\ UNCHANGED <<pumpVars, answer, hookSlot, crossed, stage, phase, parent, runs, session,
                   issued, runVars>>

-----------------------------------------------------------------------------
(* The parent conversation, as far as triggers see it                      *)

Begin(p) ==
    /\ p \in Phases
    /\ phase = "idle"
    /\ runs < MaxRuns
    /\ runs' = runs + 1
    /\ phase' = p
    /\ parent' = [parent EXCEPT ![runs + 1] = IF p = "turn" THEN "looping" ELSE "compacting"]
    /\ UNCHANGED <<pumpVars, gateVars, stage, aborts, messageVars, runVars>>

(* The loop of a run polls the follow-up queue at every boundary; when it     *)
(* finds it empty the run goes on to its end.                                 *)
Poll(r) ==
    /\ parent[r] = "looping"
    /\ parent' = [parent EXCEPT ![r] = IF followUp = <<>> THEN "ending" ELSE @]
    /\ session' = session \o followUp
    /\ followUp' = <<>>
    /\ UNCHANGED <<pumpVars, gateVars, stage, phase, runs, aborts, issued, dropped, runVars>>

(* A run or a compaction ends, a failed or aborted run wherever it was. The   *)
(* parent is idle from here on, though a turn may still ask its turn-end hook. *)
Settle(r) ==
    /\ parent[r] \in {"looping", "ending", "compacting"}
    /\ phase' = "idle"
    /\ \/ parent' = [parent EXCEPT ![r] = "none"]
       \/ /\ TurnEndHook /\ parent[r] # "compacting"
          /\ parent' = [parent EXCEPT ![r] = "building"]
    /\ UNCHANGED <<pumpVars, gateVars, stage, runs, aborts, messageVars, runVars>>

(* runTurnWithContinuation: the hook is called with a controller published in *)
(* the slot that the trigger prompts use.                                     *)
TurnEndBuilt(r) ==
    /\ parent[r] = "building"
    /\ parent' = [parent EXCEPT ![r] = "open"]
    /\ hookSlot' = TurnEnd
    /\ crossed' = Crossing(TurnEnd)
    /\ UNCHANGED <<pumpVars, answer, promptAborted, owed, stage, phase, runs, aborts,
                   messageVars, runVars>>

(* The hook returns and the slot is cleared: the run is over, or goes on with *)
(* another turn, the phase being what it is.                                  *)
TurnEndReturns(r) ==
    /\ parent[r] = "open"
    /\ hookSlot' = NoTrigger
    /\ crossed' = Crossing(TurnEnd)
    /\ \/ parent' = [parent EXCEPT ![r] = "none"] /\ UNCHANGED runs
       \/ /\ runs < MaxRuns
          /\ runs' = runs + 1
          /\ parent' = [parent EXCEPT ![r] = "none", ![runs + 1] = "looping"]
    /\ UNCHANGED <<pumpVars, answer, promptAborted, owed, stage, phase, aborts, messageVars,
                   runVars>>

(* What fails before or in the hook leaves prompt, which sets the phase idle. *)
TurnEndThrows(r) ==
    /\ MayThrow("turn_end")
    /\ parent[r] \in {"building", "open"}
    /\ parent' = [parent EXCEPT ![r] = "none"]
    /\ phase' = "idle"
    /\ IF parent[r] = "open" THEN hookSlot' = NoTrigger /\ crossed' = Crossing(TurnEnd)
       ELSE UNCHANGED <<hookSlot, crossed>>
    /\ UNCHANGED <<pumpVars, answer, promptAborted, owed, stage, runs, aborts, messageVars,
                   runVars>>

-----------------------------------------------------------------------------
Step(t) ==
    \/ PromptBuilt(t) \/ Handled(t) \/ Prepared(t) \/ Record(t) \/ SelectCommits(t)
    \/ Report(t) \/ Promote(t) \/ Injected(t) \/ Promoted(t)

Next ==
    \/ \E t \in Triggers :
        \/ Notify(t) \/ BeforeTriggerThrows(t) \/ PromptThrows(t)
        \/ \E a \in {"allow", "deny", "prompt"} : BeforeTriggerReturns(t, a)
        \/ \E a \in {"approved", "rejected"} : PromptReturns(t, a)
        \/ \E d \in Deliveries, b \in BOOLEAN :
              /\ d = "inject_and_run" => ~b
              /\ ResolveAction(t, [delivery |-> d, promote |-> b])
        \/ \E r \in {"ok", "failed"} : SubAgentSettles(t, r)
        \/ ActionHookThrows(t) \/ PrepareThrows(t) \/ ListenerThrows(t)
        \/ PromptBuilt(t) \/ Handled(t) \/ Prepared(t) \/ Record(t) \/ SelectCommits(t)
        \/ Report(t) \/ Promote(t) \/ Injected(t) \/ Promoted(t)
    \/ \E h \in Hooks : CloseHook(h) \/ PumpExits(h) \/ TakeTrigger(h)
    \/ \E c \in Traces : AbortTrigger(c)
    \/ AbortAllTriggers \/ Abort
    \/ \E p \in Phases : Begin(p)
    \/ \E r \in Runs :
        Poll(r) \/ Settle(r) \/ TurnEndBuilt(r) \/ TurnEndReturns(r) \/ TurnEndThrows(r)

Spec == Init /\ [][Next]_vars

(* The harness's own steps are taken: file appends and listeners return. The  *)
(* embedder's hooks and the sub-agent's model need not.                       *)
FairSpec == Spec /\ \A t \in Triggers : WF_vars(Step(t))

-----------------------------------------------------------------------------
(* Properties                                                              *)

SubAgent(t) == action[t].delivery = "sub_agent"
Live(t) == stage[t] \in SelectStages \/ (SubAgent(t) /\ stage[t] \in {"reporting"} \cup PromoteStages)

(* runningTriggers holds every live sub-agent, so that abortTrigger reaches   *)
(* it and the status shows it, and nothing else. A failure that leaves        *)
(* through the handler of detach skips the removal, so the entry of such a    *)
(* trigger may stay.                                                          *)
RegistryExact ==
    /\ \A t \in Triggers : Live(t) => running[TraceOf[t]] = t
    /\ \A c \in Traces : running[c] # NoTrigger => Live(running[c]) \/ running[c] \in escaped

(* A trigger's action has one terminal event, completed or failed, by the     *)
(* time it is over. Only a promotion that fails after the result was reported *)
(* adds a second one, and that is a failure.                                  *)
OneTerminalEvent ==
    \A t \in Triggers :
        /\ stage[t] = "done" => ended[t] # <<>>
        /\ t \notin escaped => Len(ended[t]) <= 1
        /\ t \in escaped => Len(ended[t]) <= 2 /\ Last(ended[t]) = "failed"

(* A sub-agent cancelled before the outcome of its run was recorded is never  *)
(* reported complete: whether the call came while its state was prepared,     *)
(* while it ran, or when it had settled and the record was still a microtask  *)
(* away, which is what the tick between a record and its check is for.        *)
CancelWins == \A t \in doomed : "completed" \notin Range(ended[t])

(* A cancellation that comes before the select has committed always wins. Not *)
(* kept by the code, whose check has no place for a cancellation that comes   *)
(* after the run's outcome was recorded: see README.md.                       *)
CancelHeeded ==
    [][\A t \in Triggers : stage[t] = "racing" /\ stage'[t] = "reporting" /\ t \in cancelled
          => result'[t] = "aborted"]_vars

(* A message that its trigger is just about to append. *)
InHand == {m \in Messages : stage[m.trigger] = IF m.why = "inject" THEN "appending"
                                                               ELSE "appending_promotion"}

(* A message that a trigger put into the parent, an injection or a promotion, *)
(* is always in one place and there once: about to be appended, waiting in    *)
(* the follow-up queue, in the session, or gone, cleared by an abort or lost  *)
(* by a failed append. None enters the session a second time.                 *)
InjectedOnce ==
    /\ IsInjective(session \o followUp)
    /\ InHand \cap dropped = {}
    /\ Range(session \o followUp) \cap (InHand \cup dropped) = {}
    /\ Range(session \o followUp) \cup InHand \cup dropped = issued

(* A trigger's message waits only for a run whose loop will take it. Not kept *)
(* by the code: see README.md.                                                *)
InjectionServed == followUp # <<>> => \E r \in Runs : parent[r] = "looping"

(* The pump of a hook stops only when the hook's queue is closed and empty.   *)
(* Not kept by the code: see README.md.                                       *)
PumpStopsAtClose ==
    \A h \in Hooks : pump[h] = "exited" => h \in closed /\ queue[h] = <<>>

(* abort reaches every prompt that is open when it is called, unless another  *)
(* hook, of a prompt or of a turn's end, used the one slot meanwhile; and it  *)
(* never reaches a prompt that has been answered or has failed, whatever used *)
(* the slot.                                                                  *)
PromptsAborted ==
    /\ owed \ crossed \subseteq promptAborted
    /\ hookSlot \in Triggers => stage[hookSlot] = "prompting"

(* abort reaches every prompt that is open when it is called. Not kept by the *)
(* code, which has one slot for all its hooks: see README.md.                 *)
EveryPromptAborted == owed \subseteq promptAborted
=============================================================================
