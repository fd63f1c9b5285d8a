----------------------------- MODULE UiEventLoop -----------------------------
(* The event loop of the browser UI (runWeb), the AsyncQueues it reads from   *)
(* and the selectBiased it reads them with. Each iteration builds a list of   *)
(* select cases, one per queue plus the turn in flight, SIGINT and the        *)
(* server, races them, and handles the winner. Producers (HTTP handlers, the  *)
(* relay socket, the feed listener, the approval hook of a running turn) push *)
(* into the queues at any time. The terminal UI's eventLoop has the same      *)
(* shape over the same queues.                                                *)
EXTENDS Naturals, Sequences, FiniteSets, SequencesExt

CONSTANTS
    Inputs,     \* what producers send: records [queue, kind]
    MaxEvents,  \* bound: values sent, queues closed and stops, together
    MaxAsks,    \* bound on the approvals turns ask for
    Closable,   \* queues whose producer may close them
    MayStop     \* whether SIGINT and a failing server are explored

(* The declaration order of the select cases. *)
Order == <<"turn", "command", "feed", "main_run", "relay_prompt", "relay_abort",
           "relay_resolve", "relay_model", "control_plane", "ctrl_c", "server">>

Branches == Range(Order)
Queues == Branches \ {"turn", "ctrl_c", "server"}
Kinds == {"submit", "abort", "resolve", "import", "update", "other"}

ASSUME InputsAssumption ==
    /\ Inputs \subseteq [queue : Queues \ {"control_plane"}, kind : Kinds]
    /\ Closable \subseteq Queues
    /\ MaxEvents \in Nat /\ MaxAsks \in Nat /\ MayStop \in BOOLEAN

None == 0        \* no prompt on the card, no prompt asked for
End == 0         \* what a closed and drained queue yields (undefined)
ImportCard == MaxEvents + MaxAsks + 1

VARIABLES
    buffer,      \* AsyncQueue.buffer
    waiting,     \* AsyncQueue.waiters.length
    isClosed,    \* AsyncQueue.closed
    pc,          \* "select", "racing", "handling", "finishing", "left"
    jobs,        \* the microtasks of the running select, oldest first
    outcomes,    \* the settlements selectBiased has recorded
    checkScheduled,
    event,       \* what the select resolved with
    closed,      \* branches retired by a closed queue
    fut,         \* turn.fut: "none", "running", "asking", "settled"
    aborted,     \* turn.aborted
    queuedTurns, \* App.queuedTurns
    card,        \* App.controlPlanePrompt
    asking,      \* the approval the running turn waits for
    asks,        \* approvals asked for so far
    stopping,    \* SIGINT or the end of the server: subset of {"ctrl_c", "server"}
    sent,        \* history: every value pushed; its index is its identity
    handled,     \* history: what the loop handled, in order
    lost,        \* history: values a losing branch had taken
    started      \* history: the inputs whose turn started

queueVars == <<buffer, waiting, isClosed>>
selectVars == <<jobs, outcomes, checkScheduled, event>>
turnVars == <<fut, aborted, queuedTurns, asking, started>>
vars == <<queueVars, selectVars, turnVars, pc, closed, card, asks, stopping, sent, handled, lost>>

Ids == 1..(MaxEvents + MaxAsks)
Jobs == [at : {"wake", "record", "check"}, branch : Branches, value : Ids \cup {End}]

(* Types; the loop is the only consumer, so a queue has at most one waiter. *)
TypeOK ==
    /\ buffer \in [Queues -> Seq(Ids)]
    /\ waiting \in [Queues -> 0..1]
    /\ isClosed \in [Queues -> BOOLEAN]
    /\ pc \in {"select", "racing", "handling", "finishing", "left"}
    /\ jobs \in Seq(Jobs)
    /\ outcomes \subseteq [branch : Branches, value : Ids \cup {End}]
    /\ checkScheduled \in BOOLEAN
    /\ event \in [branch : Branches, value : Ids \cup {End}]
    /\ closed \subseteq Queues
    /\ fut \in {"none", "running", "asking", "settled"}
    /\ aborted \in BOOLEAN
    /\ queuedTurns \in Seq(Ids)
    /\ card \in Ids \cup {None, ImportCard}
    /\ asking \in Ids \cup {None}
    /\ asks \in 0..MaxAsks
    /\ stopping \subseteq {"ctrl_c", "server"}
    /\ sent \in Seq([queue : Queues, kind : Kinds])
    /\ handled \in Seq([branch : Branches, value : Ids \cup {End}])
    /\ lost \subseteq Ids
    /\ started \in Seq(Ids)

Init ==
    /\ buffer = [q \in Queues |-> <<>>]
    /\ waiting = [q \in Queues |-> 0]
    /\ isClosed = [q \in Queues |-> FALSE]
    /\ pc = "select"
    /\ jobs = <<>>
    /\ outcomes = {}
    /\ checkScheduled = FALSE
    /\ event = [branch |-> "turn", value |-> End]
    /\ closed = {}
    /\ fut = "none"
    /\ aborted = FALSE
    /\ queuedTurns = <<>>
    /\ card = None
    /\ asking = None
    /\ asks = 0
    /\ stopping = {}
    /\ sent = <<>>
    /\ handled = <<>>
    /\ lost = {}
    /\ started = <<>>

-------------------------------------------------------------------------------
(* Producers                                                                  *)

Wake(b, v) == [at |-> "wake", branch |-> b, value |-> v]

\* mutant: a value handed to a waiter is buffered as well
DoublingPush(q, v) ==
    /\ buffer' = [buffer EXCEPT ![q] = Append(@, v)]
    /\ waiting' = [waiting EXCEPT ![q] = IF @ > 0 THEN @ - 1 ELSE 0]
    /\ jobs' = IF waiting[q] > 0 THEN Append(jobs, Wake(q, v)) ELSE jobs
    /\ UNCHANGED isClosed

(* A value goes to the oldest waiter if there is one, else to the buffer. *)
Push(q, v) ==
    \/ /\ waiting[q] > 0
       /\ waiting' = [waiting EXCEPT ![q] = @ - 1]
       /\ jobs' = Append(jobs, Wake(q, v))
       /\ UNCHANGED <<buffer, isClosed>>
    \/ /\ waiting[q] = 0
       /\ buffer' = [buffer EXCEPT ![q] = Append(@, v)]
       /\ UNCHANGED <<waiting, isClosed, jobs>>

(* The feed listener runs inside the agent's own microtasks; HTTP requests,   *)
(* relay frames and signals are events of their own, which run only once the  *)
(* microtasks of the select are done.                                         *)
Interleaves(q) == q = "feed" \/ jobs = <<>>

(* The bound on what the environment does. *)
Room ==
    Len(sent) - asks + Cardinality({q \in Queues : isClosed[q]}) + Cardinality(stopping)
        < MaxEvents

Send(i) ==
    /\ pc # "left"
    /\ Room
    /\ ~isClosed[i.queue]
    /\ Interleaves(i.queue)
    /\ sent' = Append(sent, i)
    /\ Push(i.queue, Len(sent) + 1)
    /\ UNCHANGED <<turnVars, pc, outcomes, checkScheduled, event, closed, card, asks,
                   stopping, handled, lost>>

(* close: the waiters left over are woken with undefined. *)
Close(q) ==
    /\ pc # "left"
    /\ ~isClosed[q]
    /\ jobs = <<>>
    /\ Room
    /\ isClosed' = [isClosed EXCEPT ![q] = TRUE]
    /\ waiting' = [waiting EXCEPT ![q] = 0]
    /\ jobs' = jobs \o [n \in 1..waiting[q] |-> Wake(q, End)]
    /\ UNCHANGED <<turnVars, buffer, pc, outcomes, checkScheduled, event, closed, card, asks,
                   stopping, sent, handled, lost>>

(* SIGINT is listened to only while a select races; its branch settles one    *)
(* microtask earlier than the others.                                         *)
Interrupt ==
    /\ MayStop /\ Room
    /\ pc = "racing"
    /\ jobs = <<>>
    /\ "ctrl_c" \notin stopping
    /\ stopping' = stopping \cup {"ctrl_c"}
    /\ jobs' = Append(jobs, [at |-> "record", branch |-> "ctrl_c", value |-> End])
    /\ UNCHANGED <<queueVars, turnVars, pc, outcomes, checkScheduled, event, closed, card, asks,
                   sent, handled, lost>>

(* The server task settles; a racing select awaits it. *)
ServerEnds ==
    /\ MayStop /\ Room
    /\ pc # "left"
    /\ jobs = <<>>
    /\ "server" \notin stopping
    /\ stopping' = stopping \cup {"server"}
    /\ jobs' = IF pc = "racing" THEN Append(jobs, Wake("server", End)) ELSE jobs
    /\ UNCHANGED <<queueVars, turnVars, pc, outcomes, checkScheduled, event, closed, card, asks,
                   sent, handled, lost>>

-------------------------------------------------------------------------------
(* The turn in flight                                                         *)

(* interactiveHook: the turn pushes its prompt and waits for the decision. *)
Ask ==
    /\ fut = "running"
    /\ asks < MaxAsks
    /\ pc # "left"
    /\ asks' = asks + 1
    /\ sent' = Append(sent, [queue |-> "control_plane", kind |-> "other"])
    /\ Push("control_plane", Len(sent) + 1)
    /\ asking' = Len(sent) + 1
    /\ fut' = "asking"
    /\ UNCHANGED <<aborted, queuedTurns, started, pc, outcomes, checkScheduled, event, closed,
                   card, stopping, handled, lost>>

(* cancellationCase: aborting the turn denies the approval it waits for. *)
AskCancelled ==
    /\ fut = "asking"
    /\ aborted
    /\ fut' = "running"
    /\ asking' = None
    /\ UNCHANGED <<queueVars, selectVars, aborted, queuedTurns, started, pc, closed, card, asks,
                   stopping, sent, handled, lost>>

(* The turn's promise settles; the select that awaits it is woken. *)
TurnSettles ==
    /\ fut = "running"
    /\ pc # "left"
    /\ fut' = "settled"
    /\ jobs' = IF pc = "racing" THEN Append(jobs, Wake("turn", End)) ELSE jobs
    /\ UNCHANGED <<queueVars, aborted, queuedTurns, asking, started, pc, outcomes, checkScheduled,
                   event, closed, card, asks, stopping, sent, handled, lost>>

-------------------------------------------------------------------------------
(* The select                                                                 *)

\* mutant: the control_plane case is not guarded by the card
UnguardedCase(b) ==
    /\ b \notin closed
    /\ b = "turn" => fut # "none"
    /\ b = "main_run" => fut = "none"

\* mutant: a turn that settled before the select started is not polled
ForgetfulCase(b) ==
    /\ b \notin closed
    /\ b = "turn" => fut \in {"running", "asking"}
    /\ b = "main_run" => fut = "none"
    /\ b = "control_plane" => card = None

(* The guards of the cases: no turn case without a turn, no triggered turn    *)
(* beside one, one approval card at a time, no case for a retired queue.      *)
Case(b) ==
    /\ b \notin closed
    /\ b = "turn" => fut # "none"
    /\ b = "main_run" => fut = "none"
    /\ b = "control_plane" => card = None

Ready(b) ==
    CASE b = "turn" -> fut = "settled"
      [] b = "server" -> "server" \in stopping
      [] b = "ctrl_c" -> FALSE
      [] OTHER -> buffer[b] # <<>> \/ isClosed[b]

(* The cases that are ready, in the order of their declaration. *)
ReadyCases == {n \in DOMAIN Order : Case(Order[n]) /\ Ready(Order[n])}
Nth(k) == Order[CHOOSE n \in ReadyCases : Cardinality({m \in ReadyCases : m <= n}) = k]

(* What next() yields of a queue that is ready. *)
Taken(b) == IF b \in Queues /\ buffer[b] # <<>> THEN Head(buffer[b]) ELSE End

(* Every case runs at once: next() takes the head of a buffer that has one,   *)
(* yields undefined on a closed queue, and otherwise registers a waiter.      *)
Select ==
    /\ pc = "select"
    /\ jobs' = [k \in 1..Cardinality(ReadyCases) |-> Wake(Nth(k), Taken(Nth(k)))]
    /\ buffer' = [q \in Queues |->
                    IF Case(q) /\ buffer[q] # <<>> THEN Tail(buffer[q]) ELSE buffer[q]]
    /\ waiting' = [q \in Queues |-> IF Case(q) /\ ~Ready(q) THEN waiting[q] + 1 ELSE waiting[q]]
    /\ outcomes' = {}
    /\ checkScheduled' = FALSE
    /\ pc' = "racing"
    /\ UNCHANGED <<turnVars, isClosed, event, closed, card, asks, stopping, sent, handled, lost>>

(* A case's own continuation runs and settles the promise selectBiased holds. *)
Woken ==
    /\ pc = "racing"
    /\ jobs # <<>>
    /\ Head(jobs).at = "wake"
    /\ jobs' = Append(Tail(jobs), [Head(jobs) EXCEPT !.at = "record"])
    /\ UNCHANGED <<queueVars, turnVars, pc, outcomes, checkScheduled, event, closed, card, asks,
                   stopping, sent, handled, lost>>

(* The settlement is recorded and a commit check scheduled, if none is. *)
Record ==
    /\ pc = "racing"
    /\ jobs # <<>>
    /\ Head(jobs).at = "record"
    /\ outcomes' = outcomes \cup {[branch |-> Head(jobs).branch, value |-> Head(jobs).value]}
    /\ checkScheduled' = TRUE
    /\ jobs' = IF checkScheduled THEN Tail(jobs)
               ELSE Append(Tail(jobs), [at |-> "check", branch |-> "turn", value |-> End])
    /\ UNCHANGED <<queueVars, turnVars, pc, event, closed, card, asks, stopping, sent, handled, lost>>

(* The recorded outcome whose case is declared first. *)
Position(b) == CHOOSE n \in DOMAIN Order : Order[n] = b
Winner == CHOOSE o \in outcomes : \A x \in outcomes : Position(o.branch) <= Position(x.branch)

InFlight == {j.value : j \in {jobs[n] : n \in DOMAIN jobs}} \cup {o.value : o \in outcomes}

(* commitIfReady: the winner resolves the select, the losers' signals remove  *)
(* their waiters. Whatever a loser had already taken is dropped: the jobs     *)
(* still due find the select done and return.                                 *)
Commit ==
    /\ pc = "racing"
    /\ jobs # <<>>
    /\ Head(jobs).at = "check"
    /\ event' = Winner
    /\ lost' = lost \cup (InFlight \ {End, Winner.value})
    /\ waiting' = [q \in Queues |-> 0]
    /\ jobs' = <<>>
    /\ outcomes' = {}
    /\ pc' = "handling"
    /\ UNCHANGED <<buffer, isClosed, turnVars, checkScheduled, closed, card, asks,
                   stopping, sent, handled>>

-------------------------------------------------------------------------------
(* Handling the winner                                                        *)

Handling(b) ==
    /\ pc = "handling"
    /\ event.branch = b
    /\ handled' = Append(handled, event)

Kind == sent[event.value].kind

StartTurn(id) ==
    /\ fut' = "running"
    /\ aborted' = FALSE
    /\ started' = Append(started, id)
    /\ UNCHANGED <<queuedTurns, asking>>

\* mutant: a prompt overtakes the ones queued before it
OvertakingSubmit(id) ==
    \/ fut = "none" /\ StartTurn(id)
    \/ /\ fut # "none"
       /\ queuedTurns' = <<id>> \o queuedTurns
       /\ UNCHANGED <<fut, aborted, asking, started>>

(* A prompt starts a turn, or waits behind the one in flight. *)
Submit(id) ==
    \/ fut = "none" /\ StartTurn(id)
    \/ /\ fut # "none"
       /\ queuedTurns' = Append(queuedTurns, id)
       /\ UNCHANGED <<fut, aborted, asking, started>>

(* requestAbort: nothing to do without a turn in flight. *)
RequestAbort ==
    /\ aborted' = (fut # "none" \/ aborted)
    /\ UNCHANGED <<fut, queuedTurns, asking, started>>

(* resolveControlPlanePrompt: the card goes, and the turn that waits for this *)
(* prompt goes on; a prompt nobody waits for any more is resolved in vain.    *)
Resolve ==
    /\ card' = None
    /\ IF card # None /\ card = asking
       THEN fut' = "running" /\ asking' = None
       ELSE UNCHANGED <<fut, asking>>
    /\ UNCHANGED <<aborted, queuedTurns, started>>

(* promptImportActivation: refused while another approval is on the card. *)
PromptImportActivation ==
    /\ card' = IF card = None THEN ImportCard ELSE card
    /\ UNCHANGED turnVars

(* finishTurn, up to the await of refreshGoalState. *)
FinishTurn ==
    /\ Handling("turn")
    /\ fut' = "none"
    /\ aborted' = FALSE
    /\ pc' = "finishing"
    /\ UNCHANGED <<queueVars, selectVars, queuedTurns, asking, started, closed, card, asks,
                   stopping, sent, lost>>

(* The end of finishTurn: the oldest queued turn starts. *)
StartNextQueuedTurn ==
    /\ pc = "finishing"
    /\ pc' = "select"
    /\ \/ queuedTurns = <<>> /\ UNCHANGED turnVars
       \/ /\ queuedTurns # <<>>
          /\ queuedTurns' = Tail(queuedTurns)
          /\ fut' = "running"
          /\ aborted' = FALSE
          /\ started' = Append(started, Head(queuedTurns))
          /\ UNCHANGED asking
    /\ UNCHANGED <<queueVars, selectVars, closed, card, asks, stopping, sent, handled, lost>>

(* handleWebCommand: a prompt or rule to run, an abort, the answer to an      *)
(* approval, an import, or something that leaves this state alone.            *)
HandleCommand ==
    /\ Handling("command")
    /\ event.value # End
    /\ pc' = "select"
    /\ \/ Kind = "submit" /\ Submit(event.value) /\ UNCHANGED card
       \/ Kind = "abort" /\ RequestAbort /\ UNCHANGED card
       \/ Kind = "resolve" /\ Resolve
       \/ Kind = "import" /\ PromptImportActivation
       \/ Kind \in {"update", "other"} /\ UNCHANGED <<turnVars, card>>
    /\ UNCHANGED <<queueVars, selectVars, closed, asks, stopping, sent, lost>>

(* The relay's queues: prompts (slash commands are refused), answers to       *)
(* approvals, and models to switch to. Its aborts are below, with Retire.     *)
HandleRelay ==
    /\ pc' = "select"
    /\ event.value # End
    /\ \/ /\ Handling("relay_prompt")
          /\ IF Kind = "submit" THEN Submit(event.value) ELSE UNCHANGED turnVars
          /\ UNCHANGED card
       \/ Handling("relay_resolve") /\ Resolve
       \/ Handling("relay_model") /\ UNCHANGED <<turnVars, card>>
    /\ UNCHANGED <<queueVars, selectVars, closed, asks, stopping, sent, lost>>

(* startTriggeredTurn: the kernel has no other turn in flight here. *)
HandleMainRun ==
    /\ Handling("main_run")
    /\ event.value # End
    /\ pc' = "select"
    /\ StartTurn(event.value)
    /\ UNCHANGED <<queueVars, selectVars, closed, card, asks, stopping, sent, lost>>

(* A feed update is applied and the rest of the buffer drained with it. *)
HandleFeed ==
    /\ pc = "handling"
    /\ event.branch = "feed"
    /\ event.value # End
    /\ handled' = Append(handled, event)
                     \o [n \in DOMAIN buffer["feed"] |->
                          [branch |-> "feed", value |-> buffer["feed"][n]]]
    /\ buffer' = [buffer EXCEPT !["feed"] = <<>>]
    /\ pc' = "select"
    /\ UNCHANGED <<waiting, isClosed, selectVars, turnVars, closed, card, asks, stopping, sent, lost>>

(* showControlPlanePrompt. *)
ShowControlPlanePrompt ==
    /\ Handling("control_plane")
    /\ event.value # End
    /\ pc' = "select"
    /\ card' = event.value
    /\ UNCHANGED <<queueVars, selectVars, turnVars, closed, asks, stopping, sent, lost>>

\* mutant: a closed queue is not retired
KeepingRetire ==
    /\ \E q \in Queues : Handling(q)
    /\ event.value = End \/ event.branch = "relay_abort"
    /\ pc' = "select"
    /\ UNCHANGED <<queueVars, selectVars, turnVars, closed, card, asks, stopping, sent, lost>>

(* A closed queue yields undefined: its case is dropped for good. The relay   *)
(* pushes undefined for an abort, so the loop takes an abort for the end of   *)
(* that queue, and what it would do for an abort is never reached.            *)
Retire ==
    /\ \E q \in Queues : Handling(q) /\ closed' = closed \cup {q}
    /\ event.value = End \/ event.branch = "relay_abort"
    /\ pc' = "select"
    /\ UNCHANGED <<queueVars, selectVars, turnVars, card, asks, stopping, sent, lost>>

(* SIGINT aborts the turn and leaves; the end of the server leaves. *)
Leave ==
    /\ \/ Handling("ctrl_c") /\ RequestAbort
       \/ Handling("server") /\ UNCHANGED turnVars
    /\ pc' = "left"
    /\ isClosed' = [isClosed EXCEPT !["command"] = TRUE]
    /\ UNCHANGED <<buffer, waiting, selectVars, closed, card, asks, stopping, sent, lost>>

Handle == \/ FinishTurn \/ HandleCommand \/ HandleRelay \/ HandleMainRun \/ HandleFeed
          \/ ShowControlPlanePrompt \/ Retire \/ Leave

Loop == Select \/ Woken \/ Record \/ Commit \/ Handle \/ StartNextQueuedTurn

Next ==
    \/ \E i \in Inputs : Send(i)
    \/ \E q \in Closable : Close(q)
    \/ Interrupt \/ ServerEnds \/ Ask \/ AskCancelled \/ TurnSettles
    \/ Select \/ Woken \/ Record \/ Commit \/ StartNextQueuedTurn
    \/ FinishTurn \/ HandleCommand \/ HandleRelay \/ HandleMainRun \/ HandleFeed
    \/ ShowControlPlanePrompt \/ Retire \/ Leave

Spec == Init /\ [][Next]_vars

(* The loop never waits for anything but its select, so it keeps running; a   *)
(* turn ends, because the agent loop it runs ends and an abort reaches it.    *)
FairSpec == Spec /\ WF_vars(Loop) /\ WF_vars(TurnSettles) /\ WF_vars(AskCancelled)

-------------------------------------------------------------------------------
(* Properties                                                                 *)

Ranges(s) == {s[n] : n \in DOMAIN s}
HandledIds == {h.value : h \in Ranges(handled)} \ {End}
Current == IF pc = "handling" THEN {event.value} \ {End} ELSE {}
Buffered == UNION {Ranges(buffer[q]) : q \in Queues}
Places == <<Buffered, InFlight \ {End}, Current, HandledIds, lost>>

(* Every value pushed is in exactly one place: a buffer, a running select,    *)
(* the event being handled, the handled ones, or among those a losing branch  *)
(* took with it. Nothing is delivered twice.                                  *)
ValuesAccounted ==
    /\ UNION Ranges(Places) = DOMAIN sent
    /\ \A m, n \in DOMAIN Places : m # n => Places[m] \cap Places[n] = {}

(* AsyncQueue delivers in the order of the pushes: the loop handles the       *)
(* values of a queue in the order they were sent, no value twice, and learns  *)
(* of the end of a queue once, after everything else in it.                   *)
HandledInOrder ==
    \A m, n \in DOMAIN handled :
        m < n /\ handled[m].branch = handled[n].branch /\ handled[m].branch \in Queues
            => handled[m].value # End /\ (handled[n].value # End => handled[m].value < handled[n].value)

(* One turn at a time, in the order the loop took the prompts: those started  *)
(* followed by those queued are the prompts and triggered turns handled, and  *)
(* as many have started as the loop has finished, plus the one in flight. No  *)
(* prompt is stranded: the loop never waits without a turn while some are     *)
(* queued.                                                                    *)
IsTurn(h) == /\ h.value # End
             /\ \/ h.branch \in {"command", "relay_prompt"} /\ sent[h.value].kind = "submit"
                \/ h.branch = "main_run"
TurnsSerial ==
    LET prompts == started \o queuedTurns
        turns == {n \in DOMAIN handled : IsTurn(handled[n])}
        finished == {n \in DOMAIN handled : handled[n].branch = "turn"}
    IN  /\ Len(prompts) = Cardinality(turns)
        /\ \A n \in turns : prompts[Cardinality(turns \cap 1..n)] = handled[n].value
        /\ Len(started) = Cardinality(finished) + (IF fut = "none" THEN 0 ELSE 1)
        /\ pc \in {"select", "racing"} /\ fut = "none" => queuedTurns = <<>>

(* An approval on the card stays there until it is resolved: neither another  *)
(* turn's prompt nor an import takes its place.                               *)
CardKept == [][card # None => card' \in {card, None}]_vars

(* Every prompt queued behind a turn gets its turn, unless a turn waits for   *)
(* ever for an approval: interactiveHook has no timeout.                      *)
QueuedRuns ==
    []<>(fut # "asking") =>
        \A id \in Ids : (id \in Ranges(queuedTurns)) ~> (id \in Ranges(started) \/ pc = "left")

(* No value is lost: what a producer was told was accepted reaches the loop.  *)
(* Not kept by the code: run ui_lost.                                         *)
NothingLost == lost = {}

(* An abort that comes over the relay while a turn is in flight aborts it.    *)
(* Not kept by the code: see README.md.                                       *)
RelayAbortHeeded ==
    [][pc = "handling" /\ event.branch = "relay_abort" /\ event.value # End /\ fut # "none"
         /\ pc' # pc => aborted']_vars

(* A turn that waits for an approval has its prompt on the card, or on its    *)
(* way there, or has been told to abort. Not kept by the code: see README.md. *)
ApprovalReachable ==
    fut = "asking" =>
        \/ aborted
        \/ asking = card
        \/ asking \in Ranges(buffer["control_plane"]) \cup InFlight \cup Current
=============================================================================
