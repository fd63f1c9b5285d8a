# A TLA+ model of pie

`pie` is a coding agent in TypeScript: a provider-independent agent loop, a
*harness* around it (lifecycle, queues, session, triggers), a session log on
disk, and front ends that drive it. This directory holds a TLA+ model of the
parts that carry protocol state, the TLC configurations that check it, and
machine-checked proofs. Paths are relative to the repository.

JavaScript runs one callback at a time, so throughout **a step is the code
between two awaits**: what can go wrong is that state read before an `await` is
used after it, that two operations are suspended at the same time, that a
callback throws half way, or that the process dies.

## 1. Inventory

### The core, and how its parts interact

| Part | Source | State | Operations | What is hard, and what makes it correct |
|---|---|---|---|---|
| Trigger runtime | `packages/agent/src/harness/trigger-runtime.ts` | `dedup` (key → first stamp, policy, trace), `cycle` (trace → hops, last stamp), counters | `evaluate`, `recordFollowUpHop` | Stamps come from several sources out of order while one call prunes the entries of all keys. One acceptance per key and window, no false duplicate, exact hop limit. |
| Trigger execution | `agent-harness.ts` 1556–1606, 2374–3215, `async-queue.ts`, `select.ts` | a queue and a pump per hook, `runningTriggers`, `activeHookAbortController` (shared with the turn-end hook), `followUpQueue` | `handleTrigger`, trigger prompts, the three deliveries, promotion, `abortTrigger`, `abortAllTriggers`, `abort` | Detached actions beside the parent's runs; hooks that throw; a cancellation at any microtask. Serial handling, exact registry, one terminal event, every message in one place, a cancellation before the outcome is recorded wins. |
| Agent harness | `agent-harness.ts`, `agent-loop.ts` | `phase`, run promise, abort controller, three message queues, `pendingSessionWrites`, model, cost | `prompt`/`skill`/`promptFromTemplate`/`continue`, `compact`, `navigateTree`, `steer`/`followUp`/`nextTurn`, setters and `appendMessage`, `abort`, `resetCost` | Everything may be called at every await of a run. No message or write lost, doubled or reordered; a run can be seen and aborted; clean idle state after any failure; the budget is a hard gate. |
| Tool batch | `agent-loop.ts` 445–935, `packages/ai/src/providers/transform-messages.ts` | per call: where it is, what gate and prompt said; transcript | preparation, permission gate, sequential and parallel execution, results, the request built from the transcript | Completion order, abort, failing listeners. The gate is respected, events pair up, the next request has one result per call. |
| Session storage | `harness/session/jsonl-storage.ts`, `session.ts` | the file, `entries`, `currentLeafId` | `create`, `open` (salvage, repair), append, `moveTo` | Crashes and failed writes tear lines; appends overlap. The file loads, acknowledged entries stay, the active branch is what was built. |
| UI event loop | `packages/coding-agent/src/ui/web.ts`, `ui/index.ts`, `async-queue.ts`, `select.ts`, `control-plane-prompt.ts` | eight queues with waiters, the select's recorded outcomes, the turn in flight, queued turns, the approval card | HTTP and relay pushes, `selectBiased`, handlers, `finishTurn`, `startNextQueuedTurn`, approvals, leaving | Microtask order: every case of a select takes its value before the winner is known. One turn at a time in order, nothing twice, no stale waiter, one approval at a time. |

| Agent session | `packages/coding-agent/src/core/agent-session.ts`, `packages/agent/src/agent.ts` | the active run, the agent's two queues and the session's own copy of their texts, retry and overflow budgets, deferred shell results | `prompt`, `sendUserMessage`, `steer`, `abort`, `clearQueue`, `recordBashResult`, retry and compaction after a run | A prompt in progress is not streaming while it backs off or compacts, and another starts in the gap. Every message in one place, a prompt alone that finds a model and credentials never fails, shell results stay out of tool turns, every prompt ends. |
| MCP client | `packages/mcp/src/client.ts`, `stdio.ts`, `http.ts` | request table, ids, handshake, read pump; the child or the streams | `initialize`, `toolsList`, `toolsCall`, `close`, the pump and its drain | Answers late, repeated or missing; deadlines and aborts that race them; a pump that stops. The table is exact, nobody gets another's answer, nobody is forgotten, every request ends. |
| Cron jobs and supervisor | `packages/coding-agent/src/triggers/cron.ts`, `triggers/runtime.ts` | the registry with its markers, the sidecar file, loop notes, what is queued and running | add, remove, enable, disable, the scan, dispatch, the completion listener, load | Commands between a firing and its end, failed and torn writes, clock set back, crashes. A marker names the run going on, decisions survive, notes are never lost. |

Interactions: the harness calls the loop, the loop calls back into the harness
for queued messages, the budget gate and every event; the harness appends to
the session, and evaluates triggers with the trigger runtime; an accepted
trigger injects into the parent's follow-up queue or session; a front end owns
the turn in flight and feeds it prompts, aborts and approvals through
`AsyncQueue`s. The provider, tools, hooks and listeners are the environment:
they answer, fail or stay silent.

The command line's interactive session (`coding-agent/src/core/agent-session.ts`)
drives the loop through `Agent`, not through `AgentHarness`; the harness is the
library's own embedding API and what the trigger and budget features are built on.
In the command line a trigger (a cron job's, say) is delivered by the supervisor
into the session with `sendUserMessage`, beside the user's own prompts.

### The other components

All are listed in `PROJECT.json` with what they keep and why they are left out.
In short: dynamic triggers, the goal controller, the inbox, credential and settings
files under lock files, the file mutation queue, the LSP client and supervisor, the
relay client and its hub worker, and the compaction cut point have protocol
state or an algorithm worth modelling and are open in the plan. Permission matching,
cost arithmetic, templates, skills, rendering, key decoding, provider wire
formats, OAuth and package loading are text, I/O or configuration.

## 2. Plan

| # | Module | Composes / refines | Status |
|---|---|---|---|
| 1 | `TriggerRuntime`, `TriggerProofs` | – | done, proved |
| 2 | `SessionStorage`, `SessionStorageProofs` | implements `AppendOnlyLog` | checked and proved, refinement included |
| 3 | `AgentHarness`, `AgentHarnessProofs` | the turn loop of `agent-loop.ts` with the harness around it | checked and proved |
| 4 | `ToolBatch`, `ToolBatchProofs` | the step `AgentHarness` calls `RunTools` | checked and proved |
| 5 | `TriggerExecution`, `TriggerProofs` | the verdict of 1 is any; the parent run of 3 reduced to its phase and its polls | done, proved |
| 6 | `UiEventLoop`, `UiEventLoopProofs` | `AsyncQueue` + `selectBiased` + `runWeb` | checked and proved |
| 7 | `McpClient`, `McpClientProofs` | request table with deadlines, cancellation and a read pump, over both transports | done, proved |
| 8 | `CronJobs`, `CronJobsProofs` | registry and sidecar of cron.ts with the dispatch of the supervisor | done, proved |
| 9 | `AgentSession`, `AgentSessionProofs` | `AgentSession` over `Agent` and its loop: retry, recovery, compaction, queues | checked and proved |
| 10 | goal controller on top of 9; dynamic triggers on top of 8 | | open |
| 11 | lock files: settings, credentials, inbox; file mutation queue | implement a mutual-exclusion specification | open |
| 12 | LSP; relay client with hub; compaction cut point (operators against a reference) | | open |

Theorems: every safety property that a passing run checks is proved for all values of
the constants, each under the conditions section 6 names. Worth proving next: what modules 10 to
12 promise, and `HarnessWritesAccounted` under a condition weaker than `OneAtATime`.

## 3. Modules

### TriggerRuntime

`dedup` and `cycle` are the two maps of the class, `outcome` the last return
value. `Evaluate` is one call of `evaluate`, in its three outcomes `Dedupe`,
`SuppressCycle` and `Accept`; `RecordFollowUpHop` the other method. Both prune
first, with the stamp they are given. The clock is explicit and a stamp lies at
most `Skew` behind it: the sources stamp before they queue. `RuntimeInit`,
`RuntimeNext` and `RuntimeSpec` are the specification. Counters saturate at
`MaxSafeInteger`. History variables record acceptances and, per trace, the hops
made without a long enough pause.

### SessionStorage, AppendOnlyLog

`disk` is a sequence of lines made of whole entries, fragments and glued pieces;
`entries` and `leaf` are the memory of an open store. An append is three steps:
choosing id and parent (`BeginAppend`), the file write (`Write`), and the update
of memory (`Acknowledge`); `BeginMove` adds the leaf entry, and the summary after
it. Opening loads (`LoadClean`), or salvages and repairs (`LoadSalvaged`,
`Repair`), or fails. `CrashCuts`, `FailCuts` and `RepairTears` say what an
interrupted write may leave: nothing, a fragment, or the line without its
newline. `AppendOnlyLog` is the promise: a log that grows at its end and holds
what it confirmed; the refinement maps it to what a load of the file would return.

### AgentHarness

`op[o].at` names the await operation `o` is suspended at; one action per stretch
of code between awaits, for the whole path from `prompt()` through the loop,
`agent_end`, the settling flush, cleanup and the continuation hook. Callers of
`steer`, setters, `abort` and `resetCost` act at every one of them. `Fails`
lets listeners, hooks and writes throw up to `MaxFailures` times. Payloads are
identities; the cost is counted in responses.

### ToolBatch

One message with `N` calls. `class`, `wish` and `decision` are the three places
that can stop a call; `stage` is the await it is at. Mode (sequential or not) and
whether a prompt channel is configured are chosen initially. `EndRun` appends
what the harness appends at the end of a run and the user's next message, and
`TransformMessages` is the pass that pairs calls with results for the provider.

### TriggerExecution

`stage[t]` follows a trigger from the hook's queue through its permission hooks,
its action, delivery and promotion. `running` is `runningTriggers`, `hookSlot`
the one published controller: a trigger prompt and the turn-end hook set it when
they open and clear it when they are over, and `crossed` is the history of open
prompts whose slot another hook wrote. The select of a sub-agent is modelled by its
microtasks (`jobs`, in order): a settled case needs one to be recorded (`Record`), the
first record queues a check behind what waits already, and the check commits to the
cancellation only if that is among the outcomes `recorded` (`SelectCommits`).
The parent is its phase and what each of its runs does: a run polls the follow-up
queue until it finds it empty (`Poll`), a compaction never does; the phase goes idle
(`Settle`) before the turn-end hook is asked (`TurnEndBuilt`, `TurnEndReturns`,
`TurnEndThrows`), so that another run may be going on by then. `session` is a
sequence, so that a message appended a second time shows.

### UiEventLoop

`jobs` is the microtask queue as far as the running select is concerned: a woken
case needs one microtask to settle its promise, one to be recorded, and the
commit check is a third, so several cases can settle before the winner is
chosen. `Select` builds the cases with their guards; `Commit` aborts the losers
and drops what they took. Only the feed listener can push between these
microtasks; HTTP, relay and signals are tasks of their own (`Interleaves`).
`ReadyCases`, `Nth` and `Taken` say which cases a select runs, in which order, and what
each takes; they are sets and a CHOOSE instead of a filtered sequence, which the
provers cannot look into. The
terminal event loop reads the same queues with the same select in the same order.

### McpClient

A call is one use of `initialize`, `toolsList` or `toolsCall`; `st` says at which
await of `request()` it is. `request()` registers its resolver, awaits `sendLine`,
and only then looks at the deadline and the abort signal, so "sending" and
"waiting" are two states. `inflight` is the table, an id finds its call only
through `id`, and `lines` is the channel between transport and pump. `kind` is
chosen initially: a child process can exit, stop reading or close its stdout; the
GET stream of the HTTP transport fails, sleeps and reconnects.

### CronJobs

`jobs` is the registry, `file` the sidecar, `runs[j][n]` the n-th firing of job j
from the sink to its end. `Commit` is what a command does (write, then change the
registry, or report), `Record` what bookkeeping does (change, then try to write);
both meet `WriteFails`, which may cut the file short. `Scan` is one poll of the
hook with its overlap rule, `Dispatch` and `Drop` the supervisor's dispatch,
`Complete` and `Fail` the listener that looks a job up by its marker. `now` in
`Start` and `Scan` is any instant: the clock may be set back. `disowned` is the
history of markers taken by a command.

### AgentSession

`pc[c]` is the await the promise of call `c` stands at: checking the last reply
before its own message, compacting, in the hooks, running, backing off; a prompt that
finds no model or no credentials ends as "unready". `phase`
is the run of `Agent`, shared by all calls. `steering` and `followUps` are the agent's
queues and `mirror` the session's own copy of their texts: the run takes a message from
a queue, holds it (`held`) while `turn_start` is awaited, and the copy goes only when
it starts (`Started`), so that `ClearQueue` may come in between. `tail` is what its transcript ends
with, which is what `continue()` decides by. `AfterRun` is `_handlePostAgentRun`
with its order of retry, recovery and compaction, `CheckCompaction` is
`_checkCompaction`, `Continue` is `Agent.continue`. Calls differ in their
`streamingBehavior` (`Mode`): the user's prompt has none, a trigger's delivery
queues a follow-up, `steer()` queues directly.

## 4. Runs

Every bound is a constant in the `.cfg`. Deadlock checking is off where a system
with nothing left to do stops, which is in all of them.

| Run | Shows | Bounds and why they are enough | States |
|---|---|---|---|
| `trigger_runtime` | Two acceptances of a key are more than `Window - Skew` apart (`AcceptedOncePerWindow`), duplicates only inside it (`DuplicateOnlyInWindow`), suppression exactly at the hop limit (`SuppressedExactly`) | 2 keys and 2 traces, so that one prunes the other's entry; window 2, skew 1, clock 3: an entry can be inside, at the edge of and outside the window. Proved for all values. | 444k |
| `session_crash` | The file always loads (`AlwaysLoadable`), the store implements `AppendOnlyLog` (`ImplementsLog`), parents precede children (`ParentsPrecede`), and while calls do not overlap the active branch is what was built (`ActiveBranch`) | 4 entries: one before a crash, the torn one, and two after the repair, which is what gluing needs; 2 callers | 49k |
| `session_newline` | *violation*: see section 7 | as above, with a cut just before the newline | |
| `harness_failures` | No message or write lost, doubled or reordered (`MessagesAccounted`, `WritesAccounted`); a run in progress is visible and abortable (`RunVisible`); nothing left behind when all has settled (`Restored`) | 2 operations of any kind, 2 messages, 2 writes, 2 failures: a failure and a failure of its report | 568k |
| `harness_budget` | No request once the cap is reached (`NoRequestOverCap`), across tool turns, continuations, a second run and `resetCost`; a turn whose controller fired ends (`AbortEndsRun`) | cap of 2 responses, 2 continuations, 2 operations | 148k |
| `tools` | The gate (`GateRespected`), pairing and order of events and results (`EveryStartEnds`), a well-formed next request (`RequestWellFormed`), silence after the end (`QuietAfterEnd`), an end to every batch (`BatchEnds`) | 3 calls: one done, one at the await in question, one not begun; all 5 classes of each, both modes, with and without a channel; one failing listener | 588k |
| `trigger_execution` | An exact registry (`RegistryExact`); one terminal event (`OneTerminalEvent`); a cancellation before the outcome is recorded wins (`CancelWins`); each injection and promotion in one place, and in the session once (`InjectedOnce`); `abort` reaches every open prompt whose slot no other hook wrote, and none that is over (`PromptsAborted`) | 2 triggers of one hook, 2 runs, continuations or compactions of the parent with a turn-end hook: one asks its hook while the other goes on; one abort of any kind, every callback and append failing at will. All are proved for all values. | 2.99M |
| `ui` | One turn at a time, in order, none stranded (`TurnsSerial`); every value in exactly one place (`ValuesAccounted`); order and one end per queue (`HandledInOrder`); a card is kept until resolved (`CardKept`); every queued prompt gets its turn (`QueuedRuns`) | 3 inputs of 9 kinds from browser, relay and agent, one approval, the feed closing, SIGINT, a failing server: a turn in flight, one queued, one racing | 176k |
| `ui_lost` | *violation*: see section 7 | 3 inputs | |
| `mcp` | Who awaits an answer is in the table, and nobody else but a call still writing its cancel notification (`TableExact`), nobody is settled by another's answer (`OwnAnswer`), a stopped pump leaves nobody waiting (`NoneForgotten`), every request ends (`RequestEnds`) | 2 overlapping calls on either transport, so that one can give up while the other takes its place; 2 lines in the channel: an answer and what comes before it; 2 reconnection attempts. The first three are proved for all values. | 351k |
| `cron` | The marker names exactly the run going on (`MarkerExact`), what the user decided survives (`DecisionsPersisted`), notes are replaced only by a run that read them (`NotesNotLost`), a fired job becomes free again (`MarkerReleased`) | 2 runs of a job with notes, which is what an overlap across disable and enable needs; a second job that shares registry and sidecar and never comes due; 2 instants, one failed write. The first three are proved for all values. | 70k |
| `agent_session` | Every message in one place, but for one the run held when the queues were cleared, which is in the editor and goes on (`MessagesAccounted`); a prompt alone that finds a model and credentials is never refused and never fails (`AloneNeverFails`); shell results stay out of tool turns (`BashKeptOut`); every prompt ends (`PromptEnds`) | the user's prompt, a trigger's delivery and a steering message: two prompts that overlap and one message in each queue; one retry, one tool turn, one abort, one shell result | 437k |

Each property of a passing run comes with a mutant in `PROJECT.json`: an operator
(marked `mutant` in the module) that changes one mapped definition the way a
plausible bug would, and under which TLC finds the property violated.

Conditions under which the properties are stated, all of them real restrictions:

* `harness_failures` has callers that await one structural operation before the
  next (`OneAtATime`) and no `onTurnEnd` hook; `harness_budget` has messages only
  in the next-turn queue. Section 7 says what happens otherwise.
* `ActiveBranch` is stated while appends do not overlap (`overlap`).
* `QuietAfterEnd` excludes a listener that throws in parallel mode.
* `RegistryExact` and `OneTerminalEvent` except triggers that left through the
  error handler of `detach` (`escaped`); triggers have traces of their own.
* `CancelWins` speaks of a cancellation that comes before the outcome of the run was
  recorded, `PromptsAborted` of prompts whose slot no other hook has written since
  they opened (`crossed`).
* `MessagesAccounted` of the session excepts a message that the run had taken and
  not started when the queues were cleared (`caught`).
* `QueuedRuns` supposes that no turn waits for an approval for ever.
* `RequestEnds` excepts a child that stops reading its stdin: no deadline runs
  until `sendLine` has returned.
* `MarkerExact` excepts runs that lost their marker to a command (`disowned`) and
  triggers dropped as duplicates; `DecisionsPersisted` speaks of a file that was
  not cut short since it was last whole.
* `AloneNeverFails` and `BashKeptOut` speak of prompts that do not overlap, the first
  of prompts that find a model and its credentials: without them `prompt` throws, as
  its documentation says, whether it is alone or not ("unready");
  `AloneNeverFails` and `PromptEnds` except the recovery from a silent overflow
  (`silent`). Section 7 says what happens otherwise.

## 5. Fairness

* `AgentHarness`: the steps of an operation are taken (`Advance`): file appends
  and listeners return. The provider's answer (`Respond`) is **not** fair: it may
  stall for ever, and the loop's race against the signal is what ends the run.
* `ToolBatch`: hooks, prompts (which have a time-out) and tools return. A tool
  that never returns blocks its batch by design.
* `TriggerExecution`: the harness's own steps (`Step(t)`). The embedder's hooks
  and the sub-agent's model may never answer.
* `UiEventLoop`: the loop's own steps, because it awaits nothing but its select;
  a turn that does not wait for an approval settles, and an aborted turn that
  waits for one is told so by the cancellation case.

* `McpClient`: what a call awaits inside the client: a write to a pipe that is
  being read completes, timers fire, a settled promise is taken up. Nothing is
  assumed of the server, the consumers or the pump: the deadline alone ends a
  request.
* `CronJobs`: the drain loop dispatches what waits, and a model call or a turn of
  the parent session ends, one way or the other. Scans and commands are not fair.
* `AgentSession`: requests, tools and compactions end, backoff timers fire, hooks
  return. How a request ends is free: it may fail for ever.

All are weak fairness: a continuation whose promise has settled is in the
microtask queue and stays there until it runs.

## 6. Proofs

Every theorem holds for all values of the constants; the assumptions are the ones
named in the modules, and say no more than that bounds are naturals, that sets and
functions have the kinds of the code, and that a value for "none" is not one of the
things it is the absence of (`NoneAssumption`, `NoCallAssumption`, `RootAssumption`).
Conditions beyond these are hypotheses of the theorem and named in it. The proofs of
a module share one inductive invariant, or two when a later part needs more
(`IInv`, and `DiskInv`, `LogInv`, `RootInv`, `BranchInv`, `ResultsInv`, `MessageInv`,
`WriteInv`, `AccountInv`): a lemma is its base, one lemma per action (or per group of
actions that do the same to it) its step, and the theorems read off its conjuncts with PTL.

### TriggerProofs

It extends two modules, `TriggerRuntime` and `TriggerExecution`, which share no state.
First the runtime:
`TriggerTypeCorrect`, `TriggerAcceptedOnce`, `TriggerDuplicates`,
`TriggerFirstPolicy` and `TriggerSuppression`: the class keeps
`RuntimeTypeOK`, `AcceptedOncePerWindow`, `DuplicateOnlyInWindow`, `FirstPolicyGoverns` and
`SuppressedExactly`, for every window, skew, hop limit, saturation bound and set
of keys and traces.

None of them is inductive:
they talk about history, while the code decides by what is in its maps, and a
call for one key prunes the entries of all others. The inductive invariant `RuntimeInv`
adds three parts. `DedupInv`: every acceptance of a key either is its latest and
the entry in the map, or the clock has passed its window, so that a missing entry
never hides a duplicate. `CycleInv`: the stored hop count lies between the two
counts of the history, and a trace without a counter has been silent for longer
than the window. `OutcomeInv`: the trigger of the last outcome is one of the
model's. `InitIInv` and `NextIInv` are the base and the step; the step has one
lemma per action and outcome (`TickStep`, `DedupeStep`, `SuppressCycleStep`,
`AcceptStep`, `FollowUpStep`) over lemmas about pruning (`PruneDedup`,
`PruneCycle`), counting (`SaturatingRange`, `HopStep`) and the history
(`AppendStamp`).

Then the execution:
`ExecTypeCorrect`, `ExecOneTerminalEvent`, `ExecCancelWins`, `ExecInjectedOnce`,
`ExecPromptsAborted` and `ExecHandledSerially` hold for any triggers, hooks and traces.
`IInv` says for each trigger what its stage implies: which terminal events it has sent
(`EndInv`), and that its hook's pump waits for it and for nothing else (`SerialInv`).
`RaceInv` lists the states a select can be in (its queue of microtasks with what has
been recorded): a check that has not run yet stands behind the cancellation of whatever
came before the run's record. `DoomInv` rests on it, with `SelectInv`, that only a
sub-agent has a select. `MessageInv` says that the four places of a message (about to
be appended, queued, in the session, gone) are disjoint, that each sequence is injective, that
together they are what has been issued, and how far the trigger of an issued message
has come, so that it does not issue it again. `PromptInv` says that an open prompt has the
slot or has been crossed.

Two theorems carry a condition, because the code needs it:

* `ExecRegistryExact` assumes `OwnTraces`, that no two triggers share a trace. The
  registry's key is the trace, and a second live trigger of it shares the entry.
* `ExecEveryPromptAborted` assumes `OneUser`: one notification hook and no turn-end hook.
  `activeHookAbortController` is one field; nobody else writes it then (`AloneInv`), and
  `abort` reaches every open prompt.

What happens without them is in section 7.

### McpClientProofs

`McpTypeCorrect`, `McpTableExact`, `McpOwnAnswer` and `McpNoneForgotten`, for any
number of calls, channel capacity and reconnection policy, on either transport.
`TableExact` alone is not inductive: `TableInv` says exactly who is in the table, the
calls that are neither settled nor over; and since `request()` removes an id and not a
call, `IdsOrdered` adds that ids are spent in order, so that a live call has one of its
own and removing it removes nobody else (`ForgetRemovesOne`).

### CronJobsProofs

`CronTypeCorrect`, `CronMarkerExact`, `CronDecisionsPersisted` and
`CronNotesNotLost`, for any jobs, schedules, and numbers of runs and failed writes.
`MarkerExact` needs that a load meets no run going on (`DownInv`) and that an added
job has no marker yet (`UsedInv`: only ids given out are in the registry or the
sidecar). `NotesNotLost` is an action property: it follows from `ReadInv`, that the
marked run of a job read the notes as they are, which is kept because notes change
only at the end of the marked run. `CommitEffect` and `RecordEffect` say once what
a command and a bookkeeping write may leave behind.

### ToolBatchProofs

`BatchTypeCorrect`, `BatchInOrder`, `BatchGateRespected` and `BatchQuietAfterEnd`, for
any number of calls and failing listeners, parallel or sequential. `GateInv` ties the
stage a call has reached to what its classifier, hook and prompt have said so far;
`Grown` and `InOrder` say that the loop looks at the calls in source order, so that
what it has decided of one it does not decide again; `OneAtATime` and `QuietInv`
say which tools may be running when the batch gives control back.

`BatchEveryStartEnds` and `BatchRequestWellFormed` rest on `ResultsInv`: the transcript is
the assistant message, the results of the first calls in source order, and then what
the end of the run and the user add (`ShapeInv`); how many results there are follows
from the stages of the calls (`CountInv`); a batch gets past its calls only when all it
began are done, having begun all of them unless it was aborted (`DoneInv`); and one
end event has been sent for each call that got so far (`EndsInv`).
That invariant gives the transcript of every way a batch can be interrupted; what
`TransformMessages` makes of it is computed by a recursive function over positions,
and `Induct` (below) shows that it adds exactly the results that are missing.

### SessionStorageProofs

`SessionAlwaysLoadable` and `SessionWholeWhenOpen`, for any callers, entries and
number of crashes, under `CleanCuts`: a crash leaves nothing of a line or a fragment
that does not parse, a failed append leaves nothing, and the truncation of a repair
is not itself torn. Each part is needed: `session_newline` and the table of section 7
show what is lost otherwise. `DiskInv` says that the file is `Whole` while a store is
open and `Whole` or whole but for its last line when none is; `TornSalvages` and
`RepairedWhole` take the second back to the first.

`SessionTypeCorrect` needs no condition. The other three need `CleanCuts` as well:

* `SessionImplementsLog`: every step of the storage is a step of `AppendOnlyLog` on what
  a load of the file would return, or changes nothing there. `LogInv` says that an
  append whose write has returned is in the file and that acknowledged entries are in
  the log; the load of the file after each kind of write is a lemma on `Parsed`.
* `SessionParentsPrecede`: `RootInv` adds that memory holds nothing the file lacks and that
  what is about to be written names entries memory holds.
* `SessionActiveBranch`: while nothing overlaps, memory is the file's log but for the entry
  in between (`BranchInv`), so that the path from the leaf, a recursive function over
  the log, is the branch that was built. That a path is the same in a longer log, and
  repeats nothing, is by induction on positions (`Induct`).

### AgentHarnessProofs

`HarnessTypeCorrect` and `HarnessMessagesAccounted` hold for any operations, callers,
messages, writes and failures, whether or not operations overlap. `MessageInv` counts:
each message accepted is once in a queue, in the hand of an operation (no two hold
it), in the transcript, reported as cleared by an abort, or gone with a run that
failed, and the copies a step takes from one place it puts into another.
The other four assume `OneAtATime`: callers await one operation before the next.

* `HarnessRestored`: when all has settled the phase, the run promise, the controller
  and every hand are empty. `OneInv` says that one operation is active, `PlaceInv`
  what each await says of the phase, promise and controller: an operation that is
  about to leave has thrown or has already reset the phase, so that the catch of
  `prompt()`, which resets it only for a throw, covers the rest.
* `HarnessRunVisible` assumes `NoContinuation` too: no hook, or a cap of 0.
  `VisibleInv` follows a turn from the phase it set to the await at which it goes idle.
* `HarnessNoRequestOverCap` assumes `NothingQueued`: only `nextTurn()` is called.
  `BudgetInv` says at which awaits the cap has been looked at and not been reached
  since, and that after a turn with tool calls the gate has let it pass.
* `HarnessWritesAccounted`: a write made is pending, persisted once, with the idle caller
  that appends it, or refused, and queued writes reach the session in the order they
  were queued. `PeekInv` is where the condition enters: a flush that awaits an append has peeked at the head of the queue, and no
  other flush shifts it. `OrderInv` numbers the queued writes through session and
  queue, and `WriterInv` says that no two writers hold the same one.

Section 7 shows a trace for each condition that is dropped. `FormInv` is what an await
says of an operation's own locals. One lemma for each group of actions
(`StartEffect`, `LoopEffect`, `EndEffect`, `OtherEffect`) says what it may leave
behind, and the steps of the three invariants share them.

### AgentSessionProofs

`SessionTypeCorrect`, `SessionOneOwner`, `SessionAloneNeverFails`,
`SessionBashKeptOut` and `SessionMessagesAccounted`, for any calls, queues, retries and
settings. `LifeInv` says which call waits for the run that goes on and which owns a retry's controller. `QuietInv`
holds as long as no prompt has overlapped another: one is in progress at most
(`Alone`), the end of the transcript is what the next `continue()` accepts
(`TailInv`), and nobody has failed (`NoneFailed`). The tail is the hard part: every
path to a continuation, by retry, overflow recovery, compaction or queue, has to have
removed or answered the last reply.
`HeldInv` says when the run holds a message: exactly while it is about to start one.
`AccountInv` is the account: a message is still with its call or, once handed over, in
exactly one queue, held by the run, in the transcript or returned to the editor, in all one
copy, and one more if it is in `caught`. For the step of `ClearQueue` it says what the
session's copy of a text stands for: a message in a queue or in the hands of the run,
that has not been given back yet.

### UiEventLoopProofs

`UiTypeCorrect`, `UiValuesAccounted`, `UiHandledInOrder`, `UiTurnsSerial` and `UiCardKept`, for any
set of inputs, any number of them and of approvals, and any queues that may close.
They share one invariant, because each needs the others:

* `RaceInv` and `GuardInv` are about the race: outside a select there are no jobs,
  outcomes or waiters, and a case that has been run, or waits for a value, is still
  allowed when its value is handled. `UiCardKept` follows from the second: the guard of
  the approval case is evaluated an await before the card is set.
* `OrderInv` compares ids by place: what is buffered of a queue comes after what the
  select holds of it, and that after what was handled, so that no ending of a race
  reorders a queue (`HandledInOrder`), although a race may lose a value.
* `Parted` is `ValuesAccounted` with its five places spelled out (`PlacesSplit`). Each
  kind of step moves values from one place to another: its lemma says which.
* `TurnInv` says what the states of the turn in flight allow (nothing is queued
  without one, except while a finished one makes way). `SerialInv` counts the prompts
  handled and the turns finished: that makes the turns started a prefix of
  the prompts in the order they were taken, of which at most one is unfinished.

The twenty actions do only a few things to the queues and the select: `StepKinds`
reduces them to six (`Sends`, `Settles`, `Selects`, `Commits`, `Handles`, `HandlesFeed`), and
`TurnStep` to three for the turns (`TurnKept`, `TurnTaken`, `TurnOver`), so that the
steps of the other invariants have six cases, or three, and not twenty. The CHOOSE of
`Nth` and of the winner are pinned down by `NthExists`, `NthReady`, `ReadyNth` and `WinnerRecorded`.

### Induction

The library's induction theorems take an operator as parameter and cannot be used.
`Induct` and `Least` (in `SessionStorageProofs`, `ToolBatchProofs` and `UiEventLoopProofs`)
state induction for a set instead: one that holds 0 and with every number the next
holds all, or, a set of naturals that is not empty has a least element. They follow from
the well-foundedness of `<`, which takes no operator. So what a recursive *function* of the model
computes for every input can be proved, and where it mattered, it is; what the
library defines by recursion (`SelectSeq`, the folds) remains opaque, and the modules
avoid it in what the proofs speak of.

### Only model-checked

The liveness properties: `AbortEndsRun`, `BatchEnds`, `QueuedRuns`, `RequestEnds`,
`MarkerReleased` and `PromptEnds`. Fairness and ENABLED are out of the prover's reach.
Of the theorems, the conditions are part of what they say: what happens without
`OneAtATime`, `NoContinuation`, `NothingQueued`, `CleanCuts`, `OwnTraces` or `OneUser` is shown
by TLC's counterexamples in section 7.

## 7. Where code and documentation disagree

Two of these are runs of their own, listed under `findings`:

* `session_newline`: an append cut between its JSON and its newline parses, so
  nothing is repaired; the next append is glued to that line, the one after makes
  it a mid-file line, and the session no longer opens. The salvage rule
  (`jsonl-storage.ts:226`) assumes that a torn append never parses.
* `ui_lost`: every case of a select takes the head of its queue at once; what a
  losing case took is dropped. A prompt answered with `accepted: true` can vanish.

The others are reproduced by changing the constants of a configuration as given,
and checking the property named; the properties are defined in the modules.

| What the code does | Where | Start from, change | Check |
|---|---|---|---|
| Two overlapping appends read the same leaf; one acknowledged entry falls off the active branch | `session.ts:140` | `MCSessionCrash` | `BranchKept` |
| The repair of a torn tail truncates in place; a crash in it loses acknowledged entries ("nothing but the torn line changes", `jsonl-storage.ts:296`) | `jsonl-storage.ts:298` | `MCSessionCrash`, `RepairTears = TRUE` | `ImplementsLog` |
| A failed append leaves its fragment; the next acknowledged entry is glued to it | `jsonl-storage.ts:371` | `MCSessionCrash`, `FailCuts = {"nothing", "fragment"}` | `ImplementsLog` |
| A continuation turn runs with phase "idle": `steer` throws, a second `prompt` is accepted | `agent-harness.ts:1301` | `MCHarnessFailures`, `Hook = TRUE`, `ContinuationCap = 1` | `RunVisible` |
| A prompt accepted while the last run settles loses its controller to that run's cleanup | `agent-harness.ts:1402` | `MCHarnessFailures`, `OneAtATime = FALSE` | `RunVisible` |
| Two flushes peek at the same write, persist it twice, shift twice | `agent-harness.ts:1270` | `MCHarnessFailures`, `OneAtATime = FALSE` | `WritesAccounted` |
| A follow-up accepted when no loop is left to drain it stays | `agent-harness.ts:1930` | `MCHarnessFailures` | `NoneStranded` |
| A steering message between the budget gate and the drain starts a request over the cap | `agent-harness.ts:1784` | `MCHarnessBudget`, `Sends = {"steer"}` | `NoRequestOverCap` |
| `abort` before the controller exists does not end the run | `agent-harness.ts:1354` | `MCHarnessBudget`, `MaxFailures = 0` | `AbortHeeded` |
| Two `setModel` calls around the end of a run are persisted in the other order | `agent-harness.ts:2262` | `MCHarnessFailures`, two callers | `ModelMatches` |
| A listener that throws during a parallel batch ends the run while other tools go on ("`agent_end` is the last event", `types.ts:515`) | `agent-loop.ts:573` | `MCTools` | `QuietAfterEnd` without its condition |
| Two live triggers of one trace share one registry entry | `agent-harness.ts:2800` | `MCExec`, one trace for both triggers, two hooks | `RegistryExact` |
| A failing preparation leaves its registry entry for good; a throwing `queue_update` listener adds `trigger_failed` after `trigger_completed` | `agent-harness.ts:2823`, `:3106` | `MCExec` | `RegistryExact`, `OneTerminalEvent` without `escaped` |
| A throwing permission hook ends its pump; later triggers stay queued | `agent-harness.ts:3200` | `MCExec` | `PumpStopsAtClose` |
| `abort` misses an open trigger prompt: the turn-end hook, or the prompt of another notification hook, sets and clears the one `activeHookAbortController` meanwhile | `agent-harness.ts:1566`, `:1571`, `:2583` | `MCExec` | `EveryPromptAborted` |
| "the cancel branch [...] always wins over a simultaneously-settling sub-agent completion" (`agent-harness.ts:2873`), but a cancellation in the microtasks between the record of the outcome and the check that commits loses: the check looks at what is recorded | `select.ts:143`, `agent-harness.ts:2883` | `MCExec` | `CancelHeeded` |
| A trigger injected while the parent compacts waits for a loop that is not there | `agent-harness.ts:2748` | `MCExec` | `InjectionServed` |
| An approval prompt taken by a losing case is never shown | `web.ts:1594` | `MCUi` | `ApprovalReachable` |
| The relay's abort pushes `undefined`, which the loop reads as a closed queue | `web.ts:1577` | `MCUi` | `RelayAbortHeeded` |
| A silent overflow (an answer that reports more tokens than the window) is compacted to "auto-retry" (`agent-session.ts:1940`), but the rebuilt context ends with the answer, only an error is removed, and `continue()` throws "Cannot continue from message role: assistant" | `agent-session.ts:2192` | `MCSession` | `AloneNeverFails` without `silent` |
| Delivering a trigger with `sendUserMessage` "already serializes against user input" (`main.ts:1478`), but during a backoff or a compaction `isStreaming` is false: the trigger starts a run of its own, and the waiting prompt throws | `agent-session.ts:1184` | `MCSession` | `AloneNeverFails` without `overlapped` |
| Two overlapping prompts renew each other's retry and recovery budgets and never end, if every reply overflows silently | `agent-session.ts:1946` | `MCSession` | `PromptEnds` without its exception |
| A child that stops reading its stdin holds a request for ever: the deadline starts after `sendLine` | `client.ts:223` | `MCMcp` | `RequestEnds` without `stuck` |
| When the cancel notification goes out "our side has already dropped the inflight entry" (`client.ts:257`), but the entry goes in `request()`'s `finally`, after the notification was written or has timed out; an answer that comes meanwhile still finds it, and settles a promise nobody awaits | `client.ts:242`, `:249` | `MCMcp` | `DroppedOnCancel` |
| `clearQueue()` is to "clear all queued messages and return them" for restoring to the editor (`agent-session.ts:1521`), but it returns the session's own copies, which go at `message_start`, while the run has drained the agent's queue before an awaited `turn_start`: the message is given back and delivered | `agent-session.ts:1525`, `agent-loop.ts:176`, `:273` | `MCSession` | `GivenBackForGood` |
| A command that disables and enables a job lets a second run start beside the first | `cron.ts:625` | `MCCron` | `MarkerExact` without `disowned` |
| After the clock is set back, a firing dropped as a duplicate leaves its marker: the job is skipped as "previous run still active" although nothing runs | `cron.ts:665` | `MCCron` | `MarkerReleased` without "dropped" |

Read off the code and not modelled here:

* Writes queued during `compact` are still pending when it has settled
  (`agent-harness.ts:2069`; `agent-harness.md:88` says "at operation settlement").
* `AgentSession.abort` is said to "wait for agent to become idle"
  (`agent-session.ts:1555`) but does not stop an auto-compaction; a second backoff
  overwrites `_retryAbortController`, and the first can no longer be aborted;
  manual `compact` disconnects the session, so that messages of a run beside it are
  not saved; `pendingNextTurnMessages` taken by a prompt that is then refused are
  lost; a follow-up queued while a run closes waits for the next prompt.
* `close()` of the HTTP transport leaves its channel open, so the pump goes on
  waiting, and an `initialize` made afterwards is still posted (`client.ts:198`:
  "Subsequent calls fail with NotInitialized / transport error").
* A goal is "evaluated after each successful model turn" (`goal.ts:5`), but
  `GoalController` evaluates after every `agent_end` that will not retry, aborted
  and failed turns included (`goal-runtime.ts:198`); the state it writes back is
  built from the copy read before the evaluator ran (`goal.ts:251`), so a `/goal
  pause`, `clear` or new goal made meanwhile is overwritten; the iteration count it
  relies on for an end is saved best-effort, and without the harness's own cap
  (`goal-runtime.ts:33`) a session file that cannot be written makes it continue
  without bound.
* A `fire_once` rule of a dynamic trigger can fire twice in overlapping checks; the
  key of the file mutation queue changes when the file comes into being
  (`file-mutation-queue.ts:20`); the lock of the credential store goes stale while
  a token refresh still awaits the network (`auth-storage.ts:375`).

## 8. Abstractions and limits

Entry payloads, message texts, tool arguments and results, event payloads,
templates, promotion conditions, cost breakdowns and timing other than order are
left out: no property depends on them. Listeners are a possible failure at the
await that calls them; what they themselves call back into is covered by the
environment's actions, which may happen at the same await. `prompt`, `skill`,
`promptFromTemplate` and `continue` are one kind of operation. The in-memory
session storage, tool and resource registration, stream-option patching, `selectN`
and rejecting select cases of the UI loop are not modelled. `UiEventLoop` leaves out HTTP
routing, snapshots and completion; the key handling and tick of the terminal loop
are not in it either. `McpClient` leaves out progress and
list-changed notifications, OAuth and the session id of HTTP. `CronJobs` leaves out
the expression parser, the inbox lines and the counters shown to the user, and two
processes on one sidecar. `AgentSession` leaves out custom messages, extension
commands, manual compaction and the abort of a compaction, model and tool changes,
and what the session file holds; whether a reply leaves the context too large, and
which reply a new prompt finds last, is chosen freely, and so is whether a model
and its credentials are configured; its listeners are taken not to throw.

### Not modelled

Dynamic triggers, the goal controller, the inbox, lock files, the file mutation
queue, the LSP client, the relay with its hub and the compaction cut point have
state worth a module and have none yet; `PROJECT.json` says for every component why
it is left out. Most of the repository by size is outside what a state machine can
say anything about: a generated table of models, terminal drawing and key decoding,
provider wire formats, export templates and configuration.
