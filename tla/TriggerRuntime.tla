--------------------------- MODULE TriggerRuntime ---------------------------
(***************************************************************************)
(* The dedup window and the cycle suppressor that every notification       *)
(* passes before the agent acts on it (packages/agent/src/harness/         *)
(* trigger-runtime.ts).  The methods are synchronous, so each is one       *)
(* action.  What makes them delicate is time: a trigger is stamped by its  *)
(* source (received_at) and evaluated later, after it has waited in the    *)
(* source's queue, so the stamps of several sources reach the runtime out  *)
(* of order, and every evaluation prunes the maps with its own stamp.      *)
(*                                                                         *)
(* Skew bounds the wait between stamping and evaluation.  The variables    *)
(* admissions, arrivals and chain are history: the code keeps none of      *)
(* them, and they are never pruned.                                        *)
(***************************************************************************)
EXTENDS Integers, Sequences

CONSTANTS
    Keys,           \* idempotency keys
    TraceIds,       \* trace ids
    Policies,       \* the replacement policies sources declare
    Window,         \* dedupWindowMs after the constructor's clamp
    CycleHopLimit,  \* cycleHopLimit
    Skew,           \* longest wait between stamping and evaluation
    MaxSafeInteger, \* where the lifetime counters saturate
    MaxTime,        \* bound: last instant of the clock
    MaxFollowUps    \* bound: follow-up hops recorded in one chain

ASSUME WindowAssumption == Window \in Nat
ASSUME LimitAssumption == CycleHopLimit \in Nat
ASSUME SkewAssumption == Skew \in Nat
ASSUME CounterAssumption == MaxSafeInteger \in Nat
ASSUME BoundAssumption == MaxTime \in Nat /\ MaxFollowUps \in Nat
ASSUME PolicyAssumption == Policies \subseteq {"latest_replaces", "coalesce", "drop"}

VARIABLES
    clock,          \* wall clock of the host
    dedup,          \* key -> [receivedAt, policy, trace], as the Map
    cycle,          \* trace -> [lastSeenAt, hopCount], as the Map
    acceptedTotal, dedupedTotal, cycleSuppressedTotal,
    outcome,        \* what the last call returned, and for which trigger
    admissions,     \* history: stamps of the accepted triggers of each key
    arrivals,       \* history: per key, the accepted arrival and the latest one
    chain           \* history: per trace, its hops since its last pause

counters == <<acceptedTotal, dedupedTotal, cycleSuppressedTotal>>
history == <<admissions, arrivals, chain>>
runtimeVars == <<clock, dedup, cycle, counters, outcome, history>>

-----------------------------------------------------------------------------
(* JavaScript Map operations used by the code. *)

Only(map, S) == [x \in S |-> map[x]]

Put(map, x, v) == [y \in DOMAIN map \cup {x} |-> IF y = x THEN v ELSE map[y]]

SaturatingIncrement(n) == IF n < MaxSafeInteger THEN n + 1 ELSE MaxSafeInteger

EarlyPruneExpired(map, now) ==   \* mutant: the window ends one instant early
    Only(map, {k \in DOMAIN map : map[k].receivedAt > now - Window})

PruneExpired(map, now) ==
    Only(map, {k \in DOMAIN map : ~ (map[k].receivedAt < now - Window)})

PruneExpiredCycle(map, now) ==
    Only(map, {t \in DOMAIN map : ~ (map[t].lastSeenAt < now - Window)})

(* hopCount += 1, or a fresh entry, with lastSeenAtMs = now in both cases. *)
BumpHop(map, t, now) ==
    Put(map, t, [lastSeenAt |-> now,
                 hopCount |-> IF t \in DOMAIN map THEN map[t].hopCount + 1
                                                  ELSE 1])

-----------------------------------------------------------------------------
(* History of a trace.  "accepted" counts the accepted triggers since the  *)
(* trace last paused for longer than Window - Skew, "hops" every hop since *)
(* it last paused for longer than Window.                                  *)

NoChain == [last |-> 0, accepted |-> 0, hops |-> 0]

Extend(c, now, admits) ==
    [last     |-> now,
     accepted |-> (IF now > c.last + Window - Skew THEN 0 ELSE c.accepted)
                    + (IF admits THEN 1 ELSE 0),
     hops     |-> (IF now > c.last + Window THEN 0 ELSE c.hops) + 1]

-----------------------------------------------------------------------------

RuntimeInit ==
    /\ clock = 0
    /\ dedup = <<>>
    /\ cycle = <<>>
    /\ acceptedTotal = 0 /\ dedupedTotal = 0 /\ cycleSuppressedTotal = 0
    /\ outcome = [type |-> "none"]
    /\ admissions = [k \in Keys |-> <<>>]
    /\ arrivals = <<>>
    /\ chain = [t \in TraceIds |-> NoChain]

Tick ==
    /\ clock < MaxTime
    /\ clock' = clock + 1
    /\ UNCHANGED <<dedup, cycle, counters, outcome, history>>

SlidingReplaced(prev, trigger) ==   \* mutant: refreshes the window
    [prev EXCEPT !.trace = trigger.trace, !.receivedAt = trigger.receivedAt]

Replaced(prev, trigger) == [prev EXCEPT !.trace = trigger.trace]

(* A duplicate: the stored entry answers, and only its trace id may move. *)
Dedupe(trigger) ==
    LET live == PruneExpired(dedup, trigger.receivedAt)
        prev == live[trigger.key]
    IN  /\ trigger.key \in DOMAIN live
        /\ dedupedTotal' = SaturatingIncrement(dedupedTotal)
        /\ outcome' = [type |-> "deduped", trigger |-> trigger,
                       replacementPolicy |-> prev.policy,
                       previousTraceId |-> prev.trace]
        /\ dedup' = IF prev.policy = "latest_replaces"
                      THEN Put(live, trigger.key, Replaced(prev, trigger))
                      ELSE live
        /\ cycle' = PruneExpiredCycle(cycle, trigger.receivedAt)
        /\ arrivals' = [arrivals EXCEPT ![trigger.key].latest = trigger.trace]
        /\ UNCHANGED <<clock, acceptedTotal, cycleSuppressedTotal, admissions, chain>>

LateExhausted(traces, t) ==   \* mutant: one hop too many
    t \in DOMAIN traces /\ traces[t].hopCount > CycleHopLimit

(* The hop limit is compared with the counter before this trigger's hop. *)
Exhausted(traces, t) ==
    t \in DOMAIN traces /\ traces[t].hopCount >= CycleHopLimit

(* The trace is exhausted: nothing but the pruning and a counter changes. *)
SuppressCycle(trigger) ==
    LET live == PruneExpired(dedup, trigger.receivedAt)
        traces == PruneExpiredCycle(cycle, trigger.receivedAt)
    IN  /\ trigger.key \notin DOMAIN live
        /\ Exhausted(traces, trigger.trace)
        /\ cycleSuppressedTotal' = SaturatingIncrement(cycleSuppressedTotal)
        /\ outcome' = [type |-> "cycleSuppressed", trigger |-> trigger,
                       hopCount |-> traces[trigger.trace].hopCount]
        /\ dedup' = live
        /\ cycle' = traces
        /\ UNCHANGED <<clock, acceptedTotal, dedupedTotal, history>>

(* Admitted: a dedup entry and a hop are recorded. *)
Accept(trigger) ==
    LET live == PruneExpired(dedup, trigger.receivedAt)
        traces == PruneExpiredCycle(cycle, trigger.receivedAt)
    IN  /\ trigger.key \notin DOMAIN live
        /\ ~ Exhausted(traces, trigger.trace)
        /\ dedup' = Put(live, trigger.key,
                        [receivedAt |-> trigger.receivedAt,
                         policy |-> trigger.policy, trace |-> trigger.trace])
        /\ cycle' = BumpHop(traces, trigger.trace, trigger.receivedAt)
        /\ acceptedTotal' = SaturatingIncrement(acceptedTotal)
        /\ outcome' = [type |-> "accept", trigger |-> trigger]
        /\ admissions' = [admissions EXCEPT ![trigger.key] =
                            Append(@, trigger.receivedAt)]
        /\ arrivals' = Put(arrivals, trigger.key,
                           [policy |-> trigger.policy, first |-> trigger.trace,
                            latest |-> trigger.trace])
        /\ chain' = [chain EXCEPT ![trigger.trace] =
                       Extend(@, trigger.receivedAt, TRUE)]
        /\ UNCHANGED <<clock, dedupedTotal, cycleSuppressedTotal>>

Evaluate(trigger) ==
    Dedupe(trigger) \/ SuppressCycle(trigger) \/ Accept(trigger)

(* A stamp taken at most Skew ago. *)
Stamps == {s \in 0..clock : s >= clock - Skew}

RecordFollowUpHop(t, now) ==
    /\ chain[t].hops < MaxFollowUps
    /\ cycle' = BumpHop(PruneExpiredCycle(cycle, now), t, now)
    /\ chain' = [chain EXCEPT ![t] = Extend(@, now, FALSE)]
    /\ outcome' = [type |-> "none"]
    /\ UNCHANGED <<clock, dedup, counters, admissions, arrivals>>

RuntimeNext ==
    \/ Tick
    \/ \E k \in Keys, t \in TraceIds, p \in Policies, s \in Stamps :
          Evaluate([key |-> k, trace |-> t, policy |-> p, receivedAt |-> s])
    \/ \E t \in TraceIds, s \in Stamps : RecordFollowUpHop(t, s)

RuntimeSpec == RuntimeInit /\ [][RuntimeNext]_runtimeVars

-----------------------------------------------------------------------------
DedupEntry == [receivedAt : Nat, policy : Policies, trace : TraceIds]
CycleEntry == [lastSeenAt : Nat, hopCount : Nat \ {0}]
Arrival == [policy : Policies, first : TraceIds, latest : TraceIds]

(* The maps hold well-formed entries of known keys and traces, the         *)
(* counters stay below the saturation point (saturatingIncrement), and no  *)
(* stamp the runtime has recorded lies in the future.                      *)
RuntimeTypeOK ==
    /\ clock \in Nat
    /\ DOMAIN dedup \subseteq Keys
    /\ \A k \in DOMAIN dedup : dedup[k] \in DedupEntry /\ dedup[k].receivedAt <= clock
    /\ DOMAIN cycle \subseteq TraceIds
    /\ \A t \in DOMAIN cycle : cycle[t] \in CycleEntry /\ cycle[t].lastSeenAt <= clock
    /\ acceptedTotal \in 0..MaxSafeInteger
    /\ dedupedTotal \in 0..MaxSafeInteger
    /\ cycleSuppressedTotal \in 0..MaxSafeInteger
    /\ admissions \in [Keys -> Seq(Nat)]
    /\ DOMAIN arrivals \subseteq Keys
    /\ \A k \in DOMAIN arrivals : arrivals[k] \in Arrival
    /\ chain \in [TraceIds -> [last : Nat, accepted : Nat, hops : Nat]]

(* The dedup window: no two triggers of one key are both accepted by       *)
(* evaluate() unless their stamps are more than Window - Skew apart,       *)
(* whatever other sources evaluate, and prune, in between.                 *)
AcceptedOncePerWindow ==
    \A k \in Keys : \A i, j \in 1..Len(admissions[k]) :
        i < j => admissions[k][j] > admissions[k][i] + Window - Skew

(* The window does not slide: a trigger is reported as a duplicate only    *)
(* when it is stamped at most Window after the accepted trigger of its     *)
(* key, however long the stream of duplicates since then.                  *)
DuplicateOnlyInWindow ==
    outcome.type = "deduped" =>
        LET stamps == admissions[outcome.trigger.key]
        IN  /\ stamps # <<>>
            /\ outcome.trigger.receivedAt <= stamps[Len(stamps)] + Window

(* The first arrival's policy governs the window: a live entry of dedup    *)
(* carries that policy, and the trace id a duplicate will be told is the   *)
(* latest arrival's under latest_replaces and the first one's otherwise.   *)
FirstPolicyGoverns ==
    \A k \in DOMAIN dedup :
        /\ k \in DOMAIN arrivals
        /\ dedup[k].policy = arrivals[k].policy
        /\ dedup[k].trace = IF arrivals[k].policy = "latest_replaces"
                              THEN arrivals[k].latest ELSE arrivals[k].first

(* Cycle suppression: a trace that never pauses for longer than            *)
(* Window - Skew gets at most cycleHopLimit triggers accepted (the first   *)
(* one always is, even under a limit of 0).                                *)
ChainBounded ==
    \A t \in TraceIds :
        chain[t].accepted <= IF CycleHopLimit = 0 THEN 1 ELSE CycleHopLimit

(* A trace is never suppressed for less: the suppressed trigger's trace    *)
(* made cycleHopLimit hops, follow-up hops included, with no pause longer  *)
(* than Window, and the suppressed trigger itself falls in that window.    *)
SuppressedOnlyWhenExhausted ==
    outcome.type = "cycleSuppressed" =>
        LET c == chain[outcome.trigger.trace]
        IN  /\ c.hops >= CycleHopLimit
            /\ c.hops > 0

(* Cycle suppression is exact: a trace is suppressed when it has used up   *)
(* its hops and never for less.                                            *)
SuppressedExactly == ChainBounded /\ SuppressedOnlyWhenExhausted

=============================================================================
