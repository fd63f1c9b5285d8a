------------------------- MODULE AgentHarnessProofs -------------------------
(***************************************************************************)
(* AgentHarness: what holds of an operation at each of its awaits.  If     *)
(* callers await one operation before the next, the harness is restored    *)
(* once all have settled; without continuations a run is visible while it  *)
(* may issue requests; and if nothing is steered into a run or queued      *)
(* behind it, no request goes over the budget cap.  Without any such       *)
(* condition, each accepted message is in one place at any time: what      *)
(* moves between the queues, the hands of the operations and the session   *)
(* is counted, and every step leaves the count as it was.                  *)
(* So is each accepted write, if no two operations flush at once.          *)
(***************************************************************************)
EXTENDS AgentHarness, SequenceTheorems, FiniteSetTheorems, TLAPS

StructuralAt == {"compaction", "branch_summary"}

(* What an await says of the operation's own locals r. *)
FormOf(r) ==
    /\ r.at = "flushing" => r.writing \in Writes
    /\ r.at \in {"off", "done"} \cup StructuralAt => r.held = <<>> /\ r.writing = None
    /\ r.at = "off" => r.cycles = 0
    /\ r.at = "asking" => Hook /\ r.cycles < ContinuationCap
    /\ r.at = "rethrowing" => r.threw

FormInv == \A o \in Ops : FormOf(op[o])

OneInv == \A o, p \in Ops : Active(o) /\ Active(p) => o = p

Cleaning(r) == r.at = "cleanup" \/ (r.at = "flushing" /\ r.resume = "cleanup")

(* Where an operation owns the abort controller. *)
Controlled == Loop \cup {"flushing", "rethrowing", "cleanup"}

(* What an await says of the harness, if o is the only active operation. *)
PlaceOf(o) ==
    /\ op[o].at \in {"settling", "asking"} => phase = "idle"
    /\ Cleaning(op[o]) \/ op[o].at = "unwinding" => op[o].threw \/ phase = "idle"
    /\ op[o].at \in StructuralAt => runPromise = None
    /\ Active(o) /\ op[o].at \notin StructuralAt => runPromise = o

PlaceInv ==
    /\ Settled => phase = "idle" /\ runPromise = None
    /\ \A o \in Ops : PlaceOf(o)
    /\ controller # None =>
          /\ controller \in Ops
          /\ op[controller].at \in Controlled

(* No turn runs with the phase idle but one that continues another. *)
NoContinuation == ~Hook \/ ContinuationCap = 0

VisibleOf(o) ==
    /\ op[o].at \in {"preparing", "announcingNext", "starting"} => phase # "idle"
    /\ Running(o) => phase # "idle" /\ controller = o

VisibleInv == \A o \in Ops : VisibleOf(o)

(* Under the cap wherever the next request is decided. *)
NothingQueued == Sends \subseteq {"nextTurn"}

BudgetOf(o) ==
    /\ op[o].at \notin {"announcing", "injecting"}
    /\ op[o].at \in {"preparing", "announcingNext", "starting", "prompting", "requesting"}
          => ~OverCap
    /\ op[o].at \in {"snapshot", "polling"}
          \/ (op[o].at = "flushing" /\ op[o].resume = "snapshot")
          => (op[o].reason = "toolUse" => ~OverCap)

BudgetInv ==
    /\ queue["steer"] = <<>> /\ queue["followUp"] = <<>>
    /\ \A o \in Ops : BudgetOf(o)

OpTyped == op \in [Ops -> OpType]

IInv ==
    /\ TypeOK /\ OpTyped /\ FormInv
    /\ OneAtATime => OneInv /\ PlaceInv
    /\ OneAtATime /\ NoContinuation => VisibleInv
    /\ OneAtATime /\ NothingQueued => BudgetInv

-----------------------------------------------------------------------------
LEMMA FreshType == Fresh \in OpType
  <1>1. <<>> \in Seq(Messages) BY EmptySeq
  <1> QED BY <1>1, HarnessAssumption DEF Fresh, OpType, Labels, Flushes

LEMMA InitInv == Init => IInv
  <1> SUFFICES ASSUME Init PROVE IInv OBVIOUS
  <1> USE HarnessAssumption
  <1>1. OpTyped BY FreshType DEF Init, OpTyped
  <1>2. TypeOK
    <2>1. pending \in Seq(Writes) /\ session \in Seq(Writes \cup Messages) BY EmptySeq DEF Init
    <2>2. DOMAIN queue = Queues /\ \A q \in Queues : queue[q] \in Seq(Messages)
      BY EmptySeq DEF Init
    <2>3. DOMAIN op = Ops /\ \A o \in Ops : op[o] \in OpType BY FreshType DEF Init
    <2>4. /\ phase \in Phases /\ {runPromise, controller} \subseteq Ops \cup {None}
          /\ trip \in BOOLEAN
          /\ DOMAIN writer = Callers /\ \A c \in Callers : writer[c] \in Writes \cup {None}
          /\ {aborted, asked} \subseteq SUBSET Ops
          /\ cleared \cup dropped \subseteq Messages /\ refused \subseteq Writes
      BY DEF Init, Phases
    <2>5. /\ {model, branchModel} \subseteq 0..MaxWrites /\ spent \in 0..Cap
          /\ sent \in 0..MaxMessages /\ written \in 0..MaxWrites /\ failures \in 0..MaxFailures
      BY DEF Init
    <2> QED BY <2>1, <2>2, <2>3, <2>4, <2>5 DEF TypeOK
  <1>3. \A o \in Ops : op[o] = Fresh /\ ~Active(o) BY DEF Init, Active, Fresh
  <1>4. FormInv BY <1>3 DEF FormInv, FormOf, Fresh, StructuralAt
  <1>5. OneInv BY <1>3 DEF OneInv
  <1>6. PlaceInv
    BY <1>3 DEF Init, PlaceInv, PlaceOf, Cleaning, Fresh, StructuralAt
  <1>7. VisibleInv BY <1>3 DEF VisibleInv, VisibleOf, Running, Loop, Fresh
  <1>8. BudgetInv BY <1>3 DEF Init, BudgetInv, BudgetOf, Fresh, Queues
  <1> QED BY <1>1, <1>2, <1>4, <1>5, <1>6, <1>7, <1>8 DEF IInv

-----------------------------------------------------------------------------
(* What an action does to the operation it is of. *)

Becomes(o, r) == op'[o] = r /\ \A p \in Ops \ {o} : op'[p] = op[p]

LEMMA Update ==
    ASSUME OpTyped, NEW o \in Ops, NEW r \in OpType, op' = [op EXCEPT ![o] = r]
    PROVE  Becomes(o, r) /\ OpTyped'
  BY DEF OpTyped, Becomes

LEMMA GotoUpdate ==
    ASSUME OpTyped, NEW o \in Ops, NEW label \in Labels, Goto(o, label)
    PROVE  Becomes(o, [op[o] EXCEPT !.at = label]) /\ OpTyped'
  <1>1. [op[o] EXCEPT !.at = label] \in OpType BY DEF OpTyped, OpType
  <1>2. op' = [op EXCEPT ![o] = [op[o] EXCEPT !.at = label]] BY DEF Goto
  <1> QED BY <1>1, <1>2, Update

LEMMA FlushingType ==
    ASSUME TypeOK, NEW r \in OpType, NEW label \in Flushes
    PROVE  /\ Flushing(r, label) \in OpType
           /\ \/ Flushing(r, label).at = label /\ Flushing(r, label).resume = r.resume
              \/ /\ Flushing(r, label).at = "flushing" /\ Flushing(r, label).resume = label
                 /\ Flushing(r, label).writing \in Writes
           /\ Flushing(r, label).held = r.held /\ Flushing(r, label).reason = r.reason
           /\ Flushing(r, label).threw = r.threw /\ Flushing(r, label).cycles = r.cycles
           /\ Flushing(r, label).failing = r.failing
  <1>1. label \in Labels /\ "flushing" \in Labels BY DEF Flushes, Labels, Loop
  <1>2. CASE pending = <<>> BY <1>1, <1>2 DEF Flushing, OpType
  <1>3. CASE pending # <<>>
    <2>1. Head(pending) \in Writes BY <1>3, HeadTailProperties DEF TypeOK
    <2> QED BY <1>1, <1>3, <2>1 DEF Flushing, OpType
  <1> QED BY <1>2, <1>3

LEMMA FlushUpdate ==
    ASSUME TypeOK, OpTyped, NEW o \in Ops, NEW label \in Flushes, FlushThen(o, label)
    PROVE  Becomes(o, Flushing(op[o], label)) /\ OpTyped'
  <1>1. Flushing(op[o], label) \in OpType BY FlushingType DEF OpTyped
  <1>2. op' = [op EXCEPT ![o] = Flushing(op[o], label)] BY DEF FlushThen
  <1> QED BY <1>1, <1>2, Update

LEMMA ThrownType ==
    ASSUME NEW r \in OpType
    PROVE  /\ Thrown(r) \in OpType
           /\ Thrown(r).at = IF r.failing THEN "rethrowing" ELSE "reporting"
           /\ Thrown(r).threw = r.failing /\ Thrown(r).held = <<>>
           /\ Thrown(r).cycles = r.cycles /\ Thrown(r).reason = "error"
           /\ Thrown(r).resume = "cleanup"
  <1>1. <<>> \in Seq(Messages) BY EmptySeq
  <1>2. {"rethrowing", "reporting"} \subseteq Labels /\ "cleanup" \in Flushes
    BY DEF Labels, Loop, Flushes
  <1> QED BY <1>1, <1>2 DEF Thrown, OpType

LEMMA RejectedType ==
    ASSUME NEW r \in OpType
    PROVE  /\ Rejected(r) \in OpType /\ Rejected(r).at = "unwinding"
           /\ Rejected(r).threw /\ Rejected(r).cycles = r.cycles /\ Rejected(r).held = <<>>
  <1>1. <<>> \in Seq(Messages) BY EmptySeq
  <1>2. "unwinding" \in Labels BY DEF Labels
  <1> QED BY <1>1, <1>2 DEF Rejected, OpType

(* The locals of an operation keep their types and form. *)
LEMMA OpStep ==
    ASSUME TypeOK, OpTyped, FormInv, [Next]_vars PROVE OpTyped' /\ FormInv'
  <1> DEFINE Kept == OpTyped' /\ FormInv'
  <1> USE HarnessAssumption
  <1>r. \A o \in Ops : op[o] \in OpType /\ FormOf(op[o]) BY DEF OpTyped, FormInv
  <1>a. ASSUME NEW o \in Ops, NEW r \in OpType, op' = [op EXCEPT ![o] = r], FormOf(r) PROVE Kept
    <2>1. Becomes(o, r) /\ OpTyped' BY <1>a, Update
    <2>2. \A p \in Ops : FormOf(op'[p]) BY <1>a, <1>r, <2>1 DEF Becomes
    <2> QED BY <2>1, <2>2 DEF FormInv
  <1>b. ASSUME NEW o \in Ops,
               NEW label \in Labels \ ({"off", "done", "flushing", "asking", "rethrowing"} \cup StructuralAt),
               Goto(o, label)
        PROVE  Kept
    <2> DEFINE r == [op[o] EXCEPT !.at = label]
    <2>1. r \in OpType BY <1>r DEF OpType
    <2>2. FormOf(r) BY <1>r, <1>b DEF FormOf, OpType, StructuralAt
    <2> QED BY <1>a, <1>b, <2>1, <2>2 DEF Goto
  <1>c. ASSUME NEW o \in Ops, NEW r \in OpType, NEW label \in Flushes,
               op' = [op EXCEPT ![o] = Flushing(r, label)]
        PROVE  Kept
    <2>1. Flushing(r, label) \in OpType BY FlushingType
    <2>2. FormOf(Flushing(r, label)) BY FlushingType DEF FormOf, Flushes, StructuralAt
    <2> QED BY <1>a, <1>c, <2>1, <2>2
  <1>d. ASSUME NEW o \in Ops, op' = [op EXCEPT ![o] = Thrown(@)] PROVE Kept
    <2>1. Thrown(op[o]) \in OpType BY <1>r, ThrownType
    <2>2. FormOf(Thrown(op[o])) BY <1>r, ThrownType DEF FormOf, StructuralAt
    <2> QED BY <1>a, <1>d, <2>1, <2>2
  <1>e. ASSUME NEW o \in Ops, op' = [op EXCEPT ![o] = Rejected(@)] PROVE Kept
    <2>1. Rejected(op[o]) \in OpType BY <1>r, RejectedType
    <2>2. FormOf(Rejected(op[o])) BY <1>r, RejectedType DEF FormOf, StructuralAt
    <2> QED BY <1>a, <1>e, <2>1, <2>2
  <1>f. UNCHANGED op => Kept BY DEF OpTyped, FormInv
  <1>g. ASSUME NEW o \in Ops, FormOf(op[o]), op[o].at \in {"off"} \cup StructuralAt,
               NEW label \in {"preparing", "done"} \cup StructuralAt, Goto(o, label)
        PROVE  Kept
    <2> DEFINE r == [op[o] EXCEPT !.at = label]
    <2>1. label \in Labels BY DEF Labels, StructuralAt
    <2>2. r \in OpType BY <1>r, <2>1 DEF OpType
    <2>3. FormOf(r) BY <1>r, <1>g DEF FormOf, OpType, StructuralAt
    <2> QED BY <1>a, <1>g, <2>2, <2>3 DEF Goto
  <1>1. ASSUME NEW o \in Ops, Prompt(o) \/ PromptOverCap(o) \/ StartStructural(o) PROVE Kept
    <2>1. op[o].at = "off" BY <1>1 DEF Prompt, PromptOverCap, StartStructural, MayStart
    <2>2. \E label \in {"preparing", "done"} \cup StructuralAt : Goto(o, label)
      BY <1>1 DEF Prompt, PromptOverCap, StartStructural, StructuralAt
    <2> QED BY <1>g, <1>r, <2>1, <2>2
  <1>2. ASSUME NEW o \in Ops, EndStructural(o) \/ NavigateTree(o) PROVE Kept
    <2>1. op[o].at \in StructuralAt /\ Goto(o, "done")
      BY <1>2 DEF EndStructural, NavigateTree, StructuralAt
    <2> QED BY <1>g, <1>r, <2>1
  <1>3. ASSUME NEW o \in Ops, Prepare(o) PROVE Kept
    <2> DEFINE r == [op[o] EXCEPT !.held = queue.nextTurn,
                                  !.at = IF queue.nextTurn = <<>> THEN "starting"
                                         ELSE "announcingNext"]
    <2>1. queue.nextTurn \in Seq(Messages) BY DEF TypeOK, Queues
    <2>2. {"starting", "announcingNext"} \subseteq Labels BY DEF Labels, Loop
    <2>3. r \in OpType BY <1>r, <2>1, <2>2, ZenonT(60) DEF OpType
    <2>4. FormOf(r) BY <1>r DEF FormOf, OpType, StructuralAt
    <2>5. op' = [op EXCEPT ![o] = r] BY <1>3 DEF Prepare
    <2> QED BY <1>a, <2>3, <2>4, <2>5
  <1>4. ASSUME NEW o \in Ops, PrepareFails(o) \/ AnnounceNextFails(o) \/ StartLoopFails(o) PROVE Kept
    BY <1>4, <1>e DEF PrepareFails, AnnounceNextFails, StartLoopFails
  <1>5. ASSUME NEW o \in Ops, AnnounceNext(o) \/ InjectDone(o) \/ Request(o) \/ Snapshot(o)
                              \/ GoIdle(o) \/ StopHere(o)
        PROVE Kept
    <2>1. \E label \in {"starting", "polling", "requesting", "streaming", "settling", "unwinding"} :
             Goto(o, label)
      BY <1>5 DEF AnnounceNext, InjectDone, Request, Snapshot, GoIdle, StopHere
    <2>2. {"starting", "polling", "requesting", "streaming", "settling", "unwinding"} \subseteq
            Labels \ ({"off", "done", "flushing", "asking", "rethrowing"} \cup StructuralAt)
      BY DEF Labels, Loop, StructuralAt
    <2> QED BY <1>b, <2>1, <2>2
  <1>6. ASSUME NEW o \in Ops, StartLoop(o) PROVE Kept
    <2> DEFINE r == [op[o] EXCEPT !.at = "prompting", !.reason = "toolUse", !.failing = FALSE]
    <2>0. "prompting" \in Labels BY DEF Labels, Loop
    <2>1. r \in OpType BY <1>r, <2>0, ZenonT(60) DEF OpType
    <2>2. FormOf(r) BY <1>r DEF FormOf, OpType, StructuralAt
    <2>3. op' = [op EXCEPT ![o] = r] BY <1>6 DEF StartLoop
    <2> QED BY <1>a, <2>1, <2>2, <2>3
  <1>7. ASSUME NEW o \in Ops, Inject(o) PROVE Kept
    <2> DEFINE r == [op[o] EXCEPT !.held = Tail(@)]
    <2>1. Tail(op[o].held) \in Seq(Messages)
      BY <1>7, <1>r, HeadTailProperties DEF Inject, OpType
    <2>2. r \in OpType BY <1>r, <2>1, ZenonT(60) DEF OpType
    <2>3. FormOf(r) BY <1>r, <1>7 DEF Inject, FormOf, OpType, StructuralAt
    <2>4. op' = [op EXCEPT ![o] = r] BY <1>7 DEF Inject
    <2> QED BY <1>a, <2>2, <2>3, <2>4
  <1>8. ASSUME NEW o \in Ops, NEW q \in {"steer", "followUp"}, Take(o, q) PROVE Kept
    <2> DEFINE r == [op[o] EXCEPT !.held = Drained(q), !.from = q, !.stale = FALSE,
                                  !.at = "announcing"]
    <2>1. queue[q] \in Seq(Messages) BY DEF TypeOK, Queues
    <2>2. Drained(q) \in Seq(Messages)
      <3>1. CASE AllAtOnce \/ queue[q] = <<>> BY <2>1, <3>1 DEF Drained
      <3>2. CASE ~(AllAtOnce \/ queue[q] = <<>>)
        <4>1. Head(queue[q]) \in Messages BY <2>1, <3>2, HeadTailProperties
        <4> QED BY <3>2, <4>1 DEF Drained
      <3> QED BY <3>1, <3>2
    <2>3. "announcing" \in Labels BY DEF Labels, Loop
    <2>4. r \in OpType BY <1>r, <2>2, <2>3, ZenonT(60) DEF OpType
    <2>5. FormOf(r) BY <1>r DEF FormOf, OpType, StructuralAt
    <2>6. op' = [op EXCEPT ![o] = r] BY <1>8 DEF Take
    <2> QED BY <1>a, <2>4, <2>5, <2>6
  <1>9. ASSUME NEW o \in Ops, Poll(o) PROVE Kept
    <2>1. {"requesting", "following"} \subseteq
            Labels \ ({"off", "done", "flushing", "asking", "rethrowing"} \cup StructuralAt)
      BY DEF Labels, Loop, StructuralAt
    <2> QED BY <1>9, <1>8, <1>b, <2>1 DEF Poll
  <1>10. ASSUME NEW o \in Ops,
                Follow(o) \/ TurnEnd(o) \/ Gate(o) \/ ReportFailure(o) \/ Rethrow(o)
         PROVE Kept
    <2>1. \/ Take(o, "followUp")
          \/ \E label \in Flushes : FlushThen(o, label)
      BY <1>10 DEF Follow, TurnEnd, Gate, ReportFailure, Rethrow, Flushes
    <2> QED BY <1>8, <1>c, <1>r, <2>1 DEF FlushThen
  <1>11. ASSUME NEW o \in Ops, Announce(o) PROVE Kept
    <2> DEFINE r == [op[o] EXCEPT !.at = "injecting", !.from = "steer", !.stale = FALSE]
    <2>1. "injecting" \in Labels BY DEF Labels, Loop
    <2>2. r \in OpType BY <1>r, <2>1, ZenonT(60) DEF OpType
    <2>3. FormOf(r) BY <1>r DEF FormOf, OpType, StructuralAt
    <2>4. op' = [op EXCEPT ![o] = r] BY <1>11 DEF Announce
    <2> QED BY <1>a, <2>2, <2>3, <2>4
  <1>12. ASSUME NEW o \in Ops, AnnounceFails(o) \/ AbortStream(o) \/ LoopFails(o) PROVE Kept
    BY <1>12, <1>d DEF AnnounceFails, AbortStream, LoopFails
  <1>13. ASSUME NEW o \in Ops, Respond(o) \/ RunTools(o) PROVE Kept
    <2>1. PICK why \in {"stop", "toolUse", "terminate", "error"}, label \in {"tools", "turnEnd"} :
             op' = [op EXCEPT ![o].reason = why, ![o].at = label]
      BY <1>13 DEF Respond, RunTools
    <2> DEFINE r == [op[o] EXCEPT !.reason = why, !.at = label]
    <2>2. label \in Labels BY DEF Labels, Loop
    <2>3. r \in OpType BY <1>r, <2>2, ZenonT(60) DEF OpType
    <2>4. FormOf(r) BY <1>r DEF FormOf, OpType, StructuralAt
    <2>5. op' = [op EXCEPT ![o] = r] BY <2>1
    <2> QED BY <1>a, <2>3, <2>4, <2>5
  <1>14. ASSUME NEW o \in Ops, FlushAppend(o) PROVE Kept
    <2> DEFINE r == [op[o] EXCEPT
                !.at = IF pending' = <<>> THEN op[o].resume ELSE "flushing",
                !.resume = IF pending' = <<>> THEN "cleanup" ELSE @,
                !.writing = IF pending' = <<>> THEN None ELSE Head(pending')]
    <2>1. pending' \in Seq(Writes)
      BY <1>14, EmptySeq, HeadTailProperties DEF FlushAppend, Shift, TypeOK
    <2>2. pending' # <<>> => Head(pending') \in Writes BY <2>1, HeadTailProperties
    <2>3. "flushing" \in Labels /\ Flushes \subseteq Labels /\ "cleanup" \in Flushes
      BY DEF Labels, Loop, Flushes
    <2>4. r \in OpType
      <3>1. op[o].resume \in Labels BY <1>r, <2>3 DEF OpType
      <3>2. PICK at \in Labels, resume \in Flushes, writing \in Writes \cup {None} :
               r = [op[o] EXCEPT !.at = at, !.resume = resume, !.writing = writing]
        <4>1. op[o].resume \in Flushes BY <1>r DEF OpType
        <4>2. CASE pending' = <<>> BY <2>3, <3>1, <4>2
        <4>3. CASE pending' # <<>> BY <2>2, <2>3, <4>1, <4>3
        <4> QED BY <4>2, <4>3
      <3> HIDE DEF r
      <3> QED BY <1>r, <3>2, ZenonT(60) DEF OpType
    <2>5. FormOf(r) BY <1>r, <2>2 DEF FormOf, OpType, StructuralAt, Flushes
    <2>6. op' = [op EXCEPT ![o] = r] BY <1>14 DEF FlushAppend
    <2> QED BY <1>a, <2>4, <2>5, <2>6
  <1>15. ASSUME NEW o \in Ops, FlushFails(o) PROVE Kept
    <2> DEFINE r == [op[o] EXCEPT !.at = "cleanup", !.threw = TRUE, !.writing = None]
    <2>1. CASE op[o].resume = "cleanup"
      <3>1. "cleanup" \in Labels BY DEF Labels
      <3>2. r \in OpType BY <1>r, <3>1, ZenonT(60) DEF OpType
      <3>3. FormOf(r) BY <1>r DEF FormOf, OpType, StructuralAt
      <3>4. op' = [op EXCEPT ![o] = r] BY <1>15, <2>1 DEF FlushFails
      <3> QED BY <1>a, <3>2, <3>3, <3>4
    <2>2. CASE op[o].resume # "cleanup"
      <3>1. op' = [op EXCEPT ![o] = Thrown(@)] BY <1>15, <2>2 DEF FlushFails
      <3> QED BY <1>d, <3>1
    <2> QED BY <2>1, <2>2
  <1>16. ASSUME NEW o \in Ops, Settle(o) PROVE Kept
    <2> DEFINE r == [op[o] EXCEPT !.threw = trip]
    <2>1. r \in OpType
      <3>1. trip \in BOOLEAN BY DEF TypeOK
      <3>2. PICK b \in BOOLEAN : r = [op[o] EXCEPT !.threw = b] BY <3>1
      <3> HIDE DEF r
      <3> QED BY <1>r, <3>2 DEF OpType
    <2>2. op' = [op EXCEPT ![o] = Flushing(r, "cleanup")] BY <1>16 DEF Settle
    <2>3. "cleanup" \in Flushes BY DEF Flushes
    <2> HIDE DEF r
    <2> QED BY <1>c, <2>1, <2>2, <2>3
  <1>17. ASSUME NEW o \in Ops, Cleanup(o) PROVE Kept
    <2>1. "unwinding" \in Labels \ ({"off", "done", "flushing", "asking", "rethrowing"} \cup StructuralAt)
      BY DEF Labels, StructuralAt
    <2>2. CASE Goto(o, "unwinding") BY <1>b, <2>1, <2>2
    <2>3. CASE Hook /\ op[o].cycles < ContinuationCap /\ Goto(o, "asking")
      <3> DEFINE r == [op[o] EXCEPT !.at = "asking"]
      <3>1. "asking" \in Labels BY DEF Labels
      <3>2. r \in OpType BY <1>r, <3>1 DEF OpType
      <3>3. FormOf(r) BY <1>r, <2>3 DEF FormOf, OpType, StructuralAt
      <3> QED BY <1>a, <2>3, <3>2, <3>3 DEF Goto
    <2> QED BY <1>17, <2>2, <2>3 DEF Cleanup
  <1>18. ASSUME NEW o \in Ops, ContinueTurn(o) PROVE Kept
    <2> DEFINE r == [op[o] EXCEPT !.cycles = @ + 1,
                                  !.at = IF OverCap THEN "unwinding" ELSE "preparing",
                                  !.threw = OverCap]
    <2>1. op[o].at = "asking" BY <1>18 DEF ContinueTurn
    <2>2. op[o].cycles + 1 \in 0..ContinuationCap
      BY <1>r, <2>1 DEF FormOf, OpType
    <2>3. {"unwinding", "preparing"} \subseteq Labels BY DEF Labels
    <2>4. PICK b \in BOOLEAN, label \in {"unwinding", "preparing"} :
             r = [op[o] EXCEPT !.cycles = @ + 1, !.at = label, !.threw = b]
      BY DEF OverCap
    <2>5. op' = [op EXCEPT ![o] = r] BY <1>18 DEF ContinueTurn
    <2> HIDE DEF r
    <2>6. r \in OpType BY <1>r, <2>2, <2>3, <2>4, ZenonT(60) DEF OpType
    <2>7. FormOf(r) BY <1>r, <2>4 DEF FormOf, OpType, StructuralAt
    <2> QED BY <1>a, <2>5, <2>6, <2>7
  <1>19. ASSUME NEW o \in Ops, Finish(o) PROVE Kept
    <2> DEFINE r == [Fresh EXCEPT !.at = "done"]
    <2>1. "done" \in Labels BY DEF Labels
    <2>2. r \in OpType BY <2>1, FreshType DEF OpType
    <2>3. FormOf(r) BY DEF FormOf, Fresh, StructuralAt
    <2> QED BY <1>a, <1>19, <2>2, <2>3 DEF Finish
  <1>20. ASSUME Abort PROVE Kept
    <2>1. \A o \in Ops : op'[o] = [op[o] EXCEPT !.stale = @ \/ op[o].at = "announcing"]
      BY <1>20 DEF Abort
    <2>2. ASSUME NEW o \in Ops PROVE op'[o] \in OpType /\ FormOf(op'[o])
      <3>1. PICK b \in BOOLEAN : op'[o] = [op[o] EXCEPT !.stale = b] BY <2>1
      <3>2. op'[o] \in OpType BY <1>r, <3>1 DEF OpType
      <3>3. FormOf(op'[o]) BY <1>r, <3>1 DEF OpType, FormOf, StructuralAt
      <3> QED BY <3>2, <3>3
    <2>3. op' = [o \in Ops |-> op'[o]] BY <1>20 DEF Abort
    <2>4. OpTyped' BY <2>2, <2>3 DEF OpTyped
    <2> QED BY <2>2, <2>4 DEF FormInv
  <1>21. ASSUME NEW q \in Sends, Send(q) PROVE Kept BY <1>21, <1>f DEF Send
  <1>22. ASSUME NEW c \in Callers, NEW kind \in WriteKinds, WriteIdle(c, kind) \/ WriteBusy(c, kind)
         PROVE Kept
    BY <1>22, <1>f DEF WriteIdle, WriteBusy
  <1>23. ASSUME NEW c \in Callers, CommitIdle(c) \/ WriteIdleFails(c) PROVE Kept
    BY <1>23, <1>f DEF CommitIdle, WriteIdleFails
  <1>24. CASE ResetCost \/ UNCHANGED vars BY <1>24, <1>f DEF ResetCost, vars
  <1> QED
    BY <1>1, <1>2, <1>3, <1>4, <1>5, <1>6, <1>7, <1>9, <1>10, <1>11, <1>12, <1>13, <1>14, <1>15,
       <1>16, <1>17, <1>18, <1>19, <1>20, <1>21, <1>22, <1>23, <1>24
    DEF Next, Advance, Break

-----------------------------------------------------------------------------
(* The other conjuncts of TypeOK, grouped as the actions leave them unchanged. *)
RunTyped ==
    /\ phase \in Phases /\ runPromise \in Ops \cup {None} /\ controller \in Ops \cup {None}
    /\ trip \in BOOLEAN

QueueTyped == DOMAIN queue = Queues /\ \A q \in Queues : queue[q] \in Seq(Messages)

WriteTyped ==
    /\ pending \in Seq(Writes) /\ session \in Seq(Writes \cup Messages)
    /\ model \in 0..MaxWrites /\ branchModel \in 0..MaxWrites /\ written \in 0..MaxWrites
    /\ DOMAIN writer = Callers /\ \A c \in Callers : writer[c] \in Writes \cup {None}
    /\ refused \subseteq Writes

CountTyped == spent \in 0..Cap /\ sent \in 0..MaxMessages /\ failures \in 0..MaxFailures

SetTyped ==
    /\ aborted \subseteq Ops /\ asked \subseteq Ops
    /\ cleared \subseteq Messages /\ dropped \subseteq Messages

LEMMA TypeParts ==
    ASSUME OpTyped
    PROVE  TypeOK <=> RunTyped /\ QueueTyped /\ WriteTyped /\ CountTyped /\ SetTyped
  BY DEF OpTyped, TypeOK, RunTyped, QueueTyped, WriteTyped, CountTyped, SetTyped

LEMMA SameTyped ==
    /\ RunTyped /\ UNCHANGED <<phase, runPromise, controller, trip>> => RunTyped'
    /\ QueueTyped /\ UNCHANGED queue => QueueTyped'
    /\ WriteTyped /\ UNCHANGED <<pending, model, store, writer, written, refused>> => WriteTyped'
    /\ CountTyped /\ UNCHANGED <<spent, sent, failures>> => CountTyped'
    /\ SetTyped /\ UNCHANGED <<aborted, asked, cleared, dropped>> => SetTyped'
  <1>1. RunTyped /\ UNCHANGED <<phase, runPromise, controller, trip>> => RunTyped' BY DEF RunTyped
  <1>2. QueueTyped /\ UNCHANGED queue => QueueTyped' BY DEF QueueTyped
  <1>3. WriteTyped /\ UNCHANGED <<pending, model, store, writer, written, refused>> => WriteTyped'
    BY DEF WriteTyped, store
  <1>4. CountTyped /\ UNCHANGED <<spent, sent, failures>> => CountTyped' BY DEF CountTyped
  <1>5. SetTyped /\ UNCHANGED <<aborted, asked, cleared, dropped>> => SetTyped' BY DEF SetTyped
  <1> QED BY <1>1, <1>2, <1>3, <1>4, <1>5

LEMMA FailsType == ASSUME CountTyped, Fails PROVE failures' \in 0..MaxFailures
  BY HarnessAssumption DEF CountTyped, Fails

LEMMA HeldType ==
    ASSUME OpTyped, NEW o \in Ops
    PROVE  op[o].held \in Seq(Messages) /\ ToSet(op[o].held) \subseteq Messages
  <1>1. op[o].held \in Seq(Messages) BY DEF OpTyped, OpType
  <1>2. \A k \in DOMAIN op[o].held : op[o].held[k] \in Messages BY <1>1, ElementOfSeq
  <1> QED BY <1>1, <1>2 DEF ToSet

LEMMA TypeStep ==
    ASSUME TypeOK, OpTyped, FormInv, [Next]_vars, OpTyped' PROVE TypeOK'
  <1> USE HarnessAssumption
  <1>0. RunTyped /\ QueueTyped /\ WriteTyped /\ CountTyped /\ SetTyped BY TypeParts
  <1> SUFFICES RunTyped' /\ QueueTyped' /\ WriteTyped' /\ CountTyped' /\ SetTyped'
    <2>1. OpTyped' => (TypeOK' <=> RunTyped' /\ QueueTyped' /\ WriteTyped' /\ CountTyped' /\ SetTyped')
      BY DEF OpTyped, TypeOK, RunTyped, QueueTyped, WriteTyped, CountTyped, SetTyped
    <2> QED BY <2>1
  <1>1. ASSUME UNCHANGED <<harness, aborted, store, env, history>> PROVE RunTyped' /\ QueueTyped' /\ WriteTyped' /\ CountTyped' /\ SetTyped'
    BY <1>0, <1>1, SameTyped DEF harness, env, history
  <1>2. ASSUME NEW o \in Ops, Prompt(o) \/ PromptOverCap(o) \/ StartStructural(o)
                              \/ EndStructural(o) \/ GoIdle(o) \/ Settle(o)
        PROVE RunTyped' /\ QueueTyped' /\ WriteTyped' /\ CountTyped' /\ SetTyped'
    <2>1. RunTyped'
      BY <1>0, <1>2 DEF Prompt, PromptOverCap, StartStructural, EndStructural, GoIdle, Settle,
                        RunTyped, Phases
    <2>2. UNCHANGED <<queue, pending, model, spent, aborted, store, env, history>>
      BY <1>2 DEF Prompt, PromptOverCap, StartStructural, EndStructural, GoIdle, Settle
    <2> QED BY <1>0, <2>1, <2>2, SameTyped DEF env, history
  <1>3. ASSUME NEW o \in Ops, NavigateTree(o) PROVE RunTyped' /\ QueueTyped' /\ WriteTyped' /\ CountTyped' /\ SetTyped'
    <2>1. RunTyped' BY <1>0, <1>3 DEF NavigateTree, RunTyped, Phases
    <2>2. PICK m \in {0} \cup {w.id : w \in {x \in ToSet(session) : x.kind = "model"}} :
             branchModel' = m /\ model' = IF m = 0 THEN model ELSE m
      BY <1>3 DEF NavigateTree
    <2>3. m \in 0..MaxWrites
      <3>1. ASSUME NEW x \in ToSet(session), x.kind = "model" PROVE x.id \in 0..MaxWrites
        <4>1. x \in Writes \cup Messages BY <1>0, <3>1, ElementOfSeq DEF ToSet, WriteTyped
        <4> QED BY <3>1, <4>1 DEF Writes, Messages
      <3> QED BY <2>2, <3>1
    <2>4. WriteTyped' BY <1>0, <1>3, <2>2, <2>3 DEF NavigateTree, WriteTyped, env, history
    <2> QED BY <1>0, <1>3, <2>1, <2>4, SameTyped DEF NavigateTree, env, history
  <1>4. ASSUME NEW o \in Ops, Prepare(o) PROVE RunTyped' /\ QueueTyped' /\ WriteTyped' /\ CountTyped' /\ SetTyped'
    <2>1. QueueTyped' BY <1>0, <1>4, EmptySeq DEF Prepare, QueueTyped
    <2> QED BY <1>0, <1>4, <2>1, SameTyped DEF Prepare, env, history
  <1>5. ASSUME NEW o \in Ops, PrepareFails(o) \/ FlushFails(o) PROVE RunTyped' /\ QueueTyped' /\ WriteTyped' /\ CountTyped' /\ SetTyped'
    <2>1. CountTyped' BY <1>0, <1>5, FailsType DEF PrepareFails, FlushFails, CountTyped, harness
    <2> QED BY <1>0, <1>5, <2>1, SameTyped DEF PrepareFails, FlushFails, harness, history
  <1>6. ASSUME NEW o \in Ops, AnnounceNextFails(o) PROVE RunTyped' /\ QueueTyped' /\ WriteTyped' /\ CountTyped' /\ SetTyped'
    <2>1. CountTyped' BY <1>0, <1>6, FailsType DEF AnnounceNextFails, CountTyped
    <2>2. op[o].held \o queue.nextTurn \in Seq(Messages)
      BY <1>0, HeldType, ConcatProperties DEF QueueTyped, Queues
    <2>3. QueueTyped' BY <1>0, <1>6, <2>2 DEF AnnounceNextFails, QueueTyped
    <2> QED BY <1>0, <1>6, <2>1, <2>3, SameTyped DEF AnnounceNextFails, history
  <1>7. ASSUME NEW o \in Ops, StartLoop(o) PROVE RunTyped' /\ QueueTyped' /\ WriteTyped' /\ CountTyped' /\ SetTyped'
    <2>1. RunTyped' BY <1>0, <1>7 DEF StartLoop, RunTyped
    <2>2. SetTyped' BY <1>0, <1>7 DEF StartLoop, SetTyped, history
    <2> QED BY <1>0, <1>7, <2>1, <2>2, SameTyped DEF StartLoop, env, history
  <1>8. ASSUME NEW o \in Ops, StartLoopFails(o) \/ LoopFails(o) PROVE RunTyped' /\ QueueTyped' /\ WriteTyped' /\ CountTyped' /\ SetTyped'
    <2>1. CountTyped' BY <1>0, <1>8, FailsType DEF StartLoopFails, LoopFails, CountTyped, harness
    <2>2. SetTyped' BY <1>0, <1>8, HeldType DEF StartLoopFails, LoopFails, Drop, SetTyped
    <2> QED BY <1>0, <1>8, <2>1, <2>2, SameTyped DEF StartLoopFails, LoopFails, harness
  <1>9. ASSUME NEW o \in Ops, Inject(o) PROVE RunTyped' /\ QueueTyped' /\ WriteTyped' /\ CountTyped' /\ SetTyped'
    <2>1. Head(op[o].held) \in Messages BY <1>9, HeldType, HeadTailProperties DEF Inject
    <2>2. Append(session, Head(op[o].held)) \in Seq(Writes \cup Messages)
      BY <1>0, <2>1, AppendProperties DEF WriteTyped
    <2>3. WriteTyped' BY <1>0, <1>9, <2>2 DEF Inject, WriteTyped, harness, env, history
    <2> QED BY <1>0, <1>9, <2>3, SameTyped DEF Inject, harness, env, history
  <1>10. ASSUME NEW o \in Ops, NEW q \in {"steer", "followUp"}, Take(o, q) PROVE QueueTyped'
    <2>0. queue[q] \in Seq(Messages) BY <1>0 DEF QueueTyped, Queues
    <2>1. Len(Drained(q)) \in Nat
      <3>1. CASE AllAtOnce \/ queue[q] = <<>> BY <2>0, <3>1, LenProperties DEF Drained
      <3>2. CASE ~(AllAtOnce \/ queue[q] = <<>>) BY <3>2 DEF Drained
      <3> QED BY <3>1, <3>2
    <2>2. SubSeq(queue[q], Len(Drained(q)) + 1, Len(queue[q])) \in Seq(Messages)
      BY <2>0, <2>1
    <2> QED BY <1>0, <1>10, <2>2 DEF Take, QueueTyped
  <1>11. ASSUME NEW o \in Ops, Poll(o) \/ Follow(o) PROVE RunTyped' /\ QueueTyped' /\ WriteTyped' /\ CountTyped' /\ SetTyped'
    <2>1. QueueTyped' BY <1>0, <1>10, <1>11, SameTyped DEF Poll, Follow
    <2> QED BY <1>0, <1>11, <2>1, SameTyped DEF Poll, Follow, env, history
  <1>12. ASSUME NEW o \in Ops, AnnounceFails(o) PROVE RunTyped' /\ QueueTyped' /\ WriteTyped' /\ CountTyped' /\ SetTyped'
    <2>1. CountTyped' BY <1>0, <1>12, FailsType DEF AnnounceFails, CountTyped
    <2>2. op[o].from \in Queues BY DEF OpTyped, OpType, Queues
    <2>3. op[o].held \o queue[op[o].from] \in Seq(Messages)
      BY <1>0, <2>2, HeldType, ConcatProperties DEF QueueTyped
    <2>4. QueueTyped' BY <1>0, <1>12, <2>3 DEF AnnounceFails, QueueTyped
    <2>5. SetTyped' BY <1>0, <1>12, HeldType DEF AnnounceFails, Drop, SetTyped
    <2> QED BY <1>0, <1>12, <2>1, <2>4, <2>5, SameTyped DEF AnnounceFails
  <1>13. ASSUME NEW o \in Ops, Respond(o) PROVE RunTyped' /\ QueueTyped' /\ WriteTyped' /\ CountTyped' /\ SetTyped'
    <2>1. CountTyped' BY <1>0, <1>13 DEF Respond, CountTyped, env
    <2> QED BY <1>0, <1>13, <2>1, SameTyped DEF Respond, env, history
  <1>14. ASSUME NEW o \in Ops, Gate(o) PROVE RunTyped' /\ QueueTyped' /\ WriteTyped' /\ CountTyped' /\ SetTyped'
    <2>1. RunTyped' BY <1>0, <1>14 DEF Gate, RunTyped
    <2> QED BY <1>0, <1>14, <2>1, SameTyped DEF Gate, env, history
  <1>p. ASSUME NEW w \in Writes, Persist(w)
        PROVE  session' \in Seq(Writes \cup Messages) /\ branchModel' \in 0..MaxWrites
    <2>1. session' \in Seq(Writes \cup Messages)
      BY <1>0, <1>p, AppendProperties DEF Persist, WriteTyped
    <2>2. w.id \in 0..MaxWrites BY DEF Writes
    <2> QED BY <1>0, <1>p, <2>1, <2>2 DEF Persist, WriteTyped
  <1>15. ASSUME NEW o \in Ops, FlushAppend(o) PROVE RunTyped' /\ QueueTyped' /\ WriteTyped' /\ CountTyped' /\ SetTyped'
    <2>1. op[o].writing \in Writes BY <1>15 DEF FlushAppend, FormInv, FormOf
    <2>2. pending' \in Seq(Writes)
      BY <1>0, <1>15, HeadTailProperties DEF FlushAppend, Shift, WriteTyped
    <2>3. session' \in Seq(Writes \cup Messages) /\ branchModel' \in 0..MaxWrites
      BY <1>15, <1>p, <2>1 DEF FlushAppend
    <2>4. WriteTyped' BY <1>0, <1>15, <2>2, <2>3 DEF FlushAppend, WriteTyped, env, history
    <2> QED BY <1>0, <1>15, <2>4, SameTyped DEF FlushAppend, env, history
  <1>16. ASSUME NEW o \in Ops, Cleanup(o) \/ Finish(o) PROVE RunTyped' /\ QueueTyped' /\ WriteTyped' /\ CountTyped' /\ SetTyped'
    <2>1. RunTyped' BY <1>0, <1>16 DEF Cleanup, Finish, RunTyped, Phases
    <2>2. SetTyped' BY <1>0, <1>16 DEF Cleanup, Finish, SetTyped, history
    <2> QED BY <1>0, <1>16, <2>1, <2>2, SameTyped DEF Cleanup, Finish, env, history
  <1>17. ASSUME NEW q \in Sends, Send(q) PROVE RunTyped' /\ QueueTyped' /\ WriteTyped' /\ CountTyped' /\ SetTyped'
    <2>1. CountTyped' BY <1>0, <1>17 DEF Send, CountTyped
    <2>2. [id |-> sent', kind |-> "user"] \in Messages BY <1>0, <1>17 DEF Send, Messages, CountTyped
    <2>3. q \in Queues BY DEF Queues
    <2>4. Append(queue[q], [id |-> sent', kind |-> "user"]) \in Seq(Messages)
      BY <1>0, <2>2, <2>3, AppendProperties DEF QueueTyped
    <2>5. QueueTyped' BY <1>0, <1>17, <2>4 DEF Send, QueueTyped
    <2> QED BY <1>0, <1>17, <2>1, <2>5, SameTyped DEF Send, history
  <1>w. ASSUME NEW kind \in WriteKinds, NEW queued \in BOOLEAN,
               written < MaxWrites, written' = written + 1
        PROVE  /\ written' \in 0..MaxWrites
               /\ [id |-> written', kind |-> kind, queued |-> queued] \in Writes
    BY <1>0, <1>w DEF WriteTyped, Writes
  <1>18. ASSUME NEW c \in Callers, NEW kind \in WriteKinds, WriteIdle(c, kind) PROVE RunTyped' /\ QueueTyped' /\ WriteTyped' /\ CountTyped' /\ SetTyped'
    <2>1. written' \in 0..MaxWrites /\ [id |-> written', kind |-> kind, queued |-> FALSE] \in Writes
      BY <1>18, <1>w DEF WriteIdle
    <2>2. WriteTyped' BY <1>0, <1>18, <2>1 DEF WriteIdle, WriteTyped, harness, store, history
    <2> QED BY <1>0, <1>18, <2>2, SameTyped DEF WriteIdle, harness, history
  <1>19. ASSUME NEW c \in Callers, NEW kind \in WriteKinds, WriteBusy(c, kind) PROVE RunTyped' /\ QueueTyped' /\ WriteTyped' /\ CountTyped' /\ SetTyped'
    <2>1. written' \in 0..MaxWrites /\ [id |-> written', kind |-> kind, queued |-> TRUE] \in Writes
      BY <1>19, <1>w DEF WriteBusy
    <2>2. pending' \in Seq(Writes) BY <1>0, <1>19, <2>1, AppendProperties DEF WriteBusy, WriteTyped
    <2>3. WriteTyped' BY <1>0, <1>19, <2>1, <2>2 DEF WriteBusy, WriteTyped, store, history
    <2> QED BY <1>0, <1>19, <2>3, SameTyped DEF WriteBusy, history
  <1>20. ASSUME NEW c \in Callers, CommitIdle(c) PROVE RunTyped' /\ QueueTyped' /\ WriteTyped' /\ CountTyped' /\ SetTyped'
    <2>1. writer[c] \in Writes BY <1>0, <1>20 DEF CommitIdle, WriteTyped
    <2>2. session' \in Seq(Writes \cup Messages) /\ branchModel' \in 0..MaxWrites
      BY <1>20, <1>p, <2>1 DEF CommitIdle
    <2>3. model' \in 0..MaxWrites BY <1>0, <1>20, <2>1 DEF CommitIdle, WriteTyped, Writes
    <2>4. WriteTyped' BY <1>0, <1>20, <2>2, <2>3 DEF CommitIdle, WriteTyped, history
    <2> QED BY <1>0, <1>20, <2>4, SameTyped DEF CommitIdle, history
  <1>21. ASSUME NEW c \in Callers, WriteIdleFails(c) PROVE RunTyped' /\ QueueTyped' /\ WriteTyped' /\ CountTyped' /\ SetTyped'
    <2>1. writer[c] \in Writes BY <1>0, <1>21 DEF WriteIdleFails, WriteTyped
    <2>2. WriteTyped' BY <1>0, <1>21, <2>1 DEF WriteIdleFails, WriteTyped, harness, store
    <2>3. CountTyped' BY <1>0, <1>21, FailsType DEF WriteIdleFails, CountTyped, harness
    <2> QED BY <1>0, <1>21, <2>2, <2>3, SameTyped DEF WriteIdleFails, harness
  <1>22. ASSUME Abort PROVE RunTyped' /\ QueueTyped' /\ WriteTyped' /\ CountTyped' /\ SetTyped'
    <2>1. QueueTyped' BY <1>0, <1>22, EmptySeq DEF Abort, QueueTyped
    <2>2. \A q \in Queues : ToSet(queue[q]) \subseteq Messages
      BY <1>0, ElementOfSeq DEF QueueTyped, ToSet
    <2>3. SetTyped' BY <1>0, <1>22, <2>2 DEF Abort, SetTyped, RunTyped, Queues
    <2> QED BY <1>0, <1>22, <2>1, <2>3, SameTyped DEF Abort, env
  <1>23. ASSUME ResetCost PROVE RunTyped' /\ QueueTyped' /\ WriteTyped' /\ CountTyped' /\ SetTyped'
    <2>1. CountTyped' BY <1>0, <1>23 DEF ResetCost, CountTyped, env
    <2> QED BY <1>0, <1>23, <2>1, SameTyped DEF ResetCost, env, history
  <1>24. CASE UNCHANGED vars BY <1>1, <1>24 DEF vars
  <1>25. ASSUME NEW o \in Ops,
                \/ AnnounceNext(o) \/ InjectDone(o) \/ Announce(o) \/ Request(o) \/ AbortStream(o)
                \/ RunTools(o) \/ TurnEnd(o) \/ Snapshot(o) \/ ReportFailure(o) \/ Rethrow(o)
                \/ StopHere(o) \/ ContinueTurn(o)
         PROVE RunTyped' /\ QueueTyped' /\ WriteTyped' /\ CountTyped' /\ SetTyped'
    BY <1>1, <1>25 DEF AnnounceNext, InjectDone, Announce, Request, AbortStream, RunTools, TurnEnd,
                       Snapshot, ReportFailure, Rethrow, StopHere, ContinueTurn
  <1> QED
    BY <1>2, <1>3, <1>4, <1>5, <1>6, <1>7, <1>8, <1>9, <1>11, <1>12, <1>13, <1>14, <1>15, <1>16,
       <1>17, <1>18, <1>19, <1>20, <1>21, <1>22, <1>23, <1>24, <1>25
    DEF Next, Advance, Break

-----------------------------------------------------------------------------
(* The steps of the turn loop between its start and its cleanup, except the *)
(* ones that touch the phase: they keep the operation in charge.            *)
LoopStep(o) ==
    \/ Inject(o) \/ InjectDone(o) \/ Poll(o) \/ Follow(o) \/ Announce(o) \/ AnnounceFails(o)
    \/ Request(o) \/ Respond(o) \/ AbortStream(o) \/ RunTools(o) \/ TurnEnd(o) \/ Gate(o)
    \/ Snapshot(o) \/ LoopFails(o) \/ FlushAppend(o) \/ FlushFails(o) \/ ReportFailure(o)
    \/ Rethrow(o)

RunningAt(r) ==
    \/ r.at \in Loop \ {"goIdle", "settling", "reporting"}
    \/ r.at = "flushing" /\ r.resume \in {"gate", "snapshot"}

LEMMA LoopEffect ==
    ASSUME TypeOK, OpTyped, FormInv, NEW o \in Ops, LoopStep(o)
    PROVE  /\ UNCHANGED <<phase, runPromise, controller>>
           /\ \A p \in Ops \ {o} : op'[p] = op[p]
           /\ op[o].at \in Controlled /\ op'[o].at \in Controlled \ {"settling"}
           /\ Cleaning(op'[o]) => op'[o].threw \/ (Cleaning(op[o]) /\ op'[o].threw = op[o].threw)
           /\ RunningAt(op'[o]) => RunningAt(op[o])
  <1> DEFINE Effect ==
        /\ UNCHANGED <<phase, runPromise, controller>>
        /\ \A p \in Ops \ {o} : op'[p] = op[p]
        /\ op[o].at \in Controlled /\ op'[o].at \in Controlled \ {"settling"}
        /\ Cleaning(op'[o]) => op'[o].threw \/ (Cleaning(op[o]) /\ op'[o].threw = op[o].threw)
        /\ RunningAt(op'[o]) => RunningAt(op[o])
  <1>r. op[o] \in OpType /\ FormOf(op[o]) BY DEF OpTyped, FormInv
  <1>0. \A r : op' = [op EXCEPT ![o] = r] => Becomes(o, r)
    BY DEF OpTyped, Becomes
  <1>a. ASSUME NEW label \in Loop \ {"goIdle", "settling"}, NEW r \in OpType, Becomes(o, r), r.at = label,
               RunningAt(op[o]), UNCHANGED <<phase, runPromise, controller>>
        PROVE  Effect
    BY <1>a DEF Becomes, RunningAt, Controlled, Loop, Cleaning
  <1>t. ASSUME op[o].at \in Controlled, op' = [op EXCEPT ![o] = Thrown(@)],
               UNCHANGED <<phase, runPromise, controller>>
        PROVE  Effect
    <2>1. Becomes(o, Thrown(op[o])) BY <1>t, <1>0
    <2>2. Thrown(op[o]).at \in {"rethrowing", "reporting"} BY <1>r, ThrownType
    <2> QED BY <1>t, <2>1, <2>2 DEF Becomes, RunningAt, Controlled, Loop, Cleaning
  <1>f. ASSUME op[o].at \in Controlled, NEW label \in Flushes, FlushThen(o, label),
               label \in {"gate", "snapshot"} => RunningAt(op[o]),
               label = "cleanup" => op[o].threw,
               UNCHANGED <<phase, runPromise, controller>>
        PROVE  Effect
    <2> DEFINE r == Flushing(op[o], label)
    <2>1. Becomes(o, r) BY <1>f, FlushUpdate
    <2>2. r.at = label \/ (r.at = "flushing" /\ r.resume = label) BY <1>r, FlushingType
    <2>3. r.threw = op[o].threw BY <1>r, FlushingType
    <2> HIDE DEF r
    <2> QED BY <1>f, <2>1, <2>2, <2>3 DEF Becomes, RunningAt, Controlled, Loop, Cleaning, Flushes
  <1>g. ASSUME NEW label \in Loop \ {"goIdle", "settling"}, Goto(o, label), RunningAt(op[o]),
               UNCHANGED <<phase, runPromise, controller>>
        PROVE  Effect
    <2>1. label \in Labels BY DEF Labels
    <2>2. Becomes(o, [op[o] EXCEPT !.at = label]) BY <1>g, <2>1, GotoUpdate
    <2>3. [op[o] EXCEPT !.at = label] \in OpType /\ [op[o] EXCEPT !.at = label].at = label
      BY <1>r, <2>1 DEF OpType
    <2> QED BY <1>a, <1>g, <2>2, <2>3
  <1>1. ASSUME Inject(o) PROVE Effect
    <2>1. Becomes(o, [op[o] EXCEPT !.held = Tail(@)]) BY <1>1, <1>0 DEF Inject
    <2>2. op'[o].at = op[o].at BY <1>r, <2>1 DEF Becomes, OpType
    <2> QED BY <1>1, <2>1, <2>2 DEF Inject, harness, Becomes, RunningAt, Controlled, Loop, Cleaning
  <1>2. ASSUME InjectDone(o) \/ Request(o) \/ Snapshot(o) PROVE Effect
    <2>1. /\ \E label \in {"polling", "requesting", "streaming"} : Goto(o, label)
          /\ op[o].at \in {"prompting", "injecting", "requesting", "snapshot"}
          /\ UNCHANGED <<phase, runPromise, controller>>
      BY <1>2 DEF InjectDone, Request, Snapshot, harness
    <2> QED BY <1>g, <2>1 DEF Loop, RunningAt
  <1>k. ASSUME NEW q \in {"steer", "followUp"}, Take(o, q), RunningAt(op[o]),
               UNCHANGED <<phase, runPromise, controller>>
        PROVE Effect
    <2>1. \E r : Becomes(o, r) /\ r.at = "announcing"
      <3> DEFINE r == [op[o] EXCEPT !.held = Drained(q), !.from = q, !.stale = FALSE,
                                    !.at = "announcing"]
      <3>1. Becomes(o, r) BY <1>k, <1>0 DEF Take
      <3>2. r.at = "announcing" BY <1>r DEF OpType
      <3> QED BY <3>1, <3>2
    <2> QED BY <1>k, <2>1 DEF Becomes, RunningAt, Controlled, Loop, Cleaning
  <1>3. ASSUME Poll(o) PROVE Effect
    <2>1. RunningAt(op[o]) /\ UNCHANGED <<phase, runPromise, controller>>
      BY <1>3 DEF Poll, RunningAt, Loop
    <2>2. CASE Take(o, "steer") BY <1>k, <2>1, <2>2
    <2>3. CASE \E label \in {"requesting", "following"} : Goto(o, label)
      BY <1>g, <2>1, <2>3 DEF Loop
    <2> QED BY <1>3, <2>2, <2>3 DEF Poll
  <1>4. ASSUME Follow(o) PROVE Effect
    <2>1. RunningAt(op[o]) /\ op[o].at \in Controlled /\ UNCHANGED <<phase, runPromise, controller>>
      BY <1>4 DEF Follow, RunningAt, Controlled, Loop
    <2> QED BY <1>4, <1>f, <1>k, <2>1 DEF Follow, Flushes
  <1>5. ASSUME Announce(o) PROVE Effect
    <2> DEFINE r == [op[o] EXCEPT !.at = "injecting", !.from = "steer", !.stale = FALSE]
    <2>1. Becomes(o, r) BY <1>5, <1>0 DEF Announce
    <2>2. r.at = "injecting" BY <1>r DEF OpType
    <2> QED BY <1>5, <2>1, <2>2 DEF Announce, harness, Becomes, RunningAt, Controlled, Loop, Cleaning
  <1>6. ASSUME AnnounceFails(o) \/ AbortStream(o) \/ LoopFails(o) PROVE Effect
    BY <1>6, <1>t DEF AnnounceFails, AbortStream, LoopFails, harness, Controlled, Loop
  <1>7. ASSUME Respond(o) \/ RunTools(o) PROVE Effect
    <2>1. PICK why \in {"stop", "toolUse", "terminate", "error"}, label \in {"tools", "turnEnd"} :
             op' = [op EXCEPT ![o].reason = why, ![o].at = label]
      BY <1>7 DEF Respond, RunTools
    <2> DEFINE r == [op[o] EXCEPT !.reason = why, !.at = label]
    <2>2. op' = [op EXCEPT ![o] = r] BY <2>1
    <2>3. Becomes(o, r) BY <1>0, <2>2
    <2>4. r.at = label BY <1>r DEF OpType
    <2> QED BY <1>7, <2>3, <2>4
      DEF Respond, RunTools, harness, Becomes, RunningAt, Controlled, Loop, Cleaning
  <1>8. ASSUME TurnEnd(o) \/ Gate(o) PROVE Effect
    <2>1. /\ op[o].at \in {"turnEnd", "gate"}
          /\ UNCHANGED <<phase, runPromise, controller>>
          /\ \E label \in {"gate", "snapshot", "goIdle"} : FlushThen(o, label)
      BY <1>8 DEF TurnEnd, Gate, harness
    <2> QED BY <1>f, <2>1 DEF RunningAt, Controlled, Loop, Flushes
  <1>9. ASSUME ReportFailure(o) \/ Rethrow(o) PROVE Effect
    <2>1. op[o].at = "rethrowing" => op[o].threw BY <1>r DEF FormOf
    <2>2. /\ op[o].at \in {"reporting", "rethrowing"}
          /\ UNCHANGED <<phase, runPromise, controller>>
          /\ \E label \in {"goIdle", "cleanup"} :
                FlushThen(o, label) /\ (label = "cleanup" => op[o].threw)
      BY <1>9, <2>1 DEF ReportFailure, Rethrow, harness
    <2> QED BY <1>f, <2>2 DEF Controlled, Loop, Flushes
  <1>10. ASSUME FlushAppend(o) PROVE Effect
    <2> DEFINE r == [op[o] EXCEPT
                !.at = IF pending' = <<>> THEN op[o].resume ELSE "flushing",
                !.resume = IF pending' = <<>> THEN "cleanup" ELSE @,
                !.writing = IF pending' = <<>> THEN None ELSE Head(pending')]
    <2>1. op' = [op EXCEPT ![o] = r] BY <1>10 DEF FlushAppend
    <2>2. Becomes(o, r) BY <1>0, <2>1
    <2>3. op[o].resume \in Flushes BY <1>r DEF OpType
    <2>4. /\ r.threw = op[o].threw
          /\ \/ r.at = op[o].resume
             \/ r.at = "flushing" /\ r.resume = op[o].resume
      BY <1>r DEF OpType
    <2>5. op[o].at = "flushing" /\ UNCHANGED <<phase, runPromise, controller>>
      BY <1>10 DEF FlushAppend
    <2> HIDE DEF r
    <2> QED BY <2>2, <2>3, <2>4, <2>5
      DEF Becomes, RunningAt, Controlled, Loop, Cleaning, Flushes
  <1>11. ASSUME FlushFails(o) PROVE Effect
    <2>1. op[o].at = "flushing" /\ UNCHANGED <<phase, runPromise, controller>>
      BY <1>11 DEF FlushFails, harness
    <2>2. CASE op[o].resume = "cleanup"
      <3> DEFINE r == [op[o] EXCEPT !.at = "cleanup", !.threw = TRUE, !.writing = None]
      <3>1. op' = [op EXCEPT ![o] = r] BY <1>11, <2>2 DEF FlushFails
      <3>2. Becomes(o, r) BY <1>0, <3>1
      <3>3. r.at = "cleanup" /\ r.threw BY <1>r DEF OpType
      <3> HIDE DEF r
      <3> QED BY <2>1, <3>2, <3>3 DEF Becomes, RunningAt, Controlled, Loop, Cleaning
    <2>3. CASE op[o].resume # "cleanup"
      <3>1. op' = [op EXCEPT ![o] = Thrown(@)] BY <1>11, <2>3 DEF FlushFails
      <3> QED BY <1>t, <2>1, <3>1 DEF Controlled
    <2> QED BY <2>2, <2>3
  <1> QED
    BY <1>1, <1>2, <1>3, <1>4, <1>5, <1>6, <1>7, <1>8, <1>9, <1>10, <1>11 DEF LoopStep

(* The steps before the loop. *)
StartStep(o) ==
    \/ Prepare(o) \/ PrepareFails(o) \/ AnnounceNext(o) \/ AnnounceNextFails(o)
    \/ StartLoopFails(o)

Starting == {"preparing", "announcingNext", "starting"}

LEMMA StartEffect ==
    ASSUME OpTyped, NEW o \in Ops, StartStep(o)
    PROVE  /\ UNCHANGED <<phase, runPromise, controller, spent>>
           /\ \A p \in Ops \ {o} : op'[p] = op[p]
           /\ op[o].at \in Starting
           /\ op'[o].at \in Starting \ {"preparing"} \/ (op'[o].at = "unwinding" /\ op'[o].threw)
  <1>r. op[o] \in OpType BY DEF OpTyped
  <1>0. \A r : op' = [op EXCEPT ![o] = r] => Becomes(o, r) BY DEF OpTyped, Becomes
  <1>1. /\ UNCHANGED <<phase, runPromise, controller, spent>> /\ op[o].at \in Starting
    BY DEF StartStep, Prepare, PrepareFails, AnnounceNext, AnnounceNextFails, StartLoopFails,
           harness, Starting
  <1>2. CASE Prepare(o)
    <2> DEFINE r == [op[o] EXCEPT !.held = queue.nextTurn,
                                  !.at = IF queue.nextTurn = <<>> THEN "starting"
                                         ELSE "announcingNext"]
    <2>1. op' = [op EXCEPT ![o] = r] BY <1>2 DEF Prepare
    <2>2. Becomes(o, r) BY <1>0, <2>1
    <2>3. r.at \in {"starting", "announcingNext"} BY <1>r DEF OpType
    <2> QED BY <1>1, <2>2, <2>3 DEF Becomes, Starting
  <1>3. CASE AnnounceNext(o)
    <2>1. "starting" \in Labels BY DEF Labels
    <2>2. Becomes(o, [op[o] EXCEPT !.at = "starting"]) BY <1>3, <2>1, GotoUpdate DEF AnnounceNext
    <2>3. op'[o].at = "starting" BY <1>r, <2>2 DEF Becomes, OpType
    <2> QED BY <1>1, <2>2, <2>3 DEF Becomes, Starting
  <1>4. CASE PrepareFails(o) \/ AnnounceNextFails(o) \/ StartLoopFails(o)
    <2>1. op' = [op EXCEPT ![o] = Rejected(@)]
      BY <1>4 DEF PrepareFails, AnnounceNextFails, StartLoopFails
    <2>2. Becomes(o, Rejected(op[o])) BY <1>0, <2>1
    <2>3. Rejected(op[o]).at = "unwinding" /\ Rejected(op[o]).threw BY <1>r, RejectedType
    <2> QED BY <1>1, <2>2, <2>3 DEF Becomes
  <1> QED BY <1>2, <1>3, <1>4 DEF StartStep

(* The steps that end a run or decide about another. *)
LEMMA EndEffect ==
    ASSUME TypeOK, OpTyped, FormInv, NEW o \in Ops
    PROVE  /\ GoIdle(o) => op'[o].at = "settling" /\ \A p \in Ops \ {o} : op'[p] = op[p]
           /\ Settle(o) => Cleaning(op'[o]) /\ \A p \in Ops \ {o} : op'[p] = op[p]
           /\ Cleanup(o) =>
                 /\ \/ op'[o].at = "asking" /\ ~op[o].threw /\ Hook /\ ContinuationCap > 0
                    \/ op'[o].at = "unwinding" /\ op'[o].threw = op[o].threw
                 /\ \A p \in Ops \ {o} : op'[p] = op[p]
           /\ StopHere(o) => op'[o].at = "unwinding" /\ \A p \in Ops \ {o} : op'[p] = op[p]
           /\ ContinueTurn(o) =>
                 /\ \/ op'[o].at = "preparing" /\ ~OverCap
                    \/ op'[o].at = "unwinding"
                 /\ \A p \in Ops \ {o} : op'[p] = op[p]
           /\ Finish(o) => op'[o].at = "done" /\ \A p \in Ops \ {o} : op'[p] = op[p]
  <1>r. op[o] \in OpType /\ FormOf(op[o]) BY DEF OpTyped, FormInv
  <1>0. \A r : op' = [op EXCEPT ![o] = r] => Becomes(o, r) BY DEF OpTyped, Becomes
  <1>1. ASSUME NEW label \in Labels, Goto(o, label)
        PROVE  op'[o].at = label /\ op'[o].threw = op[o].threw /\ \A p \in Ops \ {o} : op'[p] = op[p]
    <2>1. Becomes(o, [op[o] EXCEPT !.at = label]) BY <1>1, GotoUpdate
    <2> QED BY <1>r, <2>1 DEF Becomes, OpType
  <1>2. {"settling", "asking", "unwinding", "done"} \subseteq Labels BY DEF Labels, Loop
  <1>3. ASSUME Settle(o) PROVE Cleaning(op'[o]) /\ \A p \in Ops \ {o} : op'[p] = op[p]
    <2> DEFINE r == [op[o] EXCEPT !.threw = trip]
    <2>1. r \in OpType
      <3>1. trip \in BOOLEAN BY DEF TypeOK
      <3>2. PICK b \in BOOLEAN : r = [op[o] EXCEPT !.threw = b] BY <3>1
      <3> HIDE DEF r
      <3> QED BY <1>r, <3>2 DEF OpType
    <2>2. op' = [op EXCEPT ![o] = Flushing(r, "cleanup")] BY <1>3 DEF Settle
    <2>3. "cleanup" \in Flushes BY DEF Flushes
    <2> HIDE DEF r
    <2>4. Cleaning(Flushing(r, "cleanup")) BY <2>1, <2>3, FlushingType DEF Cleaning
    <2>5. Becomes(o, Flushing(r, "cleanup")) BY <1>0, <2>2
    <2> QED BY <2>4, <2>5 DEF Becomes
  <1>4. ASSUME ContinueTurn(o)
        PROVE  /\ \/ op'[o].at = "preparing" /\ ~OverCap
                  \/ op'[o].at = "unwinding"
               /\ \A p \in Ops \ {o} : op'[p] = op[p]
    <2> DEFINE r == [op[o] EXCEPT !.cycles = @ + 1,
                                  !.at = IF OverCap THEN "unwinding" ELSE "preparing",
                                  !.threw = OverCap]
    <2>1. op' = [op EXCEPT ![o] = r] BY <1>4 DEF ContinueTurn
    <2>2. Becomes(o, r) BY <1>0, <2>1
    <2>3. r.at = IF OverCap THEN "unwinding" ELSE "preparing" BY <1>r DEF OpType
    <2> HIDE DEF r
    <2> QED BY <2>2, <2>3 DEF Becomes
  <1>5. ASSUME Finish(o) PROVE op'[o].at = "done" /\ \A p \in Ops \ {o} : op'[p] = op[p]
    <2>1. Becomes(o, [Fresh EXCEPT !.at = "done"]) BY <1>0, <1>5 DEF Finish
    <2> QED BY <2>1 DEF Becomes, Fresh
  <1>6. ASSUME Cleanup(o)
        PROVE  /\ \/ op'[o].at = "asking" /\ ~op[o].threw /\ Hook /\ ContinuationCap > 0
                  \/ op'[o].at = "unwinding" /\ op'[o].threw = op[o].threw
               /\ \A p \in Ops \ {o} : op'[p] = op[p]
    <2>1. op[o].cycles < ContinuationCap => ContinuationCap > 0
      BY <1>r, HarnessAssumption DEF OpType
    <2>2. \/ Goto(o, "unwinding")
          \/ ~op[o].threw /\ Hook /\ op[o].cycles < ContinuationCap /\ Goto(o, "asking")
      BY <1>6 DEF Cleanup
    <2> QED BY <1>1, <1>2, <2>1, <2>2
  <1> QED BY <1>1, <1>2, <1>3, <1>4, <1>5, <1>6 DEF GoIdle, StopHere

(* The calls that are not of one operation leave everybody where they are. *)
LEMMA OtherEffect ==
    ASSUME OpTyped,
           \/ Abort \/ ResetCost \/ UNCHANGED vars
           \/ \E q \in Sends : Send(q)
           \/ \E c \in Callers, kind \in WriteKinds : WriteIdle(c, kind) \/ WriteBusy(c, kind)
           \/ \E c \in Callers : CommitIdle(c) \/ WriteIdleFails(c)
    PROVE  /\ UNCHANGED <<phase, runPromise, controller>>
           /\ \A o \in Ops : /\ op'[o].at = op[o].at /\ op'[o].resume = op[o].resume
                             /\ op'[o].threw = op[o].threw /\ op'[o].reason = op[o].reason
  <1>1. ASSUME UNCHANGED <<phase, runPromise, controller, op>>
        PROVE  /\ UNCHANGED <<phase, runPromise, controller>>
               /\ \A o \in Ops : /\ op'[o].at = op[o].at /\ op'[o].resume = op[o].resume
                                 /\ op'[o].threw = op[o].threw /\ op'[o].reason = op[o].reason
    BY <1>1
  <1>2. CASE Abort
    <2>1. \A o \in Ops : op[o] \in OpType BY DEF OpTyped
    <2>2. ASSUME NEW o \in Ops
          PROVE  /\ op'[o].at = op[o].at /\ op'[o].resume = op[o].resume
                 /\ op'[o].threw = op[o].threw /\ op'[o].reason = op[o].reason
      <3>1. PICK b : op'[o] = [op[o] EXCEPT !.stale = b] BY <1>2 DEF Abort
      <3> QED BY <2>1, <3>1 DEF OpType
    <2> QED BY <1>2, <2>2 DEF Abort
  <1>3. CASE UNCHANGED vars BY <1>1, <1>3 DEF vars, harness
  <1>4. CASE ~Abort /\ ~UNCHANGED vars
    <2>1. UNCHANGED <<phase, runPromise, controller, op>>
      BY <1>4 DEF ResetCost, Send, WriteIdle, WriteBusy, CommitIdle, WriteIdleFails, harness
    <2> QED BY <1>1, <2>1
  <1> QED BY <1>2, <1>3, <1>4

LEMMA Moves ==
    ASSUME [Next]_vars
    PROVE  \/ \E o \in Ops :
                \/ Prompt(o) \/ PromptOverCap(o) \/ StartStructural(o)
                \/ EndStructural(o) \/ NavigateTree(o)
                \/ StartStep(o) \/ StartLoop(o) \/ LoopStep(o)
                \/ GoIdle(o) \/ Settle(o) \/ Cleanup(o) \/ StopHere(o) \/ ContinueTurn(o)
                \/ Finish(o)
           \/ Abort \/ ResetCost \/ UNCHANGED vars
           \/ \E q \in Sends : Send(q)
           \/ \E c \in Callers, kind \in WriteKinds : WriteIdle(c, kind) \/ WriteBusy(c, kind)
           \/ \E c \in Callers : CommitIdle(c) \/ WriteIdleFails(c)
  BY DEF Next, Advance, Break, StartStep, LoopStep

-----------------------------------------------------------------------------
(* One operation at a time. *)
Idlers == {"off", "done"}

LEMMA PlaceStep ==
    ASSUME TypeOK, OpTyped, OpTyped', FormInv, OneInv, PlaceInv, OneAtATime, [Next]_vars
    PROVE  OneInv' /\ PlaceInv'
  <1> USE HarnessAssumption DEF Idlers
  <1>i. \A o \in Ops : Active(o) <=> op[o].at \notin Idlers BY DEF Active
  <1>j. \A o \in Ops : Active(o)' <=> op'[o].at \notin Idlers BY DEF Active
  <1>s. ASSUME Settled PROVE phase = "idle" /\ runPromise = None /\ controller = None
    <2>1. phase = "idle" /\ runPromise = None BY <1>s DEF PlaceInv
    <2>2. ASSUME controller # None PROVE FALSE
      <3>1. controller \in Ops /\ op[controller].at \in Controlled BY <2>2 DEF PlaceInv
      <3> QED BY <1>s, <1>i, <3>1 DEF Settled, Controlled, Loop
    <2> QED BY <2>1, <2>2
  <1>a. ASSUME NEW o \in Ops, Active(o)
        PROVE  \A p \in Ops \ {o} : op[p].at \in Idlers
    BY <1>a, <1>i DEF OneInv
  <1>b. ASSUME NEW o \in Ops, Active(o), controller # None
        PROVE  controller = o /\ op[o].at \in Controlled
    <2>1. controller \in Ops /\ op[controller].at \in Controlled BY <1>b DEF PlaceInv
    <2>2. Active(controller) BY <1>i, <2>1 DEF Controlled, Loop
    <2> QED BY <1>b, <2>1, <2>2 DEF OneInv
  <1>c. ASSUME NEW o \in Ops,
               \A p \in Ops \ {o} : op'[p] = op[p] /\ op[p].at \in Idlers,
               PlaceOf(o)',
               op'[o].at \in Idlers => phase' = "idle" /\ runPromise' = None,
               controller' # None => controller' = o /\ op'[o].at \in Controlled
        PROVE  OneInv' /\ PlaceInv'
    <2>1. \A p \in Ops \ {o} : ~Active(p)' BY <1>c, <1>j
    <2>2. OneInv' BY <2>1 DEF OneInv
    <2>3. \A p \in Ops \ {o} : op'[p].at \in Idlers BY <1>c
    <2>4. \A p \in Ops \ {o} : PlaceOf(p)'
      BY <2>1, <2>3 DEF PlaceOf, Cleaning, StructuralAt
    <2>5. Settled' => phase' = "idle" /\ runPromise' = None BY <1>c, <1>j DEF Settled
    <2> QED BY <1>c, <2>2, <2>4, <2>5 DEF PlaceInv
  <1>m. ASSUME NEW o \in Ops, MayStart(o)
        PROVE  /\ phase = "idle" /\ runPromise = None /\ controller = None
               /\ op[o].at = "off" /\ \A p \in Ops \ {o} : op[p].at \in Idlers
    BY <1>m, <1>s, <1>i DEF MayStart, Settled
  <1>g. ASSUME NEW o \in Ops, NEW label \in Labels, Goto(o, label)
        PROVE  op'[o].at = label /\ \A p \in Ops \ {o} : op'[p] = op[p]
    <2>1. Becomes(o, [op[o] EXCEPT !.at = label]) BY <1>g, GotoUpdate
    <2>2. op[o] \in OpType BY DEF OpTyped
    <2> QED BY <2>1, <2>2 DEF Becomes, OpType
  <1>l. {"preparing", "done", "compaction", "branch_summary", "prompting"} \subseteq Labels
    BY DEF Labels, Loop
  <1>1. ASSUME NEW o \in Ops, Prompt(o) PROVE OneInv' /\ PlaceInv'
    <2>1. op'[o].at = "preparing" /\ \A p \in Ops \ {o} : op'[p] = op[p]
      BY <1>1, <1>g, <1>l DEF Prompt
    <2>2. PlaceOf(o)' BY <1>1, <2>1 DEF Prompt, PlaceOf, Cleaning, StructuralAt
    <2> QED BY <1>1, <1>c, <1>m, <2>1, <2>2 DEF Prompt
  <1>2. ASSUME NEW o \in Ops, PromptOverCap(o) PROVE OneInv' /\ PlaceInv'
    <2>1. op'[o].at = "done" /\ \A p \in Ops \ {o} : op'[p] = op[p]
      BY <1>2, <1>g, <1>l DEF PromptOverCap
    <2>2. PlaceOf(o)' BY <1>j, <2>1 DEF PlaceOf, Cleaning, StructuralAt
    <2> QED BY <1>2, <1>c, <1>m, <2>1, <2>2 DEF PromptOverCap
  <1>3. ASSUME NEW o \in Ops, StartStructural(o) PROVE OneInv' /\ PlaceInv'
    <2>1. op'[o].at \in StructuralAt /\ \A p \in Ops \ {o} : op'[p] = op[p]
      BY <1>3, <1>g, <1>l DEF StartStructural, StructuralAt
    <2>2. MayStart(o) /\ UNCHANGED <<runPromise, controller>> BY <1>3 DEF StartStructural
    <2>3. PlaceOf(o)' BY <1>m, <2>1, <2>2 DEF PlaceOf, Cleaning, StructuralAt
    <2> QED BY <1>c, <1>m, <2>1, <2>2, <2>3 DEF StructuralAt
  <1>4. ASSUME NEW o \in Ops, EndStructural(o) \/ NavigateTree(o) PROVE OneInv' /\ PlaceInv'
    <2>1. op'[o].at = "done" /\ \A p \in Ops \ {o} : op'[p] = op[p]
      BY <1>4, <1>g, <1>l DEF EndStructural, NavigateTree
    <2>2. /\ op[o].at \in StructuralAt /\ phase' = "idle" /\ UNCHANGED <<runPromise, controller>>
      BY <1>4 DEF EndStructural, NavigateTree, StructuralAt
    <2>3. Active(o) BY <1>i, <2>2 DEF StructuralAt
    <2>4. runPromise = None BY <2>2 DEF PlaceInv, PlaceOf
    <2>5. controller = None BY <1>b, <2>2, <2>3 DEF StructuralAt, Controlled, Loop
    <2>6. PlaceOf(o)' BY <1>j, <2>1 DEF PlaceOf, Cleaning, StructuralAt
    <2> QED BY <1>a, <1>c, <2>1, <2>2, <2>3, <2>4, <2>5, <2>6
  <1>5. ASSUME NEW o \in Ops, StartStep(o) PROVE OneInv' /\ PlaceInv'
    <2>1. /\ UNCHANGED <<phase, runPromise, controller>>
          /\ \A p \in Ops \ {o} : op'[p] = op[p]
          /\ op[o].at \in Starting
          /\ op'[o].at \in Starting \/ (op'[o].at = "unwinding" /\ op'[o].threw)
      BY <1>5, StartEffect
    <2>2. Active(o) BY <1>i, <2>1 DEF Starting
    <2>3. runPromise = o BY <2>1, <2>2 DEF PlaceInv, PlaceOf, Starting, StructuralAt
    <2>4. controller = None BY <1>b, <2>1, <2>2 DEF Starting, Controlled, Loop
    <2>5. PlaceOf(o)' BY <2>1, <2>3 DEF PlaceOf, Cleaning, StructuralAt, Starting
    <2> QED BY <1>a, <1>c, <2>1, <2>2, <2>4, <2>5 DEF Starting
  <1>6. ASSUME NEW o \in Ops, StartLoop(o) PROVE OneInv' /\ PlaceInv'
    <2> DEFINE r == [op[o] EXCEPT !.at = "prompting", !.reason = "toolUse", !.failing = FALSE]
    <2>1. op' = [op EXCEPT ![o] = r] BY <1>6 DEF StartLoop
    <2>2. Becomes(o, r) BY <2>1 DEF OpTyped, Becomes
    <2>3. r.at = "prompting" BY DEF OpTyped, OpType
    <2>4. op'[o].at = "prompting" /\ \A p \in Ops \ {o} : op'[p] = op[p]
      BY <2>2, <2>3 DEF Becomes
    <2>5. op[o].at = "starting" /\ controller' = o /\ UNCHANGED <<phase, runPromise>>
      BY <1>6 DEF StartLoop
    <2>6. Active(o) BY <1>i, <2>5
    <2>7. runPromise = o BY <2>5, <2>6 DEF PlaceInv, PlaceOf, StructuralAt
    <2>8. PlaceOf(o)' BY <2>4, <2>5, <2>7 DEF PlaceOf, Cleaning, StructuralAt
    <2> QED BY <1>a, <1>c, <2>4, <2>5, <2>6, <2>8 DEF Controlled, Loop
  <1>7. ASSUME NEW o \in Ops, LoopStep(o) PROVE OneInv' /\ PlaceInv'
    <2>1. /\ UNCHANGED <<phase, runPromise, controller>>
          /\ \A p \in Ops \ {o} : op'[p] = op[p]
          /\ op[o].at \in Controlled /\ op'[o].at \in Controlled \ {"settling"}
          /\ Cleaning(op'[o]) => op'[o].threw \/ (Cleaning(op[o]) /\ op'[o].threw = op[o].threw)
      BY <1>7, LoopEffect
    <2>2. Active(o) BY <1>i, <2>1 DEF Controlled, Loop
    <2>3. runPromise = o BY <2>1, <2>2 DEF PlaceInv, PlaceOf, StructuralAt, Controlled, Loop
    <2>4. Cleaning(op[o]) => op[o].threw \/ phase = "idle" BY DEF PlaceInv, PlaceOf
    <2>5. Cleaning(op'[o]) => op'[o].threw \/ phase' = "idle" BY <2>1, <2>4
    <2>6. op'[o].at \notin {"asking", "settling", "unwinding"} \cup StructuralAt \cup Idlers
      BY <2>1 DEF Controlled, Loop, StructuralAt
    <2>7. PlaceOf(o)' BY <2>1, <2>3, <2>5, <2>6 DEF PlaceOf
    <2> QED BY <1>a, <1>b, <1>c, <2>1, <2>2, <2>6, <2>7
  <1>8. ASSUME NEW o \in Ops, GoIdle(o) \/ Settle(o) PROVE OneInv' /\ PlaceInv'
    <2>1. /\ op'[o].at = "settling" \/ Cleaning(op'[o])
          /\ \A p \in Ops \ {o} : op'[p] = op[p]
      BY <1>8, EndEffect
    <2>2. op[o].at \in {"goIdle", "settling"} /\ UNCHANGED <<runPromise, controller>>
      BY <1>8 DEF GoIdle, Settle
    <2>3. Active(o) BY <1>i, <2>2
    <2>4. runPromise = o BY <2>2, <2>3 DEF PlaceInv, PlaceOf, StructuralAt
    <2>5. phase' = "idle"
      BY <1>8 DEF GoIdle, Settle, PlaceInv, PlaceOf
    <2>6. op'[o].at \in {"settling", "cleanup", "flushing"} BY <2>1 DEF Cleaning
    <2>7. PlaceOf(o)' BY <2>2, <2>4, <2>5, <2>6 DEF PlaceOf, StructuralAt
    <2> QED BY <1>a, <1>b, <1>c, <2>1, <2>2, <2>3, <2>6, <2>7 DEF Controlled, Loop
  <1>9. ASSUME NEW o \in Ops, Cleanup(o) PROVE OneInv' /\ PlaceInv'
    <2>1. /\ \/ op'[o].at = "asking" /\ ~op[o].threw
             \/ op'[o].at = "unwinding" /\ op'[o].threw = op[o].threw
          /\ \A p \in Ops \ {o} : op'[p] = op[p]
      BY <1>9, EndEffect
    <2>2. op[o].at = "cleanup" /\ controller' = None /\ UNCHANGED <<phase, runPromise>>
      BY <1>9 DEF Cleanup
    <2>3. Active(o) BY <1>i, <2>2
    <2>4. runPromise = o /\ (op[o].threw \/ phase = "idle")
      BY <2>2, <2>3 DEF PlaceInv, PlaceOf, Cleaning, StructuralAt
    <2>5. PlaceOf(o)' BY <2>1, <2>2, <2>4 DEF PlaceOf, Cleaning, StructuralAt
    <2> QED BY <1>a, <1>c, <2>1, <2>2, <2>3, <2>5
  <1>10. ASSUME NEW o \in Ops, StopHere(o) \/ ContinueTurn(o) PROVE OneInv' /\ PlaceInv'
    <2>1. /\ op'[o].at \in {"preparing", "unwinding"}
          /\ \A p \in Ops \ {o} : op'[p] = op[p]
      BY <1>10, EndEffect
    <2>2. op[o].at = "asking" /\ UNCHANGED <<phase, runPromise, controller>>
      BY <1>10 DEF StopHere, ContinueTurn, harness
    <2>3. Active(o) BY <1>i, <2>2
    <2>4. runPromise = o /\ phase = "idle" BY <2>2, <2>3 DEF PlaceInv, PlaceOf, StructuralAt
    <2>5. controller = None BY <1>b, <2>2, <2>3 DEF Controlled, Loop
    <2>6. PlaceOf(o)' BY <2>1, <2>2, <2>4 DEF PlaceOf, Cleaning, StructuralAt
    <2> QED BY <1>a, <1>c, <2>1, <2>2, <2>3, <2>5, <2>6
  <1>11. ASSUME NEW o \in Ops, Finish(o) PROVE OneInv' /\ PlaceInv'
    <2>1. op'[o].at = "done" /\ \A p \in Ops \ {o} : op'[p] = op[p] BY <1>11, EndEffect
    <2>2. op[o].at = "unwinding" /\ runPromise' = None /\ UNCHANGED controller
      BY <1>11 DEF Finish
    <2>3. Active(o) BY <1>i, <2>2
    <2>4. phase' = "idle" BY <1>11, <2>2 DEF Finish, PlaceInv, PlaceOf
    <2>5. controller = None BY <1>b, <2>2, <2>3 DEF Controlled, Loop
    <2>6. PlaceOf(o)' BY <1>j, <2>1 DEF PlaceOf, Cleaning, StructuralAt
    <2> QED BY <1>a, <1>c, <2>1, <2>2, <2>3, <2>4, <2>5, <2>6
  <1>12. ASSUME UNCHANGED <<phase, runPromise, controller>>,
                \A o \in Ops : /\ op'[o].at = op[o].at /\ op'[o].resume = op[o].resume
                               /\ op'[o].threw = op[o].threw
         PROVE OneInv' /\ PlaceInv'
    <2>1. \A o \in Ops : Active(o)' <=> Active(o) BY <1>12, <1>i, <1>j
    <2>2. OneInv' BY <2>1 DEF OneInv
    <2>3. \A o \in Ops : Cleaning(op'[o]) <=> Cleaning(op[o]) BY <1>12 DEF Cleaning
    <2>4. \A o \in Ops : PlaceOf(o)' BY <1>12, <2>1, <2>3 DEF PlaceInv, PlaceOf
    <2>5. Settled' => Settled BY <2>1 DEF Settled
    <2> QED BY <1>12, <2>2, <2>4, <2>5 DEF PlaceInv
  <1> QED
    BY <1>1, <1>2, <1>3, <1>4, <1>5, <1>6, <1>7, <1>8, <1>9, <1>10, <1>11, <1>12,
       Moves, OtherEffect

(* Without continuations a turn begins with its own phase, and keeps it as *)
(* long as it may issue requests.                                          *)
LEMMA VisibleStep ==
    ASSUME TypeOK, OpTyped, OpTyped', FormInv, OneInv, PlaceInv, VisibleInv,
           OneAtATime, NoContinuation, [Next]_vars
    PROVE  VisibleInv'
  <1> USE HarnessAssumption DEF Idlers
  <1>i. \A o \in Ops : Active(o) <=> op[o].at \notin Idlers BY DEF Active
  <1>r. \A o \in Ops : (Running(o) <=> RunningAt(op[o])) /\ (Running(o)' <=> RunningAt(op'[o]))
    BY DEF Running, RunningAt
  <1>n. \A o \in Ops : op[o].at # "asking"
    <2>1. \A o \in Ops : op[o] \in OpType /\ FormOf(op[o]) BY DEF OpTyped, FormInv
    <2> QED BY <2>1 DEF NoContinuation, FormOf, OpType
  <1>a. ASSUME NEW o \in Ops, Active(o)
        PROVE  \A p \in Ops \ {o} : op[p].at \in Idlers
    BY <1>a, <1>i DEF OneInv
  <1>c. ASSUME NEW o \in Ops,
               \A p \in Ops \ {o} : op'[p] = op[p] /\ op[p].at \in Idlers,
               VisibleOf(o)'
        PROVE  VisibleInv'
    <2>1. ASSUME NEW p \in Ops \ {o} PROVE VisibleOf(p)'
      <3>1. op'[p].at \in Idlers BY <1>c
      <3>2. ~RunningAt(op'[p]) BY <3>1 DEF RunningAt, Loop
      <3> QED BY <1>r, <3>1, <3>2 DEF VisibleOf
    <2> QED BY <1>c, <2>1 DEF VisibleInv
  <1>o. ASSUME NEW o \in Ops, op'[o].at \notin Starting, ~RunningAt(op'[o]) PROVE VisibleOf(o)'
    BY <1>o, <1>r DEF VisibleOf, Starting
  <1>m. ASSUME NEW o \in Ops, MayStart(o) PROVE \A p \in Ops \ {o} : op[p].at \in Idlers
    BY <1>m, <1>i DEF MayStart, Settled
  <1>g. ASSUME NEW o \in Ops, NEW label \in Labels, Goto(o, label)
        PROVE  op'[o].at = label /\ \A p \in Ops \ {o} : op'[p] = op[p]
    <2>1. Becomes(o, [op[o] EXCEPT !.at = label]) BY <1>g, GotoUpdate
    <2>2. op[o] \in OpType BY DEF OpTyped
    <2> QED BY <2>1, <2>2 DEF Becomes, OpType
  <1>l. {"preparing", "done", "compaction", "branch_summary"} \subseteq Labels
    BY DEF Labels, Loop
  <1>1. ASSUME NEW o \in Ops, Prompt(o) PROVE VisibleInv'
    <2>1. op'[o].at = "preparing" /\ \A p \in Ops \ {o} : op'[p] = op[p]
      BY <1>1, <1>g, <1>l DEF Prompt
    <2>2. ~RunningAt(op'[o]) BY <2>1 DEF RunningAt, Loop
    <2>3. MayStart(o) /\ phase' # "idle" BY <1>1 DEF Prompt
    <2>4. VisibleOf(o)' BY <1>r, <2>2, <2>3 DEF VisibleOf
    <2> QED BY <1>c, <1>m, <2>1, <2>3, <2>4
  <1>2. ASSUME NEW o \in Ops, PromptOverCap(o) \/ StartStructural(o) PROVE VisibleInv'
    <2>1. \E label \in {"done", "compaction", "branch_summary"} : Goto(o, label)
      BY <1>2 DEF PromptOverCap, StartStructural
    <2>2. /\ op'[o].at \in {"done", "compaction", "branch_summary"}
          /\ \A p \in Ops \ {o} : op'[p] = op[p]
      BY <1>g, <1>l, <2>1
    <2>3. VisibleOf(o)' BY <1>o, <2>2 DEF RunningAt, Loop, Starting
    <2>4. MayStart(o) BY <1>2 DEF PromptOverCap, StartStructural
    <2> QED BY <1>c, <1>m, <2>2, <2>3, <2>4
  <1>3. ASSUME NEW o \in Ops, EndStructural(o) \/ NavigateTree(o) PROVE VisibleInv'
    <2>1. op'[o].at = "done" /\ \A p \in Ops \ {o} : op'[p] = op[p]
      BY <1>3, <1>g, <1>l DEF EndStructural, NavigateTree
    <2>2. Active(o) BY <1>3, <1>i DEF EndStructural, NavigateTree
    <2>3. VisibleOf(o)' BY <1>o, <2>1 DEF RunningAt, Loop, Starting
    <2> QED BY <1>a, <1>c, <2>1, <2>2, <2>3
  <1>4. ASSUME NEW o \in Ops, StartStep(o) PROVE VisibleInv'
    <2>1. /\ phase' = phase
          /\ \A p \in Ops \ {o} : op'[p] = op[p]
          /\ op[o].at \in Starting
          /\ op'[o].at \in Starting \/ op'[o].at = "unwinding"
      BY <1>4, StartEffect
    <2>2. Active(o) BY <1>i, <2>1 DEF Starting
    <2>3. phase # "idle" BY <2>1 DEF VisibleInv, VisibleOf, Starting
    <2>4. ~RunningAt(op'[o]) BY <2>1 DEF RunningAt, Loop, Starting
    <2>5. VisibleOf(o)' BY <1>r, <2>1, <2>3, <2>4 DEF VisibleOf
    <2> QED BY <1>a, <1>c, <2>1, <2>2, <2>5
  <1>5. ASSUME NEW o \in Ops, StartLoop(o) PROVE VisibleInv'
    <2>1. op' = [op EXCEPT ![o] = [op[o] EXCEPT !.at = "prompting", !.reason = "toolUse",
                                                !.failing = FALSE]]
      BY <1>5 DEF StartLoop
    <2>2. \A p \in Ops \ {o} : op'[p] = op[p] BY <2>1 DEF OpTyped
    <2>3. op[o].at = "starting" /\ controller' = o /\ phase' = phase BY <1>5 DEF StartLoop
    <2>4. phase # "idle" BY <2>3 DEF VisibleInv, VisibleOf
    <2>5. Active(o) BY <1>i, <2>3
    <2>6. VisibleOf(o)'
      BY <2>3, <2>4 DEF VisibleOf
    <2> QED BY <1>a, <1>c, <2>2, <2>5, <2>6
  <1>6. ASSUME NEW o \in Ops, LoopStep(o) PROVE VisibleInv'
    <2>1. /\ UNCHANGED <<phase, controller>>
          /\ \A p \in Ops \ {o} : op'[p] = op[p]
          /\ op[o].at \in Controlled /\ op'[o].at \in Controlled
          /\ RunningAt(op'[o]) => RunningAt(op[o])
      BY <1>6, LoopEffect
    <2>2. Active(o) BY <1>i, <2>1 DEF Controlled, Loop
    <2>3. VisibleOf(o) BY DEF VisibleInv
    <2>4. VisibleOf(o)' BY <1>r, <2>1, <2>3 DEF VisibleOf, Controlled, Loop
    <2> QED BY <1>a, <1>c, <2>1, <2>2, <2>4
  <1>7. ASSUME NEW o \in Ops, GoIdle(o) \/ Settle(o) \/ Cleanup(o) \/ Finish(o) PROVE VisibleInv'
    <2>1. /\ \/ op'[o].at \in {"settling", "asking", "unwinding", "done"}
             \/ Cleaning(op'[o])
          /\ \A p \in Ops \ {o} : op'[p] = op[p]
      BY <1>7, EndEffect
    <2>2. Active(o) BY <1>7, <1>i DEF GoIdle, Settle, Cleanup, Finish
    <2>3. VisibleOf(o)' BY <1>o, <2>1 DEF RunningAt, Loop, Starting, Cleaning
    <2> QED BY <1>a, <1>c, <2>1, <2>2, <2>3
  <1>8. ASSUME NEW o \in Ops, StopHere(o) \/ ContinueTurn(o) PROVE VisibleInv'
    BY <1>8, <1>n DEF StopHere, ContinueTurn
  <1>9. ASSUME UNCHANGED <<phase, controller>>,
               \A o \in Ops : op'[o].at = op[o].at /\ op'[o].resume = op[o].resume
        PROVE VisibleInv'
    <2>1. \A o \in Ops : RunningAt(op'[o]) <=> RunningAt(op[o]) BY <1>9 DEF RunningAt
    <2>2. \A o \in Ops : VisibleOf(o)' BY <1>9, <1>r, <2>1 DEF VisibleInv, VisibleOf
    <2> QED BY <2>2 DEF VisibleInv
  <1> QED
    BY <1>1, <1>2, <1>3, <1>4, <1>5, <1>6, <1>7, <1>8, <1>9, Moves, OtherEffect

-----------------------------------------------------------------------------
(* Nothing queued behind a run but its own next turn: whether another      *)
(* request follows is decided where the cap is looked at.                  *)
LEMMA BudgetLoop ==
    ASSUME TypeOK, OpTyped, FormInv, BudgetInv, NEW o \in Ops, LoopStep(o)
    PROVE  /\ queue'["steer"] = <<>> /\ queue'["followUp"] = <<>>
           /\ BudgetOf(o)'
           /\ op'[o].at = "streaming" /\ op[o].at # "streaming" => ~OverCap
  <1> DEFINE Effect ==
        /\ queue'["steer"] = <<>> /\ queue'["followUp"] = <<>>
        /\ BudgetOf(o)'
        /\ op'[o].at = "streaming" /\ op[o].at # "streaming" => ~OverCap
  <1>r. op[o] \in OpType /\ FormOf(op[o]) /\ BudgetOf(o) BY DEF OpTyped, FormInv, BudgetInv
  <1>q. queue.steer = <<>> /\ queue.followUp = <<>> BY DEF BudgetInv
  <1>0. \A r : op' = [op EXCEPT ![o] = r] => Becomes(o, r) BY DEF OpTyped, Becomes
  <1>u. ASSUME spent' = spent PROVE OverCap' <=> OverCap BY <1>u DEF OverCap
  (* the cap is not looked at again before the end of this turn *)
  <1>a. ASSUME NEW r, Becomes(o, r), UNCHANGED queue,
               \/ r.at \in {"tools", "turnEnd", "gate", "following", "goIdle", "reporting",
                            "rethrowing", "cleanup"}
               \/ r.at = "flushing" /\ r.resume # "snapshot"
        PROVE  Effect
    BY <1>a, <1>q DEF Becomes, BudgetOf
  <1>t. ASSUME op' = [op EXCEPT ![o] = Thrown(@)], UNCHANGED queue PROVE Effect
    <2>1. Becomes(o, Thrown(op[o])) BY <1>t, <1>0
    <2>2. Thrown(op[o]).at \in {"rethrowing", "reporting"} BY <1>r, ThrownType
    <2> QED BY <1>a, <1>t, <2>1, <2>2
  <1>f. ASSUME NEW label \in Flushes, FlushThen(o, label), UNCHANGED <<queue, spent>>,
               label = "snapshot" => (op[o].reason = "toolUse" => ~OverCap)
        PROVE  Effect
    <2> DEFINE r == Flushing(op[o], label)
    <2>1. Becomes(o, r) BY <1>f, FlushUpdate
    <2>2. r.at = label \/ (r.at = "flushing" /\ r.resume = label) BY <1>r, FlushingType
    <2>3. r.reason = op[o].reason BY <1>r, FlushingType
    <2> HIDE DEF r
    <2>4. BudgetOf(o)' BY <1>f, <1>u, <2>1, <2>2, <2>3 DEF Becomes, BudgetOf, Flushes
    <2>5. op'[o].at # "streaming" BY <2>1, <2>2 DEF Becomes, Flushes
    <2> QED BY <1>f, <1>q, <2>4, <2>5
  <1>g. ASSUME NEW label \in Labels, Goto(o, label)
        PROVE  op'[o].at = label /\ op'[o].reason = op[o].reason
    <2>1. Becomes(o, [op[o] EXCEPT !.at = label]) BY <1>g, GotoUpdate
    <2> QED BY <1>r, <2>1 DEF Becomes, OpType
  <1>l. {"polling", "requesting", "streaming", "following"} \subseteq Labels BY DEF Labels, Loop
  <1>1. ASSUME Inject(o) PROVE Effect
    <2>1. Becomes(o, [op[o] EXCEPT !.held = Tail(@)]) BY <1>1, <1>0 DEF Inject
    <2>2. op'[o].at = op[o].at /\ op[o].at = "prompting"
      BY <1>1, <1>r, <2>1 DEF Inject, Becomes, OpType, BudgetOf
    <2> QED BY <1>1, <1>q, <1>r, <1>u, <2>2 DEF Inject, harness, BudgetOf
  <1>2. ASSUME InjectDone(o) PROVE Effect
    <2>1. op[o].at = "prompting" /\ ~OverCap /\ UNCHANGED <<queue, spent>> /\ Goto(o, "polling")
      BY <1>2, <1>r DEF InjectDone, BudgetOf, harness
    <2>2. op'[o].at = "polling" BY <1>g, <1>l, <2>1
    <2> QED BY <1>q, <1>u, <2>1, <2>2 DEF BudgetOf
  <1>3. ASSUME Request(o) PROVE Effect
    <2>1. op[o].at = "requesting" /\ ~OverCap /\ UNCHANGED <<queue, spent>> /\ Goto(o, "streaming")
      BY <1>3, <1>r DEF Request, BudgetOf, harness
    <2>2. op'[o].at = "streaming" BY <1>g, <1>l, <2>1
    <2> QED BY <1>q, <1>u, <2>1, <2>2 DEF BudgetOf
  <1>4. ASSUME Snapshot(o) PROVE Effect
    <2>1. /\ op[o].at = "snapshot" /\ UNCHANGED <<queue, spent>> /\ Goto(o, "polling")
          /\ op[o].reason = "toolUse" => ~OverCap
      BY <1>4, <1>r DEF Snapshot, BudgetOf, harness
    <2>2. op'[o].at = "polling" /\ op'[o].reason = op[o].reason BY <1>g, <1>l, <2>1
    <2> QED BY <1>q, <1>u, <2>1, <2>2 DEF BudgetOf
  <1>5. ASSUME Poll(o) PROVE Effect
    <2>1. /\ op[o].at = "polling" /\ UNCHANGED <<queue, spent>>
          /\ Goto(o, IF op[o].reason = "toolUse" THEN "requesting" ELSE "following")
          /\ op[o].reason = "toolUse" => ~OverCap
      BY <1>5, <1>q, <1>r DEF Poll, BudgetOf
    <2>2. op'[o].at = IF op[o].reason = "toolUse" THEN "requesting" ELSE "following"
      BY <1>g, <1>l, <2>1
    <2> QED BY <1>q, <1>u, <2>1, <2>2 DEF BudgetOf
  <1>6. ASSUME Follow(o) PROVE Effect
    <2>1. UNCHANGED <<queue, spent>> /\ FlushThen(o, "goIdle") BY <1>6, <1>q DEF Follow
    <2> QED BY <1>f, <2>1 DEF Flushes
  <1>7. ASSUME Announce(o) \/ AnnounceFails(o) PROVE Effect
    BY <1>7, <1>r DEF Announce, AnnounceFails, BudgetOf
  <1>8. ASSUME AbortStream(o) \/ LoopFails(o) PROVE Effect
    BY <1>8, <1>t DEF AbortStream, LoopFails, harness
  <1>9. ASSUME Respond(o) \/ RunTools(o) PROVE Effect
    <2>1. PICK why \in {"stop", "toolUse", "terminate", "error"}, label \in {"tools", "turnEnd"} :
             op' = [op EXCEPT ![o].reason = why, ![o].at = label]
      BY <1>9 DEF Respond, RunTools
    <2> DEFINE r == [op[o] EXCEPT !.reason = why, !.at = label]
    <2>2. op' = [op EXCEPT ![o] = r] BY <2>1
    <2>3. Becomes(o, r) BY <1>0, <2>2
    <2>4. r.at = label BY <1>r DEF OpType
    <2>5. UNCHANGED queue BY <1>9 DEF Respond, RunTools, harness
    <2> HIDE DEF r
    <2> QED BY <1>a, <2>3, <2>4, <2>5
  <1>10. ASSUME TurnEnd(o) \/ ReportFailure(o) \/ Rethrow(o) PROVE Effect
    <2>1. /\ UNCHANGED <<queue, spent>>
          /\ \E label \in {"gate", "goIdle", "cleanup"} : FlushThen(o, label)
      BY <1>10 DEF TurnEnd, ReportFailure, Rethrow, harness
    <2> QED BY <1>f, <2>1 DEF Flushes
  <1>11. ASSUME Gate(o) PROVE Effect
    <2>1. UNCHANGED <<queue, spent>> BY <1>11 DEF Gate
    <2>2. CASE FlushThen(o, "goIdle") BY <1>f, <2>1, <2>2 DEF Flushes
    <2>3. CASE FlushThen(o, "snapshot") /\ (op[o].reason = "toolUse" => ~OverCap)
      BY <1>f, <2>1, <2>3 DEF Flushes
    <2> QED BY <1>11, <2>2, <2>3 DEF Gate, CapStops
  <1>12. ASSUME FlushAppend(o) PROVE Effect
    <2> DEFINE r == [op[o] EXCEPT
                !.at = IF pending' = <<>> THEN op[o].resume ELSE "flushing",
                !.resume = IF pending' = <<>> THEN "cleanup" ELSE @,
                !.writing = IF pending' = <<>> THEN None ELSE Head(pending')]
    <2>1. op' = [op EXCEPT ![o] = r] BY <1>12 DEF FlushAppend
    <2>2. Becomes(o, r) BY <1>0, <2>1
    <2>3. op[o].resume \in Flushes BY <1>r DEF OpType
    <2>4. /\ r.reason = op[o].reason
          /\ \/ r.at = op[o].resume
             \/ r.at = "flushing" /\ r.resume = op[o].resume
      BY <1>r DEF OpType
    <2>5. op[o].at = "flushing" /\ UNCHANGED <<queue, spent>> BY <1>12 DEF FlushAppend
    <2> HIDE DEF r
    <2>6. BudgetOf(o)' BY <1>r, <1>u, <2>2, <2>3, <2>4, <2>5 DEF Becomes, BudgetOf, Flushes
    <2> QED BY <1>q, <2>2, <2>3, <2>4, <2>5, <2>6 DEF Becomes, Flushes
  <1>13. ASSUME FlushFails(o) PROVE Effect
    <2>1. UNCHANGED queue BY <1>13 DEF FlushFails, harness
    <2>2. CASE op[o].resume = "cleanup"
      <3> DEFINE r == [op[o] EXCEPT !.at = "cleanup", !.threw = TRUE, !.writing = None]
      <3>1. op' = [op EXCEPT ![o] = r] BY <1>13, <2>2 DEF FlushFails
      <3>2. Becomes(o, r) BY <1>0, <3>1
      <3>3. r.at = "cleanup" BY <1>r DEF OpType
      <3> HIDE DEF r
      <3> QED BY <1>a, <2>1, <3>2, <3>3
    <2>3. CASE op[o].resume # "cleanup"
      <3>1. op' = [op EXCEPT ![o] = Thrown(@)] BY <1>13, <2>3 DEF FlushFails
      <3> QED BY <1>t, <2>1, <3>1
    <2> QED BY <2>2, <2>3
  <1> QED
    BY <1>1, <1>2, <1>3, <1>4, <1>5, <1>6, <1>7, <1>8, <1>9, <1>10, <1>11, <1>12, <1>13
    DEF LoopStep

LEMMA BudgetStep ==
    ASSUME TypeOK, OpTyped, OpTyped', FormInv, OneInv, BudgetInv,
           OneAtATime, NothingQueued, [Next]_vars
    PROVE  /\ BudgetInv'
           /\ \A o \in Ops : op[o].at # "streaming" /\ op'[o].at = "streaming" => ~OverCap
  <1> DEFINE Kept ==
        /\ BudgetInv'
        /\ \A o \in Ops : op[o].at # "streaming" /\ op'[o].at = "streaming" => ~OverCap
  <1> USE HarnessAssumption DEF Idlers
  <1>i. \A o \in Ops : Active(o) <=> op[o].at \notin Idlers BY DEF Active
  <1>q. /\ queue["steer"] = <<>> /\ queue["followUp"] = <<>>
        /\ DOMAIN queue = Queues
    BY DEF BudgetInv, TypeOK
  <1>u. ASSUME spent' = spent PROVE OverCap' <=> OverCap BY <1>u DEF OverCap
  <1>a. ASSUME NEW o \in Ops, Active(o)
        PROVE  \A p \in Ops \ {o} : op[p].at \in Idlers
    BY <1>a, <1>i DEF OneInv
  <1>m. ASSUME NEW o \in Ops, MayStart(o) PROVE \A p \in Ops \ {o} : op[p].at \in Idlers
    BY <1>m, <1>i DEF MayStart, Settled
  <1>c. ASSUME NEW o \in Ops,
               \A p \in Ops \ {o} : op'[p] = op[p] /\ op[p].at \in Idlers,
               queue'["steer"] = <<>> /\ queue'["followUp"] = <<>>,
               BudgetOf(o)', op[o].at # "streaming" /\ op'[o].at = "streaming" => ~OverCap
        PROVE  Kept
    <2>1. ASSUME NEW p \in Ops \ {o} PROVE BudgetOf(p)' /\ op'[p].at = op[p].at
      <3>1. op'[p].at \in Idlers BY <1>c
      <3> QED BY <1>c, <3>1 DEF BudgetOf
    <2> QED BY <1>c, <2>1 DEF BudgetInv
  (* awaits where BudgetOf says nothing *)
  <1>o. ASSUME NEW o \in Ops,
               \/ op'[o].at \in {"done", "compaction", "branch_summary", "settling", "asking",
                                 "unwinding"}
               \/ Cleaning(op'[o])
        PROVE  BudgetOf(o)' /\ op'[o].at # "streaming"
    BY <1>o DEF BudgetOf, Cleaning
  <1>g. ASSUME NEW o \in Ops, NEW label \in Labels, Goto(o, label)
        PROVE  op'[o].at = label /\ \A p \in Ops \ {o} : op'[p] = op[p]
    <2>1. Becomes(o, [op[o] EXCEPT !.at = label]) BY <1>g, GotoUpdate
    <2>2. op[o] \in OpType BY DEF OpTyped
    <2> QED BY <2>1, <2>2 DEF Becomes, OpType
  <1>l. {"preparing", "done", "compaction", "branch_summary"} \subseteq Labels
    BY DEF Labels, Loop
  <1>1. ASSUME NEW o \in Ops, Prompt(o) PROVE Kept
    <2>1. op'[o].at = "preparing" /\ \A p \in Ops \ {o} : op'[p] = op[p]
      BY <1>1, <1>g, <1>l DEF Prompt
    <2>2. MayStart(o) /\ ~OverCap /\ UNCHANGED <<queue, spent>> BY <1>1 DEF Prompt
    <2>3. BudgetOf(o)' BY <1>u, <2>1, <2>2 DEF BudgetOf
    <2> QED BY <1>c, <1>m, <1>q, <2>1, <2>2, <2>3
  <1>2. ASSUME NEW o \in Ops, PromptOverCap(o) \/ StartStructural(o) PROVE Kept
    <2>1. \E label \in {"done", "compaction", "branch_summary"} : Goto(o, label)
      BY <1>2 DEF PromptOverCap, StartStructural
    <2>2. /\ op'[o].at \in {"done", "compaction", "branch_summary"}
          /\ \A p \in Ops \ {o} : op'[p] = op[p]
      BY <1>g, <1>l, <2>1
    <2>3. MayStart(o) /\ UNCHANGED queue BY <1>2 DEF PromptOverCap, StartStructural
    <2>4. BudgetOf(o)' /\ op'[o].at # "streaming" BY <1>o, <2>2
    <2> QED BY <1>c, <1>m, <1>q, <2>2, <2>3, <2>4
  <1>3. ASSUME NEW o \in Ops, EndStructural(o) \/ NavigateTree(o) PROVE Kept
    <2>1. op'[o].at = "done" /\ \A p \in Ops \ {o} : op'[p] = op[p]
      BY <1>3, <1>g, <1>l DEF EndStructural, NavigateTree
    <2>2. Active(o) BY <1>3, <1>i DEF EndStructural, NavigateTree
    <2>3. BudgetOf(o)' /\ op'[o].at # "streaming" BY <1>o, <2>1
    <2>4. UNCHANGED queue BY <1>3 DEF EndStructural, NavigateTree
    <2> QED BY <1>a, <1>c, <1>q, <2>1, <2>2, <2>3, <2>4
  <1>4. ASSUME NEW o \in Ops, StartStep(o) PROVE Kept
    <2>1. /\ spent' = spent
          /\ \A p \in Ops \ {o} : op'[p] = op[p]
          /\ op[o].at \in Starting
          /\ op'[o].at \in Starting \/ op'[o].at = "unwinding"
      BY <1>4, StartEffect
    <2>2. Active(o) BY <1>i, <2>1 DEF Starting
    <2>3. ~OverCap BY <2>1 DEF BudgetInv, BudgetOf, Starting
    <2>4. BudgetOf(o)' /\ op'[o].at # "streaming" BY <1>u, <2>1, <2>3 DEF BudgetOf, Starting
    <2>5. queue'["steer"] = <<>> /\ queue'["followUp"] = <<>>
      <3>1. \/ UNCHANGED queue
            \/ \E s : queue' = [queue EXCEPT !["nextTurn"] = s]
        BY <1>4 DEF StartStep, Prepare, PrepareFails, AnnounceNext, AnnounceNextFails,
                    StartLoopFails, harness
      <3> QED BY <1>q, <3>1 DEF Queues
    <2> QED BY <1>a, <1>c, <2>1, <2>2, <2>4, <2>5
  <1>5. ASSUME NEW o \in Ops, StartLoop(o) PROVE Kept
    <2> DEFINE r == [op[o] EXCEPT !.at = "prompting", !.reason = "toolUse", !.failing = FALSE]
    <2>1. op' = [op EXCEPT ![o] = r] BY <1>5 DEF StartLoop
    <2>2. Becomes(o, r) BY <2>1 DEF OpTyped, Becomes
    <2>3. r.at = "prompting" BY DEF OpTyped, OpType
    <2> HIDE DEF r
    <2>4. op'[o].at = "prompting" /\ \A p \in Ops \ {o} : op'[p] = op[p]
      BY <2>2, <2>3 DEF Becomes
    <2>5. op[o].at = "starting" /\ UNCHANGED <<queue, spent>> BY <1>5 DEF StartLoop
    <2>6. ~OverCap BY <2>5 DEF BudgetInv, BudgetOf
    <2>7. BudgetOf(o)' BY <1>u, <2>4, <2>5, <2>6 DEF BudgetOf
    <2>8. Active(o) BY <1>i, <2>5
    <2> QED BY <1>a, <1>c, <1>q, <2>4, <2>5, <2>7, <2>8
  <1>6. ASSUME NEW o \in Ops, LoopStep(o) PROVE Kept
    <2>1. op[o].at \in Controlled /\ \A p \in Ops \ {o} : op'[p] = op[p]
      BY <1>6, LoopEffect
    <2>2. Active(o) BY <1>i, <2>1 DEF Controlled, Loop
    <2>3. /\ queue'["steer"] = <<>> /\ queue'["followUp"] = <<>>
          /\ BudgetOf(o)'
          /\ op'[o].at = "streaming" /\ op[o].at # "streaming" => ~OverCap
      BY <1>6, BudgetLoop
    <2> QED BY <1>a, <1>c, <2>1, <2>2, <2>3
  <1>7. ASSUME NEW o \in Ops, GoIdle(o) \/ Settle(o) \/ Cleanup(o) \/ StopHere(o) \/ Finish(o)
        PROVE  Kept
    <2>1. /\ \/ op'[o].at \in {"settling", "asking", "unwinding", "done"}
             \/ Cleaning(op'[o])
          /\ \A p \in Ops \ {o} : op'[p] = op[p]
      BY <1>7, EndEffect
    <2>2. Active(o) BY <1>7, <1>i DEF GoIdle, Settle, Cleanup, StopHere, Finish
    <2>3. BudgetOf(o)' /\ op'[o].at # "streaming" BY <1>o, <2>1
    <2>4. UNCHANGED queue BY <1>7 DEF GoIdle, Settle, Cleanup, StopHere, Finish, harness
    <2> QED BY <1>a, <1>c, <1>q, <2>1, <2>2, <2>3, <2>4
  <1>8. ASSUME NEW o \in Ops, ContinueTurn(o) PROVE Kept
    <2>1. /\ \/ op'[o].at = "preparing" /\ ~OverCap
             \/ op'[o].at = "unwinding"
          /\ \A p \in Ops \ {o} : op'[p] = op[p]
      BY <1>8, EndEffect
    <2>2. Active(o) BY <1>8, <1>i DEF ContinueTurn
    <2>3. UNCHANGED <<queue, spent>> BY <1>8 DEF ContinueTurn, harness
    <2>4. BudgetOf(o)' BY <1>u, <2>1, <2>3 DEF BudgetOf
    <2> QED BY <1>a, <1>c, <1>q, <2>1, <2>2, <2>3, <2>4
  <1>9. ASSUME queue'["steer"] = <<>>, queue'["followUp"] = <<>>, OverCap' => OverCap,
               \A o \in Ops : /\ op'[o].at = op[o].at /\ op'[o].resume = op[o].resume
                              /\ op'[o].reason = op[o].reason
        PROVE  Kept
    <2>1. \A o \in Ops : BudgetOf(o)' BY <1>9 DEF BudgetInv, BudgetOf
    <2> QED BY <1>9, <2>1 DEF BudgetInv
  <1>10. ASSUME \/ Abort \/ ResetCost \/ UNCHANGED vars
                \/ \E q \in Sends : Send(q)
                \/ \E c \in Callers, kind \in WriteKinds : WriteIdle(c, kind) \/ WriteBusy(c, kind)
                \/ \E c \in Callers : CommitIdle(c) \/ WriteIdleFails(c)
         PROVE  Kept
    <2>1. queue'["steer"] = <<>> /\ queue'["followUp"] = <<>>
      <3>1. CASE Abort BY <1>q, <3>1 DEF Abort, Queues
      <3>2. CASE \E q \in Sends : Send(q)
        <4>1. \E s : queue' = [queue EXCEPT !["nextTurn"] = s]
          BY <3>2 DEF Send, NothingQueued
        <4> QED BY <1>q, <4>1 DEF Queues
      <3>3. CASE UNCHANGED queue BY <1>q, <3>3
      <3> QED BY <1>10, <3>1, <3>2, <3>3
          DEF ResetCost, WriteIdle, WriteBusy, CommitIdle, WriteIdleFails, vars, harness
    <2>2. OverCap' => OverCap
      <3>1. CASE ResetCost BY <3>1 DEF ResetCost, OverCap
      <3>2. CASE spent' = spent BY <1>u, <3>2
      <3> QED BY <1>10, <3>1, <3>2
          DEF Abort, Send, WriteIdle, WriteBusy, CommitIdle, WriteIdleFails, vars, harness
    <2>3. \A o \in Ops : /\ op'[o].at = op[o].at /\ op'[o].resume = op[o].resume
                         /\ op'[o].reason = op[o].reason
      BY <1>10, OtherEffect
    <2> QED BY <1>9, <2>1, <2>2, <2>3
  <1> QED
    BY <1>1, <1>2, <1>3, <1>4, <1>5, <1>6, <1>7, <1>8, <1>10, Moves

-----------------------------------------------------------------------------
LEMMA NextInv == IInv /\ [Next]_vars => IInv'
  <1> SUFFICES ASSUME IInv, [Next]_vars PROVE IInv' OBVIOUS
  <1>1. TypeOK /\ OpTyped /\ FormInv BY DEF IInv
  <1>2. OpTyped' /\ FormInv' BY <1>1, OpStep
  <1>3. TypeOK' BY <1>1, <1>2, TypeStep
  <1>4. OneAtATime => OneInv' /\ PlaceInv' BY <1>1, <1>2, PlaceStep DEF IInv
  <1>5. OneAtATime /\ NoContinuation => VisibleInv' BY <1>1, <1>2, VisibleStep DEF IInv
  <1>6. OneAtATime /\ NothingQueued => BudgetInv' BY <1>1, <1>2, BudgetStep DEF IInv
  <1>7. NoContinuation' = NoContinuation /\ NothingQueued' = NothingQueued
    BY DEF NoContinuation, NothingQueued
  <1> QED BY <1>2, <1>3, <1>4, <1>5, <1>6, <1>7 DEF IInv

LEMMA Invariance == Spec => []IInv
  <1> QED BY InitInv, NextInv, PTL DEF Spec

(* Every variable of the harness keeps its type: phase, run promise,       *)
(* controller, queues, pending writes, and each operation's locals.        *)
THEOREM HarnessTypeCorrect == Spec => []TypeOK
  <1>1. IInv => TypeOK BY DEF IInv
  <1> QED BY <1>1, Invariance, PTL

(* Callers that await one operation before the next find the harness as it *)
(* was before: whichever of its awaits an operation left by, failed or was *)
(* aborted at, the catch and finally blocks of prompt(), executeTurn() and *)
(* compact() between them reset the phase, the run promise and the abort   *)
(* controller.                                                             *)
THEOREM HarnessRestored == ASSUME OneAtATime PROVE Spec => []Restored
  <1>1. ASSUME IInv PROVE Restored
    <2>1. OneInv /\ PlaceInv /\ FormInv BY <1>1 DEF IInv
    <2>2. ASSUME Settled
          PROVE  /\ phase = "idle" /\ runPromise = None /\ controller = None
                 /\ \A o \in Ops : op[o].held = <<>> /\ op[o].writing = None
      <3>1. \A o \in Ops : op[o].at \in {"off", "done"} BY <2>2 DEF Settled, Active
      <3>2. \A o \in Ops : op[o].held = <<>> /\ op[o].writing = None
        BY <2>1, <3>1 DEF FormInv, FormOf
      <3>3. phase = "idle" /\ runPromise = None BY <2>1, <2>2 DEF PlaceInv
      <3>4. controller = None BY <2>1, <3>1 DEF PlaceInv, Controlled, Loop
      <3> QED BY <3>2, <3>3, <3>4
    <2> QED BY <2>2 DEF Restored
  <1> QED BY <1>1, Invariance, PTL

(* While a turn that does not continue another may still issue requests,   *)
(* the phase says so, abort() reaches its controller and waitForIdle()     *)
(* waits for its promise: at every await of the agent loop and at every    *)
(* flush inside it.                                                        *)
THEOREM HarnessRunVisible ==
    ASSUME OneAtATime, NoContinuation PROVE Spec => []RunVisible
  <1>1. ASSUME IInv PROVE RunVisible
    <2>1. PlaceInv /\ VisibleInv BY <1>1 DEF IInv
    <2>2. ASSUME NEW o \in Ops, Running(o)
          PROVE  phase # "idle" /\ controller = o /\ runPromise = o
      <3>1. phase # "idle" /\ controller = o BY <2>1, <2>2 DEF VisibleInv, VisibleOf
      <3>2. Active(o) /\ op[o].at \notin StructuralAt
        BY <2>2 DEF Running, Active, StructuralAt, Loop
      <3>3. runPromise = o BY <2>1, <3>2 DEF PlaceInv, PlaceOf
      <3> QED BY <3>1, <3>3
    <2> QED BY <2>2 DEF RunVisible
  <1> QED BY <1>1, Invariance, PTL

(* No request is issued once the recorded cost has reached the cap: the    *)
(* checks of prompt(), of the continuation loop and of                     *)
(* budgetCapStopsLoop cover every way to a request, as long as nothing is  *)
(* steered into a run or queued behind it.                                 *)
THEOREM HarnessNoRequestOverCap ==
    ASSUME OneAtATime, NothingQueued PROVE Spec => NoRequestOverCap
  <1>1. ASSUME IInv, IInv', [Next]_vars
        PROVE  [\A o \in Ops : op[o].at # "streaming" /\ op'[o].at = "streaming"
                                 => ~OverCap]_vars
    <2>1. TypeOK /\ OpTyped /\ OpTyped' /\ FormInv /\ OneInv /\ BudgetInv BY <1>1 DEF IInv
    <2> QED BY <1>1, <2>1, BudgetStep
  <1> QED BY <1>1, Invariance, PTL DEF Spec, NoRequestOverCap

-----------------------------------------------------------------------------
(* Counting the elements of a sequence that are in a set. *)

CountIn(P, s) == Cardinality({k \in DOMAIN s : s[k] \in P})

LEMMA CountType ==
    ASSUME NEW S, NEW s \in Seq(S), NEW P
    PROVE  /\ IsFiniteSet({k \in DOMAIN s : s[k] \in P})
           /\ CountIn(P, s) \in Nat
           /\ CountIn(P, s) = 0 <=> \A k \in DOMAIN s : s[k] \notin P
           /\ CountIn(P, s) <= 1 <=>
                 \A j, k \in DOMAIN s : s[j] \in P /\ s[k] \in P => j = k
  <1> DEFINE at == {k \in DOMAIN s : s[k] \in P}
  <1>1. IsFiniteSet(DOMAIN s)
    <2>1. Len(s) \in Nat /\ DOMAIN s = 1..Len(s) BY LenProperties
    <2> QED BY <2>1, FS_Interval
  <1>2. IsFiniteSet(at) BY <1>1, FS_Subset
  <1>3. Cardinality(at) \in Nat BY <1>2, FS_CardinalityType
  <1>4. Cardinality(at) = 0 <=> at = {} BY <1>2, FS_EmptySet
  <1>5. Cardinality(at) = 1 <=> \E k : at = {k} BY <1>2, FS_Singleton
  <1>6. Cardinality(at) <= 1 <=> \A j, k \in at : j = k
    <2>1. Cardinality(at) <= 1 <=> Cardinality(at) = 0 \/ Cardinality(at) = 1 BY <1>3
    <2>2. (at = {} \/ \E k : at = {k}) <=> \A j, k \in at : j = k
      <3>1. ASSUME \A j, k \in at : j = k, NEW k \in at PROVE at = {k} BY <3>1
      <3>2. (\A j, k \in at : j = k) => (at = {} \/ \E k : at = {k}) BY <3>1
      <3>3. (at = {} \/ \E k : at = {k}) => \A j, k \in at : j = k OBVIOUS
      <3> QED BY <3>2, <3>3
    <2> QED BY <1>4, <1>5, <2>1, <2>2
  <1> QED BY <1>2, <1>3, <1>4, <1>6 DEF CountIn

LEMMA CountConcat ==
    ASSUME NEW S, NEW s \in Seq(S), NEW t \in Seq(S), NEW P
    PROVE  CountIn(P, s \o t) = CountIn(P, s) + CountIn(P, t)
  <1> DEFINE n == Len(s)
             first == {k \in DOMAIN s : s[k] \in P}
             second == {k \in DOMAIN t : t[k] \in P}
             both == {k \in DOMAIN (s \o t) : (s \o t)[k] \in P}
             shifted == both \ first
             shift == [k \in second |-> k + n]
  <1>1. /\ n \in Nat /\ Len(t) \in Nat /\ DOMAIN s = 1..n /\ DOMAIN t = 1..Len(t)
        /\ s \o t \in Seq(S) /\ DOMAIN (s \o t) = 1..(n + Len(t))
        /\ \A k \in 1..(n + Len(t)) : (s \o t)[k] = IF k <= n THEN s[k] ELSE t[k - n]
    BY LenProperties, ConcatProperties
  <1>2. first \subseteq both BY <1>1
  <1>3. shift \in Bijection(second, shifted)
    <2>1. \A k \in second : k \in Nat \ {0} /\ k + n \in shifted BY <1>1
    <2>2. shift \in [second -> shifted] BY <2>1
    <2>3. \A j, k \in second : shift[j] = shift[k] => j = k BY <1>1, <2>1
    <2>4. \A k \in shifted : k - n \in second /\ shift[k - n] = k
      <3> TAKE k \in shifted
      <3>1. k - n \in second BY <1>1
      <3> QED BY <1>1, <3>1
    <2> QED BY <2>2, <2>3, <2>4 DEF Bijection, Injection, Surjection, IsInjective
  <1>4. IsFiniteSet(first) /\ IsFiniteSet(second) BY CountType
  <1>5. IsFiniteSet(shifted) /\ Cardinality(shifted) = Cardinality(second)
    BY <1>3, <1>4, FS_Bijection DEF ExistsBijection
  <1>6. both = first \cup shifted /\ first \cap shifted = {} BY <1>2
  <1>7. Cardinality(both) = Cardinality(first) + Cardinality(shifted) - Cardinality({})
    <2> HIDE DEF first, second, both, shifted
    <2> QED BY <1>4, <1>5, <1>6, FS_Union
  <1>8. Cardinality(first) \in Nat /\ Cardinality(second) \in Nat BY <1>4, FS_CardinalityType
  <1>9. CountIn(P, s) = Cardinality(first) /\ CountIn(P, t) = Cardinality(second)
        /\ CountIn(P, s \o t) = Cardinality(both)
    BY DEF CountIn
  <1> HIDE DEF first, second, both, shifted
  <1> QED BY <1>5, <1>7, <1>8, <1>9, FS_EmptySet

LEMMA CountEmpty == ASSUME NEW P PROVE CountIn(P, <<>>) = 0
  <1>1. {k \in DOMAIN <<>> : <<>>[k] \in P} = {} OBVIOUS
  <1> QED BY <1>1, FS_EmptySet DEF CountIn

LEMMA CountOne == ASSUME NEW e, NEW P PROVE CountIn(P, <<e>>) = One(e \in P)
  <1>1. {k \in DOMAIN <<e>> : <<e>>[k] \in P} = IF e \in P THEN {1} ELSE {} OBVIOUS
  <1> QED BY <1>1, FS_EmptySet, FS_Singleton DEF CountIn, One

LEMMA CountAppend ==
    ASSUME NEW S, NEW s \in Seq(S), NEW e \in S, NEW P
    PROVE  CountIn(P, Append(s, e)) = CountIn(P, s) + One(e \in P)
  <1>1. <<e>> \in Seq(S) /\ Append(s, e) = s \o <<e>> BY AppendIsConcat
  <1> QED BY <1>1, CountConcat, CountOne

LEMMA HeadThenTail ==
    ASSUME NEW S, NEW s \in Seq(S), s # <<>>
    PROVE  <<Head(s)>> \in Seq(S) /\ Tail(s) \in Seq(S) /\ s = <<Head(s)>> \o Tail(s)
  <1>1. /\ Head(s) \in S /\ Tail(s) \in Seq(S) /\ Len(Tail(s)) = Len(s) - 1
        /\ \A i \in 1..Len(Tail(s)) : Tail(s)[i] = s[i + 1]
        /\ Head(s) = s[1] /\ Len(s) \in Nat \ {0} /\ DOMAIN s = 1..Len(s)
    BY HeadTailProperties, LenProperties, EmptySeq
  <1>2. <<Head(s)>> \in Seq(S) /\ Len(<<Head(s)>>) = 1 BY <1>1
  <1>3. /\ <<Head(s)>> \o Tail(s) \in Seq(S) /\ Len(<<Head(s)>> \o Tail(s)) = Len(s)
        /\ \A i \in 1..Len(s) : (<<Head(s)>> \o Tail(s))[i] =
              IF i <= 1 THEN <<Head(s)>>[i] ELSE Tail(s)[i - 1]
    BY <1>1, <1>2, ConcatProperties
  <1>4. \A i \in 1..Len(s) : (<<Head(s)>> \o Tail(s))[i] = s[i]
    <2> TAKE i \in 1..Len(s)
    <2>1. CASE i = 1 BY <1>1, <1>3, <2>1
    <2>2. CASE i # 1
      <3>1. i - 1 \in 1..Len(Tail(s)) /\ (i - 1) + 1 = i BY <1>1, <2>2
      <3> QED BY <1>1, <1>3, <2>2, <3>1
    <2> QED BY <2>1, <2>2
  <1> DEFINE whole == <<Head(s)>> \o Tail(s)
  <1>5. whole \in Seq(S) /\ Len(s) = Len(whole) /\ \A i \in 1..Len(s) : s[i] = whole[i]
    BY <1>3, <1>4
  <1> HIDE DEF whole
  <1>6. s = whole BY <1>5, SeqEqual
  <1> QED BY <1>1, <1>2, <1>6 DEF whole

LEMMA CountTail ==
    ASSUME NEW S, NEW s \in Seq(S), s # <<>>, NEW P
    PROVE  CountIn(P, s) = One(Head(s) \in P) + CountIn(P, Tail(s))
  <1> DEFINE whole == <<Head(s)>> \o Tail(s)
  <1>1. <<Head(s)>> \in Seq(S) /\ Tail(s) \in Seq(S) /\ s = whole BY HeadThenTail
  <1>2. CountIn(P, whole) = CountIn(P, <<Head(s)>>) + CountIn(P, Tail(s)) BY <1>1, CountConcat
  <1>3. CountIn(P, <<Head(s)>>) = One(Head(s) \in P) BY CountOne
  <1> HIDE DEF whole
  <1> QED BY <1>1, <1>2, <1>3

-----------------------------------------------------------------------------
(* The messages: each accepted one is in one place. *)

Holding == {"announcingNext", "starting", "prompting", "announcing", "injecting"}

HeldBy(o, x) == x \in ToSet(op[o].held)
HeldAny(x) == \E o \in Ops : HeldBy(o, x)

QueueCopies(x) == Copies(x, queue.steer) + Copies(x, queue.followUp) + Copies(x, queue.nextTurn)

Places(x) ==
    QueueCopies(x) + One(HeldAny(x)) + Copies(x, session) + One(x \in cleared) + One(x \in dropped)

(* No message is held twice. *)
HeldOnce ==
    \A o, p \in Ops : \A i \in DOMAIN op[o].held, j \in DOMAIN op[p].held :
        op[o].held[i] = op[p].held[j] => o = p /\ i = j

MessageInv ==
    /\ \A x \in Messages : Places(x) = One(x.id <= sent)
    /\ HeldOnce
    /\ \A o \in Ops : op[o].held # <<>> => op[o].at \in Holding
    /\ dropped # {} => failures > 0

Typed == TypeOK /\ OpTyped /\ FormInv

LEMMA CopiesCount == \A x, s : Copies(x, s) = CountIn({x}, s)
  <1> TAKE x, s
  <1>1. {k \in DOMAIN s : s[k] = x} = {k \in DOMAIN s : s[k] \in {x}} OBVIOUS
  <1> QED BY <1>1 DEF Copies, CountIn

LEMMA CopiesType ==
    ASSUME NEW S, NEW s \in Seq(S), NEW x
    PROVE  /\ Copies(x, s) \in Nat
           /\ Copies(x, s) = 0 <=> x \notin ToSet(s)
           /\ Copies(x, s) <= 1 <=> \A j, k \in DOMAIN s : s[j] = x /\ s[k] = x => j = k
  <1>1. x \in ToSet(s) <=> \E k \in DOMAIN s : s[k] = x BY DEF ToSet
  <1> QED BY <1>1, CountType, CopiesCount

LEMMA MessageTypes ==
    ASSUME Typed
    PROVE  /\ \A q \in Queues : queue[q] \in Seq(Messages)
           /\ session \in Seq(Writes \cup Messages)
           /\ \A o \in Ops : op[o] \in OpType /\ op[o].held \in Seq(Messages)
           /\ {"steer", "followUp", "nextTurn"} = Queues
           /\ \A x \in Messages : /\ QueueCopies(x) \in Nat
                                  /\ Copies(x, session) \in Nat
                                  /\ One(HeldAny(x)) \in {0, 1} /\ One(x \in cleared) \in {0, 1}
                                  /\ One(x \in dropped) \in {0, 1}
  <1>1. \A q \in Queues : queue[q] \in Seq(Messages) BY DEF Typed, TypeOK
  <1>2. session \in Seq(Writes \cup Messages) BY DEF Typed, TypeOK
  <1>3. \A o \in Ops : op[o] \in OpType /\ op[o].held \in Seq(Messages) BY DEF Typed, OpTyped, OpType
  <1>4. {"steer", "followUp", "nextTurn"} = Queues BY DEF Queues
  <1>5. ASSUME NEW x \in Messages PROVE QueueCopies(x) \in Nat /\ Copies(x, session) \in Nat
    <2>1. /\ queue.steer \in Seq(Messages) /\ queue.followUp \in Seq(Messages)
          /\ queue.nextTurn \in Seq(Messages)
      BY <1>1, <1>4
    <2>2. /\ Copies(x, queue.steer) \in Nat /\ Copies(x, queue.followUp) \in Nat
          /\ Copies(x, queue.nextTurn) \in Nat /\ Copies(x, session) \in Nat
      BY <1>2, <2>1, CopiesType
    <2> QED BY <2>2 DEF QueueCopies
  <1> QED BY <1>1, <1>2, <1>3, <1>4, <1>5 DEF One

(* What replacing one queue does to the count. *)
LEMMA QueueChange ==
    ASSUME Typed, NEW q \in Queues, NEW s \in Seq(Messages), queue' = [queue EXCEPT ![q] = s],
           NEW x \in Messages
    PROVE  /\ QueueCopies(x)' \in Nat
           /\ QueueCopies(x)' + Copies(x, queue[q]) = QueueCopies(x) + Copies(x, s)
           /\ Copies(x, queue[q]) <= QueueCopies(x)
  <1>1. \A r \in Queues : queue[r] \in Seq(Messages) /\ Copies(x, queue[r]) \in Nat
    BY MessageTypes, CopiesType
  <1>2. Copies(x, s) \in Nat BY CopiesType
  <1>3. DOMAIN queue = Queues BY DEF Typed, TypeOK
  <1>4. q \in {"steer", "followUp", "nextTurn"} BY DEF Queues
  <1>5. {"steer", "followUp", "nextTurn"} \subseteq Queues BY DEF Queues
  <1>n. /\ Copies(x, queue.steer) \in Nat /\ Copies(x, queue.followUp) \in Nat
        /\ Copies(x, queue.nextTurn) \in Nat
    BY <1>1, <1>5
  <1>6. CASE q = "steer"
    <2>1. queue'.steer = s /\ queue'.followUp = queue.followUp /\ queue'.nextTurn = queue.nextTurn
      BY <1>3, <1>5, <1>6
    <2> QED BY <1>n, <1>2, <1>6, <2>1 DEF QueueCopies
  <1>7. CASE q = "followUp"
    <2>1. queue'.steer = queue.steer /\ queue'.followUp = s /\ queue'.nextTurn = queue.nextTurn
      BY <1>3, <1>5, <1>7
    <2> QED BY <1>n, <1>2, <1>7, <2>1 DEF QueueCopies
  <1>8. CASE q = "nextTurn"
    <2>1. queue'.steer = queue.steer /\ queue'.followUp = queue.followUp /\ queue'.nextTurn = s
      BY <1>3, <1>5, <1>8
    <2> QED BY <1>n, <1>2, <1>8, <2>1 DEF QueueCopies
  <1> QED BY <1>4, <1>6, <1>7, <1>8

(* Everything but the messages of queue q and the hands of operation o is *)
(* as before.                                                             *)
HeldElsewhere(o) == \A p \in Ops \ {o} : op'[p].held = op[p].held

(* Messages an operation takes in hand. *)
LEMMA HeldTaken ==
    ASSUME Typed, MessageInv, NEW o \in Ops, op[o].held = <<>>, HeldElsewhere(o),
           op'[o].held \in Seq(Messages),
           \A x \in Messages : Copies(x, op'[o].held) + One(HeldAny(x)) <= 1
    PROVE  /\ HeldOnce'
           /\ \A x \in Messages : One(HeldAny(x)') = One(HeldAny(x)) + Copies(x, op'[o].held)
  <1> DEFINE new == op'[o].held
  <1>0. new \in Seq(Messages) OBVIOUS
  <1>1. \A x : ~HeldBy(o, x) BY DEF HeldBy, ToSet
  <1>2. \A x \in Messages : Copies(x, new) \in Nat /\ Copies(x, new) <= 1
    BY <1>0, CopiesType DEF One
  <1>3. \A p \in Ops \ {o} : op'[p].held = op[p].held BY DEF HeldElsewhere
  <1>4. ASSUME NEW x \in Messages PROVE One(HeldAny(x)') = One(HeldAny(x)) + Copies(x, new)
    <2>1. HeldAny(x)' <=> HeldAny(x) \/ x \in ToSet(new) BY <1>1, <1>3 DEF HeldAny, HeldBy
    <2>2. x \in ToSet(new) <=> Copies(x, new) = 1 BY <1>0, <1>2, CopiesType
    <2>3. Copies(x, new) \in {0, 1} /\ (HeldAny(x) => Copies(x, new) = 0)
      BY <1>2 DEF One
    <2> HIDE DEF new
    <2>4. CASE HeldAny(x) BY <2>1, <2>3, <2>4 DEF One
    <2>5. CASE ~HeldAny(x) /\ Copies(x, new) = 1 BY <2>1, <2>2, <2>5 DEF One
    <2>6. CASE ~HeldAny(x) /\ Copies(x, new) = 0 BY <2>1, <2>2, <2>6 DEF One
    <2> QED BY <2>3, <2>4, <2>5, <2>6
  <1>5. ASSUME NEW p \in Ops, NEW r \in Ops, NEW i \in DOMAIN op'[p].held,
               NEW j \in DOMAIN op'[r].held, op'[p].held[i] = op'[r].held[j]
        PROVE  p = r /\ i = j
    <2>1. \A k \in DOMAIN new : new[k] \in Messages BY <1>0, ElementOfSeq, LenProperties
    <2>2. ASSUME NEW k \in DOMAIN new, NEW n \in Ops \ {o}, NEW l \in DOMAIN op[n].held,
                 op[n].held[l] = new[k]
          PROVE FALSE
      <3>1. HeldAny(new[k]) BY <2>2 DEF HeldAny, HeldBy, ToSet
      <3>2. Copies(new[k], new) # 0 BY <1>0, CopiesType DEF ToSet
      <3> QED BY <1>2, <2>1, <3>1, <3>2 DEF One
    <2>3. CASE p = o /\ r = o
      <3>1. \A k, l \in DOMAIN new : new[k] = op'[p].held[i] /\ new[l] = op'[p].held[i] => k = l
        BY <1>0, <1>2, <2>1, <2>3, CopiesType
      <3> QED BY <1>5, <2>3, <3>1
    <2>4. CASE p # o /\ r # o BY <1>3, <1>5, <2>4 DEF MessageInv, HeldOnce
    <2> QED BY <1>3, <1>5, <2>2, <2>3, <2>4
  <1> QED BY <1>4, <1>5 DEF HeldOnce

(* Messages an operation lets go of. *)
LEMMA HeldGone ==
    ASSUME Typed, MessageInv, NEW o \in Ops, HeldElsewhere(o), op'[o].held = <<>>
    PROVE  /\ HeldOnce'
           /\ \A x \in Messages :
                 /\ Copies(x, op[o].held) = One(HeldBy(o, x))
                 /\ One(HeldAny(x)) = One(HeldAny(x)') + One(HeldBy(o, x))
  <1>1. \A p \in Ops \ {o} : op'[p].held = op[p].held BY DEF HeldElsewhere
  <1>2. HeldOnce BY DEF MessageInv
  <1>3. HeldOnce' BY <1>1, <1>2 DEF HeldOnce
  <1>4. \A x \in Messages : HeldAny(x)' <=> HeldAny(x) /\ ~HeldBy(o, x)
    BY <1>1, <1>2 DEF HeldAny, HeldBy, HeldOnce, ToSet
  <1>5. ASSUME NEW x \in Messages PROVE Copies(x, op[o].held) = One(HeldBy(o, x))
    <2>1. op[o].held \in Seq(Messages) BY MessageTypes
    <2>2. Copies(x, op[o].held) \in Nat /\ Copies(x, op[o].held) <= 1 BY <1>2, <2>1, CopiesType DEF HeldOnce
    <2>3. Copies(x, op[o].held) = 0 <=> ~HeldBy(o, x) BY <2>1, CopiesType DEF HeldBy
    <2> QED BY <2>2, <2>3 DEF One
  <1>6. \A x \in Messages : HeldBy(o, x) => HeldAny(x) BY DEF HeldAny
  <1>7. \A x \in Messages : One(HeldAny(x)) = One(HeldAny(x)') + One(HeldBy(o, x))
    BY <1>4, <1>6 DEF One
  <1> QED BY <1>3, <1>5, <1>7

(* The effects a step can have on the messages. *)

LEMMA MessagesStay ==
    ASSUME Typed, MessageInv, UNCHANGED <<queue, sent, cleared, dropped>>,
           session' = session \/ \E w \in Writes : session' = Append(session, w),
           failures' = failures \/ Fails,
           \A o \in Ops : /\ op'[o].held = op[o].held
                          /\ op[o].held = <<>> \/ op'[o].at \in Holding
    PROVE  MessageInv'
  <1>1. \A x : HeldAny(x)' <=> HeldAny(x) BY DEF HeldAny, HeldBy
  <1>2. ASSUME NEW x \in Messages PROVE Copies(x, session') = Copies(x, session)
    <2>1. ASSUME NEW w \in Writes, session' = Append(session, w)
          PROVE Copies(x, session') = Copies(x, session)
      <3>1. w \notin {x} BY DEF Writes, Messages
      <3>2. session \in Seq(Writes \cup Messages) BY MessageTypes
      <3>3. CountIn({x}, Append(session, w)) = CountIn({x}, session) + One(w \in {x})
        BY <3>2, CountAppend
      <3>4. One(w \in {x}) = 0 BY <3>1 DEF One
      <3>5. CountIn({x}, session) \in Nat BY <3>2, CountType
      <3> QED BY <2>1, <3>3, <3>4, <3>5, CopiesCount
    <2> QED BY <2>1
  <1>3. \A x \in Messages : Places(x)' = Places(x)
    <2> TAKE x \in Messages
    <2>1. One(HeldAny(x))' = One(HeldAny(x)) BY <1>1 DEF One
    <2>2. QueueCopies(x)' = QueueCopies(x) BY DEF QueueCopies
    <2> QED BY <1>2, <2>1, <2>2 DEF Places
  <1>4. HeldOnce' BY DEF MessageInv, HeldOnce
  <1>5. dropped' # {} => failures' > 0
    <2>1. failures \in Nat BY HarnessAssumption DEF Typed, TypeOK
    <2> QED BY <2>1 DEF MessageInv, Fails
  <1> QED BY <1>3, <1>4, <1>5 DEF MessageInv

(* Operation o empties queue q, or takes its first message, in hand. *)
LEMMA MessagesTaken ==
    ASSUME Typed, MessageInv, NEW o \in Ops, NEW q \in Queues,
           NEW some \in Seq(Messages), NEW rest \in Seq(Messages), queue[q] = some \o rest,
           queue' = [queue EXCEPT ![q] = rest],
           op[o].held = <<>>, op'[o].held = some, op'[o].at \in Holding,
           \A p \in Ops \ {o} : op'[p] = op[p],
           UNCHANGED <<sent, session, cleared, dropped, failures>>
    PROVE  MessageInv'
  <1>1. ASSUME NEW x \in Messages
        PROVE  /\ QueueCopies(x)' + Copies(x, some) = QueueCopies(x)
               /\ QueueCopies(x)' \in Nat /\ Copies(x, some) \in Nat
               /\ Copies(x, some) + One(HeldAny(x)) <= 1
    <2>1. Copies(x, some \o rest) = Copies(x, some) + Copies(x, rest) BY CountConcat, CopiesCount
    <2>2. Copies(x, some) \in Nat /\ Copies(x, rest) \in Nat BY CopiesType
    <2>3. /\ QueueCopies(x)' \in Nat
          /\ QueueCopies(x)' + Copies(x, queue[q]) = QueueCopies(x) + Copies(x, rest)
          /\ Copies(x, queue[q]) <= QueueCopies(x)
      BY QueueChange
    <2>4. /\ QueueCopies(x) \in Nat /\ Copies(x, session) \in Nat
          /\ One(HeldAny(x)) \in {0, 1} /\ One(x \in cleared) \in {0, 1}
          /\ One(x \in dropped) \in {0, 1}
      BY MessageTypes
    <2>5. Places(x) \in {0, 1} BY DEF MessageInv, One
    <2>6. QueueCopies(x) + One(HeldAny(x)) <= 1 BY <2>4, <2>5 DEF Places
    <2> QED BY <2>1, <2>2, <2>3, <2>4, <2>6
  <1>2. HeldElsewhere(o) BY DEF HeldElsewhere
  <1>3. /\ HeldOnce'
        /\ \A x \in Messages : One(HeldAny(x)') = One(HeldAny(x)) + Copies(x, some)
    BY <1>1, <1>2, HeldTaken
  <1>4. \A x \in Messages : Places(x)' = Places(x)
    <2> TAKE x \in Messages
    <2>1. /\ Copies(x, session) \in Nat
          /\ One(HeldAny(x)) \in {0, 1} /\ One(x \in cleared) \in {0, 1}
          /\ One(x \in dropped) \in {0, 1}
      BY MessageTypes
    <2>2. Places(x)' = QueueCopies(x)' + One(HeldAny(x)') + Copies(x, session)
                         + One(x \in cleared) + One(x \in dropped)
      BY DEF Places
    <2> QED BY <1>1, <1>3, <2>1, <2>2 DEF Places
  <1> QED BY <1>3, <1>4 DEF MessageInv

(* A failed announcement puts them back in front. *)
LEMMA MessagesReturned ==
    ASSUME Typed, MessageInv, NEW o \in Ops, NEW q \in Queues,
           queue' = [queue EXCEPT ![q] = op[o].held \o @],
           op'[o].held = <<>>, \A p \in Ops \ {o} : op'[p] = op[p],
           UNCHANGED <<sent, session, cleared, dropped>>, Fails
    PROVE  MessageInv'
  <1>1. HeldElsewhere(o) BY DEF HeldElsewhere
  <1>2. /\ HeldOnce'
        /\ \A x \in Messages :
              /\ Copies(x, op[o].held) = One(HeldBy(o, x))
              /\ One(HeldAny(x)) = One(HeldAny(x)') + One(HeldBy(o, x))
    BY <1>1, HeldGone
  <1>3. \A x \in Messages : Places(x)' = Places(x)
    <2> TAKE x \in Messages
    <2>1. op[o].held \in Seq(Messages) /\ queue[q] \in Seq(Messages) BY MessageTypes
    <2>2. op[o].held \o queue[q] \in Seq(Messages) BY <2>1, ConcatProperties
    <2>3. queue' = [queue EXCEPT ![q] = op[o].held \o queue[q]] OBVIOUS
    <2>4. Copies(x, op[o].held \o queue[q]) = Copies(x, op[o].held) + Copies(x, queue[q])
      BY <2>1, CountConcat, CopiesCount
    <2>5. /\ QueueCopies(x)' \in Nat
          /\ QueueCopies(x)' + Copies(x, queue[q])
               = QueueCopies(x) + Copies(x, op[o].held \o queue[q])
      BY <2>2, <2>3, QueueChange
    <2>6. Copies(x, queue[q]) \in Nat /\ Copies(x, op[o].held) \in Nat BY <2>1, CopiesType
    <2>7. /\ QueueCopies(x) \in Nat /\ Copies(x, session) \in Nat
          /\ One(HeldAny(x)) \in {0, 1} /\ One(x \in cleared) \in {0, 1}
          /\ One(x \in dropped) \in {0, 1} /\ One(HeldAny(x)') \in {0, 1}
          /\ One(HeldBy(o, x)) \in {0, 1}
      BY MessageTypes DEF One
    <2>8. Places(x)' = QueueCopies(x)' + One(HeldAny(x)') + Copies(x, session)
                         + One(x \in cleared) + One(x \in dropped)
      BY DEF Places
    <2>9. Places(x) = QueueCopies(x) + One(HeldAny(x)) + Copies(x, session)
                        + One(x \in cleared) + One(x \in dropped)
      BY DEF Places
    <2>10. /\ Copies(x, op[o].held) = One(HeldBy(o, x))
           /\ One(HeldAny(x)) = One(HeldAny(x)') + One(HeldBy(o, x))
      BY <1>2
    <2>11. QueueCopies(x)' = QueueCopies(x) + One(HeldBy(o, x))
      BY <2>4, <2>5, <2>6, <2>7, <2>10
    <2>12. QueueCopies(x)' + One(HeldAny(x)') = QueueCopies(x) + One(HeldAny(x))
      BY <2>7, <2>10, <2>11
    <2> QED BY <2>7, <2>8, <2>9, <2>11, <2>12
  <1>4. failures' > 0
    <2>1. failures \in Nat BY HarnessAssumption DEF Typed, TypeOK
    <2> QED BY <2>1 DEF Fails
  <1> QED BY <1>2, <1>3, <1>4 DEF MessageInv

(* A failure takes what the operation held down with it. *)
LEMMA MessagesDropped ==
    ASSUME Typed, MessageInv, NEW o \in Ops, Drop(o),
           op'[o].held = <<>>, \A p \in Ops \ {o} : op'[p] = op[p],
           UNCHANGED <<queue, sent, session, cleared>>, Fails
    PROVE  MessageInv'
  <1>1. HeldElsewhere(o) BY DEF HeldElsewhere
  <1>2. /\ HeldOnce'
        /\ \A x \in Messages : One(HeldAny(x)) = One(HeldAny(x)') + One(HeldBy(o, x))
    BY <1>1, HeldGone
  <1>3. \A x \in Messages : Places(x)' = Places(x)
    <2> TAKE x \in Messages
    <2>1. /\ QueueCopies(x) \in Nat /\ Copies(x, session) \in Nat
          /\ One(HeldAny(x)) \in {0, 1} /\ One(x \in cleared) \in {0, 1}
          /\ One(x \in dropped) \in {0, 1} /\ One(HeldAny(x)') \in {0, 1}
          /\ One(HeldBy(o, x)) \in {0, 1}
      BY MessageTypes DEF One
    <2>2. x \in dropped' <=> x \in dropped \/ HeldBy(o, x) BY DEF Drop, HeldBy
    <2>3. ~(HeldBy(o, x) /\ x \in dropped)
      <3>1. ASSUME HeldBy(o, x), x \in dropped PROVE FALSE
        <4>1. HeldAny(x) BY <3>1 DEF HeldAny
        <4>2. One(HeldAny(x)) = 1 /\ One(x \in dropped) = 1 BY <3>1, <4>1 DEF One
        <4>3. Places(x) \in {0, 1} BY DEF MessageInv, One
        <4> QED BY <2>1, <4>2, <4>3 DEF Places
      <3> QED BY <3>1
    <2>4. One(x \in dropped') = One(x \in dropped) + One(HeldBy(o, x)) BY <2>2, <2>3 DEF One
    <2>5. QueueCopies(x)' = QueueCopies(x) BY DEF QueueCopies
    <2>6. Places(x)' = QueueCopies(x)' + One(HeldAny(x)') + Copies(x, session)
                         + One(x \in cleared) + One(x \in dropped')
      BY DEF Places
    <2> QED BY <1>2, <2>1, <2>4, <2>5, <2>6 DEF Places
  <1>4. failures' > 0
    <2>1. failures \in Nat BY HarnessAssumption DEF Typed, TypeOK
    <2> QED BY <2>1 DEF Fails
  <1> QED BY <1>2, <1>3, <1>4 DEF MessageInv

LEMMA MessageInjected ==
    ASSUME Typed, MessageInv, NEW o \in Ops, op[o].held # <<>>,
           op'[o].held = Tail(op[o].held), op'[o].at \in Holding,
           \A p \in Ops \ {o} : op'[p] = op[p],
           session' = Append(session, Head(op[o].held)),
           UNCHANGED <<queue, sent, cleared, dropped, failures>>
    PROVE  MessageInv'
  <1> DEFINE held == op[o].held
  <1>1. /\ held \in Seq(Messages) /\ Len(held) \in Nat \ {0} /\ DOMAIN held = 1..Len(held)
        /\ Head(held) = held[1] /\ Head(held) \in Messages
        /\ Tail(held) \in Seq(Messages) /\ Len(Tail(held)) = Len(held) - 1
        /\ DOMAIN Tail(held) = 1..(Len(held) - 1)
        /\ \A i \in 1..(Len(held) - 1) : Tail(held)[i] = held[i + 1]
    BY MessageTypes, HeadTailProperties, LenProperties, EmptySeq
  <1>2. HeldOnce BY DEF MessageInv
  <1>3. \A i, j \in DOMAIN held : held[i] = held[j] => i = j BY <1>2 DEF HeldOnce
  <1>4. \A i \in DOMAIN Tail(held) : i + 1 \in DOMAIN held /\ Tail(held)[i] = held[i + 1]
    BY <1>1
  <1>5. HeldOnce'
    <2> SUFFICES ASSUME NEW p \in Ops, NEW r \in Ops, NEW i \in DOMAIN op'[p].held,
                        NEW j \in DOMAIN op'[r].held, op'[p].held[i] = op'[r].held[j]
                 PROVE  p = r /\ i = j
      BY DEF HeldOnce
    <2>1. CASE p = o /\ r = o
      <3>0. /\ i \in DOMAIN Tail(held) /\ j \in DOMAIN Tail(held)
            /\ Tail(held)[i] = Tail(held)[j]
        BY <2>1
      <3>1. held[i + 1] = held[j + 1] /\ i + 1 \in DOMAIN held /\ j + 1 \in DOMAIN held
        BY <1>4, <3>0
      <3>n. i \in Nat /\ j \in Nat BY <1>1, <3>0
      <3>2. i + 1 = j + 1 BY <1>3, <3>1
      <3> QED BY <2>1, <3>n, <3>2
    <2>2. CASE p = o /\ r # o
      <3>1. i + 1 \in DOMAIN held /\ held[i + 1] = op[r].held[j] /\ j \in DOMAIN op[r].held
        BY <1>4, <2>2
      <3> QED BY <1>2, <2>2, <3>1 DEF HeldOnce
    <2>3. CASE p # o /\ r = o
      <3>1. j + 1 \in DOMAIN held /\ held[j + 1] = op[p].held[i] /\ i \in DOMAIN op[p].held
        BY <1>4, <2>3
      <3> QED BY <1>2, <2>3, <3>1 DEF HeldOnce
    <2>4. CASE p # o /\ r # o BY <1>2, <2>4 DEF HeldOnce
    <2> QED BY <2>1, <2>2, <2>3, <2>4
  <1>6. ASSUME NEW x \in Messages PROVE Places(x)' = Places(x)
    <2>1. HeldBy(o, x) <=> x = Head(held) \/ x \in ToSet(Tail(held))
      <3>1. HeldBy(o, x) <=> \E i \in 1..Len(held) : held[i] = x BY <1>1 DEF HeldBy, ToSet
      <3>2. x \in ToSet(Tail(held)) <=> \E i \in 1..(Len(held) - 1) : held[i + 1] = x
        <4>1. x \in ToSet(Tail(held)) <=> \E i \in DOMAIN Tail(held) : Tail(held)[i] = x
          BY DEF ToSet
        <4> HIDE DEF held
        <4> QED BY <1>1, <4>1
      <3>3. \A i \in 1..Len(held) : i = 1 \/ (i - 1 \in 1..(Len(held) - 1) /\ (i - 1) + 1 = i)
        BY <1>1
      <3>4. \A i \in 1..(Len(held) - 1) : i + 1 \in 1..Len(held) BY <1>1
      <3>5. 1 \in 1..Len(held) BY <1>1
      <3> QED BY <1>1, <3>1, <3>2, <3>3, <3>4, <3>5
    <2>2. x = Head(held) => x \notin ToSet(Tail(held))
      <3>1. ASSUME x = Head(held), NEW i \in DOMAIN Tail(held), Tail(held)[i] = x PROVE FALSE
        <4>1. i + 1 \in DOMAIN held /\ held[i + 1] = held[1] /\ 1 \in DOMAIN held
          BY <1>1, <1>4, <3>1
        <4>2. i + 1 = 1 /\ i \in 1..(Len(held) - 1) BY <1>1, <1>3, <4>1
        <4> QED BY <1>1, <4>2
      <3> QED BY <3>1 DEF ToSet
    <2>3. x = Head(held) => \A p \in Ops \ {o} : ~HeldBy(p, x)
      <3>1. 1 \in DOMAIN held /\ held[1] = Head(held) BY <1>1
      <3> QED BY <1>2, <3>1 DEF HeldOnce, HeldBy, ToSet
    <2>4. HeldBy(o, x)' <=> x \in ToSet(Tail(held)) BY DEF HeldBy
    <2>5. \A p \in Ops \ {o} : HeldBy(p, x)' <=> HeldBy(p, x) BY DEF HeldBy
    <2>6. HeldAny(x) <=> HeldAny(x)' \/ x = Head(held) BY <2>1, <2>4, <2>5 DEF HeldAny
    <2>7. x = Head(held) => ~HeldAny(x)' BY <2>2, <2>3, <2>4, <2>5 DEF HeldAny
    <2>8. One(HeldAny(x)) = One(HeldAny(x)') + One(x = Head(held)) BY <2>6, <2>7 DEF One
    <2>9. Copies(x, session)' = Copies(x, session) + One(x = Head(held))
      <3>1. session \in Seq(Writes \cup Messages) /\ Head(held) \in Writes \cup Messages
        BY <1>1, MessageTypes
      <3>2. CountIn({x}, Append(session, Head(held)))
              = CountIn({x}, session) + One(Head(held) \in {x})
        BY <3>1, CountAppend
      <3>3. One(Head(held) \in {x}) = One(x = Head(held)) BY DEF One
      <3> QED BY <3>2, <3>3, CopiesCount
    <2>10. /\ QueueCopies(x) \in Nat /\ Copies(x, session) \in Nat
           /\ One(HeldAny(x)) \in {0, 1} /\ One(x \in cleared) \in {0, 1}
           /\ One(x \in dropped) \in {0, 1} /\ One(HeldAny(x)') \in {0, 1}
           /\ One(x = Head(held)) \in {0, 1}
      BY MessageTypes DEF One
    <2>11. QueueCopies(x)' = QueueCopies(x) BY DEF QueueCopies
    <2>12. Places(x)' = QueueCopies(x)' + One(HeldAny(x)') + Copies(x, session)'
                         + One(x \in cleared) + One(x \in dropped)
      BY DEF Places
    <2> HIDE DEF held
    <2>13. Places(x) = QueueCopies(x) + One(HeldAny(x)) + Copies(x, session)
                         + One(x \in cleared) + One(x \in dropped)
      BY DEF Places
    <2>14. One(HeldAny(x)') + Copies(x, session)' = One(HeldAny(x)) + Copies(x, session)
      BY <2>8, <2>9, <2>10
    <2>15. Copies(x, session)' \in Nat BY <2>9, <2>10
    <2>16. Places(x)' = QueueCopies(x) + (One(HeldAny(x)') + Copies(x, session)')
                          + One(x \in cleared) + One(x \in dropped)
      BY <2>10, <2>11, <2>12, <2>15
    <2>17. Places(x) = QueueCopies(x) + (One(HeldAny(x)) + Copies(x, session))
                         + One(x \in cleared) + One(x \in dropped)
      BY <2>10, <2>13
    <2> QED BY <2>14, <2>16, <2>17
  <1> QED BY <1>5, <1>6 DEF MessageInv


LEMMA MessageSent ==
    ASSUME Typed, MessageInv, NEW q \in Queues, Send(q) PROVE MessageInv'
  <1> DEFINE m == [id |-> sent + 1, kind |-> "user"]
  <1>1. /\ sent \in Nat /\ sent' = sent + 1 /\ m \in Messages
        /\ queue' = [queue EXCEPT ![q] = Append(queue[q], m)]
    BY HarnessAssumption DEF Typed, TypeOK, Send, Messages
  <1>2. /\ queue[q] \in Seq(Messages) /\ Append(queue[q], m) \in Seq(Messages)
    BY <1>1, MessageTypes, AppendProperties
  <1> HIDE DEF m
  <1>3. UNCHANGED <<op, session, cleared, dropped, failures>> BY DEF Send, store, history
  <1>4. ASSUME NEW x \in Messages PROVE Places(x)' = One(x.id <= sent')
    <2>1. Copies(x, Append(queue[q], m)) = Copies(x, queue[q]) + One(x = m)
      <3>1. CountIn({x}, Append(queue[q], m)) = CountIn({x}, queue[q]) + One(m \in {x})
        BY <1>1, <1>2, CountAppend
      <3>2. One(m \in {x}) = One(x = m) BY DEF One
      <3> QED BY <3>1, <3>2, CopiesCount
    <2>2. /\ QueueCopies(x)' \in Nat
          /\ QueueCopies(x)' + Copies(x, queue[q])
               = QueueCopies(x) + Copies(x, Append(queue[q], m))
      BY <1>1, <1>2, QueueChange
    <2>3. Copies(x, queue[q]) \in Nat BY <1>2, CopiesType
    <2>4. /\ QueueCopies(x) \in Nat /\ Copies(x, session) \in Nat
          /\ One(HeldAny(x)) \in {0, 1} /\ One(x \in cleared) \in {0, 1}
          /\ One(x \in dropped) \in {0, 1} /\ One(x = m) \in {0, 1}
      BY MessageTypes DEF One
    <2>5. QueueCopies(x)' = QueueCopies(x) + One(x = m) BY <2>1, <2>2, <2>3, <2>4
    <2>6. Places(x)' = QueueCopies(x)' + One(HeldAny(x)) + Copies(x, session)
                         + One(x \in cleared) + One(x \in dropped)
      BY <1>3 DEF Places, HeldAny, HeldBy
    <2>7. Places(x)' = Places(x) + One(x = m) BY <2>4, <2>5, <2>6 DEF Places
    <2>8. Places(x) = One(x.id <= sent) BY DEF MessageInv
    <2>9. One(x.id <= sent') = One(x.id <= sent) + One(x = m)
      <3>1. x.id \in Nat /\ (x = m <=> x.id = sent + 1)
        BY HarnessAssumption DEF Messages, m
      <3> QED BY <1>1, <3>1 DEF One
    <2> QED BY <2>7, <2>8, <2>9
  <1> QED BY <1>3, <1>4 DEF MessageInv, HeldOnce

(* abort() reports what it takes out of the queues. *)
LEMMA MessagesAborted == ASSUME Typed, MessageInv, Abort PROVE MessageInv'
  <1>1. \A o \in Ops : op'[o].held = op[o].held /\ op'[o].at = op[o].at
    BY MessageTypes DEF Abort, OpType
  <1>2. /\ queue'.steer = <<>> /\ queue'.followUp = <<>> /\ queue'.nextTurn = queue.nextTurn
        /\ cleared' = cleared \cup ToSet(queue.steer) \cup ToSet(queue.followUp)
        /\ UNCHANGED <<session, sent, dropped, failures>>
    BY DEF Abort, store, env, Typed, TypeOK, Queues
  <1>3. ASSUME NEW x \in Messages PROVE Places(x)' = Places(x)
    <2>1. /\ queue.steer \in Seq(Messages) /\ queue.followUp \in Seq(Messages)
          /\ queue.nextTurn \in Seq(Messages)
      BY MessageTypes
    <2>2. /\ Copies(x, queue.steer) \in Nat /\ Copies(x, queue.followUp) \in Nat
          /\ Copies(x, queue.nextTurn) \in Nat
          /\ Copies(x, queue.steer) = 0 <=> x \notin ToSet(queue.steer)
          /\ Copies(x, queue.followUp) = 0 <=> x \notin ToSet(queue.followUp)
      BY <2>1, CopiesType
    <2>3. /\ Copies(x, session) \in Nat
          /\ One(HeldAny(x)) \in {0, 1} /\ One(x \in cleared) \in {0, 1}
          /\ One(x \in dropped) \in {0, 1}
      BY MessageTypes
    <2>4. QueueCopies(x)' = Copies(x, queue.nextTurn)
      <3>1. Copies(x, <<>>) = 0 BY CountEmpty, CopiesCount
      <3>2. /\ Copies(x, queue'.steer) = 0 /\ Copies(x, queue'.followUp) = 0
            /\ Copies(x, queue'.nextTurn) = Copies(x, queue.nextTurn)
        BY <1>2, <3>1
      <3> QED BY <2>2, <3>2 DEF QueueCopies
    <2>5. Places(x) \in {0, 1} BY DEF MessageInv, One
    <2>6. Copies(x, queue.steer) + Copies(x, queue.followUp) + One(x \in cleared) <= 1
      BY <2>2, <2>3, <2>5 DEF Places, QueueCopies
    <2>7. One(x \in cleared') = Copies(x, queue.steer) + Copies(x, queue.followUp)
                                  + One(x \in cleared)
      <3>1. x \in cleared' <=> \/ x \in cleared \/ Copies(x, queue.steer) # 0
                               \/ Copies(x, queue.followUp) # 0
        BY <1>2, <2>2
      <3> QED BY <2>2, <2>6, <3>1 DEF One
    <2>8. One(HeldAny(x)') = One(HeldAny(x)) BY <1>1 DEF One, HeldAny, HeldBy
    <2>9. Places(x)' = QueueCopies(x)' + One(HeldAny(x)) + Copies(x, session)
                         + One(x \in cleared') + One(x \in dropped)
      BY <1>2, <2>8 DEF Places
    <2> QED BY <2>2, <2>3, <2>4, <2>7, <2>9 DEF Places, QueueCopies
  <1> QED BY <1>1, <1>2, <1>3 DEF MessageInv, HeldOnce

(* A drain takes a first part of the queue. *)
LEMMA DrainSplits ==
    ASSUME Typed, NEW q \in Queues
    PROVE  /\ Drained(q) \in Seq(Messages)
           /\ SubSeq(queue[q], Len(Drained(q)) + 1, Len(queue[q])) \in Seq(Messages)
           /\ queue[q] = Drained(q) \o SubSeq(queue[q], Len(Drained(q)) + 1, Len(queue[q]))
  <1>1. queue[q] \in Seq(Messages) /\ Len(queue[q]) \in Nat BY MessageTypes, LenProperties
  <1>2. CASE AllAtOnce \/ queue[q] = <<>>
    <2>1. Drained(q) = queue[q] BY <1>2 DEF Drained
    <2>2. SubSeq(queue[q], Len(queue[q]) + 1, Len(queue[q])) = <<>> BY <1>1
    <2>3. queue[q] \o <<>> = queue[q] BY <1>1, ConcatEmptySeq
    <2> QED BY <1>1, <2>1, <2>2, <2>3, EmptySeq
  <1>3. CASE ~(AllAtOnce \/ queue[q] = <<>>)
    <2>1. Drained(q) = <<Head(queue[q])>> /\ Head(queue[q]) \in Messages
          /\ Tail(queue[q]) \in Seq(Messages)
      BY <1>1, <1>3, HeadTailProperties DEF Drained
    <2>2. SubSeq(queue[q], 2, Len(queue[q])) = Tail(queue[q])
      BY <1>1, <1>3, TailIsSubSeq
    <2>3. queue[q] = <<Head(queue[q])>> \o Tail(queue[q]) BY <1>1, <1>3, HeadThenTail
    <2>4. Len(Drained(q)) + 1 = 2 BY <2>1
    <2> QED BY <2>1, <2>2, <2>3, <2>4
  <1> QED BY <1>2, <1>3

-----------------------------------------------------------------------------
LEMMA MessageInit == Init => MessageInv
  <1> SUFFICES ASSUME Init PROVE MessageInv OBVIOUS
  <1>1. \A o \in Ops : op[o].held = <<>> BY DEF Init, Fresh
  <1>2. \A x : ~HeldAny(x) BY <1>1 DEF HeldAny, HeldBy, ToSet
  <1>3. ASSUME NEW x \in Messages PROVE Places(x) = One(x.id <= sent)
    <2>1. Copies(x, <<>>) = 0 BY CountEmpty, CopiesCount
    <2>2. /\ queue.steer = <<>> /\ queue.followUp = <<>> /\ queue.nextTurn = <<>>
          /\ session = <<>> /\ cleared = {} /\ dropped = {} /\ sent = 0
      BY DEF Init, Queues
    <2>3. QueueCopies(x) = 0 BY <2>1, <2>2 DEF QueueCopies
    <2>4. x.id \in Nat \ {0} BY HarnessAssumption DEF Messages
    <2> QED BY <1>2, <2>1, <2>2, <2>3, <2>4 DEF Places, One
  <1> QED BY <1>1, <1>3 DEF Init, MessageInv, HeldOnce

(* The steps of an operation. *)
LEMMA MessageLoop ==
    ASSUME Typed, MessageInv, NEW o \in Ops, Advance(o) \/ Respond(o) \/ Break(o)
    PROVE  MessageInv'
  <1> USE HarnessAssumption
  <1>r. /\ op[o] \in OpType /\ OpTyped /\ TypeOK /\ FormOf(op[o])
        /\ op[o].held # <<>> => op[o].at \in Holding
    BY DEF Typed, OpTyped, FormInv, MessageInv
  (* o moves on, with its hands as they were *)
  <1>a. ASSUME NEW r, op' = [op EXCEPT ![o] = r], r.held = op[o].held,
               r.held = <<>> \/ r.at \in Holding,
               UNCHANGED <<queue, sent, cleared, dropped>>,
               session' = session \/ \E w \in Writes : session' = Append(session, w),
               failures' = failures \/ Fails
        PROVE  MessageInv'
    <2>1. op'[o] = r /\ \A p \in Ops \ {o} : op'[p] = op[p] BY <1>a, <1>r DEF OpTyped
    <2>2. \A p \in Ops : /\ op'[p].held = op[p].held
                         /\ op[p].held = <<>> \/ op'[p].at \in Holding
      BY <1>a, <2>1 DEF MessageInv
    <2> QED BY <1>a, <2>2, MessagesStay
  <1>b. ASSUME NEW label, Goto(o, label), op[o].held = <<>> \/ label \in Holding,
               UNCHANGED <<queue, sent, cleared, dropped, session, failures>>
        PROVE  MessageInv'
    <2> DEFINE r == [op[o] EXCEPT !.at = label]
    <2>1. r.held = op[o].held /\ r.at = label BY <1>r DEF OpType
    <2>2. op' = [op EXCEPT ![o] = r] BY <1>b DEF Goto
    <2> HIDE DEF r
    <2> QED BY <1>a, <1>b, <2>1, <2>2
  <1>c. ASSUME NEW r \in OpType, NEW label \in Flushes, r.held = <<>>, op[o].held = <<>>,
               op' = [op EXCEPT ![o] = Flushing(r, label)],
               UNCHANGED <<queue, sent, cleared, dropped, session, failures>>
        PROVE  MessageInv'
    <2>1. Flushing(r, label).held = <<>> BY <1>c, <1>r, FlushingType
    <2> QED BY <1>a, <1>c, <2>1
  <1>q. ASSUME op[o].at \notin Holding PROVE op[o].held = <<>> BY <1>q, <1>r
  <1>1. ASSUME Prepare(o) PROVE MessageInv'
    <2>1. op[o].held = <<>> BY <1>1, <1>q DEF Prepare, Holding
    <2>2. queue.nextTurn \in Seq(Messages) /\ queue.nextTurn = queue.nextTurn \o <<>>
          /\ "nextTurn" \in Queues /\ <<>> \in Seq(Messages)
      BY MessageTypes, ConcatEmptySeq, EmptySeq
    <2>3. op'[o].held = queue.nextTurn /\ op'[o].at \in Holding
          /\ \A p \in Ops \ {o} : op'[p] = op[p]
      BY <1>1, <1>r DEF Prepare, OpTyped, OpType, Holding
    <2>4. queue' = [queue EXCEPT !["nextTurn"] = <<>>]
          /\ UNCHANGED <<sent, session, cleared, dropped, failures>>
      BY <1>1 DEF Prepare, store, env, history
    <2> QED BY <2>1, <2>2, <2>3, <2>4, MessagesTaken
  <1>2. ASSUME PrepareFails(o) PROVE MessageInv'
    <2>1. op[o].held = <<>> BY <1>2, <1>q DEF PrepareFails, Holding
    <2>2. Rejected(op[o]).held = <<>> BY <1>r, RejectedType
    <2> QED BY <1>2, <1>a, <2>1, <2>2 DEF PrepareFails, harness, store, history
  <1>3. ASSUME AnnounceNext(o) PROVE MessageInv'
    BY <1>3, <1>b DEF AnnounceNext, Holding, harness, store, env, history
  <1>4. ASSUME AnnounceNextFails(o) PROVE MessageInv'
    <2>1. op'[o].held = <<>> /\ \A p \in Ops \ {o} : op'[p] = op[p]
      BY <1>4, <1>r, RejectedType DEF AnnounceNextFails, OpTyped
    <2>2. /\ queue' = [queue EXCEPT !["nextTurn"] = op[o].held \o @] /\ Fails
          /\ UNCHANGED <<sent, session, cleared, dropped>>
      BY <1>4 DEF AnnounceNextFails, store, history
    <2>3. "nextTurn" \in Queues BY DEF Queues
    <2> QED BY <2>1, <2>2, <2>3, MessagesReturned
  <1>5. ASSUME StartLoop(o) PROVE MessageInv'
    <2> DEFINE r == [op[o] EXCEPT !.at = "prompting", !.reason = "toolUse", !.failing = FALSE]
    <2>1. r.held = op[o].held /\ r.at \in Holding BY <1>r DEF OpType, Holding
    <2>2. op' = [op EXCEPT ![o] = r] BY <1>5 DEF StartLoop
    <2> HIDE DEF r
    <2> QED BY <1>5, <1>a, <2>1, <2>2 DEF StartLoop, store, env, history
  <1>6. ASSUME StartLoopFails(o) PROVE MessageInv'
    <2>1. op'[o].held = <<>> /\ \A p \in Ops \ {o} : op'[p] = op[p]
      BY <1>6, <1>r, RejectedType DEF StartLoopFails, OpTyped
    <2> QED BY <1>6, <2>1, MessagesDropped DEF StartLoopFails, harness, store
  <1>7. ASSUME Inject(o) PROVE MessageInv'
    <2>1. op'[o].held = Tail(op[o].held) /\ op'[o].at = op[o].at
          /\ \A p \in Ops \ {o} : op'[p] = op[p]
      BY <1>7, <1>r DEF Inject, OpTyped, OpType
    <2>2. op'[o].at \in Holding /\ op[o].held # <<>> BY <1>7, <2>1 DEF Inject, Holding
    <2>3. session' = Append(session, Head(op[o].held))
          /\ UNCHANGED <<queue, sent, cleared, dropped, failures>>
      BY <1>7 DEF Inject, harness, env, history
    <2> QED BY <2>1, <2>2, <2>3, MessageInjected
  <1>8. ASSUME InjectDone(o) \/ Request(o) \/ Snapshot(o) \/ GoIdle(o) \/ StopHere(o)
        PROVE  MessageInv'
    <2>1. op[o].held = <<>>
      BY <1>8, <1>q DEF InjectDone, Request, Snapshot, GoIdle, StopHere, Holding
    <2>2. /\ \E label : Goto(o, label)
          /\ UNCHANGED <<queue, sent, cleared, dropped, session, failures>>
      BY <1>8 DEF InjectDone, Request, Snapshot, GoIdle, StopHere, harness, store, env, history
    <2> QED BY <1>b, <2>1, <2>2
  <1>9. ASSUME NEW q \in {"steer", "followUp"}, Take(o, q), op[o].held = <<>>,
               UNCHANGED <<sent, session, cleared, dropped, failures>>
        PROVE  MessageInv'
    <2> DEFINE rest == SubSeq(queue[q], Len(Drained(q)) + 1, Len(queue[q]))
    <2>1. /\ q \in Queues /\ Drained(q) \in Seq(Messages) /\ rest \in Seq(Messages)
          /\ queue[q] = Drained(q) \o rest
      BY DrainSplits DEF Queues
    <2>2. /\ op'[o].held = Drained(q) /\ op'[o].at \in Holding
          /\ \A p \in Ops \ {o} : op'[p] = op[p]
      BY <1>9, <1>r DEF Take, OpTyped, OpType, Holding
    <2>3. queue' = [queue EXCEPT ![q] = rest] BY <1>9 DEF Take
    <2> HIDE DEF rest
    <2> QED BY <1>9, <2>1, <2>2, <2>3, MessagesTaken
  <1>10. ASSUME Poll(o) PROVE MessageInv'
    <2>1. op[o].held = <<>> BY <1>10, <1>q DEF Poll, Holding
    <2>2. UNCHANGED <<sent, session, cleared, dropped, failures>>
      BY <1>10 DEF Poll, store, env, history
    <2>3. Take(o, "steer") \/ (UNCHANGED queue /\ \E label : Goto(o, label))
      BY <1>10 DEF Poll
    <2> QED BY <1>9, <1>b, <2>1, <2>2, <2>3
  <1>11. ASSUME Follow(o) PROVE MessageInv'
    <2>1. op[o].held = <<>> BY <1>11, <1>q DEF Follow, Holding
    <2>2. UNCHANGED <<sent, session, cleared, dropped, failures>>
      BY <1>11 DEF Follow, store, env, history
    <2>3. \/ Take(o, "followUp")
          \/ UNCHANGED queue /\ op' = [op EXCEPT ![o] = Flushing(op[o], "goIdle")]
      BY <1>11 DEF Follow, FlushThen
    <2>4. "goIdle" \in Flushes BY DEF Flushes
    <2> QED BY <1>9, <1>c, <1>r, <2>1, <2>2, <2>3, <2>4
  <1>12. ASSUME Announce(o) PROVE MessageInv'
    <2> DEFINE r == [op[o] EXCEPT !.at = "injecting", !.from = "steer", !.stale = FALSE]
    <2>1. r.held = op[o].held /\ r.at \in Holding BY <1>r DEF OpType, Holding
    <2>2. op' = [op EXCEPT ![o] = r] BY <1>12 DEF Announce
    <2> HIDE DEF r
    <2> QED BY <1>12, <1>a, <2>1, <2>2 DEF Announce, harness, store, env, history
  <1>13. ASSUME AnnounceFails(o) PROVE MessageInv'
    <2>1. op'[o].held = <<>> /\ \A p \in Ops \ {o} : op'[p] = op[p]
      BY <1>13, <1>r, ThrownType DEF AnnounceFails, OpTyped
    <2>2. op[o].from \in Queues BY <1>r DEF OpType, Queues
    <2>3. Fails /\ UNCHANGED <<sent, session, cleared>>
      BY <1>13 DEF AnnounceFails, store
    <2>4. \/ Drop(o) /\ UNCHANGED queue
          \/ queue' = [queue EXCEPT ![op[o].from] = op[o].held \o @] /\ UNCHANGED dropped
      BY <1>13 DEF AnnounceFails
    <2> QED BY <2>1, <2>2, <2>3, <2>4, MessagesDropped, MessagesReturned
  <1>14. ASSUME Respond(o) \/ RunTools(o) PROVE MessageInv'
    <2>1. PICK why, label : op' = [op EXCEPT ![o].reason = why, ![o].at = label]
      BY <1>14 DEF Respond, RunTools
    <2> DEFINE r == [op[o] EXCEPT !.reason = why, !.at = label]
    <2>2. op[o].held = <<>> BY <1>14, <1>q DEF Respond, RunTools, Holding
    <2>3. r.held = op[o].held BY <1>r DEF OpType
    <2>4. op' = [op EXCEPT ![o] = r] BY <2>1
    <2>5. UNCHANGED <<queue, sent, cleared, dropped, session, failures>>
      BY <1>14 DEF Respond, RunTools, harness, store, env, history
    <2> HIDE DEF r
    <2> QED BY <1>a, <2>2, <2>3, <2>4, <2>5
  <1>15. ASSUME AbortStream(o) PROVE MessageInv'
    <2>1. op[o].held = <<>> BY <1>15, <1>q DEF AbortStream, Holding
    <2>2. Thrown(op[o]).held = <<>> BY <1>r, ThrownType
    <2> QED BY <1>15, <1>a, <2>1, <2>2 DEF AbortStream, harness, store, env, history
  <1>16. ASSUME TurnEnd(o) \/ Gate(o) \/ ReportFailure(o) \/ Rethrow(o) PROVE MessageInv'
    <2>1. op[o].held = <<>>
      BY <1>16, <1>q DEF TurnEnd, Gate, ReportFailure, Rethrow, Holding
    <2>2. \E label \in Flushes : op' = [op EXCEPT ![o] = Flushing(op[o], label)]
      BY <1>16 DEF TurnEnd, Gate, ReportFailure, Rethrow, FlushThen, Flushes
    <2>3. UNCHANGED <<queue, sent, cleared, dropped, session, failures>>
      BY <1>16 DEF TurnEnd, Gate, ReportFailure, Rethrow, harness, store, env, history
    <2> QED BY <1>c, <1>r, <2>1, <2>2, <2>3
  <1>17. ASSUME LoopFails(o) PROVE MessageInv'
    <2>1. op'[o].held = <<>> /\ \A p \in Ops \ {o} : op'[p] = op[p]
      BY <1>17, <1>r, ThrownType DEF LoopFails, OpTyped
    <2> QED BY <1>17, <2>1, MessagesDropped DEF LoopFails, harness, store
  <1>18. ASSUME FlushAppend(o) PROVE MessageInv'
    <2>1. op[o].held = <<>> BY <1>18, <1>q DEF FlushAppend, Holding
    <2>2. PICK at, resume, writing :
             op' = [op EXCEPT ![o].at = at, ![o].resume = resume, ![o].writing = writing]
      BY <1>18 DEF FlushAppend
    <2> DEFINE r == [op[o] EXCEPT !.at = at, !.resume = resume, !.writing = writing]
    <2>3. r.held = op[o].held BY <1>r DEF OpType
    <2>4. op' = [op EXCEPT ![o] = r] BY <2>2
    <2>5. op[o].writing \in Writes /\ session' = Append(session, op[o].writing)
      BY <1>18, <1>r DEF FlushAppend, FormOf, Persist
    <2>6. UNCHANGED <<queue, sent, cleared, dropped, failures>>
      BY <1>18 DEF FlushAppend, env, history
    <2> HIDE DEF r
    <2> QED BY <1>a, <2>1, <2>3, <2>4, <2>5, <2>6
  <1>19. ASSUME FlushFails(o) PROVE MessageInv'
    <2>1. op[o].held = <<>> BY <1>19, <1>q DEF FlushFails, Holding
    <2> DEFINE gaveUp == [op[o] EXCEPT !.at = "cleanup", !.threw = TRUE, !.writing = None]
               r == IF op[o].resume = "cleanup" THEN gaveUp ELSE Thrown(op[o])
    <2>2. Thrown(op[o]).held = <<>> /\ gaveUp.held = <<>> BY <1>r, <2>1, ThrownType DEF OpType
    <2>3. r.held = <<>> BY <2>2
    <2>4. op' = [op EXCEPT ![o] = r] BY <1>19 DEF FlushFails
    <2>5. Fails /\ UNCHANGED <<queue, sent, cleared, dropped, session>>
      BY <1>19 DEF FlushFails, harness, store, history
    <2> HIDE DEF r
    <2> QED BY <1>a, <2>1, <2>3, <2>4, <2>5
  <1>20. ASSUME Settle(o) PROVE MessageInv'
    <2> DEFINE r == [op[o] EXCEPT !.threw = trip]
    <2>1. op[o].held = <<>> BY <1>20, <1>q DEF Settle, Holding
    <2>2. r \in OpType /\ r.held = <<>> /\ "cleanup" \in Flushes
      BY <1>r, <2>1 DEF OpType, TypeOK, Flushes
    <2>3. op' = [op EXCEPT ![o] = Flushing(r, "cleanup")] BY <1>20 DEF Settle
    <2>4. UNCHANGED <<queue, sent, cleared, dropped, session, failures>>
      BY <1>20 DEF Settle, store, env, history
    <2> HIDE DEF r
    <2> QED BY <1>c, <2>1, <2>2, <2>3, <2>4
  <1>21. ASSUME Cleanup(o) \/ EndStructural(o) \/ NavigateTree(o) PROVE MessageInv'
    <2>1. op[o].held = <<>>
      BY <1>21, <1>q DEF Cleanup, EndStructural, NavigateTree, Holding
    <2>2. /\ \E label : Goto(o, label)
          /\ UNCHANGED <<queue, sent, cleared, dropped, session, failures>>
      BY <1>21 DEF Cleanup, EndStructural, NavigateTree, store, env, history
    <2> QED BY <1>b, <2>1, <2>2
  <1>22. ASSUME ContinueTurn(o) PROVE MessageInv'
    <2>1. op[o].held = <<>> BY <1>22, <1>q DEF ContinueTurn, Holding
    <2> DEFINE r == [op[o] EXCEPT !.cycles = @ + 1,
                       !.at = IF OverCap THEN "unwinding" ELSE "preparing",
                       !.threw = OverCap]
    <2>2. r.held = op[o].held BY <1>r DEF OpType
    <2>3. op' = [op EXCEPT ![o] = r] BY <1>22 DEF ContinueTurn
    <2>4. UNCHANGED <<queue, sent, cleared, dropped, session, failures>>
      BY <1>22 DEF ContinueTurn, harness, store, env, history
    <2> HIDE DEF r
    <2> QED BY <1>a, <2>1, <2>2, <2>3, <2>4
  <1>23. ASSUME Finish(o) PROVE MessageInv'
    <2>1. op[o].held = <<>> BY <1>23, <1>q DEF Finish, Holding
    <2>2. [Fresh EXCEPT !.at = "done"].held = <<>> BY DEF Fresh
    <2>3. op' = [op EXCEPT ![o] = [Fresh EXCEPT !.at = "done"]] BY <1>23 DEF Finish
    <2>4. UNCHANGED <<queue, sent, cleared, dropped, session, failures>>
      BY <1>23 DEF Finish, store, env
    <2> QED BY <1>a, <2>1, <2>2, <2>3, <2>4
  <1> QED BY <1>1, <1>2, <1>3, <1>4, <1>5, <1>6, <1>7, <1>8, <1>10, <1>11, <1>12, <1>13,
             <1>14, <1>15, <1>16, <1>17, <1>18, <1>19, <1>20, <1>21, <1>22, <1>23
          DEF Advance, Break

LEMMA MessageStep == ASSUME Typed, MessageInv, [Next]_vars PROVE MessageInv'
  <1> USE HarnessAssumption
  <1>s. ASSUME UNCHANGED <<op, queue, sent, cleared, dropped>>,
               session' = session \/ \E w \in Writes : session' = Append(session, w),
               failures' = failures \/ Fails
        PROVE  MessageInv'
    <2>1. \A o \in Ops : /\ op'[o].held = op[o].held
                         /\ op[o].held = <<>> \/ op'[o].at \in Holding
      BY <1>s DEF MessageInv
    <2> QED BY <1>s, <2>1, MessagesStay
  <1>1. ASSUME NEW o \in Ops, Prompt(o) \/ PromptOverCap(o) \/ StartStructural(o)
        PROVE  MessageInv'
    <2>1. PICK label : Goto(o, label)
      BY <1>1 DEF Prompt, PromptOverCap, StartStructural
    <2>2. op[o].at = "off" BY <1>1 DEF Prompt, PromptOverCap, StartStructural, MayStart
    <2>3. op[o].held = <<>> BY <2>2 DEF MessageInv, Holding
    <2>4. UNCHANGED <<queue, sent, cleared, dropped, session, failures>>
      BY <1>1 DEF Prompt, PromptOverCap, StartStructural, store, env, history
    <2>5. \A p \in Ops : /\ op'[p].held = op[p].held
                         /\ op[p].held = <<>> \/ op'[p].at \in Holding
      <3>1. op \in [Ops -> OpType] BY DEF Typed, OpTyped
      <3>2. op'[o].held = op[o].held /\ \A p \in Ops \ {o} : op'[p] = op[p]
        BY <2>1, <3>1 DEF Goto, OpType
      <3> QED BY <2>3, <3>2 DEF MessageInv
    <2> QED BY <2>4, <2>5, MessagesStay
  <1>2. ASSUME NEW q \in Sends, Send(q) PROVE MessageInv'
    BY <1>2, MessageSent DEF Queues
  <1>3. ASSUME NEW c \in Callers, NEW kind \in WriteKinds, WriteIdle(c, kind) \/ WriteBusy(c, kind)
        PROVE  MessageInv'
    BY <1>3, <1>s DEF WriteIdle, WriteBusy, harness, store, history
  <1>4. ASSUME NEW c \in Callers, CommitIdle(c) PROVE MessageInv'
    <2>1. writer[c] \in Writes BY <1>4 DEF CommitIdle, Typed, TypeOK
    <2> QED BY <1>4, <2>1, <1>s DEF CommitIdle, Persist, history
  <1>5. ASSUME NEW c \in Callers, WriteIdleFails(c) PROVE MessageInv'
    BY <1>5, <1>s DEF WriteIdleFails, harness, store
  <1>6. ASSUME ResetCost PROVE MessageInv'
    BY <1>6, <1>s DEF ResetCost, store, env, history
  <1>7. ASSUME UNCHANGED vars PROVE MessageInv'
    BY <1>7, <1>s DEF vars, harness, store, env, history
  <1> QED BY <1>1, <1>2, <1>3, <1>4, <1>5, <1>6, <1>7, MessageLoop, MessagesAborted DEF Next

LEMMA MessagesInvariant == Spec => [](Typed /\ MessageInv)
  <1>1. IInv => Typed BY DEF IInv, Typed
  <1>2. Typed /\ MessageInv /\ [Next]_vars => MessageInv' BY MessageStep
  <1> QED BY <1>1, <1>2, MessageInit, Invariance, PTL DEF Spec

(* A message accepted by steer(), followUp() or nextTurn() is in one place *)
(* at any time, whatever fails, is aborted or runs meanwhile: queued, held *)
(* by the run that drained it, persisted, cleared by abort(), or gone down *)
(* with a failed run.                                                      *)
THEOREM HarnessMessagesAccounted == Spec => []MessagesAccounted
  <1>1. ASSUME Typed, MessageInv PROVE MessagesAccounted
    <2>1. ASSUME NEW x \in Messages PROVE Holders(x) = One(HeldAny(x))
      <3> DEFINE at == {o \in Ops : x \in ToSet(op[o].held)}
      <3>1. \A o, p \in at : o = p BY <1>1 DEF MessageInv, HeldOnce, ToSet
      <3>2. CASE at = {}
        <4>1. ~HeldAny(x) BY <3>2 DEF HeldAny, HeldBy
        <4> QED BY <3>2, <4>1, FS_EmptySet DEF Holders, One
      <3>3. CASE at # {}
        <4>1. PICK o : at = {o} BY <3>1, <3>3
        <4>2. HeldAny(x) BY <3>3 DEF HeldAny, HeldBy
        <4> QED BY <4>1, <4>2, FS_Singleton DEF Holders, One
      <3> QED BY <3>2, <3>3
    <2>2. ASSUME NEW i \in 1..sent, NEW x, x = [id |-> i, kind |-> "user"]
          PROVE  Copies(x, queue.steer) + Copies(x, queue.followUp)
                   + Copies(x, queue.nextTurn) + Holders(x) + Copies(x, session)
                   + One(x \in cleared) + One(x \in dropped) = 1
      <3>1. x \in Messages /\ x.id <= sent
        BY <1>1, <2>2, HarnessAssumption DEF Messages, Typed, TypeOK
      <3>2. Places(x) = 1 BY <1>1, <3>1 DEF MessageInv, One
      <3> QED BY <2>1, <3>1, <3>2 DEF Places, QueueCopies
    <2> QED BY <1>1, <2>2 DEF MessagesAccounted, MessageInv
  <1> QED BY <1>1, MessagesInvariant, PTL

-----------------------------------------------------------------------------
(* The writes: each accepted one is in one place, if no two operations     *)
(* flush at once.                                                          *)

WritesOf(i) == {w \in Writes : w.id = i}
IsQueued(x) == IsWrite(x) /\ x.queued

Refused(i) == \E w \in refused : w.id = i

Accounts(i) ==
    WriteCopies(i, session) + WriteCopies(i, pending) + One(i \in IdleIds) + One(Refused(i))

(* A flush awaits the append of the write it peeked at. *)
PeekInv == \A o \in Ops : op[o].at = "flushing" => pending # <<>> /\ op[o].writing = Head(pending)

(* Queued writes are numbered as they are, through the session and on      *)
(* through the queue.                                                      *)
OrderInv ==
    /\ \A k \in DOMAIN pending : pending[k].queued /\ pending[k].id <= written
    /\ \A j, k \in DOMAIN pending : j < k => pending[j].id < pending[k].id
    /\ \A j \in DOMAIN session : IsQueued(session[j]) =>
          /\ session[j].id <= written
          /\ \A k \in DOMAIN pending : session[j].id < pending[k].id
    /\ \A j, k \in DOMAIN session : IsQueued(session[j]) /\ IsQueued(session[k]) /\ j < k =>
          session[j].id < session[k].id

WriterInv ==
    \A c, d \in Callers : writer[c] # None /\ writer[d] # None =>
        ~writer[c].queued /\ (writer[c].id = writer[d].id => c = d)

WriteInv ==
    /\ \A i \in 1..MaxWrites : Accounts(i) = One(i <= written)
    /\ PeekInv /\ OrderInv /\ WriterInv

LEMMA WriteCount ==
    ASSUME NEW s \in Seq(Writes \cup Messages), NEW i
    PROVE  WriteCopies(i, s) = CountIn(WritesOf(i), s)
  <1>1. \A k \in DOMAIN s : s[k] \in Writes \cup Messages BY ElementOfSeq, LenProperties
  <1>2. \A x \in Writes \cup Messages : IsWrite(x) /\ x.id = i <=> x \in WritesOf(i)
    BY DEF IsWrite, Writes, Messages, WritesOf
  <1>3. {k \in DOMAIN s : IsWrite(s[k]) /\ s[k].id = i} = {k \in DOMAIN s : s[k] \in WritesOf(i)}
    BY <1>1, <1>2
  <1> QED BY <1>3 DEF WriteCopies, CountIn

LEMMA WriteTypes ==
    ASSUME Typed
    PROVE  /\ pending \in Seq(Writes) /\ pending \in Seq(Writes \cup Messages)
           /\ session \in Seq(Writes \cup Messages)
           /\ \A c \in Callers : writer[c] # None => writer[c] \in Writes
           /\ DOMAIN writer = Callers
           /\ written \in 0..MaxWrites /\ refused \subseteq Writes
           /\ MaxWrites \in Nat
           /\ \A w \in Writes : w.id \in 1..MaxWrites /\ w.queued \in BOOLEAN /\ IsWrite(w)
           /\ \A i \in 1..MaxWrites :
                 /\ WriteCopies(i, session) \in Nat /\ WriteCopies(i, pending) \in Nat
                 /\ One(i \in IdleIds) \in {0, 1}
                 /\ One(Refused(i)) \in {0, 1}
  <1>1. /\ pending \in Seq(Writes) /\ session \in Seq(Writes \cup Messages)
        /\ \A c \in Callers : writer[c] # None => writer[c] \in Writes
        /\ DOMAIN writer = Callers
        /\ written \in 0..MaxWrites /\ refused \subseteq Writes /\ MaxWrites \in Nat
    BY HarnessAssumption DEF Typed, TypeOK
  <1>2. pending \in Seq(Writes \cup Messages)
    <2>1. Len(pending) \in Nat /\ \A k \in 1..Len(pending) : pending[k] \in Writes
      BY <1>1, LenProperties, ElementOfSeq
    <2> QED BY <1>1, <2>1, SeqDef
  <1>3. \A i : WriteCopies(i, session) \in Nat /\ WriteCopies(i, pending) \in Nat
    <2> TAKE i
    <2>1. /\ WriteCopies(i, session) = CountIn(WritesOf(i), session)
          /\ WriteCopies(i, pending) = CountIn(WritesOf(i), pending)
      BY <1>1, <1>2, WriteCount
    <2>2. CountIn(WritesOf(i), session) \in Nat /\ CountIn(WritesOf(i), pending) \in Nat
      BY <1>1, <1>2, CountType
    <2> QED BY <2>1, <2>2
  <1>4. \A w \in Writes : w.id \in 1..MaxWrites /\ w.queued \in BOOLEAN /\ IsWrite(w)
    BY DEF Writes, IsWrite
  <1> QED BY <1>1, <1>2, <1>3, <1>4 DEF One

(* Appending to the session or to the queue. *)
LEMMA WriteAppended ==
    ASSUME NEW s \in Seq(Writes \cup Messages), NEW w \in Writes, NEW i
    PROVE  /\ Append(s, w) \in Seq(Writes \cup Messages)
           /\ WriteCopies(i, Append(s, w)) = WriteCopies(i, s) + One(w \in WritesOf(i))
  <1>1. Append(s, w) \in Seq(Writes \cup Messages) BY AppendProperties
  <1>2. CountIn(WritesOf(i), Append(s, w)) = CountIn(WritesOf(i), s) + One(w \in WritesOf(i))
    BY CountAppend
  <1> QED BY <1>1, <1>2, WriteCount

LEMMA MessageAppended ==
    ASSUME NEW s \in Seq(Writes \cup Messages), NEW x \in Messages, NEW i
    PROVE  WriteCopies(i, Append(s, x)) = WriteCopies(i, s)
  <1>1. Append(s, x) \in Seq(Writes \cup Messages) BY AppendProperties
  <1>2. CountIn(WritesOf(i), Append(s, x)) = CountIn(WritesOf(i), s) + One(x \in WritesOf(i))
    BY CountAppend
  <1>3. x \notin WritesOf(i) BY DEF Writes, Messages, WritesOf
  <1>4. CountIn(WritesOf(i), s) \in Nat BY CountType
  <1>5. /\ WriteCopies(i, s) = CountIn(WritesOf(i), s)
        /\ WriteCopies(i, Append(s, x)) = CountIn(WritesOf(i), Append(s, x))
    BY <1>1, WriteCount
  <1> QED BY <1>2, <1>3, <1>4, <1>5 DEF One

LEMMA WriteTaken ==
    ASSUME NEW s \in Seq(Writes), s # <<>>, s \in Seq(Writes \cup Messages), NEW i
    PROVE  /\ Head(s) \in Writes /\ Tail(s) \in Seq(Writes)
           /\ WriteCopies(i, s) = WriteCopies(i, Tail(s)) + One(Head(s).id = i)
           /\ WriteCopies(i, Tail(s)) \in Nat
  <1>1. Head(s) \in Writes /\ Tail(s) \in Seq(Writes) /\ Tail(s) \in Seq(Writes \cup Messages)
    BY HeadTailProperties
  <1>2. CountIn(WritesOf(i), s) = One(Head(s) \in WritesOf(i)) + CountIn(WritesOf(i), Tail(s))
    BY CountTail
  <1>3. One(Head(s) \in WritesOf(i)) = One(Head(s).id = i) BY <1>1 DEF One, WritesOf
  <1>4. CountIn(WritesOf(i), Tail(s)) \in Nat BY <1>1, CountType
  <1>5. One(Head(s).id = i) \in Nat BY DEF One
  <1>6. /\ WriteCopies(i, s) = CountIn(WritesOf(i), s)
        /\ WriteCopies(i, Tail(s)) = CountIn(WritesOf(i), Tail(s))
    BY <1>1, WriteCount
  <1> QED BY <1>1, <1>2, <1>3, <1>4, <1>5, <1>6

(* What is not queued does not disturb the order of what is. *)
LEMMA OrderGrows ==
    ASSUME Typed, OrderInv, NEW x \in Writes \cup Messages, ~IsQueued(x),
           session' = Append(session, x), UNCHANGED <<pending, written>>
    PROVE  OrderInv'
  <1>1. /\ session \in Seq(Writes \cup Messages) /\ Len(session) \in Nat
        /\ DOMAIN session = 1..Len(session)
        /\ DOMAIN session' = 1..(Len(session) + 1) /\ session'[Len(session) + 1] = x
        /\ \A j \in 1..Len(session) : session'[j] = session[j]
    BY WriteTypes, LenProperties, AppendProperties
  <1>2. \A j \in DOMAIN session' : IsQueued(session'[j]) =>
           j \in DOMAIN session /\ session'[j] = session[j]
    BY <1>1
  <1>3. \A j \in DOMAIN session' : IsQueued(session'[j]) =>
           /\ session'[j].id <= written
           /\ \A k \in DOMAIN pending : session'[j].id < pending[k].id
    BY <1>2 DEF OrderInv
  <1>4. \A j, k \in DOMAIN session' : IsQueued(session'[j]) /\ IsQueued(session'[k]) /\ j < k =>
           session'[j].id < session'[k].id
    BY <1>2 DEF OrderInv
  <1> QED BY <1>3, <1>4 DEF OrderInv, IsQueued, IsWrite

LEMMA WritesStay ==
    ASSUME Typed, WriteInv, PeekInv', UNCHANGED <<pending, writer, written, refused>>,
           session' = session \/ \E x \in Messages : session' = Append(session, x)
    PROVE  WriteInv'
  <1>1. \A i : WriteCopies(i, session') = WriteCopies(i, session)
    BY WriteTypes, MessageAppended
  <1>2. OrderInv'
    <2>1. CASE session' = session
      BY <2>1 DEF WriteInv, OrderInv, IsQueued, IsWrite
    <2>2. ASSUME NEW x \in Messages, session' = Append(session, x) PROVE OrderInv'
      <3>1. ~IsQueued(x) BY DEF IsQueued, IsWrite, Messages
      <3> QED BY <2>2, <3>1, OrderGrows DEF WriteInv
    <2> QED BY <2>1, <2>2
  <1>3. IdleIds' = IdleIds /\ WriterInv' BY DEF IdleIds, WriteInv, WriterInv
  <1>4. \A i : Accounts(i)' = Accounts(i) BY <1>1, <1>3 DEF Accounts, Refused
  <1> QED BY <1>2, <1>3, <1>4 DEF WriteInv

(* A caller begins, or stops, to wait for its write. *)
LEMMA WriterWaits ==
    ASSUME Typed, WriteInv, NEW c \in Callers, NEW kind \in WriteKinds, WriteIdle(c, kind)
    PROVE  WriteInv'
  <1> DEFINE w == [id |-> written + 1, kind |-> kind, queued |-> FALSE]
  <1>1. /\ written \in Nat /\ written' = written + 1 /\ written + 1 \in 1..MaxWrites
        /\ w \in Writes /\ w # None /\ w.id = written + 1 /\ ~w.queued
        /\ writer[c] = None /\ writer' = [writer EXCEPT ![c] = w] /\ DOMAIN writer = Callers
    <2>1. /\ written \in Nat /\ written < MaxWrites /\ MaxWrites \in Nat /\ written' = written + 1
          /\ writer[c] = None /\ DOMAIN writer = Callers
      BY WriteTypes DEF WriteIdle
    <2>2. writer' = [writer EXCEPT ![c] = w] BY <2>1 DEF WriteIdle
    <2>3. written + 1 \in 1..MaxWrites BY <2>1
    <2>4. w \in Writes /\ w.id = written + 1 /\ ~w.queued
      BY <2>3, HarnessAssumption DEF Writes
    <2> QED BY <2>1, <2>2, <2>3, <2>4, NoneAssumption
  <1>2. UNCHANGED <<op, pending, session, refused>>
    BY DEF WriteIdle, harness, store, history
  <1> HIDE DEF w
  <1>3. IdleIds' = IdleIds \cup {w.id} BY <1>1 DEF IdleIds
  <1>4. ASSUME NEW i \in 1..MaxWrites PROVE Accounts(i)' = One(i <= written')
    <2>1. /\ WriteCopies(i, session) \in Nat /\ WriteCopies(i, pending) \in Nat
          /\ One(i \in IdleIds) \in {0, 1} /\ One(Refused(i)) \in {0, 1}
      BY WriteTypes
    <2>2. Accounts(i) = One(i <= written) BY DEF WriteInv
    <2>3. CASE i = w.id
      <3>1. Accounts(i) = 0 /\ One(i <= written') = 1 BY <1>1, <2>2, <2>3 DEF One
      <3>0. Accounts(i) = WriteCopies(i, session) + WriteCopies(i, pending)
                            + One(i \in IdleIds) + One(Refused(i))
        BY DEF Accounts
      <3>2. One(i \in IdleIds) = 0 BY <2>1, <3>0, <3>1
      <3>3. One(i \in IdleIds') = 1 BY <1>3, <2>3 DEF One
      <3>4. Accounts(i)' = WriteCopies(i, session) + WriteCopies(i, pending)
                             + One(i \in IdleIds') + One(Refused(i))
        BY <1>2 DEF Accounts, Refused
      <3> QED BY <2>1, <3>0, <3>1, <3>2, <3>3, <3>4
    <2>4. CASE i # w.id
      <3>1. One(i \in IdleIds') = One(i \in IdleIds) BY <1>3, <2>4 DEF One
      <3>2. Accounts(i)' = Accounts(i) BY <1>2, <3>1 DEF Accounts, Refused
      <3>3. One(i <= written') = One(i <= written) BY <1>1, <2>4 DEF One
      <3> QED BY <2>2, <3>2, <3>3
    <2> QED BY <2>3, <2>4
  <1>5. \A d \in Callers : writer[d] # None => writer[d].id # w.id
    <2> SUFFICES ASSUME NEW d \in Callers, writer[d] # None, writer[d].id = w.id PROVE FALSE
      OBVIOUS
    <2> DEFINE i == w.id
    <2>1. i \in 1..MaxWrites /\ ~(i <= written) BY <1>1
    <2>2. Accounts(i) = 0 BY <2>1 DEF WriteInv, One
    <2>3. i \in IdleIds BY DEF IdleIds
    <2>4. /\ WriteCopies(i, session) \in Nat /\ WriteCopies(i, pending) \in Nat
          /\ One(i \in IdleIds) = 1 /\ One(Refused(i)) \in {0, 1}
      BY <2>1, <2>3, WriteTypes DEF One
    <2>5. Accounts(i) = WriteCopies(i, session) + WriteCopies(i, pending)
                          + One(i \in IdleIds) + One(Refused(i))
      BY DEF Accounts
    <2> QED BY <2>2, <2>4, <2>5
  <1>6. WriterInv'
    <2>1. \A d \in Callers : writer'[d] = IF d = c THEN w ELSE writer[d] BY <1>1
    <2>2. WriterInv BY DEF WriteInv
    <2> QED BY <1>1, <1>5, <2>1, <2>2 DEF WriterInv
  <1>7. PeekInv' /\ OrderInv'
    <2>1. PeekInv' BY <1>2 DEF WriteInv, PeekInv
    <2>2. \A j \in Int : j <= written => j <= written' BY <1>1
    <2>3. \A k \in DOMAIN pending : pending[k].id \in Int
      BY WriteTypes, ElementOfSeq, LenProperties
    <2>4. \A j \in DOMAIN session : IsQueued(session[j]) => session[j].id \in Int
      <3>1. \A j \in DOMAIN session : session[j] \in Writes \cup Messages
        BY WriteTypes, ElementOfSeq, LenProperties
      <3> QED BY <3>1, WriteTypes DEF IsQueued, IsWrite, Messages
    <2>5. OrderInv BY DEF WriteInv
    <2>6. \A k \in DOMAIN pending : pending[k].queued /\ pending[k].id <= written'
      BY <2>2, <2>3, <2>5 DEF OrderInv
    <2>7. \A j \in DOMAIN session : IsQueued(session[j]) =>
             /\ session[j].id <= written'
             /\ \A k \in DOMAIN pending : session[j].id < pending[k].id
      BY <2>2, <2>4, <2>5 DEF OrderInv
    <2> QED BY <1>2, <2>1, <2>5, <2>6, <2>7 DEF OrderInv, IsQueued, IsWrite
  <1> QED BY <1>4, <1>6, <1>7 DEF WriteInv

LEMMA WriterDone ==
    ASSUME Typed, WriterInv, NEW c \in Callers, writer[c] # None,
           writer' = [writer EXCEPT ![c] = None]
    PROVE  /\ WriterInv' /\ ~writer[c].queued
           /\ \A i : One(i \in IdleIds) = One(i \in IdleIds') + One(writer[c].id = i)
  <1>1. \A d \in Callers : writer'[d] = IF d = c THEN None ELSE writer[d] BY WriteTypes
  <1>2. WriterInv' BY <1>1 DEF WriterInv
  <1>3. \A i : i \in IdleIds <=> \E d \in Callers : writer[d] # None /\ writer[d].id = i
    BY DEF IdleIds
  <1>4. \A i : i \in IdleIds' <=> \E d \in Callers : writer'[d] # None /\ writer'[d].id = i
    BY DEF IdleIds
  <1>5. \A i : i \in IdleIds' <=> i \in IdleIds /\ i # writer[c].id
    BY <1>1, <1>3, <1>4 DEF WriterInv
  <1>6. writer[c].id \in IdleIds BY <1>3
  <1> QED BY <1>2, <1>5, <1>6 DEF One, WriterInv

LEMMA WriteCommitted ==
    ASSUME Typed, WriteInv, NEW c \in Callers, CommitIdle(c) PROVE WriteInv'
  <1> DEFINE w == writer[c]
  <1>1. /\ w # None /\ w \in Writes /\ session' = Append(session, w)
        /\ writer' = [writer EXCEPT ![c] = None]
        /\ UNCHANGED <<op, pending, written, refused>>
    BY WriteTypes DEF CommitIdle, Persist, history
  <1>2. /\ WriterInv' /\ ~w.queued
        /\ \A i : One(i \in IdleIds) = One(i \in IdleIds') + One(w.id = i)
    BY <1>1, WriterDone DEF WriteInv
  <1> HIDE DEF w
  <1>3. OrderInv'
    <2>1. ~IsQueued(w) BY <1>2 DEF IsQueued
    <2> QED BY <1>1, <2>1, OrderGrows DEF WriteInv
  <1>4. PeekInv' BY <1>1 DEF WriteInv, PeekInv
  <1>5. ASSUME NEW i \in 1..MaxWrites PROVE Accounts(i)' = Accounts(i)
    <2>1. WriteCopies(i, session') = WriteCopies(i, session) + One(w.id = i)
      <3>1. session \in Seq(Writes \cup Messages) BY WriteTypes
      <3>2. WriteCopies(i, Append(session, w)) = WriteCopies(i, session) + One(w \in WritesOf(i))
        BY <1>1, <3>1, WriteAppended
      <3>3. One(w \in WritesOf(i)) = One(w.id = i) BY <1>1 DEF One, WritesOf
      <3> QED BY <1>1, <3>2, <3>3
    <2>2. Accounts(i)' = WriteCopies(i, session') + WriteCopies(i, pending)
                           + One(i \in IdleIds') + One(Refused(i))
      BY <1>1 DEF Accounts, Refused
    <2>3. /\ WriteCopies(i, session) \in Nat /\ WriteCopies(i, pending) \in Nat
          /\ One(i \in IdleIds) \in {0, 1} /\ One(Refused(i)) \in {0, 1}
          /\ One(i \in IdleIds') \in {0, 1} /\ One(w.id = i) \in {0, 1}
      BY WriteTypes DEF One
    <2>4. One(i \in IdleIds) = One(i \in IdleIds') + One(w.id = i) BY <1>2
    <2>5. Accounts(i) = WriteCopies(i, session) + WriteCopies(i, pending)
                          + One(i \in IdleIds) + One(Refused(i))
      BY DEF Accounts
    <2>6. WriteCopies(i, session') + One(i \in IdleIds') = WriteCopies(i, session) + One(i \in IdleIds)
      BY <2>1, <2>3, <2>4
    <2>7. WriteCopies(i, session') \in Nat BY <2>1, <2>3
    <2> QED BY <2>2, <2>3, <2>5, <2>6, <2>7
  <1> QED BY <1>1, <1>2, <1>3, <1>4, <1>5 DEF WriteInv

LEMMA WriteRefused ==
    ASSUME Typed, WriteInv, NEW c \in Callers, WriteIdleFails(c) PROVE WriteInv'
  <1> DEFINE w == writer[c]
  <1>1. /\ w # None /\ w \in Writes /\ refused' = refused \cup {w}
        /\ writer' = [writer EXCEPT ![c] = None]
        /\ UNCHANGED <<op, pending, written, session>>
    BY WriteTypes DEF WriteIdleFails, harness, store
  <1>2. /\ WriterInv'
        /\ \A i : One(i \in IdleIds) = One(i \in IdleIds') + One(w.id = i)
    BY <1>1, WriterDone DEF WriteInv
  <1>0. w.id \in IdleIds BY <1>1 DEF IdleIds
  <1> HIDE DEF w
  <1>3. OrderInv' BY <1>1 DEF WriteInv, OrderInv, IsQueued, IsWrite
  <1>4. PeekInv' BY <1>1 DEF WriteInv, PeekInv
  <1>5. ASSUME NEW i \in 1..MaxWrites PROVE Accounts(i)' = Accounts(i)
    <2> DEFINE Was == Refused(i)
               Is == Refused(i)'
    <2>1. Accounts(i)' = WriteCopies(i, session) + WriteCopies(i, pending)
                           + One(i \in IdleIds') + One(Is)
      BY <1>1 DEF Accounts
    <2>2. Accounts(i) = WriteCopies(i, session) + WriteCopies(i, pending)
                          + One(i \in IdleIds) + One(Was)
      BY DEF Accounts
    <2>3. /\ WriteCopies(i, session) \in Nat /\ WriteCopies(i, pending) \in Nat
          /\ One(i \in IdleIds) \in {0, 1} /\ One(Was) \in {0, 1}
          /\ One(i \in IdleIds') \in {0, 1} /\ One(w.id = i) \in {0, 1}
      BY WriteTypes DEF One
    <2>4. One(i \in IdleIds) = One(i \in IdleIds') + One(w.id = i) BY <1>2
    <2>5. Accounts(i) <= 1 BY DEF WriteInv, One
    <2>6. Is <=> Was \/ w.id = i BY <1>1 DEF Refused
    <2>7. w.id = i => ~Was
      <3>1. ASSUME w.id = i, Was PROVE FALSE
        <4>1. One(i \in IdleIds) = 1 /\ One(Was) = 1 BY <1>0, <3>1 DEF One
        <4> HIDE DEF Was
        <4> QED BY <2>2, <2>3, <2>5, <4>1
      <3> QED BY <3>1
    <2> HIDE DEF Was, Is
    <2>8. One(Is) = One(Was) + One(w.id = i) BY <2>6, <2>7 DEF One
    <2> QED BY <2>1, <2>2, <2>3, <2>4, <2>8
  <1> QED BY <1>1, <1>2, <1>3, <1>4, <1>5 DEF WriteInv

LEMMA WriteQueued ==
    ASSUME Typed, WriteInv, NEW c \in Callers, NEW kind \in WriteKinds, WriteBusy(c, kind)
    PROVE  WriteInv'
  <1> DEFINE w == [id |-> written + 1, kind |-> kind, queued |-> TRUE]
  <1>1. /\ written \in Nat /\ written' = written + 1
        /\ w \in Writes /\ w.id = written + 1 /\ w.queued
        /\ pending' = Append(pending, w)
        /\ UNCHANGED <<op, session, writer, refused>>
    <2>1. /\ written \in Nat /\ written < MaxWrites /\ MaxWrites \in Nat /\ written' = written + 1
      BY WriteTypes DEF WriteBusy
    <2>2. pending' = Append(pending, w) BY <2>1 DEF WriteBusy
    <2>3. written + 1 \in 1..MaxWrites BY <2>1
    <2>4. w \in Writes /\ w.id = written + 1 /\ w.queued
      BY <2>3, HarnessAssumption DEF Writes
    <2>5. UNCHANGED <<op, session, writer, refused>> BY DEF WriteBusy, store, history
    <2> QED BY <2>1, <2>2, <2>4, <2>5
  <1> HIDE DEF w
  <1>2. /\ pending \in Seq(Writes) /\ Len(pending) \in Nat /\ DOMAIN pending = 1..Len(pending)
        /\ DOMAIN pending' = 1..(Len(pending) + 1) /\ pending'[Len(pending) + 1] = w
        /\ pending' # <<>>
        /\ \A k \in 1..Len(pending) : pending'[k] = pending[k]
    BY <1>1, WriteTypes, LenProperties, AppendProperties
  <1>3. ASSUME NEW i \in 1..MaxWrites PROVE Accounts(i)' = One(i <= written')
    <2>1. WriteCopies(i, pending') = WriteCopies(i, pending) + One(w.id = i)
      <3>1. pending \in Seq(Writes \cup Messages) BY WriteTypes
      <3>2. WriteCopies(i, Append(pending, w)) = WriteCopies(i, pending) + One(w \in WritesOf(i))
        BY <1>1, <3>1, WriteAppended
      <3>3. One(w \in WritesOf(i)) = One(w.id = i) BY <1>1 DEF One, WritesOf
      <3> QED BY <1>1, <3>2, <3>3
    <2>2. Accounts(i)' = WriteCopies(i, session) + WriteCopies(i, pending')
                           + One(i \in IdleIds) + One(Refused(i))
      BY <1>1 DEF Accounts, IdleIds, Refused
    <2>3. Accounts(i) = WriteCopies(i, session) + WriteCopies(i, pending)
                          + One(i \in IdleIds) + One(Refused(i))
      BY DEF Accounts
    <2>4. /\ WriteCopies(i, session) \in Nat /\ WriteCopies(i, pending) \in Nat
          /\ One(i \in IdleIds) \in {0, 1} /\ One(Refused(i)) \in {0, 1}
          /\ One(w.id = i) \in {0, 1}
      BY WriteTypes DEF One
    <2>5. Accounts(i)' = Accounts(i) + One(w.id = i) BY <2>1, <2>2, <2>3, <2>4
    <2>6. Accounts(i) = One(i <= written) BY DEF WriteInv
    <2>7. One(i <= written') = One(i <= written) + One(w.id = i) BY <1>1 DEF One
    <2> QED BY <2>5, <2>6, <2>7
  <1>4. PeekInv'
    <2>1. ASSUME NEW o \in Ops, op[o].at = "flushing"
          PROVE  pending' # <<>> /\ op[o].writing = Head(pending')
      <3>1. pending # <<>> /\ op[o].writing = Head(pending) BY <2>1 DEF WriteInv, PeekInv
      <3>2. 1 \in 1..Len(pending) BY <1>2, <3>1, EmptySeq
      <3>3. Head(pending) = pending[1] /\ Head(pending') = pending'[1]
        OBVIOUS
      <3> QED BY <1>2, <3>1, <3>2, <3>3
    <2> QED BY <1>1, <2>1 DEF PeekInv
  <1>5. OrderInv'
    <2>0. OrderInv BY DEF WriteInv
    <2>1. \A k \in 1..Len(pending) : pending[k].id \in Nat /\ pending[k].id < w.id
      <3>1. \A k \in 1..Len(pending) : pending[k] \in Writes BY <1>2, ElementOfSeq
      <3>2. \A k \in 1..Len(pending) : pending[k].id \in Nat BY <3>1, WriteTypes
      <3> QED BY <1>1, <1>2, <2>0, <3>2 DEF OrderInv
    <2>2. \A j \in DOMAIN session : IsQueued(session[j]) =>
             session[j].id \in Nat /\ session[j].id < w.id
      <3>1. \A j \in DOMAIN session : session[j] \in Writes \cup Messages
        BY WriteTypes, ElementOfSeq, LenProperties
      <3>2. \A j \in DOMAIN session : IsQueued(session[j]) => session[j].id \in Nat
        BY <3>1, WriteTypes DEF IsQueued, IsWrite, Messages
      <3> QED BY <1>1, <2>0, <3>2 DEF OrderInv
    <2>3. \A k \in DOMAIN pending' : pending'[k].queued /\ pending'[k].id <= written'
      <3>1. ASSUME NEW k \in 1..Len(pending) PROVE pending'[k].queued /\ pending'[k].id <= written'
        BY <1>1, <1>2, <2>0, <2>1 DEF OrderInv
      <3>2. pending'[Len(pending) + 1].queued /\ pending'[Len(pending) + 1].id <= written'
        BY <1>1, <1>2
      <3> QED BY <1>2, <3>1, <3>2
    <2>4. \A j, k \in DOMAIN pending' : j < k => pending'[j].id < pending'[k].id
      <3> SUFFICES ASSUME NEW j \in DOMAIN pending', NEW k \in DOMAIN pending', j < k
                   PROVE  pending'[j].id < pending'[k].id
        OBVIOUS
      <3>1. j \in 1..Len(pending) /\ pending'[j] = pending[j] BY <1>2
      <3>2. CASE k \in 1..Len(pending)
        <4>1. pending[j].id < pending[k].id BY <1>2, <2>0, <3>1, <3>2 DEF OrderInv
        <4> QED BY <1>2, <3>1, <3>2, <4>1
      <3>3. CASE k = Len(pending) + 1 BY <1>2, <2>1, <3>1, <3>3
      <3> QED BY <1>2, <3>2, <3>3
    <2>5. \A j \in DOMAIN session : IsQueued(session[j]) =>
             /\ session[j].id <= written'
             /\ \A k \in DOMAIN pending' : session[j].id < pending'[k].id
      <3> SUFFICES ASSUME NEW j \in DOMAIN session, IsQueued(session[j])
                   PROVE  /\ session[j].id <= written'
                          /\ \A k \in DOMAIN pending' : session[j].id < pending'[k].id
        OBVIOUS
      <3>1. \A k \in 1..Len(pending) : session[j].id < pending'[k].id
        BY <1>2, <2>0 DEF OrderInv
      <3>2. session[j].id < pending'[Len(pending) + 1].id BY <1>2, <2>2
      <3> QED BY <1>1, <1>2, <2>2, <3>1, <3>2
    <2> QED BY <1>1, <2>0, <2>3, <2>4, <2>5 DEF OrderInv, IsQueued, IsWrite
  <1>6. WriterInv' BY <1>1 DEF WriteInv, WriterInv
  <1> QED BY <1>3, <1>4, <1>5, <1>6 DEF WriteInv

(* The append has been awaited: the write that was peeked at is shifted    *)
(* out, and it is the one that was persisted.                              *)
LEMMA WriteFlushed ==
    ASSUME Typed, WriteInv, OneInv, NEW o \in Ops, FlushAppend(o) PROVE WriteInv'
  <1> DEFINE w == Head(pending)
  <1>0. op[o].at = "flushing" BY DEF FlushAppend
  <1>1. /\ pending # <<>> /\ op[o].writing = w /\ session' = Append(session, w)
        /\ pending' = Tail(pending)
        /\ UNCHANGED <<writer, written, refused>>
    BY <1>0 DEF WriteInv, PeekInv, FlushAppend, Persist, Shift, env, history
  <1>2. /\ pending \in Seq(Writes) /\ Len(pending) \in Nat \ {0}
        /\ DOMAIN pending = 1..Len(pending) /\ w = pending[1] /\ w \in Writes
        /\ DOMAIN Tail(pending) = 1..(Len(pending) - 1)
        /\ \A k \in 1..(Len(pending) - 1) : Tail(pending)[k] = pending[k + 1]
    BY <1>1, WriteTypes, LenProperties, HeadTailProperties, EmptySeq
  <1>s. /\ session \in Seq(Writes \cup Messages) /\ Len(session) \in Nat
        /\ DOMAIN session = 1..Len(session)
        /\ DOMAIN session' = 1..(Len(session) + 1) /\ session'[Len(session) + 1] = w
        /\ \A j \in 1..Len(session) : session'[j] = session[j]
    BY <1>1, <1>2, WriteTypes, LenProperties, AppendProperties
  <1>3. PeekInv'
    <2>1. /\ op'[o].at = IF pending' = <<>> THEN op[o].resume ELSE "flushing"
          /\ op'[o].writing = IF pending' = <<>> THEN None ELSE Head(pending')
          /\ \A p \in Ops \ {o} : op'[p] = op[p]
      <3>1. op \in [Ops -> OpType] BY DEF Typed, OpTyped
      <3> QED BY <3>1 DEF FlushAppend, OpType
    <2>2. op[o].resume # "flushing" BY DEF Typed, OpTyped, OpType, Flushes
    <2>3. \A p \in Ops \ {o} : op[p].at # "flushing" BY <1>0 DEF OneInv, Active
    <2> QED BY <2>1, <2>2, <2>3 DEF PeekInv
  <1>p. pending \in Seq(Writes \cup Messages) BY WriteTypes
  <1>4. ASSUME NEW i \in 1..MaxWrites PROVE Accounts(i)' = Accounts(i)
    <2>1. WriteCopies(i, session') = WriteCopies(i, session) + One(w.id = i)
      <3>1. w \in Writes /\ session \in Seq(Writes \cup Messages) BY <1>2, <1>s
      <3> HIDE DEF w
      <3>2. WriteCopies(i, Append(session, w)) = WriteCopies(i, session) + One(w \in WritesOf(i))
        BY <3>1, WriteAppended
      <3>3. One(w \in WritesOf(i)) = One(w.id = i) BY <3>1 DEF One, WritesOf
      <3> QED BY <1>1, <3>2, <3>3
    <2>2. /\ WriteCopies(i, pending) = WriteCopies(i, pending') + One(w.id = i)
          /\ WriteCopies(i, pending') \in Nat
      BY <1>1, <1>2, <1>p, WriteTaken
    <2>3. Accounts(i)' = WriteCopies(i, session') + WriteCopies(i, pending')
                           + One(i \in IdleIds) + One(Refused(i))
      BY <1>1 DEF Accounts, IdleIds, Refused
    <2>4. Accounts(i) = WriteCopies(i, session) + WriteCopies(i, pending)
                          + One(i \in IdleIds) + One(Refused(i))
      BY DEF Accounts
    <2>5. /\ WriteCopies(i, session) \in Nat /\ WriteCopies(i, pending) \in Nat
          /\ One(i \in IdleIds) \in {0, 1} /\ One(Refused(i)) \in {0, 1}
          /\ One(w.id = i) \in {0, 1}
      BY WriteTypes DEF One
    <2> HIDE DEF w
    <2>6. WriteCopies(i, session') + WriteCopies(i, pending')
            = WriteCopies(i, session) + WriteCopies(i, pending)
      BY <2>1, <2>2, <2>5
    <2>7. WriteCopies(i, session') \in Nat BY <2>1, <2>5
    <2> QED BY <2>2, <2>3, <2>4, <2>5, <2>6, <2>7
  <1>5. OrderInv'
    <2>0. OrderInv BY DEF WriteInv
    <2>1. \A k \in DOMAIN pending' : k \in Nat /\ k + 1 \in DOMAIN pending /\ 1 < k + 1
                                     /\ pending'[k] = pending[k + 1]
      BY <1>1, <1>2
    <2>d. 1 \in DOMAIN pending BY <1>2
    <2> HIDE DEF w
    <2>2. \A k \in DOMAIN pending' : pending'[k].queued /\ pending'[k].id <= written'
      BY <1>1, <2>0, <2>1 DEF OrderInv
    <2>3. \A j, k \in DOMAIN pending' : j < k => pending'[j].id < pending'[k].id
      <3> SUFFICES ASSUME NEW j \in DOMAIN pending', NEW k \in DOMAIN pending', j < k
                   PROVE  pending'[j].id < pending'[k].id
        OBVIOUS
      <3>1. j + 1 < k + 1 BY <2>1
      <3> QED BY <2>0, <2>1, <3>1 DEF OrderInv
    <2>4. /\ w.id <= written /\ w.queued
          /\ \A k \in DOMAIN pending' : w.id < pending'[k].id
          /\ \A j \in DOMAIN session : IsQueued(session[j]) => session[j].id < w.id
      BY <1>2, <2>0, <2>1, <2>d DEF OrderInv
    <2>5. \A j \in DOMAIN session' : IsQueued(session'[j]) =>
             /\ session'[j].id <= written'
             /\ \A k \in DOMAIN pending' : session'[j].id < pending'[k].id
      <3>1. ASSUME NEW j \in 1..Len(session), IsQueued(session'[j])
            PROVE  /\ session'[j].id <= written'
                   /\ \A k \in DOMAIN pending' : session'[j].id < pending'[k].id
        <4>1. session'[j] = session[j] /\ j \in DOMAIN session BY <1>s
        <4> QED BY <1>1, <2>0, <2>1, <3>1, <4>1 DEF OrderInv
      <3> QED BY <1>1, <1>s, <2>4, <3>1
    <2>6. \A j, k \in DOMAIN session' : IsQueued(session'[j]) /\ IsQueued(session'[k]) /\ j < k =>
             session'[j].id < session'[k].id
      <3> SUFFICES ASSUME NEW j \in DOMAIN session', NEW k \in DOMAIN session', j < k,
                          IsQueued(session'[j]), IsQueued(session'[k])
                   PROVE  session'[j].id < session'[k].id
        OBVIOUS
      <3>1. j \in DOMAIN session /\ session'[j] = session[j] BY <1>s
      <3>2. CASE k \in DOMAIN session
        <4>1. session'[k] = session[k] BY <1>s, <3>2
        <4> QED BY <2>0, <3>1, <3>2, <4>1 DEF OrderInv
      <3>3. CASE k = Len(session) + 1 BY <1>s, <2>4, <3>1, <3>3
      <3> QED BY <1>s, <3>2, <3>3
    <2> QED BY <2>2, <2>3, <2>5, <2>6 DEF OrderInv, IsQueued, IsWrite
  <1>6. WriterInv' BY <1>1 DEF WriteInv, WriterInv
  <1> QED BY <1>1, <1>3, <1>4, <1>5, <1>6 DEF WriteInv

-----------------------------------------------------------------------------
LEMMA WriteInit == Init => WriteInv
  <1> SUFFICES ASSUME Init PROVE WriteInv OBVIOUS
  <1>1. /\ \A o \in Ops : op[o].at = "off"
        /\ pending = <<>> /\ session = <<>> /\ refused = {} /\ written = 0
        /\ \A c \in Callers : writer[c] = None
    BY DEF Init, Fresh
  <1>2. ASSUME NEW i \in 1..MaxWrites PROVE Accounts(i) = One(i <= written)
    <2>1. WriteCopies(i, <<>>) = 0
      <3>1. <<>> \in Seq(Writes \cup Messages) BY EmptySeq
      <3> QED BY <3>1, WriteCount, CountEmpty
    <2>2. i \notin IdleIds /\ ~Refused(i) BY <1>1 DEF IdleIds, Refused
    <2>3. One(i \in IdleIds) = 0 /\ One(Refused(i)) = 0 BY <2>2 DEF One
    <2>4. One(i <= written) = 0 BY <1>1, HarnessAssumption DEF One
    <2>5. WriteCopies(i, session) = 0 /\ WriteCopies(i, pending) = 0 BY <1>1, <2>1
    <2> QED BY <2>3, <2>4, <2>5 DEF Accounts
  <1>3. PeekInv BY <1>1 DEF PeekInv
  <1>4. OrderInv BY <1>1 DEF OrderInv
  <1>5. WriterInv BY <1>1 DEF WriterInv
  <1> QED BY <1>2, <1>3, <1>4, <1>5 DEF WriteInv

LEMMA WriteLoop ==
    ASSUME Typed, WriteInv, OneInv, NEW o \in Ops, Advance(o) \/ Respond(o) \/ Break(o)
    PROVE  WriteInv'
  <1> USE HarnessAssumption
  <1>r. op[o] \in OpType /\ OpTyped /\ TypeOK /\ PeekInv BY DEF Typed, OpTyped, WriteInv
  <1>a. ASSUME NEW r, op' = [op EXCEPT ![o] = r], UNCHANGED pending,
               r.at = "flushing" => pending # <<>> /\ r.writing = Head(pending)
        PROVE  PeekInv'
    <2>1. op'[o] = r /\ \A p \in Ops \ {o} : op'[p] = op[p] BY <1>a, <1>r DEF OpTyped
    <2> QED BY <1>a, <1>r, <2>1 DEF PeekInv
  <1>b. ASSUME NEW label, Goto(o, label), label # "flushing", UNCHANGED pending PROVE PeekInv'
    <2> DEFINE r == [op[o] EXCEPT !.at = label]
    <2>1. r.at # "flushing" BY <1>b, <1>r DEF OpType
    <2>2. op' = [op EXCEPT ![o] = r] BY <1>b DEF Goto
    <2> HIDE DEF r
    <2> QED BY <1>a, <1>b, <2>1, <2>2
  <1>c. ASSUME NEW r \in OpType, NEW label \in Flushes,
               op' = [op EXCEPT ![o] = Flushing(r, label)], UNCHANGED pending
        PROVE  PeekInv'
    <2>1. Flushing(r, label).at = "flushing" =>
             pending # <<>> /\ Flushing(r, label).writing = Head(pending)
      BY DEF Flushing, OpType, Flushes
    <2> QED BY <1>a, <1>c, <2>1
  <1>d. ASSUME op' = [op EXCEPT ![o] = Thrown(op[o])] \/ op' = [op EXCEPT ![o] = Rejected(op[o])],
               UNCHANGED pending
        PROVE  PeekInv'
    <2>1. Thrown(op[o]).at # "flushing" /\ Rejected(op[o]).at # "flushing"
      BY <1>r, ThrownType, RejectedType
    <2> QED BY <1>a, <1>d, <2>1
  <1>1. ASSUME FlushAppend(o) PROVE WriteInv' BY <1>1, WriteFlushed
  <1>2. ASSUME Advance(o) \/ Respond(o) \/ Break(o), ~FlushAppend(o)
        PROVE  /\ UNCHANGED <<pending, writer, written, refused>>
               /\ session' = session \/ \E x \in Messages : session' = Append(session, x)
    <2>1. ASSUME Inject(o)
          PROVE  /\ UNCHANGED <<pending, writer, written, refused>>
                 /\ \E x \in Messages : session' = Append(session, x)
      <3>1. op[o].held # <<>> /\ op[o].held \in Seq(Messages) BY <2>1, <1>r DEF Inject, OpType
      <3>2. Head(op[o].held) \in Messages BY <3>1, HeadTailProperties
      <3> QED BY <2>1, <3>2 DEF Inject, harness, env, history
    <2>2. ASSUME \/ Prepare(o) \/ AnnounceNext(o) \/ StartLoop(o) \/ InjectDone(o)
                 \/ Poll(o) \/ Follow(o) \/ Announce(o) \/ Request(o)
          PROVE  UNCHANGED <<pending, writer, written, refused, session>>
      BY <2>2 DEF Prepare, AnnounceNext, StartLoop, InjectDone, Poll, Follow, Announce, Request,
                  harness, store, env, history
    <2>3. ASSUME \/ Respond(o) \/ AbortStream(o) \/ RunTools(o) \/ TurnEnd(o) \/ Gate(o)
                 \/ Snapshot(o) \/ ReportFailure(o) \/ Rethrow(o) \/ GoIdle(o) \/ Settle(o)
          PROVE  UNCHANGED <<pending, writer, written, refused, session>>
      BY <2>3 DEF Respond, AbortStream, RunTools, TurnEnd, Gate, Snapshot, ReportFailure,
                  Rethrow, GoIdle, Settle, harness, store, env, history
    <2>4. ASSUME \/ Cleanup(o) \/ StopHere(o) \/ ContinueTurn(o) \/ Finish(o)
                 \/ EndStructural(o) \/ NavigateTree(o)
          PROVE  UNCHANGED <<pending, writer, written, refused, session>>
      BY <2>4 DEF Cleanup, StopHere, ContinueTurn, Finish, EndStructural, NavigateTree,
                  harness, store, env, history
    <2>5. ASSUME Break(o) PROVE UNCHANGED <<pending, writer, written, refused, session>>
      BY <2>5 DEF Break, PrepareFails, AnnounceNextFails, StartLoopFails, AnnounceFails,
                  LoopFails, FlushFails, harness, store, history
    <2> QED BY <1>2, <2>1, <2>2, <2>3, <2>4, <2>5 DEF Advance
  <1>3. ASSUME Advance(o) \/ Respond(o) \/ Break(o), ~FlushAppend(o), UNCHANGED pending
        PROVE  PeekInv'
    <2>1. ASSUME \/ AnnounceNext(o) \/ InjectDone(o) \/ Request(o) \/ Snapshot(o) \/ GoIdle(o)
                 \/ Cleanup(o) \/ StopHere(o) \/ EndStructural(o) \/ NavigateTree(o)
          PROVE  PeekInv'
      <3>1. PICK label \in {"starting", "polling", "requesting", "streaming", "settling",
                            "asking", "unwinding", "done"} : Goto(o, label)
        BY <2>1 DEF AnnounceNext, InjectDone, Request, Snapshot, GoIdle, Cleanup, StopHere,
                    EndStructural, NavigateTree
      <3>2. label # "flushing" OBVIOUS
      <3> QED BY <1>3, <1>b, <3>1, <3>2
    <2>2. ASSUME TurnEnd(o) \/ Gate(o) \/ ReportFailure(o) \/ Rethrow(o) PROVE PeekInv'
      <3>1. PICK label \in Flushes : op' = [op EXCEPT ![o] = Flushing(op[o], label)]
        BY <2>2 DEF TurnEnd, Gate, ReportFailure, Rethrow, FlushThen, Flushes
      <3> QED BY <1>3, <1>c, <1>r, <3>1
    <2>3. ASSUME NEW r, op' = [op EXCEPT ![o] = r], r.at # "flushing" PROVE PeekInv'
      BY <1>3, <1>a, <2>3
    <2>4. ASSUME Prepare(o) \/ StartLoop(o) \/ Announce(o) \/ RunTools(o) \/ Respond(o)
                 \/ ContinueTurn(o)
          PROVE  PeekInv'
      <3>1. op'[o].at \in {"starting", "announcingNext", "prompting", "injecting", "turnEnd",
                           "tools", "unwinding", "preparing"}
            /\ \A p \in Ops \ {o} : op'[p] = op[p]
        <4>1. ASSUME Prepare(o) \/ StartLoop(o) \/ Announce(o)
              PROVE  op'[o].at \in {"starting", "announcingNext", "prompting", "injecting"}
                     /\ \A p \in Ops \ {o} : op'[p] = op[p]
          BY <4>1, <1>r DEF Prepare, StartLoop, Announce, OpTyped, OpType
        <4>2. ASSUME RunTools(o) \/ Respond(o) \/ ContinueTurn(o)
              PROVE  op'[o].at \in {"turnEnd", "tools", "unwinding", "preparing"}
                     /\ \A p \in Ops \ {o} : op'[p] = op[p]
          BY <4>2, <1>r DEF RunTools, Respond, ContinueTurn, OpTyped, OpType
        <4> QED BY <2>4, <4>1, <4>2
      <3> QED BY <1>3, <1>r, <3>1 DEF PeekInv
    <2>5. ASSUME Inject(o) PROVE PeekInv'
      <3>1. op'[o].at # "flushing" /\ \A p \in Ops \ {o} : op'[p] = op[p]
        BY <2>5, <1>r DEF Inject, OpTyped, OpType
      <3> QED BY <1>3, <1>r, <3>1 DEF PeekInv
    <2>6. ASSUME NEW q, Take(o, q) PROVE PeekInv'
      <3>1. op'[o].at = "announcing" /\ \A p \in Ops \ {o} : op'[p] = op[p]
        BY <2>6, <1>r DEF Take, OpTyped, OpType
      <3> QED BY <1>3, <1>r, <3>1 DEF PeekInv
    <2>7. ASSUME Poll(o) PROVE PeekInv'
      <3>1. Take(o, "steer") \/ \E label \in {"requesting", "following"} : Goto(o, label)
        BY <2>7 DEF Poll
      <3>2. \A label \in {"requesting", "following"} : label # "flushing" OBVIOUS
      <3> QED BY <1>3, <1>b, <2>6, <3>1, <3>2
    <2>8. ASSUME Follow(o) PROVE PeekInv'
      <3>1. Take(o, "followUp") \/ op' = [op EXCEPT ![o] = Flushing(op[o], "goIdle")]
        BY <2>8 DEF Follow, FlushThen
      <3>2. "goIdle" \in Flushes BY DEF Flushes
      <3> QED BY <1>3, <1>c, <1>r, <2>6, <3>1, <3>2
    <2>9. ASSUME Settle(o) PROVE PeekInv'
      <3> DEFINE r == [op[o] EXCEPT !.threw = trip]
      <3>1. r \in OpType /\ "cleanup" \in Flushes BY <1>r DEF OpType, TypeOK, Flushes
      <3>2. op' = [op EXCEPT ![o] = Flushing(r, "cleanup")] BY <2>9 DEF Settle
      <3> HIDE DEF r
      <3> QED BY <1>3, <1>c, <3>1, <3>2
    <2>10. ASSUME Finish(o) PROVE PeekInv'
      <3>1. [Fresh EXCEPT !.at = "done"].at # "flushing" BY DEF Fresh
      <3> QED BY <2>3, <2>10, <3>1 DEF Finish
    <2>11. ASSUME \/ PrepareFails(o) \/ AnnounceNextFails(o) \/ StartLoopFails(o)
                  \/ AnnounceFails(o) \/ LoopFails(o) \/ AbortStream(o)
           PROVE  PeekInv'
      BY <2>11, <1>3, <1>d DEF PrepareFails, AnnounceNextFails, StartLoopFails, AnnounceFails,
                               LoopFails, AbortStream
    <2>12. ASSUME FlushFails(o) PROVE PeekInv'
      <3> DEFINE gaveUp == [op[o] EXCEPT !.at = "cleanup", !.threw = TRUE, !.writing = None]
                 r == IF op[o].resume = "cleanup" THEN gaveUp ELSE Thrown(op[o])
      <3>1. Thrown(op[o]).at # "flushing" /\ gaveUp.at # "flushing" BY <1>r, ThrownType DEF OpType
      <3>2. r.at # "flushing" BY <3>1
      <3>3. op' = [op EXCEPT ![o] = r] BY <2>12 DEF FlushFails
      <3> HIDE DEF r
      <3> QED BY <2>3, <3>2, <3>3
    <2> QED BY <1>3, <2>1, <2>2, <2>4, <2>5, <2>7, <2>8, <2>9, <2>10, <2>11, <2>12
            DEF Advance, Break
  <1> QED BY <1>1, <1>2, <1>3, WritesStay

LEMMA WriteStep == ASSUME Typed, WriteInv, OneInv, [Next]_vars PROVE WriteInv'
  <1> USE HarnessAssumption
  <1>p. PeekInv BY DEF WriteInv
  <1>1. ASSUME NEW o \in Ops, Prompt(o) \/ PromptOverCap(o) \/ StartStructural(o)
        PROVE  WriteInv'
    <2>1. PICK label \in {"preparing", "done", "compaction", "branch_summary"} : Goto(o, label)
      BY <1>1 DEF Prompt, PromptOverCap, StartStructural
    <2>2. op'[o].at # "flushing" /\ \A p \in Ops \ {o} : op'[p] = op[p]
      <3>1. op \in [Ops -> OpType] BY DEF Typed, OpTyped
      <3> QED BY <2>1, <3>1 DEF Goto, OpType
    <2>3. UNCHANGED <<pending, writer, written, refused, session>>
      BY <1>1 DEF Prompt, PromptOverCap, StartStructural, store, env, history
    <2> QED BY <1>p, <2>2, <2>3, WritesStay DEF PeekInv
  <1>2. ASSUME NEW q \in Sends, Send(q) PROVE WriteInv'
    BY <1>2, <1>p, WritesStay DEF Send, store, history, PeekInv
  <1>3. ASSUME Abort PROVE WriteInv'
    <2>1. \A o \in Ops : op'[o].at = op[o].at /\ op'[o].writing = op[o].writing
      BY <1>3 DEF Abort, Typed, OpTyped, OpType
    <2>2. UNCHANGED <<pending, writer, written, refused, session>> BY <1>3 DEF Abort, store, env
    <2> QED BY <1>p, <2>1, <2>2, WritesStay DEF PeekInv
  <1>4. ASSUME ResetCost \/ UNCHANGED vars PROVE WriteInv'
    BY <1>4, <1>p, WritesStay DEF ResetCost, vars, harness, store, env, history, PeekInv
  <1> QED BY <1>1, <1>2, <1>3, <1>4, WriteLoop, WriterWaits, WriteQueued, WriteCommitted,
             WriteRefused DEF Next

(* A write accepted by setModel(), setThinkingLevel() or appendMessage()   *)
(* is waiting, persisted, or its caller got an error, and never persisted  *)
(* twice, for callers that await one operation before the next: the flush  *)
(* shifts a write out only once its append has succeeded, and no other     *)
(* flush can have peeked at the same write meanwhile.                      *)
THEOREM HarnessWritesAccounted == ASSUME OneAtATime PROVE Spec => []WritesAccounted
  <1>1. IInv => Typed /\ OneInv BY DEF IInv, Typed
  <1>2. Typed /\ OneInv /\ WriteInv /\ [Next]_vars => WriteInv' BY WriteStep
  <1>3. ASSUME Typed, WriteInv PROVE WritesAccounted
    <2>1. \A i \in 1..written : i \in 1..MaxWrites /\ i <= written BY <1>3, WriteTypes
    <2>2. \A i \in 1..written : Accounts(i) = 1 BY <1>3, <2>1 DEF WriteInv, One
    <2>3. OrderInv BY <1>3 DEF WriteInv
    <2> QED BY <2>2, <2>3 DEF WritesAccounted, Accounts, Refused, OrderInv, IsQueued
  <1> QED BY <1>1, <1>2, <1>3, WriteInit, Invariance, PTL DEF Spec

=============================================================================
