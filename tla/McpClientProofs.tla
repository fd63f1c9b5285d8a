--------------------------- MODULE McpClientProofs ---------------------------
(***************************************************************************)
(* The safety properties of McpClient hold for any number of calls, on     *)
(* either transport, whatever the server sends.                            *)
(***************************************************************************)
EXTENDS McpClient, SequenceTheorems, TLAPS

(* Ids are spent in order, so a live request has one of its own; a call that *)
(* has not begun has neither an id nor a settlement.                         *)
IdsOrdered ==
    \A c \in Calls :
        /\ id[c] < nextId
        /\ Live(c) => id[c] # 0
        /\ st[c] = "idle" => id[c] = 0 /\ settled[c] = Nothing

Unsettled(c) == Live(c) /\ settled[c] = Nothing

(* The table as the code keeps it: a call stays in it from its registration  *)
(* to its settlement or the end of request(), its cancel notification        *)
(* included.                                                                 *)
TableInv == inflight = {c \in Calls : Unsettled(c)}

IInv == TypeOK /\ IdsOrdered /\ TableInv /\ OwnAnswer /\ NoneForgotten

(* Removing an id removes its call's entry and no other. *)
LEMMA ForgetRemovesOne ==
    ASSUME IInv, NEW c \in Calls, Live(c)
    PROVE  {d \in inflight : id[d] # id[c]} = inflight \ {c}
  <1>1. id[c] # 0 BY DEF IInv, IdsOrdered
  <1>2. ASSUME NEW d \in inflight, d # c PROVE id[d] # id[c]
    BY <1>1, <1>2 DEF IInv, OwnAnswer, TypeOK
  <1> QED BY <1>2

LEMMA InitInv == Init => IInv
  <1> SUFFICES ASSUME Init PROVE IInv OBVIOUS
  <1>1. TypeOK
    <2>1. settled \in [Calls -> Settlements] BY DEF Init, Settlements
    <2>2. lines \in Seq(Settlements \cup {Other, End}) BY EmptySeq DEF Init
    <2>3. sse \in {"connecting", "streaming", "sleeping", "over"} BY DEF Init
    <2>4. kind \in {"stdio", "http"} BY KindsAssumption DEF Init
    <2>5. nextId \in Nat \ {0} /\ received \subseteq Nat /\ attempts \in Nat
      BY DEF Init
    <2>6. /\ st \in [Calls -> {"idle", "sending", "waiting", "cancelling", "noting", "done"}]
          /\ op \in [Calls -> {"initialize", "tools"}]
          /\ out \in [Calls -> {"none", "notInitialized", "protocol", "transport",
                          "error", "timeout", "cancelled", "result"}]
      BY DEF Init
    <2>7. id \in [Calls -> Nat] /\ aborted \in [Calls -> BOOLEAN]
      BY DEF Init
    <2> QED BY <2>1, <2>2, <2>3, <2>4, <2>5, <2>6, <2>7 DEF Init, TypeOK
  <1>2. IdsOrdered
    <2> SUFFICES ASSUME NEW c \in Calls
                 PROVE  /\ id[c] < nextId
                        /\ Live(c) => id[c] # 0
                        /\ st[c] = "idle" => id[c] = 0 /\ settled[c] = Nothing
      BY DEF IdsOrdered
    <2>1. id[c] = 0 /\ nextId = 1 BY DEF Init
    <2>2. st[c] = "idle" /\ settled[c] = Nothing BY DEF Init
    <2>3. ~Live(c) BY <2>2 DEF Live
    <2>4. id[c] < nextId BY <2>1
    <2> QED BY <2>1, <2>2, <2>3, <2>4
  <1>3. TableInv BY DEF Init, TableInv, Unsettled, Live
  <1>4. OwnAnswer BY DEF Init, OwnAnswer, Nothing
  <1>5. NoneForgotten BY DEF Init, NoneForgotten
  <1> QED BY <1>1, <1>2, <1>3, <1>4, <1>5 DEF IInv

(* The types alone: one step per action. *)
LEMMA TypeStep == TypeOK /\ [Next]_vars => TypeOK'
  <1> SUFFICES ASSUME TypeOK, [Next]_vars PROVE TypeOK' OBVIOUS
  <1> USE DEF TypeOK, Ends
  <1>1. ASSUME NEW c \in Calls, CallStep(c) PROVE TypeOK'
    <2>1. CASE NotInitialized(c) BY <2>1 DEF NotInitialized, request, call, child, stream
    <2>2. CASE Unserialisable(c) BY <2>2 DEF Unserialisable, call, child, stream
    <2>3. CASE Request(c)
      BY <2>3 DEF Request, NextIdAfter, child, stream
    <2>4. CASE Deliver(c) BY <2>4 DEF Deliver, request, call, child, stream
    <2>5. CASE Abort(c) BY <2>5 DEF Abort, request, call, child, stream
    <2>6. CASE Cancel(c) BY <2>6 DEF Cancel, request, child, stream
    <2>7. CASE Sent(c) BY <2>7 DEF Sent, request, child, stream
    <2>8. CASE SendFails(c) BY <2>8 DEF SendFails, Forget, child, stream
    <2>9. CASE Settle(c) BY <2>9 DEF Settle, Forget, child, stream
    <2>10. CASE Deadline(c) BY <2>10 DEF Deadline, Forget, child, stream
    <2>11. CASE Cancelled(c) BY <2>11 DEF Cancelled, Forget, child, stream
    <2>12. CASE Initialized(c) BY <2>12 DEF Initialized, request, child, stream
    <2>13. CASE NoteFails(c) BY <2>13 DEF NoteFails, request, child, stream
    <2> QED
      BY <1>1, <2>1, <2>2, <2>3, <2>4, <2>5, <2>6, <2>7, <2>8, <2>9, <2>10, <2>11,
         <2>12, <2>13 DEF CallStep, Returns
  <1>2. ASSUME lines # << >> PROVE
          /\ Head(lines) \in Settlements \cup {Other, End}
          /\ Tail(lines) \in Seq(Settlements \cup {Other, End})
    BY <1>2, HeadTailProperties
  <1>3. \A l \in Settlements \cup {Other, End} :
          Append(lines, l) \in Seq(Settlements \cup {Other, End})
    BY AppendProperties
  <1>4. CASE PumpAnswer
    <2>1. Head(lines) \in Settlements
      BY <1>2, <1>4 DEF PumpAnswer, Other, End
    <2>2. settled' \in [Calls -> Settlements]
      BY <2>1, <1>4 DEF PumpAnswer, Resolve
    <2>3. lines' \in Seq(Settlements \cup {Other, End})
      BY <1>2, <1>4 DEF PumpAnswer
    <2> QED BY <1>4, <2>2, <2>3 DEF PumpAnswer, call, child, stream
  <1>5. CASE PumpOther
    BY <1>2, <1>5 DEF PumpOther, request, call, child, stream
  <1>6. CASE PumpEnd
    <2>1. settled' \in [Calls -> Settlements]
      BY <1>6 DEF PumpEnd, Resolve, Settlements
    <2> QED BY <1>2, <1>6, <2>1 DEF PumpEnd, call, child, stream
  <1>7. CASE PeerStep
    <2>1. CASE ServerAnswers
      <3>1. PICK i \in received, good \in BOOLEAN : lines' = Append(lines, Answer(i, good))
        BY <2>1 DEF ServerAnswers, Push
      <3>2. Answer(i, good) \in Settlements BY DEF Answer, Settlements
      <3>3. lines' \in Seq(Settlements \cup {Other, End}) BY <1>3, <3>1, <3>2
      <3> QED BY <2>1, <3>3 DEF ServerAnswers, request, call, child, stream
    <2>2. CASE ServerSays
      BY <1>3, <2>2 DEF ServerSays, Push, request, call, child, stream
    <2>3. CASE ChildExits BY <2>3 DEF ChildExits, request, call, stream
    <2>10. CASE StdoutEnds
      BY <1>3, <2>10 DEF StdoutEnds, Push, request, call, stream
    <2>4. CASE ChildStalls BY <2>4 DEF ChildStalls, request, call, stream
    <2>5. CASE ChildResumes BY <2>5 DEF ChildResumes, request, call, stream
    <2>6. CASE StreamOpens BY <2>6 DEF StreamOpens, request, call, child
    <2>7. CASE StreamEnds BY <2>7 DEF StreamEnds, request, call, child
    <2>8. CASE StreamFails
      <3>1. lines' \in Seq(Settlements \cup {Other, End})
        <4>1. Append(lines, End) \in Seq(Settlements \cup {Other, End}) BY <1>3
        <4> QED BY <4>1, <2>8 DEF StreamFails, Push
      <3>2. sse' \in {"sleeping", "over"} /\ attempts' \in Nat
        BY <2>8 DEF StreamFails
      <3> QED BY <2>8, <3>1, <3>2 DEF StreamFails, request, call, child
    <2>9. CASE StreamRetries BY <2>9 DEF StreamRetries, request, call, child
    <2> QED
      BY <1>7, <2>1, <2>2, <2>3, <2>4, <2>5, <2>6, <2>7, <2>8, <2>9, <2>10
         DEF PeerStep
  <1>8. CASE Close
    <2>1. link' \in {"up", "down"} /\ sse' \in {"connecting", "streaming", "sleeping", "over"}
      BY <1>8 DEF Close
    <2> QED BY <1>8, <2>1 DEF Close, request, call
  <1>9. CASE UNCHANGED vars
    BY <1>9 DEF vars, request, call, child, stream
  <1> QED BY <1>1, <1>4, <1>5, <1>6, <1>7, <1>8, <1>9 DEF Next, PumpStep

(* What the invariant reads: a step that leaves these alone preserves it. *)
tableVars == <<nextId, inflight, pump, st, id, settled, late>>

LEMMA TableUntouched ==
    ASSUME IInv, UNCHANGED tableVars
    PROVE  IdsOrdered' /\ TableInv' /\ OwnAnswer' /\ NoneForgotten'
  BY DEF IInv, tableVars, IdsOrdered, TableInv, OwnAnswer, NoneForgotten,
         Unsettled, Live

(* A live call that leaves the table as it ends. *)
LEMMA CallLeaves ==
    ASSUME IInv, NEW c \in Calls, Live(c), Forget(c),
           NEW s \in {"done", "noting"}, st' = [st EXCEPT ![c] = s],
           UNCHANGED <<pump, settled>>
    PROVE  IdsOrdered' /\ TableInv' /\ OwnAnswer' /\ NoneForgotten'
  <1>1. inflight' = inflight \ {c} BY ForgetRemovesOne DEF Forget
  <1>2. IdsOrdered' BY DEF IInv, TypeOK, IdsOrdered, Forget, Live
  <1>3. TableInv'
    <2>1. \A d \in Calls : Unsettled(d)' <=> Unsettled(d) /\ d # c
      BY DEF IInv, TypeOK, Unsettled, Live
    <2> QED BY <1>1, <2>1 DEF IInv, TableInv
  <1>4. OwnAnswer' BY DEF IInv, OwnAnswer, Forget
  <1>5. NoneForgotten' BY <1>1 DEF IInv, NoneForgotten, Forget
  <1> QED BY <1>2, <1>3, <1>4, <1>5

(* A live call that moves on and stays live. *)
LEMMA CallMoves ==
    ASSUME IInv, NEW c \in Calls, Live(c),
           NEW s \in {"waiting", "cancelling"}, st' = [st EXCEPT ![c] = s],
           UNCHANGED <<nextId, inflight, pump, id, settled, late>>
    PROVE  IdsOrdered' /\ TableInv' /\ OwnAnswer' /\ NoneForgotten'
  <1>1. \A d \in Calls : Live(d)' <=> Live(d) BY DEF IInv, TypeOK, Live
  <1>2. IdsOrdered' BY <1>1 DEF IInv, TypeOK, IdsOrdered, Live
  <1>3. TableInv' BY <1>1 DEF IInv, TableInv, Unsettled
  <1>4. OwnAnswer' /\ NoneForgotten' BY DEF IInv, OwnAnswer, NoneForgotten
  <1> QED BY <1>2, <1>3, <1>4

(* A call that is over, or refused, without touching the table. *)
LEMMA CallIsOver ==
    ASSUME IInv, NEW c \in Calls, ~Live(c), st' = [st EXCEPT ![c] = "done"],
           nextId' \in {nextId, nextId + 1},
           UNCHANGED <<inflight, pump, id, settled, late>>
    PROVE  IdsOrdered' /\ TableInv' /\ OwnAnswer' /\ NoneForgotten'
  <1>1. \A d \in Calls : Live(d)' <=> Live(d) BY DEF IInv, TypeOK, Live
  <1>2. IdsOrdered' BY <1>1 DEF IInv, TypeOK, IdsOrdered, Live
  <1>3. TableInv' BY <1>1 DEF IInv, TableInv, Unsettled
  <1>4. OwnAnswer' /\ NoneForgotten' BY DEF IInv, OwnAnswer, NoneForgotten
  <1> QED BY <1>2, <1>3, <1>4

(* A new request: its id is new, so it replaces nobody in the table. *)
LEMMA RequestStep ==
    ASSUME IInv, NEW c \in Calls, Request(c)
    PROVE  IdsOrdered' /\ TableInv' /\ OwnAnswer' /\ NoneForgotten'
  <1>1. nextId \in Nat \ {0} /\ id \in [Calls -> Nat] /\ inflight \subseteq Calls
    BY DEF IInv, TypeOK
  <1>2. \A d \in Calls : id[d] < nextId BY DEF IInv, IdsOrdered
  <1>3. \A d \in inflight : id[d] # nextId
    <2> SUFFICES ASSUME NEW d \in inflight, id[d] = nextId PROVE FALSE OBVIOUS
    <2>1. d \in Calls /\ id[d] < nextId BY <1>1, <1>2
    <2> QED BY <1>1, <2>1
  <1>4. inflight' = inflight \cup {c} BY <1>3 DEF Request
  <1>5. nextId' = nextId + 1 BY DEF Request, NextIdAfter
  <1>6. \A d \in Calls : id'[d] = IF d = c THEN nextId ELSE id[d]
    BY <1>1 DEF Request
  <1>7. st[c] = "idle" /\ settled' = settled /\ settled[c] = Nothing
    BY DEF Request, IInv, IdsOrdered
  <1>8. \A d \in Calls : st'[d] = IF d = c THEN "sending" ELSE st[d]
    BY DEF Request, IInv, TypeOK
  <1>9. IdsOrdered'
    <2> SUFFICES ASSUME NEW d \in Calls
                 PROVE  /\ id'[d] < nextId'
                        /\ Live(d)' => id'[d] # 0
                        /\ st'[d] = "idle" => id'[d] = 0 /\ settled'[d] = Nothing
      BY DEF IdsOrdered
    <2>1. CASE d = c BY <2>1, <1>1, <1>5, <1>6, <1>8
    <2>2. CASE d # c
      <3>1. id'[d] = id[d] /\ st'[d] = st[d] BY <2>2, <1>6, <1>8
      <3>2. id'[d] < nextId' BY <3>1, <1>1, <1>2, <1>5
      <3> QED BY <3>1, <3>2, <1>7 DEF IInv, IdsOrdered, Live
    <2> QED BY <2>1, <2>2
  <1>10. TableInv'
    <2>1. \A d \in Calls : Unsettled(d)' <=> Unsettled(d) \/ d = c
      BY <1>7, <1>8 DEF Unsettled, Live
    <2> QED BY <1>4, <2>1 DEF IInv, TableInv
  <1>11. OwnAnswer'
    <2> SUFFICES ASSUME NEW d \in Calls
                 PROVE  /\ settled'[d].what = "answer" => settled'[d].id = id'[d]
                        /\ \A e \in Calls \ {d} : id'[d] = id'[e] => id'[d] = 0
      BY DEF OwnAnswer
    <2>1. settled'[d].what = "answer" => settled'[d].id = id'[d]
      BY <1>6, <1>7 DEF IInv, OwnAnswer, Nothing
    <2>2. ASSUME NEW e \in Calls \ {d}, id'[d] = id'[e] PROVE id'[d] = 0
      <3>1. d # c /\ e # c BY <1>1, <1>2, <1>6, <2>2
      <3> QED BY <2>2, <3>1, <1>6 DEF IInv, OwnAnswer
    <2> QED BY <2>1, <2>2
  <1>12. NoneForgotten'
    BY <1>4 DEF Request, IInv, NoneForgotten
  <1> QED BY <1>9, <1>10, <1>11, <1>12

(* The pump takes the call an answer names out of the table as it settles it. *)
LEMMA AnswerStep ==
    ASSUME IInv, PumpAnswer
    PROVE  IdsOrdered' /\ TableInv' /\ OwnAnswer' /\ NoneForgotten'
  <1> DEFINE hit == {c \in inflight : id[c] = Head(lines).id}
  <1>1. /\ inflight' = inflight \ hit
        /\ settled' = [c \in Calls |-> IF c \in hit THEN Head(lines) ELSE settled[c]]
        /\ UNCHANGED <<nextId, pump, st, id, late>>
        /\ Head(lines).what = "answer"
    BY DEF PumpAnswer, Resolve, request, call
  <1> HIDE DEF hit
  <1>2. hit \subseteq inflight /\ \A c \in hit : id[c] = Head(lines).id
    BY DEF hit
  <1>3. Head(lines) # Nothing BY <1>1 DEF Nothing
  <1>4. \A c \in Calls : settled'[c] = IF c \in hit THEN Head(lines) ELSE settled[c]
    BY <1>1
  <1>5. \A c \in inflight : Unsettled(c) BY DEF IInv, TableInv
  <1>6. IdsOrdered'
    BY <1>1, <1>2, <1>4, <1>5 DEF IInv, IdsOrdered, Live, Unsettled
  <1>7. TableInv'
    <2>1. \A c \in Calls : Unsettled(c)' <=> Unsettled(c) /\ c \notin hit
      BY <1>1, <1>3, <1>4 DEF Unsettled, Live
    <2> QED BY <1>1, <2>1 DEF IInv, TableInv
  <1>8. OwnAnswer' BY <1>1, <1>2, <1>4 DEF IInv, OwnAnswer
  <1>9. NoneForgotten' BY <1>1 DEF IInv, NoneForgotten
  <1> QED BY <1>6, <1>7, <1>8, <1>9

(* The drain settles the whole table and empties it. *)
LEMMA DrainStep ==
    ASSUME IInv, PumpEnd
    PROVE  IdsOrdered' /\ TableInv' /\ OwnAnswer' /\ NoneForgotten'
  <1>1. /\ inflight' = {}
        /\ settled' = [c \in Calls |-> IF c \in inflight THEN TransportClosed ELSE settled[c]]
        /\ UNCHANGED <<nextId, st, id, late>>
    BY DEF PumpEnd, Resolve, call
  <1>2. \A c \in Calls :
          settled'[c] = IF c \in inflight THEN TransportClosed ELSE settled[c]
    BY <1>1
  <1>3. \A c \in Calls : c \in inflight <=> Unsettled(c) BY DEF IInv, TableInv
  <1>4. TransportClosed # Nothing /\ TransportClosed.what # "answer"
    BY DEF TransportClosed, Nothing
  <1>5. IdsOrdered'
    BY <1>1, <1>2, <1>3 DEF IInv, IdsOrdered, Live, Unsettled
  <1>6. TableInv'
    <2>1. \A c \in Calls : ~Unsettled(c)'
      BY <1>1, <1>2, <1>3, <1>4 DEF Unsettled, Live
    <2> QED BY <1>1, <2>1 DEF TableInv
  <1>7. OwnAnswer' BY <1>1, <1>2, <1>4 DEF IInv, OwnAnswer
  <1>8. NoneForgotten' BY <1>1 DEF NoneForgotten
  <1> QED BY <1>5, <1>6, <1>7, <1>8

(* One step of the specification preserves the invariant: each action is one *)
(* of the cases above.                                                       *)
LEMMA StepInv == IInv /\ [Next]_vars => IInv'
  <1> SUFFICES ASSUME IInv, [Next]_vars PROVE IInv' OBVIOUS
  <1>1. TypeOK' BY TypeStep DEF IInv
  <1> DEFINE Rest == IdsOrdered' /\ TableInv' /\ OwnAnswer' /\ NoneForgotten'
  <1> SUFFICES Rest BY <1>1 DEF IInv
  <1>2. ASSUME NEW c \in Calls, CallStep(c) PROVE Rest
    <2>1. CASE NotInitialized(c)
      <3>1. ~Live(c) BY <2>1 DEF NotInitialized, Live
      <3>2. /\ st' = [st EXCEPT ![c] = "done"] /\ nextId' = nextId
            /\ UNCHANGED <<inflight, pump, id, settled, late>>
        BY <2>1 DEF NotInitialized, Ends, request
      <3> QED BY <3>1, <3>2, CallIsOver
    <2>2. CASE Unserialisable(c)
      <3>1. ~Live(c) BY <2>2 DEF Unserialisable, Live
      <3>2. /\ st' = [st EXCEPT ![c] = "done"] /\ nextId' = nextId + 1
            /\ UNCHANGED <<inflight, pump, id, settled, late>>
        BY <2>2 DEF Unserialisable, Ends
      <3> QED BY <3>1, <3>2, CallIsOver
    <2>3. CASE Request(c) BY <2>3, RequestStep
    <2>4. CASE Deliver(c)
      BY <2>4, TableUntouched DEF Deliver, request, call, tableVars
    <2>5. CASE Abort(c)
      BY <2>5, TableUntouched DEF Abort, request, call, tableVars
    <2>6. CASE Cancel(c)
      <3>1. Live(c) BY <2>6 DEF Cancel, Live
      <3>2. /\ st' = [st EXCEPT ![c] = "cancelling"]
            /\ UNCHANGED <<nextId, inflight, pump, id, settled, late>>
        BY <2>6 DEF Cancel, request
      <3> QED BY <3>1, <3>2, CallMoves
    <2>7. CASE Sent(c)
      <3>1. Live(c) BY <2>7 DEF Sent, Live
      <3>2. /\ st' = [st EXCEPT ![c] = "waiting"]
            /\ UNCHANGED <<nextId, inflight, pump, id, settled, late>>
        BY <2>7 DEF Sent, request
      <3> QED BY <3>1, <3>2, CallMoves
    <2>8. CASE SendFails(c)
      <3>1. Live(c) BY <2>8 DEF SendFails, Live
      <3>2. /\ st' = [st EXCEPT ![c] = "done"] /\ Forget(c)
            /\ UNCHANGED <<pump, settled>>
        BY <2>8 DEF SendFails, Ends
      <3> QED BY <3>1, <3>2, CallLeaves
    <2>9. CASE Settle(c)
      <3>1. Live(c) BY <2>9 DEF Settle, Live
      <3>2. Forget(c) /\ UNCHANGED <<pump, settled>> BY <2>9 DEF Settle
      <3>3. CASE st' = [st EXCEPT ![c] = "done"] BY <3>1, <3>2, <3>3, CallLeaves
      <3>4. CASE st' = [st EXCEPT ![c] = "noting"] BY <3>1, <3>2, <3>4, CallLeaves
      <3> QED BY <2>9, <3>3, <3>4 DEF Settle, Ends
    <2>10. CASE Deadline(c)
      <3>1. Live(c) BY <2>10 DEF Deadline, Live
      <3>2. /\ st' = [st EXCEPT ![c] = "done"] /\ Forget(c)
            /\ UNCHANGED <<pump, settled>>
        BY <2>10 DEF Deadline, Ends
      <3> QED BY <3>1, <3>2, CallLeaves
    <2>11. CASE Cancelled(c)
      <3>1. Live(c) BY <2>11 DEF Cancelled, Live
      <3>2. /\ st' = [st EXCEPT ![c] = "done"] /\ Forget(c)
            /\ UNCHANGED <<pump, settled>>
        BY <2>11 DEF Cancelled, Ends
      <3> QED BY <3>1, <3>2, CallLeaves
    <2>12. CASE Initialized(c)
      <3>1. ~Live(c) BY <2>12 DEF Initialized, Live
      <3>2. /\ st' = [st EXCEPT ![c] = "done"] /\ nextId' = nextId
            /\ UNCHANGED <<inflight, pump, id, settled, late>>
        BY <2>12 DEF Initialized, Ends, request
      <3> QED BY <3>1, <3>2, CallIsOver
    <2>13. CASE NoteFails(c)
      <3>1. ~Live(c) BY <2>13 DEF NoteFails, Live
      <3>2. /\ st' = [st EXCEPT ![c] = "done"] /\ nextId' = nextId
            /\ UNCHANGED <<inflight, pump, id, settled, late>>
        BY <2>13 DEF NoteFails, Ends, request
      <3> QED BY <3>1, <3>2, CallIsOver
    <2> QED
      BY <1>2, <2>1, <2>2, <2>3, <2>4, <2>5, <2>6, <2>7, <2>8, <2>9, <2>10, <2>11,
         <2>12, <2>13 DEF CallStep, Returns
  <1>3. CASE PumpAnswer BY <1>3, AnswerStep
  <1>4. CASE PumpOther
    BY <1>4, TableUntouched DEF PumpOther, request, call, tableVars
  <1>5. CASE PumpEnd BY <1>5, DrainStep
  <1>6. CASE PeerStep
    <2>1. UNCHANGED tableVars
      BY <1>6 DEF PeerStep, ServerAnswers, ServerSays, ChildExits, StdoutEnds, ChildStalls,
         ChildResumes, StreamOpens, StreamEnds, StreamFails, StreamRetries,
         request, call, tableVars
    <2> QED BY <2>1, TableUntouched
  <1>7. CASE Close
    BY <1>7, TableUntouched DEF Close, request, call, tableVars
  <1>8. CASE UNCHANGED vars
    BY <1>8, TableUntouched DEF vars, request, call, tableVars
  <1> HIDE DEF Rest
  <1> QED BY <1>2, <1>3, <1>4, <1>5, <1>6, <1>7, <1>8 DEF Next, PumpStep

LEMMA AlwaysIInv == Spec => []IInv
  BY InitInv, StepInv, PTL DEF Spec

(* The client's state keeps its types on every schedule (client.ts:107-121).  *)
THEOREM McpTypeCorrect == Spec => []TypeOK
  <1>1. IInv => TypeOK BY DEF IInv
  <1> QED BY AlwaysIInv, <1>1, PTL

(* Who awaits an answer is in the table of requests in flight, and nobody    *)
(* else is but a call that sends its cancel notification: nothing leaks and  *)
(* nothing is dropped early, for any number of calls on any schedule of      *)
(* answers, deadlines, aborts and transport failures (client.ts:213-266).    *)
THEOREM McpTableExact == Spec => []TableExact
  <1>1. IInv => TableExact BY DEF IInv, TableInv, TableExact, Unsettled, Live, Awaiting
  <1> QED BY AlwaysIInv, <1>1, PTL

(* No call is ever settled by somebody else's answer (client.ts:310-321).    *)
THEOREM McpOwnAnswer == Spec => []OwnAnswer
  <1>1. IInv => OwnAnswer BY DEF IInv
  <1> QED BY AlwaysIInv, <1>1, PTL

(* A pump that has stopped has left nobody waiting (client.ts:325-332).      *)
THEOREM McpNoneForgotten == Spec => []NoneForgotten
  <1>1. IInv => NoneForgotten BY DEF IInv
  <1> QED BY AlwaysIInv, <1>1, PTL
=============================================================================
