--------------------------- MODULE ToolBatchProofs ---------------------------
(***************************************************************************)
(* The permission gate, the quiet end of a batch, the source order of its  *)
(* results and the next provider request, for any number of tool calls and *)
(* of failing listeners, in both execution modes.                          *)
(***************************************************************************)
EXTENDS ToolBatch, FiniteSetTheorems, SequenceTheorems, WellFoundedInduction, TLAPS

Entries == {AssistantMessage, FailureMessage, UserMessage}
                \cup {Result(i) : i \in Calls}

(* The transcript only grows, from the assistant message on. *)
Grown == transcript \in Seq(Entries) /\ Len(transcript) >= 1

(* The loop looks at the calls in source order, skipping none. *)
InOrder == \E k \in 0..N : Begun = 1..k

(* A call is past the gate once the gate's condition holds of it, and only *)
(* such a call is prepared or run; before that nothing has been run.       *)
Past(i) ==
    /\ class[i] \in {"allow", "prompt"}
    /\ wish[i] # "block"
    /\ "prompt" \in {class[i], wish[i]} => decision[i] = "allow" /\ channel

GateInv ==
    \A i \in Calls :
        /\ stage[i] \in {"hook", "asking"} => class[i] \in {"allow", "prompt"}
        /\ stage[i] = "asking" => wish[i] # "block" /\ channel
        /\ stage[i] \in {"waiting", "starting", "hook", "asking"} => i \notin executed
        /\ stage[i] = "prepared" \/ i \in executed => Past(i)

Resting == {"waiting", "prepared", "done", "failed"}

(* A sequential batch has one call in flight, prepares none ahead and never *)
(* waits for a Promise.all.                                                 *)
OneAtATime ==
    sequential =>
        /\ batch \notin {"running", "emitting"}
        /\ \A i \in Calls : stage[i] # "prepared"
        /\ \A i, j \in Calls : stage[i] \notin Resting /\ stage[j] \notin Resting => i = j

(* Once the batch is past its calls none of them is in flight, unless a    *)
(* listener of a parallel batch has thrown.                                *)
QuietInv ==
    batch \notin {"preparing", "running"} /\ (sequential \/ failures = 0) =>
        \A i \in Calls : stage[i] \in Resting

IInv == TypeOK /\ Grown /\ InOrder /\ GateInv /\ OneAtATime /\ QuietInv

-----------------------------------------------------------------------------
(* The next call to start has not been looked at. *)
LEMMA NextIsWaiting ==
    ASSUME TypeOK, InOrder, NEW i \in Calls, i = Cardinality(Begun) + 1
    PROVE  stage[i] = "waiting" /\ Begun = 1..(i - 1)
  <1> USE BatchAssumption
  <1>1. PICK k \in 0..N : Begun = 1..k BY DEF InOrder
  <1>2. Cardinality(1..k) = k BY FS_Interval
  <1>3. i = k + 1 BY <1>1, <1>2
  <1>4. i \notin Begun BY <1>1, <1>3
  <1> QED BY <1>1, <1>3, <1>4 DEF Begun

LEMMA BegunCount ==
    ASSUME InOrder PROVE Cardinality(Begun) \in 0..N
  <1> USE BatchAssumption
  <1>1. PICK k \in 0..N : Begun = 1..k BY DEF InOrder
  <1>2. Cardinality(1..k) = k BY FS_Interval
  <1> QED BY <1>1, <1>2

LEMMA InitInv == Init => IInv
  <1> SUFFICES ASSUME Init PROVE IInv OBVIOUS
  <1> USE BatchAssumption
  <1>1. TypeOK
    <2>1. ends \in Seq(Calls) BY EmptySeq DEF Init
    <2>2. wish \in [Calls -> Wishes] BY DEF Init, Wishes
    <2>3. decision \in [Calls -> Decisions] BY DEF Init, Decisions
    <2>4. stage \in [Calls -> Stages] BY DEF Init, Stages
    <2>5. \A k \in DOMAIN transcript : transcript[k] \in Entries
      BY DEF Init, Entries
    <2>6. failures \in 0..MaxFailures BY DEF Init
    <2> QED BY <2>1, <2>2, <2>3, <2>4, <2>5, <2>6 DEF Init, TypeOK, Entries
  <1>2. Grown BY DEF Init, Grown, Entries
  <1>3. InOrder
    <2>1. Begun = 1..0 BY DEF Init, Begun
    <2> QED BY <2>1 DEF InOrder
  <1>4. GateInv BY DEF Init, GateInv
  <1>5. OneAtATime BY DEF Init, OneAtATime, Resting
  <1>6. QuietInv BY DEF Init, QuietInv
  <1> QED BY <1>1, <1>2, <1>3, <1>4, <1>5, <1>6 DEF IInv

-----------------------------------------------------------------------------
(* The types and the growth of the transcript. *)
LEMMA TypeStep == IInv /\ [Next]_vars => TypeOK' /\ Grown'
  <1> SUFFICES ASSUME IInv, [Next]_vars PROVE TypeOK' /\ Grown' OBVIOUS
  <1> USE BatchAssumption DEF IInv, gate
  <1>0. /\ TypeOK /\ Grown
        /\ \A i \in Calls : Result(i) \in Entries
        /\ FailureMessage \in Entries /\ UserMessage \in Entries
    BY DEF Entries
  <1>a. ASSUME NEW m \in Entries, transcript' = Append(transcript, m)
        PROVE  Grown' /\ \A k \in DOMAIN transcript' : transcript'[k] \in Entries
    <2>1. Append(transcript, m) \in Seq(Entries) /\ Len(Append(transcript, m)) >= 1
      BY AppendProperties DEF Grown
    <2> QED BY <1>a, <2>1 DEF Grown
  <1>b. ASSUME transcript' = transcript
        PROVE  Grown' /\ \A k \in DOMAIN transcript' : transcript'[k] \in Entries
    BY <1>b DEF Grown
  <1> USE DEF Stages
  <1>1. ASSUME NEW i \in Calls, StartCall(i) PROVE TypeOK' /\ Grown'
    BY <1>0, <1>1, <1>b DEF StartCall, TypeOK, Entries
  <1>2. ASSUME NEW i \in Calls, Classify(i) PROVE TypeOK' /\ Grown'
    BY <1>0, <1>2, <1>b DEF Classify, Immediate, TypeOK, Entries
  <1>3. ASSUME NEW i \in Calls, HookReturns(i) PROVE TypeOK' /\ Grown'
    <2>1. stage' \in [Calls -> Stages] /\ executed' \subseteq Calls
      BY <1>0, <1>3 DEF HookReturns, Admit, Immediate, TypeOK
    <2>2. wish' \in [Calls -> Wishes] BY <1>0, <1>3 DEF HookReturns, TypeOK
    <2> QED BY <1>0, <1>3, <1>b, <2>1, <2>2 DEF HookReturns, TypeOK, Entries
  <1>4. ASSUME NEW i \in Calls, HookThrows(i) PROVE TypeOK' /\ Grown'
    BY <1>0, <1>4, <1>b DEF HookThrows, Immediate, TypeOK, Entries
  <1>5. ASSUME NEW i \in Calls, Decide(i) PROVE TypeOK' /\ Grown'
    <2>1. stage' \in [Calls -> Stages] /\ executed' \subseteq Calls
      BY <1>0, <1>5 DEF Decide, Admit, Immediate, TypeOK
    <2>2. decision' \in [Calls -> Decisions] BY <1>0, <1>5 DEF Decide, TypeOK
    <2> QED BY <1>0, <1>5, <1>b, <2>1, <2>2 DEF Decide, TypeOK, Entries
  <1>6. ASSUME NEW i \in Calls, ToolReturns(i) PROVE TypeOK' /\ Grown'
    BY <1>0, <1>6, <1>b DEF ToolReturns, TypeOK, Entries
  <1>7. ASSUME NEW i \in Calls, EndCall(i) PROVE TypeOK' /\ Grown'
    <2>1. ends' \in Seq(Calls) BY <1>0, <1>7, AppendProperties DEF EndCall, TypeOK
    <2> QED BY <1>0, <1>7, <1>b, <2>1 DEF EndCall, TypeOK, Entries
  <1>8. ASSUME NEW i \in Calls, Report(i) PROVE TypeOK' /\ Grown'
    BY <1>0, <1>8, <1>a DEF Report, TypeOK, Entries
  <1>9. CASE StartPrepared BY <1>0, <1>9, <1>b DEF StartPrepared, TypeOK, Entries
  <1>10. CASE AllSettled BY <1>0, <1>10, <1>b DEF AllSettled, TypeOK, Entries
  <1>11. CASE EmitResult
    <2>1. Reported + 1 \in Calls
      <3>1. Cardinality(Begun) \in 0..N BY BegunCount
      <3>2. Len(transcript) \in Nat BY <1>0 DEF Grown
      <3> QED BY <1>0, <1>11, <3>1, <3>2 DEF EmitResult, Reported, Calls, Grown
    <2>2. Result(Reported + 1) \in Entries BY <1>0, <2>1
    <2> QED BY <1>0, <1>11, <1>a, <2>2 DEF EmitResult, TypeOK, Entries
  <1>12. CASE FinishBatch BY <1>0, <1>12, <1>b DEF FinishBatch, TypeOK, Entries
  <1>13. CASE EndRun
    <2> DEFINE tail == (IF aborted \/ batch = "failed" THEN <<FailureMessage>> ELSE <<>>)
    <2>1. tail \in Seq(Entries) BY <1>0
    <2>2. transcript \o tail \in Seq(Entries) /\ Len(transcript \o tail) >= 1
      BY <1>0, <2>1, ConcatProperties DEF Grown
    <2>3. transcript' = Append(transcript \o tail, UserMessage)
      BY <1>0, <1>13, <2>2, AppendIsConcat DEF EndRun
    <2>4. transcript' \in Seq(Entries) /\ Len(transcript') >= 1
      BY <1>0, <2>2, <2>3, AppendProperties
    <2> HIDE DEF tail
    <2>5. Grown' BY <2>4 DEF Grown
    <2>6. \A k \in DOMAIN transcript' : transcript'[k] \in Entries BY <2>4
    <2> QED BY <1>0, <1>13, <2>5, <2>6 DEF EndRun, TypeOK, Entries
  <1>14. CASE Abort BY <1>0, <1>14, <1>b DEF Abort, TypeOK, Entries
  <1>15. ASSUME NEW i \in Calls, ListenerFails(i) PROVE TypeOK' /\ Grown'
    BY <1>0, <1>15, <1>b DEF ListenerFails, TypeOK, Entries
  <1>16. CASE EmitFails BY <1>0, <1>16, <1>b DEF EmitFails, TypeOK, Entries
  <1>17. CASE UNCHANGED vars BY <1>0, <1>17, <1>b DEF vars, TypeOK, Entries
  <1> QED
    BY <1>1, <1>2, <1>3, <1>4, <1>5, <1>6, <1>7, <1>8, <1>9, <1>10, <1>11, <1>12, <1>13,
       <1>14, <1>15, <1>16, <1>17 DEF Next, Advance

-----------------------------------------------------------------------------
(* A call leaves "waiting" only as the next one, and never comes back. *)
LEMMA OrderStep == IInv /\ [Next]_vars => InOrder'
  <1> SUFFICES ASSUME IInv, [Next]_vars PROVE InOrder' OBVIOUS
  <1> USE BatchAssumption DEF IInv
  <1>a. ASSUME Begun' = Begun PROVE InOrder' BY <1>a DEF InOrder
  <1>b. ASSUME NEW i \in Calls, stage[i] # "waiting", NEW to \in Stages \ {"waiting"},
               stage' = [stage EXCEPT ![i] = to]
        PROVE  InOrder'
    <2>1. Begun' = Begun BY <1>b DEF Begun, TypeOK
    <2> QED BY <1>a, <2>1
  <1> USE DEF Stages
  <1>1. ASSUME NEW i \in Calls, StartCall(i) PROVE InOrder'
    <2>1. stage[i] = "waiting" /\ Begun = 1..(i - 1)
      BY <1>1, NextIsWaiting DEF StartCall
    <2>2. Begun' = Begun \cup {i} BY <1>1 DEF StartCall, Begun, TypeOK
    <2>3. Begun' = 1..i BY <2>1, <2>2 DEF Calls
    <2>4. i \in 0..N BY DEF Calls
    <2> QED BY <2>3, <2>4 DEF InOrder
  <1>2. ASSUME NEW i \in Calls, Classify(i) PROVE InOrder'
    BY <1>2, <1>b DEF Classify, Immediate
  <1>3. ASSUME NEW i \in Calls, HookReturns(i) PROVE InOrder'
    BY <1>3, <1>b DEF HookReturns, Admit, Immediate
  <1>4. ASSUME NEW i \in Calls, HookThrows(i) PROVE InOrder'
    BY <1>4, <1>b DEF HookThrows, Immediate
  <1>5. ASSUME NEW i \in Calls, Decide(i) PROVE InOrder'
    BY <1>5, <1>b DEF Decide, Admit, Immediate
  <1>6. ASSUME NEW i \in Calls, ToolReturns(i) PROVE InOrder'
    BY <1>6, <1>b DEF ToolReturns
  <1>7. ASSUME NEW i \in Calls, EndCall(i) PROVE InOrder' BY <1>7, <1>b DEF EndCall
  <1>8. ASSUME NEW i \in Calls, Report(i) PROVE InOrder' BY <1>8, <1>b DEF Report
  <1>9. CASE StartPrepared
    <2>1. Begun' = Begun BY <1>9 DEF StartPrepared, Begun, TypeOK
    <2> QED BY <1>a, <2>1
  <1>10. ASSUME NEW i \in Calls, ListenerFails(i) PROVE InOrder'
    BY <1>10, <1>b DEF ListenerFails
  <1>11. ASSUME UNCHANGED stage PROVE InOrder' BY <1>11, <1>a DEF Begun
  <1> QED
    BY <1>1, <1>2, <1>3, <1>4, <1>5, <1>6, <1>7, <1>8, <1>9, <1>10, <1>11
    DEF Next, Advance, AllSettled, EmitResult, FinishBatch, EndRun, Abort, EmitFails, vars

-----------------------------------------------------------------------------
(* The gate: its inputs change only while the call has not passed it, and a *)
(* call is admitted only if they let it.                                    *)
LEMMA GateStep == IInv /\ [Next]_vars => GateInv'
  <1> SUFFICES ASSUME IInv, [Next]_vars PROVE GateInv' OBVIOUS
  <1> USE DEF IInv, gate, Past
  (* Steps past the gate, or that stop a call before it. *)
  <1>a. ASSUME NEW i \in Calls,
               NEW to \in {"ending", "reporting", "done", "failed"},
               stage' = [stage EXCEPT ![i] = to], UNCHANGED <<gate, executed>>
        PROVE  GateInv'
    BY <1>a DEF GateInv, TypeOK
  <1>1. ASSUME NEW i \in Calls, StartCall(i) PROVE GateInv'
    <2>1. stage[i] = "waiting" BY <1>1, NextIsWaiting DEF StartCall
    <2> QED BY <1>1, <2>1 DEF StartCall, GateInv, TypeOK
  <1>2. ASSUME NEW i \in Calls, Classify(i) PROVE GateInv'
    <2>1. CASE class[i] \in {"missing", "invalid", "block"}
      BY <1>2, <2>1, <1>a DEF Classify, Immediate
    <2>2. CASE class[i] \notin {"missing", "invalid", "block"}
      BY <1>2, <2>2 DEF Classify, GateInv, TypeOK, Classes
    <2> QED BY <2>1, <2>2
  <1>3. ASSUME NEW i \in Calls, HookReturns(i) PROVE GateInv'
    <2>1. PICK w \in Wishes :
            /\ wish' = [wish EXCEPT ![i] = w]
            /\ \/ Immediate(i)
               \/ /\ w # "block" /\ channel
                  /\ stage' = [stage EXCEPT ![i] = "asking"] /\ UNCHANGED executed
               \/ w # "block" /\ ~Prompted(i, w) /\ Admit(i)
      BY <1>3 DEF HookReturns
    <2>2. /\ stage[i] = "hook" /\ i \notin executed
          /\ class[i] \in {"allow", "prompt"}
          /\ UNCHANGED <<sequential, channel, class, decision>>
      BY <1>3 DEF HookReturns, GateInv
    <2>3. ASSUME NEW j \in Calls, j # i
          PROVE  UNCHANGED <<stage[j], wish[j]>> /\ (j \in executed' <=> j \in executed)
      BY <2>1, <2>3 DEF Admit, Immediate, TypeOK
    <2>4. CASE Immediate(i) BY <2>1, <2>2, <2>3, <2>4 DEF Immediate, GateInv, TypeOK
    <2>5. CASE w # "block" /\ channel
               /\ stage' = [stage EXCEPT ![i] = "asking"] /\ UNCHANGED executed
      BY <2>1, <2>2, <2>3, <2>5 DEF GateInv, TypeOK
    <2>6. CASE w # "block" /\ ~Prompted(i, w) /\ Admit(i)
      <3>1. /\ wish'[i] = w /\ class'[i] = "allow"
            /\ stage'[i] \in {"ending", "executing", "prepared"}
        BY <2>1, <2>2, <2>6 DEF Admit, Immediate, Prompted, TypeOK
      <3> QED BY <2>2, <2>3, <2>6, <3>1 DEF Prompted, GateInv
    <2> QED BY <2>1, <2>4, <2>5, <2>6
  <1>4. ASSUME NEW i \in Calls, HookThrows(i) PROVE GateInv'
    BY <1>4, <1>a DEF HookThrows, Immediate
  <1>5. ASSUME NEW i \in Calls, Decide(i) PROVE GateInv'
    <2>1. PICK d \in Decisions \ {"none"} :
            /\ decision' = [decision EXCEPT ![i] = d]
            /\ Immediate(i) \/ (d = "allow" /\ Admit(i))
      BY <1>5 DEF Decide
    <2>2. /\ stage[i] = "asking" /\ i \notin executed /\ channel /\ wish[i] # "block"
          /\ class[i] \in {"allow", "prompt"}
          /\ UNCHANGED <<sequential, channel, class, wish>>
      BY <1>5 DEF Decide, GateInv
    <2>3. ASSUME NEW j \in Calls, j # i
          PROVE  UNCHANGED <<stage[j], decision[j]>> /\ (j \in executed' <=> j \in executed)
      BY <2>1, <2>3 DEF Admit, Immediate, TypeOK
    <2>4. CASE Immediate(i) BY <2>1, <2>2, <2>3, <2>4 DEF Immediate, GateInv, TypeOK
    <2>5. CASE d = "allow" /\ Admit(i)
      <3>1. decision'[i] = "allow" /\ stage'[i] \in {"ending", "executing", "prepared"}
        BY <2>1, <2>5 DEF Admit, Immediate, TypeOK
      <3> QED BY <2>2, <2>3, <3>1 DEF GateInv
    <2> QED BY <2>1, <2>4, <2>5
  <1>6. ASSUME NEW i \in Calls, ToolReturns(i) PROVE GateInv'
    BY <1>6, <1>a DEF ToolReturns
  <1>7. ASSUME NEW i \in Calls, EndCall(i) PROVE GateInv' BY <1>7, <1>a DEF EndCall
  <1>8. ASSUME NEW i \in Calls, Report(i) PROVE GateInv' BY <1>8, <1>a DEF Report
  <1>9. CASE StartPrepared BY <1>9 DEF StartPrepared, GateInv, TypeOK
  <1>10. ASSUME NEW i \in Calls, ListenerFails(i) PROVE GateInv'
    BY <1>10, <1>a DEF ListenerFails
  <1>11. ASSUME UNCHANGED <<gate, stage, executed>> PROVE GateInv'
    BY <1>11 DEF GateInv
  <1> QED
    BY <1>1, <1>2, <1>3, <1>4, <1>5, <1>6, <1>7, <1>8, <1>9, <1>10, <1>11
    DEF Next, Advance, AllSettled, EmitResult, FinishBatch, EndRun, Abort, EmitFails, vars

-----------------------------------------------------------------------------
(* Calls in flight: at most one of a sequential batch, none once the batch *)
(* is past them.                                                           *)
LEMMA QuietStep == IInv /\ [Next]_vars => OneAtATime' /\ QuietInv'
  <1> SUFFICES ASSUME IInv, [Next]_vars PROVE OneAtATime' /\ QuietInv' OBVIOUS
  <1> USE DEF IInv, gate
  <1>0. failures \in Nat BY BatchAssumption DEF TypeOK
  (* A step of a call in flight: the batch is not yet past its calls. *)
  <1>a. ASSUME NEW i \in Calls, stage[i] \notin Resting, NEW to \in Stages,
               sequential => to # "prepared", stage' = [stage EXCEPT ![i] = to],
               UNCHANGED <<sequential, batch, failures>>
        PROVE  OneAtATime' /\ QuietInv'
    <2>1. OneAtATime' BY <1>a DEF OneAtATime, TypeOK
    <2>2. QuietInv' BY <1>a DEF QuietInv, TypeOK
    <2> QED BY <2>1, <2>2
  <1>1. ASSUME NEW i \in Calls, StartCall(i) PROVE OneAtATime' /\ QuietInv'
    <2>1. \A j \in Calls : stage[j] \in {"waiting", "prepared", "done"}
      BY <1>1 DEF StartCall, Begun, Settled
    <2>2. OneAtATime' BY <1>1, <2>1 DEF StartCall, OneAtATime, Resting, TypeOK
    <2>3. QuietInv' BY <1>1 DEF StartCall, QuietInv
    <2> QED BY <2>2, <2>3
  <1>2. ASSUME NEW i \in Calls, Classify(i) PROVE OneAtATime' /\ QuietInv'
    BY <1>2, <1>a DEF Classify, Immediate, Resting, Stages
  <1>3. ASSUME NEW i \in Calls, HookReturns(i) PROVE OneAtATime' /\ QuietInv'
    <2>1. stage[i] \notin Resting BY <1>3 DEF HookReturns, Resting
    <2>2. PICK to \in {"ending", "asking", "executing", "prepared"} :
            stage' = [stage EXCEPT ![i] = to] /\ (sequential => to # "prepared")
      BY <1>3 DEF HookReturns, Admit, Immediate
    <2> QED BY <1>3, <1>a, <2>1, <2>2 DEF HookReturns, Stages
  <1>4. ASSUME NEW i \in Calls, HookThrows(i) PROVE OneAtATime' /\ QuietInv'
    BY <1>4, <1>a DEF HookThrows, Immediate, Resting, Stages
  <1>5. ASSUME NEW i \in Calls, Decide(i) PROVE OneAtATime' /\ QuietInv'
    <2>1. stage[i] \notin Resting BY <1>5 DEF Decide, Resting
    <2>2. PICK to \in {"ending", "executing", "prepared"} :
            stage' = [stage EXCEPT ![i] = to] /\ (sequential => to # "prepared")
      BY <1>5 DEF Decide, Admit, Immediate
    <2> QED BY <1>5, <1>a, <2>1, <2>2 DEF Decide, Stages
  <1>6. ASSUME NEW i \in Calls, ToolReturns(i) PROVE OneAtATime' /\ QuietInv'
    BY <1>6, <1>a DEF ToolReturns, Resting, Stages
  <1>7. ASSUME NEW i \in Calls, EndCall(i) PROVE OneAtATime' /\ QuietInv'
    <2>1. PICK to \in {"reporting", "done"} : stage' = [stage EXCEPT ![i] = to]
      BY <1>7 DEF EndCall
    <2> QED BY <1>7, <1>a, <2>1 DEF EndCall, Resting, Stages
  <1>8. ASSUME NEW i \in Calls, Report(i) PROVE OneAtATime' /\ QuietInv'
    BY <1>8, <1>a DEF Report, Resting, Stages
  <1>9. CASE StartPrepared
    BY <1>9 DEF StartPrepared, OneAtATime, QuietInv
  <1>10. CASE AllSettled
    <2>1. \A i \in Calls : stage[i] \in Resting BY <1>10 DEF AllSettled, Begun, Resting
    <2> QED BY <1>10, <2>1 DEF AllSettled, OneAtATime, QuietInv
  <1>11. CASE EmitResult BY <1>11 DEF EmitResult, OneAtATime, QuietInv
  <1>12. CASE FinishBatch
    <2>1. CASE batch = "emitting" BY <1>12, <2>1 DEF FinishBatch, OneAtATime, QuietInv
    <2>2. CASE sequential /\ batch = "preparing" /\ PreparationOver
      <3>1. \A i \in Calls : stage[i] \in Resting
        BY <2>2 DEF PreparationOver, Begun, Settled, Resting
      <3> QED BY <1>12, <3>1 DEF FinishBatch, OneAtATime, QuietInv
    <2> QED BY <1>12, <2>1, <2>2 DEF FinishBatch
  <1>13. CASE EndRun BY <1>13 DEF EndRun, OneAtATime, QuietInv
  <1>14. CASE Abort BY <1>14 DEF Abort, OneAtATime, QuietInv
  (* The call whose listener throws was the only one of a sequential batch. *)
  <1>15. ASSUME NEW i \in Calls, ListenerFails(i) PROVE OneAtATime' /\ QuietInv'
    <2>1. /\ stage[i] \notin Resting
          /\ stage' = [stage EXCEPT ![i] = "failed"]
          /\ UNCHANGED sequential /\ failures' = failures + 1
      BY <1>15 DEF ListenerFails, Resting
    <2>2. batch' \in {"failed", "over"} BY <1>15 DEF ListenerFails
    <2>3. OneAtATime' BY <2>1, <2>2 DEF OneAtATime, Resting, TypeOK
    <2>4. ASSUME sequential PROVE \A j \in Calls : stage'[j] \in Resting
      BY <2>1, <2>4 DEF OneAtATime, Resting, TypeOK
    <2>5. failures' # 0 BY <1>0, <2>1
    <2> QED BY <2>1, <2>3, <2>4, <2>5 DEF QuietInv
  <1>16. CASE EmitFails
    BY <1>0, <1>16 DEF EmitFails, OneAtATime, QuietInv
  <1>17. CASE UNCHANGED vars BY <1>17 DEF vars, OneAtATime, QuietInv
  <1> QED
    BY <1>1, <1>2, <1>3, <1>4, <1>5, <1>6, <1>7, <1>8, <1>9, <1>10, <1>11, <1>12, <1>13,
       <1>14, <1>15, <1>16, <1>17 DEF Next, Advance

LEMMA NextInv == IInv /\ [Next]_vars => IInv'
  BY TypeStep, OrderStep, GateStep, QuietStep DEF IInv

LEMMA Invariance == Spec => []IInv
  BY InitInv, NextInv, PTL DEF Spec

-----------------------------------------------------------------------------
(* Every variable keeps its type, for any number of calls and of failing   *)
(* listeners.                                                              *)
THEOREM BatchTypeCorrect == Spec => []TypeOK
  <1>1. IInv => TypeOK BY DEF IInv
  <1> QED BY <1>1, Invariance, PTL

(* The loop looks at the calls of a message one after the other, in source *)
(* order, and skips none before the last it looked at.                     *)
THEOREM BatchInOrder == Spec => []InOrder
  <1>1. IInv => InOrder BY DEF IInv
  <1> QED BY <1>1, Invariance, PTL

(* No tool runs unless it exists, is valid, and classifier, hook and every *)
(* prompt let it: executeToolCalls asks before it runs, in both modes.     *)
THEOREM BatchGateRespected == Spec => []GateRespected
  <1>1. IInv => GateRespected
    BY DEF IInv, TypeOK, GateInv, Past, GateRespected
  <1> QED BY <1>1, Invariance, PTL

(* After agent_end no tool of the batch is still running, unless a listener *)
(* of a parallel batch has thrown.                                          *)
THEOREM BatchQuietAfterEnd == Spec => []QuietAfterEnd
  <1>1. IInv => QuietAfterEnd
    BY DEF IInv, QuietInv, Resting, QuietAfterEnd
  <1> QED BY <1>1, Invariance, PTL

-----------------------------------------------------------------------------
(* What the transcript holds: the assistant message and the results of the *)
(* first m calls, and in the end what the run and the user add.            *)
Body(m) == [k \in 1..(m + 1) |-> IF k = 1 THEN AssistantMessage ELSE Result(k - 1)]

ShapeInv ==
    /\ batch # "over" => Reported \in 0..N /\ transcript = Body(Reported)
    /\ batch = "over" => \E m \in 0..N :
          \/ transcript = Append(Body(m), UserMessage)
          \/ transcript = Append(Append(Body(m), FailureMessage), UserMessage)

(* Which calls have a result: of a sequential batch those that are done, of *)
(* a parallel one none before Promise.all has resolved.                     *)
CountInv ==
    /\ sequential => \A i, j \in Calls : j < i /\ stage[i] # "waiting" => stage[j] = "done"
    /\ sequential /\ batch # "over" => \A i \in Calls : stage[i] = "done" <=> i <= Reported
    /\ ~sequential => \A i \in Calls : stage[i] # "reporting"
    /\ ~sequential /\ batch \in {"preparing", "running"} => Reported = 0
    /\ batch = "emitting" => Reported <= Cardinality(Begun)
    /\ batch = "done" => Reported = Cardinality(Begun)

(* A batch gets past its calls only if all it began are done. *)
DoneInv ==
    /\ batch \in {"emitting", "done"} => \A i \in Begun : stage[i] = "done"
    /\ batch \in {"running", "emitting", "done"} => aborted \/ Begun = Calls
    /\ batch \in {"preparing", "running", "emitting", "done"} => failures = 0

EndsInv ==
    failures = 0 =>
        /\ ToSet(ends) = {i \in Calls : stage[i] \in {"reporting", "done"}}
        /\ \A j, k \in DOMAIN ends : ends[j] = ends[k] => j = k

ResultsInv == ShapeInv /\ CountInv /\ DoneInv /\ EndsInv

LEMMA BodyFacts ==
    ASSUME NEW m \in 0..N
    PROVE  /\ Body(m) \in Seq(Entries) /\ Len(Body(m)) = m + 1
           /\ m < N => Append(Body(m), Result(m + 1)) = Body(m + 1)
  <1> USE BatchAssumption
  <1>1. m \in Nat /\ m + 1 \in Nat OBVIOUS
  <1>2. \A k \in 1..(m + 1) : Body(m)[k] \in Entries BY DEF Body, Entries, Calls
  <1>3. DOMAIN Body(m) = 1..(m + 1) BY DEF Body
  <1>4. Body(m) \in [1..(m + 1) -> Entries] BY <1>2, <1>3 DEF Body
  <1>5. Body(m) \in Seq(Entries) BY <1>1, <1>4, SeqDef
  <1>6. Len(Body(m)) = m + 1 BY <1>1, <1>3, <1>5, LenProperties
  <1>7. ASSUME m < N PROVE Append(Body(m), Result(m + 1)) = Body(m + 1)
    <2> DEFINE s == Append(Body(m), Result(m + 1))
    <2>1. Result(m + 1) \in Entries BY <1>7 DEF Entries, Calls
    <2>2. /\ s \in Seq(Entries) /\ Len(s) = m + 2
          /\ \A k \in 1..(m + 1) : s[k] = Body(m)[k]
          /\ s[m + 2] = Result(m + 1)
      BY <1>1, <1>5, <1>6, <2>1, AppendProperties
    <2>3. DOMAIN s = 1..(m + 2) BY <2>2, LenProperties
    <2> HIDE DEF s
    <2>4. \A k \in 1..(m + 2) : s[k] = Body(m + 1)[k]
      <3> TAKE k \in 1..(m + 2)
      <3>1. CASE k = m + 2 BY <1>1, <2>2, <3>1 DEF Body
      <3>2. CASE k # m + 2
        <4>1. k \in 1..(m + 1) BY <1>1, <3>2
        <4> QED BY <1>1, <2>2, <4>1 DEF Body
      <3> QED BY <3>1, <3>2
    <2>5. DOMAIN Body(m + 1) = 1..(m + 2) BY <1>1 DEF Body
    <2>6. s = [k \in DOMAIN s |-> s[k]] BY <2>2
    <2>7. Body(m + 1) = [k \in 1..(m + 2) |-> Body(m + 1)[k]] BY <2>5 DEF Body
    <2> QED BY <2>3, <2>4, <2>6, <2>7 DEF s
  <1> QED BY <1>5, <1>6, <1>7

LEMMA BegunAre ==
    ASSUME IInv
    PROVE  /\ Cardinality(Begun) \in 0..N /\ Begun = 1..Cardinality(Begun)
           /\ Reported \in Nat /\ Len(transcript) \in Nat
  <1> USE BatchAssumption DEF IInv
  <1>1. PICK k \in 0..N : Begun = 1..k BY DEF InOrder
  <1>2. Cardinality(1..k) = k BY FS_Interval
  <1>3. Len(transcript) \in Nat /\ Len(transcript) >= 1 BY LenProperties DEF Grown
  <1> QED BY <1>1, <1>2, <1>3 DEF Reported

(* The call that reports is the next one without a result. *)
LEMMA ReportIsNext ==
    ASSUME IInv, ResultsInv, NEW i \in Calls, stage[i] = "reporting"
    PROVE  sequential /\ batch = "preparing" /\ i = Reported + 1
  <1> USE DEF IInv, ResultsInv
  <1>1. sequential BY DEF CountInv
  <1>2. batch = "preparing" BY <1>1 DEF QuietInv, OneAtATime, Resting, TypeOK
  <1>3. i \in Nat /\ Reported \in Nat /\ ~(i <= Reported)
    BY <1>1, <1>2, BegunAre DEF CountInv, Calls
  <1>4. ASSUME Reported + 1 < i PROVE FALSE
    <2>1. Reported + 1 \in Calls BY <1>3, <1>4, BatchAssumption DEF Calls
    <2>2. stage[Reported + 1] = "done" BY <1>1, <1>4, <2>1 DEF CountInv
    <2>3. Reported + 1 <= Reported BY <1>1, <1>2, <2>1, <2>2 DEF CountInv
    <2> QED BY <1>3, <2>3
  <1> QED BY <1>1, <1>2, <1>3, <1>4

(* In a sequential batch that has settled, those begun have their result. *)
LEMMA SettledAreDone ==
    ASSUME IInv, ResultsInv, sequential, batch # "over", Begun = Settled
    PROVE  /\ \A j \in Begun : stage[j] = "done"
           /\ Reported = Cardinality(Begun)
  <1> USE BatchAssumption DEF IInv, ResultsInv
  <1>1. \A j \in Begun : j \in Calls /\ stage[j] = "done"
    BY DEF Settled, OneAtATime, Begun
  <1> DEFINE k == Cardinality(Begun)
  <1>2. k \in 0..N /\ Begun = 1..k /\ Reported \in 0..N BY BegunAre DEF ShapeInv
  <1>3. \A j \in Calls : j \in Begun <=> j <= Reported
    BY <1>1 DEF CountInv, Begun
  <1>4. \A j \in 1..N : j <= k <=> j <= Reported BY <1>2, <1>3 DEF Calls
  <1> HIDE DEF k
  <1>5. Reported = k
    <2>1. ASSUME k < Reported PROVE FALSE
      <3>1. Reported \in 1..N BY <1>2, <2>1
      <3>2. Reported <= k BY <1>4, <3>1
      <3> QED BY <1>2, <2>1, <3>2
    <2>2. ASSUME Reported < k PROVE FALSE
      <3>1. k \in 1..N BY <1>2, <2>2
      <3>2. k <= Reported BY <1>4, <1>2, <3>1
      <3> QED BY <1>2, <2>2, <3>2
    <2> QED BY <1>2, <2>1, <2>2
  <1> QED BY <1>1, <1>5 DEF k

-----------------------------------------------------------------------------
(* A result is appended for the next call, and the end of the run appends  *)
(* its own messages.                                                       *)
LEMMA ShapeStep == IInv /\ ResultsInv /\ [Next]_vars => ShapeInv'
  <1> SUFFICES ASSUME IInv, ResultsInv, [Next]_vars PROVE ShapeInv' OBVIOUS
  <1> USE BatchAssumption DEF IInv, ResultsInv
  <1>a. ASSUME UNCHANGED transcript, batch' = "over" <=> batch = "over" PROVE ShapeInv'
    <2>1. Reported' = Reported BY <1>a DEF Reported
    <2> QED BY <1>a, <2>1 DEF ShapeInv
  <1>b. ASSUME batch # "over", batch' # "over", Reported < N,
               transcript' = Append(transcript, Result(Reported + 1))
        PROVE  ShapeInv'
    <2>1. Reported \in 0..N /\ transcript = Body(Reported) BY <1>b DEF ShapeInv
    <2>2. transcript' = Body(Reported + 1) BY <1>b, <2>1, BodyFacts
    <2>3. Reported + 1 \in 0..N BY <1>b, <2>1
    <2>4. Len(transcript') = Reported + 2 BY <2>1, <2>2, <2>3, BodyFacts
    <2>5. Reported' = Reported + 1 BY <2>1, <2>4 DEF Reported
    <2> QED BY <1>b, <2>2, <2>3, <2>5 DEF ShapeInv
  <1>1. ASSUME NEW i \in Calls, Report(i) PROVE ShapeInv'
    <2>1. batch = "preparing" /\ i = Reported + 1
      BY <1>1, ReportIsNext DEF Report
    <2>2. Reported \in Nat BY BegunAre
    <2>3. Reported < N BY <2>1, <2>2 DEF Calls
    <2> QED BY <1>1, <1>b, <2>1, <2>3 DEF Report
  <1>2. CASE EmitResult
    <2>1. Reported < N BY <1>2, BegunAre DEF EmitResult
    <2> QED BY <1>2, <1>b, <2>1 DEF EmitResult
  <1>3. CASE EndRun
    <2>1. PICK m \in 0..N : transcript = Body(m) BY <1>3 DEF EndRun, ShapeInv
    <2>2. transcript \in Seq(Entries) BY DEF Grown
    <2>3. FailureMessage \in Entries /\ UserMessage \in Entries BY DEF Entries
    <2>4. CASE aborted \/ batch = "failed"
      <3>1. transcript' = (transcript \o <<FailureMessage>>) \o <<UserMessage>>
        BY <1>3, <2>4 DEF EndRun
      <3>2. transcript \o <<FailureMessage>> = Append(transcript, FailureMessage)
        BY <2>2, <2>3, AppendIsConcat
      <3>3. Append(transcript, FailureMessage) \in Seq(Entries)
        BY <2>2, <2>3, AppendProperties
      <3>4. transcript' = Append(Append(transcript, FailureMessage), UserMessage)
        BY <2>3, <3>1, <3>2, <3>3, AppendIsConcat
      <3> QED BY <1>3, <2>1, <3>4 DEF EndRun, ShapeInv
    <2>5. CASE ~(aborted \/ batch = "failed")
      <3>1. transcript' = (transcript \o <<>>) \o <<UserMessage>>
        BY <1>3, <2>5 DEF EndRun
      <3>2. transcript \o <<>> = transcript BY <2>2, ConcatEmptySeq
      <3>3. transcript' = Append(transcript, UserMessage)
        BY <2>2, <2>3, <3>1, <3>2, AppendIsConcat
      <3> QED BY <1>3, <2>1, <3>3 DEF EndRun, ShapeInv
    <2> QED BY <2>4, <2>5
  <1> QED
    BY <1>1, <1>2, <1>3, <1>a
    DEF Next, Advance, StartCall, Classify, HookReturns, HookThrows, Decide, ToolReturns,
        EndCall, StartPrepared, AllSettled, FinishBatch, Abort, ListenerFails, EmitFails, vars

(* No event of a batch fails without failing the batch. *)
LEMMA DoneStep == IInv /\ ResultsInv /\ [Next]_vars => DoneInv'
  <1> SUFFICES ASSUME IInv, ResultsInv, [Next]_vars PROVE DoneInv' OBVIOUS
  <1> USE DEF IInv, ResultsInv
  (* A step of a call in flight leaves the batch where the calls still are. *)
  <1>a. ASSUME NEW i \in Calls, stage[i] \notin Resting, UNCHANGED <<batch, failures>>,
               NEW to \in Stages \ {"waiting"}, stage' = [stage EXCEPT ![i] = to],
               aborted' = aborted
        PROVE  DoneInv'
    <2>1. Begun' = Begun BY <1>a DEF Begun, Resting, TypeOK
    <2>2. batch \notin {"emitting", "done"} BY <1>a DEF DoneInv, Begun, Resting
    <2> QED BY <1>a, <2>1, <2>2 DEF DoneInv
  <1> USE DEF Resting, Stages
  <1>1. ASSUME NEW i \in Calls, StartCall(i) PROVE DoneInv'
    BY <1>1 DEF StartCall, DoneInv
  <1>2. ASSUME NEW i \in Calls, Classify(i) PROVE DoneInv'
    BY <1>2, <1>a DEF Classify, Immediate
  <1>3. ASSUME NEW i \in Calls, HookReturns(i) PROVE DoneInv'
    BY <1>3, <1>a DEF HookReturns, Admit, Immediate
  <1>4. ASSUME NEW i \in Calls, HookThrows(i) PROVE DoneInv'
    BY <1>4, <1>a DEF HookThrows, Immediate
  <1>5. ASSUME NEW i \in Calls, Decide(i) PROVE DoneInv'
    BY <1>5, <1>a DEF Decide, Admit, Immediate
  <1>6. ASSUME NEW i \in Calls, ToolReturns(i) PROVE DoneInv'
    BY <1>6, <1>a DEF ToolReturns
  <1>7. ASSUME NEW i \in Calls, EndCall(i) PROVE DoneInv' BY <1>7, <1>a DEF EndCall
  <1>8. ASSUME NEW i \in Calls, Report(i) PROVE DoneInv' BY <1>8, <1>a DEF Report
  <1>9. CASE StartPrepared
    <2>1. Begun' = Begun BY <1>9 DEF StartPrepared, Begun, TypeOK
    <2> QED BY <1>9, <2>1 DEF StartPrepared, PreparationOver, DoneInv
  <1>10. CASE AllSettled BY <1>10 DEF AllSettled, DoneInv, Begun
  <1>11. CASE EmitResult BY <1>11 DEF EmitResult, DoneInv, Begun
  <1>12. CASE FinishBatch
    <2>1. CASE batch = "emitting" BY <1>12, <2>1 DEF FinishBatch, DoneInv, Begun
    <2>2. CASE sequential /\ batch = "preparing" /\ PreparationOver
      <3>1. \A j \in Begun : stage[j] = "done"
        BY <2>2, SettledAreDone DEF PreparationOver
      <3> QED BY <1>12, <2>2, <3>1 DEF FinishBatch, PreparationOver, DoneInv, Begun
    <2> QED BY <1>12, <2>1, <2>2 DEF FinishBatch
  <1>13. CASE EndRun BY <1>13 DEF EndRun, DoneInv
  <1>14. CASE Abort BY <1>14 DEF Abort, DoneInv, Begun
  <1>15. ASSUME NEW i \in Calls, ListenerFails(i) PROVE DoneInv'
    BY <1>15 DEF ListenerFails, DoneInv
  <1>16. CASE EmitFails BY <1>16 DEF EmitFails, DoneInv
  <1>17. CASE UNCHANGED vars BY <1>17 DEF vars, gate, DoneInv, Begun
  <1> QED
    BY <1>1, <1>2, <1>3, <1>4, <1>5, <1>6, <1>7, <1>8, <1>9, <1>10, <1>11, <1>12, <1>13,
       <1>14, <1>15, <1>16, <1>17 DEF Next, Advance

(* A call ends once, on its way to its report. *)
LEMMA EndsStep == IInv /\ ResultsInv /\ [Next]_vars => EndsInv'
  <1> SUFFICES ASSUME IInv, ResultsInv, [Next]_vars PROVE EndsInv' OBVIOUS
  <1> USE DEF IInv, ResultsInv
  <1>0. failures \in Nat BY BatchAssumption DEF TypeOK
  <1>a. ASSUME UNCHANGED <<ends, failures>>,
               \A i \in Calls : stage'[i] \in {"reporting", "done"}
                                    <=> stage[i] \in {"reporting", "done"}
        PROVE  EndsInv'
    BY <1>a DEF EndsInv
  <1>b. ASSUME NEW i \in Calls, UNCHANGED <<ends, failures>>, stage' \in [Calls -> Stages],
               NEW to, stage' = [stage EXCEPT ![i] = to],
               to \in {"reporting", "done"} <=> stage[i] \in {"reporting", "done"}
        PROVE  EndsInv'
    BY <1>a, <1>b DEF TypeOK
  <1>c. failures' = failures + 1 => EndsInv' BY <1>0 DEF EndsInv
  <1>t. stage' \in [Calls -> Stages] BY TypeStep DEF TypeOK
  <1>1. ASSUME NEW i \in Calls, StartCall(i) PROVE EndsInv'
    <2>1. stage[i] = "waiting" BY <1>1, NextIsWaiting DEF StartCall
    <2> QED BY <1>1, <2>1, <1>b, <1>t DEF StartCall
  <1>2. ASSUME NEW i \in Calls, Classify(i) PROVE EndsInv'
    BY <1>2, <1>b, <1>t DEF Classify, Immediate
  <1>3. ASSUME NEW i \in Calls, HookReturns(i) PROVE EndsInv'
    BY <1>3, <1>b, <1>t DEF HookReturns, Admit, Immediate
  <1>4. ASSUME NEW i \in Calls, HookThrows(i) PROVE EndsInv'
    BY <1>4, <1>b, <1>t DEF HookThrows, Immediate
  <1>5. ASSUME NEW i \in Calls, Decide(i) PROVE EndsInv'
    BY <1>5, <1>b, <1>t DEF Decide, Admit, Immediate
  <1>6. ASSUME NEW i \in Calls, ToolReturns(i) PROVE EndsInv'
    BY <1>6, <1>b, <1>t DEF ToolReturns
  <1>7. ASSUME NEW i \in Calls, EndCall(i) PROVE EndsInv'
    <2> SUFFICES ASSUME failures' = 0 PROVE EndsInv' BY DEF EndsInv
    <2> DEFINE ended == {j \in Calls : stage[j] \in {"reporting", "done"}}
    <2>1. /\ failures = 0 /\ ToSet(ends) = ended
          /\ \A j, k \in DOMAIN ends : ends[j] = ends[k] => j = k
      BY <1>7 DEF EndCall, EndsInv
    <2>2. ends \in Seq(Calls) /\ Len(ends) \in Nat /\ DOMAIN ends = 1..Len(ends)
      BY LenProperties DEF TypeOK
    <2>3. /\ ends' \in Seq(Calls) /\ DOMAIN ends' = 1..(Len(ends) + 1)
          /\ \A k \in 1..Len(ends) : ends'[k] = ends[k]
          /\ ends'[Len(ends) + 1] = i
      BY <1>7, <2>2, AppendProperties, LenProperties DEF EndCall
    <2>4. i \notin ended BY <1>7 DEF EndCall
    <2>5. \A k \in DOMAIN ends : ends[k] # i BY <2>1, <2>4 DEF ToSet
    <2>6. \A j, k \in DOMAIN ends' : ends'[j] = ends'[k] => j = k
      BY <2>1, <2>2, <2>3, <2>5
    <2>7. ToSet(ends') = ToSet(ends) \cup {i} BY <2>2, <2>3 DEF ToSet
    <2>8. {j \in Calls : stage'[j] \in {"reporting", "done"}} = ended \cup {i}
      BY <1>7 DEF EndCall, TypeOK
    <2> QED BY <2>1, <2>6, <2>7, <2>8 DEF EndsInv
  <1>8. ASSUME NEW i \in Calls, Report(i) PROVE EndsInv'
    BY <1>8, <1>b, <1>t DEF Report
  <1>9. CASE StartPrepared BY <1>9, <1>a DEF StartPrepared
  <1>10. ASSUME NEW i \in Calls, ListenerFails(i) PROVE EndsInv'
    BY <1>10, <1>c DEF ListenerFails
  <1>11. CASE EmitFails BY <1>11, <1>c DEF EmitFails
  <1>12. ASSUME UNCHANGED <<stage, ends, failures>> PROVE EndsInv' BY <1>12, <1>a
  <1> QED
    BY <1>1, <1>2, <1>3, <1>4, <1>5, <1>6, <1>7, <1>8, <1>9, <1>10, <1>11, <1>12
    DEF Next, Advance, AllSettled, EmitResult, FinishBatch, EndRun, Abort, vars

(* Results follow the calls: the next of a sequential batch as it is done, *)
(* those of a parallel one after all have settled.                         *)
LEMMA CountStep == IInv /\ ResultsInv /\ [Next]_vars => CountInv'
  <1> SUFFICES ASSUME IInv, ResultsInv, [Next]_vars PROVE CountInv' OBVIOUS
  <1> USE BatchAssumption DEF IInv, ResultsInv
  (* A step of a call in flight that neither reports nor ends the batch. *)
  <1>a. ASSUME NEW i \in Calls, stage[i] \notin Resting,
               NEW to \in Stages \ {"waiting"},
               sequential => to # "done", ~sequential => to # "reporting",
               stage' = [stage EXCEPT ![i] = to],
               UNCHANGED <<sequential, batch, transcript>>
        PROVE  CountInv'
    <2>1. Begun' = Begun BY <1>a DEF Begun, Resting, TypeOK
    <2>2. Reported' = Reported BY <1>a DEF Reported
    <2>3. \A j \in Calls : stage'[j] = "waiting" <=> stage[j] = "waiting"
      BY <1>a DEF Resting, TypeOK
    <2>4. sequential => \A j \in Calls : stage'[j] = "done" <=> stage[j] = "done"
      BY <1>a DEF Resting, TypeOK
    <2>5. ~sequential => \A j \in Calls : stage'[j] # "reporting"
      BY <1>a DEF CountInv, TypeOK
    <2> QED BY <1>a, <2>1, <2>2, <2>3, <2>4, <2>5 DEF CountInv
  <1> USE DEF Resting, Stages
  <1>1. ASSUME NEW i \in Calls, StartCall(i) PROVE CountInv'
    <2>1. stage[i] = "waiting" /\ Begun = 1..(i - 1) BY <1>1, NextIsWaiting DEF StartCall
    <2>2. Reported' = Reported BY <1>1 DEF StartCall, Reported
    <2>3. sequential => \A j \in Begun : stage[j] = "done"
      BY <1>1, SettledAreDone DEF StartCall
    <2>4. \A j \in Calls : j < i => j \in Begun BY <2>1 DEF Calls
    <2>5. \A j \in Calls : j # i => stage'[j] = stage[j] BY <1>1 DEF StartCall, TypeOK
    <2>6. stage'[i] = "starting" BY <1>1 DEF StartCall, TypeOK
    <2>7. sequential => \A k, j \in Calls : j < k /\ stage'[k] # "waiting" => stage'[j] = "done"
      <3> SUFFICES ASSUME sequential, NEW k \in Calls, NEW j \in Calls, j < k,
                          stage'[k] # "waiting"
                   PROVE  stage'[j] = "done"
        OBVIOUS
      <3>1. CASE k = i BY <2>3, <2>4, <2>5, <3>1 DEF Calls
      <3>2. CASE k # i
        <4>1. stage[j] = "done" BY <2>5, <3>2 DEF CountInv
        <4> QED BY <2>1, <2>5, <4>1
      <3> QED BY <3>1, <3>2
    <2>8. sequential => \A j \in Calls : stage'[j] = "done" <=> j <= Reported
      BY <1>1, <2>1, <2>5, <2>6 DEF StartCall, CountInv
    <2> QED BY <1>1, <2>2, <2>5, <2>6, <2>7, <2>8 DEF StartCall, gate, CountInv
  <1>2. ASSUME NEW i \in Calls, Classify(i) PROVE CountInv'
    BY <1>2, <1>a DEF Classify, Immediate, gate
  <1>3. ASSUME NEW i \in Calls, HookReturns(i) PROVE CountInv'
    BY <1>3, <1>a DEF HookReturns, Admit, Immediate
  <1>4. ASSUME NEW i \in Calls, HookThrows(i) PROVE CountInv'
    BY <1>4, <1>a DEF HookThrows, Immediate, gate
  <1>5. ASSUME NEW i \in Calls, Decide(i) PROVE CountInv'
    BY <1>5, <1>a DEF Decide, Admit, Immediate
  <1>6. ASSUME NEW i \in Calls, ToolReturns(i) PROVE CountInv'
    BY <1>6, <1>a DEF ToolReturns, gate
  <1>7. ASSUME NEW i \in Calls, EndCall(i) PROVE CountInv'
    BY <1>7, <1>a DEF EndCall, gate
  <1>8. ASSUME NEW i \in Calls, Report(i) PROVE CountInv'
    <2>1. sequential /\ batch = "preparing" /\ i = Reported + 1
      BY <1>8, ReportIsNext DEF Report
    <2>2. Reported \in Nat /\ Len(transcript) \in Nat BY BegunAre
    <2>3. Len(transcript') = Len(transcript) + 1
      BY <1>8, AppendProperties DEF Report, Grown, Entries
    <2>4. Reported' = i BY <2>1, <2>2, <2>3 DEF Reported
    <2>5. \A j \in Calls : stage'[j] = IF j = i THEN "done" ELSE stage[j]
      BY <1>8 DEF Report, TypeOK
    <2>6. \A j \in Calls : stage'[j] = "done" <=> j <= i
      BY <2>1, <2>2, <2>5 DEF CountInv, Calls
    <2>7. \A j \in Calls : stage'[j] = "waiting" <=> stage[j] = "waiting"
      BY <1>8, <2>5 DEF Report
    <2>8. \A k, j \in Calls : j < k /\ stage'[k] # "waiting" => stage'[j] = "done"
      BY <2>1, <2>5, <2>7 DEF CountInv
    <2>9. sequential' /\ batch' = "preparing" BY <1>8, <2>1 DEF Report, gate
    <2> QED BY <2>4, <2>6, <2>8, <2>9 DEF CountInv
  <1>9. CASE StartPrepared
    <2>1. Reported' = Reported BY <1>9 DEF StartPrepared, Reported
    <2> QED BY <1>9, <2>1 DEF StartPrepared, gate, CountInv
  <1>10. CASE AllSettled
    <2>1. Reported' = Reported /\ Begun' = Begun BY <1>10 DEF AllSettled, Reported, Begun
    <2>2. ~sequential BY <1>10 DEF AllSettled, OneAtATime
    <2>3. Reported <= Cardinality(Begun) BY <1>10, <2>2, BegunAre DEF AllSettled, CountInv
    <2> QED BY <1>10, <2>1, <2>2, <2>3 DEF AllSettled, gate, CountInv
  <1>11. CASE EmitResult
    <2>1. ~sequential BY <1>11 DEF EmitResult, OneAtATime
    <2>2. Begun' = Begun BY <1>11 DEF EmitResult, Begun
    <2>3. Reported \in Nat /\ Len(transcript) \in Nat /\ Cardinality(Begun) \in 0..N
      BY BegunAre
    <2>4. Reported + 1 \in Calls BY <1>11, <2>3 DEF EmitResult, Calls
    <2>5. Len(transcript') = Len(transcript) + 1
      BY <1>11, <2>4, AppendProperties DEF EmitResult, Grown, Entries
    <2>6. Reported' = Reported + 1 BY <2>3, <2>5 DEF Reported
    <2>7. Reported' <= Cardinality(Begun') BY <1>11, <2>2, <2>3, <2>6 DEF EmitResult
    <2> QED BY <1>11, <2>1, <2>7 DEF EmitResult, gate, CountInv
  <1>12. CASE FinishBatch
    <2>1. Reported' = Reported /\ Begun' = Begun BY <1>12 DEF FinishBatch, Reported, Begun
    <2>2. batch # "over" BY <1>12 DEF FinishBatch
    <2>3. Reported = Cardinality(Begun)
      BY <1>12, <2>2, SettledAreDone DEF FinishBatch, PreparationOver
    <2> QED BY <1>12, <2>1, <2>2, <2>3 DEF FinishBatch, gate, CountInv
  <1>13. CASE EndRun BY <1>13 DEF EndRun, gate, CountInv
  <1>14. CASE Abort BY <1>14 DEF Abort, gate, CountInv, Reported, Begun
  <1>15. ASSUME NEW i \in Calls, ListenerFails(i) PROVE CountInv'
    <2>1. Reported' = Reported BY <1>15 DEF ListenerFails, Reported
    <2>2. /\ sequential' = sequential /\ batch' \in {"failed", "over"}
          /\ batch' = "over" <=> batch = "over"
      BY <1>15 DEF ListenerFails, gate
    <2>3. \A j \in Calls : stage'[j] = IF j = i THEN "failed" ELSE stage[j]
      BY <1>15 DEF ListenerFails, TypeOK
    <2>4. stage[i] \notin {"waiting", "done"} BY <1>15 DEF ListenerFails
    <2>5. \A j \in Calls : stage'[j] = "done" <=> stage[j] = "done" BY <2>3, <2>4
    <2>6. \A j \in Calls : stage'[j] = "waiting" <=> stage[j] = "waiting" BY <2>3, <2>4
    <2>7. ~sequential => \A j \in Calls : stage'[j] # "reporting" BY <2>3 DEF CountInv
    <2> QED BY <2>1, <2>2, <2>5, <2>6, <2>7 DEF CountInv
  <1>16. CASE EmitFails
    BY <1>16 DEF EmitFails, gate, OneAtATime, CountInv, Reported
  <1>17. CASE UNCHANGED vars BY <1>17 DEF vars, gate, CountInv, Reported, Begun
  <1> QED
    BY <1>1, <1>2, <1>3, <1>4, <1>5, <1>6, <1>7, <1>8, <1>9, <1>10, <1>11, <1>12, <1>13,
       <1>14, <1>15, <1>16, <1>17 DEF Next, Advance

LEMMA InitResults == Init => ResultsInv
  <1> SUFFICES ASSUME Init PROVE ResultsInv OBVIOUS
  <1> USE BatchAssumption DEF Init
  <1>1. Reported = 0 BY DEF Reported
  <1>2. transcript = Body(0)
    <2>1. DOMAIN transcript = 1..1 /\ DOMAIN Body(0) = 1..1 BY DEF Body
    <2>2. transcript[1] = Body(0)[1] BY DEF Body
    <2> QED BY <2>1, <2>2 DEF Body
  <1>3. ShapeInv BY <1>1, <1>2 DEF ShapeInv
  <1>4. CountInv BY <1>1 DEF CountInv, Calls
  <1>5. DoneInv BY DEF DoneInv
  <1>6. EndsInv BY DEF EndsInv, ToSet
  <1> QED BY <1>3, <1>4, <1>5, <1>6 DEF ResultsInv

LEMMA ResultsInvariance == Spec => [](IInv /\ ResultsInv)
  <1>1. Init => IInv /\ ResultsInv BY InitInv, InitResults
  <1>2. IInv /\ ResultsInv /\ [Next]_vars => IInv' /\ ResultsInv'
    BY NextInv, ShapeStep, CountStep, DoneStep, EndsStep DEF ResultsInv
  <1> QED BY <1>1, <1>2, PTL DEF Spec

-----------------------------------------------------------------------------
(* Results are the messages 2..(m + 1), the one at k of call k - 1. *)
LEMMA BodyResults ==
    ASSUME NEW m \in 0..N, NEW s, NEW tail \in 0..2,
           DOMAIN s = 1..(m + 1 + tail),
           \A k \in 1..(m + 1) : s[k] = Body(m)[k],
           \A k \in (m + 2)..(m + 1 + tail) : s[k].role # "toolResult"
    PROVE  LET results == {k \in DOMAIN s : s[k].role = "toolResult"} IN
           /\ \A k \in results : s[k].call = Cardinality(results \cap 1..k)
           /\ Cardinality(results) = m
  <1> USE BatchAssumption
  <1> DEFINE results == {k \in DOMAIN s : s[k].role = "toolResult"}
  <1>0. m \in Nat OBVIOUS
  <1>1. s[1].role = "assistant" BY DEF Body, AssistantMessage
  <1>2. \A k \in 2..(m + 1) : s[k].role = "toolResult" /\ s[k].call = k - 1
    <2> TAKE k \in 2..(m + 1)
    <2>1. k \in 1..(m + 1) /\ k # 1 BY <1>0
    <2>2. s[k] = Result(k - 1) BY <2>1 DEF Body
    <2> HIDE DEF results
    <2> QED BY <2>2 DEF Result
  <1>3. results = 2..(m + 1)
    <2>1. ASSUME NEW k \in 1..(m + 1 + tail) PROVE k \in results <=> k \in 2..(m + 1)
      <3>1. CASE k = 1 BY <1>0, <1>1, <3>1
      <3>2. CASE k \in 2..(m + 1) BY <1>0, <1>2, <3>2
      <3>3. CASE k \in (m + 2)..(m + 1 + tail) BY <1>0, <3>3
      <3> QED BY <1>0, <3>1, <3>2, <3>3
    <2>2. results \subseteq 1..(m + 1 + tail) /\ 2..(m + 1) \subseteq 1..(m + 1 + tail)
      BY <1>0
    <2> QED BY <2>1, <2>2
  <1> HIDE DEF results
  <1>4. Cardinality(results) = m
    <2>1. Cardinality(2..(m + 1)) = IF 2 > m + 1 THEN 0 ELSE (m + 1) - 2 + 1
      BY <1>0, FS_Interval
    <2> QED BY <1>0, <1>3, <2>1
  <1>5. ASSUME NEW k \in results PROVE s[k].call = Cardinality(results \cap 1..k)
    <2>1. k \in 2..(m + 1) BY <1>3
    <2>2. results \cap 1..k = 2..k BY <1>0, <1>3, <2>1
    <2>3. Cardinality(2..k) = k - 1 BY <2>1, <1>0, FS_Interval
    <2> QED BY <1>2, <2>1, <2>2, <2>3
  <1> QED BY <1>4, <1>5 DEF results

(* A transcript's entries: its body and the messages the end of the run adds. *)
LEMMA TranscriptShape ==
    ASSUME IInv, ResultsInv
    PROVE  \E m \in 0..N, tail \in 0..2 :
              /\ DOMAIN transcript = 1..(m + 1 + tail)
              /\ \A k \in 1..(m + 1) : transcript[k] = Body(m)[k]
              /\ \A k \in (m + 2)..(m + 1 + tail) :
                    transcript[k] \in {FailureMessage, UserMessage}
              /\ batch # "over" => m = Reported
  <1> USE BatchAssumption DEF IInv, ResultsInv
  <1>1. CASE batch # "over"
    <2>1. Reported \in 0..N /\ transcript = Body(Reported) BY <1>1 DEF ShapeInv
    <2> DEFINE m == Reported
    <2>2. DOMAIN transcript = 1..(m + 1 + 0) BY <2>1, BodyFacts DEF Body
    <2>3. \A k \in 1..(m + 1) : transcript[k] = Body(m)[k] BY <2>1
    <2>4. (m + 2)..(m + 1 + 0) = {} BY <2>1
    <2>5. m \in 0..N BY <2>1
    <2> HIDE DEF m
    <2>6. batch # "over" => m = Reported BY DEF m
    <2> QED BY <2>2, <2>3, <2>4, <2>5, <2>6
  <1>2. CASE batch = "over"
    <2>1. PICK m \in 0..N :
            \/ transcript = Append(Body(m), UserMessage)
            \/ transcript = Append(Append(Body(m), FailureMessage), UserMessage)
      BY <1>2 DEF ShapeInv
    <2> DEFINE b == Body(m)
    <2>2. /\ b \in Seq(Entries) /\ Len(b) = m + 1 /\ m \in Nat
          /\ FailureMessage \in Entries /\ UserMessage \in Entries
      BY BodyFacts DEF Entries
    <2>3. CASE transcript = Append(b, UserMessage)
      <3>1. /\ transcript \in Seq(Entries) /\ Len(transcript) = m + 2
            /\ \A k \in 1..(m + 1) : transcript[k] = b[k]
            /\ transcript[m + 2] = UserMessage
        BY <2>2, <2>3, AppendProperties
      <3>2. DOMAIN transcript = 1..(m + 1 + 1) BY <2>2, <3>1, LenProperties
      <3>3. \A k \in (m + 2)..(m + 1 + 1) : transcript[k] = UserMessage BY <2>2, <3>1
      <3> QED BY <1>2, <3>1, <3>2, <3>3
    <2>4. CASE transcript = Append(Append(b, FailureMessage), UserMessage)
      <3> DEFINE c == Append(b, FailureMessage)
      <3>1. /\ c \in Seq(Entries) /\ Len(c) = m + 2
            /\ \A k \in 1..(m + 1) : c[k] = b[k]
            /\ c[m + 2] = FailureMessage
        BY <2>2, AppendProperties
      <3> HIDE DEF c
      <3>2. transcript = Append(c, UserMessage) BY <2>4 DEF c
      <3>3. /\ transcript \in Seq(Entries) /\ Len(transcript) = m + 3
            /\ \A k \in 1..(m + 2) : transcript[k] = c[k]
            /\ transcript[m + 3] = UserMessage
        BY <2>2, <3>1, <3>2, AppendProperties
      <3>4. DOMAIN transcript = 1..(m + 1 + 2) BY <2>2, <3>3, LenProperties
      <3>5. \A k \in 1..(m + 1) : transcript[k] = b[k] BY <2>2, <3>1, <3>3
      <3>6. ASSUME NEW k \in (m + 2)..(m + 1 + 2)
            PROVE  transcript[k] \in {FailureMessage, UserMessage}
        <4>1. k = m + 2 \/ k = m + 3 BY <2>2
        <4>2. m + 2 \in 1..(m + 2) BY <2>2
        <4> QED BY <3>1, <3>3, <4>1, <4>2
      <3> QED BY <1>2, <3>4, <3>5, <3>6
    <2> QED BY <2>1, <2>3, <2>4
  <1> QED BY <1>1, <1>2

LEMMA InvEveryStartEnds == IInv /\ ResultsInv => EveryStartEnds
  <1> SUFFICES ASSUME IInv, ResultsInv PROVE EveryStartEnds OBVIOUS
  <1> DEFINE results == {k \in DOMAIN transcript : transcript[k].role = "toolResult"}
  <1>1. PICK m \in 0..N, tail \in 0..2 :
              /\ DOMAIN transcript = 1..(m + 1 + tail)
              /\ \A k \in 1..(m + 1) : transcript[k] = Body(m)[k]
              /\ \A k \in (m + 2)..(m + 1 + tail) :
                    transcript[k] \in {FailureMessage, UserMessage}
              /\ batch # "over" => m = Reported
    BY TranscriptShape
  <1>2. \A k \in (m + 2)..(m + 1 + tail) : transcript[k].role # "toolResult"
    BY <1>1 DEF FailureMessage, UserMessage
  <1>3. /\ \A k \in results : transcript[k].call = Cardinality(results \cap 1..k)
        /\ Cardinality(results) = m
    BY <1>1, <1>2, BodyResults
  <1> HIDE DEF results
  <1>4. ASSUME batch = "done"
        PROVE  /\ ToSet(ends) = Begun /\ Len(ends) = Cardinality(Begun)
               /\ Cardinality(results) = Cardinality(Begun)
               /\ ~aborted => Begun = Calls
    <2> USE DEF IInv, ResultsInv
    <2>1. /\ \A i \in Begun : stage[i] = "done" 
          /\ ~aborted => Begun = Calls
          /\ failures = 0
      BY <1>4 DEF DoneInv
    <2>2. ToSet(ends) = Begun BY <2>1 DEF EndsInv, Begun
    <2>3. Cardinality(results) = Cardinality(Begun) BY <1>1, <1>3, <1>4 DEF CountInv
    <2>4. Len(ends) = Cardinality(Begun)
      <3>1. Len(ends) \in Nat /\ DOMAIN ends = 1..Len(ends) /\ ends \in Seq(Calls)
        BY LenProperties DEF TypeOK
      <3>2. \A j, k \in DOMAIN ends : ends[j] = ends[k] => j = k BY <2>1 DEF EndsInv
      <3>3. ends \in [1..Len(ends) -> Begun] BY <2>2, <3>1 DEF ToSet
      <3>4. \A i \in Begun : \E k \in 1..Len(ends) : ends[k] = i BY <2>2, <3>1 DEF ToSet
      <3>5. ends \in Bijection(1..Len(ends), Begun)
        <4>1. ends \in Injection(1..Len(ends), Begun) BY <3>1, <3>2, <3>3 DEF Injection, IsInjective
        <4>2. ends \in Surjection(1..Len(ends), Begun) BY <3>3, <3>4 DEF Surjection
        <4> QED BY <4>1, <4>2 DEF Bijection
      <3>6. ExistsBijection(1..Len(ends), Begun) BY <3>5 DEF ExistsBijection
      <3> QED BY <3>1, <3>6, FS_CountingElements
    <2> QED BY <2>1, <2>2, <2>3, <2>4
  <1> QED BY <1>3, <1>4 DEF EveryStartEnds, results

(* Whatever order the tools finish in, results appear in source order, and *)
(* a completed batch has one end and one result for each call it started.  *)
THEOREM BatchEveryStartEnds == Spec => []EveryStartEnds
  BY InvEveryStartEnds, ResultsInvariance, PTL

-----------------------------------------------------------------------------
(* What transformMessages makes of such a transcript.  Its two loops are    *)
(* recursive functions: a function that satisfies the equations is shown,   *)
(* and by induction over the positions it is the only one.                  *)

Below == {p \in Nat \X Nat : p[1] < p[2]}

LEMMA BelowWellFounded == IsWellFoundedOn(Below, Nat)
  BY NatLessThanWellFounded DEF OpToRel, Below

LEMMA Induct ==
    ASSUME NEW S \in SUBSET Nat, 0 \in S, \A n \in S : n + 1 \in S
    PROVE  S = Nat
  <1> SUFFICES ASSUME Nat \ S # {} PROVE FALSE OBVIOUS
  <1>1. PICK m \in Nat \ S : \A n \in Nat \ S : ~ (<<n, m>> \in Below)
    BY BelowWellFounded, WFMin
  <1>2. m # 0 /\ m - 1 \in Nat /\ (m - 1) + 1 = m BY <1>1
  <1>3. <<m - 1, m>> \in Below BY <1>2 DEF Below
  <1>4. m - 1 \in S BY <1>1, <1>2, <1>3
  <1> QED BY <1>1, <1>2, <1>4

IsUpTo(s, f) ==
    f = [i \in 0..N |-> IF i = 0 THEN s.out
                        ELSE IF i \in s.pending \ s.answered THEN Append(f[i - 1], Result(i))
                        ELSE f[i - 1]]

LEMMA SyntheticIs ==
    ASSUME NEW s, NEW g, IsUpTo(s, g)
    PROVE  WithSynthetic(s) = [out |-> g[N], pending |-> {}, answered |-> {}]
  <1> USE BatchAssumption
  <1> DEFINE f == CHOOSE h : IsUpTo(s, h)
  <1>1. IsUpTo(s, f) OBVIOUS
  <1>2. WithSynthetic(s) = [out |-> f[N], pending |-> {}, answered |-> {}]
    BY DEF WithSynthetic, IsUpTo
  <1> HIDE DEF f
  <1> DEFINE S == {n \in Nat : n <= N => f[n] = g[n]}
  <1>3. 0 \in S
    <2>1. 0 \in 0..N OBVIOUS
    <2>2. f[0] = s.out BY <1>1, <2>1 DEF IsUpTo
    <2>3. g[0] = s.out BY <2>1 DEF IsUpTo
    <2> QED BY <2>2, <2>3
  <1>4. ASSUME NEW n \in S PROVE n + 1 \in S
    <2> SUFFICES ASSUME n + 1 <= N PROVE f[n + 1] = g[n + 1] OBVIOUS
    <2>1. n + 1 \in 0..N /\ n + 1 # 0 /\ (n + 1) - 1 = n OBVIOUS
    <2>2. f[n + 1] = IF n + 1 \in s.pending \ s.answered THEN Append(f[n], Result(n + 1))
                     ELSE f[n]
      BY <1>1, <2>1 DEF IsUpTo
    <2>3. g[n + 1] = IF n + 1 \in s.pending \ s.answered THEN Append(g[n], Result(n + 1))
                     ELSE g[n]
      BY <2>1 DEF IsUpTo
    <2>4. f[n] = g[n] OBVIOUS
    <2> QED BY <2>2, <2>3, <2>4
  <1> HIDE DEF S
  <1>5. S \in SUBSET Nat BY DEF S
  <1>6. N \in S BY <1>3, <1>4, <1>5, Induct
  <1>7. f[N] = g[N] BY <1>6 DEF S
  <1> QED BY <1>2, <1>7

Unsent == [out |-> <<>>, pending |-> {}, answered |-> {}]

IsAfter(msgs, f) ==
    f = [n \in 0..Len(msgs) |-> IF n = 0 THEN [out |-> <<>>, pending |-> {}, answered |-> {}]
                                ELSE TransformOne(f[n - 1], msgs[n])]

LEMMA TransformIs ==
    ASSUME NEW msgs, Len(msgs) \in Nat, NEW g, IsAfter(msgs, g)
    PROVE  TransformMessages(msgs) = WithSynthetic(g[Len(msgs)]).out
  <1> DEFINE f == CHOOSE h : IsAfter(msgs, h)
             L == Len(msgs)
  <1>1. IsAfter(msgs, f) OBVIOUS
  <1>2. TransformMessages(msgs) = WithSynthetic(f[L]).out
    BY DEF TransformMessages, IsAfter
  <1> HIDE DEF f
  <1> DEFINE S == {n \in Nat : n <= L => f[n] = g[n]}
  <1>3. 0 \in S
    <2>1. 0 \in 0..L OBVIOUS
    <2>2. f[0] = Unsent BY <1>1, <2>1 DEF IsAfter, Unsent
    <2>3. g[0] = Unsent BY <2>1 DEF IsAfter, Unsent
    <2> QED BY <2>2, <2>3
  <1>4. ASSUME NEW n \in S PROVE n + 1 \in S
    <2> SUFFICES ASSUME n + 1 <= L PROVE f[n + 1] = g[n + 1] OBVIOUS
    <2>1. n + 1 \in 0..L /\ n + 1 # 0 /\ (n + 1) - 1 = n OBVIOUS
    <2>2. f[n + 1] = TransformOne(f[n], msgs[n + 1]) BY <1>1, <2>1 DEF IsAfter
    <2>3. g[n + 1] = TransformOne(g[n], msgs[n + 1]) BY <2>1 DEF IsAfter
    <2>4. f[n] = g[n] OBVIOUS
    <2> QED BY <2>2, <2>3, <2>4
  <1> HIDE DEF S
  <1>5. S \in SUBSET Nat BY DEF S
  <1>6. L \in S BY <1>3, <1>4, <1>5, Induct
  <1>7. f[L] = g[L] BY <1>6 DEF S
  <1> QED BY <1>2, <1>7

(* With nothing pending nothing is inserted; after the results of the first *)
(* m calls the results of the others are.                                   *)
Sent(out) == [out |-> out, pending |-> {}, answered |-> {}]
Partial(m) == [out |-> Body(m), pending |-> Calls, answered |-> 1..m]

LEMMA NothingPending == ASSUME NEW out PROVE WithSynthetic(Sent(out)) = Sent(out)
  <1> USE BatchAssumption
  <1> DEFINE s == Sent(out)
             g == [i \in 0..N |-> out]
  <1>1. s.out = out /\ s.pending = {} BY DEF Sent
  <1>2. \A i \in 0..N : i # 0 => g[i - 1] = out OBVIOUS
  <1>3. IsUpTo(s, g)
    <2>1. [i \in 0..N |-> IF i = 0 THEN s.out
                        ELSE IF i \in s.pending \ s.answered THEN Append(g[i - 1], Result(i))
                        ELSE g[i - 1]] = [i \in 0..N |-> out]
      BY <1>1, <1>2
    <2> QED BY <2>1 DEF IsUpTo
  <1>4. g[N] = out OBVIOUS
  <1> HIDE DEF s, g
  <1> QED BY <1>3, <1>4, SyntheticIs DEF s, Sent

LEMMA RestInserted == ASSUME NEW m \in 0..N PROVE WithSynthetic(Partial(m)) = Sent(Body(N))
  <1> USE BatchAssumption
  <1> DEFINE s == Partial(m)
             g == [i \in 0..N |-> IF i <= m THEN Body(m) ELSE Body(i)]
  <1>1. s.out = Body(m) /\ s.pending \ s.answered = {i \in Calls : ~(i <= m)}
    BY DEF Partial, Calls
  <1>2. ASSUME NEW i \in 0..N
        PROVE  g[i] = IF i = 0 THEN s.out
                      ELSE IF i \in s.pending \ s.answered THEN Append(g[i - 1], Result(i))
                      ELSE g[i - 1]
    <2>1. CASE i = 0 BY <1>1, <2>1
    <2>2. CASE i # 0 /\ i <= m
      <3>1. i - 1 \in 0..N /\ i - 1 <= m BY <2>2
      <3>2. g[i] = Body(m) /\ g[i - 1] = Body(m) BY <2>2, <3>1
      <3>3. i \notin s.pending \ s.answered BY <1>1, <2>2
      <3> HIDE DEF g, s
      <3> QED BY <2>2, <3>2, <3>3
    <2>3. CASE i # 0 /\ ~(i <= m)
      <3>1. i - 1 \in 0..N /\ i - 1 < N /\ (i - 1) + 1 = i /\ i \in Calls
        BY <2>3 DEF Calls
      <3>2. g[i - 1] = Body(i - 1)
        <4>1. CASE i - 1 <= m
          <5>1. i - 1 = m BY <2>3, <4>1
          <5> QED BY <3>1, <4>1, <5>1
        <4>2. CASE ~(i - 1 <= m) BY <3>1, <4>2
        <4> QED BY <4>1, <4>2
      <3>3. g[i] = Body(i) BY <2>3
      <3>4. i \in s.pending \ s.answered BY <1>1, <2>3, <3>1
      <3> HIDE DEF g, s
      <3>5. Append(Body(i - 1), Result((i - 1) + 1)) = Body((i - 1) + 1) BY <3>1, BodyFacts
      <3>6. Append(Body(i - 1), Result(i)) = Body(i) BY <3>1, <3>5
      <3> QED BY <2>3, <3>2, <3>3, <3>4, <3>6
    <2> QED BY <2>1, <2>2, <2>3
  <1>3. g[N] = Body(N)
    <2>1. CASE N <= m
      <3>1. m = N BY <2>1
      <3> QED BY <3>1
    <2>2. CASE ~(N <= m) BY <2>2
    <2> QED BY <2>1, <2>2
  <1>4. g = [i \in 0..N |-> g[i]] OBVIOUS
  <1> HIDE DEF g, s
  <1>5. IsUpTo(s, g)
    <2>1. [i \in 0..N |-> g[i]]
            = [i \in 0..N |-> IF i = 0 THEN s.out
                              ELSE IF i \in s.pending \ s.answered
                                   THEN Append(g[i - 1], Result(i)) ELSE g[i - 1]]
      BY <1>2
    <2> QED BY <1>4, <2>1 DEF IsUpTo
  <1> QED BY <1>3, <1>5, SyntheticIs DEF s, Sent

(* One message at a time. *)
LEMMA OneMessage ==
    /\ TransformOne(Unsent, AssistantMessage) = Partial(0)
    /\ \A m \in 0..N : m < N => TransformOne(Partial(m), Result(m + 1)) = Partial(m + 1)
    /\ \A m \in 0..N : TransformOne(Partial(m), FailureMessage) = Sent(Body(N))
    /\ \A m \in 0..N : TransformOne(Partial(m), UserMessage)
                            = Sent(Append(Body(N), UserMessage))
    /\ TransformOne(Sent(Body(N)), UserMessage) = Sent(Append(Body(N), UserMessage))
  <1> USE BatchAssumption
  <1>s. ASSUME NEW out
        PROVE  [Sent(out) EXCEPT !.out = Append(@, UserMessage)] = Sent(Append(out, UserMessage))
    <2>1. Sent(out).out = out BY DEF Sent
    <2>2. ASSUME NEW longer PROVE [Sent(out) EXCEPT !.out = longer] = Sent(longer)
      BY DEF Sent
    <2> QED BY <2>1, <2>2, Zenon
  <1>1. TransformOne(Unsent, AssistantMessage) = Partial(0)
    <2>1. Unsent = Sent(<<>>) BY DEF Unsent, Sent
    <2>2. TransformOne(Unsent, AssistantMessage)
            = [out |-> Append(WithSynthetic(Unsent).out, AssistantMessage),
               pending |-> Calls, answered |-> {}]
      BY DEF TransformOne, AssistantMessage
    <2>3. WithSynthetic(Unsent).out = <<>> BY <2>1, NothingPending DEF Sent
    <2>4. Append(<<>>, AssistantMessage) = Body(0)
      <3>1. /\ Append(<<>>, AssistantMessage) \in Seq(Entries)
            /\ Len(Append(<<>>, AssistantMessage)) = 1
            /\ Append(<<>>, AssistantMessage)[1] = AssistantMessage
        BY EmptySeq, AppendProperties DEF Entries
      <3>2. Body(0) \in Seq(Entries) /\ Len(Body(0)) = 1
        <4>1. PICK m \in 0..N : m = 0 OBVIOUS
        <4>2. Body(m) \in Seq(Entries) /\ Len(Body(m)) = m + 1 BY BodyFacts
        <4> QED BY <4>1, <4>2
      <3>3. Body(0)[1] = AssistantMessage BY DEF Body
      <3> QED BY <3>1, <3>2, <3>3, SeqEqual
    <2>5. 1..0 = {} OBVIOUS
    <2> QED BY <2>2, <2>3, <2>4, <2>5 DEF Partial
  <1>2. ASSUME NEW m \in 0..N, m < N
        PROVE  TransformOne(Partial(m), Result(m + 1)) = Partial(m + 1)
    <2>1. Append(Body(m), Result(m + 1)) = Body(m + 1) BY <1>2, BodyFacts
    <2>2. (1..m) \cup {m + 1} = 1..(m + 1) OBVIOUS
    <2>3. TransformOne(Partial(m), Result(m + 1))
            = [out |-> Append(Body(m), Result(m + 1)), pending |-> Calls,
               answered |-> (1..m) \cup {m + 1}]
      BY DEF TransformOne, Partial, Result
    <2> QED BY <2>1, <2>2, <2>3 DEF Partial
  <1>3. ASSUME NEW m \in 0..N
        PROVE  /\ TransformOne(Partial(m), FailureMessage) = Sent(Body(N))
               /\ TransformOne(Partial(m), UserMessage) = Sent(Append(Body(N), UserMessage))
    <2>1. WithSynthetic(Partial(m)) = Sent(Body(N)) BY RestInserted
    <2>2. TransformOne(Partial(m), FailureMessage) = WithSynthetic(Partial(m))
      BY DEF TransformOne, FailureMessage
    <2>3. TransformOne(Partial(m), UserMessage)
            = [WithSynthetic(Partial(m)) EXCEPT !.out = Append(@, UserMessage)]
      BY DEF TransformOne, UserMessage
    <2>4. [Sent(Body(N)) EXCEPT !.out = Append(@, UserMessage)]
            = Sent(Append(Body(N), UserMessage))
      BY <1>s, Zenon
    <2> QED BY <2>1, <2>2, <2>3, <2>4
  <1>4. TransformOne(Sent(Body(N)), UserMessage) = Sent(Append(Body(N), UserMessage))
    <2>1. WithSynthetic(Sent(Body(N))) = Sent(Body(N)) BY NothingPending
    <2>2. TransformOne(Sent(Body(N)), UserMessage)
            = [WithSynthetic(Sent(Body(N))) EXCEPT !.out = Append(@, UserMessage)]
      BY DEF TransformOne, UserMessage
    <2>3. [Sent(Body(N)) EXCEPT !.out = Append(@, UserMessage)]
            = Sent(Append(Body(N), UserMessage))
      BY <1>s, Zenon
    <2> QED BY <2>1, <2>2, <2>3
  <1> QED BY <1>1, <1>2, <1>3, <1>4

(* Whatever the end of the run added, the next request is the same. *)
LEMMA RequestIs ==
    ASSUME NEW m \in 0..N,
           \/ transcript = Append(Body(m), UserMessage)
           \/ transcript = Append(Append(Body(m), FailureMessage), UserMessage)
    PROVE  TransformMessages(transcript) = Append(Body(N), UserMessage)
  <1> USE BatchAssumption
  <1> DEFINE b == Body(m)
             L == Len(transcript)
             request == Append(Body(N), UserMessage)
  <1>1. /\ b \in Seq(Entries) /\ Len(b) = m + 1 /\ m \in Nat
        /\ FailureMessage \in Entries /\ UserMessage \in Entries
    <2>1. FailureMessage \in Entries /\ UserMessage \in Entries BY DEF Entries
    <2> QED BY <2>1, BodyFacts
  <1>2. b[1] = AssistantMessage /\ \A k \in 2..(m + 1) : b[k] = Result(k - 1)
    BY <1>1 DEF Body
  <1> HIDE DEF b, request
  (* It is enough to give the states between the messages. *)
  <1>3. ASSUME L \in Nat, NEW g, g = [n \in 0..L |-> g[n]], g[0] = Unsent,
               \A n \in 1..L : g[n] = TransformOne(g[n - 1], transcript[n]),
               g[L] = Sent(request)
        PROVE  TransformMessages(transcript) = request
    <2>1. \A n \in 0..L : g[n] = IF n = 0 THEN [out |-> <<>>, pending |-> {}, answered |-> {}]
                                 ELSE TransformOne(g[n - 1], transcript[n])
      <3> TAKE n \in 0..L
      <3>1. CASE n = 0 BY <1>3, <3>1 DEF Unsent
      <3>2. CASE n # 0
        <4>1. n \in 1..L BY <1>3, <3>2
        <4> HIDE DEF L
        <4> QED BY <1>3, <3>2, <4>1
      <3> QED BY <3>1, <3>2
    <2>2. [n \in 0..L |-> g[n]]
            = [n \in 0..L |-> IF n = 0 THEN [out |-> <<>>, pending |-> {}, answered |-> {}]
                              ELSE TransformOne(g[n - 1], transcript[n])]
      BY <2>1
    <2>3. IsAfter(transcript, g) BY <1>3, <2>2 DEF IsAfter
    <2>4. TransformMessages(transcript) = WithSynthetic(Sent(request)).out
      BY <1>3, <2>3, TransformIs
    <2> QED BY <2>4, NothingPending DEF Sent
  <1>4. ASSUME NEW k \in 1..(m + 1)
        PROVE  TransformOne(IF k = 1 THEN Unsent ELSE Partial(k - 2), b[k]) = Partial(k - 1)
    <2>1. CASE k = 1 BY <1>2, <2>1, OneMessage
    <2>2. CASE k # 1
      <3>1. k - 2 \in 0..N /\ k - 2 < N /\ (k - 2) + 1 = k - 1 /\ k \in 2..(m + 1)
        BY <1>1, <2>2
      <3>2. TransformOne(Partial(k - 2), Result((k - 2) + 1)) = Partial((k - 2) + 1)
        BY <3>1, OneMessage
      <3> QED BY <1>2, <2>2, <3>1, <3>2
    <2> QED BY <2>1, <2>2
  <1>5. CASE transcript = Append(b, UserMessage)
    <2>1. /\ L = m + 2 /\ transcript[m + 2] = UserMessage
          /\ \A k \in 1..(m + 1) : transcript[k] = b[k]
      BY <1>1, <1>5, AppendProperties
    <2> HIDE DEF L
    <2> DEFINE g == [n \in 0..L |-> IF n = 0 THEN Unsent
                                    ELSE IF n <= m + 1 THEN Partial(n - 1)
                                    ELSE Sent(request)]
    <2>2. g = [n \in 0..L |-> g[n]] OBVIOUS
    <2>3. g[0] = Unsent /\ g[L] = Sent(request) BY <1>1, <2>1
    <2>4. \A n \in 1..(m + 1) : g[n] = Partial(n - 1) BY <1>1, <2>1
    <2> HIDE DEF g
    <2>5. ASSUME NEW n \in 1..L PROVE g[n] = TransformOne(g[n - 1], transcript[n])
      <3>1. CASE n = m + 2
        <4>1. g[n - 1] = Partial(m) BY <1>1, <2>4, <3>1
        <4>2. TransformOne(Partial(m), UserMessage) = Sent(request)
          BY OneMessage DEF request
        <4> QED BY <2>1, <2>3, <3>1, <4>1, <4>2
      <3>2. CASE n # m + 2
        <4>1. n \in 1..(m + 1) /\ n - 1 - 1 = n - 2 BY <1>1, <2>1, <3>2
        <4>2. g[n - 1] = IF n = 1 THEN Unsent ELSE Partial(n - 2)
          <5>1. CASE n = 1 BY <2>3, <5>1
          <5>2. CASE n # 1
            <6>1. n - 1 \in 1..(m + 1) BY <1>1, <4>1, <5>2
            <6> QED BY <2>4, <4>1, <5>2, <6>1
          <5> QED BY <5>1, <5>2
        <4> QED BY <1>4, <2>1, <2>4, <4>1, <4>2
      <3> QED BY <3>1, <3>2
    <2>6. L \in Nat BY <1>1, <2>1
    <2> QED BY <1>3, <2>2, <2>3, <2>5, <2>6 DEF L, request
  <1>6. CASE transcript = Append(Append(b, FailureMessage), UserMessage)
    <2> DEFINE c == Append(b, FailureMessage)
    <2>1. /\ c \in Seq(Entries) /\ Len(c) = m + 2 /\ c[m + 2] = FailureMessage
          /\ \A k \in 1..(m + 1) : c[k] = b[k]
      BY <1>1, AppendProperties
    <2> HIDE DEF c
    <2>2. transcript = Append(c, UserMessage) BY <1>6 DEF c
    <2>3. /\ L = m + 3 /\ transcript[m + 3] = UserMessage
          /\ \A k \in 1..(m + 2) : transcript[k] = c[k]
      BY <1>1, <2>1, <2>2, AppendProperties
    <2>4. /\ transcript[m + 2] = FailureMessage
          /\ \A k \in 1..(m + 1) : transcript[k] = b[k]
      BY <1>1, <2>1, <2>3
    <2> HIDE DEF L
    <2> DEFINE g == [n \in 0..L |-> IF n = 0 THEN Unsent
                                    ELSE IF n <= m + 1 THEN Partial(n - 1)
                                    ELSE IF n = m + 2 THEN Sent(Body(N))
                                    ELSE Sent(request)]
    <2>5. g = [n \in 0..L |-> g[n]] OBVIOUS
    <2>6. g[0] = Unsent /\ g[m + 2] = Sent(Body(N)) /\ g[L] = Sent(request)
      BY <1>1, <2>3
    <2>7. \A n \in 1..(m + 1) : g[n] = Partial(n - 1) BY <1>1, <2>3
    <2> HIDE DEF g
    <2>8. ASSUME NEW n \in 1..L PROVE g[n] = TransformOne(g[n - 1], transcript[n])
      <3>1. CASE n = m + 3
        <4>1. n - 1 = m + 2 BY <1>1, <3>1
        <4>2. TransformOne(Sent(Body(N)), UserMessage) = Sent(request)
          BY OneMessage DEF request
        <4> QED BY <2>3, <2>6, <3>1, <4>1, <4>2
      <3>2. CASE n = m + 2
        <4>1. n - 1 \in 1..(m + 1) /\ n - 1 - 1 = m BY <1>1, <3>2
        <4>2. g[n - 1] = Partial(m) BY <2>7, <4>1
        <4>3. TransformOne(Partial(m), FailureMessage) = Sent(Body(N)) BY OneMessage
        <4> QED BY <2>4, <2>6, <3>2, <4>2, <4>3
      <3>3. CASE n # m + 2 /\ n # m + 3
        <4>1. n \in 1..(m + 1) /\ n - 1 - 1 = n - 2 BY <1>1, <2>3, <3>3
        <4>2. g[n - 1] = IF n = 1 THEN Unsent ELSE Partial(n - 2)
          <5>1. CASE n = 1 BY <2>6, <5>1
          <5>2. CASE n # 1
            <6>1. n - 1 \in 1..(m + 1) BY <1>1, <4>1, <5>2
            <6> QED BY <2>7, <4>1, <5>2, <6>1
          <5> QED BY <5>1, <5>2
        <4> QED BY <1>4, <2>4, <2>7, <4>1, <4>2
      <3> QED BY <3>1, <3>2, <3>3
    <2>9. L \in Nat BY <1>1, <2>3
    <2> QED BY <1>3, <2>5, <2>6, <2>8, <2>9 DEF L, request
  <1> QED BY <1>5, <1>6 DEF b, request

LEMMA InvRequestWellFormed == IInv /\ ResultsInv => RequestWellFormed
  <1> SUFFICES ASSUME ResultsInv, batch = "over"
               PROVE  LET out == TransformMessages(transcript) IN
                      /\ Len(out) = N + 2
                      /\ out[1] = AssistantMessage /\ out[N + 2] = UserMessage
                      /\ {out[k] : k \in 2..(N + 1)} = {Result(i) : i \in Calls}
    BY DEF RequestWellFormed
  <1> USE BatchAssumption
  <1> DEFINE out == TransformMessages(transcript)
  <1>1. out = Append(Body(N), UserMessage) BY RequestIs DEF ResultsInv, ShapeInv
  <1> HIDE DEF out
  <1>2. Body(N) \in Seq(Entries) /\ Len(Body(N)) = N + 1 /\ UserMessage \in Entries
    <2>1. UserMessage \in Entries BY DEF Entries
    <2>2. N \in 0..N OBVIOUS
    <2> QED BY <2>1, <2>2, BodyFacts
  <1>3. /\ Len(out) = N + 2 /\ out[N + 2] = UserMessage
        /\ \A k \in 1..(N + 1) : out[k] = Body(N)[k]
    BY <1>1, <1>2, AppendProperties
  <1>4. out[1] = AssistantMessage BY <1>3 DEF Body
  <1>5. \A k \in 2..(N + 1) : out[k] = Result(k - 1) BY <1>3 DEF Body
  <1>6. {out[k] : k \in 2..(N + 1)} = {Result(i) : i \in Calls}
    <2>1. ASSUME NEW k \in 2..(N + 1) PROVE \E i \in Calls : out[k] = Result(i)
      <3>1. k - 1 \in Calls BY DEF Calls
      <3> QED BY <1>5, <3>1
    <2>2. ASSUME NEW i \in Calls PROVE \E k \in 2..(N + 1) : out[k] = Result(i)
      <3>1. i + 1 \in 2..(N + 1) /\ (i + 1) - 1 = i BY DEF Calls
      <3>2. out[i + 1] = Result(i) BY <1>5, <3>1
      <3> QED BY <3>1, <3>2
    <2> QED BY <2>1, <2>2
  <1> QED BY <1>3, <1>4, <1>6 DEF out

(* Whatever interrupted the batch, the next request has one result for each *)
(* call of the assistant message: transformMessages inserts those missing.  *)
THEOREM BatchRequestWellFormed == Spec => []RequestWellFormed
  BY InvRequestWellFormed, ResultsInvariance, PTL

=============================================================================
