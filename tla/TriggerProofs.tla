----------------------------- MODULE TriggerProofs -----------------------------
(***************************************************************************)
(* What is proved about a trigger on its way through the harness: which    *)
(* triggers the runtime accepts (TriggerRuntime), and what becomes of an   *)
(* accepted one (TriggerExecution).  The two specifications have no        *)
(* variable in common; the runtime's names carry its prefix.               *)
(***************************************************************************)
EXTENDS TriggerRuntime, TriggerExecution, SequenceTheorems, TLAPS

-----------------------------------------------------------------------------
(* TriggerExecution: any triggers, hooks, failing callbacks and aborts; the *)
(* properties that the code keeps only under a condition on its             *)
(* surroundings are proved under that condition.                            *)

(* Terminal events against stages: none before the report, one from then   *)
(* on, a second only if the promotion escapes.                             *)
EndOf(t) ==
    /\ stage[t] \notin PromoteStages \cup {"done"} => ended[t] = <<>>
    /\ stage[t] \in PromoteStages => Len(ended[t]) = 1
    /\ stage[t] = "done" => ended[t] # <<>>
    /\ t \notin escaped => Len(ended[t]) <= 1
    /\ t \in escaped => /\ stage[t] = "done"
                        /\ Len(ended[t]) <= 2 /\ Last(ended[t]) = "failed"

EndInv == \A t \in Triggers : EndOf(t)

(* What a racing select can look like: the microtasks queued, the outcomes *)
(* recorded, whether it is cancelled and whether the run has settled.  A   *)
(* cancellation that came too late stands behind the check.                *)
Race(t, q, seen, c, over) ==
    /\ jobs[t] = q /\ recorded[t] = seen
    /\ t \in cancelled <=> c
    /\ result[t] # "none" <=> over

RaceOf(t) ==
    \/ Race(t, <<>>, {}, FALSE, FALSE)
    \/ Race(t, <<"run">>, {}, FALSE, TRUE)
    \/ Race(t, <<"check">>, {"run"}, FALSE, TRUE)
    \/ Race(t, <<"check", "cancel">>, {"run"}, TRUE, TRUE) /\ t \notin doomed
    \/ Race(t, <<"cancel">>, {}, TRUE, FALSE)
    \/ Race(t, <<"check">>, {"cancel"}, TRUE, FALSE)
    \/ Race(t, <<"run", "cancel">>, {}, TRUE, TRUE)
    \/ Race(t, <<"cancel", "run">>, {}, TRUE, TRUE)
    \/ Race(t, <<"cancel", "check">>, {"run"}, TRUE, TRUE)
    \/ Race(t, <<"run", "check">>, {"cancel"}, TRUE, TRUE)
    \/ Race(t, <<"check", "run">>, {"cancel"}, TRUE, TRUE)
    \/ Race(t, <<"check">>, {"cancel", "run"}, TRUE, TRUE)

Unsettled == HandlingStages \cup {"unsent", "queued", "resolving", "preparing"}

RaceInv ==
    \A t \in Triggers :
        /\ stage[t] = "racing" => RaceOf(t)
        /\ stage[t] # "racing" => recorded[t] = {}
        /\ stage[t] \in Unsettled => result[t] = "none"

(* The microtasks run in the order they were queued: a cancellation queued *)
(* before the run's outcome was recorded is recorded before any check.     *)
DoomStages == SelectStages \cup {"reporting", "done"} \cup PromoteStages

DoomOf(t) ==
    /\ t \in cancelled
    /\ stage[t] \in DoomStages
    /\ stage[t] = "reporting" => result[t] = "aborted"
    /\ "completed" \notin Range(ended[t])

DoomInv == \A t \in doomed : DoomOf(t)

(* A pump takes only triggers of its hook and handles one at a time. *)
SerialInv ==
    /\ \A h \in Hooks : \A k \in DOMAIN queue[h] : HookOf[queue[h][k]] = h
    /\ \A t \in Triggers : stage[t] \in HandlingStages => pump[HookOf[t]] = "handling"
    /\ \A t, u \in Triggers :
          stage[t] \in HandlingStages /\ stage[u] \in HandlingStages /\ HookOf[t] = HookOf[u]
          => t = u

(* An open prompt has the slot until somebody else writes it. *)
PromptInv ==
    /\ \A t \in Triggers : stage[t] = "prompting" /\ t \notin crossed => hookSlot = t
    /\ hookSlot \in Triggers => stage[hookSlot] = "prompting"
    /\ \A t \in owed : stage[t] = "prompting"
    /\ owed \ crossed \subseteq promptAborted

(* With one notification hook and no turn-end hook nobody else does. *)
OneUser == (\A g, h \in Hooks : g = h) /\ ~TurnEndHook

AloneInv == crossed = {} /\ \A r \in Runs : parent[r] \notin {"building", "open"}

(* With a trace for each trigger an entry is its own trigger's. *)
OwnTraces == \A t, u \in Triggers : TraceOf[t] = TraceOf[u] => t = u

RegInv ==
    /\ RegistryExact
    /\ \A c \in Traces : running[c] # NoTrigger => TraceOf[running[c]] = c

(* Only a sub-agent has a select. *)
SelectInv == \A t \in Triggers : stage[t] \in SelectStages => SubAgent(t)

(* The places of a message share none, and its trigger is past issuing it. *)
IssuedAt(why) == IF why = "inject"
                 THEN {"announcing", "appending", "done"}
                 ELSE {"announcing_promotion", "appending_promotion", "done"}

Apart ==
    /\ IsInjective(session) /\ IsInjective(followUp)
    /\ Range(session) \cap Range(followUp) = {}
    /\ (Range(session) \cup Range(followUp)) \cap (InHand \cup dropped) = {}
    /\ InHand \cap dropped = {}

Places == Range(session) \cup Range(followUp) \cup InHand \cup dropped

MessageInv ==
    /\ Apart
    /\ Places = issued
    /\ \A m \in issued : stage[m.trigger] \in IssuedAt(m.why)

IInv ==
    /\ TypeOK /\ EndInv /\ RaceInv /\ DoomInv /\ SerialInv /\ SelectInv
    /\ MessageInv /\ PromptInv
    /\ OneUser => AloneInv
    /\ OwnTraces => RegInv

-----------------------------------------------------------------------------
LEMMA RangeAppend ==
    ASSUME NEW S, NEW s \in Seq(S), NEW e \in S
    PROVE  Range(Append(s, e)) = Range(s) \cup {e}
  <1>1. Append(s, e) = s \o <<e>> BY AppendIsConcat
  <1>2. <<e>> \in Seq(S) /\ Len(<<e>>) = 1 /\ <<e>>[1] = e OBVIOUS
  <1>3. Range(<<e>>) = {e}
    <2>1. DOMAIN <<e>> = {1} OBVIOUS
    <2> QED BY <1>2, <2>1 DEF Range
  <1>4. Range(s \o <<e>>) = Range(s) \cup Range(<<e>>)
    BY <1>2, RangeConcatenation
  <1> QED BY <1>1, <1>3, <1>4

LEMMA InjectiveAppend ==
    ASSUME NEW S, NEW s \in Seq(S), NEW e \in S, IsInjective(s), e \notin Range(s)
    PROVE  IsInjective(Append(s, e))
  <1> DEFINE r == Append(s, e)
  <1>1. /\ DOMAIN r = DOMAIN s \cup {Len(s) + 1} /\ Len(s) + 1 \notin DOMAIN s
        /\ \A i \in DOMAIN s : r[i] = s[i]
        /\ r[Len(s) + 1] = e
    BY AppendProperties, LenProperties
  <1> HIDE DEF r
  <1>2. \A i \in DOMAIN s : r[i] # e BY <1>1 DEF Range
  <1> QED BY <1>1, <1>2 DEF IsInjective, r

LEMMA InjectiveConcat ==
    ASSUME NEW S, NEW s \in Seq(S), NEW q \in Seq(S), IsInjective(s), IsInjective(q),
           Range(s) \cap Range(q) = {}
    PROVE  IsInjective(s \o q)
  <1> DEFINE r == s \o q
  <1>1. Len(s) \in Nat /\ DOMAIN s = 1..Len(s) /\ Len(q) \in Nat /\ DOMAIN q = 1..Len(q)
    BY LenProperties
  <1>2. DOMAIN r = 1..(Len(s) + Len(q)) BY ConcatProperties, LenProperties
  <1>3. \A i \in DOMAIN r : IF i <= Len(s) THEN r[i] = s[i] ELSE r[i] = q[i - Len(s)]
    BY <1>1, <1>2, ConcatProperties
  <1> HIDE DEF r
  <1>4. \A i \in DOMAIN r : i > Len(s) => i - Len(s) \in DOMAIN q BY <1>1, <1>2
  <1>5. \A i \in DOMAIN r : i <= Len(s) => i \in DOMAIN s BY <1>1, <1>2
  <1>6. ASSUME NEW i \in DOMAIN r, NEW j \in DOMAIN r, i <= Len(s), ~(j <= Len(s))
        PROVE  r[i] # r[j]
    <2>1. i \in DOMAIN s /\ r[i] = s[i] BY <1>3, <1>5, <1>6
    <2>2. j \in Nat /\ j > Len(s) BY <1>1, <1>2, <1>6
    <2>3. j - Len(s) \in DOMAIN q /\ r[j] = q[j - Len(s)] BY <1>3, <1>4, <1>6, <2>2
    <2>4. s[i] \in Range(s) /\ q[j - Len(s)] \in Range(q) BY <2>1, <2>3 DEF Range
    <2> QED BY <2>1, <2>3, <2>4
  <1>7. \A i, j \in DOMAIN r : i <= Len(s) /\ j <= Len(s) /\ r[i] = r[j] => i = j
    BY <1>3, <1>5 DEF IsInjective
  <1>8. ASSUME NEW i \in DOMAIN r, NEW j \in DOMAIN r, ~(i <= Len(s)), ~(j <= Len(s)), r[i] = r[j]
        PROVE  i = j
    <2>1. i - Len(s) \in DOMAIN q /\ j - Len(s) \in DOMAIN q BY <1>1, <1>2, <1>4, <1>8
    <2>2. q[i - Len(s)] = q[j - Len(s)] BY <1>3, <1>8
    <2>3. i - Len(s) = j - Len(s) BY <2>1, <2>2 DEF IsInjective
    <2> QED BY <1>1, <1>2, <2>3
  <1>9. \A i, j \in DOMAIN r : r[i] = r[j] => i = j BY <1>6, <1>7, <1>8
  <1> QED BY <1>9 DEF IsInjective, r

LEMMA InitInv == Init => IInv
  <1> SUFFICES ASSUME Init PROVE IInv OBVIOUS
  <1> USE TriggerAssumption
  <1>1. TypeOK
    <2>1. queue \in [Hooks -> Seq(Triggers)] BY EmptySeq DEF Init
    <2>2. followUp \in Seq(Messages) /\ session \in Seq(Messages) BY EmptySeq DEF Init
    <2>3. ended \in [Triggers -> Seq({"completed", "failed"})] BY EmptySeq DEF Init
    <2>4. stage \in [Triggers -> Stages] BY DEF Init, Stages
    <2>5. action \in [Triggers -> [delivery : DeliveryKinds, promote : BOOLEAN]]
      BY DEF Init, DeliveryKinds
    <2>6. /\ pump \in [Hooks -> {"waiting", "handling", "exited"}]
          /\ answer \in [Triggers -> {"none", "suppressed", "allow", "deny", "prompt", "approved", "rejected"}]
          /\ result \in [Triggers -> {"none", "ok", "failed", "aborted"}]
          /\ running \in [Traces -> Triggers \cup {NoTrigger}]
      BY DEF Init
    <2>7. runs \in 0..MaxRuns /\ aborts \in 0..MaxAborts BY DEF Init
    <2>8. jobs \in [Triggers -> Seq({"cancel", "run", "check"})] BY EmptySeq DEF Init
    <2>9. /\ recorded \in [Triggers -> SUBSET {"cancel", "run"}]
          /\ parent \in [Runs -> {"none", "looping", "ending", "compacting", "building", "open"}]
      BY DEF Init
    <2> QED BY <2>1, <2>2, <2>3, <2>4, <2>5, <2>6, <2>7, <2>8, <2>9 DEF Init, TypeOK
  <1>2. EndInv BY EmptySeq DEF Init, EndInv, EndOf, PromoteStages
  <1>3. DoomInv /\ RaceInv BY DEF Init, DoomInv, RaceInv
  <1>4. SerialInv BY DEF Init, SerialInv, HandlingStages
  <1>5. PromptInv /\ AloneInv BY DEF Init, PromptInv, AloneInv
  <1>6. RegInv
    BY DEF Init, RegInv, RegistryExact, Live, SubAgent, SelectStages, PromoteStages
  <1>7. SelectInv BY DEF Init, SelectInv, SelectStages
  <1>8. MessageInv
    <2>1. Range(<<>>) = {} /\ IsInjective(<<>>) BY DEF Range, IsInjective
    <2>2. InHand = {} BY DEF Init, InHand, Messages
    <2> QED BY <2>1, <2>2 DEF Init, MessageInv, Apart, Places
  <1> QED BY <1>1, <1>2, <1>3, <1>4, <1>5, <1>6, <1>7, <1>8 DEF IInv

-----------------------------------------------------------------------------
(* Types *)

LEMMA TypeStep == TypeOK /\ [Next]_vars => TypeOK'
  <1> SUFFICES ASSUME TypeOK, [Next]_vars PROVE TypeOK' OBVIOUS
  <1> USE TriggerAssumption DEF pumpVars, gateVars, parentVars, runVars, PumpFails,
          slotVars, loopVars, messageVars, selectVars
  <1>0. \A t \in Triggers : /\ Message(t, "inject") \in Messages
                            /\ Message(t, "promote") \in Messages
    BY DEF Message, Messages
  <1>q. \A t \in Triggers, e \in {"completed", "failed"} :
            Append(ended[t], e) \in Seq({"completed", "failed"})
    BY AppendProperties DEF TypeOK
  <1>f. \A m \in Messages : Append(followUp, m) \in Seq(Messages)
    BY AppendProperties DEF TypeOK
  <1>s. \A m \in Messages : Append(session, m) \in Seq(Messages)
    BY AppendProperties DEF TypeOK
  <1>g. Range(followUp) \subseteq Messages BY RangeOfSeq DEF TypeOK
  <1> USE DEF TypeOK, HandlingStages, InjectStages, PromoteStages, SelectStages, Stages, Go
  <1>1. ASSUME NEW t \in Triggers, Notify(t) PROVE TypeOK'
    <2>1. queue' \in [Hooks -> Seq(Triggers)] BY <1>1, AppendProperties DEF Notify
    <2> QED BY <1>1, <2>1 DEF Notify
  <1>2. ASSUME NEW t \in Triggers, BeforeTriggerThrows(t) PROVE TypeOK'
    BY <1>2 DEF BeforeTriggerThrows
  <1>3. ASSUME NEW t \in Triggers, PromptThrows(t) PROVE TypeOK'
    BY <1>3 DEF PromptThrows, PromptOver, Crossing
  <1>4. ASSUME NEW t \in Triggers, NEW a \in {"allow", "deny", "prompt"},
               BeforeTriggerReturns(t, a) PROVE TypeOK'
    BY <1>4 DEF BeforeTriggerReturns
  <1>5. ASSUME NEW t \in Triggers, NEW a \in {"approved", "rejected"}, PromptReturns(t, a)
        PROVE TypeOK'
    BY <1>5 DEF PromptReturns, PromptOver, Crossing
  <1>6. ASSUME NEW t \in Triggers, NEW a \in [delivery : DeliveryKinds, promote : BOOLEAN],
               ResolveAction(t, a) PROVE TypeOK'
    <2>1. action' \in [Triggers -> [delivery : DeliveryKinds, promote : BOOLEAN]]
      BY <1>6 DEF ResolveAction
    <2>2. CASE /\ stage' = [stage EXCEPT ![t] = "reporting"]
               /\ result' = [result EXCEPT ![t] = "ok"]
               /\ UNCHANGED <<followUp, issued, running>>
      BY <1>6, <2>1, <2>2 DEF ResolveAction
    <2>3. CASE /\ Inject(t, "inject", "announcing", "appending")
               /\ UNCHANGED <<running, result>>
      <3>1. followUp' \in Seq(Messages)
        <4>1. followUp' \in {followUp, Append(followUp, Message(t, "inject"))}
          BY <2>3 DEF Inject
        <4>2. Append(followUp, Message(t, "inject")) \in Seq(Messages) BY <1>0, <1>f
        <4>3. followUp \in Seq(Messages) OBVIOUS
        <4> HIDE DEF TypeOK
        <4> QED BY <4>1, <4>2, <4>3
      <3>2. stage' \in [Triggers -> Stages] BY <2>3 DEF Inject
      <3>3. issued' \subseteq Messages
        <4>1. issued' = issued \cup {Message(t, "inject")} BY <2>3 DEF Inject
        <4>2. issued \subseteq Messages OBVIOUS
        <4> HIDE DEF TypeOK
        <4> QED BY <1>0, <4>1, <4>2
      <3> QED BY <1>6, <2>1, <2>3, <3>1, <3>2, <3>3 DEF ResolveAction
    <2>4. CASE /\ stage' = [stage EXCEPT ![t] = "preparing"]
               /\ running' = [running EXCEPT ![TraceOf[t]] = t]
               /\ UNCHANGED <<followUp, issued, result>>
      <3>1. running' \in [Traces -> Triggers \cup {NoTrigger}] BY <2>4
      <3> QED BY <1>6, <2>1, <2>4, <3>1 DEF ResolveAction
    <2> QED BY <1>6, <2>2, <2>3, <2>4 DEF ResolveAction
  <1>j. \A t \in Triggers : jobs[t] \in Seq({"cancel", "run", "check"}) BY DEF TypeOK
  <1>7. ASSUME NEW t \in Triggers, NEW r \in {"ok", "failed"}, SubAgentSettles(t, r)
        PROVE TypeOK'
    <2>1. jobs' \in [Triggers -> Seq({"cancel", "run", "check"})]
      BY <1>7, <1>j, AppendProperties DEF SubAgentSettles
    <2> QED BY <1>7, <2>1 DEF SubAgentSettles
  <1>30. ASSUME NEW t \in Triggers, Record(t) PROVE TypeOK'
    <2> DEFINE rest == Tail(jobs[t])
    <2>1. rest \in Seq({"cancel", "run", "check"}) /\ Head(jobs[t]) \in {"cancel", "run"}
      BY <1>30, <1>j, HeadTailProperties DEF Record
    <2>2. jobs' \in {[jobs EXCEPT ![t] = rest], [jobs EXCEPT ![t] = Append(rest, "check")]}
      BY <1>30 DEF Record
    <2> HIDE DEF rest
    <2>3. Append(rest, "check") \in Seq({"cancel", "run", "check"}) BY <2>1, AppendProperties
    <2>4. jobs' \in [Triggers -> Seq({"cancel", "run", "check"})]
      <3>1. PICK q \in Seq({"cancel", "run", "check"}) : jobs' = [jobs EXCEPT ![t] = q]
        BY <2>1, <2>2, <2>3
      <3>2. jobs \in [Triggers -> Seq({"cancel", "run", "check"})] OBVIOUS
      <3> HIDE DEF TypeOK
      <3> QED BY <3>1, <3>2
    <2>5. recorded' \in [Triggers -> SUBSET {"cancel", "run"}] BY <1>30, <2>1 DEF Record
    <2> QED BY <1>30, <2>4, <2>5 DEF Record
  <1>8. ASSUME NEW t \in Triggers, Escapes(t) PROVE TypeOK'
    BY <1>8, <1>q DEF Escapes, Terminal
  <1>9. ASSUME NEW t \in Triggers, PromptBuilt(t) PROVE TypeOK'
    BY <1>9 DEF PromptBuilt, Crossing
  <1>10. ASSUME NEW t \in Triggers, Handled(t) PROVE TypeOK' BY <1>10 DEF Handled
  <1>11. ASSUME NEW t \in Triggers, Prepared(t) PROVE TypeOK'
    <2>1. <<>> \in Seq({"cancel", "run", "check"}) /\ <<"cancel">> \in Seq({"cancel", "run", "check"})
      OBVIOUS
    <2>2. jobs' \in [Triggers -> Seq({"cancel", "run", "check"})] BY <1>11, <2>1 DEF Prepared
    <2> QED BY <1>11, <2>2 DEF Prepared
  <1>12. ASSUME NEW t \in Triggers, SelectCommits(t) PROVE TypeOK'
    <2>1. <<>> \in Seq({"cancel", "run", "check"}) OBVIOUS
    <2>2. jobs' \in [Triggers -> Seq({"cancel", "run", "check"})]
      BY <1>12, <2>1 DEF SelectCommits
    <2> QED BY <1>12, <2>2 DEF SelectCommits
  <1>13. ASSUME NEW t \in Triggers, Report(t) PROVE TypeOK'
    <2>1. running' \in [Traces -> Triggers \cup {NoTrigger}]
      <3>1. running' \in {running, [running EXCEPT ![TraceOf[t]] = NoTrigger]}
        BY <1>13 DEF Report, Finish
      <3>2. running \in [Traces -> Triggers \cup {NoTrigger}] OBVIOUS
      <3> HIDE DEF TypeOK
      <3> QED BY <3>1, <3>2
    <2>2. ended' \in [Triggers -> Seq({"completed", "failed"})]
      BY <1>13, <1>q DEF Report, Terminal
    <2>3. PICK to \in {"promoting", "done"} : stage' = [stage EXCEPT ![t] = to]
      BY <1>13 DEF Report
    <2>4. stage' \in [Triggers -> Stages] BY <2>3
    <2> QED BY <1>13, <2>1, <2>2, <2>4 DEF Report
  <1>14. ASSUME NEW t \in Triggers, Promote(t) PROVE TypeOK'
    <2>1. followUp' \in {followUp, Append(followUp, Message(t, "promote"))}
      BY <1>14 DEF Promote, Inject
    <2>2. followUp' \in Seq(Messages)
      <3>1. Append(followUp, Message(t, "promote")) \in Seq(Messages) BY <1>0, <1>f
      <3>2. followUp \in Seq(Messages) OBVIOUS
      <3> HIDE DEF TypeOK
      <3> QED BY <2>1, <3>1, <3>2
    <2>3. stage' \in [Triggers -> Stages]
      <3>1. PICK to \in {"announcing_promotion", "appending_promotion"} :
                stage' = [stage EXCEPT ![t] = to]
        BY <1>14 DEF Promote, Inject
      <3> QED BY <3>1
    <2>4. issued' \subseteq Messages BY <1>0, <1>14 DEF Promote, Inject
    <2> QED BY <1>14, <2>2, <2>3, <2>4 DEF Promote
  <1>15. ASSUME NEW t \in Triggers, Injected(t) PROVE TypeOK'
    <2>1. session' \in Seq(Messages) /\ dropped' \subseteq Messages
      <3>1. /\ session' \in {session, Append(session, Message(t, "inject"))}
            /\ dropped' \in {dropped, dropped \cup {Message(t, "inject")}}
        BY <1>15 DEF Injected, AppendOrLose
      <3>2. session \in Seq(Messages) /\ dropped \subseteq Messages OBVIOUS
      <3> HIDE DEF TypeOK
      <3> QED BY <1>0, <1>s, <3>1, <3>2
    <2>2. ended' \in [Triggers -> Seq({"completed", "failed"})]
      BY <1>15, <1>q DEF Injected, Terminal
    <2>3. stage' \in [Triggers -> Stages] BY <1>15 DEF Injected
    <2> QED BY <1>15, <2>1, <2>2, <2>3 DEF Injected
  <1>16. ASSUME NEW t \in Triggers, Promoted(t) PROVE TypeOK'
    <2>1. session' \in Seq(Messages) /\ dropped' \subseteq Messages
      <3>1. /\ session' \in {session, Append(session, Message(t, "promote"))}
            /\ dropped' \in {dropped, dropped \cup {Message(t, "promote")}}
        BY <1>16 DEF Promoted, AppendOrLose
      <3>2. session \in Seq(Messages) /\ dropped \subseteq Messages OBVIOUS
      <3> HIDE DEF TypeOK
      <3> QED BY <1>0, <1>s, <3>1, <3>2
    <2>2. running' \in [Traces -> Triggers \cup {NoTrigger}] BY <1>16 DEF Promoted, Finish
    <2> QED BY <1>16, <2>1, <2>2 DEF Promoted
  <1>17. ASSUME NEW h \in Hooks, CloseHook(h) PROVE TypeOK' BY <1>17 DEF CloseHook
  <1>18. ASSUME NEW h \in Hooks, PumpExits(h) PROVE TypeOK' BY <1>18 DEF PumpExits
  <1>19. ASSUME NEW h \in Hooks, TakeTrigger(h) PROVE TypeOK'
    <2>1. Tail(queue[h]) \in Seq(Triggers) /\ Head(queue[h]) \in Triggers
      BY <1>19, HeadTailProperties DEF TakeTrigger
    <2>2. queue' \in [Hooks -> Seq(Triggers)] BY <1>19, <2>1 DEF TakeTrigger
    <2>3. PICK to \in {"asking", "auditing"} : stage' = [stage EXCEPT ![Head(queue[h])] = to]
      BY <1>19 DEF TakeTrigger
    <2>4. stage' \in [Triggers -> Stages] BY <2>1, <2>3
    <2>5. answer' \in [Triggers -> {"none", "suppressed", "allow", "deny", "prompt", "approved", "rejected"}]
      <3>1. answer' = answer \/ answer' = [answer EXCEPT ![Head(queue[h])] = "suppressed"]
        BY <1>19 DEF TakeTrigger
      <3> QED BY <3>1
    <2>6. pump' \in [Hooks -> {"waiting", "handling", "exited"}]
      BY <1>19 DEF TakeTrigger
    <2> QED BY <1>19, <2>2, <2>4, <2>5, <2>6 DEF TakeTrigger
  <1>20. ASSUME NEW S \in SUBSET Triggers, Cancel(S) PROVE TypeOK'
    <2>1. \A t \in Triggers : Append(jobs[t], "cancel") \in Seq({"cancel", "run", "check"})
      BY <1>j, AppendProperties
    <2>2. jobs' \in [Triggers -> Seq({"cancel", "run", "check"})]
      BY <1>20, <1>j, <2>1 DEF Cancel
    <2> QED BY <1>20, <2>2 DEF Cancel
  <1>21. ASSUME NEW c \in Traces, AbortTrigger(c) PROVE TypeOK'
    <2>1. {running[c]} \ {NoTrigger} \in SUBSET Triggers OBVIOUS
    <2> HIDE DEF TypeOK
    <2> QED BY <1>20, <1>21, <2>1 DEF AbortTrigger
  <1>22. CASE AbortAllTriggers
    <2>1. Registered \in SUBSET Triggers BY DEF Registered
    <2> HIDE DEF TypeOK
    <2> QED BY <1>20, <1>22, <2>1 DEF AbortAllTriggers
  <1>23. CASE Abort
    <2>1. followUp' \in Seq(Messages) BY <1>23, EmptySeq DEF Abort
    <2> QED BY <1>23, <1>g, <2>1 DEF Abort
  <1>24. ASSUME NEW r \in Runs, Poll(r) PROVE TypeOK'
    <2>1. followUp' \in Seq(Messages) BY <1>24, EmptySeq DEF Poll
    <2>2. session' \in Seq(Messages) BY <1>24, ConcatProperties DEF Poll
    <2>3. parent' \in [Runs -> {"none", "looping", "ending", "compacting", "building", "open"}]
      BY <1>24 DEF Poll
    <2> QED BY <1>24, <2>1, <2>2, <2>3 DEF Poll
  <1>25. ASSUME NEW r \in Runs, Settle(r) PROVE TypeOK' BY <1>25 DEF Settle
  <1>26. ASSUME NEW p \in Phases, Begin(p) PROVE TypeOK'
    <2>1. runs' \in 0..MaxRuns BY <1>26 DEF Begin
    <2>2. PICK to \in {"looping", "compacting"} : parent' = [parent EXCEPT ![runs + 1] = to]
      BY <1>26 DEF Begin
    <2>3. parent' \in [Runs -> {"none", "looping", "ending", "compacting", "building", "open"}]
      BY <2>2
    <2> QED BY <1>26, <2>1, <2>3 DEF Begin
  <1>31. ASSUME NEW r \in Runs, TurnEndBuilt(r) PROVE TypeOK'
    BY <1>31 DEF TurnEndBuilt, Crossing
  <1>32. ASSUME NEW r \in Runs, TurnEndReturns(r) PROVE TypeOK'
    <2>1. runs' \in 0..MaxRuns BY <1>32 DEF TurnEndReturns
    <2>2. parent' \in [Runs -> {"none", "looping", "ending", "compacting", "building", "open"}]
      <3>1. \/ parent' = [parent EXCEPT ![r] = "none"]
            \/ parent' = [parent EXCEPT ![r] = "none", ![runs + 1] = "looping"]
        BY <1>32 DEF TurnEndReturns
      <3> QED BY <3>1
    <2> QED BY <1>32, <2>1, <2>2 DEF TurnEndReturns, Crossing
  <1>33. ASSUME NEW r \in Runs, TurnEndThrows(r) PROVE TypeOK'
    BY <1>33 DEF TurnEndThrows, Crossing
  <1>27. CASE UNCHANGED vars BY <1>27 DEF vars
  <1>28. ASSUME NEW t \in Triggers, ActionHookThrows(t) \/ PrepareThrows(t) \/ ListenerThrows(t)
         PROVE TypeOK'
    BY <1>8, <1>28 DEF ActionHookThrows, PrepareThrows, ListenerThrows
  <1>29. ASSUME NEW d \in Deliveries, NEW b \in BOOLEAN
         PROVE  [delivery |-> d, promote |-> b] \in [delivery : DeliveryKinds, promote : BOOLEAN]
    OBVIOUS
  <1> HIDE DEF TypeOK, Stages, HandlingStages, InjectStages, PromoteStages, SelectStages, Go
  <1> QED
    BY <1>1, <1>2, <1>3, <1>4, <1>5, <1>6, <1>7, <1>9, <1>10, <1>11, <1>12, <1>13, <1>14,
       <1>15, <1>16, <1>17, <1>18, <1>19, <1>21, <1>22, <1>23, <1>24, <1>25, <1>26, <1>27,
       <1>28, <1>29, <1>30, <1>31, <1>32, <1>33 DEF Next

-----------------------------------------------------------------------------
(* Terminal events *)

LEMMA EndStep == IInv /\ [Next]_vars => EndInv'
  <1> SUFFICES ASSUME IInv, [Next]_vars PROVE EndInv' OBVIOUS
  <1> USE DEF pumpVars, gateVars, parentVars, runVars, IInv,
          slotVars, loopVars, messageVars, selectVars
  <1>0. \A t \in Triggers : ended[t] \in Seq({"completed", "failed"}) /\ Len(ended[t]) \in Nat
    BY LenProperties DEF TypeOK
  (* A step between two stages before the report, or within the promotion. *)
  <1>a. ASSUME NEW t \in Triggers, NEW to \in Stages, stage[t] \notin PromoteStages \cup {"done"},
               to \notin PromoteStages \cup {"done"}, stage' = [stage EXCEPT ![t] = to],
               UNCHANGED <<ended, escaped>>
        PROVE  EndInv'
    BY <1>a DEF EndInv, EndOf, TypeOK
  (* A report: the trigger had no terminal event, or was to be promoted. *)
  <1>b. ASSUME NEW t \in Triggers, NEW e \in {"completed", "failed"}, NEW to \in {"promoting", "done"},
               stage[t] \notin PromoteStages \cup {"done"},
               stage' = [stage EXCEPT ![t] = to], Terminal(t, e), UNCHANGED escaped
        PROVE  EndInv'
    <2>1. ended[t] = <<>> /\ t \notin escaped BY <1>b DEF EndInv, EndOf
    <2>2. ended'[t] # <<>> /\ Len(ended'[t]) = 1
      BY <1>b, <2>1 DEF Terminal, TypeOK
    <2>3. \A u \in Triggers \ {t} : ended'[u] = ended[u] /\ stage'[u] = stage[u]
      BY <1>b DEF Terminal, TypeOK
    <2>4. stage'[t] = to BY <1>b DEF TypeOK
    <2>5. EndOf(t)' BY <1>b, <2>1, <2>2, <2>4 DEF EndOf, PromoteStages
    <2>6. \A u \in Triggers \ {t} : EndOf(u)' BY <1>b, <2>3 DEF EndInv, EndOf
    <2> QED BY <2>5, <2>6 DEF EndInv
  <1>c. ASSUME NEW t \in Triggers, Escapes(t), stage[t] # "done" PROVE EndInv'
    <2>1. Len(ended[t]) \in {0, 1} /\ t \notin escaped
      BY <1>0, <1>c, EmptySeq DEF EndInv, EndOf
    <2>2. ended'[t] = Append(ended[t], "failed") /\ escaped' = escaped \cup {t}
      BY <1>c DEF Escapes, Terminal, TypeOK
    <2>3. /\ ended'[t] # <<>> /\ Len(ended'[t]) <= 2 /\ Last(ended'[t]) = "failed"
      <3> DEFINE s == ended[t]
                 r == Append(s, "failed")
      <3>1. s \in Seq({"completed", "failed"}) /\ Len(s) \in {0, 1} BY <1>0, <2>1
      <3> HIDE DEF s
      <3>2. r # <<>> /\ Len(r) = Len(s) + 1 /\ r[Len(s) + 1] = "failed"
        BY <3>1, AppendProperties
      <3>3. ended'[t] = r BY <2>2 DEF s
      <3> HIDE DEF r
      <3>4. Len(r) <= 2
        <4>1. \A n \in {0, 1} : n + 1 <= 2 OBVIOUS
        <4> QED BY <3>1, <3>2, <4>1
      <3>5. Last(r) = "failed" BY <3>2 DEF Last
      <3> QED BY <3>2, <3>3, <3>4, <3>5
    <2>4. \A u \in Triggers \ {t} : ended'[u] = ended[u] /\ stage'[u] = stage[u]
      BY <1>c DEF Escapes, Terminal, TypeOK
    <2>5. stage'[t] = "done" BY <1>c DEF Escapes, TypeOK
    <2> QED BY <2>2, <2>3, <2>4, <2>5 DEF EndInv, EndOf, PromoteStages
  <1>d. ASSUME UNCHANGED <<stage, ended, escaped>> PROVE EndInv' BY <1>d DEF EndInv, EndOf
  <1> USE DEF Go
  <1>1. ASSUME NEW t \in Triggers, Notify(t) PROVE EndInv'
    BY <1>1, <1>a DEF Notify, Stages, PromoteStages
  <1>2. ASSUME NEW t \in Triggers, BeforeTriggerThrows(t) PROVE EndInv'
    BY <1>2, <1>a DEF BeforeTriggerThrows, Stages, PromoteStages
  <1>3. ASSUME NEW t \in Triggers, PromptThrows(t) PROVE EndInv'
    BY <1>3, <1>a DEF PromptThrows, Stages, PromoteStages
  <1>4. ASSUME NEW t \in Triggers, NEW a \in {"allow", "deny", "prompt"},
               BeforeTriggerReturns(t, a) PROVE EndInv'
    BY <1>4, <1>a DEF BeforeTriggerReturns, Stages, HandlingStages, PromoteStages
  <1>5. ASSUME NEW t \in Triggers, NEW a \in {"approved", "rejected"}, PromptReturns(t, a)
        PROVE EndInv'
    BY <1>5, <1>a DEF PromptReturns, Stages, HandlingStages, PromoteStages
  <1>6. ASSUME NEW t \in Triggers, NEW a, ResolveAction(t, a) PROVE EndInv'
    <2>1. PICK to \in {"reporting", "announcing", "appending", "preparing"} :
            stage' = [stage EXCEPT ![t] = to]
      BY <1>6 DEF ResolveAction, Inject
    <2>2. stage[t] \notin PromoteStages \cup {"done"} /\ to \notin PromoteStages \cup {"done"}
      BY <1>6 DEF ResolveAction, PromoteStages
    <2>3. to \in Stages BY DEF Stages, InjectStages, SelectStages
    <2>4. UNCHANGED <<ended, escaped>> BY <1>6 DEF ResolveAction
    <2> QED BY <1>a, <2>1, <2>2, <2>3, <2>4
  <1>8. ASSUME NEW t \in Triggers, ActionHookThrows(t) \/ PrepareThrows(t) \/ ListenerThrows(t)
        PROVE EndInv'
    BY <1>8, <1>c DEF ActionHookThrows, PrepareThrows, ListenerThrows
  <1>9. ASSUME NEW t \in Triggers, PromptBuilt(t) PROVE EndInv'
    BY <1>9, <1>a DEF PromptBuilt, Stages, HandlingStages, PromoteStages
  <1>10. ASSUME NEW t \in Triggers, Handled(t) PROVE EndInv'
    <2>1. PICK to \in {"resolving", "refused"} : stage' = [stage EXCEPT ![t] = to]
      BY <1>10 DEF Handled
    <2> QED BY <1>10, <1>a, <2>1 DEF Handled, Stages, PromoteStages
  <1>11. ASSUME NEW t \in Triggers, Prepared(t) PROVE EndInv'
    BY <1>11, <1>a DEF Prepared, Stages, SelectStages, PromoteStages
  <1>12. ASSUME NEW t \in Triggers, SelectCommits(t) PROVE EndInv'
    BY <1>12, <1>a DEF SelectCommits, Stages, PromoteStages
  <1>13. ASSUME NEW t \in Triggers, Report(t) PROVE EndInv'
    <2>1. PICK to \in {"promoting", "done"} : stage' = [stage EXCEPT ![t] = to]
      BY <1>13 DEF Report
    <2>2. PICK e \in {"completed", "failed"} : Terminal(t, e) BY <1>13 DEF Report
    <2>3. stage[t] \notin PromoteStages \cup {"done"} /\ UNCHANGED escaped
      BY <1>13 DEF Report, PromoteStages
    <2> QED BY <1>b, <2>1, <2>2, <2>3
  <1>14. ASSUME NEW t \in Triggers, Promote(t) PROVE EndInv'
    <2>1. stage[t] \in PromoteStages BY <1>14 DEF Promote, PromoteStages
    <2>2. PICK to \in PromoteStages : stage' = [stage EXCEPT ![t] = to]
      BY <1>14 DEF Promote, Inject, PromoteStages
    <2>3. UNCHANGED <<ended, escaped>> BY <1>14 DEF Promote
    <2>4. "done" \notin PromoteStages BY DEF PromoteStages
    <2> QED BY <2>1, <2>2, <2>3, <2>4 DEF EndInv, EndOf, TypeOK
  <1>15. ASSUME NEW t \in Triggers, Injected(t) PROVE EndInv'
    <2>1. stage[t] \notin PromoteStages \cup {"done"}
      BY <1>15 DEF Injected, InjectStages, PromoteStages
    <2> QED BY <1>15, <1>b, <2>1 DEF Injected
  <1>16. ASSUME NEW t \in Triggers, Promoted(t) PROVE EndInv'
    <2>1. /\ stage[t] \in PromoteStages /\ stage' = [stage EXCEPT ![t] = "done"]
          /\ UNCHANGED <<ended, escaped>>
      BY <1>16 DEF Promoted, PromoteStages
    <2>2. ended[t] # <<>> /\ t \notin escaped
      BY <1>0, <2>1, EmptySeq DEF EndInv, EndOf, PromoteStages
    <2> QED BY <2>1, <2>2 DEF EndInv, EndOf, TypeOK, PromoteStages
  <1>17. ASSUME NEW h \in Hooks, TakeTrigger(h) PROVE EndInv'
    <2>1. Head(queue[h]) \in Triggers BY <1>17, HeadTailProperties DEF TakeTrigger, TypeOK
    <2> QED BY <1>17, <1>a, <2>1 DEF TakeTrigger, Stages, HandlingStages, PromoteStages
  <1> QED
    BY <1>1, <1>2, <1>3, <1>4, <1>5, <1>6, <1>8, <1>9, <1>10, <1>11, <1>12, <1>13,
       <1>14, <1>15, <1>16, <1>17, <1>d
    DEF Next, CloseHook, PumpExits, AbortTrigger, AbortAllTriggers, Cancel, Abort,
        SubAgentSettles, Record, Poll, Settle, Begin, TurnEndBuilt, TurnEndReturns, TurnEndThrows, vars

-----------------------------------------------------------------------------
(* The race of a sub-agent with its cancellation *)

LEMMA ShortSeqs ==
    /\ \A a : Append(<<>>, a) = <<a>>
    /\ \A a : Head(<<a>>) = a /\ Tail(<<a>>) = <<>> /\ Range(<<a>>) = {a} /\ <<a>> # <<>>
    /\ \A a, b : Append(<<a>>, b) = <<a, b>>
    /\ \A a, b : Head(<<a, b>>) = a /\ Tail(<<a, b>>) = <<b>> /\ Range(<<a, b>>) = {a, b}
    /\ \A a, b : <<a, b>> # <<>>
  <1>1. \A a : DOMAIN <<a>> = {1} OBVIOUS
  <1>2. \A a, b : DOMAIN <<a, b>> = {1, 2} OBVIOUS
  <1>3. \A a : Range(<<a>>) = {a} BY <1>1 DEF Range
  <1>4. \A a, b : Range(<<a, b>>) = {a, b} BY <1>2 DEF Range
  <1>5. \A a : Head(<<a>>) = a /\ Tail(<<a>>) = <<>> /\ <<a>> # <<>> /\ Append(<<>>, a) = <<a>>
    OBVIOUS
  <1>6. \A a, b : Head(<<a, b>>) = a /\ Tail(<<a, b>>) = <<b>> /\ <<a, b>> # <<>>
    OBVIOUS
  <1>7. ASSUME NEW a, NEW b PROVE Append(<<a>>, b) = <<a, b>>
    <2>1. <<a>> \in Seq({a, b}) /\ <<a, b>> \in Seq({a, b}) OBVIOUS
    <2>2. Append(<<a>>, b) \in Seq({a, b}) /\ Len(Append(<<a>>, b)) = 2 BY <2>1, AppendProperties
    <2>3. Append(<<a>>, b)[1] = a /\ Append(<<a>>, b)[2] = b BY <2>1, AppendProperties
    <2>4. <<a, b>>[1] = a /\ <<a, b>>[2] = b /\ Len(<<a, b>>) = 2 OBVIOUS
    <2>5. \A i \in 1..2 : Append(<<a>>, b)[i] = <<a, b>>[i]
      <3>1. \A i \in 1..2 : i = 1 \/ i = 2 OBVIOUS
      <3> QED BY <2>3, <2>4, <3>1
    <2> QED BY <2>1, <2>2, <2>4, <2>5, SeqEqual
  <1> QED BY <1>3, <1>4, <1>5, <1>6, <1>7

LEMMA RaceStep == IInv /\ [Next]_vars => RaceInv'
  <1> SUFFICES ASSUME IInv, [Next]_vars PROVE RaceInv' OBVIOUS
  <1> USE DEF pumpVars, gateVars, parentVars, runVars, IInv,
          slotVars, loopVars, messageVars, selectVars
  <1>u. Unsettled = {"asking", "building", "prompting", "auditing", "unsent", "queued",
                     "resolving", "preparing"}
    BY DEF Unsettled, HandlingStages
  (* A step that takes a trigger from one stage to another and touches no race. *)
  <1>a. ASSUME NEW t \in Triggers, NEW to, stage[t] # "racing", to # "racing",
               stage' = [stage EXCEPT ![t] = to],
               to \in Unsettled => stage[t] \in Unsettled,
               \A u \in Triggers : u # t \/ to \in Unsettled => UNCHANGED result[u],
               UNCHANGED <<cancelled, doomed, jobs, recorded>>
        PROVE  RaceInv'
    <2>1. stage'[t] = to /\ \A u \in Triggers \ {t} : stage'[u] = stage[u] BY <1>a DEF TypeOK
    <2> QED BY <1>a, <2>1 DEF RaceInv, RaceOf, Race
  (* The race of one trigger goes on. *)
  <1>b. ASSUME NEW t \in Triggers, stage[t] = "racing", RaceOf(t)', UNCHANGED <<stage, cancelled, doomed>>,
               \A u \in Triggers \ {t} : UNCHANGED <<result[u], jobs[u], recorded[u]>>
        PROVE  RaceInv'
    <2>1. \A u \in Triggers \ {t} : RaceOf(u) => RaceOf(u)' BY <1>b DEF RaceOf, Race
    <2> QED BY <1>b, <1>u, <2>1 DEF RaceInv
  <1>c. ASSUME UNCHANGED <<stage, result, cancelled, doomed, jobs, recorded>> PROVE RaceInv'
    BY <1>c DEF RaceInv, RaceOf, Race
  <1> USE DEF Go
  <1>1. ASSUME NEW t \in Triggers, Notify(t) PROVE RaceInv'
    BY <1>1, <1>a, <1>u DEF Notify
  <1>2. ASSUME NEW t \in Triggers, BeforeTriggerThrows(t) PROVE RaceInv'
    BY <1>2, <1>a, <1>u DEF BeforeTriggerThrows
  <1>3. ASSUME NEW t \in Triggers, PromptThrows(t) PROVE RaceInv'
    BY <1>3, <1>a, <1>u DEF PromptThrows
  <1>4. ASSUME NEW t \in Triggers, NEW a \in {"allow", "deny", "prompt"},
               BeforeTriggerReturns(t, a) PROVE RaceInv'
    BY <1>4, <1>a, <1>u DEF BeforeTriggerReturns
  <1>5. ASSUME NEW t \in Triggers, NEW a \in {"approved", "rejected"}, PromptReturns(t, a)
        PROVE RaceInv'
    BY <1>5, <1>a, <1>u DEF PromptReturns
  <1>6. ASSUME NEW t \in Triggers, NEW a, ResolveAction(t, a) PROVE RaceInv'
    <2>1. PICK to \in {"reporting", "announcing", "appending", "preparing"} :
            /\ stage' = [stage EXCEPT ![t] = to]
            /\ to = "preparing" => UNCHANGED result
      BY <1>6 DEF ResolveAction, Inject
    <2>2. /\ \A u \in Triggers \ {t} : UNCHANGED result[u]
          /\ stage[t] = "resolving" /\ UNCHANGED <<cancelled, doomed, jobs, recorded>>
      BY <1>6 DEF ResolveAction, TypeOK
    <2> QED BY <1>a, <1>u, <2>1, <2>2
  <1>7. ASSUME NEW t \in Triggers, NEW r \in {"ok", "failed"}, SubAgentSettles(t, r)
        PROVE RaceInv'
    <2>1. /\ stage[t] = "racing" /\ result[t] = "none" /\ result'[t] # "none"
          /\ jobs'[t] = Append(jobs[t], "run")
          /\ UNCHANGED <<stage, cancelled, doomed, recorded>>
          /\ \A u \in Triggers \ {t} : UNCHANGED <<result[u], jobs[u], recorded[u]>>
      BY <1>7 DEF SubAgentSettles, TypeOK
    <2>2. \/ Race(t, <<>>, {}, FALSE, FALSE) \/ Race(t, <<"cancel">>, {}, TRUE, FALSE)
          \/ Race(t, <<"check">>, {"cancel"}, TRUE, FALSE)
      BY <2>1 DEF RaceInv, RaceOf, Race
    <2>3. CASE Race(t, <<>>, {}, FALSE, FALSE)
      <3>1. Race(t, <<"run">>, {}, FALSE, TRUE)' BY <2>1, <2>3, ShortSeqs DEF Race
      <3> QED BY <1>b, <2>1, <3>1 DEF RaceOf
    <2>5. CASE Race(t, <<"cancel">>, {}, TRUE, FALSE)
      <3>1. Race(t, <<"cancel", "run">>, {}, TRUE, TRUE)' BY <2>1, <2>5, ShortSeqs DEF Race
      <3> QED BY <1>b, <2>1, <3>1 DEF RaceOf
    <2>6. CASE Race(t, <<"check">>, {"cancel"}, TRUE, FALSE)
      <3>1. Race(t, <<"check", "run">>, {"cancel"}, TRUE, TRUE)' BY <2>1, <2>6, ShortSeqs DEF Race
      <3> QED BY <1>b, <2>1, <3>1 DEF RaceOf
    <2> QED BY <2>2, <2>3, <2>5, <2>6
  <1>8. ASSUME NEW t \in Triggers, Record(t) PROVE RaceInv'
    <2>1. /\ stage[t] = "racing" /\ jobs[t] # <<>> /\ Head(jobs[t]) # "check"
          /\ recorded'[t] = recorded[t] \cup {Head(jobs[t])}
          /\ jobs'[t] = IF "check" \in Range(jobs[t]) THEN Tail(jobs[t])
                        ELSE Append(Tail(jobs[t]), "check")
          /\ UNCHANGED <<stage, cancelled, doomed, result>>
          /\ \A u \in Triggers \ {t} : UNCHANGED <<result[u], jobs[u], recorded[u]>>
      BY <1>8 DEF Record, TypeOK
    <2>2. RaceOf(t) BY <2>1 DEF RaceInv
    <2>3. CASE Race(t, <<"run">>, {}, FALSE, TRUE)
      <3>1. Race(t, <<"check">>, {"run"}, FALSE, TRUE)' BY <2>1, <2>3, ShortSeqs DEF Race
      <3> QED BY <1>b, <2>1, <3>1 DEF RaceOf
    <2>4. CASE Race(t, <<"cancel">>, {}, TRUE, FALSE)
      <3>1. Race(t, <<"check">>, {"cancel"}, TRUE, FALSE)' BY <2>1, <2>4, ShortSeqs DEF Race
      <3> QED BY <1>b, <2>1, <3>1 DEF RaceOf
    <2>5. CASE Race(t, <<"run", "cancel">>, {}, TRUE, TRUE)
      <3>1. Race(t, <<"cancel", "check">>, {"run"}, TRUE, TRUE)' BY <2>1, <2>5, ShortSeqs DEF Race
      <3> QED BY <1>b, <2>1, <3>1 DEF RaceOf
    <2>6. CASE Race(t, <<"cancel", "run">>, {}, TRUE, TRUE)
      <3>1. Race(t, <<"run", "check">>, {"cancel"}, TRUE, TRUE)' BY <2>1, <2>6, ShortSeqs DEF Race
      <3> QED BY <1>b, <2>1, <3>1 DEF RaceOf
    <2>7. CASE Race(t, <<"cancel", "check">>, {"run"}, TRUE, TRUE)
      <3>1. Race(t, <<"check">>, {"cancel", "run"}, TRUE, TRUE)'
        BY <2>1, <2>7, ShortSeqs DEF Race
      <3> QED BY <1>b, <2>1, <3>1 DEF RaceOf
    <2>8. CASE Race(t, <<"run", "check">>, {"cancel"}, TRUE, TRUE)
      <3>1. Race(t, <<"check">>, {"cancel", "run"}, TRUE, TRUE)'
        BY <2>1, <2>8, ShortSeqs DEF Race
      <3> QED BY <1>b, <2>1, <3>1 DEF RaceOf
    <2>9. \A q, seen, c, over : Race(t, q, seen, c, over) => q # <<>> /\ Head(q) # "check"
      BY <2>1 DEF Race
    <2> QED BY <2>2, <2>3, <2>4, <2>5, <2>6, <2>7, <2>8, <2>9, ShortSeqs DEF RaceOf
  <1>9. ASSUME NEW t \in Triggers, Escapes(t), stage[t] # "racing" PROVE RaceInv'
    BY <1>9, <1>a, <1>u DEF Escapes
  <1>10. ASSUME NEW t \in Triggers, ActionHookThrows(t) \/ PrepareThrows(t) \/ ListenerThrows(t)
         PROVE RaceInv'
    BY <1>9, <1>10 DEF ActionHookThrows, PrepareThrows, ListenerThrows
  <1>11. ASSUME NEW t \in Triggers, PromptBuilt(t) PROVE RaceInv'
    BY <1>11, <1>a, <1>u DEF PromptBuilt
  <1>12. ASSUME NEW t \in Triggers, Handled(t) PROVE RaceInv'
    <2>1. PICK to \in {"resolving", "refused"} : stage' = [stage EXCEPT ![t] = to]
      BY <1>12 DEF Handled
    <2> QED BY <1>12, <1>a, <1>u, <2>1 DEF Handled
  <1>13. ASSUME NEW t \in Triggers, Prepared(t) PROVE RaceInv'
    <2>1. /\ stage[t] = "preparing" /\ stage'[t] = "racing"
          /\ jobs'[t] = IF t \in cancelled THEN <<"cancel">> ELSE <<>>
          /\ UNCHANGED <<cancelled, doomed, result, recorded>>
          /\ \A u \in Triggers \ {t} : UNCHANGED <<stage[u], jobs[u]>>
      BY <1>13 DEF Prepared, TypeOK
    <2>2. recorded[t] = {} /\ result[t] = "none" BY <1>u, <2>1 DEF RaceInv
    <2>3. Race(t, <<>>, {}, FALSE, FALSE)' \/ Race(t, <<"cancel">>, {}, TRUE, FALSE)'
      BY <2>1, <2>2 DEF Race
    <2>4. RaceOf(t)' BY <2>3 DEF RaceOf
    <2>5. \A u \in Triggers \ {t} : RaceOf(u) => RaceOf(u)' BY <2>1 DEF RaceOf, Race
    <2> QED BY <1>u, <2>1, <2>4, <2>5 DEF RaceInv
  <1>14. ASSUME NEW t \in Triggers, SelectCommits(t) PROVE RaceInv'
    <2>1. /\ stage'[t] = "reporting" /\ recorded'[t] = {} /\ UNCHANGED <<cancelled, doomed>>
          /\ \A u \in Triggers \ {t} : UNCHANGED <<stage[u], jobs[u], recorded[u], result[u]>>
      BY <1>14 DEF SelectCommits, TypeOK
    <2>2. \A u \in Triggers \ {t} : RaceOf(u) => RaceOf(u)' BY <2>1 DEF RaceOf, Race
    <2> QED BY <1>u, <2>1, <2>2 DEF RaceInv
  <1>15. ASSUME NEW t \in Triggers, Report(t) PROVE RaceInv'
    <2>1. PICK to \in {"promoting", "done"} : stage' = [stage EXCEPT ![t] = to]
      BY <1>15 DEF Report
    <2> QED BY <1>15, <1>a, <1>u, <2>1 DEF Report
  <1>16. ASSUME NEW t \in Triggers, Promote(t) PROVE RaceInv'
    <2>1. PICK to \in {"announcing_promotion", "appending_promotion"} :
            stage' = [stage EXCEPT ![t] = to]
      BY <1>16 DEF Promote, Inject
    <2> QED BY <1>16, <1>a, <1>u, <2>1 DEF Promote
  <1>17. ASSUME NEW t \in Triggers, Injected(t) PROVE RaceInv'
    BY <1>17, <1>a, <1>u DEF Injected, InjectStages
  <1>18. ASSUME NEW t \in Triggers, Promoted(t) PROVE RaceInv'
    BY <1>18, <1>a, <1>u DEF Promoted
  <1>19. ASSUME NEW h \in Hooks, TakeTrigger(h) PROVE RaceInv'
    <2>1. Head(queue[h]) \in Triggers BY <1>19, HeadTailProperties DEF TakeTrigger, TypeOK
    <2>2. PICK to \in {"asking", "auditing"} :
            stage[Head(queue[h])] = "queued" /\ stage' = [stage EXCEPT ![Head(queue[h])] = to]
      BY <1>19 DEF TakeTrigger
    <2> QED BY <1>19, <1>a, <1>u, <2>1, <2>2 DEF TakeTrigger
  (* A cancellation joins each race that has none. *)
  <1>20. ASSUME NEW S \in SUBSET Triggers, Cancel(S) PROVE RaceInv'
    <2>1. /\ UNCHANGED <<stage, result, recorded>>
          /\ \A t \in Triggers : t \in cancelled' <=> t \in cancelled \/ t \in S
          /\ \A t \in Triggers : jobs'[t] = IF t \in S \ cancelled /\ stage[t] = "racing"
                                          THEN Append(jobs[t], "cancel") ELSE jobs[t]
          /\ \A t \in Triggers : t \in doomed' => t \in doomed \/ "run" \notin recorded[t]
      BY <1>20 DEF Cancel
    <2>2. ASSUME NEW t \in Triggers, stage[t] = "racing" PROVE RaceOf(t)'
      <3>1. RaceOf(t) BY <2>2 DEF RaceInv
      <3>2. CASE t \in cancelled \/ t \notin S
        <4>1. UNCHANGED <<jobs[t], recorded[t], result[t]>> /\ (t \in cancelled' <=> t \in cancelled)
          BY <2>1, <3>2
        <4>2. ~Race(t, <<"check", "cancel">>, {"run"}, TRUE, TRUE) => RaceOf(t)'
          BY <3>1, <4>1 DEF RaceOf, Race
        <4>3. CASE Race(t, <<"check", "cancel">>, {"run"}, TRUE, TRUE)
          <5>1. t \notin doomed BY <3>1, <4>3, ShortSeqs DEF RaceOf, Race
          <5>2. t \notin doomed' BY <2>1, <4>3, <5>1 DEF Race
          <5> QED BY <4>1, <4>3, <5>2 DEF RaceOf, Race
        <4> QED BY <4>2, <4>3
      <3>3. CASE t \notin cancelled /\ t \in S
        <4>1. /\ t \in cancelled' /\ UNCHANGED <<recorded[t], result[t]>>
              /\ jobs'[t] = Append(jobs[t], "cancel")
          BY <2>1, <2>2, <3>3
        <4>2. \/ Race(t, <<>>, {}, FALSE, FALSE) \/ Race(t, <<"run">>, {}, FALSE, TRUE)
              \/ Race(t, <<"check">>, {"run"}, FALSE, TRUE)
          BY <3>1, <3>3 DEF RaceOf, Race
        <4>3. CASE Race(t, <<>>, {}, FALSE, FALSE)
          <5>1. Race(t, <<"cancel">>, {}, TRUE, FALSE)' BY <4>1, <4>3, ShortSeqs DEF Race
          <5> QED BY <5>1 DEF RaceOf
        <4>6. CASE Race(t, <<"run">>, {}, FALSE, TRUE)
          <5>1. Race(t, <<"run", "cancel">>, {}, TRUE, TRUE)' BY <4>1, <4>6, ShortSeqs DEF Race
          <5> QED BY <5>1 DEF RaceOf
        <4>4. t \notin doomed BY <3>3 DEF DoomInv, DoomOf
        <4>5. CASE Race(t, <<"check">>, {"run"}, FALSE, TRUE)
          <5>1. Race(t, <<"check", "cancel">>, {"run"}, TRUE, TRUE)'
            BY <4>1, <4>5, ShortSeqs DEF Race
          <5>2. t \notin doomed' BY <2>1, <4>4, <4>5 DEF Race
          <5> QED BY <5>1, <5>2 DEF RaceOf
        <4> QED BY <4>2, <4>3, <4>5, <4>6
      <3> QED BY <3>2, <3>3
    <2> QED BY <2>1, <2>2 DEF RaceInv
  <1>21. ASSUME NEW c \in Traces, AbortTrigger(c) PROVE RaceInv'
    <2>1. {running[c]} \ {NoTrigger} \in SUBSET Triggers BY DEF TypeOK
    <2> QED BY <1>20, <1>21, <2>1 DEF AbortTrigger
  <1>22. CASE AbortAllTriggers
    <2>1. Registered \in SUBSET Triggers BY DEF Registered, TypeOK
    <2> QED BY <1>20, <1>22, <2>1 DEF AbortAllTriggers
  <1> QED
    BY <1>1, <1>2, <1>3, <1>4, <1>5, <1>6, <1>7, <1>8, <1>10, <1>11, <1>12, <1>13,
       <1>14, <1>15, <1>16, <1>17, <1>18, <1>19, <1>21, <1>22, <1>c
    DEF Next, CloseHook, PumpExits, Abort, Poll, Settle, Begin, TurnEndBuilt, TurnEndReturns,
        TurnEndThrows, vars

-----------------------------------------------------------------------------
(* Cancellation *)

LEMMA DoomStep == IInv /\ [Next]_vars => DoomInv'
  <1> SUFFICES ASSUME IInv, [Next]_vars PROVE DoomInv' OBVIOUS
  <1> USE DEF pumpVars, gateVars, parentVars, runVars, IInv,
          slotVars, loopVars, messageVars, selectVars
  <1>0. doomed \subseteq Triggers BY DEF TypeOK
  <1>t. ASSUME NEW t \in Triggers, NEW e \in {"completed", "failed"}, Terminal(t, e)
        PROVE  /\ Range(ended'[t]) = Range(ended[t]) \cup {e}
               /\ \A u \in Triggers \ {t} : ended'[u] = ended[u]
    BY <1>t, RangeAppend DEF Terminal, TypeOK
  (* A step of one trigger: if it is doomed, it goes on as DoomOf says. *)
  <1>a. ASSUME NEW t \in Triggers, UNCHANGED <<cancelled, doomed>>,
               \A u \in Triggers \ {t} : UNCHANGED <<stage[u], result[u], ended[u]>>,
               t \in doomed /\ stage[t] \in DoomStages => DoomOf(t)'
        PROVE  DoomInv'
    BY <1>0, <1>a DEF DoomInv, DoomOf
  <1>b. ASSUME NEW t \in Triggers, stage[t] \notin DoomStages, UNCHANGED <<cancelled, doomed>>,
               \A u \in Triggers \ {t} : UNCHANGED <<stage[u], result[u], ended[u]>>
        PROVE  DoomInv'
    BY <1>0, <1>b DEF DoomInv, DoomOf
  <1>c. ASSUME NEW t \in Triggers, NEW to \in DoomStages \ {"reporting"},
               stage' = [stage EXCEPT ![t] = to], UNCHANGED <<ended, cancelled, doomed>>,
               \A u \in Triggers \ {t} : UNCHANGED result[u]
        PROVE  DoomInv'
    BY <1>0, <1>c DEF DoomInv, DoomOf, TypeOK
  <1>d. ASSUME UNCHANGED <<stage, result, ended, cancelled, doomed>> PROVE DoomInv'
    BY <1>d DEF DoomInv, DoomOf
  <1>s. DoomStages = {"preparing", "racing", "reporting", "done", "promoting",
                      "announcing_promotion", "appending_promotion"}
    BY DEF DoomStages, SelectStages, PromoteStages
  <1> USE DEF Go
  <1>1. ASSUME NEW t \in Triggers, Notify(t) PROVE DoomInv'
    BY <1>1, <1>b, <1>s DEF Notify, TypeOK
  <1>2. ASSUME NEW t \in Triggers, BeforeTriggerThrows(t) PROVE DoomInv'
    BY <1>2, <1>b, <1>s DEF BeforeTriggerThrows, TypeOK
  <1>3. ASSUME NEW t \in Triggers, PromptThrows(t) PROVE DoomInv'
    BY <1>3, <1>b, <1>s DEF PromptThrows, TypeOK
  <1>4. ASSUME NEW t \in Triggers, NEW a \in {"allow", "deny", "prompt"},
               BeforeTriggerReturns(t, a) PROVE DoomInv'
    BY <1>4, <1>b, <1>s DEF BeforeTriggerReturns, TypeOK
  <1>5. ASSUME NEW t \in Triggers, NEW a \in {"approved", "rejected"}, PromptReturns(t, a)
        PROVE DoomInv'
    BY <1>5, <1>b, <1>s DEF PromptReturns, TypeOK
  <1>6. ASSUME NEW t \in Triggers, NEW a, ResolveAction(t, a) PROVE DoomInv'
    <2>1. PICK to \in {"reporting", "announcing", "appending", "preparing"} :
            stage' = [stage EXCEPT ![t] = to]
      BY <1>6 DEF ResolveAction, Inject
    <2>2. \A u \in Triggers \ {t} : UNCHANGED result[u]
      BY <1>6 DEF ResolveAction, TypeOK
    <2>3. stage[t] \notin DoomStages /\ UNCHANGED <<ended, cancelled, doomed>>
      BY <1>6, <1>s DEF ResolveAction
    <2> QED BY <1>b, <2>1, <2>2, <2>3 DEF TypeOK
  <1>7. ASSUME NEW t \in Triggers, NEW r \in {"ok", "failed"}, SubAgentSettles(t, r)
        PROVE DoomInv'
    <2>1. /\ stage[t] = "racing" /\ UNCHANGED <<stage, ended, cancelled, doomed>>
          /\ \A u \in Triggers \ {t} : UNCHANGED result[u]
      BY <1>7 DEF SubAgentSettles, TypeOK
    <2>2. t \in doomed => DoomOf(t)' BY <2>1 DEF DoomInv, DoomOf
    <2> QED BY <1>a, <2>1, <2>2
  <1>e. ASSUME NEW t \in Triggers, Escapes(t) PROVE DoomInv'
    <2>1. Range(ended'[t]) = Range(ended[t]) \cup {"failed"}
      BY <1>e, <1>t DEF Escapes
    <2>2. \A u \in Triggers \ {t} : UNCHANGED <<stage[u], result[u], ended[u]>>
      BY <1>e, <1>t DEF Escapes, TypeOK
    <2>3. stage'[t] = "done" /\ UNCHANGED <<cancelled, doomed>>
      BY <1>e DEF Escapes, TypeOK
    <2>4. t \in doomed => DoomOf(t)' BY <1>s, <2>1, <2>3 DEF DoomInv, DoomOf
    <2> QED BY <1>a, <2>2, <2>3, <2>4
  <1>8. ASSUME NEW t \in Triggers, ActionHookThrows(t) \/ PrepareThrows(t) \/ ListenerThrows(t)
        PROVE DoomInv'
    BY <1>8, <1>e DEF ActionHookThrows, PrepareThrows, ListenerThrows
  <1>9. ASSUME NEW t \in Triggers, PromptBuilt(t) PROVE DoomInv'
    BY <1>9, <1>b, <1>s DEF PromptBuilt, TypeOK
  <1>10. ASSUME NEW t \in Triggers, Handled(t) PROVE DoomInv'
    BY <1>10, <1>b, <1>s DEF Handled, TypeOK
  <1>11. ASSUME NEW t \in Triggers, Prepared(t) PROVE DoomInv'
    BY <1>11, <1>c, <1>s DEF Prepared, TypeOK
  <1>12. ASSUME NEW t \in Triggers, SelectCommits(t) PROVE DoomInv'
    <2>1. /\ stage'[t] = "reporting" /\ UNCHANGED <<cancelled, doomed, ended>>
          /\ \A u \in Triggers \ {t} : UNCHANGED <<stage[u], result[u]>>
          /\ "cancel" \in recorded[t] => result'[t] = "aborted"
      BY <1>12 DEF SelectCommits, TypeOK
    <2>2. ASSUME t \in doomed PROVE "cancel" \in recorded[t]
      <3>1. t \in cancelled /\ RaceOf(t) BY <1>12, <2>2 DEF DoomInv, DoomOf, RaceInv, SelectCommits
      <3>2. Head(jobs[t]) = "check" BY <1>12 DEF SelectCommits
      <3> QED BY <2>2, <3>1, <3>2, ShortSeqs DEF RaceOf, Race
    <2>3. t \in doomed => DoomOf(t)' BY <1>s, <2>1, <2>2 DEF DoomInv, DoomOf
    <2> QED BY <1>a, <2>1, <2>3
  <1>13. ASSUME NEW t \in Triggers, Report(t) PROVE DoomInv'
    <2>1. /\ stage'[t] \in {"promoting", "done"} /\ UNCHANGED <<cancelled, doomed, result>>
          /\ \A u \in Triggers \ {t} : UNCHANGED stage[u]
      BY <1>13 DEF Report, TypeOK
    <2>2. PICK e \in {"completed", "failed"} :
            Terminal(t, e) /\ (e = "completed" => result[t] = "ok")
      BY <1>13 DEF Report
    <2>3. /\ Range(ended'[t]) = Range(ended[t]) \cup {e}
          /\ \A u \in Triggers \ {t} : ended'[u] = ended[u]
      BY <1>t, <2>2
    <2>4. t \in doomed => result[t] = "aborted" /\ "completed" \notin Range(ended[t])
                          /\ t \in cancelled
      BY <1>13 DEF Report, DoomInv, DoomOf
    <2>5. t \in doomed => DoomOf(t)'
      BY <1>s, <2>1, <2>2, <2>3, <2>4 DEF DoomOf
    <2> QED BY <1>a, <2>1, <2>3, <2>5
  <1>14. ASSUME NEW t \in Triggers, Promote(t) PROVE DoomInv'
    <2>1. PICK to \in {"announcing_promotion", "appending_promotion"} :
            stage' = [stage EXCEPT ![t] = to]
      BY <1>14 DEF Promote, Inject
    <2> QED BY <1>14, <1>c, <1>s, <2>1 DEF Promote
  <1>15. ASSUME NEW t \in Triggers, Injected(t) PROVE DoomInv'
    <2>1. /\ stage[t] \notin DoomStages /\ UNCHANGED <<result, cancelled, doomed>>
          /\ \A u \in Triggers \ {t} : UNCHANGED stage[u]
      BY <1>15, <1>s DEF Injected, InjectStages, TypeOK
    <2>2. \A u \in Triggers \ {t} : ended'[u] = ended[u] BY <1>15, <1>t DEF Injected
    <2> QED BY <1>b, <2>1, <2>2
  <1>16. ASSUME NEW t \in Triggers, Promoted(t) PROVE DoomInv'
    BY <1>16, <1>c, <1>s DEF Promoted
  <1>17. ASSUME NEW h \in Hooks, TakeTrigger(h) PROVE DoomInv'
    <2>1. Head(queue[h]) \in Triggers BY <1>17, HeadTailProperties DEF TakeTrigger, TypeOK
    <2>2. stage[Head(queue[h])] = "queued" BY <1>17 DEF TakeTrigger
    <2> QED BY <1>17, <1>b, <1>s, <2>1, <2>2 DEF TakeTrigger, TypeOK
  (* A sub-agent is doomed before its select ends, and nothing is reported yet. *)
  <1>18. ASSUME NEW S \in SUBSET Triggers, Cancel(S) PROVE DoomInv'
    <2>1. /\ cancelled' = cancelled \cup S /\ UNCHANGED <<stage, result, ended>>
          /\ doomed' = doomed \cup {t \in S : stage[t] \in SelectStages /\ "run" \notin recorded[t]}
      BY <1>18 DEF Cancel
    <2>2. ASSUME NEW t \in doomed PROVE DoomOf(t)' BY <2>1 DEF DoomInv, DoomOf
    <2>3. ASSUME NEW t \in S, stage[t] \in SelectStages PROVE DoomOf(t)'
      <3>1. ended[t] = <<>> BY <2>3 DEF EndInv, EndOf, SelectStages, PromoteStages
      <3>2. Range(<<>>) = {} BY DEF Range
      <3> QED BY <2>1, <2>3, <3>1, <3>2 DEF DoomOf, DoomStages, SelectStages
    <2> QED BY <2>1, <2>2, <2>3 DEF DoomInv
  <1>19. ASSUME NEW c \in Traces, AbortTrigger(c) PROVE DoomInv'
    <2>1. {running[c]} \ {NoTrigger} \in SUBSET Triggers BY DEF TypeOK
    <2> QED BY <1>18, <1>19, <2>1 DEF AbortTrigger
  <1>20. CASE AbortAllTriggers
    <2>1. Registered \in SUBSET Triggers BY DEF Registered, TypeOK
    <2> QED BY <1>18, <1>20, <2>1 DEF AbortAllTriggers
  <1> QED
    BY <1>1, <1>2, <1>3, <1>4, <1>5, <1>6, <1>7, <1>8, <1>9, <1>10, <1>11, <1>12, <1>13,
       <1>14, <1>15, <1>16, <1>17, <1>19, <1>20, <1>d
    DEF Next, CloseHook, PumpExits, Abort, Record, Poll, Settle, Begin, TurnEndBuilt,
        TurnEndReturns, TurnEndThrows, vars

-----------------------------------------------------------------------------
(* Pumps *)

LEMMA SerialStep == IInv /\ [Next]_vars => SerialInv'
  <1> SUFFICES ASSUME IInv, [Next]_vars PROVE SerialInv' OBVIOUS
  <1> USE TriggerAssumption DEF gateVars, parentVars, runVars, IInv,
          slotVars, loopVars, messageVars, selectVars
  <1>s. HandlingStages = {"asking", "building", "prompting", "auditing"}
    BY DEF HandlingStages
  (* A step within the handling of a trigger, or outside of it. *)
  <1>a. ASSUME NEW t \in Triggers, UNCHANGED <<queue, pump>>,
               \A u \in Triggers \ {t} : UNCHANGED stage[u],
               stage'[t] \in HandlingStages => stage[t] \in HandlingStages
        PROVE  SerialInv'
    BY <1>a DEF SerialInv
  (* The end of the handling of a trigger: its hook has no other. *)
  <1>b. ASSUME NEW t \in Triggers, stage[t] \in HandlingStages, stage'[t] \notin HandlingStages,
               \A u \in Triggers \ {t} : UNCHANGED stage[u], UNCHANGED queue,
               \A h \in Hooks \ {HookOf[t]} : UNCHANGED pump[h]
        PROVE  SerialInv'
    BY <1>b DEF SerialInv
  <1>c. ASSUME UNCHANGED <<stage, queue, pump>> PROVE SerialInv' BY <1>c DEF SerialInv
  <1> USE DEF Go
  <1>1. ASSUME NEW t \in Triggers, Notify(t) PROVE SerialInv'
    <2> DEFINE h == HookOf[t]
    <2>1. /\ queue[h] \in Seq(Triggers) /\ h \in Hooks /\ queue'[h] = Append(queue[h], t)
          /\ \A g \in Hooks \ {h} : queue'[g] = queue[g]
      BY <1>1 DEF Notify, TypeOK
    <2>2. \A k \in DOMAIN queue'[h] : HookOf[queue'[h][k]] = h
      BY <2>1, AppendProperties DEF SerialInv
    <2>3. \A g \in Hooks : \A k \in DOMAIN queue'[g] : HookOf[queue'[g][k]] = g
      <3> HIDE DEF h
      <3>1. ASSUME NEW g \in Hooks \ {h}
            PROVE  \A k \in DOMAIN queue'[g] : HookOf[queue'[g][k]] = g
        <4>1. queue'[g] = queue[g] BY <2>1, <3>1
        <4> QED BY <4>1 DEF SerialInv
      <3> QED BY <2>2, <3>1
    <2>4. /\ UNCHANGED pump /\ stage'[t] = "queued"
          /\ \A u \in Triggers \ {t} : UNCHANGED stage[u]
      BY <1>1 DEF Notify, TypeOK
    <2> QED BY <1>s, <2>3, <2>4 DEF SerialInv
  <1>2. ASSUME NEW t \in Triggers, BeforeTriggerThrows(t) PROVE SerialInv'
    BY <1>2, <1>b, <1>s DEF BeforeTriggerThrows, PumpFails, TypeOK
  <1>3. ASSUME NEW t \in Triggers, PromptThrows(t) PROVE SerialInv'
    BY <1>3, <1>b, <1>s DEF PromptThrows, PumpFails, TypeOK
  <1>4. ASSUME NEW t \in Triggers, NEW a \in {"allow", "deny", "prompt"},
               BeforeTriggerReturns(t, a) PROVE SerialInv'
    BY <1>4, <1>a, <1>s DEF BeforeTriggerReturns, pumpVars, TypeOK
  <1>5. ASSUME NEW t \in Triggers, NEW a \in {"approved", "rejected"}, PromptReturns(t, a)
        PROVE SerialInv'
    BY <1>5, <1>a, <1>s DEF PromptReturns, pumpVars, TypeOK
  <1>6. ASSUME NEW t \in Triggers, NEW a, ResolveAction(t, a) PROVE SerialInv'
    <2>1. PICK to \in {"reporting", "announcing", "appending", "preparing"} :
            stage' = [stage EXCEPT ![t] = to]
      BY <1>6 DEF ResolveAction, Inject
    <2> QED BY <1>6, <1>a, <1>s, <2>1 DEF ResolveAction, pumpVars, TypeOK
  <1>8. ASSUME NEW t \in Triggers, ActionHookThrows(t) \/ PrepareThrows(t) \/ ListenerThrows(t)
        PROVE SerialInv'
    <2>1. Escapes(t) BY <1>8 DEF ActionHookThrows, PrepareThrows, ListenerThrows
    <2>2. stage' = [stage EXCEPT ![t] = "done"] /\ UNCHANGED <<queue, pump>>
      BY <2>1 DEF Escapes, pumpVars
    <2>3. stage'[t] = "done" /\ \A u \in Triggers \ {t} : UNCHANGED stage[u] BY <2>2 DEF TypeOK
    <2> QED BY <2>2, <2>3, <1>a, <1>s
  <1>9. ASSUME NEW t \in Triggers, PromptBuilt(t) PROVE SerialInv'
    BY <1>9, <1>a, <1>s DEF PromptBuilt, pumpVars, TypeOK
  <1>10. ASSUME NEW t \in Triggers, Handled(t) PROVE SerialInv'
    BY <1>10, <1>b, <1>s DEF Handled, TypeOK
  <1>11. ASSUME NEW t \in Triggers, Prepared(t) PROVE SerialInv'
    BY <1>11, <1>a, <1>s DEF Prepared, pumpVars, TypeOK
  <1>12. ASSUME NEW t \in Triggers, SelectCommits(t) PROVE SerialInv'
    BY <1>12, <1>a, <1>s DEF SelectCommits, pumpVars, TypeOK
  <1>13. ASSUME NEW t \in Triggers, Report(t) PROVE SerialInv'
    <2>1. PICK to \in {"promoting", "done"} : stage' = [stage EXCEPT ![t] = to]
      BY <1>13 DEF Report
    <2>2. UNCHANGED <<queue, pump>> BY <1>13 DEF Report, pumpVars
    <2> QED BY <1>a, <1>s, <2>1, <2>2 DEF TypeOK, HandlingStages
  <1>14. ASSUME NEW t \in Triggers, Promote(t) PROVE SerialInv'
    <2>1. PICK to \in {"announcing_promotion", "appending_promotion"} :
            stage' = [stage EXCEPT ![t] = to]
      BY <1>14 DEF Promote, Inject
    <2>2. UNCHANGED <<queue, pump>> BY <1>14 DEF Promote, pumpVars
    <2> QED BY <1>a, <1>s, <2>1, <2>2 DEF TypeOK, HandlingStages
  <1>15. ASSUME NEW t \in Triggers, Injected(t) PROVE SerialInv'
    BY <1>15, <1>a, <1>s DEF Injected, pumpVars, TypeOK
  <1>16. ASSUME NEW t \in Triggers, Promoted(t) PROVE SerialInv'
    BY <1>16, <1>a, <1>s DEF Promoted, pumpVars, TypeOK
  <1>17. ASSUME NEW h \in Hooks, TakeTrigger(h) PROVE SerialInv'
    <2> DEFINE t == Head(queue[h])
    <2>1. queue[h] \in Seq(Triggers) /\ queue[h] # <<>> /\ pump[h] = "waiting"
      BY <1>17 DEF TakeTrigger, TypeOK
    <2>2. /\ t \in Triggers /\ t = queue[h][1] /\ 1 \in DOMAIN queue[h]
      BY <2>1, HeadTailProperties, EmptySeq, LenProperties
    <2>3. HookOf[t] = h BY <2>2 DEF SerialInv
    <2>4. /\ queue'[h] = Tail(queue[h]) /\ \A g \in Hooks \ {h} : queue'[g] = queue[g]
          /\ pump'[h] = "handling" /\ \A g \in Hooks \ {h} : pump'[g] = pump[g]
      BY <1>17 DEF TakeTrigger, TypeOK
    <2>5. stage'[t] \in HandlingStages /\ \A u \in Triggers \ {t} : UNCHANGED stage[u]
      BY <1>17, <1>s, <2>2 DEF TakeTrigger, TypeOK
    <2>6. \A k \in DOMAIN queue'[h] : HookOf[queue'[h][k]] = h
      <3>1. \A k \in DOMAIN Tail(queue[h]) :
                k + 1 \in DOMAIN queue[h] /\ Tail(queue[h])[k] = queue[h][k + 1]
        BY <2>1, HeadTailProperties, EmptySeq, LenProperties
      <3> QED BY <2>4, <3>1 DEF SerialInv
    <2>7. \A u \in Triggers : stage[u] \in HandlingStages => HookOf[u] # h
      BY <2>1 DEF SerialInv
    <2> HIDE DEF t
    <2>8. \A g \in Hooks : \A k \in DOMAIN queue'[g] : HookOf[queue'[g][k]] = g
      <3>1. ASSUME NEW g \in Hooks \ {h}
            PROVE  \A k \in DOMAIN queue'[g] : HookOf[queue'[g][k]] = g
        <4>1. queue'[g] = queue[g] BY <2>4, <3>1
        <4> QED BY <4>1 DEF SerialInv
      <3> QED BY <2>6, <3>1
    <2>9. \A u \in Triggers : stage'[u] \in HandlingStages => pump'[HookOf[u]] = "handling"
      BY <2>2, <2>3, <2>4, <2>5, <2>7 DEF SerialInv
    <2>10. \A u, v \in Triggers :
             stage'[u] \in HandlingStages /\ stage'[v] \in HandlingStages /\ HookOf[u] = HookOf[v]
             => u = v
      BY <2>2, <2>3, <2>5, <2>7 DEF SerialInv
    <2> QED BY <2>8, <2>9, <2>10 DEF SerialInv
  <1>18. ASSUME NEW h \in Hooks, PumpExits(h) PROVE SerialInv'
    BY <1>18 DEF PumpExits, SerialInv, TypeOK
  <1> QED
    BY <1>1, <1>2, <1>3, <1>4, <1>5, <1>6, <1>8, <1>9, <1>10, <1>11, <1>12, <1>13,
       <1>14, <1>15, <1>16, <1>17, <1>18, <1>c
    DEF Next, CloseHook, AbortTrigger, AbortAllTriggers, Cancel, Abort,
        SubAgentSettles, Record, Poll, Settle, Begin, TurnEndBuilt, TurnEndReturns, TurnEndThrows,
        vars, pumpVars

-----------------------------------------------------------------------------
(* The published controller *)

LEMMA PromptStep == IInv /\ [Next]_vars => PromptInv'
  <1> SUFFICES ASSUME IInv, [Next]_vars PROVE PromptInv' OBVIOUS
  <1> USE TriggerAssumption DEF IInv, parentVars, runVars, pumpVars, gateVars,
          slotVars, loopVars, messageVars, selectVars
  <1>0. crossed \subseteq Triggers /\ owed \subseteq Triggers BY DEF TypeOK
  (* No prompt is opened or closed. *)
  <1>a. ASSUME NEW t \in Triggers, stage[t] # "prompting", stage'[t] # "prompting",
               \A u \in Triggers \ {t} : UNCHANGED stage[u],
               UNCHANGED <<hookSlot, owed, promptAborted, crossed>>
        PROVE  PromptInv'
    BY <1>0, <1>a DEF PromptInv
  <1>b. ASSUME UNCHANGED <<stage, hookSlot, owed, promptAborted, crossed>> PROVE PromptInv'
    BY <1>b DEF PromptInv
  (* Somebody writes the slot: whoever is open and is not the user is crossed. *)
  <1>c. ASSUME NEW user, crossed' = Crossing(user),
               \A t \in Triggers : t # user => UNCHANGED stage[t]
        PROVE  /\ \A t \in Triggers \ {user} : stage'[t] = "prompting" => t \in crossed'
               /\ \A t \in crossed : t # user => t \in crossed'
    BY <1>c DEF Crossing
  <1>d. ASSUME NEW t \in Triggers, stage'[t] # "prompting", PromptOver(t),
               \A u \in Triggers \ {t} : UNCHANGED stage[u]
        PROVE  PromptInv'
    <2>1. /\ hookSlot' = NoTrigger /\ owed' = owed \ {t} /\ promptAborted' = promptAborted \ {t}
          /\ crossed' = Crossing(t)
      BY <1>d DEF PromptOver
    <2>2. /\ \A u \in Triggers \ {t} : stage'[u] = "prompting" => u \in crossed'
          /\ \A u \in crossed : u # t => u \in crossed'
      BY <1>c, <1>d, <2>1
    <2> QED BY <1>0, <1>d, <2>1, <2>2 DEF PromptInv
  (* The turn-end hook opens or is over. *)
  <1>e. ASSUME UNCHANGED <<stage, owed, promptAborted>>, crossed' = Crossing(TurnEnd),
               hookSlot' \in {TurnEnd, NoTrigger}
        PROVE  PromptInv'
    <2>1. /\ \A u \in Triggers : stage'[u] = "prompting" => u \in crossed'
          /\ \A u \in crossed : u \in crossed'
      BY <1>0, <1>c, <1>e
    <2> QED BY <1>e, <2>1 DEF PromptInv
  <1> USE DEF Go
  <1>1. ASSUME NEW t \in Triggers, Notify(t) PROVE PromptInv'
    BY <1>1, <1>a DEF Notify, TypeOK
  <1>2. ASSUME NEW t \in Triggers, BeforeTriggerThrows(t) PROVE PromptInv'
    BY <1>2, <1>a DEF BeforeTriggerThrows, TypeOK
  <1>3. ASSUME NEW t \in Triggers, PromptThrows(t) PROVE PromptInv'
    BY <1>3, <1>d DEF PromptThrows, TypeOK
  <1>4. ASSUME NEW t \in Triggers, NEW a \in {"allow", "deny", "prompt"},
               BeforeTriggerReturns(t, a) PROVE PromptInv'
    BY <1>4, <1>a DEF BeforeTriggerReturns, TypeOK
  <1>5. ASSUME NEW t \in Triggers, NEW a \in {"approved", "rejected"}, PromptReturns(t, a)
        PROVE PromptInv'
    BY <1>5, <1>d DEF PromptReturns, TypeOK
  <1>6. ASSUME NEW t \in Triggers, NEW a, ResolveAction(t, a) PROVE PromptInv'
    <2>1. PICK to \in {"reporting", "announcing", "appending", "preparing"} :
            stage' = [stage EXCEPT ![t] = to]
      BY <1>6 DEF ResolveAction, Inject
    <2>2. stage[t] = "resolving" /\ UNCHANGED <<hookSlot, promptAborted, owed, crossed>>
      BY <1>6 DEF ResolveAction
    <2>3. stage[t] # "prompting" /\ stage'[t] # "prompting"
      BY <2>1, <2>2 DEF TypeOK
    <2>4. \A u \in Triggers \ {t} : UNCHANGED stage[u] BY <2>1 DEF TypeOK
    <2> QED BY <1>a, <2>2, <2>3, <2>4
  <1>8. ASSUME NEW t \in Triggers, ActionHookThrows(t) \/ PrepareThrows(t) \/ ListenerThrows(t)
        PROVE PromptInv'
    BY <1>8, <1>a DEF ActionHookThrows, PrepareThrows, ListenerThrows, Escapes, TypeOK
  <1>9. ASSUME NEW t \in Triggers, PromptBuilt(t) PROVE PromptInv'
    <2>1. /\ stage[t] # "prompting" /\ stage'[t] = "prompting" /\ hookSlot' = t
          /\ crossed' = Crossing(t) /\ UNCHANGED <<owed, promptAborted>>
          /\ \A u \in Triggers \ {t} : UNCHANGED stage[u]
      BY <1>9 DEF PromptBuilt, TypeOK
    <2>2. /\ \A u \in Triggers \ {t} : stage'[u] = "prompting" => u \in crossed'
          /\ \A u \in crossed : u # t => u \in crossed'
      BY <1>c, <2>1
    <2>3. t \notin owed BY <2>1 DEF PromptInv
    <2> QED BY <1>0, <2>1, <2>2, <2>3 DEF PromptInv
  <1>10. ASSUME NEW t \in Triggers, Handled(t) PROVE PromptInv'
    BY <1>10, <1>a DEF Handled, TypeOK
  <1>11. ASSUME NEW t \in Triggers, Prepared(t) PROVE PromptInv'
    BY <1>11, <1>a DEF Prepared, TypeOK
  <1>12. ASSUME NEW t \in Triggers, SelectCommits(t) PROVE PromptInv'
    BY <1>12, <1>a DEF SelectCommits, TypeOK
  <1>13. ASSUME NEW t \in Triggers, Report(t) PROVE PromptInv'
    <2>1. PICK to \in {"promoting", "done"} : stage' = [stage EXCEPT ![t] = to]
      BY <1>13 DEF Report
    <2> QED BY <1>13, <1>a, <2>1 DEF Report, TypeOK
  <1>14. ASSUME NEW t \in Triggers, Promote(t) PROVE PromptInv'
    <2>1. PICK to \in {"announcing_promotion", "appending_promotion"} :
            stage' = [stage EXCEPT ![t] = to]
      BY <1>14 DEF Promote, Inject
    <2>2. stage[t] = "promoting" /\ UNCHANGED <<hookSlot, owed, promptAborted, crossed>>
      BY <1>14 DEF Promote
    <2> QED BY <2>1, <2>2, <1>a DEF TypeOK
  <1>15. ASSUME NEW t \in Triggers, Injected(t) PROVE PromptInv'
    BY <1>15, <1>a DEF Injected, InjectStages, TypeOK
  <1>16. ASSUME NEW t \in Triggers, Promoted(t) PROVE PromptInv'
    BY <1>16, <1>a DEF Promoted, TypeOK
  <1>17. ASSUME NEW h \in Hooks, TakeTrigger(h) PROVE PromptInv'
    <2>1. Head(queue[h]) \in Triggers BY <1>17, HeadTailProperties DEF TakeTrigger, TypeOK
    <2>2. PICK to \in {"asking", "auditing"} :
            stage[Head(queue[h])] = "queued" /\ stage' = [stage EXCEPT ![Head(queue[h])] = to]
      BY <1>17 DEF TakeTrigger
    <2>3. UNCHANGED <<hookSlot, promptAborted, owed, crossed>> BY <1>17 DEF TakeTrigger
    <2> QED BY <1>a, <2>1, <2>2, <2>3 DEF TypeOK
  <1>18. CASE Abort
    <2>1. \A t \in Triggers : stage[t] = "prompting" /\ t \notin crossed => t \in {hookSlot} \cap Triggers
      BY DEF PromptInv
    <2> QED BY <1>18, <2>1 DEF Abort, PromptInv
  <1>19. ASSUME NEW r \in Runs, TurnEndBuilt(r) \/ TurnEndReturns(r) PROVE PromptInv'
    BY <1>19, <1>e DEF TurnEndBuilt, TurnEndReturns
  <1>20. ASSUME NEW r \in Runs, TurnEndThrows(r) PROVE PromptInv'
    <2>1. CASE parent[r] = "open" BY <1>20, <1>e, <2>1 DEF TurnEndThrows
    <2>2. CASE parent[r] # "open" BY <1>20, <1>b, <2>2 DEF TurnEndThrows
    <2> QED BY <2>1, <2>2
  <1> QED
    BY <1>1, <1>2, <1>3, <1>4, <1>5, <1>6, <1>8, <1>9, <1>10, <1>11, <1>12, <1>13,
       <1>14, <1>15, <1>16, <1>17, <1>18, <1>19, <1>20, <1>b
    DEF Next, CloseHook, PumpExits, AbortTrigger, AbortAllTriggers, Cancel, SubAgentSettles,
        Record, Poll, Settle, Begin, vars

Prompts ==
    \E t \in Triggers : \/ PromptBuilt(t) \/ PromptThrows(t)
                        \/ \E a \in {"approved", "rejected"} : PromptReturns(t, a)

TurnEnds == \E r \in Runs : TurnEndBuilt(r) \/ TurnEndReturns(r) \/ TurnEndThrows(r)

(* Prompts and the ends of turns are all that touches the prompts that crossed; *)
(* the loop of the parent's runs is all that touches the runs.                  *)
LEMMA OtherSteps ==
    ASSUME [Next]_vars
    PROVE  /\ UNCHANGED crossed \/ Prompts \/ TurnEnds
           /\ \/ UNCHANGED parent \/ TurnEnds
              \/ \E p \in Phases : Begin(p)
              \/ \E r \in Runs : Poll(r) \/ Settle(r)
  <1> USE DEF parentVars, runVars, pumpVars, gateVars, slotVars, loopVars, messageVars, selectVars
  <1>1. ASSUME NEW t \in Triggers, Notify(t) \/ BeforeTriggerThrows(t)
        PROVE  UNCHANGED <<crossed, parent>>
    BY <1>1 DEF Notify, BeforeTriggerThrows, PumpFails
  <1>2. ASSUME NEW t \in Triggers, NEW a, BeforeTriggerReturns(t, a) \/ ResolveAction(t, a)
        PROVE  UNCHANGED <<crossed, parent>>
    BY <1>2 DEF BeforeTriggerReturns, ResolveAction, Go
  <1>3. ASSUME NEW t \in Triggers, ActionHookThrows(t) \/ PrepareThrows(t) \/ ListenerThrows(t)
        PROVE  UNCHANGED <<crossed, parent>>
    BY <1>3 DEF ActionHookThrows, PrepareThrows, ListenerThrows, Escapes
  <1>4. ASSUME NEW t \in Triggers, Handled(t) \/ Prepared(t) \/ Record(t) \/ SelectCommits(t)
        PROVE  UNCHANGED <<crossed, parent>>
    BY <1>4 DEF Handled, Prepared, Record, SelectCommits, Go
  <1>5. ASSUME NEW t \in Triggers, Report(t) \/ Promote(t) \/ Injected(t) \/ Promoted(t)
        PROVE  UNCHANGED <<crossed, parent>>
    BY <1>5 DEF Report, Promote, Injected, Promoted, Go
  <1>6. ASSUME NEW t \in Triggers, NEW r, SubAgentSettles(t, r) PROVE UNCHANGED <<crossed, parent>>
    BY <1>6 DEF SubAgentSettles
  <1>7. ASSUME NEW h \in Hooks, CloseHook(h) \/ PumpExits(h) \/ TakeTrigger(h)
        PROVE  UNCHANGED <<crossed, parent>>
    BY <1>7 DEF CloseHook, PumpExits, TakeTrigger, Go
  <1>8. ASSUME (\E c \in Traces : AbortTrigger(c)) \/ AbortAllTriggers \/ Abort
        PROVE  UNCHANGED <<crossed, parent>>
    BY <1>8 DEF AbortTrigger, AbortAllTriggers, Cancel, Abort
  <1>9. ASSUME NEW t \in Triggers, PromptBuilt(t) \/ PromptThrows(t) \/ \E a : PromptReturns(t, a)
        PROVE  UNCHANGED parent
    BY <1>9 DEF PromptBuilt, PromptThrows, PromptReturns, PromptOver, PumpFails, Go
  <1>10. ASSUME (\E p \in Phases : Begin(p)) \/ \E r \in Runs : Poll(r) \/ Settle(r)
         PROVE  UNCHANGED crossed
    BY <1>10 DEF Begin, Poll, Settle
  <1>11. CASE UNCHANGED vars BY <1>11 DEF vars
  <1>12. CASE Next
    BY <1>1, <1>2, <1>3, <1>4, <1>5, <1>6, <1>7, <1>8, <1>9, <1>10, <1>12
    DEF Next, Prompts, TurnEnds
  <1> QED BY <1>11, <1>12

(* One pump handles one trigger at a time, so one prompt is open at most. *)
LEMMA AloneStep ==
    ASSUME OneUser, IInv, [Next]_vars PROVE AloneInv'
  <1> USE DEF IInv, parentVars, runVars, pumpVars, gateVars,
          slotVars, loopVars, messageVars, selectVars
  <1>1. AloneInv BY DEF OneUser
  <1>2. ASSUME NEW t \in Triggers, NEW u \in Triggers, stage[t] \in HandlingStages,
               stage[u] \in HandlingStages
        PROVE  t = u
    <2>1. HookOf[t] = HookOf[u] BY TriggerAssumption DEF OneUser
    <2> QED BY <1>2, <2>1 DEF SerialInv
  <1>3. ASSUME NEW t \in Triggers, stage[t] \in {"building", "prompting"}
        PROVE  Crossing(t) = {}
    BY <1>1, <1>2, <1>3 DEF Crossing, AloneInv, HandlingStages
  <1>4. crossed' = {}
    <2>1. ASSUME NEW t \in Triggers, PromptBuilt(t) PROVE crossed' = {}
      BY <1>3, <2>1 DEF PromptBuilt, Go
    <2>2. ASSUME NEW t \in Triggers, NEW a, PromptReturns(t, a) PROVE crossed' = {}
      BY <1>3, <2>2 DEF PromptReturns, PromptOver, Go
    <2>3. ASSUME NEW t \in Triggers, PromptThrows(t) PROVE crossed' = {}
      BY <1>3, <2>3 DEF PromptThrows, PromptOver, Go
    <2>4. ASSUME NEW r \in Runs, TurnEndBuilt(r) \/ TurnEndReturns(r) \/ TurnEndThrows(r)
          PROVE  FALSE
      BY <1>1, <2>4 DEF AloneInv, TurnEndBuilt, TurnEndReturns, TurnEndThrows
    <2>5. \/ UNCHANGED crossed
          \/ \E t \in Triggers : \/ PromptBuilt(t) \/ PromptThrows(t)
                               \/ \E a \in {"approved", "rejected"} : PromptReturns(t, a)
          \/ \E r \in Runs : TurnEndBuilt(r) \/ TurnEndReturns(r) \/ TurnEndThrows(r)
      BY OtherSteps DEF Prompts, TurnEnds
    <2>6. crossed = {} BY <1>1 DEF AloneInv
    <2> QED BY <2>1, <2>2, <2>3, <2>4, <2>5, <2>6
  <1>5. \A r \in Runs : parent'[r] \notin {"building", "open"}
    <2>0. parent \in [Runs -> {"none", "looping", "ending", "compacting", "building", "open"}]
      BY DEF TypeOK
    <2>1. ASSUME NEW p, Begin(p) PROVE \A r \in Runs : parent'[r] \notin {"building", "open"}
      BY <1>1, <2>0, <2>1 DEF Begin, AloneInv
    <2>2. ASSUME NEW q \in Runs, Poll(q) PROVE \A r \in Runs : parent'[r] \notin {"building", "open"}
      BY <1>1, <2>0, <2>2 DEF Poll, AloneInv
    <2>3. ASSUME NEW q \in Runs, Settle(q)
          PROVE  \A r \in Runs : parent'[r] \notin {"building", "open"}
      BY <1>1, <2>0, <2>3 DEF Settle, AloneInv, OneUser
    <2>4. ASSUME NEW r \in Runs, TurnEndBuilt(r) \/ TurnEndReturns(r) \/ TurnEndThrows(r)
          PROVE  FALSE
      BY <1>1, <2>4 DEF AloneInv, TurnEndBuilt, TurnEndReturns, TurnEndThrows
    <2>5. \/ UNCHANGED parent \/ \E p \in Phases : Begin(p)
          \/ \E r \in Runs : \/ Poll(r) \/ Settle(r)
                          \/ TurnEndBuilt(r) \/ TurnEndReturns(r) \/ TurnEndThrows(r)
      BY OtherSteps DEF TurnEnds
    <2> QED BY <1>1, <2>1, <2>2, <2>3, <2>4, <2>5 DEF AloneInv
  <1> QED BY <1>4, <1>5 DEF AloneInv

-----------------------------------------------------------------------------
LEMMA SelectStep == IInv /\ [Next]_vars => SelectInv'
  <1> SUFFICES ASSUME IInv, [Next]_vars PROVE SelectInv' OBVIOUS
  <1> USE DEF IInv, pumpVars, gateVars, parentVars, Go, SelectStages,
          slotVars, loopVars, messageVars, selectVars
  <1>a. ASSUME NEW t \in Triggers, UNCHANGED action,
               \A u \in Triggers \ {t} : UNCHANGED stage[u],
               stage'[t] \in SelectStages => stage[t] \in SelectStages
        PROVE  SelectInv'
    BY <1>a DEF SelectInv, SubAgent
  <1>b. ASSUME UNCHANGED <<stage, action>> PROVE SelectInv' BY <1>b DEF SelectInv, SubAgent
  <1>1. ASSUME NEW t \in Triggers, Notify(t) PROVE SelectInv'
    BY <1>1, <1>a DEF Notify, runVars, TypeOK
  <1>2. ASSUME NEW t \in Triggers, BeforeTriggerThrows(t) PROVE SelectInv'
    BY <1>2, <1>a DEF BeforeTriggerThrows, runVars, TypeOK
  <1>3. ASSUME NEW t \in Triggers, PromptThrows(t) PROVE SelectInv'
    BY <1>3, <1>a DEF PromptThrows, runVars, TypeOK
  <1>4. ASSUME NEW t \in Triggers, NEW a \in {"allow", "deny", "prompt"},
               BeforeTriggerReturns(t, a) PROVE SelectInv'
    BY <1>4, <1>a DEF BeforeTriggerReturns, runVars, TypeOK
  <1>5. ASSUME NEW t \in Triggers, NEW a \in {"approved", "rejected"}, PromptReturns(t, a)
        PROVE SelectInv'
    BY <1>5, <1>a DEF PromptReturns, runVars, TypeOK
  <1>6. ASSUME NEW t \in Triggers, NEW a, ResolveAction(t, a) PROVE SelectInv'
    <2>1. PICK to \in {"reporting", "announcing", "appending", "preparing"} :
            /\ stage' = [stage EXCEPT ![t] = to]
            /\ to = "preparing" => a.delivery = "sub_agent"
      BY <1>6 DEF ResolveAction, Inject
    <2>2. action' = [action EXCEPT ![t] = a] BY <1>6 DEF ResolveAction
    <2> QED BY <2>1, <2>2 DEF SelectInv, SubAgent, TypeOK
  <1>8. ASSUME NEW t \in Triggers, ActionHookThrows(t) \/ PrepareThrows(t) \/ ListenerThrows(t)
        PROVE SelectInv'
    BY <1>8, <1>a DEF ActionHookThrows, PrepareThrows, ListenerThrows, Escapes, TypeOK
  <1>9. ASSUME NEW t \in Triggers, PromptBuilt(t) PROVE SelectInv'
    BY <1>9, <1>a DEF PromptBuilt, runVars, TypeOK
  <1>10. ASSUME NEW t \in Triggers, Handled(t) PROVE SelectInv'
    BY <1>10, <1>a DEF Handled, runVars, TypeOK
  <1>11. ASSUME NEW t \in Triggers, Prepared(t) PROVE SelectInv'
    BY <1>11, <1>a DEF Prepared, runVars, TypeOK
  <1>12. ASSUME NEW t \in Triggers, SelectCommits(t) PROVE SelectInv'
    BY <1>12, <1>a DEF SelectCommits, TypeOK
  <1>13. ASSUME NEW t \in Triggers, Report(t) PROVE SelectInv'
    <2>1. PICK to \in {"promoting", "done"} : stage' = [stage EXCEPT ![t] = to] BY <1>13 DEF Report
    <2>2. stage[t] = "reporting" /\ UNCHANGED action BY <1>13 DEF Report
    <2> QED BY <2>1, <2>2, <1>a DEF TypeOK
  <1>14. ASSUME NEW t \in Triggers, Promote(t) PROVE SelectInv'
    <2>1. PICK to \in {"announcing_promotion", "appending_promotion"} :
            stage' = [stage EXCEPT ![t] = to]
      BY <1>14 DEF Promote, Inject
    <2> QED BY <1>14, <1>a, <2>1 DEF Promote, runVars, TypeOK
  <1>15. ASSUME NEW t \in Triggers, Injected(t) PROVE SelectInv'
    BY <1>15, <1>a DEF Injected, TypeOK
  <1>16. ASSUME NEW t \in Triggers, Promoted(t) PROVE SelectInv'
    BY <1>16, <1>a DEF Promoted, TypeOK
  <1>17. ASSUME NEW h \in Hooks, TakeTrigger(h) PROVE SelectInv'
    <2>1. Head(queue[h]) \in Triggers BY <1>17, HeadTailProperties DEF TakeTrigger, TypeOK
    <2> QED BY <1>17, <1>a, <2>1 DEF TakeTrigger, runVars, TypeOK
  <1> QED
    BY <1>1, <1>2, <1>3, <1>4, <1>5, <1>6, <1>8, <1>9, <1>10, <1>11, <1>12, <1>13,
       <1>14, <1>15, <1>16, <1>17, <1>b
    DEF Next, CloseHook, PumpExits, AbortTrigger, AbortAllTriggers, Cancel, Abort,
        SubAgentSettles, Record, Poll, Settle, Begin, TurnEndBuilt, TurnEndReturns, TurnEndThrows, vars, runVars

-----------------------------------------------------------------------------
(* The registry *)

LEMMA RegStep ==
    ASSUME OwnTraces, IInv, [Next]_vars PROVE RegInv'
  <1> USE TriggerAssumption DEF IInv, parentVars, gateVars, pumpVars,
          slotVars, loopVars, messageVars, selectVars
  <1> DEFINE L == {"preparing", "racing", "reporting", "promoting",
                   "announcing_promotion", "appending_promotion"}
  <1>s. \A t \in Triggers : Live(t) <=> action[t].delivery = "sub_agent" /\ stage[t] \in L
    BY DEF Live, SubAgent, SelectInv, SelectStages, PromoteStages
  <1>p. \A t \in Triggers : Live(t)' <=> action'[t].delivery = "sub_agent" /\ stage'[t] \in L
    BY SelectStep DEF Live, SubAgent, SelectInv, SelectStages, PromoteStages
  <1> HIDE DEF L
  <1>o. ASSUME NEW t \in Triggers, \A u \in Triggers \ {t} : UNCHANGED <<stage[u], action[u]>>
        PROVE  \A u \in Triggers \ {t} : Live(u)' <=> Live(u)
    BY <1>o, <1>p, <1>s
  (* A trigger stays registered, or stays out. *)
  <1>a. ASSUME NEW t \in Triggers, \A u \in Triggers \ {t} : UNCHANGED <<stage[u], action[u]>>,
               Live(t)' <=> Live(t), UNCHANGED <<running, escaped>>
        PROVE  RegInv'
    <2>1. \A u \in Triggers : Live(u)' <=> Live(u) BY <1>a, <1>o
    <2>2. \A c \in Traces : running[c] \in Triggers \cup {NoTrigger} BY DEF TypeOK
    <2> QED BY <1>a, <2>1, <2>2 DEF RegInv, RegistryExact
  <1>b. ASSUME UNCHANGED <<stage, action, running, escaped>> PROVE RegInv'
    <2>1. \A u \in Triggers : Live(u)' <=> Live(u) BY <1>b, <1>p, <1>s
    <2>2. \A c \in Traces : running[c] \in Triggers \cup {NoTrigger} BY DEF TypeOK
    <2> QED BY <1>b, <2>1, <2>2 DEF RegInv, RegistryExact
  <1>m. ASSUME NEW t \in Triggers, NEW to, stage' = [stage EXCEPT ![t] = to],
               stage[t] \in L <=> to \in L, UNCHANGED <<action, running, escaped>>
        PROVE  RegInv'
    <2>1. stage'[t] = to /\ \A u \in Triggers \ {t} : UNCHANGED <<stage[u], action[u]>>
      BY <1>m DEF TypeOK
    <2>2. Live(t)' <=> Live(t) BY <1>m, <1>p, <1>s, <2>1
    <2> QED BY <1>a, <1>m, <2>1, <2>2
  (* The end: the entry of a sub-agent goes, and it had no other. *)
  <1>f. ASSUME NEW t \in Triggers, stage' = [stage EXCEPT ![t] = "done"],
               stage[t] \in {"reporting", "announcing_promotion", "appending_promotion"},
               Finish(t), UNCHANGED <<action, escaped>>
        PROVE  RegInv'
    <2>1. stage'[t] = "done" /\ \A u \in Triggers \ {t} : UNCHANGED <<stage[u], action[u]>>
      BY <1>f DEF TypeOK
    <2>2. ~Live(t)' BY <1>p, <2>1 DEF L
    <2>3. \A u \in Triggers \ {t} : Live(u)' <=> Live(u) BY <1>o, <2>1
    <2>4. CASE action[t].delivery = "sub_agent"
      <3>1. /\ running'[TraceOf[t]] = NoTrigger
            /\ \A c \in Traces \ {TraceOf[t]} : running'[c] = running[c]
        BY <1>f, <2>4 DEF Finish, TypeOK
      <3>2. \A u \in Triggers \ {t} : TraceOf[u] \in Traces \ {TraceOf[t]} BY DEF OwnTraces
      <3>3. \A u \in Triggers : Live(u)' => running'[TraceOf[u]] = u
        BY <2>2, <2>3, <3>1, <3>2 DEF RegInv, RegistryExact
      <3>4. ASSUME NEW c \in Traces, running'[c] # NoTrigger
            PROVE  (Live(running[c])' \/ running'[c] \in escaped') /\ TraceOf[running'[c]] = c
                   /\ running'[c] = running[c]
        <4>1. c # TraceOf[t] /\ running'[c] = running[c] BY <3>1, <3>4
        <4>2. running[c] \in Triggers /\ TraceOf[running[c]] = c
          BY <3>4, <4>1 DEF RegInv, TypeOK
        <4>3. running[c] \in Triggers \ {t} BY <4>1, <4>2
        <4>4. Live(running[c]) \/ running[c] \in escaped
          BY <3>4, <4>1 DEF RegInv, RegistryExact
        <4>5. stage'[running[c]] = stage[running[c]] /\ action'[running[c]] = action[running[c]]
          BY <2>1, <4>3
        <4> QED BY <1>f, <4>1, <4>2, <4>4, <4>5 DEF Live, SubAgent
      <3> QED BY <3>3, <3>4 DEF RegInv, RegistryExact, Live, SubAgent
    <2>5. CASE action[t].delivery # "sub_agent"
      <3>1. ~Live(t) BY <1>f, <1>s, <2>5
      <3>2. UNCHANGED running BY <1>f, <2>5 DEF Finish
      <3> QED BY <1>a, <1>f, <2>1, <2>2, <3>1, <3>2
    <2> QED BY <2>4, <2>5
  <1> USE DEF Go
  <1>1. ASSUME NEW t \in Triggers, Notify(t) PROVE RegInv'
    BY <1>1, <1>m DEF Notify, runVars, L
  <1>2. ASSUME NEW t \in Triggers, BeforeTriggerThrows(t) PROVE RegInv'
    BY <1>2, <1>m DEF BeforeTriggerThrows, runVars, L
  <1>3. ASSUME NEW t \in Triggers, PromptThrows(t) PROVE RegInv'
    BY <1>3, <1>m DEF PromptThrows, runVars, L
  <1>4. ASSUME NEW t \in Triggers, NEW a \in {"allow", "deny", "prompt"},
               BeforeTriggerReturns(t, a) PROVE RegInv'
    BY <1>4, <1>m DEF BeforeTriggerReturns, runVars, L
  <1>5. ASSUME NEW t \in Triggers, NEW a \in {"approved", "rejected"}, PromptReturns(t, a)
        PROVE RegInv'
    BY <1>5, <1>m DEF PromptReturns, runVars, L
  <1>6. ASSUME NEW t \in Triggers, NEW a, ResolveAction(t, a) PROVE RegInv'
    <2>1. PICK to \in {"reporting", "announcing", "appending", "preparing"} :
            /\ stage' = [stage EXCEPT ![t] = to]
            /\ IF to = "preparing"
               THEN a.delivery = "sub_agent" /\ running' = [running EXCEPT ![TraceOf[t]] = t]
               ELSE a.delivery # "sub_agent" /\ UNCHANGED running
      BY <1>6 DEF ResolveAction, Inject
    <2>2. /\ stage[t] = "resolving" /\ action' = [action EXCEPT ![t] = a] /\ UNCHANGED escaped
      BY <1>6 DEF ResolveAction
    <2>3. \A u \in Triggers \ {t} : UNCHANGED <<stage[u], action[u]>>
      BY <2>1, <2>2 DEF TypeOK
    <2>4. ~Live(t) /\ stage'[t] = to /\ action'[t] = a BY <1>s, <2>1, <2>2 DEF TypeOK, L
    <2>5. CASE to = "preparing"
      <3>1. /\ running'[TraceOf[t]] = t
            /\ \A c \in Traces \ {TraceOf[t]} : running'[c] = running[c]
        BY <2>1, <2>5 DEF TypeOK
      <3>2. Live(t)' BY <1>p, <2>1, <2>4, <2>5 DEF L
      <3>3. \A u \in Triggers \ {t} : TraceOf[u] \in Traces \ {TraceOf[t]} BY DEF OwnTraces
      <3>4. \A u \in Triggers \ {t} : Live(u)' <=> Live(u) BY <1>o, <2>3
      <3>5. \A u \in Triggers : Live(u)' => running'[TraceOf[u]] = u
        BY <3>1, <3>3, <3>4 DEF RegInv, RegistryExact
      <3>6. ASSUME NEW c \in Traces, running'[c] # NoTrigger
            PROVE  (Live(running[c])' \/ running'[c] \in escaped') /\ TraceOf[running'[c]] = c
        <4>1. CASE c = TraceOf[t] BY <3>1, <3>2, <4>1 DEF Live, SubAgent
        <4>2. CASE c # TraceOf[t]
          <5>1. running'[c] = running[c] BY <3>1, <4>2
          <5>2. running[c] \in Triggers /\ TraceOf[running[c]] = c
            BY <3>6, <5>1 DEF RegInv, TypeOK
          <5>3. running[c] \in Triggers \ {t} BY <4>2, <5>2
          <5>4. Live(running[c]) \/ running[c] \in escaped
            BY <3>6, <5>1 DEF RegInv, RegistryExact
          <5>5. stage'[running[c]] = stage[running[c]] /\ action'[running[c]] = action[running[c]]
            BY <2>3, <5>3
          <5> QED BY <2>2, <5>1, <5>2, <5>4, <5>5 DEF Live, SubAgent
        <4> QED BY <4>1, <4>2
      <3> QED BY <3>5, <3>6 DEF RegInv, RegistryExact, Live, SubAgent
    <2>6. CASE to # "preparing"
      <3>1. ~Live(t)' /\ UNCHANGED running BY <1>p, <2>1, <2>4, <2>6 DEF L
      <3> QED BY <1>a, <2>2, <2>3, <2>4, <3>1
    <2> QED BY <2>5, <2>6
  (* What escapes leaves its entry behind. *)
  <1>8. ASSUME NEW t \in Triggers, ActionHookThrows(t) \/ PrepareThrows(t) \/ ListenerThrows(t)
        PROVE RegInv'
    <2>1. /\ UNCHANGED <<running, action>> /\ escaped' = escaped \cup {t}
          /\ stage' = [stage EXCEPT ![t] = "done"]
      BY <1>8 DEF ActionHookThrows, PrepareThrows, ListenerThrows, Escapes
    <2>2. ~Live(t)' BY <1>p, <2>1 DEF TypeOK, L
    <2>3. \A u \in Triggers \ {t} : UNCHANGED <<stage[u], action[u]>> BY <2>1 DEF TypeOK
    <2>4. \A u \in Triggers : Live(u)' => Live(u) BY <1>o, <2>2, <2>3
    <2>5. \A u \in Triggers : Live(u) => Live(u)' \/ u = t BY <1>o, <2>3
    <2>6. \A c \in Traces : running[c] \in Triggers \cup {NoTrigger} BY DEF TypeOK
    <2> QED BY <2>1, <2>4, <2>5, <2>6 DEF RegInv, RegistryExact
  <1>9. ASSUME NEW t \in Triggers, PromptBuilt(t) PROVE RegInv'
    BY <1>9, <1>m DEF PromptBuilt, runVars, L
  <1>10. ASSUME NEW t \in Triggers, Handled(t) PROVE RegInv'
    BY <1>10, <1>m DEF Handled, runVars, L
  <1>11. ASSUME NEW t \in Triggers, Prepared(t) PROVE RegInv'
    BY <1>11, <1>m DEF Prepared, runVars, L
  <1>12. ASSUME NEW t \in Triggers, SelectCommits(t) PROVE RegInv'
    BY <1>12, <1>m DEF SelectCommits, L
  <1>13. ASSUME NEW t \in Triggers, Report(t) PROVE RegInv'
    <2>1. CASE action[t].promote
      BY <1>13, <1>m, <2>1 DEF Report, L
    <2>2. CASE ~action[t].promote BY <1>13, <1>f, <2>2 DEF Report
    <2> QED BY <2>1, <2>2
  <1>14. ASSUME NEW t \in Triggers, Promote(t) PROVE RegInv'
    <2>1. PICK to \in {"announcing_promotion", "appending_promotion"} :
            stage' = [stage EXCEPT ![t] = to]
      BY <1>14 DEF Promote, Inject
    <2> QED BY <1>14, <1>m, <2>1 DEF Promote, runVars, L
  <1>15. ASSUME NEW t \in Triggers, Injected(t) PROVE RegInv'
    BY <1>15, <1>m DEF Injected, InjectStages, L
  <1>16. ASSUME NEW t \in Triggers, Promoted(t) PROVE RegInv'
    BY <1>16, <1>f DEF Promoted
  <1>17. ASSUME NEW h \in Hooks, TakeTrigger(h) PROVE RegInv'
    <2>1. Head(queue[h]) \in Triggers BY <1>17, HeadTailProperties DEF TakeTrigger, TypeOK
    <2>2. PICK to \in {"asking", "auditing"} :
            stage' = [stage EXCEPT ![Head(queue[h])] = to] /\ stage[Head(queue[h])] = "queued"
      BY <1>17 DEF TakeTrigger
    <2> QED BY <1>17, <1>m, <2>1, <2>2 DEF TakeTrigger, runVars, L
  <1> QED
    BY <1>1, <1>2, <1>3, <1>4, <1>5, <1>6, <1>8, <1>9, <1>10, <1>11, <1>12, <1>13,
       <1>14, <1>15, <1>16, <1>17, <1>b
    DEF Next, CloseHook, PumpExits, AbortTrigger, AbortAllTriggers, Cancel, Abort,
        SubAgentSettles, Record, Poll, Settle, Begin, TurnEndBuilt, TurnEndReturns, TurnEndThrows, vars, runVars

-----------------------------------------------------------------------------
(* Messages *)

LEMMA MessageStep == IInv /\ [Next]_vars => MessageInv'
  <1> SUFFICES ASSUME IInv, [Next]_vars PROVE MessageInv' OBVIOUS
  <1> USE DEF IInv, pumpVars, gateVars, parentVars, runVars,
          slotVars, loopVars, messageVars, selectVars
  <1> DEFINE Hand(why) == IF why = "inject" THEN "appending" ELSE "appending_promotion"
  <1>m. \A m \in Messages : m.trigger \in Triggers /\ m.why \in {"inject", "promote"}
                            /\ m = Message(m.trigger, m.why)
    BY DEF Messages, Message
  <1>t. \A t \in Triggers, why \in {"inject", "promote"} :
            /\ Message(t, why) \in Messages
            /\ Message(t, why).trigger = t /\ Message(t, why).why = why
    BY DEF Messages, Message
  <1>q. followUp \in Seq(Messages) /\ session \in Seq(Messages) /\ issued \subseteq Messages
    BY DEF TypeOK
  <1>w. \A why : IssuedAt(why) \subseteq {"announcing", "appending", "announcing_promotion",
                                        "appending_promotion", "done"}
    BY DEF IssuedAt
  (* In the hand of a trigger that is at the append. *)
  <1>h. /\ \A m \in Messages : m \in InHand <=> stage[m.trigger] = Hand(m.why)
        /\ \A m \in Messages : m \in InHand' <=> stage'[m.trigger] = Hand(m.why)
        /\ InHand \subseteq Messages /\ InHand' \subseteq Messages
    BY DEF InHand
  <1> HIDE DEF Hand
  <1>k. Hand("inject") = "appending" /\ Hand("promote") = "appending_promotion"
    BY DEF Hand
  (* A step that issues and moves no message: before any is issued, or from  *)
  (* announcing one to done.                                                  *)
  <1>a. ASSUME NEW t \in Triggers, NEW to, stage' = [stage EXCEPT ![t] = to],
               UNCHANGED <<followUp, session, dropped, issued>>,
               to \notin {"appending", "appending_promotion"},
               \/ stage[t] \notin {"announcing", "appending", "announcing_promotion",
                                   "appending_promotion", "done"}
               \/ stage[t] \in {"announcing", "announcing_promotion"} /\ to = "done"
        PROVE  MessageInv'
    <2>1. stage'[t] = to /\ \A u \in Triggers \ {t} : stage'[u] = stage[u]
      BY <1>a DEF TypeOK
    <2>2. \A m \in Messages : m \in InHand' <=> m \in InHand
      BY <1>a, <1>h, <1>k, <1>m, <2>1
    <2>3. InHand' = InHand BY <1>h, <2>2
    <2>4. ASSUME NEW m \in issued PROVE stage'[m.trigger] \in IssuedAt(m.why)
      <3>1. m.trigger \in Triggers BY <1>m, <1>q
      <3>2. stage[m.trigger] \in IssuedAt(m.why) BY DEF MessageInv
      <3>3. "done" \in IssuedAt(m.why) BY DEF IssuedAt
      <3> QED BY <1>a, <1>w, <2>1, <3>1, <3>2, <3>3
    <2> QED BY <1>a, <2>3, <2>4 DEF MessageInv, Apart, Places
  <1>b. ASSUME UNCHANGED <<stage, followUp, session, dropped, issued>> PROVE MessageInv'
    <2>1. InHand' = InHand BY <1>b DEF InHand
    <2> QED BY <1>b, <2>1 DEF MessageInv, Apart, Places
  (* A message is issued: it is in no place yet. *)
  <1>i. ASSUME NEW t \in Triggers, NEW why \in {"inject", "promote"}, NEW queued,
               Inject(t, why, queued, Hand(why)), queued \in IssuedAt(why) \ {Hand(why)},
               stage[t] \in {"resolving", "promoting"}, UNCHANGED <<session, dropped>>
        PROVE  MessageInv'
    <2> DEFINE m == Message(t, why)
    <2>0. m \in Messages /\ m.trigger = t /\ m.why = why BY <1>t
    <2> HIDE DEF m
    <2>1. m \notin Places
      <3>1. m \notin issued BY <1>i, <1>w, <2>0 DEF MessageInv
      <3> QED BY <3>1 DEF MessageInv
    <2>2. issued' = issued \cup {m} BY <1>i DEF Inject, m
    <2>3. PICK to \in {queued, Hand(why)} : stage' = [stage EXCEPT ![t] = to]
      BY <1>i DEF Inject
    <2>4. stage'[t] = to /\ \A u \in Triggers \ {t} : stage'[u] = stage[u]
      BY <2>3 DEF TypeOK
    <2>5. Hand(why) \in IssuedAt(why) BY <1>k DEF IssuedAt
    <2>6. ASSUME NEW n \in issued' PROVE stage'[n.trigger] \in IssuedAt(n.why)
      <3>1. CASE n = m BY <1>i, <2>0, <2>3, <2>4, <2>5, <3>1
      <3>2. CASE n # m
        <4>1. n \in issued /\ n \in Messages BY <1>q, <2>2, <2>6, <3>2
        <4>2. stage[n.trigger] \in IssuedAt(n.why) BY <4>1 DEF MessageInv
        <4>3. n.trigger \in Triggers \ {t} BY <1>i, <1>m, <1>w, <4>1, <4>2
        <4> QED BY <2>4, <4>2, <4>3
      <3> QED BY <3>1, <3>2
    <2>7. \A n \in Messages : n # m => (n \in InHand' <=> n \in InHand)
      <3>1. \A n \in Messages : n.trigger = t /\ n # m => n.why # why BY <1>m, <1>t DEF m
      <3>2. stage[t] # Hand("inject") /\ stage[t] # Hand("promote") BY <1>i, <1>k
      <3>3. \A n \in Messages : n.trigger = t /\ n # m => stage'[t] # Hand(n.why)
        BY <1>i, <1>k, <1>m, <2>3, <2>4, <3>1 DEF IssuedAt
      <3> QED BY <1>h, <1>m, <2>4, <3>2, <3>3
    <2>8. CASE followUp' = Append(followUp, m) /\ stage' = [stage EXCEPT ![t] = queued]
      <3>1. Range(followUp') = Range(followUp) \cup {m} BY <1>q, <2>0, <2>8, RangeAppend
      <3>2. IsInjective(followUp')
        <4>1. m \notin Range(followUp) /\ IsInjective(followUp)
          BY <2>1 DEF Places, MessageInv, Apart
        <4>2. IsInjective(Append(followUp, m)) BY <1>q, <2>0, <4>1, InjectiveAppend
        <4> QED BY <2>8, <4>2
      <3>3. m \notin InHand'
        <4>1. stage'[t] = queued BY <2>8 DEF TypeOK
        <4> QED BY <1>h, <1>i, <2>0, <4>1
      <3>4. m \notin InHand BY <2>1 DEF Places
      <3>5. InHand' = InHand BY <1>h, <2>7, <3>3, <3>4
      <3> QED BY <1>i, <2>1, <2>2, <2>6, <3>1, <3>2, <3>5 DEF MessageInv, Apart, Places
    <2>9. CASE UNCHANGED followUp /\ stage' = [stage EXCEPT ![t] = Hand(why)]
      <3>1. stage'[t] = Hand(why) BY <2>9 DEF TypeOK
      <3>2. m \in InHand' BY <1>h, <2>0, <3>1
      <3>3. InHand' = InHand \cup {m} BY <1>h, <2>0, <2>7, <3>2
      <3> QED BY <1>i, <2>1, <2>2, <2>6, <2>9, <3>3 DEF MessageInv, Apart, Places
    <2> QED BY <1>i, <2>8, <2>9 DEF Inject, m
  (* The append of the message in hand. *)
  <1>l. ASSUME NEW t \in Triggers, NEW why \in {"inject", "promote"}, AppendOrLose(t, why),
               stage[t] = Hand(why), stage' = [stage EXCEPT ![t] = "done"],
               UNCHANGED <<followUp, issued>>
        PROVE  MessageInv'
    <2> DEFINE m == Message(t, why)
    <2>0. m \in Messages /\ m.trigger = t /\ m.why = why BY <1>t
    <2> HIDE DEF m
    <2>1. m \in InHand BY <1>h, <1>l, <2>0
    <2>2. stage'[t] = "done" /\ \A u \in Triggers \ {t} : stage'[u] = stage[u]
      BY <1>l DEF TypeOK
    <2>3. InHand' = InHand \ {m}
      <3>1. \A n \in Messages : n.trigger = t => n \notin InHand' BY <1>h, <1>k, <1>m, <2>2
      <3>2. \A n \in Messages : n.trigger = t /\ n \in InHand => n = m
        BY <1>h, <1>k, <1>l, <1>m DEF m
      <3>3. \A n \in Messages : n.trigger # t => (n \in InHand' <=> n \in InHand)
        BY <1>h, <1>m, <2>2
      <3> QED BY <1>h, <2>0, <3>1, <3>2, <3>3
    <2>4. ASSUME NEW n \in issued PROVE stage'[n.trigger] \in IssuedAt(n.why)
      <3>1. n.trigger \in Triggers BY <1>m, <1>q
      <3>2. stage[n.trigger] \in IssuedAt(n.why) BY DEF MessageInv
      <3>3. "done" \in IssuedAt(n.why) BY DEF IssuedAt
      <3> QED BY <2>2, <3>1, <3>2, <3>3
    <2>5. m \notin Range(session) \cup Range(followUp) \cup dropped
      BY <2>1 DEF MessageInv, Apart
    <2>6. CASE session' = Append(session, m) /\ UNCHANGED dropped
      <3>1. Range(session') = Range(session) \cup {m} BY <1>q, <2>0, <2>6, RangeAppend
      <3>2. IsInjective(session')
        <4>1. IsInjective(session) BY DEF MessageInv, Apart
        <4>2. IsInjective(Append(session, m)) BY <1>q, <2>0, <2>5, <4>1, InjectiveAppend
        <4> QED BY <2>6, <4>2
      <3> QED BY <1>l, <2>1, <2>3, <2>4, <2>5, <2>6, <3>1, <3>2 DEF MessageInv, Apart, Places
    <2>7. CASE dropped' = dropped \cup {m} /\ UNCHANGED session
      BY <1>l, <2>1, <2>3, <2>4, <2>5, <2>7 DEF MessageInv, Apart, Places
    <2> QED BY <1>l, <2>6, <2>7 DEF AppendOrLose, m
  <1> USE DEF Go
  <1>1. ASSUME NEW t \in Triggers, Notify(t) PROVE MessageInv'
    BY <1>1, <1>a DEF Notify
  <1>2. ASSUME NEW t \in Triggers, BeforeTriggerThrows(t) PROVE MessageInv'
    BY <1>2, <1>a DEF BeforeTriggerThrows
  <1>3. ASSUME NEW t \in Triggers, PromptThrows(t) PROVE MessageInv'
    BY <1>3, <1>a DEF PromptThrows
  <1>4. ASSUME NEW t \in Triggers, NEW a \in {"allow", "deny", "prompt"},
               BeforeTriggerReturns(t, a) PROVE MessageInv'
    <2>1. PICK to \in {"building", "auditing"} : stage' = [stage EXCEPT ![t] = to]
      BY <1>4 DEF BeforeTriggerReturns
    <2> QED BY <1>4, <1>a, <2>1 DEF BeforeTriggerReturns
  <1>5. ASSUME NEW t \in Triggers, NEW a \in {"approved", "rejected"}, PromptReturns(t, a)
        PROVE MessageInv'
    BY <1>5, <1>a DEF PromptReturns
  <1>6. ASSUME NEW t \in Triggers, NEW a, ResolveAction(t, a) PROVE MessageInv'
    <2>1. stage[t] = "resolving" /\ UNCHANGED <<session, dropped>>
      BY <1>6 DEF ResolveAction
    <2>2. CASE Inject(t, "inject", "announcing", "appending")
      <3>1. "announcing" \in IssuedAt("inject") \ {Hand("inject")} BY <1>k DEF IssuedAt
      <3> QED BY <1>i, <1>k, <2>1, <2>2, <3>1
    <2>3. CASE UNCHANGED <<followUp, issued>> /\ (\/ stage' = [stage EXCEPT ![t] = "reporting"]
                                               \/ stage' = [stage EXCEPT ![t] = "preparing"])
      BY <1>a, <2>1, <2>3
    <2> QED BY <1>6, <2>2, <2>3 DEF ResolveAction
  <1>8. ASSUME NEW t \in Triggers, ActionHookThrows(t) \/ PrepareThrows(t) \/ ListenerThrows(t)
        PROVE MessageInv'
    <2>1. /\ Escapes(t) /\ stage[t] \in {"resolving", "preparing", "announcing", "announcing_promotion"}
      BY <1>8 DEF ActionHookThrows, PrepareThrows, ListenerThrows
    <2>2. stage' = [stage EXCEPT ![t] = "done"] /\ UNCHANGED <<followUp, session, dropped, issued>>
      BY <2>1 DEF Escapes
    <2> QED BY <1>a, <2>1, <2>2
  <1>9. ASSUME NEW t \in Triggers, PromptBuilt(t) PROVE MessageInv'
    BY <1>9, <1>a DEF PromptBuilt
  <1>10. ASSUME NEW t \in Triggers, Handled(t) PROVE MessageInv'
    <2>1. PICK to \in {"resolving", "refused"} : stage' = [stage EXCEPT ![t] = to]
      BY <1>10 DEF Handled
    <2> QED BY <1>10, <1>a, <2>1 DEF Handled
  <1>11. ASSUME NEW t \in Triggers, Prepared(t) PROVE MessageInv'
    BY <1>11, <1>a DEF Prepared
  <1>12. ASSUME NEW t \in Triggers, SelectCommits(t) PROVE MessageInv'
    BY <1>12, <1>a DEF SelectCommits
  <1>13. ASSUME NEW t \in Triggers, Report(t) PROVE MessageInv'
    <2>1. PICK to \in {"promoting", "done"} : stage' = [stage EXCEPT ![t] = to]
      BY <1>13 DEF Report
    <2> QED BY <1>13, <1>a, <2>1 DEF Report
  <1>14. ASSUME NEW t \in Triggers, Promote(t) PROVE MessageInv'
    <2>1. "announcing_promotion" \in IssuedAt("promote") \ {Hand("promote")}
      BY <1>k DEF IssuedAt
    <2> QED BY <1>14, <1>i, <1>k, <2>1 DEF Promote
  <1>15. ASSUME NEW t \in Triggers, Injected(t) PROVE MessageInv'
    <2>1. stage' = [stage EXCEPT ![t] = "done"] /\ UNCHANGED <<followUp, issued>>
      BY <1>15 DEF Injected
    <2>2. CASE stage[t] = "appending" BY <1>15, <1>k, <1>l, <2>1, <2>2 DEF Injected
    <2>3. CASE stage[t] = "announcing"
      <3>1. UNCHANGED <<session, dropped>> BY <1>15, <2>3 DEF Injected
      <3> QED BY <1>a, <2>1, <2>3, <3>1
    <2> QED BY <1>15, <2>2, <2>3 DEF Injected, InjectStages
  <1>16. ASSUME NEW t \in Triggers, Promoted(t) PROVE MessageInv'
    <2>1. stage' = [stage EXCEPT ![t] = "done"] /\ UNCHANGED <<followUp, issued>>
      BY <1>16 DEF Promoted
    <2>2. CASE stage[t] = "appending_promotion" BY <1>16, <1>k, <1>l, <2>1, <2>2 DEF Promoted
    <2>3. CASE stage[t] = "announcing_promotion"
      <3>1. UNCHANGED <<session, dropped>> BY <1>16, <2>3 DEF Promoted
      <3> QED BY <1>a, <2>1, <2>3, <3>1
    <2> QED BY <1>16, <2>2, <2>3 DEF Promoted
  <1>17. ASSUME NEW h \in Hooks, TakeTrigger(h) PROVE MessageInv'
    <2>1. Head(queue[h]) \in Triggers BY <1>17, HeadTailProperties DEF TakeTrigger, TypeOK
    <2>2. PICK to \in {"asking", "auditing"} :
            stage' = [stage EXCEPT ![Head(queue[h])] = to] /\ stage[Head(queue[h])] = "queued"
      BY <1>17 DEF TakeTrigger
    <2> QED BY <1>17, <1>a, <2>1, <2>2 DEF TakeTrigger
  (* The whole queue moves: to the session at a poll, away at an abort. *)
  <1>18. Range(<<>>) = {} /\ IsInjective(<<>>) BY DEF Range, IsInjective
  <1>19. CASE Abort
    <2>1. /\ UNCHANGED <<stage, session, issued>> /\ followUp' = <<>>
          /\ dropped' = dropped \cup Range(followUp)
      BY <1>19 DEF Abort
    <2>2. InHand' = InHand BY <2>1 DEF InHand
    <2>3. Range(followUp') = {} /\ IsInjective(followUp') BY <1>18, <2>1
    <2> QED BY <2>1, <2>2, <2>3 DEF MessageInv, Apart, Places
  <1>20. ASSUME NEW r \in Runs, Poll(r) PROVE MessageInv'
    <2>1. /\ UNCHANGED <<stage, dropped, issued>> /\ followUp' = <<>>
          /\ session' = session \o followUp
      BY <1>20 DEF Poll
    <2>2. InHand' = InHand BY <2>1 DEF InHand
    <2>3. Range(followUp') = {} /\ IsInjective(followUp') BY <1>18, <2>1
    <2>4. Range(session') = Range(session) \cup Range(followUp)
      BY <1>q, <2>1, RangeConcatenation
    <2>5. IsInjective(session')
      <3>1. IsInjective(session) /\ IsInjective(followUp) /\ Range(session) \cap Range(followUp) = {}
        BY DEF MessageInv, Apart
      <3>2. IsInjective(session \o followUp) BY <1>q, <3>1, InjectiveConcat
      <3> QED BY <2>1, <3>2
    <2> QED BY <2>1, <2>2, <2>3, <2>4, <2>5 DEF MessageInv, Apart, Places
  <1> QED
    BY <1>1, <1>2, <1>3, <1>4, <1>5, <1>6, <1>8, <1>9, <1>10, <1>11, <1>12, <1>13,
       <1>14, <1>15, <1>16, <1>17, <1>19, <1>20, <1>b
    DEF Next, CloseHook, PumpExits, AbortTrigger, AbortAllTriggers, Cancel, SubAgentSettles,
        Record, Settle, Begin, TurnEndBuilt, TurnEndReturns, TurnEndThrows, vars

LEMMA NextInv == IInv /\ [Next]_vars => IInv'
  <1> SUFFICES ASSUME IInv, [Next]_vars PROVE IInv' OBVIOUS
  <1>1. TypeOK' BY TypeStep DEF IInv
  <1>2. OneUser => AloneInv' BY AloneStep
  <1>3. OwnTraces => RegInv' BY RegStep
  <1>4. OneUser' = OneUser /\ OwnTraces' = OwnTraces BY DEF OneUser, OwnTraces
  <1> QED
    BY <1>1, <1>2, <1>3, <1>4, EndStep, RaceStep, DoomStep, SerialStep, SelectStep, PromptStep,
       MessageStep
    DEF IInv

LEMMA Invariance == Spec => []IInv
  BY InitInv, NextInv, PTL DEF Spec

-----------------------------------------------------------------------------
(* Every variable keeps its type, for any triggers, hooks and traces. *)
THEOREM ExecTypeCorrect == Spec => []TypeOK
  <1>1. IInv => TypeOK BY DEF IInv
  <1> QED BY <1>1, Invariance, PTL

(* Every accepted trigger ends with one terminal event; only a promotion   *)
(* that escapes adds a second, a failure (spawnTriggerAction).             *)
THEOREM ExecOneTerminalEvent == Spec => []OneTerminalEvent
  <1>1. IInv => OneTerminalEvent BY DEF IInv, EndInv, EndOf, OneTerminalEvent
  <1> QED BY <1>1, Invariance, PTL

(* selectBiased and its cancel case: a sub-agent that abortTrigger or       *)
(* abortAllTriggers cancelled before the outcome of its run was recorded is *)
(* never completed.  The microtasks of a select run in the order they were  *)
(* queued, and one of them separates a record from the check.               *)
THEOREM ExecCancelWins == Spec => []CancelWins
  <1>1. IInv => CancelWins BY DEF IInv, DoomInv, DoomOf, CancelWins
  <1> QED BY <1>1, Invariance, PTL

(* A message of a trigger is in one place from the moment it is issued, and *)
(* enters the parent's session once at most, through the queue or by an     *)
(* append, whatever runs, aborts and failures come between.                 *)
THEOREM ExecInjectedOnce == Spec => []InjectedOnce
  <1>1. IInv => InjectedOnce
    <2> SUFFICES ASSUME IInv PROVE InjectedOnce OBVIOUS
    <2>1. session \in Seq(Messages) /\ followUp \in Seq(Messages) BY DEF IInv, TypeOK
    <2>2. Apart /\ Places = issued BY DEF IInv, MessageInv
    <2>3. Range(session \o followUp) = Range(session) \cup Range(followUp)
      BY <2>1, RangeConcatenation
    <2>4. IsInjective(session \o followUp) BY <2>1, <2>2, InjectiveConcat DEF Apart
    <2> QED BY <2>2, <2>3, <2>4 DEF Apart, Places, InjectedOnce
  <1> QED BY <1>1, Invariance, PTL

(* The pump of a hook awaits handleTrigger: it handles the triggers of its *)
(* hook, and one of them at a time.                                        *)
THEOREM ExecHandledSerially == Spec => []SerialInv
  <1>1. IInv => SerialInv BY DEF IInv
  <1> QED BY <1>1, Invariance, PTL

(* runningTriggers is exact whenever no two triggers share a trace_id.     *)
THEOREM ExecRegistryExact == ASSUME OwnTraces PROVE Spec => []RegistryExact
  <1>1. IInv => RegistryExact BY DEF IInv, RegInv
  <1> QED BY <1>1, Invariance, PTL

(* abort reaches every open prompt whose slot nobody else has written, and  *)
(* never one that is over, for any hooks and with or without onTurnEnd.     *)
THEOREM ExecPromptsAborted == Spec => []PromptsAborted
  <1>1. IInv => PromptsAborted BY DEF IInv, PromptInv, PromptsAborted
  <1> QED BY <1>1, Invariance, PTL

(* With one notification hook and no turn-end hook nobody else writes it:   *)
(* abort reaches every open prompt.                                         *)
THEOREM ExecEveryPromptAborted == ASSUME OneUser PROVE Spec => []EveryPromptAborted
  <1>1. IInv => EveryPromptAborted
    BY DEF IInv, PromptInv, AloneInv, EveryPromptAborted
  <1> QED BY <1>1, Invariance, PTL

-----------------------------------------------------------------------------
(* TriggerRuntime: the dedup window and the hop limit, for every window,   *)
(* skew, limit and set of keys and traces.  Neither is inductive: an       *)
(* evaluation of one key prunes the entries of all the others, so the      *)
(* invariant has to say what the absence of an entry means, namely that    *)
(* the clock has already passed the end of its window.                     *)

(* Every accepted stamp of a key is either outside its window, or it is    *)
(* the latest one and the map of evaluate() still holds it.                *)
DedupInv ==
    \A k \in Keys :
        /\ \A i \in 1..Len(admissions[k]) :
              \/ clock > admissions[k][i] + Window
              \/ /\ i = Len(admissions[k])
                 /\ k \in DOMAIN dedup
                 /\ dedup[k].receivedAt = admissions[k][i]
        /\ k \in DOMAIN dedup =>
              /\ Len(admissions[k]) > 0
              /\ dedup[k].receivedAt = admissions[k][Len(admissions[k])]

(* The hop counter of a trace lies between the two counts of its history;  *)
(* a trace without a counter has been silent for longer than the window.   *)
CycleInv ==
    \A t \in TraceIds :
        /\ t \in DOMAIN cycle =>
              /\ cycle[t].lastSeenAt = chain[t].last
              /\ chain[t].accepted <= cycle[t].hopCount
              /\ cycle[t].hopCount <= chain[t].hops
        /\ t \notin DOMAIN cycle =>
              chain[t].accepted = 0 \/ clock > chain[t].last + Window

(* The trigger named by the outcome is one that could have been evaluated. *)
OutcomeInv ==
    /\ outcome.type = "deduped" => outcome.trigger.key \in Keys
    /\ outcome.type = "cycleSuppressed" => outcome.trigger.trace \in TraceIds

RuntimeInv ==
    /\ RuntimeTypeOK
    /\ DedupInv
    /\ CycleInv
    /\ OutcomeInv
    /\ AcceptedOncePerWindow
    /\ DuplicateOnlyInWindow
    /\ FirstPolicyGoverns
    /\ ChainBounded
    /\ SuppressedOnlyWhenExhausted

USE WindowAssumption, LimitAssumption, SkewAssumption, CounterAssumption,
    BoundAssumption, PolicyAssumption

(* The initial state of a new runtime satisfies the invariant. *)
LEMMA InitIInv == RuntimeInit => RuntimeInv
  <1> SUFFICES ASSUME RuntimeInit PROVE RuntimeInv
    OBVIOUS
  <1> USE DEF RuntimeInit
  <1>1. RuntimeTypeOK
    BY DEF RuntimeTypeOK, NoChain
  <1>2. DedupInv /\ AcceptedOncePerWindow /\ FirstPolicyGoverns
    BY DEF DedupInv, AcceptedOncePerWindow, FirstPolicyGoverns
  <1>3. CycleInv /\ ChainBounded
    BY DEF CycleInv, ChainBounded, NoChain
  <1>4. OutcomeInv /\ DuplicateOnlyInWindow /\ SuppressedOnlyWhenExhausted
    BY DEF OutcomeInv, DuplicateOnlyInWindow, SuppressedOnlyWhenExhausted
  <1> QED
    BY <1>1, <1>2, <1>3, <1>4 DEF RuntimeInv

(* pruneExpired keeps exactly the entries stamped at most Window before    *)
(* now, unchanged.                                                         *)
LEMMA PruneDedup ==
    ASSUME NEW map, NEW now
    PROVE  /\ DOMAIN PruneExpired(map, now)
                = {k \in DOMAIN map : ~ (map[k].receivedAt < now - Window)}
           /\ \A k \in DOMAIN PruneExpired(map, now) :
                 PruneExpired(map, now)[k] = map[k]
  BY DEF PruneExpired, Only

(* pruneExpiredCycle does the same for the hop counters. *)
LEMMA PruneCycle ==
    ASSUME NEW map, NEW now
    PROVE  /\ DOMAIN PruneExpiredCycle(map, now)
                = {t \in DOMAIN map : ~ (map[t].lastSeenAt < now - Window)}
           /\ \A t \in DOMAIN PruneExpiredCycle(map, now) :
                 PruneExpiredCycle(map, now)[t] = map[t]
  BY DEF PruneExpiredCycle, Only

(* A saturating counter stays in range. *)
LEMMA SaturatingRange ==
    ASSUME NEW n \in 0..MaxSafeInteger
    PROVE  SaturatingIncrement(n) \in 0..MaxSafeInteger
  BY DEF SaturatingIncrement

-----------------------------------------------------------------------------
(* The clock only moves stamps further into the past. *)
LEMMA TickStep == RuntimeInv /\ Tick => RuntimeInv'
  <1> SUFFICES ASSUME RuntimeInv, Tick PROVE RuntimeInv'
    OBVIOUS
  <1> USE DEF Tick, counters, history
  <1>1. RuntimeTypeOK'
    BY DEF RuntimeInv, RuntimeTypeOK, DedupEntry, CycleEntry
  <1>2. DedupInv' /\ AcceptedOncePerWindow' /\ FirstPolicyGoverns'
    BY DEF RuntimeInv, RuntimeTypeOK, DedupInv, AcceptedOncePerWindow, FirstPolicyGoverns
  <1>3. CycleInv' /\ ChainBounded'
    BY DEF RuntimeInv, RuntimeTypeOK, CycleInv, ChainBounded
  <1>4. OutcomeInv' /\ DuplicateOnlyInWindow' /\ SuppressedOnlyWhenExhausted'
    BY DEF RuntimeInv, OutcomeInv, DuplicateOnlyInWindow, SuppressedOnlyWhenExhausted
  <1> QED
    BY <1>1, <1>2, <1>3, <1>4 DEF RuntimeInv

(* The triggers RuntimeNext evaluates: known names, and a stamp of the last Skew. *)
Pending == [key : Keys, trace : TraceIds, policy : Policies, receivedAt : Stamps]

(* Pruning the hop counters preserves what CycleInv says of them. *)
LEMMA PruneCycleInv ==
    ASSUME RuntimeTypeOK, CycleInv, NEW now \in Stamps,
           cycle' = PruneExpiredCycle(cycle, now), UNCHANGED <<clock, chain>>
    PROVE  CycleInv'
  <1>1. now \in Nat /\ now <= clock /\ clock \in Nat
    BY DEF Stamps, RuntimeTypeOK
  <1>2. \A t \in DOMAIN cycle : cycle[t].lastSeenAt \in Nat
    BY DEF RuntimeTypeOK, CycleEntry
  <1>3. \A t \in TraceIds : chain[t].last \in Nat
    BY DEF RuntimeTypeOK
  <1>4. /\ DOMAIN cycle' = {t \in DOMAIN cycle : ~ (cycle[t].lastSeenAt < now - Window)}
        /\ \A t \in DOMAIN cycle' : cycle'[t] = cycle[t]
    BY PruneCycle
  <1> QED
    BY <1>1, <1>2, <1>3, <1>4 DEF CycleInv

(* A duplicate leaves the accepted stamps alone and refreshes no entry. *)
LEMMA DedupeStep ==
    ASSUME RuntimeInv, NEW trigger \in Pending, Dedupe(trigger)
    PROVE  RuntimeInv'
  <1> DEFINE k == trigger.key
             now == trigger.receivedAt
             live == PruneExpired(dedup, now)
  <1>1. /\ k \in Keys /\ trigger.trace \in TraceIds /\ now \in Stamps
        /\ now \in Nat /\ now <= clock /\ now >= clock - Skew /\ clock \in Nat
    BY DEF Pending, Stamps, RuntimeInv, RuntimeTypeOK
  <1>2. /\ DOMAIN live = {x \in DOMAIN dedup : ~ (dedup[x].receivedAt < now - Window)}
        /\ \A x \in DOMAIN live : live[x] = dedup[x]
    BY PruneDedup
  <1>3. /\ DOMAIN cycle' \subseteq DOMAIN cycle
        /\ \A t \in DOMAIN cycle' : cycle'[t] = cycle[t]
    BY DEF Dedupe, PruneExpiredCycle, Only
  <1>4. k \in DOMAIN live /\ DOMAIN dedup' = DOMAIN live
    BY DEF Dedupe, Put
  <1>5. \A x \in DOMAIN live :
            /\ dedup'[x].receivedAt = dedup[x].receivedAt
            /\ dedup'[x].policy = dedup[x].policy
            /\ dedup'[x].trace = IF x = k /\ dedup[k].policy = "latest_replaces"
                                   THEN trigger.trace ELSE dedup[x].trace
            /\ dedup'[x] \in DedupEntry
    <2>1. \A x \in DOMAIN live : live[x] = dedup[x] /\ dedup[x] \in DedupEntry
      BY <1>2 DEF RuntimeInv, RuntimeTypeOK
    <2>2. CASE dedup[k].policy = "latest_replaces"
      <3>1. dedup' = Put(live, k, [live[k] EXCEPT !.trace = trigger.trace])
        BY <1>4, <2>1, <2>2 DEF Dedupe, Replaced
      <3>2. dedup'[k] = [dedup[k] EXCEPT !.trace = trigger.trace]
        BY <3>1, <2>1, <1>4 DEF Put
      <3>3. \A x \in DOMAIN live : x # k => dedup'[x] = dedup[x]
        BY <3>1, <2>1 DEF Put
      <3> QED
        BY <3>2, <3>3, <2>1, <2>2, <1>1, <1>4 DEF DedupEntry
    <2>3. CASE dedup[k].policy # "latest_replaces"
      BY <2>1, <2>3, <1>4 DEF Dedupe
    <2> QED
      BY <2>2, <2>3
  <1>6. /\ DOMAIN arrivals' = DOMAIN arrivals
        /\ \A x \in DOMAIN arrivals :
              /\ arrivals'[x].policy = arrivals[x].policy
              /\ arrivals'[x].first = arrivals[x].first
              /\ arrivals'[x].latest = IF x = k THEN trigger.trace ELSE arrivals[x].latest
              /\ arrivals'[x] \in Arrival
    BY <1>1 DEF Dedupe, RuntimeInv, RuntimeTypeOK, Arrival
  <1>7. RuntimeTypeOK'
    <2>1. dedupedTotal' \in 0..MaxSafeInteger
      BY SaturatingRange DEF Dedupe, RuntimeInv, RuntimeTypeOK
    <2> QED
      BY <2>1, <1>2, <1>3, <1>4, <1>5, <1>6, ZenonT(30) DEF Dedupe, RuntimeInv, RuntimeTypeOK
  <1>8. DedupInv'
    <2>1. \A x \in Keys : admissions[x] \in Seq(Nat)
      BY DEF RuntimeInv, RuntimeTypeOK
    <2>2. \A x \in DOMAIN dedup : dedup[x].receivedAt \in Nat
      BY DEF RuntimeInv, RuntimeTypeOK, DedupEntry
    <2>3. admissions' = admissions /\ clock' = clock
      BY DEF Dedupe
    <2>4. ASSUME NEW x \in Keys
          PROVE  /\ \A i \in 1..Len(admissions[x]) :
                       \/ clock > admissions[x][i] + Window
                       \/ /\ i = Len(admissions[x])
                          /\ x \in DOMAIN dedup'
                          /\ dedup'[x].receivedAt = admissions[x][i]
                 /\ x \in DOMAIN dedup' =>
                       /\ Len(admissions[x]) > 0
                       /\ dedup'[x].receivedAt = admissions[x][Len(admissions[x])]
      <3>1. /\ \A i \in 1..Len(admissions[x]) :
                  \/ clock > admissions[x][i] + Window
                  \/ /\ i = Len(admissions[x])
                     /\ x \in DOMAIN dedup
                     /\ dedup[x].receivedAt = admissions[x][i]
            /\ x \in DOMAIN dedup =>
                  /\ Len(admissions[x]) > 0
                  /\ dedup[x].receivedAt = admissions[x][Len(admissions[x])]
        BY DEF RuntimeInv, DedupInv
      <3>2. x \in DOMAIN dedup' => x \in DOMAIN dedup /\ dedup'[x].receivedAt = dedup[x].receivedAt
        BY <1>2, <1>4, <1>5
      <3>3. x \in DOMAIN dedup /\ x \notin DOMAIN dedup' => clock > dedup[x].receivedAt + Window
        BY <1>1, <1>2, <1>4, <2>2
      <3> QED
        BY <3>1, <3>2, <3>3
    <2> QED
      BY <2>3, <2>4 DEF DedupInv
  <1>9. CycleInv'
    BY <1>1, PruneCycleInv DEF Dedupe, RuntimeInv
  <1>10. AcceptedOncePerWindow' /\ ChainBounded'
    BY DEF Dedupe, RuntimeInv, AcceptedOncePerWindow, ChainBounded
  <1>11. outcome'.type = "deduped" /\ outcome'.trigger = trigger
    BY DEF Dedupe
  <1>12. OutcomeInv' /\ SuppressedOnlyWhenExhausted'
    BY <1>1, <1>11 DEF OutcomeInv, SuppressedOnlyWhenExhausted
  <1>13. DuplicateOnlyInWindow'
    <2>1. /\ Len(admissions[k]) > 0
          /\ dedup[k].receivedAt = admissions[k][Len(admissions[k])]
          /\ dedup[k].receivedAt \in Nat
      BY <1>1, <1>2, <1>4 DEF RuntimeInv, RuntimeTypeOK, DedupInv, DedupEntry
    <2>2. ~ (dedup[k].receivedAt < now - Window)
      BY <1>2, <1>4
    <2>3. admissions' = admissions BY DEF Dedupe
    <2>4. admissions[k] # <<>>
      BY <2>1
    <2> QED
      BY <1>1, <1>11, <2>1, <2>2, <2>3, <2>4 DEF DuplicateOnlyInWindow
  <1>14. FirstPolicyGoverns'
    BY <1>2, <1>4, <1>5, <1>6 DEF RuntimeInv, FirstPolicyGoverns
  <1> QED
    BY <1>7, <1>8, <1>9, <1>10, <1>12, <1>13, <1>14 DEF RuntimeInv

(* Pruning the dedup map preserves what DedupInv says of it. *)
LEMMA PruneDedupInv ==
    ASSUME RuntimeTypeOK, DedupInv, NEW now \in Stamps,
           dedup' = PruneExpired(dedup, now), UNCHANGED <<clock, admissions>>
    PROVE  DedupInv'
  <1>1. now \in Nat /\ now <= clock /\ clock \in Nat
    BY DEF Stamps, RuntimeTypeOK
  <1>2. \A k \in DOMAIN dedup : dedup[k].receivedAt \in Nat
    BY DEF RuntimeTypeOK, DedupEntry
  <1>3. \A k \in Keys : admissions[k] \in Seq(Nat)
    BY DEF RuntimeTypeOK
  <1>4. /\ DOMAIN dedup' = {k \in DOMAIN dedup : ~ (dedup[k].receivedAt < now - Window)}
        /\ \A k \in DOMAIN dedup' : dedup'[k] = dedup[k]
    BY PruneDedup
  <1> QED
    BY <1>1, <1>2, <1>3, <1>4 DEF DedupInv

(* A suppressed trigger records nothing: only the pruning changes the maps. *)
LEMMA SuppressCycleStep ==
    ASSUME RuntimeInv, NEW trigger \in Pending, SuppressCycle(trigger)
    PROVE  RuntimeInv'
  <1> DEFINE now == trigger.receivedAt
             t == trigger.trace
  <1>1. /\ t \in TraceIds /\ now \in Stamps
        /\ now \in Nat /\ now <= clock /\ clock \in Nat
    BY DEF Pending, Stamps, RuntimeInv, RuntimeTypeOK
  <1>2. /\ dedup' = PruneExpired(dedup, now)
        /\ cycle' = PruneExpiredCycle(cycle, now)
        /\ UNCHANGED <<clock, acceptedTotal, dedupedTotal, admissions, arrivals, chain>>
    BY DEF SuppressCycle, history
  <1>3. /\ DOMAIN dedup' \subseteq DOMAIN dedup
        /\ \A x \in DOMAIN dedup' : dedup'[x] = dedup[x]
    BY <1>2 DEF PruneExpired, Only
  <1>4. /\ DOMAIN cycle' \subseteq DOMAIN cycle
        /\ \A x \in DOMAIN cycle' : cycle'[x] = cycle[x]
    BY <1>2 DEF PruneExpiredCycle, Only
  <1>5. RuntimeTypeOK'
    <2>1. cycleSuppressedTotal' \in 0..MaxSafeInteger
      BY SaturatingRange DEF SuppressCycle, RuntimeInv, RuntimeTypeOK
    <2> QED
      BY <2>1, <1>2, <1>3, <1>4 DEF RuntimeInv, RuntimeTypeOK
  <1>6. DedupInv'
    BY <1>1, <1>2, PruneDedupInv DEF RuntimeInv
  <1>7. CycleInv'
    BY <1>1, <1>2, PruneCycleInv DEF RuntimeInv
  <1>8. AcceptedOncePerWindow' /\ ChainBounded' /\ FirstPolicyGoverns'
    BY <1>2, <1>3 DEF RuntimeInv, AcceptedOncePerWindow, ChainBounded, FirstPolicyGoverns
  <1>9. outcome'.type = "cycleSuppressed" /\ outcome'.trigger = trigger
    BY DEF SuppressCycle
  <1>10. OutcomeInv' /\ DuplicateOnlyInWindow'
    BY <1>1, <1>9 DEF OutcomeInv, DuplicateOnlyInWindow
  <1>11. SuppressedOnlyWhenExhausted'
    <2>1. t \in DOMAIN cycle' /\ cycle'[t].hopCount >= CycleHopLimit
      BY DEF SuppressCycle, Exhausted
    <2>2. cycle[t].hopCount \in Nat \ {0} /\ chain[t].hops \in Nat
      BY <1>1, <1>4, <2>1 DEF RuntimeInv, RuntimeTypeOK, CycleEntry
    <2>3. cycle[t].hopCount <= chain[t].hops
      BY <1>1, <1>4, <2>1 DEF RuntimeInv, CycleInv
    <2> QED
      BY <1>2, <1>4, <1>9, <2>1, <2>2, <2>3 DEF SuppressedOnlyWhenExhausted
  <1> QED
    BY <1>5, <1>6, <1>7, <1>8, <1>10, <1>11 DEF RuntimeInv

(* A hop on a trace: the counter and the history move together, and a      *)
(* counter that was pruned restarts only after the history did.  "allowed" *)
(* is the guard of evaluate(); follow-up hops are not counted as accepted. *)
LEMMA HopStep ==
    ASSUME RuntimeTypeOK, CycleInv, ChainBounded,
           NEW now \in Stamps, NEW t \in TraceIds, NEW admits \in BOOLEAN,
           admits => ~ Exhausted(PruneExpiredCycle(cycle, now), t),
           cycle' = BumpHop(PruneExpiredCycle(cycle, now), t, now),
           chain' = [chain EXCEPT ![t] = Extend(@, now, admits)],
           clock' = clock
    PROVE  /\ CycleInv' /\ ChainBounded'
           /\ DOMAIN cycle' \subseteq TraceIds
           /\ \A x \in DOMAIN cycle' :
                 cycle'[x] \in CycleEntry /\ cycle'[x].lastSeenAt <= clock
           /\ chain' \in [TraceIds -> [last : Nat, accepted : Nat, hops : Nat]]
  <1> DEFINE traces == PruneExpiredCycle(cycle, now)
             c == chain[t]
  <1>1. now \in Nat /\ now <= clock /\ now >= clock - Skew /\ clock \in Nat
    BY DEF Stamps, RuntimeTypeOK
  <1>2. /\ c.last \in Nat /\ c.accepted \in Nat /\ c.hops \in Nat
        /\ c.accepted <= IF CycleHopLimit = 0 THEN 1 ELSE CycleHopLimit
    BY DEF RuntimeTypeOK, ChainBounded
  <1>3. /\ DOMAIN traces = {x \in DOMAIN cycle : ~ (cycle[x].lastSeenAt < now - Window)}
        /\ \A x \in DOMAIN traces : traces[x] = cycle[x]
    BY DEF PruneExpiredCycle, Only
  <1>4. \A x \in DOMAIN cycle : /\ x \in TraceIds
                                /\ cycle[x].lastSeenAt \in Nat
                                /\ cycle[x].hopCount \in Nat \ {0}
    BY DEF RuntimeTypeOK, CycleEntry
  <1>5. /\ DOMAIN cycle' = DOMAIN traces \cup {t}
        /\ \A x \in DOMAIN traces : x # t => cycle'[x] = cycle[x]
        /\ cycle'[t] = [lastSeenAt |-> now,
                        hopCount |-> IF t \in DOMAIN traces
                                       THEN cycle[t].hopCount + 1 ELSE 1]
    BY <1>3 DEF BumpHop, Put
  <1>6. /\ chain'[t] = Extend(c, now, admits)
        /\ \A x \in TraceIds : x # t => chain'[x] = chain[x]
        /\ chain' \in [TraceIds -> [last : Nat, accepted : Nat, hops : Nat]]
    <2>1. Extend(c, now, admits) \in [last : Nat, accepted : Nat, hops : Nat]
      BY <1>1, <1>2 DEF Extend
    <2>2. chain \in [TraceIds -> [last : Nat, accepted : Nat, hops : Nat]]
      BY DEF RuntimeTypeOK
    <2>3. chain' = [chain EXCEPT ![t] = Extend(c, now, admits)] OBVIOUS
    <2> HIDE DEF c
    <2> QED BY <2>1, <2>2, <2>3
  <1>7. /\ chain'[t].last = now
        /\ chain'[t].accepted \in Nat
        /\ chain'[t].hops \in Nat /\ chain'[t].hops >= 1
    BY <1>1, <1>2, <1>6 DEF Extend
  <1>8. ASSUME chain'[t].accepted <= cycle'[t].hopCount,
                cycle'[t].hopCount <= chain'[t].hops,
                chain'[t].accepted <= IF CycleHopLimit = 0 THEN 1 ELSE CycleHopLimit
         PROVE  /\ CycleInv' /\ ChainBounded'
                /\ DOMAIN cycle' \subseteq TraceIds
                /\ \A x \in DOMAIN cycle' :
                      cycle'[x] \in CycleEntry /\ cycle'[x].lastSeenAt <= clock
    <2>1. CycleInv'
      <3>1. \A x \in TraceIds : chain[x].last \in Nat /\ chain[x].accepted \in Nat
        BY DEF RuntimeTypeOK
      <3> QED
        BY <1>1, <1>3, <1>4, <1>5, <1>6, <1>7, <1>8, <3>1 DEF CycleInv
    <2>2. ChainBounded'
      BY <1>6, <1>8 DEF ChainBounded
    <2>3. cycle'[t] \in CycleEntry /\ cycle'[t].lastSeenAt <= clock
      BY <1>1, <1>3, <1>4, <1>5 DEF CycleEntry
    <2>4. DOMAIN cycle' \subseteq TraceIds
      BY <1>3, <1>4, <1>5
    <2>5. \A x \in DOMAIN cycle' : x # t => cycle'[x] = cycle[x] /\ x \in DOMAIN cycle
      BY <1>3, <1>5
    <2> QED
      BY <2>1, <2>2, <2>3, <2>4, <2>5 DEF RuntimeTypeOK
  <1>9. CASE t \in DOMAIN traces
    <2>1. /\ c.last = cycle[t].lastSeenAt /\ now <= c.last + Window
          /\ c.accepted <= cycle[t].hopCount /\ cycle[t].hopCount <= c.hops
      BY <1>1, <1>3, <1>4, <1>9 DEF CycleInv
    <2>2. /\ chain'[t].accepted <= c.accepted + IF admits THEN 1 ELSE 0
          /\ chain'[t].hops = c.hops + 1
      BY <1>1, <1>2, <1>6, <2>1 DEF Extend
    <2>3. admits => cycle[t].hopCount < CycleHopLimit
      BY <1>3, <1>4, <1>9 DEF Exhausted
    <2>4. /\ chain'[t].accepted <= cycle'[t].hopCount
          /\ cycle'[t].hopCount <= chain'[t].hops
      <3>1. cycle'[t].hopCount = cycle[t].hopCount + 1 /\ cycle[t].hopCount \in Nat
        BY <1>3, <1>4, <1>5, <1>9
      <3> QED
        BY <1>2, <1>7, <2>1, <2>2, <3>1
    <2>5. chain'[t].accepted <= IF CycleHopLimit = 0 THEN 1 ELSE CycleHopLimit
      BY <1>2, <1>4, <1>3, <1>7, <1>9, <2>1, <2>2, <2>3
    <2> QED
      BY <1>6, <1>8, <2>4, <2>5
  <1>10. CASE t \notin DOMAIN traces
    <2>1. c.accepted = 0 \/ clock > c.last + Window
      BY <1>1, <1>2, <1>3, <1>4, <1>10 DEF CycleInv
    <2>2. chain'[t].accepted <= 1
      BY <1>1, <1>2, <1>6, <2>1 DEF Extend
    <2>3. /\ chain'[t].accepted <= cycle'[t].hopCount
          /\ cycle'[t].hopCount <= chain'[t].hops
      BY <1>5, <1>7, <1>10, <2>2
    <2>4. chain'[t].accepted <= IF CycleHopLimit = 0 THEN 1 ELSE CycleHopLimit
      BY <1>7, <2>2
    <2> QED
      BY <1>6, <1>8, <2>3, <2>4
  <1> QED
    BY <1>9, <1>10

(* What Append does to a sequence of stamps. *)
LEMMA AppendStamp ==
    ASSUME NEW stamps \in Seq(Nat), NEW now \in Nat
    PROVE  /\ Len(stamps) \in Nat
           /\ \A i \in 1..Len(stamps) : stamps[i] \in Nat
           /\ Len(Append(stamps, now)) = Len(stamps) + 1
           /\ Append(stamps, now)[Len(stamps) + 1] = now
           /\ \A i \in 1..Len(stamps) : Append(stamps, now)[i] = stamps[i]
  OBVIOUS

(* An accepted trigger starts a new window for its key only when the last  *)
(* one is over, and takes one hop of its trace.                            *)
LEMMA AcceptStep ==
    ASSUME RuntimeInv, NEW trigger \in Pending, Accept(trigger)
    PROVE  RuntimeInv'
  <1> DEFINE k == trigger.key
             now == trigger.receivedAt
             live == PruneExpired(dedup, now)
             stamps == admissions[k]
             entry == [receivedAt |-> now, policy |-> trigger.policy,
                       trace |-> trigger.trace]
  <1>1. /\ k \in Keys /\ trigger.trace \in TraceIds /\ trigger.policy \in Policies
        /\ now \in Stamps /\ now \in Nat /\ now <= clock /\ now >= clock - Skew
        /\ clock \in Nat /\ clock' = clock
    BY DEF Pending, Stamps, RuntimeInv, RuntimeTypeOK, Accept
  <1>2. /\ DOMAIN live = {x \in DOMAIN dedup : ~ (dedup[x].receivedAt < now - Window)}
        /\ \A x \in DOMAIN live : live[x] = dedup[x]
        /\ k \notin DOMAIN live
    BY DEF Accept, PruneExpired, Only
  <1>3. /\ DOMAIN dedup' = DOMAIN live \cup {k}
        /\ dedup'[k] = entry
        /\ \A x \in DOMAIN live : x # k => dedup'[x] = dedup[x]
    BY <1>2 DEF Accept, Put
  <1>4. \A x \in Keys : admissions[x] \in Seq(Nat)
    BY DEF RuntimeInv, RuntimeTypeOK
  <1>5. \A x \in DOMAIN dedup : x \in Keys /\ dedup[x].receivedAt \in Nat
    BY DEF RuntimeInv, RuntimeTypeOK, DedupEntry
  <1>6. /\ admissions' \in [Keys -> Seq(Nat)]
        /\ admissions'[k] = Append(stamps, now)
        /\ \A x \in Keys : x # k => admissions'[x] = admissions[x]
    BY <1>1, <1>4 DEF Accept, RuntimeInv, RuntimeTypeOK
  <1>7. /\ Len(admissions'[k]) = Len(stamps) + 1
        /\ admissions'[k][Len(stamps) + 1] = now
        /\ \A i \in 1..Len(stamps) : admissions'[k][i] = stamps[i]
        /\ Len(stamps) \in Nat
        /\ \A i \in 1..Len(stamps) : stamps[i] \in Nat
    <2>1. stamps \in Seq(Nat) /\ now \in Nat
      BY <1>1, <1>4
    <2>2. admissions'[k] = Append(stamps, now)
      BY <1>6
    <2> HIDE DEF stamps, now, k
    <2> QED
      BY <2>1, <2>2, AppendStamp
  <1>8. \A i \in 1..Len(stamps) : clock > stamps[i] + Window
    <2>1. SUFFICES ASSUME NEW i \in 1..Len(stamps), ~ (clock > stamps[i] + Window)
                   PROVE  FALSE
      OBVIOUS
    <2>2. k \in DOMAIN dedup /\ dedup[k].receivedAt = stamps[i]
      BY <1>1, <2>1 DEF RuntimeInv, DedupInv
    <2> QED
      BY <1>1, <1>2, <1>7, <2>1, <2>2
  <1>9. DedupInv'
    <2>1. ASSUME NEW x \in Keys, x # k
          PROVE  /\ \A i \in 1..Len(admissions'[x]) :
                       \/ clock' > admissions'[x][i] + Window
                       \/ /\ i = Len(admissions'[x])
                          /\ x \in DOMAIN dedup'
                          /\ dedup'[x].receivedAt = admissions'[x][i]
                 /\ x \in DOMAIN dedup' =>
                       /\ Len(admissions'[x]) > 0
                       /\ dedup'[x].receivedAt = admissions'[x][Len(admissions'[x])]
      <3>1. admissions'[x] = admissions[x] /\ admissions[x] \in Seq(Nat)
        BY <1>4, <1>6, <2>1
      <3>2. \A i \in 1..Len(admissions[x]) : admissions[x][i] \in Nat
        BY <3>1
      <3>3. x \in DOMAIN dedup' <=> x \in DOMAIN live
        BY <1>3, <2>1
      <3>4. x \in DOMAIN dedup' => dedup'[x] = dedup[x] /\ x \in DOMAIN dedup
        BY <1>2, <1>3, <2>1
      <3>5. x \in DOMAIN dedup /\ x \notin DOMAIN live =>
               clock > dedup[x].receivedAt + Window
        BY <1>1, <1>2, <1>5
      <3> QED
        BY <1>1, <3>1, <3>2, <3>3, <3>4, <3>5 DEF RuntimeInv, DedupInv
    <2>2. /\ \A i \in 1..Len(admissions'[k]) :
                \/ clock' > admissions'[k][i] + Window
                \/ /\ i = Len(admissions'[k])
                   /\ k \in DOMAIN dedup'
                   /\ dedup'[k].receivedAt = admissions'[k][i]
          /\ Len(admissions'[k]) > 0
          /\ dedup'[k].receivedAt = admissions'[k][Len(admissions'[k])]
      <3>1. k \in DOMAIN dedup' /\ dedup'[k].receivedAt = now
        BY <1>3
      <3>2. ASSUME NEW i \in 1..Len(admissions'[k])
            PROVE  i \in 1..Len(stamps) \/ i = Len(stamps) + 1
        BY <1>7
      <3>3. \A i \in 1..Len(stamps) : clock' > admissions'[k][i] + Window
        BY <1>1, <1>7, <1>8
      <3>4. Len(admissions'[k]) > 0 /\ admissions'[k][Len(admissions'[k])] = now
        BY <1>7
      <3> HIDE DEF stamps, now, k
      <3> QED
        BY <1>7, <3>1, <3>2, <3>3, <3>4
    <2> QED
      BY <2>1, <2>2 DEF DedupInv
  <1>10. AcceptedOncePerWindow'
    <2>1. ASSUME NEW i \in 1..Len(admissions'[k]), NEW j \in 1..Len(admissions'[k]), i < j
          PROVE  admissions'[k][j] > admissions'[k][i] + Window - Skew
      <3>1. i \in 1..Len(stamps) /\ (j \in 1..Len(stamps) \/ j = Len(stamps) + 1)
        BY <1>7, <2>1
      <3>2. CASE j \in 1..Len(stamps)
        BY <1>1, <1>7, <2>1, <3>1, <3>2 DEF RuntimeInv, AcceptedOncePerWindow
      <3>3. CASE j = Len(stamps) + 1
        <4>1. admissions'[k][j] = now /\ admissions'[k][i] = stamps[i] /\ stamps[i] \in Nat
          BY <1>7, <3>1, <3>3
        <4>2. clock > stamps[i] + Window
          BY <1>8, <3>1
        <4>3. now \in Nat /\ now <= clock /\ now >= clock - Skew /\ clock \in Nat
          BY <1>1
        <4> HIDE DEF now, stamps
        <4> QED
          BY <4>1, <4>2, <4>3
      <3> QED
        BY <3>1, <3>2, <3>3
    <2>2. ASSUME NEW x \in Keys, x # k,
                 NEW i \in 1..Len(admissions'[x]), NEW j \in 1..Len(admissions'[x]), i < j
          PROVE  admissions'[x][j] > admissions'[x][i] + Window - Skew
      BY <1>6, <2>2 DEF RuntimeInv, AcceptedOncePerWindow
    <2> QED
      BY <2>1, <2>2 DEF AcceptedOncePerWindow
  <1>11. /\ CycleInv' /\ ChainBounded'
         /\ DOMAIN cycle' \subseteq TraceIds
         /\ \A x \in DOMAIN cycle' :
               cycle'[x] \in CycleEntry /\ cycle'[x].lastSeenAt <= clock
         /\ chain' \in [TraceIds -> [last : Nat, accepted : Nat, hops : Nat]]
    BY <1>1, HopStep DEF Accept, RuntimeInv
  <1>12. /\ DOMAIN arrivals' = DOMAIN arrivals \cup {k}
         /\ arrivals'[k] = [policy |-> trigger.policy, first |-> trigger.trace,
                            latest |-> trigger.trace]
         /\ \A x \in DOMAIN arrivals : x # k => arrivals'[x] = arrivals[x]
    BY DEF Accept, Put
  <1>13. FirstPolicyGoverns'
    BY <1>2, <1>3, <1>12 DEF RuntimeInv, FirstPolicyGoverns
  <1>14. RuntimeTypeOK'
    <2>1. acceptedTotal' \in 0..MaxSafeInteger
      BY SaturatingRange DEF Accept, RuntimeInv, RuntimeTypeOK
    <2>2. /\ DOMAIN dedup' \subseteq Keys
          /\ \A x \in DOMAIN dedup' : dedup'[x] \in DedupEntry /\ dedup'[x].receivedAt <= clock
      <3>1. entry \in DedupEntry /\ entry.receivedAt <= clock
        BY <1>1 DEF DedupEntry
      <3>2. \A x \in DOMAIN dedup' : x # k => x \in DOMAIN dedup /\ dedup'[x] = dedup[x]
        BY <1>2, <1>3
      <3>3. k \in DOMAIN dedup' => dedup'[k] = entry
        BY <1>3
      <3> QED
        BY <1>1, <1>2, <1>3, <3>1, <3>2, <3>3 DEF RuntimeInv, RuntimeTypeOK
    <2>3. /\ DOMAIN arrivals' \subseteq Keys
          /\ \A x \in DOMAIN arrivals' : arrivals'[x] \in Arrival
      BY <1>1, <1>12 DEF RuntimeInv, RuntimeTypeOK, Arrival
    <2>4. UNCHANGED <<clock, dedupedTotal, cycleSuppressedTotal>>
      BY DEF Accept
    <2> QED
      BY <1>1, <1>6, <1>11, <2>1, <2>2, <2>3, <2>4 DEF RuntimeInv, RuntimeTypeOK
  <1>15. OutcomeInv' /\ DuplicateOnlyInWindow' /\ SuppressedOnlyWhenExhausted'
    <2>1. outcome'.type = "accept"
      BY DEF Accept
    <2> QED
      BY <2>1 DEF OutcomeInv, DuplicateOnlyInWindow, SuppressedOnlyWhenExhausted
  <1> QED
    BY <1>9, <1>10, <1>11, <1>13, <1>14, <1>15 DEF RuntimeInv

(* A follow-up hop moves one counter and its history. *)
LEMMA FollowUpStep ==
    ASSUME RuntimeInv, NEW t \in TraceIds, NEW now \in Stamps, RecordFollowUpHop(t, now)
    PROVE  RuntimeInv'
  <1> USE DEF RecordFollowUpHop, counters
  <1>1. /\ CycleInv' /\ ChainBounded'
        /\ DOMAIN cycle' \subseteq TraceIds
        /\ \A x \in DOMAIN cycle' :
              cycle'[x] \in CycleEntry /\ cycle'[x].lastSeenAt <= clock
        /\ chain' \in [TraceIds -> [last : Nat, accepted : Nat, hops : Nat]]
    BY HopStep DEF RuntimeInv
  <1>2. RuntimeTypeOK'
    BY <1>1 DEF RuntimeInv, RuntimeTypeOK
  <1>3. DedupInv' /\ AcceptedOncePerWindow' /\ FirstPolicyGoverns'
    BY DEF RuntimeInv, DedupInv, AcceptedOncePerWindow, FirstPolicyGoverns
  <1>4. OutcomeInv' /\ DuplicateOnlyInWindow' /\ SuppressedOnlyWhenExhausted'
    BY DEF OutcomeInv, DuplicateOnlyInWindow, SuppressedOnlyWhenExhausted
  <1> QED
    BY <1>1, <1>2, <1>3, <1>4 DEF RuntimeInv

(* Every step of the runtime preserves the invariant. *)
LEMMA NextIInv == RuntimeInv /\ [RuntimeNext]_runtimeVars => RuntimeInv'
  <1> SUFFICES ASSUME RuntimeInv, [RuntimeNext]_runtimeVars PROVE RuntimeInv'
    OBVIOUS
  <1>1. CASE Tick
    BY <1>1, TickStep
  <1>2. ASSUME NEW k \in Keys, NEW t \in TraceIds, NEW p \in Policies, NEW s \in Stamps,
               Evaluate([key |-> k, trace |-> t, policy |-> p, receivedAt |-> s])
        PROVE  RuntimeInv'
    <2> DEFINE trigger == [key |-> k, trace |-> t, policy |-> p, receivedAt |-> s]
    <2>1. trigger \in Pending
      BY DEF Pending
    <2> HIDE DEF trigger
    <2>2. Dedupe(trigger) \/ SuppressCycle(trigger) \/ Accept(trigger)
      BY <1>2 DEF Evaluate, trigger
    <2> QED
      BY <2>1, <2>2, DedupeStep, SuppressCycleStep, AcceptStep
  <1>3. ASSUME NEW t \in TraceIds, NEW s \in Stamps, RecordFollowUpHop(t, s)
        PROVE  RuntimeInv'
    BY <1>3, FollowUpStep
  <1>4. CASE UNCHANGED runtimeVars
    BY <1>4 DEF runtimeVars, counters, history, RuntimeInv, RuntimeTypeOK, DedupInv, CycleInv, OutcomeInv,
                AcceptedOncePerWindow, DuplicateOnlyInWindow, FirstPolicyGoverns,
                ChainBounded, SuppressedOnlyWhenExhausted
  <1> QED
    BY <1>1, <1>2, <1>3, <1>4 DEF RuntimeNext

(* The invariant holds in every reachable state. *)
LEMMA AlwaysIInv == RuntimeSpec => []RuntimeInv
  BY InitIInv, NextIInv, PTL DEF RuntimeSpec

(* The runtime keeps its maps well formed and its counters inside the safe *)
(* integers (trigger-runtime.ts).                                          *)
THEOREM TriggerTypeCorrect == RuntimeSpec => []RuntimeTypeOK
  <1>1. RuntimeInv => RuntimeTypeOK BY DEF RuntimeInv
  <1> QED BY <1>1, AlwaysIInv, PTL

(* evaluate() accepts a key at most once per window, whatever other sources *)
(* evaluate, and prune, in between.                                         *)
THEOREM TriggerAcceptedOnce == RuntimeSpec => []AcceptedOncePerWindow
  <1>1. RuntimeInv => AcceptedOncePerWindow BY DEF RuntimeInv
  <1> QED BY <1>1, AlwaysIInv, PTL

(* The window does not slide under a stream of duplicates. *)
THEOREM TriggerDuplicates == RuntimeSpec => []DuplicateOnlyInWindow
  <1>1. RuntimeInv => DuplicateOnlyInWindow BY DEF RuntimeInv
  <1> QED BY <1>1, AlwaysIInv, PTL

(* The first arrival's policy governs the whole window. *)
THEOREM TriggerFirstPolicy == RuntimeSpec => []FirstPolicyGoverns
  <1>1. RuntimeInv => FirstPolicyGoverns BY DEF RuntimeInv
  <1> QED BY <1>1, AlwaysIInv, PTL

(* A trace is suppressed exactly when it has used up its hops. *)
THEOREM TriggerSuppression == RuntimeSpec => []SuppressedExactly
  <1>1. RuntimeInv => SuppressedExactly BY DEF RuntimeInv, SuppressedExactly
  <1> QED BY <1>1, AlwaysIInv, PTL

================================================================================
