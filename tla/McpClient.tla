------------------------------ MODULE McpClient ------------------------------
(***************************************************************************)
(* The MCP client of packages/mcp: requests over a transport, the table of *)
(* requests in flight, and the read pump that settles them                 *)
(* (client.ts, internal/async-utils.ts), over either transport: a child    *)
(* process on stdio (stdio.ts) or streamable HTTP (http.ts).               *)
(*                                                                         *)
(* A call is one use of initialize(), toolsList() or toolsCall().          *)
(* request() awaits sendLine before it looks at the deadline and at the    *)
(* abort signal, so "sending" and "waiting" are two states, and the answer *)
(* can arrive in either.  The server answers what it has received, in any  *)
(* order, as often as it likes, or not at all.                             *)
(*                                                                         *)
(* The table maps a request's id to its resolver; here it is the set of    *)
(* the calls whose resolver is in it, and an id finds its call by IdOf.    *)
(***************************************************************************)
EXTENDS Naturals, Sequences

CONSTANTS
    Calls,          \* one element per call the consumers make
    Kinds,          \* the transports considered
    MaxLines,       \* bound: lines the server leaves unread in the channel
    MaxAttempts     \* reconnectPolicy.maxAttempts

ASSUME KindsAssumption == Kinds \subseteq {"stdio", "http"}
ASSUME BoundsAssumption == MaxLines \in Nat /\ MaxAttempts \in Nat \ {0}

VARIABLES
    kind,           \* the transport of this client
    nextId,         \* the id of the next request
    inflight,       \* the calls with a resolver in the table
    initialized,    \* the handshake has completed
    pump,           \* the read pump: "reading" or "stopped"
    st,             \* call -> where it is
    op,             \* call -> "initialize" or "tools"
    id,             \* call -> its request id, 0 while it has none
    settled,        \* call -> what its promise was resolved with
    aborted,        \* call -> its signal has fired
    out,            \* call -> how it ended
    lines,          \* the transport's line channel
    received,       \* ids of the requests the server has got
    link,           \* stdio: the child is "up" or "down"
    stuck,          \* stdio: the child has stopped reading its stdin
    eof,            \* stdio: the child's stdout has ended or broken
    sse,            \* http: the GET stream
    attempts,       \* http: failed attempts of the GET in a row
    closed,         \* close() has been called
    late            \* history: calls registered after the pump had stopped

request == <<nextId, inflight, op, id, late>>
call == <<st, out>>
stream == <<sse, attempts>>
child == <<link, stuck, eof>>
vars == <<kind, request, initialized, pump, call, settled, aborted, lines,
          received, child, stream, closed>>

-----------------------------------------------------------------------------
(* What a promise is resolved with, and what the channel holds *)

Nothing == [what |-> "nothing"]
TransportClosed == [what |-> "closed"]
Answer(i, good) == [what |-> "answer", id |-> i, good |-> good]
(* A line the pump passes over: unparsable, or a notification. *)
Other == [what |-> "other"]
(* The channel is closed, or hands out an error. *)
End == [what |-> "end"]

Live(c) == st[c] \in {"sending", "waiting", "cancelling"}
Awaiting(c) == st[c] \in {"sending", "waiting"} /\ settled[c] = Nothing

Init ==
    /\ kind \in Kinds
    /\ nextId = 1 /\ inflight = {} /\ late = {}
    /\ initialized = FALSE /\ closed = FALSE
    /\ pump = "reading"
    /\ st = [c \in Calls |-> "idle"]
    /\ op = [c \in Calls |-> "tools"]
    /\ id = [c \in Calls |-> 0]
    /\ settled = [c \in Calls |-> Nothing]
    /\ aborted = [c \in Calls |-> FALSE]
    /\ out = [c \in Calls |-> "none"]
    /\ lines = << >> /\ received = {}
    /\ link = "up" /\ stuck = FALSE /\ eof = FALSE
    /\ sse = IF kind = "http" THEN "connecting" ELSE "over"
    /\ attempts = 0

-----------------------------------------------------------------------------
(* A call, step by step *)

Ends(c, how) ==
    /\ st' = [st EXCEPT ![c] = "done"]
    /\ out' = [out EXCEPT ![c] = how]

(* request()'s finally deletes the id on every way out. *)
Forget(c) ==
    /\ inflight' = {d \in inflight : id[d] # id[c]}
    /\ UNCHANGED <<nextId, op, id, late>>

NotInitialized(c) ==
    /\ st[c] = "idle" /\ ~initialized
    /\ Ends(c, "notInitialized")
    /\ UNCHANGED <<kind, request, initialized, pump, settled, aborted, lines,
                   received, child, stream, closed>>

(* The parameters cannot be serialised: the id is spent, nothing registered. *)
Unserialisable(c) ==
    /\ st[c] = "idle" /\ initialized
    /\ Ends(c, "protocol")
    /\ nextId' = nextId + 1
    /\ UNCHANGED <<kind, inflight, op, id, late, initialized, pump, settled,
                   aborted, lines, received, child, stream, closed>>

(* Mutant: the id is not advanced when it is taken. *)
StaleNextId == nextId

NextIdAfter == nextId + 1

(* An initialize, or a tools call once the handshake is done. *)
Request(c) ==
    /\ st[c] = "idle"
    /\ \E o \in {"initialize", "tools"} :
          /\ o = "tools" => initialized
          /\ op' = [op EXCEPT ![c] = o]
    /\ id' = [id EXCEPT ![c] = nextId]
    /\ nextId' = NextIdAfter
    /\ inflight' = {d \in inflight : id[d] # nextId} \cup {c}
    /\ st' = [st EXCEPT ![c] = "sending"]
    /\ late' = IF pump = "stopped" THEN late \cup {c} ELSE late
    /\ UNCHANGED <<kind, initialized, pump, settled, aborted, out, lines,
                   received, child, stream, closed>>

(* The server has the request before sendLine reports it sent. *)
Deliver(c) ==
    /\ st[c] = "sending" /\ link = "up" /\ ~stuck
    /\ received' = received \cup {id[c]}
    /\ UNCHANGED <<kind, request, initialized, pump, call, settled, aborted,
                   lines, child, stream, closed>>

(* sendLine returns; the deadline is armed and the signal looked at only now. *)
Sent(c) ==
    /\ st[c] = "sending" /\ link = "up" /\ ~stuck
    /\ st' = [st EXCEPT ![c] = "waiting"]
    /\ received' = received \cup {id[c]}
    /\ UNCHANGED <<kind, request, initialized, pump, settled, aborted, out,
                   lines, child, stream, closed>>

(* The write fails once the child is gone; a POST can fail, or run into its *)
(* own timeout, whether the server has seen it or not.                      *)
SendFails(c) ==
    /\ st[c] = "sending"
    /\ kind = "http" \/ link = "down"
    /\ Ends(c, "transport")
    /\ Forget(c)
    /\ UNCHANGED <<kind, initialized, pump, settled, aborted, lines, received,
                   child, stream, closed>>

(* The answer, or the drain, reaches the caller; initialize() goes on. *)
Settle(c) ==
    /\ st[c] = "waiting" /\ settled[c] # Nothing
    /\ Forget(c)
    /\ IF settled[c].what = "answer" /\ settled[c].good
          THEN IF op[c] = "initialize"
                  THEN st' = [st EXCEPT ![c] = "noting"] /\ UNCHANGED out
                  ELSE Ends(c, "result")
          ELSE Ends(c, "error")
    /\ UNCHANGED <<kind, initialized, pump, settled, aborted, lines, received,
                   child, stream, closed>>

(* notifications/initialized has been sent. *)
Initialized(c) ==
    /\ st[c] = "noting" /\ link = "up" /\ ~stuck
    /\ Ends(c, "result")
    /\ initialized' = TRUE
    /\ UNCHANGED <<kind, request, pump, settled, aborted, lines, received,
                   child, stream, closed>>

NoteFails(c) ==
    /\ st[c] = "noting"
    /\ kind = "http" \/ link = "down"
    /\ Ends(c, "transport")
    /\ UNCHANGED <<kind, request, initialized, pump, settled, aborted, lines,
                   received, child, stream, closed>>

(* Mutant: only the pump removes entries, a deadline leaves its own behind. *)
ForgetfulDeadline(c) ==
    /\ st[c] = "waiting" /\ settled[c] = Nothing
    /\ Ends(c, "timeout")
    /\ UNCHANGED <<kind, request, initialized, pump, settled, aborted, lines,
                   received, child, stream, closed>>

(* Mutant: the deadline counts on the pump being there to answer first. *)
PumpBoundDeadline(c) ==
    /\ st[c] = "waiting" /\ settled[c] = Nothing /\ pump = "reading"
    /\ Ends(c, "timeout")
    /\ Forget(c)
    /\ UNCHANGED <<kind, initialized, pump, settled, aborted, lines, received,
                   child, stream, closed>>

(* The deadline fires on a promise that has not been resolved. *)
Deadline(c) ==
    /\ st[c] = "waiting" /\ settled[c] = Nothing
    /\ Ends(c, "timeout")
    /\ Forget(c)
    /\ UNCHANGED <<kind, initialized, pump, settled, aborted, lines, received,
                   child, stream, closed>>

(* Only toolsCall() takes a signal. *)
Abort(c) ==
    /\ Live(c) /\ op[c] = "tools" /\ ~aborted[c]
    /\ aborted' = [aborted EXCEPT ![c] = TRUE]
    /\ UNCHANGED <<kind, request, initialized, pump, call, settled, lines,
                   received, child, stream, closed>>

(* The signal wins the race; notifications/cancelled goes out first, for at *)
(* most CANCEL_NOTIFY_SEND_BUDGET_MS, with the entry still in the table.    *)
Cancel(c) ==
    /\ st[c] = "waiting" /\ aborted[c]
    /\ st' = [st EXCEPT ![c] = "cancelling"]
    /\ UNCHANGED <<kind, request, initialized, pump, settled, aborted, out,
                   lines, received, child, stream, closed>>

Cancelled(c) ==
    /\ st[c] = "cancelling"
    /\ Ends(c, "cancelled")
    /\ Forget(c)
    /\ UNCHANGED <<kind, initialized, pump, settled, aborted, lines, received,
                   child, stream, closed>>

-----------------------------------------------------------------------------
(* The read pump, and the table it settles *)

Resolve(cs, with) ==
    settled' = [c \in Calls |-> IF c \in cs THEN with ELSE settled[c]]

PumpAnswer ==
    /\ pump = "reading" /\ lines # << >> /\ Head(lines).what = "answer"
    /\ lines' = Tail(lines)
    /\ LET hit == {c \in inflight : id[c] = Head(lines).id}
       IN  /\ Resolve(hit, Head(lines))
           /\ inflight' = inflight \ hit
    /\ UNCHANGED <<kind, nextId, op, id, late, initialized, pump, call,
                   aborted, received, child, stream, closed>>

PumpOther ==
    /\ pump = "reading" /\ lines # << >> /\ Head(lines) = Other
    /\ lines' = Tail(lines)
    /\ UNCHANGED <<kind, request, initialized, pump, call, settled, aborted,
                   received, child, stream, closed>>

(* Mutant: the pump stops without draining the table. *)
PumpEndUndrained ==
    /\ pump = "reading" /\ lines # << >> /\ Head(lines) = End
    /\ pump' = "stopped" /\ lines' = Tail(lines)
    /\ UNCHANGED <<kind, request, initialized, call, settled, aborted,
                   received, child, stream, closed>>

(* drainInflightOnClose() *)
PumpEnd ==
    /\ pump = "reading" /\ lines # << >> /\ Head(lines) = End
    /\ pump' = "stopped" /\ lines' = Tail(lines)
    /\ Resolve(inflight, TransportClosed)
    /\ inflight' = {}
    /\ UNCHANGED <<kind, nextId, op, id, late, initialized, call, aborted,
                   received, child, stream, closed>>

-----------------------------------------------------------------------------
(* The transports and the server behind them *)

Push(line) == lines' = Append(lines, line)

(* A POST's body can bring the answer while sendLine is still awaited; the   *)
(* streams that could bring one later end with close().                     *)
Reachable(i) ==
    \/ kind = "stdio" /\ ~eof
    \/ kind = "http" /\ ~closed
    \/ kind = "http" /\ \E c \in Calls : st[c] = "sending" /\ id[c] = i

ServerAnswers ==
    /\ Len(lines) < MaxLines
    /\ \E i \in received, good \in BOOLEAN : Reachable(i) /\ Push(Answer(i, good))
    /\ UNCHANGED <<kind, request, initialized, pump, call, settled, aborted,
                   received, child, stream, closed>>

ServerSays ==
    /\ Len(lines) < MaxLines
    /\ (kind = "stdio" /\ ~eof) \/ sse = "streaming"
    /\ Push(Other)
    /\ UNCHANGED <<kind, request, initialized, pump, call, settled, aborted,
                   received, child, stream, closed>>

(* The child exits: writes to it fail, what it wrote can still be read.      *)
ChildExits ==
    /\ kind = "stdio" /\ link = "up"
    /\ link' = "down"
    /\ UNCHANGED <<kind, request, initialized, pump, call, settled, aborted,
                   lines, received, stuck, eof, stream, closed>>

(* Its stdout ends, or breaks, before or after that: the channel is closed.  *)
StdoutEnds ==
    /\ kind = "stdio" /\ ~eof
    /\ eof' = TRUE /\ Push(End)
    /\ UNCHANGED <<kind, request, initialized, pump, call, settled, aborted,
                   received, link, stuck, stream, closed>>

ChildStalls ==
    /\ kind = "stdio" /\ link = "up" /\ ~stuck
    /\ stuck' = TRUE
    /\ UNCHANGED <<kind, request, initialized, pump, call, settled, aborted,
                   lines, received, link, eof, stream, closed>>

ChildResumes ==
    /\ stuck
    /\ stuck' = FALSE
    /\ UNCHANGED <<kind, request, initialized, pump, call, settled, aborted,
                   lines, received, link, eof, stream, closed>>

StreamOpens ==
    /\ sse = "connecting" /\ sse' = "streaming"
    /\ UNCHANGED <<kind, request, initialized, pump, call, settled, aborted,
                   lines, received, child, attempts, closed>>

(* A clean end of the stream starts the count of failures afresh. *)
StreamEnds ==
    /\ sse = "streaming"
    /\ sse' = "sleeping" /\ attempts' = 0
    /\ UNCHANGED <<kind, request, initialized, pump, call, settled, aborted,
                   lines, received, child, closed>>

(* A failure to connect, or while reading; the last one allowed puts an      *)
(* error in the channel, which stops the pump.                              *)
StreamFails ==
    /\ sse \in {"connecting", "streaming"}
    /\ attempts' = attempts + 1
    /\ IF attempts' >= MaxAttempts
          THEN sse' = "over" /\ Push(End)
          ELSE sse' = "sleeping" /\ UNCHANGED lines
    /\ UNCHANGED <<kind, request, initialized, pump, call, settled, aborted,
                   received, child, closed>>

StreamRetries ==
    /\ sse = "sleeping" /\ sse' = "connecting"
    /\ UNCHANGED <<kind, request, initialized, pump, call, settled, aborted,
                   lines, received, child, attempts, closed>>

(* The child is killed; the GET stream is given up, and the channel of an    *)
(* HTTP transport stays open.                                               *)
Close ==
    /\ ~closed
    /\ closed' = TRUE
    /\ initialized' = FALSE
    /\ IF kind = "stdio"
          THEN link' = "down" /\ UNCHANGED sse
          ELSE sse' = "over" /\ UNCHANGED link
    /\ UNCHANGED <<kind, request, pump, call, settled, aborted, lines, received,
                   stuck, eof, attempts>>

-----------------------------------------------------------------------------
Returns(c) ==
    \/ Sent(c) \/ SendFails(c) \/ Settle(c) \/ Deadline(c) \/ Cancelled(c)
    \/ Initialized(c) \/ NoteFails(c)

CallStep(c) ==
    \/ NotInitialized(c) \/ Unserialisable(c) \/ Request(c)
    \/ Deliver(c) \/ Abort(c) \/ Cancel(c) \/ Returns(c)

PumpStep == PumpAnswer \/ PumpOther \/ PumpEnd

PeerStep ==
    \/ ServerAnswers \/ ServerSays
    \/ ChildExits \/ StdoutEnds \/ ChildStalls \/ ChildResumes
    \/ StreamOpens \/ StreamEnds \/ StreamFails \/ StreamRetries

Next == (\E c \in Calls : CallStep(c)) \/ PumpStep \/ PeerStep \/ Close

Spec == Init /\ [][Next]_vars

(* The event loop runs what is ready, timers fire, and a write to a pipe    *)
(* that is being read completes.  Nothing is assumed of the server, of the  *)
(* consumers, or of the pump.                                               *)
Fairness == \A c \in Calls : WF_vars(Returns(c))
FairSpec == Spec /\ Fairness

-----------------------------------------------------------------------------
(* Properties *)

Settlements ==
    {Nothing, TransportClosed} \cup [what : {"answer"}, id : Nat, good : BOOLEAN]

TypeOK ==
    /\ kind \in {"stdio", "http"}
    /\ nextId \in Nat \ {0} /\ inflight \subseteq Calls /\ late \subseteq Calls
    /\ initialized \in BOOLEAN /\ closed \in BOOLEAN
    /\ pump \in {"reading", "stopped"}
    /\ st \in [Calls -> {"idle", "sending", "waiting", "cancelling", "noting", "done"}]
    /\ op \in [Calls -> {"initialize", "tools"}]
    /\ id \in [Calls -> Nat]
    /\ settled \in [Calls -> Settlements]
    /\ aborted \in [Calls -> BOOLEAN]
    /\ out \in [Calls -> {"none", "notInitialized", "protocol", "transport",
                          "error", "timeout", "cancelled", "result"}]
    /\ lines \in Seq(Settlements \cup {Other, End})
    /\ received \subseteq Nat
    /\ link \in {"up", "down"} /\ stuck \in BOOLEAN /\ eof \in BOOLEAN
    /\ sse \in {"connecting", "streaming", "sleeping", "over"}
    /\ attempts \in Nat

(* A call that awaits its answer is in the table, whatever others do, and    *)
(* nobody else is, but for a call that sends its cancel notification, until  *)
(* that is written or given up: none leaks when a call ends by its deadline, *)
(* a failed send, a cancellation or the drain, and none is dropped while its *)
(* caller waits (client.ts:213-266).                                         *)
TableExact ==
    /\ \A c \in Calls : Awaiting(c) => c \in inflight
    /\ \A c \in inflight :
          settled[c] = Nothing /\ st[c] \in {"sending", "waiting", "cancelling"}

(* When the cancel notification goes out the call's entry has been dropped.  *)
(* Not kept by the code, which drops it in request()'s finally, after the    *)
(* notification (client.ts:242, 249): see README.md.                         *)
DroppedOnCancel == \A c \in Calls : st[c] = "cancelling" => c \notin inflight

(* A call is only ever settled by the answer to its own request: a late or   *)
(* repeated answer to a call that has given up settles nobody                *)
(* (client.ts:310-321).                                                      *)
OwnAnswer ==
    \A c \in Calls :
        /\ settled[c].what = "answer" => settled[c].id = id[c]
        /\ \A d \in Calls \ {c} : id[c] = id[d] => id[c] = 0

(* When the pump has stopped, whatever the reason, nobody who was waiting    *)
(* then is still unsettled: only a request made afterwards is left to its    *)
(* deadline (client.ts:325-332).                                             *)
NoneForgotten == pump = "stopped" => inflight \subseteq late

(* Every request ends, answered or not, whatever the server does and after   *)
(* the pump has stopped; the exception is a child that stops reading its     *)
(* stdin, since no deadline runs until sendLine has returned                 *)
(* (client.ts:234-243).                                                      *)
RequestEnds ==
    \A c \in Calls : (st[c] = "sending") ~> (st[c] = "done" \/ stuck)
=============================================================================
