------------------------- MODULE UiEventLoopProofs -------------------------
(* What is proved of UiEventLoop, for every set of inputs and every bound.    *)
EXTENDS UiEventLoop, FiniteSetTheorems, SequenceTheorems, WellFoundedInduction, TLAPS

(* What the running select holds: the values on their way to the commit, and *)
(* with the event being handled everything the loop has taken.               *)
Item(j) == [branch |-> j.branch, value |-> j.value]
Items == {Item(j) : j \in {i \in Ranges(jobs) : i.at # "check"}} \cup outcomes
Held == Items \cup (IF pc = "handling" THEN {event} ELSE {})

(* A select in progress and nothing of it otherwise; a commit check is due   *)
(* only once an outcome is recorded.                                         *)
RaceInv ==
    /\ pc # "racing" => jobs = <<>> /\ outcomes = {} /\ \A q \in Queues : waiting[q] = 0
    /\ \A j \in Ranges(jobs) : j.at = "check" => j.value = End /\ outcomes # {}

(* The bound on the values sent. *)
SlotInv == asks <= Len(sent) /\ Len(sent) - asks <= MaxEvents

(* A case that has been run, or waits for a value, is still allowed. *)
Open(b) == Case(b) /\ (b = "turn" => fut = "settled")

GuardInv ==
    /\ \A x \in Held : Open(x.branch)
    /\ \A q \in Queues : waiting[q] = 1 => Open(q) /\ buffer[q] = <<>> /\ ~isClosed[q]

-----------------------------------------------------------------------------
(* Names, and sequences as sets of their elements. *)
LEMMA BranchFacts ==
    /\ \A n \in DOMAIN Order : Order[n] \in Branches
    /\ \A b \in Branches : \E n \in DOMAIN Order : Order[n] = b
    /\ DOMAIN Order = 1..11
    /\ Queues \subseteq Branches
    /\ {"command", "feed", "main_run", "relay_prompt", "relay_abort", "relay_resolve",
        "relay_model", "control_plane"} \subseteq Queues
    /\ {"turn", "ctrl_c", "server"} \subseteq Branches \ Queues
  <1>1. DOMAIN Order = 1..11 BY DEF Order
  <1>2. Branches = {Order[n] : n \in DOMAIN Order} BY DEF Branches, Range
  <1>3. /\ Order[1] = "turn" /\ Order[2] = "command" /\ Order[3] = "feed"
        /\ Order[4] = "main_run" /\ Order[5] = "relay_prompt" /\ Order[6] = "relay_abort"
        /\ Order[7] = "relay_resolve" /\ Order[8] = "relay_model"
        /\ Order[9] = "control_plane" /\ Order[10] = "ctrl_c" /\ Order[11] = "server"
    BY DEF Order
  <1>4. {1, 2, 3, 4, 5, 6, 7, 8, 9, 10, 11} \subseteq DOMAIN Order BY <1>1
  <1>5. {"turn", "command", "feed", "main_run", "relay_prompt", "relay_abort", "relay_resolve",
         "relay_model", "control_plane", "ctrl_c", "server"} \subseteq Branches
    BY <1>2, <1>3, <1>4
  <1> QED BY <1>1, <1>2, <1>5 DEF Queues

LEMMA RangesAppend ==
    ASSUME NEW S, NEW s \in Seq(S), NEW e \in S
    PROVE  /\ Append(s, e) \in Seq(S)
           /\ Ranges(Append(s, e)) = Ranges(s) \cup {e}
  <1>1. /\ Append(s, e) \in Seq(S) /\ DOMAIN Append(s, e) = 1..(Len(s) + 1)
        /\ DOMAIN s = 1..Len(s) /\ Len(s) \in Nat
        /\ \A i \in 1..Len(s) : Append(s, e)[i] = s[i]
        /\ Append(s, e)[Len(s) + 1] = e
    BY AppendProperties, LenProperties
  <1>2. ASSUME NEW x \in Ranges(s) PROVE x \in Ranges(Append(s, e))
    <2>1. PICK i \in 1..Len(s) : s[i] = x BY <1>1 DEF Ranges
    <2>2. i \in 1..(Len(s) + 1) BY <1>1
    <2> QED BY <1>1, <2>1, <2>2 DEF Ranges
  <1>3. e \in Ranges(Append(s, e))
    <2>1. Len(s) + 1 \in 1..(Len(s) + 1) BY <1>1
    <2> QED BY <1>1, <2>1 DEF Ranges
  <1>4. ASSUME NEW x \in Ranges(Append(s, e)) PROVE x \in Ranges(s) \cup {e}
    <2>1. PICK i \in 1..(Len(s) + 1) : Append(s, e)[i] = x BY <1>1 DEF Ranges
    <2>2. i \in 1..Len(s) \/ i = Len(s) + 1 BY <1>1
    <2> QED BY <1>1, <2>1, <2>2 DEF Ranges
  <1> QED BY <1>1, <1>2, <1>3, <1>4

LEMMA RangesHeadTail ==
    ASSUME NEW S, NEW s \in Seq(S), s # <<>>
    PROVE  /\ Head(s) \in S /\ Tail(s) \in Seq(S)
           /\ Ranges(s) = {Head(s)} \cup Ranges(Tail(s))
  <1>1. /\ Head(s) \in S /\ Tail(s) \in Seq(S) /\ Len(s) \in Nat \ {0}
        /\ Len(Tail(s)) = Len(s) - 1
        /\ \A i \in 1..Len(Tail(s)) : Tail(s)[i] = s[i + 1]
        /\ Head(s) = s[1]
    BY HeadTailProperties, EmptySeq, LenProperties
  <1>2. DOMAIN s = 1..Len(s) /\ DOMAIN Tail(s) = 1..(Len(s) - 1) BY <1>1, LenProperties
  <1>3. ASSUME NEW x \in Ranges(s) PROVE x \in {Head(s)} \cup Ranges(Tail(s))
    <2>1. PICK i \in 1..Len(s) : s[i] = x BY <1>2 DEF Ranges
    <2>2. CASE i = 1 BY <1>1, <2>1, <2>2
    <2>3. CASE i # 1
      <3>1. i - 1 \in 1..(Len(s) - 1) /\ (i - 1) + 1 = i BY <1>1, <2>3
      <3>2. Tail(s)[i - 1] = x BY <1>1, <2>1, <3>1
      <3> QED BY <1>2, <3>1, <3>2 DEF Ranges
    <2> QED BY <2>2, <2>3
  <1>4. Head(s) \in Ranges(s)
    <2>1. 1 \in 1..Len(s) BY <1>1
    <2> QED BY <1>1, <1>2, <2>1 DEF Ranges
  <1>5. ASSUME NEW x \in Ranges(Tail(s)) PROVE x \in Ranges(s)
    <2>1. PICK i \in 1..(Len(s) - 1) : Tail(s)[i] = x BY <1>2 DEF Ranges
    <2>2. i + 1 \in 1..Len(s) /\ s[i + 1] = x BY <1>1, <2>1
    <2> QED BY <1>2, <2>2 DEF Ranges
  <1> QED BY <1>1, <1>3, <1>4, <1>5

LEMMA RangesEmpty == Ranges(<<>>) = {}
  BY DEF Ranges

-----------------------------------------------------------------------------
(* Types *)
LEMMA InitType == Init => TypeOK /\ RaceInv /\ SlotInv /\ GuardInv
  <1> SUFFICES ASSUME Init PROVE TypeOK /\ RaceInv /\ SlotInv /\ GuardInv OBVIOUS
  <1> USE InputsAssumption DEF Init, None, End
  <1>1. \A S : <<>> \in Seq(S) BY EmptySeq
  <1>2. buffer \in [Queues -> Seq(Ids)] BY <1>1
  <1>3. jobs \in Seq(Jobs) /\ queuedTurns \in Seq(Ids) /\ started \in Seq(Ids)
        /\ sent \in Seq([queue : Queues, kind : Kinds])
        /\ handled \in Seq([branch : Branches, value : Ids \cup {End}])
    BY <1>1
  <1>4. event \in [branch : Branches, value : Ids \cup {End}] BY BranchFacts
  <1>5. TypeOK
    <2>1. waiting \in [Queues -> 0..1] /\ isClosed \in [Queues -> BOOLEAN] OBVIOUS
    <2>2. pc \in {"select", "racing", "handling", "finishing", "left"} /\ fut \in {"none"}
      OBVIOUS
    <2>3. asks \in 0..MaxAsks OBVIOUS
    <2>4. outcomes \subseteq [branch : Branches, value : Ids \cup {End}] OBVIOUS
    <2>5. checkScheduled \in BOOLEAN /\ aborted \in BOOLEAN OBVIOUS
    <2>6. card \in Ids \cup {None, ImportCard} /\ asking \in Ids \cup {None} OBVIOUS
    <2>7. closed \subseteq Queues /\ stopping \subseteq {"ctrl_c", "server"} /\ lost \subseteq Ids OBVIOUS
    <2> QED BY <1>2, <1>3, <1>4, <2>1, <2>2, <2>3, <2>4, <2>5, <2>6, <2>7 DEF TypeOK
  <1>6. Len(<<>>) = 0 BY EmptySeq
  <1>7. Items = {} BY RangesEmpty DEF Items
  <1>8. RaceInv BY RangesEmpty DEF RaceInv
  <1>9. GuardInv BY <1>7 DEF GuardInv, Held
  <1> QED BY <1>5, <1>6, <1>8, <1>9 DEF SlotInv

(* What push does to the types of the queues and the microtasks. *)
LEMMA PushTypes ==
    ASSUME TypeOK, NEW q \in Queues, NEW v \in Ids, Push(q, v)
    PROVE  /\ buffer' \in [Queues -> Seq(Ids)] /\ waiting' \in [Queues -> 0..1]
           /\ isClosed' = isClosed /\ jobs' \in Seq(Jobs)
  <1>a. waiting \in [Queues -> 0..1] /\ buffer \in [Queues -> Seq(Ids)] /\ jobs \in Seq(Jobs)
    BY DEF TypeOK
  <1>1. CASE waiting[q] > 0
    <2>1. Wake(q, v) \in Jobs BY BranchFacts DEF Wake, Jobs
    <2>a. ~(waiting[q] = 0) BY <1>1, <1>a
    <2>2. /\ waiting' = [waiting EXCEPT ![q] = @ - 1] /\ jobs' = Append(jobs, Wake(q, v))
          /\ buffer' = buffer /\ isClosed' = isClosed
      BY <2>a DEF Push
    <2>3. jobs' \in Seq(Jobs) BY <1>a, <2>1, <2>2, RangesAppend
    <2>4. waiting[q] - 1 \in 0..1 BY <1>1, <1>a
    <2>5. waiting' \in [Queues -> 0..1] BY <1>a, <2>2, <2>4
    <2> QED BY <1>a, <2>2, <2>3, <2>5
  <1>2. CASE ~(waiting[q] > 0)
    <2>1. Append(buffer[q], v) \in Seq(Ids) BY <1>a, RangesAppend
    <2>2. /\ buffer' = [buffer EXCEPT ![q] = Append(@, v)]
          /\ waiting' = waiting /\ isClosed' = isClosed /\ jobs' = jobs
      BY <1>2 DEF Push
    <2>3. buffer' \in [Queues -> Seq(Ids)] BY <1>a, <2>1, <2>2
    <2> QED BY <1>a, <2>2, <2>3
  <1> QED BY <1>1, <1>2

(* A value sent gets an id of its own. *)
LEMMA NextId ==
    ASSUME TypeOK, SlotInv, Len(sent) - asks < MaxEvents \/ asks < MaxAsks
    PROVE  Len(sent) \in Nat /\ Len(sent) + 1 \in Ids
  <1> USE InputsAssumption
  <1>1. Len(sent) \in Nat BY LenProperties DEF TypeOK
  <1> QED BY <1>1 DEF SlotInv, Ids, TypeOK

(* The bound on the inputs leaves room in the set of ids. *)
LEMMA RoomLeft ==
    ASSUME TypeOK, Room PROVE Len(sent) - asks < MaxEvents
  <1> USE InputsAssumption
  <1>1. Len(sent) \in Nat /\ asks \in Nat BY LenProperties DEF TypeOK
  <1>2. IsFiniteSet(Queues)
    <2>1. Order \in [1..11 -> Branches] BY BranchFacts DEF Order
    <2>2. Order \in Surjection(1..11, Branches)
      BY <2>1, BranchFacts DEF Surjection
    <2>3. IsFiniteSet(Branches) BY <2>2, FS_NatSurjection DEF ExistsSurjection
    <2> QED BY <2>3, BranchFacts, FS_Subset
  <1>3. Cardinality({q \in Queues : isClosed[q]}) \in Nat
    <2>1. {q \in Queues : isClosed[q]} \in SUBSET Queues OBVIOUS
    <2>2. IsFiniteSet({q \in Queues : isClosed[q]}) BY <1>2, <2>1, FS_Subset
    <2> QED BY <2>2, FS_CardinalityType
  <1>4. Cardinality(stopping) \in Nat
    <2>1. IsFiniteSet({"ctrl_c"}) BY FS_Singleton
    <2>2. IsFiniteSet({"ctrl_c"} \cup {"server"}) BY <2>1, FS_AddElement
    <2>3. stopping \in SUBSET ({"ctrl_c"} \cup {"server"}) BY DEF TypeOK
    <2>4. IsFiniteSet(stopping) BY <2>2, <2>3, FS_Subset
    <2> QED BY <2>4, FS_CardinalityType
  <1> QED BY <1>1, <1>3, <1>4, InputsAssumption DEF Room

-----------------------------------------------------------------------------
(* Every set of natural numbers that is not empty has a least element. *)

Below == {p \in Nat \X Nat : p[1] < p[2]}

LEMMA BelowWellFounded == IsWellFoundedOn(Below, Nat)
  BY NatLessThanWellFounded DEF OpToRel, Below

(* A set of naturals that is not empty has a least element. *)
LEMMA Least ==
    ASSUME NEW T \in SUBSET Nat, T # {}
    PROVE  \E m \in T : \A n \in T : m <= n
  <1>1. PICK x \in T : \A y \in T : ~ (<<y, x>> \in Below) BY BelowWellFounded, WFMin
  <1>2. ASSUME NEW y \in T PROVE x <= y
    <2>1. ~ (<<y, x>> \in Below) BY <1>1, <1>2
    <2>2. x \in Nat /\ y \in Nat OBVIOUS
    <2>3. ~ (y < x) BY <2>1, <2>2 DEF Below
    <2> QED BY <2>2, <2>3
  <1> QED BY <1>2

(* A set of positions has an n-th member, for n up to its size. *)
LEMMA NthExists ==
    ASSUME NEW N \in Nat, NEW T \in SUBSET (1..N), NEW n \in 1..Cardinality(T)
    PROVE  \E i \in T : Cardinality({j \in T : j <= i}) = n
  <1> DEFINE Upto(i) == {j \in T : j <= i}
             Enough == {i \in Nat : n <= Cardinality(Upto(i))}
  <1>a. \A j \in T : j \in Nat /\ j >= 1 /\ j <= N OBVIOUS
  <1>1. \A i \in Nat : IsFiniteSet(Upto(i)) /\ Cardinality(Upto(i)) \in Nat
    <2>1. IsFiniteSet(1..N) BY FS_Interval
    <2>2. TAKE i \in Nat
    <2>3. Upto(i) \in SUBSET (1..N) OBVIOUS
    <2> HIDE DEF Upto
    <2> QED BY <2>1, <2>3, FS_Subset, FS_CardinalityType
  <1>2. N \in Enough
    <2>1. Upto(N) = T BY <1>a
    <2>2. Cardinality(T) \in Nat BY <1>1, <2>1
    <2> QED BY <2>1, <2>2
  <1>3. PICK m \in Enough : \A i \in Enough : m <= i
    <2>1. Enough \in SUBSET Nat /\ Enough # {} BY <1>2
    <2> HIDE DEF Enough
    <2> QED BY <2>1, Least
  <1>4. Upto(0) = {}
    <2>1. ASSUME NEW j \in Upto(0) PROVE FALSE
      <3>1. j \in T /\ j <= 0 OBVIOUS
      <3> QED BY <1>a, <3>1
    <2> QED BY <2>1
  <1>5. n \in Nat /\ n >= 1 BY <1>1, <1>2
  <1>6. m \in Nat /\ m # 0
    <2>1. Cardinality(Upto(0)) = 0 BY <1>4, FS_EmptySet
    <2>2. 0 \notin Enough BY <2>1, <1>5
    <2> QED BY <2>2
  <1>7. m - 1 \in Nat /\ m - 1 \notin Enough
    <2>1. m - 1 \in Nat /\ ~ (m <= m - 1) BY <1>6
    <2> HIDE DEF Enough
    <2> QED BY <2>1, <1>3
  <1>8. Cardinality(Upto(m - 1)) < n
    <2>1. ~ (n <= Cardinality(Upto(m - 1))) /\ Cardinality(Upto(m - 1)) \in Nat
      BY <1>1, <1>7
    <2> HIDE DEF Upto
    <2> QED BY <1>5, <2>1
  <1>9. m \in T
    <2>1. SUFFICES ASSUME m \notin T PROVE FALSE OBVIOUS
    <2>2. \A j \in T : j <= m <=> j <= m - 1 BY <1>a, <1>6, <2>1
    <2>4. Upto(m) = Upto(m - 1) BY <2>2
    <2>3. n <= Cardinality(Upto(m)) OBVIOUS
    <2> HIDE DEF Upto
    <2> QED BY <1>1, <1>5, <1>6, <1>7, <1>8, <2>3, <2>4
  <1>10. Upto(m) = Upto(m - 1) \cup {m} /\ m \notin Upto(m - 1)
    <2>1. \A j \in T : j <= m <=> j = m \/ j <= m - 1 BY <1>a, <1>6
    <2>2. ~ (m <= m - 1) BY <1>6
    <2> QED BY <1>9, <2>1, <2>2
  <1>11. Cardinality(Upto(m)) = Cardinality(Upto(m - 1)) + 1
    <2> HIDE DEF Upto
    <2> QED BY <1>1, <1>7, <1>10, FS_AddElement
  <1>12. n <= Cardinality(Upto(m)) OBVIOUS
  <1>13. Cardinality(Upto(m)) = n
    <2> HIDE DEF Upto
    <2> QED BY <1>1, <1>5, <1>7, <1>8, <1>11, <1>12
  <1> QED BY <1>9, <1>13

-----------------------------------------------------------------------------
(* The ready cases, in order, and the winner of a race. *)
LEMMA ReadyFinite ==
    /\ ReadyCases \in SUBSET (1..11)
    /\ \A n \in Nat : /\ IsFiniteSet({m \in ReadyCases : m <= n})
                     /\ Cardinality({m \in ReadyCases : m <= n}) \in Nat
                     /\ Cardinality({m \in ReadyCases : m <= n}) <= Cardinality(ReadyCases)
    /\ Cardinality(ReadyCases) \in Nat
  <1>1. ReadyCases \in SUBSET (1..11) BY BranchFacts DEF ReadyCases
  <1>2. IsFiniteSet(1..11)
    <2>1. \A a, b \in Int : IsFiniteSet(a..b) BY FS_Interval
    <2>2. 1 \in Int /\ 11 \in Int OBVIOUS
    <2> QED BY <2>1, <2>2, Zenon
  <1>3. IsFiniteSet(ReadyCases) BY <1>1, <1>2, FS_Subset
  <1>4. ASSUME NEW n \in Nat PROVE {m \in ReadyCases : m <= n} \in SUBSET ReadyCases OBVIOUS
  <1> QED BY <1>1, <1>3, <1>4, FS_Subset, FS_CardinalityType

(* Every index up to their number stands for a ready case... *)
LEMMA NthReady ==
    ASSUME NEW k \in 1..Cardinality(ReadyCases)
    PROVE  /\ Nth(k) \in Branches /\ Case(Nth(k)) /\ Ready(Nth(k))
  <1> DEFINE n == CHOOSE n \in ReadyCases : Cardinality({m \in ReadyCases : m <= n}) = k
  <1>1. \E i \in ReadyCases : Cardinality({m \in ReadyCases : m <= i}) = k
    <2>1. \A N \in Nat : \A T \in SUBSET (1..N) : \A i \in 1..Cardinality(T) :
              \E j \in T : Cardinality({m \in T : m <= j}) = i
      BY NthExists
    <2> QED BY <2>1, ReadyFinite
  <1>2. n \in ReadyCases BY <1>1
  <1>3. Nth(k) = Order[n] BY DEF Nth
  <1> HIDE DEF n
  <1> QED BY <1>2, <1>3, BranchFacts DEF ReadyCases

(* ... and every ready case has one. *)
LEMMA ReadyNth ==
    ASSUME NEW b \in Branches, Case(b), Ready(b)
    PROVE  \E k \in 1..Cardinality(ReadyCases) : Nth(k) = b
  <1> DEFINE Upto(n) == {m \in ReadyCases : m <= n}
  <1>1. PICK n \in DOMAIN Order : Order[n] = b BY BranchFacts
  <1>2. n \in ReadyCases BY <1>1 DEF ReadyCases
  <1>3. \A i \in ReadyCases : i \in Nat /\ i \in Upto(i) BY ReadyFinite
  <1>4. \A i \in ReadyCases : /\ IsFiniteSet(Upto(i)) /\ Cardinality(Upto(i)) \in Nat
                              /\ Cardinality(Upto(i)) <= Cardinality(ReadyCases)
    BY ReadyFinite, <1>3
  <1>5. ASSUME NEW i \in ReadyCases, NEW j \in ReadyCases, i < j,
               Cardinality(Upto(i)) = Cardinality(Upto(j))
        PROVE FALSE
    <2>1. Upto(i) \in SUBSET Upto(j) BY <1>3, <1>5
    <2>2. j \notin Upto(i) BY <1>3, <1>5
    <2> HIDE DEF Upto
    <2>3. Upto(i) = Upto(j) BY <1>4, <1>5, <2>1, FS_Subset
    <2> QED BY <1>3, <2>2, <2>3
  <1> DEFINE k == Cardinality(Upto(n))
             c == CHOOSE i \in ReadyCases : Cardinality(Upto(i)) = k
  <1>6. c \in ReadyCases /\ Cardinality(Upto(c)) = k BY <1>2
  <1>7. c = n
    <2> HIDE DEF Upto, c
    <2>1. ~(c < n) /\ ~(n < c) BY <1>2, <1>5, <1>6
    <2> QED BY <1>2, <1>3, <1>6, <2>1
  <1>8. Nth(k) = Order[c] BY DEF Nth
  <1>9. k # 0
    <2> HIDE DEF Upto
    <2> QED BY <1>2, <1>3, <1>4, FS_EmptySet
  <1>10. k \in 1..Cardinality(ReadyCases)
    <2>1. k \in Nat /\ k <= Cardinality(ReadyCases) BY <1>2, <1>4
    <2> HIDE DEF k
    <2> QED BY <1>9, <2>1, ReadyFinite
  <1> QED BY <1>1, <1>7, <1>8, <1>10

(* The winner of a commit is one of the recorded outcomes. *)
LEMMA WinnerRecorded ==
    ASSUME TypeOK, outcomes # {} PROVE Winner \in outcomes
  <1>1. ASSUME NEW o \in outcomes PROVE Position(o.branch) \in Nat
    <2>1. o.branch \in Branches BY DEF TypeOK
    <2>2. Position(o.branch) \in DOMAIN Order BY <2>1, BranchFacts DEF Position
    <2> QED BY <2>2, BranchFacts
  <1> DEFINE T == {Position(o.branch) : o \in outcomes}
  <1>2. T \in SUBSET Nat /\ T # {} BY <1>1
  <1>3. PICK m \in T : \A n \in T : m <= n
    <2> HIDE DEF T
    <2> QED BY <1>2, Least
  <1>4. \E o \in outcomes : \A x \in outcomes : Position(o.branch) <= Position(x.branch)
    BY <1>3
  <1> QED BY <1>4 DEF Winner

-----------------------------------------------------------------------------
(* Types and the bound on what is sent. *)
Event == [branch : Branches, value : Ids \cup {End}]

(* Types and the bound on what is sent are kept by every step. *)
LEMMA TypeStep == TypeOK /\ SlotInv /\ RaceInv /\ [Next]_vars => TypeOK' /\ SlotInv'
  <1> SUFFICES ASSUME TypeOK, SlotInv, RaceInv, [Next]_vars PROVE TypeOK' /\ SlotInv' OBVIOUS
  <1> USE InputsAssumption
  <1>i. Len(sent) \in Nat /\ asks \in 0..MaxAsks /\ MaxAsks \in Nat BY LenProperties DEF TypeOK
  (* A value is sent by a producer, or as the prompt of the turn. *)
  <1>s. ASSUME NEW i \in [queue : Queues, kind : Kinds], sent' = Append(sent, i)
        PROVE  /\ sent' \in Seq([queue : Queues, kind : Kinds])
               /\ Len(sent') = Len(sent) + 1
    BY <1>s, RangesAppend, AppendProperties DEF TypeOK
  <1>1. ASSUME NEW i \in Inputs, Send(i) PROVE TypeOK' /\ SlotInv'
    <2>1. i \in [queue : Queues, kind : Kinds] OBVIOUS
    <2>2. Len(sent) - asks < MaxEvents BY <1>1, RoomLeft DEF Send
    <2>3. Len(sent) + 1 \in Ids BY <2>2, NextId
    <2>4. /\ buffer' \in [Queues -> Seq(Ids)] /\ waiting' \in [Queues -> 0..1]
          /\ isClosed' = isClosed /\ jobs' \in Seq(Jobs)
      BY <1>1, <2>1, <2>3, PushTypes DEF Send
    <2>5. sent' \in Seq([queue : Queues, kind : Kinds]) /\ Len(sent') = Len(sent) + 1
      BY <1>1, <1>s, <2>1 DEF Send
    <2>6. TypeOK' BY <1>1, <2>4, <2>5 DEF Send, turnVars, TypeOK
    <2> QED BY <1>1, <1>i, <2>2, <2>5, <2>6 DEF Send, SlotInv
  <1>2. ASSUME NEW q \in Closable, Close(q) PROVE TypeOK' /\ SlotInv'
    <2>1. [n \in 1..waiting[q] |-> Wake(q, End)] \in Seq(Jobs)
      <3>1. Wake(q, End) \in Jobs BY BranchFacts DEF Wake, Jobs
      <3>a. waiting \in [Queues -> 0..1] /\ q \in Queues BY DEF TypeOK
      <3>2. waiting[q] \in Nat BY <3>a
      <3> HIDE DEF Jobs
      <3>3. [n \in 1..waiting[q] |-> Wake(q, End)] \in [1..waiting[q] -> Jobs] BY <3>1
      <3> QED BY <3>2, <3>3, SeqDef
    <2>2. jobs' \in Seq(Jobs) BY <1>2, <2>1, ConcatProperties DEF Close, TypeOK
    <2>3. isClosed' \in [Queues -> BOOLEAN] /\ waiting' \in [Queues -> 0..1]
      BY <1>2 DEF Close, TypeOK
    <2> QED BY <1>2, <2>2, <2>3 DEF Close, turnVars, TypeOK, SlotInv
  <1>3. CASE Interrupt
    <2>1. [at |-> "record", branch |-> "ctrl_c", value |-> End] \in Jobs BY BranchFacts DEF Jobs
    <2>2. jobs' \in Seq(Jobs) BY <1>3, <2>1, RangesAppend DEF Interrupt, TypeOK
    <2> QED BY <1>3, <2>2 DEF Interrupt, queueVars, turnVars, TypeOK, SlotInv
  <1>4. CASE ServerEnds
    <2>1. Wake("server", End) \in Jobs BY BranchFacts DEF Wake, Jobs
    <2>2. jobs' \in Seq(Jobs) BY <1>4, <2>1, RangesAppend DEF ServerEnds, TypeOK
    <2> QED BY <1>4, <2>2 DEF ServerEnds, queueVars, turnVars, TypeOK, SlotInv
  <1>5. CASE Ask
    <2> DEFINE i == [queue |-> "control_plane", kind |-> "other"]
    <2>1. i \in [queue : Queues, kind : Kinds] BY BranchFacts DEF Kinds
    <2>2. Len(sent) + 1 \in Ids BY <1>5, NextId DEF Ask
    <2>3. /\ buffer' \in [Queues -> Seq(Ids)] /\ waiting' \in [Queues -> 0..1]
          /\ isClosed' = isClosed /\ jobs' \in Seq(Jobs)
      BY <1>5, <2>2, BranchFacts, PushTypes DEF Ask
    <2>4. sent' \in Seq([queue : Queues, kind : Kinds]) /\ Len(sent') = Len(sent) + 1
      BY <1>5, <1>s, <2>1 DEF Ask
    <2>5. asks' \in 0..MaxAsks BY <1>5, <1>i DEF Ask
    <2>6. TypeOK' BY <1>5, <2>2, <2>3, <2>4, <2>5 DEF Ask, TypeOK
    <2> QED BY <1>5, <1>i, <2>4, <2>6 DEF Ask, SlotInv
  <1>6. CASE AskCancelled
    BY <1>6 DEF AskCancelled, queueVars, selectVars, TypeOK, SlotInv
  <1>7. CASE TurnSettles
    <2>1. Wake("turn", End) \in Jobs BY BranchFacts DEF Wake, Jobs
    <2>2. jobs' \in Seq(Jobs) BY <1>7, <2>1, RangesAppend DEF TurnSettles, TypeOK
    <2> QED BY <1>7, <2>2 DEF TurnSettles, queueVars, TypeOK, SlotInv
  <1>8. CASE Select
    <2>1. \A q \in Queues : buffer[q] \in Seq(Ids) /\ (buffer[q] # <<>> =>
              Head(buffer[q]) \in Ids /\ Tail(buffer[q]) \in Seq(Ids))
      BY RangesHeadTail DEF TypeOK
    <2>2. \A b : Taken(b) \in Ids \cup {End} BY <2>1 DEF Taken
    <2>3. \A k \in 1..Cardinality(ReadyCases) : Wake(Nth(k), Taken(Nth(k))) \in Jobs
      BY <2>2, NthReady DEF Wake, Jobs
    <2>4. jobs' \in Seq(Jobs)
      <3>1. jobs' \in [1..Cardinality(ReadyCases) -> Jobs] BY <1>8, <2>3 DEF Select
      <3> QED BY <3>1, ReadyFinite, SeqDef
    <2>5. buffer' \in [Queues -> Seq(Ids)] BY <1>8, <2>1 DEF Select
    <2>6. waiting' \in [Queues -> 0..1]
      <3>1. pc # "racing" BY <1>8 DEF Select
      <3>2. \A q \in Queues : waiting[q] = 0 BY <3>1 DEF RaceInv
      <3> QED BY <1>8, <3>2 DEF Select
    <2> QED BY <1>8, <2>4, <2>5, <2>6 DEF Select, turnVars, TypeOK, SlotInv
  <1>9. CASE Woken
    <2>1. Head(jobs) \in Jobs /\ Tail(jobs) \in Seq(Jobs) BY <1>9, RangesHeadTail DEF Woken, TypeOK
    <2>2. [Head(jobs) EXCEPT !.at = "record"] \in Jobs BY <2>1 DEF Jobs
    <2>3. jobs' \in Seq(Jobs) BY <1>9, <2>1, <2>2, RangesAppend DEF Woken
    <2> QED BY <1>9, <2>3 DEF Woken, queueVars, turnVars, TypeOK, SlotInv
  <1>10. CASE Record
    <2>1. Head(jobs) \in Jobs /\ Tail(jobs) \in Seq(Jobs) BY <1>10, RangesHeadTail DEF Record, TypeOK
    <2>2. [branch |-> Head(jobs).branch, value |-> Head(jobs).value]
              \in [branch : Branches, value : Ids \cup {End}]
      BY <2>1 DEF Jobs
    <2>3. [at |-> "check", branch |-> "turn", value |-> End] \in Jobs BY BranchFacts DEF Jobs
    <2>4. jobs' \in Seq(Jobs) BY <1>10, <2>1, <2>3, RangesAppend DEF Record
    <2>5. outcomes' \subseteq [branch : Branches, value : Ids \cup {End}]
      BY <1>10, <2>2 DEF Record, TypeOK
    <2> QED BY <1>10, <2>4, <2>5 DEF Record, queueVars, turnVars, TypeOK, SlotInv
  <1>11. CASE Commit
    <2>1. outcomes # {}
      <3>1. Head(jobs) \in Ranges(jobs) BY <1>11, RangesHeadTail DEF Commit, TypeOK
      <3> QED BY <1>11, <3>1 DEF Commit, RaceInv
    <2>2. event' \in [branch : Branches, value : Ids \cup {End}]
      BY <1>11, <2>1, WinnerRecorded DEF Commit, TypeOK
    <2>3. jobs' \in Seq(Jobs) BY <1>11, EmptySeq DEF Commit
    <2>4. lost' \subseteq Ids
      <3>1. \A j \in Ranges(jobs) : j \in Jobs
        BY ElementOfSeq, LenProperties DEF Ranges, TypeOK
      <3>2. \A o \in outcomes : o.value \in Ids \cup {End} BY DEF TypeOK
      <3>3. InFlight \subseteq Ids \cup {End} BY <3>1, <3>2 DEF InFlight, Ranges, Jobs
      <3> QED BY <1>11, <3>3 DEF Commit, TypeOK
    <2> QED BY <1>11, <2>2, <2>3, <2>4 DEF Commit, turnVars, TypeOK, SlotInv
  <1>12. CASE StartNextQueuedTurn
    <2>1. queuedTurns # <<>> => Head(queuedTurns) \in Ids /\ Tail(queuedTurns) \in Seq(Ids)
      BY RangesHeadTail DEF TypeOK
    <2>2. queuedTurns' \in Seq(Ids) /\ started' \in Seq(Ids)
      <3>1. queuedTurns \in Seq(Ids) /\ started \in Seq(Ids) BY DEF TypeOK
      <3>2. CASE queuedTurns = <<>> BY <1>12, <3>1, <3>2 DEF StartNextQueuedTurn, turnVars
      <3>3. CASE queuedTurns # <<>>
        <4>1. /\ queuedTurns' = Tail(queuedTurns)
              /\ started' = Append(started, Head(queuedTurns))
          BY <1>12, <3>3 DEF StartNextQueuedTurn
        <4> QED BY <2>1, <3>1, <3>3, <4>1, RangesAppend
      <3> QED BY <3>2, <3>3
    <2> QED BY <1>12, <2>2 DEF StartNextQueuedTurn, queueVars, selectVars, turnVars, TypeOK, SlotInv
  (* What the loop handles is appended to the history. *)
  <1>h. ASSUME NEW b, Handling(b)
        PROVE handled' \in Seq([branch : Branches, value : Ids \cup {End}])
    BY <1>h, RangesAppend DEF Handling, TypeOK
  <1>t. ASSUME NEW id \in Ids, StartTurn(id) \/ Submit(id)
        PROVE  /\ fut' \in {"none", "running", "asking", "settled"} /\ aborted' \in BOOLEAN
               /\ queuedTurns' \in Seq(Ids) /\ started' \in Seq(Ids)
               /\ asking' \in Ids \cup {None}
    <2>1. Append(started, id) \in Seq(Ids) /\ Append(queuedTurns, id) \in Seq(Ids)
      BY RangesAppend DEF TypeOK
    <2> QED BY <1>t, <2>1 DEF StartTurn, Submit, TypeOK
  <1>r. ASSUME RequestAbort \/ Resolve \/ UNCHANGED turnVars
        PROVE  /\ fut' \in {"none", "running", "asking", "settled"} /\ aborted' \in BOOLEAN
               /\ queuedTurns' \in Seq(Ids) /\ started' \in Seq(Ids)
               /\ asking' \in Ids \cup {None}
    BY <1>r DEF RequestAbort, Resolve, turnVars, TypeOK
  <1>v. event.value # End => event.value \in Ids BY DEF TypeOK
  <1>13. CASE FinishTurn
    BY <1>13, <1>h DEF FinishTurn, queueVars, selectVars, TypeOK, SlotInv
  <1>14. CASE HandleCommand
    <2>1. handled' \in Seq([branch : Branches, value : Ids \cup {End}])
      BY <1>14, <1>h DEF HandleCommand
    <2>2. /\ fut' \in {"none", "running", "asking", "settled"} /\ aborted' \in BOOLEAN
          /\ queuedTurns' \in Seq(Ids) /\ started' \in Seq(Ids)
          /\ asking' \in Ids \cup {None}
      BY <1>14, <1>t, <1>r, <1>v DEF HandleCommand, PromptImportActivation
    <2>3. card' \in Ids \cup {None, ImportCard}
      BY <1>14 DEF HandleCommand, PromptImportActivation, Resolve, TypeOK
    <2> QED BY <1>14, <2>1, <2>2, <2>3 DEF HandleCommand, queueVars, selectVars, TypeOK, SlotInv
  <1>15. CASE HandleRelay
    <2>1. handled' \in Seq([branch : Branches, value : Ids \cup {End}])
      BY <1>15, <1>h DEF HandleRelay
    <2>2. /\ fut' \in {"none", "running", "asking", "settled"} /\ aborted' \in BOOLEAN
          /\ queuedTurns' \in Seq(Ids) /\ started' \in Seq(Ids)
          /\ asking' \in Ids \cup {None}
      BY <1>15, <1>t, <1>r, <1>v DEF HandleRelay
    <2>3. card' \in Ids \cup {None, ImportCard} BY <1>15 DEF HandleRelay, Resolve, TypeOK
    <2> QED BY <1>15, <2>1, <2>2, <2>3 DEF HandleRelay, queueVars, selectVars, TypeOK, SlotInv
  <1>16. CASE HandleMainRun
    BY <1>16, <1>h, <1>t, <1>v DEF HandleMainRun, queueVars, selectVars, TypeOK, SlotInv
  <1>17. CASE HandleFeed
    <2> DEFINE rest == [n \in DOMAIN buffer["feed"] |-> [branch |-> "feed", value |-> buffer["feed"][n]]]
    <2>1. buffer["feed"] \in Seq(Ids) BY BranchFacts DEF TypeOK
    <2>2. rest \in Seq([branch : Branches, value : Ids \cup {End}])
      <3>1. /\ Len(buffer["feed"]) \in Nat /\ DOMAIN buffer["feed"] = 1..Len(buffer["feed"])
            /\ \A n \in 1..Len(buffer["feed"]) : buffer["feed"][n] \in Ids
        BY <2>1, LenProperties, ElementOfSeq
      <3>2. rest \in [1..Len(buffer["feed"]) -> [branch : Branches, value : Ids \cup {End}]]
        BY <3>1, BranchFacts
      <3> QED BY <3>1, <3>2, SeqDef
    <2>3. Append(handled, event) \in Seq([branch : Branches, value : Ids \cup {End}])
      BY RangesAppend DEF TypeOK
    <2>4. handled' \in Seq([branch : Branches, value : Ids \cup {End}])
      BY <1>17, <2>2, <2>3, ConcatProperties DEF HandleFeed
    <2>5. buffer' \in [Queues -> Seq(Ids)] BY <1>17, EmptySeq DEF HandleFeed, TypeOK
    <2> QED BY <1>17, <2>4, <2>5 DEF HandleFeed, selectVars, turnVars, TypeOK, SlotInv
  <1>18. CASE ShowControlPlanePrompt
    BY <1>18, <1>h, <1>v DEF ShowControlPlanePrompt, queueVars, selectVars, turnVars, TypeOK, SlotInv
  <1>19. CASE Retire
    BY <1>19, <1>h DEF Retire, queueVars, selectVars, turnVars, TypeOK, SlotInv
  <1>20. CASE Leave
    <2>1. handled' \in Seq([branch : Branches, value : Ids \cup {End}])
      BY <1>20, <1>h DEF Leave
    <2>2. /\ fut' \in {"none", "running", "asking", "settled"} /\ aborted' \in BOOLEAN
          /\ queuedTurns' \in Seq(Ids) /\ started' \in Seq(Ids)
          /\ asking' \in Ids \cup {None}
      BY <1>20, <1>r DEF Leave
    <2>3. isClosed' \in [Queues -> BOOLEAN] BY <1>20 DEF Leave, TypeOK
    <2> QED BY <1>20, <2>1, <2>2, <2>3 DEF Leave, selectVars, TypeOK, SlotInv
  <1>21. CASE UNCHANGED vars
    BY <1>21 DEF vars, queueVars, selectVars, turnVars, TypeOK, SlotInv
  <1> QED
    BY <1>1, <1>2, <1>3, <1>4, <1>5, <1>6, <1>7, <1>8, <1>9, <1>10, <1>11, <1>12, <1>13,
       <1>14, <1>15, <1>16, <1>17, <1>18, <1>19, <1>20, <1>21 DEF Next

-----------------------------------------------------------------------------
(* What a step does to the values: the twenty actions are of six kinds. *)
Kept == <<pc, event, handled, lost, closed>>

(* A value is handed to the case that waits for it, or buffered. *)
Sends(i) ==
    /\ sent' = Append(sent, i)
    /\ \/ /\ waiting[i.queue] = 1
          /\ Items' = Items \cup {[branch |-> i.queue, value |-> Len(sent) + 1]}
          /\ buffer' = buffer
       \/ Items' = Items /\ buffer' = [buffer EXCEPT ![i.queue] = Append(@, Len(sent) + 1)]
    /\ UNCHANGED Kept

(* A case settles without a value, or no case does. *)
Settles ==
    /\ \/ Items' = Items
       \/ \E b \in Branches :
             /\ Items' = Items \cup {[branch |-> b, value |-> End]}
             /\ b \in Queues => waiting[b] = 1
             /\ b = "turn" => fut' = "settled"
    /\ pc' = "handling" <=> pc = "handling"
    /\ UNCHANGED <<buffer, sent, event, handled, lost, closed>>

(* The ready cases take what their queues hold. *)
Selects ==
    /\ pc = "select" /\ pc' = "racing"
    /\ Items = {}
    /\ Items' = {[branch |-> b, value |-> Taken(b)] : b \in {c \in Branches : Case(c) /\ Ready(c)}}
    /\ buffer' = [q \in Queues |-> IF Case(q) /\ buffer[q] # <<>> THEN Tail(buffer[q]) ELSE buffer[q]]
    /\ UNCHANGED <<sent, event, handled, lost, closed>>

(* One of the values held is handed to the loop, the others are lost. *)
Commits ==
    /\ pc = "racing" /\ pc' = "handling"
    /\ event' \in Items
    /\ Items' = {}
    /\ lost' = lost \cup ({x.value : x \in Items} \ {End, event'.value})
    /\ UNCHANGED <<buffer, sent, handled, closed>>

(* The event is handled; the end of a queue retires it. *)
Handles ==
    /\ pc = "handling" /\ pc' # "handling"
    /\ Items = {} /\ Items' = {}
    /\ handled' = Append(handled, event)
    /\ closed \subseteq closed'
    /\ event.branch \in Queues /\ event.value = End => event.branch \in closed'
    /\ UNCHANGED <<buffer, sent, lost>>

(* The event is handled with all that the feed has buffered. *)
HandlesFeed ==
    /\ pc = "handling" /\ pc' # "handling"
    /\ Items = {} /\ Items' = {}
    /\ event.branch = "feed" /\ event.value # End
    /\ handled' = Append(handled, event)
                     \o [n \in DOMAIN buffer["feed"] |->
                          [branch |-> "feed", value |-> buffer["feed"][n]]]
    /\ buffer' = [buffer EXCEPT !["feed"] = <<>>]
    /\ UNCHANGED <<sent, lost, closed>>

Steps ==
    \/ \E i \in [queue : Queues, kind : Kinds] : Sends(i)
    \/ Settles \/ Selects \/ Commits \/ Handles \/ HandlesFeed

(* A job other than a commit check is an item. *)
LEMMA JobAdded ==
    ASSUME TypeOK, RaceInv, NEW j \in Jobs, j.at # "check", pc = "racing", pc' = "racing",
           jobs' = Append(jobs, j), UNCHANGED outcomes
    PROVE  Items' = Items \cup {Item(j)} /\ RaceInv'
  <1>1. Ranges(jobs') = Ranges(jobs) \cup {j} BY RangesAppend DEF TypeOK
  <1>2. Ranges(jobs)' = Ranges(jobs') BY DEF Ranges
  <1>3. Items' = Items \cup {Item(j)} BY <1>1, <1>2 DEF Items
  <1>4. RaceInv' BY <1>1, <1>2 DEF RaceInv
  <1> QED BY <1>3, <1>4

(* Outside a select nothing is on its way to a commit. *)
LEMMA NothingHeld ==
    ASSUME RaceInv, pc # "racing"
    PROVE  jobs = <<>> /\ outcomes = {} /\ Items = {} /\ \A q \in Queues : waiting[q] = 0
  BY RangesEmpty DEF RaceInv, Items

(* The ids the model counts as in flight are those of the items. *)
LEMMA InFlightItems ==
    ASSUME RaceInv PROVE InFlight \ {End} = {x.value : x \in Items} \ {End}
  <1>1. InFlight = {j.value : j \in Ranges(jobs)} \cup {o.value : o \in outcomes}
    BY DEF InFlight, Ranges
  <1>2. \A j : Item(j).value = j.value BY DEF Item
  <1>3. {x.value : x \in Items} = {j.value : j \in {i \in Ranges(jobs) : i.at # "check"}}
                                    \cup {o.value : o \in outcomes}
    BY <1>2 DEF Items
  <1> QED BY <1>1, <1>3 DEF RaceInv

(* A value pushed goes to the buffer, or to the waiting case of a select. *)
LEMMA PushEffect ==
    ASSUME TypeOK, RaceInv, NEW i \in [queue : Queues, kind : Kinds],
           Len(sent) + 1 \in Ids, Push(i.queue, Len(sent) + 1),
           sent' = Append(sent, i), UNCHANGED <<outcomes, Kept>>
    PROVE  RaceInv' /\ Sends(i)
  <1> DEFINE q == i.queue
             v == Len(sent) + 1
  <1>a. q \in Queues /\ waiting \in [Queues -> 0..1] BY DEF TypeOK
  <1>1. CASE waiting[q] > 0
    <2>0. ~(waiting[q] = 0) BY <1>1, <1>a
    <2>1. pc = "racing" BY <2>0, <1>a DEF RaceInv
    <2>2. jobs' = Append(jobs, Wake(q, v)) /\ buffer' = buffer BY <2>0 DEF Push
    <2>3. Wake(q, v) \in Jobs /\ Wake(q, v).at # "check" BY <1>a, BranchFacts DEF Wake, Jobs
    <2>4. pc' = "racing" /\ outcomes' = outcomes BY <2>1 DEF Kept
    <2>5. Items' = Items \cup {Item(Wake(q, v))} /\ RaceInv' BY <2>1, <2>2, <2>3, <2>4, JobAdded
    <2>6. Item(Wake(q, v)) = [branch |-> i.queue, value |-> Len(sent) + 1] BY DEF Item, Wake
    <2>7. waiting[q] = 1 BY <1>1, <1>a
    <2> QED BY <2>2, <2>5, <2>6, <2>7 DEF Sends
  <1>2. CASE ~(waiting[q] > 0)
    <2>1. UNCHANGED <<jobs, waiting, outcomes, pc>> /\ buffer' = [buffer EXCEPT ![q] = Append(@, v)]
      BY <1>2 DEF Push, Kept
    <2>2. Items' = Items BY <2>1 DEF Items, Ranges
    <2>3. RaceInv' BY <2>1 DEF RaceInv, Ranges
    <2> QED BY <2>1, <2>2, <2>3 DEF Sends
  <1> QED BY <1>1, <1>2

(* Steps with no select before or after them. *)
LEMMA UnheldStep ==
    ASSUME RaceInv, pc # "racing", pc' # "racing", UNCHANGED <<waiting, jobs, outcomes>>
    PROVE  RaceInv' /\ Items = {} /\ Items' = {}
  <1>1. Items = {} /\ jobs = <<>> /\ outcomes = {} /\ \A q \in Queues : waiting[q] = 0 BY NothingHeld
  <1>2. Items' = {} BY <1>1, RangesEmpty DEF Items, Ranges
  <1>3. RaceInv' BY <1>1, RangesEmpty DEF RaceInv, Ranges
  <1> QED BY <1>1, <1>2, <1>3

(* Every step is of one of the kinds above. *)
LEMMA StepKinds ==
    TypeOK /\ SlotInv /\ RaceInv /\ [Next]_vars => RaceInv' /\ Steps
  <1> SUFFICES ASSUME TypeOK, SlotInv, RaceInv, [Next]_vars PROVE RaceInv' /\ Steps OBVIOUS
  <1> USE InputsAssumption
  <1>b. {"turn", "ctrl_c", "server", "feed"} \subseteq Branches BY BranchFacts
  (* Steps that leave the select alone, and those of the handlers. *)
  <1>u. ASSUME UNCHANGED <<waiting, jobs, outcomes, buffer, sent, Kept>>
        PROVE  RaceInv' /\ Settles
    <2>1. Items' = Items BY <1>u DEF Items, Ranges
    <2> QED BY <1>u, <1>b, <2>1 DEF RaceInv, Ranges, Settles, Kept
  <1>h. ASSUME NEW b, Handling(b), pc' \in {"select", "finishing", "left"},
               UNCHANGED <<waiting, jobs, outcomes, buffer, sent, lost>>, closed \subseteq closed',
               b \in Queues /\ event.value = End => b \in closed'
        PROVE  RaceInv' /\ Handles
    <2>1. RaceInv' /\ Items = {} /\ Items' = {} BY <1>h, UnheldStep DEF Handling
    <2> QED BY <1>h, <2>1 DEF Handling, Handles
  <1>1. ASSUME NEW i \in Inputs, Send(i) PROVE RaceInv' /\ Steps
    <2>1. i \in [queue : Queues, kind : Kinds] OBVIOUS
    <2>2. Len(sent) + 1 \in Ids BY <1>1, RoomLeft, NextId DEF Send
    <2> QED BY <1>1, <2>1, <2>2, PushEffect DEF Send, Kept, Steps
  <1>2. ASSUME NEW q \in Closable, Close(q) PROVE RaceInv' /\ Steps
    <2>1. waiting \in [Queues -> 0..1] /\ q \in Queues /\ jobs \in Seq(Jobs) BY DEF TypeOK
    <2>2. CASE waiting[q] = 1
      <3>0. waiting[q] # 0 BY <2>2
      <3>1. pc = "racing" BY <3>0, <2>1 DEF RaceInv
      <3>2. Wake(q, End) \in Jobs /\ Wake(q, End).at # "check" BY <2>1, BranchFacts DEF Wake, Jobs
      <3>3. jobs = <<>> /\ jobs' = Append(jobs, Wake(q, End))
        <4>1. jobs = <<>> /\ jobs' = jobs \o [n \in 1..1 |-> Wake(q, End)] BY <1>2, <2>2 DEF Close
        <4>2. [n \in 1..1 |-> Wake(q, End)] = <<Wake(q, End)>> OBVIOUS
        <4> QED BY <4>1, <4>2
      <3>4. pc' = "racing" /\ outcomes' = outcomes BY <1>2, <3>1 DEF Close
      <3>5. Items' = Items \cup {Item(Wake(q, End))} /\ RaceInv'
        BY <3>1, <3>2, <3>3, <3>4, JobAdded
      <3>6. Item(Wake(q, End)) = [branch |-> q, value |-> End] BY DEF Item, Wake
      <3>7. Settles BY <1>2, <2>1, <2>2, <3>5, <3>6, BranchFacts DEF Close, Settles
      <3> QED BY <3>5, <3>7 DEF Steps
    <2>3. CASE waiting[q] = 0
      <3>1. jobs' = jobs
        <4>1. jobs = <<>> /\ jobs' = jobs \o [n \in 1..0 |-> Wake(q, End)] BY <1>2, <2>3 DEF Close
        <4>2. [n \in 1..0 |-> Wake(q, End)] = <<>> OBVIOUS
        <4> QED BY <4>1, <4>2
      <3>2. waiting' = waiting
        <4>1. waiting' = [waiting EXCEPT ![q] = 0] BY <1>2 DEF Close
        <4> QED BY <2>1, <2>3, <4>1
      <3>3. RaceInv' /\ Settles BY <1>2, <1>u, <3>1, <3>2 DEF Close, Kept
      <3> QED BY <3>3 DEF Steps
    <2> QED BY <2>1, <2>2, <2>3
  <1>3. CASE Interrupt
    <2> DEFINE j == [at |-> "record", branch |-> "ctrl_c", value |-> End]
    <2>1. j \in Jobs /\ j.at # "check" BY <1>b DEF Jobs
    <2>2. /\ pc = "racing" /\ pc' = "racing" /\ jobs' = Append(jobs, j) /\ outcomes' = outcomes
      BY <1>3 DEF Interrupt
    <2>3. Items' = Items \cup {Item(j)} /\ RaceInv' BY <2>1, <2>2, JobAdded
    <2>4. Item(j) = [branch |-> "ctrl_c", value |-> End] BY DEF Item
    <2>5. Settles BY <1>3, <1>b, <2>3, <2>4, BranchFacts DEF Interrupt, queueVars, Settles
    <2> QED BY <2>3, <2>5 DEF Steps
  <1>4. CASE ServerEnds
    <2>1. CASE pc = "racing"
      <3>1. Wake("server", End) \in Jobs /\ Wake("server", End).at # "check" BY <1>b DEF Wake, Jobs
      <3>2. /\ pc' = "racing" /\ jobs' = Append(jobs, Wake("server", End)) /\ outcomes' = outcomes
        BY <1>4, <2>1 DEF ServerEnds
      <3>3. Items' = Items \cup {Item(Wake("server", End))} /\ RaceInv'
        BY <2>1, <3>1, <3>2, JobAdded
      <3>4. Item(Wake("server", End)) = [branch |-> "server", value |-> End] BY DEF Item, Wake
      <3>5. Settles BY <1>4, <1>b, <3>3, <3>4, BranchFacts DEF ServerEnds, queueVars, Settles
      <3> QED BY <3>3, <3>5 DEF Steps
    <2>2. CASE pc # "racing" BY <1>4, <1>u, <2>2 DEF ServerEnds, queueVars, Kept, Steps
    <2> QED BY <2>1, <2>2
  <1>5. CASE Ask
    <2> DEFINE i == [queue |-> "control_plane", kind |-> "other"]
    <2>1. i \in [queue : Queues, kind : Kinds] BY BranchFacts DEF Kinds
    <2>2. Len(sent) + 1 \in Ids BY <1>5, NextId DEF Ask
    <2>3. Push(i.queue, Len(sent) + 1) /\ sent' = Append(sent, i) /\ UNCHANGED <<outcomes, Kept>>
      BY <1>5 DEF Ask, Kept
    <2> HIDE DEF i
    <2> QED BY <2>1, <2>2, <2>3, PushEffect DEF Steps
  <1>6. CASE AskCancelled BY <1>6, <1>u DEF AskCancelled, queueVars, selectVars, Kept, Steps
  <1>7. CASE TurnSettles
    <2>1. CASE pc = "racing"
      <3>1. Wake("turn", End) \in Jobs /\ Wake("turn", End).at # "check" BY <1>b DEF Wake, Jobs
      <3>2. /\ pc' = "racing" /\ jobs' = Append(jobs, Wake("turn", End)) /\ outcomes' = outcomes
        BY <1>7, <2>1 DEF TurnSettles
      <3>3. Items' = Items \cup {Item(Wake("turn", End))} /\ RaceInv'
        BY <2>1, <3>1, <3>2, JobAdded
      <3>4. Item(Wake("turn", End)) = [branch |-> "turn", value |-> End] BY DEF Item, Wake
      <3>5. Settles BY <1>7, <1>b, <3>3, <3>4, BranchFacts DEF TurnSettles, queueVars, Settles
      <3> QED BY <3>3, <3>5 DEF Steps
    <2>2. CASE pc # "racing" BY <1>7, <1>u, <2>2 DEF TurnSettles, queueVars, Kept, Steps
    <2> QED BY <2>1, <2>2
  <1>8. CASE Select
    <2>0. pc = "select" /\ pc' = "racing" /\ Items = {} /\ outcomes' = {}
      BY <1>8, NothingHeld DEF Select
    <2> DEFINE N == Cardinality(ReadyCases)
               job(k) == Wake(Nth(k), Taken(Nth(k)))
    <2>1. Ranges(jobs)' = {job(k) : k \in 1..N} BY <1>8 DEF Select, Ranges
    <2>2. \A k \in 1..N : job(k).at = "wake" /\ Item(job(k)) = [branch |-> Nth(k), value |-> Taken(Nth(k))]
      BY DEF Wake, Item
    <2>3. Items' = {Item(job(k)) : k \in 1..N}
      <3> HIDE DEF N, job
      <3> QED BY <2>0, <2>1, <2>2 DEF Items
    <2>4. {Item(job(k)) : k \in 1..N} = {[branch |-> Nth(k), value |-> Taken(Nth(k))] : k \in 1..N}
      <3> HIDE DEF N, job
      <3> QED BY <2>2
    <2>5. {[branch |-> Nth(k), value |-> Taken(Nth(k))] : k \in 1..N}
            = {[branch |-> b, value |-> Taken(b)] : b \in {c \in Branches : Case(c) /\ Ready(c)}}
      <3>1. \A k \in 1..N : Nth(k) \in {c \in Branches : Case(c) /\ Ready(c)} BY NthReady
      <3>2. \A b \in {c \in Branches : Case(c) /\ Ready(c)} : \E k \in 1..N : Nth(k) = b
        BY ReadyNth
      <3> HIDE DEF N
      <3> QED BY <3>1, <3>2
    <2>6. RaceInv'
      <3>1. \A j \in Ranges(jobs)' : j.at # "check"
        <4> HIDE DEF N, job
        <4> QED BY <2>1, <2>2
      <3> QED BY <2>0, <3>1 DEF RaceInv
    <2>7. Selects
      <3> HIDE DEF N, job
      <3> QED BY <1>8, <2>0, <2>3, <2>4, <2>5 DEF Select, Selects
    <2> QED BY <2>6, <2>7 DEF Steps
  <1>9. CASE Woken
    <2>a. jobs # <<>> /\ pc = "racing" /\ pc' = "racing" /\ outcomes' = outcomes
          /\ Head(jobs).at = "wake"
          /\ jobs' = Append(Tail(jobs), [Head(jobs) EXCEPT !.at = "record"])
      BY <1>9 DEF Woken
    <2>1. /\ Head(jobs) \in Jobs /\ Tail(jobs) \in Seq(Jobs)
          /\ Ranges(jobs) = {Head(jobs)} \cup Ranges(Tail(jobs))
      BY <2>a, RangesHeadTail DEF TypeOK
    <2> DEFINE j == [Head(jobs) EXCEPT !.at = "record"]
    <2>2. j \in Jobs /\ j.at = "record" /\ Item(j) = Item(Head(jobs)) BY <2>1 DEF Jobs, Item
    <2>3. Ranges(jobs)' = Ranges(Tail(jobs)) \cup {j}
      <3> DEFINE rest == Tail(jobs)
      <3>1. rest \in Seq(Jobs) /\ jobs' = Append(rest, j) BY <2>a, <2>1
      <3> HIDE DEF rest, j
      <3>2. Ranges(jobs') = Ranges(rest) \cup {j} BY <2>2, <3>1, RangesAppend
      <3> QED BY <3>2 DEF rest, Ranges
    <2>4. Items' = Items
      <3> HIDE DEF j
      <3> QED BY <2>a, <2>1, <2>2, <2>3 DEF Items
    <2>5. RaceInv'
      <3> HIDE DEF j
      <3> QED BY <2>a, <2>1, <2>2, <2>3 DEF RaceInv
    <2>6. Settles BY <1>9, <1>b, <2>4 DEF Woken, queueVars, Settles
    <2> QED BY <2>5, <2>6 DEF Steps
  <1>10. CASE Record
    <2>a. jobs # <<>> /\ pc = "racing" /\ pc' = "racing" /\ Head(jobs).at = "record"
          /\ outcomes' = outcomes \cup {Item(Head(jobs))}
      BY <1>10 DEF Record, Item
    <2>1. /\ Head(jobs) \in Jobs /\ Tail(jobs) \in Seq(Jobs)
          /\ Ranges(jobs) = {Head(jobs)} \cup Ranges(Tail(jobs))
      BY <2>a, RangesHeadTail DEF TypeOK
    <2> DEFINE j == [at |-> "check", branch |-> "turn", value |-> End]
    <2>2. j \in Jobs BY <1>b DEF Jobs
    <2>3. jobs' = Tail(jobs) \/ jobs' = Append(Tail(jobs), j) BY <1>10 DEF Record
    <2>4. Ranges(jobs)' \in {Ranges(Tail(jobs)), Ranges(Tail(jobs)) \cup {j}}
      <3> DEFINE rest == Tail(jobs)
      <3>1. rest \in Seq(Jobs) /\ (jobs' = rest \/ jobs' = Append(rest, j)) BY <2>1, <2>3
      <3> HIDE DEF rest, j
      <3>2. jobs' = Append(rest, j) => Ranges(jobs') = Ranges(rest) \cup {j}
        BY <2>2, <3>1, RangesAppend
      <3> QED BY <3>1, <3>2 DEF rest, Ranges
    <2>5. j.at = "check" /\ j.value = End OBVIOUS
    <2>6. Items' = Items
      <3> HIDE DEF j
      <3> QED BY <2>a, <2>1, <2>4, <2>5 DEF Items
    <2>7. RaceInv'
      <3> HIDE DEF j
      <3> QED BY <2>a, <2>1, <2>4, <2>5 DEF RaceInv
    <2>8. Settles BY <1>10, <1>b, <2>6 DEF Record, queueVars, Settles
    <2> QED BY <2>7, <2>8 DEF Steps
  <1>11. CASE Commit
    <2>1. outcomes # {}
      <3>1. Head(jobs) \in Ranges(jobs) BY <1>11, RangesHeadTail DEF Commit, TypeOK
      <3> QED BY <1>11, <3>1 DEF Commit, RaceInv
    <2>2. event' \in Items BY <1>11, <2>1, WinnerRecorded DEF Commit, Items
    <2>3. jobs' = <<>> /\ outcomes' = {} /\ pc = "racing" /\ pc' = "handling" BY <1>11 DEF Commit
    <2>4. Items' = {} BY <2>3, RangesEmpty DEF Items, Ranges
    <2>5. InFlight \ {End} = {x.value : x \in Items} \ {End} BY InFlightItems
    <2>6. lost' = lost \cup (InFlight \ {End, event'.value}) BY <1>11 DEF Commit
    <2>7. Commits BY <1>11, <2>2, <2>3, <2>4, <2>5, <2>6 DEF Commit, Commits
    <2>8. RaceInv' BY <1>11, <2>3, RangesEmpty DEF RaceInv, Ranges, Commit
    <2> QED BY <2>7, <2>8 DEF Steps
  <1>12. CASE StartNextQueuedTurn
    <2>1. UNCHANGED <<waiting, jobs, outcomes, buffer, sent, event, handled, lost, closed>>
          /\ pc = "finishing" /\ pc' = "select"
      BY <1>12 DEF StartNextQueuedTurn, queueVars, selectVars
    <2>2. RaceInv' /\ Items = {} /\ Items' = {} BY <2>1, UnheldStep
    <2>3. Settles BY <1>b, <2>1, <2>2 DEF Settles
    <2> QED BY <2>2, <2>3 DEF Steps
  <1>13. CASE FinishTurn
    BY <1>13, <1>h, BranchFacts DEF FinishTurn, queueVars, selectVars, Steps
  <1>14. CASE HandleCommand BY <1>14, <1>h DEF HandleCommand, queueVars, selectVars, Steps
  <1>15. CASE HandleRelay BY <1>15, <1>h DEF HandleRelay, queueVars, selectVars, Steps
  <1>16. CASE HandleMainRun BY <1>16, <1>h DEF HandleMainRun, queueVars, selectVars, Steps
  <1>17. CASE HandleFeed
    <2>1. RaceInv' /\ Items = {} /\ Items' = {}
      BY <1>17, UnheldStep DEF HandleFeed, selectVars
    <2>2. HandlesFeed BY <1>17, <2>1 DEF HandleFeed, HandlesFeed
    <2> QED BY <2>1, <2>2 DEF Steps
  <1>18. CASE ShowControlPlanePrompt
    BY <1>18, <1>h DEF ShowControlPlanePrompt, queueVars, selectVars, Steps
  <1>19. CASE Retire BY <1>19, <1>h DEF Retire, queueVars, selectVars, Steps
  <1>20. CASE Leave
    <2>1. PICK b \in {"ctrl_c", "server"} : Handling(b) BY <1>20 DEF Leave
    <2> QED BY <1>20, <1>h, <2>1, BranchFacts DEF Leave, selectVars, Steps
  <1>21. CASE UNCHANGED vars BY <1>21, <1>u DEF vars, queueVars, selectVars, Kept, Steps
  <1> QED
    BY <1>1, <1>2, <1>3, <1>4, <1>5, <1>6, <1>7, <1>8, <1>9, <1>10, <1>11, <1>12, <1>13,
       <1>14, <1>15, <1>16, <1>17, <1>18, <1>19, <1>20, <1>21 DEF Next

-----------------------------------------------------------------------------
(* Guards: while a select races or its event is handled, no case is closed    *)
(* that was open, and only a select registers waiters.                        *)
Stable ==
    /\ UNCHANGED <<closed, card>>
    /\ fut' = fut \/ (fut \in {"running", "asking"} /\ fut' \in {"running", "asking", "settled"})

Registers(q) == pc = "select" /\ Case(q) /\ buffer[q] = <<>> /\ ~isClosed[q]

(* What a step may change while a select races or its event is handled. *)
LEMMA StableStep ==
    ASSUME TypeOK, RaceInv, Next, pc' \in {"racing", "handling"}
    PROVE  /\ Stable
           /\ \A q \in Queues : waiting'[q] = 1 =>
                  /\ waiting[q] = 1 \/ Registers(q)
                  /\ buffer'[q] = buffer[q] /\ isClosed'[q] = isClosed[q]
  <1> DEFINE Waits == \A q \in Queues : waiting'[q] = 1 =>
                         /\ waiting[q] = 1 \/ Registers(q)
                         /\ buffer'[q] = buffer[q] /\ isClosed'[q] = isClosed[q]
  <1> USE InputsAssumption
  <1>a. /\ waiting \in [Queues -> 0..1] /\ buffer \in [Queues -> Seq(Ids)]
        /\ isClosed \in [Queues -> BOOLEAN]
    BY DEF TypeOK
  <1>q. ASSUME UNCHANGED queueVars PROVE Waits BY <1>q DEF queueVars
  <1>p. ASSUME NEW q \in Queues, NEW v, Push(q, v) PROVE Waits
    <2>1. CASE waiting[q] > 0
      <3>1. waiting' = [waiting EXCEPT ![q] = @ - 1] /\ UNCHANGED <<buffer, isClosed>>
        BY <1>a, <1>p, <2>1 DEF Push
      <3> QED BY <1>a, <3>1
    <2>2. CASE ~(waiting[q] > 0)
      <3>1. waiting[q] = 0 /\ buffer' = [buffer EXCEPT ![q] = Append(@, v)]
            /\ UNCHANGED <<waiting, isClosed>>
        BY <1>a, <1>p, <2>2 DEF Push
      <3> QED BY <1>a, <3>1
    <2> QED BY <2>1, <2>2
  <1>1. ASSUME NEW i \in Inputs, Send(i) PROVE Stable /\ Waits
    BY <1>1, <1>p DEF Send, turnVars, Stable
  <1>2. ASSUME NEW q \in Closable, Close(q) PROVE Stable /\ Waits
    <2>1. Stable BY <1>2 DEF Close, turnVars, Stable
    <2>2. /\ waiting' = [waiting EXCEPT ![q] = 0] /\ isClosed' = [isClosed EXCEPT ![q] = TRUE]
          /\ buffer' = buffer /\ q \in Queues
      BY <1>2 DEF Close
    <2>3. ASSUME NEW p \in Queues, waiting'[p] = 1
          PROVE  waiting[p] = 1 /\ buffer'[p] = buffer[p] /\ isClosed'[p] = isClosed[p]
      <3>1. p # q BY <1>a, <2>2, <2>3
      <3> QED BY <1>a, <2>2, <2>3, <3>1
    <2>4. Waits BY <2>3
    <2> QED BY <2>1, <2>4
  <1>3. CASE Interrupt BY <1>3, <1>q DEF Interrupt, turnVars, Stable
  <1>4. CASE ServerEnds BY <1>4, <1>q DEF ServerEnds, turnVars, Stable
  <1>5. CASE Ask BY <1>5, <1>p, BranchFacts DEF Ask, Stable
  <1>6. CASE AskCancelled BY <1>6, <1>q DEF AskCancelled, Stable
  <1>7. CASE TurnSettles BY <1>7, <1>q DEF TurnSettles, Stable
  <1>8. CASE Select
    <2>1. Stable BY <1>8 DEF Select, turnVars, Stable
    <2>2. ASSUME NEW q \in Queues, waiting'[q] = 1
          PROVE  /\ waiting[q] = 1 \/ Registers(q)
                 /\ buffer'[q] = buffer[q] /\ isClosed'[q] = isClosed[q]
      <3>1. waiting[q] = 0 BY <1>8 DEF Select, RaceInv
      <3>2. Case(q) /\ ~Ready(q) BY <1>8, <2>2, <3>1 DEF Select
      <3>3. buffer[q] = <<>> /\ ~isClosed[q]
        <4>1. q \notin {"turn", "server", "ctrl_c"} BY BranchFacts
        <4> QED BY <3>2, <4>1 DEF Ready
      <3> QED BY <1>8, <3>2, <3>3 DEF Select, Registers
    <2> QED BY <2>1, <2>2
  <1>9. CASE Woken BY <1>9, <1>q DEF Woken, turnVars, Stable
  <1>10. CASE Record BY <1>10, <1>q DEF Record, turnVars, Stable
  <1>11. CASE Commit BY <1>11 DEF Commit, turnVars, Stable
  <1>12. CASE StartNextQueuedTurn BY <1>12 DEF StartNextQueuedTurn
  <1>13. CASE FinishTurn BY <1>13 DEF FinishTurn
  <1>14. CASE HandleCommand BY <1>14 DEF HandleCommand
  <1>15. CASE HandleRelay BY <1>15 DEF HandleRelay
  <1>16. CASE HandleMainRun BY <1>16 DEF HandleMainRun
  <1>17. CASE HandleFeed BY <1>17 DEF HandleFeed
  <1>18. CASE ShowControlPlanePrompt BY <1>18 DEF ShowControlPlanePrompt
  <1>19. CASE Retire BY <1>19 DEF Retire
  <1>20. CASE Leave BY <1>20 DEF Leave
  <1> QED
    BY <1>1, <1>2, <1>3, <1>4, <1>5, <1>6, <1>7, <1>8, <1>9, <1>10, <1>11, <1>12, <1>13,
       <1>14, <1>15, <1>16, <1>17, <1>18, <1>19, <1>20 DEF Next

(* The guards of the cases that are held stay true. *)
LEMMA GuardStep ==
    TypeOK /\ SlotInv /\ RaceInv /\ GuardInv /\ [Next]_vars => GuardInv'
  <1> SUFFICES ASSUME TypeOK, SlotInv, RaceInv, GuardInv, [Next]_vars PROVE GuardInv' OBVIOUS
  <1>1. RaceInv' /\ Steps BY StepKinds
  <1>2. CASE UNCHANGED vars
    BY <1>2 DEF vars, queueVars, selectVars, turnVars, GuardInv, Held, Items, Ranges, Open, Case
  <1>3. CASE Next /\ pc' \notin {"racing", "handling"}
    <2>1. jobs' = <<>> /\ outcomes' = {} /\ \A q \in Queues : waiting'[q] = 0
      BY <1>1, <1>3 DEF RaceInv
    <2>2. Held' = {} BY <1>3, <2>1, RangesEmpty DEF Held, Items, Ranges
    <2> QED BY <2>1, <2>2 DEF GuardInv
  <1>4. CASE Next /\ pc' \in {"racing", "handling"}
    <2>1. /\ Stable
          /\ \A q \in Queues : waiting'[q] = 1 =>
                 /\ waiting[q] = 1 \/ Registers(q)
                 /\ buffer'[q] = buffer[q] /\ isClosed'[q] = isClosed[q]
      BY <1>4, StableStep
    <2>2. ASSUME NEW b, Open(b) PROVE Open(b)'
      BY <2>1, <2>2 DEF Open, Case, Stable
    <2>3. ASSUME NEW q \in Queues, waiting'[q] = 1
          PROVE  Open(q)' /\ buffer'[q] = <<>> /\ ~isClosed'[q]
      <3>1. q # "turn" BY BranchFacts
      <3>2. Open(q) /\ buffer[q] = <<>> /\ ~isClosed[q]
        BY <2>1, <2>3, <3>1 DEF GuardInv, Registers, Open
      <3> QED BY <2>1, <2>2, <2>3, <3>2
    <2>4. ASSUME NEW x \in Held' PROVE Open(x.branch)'
      <3>1. CASE x \in Held BY <2>2, <3>1 DEF GuardInv
      <3>2. CASE x \notin Held
        <4>1. ASSUME NEW i \in [queue : Queues, kind : Kinds], Sends(i) PROVE Open(x.branch)'
          <5>1. waiting[i.queue] = 1 /\ x.branch = i.queue
            BY <3>2, <4>1 DEF Sends, Held, Kept
          <5> QED BY <2>2, <5>1 DEF GuardInv
        <4>2. CASE Settles
          <5>0. x \in Items' /\ x \notin Items BY <3>2, <4>2 DEF Settles, Held
          <5>1. PICK b \in Branches :
                  /\ x.branch = b
                  /\ b \in Queues => waiting[b] = 1
                  /\ b = "turn" => fut' = "settled"
            <6>1. PICK b \in Branches :
                    /\ Items' = Items \cup {[branch |-> b, value |-> End]}
                    /\ b \in Queues => waiting[b] = 1
                    /\ b = "turn" => fut' = "settled"
              BY <4>2, <5>0 DEF Settles
            <6>2. x.branch = b BY <5>0, <6>1
            <6> QED BY <6>1, <6>2
          <5>2. CASE b \in Queues
            <6>1. Open(b) BY <5>1, <5>2 DEF GuardInv
            <6> QED BY <2>2, <5>1, <6>1
          <5>3. CASE b \notin Queues
            <6>1. b \notin closed BY <5>3 DEF TypeOK
            <6>2. b \notin {"main_run", "control_plane"} BY <5>3, BranchFacts
            <6>3. closed' = closed /\ (b = "turn" => fut' # "none") BY <2>1, <5>1 DEF Stable
            <6> QED BY <5>1, <6>1, <6>2, <6>3 DEF Open, Case
          <5> QED BY <5>2, <5>3
        <4>3. CASE Selects
          <5>1. PICK b \in Branches : Case(b) /\ Ready(b) /\ x = [branch |-> b, value |-> Taken(b)]
            BY <3>2, <4>3 DEF Selects, Held
          <5>2. b = "turn" => fut = "settled" BY <5>1 DEF Ready
          <5> QED BY <2>2, <5>1, <5>2 DEF Open
        <4>4. CASE Commits BY <3>2, <4>4 DEF Commits, Held
        <4>5. CASE Handles \/ HandlesFeed BY <4>5 DEF Handles, HandlesFeed, Held
        <4> QED BY <1>1, <4>1, <4>2, <4>3, <4>4, <4>5 DEF Steps
      <3> QED BY <3>1, <3>2
    <2> QED BY <2>3, <2>4 DEF GuardInv
  <1> QED BY <1>2, <1>3, <1>4

-----------------------------------------------------------------------------
(* Order: within a queue ids ascend from what is handled over what is held to *)
(* what is buffered, every id is of its queue, and the end of a queue was     *)
(* handled only if its case is retired.                                       *)
BufferOrder ==
    \A q \in Queues :
        /\ \A m, n \in DOMAIN buffer[q] : m < n => buffer[q][m] < buffer[q][n]
        /\ \A n \in DOMAIN buffer[q] : sent[buffer[q][n]].queue = q
HeldOrder ==
    \A x \in Held : x.value # End =>
        /\ x.branch \in Queues /\ sent[x.value].queue = x.branch
        /\ \A n \in DOMAIN buffer[x.branch] : x.value < buffer[x.branch][n]
Before(h) ==
    /\ h.branch \in Queues
    /\ \A x \in Held : x.branch = h.branch /\ x.value # End => h.value < x.value
    /\ \A n \in DOMAIN buffer[h.branch] : h.value < buffer[h.branch][n]
HandledOrder ==
    \A m \in DOMAIN handled :
        /\ handled[m].branch \in Queues /\ handled[m].value = End => handled[m].branch \in closed
        /\ handled[m].value # End => Before(handled[m])
OrderInv == BufferOrder /\ HeldOrder /\ HandledOrder

(* The values the loop knows are values sent. *)
IdsKnown ==
    /\ \A q \in Queues : \A n \in DOMAIN buffer[q] : buffer[q][n] \in 1..Len(sent)
    /\ \A x \in Held : x.value # End => x.value \in 1..Len(sent)
    /\ \A m \in DOMAIN handled : handled[m].value # End => handled[m].value \in 1..Len(sent)

(* The places of a value, in terms of the sets the proofs speak of. *)
LEMMA PlacesSplit ==
    /\ UNION Ranges(Places) = Buffered \cup (InFlight \ {End}) \cup Current \cup HandledIds \cup lost
    /\ (\A m, n \in DOMAIN Places : m # n => Places[m] \cap Places[n] = {}) <=>
         /\ Buffered \cap (InFlight \ {End}) = {} /\ Buffered \cap Current = {}
         /\ Buffered \cap HandledIds = {} /\ Buffered \cap lost = {}
         /\ (InFlight \ {End}) \cap Current = {} /\ (InFlight \ {End}) \cap HandledIds = {}
         /\ (InFlight \ {End}) \cap lost = {}
         /\ Current \cap HandledIds = {} /\ Current \cap lost = {} /\ HandledIds \cap lost = {}
  <1>1. DOMAIN Places = {1, 2, 3, 4, 5} BY DEF Places
  <1>2. /\ Places[1] = Buffered /\ Places[2] = InFlight \ {End} /\ Places[3] = Current
        /\ Places[4] = HandledIds /\ Places[5] = lost
    BY DEF Places
  <1>3. Ranges(Places) = {Buffered, InFlight \ {End}, Current, HandledIds, lost}
    BY <1>1, <1>2 DEF Ranges
  <1>4. UNION {Buffered, InFlight \ {End}, Current, HandledIds, lost}
          = Buffered \cup (InFlight \ {End}) \cup Current \cup HandledIds \cup lost
    OBVIOUS
  <1> QED BY <1>1, <1>2, <1>3, <1>4

(* Nothing is in a place that was not sent. *)
LEMMA Known == ASSUME TypeOK, RaceInv, ValuesAccounted PROVE IdsKnown
  <1>1. DOMAIN sent = 1..Len(sent) BY LenProperties DEF TypeOK
  <1>2. Buffered \cup (InFlight \ {End}) \cup Current \cup HandledIds \cup lost = 1..Len(sent)
    BY <1>1, PlacesSplit DEF ValuesAccounted
  <1>3. ASSUME NEW q \in Queues, NEW n \in DOMAIN buffer[q] PROVE buffer[q][n] \in 1..Len(sent)
    <2>1. buffer[q][n] \in Buffered BY DEF Buffered, Ranges
    <2> QED BY <1>2, <2>1
  <1>4. ASSUME NEW x \in Held, x.value # End PROVE x.value \in 1..Len(sent)
    <2>1. CASE x \in Items
      <3>1. x.value \in InFlight \ {End} BY <1>4, <2>1, InFlightItems
      <3> QED BY <1>2, <3>1
    <2>2. CASE x \notin Items
      <3>1. x.value \in Current BY <1>4, <2>2 DEF Held, Current
      <3> QED BY <1>2, <3>1
    <2> QED BY <2>1, <2>2
  <1>5. ASSUME NEW m \in DOMAIN handled, handled[m].value # End
        PROVE handled[m].value \in 1..Len(sent)
    <2>1. handled[m].value \in HandledIds BY <1>5 DEF HandledIds, Ranges
    <2> QED BY <1>2, <2>1
  <1> QED BY <1>3, <1>4, <1>5 DEF IdsKnown

(* What is handled goes to the end of the history, in order. *)
LEMMA HandledNext ==
    ASSUME TypeOK, handled' = Append(handled, event)
    PROVE  /\ Len(handled) \in Nat /\ DOMAIN handled = 1..Len(handled)
           /\ DOMAIN handled' = 1..(Len(handled) + 1)
           /\ \A k \in DOMAIN handled : handled'[k] = handled[k]
           /\ handled'[Len(handled) + 1] = event
  <1>1. handled \in Seq(Event) /\ event \in Event BY DEF TypeOK, Event
  <1>3. /\ Len(handled) \in Nat /\ DOMAIN handled = 1..Len(handled)
        /\ Append(handled, event) \in Seq(Event)
        /\ Len(Append(handled, event)) = Len(handled) + 1
        /\ \A k \in 1..Len(handled) : Append(handled, event)[k] = handled[k]
        /\ Append(handled, event)[Len(handled) + 1] = event
    BY <1>1, AppendProperties, LenProperties
  <1>4. DOMAIN Append(handled, event) = 1..(Len(handled) + 1) BY <1>3, LenProperties
  <1> QED BY <1>3, <1>4

FeedAppended ==
    handled' = Append(handled, event)
                 \o [n \in DOMAIN buffer["feed"] |->
                      [branch |-> "feed", value |-> buffer["feed"][n]]]

LEMMA FeedNext ==
    ASSUME TypeOK, FeedAppended
    PROVE  LET n == Len(handled) + 1
               f == buffer["feed"]
           IN  /\ Len(handled) \in Nat /\ DOMAIN handled = 1..Len(handled)
               /\ Len(f) \in Nat /\ DOMAIN f = 1..Len(f)
               /\ DOMAIN handled' = 1..(n + Len(f))
               /\ \A k \in DOMAIN handled : handled'[k] = handled[k]
               /\ handled'[n] = event
               /\ \A k \in DOMAIN f : handled'[n + k] = [branch |-> "feed", value |-> f[k]]
  <1> DEFINE n == Len(handled) + 1
             f == buffer["feed"]
             first == Append(handled, event)
             rest == [k \in DOMAIN f |-> [branch |-> "feed", value |-> f[k]]]
  <1>1. handled \in Seq(Event) /\ event \in Event /\ f \in Seq(Ids)
    BY BranchFacts DEF TypeOK, Event
  <1>2. /\ Len(handled) \in Nat /\ DOMAIN handled = 1..Len(handled)
        /\ first \in Seq(Event) /\ Len(first) = n
        /\ \A k \in 1..Len(handled) : first[k] = handled[k]
        /\ first[n] = event
    BY <1>1, AppendProperties, LenProperties
  <1>3. Len(f) \in Nat /\ DOMAIN f = 1..Len(f) /\ \A k \in 1..Len(f) : f[k] \in Ids
    BY <1>1, LenProperties, ElementOfSeq
  <1>4. rest \in Seq(Event) /\ Len(rest) = Len(f)
    <2>1. rest \in [1..Len(f) -> Event] BY <1>3, BranchFacts DEF Event
    <2>2. rest \in Seq(Event) BY <1>3, <2>1, SeqDef
    <2>3. DOMAIN rest = 1..Len(f) BY <1>3
    <2> HIDE DEF rest, f
    <2> QED BY <1>3, <2>2, <2>3, LenProperties
  <1>5. handled' = first \o rest BY DEF FeedAppended
  <1>6. /\ first \o rest \in Seq(Event) /\ Len(first \o rest) = n + Len(f)
        /\ \A i \in 1..(n + Len(f)) : (first \o rest)[i] = IF i <= n THEN first[i] ELSE rest[i - n]
    <2> HIDE DEF first, rest, n, f
    <2>1. first \in Seq(Event) /\ Len(first) = n /\ rest \in Seq(Event) /\ Len(rest) = Len(f)
      BY <1>2, <1>4
    <2>2. /\ first \o rest \in Seq(Event) /\ Len(first \o rest) = Len(first) + Len(rest)
          /\ \A i \in 1..(Len(first) + Len(rest)) :
                (first \o rest)[i] = IF i <= Len(first) THEN first[i] ELSE rest[i - Len(first)]
      BY <2>1, ConcatProperties
    <2> QED BY <2>1, <2>2
  <1>7. DOMAIN handled' = 1..(n + Len(f))
    <2> HIDE DEF first, rest, n, f
    <2> QED BY <1>5, <1>6, LenProperties
  <1>8. n \in Nat /\ Len(handled) < n BY <1>2
  <1>9. \A k \in 1..Len(handled) : handled'[k] = handled[k]
    <2> HIDE DEF first, rest, f
    <2>1. \A k \in 1..Len(handled) : k \in 1..(n + Len(f)) /\ k <= n BY <1>2, <1>3
    <2> HIDE DEF n
    <2> QED BY <1>2, <1>5, <1>6, <2>1
  <1>10. handled'[n] = event
    <2> HIDE DEF first, rest, f
    <2>1. n \in 1..(n + Len(f)) /\ n <= n BY <1>2, <1>3
    <2> HIDE DEF n
    <2> QED BY <1>2, <1>5, <1>6, <2>1
  <1>11. \A k \in 1..Len(f) : handled'[n + k] = rest[k]
    <2> HIDE DEF first, rest, f
    <2>1. \A k \in 1..Len(f) : n + k \in 1..(n + Len(f)) /\ ~(n + k <= n) /\ (n + k) - n = k
      BY <1>2, <1>3
    <2> HIDE DEF n
    <2> QED BY <1>5, <1>6, <2>1
  <1>12. \A k \in DOMAIN f : rest[k] = [branch |-> "feed", value |-> f[k]] OBVIOUS
  <1> HIDE DEF first, rest
  <1> QED BY <1>2, <1>3, <1>7, <1>9, <1>10, <1>11, <1>12

-----------------------------------------------------------------------------
(* The order is kept by every kind of step. *)
LEMMA OrderSends ==
    ASSUME TypeOK, GuardInv, IdsKnown, OrderInv,
           NEW i \in [queue : Queues, kind : Kinds], Sends(i)
    PROVE  OrderInv'
  <1> DEFINE q == i.queue
             v == Len(sent) + 1
  <1>1. /\ sent \in Seq([queue : Queues, kind : Kinds]) /\ Len(sent) \in Nat
        /\ sent'[v] = i /\ \A k \in 1..Len(sent) : sent'[k] = sent[k]
    BY AppendProperties, LenProperties DEF TypeOK, Sends
  <1>2. q \in Queues /\ buffer \in [Queues -> Seq(Ids)] BY DEF TypeOK
  <1>k. UNCHANGED <<pc, event, handled, closed>> BY DEF Sends, Kept
  <1>3. CASE /\ waiting[q] = 1 /\ Items' = Items \cup {[branch |-> q, value |-> v]}
             /\ buffer' = buffer
    <2>1. Held' = Held \cup {[branch |-> q, value |-> v]} BY <1>3, <1>k DEF Held
    <2>2. buffer[q] = <<>> BY <1>2, <1>3 DEF GuardInv
    <2>3. BufferOrder' BY <1>1, <1>3 DEF OrderInv, BufferOrder, IdsKnown
    <2>4. HeldOrder'
      <3>1. ASSUME NEW x \in Held', x.value # End
            PROVE  /\ x.branch \in Queues /\ sent'[x.value].queue = x.branch
                   /\ \A n \in DOMAIN buffer'[x.branch] : x.value < buffer'[x.branch][n]
        <4>1. CASE x \in Held BY <1>1, <1>3, <3>1, <4>1 DEF OrderInv, HeldOrder, IdsKnown
        <4>2. CASE x = [branch |-> q, value |-> v]
          <5>1. x.branch = q /\ x.value = v BY <4>2
          <5>2. DOMAIN buffer[q] = {} BY <2>2
          <5> QED BY <1>1, <1>2, <1>3, <5>1, <5>2
        <4> QED BY <2>1, <4>1, <4>2
      <3> QED BY <3>1 DEF HeldOrder
    <2>5. HandledOrder'
      <3>1. ASSUME NEW m \in DOMAIN handled, handled[m].value # End
            PROVE  \A x \in Held' : x.branch = handled[m].branch /\ x.value # End
                                       => handled[m].value < x.value
        <4>1. handled[m].value \in 1..Len(sent) BY <3>1 DEF IdsKnown
        <4>2. handled[m].value < v BY <1>1, <4>1
        <4>3. \A x \in Held : x.branch = handled[m].branch /\ x.value # End
                                 => handled[m].value < x.value
          BY <3>1 DEF OrderInv, HandledOrder, Before
        <4> QED BY <2>1, <4>2, <4>3
      <3> QED BY <1>3, <1>k, <3>1 DEF OrderInv, HandledOrder, Before
    <2> QED BY <2>3, <2>4, <2>5 DEF OrderInv
  <1>4. CASE Items' = Items /\ buffer' = [buffer EXCEPT ![q] = Append(@, v)]
    <2>1. Held' = Held BY <1>4, <1>k DEF Held
    <2>2. \A p \in Queues \ {q} : buffer'[p] = buffer[p] BY <1>2, <1>4
    <2>3. v \in Nat BY <1>1
    <2>a. buffer[q] \in Seq(Nat)
      <3>1. \A n \in 1..Len(buffer[q]) : buffer[q][n] \in Nat
        BY <1>1, <1>2, LenProperties DEF IdsKnown
      <3>2. Len(buffer[q]) \in Nat /\ buffer[q] \in [1..Len(buffer[q]) -> Ids]
        BY <1>2, LenProperties
      <3>3. buffer[q] \in [1..Len(buffer[q]) -> Nat] BY <3>1, <3>2
      <3> HIDE DEF q
      <3> QED BY <3>2, <3>3, SeqDef
    <2>4. /\ DOMAIN buffer[q] = 1..Len(buffer[q]) /\ Len(buffer[q]) \in Nat
          /\ DOMAIN buffer'[q] = 1..(Len(buffer[q]) + 1)
          /\ \A n \in DOMAIN buffer[q] : buffer'[q][n] = buffer[q][n]
          /\ buffer'[q][Len(buffer[q]) + 1] = v
      <3> HIDE DEF q, v
      <3>1. buffer'[q] = Append(buffer[q], v) BY <1>2, <1>4
      <3> QED BY <2>3, <2>a, <3>1, AppendProperties, LenProperties
    <2>5. \A n \in DOMAIN buffer[q] : buffer[q][n] \in 1..Len(sent) /\ buffer[q][n] < v
      BY <1>1, <1>2 DEF IdsKnown
    <2>6. BufferOrder'
      <3>1. ASSUME NEW m \in DOMAIN buffer'[q], NEW n \in DOMAIN buffer'[q], m < n
            PROVE buffer'[q][m] < buffer'[q][n]
        <4>1. m \in DOMAIN buffer[q] BY <2>4, <3>1
        <4>2. CASE n \in DOMAIN buffer[q]
          BY <1>2, <2>4, <3>1, <4>1, <4>2 DEF OrderInv, BufferOrder
        <4>3. CASE n = Len(buffer[q]) + 1
          <5> HIDE DEF q, v
          <5> QED BY <2>4, <2>5, <4>1, <4>3
        <4> QED BY <2>4, <4>2, <4>3
      <3>2. ASSUME NEW n \in DOMAIN buffer'[q] PROVE sent'[buffer'[q][n]].queue = q
        <4>1. CASE n \in DOMAIN buffer[q]
          <5>1. sent[buffer[q][n]].queue = q BY <1>2, <4>1 DEF OrderInv, BufferOrder
          <5> HIDE DEF q, v
          <5> QED BY <1>1, <2>4, <2>5, <4>1, <5>1
        <4>2. CASE n = Len(buffer[q]) + 1
          <5>1. sent'[v].queue = q BY <1>1
          <5> HIDE DEF q, v
          <5> QED BY <2>4, <4>2, <5>1
        <4> QED BY <2>4, <3>2, <4>1, <4>2
      <3>3. ASSUME NEW p \in Queues \ {q}
            PROVE  /\ \A m, n \in DOMAIN buffer'[p] : m < n => buffer'[p][m] < buffer'[p][n]
                   /\ \A n \in DOMAIN buffer'[p] : sent'[buffer'[p][n]].queue = p
        <4> HIDE DEF q, v
        <4>1. buffer'[p] = buffer[p] BY <2>2
        <4> QED BY <1>1, <4>1 DEF OrderInv, BufferOrder, IdsKnown
      <3> HIDE DEF q
      <3> QED BY <3>1, <3>2, <3>3 DEF BufferOrder
    (* What is below all of a buffer is below the new value, too. *)
    <2>7. ASSUME NEW k \in 1..Len(sent), NEW b \in Queues,
                 \A n \in DOMAIN buffer[b] : k < buffer[b][n]
          PROVE  \A n \in DOMAIN buffer'[b] : k < buffer'[b][n]
      <3>1. k < v BY <1>1
      <3> HIDE DEF q, v
      <3>2. CASE b = q
        <4>1. ASSUME NEW n \in DOMAIN buffer'[q] PROVE k < buffer'[q][n]
          <5>1. n \in DOMAIN buffer[q] \/ n = Len(buffer[q]) + 1 BY <2>4
          <5> QED BY <2>4, <2>7, <3>1, <3>2, <5>1
        <4> QED BY <3>2, <4>1
      <3>3. CASE b # q BY <2>2, <2>7, <3>3
      <3> QED BY <3>2, <3>3
    <2>8. HeldOrder'
      <3>1. ASSUME NEW x \in Held, x.value # End
            PROVE  /\ x.branch \in Queues /\ sent'[x.value].queue = x.branch
                   /\ \A n \in DOMAIN buffer'[x.branch] : x.value < buffer'[x.branch][n]
        <4>1. x.value \in 1..Len(sent) BY <3>1 DEF IdsKnown
        <4>2. /\ x.branch \in Queues /\ sent[x.value].queue = x.branch
              /\ \A n \in DOMAIN buffer[x.branch] : x.value < buffer[x.branch][n]
          BY <3>1 DEF OrderInv, HeldOrder
        <4> HIDE DEF q, v
        <4> QED BY <1>1, <2>7, <4>1, <4>2
      <3> QED BY <2>1, <3>1 DEF HeldOrder
    <2>9. HandledOrder'
      <3>1. ASSUME NEW m \in DOMAIN handled, handled[m].value # End
            PROVE  Before(handled[m])'
        <4>1. handled[m].value \in 1..Len(sent) BY <3>1 DEF IdsKnown
        <4>2. Before(handled[m]) BY <3>1 DEF OrderInv, HandledOrder
        <4>3. \A n \in DOMAIN buffer'[handled[m].branch] :
                handled[m].value < buffer'[handled[m].branch][n]
          <5> HIDE DEF q, v
          <5> QED BY <2>7, <4>1, <4>2 DEF Before
        <4> QED BY <1>k, <2>1, <4>2, <4>3 DEF Before
      <3> QED BY <1>k, <3>1 DEF OrderInv, HandledOrder
    <2> QED BY <2>6, <2>8, <2>9 DEF OrderInv
  <1> QED BY <1>3, <1>4 DEF Sends

LEMMA OrderSettles == ASSUME OrderInv, Settles PROVE OrderInv'
  <1>1. UNCHANGED <<buffer, sent, handled, closed>> BY DEF Settles
  <1>2. \A x \in Held' : x.value # End => x \in Held
    <2>1. \A x \in Items' : x \in Items \/ x.value = End BY DEF Settles
    <2>2. \A x \in Held' : x \in Items' \/ x \in Held BY DEF Held, Settles
    <2> QED BY <2>1, <2>2 DEF Held
  <1>3. BufferOrder' BY <1>1 DEF OrderInv, BufferOrder
  <1>4. HeldOrder' BY <1>1, <1>2 DEF OrderInv, HeldOrder
  <1>5. HandledOrder' BY <1>1, <1>2 DEF OrderInv, HandledOrder, Before
  <1> QED BY <1>3, <1>4, <1>5 DEF OrderInv

(* A tail ascends, and lies above its head. *)
LEMMA AscendingTail ==
    ASSUME NEW s \in Seq(Nat), s # <<>>, \A m, n \in DOMAIN s : m < n => s[m] < s[n]
    PROVE  /\ \A m, n \in DOMAIN Tail(s) : m < n => Tail(s)[m] < Tail(s)[n]
           /\ \A n \in DOMAIN Tail(s) : Head(s) < Tail(s)[n]
           /\ \A n \in DOMAIN Tail(s) : \E k \in DOMAIN s : Tail(s)[n] = s[k]
           /\ \E k \in DOMAIN s : Head(s) = s[k]
           /\ Head(s) \notin Ranges(Tail(s))
  <1>1. /\ Tail(s) \in Seq(Nat) /\ Len(s) \in Nat \ {0} /\ Len(Tail(s)) = Len(s) - 1
        /\ \A i \in 1..Len(Tail(s)) : Tail(s)[i] = s[i + 1]
        /\ Head(s) = s[1] /\ Head(s) \in Nat
    BY HeadTailProperties, EmptySeq, LenProperties
  <1>2. DOMAIN s = 1..Len(s) /\ DOMAIN Tail(s) = 1..(Len(s) - 1) BY <1>1, LenProperties
  <1>3. \A n \in DOMAIN Tail(s) : n + 1 \in DOMAIN s /\ 1 < n + 1 /\ Tail(s)[n] = s[n + 1]
    BY <1>1, <1>2
  <1>4. 1 \in DOMAIN s BY <1>1, <1>2
  <1>5. \A n \in DOMAIN Tail(s) : Head(s) < Tail(s)[n] BY <1>1, <1>3, <1>4
  <1>6. ASSUME NEW m \in DOMAIN Tail(s), NEW n \in DOMAIN Tail(s), m < n
        PROVE  Tail(s)[m] < Tail(s)[n]
    <2>1. m + 1 < n + 1 BY <1>2, <1>6
    <2> QED BY <1>3, <2>1
  <1>7. Head(s) \notin Ranges(Tail(s))
    <2>1. \A n \in DOMAIN Tail(s) : Head(s) # Tail(s)[n] BY <1>1, <1>5
    <2> QED BY <2>1 DEF Ranges
  <1> QED BY <1>1, <1>3, <1>4, <1>5, <1>6, <1>7

LEMMA BuffersNat ==
    ASSUME TypeOK, NEW q \in Queues
    PROVE  buffer[q] \in Seq(Nat)
  <1>1. buffer[q] \in Seq(Ids) BY DEF TypeOK
  <1>2. /\ Len(buffer[q]) \in Nat /\ DOMAIN buffer[q] = 1..Len(buffer[q])
        /\ \A n \in 1..Len(buffer[q]) : buffer[q][n] \in Ids
    BY <1>1, LenProperties, ElementOfSeq
  <1>3. \A n \in 1..Len(buffer[q]) : buffer[q][n] \in Nat BY <1>2, InputsAssumption DEF Ids
  <1>4. buffer[q] \in [1..Len(buffer[q]) -> Nat] BY <1>1, <1>2, <1>3, LenProperties
  <1> QED BY <1>2, <1>4, SeqDef

(* A select takes the head of a queue: what stays comes after it. *)
LEMMA OrderSelects == ASSUME TypeOK, OrderInv, Selects PROVE OrderInv'
  <1>1. UNCHANGED <<sent, handled, closed>> BY DEF Selects
  <1>2. ASSUME NEW q \in Queues
        PROVE  /\ buffer'[q] = buffer[q] \/ (buffer[q] # <<>> /\ buffer'[q] = Tail(buffer[q]))
               /\ \A n \in DOMAIN buffer'[q] : \E k \in DOMAIN buffer[q] : buffer'[q][n] = buffer[q][k]
               /\ \A m, n \in DOMAIN buffer'[q] : m < n => buffer'[q][m] < buffer'[q][n]
    <2>1. buffer'[q] = buffer[q] \/ (buffer[q] # <<>> /\ buffer'[q] = Tail(buffer[q]))
      <3>1. buffer'[q] = IF Case(q) /\ buffer[q] # <<>> THEN Tail(buffer[q]) ELSE buffer[q]
        BY DEF Selects
      <3> QED BY <3>1
    <2>2. buffer[q] \in Seq(Nat) BY BuffersNat
    <2>3. \A m, n \in DOMAIN buffer[q] : m < n => buffer[q][m] < buffer[q][n]
      BY DEF OrderInv, BufferOrder
    <2>4. CASE buffer'[q] = buffer[q] BY <2>3, <2>4
    <2>5. CASE buffer[q] # <<>> /\ buffer'[q] = Tail(buffer[q])
      <3>1. /\ \A m, n \in DOMAIN Tail(buffer[q]) : m < n => Tail(buffer[q])[m] < Tail(buffer[q])[n]
            /\ \A n \in DOMAIN Tail(buffer[q]) : \E k \in DOMAIN buffer[q] :
                  Tail(buffer[q])[n] = buffer[q][k]
        BY <2>2, <2>3, <2>5, AscendingTail
      <3> QED BY <2>5, <3>1
    <2> QED BY <2>1, <2>4, <2>5
  <1>3. BufferOrder' BY <1>1, <1>2 DEF OrderInv, BufferOrder
  (* What a case takes is the head of its queue, and leaves the tail. *)
  <1>4. ASSUME NEW x \in Held', x.value # End
        PROVE  /\ x.branch \in Queues /\ buffer[x.branch] # <<>> /\ x.value = Head(buffer[x.branch])
               /\ buffer'[x.branch] = Tail(buffer[x.branch])
    <2>1. x \in Items' BY <1>4 DEF Held, Selects
    <2>2. PICK b \in Branches : Case(b) /\ x = [branch |-> b, value |-> Taken(b)]
      BY <2>1 DEF Selects
    <2>3. b \in Queues /\ buffer[b] # <<>> /\ Taken(b) = Head(buffer[b]) BY <1>4, <2>2 DEF Taken
    <2> QED BY <2>2, <2>3 DEF Selects
  <1>5. ASSUME NEW x \in Held', x.value # End
        PROVE  /\ sent[x.value].queue = x.branch
               /\ \A n \in DOMAIN buffer'[x.branch] : x.value < buffer'[x.branch][n]
               /\ \E k \in DOMAIN buffer[x.branch] : x.value = buffer[x.branch][k]
    <2> DEFINE q == x.branch
    <2>1. q \in Queues /\ buffer[q] # <<>> /\ x.value = Head(buffer[q]) /\ buffer'[q] = Tail(buffer[q])
      BY <1>4, <1>5
    <2>2. buffer[q] \in Seq(Nat) BY <2>1, BuffersNat
    <2>3. /\ \A m, n \in DOMAIN buffer[q] : m < n => buffer[q][m] < buffer[q][n]
          /\ \A n \in DOMAIN buffer[q] : sent[buffer[q][n]].queue = q
      BY <2>1 DEF OrderInv, BufferOrder
    <2> HIDE DEF q
    <2>4. /\ \A n \in DOMAIN buffer'[q] : x.value < buffer'[q][n]
          /\ \E k \in DOMAIN buffer[q] : x.value = buffer[q][k]
      BY <2>1, <2>2, <2>3, AscendingTail
    <2>5. sent[x.value].queue = q BY <2>3, <2>4
    <2> QED BY <2>4, <2>5 DEF q
  <1>6. HeldOrder' BY <1>1, <1>4, <1>5 DEF HeldOrder
  <1>7. HandledOrder'
    <2>1. ASSUME NEW m \in DOMAIN handled, handled[m].value # End PROVE Before(handled[m])'
      <3>1. Before(handled[m]) BY <2>1 DEF OrderInv, HandledOrder
      <3>2. \A n \in DOMAIN buffer'[handled[m].branch] :
              handled[m].value < buffer'[handled[m].branch][n]
        BY <1>2, <3>1 DEF Before
      <3>3. \A x \in Held' : x.branch = handled[m].branch /\ x.value # End => handled[m].value < x.value
        BY <1>5, <3>1 DEF Before
      <3> QED BY <1>1, <3>1, <3>2, <3>3 DEF Before
    <2> QED BY <1>1, <2>1 DEF OrderInv, HandledOrder
  <1> QED BY <1>3, <1>6, <1>7 DEF OrderInv

LEMMA OrderCommits == ASSUME OrderInv, Commits PROVE OrderInv'
  <1>1. UNCHANGED <<buffer, sent, handled, closed>> BY DEF Commits
  <1>2. \A x \in Held' : x \in Held BY DEF Commits, Held
  <1> QED BY <1>1, <1>2 DEF OrderInv, BufferOrder, HeldOrder, HandledOrder, Before

(* What is handled is held, and its case was open: the end of its queue has   *)
(* not been handled.                                                          *)
LEMMA EventOpen ==
    ASSUME GuardInv, OrderInv, pc = "handling"
    PROVE  /\ event \in Held
           /\ \A m \in DOMAIN handled : handled[m].branch = event.branch /\ event.branch \in Queues
                 => handled[m].value # End
  <1>1. event \in Held BY DEF Held
  <1>2. event.branch \notin closed BY <1>1 DEF GuardInv, Open, Case
  <1> QED BY <1>1, <1>2 DEF OrderInv, HandledOrder

(* What is handled comes after what was handled before of its queue. *)
LEMMA OrderHandles ==
    ASSUME TypeOK, GuardInv, OrderInv, HandledInOrder, Handles
    PROVE  OrderInv' /\ HandledInOrder'
  <1>1. UNCHANGED <<buffer, sent>> /\ pc = "handling" /\ Held' = {} /\ closed \subseteq closed'
        /\ (event.branch \in Queues /\ event.value = End => event.branch \in closed')
    BY DEF Handles, Held
  <1>2. /\ Len(handled) \in Nat /\ DOMAIN handled = 1..Len(handled)
        /\ DOMAIN handled' = 1..(Len(handled) + 1)
        /\ \A k \in DOMAIN handled : handled'[k] = handled[k]
        /\ handled'[Len(handled) + 1] = event
    BY HandledNext DEF Handles
  <1>3. /\ event \in Held
        /\ \A m \in DOMAIN handled : handled[m].branch = event.branch /\ event.branch \in Queues
             => handled[m].value # End
    BY <1>1, EventOpen
  <1>4. BufferOrder' /\ HeldOrder' BY <1>1 DEF OrderInv, BufferOrder, HeldOrder
  <1>5. HandledOrder'
    <2>1. ASSUME NEW m \in DOMAIN handled'
          PROVE  /\ handled'[m].branch \in Queues /\ handled'[m].value = End
                      => handled'[m].branch \in closed'
                 /\ handled'[m].value # End =>
                       /\ handled'[m].branch \in Queues
                       /\ \A n \in DOMAIN buffer[handled'[m].branch] :
                            handled'[m].value < buffer[handled'[m].branch][n]
      <3>1. CASE m \in DOMAIN handled
        BY <1>1, <1>2, <3>1 DEF OrderInv, HandledOrder, Before
      <3>2. CASE m = Len(handled) + 1
        BY <1>1, <1>2, <1>3, <3>2 DEF OrderInv, HeldOrder
      <3> QED BY <1>2, <3>1, <3>2
    <2> QED BY <1>1, <2>1 DEF HandledOrder, Before
  <1>6. HandledInOrder'
    <2>1. ASSUME NEW m \in DOMAIN handled', NEW n \in DOMAIN handled', m < n,
                 handled'[m].branch = handled'[n].branch, handled'[m].branch \in Queues
          PROVE  /\ handled'[m].value # End
                 /\ handled'[n].value # End => handled'[m].value < handled'[n].value
      <3>1. m \in DOMAIN handled BY <1>2, <2>1
      <3>2. CASE n \in DOMAIN handled BY <1>2, <2>1, <3>1, <3>2 DEF HandledInOrder
      <3>3. CASE n = Len(handled) + 1
        <4>1. handled[m].value # End /\ handled[m].branch = event.branch
          BY <1>2, <1>3, <2>1, <3>1, <3>3
        <4>2. Before(handled[m]) BY <3>1, <4>1 DEF OrderInv, HandledOrder
        <4> QED BY <1>2, <1>3, <3>1, <3>3, <4>1, <4>2 DEF Before
      <3> QED BY <1>2, <3>2, <3>3
    <2> QED BY <2>1 DEF HandledInOrder
  <1> QED BY <1>4, <1>5, <1>6 DEF OrderInv

(* A feed update is handled with those buffered behind it. *)
LEMMA OrderFeed ==
    ASSUME TypeOK, GuardInv, OrderInv, HandledInOrder, HandlesFeed
    PROVE  OrderInv' /\ HandledInOrder'
  <1> DEFINE f == buffer["feed"]
             last == Len(handled) + 1
  <1>1. /\ UNCHANGED <<sent, closed>> /\ pc = "handling" /\ Held' = {}
        /\ event.branch = "feed" /\ event.value # End /\ "feed" \in Queues
        /\ buffer \in [Queues -> Seq(Ids)] /\ buffer' = [buffer EXCEPT !["feed"] = <<>>]
    BY BranchFacts DEF HandlesFeed, Held, TypeOK
  <1>2. DOMAIN buffer'["feed"] = {} /\ \A q \in Queues \ {"feed"} : buffer'[q] = buffer[q] BY <1>1
  <1>3. /\ Len(handled) \in Nat /\ DOMAIN handled = 1..Len(handled)
        /\ Len(f) \in Nat /\ DOMAIN f = 1..Len(f)
        /\ DOMAIN handled' = 1..(last + Len(f))
        /\ \A k \in DOMAIN handled : handled'[k] = handled[k]
        /\ handled'[last] = event
        /\ \A k \in DOMAIN f : handled'[last + k] = [branch |-> "feed", value |-> f[k]]
    BY FeedNext DEF HandlesFeed, FeedAppended
  <1>4. /\ event \in Held
        /\ \A m \in DOMAIN handled : handled[m].branch = "feed" => handled[m].value # End
    BY <1>1, EventOpen
  <1>5. /\ \A m, n \in DOMAIN f : m < n => f[m] < f[n]
        /\ \A n \in DOMAIN f : event.value < f[n]
        /\ \A n \in DOMAIN f : f[n] # End
    <2>1. \A n \in DOMAIN f : f[n] \in Ids BY <1>1, <1>3, ElementOfSeq
    <2> QED BY <1>1, <1>4, <2>1 DEF OrderInv, BufferOrder, HeldOrder, Ids, End
  <1>6. \A k \in DOMAIN handled' : k \in DOMAIN handled \/ k = last \/ \E n \in DOMAIN f : k = last + n
    <2>1. ASSUME NEW k \in DOMAIN handled', k \notin DOMAIN handled, k # last
          PROVE  k - last \in DOMAIN f /\ k = last + (k - last)
      <3>1. Len(handled) \in Nat /\ Len(f) \in Nat /\ k \in 1..(last + Len(f)) BY <1>3, <2>1
      <3>2. k \notin 1..Len(handled) BY <1>3, <2>1
      <3>3. k - last \in 1..Len(f)
        <4> HIDE DEF f
        <4> QED BY <2>1, <3>1, <3>2
      <3>4. k = last + (k - last) BY <3>1
      <3> QED BY <1>3, <3>3, <3>4
    <2> HIDE DEF f, last
    <2> QED BY <2>1
  <1>e. \A k \in DOMAIN f : handled'[last + k].branch = "feed" /\ handled'[last + k].value = f[k]
    <2>1. \A k \in DOMAIN f : handled'[last + k] = [branch |-> "feed", value |-> f[k]] BY <1>3
    <2>2. \A v : [branch |-> "feed", value |-> v].branch = "feed"
               /\ [branch |-> "feed", value |-> v].value = v
      OBVIOUS
    <2> HIDE DEF f, last
    <2>3. ASSUME NEW k \in DOMAIN f
          PROVE  handled'[last + k].branch = "feed" /\ handled'[last + k].value = f[k]
      <3>1. handled'[last + k] = [branch |-> "feed", value |-> f[k]] BY <2>1
      <3> QED BY <2>2, <3>1
    <2> QED BY <2>3
  <1>7. BufferOrder' /\ HeldOrder'
    <2>1. BufferOrder' BY <1>1, <1>2 DEF OrderInv, BufferOrder
    <2> QED BY <1>1, <2>1 DEF HeldOrder
  <1>8. HandledOrder'
    <2>1. ASSUME NEW m \in DOMAIN handled'
          PROVE  /\ handled'[m].branch \in Queues /\ handled'[m].value = End
                      => handled'[m].branch \in closed
                 /\ handled'[m].value # End =>
                       /\ handled'[m].branch \in Queues
                       /\ \A n \in DOMAIN buffer'[handled'[m].branch] :
                            handled'[m].value < buffer'[handled'[m].branch][n]
      <3>1. CASE m \in DOMAIN handled
        <4>1. handled'[m] = handled[m] BY <1>3, <3>1
        <4>2. /\ handled[m].branch \in Queues /\ handled[m].value = End => handled[m].branch \in closed
              /\ handled[m].value # End =>
                    /\ handled[m].branch \in Queues
                    /\ \A n \in DOMAIN buffer[handled[m].branch] :
                         handled[m].value < buffer[handled[m].branch][n]
          BY <3>1 DEF OrderInv, HandledOrder, Before
        <4>3. CASE handled[m].branch = "feed" BY <1>2, <4>1, <4>2, <4>3
        <4>4. CASE handled[m].branch # "feed" BY <1>2, <4>1, <4>2, <4>4
        <4> QED BY <4>3, <4>4
      <3>2. CASE m = last BY <1>1, <1>2, <1>3, <3>2
      <3>3. CASE \E n \in DOMAIN f : m = last + n
        <4>1. PICK n \in DOMAIN f : m = last + n BY <3>3
        <4>2. handled'[m].branch = "feed" /\ handled'[m].value = f[n] BY <1>e, <4>1
        <4> QED BY <1>1, <1>2, <1>5, <4>1, <4>2
      <3> QED BY <1>6, <3>1, <3>2, <3>3
    <2> QED BY <1>1, <2>1 DEF HandledOrder, Before
  <1>9. HandledInOrder'
    <2>1. ASSUME NEW m \in DOMAIN handled', NEW n \in DOMAIN handled', m < n,
                 handled'[m].branch = handled'[n].branch, handled'[m].branch \in Queues
          PROVE  /\ handled'[m].value # End
                 /\ handled'[n].value # End => handled'[m].value < handled'[n].value
      <3>1. CASE n \in DOMAIN handled
        <4>1. m \in DOMAIN handled BY <1>3, <2>1, <3>1
        <4> QED BY <1>3, <2>1, <3>1, <4>1 DEF HandledInOrder
      <3>2. CASE n = last
        <4>1. m \in DOMAIN handled BY <1>3, <2>1, <3>2
        <4>2. handled[m].value # End /\ handled[m].branch = "feed" BY <1>1, <1>3, <1>4, <2>1, <3>2, <4>1
        <4>3. Before(handled[m]) BY <4>1, <4>2 DEF OrderInv, HandledOrder
        <4> QED BY <1>1, <1>3, <1>4, <3>2, <4>1, <4>2, <4>3 DEF Before
      <3>3. CASE \E k \in DOMAIN f : n = last + k
        <4>1. PICK k \in DOMAIN f : n = last + k BY <3>3
        <4>2. handled'[n].branch = "feed" /\ handled'[n].value = f[k] BY <1>e, <4>1
        <4>3. CASE m \in DOMAIN handled
          <5>1. handled[m].value # End /\ handled[m].branch = "feed" BY <1>3, <1>4, <2>1, <4>2, <4>3
          <5>2. Before(handled[m]) BY <4>3, <5>1 DEF OrderInv, HandledOrder
          <5> QED BY <1>3, <4>1, <4>2, <4>3, <5>1, <5>2 DEF Before
        <4>4. CASE m = last BY <1>1, <1>3, <1>5, <4>1, <4>2, <4>4
        <4>5. CASE \E j \in DOMAIN f : m = last + j
          <5>1. PICK j \in DOMAIN f : m = last + j BY <4>5
          <5>2. j < k BY <1>3, <2>1, <4>1, <5>1
          <5>3. handled'[m].value = f[j] BY <1>e, <5>1
          <5> QED BY <1>5, <4>1, <4>2, <5>1, <5>2, <5>3
        <4> QED BY <1>6, <4>3, <4>4, <4>5
      <3> QED BY <1>6, <3>1, <3>2, <3>3
    <2> QED BY <2>1 DEF HandledInOrder
  <1> QED BY <1>7, <1>8, <1>9 DEF OrderInv

-----------------------------------------------------------------------------
(* Where the values are. *)
ItemIds == {x.value : x \in Items} \ {End}
Apart ==
    /\ Buffered \cap ItemIds = {} /\ Buffered \cap Current = {}
    /\ Buffered \cap HandledIds = {} /\ Buffered \cap lost = {}
    /\ ItemIds \cap Current = {} /\ ItemIds \cap HandledIds = {} /\ ItemIds \cap lost = {}
    /\ Current \cap HandledIds = {} /\ Current \cap lost = {} /\ HandledIds \cap lost = {}
Parted ==
    /\ Buffered \cup ItemIds \cup Current \cup HandledIds \cup lost = 1..Len(sent)
    /\ Apart

(* ValuesAccounted says that the five places part the ids sent. *)
LEMMA PartedPlaces == TypeOK /\ RaceInv => (ValuesAccounted <=> Parted)
  <1> SUFFICES ASSUME TypeOK, RaceInv PROVE ValuesAccounted <=> Parted OBVIOUS
  <1>1. DOMAIN sent = 1..Len(sent) BY LenProperties DEF TypeOK
  <1>2. InFlight \ {End} = ItemIds BY InFlightItems DEF ItemIds
  <1> HIDE DEF ItemIds
  <1> QED BY <1>1, <1>2, PlacesSplit DEF ValuesAccounted, Parted, Apart

LEMMA PartedSends ==
    ASSUME TypeOK, Parted, NEW i \in [queue : Queues, kind : Kinds], Sends(i)
    PROVE  Parted'
  <1> DEFINE v == Len(sent) + 1
  <1>1. Len(sent) \in Nat /\ Len(sent') = Len(sent) + 1
    BY AppendProperties, LenProperties DEF TypeOK, Sends
  <1>2. 1..Len(sent') = 1..Len(sent) \cup {v} /\ v \notin 1..Len(sent) /\ v # End
    BY <1>1 DEF End
  <1>3. UNCHANGED <<Current, HandledIds, lost>>
    BY DEF Sends, Kept, Current, HandledIds, Ranges
  <1>4. CASE Items' = Items \cup {[branch |-> i.queue, value |-> v]} /\ buffer' = buffer
    <2>1. ItemIds' = ItemIds \cup {v}
      <3> DEFINE x == [branch |-> i.queue, value |-> v]
      <3>1. x.value = v OBVIOUS
      <3>2. Items' = Items \cup {x} BY <1>4
      <3> HIDE DEF x, v
      <3>3. {y.value : y \in Items'} = {y.value : y \in Items} \cup {v} BY <3>1, <3>2
      <3> QED BY <1>2, <3>3 DEF ItemIds
    <2>2. Buffered' = Buffered BY <1>4 DEF Buffered, Ranges
    <2> HIDE DEF v
    <2> QED BY <1>2, <1>3, <2>1, <2>2 DEF Parted, Apart
  <1>5. CASE Items' = Items /\ buffer' = [buffer EXCEPT ![i.queue] = Append(@, v)]
    <2>1. ItemIds' = ItemIds BY <1>5 DEF ItemIds
    <2> DEFINE q == i.queue
    <2>2. q \in Queues /\ buffer \in [Queues -> Seq(Ids)] BY DEF TypeOK
    <2>a. buffer[q] \in Seq(Nat) /\ v \in Nat BY <1>1, <2>2, BuffersNat
    <2>3. Ranges(buffer'[q]) = Ranges(buffer[q]) \cup {v}
      <3>1. buffer'[q] = Append(buffer[q], v) BY <1>5, <2>2
      <3> HIDE DEF q, v
      <3> QED BY <2>a, <3>1, RangesAppend
    <2>4. \A p \in Queues : p # q => buffer'[p] = buffer[p] BY <1>5, <2>2
    <2>5. Buffered' = Buffered \cup {v}
      <3> HIDE DEF q, v
      <3>1. Buffered' = UNION {Ranges(buffer'[p]) : p \in Queues} BY DEF Buffered, Ranges
      <3>2. \A p \in Queues : p # q => Ranges(buffer'[p]) = Ranges(buffer[p]) BY <2>4
      <3> QED BY <2>2, <2>3, <3>1, <3>2 DEF Buffered
    <2> HIDE DEF v
    <2> QED BY <1>2, <1>3, <2>1, <2>5 DEF Parted, Apart
  <1> QED BY <1>4, <1>5 DEF Sends

LEMMA PartedSettles == ASSUME Parted, Settles PROVE Parted'
  <1>1. UNCHANGED <<Buffered, Current, HandledIds, lost, sent>>
    BY DEF Settles, Buffered, Current, HandledIds, Ranges
  <1>2. ItemIds' = ItemIds BY DEF Settles, ItemIds
  <1> QED BY <1>1, <1>2 DEF Parted, Apart

(* Values of different queues differ. *)
LEMMA QueuesApart ==
    ASSUME OrderInv, NEW p \in Queues, NEW q \in Queues, p # q
    PROVE  Ranges(buffer[p]) \cap Ranges(buffer[q]) = {}
  BY DEF OrderInv, BufferOrder, Ranges

(* A value taken leaves its buffer for the select, and only there. *)
LEMMA PartedSelects == ASSUME TypeOK, OrderInv, Parted, Selects PROVE Parted'
  <1> DEFINE T == {q \in Queues : Case(q) /\ buffer[q] # <<>>}
  <1>1. UNCHANGED <<HandledIds, lost, sent>> BY DEF Selects, HandledIds, Ranges
  <1>2. Current = {} /\ Current' = {} /\ ItemIds = {} BY DEF Selects, Current, ItemIds
  <1>3. ASSUME NEW q \in T
        PROVE  /\ buffer'[q] = Tail(buffer[q])
               /\ Ranges(buffer[q]) = {Head(buffer[q])} \cup Ranges(buffer'[q])
               /\ Head(buffer[q]) \notin Ranges(buffer'[q])
               /\ Head(buffer[q]) # End
    <2>1. buffer'[q] = Tail(buffer[q]) BY DEF Selects
    <2>2. buffer[q] \in Seq(Nat) /\ buffer[q] \in Seq(Ids) BY BuffersNat DEF TypeOK
    <2>3. \A m, n \in DOMAIN buffer[q] : m < n => buffer[q][m] < buffer[q][n]
      BY DEF OrderInv, BufferOrder
    <2>4. Head(buffer[q]) \notin Ranges(Tail(buffer[q])) BY <2>2, <2>3, AscendingTail
    <2>5. Head(buffer[q]) \in Ids /\ Ranges(buffer[q]) = {Head(buffer[q])} \cup Ranges(Tail(buffer[q]))
      BY <2>2, RangesHeadTail
    <2>6. 0 \notin Ids BY DEF Ids
    <2> QED BY <2>1, <2>4, <2>5, <2>6 DEF End
  <1>4. \A q \in Queues \ T : buffer'[q] = buffer[q] BY DEF Selects
  <1>5. ItemIds' = {Head(buffer[q]) : q \in T}
    <2>1. ASSUME NEW v \in ItemIds' PROVE v \in {Head(buffer[q]) : q \in T}
      <3>1. PICK b \in Branches : Case(b) /\ v = Taken(b) /\ v # End
        BY <2>1 DEF ItemIds, Selects
      <3> QED BY <3>1 DEF Taken
    <2>2. ASSUME NEW q \in T PROVE Head(buffer[q]) \in ItemIds'
      <3>1. q \in Branches /\ q \notin {"turn", "server", "ctrl_c"} BY BranchFacts
      <3>2. Ready(q) BY <3>1 DEF Ready
      <3>3. Taken(q) = Head(buffer[q]) BY DEF Taken
      <3>4. [branch |-> q, value |-> Taken(q)] \in Items' BY <3>1, <3>2 DEF Selects
      <3> QED BY <1>3, <3>3, <3>4 DEF ItemIds
    <2> QED BY <2>1, <2>2
  <1>6. \A q \in Queues : Ranges(buffer'[q]) \subseteq Ranges(buffer[q]) BY <1>3, <1>4
  <1>7. Buffered' = UNION {Ranges(buffer'[q]) : q \in Queues} BY DEF Buffered, Ranges
  <1>8. Buffered' \cup ItemIds' = Buffered
    <2>1. Buffered' \subseteq Buffered BY <1>6, <1>7 DEF Buffered
    <2>2. ItemIds' \subseteq Buffered BY <1>3, <1>5 DEF Buffered
    <2>3. ASSUME NEW v \in Buffered PROVE v \in Buffered' \cup ItemIds'
      <3>1. PICK q \in Queues : v \in Ranges(buffer[q]) BY <2>3 DEF Buffered
      <3>2. v \in Ranges(buffer'[q]) \/ (q \in T /\ v = Head(buffer[q]))
        BY <1>3, <1>4, <3>1
      <3> HIDE DEF T
      <3> QED BY <1>5, <1>7, <3>1, <3>2
    <2> QED BY <2>1, <2>2, <2>3
  <1>9. Buffered' \cap ItemIds' = {}
    <2> SUFFICES ASSUME NEW v \in Buffered', v \in ItemIds' PROVE FALSE OBVIOUS
    <2>1. PICK p \in Queues : v \in Ranges(buffer'[p]) BY <1>7
    <2>2. PICK q \in T : v = Head(buffer[q]) BY <1>5
    <2>3. v \in Ranges(buffer[q]) /\ v \in Ranges(buffer[p]) BY <1>3, <1>6, <2>1, <2>2
    <2>4. p = q BY <2>3, QueuesApart
    <2> QED BY <1>3, <2>1, <2>2, <2>4
  <1> HIDE DEF T
  <1> QED BY <1>1, <1>2, <1>8, <1>9 DEF Parted, Apart

(* A commit keeps one item as the event and loses the others. *)
LEMMA PartedCommits == ASSUME Parted, Commits PROVE Parted'
  <1>1. UNCHANGED <<Buffered, HandledIds, sent>> BY DEF Commits, Buffered, HandledIds, Ranges
  <1>2. ItemIds' = {} /\ Current = {} /\ Current' = {event'.value} \ {End}
    BY DEF Commits, ItemIds, Current
  <1>3. event'.value \in ItemIds \cup {End} BY DEF Commits, ItemIds
  <1>4. lost' = lost \cup (ItemIds \ {event'.value}) BY DEF Commits, ItemIds
  <1>5. End \notin ItemIds BY DEF ItemIds
  <1>6. Current' \cup lost' = ItemIds \cup lost /\ Current' \cap lost' = {} /\ Current' \subseteq ItemIds
    BY <1>2, <1>3, <1>4, <1>5 DEF Parted, Apart
  <1> QED BY <1>1, <1>2, <1>4, <1>6 DEF Parted, Apart

LEMMA PartedHandles == ASSUME TypeOK, Parted, Handles PROVE Parted'
  <1>1. UNCHANGED <<Buffered, lost, sent>> BY DEF Handles, Buffered, Ranges
  <1>2. ItemIds = {} /\ ItemIds' = {} /\ Current = {event.value} \ {End} /\ Current' = {}
    BY DEF Handles, ItemIds, Current
  <1>3. HandledIds' = HandledIds \cup Current
    <2>1. handled \in Seq(Event) /\ event \in Event BY DEF TypeOK, Event
    <2>2. Ranges(handled') = Ranges(handled) \cup {event} BY <2>1, RangesAppend DEF Handles
    <2>3. Ranges(handled)' = Ranges(handled') BY DEF Ranges
    <2> QED BY <1>2, <2>2, <2>3 DEF HandledIds
  <1> QED BY <1>1, <1>2, <1>3 DEF Parted, Apart

LEMMA PartedFeed == ASSUME TypeOK, OrderInv, Parted, HandlesFeed PROVE Parted'
  <1> DEFINE f == buffer["feed"]
             fed == Ranges(f)
             last == Len(handled) + 1
  <1>1. UNCHANGED <<lost, sent>> BY DEF HandlesFeed
  <1>2. ItemIds = {} /\ ItemIds' = {} /\ Current = {event.value} \ {End} /\ Current' = {}
    BY DEF HandlesFeed, ItemIds, Current
  <1>3. "feed" \in Queues /\ buffer \in [Queues -> Seq(Ids)] BY BranchFacts DEF TypeOK
  <1>4. Buffered = fed \cup Buffered' /\ fed \cap Buffered' = {}
    <2>1. buffer'["feed"] = <<>> /\ \A q \in Queues : q # "feed" => buffer'[q] = buffer[q]
      BY <1>3 DEF HandlesFeed
    <2>2. Buffered' = UNION {Ranges(buffer'[q]) : q \in Queues} BY DEF Buffered, Ranges
    <2>3. Buffered' = UNION {Ranges(buffer[q]) : q \in Queues \ {"feed"}}
      BY <2>1, <2>2, RangesEmpty
    <2>4. \A q \in Queues \ {"feed"} : fed \cap Ranges(buffer[q]) = {} BY <1>3, QueuesApart
    <2> HIDE DEF fed
    <2>5. fed = Ranges(buffer["feed"]) BY DEF fed
    <2>6. Buffered = fed \cup UNION {Ranges(buffer[q]) : q \in Queues \ {"feed"}}
      BY <1>3, <2>5 DEF Buffered
    <2>7. fed \cap UNION {Ranges(buffer[q]) : q \in Queues \ {"feed"}} = {} BY <2>4
    <2> QED BY <2>3, <2>6, <2>7
  <1>5. HandledIds' = HandledIds \cup Current \cup fed
    <2>1. /\ Len(handled) \in Nat /\ DOMAIN handled = 1..Len(handled)
          /\ Len(f) \in Nat /\ DOMAIN f = 1..Len(f)
          /\ DOMAIN handled' = 1..(last + Len(f))
          /\ \A k \in DOMAIN handled : handled'[k] = handled[k]
          /\ handled'[last] = event
          /\ \A k \in DOMAIN f : handled'[last + k] = [branch |-> "feed", value |-> f[k]]
      BY FeedNext DEF HandlesFeed, FeedAppended
    <2>2. HandledIds' = {handled'[k].value : k \in DOMAIN handled'} \ {End}
      BY DEF HandledIds, Ranges
    <2>3. HandledIds = {handled[k].value : k \in DOMAIN handled} \ {End}
      BY DEF HandledIds, Ranges
    <2>4. fed = {f[k] : k \in DOMAIN f} BY DEF Ranges
    <2>5. End \notin fed
      <3>1. \A k \in DOMAIN f : f[k] \in Ids BY <1>3, <2>1, ElementOfSeq
      <3>2. End \notin Ids BY DEF End, Ids
      <3> QED BY <2>4, <3>1, <3>2
    <2>6. \A k \in DOMAIN f : handled'[last + k].value = f[k]
      <3>1. \A k \in DOMAIN f : handled'[last + k] = [branch |-> "feed", value |-> f[k]] BY <2>1
      <3>2. \A v : [branch |-> "feed", value |-> v].value = v OBVIOUS
      <3> HIDE DEF f, last
      <3>3. ASSUME NEW k \in DOMAIN f PROVE handled'[last + k].value = f[k]
        <4>1. handled'[last + k] = [branch |-> "feed", value |-> f[k]] BY <3>1
        <4> QED BY <3>2, <4>1
      <3> QED BY <3>3
    <2>7. \A k \in DOMAIN handled' : k \in DOMAIN handled \/ k = last \/ \E n \in DOMAIN f : k = last + n
      <3>1. ASSUME NEW k \in DOMAIN handled', k \notin DOMAIN handled, k # last
            PROVE  k - last \in DOMAIN f /\ k = last + (k - last)
        <4>1. Len(handled) \in Nat /\ Len(f) \in Nat /\ k \in 1..(last + Len(f)) BY <2>1, <3>1
        <4>2. k \notin 1..Len(handled) BY <2>1, <3>1
        <4>3. k - last \in 1..Len(f)
          <5> HIDE DEF f
          <5> QED BY <3>1, <4>1, <4>2
        <4>4. k = last + (k - last) BY <4>1
        <4> QED BY <2>1, <4>3, <4>4
      <3> HIDE DEF f, last
      <3> QED BY <3>1
    <2>8. DOMAIN handled \subseteq DOMAIN handled' /\ last \in DOMAIN handled'
          /\ \A k \in DOMAIN f : last + k \in DOMAIN handled'
      <3> HIDE DEF f
      <3> QED BY <2>1
    <2>9. ASSUME NEW v \in HandledIds' PROVE v \in HandledIds \cup Current \cup fed
      <3>1. PICK k \in DOMAIN handled' : v = handled'[k].value /\ v # End BY <2>2, <2>9
      <3>2. CASE k \in DOMAIN handled BY <2>1, <2>3, <3>1, <3>2
      <3>3. CASE k = last BY <1>2, <2>1, <3>1, <3>3
      <3>4. CASE \E n \in DOMAIN f : k = last + n
        <4> HIDE DEF f, last, fed
        <4> QED BY <2>4, <2>6, <3>1, <3>4
      <3> QED BY <2>7, <3>2, <3>3, <3>4
    <2>10. ASSUME NEW v \in HandledIds \cup Current \cup fed PROVE v \in HandledIds'
      <3>1. CASE v \in HandledIds BY <2>1, <2>2, <2>3, <2>8, <3>1
      <3>2. CASE v \in Current
        <4>1. v = handled'[last].value /\ v # End BY <1>2, <2>1, <3>2
        <4> QED BY <2>2, <2>8, <4>1
      <3>3. CASE v \in fed
        <4> HIDE DEF f, last, fed
        <4>1. PICK k \in DOMAIN f : v = f[k] BY <2>4, <3>3
        <4>2. v = handled'[last + k].value /\ v # End BY <2>5, <2>6, <3>3, <4>1
        <4> QED BY <2>2, <2>8, <4>2
      <3> QED BY <2>10, <3>1, <3>2, <3>3
    <2> HIDE DEF fed
    <2> QED BY <2>9, <2>10
  <1> HIDE DEF fed
  <1> QED BY <1>1, <1>2, <1>4, <1>5 DEF Parted, Apart

-----------------------------------------------------------------------------
(* Turns. Without one nothing is queued, except while the finished one makes  *)
(* way for the next.                                                          *)
TurnInv ==
    /\ fut = "none" /\ pc # "finishing" => queuedTurns = <<>>
    /\ pc = "finishing" => fut = "none"
    /\ asking # None <=> fut = "asking"

(* The prompts taken, started or queued, and the turns over. *)
Prompts == started \o queuedTurns
Over == Len(started) - (IF fut = "none" THEN 0 ELSE 1)

SamePrompts ==
    /\ Len(Prompts') = Len(Prompts)
    /\ \A k \in 1..Len(Prompts) : Prompts'[k] = Prompts[k]
OneMorePrompt ==
    /\ Len(Prompts') = Len(Prompts) + 1
    /\ \A k \in 1..Len(Prompts) : Prompts'[k] = Prompts[k]
    /\ Prompts'[Len(Prompts) + 1] = event.value

(* What a step does to them. *)
TurnKept ==
    /\ SamePrompts /\ Over' = Over
    /\ \/ /\ handled' = handled
          /\ \/ sent' = sent
             \/ \E i \in [queue : Queues, kind : Kinds] : sent' = Append(sent, i)
       \/ /\ handled' = Append(handled, event) /\ sent' = sent
          /\ ~IsTurn(event) /\ event.branch # "turn"
       \/ FeedAppended /\ sent' = sent /\ event.branch = "feed"
TurnTaken ==
    /\ OneMorePrompt /\ Over' = Over
    /\ handled' = Append(handled, event) /\ sent' = sent
    /\ IsTurn(event)
TurnOver ==
    /\ SamePrompts /\ Over' = Over + 1
    /\ handled' = Append(handled, event) /\ sent' = sent
    /\ event.branch = "turn"

LEMMA PromptsKept ==
    ASSUME TypeOK, UNCHANGED <<started, queuedTurns>>, fut = "none" <=> fut' = "none"
    PROVE  SamePrompts /\ Over' = Over
  BY DEF SamePrompts, Over, Prompts

LEMMA PromptsAre ==
    ASSUME TypeOK
    PROVE  /\ Prompts \in Seq(Ids)
           /\ Len(started) \in Nat /\ Len(queuedTurns) \in Nat
           /\ Len(Prompts) = Len(started) + Len(queuedTurns)
           /\ \A k \in 1..Len(Prompts) :
                 Prompts[k] = IF k <= Len(started) THEN started[k] ELSE queuedTurns[k - Len(started)]
  <1>1. started \in Seq(Ids) /\ queuedTurns \in Seq(Ids) BY DEF TypeOK
  <1> QED BY <1>1, ConcatProperties, LenProperties DEF Prompts

(* A prompt starts at once if no turn is in flight and none is queued... *)
LEMMA StartTaken ==
    ASSUME TypeOK, event.value \in Ids, StartTurn(event.value), fut = "none", queuedTurns = <<>>
    PROVE  OneMorePrompt /\ Over' = Over
  <1> DEFINE s == Append(started, event.value)
  <1>1. /\ started \in Seq(Ids) /\ started' = s /\ queuedTurns' = <<>> /\ fut' = "running"
    BY DEF TypeOK, StartTurn
  <1>2. Prompts = started /\ Prompts' = s
    <2>1. s \in Seq(Ids) BY <1>1, AppendProperties
    <2>2. started \o <<>> = started /\ s \o <<>> = s BY <1>1, <2>1, ConcatEmptySeq
    <2> HIDE DEF s
    <2> QED BY <1>1, <2>2 DEF Prompts
  <1>3. /\ Len(s) = Len(started) + 1 /\ Len(started) \in Nat
        /\ \A k \in 1..Len(started) : s[k] = started[k]
        /\ s[Len(started) + 1] = event.value
    BY <1>1, AppendProperties, LenProperties
  <1> HIDE DEF s
  <1> QED BY <1>1, <1>2, <1>3 DEF OneMorePrompt, Over

(* ... and waits behind the others if one is. *)
LEMMA QueueTaken ==
    ASSUME TypeOK, event.value \in Ids, queuedTurns' = Append(queuedTurns, event.value),
           UNCHANGED <<fut, started>>
    PROVE  OneMorePrompt /\ Over' = Over
  <1> DEFINE q == Append(queuedTurns, event.value)
             L == Len(started)
             Q == Len(queuedTurns)
  <1>1. started \in Seq(Ids) /\ queuedTurns \in Seq(Ids) BY DEF TypeOK
  <1>2. /\ q \in Seq(Ids) /\ Len(q) = Q + 1 /\ L \in Nat /\ Q \in Nat
        /\ \A k \in 1..Q : q[k] = queuedTurns[k]
        /\ q[Q + 1] = event.value
    BY <1>1, AppendProperties, LenProperties
  <1>3. Prompts' = started \o q BY DEF Prompts
  <1>4. /\ Len(started \o q) = L + Len(q)
        /\ \A k \in 1..(L + Len(q)) :
              (started \o q)[k] = IF k <= L THEN started[k] ELSE q[k - L]
    <2> HIDE DEF q
    <2> QED BY <1>1, <1>2, ConcatProperties
  <1>5. /\ Len(Prompts) = L + Q
        /\ \A k \in 1..(L + Q) : Prompts[k] = IF k <= L THEN started[k] ELSE queuedTurns[k - L]
    <2>1. Len(Prompts) = L + Q BY PromptsAre
    <2> QED BY <2>1, PromptsAre
  <1>6. Len(Prompts') = Len(Prompts) + 1
    <2> HIDE DEF q, L, Q
    <2> QED BY <1>2, <1>3, <1>4, <1>5
  <1>7. Prompts'[Len(Prompts) + 1] = event.value
    <2>1. Len(Prompts) + 1 \in 1..(L + Len(q)) /\ ~(Len(Prompts) + 1 <= L)
          /\ (Len(Prompts) + 1) - L = Q + 1
      <3> HIDE DEF q, L, Q
      <3> QED BY <1>2, <1>5
    <2> HIDE DEF q, L, Q
    <2> QED BY <1>2, <1>3, <1>4, <2>1
  <1>8. ASSUME NEW k \in 1..Len(Prompts) PROVE Prompts'[k] = Prompts[k]
    <2>1. k \in 1..(L + Q) /\ k \in 1..(L + Len(q)) /\ (k <= L \/ k - L \in 1..Q)
      <3> HIDE DEF q, L, Q
      <3> QED BY <1>2, <1>5
    <2> HIDE DEF q, L, Q
    <2> QED BY <1>2, <1>3, <1>4, <1>5, <2>1
  <1>9. Over' = Over BY DEF Over
  <1> QED BY <1>6, <1>7, <1>8, <1>9 DEF OneMorePrompt

(* The oldest queued prompt starts: the prompts are the same. *)
LEMMA NextStarts ==
    ASSUME TypeOK, queuedTurns # <<>>, queuedTurns' = Tail(queuedTurns),
           started' = Append(started, Head(queuedTurns)), fut = "none", fut' = "running"
    PROVE  SamePrompts /\ Over' = Over
  <1> DEFINE s == Append(started, Head(queuedTurns))
             q == Tail(queuedTurns)
             L == Len(started)
             Q == Len(queuedTurns)
  <1>1. started \in Seq(Ids) /\ queuedTurns \in Seq(Ids) BY DEF TypeOK
  <1>2. /\ Head(queuedTurns) \in Ids /\ q \in Seq(Ids) /\ Q \in Nat \ {0} /\ Len(q) = Q - 1
        /\ \A k \in 1..Len(q) : q[k] = queuedTurns[k + 1]
        /\ Head(queuedTurns) = queuedTurns[1]
    BY <1>1, HeadTailProperties, EmptySeq, LenProperties
  <1>3. /\ s \in Seq(Ids) /\ Len(s) = L + 1 /\ L \in Nat
        /\ \A k \in 1..L : s[k] = started[k]
        /\ s[L + 1] = queuedTurns[1]
    BY <1>1, <1>2, AppendProperties, LenProperties
  <1>4. Prompts' = s \o q BY DEF Prompts
  <1>5. /\ Len(s \o q) = Len(s) + Len(q)
        /\ \A k \in 1..(Len(s) + Len(q)) : (s \o q)[k] = IF k <= Len(s) THEN s[k] ELSE q[k - Len(s)]
    <2> HIDE DEF s, q
    <2> QED BY <1>2, <1>3, ConcatProperties
  <1>6. /\ Len(Prompts) = L + Q
        /\ \A k \in 1..(L + Q) : Prompts[k] = IF k <= L THEN started[k] ELSE queuedTurns[k - L]
    <2>1. Len(Prompts) = L + Q BY PromptsAre
    <2> QED BY <2>1, PromptsAre
  <1>7. Len(Prompts') = Len(Prompts)
    <2> HIDE DEF s, q, L, Q
    <2> QED BY <1>2, <1>3, <1>4, <1>5, <1>6
  <1>8. ASSUME NEW k \in 1..Len(Prompts) PROVE Prompts'[k] = Prompts[k]
    <2>1. k \in 1..(L + Q) /\ k \in 1..(Len(s) + Len(q))
          /\ (k \in 1..L \/ k = L + 1 \/ (k > L + 1 /\ k - (L + 1) \in 1..Len(q) /\ (k - (L + 1)) + 1 = k - L))
      <3> HIDE DEF s, q, L, Q
      <3> QED BY <1>2, <1>3, <1>6
    <2> HIDE DEF s, q, L, Q
    <2>2. /\ Prompts[k] = IF k <= L THEN started[k] ELSE queuedTurns[k - L]
          /\ Prompts'[k] = IF k <= L + 1 THEN s[k] ELSE q[k - (L + 1)]
      BY <1>3, <1>4, <1>5, <1>6, <2>1
    <2>3. CASE k \in 1..L BY <1>3, <2>2, <2>3
    <2>4. CASE k = L + 1
      <3>1. ~(k <= L) /\ k <= L + 1 /\ k - L = 1 BY <1>3, <2>4
      <3> QED BY <1>3, <2>2, <2>4, <3>1
    <2>5. CASE k > L + 1 /\ k - (L + 1) \in 1..Len(q) /\ (k - (L + 1)) + 1 = k - L
      <3>1. ~(k <= L) /\ ~(k <= L + 1) BY <1>3, <1>6, <2>5
      <3>2. q[k - (L + 1)] = queuedTurns[k - L] BY <1>2, <2>5
      <3> QED BY <2>2, <3>1, <3>2
    <2> QED BY <2>1, <2>3, <2>4, <2>5
  <1>9. Over' = Over
    <2> HIDE DEF L
    <2>1. started' = s /\ L \in Nat /\ Len(s) = L + 1 BY <1>3
    <2> HIDE DEF s
    <2> QED BY <2>1 DEF Over, L
  <1> QED BY <1>7, <1>8, <1>9 DEF SamePrompts

(* TurnInv is kept, and a step leaves, adds or starts turns in one of three ways. *)
LEMMA TurnStep ==
    TypeOK /\ GuardInv /\ TurnInv /\ [Next]_vars
        => TurnInv' /\ (TurnKept \/ TurnTaken \/ TurnOver)
  <1> SUFFICES ASSUME TypeOK, GuardInv, TurnInv, [Next]_vars
               PROVE  TurnInv' /\ (TurnKept \/ TurnTaken \/ TurnOver)
    OBVIOUS
  <1> USE InputsAssumption
  (* Steps that leave the turn alone, or move it while it is in flight. *)
  <1>k. ASSUME UNCHANGED <<started, queuedTurns, handled>>, fut = "none" <=> fut' = "none",
               \/ sent' = sent
               \/ \E i \in [queue : Queues, kind : Kinds] : sent' = Append(sent, i)
        PROVE  TurnKept
    BY <1>k, PromptsKept DEF TurnKept
  <1>i. ASSUME UNCHANGED <<turnVars, pc>> PROVE TurnInv' BY <1>i DEF turnVars, TurnInv
  <1>1. ASSUME NEW i \in Inputs, Send(i) PROVE TurnInv' /\ TurnKept
    BY <1>1, <1>k, <1>i DEF Send, turnVars
  <1>2. ASSUME NEW q \in Closable, Close(q) PROVE TurnInv' /\ TurnKept
    BY <1>2, <1>k, <1>i DEF Close, turnVars
  <1>3. CASE Interrupt BY <1>3, <1>k, <1>i DEF Interrupt, turnVars
  <1>4. CASE ServerEnds BY <1>4, <1>k, <1>i DEF ServerEnds, turnVars
  <1>5. CASE Ask
    <2>1. [queue |-> "control_plane", kind |-> "other"] \in [queue : Queues, kind : Kinds]
      BY BranchFacts DEF Kinds
    <2>2. TurnKept BY <1>5, <1>k, <2>1 DEF Ask
    <2>3. Len(sent) + 1 # None BY LenProperties DEF TypeOK, None
    <2>4. TurnInv' BY <1>5, <2>3 DEF Ask, TurnInv
    <2> QED BY <2>2, <2>4
  <1>6. CASE AskCancelled
    <2>1. TurnKept BY <1>6, <1>k DEF AskCancelled
    <2>2. TurnInv' BY <1>6 DEF AskCancelled, TurnInv
    <2> QED BY <2>1, <2>2
  <1>7. CASE TurnSettles
    <2>1. TurnKept BY <1>7, <1>k DEF TurnSettles
    <2>2. TurnInv' BY <1>7 DEF TurnSettles, TurnInv
    <2> QED BY <2>1, <2>2
  <1>8. CASE Select
    <2>1. TurnKept BY <1>8, <1>k DEF Select, turnVars
    <2>2. TurnInv' BY <1>8 DEF Select, turnVars, TurnInv
    <2> QED BY <2>1, <2>2
  <1>9. CASE Woken BY <1>9, <1>k, <1>i DEF Woken, turnVars
  <1>10. CASE Record BY <1>10, <1>k, <1>i DEF Record, turnVars
  <1>11. CASE Commit
    <2>1. TurnKept BY <1>11, <1>k DEF Commit, turnVars
    <2>2. TurnInv' BY <1>11 DEF Commit, turnVars, TurnInv
    <2> QED BY <2>1, <2>2
  <1>12. CASE StartNextQueuedTurn
    <2>1. fut = "none" /\ pc' = "select" /\ sent' = sent /\ handled' = handled
      BY <1>12 DEF StartNextQueuedTurn, TurnInv
    <2>2. CASE queuedTurns = <<>>
      <3>1. UNCHANGED turnVars BY <1>12, <2>2 DEF StartNextQueuedTurn
      <3>2. TurnKept BY <1>k, <2>1, <3>1 DEF turnVars
      <3>3. TurnInv' BY <2>1, <2>2, <3>1 DEF turnVars, TurnInv
      <3> QED BY <3>2, <3>3
    <2>3. CASE queuedTurns # <<>>
      <3>1. /\ queuedTurns' = Tail(queuedTurns) /\ fut' = "running"
            /\ started' = Append(started, Head(queuedTurns)) /\ asking' = asking
        BY <1>12, <2>3 DEF StartNextQueuedTurn
      <3>2. SamePrompts /\ Over' = Over BY <2>1, <2>3, <3>1, NextStarts
      <3>3. TurnInv' BY <2>1, <3>1 DEF TurnInv
      <3> QED BY <2>1, <3>2, <3>3 DEF TurnKept
    <2> QED BY <2>2, <2>3
  (* Handlers. *)
  <1>e. ASSUME pc = "handling" PROVE Open(event.branch)
    BY <1>e DEF GuardInv, Held
  <1>n. ASSUME pc = "handling", handled' = Append(handled, event), sent' = sent,
               UNCHANGED <<started, queuedTurns>>, fut = "none" <=> fut' = "none",
               ~IsTurn(event), event.branch # "turn"
        PROVE  TurnKept
    BY <1>n, PromptsKept DEF TurnKept
  <1>s. ASSUME pc = "handling", handled' = Append(handled, event), sent' = sent, IsTurn(event),
               event.value # End, pc' = "select",
               Submit(event.value) \/ (StartTurn(event.value) /\ fut = "none")
        PROVE  TurnInv' /\ TurnTaken
    <2>1. event.value \in Ids BY <1>s DEF TypeOK
    <2>2. CASE StartTurn(event.value) /\ fut = "none"
      <3>1. queuedTurns = <<>> BY <1>s, <2>2 DEF TurnInv
      <3>2. OneMorePrompt /\ Over' = Over BY <2>1, <2>2, <3>1, StartTaken
      <3>3. TurnInv' BY <1>s, <2>2 DEF StartTurn, TurnInv
      <3> QED BY <1>s, <3>2, <3>3 DEF TurnTaken
    <2>3. CASE ~(StartTurn(event.value) /\ fut = "none")
      <3>1. /\ fut # "none" /\ queuedTurns' = Append(queuedTurns, event.value)
            /\ UNCHANGED <<fut, started, asking>>
        BY <1>s, <2>3 DEF Submit
      <3>2. OneMorePrompt /\ Over' = Over BY <2>1, <3>1, QueueTaken
      <3>3. TurnInv' BY <1>s, <3>1 DEF TurnInv
      <3> QED BY <1>s, <3>2, <3>3 DEF TurnTaken
    <2> QED BY <2>2, <2>3
  <1>r. ASSUME pc = "handling", RequestAbort \/ Resolve \/ UNCHANGED turnVars,
               pc' \in {"select", "left"}
        PROVE  /\ TurnInv' /\ UNCHANGED <<started, queuedTurns>>
               /\ fut = "none" <=> fut' = "none"
    <2>1. CASE RequestAbort \/ UNCHANGED turnVars
      BY <1>r, <2>1 DEF RequestAbort, turnVars, TurnInv
    <2>2. CASE Resolve
      <3>1. CASE card # None /\ card = asking
        BY <1>r, <2>2, <3>1 DEF Resolve, TurnInv
      <3>2. CASE ~(card # None /\ card = asking)
        BY <1>r, <2>2, <3>2 DEF Resolve, TurnInv
      <3> QED BY <3>1, <3>2
    <2> QED BY <1>r, <2>1, <2>2
  <1>13. CASE FinishTurn
    <2>1. fut = "settled" BY <1>13, <1>e DEF FinishTurn, Handling, Open
    <2>2. /\ UNCHANGED <<started, queuedTurns, asking, sent>> /\ fut' = "none"
          /\ pc' = "finishing" /\ handled' = Append(handled, event) /\ event.branch = "turn"
      BY <1>13 DEF FinishTurn, Handling
    <2>3. SamePrompts BY <2>2 DEF SamePrompts, Prompts
    <2>4. Over' = Over + 1
      <3>1. Len(started) \in Nat BY PromptsAre
      <3> QED BY <2>1, <2>2, <3>1 DEF Over
    <2>5. TurnInv' BY <2>1, <2>2 DEF TurnInv
    <2> QED BY <2>2, <2>3, <2>4, <2>5 DEF TurnOver
  <1>14. CASE HandleCommand
    <2>1. /\ pc = "handling" /\ event.branch = "command" /\ handled' = Append(handled, event)
          /\ sent' = sent /\ event.value # End /\ pc' = "select"
      BY <1>14 DEF HandleCommand, Handling
    <2>2. CASE Kind = "submit" /\ Submit(event.value)
      <3>1. IsTurn(event) BY <2>1, <2>2 DEF IsTurn, Kind
      <3> QED BY <1>s, <2>1, <2>2, <3>1
    <2>3. CASE Kind # "submit" /\ (RequestAbort \/ Resolve \/ UNCHANGED turnVars)
      <3>1. ~IsTurn(event) BY <2>1, <2>3 DEF IsTurn, Kind
      <3> QED BY <1>n, <1>r, <2>1, <2>3, <3>1
    <2> QED BY <1>14, <2>2, <2>3 DEF HandleCommand, PromptImportActivation
  <1>15. CASE HandleRelay
    <2>1. /\ pc = "handling" /\ event.branch \in {"relay_prompt", "relay_resolve", "relay_model"}
          /\ handled' = Append(handled, event)
          /\ sent' = sent /\ event.value # End /\ pc' = "select"
      BY <1>15 DEF HandleRelay, Handling
    <2>2. CASE event.branch = "relay_prompt" /\ Kind = "submit"
      <3>1. IsTurn(event) BY <2>1, <2>2 DEF IsTurn, Kind
      <3>2. Submit(event.value) BY <1>15, <2>2 DEF HandleRelay, Handling
      <3> QED BY <1>s, <2>1, <3>1, <3>2
    <2>3. CASE ~(event.branch = "relay_prompt" /\ Kind = "submit")
      <3>1. ~IsTurn(event) BY <2>1, <2>3 DEF IsTurn, Kind
      <3>2. Resolve \/ UNCHANGED turnVars BY <1>15, <2>3 DEF HandleRelay, Handling
      <3> QED BY <1>n, <1>r, <2>1, <3>1, <3>2
    <2> QED BY <2>2, <2>3
  <1>16. CASE HandleMainRun
    <2>1. fut = "none" BY <1>16, <1>e DEF HandleMainRun, Handling, Open, Case
    <2>2. IsTurn(event) BY <1>16 DEF HandleMainRun, Handling, IsTurn
    <2> QED BY <1>16, <1>s, <2>1, <2>2 DEF HandleMainRun, Handling
  <1>17. CASE HandleFeed
    <2>1. UNCHANGED <<turnVars, sent>> /\ pc = "handling" /\ pc' = "select"
          /\ event.branch = "feed" /\ FeedAppended
      BY <1>17 DEF HandleFeed, FeedAppended
    <2>2. TurnKept BY <2>1, PromptsKept DEF TurnKept, turnVars
    <2> QED BY <1>r, <2>1, <2>2
  <1>18. CASE ShowControlPlanePrompt
    <2>1. /\ pc = "handling" /\ event.branch = "control_plane" /\ handled' = Append(handled, event)
          /\ sent' = sent /\ pc' = "select" /\ UNCHANGED turnVars
      BY <1>18 DEF ShowControlPlanePrompt, Handling
    <2> QED BY <1>n, <1>r, <2>1 DEF IsTurn
  <1>19. CASE Retire
    <2>1. /\ pc = "handling" /\ event.branch \in Queues /\ handled' = Append(handled, event)
          /\ sent' = sent /\ pc' = "select" /\ UNCHANGED turnVars
          /\ (event.value = End \/ event.branch = "relay_abort")
      BY <1>19 DEF Retire, Handling
    <2>2. ~IsTurn(event) /\ event.branch # "turn" BY <2>1, BranchFacts DEF IsTurn
    <2> QED BY <1>n, <1>r, <2>1, <2>2
  <1>20. CASE Leave
    <2>1. /\ pc = "handling" /\ event.branch \in {"ctrl_c", "server"}
          /\ handled' = Append(handled, event) /\ sent' = sent /\ pc' = "left"
          /\ RequestAbort \/ UNCHANGED turnVars
      BY <1>20 DEF Leave, Handling
    <2> QED BY <1>n, <1>r, <2>1 DEF IsTurn
  <1>21. CASE UNCHANGED vars BY <1>21, <1>k, <1>i DEF vars, turnVars
  <1> QED
    BY <1>1, <1>2, <1>3, <1>4, <1>5, <1>6, <1>7, <1>8, <1>9, <1>10, <1>11, <1>12, <1>13,
       <1>14, <1>15, <1>16, <1>17, <1>18, <1>19, <1>20, <1>21 DEF Next

-----------------------------------------------------------------------------
(* The prompts are the turns handled, in order, and the turns over are those  *)
(* the loop has finished.                                                     *)
Turns == {n \in DOMAIN handled : IsTurn(handled[n])}
Finished == {n \in DOMAIN handled : handled[n].branch = "turn"}
SerialInv ==
    /\ Len(Prompts) = Cardinality(Turns)
    /\ \A n \in Turns : Prompts[Cardinality(Turns \cap 1..n)] = handled[n].value
    /\ Over = Cardinality(Finished)

(* Sets of positions in what was handled are finite. *)
LEMMA CountFinite ==
    ASSUME TypeOK
    PROVE  /\ Len(handled) \in Nat /\ DOMAIN handled = 1..Len(handled)
           /\ \A S \in SUBSET DOMAIN handled : IsFiniteSet(S) /\ Cardinality(S) \in Nat
  <1>1. Len(handled) \in Nat /\ DOMAIN handled = 1..Len(handled) BY LenProperties DEF TypeOK
  <1>2. IsFiniteSet(1..Len(handled)) BY <1>1, FS_Interval
  <1>3. ASSUME NEW S \in SUBSET (1..Len(handled)) PROVE IsFiniteSet(S) /\ Cardinality(S) \in Nat
    <2>1. IsFiniteSet(S) BY <1>2, FS_Subset
    <2> QED BY <2>1, FS_CardinalityType
  <1> QED BY <1>1, <1>3

(* Up to a turn handled there are as many turns as there are prompts with it. *)
LEMMA TurnPlace ==
    ASSUME TypeOK, SerialInv, NEW n \in Turns
    PROVE  Cardinality(Turns \cap 1..n) \in 1..Len(Prompts)
  <1>1. Turns \in SUBSET DOMAIN handled BY DEF Turns
  <1>2. n \in Turns \cap 1..n BY <1>1, CountFinite
  <1>3. Turns \cap 1..n \in SUBSET Turns OBVIOUS
  <1>4. IsFiniteSet(Turns) /\ Cardinality(Turns) \in Nat BY <1>1, CountFinite
  <1>5. /\ IsFiniteSet(Turns \cap 1..n) /\ Cardinality(Turns \cap 1..n) <= Cardinality(Turns)
    BY <1>3, <1>4, FS_Subset
  <1>6. Cardinality(Turns \cap 1..n) \in Nat /\ Cardinality(Turns \cap 1..n) # 0
    BY <1>2, <1>5, FS_CardinalityType, FS_EmptySet
  <1> QED BY <1>4, <1>5, <1>6 DEF SerialInv

(* Whether an event was a turn does not change. *)
LEMMA TurnsStay ==
    ASSUME TypeOK, IdsKnown, NEW n \in DOMAIN handled, n \in DOMAIN handled',
           handled'[n] = handled[n],
           \/ sent' = sent
           \/ \E i \in [queue : Queues, kind : Kinds] : sent' = Append(sent, i)
    PROVE  (n \in Turns' <=> n \in Turns) /\ (n \in Finished' <=> n \in Finished)
  <1>1. sent \in Seq([queue : Queues, kind : Kinds]) BY DEF TypeOK
  <1>2. \A k \in 1..Len(sent) : sent'[k] = sent[k] BY <1>1, AppendProperties
  <1>3. handled[n].value # End => sent'[handled[n].value] = sent[handled[n].value]
    BY <1>2 DEF IdsKnown
  <1> QED BY <1>3 DEF Turns, Finished, IsTurn

(* The count of turns against those finished, by the three ways of TurnStep. *)
LEMMA SerialKept ==
    ASSUME TypeOK, IdsKnown, SerialInv, TurnKept
    PROVE  SerialInv'
  <1>1. /\ DOMAIN handled \subseteq DOMAIN handled'
        /\ \A n \in DOMAIN handled : handled'[n] = handled[n]
        /\ \A n \in DOMAIN handled' \ DOMAIN handled : n \notin Turns' /\ n \notin Finished'
    <2>1. CASE handled' = handled BY <2>1
    <2>2. CASE /\ handled' = Append(handled, event) /\ sent' = sent
               /\ ~IsTurn(event) /\ event.branch # "turn"
      <3>1. /\ Len(handled) \in Nat /\ DOMAIN handled = 1..Len(handled)
            /\ DOMAIN handled' = 1..(Len(handled) + 1)
            /\ \A k \in DOMAIN handled : handled'[k] = handled[k]
            /\ handled'[Len(handled) + 1] = event
        BY <2>2, HandledNext
      <3>2. \A n \in DOMAIN handled' \ DOMAIN handled : handled'[n] = event BY <3>1
      <3> QED BY <2>2, <3>1, <3>2 DEF Turns, Finished, IsTurn
    <2>3. CASE FeedAppended /\ sent' = sent /\ event.branch = "feed"
      <3> DEFINE f == buffer["feed"]
                 last == Len(handled) + 1
      <3>1. /\ Len(handled) \in Nat /\ DOMAIN handled = 1..Len(handled)
            /\ Len(f) \in Nat /\ DOMAIN f = 1..Len(f)
            /\ DOMAIN handled' = 1..(last + Len(f))
            /\ \A k \in DOMAIN handled : handled'[k] = handled[k]
            /\ handled'[last] = event
            /\ \A k \in DOMAIN f : handled'[last + k] = [branch |-> "feed", value |-> f[k]]
        BY <2>3, FeedNext
      <3>2. ASSUME NEW n \in DOMAIN handled' \ DOMAIN handled PROVE handled'[n].branch = "feed"
        <4> HIDE DEF f
        <4>1. n = last \/ (n - last \in 1..Len(f) /\ n = last + (n - last))
          <5>1. n \in 1..(last + Len(f)) /\ n \notin 1..Len(handled) BY <3>1, <3>2
          <5> QED BY <3>1, <5>1
        <4> HIDE DEF last
        <4>2. CASE n = last BY <2>3, <3>1, <4>2
        <4>3. CASE n - last \in 1..Len(f) /\ n = last + (n - last)
          <5>1. handled'[last + (n - last)] = [branch |-> "feed", value |-> f[n - last]]
            BY <3>1, <4>3
          <5>2. \A v : [branch |-> "feed", value |-> v].branch = "feed" OBVIOUS
          <5>3. handled'[n] = [branch |-> "feed", value |-> f[n - last]] BY <4>3, <5>1
          <5> QED BY <5>2, <5>3
        <4> QED BY <4>1, <4>2, <4>3
      <3>3. DOMAIN handled \subseteq DOMAIN handled'
        <4> HIDE DEF f
        <4> QED BY <3>1
      <3> QED BY <3>1, <3>2, <3>3 DEF Turns, Finished, IsTurn
    <2> QED BY <2>1, <2>2, <2>3 DEF TurnKept
  <1>2. \A n \in DOMAIN handled : (n \in Turns' <=> n \in Turns) /\ (n \in Finished' <=> n \in Finished)
    <2>1. sent' = sent \/ \E i \in [queue : Queues, kind : Kinds] : sent' = Append(sent, i)
      BY DEF TurnKept
    <2> QED BY <1>1, <2>1, TurnsStay
  <1>3. /\ Turns \subseteq DOMAIN handled /\ Finished \subseteq DOMAIN handled
        /\ Turns' \subseteq DOMAIN handled' /\ Finished' \subseteq DOMAIN handled'
    BY DEF Turns, Finished
  <1>4. Turns' = Turns /\ Finished' = Finished BY <1>1, <1>2, <1>3
  <1>5. Len(Prompts') = Cardinality(Turns') BY <1>4 DEF SerialInv, TurnKept, SamePrompts
  <1>6. ASSUME NEW n \in Turns PROVE Prompts'[Cardinality(Turns \cap 1..n)] = handled'[n].value
    <2>1. Cardinality(Turns \cap 1..n) \in 1..Len(Prompts) BY TurnPlace
    <2>2. handled'[n] = handled[n] BY <1>1, <1>3
    <2> QED BY <2>1, <2>2 DEF SerialInv, TurnKept, SamePrompts
  <1>7. Over' = Cardinality(Finished') BY <1>4 DEF SerialInv, TurnKept
  <1> QED BY <1>4, <1>5, <1>6, <1>7 DEF SerialInv

LEMMA SerialTaken ==
    ASSUME TypeOK, IdsKnown, SerialInv, TurnTaken
    PROVE  SerialInv'
  <1> DEFINE N == Len(handled) + 1
  <1>1. /\ Len(handled) \in Nat /\ DOMAIN handled = 1..Len(handled)
        /\ DOMAIN handled' = 1..N
        /\ \A k \in DOMAIN handled : handled'[k] = handled[k]
        /\ handled'[N] = event /\ sent' = sent /\ IsTurn(event)
    BY HandledNext DEF TurnTaken
  <1>2. N \notin DOMAIN handled /\ DOMAIN handled' = DOMAIN handled \cup {N} /\ N \in Nat BY <1>1
  <1>3. \A n \in DOMAIN handled : (n \in Turns' <=> n \in Turns) /\ (n \in Finished' <=> n \in Finished)
    BY <1>1, <1>2, TurnsStay
  <1>4. N \in Turns' /\ N \notin Finished'
    <2>1. event.branch # "turn" BY <1>1 DEF IsTurn
    <2> HIDE DEF N
    <2> QED BY <1>1, <1>2, <2>1 DEF Turns, Finished, IsTurn
  <1>5. /\ Turns \subseteq DOMAIN handled /\ Finished \subseteq DOMAIN handled
        /\ Turns' \subseteq DOMAIN handled' /\ Finished' \subseteq DOMAIN handled'
    BY DEF Turns, Finished
  <1>6. Turns' = Turns \cup {N} /\ N \notin Turns /\ Finished' = Finished
    <2> HIDE DEF N
    <2> QED BY <1>2, <1>3, <1>4, <1>5
  <1>7. IsFiniteSet(Turns) /\ Cardinality(Turns) \in Nat BY <1>5, CountFinite
  <1>8. Cardinality(Turns') = Cardinality(Turns) + 1
    <2> HIDE DEF N
    <2> QED BY <1>6, <1>7, FS_AddElement
  <1>9. Len(Prompts') = Cardinality(Turns') BY <1>8 DEF SerialInv, TurnTaken, OneMorePrompt
  <1>10. ASSUME NEW n \in Turns PROVE Prompts'[Cardinality(Turns' \cap 1..n)] = handled'[n].value
    <2>1. Cardinality(Turns \cap 1..n) \in 1..Len(Prompts) BY TurnPlace
    <2>2. n \in DOMAIN handled /\ handled'[n] = handled[n] BY <1>1, <1>5
    <2>3. N \notin 1..n BY <1>1, <2>2
    <2>4. Turns' \cap 1..n = Turns \cap 1..n
      <3> HIDE DEF N
      <3> QED BY <1>6, <2>3
    <2> QED BY <2>1, <2>2, <2>4 DEF SerialInv, TurnTaken, OneMorePrompt
  <1>11. Prompts'[Cardinality(Turns' \cap 1..N)] = handled'[N].value
    <2>1. Turns' \cap 1..N = Turns' BY <1>1, <1>5
    <2>2. Prompts'[Len(Prompts) + 1] = event.value BY DEF TurnTaken, OneMorePrompt
    <2>3. Cardinality(Turns') = Len(Prompts) + 1 BY <1>8 DEF SerialInv
    <2> HIDE DEF N
    <2> QED BY <1>1, <2>1, <2>2, <2>3
  <1>12. Over' = Cardinality(Finished') BY <1>6 DEF SerialInv, TurnTaken
  <1> HIDE DEF N
  <1> QED BY <1>6, <1>9, <1>10, <1>11, <1>12 DEF SerialInv

LEMMA SerialOver ==
    ASSUME TypeOK, IdsKnown, SerialInv, TurnOver
    PROVE  SerialInv'
  <1> DEFINE N == Len(handled) + 1
  <1>1. /\ Len(handled) \in Nat /\ DOMAIN handled = 1..Len(handled)
        /\ DOMAIN handled' = 1..N
        /\ \A k \in DOMAIN handled : handled'[k] = handled[k]
        /\ handled'[N] = event /\ sent' = sent /\ event.branch = "turn"
    BY HandledNext DEF TurnOver
  <1>2. N \notin DOMAIN handled /\ DOMAIN handled' = DOMAIN handled \cup {N} BY <1>1
  <1>3. \A n \in DOMAIN handled : (n \in Turns' <=> n \in Turns) /\ (n \in Finished' <=> n \in Finished)
    BY <1>1, <1>2, TurnsStay
  <1>4. N \notin Turns' /\ N \in Finished'
    <2> HIDE DEF N
    <2> QED BY <1>1, <1>2 DEF Turns, Finished, IsTurn
  <1>5. /\ Turns \subseteq DOMAIN handled /\ Finished \subseteq DOMAIN handled
        /\ Turns' \subseteq DOMAIN handled' /\ Finished' \subseteq DOMAIN handled'
    BY DEF Turns, Finished
  <1>6. Turns' = Turns /\ Finished' = Finished \cup {N} /\ N \notin Finished
    <2> HIDE DEF N
    <2> QED BY <1>2, <1>3, <1>4, <1>5
  <1>7. IsFiniteSet(Finished) /\ Cardinality(Finished) \in Nat BY <1>5, CountFinite
  <1>8. Cardinality(Finished') = Cardinality(Finished) + 1
    <2> HIDE DEF N
    <2> QED BY <1>6, <1>7, FS_AddElement
  <1>9. Len(Prompts') = Cardinality(Turns') BY <1>6 DEF SerialInv, TurnOver, SamePrompts
  <1>10. ASSUME NEW n \in Turns PROVE Prompts'[Cardinality(Turns \cap 1..n)] = handled'[n].value
    <2>1. Cardinality(Turns \cap 1..n) \in 1..Len(Prompts) BY TurnPlace
    <2>2. handled'[n] = handled[n] BY <1>1, <1>5
    <2> QED BY <2>1, <2>2 DEF SerialInv, TurnOver, SamePrompts
  <1>11. Over' = Cardinality(Finished') BY <1>8 DEF SerialInv, TurnOver
  <1> QED BY <1>6, <1>9, <1>10, <1>11 DEF SerialInv

LEMMA SerialGives == ASSUME TypeOK, TurnInv, SerialInv PROVE TurnsSerial
  <1>1. Len(started) \in Nat BY PromptsAre
  <1>2. Finished \in SUBSET DOMAIN handled BY DEF Finished
  <1>3. Cardinality(Finished) \in Nat BY <1>2, CountFinite
  <1>4. Len(started) = Cardinality(Finished) + (IF fut = "none" THEN 0 ELSE 1)
    BY <1>1, <1>3 DEF SerialInv, Over
  <1>5. pc \in {"select", "racing"} /\ fut = "none" => queuedTurns = <<>> BY DEF TurnInv
  <1> QED BY <1>4, <1>5 DEF TurnsSerial, SerialInv, Prompts, Turns, Finished

-----------------------------------------------------------------------------
(* The invariants together, and what follows from them. *)
IInv ==
    /\ TypeOK /\ SlotInv /\ RaceInv /\ GuardInv
    /\ OrderInv /\ HandledInOrder /\ ValuesAccounted
    /\ TurnInv /\ SerialInv

(* The inductive invariant: base and step. *)
LEMMA InitInv == Init => IInv
  <1> SUFFICES ASSUME Init PROVE IInv OBVIOUS
  <1>1. TypeOK /\ RaceInv /\ SlotInv /\ GuardInv BY InitType
  <1>2. /\ handled = <<>> /\ sent = <<>> /\ lost = {} /\ pc = "select"
        /\ jobs = <<>> /\ outcomes = {} /\ \A q \in Queues : buffer[q] = <<>>
    BY DEF Init
  <1>3. Items = {} /\ Held = {} BY <1>2, RangesEmpty DEF Items, Held
  <1>4. OrderInv
    <2>1. DOMAIN handled = {} /\ \A q \in Queues : DOMAIN buffer[q] = {} BY <1>2
    <2> QED BY <1>3, <2>1 DEF OrderInv, BufferOrder, HeldOrder, HandledOrder
  <1>5. HandledInOrder BY <1>2 DEF HandledInOrder
  <1>6. Parted
    <2>1. Buffered = {}
      <3>1. \A q \in Queues : Ranges(buffer[q]) = {} BY <1>2, RangesEmpty
      <3> QED BY <3>1 DEF Buffered
    <2>2. ItemIds = {} /\ Current = {} /\ HandledIds = {}
      BY <1>2, <1>3, RangesEmpty DEF ItemIds, Current, HandledIds
    <2>3. 1..Len(sent) = {} BY <1>2
    <2> QED BY <1>2, <2>1, <2>2, <2>3 DEF Parted, Apart
  <1>7. ValuesAccounted BY <1>1, <1>6, PartedPlaces
  <1>8. TurnInv BY DEF Init, TurnInv, None
  <1>9. SerialInv
    <2>1. /\ Turns = {} /\ Finished = {} BY <1>2 DEF Turns, Finished
    <2>2. Prompts = <<>> /\ Over = 0
      <3>1. started = <<>> /\ queuedTurns = <<>> /\ fut = "none" /\ <<>> \in Seq(Ids) BY EmptySeq DEF Init
      <3>2. <<>> \o <<>> = <<>> BY <3>1, ConcatEmptySeq
      <3>3. Len(<<>>) = 0 BY EmptySeq
      <3> QED BY <3>1, <3>2, <3>3 DEF Prompts, Over
    <2>3. Cardinality({}) = 0 /\ Len(<<>>) = 0 BY FS_EmptySet, EmptySeq
    <2> QED BY <2>1, <2>2, <2>3 DEF SerialInv
  <1> QED BY <1>1, <1>4, <1>5, <1>7, <1>8, <1>9 DEF IInv

LEMMA InvStep == IInv /\ [Next]_vars => IInv'
  <1> SUFFICES ASSUME IInv, [Next]_vars PROVE IInv' OBVIOUS
  <1>1. /\ TypeOK /\ SlotInv /\ RaceInv /\ GuardInv /\ OrderInv /\ HandledInOrder
        /\ ValuesAccounted /\ TurnInv /\ SerialInv
    BY DEF IInv
  <1>2. TypeOK' /\ SlotInv' BY <1>1, TypeStep
  <1>3. RaceInv' /\ Steps BY <1>1, StepKinds
  <1>4. GuardInv' BY <1>1, GuardStep
  <1>5. IdsKnown /\ Parted BY <1>1, Known, PartedPlaces
  <1>6. OrderInv' /\ HandledInOrder' /\ Parted'
    <2>h. ASSUME UNCHANGED handled PROVE HandledInOrder' BY <1>1, <2>h DEF HandledInOrder
    <2>1. ASSUME NEW i \in [queue : Queues, kind : Kinds], Sends(i)
          PROVE  OrderInv' /\ HandledInOrder' /\ Parted'
      BY <1>1, <1>5, <2>1, <2>h, OrderSends, PartedSends DEF Sends, Kept
    <2>2. CASE Settles BY <1>1, <1>5, <2>2, <2>h, OrderSettles, PartedSettles DEF Settles
    <2>3. CASE Selects BY <1>1, <1>5, <2>3, <2>h, OrderSelects, PartedSelects DEF Selects
    <2>4. CASE Commits BY <1>1, <1>5, <2>4, <2>h, OrderCommits, PartedCommits DEF Commits
    <2>5. CASE Handles BY <1>1, <1>5, <2>5, OrderHandles, PartedHandles
    <2>6. CASE HandlesFeed BY <1>1, <1>5, <2>6, OrderFeed, PartedFeed
    <2> QED BY <1>3, <2>1, <2>2, <2>3, <2>4, <2>5, <2>6 DEF Steps
  <1>7. (TypeOK /\ RaceInv => (ValuesAccounted <=> Parted))' BY PartedPlaces, PTL
  <1>8. TurnInv' /\ (TurnKept \/ TurnTaken \/ TurnOver) BY <1>1, TurnStep
  <1>9. SerialInv' BY <1>1, <1>5, <1>8, SerialKept, SerialTaken, SerialOver
  <1> QED BY <1>2, <1>3, <1>4, <1>6, <1>7, <1>8, <1>9 DEF IInv

(* Types of the queues, the select and the turn. *)
THEOREM UiTypeCorrect == Spec => []TypeOK
  <1>1. Init => IInv BY InitInv
  <1>2. IInv /\ [Next]_vars => IInv' BY InvStep
  <1>3. IInv => TypeOK BY DEF IInv
  <1> QED BY <1>1, <1>2, <1>3, PTL DEF Spec

(* Every value pushed into a queue is in exactly one place: push, next() and  *)
(* commitIfReady neither duplicate a value nor let one vanish unnoticed.      *)
THEOREM UiValuesAccounted == Spec => []ValuesAccounted
  <1>1. Init => IInv BY InitInv
  <1>2. IInv /\ [Next]_vars => IInv' BY InvStep
  <1>3. IInv => ValuesAccounted BY DEF IInv
  <1> QED BY <1>1, <1>2, <1>3, PTL DEF Spec

(* The loop handles the values of each queue in the order of the pushes, and  *)
(* the end of a queue after all of them.                                      *)
THEOREM UiHandledInOrder == Spec => []HandledInOrder
  <1>1. Init => IInv BY InitInv
  <1>2. IInv /\ [Next]_vars => IInv' BY InvStep
  <1>3. IInv => HandledInOrder BY DEF IInv
  <1> QED BY <1>1, <1>2, <1>3, PTL DEF Spec

(* Turns run one at a time, in the order the loop took their prompts, and no  *)
(* prompt is left queued while the loop waits without a turn.                 *)
THEOREM UiTurnsSerial == Spec => []TurnsSerial
  <1>1. Init => IInv BY InitInv
  <1>2. IInv /\ [Next]_vars => IInv' BY InvStep
  <1>3. IInv => TurnsSerial BY SerialGives DEF IInv
  <1> QED BY <1>1, <1>2, <1>3, PTL DEF Spec

(* The card of a pending approval is taken only by its resolution: the guard  *)
(* of the control_plane case holds until its event is handled.                *)
LEMMA CardStep == IInv /\ [Next]_vars => (card # None => card' \in {card, None})
  <1> SUFFICES ASSUME IInv, [Next]_vars, card # None PROVE card' \in {card, None} OBVIOUS
  <1>1. ASSUME NEW i \in Inputs, Send(i) PROVE card' \in {card, None} BY <1>1 DEF Send
  <1>2. ASSUME NEW q \in Closable, Close(q) PROVE card' \in {card, None} BY <1>2 DEF Close
  <1>3. CASE \/ Interrupt \/ ServerEnds \/ Ask \/ AskCancelled \/ TurnSettles \/ Select \/ Woken
             \/ Record \/ Commit \/ StartNextQueuedTurn \/ FinishTurn \/ HandleMainRun
             \/ HandleFeed \/ Retire \/ Leave
    BY <1>3 DEF Interrupt, ServerEnds, Ask, AskCancelled, TurnSettles, Select, Woken, Record,
                Commit, StartNextQueuedTurn, FinishTurn, HandleMainRun, HandleFeed, Retire, Leave
  <1>4. CASE HandleCommand BY <1>4 DEF HandleCommand, Resolve, PromptImportActivation
  <1>5. CASE HandleRelay BY <1>5 DEF HandleRelay, Resolve
  <1>6. CASE ShowControlPlanePrompt
    <2>1. event \in Held /\ event.branch = "control_plane"
      BY <1>6 DEF ShowControlPlanePrompt, Handling, Held
    <2> QED BY <2>1 DEF IInv, GuardInv, Open, Case
  <1>7. CASE UNCHANGED vars BY <1>7 DEF vars
  <1> QED BY <1>1, <1>2, <1>3, <1>4, <1>5, <1>6, <1>7 DEF Next

(* An approval on the card stays there until it is resolved. *)
THEOREM UiCardKept == Spec => CardKept
  <1>1. Init => IInv BY InitInv
  <1>2. IInv /\ [Next]_vars => IInv' BY InvStep
  <1>3. IInv /\ [Next]_vars => [card # None => card' \in {card, None}]_vars BY CardStep
  <1> QED BY <1>1, <1>2, <1>3, PTL DEF Spec, CardKept

=============================================================================
