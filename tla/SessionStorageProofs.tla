------------------------ MODULE SessionStorageProofs ------------------------
(***************************************************************************)
(* The session store, for any callers and ids.  Whatever a write leaves,   *)
(* the types hold.  As long as a torn append leaves nothing or a part of   *)
(* its JSON, a failed one leaves nothing and the repair is not torn, a     *)
(* session that create() returned can always be opened again, the store    *)
(* implements the append-only log, parents precede their children, and     *)
(* while operations do not overlap the active branch is kept.              *)
(*                                                                         *)
(* The invariants are layered: DiskInv (the shape of the file), TypeInv,   *)
(* LogInv (what is written is in the file), RootInv (what memory and the   *)
(* operations in flight name is known) and BranchInv (memory is the log).  *)
(***************************************************************************)
EXTENDS SessionStorage, SequenceTheorems, FiniteSetTheorems, WellFoundedInduction, TLAPS

CleanCuts ==
    /\ CrashCuts \subseteq {"nothing", "fragment"}
    /\ FailCuts \subseteq {"nothing"}
    /\ ~ RepairTears

(* A header, entries, and a last line: empty, or a torn append. *)
Shaped(lines) ==
    /\ lines \in Seq(Range(lines)) /\ Len(lines) >= 2
    /\ IsHeader(lines[1])
    /\ \A i \in 2..(Len(lines) - 1) : IsEntry(lines[i])

Whole(lines) == Shaped(lines) /\ lines[Len(lines)] = <<>>
Torn(lines) == Shaped(lines) /\ lines[Len(lines)] = <<Fragment>>

(* What the file looks like in each status.  A crash inside create() leaves *)
(* a file without a header, which no open accepts.                          *)
DiskInv ==
    /\ status \in {"absent", "closed", "open", "repairing", "failed"}
    /\ status = "absent" => ~ created /\ disk = EmptyFile
    /\ status = "open" => created /\ Whole(disk)
    /\ status = "repairing" => created /\ Torn(disk)
    /\ status = "closed" => \/ created /\ (Whole(disk) \/ Torn(disk))
                            \/ ~ created /\ disk \in {EmptyFile, << <<Fragment>> >>}
    /\ status = "failed" => ~ created

-----------------------------------------------------------------------------
(* What loadJsonlStorage makes of such files. *)

LEMMA ContentOfShaped ==
    ASSUME NEW lines, Shaped(lines)
    PROVE  /\ 1 \in Content(lines) /\ FirstContent(lines) = 1
           /\ 2..(Len(lines) - 1) \subseteq Content(lines)
           /\ HasHeader(lines) /\ Bad(lines) \subseteq {Len(lines)}
  <1>1. Len(lines) \in Nat /\ Len(lines) >= 2 BY LenProperties DEF Shaped
  <1>2. lines[1] # <<>> BY EmptySeq DEF Shaped, IsHeader
  <1>3. 1 \in Content(lines) BY <1>1, <1>2 DEF Content
  <1>4. \A j \in Content(lines) : 1 <= j BY <1>1 DEF Content
  <1>5. FirstContent(lines) \in Content(lines)
        /\ \A j \in Content(lines) : FirstContent(lines) <= j
    BY <1>3, <1>4 DEF FirstContent
  <1>6. FirstContent(lines) = 1 BY <1>1, <1>3, <1>4, <1>5 DEF Content
  <1>7. 2..(Len(lines) - 1) \subseteq Content(lines)
    BY <1>1, EmptySeq DEF Shaped, IsEntry, Content
  <1>8. HasHeader(lines) BY <1>3, <1>6 DEF HasHeader, Shaped
  <1>9. Bad(lines) \subseteq {Len(lines)}
    BY <1>1, <1>6 DEF Bad, Content, Shaped
  <1> QED BY <1>3, <1>6, <1>7, <1>8, <1>9

LEMMA WholeLoads ==
    ASSUME NEW lines, Whole(lines) PROVE Loads(lines)
  <1>1. HasHeader(lines) /\ Bad(lines) \subseteq {Len(lines)}
    BY ContentOfShaped DEF Whole
  <1>2. Len(lines) \notin Content(lines) BY DEF Whole, Content
  <1>3. Bad(lines) = {} BY <1>1, <1>2 DEF Bad
  <1> QED BY <1>1, <1>3 DEF Loads

LEMMA TornSalvages ==
    ASSUME NEW lines, Torn(lines)
    PROVE  /\ Salvages(lines) /\ ~ Loads(lines) /\ LastContent(lines) = Len(lines)
  <1>1. Len(lines) \in Nat /\ Len(lines) >= 2 BY LenProperties DEF Torn, Shaped
  <1>2. /\ FirstContent(lines) = 1 /\ HasHeader(lines) /\ Bad(lines) \subseteq {Len(lines)}
    BY ContentOfShaped DEF Torn
  <1>3. lines[Len(lines)] # <<>> /\ ~ IsEntry(lines[Len(lines)])
    BY DEF Torn, IsEntry, Fragment
  <1>4. Len(lines) \in Content(lines) BY <1>1, <1>3 DEF Content
  <1>5. Bad(lines) = {Len(lines)} BY <1>1, <1>2, <1>3, <1>4 DEF Bad
  <1>6. \A j \in Content(lines) : Len(lines) >= j BY <1>1 DEF Content
  <1>7. LastContent(lines) \in Content(lines)
        /\ \A j \in Content(lines) : LastContent(lines) >= j
    BY <1>4, <1>6 DEF LastContent
  <1>8. LastContent(lines) = Len(lines) BY <1>1, <1>4, <1>6, <1>7 DEF Content
  <1> QED BY <1>2, <1>5, <1>8 DEF Salvages, Loads

(* A file without a header is rejected. *)
LEMMA HeadlessFails ==
    ASSUME NEW lines \in {EmptyFile, << <<Fragment>> >>}
    PROVE  ~ HasHeader(lines) /\ ~ Loads(lines) /\ ~ Salvages(lines)
  <1>1. CASE lines = EmptyFile
    <2>1. Content(lines) = {} BY <1>1 DEF Content, EmptyFile
    <2> QED BY <2>1 DEF Loads, Salvages, HasHeader
  <1>2. CASE lines = << <<Fragment>> >>
    <2>1. Len(lines) = 1 /\ lines[1] = <<Fragment>> BY <1>2
    <2>2. ~ IsHeader(lines[1]) BY <2>1 DEF IsHeader, Fragment
    <2>3. Content(lines) \subseteq {1} BY <2>1 DEF Content
    <2>4. HasHeader(lines) => FirstContent(lines) = 1
      <3>1. ASSUME Content(lines) # {} PROVE FirstContent(lines) = 1
        <4>1. Content(lines) = {1} BY <2>3, <3>1
        <4>2. 1 <= 1 OBVIOUS
        <4> QED BY <4>1, <4>2 DEF FirstContent
      <3> QED BY <3>1 DEF HasHeader
    <2>5. ~ HasHeader(lines) BY <2>2, <2>4 DEF HasHeader
    <2> QED BY <2>5 DEF Loads, Salvages
  <1> QED BY <1>1, <1>2

-----------------------------------------------------------------------------
(* What appends and the repair make of a file. *)

LEMMA PieceOnEmpty ==
    ASSUME NEW piece
    PROVE  Append(<<>>, piece) = <<piece>>
  OBVIOUS

LEMMA AddPieceShape ==
    ASSUME NEW lines, Whole(lines), NEW piece
    PROVE  LET new == AddPiece(lines, piece) IN
           /\ Shaped(new) /\ Len(new) = Len(lines) /\ new[Len(new)] = <<piece>>
           /\ \A j \in 1..(Len(lines) - 1) : new[j] = lines[j]
  <1> DEFINE new == AddPiece(lines, piece)
             S == Range(lines) \cup {<<piece>>}
  <1>1. Len(lines) \in Nat /\ Len(lines) >= 2 BY LenProperties DEF Whole, Shaped
  <1>2. new = [lines EXCEPT ![Len(lines)] = <<piece>>]
    BY PieceOnEmpty DEF Whole, AddPiece
  <1>3. lines \in Seq(S)
    <2>1. lines \in Seq(Range(lines)) /\ Range(lines) \subseteq S BY DEF Whole, Shaped
    <2> HIDE DEF S
    <2> QED BY <2>1, SeqMonotonic
  <1>4. <<piece>> \in S OBVIOUS
  <1> HIDE DEF new, S
  <1>5. /\ new \in Seq(S) /\ Len(new) = Len(lines)
        /\ \A j \in 1..Len(lines) : new[j] = IF j = Len(lines) THEN <<piece>> ELSE lines[j]
    BY <1>1, <1>2, <1>3, <1>4, ExceptSeq
  <1>6. new \in Seq(Range(new)) BY <1>5, SeqOfRange
  <1> QED BY <1>1, <1>5, <1>6 DEF Whole, Shaped, new

LEMMA AppendWhole ==
    ASSUME NEW lines, Shaped(lines), IsEntry(lines[Len(lines)])
    PROVE  LET new == Append(lines, <<>>) IN
           /\ Whole(new) /\ Len(new) = Len(lines) + 1
           /\ \A j \in 1..Len(lines) : new[j] = lines[j]
  <1> DEFINE new == Append(lines, <<>>)
             S == Range(lines) \cup {<<>>}
  <1>1. Len(lines) \in Nat /\ Len(lines) >= 2 BY LenProperties DEF Shaped
  <1>2. lines \in Seq(S)
    <2>1. lines \in Seq(Range(lines)) /\ Range(lines) \subseteq S BY DEF Shaped
    <2> HIDE DEF S
    <2> QED BY <2>1, SeqMonotonic
  <1>3. <<>> \in S OBVIOUS
  <1> HIDE DEF S
  <1>4. /\ new \in Seq(S) /\ Len(new) = Len(lines) + 1 /\ new[Len(lines) + 1] = <<>>
        /\ \A j \in 1..Len(lines) : new[j] = lines[j]
    BY <1>2, <1>3, AppendProperties
  <1>5. new \in Seq(Range(new)) BY <1>4, SeqOfRange
  <1> HIDE DEF new
  <1> QED BY <1>1, <1>4, <1>5 DEF Whole, Shaped, new

LEMMA AddLineWhole ==
    ASSUME NEW lines, Whole(lines), NEW e
    PROVE  LET new == AddLine(lines, Entry(e)) IN
           /\ Whole(new) /\ Len(new) = Len(lines) + 1
           /\ \A j \in 1..(Len(lines) - 1) : new[j] = lines[j]
           /\ new[Len(lines)] = <<Entry(e)>>
  <1> DEFINE new == AddPiece(lines, Entry(e))
  <1>1. /\ Shaped(new) /\ new[Len(new)] = <<Entry(e)>> /\ Len(new) = Len(lines)
        /\ \A j \in 1..(Len(lines) - 1) : new[j] = lines[j]
    BY AddPieceShape
  <1>2. IsEntry(<<Entry(e)>>) BY DEF IsEntry, Entry
  <1>3. Len(lines) \in Nat /\ Len(lines) >= 2 BY LenProperties DEF Whole, Shaped
  <1> HIDE DEF new
  <1> QED BY <1>1, <1>2, <1>3, AppendWhole DEF AddLine, new

LEMMA CutShape ==
    ASSUME NEW lines, Whole(lines), NEW piece, NEW how \in {"nothing", "fragment"}
    PROVE  Whole(Cut(lines, piece, how)) \/ Torn(Cut(lines, piece, how))
  <1>1. CASE how = "nothing" BY <1>1 DEF Cut
  <1>2. CASE how = "fragment" BY <1>2, AddPieceShape DEF Cut, Torn
  <1> QED BY <1>1, <1>2

LEMMA RepairedWhole ==
    ASSUME NEW lines, Torn(lines)
    PROVE  LET new == Repaired(lines) IN
           /\ Whole(new) /\ Len(new) = Len(lines)
           /\ \A j \in 1..(Len(lines) - 1) : new[j] = lines[j]
  <1> DEFINE kept == SubSeq(lines, 1, Len(lines) - 1)
             S == Range(lines) \cup {<<>>}
             new == Append(kept, <<>>)
  <1>1. Len(lines) \in Nat /\ Len(lines) >= 2 BY LenProperties DEF Torn, Shaped
  <1>2. Repaired(lines) = new BY TornSalvages DEF Repaired
  <1>3. lines \in Seq(S) /\ <<>> \in S
    <2>1. lines \in Seq(Range(lines)) /\ Range(lines) \subseteq S BY DEF Torn, Shaped
    <2>2. <<>> \in S OBVIOUS
    <2> HIDE DEF S
    <2> QED BY <2>1, <2>2, SeqMonotonic
  <1> HIDE DEF S
  <1>4. /\ kept \in Seq(S) /\ Len(kept) = Len(lines) - 1
        /\ \A j \in 1..(Len(lines) - 1) : kept[j] = lines[j]
    BY <1>1, <1>3, SubSeqProperties
  <1> HIDE DEF kept
  <1>5. /\ new \in Seq(S) /\ Len(new) = Len(kept) + 1 /\ new[Len(kept) + 1] = <<>>
        /\ \A j \in 1..Len(kept) : new[j] = kept[j]
    BY <1>3, <1>4, AppendProperties
  <1> HIDE DEF new
  <1>6. new \in Seq(Range(new)) BY <1>5, SeqOfRange
  <1>7. /\ Len(new) = Len(lines) /\ new[Len(lines)] = <<>>
        /\ \A j \in 1..(Len(lines) - 1) : new[j] = lines[j]
    BY <1>1, <1>4, <1>5
  <1>8. Whole(new) BY <1>1, <1>6, <1>7 DEF Whole, Torn, Shaped
  <1> QED BY <1>2, <1>7, <1>8

LEMMA NewFileWhole ==
    Whole(AddLine(EmptyFile, Header)) /\ Len(AddLine(EmptyFile, Header)) = 2
  <1>1. EmptyFile = << <<>> >> /\ Len(EmptyFile) = 1 BY DEF EmptyFile
  <1>2. AddPiece(EmptyFile, Header) = << <<Header>> >> BY <1>1 DEF AddPiece
  <1> DEFINE one == << <<Header>> >>
             new == Append(one, <<>>)
             S == {<<Header>>, <<>>}
  <1>3. AddLine(EmptyFile, Header) = new BY <1>2 DEF AddLine
  <1>4. new \in Seq(S) /\ Len(new) = 2 /\ new[1] = <<Header>> /\ new[2] = <<>>
    <2>1. one \in Seq(S) /\ Len(one) = 1 /\ one[1] = <<Header>> /\ <<>> \in S OBVIOUS
    <2> HIDE DEF one, S
    <2>2. /\ new \in Seq(S) /\ Len(new) = Len(one) + 1 /\ new[Len(one) + 1] = <<>>
          /\ \A i \in 1..Len(one) : new[i] = one[i]
      BY <2>1, AppendProperties, ZenonT(60)
    <2> HIDE DEF new
    <2>3. 1 + 1 = 2 /\ 1 \in 1..1 OBVIOUS
    <2> QED BY <2>1, <2>2, <2>3
  <1> HIDE DEF new, S
  <1>5. new \in Seq(Range(new)) BY <1>4, SeqOfRange
  <1>6. IsHeader(new[1]) BY <1>4 DEF IsHeader, Header
  <1>7. Whole(new) BY <1>4, <1>5, <1>6 DEF Whole, Shaped
  <1> QED BY <1>3, <1>4, <1>7 DEF new

-----------------------------------------------------------------------------
LEMMA InitDisk == Init => DiskInv
  BY DEF Init, DiskInv

LEMMA NextDisk ==
    ASSUME CleanCuts, DiskInv, [Next]_vars PROVE DiskInv'
  <1> USE DEF memory, record, history
  <1>a. ASSUME UNCHANGED <<disk, status, created>> PROVE DiskInv' BY <1>a DEF DiskInv
  <1>1. CASE Create BY <1>1, NewFileWhole DEF Create, DiskInv
  <1>2. ASSUME NEW how \in CrashCuts, CrashInCreate(how) PROVE DiskInv'
    <2>1. how \in {"nothing", "fragment"} BY DEF CleanCuts
    <2>2. Cut(EmptyFile, Header, how) \in {EmptyFile, << <<Fragment>> >>}
      <3>1. AddPiece(EmptyFile, Fragment) = << <<Fragment>> >> BY DEF AddPiece, EmptyFile
      <3> QED BY <2>1, <3>1 DEF Cut
    <2> QED BY <1>2, <2>2 DEF CrashInCreate, DiskInv
  <1>3. ASSUME NEW c \in Callers, NEW id, BeginAppend(c, id) PROVE DiskInv'
    BY <1>3, <1>a DEF BeginAppend
  <1>4. ASSUME NEW c \in Callers, NEW id, NEW target, NEW summary,
               BeginMove(c, id, target, summary) PROVE DiskInv'
    BY <1>4, <1>a DEF BeginMove
  <1>5. ASSUME NEW c \in Callers, NEW id, Acknowledge(c, id) PROVE DiskInv'
    BY <1>5, <1>a DEF Acknowledge
  <1>6. ASSUME NEW c \in Callers, Write(c) PROVE DiskInv'
    BY <1>6, AddLineWhole DEF Write, DiskInv
  <1>7. ASSUME NEW c \in Callers, NEW how \in FailCuts, FailWrite(c, how) PROVE DiskInv'
    <2>1. how = "nothing" BY DEF CleanCuts
    <2> QED BY <1>7, <1>a, <2>1 DEF FailWrite, Cut
  <1>8. CASE Crash
    <2>1. status' = "closed" /\ created /\ UNCHANGED created /\ Whole(disk)
      BY <1>8 DEF Crash, DiskInv
    <2>2. Whole(disk') \/ Torn(disk')
      <3>1. CASE UNCHANGED disk BY <2>1, <3>1
      <3>2. ASSUME NEW c \in Callers, NEW how \in CrashCuts,
                   disk' = Cut(disk, Entry(op[c].entry), how)
            PROVE  Whole(disk') \/ Torn(disk')
        <4>1. how \in {"nothing", "fragment"} BY DEF CleanCuts
        <4> QED BY <2>1, <3>2, <4>1, CutShape
      <3> QED BY <1>8, <3>1, <3>2 DEF Crash
    <2> QED BY <2>1, <2>2 DEF DiskInv
  (* What an open accepts has the shape that goes with it. *)
  <1>9. CASE LoadClean
    <2>1. created /\ Whole(disk) BY <1>9, TornSalvages, HeadlessFails DEF LoadClean, DiskInv
    <2> QED BY <1>9, <2>1 DEF LoadClean, DiskInv
  <1>10. CASE LoadSalvaged
    <2>1. ~ Whole(disk)
      <3>1. Bad(disk) # {} BY <1>10 DEF LoadSalvaged, Salvages
      <3> QED BY <3>1, WholeLoads DEF Loads
    <2>2. created /\ Torn(disk) BY <1>10, <2>1, HeadlessFails DEF LoadSalvaged, DiskInv
    <2> QED BY <1>10, <2>2 DEF LoadSalvaged, DiskInv
  <1>11. CASE Repair BY <1>11, RepairedWhole DEF Repair, DiskInv
  <1>12. CASE BreakRepair BY <1>12 DEF BreakRepair, CleanCuts, DiskInv
  <1>13. CASE LoadFails BY <1>13, WholeLoads, TornSalvages DEF LoadFails, DiskInv
  <1>14. CASE UNCHANGED vars BY <1>14, <1>a DEF vars
  <1> QED
    BY <1>1, <1>2, <1>3, <1>4, <1>5, <1>6, <1>7, <1>8, <1>9, <1>10, <1>11, <1>12, <1>13,
       <1>14 DEF Next

-----------------------------------------------------------------------------
(* Every set of natural numbers that is not empty has a least element. *)

Below == {p \in Nat \X Nat : p[1] < p[2]}

LEMMA BelowWellFounded == IsWellFoundedOn(Below, Nat)
  BY NatLessThanWellFounded DEF OpToRel, Below

LEMMA Least ==
    ASSUME NEW T \in SUBSET Nat, T # {}
    PROVE  \E m \in T : \A n \in T : m <= n
  <1>1. PICK x \in T : \A y \in T : ~ (<<y, x>> \in Below) BY BelowWellFounded, WFMin
  <1>2. ASSUME NEW y \in T PROVE x <= y
    <2>1. ~ (<<y, x>> \in Below) BY <1>1, <1>2
    <2>2. x \in Nat /\ y \in Nat OBVIOUS
    <2>3. ~ (y < x) BY <2>1, <2>2 DEF Below
    <2> QED BY <2>2, <2>3
  <1> QED BY <1>2

(* A set of line numbers has an n-th member, for n up to its size. *)
LEMMA NthExists ==
    ASSUME NEW N \in Nat, NEW T \in SUBSET (1..N), NEW n \in 1..Cardinality(T)
    PROVE  \E i \in T : Cardinality({j \in T : j <= i}) = n
  <1> DEFINE Upto(i) == {j \in T : j <= i}
             Enough == {i \in Nat : n <= Cardinality(Upto(i))}
  <1>a. \A j \in T : j \in Nat /\ j >= 1 /\ j <= N OBVIOUS
  <1>1. \A i \in Nat : IsFiniteSet(Upto(i)) /\ Cardinality(Upto(i)) \in Nat
    <2>1. IsFiniteSet(1..N) BY FS_Interval
    <2>2. TAKE i \in Nat
    <2>3. Upto(i) \in SUBSET (1..N) OBVIOUS
    <2> HIDE DEF Upto
    <2> QED BY <2>1, <2>3, FS_Subset, FS_CardinalityType
  <1>2. N \in Enough
    <2>1. Upto(N) = T BY <1>a
    <2>2. Cardinality(T) \in Nat BY <1>1, <2>1
    <2> QED BY <2>1, <2>2
  <1>3. PICK m \in Enough : \A i \in Enough : m <= i
    <2>1. Enough \in SUBSET Nat /\ Enough # {} BY <1>2
    <2> HIDE DEF Enough
    <2> QED BY <2>1, Least
  <1>4. Upto(0) = {}
    <2>1. ASSUME NEW j \in Upto(0) PROVE FALSE
      <3>1. j \in T /\ j <= 0 OBVIOUS
      <3> QED BY <1>a, <3>1
    <2> QED BY <2>1
  <1>5. n \in Nat /\ n >= 1 BY <1>1, <1>2
  <1>6. m \in Nat /\ m # 0
    <2>1. Cardinality(Upto(0)) = 0 BY <1>4, FS_EmptySet
    <2>2. 0 \notin Enough BY <2>1, <1>5
    <2> QED BY <2>2
  <1>7. m - 1 \in Nat /\ m - 1 \notin Enough
    <2>1. m - 1 \in Nat /\ ~ (m <= m - 1) BY <1>6
    <2> HIDE DEF Enough
    <2> QED BY <2>1, <1>3
  <1>8. Cardinality(Upto(m - 1)) < n
    <2>1. ~ (n <= Cardinality(Upto(m - 1))) /\ Cardinality(Upto(m - 1)) \in Nat
      BY <1>1, <1>7
    <2> HIDE DEF Upto
    <2> QED BY <1>5, <2>1
  <1>9. m \in T
    <2>1. SUFFICES ASSUME m \notin T PROVE FALSE OBVIOUS
    <2>2. \A j \in T : j <= m <=> j <= m - 1 BY <1>a, <1>6, <2>1
    <2>4. Upto(m) = Upto(m - 1) BY <2>2
    <2>3. n <= Cardinality(Upto(m)) OBVIOUS
    <2> HIDE DEF Upto
    <2> QED BY <1>1, <1>5, <1>6, <1>7, <1>8, <2>3, <2>4
  <1>10. Upto(m) = Upto(m - 1) \cup {m} /\ m \notin Upto(m - 1)
    <2>1. \A j \in T : j <= m <=> j = m \/ j <= m - 1 BY <1>a, <1>6
    <2>2. ~ (m <= m - 1) BY <1>6
    <2> QED BY <1>9, <2>1, <2>2
  <1>11. Cardinality(Upto(m)) = Cardinality(Upto(m - 1)) + 1
    <2> HIDE DEF Upto
    <2> QED BY <1>1, <1>7, <1>10, FS_AddElement
  <1>12. n <= Cardinality(Upto(m)) OBVIOUS
  <1>13. Cardinality(Upto(m)) = n
    <2> HIDE DEF Upto
    <2> QED BY <1>1, <1>5, <1>7, <1>8, <1>11, <1>12
  <1> QED BY <1>9, <1>13

-----------------------------------------------------------------------------
(* Types, whatever faults a write can leave. *)

LEMMA AddPieceType ==
    ASSUME NEW P, NEW lines \in Seq(Seq(P)), lines # <<>>, NEW piece \in P
    PROVE  AddPiece(lines, piece) \in Seq(Seq(P)) /\ AddPiece(lines, piece) # <<>>
  <1>1. Len(lines) \in 1..Len(lines) BY EmptySeq, LenProperties
  <1>2. lines[Len(lines)] \in Seq(P) BY <1>1, ElementOfSeq
  <1> DEFINE new == AddPiece(lines, piece)
  <1>3. Append(lines[Len(lines)], piece) \in Seq(P) BY <1>2, AppendProperties
  <1>4. new \in Seq(Seq(P)) /\ Len(new) = Len(lines)
    BY <1>1, <1>3, ExceptSeq DEF AddPiece
  <1>5. Len(lines) # 0 BY EmptySeq, LenProperties
  <1> HIDE DEF new
  <1>6. new # <<>> BY <1>4, <1>5, EmptySeq
  <1> QED BY <1>4, <1>6 DEF new

LEMMA AddLineType ==
    ASSUME NEW P, NEW lines \in Seq(Seq(P)), lines # <<>>, NEW piece \in P
    PROVE  AddLine(lines, piece) \in Seq(Seq(P)) /\ AddLine(lines, piece) # <<>>
  <1>1. AddPiece(lines, piece) \in Seq(Seq(P)) BY AddPieceType
  <1>2. <<>> \in Seq(P) BY EmptySeq
  <1> QED BY <1>1, <1>2, AppendProperties DEF AddLine

LEMMA CutType ==
    ASSUME NEW P, Fragment \in P, NEW lines \in Seq(Seq(P)), lines # <<>>, NEW piece \in P,
           NEW how \in {"nothing", "fragment", "line"}
    PROVE  Cut(lines, piece, how) \in Seq(Seq(P)) /\ Cut(lines, piece, how) # <<>>
  <1>1. CASE how = "nothing" BY <1>1 DEF Cut
  <1>2. CASE how = "fragment" BY <1>2, AddPieceType DEF Cut
  <1>3. CASE how = "line" BY <1>3, AddPieceType DEF Cut
  <1> QED BY <1>1, <1>2, <1>3

LEMMA PrefixType ==
    ASSUME NEW S, NEW s \in Seq(S), NEW n \in 0..Len(s)
    PROVE  SubSeq(s, 1, n) \in Seq(S) /\ Len(SubSeq(s, 1, n)) = n
  <1>1. Len(s) \in Nat BY LenProperties
  <1>2. \A i \in 1..n : s[i] \in S BY <1>1, ElementOfSeq
  <1>3. SubSeq(s, 1, n) \in Seq(S) /\ Len(SubSeq(s, 1, n)) = IF 1 <= n THEN n - 1 + 1 ELSE 0
    BY <1>1, <1>2, SubSeqProperties
  <1> QED BY <1>1, <1>3

(* What a load returns are entries of the file. *)
LEMMA ParsedType ==
    ASSUME NEW E, NEW lines \in Seq(Seq({Header, Fragment} \cup {Entry(e) : e \in E}))
    PROVE  Parsed(lines) \in Seq(E)
  <1> DEFINE P == {Header, Fragment} \cup {Entry(e) : e \in E}
             T == EntryLines(lines)
             nth(n) == CHOOSE i \in T : Cardinality({j \in T : j <= i}) = n
             es == [n \in 1..Cardinality(T) |-> lines[nth(n)][1].entry]
  <1>1. CASE ~ HasHeader(lines)
    <2>1. Parsed(lines) = <<>> BY <1>1 DEF Parsed
    <2> QED BY <2>1, EmptySeq
  <1>2. CASE HasHeader(lines)
    <2>1. Len(lines) \in Nat BY LenProperties
    <2>2. T \in SUBSET (1..Len(lines)) BY DEF EntryLines, Content
    <2>3. Cardinality(T) \in Nat
      <3>1. IsFiniteSet(1..Len(lines)) BY <2>1, FS_Interval
      <3> HIDE DEF T
      <3>2. IsFiniteSet(T) BY <2>2, <3>1, FS_Subset
      <3> QED BY <3>2, FS_CardinalityType
    <2>4. ASSUME NEW n \in 1..Cardinality(T) PROVE lines[nth(n)][1].entry \in E
      <3>1. nth(n) \in T
        <4> HIDE DEF T
        <4>1. \E i \in T : Cardinality({j \in T : j <= i}) = n BY <2>1, <2>2, NthExists
        <4> QED BY <4>1
      <3> HIDE DEF nth
      <3>2. nth(n) \in Content(lines) /\ nth(n) \notin Bad(lines)
            /\ nth(n) > FirstContent(lines)
        <4>1. nth(n) \in Int BY <2>1, <2>2, <3>1
        <4>2. ~ (nth(n) < nth(n)) BY <4>1
        <4> QED BY <3>1, <4>2 DEF EntryLines
      <3>3. IsEntry(lines[nth(n)]) BY <3>2 DEF Bad
      <3>4. lines[nth(n)] \in Seq(P) BY <2>2, <3>1, ElementOfSeq
      <3>5. lines[nth(n)][1] \in P /\ lines[nth(n)][1].kind = "entry"
        <4> HIDE DEF P
        <4>1. 1 \in 1..Len(lines[nth(n)]) BY <3>3 DEF IsEntry
        <4> QED BY <3>3, <3>4, <4>1, ElementOfSeq DEF IsEntry
      <3>6. PICK e \in E : lines[nth(n)][1] = Entry(e) BY <3>5 DEF Header, Fragment
      <3> QED BY <3>6 DEF Entry
    <2> HIDE DEF nth, T
    <2>5. es \in [1..Cardinality(T) -> E] BY <2>4
    <2>6. es \in Seq(E)
      <3> HIDE DEF es
      <3> QED BY <2>3, <2>5, SeqDef
    <2>7. Parsed(lines) = es BY <1>2 DEF Parsed, nth, T
    <2> QED BY <2>6, <2>7
  <1> QED BY <1>1, <1>2

LEMMA RepairedType ==
    ASSUME NEW P, NEW lines \in Seq(Seq(P)), Salvages(lines)
    PROVE  Repaired(lines) \in Seq(Seq(P)) /\ Repaired(lines) # <<>>
  <1>1. LastContent(lines) \in 1..Len(lines) BY DEF Salvages, Bad, Content
  <1>2. Len(lines) \in Nat BY LenProperties
  <1>3. SubSeq(lines, 1, LastContent(lines) - 1) \in Seq(Seq(P))
    BY <1>1, <1>2, PrefixType
  <1>4. <<>> \in Seq(P) BY EmptySeq
  <1> QED BY <1>3, <1>4, AppendProperties DEF Repaired

(* A file being repaired is one that a load salvages. *)
TypeInv ==
    /\ TypeOK
    /\ status = "repairing" => Salvages(disk)

LEMMA InitType == Init => TypeInv
  <1>1. SUFFICES ASSUME Init PROVE TypeInv OBVIOUS
  <1>2. disk \in Seq(Seq(Pieces)) /\ disk # <<>>
    <2>1. <<>> \in Seq(Pieces) BY EmptySeq
    <2>2. <<>> \in Seq(Seq(Pieces)) BY EmptySeq
    <2>3. Append(<<>>, <<>>) \in Seq(Seq(Pieces)) /\ Append(<<>>, <<>>) # <<>>
      BY <2>1, <2>2, AppendProperties
    <2>4. disk = Append(<<>>, <<>>) BY <1>1, PieceOnEmpty DEF Init, EmptyFile
    <2> QED BY <2>3, <2>4
  <1>3. entries \in Seq(IssuedEntries) BY <1>1, EmptySeq DEF Init
  <1> QED BY <1>1, <1>2, <1>3 DEF Init, TypeInv, TypeOK, IdsOrRoot, Operations

(* What is issued stays issued, and with it what the types are made of. *)
LEMMA Grown ==
    ASSUME issued \subseteq issued'
    PROVE  /\ IssuedEntries \subseteq IssuedEntries' /\ Pieces \subseteq Pieces'
           /\ Operations \subseteq Operations'
           /\ Seq(IssuedEntries) \subseteq Seq(IssuedEntries')
           /\ Seq(Seq(Pieces)) \subseteq Seq(Seq(Pieces'))
  <1>1. IssuedEntries \subseteq IssuedEntries' BY DEF IssuedEntries
  <1>2. Pieces \subseteq Pieces' BY <1>1 DEF Pieces
  <1>3. Operations \subseteq Operations' BY <1>1 DEF Operations
  <1>4. Seq(IssuedEntries) \subseteq Seq(IssuedEntries') BY <1>1, SeqMonotonic
  <1>5. Seq(Pieces) \subseteq Seq(Pieces') BY <1>2, SeqMonotonic
  <1>6. Seq(Seq(Pieces)) \subseteq Seq(Seq(Pieces')) BY <1>5, SeqMonotonic
  <1> QED BY <1>1, <1>2, <1>3, <1>4, <1>6

(* What an operation in flight carries, and what its end needs of it. *)
LEMMA BegunType ==
    ASSUME TypeInv, NEW c \in Callers, op[c] # Idle
    PROVE  /\ op[c].entry \in IssuedEntries /\ Entry(op[c].entry) \in Pieces
           /\ op[c].summary \in BOOLEAN /\ status = "open"
           /\ op[c].summary => op[c].entry.type = "leaf"
  <1>1. op[c] \in Operations /\ op[c] # Idle BY DEF TypeInv, TypeOK
  <1>2. op[c].entry \in IssuedEntries /\ op[c].summary \in BOOLEAN
    BY <1>1 DEF Operations
  <1> QED BY <1>1, <1>2 DEF Pieces, TypeInv, TypeOK

(* What the write and the acknowledgement do to the operation. *)
LEMMA WriteOp ==
    ASSUME TypeInv, NEW c \in Callers, Write(c)
    PROVE  /\ op[c] # Idle /\ op'[c] # Idle /\ op'[c].pc = "written"
           /\ op'[c].entry = op[c].entry /\ op'[c].summary = op[c].summary
           /\ \A d \in Callers \ {c} : op'[d] = op[d]
  <1>1. op' = [op EXCEPT ![c].pc = "written"] /\ op \in [Callers -> Operations]
    BY DEF Write, TypeInv, TypeOK
  <1>2. op[c] # Idle BY DEF Write, Idle
  <1>3. op[c] \in [pc : {"begun", "written"}, summary : BOOLEAN, entry : IssuedEntries]
    BY <1>1, <1>2 DEF Operations
  <1>4. op'[c] = [op[c] EXCEPT !.pc = "written"] /\ \A d \in Callers \ {c} : op'[d] = op[d]
    BY <1>1
  <1>5. op'[c].pc = "written" /\ op'[c].entry = op[c].entry /\ op'[c].summary = op[c].summary
    BY <1>3, <1>4
  <1> QED BY <1>2, <1>4, <1>5 DEF Idle

LEMMA AcknowledgeOp ==
    ASSUME TypeInv, NEW c \in Callers, NEW id, op[c].pc = "written", Acknowledge(c, id)
    PROVE  /\ op[c] # Idle
           /\ op'[c] = IF op[c].summary
                       THEN [pc |-> "begun", summary |-> FALSE,
                             entry |-> [type |-> "entry", id |-> id,
                                        parent |-> op[c].entry.target]]
                       ELSE Idle
           /\ \A d \in Callers \ {c} : op'[d] = op[d]
  <1> DEFINE next == [pc |-> "begun", summary |-> FALSE,
                      entry |-> [type |-> "entry", id |-> id,
                                 parent |-> op[c].entry.target]]
  <1>1. op' = [op EXCEPT ![c] = IF op[c].summary THEN next ELSE Idle] BY DEF Acknowledge
  <1>2. op \in [Callers -> Operations] BY DEF TypeInv, TypeOK
  <1>3. op[c] # Idle BY DEF Idle
  <1> HIDE DEF next
  <1>4. op'[c] = (IF op[c].summary THEN next ELSE Idle)
        /\ \A d \in Callers \ {c} : op'[d] = op[d]
    BY <1>1, <1>2
  <1> QED BY <1>3, <1>4 DEF next

LEMMA LeafAfterType ==
    ASSUME NEW e \in IssuedEntries
    PROVE  /\ LeafAfterEntry(e) \in IdsOrRoot
           /\ e.type = "leaf" => e.target \in IdsOrRoot
  BY DEF IssuedEntries, EntrySet, LeafAfterEntry, IdsOrRoot

LEMMA LeafOfType ==
    ASSUME NEW es \in Seq(IssuedEntries) PROVE LeafOf(es) \in IdsOrRoot
  <1>1. CASE es = <<>> BY <1>1 DEF LeafOf, IdsOrRoot
  <1>2. CASE es # <<>>
    <2>1. Len(es) \in 1..Len(es) BY <1>2, EmptySeq, LenProperties
    <2>2. es[Len(es)] \in IssuedEntries BY <2>1, ElementOfSeq
    <2> QED BY <1>2, <2>2, LeafAfterType DEF LeafOf
  <1> QED BY <1>1, <1>2

LEMMA EmptyFileType == ASSUME NEW P PROVE EmptyFile \in Seq(Seq(P)) /\ EmptyFile # <<>>
  <1>1. <<>> \in Seq(P) /\ <<>> \in Seq(Seq(P)) BY EmptySeq
  <1>2. EmptyFile = Append(<<>>, <<>>) BY PieceOnEmpty DEF EmptyFile
  <1> QED BY <1>1, <1>2, AppendProperties

LEMMA NextType == TypeInv /\ [Next]_vars => TypeInv'
  <1> SUFFICES ASSUME TypeInv, [Next]_vars PROVE TypeInv' OBVIOUS
  <1> USE DEF memory, record, history
  (* A step that issues ids, and keeps disk, status and memory. *)
  <1>a. ASSUME issued \subseteq issued', issued' \subseteq Ids, UNCHANGED <<disk, status, memory>>,
               op' \in [Callers -> Operations'],
               \A c \in Callers : op'[c] # Idle =>
                  status' = "open" /\ (op'[c].summary => op'[c].entry.type = "leaf")
        PROVE  TypeInv'
    BY <1>a, Grown DEF TypeInv, TypeOK, IdsOrRoot
  <1>b. ASSUME NEW id \in Ids, issued' = issued \cup {id}
        PROVE  issued \subseteq issued' /\ issued' \subseteq Ids
    BY <1>b DEF TypeInv, TypeOK
  (* A step that issues nothing keeps the types. *)
  <1>c. ASSUME UNCHANGED issued
        PROVE  /\ IssuedEntries' = IssuedEntries /\ Pieces' = Pieces
               /\ Operations' = Operations /\ issued' \subseteq Ids
    BY <1>c DEF IssuedEntries, Pieces, Operations, TypeInv, TypeOK
  <1>d. Header \in Pieces /\ Fragment \in Pieces BY DEF Pieces
  <1>e. disk \in Seq(Seq(Pieces)) /\ disk # <<>> BY DEF TypeInv, TypeOK
  <1>1. CASE Create
    <2>1. disk' \in Seq(Seq(Pieces)) /\ disk' # <<>>
      BY <1>1, <1>d, EmptyFileType, AddLineType DEF Create
    <2>2. \A c \in Callers : op[c] = Idle BY <1>1 DEF Create, TypeInv, TypeOK
    <2> QED BY <1>1, <1>c, <2>1, <2>2 DEF Create, TypeInv, TypeOK, IdsOrRoot
  <1>2. ASSUME NEW how \in CrashCuts, CrashInCreate(how) PROVE TypeInv'
    <2>1. how \in {"nothing", "fragment", "line"} BY CutAssumption
    <2>2. disk' \in Seq(Seq(Pieces)) /\ disk' # <<>>
      BY <1>2, <1>d, <2>1, EmptyFileType, CutType DEF CrashInCreate
    <2>3. \A c \in Callers : op[c] = Idle BY <1>2 DEF CrashInCreate, TypeInv, TypeOK
    <2> QED BY <1>2, <1>c, <2>2, <2>3 DEF CrashInCreate, TypeInv, TypeOK, IdsOrRoot
  <1>3. ASSUME NEW c \in Callers, NEW id \in Ids \ issued, BeginAppend(c, id) PROVE TypeInv'
    <2> DEFINE e == [type |-> "entry", id |-> id, parent |-> leaf]
    <2>1. leaf \in IdsOrRoot BY DEF TypeInv, TypeOK
    <2>2. e \in EntrySet /\ e.id \in issued' BY <1>3, <2>1 DEF EntrySet, BeginAppend
    <2>3. e \in IssuedEntries' BY <2>2 DEF IssuedEntries, EntrySet, IdsOrRoot
    <2>4. op' = [op EXCEPT ![c] = [pc |-> "begun", summary |-> FALSE, entry |-> e]]
      BY <1>3 DEF BeginAppend
    <2> HIDE DEF e
    <2>5. [pc |-> "begun", summary |-> FALSE, entry |-> e] \in Operations'
      BY <2>3 DEF Operations
    <2>6. issued \subseteq issued' /\ issued' \subseteq Ids BY <1>3, <1>b DEF BeginAppend
    <2>7. op' \in [Callers -> Operations'] BY <2>4, <2>5, <2>6, Grown DEF TypeInv, TypeOK
    <2>8. \A d \in Callers : op'[d] # Idle =>
             status' = "open" /\ (op'[d].summary => op'[d].entry.type = "leaf")
      BY <1>3, <2>4 DEF BeginAppend, TypeInv, TypeOK
    <2> QED BY <1>3, <1>a, <2>6, <2>7, <2>8 DEF BeginAppend
  <1>4. ASSUME NEW c \in Callers, NEW id \in Ids \ issued, NEW target \in Ids \cup {Root},
               NEW summary \in BOOLEAN, BeginMove(c, id, target, summary)
        PROVE  TypeInv'
    <2> DEFINE e == [type |-> "leaf", id |-> id, parent |-> leaf, target |-> target]
    <2>1. leaf \in IdsOrRoot BY DEF TypeInv, TypeOK
    <2>2. e \in EntrySet /\ e.id \in issued' /\ e.type = "leaf"
      BY <1>4, <2>1 DEF EntrySet, BeginMove, IdsOrRoot
    <2>3. e \in IssuedEntries' BY <2>2 DEF IssuedEntries, EntrySet, IdsOrRoot
    <2>4. op' = [op EXCEPT ![c] = [pc |-> "begun", summary |-> summary, entry |-> e]]
      BY <1>4 DEF BeginMove
    <2> HIDE DEF e
    <2>5. [pc |-> "begun", summary |-> summary, entry |-> e] \in Operations'
      BY <2>3 DEF Operations
    <2>6. issued \subseteq issued' /\ issued' \subseteq Ids BY <1>4, <1>b DEF BeginMove
    <2>7. op' \in [Callers -> Operations'] BY <2>4, <2>5, <2>6, Grown DEF TypeInv, TypeOK
    <2>8. \A d \in Callers : op'[d] # Idle =>
             status' = "open" /\ (op'[d].summary => op'[d].entry.type = "leaf")
      BY <1>4, <2>2, <2>4 DEF BeginMove, TypeInv, TypeOK
    <2> QED BY <1>4, <1>a, <2>6, <2>7, <2>8 DEF BeginMove
  <1>5. ASSUME NEW c \in Callers, Write(c) PROVE TypeInv'
    <2>1. op[c] # Idle BY <1>5 DEF Write, Idle
    <2>2. disk' \in Seq(Seq(Pieces)) /\ disk' # <<>>
      BY <1>5, <1>e, <2>1, BegunType, AddLineType DEF Write
    <2>3. op' = [op EXCEPT ![c].pc = "written"] /\ op \in [Callers -> Operations]
      BY <1>5 DEF Write, TypeInv, TypeOK
    <2>4. op[c] \in [pc : {"begun", "written"}, summary : BOOLEAN, entry : IssuedEntries]
      BY <2>1, <2>3 DEF Operations
    <2>5. /\ op'[c] = [op[c] EXCEPT !.pc = "written"]
          /\ \A d \in Callers \ {c} : op'[d] = op[d]
      BY <2>3
    <2>6. /\ op'[c] \in [pc : {"begun", "written"}, summary : BOOLEAN, entry : IssuedEntries]
          /\ op'[c].summary = op[c].summary /\ op'[c].entry = op[c].entry
      BY <2>4, <2>5
    <2>7. op'[c] \in Operations BY <2>6 DEF Operations
    <2>8. op' \in [Callers -> Operations] BY <2>3, <2>7
    <2>9. \A d \in Callers : op'[d] # Idle =>
             status' = "open" /\ (op'[d].summary => op'[d].entry.type = "leaf")
      BY <1>5, <2>1, <2>5, <2>6, BegunType DEF Write, TypeInv, TypeOK
    <2> QED BY <1>5, <1>c, <2>2, <2>8, <2>9 DEF Write, TypeInv, TypeOK, IdsOrRoot
  <1>6. ASSUME NEW c \in Callers, NEW how \in FailCuts, FailWrite(c, how) PROVE TypeInv'
    <2>1. op[c] # Idle BY <1>6 DEF FailWrite, Idle
    <2>2. how \in {"nothing", "fragment", "line"} BY CutAssumption
    <2>3. disk' \in Seq(Seq(Pieces)) /\ disk' # <<>>
      BY <1>6, <1>d, <1>e, <2>1, <2>2, BegunType, CutType DEF FailWrite
    <2>4. op' = [op EXCEPT ![c] = Idle] BY <1>6 DEF FailWrite
    <2>5. op' \in [Callers -> Operations] BY <2>4 DEF TypeInv, TypeOK, Operations
    <2>6. \A d \in Callers : op'[d] # Idle =>
             status' = "open" /\ (op'[d].summary => op'[d].entry.type = "leaf")
      BY <1>6, <2>4 DEF FailWrite, TypeInv, TypeOK
    <2> QED BY <1>6, <1>c, <2>3, <2>5, <2>6 DEF FailWrite, TypeInv, TypeOK, IdsOrRoot
  (* What an acknowledged append leaves in memory, with or without a summary. *)
  <1>7. ASSUME NEW c \in Callers, NEW id, op[c].pc = "written", Acknowledge(c, id),
               op[c].summary => id \in Ids \ issued
        PROVE  TypeInv'
    <2> DEFINE e == op[c].entry
               next == [pc |-> "begun", summary |-> FALSE,
                        entry |-> [type |-> "entry", id |-> id, parent |-> e.target]]
    <2>1. op[c] # Idle BY <1>7 DEF Idle
    <2>2. /\ e \in IssuedEntries /\ op[c].summary \in BOOLEAN /\ status = "open"
          /\ op[c].summary => e.type = "leaf"
      BY <2>1, BegunType
    <2>3. issued \subseteq issued' /\ issued' \subseteq Ids
      BY <1>7, <1>b, <2>2 DEF Acknowledge, TypeInv, TypeOK
    <2>4. e \in IssuedEntries' /\ entries \in Seq(IssuedEntries')
      BY <2>2, <2>3, Grown DEF TypeInv, TypeOK
    <2>5. entries' \in Seq(IssuedEntries') BY <1>7, <2>4, AppendProperties DEF Acknowledge
    <2>6. leaf' \in IdsOrRoot BY <1>7, <2>2, LeafAfterType DEF Acknowledge
    <2>7. op[c].summary => next \in Operations'
      <3>1. SUFFICES ASSUME op[c].summary PROVE next \in Operations' OBVIOUS
      <3>2. e.target \in IdsOrRoot BY <2>2, <3>1, LeafAfterType
      <3>3. id \in Ids /\ id \in issued' BY <1>7, <3>1 DEF Acknowledge
      <3>4. [type |-> "entry", id |-> id, parent |-> e.target] \in EntrySet
        BY <3>2, <3>3 DEF EntrySet
      <3>5. [type |-> "entry", id |-> id, parent |-> e.target] \in IssuedEntries'
        BY <3>3, <3>4 DEF IssuedEntries, EntrySet, IdsOrRoot
      <3> QED BY <3>5 DEF Operations
    <2>8. op' = [op EXCEPT ![c] = IF op[c].summary THEN next ELSE Idle]
      BY <1>7 DEF Acknowledge
    <2>9. next # Idle /\ next.summary = FALSE BY DEF Idle
    <2> HIDE DEF next
    <2>10. op' \in [Callers -> Operations']
      BY <2>3, <2>7, <2>8, Grown DEF TypeInv, TypeOK, Operations
    <2>11. \A d \in Callers : op'[d] # Idle =>
              status' = "open" /\ (op'[d].summary => op'[d].entry.type = "leaf")
      BY <1>7, <2>2, <2>8, <2>9 DEF Acknowledge, TypeInv, TypeOK
    <2>12. UNCHANGED <<disk, status>> BY <1>7 DEF Acknowledge
    <2>13. disk' \in Seq(Seq(Pieces')) BY <1>e, <2>3, <2>12, Grown
    <2> QED BY <1>e, <2>2, <2>3, <2>5, <2>6, <2>10, <2>11, <2>12, <2>13
            DEF TypeInv, TypeOK, IdsOrRoot
  <1>8. CASE Crash
    <2>1. disk' \in Seq(Seq(Pieces)) /\ disk' # <<>>
      <3>1. CASE UNCHANGED disk BY <1>e, <3>1
      <3>2. ASSUME NEW c \in Callers, NEW how \in CrashCuts, op[c].pc = "begun",
                   disk' = Cut(disk, Entry(op[c].entry), how)
            PROVE  disk' \in Seq(Seq(Pieces)) /\ disk' # <<>>
        <4>1. op[c] # Idle BY <3>2 DEF Idle
        <4>2. how \in {"nothing", "fragment", "line"} BY CutAssumption
        <4> QED BY <1>d, <1>e, <3>2, <4>1, <4>2, BegunType, CutType
      <3> QED BY <1>8, <3>1, <3>2 DEF Crash
    <2>2. <<>> \in Seq(IssuedEntries) BY EmptySeq
    <2>3. op' = [c \in Callers |-> Idle] BY <1>8 DEF Crash
    <2> QED BY <1>8, <1>c, <2>1, <2>2, <2>3 DEF Crash, TypeInv, TypeOK, IdsOrRoot, Operations
  <1>9. ASSUME LoadClean \/ LoadSalvaged PROVE TypeInv'
    <2>1. Parsed(disk) \in Seq(IssuedEntries) BY <1>e, ParsedType DEF Pieces
    <2>2. LeafOf(Parsed(disk)) \in IdsOrRoot BY <2>1, LeafOfType
    <2>3. \A c \in Callers : op[c] = Idle
      BY <1>9 DEF LoadClean, LoadSalvaged, TypeInv, TypeOK
    <2> QED BY <1>9, <1>c, <1>e, <2>1, <2>2, <2>3
            DEF LoadClean, LoadSalvaged, TypeInv, TypeOK, IdsOrRoot
  <1>10. CASE Repair
    <2>1. disk' \in Seq(Seq(Pieces)) /\ disk' # <<>>
      BY <1>10, <1>e, RepairedType DEF Repair, TypeInv
    <2>2. \A c \in Callers : op[c] = Idle BY <1>10 DEF Repair, TypeInv, TypeOK
    <2> QED BY <1>10, <1>c, <2>1, <2>2 DEF Repair, TypeInv, TypeOK, IdsOrRoot
  <1>11. CASE BreakRepair
    <2>1. disk' \in Seq(Seq(Pieces)) /\ disk' # <<>>
      <3>1. CASE UNCHANGED disk BY <1>e, <3>1
      <3>2. ASSUME NEW n \in 0..Len(Repaired(disk)),
                   disk' = IF n = 0 THEN EmptyFile ELSE SubSeq(Repaired(disk), 1, n)
            PROVE  disk' \in Seq(Seq(Pieces)) /\ disk' # <<>>
        <4>1. Repaired(disk) \in Seq(Seq(Pieces))
          BY <1>11, <1>e, RepairedType DEF BreakRepair, TypeInv
        <4>2. CASE n = 0 BY <3>2, <4>2, EmptyFileType
        <4>3. CASE n # 0
          <5>1. disk' \in Seq(Seq(Pieces)) /\ Len(disk') = n BY <3>2, <4>1, <4>3, PrefixType
          <5> QED BY <4>3, <5>1, EmptySeq
        <4> QED BY <4>2, <4>3
      <3> QED BY <1>11, <3>1, <3>2 DEF BreakRepair
    <2>2. <<>> \in Seq(IssuedEntries) BY EmptySeq
    <2>3. \A c \in Callers : op[c] = Idle BY <1>11 DEF BreakRepair, TypeInv, TypeOK
    <2> QED BY <1>11, <1>c, <2>1, <2>2, <2>3 DEF BreakRepair, TypeInv, TypeOK, IdsOrRoot
  <1>12. CASE LoadFails
    <2>1. \A c \in Callers : op[c] = Idle BY <1>12 DEF LoadFails, TypeInv, TypeOK
    <2> QED BY <1>12, <1>c, <1>e, <2>1 DEF LoadFails, TypeInv, TypeOK, IdsOrRoot
  <1>13. CASE UNCHANGED vars BY <1>13, <1>c DEF vars, TypeInv, TypeOK, IdsOrRoot
  <1> QED
    BY <1>1, <1>2, <1>3, <1>4, <1>5, <1>6, <1>7, <1>8, <1>9, <1>10, <1>11, <1>12, <1>13
    DEF Next

(* The store keeps its types through every fault the model admits: lines    *)
(* hold whole pieces or fragments, an entry's id was issued before the      *)
(* entry was written, and only an open store has operations in progress.    *)
THEOREM SessionTypeCorrect == Spec => []TypeOK
  <1>1. TypeInv => TypeOK BY DEF TypeInv
  <1> QED BY InitType, NextType, <1>1, PTL DEF Spec

-----------------------------------------------------------------------------
(* What a load makes of the files that clean cuts leave: the entries, one  *)
(* per line, of the lines between the header and the last.                 *)

EntriesIn(lines) == [n \in 1..(Len(lines) - 2) |-> lines[n + 1][1].entry]

LEMMA ParsedOfShaped ==
    ASSUME NEW lines, Whole(lines) \/ Torn(lines)
    PROVE  Parsed(lines) = EntriesIn(lines)
  <1> DEFINE T == EntryLines(lines)
             nth(n) == CHOOSE i \in T : Cardinality({j \in T : j <= i}) = n
  <1>1. Len(lines) \in Nat /\ Len(lines) >= 2 BY LenProperties DEF Whole, Torn, Shaped
  <1>2. /\ FirstContent(lines) = 1 /\ HasHeader(lines) /\ Bad(lines) \subseteq {Len(lines)}
        /\ 2..(Len(lines) - 1) \subseteq Content(lines)
    BY ContentOfShaped DEF Whole, Torn
  <1>3. Len(lines) \notin T
    <2>1. CASE Whole(lines) BY <2>1 DEF Whole, EntryLines, Content
    <2>2. CASE Torn(lines)
      <3>1. Bad(lines) = {Len(lines)} BY <2>2, TornSalvages DEF Salvages
      <3> QED BY <1>1, <3>1 DEF EntryLines
    <2> QED BY <2>1, <2>2
  <1>4. T = 2..(Len(lines) - 1)
    <2>1. \A i \in T : i \in 1..Len(lines) /\ i > 1 /\ i # Len(lines)
      BY <1>2, <1>3 DEF EntryLines, Content
    <2>2. \A i \in 2..(Len(lines) - 1) : i \in Content(lines) /\ i > 1 /\ i < Len(lines)
      BY <1>1, <1>2
    <2>3. \A i \in 2..(Len(lines) - 1) : i \in T BY <1>2, <2>2 DEF EntryLines
    <2> HIDE DEF T
    <2>4. \A i \in T : i \in 2..(Len(lines) - 1) BY <1>1, <2>1
    <2> QED BY <2>3, <2>4
  <1> HIDE DEF T
  <1>5. Cardinality(T) = Len(lines) - 2 BY <1>1, <1>4, FS_Interval
  <1>6. ASSUME NEW i \in T PROVE Cardinality({j \in T : j <= i}) = i - 1
    <2>1. {j \in T : j <= i} = 2..i BY <1>1, <1>4
    <2>2. Cardinality(2..i) = i - 1 BY <1>1, <1>4, FS_Interval
    <2> QED BY <2>1, <2>2
  <1>7. ASSUME NEW n \in 1..(Len(lines) - 2) PROVE nth(n) = n + 1
    <2>1. n + 1 \in T BY <1>1, <1>4
    <2>2. Cardinality({j \in T : j <= n + 1}) = n
      <3>1. (n + 1) - 1 = n OBVIOUS
      <3> QED BY <1>6, <2>1, <3>1
    <2>3. nth(n) \in T /\ Cardinality({j \in T : j <= nth(n)}) = n BY <2>1, <2>2
    <2> HIDE DEF nth
    <2>4. nth(n) - 1 = n BY <1>6, <2>3
    <2>5. nth(n) \in Int BY <1>1, <1>4, <2>3
    <2> QED BY <2>4, <2>5
  <1> HIDE DEF nth
  <1>8. Parsed(lines) = [n \in 1..Cardinality(T) |-> lines[nth(n)][1].entry]
    BY <1>2 DEF Parsed, T, nth
  <1> QED BY <1>5, <1>7, <1>8 DEF EntriesIn

LEMMA ParsedFacts ==
    ASSUME NEW E, NEW lines \in Seq(Seq({Header, Fragment} \cup {Entry(e) : e \in E})),
           Whole(lines) \/ Torn(lines)
    PROVE  /\ Parsed(lines) \in Seq(E) /\ Len(Parsed(lines)) = Len(lines) - 2
           /\ \A n \in 1..(Len(lines) - 2) : Parsed(lines)[n] = lines[n + 1][1].entry
           /\ Len(lines) \in Nat
  <1>1. Parsed(lines) = EntriesIn(lines) BY ParsedOfShaped
  <1>2. Parsed(lines) \in Seq(E) BY ParsedType
  <1>3. Len(lines) \in Nat /\ Len(lines) >= 2 BY LenProperties DEF Whole, Torn, Shaped
  <1>4. DOMAIN Parsed(lines) = 1..(Len(lines) - 2) BY <1>1 DEF EntriesIn
  <1>5. Len(Parsed(lines)) \in Nat /\ DOMAIN Parsed(lines) = 1..Len(Parsed(lines))
    BY <1>2, LenProperties
  <1>6. \A k \in Nat : Cardinality(1..k) = k BY FS_Interval
  <1>7. Len(lines) - 2 \in Nat BY <1>3
  <1>8. Len(Parsed(lines)) = Len(lines) - 2 BY <1>4, <1>5, <1>6, <1>7
  <1> QED BY <1>1, <1>2, <1>3, <1>8 DEF EntriesIn

(* An append that reached the file adds its entry at the end. *)
LEMMA ParsedAddLine ==
    ASSUME NEW E, NEW lines \in Seq(Seq({Header, Fragment} \cup {Entry(x) : x \in E})),
           Whole(lines), NEW e \in E
    PROVE  Parsed(AddLine(lines, Entry(e))) = Append(Parsed(lines), e)
  <1> DEFINE P == {Header, Fragment} \cup {Entry(x) : x \in E}
             new == AddLine(lines, Entry(e))
  <1>1. Entry(e) \in P OBVIOUS
  <1>2. lines # <<>> BY EmptySeq DEF Whole, Shaped
  <1>3. new \in Seq(Seq(P))
    <2> HIDE DEF P
    <2> QED BY <1>1, <1>2, AddLineType DEF P
  <1>4. /\ Whole(new) /\ Len(new) = Len(lines) + 1 /\ new[Len(lines)] = <<Entry(e)>>
        /\ \A j \in 1..(Len(lines) - 1) : new[j] = lines[j]
    BY AddLineWhole
  <1> HIDE DEF new
  <1>5. /\ Parsed(new) \in Seq(E) /\ Len(Parsed(new)) = Len(new) - 2
        /\ \A n \in 1..(Len(new) - 2) : Parsed(new)[n] = new[n + 1][1].entry
    BY <1>3, <1>4, ParsedFacts
  <1>6. /\ Parsed(lines) \in Seq(E) /\ Len(Parsed(lines)) = Len(lines) - 2
        /\ \A n \in 1..(Len(lines) - 2) : Parsed(lines)[n] = lines[n + 1][1].entry
    BY ParsedFacts
  <1>7. Len(lines) \in Nat /\ Len(lines) >= 2 BY LenProperties DEF Whole, Shaped
  <1>8. /\ Append(Parsed(lines), e) \in Seq(E)
        /\ Len(Append(Parsed(lines), e)) = Len(lines) - 1
        /\ \A n \in 1..(Len(lines) - 2) : Append(Parsed(lines), e)[n] = Parsed(lines)[n]
        /\ Append(Parsed(lines), e)[Len(lines) - 1] = e
    <2>1. Append(Parsed(lines), e)[Len(Parsed(lines)) + 1] = e BY <1>6, AppendProperties
    <2>2. Len(Parsed(lines)) + 1 = Len(lines) - 1 BY <1>6, <1>7
    <2> QED BY <1>6, <1>7, <2>1, <2>2, AppendProperties
  <1>9. ASSUME NEW n \in 1..(Len(lines) - 1)
        PROVE  Parsed(new)[n] = Append(Parsed(lines), e)[n]
    <2>1. CASE n = Len(lines) - 1
      <3>1. n \in 1..(Len(new) - 2) /\ n + 1 = Len(lines) BY <1>4, <1>7, <2>1
      <3>2. Parsed(new)[n] = new[Len(lines)][1].entry BY <1>5, <3>1
      <3> QED BY <1>4, <1>8, <2>1, <3>2 DEF Entry
    <2>2. CASE n # Len(lines) - 1
      <3>1. n \in 1..(Len(lines) - 2) /\ n + 1 \in 1..(Len(lines) - 1) BY <1>7, <2>2
      <3>2. n \in 1..(Len(new) - 2) BY <1>4, <1>7, <3>1
      <3>3. Parsed(new)[n] = lines[n + 1][1].entry BY <1>4, <1>5, <3>1, <3>2
      <3> QED BY <1>6, <1>8, <3>1, <3>3
    <2> QED BY <2>1, <2>2
  <1>10. Len(Parsed(new)) = Len(Append(Parsed(lines), e)) /\ Len(Parsed(new)) = Len(lines) - 1
    BY <1>4, <1>5, <1>7, <1>8
  <1>11. Parsed(new) = Append(Parsed(lines), e)
    BY <1>5, <1>8, <1>9, <1>10, SeqEqual
  <1> QED BY <1>11 DEF new

(* A torn append changes nothing that a load returns, nor does the repair. *)
LEMMA ParsedTorn ==
    ASSUME NEW lines, Whole(lines)
    PROVE  Parsed(AddPiece(lines, Fragment)) = Parsed(lines)
  <1> DEFINE new == AddPiece(lines, Fragment)
  <1>1. /\ Torn(new) /\ Len(new) = Len(lines)
        /\ \A j \in 1..(Len(lines) - 1) : new[j] = lines[j]
    BY AddPieceShape DEF Torn
  <1>2. Len(lines) \in Nat BY LenProperties DEF Whole, Shaped
  <1> HIDE DEF new
  <1>3. EntriesIn(new) = EntriesIn(lines) BY <1>1, <1>2 DEF EntriesIn
  <1> QED BY <1>1, <1>3, ParsedOfShaped DEF new

LEMMA ParsedCut ==
    ASSUME NEW lines, Whole(lines), NEW piece, NEW how \in {"nothing", "fragment"}
    PROVE  Parsed(Cut(lines, piece, how)) = Parsed(lines)
  BY ParsedTorn DEF Cut

LEMMA ParsedRepaired ==
    ASSUME NEW lines, Torn(lines) PROVE Parsed(Repaired(lines)) = Parsed(lines)
  <1> DEFINE new == Repaired(lines)
  <1>1. /\ Whole(new) /\ Len(new) = Len(lines)
        /\ \A j \in 1..(Len(lines) - 1) : new[j] = lines[j]
    BY RepairedWhole
  <1>2. Len(lines) \in Nat BY LenProperties DEF Torn, Shaped
  <1> HIDE DEF new
  <1>3. EntriesIn(new) = EntriesIn(lines) BY <1>1, <1>2 DEF EntriesIn
  <1> QED BY <1>1, <1>3, ParsedOfShaped DEF new

LEMMA ParsedEmpty ==
    /\ Parsed(AddLine(EmptyFile, Header)) = <<>>
    /\ \A lines \in {EmptyFile, << <<Fragment>> >>} : Parsed(lines) = <<>>
  <1>1. Parsed(AddLine(EmptyFile, Header)) = <<>>
    <2> DEFINE new == AddLine(EmptyFile, Header)
    <2>1. Whole(new) /\ Len(new) = 2 BY NewFileWhole
    <2> HIDE DEF new
    <2>2. EntriesIn(new) = <<>> BY <2>1 DEF EntriesIn
    <2> QED BY <2>1, <2>2, ParsedOfShaped DEF new
  <1>2. ASSUME NEW lines \in {EmptyFile, << <<Fragment>> >>} PROVE Parsed(lines) = <<>>
    BY HeadlessFails DEF Parsed
  <1> QED BY <1>1, <1>2

-----------------------------------------------------------------------------
(* The store implements the append-only log. *)

InLog(e) == \E i \in 1..Len(Parsed(disk)) : Parsed(disk)[i] = e

(* An append whose write has returned is in the file. *)
LogInv ==
    /\ DiskInv /\ TypeInv
    /\ \A c \in Callers : op[c].pc = "written" => InLog(op[c].entry)

(* A write that reaches an open store's file appends its entry to the log. *)
LEMMA WriteLog ==
    ASSUME LogInv, NEW c \in Callers, Write(c)
    PROVE  /\ Parsed(disk) \in Seq(IssuedEntries) /\ op[c].entry \in IssuedEntries
           /\ Parsed(disk)' = Append(Parsed(disk), op[c].entry)
  <1>1. op[c] # Idle BY DEF Write, Idle
  <1>2. op[c].entry \in IssuedEntries BY <1>1, BegunType DEF LogInv
  <1>3. disk \in Seq(Seq({Header, Fragment} \cup {Entry(e) : e \in IssuedEntries}))
    BY DEF LogInv, TypeInv, TypeOK, Pieces
  <1>4. Whole(disk) BY DEF LogInv, DiskInv, Write
  <1>5. Parsed(disk) \in Seq(IssuedEntries) BY <1>3, ParsedType
  <1>6. Parsed(AddLine(disk, Entry(op[c].entry))) = Append(Parsed(disk), op[c].entry)
    BY <1>2, <1>3, <1>4, ParsedAddLine
  <1> QED BY <1>2, <1>5, <1>6 DEF Write

(* No other step changes what a load returns. *)
LEMMA OtherLog ==
    ASSUME CleanCuts, LogInv, [Next]_vars, \A c \in Callers : ~ Write(c)
    PROVE  Parsed(disk)' = Parsed(disk)
  <1> USE DEF memory, record, history
  <1>0. ASSUME UNCHANGED disk PROVE Parsed(disk)' = Parsed(disk) BY <1>0
  <1>1. CASE Create
    <2>1. disk = EmptyFile /\ disk' = AddLine(EmptyFile, Header)
      BY <1>1 DEF Create, LogInv, DiskInv
    <2> QED BY <2>1, ParsedEmpty
  <1>2. ASSUME NEW how \in CrashCuts, CrashInCreate(how) PROVE Parsed(disk)' = Parsed(disk)
    <2>1. how \in {"nothing", "fragment"} BY DEF CleanCuts
    <2>2. Cut(EmptyFile, Header, how) \in {EmptyFile, << <<Fragment>> >>}
      <3>1. AddPiece(EmptyFile, Fragment) = << <<Fragment>> >> BY DEF AddPiece, EmptyFile
      <3> QED BY <2>1, <3>1 DEF Cut
    <2>3. disk = EmptyFile /\ disk' = Cut(EmptyFile, Header, how)
      BY <1>2 DEF CrashInCreate, LogInv, DiskInv
    <2> QED BY <2>2, <2>3, ParsedEmpty
  <1>3. ASSUME NEW c \in Callers, NEW id, NEW target, NEW summary,
               \/ BeginAppend(c, id) \/ BeginMove(c, id, target, summary) \/ Acknowledge(c, id)
        PROVE  Parsed(disk)' = Parsed(disk)
    BY <1>0, <1>3 DEF BeginAppend, BeginMove, Acknowledge
  <1>4. ASSUME NEW c \in Callers, NEW how \in FailCuts, FailWrite(c, how)
        PROVE  Parsed(disk)' = Parsed(disk)
    <2>1. how = "nothing" BY DEF CleanCuts
    <2> QED BY <1>0, <1>4, <2>1 DEF FailWrite, Cut
  <1>5. CASE Crash
    <2>1. ASSUME NEW c \in Callers, NEW how \in CrashCuts,
                 disk' = Cut(disk, Entry(op[c].entry), how)
          PROVE  Parsed(disk)' = Parsed(disk)
      <3>1. how \in {"nothing", "fragment"} BY DEF CleanCuts
      <3>2. Whole(disk) BY <1>5 DEF Crash, LogInv, DiskInv
      <3> QED BY <2>1, <3>1, <3>2, ParsedCut
    <2> QED BY <1>0, <1>5, <2>1 DEF Crash
  <1>6. ASSUME LoadClean \/ LoadSalvaged \/ LoadFails PROVE Parsed(disk)' = Parsed(disk)
    BY <1>0, <1>6 DEF LoadClean, LoadSalvaged, LoadFails
  <1>7. CASE Repair
    <2>1. Torn(disk) /\ disk' = Repaired(disk) BY <1>7 DEF Repair, LogInv, DiskInv
    <2> QED BY <2>1, ParsedRepaired
  <1>8. CASE BreakRepair BY <1>0, <1>8 DEF BreakRepair, CleanCuts
  <1>9. CASE UNCHANGED vars BY <1>0, <1>9 DEF vars
  <1> QED BY <1>1, <1>2, <1>3, <1>4, <1>5, <1>6, <1>7, <1>8, <1>9 DEF Next

LEMMA InitLog == Init => LogInv
  <1>1. SUFFICES ASSUME Init PROVE LogInv OBVIOUS
  <1>2. \A c \in Callers : op[c].pc = "idle" BY <1>1 DEF Init, Idle
  <1> QED BY <1>1, <1>2, InitDisk, InitType DEF LogInv

LEMMA NextLog ==
    ASSUME CleanCuts, LogInv, [Next]_vars PROVE LogInv'
  <1> USE DEF memory, record, history
  <1> DEFINE Written(c) == op[c].pc = "written" => InLog(op[c].entry)
  <1>1. DiskInv' /\ TypeInv' BY NextDisk, NextType DEF LogInv
  <1>2. ASSUME NEW c \in Callers PROVE Written(c)'
    (* The operation keeps what it carries, and the log what it holds. *)
    <2>0. ASSUME Parsed(disk)' = Parsed(disk), op'[c] = op[c] PROVE Written(c)'
      BY <2>0 DEF LogInv, InLog
    <2>1. CASE \E d \in Callers : Write(d)
      <3>1. PICK d \in Callers : Write(d) BY <2>1
      <3> DEFINE L == Parsed(disk)
                 e == op[d].entry
      <3>2. L \in Seq(IssuedEntries) /\ e \in IssuedEntries /\ L' = Append(L, e)
        BY <3>1, WriteLog
      <3> HIDE DEF L
      <3>3. /\ Len(L) \in Nat /\ Len(L') = Len(L) + 1 /\ L'[Len(L) + 1] = e
            /\ \A i \in 1..Len(L) : L'[i] = L[i]
        BY <3>2, AppendProperties, LenProperties
      <3>4. op'[d].entry = e /\ \A x \in Callers \ {d} : op'[x] = op[x]
        BY <3>1, WriteOp DEF LogInv
      <3>5. CASE c = d
        <4>1. Len(L) + 1 \in 1..Len(L') BY <3>3
        <4> QED BY <3>3, <3>4, <3>5, <4>1 DEF InLog, L
      <3>6. CASE c # d
        <4>1. op'[c] = op[c] BY <3>4, <3>6
        <4>2. \A i \in 1..Len(L) : i \in 1..Len(L') /\ L'[i] = L[i] BY <3>3
        <4> QED BY <4>1, <4>2 DEF LogInv, InLog, L
      <3> QED BY <3>5, <3>6
    <2>2. CASE \A d \in Callers : ~ Write(d)
      <3>1. Parsed(disk)' = Parsed(disk) BY <2>2, OtherLog
      <3>a. ASSUME op'[c].pc # "written" PROVE Written(c)' BY <3>a
      <3>b. ASSUME UNCHANGED op PROVE Written(c)' BY <2>0, <3>1, <3>b
      <3>c. ASSUME NEW d \in Callers, NEW next, op' = [op EXCEPT ![d] = next],
                   next.pc # "written"
            PROVE  Written(c)'
        <4>1. op \in [Callers -> Operations] BY DEF LogInv, TypeInv, TypeOK
        <4> QED BY <2>0, <3>1, <3>a, <3>c, <4>1
      <3>2. ASSUME Create \/ LoadClean \/ LoadSalvaged \/ Repair \/ BreakRepair \/ LoadFails
            PROVE  Written(c)'
        BY <3>2, <3>b DEF Create, LoadClean, LoadSalvaged, Repair, BreakRepair, LoadFails
      <3>3. ASSUME NEW how \in CrashCuts, CrashInCreate(how) PROVE Written(c)'
        BY <3>3, <3>b DEF CrashInCreate
      <3>4. ASSUME NEW d \in Callers, NEW id, BeginAppend(d, id) PROVE Written(c)'
        <4> DEFINE next == [pc |-> "begun", summary |-> FALSE,
                            entry |-> [type |-> "entry", id |-> id, parent |-> leaf]]
        <4>1. op' = [op EXCEPT ![d] = next] /\ next.pc # "written" BY <3>4 DEF BeginAppend
        <4> HIDE DEF next
        <4> QED BY <3>c, <4>1
      <3>5. ASSUME NEW d \in Callers, NEW id, NEW target, NEW summary,
                   BeginMove(d, id, target, summary) PROVE Written(c)'
        <4> DEFINE next == [pc |-> "begun", summary |-> summary,
                            entry |-> [type |-> "leaf", id |-> id, parent |-> leaf,
                                       target |-> target]]
        <4>1. op' = [op EXCEPT ![d] = next] /\ next.pc # "written" BY <3>5 DEF BeginMove
        <4> HIDE DEF next
        <4> QED BY <3>c, <4>1
      <3>6. ASSUME NEW d \in Callers, NEW how \in FailCuts, FailWrite(d, how)
            PROVE  Written(c)'
        <4>1. op' = [op EXCEPT ![d] = Idle] BY <3>6 DEF FailWrite
        <4>2. Idle.pc # "written" BY DEF Idle
        <4> QED BY <3>c, <4>1, <4>2
      <3>7. ASSUME NEW d \in Callers, NEW id, Acknowledge(d, id) PROVE Written(c)'
        <4> DEFINE next == [pc |-> "begun", summary |-> FALSE,
                            entry |-> [type |-> "entry", id |-> id,
                                       parent |-> op[d].entry.target]]
        <4>1. next.pc # "written" /\ Idle.pc # "written" BY DEF Idle
        <4>2. op' = [op EXCEPT ![d] = next] \/ op' = [op EXCEPT ![d] = Idle]
          BY <3>7 DEF Acknowledge
        <4> HIDE DEF next
        <4> QED BY <3>c, <4>1, <4>2
      <3>8. CASE Crash BY <3>8, <3>a DEF Crash, Idle
      <3>9. CASE UNCHANGED vars BY <3>9, <3>b DEF vars
      <3> QED BY <2>2, <3>2, <3>3, <3>4, <3>5, <3>6, <3>7, <3>8, <3>9 DEF Next
    <2> QED BY <2>1, <2>2
  <1> QED BY <1>1, <1>2 DEF LogInv

(* Every step extends the log by the entry written, confirms an entry that *)
(* is in the log, or leaves log and confirmations alone.                   *)
LEMMA LogStep ==
    ASSUME CleanCuts, LogInv, [Next]_vars
    PROVE  [Log!Next]_<<Parsed(disk), acked>>
  <1> USE DEF memory, record, history
  <1>1. ASSUME NEW c \in Callers, Write(c) PROVE Log!Extend
    <2> DEFINE L == Parsed(disk)
               e == op[c].entry
    <2>1. L \in Seq(IssuedEntries) /\ e \in IssuedEntries /\ L' = Append(L, e)
      BY <1>1, WriteLog
    <2> HIDE DEF L
    <2>2. /\ Len(L) \in Nat /\ L' \in Seq(IssuedEntries)
          /\ Len(L') = Len(L) + 1 /\ L'[Len(L) + 1] = e
          /\ \A i \in 1..Len(L) : L'[i] = L[i]
      BY <2>1, AppendProperties, LenProperties
    <2>3. L'[Len(L')] \in EntrySet BY <2>1, <2>2 DEF IssuedEntries
    <2>4. SubSeq(L', 1, Len(L)) = L
      <3>1. Len(L) \in 0..Len(L') BY <2>2
      <3>2. /\ SubSeq(L', 1, Len(L)) \in Seq(IssuedEntries)
            /\ Len(SubSeq(L', 1, Len(L))) = Len(L)
        BY <2>2, <3>1, PrefixType
      <3>3. \A i \in 1..Len(L) : L'[i] \in IssuedEntries BY <2>1, <2>2, ElementOfSeq
      <3>4. \A i \in 1..(Len(L) - 1 + 1) : SubSeq(L', 1, Len(L))[i] = L'[1 + i - 1]
        BY <2>2, <3>3, SubSeqProperties
      <3>5. \A i \in 1..Len(L) : SubSeq(L', 1, Len(L))[i] = L[i] BY <2>2, <3>4
      <3> QED BY <2>1, <3>2, <3>5, SeqEqual
    <2>5. UNCHANGED acked BY <1>1 DEF Write
    <2> QED BY <2>2, <2>3, <2>4, <2>5 DEF Log!Extend, L
  <1>2. ASSUME NEW c \in Callers, NEW id, op[c].pc = "written", Acknowledge(c, id)
        PROVE  Log!Confirm
    <2>1. PICK i \in 1..Len(Parsed(disk)) : Parsed(disk)[i] = op[c].entry
      BY <1>2 DEF LogInv, InLog
    <2>2. UNCHANGED disk /\ acked' = acked \cup {op[c].entry} BY <1>2 DEF Acknowledge
    <2>3. Parsed(disk)' = Parsed(disk) BY <2>2
    <2> QED BY <2>1, <2>2, <2>3 DEF Log!Confirm
  <1>3. CASE \E c \in Callers : Write(c) BY <1>1, <1>3 DEF Log!Next
  <1>4. CASE \A c \in Callers : ~ Write(c)
    <2>1. Parsed(disk)' = Parsed(disk) BY <1>4, OtherLog
    <2>2. ASSUME UNCHANGED acked PROVE UNCHANGED <<Parsed(disk), acked>> BY <2>1, <2>2
    <2>3. ASSUME Create \/ Crash \/ LoadClean \/ LoadSalvaged \/ Repair \/ BreakRepair
                 \/ LoadFails
          PROVE  UNCHANGED acked
      BY <2>3 DEF Create, Crash, LoadClean, LoadSalvaged, Repair, BreakRepair, LoadFails
    <2>4. ASSUME NEW c \in Callers, NEW id, NEW target, NEW summary, NEW how,
                 \/ BeginAppend(c, id) \/ BeginMove(c, id, target, summary)
                 \/ FailWrite(c, how) \/ CrashInCreate(how)
          PROVE  UNCHANGED acked
      BY <2>4 DEF BeginAppend, BeginMove, FailWrite, CrashInCreate
    <2>5. ASSUME NEW how, CrashInCreate(how) PROVE UNCHANGED acked
      BY <2>5 DEF CrashInCreate
    <2>6. CASE UNCHANGED vars BY <2>6 DEF vars
    <2> QED BY <1>2, <1>4, <2>2, <2>3, <2>4, <2>5, <2>6 DEF Next, Log!Next
  <1> QED BY <1>3, <1>4

LEMMA InitLogSpec == Init => Log!Init
  BY ParsedEmpty DEF Init, Log!Init

(* What a load returns only grows at its end and holds every entry that    *)
(* was acknowledged: the store implements the append-only log, for any     *)
(* number of callers, entries, crashes, salvages and repairs.              *)
THEOREM SessionImplementsLog == ASSUME CleanCuts PROVE Spec => ImplementsLog
  <1>1. LogInv /\ [Next]_vars => LogInv' BY NextLog
  <1>2. LogInv /\ [Next]_vars => [Log!Next]_<<Parsed(disk), acked>> BY LogStep
  <1> QED BY InitLog, InitLogSpec, <1>1, <1>2, PTL DEF Spec, ImplementsLog, Log!Spec

-----------------------------------------------------------------------------
(* Parents and targets precede the entries that name them. *)

Nodes(es) == {Root} \cup KnownIds(es)

Placed(e, es) ==
    /\ e.parent \in Nodes(es)
    /\ e.type = "leaf" => e.target \in Nodes(es)

(* Memory may hold the acknowledged entries in another order than the file, *)
(* but it holds none that the file lacks; what is about to be written names *)
(* entries that memory holds.                                               *)
RootInv ==
    /\ LogInv
    /\ Rooted(entries) /\ Rooted(Parsed(disk))
    /\ KnownIds(entries) \subseteq KnownIds(Parsed(disk))
    /\ leaf \in Nodes(entries)
    /\ \A c \in Callers : op[c] # Idle => Placed(op[c].entry, entries)

LEMMA KnownAppend ==
    ASSUME NEW S, NEW es \in Seq(S), NEW e \in S
    PROVE  KnownIds(Append(es, e)) = KnownIds(es) \cup {e.id}
  <1> DEFINE new == Append(es, e)
  <1>1. /\ Len(es) \in Nat /\ Len(new) = Len(es) + 1 /\ new[Len(es) + 1] = e
        /\ \A i \in 1..Len(es) : new[i] = es[i]
    BY AppendProperties, LenProperties
  <1> HIDE DEF new
  <1>2. \A i \in 1..Len(new) : i \in 1..Len(es) \/ i = Len(es) + 1 BY <1>1
  <1>3. \A i \in 1..Len(es) : i \in 1..Len(new) BY <1>1
  <1>4. Len(es) + 1 \in 1..Len(new) BY <1>1
  <1>5. KnownIds(new) \subseteq KnownIds(es) \cup {e.id} BY <1>1, <1>2 DEF KnownIds
  <1>6. KnownIds(es) \cup {e.id} \subseteq KnownIds(new) BY <1>1, <1>3, <1>4 DEF KnownIds
  <1> QED BY <1>5, <1>6 DEF new

LEMMA KnownEmpty == KnownIds(<<>>) = {} /\ Rooted(<<>>)
  BY DEF KnownIds, Rooted

LEMMA RootedAppend ==
    ASSUME NEW S, NEW es \in Seq(S), NEW e \in S, Rooted(es), Placed(e, es)
    PROVE  Rooted(Append(es, e))
  <1> DEFINE new == Append(es, e)
             before(i) == {Root} \cup {es[j].id : j \in 1..(i - 1)}
             newBefore(i) == {Root} \cup {new[j].id : j \in 1..(i - 1)}
  <1>1. /\ Len(es) \in Nat /\ Len(new) = Len(es) + 1 /\ new[Len(es) + 1] = e
        /\ \A i \in 1..Len(es) : new[i] = es[i]
    BY AppendProperties, LenProperties
  <1> HIDE DEF new
  <1>2. \A i \in 1..(Len(es) + 1) : newBefore(i) = before(i)
    <2>1. TAKE i \in 1..(Len(es) + 1)
    <2>2. \A j \in 1..(i - 1) : new[j] = es[j] BY <1>1
    <2> QED BY <2>2
  <1>3. before(Len(es) + 1) = Nodes(es)
    <2>1. Len(es) + 1 - 1 = Len(es) BY <1>1
    <2> QED BY <2>1 DEF Nodes, KnownIds
  <1>4. ASSUME NEW i \in 1..Len(new)
        PROVE  /\ new[i].parent \in newBefore(i)
               /\ new[i].type = "leaf" => new[i].target \in newBefore(i)
    <2>1. CASE i = Len(es) + 1
      <3>1. newBefore(i) = Nodes(es) /\ new[i] = e BY <1>1, <1>2, <1>3, <2>1
      <3> QED BY <3>1 DEF Placed
    <2>2. CASE i # Len(es) + 1
      <3>1. i \in 1..Len(es) /\ newBefore(i) = before(i) /\ new[i] = es[i]
        BY <1>1, <1>2, <2>2
      <3>2. es[i].parent \in before(i) /\ (es[i].type = "leaf" => es[i].target \in before(i))
        BY <3>1 DEF Rooted
      <3> HIDE DEF before, newBefore
      <3> QED BY <3>1, <3>2
    <2> QED BY <2>1, <2>2
  <1> QED BY <1>4 DEF Rooted, new

LEMMA LeafOfRooted ==
    ASSUME NEW S, NEW es \in Seq(S), Rooted(es) PROVE LeafOf(es) \in Nodes(es)
  <1>1. CASE es = <<>> BY <1>1 DEF LeafOf, Nodes
  <1>2. CASE es # <<>>
    <2>1. Len(es) \in Nat /\ Len(es) \in 1..Len(es) BY <1>2, EmptySeq, LenProperties
    <2>2. es[Len(es)].id \in Nodes(es) BY <2>1 DEF Nodes, KnownIds
    <2>3. es[Len(es)].type = "leaf" =>
             es[Len(es)].target \in {Root} \cup {es[j].id : j \in 1..(Len(es) - 1)}
      BY <2>1 DEF Rooted
    <2>4. \A j \in 1..(Len(es) - 1) : j \in 1..Len(es) BY <2>1
    <2>5. {es[j].id : j \in 1..(Len(es) - 1)} \subseteq KnownIds(es) BY <2>4 DEF KnownIds
    <2> QED BY <1>2, <2>2, <2>3, <2>5 DEF LeafOf, LeafAfterEntry, Nodes
  <1> QED BY <1>1, <1>2

LEMMA PlacedGrows ==
    ASSUME NEW e, NEW es, NEW new, KnownIds(es) \subseteq KnownIds(new), Placed(e, es)
    PROVE  Placed(e, new)
  BY DEF Placed, Nodes

LEMMA LogTypes ==
    ASSUME LogInv
    PROVE  Parsed(disk) \in Seq(IssuedEntries) /\ entries \in Seq(IssuedEntries)
  <1>1. disk \in Seq(Seq({Header, Fragment} \cup {Entry(e) : e \in IssuedEntries}))
    BY DEF LogInv, TypeInv, TypeOK, Pieces
  <1> QED BY <1>1, ParsedType DEF LogInv, TypeInv, TypeOK

LEMMA InitRoot == Init => RootInv
  <1>1. SUFFICES ASSUME Init PROVE RootInv OBVIOUS
  <1>2. Parsed(disk) = <<>> /\ entries = <<>> BY <1>1, ParsedEmpty DEF Init
  <1> QED BY <1>1, <1>2, InitLog, KnownEmpty DEF RootInv, Nodes, Init

LEMMA NextRoot ==
    ASSUME CleanCuts, RootInv, [Next]_vars PROVE RootInv'
  <1> USE DEF memory, record, history
  <1> DEFINE L == Parsed(disk)
             Begun == \A c \in Callers : op[c] # Idle => Placed(op[c].entry, entries)
  <1>1. LogInv' BY NextLog DEF RootInv
  <1>2. L \in Seq(IssuedEntries) /\ entries \in Seq(IssuedEntries) BY LogTypes DEF RootInv
  <1> HIDE DEF L
  <1>3. CASE \E c \in Callers : Write(c)
    <2>1. PICK c \in Callers : Write(c) BY <1>3
    <2> DEFINE e == op[c].entry
    <2>2. L' = Append(L, e) /\ e \in IssuedEntries BY <2>1, WriteLog DEF RootInv, L
    <2>3. UNCHANGED <<entries, leaf>> BY <2>1 DEF Write
    <2>4. /\ op[c] # Idle /\ op'[c].entry = e
          /\ \A d \in Callers \ {c} : op'[d] = op[d]
      BY <2>1, WriteOp DEF RootInv, LogInv
    <2>5. Placed(e, entries) BY <2>4 DEF RootInv
    <2>6. Placed(e, L) BY <2>5, PlacedGrows DEF RootInv, L
    <2>7. Rooted(L') BY <1>2, <2>2, <2>6, RootedAppend DEF RootInv, L
    <2>8. KnownIds(L') = KnownIds(L) \cup {e.id} BY <1>2, <2>2, KnownAppend
    <2>9. Begun'
      <3>1. TAKE d \in Callers
      <3>2. Placed(op'[d].entry, entries) \/ op'[d] = Idle BY <2>4, <2>5 DEF RootInv
      <3> QED BY <2>3, <3>2
    <2> QED BY <1>1, <2>3, <2>7, <2>8, <2>9 DEF RootInv, L
  <1>4. CASE \A c \in Callers : ~ Write(c)
    <2>1. L' = L BY <1>4, OtherLog DEF RootInv, L
    (* Memory as it was: only a new operation is to be placed. *)
    <2>a. ASSUME UNCHANGED <<entries, leaf>>, Begun' PROVE RootInv'
      BY <1>1, <2>1, <2>a DEF RootInv, L
    <2>b. ASSUME UNCHANGED <<entries, leaf>>,
                 \A c \in Callers : op'[c] # Idle =>
                    op'[c] = op[c] \/ Placed(op'[c].entry, entries)
          PROVE  RootInv'
      <3>1. ASSUME NEW c \in Callers, op'[c] # Idle PROVE Placed(op'[c].entry, entries)
        <4>1. CASE op'[c] = op[c] BY <3>1, <4>1 DEF RootInv
        <4> QED BY <2>b, <3>1, <4>1
      <3> QED BY <2>a, <2>b, <3>1
    (* Memory emptied, or loaded from the file. *)
    <2>c. ASSUME entries' = <<>>, leaf' = Root, \A c \in Callers : op'[c] = Idle
          PROVE  RootInv'
      BY <1>1, <2>1, <2>c, KnownEmpty DEF RootInv, L, Nodes
    <2>d. ASSUME entries' = L, leaf' = LeafOf(L), \A c \in Callers : op'[c] = Idle
          PROVE  RootInv'
      <3>1. LeafOf(L) \in Nodes(L) BY <1>2, LeafOfRooted DEF RootInv, L
      <3> QED BY <1>1, <2>1, <2>d, <3>1 DEF RootInv, L
    <2>2. CASE Create BY <2>2, <2>b DEF Create
    <2>3. ASSUME NEW how, CrashInCreate(how) PROVE RootInv' BY <2>3, <2>b DEF CrashInCreate
    <2>4. ASSUME NEW c \in Callers, NEW id, BeginAppend(c, id) PROVE RootInv'
      <3> DEFINE e == [type |-> "entry", id |-> id, parent |-> leaf]
                 next == [pc |-> "begun", summary |-> FALSE, entry |-> e]
      <3>1. Placed(e, entries) /\ next.entry = e BY DEF Placed, RootInv
      <3>2. op' = [op EXCEPT ![c] = next] /\ UNCHANGED <<entries, leaf>>
        BY <2>4 DEF BeginAppend
      <3>3. op \in [Callers -> Operations] BY DEF RootInv, LogInv, TypeInv, TypeOK
      <3> HIDE DEF e, next
      <3> QED BY <2>b, <3>1, <3>2, <3>3
    <2>5. ASSUME NEW c \in Callers, NEW id, NEW target, NEW summary,
                 BeginMove(c, id, target, summary)
          PROVE  RootInv'
      <3> DEFINE e == [type |-> "leaf", id |-> id, parent |-> leaf, target |-> target]
                 next == [pc |-> "begun", summary |-> summary, entry |-> e]
      <3>1. target \in Nodes(entries) BY <2>5 DEF BeginMove, Nodes
      <3>2. Placed(e, entries) /\ next.entry = e BY <3>1 DEF Placed, RootInv
      <3>3. op' = [op EXCEPT ![c] = next] /\ UNCHANGED <<entries, leaf>>
        BY <2>5 DEF BeginMove
      <3>4. op \in [Callers -> Operations] BY DEF RootInv, LogInv, TypeInv, TypeOK
      <3> HIDE DEF e, next
      <3> QED BY <2>b, <3>2, <3>3, <3>4
    <2>6. ASSUME NEW c \in Callers, NEW how, FailWrite(c, how) PROVE RootInv'
      <3>1. op' = [op EXCEPT ![c] = Idle] /\ UNCHANGED <<entries, leaf>>
        BY <2>6 DEF FailWrite
      <3>2. op \in [Callers -> Operations] BY DEF RootInv, LogInv, TypeInv, TypeOK
      <3>3. \A d \in Callers : op'[d] = op[d] \/ op'[d] = Idle BY <3>1, <3>2
      <3> QED BY <2>b, <3>1, <3>3
    <2>7. ASSUME NEW c \in Callers, NEW id, op[c].pc = "written", Acknowledge(c, id)
          PROVE  RootInv'
      <3> DEFINE e == op[c].entry
      <3>1. /\ op[c] # Idle /\ \A d \in Callers \ {c} : op'[d] = op[d]
            /\ op'[c] = IF op[c].summary
                        THEN [pc |-> "begun", summary |-> FALSE,
                              entry |-> [type |-> "entry", id |-> id, parent |-> e.target]]
                        ELSE Idle
        BY <2>7, AcknowledgeOp DEF RootInv, LogInv
      <3>2. e \in IssuedEntries /\ (op[c].summary => e.type = "leaf")
        BY <3>1, BegunType DEF RootInv, LogInv
      <3>3. entries' = Append(entries, e) /\ leaf' = LeafAfterEntry(e)
        BY <2>7 DEF Acknowledge
      <3>4. Placed(e, entries) BY <3>1 DEF RootInv
      <3>5. Rooted(entries') BY <1>2, <3>2, <3>3, <3>4, RootedAppend DEF RootInv
      <3>6. KnownIds(entries') = KnownIds(entries) \cup {e.id}
        BY <1>2, <3>2, <3>3, KnownAppend
      <3>7. e.id \in KnownIds(L)
        <4>1. InLog(e) BY <2>7 DEF RootInv, LogInv
        <4> QED BY <4>1 DEF InLog, KnownIds, L
      <3>8. leaf' \in Nodes(entries')
        BY <3>3, <3>4, <3>6 DEF LeafAfterEntry, Placed, Nodes
      <3>9. Begun'
        <4>1. ASSUME NEW d \in Callers, op'[d] # Idle PROVE Placed(op'[d].entry, entries')
          <5>1. CASE d # c
            <6>1. op'[d] = op[d] BY <3>1, <5>1
            <6>2. Placed(op[d].entry, entries) BY <4>1, <6>1 DEF RootInv
            <6> QED BY <3>6, <6>1, <6>2, PlacedGrows
          <5>2. CASE d = c
            <6>1. op[c].summary BY <3>1, <4>1, <5>2
            <6>2. e.type = "leaf" /\ e.target \in Nodes(entries)
              BY <3>2, <3>4, <6>1 DEF Placed
            <6>3. op'[d].entry = [type |-> "entry", id |-> id, parent |-> e.target]
              BY <3>1, <5>2, <6>1
            <6>4. op'[d].entry.type = "entry" /\ op'[d].entry.parent \in Nodes(entries')
              BY <3>6, <6>2, <6>3 DEF Nodes
            <6> QED BY <6>4 DEF Placed
          <5> QED BY <5>1, <5>2
        <4> QED BY <4>1
      <3>10. Rooted(L') /\ KnownIds(entries') \subseteq KnownIds(L')
        BY <2>1, <3>6, <3>7 DEF RootInv, L
      <3> QED BY <1>1, <3>5, <3>8, <3>9, <3>10 DEF RootInv, L
    <2>8. CASE Crash BY <2>8, <2>c DEF Crash
    <2>9. ASSUME LoadClean \/ LoadSalvaged PROVE RootInv'
      <3>1. \A c \in Callers : op'[c] = Idle
        BY <2>9 DEF LoadClean, LoadSalvaged, RootInv, LogInv, TypeInv, TypeOK
      <3> QED BY <2>9, <2>d, <3>1 DEF LoadClean, LoadSalvaged, L
    <2>10. CASE Repair BY <2>10, <2>b DEF Repair
    <2>11. CASE BreakRepair
      <3>1. \A c \in Callers : op'[c] = Idle
        BY <2>11 DEF BreakRepair, RootInv, LogInv, TypeInv, TypeOK
      <3> QED BY <2>11, <2>c, <3>1 DEF BreakRepair
    <2>12. CASE LoadFails BY <2>12, <2>b DEF LoadFails
    <2>13. CASE UNCHANGED vars BY <2>13, <2>b DEF vars
    <2> QED BY <1>4, <2>2, <2>3, <2>4, <2>5, <2>6, <2>7, <2>8, <2>9, <2>10, <2>11, <2>12,
               <2>13 DEF Next
  <1> QED BY <1>3, <1>4

(* getPathToRoot never meets a missing parent or a cycle: in memory and in  *)
(* the file, parents and targets come before the entries that name them,    *)
(* whatever the order in which concurrent appends reach the file.           *)
THEOREM SessionParentsPrecede == ASSUME CleanCuts PROVE Spec => []ParentsPrecede
  <1>1. RootInv /\ [Next]_vars => RootInv' BY NextRoot
  <1>2. RootInv => ParentsPrecede BY DEF RootInv, ParentsPrecede
  <1> QED BY InitRoot, <1>1, <1>2, PTL DEF Spec

-----------------------------------------------------------------------------
(* getPathToRoot: the path function exists, and a path is the parent's path *)
(* and the entry itself.                                                    *)

LEMMA Induct ==
    ASSUME NEW S \in SUBSET Nat, 0 \in S, \A n \in S : n + 1 \in S
    PROVE  S = Nat
  <1>1. SUFFICES ASSUME Nat \ S # {} PROVE FALSE OBVIOUS
  <1>2. PICK m \in Nat \ S : \A n \in Nat \ S : m <= n BY <1>1, Least
  <1>3. m # 0 /\ m - 1 \in Nat BY <1>2
  <1>4. m - 1 \in S BY <1>2, <1>3
  <1>5. (m - 1) + 1 = m BY <1>2
  <1> QED BY <1>4, <1>5, <1>2

LEMMA RecursionExists ==
    ASSUME NEW N \in Nat, NEW T, NEW a \in T, NEW F \in [1..N -> [T -> T]]
    PROVE  \E f \in [0..N -> T] : f[0] = a /\ \A n \in 1..N : f[n] = F[n][f[n - 1]]
  <1> DEFINE Recursive(f, m) == f[0] = a /\ \A n \in 1..m : f[n] = F[n][f[n - 1]]
             S == {m \in Nat : m <= N => \E f \in [0..m -> T] : Recursive(f, m)}
  <1>1. 0 \in S
    <2> DEFINE f == [x \in 0..0 |-> a]
    <2>1. f \in [0..0 -> T] /\ Recursive(f, 0) OBVIOUS
    <2> QED BY <2>1
  <1>2. ASSUME NEW m \in S PROVE m + 1 \in S
    <2>1. SUFFICES ASSUME m + 1 <= N PROVE \E g \in [0..(m + 1) -> T] : Recursive(g, m + 1)
      OBVIOUS
    <2>2. PICK f \in [0..m -> T] : Recursive(f, m) BY <2>1
    <2> DEFINE last == F[m + 1][f[m]]
               g == [x \in 0..(m + 1) |-> IF x = m + 1 THEN last ELSE f[x]]
    <2>3. m \in Nat /\ m \in 0..m /\ m + 1 \in 1..N BY <2>1
    <2>4. F[m + 1] \in [T -> T] /\ f[m] \in T BY <2>2, <2>3
    <2>5. last \in T BY <2>4
    <2> HIDE DEF last
    <2>6. g \in [0..(m + 1) -> T] BY <2>2, <2>3, <2>5
    <2>7. g[0] = a BY <2>2, <2>3
    <2>8. ASSUME NEW n \in 1..(m + 1) PROVE g[n] = F[n][g[n - 1]]
      <3>1. n - 1 \in 0..(m + 1) /\ n - 1 # m + 1 /\ n \in 0..(m + 1) BY <2>3
      <3>2. g[n - 1] = f[n - 1] BY <3>1
      <3>3. CASE n = m + 1 
        <4>1. n - 1 = m BY <2>3, <3>3
        <4>2. g[n] = last BY <3>1, <3>3
        <4> HIDE DEF g
        <4> QED BY <3>2, <3>3, <4>1, <4>2 DEF last
      <3>4. CASE n # m + 1
        <4>1. n \in 1..m /\ g[n] = f[n] BY <2>3, <3>1, <3>4
        <4> HIDE DEF g
        <4> QED BY <2>2, <3>2, <4>1
      <3> QED BY <3>3, <3>4
    <2> HIDE DEF g
    <2> QED BY <2>6, <2>7, <2>8
  <1>3. S = Nat
    <2>1. S \in SUBSET Nat OBVIOUS
    <2> HIDE DEF S
    <2> QED BY <1>1, <1>2, <2>1, Induct
  <1>4. N \in S /\ N <= N BY <1>3
  <1> QED BY <1>4

Distinct(es) == \A i, j \in 1..Len(es) : es[i].id = es[j].id => i = j

(* A file's or a memory's entries, as a tree under the null leaf. *)
Tree(es) == Rooted(es) /\ Distinct(es) /\ Root \notin KnownIds(es)

IndexOf(es, x) == CHOOSE i \in 1..Len(es) : es[i].id = x

PathStep(es, g, x) == IF x = Root THEN <<>> ELSE Append(g[es[IndexOf(es, x)].parent], x)

IsPathFunction(es, path) ==
    path = [n \in 0..Len(es) |->
              [x \in KnownIds(es) \cup {Root} |->
                 IF x = Root \/ n = 0 THEN <<>>
                 ELSE Append(path[n - 1][es[IndexOf(es, x)].parent], x)]]

LEMMA IndexOfId ==
    ASSUME NEW es, Distinct(es), NEW i \in 1..Len(es)
    PROVE  es[i].id \in KnownIds(es) /\ IndexOf(es, es[i].id) = i
  <1>1. es[i].id \in KnownIds(es) BY DEF KnownIds
  <1>2. IndexOf(es, es[i].id) \in 1..Len(es) /\ es[IndexOf(es, es[i].id)].id = es[i].id
    BY DEF IndexOf
  <1> QED BY <1>1, <1>2 DEF Distinct

(* A parent is the root or the id of an earlier entry. *)
LEMMA ParentOf ==
    ASSUME NEW es, Rooted(es), NEW i \in 1..Len(es)
    PROVE  es[i].parent = Root \/ \E j \in 1..(i - 1) : es[i].parent = es[j].id
  BY DEF Rooted

LEMMA ParentKnown ==
    ASSUME NEW S, NEW es \in Seq(S), Rooted(es), NEW i \in 1..Len(es)
    PROVE  es[i].parent \in KnownIds(es) \cup {Root}
  <1>1. Len(es) \in Nat BY LenProperties
  <1>2. \A j \in 1..(i - 1) : j \in 1..Len(es) BY <1>1
  <1> QED BY <1>2, ParentOf DEF KnownIds

LEMMA PathFunctionExists ==
    ASSUME NEW S, NEW es \in Seq(S), Tree(es)
    PROVE  \E path : IsPathFunction(es, path)
  <1> DEFINE N == Len(es)
             K == KnownIds(es) \cup {Root}
             T == [K -> Seq(K)]
             a == [x \in K |-> <<>>]
             F == [n \in 1..N |-> [g \in T |-> [x \in K |-> PathStep(es, g, x)]]]
  <1>1. N \in Nat BY LenProperties
  <1>2. a \in T BY EmptySeq
  <1>3. ASSUME NEW g \in T, NEW x \in K PROVE PathStep(es, g, x) \in Seq(K)
    <2>1. CASE x = Root BY <2>1, EmptySeq DEF PathStep
    <2>2. CASE x # Root
      <3>1. PICK i \in 1..Len(es) : es[i].id = x BY <2>2 DEF KnownIds
      <3>2. IndexOf(es, x) = i BY <3>1, IndexOfId DEF Tree
      <3>3. es[i].parent \in K BY <3>1, ParentKnown DEF Tree
      <3> HIDE DEF K
      <3>4. g[es[i].parent] \in Seq(K) BY <3>3
      <3>5. Append(g[es[i].parent], x) \in Seq(K) BY <3>4, AppendProperties
      <3> QED BY <2>2, <3>2, <3>5 DEF PathStep
    <2> QED BY <2>1, <2>2
  <1>4. F \in [1..N -> [T -> T]]
    <2>1. ASSUME NEW g \in T PROVE [x \in K |-> PathStep(es, g, x)] \in T
      <3> HIDE DEF K
      <3> QED BY <1>3, <2>1
    <2> HIDE DEF T
    <2> QED BY <2>1
  <1> HIDE DEF T, a, F, N
  <1>5. PICK f \in [0..N -> T] : f[0] = a /\ \A n \in 1..N : f[n] = F[n][f[n - 1]]
    <2> HIDE DEF K
    <2>1. \E f \in [0..N -> T] : f[0] = a /\ \A n \in 1..N : f[n] = F[n][f[n - 1]]
      BY <1>1, <1>2, <1>4, RecursionExists, SMTT(60)
    <2> QED BY <2>1
  <1>6. ASSUME NEW n \in 0..N
        PROVE  f[n] = [x \in K |-> IF x = Root \/ n = 0 THEN <<>>
                                   ELSE Append(f[n - 1][es[IndexOf(es, x)].parent], x)]
    <2>1. CASE n = 0 BY <1>5, <2>1 DEF a
    <2>2. CASE n # 0
      <3>1. n \in 1..N /\ n - 1 \in 0..N BY <1>1, <2>2
      <3>2. f[n - 1] \in T BY <1>5, <3>1
      <3>3. f[n] = [x \in K |-> PathStep(es, f[n - 1], x)] BY <1>5, <3>1, <3>2 DEF F
      <3> QED BY <2>2, <3>3 DEF PathStep
    <2> QED BY <2>1, <2>2
  <1>7. f = [n \in 0..N |-> [x \in K |->
               IF x = Root \/ n = 0 THEN <<>>
               ELSE Append(f[n - 1][es[IndexOf(es, x)].parent], x)]]
    BY <1>5, <1>6
  <1> QED BY <1>7 DEF IsPathFunction, N

LEMMA PathToFunction ==
    ASSUME NEW S, NEW es \in Seq(S), Tree(es)
    PROVE  \E path : /\ IsPathFunction(es, path)
                     /\ \A x : PathTo(es, x) = path[Len(es)][x]
  <1> DEFINE path == CHOOSE f : IsPathFunction(es, f)
  <1>1. IsPathFunction(es, path) BY PathFunctionExists
  <1>2. \A x : PathTo(es, x) = path[Len(es)][x] BY DEF PathTo, IsPathFunction, IndexOf
  <1> HIDE DEF path
  <1> QED BY <1>1, <1>2

(* The path of the null leaf is empty; an entry's path is its parent's and  *)
(* the entry: the bound on the recursion, the number of entries, suffices   *)
(* because an entry's ancestors come before it.                             *)
LEMMA PathToParent ==
    ASSUME NEW S, NEW es \in Seq(S), Tree(es)
    PROVE  /\ PathTo(es, Root) = <<>>
           /\ \A i \in 1..Len(es) :
                 PathTo(es, es[i].id) = Append(PathTo(es, es[i].parent), es[i].id)
  <1> DEFINE N == Len(es)
             Settled(i, path) == \A n \in i..N : path[n][es[i].id] = path[N][es[i].id]
  <1>1. N \in Nat BY LenProperties
  <1>2. PICK path : IsPathFunction(es, path) /\ \A x : PathTo(es, x) = path[N][x]
    BY PathToFunction
  <1>3. \A n \in 0..N : path[n][Root] = <<>> BY <1>2 DEF IsPathFunction
  <1>4. ASSUME NEW i \in 1..N, NEW n \in 1..N
        PROVE  path[n][es[i].id] = Append(path[n - 1][es[i].parent], es[i].id)
    <2>1. es[i].id \in KnownIds(es) /\ IndexOf(es, es[i].id) = i
      BY IndexOfId DEF Tree
    <2>2. es[i].id # Root BY <2>1 DEF Tree
    <2>3. n \in 0..N /\ n # 0 BY <1>1
    <2>4. path[n] = [x \in KnownIds(es) \cup {Root} |->
                       IF x = Root \/ n = 0 THEN <<>>
                       ELSE Append(path[n - 1][es[IndexOf(es, x)].parent], x)]
      BY <1>2, <2>3 DEF IsPathFunction
    <2> QED BY <2>1, <2>2, <2>3, <2>4
  <1> HIDE DEF N
  (* n steps suffice for the parent when n + 1 do for the entry. *)
  <1>5. ASSUME NEW i \in 1..N, \A j \in 1..(i - 1) : Settled(j, path), NEW n \in i..N
        PROVE  path[n - 1][es[i].parent] = path[N][es[i].parent]
    <2>1. n - 1 \in 0..N /\ N \in 0..N BY <1>1
    <2>2. CASE es[i].parent = Root BY <1>3, <2>1, <2>2
    <2>3. ASSUME NEW j \in 1..(i - 1), es[i].parent = es[j].id
          PROVE  path[n - 1][es[i].parent] = path[N][es[i].parent]
      <3>1. n - 1 \in j..N BY <1>1
      <3> QED BY <1>5, <2>3, <3>1
    <2>4. Rooted(es) /\ i \in 1..Len(es) BY DEF Tree, N
    <2> QED BY <2>2, <2>3, <2>4, ParentOf
  <1>6. \A i \in 1..N : Settled(i, path)
    <2> DEFINE Open == {i \in 1..N : ~ Settled(i, path)}
    <2>1. SUFFICES ASSUME Open # {} PROVE FALSE OBVIOUS
    <2>2. PICK i \in Open : \A j \in Open : i <= j
      <3>1. Open \in SUBSET Nat BY <1>1
      <3> HIDE DEF Open
      <3> QED BY <2>1, <3>1, Least
    <2>3. i \in 1..N /\ ~ Settled(i, path) OBVIOUS
    <2>4. \A j \in 1..(i - 1) : Settled(j, path)
      <3>1. TAKE j \in 1..(i - 1)
      <3>2. j \in 1..N /\ ~ (i <= j) BY <1>1, <2>3
      <3> QED BY <2>2, <3>2
    <2>5. PICK n \in i..N : path[n][es[i].id] # path[N][es[i].id] BY <2>3
    <2>6. n \in 1..N /\ N \in i..N /\ N \in 1..N BY <1>1, <2>3
    <2> HIDE DEF Open, Settled
    <2>7. path[n - 1][es[i].parent] = path[N][es[i].parent]
          /\ path[N - 1][es[i].parent] = path[N][es[i].parent]
      BY <1>5, <2>3, <2>4, <2>6
    <2>8. path[n][es[i].id] = path[N][es[i].id]
      <3>1. path[n][es[i].id] = Append(path[n - 1][es[i].parent], es[i].id)
        BY <1>4, <2>3, <2>6
      <3>2. path[N][es[i].id] = Append(path[N - 1][es[i].parent], es[i].id)
        BY <1>4, <2>3, <2>6
      <3> QED BY <2>7, <3>1, <3>2
    <2> QED BY <2>5, <2>8
  <1>7. ASSUME NEW i \in 1..N
        PROVE  PathTo(es, es[i].id) = Append(PathTo(es, es[i].parent), es[i].id)
    <2>1. N \in i..N /\ N \in 1..N BY <1>1
    <2>2. \A j \in 1..(i - 1) : Settled(j, path)
      <3>1. TAKE j \in 1..(i - 1)
      <3>2. j \in 1..N BY <1>1
      <3> QED BY <1>6, <3>2
    <2> HIDE DEF Settled
    <2>3. path[N - 1][es[i].parent] = path[N][es[i].parent] BY <1>5, <2>1, <2>2
    <2>4. path[N][es[i].id] = Append(path[N - 1][es[i].parent], es[i].id) BY <1>4, <2>1
    <2> QED BY <1>2, <2>3, <2>4
  <1>8. N \in 0..N BY <1>1
  <1> QED BY <1>2, <1>3, <1>7, <1>8 DEF N

(* A new entry is added to a tree: every known path stays as it was. *)
LEMMA TreeAppend ==
    ASSUME NEW S, NEW es \in Seq(S), NEW e \in S, Tree(es), Placed(e, es),
           e.id \notin KnownIds(es), e.id # Root
    PROVE  Tree(Append(es, e))
  <1> DEFINE new == Append(es, e)
  <1>1. /\ Len(es) \in Nat /\ Len(new) = Len(es) + 1 /\ new[Len(es) + 1] = e
        /\ \A i \in 1..Len(es) : new[i] = es[i]
    BY AppendProperties, LenProperties
  <1>2. Rooted(new) BY RootedAppend DEF Tree
  <1>3. KnownIds(new) = KnownIds(es) \cup {e.id} BY KnownAppend
  <1> HIDE DEF new
  <1>4. ASSUME NEW i \in 1..Len(new), NEW j \in 1..Len(new), new[i].id = new[j].id
        PROVE  i = j
    <2>1. \A k \in 1..Len(es) : new[k].id \in KnownIds(es) BY <1>1 DEF KnownIds
    <2>2. CASE i = Len(es) + 1 \/ j = Len(es) + 1 BY <1>1, <1>4, <2>1, <2>2
    <2>3. CASE i \in 1..Len(es) /\ j \in 1..Len(es) BY <1>1, <1>4, <2>3 DEF Tree, Distinct
    <2> QED BY <1>1, <2>2, <2>3
  <1> QED BY <1>2, <1>3, <1>4 DEF Tree, Distinct, new

LEMMA PathToAppend ==
    ASSUME NEW S, NEW es \in Seq(S), NEW e \in S, Tree(es), Placed(e, es),
           e.id \notin KnownIds(es), e.id # Root
    PROVE  LET new == Append(es, e) IN
           /\ \A x \in Nodes(es) : PathTo(new, x) = PathTo(es, x)
           /\ PathTo(new, e.id) = Append(PathTo(es, e.parent), e.id)
  <1> DEFINE new == Append(es, e)
             Moved == {i \in 1..Len(es) : PathTo(new, es[i].id) # PathTo(es, es[i].id)}
  <1>1. /\ Len(es) \in Nat /\ Len(new) = Len(es) + 1 /\ new[Len(es) + 1] = e
        /\ new \in Seq(S) /\ \A i \in 1..Len(es) : new[i] = es[i]
    BY AppendProperties, LenProperties
  <1>2. Tree(new) BY TreeAppend
  <1> HIDE DEF new
  <1>3. PathTo(new, Root) = <<>> /\ PathTo(es, Root) = <<>> BY <1>1, <1>2, PathToParent
  <1>4. ASSUME NEW i \in 1..Len(es)
        PROVE  /\ PathTo(es, es[i].id) = Append(PathTo(es, es[i].parent), es[i].id)
               /\ PathTo(new, es[i].id) = Append(PathTo(new, es[i].parent), es[i].id)
    <2>1. i \in 1..Len(new) /\ new[i] = es[i] BY <1>1
    <2>2. PathTo(new, new[i].id) = Append(PathTo(new, new[i].parent), new[i].id)
      BY <1>1, <1>2, <2>1, PathToParent
    <2> QED BY <2>1, <2>2, PathToParent
  <1>5. Moved = {}
    <2>1. SUFFICES ASSUME Moved # {} PROVE FALSE OBVIOUS
    <2>2. PICK i \in Moved : \A j \in Moved : i <= j
      <3>1. Moved \in SUBSET Nat BY <1>1
      <3> HIDE DEF Moved
      <3> QED BY <2>1, <3>1, Least
    <2>3. i \in 1..Len(es) OBVIOUS
    <2>4. PathTo(new, es[i].parent) = PathTo(es, es[i].parent)
      <3>1. CASE es[i].parent = Root BY <1>3, <3>1
      <3>2. ASSUME NEW j \in 1..(i - 1), es[i].parent = es[j].id
            PROVE  PathTo(new, es[i].parent) = PathTo(es, es[i].parent)
        <4>1. j \in 1..Len(es) /\ ~ (i <= j) BY <1>1, <2>3
        <4> QED BY <2>2, <3>2, <4>1
      <3> QED BY <2>3, <3>1, <3>2, ParentOf DEF Tree
    <2>5. PathTo(new, es[i].id) # PathTo(es, es[i].id) BY <2>2
    <2> QED BY <1>4, <2>3, <2>4, <2>5
  <1>6. ASSUME NEW x \in Nodes(es) PROVE PathTo(new, x) = PathTo(es, x)
    <2>1. CASE x = Root BY <1>3, <2>1
    <2>2. CASE x # Root
      <3>1. PICK i \in 1..Len(es) : es[i].id = x BY <2>2 DEF Nodes, KnownIds
      <3> QED BY <1>5, <3>1
    <2> QED BY <2>1, <2>2
  <1>7. PathTo(new, e.id) = Append(PathTo(es, e.parent), e.id)
    <2>1. Len(es) + 1 \in 1..Len(new) BY <1>1
    <2>2. PathTo(new, e.id) = Append(PathTo(new, e.parent), e.id)
      BY <1>1, <1>2, <2>1, PathToParent
    <2> QED BY <1>6, <2>2 DEF Placed
  <1> QED BY <1>6, <1>7 DEF new

LEMMA PathToEmpty == PathTo(<<>>, Root) = <<>> /\ Tree(<<>>)
  <1>1. Tree(<<>>) BY KnownEmpty DEF Tree, Distinct
  <1>2. <<>> \in Seq({}) BY EmptySeq
  <1> QED BY <1>1, <1>2, PathToParent

-----------------------------------------------------------------------------
(* The active branch. *)

(* While operations do not overlap, memory is the file's log but for the    *)
(* one entry that is written and not acknowledged, an operation's parent is *)
(* the leaf, and the recorded branch and paths are those of the log.        *)
BranchInv ==
    LET L == Parsed(disk) IN
    /\ RootInv
    /\ overlap \in BOOLEAN
    /\ ~ overlap =>
         /\ Tree(L)
         /\ \A c, d \in Callers : op[c] # Idle /\ op[d] # Idle => c = d
         /\ \A c \in Callers : op[c].pc = "begun" =>
               op[c].entry.parent = leaf /\ op[c].entry.id \notin KnownIds(L)
         /\ \A c \in Callers : op[c].pc = "written" => L = Append(entries, op[c].entry)
         /\ status \in {"open", "repairing"} /\ (\A c \in Callers : op[c].pc # "written") =>
               entries = L /\ leaf = LeafOf(L)
         /\ branch = PathTo(L, LeafOf(L))
         /\ paths = [x \in KnownIds(L) |-> PathTo(L, x)]

LEMMA LeafOfAppend ==
    ASSUME NEW S, NEW es \in Seq(S), NEW e \in S
    PROVE  LeafOf(Append(es, e)) = LeafAfterEntry(e)
  BY AppendProperties DEF LeafOf

LEMMA IssuedTree ==
    ASSUME NEW es \in Seq(IssuedEntries)
    PROVE  KnownIds(es) \subseteq issued /\ (issued \subseteq Ids => Root \notin KnownIds(es))
  <1>1. \A i \in 1..Len(es) : es[i] \in IssuedEntries BY ElementOfSeq
  <1>2. KnownIds(es) \subseteq issued BY <1>1 DEF KnownIds, IssuedEntries
  <1> QED BY <1>2, RootAssumption

(* What the write does to the branch. *)
LEMMA WriteBranch ==
    ASSUME BranchInv, ~ overlap, NEW c \in Callers, Write(c)
    PROVE  LET L == Parsed(disk)
               e == op[c].entry
           IN  /\ L' = Append(L, e) /\ entries = L /\ Tree(L')
               /\ branch' = PathTo(L', LeafOf(L'))
               /\ paths' = [x \in KnownIds(L') |-> PathTo(L', x)]
  <1> DEFINE L == Parsed(disk)
             e == op[c].entry
  <1>1. L \in Seq(IssuedEntries) /\ e \in IssuedEntries /\ L' = Append(L, e)
    BY WriteLog DEF BranchInv, RootInv
  <1> HIDE DEF L
  <1>2. op[c] # Idle /\ op[c].pc = "begun" /\ status = "open" BY DEF Write, Idle
  <1>3. \A d \in Callers : op[d].pc # "written"
    <2>1. TAKE d \in Callers
    <2>2. op[d] # Idle => d = c BY <1>2 DEF BranchInv
    <2> QED BY <1>2, <2>2 DEF Idle
  <1>4. entries = L /\ leaf = LeafOf(L) BY <1>2, <1>3 DEF BranchInv, L
  <1>5. e.parent = leaf /\ e.id \notin KnownIds(L) BY <1>2 DEF BranchInv, L
  <1>6. Placed(e, L) BY <1>2, <1>4 DEF BranchInv, RootInv
  <1>7. e.id # Root /\ e.type \in {"entry", "leaf"}
    BY <1>1, RootAssumption DEF IssuedEntries, EntrySet
  <1>8. Tree(L) /\ branch = PathTo(L, LeafOf(L))
        /\ paths = [x \in KnownIds(L) |-> PathTo(L, x)]
    BY DEF BranchInv, L
  <1>9. /\ \A x \in Nodes(L) : PathTo(L', x) = PathTo(L, x)
        /\ PathTo(L', e.id) = Append(PathTo(L, e.parent), e.id)
    BY <1>1, <1>5, <1>6, <1>7, <1>8, PathToAppend
  <1>10. Tree(L') BY <1>1, <1>5, <1>6, <1>7, <1>8, TreeAppend
  <1>11. KnownIds(L') = KnownIds(L) \cup {e.id} BY <1>1, KnownAppend
  <1>12. LeafOf(L') = LeafAfterEntry(e) BY <1>1, LeafOfAppend
  <1>13. PathTo(L', e.id) = Append(branch, e.id) BY <1>4, <1>5, <1>8, <1>9
  <1>14. Record(e) BY DEF Write
  <1>15. branch' = PathTo(L', LeafOf(L'))
    <2>1. CASE e.type # "leaf"
      BY <1>12, <1>13, <1>14, <2>1 DEF Record, BranchAfter, LeafAfterEntry
    <2>2. CASE e.type = "leaf"
      <3>1. e.target \in Nodes(L) BY <1>6, <2>2 DEF Placed
      <3>2. LeafOf(L') = e.target BY <1>12, <2>2 DEF LeafAfterEntry
      <3>3. branch' = IF e.target \in KnownIds(L) THEN PathTo(L, e.target) ELSE <<>>
        BY <1>8, <1>14, <2>2 DEF Record, BranchAfter
      <3>4. PathTo(L, Root) = <<>> BY <1>1, <1>8, PathToParent
      <3> QED BY <1>9, <3>1, <3>2, <3>3, <3>4 DEF Nodes
    <2> QED BY <2>1, <2>2
  <1>16. paths' = [x \in KnownIds(L') |-> PathTo(L', x)]
    <2>1. paths' = [x \in KnownIds(L) \cup {e.id} |->
                      IF x = e.id THEN Append(branch, e.id) ELSE paths[x]]
      BY <1>8, <1>14 DEF Record
    <2>2. ASSUME NEW x \in KnownIds(L) \cup {e.id}
          PROVE  (IF x = e.id THEN Append(branch, e.id) ELSE paths[x]) = PathTo(L', x)
      BY <1>8, <1>9, <1>13 DEF Nodes
    <2> QED BY <1>11, <2>1, <2>2
  <1> QED BY <1>1, <1>4, <1>10, <1>15, <1>16 DEF L

LEMMA InitBranch == Init => BranchInv
  <1>1. SUFFICES ASSUME Init PROVE BranchInv OBVIOUS
  <1>2. Parsed(disk) = <<>> BY <1>1, ParsedEmpty DEF Init
  <1>3. RootInv BY <1>1, InitRoot
  <1>4. \A c \in Callers : op[c] = Idle BY <1>1 DEF Init
  <1>5. LeafOf(<<>>) = Root BY DEF LeafOf
  <1>6. paths = [x \in KnownIds(<<>>) |-> PathTo(<<>>, x)]
    <2>1. paths = <<>> BY <1>1 DEF Init
    <2> QED BY <2>1, KnownEmpty
  <1> QED BY <1>1, <1>2, <1>3, <1>4, <1>5, <1>6, PathToEmpty DEF BranchInv, Init, Idle

LEMMA NextBranch ==
    ASSUME CleanCuts, BranchInv, [Next]_vars PROVE BranchInv'
  <1> USE DEF memory, record, history
  <1> DEFINE L == Parsed(disk)
             Alone == \A c, d \in Callers : op[c] # Idle /\ op[d] # Idle => c = d
             Begun == \A c \in Callers : op[c].pc = "begun" =>
                         op[c].entry.parent = leaf /\ op[c].entry.id \notin KnownIds(L)
             Written == \A c \in Callers : op[c].pc = "written" =>
                           L = Append(entries, op[c].entry)
             Memory == status \in {"open", "repairing"}
                       /\ (\A c \in Callers : op[c].pc # "written") =>
                          entries = L /\ leaf = LeafOf(L)
             Branch == Tree(L) /\ branch = PathTo(L, LeafOf(L))
                       /\ paths = [x \in KnownIds(L) |-> PathTo(L, x)]
  <1>1. RootInv' BY NextRoot DEF BranchInv
  <1>2. overlap' \in BOOLEAN /\ (overlap => overlap')
    BY DEF BranchInv, Next, vars, Create, CrashInCreate, BeginAppend, BeginMove, Note,
           Acknowledge, Write, FailWrite, Crash, LoadClean, LoadSalvaged, Repair,
           BreakRepair, LoadFails
  <1>3. SUFFICES ASSUME ~ overlap' PROVE Alone' /\ Begun' /\ Written' /\ Memory' /\ Branch'
    BY <1>1, <1>2 DEF BranchInv
  <1>4. ~ overlap BY <1>2, <1>3
  <1>5. Alone /\ Begun /\ Written /\ Memory /\ Branch BY <1>4 DEF BranchInv
  <1>6. /\ L \in Seq(IssuedEntries) /\ entries \in Seq(IssuedEntries)
        /\ op \in [Callers -> Operations] /\ issued \subseteq Ids
    BY LogTypes DEF BranchInv, RootInv, LogInv, TypeInv, TypeOK
  <1>7. \A c \in Callers : op[c] # Idle => op[c].pc \in {"begun", "written"}
    BY <1>6 DEF Operations
  <1>8. ASSUME status # "open", NEW c \in Callers PROVE op[c] = Idle
    BY <1>8 DEF BranchInv, RootInv, LogInv, TypeInv, TypeOK
  <1> HIDE DEF L
  <1>9. CASE \E c \in Callers : Write(c)
    <2>1. PICK c \in Callers : Write(c) BY <1>9
    <2>2. L' = Append(L, op[c].entry) /\ entries = L /\ Branch'
      BY <1>4, <2>1, WriteBranch DEF L
    <2>3. /\ op[c] # Idle /\ op'[c] # Idle /\ op'[c].pc = "written"
          /\ op'[c].entry = op[c].entry /\ \A d \in Callers \ {c} : op'[d] = op[d]
      BY <2>1, WriteOp DEF BranchInv, RootInv, LogInv
    <2>4. \A d \in Callers \ {c} : op'[d] = Idle BY <1>5, <2>3
    <2>5. UNCHANGED entries BY <2>1 DEF Write
    <2> QED BY <2>2, <2>3, <2>4, <2>5 DEF Idle
  <1>10. CASE \A c \in Callers : ~ Write(c)
    <2>1. L' = L BY <1>10, OtherLog DEF BranchInv, RootInv, L
    <2>2. ASSUME UNCHANGED <<branch, paths>> PROVE Branch' BY <1>5, <2>1, <2>2
    <2>3. ASSUME \A c \in Callers : op'[c] = Idle PROVE Alone' /\ Begun' /\ Written'
      BY <2>3 DEF Idle
    <2>a. ASSUME UNCHANGED <<entries, leaf, op, branch, paths>>, 
                 status' \in {"open", "repairing"} => status \in {"open", "repairing"}
          PROVE  Alone' /\ Begun' /\ Written' /\ Memory' /\ Branch'
      <3>1. Branch' BY <2>2, <2>a
      <3>2. Alone' /\ Begun' /\ Written' BY <1>5, <2>1, <2>a
      <3>3. Memory' BY <1>5, <2>1, <2>a
      <3> QED BY <3>1, <3>2, <3>3
    (* A new operation finds the store idle and memory equal to the log. *)
    <2>b. ASSUME NEW c \in Callers, NEW id \in Ids \ issued, NEW next,
                 status = "open", op[c].pc = "idle", Note(c), op' = [op EXCEPT ![c] = next],
                 next.pc = "begun", next.entry.parent = leaf, next.entry.id = id,
                 UNCHANGED <<status, memory, branch, paths>>
          PROVE  Alone' /\ Begun' /\ Written' /\ Memory' /\ Branch'
      <3>1. \A d \in Callers \ {c} : op[d] = Idle BY <1>3, <1>4, <2>b DEF Note
      <3>2. \A d \in Callers : op[d].pc # "written" BY <2>b, <3>1 DEF Idle
      <3>3. entries = L /\ leaf = LeafOf(L) BY <1>5, <2>b, <3>2
      <3>4. op'[c] = next /\ \A d \in Callers \ {c} : op'[d] = Idle
        BY <1>6, <2>b, <3>1
      <3>5. id \notin KnownIds(L) BY <1>6, IssuedTree
      <3>6. Alone' BY <3>4
      <3>7. Begun' BY <2>1, <2>b, <3>4, <3>5 DEF Idle
      <3>8. Written' BY <2>b, <3>4 DEF Idle
      <3>9. Memory' BY <2>1, <2>b, <3>3
      <3> QED BY <2>2, <2>b, <3>6, <3>7, <3>8, <3>9
    <2>4. CASE Create
      <3>1. \A c \in Callers : op'[c] = Idle BY <1>8, <2>4 DEF Create
      <3>2. UNCHANGED <<entries, leaf, branch, paths>> BY <2>4 DEF Create
      <3>3. L = <<>> BY <2>4, ParsedEmpty DEF Create, L, BranchInv, RootInv, LogInv, DiskInv
      <3>4. KnownIds(entries) = {}
        BY <3>3, KnownEmpty DEF BranchInv, RootInv, L
      <3>5. entries = <<>>
        <4>1. Len(entries) \in Nat /\ (entries # <<>> => Len(entries) # 0)
          BY <1>6, EmptySeq, LenProperties
        <4>2. Len(entries) # 0 => 1 \in 1..Len(entries) BY <4>1
        <4> QED BY <3>4, <4>1, <4>2 DEF KnownIds
      <3>6. leaf = Root BY <3>4 DEF BranchInv, RootInv, Nodes
      <3>7. Memory' BY <2>1, <3>2, <3>3, <3>5, <3>6 DEF LeafOf
      <3> QED BY <2>2, <2>3, <3>1, <3>2, <3>7
    <2>5. ASSUME NEW how, CrashInCreate(how)
          PROVE  Alone' /\ Begun' /\ Written' /\ Memory' /\ Branch'
      BY <2>5, <2>a DEF CrashInCreate
    <2>6. ASSUME NEW c \in Callers, NEW id \in Ids \ issued, BeginAppend(c, id)
          PROVE  Alone' /\ Begun' /\ Written' /\ Memory' /\ Branch'
      <3> DEFINE next == [pc |-> "begun", summary |-> FALSE,
                          entry |-> [type |-> "entry", id |-> id, parent |-> leaf]]
      <3>1. next.pc = "begun" /\ next.entry.parent = leaf /\ next.entry.id = id OBVIOUS
      <3>2. /\ status = "open" /\ op[c].pc = "idle" /\ Note(c)
            /\ op' = [op EXCEPT ![c] = next] /\ UNCHANGED <<status, memory, branch, paths>>
        BY <2>6 DEF BeginAppend
      <3> HIDE DEF next
      <3> QED BY <2>b, <3>1, <3>2
    <2>7. ASSUME NEW c \in Callers, NEW id \in Ids \ issued, NEW target, NEW summary,
                 BeginMove(c, id, target, summary)
          PROVE  Alone' /\ Begun' /\ Written' /\ Memory' /\ Branch'
      <3> DEFINE next == [pc |-> "begun", summary |-> summary,
                          entry |-> [type |-> "leaf", id |-> id, parent |-> leaf,
                                     target |-> target]]
      <3>1. next.pc = "begun" /\ next.entry.parent = leaf /\ next.entry.id = id OBVIOUS
      <3>2. /\ status = "open" /\ op[c].pc = "idle" /\ Note(c)
            /\ op' = [op EXCEPT ![c] = next] /\ UNCHANGED <<status, memory, branch, paths>>
        BY <2>7 DEF BeginMove
      <3> HIDE DEF next
      <3> QED BY <2>b, <3>1, <3>2
    <2>8. ASSUME NEW c \in Callers, NEW how \in FailCuts, FailWrite(c, how)
          PROVE  Alone' /\ Begun' /\ Written' /\ Memory' /\ Branch'
      <3>1. how = "nothing" BY DEF CleanCuts
      <3>2. UNCHANGED <<branch, paths, status, entries, leaf>> /\ op[c].pc = "begun"
        BY <2>8, <3>1 DEF FailWrite, RecordCut
      <3>3. \A d \in Callers \ {c} : op[d] = Idle BY <1>5, <3>2 DEF Idle
      <3>4. op' = [op EXCEPT ![c] = Idle] BY <2>8 DEF FailWrite
      <3>5. \A d \in Callers : op'[d] = Idle BY <1>6, <3>3, <3>4
      <3>6. \A d \in Callers : op[d].pc # "written" BY <3>2, <3>3 DEF Idle
      <3>7. Memory' BY <1>5, <2>1, <3>2, <3>6
      <3> QED BY <2>2, <2>3, <3>2, <3>5, <3>7
    <2>9. ASSUME NEW c \in Callers, NEW id, op[c].pc = "written", Acknowledge(c, id),
                 op[c].summary => id \in Ids \ issued
          PROVE  Alone' /\ Begun' /\ Written' /\ Memory' /\ Branch'
      <3> DEFINE e == op[c].entry
      <3>1. /\ op[c] # Idle /\ \A d \in Callers \ {c} : op'[d] = op[d]
            /\ op'[c] = IF op[c].summary
                        THEN [pc |-> "begun", summary |-> FALSE,
                              entry |-> [type |-> "entry", id |-> id, parent |-> e.target]]
                        ELSE Idle
        BY <2>9, AcknowledgeOp DEF BranchInv, RootInv, LogInv
      <3>2. e \in IssuedEntries /\ (op[c].summary => e.type = "leaf")
            /\ op[c].summary \in BOOLEAN
        BY <3>1, BegunType DEF BranchInv, RootInv, LogInv
      <3>3. entries' = Append(entries, e) /\ leaf' = LeafAfterEntry(e)
            /\ UNCHANGED <<branch, paths>>
        BY <2>9 DEF Acknowledge
      <3>4. L = Append(entries, e) BY <1>5, <2>9
      <3>5. Memory' BY <1>6, <2>1, <3>2, <3>3, <3>4, LeafOfAppend
      <3>6. \A d \in Callers \ {c} : op'[d] = Idle BY <1>5, <3>1
      <3>7. CASE ~ op[c].summary
        <4>1. \A d \in Callers : op'[d] = Idle BY <3>1, <3>6, <3>7
        <4> QED BY <2>2, <2>3, <3>3, <3>5, <4>1
      <3>8. CASE op[c].summary
        <4>1. op'[c].pc = "begun" /\ op'[c].entry.parent = e.target /\ op'[c].entry.id = id
          BY <3>1, <3>8
        <4>2. leaf' = e.target BY <3>2, <3>3, <3>8 DEF LeafAfterEntry
        <4>3. id \notin KnownIds(L) BY <1>6, <2>9, <3>8, IssuedTree
        <4>4. Begun' BY <2>1, <3>6, <4>1, <4>2, <4>3 DEF Idle
        <4>5. Alone' BY <3>6
        <4>6. Written' BY <3>6, <4>1 DEF Idle
        <4> QED BY <2>2, <3>3, <3>5, <4>4, <4>5, <4>6
      <3> QED BY <3>2, <3>7, <3>8
    <2>10. CASE Crash
      <3>1. \A c \in Callers : op'[c] = Idle BY <2>10 DEF Crash
      <3>2. status' = "closed" BY <2>10 DEF Crash
      <3>3. UNCHANGED <<branch, paths>>
        <4>1. ASSUME NEW c \in Callers, NEW how \in CrashCuts, RecordCut(op[c].entry, how)
              PROVE  UNCHANGED <<branch, paths>>
          <5>1. how # "line" BY DEF CleanCuts
          <5> QED BY <4>1, <5>1 DEF RecordCut
        <4> QED BY <2>10, <4>1 DEF Crash
      <3> QED BY <2>2, <2>3, <3>1, <3>2, <3>3
    <2>11. ASSUME LoadClean \/ LoadSalvaged
           PROVE  Alone' /\ Begun' /\ Written' /\ Memory' /\ Branch'
      <3>1. \A c \in Callers : op'[c] = Idle BY <1>8, <2>11 DEF LoadClean, LoadSalvaged
      <3>2. entries' = L /\ leaf' = LeafOf(L) /\ UNCHANGED <<branch, paths>>
        BY <2>11 DEF LoadClean, LoadSalvaged, L
      <3> QED BY <2>1, <2>2, <2>3, <3>1, <3>2
    <2>12. CASE Repair BY <2>12, <2>a DEF Repair
    <2>13. CASE BreakRepair
      <3>1. \A c \in Callers : op'[c] = Idle BY <1>8, <2>13 DEF BreakRepair
      <3>2. status' = "closed" /\ UNCHANGED <<branch, paths>> BY <2>13 DEF BreakRepair
      <3> QED BY <2>2, <2>3, <3>1, <3>2
    <2>14. CASE LoadFails BY <2>14, <2>a DEF LoadFails
    <2>15. CASE UNCHANGED vars BY <2>15, <2>a DEF vars
    <2> QED BY <1>10, <2>4, <2>5, <2>6, <2>7, <2>8, <2>9, <2>10, <2>11, <2>12, <2>13, <2>14,
               <2>15 DEF Next
  <1> QED BY <1>9, <1>10

(* While no append or move begins during another, the leaf of an open       *)
(* store is the one a reopening would reconstruct, and its path to the root *)
(* is the branch that the durable operations built, in order: through       *)
(* moves, summaries, crashes, salvages and repairs, for any number of them. *)
THEOREM SessionActiveBranch == ASSUME CleanCuts PROVE Spec => []ActiveBranch
  <1>1. BranchInv /\ [Next]_vars => BranchInv' BY NextBranch
  <1>2. BranchInv => ActiveBranch
    <2>1. SUFFICES ASSUME BranchInv, ~ overlap, status = "open",
                          \A c \in Callers : op[c].pc # "written"
                   PROVE  leaf = LeafOf(Parsed(disk)) /\ PathTo(entries, leaf) = branch
      BY DEF ActiveBranch, BranchKept
    <2>2. entries = Parsed(disk) /\ leaf = LeafOf(Parsed(disk)) BY <2>1 DEF BranchInv
    <2>3. branch = PathTo(Parsed(disk), LeafOf(Parsed(disk))) BY <2>1 DEF BranchInv
    <2> QED BY <2>2, <2>3
  <1> QED BY InitBranch, <1>1, <1>2, PTL DEF Spec

-----------------------------------------------------------------------------
(* A session once created always opens again: after any crash, failed      *)
(* append or repair, open() finds a file that it loads or salvages.        *)
THEOREM SessionAlwaysLoadable == ASSUME CleanCuts PROVE Spec => []AlwaysLoadable
  <1>1. DiskInv /\ [Next]_vars => DiskInv' BY NextDisk
  <1>2. DiskInv => AlwaysLoadable BY DEF DiskInv, AlwaysLoadable
  <1> QED BY InitDisk, <1>1, <1>2, PTL DEF Spec

(* An open store's file is whole: a header, then one parseable entry per    *)
(* line and a final newline, so the next append starts a line of its own.   *)
THEOREM SessionWholeWhenOpen ==
    ASSUME CleanCuts PROVE Spec => [](status = "open" => Whole(disk))
  <1>1. DiskInv /\ [Next]_vars => DiskInv' BY NextDisk
  <1>2. DiskInv => (status = "open" => Whole(disk)) BY DEF DiskInv
  <1> QED BY InitDisk, <1>1, <1>2, PTL DEF Spec

=============================================================================
