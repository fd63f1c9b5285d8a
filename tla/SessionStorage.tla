--------------------------- MODULE SessionStorage ---------------------------
(***************************************************************************)
(* The JSONL session store: a header line, then one JSON line per entry,   *)
(* appended and never rewritten except to cut off a torn tail              *)
(* (packages/agent/src/harness/session/{jsonl-storage,session}.ts).        *)
(*                                                                         *)
(* The file is the sequence of lines that content.split("\n") returns, a   *)
(* line the sequence of the pieces written to it.  A file that ends in a   *)
(* newline therefore ends in an empty line, and an append continues the    *)
(* last line whatever it holds.                                            *)
(*                                                                         *)
(* An append is three steps, because the code awaits between them: the     *)
(* parent is read (Session.appendX), the line reaches the file, and the    *)
(* in-memory copy is updated when the write has been reported done.        *)
(* Several callers share one Session without a lock.                       *)
(***************************************************************************)
EXTENDS Integers, Sequences, FiniteSets

CONSTANTS
    Callers,        \* concurrent users of the Session
    Ids,            \* entry ids; uuidv7() never repeats one
    Root,           \* the null leaf
    CrashCuts,      \* what a crash leaves of an append: see Cut
    FailCuts,       \* what a failed append leaves, the process living on
    RepairTears     \* whether a crash can leave the repair half written

ASSUME RootAssumption == Root \notin Ids
ASSUME CutAssumption ==
    CrashCuts \cup FailCuts \subseteq {"nothing", "fragment", "line"}
ASSUME RepairAssumption == RepairTears \in BOOLEAN

VARIABLES
    disk,       \* the file's lines
    status,     \* "absent", "closed", "open", "repairing" or "failed"
    entries,    \* the in-memory copy of the entries, in order
    leaf,       \* currentLeafId
    op,         \* caller -> its operation in progress
    issued,     \* ids handed out by createEntryId and setLeafId
    created,    \* history: create() has returned
    acked,      \* history: entries whose append has been acknowledged
    branch,     \* history: the active branch, every durable operation applied
    paths,      \* history: entry id -> its branch when it became durable
    overlap     \* history: an operation has begun while another was in progress

memory == <<entries, leaf>>
record == <<created, acked, branch, paths>>
history == <<record, overlap>>
vars == <<disk, status, memory, op, issued, history>>

-----------------------------------------------------------------------------
(* Lines *)

Header == [kind |-> "header"]
Fragment == [kind |-> "fragment"]
Entry(e) == [kind |-> "entry", entry |-> e]

EmptyFile == << <<>> >>

(* appendFile of a piece, with or without the newline that follows it. *)
AddPiece(lines, piece) ==
    [lines EXCEPT ![Len(lines)] = Append(lines[Len(lines)], piece)]

AddLine(lines, piece) == Append(AddPiece(lines, piece), <<>>)

(* A write cut short left nothing, part of the JSON, or all of it but the  *)
(* newline.                                                                *)
Cut(lines, piece, how) ==
    CASE how = "nothing"  -> lines
      [] how = "fragment" -> AddPiece(lines, Fragment)
      [] how = "line"     -> AddPiece(lines, piece)

IsHeader(line) == Len(line) = 1 /\ line[1].kind = "header"

(* parseEntryLine: one whole JSON object on the line, and an entry. *)
IsEntry(line) == Len(line) = 1 /\ line[1].kind = "entry"

Content(lines) == {i \in 1..Len(lines) : lines[i] # <<>>}

FirstContent(lines) == CHOOSE i \in Content(lines) : \A j \in Content(lines) : i <= j

LastContent(lines) == CHOOSE i \in Content(lines) : \A j \in Content(lines) : i >= j

HasHeader(lines) == Content(lines) # {} /\ IsHeader(lines[FirstContent(lines)])

Bad(lines) ==
    {i \in Content(lines) : i > FirstContent(lines) /\ ~ IsEntry(lines[i])}

(* loadJsonlStorage: fails, loads everything, or drops the last line.      *)
Loads(lines) == HasHeader(lines) /\ Bad(lines) = {}
Salvages(lines) ==
    HasHeader(lines) /\ Bad(lines) = {LastContent(lines)}

(* The lines a load takes entries from: after the header, before the first *)
(* bad line, and not empty.                                                *)
EntryLines(lines) ==
    {i \in Content(lines) : i > FirstContent(lines) /\ \A j \in Bad(lines) : i < j}

(* The entries of those lines, in file order. *)
Parsed(lines) ==
    LET good == EntryLines(lines)
        nth(n) == CHOOSE i \in good : Cardinality({j \in good : j <= i}) = n
    IN  IF ~ HasHeader(lines) THEN <<>>
        ELSE [n \in 1..Cardinality(good) |-> lines[nth(n)][1].entry]

UnterminatedRepaired(lines) ==   \* mutant: no newline after the prefix
    SubSeq(lines, 1, LastContent(lines) - 1)

ShortRepaired(lines) ==   \* mutant: cuts off a healthy line too
    Append(SubSeq(lines, 1, LastContent(lines) - 2), <<>>)

(* repairedContent: every line before the torn one, and a newline. *)
Repaired(lines) == Append(SubSeq(lines, 1, LastContent(lines) - 1), <<>>)

-----------------------------------------------------------------------------
(* Entries *)

OwnIdAfterEntry(e) == e.id   \* mutant: a leaf entry becomes the leaf itself

LeafAfterEntry(e) == IF e.type = "leaf" THEN e.target ELSE e.id

LeafOf(es) == IF es = <<>> THEN Root ELSE LeafAfterEntry(es[Len(es)])

KnownIds(es) == {es[i].id : i \in 1..Len(es)}

(* getPathToRoot, for a store in which parents precede their children. *)
PathTo(es, id) ==
    LET at(x) == CHOOSE i \in 1..Len(es) : es[i].id = x
        path[n \in 0..Len(es)] ==
            [x \in KnownIds(es) \cup {Root} |->
                IF x = Root \/ n = 0 THEN <<>>
                ELSE Append(path[n - 1][es[at(x)].parent], x)]
    IN  path[Len(es)][id]

(* The branch after one more durable entry: what a leaf entry targets, or  *)
(* the current branch and the entry.                                       *)
BranchAfter(e) ==
    IF e.type # "leaf" THEN Append(branch, e.id)
    ELSE IF e.target \in DOMAIN paths THEN paths[e.target] ELSE <<>>

Record(e) ==
    /\ branch' = BranchAfter(e)
    /\ paths' = [x \in DOMAIN paths \cup {e.id} |->
                   IF x = e.id THEN Append(branch, e.id) ELSE paths[x]]

(* An append cut short counts as done when only its newline is missing. *)
RecordCut(e, how) ==
    IF how = "line" THEN Record(e) ELSE UNCHANGED <<branch, paths>>

Idle == [pc |-> "idle"]

Note(c) == overlap' = (overlap \/ \E d \in Callers \ {c} : op[d] # Idle)

-----------------------------------------------------------------------------

Init ==
    /\ disk = EmptyFile
    /\ status = "absent"
    /\ entries = <<>> /\ leaf = Root
    /\ op = [c \in Callers |-> Idle]
    /\ issued = {}
    /\ created = FALSE /\ acked = {} /\ branch = <<>> /\ paths = <<>>
    /\ overlap = FALSE

(* JsonlSessionStorage.create: the header line, then an empty store. *)
Create ==
    /\ status = "absent"
    /\ disk' = AddLine(EmptyFile, Header)
    /\ status' = "open"
    /\ created' = TRUE
    /\ UNCHANGED <<memory, op, issued, acked, branch, paths, overlap>>

(* The process dies while create() writes the header. *)
CrashInCreate(how) ==
    /\ status = "absent"
    /\ disk' = Cut(EmptyFile, Header, how)
    /\ status' = "closed"
    /\ UNCHANGED <<memory, op, issued, history>>

(* Session.appendMessage and its siblings, up to the call of appendEntry:  *)
(* the id, and the current leaf as parent.                                 *)
BeginAppend(c, id) ==
    /\ status = "open" /\ op[c].pc = "idle"
    /\ leaf = Root \/ leaf \in KnownIds(entries)
    /\ op' = [op EXCEPT ![c] =
                [pc |-> "begun", summary |-> FALSE,
                 entry |-> [type |-> "entry", id |-> id, parent |-> leaf]]]
    /\ issued' = issued \cup {id}
    /\ Note(c)
    /\ UNCHANGED <<disk, status, memory, record>>

UncheckedMove(c, id, target, summary) ==   \* mutant: no look-up of the target
    /\ status = "open" /\ op[c].pc = "idle"
    /\ op' = [op EXCEPT ![c] =
                [pc |-> "begun", summary |-> summary,
                 entry |-> [type |-> "leaf", id |-> id, parent |-> leaf,
                            target |-> target]]]
    /\ issued' = issued \cup {id}
    /\ Note(c)
    /\ UNCHANGED <<disk, status, memory, record>>

(* Session.moveTo: a leaf entry first; the summary, if any, comes after.   *)
BeginMove(c, id, target, summary) ==
    /\ status = "open" /\ op[c].pc = "idle"
    /\ target = Root \/ target \in KnownIds(entries)
    /\ op' = [op EXCEPT ![c] =
                [pc |-> "begun", summary |-> summary,
                 entry |-> [type |-> "leaf", id |-> id, parent |-> leaf,
                            target |-> target]]]
    /\ issued' = issued \cup {id}
    /\ Note(c)
    /\ UNCHANGED <<disk, status, memory, record>>

(* fs.appendFile: the line is in the file. *)
Write(c) ==
    /\ status = "open" /\ op[c].pc = "begun"
    /\ disk' = AddLine(disk, Entry(op[c].entry))
    /\ op' = [op EXCEPT ![c].pc = "written"]
    /\ Record(op[c].entry)
    /\ UNCHANGED <<status, memory, issued, created, acked, overlap>>

(* fs.appendFile reports an error: the append throws, memory is untouched, *)
(* and whatever part of the line was written stays in the file.            *)
FailWrite(c, how) ==
    /\ status = "open" /\ op[c].pc = "begun"
    /\ disk' = Cut(disk, Entry(op[c].entry), how)
    /\ RecordCut(op[c].entry, how)
    /\ op' = [op EXCEPT ![c] = Idle]
    /\ UNCHANGED <<status, memory, issued, created, acked, overlap>>

(* The rest of appendEntry or setLeafId, once the write is reported done;  *)
(* moveTo goes on to append its branch summary under the new leaf.         *)
Acknowledge(c, id) ==
    LET e == op[c].entry
    IN  /\ status = "open" /\ op[c].pc = "written"
        /\ entries' = Append(entries, e)
        /\ leaf' = LeafAfterEntry(e)
        /\ acked' = acked \cup {e}
        /\ IF op[c].summary
             THEN /\ op' = [op EXCEPT ![c] =
                              [pc |-> "begun", summary |-> FALSE,
                               entry |-> [type |-> "entry", id |-> id,
                                          parent |-> e.target]]]
                  /\ issued' = issued \cup {id}
             ELSE op' = [op EXCEPT ![c] = Idle] /\ UNCHANGED issued
        /\ UNCHANGED <<disk, status, created, branch, paths, overlap>>

(* The process dies; at most one append in flight is cut short. *)
Crash ==
    /\ status = "open"
    /\ \/ UNCHANGED <<disk, branch, paths>>
       \/ \E c \in Callers, how \in CrashCuts :
             /\ op[c].pc = "begun"
             /\ disk' = Cut(disk, Entry(op[c].entry), how)
             /\ RecordCut(op[c].entry, how)
    /\ status' = "closed"
    /\ entries' = <<>> /\ leaf' = Root
    /\ op' = [c \in Callers |-> Idle]
    /\ UNCHANGED <<issued, created, acked, overlap>>

(* JsonlSessionStorage.open: every line parses. *)
LoadClean ==
    /\ status = "closed" /\ Loads(disk)
    /\ entries' = Parsed(disk)
    /\ leaf' = LeafOf(Parsed(disk))
    /\ status' = "open"
    /\ UNCHANGED <<disk, op, issued, history>>

(* open: the last line does not parse; the file is repaired before use. *)
LoadSalvaged ==
    /\ status = "closed" /\ Salvages(disk)
    /\ entries' = Parsed(disk)
    /\ leaf' = LeafOf(Parsed(disk))
    /\ status' = "repairing"
    /\ UNCHANGED <<disk, op, issued, history>>

Repair ==
    /\ status = "repairing"
    /\ disk' = Repaired(disk)
    /\ status' = "open"
    /\ UNCHANGED <<memory, op, issued, history>>

(* The process dies, or writeFile fails, while the repair rewrites the     *)
(* file: only a prefix of it may be there.                                 *)
BreakRepair ==
    /\ status = "repairing"
    /\ \/ UNCHANGED disk
       \/ /\ RepairTears
          /\ \E n \in 0..Len(Repaired(disk)) :
                disk' = IF n = 0 THEN EmptyFile ELSE SubSeq(Repaired(disk), 1, n)
    /\ status' = "closed"
    /\ entries' = <<>> /\ leaf' = Root
    /\ UNCHANGED <<op, issued, history>>

(* open throws, with the recovery hint: the session cannot be resumed. *)
LoadFails ==
    /\ status = "closed" /\ ~ Loads(disk) /\ ~ Salvages(disk)
    /\ status' = "failed"
    /\ UNCHANGED <<disk, memory, op, issued, history>>

Next ==
    \/ Create
    \/ \E how \in CrashCuts : CrashInCreate(how)
    \/ \E c \in Callers, id \in Ids \ issued :
          \/ BeginAppend(c, id)
          \/ \E target \in Ids \cup {Root}, summary \in BOOLEAN :
                BeginMove(c, id, target, summary)
          \/ op[c].pc = "written" /\ op[c].summary /\ Acknowledge(c, id)
    \/ \E c \in Callers :
          \/ Write(c)
          \/ \E how \in FailCuts : FailWrite(c, how)
          \/ op[c].pc = "written" /\ ~ op[c].summary /\ Acknowledge(c, Root)
    \/ Crash
    \/ LoadClean \/ LoadSalvaged \/ Repair \/ BreakRepair \/ LoadFails

Spec == Init /\ [][Next]_vars

-----------------------------------------------------------------------------
IdsOrRoot == Ids \cup {Root}

EntrySet ==
    [type : {"entry"}, id : Ids, parent : IdsOrRoot]
      \cup [type : {"leaf"}, id : Ids, parent : IdsOrRoot, target : IdsOrRoot]

IssuedEntries == {e \in EntrySet : e.id \in issued}

Pieces == {Header, Fragment} \cup {Entry(e) : e \in IssuedEntries}

Operations ==
    {Idle} \cup [pc : {"begun", "written"}, summary : BOOLEAN, entry : IssuedEntries]

(* Lines hold known pieces, lines and memory hold entries with ids that    *)
(* were issued, only a move is followed by a summary, and only an open     *)
(* store has operations in progress.                                       *)
TypeOK ==
    /\ disk \in Seq(Seq(Pieces)) /\ disk # <<>>
    /\ status \in {"absent", "closed", "open", "repairing", "failed"}
    /\ entries \in Seq(IssuedEntries)
    /\ leaf \in IdsOrRoot
    /\ op \in [Callers -> Operations]
    /\ \A c \in Callers :
          op[c] # Idle =>
             /\ status = "open"
             /\ op[c].summary => op[c].entry.type = "leaf"
    /\ issued \subseteq Ids

(* A store that create() returned can always be opened again: no crash,    *)
(* however timed, leaves a file that loadJsonlStorage rejects.             *)
AlwaysLoadable == created => status # "failed"

(* getPathToRoot cannot meet a missing parent or a cycle: in memory, and   *)
(* in what a load would return, parents and targets come before the        *)
(* entries that name them.                                                 *)
Rooted(es) ==
    \A i \in 1..Len(es) :
        LET before == {Root} \cup {es[j].id : j \in 1..(i - 1)}
        IN  /\ es[i].parent \in before
            /\ es[i].type = "leaf" => es[i].target \in before

ParentsPrecede ==
    status = "open" => Rooted(entries) /\ Rooted(Parsed(disk))

(* The leaf of an open store with nothing in flight is the one a reopening *)
(* would reconstruct, and its path to the root is the branch built by the  *)
(* durable operations in order: no acknowledged entry falls off it.        *)
BranchKept ==
    status = "open" /\ (\A c \in Callers : op[c].pc # "written") =>
        /\ leaf = LeafOf(Parsed(disk))
        /\ PathTo(entries, leaf) = branch

(* As long as no append or move has begun while another was in progress,   *)
(* the active branch is kept through moves, crashes, salvages and repairs: *)
(* the leaf memory has is what leafIdAfterEntry makes of the file.         *)
ActiveBranch == ~ overlap => BranchKept

(* The store implements the append-only log: what a load would return only *)
(* grows at its end and holds every acknowledged entry, through crashes,   *)
(* salvages and repairs: only a torn line is ever dropped.                 *)
Log == INSTANCE AppendOnlyLog
         WITH Entries <- EntrySet, log <- Parsed(disk), confirmed <- acked

ImplementsLog == Log!Spec

=============================================================================
