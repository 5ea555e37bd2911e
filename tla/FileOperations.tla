--------------------------- MODULE FileOperations ---------------------------
(***************************************************************************)
(* The file operations on the managed directory (src/utils/operations.go,  *)
(* and the save of the editor, src/utils/editor.go), call by call of the   *)
(* file system.  One of them at a time holds operationMu.  Publications of *)
(* uploads and single deletions do not take it and come in between; any    *)
(* call may fail, and the process may die between two calls.               *)
(***************************************************************************)
EXTENDS Naturals, Sequences, FiniteSets

CONSTANTS
    Folder,      \* folders of the managed directory, none in another
    Name,        \* names in a folder
    Content,     \* contents of files, each given to the server once
    Selections,  \* selections of a batch, in the order of their names
    Found,       \* what the server finds in the directory at first
    Mountings,   \* which folders may be on another device
    MaxBegun,    \* bound on the operations
    MaxOthers    \* bound on what the others do

VARIABLES
    disk,      \* the entry at each path
    mounted,   \* folders on another device
    op,        \* the operation that holds operationMu
    known,     \* history: contents the server has been given
    given,     \* history: those a user has given up since the last operation began
    exposed,   \* history: those uploaded to a path of the operation under way
    count      \* the operations begun, and what the others have done

vars == <<disk, mounted, op, known, given, exposed, count>>

\* Beside each name is the one a batch copies to first; both can be uploaded to.
Path == [folder : Folder, name : Name, staging : BOOLEAN]
Place == [folder : Folder, name : Name, staging : {FALSE}]
Stage(p) == [p EXCEPT !.staging = TRUE]
In(f, n) == [folder |-> f, name |-> n, staging |-> FALSE]

\* A directory holds files; a file that is being written holds nothing yet.
Entry == [kind : {"none", "file", "directory"}, has : SUBSET Content]
Absent == [kind |-> "none", has |-> {}]
Empty(kind) == [kind |-> kind, has |-> {}]
File(c) == [kind |-> "file", has |-> {c}]
Exists(p) == disk[p].kind # "none"

ASSUME FileOperationsAssumption ==
    /\ Selections \subseteq Seq(Name)
    /\ \A s \in Selections : s # <<>> /\ \A i, j \in DOMAIN s : s[i] = s[j] => i = j
    /\ Found \in [Path -> Entry] /\ Mountings \subseteq SUBSET Folder
    /\ MaxBegun \in Nat /\ MaxOthers \in Nat
    /\ \A p \in Path : ~(Found[p].kind = "none" /\ Found[p].has # {})
    /\ \A p \in Path : Found[p].kind = "file" => \A c, d \in Found[p].has : c = d

Moves == {"rename", "move", "batchMove"}
Copies == {"copy", "batchCopy"}
Removals == {"batchDelete", "save"}
Step == {"idle", "act", "look", "open", "copy", "promote", "unlink", "back",
         "cleanup", "check", "remove", "truncate", "write", "done"}
Op == [kind : Moves \cup Copies \cup Removals, pc : Step, src : Seq(Place), dst : Seq(Place),
       at : Nat, left : SUBSET Content, temp : Entry, clean : SUBSET Path,
       before : [Path -> Entry], answer : {"ok", "error", "partial"},
       failed : BOOLEAN, touched : SUBSET Path]

Idle == [kind |-> "save", pc |-> "idle", src |-> <<>>, dst |-> <<>>, at |-> 1, left |-> {},
         temp |-> Absent, clean |-> {}, before |-> [p \in Path |-> Absent], answer |-> "ok",
         failed |-> FALSE, touched |-> {}]

Busy == op.pc # "idle"
Held(d) == UNION {d[p].has : p \in Path}
Item == DOMAIN op.src
PathsOf(i) == {op.src[i], op.dst[i], Stage(op.dst[i])}
Mine == UNION {PathsOf(i) : i \in Item}

Init ==
    /\ disk = Found /\ known = Held(Found)
    /\ mounted \in Mountings
    /\ op = Idle /\ given = {} /\ exposed = {}
    /\ count = [begun |-> 0, others |-> 0]

-----------------------------------------------------------------------------
(* Beginning and end.                                                      *)

history == <<known, given, exposed, count>>
At == op.src[op.at]
To == op.dst[op.at]

\* The checks every operation makes before its first change: each source is
\* there, as it was listed, and no destination.  What has been uploaded or given
\* up in earlier operations and is there now counts like any other content.
Begins(kind, pc, src, dst) ==
    /\ ~Busy /\ count.begun < MaxBegun /\ count' = [count EXCEPT !.begun = @ + 1]
    /\ \A i \in DOMAIN src : Exists(src[i])
    /\ kind \notin Removals => \A i \in DOMAIN dst : ~Exists(dst[i])
    /\ op' = [Idle EXCEPT !.kind = kind, !.pc = pc, !.src = src, !.dst = dst, !.before = disk]
    /\ given' = given \ Held(disk) /\ exposed' = exposed \ Held(disk)
    /\ UNCHANGED <<disk, mounted, known>>

RenameItem(p, n) == Begins("rename", "act", <<p>>, <<In(p.folder, n)>>)
MoveItem(p, q) == Begins("move", "act", <<p>>, <<q>>)
CopyItem(p, q) == Begins("copy", "open", <<p>>, <<q>>)
AllIn(f, s) == [i \in DOMAIN s |-> In(f, s[i])]
BatchMove(f, g, s) == f # g /\ Begins("batchMove", "act", AllIn(f, s), AllIn(g, s))
BatchCopy(f, g, s) == f # g /\ Begins("batchCopy", "look", AllIn(f, s), AllIn(g, s))
BatchDelete(f, s) == Begins("batchDelete", "check", AllIn(f, s), AllIn(f, s))
WriteVersionedTextFile(p) == disk[p].kind = "file" /\ Begins("save", "truncate", <<p>>, <<p>>)

\* MakeDirectory and MakeFile: one call each.
Make(p, kind) ==
    /\ ~Busy /\ count.begun < MaxBegun /\ count' = [count EXCEPT !.begun = @ + 1]
    /\ ~Exists(p)
    /\ disk' = [disk EXCEPT ![p] = Empty(kind)]
    /\ UNCHANGED <<mounted, op, known, given, exposed>>

Answers(answer) == op' = [op EXCEPT !.pc = "done", !.answer = answer, !.temp = Absent]
Fails(pc, answer) == op.pc = pc /\ Answers(answer) /\ UNCHANGED <<disk, mounted, history>>
Goes(o) == op' = o /\ UNCHANGED <<disk, mounted, history>>
\* The next item, or the answer behind the last.
Onward(o, pc) == IF o.at < Len(o.src) THEN [o EXCEPT !.at = @ + 1, !.pc = pc]
                 ELSE [o EXCEPT !.pc = "done", !.answer = IF o.failed THEN "partial" ELSE "ok"]

Release == op.pc = "done" /\ op' = Idle /\ UNCHANGED <<disk, mounted, history>>
Crash == Busy /\ op' = Idle /\ UNCHANGED <<disk, mounted, history>>

-----------------------------------------------------------------------------
(* Renaming and moving.                                                    *)

SameDevice(p, q) == p.folder \in mounted <=> q.folder \in mounted

\* rename(2) replaces a file by a file and an empty directory by a directory.
Replaces(e, f) ==
    /\ e.kind # "none"
    /\ f.kind \in {"none", e.kind} /\ (f.kind = "directory" => f.has = {})
CanRename(p, q) == SameDevice(p, q) /\ Replaces(disk[p], disk[q])
Renamed(p, q) == [disk EXCEPT ![p] = Absent, ![q] = disk[p]]

Rename ==
    /\ op.pc = "act" /\ CanRename(At, To)
    /\ disk' = Renamed(At, To) /\ op' = Onward(op, "act")
    /\ UNCHANGED <<mounted, history>>
RenameFails == op.kind \in {"rename", "move"} /\ Fails("act", "error")

\* MoveItem to another device copies to a directory of its own first, which no
\* other operation knows.
Crosses ==
    /\ op.pc = "act" /\ op.kind = "move" /\ ~SameDevice(At, To)
    /\ Goes([op EXCEPT !.pc = "open"])
PromoteMoved ==
    /\ op.pc = "promote" /\ op.kind = "move" /\ Replaces(op.temp, disk[To])
    /\ disk' = [disk EXCEPT ![To] = op.temp]
    /\ op' = [op EXCEPT !.pc = "unlink", !.temp = Absent]
    /\ UNCHANGED <<mounted, history>>
PromoteMovedFails == op.kind = "move" /\ Fails("promote", "error")

\* RemoveAll of a directory that fails may have removed a part of it.
Without(p, S) == [disk EXCEPT ![p].has = @ \ S]
Unlink ==
    /\ op.pc = "unlink" /\ (Exists(At) \/ op.before[At].kind = "directory")
    /\ disk' = [disk EXCEPT ![At] = Absent] /\ Answers("ok")
    /\ UNCHANGED <<mounted, history>>
\* The rollback is a rename to the other device and fails.
UnlinkFails(S) ==
    /\ op.pc = "unlink" /\ (disk[At].kind = "directory" \/ S = {})
    /\ disk' = Without(At, S) /\ Answers("partial")
    /\ UNCHANGED <<mounted, history>>

\* BatchMove moves back what it has moved, and ignores errors of doing so.
BatchMoveFails ==
    /\ op.pc = "act" /\ op.kind = "batchMove"
    /\ Goes([op EXCEPT !.pc = "back", !.at = @ - 1])
MoveBack ==
    /\ op.pc = "back" /\ op.at > 0
    /\ \/ CanRename(To, At) /\ disk' = Renamed(To, At) /\ op' = [op EXCEPT !.at = @ - 1]
       \/ op' = [op EXCEPT !.at = @ - 1, !.failed = TRUE] /\ UNCHANGED disk
    /\ UNCHANGED <<mounted, history>>
MovedBack == op.at = 0 /\ Fails("back", "partial")

-----------------------------------------------------------------------------
(* Copying.                                                                *)

\* Where copyEntry writes, unless MoveItem called it.
Output == IF op.kind = "batchCopy" THEN Stage(To) ELSE To
StagesBefore(i) == {Stage(op.dst[j]) : j \in {j \in Item : j < i}}
CleansUp(paths, answer) == [op EXCEPT !.pc = "cleanup", !.clean = paths, !.answer = answer]

LookForStage ==
    /\ op.pc = "look"
    /\ Goes(IF Exists(Stage(To)) THEN CleansUp(StagesBefore(op.at), "error") ELSE [op EXCEPT !.pc = "open"])

\* The output is created, and the entries of a directory are read.
OpenCopy ==
    /\ op.pc = "open" /\ disk[At].kind = op.before[At].kind
    /\ IF op.kind = "move"
       THEN op' = [op EXCEPT !.pc = "copy", !.left = disk[At].has, !.temp = Empty(disk[At].kind)] /\ UNCHANGED disk
       ELSE /\ ~Exists(Output) /\ disk' = [disk EXCEPT ![Output] = Empty(disk[At].kind)]
            /\ op' = [op EXCEPT !.pc = "copy", !.left = disk[At].has]
    /\ UNCHANGED <<mounted, history>>

\* A file of a directory has to be there still; a file that is open need not,
\* and what is written to one that has been deleted is seen nowhere.
Grown(e, c) == IF e.kind = "directory" \/ e = Empty("file") THEN [e EXCEPT !.has = @ \cup {c}] ELSE e
CopyContent(c) ==
    /\ op.pc = "copy" /\ c \in op.left
    /\ op.before[At].kind = "directory" =>
           c \in disk[At].has /\ (op.kind = "move" \/ disk[Output].kind = "directory")
    /\ IF op.kind = "move"
       THEN op' = [op EXCEPT !.left = @ \ {c}, !.temp.has = @ \cup {c}] /\ UNCHANGED disk
       ELSE op' = [op EXCEPT !.left = @ \ {c}] /\ disk' = [disk EXCEPT ![Output] = Grown(@, c)]
    /\ UNCHANGED <<mounted, history>>

\* A batch promotes its copies when it has made them all.
CopyEnds ==
    /\ op.pc = "copy" /\ op.left = {}
    /\ Goes(CASE op.kind = "move" -> [op EXCEPT !.pc = "promote"]
              [] op.kind = "copy" -> [op EXCEPT !.pc = "done", !.answer = "ok"]
              [] OTHER -> IF op.at < Len(op.src) THEN [op EXCEPT !.pc = "look", !.at = @ + 1]
                          ELSE [op EXCEPT !.pc = "promote", !.at = 1])

\* Seeded fault: a move goes on with what it has copied.
CopyFails_Ignored ==
    /\ op.pc \in {"open", "copy"}
    /\ op' = IF op.kind = "move" THEN [op EXCEPT !.pc = "promote", !.left = {}]
             ELSE CleansUp(IF op.kind = "copy" THEN {To} ELSE StagesBefore(op.at + 1), "error")
    /\ UNCHANGED <<disk, mounted, history>>

\* What has been made so far is removed, whoever has made it.
CopyFails ==
    /\ op.pc \in {"open", "copy"}
    /\ IF op.kind = "move" THEN Answers("error")
       ELSE op' = CleansUp(IF op.kind = "copy" THEN {To} ELSE StagesBefore(op.at + 1), "error")
    /\ UNCHANGED <<disk, mounted, history>>

PromoteCopied ==
    /\ op.pc = "promote" /\ op.kind = "batchCopy" /\ CanRename(Stage(To), To)
    /\ disk' = Renamed(Stage(To), To) /\ op' = Onward(op, "promote")
    /\ UNCHANGED <<mounted, history>>
\* Seeded fault: what is promoted already stays.
PromoteCopiedFails_Keeps ==
    /\ op.pc = "promote" /\ op.kind = "batchCopy"
    /\ Goes(CleansUp(StagesBefore(Len(op.src) + 1), "partial"))

PromoteCopiedFails ==
    /\ op.pc = "promote" /\ op.kind = "batchCopy"
    /\ Goes(CleansUp({op.dst[j] : j \in {j \in Item : j < op.at}} \cup StagesBefore(Len(op.src) + 1), "partial"))

\* Errors of the cleanup are ignored: what stays may be a part of a directory.
CleanUp(stays, gone) ==
    /\ op.pc = "cleanup" /\ \A p \in stays : p \in op.clean /\ Exists(p)
    /\ disk' = [p \in Path |-> IF p \notin op.clean THEN disk[p]
                               ELSE IF p \notin stays THEN Absent
                               ELSE IF disk[p].kind = "file" THEN disk[p]
                               ELSE [disk[p] EXCEPT !.has = @ \ gone]]
    /\ op' = [op EXCEPT !.pc = "done", !.clean = {}, !.failed = stays # {}]
    /\ UNCHANGED <<mounted, history>>

-----------------------------------------------------------------------------
(* Deleting and saving.                                                    *)

\* An item that has changed is left out, and the answer says so.
CheckItem == op.pc = "check" /\ disk[At] = op.before[At] /\ Goes([op EXCEPT !.pc = "remove"])
SkipItem == op.pc = "check" /\ Goes(Onward([op EXCEPT !.failed = TRUE], "check"))
RemoveItem ==
    /\ op.pc = "remove" /\ (Exists(At) \/ op.before[At].kind = "directory")
    /\ disk' = [disk EXCEPT ![At] = Absent]
    /\ given' = given \cup op.before[At].has /\ op' = Onward(op, "check")
    /\ UNCHANGED <<mounted, known, exposed, count>>
RemoveItemFails(S) ==
    /\ op.pc = "remove" /\ (disk[At].kind = "directory" \/ S = {})
    /\ disk' = Without(At, S) /\ given' = given \cup (S \cap op.before[At].has)
    /\ op' = Onward([op EXCEPT !.failed = TRUE], "check")
    /\ UNCHANGED <<mounted, known, exposed, count>>

\* os.WriteFile empties the file before it writes; when the write fails, the old
\* text is gone, and so is the new one.
Truncate ==
    /\ op.pc = "truncate" /\ disk[At].kind # "directory"
    /\ disk' = [disk EXCEPT ![At] = Empty("file")] /\ given' = given \cup op.before[At].has
    /\ op' = [op EXCEPT !.pc = "write"]
    /\ UNCHANGED <<mounted, known, exposed, count>>
TruncateFails == Fails("truncate", "error")
Write(c) ==
    /\ op.pc = "write" /\ disk[At] = Empty("file") /\ c \notin known
    /\ disk' = [disk EXCEPT ![At] = File(c)] /\ known' = known \cup {c}
    /\ Answers("ok")
    /\ UNCHANGED <<mounted, given, exposed, count>>
WriteFails ==
    /\ op.pc = "write"
    /\ Goes([op EXCEPT !.pc = "done", !.answer = "error", !.failed = TRUE])

-----------------------------------------------------------------------------
(* What does not take operationMu: a publication of an upload, which needs *)
(* a free name (upload_publish.go), and /do/rm (main.go), which removes    *)
(* what is in a directory one by one before the directory.                 *)

Touches(p) ==
    /\ count.others < MaxOthers /\ count' = [count EXCEPT !.others = @ + 1]
    /\ op' = IF Busy THEN [op EXCEPT !.touched = @ \cup {p}] ELSE op
Gives(p, c) ==
    /\ c \notin known /\ known' = known \cup {c}
    /\ exposed' = IF p \in Mine THEN exposed \cup {c} ELSE exposed
    /\ Touches(p) /\ UNCHANGED <<mounted, given>>
Publish(p, c) == ~Exists(p) /\ disk' = [disk EXCEPT ![p] = File(c)] /\ Gives(p, c)
PublishInto(p, c) ==
    /\ disk[p].kind = "directory" /\ disk' = [disk EXCEPT ![p].has = @ \cup {c}] /\ Gives(p, c)

GivesUp(p, S) ==
    /\ given' = given \cup S
    /\ Touches(p) /\ UNCHANGED <<mounted, known, exposed>>
Delete(p) ==
    /\ Exists(p) /\ (disk[p].kind = "file" \/ disk[p].has = {})
    /\ disk' = [disk EXCEPT ![p] = Absent] /\ GivesUp(p, disk[p].has)
DeleteIn(p, c) ==
    /\ disk[p].kind = "directory" /\ c \in disk[p].has
    /\ disk' = Without(p, {c}) /\ GivesUp(p, {c})

-----------------------------------------------------------------------------
Begin ==
    \/ \E p \in Place, n \in Name : RenameItem(p, n)
    \/ \E p, q \in Place : MoveItem(p, q) \/ CopyItem(p, q)
    \/ \E f, g \in Folder, s \in Selections : BatchMove(f, g, s) \/ BatchCopy(f, g, s)
    \/ \E f \in Folder, s \in Selections : BatchDelete(f, s)
    \/ \E p \in Place : WriteVersionedTextFile(p)
    \/ \E p \in Place, kind \in {"file", "directory"} : Make(p, kind)

Operate ==
    \/ Rename \/ RenameFails \/ Crosses \/ PromoteMoved \/ PromoteMovedFails \/ Unlink
    \/ BatchMoveFails \/ MoveBack \/ MovedBack
    \/ LookForStage \/ OpenCopy \/ CopyEnds \/ CopyFails \/ PromoteCopied \/ PromoteCopiedFails
    \/ CheckItem \/ SkipItem \/ RemoveItem \/ Truncate \/ TruncateFails \/ WriteFails
    \/ \E c \in Content : CopyContent(c) \/ Write(c)
    \/ \E S \in SUBSET Content : UnlinkFails(S) \/ RemoveItemFails(S)
    \/ \E stays \in SUBSET op.clean, gone \in SUBSET Content : CleanUp(stays, gone)

Others ==
    \/ \E p \in Path, c \in Content : Publish(p, c) \/ PublishInto(p, c) \/ DeleteIn(p, c)
    \/ \E p \in Path : Delete(p)

Next == Begin \/ Operate \/ Release \/ Crash \/ Others

Spec == Init /\ [][Next]_vars

-----------------------------------------------------------------------------
TypeOK ==
    /\ disk \in [Path -> Entry] /\ mounted \subseteq Folder /\ op \in Op
    /\ known \subseteq Content /\ given \subseteq Content /\ exposed \subseteq Content
    /\ count \in [begun : Nat, others : Nat]

\* Whatever fails, and wherever the process dies, what the server has been given
\* is in the directory unless a user has given it up, or it was uploaded to a path
\* of the operation after that has looked there: no operation loses what it moves,
\* what it copies or what it finds (operations.go).
NothingElseIsLost == known \subseteq Held(disk) \cup given \cup exposed

\* An answer is true of each item that nobody else has touched, whatever happens
\* to the others of its batch: "ok" means done, and an error that nothing has
\* changed, but for four cases: a cleanup or a way back whose own errors are
\* ignored, a moved entry that could not be removed behind it, a save that could
\* not write, and a deletion, which answers for each item (operations.go).
Done(i) ==
    LET was == op.before[op.src[i]] IN
    IF op.kind = "save" THEN disk[op.src[i]].kind = "file" /\ disk[op.src[i]].has \cap was.has = {}
    ELSE IF op.kind = "batchDelete" THEN disk[op.src[i]] = Absent
    ELSE /\ disk[op.dst[i]] = was
         /\ disk[op.src[i]] = IF op.kind \in Moves THEN Absent ELSE was
         /\ disk[Stage(op.dst[i])] = op.before[Stage(op.dst[i])]
Undone(i) ==
    IF op.kind = "move" /\ op.answer = "partial" THEN disk[op.dst[i]] = op.before[op.src[i]]
    ELSE \A p \in PathsOf(i) : disk[p] = op.before[p]
AnswersAreTrue ==
    op.pc = "done" => \A i \in Item : PathsOf(i) \cap op.touched = {} =>
        IF op.answer = "ok" THEN Done(i) ELSE op.failed \/ Undone(i)
=============================================================================
