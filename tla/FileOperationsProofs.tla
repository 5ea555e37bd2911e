------------------------ MODULE FileOperationsProofs ------------------------
(***************************************************************************)
(* Proofs about FileOperations: for any folders, names, contents and       *)
(* selections, and any number of operations and of what others do.         *)
(***************************************************************************)
EXTENDS FileOperations, TLAPS

\* What may be lost, and paths whose content nobody needs there.
Excused == given \cup exposed
Spare(p) == disk[p].has \subseteq Excused
Backed(p, i) == disk[p].has \subseteq disk[op.src[i]].has \cup Excused

\* What has no entry has no content.
AbsentInv == \A p \in Path : disk[p].kind = "none" => disk[p].has = {}

\* Where an operation stands, by its kind; its paths are different ones.
ShapeInv == Busy =>
    /\ op.src # <<>> /\ Len(op.dst) = Len(op.src)
    /\ \A i, j \in Item : i # j => op.src[i] # op.src[j] /\ op.dst[i] # op.dst[j]
    /\ op.kind \notin Removals => \A i, j \in Item : op.src[i] # op.dst[j]
    /\ op.pc \notin {"back", "cleanup", "done"} => op.at \in Item
    /\ op.pc = "back" => op.at \in 0..Len(op.src)
    /\ op.pc \in {"act", "back"} => op.kind \in Moves
    /\ op.pc = "look" => op.kind = "batchCopy"
    /\ op.pc \in {"open", "copy"} => op.kind \in {"move"} \cup Copies
    /\ op.pc = "promote" => op.kind \in {"move", "batchCopy"}
    /\ op.pc = "unlink" => op.kind = "move"
    /\ op.pc = "cleanup" => op.kind \in Copies
    /\ op.pc \in {"check", "remove"} => op.kind = "batchDelete"
    /\ op.pc \in {"truncate", "write"} => op.kind = "save"

\* A move has left its source, or goes to a path that holds nothing needed; and
\* what it is about to remove it has brought to its destination.
MoveInv == op.kind \in Moves =>
    /\ op.pc = "act" => \A i \in Item : IF i < op.at THEN Spare(op.src[i]) ELSE Spare(op.dst[i])
    /\ op.pc = "back" => \A i \in Item : i <= op.at => Spare(op.src[i])
    /\ op.pc \in {"open", "copy", "promote"} => Spare(To)
    /\ op.pc = "copy" => disk[At].has \subseteq op.temp.has \cup op.left \cup Excused
    /\ op.pc = "promote" => disk[At].has \subseteq op.temp.has \cup Excused
    /\ op.pc = "unlink" => disk[At].has \subseteq disk[To].has \cup Excused

\* Whatever a copy has made or may replace is backed by the sources.
CopyInv == op.kind \in Copies =>
    /\ op.pc \in {"look", "open", "copy", "promote"} => \A i \in Item : Backed(op.dst[i], i)
    /\ op.kind = "batchCopy" => \A i \in Item :
           \/ op.pc = "look" /\ i < op.at
           \/ op.pc \in {"open", "copy"} /\ i <= op.at
           \/ op.pc = "promote"
           => Backed(Stage(op.dst[i]), i)
    /\ op.pc = "copy" => op.left \subseteq disk[At].has \cup Excused
    /\ op.pc = "cleanup" => \A p \in op.clean :
           /\ p \in Path /\ \A i \in Item : p # op.src[i]
           /\ p \in Mine /\ \E i \in Item : Backed(p, i)

\* A removal takes what was listed.
RemovalInv ==
    op.pc \in {"remove", "truncate"} => disk[At].has \subseteq op.before[At].has \cup Excused

IInv == TypeOK /\ AbsentInv /\ ShapeInv /\ MoveInv /\ CopyInv /\ RemovalInv /\ NothingElseIsLost

-----------------------------------------------------------------------------
LEMMA Paths ==
    /\ Place \subseteq Path
    /\ \A p \in Place : Stage(p) \in Path /\ Stage(p) \notin Place
    /\ \A p, q \in Place : Stage(p) = Stage(q) => p = q
<1>1. Place \subseteq Path
  BY DEF Place, Path
<1>2. \A p \in Place : Stage(p) \in Path /\ Stage(p) \notin Place
  BY DEF Place, Path, Stage
<1>3. ASSUME NEW p \in Place, NEW q \in Place, Stage(p) = Stage(q) PROVE p = q
  <2> DEFINE D == {"folder", "name", "staging"}
  <2>1. /\ DOMAIN p = D /\ p = [x \in D |-> p[x]]
        /\ DOMAIN q = D /\ q = [x \in D |-> q[x]]
        /\ p.staging = q.staging
    BY DEF Place
  <2>2. p.folder = q.folder /\ p.name = q.name
    BY <1>3 DEF Stage, Place
  <2> QED  BY <2>1, <2>2
<1> QED  BY <1>1, <1>2, <1>3

LEMMA IdleType == Idle \in Op
BY DEF Idle, Op, Entry, Absent, Moves, Copies, Removals, Step

\* What can be read off a busy operation.
LEMMA Items ==
    ASSUME op \in Op, ShapeInv, Busy
    PROVE  /\ Item = 1..Len(op.src) /\ Len(op.src) \in Nat \ {0}
           /\ \A i \in Item : op.src[i] \in Place /\ op.dst[i] \in Place /\ Stage(op.dst[i]) \in Path
           /\ \A i \in Item : op.src[i] \in Path /\ op.dst[i] \in Path
           /\ \A i, j \in Item : Stage(op.dst[i]) # op.src[j] /\ Stage(op.dst[i]) # op.dst[j]
           /\ \A i, j \in Item : i # j => Stage(op.dst[i]) # Stage(op.dst[j])
           /\ \A i \in Item : op.src[i] \in Mine /\ op.dst[i] \in Mine /\ Stage(op.dst[i]) \in Mine
<1>1. op.src \in Seq(Place) /\ op.dst \in Seq(Place)
  BY DEF Op
<1>2. Item = 1..Len(op.src) /\ Len(op.src) \in Nat \ {0}
  BY <1>1 DEF Item, ShapeInv
<1>3. \A i \in Item : op.src[i] \in Place /\ op.dst[i] \in Place
  BY <1>1, <1>2 DEF ShapeInv
<1>4. \A i \in Item : op.src[i] \in Mine /\ op.dst[i] \in Mine /\ Stage(op.dst[i]) \in Mine
  BY DEF Mine, PathsOf
<1> QED  BY <1>2, <1>3, <1>4, Paths DEF ShapeInv

\* Steps that change nothing on the disk and end the operation or its answer.
LEMMA Ended ==
    ASSUME IInv, UNCHANGED <<disk, known, given, exposed>>, mounted' = mounted, count' = count,
           op' \in Op, op'.pc \in {"idle", "done"},
           op'.pc = "done" => op'.src = op.src /\ op'.dst = op.dst /\ op'.kind = op.kind /\ Busy
    PROVE  IInv'
<1> USE DEF IInv
<1>1. TypeOK' /\ AbsentInv' /\ NothingElseIsLost'
  BY DEF TypeOK, AbsentInv, NothingElseIsLost, Held
<1>2. ShapeInv'
  BY DEF ShapeInv, Busy, Item
<1>3. MoveInv' /\ CopyInv' /\ RemovalInv'
  BY DEF MoveInv, CopyInv, RemovalInv
<1> QED  BY <1>1, <1>2, <1>3

LEMMA InitKeeps == Init => IInv
<1> SUFFICES ASSUME Init PROVE IInv
  OBVIOUS
<1> USE DEF Init
<1>1. TypeOK
  BY IdleType, FileOperationsAssumption DEF TypeOK, Held, Entry
<1>2. AbsentInv /\ NothingElseIsLost
  BY FileOperationsAssumption DEF AbsentInv, NothingElseIsLost
<1>3. ~Busy /\ op.kind = "save" /\ op.pc = "idle"
  BY DEF Busy, Idle
<1> QED  BY <1>1, <1>2, <1>3 DEF IInv, ShapeInv, MoveInv, CopyInv, RemovalInv, Moves, Copies

-----------------------------------------------------------------------------
(* Beginning.                                                              *)

\* Where an operation of a kind starts.
StartsAt(kind, pc) ==
    \/ kind \in Moves /\ pc = "act"
    \/ kind = "copy" /\ pc = "open"
    \/ kind = "batchCopy" /\ pc = "look"
    \/ kind = "batchDelete" /\ pc = "check"
    \/ kind = "save" /\ pc = "truncate"

LEMMA BeginsKeeps ==
    ASSUME IInv, NEW kind, NEW pc,
           NEW src \in Seq(Place), NEW dst \in Seq(Place), src # <<>>, Len(src) = Len(dst),
           \A i, j \in DOMAIN src : i # j => src[i] # src[j] /\ dst[i] # dst[j],
           StartsAt(kind, pc),
           Begins(kind, pc, src, dst)
    PROVE  IInv'
<1> USE DEF IInv
<1>0. /\ op' = [Idle EXCEPT !.kind = kind, !.pc = pc, !.src = src, !.dst = dst, !.before = disk]
      /\ UNCHANGED <<disk, mounted, known>>
      /\ given' = given \ Held(disk) /\ exposed' = exposed \ Held(disk)
  BY DEF Begins
<1>1. TypeOK'
  <2>1. op' \in Op
    BY <1>0, IdleType DEF Op, TypeOK, StartsAt, Moves, Copies, Removals, Step
  <2>2. count' \in [begun : Nat, others : Nat]
    BY DEF Begins, TypeOK
  <2> QED  BY <1>0, <2>1, <2>2 DEF TypeOK
<1>2. /\ op'.kind = kind /\ op'.pc = pc /\ op'.src = src /\ op'.dst = dst /\ op'.at = 1 /\ op'.before = disk
  BY <1>0 DEF Idle
<1>3. DOMAIN src = 1..Len(src) /\ Len(src) \in Nat \ {0} /\ 1 \in DOMAIN src
      /\ \A i \in DOMAIN src : src[i] \in Path /\ dst[i] \in Path
  BY Paths
<1>4. kind \notin Removals => \A i \in DOMAIN src : disk[dst[i]].has = {}
  BY <1>3 DEF Begins, Exists, AbsentInv
<1>5. kind \notin Removals => \A i, j \in DOMAIN src : src[i] # dst[j]
  BY <1>3 DEF Begins
<1>6. AbsentInv' /\ NothingElseIsLost'
  BY <1>0 DEF AbsentInv, NothingElseIsLost, Held
<1>7. ShapeInv'
  BY <1>2, <1>3, <1>5 DEF ShapeInv, Busy, Item, StartsAt, Moves, Copies, Removals
<1>8. MoveInv'
  <2>1. CASE kind \in Moves
    <3>1. pc = "act" /\ Item' = DOMAIN src
      BY <1>2, <2>1 DEF StartsAt, Moves, Item
    <3>2. \A i \in DOMAIN src : Spare(dst[i])'
      BY <1>0, <1>4, <2>1 DEF Spare, Moves, Removals
    <3> QED  BY <1>2, <1>3, <3>1, <3>2 DEF MoveInv, Spare
  <2>2. CASE kind \notin Moves
    BY <1>2, <2>2 DEF MoveInv
  <2> QED  BY <2>1, <2>2
<1>9. CopyInv'
  <2>1. CASE kind \in Copies
    <3>1. ((pc = "open" /\ kind = "copy") \/ pc = "look") /\ Item' = DOMAIN src
      BY <1>2, <2>1 DEF StartsAt, Copies, Moves, Item
    <3>2. \A i \in DOMAIN src : Backed(dst[i], i)'
      BY <1>0, <1>4, <1>2, <2>1 DEF Backed, Copies, Removals
    <3> QED  BY <1>2, <1>3, <3>1, <3>2 DEF CopyInv, Backed
  <2>2. CASE kind \notin Copies
    BY <1>2, <2>2 DEF CopyInv
  <2> QED  BY <2>1, <2>2
<1>10. RemovalInv'
  BY <1>0, <1>2 DEF RemovalInv, At
<1> QED  BY <1>1, <1>6, <1>7, <1>8, <1>9, <1>10

LEMMA InPaths ==
    /\ \A f \in Folder, n \in Name : In(f, n) \in Place
    /\ \A f \in Folder, s \in Selections :
           /\ AllIn(f, s) \in Seq(Place) /\ AllIn(f, s) # <<>> /\ Len(AllIn(f, s)) = Len(s)
           /\ DOMAIN AllIn(f, s) = DOMAIN s
           /\ \A i, j \in DOMAIN s : i # j => AllIn(f, s)[i] # AllIn(f, s)[j]
<1>1. \A f \in Folder, n \in Name : In(f, n) \in Place
  BY DEF Place, In
<1>2. ASSUME NEW f \in Folder, NEW s \in Selections
      PROVE  /\ AllIn(f, s) \in Seq(Place) /\ AllIn(f, s) # <<>> /\ Len(AllIn(f, s)) = Len(s)
             /\ DOMAIN AllIn(f, s) = DOMAIN s
             /\ \A i, j \in DOMAIN s : i # j => AllIn(f, s)[i] # AllIn(f, s)[j]
  <2>1. s \in Seq(Name) /\ s # <<>> /\ DOMAIN s = 1..Len(s) /\ Len(s) \in Nat
    BY FileOperationsAssumption
  <2>2. AllIn(f, s) = [i \in 1..Len(s) |-> In(f, s[i])] /\ \A i \in 1..Len(s) : s[i] \in Name
    BY <2>1 DEF AllIn
  <2>3. AllIn(f, s) \in Seq(Place) /\ Len(AllIn(f, s)) = Len(s)
    BY <1>1, <2>1, <2>2
  <2>4. ASSUME NEW i \in DOMAIN s, NEW j \in DOMAIN s, i # j PROVE AllIn(f, s)[i] # AllIn(f, s)[j]
    <3>1. s[i] # s[j]
      BY <2>4, FileOperationsAssumption
    <3> QED  BY <2>1, <2>2, <3>1 DEF In
  <2> QED  BY <2>1, <2>2, <2>3, <2>4
<1> QED  BY <1>1, <1>2

LEMMA MakeKeeps ==
    ASSUME IInv, NEW p \in Place, NEW kind \in {"file", "directory"}, Make(p, kind)
    PROVE  IInv'
<1> USE DEF IInv
<1>1. /\ ~Busy /\ p \in Path /\ disk[p].has = {} /\ disk' = [disk EXCEPT ![p] = Empty(kind)]
      /\ UNCHANGED <<mounted, op, known, given, exposed>>
  BY Paths DEF Make, Exists, AbsentInv
<1>2. TypeOK'
  BY <1>1 DEF TypeOK, Make, Entry, Empty
<1>3. AbsentInv'
  BY <1>1 DEF AbsentInv, TypeOK, Empty
<1>4. \A q \in Path : disk'[q].has = disk[q].has
  BY <1>1 DEF TypeOK, Empty
<1>5. NothingElseIsLost'
  BY <1>1, <1>4 DEF NothingElseIsLost, Held
<1>6. ShapeInv'
  BY <1>1 DEF ShapeInv, Busy
<1>7. MoveInv' /\ CopyInv' /\ RemovalInv'
  BY <1>1 DEF Busy, MoveInv, CopyInv, RemovalInv
<1> QED  BY <1>2, <1>3, <1>5, <1>6, <1>7

\* The same for one entry, which is its own source when it is removed or saved.
LEMMA BeginsOne ==
    ASSUME IInv, NEW kind, NEW pc, NEW p \in Place, NEW q \in Place,
           StartsAt(kind, pc), Begins(kind, pc, <<p>>, <<q>>)
    PROVE  IInv'
<1>1. /\ <<p>> \in Seq(Place) /\ <<q>> \in Seq(Place) /\ <<p>> # <<>> /\ Len(<<p>>) = Len(<<q>>)
      /\ \A i, j \in DOMAIN <<p>> : i = j
  OBVIOUS
<1> QED  BY <1>1, BeginsKeeps

LEMMA BeginKeeps == ASSUME IInv, Begin PROVE IInv'
<1> USE DEF StartsAt, Moves
<1>1. ASSUME NEW p \in Place, NEW n \in Name, RenameItem(p, n) PROVE IInv'
  <2>1. In(p.folder, n) \in Place
    BY InPaths DEF Place
  <2> QED  BY <1>1, <2>1, BeginsOne DEF RenameItem
<1>2. ASSUME NEW p \in Place, NEW q \in Place, MoveItem(p, q) PROVE IInv'
  BY <1>2, BeginsOne DEF MoveItem
<1>3. ASSUME NEW p \in Place, NEW q \in Place, CopyItem(p, q) PROVE IInv'
  BY <1>3, BeginsOne DEF CopyItem
<1>4. ASSUME NEW f \in Folder, NEW g \in Folder, NEW s \in Selections, BatchMove(f, g, s) PROVE IInv'
  <2>1. Begins("batchMove", "act", AllIn(f, s), AllIn(g, s))
    BY <1>4 DEF BatchMove
  <2> QED  BY <2>1, InPaths, BeginsKeeps
<1>5. ASSUME NEW f \in Folder, NEW g \in Folder, NEW s \in Selections, BatchCopy(f, g, s) PROVE IInv'
  <2>1. Begins("batchCopy", "look", AllIn(f, s), AllIn(g, s))
    BY <1>5 DEF BatchCopy
  <2> QED  BY <2>1, InPaths, BeginsKeeps
<1>6. ASSUME NEW f \in Folder, NEW s \in Selections, BatchDelete(f, s) PROVE IInv'
  <2>1. Begins("batchDelete", "check", AllIn(f, s), AllIn(f, s))
    BY <1>6 DEF BatchDelete
  <2> QED  BY <2>1, InPaths, BeginsKeeps
<1>7. ASSUME NEW p \in Place, WriteVersionedTextFile(p) PROVE IInv'
  BY <1>7, BeginsOne DEF WriteVersionedTextFile
<1>8. ASSUME NEW p \in Place, NEW kind \in {"file", "directory"}, Make(p, kind) PROVE IInv'
  BY <1>8, MakeKeeps
<1> QED  BY <1>1, <1>2, <1>3, <1>4, <1>5, <1>6, <1>7, <1>8 DEF Begin

-----------------------------------------------------------------------------
(* Steps of the operation that leave the disk alone.                       *)

LEMMA Still ==
    ASSUME IInv, UNCHANGED <<disk, mounted, known, given, exposed, count>>, op' \in Op
    PROVE  TypeOK' /\ AbsentInv' /\ NothingElseIsLost'
BY DEF IInv, TypeOK, AbsentInv, NothingElseIsLost, Held

\* The paths of the operation stay, and a step to another item keeps to the items.
SamePaths == op'.kind = op.kind /\ op'.src = op.src /\ op'.dst = op.dst /\ op'.before = op.before

LEMMA OnwardIs ==
    ASSUME NEW o \in Op, NEW pc \in Step
    PROVE  LET n == Onward(o, pc) IN
           /\ n \in Op /\ n.kind = o.kind /\ n.src = o.src /\ n.dst = o.dst /\ n.before = o.before
           /\ \/ o.at < Len(o.src) /\ n.at = o.at + 1 /\ n.pc = pc
              \/ n.pc = "done"
<1>1. CASE o.at < Len(o.src)
  <2>1. o.at + 1 \in Nat
    BY DEF Op
  <2>2. [o EXCEPT !.at = o.at + 1, !.pc = pc] \in Op
    BY <2>1 DEF Op
  <2>3. Onward(o, pc) = [o EXCEPT !.at = o.at + 1, !.pc = pc]
    BY <1>1 DEF Onward
  <2> QED  BY <1>1, <2>2, <2>3 DEF Op
<1>2. CASE ~(o.at < Len(o.src))
  BY <1>2 DEF Onward, Op, Step
<1> QED  BY <1>1, <1>2

LEMMA EndKeeps ==
    ASSUME IInv,
           RenameFails \/ PromoteMovedFails \/ MovedBack \/ TruncateFails \/ WriteFails \/ Release \/ Crash
    PROVE  IInv'
<1> USE DEF IInv, history, vars
<1>0. op \in Op
  BY DEF TypeOK
<1>1. CASE RenameFails \/ PromoteMovedFails \/ MovedBack \/ TruncateFails
  <2>1. Busy /\ UNCHANGED <<disk, mounted, history>> /\ \E answer \in {"error", "partial"} : Answers(answer)
    BY <1>1 DEF RenameFails, PromoteMovedFails, MovedBack, TruncateFails, Fails, Busy
  <2>2. op' \in Op /\ op'.pc = "done" /\ SamePaths
    <3>1. PICK answer \in {"error", "partial"} : op' = [op EXCEPT !.pc = "done", !.answer = answer, !.temp = Absent]
      BY <2>1 DEF Answers
    <3>2. Absent \in Entry
      BY DEF Absent, Entry
    <3> QED  BY <1>0, <3>1, <3>2 DEF Op, Step, SamePaths
  <2> QED  BY <2>1, <2>2, Ended DEF SamePaths
<1>2. CASE WriteFails
  <2>1. op' = [op EXCEPT !.pc = "done", !.answer = "error", !.failed = TRUE]
        /\ Busy /\ UNCHANGED <<disk, mounted, history>>
    BY <1>2 DEF WriteFails, Goes, Busy
  <2>2. op' \in Op /\ op'.pc = "done" /\ SamePaths
    BY <1>0, <2>1 DEF Op, Step, SamePaths
  <2> QED  BY <2>1, <2>2, Ended DEF SamePaths
<1>3. CASE Release \/ Crash
  <2>1. op' = Idle /\ UNCHANGED <<disk, mounted, history>>
    BY <1>3 DEF Release, Crash
  <2>2. op' \in Op /\ op'.pc = "idle"
    BY <2>1, IdleType DEF Idle
  <2> QED  BY <2>1, <2>2, Ended
<1> QED  BY <1>1, <1>2, <1>3

LEMMA TurnKeeps == ASSUME IInv, Crosses \/ BatchMoveFails PROVE IInv'
<1> USE DEF IInv, history
<1>0. op \in Op
  BY DEF TypeOK
<1>1. CASE Crosses
  <2>1. op' = [op EXCEPT !.pc = "open"] /\ op.pc = "act" /\ op.kind = "move"
        /\ UNCHANGED <<disk, mounted, history>>
    BY <1>1 DEF Crosses, Goes
  <2>2. op' \in Op /\ SamePaths /\ op'.pc = "open" /\ op'.at = op.at
    BY <1>0, <2>1 DEF Op, Step, SamePaths
  <2>3. ShapeInv'
    BY <2>1, <2>2 DEF ShapeInv, Busy, Item, SamePaths, Moves, Copies, Removals
  <2>4. op.at \in Item /\ ~(op.at < op.at)
    BY <1>0, <2>1 DEF ShapeInv, Busy, Op
  <2>5. MoveInv'
    BY <2>1, <2>2, <2>4 DEF MoveInv, Spare, Excused, To, Item, SamePaths, Moves
  <2>6. CopyInv' /\ RemovalInv'
    BY <2>1, <2>2 DEF CopyInv, RemovalInv, SamePaths, Copies
  <2> QED  BY <2>1, <2>2, <2>3, <2>5, <2>6, Still
<1>2. CASE BatchMoveFails
  <2>1. op' = [op EXCEPT !.pc = "back", !.at = @ - 1] /\ op.pc = "act" /\ op.kind = "batchMove"
        /\ UNCHANGED <<disk, mounted, history>>
    BY <1>2 DEF BatchMoveFails, Goes
  <2>2. op.at \in Item /\ Item = 1..Len(op.src) /\ Len(op.src) \in Nat
    BY <1>0, <2>1, Items DEF ShapeInv, Busy
  <2>3. op' \in Op /\ SamePaths /\ op'.pc = "back" /\ op'.at = op.at - 1
    <3>1. op.at - 1 \in Nat
      BY <2>2
    <3> QED  BY <1>0, <2>1, <3>1 DEF Op, Step, SamePaths
  <2>4. ShapeInv'
    BY <2>1, <2>2, <2>3 DEF ShapeInv, Busy, Item, SamePaths, Moves, Copies, Removals
  <2>5. MoveInv'
    BY <2>1, <2>2, <2>3 DEF MoveInv, Spare, Excused, Item, SamePaths, Moves
  <2>6. CopyInv' /\ RemovalInv'
    BY <2>1, <2>3 DEF CopyInv, RemovalInv, SamePaths, Copies
  <2> QED  BY <2>1, <2>3, <2>4, <2>5, <2>6, Still
<1> QED  BY <1>1, <1>2

\* To clean up is to remove what the copy has made or may have replaced.
LEMMA CleansUpKeeps ==
    ASSUME IInv, Busy, op.kind \in Copies, NEW paths \in SUBSET Path, NEW answer \in {"error", "partial"},
           op' = CleansUp(paths, answer), UNCHANGED <<disk, mounted, history>>,
           \A p \in paths : \E i \in Item : p \in {op.dst[i], Stage(op.dst[i])} /\ Backed(p, i)
    PROVE  IInv'
<1> USE DEF IInv, history
<1>0. op \in Op
  BY DEF TypeOK
<1>1. op' \in Op /\ SamePaths /\ op'.pc = "cleanup" /\ op'.clean = paths
  BY <1>0 DEF CleansUp, Op, Step, SamePaths
<1>2. ShapeInv'
  BY <1>1 DEF ShapeInv, Busy, Item, SamePaths, Copies, Removals, Moves
<1>3. MoveInv' /\ RemovalInv'
  BY <1>1 DEF MoveInv, RemovalInv, SamePaths, Copies, Moves
<1>4. ASSUME NEW p \in paths
      PROVE  p \in Mine /\ (\A i \in Item : p # op.src[i]) /\ \E i \in Item : Backed(p, i)
  <2>1. PICK i \in Item : p \in {op.dst[i], Stage(op.dst[i])} /\ Backed(p, i)
    BY <1>4
  <2>2. \A j \in Item : op.src[j] # op.dst[i] /\ op.src[j] # Stage(op.dst[i])
    BY <1>0, Items DEF ShapeInv, Copies, Removals
  <2> QED  BY <1>0, <2>1, <2>2, Items
<1>5. CopyInv'
  BY <1>1, <1>4 DEF CopyInv, SamePaths, Mine, PathsOf, Item, Backed, Excused
<1> QED  BY <1>1, <1>2, <1>3, <1>5, Still

LEMMA CleaningKeeps == ASSUME IInv, op.kind # "move", CopyFails \/ PromoteCopiedFails PROVE IInv'
<1> USE DEF IInv
<1>0. op \in Op /\ Busy
  BY DEF TypeOK, CopyFails, PromoteCopiedFails, Busy
<1>1. Item = 1..Len(op.src) /\ Len(op.src) \in Nat /\ \A i \in Item : op.dst[i] \in Path /\ Stage(op.dst[i]) \in Path
  BY <1>0, Items
<1>2. CASE CopyFails
  <2>1. op.kind \in Copies /\ op.at \in Item
    BY <1>0, <1>2 DEF ShapeInv, CopyFails
  <2> DEFINE P == IF op.kind = "copy" THEN {To} ELSE StagesBefore(op.at + 1)
  <2>2. op' = CleansUp(P, "error") /\ UNCHANGED <<disk, mounted, history>>
    BY <1>2 DEF CopyFails
  <2>3. ASSUME NEW p \in P
        PROVE  p \in Path /\ \E i \in Item : p \in {op.dst[i], Stage(op.dst[i])} /\ Backed(p, i)
    <3>1. CASE op.kind = "copy"
      BY <1>1, <1>2, <2>1, <2>3, <3>1 DEF To, CopyInv, CopyFails, Copies
    <3>2. CASE op.kind # "copy"
      <4>1. PICK i \in Item : i < op.at + 1 /\ p = Stage(op.dst[i])
        BY <2>3, <3>2 DEF StagesBefore
      <4>2. i <= op.at
        BY <1>1, <2>1, <4>1
      <4>3. Backed(p, i)
        BY <1>2, <2>1, <3>2, <4>1, <4>2 DEF CopyInv, CopyFails, Copies
      <4> QED  BY <1>1, <4>1, <4>3
    <3> QED  BY <3>1, <3>2
  <2> QED  BY <1>0, <2>1, <2>2, <2>3, CleansUpKeeps
<1>3. CASE PromoteCopiedFails
  <2>1. op.kind = "batchCopy" /\ op.pc = "promote" /\ op.at \in Item
    BY <1>0, <1>3 DEF ShapeInv, PromoteCopiedFails
  <2> DEFINE P == {op.dst[j] : j \in {j \in Item : j < op.at}} \cup StagesBefore(Len(op.src) + 1)
  <2>2. op' = CleansUp(P, "partial") /\ UNCHANGED <<disk, mounted, history>>
    BY <1>3 DEF PromoteCopiedFails, Goes
  <2>3. ASSUME NEW p \in P
        PROVE  p \in Path /\ \E i \in Item : p \in {op.dst[i], Stage(op.dst[i])} /\ Backed(p, i)
    <3>1. PICK i \in Item : p = op.dst[i] \/ p = Stage(op.dst[i])
      BY <2>3 DEF StagesBefore
    <3>2. Backed(op.dst[i], i) /\ Backed(Stage(op.dst[i]), i)
      BY <2>1 DEF CopyInv, Copies
    <3> QED  BY <1>1, <3>1, <3>2
  <2> QED  BY <1>0, <2>1, <2>2, <2>3, CleansUpKeeps DEF Copies
<1> QED  BY <1>2, <1>3

LEMMA LookKeeps == ASSUME IInv, LookForStage PROVE IInv'
<1> USE DEF IInv, history
<1>0. op \in Op /\ Busy /\ op.pc = "look" /\ op.kind = "batchCopy" /\ op.at \in Item
  BY DEF TypeOK, LookForStage, Busy, ShapeInv
<1>1. Item = 1..Len(op.src) /\ Len(op.src) \in Nat /\ \A i \in Item : op.dst[i] \in Path /\ Stage(op.dst[i]) \in Path
  BY <1>0, Items
<1>2. CASE Exists(Stage(To))
  <2>1. op' = CleansUp(StagesBefore(op.at), "error") /\ UNCHANGED <<disk, mounted, history>>
    BY <1>2 DEF LookForStage, Goes
  <2>2. ASSUME NEW p \in StagesBefore(op.at)
        PROVE  p \in Path /\ \E i \in Item : p \in {op.dst[i], Stage(op.dst[i])} /\ Backed(p, i)
    <3>1. PICK i \in Item : i < op.at /\ p = Stage(op.dst[i])
      BY <2>2 DEF StagesBefore
    <3>2. Backed(p, i)
      BY <1>0, <3>1 DEF CopyInv, Copies
    <3> QED  BY <1>1, <3>1, <3>2
  <2> QED  BY <1>0, <2>1, <2>2, CleansUpKeeps DEF Copies
<1>3. CASE ~Exists(Stage(To))
  <2>1. op' = [op EXCEPT !.pc = "open"] /\ UNCHANGED <<disk, mounted, history>>
    BY <1>3 DEF LookForStage, Goes
  <2>2. op' \in Op /\ SamePaths /\ op'.pc = "open" /\ op'.at = op.at
    BY <1>0, <2>1 DEF Op, Step, SamePaths
  <2>3. ShapeInv'
    BY <1>0, <2>2 DEF ShapeInv, Busy, Item, SamePaths, Moves, Copies, Removals
  <2>4. MoveInv' /\ RemovalInv'
    BY <1>0, <2>2 DEF MoveInv, RemovalInv, SamePaths, Moves
  <2>5. \A i \in Item : Backed(op.dst[i], i) /\ (i <= op.at => Backed(Stage(op.dst[i]), i))
    <3>1. Backed(Stage(To), op.at)
      BY <1>0, <1>1, <1>3 DEF AbsentInv, Backed, Exists, To
    <3>2. \A i \in Item : i <= op.at => i < op.at \/ i = op.at
      BY <1>0, <1>1
    <3> QED  BY <1>0, <3>1, <3>2 DEF CopyInv, Copies, To
  <2>6. CopyInv'
    BY <1>0, <2>1, <2>2, <2>5 DEF CopyInv, SamePaths, Copies, Item, Backed, Excused
  <2> QED  BY <2>1, <2>2, <2>3, <2>4, <2>6, Still
<1> QED  BY <1>2, <1>3

LEMMA CopyEndsKeeps == ASSUME IInv, CopyEnds PROVE IInv'
<1> USE DEF IInv, history
<1>0. op \in Op /\ Busy /\ op.pc = "copy" /\ op.at \in Item /\ op.left = {} /\ op.kind \in {"move"} \cup Copies
      /\ UNCHANGED <<disk, mounted, history>>
  BY DEF TypeOK, CopyEnds, Goes, Busy, ShapeInv
<1>1. Item = 1..Len(op.src) /\ Len(op.src) \in Nat \ {0}
  BY <1>0, Items
<1>2. CASE op.kind = "move"
  <2>1. op' = [op EXCEPT !.pc = "promote"]
    BY <1>2 DEF CopyEnds, Goes
  <2>2. op' \in Op /\ SamePaths /\ op'.pc = "promote" /\ op'.at = op.at /\ op'.temp = op.temp
    BY <1>0, <2>1 DEF Op, Step, SamePaths
  <2>3. ShapeInv'
    BY <1>0, <1>2, <2>2 DEF ShapeInv, Busy, Item, SamePaths, Moves, Copies, Removals
  <2>4. MoveInv'
    BY <1>0, <1>2, <2>2 DEF MoveInv, SamePaths, Moves, Spare, Excused, To, At, Item
  <2>5. CopyInv' /\ RemovalInv'
    BY <1>2, <2>2 DEF CopyInv, RemovalInv, SamePaths, Copies
  <2> QED  BY <1>0, <2>2, <2>3, <2>4, <2>5, Still
<1>3. CASE op.kind = "copy"
  <2>1. op' = [op EXCEPT !.pc = "done", !.answer = "ok"]
    BY <1>3 DEF CopyEnds, Goes
  <2>2. op' \in Op /\ SamePaths /\ op'.pc = "done"
    BY <1>0, <2>1 DEF Op, Step, SamePaths
  <2> QED  BY <1>0, <2>2, Ended DEF SamePaths
<1>4. CASE op.kind = "batchCopy"
  <2> DEFINE n == IF op.at < Len(op.src) THEN op.at + 1 ELSE 1
             pc == IF op.at < Len(op.src) THEN "look" ELSE "promote"
  <2>1. op' = [op EXCEPT !.pc = pc, !.at = n]
    BY <1>4 DEF CopyEnds, Goes
  <2>2. n \in Item /\ n \in Nat
    BY <1>0, <1>1
  <2>3. op' \in Op /\ SamePaths /\ op'.pc = pc /\ op'.at = n
    BY <1>0, <2>1, <2>2 DEF Op, Step, SamePaths
  <2>4. ShapeInv'
    BY <1>0, <1>4, <2>2, <2>3 DEF ShapeInv, Busy, Item, SamePaths, Moves, Copies, Removals
  <2>5. MoveInv' /\ RemovalInv'
    BY <1>4, <2>3 DEF MoveInv, RemovalInv, SamePaths, Moves
  <2>6. \A i \in Item : Backed(op.dst[i], i) /\ (i <= op.at => Backed(Stage(op.dst[i]), i))
    BY <1>0, <1>4 DEF CopyInv, Copies
  <2>7. \A i \in Item : (pc = "look" /\ i < n) \/ pc = "promote" => i <= op.at
    BY <1>0, <1>1
  <2>8. CopyInv'
    BY <1>0, <1>4, <2>3, <2>6, <2>7 DEF CopyInv, SamePaths, Copies, Item, Backed, Excused
  <2> QED  BY <1>0, <2>3, <2>4, <2>5, <2>8, Still
<1> QED  BY <1>0, <1>2, <1>3, <1>4 DEF Copies

LEMMA CheckKeeps == ASSUME IInv, CheckItem \/ SkipItem PROVE IInv'
<1> USE DEF IInv, history
<1>0. op \in Op /\ Busy /\ op.pc = "check" /\ op.at \in Item /\ op.kind = "batchDelete"
      /\ UNCHANGED <<disk, mounted, history>>
  BY DEF TypeOK, CheckItem, SkipItem, Goes, Busy, ShapeInv
<1>1. Item = 1..Len(op.src) /\ Len(op.src) \in Nat \ {0}
  BY <1>0, Items
<1>2. CASE CheckItem
  <2>1. op' = [op EXCEPT !.pc = "remove"] /\ disk[At] = op.before[At]
    BY <1>2 DEF CheckItem, Goes
  <2>2. op' \in Op /\ SamePaths /\ op'.pc = "remove" /\ op'.at = op.at
    BY <1>0, <2>1 DEF Op, Step, SamePaths
  <2>3. ShapeInv'
    BY <1>0, <2>2 DEF ShapeInv, Busy, Item, SamePaths, Moves, Copies, Removals
  <2>4. MoveInv' /\ CopyInv'
    BY <1>0, <2>2 DEF MoveInv, CopyInv, SamePaths, Moves, Copies
  <2>5. RemovalInv'
    BY <1>0, <2>1, <2>2 DEF RemovalInv, SamePaths, At
  <2> QED  BY <1>0, <2>2, <2>3, <2>4, <2>5, Still
<1>3. CASE SkipItem
  <2> DEFINE o == [op EXCEPT !.failed = TRUE]
  <2>1. o \in Op /\ o.kind = op.kind /\ o.src = op.src /\ o.dst = op.dst /\ o.before = op.before /\ o.at = op.at
    BY <1>0 DEF Op
  <2>2. op' = Onward(o, "check") /\ "check" \in Step
    BY <1>3 DEF SkipItem, Goes, Step
  <2>3. op' \in Op /\ SamePaths /\ ((op.at < Len(op.src) /\ op'.at = op.at + 1 /\ op'.pc = "check") \/ op'.pc = "done")
    <3> HIDE DEF o
    <3> QED  BY <2>1, <2>2, OnwardIs DEF SamePaths
  <2>4. ShapeInv'
    BY <1>0, <1>1, <2>3 DEF ShapeInv, Busy, Item, SamePaths, Moves, Copies, Removals
  <2>5. MoveInv' /\ CopyInv' /\ RemovalInv'
    BY <1>0, <2>3 DEF MoveInv, CopyInv, RemovalInv, SamePaths, Moves, Copies
  <2> QED  BY <1>0, <2>3, <2>4, <2>5, Still
<1> QED  BY <1>2, <1>3

-----------------------------------------------------------------------------
(* Steps of the operation that change the disk.                            *)

\* Nothing is lost by a step that leaves each content somewhere, or excused.
LEMMA Kept ==
    ASSUME NothingElseIsLost, known' \subseteq known \cup Held(disk)' \cup Excused', Excused \subseteq Excused',
           \A q \in Path : disk[q].has \subseteq Held(disk)' \cup Excused'
    PROVE  NothingElseIsLost'
BY DEF NothingElseIsLost, Held, Excused

LEMMA HeldIs == \A q \in Path : disk[q].has \subseteq Held(disk) /\ disk'[q].has \subseteq Held(disk)'
BY DEF Held

\* An entry put in the place of one that nobody needs there.
LEMMA RenameKeeps == ASSUME IInv, Rename PROVE IInv'
<1> USE DEF IInv, history
<1>0. op \in Op /\ Busy /\ op.pc = "act" /\ op.at \in Item /\ op.kind \in Moves
  BY DEF TypeOK, Rename, Busy, ShapeInv
<1>1. /\ Item = 1..Len(op.src) /\ Len(op.src) \in Nat \ {0}
      /\ At \in Path /\ To \in Path /\ At # To
      /\ \A i \in Item : op.src[i] \in Path /\ op.dst[i] \in Path
      /\ \A i, j \in Item : op.src[i] # op.dst[j]
      /\ \A i, j \in Item : i # j => op.src[i] # op.src[j] /\ op.dst[i] # op.dst[j]
  BY <1>0, Items DEF At, To, ShapeInv, Moves, Removals
<1>2. disk' = [disk EXCEPT ![At] = Absent, ![To] = disk[At]] /\ op' = Onward(op, "act")
      /\ UNCHANGED <<mounted, history>> /\ disk[At].kind # "none"
  BY DEF Rename, Renamed, CanRename, Replaces
<1>3. /\ disk' \in [Path -> Entry] /\ disk'[At] = Absent /\ disk'[To] = disk[At]
      /\ \A q \in Path : q # At /\ q # To => disk'[q] = disk[q]
  <2>1. Absent \in Entry
    BY DEF Absent, Entry
  <2> QED  BY <1>1, <1>2, <2>1 DEF TypeOK
<1>4. op' \in Op /\ SamePaths /\ ((op.at < Len(op.src) /\ op'.at = op.at + 1 /\ op'.pc = "act") \/ op'.pc = "done")
  BY <1>0, <1>2, OnwardIs DEF SamePaths, Step
<1>5. TypeOK'
  BY <1>2, <1>3, <1>4 DEF TypeOK
<1>6. AbsentInv'
  BY <1>2, <1>3 DEF AbsentInv, Absent
<1>7. ShapeInv'
  BY <1>0, <1>1, <1>4 DEF ShapeInv, Busy, Item, SamePaths, Moves, Copies, Removals
<1>8. Spare(To)
  BY <1>0, <1>1 DEF MoveInv, To
<1>9. NothingElseIsLost'
  <2>1. \A q \in Path : disk[q].has \subseteq Held(disk)' \cup Excused'
    BY <1>1, <1>2, <1>3, <1>8, HeldIs DEF Spare, Excused
  <2> QED  BY <1>2, <2>1, Kept DEF Excused
<1>10. MoveInv'
  <2>1. CASE op'.pc = "act"
    <3>1. \A i \in Item : IF i < op.at THEN Spare(op.src[i]) ELSE Spare(op.dst[i])
      BY <1>0 DEF MoveInv
    <3>2. disk'[op.src[op.at]].has \subseteq Excused'
      BY <1>1, <1>3 DEF Spare, At, Absent
    <3>3. \A i \in Item : i < op.at + 1 => i = op.at \/ (i < op.at /\ i # op.at)
      BY <1>0, <1>1
    <3>4. \A i \in Item : ~(i < op.at + 1) => ~(i < op.at) /\ i # op.at
      BY <1>0, <1>1
    <3>5. ASSUME NEW i \in Item, i < op.at, i # op.at PROVE disk'[op.src[i]].has \subseteq Excused'
      <4>1. disk'[op.src[i]] = disk[op.src[i]]
        BY <1>0, <1>1, <1>3, <3>5 DEF At, To
      <4> QED  BY <1>2, <3>1, <3>5, <4>1 DEF Spare, Excused
    <3>6. ASSUME NEW i \in Item, ~(i < op.at), i # op.at PROVE disk'[op.dst[i]].has \subseteq Excused'
      <4>1. disk'[op.dst[i]] = disk[op.dst[i]]
        BY <1>0, <1>1, <1>3, <3>6 DEF At, To
      <4> QED  BY <1>2, <3>1, <3>6, <4>1 DEF Spare, Excused
    <3>7. ASSUME NEW i \in Item
          PROVE  IF i < op.at + 1 THEN disk'[op.src[i]].has \subseteq Excused'
                                  ELSE disk'[op.dst[i]].has \subseteq Excused'
      BY <3>2, <3>3, <3>4, <3>5, <3>6
    <3> QED  BY <1>4, <2>1, <3>7 DEF MoveInv, SamePaths, Item, Spare
  <2>2. CASE op'.pc = "done"
    BY <2>2 DEF MoveInv
  <2> QED  BY <1>4, <2>1, <2>2
<1>11. CopyInv' /\ RemovalInv'
  BY <1>0, <1>4 DEF CopyInv, RemovalInv, SamePaths, Moves, Copies
<1> QED  BY <1>5, <1>6, <1>7, <1>9, <1>10, <1>11

LEMMA BackKeeps == ASSUME IInv, MoveBack PROVE IInv'
<1> USE DEF IInv, history
<1>0. op \in Op /\ Busy /\ op.pc = "back" /\ op.kind \in Moves /\ UNCHANGED <<mounted, history>>
  BY DEF TypeOK, MoveBack, Busy, ShapeInv
<1>1. /\ Item = 1..Len(op.src) /\ Len(op.src) \in Nat \ {0} /\ op.at \in Item
      /\ \A i \in Item : op.src[i] \in Path /\ op.dst[i] \in Path
      /\ \A i, j \in Item : op.src[i] # op.dst[j]
      /\ \A i, j \in Item : i # j => op.src[i] # op.src[j]
  BY <1>0, Items DEF MoveBack, ShapeInv, Moves, Removals
<1>2. At \in Path /\ To \in Path /\ At # To /\ Spare(At)
  BY <1>0, <1>1 DEF At, To, MoveInv
<1>3. op' \in Op /\ SamePaths /\ op'.at = op.at - 1 /\ op'.pc = "back"
  <2>1. op.at - 1 \in Nat
    BY <1>1
  <2>2. op' = [op EXCEPT !.at = op.at - 1] \/ op' = [op EXCEPT !.at = op.at - 1, !.failed = TRUE]
    BY DEF MoveBack
  <2>3. CASE op' = [op EXCEPT !.at = op.at - 1]
    BY <1>0, <2>1, <2>3 DEF Op, SamePaths
  <2>4. CASE op' = [op EXCEPT !.at = op.at - 1, !.failed = TRUE]
    BY <1>0, <2>1, <2>4 DEF Op, SamePaths
  <2> QED  BY <2>2, <2>3, <2>4
<1>4. ShapeInv'
  BY <1>0, <1>1, <1>3, SMTT(30) DEF ShapeInv, Busy, Item, SamePaths, Moves, Copies, Removals
<1>5. CopyInv' /\ RemovalInv'
  BY <1>0, <1>3 DEF CopyInv, RemovalInv, SamePaths, Moves, Copies
<1>6. \A i \in Item : i <= op.at - 1 => i <= op.at /\ i # op.at
  BY <1>1
<1>7. CASE UNCHANGED disk
  <2>1. MoveInv'
    BY <1>0, <1>1, <1>3, <1>6, <1>7 DEF MoveInv, SamePaths, Spare, Excused, Item
  <2> QED  BY <1>0, <1>3, <1>4, <1>5, <1>7, <2>1, Still
<1>8. CASE disk' = Renamed(To, At)
  <2>1. /\ disk' \in [Path -> Entry] /\ disk'[To] = Absent /\ disk'[At] = disk[To]
        /\ \A q \in Path : q # At /\ q # To => disk'[q] = disk[q]
    <3>1. Absent \in Entry
      BY DEF Absent, Entry
    <3> QED  BY <1>2, <1>8, <3>1 DEF TypeOK, Renamed
  <2>2. TypeOK' /\ AbsentInv'
    BY <1>0, <1>2, <1>3, <2>1 DEF TypeOK, AbsentInv, Absent
  <2>3. \A q \in Path : disk[q].has \subseteq Held(disk)' \cup Excused'
    BY <1>0, <1>2, <2>1, HeldIs DEF Spare, Excused
  <2>4. NothingElseIsLost'
    BY <1>0, <2>3, Kept DEF Excused
  <2>5. ASSUME NEW i \in Item, i <= op.at - 1 PROVE disk'[op.src[i]].has \subseteq Excused'
    <3>1. disk'[op.src[i]] = disk[op.src[i]]
      BY <1>1, <1>6, <2>1, <2>5 DEF At, To
    <3>2. Spare(op.src[i])
      BY <1>0, <1>6, <2>5 DEF MoveInv
    <3> QED  BY <1>0, <3>1, <3>2 DEF Spare, Excused
  <2>6. MoveInv'
    BY <1>3, <2>5 DEF MoveInv, SamePaths, Item, Spare
  <2> QED  BY <1>4, <1>5, <2>2, <2>4, <2>6
<1> QED  BY <1>7, <1>8 DEF MoveBack

\* The entry at one path changes; what it loses is elsewhere or excused.
LEMMA OneChanges ==
    ASSUME IInv, NEW p \in Path, NEW e \in Entry, disk' = [disk EXCEPT ![p] = e],
           e.kind = "none" => e.has = {}, UNCHANGED <<mounted, count>>, op' \in Op,
           known' \subseteq known \cup (e.has \cap Content), given' \subseteq Content, exposed' = exposed,
           given \subseteq given', disk[p].has \subseteq Held(disk)' \cup Excused'
    PROVE  /\ TypeOK' /\ AbsentInv' /\ NothingElseIsLost'
           /\ disk'[p] = e /\ \A q \in Path : q # p => disk'[q] = disk[q]
<1> USE DEF IInv
<1>1. disk' \in [Path -> Entry] /\ disk'[p] = e /\ \A q \in Path : q # p => disk'[q] = disk[q]
  BY DEF TypeOK
<1>2. TypeOK' /\ AbsentInv'
  BY <1>1 DEF TypeOK, AbsentInv
<1>3. \A q \in Path : disk[q].has \subseteq Held(disk)' \cup Excused'
  BY <1>1, HeldIs
<1>4. known' \subseteq known \cup Held(disk)' \cup Excused' /\ Excused \subseteq Excused'
  BY <1>1, HeldIs DEF Excused
<1> QED  BY <1>1, <1>2, <1>3, <1>4, Kept

LEMMA AnswersIs ==
    ASSUME op \in Op, NEW answer \in {"ok", "error", "partial"}, Answers(answer)
    PROVE  op' \in Op /\ SamePaths /\ op'.pc = "done"
<1>1. Absent \in Entry
  BY DEF Absent, Entry
<1> QED  BY <1>1 DEF Answers, Op, Step, SamePaths

\* An operation that has its answer is bound to nothing any more.
LEMMA DoneIs ==
    ASSUME IInv, Busy, SamePaths, op'.pc = "done", op' \in Op
    PROVE  ShapeInv' /\ MoveInv' /\ CopyInv' /\ RemovalInv'
<1>1. ShapeInv'
  BY DEF IInv, ShapeInv, Busy, Item, SamePaths
<1> QED  BY <1>1 DEF MoveInv, CopyInv, RemovalInv

LEMMA PromoteMovedKeeps == ASSUME IInv, PromoteMoved PROVE IInv'
<1> USE DEF IInv, history
<1>0. /\ op \in Op /\ Busy /\ op.pc = "promote" /\ op.at \in Item /\ op.kind = "move"
      /\ disk' = [disk EXCEPT ![To] = op.temp] /\ op.temp.kind # "none" /\ op.temp \in Entry
      /\ op' = [op EXCEPT !.pc = "unlink", !.temp = Absent] /\ UNCHANGED <<mounted, history>>
  BY DEF TypeOK, PromoteMoved, Replaces, Busy, ShapeInv, Op
<1>1. At \in Path /\ To \in Path /\ At # To
  BY <1>0, Items DEF At, To, ShapeInv, Removals
<1>2. Spare(To) /\ disk[At].has \subseteq op.temp.has \cup Excused
  BY <1>0 DEF MoveInv, Moves
<1>3. op' \in Op /\ SamePaths /\ op'.pc = "unlink" /\ op'.at = op.at
  <2>1. Absent \in Entry
    BY DEF Absent, Entry
  <2> QED  BY <1>0, <2>1 DEF Op, Step, SamePaths
<1>4. /\ TypeOK' /\ AbsentInv' /\ NothingElseIsLost'
      /\ disk'[To] = op.temp /\ \A q \in Path : q # To => disk'[q] = disk[q]
  BY <1>0, <1>1, <1>2, <1>3, OneChanges DEF TypeOK, Spare, Excused
<1>5. ShapeInv'
  BY <1>0, <1>3 DEF ShapeInv, Busy, Item, SamePaths, Copies, Removals
<1>6. At' = At /\ To' = To /\ Excused' = Excused
  BY <1>0, <1>3 DEF At, To, SamePaths, Excused
<1>7. disk'[At].has \subseteq disk'[To].has \cup Excused
  BY <1>1, <1>2, <1>4
<1>8. MoveInv'
  BY <1>3, <1>6, <1>7 DEF MoveInv
<1>9. CopyInv' /\ RemovalInv'
  BY <1>0, <1>3 DEF CopyInv, RemovalInv, SamePaths, Copies
<1> QED  BY <1>4, <1>5, <1>8, <1>9

LEMMA UnlinkKeeps ==
    ASSUME IInv, Unlink \/ \E S \in SUBSET Content : UnlinkFails(S)
    PROVE  IInv'
<1> USE DEF IInv, history
<1>0. op \in Op /\ Busy /\ op.pc = "unlink" /\ op.at \in Item /\ op.kind = "move" /\ UNCHANGED <<mounted, history>>
  BY DEF TypeOK, Unlink, UnlinkFails, Busy, ShapeInv
<1>1. At \in Path /\ To \in Path /\ At # To
  BY <1>0, Items DEF At, To, ShapeInv, Removals
<1>2. disk[At].has \subseteq disk[To].has \cup Excused /\ disk \in [Path -> Entry]
  BY <1>0 DEF MoveInv, Moves, TypeOK
<1>3. PICK e \in Entry : disk' = [disk EXCEPT ![At] = e] /\ (e.kind = "none" => e.has = {})
  <2>1. CASE Unlink
    <3>1. Absent \in Entry /\ Absent.has = {}
      BY DEF Absent, Entry
    <3> QED  BY <2>1, <3>1 DEF Unlink
  <2>2. CASE \E S \in SUBSET Content : UnlinkFails(S)
    <3>1. PICK S \in SUBSET Content : UnlinkFails(S)
      BY <2>2
    <3> DEFINE e == [disk[At] EXCEPT !.has = @ \ S]
    <3>2. disk[At] \in Entry /\ (disk[At].kind = "none" => disk[At].has = {})
      BY <1>1, <1>2 DEF AbsentInv
    <3>3. e \in Entry /\ (e.kind = "none" => e.has = {})
      BY <3>2 DEF Entry
    <3>4. disk' = [disk EXCEPT ![At] = e]
      BY <1>1, <1>2, <3>1 DEF UnlinkFails, Without
    <3> QED  BY <3>3, <3>4
  <2> QED  BY <2>1, <2>2
<1>4. op' \in Op /\ SamePaths /\ op'.pc = "done"
  BY <1>0, AnswersIs DEF Unlink, UnlinkFails
<1>5. disk[At].has \subseteq Held(disk)' \cup Excused'
  <2>1. disk'[To] = disk[To]
    BY <1>1, <1>2, <1>3
  <2> QED  BY <1>0, <1>1, <1>2, <2>1, HeldIs DEF Excused
<1>6. TypeOK' /\ AbsentInv' /\ NothingElseIsLost'
  BY <1>0, <1>1, <1>3, <1>4, <1>5, OneChanges DEF TypeOK
<1> QED  BY <1>0, <1>4, <1>6, DoneIs

LEMMA SaveKeeps == ASSUME IInv, Truncate \/ \E c \in Content : Write(c) PROVE IInv'
<1> USE DEF IInv, history
<1>0. op \in Op /\ Busy /\ op.pc \in {"truncate", "write"} /\ op.at \in Item /\ op.kind = "save"
      /\ UNCHANGED <<mounted, exposed, count>>
  BY DEF TypeOK, Truncate, Write, Busy, ShapeInv
<1>1. At \in Path
  BY <1>0, Items DEF At
<1>2. CASE Truncate
  <2>1. /\ disk' = [disk EXCEPT ![At] = Empty("file")] /\ given' = given \cup op.before[At].has
        /\ op' = [op EXCEPT !.pc = "write"] /\ known' = known /\ op.pc = "truncate"
    BY <1>2 DEF Truncate
  <2>2. op' \in Op /\ SamePaths /\ op'.pc = "write" /\ op'.at = op.at
    BY <1>0, <2>1 DEF Op, Step, SamePaths
  <2>3. disk[At].has \subseteq op.before[At].has \cup Excused /\ op.before[At].has \subseteq Content
    BY <1>0, <1>1, <2>1 DEF RemovalInv, Op, Entry
  <2>4. Empty("file") \in Entry /\ Empty("file").kind # "none"
    BY DEF Empty, Entry
  <2>5. TypeOK' /\ AbsentInv' /\ NothingElseIsLost'
    BY <1>0, <1>1, <2>1, <2>2, <2>3, <2>4, OneChanges DEF TypeOK, Excused
  <2>6. ShapeInv'
    BY <1>0, <2>2 DEF ShapeInv, Busy, Item, SamePaths, Moves, Copies, Removals
  <2>7. MoveInv' /\ CopyInv' /\ RemovalInv'
    BY <1>0, <2>2 DEF MoveInv, CopyInv, RemovalInv, SamePaths, Moves, Copies
  <2> QED  BY <2>5, <2>6, <2>7
<1>3. ASSUME NEW c \in Content, Write(c) PROVE IInv'
  <2>1. /\ disk' = [disk EXCEPT ![At] = File(c)] /\ given' = given /\ disk[At].has = {}
        /\ known' = known \cup {c} /\ Answers("ok")
    BY <1>3 DEF Write, Empty
  <2>2. op' \in Op /\ SamePaths /\ op'.pc = "done"
    BY <1>0, <2>1, AnswersIs
  <2>3. File(c) \in Entry /\ File(c).kind # "none" /\ File(c).has = {c}
    BY DEF File, Entry
  <2>4. TypeOK' /\ AbsentInv' /\ NothingElseIsLost'
    BY <1>0, <1>1, <2>1, <2>2, <2>3, OneChanges DEF TypeOK
  <2> QED  BY <1>0, <2>2, <2>4, DoneIs
<1> QED  BY <1>2, <1>3

LEMMA RemoveKeeps ==
    ASSUME IInv, RemoveItem \/ \E S \in SUBSET Content : RemoveItemFails(S)
    PROVE  IInv'
<1> USE DEF IInv, history
<1>0. op \in Op /\ Busy /\ op.pc = "remove" /\ op.at \in Item /\ op.kind = "batchDelete"
      /\ UNCHANGED <<mounted, known, exposed, count>>
  BY DEF TypeOK, RemoveItem, RemoveItemFails, Busy, ShapeInv
<1>1. At \in Path /\ Item = 1..Len(op.src) /\ Len(op.src) \in Nat \ {0}
  BY <1>0, Items DEF At
<1>2. /\ disk[At].has \subseteq op.before[At].has \cup Excused /\ op.before[At].has \subseteq Content
      /\ disk \in [Path -> Entry] /\ disk[At] \in Entry /\ given \subseteq Content
      /\ disk[At].kind = "none" => disk[At].has = {}
  BY <1>0, <1>1 DEF RemovalInv, Op, Entry, TypeOK, AbsentInv
<1>3. \E e \in Entry : /\ disk' = [disk EXCEPT ![At] = e] /\ (e.kind = "none" => e.has = {})
                       /\ disk[At].has \subseteq e.has \cup Excused'
                       /\ given \subseteq given' /\ given' \subseteq Content
  <2>1. CASE RemoveItem
    <3>1. Absent \in Entry /\ Absent.has = {}
      BY DEF Absent, Entry
    <3> QED  BY <1>0, <1>2, <2>1, <3>1 DEF RemoveItem, Excused
  <2>2. CASE \E S \in SUBSET Content : RemoveItemFails(S)
    <3>1. PICK S \in SUBSET Content : RemoveItemFails(S)
      BY <2>2
    <3> DEFINE e == [disk[At] EXCEPT !.has = @ \ S]
    <3>2. e \in Entry /\ (e.kind = "none" => e.has = {}) /\ e.has = disk[At].has \ S
      BY <1>2 DEF Entry
    <3>3. disk' = [disk EXCEPT ![At] = e] /\ given' = given \cup (S \cap op.before[At].has)
      BY <1>1, <1>2, <3>1 DEF RemoveItemFails, Without
    <3>4. disk[At].has \subseteq e.has \cup Excused'
      BY <1>0, <1>2, <3>2, <3>3 DEF Excused
    <3> HIDE DEF e
    <3> QED  BY <1>2, <3>2, <3>3, <3>4
  <2> QED  BY <2>1, <2>2
<1>4. PICK e \in Entry : /\ disk' = [disk EXCEPT ![At] = e] /\ (e.kind = "none" => e.has = {})
                         /\ disk[At].has \subseteq e.has \cup Excused'
                         /\ given \subseteq given' /\ given' \subseteq Content
  BY <1>3
<1>5. op' \in Op /\ SamePaths /\ ((op.at < Len(op.src) /\ op'.at = op.at + 1 /\ op'.pc = "check") \/ op'.pc = "done")
  <2> DEFINE o == [op EXCEPT !.failed = TRUE]
  <2>1. o \in Op /\ o.kind = op.kind /\ o.src = op.src /\ o.dst = op.dst /\ o.before = op.before /\ o.at = op.at
    BY <1>0 DEF Op
  <2>2. op' = Onward(op, "check") \/ op' = Onward(o, "check")
    BY DEF RemoveItem, RemoveItemFails
  <2>3. "check" \in Step
    BY DEF Step
  <2> HIDE DEF o
  <2> QED  BY <1>0, <2>1, <2>2, <2>3, OnwardIs DEF SamePaths
<1>6. disk[At].has \subseteq Held(disk)' \cup Excused'
  <2>1. disk'[At] = e
    BY <1>1, <1>2, <1>4
  <2> QED  BY <1>1, <1>4, <2>1, HeldIs
<1>7. TypeOK' /\ AbsentInv' /\ NothingElseIsLost'
  BY <1>0, <1>1, <1>4, <1>5, <1>6, OneChanges
<1>8. ShapeInv'
  BY <1>0, <1>1, <1>5 DEF ShapeInv, Busy, Item, SamePaths, Moves, Copies, Removals
<1>9. MoveInv' /\ CopyInv' /\ RemovalInv'
  BY <1>0, <1>5 DEF MoveInv, CopyInv, RemovalInv, SamePaths, Moves, Copies
<1> QED  BY <1>7, <1>8, <1>9

LEMMA MoveCopyFailsKeeps == ASSUME IInv, op.kind = "move", CopyFails PROVE IInv'
<1> USE DEF IInv, history
<1>1. op \in Op /\ Busy /\ Answers("error") /\ UNCHANGED <<disk, mounted, history>>
  BY DEF TypeOK, CopyFails, Busy
<1>2. op' \in Op /\ SamePaths /\ op'.pc = "done"
  BY <1>1, AnswersIs
<1> QED  BY <1>1, <1>2, Ended DEF SamePaths

\* A copy stays within its sources and leaves them alone.
LEMMA CopyStep ==
    ASSUME IInv, Busy, op.kind \in Copies, SamePaths, op'.at = op.at, op'.pc = "copy",
           op.at \in Item, op.pc \in {"open", "copy"},
           exposed' = exposed, given' = given, op'.left \subseteq disk[At].has \cup Excused,
           NEW e, disk'[Output] = e, e.has \subseteq disk[Output].has \cup disk[At].has \cup Excused,
           \A q \in Path : q # Output => disk'[q] = disk[q]
    PROVE  ShapeInv' /\ MoveInv' /\ CopyInv' /\ RemovalInv'
<1> USE DEF IInv
<1>1. op \in Op
  BY DEF TypeOK
<1>2. ShapeInv'
  BY DEF ShapeInv, Busy, Item, SamePaths, Copies, Removals, Moves
<1>3. MoveInv' /\ RemovalInv'
  BY DEF MoveInv, RemovalInv, SamePaths, Copies, Moves
<1>4. /\ \A i \in Item : op.src[i] \in Path /\ op.dst[i] \in Path /\ Stage(op.dst[i]) \in Path
      /\ \A i, j \in Item : op.src[i] # op.dst[j] /\ op.src[i] # Stage(op.dst[j]) /\ op.dst[i] # Stage(op.dst[j])
      /\ \A i, j \in Item : i # j => op.dst[i] # op.dst[j] /\ Stage(op.dst[i]) # Stage(op.dst[j])
  BY <1>1, Items DEF ShapeInv, Copies, Removals
<1>5. Output = (IF op.kind = "batchCopy" THEN Stage(op.dst[op.at]) ELSE op.dst[op.at])
  BY DEF Output, To
<1>6. \A i \in Item : disk'[op.src[i]] = disk[op.src[i]]
  BY <1>4, <1>5
<1>7. Excused' = Excused
  BY DEF Excused
<1>8. ASSUME NEW p \in Path, NEW i \in Item, Backed(p, i), p = Output => i = op.at
      PROVE  disk'[p].has \subseteq disk'[op.src[i]].has \cup Excused
  <2>1. CASE p = Output
    BY <1>6, <1>8, <2>1 DEF Backed, At
  <2>2. CASE p # Output
    BY <1>6, <1>8, <2>2 DEF Backed
  <2> QED  BY <2>1, <2>2
<1>9. ASSUME NEW i \in Item PROVE disk'[op.dst[i]].has \subseteq disk'[op.src[i]].has \cup Excused
  <2>1. Backed(op.dst[i], i)
    BY DEF CopyInv
  <2>2. op.dst[i] = Output => i = op.at
    BY <1>4, <1>5
  <2> QED  BY <1>4, <1>8, <2>1, <2>2
<1>10. ASSUME NEW i \in Item, op.kind = "batchCopy", i <= op.at
       PROVE  disk'[Stage(op.dst[i])].has \subseteq disk'[op.src[i]].has \cup Excused
  <2>1. Backed(Stage(op.dst[i]), i)
    BY <1>10 DEF CopyInv
  <2>2. Stage(op.dst[i]) = Output => i = op.at
    BY <1>4, <1>5, <1>10
  <2> QED  BY <1>4, <1>8, <2>1, <2>2
<1>11. op'.left \subseteq disk'[op.src[op.at]].has \cup Excused
  BY <1>6 DEF At
<1>12. CopyInv'
  BY <1>7, <1>9, <1>10, <1>11 DEF CopyInv, SamePaths, Item, Backed, At
<1> QED  BY <1>2, <1>3, <1>12

LEMMA OpenKeeps == ASSUME IInv, OpenCopy PROVE IInv'
<1> USE DEF IInv, history
<1>0. /\ op \in Op /\ Busy /\ op.pc = "open" /\ op.at \in Item /\ op.kind \in {"move"} \cup Copies
      /\ UNCHANGED <<mounted, history>>
  BY DEF TypeOK, OpenCopy, Busy, ShapeInv
<1>1. At \in Path /\ To \in Path /\ Stage(To) \in Path /\ Output \in Path /\ At # Output
  BY <1>0, Items DEF At, To, Output, ShapeInv, Copies, Removals
<1>2. disk[At] \in Entry /\ disk[At].has \subseteq Content /\ Empty(disk[At].kind) \in Entry
      /\ Empty(disk[At].kind).has = {}
  BY <1>1 DEF TypeOK, Entry, Empty
<1>3. CASE op.kind = "move"
  <2>1. op' = [op EXCEPT !.pc = "copy", !.left = disk[At].has, !.temp = Empty(disk[At].kind)] /\ UNCHANGED disk
    BY <1>3 DEF OpenCopy
  <2>2. op' \in Op /\ SamePaths /\ op'.pc = "copy" /\ op'.at = op.at /\ op'.left = disk[At].has
    BY <1>0, <1>2, <2>1 DEF Op, Step, SamePaths
  <2>3. ShapeInv'
    BY <1>0, <1>3, <2>2 DEF ShapeInv, Busy, Item, SamePaths, Moves, Copies, Removals
  <2>4. MoveInv'
    BY <1>0, <1>3, <2>1, <2>2 DEF MoveInv, SamePaths, Moves, Spare, Excused, To, At
  <2>5. CopyInv' /\ RemovalInv'
    BY <1>3, <2>2 DEF CopyInv, RemovalInv, SamePaths, Copies
  <2> QED  BY <1>0, <2>1, <2>2, <2>3, <2>4, <2>5, Still
<1>4. CASE op.kind # "move"
  <2> DEFINE e == Empty(disk[At].kind)
  <2>1. op' = [op EXCEPT !.pc = "copy", !.left = disk[At].has] /\ disk' = [disk EXCEPT ![Output] = e]
        /\ disk[Output].kind = "none"
    BY <1>4 DEF OpenCopy, Exists
  <2>2. op' \in Op /\ SamePaths /\ op'.pc = "copy" /\ op'.at = op.at /\ op'.left = disk[At].has
    BY <1>0, <1>2, <2>1 DEF Op, Step, SamePaths
  <2>3. disk[Output].has = {}
    BY <1>1, <2>1 DEF AbsentInv
  <2>4. /\ TypeOK' /\ AbsentInv' /\ NothingElseIsLost'
        /\ disk'[Output] = e /\ \A q \in Path : q # Output => disk'[q] = disk[q]
    BY <1>0, <1>1, <1>2, <2>1, <2>2, <2>3, OneChanges DEF TypeOK
  <2>5. ShapeInv' /\ MoveInv' /\ CopyInv' /\ RemovalInv'
    BY <1>0, <1>2, <1>4, <2>2, <2>4, CopyStep
  <2> QED  BY <2>4, <2>5
<1> QED  BY <1>3, <1>4

LEMMA ContentKeeps == ASSUME IInv, NEW c \in Content, CopyContent(c) PROVE IInv'
<1> USE DEF IInv, history
<1>0. /\ op \in Op /\ Busy /\ op.pc = "copy" /\ op.at \in Item /\ op.kind \in {"move"} \cup Copies
      /\ c \in op.left /\ op.left \subseteq Content /\ op.temp \in Entry /\ UNCHANGED <<mounted, history>>
  BY DEF TypeOK, CopyContent, Busy, ShapeInv, Op
<1>1. At \in Path /\ To \in Path /\ Output \in Path
  BY <1>0, Items DEF At, To, Output
<1>2. CASE op.kind = "move"
  <2> DEFINE t == [op.temp EXCEPT !.has = @ \cup {c}]
  <2>1. t \in Entry /\ t.has = op.temp.has \cup {c}
    BY <1>0 DEF Entry
  <2>2. op' = [op EXCEPT !.left = @ \ {c}, !.temp = t] /\ UNCHANGED disk
    <3>1. op' = [op EXCEPT !.left = @ \ {c}, !.temp.has = @ \cup {c}] /\ UNCHANGED disk
      BY <1>2 DEF CopyContent
    <3> QED  BY <1>0, <3>1 DEF Op
  <2>3. op' \in Op /\ SamePaths /\ op'.pc = "copy" /\ op'.at = op.at /\ op'.left = op.left \ {c} /\ op'.temp = t
    <3> HIDE DEF t
    <3> QED  BY <1>0, <2>1, <2>2 DEF Op, SamePaths
  <2>4. ShapeInv'
    BY <1>0, <1>2, <2>3 DEF ShapeInv, Busy, Item, SamePaths, Moves, Copies, Removals
  <2>5. MoveInv'
    <3>1. disk[At].has \subseteq op.temp.has \cup op.left \cup Excused /\ Spare(To)
      BY <1>0, <1>2 DEF MoveInv, Moves
    <3>2. disk[At].has \subseteq op'.temp.has \cup op'.left \cup Excused
      BY <2>1, <2>3, <3>1
    <3> QED  BY <1>0, <2>2, <2>3, <3>1, <3>2 DEF MoveInv, SamePaths, Moves, Spare, Excused, To, At
  <2>6. CopyInv' /\ RemovalInv'
    BY <1>2, <2>3 DEF CopyInv, RemovalInv, SamePaths, Copies
  <2> QED  BY <1>0, <2>2, <2>3, <2>4, <2>5, <2>6, Still
<1>3. CASE op.kind # "move"
  <2> DEFINE e == Grown(disk[Output], c)
  <2>1. op' = [op EXCEPT !.left = @ \ {c}] /\ disk' = [disk EXCEPT ![Output] = e]
    BY <1>1, <1>3 DEF CopyContent, TypeOK
  <2>2. op' \in Op /\ SamePaths /\ op'.pc = "copy" /\ op'.at = op.at /\ op'.left = op.left \ {c}
    BY <1>0, <2>1 DEF Op, SamePaths
  <2>3. disk[Output] \in Entry /\ (disk[Output].kind = "none" => disk[Output].has = {})
    BY <1>1 DEF TypeOK, AbsentInv
  <2>4. /\ e \in Entry /\ (e.kind = "none" => e.has = {})
        /\ disk[Output].has \subseteq e.has /\ e.has \subseteq disk[Output].has \cup {c}
    BY <1>0, <2>3 DEF Grown, Entry, Empty
  <2>5. op.left \subseteq disk[At].has \cup Excused
    BY <1>0, <1>3 DEF CopyInv
  <2>6. disk'[Output] = e
    BY <1>1, <2>1 DEF TypeOK
  <2> HIDE DEF e
  <2>7. disk[Output].has \subseteq Held(disk)' \cup Excused'
    BY <1>1, <2>4, <2>6, HeldIs
  <2>8. /\ TypeOK' /\ AbsentInv' /\ NothingElseIsLost'
        /\ \A q \in Path : q # Output => disk'[q] = disk[q]
    BY <1>0, <1>1, <2>1, <2>2, <2>4, <2>7, OneChanges DEF TypeOK
  <2>9. ShapeInv' /\ MoveInv' /\ CopyInv' /\ RemovalInv'
    BY <1>0, <1>3, <2>2, <2>4, <2>5, <2>6, <2>8, CopyStep
  <2> QED  BY <2>8, <2>9
<1> QED  BY <1>2, <1>3

LEMMA PromoteCopiedKeeps == ASSUME IInv, PromoteCopied PROVE IInv'
<1> USE DEF IInv, history
<1>0. op \in Op /\ Busy /\ op.pc = "promote" /\ op.at \in Item /\ op.kind = "batchCopy"
  BY DEF TypeOK, PromoteCopied, Busy, ShapeInv
<1>1. /\ Item = 1..Len(op.src) /\ Len(op.src) \in Nat \ {0}
      /\ \A i \in Item : op.src[i] \in Path /\ op.dst[i] \in Path /\ Stage(op.dst[i]) \in Path
      /\ \A i, j \in Item : op.src[i] # op.dst[j] /\ op.src[i] # Stage(op.dst[j]) /\ op.dst[i] # Stage(op.dst[j])
      /\ \A i, j \in Item : i # j => op.dst[i] # op.dst[j] /\ Stage(op.dst[i]) # Stage(op.dst[j])
  BY <1>0, Items DEF ShapeInv, Removals
<1>2. disk' = [disk EXCEPT ![Stage(To)] = Absent, ![To] = disk[Stage(To)]] /\ op' = Onward(op, "promote")
      /\ UNCHANGED <<mounted, history>> /\ disk[Stage(To)].kind # "none"
  BY DEF PromoteCopied, Renamed, CanRename, Replaces
<1>3. /\ disk' \in [Path -> Entry] /\ disk'[Stage(To)] = Absent /\ disk'[To] = disk[Stage(To)]
      /\ \A q \in Path : q # Stage(To) /\ q # To => disk'[q] = disk[q]
  <2>1. Absent \in Entry
    BY DEF Absent, Entry
  <2> QED  BY <1>0, <1>1, <1>2, <2>1 DEF TypeOK, To
<1>4. op' \in Op /\ SamePaths /\ ((op.at < Len(op.src) /\ op'.at = op.at + 1 /\ op'.pc = "promote") \/ op'.pc = "done")
  BY <1>0, <1>2, OnwardIs DEF SamePaths, Step
<1>5. TypeOK' /\ AbsentInv'
  BY <1>2, <1>3, <1>4 DEF TypeOK, AbsentInv, Absent
<1>6. \A i \in Item : Backed(op.dst[i], i) /\ Backed(Stage(op.dst[i]), i) /\ disk'[op.src[i]] = disk[op.src[i]]
  BY <1>0, <1>1, <1>3 DEF CopyInv, To, Copies
<1>7. NothingElseIsLost'
  <2>1. \A q \in Path : disk[q].has \subseteq Held(disk)' \cup Excused'
    <3>1. To \in Path /\ Stage(To) \in Path /\ At \in Path /\ disk'[At] = disk[At] /\ Excused' = Excused
          /\ disk[To].has \subseteq disk[At].has \cup Excused
      BY <1>0, <1>1, <1>2, <1>6 DEF Backed, Excused, To, At
    <3>2. \A q \in Path : disk'[q].has \subseteq Held(disk)'
      BY HeldIs
    <3> QED  BY <1>3, <3>1, <3>2
  <2> QED  BY <1>2, <2>1, Kept DEF Excused
<1>8. ShapeInv'
  <2>1. Len(op.src) \in Nat \ {0} /\ op.at \in Nat /\ Item = 1..Len(op.src)
    BY <1>0, <1>1
  <2> QED  BY <1>0, <1>4, <2>1 DEF ShapeInv, Busy, Item, SamePaths, Moves, Copies, Removals
<1>9. MoveInv' /\ RemovalInv'
  BY <1>0, <1>4 DEF MoveInv, RemovalInv, SamePaths, Moves
<1>10. ASSUME NEW i \in Item
       PROVE  /\ disk'[op.dst[i]].has \subseteq disk'[op.src[i]].has \cup Excused
              /\ disk'[Stage(op.dst[i])].has \subseteq disk'[op.src[i]].has \cup Excused
  <2>1. CASE i = op.at
    BY <1>3, <1>6, <2>1 DEF Backed, To, Absent
  <2>2. CASE i # op.at
    <3>1. disk'[op.dst[i]] = disk[op.dst[i]] /\ disk'[Stage(op.dst[i])] = disk[Stage(op.dst[i])]
      BY <1>0, <1>1, <1>3, <2>2 DEF To
    <3> QED  BY <1>6, <3>1 DEF Backed
  <2> QED  BY <2>1, <2>2
<1>11. CopyInv'
  BY <1>0, <1>2, <1>4, <1>10 DEF CopyInv, SamePaths, Item, Backed, Excused
<1> QED  BY <1>5, <1>7, <1>8, <1>9, <1>11

LEMMA CleanUpKeeps ==
    ASSUME IInv, NEW stays \in SUBSET op.clean, NEW gone \in SUBSET Content, CleanUp(stays, gone)
    PROVE  IInv'
<1> USE DEF IInv, history
<1>0. /\ op \in Op /\ Busy /\ op.pc = "cleanup" /\ op.kind \in Copies /\ UNCHANGED <<mounted, history>>
      /\ op' = [op EXCEPT !.pc = "done", !.clean = {}, !.failed = stays # {}]
  BY DEF TypeOK, CleanUp, Busy, ShapeInv
<1>1. op' \in Op /\ SamePaths /\ op'.pc = "done"
  BY <1>0 DEF Op, Step, SamePaths
<1> DEFINE e(p) == IF p \notin op.clean THEN disk[p]
                   ELSE IF p \notin stays THEN Absent
                   ELSE IF disk[p].kind = "file" THEN disk[p]
                   ELSE [disk[p] EXCEPT !.has = @ \ gone]
<1>2. disk' = [p \in Path |-> e(p)]
  BY DEF CleanUp
<1>3. ASSUME NEW p \in Path PROVE e(p) \in Entry /\ (e(p).kind = "none" => e(p).has = {})
  <2>1. disk[p] \in Entry /\ (disk[p].kind = "none" => disk[p].has = {})
    BY DEF TypeOK, AbsentInv
  <2>2. Absent \in Entry /\ Absent.has = {}
    BY DEF Absent, Entry
  <2>3. [disk[p] EXCEPT !.has = @ \ gone] \in Entry
        /\ ([disk[p] EXCEPT !.has = @ \ gone].kind = "none" => [disk[p] EXCEPT !.has = @ \ gone].has = {})
    BY <2>1 DEF Entry
  <2> QED  BY <2>1, <2>2, <2>3
<1>4. TypeOK' /\ AbsentInv'
  <2> HIDE DEF e
  <2> QED  BY <1>0, <1>1, <1>2, <1>3 DEF TypeOK, AbsentInv
<1>5. \A i \in Item : op.src[i] \in Path /\ op.src[i] \notin op.clean
  BY <1>0, Items DEF CopyInv
<1>6. \A q \in Path : disk[q].has \subseteq Held(disk)' \cup Excused'
  <2>1. ASSUME NEW q \in Path, q \notin op.clean PROVE disk[q].has \subseteq Held(disk)'
    BY <1>2, <2>1, HeldIs
  <2>2. ASSUME NEW q \in Path, q \in op.clean PROVE disk[q].has \subseteq Held(disk)' \cup Excused'
    <3>1. PICK i \in Item : Backed(q, i)
      BY <1>0, <2>2 DEF CopyInv
    <3>2. disk[op.src[i]].has \subseteq Held(disk)'
      BY <1>5, <2>1
    <3> QED  BY <1>0, <3>1, <3>2 DEF Backed, Excused
  <2> QED  BY <2>1, <2>2
<1>7. NothingElseIsLost'
  BY <1>0, <1>6, Kept DEF Excused
<1> QED  BY <1>0, <1>1, <1>4, <1>7, DoneIs

-----------------------------------------------------------------------------
(* What the others do.                                                     *)

\* CopyInv carries over to a step that moves only contents.
LEMMA CopyCarries ==
    ASSUME SamePaths, op'.pc = op.pc, op'.at = op.at, op'.left = op.left, op'.clean = op.clean,
           op.pc \in {"look", "open", "copy", "promote"} =>
               \A i \in Item : disk'[op.dst[i]].has \subseteq disk'[op.src[i]].has \cup Excused',
           op.kind = "batchCopy" => \A i \in Item :
               \/ op.pc = "look" /\ i < op.at
               \/ op.pc \in {"open", "copy"} /\ i <= op.at
               \/ op.pc = "promote"
               => disk'[Stage(op.dst[i])].has \subseteq disk'[op.src[i]].has \cup Excused',
           op.pc = "copy" => op.left \subseteq disk'[At].has \cup Excused',
           op.pc = "cleanup" => \A q \in op.clean :
               /\ q \in Path /\ \A i \in Item : q # op.src[i]
               /\ q \in Mine /\ \E i \in Item : disk'[q].has \subseteq disk'[op.src[i]].has \cup Excused'
    PROVE  CopyInv'
<1>1. Item' = Item /\ At' = At /\ Mine' = Mine
  BY DEF Item, At, Mine, PathsOf, SamePaths
<1>2. (op.pc \in {"look", "open", "copy", "promote"} => \A i \in Item : Backed(op.dst[i], i))'
  BY <1>1 DEF SamePaths, Backed
<1>3. (op.kind = "batchCopy" => \A i \in Item :
           \/ op.pc = "look" /\ i < op.at
           \/ op.pc \in {"open", "copy"} /\ i <= op.at
           \/ op.pc = "promote"
           => Backed(Stage(op.dst[i]), i))'
  BY <1>1 DEF SamePaths, Backed
<1>4. (op.pc = "cleanup" => \A q \in op.clean :
           /\ q \in Path /\ \A i \in Item : q # op.src[i]
           /\ q \in Mine /\ \E i \in Item : Backed(q, i))'
  BY <1>1 DEF SamePaths, Backed
<1> QED  BY <1>1, <1>2, <1>3, <1>4 DEF CopyInv, SamePaths

\* What others bring to a path of the operation is excused there, and what they
\* take away is given up.
LEMMA Drift ==
    ASSUME IInv, NEW p \in Path, NEW e \in Entry, disk' = [disk EXCEPT ![p] = e],
           e.kind = "none" => e.has = {}, Touches(p), mounted' = mounted,
           known' \subseteq known \cup (e.has \cap Content), given' \subseteq Content, exposed' \subseteq Content,
           Excused \subseteq Excused', disk[p].has \subseteq e.has \cup Excused',
           p \in Mine => e.has \subseteq disk[p].has \cup Excused'
    PROVE  IInv'
<1> USE DEF IInv
<1>0. op \in Op
  BY DEF TypeOK
<1>1. disk' \in [Path -> Entry] /\ disk'[p] = e /\ \A q \in Path : q # p => disk'[q] = disk[q]
  BY DEF TypeOK
<1>2. /\ op' \in Op /\ SamePaths /\ op'.pc = op.pc /\ op'.at = op.at /\ op'.left = op.left
      /\ op'.temp = op.temp /\ op'.clean = op.clean
  <2>1. CASE Busy
    <3>1. op' = [op EXCEPT !.touched = @ \cup {p}]
      BY <2>1 DEF Touches
    <3> QED  BY <1>0, <3>1 DEF Op, SamePaths
  <2>2. CASE ~Busy
    BY <1>0, <2>2 DEF Touches, SamePaths
  <2> QED  BY <2>1, <2>2
<1>3. TypeOK' /\ AbsentInv'
  <2>1. count' \in [begun : Nat, others : Nat]
    BY DEF TypeOK, Touches
  <2>2. known' \subseteq Content
    BY DEF TypeOK
  <2> QED  BY <1>1, <1>2, <2>1, <2>2 DEF TypeOK, AbsentInv
<1>4. \A q \in Path : disk[q].has \subseteq disk'[q].has \cup Excused'
  BY <1>1
<1>5. \A q \in Path : q \in Mine => disk'[q].has \subseteq disk[q].has \cup Excused'
  BY <1>1
<1>6. NothingElseIsLost'
  <2>1. known' \subseteq known \cup Held(disk)' \cup Excused'
    BY <1>1, HeldIs
  <2>2. \A q \in Path : disk[q].has \subseteq Held(disk)' \cup Excused'
    BY <1>4, HeldIs
  <2> QED  BY <2>1, <2>2, Kept
<1>7. ShapeInv'
  BY <1>2 DEF ShapeInv, Busy, Item, SamePaths
<1>8. CASE ~Busy
  BY <1>2, <1>3, <1>6, <1>7, <1>8 DEF Busy, MoveInv, CopyInv, RemovalInv
<1>9. CASE Busy
  <2>1. /\ \A i \in Item : op.src[i] \in Path /\ op.dst[i] \in Path /\ Stage(op.dst[i]) \in Path
        /\ \A i \in Item : op.src[i] \in Mine /\ op.dst[i] \in Mine /\ Stage(op.dst[i]) \in Mine
    BY <1>0, <1>9, Items
  <2>2. Item' = Item /\ At' = At /\ To' = To /\ Mine' = Mine
    BY <1>2 DEF Item, At, To, Mine, PathsOf, SamePaths
  <2>3. ASSUME NEW q \in Mine, q \in Path, Spare(q) PROVE disk'[q].has \subseteq Excused'
    BY <1>5, <2>3 DEF Spare
  <2>4. ASSUME NEW q \in Mine, q \in Path, NEW i \in Item, Backed(q, i)
        PROVE  disk'[q].has \subseteq disk'[op.src[i]].has \cup Excused'
    BY <1>4, <1>5, <2>1, <2>4 DEF Backed
  <2>5. op.pc \notin {"back", "cleanup", "done"} =>
            At \in Path /\ To \in Path /\ At \in Mine /\ To \in Mine
    BY <1>9, <2>1 DEF ShapeInv, At, To
  <2>6. MoveInv'
    <3> SUFFICES ASSUME op.kind \in Moves PROVE MoveInv'
      BY <1>2 DEF MoveInv, SamePaths
    <3>1. op.pc = "act" => \A i \in Item : IF i < op.at THEN disk'[op.src[i]].has \subseteq Excused'
                                          ELSE disk'[op.dst[i]].has \subseteq Excused'
      BY <2>1, <2>3 DEF MoveInv
    <3>2. op.pc = "back" => \A i \in Item : i <= op.at => disk'[op.src[i]].has \subseteq Excused'
      BY <2>1, <2>3 DEF MoveInv
    <3>3. op.pc \in {"open", "copy", "promote"} => disk'[To].has \subseteq Excused'
      BY <2>3, <2>5 DEF MoveInv
    <3>4. op.pc = "copy" => disk'[At].has \subseteq op.temp.has \cup op.left \cup Excused'
      BY <1>5, <2>5 DEF MoveInv
    <3>5. op.pc = "promote" => disk'[At].has \subseteq op.temp.has \cup Excused'
      BY <1>5, <2>5 DEF MoveInv
    <3>6. op.pc = "unlink" => disk'[At].has \subseteq disk'[To].has \cup Excused'
      BY <1>4, <1>5, <2>5 DEF MoveInv
    <3> QED  BY <1>2, <2>2, <3>1, <3>2, <3>3, <3>4, <3>5, <3>6 DEF MoveInv, Spare, SamePaths
  <2>7. CopyInv'
    <3> SUFFICES ASSUME op.kind \in Copies PROVE CopyInv'
      BY <1>2 DEF CopyInv, SamePaths
    <3>1. op.pc \in {"look", "open", "copy", "promote"} =>
              \A i \in Item : disk'[op.dst[i]].has \subseteq disk'[op.src[i]].has \cup Excused'
      BY <2>1, <2>4 DEF CopyInv
    <3>2. op.kind = "batchCopy" => \A i \in Item :
               \/ op.pc = "look" /\ i < op.at
               \/ op.pc \in {"open", "copy"} /\ i <= op.at
               \/ op.pc = "promote"
               => disk'[Stage(op.dst[i])].has \subseteq disk'[op.src[i]].has \cup Excused'
      BY <2>1, <2>4 DEF CopyInv
    <3>3. op.pc = "copy" => op.left \subseteq disk'[At].has \cup Excused'
      BY <1>4, <2>5 DEF CopyInv
    <3>4. op.pc = "cleanup" => \A q \in op.clean :
               /\ q \in Path /\ \A i \in Item : q # op.src[i]
               /\ q \in Mine /\ \E i \in Item : disk'[q].has \subseteq disk'[op.src[i]].has \cup Excused'
      BY <2>4 DEF CopyInv
    <3> QED  BY <1>2, <3>1, <3>2, <3>3, <3>4, CopyCarries
  <2>8. RemovalInv'
    <3>1. op.pc \in {"remove", "truncate"} => disk'[At].has \subseteq op.before[At].has \cup Excused'
      BY <1>5, <2>5 DEF RemovalInv
    <3> QED  BY <1>2, <2>2, <3>1 DEF RemovalInv, SamePaths
  <2> QED  BY <1>3, <1>6, <1>7, <2>6, <2>7, <2>8
<1> QED  BY <1>8, <1>9

LEMMA OthersKeep == ASSUME IInv, Others PROVE IInv'
<1> USE DEF IInv
<1>1. ASSUME NEW p \in Path, NEW c \in Content, Publish(p, c) \/ PublishInto(p, c) PROVE IInv'
  <2>1. /\ disk[p] \in Entry /\ disk \in [Path -> Entry] /\ (disk[p].kind = "none" => disk[p].has = {})
        /\ given \subseteq Content /\ exposed \subseteq Content
    BY DEF TypeOK, AbsentInv
  <2>2. /\ known' = known \cup {c} /\ exposed' = (IF p \in Mine THEN exposed \cup {c} ELSE exposed)
        /\ Touches(p) /\ UNCHANGED <<mounted, given>>
    BY <1>1 DEF Publish, PublishInto, Gives
  <2>3. PICK e \in Entry : disk' = [disk EXCEPT ![p] = e] /\ e.kind # "none" /\ e.has = disk[p].has \cup {c}
    <3>1. CASE Publish(p, c)
      <4>1. File(c) \in Entry /\ File(c).kind # "none" /\ File(c).has = disk[p].has \cup {c}
        BY <2>1, <3>1 DEF Publish, Exists, File, Entry
      <4> QED  BY <3>1, <4>1 DEF Publish
    <3>2. CASE PublishInto(p, c)
      <4> DEFINE e == [disk[p] EXCEPT !.has = @ \cup {c}]
      <4>1. e \in Entry /\ e.kind # "none" /\ e.has = disk[p].has \cup {c}
        BY <2>1, <3>2 DEF PublishInto, Entry
      <4>2. disk' = [disk EXCEPT ![p] = e]
        BY <2>1, <3>2 DEF PublishInto
      <4> QED  BY <4>1, <4>2
    <3> QED  BY <1>1, <3>1, <3>2
  <2>4. Excused \subseteq Excused' /\ (p \in Mine => c \in Excused')
    BY <2>2 DEF Excused
  <2> QED  BY <2>1, <2>2, <2>3, <2>4, Drift
<1>2. ASSUME NEW p \in Path, NEW S \in SUBSET Content, GivesUp(p, S), NEW e \in Entry,
             disk' = [disk EXCEPT ![p] = e], e.kind = "none" => e.has = {}, e.has = disk[p].has \ S
      PROVE  IInv'
  <2>1. given' = given \cup S /\ Touches(p) /\ UNCHANGED <<mounted, known, exposed>>
    BY <1>2 DEF GivesUp
  <2>2. Excused \subseteq Excused' /\ S \subseteq Excused' /\ given' \subseteq Content /\ exposed' \subseteq Content
    BY <2>1 DEF Excused, TypeOK
  <2> QED  BY <1>2, <2>1, <2>2, Drift
<1>3. ASSUME NEW p \in Path, Delete(p) PROVE IInv'
  <2>1. Absent \in Entry /\ Absent.has = {}
    BY DEF Absent, Entry
  <2>2. disk[p].has \in SUBSET Content
    BY DEF TypeOK, Entry
  <2> QED  BY <1>2, <1>3, <2>1, <2>2 DEF Delete
<1>4. ASSUME NEW p \in Path, NEW c \in Content, DeleteIn(p, c) PROVE IInv'
  <2> DEFINE e == [disk[p] EXCEPT !.has = @ \ {c}]
  <2>1. disk[p] \in Entry /\ disk \in [Path -> Entry] /\ disk[p].kind = "directory"
    BY <1>4 DEF TypeOK, DeleteIn
  <2>2. e \in Entry /\ e.kind # "none" /\ e.has = disk[p].has \ {c}
    BY <2>1 DEF Entry
  <2>3. disk' = [disk EXCEPT ![p] = e] /\ GivesUp(p, {c})
    BY <1>4, <2>1 DEF DeleteIn, Without
  <2> HIDE DEF e
  <2> QED  BY <1>2, <2>2, <2>3
<1> QED  BY <1>1, <1>3, <1>4 DEF Others

-----------------------------------------------------------------------------
LEMMA OperateKeeps == ASSUME IInv, Operate PROVE IInv'
BY EndKeeps, TurnKeeps, CleaningKeeps, MoveCopyFailsKeeps, LookKeeps, CopyEndsKeeps, CheckKeeps,
   RenameKeeps, BackKeeps, PromoteMovedKeeps, UnlinkKeeps, SaveKeeps, RemoveKeeps, OpenKeeps,
   ContentKeeps, PromoteCopiedKeeps, CleanUpKeeps
   DEF Operate, PromoteCopiedFails

LEMMA NextKeeps == ASSUME IInv, [Next]_vars PROVE IInv'
<1>1. CASE UNCHANGED vars
  BY <1>1, SMTT(30) DEF vars, IInv, TypeOK, AbsentInv, ShapeInv, MoveInv, CopyInv, RemovalInv, NothingElseIsLost, Held,
              Busy, Item, Spare, Backed, Excused, At, To, Mine, PathsOf
<1>2. CASE Next
  BY <1>2, BeginKeeps, OperateKeeps, EndKeeps, OthersKeep DEF Next
<1> QED  BY <1>1, <1>2

LEMMA Inductive == Spec => []IInv
<1>1. Init => IInv
  BY InitKeeps
<1>2. IInv /\ [Next]_vars => IInv'
  BY NextKeeps
<1> QED  BY <1>1, <1>2, PTL DEF Spec

\* The entries, the operation under way and the histories keep their shapes.
THEOREM TypeCorrect == Spec => []TypeOK
<1>1. IInv => TypeOK
  BY DEF IInv
<1> QED  BY <1>1, Inductive, PTL

\* Whatever fails and wherever the process dies, with any number of operations,
\* publications and deletions in any order, no content is lost that nobody has
\* given up, but for one uploaded to a path of the operation under way.
THEOREM NothingIsLost == Spec => []NothingElseIsLost
<1>1. IInv => NothingElseIsLost
  BY DEF IInv
<1> QED  BY <1>1, Inductive, PTL

-----------------------------------------------------------------------------
(* What an answer says.                                                    *)

\* An entry of contents in K; a file has one at most.
Fits(e, K) == e.has \subseteq K /\ (e.kind = "file" => \A c, d \in e.has : c = d)

\* Every content was given to the server, and so it stays with what is copied.
ContentInv ==
    /\ \A p \in Path : Fits(disk[p], known)
    /\ op.left \subseteq known /\ op.temp.has \subseteq known
    /\ op.temp.kind = "file" => op.kind = "move" /\ \A c, d \in op.temp.has \cup op.left : c = d

\* What the operation found when it began.
BeforeInv == Busy =>
    /\ \A p \in Path : Fits(op.before[p], known) /\ (op.before[p].kind = "none" => op.before[p] = Absent)
    /\ op.kind \notin Removals => \A i \in Item : op.before[op.dst[i]] = Absent
    /\ op.kind \in Removals => op.dst = op.src
    /\ op.kind \in {"rename", "move", "copy", "save"} => Len(op.src) = 1

Was(i) == op.before[op.src[i]]
StageWas(i) == op.before[Stage(op.dst[i])]
Holds(i, s, d, t) == disk[op.src[i]] = s /\ disk[op.dst[i]] = d /\ disk[Stage(op.dst[i])] = t
New(i) == Holds(i, Was(i), op.before[op.dst[i]], StageWas(i))
Moved(i) == Holds(i, Absent, Was(i), StageWas(i))
Copied(i) == Holds(i, Was(i), Was(i), StageWas(i))
Staged(i) == Holds(i, Was(i), Absent, Was(i)) /\ StageWas(i) = Absent
Partly(e, i) == op.left \subseteq Was(i).has /\ e = [kind |-> Was(i).kind, has |-> Was(i).has \ op.left]

\* What is at the paths of an item that only the operation has touched.
MoveExact(i) ==
    /\ op.pc = "act" => IF i < op.at THEN Moved(i) ELSE New(i)
    /\ op.pc = "back" => op.kind = "batchMove" /\ (op.failed \/ IF i <= op.at THEN Moved(i) ELSE New(i))
    /\ op.pc \in {"open", "copy", "promote"} => New(i)
    /\ op.pc = "copy" => Partly(op.temp, i)
    /\ op.pc = "promote" => op.temp = Was(i)
    /\ op.pc = "unlink" => Copied(i)
CopyExact(i) ==
    /\ op.pc = "open" => New(i)
    /\ op.pc = "copy" => Holds(i, Was(i), disk[op.dst[i]], StageWas(i)) /\ Partly(disk[op.dst[i]], i)
BatchExact(i) ==
    /\ op.pc \in {"look", "open", "copy"} => IF i < op.at THEN Staged(i)
                                             ELSE i > op.at \/ op.pc # "copy" => New(i)
    /\ op.pc \in {"open", "copy"} /\ i = op.at => StageWas(i) = Absent
    /\ op.pc = "copy" /\ i = op.at => /\ Holds(i, Was(i), Absent, disk[Stage(op.dst[i])])
                                      /\ Partly(disk[Stage(op.dst[i])], i)
    /\ op.pc = "promote" => StageWas(i) = Absent /\ IF i < op.at THEN Copied(i) ELSE Staged(i)
CleanExact(i) ==
    op.pc = "cleanup" => op.answer # "ok" /\ \A p \in PathsOf(i) :
        IF p \in op.clean THEN op.before[p] = Absent ELSE disk[p] = op.before[p]
RemovalExact(i) ==
    /\ op.pc \in {"check", "remove"} => op.failed \/ i >= op.at \/ disk[op.src[i]] = Absent
    /\ op.pc = "truncate" => New(i)
Answered(i) == op.pc = "done" => IF op.answer = "ok" THEN Done(i) ELSE op.failed \/ Undone(i)

Exact(i) ==
    /\ op.kind \in Moves => MoveExact(i)
    /\ op.kind = "copy" => CopyExact(i)
    /\ op.kind = "batchCopy" => BatchExact(i)
    /\ CleanExact(i) /\ RemovalExact(i) /\ Answered(i)

Free(i) == PathsOf(i) \cap op.touched = {}
ExactInv == Busy => \A i \in Item : Free(i) => Exact(i)

LEMMA ContentInit == Init => ContentInv
<1>1. \A p \in Path : Found[p].has \subseteq Held(Found)
  BY DEF Held
<1> QED  BY <1>1, FileOperationsAssumption DEF Init, ContentInv, Fits, Idle, Absent

\* Entries move, shrink or are new, and no more is left to copy.
LEMMA ContentOf ==
    ASSUME ContentInv, known \subseteq known', \A p \in Path : Fits(disk'[p], known'),
           op'.left \subseteq op.left, op'.temp = Absent \/ (op'.temp = op.temp /\ op'.kind = op.kind)
    PROVE  ContentInv'
BY DEF ContentInv, Absent

LEMMA Fitting ==
    ASSUME NEW K, NEW L, K \subseteq L
    PROVE  /\ \A e \in Entry : Fits(e, K) => Fits(e, L)
           /\ Fits(Absent, L) /\ \A kind : Fits(Empty(kind), L)
           /\ \A c \in L : Fits(File(c), L)
           /\ \A e \in Entry, c \in L : Fits(e, K) => Fits(Grown(e, c), L)
           /\ \A e \in Entry, c \in L : Fits(e, K) /\ e.kind = "directory" => Fits([e EXCEPT !.has = @ \cup {c}], L)
<1>1. /\ \A e \in Entry : Fits(e, K) => Fits(e, L)
      /\ Fits(Absent, L) /\ \A kind : Fits(Empty(kind), L)
      /\ \A c \in L : Fits(File(c), L)
  BY DEF Fits, Absent, Empty, File
<1>2. \A e \in Entry, c \in L : Fits(e, K) /\ e.kind = "directory" => Fits([e EXCEPT !.has = @ \cup {c}], L)
  BY DEF Fits, Entry
<1>3. ASSUME NEW e \in Entry, NEW c \in L, Fits(e, K) PROVE Fits(Grown(e, c), L)
  <2>1. CASE e.kind = "directory"
    BY <1>2, <1>3, <2>1 DEF Grown
  <2>2. CASE e = Empty("file")
    BY <2>2 DEF Grown, Fits, Empty
  <2>3. CASE ~(e.kind = "directory" \/ e = Empty("file"))
    BY <1>1, <1>3, <2>3 DEF Grown
  <2> QED  BY <2>1, <2>2, <2>3
<1> QED  BY <1>1, <1>2, <1>3

LEMMA BeginContent == ASSUME IInv, ContentInv, Begin PROVE ContentInv'
<1>1. ASSUME NEW kind, NEW pc, NEW src, NEW dst, Begins(kind, pc, src, dst) PROVE ContentInv'
  <2>1. op' = [Idle EXCEPT !.kind = kind, !.pc = pc, !.src = src, !.dst = dst, !.before = disk]
        /\ disk' = disk /\ known' = known
    BY <1>1 DEF Begins
  <2>2. op'.left = {} /\ op'.temp = Absent
    BY <2>1 DEF Idle
  <2> QED  BY <2>1, <2>2 DEF ContentInv, Absent
<1>2. ASSUME NEW p \in Place, NEW kind \in {"file", "directory"}, Make(p, kind) PROVE ContentInv'
  <2>1. disk' = [disk EXCEPT ![p] = Empty(kind)] /\ known' = known /\ op' = op
    BY <1>2 DEF Make
  <2>2. \A q \in Path : disk'[q] = disk[q] \/ disk'[q] = Empty(kind)
    BY <2>1 DEF IInv, TypeOK
  <2>3. \A q \in Path : Fits(disk'[q], known)
    BY <2>2, Fitting DEF ContentInv
  <2> QED  BY <2>1, <2>3, ContentOf
<1> QED  BY <1>1, <1>2 DEF Begin, RenameItem, MoveItem, CopyItem, BatchMove, BatchCopy, BatchDelete,
            WriteVersionedTextFile

\* Steps that leave the disk alone.
LEMMA StillContent ==
    ASSUME IInv, ContentInv, UNCHANGED <<disk, known>>,
           op' = Idle \/ (/\ op'.left \subseteq op.left
                          /\ op'.temp = Absent \/ (op'.temp = op.temp /\ op'.kind = op.kind))
    PROVE  ContentInv'
<1>1. op' = Idle => op'.left \subseteq op.left /\ op'.temp = Absent
  BY DEF Idle
<1> QED  BY <1>1, ContentOf DEF ContentInv

\* The operation under way keeps its items and what it found.
Own == Busy /\ SamePaths /\ op'.touched = op.touched /\ known \subseteq known'

LEMMA OnwardOwn ==
    ASSUME NEW o \in Op, NEW pc \in Step
    PROVE  LET n == Onward(o, pc) IN
           /\ n.touched = o.touched /\ n.failed = o.failed /\ n.temp = o.temp /\ n.left = o.left
           /\ n.kind = o.kind /\ n.src = o.src /\ n.dst = o.dst /\ n.before = o.before
           /\ IF o.at < Len(o.src) THEN n.at = o.at + 1 /\ n.pc = pc
              ELSE n.pc = "done" /\ n.answer = IF o.failed THEN "partial" ELSE "ok"
<1>1. CASE o.at < Len(o.src)
  <2>1. Onward(o, pc) = [o EXCEPT !.at = o.at + 1, !.pc = pc]
    BY <1>1 DEF Onward
  <2> QED  BY <1>1, <2>1 DEF Op
<1>2. CASE ~(o.at < Len(o.src))
  BY <1>2 DEF Onward, Op
<1> QED  BY <1>1, <1>2

LEMMA OperateOwn == ASSUME IInv, Operate PROVE Own
<1> USE DEF history
<1>0. op \in Op
  BY DEF IInv, TypeOK
<1>1. "act" \in Step /\ "promote" \in Step /\ "check" \in Step
  BY DEF Step
<1>2. CASE RenameFails \/ PromoteMovedFails \/ MovedBack \/ TruncateFails \/ WriteFails
  BY <1>0, <1>2 DEF RenameFails, PromoteMovedFails, MovedBack, TruncateFails, WriteFails, Fails, Answers, Goes,
     Own, SamePaths, Busy, Op
<1>3. CASE Rename \/ PromoteCopied \/ SkipItem \/ RemoveItem \/ (\E S \in SUBSET Content : RemoveItemFails(S))
  <2>1. Busy /\ known' = known
    BY <1>3 DEF Rename, PromoteCopied, SkipItem, RemoveItem, RemoveItemFails, Goes, Busy
  <2>2. ASSUME NEW o \in Op, NEW pc \in {"act", "promote", "check"}, op' = Onward(o, pc),
               o.touched = op.touched, o.kind = op.kind, o.src = op.src, o.dst = op.dst, o.before = op.before
        PROVE  SamePaths /\ op'.touched = op.touched
    <3>1. pc \in Step
      BY <1>1
    <3> QED  BY <2>2, <3>1, OnwardOwn DEF SamePaths
  <2> DEFINE o == [op EXCEPT !.failed = TRUE]
  <2>3. /\ o \in Op /\ o.touched = op.touched
        /\ o.kind = op.kind /\ o.src = op.src /\ o.dst = op.dst /\ o.before = op.before
    BY <1>0 DEF Op
  <2>4. op' = Onward(op, "act") \/ op' = Onward(op, "promote") \/ op' = Onward(op, "check") \/ op' = Onward(o, "check")
    BY <1>3 DEF Rename, PromoteCopied, SkipItem, RemoveItem, RemoveItemFails, Goes
  <2> HIDE DEF o
  <2>5. SamePaths /\ op'.touched = op.touched
    BY <1>0, <2>2, <2>3, <2>4
  <2> QED  BY <2>1, <2>5 DEF Own
<1>4. CASE Crosses \/ PromoteMoved \/ BatchMoveFails \/ MoveBack
  BY <1>0, <1>4 DEF Crosses, PromoteMoved, BatchMoveFails, MoveBack, Goes, Own, SamePaths, Busy, Op
<1>5. CASE Unlink \/ (\E S \in SUBSET Content : UnlinkFails(S)) \/ CopyFails
  BY <1>0, <1>5, ZenonT(40) DEF Unlink, UnlinkFails, CopyFails, Answers, CleansUp, Own, SamePaths, Busy, Op
<1>6. CASE LookForStage \/ OpenCopy \/ (\E c \in Content : CopyContent(c)) \/ CheckItem
  BY <1>0, <1>6, ZenonT(40) DEF LookForStage, OpenCopy, CopyContent, CheckItem, Goes, CleansUp, Own, SamePaths, Busy, Op
<1>7. CASE CopyEnds \/ PromoteCopiedFails
  BY <1>0, <1>7, ZenonT(40) DEF CopyEnds, PromoteCopiedFails, Goes, CleansUp, Own, SamePaths, Busy, Op
<1>8. CASE Truncate \/ (\E c \in Content : Write(c))
             \/ (\E stays \in SUBSET op.clean, gone \in SUBSET Content : CleanUp(stays, gone))
  BY <1>0, <1>8 DEF Truncate, Write, CleanUp, Answers, Own, SamePaths, Busy, Op
<1> QED  BY <1>2, <1>3, <1>4, <1>5, <1>6, <1>7, <1>8 DEF Operate

LEMMA OperateContent == ASSUME IInv, ContentInv, Operate PROVE ContentInv'
<1> USE DEF history
<1>0. op \in Op /\ disk \in [Path -> Entry] /\ SamePaths /\ Busy /\ known \subseteq known'
  BY OperateOwn DEF IInv, TypeOK, Own
<1>a. \A p \in Path : disk[p] \in Entry /\ Fits(disk[p], known)
  BY <1>0 DEF ContentInv
<1>b. op.pc \notin {"back", "cleanup", "done"} => At \in Path /\ To \in Path /\ Stage(To) \in Path /\ Output \in Path
  BY <1>0, Items DEF IInv, ShapeInv, At, To, Output
<1>2. CASE RenameFails \/ PromoteMovedFails \/ MovedBack \/ TruncateFails \/ WriteFails
           \/ Crosses \/ BatchMoveFails \/ LookForStage \/ CheckItem \/ CopyEnds \/ PromoteCopiedFails \/ CopyFails
  <2>1. UNCHANGED <<disk, known>> /\ op'.left = op.left /\ (op'.temp = Absent \/ op'.temp = op.temp)
    BY <1>0, <1>2 DEF RenameFails, PromoteMovedFails, MovedBack, TruncateFails, WriteFails, Fails, Answers, Goes,
       Crosses, BatchMoveFails, LookForStage, CheckItem, CopyEnds, PromoteCopiedFails, CopyFails, CleansUp, Op
  <2> QED  BY <1>0, <2>1, StillContent DEF SamePaths
<1>3. CASE SkipItem
  <2>1. op' = Onward([op EXCEPT !.failed = TRUE], "check") /\ UNCHANGED <<disk, known>>
    BY <1>3 DEF SkipItem, Goes
  <2>2. /\ [op EXCEPT !.failed = TRUE] \in Op /\ "check" \in Step
        /\ [op EXCEPT !.failed = TRUE].left = op.left /\ [op EXCEPT !.failed = TRUE].temp = op.temp
    BY <1>0 DEF Op, Step
  <2>3. op'.left = op.left /\ op'.temp = op.temp
    BY <2>1, <2>2, OnwardOwn
  <2> QED  BY <1>0, <2>1, <2>3, StillContent DEF SamePaths
<1>4. CASE Rename \/ PromoteCopied \/ MoveBack
  <2>1. \A q \in Path : disk'[q] = Absent \/ \E r \in Path : disk'[q] = disk[r]
    <3>1. \A p, q, r \in Path : Renamed(p, q)[r] = Absent \/ Renamed(p, q)[r] \in {disk[r], disk[p]}
      BY <1>0 DEF Renamed
    <3>2. At \in Path /\ To \in Path /\ Stage(To) \in Path
      <4>1. op.at \in Item
        BY <1>0, <1>4, Items DEF Rename, PromoteCopied, MoveBack, IInv, ShapeInv
      <4> QED  BY <1>0, <4>1, Items DEF IInv, At, To
    <3> QED  BY <1>0, <1>4, <3>1, <3>2 DEF Rename, PromoteCopied, MoveBack
  <2>2. op'.left = op.left /\ op'.temp = op.temp /\ known' = known
    <3>1. "act" \in Step /\ "promote" \in Step
      BY DEF Step
    <3>2. CASE MoveBack
      BY <1>0, <3>2 DEF MoveBack, Op
    <3>3. CASE Rename
      BY <1>0, <3>1, <3>3, OnwardOwn DEF Rename
    <3>4. CASE PromoteCopied
      BY <1>0, <3>1, <3>4, OnwardOwn DEF PromoteCopied
    <3> QED  BY <1>4, <3>2, <3>3, <3>4
  <2>3. \A q \in Path : Fits(disk'[q], known')
    BY <1>a, <2>1, <2>2, Fitting
  <2> QED  BY <1>0, <2>2, <2>3, ContentOf DEF SamePaths
<1>5. CASE PromoteMoved
  <2>1. disk' = [disk EXCEPT ![To] = op.temp] /\ op' = [op EXCEPT !.pc = "unlink", !.temp = Absent] /\ known' = known
    BY <1>5 DEF PromoteMoved
  <2>2. \A q \in Path : Fits(disk'[q], known)
    BY <1>0, <1>a, <2>1 DEF ContentInv, Fits
  <2> QED  BY <1>0, <2>1, <2>2, ContentOf DEF Op
<1>6. CASE Unlink \/ (\E S \in SUBSET Content : UnlinkFails(S)) \/ RemoveItem \/ (\E S \in SUBSET Content : RemoveItemFails(S))
  <2>1. op'.left = op.left /\ (op'.temp = Absent \/ op'.temp = op.temp) /\ known' = known
    <3>1. "check" \in Step
      BY DEF Step
    <3>2. CASE RemoveItem
      BY <1>0, <3>1, <3>2, OnwardOwn DEF RemoveItem
    <3>4. CASE \E S \in SUBSET Content : RemoveItemFails(S)
      <4> DEFINE o == [op EXCEPT !.failed = TRUE]
      <4>1. o \in Op /\ o.left = op.left /\ o.temp = op.temp
        BY <1>0 DEF Op
      <4>2. op' = Onward(o, "check") /\ known' = known
        BY <3>4 DEF RemoveItemFails
      <4> HIDE DEF o
      <4> QED  BY <3>1, <4>1, <4>2, OnwardOwn
    <3>3. CASE Unlink \/ \E S \in SUBSET Content : UnlinkFails(S)
      BY <1>0, <3>3 DEF Unlink, UnlinkFails, Answers, Op
    <3> QED  BY <1>6, <3>2, <3>3, <3>4
  <2>2. \/ disk' = [disk EXCEPT ![At] = Absent]
        \/ \E S \in SUBSET Content : disk' = [disk EXCEPT ![At] = [disk[At] EXCEPT !.has = @ \ S]]
    <3>1. \A S \in SUBSET Content : Without(At, S) = [disk EXCEPT ![At] = [disk[At] EXCEPT !.has = @ \ S]]
      BY <1>0 DEF Without
    <3> QED  BY <1>6, <3>1 DEF Unlink, UnlinkFails, RemoveItem, RemoveItemFails
  <2>3. \A q \in Path : disk'[q] = Absent \/ (disk'[q].kind = disk[q].kind /\ disk'[q].has \subseteq disk[q].has)
    <3>2. CASE disk' = [disk EXCEPT ![At] = Absent]
      BY <1>0, <3>2
    <3>3. ASSUME NEW S \in SUBSET Content, disk' = [disk EXCEPT ![At] = [disk[At] EXCEPT !.has = @ \ S]]
          PROVE  \A q \in Path : disk'[q].kind = disk[q].kind /\ disk'[q].has \subseteq disk[q].has
      <4>1. \A q \in Path : disk'[q] = disk[q] \/ disk'[q] = [disk[q] EXCEPT !.has = @ \ S]
        BY <1>0, <3>3
      <4>2. ASSUME NEW q \in Path PROVE disk'[q].kind = disk[q].kind /\ disk'[q].has \subseteq disk[q].has
        <5>1. disk[q] \in Entry
          BY <1>a
        <5>2. CASE disk'[q] = [disk[q] EXCEPT !.has = @ \ S]
          BY <5>1, <5>2 DEF Entry
        <5> QED  BY <4>1, <5>2
      <4> QED  BY <4>2
    <3> QED  BY <2>2, <3>2, <3>3
  <2>4. ASSUME NEW q \in Path PROVE Fits(disk'[q], known)
    BY <1>a, <2>3 DEF Fits, Absent
  <2> QED  BY <1>0, <2>1, <2>4, ContentOf DEF SamePaths
<1>7. CASE OpenCopy
  <2>1. disk[At].has \subseteq known /\ (disk[At].kind = "file" => \A c, d \in disk[At].has : c = d)
    BY <1>7, <1>a, <1>b DEF OpenCopy, Fits
  <2>2. CASE op.kind = "move"
    <3>1. disk' = disk /\ known' = known /\ op'.left = disk[At].has /\ op'.temp = Empty(disk[At].kind) /\ op'.kind = "move"
      BY <1>0, <1>7, <2>2 DEF OpenCopy, Op
    <3> QED  BY <1>a, <2>1, <3>1 DEF ContentInv, Empty
  <2>3. CASE op.kind # "move"
    <3>1. disk' = [disk EXCEPT ![Output] = Empty(disk[At].kind)] /\ known' = known
          /\ op'.left = disk[At].has /\ op'.temp = op.temp
      BY <1>0, <1>7, <2>3 DEF OpenCopy, Op
    <3>2. \A q \in Path : disk'[q] = disk[q] \/ disk'[q] = Empty(disk[At].kind)
      BY <1>0, <3>1
    <3>3. \A q \in Path : Fits(disk'[q], known)
      BY <1>a, <3>2, Fitting
    <3> QED  BY <1>0, <2>1, <2>3, <3>1, <3>3 DEF ContentInv
  <2> QED  BY <2>2, <2>3
<1>8. ASSUME NEW c \in Content, CopyContent(c) PROVE ContentInv'
  <2>1. c \in op.left /\ c \in known /\ known' = known
    BY <1>8 DEF CopyContent, ContentInv
  <2>2. CASE op.kind = "move"
    <3>1. disk' = disk /\ op' = [op EXCEPT !.left = @ \ {c}, !.temp.has = @ \cup {c}]
      BY <1>8, <2>2 DEF CopyContent
    <3>2. op'.left = op.left \ {c} /\ op'.temp.has = op.temp.has \cup {c} /\ op'.temp.kind = op.temp.kind /\ op'.kind = op.kind
      BY <1>0, <3>1 DEF Op, Entry
    <3> QED  BY <1>a, <2>1, <3>1, <3>2 DEF ContentInv
  <2>3. CASE op.kind # "move"
    <3>1. op' = [op EXCEPT !.left = @ \ {c}] /\ disk' = [disk EXCEPT ![Output] = Grown(@, c)]
      BY <1>8, <2>3 DEF CopyContent
    <3>2. op'.left = op.left \ {c} /\ op'.temp = op.temp /\ op'.kind = op.kind
      BY <1>0, <3>1 DEF Op
    <3>3. \A q \in Path : disk'[q] = disk[q] \/ disk'[q] = Grown(disk[q], c)
      BY <1>0, <3>1
    <3>4. \A e \in Entry : Fits(e, known) => Fits(Grown(e, c), known)
      BY <2>1, Fitting
    <3>5. \A q \in Path : Fits(disk'[q], known)
      BY <1>a, <3>3, <3>4
    <3> QED  BY <2>1, <3>2, <3>5, ContentOf
  <2> QED  BY <2>2, <2>3
<1>9. CASE Truncate
  <2>1. disk' = [disk EXCEPT ![At] = Empty("file")] /\ op' = [op EXCEPT !.pc = "write"] /\ known' = known
    BY <1>9 DEF Truncate
  <2>2. \A q \in Path : disk'[q] = disk[q] \/ disk'[q] = Empty("file")
    BY <1>0, <2>1
  <2>3. \A q \in Path : Fits(disk'[q], known)
    BY <1>a, <2>2, Fitting
  <2> QED  BY <1>0, <2>1, <2>3, ContentOf DEF Op
<1>10. ASSUME NEW c \in Content, Write(c) PROVE ContentInv'
  <2>0. disk' = [disk EXCEPT ![At] = File(c)] /\ known' = known \cup {c}
        /\ op' = [op EXCEPT !.pc = "done", !.answer = "ok", !.temp = Absent]
    BY <1>10 DEF Write, Answers
  <2>1. op'.left = op.left /\ op'.temp = Absent
    BY <1>0, <2>0 DEF Op
  <2>2. \A q \in Path : disk'[q] = disk[q] \/ disk'[q] = File(c)
    BY <1>0, <2>0
  <2>3. \A q \in Path : Fits(disk'[q], known')
    <3>1. (\A e \in Entry : Fits(e, known) => Fits(e, known')) /\ Fits(File(c), known')
      BY <1>0, <2>0 DEF Fits, File
    <3> QED  BY <1>a, <2>2, <3>1
  <2> QED  BY <1>0, <2>1, <2>3, ContentOf
<1>11. ASSUME NEW stays \in SUBSET op.clean, NEW gone \in SUBSET Content, CleanUp(stays, gone) PROVE ContentInv'
  <2>1. /\ \A q \in Path : disk'[q] \in {disk[q], Absent, [disk[q] EXCEPT !.has = @ \ gone]}
        /\ known' = known /\ op' = [op EXCEPT !.pc = "done", !.clean = {}, !.failed = stays # {}]
    BY <1>11 DEF CleanUp
  <2>2. ASSUME NEW q \in Path PROVE Fits(disk'[q], known)
    BY <1>a, <2>1 DEF Fits, Absent, Entry
  <2>3. op'.left = op.left /\ op'.temp = op.temp /\ op'.kind = op.kind
    BY <1>0, <2>1 DEF Op
  <2> QED  BY <2>1, <2>2, <2>3, ContentOf
<1> QED  BY <1>2, <1>3, <1>4, <1>5, <1>6, <1>7, <1>8, <1>9, <1>10, <1>11 DEF Operate

LEMMA OthersContent == ASSUME IInv, ContentInv, Others PROVE ContentInv'
<1>0. op \in Op /\ disk \in [Path -> Entry] /\ \A p \in Path : disk[p] \in Entry /\ Fits(disk[p], known)
  BY DEF IInv, TypeOK, ContentInv
<1>1. ASSUME NEW p, Touches(p) PROVE op'.left = op.left /\ op'.temp = op.temp /\ op'.kind = op.kind
  <2>1. op' = [op EXCEPT !.touched = @ \cup {p}] \/ op' = op
    BY <1>1 DEF Touches
  <2> QED  BY <1>0, <2>1 DEF Op
<1>2. ASSUME NEW p \in Path, NEW c \in Content, Publish(p, c) \/ PublishInto(p, c) PROVE ContentInv'
  <2>1. known' = known \cup {c} /\ Touches(p)
    BY <1>2 DEF Publish, PublishInto, Gives
  <2>2. /\ \A e \in Entry : Fits(e, known) => Fits(e, known')
        /\ Fits(File(c), known')
        /\ \A e \in Entry : Fits(e, known) /\ e.kind = "directory" => Fits([e EXCEPT !.has = @ \cup {c}], known')
    BY <2>1 DEF Fits, File, Entry
  <2>3. \A q \in Path : Fits(disk'[q], known')
    <3>1. CASE Publish(p, c)
      BY <1>0, <2>2, <3>1 DEF Publish
    <3>2. CASE PublishInto(p, c)
      <4>1. \A q \in Path : \/ disk'[q] = disk[q]
                            \/ disk[q].kind = "directory" /\ disk'[q] = [disk[q] EXCEPT !.has = @ \cup {c}]
        BY <1>0, <3>2 DEF PublishInto
      <4>2. ASSUME NEW q \in Path PROVE Fits(disk'[q], known')
        BY <1>0, <2>2, <4>1
      <4> QED  BY <4>2
    <3> QED  BY <1>2, <3>1, <3>2
  <2>4. known \subseteq known'
    BY <2>1
  <2> QED  BY <1>1, <2>1, <2>3, <2>4, ContentOf
<1>3. ASSUME NEW p \in Path, Delete(p) PROVE ContentInv'
  <2>1. known' = known /\ Touches(p) /\ disk' = [disk EXCEPT ![p] = Absent]
    BY <1>3 DEF Delete, GivesUp
  <2>2. ASSUME NEW q \in Path PROVE Fits(disk'[q], known')
    BY <1>0, <2>1 DEF Fits, Absent
  <2> QED  BY <1>1, <2>1, <2>2, ContentOf
<1>4. ASSUME NEW p \in Path, NEW c \in Content, DeleteIn(p, c) PROVE ContentInv'
  <2>1. known' = known /\ Touches(p) /\ disk' = [disk EXCEPT ![p] = [disk[p] EXCEPT !.has = @ \ {c}]]
    BY <1>0, <1>4 DEF DeleteIn, GivesUp, Without
  <2>2. \A q \in Path : disk'[q] = disk[q] \/ disk'[q] = [disk[q] EXCEPT !.has = @ \ {c}]
    BY <1>0, <2>1
  <2>3. \A e \in Entry : Fits(e, known) => Fits([e EXCEPT !.has = @ \ {c}], known)
    BY DEF Fits, Entry
  <2>4. ASSUME NEW q \in Path PROVE Fits(disk'[q], known')
    BY <1>0, <2>1, <2>2, <2>3
  <2> QED  BY <1>1, <2>1, <2>4, ContentOf
<1> QED  BY <1>2, <1>3, <1>4 DEF Others

LEMMA ContentKept == ASSUME IInv, ContentInv, [Next]_vars PROVE ContentInv'
<1>1. CASE UNCHANGED vars
  BY <1>1 DEF vars, ContentInv
<1>2. CASE Release \/ Crash
  BY <1>2, StillContent DEF Release, Crash, history
<1> QED  BY <1>1, <1>2, BeginContent, OperateContent, OthersContent DEF Next

-----------------------------------------------------------------------------
LEMMA NoEntry == ASSUME IInv PROVE \A p \in Path : disk[p].kind = "none" => disk[p] = Absent
<1> SUFFICES ASSUME NEW p \in Path, disk[p].kind = "none" PROVE disk[p] = Absent
  OBVIOUS
<1>1. disk[p] \in Entry /\ disk[p].has = {}
  BY DEF IInv, TypeOK, AbsentInv
<1> QED  BY <1>1 DEF Entry, Absent

\* An operation begins with nothing done.
LEMMA BeginsExact ==
    ASSUME IInv, ContentInv, NEW kind, NEW pc, NEW src \in Seq(Place), NEW dst \in Seq(Place),
           Len(src) = Len(dst), StartsAt(kind, pc), Begins(kind, pc, src, dst),
           kind \in Removals => dst = src,
           kind \in {"rename", "move", "copy", "save"} => Len(src) = 1
    PROVE  BeforeInv' /\ ExactInv'
<1>1. disk' = disk /\ known' = known
      /\ op' = [Idle EXCEPT !.kind = kind, !.pc = pc, !.src = src, !.dst = dst, !.before = disk]
  BY DEF Begins
<1>2. op'.kind = kind /\ op'.pc = pc /\ op'.src = src /\ op'.dst = dst /\ op'.at = 1 /\ op'.before = disk'
  BY <1>1 DEF Idle
<1>3. DOMAIN src = 1..Len(src) /\ DOMAIN dst = DOMAIN src /\ Item' = DOMAIN src
      /\ \A i \in DOMAIN src : dst[i] \in Path
  BY <1>2, Paths DEF Item
<1>4. kind \notin Removals => \A i \in DOMAIN src : disk[dst[i]] = Absent
  BY <1>3, NoEntry DEF Begins, Exists
<1>5. BeforeInv'
  <2>1. \A p \in Path : Fits(disk[p], known) /\ (disk[p].kind = "none" => disk[p] = Absent)
    BY NoEntry DEF ContentInv
  <2> QED  BY <1>1, <1>2, <1>3, <1>4, <2>1 DEF BeforeInv
<1>6. ASSUME NEW i \in DOMAIN src PROVE Exact(i)'
  <2>1. New(i)' /\ i >= 1
    BY <1>2, <1>3 DEF New, Holds, Was, StageWas
  <2>2. kind \in Moves => MoveExact(i)'
    BY <1>2, <2>1 DEF MoveExact, StartsAt, Moves
  <2>3. kind = "copy" => CopyExact(i)'
    BY <1>2, <2>1 DEF CopyExact, StartsAt, Moves
  <2>4. kind = "batchCopy" => BatchExact(i)'
    BY <1>2, <1>3, <2>1 DEF BatchExact, StartsAt, Moves
  <2>5. CleanExact(i)' /\ RemovalExact(i)' /\ Answered(i)'
    BY <1>2, <1>3, <2>1 DEF CleanExact, RemovalExact, Answered, StartsAt, Moves
  <2> QED  BY <1>2, <2>2, <2>3, <2>4, <2>5 DEF Exact
<1> QED  BY <1>3, <1>5, <1>6 DEF ExactInv

LEMMA BeginsOneExact ==
    ASSUME IInv, ContentInv, NEW kind, NEW pc, NEW p \in Place, NEW q \in Place,
           kind \in Removals => p = q, StartsAt(kind, pc), Begins(kind, pc, <<p>>, <<q>>)
    PROVE  BeforeInv' /\ ExactInv'
<1>1. <<p>> \in Seq(Place) /\ <<q>> \in Seq(Place) /\ Len(<<p>>) = Len(<<q>>) /\ Len(<<p>>) = 1
  OBVIOUS
<1> QED  BY <1>1, BeginsExact

LEMMA BeginExact == ASSUME IInv, ContentInv, Begin PROVE BeforeInv' /\ ExactInv'
<1> USE DEF StartsAt, Moves, Removals
<1>1. ASSUME NEW p \in Place, NEW n \in Name, RenameItem(p, n) PROVE BeforeInv' /\ ExactInv'
  <2>1. In(p.folder, n) \in Place
    BY InPaths DEF Place
  <2> QED  BY <1>1, <2>1, BeginsOneExact DEF RenameItem
<1>2. ASSUME NEW p \in Place, NEW q \in Place, MoveItem(p, q) \/ CopyItem(p, q) PROVE BeforeInv' /\ ExactInv'
  BY <1>2, BeginsOneExact DEF MoveItem, CopyItem
<1>3. ASSUME NEW f \in Folder, NEW g \in Folder, NEW s \in Selections, BatchMove(f, g, s) PROVE BeforeInv' /\ ExactInv'
  <2>1. Begins("batchMove", "act", AllIn(f, s), AllIn(g, s))
    BY <1>3 DEF BatchMove
  <2> QED  BY <2>1, InPaths, BeginsExact
<1>4. ASSUME NEW f \in Folder, NEW g \in Folder, NEW s \in Selections, BatchCopy(f, g, s) PROVE BeforeInv' /\ ExactInv'
  <2>1. Begins("batchCopy", "look", AllIn(f, s), AllIn(g, s))
    BY <1>4 DEF BatchCopy
  <2> QED  BY <2>1, InPaths, BeginsExact
<1>5. ASSUME NEW f \in Folder, NEW s \in Selections, BatchDelete(f, s) PROVE BeforeInv' /\ ExactInv'
  <2>1. Begins("batchDelete", "check", AllIn(f, s), AllIn(f, s))
    BY <1>5 DEF BatchDelete
  <2> QED  BY <2>1, InPaths, BeginsExact
<1>6. ASSUME NEW p \in Place, WriteVersionedTextFile(p) PROVE BeforeInv' /\ ExactInv'
  BY <1>6, BeginsOneExact DEF WriteVersionedTextFile
<1>7. ASSUME NEW p \in Place, NEW kind \in {"file", "directory"}, Make(p, kind) PROVE BeforeInv' /\ ExactInv'
  BY <1>7 DEF Make, Busy, BeforeInv, ExactInv
<1> QED  BY <1>1, <1>2, <1>3, <1>4, <1>5, <1>6, <1>7 DEF Begin

LEMMA BeforeKept ==
    ASSUME BeforeInv, Busy, SamePaths, known \subseteq known'
    PROVE  BeforeInv'
<1>1. Item' = Item
  BY DEF Item, SamePaths
<1>2. \A p \in Path : Fits(op.before[p], known) => Fits(op.before[p], known')
  BY DEF Fits
<1> QED  BY <1>1, <1>2 DEF BeforeInv, SamePaths

-----------------------------------------------------------------------------
(* Item by item.                                                           *)

\* The paths of an item, and of two.
LEMMA PathsAre ==
    ASSUME IInv, BeforeInv, Busy
    PROVE  /\ op \in Op /\ disk \in [Path -> Entry] /\ Item = 1..Len(op.src) /\ Len(op.src) \in Nat \ {0}
           /\ op.at \in Nat
           /\ \A i \in Item : /\ PathsOf(i) \subseteq Path /\ op.src[i] \in Place /\ op.dst[i] \in Place
                              /\ Stage(op.dst[i]) \notin {op.src[i], op.dst[i]}
                              /\ Was(i) \in Entry /\ op.before[op.dst[i]] \in Entry /\ StageWas(i) \in Entry
           /\ \A i, j \in Item : i # j => PathsOf(i) \cap PathsOf(j) = {}
           /\ op.kind \notin Removals => \A i \in Item : op.src[i] # op.dst[i] /\ op.before[op.dst[i]] = Absent
           /\ op.kind \in {"rename", "move", "copy", "save"} =>
                  Item = {1} /\ (op.pc \notin {"back", "cleanup", "done"} => op.at = 1)
<1>1. op \in Op /\ disk \in [Path -> Entry] /\ op.at \in Nat /\ op.before \in [Path -> Entry]
  BY DEF IInv, TypeOK, Op
<1>2. Item = 1..Len(op.src) /\ Len(op.src) \in Nat \ {0}
      /\ \A i \in Item : /\ op.src[i] \in Place /\ op.dst[i] \in Place
                         /\ op.src[i] \in Path /\ op.dst[i] \in Path /\ Stage(op.dst[i]) \in Path
  BY <1>1, Items DEF IInv
<1>3. \A i, j \in Item : Stage(op.dst[i]) # op.src[j] /\ Stage(op.dst[i]) # op.dst[j]
  BY <1>1, Items DEF IInv
<1>4. ASSUME NEW i \in Item, NEW j \in Item, i # j PROVE PathsOf(i) \cap PathsOf(j) = {}
  <2>1. op.src[i] # op.src[j] /\ op.dst[i] # op.dst[j] /\ Stage(op.dst[i]) # Stage(op.dst[j])
    BY <1>1, <1>4, Items DEF IInv, ShapeInv
  <2>2. op.src[i] # op.dst[j] /\ op.src[j] # op.dst[i]
    BY <1>4, <2>1 DEF IInv, ShapeInv, BeforeInv
  <2> QED  BY <1>3, <2>1, <2>2 DEF PathsOf
<1>5. op.kind \notin Removals => \A i \in Item : op.src[i] # op.dst[i] /\ op.before[op.dst[i]] = Absent
  BY DEF IInv, ShapeInv, BeforeInv
<1>6. \A i \in Item : /\ PathsOf(i) \subseteq Path
                      /\ Was(i) \in Entry /\ op.before[op.dst[i]] \in Entry /\ StageWas(i) \in Entry
  BY <1>1, <1>2 DEF PathsOf, Was, StageWas
<1>7. op.kind \in {"rename", "move", "copy", "save"} =>
          Item = {1} /\ (op.pc \notin {"back", "cleanup", "done"} => op.at = 1)
  BY <1>2 DEF IInv, ShapeInv, BeforeInv
<1> QED  BY <1>1, <1>2, <1>3, <1>4, <1>5, <1>6, <1>7

\* A step is looked at item by item.
LEMMA ExactlyIs ==
    ASSUME ExactInv, Own, \A i \in Item : Free(i) /\ Exact(i) => Exact(i)'
    PROVE  ExactInv'
<1>1. Item' = Item /\ \A i : Free(i)' <=> Free(i)
  BY DEF Own, SamePaths, Item, Free, PathsOf
<1> QED  BY <1>1 DEF ExactInv, Own

\* Nothing has happened to an item whose paths are as they were.
LEMMA SameItem ==
    ASSUME SamePaths, NEW i, \A p \in PathsOf(i) : disk'[p] = disk[p]
    PROVE  /\ New(i)' <=> New(i)
           /\ Moved(i)' <=> Moved(i)
           /\ Copied(i)' <=> Copied(i)
           /\ Staged(i)' <=> Staged(i)
           /\ Was(i)' = Was(i) /\ StageWas(i)' = StageWas(i)
           /\ op'.before[op'.src[i]] = Was(i)
           /\ disk'[op'.src[i]] = disk[op.src[i]] /\ disk'[op'.dst[i]] = disk[op.dst[i]]
           /\ disk'[Stage(op'.dst[i])] = disk[Stage(op.dst[i])]
           /\ PathsOf(i)' = PathsOf(i)
BY DEF SamePaths, PathsOf, New, Moved, Copied, Staged, Holds, Was, StageWas

\* What an operation did to item op.at leaves the others alone.
LEMMA SameOthers ==
    ASSUME IInv, BeforeInv, Busy, NEW i \in Item, NEW j \in Item, i # j,
           \A p \in Path \ PathsOf(j) : disk'[p] = disk[p]
    PROVE  \A p \in PathsOf(i) : disk'[p] = disk[p]
BY PathsAre

\* Of an operation that has answered only the answer counts.
LEMMA AnsweredIs ==
    ASSUME NEW i, op'.pc = "done", Answered(i)'
    PROVE  Exact(i)'
BY DEF Exact, MoveExact, CopyExact, BatchExact, CleanExact, RemovalExact

-----------------------------------------------------------------------------
(* Steps of the operation that leave the disk alone.                       *)

LEMMA EndExact ==
    ASSUME IInv, BeforeInv, ExactInv, Own,
           RenameFails \/ PromoteMovedFails \/ MovedBack \/ TruncateFails \/ WriteFails
    PROVE  ExactInv'
<1> USE DEF history
<1>1. op \in Op /\ disk' = disk
  BY DEF IInv, TypeOK, RenameFails, PromoteMovedFails, MovedBack, TruncateFails, WriteFails, Fails, Goes
<1>2. ASSUME NEW i \in Item, Exact(i) PROVE Exact(i)'
  <2>1. New(i) => New(i)'
    BY <1>1, SameItem DEF Own
  <2>2. CASE RenameFails \/ PromoteMovedFails \/ TruncateFails
    <3>1. op' = [op EXCEPT !.pc = "done", !.answer = "error", !.temp = Absent]
      BY <2>2 DEF RenameFails, PromoteMovedFails, TruncateFails, Fails, Answers
    <3>2. op'.pc = "done" /\ op'.answer = "error"
      BY <1>1, <3>1 DEF Op
    <3>3. New(i)
      <4>1. CASE RenameFails \/ PromoteMovedFails
        BY <1>2, <4>1, PathsAre DEF RenameFails, PromoteMovedFails, Fails, Own, Exact, MoveExact, Moves
      <4>2. CASE TruncateFails
        BY <1>2, <4>2 DEF TruncateFails, Fails, Exact, RemovalExact
      <4> QED  BY <2>2, <4>1, <4>2
    <3>4. Undone(i)'
      BY <2>1, <3>2, <3>3 DEF New, Holds, Was, StageWas, Undone, PathsOf
    <3> QED  BY <3>2, <3>4, AnsweredIs DEF Answered
  <2>3. CASE MovedBack
    <3>1. op' = [op EXCEPT !.pc = "done", !.answer = "partial", !.temp = Absent] /\ op.pc = "back" /\ op.at = 0
      BY <2>3 DEF MovedBack, Fails, Answers
    <3>2. op'.pc = "done" /\ op'.answer = "partial" /\ op'.failed = op.failed /\ op'.kind = op.kind
      BY <1>1, <3>1 DEF Op
    <3>3. op.kind = "batchMove" /\ (op.failed \/ New(i))
      <4>1. op.kind \in Moves /\ ~(i <= 0)
        BY <3>1, PathsAre DEF Own, IInv, ShapeInv
      <4> QED  BY <1>2, <3>1, <4>1 DEF Exact, MoveExact
    <3>4. op.failed \/ Undone(i)'
      BY <2>1, <3>2, <3>3 DEF New, Holds, Was, StageWas, Undone, PathsOf
    <3> QED  BY <3>2, <3>4, AnsweredIs DEF Answered
  <2>4. CASE WriteFails
    <3>1. op'.pc = "done" /\ op'.answer = "error" /\ op'.failed
      BY <1>1, <2>4 DEF WriteFails, Goes, Op
    <3> QED  BY <3>1, AnsweredIs DEF Answered
  <2> QED  BY <2>2, <2>3, <2>4
<1> QED  BY <1>2, ExactlyIs

LEMMA TurnExact ==
    ASSUME IInv, BeforeInv, ExactInv, Own, Crosses \/ BatchMoveFails \/ CheckItem \/ SkipItem
    PROVE  ExactInv'
<1> USE DEF history
<1>1. op \in Op /\ disk' = disk
  BY DEF IInv, TypeOK, Crosses, BatchMoveFails, CheckItem, SkipItem, Goes
<1>2. ASSUME NEW i \in Item, Exact(i) PROVE Exact(i)'
  <2>1. (New(i) => New(i)') /\ (Moved(i) => Moved(i)')
    BY <1>1, SameItem DEF Own
  <2>2. CASE Crosses
    <3>1. op'.pc = "open" /\ op'.kind = "move" /\ op.pc = "act" /\ op.kind = "move" /\ Item = {1} /\ op.at = 1
      BY <1>1, <2>2, PathsAre DEF Crosses, Goes, Op, Own
    <3>2. New(i)'
      BY <1>2, <2>1, <3>1 DEF Exact, MoveExact, Moves
    <3> QED  BY <3>1, <3>2 DEF Exact, MoveExact, CleanExact, RemovalExact, Answered
  <2>3. CASE BatchMoveFails
    <3>1. /\ op'.pc = "back" /\ op'.kind = "batchMove" /\ op'.at = op.at - 1
          /\ op.pc = "act" /\ op.kind = "batchMove" /\ op.at \in Nat /\ i \in Nat
      BY <1>1, <2>3, PathsAre DEF BatchMoveFails, Goes, Op, Own
    <3>2. IF i <= op'.at THEN Moved(i)' ELSE New(i)'
      BY <1>2, <2>1, <3>1 DEF Exact, MoveExact, Moves
    <3> QED  BY <3>1, <3>2 DEF Exact, MoveExact, CleanExact, RemovalExact, Answered
  <2>4. CASE CheckItem
    <3>1. /\ op'.pc = "remove" /\ op'.kind = op.kind /\ op.kind = "batchDelete" /\ op.pc = "check"
          /\ op'.at = op.at /\ op'.failed = op.failed /\ op'.src = op.src
      BY <1>1, <2>4 DEF CheckItem, Goes, Op, IInv, ShapeInv, Busy
    <3> QED  BY <1>1, <1>2, <3>1 DEF Exact, RemovalExact, CleanExact, Answered, Moves
  <2>5. CASE SkipItem
    <3> DEFINE o == [op EXCEPT !.failed = TRUE]
    <3>1. o \in Op /\ o.failed /\ "check" \in Step /\ op' = Onward(o, "check") /\ op.kind = "batchDelete" /\ o.kind = op.kind
      BY <1>1, <2>5 DEF SkipItem, Goes, Op, Step, IInv, ShapeInv, Busy
    <3> HIDE DEF o
    <3>2. op'.failed /\ op'.kind = "batchDelete" /\ (op'.pc = "check" \/ (op'.pc = "done" /\ op'.answer = "partial"))
      BY <3>1, OnwardOwn
    <3> QED  BY <3>2 DEF Exact, RemovalExact, CleanExact, Answered, Moves
  <2> QED  BY <2>2, <2>3, <2>4, <2>5
<1> QED  BY <1>2, ExactlyIs

\* What has been copied whole.
LEMMA Whole == ASSUME NEW e, NEW i, Partly(e, i), op.left = {}, Was(i) \in Entry PROVE e = Was(i)
BY DEF Partly, Entry

LEMMA CopyEndsExact == ASSUME IInv, BeforeInv, ExactInv, Own, CopyEnds PROVE ExactInv'
<1> USE DEF history
<1>1. op \in Op /\ disk' = disk /\ op.pc = "copy" /\ op.left = {} /\ op.kind \in {"move", "copy", "batchCopy"}
  BY DEF IInv, TypeOK, CopyEnds, Goes, Own, ShapeInv, Copies
<1>2. ASSUME NEW i \in Item, Exact(i) PROVE Exact(i)'
  <2>1. (New(i) => New(i)') /\ (Staged(i) => Staged(i)') /\ Was(i)' = Was(i) /\ Was(i) \in Entry
    BY <1>1, SameItem, PathsAre DEF Own
  <2>2. CASE op.kind = "move"
    <3>1. op'.pc = "promote" /\ op'.kind = "move" /\ op'.temp = op.temp
      BY <1>1, <2>2 DEF CopyEnds, Goes, Op
    <3>2. New(i)' /\ op.temp = Was(i)
      BY <1>1, <1>2, <2>1, <2>2, Whole DEF Exact, MoveExact, Moves
    <3> QED  BY <2>1, <3>1, <3>2 DEF Exact, MoveExact, CleanExact, RemovalExact, Answered
  <2>3. CASE op.kind = "copy"
    <3>1. op'.pc = "done" /\ op'.kind = "copy" /\ op'.answer = "ok"
      BY <1>1, <2>3 DEF CopyEnds, Goes, Op
    <3>2. Copied(i)
      BY <1>1, <1>2, <2>1, <2>3, Whole DEF Exact, CopyExact, Copied, Holds, Moves
    <3>3. Copied(i)'
      BY <1>1, <3>2, SameItem DEF Own
    <3>4. Done(i)'
      BY <3>1, <3>3 DEF Copied, Holds, Was, StageWas, Done, Moves
    <3> QED  BY <3>1, <3>4, AnsweredIs DEF Answered
  <2>4. CASE op.kind = "batchCopy"
    <3>1. /\ op'.kind = "batchCopy" /\ op.at \in Nat /\ i \in 1..Len(op.src) /\ Len(op.src) \in Nat
          /\ \/ op.at < Len(op.src) /\ op'.pc = "look" /\ op'.at = op.at + 1
             \/ ~(op.at < Len(op.src)) /\ op'.pc = "promote" /\ op'.at = 1
      BY <1>1, <2>4, PathsAre DEF CopyEnds, Goes, Op, Own
    <3>2. CASE i < op.at
      <4>1. Staged(i) /\ Staged(i)'
        BY <1>1, <1>2, <2>1, <2>4, <3>2 DEF Exact, BatchExact, Moves
      <4> QED  BY <3>1, <3>2, <4>1 DEF Exact, BatchExact, CleanExact, RemovalExact, Answered, Moves, Staged
    <3>3. CASE i = op.at
      <4>1. StageWas(i) = Absent /\ Holds(i, Was(i), Absent, Was(i))
        BY <1>1, <1>2, <2>1, <2>4, <3>3, Whole DEF Exact, BatchExact, Moves, Holds
      <4>2. Staged(i)'
        BY <2>1, <4>1 DEF Staged
      <4> QED  BY <3>1, <3>3, <4>2 DEF Exact, BatchExact, CleanExact, RemovalExact, Answered, Moves, Staged
    <3>4. CASE i > op.at
      <4>1. New(i)'
        BY <1>1, <1>2, <2>1, <2>4, <3>1, <3>4 DEF Exact, BatchExact, Moves
      <4> QED  BY <3>1, <3>4, <4>1 DEF Exact, BatchExact, CleanExact, RemovalExact, Answered, Moves
    <3> QED  BY <3>1, <3>2, <3>3, <3>4
  <2> QED  BY <1>1, <2>2, <2>3, <2>4
<1> QED  BY <1>2, ExactlyIs

-----------------------------------------------------------------------------
(* Cleaning up after a copy.                                               *)

LEMMA StagesAre ==
    ASSUME IInv, Busy, NEW n
    PROVE  \A i \in Item : /\ Stage(op.dst[i]) \in StagesBefore(n) <=> i < n
                           /\ op.src[i] \notin StagesBefore(n) /\ op.dst[i] \notin StagesBefore(n)
BY Items DEF IInv, TypeOK, StagesBefore

LEMMA CleansItem ==
    ASSUME Own, NEW i, disk' = disk, op'.pc = "cleanup", op'.answer # "ok", op.kind \in Copies,
           \A p \in PathsOf(i) : IF p \in op'.clean THEN op.before[p] = Absent ELSE disk[p] = op.before[p]
    PROVE  Exact(i)'
<1>1. op'.kind = op.kind /\ PathsOf(i)' = PathsOf(i) /\ op'.before = op.before
  BY DEF Own, SamePaths, PathsOf
<1>2. CleanExact(i)'
  BY <1>1 DEF CleanExact
<1> QED  BY <1>1, <1>2 DEF Exact, CopyExact, BatchExact, RemovalExact, Answered, Moves, Copies

LEMMA LookExact == ASSUME IInv, BeforeInv, ExactInv, Own, LookForStage PROVE ExactInv'
<1> USE DEF history
<1>1. op \in Op /\ disk' = disk /\ op.pc = "look" /\ op.kind = "batchCopy" /\ op.at \in Item
  BY DEF IInv, TypeOK, LookForStage, Goes, Own, ShapeInv
<1>2. ASSUME NEW i \in Item, Exact(i) PROVE Exact(i)'
  <2>1. IF i < op.at THEN Staged(i) ELSE New(i)
    BY <1>1, <1>2 DEF Exact, BatchExact, Moves
  <2>2. CASE Exists(Stage(To))
    <3>1. op'.pc = "cleanup" /\ op'.clean = StagesBefore(op.at) /\ op'.answer = "error"
      BY <1>1, <2>2 DEF LookForStage, Goes, CleansUp, Op
    <3>2. ASSUME NEW p \in PathsOf(i)
          PROVE IF p \in op'.clean THEN op.before[p] = Absent ELSE disk[p] = op.before[p]
      <4>1. op.before[op.dst[i]] = Absent
        BY <1>1, PathsAre DEF Own, Removals
      <4>2. CASE i < op.at
        BY <2>1, <3>1, <4>1, <4>2, StagesAre DEF Own, PathsOf, Staged, Holds, Was, StageWas
      <4>3. CASE ~(i < op.at)
        BY <2>1, <3>1, <4>3, StagesAre DEF Own, PathsOf, New, Holds, Was, StageWas
      <4> QED  BY <4>2, <4>3
    <3> QED  BY <1>1, <3>1, <3>2, CleansItem DEF Copies
  <2>3. CASE ~Exists(Stage(To))
    <3>1. op'.pc = "open" /\ op'.kind = "batchCopy" /\ op'.at = op.at
      BY <1>1, <2>3 DEF LookForStage, Goes, Op
    <3>2. i = op.at => StageWas(i) = Absent
      BY <2>1, <2>3, PathsAre, NoEntry, <1>1 DEF Exists, To, New, Holds, PathsOf, Own
    <3>3. /\ i < op.at => Staged(i)'
          /\ ~(i < op.at) => New(i)'
          /\ i = op.at => StageWas(i)' = Absent
      BY <1>1, <2>1, <3>2, SameItem DEF Own
    <3> QED  BY <3>1, <3>3 DEF Exact, BatchExact, CleanExact, RemovalExact, Answered, Moves
  <2> QED  BY <2>2, <2>3
<1> QED  BY <1>2, ExactlyIs

LEMMA CopyFailsExact == ASSUME IInv, BeforeInv, ExactInv, Own, CopyFails PROVE ExactInv'
<1> USE DEF history
<1>1. op \in Op /\ disk' = disk /\ op.pc \in {"open", "copy"} /\ op.kind \in {"move", "copy", "batchCopy"} /\ op.at \in Item
  BY DEF IInv, TypeOK, CopyFails, Own, ShapeInv, Copies
<1>2. ASSUME NEW i \in Item, Exact(i) PROVE Exact(i)'
  <2>1. op.kind # "move" => op.before[op.dst[i]] = Absent
    BY <1>1, PathsAre DEF Own, Removals
  <2>2. CASE op.kind = "move"
    <3>1. op'.pc = "done" /\ op'.answer = "error"
      BY <1>1, <2>2 DEF CopyFails, Answers, Op
    <3>2. New(i)'
      BY <1>1, <1>2, <2>2, SameItem DEF Own, Exact, MoveExact, Moves
    <3>3. Undone(i)'
      BY <3>1, <3>2 DEF New, Holds, Was, StageWas, Undone, PathsOf
    <3> QED  BY <3>1, <3>3, AnsweredIs DEF Answered
  <2>3. CASE op.kind = "copy"
    <3>1. op'.pc = "cleanup" /\ op'.clean = {To} /\ op'.answer = "error"
      BY <1>1, <2>3 DEF CopyFails, CleansUp, Op
    <3>2. To = op.dst[i] /\ op.src[i] # To /\ Stage(To) # To
      BY <1>1, <2>3, PathsAre DEF Own, To, Removals
    <3>3. disk[op.src[i]] = op.before[op.src[i]] /\ disk[Stage(op.dst[i])] = op.before[Stage(op.dst[i])]
      BY <1>1, <1>2, <2>3 DEF Exact, CopyExact, Moves, New, Holds, Was, StageWas
    <3>4. ASSUME NEW p \in PathsOf(i)
          PROVE IF p \in op'.clean THEN op.before[p] = Absent ELSE disk[p] = op.before[p]
      BY <2>1, <2>3, <3>1, <3>2, <3>3 DEF PathsOf
    <3> QED  BY <1>1, <2>3, <3>1, <3>4, CleansItem DEF Copies
  <2>4. CASE op.kind = "batchCopy"
    <3>1. op'.pc = "cleanup" /\ op'.clean = StagesBefore(op.at + 1) /\ op'.answer = "error"
      BY <1>1, <2>4 DEF CopyFails, CleansUp, Op
    <3>2. /\ i < op.at => Staged(i)
          /\ i = op.at => StageWas(i) = Absent /\ Holds(i, Was(i), Absent, disk[Stage(op.dst[i])])
          /\ i > op.at => New(i)
      <4>1. i = op.at => StageWas(i) = Absent /\ (New(i) \/ Holds(i, Was(i), Absent, disk[Stage(op.dst[i])]))
        BY <1>1, <1>2, <2>4, PathsAre DEF Own, Exact, BatchExact, Moves
      <4>2. (i < op.at => Staged(i)) /\ (i > op.at => New(i))
        BY <1>1, <1>2, <2>4, PathsAre DEF Own, Exact, BatchExact, Moves
      <4> QED  BY <2>1, <2>4, <4>1, <4>2 DEF New, Holds
    <3>3. i < op.at + 1 <=> ~(i > op.at)
      BY <1>1, PathsAre DEF Own
    <3>4. (op.src[i] \notin op'.clean) /\ op.dst[i] \notin op'.clean /\ (Stage(op.dst[i]) \in op'.clean <=> ~(i > op.at))
      BY <3>1, <3>3, StagesAre DEF Own
    <3>5. ASSUME NEW p \in PathsOf(i)
          PROVE IF p \in op'.clean THEN op.before[p] = Absent ELSE disk[p] = op.before[p]
      <4>1. i < op.at \/ i = op.at \/ i > op.at
        BY <1>1, PathsAre DEF Own
      <4> QED  BY <2>1, <2>4, <3>2, <3>3, <3>4, <4>1 DEF PathsOf, Staged, New, Holds, Was, StageWas
    <3> QED  BY <1>1, <2>4, <3>1, <3>5, CleansItem DEF Copies
  <2> QED  BY <1>1, <2>2, <2>3, <2>4
<1> QED  BY <1>2, ExactlyIs

LEMMA PromoteFailsExact == ASSUME IInv, BeforeInv, ExactInv, Own, PromoteCopiedFails PROVE ExactInv'
<1> USE DEF history
<1> DEFINE made == {op.dst[j] : j \in {j \in Item : j < op.at}}
<1>1. op \in Op /\ disk' = disk /\ op.pc = "promote" /\ op.kind = "batchCopy" /\ op.at \in Item
  BY DEF IInv, TypeOK, PromoteCopiedFails, Goes, Own, ShapeInv
<1>2. op'.pc = "cleanup" /\ op'.clean = made \cup StagesBefore(Len(op.src) + 1) /\ op'.answer = "partial"
  BY <1>1 DEF PromoteCopiedFails, Goes, CleansUp, Op
<1>3. ASSUME NEW i \in Item, Exact(i) PROVE Exact(i)'
  <2>1. op.before[op.dst[i]] = Absent /\ StageWas(i) = Absent /\ IF i < op.at THEN Copied(i) ELSE Staged(i)
    BY <1>1, <1>3, PathsAre DEF Own, Removals, Exact, BatchExact, Moves
  <2>2. op.src[i] \notin made /\ Stage(op.dst[i]) \notin made /\ (op.dst[i] \in made <=> i < op.at)
    BY <1>1, Items DEF IInv, ShapeInv, Own, Removals
  <2>3. op.src[i] \notin op'.clean /\ Stage(op.dst[i]) \in op'.clean /\ (op.dst[i] \in op'.clean <=> i < op.at)
    <3>1. i < Len(op.src) + 1
      BY PathsAre DEF Own
    <3> HIDE DEF made
    <3> QED  BY <1>2, <2>2, <3>1, StagesAre DEF Own
  <2>4. ASSUME NEW p \in PathsOf(i)
        PROVE IF p \in op'.clean THEN op.before[p] = Absent ELSE disk[p] = op.before[p]
    BY <2>1, <2>3 DEF PathsOf, Staged, Copied, Holds, Was, StageWas
  <2> QED  BY <1>1, <1>2, <2>4, CleansItem DEF Copies
<1> QED  BY <1>3, ExactlyIs

LEMMA CleanUpExact ==
    ASSUME IInv, BeforeInv, ExactInv, Own,
           NEW stays \in SUBSET op.clean, NEW gone \in SUBSET Content, CleanUp(stays, gone)
    PROVE  ExactInv'
<1>1. op \in Op /\ op.pc = "cleanup" /\ op.kind \in Copies
      /\ op' = [op EXCEPT !.pc = "done", !.clean = {}, !.failed = stays # {}]
  BY DEF IInv, TypeOK, CleanUp, Own, ShapeInv
<1>2. op'.pc = "done" /\ op'.failed = (stays # {}) /\ op'.answer = op.answer /\ op'.kind = op.kind
  BY <1>1 DEF Op
<1>3. ASSUME NEW i \in Item, Exact(i) PROVE Exact(i)'
  <2>1. op.answer # "ok" /\ \A p \in PathsOf(i) :
            IF p \in op.clean THEN op.before[p] = Absent ELSE disk[p] = op.before[p]
    BY <1>1, <1>3 DEF Exact, CleanExact
  <2>2. CASE stays = {}
    <3>1. \A p \in PathsOf(i) : disk'[p] = op.before[p]
      BY <2>1, <2>2, PathsAre DEF CleanUp, Own
    <3>2. PathsOf(i)' = PathsOf(i) /\ op'.before = op.before
      BY DEF Own, SamePaths, PathsOf
    <3>3. Undone(i)'
      BY <1>1, <1>2, <3>1, <3>2 DEF Undone, Copies
    <3> QED  BY <1>2, <2>1, <3>3, AnsweredIs DEF Answered
  <2>3. CASE stays # {}
    BY <1>2, <2>1, <2>3, AnsweredIs DEF Answered
  <2> QED  BY <2>2, <2>3
<1> QED  BY <1>3, ExactlyIs

-----------------------------------------------------------------------------
(* Steps of the operation on the disk.                                     *)

\* What happens at the paths of item op.at leaves the other items as they are.
LEMMA SameBut ==
    ASSUME IInv, BeforeInv, Own, op.at \in Item, NEW i \in Item, i # op.at,
           \A p \in Path \ PathsOf(op.at) : disk'[p] = disk[p]
    PROVE  /\ New(i)' <=> New(i)
           /\ Moved(i)' <=> Moved(i)
           /\ Copied(i)' <=> Copied(i)
           /\ Staged(i)' <=> Staged(i)
           /\ StageWas(i)' = StageWas(i)
           /\ disk'[op'.src[i]] = disk[op.src[i]]
BY SameOthers, SameItem DEF Own

\* What a rename between two paths of the item does.
LEMMA RenamedIs ==
    ASSUME IInv, BeforeInv, Own, op.at \in Item, NEW p \in PathsOf(op.at), NEW q \in PathsOf(op.at), p # q,
           disk' = Renamed(p, q)
    PROVE  /\ disk'[p] = Absent /\ disk'[q] = disk[p]
           /\ \A r \in Path \ {p, q} : disk'[r] = disk[r]
           /\ \A r \in Path \ PathsOf(op.at) : disk'[r] = disk[r]
BY PathsAre DEF Own, Renamed

LEMMA RenameExact == ASSUME IInv, BeforeInv, ExactInv, Own, Rename PROVE ExactInv'
<1> USE DEF history
<1>1. op \in Op /\ op.pc = "act" /\ op.kind \in Moves /\ op.at \in Item /\ op'.kind = op.kind
  BY DEF IInv, TypeOK, Rename, Own, ShapeInv, SamePaths
<1>2. /\ op'.failed = op.failed
      /\ \/ op.at < Len(op.src) /\ op'.pc = "act" /\ op'.at = op.at + 1
         \/ ~(op.at < Len(op.src)) /\ op'.pc = "done" /\ (op'.answer = "ok" => ~op.failed)
                                   /\ (op'.answer # "ok" => op.failed)
  BY <1>1, OnwardOwn DEF Rename, Step
<1>3. At \in PathsOf(op.at) /\ To \in PathsOf(op.at) /\ At # To /\ Stage(To) \notin {At, To} /\ Stage(To) \in Path
  BY <1>1, PathsAre DEF Own, At, To, PathsOf, Moves, Removals
<1>4. /\ disk'[At] = Absent /\ disk'[To] = disk[At] /\ disk'[Stage(To)] = disk[Stage(To)]
      /\ \A r \in Path \ PathsOf(op.at) : disk'[r] = disk[r]
  BY <1>1, <1>3, RenamedIs DEF Rename
<1>5. ASSUME NEW i \in Item, Exact(i) PROVE Exact(i)'
  <2>1. IF i < op.at THEN Moved(i) ELSE New(i)
    BY <1>1, <1>5 DEF Exact, MoveExact
  <2>2. IF i <= op.at THEN Moved(i)' ELSE New(i)'
    <3>1. op.at \in Nat /\ i \in Nat
      BY PathsAre DEF Own
    <3>2. CASE i = op.at
      BY <1>4, <2>1, <3>1, <3>2 DEF New, Moved, Holds, At, To, Own, SamePaths, Was, StageWas
    <3>3. CASE i # op.at
      BY <1>1, <1>4, <2>1, <3>1, <3>3, SameBut
    <3> QED  BY <3>2, <3>3
  <2>3. CASE op'.pc = "act"
    <3>1. i < op'.at <=> i <= op.at
      BY <1>2, <2>3, PathsAre DEF Own
    <3> QED  BY <1>1, <2>2, <2>3, <3>1 DEF Exact, MoveExact, CleanExact, RemovalExact, Answered, Moves
  <2>4. CASE op'.pc = "done"
    <3>1. Moved(i)'
      BY <1>2, <2>2, <2>4, PathsAre DEF Own
    <3>2. Done(i)'
      BY <1>1, <3>1 DEF Moved, Holds, Was, StageWas, Done, Moves
    <3> QED  BY <1>2, <2>4, <3>2, AnsweredIs DEF Answered
  <2> QED  BY <1>2, <2>3, <2>4
<1> QED  BY <1>5, ExactlyIs

LEMMA BackExact == ASSUME IInv, BeforeInv, ExactInv, Own, MoveBack PROVE ExactInv'
<1> USE DEF history
<1>1. /\ op \in Op /\ op.pc = "back" /\ op.kind \in Moves /\ op.at > 0 /\ op.at \in Item
      /\ op'.kind = op.kind /\ op.at \in Nat
  BY PathsAre DEF IInv, TypeOK, MoveBack, Own, ShapeInv, SamePaths
<1>2. op'.pc = "back" /\ op'.at = op.at - 1
  BY <1>1 DEF MoveBack, Op
<1>3. CASE CanRename(To, At) /\ disk' = Renamed(To, At) /\ op' = [op EXCEPT !.at = @ - 1]
  <2>1. At \in PathsOf(op.at) /\ To \in PathsOf(op.at) /\ At # To /\ Stage(To) \notin {At, To} /\ Stage(To) \in Path
    BY <1>1, PathsAre DEF Own, At, To, PathsOf, Moves, Removals
  <2>2. /\ disk'[To] = Absent /\ disk'[At] = disk[To] /\ disk'[Stage(To)] = disk[Stage(To)]
        /\ \A r \in Path \ PathsOf(op.at) : disk'[r] = disk[r]
    BY <1>1, <1>3, <2>1, RenamedIs
  <2>3. op'.failed = op.failed
    BY <1>1, <1>3 DEF Op
  <2>4. ASSUME NEW i \in Item, Exact(i) PROVE Exact(i)'
    <3>1. op.kind = "batchMove" /\ (op.failed \/ IF i <= op.at THEN Moved(i) ELSE New(i))
      BY <1>1, <2>4 DEF Exact, MoveExact
    <3>2. i \in Nat /\ op.before[To] = Absent
      BY <1>1, PathsAre DEF Own, To, Moves, Removals
    <3>3. ASSUME ~op.failed PROVE IF i <= op'.at THEN Moved(i)' ELSE New(i)'
      <4>1. CASE i = op.at
        BY <1>1, <1>2, <2>2, <3>1, <3>2, <3>3, <4>1 DEF New, Moved, Holds, At, To, Own, SamePaths, Was, StageWas
      <4>2. CASE i # op.at
        BY <1>1, <1>2, <2>2, <3>1, <3>2, <3>3, <4>2, SameBut
      <4> QED  BY <4>1, <4>2
    <3> QED  BY <1>1, <1>2, <2>3, <3>1, <3>3 DEF Exact, MoveExact, CleanExact, RemovalExact, Answered, Moves
  <2> QED  BY <2>4, ExactlyIs
<1>4. CASE op' = [op EXCEPT !.at = @ - 1, !.failed = TRUE] /\ UNCHANGED disk
  <2>1. op'.failed
    BY <1>1, <1>4 DEF Op
  <2>2. ASSUME NEW i \in Item, Exact(i) PROVE Exact(i)'
    BY <1>1, <1>2, <2>1, <2>2 DEF Exact, MoveExact, CleanExact, RemovalExact, Answered, Moves
  <2> QED  BY <2>2, ExactlyIs
<1> QED  BY <1>3, <1>4 DEF MoveBack

LEMMA PromoteMovedExact == ASSUME IInv, BeforeInv, ExactInv, Own, PromoteMoved \/ Unlink PROVE ExactInv'
<1> USE DEF history
<1>1. /\ op \in Op /\ op.kind = "move" /\ op'.kind = op.kind /\ Item = {1} /\ op.at = 1
      /\ op.pc \in {"promote", "unlink"}
  BY PathsAre DEF IInv, TypeOK, PromoteMoved, Unlink, Own, ShapeInv, SamePaths
<1>2. /\ disk \in [Path -> Entry] /\ At \in Path /\ To \in Path /\ At # To
      /\ Stage(To) \notin {At, To} /\ Stage(To) \in Path
  BY <1>1, PathsAre DEF Own, At, To, PathsOf, Removals
<1>3. ASSUME Exact(1) PROVE Exact(1)'
  <2>1. CASE PromoteMoved
    <3>1. op.pc = "promote" /\ op'.pc = "unlink" /\ disk' = [disk EXCEPT ![To] = op.temp]
      BY <1>1, <2>1 DEF PromoteMoved, Op
    <3>2. disk'[To] = op.temp /\ disk'[At] = disk[At] /\ disk'[Stage(To)] = disk[Stage(To)]
      BY <1>2, <3>1
    <3>3. New(1) /\ op.temp = Was(1)
      BY <1>1, <1>3, <3>1 DEF Exact, MoveExact, Moves
    <3>4. Copied(1)'
      BY <1>1, <3>2, <3>3 DEF New, Copied, Holds, At, To, Own, SamePaths, Was, StageWas
    <3> QED  BY <1>1, <3>1, <3>4 DEF Exact, MoveExact, CleanExact, RemovalExact, Answered
  <2>2. CASE Unlink
    <3>1. op.pc = "unlink" /\ op'.pc = "done" /\ op'.answer = "ok" /\ disk' = [disk EXCEPT ![At] = Absent]
      BY <1>1, <2>2 DEF Unlink, Answers, Op
    <3>2. disk'[To] = disk[To] /\ disk'[At] = Absent /\ disk'[Stage(To)] = disk[Stage(To)]
      BY <1>2, <3>1
    <3>3. Copied(1)
      BY <1>1, <1>3, <3>1 DEF Exact, MoveExact, Moves
    <3>4. Done(1)'
      BY <1>1, <3>2, <3>3 DEF Copied, Holds, At, To, Own, SamePaths, Was, StageWas, Done, Moves
    <3> QED  BY <3>1, <3>4, AnsweredIs DEF Answered
  <2> QED  BY <2>1, <2>2, <1>3
<1> QED  BY <1>1, <1>3, ExactlyIs

LEMMA UnlinkFailsExact ==
    ASSUME IInv, BeforeInv, ExactInv, Own, NEW S \in SUBSET Content, UnlinkFails(S)
    PROVE  ExactInv'
<1>1. op \in Op /\ op.kind = "move" /\ op'.kind = op.kind /\ Item = {1} /\ op.at = 1 /\ op.pc = "unlink"
  BY PathsAre DEF IInv, TypeOK, UnlinkFails, Own, ShapeInv, SamePaths
<1>2. /\ disk \in [Path -> Entry] /\ At \in Path /\ To \in Path /\ At # To
  BY <1>1, PathsAre DEF Own, At, To, PathsOf, Removals
<1>3. op'.pc = "done" /\ op'.answer = "partial" /\ disk'[To] = disk[To]
  BY <1>1, <1>2 DEF UnlinkFails, Answers, Op, Without
<1>4. ASSUME Exact(1) PROVE Exact(1)'
  <2>1. Copied(1)
    BY <1>1, <1>4 DEF Exact, MoveExact, Moves
  <2>2. Undone(1)'
    BY <1>1, <1>3, <2>1 DEF Copied, Holds, To, Own, SamePaths, Was, Undone
  <2> QED  BY <1>3, <2>2, AnsweredIs DEF Answered
<1> QED  BY <1>1, <1>4, ExactlyIs

\* A copy writes at one path of the item.
LEMMA OutputIs ==
    ASSUME IInv, BeforeInv, Own, op.pc \in {"open", "copy"}, op.kind \in Copies, NEW e, disk' = [disk EXCEPT ![Output] = e]
    PROVE  /\ op.at \in Item /\ Output = IF op.kind = "copy" THEN op.dst[op.at] ELSE Stage(op.dst[op.at])
           /\ disk'[Output] = e /\ \A r \in PathsOf(op.at) \ {Output} : disk'[r] = disk[r]
           /\ \A r \in Path \ PathsOf(op.at) : disk'[r] = disk[r]
<1>1. op.at \in Item
  BY DEF IInv, ShapeInv, Own
<1>2. Output = IF op.kind = "copy" THEN op.dst[op.at] ELSE Stage(op.dst[op.at])
  BY DEF Output, To, Copies
<1>3. Output \in PathsOf(op.at) /\ Output \in Path /\ PathsOf(op.at) \subseteq Path /\ disk \in [Path -> Entry]
  BY <1>1, <1>2, PathsAre DEF PathsOf, Own
<1> QED  BY <1>1, <1>2, <1>3

LEMMA OpenExact == ASSUME IInv, BeforeInv, ExactInv, Own, OpenCopy PROVE ExactInv'
<1> USE DEF history
<1>1. /\ op \in Op /\ op.pc = "open" /\ op.kind \in {"move", "copy", "batchCopy"} /\ op'.kind = op.kind
      /\ op.at \in Item /\ disk[At] \in Entry
  BY PathsAre DEF IInv, TypeOK, OpenCopy, Own, ShapeInv, SamePaths, Copies, At, PathsOf
<1>2. op'.pc = "copy" /\ op'.left = disk[At].has /\ op'.at = op.at
  BY <1>1 DEF OpenCopy, Op
<1>3. CASE op.kind = "move"
  <2>1. disk' = disk /\ op'.temp = Empty(disk[At].kind) /\ op.at = 1 /\ Item = {1}
    BY <1>1, <1>3, PathsAre DEF OpenCopy, Op, Own
  <2>2. ASSUME NEW i \in Item, Exact(i) PROVE Exact(i)'
    <3>1. New(i) /\ New(i)' /\ Was(i)' = Was(i)
      BY <1>1, <1>3, <2>1, <2>2, SameItem DEF Exact, MoveExact, Moves, Own
    <3>2. disk[At] = Was(i)
      BY <2>1, <3>1 DEF New, Holds, At
    <3>3. Partly(op.temp, i)'
      BY <1>2, <2>1, <3>1, <3>2 DEF Partly, Empty
    <3> QED  BY <1>1, <1>2, <1>3, <3>1, <3>3 DEF Exact, MoveExact, CleanExact, RemovalExact, Answered
  <2> QED  BY <2>2, ExactlyIs
<1>4. CASE op.kind # "move"
  <2>1. op.kind \in Copies /\ disk' = [disk EXCEPT ![Output] = Empty(disk[At].kind)]
    BY <1>1, <1>4 DEF OpenCopy, Copies
  <2>2. /\ Output = IF op.kind = "copy" THEN op.dst[op.at] ELSE Stage(op.dst[op.at])
        /\ disk'[Output] = Empty(disk[At].kind) /\ \A r \in PathsOf(op.at) \ {Output} : disk'[r] = disk[r]
        /\ \A r \in Path \ PathsOf(op.at) : disk'[r] = disk[r]
    BY <1>1, <2>1, OutputIs
  <2>3. ASSUME NEW i \in Item, Exact(i), i = op.at PROVE Exact(i)'
    <3>1. New(i) /\ (op.kind = "batchCopy" => StageWas(i) = Absent)
      BY <1>1, <1>4, <2>3, PathsAre DEF Exact, CopyExact, BatchExact, Moves, Own
    <3>2. disk[At] = Was(i) /\ Was(i)' = Was(i) /\ StageWas(i)' = StageWas(i) /\ op.before[op.dst[i]] = Absent
      BY <2>1, <2>3, <3>1, PathsAre DEF New, Holds, At, Was, StageWas, Own, SamePaths, Copies, Removals
    <3>3. op.src[i] # op.dst[i] /\ Stage(op.dst[i]) \notin {op.src[i], op.dst[i]}
      BY <2>1, PathsAre DEF Own, Copies, Removals
    <3>4. op'.left \subseteq Was(i).has /\ disk'[Output] = [kind |-> Was(i).kind, has |-> Was(i).has \ op'.left]
      BY <1>2, <2>2, <3>2 DEF Empty
    <3>5. CASE op.kind = "copy"
      <4>1. disk'[op.src[i]] = Was(i) /\ disk'[Stage(op.dst[i])] = StageWas(i) /\ Output = op.dst[i]
        BY <2>2, <2>3, <3>1, <3>3, <3>5 DEF New, Holds, PathsOf
      <4>2. CopyExact(i)'
        BY <1>2, <3>2, <3>4, <4>1 DEF CopyExact, Partly, Holds, Own, SamePaths
      <4> QED  BY <1>1, <1>2, <3>5, <4>2 DEF Exact, CleanExact, RemovalExact, Answered, Moves
    <3>6. CASE op.kind = "batchCopy"
      <4>1. disk'[op.src[i]] = Was(i) /\ disk'[op.dst[i]] = Absent /\ Output = Stage(op.dst[i])
        BY <2>2, <2>3, <3>1, <3>2, <3>3, <3>6 DEF New, Holds, PathsOf
      <4>2. BatchExact(i)'
        BY <1>2, <2>3, <3>1, <3>2, <3>4, <3>6, <4>1, PathsAre DEF BatchExact, Partly, Holds, Own, SamePaths
      <4> QED  BY <1>1, <1>2, <3>6, <4>2 DEF Exact, CleanExact, RemovalExact, Answered, Moves
    <3> QED  BY <1>1, <1>4, <3>5, <3>6
  <2>4. ASSUME NEW i \in Item, Exact(i), i # op.at PROVE Exact(i)'
    <3>1. op.kind = "batchCopy" /\ op.at \in Nat /\ i \in Nat
      BY <1>1, <1>4, <2>4, PathsAre DEF Own
    <3>2. IF i < op.at THEN Staged(i) ELSE New(i)
      BY <1>1, <2>4, <3>1 DEF Exact, BatchExact, Moves
    <3>3. IF i < op.at THEN Staged(i)' ELSE New(i)'
      BY <1>1, <2>2, <2>4, <3>2, SameBut
    <3> QED  BY <1>1, <1>2, <2>4, <3>1, <3>3 DEF Exact, BatchExact, CleanExact, RemovalExact, Answered, Moves
  <2> QED  BY <2>3, <2>4, ExactlyIs
<1> QED  BY <1>3, <1>4

\* One content less to copy is one more copied.
LEMMA OneMore ==
    ASSUME NEW e, NEW i, Partly(e, i), NEW c \in op.left
    PROVE  [kind |-> Was(i).kind, has |-> Was(i).has \ (op.left \ {c})] = [e EXCEPT !.has = @ \cup {c}]
<1>1. Was(i).has \ (op.left \ {c}) = (Was(i).has \ op.left) \cup {c}
  BY DEF Partly
<1> QED  BY <1>1 DEF Partly

\* The file that is being written is empty, for it gets one content.
LEMMA GrownIs ==
    ASSUME BeforeInv, Busy, NEW e, NEW i, op.src[i] \in Path, Was(i) \in Entry, Partly(e, i), NEW c \in op.left
    PROVE  Grown(e, c) = [e EXCEPT !.has = @ \cup {c}]
<1>1. Fits(Was(i), known) /\ (Was(i).kind = "none" => Was(i) = Absent) /\ c \in Was(i).has
  BY DEF BeforeInv, Was, Partly
<1>2. Was(i).kind \in {"file", "directory"}
  BY <1>1 DEF Entry, Absent
<1>3. CASE Was(i).kind = "file"
  <2>1. Was(i).has \ op.left = {}
    BY <1>1, <1>3 DEF Fits
  <2>2. e = Empty("file")
    BY <1>3, <2>1 DEF Partly, Empty
  <2> QED  BY <2>2 DEF Grown
<1>4. CASE Was(i).kind = "directory"
  <2>1. e.kind = "directory"
    BY <1>4 DEF Partly
  <2> QED  BY <2>1 DEF Grown
<1> QED  BY <1>2, <1>3, <1>4

LEMMA CopyExactly == ASSUME IInv, BeforeInv, ExactInv, Own, NEW c \in Content, CopyContent(c) PROVE ExactInv'
<1> USE DEF history
<1>1. /\ op \in Op /\ op.pc = "copy" /\ op.kind \in {"move", "copy", "batchCopy"} /\ op'.kind = op.kind
      /\ op.at \in Item /\ c \in op.left
  BY DEF IInv, TypeOK, CopyContent, Own, ShapeInv, SamePaths, Copies
<1>2. op'.pc = "copy" /\ op'.left = op.left \ {c} /\ op'.at = op.at
  BY <1>1 DEF CopyContent, Op
<1>3. \A i \in Item : Was(i) \in Entry /\ Was(i)' = Was(i) /\ StageWas(i)' = StageWas(i) /\ op.src[i] \in Path
  BY PathsAre DEF Own, SamePaths, Was, StageWas, PathsOf
<1>4. CASE op.kind = "move"
  <2>1. disk' = disk /\ op' = [op EXCEPT !.left = @ \ {c}, !.temp.has = @ \cup {c}]
    BY <1>4 DEF CopyContent
  <2>2. op'.temp = [op.temp EXCEPT !.has = @ \cup {c}]
    BY <1>1, <2>1 DEF Op
  <2>3. ASSUME NEW i \in Item, Exact(i) PROVE Exact(i)'
    <3>1. New(i)' /\ Partly(op.temp, i)
      BY <1>1, <1>4, <2>1, <2>3, SameItem DEF Exact, MoveExact, Moves, Own
    <3>2. Partly(op.temp, i)'
      BY <1>1, <1>2, <1>3, <2>2, <3>1, OneMore DEF Partly
    <3> QED  BY <1>1, <1>2, <1>4, <3>1, <3>2 DEF Exact, MoveExact, CleanExact, RemovalExact, Answered
  <2> QED  BY <2>3, ExactlyIs
<1>5. CASE op.kind # "move"
  <2>1. op.kind \in Copies /\ disk' = [disk EXCEPT ![Output] = Grown(disk[Output], c)]
    BY <1>1, <1>5 DEF CopyContent, Copies
  <2>2. /\ Output = IF op.kind = "copy" THEN op.dst[op.at] ELSE Stage(op.dst[op.at])
        /\ disk'[Output] = Grown(disk[Output], c) /\ \A r \in PathsOf(op.at) \ {Output} : disk'[r] = disk[r]
        /\ \A r \in Path \ PathsOf(op.at) : disk'[r] = disk[r]
    BY <1>1, <2>1, OutputIs
  <2>3. ASSUME NEW i \in Item, Exact(i), i = op.at PROVE Exact(i)'
    <3>1. op.src[i] # op.dst[i] /\ Stage(op.dst[i]) \notin {op.src[i], op.dst[i]}
      BY <2>1, PathsAre DEF Own, Copies, Removals
    <3>2. Partly(disk[Output], i)
      BY <1>1, <1>5, <2>2, <2>3, PathsAre DEF Exact, CopyExact, BatchExact, Moves, Own
    <3>3. op'.left \subseteq Was(i).has /\ disk'[Output] = [kind |-> Was(i).kind, has |-> Was(i).has \ op'.left]
      <4>1. disk'[Output] = [disk[Output] EXCEPT !.has = @ \cup {c}]
        BY <1>1, <1>3, <2>2, <3>2, GrownIs DEF Own
      <4> QED  BY <1>1, <1>2, <1>3, <3>2, <4>1, OneMore DEF Partly
    <3>4. CASE op.kind = "copy"
      <4>1. disk'[op.src[i]] = Was(i) /\ disk'[Stage(op.dst[i])] = StageWas(i) /\ Output = op.dst[i]
        BY <1>1, <2>2, <2>3, <3>1, <3>4 DEF Exact, CopyExact, Holds, PathsOf, Moves
      <4>2. CopyExact(i)'
        BY <1>2, <1>3, <3>3, <4>1 DEF CopyExact, Partly, Holds, Own, SamePaths
      <4> QED  BY <1>1, <1>2, <3>4, <4>2 DEF Exact, CleanExact, RemovalExact, Answered, Moves
    <3>5. CASE op.kind = "batchCopy"
      <4>1. disk'[op.src[i]] = Was(i) /\ disk'[op.dst[i]] = Absent /\ Output = Stage(op.dst[i]) /\ StageWas(i) = Absent
        BY <1>1, <2>2, <2>3, <3>1, <3>5 DEF Exact, BatchExact, Holds, PathsOf, Moves
      <4>2. Was(i)' = Was(i) /\ StageWas(i)' = Absent
        BY <1>3, <4>1
      <4>3. BatchExact(i)'
        BY <1>2, <2>3, <3>3, <3>5, <4>1, <4>2, PathsAre DEF BatchExact, Partly, Holds, Own, SamePaths
      <4> QED  BY <1>1, <1>2, <3>5, <4>3 DEF Exact, CleanExact, RemovalExact, Answered, Moves
    <3> QED  BY <1>1, <1>5, <3>4, <3>5
  <2>4. ASSUME NEW i \in Item, Exact(i), i # op.at PROVE Exact(i)'
    <3>1. op.kind = "batchCopy" /\ op.at \in Nat /\ i \in Nat
      BY <1>1, <1>5, <2>4, PathsAre DEF Own
    <3>2. IF i < op.at THEN Staged(i) ELSE New(i)
      BY <1>1, <2>4, <3>1 DEF Exact, BatchExact, Moves
    <3>3. IF i < op.at THEN Staged(i)' ELSE New(i)'
      BY <1>1, <2>2, <2>4, <3>2, SameBut
    <3> QED  BY <1>1, <1>2, <2>4, <3>1, <3>3 DEF Exact, BatchExact, CleanExact, RemovalExact, Answered, Moves
  <2> QED  BY <2>3, <2>4, ExactlyIs
<1> QED  BY <1>4, <1>5

LEMMA PromoteCopiedExact == ASSUME IInv, BeforeInv, ExactInv, Own, PromoteCopied PROVE ExactInv'
<1> USE DEF history
<1>1. op \in Op /\ op.pc = "promote" /\ op.kind = "batchCopy" /\ op.at \in Item /\ op'.kind = op.kind
  BY DEF IInv, TypeOK, PromoteCopied, Own, ShapeInv, SamePaths
<1>2. /\ op'.failed = op.failed
      /\ \/ op.at < Len(op.src) /\ op'.pc = "promote" /\ op'.at = op.at + 1
         \/ ~(op.at < Len(op.src)) /\ op'.pc = "done" /\ (op'.answer = "ok" => ~op.failed)
                                   /\ (op'.answer # "ok" => op.failed)
  BY <1>1, OnwardOwn DEF PromoteCopied, Step
<1>3. At \in PathsOf(op.at) /\ To \in PathsOf(op.at) /\ Stage(To) \in PathsOf(op.at)
      /\ At # To /\ Stage(To) \notin {At, To} /\ At \in Path
  BY <1>1, PathsAre DEF Own, At, To, PathsOf, Removals
<1>4. /\ disk'[Stage(To)] = Absent /\ disk'[To] = disk[Stage(To)] /\ disk'[At] = disk[At]
      /\ \A r \in Path \ PathsOf(op.at) : disk'[r] = disk[r]
  BY <1>1, <1>3, RenamedIs DEF PromoteCopied
<1>5. ASSUME NEW i \in Item, Exact(i) PROVE Exact(i)'
  <2>1. StageWas(i) = Absent /\ IF i < op.at THEN Copied(i) ELSE Staged(i)
    BY <1>1, <1>5 DEF Exact, BatchExact, Moves
  <2>2. StageWas(i)' = Absent /\ IF i <= op.at THEN Copied(i)' ELSE Staged(i)'
    <3>1. op.at \in Nat /\ i \in Nat
      BY PathsAre DEF Own
    <3>2. CASE i = op.at
      BY <1>4, <2>1, <3>1, <3>2 DEF Copied, Staged, Holds, At, To, Own, SamePaths, Was, StageWas
    <3>3. CASE i # op.at
      BY <1>1, <1>4, <2>1, <3>1, <3>3, SameBut
    <3> QED  BY <3>2, <3>3
  <2>3. CASE op'.pc = "promote"
    <3>1. i < op'.at <=> i <= op.at
      BY <1>2, <2>3, PathsAre DEF Own
    <3> QED  BY <1>1, <2>2, <2>3, <3>1 DEF Exact, BatchExact, CleanExact, RemovalExact, Answered, Moves
  <2>4. CASE op'.pc = "done"
    <3>1. Copied(i)'
      BY <1>2, <2>2, <2>4, PathsAre DEF Own
    <3>2. Done(i)'
      BY <1>1, <3>1 DEF Copied, Holds, Was, StageWas, Done, Moves
    <3> QED  BY <1>2, <2>4, <3>2, AnsweredIs DEF Answered
  <2> QED  BY <1>2, <2>3, <2>4
<1> QED  BY <1>5, ExactlyIs

\* A removal changes only the path of its item.
LEMMA RemovalOnly ==
    ASSUME IInv, BeforeInv, Own, NEW e, disk' = [disk EXCEPT ![At] = e], op.at \in Item
    PROVE  disk'[At] = e /\ \A i \in Item : i # op.at => disk'[op.src[i]] = disk[op.src[i]]
BY PathsAre DEF Own, At, PathsOf

LEMMA RemoveExact == ASSUME IInv, BeforeInv, ExactInv, Own, RemoveItem PROVE ExactInv'
<1> USE DEF history
<1>1. op \in Op /\ op.pc = "remove" /\ op.kind = "batchDelete" /\ op.at \in Item /\ op'.kind = op.kind
  BY DEF IInv, TypeOK, RemoveItem, Own, ShapeInv, SamePaths
<1>2. /\ op'.failed = op.failed /\ op'.src = op.src
      /\ \/ op.at < Len(op.src) /\ op'.pc = "check" /\ op'.at = op.at + 1
         \/ ~(op.at < Len(op.src)) /\ op'.pc = "done" /\ (op'.answer = "ok" => ~op.failed)
                                   /\ (op'.answer # "ok" => op.failed)
  BY <1>1, OnwardOwn DEF RemoveItem, Step
<1>3. disk'[At] = Absent /\ \A i \in Item : i # op.at => disk'[op.src[i]] = disk[op.src[i]]
  BY <1>1, RemovalOnly DEF RemoveItem
<1>4. ASSUME NEW i \in Item, Exact(i) PROVE Exact(i)'
  <2>1. op.failed \/ i >= op.at \/ disk[op.src[i]] = Absent
    BY <1>1, <1>4 DEF Exact, RemovalExact
  <2>2. op.failed \/ i > op.at \/ disk'[op'.src[i]] = Absent
    BY <1>2, <1>3, <2>1, PathsAre DEF Own, At
  <2>3. CASE op'.pc = "check"
    BY <1>1, <1>2, <2>2, <2>3, PathsAre DEF Own, Exact, RemovalExact, CleanExact, Answered, Moves
  <2>4. CASE op'.pc = "done"
    <3>1. op.failed \/ Done(i)'
      BY <1>1, <1>2, <2>2, <2>4, PathsAre DEF Own, Done
    <3> QED  BY <1>2, <2>4, <3>1, AnsweredIs DEF Answered
  <2> QED  BY <1>2, <2>3, <2>4
<1> QED  BY <1>4, ExactlyIs

LEMMA RemoveFailsExact ==
    ASSUME IInv, BeforeInv, ExactInv, Own, NEW S \in SUBSET Content, RemoveItemFails(S)
    PROVE  ExactInv'
<1> DEFINE o == [op EXCEPT !.failed = TRUE]
<1>1. o \in Op /\ o.failed /\ "check" \in Step /\ op' = Onward(o, "check") /\ op.kind = "batchDelete" /\ o.kind = op.kind
  BY DEF IInv, TypeOK, RemoveItemFails, Op, Step, Own, ShapeInv
<1> HIDE DEF o
<1>2. op'.failed /\ op'.kind = "batchDelete" /\ (op'.pc = "check" \/ (op'.pc = "done" /\ op'.answer = "partial"))
  BY <1>1, OnwardOwn
<1>3. ASSUME NEW i \in Item PROVE Exact(i)'
  BY <1>2 DEF Exact, RemovalExact, CleanExact, Answered, Moves
<1> QED  BY <1>3, ExactlyIs

LEMMA SaveExact ==
    ASSUME IInv, BeforeInv, ExactInv, Own, Truncate \/ \E c \in Content : Write(c)
    PROVE  ExactInv'
<1> USE DEF history
<1>1. op \in Op /\ op.kind = "save" /\ op'.kind = op.kind /\ op.at = 1 /\ Item = {1}
  BY PathsAre DEF IInv, TypeOK, Truncate, Write, Own, ShapeInv, SamePaths
<1>2. CASE Truncate
  <2>1. op'.pc = "write"
    BY <1>1, <1>2 DEF Truncate, Op
  <2>2. Exact(1)'
    BY <1>1, <2>1 DEF Exact, RemovalExact, CleanExact, Answered, Moves
  <2> QED  BY <1>1, <2>2, ExactlyIs
<1>3. ASSUME NEW c \in Content, Write(c) PROVE ExactInv'
  <2>1. disk' = [disk EXCEPT ![At] = File(c)] /\ c \notin known
        /\ op' = [op EXCEPT !.pc = "done", !.answer = "ok", !.temp = Absent]
    BY <1>3 DEF Write, Answers
  <2>2. op'.pc = "done" /\ op'.answer = "ok" /\ op'.src = op.src /\ op'.before = op.before
    BY <1>1, <2>1 DEF Op
  <2>3. disk'[At] = File(c)
    BY <1>1, <2>1, RemovalOnly
  <2>4. Was(1).has \subseteq known
    BY <1>1, PathsAre DEF BeforeInv, Own, Fits, Was, PathsOf
  <2>5. Done(1)'
    BY <1>1, <2>1, <2>2, <2>3, <2>4 DEF Done, File, At, Was
  <2>6. Exact(1)'
    BY <2>2, <2>5, AnsweredIs DEF Answered
  <2> QED  BY <1>1, <2>6, ExactlyIs
<1> QED  BY <1>2, <1>3

-----------------------------------------------------------------------------
LEMMA OperateExact == ASSUME IInv, BeforeInv, ExactInv, Operate PROVE BeforeInv' /\ ExactInv'
<1>1. Own
  BY OperateOwn
<1> QED  BY <1>1, BeforeKept, EndExact, TurnExact, CopyEndsExact, LookExact, CopyFailsExact, PromoteFailsExact,
            CleanUpExact, RenameExact, BackExact, PromoteMovedExact, UnlinkFailsExact, OpenExact, CopyExactly,
            PromoteCopiedExact, RemoveExact, RemoveFailsExact, SaveExact DEF Operate, Own

\* Others are seen to have touched what they change.
LEMMA OthersTouch ==
    ASSUME IInv, Others
    PROVE  \E p \in Path : Touches(p) /\ known \subseteq known' /\ \A q \in Path \ {p} : disk'[q] = disk[q]
BY DEF IInv, TypeOK, Others, Publish, PublishInto, Delete, DeleteIn, Gives, GivesUp, Without

LEMMA OthersExact == ASSUME IInv, BeforeInv, ExactInv, Others PROVE BeforeInv' /\ ExactInv'
<1>1. PICK p \in Path : Touches(p) /\ known \subseteq known' /\ \A q \in Path \ {p} : disk'[q] = disk[q]
  BY OthersTouch
<1>2. CASE ~Busy
  BY <1>1, <1>2 DEF Touches, Busy, BeforeInv, ExactInv
<1>3. CASE Busy
  <2>1. op \in Op /\ op' = [op EXCEPT !.touched = @ \cup {p}]
    BY <1>1, <1>3 DEF IInv, TypeOK, Touches
  <2>2. /\ SamePaths /\ op'.pc = op.pc /\ op'.at = op.at /\ op'.left = op.left /\ op'.temp = op.temp
        /\ op'.clean = op.clean /\ op'.answer = op.answer /\ op'.failed = op.failed
        /\ op'.touched = op.touched \cup {p}
    BY <2>1 DEF Op, SamePaths
  <2>3. ASSUME NEW i \in Item, Exact(i), Free(i)' PROVE Exact(i)'
    <3>1. PathsOf(i)' = PathsOf(i) /\ \A q \in PathsOf(i) : disk'[q] = disk[q]
      <4>1. PathsOf(i)' = PathsOf(i) /\ p \notin PathsOf(i)
        BY <2>2, <2>3 DEF Free, PathsOf, SamePaths
      <4> QED  BY <1>1, <1>3, <4>1, PathsAre
    <3>2. /\ New(i)' <=> New(i)
          /\ Moved(i)' <=> Moved(i)
          /\ Copied(i)' <=> Copied(i)
          /\ Staged(i)' <=> Staged(i)
          /\ Was(i)' = Was(i) /\ StageWas(i)' = StageWas(i)
          /\ disk'[op'.src[i]] = disk[op.src[i]] /\ disk'[op'.dst[i]] = disk[op.dst[i]]
          /\ disk'[Stage(op'.dst[i])] = disk[Stage(op.dst[i])]
      BY <2>2, <3>1, SameItem
    <3>3. op.kind \in Moves => MoveExact(i)'
      BY <2>2, <2>3, <3>2 DEF Exact, MoveExact, Partly, SamePaths
    <3>4. op.kind = "copy" => CopyExact(i)'
      BY <2>2, <2>3, <3>2 DEF Exact, CopyExact, Partly, Holds, SamePaths
    <3>5. op.kind = "batchCopy" => BatchExact(i)'
      BY <2>2, <2>3, <3>2 DEF Exact, BatchExact, Partly, Holds, SamePaths
    <3>6. CleanExact(i)' /\ RemovalExact(i)'
      BY <2>2, <2>3, <3>1, <3>2 DEF Exact, CleanExact, RemovalExact, SamePaths
    <3>7. Answered(i)'
      BY <2>2, <2>3, <3>1, <3>2 DEF Exact, Answered, Done, Undone, SamePaths
    <3> QED  BY <2>2, <3>3, <3>4, <3>5, <3>6, <3>7 DEF Exact, SamePaths
  <2>4. \A i : Free(i)' => Free(i)
    BY <2>2 DEF Free, PathsOf, SamePaths
  <2>5. Item' = Item
    BY <2>2 DEF Item, SamePaths
  <2>6. ExactInv'
    BY <1>3, <2>3, <2>4, <2>5 DEF ExactInv
  <2> QED  BY <1>1, <1>3, <2>2, <2>6, BeforeKept
<1> QED  BY <1>2, <1>3

\* What answers say, with all they rest on.
AnswerInv == ContentInv /\ BeforeInv /\ ExactInv

LEMMA AnswerInit == Init => AnswerInv
<1>1. Init => ~Busy
  BY DEF Init, Busy, Idle
<1> QED  BY <1>1, ContentInit DEF AnswerInv, BeforeInv, ExactInv

LEMMA AnswerKept == ASSUME IInv, AnswerInv, [Next]_vars PROVE AnswerInv'
<1> USE DEF AnswerInv
<1>1. ContentInv'
  BY ContentKept
<1>2. CASE UNCHANGED vars
  <2>1. disk' = disk /\ op' = op /\ known' = known
    BY <1>2 DEF vars
  <2>2. Item' = Item /\ (Busy' <=> Busy) /\ \A i : PathsOf(i)' = PathsOf(i) /\ (Free(i)' <=> Free(i))
    BY <2>1 DEF Item, Busy, Free, PathsOf
  <2>3. BeforeInv'
    <3> SUFFICES ASSUME Busy' PROVE BeforeInv'
      BY DEF BeforeInv
    <3>1. /\ \A p \in Path : Fits(op.before[p], known) /\ (op.before[p].kind = "none" => op.before[p] = Absent)
          /\ op.kind \notin Removals => \A i \in Item : op.before[op.dst[i]] = Absent
          /\ op.kind \in Removals => op.dst = op.src
          /\ op.kind \in {"rename", "move", "copy", "save"} => Len(op.src) = 1
      BY <2>2 DEF BeforeInv
    <3> QED
      BY <2>1, <2>2, <3>1, Zenon DEF BeforeInv
  <2>4. ASSUME NEW i PROVE Exact(i)' <=> Exact(i)
    <3>1. Was(i)' = Was(i) /\ StageWas(i)' = StageWas(i)
      BY <2>1 DEF Was, StageWas
    <3>2. \A e : Partly(e, i)' <=> Partly(e, i)
      BY <2>1, <3>1 DEF Partly
    <3>3. (New(i)' <=> New(i)) /\ (Moved(i)' <=> Moved(i)) /\ (Copied(i)' <=> Copied(i)) /\ (Staged(i)' <=> Staged(i))
      BY <2>1, <3>1 DEF New, Moved, Copied, Staged, Holds
    <3>5. MoveExact(i)' <=> MoveExact(i)
      BY <2>1, <3>1, <3>2, <3>3 DEF MoveExact, Partly
    <3>6. CopyExact(i)' <=> CopyExact(i)
      BY <2>1, <3>1, <3>3 DEF CopyExact, Holds, Partly
    <3>7. BatchExact(i)' <=> BatchExact(i)
      BY <2>1, <3>1, <3>3 DEF BatchExact, Holds, Partly
    <3>8. CleanExact(i)' <=> CleanExact(i)
      BY <2>1, <2>2 DEF CleanExact
    <3>9. RemovalExact(i)' <=> RemovalExact(i)
      BY <2>1, <3>3 DEF RemovalExact
    <3>10. Done(i)' <=> Done(i)
      BY <2>1 DEF Done
    <3>11. Undone(i)' <=> Undone(i)
      BY <2>1, <2>2 DEF Undone
    <3>12. Answered(i)' <=> Answered(i)
      BY <2>1, <3>10, <3>11 DEF Answered
    <3> QED
      BY <2>1, <3>5, <3>6, <3>7, <3>8, <3>9, <3>12 DEF Exact
  <2>5. ExactInv'
    BY <2>2, <2>4 DEF ExactInv
  <2> QED  BY <1>1, <2>3, <2>5
<1>3. CASE Release \/ Crash
  <2>1. ~Busy'
    BY <1>3 DEF Release, Crash, Busy, Idle
  <2> QED  BY <1>1, <2>1 DEF BeforeInv, ExactInv
<1> QED  BY <1>1, <1>2, <1>3, BeginExact, OperateExact, OthersExact DEF Next

\* Whatever fails and whatever others do meanwhile, for batches of any length: "ok"
\* means that an item nobody else has touched is done, and an error that it is as it
\* was, but where the answer could not help it.
THEOREM AnswersAreTrueAlways == Spec => []AnswersAreTrue
<1>1. IInv /\ AnswerInv /\ [Next]_vars => AnswerInv'
  BY AnswerKept
<1>2. AnswerInv => AnswersAreTrue
  BY DEF AnswerInv, ExactInv, Exact, Answered, AnswersAreTrue, Busy, Free
<1> QED  BY <1>1, <1>2, AnswerInit, Inductive, PTL DEF Spec
=============================================================================
