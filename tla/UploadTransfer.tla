--------------------------- MODULE UploadTransfer ---------------------------
(***************************************************************************)
(* The durable life of reliable uploads (upload_store.go,                  *)
(* upload_publish.go): what each handler writes to the disk, step by step, *)
(* where a step may fail, where the process may die, and what start-up     *)
(* recovery makes of the remains.                                          *)
(*                                                                         *)
(* Several transfers share the user's directories; two of them may aim at  *)
(* the same name, and the folder of a name may be gone for a while.        *)
(* A transfer's handlers run one at a time, under its lock                 *)
(* (lockFor), so each transfer has one program counter.  A handler works   *)
(* on the manifest it loaded under that lock; the copy differs from the    *)
(* saved one only in the fields the next save overwrites, so only the      *)
(* saved manifest is a variable.                                           *)
(***************************************************************************)
EXTENDS Naturals, FiniteSets

CONSTANTS
    Upload,         \* transfer identifiers
    Part,           \* part indexes of a transfer
    Data,           \* contents of a part; a digest identifies its contents
    Name,           \* names in the users' directories, each in a folder of its own
    Target,         \* Target[u]: the name transfer u asks for
    Movable,        \* names whose folder can go away (not those in the managed root)
    Place,          \* Place[u]: where a listing of the transfers has u's directory
    Announced,      \* whole-file digests a client may announce (None: omitted)
    UserContent,    \* what the users themselves put under a name
    Torn,           \* a file whose writing was cut short
    Faults,         \* whether disk operations may report errors
    None

Assembled == [Part -> Data]
Content == Assembled \cup UserContent

ASSUME TargetAssumption == Target \in [Upload -> Name]
ASSUME MovableAssumption == Movable \subseteq Name
ASSUME PlaceAssumption == Place \in [Upload -> Nat]
ASSUME AnnouncedAssumption == Announced \subseteq Assembled \cup {None}
ASSUME FaultsAssumption == Faults \in BOOLEAN

VARIABLES
    dir,        \* dir[u]: the transfer's private directory exists
    manifest,   \* manifest[u]: the saved manifest.json, or None
    partFile,   \* partFile[u][p]: bytes under the part's final file name
    stage,      \* stage[u]: the hidden staging file beside the destination
    file,       \* file[n]: what n's folder holds under n
    away,       \* the names whose folder was removed, renamed or moved
    stale,      \* stale[u]: the clock has passed the saved ExpiresAt
    server,     \* "down", "recovering", "up" or "refused": start-up found
                \* something on the disk that it does not accept
    todo,       \* directories start-up recovery has still to visit
    pc,         \* pc[u]: the next step of the handler holding u's lock
    op,         \* op[u]: the call a shared helper returns to
    arg,        \* arg[u]: part index and digest of the WritePart call
    acked,      \* history: parts a successful reply has confirmed
    done,       \* history: a successful reply has confirmed completion
    linked      \* history: the link u made is still the file under Target[u]

durable == <<dir, manifest, partFile, stage, file, away, stale>>
volatile == <<server, todo, pc, op, arg>>
history == <<acked, done, linked>>
vars == <<durable, volatile, history>>

NoParts == [p \in Part |-> None]
NoArg == [part |-> None, digest |-> None]

Manifest == [state : {"active", "finalizing", "completed", "cancelled"},
             parts : [Part -> Data \cup {None}],
             expected : Announced,
             final : Assembled \cup {None}]

Record(s, parts, expected, final) ==
    [state |-> s, parts |-> parts, expected |-> expected, final |-> final]

ASSUME NoneAssumption == None \notin Data \cup Content \cup Manifest /\ Torn # None

NewManifest(e) == Record("active", NoParts, e, None)

Step == {"idle", "creating", "receiving", "recording", "publishing", "opening",
         "assembling", "sealing", "linking", "syncing", "marking", "clearing",
         "unstaging", "resetting", "reactivating", "recovering", "discarding",
         "reviving", "cancelling", "emptying", "reaping"}

Init ==
    /\ dir = [u \in Upload |-> FALSE]
    /\ manifest = [u \in Upload |-> None]
    /\ partFile = [u \in Upload |-> NoParts]
    /\ stage = [u \in Upload |-> None]
    /\ file = [n \in Name |-> None]
    /\ away = {}
    /\ stale = [u \in Upload |-> FALSE]
    /\ server = "down"
    /\ todo = {}
    /\ pc = [u \in Upload |-> "idle"]
    /\ op = [u \in Upload |-> "none"]
    /\ arg = [u \in Upload |-> NoArg]
    /\ acked = [u \in Upload |-> NoParts]
    /\ done = [u \in Upload |-> FALSE]
    /\ linked = [u \in Upload |-> FALSE]

-----------------------------------------------------------------------------
(* What a handler reads *)

Unfinished(u) == manifest[u] # None /\ manifest[u].state \in {"active", "finalizing"}
InState(u, s) == manifest[u] # None /\ manifest[u].state = s
AllRecorded(u) == \A p \in Part : manifest[u].parts[p] # None

\* verifyUploadParts: every recorded part is on the disk, byte for byte.
PartsVerified(u) ==
    \A p \in Part : manifest[u].parts[p] # None => partFile[u][p] = manifest[u].parts[p]

\* The announced digest, if there is one, is that of the assembled parts.
DigestAgrees(u, c) == manifest[u].expected \in {None, c}

\* ResolveDirectory finds the folder the transfer's path names.
Reachable(u) == Target[u] \notin away

\* authorizedManifest and the expiry test that opens every handler.
Ready(u) == server = "up" /\ pc[u] = "idle" /\ manifest[u] # None /\ ~stale[u]

\* reapMu is free, and reapExpiredLocked found a manifest in every directory and
\* left nothing expired.  (What expires after its visit may as well expire later.)
ScanClean == \A v \in Upload : /\ pc[v] \notin {"creating", "reaping"}
                               /\ dir[v] => manifest[v] # None /\ ~stale[v]

(* How a handler moves on *)

Goto(u, s) == /\ pc' = [pc EXCEPT ![u] = s]
              /\ UNCHANGED <<server, todo, op, arg>>

Finish(u) == /\ pc' = [pc EXCEPT ![u] = "idle"]
             /\ op' = [op EXCEPT ![u] = "none"]
             /\ arg' = [arg EXCEPT ![u] = NoArg]

\* Return to the caller without an error.
Return(u) == /\ Finish(u)
             /\ todo' = IF op[u] = "recover" THEN todo \ {u} ELSE todo
             /\ UNCHANGED server

\* Return an error; one that reaches NewUploadStore ends the process.
Stop(u, s) == /\ Finish(u)
              /\ IF op[u] = "recover" THEN server' = s /\ todo' = {}
                                      ELSE UNCHANGED <<server, todo>>

Fail(u) == Stop(u, "down")          \* a disk operation reported an error
Refuse(u) == Stop(u, "refused")     \* what was read is not accepted

\* saveManifest writes a temporary file, renames it and syncs the directory.
Saved(u, m) == manifest' = [manifest EXCEPT ![u] = m]
Refreshed(u) == stale' = [stale EXCEPT ![u] = FALSE]

\* A save that reports an error: the rename may have happened all the same.
SaveFailed(u, m) == /\ Faults
                    /\ \/ Saved(u, m) /\ Refreshed(u)
                       \/ UNCHANGED <<manifest, stale>>

-----------------------------------------------------------------------------
(* Create *)

\* Nothing is stored under the identifier: make the transfer's directory.
CreateBegin(u) ==
    /\ server = "up" /\ pc[u] = "idle" /\ ScanClean
    /\ ~dir[u]
    /\ dir' = [dir EXCEPT ![u] = TRUE]
    /\ acked' = [acked EXCEPT ![u] = NoParts]
    /\ done' = [done EXCEPT ![u] = FALSE]
    /\ linked' = [linked EXCEPT ![u] = FALSE]
    /\ Goto(u, "creating")
    /\ UNCHANGED <<manifest, partFile, stage, file, away, stale>>

CreateSave(u) ==
    /\ pc[u] = "creating"
    /\ \E e \in Announced : Saved(u, NewManifest(e))
    /\ Refreshed(u)
    /\ Return(u)
    /\ UNCHANGED <<dir, partFile, stage, file, away, history>>

\* A failed save removes the directory; the removal's own error is ignored.
CreateFail(u) ==
    /\ pc[u] = "creating"
    /\ \/ Faults /\ dir' = [dir EXCEPT ![u] = FALSE] /\ UNCHANGED <<manifest, stale>>
       \/ UNCHANGED dir /\ \E e \in Announced : SaveFailed(u, NewManifest(e))
    /\ Fail(u)
    /\ UNCHANGED <<partFile, stage, file, away, history>>

-----------------------------------------------------------------------------
(* WritePart *)

Acknowledge(u, p, d) == acked' = [acked EXCEPT ![u][p] = d]

\* The same part again: confirmed without touching the disk.
PartRepeated(u, p) ==
    /\ Ready(u) /\ InState(u, "active")
    /\ manifest[u].parts[p] # None
    /\ Acknowledge(u, p, manifest[u].parts[p])
    /\ UNCHANGED <<durable, volatile, done, linked>>

\* Seeded fault: a recorded part is written again.
PartBegin_Anew(u, p, d) ==
    /\ Ready(u) /\ InState(u, "active")
    /\ partFile' = [partFile EXCEPT ![u][p] = None]
    /\ arg' = [arg EXCEPT ![u] = [part |-> p, digest |-> d]]
    /\ pc' = [pc EXCEPT ![u] = "receiving"]
    /\ UNCHANGED <<dir, manifest, stage, file, away, stale, server, todo, op, history>>

\* A part not yet recorded: drop what an earlier attempt left under its name.
PartBegin(u, p, d) ==
    /\ Ready(u) /\ InState(u, "active")
    /\ manifest[u].parts[p] = None
    /\ partFile' = [partFile EXCEPT ![u][p] = None]
    /\ arg' = [arg EXCEPT ![u] = [part |-> p, digest |-> d]]
    /\ pc' = [pc EXCEPT ![u] = "receiving"]
    /\ UNCHANGED <<dir, manifest, stage, file, away, stale, server, todo, op, history>>

\* The body is synced to a temporary file and renamed if its digest agrees.
PartReceive(u, body) ==
    /\ pc[u] = "receiving"
    /\ body = arg[u].digest
    /\ partFile' = [partFile EXCEPT ![u][arg[u].part] = body]
    /\ Goto(u, "recording")
    /\ UNCHANGED <<dir, manifest, stage, file, away, stale, history>>

WithPart(u) == Record("active", [manifest[u].parts EXCEPT ![arg[u].part] = arg[u].digest],
                      manifest[u].expected, None)

PartRecord(u) ==
    /\ pc[u] = "recording"
    /\ Saved(u, WithPart(u)) /\ Refreshed(u)
    /\ Acknowledge(u, arg[u].part, arg[u].digest)
    /\ Return(u)
    /\ UNCHANGED <<dir, partFile, stage, file, away, done, linked>>

PartRecordFail(u) ==
    /\ pc[u] = "recording"
    /\ SaveFailed(u, WithPart(u))
    /\ Fail(u)
    /\ UNCHANGED <<dir, partFile, stage, file, away, history>>

-----------------------------------------------------------------------------
(* Complete: publish *)

\* Seeded fault: a finalizing manifest is taken for an active one.
Enter_Direct(u, call, first) ==
    /\ pc' = [pc EXCEPT ![u] = first]
    /\ op' = [op EXCEPT ![u] = call]
    /\ UNCHANGED <<durable, server, todo, arg, history>>

\* Enter the body of Complete or Cancel; a finalizing manifest is reconciled first.
Enter(u, call, first) ==
    /\ pc' = [pc EXCEPT ![u] = IF InState(u, "finalizing") THEN "recovering" ELSE first]
    /\ op' = [op EXCEPT ![u] = call]
    /\ UNCHANGED <<durable, server, todo, arg, history>>

CompleteBegin(u) ==
    /\ Ready(u)
    /\ Unfinished(u)
    /\ AllRecorded(u)
    /\ Enter(u, "complete", "publishing")

CompleteRepeated(u) ==
    /\ Ready(u) /\ InState(u, "completed")
    /\ done' = [done EXCEPT ![u] = TRUE]
    /\ UNCHANGED <<durable, volatile, acked, linked>>

Finalizing(u) == Record("finalizing", manifest[u].parts, manifest[u].expected, None)

PublishBegin(u) ==
    /\ pc[u] = "publishing"
    /\ Reachable(u) /\ file[Target[u]] = None
    /\ \/ Saved(u, Finalizing(u)) /\ Refreshed(u) /\ Goto(u, "opening")
       \/ SaveFailed(u, Finalizing(u)) /\ Fail(u)
    /\ UNCHANGED <<dir, partFile, stage, file, away, history>>

\* Remove a stale stage and create it anew.
OpenStage(u) ==
    /\ pc[u] = "opening"
    /\ Reachable(u)
    /\ stage' = [stage EXCEPT ![u] = Torn]
    /\ Goto(u, "assembling")
    /\ UNCHANGED <<dir, manifest, partFile, file, away, stale, history>>

\* Append every verified part, sync, and compare the announced digest.  The stage
\* is open: the writing does not notice that its folder was moved or removed.
Assemble(u) ==
    /\ pc[u] = "assembling"
    /\ PartsVerified(u) /\ AllRecorded(u)
    /\ stage' = [stage EXCEPT ![u] = IF @ = None THEN None ELSE partFile[u]]
    /\ Goto(u, IF DigestAgrees(u, partFile[u]) THEN "sealing" ELSE "resetting")
    /\ UNCHANGED <<dir, manifest, partFile, file, away, stale, history>>

Sealed(u) == Record("finalizing", manifest[u].parts, manifest[u].expected, partFile[u])

\* This save leaves ExpiresAt as it was.
SealStage(u) ==
    /\ pc[u] = "sealing"
    /\ \/ Saved(u, Sealed(u)) /\ Goto(u, "linking")
       \/ Faults /\ (Saved(u, Sealed(u)) \/ UNCHANGED manifest) /\ Goto(u, "resetting")
    /\ UNCHANGED <<dir, partFile, stage, file, away, stale, history>>

\* Seeded fault: publication by rename, which replaces an existing file.
Link_Replacing(u) ==
    /\ pc[u] = "linking"
    /\ Reachable(u) /\ stage[u] # None
    /\ file' = [file EXCEPT ![Target[u]] = stage[u]]
    /\ linked' = [linked EXCEPT ![u] = TRUE]
    /\ Goto(u, "syncing")
    /\ UNCHANGED <<dir, manifest, partFile, stage, away, stale, acked, done>>

\* os.Link makes the name atomically and fails if it exists.
Link(u) ==
    /\ pc[u] = "linking"
    /\ Reachable(u) /\ stage[u] # None
    /\ file[Target[u]] = None
    /\ file' = [file EXCEPT ![Target[u]] = stage[u]]
    /\ linked' = [linked EXCEPT ![u] = TRUE]
    /\ Goto(u, "syncing")
    /\ UNCHANGED <<dir, manifest, partFile, stage, away, stale, acked, done>>

SyncDestination(u) ==
    /\ pc[u] = "syncing"
    /\ Reachable(u)
    /\ Goto(u, "marking")
    /\ UNCHANGED <<durable, history>>

\* The name was taken meanwhile, the folder or the stage is gone, or the disk
\* failed: undo the attempt.
PublishError(u) ==
    /\ \/ pc[u] = "linking" /\ (file[Target[u]] # None \/ stage[u] = None)
       \/ pc[u] \in {"opening", "linking"} /\ ~Reachable(u)
       \/ Faults /\ pc[u] \in {"opening", "assembling", "linking"}
    /\ Goto(u, "resetting")
    /\ UNCHANGED <<durable, history>>

\* Seeded fault: a transfer made active again starts from nothing.
Reactivated_Empty(u) == Record("active", NoParts, manifest[u].expected, None)

Reactivated(u) == Record("active", manifest[u].parts, manifest[u].expected, None)

\* Remove the stage if it is where its path says; that it is not is no error.
StageRemoved(u) == stage' = IF Reachable(u) THEN [stage EXCEPT ![u] = None] ELSE stage

\* resetFinalizing removes the stage before it saves the active manifest.
ResetStage(u) ==
    /\ pc[u] = "resetting"
    /\ StageRemoved(u)
    /\ Goto(u, "reactivating")
    /\ UNCHANGED <<dir, manifest, partFile, file, away, stale, history>>

Reactivate(u) ==
    /\ pc[u] = "reactivating"
    /\ \/ Saved(u, Reactivated(u)) /\ Refreshed(u)
       \/ SaveFailed(u, Reactivated(u))
    /\ Fail(u)    \* the reply is the error that led here, or the save's own
    /\ UNCHANGED <<dir, partFile, stage, file, away, history>>

-----------------------------------------------------------------------------
(* markCompleted *)

Completed(u) == Record("completed", NoParts, manifest[u].expected, partFile[u])

\* Seeded fault: the error of the completing save is ignored.
MarkCompleted_Unsaved(u) ==
    /\ pc[u] = "marking"
    /\ Reachable(u)
    /\ \/ Saved(u, Completed(u)) /\ Refreshed(u) /\ Goto(u, "clearing")
       \/ SaveFailed(u, Completed(u)) /\ Goto(u, "clearing")
    /\ UNCHANGED <<dir, partFile, stage, file, away, history>>

MarkCompleted(u) ==
    /\ pc[u] = "marking"
    /\ Reachable(u)
    /\ \/ Saved(u, Completed(u)) /\ Refreshed(u) /\ Goto(u, "clearing")
       \/ SaveFailed(u, Completed(u)) /\ Fail(u)
    /\ UNCHANGED <<dir, partFile, stage, file, away, history>>

CleanupCompleted(u) ==
    /\ pc[u] = "clearing"
    /\ partFile' = [partFile EXCEPT ![u] = NoParts]
    /\ Goto(u, "unstaging")
    /\ UNCHANGED <<dir, manifest, stage, file, away, stale, history>>

\* Cancel answers upload_conflict here, Complete confirms, recovery goes on.
RemoveStage(u) ==
    /\ pc[u] = "unstaging"
    /\ StageRemoved(u)
    /\ done' = [done EXCEPT ![u] = @ \/ op[u] = "complete"]
    /\ Return(u)
    /\ UNCHANGED <<dir, manifest, partFile, file, away, stale, acked, linked>>

-----------------------------------------------------------------------------
(* recoverFinalizing, called by Complete, Cancel and start-up recovery *)

Reconcilable(u) == AllRecorded(u) /\ PartsVerified(u) /\ DigestAgrees(u, partFile[u])

\* Seeded fault: any file under the name is taken for the published one.
AdoptDestination_Unread(u) ==
    /\ pc[u] = "recovering"
    /\ Reachable(u) /\ Reconcilable(u)
    /\ file[Target[u]] # None
    /\ Goto(u, "marking")
    /\ UNCHANGED <<durable, history>>

\* The destination holds exactly the assembled parts: adopt it.
AdoptDestination(u) ==
    /\ pc[u] = "recovering"
    /\ Reachable(u) /\ Reconcilable(u)
    /\ file[Target[u]] = partFile[u]
    /\ Goto(u, "marking")
    /\ UNCHANGED <<durable, history>>

\* Nothing was published: give the stage up.
DiscardStage(u) ==
    \/ /\ pc[u] = "recovering"
       /\ Reachable(u) /\ Reconcilable(u)
       /\ file[Target[u]] = None
       /\ Goto(u, "discarding")
       /\ UNCHANGED <<durable, history>>
    \/ /\ pc[u] = "discarding"
       /\ StageRemoved(u)
       /\ Goto(u, "reviving")
       /\ UNCHANGED <<dir, manifest, partFile, file, away, stale, history>>

\* Parts that do not add up, a folder that is not there, or anything else under
\* the name is an error.
RefuseToReconcile(u) ==
    /\ pc[u] = "recovering"
    /\ ~ (Reachable(u) /\ Reconcilable(u) /\ file[Target[u]] \in {None, partFile[u]})
    /\ Refuse(u)
    /\ UNCHANGED <<durable, history>>

Revive(u) ==
    /\ pc[u] = "reviving"
    /\ \/ Saved(u, Reactivated(u)) /\ Refreshed(u)
          /\ \/ op[u] = "complete" /\ Goto(u, "publishing")
             \/ op[u] = "cancel" /\ Goto(u, "cancelling")
             \/ op[u] = "recover" /\ Return(u)
       \/ SaveFailed(u, Reactivated(u)) /\ Fail(u)
    /\ UNCHANGED <<dir, partFile, stage, file, away, history>>

-----------------------------------------------------------------------------
(* Cancel *)

\* Seeded fault: a completed transfer may be cancelled.
CancelBegin_Completed(u) ==
    /\ Ready(u)
    /\ Unfinished(u) \/ InState(u, "completed")
    /\ Enter(u, "cancel", "cancelling")

CancelBegin(u) ==
    /\ Ready(u)
    /\ Unfinished(u)
    /\ Enter(u, "cancel", "cancelling")

Cancelled(u) == Record("cancelled", manifest[u].parts, manifest[u].expected, None)

CancelSave(u) ==
    /\ pc[u] = "cancelling"
    /\ \/ Saved(u, Cancelled(u)) /\ Refreshed(u) /\ Goto(u, "emptying")
       \/ SaveFailed(u, Cancelled(u)) /\ Fail(u)
    /\ UNCHANGED <<dir, partFile, stage, file, away, history>>

CleanupCancelled(u) ==
    /\ pc[u] = "emptying"
    /\ partFile' = [partFile EXCEPT ![u] = NoParts]
    /\ Return(u)
    /\ UNCHANGED <<dir, manifest, stage, file, away, stale, history>>

-----------------------------------------------------------------------------
(* reapExpiredLocked, from the ticker, from Create and at the end of recovery *)

\* The scan goes through the directories as they are listed and ends at the first
\* manifest it cannot read: it reaches u past readable ones, none expired any more.
ScanReaches(u) ==
    /\ \A v \in Upload : pc[v] \notin {"creating", "reaping"}
    /\ \A v \in Upload : Place[v] < Place[u] => (dir[v] => manifest[v] # None /\ ~stale[v])

\* Seeded faults: the reaper ignores the expiry, or finished transfers.
ReapBegin_Early(u) ==
    /\ server = "up"
    /\ pc[u] = "idle" /\ manifest[u] # None
    /\ pc' = [pc EXCEPT ![u] = "reaping"]
    /\ op' = [op EXCEPT ![u] = "reap"]
    /\ UNCHANGED <<durable, server, todo, arg, history>>

ReapBegin_UnfinishedOnly(u) ==
    /\ server = "up" \/ (server = "recovering" /\ todo = {})
    /\ pc[u] = "idle" /\ ScanReaches(u)
    /\ Unfinished(u) /\ stale[u]
    /\ pc' = [pc EXCEPT ![u] = "reaping"]
    /\ op' = [op EXCEPT ![u] = IF server = "up" THEN "reap" ELSE "recover"]
    /\ UNCHANGED <<durable, server, todo, arg, history>>

ReapBegin(u) ==
    /\ server = "up" \/ (server = "recovering" /\ todo = {})
    /\ pc[u] = "idle" /\ ScanReaches(u)
    /\ manifest[u] # None /\ stale[u]
    /\ pc' = [pc EXCEPT ![u] = "reaping"]
    /\ op' = [op EXCEPT ![u] = IF server = "up" THEN "reap" ELSE "recover"]
    /\ UNCHANGED <<durable, server, todo, arg, history>>

\* os.RemoveAll unlinks the entries of the directory in no particular order.
ReapEntry(u) ==
    /\ pc[u] = "reaping"
    /\ \/ manifest' = [manifest EXCEPT ![u] = None] /\ UNCHANGED partFile
       \/ partFile' = [partFile EXCEPT ![u] = NoParts] /\ UNCHANGED manifest
    /\ UNCHANGED <<dir, stage, file, away, stale, volatile, history>>

ReapDirectory(u) ==
    /\ pc[u] = "reaping"
    /\ manifest[u] = None /\ partFile[u] = NoParts
    /\ dir' = [dir EXCEPT ![u] = FALSE]
    /\ stale' = [stale EXCEPT ![u] = FALSE]
    /\ Return(u)
    /\ UNCHANGED <<manifest, partFile, stage, file, away, history>>

-----------------------------------------------------------------------------
(* Errors that end a handler where it stands: a body that is short, long or *)
(* of another digest, a name already taken, a folder that is not there, an  *)
(* I/O error.                                                               *)

GiveUp(u) ==
    /\ \/ /\ \/ pc[u] = "receiving"
             \/ pc[u] = "publishing" /\ file[Target[u]] # None
             \/ pc[u] \in {"publishing", "opening", "syncing", "marking", "discarding"} /\ ~Reachable(u)
          /\ Refuse(u)
       \/ /\ Faults /\ pc[u] \in {"recording", "publishing", "opening", "syncing", "marking",
                                 "clearing", "unstaging", "resetting", "recovering",
                                 "discarding", "emptying", "reaping"}
          /\ Fail(u)
    /\ UNCHANGED <<durable, history>>

(* Crash, start-up recovery *)

Crash ==
    /\ server \in {"recovering", "up"}
    /\ server' = "down"
    /\ todo' = {}
    /\ pc' = [u \in Upload |-> "idle"]
    /\ op' = [u \in Upload |-> "none"]
    /\ arg' = [u \in Upload |-> NoArg]
    /\ UNCHANGED <<durable, history>>

Start ==
    /\ server \in {"down", "refused"}
    /\ server' = "recovering"
    /\ todo' = {u \in Upload : dir[u]}
    /\ UNCHANGED <<durable, pc, op, arg, history>>

\* recoverLocked goes through the directories as they are listed, too.
Recovering(u) == /\ server = "recovering" /\ u \in todo
                 /\ \A v \in Upload : pc[v] = "idle"
                 /\ \A v \in todo : Place[u] <= Place[v]

\* A terminal transfer: remove the part files a crash left behind.
RecoverTerminal(u) ==
    /\ Recovering(u)
    /\ InState(u, "completed") \/ InState(u, "cancelled")
    /\ partFile' = [partFile EXCEPT ![u] = NoParts]
    /\ todo' = todo \ {u}
    /\ UNCHANGED <<dir, manifest, stage, file, away, stale, server, pc, op, arg, history>>

\* Seeded fault: recovery passes a finalizing transfer by.
RecoverUnfinished_ActiveOnly(u) ==
    /\ Recovering(u)
    /\ Unfinished(u) /\ PartsVerified(u)
    /\ todo' = todo \ {u}
    /\ UNCHANGED <<durable, server, pc, op, arg, history>>

RecoverUnfinished(u) ==
    /\ Recovering(u)
    /\ Unfinished(u) /\ PartsVerified(u)
    /\ IF InState(u, "active")
       THEN todo' = todo \ {u} /\ UNCHANGED <<pc, op>>
       ELSE /\ pc' = [pc EXCEPT ![u] = "recovering"]
            /\ op' = [op EXCEPT ![u] = "recover"]
            /\ UNCHANGED todo
    /\ UNCHANGED <<durable, server, arg, history>>

\* A directory without a manifest, or a recorded part that fails verification;
\* or the disk failed.
RecoverRefuse(u) ==
    /\ Recovering(u)
    /\ \/ manifest[u] = None /\ server' = "refused"
       \/ Unfinished(u) /\ ~PartsVerified(u) /\ server' = "refused"
       \/ Faults /\ server' = "down"
    /\ todo' = {}
    /\ UNCHANGED <<durable, pc, op, arg, history>>

\* Every directory was visited and the expired ones were removed.
RecoverDone ==
    /\ server = "recovering" /\ todo = {}
    /\ \A u \in Upload : pc[u] = "idle" /\ ~stale[u]
    /\ server' = "up"
    /\ UNCHANGED <<durable, todo, pc, op, arg, history>>

-----------------------------------------------------------------------------
(* The users and the clock *)

\* A user makes, replaces or removes the file under a name.
UserFile(n) ==
    /\ n \notin away
    /\ \E c \in (UserContent \cup {None}) \ {file[n]} : file' = [file EXCEPT ![n] = c]
    /\ linked' = [u \in Upload |-> linked[u] /\ Target[u] # n]
    /\ UNCHANGED <<dir, manifest, partFile, stage, away, stale, volatile, acked, done>>

\* The folder of a name is renamed, moved or removed, with all there is in it.
FolderLeaves(n) ==
    /\ n \in Movable \ away
    /\ away' = away \cup {n}
    /\ UNCHANGED <<dir, manifest, partFile, stage, file, stale, volatile, history>>

\* It is back: the folder as it was, or a new and empty one in its place.
FolderReturns(n) ==
    /\ n \in away
    /\ away' = away \ {n}
    /\ \/ UNCHANGED <<stage, file, linked>>
       \/ /\ stage' = [u \in Upload |-> IF Target[u] = n THEN None ELSE stage[u]]
          /\ file' = [file EXCEPT ![n] = None]
          /\ linked' = [u \in Upload |-> linked[u] /\ Target[u] # n]
    /\ UNCHANGED <<dir, manifest, partFile, stale, volatile, acked, done>>

Expire(u) ==
    /\ manifest[u] # None /\ ~stale[u]
    /\ stale' = [stale EXCEPT ![u] = TRUE]
    /\ UNCHANGED <<dir, manifest, partFile, stage, file, away, volatile, history>>

-----------------------------------------------------------------------------

\* A request arrives at a transfer nobody holds.
Request(u) ==
    \/ CreateBegin(u)
    \/ \E p \in Part : PartRepeated(u, p) \/ \E d \in Data : PartBegin(u, p, d)
    \/ CompleteBegin(u) \/ CompleteRepeated(u) \/ CancelBegin(u)

\* The handler holding the transfer's lock takes its next step.
Proceed(u) ==
    \/ CreateSave(u) \/ CreateFail(u)
    \/ (\E body \in Data : PartReceive(u, body)) \/ PartRecord(u) \/ PartRecordFail(u)
    \/ PublishBegin(u) \/ OpenStage(u) \/ Assemble(u) \/ SealStage(u) \/ Link(u)
    \/ SyncDestination(u) \/ PublishError(u) \/ ResetStage(u) \/ Reactivate(u)
    \/ MarkCompleted(u) \/ CleanupCompleted(u) \/ RemoveStage(u)
    \/ AdoptDestination(u) \/ DiscardStage(u) \/ RefuseToReconcile(u) \/ Revive(u)
    \/ CancelSave(u) \/ CleanupCancelled(u)
    \/ ReapEntry(u) \/ ReapDirectory(u) \/ GiveUp(u)

Recover(u) == RecoverTerminal(u) \/ RecoverUnfinished(u) \/ RecoverRefuse(u)

Next ==
    \/ \E u \in Upload : Request(u) \/ Proceed(u) \/ ReapBegin(u) \/ Recover(u) \/ Expire(u)
    \/ Start \/ RecoverDone \/ Crash
    \/ \E n \in Name : UserFile(n) \/ FolderLeaves(n) \/ FolderReturns(n)

Spec == Init /\ [][Next]_vars

-----------------------------------------------------------------------------
(* Properties *)

DiskOK ==
    /\ dir \in [Upload -> BOOLEAN]
    /\ manifest \in [Upload -> Manifest \cup {None}]
    /\ partFile \in [Upload -> [Part -> Data \cup {None}]]
    /\ stage \in [Upload -> Assembled \cup {Torn, None}]
    /\ file \in [Name -> Content \cup {None}]
    /\ away \in SUBSET Movable
    /\ stale \in [Upload -> BOOLEAN]

ProcessOK ==
    /\ server \in {"down", "recovering", "up", "refused"}
    /\ todo \in SUBSET Upload
    /\ pc \in [Upload -> Step]
    /\ op \in [Upload -> {"none", "complete", "cancel", "recover", "reap"}]
    /\ arg \in [Upload -> [part : Part \cup {None}, digest : Data \cup {None}]]

HistoryOK ==
    /\ acked \in [Upload -> [Part -> Data \cup {None}]]
    /\ done \in [Upload -> BOOLEAN]
    /\ linked \in [Upload -> BOOLEAN]

\* Every variable keeps to its type: a manifest passes validateManifest, and
\* what is published or recorded as final is always a whole file.
TypeOK == DiskOK /\ ProcessOK /\ HistoryOK

\* Whatever step failed and wherever the process died, a transfer a client may
\* still use has every part its manifest records, byte for byte.  WritePart,
\* publish and recovery each remove or replace part files around that record;
\* only a transfer past its expiry, which no request can reach, may lack some.
RecordedPartsIntact == \A u \in Upload : Unfinished(u) /\ ~stale[u] => PartsVerified(u)

\* A part the server has confirmed is never asked for again nor replaced: it
\* stays in the manifest while the transfer is unfinished, through crashes,
\* failed saves and abandoned publications, and ends up in the published file.
AckedPartsSurvive ==
    \A u \in Upload, p \in Part : acked[u][p] # None =>
        /\ Unfinished(u) => manifest[u].parts[p] = acked[u][p]
        /\ InState(u, "completed") => manifest[u].final[p] = acked[u][p]

\* While the file a transfer linked is still under its name, the manifest
\* remembers that it was: the transfer can be completed, but it is neither
\* cancelled ("DELETE never deletes a published file") nor open to new parts.
PublicationRemembered ==
    \A u \in Upload : linked[u] /\ manifest[u] # None =>
        manifest[u].state \in {"finalizing", "completed"}

\* A confirmed completion is never taken back.
ConfirmedCompletionStands == \A u \in Upload : done[u] /\ manifest[u] # None => InState(u, "completed")

\* The store changes the user's directory in one way only: under a free name
\* it puts the whole file a finalizing transfer has promised, every confirmed
\* part included.  It never replaces or removes a file.
PublishesExactly ==
    [][\A n \in Name : file'[n] # file[n] =>
          \/ UserFile(n) \/ FolderReturns(n)
          \/ /\ file[n] = None
             /\ \E u \in Upload : /\ Target[u] = n /\ InState(u, "finalizing")
                                  /\ file'[n] = manifest[u].parts
                                  /\ DigestAgrees(u, file'[n])]_vars

\* A completed or cancelled transfer keeps its manifest until it has expired.
TerminalIsFinal ==
    [][\A u \in Upload : InState(u, "completed") \/ InState(u, "cancelled") =>
          manifest'[u] = manifest[u] \/ (manifest'[u] = None /\ stale[u])]_vars

\* Whatever failed before, what start-up finds on the disk is refused only if it
\* is one of these: a directory whose manifest is not there yet or already gone, an
\* expired transfer half removed, or an unfinished publication whose folder is
\* not there, whose name holds another file or whose parts contradict the
\* announced digest.
RefusalExplained ==
    [][server # "refused" /\ server' = "refused" => \E u \in Upload : dir[u] /\
          \/ manifest[u] = None
          \/ Unfinished(u) /\ stale[u] /\ ~PartsVerified(u)
          \/ /\ InState(u, "finalizing") /\ PartsVerified(u)
             /\ \/ ~Reachable(u)
                \/ file[Target[u]] \notin {None, manifest[u].parts}
                \/ ~DigestAgrees(u, manifest[u].parts)]_vars

\* A process that comes up has reconciled what the last one left, whatever it
\* was and whatever failed meanwhile: every transfer is active with every recorded
\* part in place, or finished with its part files gone.
Reconciled(u) ==
    \/ InState(u, "active") /\ PartsVerified(u)
    \/ (InState(u, "completed") \/ InState(u, "cancelled")) /\ partFile[u] = NoParts

StartupReconciles ==
    [][server # "up" /\ server' = "up" => \A u \in Upload : dir[u] => Reconciled(u)]_vars

\* upload_store.go:281-284 calls an unfinished publication "the only ambiguous
\* durable state": only such a state could make start-up refuse.
OnlyPublicationIsAmbiguous ==
    server = "refused" => \E u \in Upload : InState(u, "finalizing")

-----------------------------------------------------------------------------
(* Fairness: a goroutine runs until its call returns (bodies are bounded by *)
(* the server's read timeout), the reaper's ticker keeps firing and Go's    *)
(* mutexes do not starve it.  Requests, users, crashes, restarts and the    *)
(* progress of start-up are free.                                           *)

FairSpec == Spec /\ \A u \in Upload : WF_vars(Proceed(u)) /\ SF_vars(ReapBegin(u))

\* A process that stays up reclaims every expired transfer, finished or not,
\* unless a write that was under way renews it.
ExpiredIsReclaimed ==
    <>[](server = "up") => \A u \in Upload : stale[u] ~> ~stale[u]

-----------------------------------------------------------------------------
(* The promise to the client, refined: publication is the link, completion *)
(* the completed manifest.                                                 *)

StatusOf(m) == IF m = None THEN "none" ELSE IF m.state = "finalizing" THEN "active" ELSE m.state
DigestOf(m) == IF m = None THEN None ELSE m.expected
PartsOf(m) == IF m = None THEN NoParts ELSE IF m.state = "completed" THEN m.final ELSE m.parts

promisedStatus == [u \in Upload |-> StatusOf(manifest[u])]
promisedDigest == [u \in Upload |-> DigestOf(manifest[u])]
receivedParts == [u \in Upload |-> PartsOf(manifest[u])]
ownFile == [u \in Upload |-> linked[u] /\ manifest[u] # None]
seenThere == [u \in Upload |-> pc[u] \in {"syncing", "marking"}]

Promise == INSTANCE ReliableUpload WITH
    status <- promisedStatus, announced <- promisedDigest, received <- receivedParts,
    own <- ownFile, seen <- seenThere

\* Every step of the handlers, of a crash and of recovery is a step of the
\* abstract upload or invisible to it.
KeepsPromise == Promise!Spec
=============================================================================
